------------------------ MODULE ProxySessionsProofs ------------------------
(***************************************************************************)
(* Theorems about ProxySessions, for any number of connections and any     *)
(* scripts of their clients.                                               *)
(***************************************************************************)
EXTENDS ProxySessions, SequenceTheorems, TLAPS

Serving(c) == {Service!Accepted(c), Service!Sent(c)} \cup {Service!Settled(c, o) : o \in Outcomes}

Phases == {"none", "backlog", "detect", "handshake", "read", "handle", "write", "shutdown", "closed"}

Types ==
    /\ phase \in [Conns -> Phases]
    /\ tls \in [Conns -> BOOLEAN]
    /\ job = [g \in {Proxy} |-> job[Proxy]] /\ reply = [g \in {Proxy} |-> reply[Proxy]]
    /\ response = [c \in Conns |-> response[c]] /\ consumed = [c \in Conns |-> consumed[c]]

(* handle_request serves the session that called it, and none when the     *)
(* thread runs no handler.                                                 *)
Calling(c) == phase[c] = "handle" => job[Proxy] \in Serving(c)

(* A response is of the session's own request, and whoever is past its     *)
(* writing has one; only a TLS stream may be shut down without.            *)
Answering(c) ==
    /\ response[c] \in {Service!NoReply, Service!Failed} \cup {Service!Served(c, o) : o \in Outcomes}
    /\ phase[c] = "write" => response[c] # Service!NoReply
    /\ phase[c] = "shutdown" /\ consumed[c] # Handshake => response[c] # Service!NoReply

(* The stream is encrypted from the detector on, and its handshake is all  *)
(* that is consumed before the first request.                              *)
Streaming(c) ==
    /\ phase[c] \in {"none", "backlog", "detect"} => ~tls[c]
    /\ phase[c] = "read" /\ tls[c] => consumed[c] = Handshake

SessionsInv == Types /\ \A c \in Conns : Calling(c) /\ Answering(c) /\ Streaming(c)

(* A connection waits once for the listener, and has no session meanwhile. *)
Waiting ==
    /\ backlog \in Seq(Conns)
    /\ \A i \in 1..Len(backlog) : phase[backlog[i]] = "backlog"
    /\ \A i, j \in 1..Len(backlog) : backlog[i] = backlog[j] => i = j

ProxyInv == SessionsInv /\ Waiting

LEMMA Jobs ==
    ASSUME NEW c
    PROVE  /\ Service!Idle \notin Serving(c) /\ Service!Dead \notin Serving(c)
           /\ \A d : Serving(c) \cap Serving(d) # {} => c = d
           /\ \A j \in Serving(c) : "req" \in DOMAIN j /\ j.req = c
<1>1. \A j \in Serving(c) : /\ "req" \in DOMAIN j /\ j.req = c
                           /\ j.phase \in {"accepted", "sent", "settled"}
  <2> SUFFICES ASSUME NEW j \in Serving(c)
               PROVE  "req" \in DOMAIN j /\ j.req = c /\ j.phase \in {"accepted", "sent", "settled"}
    OBVIOUS
  <2>1. CASE j = Service!Accepted(c)
    BY <2>1 DEF Service!Accepted
  <2>2. CASE j = Service!Sent(c)
    BY <2>2 DEF Service!Sent
  <2>3. ASSUME NEW o \in Outcomes, j = Service!Settled(c, o)
        PROVE  "req" \in DOMAIN j /\ j.req = c /\ j.phase \in {"accepted", "sent", "settled"}
    BY <2>3 DEF Service!Settled
  <2> QED
    BY <2>1, <2>2, <2>3 DEF Serving
<1>2. \A d : \A j \in Serving(d) : j.req = d
  BY DEF Serving, Service!Accepted, Service!Sent, Service!Settled
<1>3. Service!Idle.phase = "idle" /\ Service!Dead.phase = "dead"
  BY DEF Service!Idle, Service!Dead
<1>4. \A d : Serving(c) \cap Serving(d) # {} => c = d
  BY <1>1, <1>2
<1> QED
  BY <1>1, <1>3, <1>4

LEMMA Replies ==
    /\ Service!Failed # Service!NoReply
    /\ \A c, o : Service!Served(c, o) # Service!NoReply
  BY DEF Service!Failed, Service!NoReply, Service!Served

LEMMA InitInv == Init => ProxyInv
<1> SUFFICES ASSUME Init PROVE ProxyInv
  OBVIOUS
<1>1. Types
  BY DEF Init, Types, Phases, Service!Init
<1>2. ASSUME NEW c \in Conns PROVE Calling(c) /\ Answering(c) /\ Streaming(c)
  BY DEF Init, Calling, Answering, Streaming
<1>3. Waiting
  BY DEF Init, Waiting
<1> QED
  BY <1>1, <1>2, <1>3 DEF ProxyInv, SessionsInv

(* A step of one session that is not a call of handle_request, nor its     *)
(* return.                                                                 *)
LEMMA SessionStep ==
    ASSUME SessionsInv, NEW c \in Conns, NEW there \in Phases \ {"handle"},
           phase' = [phase EXCEPT ![c] = there], UNCHANGED <<serviceVars, response>>,
           tls' \in [Conns -> BOOLEAN], consumed' = [d \in Conns |-> consumed'[d]],
           \A d \in Conns \ {c} : tls'[d] = tls[d] /\ consumed'[d] = consumed[d],
           there \in {"none", "backlog", "detect"} => ~tls'[c],
           there = "read" /\ tls'[c] => consumed'[c] = Handshake,
           there = "write" => phase[c] = "write",
           there = "shutdown" /\ consumed'[c] # Handshake => response[c] # Service!NoReply
    PROVE  SessionsInv'
<1>1. Types'
  BY DEF SessionsInv, Types, serviceVars
<1>2. ASSUME NEW d \in Conns PROVE Calling(d)' /\ Answering(d)' /\ Streaming(d)'
  <2>1. CASE d = c
    BY <2>1 DEF SessionsInv, Types, Calling, Answering, Streaming, serviceVars, Serving
  <2>2. CASE d # c
    BY <2>2 DEF SessionsInv, Types, Calling, Answering, Streaming, serviceVars, Serving
  <2> QED
    BY <2>1, <2>2
<1> QED
  BY <1>1, <1>2 DEF SessionsInv

(* Only a connection that waits for the listener is in its backlog.        *)
LEMMA WaitingStays ==
    ASSUME ProxyInv, UNCHANGED backlog,
           \A c \in Conns : phase[c] = "backlog" => phase'[c] = "backlog"
    PROVE  Waiting'
  BY DEF ProxyInv, Waiting

(* Steps that change nothing the invariant speaks of. *)
LEMMA Elsewhere ==
    ASSUME ProxyInv, UNCHANGED <<job, reply, phase, tls, consumed, response, backlog>>
    PROVE  ProxyInv'
  BY DEF ProxyInv, SessionsInv, Types, Calling, Answering, Streaming, Serving, Waiting

LEMMA ConnectKeeps ==
    ASSUME ProxyInv, NEW c \in Conns, Connect(c) PROVE ProxyInv'
<1>1. UNCHANGED <<serviceVars, response, tls, consumed>> /\ phase[c] = "none"
      /\ phase' = [phase EXCEPT ![c] = "backlog"] /\ backlog' = Append(backlog, c)
  BY DEF Connect, streamVars
<1>2. SessionsInv'
  BY <1>1, SessionStep DEF ProxyInv, SessionsInv, Types, Streaming, Phases
<1>3. \A i \in 1..Len(backlog) : backlog[i] \in Conns /\ backlog[i] # c
  BY <1>1 DEF ProxyInv, Waiting
<1>4. Waiting'
  BY <1>1, <1>3 DEF ProxyInv, Waiting, SessionsInv, Types
<1> QED
  BY <1>2, <1>4 DEF ProxyInv

LEMMA AcceptKeeps ==
    ASSUME ProxyInv, OnAccept PROVE ProxyInv'
<1> DEFINE c == Head(backlog)
<1>1. c \in Conns /\ phase[c] = "backlog" /\ Len(backlog) \in Nat \ {0} /\ c = backlog[1]
  BY DEF OnAccept, ProxyInv, Waiting
<1>2. UNCHANGED <<serviceVars, response, tls, consumed>> /\ backlog' = Tail(backlog)
      /\ phase' = [phase EXCEPT ![c] = "detect"]
  BY DEF OnAccept, streamVars
<1>3. SessionsInv'
  <2> HIDE DEF c
  <2> QED
    BY <1>1, <1>2, SessionStep DEF ProxyInv, SessionsInv, Types, Streaming, Phases
<1>4. Tail(backlog) \in Seq(Conns) /\ Len(Tail(backlog)) = Len(backlog) - 1
      /\ \A i \in 1..Len(Tail(backlog)) : Tail(backlog)[i] = backlog[i + 1]
  BY <1>1 DEF ProxyInv, Waiting
<1>5. \A i \in 1..Len(Tail(backlog)) : backlog[i + 1] # c /\ backlog[i + 1] \in Conns
                                       /\ phase[backlog[i + 1]] = "backlog"
  BY <1>1, <1>4 DEF ProxyInv, Waiting
<1>6. Waiting'
  <2>1. \A i \in 1..Len(Tail(backlog)) : phase'[Tail(backlog)[i]] = "backlog"
    BY <1>2, <1>4, <1>5 DEF ProxyInv, SessionsInv, Types
  <2>2. \A i, j \in 1..Len(Tail(backlog)) : Tail(backlog)[i] = Tail(backlog)[j] => i = j
    BY <1>1, <1>4 DEF ProxyInv, Waiting
  <2> QED
    BY <1>2, <1>4, <2>1, <2>2 DEF Waiting
<1> QED
  BY <1>3, <1>6 DEF ProxyInv

(* A session whose handler starts no other is closed. *)
LEMMA CloseKeeps ==
    ASSUME ProxyInv, NEW c \in Conns, NEW got, Close(c, got), UNCHANGED <<streamVars, response>>,
           phase[c] # "backlog"
    PROVE  ProxyInv'
<1>1. UNCHANGED <<serviceVars, response, tls, consumed, backlog>> /\ phase' = [phase EXCEPT ![c] = "closed"]
  BY DEF Close, CloseAs, streamVars, listenVars
<1>2. SessionsInv'
  BY <1>1, SessionStep DEF ProxyInv, SessionsInv, Types, Phases
<1> QED
  BY <1>1, <1>2, WaitingStays DEF ProxyInv, SessionsInv, Types

(* Detector, handshake and shutdown: one session goes on to its next       *)
(* operation.                                                              *)
LEMMA DetectKeeps ==
    ASSUME ProxyInv, NEW c \in Conns, OnDetectSsl(c) \/ OnDetectPlain(c) \/ OnHandshake(c)
    PROVE  ProxyInv'
<1>1. CASE OnDetectSsl(c)
  <2>1. UNCHANGED <<serviceVars, response, consumed, backlog>> /\ phase[c] = "detect"
        /\ phase' = [phase EXCEPT ![c] = "handshake"] /\ tls' = [tls EXCEPT ![c] = TRUE]
    BY <1>1 DEF OnDetectSsl, Pending, listenVars
  <2>2. SessionsInv'
    BY <2>1, SessionStep DEF ProxyInv, SessionsInv, Types, Phases
  <2> QED
    BY <2>1, <2>2, WaitingStays DEF ProxyInv, SessionsInv, Types
<1>2. CASE OnDetectPlain(c)
  <2>1. UNCHANGED <<serviceVars, response, consumed, tls, backlog>> /\ phase[c] = "detect"
        /\ phase' = [phase EXCEPT ![c] = "read"]
    BY <1>2 DEF OnDetectPlain, Pending, listenVars, streamVars
  <2>2. SessionsInv'
    BY <2>1, SessionStep DEF ProxyInv, SessionsInv, Types, Streaming, Phases
  <2> QED
    BY <2>1, <2>2, WaitingStays DEF ProxyInv, SessionsInv, Types
<1>3. CASE OnHandshake(c)
  <2>1. UNCHANGED <<serviceVars, response, tls, backlog>> /\ phase[c] = "handshake"
        /\ phase' = [phase EXCEPT ![c] = "read"] /\ consumed' = [consumed EXCEPT ![c] = Handshake]
    BY <1>3 DEF OnHandshake, Pending, listenVars
  <2>2. SessionsInv'
    BY <2>1, SessionStep DEF ProxyInv, SessionsInv, Types, Phases
  <2> QED
    BY <2>1, <2>2, WaitingStays DEF ProxyInv, SessionsInv, Types
<1> QED
  BY <1>1, <1>2, <1>3

LEMMA ShutdownKeeps ==
    ASSUME ProxyInv, NEW c \in Conns, OnWriteSsl(c) \/ OnReadEnd(c)
    PROVE  ProxyInv'
<1>1. UNCHANGED <<serviceVars, response, tls, consumed, backlog>> /\ phase[c] # "backlog"
      /\ phase' = [phase EXCEPT ![c] = "shutdown"]
  BY DEF OnWriteSsl, OnReadEnd, Pending, listenVars, streamVars
<1>2. consumed[c] # Handshake => response[c] # Service!NoReply
  <2>1. CASE OnWriteSsl(c)
    BY <2>1 DEF ProxyInv, SessionsInv, Answering, OnWriteSsl, Pending
  <2>2. CASE OnReadEnd(c)
    BY <2>2 DEF ProxyInv, SessionsInv, Streaming, OnReadEnd, Pending
  <2> QED
    BY <2>1, <2>2
<1>3. SessionsInv'
  BY <1>1, <1>2, SessionStep DEF ProxyInv, SessionsInv, Types, Phases
<1> QED
  BY <1>1, <1>3, WaitingStays DEF ProxyInv, SessionsInv, Types

(* on_read calls handle_request when the thread is in no other call.       *)
LEMMA ReadKeeps ==
    ASSUME ProxyInv, NEW c \in Conns, OnRead(c)
    PROVE  ProxyInv'
<1>1. /\ phase[c] = "read" /\ job[Proxy] = Service!Idle
      /\ phase' = [phase EXCEPT ![c] = "handle"]
      /\ job' = [job EXCEPT ![Proxy] = Service!Accepted(c)]
      /\ reply' = [reply EXCEPT ![Proxy] = Service!NoReply]
      /\ UNCHANGED <<tls, response, backlog>>
      /\ consumed' = [consumed EXCEPT ![c] = @ \o Whole]
  BY DEF OnRead, Pending, Ready, Service!Accept, Service!Become, listenVars
<1>2. Types'
  BY <1>1 DEF ProxyInv, SessionsInv, Types, Phases, Proxy
<1>3. ASSUME NEW d \in Conns PROVE Calling(d)'
  <2>1. CASE d = c
    BY <1>1, <2>1 DEF ProxyInv, SessionsInv, Types, Calling, Serving, Proxy
  <2>2. CASE d # c
    BY <1>1, <2>2, Jobs DEF ProxyInv, SessionsInv, Types, Calling
  <2> QED
    BY <2>1, <2>2
<1>4. ASSUME NEW d \in Conns PROVE Answering(d)' /\ Streaming(d)'
  BY <1>1 DEF ProxyInv, SessionsInv, Types, Answering, Streaming
<1> QED
  BY <1>1, <1>2, <1>3, <1>4, WaitingStays DEF ProxyInv, SessionsInv, Types

(* handle_request returns to the session that called it. *)
LEMMA ReturnKeeps ==
    ASSUME ProxyInv, NEW c \in Conns, SendResponse(c)
    PROVE  ProxyInv'
<1>1. PICK o \in Outcomes : Service!Answer(Proxy, c, o)
  BY DEF SendResponse
<1>2. /\ job[Proxy] = Service!Settled(c, o) /\ phase[c] = "handle"
      /\ job' = [job EXCEPT ![Proxy] = Service!Idle]
      /\ reply' = [reply EXCEPT ![Proxy] = IF o.status = 0 THEN Service!Failed ELSE Service!Served(c, o)]
      /\ phase' = [phase EXCEPT ![c] = "write"]
      /\ response' = [response EXCEPT ![c] = reply'[Proxy]]
      /\ UNCHANGED <<tls, consumed, backlog>>
  BY <1>1 DEF SendResponse, Service!Answer, Service!Become, Response, listenVars, streamVars
<1>3. reply'[Proxy] \in {Service!Failed} \cup {Service!Served(c, p) : p \in Outcomes}
  BY <1>2 DEF ProxyInv, SessionsInv, Types, Proxy
<1>4. Types'
  BY <1>2 DEF ProxyInv, SessionsInv, Types, Phases, Proxy
<1>5. ASSUME NEW d \in Conns PROVE Calling(d)'
  <2>1. job[Proxy] \in Serving(c)
    BY <1>2 DEF Serving
  <2>2. phase[d] = "handle" => d = c
    BY <2>1, Jobs DEF ProxyInv, SessionsInv, Calling
  <2> QED
    BY <1>2, <2>2 DEF ProxyInv, SessionsInv, Types, Calling
<1>6. ASSUME NEW d \in Conns PROVE Answering(d)' /\ Streaming(d)'
  <2>1. CASE d = c
    <3>1. response'[c] = reply'[Proxy] /\ phase'[c] = "write"
      BY <1>2 DEF ProxyInv, SessionsInv, Types
    <3>2. response'[c] # Service!NoReply
      BY <1>3, <3>1, Replies
    <3> QED
      BY <1>3, <2>1, <3>1, <3>2 DEF Answering, Streaming
  <2>2. CASE d # c
    BY <1>2, <2>2 DEF ProxyInv, SessionsInv, Types, Answering, Streaming
  <2> QED
    BY <2>1, <2>2
<1> QED
  BY <1>2, <1>4, <1>5, <1>6, WaitingStays DEF ProxyInv, SessionsInv, Types

(* Inside the call the job stays that of its session. *)
LEMMA FetchingKeeps ==
    ASSUME ProxyInv, Fetching
    PROVE  ProxyInv'
<1>1. PICK c \in Conns : Service!Send(Proxy, c) \/ \E o \in Outcomes : Service!Settle(Proxy, c, o)
  BY DEF Fetching
<1>2. PICK j \in Serving(c) : job[Proxy] \in Serving(c) /\ job' = [job EXCEPT ![Proxy] = j] /\ reply' = reply
  BY <1>1 DEF Service!Send, Service!Settle, Service!Become, Serving
<1>3. UNCHANGED <<phase, tls, consumed, response, backlog>>
  BY DEF Fetching, listenVars, streamVars
<1>4. Types'
  BY <1>2, <1>3 DEF ProxyInv, SessionsInv, Types, Proxy
<1>5. ASSUME NEW d \in Conns PROVE Calling(d)'
  <2>1. phase[d] = "handle" => d = c
    BY <1>2, Jobs DEF ProxyInv, SessionsInv, Calling
  <2> QED
    BY <1>2, <1>3, <2>1 DEF ProxyInv, SessionsInv, Types, Calling, Proxy, Serving
<1>6. ASSUME NEW d \in Conns PROVE Answering(d)' /\ Streaming(d)'
  BY <1>3 DEF ProxyInv, SessionsInv, Answering, Streaming
<1> QED
  BY <1>3, <1>4, <1>5, <1>6, WaitingStays DEF ProxyInv, SessionsInv

LEMMA DieKeeps ==
    ASSUME ProxyInv, Die
    PROVE  ProxyInv'
<1>1. /\ job' = [job EXCEPT ![Proxy] = Service!Dead] /\ reply' = reply /\ backlog' = <<>>
      /\ phase' = [c \in Conns |-> IF phase[c] = "none" THEN "none" ELSE "closed"]
      /\ UNCHANGED <<tls, consumed, response>>
  BY DEF Die, Service!Die, Service!Become, streamVars
<1>2. Types'
  BY <1>1 DEF ProxyInv, SessionsInv, Types, Phases, Proxy
<1>3. ASSUME NEW c \in Conns PROVE Calling(c)' /\ Answering(c)' /\ Streaming(c)'
  BY <1>1 DEF ProxyInv, SessionsInv, Types, Calling, Answering, Streaming
<1>4. Waiting'
  BY <1>1 DEF Waiting
<1> QED
  BY <1>2, <1>3, <1>4 DEF ProxyInv, SessionsInv

LEMMA RestartKeeps ==
    ASSUME ProxyInv, Restart
    PROVE  ProxyInv'
<1>1. /\ job[Proxy] = Service!Dead /\ job' = [job EXCEPT ![Proxy] = Service!Idle] /\ reply' = reply
      /\ UNCHANGED <<phase, backlog, tls, consumed, response>>
  BY DEF Restart, Service!Recover, Service!Become, streamVars
<1>2. Types' /\ Waiting'
  BY <1>1 DEF ProxyInv, SessionsInv, Types, Waiting, Proxy
<1>3. ASSUME NEW c \in Conns PROVE Calling(c)' /\ Answering(c)' /\ Streaming(c)'
  BY <1>1, Jobs DEF ProxyInv, SessionsInv, Types, Calling, Answering, Streaming
<1> QED
  BY <1>2, <1>3 DEF ProxyInv, SessionsInv

LEMMA NextInv == ProxyInv /\ [Next]_vars => ProxyInv'
<1> SUFFICES ASSUME ProxyInv, [Next]_vars PROVE ProxyInv'
  OBVIOUS
<1>1. CASE OnAcceptError \/ Stop \/ Over \/ UNCHANGED vars
  BY <1>1, Elsewhere DEF OnAcceptError, Stop, Service!Stop, Over, vars, serviceVars, streamVars, listenVars
<1>2. ASSUME NEW c \in Conns, Send(c) \/ Leave(c) \/ Receive(c) \/ Decrypt(c) PROVE ProxyInv'
  BY <1>2, Elsewhere DEF Send, Leave, Receive, Decrypt, serviceVars, streamVars, listenVars
<1>3. ASSUME NEW c \in Conns, OnWritePlain(c) \/ OnError(c) \/ OnShutdown(c) PROVE ProxyInv'
  <2>1. phase[c] # "backlog" /\ (\E got : Close(c, got)) /\ UNCHANGED <<streamVars, response>>
    BY <1>3 DEF OnWritePlain, OnError, OnShutdown, Pending, Broken
  <2> QED
    BY <2>1, CloseKeeps
<1> QED
  BY <1>1, <1>2, <1>3, ConnectKeeps, AcceptKeeps, DetectKeeps, ShutdownKeeps, ReadKeeps, ReturnKeeps,
     FetchingKeeps, DieKeeps, RestartKeeps DEF Next, Handler, OnWrite

(* The thread is inside handle_request for one session at a time, and each *)
(* session writes what the browser got for its own request, however the    *)
(* connections, the failures and the restarts of the process interleave.   *)
THEOREM OwnResponses == Spec => []OwnResponse
<1>1. ProxyInv => OwnResponse
  BY Jobs DEF ProxyInv, SessionsInv, Calling, Answering, OwnResponse
<1> QED
  BY <1>1, InitInv, NextInv, PTL DEF Spec
-----------------------------------------------------------------------------
(* The units of a stream.  What a sequence starts with, and the rest of it.*)
LEMMA Literals ==
    /\ Hello \in Seq(Units) /\ Len(Hello) = 2 /\ Hello[1] = "hel" /\ Hello[2] = "lo"
    /\ Handshake \in Seq(Units) /\ Len(Handshake) = 3
    /\ Handshake[1] = "hel" /\ Handshake[2] = "lo" /\ Handshake[3] = "finished"
    /\ Request \in Seq(Units) /\ Len(Request) = 2 /\ Request[1] = "head" /\ Request[2] = "body"
<1>1. Hello \in Seq(Units) /\ Len(Hello) = 2 /\ Hello[1] = "hel" /\ Hello[2] = "lo"
  BY DEF Hello, Units
<1>2. <<"finished">> \in Seq(Units) /\ Len(<<"finished">>) = 1 /\ <<"finished">>[1] = "finished"
  BY DEF Units
<1>3. Request \in Seq(Units) /\ Len(Request) = 2 /\ Request[1] = "head" /\ Request[2] = "body"
  BY DEF Request, Units
<1> QED
  BY <1>1, <1>2, <1>3, ConcatProperties DEF Handshake

Tls == Handshake \o Request

LEMMA TlsUnits ==
    /\ Tls \in Seq(Units) /\ Len(Tls) = 5
    /\ \A i \in 1..3 : Tls[i] = Handshake[i]
    /\ \A i \in 1..2 : Tls[3 + i] = Request[i]
<1>1. Handshake \in Seq(Units) /\ Len(Handshake) = 3 /\ Request \in Seq(Units) /\ Len(Request) = 2
  BY Literals
<1>2. /\ Tls \in Seq(Units) /\ Len(Tls) = Len(Handshake) + Len(Request)
      /\ \A i \in 1..Len(Handshake) + Len(Request) :
            Tls[i] = IF i <= Len(Handshake) THEN Handshake[i] ELSE Request[i - Len(Handshake)]
  BY <1>1, ConcatProperties DEF Tls
<1>3. \A i \in 1..3 : Tls[i] = Handshake[i]
  BY <1>1, <1>2
<1>4. \A i \in 1..2 : 3 + i \in 1..5 /\ ~(3 + i <= 3) /\ (3 + i) - 3 = i
  OBVIOUS
<1>5. \A i \in 1..2 : Tls[3 + i] = Request[i]
  BY <1>1, <1>2, <1>4
<1> QED
  BY <1>1, <1>2, <1>3, <1>5

LEMMA StartsUnits ==
    ASSUME NEW s \in Seq(Units), NEW b \in Seq(Units)
    PROVE  Starts(s, b) <=> Len(s) <= Len(b) /\ \A i \in 1..Len(s) : b[i] = s[i]
<1>1. CASE Len(s) <= Len(b)
  <2>1. /\ SubSeq(b, 1, Len(s)) \in Seq(Units) /\ Len(SubSeq(b, 1, Len(s))) = Len(s)
        /\ \A i \in 1..Len(s) : SubSeq(b, 1, Len(s))[i] = b[i]
    BY <1>1, SubSeqProperties
  <2> QED
    BY <1>1, <2>1, SeqEqual DEF Starts
<1>2. CASE ~(Len(s) <= Len(b))
  BY <1>2 DEF Starts
<1> QED
  BY <1>1, <1>2

LEMMA HelloUnits ==
    ASSUME NEW b \in Seq(Units)
    PROVE  /\ Starts(Hello, b) <=> Len(b) >= 2 /\ b[1] = "hel" /\ b[2] = "lo"
           /\ Starts(Bare, b) <=> Len(b) >= 2 /\ b[1] = "hel" /\ b[2] = "bare"
           /\ IsHello(b) <=> Len(b) >= 2 /\ b[1] = "hel" /\ b[2] \in {"lo", "bare"}
<1>1. Bare \in Seq(Units) /\ Len(Bare) = 2 /\ Bare[1] = "hel" /\ Bare[2] = "bare"
  BY DEF Bare, Units
<1>2. Len(b) \in Nat /\ \A i \in 1..2 : i = 1 \/ i = 2
  OBVIOUS
<1>3. Starts(Hello, b) <=> Len(b) >= 2 /\ b[1] = "hel" /\ b[2] = "lo"
  <2>1. Starts(Hello, b) <=> 2 <= Len(b) /\ \A i \in 1..2 : b[i] = Hello[i]
    <3>1. Starts(Hello, b) <=> Len(Hello) <= Len(b) /\ \A i \in 1..Len(Hello) : b[i] = Hello[i]
      BY Literals, StartsUnits
    <3> QED
      BY <3>1, Literals
  <2> QED
    BY <1>2, <2>1, Literals
<1>4. Starts(Bare, b) <=> Len(b) >= 2 /\ b[1] = "hel" /\ b[2] = "bare"
  <2>1. Starts(Bare, b) <=> 2 <= Len(b) /\ \A i \in 1..2 : b[i] = Bare[i]
    <3>1. Starts(Bare, b) <=> Len(Bare) <= Len(b) /\ \A i \in 1..Len(Bare) : b[i] = Bare[i]
      BY <1>1, StartsUnits
    <3> QED
      BY <1>1, <3>1
  <2> QED
    BY <1>1, <1>2, <2>1
<1> QED
  BY <1>3, <1>4 DEF IsHello

LEMMA Cut ==
    ASSUME NEW s \in Seq(Units), NEW b \in Seq(Units), Starts(s, b)
    PROVE  Rest(s, b) \in Seq(Units) /\ s \o Rest(s, b) = b
<1>1. Len(s) \in Nat /\ Len(b) \in Nat /\ Len(s) <= Len(b) /\ s = SubSeq(b, 1, Len(s))
  BY DEF Starts
<1>2. Rest(s, b) \in Seq(Units)
  BY <1>1, SubSeqProperties DEF Rest
<1>3. SubSeq(b, 1, Len(s)) \o SubSeq(b, Len(s) + 1, Len(b)) = SubSeq(b, 1, Len(b))
  <2>1. 1 \in 1..(Len(b) + 1) /\ Len(s) \in (1 - 1)..Len(b) /\ Len(b) \in Len(s)..Len(b)
    BY <1>1
  <2> QED
    BY <2>1, ConcatAdjacentSubSeq
<1> QED
  BY <1>1, <1>2, <1>3, SubSeqFull DEF Rest

(* What has been taken from a socket grows by what is received. *)
LEMMA Taken ==
    ASSUME NEW s \in Seq(Units), NEW r \in Nat, NEW n \in Nat, r + n <= Len(s)
    PROVE  /\ SubSeq(s, r + 1, r + n) \in Seq(Units)
           /\ SubSeq(s, 1, r) \o SubSeq(s, r + 1, r + n) = SubSeq(s, 1, r + n)
<1>1. \A i \in (r + 1)..(r + n) : s[i] \in Units
  OBVIOUS
<1>2. SubSeq(s, r + 1, r + n) \in Seq(Units)
  BY <1>1, SubSeqProperties
<1>3. 1 \in 1..(Len(s) + 1) /\ r \in 0..Len(s) /\ r + n \in r..Len(s) /\ 0 = 1 - 1
  OBVIOUS
<1> QED
  BY <1>2, <1>3, ConcatAdjacentSubSeq
-----------------------------------------------------------------------------
(* The units of one connection.  Where they are, in order ... *)
Conserved(c) ==
    phase[c] # "closed" =>
        consumed[c] \o (IF phase[c] = "handshake" THEN engine[c] ELSE buffer[c] \o engine[c])
            = SubSeq(script[c], 1, rcvd[c])

(* ... which of them each part of the proxy has used ... *)
Used(c) ==
    /\ phase[c] \in {"none", "backlog", "detect", "handshake"} => consumed[c] = <<>>
    /\ phase[c] \in {"none", "backlog"} => rcvd[c] = 0 /\ buffer[c] = <<>>
    /\ phase[c] = "none" => sent[c] = 0
    /\ phase[c] # "handshake" /\ ~tls[c] => engine[c] = <<>>
    /\ phase[c] = "read" => consumed[c] = IF tls[c] THEN Handshake ELSE <<>>
    /\ phase[c] \in {"handle", "write"} => consumed[c] = IF tls[c] THEN Tls ELSE Request
    /\ phase[c] = "shutdown" =>
          \/ consumed[c] = Tls
          \/ consumed[c] = Handshake /\ eof[c] /\ rcvd[c] = sent[c]

(* ... and what the detector has seen. *)
Detected(c) ==
    /\ phase[c] \in {"handshake", "shutdown"} => tls[c]
    /\ phase[c] = "handshake" => IsHello(engine[c])
    /\ phase[c] = "read" /\ ~tls[c] =>
          /\ rcvd[c] > 0
          /\ script[c][1] # "hel" \/ (rcvd[c] > 1 /\ script[c][2] \notin {"lo", "bare"})

Stream(c) == Conserved(c) /\ Used(c) /\ Detected(c)

StreamInv == ProxyInv /\ TypeOK /\ \A c \in Conns : Stream(c)

LEMMA StreamInit == Init => StreamInv
<1> SUFFICES ASSUME Init PROVE StreamInv
  OBVIOUS
<1>1. TypeOK
  BY ScriptsAssumption DEF Init, Service!Init, TypeOK
<1>2. ASSUME NEW c \in Conns PROVE Stream(c)
  <2>1. script[c] \in Seq(Units)
    BY ScriptsAssumption DEF Init
  <2>2. SubSeq(script[c], 1, 0) = <<>> /\ <<>> \o (<<>> \o <<>>) = <<>>
    BY <2>1, SubSeqEmpty
  <2>3. phase[c] = "none" /\ consumed[c] = <<>> /\ buffer[c] = <<>> /\ engine[c] = <<>>
        /\ rcvd[c] = 0 /\ sent[c] = 0
    BY DEF Init
  <2> QED
    BY <2>2, <2>3 DEF Stream, Conserved, Used, Detected
<1> QED
  BY <1>1, <1>2, InitInv DEF StreamInv

(* A step of one connection leaves the units of the others alone. *)
LEMMA OtherStreams ==
    ASSUME StreamInv, NEW c \in Conns, Stream(c)',
           \A d \in Conns \ {c} :
              /\ phase'[d] = phase[d] /\ script'[d] = script[d] /\ sent'[d] = sent[d]
              /\ eof'[d] = eof[d] /\ rcvd'[d] = rcvd[d] /\ buffer'[d] = buffer[d]
              /\ engine'[d] = engine[d] /\ tls'[d] = tls[d] /\ consumed'[d] = consumed[d]
    PROVE  \A d \in Conns : Stream(d)'
<1>1. ASSUME NEW d \in Conns, d # c PROVE Stream(d)'
  <2>1. UNCHANGED <<phase[d], script[d], sent[d], eof[d], rcvd[d], buffer[d], engine[d], tls[d], consumed[d]>>
    BY <1>1
  <2>2. Conserved(d)'
    BY <2>1 DEF StreamInv, Stream, Conserved
  <2>3. Used(d)' /\ Detected(d)'
    BY <2>1 DEF StreamInv, Stream, Used, Detected
  <2> QED
    BY <2>2, <2>3 DEF Stream
<1> QED
  BY <1>1

LEMMA StreamTypes ==
    ASSUME StreamInv, NEW c \in Conns
    PROVE  /\ script[c] \in Seq(Units) /\ buffer[c] \in Seq(Units)
           /\ engine[c] \in Seq(Units) /\ consumed[c] \in Seq(Units)
           /\ rcvd[c] \in Nat /\ sent[c] \in Nat /\ Len(script[c]) \in Nat
           /\ rcvd[c] <= sent[c] /\ sent[c] <= Len(script[c])
  BY ScriptsAssumption DEF StreamInv, TypeOK

LEMMA Grown ==
    ASSUME NEW f \in [Conns -> Seq(Units)], NEW c \in Conns, NEW u \in Seq(Units)
    PROVE  [f EXCEPT ![c] = @ \o u] \in [Conns -> Seq(Units)]
<1>1. f[c] \o u \in Seq(Units)
  BY ConcatProperties
<1> QED
  BY <1>1

LEMMA Received ==
    ASSUME StreamInv, NEW c \in Conns, Receive(c)
    PROVE  \E n \in Nat \ {0}, u \in Seq(Units) :
              /\ rcvd[c] + n <= sent[c]
              /\ rcvd' = [rcvd EXCEPT ![c] = @ + n]
              /\ SubSeq(script[c], 1, rcvd[c]) \o u = SubSeq(script[c], 1, rcvd[c] + n)
              /\ tls[c] => engine' = [engine EXCEPT ![c] = @ \o u] /\ UNCHANGED buffer
              /\ ~tls[c] => buffer' = [buffer EXCEPT ![c] = @ \o u] /\ UNCHANGED engine
<1>1. PICK n \in 1..Available(c) :
         LET units == SubSeq(script[c], rcvd[c] + 1, rcvd[c] + n) IN
         /\ rcvd' = [rcvd EXCEPT ![c] = @ + n]
         /\ IF tls[c] THEN engine' = [engine EXCEPT ![c] = @ \o units] /\ UNCHANGED buffer
                      ELSE buffer' = [buffer EXCEPT ![c] = @ \o units] /\ UNCHANGED engine
  BY DEF Receive
<1> DEFINE units == SubSeq(script[c], rcvd[c] + 1, rcvd[c] + n)
<1>2. n \in Nat \ {0} /\ rcvd[c] + n <= sent[c] /\ rcvd[c] + n <= Len(script[c])
  BY StreamTypes DEF Available
<1>3. units \in Seq(Units) /\ SubSeq(script[c], 1, rcvd[c]) \o units = SubSeq(script[c], 1, rcvd[c] + n)
  BY <1>2, StreamTypes, Taken
<1>4. /\ rcvd' = [rcvd EXCEPT ![c] = @ + n]
      /\ tls[c] => engine' = [engine EXCEPT ![c] = @ \o units] /\ UNCHANGED buffer
      /\ ~tls[c] => buffer' = [buffer EXCEPT ![c] = @ \o units] /\ UNCHANGED engine
  BY <1>1
<1> HIDE DEF units
<1> QED
  BY <1>2, <1>3, <1>4

LEMMA TypesKept == StreamInv /\ [Next]_vars => TypeOK'
<1> SUFFICES ASSUME StreamInv, [Next]_vars PROVE TypeOK'
  OBVIOUS
<1> USE DEF StreamInv, TypeOK, serviceVars, listenVars, clientVars, streamVars
<1>1. CASE OnAcceptError \/ Stop \/ Restart \/ Fetching \/ Over \/ UNCHANGED vars
  BY <1>1 DEF OnAcceptError, Stop, Service!Stop, Restart, Fetching, Over, vars
<1>2. CASE OnAccept
  <2>1. Head(backlog) \in Conns /\ Tail(backlog) \in Seq(Conns)
    BY <1>2, HeadTailProperties DEF OnAccept
  <2> QED
    BY <1>2, <2>1 DEF OnAccept
<1>3. CASE Die
  <2>1. phase' \in [Conns -> {"none", "closed"}] /\ backlog' \in Seq(Conns)
    BY <1>3 DEF Die
  <2>2. result' \in [Conns -> {"none", "waiting", "answered", "empty", "reset"}]
    BY <1>3 DEF Die
  <2>3. armed' \in BOOLEAN /\ UNCHANGED <<up, clientVars, streamVars>>
    BY <1>3 DEF Die
  <2> QED
    BY <2>1, <2>2, <2>3
<1>4. ASSUME NEW c \in Conns, Connect(c) PROVE TypeOK'
  BY <1>4, AppendProperties DEF Connect
<1>5. ASSUME NEW c \in Conns, Send(c) PROVE TypeOK'
  BY <1>5, StreamTypes DEF Send
<1>6. ASSUME NEW c \in Conns, Leave(c) PROVE TypeOK'
  BY <1>6 DEF Leave
<1>7. ASSUME NEW c \in Conns, Receive(c) PROVE TypeOK'
  <2>1. PICK n \in Nat \ {0}, u \in Seq(Units) :
           /\ rcvd[c] + n <= sent[c] /\ rcvd' = [rcvd EXCEPT ![c] = @ + n]
           /\ tls[c] => engine' = [engine EXCEPT ![c] = @ \o u] /\ UNCHANGED buffer
           /\ ~tls[c] => buffer' = [buffer EXCEPT ![c] = @ \o u] /\ UNCHANGED engine
    BY <1>7, Received
  <2>2. engine \in [Conns -> Seq(Units)] /\ buffer \in [Conns -> Seq(Units)]
    OBVIOUS
  <2>3. engine' \in [Conns -> Seq(Units)] /\ buffer' \in [Conns -> Seq(Units)]
    <3>1. [engine EXCEPT ![c] = @ \o u] \in [Conns -> Seq(Units)]
          /\ [buffer EXCEPT ![c] = @ \o u] \in [Conns -> Seq(Units)]
      BY <2>2, Grown
    <3> QED
      BY <2>1, <2>2, <3>1, Zenon
  <2>4. rcvd' \in [Conns -> Nat] /\ \A d \in Conns : rcvd'[d] <= sent[d]
    BY <2>1
  <2> QED
    BY <1>7, <2>3, <2>4 DEF Receive
<1>8. ASSUME NEW c \in Conns, OnDetectSsl(c) \/ OnDetectPlain(c) PROVE TypeOK'
  <2>1. CASE OnDetectSsl(c)
    <3>1. engine' \in [Conns -> Seq(Units)]
      BY <2>1 DEF OnDetectSsl
    <3> QED
      BY <2>1, <3>1 DEF OnDetectSsl
  <2>2. CASE OnDetectPlain(c)
    BY <2>2 DEF OnDetectPlain
  <2> QED
    BY <1>8, <2>1, <2>2
<1>9. ASSUME NEW c \in Conns, OnHandshake(c) PROVE TypeOK'
  <2>1. Rest(Handshake, engine[c]) \in Seq(Units) /\ Handshake \in Seq(Units) /\ <<>> \in Seq(Units)
    BY <1>9, StreamTypes, Literals, Cut DEF OnHandshake
  <2> QED
    BY <1>9, <2>1 DEF OnHandshake, AfterHandshake
<1>10. ASSUME NEW c \in Conns, Decrypt(c) PROVE TypeOK'
  <2>1. buffer[c] \o engine[c] \in Seq(Units) /\ <<>> \in Seq(Units)
    BY StreamTypes, ConcatProperties
  <2> QED
    BY <1>10, <2>1 DEF Decrypt
<1>11. ASSUME NEW c \in Conns, OnRead(c) PROVE TypeOK'
  <2>1. Rest(Whole, buffer[c]) \in Seq(Units) /\ consumed[c] \o Whole \in Seq(Units)
    BY <1>11, StreamTypes, Literals, Cut, ConcatProperties DEF OnRead, Whole
  <2> QED
    BY <1>11, <2>1 DEF OnRead
<1>12. ASSUME NEW c \in Conns, SendResponse(c) PROVE TypeOK'
  BY <1>12 DEF SendResponse
<1>13. ASSUME NEW c \in Conns, OnWriteSsl(c) \/ OnReadEnd(c) PROVE TypeOK'
  BY <1>13 DEF OnWriteSsl, OnReadEnd, Got
<1>14. ASSUME NEW c \in Conns, NEW got \in {"none", "waiting", "answered", "empty", "reset"},
              Close(c, got), UNCHANGED streamVars
       PROVE  TypeOK'
  BY <1>14 DEF Close, CloseAs
<1>15. ASSUME NEW c \in Conns, OnWritePlain(c) \/ OnError(c) \/ OnShutdown(c) PROVE TypeOK'
  <2>1. (Close(c, Got(c)) \/ Close(c, result[c])) /\ UNCHANGED streamVars
    BY <1>15 DEF OnWritePlain, OnError, OnShutdown
  <2>2. {Got(c), result[c]} \subseteq {"none", "waiting", "answered", "empty", "reset"}
    BY DEF Got
  <2> QED
    BY <1>14, <2>1, <2>2
<1> QED
  BY <1>1, <1>2, <1>3, <1>4, <1>5, <1>6, <1>7, <1>8, <1>9, <1>10, <1>11, <1>12, <1>13, <1>15
     DEF Next, Handler, OnWrite

(* The client's steps, and those that only move a session on. *)
LEMMA MoveStream ==
    ASSUME StreamInv, NEW c \in Conns,
           Connect(c) \/ Send(c) \/ Leave(c) \/ SendResponse(c) \/ OnWriteSsl(c) \/ OnReadEnd(c)
    PROVE  \A d \in Conns : Stream(d)'
<1>1. UNCHANGED <<streamVars, script>> /\ Stream(c) /\ ProxyInv /\ TypeOK
  BY DEF StreamInv, Connect, Send, Leave, SendResponse, OnWriteSsl, OnReadEnd, clientVars
<1>2. CASE Connect(c)
  <2>1. phase[c] = "none" /\ phase' = [phase EXCEPT ![c] = "backlog"] /\ UNCHANGED <<sent, eof>>
    BY <1>2 DEF Connect, clientVars
  <2>2. Stream(c)'
    BY <1>1, <2>1 DEF TypeOK, Stream, Conserved, Used, Detected, streamVars
  <2> QED
    BY <1>1, <2>1, <2>2, OtherStreams DEF TypeOK, streamVars
<1>3. CASE Send(c)
  <2>1. phase[c] # "none" /\ ~eof[c] /\ sent' = [sent EXCEPT ![c] = @ + 1] /\ UNCHANGED <<phase, eof>>
    BY <1>3 DEF Send
  <2>2. Stream(c)'
    BY <1>1, <2>1 DEF TypeOK, Stream, Conserved, Used, Detected, streamVars
  <2> QED
    BY <1>1, <2>1, <2>2, OtherStreams DEF TypeOK, streamVars
<1>4. CASE Leave(c)
  <2>1. eof' = [eof EXCEPT ![c] = TRUE] /\ UNCHANGED <<phase, sent>>
    BY <1>4 DEF Leave
  <2>2. Stream(c)'
    BY <1>1, <2>1 DEF TypeOK, Stream, Conserved, Used, Detected, streamVars
  <2> QED
    BY <1>1, <2>1, <2>2, OtherStreams DEF TypeOK, streamVars
<1>5. CASE SendResponse(c)
  <2>1. phase[c] = "handle" /\ phase' = [phase EXCEPT ![c] = "write"] /\ UNCHANGED <<sent, eof>>
    BY <1>5 DEF SendResponse, clientVars
  <2>2. Stream(c)'
    BY <1>1, <2>1 DEF TypeOK, Stream, Conserved, Used, Detected, streamVars
  <2> QED
    BY <1>1, <2>1, <2>2, OtherStreams DEF TypeOK, streamVars
<1>6. CASE OnWriteSsl(c)
  <2>1. phase[c] = "write" /\ tls[c] /\ phase' = [phase EXCEPT ![c] = "shutdown"] /\ UNCHANGED <<sent, eof>>
    BY <1>6 DEF OnWriteSsl, Pending, clientVars
  <2>2. Stream(c)'
    BY <1>1, <2>1 DEF TypeOK, Stream, Conserved, Used, Detected, streamVars
  <2> QED
    BY <1>1, <2>1, <2>2, OtherStreams DEF TypeOK, streamVars
<1>7. CASE OnReadEnd(c)
  <2>1. phase[c] = "read" /\ tls[c] /\ phase' = [phase EXCEPT ![c] = "shutdown"] /\ UNCHANGED <<sent, eof>>
        /\ eof[c] /\ ~(rcvd[c] < sent[c])
    BY <1>7 DEF OnReadEnd, Pending, EndOfStream, Unread, clientVars
  <2>2. rcvd[c] = sent[c]
    BY <2>1, StreamTypes
  <2>3. Stream(c)'
    BY <1>1, <2>1, <2>2 DEF TypeOK, Stream, Conserved, Used, Detected, streamVars
  <2> QED
    BY <1>1, <2>1, <2>3, OtherStreams DEF TypeOK, streamVars
<1> QED
  BY <1>2, <1>3, <1>4, <1>5, <1>6, <1>7

LEMMA AcceptStream ==
    ASSUME StreamInv, OnAccept
    PROVE  \A d \in Conns : Stream(d)'
<1>1. PICK c \in Conns : c = Head(backlog) /\ phase[c] = "backlog"
  BY DEF OnAccept, StreamInv, ProxyInv, Waiting
<1>2. phase' = [phase EXCEPT ![c] = "detect"] /\ UNCHANGED <<script, sent, eof, streamVars>>
  BY <1>1 DEF OnAccept, clientVars
<1>3. Stream(c)'
  BY <1>1, <1>2 DEF StreamInv, ProxyInv, SessionsInv, Streaming, TypeOK, Stream, Conserved, Used, Detected, streamVars
<1> QED
  BY <1>1, <1>2, <1>3, OtherStreams DEF StreamInv, TypeOK, streamVars

LEMMA CloseStream ==
    ASSUME StreamInv, NEW c \in Conns, NEW got, Close(c, got), UNCHANGED streamVars
    PROVE  \A d \in Conns : Stream(d)'
<1>1. phase' = [phase EXCEPT ![c] = "closed"] /\ UNCHANGED <<script, sent, eof>>
  BY DEF Close, CloseAs, clientVars
<1>2. Stream(c)'
  BY <1>1 DEF StreamInv, TypeOK, Stream, Conserved, Used, Detected, streamVars
<1> QED
  BY <1>1, <1>2, OtherStreams DEF StreamInv, TypeOK, streamVars

LEMMA DieStream ==
    ASSUME StreamInv, Die
    PROVE  \A c \in Conns : Stream(c)'
<1>1. phase' = [c \in Conns |-> IF phase[c] = "none" THEN "none" ELSE "closed"]
      /\ UNCHANGED <<script, sent, eof, streamVars>>
  BY DEF Die, clientVars
<1> QED
  BY <1>1 DEF StreamInv, TypeOK, Stream, Conserved, Used, Detected, streamVars

(* What is in the detector's buffer is what the socket delivered. *)
LEMMA AtDetector ==
    ASSUME StreamInv, NEW c \in Conns, phase[c] = "detect"
    PROVE  /\ ~tls[c] /\ consumed[c] = <<>> /\ engine[c] = <<>>
           /\ buffer[c] = SubSeq(script[c], 1, rcvd[c])
           /\ Len(buffer[c]) = rcvd[c] /\ \A i \in 1..rcvd[c] : buffer[c][i] = script[c][i]
<1>1. ~tls[c] /\ consumed[c] = <<>> /\ engine[c] = <<>>
  BY DEF StreamInv, Stream, Used, ProxyInv, SessionsInv, Streaming
<1>2. consumed[c] \o (buffer[c] \o engine[c]) = SubSeq(script[c], 1, rcvd[c])
  BY DEF StreamInv, Stream, Conserved
<1>3. buffer[c] = SubSeq(script[c], 1, rcvd[c])
  BY <1>1, <1>2, StreamTypes, ConcatEmptySeq
<1>4. 1 <= rcvd[c] + 1 /\ rcvd[c] <= Len(script[c]) /\ \A i \in 1..rcvd[c] : script[c][i] \in Units
  BY StreamTypes
<1>5. Len(SubSeq(script[c], 1, rcvd[c])) = rcvd[c]
      /\ \A i \in 1..rcvd[c] : SubSeq(script[c], 1, rcvd[c])[i] = script[c][i]
  BY <1>4, StreamTypes, SubSeqProperties
<1> QED
  BY <1>1, <1>3, <1>5

LEMMA PlainStream ==
    ASSUME StreamInv, NEW c \in Conns, OnDetectPlain(c)
    PROVE  \A d \in Conns : Stream(d)'
<1>1. /\ phase[c] = "detect" /\ NotHello(buffer[c])
      /\ phase' = [phase EXCEPT ![c] = "read"] /\ UNCHANGED <<script, sent, eof, streamVars>>
  BY DEF OnDetectPlain, Pending, clientVars
<1>2. phase'[c] = "read"
  BY <1>1 DEF StreamInv, TypeOK
<1>3. Conserved(c)' /\ Used(c)'
  BY <1>1, <1>2, AtDetector DEF StreamInv, Stream, Conserved, Used, streamVars
<1>4. buffer[c] # <<>> /\ buffer[c] # <<"hel">> /\ ~IsHello(buffer[c])
  BY <1>1 DEF NotHello
<1>5. rcvd[c] > 0
  BY <1>1, <1>4, AtDetector, StreamTypes, EmptySeq
<1>6. script[c][1] # "hel" \/ (rcvd[c] > 1 /\ script[c][2] \notin {"lo", "bare"})
  <2>1. CASE rcvd[c] = 1 /\ script[c][1] = "hel"
    <3>1. buffer[c] = <<"hel">>
      <4>1. Len(buffer[c]) = 1 /\ buffer[c][1] = "hel"
        <5>1. rcvd[c] = 1 /\ 1 \in 1..rcvd[c]
          BY <2>1
        <5> QED
          BY <1>1, <2>1, <5>1, AtDetector
      <4>2. <<"hel">> \in Seq(Units) /\ Len(<<"hel">>) = 1 /\ <<"hel">>[1] = "hel"
        BY DEF Units
      <4> QED
        BY <4>1, <4>2, StreamTypes, SeqEqual
    <3> QED
      BY <1>4, <3>1
  <2>2. CASE rcvd[c] > 1
    <3>1. ~(Len(buffer[c]) >= 2 /\ buffer[c][1] = "hel" /\ buffer[c][2] \in {"lo", "bare"})
      BY <1>4, StreamTypes, HelloUnits
    <3>2. Len(buffer[c]) = rcvd[c] /\ 2 <= rcvd[c] /\ 1 \in 1..rcvd[c] /\ 2 \in 1..rcvd[c]
      BY <1>1, <2>2, AtDetector, StreamTypes
    <3>3. buffer[c][1] # "hel" \/ buffer[c][2] \notin {"lo", "bare"}
      BY <3>1, <3>2
    <3>4. buffer[c][1] = script[c][1] /\ buffer[c][2] = script[c][2]
      BY <1>1, <3>2, AtDetector
    <3> QED
      BY <2>2, <3>3, <3>4
  <2> QED
    BY <1>5, <2>1, <2>2, StreamTypes
<1>7. Detected(c)'
  BY <1>1, <1>2, <1>5, <1>6 DEF Detected, streamVars
<1>8. Stream(c)'
  BY <1>3, <1>7 DEF Stream
<1> QED
  BY <1>1, <1>8, OtherStreams DEF StreamInv, TypeOK, streamVars

LEMMA SslStream ==
    ASSUME StreamInv, NEW c \in Conns, OnDetectSsl(c)
    PROVE  \A d \in Conns : Stream(d)'
<1>1. /\ phase[c] = "detect" /\ IsHello(buffer[c])
      /\ phase' = [phase EXCEPT ![c] = "handshake"] /\ tls' = [tls EXCEPT ![c] = TRUE]
      /\ engine' = [engine EXCEPT ![c] = buffer[c]]
      /\ UNCHANGED <<script, sent, eof, rcvd, buffer, consumed>>
  BY DEF OnDetectSsl, Pending, clientVars
<1>2. phase'[c] = "handshake" /\ tls'[c] /\ engine'[c] = buffer[c]
  BY <1>1 DEF StreamInv, TypeOK
<1>3. Conserved(c)'
  BY <1>1, <1>2, AtDetector, StreamTypes, ConcatEmptySeq DEF Conserved
<1>4. Used(c)'
  BY <1>1, <1>2, AtDetector DEF Used
<1>5. Detected(c)'
  BY <1>1, <1>2 DEF Detected
<1> QED
  BY <1>1, <1>3, <1>4, <1>5, OtherStreams DEF StreamInv, TypeOK, Stream

LEMMA HandshakeStream ==
    ASSUME StreamInv, NEW c \in Conns, OnHandshake(c)
    PROVE  \A d \in Conns : Stream(d)'
<1>1. /\ phase[c] = "handshake" /\ Starts(Handshake, engine[c])
      /\ phase' = [phase EXCEPT ![c] = "read"] /\ consumed' = [consumed EXCEPT ![c] = Handshake]
      /\ engine' = [engine EXCEPT ![c] = Rest(Handshake, @)] /\ buffer' = [buffer EXCEPT ![c] = <<>>]
      /\ UNCHANGED <<script, sent, eof, rcvd, tls>>
  BY DEF OnHandshake, Pending, AfterHandshake, clientVars
<1>2. /\ phase'[c] = "read" /\ consumed'[c] = Handshake /\ buffer'[c] = <<>>
      /\ engine'[c] = Rest(Handshake, engine[c])
  BY <1>1 DEF StreamInv, TypeOK
<1>3. tls[c] /\ consumed[c] = <<>> /\ consumed[c] \o engine[c] = SubSeq(script[c], 1, rcvd[c])
  BY <1>1 DEF StreamInv, Stream, Used, Detected, Conserved
<1>4. Rest(Handshake, engine[c]) \in Seq(Units) /\ Handshake \o Rest(Handshake, engine[c]) = engine[c]
  BY <1>1, StreamTypes, Literals, Cut
<1>5. <<>> \o Rest(Handshake, engine[c]) = Rest(Handshake, engine[c]) /\ <<>> \o engine[c] = engine[c]
  BY <1>4, StreamTypes, ConcatEmptySeq
<1>6. Conserved(c)'
  BY <1>1, <1>2, <1>3, <1>4, <1>5 DEF Conserved
<1>7. Used(c)' /\ Detected(c)'
  BY <1>1, <1>2, <1>3 DEF Used, Detected
<1> QED
  BY <1>1, <1>6, <1>7, OtherStreams DEF StreamInv, TypeOK, Stream

LEMMA DecryptStream ==
    ASSUME StreamInv, NEW c \in Conns, Decrypt(c)
    PROVE  \A d \in Conns : Stream(d)'
<1>1. /\ phase[c] = "read"
      /\ buffer' = [buffer EXCEPT ![c] = @ \o engine[c]] /\ engine' = [engine EXCEPT ![c] = <<>>]
      /\ UNCHANGED <<phase, script, sent, eof, rcvd, tls, consumed>>
  BY DEF Decrypt, Pending, clientVars
<1>2. buffer'[c] = buffer[c] \o engine[c] /\ engine'[c] = <<>>
  BY <1>1 DEF StreamInv, TypeOK
<1>3. buffer[c] \o engine[c] \in Seq(Units)
  BY StreamTypes, ConcatProperties
<1>4. Conserved(c)'
  BY <1>1, <1>2, <1>3, ConcatEmptySeq DEF StreamInv, Stream, Conserved
<1>5. Used(c)' /\ Detected(c)'
  BY <1>1, <1>2 DEF StreamInv, Stream, Used, Detected
<1> QED
  BY <1>1, <1>4, <1>5, OtherStreams DEF StreamInv, TypeOK, Stream

LEMMA Associative ==
    ASSUME NEW s \in Seq(Units), NEW t \in Seq(Units), NEW u \in Seq(Units)
    PROVE  (s \o t) \o u = s \o (t \o u)
  BY ConcatAssociative

LEMMA ReadStream ==
    ASSUME StreamInv, NEW c \in Conns, OnRead(c)
    PROVE  \A d \in Conns : Stream(d)'
<1>1. /\ phase[c] = "read" /\ Starts(Request, buffer[c])
      /\ phase' = [phase EXCEPT ![c] = "handle"]
      /\ consumed' = [consumed EXCEPT ![c] = @ \o Request]
      /\ buffer' = [buffer EXCEPT ![c] = Rest(Request, @)]
      /\ UNCHANGED <<script, sent, eof, rcvd, engine, tls>>
  BY DEF OnRead, Pending, Whole, clientVars
<1>2. phase'[c] = "handle" /\ consumed'[c] = consumed[c] \o Request /\ buffer'[c] = Rest(Request, buffer[c])
  BY <1>1 DEF StreamInv, TypeOK
<1>3. consumed[c] = (IF tls[c] THEN Handshake ELSE <<>>) /\ (~tls[c] => engine[c] = <<>>)
      /\ consumed[c] \o (buffer[c] \o engine[c]) = SubSeq(script[c], 1, rcvd[c])
  BY <1>1 DEF StreamInv, Stream, Used, Conserved
<1>4. Rest(Request, buffer[c]) \in Seq(Units) /\ Request \o Rest(Request, buffer[c]) = buffer[c]
  BY <1>1, StreamTypes, Literals, Cut
<1>5. (consumed[c] \o Request) \o (Rest(Request, buffer[c]) \o engine[c]) = consumed[c] \o (buffer[c] \o engine[c])
  <2>1. /\ consumed[c] \in Seq(Units) /\ Request \in Seq(Units) /\ engine[c] \in Seq(Units)
        /\ Rest(Request, buffer[c]) \in Seq(Units)
    BY <1>4, StreamTypes, Literals
  <2>2. (consumed[c] \o Request) \o (Rest(Request, buffer[c]) \o engine[c])
           = consumed[c] \o ((Request \o Rest(Request, buffer[c])) \o engine[c])
    <3>1. PICK v \in Seq(Units) : v = Rest(Request, buffer[c]) \o engine[c]
      BY <2>1, ConcatProperties
    <3>2. (consumed[c] \o Request) \o v = consumed[c] \o (Request \o v)
      BY <2>1, Associative
    <3>3. (Request \o Rest(Request, buffer[c])) \o engine[c] = Request \o v
      BY <2>1, <3>1, Associative
    <3> QED
      BY <3>1, <3>2, <3>3
  <2> QED
    BY <1>4, <2>2
<1>6. Conserved(c)'
  BY <1>1, <1>2, <1>3, <1>5 DEF Conserved
<1>7. consumed[c] \o Request = IF tls[c] THEN Tls ELSE Request
  BY <1>3, Literals, ConcatEmptySeq DEF Tls
<1>8. Used(c)' /\ Detected(c)'
  BY <1>1, <1>2, <1>3, <1>7 DEF Used, Detected
<1> QED
  BY <1>1, <1>6, <1>8, OtherStreams DEF StreamInv, TypeOK, Stream

LEMMA ReceiveStream ==
    ASSUME StreamInv, NEW c \in Conns, Receive(c)
    PROVE  \A d \in Conns : Stream(d)'
<1>1. PICK n \in Nat \ {0}, u \in Seq(Units) :
         /\ rcvd[c] + n <= sent[c] /\ rcvd' = [rcvd EXCEPT ![c] = @ + n]
         /\ SubSeq(script[c], 1, rcvd[c]) \o u = SubSeq(script[c], 1, rcvd[c] + n)
         /\ tls[c] => engine' = [engine EXCEPT ![c] = @ \o u] /\ UNCHANGED buffer
         /\ ~tls[c] => buffer' = [buffer EXCEPT ![c] = @ \o u] /\ UNCHANGED engine
  BY Received
<1>2. phase[c] \in {"detect", "handshake", "read", "shutdown"}
      /\ UNCHANGED <<phase, script, sent, eof, tls, consumed>>
  BY DEF Receive, WantsMore, clientVars
<1>3. rcvd'[c] = rcvd[c] + n /\ rcvd[c] + n > rcvd[c] /\ rcvd[c] # sent[c]
  <2>1. rcvd = [d \in Conns |-> rcvd[d]] /\ rcvd[c] \in Nat /\ sent[c] \in Nat
    BY DEF StreamInv, TypeOK
  <2>2. rcvd'[c] = rcvd[c] + n
    BY <1>1, <2>1
  <2>3. PICK r \in Nat, s \in Nat : r = rcvd[c] /\ s = sent[c] /\ r + n <= s
    BY <1>1, <2>1
  <2>4. r + n > r /\ r # s
    BY <2>3
  <2> QED
    BY <2>2, <2>3, <2>4
<1> DEFINE held == IF phase[c] = "handshake" THEN engine[c] ELSE buffer[c] \o engine[c]
<1>4. held \in Seq(Units) /\ consumed[c] \o held = SubSeq(script[c], 1, rcvd[c])
  <2>1. buffer[c] \o engine[c] \in Seq(Units)
    BY StreamTypes, ConcatProperties
  <2> QED
    BY <1>2, <2>1, StreamTypes DEF StreamInv, Stream, Conserved
<1>5. held' = held \o u
  <2>1. CASE tls[c]
    <3>1. engine'[c] = engine[c] \o u /\ buffer'[c] = buffer[c]
      BY <1>1, <2>1 DEF StreamInv, TypeOK
    <3>2. buffer[c] \o (engine[c] \o u) = (buffer[c] \o engine[c]) \o u
      <4>1. buffer[c] \in Seq(Units) /\ engine[c] \in Seq(Units)
        BY StreamTypes
      <4> QED
        BY <4>1, Associative
    <3> QED
      BY <1>2, <3>1, <3>2
  <2>2. CASE ~tls[c]
    <3>1. buffer'[c] = buffer[c] \o u /\ engine'[c] = <<>> /\ engine[c] = <<>> /\ phase[c] # "handshake"
      BY <1>1, <1>2, <2>2 DEF StreamInv, TypeOK, Stream, Used, Detected
    <3>2. buffer[c] \o u \in Seq(Units)
      BY StreamTypes, ConcatProperties
    <3>3. (buffer[c] \o u) \o <<>> = (buffer[c] \o <<>>) \o u
      BY <3>2, StreamTypes, ConcatEmptySeq
    <3> QED
      BY <1>2, <3>1, <3>3
  <2> QED
    BY <2>1, <2>2
<1>6. Conserved(c)'
  <2>1. consumed[c] \o (held \o u) = (consumed[c] \o held) \o u
    <3>1. consumed[c] \in Seq(Units)
      BY StreamTypes
    <3> HIDE DEF held
    <3> QED
      BY <1>4, <3>1, Associative
  <2>2. consumed[c] \o (held') = SubSeq(script[c], 1, rcvd[c] + n)
    BY <1>1, <1>4, <1>5, <2>1
  <2> QED
    BY <1>2, <1>3, <2>2 DEF Conserved
<1>7. Used(c)'
  <2>1. ~tls[c] /\ phase[c] # "handshake" => engine'[c] = <<>>
    BY <1>1 DEF StreamInv, Stream, Used
  <2> QED
    BY <1>2, <1>3, <2>1 DEF StreamInv, Stream, Used
<1>8. Detected(c)'
  <2>1. CASE phase[c] = "handshake"
    <3>1. tls[c] /\ IsHello(engine[c])
      BY <2>1 DEF StreamInv, Stream, Detected
    <3>2. engine'[c] = engine[c] \o u
      BY <1>1, <3>1 DEF StreamInv, TypeOK
    <3>3. IsHello(engine[c] \o u)
      <4>1. Len(engine[c]) >= 2 /\ engine[c][1] = "hel" /\ engine[c][2] \in {"lo", "bare"}
        BY <3>1, StreamTypes, HelloUnits
      <4>2. /\ engine[c] \o u \in Seq(Units) /\ Len(engine[c] \o u) = Len(engine[c]) + Len(u)
            /\ \A i \in 1..(Len(engine[c]) + Len(u)) :
                  (engine[c] \o u)[i] = IF i <= Len(engine[c]) THEN engine[c][i] ELSE u[i - Len(engine[c])]
        <5>1. engine[c] \in Seq(Units)
          BY StreamTypes
        <5> QED
          BY <5>1, ConcatProperties
      <4>3. Len(engine[c]) \in Nat /\ Len(u) \in Nat
        BY StreamTypes
      <4>4. /\ Len(engine[c] \o u) >= 2
            /\ (engine[c] \o u)[1] = engine[c][1] /\ (engine[c] \o u)[2] = engine[c][2]
        BY <4>1, <4>2, <4>3
      <4> QED
        BY <4>1, <4>2, <4>4, HelloUnits
    <3> QED
      BY <1>2, <2>1, <3>1, <3>2, <3>3 DEF Detected
  <2>2. CASE phase[c] # "handshake"
    BY <1>2, <1>3, <2>2, StreamTypes DEF StreamInv, Stream, Detected
  <2> QED
    BY <2>1, <2>2
<1>9. Stream(c)'
  BY <1>6, <1>7, <1>8 DEF Stream
<1>10. \A d \in Conns \ {c} : rcvd'[d] = rcvd[d] /\ buffer'[d] = buffer[d] /\ engine'[d] = engine[d]
  BY <1>1 DEF StreamInv, TypeOK
<1> QED
  BY <1>2, <1>9, <1>10, OtherStreams

LEMMA StreamStep == StreamInv /\ [Next]_vars => StreamInv'
<1> SUFFICES ASSUME StreamInv, [Next]_vars PROVE StreamInv'
  OBVIOUS
<1>1. ProxyInv' /\ TypeOK'
  BY NextInv, TypesKept DEF StreamInv
<1>2. CASE OnAcceptError \/ Fetching \/ Restart \/ Stop \/ Over \/ UNCHANGED vars
  <2>1. UNCHANGED <<phase, script, sent, eof, streamVars>>
    BY <1>2 DEF OnAcceptError, Fetching, Restart, Stop, Over, vars, clientVars
  <2>2. \A c \in Conns : Stream(c)'
    BY <2>1 DEF StreamInv, Stream, Conserved, Used, Detected, streamVars
  <2> QED
    BY <1>1, <2>2 DEF StreamInv
<1>3. ASSUME NEW c \in Conns, OnWritePlain(c) \/ OnError(c) \/ OnShutdown(c)
      PROVE  \A d \in Conns : Stream(d)'
  <2>1. (Close(c, Got(c)) \/ Close(c, result[c])) /\ UNCHANGED streamVars
    BY <1>3 DEF OnWritePlain, OnError, OnShutdown
  <2> QED
    BY <2>1, CloseStream
<1>4. ASSUME NEW c \in Conns,
             Connect(c) \/ Send(c) \/ Leave(c) \/ Handler(c) \/ OnWrite(c)
      PROVE  \A d \in Conns : Stream(d)'
  BY <1>3, <1>4, MoveStream, PlainStream, SslStream, HandshakeStream, DecryptStream, ReadStream,
     ReceiveStream DEF Handler, OnWrite
<1> QED
  BY <1>1, <1>2, <1>4, AcceptStream, DieStream DEF StreamInv, Next

(* The proxy never takes more from a socket than its client has sent, and  *)
(* every variable of a session stays in its range.                         *)
THEOREM TypeCorrect == Spec => []TypeOK
<1>1. StreamInv => TypeOK
  BY DEF StreamInv
<1> QED
  BY <1>1, StreamInit, StreamStep, PTL DEF Spec

(* No unit is lost, repeated or reordered between the socket and the       *)
(* request parser, whichever of detector, TLS engine and sessions the      *)
(* connection is handed to, for every script its client may follow.        *)
THEOREM BytesStayInOrder == Spec => []BytesInOrder
<1>1. StreamInv => BytesInOrder
  BY DEF StreamInv, Stream, Conserved, BytesInOrder, Open
<1> QED
  BY <1>1, StreamInit, StreamStep, PTL DEF Spec
-----------------------------------------------------------------------------
(* Closing a socket with bytes left in it.  What the proxy has taken of a  *)
(* script, part by part ...                                                *)
LEMMA Parts ==
    ASSUME NEW a \in Seq(Units), NEW b \in Seq(Units), NEW s \in Seq(Units), NEW r \in Nat,
           r <= Len(s), a \o b = SubSeq(s, 1, r)
    PROVE  /\ r = Len(a) + Len(b)
           /\ \A i \in 1..Len(a) : s[i] = a[i]
           /\ \A i \in 1..Len(b) : s[Len(a) + i] = b[i]
<1>1. \A i \in 1..r : s[i] \in Units
  OBVIOUS
<1>2. Len(SubSeq(s, 1, r)) = r /\ \A i \in 1..r : SubSeq(s, 1, r)[i] = s[i]
  BY <1>1, SubSeqProperties
<1>3. /\ Len(a) \in Nat /\ Len(b) \in Nat /\ Len(a \o b) = Len(a) + Len(b)
      /\ \A i \in 1..(Len(a) + Len(b)) : (a \o b)[i] = IF i <= Len(a) THEN a[i] ELSE b[i - Len(a)]
  BY ConcatProperties
<1>4. r = Len(a) + Len(b)
  BY <1>2, <1>3
<1>5. \A i \in 1..Len(a) : i \in 1..r /\ i <= Len(a)
  BY <1>3, <1>4
<1>6. \A i \in 1..Len(b) : Len(a) + i \in 1..r /\ ~(Len(a) + i <= Len(a)) /\ (Len(a) + i) - Len(a) = i
  BY <1>3, <1>4
<1>7. \A i \in 1..Len(a) : s[i] = a[i]
  BY <1>2, <1>3, <1>4, <1>5
<1>8. \A i \in 1..Len(b) : s[Len(a) + i] = b[i]
  BY <1>2, <1>3, <1>4, <1>6
<1> QED
  BY <1>4, <1>7, <1>8

(* ... and what a client has sent that sent one request at most. *)
Within(c, request) == sent[c] <= Len(request) /\ \A i \in 1..sent[c] : script[c][i] = request[i]

LEMMA SentWithin ==
    ASSUME StreamInv, NEW c \in Conns, AtMostOneRequest(Sent(c))
    PROVE  Within(c, Request) \/ Within(c, Tls)
<1>1. script[c] \in Seq(Units) /\ sent[c] \in Nat /\ sent[c] <= Len(script[c])
  BY StreamTypes
<1>2. \A i \in 1..sent[c] : script[c][i] \in Units
  BY <1>1
<1>3. /\ Sent(c) \in Seq(Units) /\ Len(Sent(c)) = sent[c]
      /\ \A i \in 1..sent[c] : Sent(c)[i] = script[c][i]
  BY <1>1, <1>2, SubSeqProperties DEF Sent
<1>4. ASSUME NEW request \in Seq(Units), Starts(Sent(c), request)
      PROVE  Within(c, request)
  <2>1. Len(Sent(c)) <= Len(request) /\ \A i \in 1..Len(Sent(c)) : request[i] = Sent(c)[i]
    BY <1>3, <1>4, StartsUnits
  <2> QED
    BY <1>3, <2>1 DEF Within
<1>5. Request \in Seq(Units) /\ Tls \in Seq(Units)
  BY Literals, TlsUnits
<1>6. Starts(Sent(c), Request) \/ Starts(Sent(c), Tls)
  BY DEF AtMostOneRequest, Tls
<1> QED
  BY <1>4, <1>5, <1>6

LEMMA TakenParts ==
    ASSUME StreamInv, NEW c \in Conns, phase[c] # "closed",
           NEW held, held = IF phase[c] = "handshake" THEN engine[c] ELSE buffer[c] \o engine[c]
    PROVE  /\ held \in Seq(Units) /\ rcvd[c] = Len(consumed[c]) + Len(held)
           /\ \A i \in 1..Len(consumed[c]) : script[c][i] = consumed[c][i]
           /\ \A i \in 1..Len(held) : script[c][Len(consumed[c]) + i] = held[i]
<1>1. buffer[c] \o engine[c] \in Seq(Units)
  <2>1. buffer[c] \in Seq(Units) /\ engine[c] \in Seq(Units)
    BY StreamTypes
  <2> QED
    BY <2>1, ConcatProperties
<1>2. held \in Seq(Units)
  BY <1>1, StreamTypes
<1>3. consumed[c] \o held = SubSeq(script[c], 1, rcvd[c])
  BY DEF StreamInv, Stream, Conserved
<1>4. /\ consumed[c] \in Seq(Units) /\ script[c] \in Seq(Units) /\ rcvd[c] \in Nat
      /\ rcvd[c] <= Len(script[c])
  BY StreamTypes
<1>5. PICK k \in Seq(Units), s \in Seq(Units), r \in Nat :
         k = consumed[c] /\ s = script[c] /\ r = rcvd[c]
  BY <1>4
<1>6. /\ r = Len(k) + Len(held)
      /\ \A i \in 1..Len(k) : s[i] = k[i]
      /\ \A i \in 1..Len(held) : s[Len(k) + i] = held[i]
  <2>1. k \o held = SubSeq(s, 1, r)
    BY <1>3, <1>5
  <2>2. r <= Len(s)
    BY <1>4, <1>5
  <2> QED
    BY <1>2, <2>1, <2>2, Parts
<1> QED
  BY <1>2, <1>5, <1>6

(* A session that has answered has consumed all that one request is.       *)
LEMMA AnsweredAll ==
    ASSUME StreamInv, NEW c \in Conns, phase[c] \in {"write", "shutdown"}, Unread(c)
    PROVE  ~Within(c, Request) /\ ~Within(c, Tls)
<1>1. PICK held : held = buffer[c] \o engine[c]
  OBVIOUS
<1>2. /\ held \in Seq(Units) /\ rcvd[c] = Len(consumed[c]) + Len(held) /\ rcvd[c] < sent[c]
      /\ \A i \in 1..Len(consumed[c]) : script[c][i] = consumed[c][i]
  BY <1>1, TakenParts DEF Unread
<1>3. consumed[c] \in {Tls, Request}
  <2>1. CASE phase[c] = "write"
    BY <2>1 DEF StreamInv, Stream, Used
  <2>2. CASE phase[c] = "shutdown"
    <3>1. rcvd[c] # sent[c]
      BY StreamTypes DEF Unread
    <3> QED
      BY <2>2, <3>1 DEF StreamInv, Stream, Used
  <2> QED
    BY <2>1, <2>2
<1>4. Len(held) \in Nat /\ sent[c] \in Nat
  BY <1>2, StreamTypes
<1>5. CASE consumed[c] = Tls
  <2>1. sent[c] > 5
    BY <1>2, <1>4, <1>5, TlsUnits
  <2> QED
    BY <2>1, <1>4, Literals, TlsUnits DEF Within
<1>6. CASE consumed[c] = Request
  <2>1. sent[c] > 2 /\ script[c][1] = "head"
    BY <1>2, <1>4, <1>6, Literals
  <2>2. Tls[1] = "hel" /\ 1 \in 1..sent[c]
    BY <1>4, <2>1, Literals, TlsUnits
  <2> QED
    BY <1>4, <2>1, <2>2, Literals DEF Within
<1> QED
  BY <1>3, <1>5, <1>6

(* A handshake fails on what no handshake sends ... *)
LEMMA NoHandshake ==
    ASSUME StreamInv, NEW c \in Conns, phase[c] = "handshake", Unread(c),
           NEW i \in 1..Len(engine[c]), i <= 3, engine[c][i] # Handshake[i]
    PROVE  ~Within(c, Request) /\ ~Within(c, Tls)
<1>1. consumed[c] = <<>> /\ IsHello(engine[c])
  BY DEF StreamInv, Stream, Used, Detected
<1>2. PICK held : held = engine[c]
  OBVIOUS
<1>3. /\ rcvd[c] = Len(consumed[c]) + Len(held)
      /\ \A j \in 1..Len(held) : script[c][Len(consumed[c]) + j] = held[j]
  BY <1>2, TakenParts
<1>4. Len(consumed[c]) = 0 /\ Len(held) \in Nat /\ rcvd[c] < sent[c] /\ sent[c] \in Nat
  BY <1>1, <1>2, StreamTypes, EmptySeq DEF Unread
<1>5. Len(held) < sent[c] /\ \A j \in 1..Len(held) : script[c][j] = engine[c][j]
  BY <1>2, <1>3, <1>4
<1>6. i \in 1..Len(held) /\ i \in 1..sent[c] /\ i \in 1..3
  BY <1>2, <1>4, <1>5
<1>7. script[c][i] # Tls[i]
  BY <1>5, <1>6, TlsUnits
<1>8. ~Within(c, Tls)
  BY <1>6, <1>7 DEF Within
<1>9. Len(held) >= 2 /\ engine[c][1] = "hel"
  BY <1>1, <1>2, StreamTypes, HelloUnits
<1>10. ~Within(c, Request)
  BY <1>4, <1>5, <1>9, Literals DEF Within
<1> QED
  BY <1>8, <1>10

(* ... and the request parser on what is no request. *)
LEMMA NoRequest ==
    ASSUME StreamInv, NEW c \in Conns, phase[c] = "read", Unread(c),
           NEW i \in 1..Len(buffer[c]), i <= 2, buffer[c][i] # Request[i]
    PROVE  ~Within(c, Request) /\ ~Within(c, Tls)
<1>1. consumed[c] = (IF tls[c] THEN Handshake ELSE <<>>)
  BY DEF StreamInv, Stream, Used
<1>2. PICK held : held = buffer[c] \o engine[c]
  OBVIOUS
<1>3. /\ held \in Seq(Units) /\ rcvd[c] = Len(consumed[c]) + Len(held)
      /\ \A j \in 1..Len(held) : script[c][Len(consumed[c]) + j] = held[j]
  BY <1>2, TakenParts
<1>4. /\ Len(buffer[c]) \in Nat /\ Len(held) \in Nat /\ Len(buffer[c]) <= Len(held)
      /\ \A j \in 1..Len(buffer[c]) : held[j] = buffer[c][j]
  <2>1. buffer[c] \in Seq(Units) /\ engine[c] \in Seq(Units)
    BY StreamTypes
  <2>2. PICK b \in Seq(Units), e \in Seq(Units) : b = buffer[c] /\ e = engine[c]
    BY <2>1
  <2>3. /\ Len(b \o e) = Len(b) + Len(e)
        /\ \A j \in 1..(Len(b) + Len(e)) : (b \o e)[j] = IF j <= Len(b) THEN b[j] ELSE e[j - Len(b)]
    BY ConcatProperties
  <2>4. Len(b) \in Nat /\ Len(b \o e) \in Nat /\ Len(b) <= Len(b \o e) /\ \A j \in 1..Len(b) : (b \o e)[j] = b[j]
    BY <2>3
  <2> QED
    BY <1>2, <2>2, <2>4
<1>5. rcvd[c] < sent[c] /\ sent[c] \in Nat /\ rcvd[c] \in Nat
  BY StreamTypes DEF Unread
<1>6. i \in 1..Len(held) /\ i \in 1..2 /\ script[c][Len(consumed[c]) + i] # Request[i]
  BY <1>3, <1>4
<1>7. CASE tls[c]
  <2>1. Len(consumed[c]) = 3
    BY <1>1, <1>7, Literals
  <2>2. i \in Nat /\ 3 + i \in 1..sent[c] /\ sent[c] > 2
    <3>1. rcvd[c] = 3 + Len(held) /\ 1 <= i /\ i <= Len(held)
      BY <1>3, <1>6, <2>1
    <3> QED
      BY <1>4, <1>5, <3>1
  <2>3. script[c][3 + i] # Tls[3 + i]
    BY <1>6, <2>1, TlsUnits
  <2> QED
    BY <2>2, <2>3, <1>5, Literals DEF Within
<1>8. CASE ~tls[c]
  <2>1. Len(consumed[c]) = 0
    BY <1>1, <1>8, EmptySeq
  <2>2. i \in 1..sent[c] /\ script[c][i] # Request[i]
    BY <1>3, <1>4, <1>5, <1>6, <2>1
  <2>3. rcvd[c] > 0 /\ (script[c][1] # "hel" \/ (rcvd[c] > 1 /\ script[c][2] # "lo"))
    BY <1>8 DEF StreamInv, Stream, Detected
  <2>4. Tls[1] = "hel" /\ Tls[2] = "lo" /\ 1 \in 1..sent[c] /\ (rcvd[c] > 1 => 2 \in 1..sent[c])
    BY <1>5, <2>3, Literals, TlsUnits
  <2> QED
    BY <2>2, <2>3, <2>4 DEF Within
<1> QED
  BY <1>7, <1>8

LEMMA ClosedOnMore ==
    ASSUME StreamInv, NEW c \in Conns, Unread(c), OnWritePlain(c) \/ OnError(c) \/ OnShutdown(c)
    PROVE  ~AtMostOneRequest(Sent(c))
<1>1. ~EndOfStream(c)
  BY DEF EndOfStream
<1>2. CASE phase[c] \in {"write", "shutdown"}
  BY <1>2, AnsweredAll, SentWithin
<1>3. CASE phase[c] \notin {"write", "shutdown"}
  <2>1. Broken(c)
    BY <1>3 DEF OnWritePlain, OnShutdown, OnError, Pending
  <2>2. CASE phase[c] = "handshake"
    <3>1. PICK i \in 1..Len(engine[c]) : i <= 3 /\ engine[c][i] # Handshake[i]
      BY <1>1, <2>1, <2>2 DEF Broken
    <3> QED
      BY <2>2, <3>1, NoHandshake, SentWithin
  <2>3. CASE phase[c] = "read"
    <3>1. PICK i \in 1..Len(buffer[c]) : i <= 2 /\ buffer[c][i] # Request[i]
      BY <1>1, <2>1, <2>3 DEF Broken
    <3> QED
      BY <2>3, <3>1, NoRequest, SentWithin
  <2> QED
    BY <1>1, <1>3, <2>1, <2>2, <2>3 DEF Broken
<1> QED
  BY <1>2, <1>3

(* A session becomes reset by a close that leaves bytes unread, or with    *)
(* the process.                                                            *)
LEMMA ResetBy ==
    ASSUME StreamInv, [Next]_vars, NEW c \in Conns, result'[c] = "reset", result[c] # "reset"
    PROVE  \/ job'[Proxy] = Service!Dead
           \/ Unread(c) /\ (OnWritePlain(c) \/ OnError(c) \/ OnShutdown(c))
<1>1. result \in [Conns -> {"none", "waiting", "answered", "empty", "reset"}]
  BY DEF StreamInv, TypeOK
<1>2. CASE Die
  <2>1. job' = [job EXCEPT ![Proxy] = Service!Dead] /\ job = [g \in {Proxy} |-> job[Proxy]]
    BY <1>2 DEF Die, Service!Die, Service!Become, StreamInv, ProxyInv, SessionsInv, Types
  <2> QED
    BY <2>1
<1>3. CASE OnAccept \/ OnAcceptError \/ Fetching \/ Restart \/ Stop \/ Over \/ UNCHANGED vars
  BY <1>3 DEF OnAccept, OnAcceptError, Fetching, Restart, Stop, Over, vars
<1>4. ASSUME NEW d \in Conns, Connect(d) \/ OnWriteSsl(d)
      PROVE  FALSE
  <2>1. result' = [result EXCEPT ![d] = "waiting"] \/ result' = [result EXCEPT ![d] = "answered"]
        \/ result' = [result EXCEPT ![d] = result[d]]
    BY <1>4 DEF Connect, OnWriteSsl, Got
  <2> QED
    BY <1>1, <2>1
<1>5. ASSUME NEW d \in Conns,
             \/ Send(d) \/ Leave(d) \/ Receive(d) \/ OnDetectSsl(d) \/ OnDetectPlain(d)
             \/ OnHandshake(d) \/ Decrypt(d) \/ OnRead(d) \/ SendResponse(d) \/ OnReadEnd(d)
      PROVE  FALSE
  BY <1>5 DEF Send, Leave, Receive, OnDetectSsl, OnDetectPlain, OnHandshake, Decrypt, OnRead,
     SendResponse, OnReadEnd
<1>6. ASSUME NEW d \in Conns, OnWritePlain(d) \/ OnError(d) \/ OnShutdown(d)
      PROVE  Unread(c) /\ (OnWritePlain(c) \/ OnError(c) \/ OnShutdown(c))
  <2>1. PICK got : Close(d, got) /\ got \in {result[d], "answered"}
    BY <1>6 DEF OnWritePlain, OnError, OnShutdown, Got
  <2>2. d = c /\ Unread(d)
    BY <1>1, <2>1 DEF Close, CloseAs
  <2> QED
    BY <1>6, <2>2
<1> QED
  BY <1>2, <1>3, <1>4, <1>5, <1>6 DEF Next, Handler, OnWrite

(* No close leaves unread what a client that sent one request, or part of  *)
(* one, has sent: a reset by which it could lose its response comes only   *)
(* with the death of the process, in plain and TLS sessions alike.         *)
THEOREM SingleRequestsNotReset == Spec => NoResetOfSingleRequest
<1>1. StreamInv /\ [Next]_vars =>
         [\A c \in Conns : result'[c] = "reset" /\ result[c] # "reset" /\ AtMostOneRequest(Sent(c))
                              => job'[Proxy] = Service!Dead]_vars
  BY ResetBy, ClosedOnMore
<1> QED
  BY <1>1, StreamInit, StreamStep, PTL DEF Spec, NoResetOfSingleRequest
-----------------------------------------------------------------------------
(* What becomes of a connection.  The listener accepts as long as the      *)
(* process lives, exactly the connections without a session wait for it,   *)
(* and a call of handle_request is the call of a session.                  *)
Listens ==
    /\ job[Proxy] # Service!Dead => armed
    /\ \A c \in Conns : phase[c] = "backlog" => \E i \in 1..Len(backlog) : backlog[i] = c
    /\ \/ job[Proxy] \in {Service!Idle, Service!Dead}
       \/ \E c \in Conns : phase[c] = "handle" /\ job[Proxy] \in Serving(c)

(* A client that sends one request, in either kind of session, and stays;  *)
(* in a TLS session, to a host for which sni_callback has a certificate.   *)
Patient(c) == c \notin Careless /\ script[c] \in {Request, Tls}

(* One that stays as well, but for whose hello there is no certificate. *)
Nameless(c) == c \notin Careless /\ Starts(Bare, script[c])

(* What a client has got by the time its session is in a phase. *)
Fate(c) ==
    /\ phase[c] = "none" <=> result[c] = "none"
    /\ phase[c] \notin {"none", "shutdown", "closed"} => result[c] = "waiting"
    /\ phase[c] = "shutdown" => result[c] \in {"waiting", "answered"}
    /\ phase[c] = "closed" => result[c] \in {"answered", "empty", "reset"}
    /\ Patient(c) /\ eof[c] => result[c] = "answered"
    /\ Patient(c) /\ phase[c] = "shutdown" => result[c] = "answered"
    /\ Patient(c) /\ phase[c] = "closed" => result[c] \in {"answered", "reset"}
    /\ Nameless(c) => ~eof[c] /\ result[c] # "answered"

SessionInv == StreamInv /\ Listens /\ \A c \in Conns : Fate(c)

(* What is left of a connection: steps of its session, among them those of *)
(* its call of handle_request, units to be taken and decrypted, units its  *)
(* client may send, and its leaving.                                       *)
StepsLeft(c) ==
    CASE phase[c] = "none" -> 10 [] phase[c] = "backlog" -> 9 [] phase[c] = "detect" -> 8
      [] phase[c] = "handshake" -> 7 [] phase[c] = "read" -> 6
      [] phase[c] = "handle" -> IF job[Proxy] = Service!Accepted(c) THEN 5
                                ELSE IF job[Proxy] = Service!Sent(c) THEN 4 ELSE 3
      [] phase[c] = "write" -> 2 [] phase[c] = "shutdown" -> 1 [] OTHER -> 0

Undecrypted(c) == IF phase[c] \in {"none", "backlog", "detect"} THEN buffer[c] ELSE engine[c]
UnitsLeft(c) == 2 * (Len(script[c]) - rcvd[c]) + Len(Undecrypted(c))

SessionLeft(c) ==
    StepsLeft(c) + UnitsLeft(c) + (Len(script[c]) - sent[c]) + (IF eof[c] THEN 0 ELSE 1)

Session(c) ==
    <<phase[c], script[c], sent[c], eof[c], result[c], rcvd[c], buffer[c], engine[c], tls[c],
      consumed[c], response[c], StepsLeft(c)>>

Descends(c) == SessionLeft(c)' \in Nat /\ SessionLeft(c)' < SessionLeft(c)
Advances(c) == Descends(c) /\ \A d \in Conns \ {c} : UNCHANGED Session(d)

LEMMA StepRange == \A c \in Conns : StepsLeft(c) \in 0..10
  BY DEF StepsLeft

LEMMA UnitRange ==
    ASSUME TypeOK, NEW c \in Conns
    PROVE  /\ UnitsLeft(c) \in Nat /\ Len(script[c]) \in Nat /\ sent[c] \in Nat /\ rcvd[c] \in Nat
           /\ sent[c] <= Len(script[c]) /\ rcvd[c] <= sent[c]
<1>1. /\ script[c] \in Seq(Units) /\ buffer[c] \in Seq(Units) /\ engine[c] \in Seq(Units)
      /\ rcvd[c] \in Nat /\ sent[c] \in Nat /\ rcvd[c] <= sent[c] /\ sent[c] <= Len(script[c])
  BY ScriptsAssumption DEF TypeOK
<1>2. PICK l \in Nat, u \in Nat : l = Len(script[c]) /\ u = Len(Undecrypted(c))
  BY <1>1 DEF Undecrypted
<1>3. PICK r \in Nat : r = rcvd[c] /\ r <= l
  BY <1>1, <1>2
<1>4. 2 * (l - r) + u \in Nat
  BY <1>3
<1> QED
  BY <1>1, <1>2, <1>3, <1>4 DEF UnitsLeft

LEMMA Lowers ==
    ASSUME TypeOK, TypeOK', NEW c \in Conns, script'[c] = script[c],
           StepsLeft(c)' <= StepsLeft(c), UnitsLeft(c)' <= UnitsLeft(c),
           sent[c] <= sent'[c], eof[c] => eof'[c],
           \/ StepsLeft(c)' < StepsLeft(c) \/ UnitsLeft(c)' < UnitsLeft(c)
           \/ sent[c] < sent'[c] \/ (~eof[c] /\ eof'[c])
    PROVE  Descends(c)
<1>1. PICK p \in Nat, q \in Nat, u \in Nat, v \in Nat, s \in Nat, t \in Nat, l \in Nat :
         /\ p = StepsLeft(c) /\ q = StepsLeft(c)' /\ u = UnitsLeft(c) /\ v = UnitsLeft(c)'
         /\ s = sent[c] /\ t = sent'[c] /\ l = Len(script[c]) /\ t <= l
  <2>1. StepsLeft(c) \in Nat /\ StepsLeft(c)' \in Nat
    <3>1. StepsLeft(c) \in 0..10
      BY StepRange
    <3>2. StepsLeft(c)' \in 0..10
      BY DEF StepsLeft
    <3> QED
      BY <3>1, <3>2
  <2>2. UnitsLeft(c) \in Nat /\ sent[c] \in Nat /\ Len(script[c]) \in Nat
    BY UnitRange
  <2>3. UnitsLeft(c)' \in Nat /\ sent'[c] \in Nat /\ sent'[c] <= Len(script'[c])
    <3>1. /\ script'[c] \in Seq(Units) /\ buffer'[c] \in Seq(Units) /\ engine'[c] \in Seq(Units)
          /\ rcvd'[c] \in Nat /\ sent'[c] \in Nat /\ rcvd'[c] <= sent'[c] /\ sent'[c] <= Len(script'[c])
      BY ScriptsAssumption DEF TypeOK
    <3>2. PICK k \in Nat, w \in Nat, r \in Nat :
             k = Len(script'[c]) /\ w = Len(Undecrypted(c)') /\ r = rcvd'[c] /\ r <= k
      BY <3>1 DEF Undecrypted
    <3>3. 2 * (k - r) + w \in Nat
      BY <3>2
    <3> QED
      BY <3>1, <3>2, <3>3 DEF UnitsLeft
  <2> QED
    BY <2>1, <2>2, <2>3
<1>2. PICK e \in {0, 1}, f \in {0, 1} :
         e = (IF eof[c] THEN 0 ELSE 1) /\ f = (IF eof'[c] THEN 0 ELSE 1) /\ f <= e
  OBVIOUS
<1>3. q < p \/ v < u \/ s < t \/ f < e
  BY <1>1, <1>2 DEF TypeOK
<1>4. SessionLeft(c) = p + u + (l - s) + e /\ SessionLeft(c)' = q + v + (l - t) + f
  BY <1>1, <1>2 DEF SessionLeft
<1>5. q <= p /\ v <= u /\ s <= t /\ t <= l
  BY <1>1
<1>6. e \in Nat /\ f \in Nat /\ f <= e
  BY <1>2
<1>7. l - t \in Nat /\ l - t <= l - s /\ (s < t => l - t < l - s) /\ l - s \in Nat
  BY <1>5
<1>8. q + v + (l - t) + f \in Nat /\ q + v + (l - t) + f < p + u + (l - s) + e
  BY <1>3, <1>5, <1>6, <1>7
<1> QED
  BY <1>4, <1>8 DEF Descends

(* Steps that touch one connection only. *)
Apart(c) ==
    \A d \in Conns \ {c} :
       UNCHANGED <<phase[d], script[d], sent[d], eof[d], result[d], rcvd[d], buffer[d], engine[d],
                   tls[d], consumed[d], response[d]>>

LEMMA OthersStay ==
    ASSUME NEW c \in Conns, Apart(c),
           job' = job \/ \A d \in Conns \ {c} : phase[d] # "handle"
    PROVE  \A d \in Conns \ {c} : UNCHANGED Session(d)
<1> SUFFICES ASSUME NEW d \in Conns \ {c} PROVE UNCHANGED Session(d)
  OBVIOUS
<1>1. UNCHANGED <<phase[d], script[d], sent[d], eof[d], result[d], rcvd[d], buffer[d], engine[d],
                  tls[d], consumed[d], response[d]>>
  BY DEF Apart
<1>2. StepsLeft(d)' = StepsLeft(d)
  <2>1. CASE job' = job
    BY <1>1, <2>1 DEF StepsLeft
  <2>2. CASE phase[d] # "handle"
    BY <1>1, <2>2 DEF StepsLeft
  <2> QED
    BY <2>1, <2>2
<1> QED
  BY <1>1, <1>2 DEF Session

(* A session goes on to its next operation, or ends. *)
LEMMA PhaseDescends ==
    ASSUME StreamInv, TypeOK', NEW c \in Conns,
           UNCHANGED <<script, sent, eof, streamVars>>, StepsLeft(c)' < StepsLeft(c),
           phase'[c] \in {"none", "backlog", "detect"} => phase[c] \in {"none", "backlog", "detect"}
    PROVE  Descends(c)
<1>1. TypeOK /\ script'[c] = script[c] /\ sent'[c] = sent[c] /\ eof'[c] = eof[c]
  BY DEF StreamInv
<1>2. StepsLeft(c)' <= StepsLeft(c)
  <2>1. StepsLeft(c) \in 0..10
    BY StepRange
  <2>2. StepsLeft(c)' \in 0..10
    BY DEF StepsLeft
  <2> QED
    BY <2>1, <2>2
<1>3. UnitsLeft(c)' <= UnitsLeft(c)
  <2>1. phase[c] \in {"none", "backlog", "detect"} => engine[c] = <<>>
    BY DEF StreamInv, Stream, Used, ProxyInv, SessionsInv, Streaming
  <2>2. PICK k \in Nat, r \in Nat, b \in Nat, e \in Nat :
           /\ k = Len(script[c]) /\ r = rcvd[c] /\ b = Len(buffer[c]) /\ e = Len(engine[c])
           /\ r <= k
           /\ phase[c] \in {"none", "backlog", "detect"} => e = 0
    <3>1. Len(buffer[c]) \in Nat /\ Len(engine[c]) \in Nat /\ Len(<<>>) = 0
      BY StreamTypes, EmptySeq
    <3>2. rcvd[c] <= Len(script[c])
      BY StreamTypes
    <3> QED
      BY <2>1, <3>1, <3>2, StreamTypes
  <2>3. rcvd'[c] = r /\ Len(script'[c]) = k /\ Len(buffer'[c]) = b /\ Len(engine'[c]) = e
    BY <1>1, <2>2 DEF streamVars
  <2>4. UnitsLeft(c) = 2 * (k - r) + (IF phase[c] \in {"none", "backlog", "detect"} THEN b ELSE e)
    BY <2>2 DEF UnitsLeft, Undecrypted
  <2>5. UnitsLeft(c)' = 2 * (k - r) + (IF phase'[c] \in {"none", "backlog", "detect"} THEN b ELSE e)
    BY <2>3 DEF UnitsLeft, Undecrypted
  <2>6. 2 * (k - r) \in Nat
    BY <2>2
  <2>7. CASE phase'[c] \in {"none", "backlog", "detect"}
    <3>1. UnitsLeft(c) = 2 * (k - r) + b /\ UnitsLeft(c)' = 2 * (k - r) + b
      BY <2>4, <2>5, <2>7
    <3> QED
      BY <2>6, <3>1
  <2>8. CASE phase'[c] \notin {"none", "backlog", "detect"} /\ phase[c] \in {"none", "backlog", "detect"}
    <3>1. UnitsLeft(c) = 2 * (k - r) + b /\ UnitsLeft(c)' = 2 * (k - r) + 0
      BY <2>2, <2>4, <2>5, <2>8
    <3> QED
      BY <2>6, <3>1
  <2>9. CASE phase'[c] \notin {"none", "backlog", "detect"} /\ phase[c] \notin {"none", "backlog", "detect"}
    <3>1. UnitsLeft(c) = 2 * (k - r) + e /\ UnitsLeft(c)' = 2 * (k - r) + e
      BY <2>4, <2>5, <2>9
    <3> QED
      BY <2>6, <3>1
  <2> QED
    BY <2>7, <2>8, <2>9
<1>4. sent[c] <= sent'[c]
  BY <1>1, UnitRange
<1> QED
  BY <1>1, <1>2, <1>3, <1>4, Lowers

LEMMA Same ==
    ASSUME StreamInv, NEW c \in Conns
    PROVE  StepsLeft(c) <= StepsLeft(c) /\ UnitsLeft(c) <= UnitsLeft(c) /\ sent[c] <= sent[c]
<1>1. TypeOK
  BY DEF StreamInv
<1>2. StepsLeft(c) \in 0..10 /\ UnitsLeft(c) \in Nat /\ sent[c] \in Nat
  BY <1>1, StepRange, UnitRange
<1> QED
  BY <1>2

LEMMA ClientAdvances ==
    ASSUME StreamInv, TypeOK', NEW c \in Conns, Connect(c) \/ Send(c) \/ Leave(c)
    PROVE  Advances(c)
<1> USE DEF StreamInv, TypeOK
<1>1. CASE Connect(c)
  <2>1. /\ phase[c] = "none" /\ phase' = [phase EXCEPT ![c] = "backlog"]
        /\ result' = [result EXCEPT ![c] = "waiting"]
        /\ UNCHANGED <<job, script, sent, eof, streamVars, response>>
    BY <1>1 DEF Connect, serviceVars, clientVars
  <2>2. phase'[c] = "backlog"
    BY <2>1
  <2>3. StepsLeft(c)' < StepsLeft(c)
    BY <2>1, <2>2 DEF StepsLeft
  <2>4. Descends(c)
    BY <2>1, <2>2, <2>3, PhaseDescends
  <2>5. Apart(c)
    BY <2>1 DEF Apart, streamVars
  <2> QED
    BY <2>1, <2>4, <2>5, OthersStay DEF Advances
<1>2. CASE Send(c)
  <2>1. sent' = [sent EXCEPT ![c] = @ + 1]
        /\ UNCHANGED <<job, phase, script, eof, result, streamVars, response>>
    BY <1>2 DEF Send, serviceVars
  <2>2. StepsLeft(c)' = StepsLeft(c) /\ UnitsLeft(c)' = UnitsLeft(c)
    BY <2>1 DEF StepsLeft, UnitsLeft, Undecrypted, streamVars
  <2>3. sent[c] < sent'[c] /\ sent[c] <= sent'[c]
    BY <2>1
  <2>4. Descends(c)
    <3>1. StepsLeft(c) <= StepsLeft(c) /\ UnitsLeft(c) <= UnitsLeft(c)
      BY Same
    <3> QED
      BY <2>1, <2>2, <2>3, <3>1, Lowers
  <2>5. Apart(c)
    BY <2>1 DEF Apart, streamVars
  <2> QED
    BY <2>1, <2>4, <2>5, OthersStay DEF Advances
<1>3. CASE Leave(c)
  <2>1. ~eof[c] /\ eof' = [eof EXCEPT ![c] = TRUE]
        /\ UNCHANGED <<job, phase, script, sent, result, streamVars, response>>
    BY <1>3 DEF Leave, serviceVars
  <2>2. StepsLeft(c)' = StepsLeft(c) /\ UnitsLeft(c)' = UnitsLeft(c)
    BY <2>1 DEF StepsLeft, UnitsLeft, Undecrypted, streamVars
  <2>3. Descends(c)
    <3>1. StepsLeft(c) <= StepsLeft(c) /\ UnitsLeft(c) <= UnitsLeft(c) /\ sent[c] <= sent[c]
      BY Same
    <3>2. eof'[c] /\ sent'[c] = sent[c] /\ script'[c] = script[c]
      BY <2>1
    <3> QED
      BY <2>1, <2>2, <3>1, <3>2, Lowers
  <2>4. Apart(c)
    BY <2>1 DEF Apart, streamVars
  <2> QED
    BY <2>1, <2>3, <2>4, OthersStay DEF Advances
<1> QED
  BY <1>1, <1>2, <1>3

LEMMA MoveAdvances ==
    ASSUME StreamInv, TypeOK', NEW c \in Conns,
           \/ OnAccept /\ c = Head(backlog)
           \/ OnDetectPlain(c) \/ OnWriteSsl(c) \/ OnReadEnd(c)
           \/ OnWritePlain(c) \/ OnError(c) \/ OnShutdown(c)
    PROVE  Advances(c)
<1>1. /\ phase \in [Conns -> Phases] /\ result = [d \in Conns |-> result[d]]
      /\ response = [d \in Conns |-> response[d]]
  BY DEF StreamInv, ProxyInv, SessionsInv, Types, TypeOK
<1>2. PICK there \in Phases :
         /\ phase' = [phase EXCEPT ![c] = there] /\ \E got : result' = [result EXCEPT ![c] = got]
         /\ UNCHANGED <<job, script, sent, eof, streamVars, response>>
         /\ \/ phase[c] = "backlog" /\ there = "detect"
            \/ phase[c] = "detect" /\ there = "read"
            \/ phase[c] \in {"read", "write"} /\ there = "shutdown"
            \/ phase[c] \in {"detect", "handshake", "read", "write", "shutdown"} /\ there = "closed"
  <2> USE DEF serviceVars, clientVars, Phases
  <2>1. CASE OnAccept /\ c = Head(backlog)
    <3>1. phase[c] = "backlog"
      BY <2>1 DEF StreamInv, ProxyInv, Waiting, OnAccept
    <3>2. result' = [result EXCEPT ![c] = result[c]]
      BY <1>1, <2>1 DEF OnAccept
    <3> QED
      BY <2>1, <3>1, <3>2 DEF OnAccept
  <2>2. CASE OnDetectPlain(c) \/ OnReadEnd(c)
    <3>1. result' = [result EXCEPT ![c] = result[c]]
      BY <1>1, <2>2 DEF OnDetectPlain, OnReadEnd
    <3> QED
      BY <2>2, <3>1 DEF OnDetectPlain, OnReadEnd, Pending
  <2>3. CASE OnWriteSsl(c)
    BY <2>3 DEF OnWriteSsl, Pending
  <2>4. CASE OnWritePlain(c) \/ OnError(c) \/ OnShutdown(c)
    <3>1. /\ Close(c, Got(c)) \/ Close(c, result[c])
          /\ UNCHANGED <<streamVars, response>>
          /\ phase[c] \in {"detect", "handshake", "read", "write", "shutdown"}
      BY <2>4 DEF OnWritePlain, OnError, OnShutdown, Pending, Broken
    <3>2. /\ phase' = [phase EXCEPT ![c] = "closed"] /\ UNCHANGED <<job, script, sent, eof>>
          /\ \E g : result' = [result EXCEPT ![c] = g]
      BY <3>1 DEF Close, CloseAs
    <3> QED
      BY <3>1, <3>2
  <2> QED
    BY <2>1, <2>2, <2>3, <2>4
<1>3. phase'[c] = there /\ phase' = [phase EXCEPT ![c] = phase'[c]]
  BY <1>1, <1>2
<1>4. StepsLeft(c)' < StepsLeft(c)
  BY <1>2, <1>3 DEF StepsLeft
<1>5. Descends(c)
  BY <1>2, <1>3, <1>4, PhaseDescends
<1>6. PICK got : result' = [result EXCEPT ![c] = got]
  BY <1>2
<1>7. Apart(c)
  BY <1>1, <1>2, <1>6 DEF Apart, streamVars
<1> QED
  BY <1>2, <1>5, <1>7, OthersStay DEF Advances

(* The steps of a call, and its return. *)
LEMMA CallAdvances ==
    ASSUME StreamInv, TypeOK', NEW c \in Conns,
           \/ OnRead(c) \/ SendResponse(c)
           \/ Fetching /\ phase[c] = "handle" /\ job[Proxy] \in Serving(c)
    PROVE  Advances(c)
<1>1. /\ phase \in [Conns -> Phases] /\ job = [g \in {Proxy} |-> job[Proxy]]
      /\ response = [d \in Conns |-> response[d]] /\ TypeOK
      /\ consumed = [d \in Conns |-> consumed[d]] /\ buffer = [d \in Conns |-> buffer[d]]
  BY DEF StreamInv, ProxyInv, SessionsInv, Types, TypeOK
<1>2. ASSUME NEW d \in Conns, d # c, phase[d] = "handle"
      PROVE  job[Proxy] # Service!Idle /\ job[Proxy] \notin Serving(c)
  <2>1. job[Proxy] \in Serving(d)
    BY <1>2 DEF StreamInv, ProxyInv, SessionsInv, Calling
  <2> QED
    BY <1>2, <2>1, Jobs
<1>3. CASE OnRead(c)
  <2>1. /\ job[Proxy] = Service!Idle /\ phase[c] = "read" /\ phase' = [phase EXCEPT ![c] = "handle"]
        /\ consumed' = [consumed EXCEPT ![c] = @ \o Whole]
        /\ buffer' = [buffer EXCEPT ![c] = Rest(Whole, @)]
        /\ UNCHANGED <<script, sent, eof, result, rcvd, engine, tls, response>>
    BY <1>3 DEF OnRead, Pending, Ready, clientVars
  <2>2. phase'[c] = "handle"
    BY <1>1, <2>1
  <2>3. StepsLeft(c)' < StepsLeft(c) /\ StepsLeft(c)' <= StepsLeft(c)
    BY <2>1, <2>2 DEF StepsLeft
  <2>4. UnitsLeft(c)' = UnitsLeft(c)
    BY <2>1, <2>2 DEF UnitsLeft, Undecrypted
  <2>5. Descends(c)
    <3>1. script'[c] = script[c] /\ sent'[c] = sent[c] /\ eof'[c] = eof[c]
      BY <2>1
    <3>2. UnitsLeft(c)' <= UnitsLeft(c) /\ sent[c] <= sent'[c]
      BY <2>4, <3>1, Same
    <3> QED
      BY <1>1, <2>3, <3>1, <3>2, Lowers
  <2>6. Apart(c)
    BY <1>1, <2>1 DEF Apart
  <2> QED
    BY <1>2, <2>1, <2>5, <2>6, OthersStay DEF Advances
<1>4. CASE SendResponse(c)
  <2>1. PICK o \in Outcomes : Service!Answer(Proxy, c, o)
    BY <1>4 DEF SendResponse
  <2>2. job[Proxy] \in Serving(c)
    BY <2>1 DEF Service!Answer, Serving
  <2>3. /\ phase[c] = "handle" /\ phase' = [phase EXCEPT ![c] = "write"]
        /\ response' = [response EXCEPT ![c] = Response]
        /\ UNCHANGED <<script, sent, eof, result, streamVars>>
    BY <1>4 DEF SendResponse, clientVars
  <2>4. phase'[c] = "write" /\ phase' = [phase EXCEPT ![c] = phase'[c]]
    BY <1>1, <2>3
  <2>5. StepsLeft(c)' < StepsLeft(c)
    BY <2>3, <2>4 DEF StepsLeft
  <2>6. Descends(c)
    BY <2>3, <2>4, <2>5, PhaseDescends
  <2>7. Apart(c)
    BY <1>1, <2>3 DEF Apart, streamVars
  <2> QED
    BY <1>2, <2>2, <2>6, <2>7, OthersStay DEF Advances
<1>5. CASE Fetching /\ phase[c] = "handle" /\ job[Proxy] \in Serving(c)
  <2>1. PICK d \in Conns : Service!Send(Proxy, d) \/ \E o \in Outcomes : Service!Settle(Proxy, d, o)
    BY <1>5 DEF Fetching
  <2>2. d = c
    <3>1. job[Proxy] \in Serving(d)
      BY <2>1 DEF Service!Send, Service!Settle, Serving
    <3> QED
      BY <1>5, <3>1, Jobs
  <2>3. UNCHANGED <<phase, script, sent, eof, result, streamVars, response>>
    BY <1>5 DEF Fetching, clientVars
  <2>4. /\ Service!Sent(c) # Service!Accepted(c)
        /\ \A o : Service!Settled(c, o) # Service!Accepted(c) /\ Service!Settled(c, o) # Service!Sent(c)
    <3>1. /\ Service!Sent(c).phase = "sent" /\ Service!Accepted(c).phase = "accepted"
          /\ \A o : Service!Settled(c, o).phase = "settled"
      BY DEF Service!Sent, Service!Accepted, Service!Settled
    <3> QED
      BY <3>1
  <2>5. StepsLeft(c)' < StepsLeft(c)
    <3>1. CASE Service!Send(Proxy, c)
      <4>1. job[Proxy] = Service!Accepted(c) /\ job'[Proxy] = Service!Sent(c)
        BY <1>1, <3>1 DEF Service!Send, Service!Become, Proxy
      <4> QED
        BY <1>5, <2>3, <2>4, <4>1 DEF StepsLeft
    <3>2. ASSUME NEW o \in Outcomes, Service!Settle(Proxy, c, o) PROVE StepsLeft(c)' < StepsLeft(c)
      <4>1. job[Proxy] = Service!Sent(c) /\ job'[Proxy] = Service!Settled(c, o)
        BY <1>1, <3>2 DEF Service!Settle, Service!Become, Proxy
      <4> QED
        BY <1>5, <2>3, <2>4, <4>1 DEF StepsLeft
    <3> QED
      BY <2>1, <2>2, <3>1, <3>2
  <2>6. Descends(c)
    <3>1. phase' = [phase EXCEPT ![c] = phase'[c]] /\ phase'[c] = phase[c]
      BY <1>1, <2>3
    <3> QED
      BY <1>5, <2>3, <2>5, <3>1, PhaseDescends
  <2>7. Apart(c)
    BY <2>3 DEF Apart, streamVars
  <2> QED
    BY <1>2, <1>5, <2>6, <2>7, OthersStay DEF Advances
<1> QED
  BY <1>3, <1>4, <1>5

LEMMA TakenOnce ==
    ASSUME NEW k \in Nat, NEW r \in Nat, NEW n \in Nat \ {0}, NEW x \in Nat, NEW y \in Nat,
           r + n <= k, y <= x + n
    PROVE  2 * (k - (r + n)) + y < 2 * (k - r) + x /\ 2 * (k - (r + n)) + y <= 2 * (k - r) + x
<1>1. PICK m \in Nat : m = k - (r + n)
  OBVIOUS
<1>2. k - r = m + n
  BY <1>1
<1>3. 2 * m + y < 2 * (m + n) + x
  OBVIOUS
<1> QED
  BY <1>1, <1>2, <1>3

(* Units that are taken, handed over and decrypted. *)
LEMMA UnitsAdvance ==
    ASSUME StreamInv, TypeOK', NEW c \in Conns,
           OnDetectSsl(c) \/ OnHandshake(c) \/ Decrypt(c) \/ Receive(c)
    PROVE  Advances(c)
<1>1. /\ phase \in [Conns -> Phases] /\ TypeOK
      /\ consumed = [d \in Conns |-> consumed[d]] /\ buffer = [d \in Conns |-> buffer[d]]
      /\ engine = [d \in Conns |-> engine[d]] /\ rcvd = [d \in Conns |-> rcvd[d]]
      /\ tls = [d \in Conns |-> tls[d]]
  BY DEF StreamInv, ProxyInv, SessionsInv, Types, TypeOK
<1>2. PICK k \in Nat, r \in Nat, b \in Nat, e \in Nat :
         k = Len(script[c]) /\ r = rcvd[c] /\ b = Len(buffer[c]) /\ e = Len(engine[c]) /\ r <= k
  <2>1. Len(buffer[c]) \in Nat /\ Len(engine[c]) \in Nat /\ rcvd[c] <= Len(script[c])
    BY StreamTypes
  <2> QED
    BY <2>1, StreamTypes
<1>3. UNCHANGED <<job, script, sent, eof, result, response>>
  BY DEF OnDetectSsl, OnHandshake, Decrypt, Receive, serviceVars, clientVars
<1>4. ASSUME StepsLeft(c)' <= StepsLeft(c), UnitsLeft(c)' <= UnitsLeft(c),
             StepsLeft(c)' < StepsLeft(c) \/ UnitsLeft(c)' < UnitsLeft(c)
      PROVE  Descends(c)
  <2>1. script'[c] = script[c] /\ sent'[c] = sent[c] /\ eof'[c] = eof[c] /\ sent[c] <= sent'[c]
    BY <1>3, Same
  <2> QED
    BY <1>1, <1>4, <2>1, Lowers
<1>5. CASE OnDetectSsl(c)
  <2>1. /\ phase[c] = "detect" /\ phase' = [phase EXCEPT ![c] = "handshake"]
        /\ tls' = [tls EXCEPT ![c] = TRUE] /\ engine' = [engine EXCEPT ![c] = buffer[c]]
        /\ UNCHANGED <<rcvd, buffer, consumed>>
    BY <1>5 DEF OnDetectSsl, Pending
  <2>2. phase'[c] = "handshake" /\ engine'[c] = buffer[c]
    BY <1>1, <2>1
  <2>3. StepsLeft(c)' < StepsLeft(c) /\ StepsLeft(c)' <= StepsLeft(c)
    BY <2>1, <2>2 DEF StepsLeft
  <2>4. UnitsLeft(c)' = UnitsLeft(c)
    BY <1>3, <2>1, <2>2 DEF UnitsLeft, Undecrypted
  <2>5. Apart(c)
    BY <1>1, <1>3, <2>1 DEF Apart
  <2>6. UnitsLeft(c)' <= UnitsLeft(c)
    BY <2>4, Same
  <2> QED
    BY <1>3, <1>4, <2>3, <2>5, <2>6, OthersStay DEF Advances
<1>6. CASE OnHandshake(c)
  <2>1. /\ phase[c] = "handshake" /\ phase' = [phase EXCEPT ![c] = "read"] /\ Starts(Handshake, engine[c])
        /\ consumed' = [consumed EXCEPT ![c] = Handshake]
        /\ engine' = [engine EXCEPT ![c] = Rest(Handshake, @)]
        /\ buffer' = [buffer EXCEPT ![c] = <<>>]
        /\ UNCHANGED <<rcvd, tls>>
    BY <1>6 DEF OnHandshake, Pending, AfterHandshake
  <2>2. phase'[c] = "read" /\ engine'[c] = Rest(Handshake, engine[c])
    BY <1>1, <2>1
  <2>3. StepsLeft(c)' < StepsLeft(c) /\ StepsLeft(c)' <= StepsLeft(c)
    BY <2>1, <2>2 DEF StepsLeft
  <2>4. PICK m \in Nat : m = Len(engine'[c]) /\ m <= e
    <3>1. engine[c] \in Seq(Units) /\ Handshake \in Seq(Units)
      BY StreamTypes, Literals
    <3>2. Rest(Handshake, engine[c]) \in Seq(Units) /\ Handshake \o Rest(Handshake, engine[c]) = engine[c]
      BY <2>1, <3>1, Cut
    <3>3. PICK t \in Seq(Units) : t = Rest(Handshake, engine[c])
      BY <3>2
    <3>4. Len(Handshake \o t) = Len(Handshake) + Len(t)
      BY <3>1, ConcatProperties
    <3>5. e = 3 + Len(t) /\ Len(t) \in Nat
      BY <1>2, <3>2, <3>3, <3>4, Literals
    <3> QED
      BY <2>2, <3>3, <3>5
  <2>5. UnitsLeft(c) = 2 * (k - r) + e /\ UnitsLeft(c)' = 2 * (k - r) + m
    BY <1>2, <1>3, <2>1, <2>2, <2>4 DEF UnitsLeft, Undecrypted
  <2>6. UnitsLeft(c)' <= UnitsLeft(c)
    BY <1>2, <2>4, <2>5
  <2>7. Apart(c)
    BY <1>1, <1>3, <2>1 DEF Apart
  <2> QED
    BY <1>3, <1>4, <2>3, <2>6, <2>7, OthersStay DEF Advances
<1>7. CASE Decrypt(c)
  <2>1. /\ phase[c] = "read" /\ engine[c] # <<>> /\ engine' = [engine EXCEPT ![c] = <<>>]
        /\ buffer' = [buffer EXCEPT ![c] = @ \o engine[c]]
        /\ UNCHANGED <<phase, rcvd, tls, consumed>>
    BY <1>7 DEF Decrypt, Pending
  <2>2. e > 0 /\ Len(engine'[c]) = 0
    <3>1. engine[c] \in Seq(Units) /\ engine'[c] = <<>>
      BY <1>1, <2>1, StreamTypes
    <3> QED
      BY <1>2, <2>1, <3>1, EmptySeq
  <2>3. UnitsLeft(c) = 2 * (k - r) + e /\ UnitsLeft(c)' = 2 * (k - r) + 0
    BY <1>2, <1>3, <2>1, <2>2 DEF UnitsLeft, Undecrypted
  <2>4. UnitsLeft(c)' < UnitsLeft(c) /\ UnitsLeft(c)' <= UnitsLeft(c)
    BY <1>2, <2>2, <2>3
  <2>5. StepsLeft(c)' <= StepsLeft(c)
    BY <1>3, <2>1, Same DEF StepsLeft
  <2>6. Apart(c)
    BY <1>1, <1>3, <2>1 DEF Apart
  <2> QED
    BY <1>3, <1>4, <2>4, <2>5, <2>6, OthersStay DEF Advances
<1>8. CASE Receive(c)
  <2>1. PICK n \in Nat \ {0}, u \in Seq(Units) :
           /\ rcvd[c] + n <= sent[c]
           /\ rcvd' = [rcvd EXCEPT ![c] = @ + n]
           /\ SubSeq(script[c], 1, rcvd[c]) \o u = SubSeq(script[c], 1, rcvd[c] + n)
           /\ tls[c] => engine' = [engine EXCEPT ![c] = @ \o u] /\ UNCHANGED buffer
           /\ ~tls[c] => buffer' = [buffer EXCEPT ![c] = @ \o u] /\ UNCHANGED engine
    BY <1>8, Received
  <2>2. UNCHANGED <<phase, tls, consumed>> /\ WantsMore(c)
    BY <1>8 DEF Receive
  <2>3. /\ phase[c] \in {"detect", "handshake", "read", "shutdown"}
        /\ phase[c] = "detect" => ~tls[c]
        /\ phase[c] \in {"handshake", "shutdown"} => tls[c]
    BY <2>2 DEF WantsMore, StreamInv, ProxyInv, SessionsInv, Streaming, Stream, Detected
  <2>4. Len(u) = n /\ r + n <= k
    <3>1. script[c] \in Seq(Units) /\ rcvd[c] \in Nat /\ sent[c] \in Nat /\ sent[c] <= Len(script[c])
      BY StreamTypes
    <3>2. PICK s \in Seq(Units) : s = script[c]
      BY <3>1
    <3>3. r + n <= Len(s) /\ SubSeq(s, 1, r) \o u = SubSeq(s, 1, r + n)
      <4>1. PICK m \in Nat : m = sent[c] /\ m <= k
        BY <1>2, <3>1
      <4>2. r + n <= m
        BY <1>2, <2>1, <4>1
      <4>3. r + n <= k
        BY <4>1, <4>2
      <4> QED
        BY <1>2, <2>1, <3>2, <4>3
    <3>4. /\ SubSeq(s, 1, r) \in Seq(Units) /\ Len(SubSeq(s, 1, r)) = r
          /\ Len(SubSeq(s, 1, r + n)) = r + n
      BY <3>3, SubSeqProperties
    <3>5. Len(SubSeq(s, 1, r) \o u) = r + Len(u)
      BY <3>4, ConcatProperties
    <3>6. Len(u) \in Nat /\ r + Len(u) = r + n
      BY <3>3, <3>4, <3>5
    <3> QED
      BY <1>2, <3>2, <3>3, <3>6
  <2>5. rcvd'[c] = r + n
    BY <1>1, <1>2, <2>1
  <2>6. CASE tls[c]
    <3>1. engine'[c] = engine[c] \o u
      BY <1>1, <2>1, <2>6
    <3>2. Len(engine[c] \o u) = e + n
      <4>1. PICK w \in Seq(Units) : w = engine[c]
        BY StreamTypes
      <4>2. Len(w \o u) = Len(w) + Len(u)
        BY ConcatProperties
      <4> QED
        BY <1>2, <2>4, <4>1, <4>2
    <3>3. phase[c] # "detect" /\ UnitsLeft(c) = 2 * (k - r) + e /\ UnitsLeft(c)' = 2 * (k - (r + n)) + (e + n)
      BY <1>2, <1>3, <2>2, <2>3, <2>5, <2>6, <3>1, <3>2 DEF UnitsLeft, Undecrypted
    <3> QED
      <4>1. UnitsLeft(c)' < UnitsLeft(c) /\ UnitsLeft(c)' <= UnitsLeft(c)
        BY <2>4, <3>3, TakenOnce
      <4>2. StepsLeft(c)' <= StepsLeft(c)
        BY <1>3, <2>2, Same DEF StepsLeft
      <4>3. Apart(c)
        BY <1>1, <1>3, <2>1, <2>2, <2>6 DEF Apart
      <4> QED
        BY <1>3, <1>4, <4>1, <4>2, <4>3, OthersStay DEF Advances
  <2>7. CASE ~tls[c]
    <3>1. buffer'[c] = buffer[c] \o u /\ engine'[c] = engine[c]
      BY <1>1, <2>1, <2>7
    <3>2. Len(buffer[c] \o u) = b + n
      <4>1. PICK w \in Seq(Units) : w = buffer[c]
        BY StreamTypes
      <4>2. Len(w \o u) = Len(w) + Len(u)
        BY ConcatProperties
      <4> QED
        BY <1>2, <2>4, <4>1, <4>2
    <3>3. PICK x \in Nat, y \in Nat :
             /\ y <= x + n
             /\ UnitsLeft(c) = 2 * (k - r) + x /\ UnitsLeft(c)' = 2 * (k - (r + n)) + y
      <4>1. CASE phase[c] = "detect"
        <5>1. UnitsLeft(c) = 2 * (k - r) + b /\ UnitsLeft(c)' = 2 * (k - (r + n)) + (b + n)
          BY <1>2, <1>3, <2>2, <2>5, <3>1, <3>2, <4>1 DEF UnitsLeft, Undecrypted
        <5>2. b + n \in Nat /\ b + n <= b + n
          BY <1>2, <2>1
        <5> QED
          BY <5>1, <5>2
      <4>2. CASE phase[c] = "read"
        <5>1. UnitsLeft(c) = 2 * (k - r) + e /\ UnitsLeft(c)' = 2 * (k - (r + n)) + e
          BY <1>2, <1>3, <2>2, <2>5, <3>1, <4>2 DEF UnitsLeft, Undecrypted
        <5>2. e \in Nat /\ e <= e + n
          BY <1>2, <2>1
        <5> QED
          BY <5>1, <5>2
      <4> QED
        BY <2>3, <2>7, <4>1, <4>2
    <3> QED
      <4>1. UnitsLeft(c)' < UnitsLeft(c) /\ UnitsLeft(c)' <= UnitsLeft(c)
        BY <2>4, <3>3, TakenOnce
      <4>2. StepsLeft(c)' <= StepsLeft(c)
        BY <1>3, <2>2, Same DEF StepsLeft
      <4>3. Apart(c)
        BY <1>1, <1>3, <2>1, <2>2, <2>7 DEF Apart
      <4> QED
        BY <1>3, <1>4, <4>1, <4>2, <4>3, OthersStay DEF Advances
  <2> QED
    BY <2>6, <2>7
<1> QED
  BY <1>5, <1>6, <1>7, <1>8

(* The session of a patient client finds in its stream what it expects.    *)
LEMMA ScriptUnits ==
    /\ Tls \in Seq(Units) /\ Len(Tls) = 5 /\ Tls[1] = "hel" /\ Tls[2] = "lo" /\ Tls[3] = "finished"
    /\ Tls[4] = "head" /\ Tls[5] = "body"
    /\ \A i \in 1..3 : Handshake[i] = Tls[i]
    /\ \A i \in 1..2 : Tls[3 + i] = Request[i]
<1>1. 3 + 1 = 4 /\ 3 + 2 = 5
  OBVIOUS
<1> QED
  BY <1>1, TlsUnits, Literals

LEMMA InEngine ==
    ASSUME StreamInv, NEW c \in Conns, phase[c] = "handshake"
    PROVE  /\ Len(engine[c]) = rcvd[c] /\ IsHello(engine[c])
           /\ \A i \in 1..Len(engine[c]) : script[c][i] = engine[c][i]
<1>1. consumed[c] = <<>> /\ IsHello(engine[c])
  BY DEF StreamInv, Stream, Used, Detected
<1>2. PICK held : held = engine[c]
  OBVIOUS
<1>3. /\ held \in Seq(Units) /\ rcvd[c] = Len(consumed[c]) + Len(held)
      /\ \A j \in 1..Len(held) : script[c][Len(consumed[c]) + j] = held[j]
  BY <1>2, TakenParts
<1>4. Len(consumed[c]) = 0 /\ Len(held) \in Nat
  BY <1>1, <1>3, EmptySeq
<1>5. rcvd[c] = Len(held) /\ \A j \in 1..Len(held) : script[c][j] = held[j]
  BY <1>3, <1>4
<1> QED
  BY <1>1, <1>2, <1>5

LEMMA AtHandshake ==
    ASSUME StreamInv, NEW c \in Conns, Patient(c), phase[c] = "handshake"
    PROVE  /\ script[c] = Tls /\ Len(engine[c]) = rcvd[c]
           /\ \A i \in 1..Len(engine[c]) : engine[c][i] = Tls[i]
<1>1. engine[c] \in Seq(Units) /\ Len(engine[c]) \in Nat
  BY StreamTypes
<1>2. Len(engine[c]) >= 2 /\ engine[c][1] = "hel"
  BY <1>1, InEngine, HelloUnits
<1>3. script[c][1] = "hel"
  BY <1>1, <1>2, InEngine
<1>4. script[c] = Tls
  BY <1>3, Literals DEF Patient
<1> QED
  BY <1>4, InEngine

LEMMA AtRead ==
    ASSUME StreamInv, NEW c \in Conns, Patient(c), phase[c] = "read"
    PROVE  /\ script[c] = (IF tls[c] THEN Tls ELSE Request)
           /\ \A i \in 1..Len(buffer[c]) : i <= 2 => buffer[c][i] = Request[i]
           /\ engine[c] = <<>> => rcvd[c] = (IF tls[c] THEN 3 ELSE 0) + Len(buffer[c])
<1>1. consumed[c] = (IF tls[c] THEN Handshake ELSE <<>>)
  BY DEF StreamInv, Stream, Used
<1>2. PICK held : held = buffer[c] \o engine[c]
  OBVIOUS
<1>3. /\ held \in Seq(Units) /\ rcvd[c] = Len(consumed[c]) + Len(held)
      /\ \A j \in 1..Len(consumed[c]) : script[c][j] = consumed[c][j]
      /\ \A j \in 1..Len(held) : script[c][Len(consumed[c]) + j] = held[j]
  BY <1>2, TakenParts
<1>4. /\ Len(buffer[c]) \in Nat /\ Len(held) \in Nat /\ Len(buffer[c]) <= Len(held)
      /\ \A j \in 1..Len(buffer[c]) : held[j] = buffer[c][j]
      /\ engine[c] = <<>> => Len(held) = Len(buffer[c])
  <2>1. buffer[c] \in Seq(Units) /\ engine[c] \in Seq(Units)
    BY StreamTypes
  <2>2. PICK b \in Seq(Units), e \in Seq(Units) : b = buffer[c] /\ e = engine[c]
    BY <2>1
  <2>3. /\ Len(b \o e) = Len(b) + Len(e)
        /\ \A j \in 1..(Len(b) + Len(e)) : (b \o e)[j] = IF j <= Len(b) THEN b[j] ELSE e[j - Len(b)]
    BY ConcatProperties
  <2>4. Len(b) \in Nat /\ Len(b \o e) \in Nat /\ Len(b) <= Len(b \o e) /\ \A j \in 1..Len(b) : (b \o e)[j] = b[j]
    BY <2>3
  <2>5. e = <<>> => Len(b \o e) = Len(b)
    BY <2>3, EmptySeq
  <2> QED
    BY <1>2, <2>2, <2>4, <2>5
<1>5. Len(consumed[c]) = (IF tls[c] THEN 3 ELSE 0)
  BY <1>1, Literals, EmptySeq
<1>6. script[c] = (IF tls[c] THEN Tls ELSE Request)
  <2>1. CASE tls[c]
    <3>1. script[c][1] = "hel"
      BY <1>1, <1>3, <1>5, <2>1, Literals
    <3> QED
      BY <2>1, <3>1, Literals DEF Patient
  <2>2. CASE ~tls[c]
    <3>1. Detected(c)
      BY DEF StreamInv, Stream
    <3>2. script[c][1] # "hel" \/ script[c][2] \notin {"lo", "bare"}
      BY <2>2, <3>1 DEF Detected
    <3>3. ~(script[c][1] = "hel" /\ script[c][2] = "lo")
      BY <3>2
    <3> QED
      BY <2>2, <3>3, ScriptUnits DEF Patient
  <2> QED
    BY <2>1, <2>2
<1>7. ASSUME NEW i \in 1..Len(buffer[c]), i <= 2 PROVE buffer[c][i] = Request[i]
  <2>1. i \in 1..Len(held) /\ i \in 1..2 /\ script[c][Len(consumed[c]) + i] = buffer[c][i]
    <3>1. PICK b \in Nat, h \in Nat : b = Len(buffer[c]) /\ h = Len(held) /\ b <= h
      BY <1>4
    <3>2. i \in 1..b /\ i \in 1..h /\ i \in 1..2
      BY <1>7, <3>1
    <3>3. held[i] = buffer[c][i]
      BY <1>4, <3>1, <3>2
    <3>4. script[c][Len(consumed[c]) + i] = held[i]
      BY <1>3, <3>1, <3>2
    <3> QED
      BY <3>1, <3>2, <3>3, <3>4
  <2>2. CASE tls[c]
    BY <1>5, <1>6, <2>1, <2>2, ScriptUnits
  <2>3. CASE ~tls[c]
    <3>1. 0 + i = i
      BY <2>1
    <3> QED
      BY <1>5, <1>6, <2>1, <2>3, <3>1
  <2> QED
    BY <2>2, <2>3
<1> QED
  BY <1>3, <1>4, <1>5, <1>6, <1>7

LEMMA PatientSendsOne ==
    ASSUME StreamInv, NEW c \in Conns, Patient(c)
    PROVE  AtMostOneRequest(Sent(c))
<1>1. script[c] \in Seq(Units) /\ sent[c] \in Nat /\ sent[c] <= Len(script[c])
  BY StreamTypes
<1>2. \A i \in 1..sent[c] : script[c][i] \in Units
  BY <1>1
<1>3. Len(Sent(c)) = sent[c]
  BY <1>1, <1>2, SubSeqProperties DEF Sent
<1>4. Starts(Sent(c), script[c])
  BY <1>1, <1>3 DEF Starts, Sent
<1> QED
  BY <1>4 DEF Patient, AtMostOneRequest, Tls

(* A session whose hello got no certificate does not come past the handshake. *)
LEMMA NamelessPhase ==
    ASSUME StreamInv, NEW c \in Conns, Starts(Bare, script[c])
    PROVE  phase[c] \in {"none", "backlog", "detect", "handshake", "closed"}
<1>1. script[c][1] = "hel" /\ script[c][2] = "bare"
  BY StreamTypes, HelloUnits
<1>2. phase[c] \in Phases /\ Detected(c) /\ Used(c)
  BY DEF StreamInv, ProxyInv, SessionsInv, Types, Stream
<1>3. ASSUME phase[c] \in {"read", "handle", "write", "shutdown"} PROVE FALSE
  <2>1. consumed[c] \in {<<>>, Handshake, Tls, Request} /\ (consumed[c] = <<>> => phase[c] = "read" /\ ~tls[c])
    <3>1. /\ phase[c] = "read" => consumed[c] = IF tls[c] THEN Handshake ELSE <<>>
          /\ phase[c] \in {"handle", "write"} => consumed[c] = IF tls[c] THEN Tls ELSE Request
          /\ phase[c] = "shutdown" => consumed[c] \in {Tls, Handshake}
      BY <1>2 DEF Used
    <3>2. Handshake # <<>> /\ Tls # <<>> /\ Request # <<>>
      BY Literals, ScriptUnits, EmptySeq
    <3> QED
      BY <1>3, <3>1, <3>2
  <2>2. \A i \in 1..Len(consumed[c]) : script[c][i] = consumed[c][i]
    BY <1>3, TakenParts
  <2>3. consumed[c] # <<>>
    BY <1>1, <1>2, <2>1 DEF Detected
  <2>4. CASE consumed[c] \in {Handshake, Tls}
    <3>1. /\ Len(Handshake) = 3 /\ Handshake[2] = "lo" /\ Len(Tls) = 5 /\ Tls[2] = "lo"
          /\ 2 \in 1..3 /\ 2 \in 1..5
      BY Literals, ScriptUnits
    <3>2. 2 \in 1..Len(consumed[c]) /\ consumed[c][2] = "lo"
      BY <2>4, <3>1
    <3> QED
      BY <1>1, <2>2, <3>2
  <2>5. CASE consumed[c] = Request
    <3>1. 1 \in 1..Len(consumed[c]) /\ consumed[c][1] = "head"
      BY <2>5, Literals
    <3> QED
      BY <1>1, <2>2, <3>1
  <2> QED
    BY <2>1, <2>3, <2>4, <2>5
<1> QED
  BY <1>2, <1>3 DEF Phases

(* No operation of such a session fails before the client has its answer. *)
LEMMA NotBroken ==
    ASSUME StreamInv, NEW c \in Conns, Fate(c), Patient(c), phase[c] # "shutdown"
    PROVE  ~Broken(c) /\ (phase[c] # "closed" => ~eof[c])
<1>1. phase[c] # "closed" => ~eof[c]
  <2>1. phase[c] # "closed" => result[c] # "answered"
    BY DEF Fate
  <2> QED
    BY <2>1 DEF Fate, Patient
<1>2. phase[c] # "closed" => ~EndOfStream(c)
  BY <1>1 DEF EndOfStream
<1>3. CASE phase[c] = "handshake"
  <2>1. Len(engine[c]) \in Nat
    BY StreamTypes
  <2>2. \A i \in 1..Len(engine[c]) : i <= 3 => engine[c][i] = Handshake[i]
    BY <1>3, <2>1, AtHandshake, ScriptUnits
  <2> QED
    BY <1>1, <1>2, <1>3, <2>2 DEF Broken
<1>4. CASE phase[c] = "read"
  <2>1. \A i \in 1..Len(buffer[c]) : i <= 2 => buffer[c][i] = Request[i]
    BY <1>4, AtRead
  <2> QED
    BY <1>1, <1>2, <1>4, <2>1 DEF Broken
<1> QED
  BY <1>1, <1>2, <1>3, <1>4 DEF Broken

(* The session of a patient client ends when the client has its answer.    *)
LEMMA PatientEnds ==
    ASSUME StreamInv, NEW c \in Conns, Fate(c), Patient(c), OnWritePlain(c) \/ OnError(c) \/ OnShutdown(c)
    PROVE  result'[c] = "answered" /\ result[c] \in {"waiting", "answered"}
<1>1. ~Unread(c)
  BY ClosedOnMore, PatientSendsOne
<1>2. \A got : Close(c, got) => result' = [result EXCEPT ![c] = IF got = "waiting" THEN "empty" ELSE got]
  BY <1>1 DEF Close, CloseAs
<1>3. result \in [Conns -> {"none", "waiting", "answered", "empty", "reset"}]
  BY DEF StreamInv, TypeOK
<1>4. CASE OnWritePlain(c)
  <2>1. phase[c] = "write" /\ Close(c, Got(c))
    BY <1>4 DEF OnWritePlain, Pending
  <2>2. ~eof[c] /\ result[c] = "waiting"
    BY <2>1, NotBroken DEF Fate
  <2> QED
    BY <1>2, <1>3, <2>1, <2>2 DEF Got
<1>5. CASE OnShutdown(c)
  <2>1. phase[c] = "shutdown" /\ Close(c, result[c])
    BY <1>5 DEF OnShutdown, Pending
  <2>2. result[c] = "answered"
    BY <2>1 DEF Fate
  <2> QED
    BY <1>2, <1>3, <2>1, <2>2
<1>6. CASE OnError(c)
  <2>1. Broken(c) /\ phase[c] # "shutdown"
    BY <1>6 DEF OnError, Broken
  <2> QED
    BY <2>1, NotBroken
<1> QED
  BY <1>4, <1>5, <1>6

LEMMA FateKept ==
    ASSUME NEW c \in Conns, Fate(c), UNCHANGED <<phase[c], script[c], eof[c], result[c]>>
    PROVE  Fate(c)'
  BY DEF Fate, Patient, Nameless

LEMMA OwnFate ==
    ASSUME SessionInv, NEW c \in Conns,
           \/ OnAccept /\ c = Head(backlog)
           \/ Connect(c) \/ Send(c) \/ Leave(c) \/ Handler(c) \/ OnWrite(c)
    PROVE  Fate(c)'
<1>1. StreamInv /\ Fate(c) /\ Listens
  BY DEF SessionInv
<1>2. /\ phase \in [Conns -> Phases] /\ eof \in [Conns -> BOOLEAN]
      /\ result \in [Conns -> {"none", "waiting", "answered", "empty", "reset"}]
  BY DEF SessionInv, StreamInv, ProxyInv, SessionsInv, Types, TypeOK
<1>3. UNCHANGED script
  BY DEF OnAccept, Connect, Send, Leave, Handler, OnWrite, Receive, OnDetectSsl, OnDetectPlain, OnHandshake,
     Decrypt, OnRead, SendResponse, OnReadEnd, OnError, OnShutdown, OnWritePlain, OnWriteSsl, Close, CloseAs,
     clientVars
<1>4. Patient(c)' = Patient(c) /\ Nameless(c)' = Nameless(c)
  BY <1>3 DEF Patient, Nameless
<1>5. CASE Connect(c)
  <2>1. /\ phase[c] = "none" /\ phase'[c] = "backlog" /\ result'[c] = "waiting" /\ eof'[c] = eof[c]
    BY <1>2, <1>5 DEF Connect, clientVars
  <2> QED
    BY <1>1, <1>4, <2>1 DEF Fate
<1>6. CASE Send(c) \/ Receive(c) \/ Decrypt(c)
  <2>1. UNCHANGED <<phase, eof, result>>
    BY <1>6 DEF Send, Receive, Decrypt, clientVars
  <2> QED
    BY <1>1, <1>3, <2>1, FateKept
<1>7. CASE Leave(c)
  <2>1. UNCHANGED <<phase, result>> /\ (c \in Careless \/ result[c] = "answered")
    BY <1>7 DEF Leave
  <2>2. ~Nameless(c)
    BY <1>1, <2>1 DEF Fate, Nameless
  <2> QED
    BY <1>1, <1>4, <2>1, <2>2 DEF Fate, Patient
<1>8. CASE \/ OnAccept /\ c = Head(backlog)
           \/ OnDetectSsl(c) \/ OnDetectPlain(c) \/ OnHandshake(c) \/ OnRead(c) \/ SendResponse(c)
  <2>1. /\ phase[c] \in {"backlog", "detect", "handshake", "read", "handle"}
        /\ UNCHANGED <<eof, result>>
        /\ \E there \in {"detect", "handshake", "read", "handle", "write"} : phase' = [phase EXCEPT ![c] = there]
    BY <1>1, <1>8 DEF OnAccept, StreamInv, ProxyInv, Waiting, OnDetectSsl, OnDetectPlain, OnHandshake, OnRead,
       SendResponse, Pending, clientVars
  <2>2. phase'[c] \in {"detect", "handshake", "read", "handle", "write"}
    BY <1>2, <2>1
  <2>3. result[c] = "waiting"
    BY <1>1, <2>1 DEF Fate
  <2> QED
    BY <1>1, <1>4, <2>1, <2>2, <2>3 DEF Fate
<1>9. CASE OnReadEnd(c)
  <2>1. phase[c] = "read" /\ phase'[c] = "shutdown" /\ UNCHANGED <<eof, result>> /\ eof[c]
    BY <1>2, <1>9 DEF OnReadEnd, Pending, EndOfStream, clientVars
  <2>2. ~Patient(c)
    BY <1>1, <2>1, NotBroken
  <2>3. ~Nameless(c)
    BY <1>1, <2>1 DEF Fate
  <2> QED
    BY <1>1, <1>4, <2>1, <2>2, <2>3 DEF Fate
<1>10. CASE OnWriteSsl(c)
  <2>1. phase[c] = "write" /\ phase'[c] = "shutdown" /\ result'[c] = Got(c) /\ UNCHANGED eof
    BY <1>2, <1>10 DEF OnWriteSsl, Pending, clientVars
  <2>2. result[c] = "waiting" /\ (Patient(c) => ~eof[c])
    BY <1>1, <2>1, NotBroken DEF Fate
  <2>3. ~Nameless(c)
    BY <1>1, <2>1, NamelessPhase DEF Nameless
  <2> QED
    BY <1>4, <2>1, <2>2, <2>3 DEF Fate, Got
<1>11. CASE OnWritePlain(c) \/ OnError(c) \/ OnShutdown(c)
  <2>1. /\ Close(c, Got(c)) \/ Close(c, result[c])
        /\ phase[c] \in {"detect", "handshake", "read", "write", "shutdown"}
    BY <1>11 DEF OnWritePlain, OnError, OnShutdown, Pending, Broken
  <2>2. result[c] \in {"waiting", "answered"}
    BY <1>1, <2>1 DEF Fate
  <2>3. phase'[c] = "closed" /\ result'[c] \in {"answered", "empty", "reset"} /\ UNCHANGED eof
    <3>1. PICK got \in {"waiting", "answered"} : Close(c, got)
      BY <2>1, <2>2 DEF Got
    <3>2. /\ phase' = [phase EXCEPT ![c] = "closed"] /\ UNCHANGED eof
          /\ \E g \in {"answered", "empty", "reset"} : result' = [result EXCEPT ![c] = g]
      BY <3>1 DEF Close, CloseAs, clientVars
    <3> QED
      BY <1>2, <3>2
  <2>4. Patient(c) => result'[c] = "answered"
    BY <1>1, <1>11, PatientEnds
  <2>5. Nameless(c) => ~eof[c] /\ result'[c] # "answered"
    <3> SUFFICES ASSUME Nameless(c) PROVE ~eof[c] /\ result'[c] # "answered"
      OBVIOUS
    <3>1. ~eof[c] /\ result[c] = "waiting" /\ phase[c] \in {"detect", "handshake"}
      BY <1>1, <2>1, <2>2, NamelessPhase DEF Fate, Nameless
    <3>2. Close(c, result[c])
      BY <1>11, <3>1 DEF OnWritePlain, OnError, OnShutdown, Pending
    <3>3. result'[c] \in {"empty", "reset"}
      BY <1>2, <3>1, <3>2 DEF Close, CloseAs
    <3> QED
      BY <3>1, <3>3
  <2> QED
    BY <1>4, <2>3, <2>4, <2>5 DEF Fate
<1> QED
  BY <1>5, <1>6, <1>7, <1>8, <1>9, <1>10, <1>11 DEF Handler, OnWrite

LEMMA DieFate ==
    ASSUME SessionInv, Die, NEW c \in Conns PROVE Fate(c)'
<1>1. Fate(c)
  BY DEF SessionInv
<1>2. /\ phase'[c] = (IF phase[c] = "none" THEN "none" ELSE "closed")
      /\ result'[c] = (IF result[c] = "waiting" THEN "reset" ELSE result[c])
      /\ UNCHANGED <<script, eof>>
  BY DEF Die, clientVars
<1>3. phase[c] \in Phases /\ result[c] \in {"none", "waiting", "answered", "empty", "reset"}
  BY DEF SessionInv, StreamInv, ProxyInv, SessionsInv, Types, TypeOK
<1>4. Patient(c)' = Patient(c) /\ Nameless(c)' = Nameless(c)
  BY <1>2 DEF Patient, Nameless
<1>5. CASE phase[c] = "none"
  BY <1>1, <1>2, <1>4, <1>5 DEF Fate
<1>6. CASE phase[c] # "none"
  <2>1. result'[c] \in {"answered", "empty", "reset"} /\ phase'[c] = "closed"
    BY <1>1, <1>2, <1>3, <1>6 DEF Fate
  <2>2. Patient(c) => result'[c] \in {"answered", "reset"}
    BY <1>1, <1>2, <1>3, <1>6 DEF Fate
  <2>3. Patient(c) /\ eof[c] => result'[c] = "answered"
    BY <1>1, <1>2 DEF Fate
  <2>4. Nameless(c) => ~eof[c] /\ result'[c] # "answered"
    BY <1>1, <1>2 DEF Fate
  <2> QED
    BY <1>2, <1>4, <2>1, <2>2, <2>3, <2>4 DEF Fate
<1> QED
  BY <1>5, <1>6

(* The listener and the call while the sessions go their ways. *)
LEMMA ListensOn ==
    ASSUME StreamInv, Listens, UNCHANGED <<job, backlog>>, armed' = armed \/ armed',
           \A c \in Conns : phase'[c] = "backlog" => phase[c] = "backlog",
           \A c \in Conns : phase[c] = "handle" => phase'[c] = "handle"
    PROVE  Listens'
<1>1. job'[Proxy] # Service!Dead => armed'
  BY DEF Listens
<1>2. \A c \in Conns : phase'[c] = "backlog" => \E i \in 1..Len(backlog') : backlog'[i] = c
  BY DEF Listens
<1>3. \/ job'[Proxy] \in {Service!Idle, Service!Dead}
      \/ \E c \in Conns : phase'[c] = "handle" /\ job'[Proxy] \in Serving(c)
  BY DEF Listens
<1> QED
  BY <1>1, <1>2, <1>3 DEF Listens, Serving

LEMMA QueueListens ==
    ASSUME StreamInv, Listens, OnAccept \/ \E c \in Conns : Connect(c)
    PROVE  Listens'
<1>1. /\ phase \in [Conns -> Phases] /\ backlog \in Seq(Conns)
      /\ \A i \in 1..Len(backlog) : phase[backlog[i]] = "backlog"
  BY DEF StreamInv, ProxyInv, SessionsInv, Types, Waiting
<1>2. CASE OnAccept
  <2>1. PICK c : c = Head(backlog)
    OBVIOUS
  <2>2. /\ backlog # <<>> /\ backlog' = Tail(backlog) /\ phase' = [phase EXCEPT ![c] = "detect"]
        /\ armed' = TRUE /\ job' = job
    BY <1>2, <2>1 DEF OnAccept, serviceVars
  <2>3. c \in Conns /\ phase[c] = "backlog" /\ c = backlog[1] /\ Len(backlog) \in Nat /\ Len(backlog) >= 1
    BY <1>1, <2>1, <2>2
  <2>4. Len(Tail(backlog)) = Len(backlog) - 1 /\ \A i \in 1..(Len(backlog) - 1) : Tail(backlog)[i] = backlog[i + 1]
    BY <1>1, <2>2, <2>3
  <2>5. ASSUME NEW d \in Conns, phase'[d] = "backlog" PROVE \E i \in 1..Len(backlog') : backlog'[i] = d
    <3>1. d # c /\ phase[d] = "backlog"
      BY <1>1, <2>2, <2>3, <2>5
    <3>2. PICK j \in 1..Len(backlog) : backlog[j] = d
      BY <3>1 DEF Listens
    <3>3. j # 1 /\ j - 1 \in 1..(Len(backlog) - 1) /\ (j - 1) + 1 = j
      BY <2>3, <3>1, <3>2
    <3> QED
      BY <2>2, <2>4, <3>2, <3>3
  <2>6. ASSUME NEW d \in Conns, phase[d] = "handle" PROVE phase'[d] = "handle"
    BY <1>1, <2>2, <2>3, <2>6
  <2>7. \/ job'[Proxy] \in {Service!Idle, Service!Dead}
        \/ \E d \in Conns : phase'[d] = "handle" /\ job'[Proxy] \in Serving(d)
    BY <2>2, <2>6 DEF Listens
  <2> QED
    BY <2>2, <2>5, <2>7 DEF Listens, Serving
<1>3. ASSUME NEW c \in Conns, Connect(c) PROVE Listens'
  <2>1. /\ phase[c] = "none" /\ phase' = [phase EXCEPT ![c] = "backlog"] /\ backlog' = Append(backlog, c)
        /\ UNCHANGED <<armed, job>>
    BY <1>3 DEF Connect, serviceVars
  <2>2. /\ Len(backlog) \in Nat /\ Len(backlog') = Len(backlog) + 1 /\ backlog'[Len(backlog) + 1] = c
        /\ \A i \in 1..Len(backlog) : backlog'[i] = backlog[i]
    BY <1>1, <2>1, AppendProperties
  <2>3. ASSUME NEW d \in Conns, phase'[d] = "backlog" PROVE \E i \in 1..Len(backlog') : backlog'[i] = d
    <3>1. CASE d = c
      <4>1. Len(backlog) + 1 \in 1..Len(backlog')
        BY <2>2
      <4> QED
        BY <2>2, <3>1, <4>1
    <3>2. CASE d # c
      <4>1. phase[d] = "backlog"
        BY <1>1, <2>1, <2>3, <3>2
      <4>2. PICK j \in 1..Len(backlog) : backlog[j] = d
        BY <4>1 DEF Listens
      <4>3. j \in 1..Len(backlog')
        BY <2>2
      <4> QED
        BY <2>2, <4>2, <4>3
    <3> QED
      BY <3>1, <3>2
  <2>4. \/ job'[Proxy] \in {Service!Idle, Service!Dead}
        \/ \E d \in Conns : phase'[d] = "handle" /\ job'[Proxy] \in Serving(d)
    BY <1>1, <2>1 DEF Listens
  <2> QED
    BY <2>1, <2>3, <2>4 DEF Listens, Serving
<1> QED
  BY <1>2, <1>3

LEMMA CallListens ==
    ASSUME StreamInv, Listens, Fetching \/ Die \/ Restart \/ \E c \in Conns : OnRead(c) \/ SendResponse(c)
    PROVE  Listens'
<1>1. /\ phase \in [Conns -> Phases] /\ job = [g \in {Proxy} |-> job[Proxy]]
  BY DEF StreamInv, ProxyInv, SessionsInv, Types
<1>2. CASE Fetching
  <2>1. PICK c \in Conns : Service!Send(Proxy, c) \/ \E o \in Outcomes : Service!Settle(Proxy, c, o)
    BY <1>2 DEF Fetching
  <2>2. job[Proxy] \in Serving(c) /\ job'[Proxy] \in Serving(c)
    BY <1>1, <2>1 DEF Service!Send, Service!Settle, Service!Become, Serving, Proxy
  <2>3. UNCHANGED <<phase, backlog, armed>>
    BY <1>2 DEF Fetching, listenVars
  <2>4. phase[c] = "handle" /\ armed
    BY <2>2, Jobs DEF Listens
  <2>5. \E d \in Conns : phase'[d] = "handle" /\ job'[Proxy] \in Serving(d)
    BY <2>2, <2>3, <2>4
  <2>6. \A d \in Conns : phase'[d] = "backlog" => \E i \in 1..Len(backlog') : backlog'[i] = d
    BY <2>3 DEF Listens
  <2> QED
    BY <2>3, <2>4, <2>5, <2>6 DEF Listens, Serving
<1>3. CASE Die
  <2>1. job'[Proxy] = Service!Dead /\ \A d \in Conns : phase'[d] \in {"none", "closed"}
    BY <1>1, <1>3 DEF Die, Service!Die, Service!Become, Proxy
  <2> QED
    BY <2>1 DEF Listens
<1>4. CASE Restart
  <2>1. job'[Proxy] = Service!Idle /\ armed' = TRUE /\ UNCHANGED <<phase, backlog>>
    BY <1>1, <1>4 DEF Restart, Service!Recover, Service!Become, Proxy
  <2> QED
    BY <2>1 DEF Listens
<1>5. ASSUME NEW c \in Conns, OnRead(c) PROVE Listens'
  <2>1. /\ phase' = [phase EXCEPT ![c] = "handle"] /\ job[Proxy] = Service!Idle
        /\ job'[Proxy] = Service!Accepted(c) /\ UNCHANGED <<armed, backlog>>
    BY <1>1, <1>5 DEF OnRead, Pending, Ready, Service!Accept, Service!Become, listenVars, Proxy
  <2>2. armed
    BY <2>1 DEF Listens, Service!Idle, Service!Dead
  <2>3. phase'[c] = "handle" /\ job'[Proxy] \in Serving(c)
    BY <1>1, <2>1 DEF Serving
  <2>4. \A d \in Conns : phase'[d] = "backlog" => \E i \in 1..Len(backlog') : backlog'[i] = d
    BY <1>1, <2>1 DEF Listens
  <2> QED
    BY <2>1, <2>2, <2>3, <2>4 DEF Listens, Serving
<1>6. ASSUME NEW c \in Conns, SendResponse(c) PROVE Listens'
  <2>1. PICK o \in Outcomes : Service!Answer(Proxy, c, o)
    BY <1>6 DEF SendResponse
  <2>2. /\ phase' = [phase EXCEPT ![c] = "write"] /\ job[Proxy] = Service!Settled(c, o)
        /\ job'[Proxy] = Service!Idle /\ UNCHANGED <<armed, backlog>>
    BY <1>1, <1>6, <2>1 DEF SendResponse, Service!Answer, Service!Become, listenVars, Proxy
  <2>3. armed
    BY <2>2 DEF Listens, Service!Settled, Service!Dead
  <2>4. \A d \in Conns : phase'[d] = "backlog" => \E i \in 1..Len(backlog') : backlog'[i] = d
    BY <1>1, <2>2 DEF Listens
  <2> QED
    BY <2>2, <2>3, <2>4 DEF Listens
<1> QED
  BY <1>2, <1>3, <1>4, <1>5, <1>6

LEMMA StepAdvances ==
    ASSUME SessionInv, [Next]_vars
    PROVE  UNCHANGED vars \/ Die \/ Restart \/ Stop \/ \E c \in Conns : Advances(c)
<1>1. StreamInv /\ Listens /\ TypeOK'
  BY TypesKept DEF SessionInv
<1>2. CASE OnAccept
  <2>1. Head(backlog) \in Conns
    BY <1>2 DEF SessionInv, StreamInv, TypeOK, OnAccept
  <2> QED
    BY <1>1, <1>2, <2>1, MoveAdvances
<1>3. CASE OnAcceptError \/ Over
  <2>1. CASE OnAcceptError
    <3>1. armed' = armed
      BY <2>1 DEF OnAcceptError, SessionInv, StreamInv, TypeOK
    <3> QED
      BY <2>1, <3>1 DEF OnAcceptError, vars, listenVars
  <2> QED
    BY <1>3, <2>1 DEF Over
<1>4. CASE Fetching
  <2>1. PICK c \in Conns : Service!Send(Proxy, c) \/ \E o \in Outcomes : Service!Settle(Proxy, c, o)
    BY <1>4 DEF Fetching
  <2>2. job[Proxy] \in Serving(c)
    BY <2>1 DEF Service!Send, Service!Settle, Serving
  <2>3. phase[c] = "handle"
    BY <1>1, <2>2, Jobs DEF Listens
  <2> QED
    BY <1>1, <1>4, <2>2, <2>3, CallAdvances
<1>5. ASSUME NEW c \in Conns, Connect(c) \/ Send(c) \/ Leave(c) \/ Handler(c) \/ OnWrite(c)
      PROVE  Advances(c)
  BY <1>1, <1>5, ClientAdvances, MoveAdvances, CallAdvances, UnitsAdvance DEF Handler, OnWrite
<1> QED
  BY <1>2, <1>3, <1>4, <1>5 DEF Next

LEMMA FateStep ==
    ASSUME SessionInv, [Next]_vars, NEW c \in Conns
    PROVE  Fate(c)'
<1>1. StreamInv /\ Fate(c) /\ TypeOK'
  BY TypesKept DEF SessionInv
<1>2. ASSUME UNCHANGED Session(c) PROVE Fate(c)'
  <2>1. UNCHANGED <<phase[c], script[c], eof[c], result[c]>>
    BY <1>2 DEF Session
  <2> QED
    BY <1>1, <2>1, FateKept
<1>3. CASE OnAccept
  <2>1. Head(backlog) \in Conns
    BY <1>1, <1>3 DEF StreamInv, TypeOK, OnAccept
  <2>2. CASE c = Head(backlog)
    BY <1>3, <2>2, OwnFate
  <2>3. CASE c # Head(backlog)
    <3>1. Advances(Head(backlog))
      BY <1>1, <1>3, <2>1, MoveAdvances
    <3> QED
      BY <1>2, <2>1, <2>3, <3>1 DEF Advances
  <2> QED
    BY <2>2, <2>3
<1>4. CASE OnAcceptError \/ Fetching \/ Restart \/ Stop \/ Over \/ UNCHANGED vars
  <2>1. UNCHANGED <<phase[c], script[c], eof[c], result[c]>>
    BY <1>4 DEF OnAcceptError, Fetching, Restart, Stop, Over, vars, clientVars
  <2> QED
    BY <1>1, <2>1, FateKept
<1>5. ASSUME NEW d \in Conns, Connect(d) \/ Send(d) \/ Leave(d) \/ Handler(d) \/ OnWrite(d)
      PROVE  Fate(c)'
  <2>1. CASE d = c
    BY <1>5, <2>1, OwnFate
  <2>2. CASE d # c
    <3>1. Advances(d)
      BY <1>1, <1>5, ClientAdvances, MoveAdvances, CallAdvances, UnitsAdvance DEF Handler, OnWrite
    <3> QED
      BY <1>2, <2>2, <3>1 DEF Advances
  <2> QED
    BY <2>1, <2>2
<1> QED
  BY <1>3, <1>4, <1>5, DieFate DEF Next

LEMMA ListensStep ==
    ASSUME SessionInv, [Next]_vars
    PROVE  Listens'
<1>1. StreamInv /\ Listens /\ phase \in [Conns -> Phases]
  BY DEF SessionInv, StreamInv, ProxyInv, SessionsInv, Types
<1>2. CASE OnAcceptError \/ Stop \/ Over \/ UNCHANGED vars
  <2>1. UNCHANGED <<job, backlog, phase>> /\ (armed' = armed \/ armed')
    BY <1>2 DEF OnAcceptError, Stop, Service!Stop, Over, vars, serviceVars, listenVars
  <2> QED
    BY <1>1, <2>1, ListensOn
<1>3. ASSUME NEW c \in Conns,
             \/ Send(c) \/ Leave(c) \/ Receive(c) \/ Decrypt(c) \/ OnDetectSsl(c) \/ OnDetectPlain(c)
             \/ OnHandshake(c) \/ OnReadEnd(c) \/ OnError(c) \/ OnShutdown(c) \/ OnWrite(c)
      PROVE  Listens'
  <2>1. /\ UNCHANGED <<job, backlog, armed>>
        /\ \/ phase' = phase
           \/ /\ phase[c] \in {"detect", "handshake", "read", "write", "shutdown"}
              /\ \E there \in {"handshake", "read", "shutdown", "closed"} : phase' = [phase EXCEPT ![c] = there]
    BY <1>3 DEF Send, Leave, Receive, Decrypt, OnDetectSsl, OnDetectPlain, OnHandshake, OnReadEnd, OnError,
       OnShutdown, OnWrite, OnWritePlain, OnWriteSsl, Close, CloseAs, Pending, Broken, serviceVars, listenVars
  <2>2. \A d \in Conns : phase'[d] = "backlog" => phase[d] = "backlog"
    BY <1>1, <2>1
  <2>3. \A d \in Conns : phase[d] = "handle" => phase'[d] = "handle"
    BY <1>1, <2>1
  <2> QED
    BY <1>1, <2>1, <2>2, <2>3, ListensOn
<1> QED
  BY <1>1, <1>2, <1>3, QueueListens, CallListens DEF Next, Handler

LEMMA SessionInitInv == Init => SessionInv
<1> SUFFICES ASSUME Init PROVE SessionInv
  OBVIOUS
<1>1. Listens
  BY DEF Init, Service!Init, Listens, Proxy
<1>2. ASSUME NEW c \in Conns PROVE Fate(c)
  BY DEF Init, Fate
<1> QED
  BY <1>1, <1>2, StreamInit DEF SessionInv

LEMMA SessionNextInv == SessionInv /\ [Next]_vars => SessionInv'
<1> SUFFICES ASSUME SessionInv, [Next]_vars PROVE SessionInv'
  OBVIOUS
<1>1. StreamInv'
  BY StreamStep DEF SessionInv
<1>2. Listens'
  BY ListensStep
<1>3. \A c \in Conns : Fate(c)'
  BY FateStep
<1> QED
  BY <1>1, <1>2, <1>3 DEF SessionInv

LEMMA SessionInvariance == Spec => []SessionInv
  BY SessionInitInv, SessionNextInv, PTL DEF Spec

(* Every step of the proxy or of a client uses up something of one         *)
(* connection - a step of its session or of its call, a unit to take or to *)
(* send - and leaves every other as it was; the death of the process ends  *)
(* those that live, and only death, restart and stop serve none.  However  *)
(* often the process is restarted, no connection is served without end.    *)
THEOREM SessionsDescend ==
    Spec => [][\/ \E c \in Conns : Advances(c)
               \/ Die /\ \A c \in Conns : Descends(c) \/ UNCHANGED Session(c)
               \/ (Restart \/ Stop) /\ \A c \in Conns : UNCHANGED Session(c)]_vars
<1>1. ASSUME SessionInv, Die, TypeOK', NEW c \in Conns
      PROVE  Descends(c) \/ UNCHANGED Session(c)
  <2>1. /\ phase'[c] = (IF phase[c] = "none" THEN "none" ELSE "closed")
        /\ result'[c] = (IF result[c] = "waiting" THEN "reset" ELSE result[c])
        /\ UNCHANGED <<script, sent, eof, streamVars, response>>
    BY <1>1 DEF Die, clientVars
  <2>2. StreamInv /\ Fate(c) /\ phase[c] \in Phases
    BY <1>1 DEF SessionInv, StreamInv, ProxyInv, SessionsInv, Types
  <2>3. CASE phase[c] \in {"none", "closed"}
    <3>1. phase'[c] = phase[c] /\ result'[c] = result[c]
      BY <2>1, <2>2, <2>3 DEF Fate
    <3>2. StepsLeft(c)' = StepsLeft(c)
      BY <2>3, <3>1 DEF StepsLeft
    <3> QED
      BY <2>1, <3>1, <3>2 DEF Session, streamVars
  <2>4. CASE phase[c] \notin {"none", "closed"}
    <3>1. phase'[c] = "closed"
      BY <2>1, <2>4
    <3>2. StepsLeft(c)' < StepsLeft(c)
      BY <2>2, <2>4, <3>1 DEF StepsLeft, Phases
    <3> QED
      BY <1>1, <2>1, <2>2, <3>1, <3>2, PhaseDescends
  <2> QED
    BY <2>3, <2>4
<1>2. ASSUME SessionInv, Restart \/ Stop, NEW c \in Conns PROVE UNCHANGED Session(c)
  <2>1. UNCHANGED <<phase, script, sent, eof, result, streamVars, response>>
    BY <1>2 DEF Restart, Stop, clientVars
  <2>2. job' = job \/ job[Proxy] = Service!Dead
    BY <1>2 DEF Restart, Stop, Service!Stop, Service!Recover
  <2>3. phase[c] = "handle" => job' = job
    BY <1>2, <2>2, Jobs DEF SessionInv, StreamInv, ProxyInv, SessionsInv, Calling
  <2>4. StepsLeft(c)' = StepsLeft(c)
    BY <2>1, <2>3 DEF StepsLeft
  <2> QED
    BY <2>1, <2>4 DEF Session, streamVars
<1>3. SessionInv /\ [Next]_vars =>
         [\/ \E c \in Conns : Advances(c)
          \/ Die /\ \A c \in Conns : Descends(c) \/ UNCHANGED Session(c)
          \/ (Restart \/ Stop) /\ \A c \in Conns : UNCHANGED Session(c)]_vars
  <2> SUFFICES ASSUME SessionInv, [Next]_vars
               PROVE  \/ UNCHANGED vars
                      \/ \E c \in Conns : Advances(c)
                      \/ Die /\ \A c \in Conns : Descends(c) \/ UNCHANGED Session(c)
                      \/ (Restart \/ Stop) /\ \A c \in Conns : UNCHANGED Session(c)
    OBVIOUS
  <2>1. TypeOK'
    BY TypesKept DEF SessionInv
  <2> QED
    BY <1>1, <1>2, <2>1, StepAdvances
<1> QED
  BY <1>3, SessionInvariance, PTL DEF Spec

(* A client that sends one request, over TLS to a host that gets a         *)
(* certificate from sni_callback, and stays gets nothing but its answer:   *)
(* no failed operation, no early close and no reset comes before it or     *)
(* takes it back, in plain and TLS sessions alike, whatever other clients  *)
(* send, hold back or break off; only the death of the process does.       *)
THEOREM PatientClientsKept ==
    Spec => [][\A c \in Conns : Patient(c) /\ result'[c] # result[c] =>
                  \/ result[c] = "none" /\ result'[c] = "waiting"
                  \/ result[c] = "waiting" /\ result'[c] = "answered"
                  \/ result[c] = "waiting" /\ result'[c] = "reset" /\ job'[Proxy] = Service!Dead]_vars
<1>1. ASSUME SessionInv, [Next]_vars, NEW c \in Conns, Patient(c), result'[c] # result[c]
      PROVE  \/ result[c] = "none" /\ result'[c] = "waiting"
             \/ result[c] = "waiting" /\ result'[c] = "answered"
             \/ result[c] = "waiting" /\ result'[c] = "reset" /\ job'[Proxy] = Service!Dead
  <2> USE <1>1
  <2>1. /\ StreamInv /\ Fate(c) /\ TypeOK' /\ job = [g \in {Proxy} |-> job[Proxy]]
        /\ result \in [Conns -> {"none", "waiting", "answered", "empty", "reset"}]
    BY TypesKept DEF SessionInv, StreamInv, ProxyInv, SessionsInv, Types, TypeOK
  <2>2. CASE OnAccept \/ OnAcceptError \/ Fetching \/ Restart \/ Stop \/ Over \/ UNCHANGED vars
    BY <2>2 DEF OnAccept, OnAcceptError, Fetching, Restart, Stop, Over, vars
  <2>3. CASE Die
    <3>1. job'[Proxy] = Service!Dead
      BY <2>1, <2>3 DEF Die, Service!Die, Service!Become, Proxy
    <3> QED
      BY <2>3, <3>1 DEF Die
  <2>4. ASSUME NEW d \in Conns, Connect(d) \/ Send(d) \/ Leave(d) \/ Handler(d) \/ OnWrite(d)
        PROVE  \/ result[c] = "none" /\ result'[c] = "waiting"
               \/ result[c] = "waiting" /\ result'[c] = "answered"
    <3>1. Advances(d)
      BY <2>1, <2>4, ClientAdvances, MoveAdvances, CallAdvances, UnitsAdvance DEF Handler, OnWrite
    <3>2. d = c
      BY <3>1 DEF Advances, Session
    <3>3. CASE Connect(c)
      <4>1. phase[c] = "none" /\ result'[c] = "waiting"
        BY <2>1, <3>3 DEF Connect
      <4> QED
        BY <2>1, <4>1 DEF Fate
    <3>4. CASE OnWriteSsl(c)
      <4>1. phase[c] = "write" /\ result'[c] = Got(c)
        BY <2>1, <3>4 DEF OnWriteSsl, Pending
      <4>2. result[c] = "waiting" /\ ~eof[c]
        BY <2>1, <4>1, NotBroken DEF Fate
      <4> QED
        BY <4>1, <4>2 DEF Got
    <3>5. CASE OnWritePlain(c) \/ OnError(c) \/ OnShutdown(c)
      BY <2>1, <3>5, PatientEnds
    <3>6. CASE \/ Send(c) \/ Leave(c) \/ Receive(c) \/ OnDetectSsl(c) \/ OnDetectPlain(c) \/ OnHandshake(c)
               \/ Decrypt(c) \/ OnRead(c) \/ SendResponse(c) \/ OnReadEnd(c)
      BY <3>6 DEF Send, Leave, Receive, OnDetectSsl, OnDetectPlain, OnHandshake, Decrypt, OnRead,
         SendResponse, OnReadEnd
    <3> QED
      BY <2>4, <3>2, <3>3, <3>4, <3>5, <3>6 DEF Handler, OnWrite
  <2> QED
    BY <2>2, <2>3, <2>4 DEF Next
<1>2. SessionInv /\ [Next]_vars =>
         [\A c \in Conns : Patient(c) /\ result'[c] # result[c] =>
             \/ result[c] = "none" /\ result'[c] = "waiting"
             \/ result[c] = "waiting" /\ result'[c] = "answered"
             \/ result[c] = "waiting" /\ result'[c] = "reset" /\ job'[Proxy] = Service!Dead]_vars
  BY <1>1
<1> QED
  BY <1>2, SessionInvariance, PTL DEF Spec

(* What the io_context still has to run, the browser to settle and careful *)
(* clients to send, to read or to leave: what FairSpec is fair to.         *)
CanFetch == up /\ \E c \in Conns : job[Proxy] \in {Service!Accepted(c), Service!Sent(c)}
CanAccept == Ready /\ armed /\ backlog # <<>> /\ Cardinality(Open) < MaxOpen
CanHandle(c) ==
    \/ Ready /\ WantsMore(c) /\ Unread(c)
    \/ Pending(c, "detect") /\ (IsHello(buffer[c]) \/ NotHello(buffer[c]))
    \/ Pending(c, "handshake") /\ Starts(Handshake, engine[c])
    \/ Pending(c, "read") /\ (engine[c] # <<>> \/ Starts(Whole, buffer[c]))
    \/ Pending(c, "read") /\ tls[c] /\ EndOfStream(c) /\ engine[c] = <<>> /\ buffer[c] = <<>>
    \/ Pending(c, "shutdown") /\ (EndOfStream(c) \/ engine[c] # <<>>)
    \/ Ready /\ Broken(c)
    \/ up /\ phase[c] = "handle" /\ \E o \in Outcomes : job[Proxy] = Service!Settled(c, o)
CanSend(c) ==
    /\ up /\ phase[c] \notin {"none", "closed"} /\ ~eof[c] /\ sent[c] < Len(script[c])
    /\ script[c][sent[c] + 1] = "finished" => phase[c] = "handshake" /\ Starts(Hello, engine[c])
CanRead(c) == Pending(c, "write")
CanLeave(c) == up /\ phase[c] \notin {"none", "closed"} /\ ~eof[c] /\ (c \in Careless \/ result[c] = "answered")

Quiet ==
    /\ Alive /\ ~CanFetch /\ ~CanAccept
    /\ \A c \in Conns : ~CanHandle(c)
    /\ \A c \in Conns \ Careless : ~CanSend(c) /\ ~CanRead(c) /\ ~CanLeave(c)

(* When nothing is left to do, every patient client that connected has its *)
(* answer, or lost its connection in a death of the process, or waits      *)
(* behind clients of another kind that hold every descriptor; and no       *)
(* session is left of a client whose hello got no certificate.             *)
Starved(c) ==
    /\ phase[c] = "backlog" /\ ~(Cardinality(Open) < MaxOpen)
    /\ \A d \in Open : ~Patient(d) /\ ~Nameless(d)

ServedWhenQuiet ==
    Quiet => \A c \in Conns :
       /\ Patient(c) => \/ result[c] \in {"none", "answered"}
                        \/ result[c] = "reset" /\ phase[c] = "closed"
                        \/ Starved(c)
       /\ Nameless(c) => \/ result[c] = "none"
                         \/ result[c] \in {"empty", "reset"} /\ phase[c] = "closed"
                         \/ Starved(c)

(* In a session that waits for more, the script of a patient client has    *)
(* more, so that it can still move on.                                     *)
LEMMA CanMoveOn ==
    ASSUME SessionInv, NEW c \in Conns, Patient(c), phase[c] \in {"detect", "handshake", "read"},
           Ready, ~CanSend(c)
    PROVE  CanHandle(c)
<1>1. /\ StreamInv /\ Fate(c) /\ ~eof[c] /\ up
  BY NotBroken DEF SessionInv, Ready
<1>2. /\ script[c] \in Seq(Units) /\ buffer[c] \in Seq(Units) /\ engine[c] \in Seq(Units)
      /\ Len(buffer[c]) \in Nat /\ Len(engine[c]) \in Nat
      /\ sent[c] \in Nat /\ rcvd[c] \in Nat /\ rcvd[c] <= sent[c] /\ sent[c] <= Len(script[c])
  BY <1>1, StreamTypes
<1>3. \/ sent[c] = Len(script[c])
      \/ sent[c] < Len(script[c]) /\ script[c][sent[c] + 1] = "finished" /\ phase[c] # "handshake"
      \/ sent[c] < Len(script[c]) /\ script[c][sent[c] + 1] = "finished" /\ ~Starts(Hello, engine[c])
  BY <1>1, <1>2 DEF CanSend
<1>4. /\ script[c] = Request => sent[c] = 2
      /\ script[c] = Tls => sent[c] = 5 \/ (sent[c] = 2 /\ (phase[c] # "handshake" \/ ~Starts(Hello, engine[c])))
  <2>1. CASE script[c] = Request
    <3>1. sent[c] \in {0, 1} => Request[sent[c] + 1] # "finished"
      BY Literals
    <3> QED
      BY <1>2, <1>3, <2>1, <3>1, Literals, ScriptUnits
  <2>2. CASE script[c] = Tls
    <3>1. sent[c] \in {0, 1, 3, 4} => Tls[sent[c] + 1] # "finished"
      BY ScriptUnits
    <3>2. Len(script[c]) = 5 /\ sent[c] \in {0, 1, 2, 3, 4, 5}
      BY <1>2, <2>2, ScriptUnits
    <3>3. Request # Tls
      BY Literals, ScriptUnits
    <3> QED
      BY <1>3, <2>2, <3>1, <3>2, <3>3
  <2> QED
    BY <2>1, <2>2
<1>5. WantsMore(c) /\ ~CanHandle(c) => rcvd[c] = sent[c]
  BY <1>2 DEF CanHandle, Unread
<1>6. CASE phase[c] = "detect"
  <2>1. CASE WantsMore(c)
    <3>1. Len(buffer[c]) <= 1
      <4>1. Len(<<>>) = 0 /\ Len(<<"hel">>) = 1
        OBVIOUS
      <4>2. CASE buffer[c] = <<>>
        BY <4>1, <4>2
      <4>3. CASE buffer[c] = <<"hel">>
        BY <4>1, <4>3
      <4> QED
        BY <1>6, <2>1, <4>2, <4>3 DEF WantsMore
    <3>2. rcvd[c] = Len(buffer[c])
      <4>1. PICK held : held = buffer[c] \o engine[c]
        OBVIOUS
      <4>2. rcvd[c] = Len(consumed[c]) + Len(held)
        BY <1>1, <1>6, <4>1, TakenParts
      <4>3. consumed[c] = <<>> /\ engine[c] = <<>>
        BY <1>1, <1>6 DEF StreamInv, Stream, Used, ProxyInv, SessionsInv, Streaming
      <4>4. Len(held) = Len(buffer[c])
        BY <1>2, <4>1, <4>3, ConcatProperties, EmptySeq
      <4> QED
        BY <1>2, <4>2, <4>3, <4>4, EmptySeq
    <3>3. sent[c] >= 2
      BY <1>2, <1>4 DEF Patient
    <3>4. rcvd[c] # sent[c]
      <4>1. PICK r \in Nat, m \in Nat : r = rcvd[c] /\ m = sent[c] /\ r <= 1 /\ m >= 2
        BY <1>2, <3>1, <3>2, <3>3
      <4> QED
        BY <4>1
    <3> QED
      BY <1>5, <2>1, <3>4
  <2>2. CASE ~WantsMore(c)
    BY <1>6, <2>2 DEF WantsMore, NotHello, CanHandle, Pending
  <2> QED
    BY <2>1, <2>2
<1>7. CASE phase[c] = "handshake"
  <2>1. /\ script[c] = Tls /\ Len(engine[c]) = rcvd[c] /\ IsHello(engine[c])
        /\ \A i \in 1..Len(engine[c]) : engine[c][i] = Tls[i]
    BY <1>1, <1>7, AtHandshake DEF StreamInv, Stream, Detected
  <2>5. Starts(Hello, engine[c])
    <3>1. Len(engine[c]) >= 2
      BY <1>2, <2>1, HelloUnits
    <3>2. engine[c][1] = "hel" /\ engine[c][2] = "lo"
      BY <1>2, <2>1, <3>1, ScriptUnits
    <3> QED
      BY <1>2, <3>1, <3>2, HelloUnits
  <2>2. sent[c] = 5
    BY <1>4, <1>7, <2>1, <2>5
  <2>3. CASE Starts(Handshake, engine[c])
    BY <1>7, <2>3 DEF CanHandle, Pending
  <2>4. CASE ~Starts(Handshake, engine[c])
    <3>1. WantsMore(c)
      BY <1>7, <2>4 DEF WantsMore
    <3>2. rcvd[c] = 5 => Starts(Handshake, engine[c])
      <4> SUFFICES ASSUME rcvd[c] = 5 PROVE Starts(Handshake, engine[c])
        OBVIOUS
      <4>1. Len(Handshake) <= Len(engine[c]) /\ \A i \in 1..Len(Handshake) : engine[c][i] = Handshake[i]
        BY <2>1, Literals, ScriptUnits
      <4> QED
        BY <1>2, <4>1, Literals, StartsUnits
    <3> QED
      BY <1>5, <2>2, <2>4, <3>1, <3>2
  <2> QED
    BY <2>3, <2>4
<1>8. CASE phase[c] = "read"
  <2>1. CASE engine[c] # <<>>
    BY <1>8, <2>1 DEF CanHandle, Pending
  <2>2. CASE engine[c] = <<>>
    <3>1. /\ script[c] = (IF tls[c] THEN Tls ELSE Request)
          /\ \A i \in 1..Len(buffer[c]) : i <= 2 => buffer[c][i] = Request[i]
          /\ rcvd[c] = (IF tls[c] THEN 3 ELSE 0) + Len(buffer[c])
      BY <1>1, <1>8, <2>2, AtRead
    <3>2. sent[c] = (IF tls[c] THEN 5 ELSE 2)
      <4>1. tls[c] => sent[c] >= 3
        BY <1>2, <3>1
      <4> QED
        BY <1>2, <1>4, <3>1, <4>1
    <3>3. CASE Len(buffer[c]) < 2
      <4>1. WantsMore(c)
        BY <1>8, <2>2, <3>3 DEF WantsMore
      <4>2. rcvd[c] # sent[c]
        <5>1. PICK b \in Nat : b = Len(buffer[c]) /\ b < 2
          BY <1>2, <3>3
        <5>2. rcvd[c] = (IF tls[c] THEN 3 ELSE 0) + b
          BY <3>1, <5>1
        <5>3. CASE tls[c]
          <6>1. rcvd[c] = 3 + b /\ sent[c] = 5
            BY <3>2, <5>2, <5>3
          <6>2. 3 + b # 5
            BY <5>1
          <6> QED
            BY <6>1, <6>2
        <5>4. CASE ~tls[c]
          <6>1. rcvd[c] = b /\ sent[c] = 2
            BY <3>2, <5>2, <5>4
          <6>2. \A n \in Nat : n < 2 => n # 2
            OBVIOUS
          <6> QED
            BY <5>1, <6>1, <6>2
        <5> QED
          BY <5>3, <5>4
      <4> QED
        BY <1>5, <4>1, <4>2
    <3>4. CASE ~(Len(buffer[c]) < 2)
      <4>1. Len(Request) <= Len(buffer[c]) /\ \A i \in 1..Len(Request) : buffer[c][i] = Request[i]
        <5>1. PICK b \in Nat : b = Len(buffer[c]) /\ ~(b < 2)
          BY <1>2, <3>4
        <5>2. \A i \in 1..2 : i \in 1..b /\ i <= 2
          BY <5>1
        <5>3. ASSUME NEW i \in 1..2 PROVE buffer[c][i] = Request[i]
          <6>1. i \in 1..Len(buffer[c]) /\ i <= 2
            BY <5>1, <5>2
          <6> QED
            BY <3>1, <6>1
        <5>4. 2 <= Len(buffer[c]) /\ Len(Request) = 2
          BY <5>1, Literals
        <5> QED
          BY <5>3, <5>4
      <4>2. Starts(Whole, buffer[c])
        BY <1>2, <4>1, Literals, StartsUnits DEF Whole
      <4> QED
        BY <1>8, <4>2 DEF CanHandle, Pending
    <3> QED
      BY <3>3, <3>4
  <2> QED
    BY <2>1, <2>2
<1> QED
  BY <1>6, <1>7, <1>8

(* A session whose hello got no certificate can go on to its end. *)
LEMMA CanFail ==
    ASSUME SessionInv, NEW c \in Conns, Nameless(c), phase[c] \in {"detect", "handshake"},
           Ready, ~CanSend(c)
    PROVE  CanHandle(c)
<1>1. /\ StreamInv /\ Fate(c) /\ ~eof[c] /\ up
  BY DEF SessionInv, Fate, Ready
<1>2. /\ script[c] \in Seq(Units) /\ buffer[c] \in Seq(Units) /\ engine[c] \in Seq(Units)
      /\ Len(buffer[c]) \in Nat /\ Len(engine[c]) \in Nat /\ Len(script[c]) \in Nat
      /\ sent[c] \in Nat /\ rcvd[c] \in Nat /\ rcvd[c] <= sent[c] /\ sent[c] <= Len(script[c])
  BY <1>1, StreamTypes
<1>3. Len(script[c]) >= 2 /\ script[c][1] = "hel" /\ script[c][2] = "bare"
  BY <1>2, HelloUnits DEF Nameless
<1>4. sent[c] >= 2
  <2>1. PICK s \in Nat, l \in Nat : s = sent[c] /\ l = Len(script[c]) /\ l >= 2
    BY <1>2, <1>3
  <2>2. s = 0 \/ s = 1 => s < l /\ script[c][s + 1] # "finished"
    BY <1>3, <2>1
  <2>3. ~(s = 0 \/ s = 1)
    BY <1>1, <2>1, <2>2 DEF CanSend
  <2> QED
    BY <2>1, <2>3
<1>5. consumed[c] = <<>> /\ phase[c] # "closed"
  BY <1>1 DEF StreamInv, Stream, Used
<1>6. CASE phase[c] = "handshake"
  <2>1. IsHello(engine[c])
    BY <1>1, <1>6 DEF StreamInv, Stream, Detected
  <2>2. Len(engine[c]) >= 2
    BY <1>2, <2>1, HelloUnits
  <2>3. 2 \in 1..Len(engine[c]) /\ 0 + 2 = 2
    BY <1>2, <2>2
  <2>4. script[c][2] = engine[c][2]
    BY <1>1, <1>6, <2>3, InEngine
  <2>5. Handshake[2] = "lo" /\ 2 <= 3
    BY Literals
  <2>6. Broken(c)
    BY <1>3, <1>6, <2>3, <2>4, <2>5 DEF Broken
  <2> QED
    BY <2>6 DEF CanHandle
<1>7. CASE phase[c] = "detect"
  <2>1. CASE WantsMore(c)
    <3>1. Len(buffer[c]) <= 1
      <4>1. Len(<<>>) = 0 /\ Len(<<"hel">>) = 1
        OBVIOUS
      <4>2. CASE buffer[c] = <<>>
        BY <4>1, <4>2
      <4>3. CASE buffer[c] = <<"hel">>
        BY <4>1, <4>3
      <4> QED
        BY <1>7, <2>1, <4>2, <4>3 DEF WantsMore
    <3>2. engine[c] = <<>>
      BY <1>1, <1>7 DEF StreamInv, Stream, Used, ProxyInv, SessionsInv, Streaming
    <3>3. rcvd[c] = Len(buffer[c])
      <4>1. PICK held : held = buffer[c] \o engine[c]
        OBVIOUS
      <4>2. rcvd[c] = Len(consumed[c]) + Len(held)
        BY <1>1, <1>7, <4>1, TakenParts
      <4>3. Len(held) = Len(buffer[c])
        BY <1>2, <3>2, <4>1, ConcatProperties, EmptySeq
      <4> QED
        BY <1>2, <1>5, <4>2, <4>3, EmptySeq
    <3>4. rcvd[c] <= 1
      BY <1>2, <3>1, <3>3
    <3>5. Unread(c)
      BY <1>2, <1>4, <3>4 DEF Unread
    <3> QED
      BY <2>1, <3>5 DEF CanHandle
  <2>2. CASE ~WantsMore(c)
    BY <1>7, <2>2 DEF WantsMore, NotHello, CanHandle, Pending
  <2> QED
    BY <2>1, <2>2
<1> QED
  BY <1>6, <1>7

(* Whenever the proxy comes to rest, no patient client is left in the      *)
(* middle of its session, and none whose handshake cannot succeed, for any *)
(* number of connections, of descriptors and any scripts of the others.    *)
THEOREM PatientClientsServedWhenQuiet == Spec => []ServedWhenQuiet
<1>1. ASSUME SessionInv, Quiet PROVE Ready
  <2>1. \A c \in Conns : phase[c] = "handle" => job[Proxy] \notin Serving(c)
    BY <1>1 DEF Quiet, CanFetch, CanHandle, Alive, Serving
  <2> QED
    BY <1>1, <2>1 DEF SessionInv, Listens, Quiet, Alive, Ready
<1>2. ASSUME SessionInv, Quiet, NEW c \in Conns, Patient(c)
      PROVE  phase[c] \in {"none", "backlog", "closed"}
  <2>1. phase[c] \in Phases /\ c \notin Careless /\ ~CanSend(c) /\ ~CanRead(c) /\ ~CanHandle(c)
    BY <1>2 DEF SessionInv, StreamInv, ProxyInv, SessionsInv, Types, Quiet, Patient
  <2>2. phase[c] \notin {"detect", "handshake", "read"}
    BY <1>1, <1>2, <2>1, CanMoveOn
  <2>3. phase[c] # "write"
    BY <1>1, <1>2, <2>1 DEF CanRead, Pending
  <2>4. phase[c] # "handle"
    <3>1. phase[c] = "handle" => job[Proxy] \in Serving(c)
      BY <1>2 DEF SessionInv, StreamInv, ProxyInv, SessionsInv, Calling
    <3> QED
      BY <1>1, <1>2, <3>1, Jobs DEF Ready
  <2>5. phase[c] # "shutdown"
    <3> SUFFICES ASSUME phase[c] = "shutdown" PROVE FALSE
      OBVIOUS
    <3>1. result[c] = "answered"
      BY <1>2 DEF SessionInv, Fate
    <3>2. eof[c]
      BY <1>2, <2>1, <3>1 DEF CanLeave, Quiet, Alive
    <3>3. EndOfStream(c)
      BY <1>1, <1>2, <2>1, <3>2 DEF CanHandle, WantsMore, EndOfStream
    <3> QED
      BY <1>1, <1>2, <2>1, <3>3 DEF CanHandle, Pending
  <2> QED
    BY <2>1, <2>2, <2>3, <2>4, <2>5 DEF Phases
<1>3. ASSUME SessionInv, Quiet, NEW c \in Conns, Nameless(c)
      PROVE  phase[c] \in {"none", "backlog", "closed"}
  <2>1. StreamInv /\ ~CanSend(c) /\ ~CanHandle(c)
    BY <1>3 DEF SessionInv, Quiet, Nameless
  <2>2. phase[c] \notin {"detect", "handshake"}
    BY <1>1, <1>3, <2>1, CanFail
  <2> QED
    BY <1>3, <2>1, <2>2, NamelessPhase DEF Nameless
<1>4. ASSUME SessionInv, Quiet, NEW c \in Conns, phase[c] = "backlog" PROVE Starved(c)
  <2>1. backlog # <<>> /\ armed
    <3>1. PICK i \in 1..Len(backlog) : backlog[i] = c
      BY <1>4 DEF SessionInv, Listens
    <3> QED
      BY <1>4, <3>1 DEF SessionInv, Listens, Quiet, Alive
  <2>2. ~(Cardinality(Open) < MaxOpen)
    BY <1>1, <1>4, <2>1 DEF Quiet, CanAccept
  <2>3. ASSUME NEW d \in Open PROVE ~Patient(d) /\ ~Nameless(d)
    BY <1>2, <1>3, <1>4, <2>3 DEF Open
  <2> QED
    BY <1>4, <2>2, <2>3 DEF Starved
<1>5. SessionInv => ServedWhenQuiet
  <2> SUFFICES ASSUME SessionInv, Quiet, NEW c \in Conns
               PROVE  /\ Patient(c) => \/ result[c] \in {"none", "answered"}
                                       \/ result[c] = "reset" /\ phase[c] = "closed"
                                       \/ Starved(c)
                      /\ Nameless(c) => \/ result[c] = "none"
                                        \/ result[c] \in {"empty", "reset"} /\ phase[c] = "closed"
                                        \/ Starved(c)
    BY DEF ServedWhenQuiet
  <2>1. Fate(c)
    BY DEF SessionInv
  <2>2. Patient(c) \/ Nameless(c) => phase[c] \in {"none", "closed"} \/ Starved(c)
    BY <1>2, <1>3, <1>4
  <2>3. CASE Starved(c)
    BY <2>3
  <2>4. CASE phase[c] \in {"none", "closed"}
    BY <2>1, <2>4 DEF Fate
  <2> QED
    BY <2>2, <2>3, <2>4
<1> QED
  BY <1>5, SessionInvariance, PTL
=============================================================================
