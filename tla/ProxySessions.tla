--------------------------- MODULE ProxySessions ---------------------------
(***************************************************************************)
(* The connections of https-proxy.cpp: listener, detect_session and the    *)
(* two kinds of session, with the clients of the virtual machine that      *)
(* open, feed and leave them.  Everything runs on the one thread of the    *)
(* io_context: a step of the proxy is one completion handler, and no other *)
(* handler runs while handle_request is inside one (FetchService).  A      *)
(* session is owned by the handler of its pending operation: when a        *)
(* handler starts no other, the session is freed and its socket closed.    *)
(*                                                                         *)
(* Bytes are units: the parts of a TLS handshake, of a request, and what   *)
(* may come in their place or after them.                                  *)
(***************************************************************************)
EXTENDS Naturals, Sequences, FiniteSets

CONSTANTS
    Conns,      \* connections, one request each; also the names of the requests
    Scripts,    \* what a client sends, unit by unit
    Careless,   \* the connections whose client may stop, stall or leave at any point
    MaxOpen,    \* descriptors the process may have open for connections
    Outcomes,   \* of a fetch, as in FetchService
    Statuses    \* as in FetchService

Units == {"hel", "lo", "bare", "finished", "head", "body", "more", "junk"}

(* A ClientHello ends in "lo" when sni_callback has a certificate for the  *)
(* host it names, and in "bare" when it names none or issue_for_host gives *)
(* none: the callback says OK to both, and the context has none of its own.*)
Hello == <<"hel", "lo">>
Bare == <<"hel", "bare">>
Handshake == Hello \o <<"finished">>

(* A request that the HTTP parser accepts; anything else is junk to it. *)
Request == <<"head", "body">>

ASSUME ScriptsAssumption == Scripts \subseteq Seq(Units)
ASSUME CarelessAssumption == Careless \subseteq Conns
ASSUME MaxOpenAssumption == MaxOpen \in Nat \ {0}

VARIABLES
    up, job, reply,   \* of FetchService: the machine, and the call of handle_request
    armed,            \* the listener has an async_accept pending
    backlog,          \* connections the kernel has not handed over yet
    phase,            \* the pending operation of a session
    script, sent, eof, result,  \* the client: what it sends, has sent, has left, has got
    rcvd,             \* units the proxy has taken from the socket
    buffer,           \* buffer_
    engine,           \* units inside ssl::stream, not decrypted
    tls,
    consumed,         \* units used by the handshake or by the request parser
    response          \* the message being written

Proxy == "proxy"
Service == INSTANCE FetchService WITH Guests <- {Proxy}, Reqs <- Conns

serviceVars == <<up, job, reply>>
clientVars == <<script, sent, eof>>
streamVars == <<rcvd, buffer, engine, tls, consumed>>
listenVars == <<armed, backlog>>
vars == <<serviceVars, listenVars, phase, clientVars, result, streamVars, response>>

Open == {c \in Conns : phase[c] \notin {"none", "backlog", "closed"}}

(* The proxy takes no more from a socket than its client has sent.         *)
TypeOK ==
    /\ up \in BOOLEAN /\ armed \in BOOLEAN
    /\ backlog \in Seq(Conns)
    /\ phase \in [Conns -> {"none", "backlog", "detect", "handshake", "read", "handle",
                            "write", "shutdown", "closed"}]
    /\ script \in [Conns -> Scripts]
    /\ sent \in [Conns -> Nat] /\ rcvd \in [Conns -> Nat]
    /\ \A c \in Conns : rcvd[c] <= sent[c] /\ sent[c] <= Len(script[c])
    /\ eof \in [Conns -> BOOLEAN] /\ tls \in [Conns -> BOOLEAN]
    /\ result \in [Conns -> {"none", "waiting", "answered", "empty", "reset"}]
    /\ buffer \in [Conns -> Seq(Units)] /\ engine \in [Conns -> Seq(Units)]
    /\ consumed \in [Conns -> Seq(Units)]

Init ==
    /\ Service!Init
    /\ armed = TRUE /\ backlog = <<>>
    /\ phase = [c \in Conns |-> "none"]
    /\ script \in [Conns -> Scripts]
    /\ sent = [c \in Conns |-> 0] /\ rcvd = [c \in Conns |-> 0]
    /\ eof = [c \in Conns |-> FALSE] /\ tls = [c \in Conns |-> FALSE]
    /\ result = [c \in Conns |-> "none"]
    /\ buffer = [c \in Conns |-> <<>>] /\ engine = [c \in Conns |-> <<>>]
    /\ consumed = [c \in Conns |-> <<>>]
    /\ response = [c \in Conns |-> Service!NoReply]
-----------------------------------------------------------------------------
(* The clients: connect, send the next unit, leave.                        *)
Alive == up /\ job[Proxy] # Service!Dead
Starts(s, b) == Len(b) >= Len(s) /\ SubSeq(b, 1, Len(s)) = s
Rest(s, b) == SubSeq(b, Len(s) + 1, Len(b))
IsHello(b) == Starts(Hello, b) \/ Starts(Bare, b)

Connect(c) ==
    /\ Alive /\ phase[c] = "none"
    /\ phase' = [phase EXCEPT ![c] = "backlog"]
    /\ backlog' = Append(backlog, c)
    /\ result' = [result EXCEPT ![c] = "waiting"]
    /\ UNCHANGED <<serviceVars, armed, clientVars, streamVars, response>>

(* A client finishes the handshake after the server's part of it.          *)
Send(c) ==
    /\ up /\ phase[c] \notin {"none", "closed"} /\ ~eof[c]
    /\ sent[c] < Len(script[c])
    /\ script[c][sent[c] + 1] = "finished" => phase[c] = "handshake" /\ Starts(Hello, engine[c])
    /\ sent' = [sent EXCEPT ![c] = @ + 1]
    /\ UNCHANGED <<serviceVars, listenVars, phase, script, eof, result, streamVars, response>>

Leave(c) ==
    /\ up /\ phase[c] \notin {"none", "closed"} /\ ~eof[c]
    /\ c \in Careless \/ result[c] = "answered"
    /\ eof' = [eof EXCEPT ![c] = TRUE]
    /\ UNCHANGED <<serviceVars, listenVars, phase, script, sent, result, streamVars, response>>
-----------------------------------------------------------------------------
(* The thread runs no handler.                                             *)
Ready == up /\ job[Proxy] = Service!Idle

Pending(c, operation) == Ready /\ phase[c] = operation
Unread(c) == rcvd[c] < sent[c]
EndOfStream(c) == eof[c] /\ ~Unread(c)

(* The last handler of a session returned: the socket is closed.  The      *)
(* kernel resets the connection when bytes were left unread, and the       *)
(* client may then lose the response it was sent.                          *)
CloseAs(c, got) ==
    /\ phase' = [phase EXCEPT ![c] = "closed"]
    /\ result' = [result EXCEPT ![c] = IF got = "waiting" THEN "empty" ELSE got]
    /\ UNCHANGED <<serviceVars, listenVars, clientVars>>
Close(c, got) == CloseAs(c, got) \/ (Unread(c) /\ CloseAs(c, "reset"))

MutOnAcceptError ==
    /\ Ready /\ armed /\ backlog # <<>>
    /\ Cardinality(Open) >= MaxOpen
    /\ armed' = FALSE
    /\ UNCHANGED <<serviceVars, backlog, phase, clientVars, result, streamVars, response>>
OnAcceptError ==
    /\ Ready /\ armed /\ backlog # <<>>
    /\ Cardinality(Open) >= MaxOpen
    /\ armed' = TRUE
    /\ UNCHANGED <<serviceVars, backlog, phase, clientVars, result, streamVars, response>>

OnAccept ==
    /\ Ready /\ armed /\ backlog # <<>>
    /\ Cardinality(Open) < MaxOpen
    /\ phase' = [phase EXCEPT ![Head(backlog)] = "detect"]
    /\ backlog' = Tail(backlog)
    /\ armed' = TRUE
    /\ UNCHANGED <<serviceVars, clientVars, result, streamVars, response>>

(* Some of what has arrived is taken from the socket: by the detector, by  *)
(* a plain read, or by the TLS engine, whichever has an operation pending. *)
WantsMore(c) ==
    \/ phase[c] = "detect" /\ (buffer[c] = <<>> \/ buffer[c] = <<"hel">>)
    \/ phase[c] = "handshake" /\ ~Starts(Handshake, engine[c])
    \/ phase[c] = "read" /\ engine[c] = <<>> /\ Len(buffer[c]) < 2
    \/ phase[c] = "shutdown"

MutAvailable(c) == Len(script[c]) - rcvd[c]
Available(c) == sent[c] - rcvd[c]

Receive(c) ==
    /\ Ready /\ WantsMore(c)
    /\ \E n \in 1..Available(c) :
          LET units == SubSeq(script[c], rcvd[c] + 1, rcvd[c] + n) IN
          /\ rcvd' = [rcvd EXCEPT ![c] = @ + n]
          /\ IF tls[c] THEN engine' = [engine EXCEPT ![c] = @ \o units] /\ UNCHANGED buffer
                       ELSE buffer' = [buffer EXCEPT ![c] = @ \o units] /\ UNCHANGED engine
    /\ UNCHANGED <<serviceVars, listenVars, phase, clientVars, result, tls, consumed, response>>

(* on_detect: the socket and the bytes read so far go to an SSL session,   *)
(* whose handshake is given those bytes ...                                *)
OnDetectSsl(c) ==
    /\ Pending(c, "detect") /\ IsHello(buffer[c])
    /\ phase' = [phase EXCEPT ![c] = "handshake"]
    /\ tls' = [tls EXCEPT ![c] = TRUE]
    /\ engine' = [engine EXCEPT ![c] = buffer[c]]
    /\ UNCHANGED <<serviceVars, listenVars, clientVars, result, rcvd, buffer, consumed, response>>

(* ... or to a plain one, which reads on from them.                        *)
NotHello(b) == b # <<>> /\ b # <<"hel">> /\ ~IsHello(b)

MutOnDetectPlain(c) ==
    /\ Pending(c, "detect") /\ NotHello(buffer[c])
    /\ phase' = [phase EXCEPT ![c] = "read"]
    /\ buffer' = [buffer EXCEPT ![c] = <<>>]
    /\ UNCHANGED <<serviceVars, listenVars, clientVars, result, rcvd, engine, tls, consumed, response>>
OnDetectPlain(c) ==
    /\ Pending(c, "detect") /\ NotHello(buffer[c])
    /\ phase' = [phase EXCEPT ![c] = "read"]
    /\ UNCHANGED <<serviceVars, listenVars, clientVars, result, streamVars, response>>

(* on_handshake: buffer_.consume(bytes_used).                              *)
AfterHandshake(b) == <<>>

OnHandshake(c) ==
    /\ Pending(c, "handshake") /\ Starts(Handshake, engine[c])
    /\ phase' = [phase EXCEPT ![c] = "read"]
    /\ consumed' = [consumed EXCEPT ![c] = Handshake]
    /\ engine' = [engine EXCEPT ![c] = Rest(Handshake, @)]
    /\ buffer' = [buffer EXCEPT ![c] = AfterHandshake(@)]
    /\ UNCHANGED <<serviceVars, listenVars, clientVars, result, rcvd, tls, response>>

Decrypt(c) ==
    /\ Pending(c, "read") /\ engine[c] # <<>>
    /\ buffer' = [buffer EXCEPT ![c] = @ \o engine[c]]
    /\ engine' = [engine EXCEPT ![c] = <<>>]
    /\ UNCHANGED <<serviceVars, listenVars, phase, clientVars, result, rcvd, tls, consumed, response>>
-----------------------------------------------------------------------------
(* on_read: a whole request has been parsed, and handle_request is called. *)
MutWhole == <<"head">>
Whole == Request

OnRead(c) ==
    /\ Pending(c, "read") /\ Starts(Whole, buffer[c])
    /\ Service!Accept(Proxy, c)
    /\ phase' = [phase EXCEPT ![c] = "handle"]
    /\ consumed' = [consumed EXCEPT ![c] = @ \o Whole]
    /\ buffer' = [buffer EXCEPT ![c] = Rest(Whole, @)]
    /\ UNCHANGED <<up, listenVars, clientVars, result, rcvd, engine, tls, response>>

(* handle_request returned: the response is written.                       *)
MutResponse == reply[Proxy]
Response == reply'[Proxy]

SendResponse(c) ==
    /\ phase[c] = "handle" /\ up
    /\ \E o \in Outcomes : Service!Answer(Proxy, c, o)
    /\ phase' = [phase EXCEPT ![c] = "write"]
    /\ response' = [response EXCEPT ![c] = Response]
    /\ UNCHANGED <<up, listenVars, clientVars, result, streamVars>>

(* on_write: keep_alive is false, so do_eof: a plain session sends a FIN   *)
(* and is freed, an SSL session starts the TLS shutdown.                   *)
Got(c) == IF eof[c] THEN result[c] ELSE "answered"

OnWritePlain(c) ==
    /\ Pending(c, "write") /\ ~tls[c]
    /\ Close(c, Got(c))
    /\ UNCHANGED <<streamVars, response>>

OnWriteSsl(c) ==
    /\ Pending(c, "write") /\ tls[c]
    /\ phase' = [phase EXCEPT ![c] = "shutdown"]
    /\ result' = [result EXCEPT ![c] = Got(c)]
    /\ UNCHANGED <<serviceVars, listenVars, clientVars, streamVars, response>>

(* on_read, end_of_stream: the client ended the TLS stream between         *)
(* requests; do_eof answers its close_notify.                              *)
OnReadEnd(c) ==
    /\ Pending(c, "read") /\ tls[c]
    /\ EndOfStream(c) /\ engine[c] = <<>> /\ buffer[c] = <<>>
    /\ phase' = [phase EXCEPT ![c] = "shutdown"]
    /\ UNCHANGED <<serviceVars, listenVars, clientVars, result, streamVars, response>>

(* The operation failed: the handler logs the error and starts no other.   *)
(* A handshake fails when the stream ends in it, when something else comes *)
(* than the handshake, and after a ClientHello that got no certificate.    *)
Broken(c) ==
    CASE phase[c] = "detect" -> WantsMore(c) /\ EndOfStream(c)
      [] phase[c] = "handshake" ->
             \/ WantsMore(c) /\ EndOfStream(c)
             \/ \E i \in 1..Len(engine[c]) : i <= 3 /\ engine[c][i] # Handshake[i]
      [] phase[c] = "read" ->
             \/ WantsMore(c) /\ EndOfStream(c)
             \/ \E i \in 1..Len(buffer[c]) : i <= 2 /\ buffer[c][i] # Request[i]
      [] phase[c] = "write" -> eof[c]
      [] OTHER -> FALSE

OnError(c) ==
    /\ Ready /\ Broken(c)
    /\ Close(c, result[c])
    /\ UNCHANGED <<streamVars, response>>

(* on_shutdown: the client's close_notify, its end of stream or data in    *)
(* their place; the session ends either way.                               *)
OnShutdown(c) ==
    /\ Pending(c, "shutdown")
    /\ EndOfStream(c) \/ engine[c] # <<>>
    /\ Close(c, result[c])
    /\ UNCHANGED <<streamVars, response>>
-----------------------------------------------------------------------------
(* handle_request between its call and its return, step by step.           *)
Fetching ==
    /\ up
    /\ \E c \in Conns : \/ Service!Send(Proxy, c)
                        \/ \E o \in Outcomes : Service!Settle(Proxy, c, o)
    /\ UNCHANGED <<up, listenVars, phase, clientVars, result, streamVars, response>>

(* The process aborts or is killed; the kernel resets its connections.     *)
Die ==
    /\ up /\ Service!Die(Proxy)
    /\ phase' = [c \in Conns |-> IF phase[c] = "none" THEN "none" ELSE "closed"]
    /\ result' = [c \in Conns |-> IF result[c] = "waiting" THEN "reset" ELSE result[c]]
    /\ backlog' = <<>> /\ armed' = FALSE
    /\ UNCHANGED <<up, clientVars, streamVars, response>>

Restart ==
    /\ up /\ Service!Recover(Proxy)
    /\ armed' = TRUE
    /\ UNCHANGED <<up, backlog, phase, clientVars, result, streamVars, response>>

Stop ==
    /\ up /\ Service!Stop
    /\ UNCHANGED <<listenVars, phase, clientVars, result, streamVars, response>>

(* Every connection has been used, or the machine has stopped.             *)
Over == (~up \/ \A c \in Conns : phase[c] = "closed") /\ UNCHANGED vars

Handler(c) ==
    \/ Receive(c) \/ OnDetectSsl(c) \/ OnDetectPlain(c) \/ OnHandshake(c) \/ Decrypt(c)
    \/ OnRead(c) \/ SendResponse(c) \/ OnReadEnd(c) \/ OnError(c) \/ OnShutdown(c)

OnWrite(c) == OnWritePlain(c) \/ OnWriteSsl(c)

Next ==
    \/ OnAccept \/ OnAcceptError \/ Fetching \/ Die \/ Restart \/ Stop \/ Over
    \/ \E c \in Conns : Connect(c) \/ Send(c) \/ Leave(c) \/ Handler(c) \/ OnWrite(c)

Spec == Init /\ [][Next]_vars

(* The io_context runs every ready handler, in order; a client that is not *)
(* careless sends all it has to, reads its answer and then leaves; and the *)
(* browser settles every fetch.  Careless clients may stall for good.      *)
FairSpec ==
    /\ Spec
    /\ WF_vars(OnAccept) /\ WF_vars(Fetching)
    /\ \A c \in Conns : WF_vars(Handler(c))
    /\ \A c \in Conns \ Careless : WF_vars(Send(c)) /\ WF_vars(Leave(c)) /\ WF_vars(OnWrite(c))
-----------------------------------------------------------------------------
(* What arrived is neither lost, repeated nor reordered on its way from    *)
(* the socket through the detector's buffer, the TLS engine and buffer_,   *)
(* whichever sessions it changes hands between; nor does the request       *)
(* parser of an SSL session see what the detector read ahead.              *)
BytesInOrder ==
    \A c \in Open :
       consumed[c] \o (IF phase[c] = "handshake" THEN engine[c] ELSE buffer[c] \o engine[c])
          = SubSeq(script[c], 1, rcvd[c])

(* The thread is inside handle_request for the one session whose request   *)
(* it has read, and a session writes what the browser got for that request.*)
OwnResponse ==
    \A c \in Conns :
       /\ phase[c] = "handle" => "req" \in DOMAIN job[Proxy] /\ job[Proxy].req = c
       /\ response[c] \in {Service!NoReply, Service!Failed}
                          \cup {Service!Served(c, o) : o \in Outcomes}
       /\ phase[c] \in {"write", "shutdown"} /\ consumed[c] # Handshake =>
             response[c] # Service!NoReply

(* A client that has sent nothing beyond one request loses its connection  *)
(* to a reset only with the process: no close leaves its bytes unread.     *)
Sent(c) == SubSeq(script[c], 1, sent[c])
AtMostOneRequest(s) == Starts(s, Request) \/ Starts(s, Handshake \o Request)

NoResetOfSingleRequest ==
    [][\A c \in Conns : result'[c] = "reset" /\ result[c] # "reset" /\ AtMostOneRequest(Sent(c))
                        => job'[Proxy] = Service!Dead]_vars

(* A careful client, whose hello gets a certificate if it sends one, is    *)
(* answered, if the process and the machine last, no matter how many       *)
(* requests come first, that others stall for good, or that the listener   *)
(* ran out of descriptors, as long as the stalled connections leave a      *)
(* descriptor free.                                                        *)
PatientClientsServed ==
    \A c \in Conns \ Careless :
       result[c] = "waiting" /\ script[c] \in {Request, Handshake \o Request} ~> (result[c] = "answered" \/ ~Alive)
=============================================================================
