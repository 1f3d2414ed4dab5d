------------------------------ MODULE FetchPath ------------------------------
(***************************************************************************)
(* The whole network path: the host of FetchHost and, in the guest, the    *)
(* function handle_request of https-proxy.cpp, which serves one HTTP       *)
(* request with up to three soft yields.  A proxy process is single        *)
(* threaded and handle_request blocks it; the virtual machine is started   *)
(* with one such process, and the command line allows more on other        *)
(* addresses, so Guests is any set.                                        *)
(*                                                                         *)
(* A guest that yielded finds its result in a0 when the machine resumes;   *)
(* the kernel saves registers on a context switch, so cpu keeps the other  *)
(* guests out until the result is read.                                    *)
(***************************************************************************)
EXTENDS FetchHost

CONSTANT Statuses   \* the codes of http::status

(* a1 is a reading of the cycle counter; Uids bounds the counter.          *)
ASSUME UidsAssumption == Uids \subseteq Nat

VARIABLES
    mcycle,   \* the cycle counter of the machine
    cpu,      \* the guest whose soft yield is in progress
    pc,       \* where each guest is in handle_request
    uid,      \* its local uid
    req,      \* its argument req
    head,     \* its local mmio_res, once the poll returned
    reply,    \* the response it last returned to the session
    orphans   \* history: uids whose process died before the fetch was freed

guestVars == <<mcycle, cpu, pc, uid, req, head, reply, orphans>>
vars == <<hostVars, guestVars>>

Nobody == [none |-> "guest"]
ASSUME NobodyAssumption == Nobody \notin Guests

NoHead == [none |-> "head"]
NoReply == [kind |-> "none"]

(* bad_request(why): a response of status 400. *)
BadRequest(why) == [kind |-> "bad_request", why |-> why]

(* A browser gives no body with the statuses that have none; Beast would   *)
(* refuse to prepare such a response, and the process abort.               *)
ASSUME NullBodyAssumption ==
    \A o \in Outcomes : o.status \in (100..199) \cup {204, 304} => o.total = 0

(* The response proper: a status that Beast does not list becomes unknown, *)
(* which is 0, and is sent as such.                                        *)
int_to_status(s) == IF s \in Statuses THEN s ELSE 0
Response(h, b) == [kind |-> "response", head |-> h, status |-> int_to_status(h.out.status),
                   body |-> b]

Busy == {"begun", "requesting", "requested", "polling", "sized", "copying"}

PathTypeOK ==
    /\ TypeOK
    /\ mcycle \in Nat
    /\ cpu \in Guests \cup {Nobody}
    /\ pc \in [Guests -> Busy \cup {"idle", "dead"}]
    /\ uid \in [Guests -> Uids]
    /\ req \in [Guests -> Reqs]
    /\ head \in [Guests -> Contents \cup {NoHead}]
    /\ orphans \subseteq Uids

PathInit ==
    /\ Init
    /\ mcycle = 0
    /\ cpu = Nobody
    /\ pc = [g \in Guests |-> "idle"]
    /\ uid \in [Guests -> Uids]
    /\ req \in [Guests -> Reqs]
    /\ head = [g \in Guests |-> NoHead]
    /\ reply = [g \in Guests |-> NoReply]
    /\ orphans = {}
-----------------------------------------------------------------------------
OnCpu(g, at) == host = "run" /\ cpu = Nobody /\ pc[g] = at
Goto(g, at) == pc' = [pc EXCEPT ![g] = at]

(* rdcycle reads the counter and retires: the next reading is greater.     *)
MutReadCycle(g) == uid' = [uid EXCEPT ![g] = mcycle] /\ UNCHANGED mcycle
ReadCycle(g) == uid' = [uid EXCEPT ![g] = mcycle] /\ mcycle' = mcycle + 1

(* handle_request is called with a request the session has read. *)
Begin(g, r) ==
    /\ OnCpu(g, "idle")
    /\ mcycle \in Uids
    /\ ReadCycle(g)
    /\ req' = [req EXCEPT ![g] = r]
    /\ reply' = [reply EXCEPT ![g] = NoReply]
    /\ Goto(g, "begun")
    /\ UNCHANGED <<hostVars, cpu, head, orphans>>

(* softyield(type, uid, buffer), the buffer freshly filled. *)
Yield(g, from, type, content, to) ==
    /\ OnCpu(g, from)
    /\ Softyield(type, uid[g], g, content)
    /\ cpu' = g
    /\ Goto(g, to)
    /\ UNCHANGED <<mcycle, uid, req, head, reply, orphans>>

YieldRequest(g) == Yield(g, "begun", REQUEST, MmioReq(req[g]), "requesting")
YieldPoll(g) == Yield(g, "requested", POLL_RESPONSE, Zeroed(0), "polling")
MutYieldBody(g) == Yield(g, "sized", POLL_RESPONSE_BODY,
                         Zeroed(head[g].out.total + 1), "copying")
YieldBody(g) == Yield(g, "sized", POLL_RESPONSE_BODY,
                      Zeroed(head[g].out.total), "copying")

YieldReturns(g, from) ==
    /\ host = "run" /\ cpu = g /\ pc[g] = from
    /\ cpu' = Nobody
    /\ UNCHANGED <<host, regs, fetches, net, mcycle, uid, req, orphans>>

(* handle_request returns: its buffers go with its stack frame. *)
Return(g, response) ==
    /\ reply' = [reply EXCEPT ![g] = response]
    /\ head' = [head EXCEPT ![g] = NoHead]
    /\ mem' = [mem EXCEPT ![g] = Zeroed(0)]
    /\ Goto(g, "idle")

Sized(g) ==
    /\ head' = [head EXCEPT ![g] = mem[g]]
    /\ Goto(g, "sized")
    /\ UNCHANGED <<mem, reply>>

RequestReturns(g) ==
    /\ YieldReturns(g, "requesting")
    /\ IF regs.a0 # 0
       THEN Return(g, BadRequest("request yield"))
       ELSE Goto(g, "requested") /\ UNCHANGED <<mem, head, reply>>

MutErrorBodySkipped(g) ==
    /\ YieldReturns(g, "polling")
    /\ LET out == mem[g].out IN
       IF out.total > 0 /\ out.status \in 200..299
       THEN Sized(g)
       ELSE Return(g, Response(mem[g], Zeroed(0)))
MutSizedByStatus(g) ==
    /\ YieldReturns(g, "polling")
    /\ IF mem[g].out.status # 0
       THEN Sized(g)
       ELSE Return(g, BadRequest("fetch failed"))
PollReturns(g) ==
    /\ YieldReturns(g, "polling")
    /\ IF regs.a0 # 0
       THEN Return(g, BadRequest("poll yield"))
       ELSE LET out == mem[g].out IN
            IF out.total > 0
            THEN Sized(g)
            ELSE Return(g, IF out.status = 0 THEN BadRequest("fetch failed")
                           ELSE Response(mem[g], Zeroed(0)))

MutBodyReturns(g) ==
    /\ YieldReturns(g, "copying")
    /\ Return(g, IF regs.a0 # 0 \/ head[g].out.status \notin 200..299
                 THEN BadRequest("body yield") ELSE Response(head[g], mem[g]))
BodyReturns(g) ==
    /\ YieldReturns(g, "copying")
    /\ Return(g, IF regs.a0 # 0 THEN BadRequest("body yield")
                 ELSE Response(head[g], mem[g]))

Step(g) ==
    \/ YieldRequest(g) \/ RequestReturns(g)
    \/ YieldPoll(g) \/ PollReturns(g)
    \/ YieldBody(g) \/ BodyReturns(g)
-----------------------------------------------------------------------------
(* The proxy aborts (any exception does: the build has none) or is killed. *)
Die(g) ==
    /\ host = "run" /\ pc[g] # "dead"
    /\ Goto(g, "dead")
    /\ cpu' = IF cpu = g THEN Nobody ELSE cpu
    /\ orphans' = IF Tracked(uid[g]) /\ pc[g] # "idle"
                  THEN orphans \cup {uid[g]} ELSE orphans
    /\ head' = [head EXCEPT ![g] = NoHead]
    /\ UNCHANGED <<hostVars, mcycle, uid, req, reply>>

(* The user starts https-proxy again. *)
Restart(g) ==
    /\ OnCpu(g, "dead")
    /\ Goto(g, "idle")
    /\ UNCHANGED <<hostVars, mcycle, cpu, uid, req, head, reply, orphans>>

PathNext ==
    \/ \E g \in Guests : \/ \E r \in Reqs : Begin(g, r)
                         \/ Step(g)
                         \/ Die(g) \/ Restart(g)
    \/ /\ Slice \/ Halt \/ HostStep \/ Fault \/ \E u \in Uids : Callback(u)
       /\ UNCHANGED guestVars
    \/ Off /\ UNCHANGED guestVars

PathSpec == PathInit /\ [][PathNext]_vars

(* FairSpec of the host, and a guest kernel that does not starve a process *)
(* ready to run; it is enabled only between two slices, hence strong.      *)
FairPathSpec ==
    /\ PathSpec
    /\ WF_vars(HostStep /\ UNCHANGED guestVars)
    /\ \A u \in Uids : WF_vars(Callback(u) /\ UNCHANGED guestVars)
    /\ \A g \in Guests : SF_vars(Step(g))
-----------------------------------------------------------------------------
(* handle_softyield leaves a0 alone on its early returns, so the guest     *)
(* reads the yield type, not 0, and answers 400.  With the shipped client  *)
(* it never happens: no uid is used twice, no entry is freed before its    *)
(* last poll, whatever other processes do and whenever one dies.           *)
YieldsSucceed == host = "run" /\ cpu # Nobody => regs.a0 = 0

(* The body buffer was sized from the poll, one yield earlier: when the    *)
(* host copies totalBytes into it, they fit exactly.                       *)
BodyFits ==
    Handling(POLL_RESPONSE_BODY)
    => /\ fetches[regs.a1] = "done"
       /\ mem[regs.a2] = Zeroed(net[regs.a1].out.total)

(* An entry of the table belongs to a request being served; only a process *)
(* that died in the middle of one leaves an entry behind.                  *)
NoLeak ==
    \A u \in Uids : Tracked(u) =>
        u \in orphans \/ \E g \in Guests : pc[g] \in Busy /\ uid[g] = u

(* Why they hold: the inductive invariant of the proofs, in named parts.   *)
Yielding == {"requesting", "polling", "copying"}
Asked == host \in {"handle", "wait"}             \* the call is being served
Served == host \in {"run", "sleep", "halted"}    \* it has been
InFlight(u) == net[u].state \in {"pending", "complete"}

(* The host runs for the one guest whose call it serves. *)
CpuOwner ==
    /\ \A g \in Guests : pc[g] \in Yielding <=> cpu = g
    /\ Asked => cpu # Nobody

(* A uid not read yet has no fetch; a request in progress owns its uid. *)
UidsFresh ==
    /\ \A u \in Uids : u >= mcycle => net[u].state = "none"
    /\ \A g \in Guests : pc[g] \in Busy => uid[g] < mcycle /\ uid[g] \notin orphans
    /\ \A u \in orphans : u < mcycle
    /\ \A g, h \in Guests :
          g # h /\ pc[g] \in Busy /\ pc[h] \in Busy => uid[g] # uid[h]

(* The fetch of a guest has a body to copy, and the guest knows its size. *)
BodyWaits(g) ==
    LET fetch == net[uid[g]] IN
    /\ fetch.state = "complete"
    /\ fetch.out.total > 0
    /\ head[g] = MmioRes(uid[g], fetch.out)

(* The poll told the guest what the fetch got, and freed it if that is all. *)
Polled(g) ==
    LET fetch == net[uid[g]] IN
    /\ fetch.out \in Outcomes
    /\ mem[g] = MmioRes(uid[g], fetch.out)
    /\ fetch.state = IF fetch.out.total = 0 THEN "closed" ELSE "complete"

(* What a guest knows of its fetch between two yields ... *)
BetweenYields(g) ==
    /\ pc[g] = "begun" => net[uid[g]].state = "none"
    /\ pc[g] = "requested" => InFlight(uid[g])
    /\ pc[g] = "sized" => BodyWaits(g)

(* ... and what the host knows of the call it serves. *)
DuringYield(g) ==
    /\ pc[g] \in Yielding => /\ regs.a1 = uid[g] /\ regs.a2 = g
                             /\ Served => regs.a0 = 0
    /\ pc[g] = "requesting" =>
          /\ Asked => Handling(REQUEST) /\ net[uid[g]].state = "none"
          /\ Served => InFlight(uid[g])
    /\ pc[g] = "polling" =>
          /\ Asked => regs.a0 = POLL_RESPONSE /\ InFlight(uid[g])
          /\ Served => Polled(g)
    /\ pc[g] = "copying" =>
          /\ Asked => /\ Handling(POLL_RESPONSE_BODY) /\ BodyWaits(g)
                     /\ mem[g] = Zeroed(net[uid[g]].out.total)
          /\ Served => net[uid[g]].state = "closed"

PathInv ==
    /\ HostInv /\ PathTypeOK
    /\ CpuOwner /\ UidsFresh /\ NoLeak
    /\ \A g \in Guests : BetweenYields(g) /\ DuringYield(g)

(* ... and each entry is in time freed. *)
EveryFetchFreed ==
    \A u \in Uids : Tracked(u) ~> (~Tracked(u) \/ u \in orphans \/ host \in Stopped)
-----------------------------------------------------------------------------
(* What each guest is doing, in terms of the service: how far a request    *)
(* has got is the state of its fetch in the browser.                       *)
JobOf(g) ==
    LET fetch == net[uid[g]] IN
    CASE pc[g] = "idle" -> [phase |-> "idle"]
      [] pc[g] = "dead" -> [phase |-> "dead"]
      [] OTHER ->
           CASE fetch.state = "none" -> [phase |-> "accepted", req |-> req[g]]
             [] fetch.state = "pending" -> [phase |-> "sent", req |-> fetch.req]
             [] OTHER -> [phase |-> "settled", req |-> fetch.req, out |-> fetch.out]

ReplyOf(g) ==
    IF reply[g].kind # "response" THEN [kind |-> reply[g].kind]
    ELSE [kind |-> "response", req |-> net[reply[g].head.of].req,
          status |-> reply[g].status,
          body |-> IF reply[g].body.kind # "body" THEN <<>>
                   ELSE <<net[reply[g].body.of].req, reply[g].body.out.total>>]

Service == INSTANCE FetchService WITH
    up <- host \notin Stopped,
    job <- [g \in Guests |-> JobOf(g)],
    reply <- [g \in Guests |-> ReplyOf(g)]

(* The three yields, the table, the callbacks and the polls together do    *)
(* what FetchService promises: each request is fetched once, as asked, and *)
(* answered with its own response; 400 only if the browser got nothing.    *)
ImplementsService == Service!Spec

(* Every request is answered, unless its process dies or the machine stops. *)
EveryRequestAnswered == Service!EveryRequestAnswered
=============================================================================
