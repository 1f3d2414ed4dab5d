------------------------------ MODULE FetchHost ------------------------------
(***************************************************************************)
(* The host half of the network path: webcm.cpp, compiled to WebAssembly.  *)
(* main() runs the emulated machine in slices; when the guest executes the *)
(* soft-yield instruction, cm_run breaks out and handle_softyield reads    *)
(* (type, uid, vaddr) from a0, a1, a2 and serves one of three calls with a *)
(* table, fetches, of browser fetches in progress.                         *)
(*                                                                         *)
(* JavaScript is single threaded: the fetch callbacks run only while the   *)
(* program is suspended in emscripten_sleep, that is, at the end of an     *)
(* iteration of the main loop ("sleep") and inside the loop that waits for *)
(* a response ("wait").  While the host is not in "run" the guest is       *)
(* frozen.  The guest is open in this module: any program of the virtual   *)
(* machine may yield with any type and uid, in any order; what a REQUEST   *)
(* points at is a request as fill_mmio_req lays it out, since the host     *)
(* trusts its counts and strings.  FetchPath closes it with the client the *)
(* repository ships.                                                       *)
(***************************************************************************)
EXTENDS Naturals, FiniteSets

CONSTANTS
    Guests,    \* guest processes; a process also names the buffer a2 points at
    Uids,      \* the values a1 takes: 64-bit cycle counts
    Reqs,      \* contents of a request (url, method, headers and body)
    Outcomes   \* how the browser may end a fetch: [status, total]

(* total is emscripten_fetch_t.totalBytes.  A fetch that got no response   *)
(* (CORS, network) has status 0 and no body: the code relies on it, since  *)
(* it only looks at the status when total is 0.                            *)
ASSUME OutcomesAssumption ==
    \A o \in Outcomes : /\ o \in [status : Nat, total : Nat]
                        /\ o.status = 0 => o.total = 0

(* enum class yield_type *)
INVALID == 0
REQUEST == 1
POLL_RESPONSE == 2
POLL_RESPONSE_BODY == 3

NoReq == [none |-> "request"]
NoOutcome == [none |-> "outcome"]

(* What the guest buffer at a2 holds. *)
MmioReq(r) == [kind |-> "mmio_req", req |-> r]
Zeroed(n) == [kind |-> "zeroed", length |-> n]
MmioRes(u, o) == [kind |-> "mmio_res", of |-> u, out |-> o]
Body(u, o) == [kind |-> "body", of |-> u, out |-> o]

Lengths == {0} \cup {o.total : o \in Outcomes}

Contents == {MmioReq(r) : r \in Reqs} \cup {Zeroed(n) : n \in Lengths}
            \cup {MmioRes(u, o) : u \in Uids, o \in Outcomes}
            \cup {Body(u, o) : u \in Uids, o \in Outcomes}

VARIABLES
    host,      \* where main() is
    regs,      \* a0, a1, a2 of the guest instruction that yielded
    mem,       \* guest buffers
    fetches,   \* the table: no object, an object, an object with done set
    net        \* the emscripten_fetch_t the browser holds for a uid

hostVars == <<host, regs, mem, fetches, net>>

Running == {"run", "handle", "wait", "sleep"}
Stopped == {"halted", "failed"}

TypeOK ==
    /\ host \in Running \cup Stopped
    /\ regs \in [a0 : Nat, a1 : Uids, a2 : Guests]
    /\ mem \in [Guests -> Contents]
    /\ fetches \in [Uids -> {"absent", "waiting", "done"}]
    /\ net \in [Uids -> [state : {"none", "pending", "complete", "closed"},
                         req : Reqs \cup {NoReq},
                         out : Outcomes \cup {NoOutcome}]]

Init ==
    /\ host = "run"
    /\ regs \in [a0 : {0}, a1 : Uids, a2 : Guests]
    /\ mem = [g \in Guests |-> Zeroed(0)]
    /\ fetches = [u \in Uids |-> "absent"]
    /\ net = [u \in Uids |-> [state |-> "none", req |-> NoReq, out |-> NoOutcome]]
-----------------------------------------------------------------------------
(* The guest, as seen from the host: cm_run breaks with YIELDED_SOFTLY.    *)
Softyield(type, u, g, content) ==
    /\ host = "run"
    /\ regs' = [a0 |-> type, a1 |-> u, a2 |-> g]
    /\ mem' = [mem EXCEPT ![g] = content]
    /\ host' = "handle"
    /\ UNCHANGED <<fetches, net>>

(* cm_run reached its target cycle: the loop goes to emscripten_sleep(0). *)
Slice ==
    /\ host = "run"
    /\ host' = "sleep"
    /\ UNCHANGED <<regs, mem, fetches, net>>

(* emscripten_sleep(0) returned: the loop condition holds, next iteration. *)
Resume ==
    /\ host = "sleep"
    /\ host' = "run"
    /\ UNCHANGED <<regs, mem, fetches, net>>

(* Any other break reason ends the loop, and so does a failure of cm_run:  *)
(* main deletes the machine and returns, or exits with 1.                  *)
Halt ==
    /\ host = "run"
    /\ host' = "halted"
    /\ UNCHANGED <<regs, mem, fetches, net>>
-----------------------------------------------------------------------------
Handling(type) == host = "handle" /\ regs.a0 = type
Tracked(u) == fetches[u] # "absent"

(* return true: with a0 written on success, untouched on an early return.  *)
ReturnOk == host' = "sleep" /\ regs' = [regs EXCEPT !.a0 = 0]
ReturnEarly == host' = "sleep" /\ UNCHANGED <<regs, mem, fetches, net>>

(* emscripten_fetch_close, then fetches.erase.  Closing a fetch in flight  *)
(* aborts it and runs its error callback first, on an object still there.  *)
MutCloseAndErase(u) ==
    /\ UNCHANGED net
    /\ fetches' = [fetches EXCEPT ![u] = "absent"]
CloseAndErase(u) ==
    /\ net' = [net EXCEPT ![u].state = "closed"]
    /\ fetches' = [fetches EXCEPT ![u] = "absent"]

(* REQUEST: a uid already in the table is not fetched again ... *)
RequestDuplicate ==
    /\ Handling(REQUEST)
    /\ Tracked(regs.a1)
    /\ ReturnEarly

(* ... otherwise the request is read from the guest and the fetch started. *)
RequestStart ==
    /\ Handling(REQUEST)
    /\ ~Tracked(regs.a1)
    /\ net' = [net EXCEPT ![regs.a1] =
                 [state |-> "pending", req |-> mem[regs.a2].req, out |-> NoOutcome]]
    /\ fetches' = [fetches EXCEPT ![regs.a1] = "waiting"]
    /\ ReturnOk
    /\ UNCHANGED mem

(* POLL_RESPONSE and POLL_RESPONSE_BODY: "failed to retrieve fetch". *)
PollUnknown ==
    /\ Handling(POLL_RESPONSE) \/ Handling(POLL_RESPONSE_BODY)
    /\ ~Tracked(regs.a1)
    /\ ReturnEarly

(* while (!o->done) emscripten_sleep(4) *)
PollWait ==
    /\ Handling(POLL_RESPONSE)
    /\ fetches[regs.a1] = "waiting"
    /\ host' = "wait"
    /\ UNCHANGED <<regs, mem, fetches, net>>

(* The response headers go to the guest; without a body the fetch is over. *)
PollRespond ==
    /\ Handling(POLL_RESPONSE) \/ host = "wait"
    /\ fetches[regs.a1] = "done"
    /\ mem' = [mem EXCEPT ![regs.a2] = MmioRes(regs.a1, net[regs.a1].out)]
    /\ IF net[regs.a1].out.total = 0
       THEN CloseAndErase(regs.a1)
       ELSE UNCHANGED <<fetches, net>>
    /\ ReturnOk

(* The body is copied and the fetch freed.  The handler does not look at   *)
(* done: a fetch still in flight has no bytes yet and is aborted.          *)
MutBodyCopy ==
    /\ Handling(POLL_RESPONSE_BODY)
    /\ Tracked(regs.a1)
    /\ mem' = [mem EXCEPT ![regs.a2] = Body(regs.a1, net[regs.a1].out)]
    /\ CloseAndErase(regs.a1)
    /\ ReturnOk
BodyCopy ==
    /\ Handling(POLL_RESPONSE_BODY)
    /\ Tracked(regs.a1)
    /\ LET out == net[regs.a1].out IN
       mem' = IF out # NoOutcome /\ out.total > 0
              THEN [mem EXCEPT ![regs.a2] = Body(regs.a1, out)]
              ELSE mem
    /\ CloseAndErase(regs.a1)
    /\ ReturnOk

(* A guest buffer that cannot be read or written, or an unknown yield type, *)
(* makes handle_softyield return false and main exit(1).                   *)
Fault ==
    /\ \/ Handling(REQUEST)
       \/ Handling(POLL_RESPONSE_BODY) /\ Tracked(regs.a1)
       \/ (Handling(POLL_RESPONSE) \/ host = "wait") /\ fetches[regs.a1] = "done"
       \/ host = "handle" /\ regs.a0 \notin {REQUEST, POLL_RESPONSE, POLL_RESPONSE_BODY}
    /\ host' = "failed"
    /\ UNCHANGED <<regs, mem, fetches, net>>

handle_softyield ==
    \/ RequestDuplicate \/ RequestStart
    \/ PollUnknown \/ PollWait \/ PollRespond
    \/ BodyCopy
-----------------------------------------------------------------------------
(* The browser settles a fetch while the program sleeps; the callback sets *)
(* done in the object userData points to.                                  *)
Settle(u, o) ==
    /\ host \in {"wait", "sleep"}
    /\ net[u].state = "pending"
    /\ net' = [net EXCEPT ![u].state = "complete", ![u].out = o]

SetDone(u) ==
    fetches' = [fetches EXCEPT ![u] = IF @ = "waiting" THEN "done" ELSE @]

on_fetch_success(u, o) ==
    /\ o.status \in 200..299
    /\ Settle(u, o)
    /\ SetDone(u)
    /\ UNCHANGED <<host, regs, mem>>

MutErrorErases(u, o) ==
    /\ o.status \notin 200..299
    /\ Settle(u, o)
    /\ fetches' = [fetches EXCEPT ![u] = "absent"]
    /\ UNCHANGED <<host, regs, mem>>
MutErrorIgnored(u, o) ==
    /\ o.status \notin 200..299
    /\ Settle(u, o)
    /\ UNCHANGED <<host, regs, mem, fetches>>
on_fetch_error(u, o) ==
    /\ o.status \notin 200..299
    /\ Settle(u, o)
    /\ SetDone(u)
    /\ UNCHANGED <<host, regs, mem>>

Callback(u) == \E o \in Outcomes : on_fetch_success(u, o) \/ on_fetch_error(u, o)
-----------------------------------------------------------------------------
(* The machine is gone: nothing happens any more. *)
Off == host \in Stopped /\ UNCHANGED hostVars

HostStep == handle_softyield \/ Resume

(* Any order of yields: a well-formed request buffer for REQUEST, zeroed   *)
(* memory otherwise.                                                       *)
AnyGuest ==
    \E g \in Guests, u \in Uids :
        \/ \E r \in Reqs : Softyield(REQUEST, u, g, MmioReq(r))
        \/ \E t \in {INVALID, POLL_RESPONSE, POLL_RESPONSE_BODY} :
              Softyield(t, u, g, Zeroed(0))

Next ==
    \/ AnyGuest
    \/ Slice \/ Halt
    \/ HostStep \/ Fault
    \/ \E u \in Uids : Callback(u)
    \/ Off

Spec == Init /\ [][Next]_hostVars

(* The main loop and the wait loop keep running, and the browser settles   *)
(* every fetch: the code sets no timeout of its own (timeoutMSecs = 0).    *)
FairSpec == /\ Spec
            /\ WF_hostVars(HostStep)
            /\ \A u \in Uids : WF_hostVars(Callback(u))
-----------------------------------------------------------------------------
(* The callbacks get a raw pointer to a fetch_object the table owns, and   *)
(* the table owns the emscripten_fetch_t.  Whatever the guest asks for, in *)
(* whatever order: the object of a fetch in flight is alive, a fetch is    *)
(* not used after emscripten_fetch_close, none outlives its table entry,   *)
(* and done is set exactly when the response is there to be read.          *)
TableTracksOpenFetches ==
    \A u \in Uids : /\ fetches[u] = "waiting" <=> net[u].state = "pending"
                    /\ fetches[u] = "done" <=> net[u].state = "complete"

(* The iterator POLL_RESPONSE keeps across emscripten_sleep(4) stays valid. *)
WaitedFetchStays == host = "wait" => Tracked(regs.a1)

(* The same, as a promise about steps: until the response is handed over,  *)
(* nothing that runs during the sleep removes or adds a table entry.       *)
WaitKeepsTable ==
    [][host = "wait" /\ host' = "wait"
        => \A u \in Uids : (fetches'[u] = "absent") = (fetches[u] = "absent")]_hostVars

(* The inductive invariant the proofs use: the above, and what a handler   *)
(* may rely on when it reads the guest's request or a fetch that is done.  *)
HostInv ==
    /\ TypeOK
    /\ TableTracksOpenFetches
    /\ WaitedFetchStays
    /\ Handling(REQUEST) => mem[regs.a2].req \in Reqs
    /\ \A u \in Uids : net[u].state = "complete" => net[u].out \in Outcomes

(* A guest blocked in POLL_RESPONSE, and with it the whole machine, is     *)
(* released whether the fetch succeeds or fails.                           *)
WaitEnds == host = "wait" ~> host # "wait"
=============================================================================
