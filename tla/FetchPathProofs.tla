--------------------------- MODULE FetchPathProofs ---------------------------
(***************************************************************************)
(* Proofs about the network path for any number of proxy processes, uids   *)
(* and requests: the guarantees of the shipped client that the host alone  *)
(* does not give.  The host's part of each step is one of the forms of     *)
(* FetchHostProofs, so that its invariant carries over.                    *)
(***************************************************************************)
EXTENDS FetchPath, FetchHostProofs

(* The steps of the host and of the browser. *)
HostSide == /\ Slice \/ Halt \/ HostStep \/ Fault \/ \E u \in Uids : Callback(u)
            /\ UNCHANGED guestVars

GuestSide(g) == \/ \E r \in Reqs : Begin(g, r)
                \/ Step(g)
                \/ Die(g) \/ Restart(g)

LEMMA PathForms ==
    ASSUME [PathNext]_vars
    PROVE  \/ HostSide
           \/ \E g \in Guests : GuestSide(g)
           \/ UNCHANGED vars
  BY DEF PathNext, HostSide, GuestSide, vars, Off
-----------------------------------------------------------------------------
LEMMA PathInvInit == PathInit => PathInv
<1> SUFFICES ASSUME PathInit PROVE PathInv
  OBVIOUS
<1>1. HostInv
  BY HostInvInit DEF PathInit
<1>2. PathTypeOK
  BY <1>1 DEF PathInit, PathTypeOK, HostInv
<1>3. host = "run" /\ cpu = Nobody /\ pc = [g \in Guests |-> "idle"]
  BY DEF PathInit, Init
<1>4. CpuOwner
  BY <1>3, NobodyAssumption DEF CpuOwner, Yielding, Asked
<1>5. UidsFresh
  BY <1>3 DEF UidsFresh, PathInit, Init, Busy
<1>6. NoLeak
  BY DEF NoLeak, PathInit, Init, Tracked
<1>7. \A g \in Guests : BetweenYields(g) /\ DuringYield(g)
  BY <1>3 DEF BetweenYields, DuringYield, Yielding
<1>8. QED
  BY <1>1, <1>2, <1>4, <1>5, <1>6, <1>7 DEF PathInv

(* What a guest copies is as long as some response. *)
LEMMA SizedLength ==
    ASSUME PathInv, NEW g \in Guests, BodyWaits(g)
    PROVE  /\ head[g].out = net[uid[g]].out
           /\ net[uid[g]].out \in Outcomes
           /\ Zeroed(head[g].out.total) \in Contents
<1>1. net[uid[g]].out \in Outcomes /\ head[g].out = net[uid[g]].out
  BY DEF PathInv, PathTypeOK, HostInv, BodyWaits, MmioRes
<1>2. head[g].out.total \in Lengths
  BY <1>1 DEF Lengths
<1>3. QED
  BY <1>1, <1>2, ZeroedIsContents

(* The guest's steps, as the host sees them. *)
LEMMA GuestForm ==
    ASSUME PathInv, NEW g \in Guests, GuestSide(g)
    PROVE  HostForm
<1>1. uid[g] \in Uids /\ req[g] \in Reqs
  BY DEF PathInv, PathTypeOK
<1>2. Zeroed(0) \in Contents
  BY ZeroedIsContents DEF Lengths
<1>3. CASE (\E r \in Reqs : Begin(g, r)) \/ Die(g) \/ Restart(g)
  BY <1>3 DEF Begin, Die, Restart, HostForm
<1>4. CASE YieldRequest(g)
  BY <1>1, <1>4, MmioReqIsContents DEF YieldRequest, Yield, HostForm, GoodYield, REQUEST
<1>5. CASE YieldPoll(g)
  BY <1>1, <1>2, <1>5 DEF YieldPoll, Yield, HostForm, GoodYield, POLL_RESPONSE, REQUEST
<1>6. CASE YieldBody(g)
  <2>1. BodyWaits(g)
    BY <1>6 DEF YieldBody, Yield, OnCpu, PathInv, BetweenYields
  <2>2. Zeroed(head[g].out.total) \in Contents
    BY <2>1, SizedLength
  <2>3. QED
    BY <1>1, <1>6, <2>2 DEF YieldBody, Yield, HostForm, GoodYield, POLL_RESPONSE_BODY, REQUEST
<1>7. CASE RequestReturns(g) \/ PollReturns(g) \/ BodyReturns(g)
  <2>1. \/ mem' = mem
        \/ mem' = [mem EXCEPT ![g] = Zeroed(0)]
    BY <1>7 DEF RequestReturns, PollReturns, BodyReturns, Return, Sized
  <2>2. host = "run" /\ UNCHANGED <<host, regs, fetches, net>>
    BY <1>7 DEF RequestReturns, PollReturns, BodyReturns, YieldReturns
  <2>3. QED
    BY <1>2, <2>1, <2>2 DEF HostForm, GuestWrites, hostVars
<1>8. QED
  BY <1>3, <1>4, <1>5, <1>6, <1>7 DEF GuestSide, Step

LEMMA HostSideForm ==
    ASSUME PathInv, HostSide
    PROVE  HostForm
<1>1. TypeOK
  BY DEF PathInv, HostInv
<1>2. QED
  BY <1>1, MainForms, HandlerForms DEF HostSide, HostForm

LEMMA HostKeeps ==
    ASSUME PathInv, [PathNext]_vars
    PROVE  HostInv'
<1>1. HostForm
  BY PathForms, GuestForm, HostSideForm DEF HostForm, vars
<1>2. QED
  BY <1>1, HostInvStep DEF PathInv
-----------------------------------------------------------------------------
(* The call being served is the one the guest on the processor made. *)
LEMMA TheCall ==
    ASSUME PathInv, Asked
    PROVE  /\ cpu \in Guests /\ pc[cpu] \in Yielding
           /\ regs.a1 = uid[cpu] /\ regs.a2 = cpu
           /\ Handling(REQUEST) => pc[cpu] = "requesting"
           /\ Handling(POLL_RESPONSE) \/ host = "wait" => pc[cpu] = "polling"
           /\ Handling(POLL_RESPONSE_BODY) => pc[cpu] = "copying"
<1>1. cpu \in Guests /\ pc[cpu] \in Yielding
  BY DEF PathInv, PathTypeOK, CpuOwner
<1>2. QED
  BY <1>1 DEF PathInv, DuringYield, Asked, Yielding, Handling, REQUEST, POLL_RESPONSE,
              POLL_RESPONSE_BODY

(* A guest with no call in progress is not disturbed by what happens to    *)
(* the fetch of another uid.                                               *)
LEMMA Bystander ==
    ASSUME PathInv, NEW g \in Guests, pc[g] \notin Yielding,
           pc'[g] = pc[g], uid'[g] = uid[g], head'[g] = head[g],
           pc[g] \in Busy => net'[uid[g]] = net[uid[g]]
    PROVE  BetweenYields(g)' /\ DuringYield(g)'
  BY DEF PathInv, BetweenYields, DuringYield, Yielding, BodyWaits, InFlight, Busy

(* What PathInv says beyond the host and the types. *)
ClientInv ==
    /\ CpuOwner /\ UidsFresh /\ NoLeak
    /\ \A g \in Guests : BetweenYields(g) /\ DuringYield(g)

(* main() moves between slices, or stops: no call is being served. *)
LEMMA MainKeeps ==
    ASSUME PathInv, Slice \/ Halt \/ Resume \/ Fault, UNCHANGED guestVars
    PROVE  ClientInv'
<1>1. ~Asked' /\ (Served' => Served) /\ UNCHANGED <<regs, mem, fetches, net>>
  BY DEF Slice, Halt, Resume, Fault, Asked, Served
<1>2. CpuOwner' /\ UidsFresh' /\ NoLeak'
  BY <1>1 DEF guestVars, PathInv, CpuOwner, UidsFresh, NoLeak, Tracked
<1>3. ASSUME NEW g \in Guests PROVE BetweenYields(g)' /\ DuringYield(g)'
  BY <1>1 DEF guestVars, PathInv, BetweenYields, DuringYield, BodyWaits, Polled, InFlight
<1>4. QED
  BY <1>2, <1>3 DEF ClientInv

(* The early returns of the handler are not taken. *)
LEMMA NoEarlyReturn ==
    ASSUME PathInv
    PROVE  ~RequestDuplicate /\ ~PollUnknown
<1>1. ~RequestDuplicate
  <2> SUFFICES ASSUME RequestDuplicate PROVE FALSE
    OBVIOUS
  <2>1. Handling(REQUEST) /\ Asked /\ Tracked(regs.a1)
    BY DEF RequestDuplicate, Handling, Asked
  <2>2. net[uid[cpu]].state = "none" /\ regs.a1 = uid[cpu] /\ uid[cpu] \in Uids
    BY <2>1, TheCall DEF PathInv, PathTypeOK, DuringYield
  <2>3. QED
    BY <2>1, <2>2 DEF PathInv, HostInv, TypeOK, TableTracksOpenFetches, Tracked
<1>2. ~PollUnknown
  <2> SUFFICES ASSUME PollUnknown PROVE FALSE
    OBVIOUS
  <2>1. Handling(POLL_RESPONSE) \/ Handling(POLL_RESPONSE_BODY)
    BY DEF PollUnknown
  <2>2. Asked /\ ~Tracked(regs.a1)
    BY DEF PollUnknown, Handling, Asked
  <2>3. InFlight(uid[cpu]) /\ regs.a1 = uid[cpu] /\ uid[cpu] \in Uids
    BY <2>1, <2>2, TheCall DEF PathInv, PathTypeOK, DuringYield, BodyWaits, InFlight
  <2>4. QED
    BY <2>2, <2>3 DEF PathInv, HostInv, TypeOK, TableTracksOpenFetches, Tracked, InFlight
<1>3. QED
  BY <1>1, <1>2

(* The steps that serve a call touch the fetch of that call only. *)
LEMMA CallKeeps ==
    ASSUME PathInv, PollWait \/ RequestStart \/ PollRespond \/ BodyCopy, UNCHANGED guestVars
    PROVE  ClientInv'
<1>1. Asked
  BY DEF PollWait, RequestStart, PollRespond, BodyCopy, Handling, Asked
<1>2. PICK g0 \in Guests, u0 \in Uids :
        cpu = g0 /\ uid[g0] = u0 /\ pc[g0] \in Yielding /\ regs.a1 = u0 /\ regs.a2 = g0
  BY <1>1, TheCall DEF PathInv, PathTypeOK
<1>3. UNCHANGED <<mcycle, cpu, pc, uid, req, head, reply, orphans>>
  BY DEF guestVars
<1>4. pc[g0] \in Busy
  BY <1>2 DEF Yielding, Busy
<1>5. \A u \in Uids : u # u0 => net'[u] = net[u] /\ fetches'[u] = fetches[u]
  BY <1>2 DEF PathInv, HostInv, TypeOK, PollWait, RequestStart, PollRespond, BodyCopy,
              CloseAndErase
<1>6. CpuOwner'
  BY <1>1, <1>2, <1>3, NobodyAssumption DEF PathInv, CpuOwner
<1>7. UidsFresh'
  <2>1. u0 < mcycle
    BY <1>2, <1>4 DEF PathInv, UidsFresh
  <2>2. \A u \in Uids : u >= mcycle => u # u0
    BY <1>2, <2>1, UidsAssumption DEF PathInv, PathTypeOK
  <2>3. \A u \in Uids : u >= mcycle' => net'[u].state = "none"
    BY <1>3, <1>5, <2>2 DEF PathInv, UidsFresh
  <2>4. QED
    BY <1>3, <2>3 DEF PathInv, UidsFresh
<1>8. NoLeak'
  BY <1>2, <1>3, <1>4, <1>5 DEF PathInv, NoLeak, Tracked
<1>9. ASSUME NEW g \in Guests, g # g0 PROVE BetweenYields(g)' /\ DuringYield(g)'
  <2>1. pc[g] \notin Yielding
    BY <1>2, <1>9 DEF PathInv, CpuOwner
  <2>2. pc[g] \in Busy => uid[g] # u0 /\ uid[g] \in Uids
    BY <1>2, <1>4, <1>9 DEF PathInv, UidsFresh, PathTypeOK
  <2>3. QED
    BY <1>3, <1>5, <2>1, <2>2, Bystander
<1>10. BetweenYields(g0)' /\ DuringYield(g0)'
  <2>1. BetweenYields(g0)'
    BY <1>2, <1>3 DEF BetweenYields, Yielding
  <2>2. CASE PollWait
    <3>1. pc[g0] = "polling" /\ regs.a0 = POLL_RESPONSE /\ InFlight(u0)
      BY <1>1, <1>2, <2>2, TheCall DEF PollWait, PathInv, DuringYield
    <3>2. host' = "wait" /\ UNCHANGED <<regs, net>>
      BY <2>2 DEF PollWait
    <3>3. QED
      BY <1>2, <1>3, <2>1, <3>1, <3>2 DEF DuringYield, Asked, Served, InFlight
  <2>3. CASE RequestStart
    <3>1. pc[g0] = "requesting"
      BY <1>1, <1>2, <2>3, TheCall DEF RequestStart
    <3>2. host' = "sleep" /\ regs' = [regs EXCEPT !.a0 = 0]
      BY <2>3 DEF RequestStart, ReturnOk
    <3>3. net'[u0].state = "pending"
      BY <1>2, <2>3 DEF RequestStart, PathInv, HostInv, TypeOK
    <3>4. regs'.a0 = 0 /\ regs'.a1 = u0 /\ regs'.a2 = g0
      BY <1>2, <3>2 DEF PathInv, HostInv, TypeOK
    <3>5. QED
      BY <1>2, <1>3, <2>1, <3>1, <3>2, <3>3, <3>4 DEF DuringYield, Asked, Served, InFlight
  <2>4. CASE PollRespond
    <3>1. pc[g0] = "polling" /\ net[u0].state = "complete" /\ net[u0].out \in Outcomes
      BY <1>1, <1>2, <2>4, TheCall
         DEF PollRespond, PathInv, HostInv, TableTracksOpenFetches
    <3>2. host' = "sleep" /\ regs' = [regs EXCEPT !.a0 = 0]
      BY <2>4 DEF PollRespond, ReturnOk
    <3>3. regs'.a0 = 0 /\ regs'.a1 = u0 /\ regs'.a2 = g0
      BY <1>2, <3>2 DEF PathInv, HostInv, TypeOK
    <3>4. mem'[g0] = MmioRes(u0, net[u0].out)
      BY <1>2, <2>4 DEF PollRespond, PathInv, HostInv, TypeOK
    <3>5. /\ net'[u0].out = net[u0].out
          /\ net'[u0].state = IF net[u0].out.total = 0 THEN "closed" ELSE "complete"
      BY <1>2, <2>4, <3>1 DEF PollRespond, CloseAndErase, PathInv, HostInv, TypeOK
    <3>6. Polled(g0)'
      BY <1>2, <1>3, <3>1, <3>4, <3>5 DEF Polled
    <3>7. QED
      BY <1>2, <1>3, <2>1, <3>1, <3>2, <3>3, <3>6 DEF DuringYield, Asked, Served
  <2>5. CASE BodyCopy
    <3>1. pc[g0] = "copying"
      BY <1>1, <1>2, <2>5, TheCall DEF BodyCopy
    <3>2. host' = "sleep" /\ regs' = [regs EXCEPT !.a0 = 0]
      BY <2>5 DEF BodyCopy, ReturnOk
    <3>3. regs'.a0 = 0 /\ regs'.a1 = u0 /\ regs'.a2 = g0
      BY <1>2, <3>2 DEF PathInv, HostInv, TypeOK
    <3>4. net'[u0].state = "closed"
      BY <1>2, <2>5 DEF BodyCopy, CloseAndErase, PathInv, HostInv, TypeOK
    <3>5. QED
      BY <1>2, <1>3, <2>1, <3>1, <3>2, <3>3, <3>4 DEF DuringYield, Asked, Served
  <2>6. QED
    BY <2>2, <2>3, <2>4, <2>5
<1>11. QED
  BY <1>6, <1>7, <1>8, <1>9, <1>10 DEF ClientInv

(* A callback completes a fetch in flight, whoever it belongs to. *)
LEMMA CallbackKeeps ==
    ASSUME PathInv, NEW u \in Uids, Callback(u), UNCHANGED guestVars
    PROVE  ClientInv'
<1>1. PICK o \in Outcomes : Settle(u, o) /\ SetDone(u) /\ UNCHANGED <<host, regs, mem>>
  BY DEF Callback, on_fetch_success, on_fetch_error
<1>2. /\ net[u].state = "pending" /\ net'[u].state = "complete"
      /\ \A v \in Uids : v # u => net'[v] = net[v]
      /\ \A v \in Uids : Tracked(v)' <=> Tracked(v)
  BY <1>1 DEF PathInv, HostInv, TypeOK, Settle, SetDone, Tracked
<1>3. CpuOwner' /\ NoLeak'
  BY <1>1, <1>2 DEF guestVars, PathInv, CpuOwner, NoLeak, Asked
<1>4. UidsFresh'
  BY <1>2 DEF guestVars, PathInv, UidsFresh
<1>5. ASSUME NEW g \in Guests PROVE BetweenYields(g)' /\ DuringYield(g)'
  <2>1. uid[g] \in Uids
    BY DEF PathInv, PathTypeOK
  <2>2. CASE uid[g] # u
    <3>1. net'[uid[g]] = net[uid[g]]
      BY <1>2, <2>1, <2>2
    <3>2. QED
      BY <1>1, <3>1 DEF guestVars, PathInv, BetweenYields, DuringYield, BodyWaits, Polled,
                        InFlight, Asked, Served, Handling
  <2>3. CASE uid[g] = u
    <3>1. ~BodyWaits(g) /\ ~Polled(g)
      BY <1>2, <2>3 DEF BodyWaits, Polled
    <3>2. QED
      BY <1>1, <1>2, <2>3, <3>1 DEF guestVars, PathInv, BetweenYields, DuringYield, InFlight,
                        Asked, Served, Handling
  <2>4. QED
    BY <2>2, <2>3
<1>6. QED
  BY <1>3, <1>4, <1>5 DEF ClientInv

LEMMA HostSideKeeps ==
    ASSUME PathInv, HostSide
    PROVE  ClientInv'
<1>1. CASE Slice \/ Halt \/ Resume \/ Fault
  BY <1>1, MainKeeps DEF HostSide
<1>2. CASE PollWait \/ RequestStart \/ PollRespond \/ BodyCopy
  BY <1>2, CallKeeps DEF HostSide
<1>3. CASE \E u \in Uids : Callback(u)
  BY <1>3, CallbackKeeps DEF HostSide
<1>4. QED
  BY <1>1, <1>2, <1>3, NoEarlyReturn DEF HostSide, HostStep, handle_softyield
-----------------------------------------------------------------------------
(* A guest's step leaves what the others know as it was. *)
LEMMA OthersKeep ==
    ASSUME PathInv, NEW g \in Guests, GuestSide(g), NEW h \in Guests, h # g
    PROVE  BetweenYields(h)' /\ DuringYield(h)'
<1>1. pc'[h] = pc[h] /\ uid'[h] = uid[h] /\ head'[h] = head[h] /\ UNCHANGED net
  <2>1. CASE (\E r \in Reqs : Begin(g, r)) \/ Die(g) \/ Restart(g)
    BY <2>1 DEF PathInv, PathTypeOK, Begin, Die, Restart, ReadCycle, Goto, hostVars
  <2>2. CASE YieldRequest(g) \/ YieldPoll(g) \/ YieldBody(g)
    BY <2>2 DEF PathInv, PathTypeOK, YieldRequest, YieldPoll, YieldBody, Yield, Softyield, Goto
  <2>3. CASE RequestReturns(g) \/ PollReturns(g) \/ BodyReturns(g)
    BY <2>3 DEF PathInv, PathTypeOK, RequestReturns, PollReturns, BodyReturns, YieldReturns,
                Return, Sized, Goto
  <2>4. QED
    BY <2>1, <2>2, <2>3 DEF GuestSide, Step
<1>2. CASE Die(g)
  BY <1>1, <1>2 DEF Die, hostVars, PathInv, BetweenYields, DuringYield, BodyWaits, Polled,
                    InFlight, Asked, Served, Handling
<1>3. CASE ~Die(g)
  <2>1. pc[h] \notin Yielding
    <3>1. cpu = Nobody \/ cpu = g
      BY <1>3 DEF GuestSide, Step, Begin, Restart, YieldRequest, YieldPoll, YieldBody, Yield,
                  RequestReturns, PollReturns, BodyReturns, YieldReturns, OnCpu
    <3>2. QED
      BY <3>1, NobodyAssumption DEF PathInv, CpuOwner
  <2>2. QED
    BY <1>1, <2>1, Bystander
<1>4. QED
  BY <1>2, <1>3

(* A request starts with a uid nobody has read. *)
LEMMA BeginKeeps ==
    ASSUME PathInv, NEW g \in Guests, NEW r \in Reqs, Begin(g, r)
    PROVE  ClientInv'
<1>1. /\ mcycle \in Uids /\ mcycle' = mcycle + 1 /\ mcycle \in Nat
      /\ uid' = [uid EXCEPT ![g] = mcycle] /\ pc' = [pc EXCEPT ![g] = "begun"]
      /\ pc[g] = "idle" /\ cpu = Nobody /\ host = "run"
      /\ UNCHANGED <<host, net, fetches, cpu, orphans>>
  BY DEF Begin, ReadCycle, OnCpu, Goto, hostVars, PathInv, PathTypeOK
<1>2. pc'[g] = "begun" /\ uid'[g] = mcycle
  BY <1>1 DEF PathInv, PathTypeOK
<1>3. \A h \in Guests : h # g => pc'[h] = pc[h] /\ uid'[h] = uid[h]
  BY <1>1 DEF PathInv, PathTypeOK
<1>4. CpuOwner'
  BY <1>1, <1>2, <1>3, NobodyAssumption DEF PathInv, CpuOwner, Yielding, Asked
<1>5. UidsFresh'
  <2>1. \A u \in Uids : u >= mcycle' => net'[u].state = "none"
    <3> SUFFICES ASSUME NEW u \in Uids, u >= mcycle' PROVE net'[u].state = "none"
      OBVIOUS
    <3>1. u \in Nat /\ u >= mcycle
      BY <1>1, UidsAssumption
    <3>2. QED
      BY <1>1, <3>1 DEF PathInv, UidsFresh
  <2>2. \A u \in orphans' : u < mcycle' /\ u < mcycle
    BY <1>1, UidsAssumption DEF PathInv, UidsFresh, PathTypeOK
  <2>3. \A h \in Guests : h # g /\ pc'[h] \in Busy
                          => uid'[h] < mcycle /\ uid'[h] \notin orphans' /\ uid'[h] \in Nat
    BY <1>1, <1>3, UidsAssumption DEF PathInv, UidsFresh, PathTypeOK
  <2>4. QED
    BY <1>1, <1>2, <1>3, <2>1, <2>2, <2>3 DEF PathInv, UidsFresh, Busy
<1>6. NoLeak'
  BY <1>1, <1>2, <1>3 DEF PathInv, NoLeak, Tracked, Busy
<1>7. BetweenYields(g)' /\ DuringYield(g)'
  <2>1. net'[mcycle].state = "none"
    BY <1>1 DEF PathInv, UidsFresh
  <2>2. QED
    BY <1>2, <2>1 DEF BetweenYields, DuringYield, Yielding
<1>8. QED
  BY <1>4, <1>5, <1>6, <1>7, OthersKeep DEF ClientInv, GuestSide

(* A guest leaves its request behind, or starts again after a death. *)
LEMMA DeathKeeps ==
    ASSUME PathInv, NEW g \in Guests, Die(g) \/ Restart(g)
    PROVE  ClientInv'
<1>1. /\ pc'[g] \in {"dead", "idle"}
      /\ \A h \in Guests : h # g => pc'[h] = pc[h]
      /\ UNCHANGED <<host, net, fetches, mcycle, uid>>
      /\ host = "run"
  BY DEF Die, Restart, OnCpu, Goto, hostVars, PathInv, PathTypeOK
<1>2. CpuOwner'
  <2>1. \A h \in Guests : pc'[h] \in Yielding <=> cpu' = h
    BY <1>1, NobodyAssumption DEF Die, Restart, OnCpu, PathInv, CpuOwner, Yielding
  <2>2. QED
    BY <1>1, <2>1 DEF CpuOwner, Asked
<1>3. UidsFresh'
  <2>1. \A u \in orphans' : u \in orphans \/ (u = uid[g] /\ pc[g] \in Busy)
    <3>1. CASE Restart(g)
      BY <3>1 DEF Restart
    <3>2. CASE Die(g)
      <4>1. pc[g] \in Busy \cup {"idle", "dead"}
        BY DEF PathInv, PathTypeOK
      <4>2. QED
        BY <3>2, <4>1 DEF Die
    <3>3. QED
      BY <3>1, <3>2
  <2>2. \A h \in Guests : pc'[h] \in Busy => h # g /\ pc[h] \in Busy
    BY <1>1 DEF Busy
  <2>3. QED
    BY <1>1, <2>1, <2>2 DEF PathInv, UidsFresh
<1>4. NoLeak'
  BY <1>1 DEF Die, Restart, OnCpu, PathInv, PathTypeOK, NoLeak, Tracked, Busy
<1>5. BetweenYields(g)' /\ DuringYield(g)'
  BY <1>1 DEF BetweenYields, DuringYield, Yielding
<1>6. QED
  BY <1>2, <1>3, <1>4, <1>5, OthersKeep DEF ClientInv, GuestSide

(* A guest makes a call: what it knows becomes what the host may rely on. *)
LEMMA YieldKeeps ==
    ASSUME PathInv, NEW g \in Guests, YieldRequest(g) \/ YieldPoll(g) \/ YieldBody(g)
    PROVE  ClientInv'
<1>1. PICK to \in Yielding, type \in Nat :
        /\ pc' = [pc EXCEPT ![g] = to]
        /\ cpu = Nobody /\ cpu' = g /\ host' = "handle" /\ pc[g] \in Busy
        /\ regs' = [a0 |-> type, a1 |-> uid[g], a2 |-> g]
        /\ UNCHANGED <<fetches, net, mcycle, uid, head, orphans>>
  BY DEF YieldRequest, YieldPoll, YieldBody, Yield, Softyield, OnCpu, Goto, Yielding, Busy,
         REQUEST, POLL_RESPONSE, POLL_RESPONSE_BODY
<1>2. pc'[g] = to /\ \A h \in Guests : h # g => pc'[h] = pc[h]
  BY <1>1 DEF PathInv, PathTypeOK
<1>3. to \in Busy
  BY <1>1 DEF Yielding, Busy
<1>4. CpuOwner'
  BY <1>1, <1>2, NobodyAssumption DEF PathInv, CpuOwner
<1>5. UidsFresh'
  BY <1>1, <1>2, <1>3 DEF PathInv, UidsFresh
<1>6. NoLeak'
  BY <1>1, <1>2, <1>3 DEF PathInv, NoLeak, Tracked
<1>7. BetweenYields(g)'
  BY <1>1, <1>2 DEF BetweenYields, Yielding
<1>8. DuringYield(g)'
  <2>1. BetweenYields(g)
    BY DEF PathInv
  <2>2. CASE YieldRequest(g)
    BY <1>1, <1>2, <2>1, <2>2
       DEF YieldRequest, Yield, OnCpu, Softyield, Goto, PathInv, PathTypeOK, BetweenYields,
           DuringYield, Asked, Served, Handling
  <2>3. CASE YieldPoll(g)
    BY <1>1, <1>2, <2>1, <2>3
       DEF YieldPoll, Yield, OnCpu, Softyield, Goto, PathInv, PathTypeOK, BetweenYields,
           DuringYield, Asked, Served, InFlight
  <2>4. CASE YieldBody(g)
    <3>1. BodyWaits(g) /\ pc'[g] = "copying" /\ regs'.a0 = POLL_RESPONSE_BODY
          /\ mem'[g] = Zeroed(head[g].out.total)
      BY <2>1, <2>4 DEF YieldBody, Yield, OnCpu, Softyield, Goto, PathInv, PathTypeOK, TypeOK,
                        BetweenYields
    <3>2. head[g].out = net[uid[g]].out
      BY <3>1, SizedLength
    <3>3. QED
      BY <1>1, <3>1, <3>2 DEF DuringYield, BodyWaits, Asked, Served, Handling
  <2>5. QED
    BY <2>2, <2>3, <2>4
<1>9. QED
  BY <1>4, <1>5, <1>6, <1>7, <1>8, OthersKeep DEF ClientInv, GuestSide, Step

(* A call returns: the guest learns what the host did. *)
LEMMA ReturnKeeps ==
    ASSUME PathInv, NEW g \in Guests, RequestReturns(g) \/ PollReturns(g) \/ BodyReturns(g)
    PROVE  ClientInv'
<1>1. /\ host = "run" /\ cpu = g /\ cpu' = Nobody
      /\ pc[g] \in Yielding
      /\ UNCHANGED <<host, regs, fetches, net, mcycle, uid, orphans>>
  BY DEF RequestReturns, PollReturns, BodyReturns, YieldReturns, Yielding
<1>2. PICK to \in {"idle", "requested", "sized"} : pc' = [pc EXCEPT ![g] = to]
  BY DEF RequestReturns, PollReturns, BodyReturns, Return, Sized, Goto
<1>3. pc'[g] = to /\ \A h \in Guests : h # g => pc'[h] = pc[h]
  BY <1>2 DEF PathInv, PathTypeOK
<1>4. CpuOwner'
  BY <1>1, <1>3, NobodyAssumption DEF PathInv, CpuOwner, Yielding, Asked
<1>5. UidsFresh'
  BY <1>1, <1>3 DEF PathInv, UidsFresh, Yielding, Busy
<1>6. Served /\ DuringYield(g) /\ regs.a0 = 0
  BY <1>1 DEF PathInv, DuringYield, Served
<1>7. /\ to = "idle" => net[uid[g]].state = "closed"
      /\ BetweenYields(g)'
  <2>1. CASE RequestReturns(g)
    BY <1>1, <1>3, <1>6, <2>1 DEF RequestReturns, YieldReturns, Goto, DuringYield, BetweenYields,
                             InFlight, PathInv, PathTypeOK
  <2>2. CASE PollReturns(g)
    <3>0. pc[g] = "polling"
      BY <2>2 DEF PollReturns, YieldReturns
    <3>1. Polled(g) /\ mem[g].out = net[uid[g]].out
      <4>1. Polled(g)
        BY <1>6, <3>0 DEF DuringYield
      <4>2. QED
        BY <4>1 DEF Polled, MmioRes
    <3>2. net[uid[g]].out.total \in Nat
      BY <3>1, OutcomesAssumption DEF Polled
    <3>3. CASE net[uid[g]].out.total = 0
      <4>1. mem[g].out.total = 0 /\ ~(mem[g].out.total > 0)
        BY <3>1, <3>3
      <4>2. \E response : Return(g, response)
        BY <1>6, <2>2, <4>1 DEF PollReturns
      <4>3. pc'[g] = "idle"
        BY <4>2 DEF Return, Goto, PathInv, PathTypeOK
      <4>4. net[uid[g]].state = "closed"
        BY <3>1, <3>3 DEF Polled
      <4>5. QED
        BY <1>3, <4>3, <4>4 DEF BetweenYields
    <3>4. CASE net[uid[g]].out.total > 0
      <4>1. pc'[g] = "sized" /\ head'[g] = mem[g]
        BY <1>6, <2>2, <3>1, <3>4 DEF PollReturns, Sized, Goto, PathInv, PathTypeOK
      <4>2. QED
        BY <1>1, <1>3, <3>1, <3>4, <4>1 DEF Polled, BetweenYields, BodyWaits
    <3>5. QED
      BY <3>2, <3>3, <3>4
  <2>3. CASE BodyReturns(g)
    BY <1>3, <1>6, <2>3 DEF BodyReturns, YieldReturns, Return, Goto, DuringYield, BetweenYields,
                       PathInv, PathTypeOK
  <2>4. QED
    BY <2>1, <2>2, <2>3
<1>8. NoLeak'
  <2>1. to = "idle" => ~Tracked(uid[g])
    BY <1>7 DEF PathInv, PathTypeOK, HostInv, TypeOK, TableTracksOpenFetches, Tracked
  <2>2. QED
    BY <1>1, <1>3, <2>1 DEF PathInv, NoLeak, Tracked, Busy
<1>9. DuringYield(g)'
  BY <1>3 DEF DuringYield, Yielding
<1>10. QED
  BY <1>4, <1>5, <1>7, <1>8, <1>9, OthersKeep DEF ClientInv, GuestSide, Step

LEMMA GuestSideKeeps ==
    ASSUME PathInv, NEW g \in Guests, GuestSide(g)
    PROVE  ClientInv'
  BY BeginKeeps, DeathKeeps, YieldKeeps, ReturnKeeps DEF GuestSide, Step

(* The types of the guests' own state. *)
LEMMA TypesKeep ==
    ASSUME PathInv, [PathNext]_vars, TypeOK'
    PROVE  PathTypeOK'
<1>1. CASE HostSide \/ UNCHANGED vars
  BY <1>1 DEF HostSide, vars, guestVars, PathInv, PathTypeOK
<1>2. ASSUME NEW g \in Guests, GuestSide(g) PROVE PathTypeOK'
  <2> USE DEF PathInv, PathTypeOK, Goto, Busy
  <2>1. CASE \E r \in Reqs : Begin(g, r)
    BY <2>1 DEF Begin, ReadCycle
  <2>2. CASE Die(g) \/ Restart(g)
    BY <2>2 DEF Die, Restart
  <2>3. CASE YieldRequest(g) \/ YieldPoll(g) \/ YieldBody(g)
    BY <2>3 DEF YieldRequest, YieldPoll, YieldBody, Yield
  <2>4. CASE RequestReturns(g) \/ PollReturns(g) \/ BodyReturns(g)
    <3>1. head' \in [Guests -> Contents \cup {NoHead}]
      <4>1. mem[g] \in Contents
        BY DEF TypeOK
      <4>2. \/ UNCHANGED head
            \/ head' = [head EXCEPT ![g] = NoHead]
            \/ head' = [head EXCEPT ![g] = mem[g]]
        BY <2>4 DEF RequestReturns, PollReturns, BodyReturns, Return, Sized
      <4>3. QED
        BY <4>1, <4>2
    <3>2. pc' \in [Guests -> Busy \cup {"idle", "dead"}]
      BY <2>4 DEF RequestReturns, PollReturns, BodyReturns, Return, Sized
    <3>3. UNCHANGED <<mcycle, uid, req, orphans>> /\ cpu' = Nobody
      BY <2>4 DEF RequestReturns, PollReturns, BodyReturns, YieldReturns
    <3>4. QED
      BY <3>1, <3>2, <3>3
  <2>5. QED
    BY <1>2, <2>1, <2>2, <2>3, <2>4 DEF GuestSide, Step
<1>3. QED
  BY <1>1, <1>2, PathForms

LEMMA PathInvStep ==
    ASSUME PathInv, [PathNext]_vars
    PROVE  PathInv'
<1>1. HostInv' /\ TypeOK'
  BY HostKeeps DEF HostInv
<1>2. PathTypeOK'
  BY <1>1, TypesKeep
<1>3. ClientInv'
  <2>1. CASE UNCHANGED vars
    BY <2>1 DEF vars, hostVars, guestVars, PathInv, ClientInv, CpuOwner, UidsFresh, NoLeak,
                Tracked, BetweenYields, DuringYield, BodyWaits, Polled, InFlight, Asked, Served,
                Handling
  <2>2. QED
    BY <2>1, PathForms, HostSideKeeps, GuestSideKeeps
<1>4. QED
  BY <1>1, <1>2, <1>3 DEF PathInv, ClientInv
-----------------------------------------------------------------------------
(* The invariant holds of every behaviour of the path. *)
THEOREM PathInvariant == PathSpec => []PathInv
  BY PathInvInit, PathInvStep, PTL DEF PathSpec

(* Type correctness of the host and the guests together. *)
THEOREM PathTypeCorrect == PathSpec => []PathTypeOK
<1>1. PathInv => PathTypeOK
  BY DEF PathInv
<1>2. QED
  BY PathInvariant, <1>1, PTL

(* The client never meets an early return of handle_softyield: whatever    *)
(* other processes do and whenever one dies, its yields succeed.           *)
THEOREM NoSpuriousBadRequest == PathSpec => []YieldsSucceed
<1>1. PathInv => YieldsSucceed
  <2> SUFFICES ASSUME PathInv, host = "run", cpu # Nobody PROVE regs.a0 = 0
    BY DEF YieldsSucceed
  <2>1. cpu \in Guests /\ pc[cpu] \in Yielding
    BY DEF PathInv, PathTypeOK, CpuOwner
  <2>2. QED
    BY <2>1 DEF PathInv, DuringYield, Served
<1>2. QED
  BY PathInvariant, <1>1, PTL

(* The host never writes past the body buffer of the guest. *)
THEOREM BodyAlwaysFits == PathSpec => []BodyFits
<1>1. PathInv => BodyFits
  <2> SUFFICES ASSUME PathInv, Handling(POLL_RESPONSE_BODY) PROVE BodyFits
    BY DEF BodyFits
  <2>1. /\ Asked /\ cpu \in Guests /\ pc[cpu] = "copying"
        /\ regs.a1 = uid[cpu] /\ regs.a2 = cpu /\ uid[cpu] \in Uids
    BY TheCall DEF Handling, Asked, PathInv, PathTypeOK
  <2>2. BodyWaits(cpu) /\ mem[cpu] = Zeroed(net[uid[cpu]].out.total)
    BY <2>1 DEF PathInv, DuringYield
  <2>3. fetches[uid[cpu]] = "done"
    BY <2>1, <2>2 DEF BodyWaits, PathInv, HostInv, TableTracksOpenFetches
  <2>4. QED
    BY <2>1, <2>2, <2>3 DEF BodyFits
<1>2. QED
  BY PathInvariant, <1>1, PTL

(* Only a process that died in the middle of a request leaves an entry in  *)
(* the fetch table.                                                        *)
THEOREM NothingLeaks == PathSpec => []NoLeak
<1>1. PathInv => NoLeak
  BY DEF PathInv
<1>2. QED
  BY PathInvariant, <1>1, PTL
-----------------------------------------------------------------------------
(* The refinement of FetchService.  It needs three facts beyond PathInv:   *)
(* a fetch is of a request some guest made; the buffers of a call hold     *)
(* what that call is about; and the uids named by an answer have fetches,  *)
(* whose requests never change.                                            *)
Fetched(u) == u \in Uids /\ net[u].state # "none"

FetchesNamed == \A u \in Uids : Fetched(u) => net[u].req \in Reqs

Carried(g) ==
    /\ pc[g] = "requesting" /\ Asked => mem[g] = MmioReq(req[g])
    /\ pc[g] = "copying" =>
          LET out == net[uid[g]].out IN
          /\ out \in Outcomes /\ out.total > 0
          /\ head[g] = MmioRes(uid[g], out)
          /\ Served => mem[g] = Body(uid[g], out)

ReplyStands(g) ==
    reply[g].kind = "response" =>
        /\ Fetched(reply[g].head.of)
        /\ reply[g].body.kind = "body" => Fetched(reply[g].body.of)

RefInv ==
    /\ PathInv /\ FetchesNamed
    /\ reply = [g \in Guests |-> reply[g]]
    /\ \A g \in Guests : Carried(g) /\ ReplyStands(g)

LEMMA RefInvInit == PathInit => RefInv
<1> SUFFICES ASSUME PathInit PROVE RefInv
  OBVIOUS
<1>1. FetchesNamed
  BY DEF PathInit, Init, FetchesNamed, Fetched
<1>2. reply = [g \in Guests |-> reply[g]] /\ pc = [g \in Guests |-> "idle"]
      /\ \A g \in Guests : reply[g] = NoReply
  BY DEF PathInit
<1>3. \A g \in Guests : Carried(g) /\ ReplyStands(g)
  BY <1>2 DEF Carried, ReplyStands, NoReply
<1> QED
  BY <1>1, <1>2, <1>3, PathInvInit DEF RefInv

(* A fetch is started once for a uid, for a request that was read. *)
LEMMA RequestsStay ==
    ASSUME PathInv, FetchesNamed, [PathNext]_vars
    PROVE  /\ FetchesNamed'
           /\ \A u \in Uids : Fetched(u) => Fetched(u)' /\ net'[u].req = net[u].req
<1>1. HostForm
  BY PathForms, GuestForm, HostSideForm DEF HostForm, vars
<1>2. CASE UNCHANGED net
  BY <1>2 DEF FetchesNamed, Fetched
<1>3. CASE RequestStart
  <2>1. regs.a1 \in Uids /\ net[regs.a1].state = "none" /\ mem[regs.a2].req \in Reqs
    BY <1>3, TheCall DEF RequestStart, Asked, Handling, PathInv, DuringYield, HostInv, TypeOK
  <2> QED
    BY <1>3, <2>1 DEF RequestStart, FetchesNamed, Fetched, PathInv, HostInv, TypeOK
<1>4. CASE PollRespond \/ BodyCopy
  <2>1. regs.a1 \in Uids /\ Tracked(regs.a1) /\ Fetched(regs.a1)
    BY <1>4 DEF PollRespond, BodyCopy, Tracked, Fetched, PathInv, HostInv, TypeOK,
                TableTracksOpenFetches
  <2>2. UNCHANGED net \/ net' = [net EXCEPT ![regs.a1].state = "closed"]
    BY <1>4 DEF PollRespond, BodyCopy, CloseAndErase
  <2>3. \A v \in Uids : net'[v].req = net[v].req /\ (Fetched(v)' <=> Fetched(v))
    BY <2>1, <2>2 DEF Fetched, PathInv, HostInv, TypeOK
  <2> QED
    BY <2>3 DEF FetchesNamed
<1>5. ASSUME NEW u \in Uids, Callback(u)
      PROVE  /\ FetchesNamed'
             /\ \A v \in Uids : Fetched(v) => Fetched(v)' /\ net'[v].req = net[v].req
  <2>1. PICK o \in Outcomes : Settle(u, o)
    BY <1>5 DEF Callback, on_fetch_success, on_fetch_error
  <2>2. \A v \in Uids : net'[v].req = net[v].req /\ (Fetched(v)' <=> Fetched(v))
    BY <2>1 DEF Settle, Fetched, PathInv, HostInv, TypeOK
  <2> QED
    BY <2>2 DEF FetchesNamed
<1> QED
  BY <1>1, <1>2, <1>3, <1>4, <1>5
     DEF HostForm, hostVars, HostOnly, GoodYield, GuestWrites, Softyield

(* Only the guest on the processor has a call in progress. *)
LEMMA OnlyTheCaller ==
    ASSUME PathInv, NEW g \in Guests, pc[g] \in Yielding
    PROVE  cpu = g
  BY DEF PathInv, CpuOwner

LEMMA CarriedByHost ==
    ASSUME RefInv, HostSide, NEW g \in Guests
    PROVE  Carried(g)'
<1>1. UNCHANGED <<pc, uid, req, head>>
  BY DEF HostSide, guestVars
<1>2. CASE pc[g] \notin Yielding
  BY <1>1, <1>2 DEF Carried, Yielding
<1>3. CASE pc[g] \in Yielding
  <2>1. cpu = g /\ uid[g] \in Uids /\ regs.a1 = uid[g] /\ regs.a2 = g /\ Carried(g) /\ TypeOK
    BY <1>3, OnlyTheCaller DEF RefInv, PathInv, PathTypeOK, DuringYield
  <2>2. CASE Slice \/ Halt \/ Resume \/ Fault
    <3>1. ~Asked' /\ (Served' => Served) /\ UNCHANGED <<mem, net>>
      BY <2>2 DEF Slice, Halt, Resume, Fault, Asked, Served
    <3> QED
      BY <1>1, <2>1, <3>1 DEF Carried
  <2>3. CASE PollWait \/ RequestStart \/ PollRespond
    <3>1. pc[g] # "copying" /\ (pc[g] = "requesting" => RequestStart)
      BY <2>1, <2>3, TheCall
         DEF RefInv, PathInv, DuringYield, PollWait, RequestStart, PollRespond, Asked, Served,
             Handling, REQUEST, POLL_RESPONSE, POLL_RESPONSE_BODY
    <3> QED
      BY <1>1, <2>3, <3>1 DEF Carried, RequestStart, ReturnOk, Asked
  <2>4. CASE BodyCopy
    <3>1. pc[g] = "copying" /\ TypeOK
      BY <2>1, <2>4, TheCall DEF RefInv, PathInv, HostInv, BodyCopy, Asked, Handling
    <3>2. net[uid[g]].out \in Outcomes /\ net[uid[g]].out.total > 0
          /\ net[uid[g]].out # NoOutcome
      BY <2>1, <3>1, OutcomesAssumption DEF Carried, NoOutcome
    <3>3. mem'[g] = Body(uid[g], net[uid[g]].out) /\ net'[uid[g]].out = net[uid[g]].out
      BY <2>1, <2>4, <3>1, <3>2 DEF BodyCopy, CloseAndErase, TypeOK
    <3> QED
      BY <1>1, <2>1, <3>1, <3>2, <3>3 DEF Carried
  <2>5. ASSUME NEW u \in Uids, Callback(u) PROVE Carried(g)'
    <3>1. PICK o \in Outcomes : Settle(u, o) /\ UNCHANGED <<host, regs, mem>>
      BY <2>5 DEF Callback, on_fetch_success, on_fetch_error
    <3>2. pc[g] = "copying" => uid[g] # u
      BY <3>1 DEF RefInv, PathInv, DuringYield, BodyWaits, Settle, Asked, Served
    <3>3. pc[g] = "copying" => net'[uid[g]] = net[uid[g]]
      BY <2>1, <3>1, <3>2 DEF Settle, TypeOK
    <3> QED
      BY <1>1, <2>1, <3>1, <3>3 DEF Carried, Asked, Served
  <2> QED
    BY <2>2, <2>3, <2>4, <2>5, NoEarlyReturn DEF RefInv, HostSide, HostStep, handle_softyield
<1> QED
  BY <1>2, <1>3

LEMMA CarriedByGuest ==
    ASSUME RefInv, NEW g \in Guests, GuestSide(g), NEW h \in Guests
    PROVE  Carried(h)'
<1> USE DEF RefInv, PathInv, PathTypeOK, Goto
<1>1. CASE (\E r \in Reqs : Begin(g, r)) \/ Restart(g)
  <2>1. pc'[h] \notin Yielding
    BY <1>1, NobodyAssumption DEF Begin, Restart, OnCpu, CpuOwner, Yielding
  <2> QED
    BY <2>1 DEF Carried, Yielding
<1>2. CASE Die(g)
  <2>1. CASE h = g
    BY <1>2, <2>1 DEF Die, Carried
  <2>2. CASE h # g
    BY <1>2, <2>2 DEF Die, Carried, hostVars, Asked, Served
  <2> QED
    BY <2>1, <2>2
<1>3. CASE YieldRequest(g) \/ YieldPoll(g) \/ YieldBody(g)
  <2>1. CASE h # g
    <3>1. pc'[h] \notin Yielding
      BY <1>3, <2>1, NobodyAssumption
         DEF YieldRequest, YieldPoll, YieldBody, Yield, OnCpu, CpuOwner, Yielding
    <3> QED
      BY <3>1 DEF Carried, Yielding
  <2>2. CASE h = g
    <3>1. CASE YieldRequest(g)
      BY <2>2, <3>1 DEF YieldRequest, Yield, Softyield, Carried, TypeOK
    <3>2. CASE YieldPoll(g)
      BY <2>2, <3>2 DEF YieldPoll, Yield, Carried
    <3>3. CASE YieldBody(g)
      <4>1. BodyWaits(g) /\ pc'[g] = "copying" /\ ~Served'
        BY <3>3 DEF YieldBody, Yield, OnCpu, Softyield, BetweenYields, Served
      <4>2. UNCHANGED <<net, uid, head>>
        BY <3>3 DEF YieldBody, Yield, Softyield
      <4> QED
        BY <2>2, <4>1, <4>2, SizedLength DEF Carried, BodyWaits
    <3> QED
      BY <1>3, <3>1, <3>2, <3>3
  <2> QED
    BY <2>1, <2>2
<1>4. CASE RequestReturns(g) \/ PollReturns(g) \/ BodyReturns(g)
  <2>1. pc'[h] \notin Yielding
    BY <1>4, OnlyTheCaller DEF RequestReturns, PollReturns, BodyReturns, YieldReturns, Return, Sized,
                Yielding
  <2> QED
    BY <2>1 DEF Carried, Yielding
<1> QED
  BY <1>1, <1>2, <1>3, <1>4 DEF GuestSide, Step

(* An answer is made from the fetch of the request it answers. *)
OwnAnswer(g, response) ==
    response.kind = "response" =>
        /\ Fetched(uid[g]) /\ response.head.of = uid[g]
        /\ response.body.kind = "body" => response.body.of = uid[g]

LEMMA RepliesStand ==
    ASSUME RefInv, [PathNext]_vars
    PROVE  reply' = [g \in Guests |-> reply'[g]] /\ \A g \in Guests : ReplyStands(g)'
<1>1. \A u \in Uids : Fetched(u) => Fetched(u)'
  BY RequestsStay DEF RefInv
<1>2. CASE UNCHANGED reply
  BY <1>1, <1>2 DEF RefInv, ReplyStands, Fetched
<1>3. ASSUME NEW g \in Guests, NEW r \in Reqs, Begin(g, r)
      PROVE  reply' = [h \in Guests |-> reply'[h]] /\ \A h \in Guests : ReplyStands(h)'
  BY <1>1, <1>3 DEF Begin, NoReply, RefInv, ReplyStands, Fetched
<1>4. ASSUME NEW g \in Guests, RequestReturns(g) \/ PollReturns(g) \/ BodyReturns(g)
      PROVE  reply' = [h \in Guests |-> reply'[h]] /\ \A h \in Guests : ReplyStands(h)'
  <2>1. UNCHANGED reply \/ \E response : Return(g, response) /\ OwnAnswer(g, response)
    <3>1. CASE RequestReturns(g)
      <4>1. OwnAnswer(g, BadRequest("request yield"))
        BY DEF OwnAnswer, BadRequest
      <4> QED
        BY <3>1, <4>1 DEF RequestReturns
    <3>2. CASE PollReturns(g)
      <4>1. pc[g] = "polling" /\ Served /\ uid[g] \in Uids
        BY <3>2 DEF PollReturns, YieldReturns, Served, RefInv, PathInv, PathTypeOK
      <4>2. Polled(g) /\ mem[g].of = uid[g]
        BY <4>1 DEF RefInv, PathInv, DuringYield, Polled, MmioRes
      <4>3. Fetched(uid[g])
        BY <4>1, <4>2 DEF Polled, Fetched
      <4>4. OwnAnswer(g, BadRequest("poll yield")) /\ OwnAnswer(g, BadRequest("fetch failed"))
        BY DEF OwnAnswer, BadRequest
      <4>5. OwnAnswer(g, Response(mem[g], Zeroed(0)))
        BY <4>2, <4>3 DEF OwnAnswer, Response, Zeroed
      <4> QED
        BY <3>2, <4>4, <4>5 DEF PollReturns, Sized
    <3>3. CASE BodyReturns(g)
      <4>1. pc[g] = "copying" /\ Served /\ uid[g] \in Uids
        BY <3>3 DEF BodyReturns, YieldReturns, Served, RefInv, PathInv, PathTypeOK
      <4>2. Fetched(uid[g])
        BY <4>1 DEF RefInv, PathInv, DuringYield, Fetched
      <4>3. head[g].of = uid[g] /\ mem[g].of = uid[g]
        <5>1. Carried(g)
          BY DEF RefInv
        <5>2. head[g] = MmioRes(uid[g], net[uid[g]].out) /\ mem[g] = Body(uid[g], net[uid[g]].out)
          BY <4>1, <5>1 DEF Carried
        <5> QED
          BY <5>2 DEF MmioRes, Body
      <4>4. OwnAnswer(g, Response(head[g], mem[g]))
        BY <4>2, <4>3 DEF OwnAnswer, Response
      <4>5. regs.a0 = 0
        BY <4>1 DEF RefInv, PathInv, DuringYield, Yielding
      <4>6. Return(g, Response(head[g], mem[g]))
        BY <3>3, <4>5 DEF BodyReturns, Return
      <4> QED
        BY <4>4, <4>6
    <3> QED
      BY <1>4, <3>1, <3>2, <3>3
  <2>2. uid[g] \in Uids
    BY DEF RefInv, PathInv, PathTypeOK
  <2>3. ASSUME NEW response, Return(g, response), OwnAnswer(g, response)
        PROVE  reply' = [h \in Guests |-> reply'[h]] /\ \A h \in Guests : ReplyStands(h)'
    <3>1. reply' = [reply EXCEPT ![g] = response]
      BY <2>3 DEF Return
    <3>2. ASSUME NEW h \in Guests PROVE ReplyStands(h)'
      <4>1. CASE h = g
        BY <1>1, <2>2, <2>3, <3>1, <4>1 DEF RefInv, ReplyStands, OwnAnswer
      <4>2. CASE h # g
        <5>1. reply'[h] = reply[h] /\ ReplyStands(h)
          BY <3>1, <4>2 DEF RefInv
        <5> QED
          BY <1>1, <5>1 DEF ReplyStands, Fetched
      <4> QED
        BY <4>1, <4>2
    <3> QED
      BY <3>1, <3>2 DEF RefInv
  <2> QED
    BY <1>2, <2>1, <2>3
<1> QED
  BY <1>2, <1>3, <1>4, PathForms
     DEF HostSide, guestVars, vars, GuestSide, Step, Die, Restart, YieldRequest, YieldPoll, YieldBody,
         Yield

LEMMA RefInvStep ==
    ASSUME RefInv, [PathNext]_vars
    PROVE  RefInv'
<1>1. PathInv' /\ FetchesNamed'
  BY PathInvStep, RequestsStay DEF RefInv
<1>2. ASSUME NEW g \in Guests PROVE Carried(g)'
  <2>1. CASE UNCHANGED vars
    BY <2>1 DEF vars, hostVars, guestVars, RefInv, Carried, Asked, Served
  <2> QED
    BY <2>1, PathForms, CarriedByHost, CarriedByGuest
<1> QED
  BY <1>1, <1>2, RepliesStand DEF RefInv
-----------------------------------------------------------------------------
(* What a guest does for the service, in each state of its fetch. *)
LEMMA Jobs ==
    ASSUME NEW g \in Guests
    PROVE  /\ pc[g] = "idle" => JobOf(g) = Service!Idle
           /\ pc[g] = "dead" => JobOf(g) = Service!Dead
           /\ pc[g] \notin {"idle", "dead"} =>
                 /\ net[uid[g]].state = "none" => JobOf(g) = Service!Accepted(req[g])
                 /\ net[uid[g]].state = "pending" => JobOf(g) = Service!Sent(net[uid[g]].req)
                 /\ net[uid[g]].state \in {"complete", "closed"} =>
                       JobOf(g) = Service!Settled(net[uid[g]].req, net[uid[g]].out)
  BY DEF JobOf, Service!Idle, Service!Dead, Service!Accepted, Service!Sent, Service!Settled

(* Nobody's job changes but that of a guest that moves or whose fetch does.*)
LEMMA SameJob ==
    ASSUME NEW g \in Guests, UNCHANGED <<pc[g], uid[g], req[g]>>,
           pc[g] \notin {"idle", "dead"} => net'[uid[g]] = net[uid[g]]
    PROVE  JobOf(g)' = JobOf(g)
  BY DEF JobOf

LEMMA SameReply ==
    ASSUME RefInv, [PathNext]_vars, NEW g \in Guests, reply'[g] = reply[g]
    PROVE  ReplyOf(g)' = ReplyOf(g)
<1>1. \A u \in Uids : Fetched(u) => net'[u].req = net[u].req
  BY RequestsStay DEF RefInv
<1>2. ReplyStands(g)
  BY DEF RefInv
<1> QED
  BY <1>1, <1>2 DEF ReplyStands, Fetched, ReplyOf

LEMMA OneJob ==
    ASSUME NEW g \in Guests, NEW j, JobOf(g)' = j, \A h \in Guests \ {g} : JobOf(h)' = JobOf(h)
    PROVE  Service!Become(g, j)
  BY DEF Service!Become

(* A step that does nothing for the service. *)
LEMMA Stuttering ==
    ASSUME (host' \in Stopped) = (host \in Stopped),
           \A g \in Guests : JobOf(g)' = JobOf(g) /\ ReplyOf(g)' = ReplyOf(g)
    PROVE  UNCHANGED Service!serviceVars
  BY DEF Service!serviceVars

(* A step that one guest takes for the service while the machine runs. *)
LEMMA Serving ==
    ASSUME host \notin Stopped, host' \notin Stopped, \E g \in Guests : Service!Serve(g)
    PROVE  Service!Next
  BY DEF Service!Next

LEMMA HostSimulates ==
    ASSUME RefInv, HostSide, [PathNext]_vars
    PROVE  [Service!Next]_(Service!serviceVars)
<1>1. UNCHANGED <<pc, uid, req, reply>> /\ \A g \in Guests : ReplyOf(g)' = ReplyOf(g)
  BY SameReply DEF HostSide, guestVars
<1>2. TypeOK /\ \A g \in Guests : uid[g] \in Uids
  BY DEF RefInv, PathInv, HostInv, PathTypeOK
<1>3. CASE Slice \/ Resume \/ PollWait
  <2>1. UNCHANGED net /\ host \notin Stopped /\ host' \notin Stopped
    BY <1>3 DEF Slice, Resume, PollWait, Handling, Stopped
  <2> QED
    BY <1>1, <2>1, SameJob, Stuttering
<1>4. CASE Halt \/ Fault
  <2>1. UNCHANGED net /\ host \notin Stopped /\ host' \in Stopped
    BY <1>4 DEF Halt, Fault, Handling, Stopped
  <2>2. \A g \in Guests : JobOf(g)' = JobOf(g)
    BY <1>1, <2>1, SameJob
  <2> QED
    BY <1>1, <2>1, <2>2 DEF Service!Next, Service!Stop
<1>5. CASE RequestStart
  <2>1. Asked /\ regs.a1 \in Uids
    BY <1>2, <1>5 DEF RequestStart, Handling, Asked, TypeOK
  <2>2. PICK g \in Guests : cpu = g /\ pc[g] = "requesting" /\ regs.a1 = uid[g] /\ regs.a2 = g
    BY <1>5, <2>1, TheCall DEF RefInv, RequestStart
  <2>3. net[uid[g]].state = "none" /\ mem[g].req = req[g] /\ req[g] \in Reqs
    <3>1. Carried(g) /\ DuringYield(g) /\ req[g] \in Reqs
      BY DEF RefInv, PathInv, PathTypeOK
    <3> QED
      BY <2>1, <2>2, <3>1 DEF DuringYield, Carried, MmioReq
  <2>4. net'[uid[g]].state = "pending" /\ net'[uid[g]].req = req[g]
        /\ \A u \in Uids : u # uid[g] => net'[u] = net[u]
    BY <1>2, <1>5, <2>2, <2>3 DEF RequestStart, TypeOK
  <2>5. JobOf(g) = Service!Accepted(req[g]) /\ JobOf(g)' = Service!Sent(req[g])
    BY <1>1, <2>2, <2>3, <2>4, Jobs DEF JobOf, Service!Sent
  <2>6. \A h \in Guests \ {g} : JobOf(h)' = JobOf(h)
    <3> SUFFICES ASSUME NEW h \in Guests, h # g PROVE JobOf(h)' = JobOf(h)
      OBVIOUS
    <3>1. pc[h] \in Busy => uid[h] # uid[g]
      BY <2>2 DEF RefInv, PathInv, UidsFresh, Busy
    <3>2. pc[h] \notin {"idle", "dead"} => pc[h] \in Busy
      BY DEF RefInv, PathInv, PathTypeOK
    <3> QED
      BY <1>1, <1>2, <2>4, <3>1, <3>2, SameJob
  <2>7. Service!Send(g, req[g])
    BY <1>1, <2>5, <2>6, OneJob DEF Service!Send
  <2>8. host \notin Stopped /\ host' \notin Stopped
    BY <1>5 DEF RequestStart, ReturnOk, Handling, Stopped
  <2> QED
    BY <2>3, <2>7, <2>8, Serving DEF Service!Serve
<1>6. CASE PollRespond \/ BodyCopy
  <2>1. Asked /\ regs.a1 \in Uids /\ host \notin Stopped /\ host' \notin Stopped
    BY <1>2, <1>6 DEF PollRespond, BodyCopy, ReturnOk, Handling, Asked, TypeOK, Stopped
  <2>2. net[regs.a1].state = "complete"
    <3>1. CASE PollRespond
      BY <2>1, <3>1 DEF PollRespond, RefInv, PathInv, HostInv, TableTracksOpenFetches
    <3>2. CASE BodyCopy
      BY <2>1, <3>2, TheCall DEF BodyCopy, RefInv, PathInv, DuringYield, BodyWaits
    <3> QED
      BY <1>6, <3>1, <3>2
  <2>3. UNCHANGED net \/ net' = [net EXCEPT ![regs.a1].state = "closed"]
    BY <1>6 DEF PollRespond, BodyCopy, CloseAndErase
  <2>4. ASSUME NEW g \in Guests PROVE JobOf(g)' = JobOf(g)
    <3>1. CASE net'[uid[g]] = net[uid[g]]
      BY <1>1, <3>1, SameJob
    <3>2. CASE net'[uid[g]] # net[uid[g]]
      <4>1. /\ net[uid[g]].state = "complete" /\ net'[uid[g]].state = "closed"
            /\ net'[uid[g]].req = net[uid[g]].req /\ net'[uid[g]].out = net[uid[g]].out
        BY <1>2, <2>1, <2>2, <2>3, <3>2 DEF TypeOK
      <4> QED
        BY <1>1, <4>1 DEF JobOf
    <3> QED
      BY <3>1, <3>2
  <2> QED
    BY <1>1, <2>1, <2>4, Stuttering
<1>7. ASSUME NEW u \in Uids, Callback(u) PROVE [Service!Next]_(Service!serviceVars)
  <2>1. PICK o \in Outcomes : Settle(u, o) /\ UNCHANGED host
    BY <1>7 DEF Callback, on_fetch_success, on_fetch_error
  <2>2. /\ net[u].state = "pending" /\ net'[u].state = "complete"
        /\ net'[u].out = o /\ net'[u].req = net[u].req
        /\ \A v \in Uids : v # u => net'[v] = net[v]
    BY <1>2, <2>1 DEF Settle, TypeOK
  <2>3. host \notin Stopped /\ host' \notin Stopped
    BY <2>1 DEF Settle, Stopped
  <2>4. CASE \A g \in Guests : uid[g] = u => pc[g] \in {"idle", "dead"}
    <3>1. \A g \in Guests : JobOf(g)' = JobOf(g)
      BY <1>1, <1>2, <2>2, <2>4, SameJob
    <3> QED
      BY <1>1, <2>3, <3>1, Stuttering
  <2>5. ASSUME NEW g \in Guests, uid[g] = u, pc[g] \notin {"idle", "dead"}
        PROVE  Service!Next
    <3>1. net[u].req \in Reqs
      BY <2>2 DEF RefInv, FetchesNamed, Fetched
    <3>2. JobOf(g) = Service!Sent(net[u].req) /\ JobOf(g)' = Service!Settled(net[u].req, o)
      BY <1>1, <2>2, <2>5, Jobs DEF JobOf, Service!Settled
    <3>3. \A h \in Guests \ {g} : JobOf(h)' = JobOf(h)
      <4> SUFFICES ASSUME NEW h \in Guests, h # g PROVE JobOf(h)' = JobOf(h)
        OBVIOUS
      <4>1. pc[g] \in Busy /\ (pc[h] \notin {"idle", "dead"} => pc[h] \in Busy)
        BY <2>5 DEF RefInv, PathInv, PathTypeOK
      <4>2. pc[h] \notin {"idle", "dead"} => uid[h] # u
        BY <2>5, <4>1 DEF RefInv, PathInv, UidsFresh
      <4> QED
        BY <1>1, <1>2, <2>2, <4>2, SameJob
    <3>4. Service!Settle(g, net[u].req, o)
      BY <1>1, <3>2, <3>3, OneJob DEF Service!Settle
    <3> QED
      BY <2>3, <3>1, <3>4, Serving DEF Service!Serve
  <2> QED
    BY <2>4, <2>5
<1> QED
  BY <1>3, <1>4, <1>5, <1>6, <1>7, NoEarlyReturn
     DEF RefInv, HostSide, HostStep, handle_softyield

(* What is answered is what the browser got for the request. *)
LEMMA Answers ==
    ASSUME RefInv, NEW g \in Guests, [PathNext]_vars, NEW response, Return(g, response),
           YieldReturns(g, pc[g]), pc[g] \in Yielding,
           net[uid[g]].state = "closed", net[uid[g]].out \in Outcomes,
           ReplyOf(g)' = IF net[uid[g]].out.status = 0 THEN Service!Failed
                         ELSE Service!Served(net[uid[g]].req, net[uid[g]].out)
    PROVE  Service!Next
<1>1. /\ pc' = [pc EXCEPT ![g] = "idle"] /\ reply' = [reply EXCEPT ![g] = response]
      /\ UNCHANGED <<host, net, uid, req>> /\ host = "run"
  BY DEF Return, Goto, YieldReturns
<1>2. pc'[g] = "idle" /\ \A h \in Guests \ {g} : pc'[h] = pc[h] /\ reply'[h] = reply[h]
  BY <1>1 DEF RefInv, PathInv, PathTypeOK
<1>3. net[uid[g]].req \in Reqs
  BY DEF RefInv, PathInv, PathTypeOK, FetchesNamed, Fetched
<1>4. JobOf(g) = Service!Settled(net[uid[g]].req, net[uid[g]].out) /\ JobOf(g)' = Service!Idle
  BY <1>2, Jobs DEF Yielding, JobOf, Service!Idle
<1>5. \A h \in Guests \ {g} : JobOf(h)' = JobOf(h) /\ ReplyOf(h)' = ReplyOf(h)
  BY <1>1, <1>2, SameJob, SameReply
<1>6. Service!Answer(g, net[uid[g]].req, net[uid[g]].out)
  BY <1>4, <1>5, OneJob DEF Service!Answer
<1> QED
  BY <1>1, <1>3, <1>6, Serving DEF Service!Serve, Stopped

LEMMA ReturnSimulates ==
    ASSUME RefInv, NEW g \in Guests, RequestReturns(g) \/ PollReturns(g) \/ BodyReturns(g),
           [PathNext]_vars
    PROVE  [Service!Next]_(Service!serviceVars)
<1> DEFINE u == uid[g]
<1>1. /\ YieldReturns(g, pc[g]) /\ pc[g] \in Yielding /\ Served
      /\ host = "run" /\ UNCHANGED <<host, net, uid, req>>
  BY DEF RequestReturns, PollReturns, BodyReturns, YieldReturns, Yielding, Served
<1>2. DuringYield(g) /\ Carried(g) /\ regs.a0 = 0
  BY <1>1 DEF RefInv, PathInv, DuringYield
<1>3. CASE \E to \in Busy : Goto(g, to) /\ UNCHANGED reply
  <2>1. \A h \in Guests : JobOf(h)' = JobOf(h) /\ ReplyOf(h)' = ReplyOf(h)
    <3> SUFFICES ASSUME NEW h \in Guests PROVE JobOf(h)' = JobOf(h) /\ ReplyOf(h)' = ReplyOf(h)
      OBVIOUS
    <3>1. ReplyOf(h)' = ReplyOf(h)
      BY <1>3, SameReply
    <3>2. pc'[h] = pc[h] \/ {pc[h], pc'[h]} \cap {"idle", "dead"} = {}
      BY <1>1, <1>3 DEF Goto, RefInv, PathInv, PathTypeOK, Yielding, Busy
    <3> QED
      BY <1>1, <3>1, <3>2 DEF JobOf
  <2> QED
    BY <1>1, <2>1, Stuttering
<1>4. CASE RequestReturns(g)
  BY <1>2, <1>3, <1>4 DEF RequestReturns, Busy
<1>5. CASE PollReturns(g)
  <2>1. pc[g] = "polling" /\ Polled(g)
    BY <1>1, <1>2, <1>5 DEF PollReturns, YieldReturns, DuringYield
  <2>2. /\ net[u].out \in Outcomes /\ net[u].out.total \in Nat
        /\ mem[g].out = net[u].out /\ mem[g].of = u
    BY <2>1, OutcomesAssumption DEF Polled, MmioRes
  <2>3. CASE net[u].out.total > 0
    BY <1>2, <1>3, <1>5, <2>2, <2>3 DEF PollReturns, Sized, Busy
  <2>4. CASE net[u].out.total = 0
    <3> DEFINE answer == IF net[u].out.status = 0 THEN BadRequest("fetch failed")
                         ELSE Response(mem[g], Zeroed(0))
    <3>1. Return(g, answer) /\ net[u].state = "closed"
      <4>1. net[u].state = "closed" /\ ~(mem[g].out.total > 0)
        BY <2>1, <2>2, <2>4 DEF Polled
      <4>2. Return(g, IF mem[g].out.status = 0 THEN BadRequest("fetch failed")
                      ELSE Response(mem[g], Zeroed(0)))
        BY <1>2, <1>5, <4>1 DEF PollReturns, Return
      <4> QED
        BY <2>2, <4>1, <4>2
    <3>2. reply'[g] = answer
      BY <3>1 DEF Return, RefInv
    <3>3. ReplyOf(g)' = IF net[u].out.status = 0 THEN Service!Failed
                        ELSE Service!Served(net[u].req, net[u].out)
      <4>1. CASE net[u].out.status = 0
        <5>1. PICK why : reply'[g] = BadRequest(why)
          BY <3>2, <4>1, Zenon
        <5>2. reply'[g].kind = "bad_request"
          BY <5>1 DEF BadRequest
        <5> QED
          BY <4>1, <5>2 DEF ReplyOf, Service!Failed
      <4>2. CASE net[u].out.status # 0
        <5>1. reply'[g] = Response(mem[g], Zeroed(0))
          BY <3>2, <4>2
        <5>2. /\ reply'[g].kind = "response" /\ reply'[g].body.kind # "body"
              /\ reply'[g].head.of = u
              /\ reply'[g].status = Service!int_to_status(net[u].out.status)
          BY <2>2, <5>1 DEF Response, int_to_status, Service!int_to_status, Zeroed
        <5> QED
          BY <1>1, <2>4, <4>2, <5>2 DEF ReplyOf, Service!Served
      <4> QED
        BY <4>1, <4>2
    <3> QED
      BY <1>1, <2>2, <3>1, <3>3, Answers
  <2> QED
    BY <2>2, <2>3, <2>4
<1>6. CASE BodyReturns(g)
  <2>1. pc[g] = "copying" /\ net[u].state = "closed"
    BY <1>1, <1>2, <1>6 DEF BodyReturns, YieldReturns, DuringYield
  <2>2. /\ net[u].out \in Outcomes /\ net[u].out.total > 0
        /\ head[g] = MmioRes(u, net[u].out) /\ mem[g] = Body(u, net[u].out)
    BY <1>1, <1>2, <2>1 DEF Carried
  <2>3. net[u].out.status # 0 /\ net[u].out.total # 0
    BY <2>2, OutcomesAssumption
  <2>4. Return(g, Response(head[g], mem[g]))
    BY <1>2, <1>6 DEF BodyReturns, Return
  <2>5. reply'[g] = Response(MmioRes(u, net[u].out), Body(u, net[u].out))
    BY <2>2, <2>4 DEF Return, RefInv
  <2>6. ReplyOf(g)' = Service!Served(net[u].req, net[u].out)
    <3>1. /\ reply'[g].kind = "response" /\ reply'[g].body.kind = "body"
          /\ reply'[g].head.of = u /\ reply'[g].body.of = u
          /\ reply'[g].body.out = net[u].out
          /\ reply'[g].status = Service!int_to_status(net[u].out.status)
      BY <2>5 DEF Response, int_to_status, Service!int_to_status, MmioRes, Body
    <3> QED
      BY <1>1, <2>3, <3>1 DEF ReplyOf, Service!Served
  <2> QED
    BY <1>1, <2>1, <2>2, <2>3, <2>4, <2>6, Answers
<1> QED
  BY <1>4, <1>5, <1>6

LEMMA GuestSimulates ==
    ASSUME RefInv, NEW g \in Guests, GuestSide(g), [PathNext]_vars
    PROVE  [Service!Next]_(Service!serviceVars)
<1>1. pc \in [Guests -> Busy \cup {"idle", "dead"}] /\ uid \in [Guests -> Uids] /\ uid[g] \in Uids
  BY DEF RefInv, PathInv, PathTypeOK
<1>2. CASE \E r \in Reqs : Begin(g, r)
  <2>1. PICK r \in Reqs : Begin(g, r)
    BY <1>2
  <2>2. /\ host = "run" /\ UNCHANGED <<host, net>> /\ pc[g] = "idle"
        /\ mcycle \in Uids /\ net[mcycle].state = "none"
        /\ pc' = [pc EXCEPT ![g] = "begun"] /\ uid' = [uid EXCEPT ![g] = mcycle]
        /\ req' = [req EXCEPT ![g] = r] /\ reply' = [reply EXCEPT ![g] = NoReply]
    <3>1. mcycle \in Nat /\ mcycle >= mcycle
      BY DEF RefInv, PathInv, PathTypeOK
    <3> QED
      BY <2>1, <3>1 DEF Begin, OnCpu, ReadCycle, Goto, hostVars, RefInv, PathInv, UidsFresh
  <2>3. pc'[g] = "begun" /\ uid'[g] = mcycle /\ req'[g] = r /\ reply'[g] = NoReply
    BY <1>1, <2>2 DEF RefInv, PathInv, PathTypeOK
  <2>4. JobOf(g) = Service!Idle /\ JobOf(g)' = Service!Accepted(r)
        /\ ReplyOf(g)' = Service!NoReply
    <3>1. net'[uid'[g]].state = "none" /\ reply'[g].kind = "none"
      BY <2>2, <2>3 DEF NoReply
    <3> QED
      BY <2>2, <2>3, <3>1, Jobs DEF JobOf, ReplyOf, Service!Accepted, Service!NoReply
  <2>5. \A h \in Guests \ {g} : JobOf(h)' = JobOf(h) /\ ReplyOf(h)' = ReplyOf(h)
    <3> SUFFICES ASSUME NEW h \in Guests, h # g
                 PROVE  JobOf(h)' = JobOf(h) /\ ReplyOf(h)' = ReplyOf(h)
      OBVIOUS
    <3>1. UNCHANGED <<pc[h], uid[h], req[h], reply[h], net>>
      BY <1>1, <2>2 DEF RefInv, PathInv, PathTypeOK
    <3> QED
      BY <3>1, SameJob, SameReply
  <2>6. Service!Accept(g, r)
    BY <2>4, <2>5, OneJob DEF Service!Accept
  <2> QED
    BY <2>2, <2>6, Serving DEF Service!Serve, Stopped
<1>3. CASE Die(g) \/ Restart(g)
  <2>1. /\ host = "run" /\ UNCHANGED <<host, net, uid, req, reply>>
        /\ pc' = [pc EXCEPT ![g] = IF Die(g) THEN "dead" ELSE "idle"]
    BY <1>3 DEF Die, Restart, OnCpu, Goto, hostVars
  <2>2. \A h \in Guests : ReplyOf(h)' = ReplyOf(h)
    BY <2>1, SameReply
  <2>3. \A h \in Guests \ {g} : JobOf(h)' = JobOf(h)
    BY <1>1, <2>1, SameJob
  <2>4. CASE Die(g)
    <3>1. JobOf(g)' = Service!Dead
      BY <1>1, <2>1, <2>4 DEF JobOf, Service!Dead
    <3>2. JobOf(g) # Service!Dead
      BY <2>4 DEF Die, JobOf, Service!Dead
    <3> QED
      BY <2>1, <2>2, <2>3, <3>1, <3>2, OneJob, Serving
         DEF Service!Die, Service!Serve, Stopped
  <2>5. CASE ~Die(g)
    <3>1. JobOf(g) = Service!Dead /\ JobOf(g)' = Service!Idle
      BY <1>1, <1>3, <2>1, <2>5 DEF Restart, OnCpu, JobOf, Service!Dead, Service!Idle
    <3> QED
      BY <2>1, <2>2, <2>3, <3>1, OneJob, Serving
         DEF Service!Recover, Service!Serve, Stopped
  <2> QED
    BY <2>4, <2>5
<1>4. CASE YieldRequest(g) \/ YieldPoll(g) \/ YieldBody(g)
  <2>1. /\ host \notin Stopped /\ host' \notin Stopped /\ UNCHANGED <<net, uid, req, reply>>
        /\ pc[g] \in Busy /\ \E to \in Busy : pc' = [pc EXCEPT ![g] = to]
    BY <1>4 DEF YieldRequest, YieldPoll, YieldBody, Yield, OnCpu, Softyield, Goto, Busy, Stopped
  <2>2. ASSUME NEW h \in Guests PROVE JobOf(h)' = JobOf(h)
    <3>1. pc'[h] = pc[h] \/ {pc[h], pc'[h]} \cap {"idle", "dead"} = {}
      BY <1>1, <2>1 DEF Busy
    <3> QED
      BY <2>1, <3>1 DEF JobOf
  <2>3. \A h \in Guests : ReplyOf(h)' = ReplyOf(h)
    BY <2>1, SameReply
  <2> QED
    BY <2>1, <2>2, <2>3, Stuttering
<1> QED
  BY <1>2, <1>3, <1>4, ReturnSimulates DEF GuestSide, Step

LEMMA PathSimulates ==
    ASSUME RefInv, [PathNext]_vars
    PROVE  [Service!Next]_(Service!serviceVars)
<1>1. CASE UNCHANGED vars
  BY <1>1 DEF vars, hostVars, guestVars, JobOf, ReplyOf, Service!serviceVars
<1> QED
  BY <1>1, PathForms, HostSimulates, GuestSimulates

(* The three yields, the table, the callbacks and the polls together do    *)
(* what FetchService promises to the sessions: each request is fetched     *)
(* once, as asked, and answered with what the browser got for it, or with  *)
(* 400 only when it got nothing.                                           *)
THEOREM PathImplementsService == PathSpec => ImplementsService
<1>1. PathInit => Service!Init
  BY DEF PathInit, Init, Service!Init, Service!Idle, Service!NoReply, JobOf, ReplyOf, NoReply, Stopped
<1>2. RefInv /\ [PathNext]_vars => RefInv'
  BY RefInvStep
<1>3. RefInv /\ [PathNext]_vars => [Service!Next]_(Service!serviceVars)
  BY PathSimulates
<1> QED
  BY <1>1, <1>2, <1>3, RefInvInit, PTL DEF PathSpec, ImplementsService, Service!Spec
=============================================================================
