--------------------------- MODULE FetchHostProofs ---------------------------
(***************************************************************************)
(* Proofs about the host for every set of guests, cycle counts, requests   *)
(* and outcomes, and for every order in which guests may yield.            *)
(***************************************************************************)
EXTENDS FetchHost, TLAPS

(* Steps of main() and early returns: only the place in the program moves. *)
HostOnly == /\ host' \in Running \cup Stopped
            /\ host' = "handle" => host = "handle"
            /\ host' = "wait" => Handling(POLL_RESPONSE) /\ fetches[regs.a1] = "waiting"
            /\ UNCHANGED <<regs, mem, fetches, net>>

(* A yield whose buffer holds a request when the call is REQUEST. *)
GoodYield ==
    \E g \in Guests, u \in Uids, t \in Nat, c \in Contents :
        /\ t = REQUEST => c.req \in Reqs
        /\ Softyield(t, u, g, c)

(* A running guest writes its own buffer. *)
GuestWrites ==
    \E g \in Guests, c \in Contents :
        /\ host = "run"
        /\ mem' = [mem EXCEPT ![g] = c]
        /\ UNCHANGED <<host, regs, fetches, net>>

(* The forms a step can take as far as the state of the host is concerned. *)
HostForm ==
    \/ UNCHANGED hostVars
    \/ HostOnly
    \/ GoodYield
    \/ GuestWrites
    \/ RequestStart
    \/ PollRespond
    \/ BodyCopy
    \/ \E u \in Uids : Callback(u)

LEMMA MmioReqIsContents == \A r \in Reqs : MmioReq(r) \in Contents /\ MmioReq(r).req = r
  BY DEF Contents, MmioReq

LEMMA ZeroedIsContents == \A n \in Lengths : Zeroed(n) \in Contents
  BY DEF Contents

(* The steps of main() and of handle_softyield that only move the host. *)
LEMMA MainForms ==
    ASSUME TypeOK,
           \/ Slice \/ Halt \/ Resume \/ Fault \/ Off
           \/ PollWait \/ RequestDuplicate \/ PollUnknown
    PROVE  HostForm
  BY DEF TypeOK, HostForm, HostOnly, hostVars, Slice, Halt, Resume, Fault, Off, PollWait,
         RequestDuplicate, PollUnknown, ReturnEarly, Handling, Running, Stopped

LEMMA HandlerForms ==
    ASSUME TypeOK, HostStep
    PROVE  HostForm
<1>1. CASE Resume \/ PollWait \/ RequestDuplicate \/ PollUnknown
  BY <1>1, MainForms
<1>2. CASE RequestStart \/ PollRespond \/ BodyCopy
  BY <1>2 DEF HostForm
<1>3. QED
  BY <1>1, <1>2 DEF HostStep, handle_softyield

LEMMA GuestForms ==
    ASSUME AnyGuest
    PROVE  GoodYield
<1>1. PICK g \in Guests, u \in Uids :
        \/ \E r \in Reqs : Softyield(REQUEST, u, g, MmioReq(r))
        \/ \E t \in {INVALID, POLL_RESPONSE, POLL_RESPONSE_BODY} :
              Softyield(t, u, g, Zeroed(0))
  BY DEF AnyGuest
<1>2. CASE \E r \in Reqs : Softyield(REQUEST, u, g, MmioReq(r))
  BY <1>2, MmioReqIsContents DEF GoodYield, REQUEST
<1>3. CASE \E t \in {INVALID, POLL_RESPONSE, POLL_RESPONSE_BODY} :
              Softyield(t, u, g, Zeroed(0))
  <2>1. Zeroed(0) \in Contents
    BY ZeroedIsContents DEF Lengths
  <2>2. PICK t \in {INVALID, POLL_RESPONSE, POLL_RESPONSE_BODY} : Softyield(t, u, g, Zeroed(0))
    BY <1>3
  <2>3. t \in Nat /\ t # REQUEST
    BY DEF INVALID, REQUEST, POLL_RESPONSE, POLL_RESPONSE_BODY
  <2>4. QED
    BY <2>1, <2>2, <2>3 DEF GoodYield
<1>4. QED
  BY <1>1, <1>2, <1>3

LEMMA NextForms ==
    ASSUME TypeOK, [Next]_hostVars
    PROVE  HostForm
<1>1. CASE AnyGuest
  BY <1>1, GuestForms DEF HostForm
<1>2. CASE Slice \/ Halt \/ Fault \/ Off
  BY <1>2, MainForms
<1>3. CASE HostStep
  BY <1>3, HandlerForms
<1>4. CASE \E u \in Uids : Callback(u)
  BY <1>4 DEF HostForm
<1>5. CASE UNCHANGED hostVars
  BY <1>5 DEF HostForm
<1>6. QED
  BY <1>1, <1>2, <1>3, <1>4, <1>5 DEF Next
-----------------------------------------------------------------------------
LEMMA HostInvInit == Init => HostInv
<1> SUFFICES ASSUME Init PROVE HostInv
  OBVIOUS
<1>1. Zeroed(0) \in Contents
  BY ZeroedIsContents DEF Lengths
<1>2. TypeOK
  BY <1>1 DEF Init, TypeOK, Running
<1>3. QED
  BY <1>2 DEF Init, HostInv, TableTracksOpenFetches, WaitedFetchStays, Handling

(* Each form of step preserves the invariant. *)
LEMMA HostInvStep ==
    ASSUME HostInv, HostForm
    PROVE  HostInv'
<1> USE DEF HostInv, TypeOK
<1>1. CASE UNCHANGED hostVars
  BY <1>1 DEF hostVars, TableTracksOpenFetches, WaitedFetchStays, Tracked, Handling
<1>2. CASE HostOnly
  BY <1>2 DEF HostOnly, TableTracksOpenFetches, WaitedFetchStays, Tracked, Handling
<1>3. CASE GoodYield
  <2>1. PICK g \in Guests, u \in Uids, t \in Nat, c \in Contents :
          /\ t = REQUEST => c.req \in Reqs
          /\ Softyield(t, u, g, c)
    BY <1>3 DEF GoodYield
  <2>2. TypeOK'
    BY <2>1 DEF Softyield, Running
  <2>3. QED
    BY <2>1, <2>2 DEF Softyield, TableTracksOpenFetches, WaitedFetchStays, Handling
<1>4. CASE RequestStart
  <2>1. mem[regs.a2].req \in Reqs
    BY <1>4 DEF RequestStart
  <2>2. TypeOK'
    BY <1>4, <2>1 DEF RequestStart, ReturnOk, Running
  <2>3. TableTracksOpenFetches'
    BY <1>4, <2>1 DEF RequestStart, TableTracksOpenFetches
  <2>4. QED
    BY <1>4, <2>1, <2>2, <2>3 DEF RequestStart, ReturnOk, WaitedFetchStays, Handling
<1>5. CASE PollRespond
  <2>1. net[regs.a1].out \in Outcomes
    BY <1>5 DEF PollRespond, TableTracksOpenFetches
  <2>2. MmioRes(regs.a1, net[regs.a1].out) \in Contents
    BY <2>1 DEF Contents
  <2>3. mem' \in [Guests -> Contents]
    BY <1>5, <2>2 DEF PollRespond
  <2>4. regs' \in [a0 : Nat, a1 : Uids, a2 : Guests] /\ host' \in Running
    BY <1>5 DEF PollRespond, ReturnOk, Running
  <2>5. TypeOK'
    <3>1. CASE net[regs.a1].out.total = 0
      BY <1>5, <2>3, <2>4, <3>1 DEF PollRespond, CloseAndErase
    <3>2. CASE net[regs.a1].out.total # 0
      BY <1>5, <2>3, <2>4, <3>2 DEF PollRespond
    <3>3. QED
      BY <3>1, <3>2
  <2>6. TableTracksOpenFetches'
    BY <1>5 DEF PollRespond, CloseAndErase, TableTracksOpenFetches
  <2>7. QED
    BY <1>5, <2>5, <2>6 DEF PollRespond, CloseAndErase, ReturnOk, WaitedFetchStays, Handling
<1>6. CASE BodyCopy
  <2>1. net[regs.a1].out # NoOutcome => Body(regs.a1, net[regs.a1].out) \in Contents
    BY DEF Contents
  <2>2. TypeOK'
    BY <1>6, <2>1 DEF BodyCopy, CloseAndErase, ReturnOk, Running
  <2>3. TableTracksOpenFetches'
    BY <1>6 DEF BodyCopy, CloseAndErase, TableTracksOpenFetches
  <2>4. QED
    BY <1>6, <2>2, <2>3 DEF BodyCopy, CloseAndErase, ReturnOk, WaitedFetchStays, Handling
<1>7. ASSUME NEW u \in Uids, Callback(u) PROVE HostInv'
  <2>1. PICK o \in Outcomes : Settle(u, o) /\ SetDone(u) /\ UNCHANGED <<host, regs, mem>>
    BY <1>7 DEF Callback, on_fetch_success, on_fetch_error
  <2>2. fetches[u] = "waiting"
    BY <2>1 DEF Settle, TableTracksOpenFetches
  <2>3. TypeOK'
    BY <2>1 DEF Settle, SetDone
  <2>4. TableTracksOpenFetches'
    BY <2>1, <2>2 DEF Settle, SetDone, TableTracksOpenFetches
  <2>5. QED
    BY <2>1, <2>3, <2>4 DEF Settle, SetDone, WaitedFetchStays, Tracked, Handling
<1>8. CASE GuestWrites
  BY <1>8 DEF GuestWrites, TableTracksOpenFetches, WaitedFetchStays, Tracked, Handling
<1>9. QED
  BY <1>1, <1>2, <1>3, <1>4, <1>5, <1>6, <1>7, <1>8 DEF HostForm
-----------------------------------------------------------------------------
(* The invariant holds of every behaviour of the host. *)
THEOREM HostInvariant == Spec => []HostInv
<1>1. HostInv /\ [Next]_hostVars => HostInv'
  BY NextForms, HostInvStep DEF HostInv
<1>2. QED
  BY HostInvInit, <1>1, PTL DEF Spec

(* Type correctness of the host. *)
THEOREM TypeCorrect == Spec => []TypeOK
<1>1. HostInv => TypeOK
  BY DEF HostInv
<1>2. QED
  BY HostInvariant, <1>1, PTL

(* Whatever the guests ask for: no callback on a freed object, no use of a *)
(* closed fetch, no fetch lost by the table.                               *)
THEOREM TableSafe == Spec => []TableTracksOpenFetches
<1>1. HostInv => TableTracksOpenFetches
  BY DEF HostInv
<1>2. QED
  BY HostInvariant, <1>1, PTL

(* The iterator held across emscripten_sleep(4) points at a live entry. *)
THEOREM WaitSafe == Spec => []WaitedFetchStays
<1>1. HostInv => WaitedFetchStays
  BY DEF HostInv
<1>2. QED
  BY HostInvariant, <1>1, PTL

(* ... and no step taken during the sleep changes which entries there are. *)
THEOREM WaitStable == Spec => WaitKeepsTable
<1> DEFINE Kept == host = "wait" /\ host' = "wait"
                   => \A u \in Uids : (fetches'[u] = "absent") = (fetches[u] = "absent")
<1>1. HostInv /\ [Next]_hostVars => [Kept]_hostVars
  <2> SUFFICES ASSUME HostInv, HostForm, host = "wait", host' = "wait"
               PROVE  \A u \in Uids : (fetches'[u] = "absent") = (fetches[u] = "absent")
    BY NextForms DEF HostInv
  <2>1. CASE UNCHANGED hostVars \/ HostOnly
    BY <2>1 DEF hostVars, HostOnly
  <2>2. CASE GoodYield \/ GuestWrites \/ RequestStart \/ PollRespond \/ BodyCopy
    BY <2>2 DEF GoodYield, GuestWrites, Softyield, RequestStart, PollRespond, BodyCopy, ReturnOk
  <2>3. ASSUME NEW u \in Uids, Callback(u)
        PROVE  \A v \in Uids : (fetches'[v] = "absent") = (fetches[v] = "absent")
    BY <2>3 DEF Callback, on_fetch_success, on_fetch_error, SetDone, HostInv, TypeOK
  <2>4. QED
    BY <2>1, <2>2, <2>3 DEF HostForm
<1>2. QED
  BY HostInvariant, <1>1, PTL DEF Spec, WaitKeepsTable
=============================================================================
