---------------------------- MODULE DnsResponse ----------------------------
(***************************************************************************)
(* build_dns_response of https-proxy.cpp: from the bytes of a DNS message  *)
(* to the bytes of the answer, or to no answer.  The function is modelled  *)
(* as the walk over the message that it is: pos moves over the header, the *)
(* labels of a name, the type and class, question after question.  The     *)
(* buffer is longer than the message, and what follows the message in it   *)
(* is left from before: "read" remembers which bytes a step looked at.     *)
(***************************************************************************)
EXTENDS Integers, Sequences

CONSTANTS
    BufferSize,   \* of recv_buffer_: 512 for UDP, and for TCP after the length
    Messages,     \* what arrives: [bytes |-> the buffer, length |-> bytes received]
    ResponseIp    \* response_ip, most significant byte first

Byte == 0..255

ASSUME BufferSizeAssumption == BufferSize \in 12..512
ASSUME MessagesAssumption ==
    Messages \subseteq [bytes : [0..(BufferSize - 1) -> Byte], length : 0..BufferSize]
ASSUME ResponseIpAssumption == ResponseIp \in [1..4 -> Byte]

VARIABLES
    message,        \* query_buffer and length
    pc,             \* where the function is
    pos,
    question_start,
    q,              \* questions done
    answer_count,
    response,
    read            \* the indexes of query_buffer the last step read

vars == <<message, pc, pos, question_start, q, answer_count, response, read>>

(* pos and the response's bytes stay numbers of their C types.             *)
TypeOK ==
    /\ message \in [bytes : [0..(BufferSize - 1) -> Byte], length : 0..BufferSize]
    /\ pc \in {"header", "question", "name", "type", "answered", "dropped"}
    /\ pos \in Nat /\ question_start \in Nat
    /\ q \in Nat /\ answer_count \in Nat
    /\ response \in Seq(Byte)
    /\ read \subseteq 0..(BufferSize - 1)

Init ==
    /\ message \in Messages
    /\ pc = "header"
    /\ pos = 0 /\ question_start = 0
    /\ q = 0 /\ answer_count = 0
    /\ response = <<>>
    /\ read = {}
-----------------------------------------------------------------------------
length == message.length
At(i) == message.bytes[i]
Word(i) == 256 * At(i) + At(i + 1)
Copy(from, to) == [i \in 1..(to - from) |-> At(from + i - 1)]
High(n) == (n \div 256) % 256
Low(n) == n % 256

opcode == (At(2) \div 8) % 16
questions == Word(4)

(* return {} *)
Drop == /\ pc' = "dropped"
        /\ response' = <<>>
        /\ UNCHANGED <<message, pos, question_start, q, answer_count>>

(* Only a standard query with a question is answered; the header is copied *)
(* with the flags of a reply and the three record counts cleared.          *)
RefuseHeader ==
    /\ pc = "header"
    /\ opcode # 0 \/ questions = 0
    /\ read' = 2..5
    /\ Drop

Header ==
    /\ pc = "header"
    /\ opcode = 0 /\ questions # 0
    /\ read' = 0..11
    /\ response' = Copy(0, 2) \o <<129, 128>> \o Copy(4, 6) \o <<0, 0, 0, 0, 0, 0>>
    /\ pos' = 12
    /\ pc' = "question"
    /\ UNCHANGED <<message, question_start, q, answer_count>>

Question ==
    /\ pc = "question"
    /\ q < questions /\ pos < length
    /\ question_start' = pos
    /\ pc' = "name"
    /\ read' = {}
    /\ UNCHANGED <<message, pos, q, answer_count, response>>

(* No more questions: the number of answers goes into the header. *)
Finish ==
    /\ pc = "question"
    /\ q >= questions \/ pos >= length
    /\ response' = [response EXCEPT ![7] = High(answer_count), ![8] = Low(answer_count)]
    /\ pc' = "answered"
    /\ read' = {}
    /\ UNCHANGED <<message, pos, question_start, q, answer_count>>
-----------------------------------------------------------------------------
MoveTo(p, there) ==
    /\ pos' = p /\ pc' = there
    /\ UNCHANGED <<message, question_start, q, answer_count, response>>

OnLabel == pc = "name" /\ pos < length /\ At(pos) # 0

MutLabelLen == IF At(pos) < 128 THEN At(pos) ELSE At(pos) - 256
label_len == At(pos)

Label ==
    /\ OnLabel /\ label_len < 192
    /\ read' = {pos}
    /\ IF pos + label_len + 1 >= length THEN Drop ELSE MoveTo(pos + label_len + 1, "name")

(* A pointer ends the name. *)
MutPointer ==
    /\ OnLabel /\ label_len >= 192
    /\ read' = {pos}
    /\ MoveTo(pos, "name")
Pointer ==
    /\ OnLabel /\ label_len >= 192
    /\ read' = {pos}
    /\ MoveTo(pos + 2, "type")

NameEnds ==
    /\ pc = "name"
    /\ pos >= length \/ At(pos) = 0
    /\ read' = {pos} \cap 0..(length - 1)
    /\ MoveTo(pos, "type")

(* The byte after the name is skipped when it is zero, whatever ended the  *)
(* name.                                                                   *)
MutAfterName == pos
AfterName == IF pos < length /\ At(pos) = 0 THEN pos + 1 ELSE pos

MutCut == AfterName + 3 > length
Cut == AfterName + 4 > length

NoType ==
    /\ pc = "type"
    /\ Cut
    /\ read' = {pos} \cap 0..(length - 1)
    /\ Drop

(* An A record: its name is a pointer to the question in the response, of  *)
(* which one byte is kept.                                                 *)
Answer == <<192, Low(Len(response)), 0, 1, 0, 1, 0, 0, 0, 60, 0, 4>> \o ResponseIp

Asked == Word(AfterName) = 1 /\ Word(AfterName + 2) = 1

MutNextQuestion == question_start
NextQuestion == AfterName + 4

Type ==
    /\ pc = "type"
    /\ ~Cut
    /\ read' = {pos} \cup AfterName..(AfterName + 3)
    /\ response' = response \o Copy(question_start, AfterName + 4)
                            \o (IF Asked THEN Answer ELSE <<>>)
    /\ answer_count' = IF Asked THEN answer_count + 1 ELSE answer_count
    /\ pos' = NextQuestion
    /\ q' = q + 1
    /\ pc' = "question"
    /\ UNCHANGED <<message, question_start>>

Step == \/ RefuseHeader \/ Header \/ Question \/ Finish
        \/ Label \/ Pointer \/ NameEnds \/ NoType \/ Type

Returned == pc \in {"answered", "dropped"} /\ UNCHANGED vars

Next == Step \/ Returned

Spec == Init /\ [][Next]_vars

(* The function runs to its end: nothing in it waits. *)
FairSpec == Spec /\ WF_vars(Step)
-----------------------------------------------------------------------------
(* Whatever arrives, no byte beyond the message is looked at, and none of  *)
(* the message's labels, pointers or counts leads outside.  Only a message *)
(* shorter than a header, which the UDP server refuses and the TCP server  *)
(* does not, has the rest of its header read from the buffer.              *)
HeaderOr(n) == IF n < 12 THEN 12 ELSE n
ReadsInMessage == read \subseteq 0..(HeaderOr(length) - 1)

(* An answer is 16 bytes and a question at least 5: the longest response   *)
(* is bounded by the buffer, not by the number of questions the header     *)
(* claims, and its length fits the 16 bits that precede it over TCP.       *)
Longest == BufferSize + 16 * ((BufferSize - 12) \div 5)
ResponseFits == Len(response) <= Longest

(* The walk ends, whatever the labels and pointers are. *)
Terminates == <>(pc \in {"answered", "dropped"})
=============================================================================
