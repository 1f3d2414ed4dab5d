---------------------------- MODULE DnsResolver ----------------------------
(***************************************************************************)
(* What a resolver makes of the answer of build_dns_response: a reading of *)
(* DNS messages by their format (RFC 1035: header, all questions, then all *)
(* answers; names of labels, possibly ending in a pointer to an earlier    *)
(* name), written without looking at the code, and the answers a query     *)
(* ought to get by it.                                                     *)
(***************************************************************************)
EXTENDS DnsResponse

Malformed(b) == [labels |-> <<>>, next |-> Len(b) + 1]

(* The name at offset p of b.  A pointer leads to an earlier name that is  *)
(* itself written out.                                                     *)
Name(b, p) ==
    LET Broken(i, hops) ==
            IF b[i + 1] < 192 THEN i + b[i + 1] >= Len(b) ELSE hops = 0 \/ i + 1 >= Len(b)
        name[i \in Nat, hops \in 0..1] ==
            IF i >= Len(b) THEN Malformed(b)
            ELSE IF Broken(i, hops) THEN Malformed(b)
            ELSE IF b[i + 1] = 0 THEN [labels |-> <<>>, next |-> i + 1]
            ELSE IF b[i + 1] >= 192
            THEN [name[256 * (b[i + 1] - 192) + b[i + 2], hops - 1] EXCEPT !.next = i + 2]
            ELSE LET rest == name[i + b[i + 1] + 1, hops] IN
                 [rest EXCEPT !.labels = <<SubSeq(b, i + 2, i + b[i + 1] + 1)>> \o @]
    IN name[p, 1]

Word16(b, p) == 256 * b[p + 1] + b[p + 2]

(* One question or answer at offset p: what it says, and where it ends. *)
QuestionAt(b, p) ==
    LET n == Name(b, p) IN
    IF n.next + 4 > Len(b) THEN [is |-> <<>>, next |-> Len(b) + 1]
    ELSE [is |-> [name |-> n.labels, type |-> Word16(b, n.next), class |-> Word16(b, n.next + 2)],
          next |-> n.next + 4]

AnswerAt(b, p) ==
    LET n == QuestionAt(b, p)
        data == n.next + 6
        end == data + Word16(b, data - 2)
    IN IF data > Len(b) \/ end > Len(b) THEN [is |-> <<>>, next |-> Len(b) + 1]
       ELSE [is |-> [question |-> n.is, data |-> SubSeq(b, data + 1, end)], next |-> end]

(* count of them, one after the other. *)
List(b, start, count, ItemAt(_, _)) ==
    LET list[k \in Nat] ==
            IF k = 0 THEN [are |-> <<>>, next |-> start]
            ELSE LET before == list[k - 1]
                     item == ItemAt(b, before.next)
                 IN [are |-> Append(before.are, item.is), next |-> item.next]
    IN list[count]

Questions(b) == List(b, 12, Word16(b, 4), QuestionAt)
Answers(b) == List(b, Questions(b).next, Word16(b, 6), AnswerAt)

(* A query that a resolver sends: it is complete, and may be followed by   *)
(* additional records.                                                     *)
query == Copy(0, length)
Proper == length >= 12 /\ opcode = 0 /\ questions # 0 /\ Questions(query).next <= length

IsAddress(question) == question.type = 1 /\ question.class = 1
Asks == SelectSeq(Questions(query).are, IsAddress)
-----------------------------------------------------------------------------
(* "... resolves all domains to <address>" (usage): a query of one         *)
(* question, its name written out, is answered.  The reply repeats its     *)
(* number and the question, gives response_ip if that is for an address,   *)
(* holds nothing else and reads back in full.  A name is written out when  *)
(* none of its bytes could be taken for a pointer.                         *)
WrittenOut == \A i \in 13..(Questions(query).next - 4) : query[i] < 192

RepliesReadBack ==
    pc \in {"answered", "dropped"} /\ questions = 1 /\ Proper /\ WrittenOut =>
       /\ pc = "answered"
       /\ SubSeq(response, 1, 2) = SubSeq(query, 1, 2)
       /\ response[3] >= 128
       /\ Questions(response).are = Questions(query).are
       /\ Answers(response) =
             [are |-> [i \in 1..Len(Asks) |-> [question |-> Asks[i], data |-> ResponseIp]],
              next |-> Len(response)]

(* "Copy question section and add answers": the question section of the    *)
(* reply is that of the query.                                             *)
QuestionSectionCopied ==
    pc = "answered" /\ Proper => Questions(response).are = Questions(query).are
=============================================================================
