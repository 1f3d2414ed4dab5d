--------------------------- MODULE MCDnsResolver ---------------------------
(***************************************************************************)
(* Small instances of the DNS answer: queries as resolvers send them, and  *)
(* every body of up to seven bytes over an alphabet that makes ends of       *)
(* names, labels, pointers, types and classes, cut at every length.        *)
(***************************************************************************)
EXTENDS DnsResolver

MCResponseIp == <<127, 254, 254, 254>>

(* What follows the message in the buffer is left from before. *)
Stale == 1
Buffer(s) == [i \in 0..(BufferSize - 1) |-> IF i < Len(s) THEN s[i + 1] ELSE Stale]

HeaderBytes(opcodeByte, qdcount) ==
    <<7, 9, opcodeByte, 0, High(qdcount), Low(qdcount), 0, 0, 0, 0, 0, 1>>

Query(qdcount, body) == [bytes |-> Buffer(HeaderBytes(1, qdcount) \o body), length |-> 12 + Len(body)]
-----------------------------------------------------------------------------
(* 0 ends a name, 1 is a short label and the low byte of A and of IN, 192  *)
(* starts a pointer.                                                       *)
Alphabet == {0, 1, 192}
MaxBody == 7

Bodies == UNION {[1..n -> Alphabet] : n \in 0..MaxBody}

Whole == {Query(n, b) : n \in {1, 2, 65535}, b \in Bodies}
Refused == {[bytes |-> Buffer(HeaderBytes(o, n)), length |-> 12] : o \in {1, 8}, n \in {0, 1}}
(* Over TCP a message may be shorter than a header. *)
Short == {[bytes |-> [i \in 0..(BufferSize - 1) |-> IF i < n THEN 1 ELSE 0],
           length |-> n] : n \in 0..11}
-----------------------------------------------------------------------------
a == <<1, 97>>
bc == <<2, 98, 99>>
Names == {<<0>>} \cup {l \o <<0>> : l \in {a, bc}}
         \cup {l \o m \o <<0>> : l \in {a, bc}, m \in {a, bc}}

(* A, NS, AAAA and CAA, whose low byte is A's; IN and CH. *)
Types == {<<0, 1>>, <<0, 2>>, <<0, 28>>, <<1, 1>>}
Classes == {<<0, 1>>, <<0, 3>>}

Plain == {n \o t \o c : n \in Names, t \in Types, c \in Classes}

(* An OPT record, as most resolvers add, or nothing. *)
Additional == {<<>>, <<0, 0, 41, 2, 0, 0, 0, 0, 0, 0, 0>>}

OneQuestion == {Query(1, s \o x) : s \in Plain, x \in Additional}

MCMessages == Whole \cup Refused \cup Short \cup OneQuestion

address == <<0, 1, 0, 1>>
TwoQuestions == {Query(2, a \o n \o address \o bc \o n \o address) : n \in {<<0>>, a \o <<0>>}}
=============================================================================
