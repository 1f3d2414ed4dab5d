------------------------------ MODULE DnsProofs ------------------------------
(***************************************************************************)
(* Theorems about the DNS service: about build_dns_response for every      *)
(* message, not only those of the small alphabet that TLC enumerates;      *)
(* about DnsUdp, for any number of resolvers, any other datagrams and a    *)
(* queue of any length; and about DnsTcp, for any number of connections,   *)
(* any lengths and any buffer.                                             *)
(***************************************************************************)
EXTENDS DnsResponse, DnsUdp, DnsTcp, Functions, FiniteSetTheorems, SequenceTheorems, TLAPS

(* Where pos is between the questions, and what has been written by then:  *)
(* every byte of the message so far, and 16 bytes for each answer.         *)
BetweenQuestions ==
    pc = "question" =>
       /\ pos \in 12..HeaderOr(length)
       /\ 5 * q <= pos - 12
       /\ Len(response) = pos + 16 * answer_count

(* Inside a question, pos is ahead of its start, or the byte there is a 0  *)
(* that will be skipped: a question takes at least 5 bytes.                *)
InQuestion ==
    pc \in {"name", "type"} =>
       /\ question_start \in 12..(length - 1)
       /\ pos >= question_start
       /\ 5 * q <= question_start - 12
       /\ Len(response) = question_start + 16 * answer_count
       /\ pc = "name" => pos < length
       /\ pc = "type" => pos > question_start \/ (pos < length /\ At(pos) = 0)

Walk ==
    /\ BetweenQuestions /\ InQuestion
    /\ answer_count <= q
    /\ pc = "header" => q = 0 /\ answer_count = 0 /\ response = <<>>
    /\ pc = "answered" =>
          \E p \in 12..HeaderOr(length) :
             5 * q <= p - 12 /\ Len(response) = p + 16 * answer_count
    /\ pc = "dropped" => response = <<>>

Inv == TypeOK /\ ReadsInMessage /\ Walk
-----------------------------------------------------------------------------
(* The bytes of the buffer between two offsets, as a sequence. *)
LEMMA CopyType ==
    ASSUME TypeOK, NEW from \in Nat, NEW to \in Nat, from <= to, to <= BufferSize
    PROVE  Copy(from, to) \in Seq(Byte) /\ Len(Copy(from, to)) = to - from
<1>1. to - from \in Nat
  OBVIOUS
<1>2. \A i \in 1..(to - from) : At(from + i - 1) \in Byte
  <2> TAKE i \in 1..(to - from)
  <2>1. from + i - 1 \in 0..(BufferSize - 1)
    BY BufferSizeAssumption
  <2> QED
    BY <2>1 DEF TypeOK, At
<1>3. Copy(from, to) \in [1..(to - from) -> Byte]
  BY <1>2 DEF Copy
<1>4. Copy(from, to) \in Seq(Byte)
  BY <1>1, <1>3, SeqDef
<1>5. DOMAIN Copy(from, to) = 1..(to - from)
  BY DEF Copy
<1>6. QED
  BY <1>1, <1>4, <1>5, LenProperties

LEMMA BytesConcat ==
    \A s, t \in Seq(Byte) : s \o t \in Seq(Byte) /\ Len(s \o t) = Len(s) + Len(t)
  BY ConcatProperties

LEMMA AnswerType ==
    ASSUME TypeOK
    PROVE  Answer \in Seq(Byte) /\ Len(Answer) = 16
<1> DEFINE fixed == <<192, Low(Len(response)), 0, 1, 0, 1, 0, 0, 0, 60, 0, 4>>
<1>1. Low(Len(response)) \in Byte
  <2>1. Len(response) \in Nat
    BY LenProperties DEF TypeOK
  <2>2. \A n \in Nat : n % 256 \in 0..255
    OBVIOUS
  <2> QED
    BY <2>1, <2>2 DEF Low, Byte
<1>2. fixed \in Seq(Byte) /\ Len(fixed) = 12
  BY <1>1 DEF Byte
<1>3. ResponseIp \in Seq(Byte) /\ Len(ResponseIp) = 4
  <2>1. ResponseIp \in Seq(Byte)
    BY ResponseIpAssumption, SeqDef
  <2>2. QED
    BY <2>1, ResponseIpAssumption, LenProperties
<1>4. Answer = fixed \o ResponseIp
  BY DEF Answer
<1> HIDE DEF fixed
<1>5. Answer \in Seq(Byte) /\ Len(Answer) = Len(fixed) + Len(ResponseIp)
  BY <1>2, <1>3, <1>4, BytesConcat, Zenon
<1>6. QED
  BY <1>2, <1>3, <1>5

(* The longest response, when at most that many questions have been read.  *)
LEMMA LengthBound ==
    ASSUME NEW p \in 12..BufferSize, NEW n \in Nat, NEW m \in Nat,
           5 * n <= p - 12, m <= n
    PROVE  p + 16 * m <= Longest
<1>1. BufferSize \in Nat /\ BufferSize >= 12
  BY BufferSizeAssumption
<1>2. 5 * m <= BufferSize - 12
  BY <1>1
<1> DEFINE d == (BufferSize - 12) \div 5
<1>3. d \in Nat /\ BufferSize - 12 < 5 * d + 5
  BY <1>1
<1> HIDE DEF d
<1>4. m <= d
  BY <1>2, <1>3, <1>1
<1>5. p + 16 * m <= BufferSize + 16 * d
  BY <1>4, <1>3, <1>1
<1>6. QED
  BY <1>5 DEF Longest, d
-----------------------------------------------------------------------------
LEMMA InitInv == Init => Inv
  BY MessagesAssumption, EmptySeq
  DEF Init, Inv, TypeOK, ReadsInMessage, Walk, BetweenQuestions, InQuestion, HeaderOr, length

LEMMA DropInv ==
    ASSUME Inv, Drop, read' \subseteq 0..(HeaderOr(length) - 1)
    PROVE  Inv'
<1>1. HeaderOr(length) <= BufferSize
  BY BufferSizeAssumption DEF Inv, TypeOK, HeaderOr, length
<1>2. TypeOK'
  BY <1>1, EmptySeq, BufferSizeAssumption DEF Inv, TypeOK, Drop, HeaderOr, length
<1>3. QED
  BY <1>2 DEF Inv, TypeOK, Drop, ReadsInMessage, Walk, BetweenQuestions, InQuestion, HeaderOr, length

LEMMA HeaderInv == Inv /\ Header => Inv'
<1> SUFFICES ASSUME Inv, Header PROVE Inv'
  OBVIOUS
<1> USE BufferSizeAssumption
<1>1. TypeOK
  BY DEF Inv
<1> DEFINE first == Copy(0, 2)
           flags == <<129, 128>>
           count == Copy(4, 6)
           zeros == <<0, 0, 0, 0, 0, 0>>
<1>2. /\ first \in Seq(Byte) /\ Len(first) = 2
      /\ count \in Seq(Byte) /\ Len(count) = 2
  <2>1. 0 <= 2 /\ 2 <= BufferSize /\ 4 <= 6 /\ 6 <= BufferSize
    OBVIOUS
  <2>2. first \in Seq(Byte) /\ Len(first) = 2 - 0
    BY <1>1, <2>1, CopyType
  <2>3. count \in Seq(Byte) /\ Len(count) = 6 - 4
    BY <1>1, <2>1, CopyType
  <2>4. QED
    BY <2>2, <2>3
<1>3. /\ flags \in Seq(Byte) /\ Len(flags) = 2
      /\ zeros \in Seq(Byte) /\ Len(zeros) = 6
  BY DEF Byte
<1>4. response' = first \o flags \o count \o zeros
  BY DEF Header
<1> HIDE DEF first, flags, count, zeros
<1>5. response' \in Seq(Byte) /\ Len(response') = 12
  <2>1. first \o flags \in Seq(Byte) /\ Len(first \o flags) = Len(first) + Len(flags)
    BY <1>2, <1>3, BytesConcat, Zenon
  <2>2. /\ first \o flags \o count \in Seq(Byte)
        /\ Len(first \o flags \o count) = Len(first \o flags) + Len(count)
    BY <2>1, <1>2, BytesConcat, Zenon
  <2>3. /\ response' \in Seq(Byte)
        /\ Len(response') = Len(first \o flags \o count) + Len(zeros)
    BY <2>2, <1>3, <1>4, BytesConcat, Zenon
  <2>4. QED
    BY <1>2, <1>3, <2>1, <2>2, <2>3
<1>6. pos' = 12 /\ pc' = "question" /\ read' = 0..11 /\ UNCHANGED <<message, question_start, q, answer_count>>
  BY DEF Header
<1>7. q = 0 /\ answer_count = 0 /\ length \in 0..BufferSize
  BY DEF Header, Inv, TypeOK, Walk, length
<1>8. TypeOK'
  BY <1>5, <1>6 DEF Inv, TypeOK
<1>9. QED
  BY <1>5, <1>6, <1>7, <1>8
  DEF Inv, TypeOK, ReadsInMessage, Walk, BetweenQuestions, InQuestion, HeaderOr, length

LEMMA QuestionInv == Inv /\ Question => Inv'
  BY BufferSizeAssumption
  DEF Inv, TypeOK, Question, ReadsInMessage, Walk, BetweenQuestions, InQuestion, HeaderOr, length

LEMMA FinishInv == Inv /\ Finish => Inv'
<1> SUFFICES ASSUME Inv, Finish PROVE Inv'
  OBVIOUS
<1>1. Len(response) \in Nat /\ Len(response) >= 12
  BY LenProperties DEF Inv, TypeOK, Walk, BetweenQuestions, Finish
<1>2. High(answer_count) \in Byte /\ Low(answer_count) \in Byte
  BY DEF Inv, TypeOK, High, Low, Byte
<1>3. /\ [response EXCEPT ![7] = High(answer_count)] \in Seq(Byte)
      /\ Len([response EXCEPT ![7] = High(answer_count)]) = Len(response)
  BY <1>1, <1>2, ExceptSeq DEF Inv, TypeOK
<1>4. response' \in Seq(Byte) /\ Len(response') = Len(response)
  BY <1>1, <1>2, <1>3, ExceptSeq DEF Finish
<1>5. QED
  BY <1>4 DEF Inv, TypeOK, Finish, ReadsInMessage, Walk, BetweenQuestions, InQuestion, HeaderOr, length

(* The steps over a name read the byte at pos and nothing else. *)
LEMMA NameInv == Inv /\ (Label \/ Pointer \/ NameEnds) => Inv'
<1> SUFFICES ASSUME Inv, Label \/ Pointer \/ NameEnds PROVE Inv'
  OBVIOUS
<1>1. /\ pc = "name" /\ pos \in Nat /\ pos < length /\ length \in 0..BufferSize
      /\ At(pos) \in Byte
  BY BufferSizeAssumption
  DEF Inv, TypeOK, Walk, InQuestion, Label, Pointer, NameEnds, OnLabel, At, length
<1>2. CASE Drop
  <2>1. read' \subseteq 0..(HeaderOr(length) - 1)
    BY <1>1 DEF Label, Pointer, NameEnds, HeaderOr, length, Drop, MoveTo
  <2>2. QED
    BY <2>1, <1>2, DropInv
<1>3. CASE ~Drop
  <2>1. /\ read' \subseteq 0..(length - 1)
        /\ \/ \E p \in Nat : p > pos /\ p < length /\ MoveTo(p, "name")
           \/ MoveTo(pos + 2, "type")
           \/ At(pos) = 0 /\ MoveTo(pos, "type")
    BY <1>1, <1>3 DEF Label, Pointer, NameEnds, label_len, OnLabel, Byte
  <2>2. /\ TypeOK' /\ ReadsInMessage'
        /\ UNCHANGED <<message, question_start, q, answer_count, response>>
        /\ pos' \in Nat /\ pos' >= pos /\ pc' \in {"name", "type"}
    <3>1. UNCHANGED <<message, question_start, q, answer_count, response>> /\ pc' \in {"name", "type"}
      BY <2>1 DEF MoveTo
    <3>2. pos' \in Nat /\ pos' >= pos
      BY <1>1, <2>1 DEF MoveTo
    <3>3. read' \subseteq 0..(HeaderOr(length) - 1) /\ read' \subseteq 0..(BufferSize - 1)
      BY <1>1, <2>1, BufferSizeAssumption DEF HeaderOr
    <3>4. TypeOK'
      BY <3>1, <3>2, <3>3 DEF Inv, TypeOK
    <3>5. ReadsInMessage'
      BY <3>1, <3>3 DEF ReadsInMessage, HeaderOr, length
    <3> QED
      BY <3>1, <3>2, <3>4, <3>5
  <2>3. /\ pc' = "name" => pos' < length
        /\ pc' = "type" => pos' > pos \/ (pos' = pos /\ At(pos) = 0)
    BY <1>1, <2>1 DEF MoveTo
  <2>4. /\ question_start \in 12..(length - 1) /\ pos >= question_start
        /\ 5 * q <= question_start - 12
        /\ Len(response) = question_start + 16 * answer_count /\ answer_count <= q
    BY <1>1 DEF Inv, Walk, InQuestion
  <2>5. Walk'
    BY <1>1, <2>2, <2>3, <2>4 DEF Walk, BetweenQuestions, InQuestion, At, length
  <2>6. QED
    BY <2>2, <2>5 DEF Inv
<1>4. QED
  BY <1>2, <1>3

LEMMA AfterNameRange ==
    ASSUME Inv, pc = "type"
    PROVE  AfterName \in Nat /\ AfterName > question_start /\ AfterName <= pos + 1
  BY DEF Inv, TypeOK, Walk, InQuestion, AfterName, length

LEMMA NoTypeInv == Inv /\ NoType => Inv'
<1> SUFFICES ASSUME Inv, NoType PROVE Inv'
  OBVIOUS
<1>1. read' \subseteq 0..(HeaderOr(length) - 1)
  BY DEF Inv, TypeOK, NoType, HeaderOr, length
<1>2. QED
  BY <1>1, DropInv DEF NoType

LEMMA TypeInv == Inv /\ Type => Inv'
<1> SUFFICES ASSUME Inv, Type PROVE Inv'
  OBVIOUS
<1>1. /\ AfterName \in Nat /\ AfterName > question_start /\ AfterName >= pos
      /\ AfterName + 4 <= length /\ length \in 0..BufferSize
      /\ pos \in Nat /\ question_start \in Nat
  BY AfterNameRange DEF Inv, TypeOK, Type, Cut, AfterName, length
<1>2. /\ Copy(question_start, AfterName + 4) \in Seq(Byte)
      /\ Len(Copy(question_start, AfterName + 4)) = AfterName + 4 - question_start
  BY <1>1, CopyType, BufferSizeAssumption DEF Inv
<1>3. response \in Seq(Byte) /\ Len(response) = question_start + 16 * answer_count
  BY DEF Inv, TypeOK, Type, Walk, InQuestion
<1>4. /\ response \o Copy(question_start, AfterName + 4) \in Seq(Byte)
      /\ Len(response \o Copy(question_start, AfterName + 4))
            = AfterName + 4 + 16 * answer_count
  <2>1. answer_count \in Nat
    BY DEF Inv, TypeOK
  <2>2. QED
    BY <1>1, <1>2, <1>3, <2>1, BytesConcat
<1>5. /\ response' \in Seq(Byte) /\ answer_count' \in Nat /\ answer_count' <= q + 1
      /\ Len(response') = AfterName + 4 + 16 * answer_count'
  <2>1. answer_count \in Nat /\ q \in Nat /\ answer_count <= q
    BY DEF Inv, TypeOK, Walk
  <2>2. CASE Asked
    <3> DEFINE written == response \o Copy(question_start, AfterName + 4)
    <3>1. response' = written \o Answer /\ answer_count' = answer_count + 1
      BY <2>2 DEF Type
    <3>2. Answer \in Seq(Byte) /\ Len(Answer) = 16
      BY AnswerType DEF Inv
    <3>3. written \in Seq(Byte) /\ Len(written) = AfterName + 4 + 16 * answer_count
      BY <1>4
    <3> HIDE DEF written
    <3>4. response' \in Seq(Byte) /\ Len(response') = Len(written) + Len(Answer)
      BY <3>1, <3>2, <3>3, BytesConcat, Zenon
    <3>5. QED
      BY <1>1, <2>1, <3>1, <3>2, <3>3, <3>4
  <2>3. CASE ~Asked
    <3>1. /\ response' = response \o Copy(question_start, AfterName + 4) \o <<>>
          /\ answer_count' = answer_count
      BY <2>3 DEF Type
    <3>2. response' = response \o Copy(question_start, AfterName + 4)
      BY <3>1, <1>4, ConcatEmptySeq
    <3>3. QED
      BY <3>1, <3>2, <1>4, <2>1
  <2>4. QED
    BY <2>2, <2>3
<1>6. 5 * q <= question_start - 12 /\ question_start >= 12 /\ pos < length
  BY <1>1 DEF Inv, Walk, InQuestion, Type, length
<1>7. read' \subseteq 0..(length - 1)
  BY <1>1, <1>6 DEF Type
<1>8. pos' = AfterName + 4 /\ q' = q + 1 /\ pc' = "question" /\ UNCHANGED <<message, question_start>>
  BY DEF Type, NextQuestion
<1>9. TypeOK'
  <2>1. read' \subseteq 0..(BufferSize - 1) /\ q' \in Nat /\ pos' \in Nat
    BY <1>1, <1>7, <1>8, BufferSizeAssumption DEF Inv, TypeOK
  <2>2. QED
    BY <1>1, <1>5, <1>8, <2>1 DEF Inv, TypeOK
<1>10. QED
  BY <1>1, <1>5, <1>6, <1>7, <1>8, <1>9
  DEF Inv, TypeOK, ReadsInMessage, Walk, BetweenQuestions, InQuestion, HeaderOr, length

LEMMA NextInv == Inv /\ [Next]_vars => Inv'
<1> SUFFICES ASSUME Inv, [Next]_vars PROVE Inv'
  OBVIOUS
<1>1. CASE RefuseHeader
  <2>1. read' \subseteq 0..(HeaderOr(length) - 1)
    BY <1>1 DEF Inv, TypeOK, RefuseHeader, HeaderOr, length
  <2>2. QED
    BY <1>1, <2>1, DropInv DEF RefuseHeader
<1>2. CASE UNCHANGED vars
  BY <1>2 DEF vars, Inv, TypeOK, ReadsInMessage, Walk, BetweenQuestions, InQuestion, HeaderOr, length, At
<1>3. CASE Returned
  BY <1>2, <1>3 DEF Returned
<1>4. QED
  BY <1>1, <1>2, <1>3, HeaderInv, QuestionInv, FinishInv, NameInv, NoTypeInv, TypeInv
  DEF Next, Step

LEMMA Invariance == Spec => []Inv
<1>1. QED
  BY InitInv, NextInv, PTL DEF Spec
-----------------------------------------------------------------------------
(* How many steps the walk can still take: at one offset it asks for a     *)
(* question, reads a name and then a type, and every turn of the two loops *)
(* moves pos forward.  A pointer at the end of the message leads one byte  *)
(* behind it, and no further.                                              *)
Phase == IF pc = "question" THEN 2 ELSE IF pc = "name" THEN 1 ELSE 0

StepsLeft ==
    IF pc \in {"answered", "dropped"} THEN 0
    ELSE IF pc = "header" THEN 3 * BufferSize
    ELSE 3 * (BufferSize + 2 - pos) + Phase

PosNear == pc = "type" => pos <= length + 1

LEMMA PosNearStep == Inv /\ PosNear /\ [Next]_vars => PosNear'
<1> SUFFICES ASSUME Inv, PosNear, [Next]_vars, pc' = "type" PROVE pos' <= length' + 1
  BY DEF PosNear
<1>1. CASE Pointer \/ NameEnds
  <2>1. pc = "name" /\ pos < length /\ pos \in Nat /\ length \in Nat
    BY <1>1, BufferSizeAssumption DEF Inv, TypeOK, Walk, InQuestion, Pointer, NameEnds, OnLabel, length
  <2>2. length' = length /\ pos' \in {pos, pos + 2}
    BY <1>1 DEF Pointer, NameEnds, MoveTo, length
  <2> QED
    BY <2>1, <2>2
<1>2. CASE UNCHANGED vars
  BY <1>2 DEF vars, PosNear, length
<1> QED
  BY <1>1, <1>2 DEF Next, Step, Returned, RefuseHeader, Header, Question, Finish, Label, NoType,
                    Type, Drop, MoveTo

LEMMA WalkStep == Inv /\ PosNear /\ Step => StepsLeft' \in Nat /\ StepsLeft' < StepsLeft
<1> SUFFICES ASSUME Inv, PosNear, Step PROVE StepsLeft' \in Nat /\ StepsLeft' < StepsLeft
  OBVIOUS
<1>1. /\ BufferSize \in Nat /\ BufferSize >= 12 /\ length \in 0..BufferSize /\ pos \in Nat
      /\ HeaderOr(length) \in 12..BufferSize
  BY BufferSizeAssumption DEF Inv, TypeOK, length, HeaderOr
<1>2. pc \in {"question", "name", "type"} => pos <= BufferSize + 1
  BY <1>1 DEF Inv, Walk, BetweenQuestions, InQuestion, PosNear
<1>3. pc \notin {"answered", "dropped"}
  BY DEF Step, RefuseHeader, Header, Question, Finish, Label, Pointer, NameEnds, NoType, Type, OnLabel
<1>4. StepsLeft \in Nat \ {0}
  <2>1. CASE pc = "header"
    BY <1>1, <2>1 DEF StepsLeft
  <2>2. CASE pc # "header"
    <3>1. pc \in {"question", "name", "type"}
      BY <1>3, <2>2 DEF Inv, TypeOK
    <3> QED
      BY <1>1, <1>2, <3>1 DEF StepsLeft, Phase
  <2> QED
    BY <2>1, <2>2
<1>5. CASE pc' \in {"answered", "dropped"}
  BY <1>4, <1>5 DEF StepsLeft
<1>6. CASE Header
  <2>1. pc = "header" /\ pc' = "question" /\ pos' = 12
    BY <1>6 DEF Header
  <2> QED
    BY <1>1, <2>1 DEF StepsLeft, Phase
<1>7. CASE Question
  <2>1. pc = "question" /\ pc' = "name" /\ pos' = pos /\ pos <= BufferSize + 1
    BY <1>2, <1>7 DEF Question
  <2> QED
    BY <1>1, <2>1 DEF StepsLeft, Phase
<1>8. CASE (Label \/ Pointer \/ NameEnds) /\ ~ Drop
  <2>1. pc = "name" /\ pos < length /\ At(pos) \in Byte
    BY <1>1, <1>8, BufferSizeAssumption
    DEF Inv, TypeOK, Walk, InQuestion, Label, Pointer, NameEnds, OnLabel, At, length
  <2>2. \/ pc' = "name" /\ pos' \in Nat /\ pos' > pos /\ pos' < length
        \/ pc' = "type" /\ pos' \in {pos, pos + 2}
    BY <1>1, <1>8, <2>1 DEF Label, Pointer, NameEnds, MoveTo, label_len, OnLabel, Byte
  <2> QED
    BY <1>1, <2>1, <2>2 DEF StepsLeft, Phase
<1>9. CASE Type
  <2>1. pc = "type" /\ pc' = "question" /\ pos' = AfterName + 4 /\ AfterName + 4 <= length
    BY <1>1, <1>9, AfterNameRange DEF Type, NextQuestion, Cut
  <2>2. AfterName \in {pos, pos + 1}
    BY DEF AfterName
  <2> QED
    BY <1>1, <2>1, <2>2 DEF StepsLeft, Phase
<1> QED
  BY <1>5, <1>6, <1>7, <1>8, <1>9
  DEF Step, RefuseHeader, Finish, NoType, Drop

(* Every step of build_dns_response brings its end nearer: no label, no    *)
(* pointer and no count of questions makes a loop run on, whatever the     *)
(* message is, and the walk takes at most three steps for each byte of the *)
(* buffer.                                                                 *)
THEOREM WalkDescends == Spec => [][StepsLeft' \in Nat /\ StepsLeft' < StepsLeft]_vars
<1>1. Init => PosNear
  BY DEF Init, PosNear
<1>2. Inv /\ PosNear /\ [Next]_vars => [StepsLeft' \in Nat /\ StepsLeft' < StepsLeft]_vars
  BY WalkStep DEF Next, Returned
<1> QED
  BY <1>1, <1>2, InitInv, NextInv, PosNearStep, PTL DEF Spec

-----------------------------------------------------------------------------
(* What the reply consists of, byte by byte: the header with its counts    *)
(* still to be set, the first question as it was asked, and the record     *)
(* that answers it.                                                        *)
ReplyHeader == <<At(0), At(1), 129, 128, At(4), At(5), 0, 0, 0, 0, 0, 0>>
AddressRecord == <<192, 12, 0, 1, 0, 1, 0, 0, 0, 60, 0, 4>> \o ResponseIp

IsForAddress == Word(pos - 4) = 1 /\ Word(pos - 2) = 1

FirstAnswered ==
    /\ pos >= 13
    /\ answer_count = (IF IsForAddress THEN 1 ELSE 0)
    /\ Len(response) = pos + 16 * answer_count
    /\ \A i \in 13..pos : response[i] = At(i - 1)
    /\ answer_count = 1 => \A i \in 1..16 : response[pos + i] = AddressRecord[i]

HeaderKept ==
    /\ pc \in {"question", "name", "type"} => \A i \in 1..12 : response[i] = ReplyHeader[i]
    /\ pc = "answered" =>
          /\ \A i \in (1..12) \ {7, 8} : response[i] = ReplyHeader[i]
          /\ response[7] = High(answer_count) /\ response[8] = Low(answer_count)

FirstBuilt ==
    /\ pc \in {"question", "name", "type"} => q <= questions
    /\ pc \in {"name", "type"} => q < questions
    /\ pc = "question" /\ q = 0 => pos = 12
    /\ pc \in {"name", "type"} /\ q = 0 => question_start = 12
    /\ pc = "question" /\ q = 1 => FirstAnswered
    /\ pc = "answered" /\ questions = 1 /\ length > 12 => q = 1 /\ FirstAnswered

BuiltInv == HeaderKept /\ FirstBuilt

(* The bytes of a sequence behind another's. *)
LEMMA ConcatBytes ==
    ASSUME NEW s \in Seq(Byte), NEW t \in Seq(Byte)
    PROVE  /\ \A i \in 1..Len(s) : (s \o t)[i] = s[i]
           /\ \A i \in 1..Len(t) : (s \o t)[Len(s) + i] = t[i]
<1>1. ASSUME NEW i \in 1..Len(t) PROVE (s \o t)[Len(s) + i] = t[i]
  <2>1. Len(s) \in Nat /\ Len(t) \in Nat
    BY LenProperties
  <2>2. Len(s) + i \in 1..(Len(s) + Len(t)) /\ ~(Len(s) + i <= Len(s)) /\ Len(s) + i - Len(s) = i
    BY <2>1
  <2> QED
    BY <2>2, ConcatProperties
<1>2. ASSUME NEW i \in 1..Len(s) PROVE (s \o t)[i] = s[i]
  <2>1. Len(s) \in Nat /\ Len(t) \in Nat
    BY LenProperties
  <2>2. i \in 1..(Len(s) + Len(t)) /\ i <= Len(s)
    BY <2>1
  <2> QED
    BY <2>2, ConcatProperties
<1> QED
  BY <1>1, <1>2

LEMMA QuestionsCount == TypeOK => questions \in Nat
<1> SUFFICES ASSUME TypeOK PROVE questions \in Nat
  OBVIOUS
<1>1. 4 \in 0..(BufferSize - 1) /\ 5 \in 0..(BufferSize - 1)
  BY BufferSizeAssumption
<1>2. message.bytes[4] \in 0..255 /\ message.bytes[5] \in 0..255
  BY <1>1 DEF TypeOK, Byte
<1>3. questions = 256 * message.bytes[4] + message.bytes[5]
  BY DEF questions, Word, At
<1>4. \A n, m \in 0..255 : 256 * n + m \in Nat
  OBVIOUS
<1> QED
  BY <1>2, <1>3, <1>4, Zenon

LEMMA HeaderBuilt == Inv /\ Header => BuiltInv'
<1> SUFFICES ASSUME Inv, Header PROVE BuiltInv'
  OBVIOUS
<1>1. /\ pc' = "question" /\ pos' = 12 /\ q' = 0 /\ questions # 0
      /\ UNCHANGED <<message, question_start, q, answer_count>>
  BY DEF Header, Inv, Walk
<1>2. questions \in Nat /\ questions' = questions
  BY <1>1, QuestionsCount DEF Inv, questions, Word, At
<1> DEFINE first == Copy(0, 2)
           flags == <<129, 128>>
           count == Copy(4, 6)
           zeros == <<0, 0, 0, 0, 0, 0>>
<1>3. /\ first \in Seq(Byte) /\ Len(first) = 2 /\ first[1] = At(0) /\ first[2] = At(1)
      /\ count \in Seq(Byte) /\ Len(count) = 2 /\ count[1] = At(4) /\ count[2] = At(5)
  <2>1. 0 <= 2 /\ 2 <= BufferSize /\ 4 <= 6 /\ 6 <= BufferSize
    BY BufferSizeAssumption
  <2>2. first \in Seq(Byte) /\ Len(first) = 2 - 0
    BY <2>1, CopyType DEF Inv
  <2>3. count \in Seq(Byte) /\ Len(count) = 6 - 4
    BY <2>1, CopyType DEF Inv
  <2>4. first[1] = At(0) /\ first[2] = At(1) /\ count[1] = At(4) /\ count[2] = At(5)
    BY DEF Copy
  <2> QED
    BY <2>2, <2>3, <2>4
<1>4. /\ flags \in Seq(Byte) /\ Len(flags) = 2 /\ flags[1] = 129 /\ flags[2] = 128
      /\ zeros \in Seq(Byte) /\ Len(zeros) = 6 /\ \A i \in 1..6 : zeros[i] = 0
  BY DEF Byte
<1> DEFINE four == first \o flags
           six == four \o count
<1>5. response' = six \o zeros
  BY DEF Header
<1> HIDE DEF first, flags, count, zeros
<1>6. /\ four \in Seq(Byte) /\ Len(four) = 4
      /\ four[1] = At(0) /\ four[2] = At(1) /\ four[3] = 129 /\ four[4] = 128
  <2>1. four \in Seq(Byte) /\ Len(four) = Len(first) + Len(flags)
    BY <1>3, <1>4, BytesConcat
  <2>2. first \in Seq(Byte) /\ flags \in Seq(Byte)
    BY <1>3, <1>4
  <2>3. /\ \A i \in 1..Len(first) : four[i] = first[i]
        /\ \A i \in 1..Len(flags) : four[Len(first) + i] = flags[i]
    BY <2>2, ConcatBytes, Zenon
  <2> HIDE DEF four
  <2>4. four[1] = first[1] /\ four[2] = first[2] /\ four[2 + 1] = flags[1] /\ four[2 + 2] = flags[2]
    BY <1>3, <1>4, <2>3
  <2> QED
    BY <1>3, <1>4, <2>1, <2>4
<1> HIDE DEF four
<1>7. /\ six \in Seq(Byte) /\ Len(six) = 6 /\ six[5] = At(4) /\ six[6] = At(5)
      /\ \A i \in 1..4 : six[i] = four[i]
  <2>1. six \in Seq(Byte) /\ Len(six) = Len(four) + Len(count)
    BY <1>3, <1>6, BytesConcat
  <2>2. /\ \A i \in 1..Len(four) : six[i] = four[i]
        /\ \A i \in 1..Len(count) : six[Len(four) + i] = count[i]
    BY <1>3, <1>6, ConcatBytes, Zenon
  <2> HIDE DEF six
  <2>3. six[4 + 1] = count[1] /\ six[4 + 2] = count[2]
    BY <1>3, <1>6, <2>2
  <2> QED
    BY <1>3, <1>6, <2>1, <2>2, <2>3
<1> HIDE DEF six
<1>8. \A i \in 1..12 : response'[i] = ReplyHeader[i]
  <2>1. six \in Seq(Byte) /\ zeros \in Seq(Byte)
    BY <1>4, <1>7
  <2>2. /\ \A i \in 1..Len(six) : response'[i] = six[i]
        /\ \A i \in 1..Len(zeros) : response'[Len(six) + i] = zeros[i]
    BY <1>5, <2>1, ConcatBytes, Zenon
  <2>3. \A i \in 1..6 : response'[i] = six[i]
    BY <1>7, <2>2
  <2>4. ASSUME NEW i \in 7..12 PROVE response'[i] = 0
    <3>1. i - 6 \in 1..6 /\ 6 + (i - 6) = i
      OBVIOUS
    <3> QED
      BY <1>4, <1>7, <2>2, <3>1
  <2> QED
    BY <1>6, <1>7, <2>3, <2>4 DEF ReplyHeader
<1>9. HeaderKept'
  <2>1. ReplyHeader' = ReplyHeader
    BY <1>1 DEF ReplyHeader, At
  <2> QED
    BY <1>1, <1>8, <2>1 DEF HeaderKept
<1>10. FirstBuilt'
  BY <1>1, <1>2 DEF FirstBuilt
<1> QED
  BY <1>9, <1>10 DEF BuiltInv

(* A step that leaves the reply alone. *)
LEMMA ReplyWaits ==
    ASSUME Inv, BuiltInv, Question \/ Label \/ Pointer \/ NameEnds, ~Drop
    PROVE  BuiltInv'
<1>1. /\ pc \in {"question", "name"} /\ pc' \in {"name", "type"}
      /\ UNCHANGED <<message, q, answer_count, response>>
      /\ pc = "question" => q < questions /\ question_start' = pos
      /\ pc = "name" => question_start' = question_start
  BY DEF Question, Label, Pointer, NameEnds, OnLabel, MoveTo
<1>2. questions' = questions /\ ReplyHeader' = ReplyHeader
  BY <1>1 DEF questions, Word, ReplyHeader, At
<1>3. HeaderKept'
  BY <1>1, <1>2 DEF BuiltInv, HeaderKept
<1>4. FirstBuilt'
  BY <1>1, <1>2 DEF BuiltInv, FirstBuilt
<1> QED
  BY <1>3, <1>4 DEF BuiltInv

(* Type keeps what is there and puts the question and its answer behind.   *)
LEMMA TypeAppends ==
    ASSUME Inv, Type
    PROVE  LET size == Len(response) + AfterName + 4 - question_start
           IN /\ \A i \in 1..Len(response) : response'[i] = response[i]
              /\ \A i \in 1..(AfterName + 4 - question_start) :
                    response'[Len(response) + i] = At(question_start + i - 1)
              /\ Asked => \A i \in 1..16 : response'[size + i] = Answer[i]
<1>1. /\ AfterName \in Nat /\ AfterName > question_start /\ question_start \in Nat
      /\ AfterName + 4 <= length /\ length \in 0..BufferSize
  BY AfterNameRange DEF Inv, TypeOK, Type, Cut, length
<1> DEFINE asked == Copy(question_start, AfterName + 4)
           written == response \o asked
           size == Len(response) + AfterName + 4 - question_start
<1>2. asked \in Seq(Byte) /\ Len(asked) = AfterName + 4 - question_start
  BY <1>1, CopyType, BufferSizeAssumption DEF Inv
<1>3. \A i \in 1..(AfterName + 4 - question_start) : asked[i] = At(question_start + i - 1)
  BY <1>1 DEF Copy
<1>4. response \in Seq(Byte) /\ Len(response) \in Nat
  BY LenProperties DEF Inv, TypeOK
<1>5. response' = written \o (IF Asked THEN Answer ELSE <<>>)
  BY DEF Type
<1> HIDE DEF asked
<1>6. written \in Seq(Byte) /\ Len(written) = Len(response) + Len(asked)
  BY <1>2, <1>4, BytesConcat
<1>7. /\ \A i \in 1..Len(response) : written[i] = response[i]
      /\ \A i \in 1..Len(asked) : written[Len(response) + i] = asked[i]
  BY <1>2, <1>4, ConcatBytes
<1> HIDE DEF written
<1>8. /\ \A i \in 1..Len(written) : response'[i] = written[i]
      /\ Asked => \A i \in 1..16 : response'[Len(written) + i] = Answer[i]
  <2>1. CASE Asked
    <3>1. Answer \in Seq(Byte) /\ Len(Answer) = 16 /\ response' = written \o Answer
      BY <1>5, <2>1, AnswerType DEF Inv
    <3>2. \A i \in 1..Len(written) : (written \o Answer)[i] = written[i]
      BY <1>6, <3>1, ConcatBytes, Zenon
    <3>3. \A i \in 1..Len(Answer) : (written \o Answer)[Len(written) + i] = Answer[i]
      BY <1>6, <3>1, ConcatBytes, Zenon
    <3> QED
      BY <3>1, <3>2, <3>3
  <2>2. CASE ~Asked
    <3>1. response' = written
      BY <1>5, <1>6, <2>2, ConcatEmptySeq
    <3> QED
      BY <2>2, <3>1
  <2> QED
    BY <2>1, <2>2
<1>9. Len(written) = size
  BY <1>1, <1>2, <1>4, <1>6
<1>10. \A i \in 1..Len(response) : response'[i] = response[i]
  <2>1. \A i \in 1..Len(response) : i \in 1..Len(written)
    BY <1>1, <1>2, <1>4, <1>6
  <2> QED
    BY <1>7, <1>8, <2>1
<1>11. \A i \in 1..(AfterName + 4 - question_start) :
          response'[Len(response) + i] = At(question_start + i - 1)
  <2> SUFFICES ASSUME NEW i \in 1..(AfterName + 4 - question_start)
               PROVE  response'[Len(response) + i] = At(question_start + i - 1)
    OBVIOUS
  <2>1. Len(response) + i \in 1..Len(written) /\ i \in 1..Len(asked)
    BY <1>1, <1>2, <1>4, <1>6
  <2> QED
    BY <1>3, <1>7, <1>8, <2>1
<1> QED
  BY <1>8, <1>9, <1>10, <1>11

LEMMA TypeBuilt == Inv /\ BuiltInv /\ Type => BuiltInv'
<1> SUFFICES ASSUME Inv, BuiltInv, Type PROVE BuiltInv'
  OBVIOUS
<1>1. /\ pc = "type" /\ pc' = "question" /\ pos' = AfterName + 4 /\ q' = q + 1
      /\ message' = message /\ answer_count' = IF Asked THEN answer_count + 1 ELSE answer_count
  BY DEF Type, NextQuestion
<1>2. /\ AfterName \in Nat /\ AfterName > question_start /\ question_start \in Nat
      /\ question_start >= 12 /\ q \in Nat /\ answer_count \in Nat /\ answer_count <= q
      /\ Len(response) = question_start + 16 * answer_count
  BY AfterNameRange DEF Inv, TypeOK, Walk, InQuestion, Type
<1>3. questions' = questions /\ ReplyHeader' = ReplyHeader /\ \A i : At(i)' = At(i)
  BY <1>1 DEF questions, Word, ReplyHeader, At
<1>4. HeaderKept'
  <2>1. \A i \in 1..12 : i \in 1..Len(response)
    BY <1>2
  <2> QED
    BY <1>1, <1>3, <2>1, TypeAppends DEF BuiltInv, HeaderKept
<1>5. q < questions /\ questions \in Nat
  BY <1>1, QuestionsCount DEF BuiltInv, FirstBuilt, Inv
<1>6. q = 0 => FirstAnswered'
  <2> SUFFICES ASSUME q = 0 PROVE FirstAnswered'
    OBVIOUS
  <2>1. question_start = 12 /\ answer_count = 0 /\ Len(response) = 12
    BY <1>1, <1>2 DEF BuiltInv, FirstBuilt
  <2>2. pos' - 4 = AfterName /\ pos' - 2 = AfterName + 2 /\ pos' >= 13
    BY <1>1, <1>2, <2>1
  <2>3. IsForAddress' <=> Asked
    BY <1>1, <2>2 DEF IsForAddress, Asked, Word, At
  <2>4. answer_count' = IF IsForAddress' THEN 1 ELSE 0
    BY <1>1, <2>1, <2>3
  <2>5. Len(response') = pos' + 16 * answer_count'
    <3>1. Inv'
      BY TypeInv
    <3> QED
      BY <1>1, <3>1 DEF Inv, Walk, BetweenQuestions
  <2>6. \A i \in 13..pos' : response'[i] = At(i - 1)'
    <3> SUFFICES ASSUME NEW i \in 13..pos' PROVE response'[i] = At(i - 1)
      BY <1>3
    <3>1. /\ i - 12 \in 1..(AfterName + 4 - question_start) /\ Len(response) + (i - 12) = i
          /\ question_start + (i - 12) - 1 = i - 1
      BY <1>1, <1>2, <2>1
    <3> QED
      BY <3>1, TypeAppends
  <2>7. answer_count' = 1 => \A i \in 1..16 : response'[pos' + i] = AddressRecord'[i]
    <3> SUFFICES ASSUME answer_count' = 1 PROVE \A i \in 1..16 : response'[pos' + i] = AddressRecord[i]
      BY DEF AddressRecord
    <3>1. Asked /\ Len(response) + AfterName + 4 - question_start = pos'
      BY <1>1, <1>2, <2>1
    <3>2. Answer = AddressRecord
      BY <2>1 DEF Answer, AddressRecord, Low
    <3> QED
      BY <3>1, <3>2, TypeAppends
  <2> QED
    BY <2>2, <2>4, <2>5, <2>6, <2>7 DEF FirstAnswered
<1>7. FirstBuilt'
  BY <1>1, <1>2, <1>3, <1>5, <1>6 DEF FirstBuilt
<1> QED
  BY <1>4, <1>7 DEF BuiltInv

LEMMA FinishBuilt == Inv /\ BuiltInv /\ Finish => BuiltInv'
<1> SUFFICES ASSUME Inv, BuiltInv, Finish PROVE BuiltInv'
  OBVIOUS
<1>1. /\ pc = "question" /\ pc' = "answered" /\ UNCHANGED <<message, pos, q, answer_count>>
      /\ response' = [response EXCEPT ![7] = High(answer_count), ![8] = Low(answer_count)]
      /\ q >= questions \/ pos >= length
  BY DEF Finish
<1>2. /\ response \in Seq(Byte) /\ Len(response) \in Nat /\ Len(response) >= 12
      /\ DOMAIN response = 1..Len(response)
  BY <1>1, LenProperties DEF Inv, TypeOK, Walk, BetweenQuestions
<1>3. /\ response'[7] = High(answer_count) /\ response'[8] = Low(answer_count)
      /\ \A i \in (1..Len(response)) \ {7, 8} : response'[i] = response[i]
  BY <1>1, <1>2
<1>4. ReplyHeader' = ReplyHeader /\ questions' = questions /\ length' = length /\ \A i : At(i)' = At(i)
  BY <1>1 DEF ReplyHeader, questions, Word, length, At
<1>5. HeaderKept'
  <2>1. \A i \in (1..12) \ {7, 8} : i \in (1..Len(response)) \ {7, 8}
    BY <1>2
  <2>2. \A i \in 1..12 : response[i] = ReplyHeader[i]
    BY <1>1 DEF BuiltInv, HeaderKept
  <2>3. \A i \in (1..12) \ {7, 8} : response'[i] = ReplyHeader[i]
    BY <1>3, <2>1, <2>2
  <2>4. High(answer_count)' = High(answer_count) /\ Low(answer_count)' = Low(answer_count) /\ pc' = "answered"
    BY <1>1 DEF High, Low
  <2> QED
    BY <1>3, <1>4, <2>3, <2>4 DEF HeaderKept
<1>6. questions = 1 /\ length > 12 => q = 1 /\ FirstAnswered'
  <2> SUFFICES ASSUME questions = 1, length > 12 PROVE q = 1 /\ FirstAnswered'
    OBVIOUS
  <2>1. q = 1 /\ FirstAnswered
    <3>1. q \in Nat /\ q <= 1 /\ length \in Nat
      BY <1>1 DEF Inv, TypeOK, BuiltInv, FirstBuilt, length
    <3>2. q # 0
      BY <1>1, <3>1 DEF BuiltInv, FirstBuilt
    <3> QED
      BY <1>1, <3>1, <3>2 DEF BuiltInv, FirstBuilt
  <2>2. IsForAddress' = IsForAddress /\ AddressRecord' = AddressRecord
    BY <1>1 DEF IsForAddress, Word, At, AddressRecord
  <2>3. Len(response') = Len(response)
    BY <1>1, <1>2
  <2>4. pos >= 13 /\ pos \in Nat /\ answer_count \in {0, 1} /\ Len(response) = pos + 16 * answer_count
    BY <2>1 DEF FirstAnswered, Inv, TypeOK
  <2>5. \A i \in 13..pos : response'[i] = At(i - 1)
    <3> SUFFICES ASSUME NEW i \in 13..pos PROVE response'[i] = At(i - 1)
      OBVIOUS
    <3>1. i \in (1..Len(response)) \ {7, 8}
      BY <2>4
    <3> QED
      BY <1>3, <2>1, <3>1 DEF FirstAnswered
  <2>6. answer_count = 1 => \A i \in 1..16 : response'[pos + i] = AddressRecord[i]
    <3> SUFFICES ASSUME answer_count = 1, NEW i \in 1..16 PROVE response'[pos + i] = AddressRecord[i]
      OBVIOUS
    <3>1. pos + i \in (1..Len(response)) \ {7, 8}
      BY <2>4
    <3> QED
      BY <1>3, <2>1, <3>1 DEF FirstAnswered
  <2> QED
    BY <1>1, <1>4, <2>1, <2>2, <2>3, <2>5, <2>6 DEF FirstAnswered
<1>7. FirstBuilt'
  BY <1>1, <1>4, <1>6 DEF FirstBuilt
<1> QED
  BY <1>5, <1>7 DEF BuiltInv

LEMMA BuiltStep == Inv /\ BuiltInv /\ [Next]_vars => BuiltInv'
<1> SUFFICES ASSUME Inv, BuiltInv, [Next]_vars PROVE BuiltInv'
  OBVIOUS
<1>1. CASE UNCHANGED vars
  <2>1. /\ questions' = questions /\ length' = length /\ ReplyHeader' = ReplyHeader
        /\ FirstAnswered' = FirstAnswered
    BY <1>1 DEF vars, FirstAnswered, IsForAddress, AddressRecord, ReplyHeader, questions, Word, At, length
  <2> QED
    BY <1>1, <2>1 DEF vars, BuiltInv, HeaderKept, FirstBuilt
<1>2. CASE Drop
  BY <1>2 DEF Drop, BuiltInv, HeaderKept, FirstBuilt
<1> QED
  BY <1>1, <1>2, HeaderBuilt, ReplyWaits, TypeBuilt, FinishBuilt
  DEF Next, Step, Returned, RefuseHeader, NoType

(* What the answer to any query of one question is, byte for byte, however *)
(* its name is written: the query's number, the flags of a reply, one      *)
(* question, which is the one that was asked, as many answers as there     *)
(* are, and if the question is for an address, the record of 16 bytes      *)
(* that names it and gives response_ip.                                    *)
AnsweredInFull ==
    pc = "answered" /\ questions = 1 /\ length > 12 =>
       /\ \A i \in (1..12) \ {7, 8} : response[i] = ReplyHeader[i]
       /\ response[7] = 0 /\ response[8] = answer_count
       /\ FirstAnswered

THEOREM ReplyInFull == Spec => []AnsweredInFull
<1>1. Init => BuiltInv
  BY DEF Init, BuiltInv, HeaderKept, FirstBuilt
<1>2. Inv /\ BuiltInv => AnsweredInFull
  <2> SUFFICES ASSUME Inv, BuiltInv, pc = "answered", questions = 1, length > 12
               PROVE  /\ HeaderKept /\ FirstAnswered
                      /\ High(answer_count) = 0 /\ Low(answer_count) = answer_count
    BY DEF AnsweredInFull, HeaderKept
  <2>1. HeaderKept /\ FirstAnswered
    BY DEF BuiltInv, FirstBuilt
  <2>2. answer_count \in {0, 1}
    BY <2>1 DEF FirstAnswered
  <2> QED
    BY <2>1, <2>2 DEF High, Low
<1> QED
  BY <1>1, <1>2, InitInv, NextInv, BuiltStep, PTL DEF Spec

-----------------------------------------------------------------------------
(* Where a question of the message begins and ends: its name is labels,    *)
(* one behind the other, up to a zero or a pointer; the byte behind a      *)
(* pointer is skipped too when it is zero; type and class follow.          *)
LabelsLead(s, p) ==
    \E V \in SUBSET (s..p) :
       s \in V /\ p \in V /\ \A v \in V \ {p} : At(v) \in 1..191 /\ v + At(v) + 1 \in V

AfterLast(p) ==
    IF At(p) = 0 THEN p + 1 ELSE IF p + 2 < length /\ At(p + 2) = 0 THEN p + 3 ELSE p + 2

NameLast(s, p) == LabelsLead(s, p) /\ (At(p) = 0 \/ At(p) >= 192)

QuestionIn(s, to) ==
    \E p \in s..(length - 1) : NameLast(s, p) /\ to = AfterLast(p) + 4 /\ to <= length

AsksAddress(to) == Word(to - 4) = 1 /\ Word(to - 2) = 1

(* The record of an address for the question at offset p of the reply.     *)
RecordFor(p) == <<192, Low(p), 0, 1, 0, 1, 0, 0, 0, 60, 0, 4>> \o ResponseIp

(* How the reply is laid out: question k of the message, at from[k], is    *)
(* copied behind those before it and their records, of which there are     *)
(* records[k], and its own record, if it asks for an address, behind it.   *)
QuestionLaid(from, records, k) ==
    /\ QuestionIn(from[k], from[k + 1])
    /\ records[k + 1] = records[k] + (IF AsksAddress(from[k + 1]) THEN 1 ELSE 0)
    /\ \A i \in (from[k] + 1)..from[k + 1] : response[i + 16 * records[k]] = At(i - 1)
    /\ AsksAddress(from[k + 1]) =>
          \A i \in 1..16 : response[from[k + 1] + 16 * records[k] + i]
                              = RecordFor(from[k] + 16 * records[k])[i]

LaidOut(from, records, here) ==
    /\ from[1] = 12 /\ records[1] = 0
    /\ from[q + 1] = here /\ records[q + 1] = answer_count
    /\ \A k \in 1..(q + 1) : from[k] \in 12..here /\ records[k] \in 0..answer_count
    /\ \A k \in 1..q : QuestionLaid(from, records, k)

Laid(here) ==
    /\ Len(response) = here + 16 * answer_count
    /\ \E from \in [1..(q + 1) -> Nat], records \in [1..(q + 1) -> Nat] :
          LaidOut(from, records, here)

NameRead ==
    /\ pc = "name" => LabelsLead(question_start, pos)
    /\ pc = "type" => \E p \in question_start..(length - 1) :
                         NameLast(question_start, p) /\ AfterName = AfterLast(p)

LaidInv ==
    /\ NameRead
    /\ pc \in {"question", "answered"} => Laid(pos)
    /\ pc \in {"name", "type"} => Laid(question_start)
    /\ pc = "answered" => q = questions \/ pos >= length

(* What does not depend on where the function is, but on the message. *)
LEMMA MessageStays ==
    ASSUME message' = message
    PROVE  /\ \A s, p : LabelsLead(s, p)' <=> LabelsLead(s, p)
           /\ \A s, p : NameLast(s, p)' <=> NameLast(s, p)
           /\ \A s, to : QuestionIn(s, to)' <=> QuestionIn(s, to)
           /\ \A p : AsksAddress(p)' <=> AsksAddress(p)
           /\ \A p : RecordFor(p)' = RecordFor(p) /\ AfterLast(p)' = AfterLast(p) /\ At(p)' = At(p)
           /\ length' = length /\ questions' = questions
<1>1. /\ \A p : At(p)' = At(p)
      /\ length' = length /\ questions' = questions
      /\ \A p : AsksAddress(p)' <=> AsksAddress(p)
  BY DEF At, length, questions, Word, AsksAddress
<1>2. \A p : RecordFor(p)' = RecordFor(p)
  BY DEF RecordFor, Low
<1>3. \A p : AfterLast(p)' = AfterLast(p)
  BY <1>1 DEF AfterLast
<1>4. \A s, p : LabelsLead(s, p)' <=> LabelsLead(s, p)
  BY <1>1 DEF LabelsLead
<1>5. \A s, p : NameLast(s, p)' <=> NameLast(s, p)
  BY <1>1, <1>4 DEF NameLast
<1>6. \A s, to : QuestionIn(s, to)' <=> QuestionIn(s, to)
  BY <1>1, <1>3, <1>5 DEF QuestionIn
<1> QED
  BY <1>1, <1>2, <1>3, <1>4, <1>5, <1>6

(* A step that keeps the reply keeps what is laid out in it. *)
LEMMA LaidStays ==
    ASSUME UNCHANGED <<message, q, answer_count, response>>, NEW here, Laid(here)
    PROVE  Laid(here)'
<1>1. PICK from \in [1..(q + 1) -> Nat], records \in [1..(q + 1) -> Nat] : LaidOut(from, records, here)
  BY DEF Laid
<1>2. ASSUME NEW k \in 1..q PROVE QuestionLaid(from, records, k)'
  <2>1. QuestionLaid(from, records, k)
    BY <1>1 DEF LaidOut
  <2>2. QuestionIn(from[k], from[k + 1])' /\ (AsksAddress(from[k + 1])' <=> AsksAddress(from[k + 1]))
        /\ RecordFor(from[k] + 16 * records[k])' = RecordFor(from[k] + 16 * records[k])
        /\ \A i : At(i - 1)' = At(i - 1)
    BY <2>1, MessageStays DEF QuestionLaid
  <2> QED
    BY <2>1, <2>2 DEF QuestionLaid
<1>3. LaidOut(from, records, here)'
  BY <1>1, <1>2 DEF LaidOut
<1> QED
  BY <1>1, <1>3 DEF Laid
(* A name begins with its own first byte, and a label leads on. *)
LEMMA Leads ==
    /\ \A s \in Nat : LabelsLead(s, s)
    /\ \A s, p \in Nat : s <= p /\ LabelsLead(s, p) /\ At(p) \in 1..191
                         => LabelsLead(s, p + At(p) + 1)
<1>1. ASSUME NEW s \in Nat PROVE LabelsLead(s, s)
  <2>1. {s} \in SUBSET (s..s) /\ \A v \in {s} \ {s} : FALSE
    OBVIOUS
  <2> QED
    BY <2>1 DEF LabelsLead
<1>2. ASSUME NEW s \in Nat, NEW p \in Nat, s <= p, LabelsLead(s, p), At(p) \in 1..191
      PROVE  LabelsLead(s, p + At(p) + 1)
  <2>1. PICK V \in SUBSET (s..p) :
           s \in V /\ p \in V /\ \A v \in V \ {p} : At(v) \in 1..191 /\ v + At(v) + 1 \in V
    BY <1>2 DEF LabelsLead
  <2>2. PICK n \in Nat : n = p + At(p) + 1 /\ n > p
    <3>1. \A d \in 1..191 : p + d + 1 \in Nat /\ p + d + 1 > p
      OBVIOUS
    <3> QED
      BY <1>2, <3>1
  <2>3. V \cup {n} \in SUBSET (s..n)
    <3>1. n > p /\ s <= p
      BY <1>2, <2>2
    <3>2. \A v \in s..p : v \in s..n
      BY <3>1
    <3> QED
      BY <3>1, <3>2
  <2>4. ASSUME NEW v \in (V \cup {n}) \ {n}
        PROVE  At(v) \in 1..191 /\ v + At(v) + 1 \in V \cup {n}
    <3>1. CASE v = p
      BY <1>2, <2>2, <3>1
    <3>2. CASE v # p
      BY <2>1, <3>2
    <3> QED
      BY <3>1, <3>2
  <2>5. LabelsLead(s, n)
    BY <2>1, <2>3, <2>4 DEF LabelsLead
  <2> QED
    BY <2>2, <2>5
<1> QED
  BY <1>1, <1>2

(* Header, the start of a question and the walk over its name. *)
LEMMA HeaderLaid == Inv /\ Header => LaidInv'
<1> SUFFICES ASSUME Inv, Header PROVE LaidInv'
  OBVIOUS
<1>1. pc' = "question" /\ pos' = 12 /\ q' = 0 /\ answer_count' = 0
  BY DEF Header, Inv, Walk
<1>2. Inv'
  BY HeaderInv
<1>3. Len(response') = 12
  BY <1>1, <1>2 DEF Inv, Walk, BetweenQuestions
<1>4. PICK from \in [1..1 -> Nat], records \in [1..1 -> Nat] : from[1] = 12 /\ records[1] = 0
  <2>1. \A n \in Nat : \E f \in [1..1 -> Nat] : f[1] = n
    <3> TAKE n \in Nat
    <3> DEFINE f == [k \in 1..1 |-> n]
    <3>1. f \in [1..1 -> Nat] /\ f[1] = n
      OBVIOUS
    <3> HIDE DEF f
    <3> QED
      BY <3>1
  <2> QED
    BY <2>1
<1>5. LaidOut(from, records, pos)'
  <2>1. 1..q' = {} /\ q' + 1 = 1 /\ \A k \in 1..1 : k = 1
    BY <1>1
  <2> QED
    BY <1>1, <1>4, <2>1 DEF LaidOut
<1>6. Laid(pos)'
  <2>1. q' + 1 = 1
    BY <1>1
  <2> QED
    BY <1>1, <1>3, <1>4, <1>5, <2>1 DEF Laid
<1> QED
  BY <1>1, <1>6 DEF LaidInv, NameRead

LEMMA NameLaid ==
    ASSUME Inv, LaidInv, Question \/ Label \/ Pointer \/ NameEnds, ~Drop
    PROVE  LaidInv'
<1>1. /\ pc \in {"question", "name"} /\ pc' \in {"name", "type"}
      /\ UNCHANGED <<message, q, answer_count, response>>
      /\ pc = "question" => question_start' = pos /\ pos' = pos /\ pc' = "name"
      /\ pc = "name" => question_start' = question_start
  BY DEF Question, Label, Pointer, NameEnds, OnLabel, MoveTo
<1>2. PICK s \in Nat : question_start' = s /\ Laid(s)
  <2>1. pos \in Nat /\ question_start \in Nat
    BY DEF Inv, TypeOK
  <2> QED
    BY <1>1, <2>1 DEF LaidInv
<1>3. Laid(s)'
  BY <1>1, <1>2, LaidStays
<1>4. Laid(question_start)'
  BY <1>2, <1>3 DEF Laid, LaidOut
<1>5. NameRead'
  <2>1. CASE Question
    <3>1. pc' = "name" /\ pos' = s
      BY <1>1, <1>2, <2>1 DEF Question
    <3>2. LabelsLead(s, s)'
      BY <1>1, MessageStays, Leads
    <3>3. LabelsLead(question_start, pos)'
      BY <1>2, <3>1, <3>2 DEF LabelsLead
    <3> QED
      BY <3>1, <3>3 DEF NameRead
  <2>2. ASSUME Label \/ Pointer \/ NameEnds PROVE NameRead'
    <3>1. /\ pc = "name" /\ LabelsLead(s, pos) /\ s = question_start /\ s <= pos
          /\ pos \in Nat /\ pos < length /\ length \in 0..BufferSize /\ At(pos) \in Byte
      <4>1. pc = "name" /\ LabelsLead(question_start, pos) /\ s = question_start
        BY <1>1, <1>2, <2>2 DEF Label, Pointer, NameEnds, OnLabel, LaidInv, NameRead
      <4>2. s <= pos /\ pos \in Nat /\ pos < length /\ length \in 0..BufferSize /\ At(pos) \in Byte
        BY <4>1, BufferSizeAssumption DEF Inv, TypeOK, Walk, InQuestion, At, length
      <4> QED
        BY <4>1, <4>2
    <3>2. CASE Label
      <4>1. pc' = "name" /\ pos' = pos + At(pos) + 1 /\ At(pos) \in 1..191
        <5>1. MoveTo(pos + At(pos) + 1, "name") /\ At(pos) # 0 /\ At(pos) < 192
          BY <3>2 DEF Label, OnLabel, label_len
        <5>2. pc' = "name" /\ pos' = pos + At(pos) + 1
          BY <5>1 DEF MoveTo
        <5> QED
          BY <3>1, <5>1, <5>2 DEF Byte
      <4>2. PICK n \in Nat : n = pos + At(pos) + 1 /\ LabelsLead(s, n)
        <5>1. LabelsLead(s, pos + At(pos) + 1)
          BY <3>1, <4>1, Leads, Zenon
        <5>2. pos + At(pos) + 1 \in Nat
          BY <3>1, <4>1
        <5> QED
          BY <5>1, <5>2
      <4>3. LabelsLead(s, n)'
        BY <1>1, <4>2, MessageStays
      <4>4. LabelsLead(question_start, pos)'
        BY <1>2, <4>1, <4>2, <4>3 DEF LabelsLead
      <4> QED
        BY <4>1, <4>4 DEF NameRead
    <3>3. CASE Pointer \/ NameEnds
      <4>1. pc' = "type" /\ (At(pos) = 0 \/ At(pos) >= 192)
            /\ pos' = IF At(pos) = 0 THEN pos ELSE pos + 2
        BY <3>1, <3>3 DEF Pointer, NameEnds, OnLabel, MoveTo, label_len
      <4>2. NameLast(s, pos)
        BY <3>1, <4>1 DEF NameLast
      <4>3. AfterName' = AfterLast(pos)
        BY <1>1, <3>1, <4>1 DEF AfterName, AfterLast, At, length
      <4>4. PICK p \in s..(length - 1) : NameLast(s, p) /\ AfterName' = AfterLast(p)
        BY <3>1, <4>2, <4>3
      <4>5. NameLast(s, p)' /\ AfterName' = AfterLast(p)' /\ length' = length
        BY <1>1, <4>4, MessageStays
      <4>6. NameLast(question_start, p)'
        BY <1>2, <4>5 DEF NameLast, LabelsLead
      <4> QED
        BY <1>2, <4>1, <4>4, <4>5, <4>6 DEF NameRead
    <3> QED
      BY <2>2, <3>2, <3>3
  <2> QED
    BY <2>1, <2>2
<1> QED
  BY <1>1, <1>4, <1>5 DEF LaidInv

(* A question stays laid out where it is, whatever is written behind it or *)
(* in the header.                                                          *)
LEMMA QuestionKept ==
    ASSUME message' = message, NEW from, NEW records, NEW f, NEW r, NEW k \in Nat,
           NEW here \in Nat, NEW n \in Nat, QuestionLaid(from, records, k),
           f[k] = from[k], f[k + 1] = from[k + 1], r[k] = records[k], r[k + 1] = records[k + 1],
           from[k] \in 12..here, from[k + 1] \in 12..here,
           records[k] \in 0..n, records[k + 1] \in 0..n,
           \A j \in 13..(here + 16 * n) : response'[j] = response[j]
    PROVE  QuestionLaid(f, r, k)'
<1> DEFINE s == from[k]
           to == from[k + 1]
           before == records[k]
<1>1. s \in 12..here /\ to \in 12..here /\ before \in 0..n
  OBVIOUS
<1>2. /\ QuestionIn(s, to)
      /\ records[k + 1] = before + (IF AsksAddress(to) THEN 1 ELSE 0)
      /\ \A i \in (s + 1)..to : response[i + 16 * before] = At(i - 1)
      /\ AsksAddress(to) =>
            \A i \in 1..16 : response[to + 16 * before + i] = RecordFor(s + 16 * before)[i]
  BY DEF QuestionLaid
<1>3. /\ QuestionIn(s, to)' /\ (AsksAddress(to)' <=> AsksAddress(to))
      /\ RecordFor(s + 16 * before)' = RecordFor(s + 16 * before)
      /\ \A i : At(i - 1)' = At(i - 1)
  BY <1>2, MessageStays
<1> HIDE DEF s, to, before
<1>4. \A i \in (s + 1)..to : response'[i + 16 * before] = At(i - 1)'
  <2> TAKE i \in (s + 1)..to
  <2>1. i + 16 * before \in 13..(here + 16 * n)
    BY <1>1
  <2> QED
    BY <1>2, <1>3, <2>1
<1>5. AsksAddress(to) => \A i \in 1..16 : response'[to + 16 * before + i] = RecordFor(s + 16 * before)[i]
  <2> SUFFICES ASSUME AsksAddress(to), NEW i \in 1..16
               PROVE  response'[to + 16 * before + i] = RecordFor(s + 16 * before)[i]
    OBVIOUS
  <2>1. before + 1 \in 0..n
    BY <1>2
  <2>2. to + 16 * before + i \in 13..(here + 16 * n)
    BY <1>1, <2>1
  <2> QED
    BY <1>2, <2>2
<1>6. /\ f[k] = s /\ f[k + 1] = to /\ r[k] = before
      /\ r[k + 1] = before + (IF AsksAddress(to)' THEN 1 ELSE 0)
  BY <1>2, <1>3 DEF s, to, before
<1> QED
  BY <1>3, <1>4, <1>5, <1>6 DEF QuestionLaid

LEMMA OneLonger ==
    ASSUME NEW n \in Nat
    PROVE  \A f \in [1..(n + 1) -> Nat] : \A v \in Nat : \E g \in [1..(n + 2) -> Nat] :
              g[n + 2] = v /\ \A k \in 1..(n + 1) : g[k] = f[k]
<1> TAKE f \in [1..(n + 1) -> Nat]
<1> TAKE v \in Nat
<1> DEFINE g == [k \in 1..(n + 2) |-> IF k = n + 2 THEN v ELSE f[k]]
<1>1. \A k \in 1..(n + 2) : k # n + 2 => k \in 1..(n + 1)
  OBVIOUS
<1>2. \A k \in 1..(n + 1) : k \in 1..(n + 2) /\ k # n + 2
  OBVIOUS
<1>3. n + 2 \in 1..(n + 2)
  OBVIOUS
<1>4. g \in [1..(n + 2) -> Nat]
  BY <1>1
<1>5. g[n + 2] = v /\ \A k \in 1..(n + 1) : g[k] = f[k]
  BY <1>2, <1>3
<1> HIDE DEF g
<1> QED
  BY <1>4, <1>5

LEMMA TypeLaid == Inv /\ BuiltInv /\ LaidInv /\ Type => LaidInv'
<1> SUFFICES ASSUME Inv, BuiltInv, LaidInv, Type PROVE LaidInv'
  OBVIOUS
<1>1. /\ pc = "type" /\ pc' = "question" /\ pos' = AfterName + 4 /\ q' = q + 1
      /\ message' = message /\ answer_count' = IF Asked THEN answer_count + 1 ELSE answer_count
      /\ AfterName + 4 <= length
  BY DEF Type, NextQuestion, Cut, Inv, TypeOK, length, AfterName
<1>2. PICK n \in Nat, s \in Nat, to \in Nat, before \in Nat, after \in Nat :
         /\ n = q /\ s = question_start /\ to = AfterName + 4
         /\ before = answer_count /\ after = answer_count'
  <2>1. q \in Nat /\ question_start \in Nat /\ AfterName \in Nat /\ answer_count \in Nat
    BY <1>1, AfterNameRange DEF Inv, TypeOK
  <2> QED
    BY <1>1, <2>1
<1>3. PICK from \in [1..(n + 1) -> Nat], records \in [1..(n + 1) -> Nat] : LaidOut(from, records, s)
  BY <1>1, <1>2 DEF LaidInv, Laid
<1>4. Len(response) = s + 16 * before /\ s >= 12 /\ to > s + 4
  BY <1>1, <1>2, AfterNameRange DEF LaidInv, Laid, Inv, Walk, InQuestion
<1>5. /\ from[1] = 12 /\ records[1] = 0 /\ from[n + 1] = s /\ records[n + 1] = before
      /\ \A k \in 1..(n + 1) : from[k] \in 12..s /\ records[k] \in 0..before
      /\ \A k \in 1..n : QuestionLaid(from, records, k)
  BY <1>2, <1>3 DEF LaidOut
<1>6. PICK f \in [1..(n + 2) -> Nat], r \in [1..(n + 2) -> Nat] :
         /\ f[n + 2] = to /\ \A k \in 1..(n + 1) : f[k] = from[k]
         /\ r[n + 2] = after /\ \A k \in 1..(n + 1) : r[k] = records[k]
  <2> DEFINE Longer(g, v) == \E f \in [1..(n + 2) -> Nat] :
                               f[n + 2] = v /\ \A k \in 1..(n + 1) : f[k] = g[k]
  <2>1. \A g \in [1..(n + 1) -> Nat] : \A v \in Nat : Longer(g, v)
    BY OneLonger
  <2>2. Longer(from, to) /\ Longer(records, after)
    <3> HIDE DEF Longer
    <3> QED
      BY <2>1
  <2> QED
    BY <2>2
<1>7. /\ \A j \in 1..(s + 16 * before) : response'[j] = response[j]
      /\ \A i \in 1..(to - s) : response'[s + 16 * before + i] = At(s + i - 1)
      /\ Asked => \A i \in 1..16 : response'[to + 16 * before + i] = Answer[i]
  <2>1. /\ \A j \in 1..Len(response) : response'[j] = response[j]
        /\ \A i \in 1..(AfterName + 4 - question_start) :
              response'[Len(response) + i] = At(question_start + i - 1)
        /\ Asked => \A i \in 1..16 : response'[Len(response) + AfterName + 4 - question_start + i] = Answer[i]
    BY TypeAppends
  <2>2. /\ AfterName + 4 - question_start = to - s
        /\ Len(response) + AfterName + 4 - question_start = to + 16 * before
    <3>1. PICK a \in Nat : a = AfterName
      BY <1>1, AfterNameRange
    <3>2. a + 4 = to /\ question_start = s /\ Len(response) = s + 16 * before
      BY <1>2, <1>4, <3>1
    <3>3. s + 16 * before + a + 4 - s = to + 16 * before
      BY <3>2
    <3> QED
      BY <3>1, <3>2, <3>3
  <2> QED
    BY <1>2, <1>4, <2>1, <2>2
<1>8. ASSUME NEW k \in 1..n PROVE QuestionLaid(f, r, k)'
  <2>1. k \in Nat /\ k \in 1..(n + 1) /\ k + 1 \in 1..(n + 1)
    OBVIOUS
  <2>2. \A j \in 13..(s + 16 * before) : response'[j] = response[j]
    BY <1>7
  <2>3. /\ QuestionLaid(from, records, k)
        /\ f[k] = from[k] /\ f[k + 1] = from[k + 1] /\ r[k] = records[k] /\ r[k + 1] = records[k + 1]
        /\ from[k] \in 12..s /\ from[k + 1] \in 12..s
        /\ records[k] \in 0..before /\ records[k + 1] \in 0..before
    BY <1>5, <1>6, <2>1
  <2> QED
    BY <1>1, <2>1, <2>2, <2>3, QuestionKept
<1>9. QuestionLaid(f, r, n + 1)'
  <2>1. f[n + 1] = s /\ f[n + 2] = to /\ r[n + 1] = before /\ r[n + 2] = after
    BY <1>5, <1>6
  <2>2. QuestionIn(s, to)'
    <3>1. PICK p \in s..(length - 1) : NameLast(s, p) /\ AfterName = AfterLast(p)
      BY <1>1, <1>2 DEF LaidInv, NameRead
    <3>2. QuestionIn(s, to)
      BY <1>1, <1>2, <3>1 DEF QuestionIn
    <3> QED
      BY <1>1, <3>2, MessageStays
  <2>3. AsksAddress(to)' <=> Asked
    <3>1. to - 4 = AfterName /\ to - 2 = AfterName + 2
      BY <1>1, <1>2, AfterNameRange
    <3>2. AsksAddress(to) <=> Asked
      BY <3>1 DEF AsksAddress, Asked
    <3> QED
      BY <1>1, <3>2, MessageStays
  <2>4. \A i \in (s + 1)..to : response'[i + 16 * before] = At(i - 1)'
    <3> SUFFICES ASSUME NEW i \in (s + 1)..to PROVE response'[i + 16 * before] = At(i - 1)
      BY <1>1, MessageStays
    <3>1. i - s \in 1..(to - s) /\ s + 16 * before + (i - s) = i + 16 * before /\ s + (i - s) - 1 = i - 1
      BY <1>4
    <3> QED
      BY <1>7, <3>1
  <2>5. Asked => \A i \in 1..16 : response'[to + 16 * before + i] = RecordFor(s + 16 * before)'[i]
    <3>1. Answer = RecordFor(s + 16 * before)
      BY <1>4 DEF Answer, RecordFor
    <3> QED
      BY <1>1, <1>7, <3>1, MessageStays
  <2>6. after = before + (IF AsksAddress(to)' THEN 1 ELSE 0)
    BY <1>1, <1>2, <2>3
  <2>7. n + 1 + 1 = n + 2
    OBVIOUS
  <2> QED
    BY <2>1, <2>2, <2>3, <2>4, <2>5, <2>6, <2>7 DEF QuestionLaid
<1>10. LaidOut(f, r, to)'
  <2>1. ASSUME NEW k \in 1..(n + 2) PROVE f[k] \in 12..to /\ r[k] \in 0..after
    <3>1. after >= before
      BY <1>1, <1>2
    <3>2. CASE k = n + 2
      BY <1>4, <1>6, <3>2
    <3>3. CASE k # n + 2
      <4>1. k \in 1..(n + 1)
        BY <3>3
      <4> QED
        BY <1>4, <1>5, <1>6, <3>1, <4>1
    <3> QED
      BY <3>2, <3>3
  <2>2. \A k \in 1..(n + 1) : QuestionLaid(f, r, k)'
    <3>1. \A k \in 1..(n + 1) : k \in 1..n \/ k = n + 1
      OBVIOUS
    <3> QED
      BY <1>8, <1>9, <3>1
  <2>3. f[1] = 12 /\ r[1] = 0
    BY <1>5, <1>6
  <2>4. q' = n + 1 /\ q' + 1 = n + 2
    BY <1>1, <1>2
  <2> QED
    BY <1>2, <1>6, <2>1, <2>2, <2>3, <2>4 DEF LaidOut
<1>11. Laid(to)'
  <2>1. Len(response') = to + 16 * after
    <3>1. Inv'
      BY TypeInv
    <3> QED
      BY <1>1, <1>2, <3>1 DEF Inv, Walk, BetweenQuestions
  <2>2. q' + 1 = n + 2
    BY <1>1, <1>2
  <2> QED
    BY <1>2, <1>10, <2>1, <2>2 DEF Laid
<1>12. Laid(pos)'
  BY <1>1, <1>2, <1>11 DEF Laid, LaidOut
<1> QED
  BY <1>1, <1>12 DEF LaidInv, NameRead

LEMMA FinishLaid == Inv /\ BuiltInv /\ LaidInv /\ Finish => LaidInv'
<1> SUFFICES ASSUME Inv, BuiltInv, LaidInv, Finish PROVE LaidInv'
  OBVIOUS
<1>1. /\ pc = "question" /\ pc' = "answered" /\ UNCHANGED <<message, pos, q, answer_count>>
      /\ response' = [response EXCEPT ![7] = High(answer_count), ![8] = Low(answer_count)]
      /\ q >= questions \/ pos >= length
  BY DEF Finish
<1>2. PICK n \in Nat, here \in Nat, count \in Nat : n = q /\ here = pos /\ count = answer_count
  BY DEF Inv, TypeOK
<1>3. PICK from \in [1..(n + 1) -> Nat], records \in [1..(n + 1) -> Nat] : LaidOut(from, records, here)
  BY <1>1, <1>2 DEF LaidInv, Laid
<1>4. /\ from[1] = 12 /\ records[1] = 0 /\ from[n + 1] = here /\ records[n + 1] = count
      /\ \A k \in 1..(n + 1) : from[k] \in 12..here /\ records[k] \in 0..count
      /\ \A k \in 1..n : QuestionLaid(from, records, k)
  BY <1>2, <1>3 DEF LaidOut
<1>5. /\ Len(response) = here + 16 * count /\ here >= 12
      /\ response \in Seq(Byte) /\ DOMAIN response = 1..Len(response)
  BY <1>1, <1>2, LenProperties DEF LaidInv, Laid, Inv, TypeOK, Walk, BetweenQuestions
<1>6. /\ Len(response') = here + 16 * count
      /\ \A j \in 13..(here + 16 * count) : response'[j] = response[j]
  <2>1. DOMAIN response' = DOMAIN response /\ response' \in Seq(Byte)
    <3>1. DOMAIN response' = DOMAIN response
      BY <1>1
    <3>2. Inv'
      BY FinishInv
    <3> QED
      BY <3>1, <3>2 DEF Inv, TypeOK
  <2>2. Len(response') = Len(response)
    BY <1>5, <2>1, LenProperties
  <2>3. \A j \in 13..(here + 16 * count) : j \in 1..Len(response) /\ j # 7 /\ j # 8
    BY <1>5
  <2> QED
    BY <1>1, <1>5, <2>2, <2>3
<1>7. ASSUME NEW k \in 1..n PROVE QuestionLaid(from, records, k)'
  <2>1. k \in Nat /\ k \in 1..(n + 1) /\ k + 1 \in 1..(n + 1)
    OBVIOUS
  <2>2. /\ QuestionLaid(from, records, k)
        /\ from[k] \in 12..here /\ from[k + 1] \in 12..here
        /\ records[k] \in 0..count /\ records[k + 1] \in 0..count
    BY <1>4, <2>1
  <2> QED
    BY <1>1, <1>6, <2>1, <2>2, QuestionKept
<1>8. LaidOut(from, records, here)'
  BY <1>1, <1>2, <1>4, <1>7 DEF LaidOut
<1>9. Laid(here)'
  BY <1>1, <1>2, <1>6, <1>8 DEF Laid
<1>10. Laid(pos)'
  BY <1>1, <1>2, <1>9 DEF Laid, LaidOut
<1>11. (q = questions \/ pos >= length)'
  <2>1. questions \in Nat /\ q \in Nat /\ q <= questions
    BY <1>1, QuestionsCount DEF Inv, TypeOK, BuiltInv, FirstBuilt
  <2>2. q = questions \/ pos >= length
    BY <1>1, <2>1
  <2>3. questions' = questions /\ length' = length
    BY <1>1, MessageStays
  <2> QED
    BY <1>1, <2>2, <2>3
<1> QED
  BY <1>1, <1>10, <1>11 DEF LaidInv, NameRead

LEMMA LaidStep == Inv /\ BuiltInv /\ LaidInv /\ [Next]_vars => LaidInv'
<1> SUFFICES ASSUME Inv, BuiltInv, LaidInv, [Next]_vars PROVE LaidInv'
  OBVIOUS
<1>1. CASE UNCHANGED vars
  <2>1. UNCHANGED <<message, pc, pos, question_start, q, answer_count, response>>
    BY <1>1 DEF vars
  <2>2. PICK here \in Nat, start \in Nat : here = pos /\ start = question_start
    BY DEF Inv, TypeOK
  <2>3. (Laid(here) => Laid(here)') /\ (Laid(start) => Laid(start)')
    BY <2>1, LaidStays
  <2>4. (Laid(pos) => Laid(pos)') /\ (Laid(question_start) => Laid(question_start)')
    BY <2>1, <2>2, <2>3 DEF Laid, LaidOut
  <2>5. NameRead'
    <3>1. CASE pc = "name"
      <4>1. LabelsLead(start, here)'
        BY <2>1, <2>2, <3>1, MessageStays DEF LaidInv, NameRead
      <4> QED
        BY <2>1, <2>2, <3>1, <4>1 DEF NameRead, LabelsLead
    <3>2. CASE pc = "type"
      <4>1. PICK p \in start..(length - 1) : NameLast(start, p) /\ AfterName = AfterLast(p)
        BY <2>2, <3>2 DEF LaidInv, NameRead
      <4>2. NameLast(start, p)' /\ AfterLast(p)' = AfterLast(p) /\ length' = length
        BY <2>1, <4>1, MessageStays
      <4>3. AfterName' = AfterName
        BY <2>1 DEF AfterName, At, length
      <4>4. NameLast(question_start, p)'
        BY <2>1, <2>2, <4>2 DEF NameLast, LabelsLead
      <4> QED
        BY <2>1, <2>2, <3>2, <4>1, <4>2, <4>3, <4>4 DEF NameRead
    <3> QED
      BY <2>1, <3>1, <3>2 DEF NameRead
  <2>6. questions' = questions /\ length' = length
    BY <2>1, MessageStays
  <2> QED
    BY <2>1, <2>4, <2>5, <2>6 DEF LaidInv
<1>2. CASE Drop
  BY <1>2 DEF Drop, LaidInv, NameRead
<1> QED
  BY <1>1, <1>2, HeaderLaid, NameLaid, TypeLaid, FinishLaid
  DEF Next, Step, Returned, RefuseHeader, NoType

(* What the answer to any query is, whatever it asks and however often:    *)
(* the query's number, the flags of a reply and the count of its           *)
(* questions; the number of answers, of which there are never more than a  *)
(* byte counts; and question after question of the message, each as it was *)
(* asked and followed by its record if it asks for an address.  The record *)
(* names its own question, as long as the question begins within the first *)
(* 256 bytes of the reply: one byte of its offset is kept.  Fewer questions*)
(* than the header counts are answered only when the message ends.         *)
EveryQuestionAnswered ==
    pc = "answered" =>
       /\ \A i \in (1..12) \ {7, 8} : response[i] = ReplyHeader[i]
       /\ answer_count <= 100 /\ response[7] = 0 /\ response[8] = answer_count
       /\ q = questions \/ pos >= length
       /\ Laid(pos)

THEOREM RepliesInFull == Spec => []EveryQuestionAnswered
<1>1. Init => BuiltInv /\ LaidInv
  BY DEF Init, BuiltInv, HeaderKept, FirstBuilt, LaidInv, NameRead
<1>2. Inv /\ BuiltInv /\ LaidInv => EveryQuestionAnswered
  <2> SUFFICES ASSUME Inv, BuiltInv, LaidInv, pc = "answered"
               PROVE  answer_count <= 100 /\ response[7] = 0 /\ response[8] = answer_count
    BY DEF EveryQuestionAnswered, BuiltInv, HeaderKept, LaidInv
  <2>1. answer_count \in Nat /\ q \in Nat /\ answer_count <= q
    BY DEF Inv, TypeOK, Walk
  <2>2. PICK p \in 12..HeaderOr(length) : 5 * q <= p - 12
    BY DEF Inv, Walk
  <2>3. HeaderOr(length) \in 12..512
    <3>1. length \in 0..BufferSize
      BY DEF Inv, TypeOK, length
    <3>2. length \in Nat /\ length <= 512
      BY <3>1, BufferSizeAssumption
    <3> QED
      BY <3>2 DEF HeaderOr
  <2>4. answer_count \in 0..100
    BY <2>1, <2>2, <2>3
  <2>5. \A m \in 0..100 : High(m) = 0 /\ Low(m) = m
    BY DEF High, Low
  <2>6. response[7] = High(answer_count) /\ response[8] = Low(answer_count)
    BY DEF BuiltInv, HeaderKept
  <2> QED
    BY <2>4, <2>5, <2>6
<1> QED
  BY <1>1, <1>2, InitInv, NextInv, BuiltStep, LaidStep, PTL DEF Spec

-----------------------------------------------------------------------------
(* For every message: the types of the locals of build_dns_response. *)
THEOREM TypeCorrect == Spec => []TypeOK
<1>1. Inv => TypeOK
  BY DEF Inv
<1>2. QED
  BY <1>1, Invariance, PTL

(* For every message and buffer: build_dns_response reads no byte that was *)
(* not received, the rest of a short message's header excepted.            *)
THEOREM ReadsStayInMessage == Spec => []ReadsInMessage
<1>1. Inv => ReadsInMessage
  BY DEF Inv
<1>2. QED
  BY <1>1, Invariance, PTL

(* For every message, the number of questions its header claims included:  *)
(* the response is no longer than the bytes received and the answers to    *)
(* the questions that fit in them.                                         *)
THEOREM ResponseBounded == Spec => []ResponseFits
<1>1. Inv => ResponseFits
  <2> SUFFICES ASSUME Inv PROVE ResponseFits
    OBVIOUS
  <2>1. /\ BufferSize \in Nat /\ BufferSize >= 12 /\ length \in 0..BufferSize
        /\ HeaderOr(length) <= BufferSize /\ q \in Nat /\ answer_count \in Nat
    BY BufferSizeAssumption DEF Inv, TypeOK, HeaderOr, length
  <2>2. answer_count <= q
    BY DEF Inv, Walk
  <2>3. CASE pc \in {"header", "dropped"}
    <3>1. Len(response) = 0
      BY <2>3, EmptySeq DEF Inv, Walk
    <3>2. 12 <= Longest
      BY <2>1 DEF Longest
    <3>3. Longest \in Nat
      BY <2>1 DEF Longest
    <3>4. QED
      BY <3>1, <3>2, <3>3 DEF ResponseFits
  <2>4. CASE pc \in {"name", "type"}
    <3>1. /\ question_start \in 12..BufferSize /\ 5 * q <= question_start - 12
          /\ Len(response) = question_start + 16 * answer_count
      BY <2>1, <2>4 DEF Inv, Walk, InQuestion
    <3>2. QED
      BY <2>1, <2>2, <3>1, LengthBound DEF ResponseFits
  <2>5. CASE pc \in {"question", "answered"}
    <3>1. PICK p \in 12..HeaderOr(length) :
             5 * q <= p - 12 /\ Len(response) = p + 16 * answer_count
      BY <2>5 DEF Inv, Walk, BetweenQuestions
    <3>2. p \in 12..BufferSize
      BY <2>1, <3>1 DEF HeaderOr, length
    <3>3. QED
      BY <2>1, <2>2, <3>1, <3>2, LengthBound DEF ResponseFits
  <2>6. QED
    BY <2>3, <2>4, <2>5 DEF Inv, TypeOK
<1>2. QED
  BY <1>1, Invariance, PTL

(* The TCP server puts the length of the response in 16 bits, with room to *)
(* spare for every message its buffer can hold.                            *)
THEOREM LengthPrefixHolds == Spec => [](Len(response) < 65536)
<1>1. Longest < 65536
  BY BufferSizeAssumption DEF Longest
<1>2. TypeOK /\ ResponseFits => Len(response) < 65536
  BY <1>1, BufferSizeAssumption, LenProperties DEF TypeOK, ResponseFits, Longest
<1>3. QED
  BY <1>2, TypeCorrect, ResponseBounded, PTL
-----------------------------------------------------------------------------
(* The places of a datagram in a queue. *)
Places(s, d) == {i \in 1..Len(s) : s[i] = d}

LEMMA PlacesFinite ==
    ASSUME NEW T, NEW s \in Seq(T), NEW d
    PROVE  /\ IsFiniteSet(Places(s, d)) /\ Cardinality(Places(s, d)) \in Nat
           /\ Cardinality(Places(s, d)) <= Len(s)
<1>1. IsFiniteSet(1..Len(s)) /\ Cardinality(1..Len(s)) = Len(s)
  <2>1. Len(s) \in Nat
    OBVIOUS
  <2> QED
    BY <2>1, FS_Interval
<1>2. Places(s, d) \in SUBSET (1..Len(s))
  BY DEF Places
<1> QED
  BY <1>1, <1>2, FS_Subset, FS_CardinalityType

LEMMA AppendPlaces ==
    ASSUME NEW T, NEW s \in Seq(T), NEW x \in T, NEW d
    PROVE  Cardinality(Places(Append(s, x), d)) = Cardinality(Places(s, d)) + (IF x = d THEN 1 ELSE 0)
<1>1. CASE x = d
  <2>1. Places(Append(s, x), d) = Places(s, d) \cup {Len(s) + 1}
    BY <1>1 DEF Places
  <2>2. Len(s) + 1 \notin Places(s, d)
    BY DEF Places
  <2> QED
    BY <1>1, <2>1, <2>2, PlacesFinite, FS_AddElement
<1>2. CASE x # d
  <2>1. Places(Append(s, x), d) = Places(s, d)
    BY <1>2 DEF Places
  <2> QED
    BY <1>2, <2>1, PlacesFinite
<1> QED
  BY <1>1, <1>2

LEMMA TailPlaces ==
    ASSUME NEW T, NEW s \in Seq(T), s # <<>>, NEW d
    PROVE  Cardinality(Places(s, d)) = Cardinality(Places(Tail(s), d)) + (IF Head(s) = d THEN 1 ELSE 0)
<1> DEFINE A == Places(Tail(s), d)
           B == Places(s, d) \ {1}
           f == [i \in A |-> i + 1]
<1>1. \A i \in 1..Len(Tail(s)) : Tail(s)[i] = s[i + 1]
  OBVIOUS
<1>2. Len(Tail(s)) = Len(s) - 1 /\ Len(s) \in Nat /\ Len(s) >= 1
  OBVIOUS
<1>3. f \in Injection(A, B)
  BY <1>1, <1>2 DEF Places, Injection, IsInjective
<1>4. ASSUME NEW j \in B PROVE \E i \in A : f[i] = j
  <2>1. j \in 2..Len(s) /\ s[j] = d
    BY DEF Places
  <2>2. j - 1 \in 1..Len(Tail(s)) /\ Tail(s)[j - 1] = d
    BY <2>1, <1>1, <1>2
  <2>3. j - 1 \in A /\ f[j - 1] = j
    BY <2>1, <2>2 DEF Places
  <2> QED
    BY <2>3
<1>5. f \in Bijection(A, B)
  BY <1>3, <1>4 DEF Bijection, Surjection, Injection
<1>6. Tail(s) \in Seq(T)
  OBVIOUS
<1>7. Cardinality(B) = Cardinality(A)
  <2>1. IsFiniteSet(A)
    BY <1>6, PlacesFinite
  <2>2. ExistsBijection(A, B)
    BY <1>5 DEF ExistsBijection
  <2> HIDE DEF A, B
  <2> QED
    BY <2>1, <2>2, FS_Bijection
<1>8. IsFiniteSet(Places(s, d)) /\ Cardinality(Places(s, d)) \in Nat
  BY PlacesFinite
<1>9. Cardinality(A) \in Nat
  BY PlacesFinite, <1>6
<1>10. 1 \in Places(s, d) <=> Head(s) = d
  BY <1>2 DEF Places
<1>11. CASE Head(s) = d
  <2>1. Cardinality(B) = Cardinality(Places(s, d)) - 1
    BY <1>8, <1>10, <1>11, FS_RemoveElement
  <2> QED
    BY <2>1, <1>7, <1>8, <1>9, <1>11
<1>12. CASE Head(s) # d
  <2>1. Cardinality(B) = Cardinality(Places(s, d))
    BY <1>8, <1>10, <1>12, FS_RemoveElement
  <2> QED
    BY <2>1, <1>7, <1>8, <1>9, <1>12
<1> QED
  BY <1>11, <1>12
-----------------------------------------------------------------------------
(* The handler that is ready has a datagram in the buffer, and its sender  *)
(* beside it.                                                              *)
BufferMatches ==
    handler = "received" => recv_buffer_ \in Datagrams /\ remote_endpoint_ = recv_buffer_.from

Types ==
    /\ queue \in Seq(Datagrams) /\ Len(queue) <= QueueSize
    /\ pending \in BOOLEAN
    /\ recv_buffer_ \in Datagrams \cup {Empty}
    /\ remote_endpoint_ \in {d.from : d \in Datagrams \cup {Empty}}
    /\ handler \in {"none", "failed", "received"}
    /\ pending => handler = "none"
    /\ waiting \subseteq Resolvers
    /\ owed \in [Resolvers -> Int]

UdpInv == Types /\ BufferMatches /\ EachQueryAnsweredOnce

LEMMA InQueueCounts == ASSUME NEW r PROVE InQueue(r) = Cardinality(Places(queue, Asks(r)))
  BY DEF InQueue, Places

LEMMA InQueueCountsNext == ASSUME NEW r PROVE InQueue(r)' = Cardinality(Places(queue', Asks(r)))
  BY DEF InQueue, Places, Asks

LEMMA InQueueInt == ASSUME Types, NEW r PROVE InQueue(r) \in Nat /\ InQueue(r) <= QueueSize
<1>1. queue \in Seq(Datagrams) /\ Len(queue) <= QueueSize /\ Len(queue) \in Nat
  BY DEF Types
<1>2. InQueue(r) \in Nat /\ InQueue(r) <= Len(queue)
  BY <1>1, PlacesFinite, InQueueCounts
<1> QED
  BY <1>1, <1>2, QueueSizeAssumption

LEMMA AsksApart ==
    ASSUME NEW r \in Resolvers
    PROVE  /\ Asks(r) \in Datagrams /\ Asks(r) \notin Noise
           /\ Asks(r).from = r /\ Asks(r).bytes = Query
           /\ \A s \in Resolvers : Asks(s) = Asks(r) => s = r
  BY NoiseAssumption DEF Asks, Datagrams

LEMMA UdpInitInv == UdpInit => UdpInv
<1> SUFFICES ASSUME UdpInit PROVE UdpInv
  OBVIOUS
<1>1. Types /\ BufferMatches
  BY QueueSizeAssumption DEF UdpInit, Types, BufferMatches, Empty
<1>2. ASSUME NEW r \in Resolvers PROVE owed[r] = InQueue(r) + InBuffer(r)
  <2>1. {i \in 1..Len(queue) : queue[i] = Asks(r)} = {}
    BY DEF UdpInit
  <2> QED
    BY <2>1, FS_EmptySet DEF UdpInit, InQueue, InBuffer
<1> QED
  BY <1>1, <1>2 DEF UdpInv, EachQueryAnsweredOnce

(* A datagram joins the queue, and owed counts it if it is a query.        *)
LEMMA QueueGrows ==
    ASSUME UdpInv, NEW d \in Datagrams, Len(queue) < QueueSize, queue' = Append(queue, d),
           UNCHANGED <<serverVars, waiting>>, owed' \in [Resolvers -> Int],
           \A r \in Resolvers : owed'[r] = owed[r] + (IF d = Asks(r) THEN 1 ELSE 0)
    PROVE  UdpInv'
<1>1. Types' /\ BufferMatches'
  BY QueueSizeAssumption DEF UdpInv, Types, BufferMatches, serverVars
<1>2. ASSUME NEW r \in Resolvers PROVE owed'[r] = InQueue(r)' + InBuffer(r)'
  <2>1. queue \in Seq(Datagrams)
    BY DEF UdpInv, Types
  <2>2. InQueue(r)' = InQueue(r) + (IF d = Asks(r) THEN 1 ELSE 0)
    BY <2>1, AppendPlaces, InQueueCounts, InQueueCountsNext
  <2>3. InBuffer(r)' = InBuffer(r) /\ InBuffer(r) \in {0, 1}
    BY DEF InBuffer, serverVars, Asks
  <2>4. owed[r] = InQueue(r) + InBuffer(r) /\ InQueue(r) \in Nat
    BY InQueueInt DEF UdpInv, EachQueryAnsweredOnce
  <2> QED
    BY <2>2, <2>3, <2>4
<1> QED
  BY <1>1, <1>2 DEF UdpInv, EachQueryAnsweredOnce

LEMMA ReceivedKeeps == UdpInv /\ Received => UdpInv'
<1> SUFFICES ASSUME UdpInv, Received PROVE UdpInv'
  OBVIOUS
<1>1. queue \in Seq(Datagrams) /\ queue # <<>> /\ Head(queue) \in Datagrams
      /\ Tail(queue) \in Seq(Datagrams) /\ Len(Tail(queue)) <= QueueSize
  BY QueueSizeAssumption DEF UdpInv, Types, Received
<1>2. Types' /\ BufferMatches'
  BY <1>1 DEF UdpInv, Types, BufferMatches, Received
<1>3. ASSUME NEW r \in Resolvers PROVE owed'[r] = InQueue(r)' + InBuffer(r)'
  <2>1. InQueue(r) = InQueue(r)' + (IF Head(queue) = Asks(r) THEN 1 ELSE 0)
    BY <1>1, TailPlaces, InQueueCounts, InQueueCountsNext DEF Received
  <2>2. InBuffer(r) = 0 /\ InBuffer(r)' = IF Head(queue) = Asks(r) THEN 1 ELSE 0
    BY DEF InBuffer, Received, UdpInv, Types, Asks
  <2>3. owed'[r] = owed[r] /\ owed[r] = InQueue(r) + InBuffer(r) /\ InQueue(r) \in Nat
    BY InQueueInt DEF UdpInv, EachQueryAnsweredOnce, Received
  <2>4. InQueue(r)' \in Nat
    BY <1>1, PlacesFinite, InQueueCountsNext DEF Received
  <2> QED
    BY <2>1, <2>2, <2>3, <2>4
<1> QED
  BY <1>2, <1>3 DEF UdpInv, EachQueryAnsweredOnce

LEMMA HandlerKeeps == UdpInv /\ OnReceive => UdpInv'
<1> SUFFICES ASSUME UdpInv, OnReceive PROVE UdpInv'
  OBVIOUS
<1>0. handler' = "none" /\ UNCHANGED <<queue, recv_buffer_, remote_endpoint_>> /\ pending' = TRUE
  BY DEF OnReceive
<1>1. ASSUME NEW r \in Resolvers
      PROVE  /\ InQueue(r)' = InQueue(r) /\ InBuffer(r)' = 0
             /\ owed[r] = InQueue(r) + InBuffer(r) /\ InQueue(r) \in Nat
  BY <1>0, InQueueInt DEF InQueue, InBuffer, Asks, UdpInv, EachQueryAnsweredOnce
<1>2. CASE IsQuery /\ recv_buffer_ \notin Noise
  <2>1. PICK asker \in Resolvers : recv_buffer_ = Asks(asker)
    BY <1>2 DEF UdpInv, BufferMatches, IsQuery, Datagrams
  <2>2. remote_endpoint_ = asker /\ Answered(Asks(asker), asker)
    BY <1>2, <2>1, AsksApart DEF UdpInv, BufferMatches, IsQuery, OnReceive, HandleQuery
  <2>3. owed' = [owed EXCEPT ![asker] = @ - 1] /\ waiting' \subseteq Resolvers
    BY <2>2 DEF Answered, UdpInv, Types
  <2>4. InBuffer(asker) = 1 /\ \A r \in Resolvers : r # asker => InBuffer(r) = 0
    BY <1>2, <2>1, AsksApart DEF InBuffer, IsQuery
  <2>5. Types' /\ BufferMatches'
    BY <1>0, <2>3 DEF UdpInv, Types, BufferMatches
  <2>6. ASSUME NEW r \in Resolvers PROVE owed'[r] = InQueue(r)' + InBuffer(r)'
    BY <1>1, <2>3, <2>4 DEF UdpInv, Types
  <2> QED
    BY <2>5, <2>6 DEF UdpInv, EachQueryAnsweredOnce
<1>3. CASE ~IsQuery \/ recv_buffer_ \in Noise
  <2>1. UNCHANGED <<waiting, owed>>
    BY <1>3 DEF OnReceive, HandleQuery
  <2>2. ASSUME NEW r \in Resolvers PROVE InBuffer(r) = 0
    BY <1>3, AsksApart, QueryAssumption DEF InBuffer, IsQuery
  <2>3. Types' /\ BufferMatches'
    BY <1>0, <2>1 DEF UdpInv, Types, BufferMatches
  <2>4. ASSUME NEW r \in Resolvers PROVE owed'[r] = InQueue(r)' + InBuffer(r)'
    BY <1>1, <2>1, <2>2
  <2> QED
    BY <2>3, <2>4 DEF UdpInv, EachQueryAnsweredOnce
<1> QED
  BY <1>2, <1>3

LEMMA UdpNextInv == UdpInv /\ [UdpNext]_udpVars => UdpInv'
<1> SUFFICES ASSUME UdpInv, [UdpNext]_udpVars PROVE UdpInv'
  OBVIOUS
<1>1. ASSUME NEW r \in Resolvers, Ask(r) PROVE UdpInv'
  <2>1. CASE Len(queue) < QueueSize
    <3>1. \A s \in Resolvers : owed'[s] = owed[s] + (IF Asks(r) = Asks(s) THEN 1 ELSE 0)
      BY <1>1, <2>1, AsksApart DEF Ask, UdpInv, Types
    <3>2. owed' \in [Resolvers -> Int] /\ Asks(r) \in Datagrams
      BY <1>1, <2>1, AsksApart DEF Ask, UdpInv, Types
    <3> QED
      BY <1>1, <2>1, <3>1, <3>2, QueueGrows DEF Ask
  <2>2. CASE ~(Len(queue) < QueueSize)
    BY <1>1, <2>2 DEF Ask, UdpInv, Types, BufferMatches, EachQueryAnsweredOnce, InQueue, InBuffer, serverVars, Asks
  <2> QED
    BY <2>1, <2>2
<1>2. CASE Disturb
  <2>1. PICK n \in Noise : queue' = Append(queue, n)
    BY <1>2 DEF Disturb
  <2>2. \A s \in Resolvers : n # Asks(s)
    BY NoiseAssumption
  <2>3. n \in Datagrams /\ owed' = owed /\ owed \in [Resolvers -> Int]
    BY <1>2 DEF Disturb, Datagrams, UdpInv, Types
  <2> QED
    BY <1>2, <2>1, <2>2, <2>3, QueueGrows DEF Disturb
<1>3. ASSUME NEW r \in Resolvers, Lookup(r) PROVE UdpInv'
  BY <1>3 DEF Lookup, UdpInv, Types, BufferMatches, EachQueryAnsweredOnce, InQueue, InBuffer, serverVars, Asks
<1>4. CASE ReceiveFailed
  BY <1>4 DEF ReceiveFailed, UdpInv, Types, BufferMatches, EachQueryAnsweredOnce, InQueue, InBuffer, Asks
<1>5. CASE UNCHANGED udpVars
  BY <1>5 DEF udpVars, UdpInv, Types, BufferMatches, EachQueryAnsweredOnce, InQueue, InBuffer, Asks
<1> QED
  BY <1>1, <1>2, <1>3, <1>4, <1>5, ReceivedKeeps, HandlerKeeps DEF UdpNext

LEMMA UdpInvariance == UdpSpec => []UdpInv
  BY UdpInitInv, UdpNextInv, PTL DEF UdpSpec

(* One buffer and one address serve all resolvers: every query the socket  *)
(* took is answered once, to the one that asked.                           *)
THEOREM AnsweredOnce == UdpSpec => []EachQueryAnsweredOnce
  BY UdpInvariance, PTL DEF UdpInv

(* Types; at any time the server owes a resolver no more answers than the  *)
(* queue and its one buffer can hold queries.                              *)
THEOREM UdpTypeCorrect == UdpSpec => []UdpTypeOK
<1>1. ASSUME UdpInv, NEW r \in Resolvers PROVE owed[r] \in 0..(QueueSize + 1)
  <2>1. InQueue(r) \in Nat /\ InQueue(r) <= QueueSize /\ InBuffer(r) \in {0, 1}
    BY <1>1, InQueueInt DEF UdpInv, InBuffer
  <2> QED
    BY <1>1, <2>1, QueueSizeAssumption DEF UdpInv, EachQueryAnsweredOnce
<1>2. UdpInv => UdpTypeOK
  BY <1>1 DEF UdpInv, Types, UdpTypeOK
<1> QED
  BY <1>2, UdpInvariance, PTL
-----------------------------------------------------------------------------
(* A client has sent no more than it has to; a session that waits for a    *)
(* message has room for it.                                                *)
InBounds(c) ==
    /\ sent[c] <= Total(c)
    /\ phase[c] = "message" => announced[c] <= RecvBufferSize - Prefix

TcpInv == TcpTypeOK /\ OnlyWholeQueries /\ \A c \in Conns : InBounds(c)

USE LengthsAssumption, RecvBufferSizeAssumption DEF Prefix

LEMMA Numbers ==
    ASSUME TcpTypeOK, NEW c \in Conns
    PROVE  /\ announced[c] \in Nat /\ sent[c] \in Nat /\ Prefix \in Nat /\ RecvBufferSize \in Nat
           /\ Whole(c) \in Nat /\ Total(c) \in Nat /\ Prefix <= Whole(c) /\ Whole(c) <= Total(c)
<1>1. announced[c] \in Lengths /\ sent[c] \in Nat
  BY DEF TcpTypeOK
<1>2. Whole(c) \in Nat /\ Prefix <= Whole(c)
  <2>1. PICK n \in Nat : n = announced[c]
    BY <1>1
  <2>2. 2 + n \in Nat /\ 2 <= 2 + n
    OBVIOUS
  <2> QED
    BY <2>1, <2>2 DEF Whole
<1>3. Total(c) \in Nat /\ Whole(c) <= Total(c)
  <2>1. PICK w \in Nat : w = Whole(c)
    BY <1>2
  <2>2. Total(c) = w \/ Total(c) = w + 1
    BY <2>1 DEF Total
  <2> QED
    BY <2>1, <2>2
<1> QED
  BY <1>1, <1>2, <1>3

LEMMA TcpInitInv == TcpInit => TcpInv
<1> SUFFICES ASSUME TcpInit PROVE TcpInv
  OBVIOUS
<1>1. TcpTypeOK
  BY DEF TcpInit, TcpTypeOK
<1>2. OnlyWholeQueries
  BY DEF TcpInit, OnlyWholeQueries
<1>3. ASSUME NEW c \in Conns PROVE InBounds(c)
  <2>1. announced[c] \in Nat /\ sent[c] = 0 /\ phase[c] = "none"
    BY DEF TcpInit
  <2> QED
    BY <1>1, <2>1, Numbers DEF InBounds
<1> QED
  BY <1>1, <1>2, <1>3 DEF TcpInv

LEMMA EndKeeps ==
    ASSUME TcpInv, NEW c \in Conns, NEW got \in {"answered", "dropped"}, Ends(c, got),
           \/ UNCHANGED filled
           \/ filled' = [filled EXCEPT ![c] = Prefix] /\ sent[c] >= Prefix
           \/ /\ filled' = [filled EXCEPT ![c] = Whole(c)]
              /\ sent[c] >= Whole(c) /\ phase[c] = "message"
    PROVE  TcpInv'
<1> USE DEF TcpInv, InBounds, Whole, Total
<1>1. TcpTypeOK'
  <2>1. filled' \in [Conns -> 0..RecvBufferSize]
    <3>1. phase[c] = "message" => Whole(c) \in 0..RecvBufferSize
      BY Numbers
    <3>2. filled \in [Conns -> 0..RecvBufferSize] /\ Prefix \in 0..RecvBufferSize
      BY DEF TcpTypeOK
    <3> QED
      BY <3>1, <3>2
  <2>2. phase' \in [Conns -> {"none", "backlog", "length", "message", "write", "closed"}]
    BY DEF TcpTypeOK, Ends
  <2>3. result' \in [Conns -> {"none", "waiting", "answered", "dropped"}]
    BY DEF TcpTypeOK, Ends
  <2> QED
    BY <2>1, <2>2, <2>3 DEF TcpTypeOK, Ends, clientVars
<1>2. OnlyWholeQueries'
  BY DEF TcpTypeOK, Ends, clientVars, OnlyWholeQueries
<1>3. ASSUME NEW d \in Conns PROVE InBounds(d)'
  BY DEF TcpTypeOK, Ends, clientVars
<1> QED
  BY <1>1, <1>2, <1>3

LEMMA TcpNextInv == TcpInv /\ [TcpNext]_tcpVars => TcpInv'
<1> SUFFICES ASSUME TcpInv, [TcpNext]_tcpVars PROVE TcpInv'
  OBVIOUS
<1> USE DEF TcpInv, InBounds, Whole, Total, clientVars
<1>1. ASSUME NEW c \in Conns, Connect(c) PROVE TcpInv'
  BY <1>1 DEF Connect, TcpTypeOK, OnlyWholeQueries
<1>2. ASSUME NEW c \in Conns, Send(c) PROVE TcpInv'
  <2>1. PICK n \in (sent[c] + 1)..Total(c) : sent' = [sent EXCEPT ![c] = n]
    BY <1>2 DEF Send
  <2>3. n \in Nat /\ n <= Total(c) /\ sent[c] <= n
    BY <2>1, Numbers
  <2>4. UNCHANGED <<armed, backlog, phase, announced, eof, result, filled>>
    BY <1>2 DEF Send
  <2>5. TcpTypeOK'
    BY <2>1, <2>3, <2>4 DEF TcpTypeOK
  <2>6. OnlyWholeQueries'
    BY <2>1, <2>3, <2>4 DEF TcpTypeOK, OnlyWholeQueries
  <2>7. ASSUME NEW d \in Conns PROVE InBounds(d)'
    BY <2>1, <2>3, <2>4 DEF TcpTypeOK
  <2> QED
    BY <2>5, <2>6, <2>7
<1>3. ASSUME NEW c \in Conns, Leave(c) PROVE TcpInv'
  BY <1>3 DEF Leave, TcpTypeOK, OnlyWholeQueries
<1>4. CASE OnAccept
  <2>1. CASE UNCHANGED <<phase, backlog>>
    BY <2>1, <1>4 DEF OnAccept, TcpTypeOK, OnlyWholeQueries
  <2>2. CASE phase' = [phase EXCEPT ![Head(backlog)] = "length"] /\ backlog' = Tail(backlog)
    <3>1. Head(backlog) \in Conns /\ Tail(backlog) \in Seq(Conns)
      BY <1>4 DEF OnAccept, TcpTypeOK
    <3> QED
      BY <2>2, <3>1, <1>4 DEF OnAccept, TcpTypeOK, OnlyWholeQueries
  <2> QED
    BY <2>1, <2>2, <1>4 DEF OnAccept
<1>5. ASSUME NEW c \in Conns, OnLength(c) PROVE TcpInv'
  <2>1. CASE TooLong(c)
    BY <2>1, <1>5, EndKeeps DEF OnLength
  <2>2. CASE ~TooLong(c)
    <3>1. /\ phase' = [phase EXCEPT ![c] = "message"] /\ filled' = [filled EXCEPT ![c] = Prefix]
          /\ sent[c] >= Prefix /\ UNCHANGED <<armed, backlog, announced, sent, eof, result>>
      BY <2>2, <1>5 DEF OnLength
    <3>2. announced[c] <= RecvBufferSize - Prefix /\ Prefix \in 0..RecvBufferSize
      BY <2>2, Numbers DEF TooLong
    <3>3. TcpTypeOK'
      BY <3>1, <3>2 DEF TcpTypeOK
    <3>4. OnlyWholeQueries'
      BY <3>1 DEF TcpTypeOK, OnlyWholeQueries
    <3>5. ASSUME NEW d \in Conns PROVE InBounds(d)'
      BY <3>1, <3>2 DEF TcpTypeOK
    <3> QED
      BY <3>3, <3>4, <3>5
  <2> QED
    BY <2>1, <2>2
<1>6. ASSUME NEW c \in Conns, OnMessage(c) PROVE TcpInv'
  <2>1. CASE announced[c] \notin Answerable
    BY <2>1, <1>6, EndKeeps DEF OnMessage, Arrived
  <2>2. CASE announced[c] \in Answerable
    <3>1. /\ phase' = [phase EXCEPT ![c] = "write"] /\ filled' = [filled EXCEPT ![c] = Whole(c)]
          /\ phase[c] = "message" /\ sent[c] >= Whole(c)
          /\ UNCHANGED <<armed, backlog, announced, sent, eof, result>>
      BY <2>2, <1>6 DEF OnMessage, Arrived
    <3>2. Whole(c) \in 0..RecvBufferSize
      BY <3>1, Numbers
    <3>3. TcpTypeOK'
      BY <3>1, <3>2 DEF TcpTypeOK
    <3>4. OnlyWholeQueries'
      BY <3>1, <3>2 DEF TcpTypeOK, OnlyWholeQueries
    <3>5. ASSUME NEW d \in Conns PROVE InBounds(d)'
      BY <3>1 DEF TcpTypeOK
    <3> QED
      BY <3>3, <3>4, <3>5
  <2> QED
    BY <2>1, <2>2
<1>7. ASSUME NEW c \in Conns, OnReadError(c) \/ OnWritten(c) PROVE TcpInv'
  BY <1>7, EndKeeps DEF OnReadError, OnWritten
<1>8. CASE UNCHANGED tcpVars
  BY <1>8 DEF tcpVars, TcpTypeOK, OnlyWholeQueries
<1> QED
  BY <1>1, <1>2, <1>3, <1>4, <1>5, <1>6, <1>7, <1>8 DEF TcpNext, Handler, Over

LEMMA TcpInvariance == TcpSpec => []TcpInv
  BY TcpInitInv, TcpNextInv, PTL DEF TcpSpec

(* No announced length makes the server write outside recv_buffer_.        *)
THEOREM TcpTypeCorrect == TcpSpec => []TcpTypeOK
  BY TcpInvariance, PTL DEF TcpInv

(* An answer is made from the bytes announced and sent, and no others,     *)
(* whatever the clients announce, hold back, break off or send after them. *)
THEOREM WholeQueriesOnly == TcpSpec => []OnlyWholeQueries
  BY TcpInvariance, PTL DEF TcpInv
-----------------------------------------------------------------------------
(* What is left of a connection: phases its session goes through, bytes    *)
(* its client may send, and its leaving.                                   *)
PhasesLeft(p) ==
    CASE p = "none" -> 5 [] p = "backlog" -> 4 [] p = "length" -> 3
      [] p = "message" -> 2 [] p = "write" -> 1 [] OTHER -> 0

ConnectionLeft(c) == PhasesLeft(phase[c]) + (Total(c) - sent[c]) + (IF eof[c] THEN 0 ELSE 1)

Connection(c) == <<phase[c], announced[c], sent[c], eof[c], result[c], filled[c]>>

(* The acceptor listens, and exactly the connections that have no session  *)
(* yet are in its backlog, each once.                                      *)
Listening ==
    /\ armed
    /\ \A i \in 1..Len(backlog) : phase[backlog[i]] = "backlog"
    /\ \A i, j \in 1..Len(backlog) : backlog[i] = backlog[j] => i = j
    /\ \A c \in Conns : phase[c] = "backlog" => \E i \in 1..Len(backlog) : backlog[i] = c

(* A client waits as long as its connection lives, and one that stays gets *)
(* what its query is due; but for the response to one that goes on, which  *)
(* may be lost.                                                            *)
Due(c) == IF announced[c] \in Answerable THEN "answered" ELSE "dropped"

Kept(c) ==
    /\ result[c] = "none" <=> phase[c] = "none"
    /\ phase[c] \notin {"none", "closed"} => result[c] = "waiting"
    /\ phase[c] = "write" => announced[c] \in Answerable
    /\ c \notin Careless => ~eof[c]
    /\ c \notin Careless /\ phase[c] = "closed" =>
          result[c] = Due(c) \/ (c \in Chatty /\ result[c] = "dropped")

ServerInv == TcpInv /\ Listening /\ \A c \in Conns : Kept(c)

(* A step of one connection. *)
OnlyOf(c) ==
    /\ phase' = [phase EXCEPT ![c] = phase'[c]] /\ announced' = announced
    /\ sent' = [sent EXCEPT ![c] = sent'[c]] /\ eof' = [eof EXCEPT ![c] = eof'[c]]
    /\ result' = [result EXCEPT ![c] = result'[c]] /\ filled' = [filled EXCEPT ![c] = filled'[c]]

Progress(c) == OnlyOf(c) /\ ConnectionLeft(c)' \in Nat /\ ConnectionLeft(c)' < ConnectionLeft(c)

LEMMA Progresses ==
    ASSUME TcpInv, TcpInv', NEW c \in Conns, OnlyOf(c),
           PhasesLeft(phase'[c]) <= PhasesLeft(phase[c]),
           sent[c] <= sent'[c], eof[c] => eof'[c],
           \/ PhasesLeft(phase'[c]) < PhasesLeft(phase[c])
           \/ sent[c] < sent'[c]
           \/ ~eof[c] /\ eof'[c]
    PROVE  Progress(c)
<1> DEFINE P == PhasesLeft(phase[c])
           Q == PhasesLeft(phase'[c])
           L == IF eof[c] THEN 0 ELSE 1
           M == IF eof'[c] THEN 0 ELSE 1
<1>1. P \in Nat /\ Q \in Nat /\ Q <= P
  BY DEF PhasesLeft
<1>2. L \in Nat /\ M \in Nat /\ M <= L
  BY DEF TcpInv, TcpTypeOK
<1>3. PICK w \in Nat, s \in Nat, t \in Nat :
         w = Total(c) /\ Total(c)' = w /\ s = sent[c] /\ t = sent'[c] /\ s <= t /\ t <= w
  <2>1. announced'[c] = announced[c] /\ sent'[c] \in Nat /\ sent[c] \in Nat /\ Total(c) \in Nat
    BY Numbers DEF OnlyOf, TcpInv, TcpTypeOK
  <2>2. Total(c) \in Nat /\ Total(c)' = Total(c)
    BY <2>1 DEF Total, Whole
  <2>3. sent'[c] <= Total(c)'
    BY DEF TcpInv, InBounds
  <2> QED
    BY <2>1, <2>2, <2>3
<1>4. Q < P \/ s < t \/ M < L
  BY <1>3
<1>5. ConnectionLeft(c) = P + (w - s) + L /\ ConnectionLeft(c)' = Q + (w - t) + M
  BY <1>3 DEF ConnectionLeft, PhasesLeft
<1> HIDE DEF P, Q, L, M
<1>6. Q + (w - t) + M \in Nat /\ Q + (w - t) + M < P + (w - s) + L
  BY <1>1, <1>2, <1>3, <1>4
<1> QED
  BY <1>5, <1>6 DEF Progress

LEMMA ServerInit == TcpInit => ServerInv
<1> SUFFICES ASSUME TcpInit PROVE ServerInv
  OBVIOUS
<1>1. TcpInv
  BY TcpInitInv
<1>2. Listening
  BY DEF TcpInit, Listening
<1>3. ASSUME NEW c \in Conns PROVE Kept(c)
  BY DEF TcpInit, Kept
<1> QED
  BY <1>1, <1>2, <1>3 DEF ServerInv

(* A step of one connection leaves the others what they are. *)
LEMMA OthersKept ==
    ASSUME ServerInv, NEW c \in Conns, OnlyOf(c), Kept(c)'
    PROVE  \A d \in Conns : Kept(d)'
<1> SUFFICES ASSUME NEW d \in Conns, d # c PROVE Kept(d)'
  OBVIOUS
<1>1. /\ phase'[d] = phase[d] /\ announced'[d] = announced[d] /\ sent'[d] = sent[d]
      /\ eof'[d] = eof[d] /\ result'[d] = result[d]
  BY DEF ServerInv, TcpInv, TcpTypeOK, OnlyOf
<1>2. Kept(d)
  BY DEF ServerInv
<1> QED
  BY <1>1, <1>2 DEF Kept, Due

LEMMA ListensOn ==
    ASSUME ServerInv, UNCHANGED <<armed, backlog>>,
           \A c \in Conns : phase'[c] = "backlog" <=> phase[c] = "backlog"
    PROVE  Listening'
<1>1. \A i \in 1..Len(backlog) : backlog[i] \in Conns
  BY DEF ServerInv, TcpInv, TcpTypeOK
<1> QED
  BY <1>1 DEF ServerInv, Listening

LEMMA ClientSteps ==
    ASSUME ServerInv, TcpInv', NEW c \in Conns, Send(c) \/ Leave(c)
    PROVE  ServerInv' /\ Progress(c)
<1> USE DEF ServerInv, TcpInv, TcpTypeOK
<1>1. Kept(c) /\ phase[c] \notin {"none", "closed"} /\ ~eof[c]
      /\ UNCHANGED <<armed, backlog, phase, announced, result, filled>>
  BY DEF Send, Leave
<1>2. CASE Send(c)
  <2>1. PICK n \in (sent[c] + 1)..Total(c) : sent' = [sent EXCEPT ![c] = n]
    BY <1>2 DEF Send
  <2>3. n \in Nat /\ sent[c] \in Nat /\ n > sent[c]
    BY <2>1, Numbers
  <2>2. eof' = eof /\ sent'[c] > sent[c]
    BY <1>2, <2>1, <2>3 DEF Send
  <2>4. OnlyOf(c)
    BY <1>1, <2>1, <2>2 DEF OnlyOf
  <2>5. Kept(c)'
    BY <1>1, <2>2 DEF Kept, Due
  <2>6. sent[c] <= sent'[c] /\ sent[c] < sent'[c]
    BY <2>1, <2>2, <2>3
  <2>7. PhasesLeft(phase'[c]) <= PhasesLeft(phase[c])
    BY <1>1 DEF PhasesLeft
  <2>8. Progress(c)
    BY <2>2, <2>4, <2>6, <2>7, Progresses
  <2> QED
    BY <1>1, <2>4, <2>5, <2>8, OthersKept, ListensOn
<1>3. CASE Leave(c)
  <2>1. eof' = [eof EXCEPT ![c] = TRUE] /\ sent' = sent /\ c \in Careless
    BY <1>3 DEF Leave
  <2>2. OnlyOf(c)
    BY <1>1, <2>1 DEF OnlyOf
  <2>3. Kept(c)'
    BY <1>1, <2>1 DEF Kept, Due
  <2>4. PhasesLeft(phase'[c]) <= PhasesLeft(phase[c]) /\ sent[c] <= sent'[c]
    <3>1. sent[c] \in Nat
      OBVIOUS
    <3> QED
      BY <1>1, <2>1, <3>1 DEF PhasesLeft
  <2>5. Progress(c)
    BY <1>1, <2>1, <2>2, <2>4, Progresses
  <2> QED
    BY <1>1, <2>2, <2>3, <2>5, OthersKept, ListensOn
<1> QED
  BY <1>2, <1>3

(* A queue without repetitions that grows by an element it has not. *)
LEMMA Joins ==
    ASSUME NEW S, NEW sq \in Seq(S), NEW e \in S, \A i \in 1..Len(sq) : sq[i] # e,
           \A i, j \in 1..Len(sq) : sq[i] = sq[j] => i = j
    PROVE  /\ \A i, j \in 1..Len(Append(sq, e)) : Append(sq, e)[i] = Append(sq, e)[j] => i = j
           /\ \A i \in 1..Len(Append(sq, e)) : Append(sq, e)[i] = e \/ \E j \in 1..Len(sq) : Append(sq, e)[i] = sq[j]
           /\ \A j \in 1..Len(sq) : \E i \in 1..Len(Append(sq, e)) : Append(sq, e)[i] = sq[j]
           /\ \E i \in 1..Len(Append(sq, e)) : Append(sq, e)[i] = e
<1>1. Len(sq) \in Nat
  OBVIOUS
<1>2. PICK t : t = Append(sq, e)
  OBVIOUS
<1>3. /\ Len(t) = Len(sq) + 1 /\ t[Len(sq) + 1] = e
      /\ \A i \in 1..Len(sq) : t[i] = sq[i]
  BY <1>2, AppendProperties
<1>4. \A i \in 1..Len(t) : i \in 1..Len(sq) \/ i = Len(sq) + 1
  BY <1>1, <1>3
<1>5. Len(sq) + 1 \in 1..Len(t) /\ \A i \in 1..Len(sq) : i \in 1..Len(t)
  BY <1>1, <1>3
<1>6. \A i, j \in 1..Len(t) : t[i] = t[j] => i = j
  BY <1>3, <1>4
<1> QED
  BY <1>2, <1>3, <1>4, <1>5, <1>6

LEMMA ConnectStep ==
    ASSUME ServerInv, TcpInv', NEW c \in Conns, Connect(c)
    PROVE  ServerInv' /\ Progress(c)
<1>1. /\ Kept(c) /\ phase[c] = "none" /\ phase' = [phase EXCEPT ![c] = "backlog"]
      /\ backlog' = Append(backlog, c) /\ result' = [result EXCEPT ![c] = "waiting"]
      /\ UNCHANGED <<armed, announced, sent, eof, filled>>
  BY DEF Connect, clientVars, ServerInv
<1>2. TcpInv /\ TcpTypeOK /\ Listening
  BY DEF ServerInv, TcpInv
<1>3. OnlyOf(c)
  BY <1>1, <1>2 DEF OnlyOf, TcpTypeOK
<1>4. phase'[c] = "backlog" /\ result'[c] = "waiting" /\ eof'[c] = eof[c] /\ sent'[c] = sent[c] /\ sent[c] \in Nat
  BY <1>1, <1>2 DEF TcpTypeOK
<1>5. Kept(c)'
  BY <1>1, <1>4 DEF Kept, Due
<1>6. Progress(c)
  <2>1. PhasesLeft(phase[c]) = 5 /\ PhasesLeft(phase'[c]) = 4 /\ sent[c] <= sent'[c]
    BY <1>1, <1>4 DEF PhasesLeft
  <2>2. PhasesLeft(phase'[c]) < PhasesLeft(phase[c]) /\ PhasesLeft(phase'[c]) <= PhasesLeft(phase[c])
    BY <2>1
  <2> QED
    BY <1>2, <1>3, <1>4, <2>1, <2>2, Progresses
<1>7. Listening'
  <2>1. backlog \in Seq(Conns) /\ \A i \in 1..Len(backlog) : backlog[i] \in Conns /\ backlog[i] # c
    BY <1>1, <1>2 DEF TcpTypeOK, Listening
  <2>2. \A i, j \in 1..Len(backlog) : backlog[i] = backlog[j] => i = j
    BY <1>2 DEF Listening
  <2>3. /\ \A i, j \in 1..Len(backlog') : backlog'[i] = backlog'[j] => i = j
        /\ \A i \in 1..Len(backlog') : backlog'[i] = c \/ \E j \in 1..Len(backlog) : backlog'[i] = backlog[j]
        /\ \A j \in 1..Len(backlog) : \E i \in 1..Len(backlog') : backlog'[i] = backlog[j]
        /\ \E i \in 1..Len(backlog') : backlog'[i] = c
    BY <1>1, <2>1, <2>2, Joins
  <2>4. \A i \in 1..Len(backlog') : phase'[backlog'[i]] = "backlog"
    BY <1>1, <1>2, <2>1, <2>3 DEF TcpTypeOK, Listening
  <2>5. ASSUME NEW d \in Conns, phase'[d] = "backlog" PROVE \E i \in 1..Len(backlog') : backlog'[i] = d
    BY <1>1, <1>2, <2>3, <2>5 DEF TcpTypeOK, Listening
  <2> QED
    BY <1>1, <1>2, <2>3, <2>4, <2>5 DEF Listening
<1> QED
  BY <1>3, <1>5, <1>6, <1>7, OthersKept DEF ServerInv

(* A queue without repetitions that loses its head. *)
LEMMA Departs ==
    ASSUME NEW S, NEW sq \in Seq(S), sq # <<>>,
           \A i, j \in 1..Len(sq) : sq[i] = sq[j] => i = j
    PROVE  /\ Head(sq) \in S /\ \E i \in 1..Len(sq) : sq[i] = Head(sq)
           /\ \A i, j \in 1..Len(Tail(sq)) : Tail(sq)[i] = Tail(sq)[j] => i = j
           /\ \A i \in 1..Len(Tail(sq)) : Tail(sq)[i] # Head(sq) /\ \E j \in 1..Len(sq) : Tail(sq)[i] = sq[j]
           /\ \A j \in 1..Len(sq) : sq[j] # Head(sq) => \E i \in 1..Len(Tail(sq)) : Tail(sq)[i] = sq[j]
<1>1. Len(sq) \in Nat /\ Len(sq) >= 1 /\ Head(sq) = sq[1]
  OBVIOUS
<1>2. PICK t : t = Tail(sq)
  OBVIOUS
<1>3. Len(t) = Len(sq) - 1 /\ \A i \in 1..Len(t) : t[i] = sq[i + 1]
  BY <1>1, <1>2
<1>4. \A i \in 1..Len(t) : i + 1 \in 1..Len(sq) /\ i + 1 # 1
  BY <1>1, <1>3
<1>5. \A j \in 1..Len(sq) : j = 1 \/ (j - 1 \in 1..Len(t) /\ (j - 1) + 1 = j)
  BY <1>1, <1>3
<1>6. 1 \in 1..Len(sq) /\ sq[1] \in S
  BY <1>1
<1>7. \A i, j \in 1..Len(t) : t[i] = t[j] => i = j
  <2> SUFFICES ASSUME NEW i \in 1..Len(t), NEW j \in 1..Len(t), t[i] = t[j] PROVE i = j
    OBVIOUS
  <2>1. i + 1 = j + 1
    BY <1>3, <1>4
  <2> QED
    BY <1>1, <1>3, <2>1
<1>8. \A i \in 1..Len(t) : t[i] # Head(sq) /\ \E j \in 1..Len(sq) : t[i] = sq[j]
  BY <1>1, <1>3, <1>4, <1>6
<1>9. \A j \in 1..Len(sq) : sq[j] # Head(sq) => \E i \in 1..Len(t) : t[i] = sq[j]
  BY <1>1, <1>3, <1>5
<1>10. Head(sq) \in S /\ \E i \in 1..Len(sq) : sq[i] = Head(sq)
  BY <1>1, <1>6
<1>11. \A i, j \in 1..Len(Tail(sq)) : Tail(sq)[i] = Tail(sq)[j] => i = j
  BY <1>2, <1>7, Zenon
<1>12. \A i \in 1..Len(Tail(sq)) : Tail(sq)[i] # Head(sq) /\ \E j \in 1..Len(sq) : Tail(sq)[i] = sq[j]
  BY <1>2, <1>8, Zenon
<1>13. \A j \in 1..Len(sq) : sq[j] # Head(sq) => \E i \in 1..Len(Tail(sq)) : Tail(sq)[i] = sq[j]
  BY <1>2, <1>9, Zenon
<1> QED
  BY <1>10, <1>11, <1>12, <1>13, Zenon

LEMMA AcceptStep ==
    ASSUME ServerInv, TcpInv', OnAccept
    PROVE  ServerInv' /\ (UNCHANGED tcpVars \/ \E c \in Conns : Progress(c))
<1>1. TcpInv /\ TcpTypeOK /\ Listening /\ armed' = armed
  BY DEF ServerInv, TcpInv, Listening, OnAccept
<1>2. CASE UNCHANGED <<phase, backlog>>
  <2>1. UNCHANGED tcpVars
    BY <1>1, <1>2 DEF OnAccept, tcpVars, clientVars
  <2>2. Listening'
    BY <2>1, <1>1 DEF Listening, tcpVars
  <2>3. ASSUME NEW c \in Conns PROVE Kept(c)'
    BY <2>1 DEF Kept, Due, tcpVars, ServerInv
  <2> QED
    BY <2>1, <2>2, <2>3 DEF ServerInv
<1>3. CASE ~UNCHANGED <<phase, backlog>>
  <2>1. PICK c : c = Head(backlog)
    OBVIOUS
  <2>2. /\ backlog \in Seq(Conns) /\ backlog # <<>> /\ \A i, j \in 1..Len(backlog) : backlog[i] = backlog[j] => i = j
    BY <1>1 DEF OnAccept, TcpTypeOK, Listening
  <2>3. /\ c \in Conns /\ \E i \in 1..Len(backlog) : backlog[i] = c
        /\ \A i, j \in 1..Len(Tail(backlog)) : Tail(backlog)[i] = Tail(backlog)[j] => i = j
        /\ \A i \in 1..Len(Tail(backlog)) :
              Tail(backlog)[i] # c /\ \E j \in 1..Len(backlog) : Tail(backlog)[i] = backlog[j]
        /\ \A j \in 1..Len(backlog) :
              backlog[j] # c => \E i \in 1..Len(Tail(backlog)) : Tail(backlog)[i] = backlog[j]
    BY <2>1, <2>2, Departs
  <2>4. /\ phase' = [phase EXCEPT ![c] = "length"] /\ backlog' = Tail(backlog)
        /\ UNCHANGED <<armed, announced, sent, eof, result, filled>> /\ phase[c] = "backlog"
    BY <1>1, <1>3, <2>1, <2>3 DEF OnAccept, clientVars, Listening
  <2>5. OnlyOf(c)
    BY <1>1, <2>3, <2>4 DEF OnlyOf, TcpTypeOK
  <2>6. phase'[c] = "length" /\ eof'[c] = eof[c] /\ sent'[c] = sent[c] /\ sent[c] \in Nat
    BY <1>1, <2>3, <2>4 DEF TcpTypeOK
  <2>7. Kept(c)'
    <3>1. Kept(c)
      BY <2>3 DEF ServerInv
    <3> QED
      BY <2>4, <2>6, <3>1 DEF Kept, Due
  <2>8. Progress(c)
    <3>1. PhasesLeft(phase[c]) = 4 /\ PhasesLeft(phase'[c]) = 3 /\ sent[c] <= sent'[c]
      BY <2>4, <2>6 DEF PhasesLeft
    <3>2. PhasesLeft(phase'[c]) < PhasesLeft(phase[c]) /\ PhasesLeft(phase'[c]) <= PhasesLeft(phase[c])
      BY <3>1
    <3>3. c \in Conns /\ TcpInv /\ sent[c] <= sent'[c] /\ (eof[c] => eof'[c])
      BY <1>1, <2>3, <2>6, <3>1
    <3> QED
      BY <2>5, <3>2, <3>3, Progresses
  <2>9. Listening'
    <3>1. ASSUME NEW i \in 1..Len(Tail(backlog)) PROVE phase'[Tail(backlog)[i]] = "backlog"
      <4>1. PICK j \in 1..Len(backlog) : Tail(backlog)[i] = backlog[j] /\ backlog[j] # c
        BY <2>3
      <4>2. backlog[j] \in Conns /\ phase[backlog[j]] = "backlog"
        BY <1>1, <2>2 DEF Listening
      <4>3. phase'[backlog[j]] = phase[backlog[j]]
        BY <1>1, <2>4, <4>1, <4>2 DEF TcpTypeOK
      <4> QED
        BY <4>1, <4>2, <4>3
    <3>2. ASSUME NEW d \in Conns, phase'[d] = "backlog"
          PROVE  \E i \in 1..Len(Tail(backlog)) : Tail(backlog)[i] = d
      <4>1. d # c /\ phase[d] = "backlog"
        BY <1>1, <2>3, <2>4, <3>2 DEF TcpTypeOK
      <4>2. PICK j \in 1..Len(backlog) : backlog[j] = d
        BY <1>1, <4>1 DEF Listening
      <4> QED
        BY <2>3, <4>1, <4>2
    <3> QED
      BY <1>1, <2>3, <2>4, <3>1, <3>2 DEF Listening
  <2> QED
    BY <2>3, <2>5, <2>7, <2>8, <2>9, OthersKept DEF ServerInv
<1> QED
  BY <1>2, <1>3

(* A handler takes a session to its next phase, or ends it with what its   *)
(* client is due.                                                          *)
LEMMA HandlerStep ==
    ASSUME ServerInv, TcpInv', NEW c \in Conns, Handler(c)
    PROVE  ServerInv' /\ Progress(c)
<1>1. TcpInv /\ TcpTypeOK /\ Listening /\ Kept(c)
  BY DEF ServerInv, TcpInv
<1>2. /\ phase[c] \in {"length", "message", "write"} /\ phase' = [phase EXCEPT ![c] = phase'[c]]
      /\ phase'[c] \in {"message", "write", "closed"}
      /\ PhasesLeft(phase'[c]) < PhasesLeft(phase[c])
      /\ UNCHANGED <<armed, backlog, announced, sent, eof>>
  <2> USE <1>1 DEF TcpTypeOK, clientVars, PhasesLeft
  <2>1. CASE OnLength(c)
    BY <2>1 DEF OnLength, Ends
  <2>2. CASE OnMessage(c)
    BY <2>2 DEF OnMessage, Ends
  <2>3. CASE OnReadError(c) \/ OnWritten(c)
    BY <2>3 DEF OnReadError, OnWritten, Ends
  <2> QED
    BY <2>1, <2>2, <2>3 DEF Handler
<1>3. /\ result' = [result EXCEPT ![c] = result'[c]] /\ filled' = [filled EXCEPT ![c] = filled'[c]]
      /\ phase'[c] # "closed" => result'[c] = "waiting"
      /\ phase'[c] = "closed" =>
            /\ result'[c] # "none"
            /\ eof[c] \/ result'[c] = Due(c) \/ (c \in Chatty /\ result'[c] = "dropped")
      /\ phase'[c] = "write" => announced[c] \in Answerable
  <2>1. result[c] = "waiting" /\ (phase[c] = "write" => announced[c] \in Answerable)
    BY <1>1, <1>2 DEF Kept
  <2> USE <1>1, <2>1 DEF TcpTypeOK, clientVars, Due
  <2>2. CASE OnLength(c)
    <3>1. CASE TooLong(c)
      <4>1. announced[c] \notin Answerable
        BY <3>1, Numbers, LengthsAssumption DEF TooLong
      <4> QED
        BY <2>2, <3>1, <4>1 DEF OnLength, Ends
    <3>2. CASE ~TooLong(c)
      BY <2>2, <3>2 DEF OnLength
    <3> QED
      BY <3>1, <3>2
  <2>3. CASE OnMessage(c)
    BY <2>3 DEF OnMessage, Ends
  <2>4. CASE OnReadError(c)
    <3>1. eof[c] /\ filled' = filled /\ phase' = [phase EXCEPT ![c] = "closed"]
      BY <2>4 DEF OnReadError, Ends
    <3>2. result' = [result EXCEPT ![c] = "dropped"]
      BY <2>4 DEF OnReadError, Ends
    <3>3. phase'[c] = "closed" /\ result'[c] = "dropped" /\ filled'[c] = filled[c]
      BY <3>1, <3>2
    <3>4. filled' = [filled EXCEPT ![c] = filled'[c]]
      BY <3>1, <3>3
    <3> QED
      BY <3>1, <3>2, <3>3, <3>4
  <2>5. CASE OnWritten(c)
    <3>1. CASE Ends(c, "answered")
      BY <2>5, <3>1 DEF OnWritten, Ends
    <3>2. CASE (eof[c] \/ c \in Chatty) /\ Ends(c, "dropped")
      BY <2>5, <3>2 DEF OnWritten, Ends
    <3> QED
      BY <2>5, <3>1, <3>2 DEF OnWritten
  <2> QED
    BY <2>2, <2>3, <2>4, <2>5 DEF Handler
<1>4. OnlyOf(c)
  BY <1>1, <1>2, <1>3 DEF OnlyOf, TcpTypeOK
<1>5. Kept(c)'
  BY <1>1, <1>2, <1>3 DEF Kept, Due
<1>6. Progress(c)
  <2>1. sent[c] \in Nat /\ sent'[c] = sent[c] /\ eof'[c] = eof[c]
    BY <1>1, <1>2 DEF TcpTypeOK
  <2>2. PhasesLeft(phase'[c]) <= PhasesLeft(phase[c]) /\ sent[c] <= sent'[c]
    BY <1>2, <2>1 DEF PhasesLeft
  <2> QED
    BY <1>1, <1>2, <1>4, <2>1, <2>2, Progresses
<1>7. \A d \in Conns : phase'[d] = "backlog" <=> phase[d] = "backlog"
  BY <1>1, <1>2 DEF TcpTypeOK
<1> QED
  BY <1>2, <1>4, <1>5, <1>6, <1>7, OthersKept, ListensOn DEF ServerInv

LEMMA ServerKept == ServerInv /\ UNCHANGED tcpVars => ServerInv'
<1> SUFFICES ASSUME ServerInv, UNCHANGED tcpVars PROVE ServerInv'
  OBVIOUS
<1>1. TcpInv'
  BY TcpNextInv DEF ServerInv
<1>2. Listening'
  BY DEF ServerInv, Listening, tcpVars
<1>3. ASSUME NEW c \in Conns PROVE Kept(c)'
  BY DEF ServerInv, Kept, Due, tcpVars
<1> QED
  BY <1>1, <1>2, <1>3 DEF ServerInv

LEMMA ServerStep ==
    ASSUME ServerInv, [TcpNext]_tcpVars
    PROVE  ServerInv' /\ (UNCHANGED tcpVars \/ \E c \in Conns : Progress(c))
<1>1. TcpInv'
  BY TcpNextInv DEF ServerInv
<1>2. CASE OnAccept
  BY <1>1, <1>2, AcceptStep
<1>3. ASSUME NEW c \in Conns, Connect(c) PROVE ServerInv' /\ \E d \in Conns : Progress(d)
  BY <1>1, <1>3, ConnectStep
<1>4. ASSUME NEW c \in Conns, Send(c) \/ Leave(c) PROVE ServerInv' /\ \E d \in Conns : Progress(d)
  BY <1>1, <1>4, ClientSteps
<1>5. ASSUME NEW c \in Conns, Handler(c) PROVE ServerInv' /\ \E d \in Conns : Progress(d)
  BY <1>1, <1>5, HandlerStep
<1>6. CASE Over \/ UNCHANGED tcpVars
  <2>1. UNCHANGED tcpVars
    BY <1>6 DEF Over
  <2> QED
    BY <2>1, ServerKept
<1> QED
  BY <1>2, <1>3, <1>4, <1>5, <1>6 DEF TcpNext

LEMMA ServerInvariance == TcpSpec => []ServerInv
<1>1. ServerInv /\ [TcpNext]_tcpVars => ServerInv'
  BY ServerStep
<1> QED
  BY <1>1, ServerInit, PTL DEF TcpSpec

Descends(c) == ConnectionLeft(c)' \in Nat /\ ConnectionLeft(c)' < ConnectionLeft(c)

(* Every step of the server or of a client uses up something of one        *)
(* connection, a phase, bytes or its client's leaving, and touches no other*)
(* connection: no connection is served forever, and only async_accept,     *)
(* when no descriptor is free, can complete without end, changing nothing. *)
THEOREM ConnectionsDescend ==
    TcpSpec => [][\E c \in Conns :
                    /\ Descends(c)
                    /\ \A d \in Conns \ {c} : UNCHANGED Connection(d)]_tcpVars
<1>1. ASSUME TcpInv, NEW c \in Conns, Progress(c)
      PROVE  Descends(c) /\ \A d \in Conns \ {c} : UNCHANGED Connection(d)
  BY <1>1 DEF Progress, Descends, OnlyOf, Connection, TcpInv, TcpTypeOK
<1>2. ServerInv /\ [TcpNext]_tcpVars
         => [\E c \in Conns :
               /\ Descends(c)
               /\ \A d \in Conns \ {c} : UNCHANGED Connection(d)]_tcpVars
  <2> SUFFICES ASSUME ServerInv, [TcpNext]_tcpVars
               PROVE  \/ UNCHANGED tcpVars
                      \/ \E c \in Conns :
                            Descends(c) /\ \A d \in Conns \ {c} : UNCHANGED Connection(d)
    OBVIOUS
  <2>1. TcpInv
    BY DEF ServerInv
  <2> QED
    BY <2>1, <1>1, ServerStep
<1> QED
  BY <1>2, ServerInvariance, PTL DEF TcpSpec

(* What the scheduler still has to run, and careful clients to send. *)
CanAccept == armed /\ backlog # <<>> /\ Cardinality(Open) < MaxOpen
CanHandle(c) ==
    \/ phase[c] = "length" /\ sent[c] >= Prefix
    \/ phase[c] = "message" /\ Arrived(c)
    \/ phase[c] \in {"length", "message"} /\ eof[c] /\ sent[c] < Needed(c)
    \/ phase[c] = "write"
CanSend(c) == phase[c] \notin {"none", "closed"} /\ ~eof[c] /\ sent[c] < Total(c)

AtRest == ~CanAccept /\ (\A c \in Conns : ~CanHandle(c)) /\ \A c \in Conns \ Careless : ~CanSend(c)

(* When nothing is left to do, no client that sent its query whole is kept *)
(* waiting: it has the answer, or a closed connection if its query has no  *)
(* answer, unless careless clients hold every descriptor there is; only a  *)
(* client that went on with a second query may have lost the answer.       *)
ServedAtRest ==
    AtRest => \A c \in Conns \ Careless :
       \/ result[c] = "none"
       \/ result[c] = "answered" /\ announced[c] \in Answerable
       \/ result[c] = "dropped" /\ (announced[c] \notin Answerable \/ c \in Chatty)
       \/ phase[c] = "backlog" /\ ~(Cardinality(Open) < MaxOpen) /\ Open \subseteq Careless

(* A quiet server has served every careful client it has room for, for     *)
(* every number of connections and of descriptors.                         *)
THEOREM ServedWhenQuiet == TcpSpec => []ServedAtRest
<1>1. ServerInv => ServedAtRest
  <2> SUFFICES ASSUME ServerInv, AtRest, NEW c \in Conns \ Careless
               PROVE  \/ result[c] = "none"
                      \/ result[c] = "answered" /\ announced[c] \in Answerable
                      \/ result[c] = "dropped" /\ (announced[c] \notin Answerable \/ c \in Chatty)
                      \/ phase[c] = "backlog" /\ ~(Cardinality(Open) < MaxOpen) /\ Open \subseteq Careless
    BY DEF ServedAtRest
  <2>1. TcpTypeOK /\ Listening /\ \A d \in Conns : Kept(d)
    BY DEF ServerInv, TcpInv
  <2>2. ASSUME NEW d \in Conns \ Careless, phase[d] \notin {"none", "backlog", "closed"} PROVE FALSE
    <3>1. ~eof[d] /\ phase[d] \in {"length", "message", "write"}
      BY <2>1, <2>2 DEF Kept, TcpTypeOK
    <3>2. ~(sent[d] < Total(d))
      BY <2>1, <3>1 DEF AtRest, CanSend
    <3>3. sent[d] >= Whole(d) /\ sent[d] >= Prefix
      BY <2>1, <3>2, Numbers
    <3> QED
      BY <3>1, <3>3 DEF AtRest, CanHandle, Arrived
  <2>3. phase[c] \in {"none", "backlog", "closed"}
    BY <2>2
  <2>4. CASE phase[c] = "backlog"
    <3>1. backlog # <<>>
      BY <2>1, <2>4 DEF Listening
    <3>2. ~(Cardinality(Open) < MaxOpen)
      BY <2>1, <3>1 DEF AtRest, CanAccept, Listening
    <3>3. Open \subseteq Careless
      BY <2>2 DEF Open
    <3> QED
      BY <2>4, <3>2, <3>3
  <2>5. CASE phase[c] \in {"none", "closed"}
    BY <2>1, <2>5 DEF Kept, Due
  <2> QED
    BY <2>3, <2>4, <2>5
<1> QED
  BY <1>1, ServerInvariance, PTL
=============================================================================
