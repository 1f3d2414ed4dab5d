--------------------------- MODULE HeadersProofs ---------------------------
(***************************************************************************)
(* Proofs about the text that crosses between guest and browser, for       *)
(* arrays of every size, every request and every text of headers.          *)
(***************************************************************************)
EXTENDS Headers, FiniteSetTheorems, SequenceTheorems, WellFoundedInduction, TLAPS

Arrays(size) == [0..(size - 1) -> Chars \cup {NUL}]
Pairs == Arrays(FieldSize) \X Arrays(FieldSize)

Types ==
    /\ request \in Requests /\ text \in Text
    /\ pc \in {"begin", "fill", "fetch", "split", "respond", "done"} /\ i \in Nat \ {0}
    /\ mmio_req \in [url : Arrays(UrlSize), method : Arrays(MethodSize), headers : Seq(Pairs)]
    /\ Len(mmio_req.headers) <= MaxHeaders
    /\ mmio_res \in Seq(Pairs) /\ Len(mmio_res) <= MaxHeaders

(* The elements of a set of positions, each with what F has for it, are    *)
(* listed in order by a sequence, and there is nothing else in it.         *)
Below(S, n) == {k \in S : k < n}

Lists(s, S, F) ==
    /\ Len(s) = Cardinality(S)
    /\ \A k \in S : s[Place(S, k)] = F[k]

(* What there is room for is in the arrays. *)
Complete(s, S, F) ==
    /\ Len(s) = Least(Cardinality(S), MaxHeaders)
    /\ \A k \in S : Place(S, k) <= MaxHeaders => s[Place(S, k)] = F[k]

Entries(r) == [k \in Forwarded(r) |-> Pair(r.fields[k][1], r.fields[k][2])]

AskInv ==
    /\ Types
    /\ pc = "begin" => i = 1
    /\ pc \in {"begin", "fill"} => Lists(mmio_req.headers, Below(Forwarded(request), i), Entries(request))
    /\ pc \in {"begin", "fill", "fetch"} => asked = NotAsked
    /\ pc \in {"fill", "fetch"} =>
          /\ mmio_req.url = strsvcopy(UrlSize, Url(request))
          /\ mmio_req.method = strsvcopy(MethodSize, request.method)
    /\ pc = "fetch" => Complete(mmio_req.headers, Forwarded(request), Entries(request))
    /\ AskedAsRequested

(* The entry of a line in the arrays, and what the client gets of it.      *)
HeaderPair(e) ==
    LET line == Stripped(TextLine(e)) IN Pair(NameOf(line), ValueOf(line))
HeaderPairs == [e \in HeaderEnds |-> HeaderPair(e)]
HeaderFields == [e \in HeaderEnds |-> HeaderField(e)]

(* The header lines before the n-th, and the last of each name among them. *)
Answered(n) == {e \in Passing : Place(HeaderEnds, e) < n}
LastOf(D) == {e \in D : \A d \in D : Same(HeaderField(d)[1], HeaderField(e)[1]) => d <= e}

AnswerInv ==
    /\ pc \in {"begin", "fill", "fetch"} => mmio_res = <<>>
    /\ pc \in {"begin", "fill", "fetch", "split"} => response = <<>>
    /\ pc = "split" =>
          /\ i = 1 \/ i - 1 \in LineEnds
          /\ \A d \in LineEnds : d < i => TextLine(d) # <<>>
          /\ Lists(mmio_res, Below(HeaderEnds, i), HeaderPairs)
    /\ pc = "respond" =>
          /\ Complete(mmio_res, HeaderEnds, HeaderPairs)
          /\ response \in Seq(Text \X Text)
          /\ Lists(response, LastOf(Answered(i)), HeaderFields)
    /\ ResponseAsReceived
-----------------------------------------------------------------------------
(* The least of a set of naturals, and what Min takes. *)
LEMMA NaturalMin ==
    ASSUME NEW S, S \subseteq Nat, S # {}
    PROVE  Min(S) \in S /\ \A n \in S : Min(S) <= n
<1>1. PICK R : R = {ss \in Nat \X Nat : ss[1] < ss[2]}
  OBVIOUS
<1>2. IsWellFoundedOn(R, Nat)
  BY <1>1, NatLessThanWellFounded DEF OpToRel
<1>3. PICK m \in S : \A y \in S : ~ (<<y, m>> \in R)
  BY <1>2, WFMin
<1>4. \A x, y \in Nat : x < y => <<x, y>> \in R
  BY <1>1
<1>5. ASSUME NEW n \in S PROVE m <= n
  <2>1. m \in Nat /\ n \in Nat /\ ~(n < m)
    BY <1>3, <1>4
  <2> QED
    BY <2>1
<1>6. \E x \in S : \A y \in S : x <= y
  BY <1>5
<1> QED
  BY <1>6 DEF Min

LEMMA MinIs ==
    ASSUME NEW S, S \subseteq Nat, NEW m \in S, \A n \in S : m <= n
    PROVE  Min(S) = m
<1>1. Min(S) \in S /\ Min(S) <= m /\ m <= Min(S)
  BY NaturalMin
<1>2. Min(S) \in Nat /\ m \in Nat
  BY <1>1
<1> QED
  BY <1>1, <1>2

LEMMA MinOne == ASSUME NEW n \in Nat PROVE Min({n}) = n
<1>1. {n} \subseteq Nat /\ n \in {n} /\ \A m \in {n} : n <= m
  OBVIOUS
<1> QED
  BY <1>1, MinIs

(* A string fits the array it is copied to, with its NUL ... *)
LEMMA CopyType ==
    ASSUME NEW size \in Nat \ {0}, NEW sv \in Text
    PROVE  strsvcopy(size, sv) \in Arrays(size)
<1>1. ASSUME NEW k \in 0..(size - 1), k < Least(Len(sv), size) PROVE sv[k + 1] \in Chars
  BY <1>1 DEF Least, Text
<1> QED
  BY <1>1 DEF strsvcopy, Arrays

(* ... and is read back from it, cut when it was too long. *)
LEMMA ReadBack ==
    ASSUME NEW size \in Nat \ {0}, NEW sv \in Text
    PROVE  CString(strsvcopy(size, sv)) = Cut(size, sv)
<1>1. PICK array : array = strsvcopy(size, sv)
  OBVIOUS
<1>2. PICK m : m = Least(Len(sv), size - 1)
  OBVIOUS
<1>3. m \in 0..(size - 1) /\ m <= Len(sv) /\ Len(sv) \in Nat
  BY <1>2 DEF Least, Text
<1>4. ASSUME NEW k \in 0..(size - 1), k < m
      PROVE  array[k] = sv[k + 1] /\ sv[k + 1] \in Chars
  BY <1>1, <1>2, <1>3, <1>4 DEF strsvcopy, Least, Text
<1>5. array[m] = NUL
  BY <1>1, <1>2, <1>3 DEF strsvcopy
<1>6. PICK ends : ends = {k \in DOMAIN array : array[k] = NUL}
  OBVIOUS
<1>7. DOMAIN array = 0..(size - 1)
  BY <1>1 DEF strsvcopy
<1>8. ends \subseteq Nat /\ m \in ends /\ \A n \in ends : m <= n
  BY <1>3, <1>4, <1>5, <1>6, <1>7, CharsAssumption
<1>9. Min(ends) = m
  BY <1>8, MinIs
<1>10. CString(array) = [k \in 1..m |-> array[k - 1]]
  BY <1>6, <1>8, <1>9 DEF CString
<1>11. \A k \in 1..m : array[k - 1] = sv[k]
  BY <1>3, <1>4
<1>12. Cut(size, sv) = [k \in 1..m |-> sv[k]]
  BY <1>2, <1>3 DEF Cut, Text
<1> QED
  BY <1>1, <1>10, <1>11, <1>12

LEMMA EntryType ==
    ASSUME NEW name \in Text, NEW value \in Text
    PROVE  /\ Pair(name, value) \in Pairs
           /\ CString(Pair(name, value)[1]) = Cut(FieldSize, name)
           /\ CString(Pair(name, value)[2]) = Cut(FieldSize, value)
  BY CopyType, ReadBack, SizesAssumption DEF Pair, Pairs
-----------------------------------------------------------------------------
(* The places of the elements of a set of positions. *)
Positions == {S \in SUBSET Nat : IsFiniteSet(S)}

LEMMA BelowFinite ==
    ASSUME NEW S \in Positions, NEW n \in Nat
    PROVE  /\ Below(S, n) \in Positions
           /\ Cardinality(S) \in Nat /\ Cardinality(Below(S, n)) \in Nat
           /\ Cardinality(Below(S, n)) <= Cardinality(S)
<1>1. IsFiniteSet(S) /\ Below(S, n) \in SUBSET S
  BY DEF Positions, Below
<1> QED
  BY <1>1, FS_Subset, FS_CardinalityType DEF Positions

LEMMA BelowNext ==
    ASSUME NEW S \in Positions, NEW n \in Nat
    PROVE  /\ n \notin S => Below(S, n + 1) = Below(S, n)
           /\ n \in S => Below(S, n + 1) = Below(S, n) \cup {n} /\ n \notin Below(S, n)
<1>1. \A k \in S : k \in Nat /\ (k < n + 1 <=> k < n \/ k = n) /\ ~(k = n /\ k < n)
  BY DEF Positions
<1> QED
  BY <1>1 DEF Below

LEMMA Places ==
    ASSUME NEW S \in Positions, NEW k \in S
    PROVE  /\ Place(S, k) = Cardinality(Below(S, k)) + 1
           /\ Place(S, k) \in 1..Cardinality(S)
<1>1. k \in Nat /\ Below(S, k + 1) = Below(S, k) \cup {k} /\ k \notin Below(S, k)
  BY BelowNext DEF Positions
<1>2. IsFiniteSet(Below(S, k)) /\ Cardinality(Below(S, k)) \in Nat
  BY <1>1, BelowFinite DEF Positions
<1>3. Cardinality(Below(S, k + 1)) = Cardinality(Below(S, k)) + 1
  BY <1>1, <1>2, FS_AddElement
<1>4. {j \in S : j <= k} = Below(S, k + 1)
  <2>1. \A j \in S : j <= k <=> j < k + 1
    BY <1>1 DEF Positions
  <2> QED
    BY <2>1 DEF Below
<1>5. Cardinality(Below(S, k + 1)) <= Cardinality(S) /\ Cardinality(S) \in Nat
  BY <1>1, BelowFinite
<1> QED
  BY <1>2, <1>3, <1>4, <1>5 DEF Place

LEMMA PlaceOrder ==
    ASSUME NEW S \in Positions, NEW n \in Nat, NEW k \in S
    PROVE  /\ k < n => Place(S, k) <= Cardinality(Below(S, n))
           /\ k < n => Place(Below(S, n), k) = Place(S, k)
           /\ k >= n => Place(S, k) > Cardinality(Below(S, n))
<1>1. k \in Nat /\ \A j \in S : j \in Nat
  BY DEF Positions
<1>2. /\ Cardinality(Below(S, k)) \in Nat /\ Cardinality(Below(S, n)) \in Nat
      /\ Below(S, k) \in Positions
  BY <1>1, BelowFinite
<1>3. ASSUME k < n PROVE Place(Below(S, n), k) = Place(S, k)
  <2>1. \A j \in S : j <= k => j < n
    BY <1>1, <1>3
  <2>2. {j \in Below(S, n) : j <= k} = {j \in S : j <= k}
    BY <2>1 DEF Below
  <2> QED
    BY <2>2 DEF Place
<1>4. ASSUME k < n PROVE Place(S, k) <= Cardinality(Below(S, n))
  <2>1. k \in Below(S, n) /\ Below(S, n) \in Positions
    BY <1>4, BelowFinite DEF Below
  <2> QED
    BY <1>3, <1>4, <2>1, Places
<1>5. ASSUME k >= n PROVE Cardinality(Below(S, n)) <= Cardinality(Below(S, k))
  <2>1. \A j \in S : j < n => j < k
    BY <1>1, <1>5
  <2>2. Below(S, n) \in SUBSET Below(S, k)
    BY <2>1 DEF Below
  <2> QED
    BY <1>2, <2>2, FS_Subset DEF Positions
<1>6. Place(S, k) = Cardinality(Below(S, k)) + 1
  BY Places
<1> QED
  BY <1>2, <1>3, <1>4, <1>5, <1>6

LEMMA PlaceIncreases ==
    ASSUME NEW S \in Positions, NEW j \in S, NEW k \in S, j < k
    PROVE  Place(S, j) < Place(S, k)
<1>1. j \in Nat /\ k \in Nat
  BY DEF Positions
<1>2. Place(S, j) <= Cardinality(Below(S, k)) /\ Cardinality(Below(S, k)) \in Nat
  BY <1>1, PlaceOrder, BelowFinite
<1> QED
  BY <1>2, Places

(* Every place is taken. *)
LEMMA PlaceTaken ==
    ASSUME NEW S \in Positions, NEW p \in 1..Cardinality(S)
    PROVE  \E k \in S : Place(S, k) = p
<1>1. PICK n : n = Cardinality(S)
  OBVIOUS
<1>2. IsFiniteSet(S) /\ n \in Nat
  BY <1>1, FS_CardinalityType DEF Positions
<1>3. PICK f : f = [k \in S |-> Place(S, k)]
  OBVIOUS
<1>4. ASSUME NEW j \in S, NEW k \in S, f[j] = f[k] PROVE j = k
  <2>1. j \in Nat /\ k \in Nat /\ Place(S, j) = Place(S, k) /\ Place(S, j) \in Nat
    BY <1>3, <1>4, Places DEF Positions
  <2> QED
    BY <2>1, PlaceIncreases
<1>5. f \in [S -> 1..n]
  BY <1>1, <1>3, Places
<1>6. f \in Injection(S, 1..n)
  BY <1>4, <1>5 DEF Injection, IsInjective
<1>7. IsFiniteSet(1..n) /\ Cardinality(1..n) = n
  BY <1>2, FS_Interval
<1>8. f \in Surjection(S, 1..n)
  BY <1>1, <1>6, <1>7, FS_Injection
<1> QED
  BY <1>1, <1>3, <1>8 DEF Surjection

(* A sequence without its p-th element. *)
LEMMA Removed ==
    ASSUME NEW A, NEW s \in Seq(A), NEW p \in 1..Len(s)
    PROVE  /\ RemoveAt(s, p) \in Seq(A) /\ Len(RemoveAt(s, p)) = Len(s) - 1
           /\ \A q \in 1..(p - 1) : RemoveAt(s, p)[q] = s[q]
           /\ \A q \in p..(Len(s) - 1) : RemoveAt(s, p)[q] = s[q + 1]
<1>1. PICK after : after = RemoveAt(s, p)
  OBVIOUS
<1>2. PICK front, back : front = SubSeq(s, 1, p - 1) /\ back = SubSeq(s, p + 1, Len(s))
  OBVIOUS
<1>3. Len(s) \in Nat /\ p \in Nat /\ p > 0
  OBVIOUS
<1>4. /\ front \in Seq(A) /\ Len(front) = p - 1 /\ \A q \in 1..(p - 1) : front[q] = s[q]
      /\ back \in Seq(A) /\ Len(back) = Len(s) - p
      /\ \A q \in 1..(Len(s) - p) : back[q] = s[p + q]
  BY <1>2, <1>3, SubSeqProperties
<1>5. after = front \o back
  BY <1>1, <1>2 DEF RemoveAt
<1>6. after \in Seq(A) /\ Len(after) = Len(front) + Len(back)
  BY <1>4, <1>5, ConcatProperties
<1>7. \A q \in 1..Len(after) : after[q] = IF q <= Len(front) THEN front[q] ELSE back[q - Len(front)]
  BY <1>4, <1>5, ConcatProperties
<1>8. ASSUME NEW q \in p..(Len(s) - 1) PROVE after[q] = s[q + 1]
  <2>1. /\ q \in 1..Len(after) /\ ~(q <= Len(front))
        /\ q - (p - 1) \in 1..(Len(s) - p)
    <3>1. PICK l \in Nat, n \in Nat : l = Len(s) /\ n = p /\ n > 0
      BY <1>3
    <3>2. Len(front) = n - 1 /\ Len(after) = (n - 1) + (l - n) /\ q \in n..(l - 1)
      BY <1>4, <1>6, <3>1
    <3>3. q \in 1..((n - 1) + (l - n)) /\ ~(q <= n - 1) /\ q - (n - 1) \in 1..(l - n)
      BY <3>1, <3>2
    <3> QED
      BY <3>1, <3>2, <3>3
  <2>2. after[q] = back[q - (p - 1)]
    BY <1>4, <1>7, <2>1
  <2>3. p + (q - (p - 1)) = q + 1
    BY <1>3
  <2> QED
    BY <1>4, <2>1, <2>2, <2>3
<1>9. ASSUME NEW q \in 1..(p - 1) PROVE after[q] = s[q]
  <2>1. q \in 1..Len(after) /\ q <= Len(front)
    BY <1>3, <1>4, <1>6
  <2> QED
    BY <1>4, <1>7, <2>1
<1>10. Len(after) = Len(s) - 1
  BY <1>3, <1>4, <1>6
<1> QED
  BY <1>1, <1>6, <1>8, <1>9, <1>10

(* A list grows at its end ... *)
LEMMA ListGrows ==
    ASSUME NEW S \in Positions, NEW F, NEW A, NEW s \in Seq(A), Lists(s, S, F),
           NEW y \in Nat, \A k \in S : k < y, F[y] \in A
    PROVE  S \cup {y} \in Positions /\ Lists(Append(s, F[y]), S \cup {y}, F)
<1>1. PICK after, T : after = Append(s, F[y]) /\ T = S \cup {y}
  OBVIOUS
<1>2. y \notin S /\ IsFiniteSet(S) /\ S \subseteq Nat
  BY DEF Positions
<1>3. T \in Positions /\ Cardinality(T) = Cardinality(S) + 1
  BY <1>1, <1>2, FS_AddElement DEF Positions
<1>4. Below(T, y) = S
  <2>1. ~(y < y) /\ \A k \in S : k < y
    OBVIOUS
  <2> QED
    BY <1>1, <2>1 DEF Below
<1>5. /\ Len(after) = Len(s) + 1
      /\ \A p \in 1..Len(s) : after[p] = s[p]
      /\ after[Len(s) + 1] = F[y]
  BY <1>1, AppendProperties
<1>6. ASSUME NEW k \in T PROVE after[Place(T, k)] = F[k]
  <2>1. CASE k = y
    BY <1>1, <1>3, <1>4, <1>5, <2>1, Places DEF Lists
  <2>2. CASE k # y
    <3>1. k \in S /\ k < y
      BY <1>1, <2>2
    <3>2. Place(S, k) = Place(T, k)
      BY <1>3, <1>4, <3>1, PlaceOrder
    <3>3. Place(S, k) \in 1..Len(s)
      BY <3>1, Places DEF Lists
    <3> QED
      BY <1>5, <3>1, <3>2, <3>3 DEF Lists
  <2> QED
    BY <2>1, <2>2
<1> QED
  BY <1>1, <1>3, <1>5, <1>6 DEF Lists

(* ... and anything can be taken out of it. *)
LEMMA ListShrinks ==
    ASSUME NEW S \in Positions, NEW F, NEW A, NEW s \in Seq(A), Lists(s, S, F), NEW x \in S
    PROVE  /\ S \ {x} \in Positions
           /\ RemoveAt(s, Place(S, x)) \in Seq(A)
           /\ Lists(RemoveAt(s, Place(S, x)), S \ {x}, F)
<1>1. PICK after, T, p : after = RemoveAt(s, p) /\ T = S \ {x} /\ p = Place(S, x)
  OBVIOUS
<1>2. IsFiniteSet(S) /\ S \subseteq Nat
  BY DEF Positions
<1>3. T \in Positions /\ Cardinality(T) = Cardinality(S) - 1
  BY <1>1, <1>2, FS_RemoveElement DEF Positions
<1>4. p \in 1..Len(s) /\ Len(s) \in Nat
  BY <1>1, Places DEF Lists
<1>5. /\ after \in Seq(A) /\ Len(after) = Len(s) - 1
      /\ \A q \in 1..(p - 1) : after[q] = s[q]
      /\ \A q \in p..(Len(s) - 1) : after[q] = s[q + 1]
  BY <1>1, <1>4, Removed
<1>6. ASSUME NEW k \in T PROVE after[Place(T, k)] = F[k]
  <2>1. k \in S /\ k \in Nat /\ x \in Nat /\ k # x /\ s[Place(S, k)] = F[k]
    BY <1>1, <1>2 DEF Lists
  <2>2. CASE k < x
    <3>1. {j \in T : j <= k} = {j \in S : j <= k}
      BY <1>1, <1>2, <2>1, <2>2
    <3>2. Place(T, k) = Place(S, k) /\ Place(S, k) < p /\ Place(S, k) \in Nat \ {0}
      BY <1>1, <2>1, <2>2, <3>1, PlaceIncreases, Places DEF Place
    <3> QED
      BY <1>4, <1>5, <2>1, <3>2
  <2>3. CASE k > x
    <3>1. /\ {j \in T : j <= k} = {j \in S : j <= k} \ {x}
          /\ x \in {j \in S : j <= k} /\ IsFiniteSet({j \in S : j <= k})
      BY <1>1, <1>2, <2>1, <2>3, FS_Subset
    <3>2. Place(T, k) = Place(S, k) - 1
      BY <3>1, FS_RemoveElement DEF Place
    <3>3. p < Place(S, k) /\ Place(S, k) \in 1..Len(s)
      BY <1>1, <2>1, <2>3, PlaceIncreases, Places DEF Lists
    <3>4. PICK q : q = Place(T, k)
      OBVIOUS
    <3>5. q \in p..(Len(s) - 1) /\ q + 1 = Place(S, k)
      BY <1>4, <3>2, <3>3, <3>4
    <3> QED
      BY <1>5, <2>1, <3>4, <3>5
  <2> QED
    BY <2>1, <2>2, <2>3
<1>7. Len(after) = Cardinality(T)
  BY <1>3, <1>5 DEF Lists
<1> QED
  BY <1>1, <1>3, <1>5, <1>6, <1>7 DEF Lists

(* A list of what comes before n is complete when nothing comes after, or  *)
(* the arrays are full.                                                    *)
LEMMA ListEnds ==
    ASSUME NEW S \in Positions, NEW F, NEW s, NEW n \in Nat, Lists(s, Below(S, n), F),
           Len(s) <= MaxHeaders, (\A k \in S : k < n) \/ Full(s)
    PROVE  Complete(s, S, F)
<1>1. /\ Cardinality(S) \in Nat /\ Cardinality(Below(S, n)) \in Nat
      /\ Cardinality(Below(S, n)) <= Cardinality(S)
      /\ Len(s) = Cardinality(Below(S, n)) /\ MaxHeaders \in Nat
  BY BelowFinite, SizesAssumption DEF Lists
<1>2. ASSUME NEW k \in Below(S, n) PROVE s[Place(S, k)] = F[k]
  BY <1>2, PlaceOrder DEF Lists, Below
<1>3. CASE \A k \in S : k < n
  <2>1. Below(S, n) = S
    BY <1>3 DEF Below
  <2> QED
    BY <1>1, <1>2, <2>1 DEF Complete, Least
<1>4. CASE Full(s)
  <2>1. Cardinality(Below(S, n)) = MaxHeaders
    BY <1>1, <1>4 DEF Full
  <2>2. ASSUME NEW k \in S, Place(S, k) <= MaxHeaders PROVE k \in Below(S, n)
    <3>1. k \in Nat /\ Place(S, k) \in Nat /\ (k >= n => Place(S, k) > MaxHeaders)
      BY <2>1, PlaceOrder, Places DEF Positions
    <3>2. k < n
      BY <1>1, <2>2, <3>1
    <3> QED
      BY <3>2 DEF Below
  <2> QED
    BY <1>1, <1>2, <2>1, <2>2 DEF Complete, Least
<1> QED
  BY <1>3, <1>4

(* The places in the arrays are those of the elements there is room for. *)
LEMMA PlaceInArrays ==
    ASSUME NEW S \in Positions, NEW F, NEW s, Complete(s, S, F)
    PROVE  /\ \A k \in S : Place(S, k) <= MaxHeaders => Place(S, k) \in 1..Len(s)
           /\ \A p \in 1..Len(s) : \E k \in S :
                 Place(S, k) = p /\ p <= MaxHeaders /\ s[p] = F[k]
<1>1. Cardinality(S) \in Nat /\ MaxHeaders \in Nat
  BY SizesAssumption, FS_CardinalityType DEF Positions
<1>2. ASSUME NEW k \in S, Place(S, k) <= MaxHeaders PROVE Place(S, k) \in 1..Len(s)
  BY <1>1, <1>2, Places DEF Complete, Least
<1>3. ASSUME NEW p \in 1..Len(s) PROVE \E k \in S : Place(S, k) = p /\ p <= MaxHeaders /\ s[p] = F[k]
  <2>1. p \in 1..Cardinality(S) /\ p <= MaxHeaders
    BY <1>1 DEF Complete, Least
  <2>2. PICK k \in S : Place(S, k) = p
    BY <2>1, PlaceTaken
  <2> QED
    BY <2>1, <2>2 DEF Complete
<1> QED
  BY <1>2, <1>3

LEMMA ForwardedFinite ==
    ASSUME NEW r \in Requests
    PROVE  /\ Forwarded(r) \in Positions /\ Forwarded(r) \subseteq 1..Len(r.fields)
           /\ Len(r.fields) \in Nat
<1>1. Len(r.fields) \in Nat /\ DOMAIN r.fields = 1..Len(r.fields)
  BY DEF Requests
<1>2. Forwarded(r) \in SUBSET (1..Len(r.fields)) /\ IsFiniteSet(1..Len(r.fields))
  BY <1>1, FS_Interval DEF Forwarded
<1>3. IsFiniteSet(Forwarded(r)) /\ Forwarded(r) \subseteq Nat
  BY <1>1, <1>2, FS_Subset
<1> QED
  BY <1>1, <1>2, <1>3 DEF Positions
-----------------------------------------------------------------------------
(* The name and the value of a line are texts. *)
LEMMA PartOfText ==
    ASSUME NEW s \in Text, NEW m \in Nat \ {0}, NEW n \in Int, n <= Len(s)
    PROVE  SubSeq(s, m, n) \in Text
  BY SubSeqProperties DEF Text

LEMMA CutType ==
    ASSUME NEW size \in Nat \ {0}, NEW sv \in Text
    PROVE  Cut(size, sv) \in Text
<1>1. Least(Len(sv), size - 1) \in Int /\ Least(Len(sv), size - 1) <= Len(sv)
  BY DEF Least, Text
<1> QED
  BY <1>1, PartOfText DEF Cut

LEMMA NaturalMax ==
    ASSUME NEW N \in Nat, NEW S, S \subseteq 0..N, S # {}
    PROVE  Max(S) \in S /\ \A n \in S : n <= Max(S)
<1>1. PICK T : T = {N - n : n \in S}
  OBVIOUS
<1>2. T \subseteq Nat /\ T # {}
  <2>1. \A n \in S : N - n \in Nat
    OBVIOUS
  <2> QED
    BY <1>1, <2>1
<1>3. PICK m \in S : Min(T) = N - m
  BY <1>1, <1>2, NaturalMin
<1>4. ASSUME NEW n \in S PROVE m >= n
  <2>1. N - n \in T /\ n \in Nat /\ m \in Nat
    BY <1>1
  <2>2. N - m <= N - n
    BY <1>2, <1>3, <2>1, NaturalMin
  <2> QED
    BY <2>1, <2>2
<1>5. \E x \in S : \A y \in S : x >= y
  BY <1>4
<1>6. Max(S) \in S /\ \A y \in S : Max(S) >= y
  BY <1>5 DEF Max
<1> QED
  BY <1>6

LEMMA EndsFinite ==
    ASSUME text \in Text
    PROVE  /\ LineEnds \subseteq 1..Len(text) /\ Len(text) \in Nat
           /\ HeaderEnds \in Positions /\ HeaderEnds \subseteq LineEnds
<1>1. LineEnds \subseteq 1..Len(text) /\ Len(text) \in Nat
  BY DEF LineEnds, Text
<1>2. HeaderEnds \in SUBSET (1..Len(text)) /\ HeaderEnds \subseteq LineEnds
  BY <1>1 DEF HeaderEnds
<1>3. IsFiniteSet(1..Len(text)) /\ 1..Len(text) \subseteq Nat
  BY <1>1, FS_Interval
<1>4. IsFiniteSet(HeaderEnds) /\ HeaderEnds \in SUBSET Nat
  BY <1>2, <1>3, FS_Subset
<1> QED
  BY <1>1, <1>2, <1>4 DEF Positions

LEMMA LineType ==
    ASSUME text \in Text, NEW e \in LineEnds
    PROVE  TextLine(e) \in Text
<1>1. e \in 1..Len(text) /\ Len(text) \in Nat
  BY EndsFinite
<1>2. Begin(e) \in Nat \ {0}
  <2>1. PICK before : before = {d \in LineEnds : d < e}
    OBVIOUS
  <2>2. CASE before = {}
    BY <2>1, <2>2 DEF Begin
  <2>3. CASE before # {}
    <3>1. before \subseteq 0..Len(text)
      BY <2>1, EndsFinite
    <3>2. Max(before) \in before
      BY <1>1, <2>3, <3>1, NaturalMax
    <3>3. Max(before) \in Nat
      <4>1. \A d \in before : d \in Nat
        BY <3>1
      <4> QED
        BY <3>2, <4>1
    <3> QED
      BY <2>1, <2>3, <3>3 DEF Begin
  <2> QED
    BY <2>2, <2>3
<1> QED
  BY <1>1, <1>2, PartOfText DEF TextLine

(* Where the loop divides a stripped line is where the line itself has its *)
(* colon and space.                                                        *)
LEMMA Divided ==
    ASSUME NEW line \in Text, line # <<>>, NEW stripped, stripped = Stripped(line)
    PROVE  /\ Colons(stripped) = {} <=> Header(line) = {}
           /\ Header(line) # {} =>
                 LET c == Min(Header(line)) IN
                 /\ NameOf(stripped) = SubSeq(line, 1, c - 2)
                 /\ ValueOf(stripped) = Unended(SubSeq(line, c + 1, Len(line)))
                 /\ NameOf(stripped) \in Text /\ ValueOf(stripped) \in Text
<1>1. PICK n : n = Len(line)
  OBVIOUS
<1>2. n \in Nat /\ n > 0 /\ DOMAIN line = 1..n /\ line \in Seq(Chars)
  BY <1>1 DEF Text
<1>3. /\ stripped \in Text /\ Len(stripped) \in {n - 1, n}
      /\ \A k \in 1..Len(stripped) : stripped[k] = line[k]
      /\ line[n] = CR => Len(stripped) = n - 1
      /\ line[n] # CR => stripped = line /\ Len(stripped) = n
  <2>1. CASE line[n] = CR
    <3>1. stripped = SubSeq(line, 1, n - 1)
      BY <1>1, <2>1 DEF Stripped, Last, Front
    <3> QED
      BY <1>1, <1>2, <2>1, <3>1, SubSeqProperties DEF Text
  <2>2. CASE line[n] # CR
    BY <1>1, <1>2, <2>2 DEF Stripped, Last
  <2> QED
    BY <2>1, <2>2
<1>4. PICK m : m = Len(stripped) /\ m \in Nat /\ (m = n - 1 \/ m = n)
  BY <1>2, <1>3
<1>5. DOMAIN stripped = 1..m /\ stripped \in Seq(Chars)
  BY <1>3, <1>4 DEF Text
<1>6. ASSUME NEW c \in Header(line) PROVE c \in 2..m /\ c - 1 \in Colons(stripped)
  <2>1. c \in 1..n /\ c > 1 /\ line[c - 1] = ":" /\ line[c] = " "
    BY <1>2 DEF Header
  <2>2. c # n \/ line[n] # CR
    BY <2>1 DEF CR
  <2>3. m = n \/ c # n
    BY <1>3, <1>4, <2>2
  <2>4. PICK k : k = c - 1
    OBVIOUS
  <2>5. c \in 2..m /\ k \in 1..(m - 1) /\ k + 1 = c /\ k \in 1..m /\ c \in 1..m
    <3>1. c \in 1..n /\ c > 1 /\ m \in Nat /\ n \in Nat /\ (m = n - 1 \/ m = n)
      BY <1>2, <1>4, <2>1
    <3>2. c <= m
      BY <2>3, <3>1
    <3> QED
      BY <2>4, <3>1, <3>2
  <2>6. stripped[k] = ":" /\ stripped[k + 1] = " "
    BY <1>3, <1>4, <2>1, <2>4, <2>5
  <2> QED
    BY <1>4, <2>4, <2>5, <2>6 DEF Colons
<1>7. ASSUME NEW k \in Colons(stripped) PROVE k \in 1..(m - 1) /\ k + 1 \in Header(line)
  <2>1. k \in 1..(m - 1) /\ stripped[k] = ":" /\ stripped[k + 1] = " "
    BY <1>4 DEF Colons
  <2>2. PICK c : c = k + 1
    OBVIOUS
  <2>3. c \in 1..n /\ c > 1 /\ c - 1 = k /\ k \in 1..m /\ c \in 1..m
    <3>1. k \in 1..(m - 1) /\ m \in Nat /\ n \in Nat /\ (m = n - 1 \/ m = n)
      BY <1>2, <1>4, <2>1
    <3>2. k \in Nat /\ k >= 1 /\ k + 1 <= m /\ m <= n
      BY <3>1
    <3> QED
      BY <2>2, <3>1, <3>2
  <2>4. line[k] = ":" /\ line[c] = " "
    BY <1>3, <1>4, <2>1, <2>2, <2>3
  <2> QED
    BY <1>2, <2>1, <2>2, <2>3, <2>4 DEF Header
<1>8. Colons(stripped) = {} <=> Header(line) = {}
  BY <1>6, <1>7
<1>9. ASSUME Header(line) # {}
      PROVE  LET c == Min(Header(line)) IN
             /\ NameOf(stripped) = SubSeq(line, 1, c - 2)
             /\ ValueOf(stripped) = Unended(SubSeq(line, c + 1, Len(line)))
             /\ NameOf(stripped) \in Text /\ ValueOf(stripped) \in Text
  <2>1. PICK c : c = Min(Header(line))
    OBVIOUS
  <2>2. c \in Header(line) /\ \A d \in Header(line) : c <= d
    <3>1. \A d \in Header(line) : d \in 1..n
      BY <1>2 DEF Header
    <3>2. Header(line) \subseteq Nat
      BY <1>2, <3>1
    <3> QED
      BY <1>9, <2>1, <3>2, NaturalMin
  <2>3. c \in 2..m /\ c - 1 \in Colons(stripped)
    BY <1>6, <2>2
  <2>4. Min(Colons(stripped)) = c - 1
    <3>1. \A k \in Colons(stripped) : k \in Nat
      BY <1>4, <1>7
    <3>2. ASSUME NEW k \in Colons(stripped) PROVE c - 1 <= k
      <4>1. c <= k + 1 /\ k \in Nat /\ c \in Nat
        BY <1>7, <2>2, <2>3, <3>1
      <4> QED
        BY <4>1
    <3> QED
      BY <2>3, <3>1, <3>2, MinIs
  <2>5. /\ NameOf(stripped) = SubSeq(stripped, 1, c - 2)
        /\ ValueOf(stripped) = SubSeq(stripped, c + 1, m)
    <3>1. (c - 1) - 1 = c - 2 /\ (c - 1) + 2 = c + 1
      BY <2>3
    <3> QED
      BY <1>4, <2>4, <3>1 DEF NameOf, ValueOf
  <2>6. NameOf(stripped) \in Text /\ ValueOf(stripped) \in Text
    BY <1>3, <1>4, <2>3, <2>5, PartOfText
  <2>7. SubSeq(stripped, 1, c - 2) = SubSeq(line, 1, c - 2)
    <3>1. \A k \in 1..(c - 2) : stripped[k] = line[k]
      BY <1>3, <1>4, <2>3
    <3> QED
      BY <1>2, <1>4, <1>5, <2>3, <3>1
  <2>8. PICK rest : rest = SubSeq(line, c + 1, n)
    OBVIOUS
  <2>9. /\ rest \in Seq(Chars) /\ Len(rest) = n - c
        /\ \A k \in 1..(n - c) : rest[k] = line[c + k]
    BY <1>1, <1>2, <1>4, <2>3, <2>8, SubSeqProperties
  <2>10. PICK value : value = SubSeq(stripped, c + 1, m)
    OBVIOUS
  <2>11. /\ value \in Seq(Chars) /\ Len(value) = m - c
         /\ \A k \in 1..(m - c) : value[k] = line[c + k]
    <3>1. /\ value \in Seq(Chars) /\ Len(value) = m - c
          /\ \A k \in 1..(m - c) : value[k] = stripped[(c + 1) + k - 1]
      BY <1>4, <1>5, <2>3, <2>10, SubSeqProperties
    <3>2. ASSUME NEW k \in 1..(m - c) PROVE value[k] = line[c + k]
      <4>1. (c + 1) + k - 1 = c + k /\ c + k \in 1..m
        BY <1>4, <2>3
      <4> QED
        BY <1>3, <1>4, <3>1, <4>1
    <3> QED
      BY <3>1, <3>2
  <2>12. value = Unended(rest)
    <3>1. CASE line[n] = CR
      <4>1. m = n - 1 /\ Len(rest) \in Nat \ {0} /\ rest[Len(rest)] = CR
        <5>1. m = n - 1 /\ n - c \in 1..(n - c) /\ c + (n - c) = n
          BY <1>2, <1>3, <1>4, <2>3, <3>1
        <5> QED
          BY <2>9, <3>1, <5>1
      <4>2. Unended(rest) = SubSeq(rest, 1, Len(rest) - 1)
        BY <4>1 DEF Unended, Last, Front
      <4>3. PICK front : front = SubSeq(rest, 1, Len(rest) - 1)
        OBVIOUS
      <4>4. /\ front \in Seq(Chars) /\ Len(front) = m - c
            /\ \A k \in 1..(m - c) : front[k] = rest[k]
        <5>1. Len(rest) - 1 = m - c /\ m - c \in Nat
          BY <1>2, <2>3, <2>9, <4>1
        <5> QED
          BY <2>9, <4>3, <5>1, SubSeqProperties
      <4>5. \A k \in 1..(m - c) : front[k] = value[k]
        BY <1>2, <2>3, <2>9, <2>11, <4>1, <4>4
      <4> QED
        BY <2>11, <4>2, <4>3, <4>4, <4>5
    <3>2. CASE line[n] # CR
      <4>1. value = rest
        BY <1>3, <1>4, <2>8, <2>10, <3>2
      <4>2. rest = <<>> \/ rest[Len(rest)] # CR
        <5>1. CASE n = c
          <6>1. Len(rest) = 0
            BY <1>2, <2>9, <5>1
          <6> QED
            BY <2>9, <6>1
        <5>2. CASE n # c
          <6>1. n - c \in 1..(n - c) /\ c + (n - c) = n
            BY <1>2, <1>4, <2>3, <5>2
          <6> QED
            BY <2>9, <3>2, <6>1
        <5> QED
          BY <5>1, <5>2
      <4> QED
        BY <4>1, <4>2 DEF Unended, Last
    <3> QED
      BY <3>1, <3>2
  <2> QED
    BY <1>1, <2>1, <2>5, <2>6, <2>7, <2>8, <2>10, <2>12
<1> QED
  BY <1>8, <1>9

LEMMA HeaderRead ==
    ASSUME text \in Text, NEW e \in LineEnds, TextLine(e) # <<>>
    PROVE  /\ Colons(Stripped(TextLine(e))) = {} <=> Header(TextLine(e)) = {}
           /\ Header(TextLine(e)) # {} =>
                 /\ HeaderPair(e) \in Pairs /\ HeaderField(e) \in Text \X Text
                 /\ HeaderField(e) = <<CString(HeaderPair(e)[1]), CString(HeaderPair(e)[2])>>
<1>1. PICK line, stripped : line = TextLine(e) /\ stripped = Stripped(line)
  OBVIOUS
<1>2. line \in Text /\ line # <<>>
  BY <1>1, LineType
<1>3. Colons(stripped) = {} <=> Header(line) = {}
  BY <1>1, <1>2, Divided
<1>4. ASSUME Header(line) # {}
      PROVE  /\ HeaderPair(e) \in Pairs /\ HeaderField(e) \in Text \X Text
             /\ HeaderField(e) = <<CString(HeaderPair(e)[1]), CString(HeaderPair(e)[2])>>
  <2>1. PICK name, value : name = NameOf(stripped) /\ value = ValueOf(stripped)
    OBVIOUS
  <2>2. /\ name \in Text /\ value \in Text
        /\ name = SubSeq(line, 1, Min(Header(line)) - 2)
        /\ value = Unended(SubSeq(line, Min(Header(line)) + 1, Len(line)))
    BY <1>1, <1>2, <1>4, <2>1, Divided
  <2>3. HeaderPair(e) = Pair(name, value)
    BY <1>1, <2>1 DEF HeaderPair
  <2>4. HeaderField(e) = <<Cut(FieldSize, name), Cut(FieldSize, value)>>
    BY <1>1, <2>2 DEF HeaderField
  <2>5. Cut(FieldSize, name) \in Text /\ Cut(FieldSize, value) \in Text
    BY <2>2, CutType, SizesAssumption
  <2> QED
    BY <2>2, <2>3, <2>4, <2>5, EntryType
<1> QED
  BY <1>1, <1>3, <1>4

(* A line begins behind the one before it. *)
LEMMA BeginsAt ==
    ASSUME text \in Text, NEW p \in Nat \ {0}, p = 1 \/ p - 1 \in LineEnds,
           NEW e \in Nat, p <= e, \A d \in LineEnds : d < e => d < p
    PROVE  Begin(e) = p
<1>1. PICK before : before = {d \in LineEnds : d < e}
  OBVIOUS
<1>2. Len(text) \in Nat /\ \A d \in LineEnds : d \in 1..Len(text)
  BY EndsFinite
<1>3. \A d \in before : d \in 1..Len(text) /\ d < p
  BY <1>1, <1>2
<1>4. CASE p = 1
  <2>1. before = {}
    BY <1>2, <1>3, <1>4
  <2> QED
    BY <1>1, <1>4, <2>1 DEF Begin
<1>5. CASE p # 1
  <2>1. p - 1 \in before
    <3>1. p - 1 < e
      OBVIOUS
    <3> QED
      BY <1>1, <1>5, <3>1
  <2>2. before \subseteq 0..Len(text)
    BY <1>2, <1>3
  <2>3. Max(before) \in before /\ p - 1 <= Max(before)
    BY <1>2, <2>1, <2>2, NaturalMax
  <2>4. Max(before) \in Nat /\ Max(before) < p
    BY <1>2, <1>3, <2>3
  <2>5. Max(before) + 1 = p
    BY <2>3, <2>4
  <2> QED
    BY <1>1, <2>1, <2>5 DEF Begin
<1> QED
  BY <1>4, <1>5

(* The line that the loop takes next. *)
LEMMA NextLine ==
    ASSUME Types, ~AtEnd, i = 1 \/ i - 1 \in LineEnds, NEW e, e = Min(Ends(i))
    PROVE  /\ e \in LineEnds /\ e \in Nat /\ i < e /\ Line = TextLine(e) /\ TextLine(e) # <<>>
           /\ \A d \in LineEnds : d <= e <=> d < i \/ d = e
<1>1. text \in Text /\ i \in Nat \ {0} /\ Len(text) \in Nat /\ LineEnds \subseteq 1..Len(text)
  BY EndsFinite DEF Types
<1>2. Ends(i) = {d \in LineEnds : i <= d}
  BY <1>1 DEF Ends, LineEnds, Text
<1>3. Ends(i) # {} /\ e # i
  BY DEF AtEnd
<1>4. e \in Ends(i) /\ \A d \in Ends(i) : e <= d
  <2>1. \A d \in LineEnds : d \in 1..Len(text)
    BY <1>1
  <2>2. \A d \in Ends(i) : d \in 1..Len(text)
    BY <1>2, <2>1
  <2>3. Ends(i) \subseteq Nat
    BY <1>1, <2>2
  <2> QED
    BY <1>3, <2>3, NaturalMin
<1>5. e \in LineEnds /\ e \in 1..Len(text) /\ i < e
  <2>1. e \in LineEnds /\ i <= e
    BY <1>2, <1>4
  <2>2. e \in 1..Len(text)
    BY <1>1, <2>1
  <2> QED
    BY <1>1, <1>3, <2>1, <2>2
<1>6. ASSUME NEW d \in LineEnds PROVE d <= e <=> d < i \/ d = e
  <2>1. d \in Nat /\ (i <= d => e <= d)
    BY <1>1, <1>2, <1>4
  <2> QED
    BY <1>1, <1>5, <2>1
<1>7. \A d \in LineEnds : d < e => d < i
  BY <1>5, <1>6
<1>9. Begin(e) = i
  BY <1>1, <1>5, <1>7, BeginsAt
<1>10. TextLine(e) = SubSeq(text, i, e - 1) /\ Line = SubSeq(text, i, e - 1)
  BY <1>9 DEF TextLine, Line
<1>11. Len(SubSeq(text, i, e - 1)) = e - i
  <2>1. \A k \in i..(e - 1) : text[k] \in Chars
    BY <1>1, <1>5 DEF Text
  <2> QED
    BY <1>1, <1>5, <2>1, SubSeqProperties
<1>12. TextLine(e) # <<>>
  BY <1>1, <1>5, <1>10, <1>11
<1> QED
  BY <1>5, <1>6, <1>10, <1>12

-----------------------------------------------------------------------------
USE SizesAssumption

LEMMA AskInvInit == Init => AskInv
<1> SUFFICES ASSUME Init PROVE AskInv
  OBVIOUS
<1>1. request \in Requests /\ text \in Text
  BY ExchangesAssumption DEF Init
<1>2. ASSUME NEW size \in Nat \ {0} PROVE Blank(size) \in Arrays(size)
  BY DEF Blank, Arrays
<1>3. Types
  BY <1>1, <1>2 DEF Init, Types
<1>4. Lists(mmio_req.headers, Below(Forwarded(request), 1), Entries(request))
  <2>1. Below(Forwarded(request), 1) = {}
    BY <1>1, ForwardedFinite DEF Below
  <2> QED
    BY <2>1, FS_EmptySet DEF Init, Lists
<1> QED
  BY <1>3, <1>4 DEF Init, AskInv, AskedAsRequested

LEMMA UrlType == ASSUME NEW r \in Requests PROVE Url(r) \in Text /\ r.method \in Text
<1>1. Scheme \in Seq(Chars) /\ r.host \in Seq(Chars) /\ r.target \in Seq(Chars)
  BY CharsAssumption DEF Requests, Text
<1>2. Scheme \o r.host \in Seq(Chars)
  BY <1>1, ConcatProperties
<1> QED
  BY <1>1, <1>2, ConcatProperties DEF Url, Requests, Text

(* The url and the method, and then each field. *)
LEMMA FillKeeps == AskInv /\ (FillUrl \/ FillField \/ Filled) => AskInv'
<1>1. ASSUME AskInv, FillUrl PROVE AskInv'
  <2>1. /\ strsvcopy(UrlSize, Url(request)) \in Arrays(UrlSize)
        /\ strsvcopy(MethodSize, request.method) \in Arrays(MethodSize)
    BY <1>1, UrlType, CopyType DEF AskInv, Types
  <2>2. /\ mmio_req' = [mmio_req EXCEPT !.url = strsvcopy(UrlSize, Url(request)),
                                        !.method = strsvcopy(MethodSize, request.method)]
        /\ UNCHANGED <<request, text, i, asked, mmio_res>> /\ pc = "begin" /\ pc' = "fill"
    BY <1>1 DEF FillUrl
  <2>3. Types'
    BY <1>1, <2>1, <2>2 DEF AskInv, Types
  <2>4. /\ mmio_req'.headers = mmio_req.headers
        /\ mmio_req'.url = strsvcopy(UrlSize, Url(request))
        /\ mmio_req'.method = strsvcopy(MethodSize, request.method)
    BY <1>1, <2>2 DEF AskInv, Types
  <2> QED
    BY <1>1, <2>2, <2>3, <2>4 DEF AskInv, AskedAsRequested
<1>2. ASSUME AskInv, FillField PROVE AskInv'
  <2>1. /\ pc = "fill" /\ pc' = "fill" /\ UNCHANGED <<request, text, asked, mmio_res>>
        /\ i' = i + 1 /\ i <= Len(request.fields) /\ ~Full(mmio_req.headers)
    BY <1>2 DEF FillField
  <2>2. /\ request \in Requests /\ i \in Nat \ {0} /\ mmio_req.headers \in Seq(Pairs)
        /\ Lists(mmio_req.headers, Below(Forwarded(request), i), Entries(request))
    BY <1>2, <2>1 DEF AskInv, Types
  <2>3. Len(request.fields) \in Nat /\ i \in 1..Len(request.fields) /\ i \in DOMAIN request.fields
    BY <2>1, <2>2 DEF Requests
  <2>4. i \in Forwarded(request) <=> ~Skipped(request.fields[i])
    BY <2>3 DEF Forwarded, Skipped
  <2>5. CASE Skipped(request.fields[i])
    <3>1. mmio_req' = mmio_req
      BY <1>2, <2>5 DEF FillField
    <3>2. Lists(mmio_req.headers, Below(Forwarded(request), i + 1), Entries(request))
      BY <2>2, <2>4, <2>5, ForwardedFinite, BelowNext
    <3> QED
      BY <1>2, <2>1, <3>1, <3>2 DEF AskInv, Types, AskedAsRequested
  <2>6. CASE ~Skipped(request.fields[i])
    <3>1. PICK entry, headers : entry = Entries(request)[i] /\ headers = Append(mmio_req.headers, entry)
      OBVIOUS
    <3>2. entry = Pair(request.fields[i][1], request.fields[i][2]) /\ entry \in Pairs
      <4>1. request.fields[i][1] \in Text /\ request.fields[i][2] \in Text
        BY <2>2, <2>3 DEF Requests
      <4> QED
        BY <2>4, <2>6, <3>1, <4>1, EntryType DEF Entries
    <3>3. mmio_req' = [mmio_req EXCEPT !.headers = headers]
      BY <1>2, <2>6, <3>1, <3>2 DEF FillField
    <3>4. Lists(headers, Below(Forwarded(request), i + 1), Entries(request))
      <4>1. PICK S, B, F : /\ S = Forwarded(request) /\ B = Below(S, i)
                           /\ F = Entries(request)
        OBVIOUS
      <4>2. S \in Positions /\ i \in S /\ i \in Nat
        BY <2>2, <2>4, <2>6, <4>1, ForwardedFinite
      <4>3. B \in Positions /\ Below(S, i + 1) = B \cup {i} /\ \A k \in B : k < i
        <5>1. Below(S, i) \in Positions /\ Below(S, i + 1) = Below(S, i) \cup {i}
          BY <4>2, BelowFinite, BelowNext
        <5>2. \A k \in Below(S, i) : k < i
          BY DEF Below
        <5> QED
          BY <4>1, <5>1, <5>2
      <4>4. F[i] \in Pairs /\ headers = Append(mmio_req.headers, F[i])
        BY <3>1, <3>2, <4>1
      <4>5. Lists(headers, B \cup {i}, F)
        BY <2>2, <4>1, <4>2, <4>3, <4>4, ListGrows
      <4> QED
        BY <4>1, <4>3, <4>5
    <3>5. headers \in Seq(Pairs) /\ Len(headers) = Len(mmio_req.headers) + 1
      BY <2>2, <3>1, <3>2, AppendProperties
    <3>6. Len(headers) <= MaxHeaders
      <4>1. Len(mmio_req.headers) \in Nat /\ MaxHeaders \in Nat
        BY <2>2
      <4> QED
        BY <2>1, <3>5, <4>1 DEF Full
    <3>7. /\ mmio_req'.headers = headers /\ mmio_req'.url = mmio_req.url
          /\ mmio_req'.method = mmio_req.method
          /\ mmio_req' \in [url : Arrays(UrlSize), method : Arrays(MethodSize), headers : Seq(Pairs)]
      BY <1>2, <3>3, <3>5 DEF AskInv, Types
    <3>8. Types'
      BY <1>2, <2>1, <3>6, <3>7 DEF AskInv, Types
    <3> QED
      BY <1>2, <2>1, <3>4, <3>7, <3>8 DEF AskInv, AskedAsRequested
  <2> QED
    BY <2>5, <2>6
<1>3. ASSUME AskInv, Filled PROVE AskInv'
  <2>1. Complete(mmio_req.headers, Forwarded(request), Entries(request))
    <3>1. /\ Forwarded(request) \in Positions /\ i \in Nat
          /\ Lists(mmio_req.headers, Below(Forwarded(request), i), Entries(request))
          /\ Len(mmio_req.headers) <= MaxHeaders
      BY <1>3, ForwardedFinite DEF AskInv, Types, Filled
    <3>2. (\A k \in Forwarded(request) : k < i) \/ Full(mmio_req.headers)
      BY <1>3, <3>1, ForwardedFinite DEF AskInv, Types, Filled
    <3> QED
      BY <3>1, <3>2, ListEnds
  <2> QED
    BY <1>3, <2>1 DEF Filled, AskInv, Types, AskedAsRequested
<1> QED
  BY <1>1, <1>2, <1>3

(* What handle_softyield reads of the arrays is what was asked for. *)
LEMMA FetchKeeps == AskInv /\ Fetch => AskInv'
<1> SUFFICES ASSUME AskInv, Fetch PROVE AskInv'
  OBVIOUS
<1>1. PICK r, headers, H : r = request /\ headers = mmio_req.headers /\ H = asked'.headers
  OBVIOUS
<1>2. r \in Requests /\ headers \in Seq(Pairs) /\ Complete(headers, Forwarded(r), Entries(r))
  BY <1>1 DEF AskInv, Types, Fetch
<1>3. /\ asked'.url = CString(mmio_req.url) /\ asked'.method = CString(mmio_req.method)
      /\ H = [k \in DOMAIN headers |-> <<CString(headers[k][1]), CString(headers[k][2])>>]
      /\ UNCHANGED <<request, text, mmio_req, mmio_res>> /\ pc' = "split" /\ i' = 1 /\ pc = "fetch"
  BY <1>1 DEF Fetch
<1>4. /\ asked'.url = Cut(UrlSize, Url(r))
      /\ asked'.method = Cut(MethodSize, r.method)
  BY <1>1, <1>2, <1>3, UrlType, ReadBack DEF AskInv
<1>5. DOMAIN headers = 1..Len(headers) /\ Len(headers) \in Nat
  BY <1>2
<1>6. Len(H) = Len(headers)
  BY <1>3, <1>5
<1>7. ASSUME NEW k \in Forwarded(r), Place(Forwarded(r), k) <= MaxHeaders
      PROVE  H[Place(Forwarded(r), k)] = <<Cut(FieldSize, r.fields[k][1]), Cut(FieldSize, r.fields[k][2])>>
  <2>1. /\ Place(Forwarded(r), k) \in DOMAIN headers
        /\ headers[Place(Forwarded(r), k)] = Pair(r.fields[k][1], r.fields[k][2])
    <3>1. PICK S, F : S = Forwarded(r) /\ F = Entries(r)
      OBVIOUS
    <3>2. S \in Positions /\ k \in S /\ Place(S, k) <= MaxHeaders /\ Complete(headers, S, F)
      BY <1>2, <1>7, <3>1, ForwardedFinite
    <3>3. Place(S, k) \in DOMAIN headers
      BY <1>5, <3>2, PlaceInArrays
    <3>4. headers[Place(S, k)] = F[k]
      BY <3>2 DEF Complete
    <3> QED
      BY <1>7, <3>1, <3>3, <3>4 DEF Entries
  <2>2. r.fields[k][1] \in Text /\ r.fields[k][2] \in Text
    BY <1>2 DEF Requests, Forwarded
  <2> QED
    BY <1>3, <2>1, <2>2, EntryType
<1>8. AskedAsRequested'
  BY <1>1, <1>2, <1>3, <1>4, <1>6, <1>7 DEF AskedAsRequested, Complete
<1>9. Types'
  BY <1>3 DEF AskInv, Types
<1> QED
  BY <1>3, <1>8, <1>9 DEF AskInv
-----------------------------------------------------------------------------
-----------------------------------------------------------------------------
HIDE SizesAssumption

(* A step that leaves the text alone leaves what its lines say alone. *)
LEMMA TextKept ==
    ASSUME text' = text
    PROVE  /\ LineEnds' = LineEnds /\ HeaderEnds' = HeaderEnds
           /\ HeaderPairs' = HeaderPairs /\ HeaderFields' = HeaderFields
           /\ \A d : TextLine(d)' = TextLine(d) /\ HeaderField(d)' = HeaderField(d)
           /\ \A n : Answered(n)' = Answered(n) /\ LastOf(Answered(n))' = LastOf(Answered(n))
           /\ Lasting' = Lasting
<1>1. LineEnds' = LineEnds
  BY DEF LineEnds
<1>2. \A d : TextLine(d)' = TextLine(d)
  BY <1>1 DEF TextLine, Begin
<1>3. \A d : HeaderField(d)' = HeaderField(d)
  BY <1>2 DEF HeaderField
<1>4. \A d : HeaderPair(d)' = HeaderPair(d)
  BY <1>2 DEF HeaderPair
<1>5. HeaderEnds' = HeaderEnds
  BY <1>1, <1>2 DEF HeaderEnds
<1>6. HeaderPairs' = HeaderPairs
  BY <1>4, <1>5 DEF HeaderPairs
<1>7. HeaderFields' = HeaderFields
  BY <1>3, <1>5 DEF HeaderFields
<1>8. Passing' = Passing
  BY <1>5 DEF Passing
<1>9. \A n : Answered(n)' = Answered(n)
  BY <1>5, <1>8 DEF Answered
<1>10. \A n : LastOf(Answered(n))' = LastOf(Answered(n))
  BY <1>3, <1>9 DEF LastOf
<1>11. Lasting' = Lasting
  BY <1>3, <1>8 DEF Lasting
<1> QED
  BY <1>1, <1>2, <1>3, <1>5, <1>6, <1>7, <1>9, <1>10, <1>11

LEMMA FrameKept ==
    ASSUME text' = text, request' = request
    PROVE  /\ Kept' = Kept /\ Frame' = Frame
           /\ \A fields : keep_alive(fields)' = keep_alive(fields)
<1>1. Lasting' = Lasting /\ \A e : HeaderField(e)' = HeaderField(e)
  BY TextKept
<1>2. Kept' = Kept
  BY <1>1 DEF Kept
<1>3. \A name : Received(name)' = Received(name)
  <2>1. \A name : ReceivedValues(name)' = ReceivedValues(name)
    BY <1>1 DEF ReceivedValues
  <2>2. ASSUME NEW name PROVE Received(name)' = Received(name)
    <3>1. PICK values : values = ReceivedValues(name)
      OBVIOUS
    <3>2. ReceivedValues(name)' = values
      BY <2>1, <3>1
    <3> QED
      BY <3>1, <3>2, Zenon DEF Received
  <2> QED
    BY <2>2
<1>4. \A tokens : Closing(tokens)' = Closing(tokens)
  <2>1. PICK v : v = request.version
    OBVIOUS
  <2>2. request'.version = v
    BY <2>1
  <2> QED
    BY <2>1, <2>2, Zenon DEF Closing
<1>5. Frame' = Frame
  BY <1>3, <1>4 DEF Frame
<1>6. \A fields : keep_alive(fields)' = keep_alive(fields)
  BY <1>4 DEF keep_alive
<1> QED
  BY <1>2, <1>5, <1>6

LEMMA AnswerInvInit == Init => AnswerInv
  BY DEF Init, AnswerInv, ResponseAsReceived

(* Until the text is split there is nothing of it in the arrays. *)
LEMMA AnswerNotBegun == AskInv /\ AnswerInv /\ (FillUrl \/ FillField \/ Filled \/ Fetch) => AnswerInv'
<1> SUFFICES ASSUME AskInv, AnswerInv, FillUrl \/ FillField \/ Filled \/ Fetch PROVE AnswerInv'
  OBVIOUS
<1>1. /\ pc \in {"begin", "fill", "fetch"} /\ pc' \in {"fill", "fetch", "split"}
      /\ UNCHANGED <<text, mmio_res, response>>
      /\ pc' = "split" => i' = 1
  BY DEF FillUrl, FillField, Filled, Fetch
<1>2. text \in Text
  BY DEF AskInv, Types
<1>3. \A d \in LineEnds : d \in Nat /\ ~(d < 1)
  BY <1>2, EndsFinite
<1>4. Below(HeaderEnds, 1) = {}
  <2>1. \A d \in HeaderEnds : ~(d < 1)
    BY <1>2, <1>3, EndsFinite
  <2> QED
    BY <2>1 DEF Below
<1>5. Lists(<<>>, Below(HeaderEnds, 1), HeaderPairs)
  BY <1>4, FS_EmptySet DEF Lists
<1>6. mmio_res' = <<>> /\ response' = <<>>
  BY <1>1 DEF AnswerInv
<1>7. /\ LineEnds' = LineEnds /\ HeaderEnds' = HeaderEnds /\ HeaderPairs' = HeaderPairs
      /\ \A d : TextLine(d)' = TextLine(d)
  BY <1>1, TextKept
<1>8. pc' = "split" =>
         /\ \A d \in LineEnds' : d < i' => TextLine(d)' # <<>>
         /\ Lists(mmio_res', Below(HeaderEnds', i'), HeaderPairs')
  BY <1>1, <1>3, <1>5, <1>6, <1>7
<1> QED
  BY <1>1, <1>6, <1>8 DEF AnswerInv, ResponseAsReceived, Lists, Below, Place

(* A line of the text adds its field to the arrays, or nothing. *)
LEMMA SplitKeeps == AskInv /\ AnswerInv /\ SplitLine => AskInv' /\ AnswerInv'
<1> SUFFICES ASSUME AskInv, AnswerInv, SplitLine PROVE AskInv' /\ AnswerInv'
  OBVIOUS
<1>1. PICK e, S, F, B : /\ e = Min(Ends(i)) /\ S = HeaderEnds /\ F = HeaderPairs
                        /\ B = Below(S, i)
  OBVIOUS
<1>2. /\ pc = "split" /\ pc' = "split" /\ UNCHANGED <<request, text, mmio_req, asked, response>>
      /\ ~Full(mmio_res) /\ ~AtEnd /\ i' = e + 1
  BY <1>1 DEF SplitLine
<1>3. /\ i = 1 \/ i - 1 \in LineEnds
      /\ \A d \in LineEnds : d < i => TextLine(d) # <<>>
      /\ Lists(mmio_res, B, F)
  BY <1>1, <1>2 DEF AnswerInv
<1>4. /\ e \in LineEnds /\ e \in Nat /\ i < e /\ Line = TextLine(e) /\ TextLine(e) # <<>>
      /\ \A d \in LineEnds : d <= e <=> d < i \/ d = e
  BY <1>1, <1>2, <1>3, NextLine DEF AskInv
<1>5. text \in Text /\ i \in Nat /\ mmio_res \in Seq(Pairs) /\ Len(mmio_res) < MaxHeaders
  BY <1>2, SizesAssumption DEF AskInv, Types, Full
<1>6. S \in Positions /\ B \in Positions /\ \A d \in S : d \in LineEnds /\ d \in Nat
  <2>1. S \in Positions /\ \A d \in S : d \in LineEnds
    BY <1>1, <1>5, EndsFinite
  <2> QED
    BY <1>1, <1>5, <2>1, BelowFinite DEF Positions
<1>7. \A d \in LineEnds : d <= e => TextLine(d) # <<>>
  BY <1>3, <1>4
<1>8. PICK pair : pair = Pair(NameOf(Stripped(Line)), ValueOf(Stripped(Line)))
  OBVIOUS
<1>9. /\ e \in S <=> Colons(Stripped(Line)) # {}
      /\ e \in S => pair \in Pairs /\ F[e] = pair
  <2>1. e \in S <=> Header(TextLine(e)) # {}
    BY <1>1, <1>4, <1>7 DEF HeaderEnds
  <2>2. pair = HeaderPair(e)
    BY <1>4, <1>8 DEF HeaderPair
  <2>3. /\ Colons(Stripped(TextLine(e))) = {} <=> Header(TextLine(e)) = {}
        /\ Header(TextLine(e)) # {} => HeaderPair(e) \in Pairs
    BY <1>4, <1>5, HeaderRead
  <2>4. e \in S => F[e] = HeaderPair(e)
    BY <1>1 DEF HeaderPairs
  <2> QED
    BY <1>4, <2>1, <2>2, <2>3, <2>4
<1>10. /\ mmio_res' \in Seq(Pairs) /\ Len(mmio_res') <= MaxHeaders
       /\ Lists(mmio_res', Below(S, e + 1), F)
  <2>1. \A d \in S : d < e + 1 <=> d < i \/ d = e
    <3>1. \A d \in S : d < e + 1 <=> d <= e
      BY <1>4, <1>6
    <3> QED
      BY <1>4, <1>6, <3>1
  <2>2. CASE e \in S
    <3>1. Below(S, e + 1) = B \cup {e} /\ \A d \in B : d < e
      <4>1. \A d \in S : d < i => d < e
        BY <1>4, <1>5, <1>6
      <4> QED
        BY <1>1, <2>1, <2>2, <4>1 DEF Below
    <3>2. mmio_res' = Append(mmio_res, F[e]) /\ F[e] \in Pairs
      BY <1>8, <1>9, <2>2 DEF SplitLine
    <3>3. Lists(mmio_res', B \cup {e}, F)
      BY <1>3, <1>4, <1>5, <1>6, <3>1, <3>2, ListGrows
    <3>4. mmio_res' \in Seq(Pairs) /\ Len(mmio_res') = Len(mmio_res) + 1
      BY <1>5, <3>2, AppendProperties
    <3>5. Len(mmio_res) \in Nat /\ MaxHeaders \in Nat
      BY <1>5, SizesAssumption
    <3>6. Len(mmio_res') <= MaxHeaders
      BY <1>5, <3>4, <3>5
    <3> QED
      BY <3>1, <3>3, <3>4, <3>6
  <2>3. CASE e \notin S
    <3>1. Below(S, e + 1) = B
      BY <1>1, <2>1, <2>3 DEF Below
    <3>2. mmio_res' = mmio_res
      BY <1>9, <2>3 DEF SplitLine
    <3>3. Len(mmio_res) \in Nat /\ MaxHeaders \in Nat
      BY <1>5, SizesAssumption
    <3> QED
      BY <1>3, <1>5, <3>1, <3>2, <3>3
  <2> QED
    BY <2>2, <2>3
<1>11. AskInv'
  <2>1. i' \in Nat \ {0}
    BY <1>2, <1>4
  <2>2. Types'
    BY <1>2, <1>10, <2>1 DEF AskInv, Types
  <2> QED
    BY <1>2, <2>2 DEF AskInv, AskedAsRequested
<1>12. /\ LineEnds' = LineEnds /\ HeaderEnds' = S /\ HeaderPairs' = F
       /\ \A d : TextLine(d)' = TextLine(d)
  BY <1>1, <1>2, TextKept
<1>13. /\ i' = 1 \/ i' - 1 \in LineEnds'
       /\ \A d \in LineEnds' : d < i' => TextLine(d)' # <<>>
       /\ Lists(mmio_res', Below(HeaderEnds', i'), HeaderPairs')
  <2>1. \A d \in LineEnds : d < e + 1 => d <= e
    BY <1>4, <1>5, EndsFinite
  <2>2. (e + 1) - 1 = e
    BY <1>4
  <2> QED
    BY <1>2, <1>4, <1>7, <1>10, <1>12, <2>1, <2>2
<1>14. response' = <<>> /\ pc' = "split"
  BY <1>2 DEF AnswerInv
<1> QED
  BY <1>11, <1>13, <1>14 DEF AnswerInv, ResponseAsReceived, Lists, Below, Place

(* After the last line the arrays hold what there is room for of all       *)
(* header lines.                                                           *)
LEMMA SplitEndsKeeps == AskInv /\ AnswerInv /\ SplitEnds => AnswerInv'
<1> SUFFICES ASSUME AskInv, AnswerInv, SplitEnds PROVE AnswerInv'
  OBVIOUS
<1>1. PICK S, F : S = HeaderEnds /\ F = HeaderPairs
  OBVIOUS
<1>2. /\ pc = "split" /\ pc' = "respond" /\ i' = 1 /\ UNCHANGED <<text, mmio_res, response>>
      /\ Full(mmio_res) \/ AtEnd
  BY DEF SplitEnds
<1>3. text \in Text /\ i \in Nat \ {0} /\ Len(mmio_res) <= MaxHeaders
  BY DEF AskInv, Types
<1>4. /\ S \in Positions /\ \A d \in S : d \in LineEnds /\ d \in Nat
      /\ Lists(mmio_res, Below(S, i), F) /\ response = <<>>
      /\ i = 1 \/ i - 1 \in LineEnds
  <2>1. S \in Positions /\ \A d \in S : d \in LineEnds
    BY <1>1, <1>3, EndsFinite
  <2> QED
    BY <1>1, <1>2, <2>1 DEF AnswerInv, Positions
<1>5. AtEnd => \A d \in S : d < i
  <2> SUFFICES ASSUME AtEnd, NEW d \in S, i <= d PROVE FALSE
    BY <1>3, <1>4
  <2>1. Ends(i) = {k \in LineEnds : i <= k} /\ LineEnds \subseteq 1..Len(text)
    <3>1. LineEnds \subseteq 1..Len(text) /\ Len(text) \in Nat
      BY <1>3, EndsFinite
    <3> QED
      BY <1>3, <3>1 DEF Ends, LineEnds, Text
  <2>2. d \in Ends(i)
    BY <1>4, <2>1
  <2>3. Min(Ends(i)) = i
    BY <2>2 DEF AtEnd
  <2>4. i \in LineEnds
    <3>1. Ends(i) \subseteq Nat
      <4>1. \A k \in LineEnds : k \in 1..Len(text)
        BY <2>1
      <4>2. \A k \in Ends(i) : k \in 1..Len(text)
        BY <2>1, <4>1
      <4>3. Len(text) \in Nat
        BY <1>3 DEF Text
      <4> QED
        BY <4>2, <4>3
    <3>2. Min(Ends(i)) \in Ends(i)
      BY <2>2, <3>1, NaturalMin
    <3> QED
      BY <2>1, <2>3, <3>2
  <2>5. Begin(i) = i
    <3>1. \A k \in LineEnds : k < i => k < i
      OBVIOUS
    <3>2. i <= i
      BY <1>3
    <3> QED
      BY <1>3, <1>4, <3>1, <3>2, BeginsAt
  <2>6. TextLine(i) = <<>>
    BY <1>3, <2>5, SubSeqEmpty DEF TextLine
  <2> QED
    BY <1>1, <2>4, <2>6 DEF HeaderEnds
<1>6. Complete(mmio_res, S, F)
  BY <1>2, <1>3, <1>4, <1>5, ListEnds
<1>7. LastOf(Answered(1)) = {}
  <2>1. \A d \in S : Place(S, d) \in Nat /\ ~(Place(S, d) < 1)
    BY <1>4, Places
  <2> QED
    BY <1>1, <2>1 DEF LastOf, Answered, Passing
<1>8. <<>> \in Seq(Text \X Text) /\ Lists(<<>>, LastOf(Answered(1)), HeaderFields)
  BY <1>7, FS_EmptySet DEF Lists
<1>9. /\ HeaderEnds' = S /\ HeaderPairs' = F /\ HeaderFields' = HeaderFields
      /\ LastOf(Answered(1))' = LastOf(Answered(1))
  BY <1>1, <1>2, TextKept
<1>10. LastOf(Answered(i))' = LastOf(Answered(1))
  <2>1. LastOf(Answered(i))' = LastOf(Answered(1))'
    BY <1>2 DEF LastOf, Answered
  <2> QED
    BY <1>9, <2>1
<1>11. /\ Complete(mmio_res', HeaderEnds', HeaderPairs')
       /\ response' \in Seq(Text \X Text)
       /\ Lists(response', LastOf(Answered(i))', HeaderFields')
  BY <1>2, <1>4, <1>6, <1>8, <1>9, <1>10
<1> QED
  BY <1>2, <1>11 DEF AnswerInv, ResponseAsReceived, Complete, Lists, Place

(* A list with a tail: fields the browser sent, then those the proxy adds. *)
Tailed(s, S, F, tail) ==
    /\ Len(s) = Cardinality(S) + Len(tail)
    /\ \A k \in S : s[Place(S, k)] = F[k]
    /\ \A p \in 1..Len(tail) : s[Cardinality(S) + p] = tail[p]

Distinct(S, F) == \A d, x \in S : Same(F[d][1], F[x][1]) => d = x
Unnamed(S, F, name) == {d \in S : ~Same(F[d][1], name)}

(* Where a name is found in it ... *)
LEMMA NamedAt ==
    ASSUME NEW S \in Positions, NEW F, NEW s, NEW tail, Tailed(s, S, F, tail), Distinct(S, F),
           DOMAIN s = 1..Len(s), NEW name,
           Len(tail) \in Nat, \A p \in 1..Len(tail) : ~Same(tail[p][1], name)
    PROVE  /\ \A x \in S : Same(F[x][1], name) => Named(s, name) = {Place(S, x)}
           /\ (\A x \in S : ~Same(F[x][1], name)) => Named(s, name) = {}
<1>1. PICK n, m : n = Cardinality(S) /\ m = Len(tail)
  OBVIOUS
<1>2. n \in Nat /\ m \in Nat /\ Len(s) = n + m
  BY <1>1, FS_CardinalityType DEF Positions, Tailed
<1>3. \A x \in S : Place(S, x) \in 1..n /\ Place(S, x) \in DOMAIN s /\ s[Place(S, x)] = F[x]
  <2>1. \A x \in S : Place(S, x) \in 1..n
    BY <1>1, Places
  <2> QED
    BY <1>2, <2>1 DEF Tailed
<1>4. ASSUME NEW k \in Named(s, name) PROVE \E x \in S : Place(S, x) = k /\ Same(F[x][1], name)
  <2>1. k \in 1..(n + m) /\ Same(s[k][1], name)
    BY <1>2, <1>4 DEF Named
  <2>2. ASSUME k > n PROVE FALSE
    <3>1. PICK p : p = k - n
      OBVIOUS
    <3>2. p \in 1..m /\ n + p = k
      BY <1>2, <2>1, <2>2, <3>1
    <3> QED
      BY <1>1, <2>1, <3>2 DEF Tailed
  <2>3. k \in 1..n
    BY <1>2, <2>1, <2>2
  <2>4. PICK x \in S : Place(S, x) = k
    BY <1>1, <2>3, PlaceTaken
  <2> QED
    BY <1>3, <2>1, <2>4
<1>5. ASSUME NEW x \in S, Same(F[x][1], name) PROVE Named(s, name) = {Place(S, x)}
  <2>1. Place(S, x) \in Named(s, name)
    BY <1>3, <1>5 DEF Named
  <2>2. ASSUME NEW k \in Named(s, name) PROVE k = Place(S, x)
    <3>1. PICK d \in S : Place(S, d) = k /\ Same(F[d][1], name)
      BY <1>4
    <3>2. Same(F[d][1], F[x][1])
      BY <1>5, <3>1 DEF Same
    <3> QED
      BY <3>1, <3>2 DEF Distinct
  <2> QED
    BY <2>1, <2>2
<1> QED
  BY <1>4, <1>5

(* ... what it has for the name ... *)
LEMMA ValueRead ==
    ASSUME NEW S \in Positions, NEW F, NEW s, NEW tail, Tailed(s, S, F, tail), Distinct(S, F),
           DOMAIN s = 1..Len(s), NEW name,
           Len(tail) \in Nat, \A p \in 1..Len(tail) : ~Same(tail[p][1], name)
    PROVE  /\ \A x \in S : Same(F[x][1], name) => Value(s, name) = F[x][2]
           /\ (\A x \in S : ~Same(F[x][1], name)) => Value(s, name) = <<>>
<1>1. ASSUME NEW x \in S, Same(F[x][1], name) PROVE Value(s, name) = F[x][2]
  <2>1. Named(s, name) = {Place(S, x)}
    BY <1>1, NamedAt
  <2>2. Place(S, x) \in Nat /\ s[Place(S, x)] = F[x]
    BY Places DEF Tailed
  <2>3. Min(Named(s, name)) = Place(S, x)
    BY <2>1, <2>2, MinOne
  <2> QED
    BY <2>1, <2>2, <2>3 DEF Value
<1>2. (\A x \in S : ~Same(F[x][1], name)) => Value(s, name) = <<>>
  BY NamedAt DEF Value
<1> QED
  BY <1>1, <1>2

(* ... and what is left when the name is taken out. *)
LEMMA OthersLeft ==
    ASSUME NEW S \in Positions, NEW F, NEW A, NEW s \in Seq(A), NEW tail \in Seq(A),
           Tailed(s, S, F, tail), Distinct(S, F), NEW name,
           \A p \in 1..Len(tail) : ~Same(tail[p][1], name)
    PROVE  /\ Unnamed(S, F, name) \in Positions /\ Distinct(Unnamed(S, F, name), F)
           /\ Others(s, name) \in Seq(A)
           /\ Tailed(Others(s, name), Unnamed(S, F, name), F, tail)
<1>1. PICK K, n, m : K = Unnamed(S, F, name) /\ n = Cardinality(S) /\ m = Len(tail)
  OBVIOUS
<1>2. /\ n \in Nat /\ m \in Nat /\ Len(s) = n + m /\ DOMAIN s = 1..Len(s)
      /\ IsFiniteSet(S) /\ S \subseteq Nat
  BY <1>1, FS_CardinalityType DEF Positions, Tailed
<1>3. K \in SUBSET S /\ K \in Positions /\ Distinct(K, F)
  <2>1. K \in SUBSET S
    BY <1>1 DEF Unnamed
  <2>2. IsFiniteSet(K)
    BY <1>2, <2>1, FS_Subset
  <2> QED
    BY <1>2, <2>1, <2>2 DEF Positions, Distinct
<1>4. CASE \E x \in S : Same(F[x][1], name)
  <2>1. PICK x \in S : Same(F[x][1], name)
    BY <1>4
  <2>2. K = S \ {x}
    <3>1. \A d \in S : Same(F[d][1], name) => d = x
      BY <2>1 DEF Distinct, Same
    <3> QED
      BY <1>1, <2>1, <3>1 DEF Unnamed
  <2>3. PICK p : p = Place(S, x)
    OBVIOUS
  <2>4. p \in 1..n
    BY <1>1, <2>3, Places
  <2>5. Named(s, name) = {p}
    BY <1>1, <1>2, <2>1, <2>3, NamedAt
  <2>6. Min(Named(s, name)) = p
    <3>1. p \in Nat
      BY <1>2, <2>4
    <3> QED
      BY <2>5, <3>1, MinOne
  <2>7. PICK after : after = RemoveAt(s, p)
    OBVIOUS
  <2>8. Others(s, name) = after
    BY <2>5, <2>6, <2>7 DEF Others
  <2>9. /\ after \in Seq(A) /\ Len(after) = n + m - 1
        /\ \A q \in 1..(p - 1) : after[q] = s[q]
        /\ \A q \in p..(n + m - 1) : after[q] = s[q + 1]
    <3>1. p \in 1..Len(s)
      BY <1>2, <2>4
    <3>2. /\ after \in Seq(A) /\ Len(after) = Len(s) - 1
          /\ \A q \in 1..(p - 1) : after[q] = s[q]
          /\ \A q \in p..(Len(s) - 1) : after[q] = s[q + 1]
      <4>1. /\ RemoveAt(s, p) \in Seq(A) /\ Len(RemoveAt(s, p)) = Len(s) - 1
            /\ \A q \in 1..(p - 1) : RemoveAt(s, p)[q] = s[q]
            /\ \A q \in p..(Len(s) - 1) : RemoveAt(s, p)[q] = s[q + 1]
        BY <3>1, Removed
      <4> QED
        BY <2>7, <4>1, Zenon
    <3>3. n + m - 1 = Len(s) - 1
      BY <1>2
    <3> QED
      BY <3>2, <3>3, Zenon
  <2>10. PICK front : front = SubSeq(s, 1, n)
    OBVIOUS
  <2>11. front \in Seq(A) /\ Len(front) = n /\ \A q \in 1..n : front[q] = s[q]
    BY <1>2, <2>10, SubSeqProperties
  <2>12. Lists(front, S, F)
    <3>1. ASSUME NEW k \in S PROVE front[Place(S, k)] = F[k]
      <4>1. Place(S, k) \in 1..n
        BY <1>1, Places
      <4> QED
        BY <2>11, <4>1 DEF Tailed
    <3> QED
      BY <1>1, <2>11, <3>1 DEF Lists
  <2>13. PICK left : left = RemoveAt(front, p)
    OBVIOUS
  <2>14. Lists(left, K, F)
    BY <2>2, <2>3, <2>11, <2>12, <2>13, ListShrinks
  <2>15. /\ Len(left) = n - 1
         /\ \A q \in 1..(p - 1) : left[q] = front[q]
         /\ \A q \in p..(n - 1) : left[q] = front[q + 1]
    BY <2>4, <2>11, <2>13, Removed
  <2>16. ASSUME NEW q \in 1..(n - 1) PROVE after[q] = left[q]
    <3>1. CASE q < p
      <4>1. q \in 1..(p - 1) /\ q \in 1..n
        BY <1>2, <2>4, <3>1
      <4> QED
        BY <2>9, <2>11, <2>15, <4>1
    <3>2. CASE q >= p
      <4>1. q \in p..(n - 1) /\ q \in p..(n + m - 1) /\ q + 1 \in 1..n
        BY <1>2, <2>4, <3>2
      <4> QED
        BY <2>9, <2>11, <2>15, <4>1
    <3> QED
      BY <1>2, <2>4, <3>1, <3>2
  <2>17. Cardinality(K) = n - 1
    BY <2>14, <2>15 DEF Lists
  <2>18. ASSUME NEW k \in K PROVE after[Place(K, k)] = F[k]
    <3>1. Place(K, k) \in 1..(n - 1)
      BY <1>3, <2>17, Places
    <3> QED
      BY <2>14, <2>16, <3>1 DEF Lists
  <2>19. ASSUME NEW q \in 1..m PROVE after[Cardinality(K) + q] = tail[q]
    <3>1. PICK r : r = Cardinality(K) + q
      OBVIOUS
    <3>2. r \in p..(n + m - 1) /\ r + 1 = n + q
      BY <1>2, <2>4, <2>17, <3>1
    <3>3. after[r] = s[n + q]
      BY <2>9, <3>2
    <3> QED
      BY <1>1, <3>1, <3>3 DEF Tailed
  <2>20. Len(after) = Cardinality(K) + m
    BY <1>2, <2>9, <2>17
  <2> QED
    BY <1>1, <1>3, <2>8, <2>9, <2>18, <2>19, <2>20 DEF Tailed
<1>5. CASE \A x \in S : ~Same(F[x][1], name)
  <2>1. K = S
    BY <1>1, <1>5 DEF Unnamed
  <2>2. Named(s, name) = {}
    BY <1>1, <1>2, <1>5, NamedAt
  <2>3. Others(s, name) = s
    BY <2>2 DEF Others
  <2> QED
    BY <1>1, <1>3, <2>1, <2>3
<1> QED
  BY <1>4, <1>5

(* What the proxy sets itself goes into the tail. *)
LEMMA TailSet ==
    ASSUME NEW S \in Positions, NEW F, NEW A, NEW s \in Seq(A), NEW tail \in Seq(A),
           Tailed(s, S, F, tail), Distinct(S, F), NEW name,
           \A p \in 1..Len(tail) : ~Same(tail[p][1], name), NEW value, <<name, value>> \in A
    PROVE  /\ Unnamed(S, F, name) \in Positions /\ Distinct(Unnamed(S, F, name), F)
           /\ Update(s, name, value) \in Seq(A)
           /\ Unless(name, value) \in Seq(A) /\ tail \o Unless(name, value) \in Seq(A)
           /\ Tailed(Update(s, name, value), Unnamed(S, F, name), F, tail \o Unless(name, value))
<1>1. PICK K, others, field : K = Unnamed(S, F, name) /\ others = Others(s, name) /\ field = <<name, value>>
  OBVIOUS
<1>2. K \in Positions /\ Distinct(K, F) /\ others \in Seq(A) /\ Tailed(others, K, F, tail)
  BY <1>1, OthersLeft
<1>3. CASE value = <<>>
  <2>1. Update(s, name, value) = others /\ Unless(name, value) = <<>>
    BY <1>1, <1>3 DEF Update, Unless
  <2>2. tail \o <<>> = tail /\ <<>> \in Seq(A)
    BY ConcatEmptySeq, EmptySeq
  <2> QED
    BY <1>1, <1>2, <2>1, <2>2
<1>4. CASE value # <<>>
  <2>1. Update(s, name, value) = Append(others, field) /\ Unless(name, value) = <<field>>
    BY <1>1, <1>4 DEF Update, Unless, set
  <2>2. PICK after, longer : after = Append(others, field) /\ longer = tail \o <<field>>
    OBVIOUS
  <2>3. PICK n, m : n = Cardinality(K) /\ m = Len(tail)
    OBVIOUS
  <2>4. n \in Nat /\ m \in Nat /\ Len(others) = n + m
    BY <1>2, <2>3, FS_CardinalityType DEF Positions, Tailed
  <2>5. /\ after \in Seq(A) /\ Len(after) = n + m + 1
        /\ \A q \in 1..(n + m) : after[q] = others[q]
        /\ after[n + m + 1] = field
    BY <1>1, <1>2, <2>2, <2>4, AppendProperties
  <2>6. <<field>> \in Seq(A) /\ Len(<<field>>) = 1 /\ <<field>>[1] = field
    BY <1>1
  <2>7. /\ longer \in Seq(A) /\ Len(longer) = m + 1
        /\ \A q \in 1..m : longer[q] = tail[q]
        /\ longer[m + 1] = field
    <3>1. longer = Append(tail, field)
      BY <1>1, <2>2
    <3> QED
      BY <1>1, <2>3, <2>4, <3>1, AppendProperties
  <2>8. ASSUME NEW k \in K PROVE after[Place(K, k)] = F[k]
    <3>1. Place(K, k) \in 1..n
      BY <1>2, <2>3, Places
    <3>2. Place(K, k) \in 1..(n + m)
      BY <2>4, <3>1
    <3> QED
      BY <1>2, <2>5, <3>2 DEF Tailed
  <2>9. ASSUME NEW q \in 1..(m + 1) PROVE after[n + q] = longer[q]
    <3>1. CASE q = m + 1
      BY <2>4, <2>5, <2>7, <3>1
    <3>2. CASE q # m + 1
      <4>1. q \in 1..m /\ n + q \in 1..(n + m)
        BY <2>4, <3>2
      <4> QED
        BY <1>2, <2>3, <2>5, <2>7, <4>1 DEF Tailed
    <3> QED
      BY <3>1, <3>2
  <2>10. Len(after) = n + Len(longer)
    BY <2>4, <2>5, <2>7
  <2>11. Tailed(after, K, F, longer)
    BY <2>3, <2>7, <2>8, <2>9, <2>10 DEF Tailed
  <2> QED
    BY <1>1, <1>2, <2>1, <2>2, <2>5, <2>6, <2>7, <2>11
<1> QED
  BY <1>3, <1>4

(* res.set puts the next field behind the others, and takes out the one    *)
(* that had its name: what is left is the last of each name.               *)
LEMMA RespondKeeps == AskInv /\ AnswerInv /\ Respond => AnswerInv'
<1> SUFFICES ASSUME AskInv, AnswerInv, Respond PROVE AnswerInv'
  OBVIOUS
<1>1. PICK S, P, F, L, A : /\ S = HeaderEnds /\ P = HeaderPairs /\ F = HeaderFields
                           /\ L = LastOf(Answered(i)) /\ A = Text \X Text
  OBVIOUS
<1>2. /\ pc = "respond" /\ pc' = "respond" /\ i' = i + 1 /\ i <= Len(mmio_res)
      /\ UNCHANGED <<text, mmio_res>>
      /\ response' = Append(Others(response, CString(mmio_res[i][1])),
                            <<CString(mmio_res[i][1]), CString(mmio_res[i][2])>>)
  BY DEF Respond, set
<1>3. /\ text \in Text /\ i \in Nat \ {0}
      /\ Complete(mmio_res, S, P) /\ response \in Seq(A) /\ Lists(response, L, F)
  BY <1>1, <1>2 DEF AskInv, AnswerInv, Types
<1>4. S \in Positions /\ \A d \in S : d \in LineEnds /\ d \in Nat
  <2>1. S \in Positions /\ \A d \in S : d \in LineEnds
    BY <1>1, <1>3, EndsFinite
  <2> QED
    BY <2>1 DEF Positions
<1>5. PICK e \in S : Place(S, e) = i /\ i <= MaxHeaders /\ mmio_res[i] = P[e]
  <2>1. i \in 1..Len(mmio_res)
    BY <1>2, <1>3 DEF AskInv, Types
  <2> QED
    BY <1>3, <1>4, <2>1, PlaceInArrays
<1>6. \A d \in S : F[d] = HeaderField(d) /\ P[d] = HeaderPair(d)
  BY <1>1 DEF HeaderFields, HeaderPairs
<1>7. F[e] \in A /\ F[e] = <<CString(mmio_res[i][1]), CString(mmio_res[i][2])>>
  <2>1. e \in LineEnds /\ TextLine(e) # <<>> /\ Header(TextLine(e)) # {}
    <3>1. e \in Nat
      BY <1>4
    <3>2. e <= e
      BY <3>1
    <3> QED
      BY <1>1, <3>2 DEF HeaderEnds
  <2>2. /\ HeaderField(e) \in Text \X Text
        /\ HeaderField(e) = <<CString(HeaderPair(e)[1]), CString(HeaderPair(e)[2])>>
    BY <1>3, <2>1, HeaderRead
  <2> QED
    BY <1>1, <1>5, <1>6, <2>2
<1>8. PICK name : name = F[e][1]
  OBVIOUS
<1>9. response' = Append(Others(response, name), F[e])
  BY <1>2, <1>7, <1>8
<1>10. PICK D : D = Answered(i)
  OBVIOUS
<1>11. D \subseteq S /\ \A d \in D : d < e
  <2>1. \A d \in D : d \in S /\ Place(S, d) < i
    BY <1>1, <1>10 DEF Answered, Passing
  <2>2. ASSUME NEW d \in D PROVE d < e
    <3>1. d \in Nat /\ e \in Nat /\ Place(S, d) \in Nat /\ Place(S, d) < Place(S, e) /\ Place(S, e) \in Nat
      BY <1>3, <1>4, <1>5, <2>1, Places
    <3>2. e < d => Place(S, e) < Place(S, d)
      BY <1>4, <2>1, PlaceIncreases
    <3> QED
      BY <3>1, <3>2
  <2> QED
    BY <2>1, <2>2
<1>12. Answered(i + 1) = D \cup {e}
  <2>1. ASSUME NEW d \in S, Place(S, d) = i PROVE d = e
    <3>1. d \in Nat /\ e \in Nat
      BY <1>4
    <3>2. ~(d < e) /\ ~(e < d)
      <4>1. (d < e => Place(S, d) < Place(S, e)) /\ (e < d => Place(S, e) < Place(S, d))
        BY <1>4, PlaceIncreases
      <4> QED
        BY <1>3, <1>5, <2>1, <4>1
    <3> QED
      BY <3>1, <3>2
  <2>2. ASSUME NEW d \in S PROVE Place(S, d) < i + 1 <=> Place(S, d) < i \/ d = e
    <3>1. Place(S, d) \in Nat
      BY <1>4, Places
    <3>2. Place(S, d) < i + 1 <=> Place(S, d) < i \/ Place(S, d) = i
      BY <1>3, <3>1
    <3> QED
      BY <1>5, <2>1, <3>2
  <2>3. e \in Passing /\ \A d \in Passing : d \in S
    BY <1>1, <1>5 DEF Passing
  <2> QED
    BY <1>1, <1>10, <2>2, <2>3 DEF Answered
<1>13. L = {d \in D : \A x \in D : Same(F[x][1], F[d][1]) => x <= d}
  <2>1. \A d \in D : F[d] = HeaderField(d)
    BY <1>6, <1>11
  <2> QED
    BY <1>1, <1>10, <2>1 DEF LastOf
<1>14. L \in Positions /\ \A d \in L : d \in S /\ d \in Nat /\ d < e
  <2>1. L \in SUBSET S
    BY <1>11, <1>13
  <2>2. IsFiniteSet(S) /\ S \in SUBSET Nat
    BY <1>4 DEF Positions
  <2>3. IsFiniteSet(L)
    BY <2>1, <2>2, FS_Subset
  <2> QED
    BY <1>11, <1>13, <2>1, <2>2, <2>3 DEF Positions
<1>15. PICK K : K = {d \in L : ~Same(F[d][1], name)}
  OBVIOUS
<1>16. LastOf(Answered(i + 1)) = K \cup {e}
  <2>1. LastOf(Answered(i + 1)) =
           {d \in D \cup {e} : \A x \in D \cup {e} : Same(F[x][1], F[d][1]) => x <= d}
    <3>1. \A d \in D \cup {e} : F[d] = HeaderField(d)
      BY <1>6, <1>11
    <3> QED
      BY <1>12, <3>1 DEF LastOf
  <2>2. e \in Nat /\ e <= e /\ \A d \in D : d \in Nat /\ d <= e /\ ~(e <= d)
    BY <1>4, <1>11
  <2>3. \A d : Same(F[d][1], F[e][1]) <=> Same(F[e][1], F[d][1])
    BY DEF Same
  <2>4. Same(F[e][1], F[e][1])
    BY DEF Same
  <2> QED
    BY <1>8, <1>13, <1>15, <2>1, <2>2, <2>3, <2>4
<1>17. Distinct(L, F)
  <2>1. ASSUME NEW d \in L, NEW x \in L, Same(F[x][1], F[d][1]) PROVE x = d
    <3>1. Same(F[d][1], F[x][1])
      BY <2>1 DEF Same
    <3>2. x \in Nat /\ d \in Nat /\ x <= d /\ d <= x
      BY <1>13, <1>14, <2>1, <3>1
    <3> QED
      BY <3>2
  <2> QED
    BY <2>1 DEF Distinct
<1>18. PICK others : others = Others(response, name)
  OBVIOUS
<1>19. K \in Positions /\ others \in Seq(A) /\ Lists(others, K, F)
  <2>1. Cardinality(L) \in Nat /\ Len(<<>>) = 0 /\ <<>> \in Seq(A)
    BY <1>14, FS_CardinalityType DEF Positions
  <2>2. Tailed(response, L, F, <<>>)
    BY <1>3, <2>1 DEF Lists, Tailed
  <2>3. \A p \in 1..Len(<<>>) : ~Same(<<>>[p][1], name)
    BY <2>1
  <2>4. K = Unnamed(L, F, name)
    BY <1>15 DEF Unnamed
  <2>5. K \in Positions /\ others \in Seq(A) /\ Tailed(others, K, F, <<>>)
    BY <1>3, <1>14, <1>17, <1>18, <2>1, <2>2, <2>3, <2>4, OthersLeft
  <2>6. Cardinality(K) \in Nat
    BY <2>5, FS_CardinalityType DEF Positions
  <2> QED
    BY <2>1, <2>5, <2>6 DEF Lists, Tailed
<1>20. response' = Append(others, F[e]) /\ response' \in Seq(A)
  BY <1>7, <1>9, <1>18, <1>19, AppendProperties
<1>21. Lists(response', K \cup {e}, F)
  <2>1. e \in Nat /\ \A k \in K : k < e
    BY <1>4, <1>14, <1>15
  <2> QED
    BY <1>7, <1>19, <1>20, <2>1, ListGrows
<1>22. HeaderEnds' = S /\ HeaderPairs' = P /\ HeaderFields' = F
  BY <1>1, <1>2, TextKept
<1>23. LastOf(Answered(i))' = K \cup {e}
  <2>1. PICK n : n = i + 1
    OBVIOUS
  <2>2. LastOf(Answered(n))' = LastOf(Answered(n))
    BY <1>2, TextKept
  <2>3. LastOf(Answered(i))' = LastOf(Answered(n))'
    BY <1>2, <2>1 DEF LastOf, Answered
  <2> QED
    BY <1>16, <2>1, <2>2, <2>3
<1>24. /\ Complete(mmio_res', HeaderEnds', HeaderPairs')
       /\ response' \in Seq(Text \X Text)
       /\ Lists(response', LastOf(Answered(i))', HeaderFields')
  BY <1>1, <1>2, <1>3, <1>20, <1>21, <1>22, <1>23
<1> QED
  BY <1>2, <1>24 DEF AnswerInv, ResponseAsReceived, Complete, Lists, Place

(* When every entry is in the response, so is every header line that       *)
(* passes; the fields of the frame leave their places for the tail.        *)
LEMMA RespondedKeeps == AskInv /\ AnswerInv /\ Responded => AnswerInv'
<1> SUFFICES ASSUME AskInv, AnswerInv, Responded PROVE AnswerInv'
  OBVIOUS
<1>1. PICK S, F : S = HeaderEnds /\ F = HeaderFields
  OBVIOUS
<1>2. /\ pc = "respond" /\ pc' = "done" /\ i > Len(mmio_res) /\ UNCHANGED <<request, text>>
      /\ i \in Nat /\ text \in Text /\ Len(mmio_res) \in Nat
      /\ response' = prepare_payload(keep_alive(response))
  BY DEF Responded, AskInv, Types
<1>3. /\ Complete(mmio_res, S, HeaderPairs) /\ Lists(response, LastOf(Answered(i)), F)
      /\ response \in Seq(Text \X Text)
  BY <1>1, <1>2 DEF AnswerInv
<1>4. S \in Positions
  BY <1>1, <1>2, EndsFinite
<1>5. Answered(i) = Passing
  <2>1. ASSUME NEW d \in Passing PROVE Place(S, d) < i
    <3>1. d \in S /\ Place(S, d) <= MaxHeaders
      BY <1>1 DEF Passing
    <3>2. Place(S, d) \in 1..Len(mmio_res)
      BY <1>3, <1>4, <3>1, PlaceInArrays
    <3> QED
      BY <1>2, <3>2
  <2> QED
    BY <1>1, <2>1 DEF Answered
<1>6. LastOf(Answered(i)) = Lasting
  BY <1>5 DEF LastOf, Lasting
<1>7. PICK L : L = Lasting
  OBVIOUS
<1>8. L \in Positions /\ Lists(response, L, F) /\ Distinct(L, F)
  <2>1. L \in SUBSET S
    BY <1>1, <1>7 DEF Lasting, Passing
  <2>2. IsFiniteSet(S) /\ S \in SUBSET Nat
    BY <1>4 DEF Positions
  <2>3. L \in Positions
    BY <2>1, <2>2, FS_Subset DEF Positions
  <2>4. ASSUME NEW d \in L, NEW x \in L, Same(F[d][1], F[x][1]) PROVE d = x
    <3>1. F[d] = HeaderField(d) /\ F[x] = HeaderField(x)
      BY <1>1, <2>1 DEF HeaderFields
    <3>2. Same(HeaderField(d)[1], HeaderField(x)[1]) /\ Same(HeaderField(x)[1], HeaderField(d)[1])
      BY <2>4, <3>1 DEF Same
    <3>3. d <= x /\ x <= d
      BY <1>7, <3>2 DEF Lasting
    <3>4. d \in Nat /\ x \in Nat
      BY <2>1, <2>2
    <3> QED
      BY <3>3, <3>4
  <2> QED
    BY <1>3, <1>6, <1>7, <2>3, <2>4 DEF Distinct
<1>9. \A e \in L : F[e] = HeaderField(e)
  BY <1>1, <1>7 DEF Lasting, Passing, HeaderFields
<1>10. ASSUME NEW name,
              NEW T \in SUBSET L, \A e \in L : Same(F[e][1], name) => e \in T,
              NEW value,
              \A x \in T : Same(F[x][1], name) => value = F[x][2],
              (\A x \in T : ~Same(F[x][1], name)) => value = <<>>
       PROVE  value = Received(name)
  <2>1. PICK named : named = {e \in Lasting : Same(HeaderField(e)[1], name)}
    OBVIOUS
  <2>2. named = {e \in T : Same(F[e][1], name)}
    BY <1>7, <1>9, <1>10, <2>1
  <2>3. CASE \E x \in T : Same(F[x][1], name)
    <3>1. PICK x \in T : Same(F[x][1], name)
      BY <2>3
    <3>2. ASSUME NEW d \in named PROVE d = x
      <4>1. Same(F[d][1], F[x][1]) /\ d \in L /\ x \in L
        BY <2>2, <3>1 DEF Same
      <4> QED
        BY <1>8, <4>1 DEF Distinct
    <3>3. named = {x}
      BY <2>2, <3>1, <3>2
    <3>4. ReceivedValues(name) = {HeaderField(x)[2]}
      BY <2>1, <3>3 DEF ReceivedValues
    <3>5. \A v : Only({v}) = v
      BY DEF Only
    <3>6. Received(name) = HeaderField(x)[2]
      BY <3>4, <3>5 DEF Received
    <3> QED
      BY <1>9, <1>10, <3>1, <3>6
  <2>4. CASE \A x \in T : ~Same(F[x][1], name)
    <3>1. ReceivedValues(name) = {}
      BY <2>1, <2>2, <2>4 DEF ReceivedValues
    <3> QED
      BY <1>10, <2>4, <3>1 DEF Received
  <2> QED
    BY <2>3, <2>4
<1>11. /\ ~Same(Connection, ContentLength) /\ ~Same(Connection, TransferEncoding)
       /\ ~Same(ContentLength, TransferEncoding)
  <2>1. Connection # ContentLength /\ Connection # TransferEncoding /\ ContentLength # TransferEncoding
    BY DEF Connection, ContentLength, TransferEncoding
  <2> QED
    BY <2>1, LowercaseAssumption DEF Framing
<1>12. PICK connection, encoding : /\ connection = Closing(Received(Connection))
                                   /\ encoding = Unchunked(Received(TransferEncoding))
  OBVIOUS
<1>13. PICK A, B : /\ B = {<<Connection, connection>>, <<ContentLength, BodyLength>>}
                   /\ A = (Text \X Text) \cup B \cup {<<TransferEncoding, encoding>>}
  OBVIOUS
<1>14. response \in Seq(A) /\ <<>> \in Seq(A) /\ <<>> \in Seq(B) /\ Len(<<>>) = 0
  <2>1. Text \X Text \subseteq A
    BY <1>13
  <2> QED
    BY <1>3, <2>1
<1>15. Tailed(response, L, F, <<>>)
  <2>1. Cardinality(L) \in Nat
    BY <1>8, FS_CardinalityType DEF Positions
  <2> QED
    BY <1>8, <1>14, <2>1 DEF Lists, Tailed
<1>16. PICK alive, K : alive = keep_alive(response) /\ K = Unnamed(L, F, Connection)
  OBVIOUS
<1>17. PICK tail : tail = Unless(Connection, connection)
  OBVIOUS
<1>18. Value(response, Connection) = Received(Connection)
  <2>1. DOMAIN response = 1..Len(response) /\ Len(<<>>) \in Nat
    BY <1>14
  <2>2. \A p \in 1..Len(<<>>) : ~Same(<<>>[p][1], Connection)
    BY <1>14
  <2>3. /\ \A x \in L : Same(F[x][1], Connection) => Value(response, Connection) = F[x][2]
        /\ (\A x \in L : ~Same(F[x][1], Connection)) => Value(response, Connection) = <<>>
    BY <1>8, <1>15, <2>1, <2>2, ValueRead
  <2> QED
    BY <1>10, <2>3
<1>19. /\ K \in Positions /\ Distinct(K, F) /\ alive \in Seq(A)
       /\ tail \in Seq(A) /\ Tailed(alive, K, F, tail)
  <2>1. alive = Update(response, Connection, connection)
    BY <1>12, <1>16, <1>18 DEF keep_alive
  <2>2. <<Connection, connection>> \in A
    BY <1>13
  <2>3. \A p \in 1..Len(<<>>) : ~Same(<<>>[p][1], Connection)
    BY <1>14
  <2>4. /\ K \in Positions /\ Distinct(K, F) /\ alive \in Seq(A)
        /\ tail \in Seq(A) /\ Tailed(alive, K, F, <<>> \o tail)
    <3>1. PICK T, U : T = <<>> /\ U = Update(response, Connection, connection)
      OBVIOUS
    <3>2. /\ Unnamed(L, F, Connection) \in Positions /\ Distinct(Unnamed(L, F, Connection), F)
          /\ U \in Seq(A) /\ Unless(Connection, connection) \in Seq(A)
          /\ Tailed(U, Unnamed(L, F, Connection), F, T \o Unless(Connection, connection))
      BY <1>8, <1>14, <1>15, <2>2, <2>3, <3>1, TailSet
    <3> QED
      BY <1>16, <1>17, <2>1, <3>1, <3>2, Zenon
  <2>5. <<>> \o tail = tail
    BY <2>4, ConcatEmptySeq
  <2> QED
    BY <2>4, <2>5
<1>20. tail \in Seq(B)
  <2>1. tail = <<>> \/ tail = <<<<Connection, connection>>>>
    BY <1>17 DEF Unless
  <2>2. \A field \in B : <<field>> \in Seq(B)
    OBVIOUS
  <2>3. <<Connection, connection>> \in B
    BY <1>13
  <2>4. <<>> \in Seq(B) /\ <<<<Connection, connection>>>> \in Seq(B)
    BY <1>14, <2>2, <2>3
  <2> QED
    BY <2>1, <2>4
<1>21. \A p \in 1..Len(tail) : tail[p][1] = Connection
  <2>1. tail = <<>> \/ tail = <<<<Connection, connection>>>>
    BY <1>17 DEF Unless
  <2>2. CASE tail = <<>>
    BY <2>2
  <2>3. CASE tail = <<<<Connection, connection>>>>
    BY <2>3
  <2> QED
    BY <2>1, <2>2, <2>3
<1>22. PICK sized, M : sized = set(alive, ContentLength, BodyLength) /\ M = Unnamed(K, F, ContentLength)
  OBVIOUS
<1>23. PICK longer : longer = tail \o <<<<ContentLength, BodyLength>>>>
  OBVIOUS
<1>24. /\ M \in Positions /\ Distinct(M, F) /\ sized \in Seq(A)
       /\ longer \in Seq(A) /\ Tailed(sized, M, F, longer)
  <2>1. BodyLength # <<>>
    BY DEF BodyLength
  <2>2. sized = Update(alive, ContentLength, BodyLength)
    BY <1>22, <2>1 DEF Update
  <2>3. longer = tail \o Unless(ContentLength, BodyLength)
    BY <1>23, <2>1 DEF Unless
  <2>4. <<ContentLength, BodyLength>> \in A
    BY <1>13
  <2>5. \A p \in 1..Len(tail) : ~Same(tail[p][1], ContentLength)
    BY <1>11, <1>21
  <2> QED
    BY <1>19, <1>22, <2>2, <2>3, <2>4, <2>5, TailSet
<1>25. \A p \in 1..Len(longer) : ~Same(longer[p][1], TransferEncoding)
  <2>1. <<<<ContentLength, BodyLength>>>> \in Seq(B)
    BY <1>13
  <2>2. longer \in Seq(B)
    BY <1>20, <1>23, <2>1, ConcatProperties
  <2>3. \A field \in B : ~Same(field[1], TransferEncoding)
    BY <1>11, <1>13
  <2> QED
    BY <2>2, <2>3, ElementOfSeq
<1>26. Value(sized, TransferEncoding) = Received(TransferEncoding)
  <2>1. DOMAIN sized = 1..Len(sized) /\ Len(longer) \in Nat
    BY <1>24, LenProperties
  <2>2. /\ \A x \in M : Same(F[x][1], TransferEncoding) => Value(sized, TransferEncoding) = F[x][2]
        /\ (\A x \in M : ~Same(F[x][1], TransferEncoding)) => Value(sized, TransferEncoding) = <<>>
    BY <1>24, <1>25, <2>1, ValueRead
  <2>3. M \in SUBSET L
    BY <1>16, <1>22 DEF Unnamed
  <2>4. ASSUME NEW e \in L, Same(F[e][1], TransferEncoding) PROVE e \in M
    <3>1. ~Same(F[e][1], Connection) /\ ~Same(F[e][1], ContentLength)
      BY <1>11, <2>4 DEF Same
    <3> QED
      BY <1>16, <1>22, <3>1 DEF Unnamed
  <2> QED
    BY <1>10, <2>2, <2>3, <2>4
<1>27. PICK after, N, whole : /\ after = Update(sized, TransferEncoding, encoding)
                              /\ N = Unnamed(M, F, TransferEncoding)
                              /\ whole = longer \o Unless(TransferEncoding, encoding)
  OBVIOUS
<1>28. Tailed(after, N, F, whole)
  <2>1. <<TransferEncoding, encoding>> \in A
    BY <1>13
  <2> QED
    BY <1>24, <1>25, <1>27, <2>1, TailSet
<1>29. response' = after
  BY <1>2, <1>12, <1>16, <1>22, <1>26, <1>27 DEF prepare_payload
<1>30. N = Kept
  <2>1. N = {e \in L : ~Same(F[e][1], Connection) /\ ~Same(F[e][1], ContentLength)
                        /\ ~Same(F[e][1], TransferEncoding)}
    BY <1>16, <1>22, <1>27 DEF Unnamed
  <2>2. Kept = {e \in L : \A name \in Framing : ~Same(F[e][1], name)}
    BY <1>7, <1>9 DEF Kept
  <2> QED
    BY <2>1, <2>2 DEF Framing
<1>31. whole = Frame
  BY <1>12, <1>17, <1>23, <1>27 DEF Frame
<1>32. \A e \in Kept : F[e] = HeaderField(e)
  BY <1>7, <1>9 DEF Kept
<1>33. /\ Kept' = Kept /\ Frame' = Frame /\ \A e : HeaderField(e)' = HeaderField(e)
  BY <1>2, TextKept, FrameKept
<1>34. Tailed(response', Kept, F, Frame)
  BY <1>28, <1>29, <1>30, <1>31
<1>35. ResponseAsReceived'
  BY <1>32, <1>33, <1>34 DEF ResponseAsReceived, Tailed, Place
<1> QED
  BY <1>2, <1>35 DEF AnswerInv

LEMMA AskInvStep == AskInv /\ AnswerInv /\ [Next]_vars => AskInv'
<1>1. AskInv /\ (SplitEnds \/ Respond \/ Responded \/ Done \/ UNCHANGED vars) => AskInv'
  <2> SUFFICES ASSUME AskInv, SplitEnds \/ Respond \/ Responded \/ Done \/ UNCHANGED vars
               PROVE  AskInv'
    OBVIOUS
  <2>1. UNCHANGED <<request, text, mmio_req, asked, mmio_res>>
    BY DEF SplitEnds, Respond, Responded, Done, vars
  <2>2. \/ pc' = pc /\ i' = i
        \/ pc' \in {"respond", "done"} /\ i' \in {1, i, i + 1}
    BY DEF SplitEnds, Respond, Responded, Done, vars
  <2>3. i' \in Nat \ {0} /\ Types'
    BY <2>1, <2>2 DEF AskInv, Types
  <2> QED
    BY <2>1, <2>2, <2>3 DEF AskInv, AskedAsRequested
<1> QED
  BY <1>1, FillKeeps, FetchKeeps, SplitKeeps DEF Next

LEMMA AnswerInvStep == AskInv /\ AnswerInv /\ [Next]_vars => AnswerInv'
<1>1. ASSUME AnswerInv, Done \/ UNCHANGED vars PROVE AnswerInv'
  <2>1. UNCHANGED <<request, text, pc, i, mmio_res, response>>
    BY <1>1 DEF Done, vars
  <2>2. /\ LineEnds' = LineEnds /\ HeaderEnds' = HeaderEnds
        /\ HeaderPairs' = HeaderPairs /\ HeaderFields' = HeaderFields
        /\ \A d : TextLine(d)' = TextLine(d) /\ HeaderField(d)' = HeaderField(d)
        /\ Kept' = Kept /\ Frame' = Frame
    BY <2>1, TextKept, FrameKept
  <2>3. LastOf(Answered(i))' = LastOf(Answered(i))
    <3>1. PICK n : n = i
      OBVIOUS
    <3>2. LastOf(Answered(n))' = LastOf(Answered(n))
      BY <2>1, TextKept
    <3>3. LastOf(Answered(i))' = LastOf(Answered(n))'
      BY <2>1, <3>1 DEF LastOf, Answered
    <3> QED
      BY <3>1, <3>2, <3>3
  <2>4. ResponseAsReceived'
    BY <1>1, <2>1, <2>2 DEF AnswerInv, ResponseAsReceived, Place
  <2>5. pc' = "split" =>
           /\ i' = 1 \/ i' - 1 \in LineEnds'
           /\ \A d \in LineEnds' : d < i' => TextLine(d)' # <<>>
           /\ Lists(mmio_res', Below(HeaderEnds', i'), HeaderPairs')
    BY <1>1, <2>1, <2>2 DEF AnswerInv
  <2>6. pc' = "respond" =>
           /\ Complete(mmio_res', HeaderEnds', HeaderPairs')
           /\ response' \in Seq(Text \X Text)
           /\ Lists(response', LastOf(Answered(i))', HeaderFields')
    BY <1>1, <2>1, <2>2, <2>3 DEF AnswerInv
  <2> QED
    BY <1>1, <2>1, <2>4, <2>5, <2>6 DEF AnswerInv, Complete, Lists, Below, Place
<1> QED
  BY <1>1, AnswerNotBegun, SplitKeeps, SplitEndsKeeps, RespondKeeps, RespondedKeeps DEF Next

LEMMA Invariance == Spec => [](AskInv /\ AnswerInv)
  BY AskInvInit, AskInvStep, AnswerInvInit, AnswerInvStep, PTL DEF Spec

(* No loop writes beyond the arrays of yield_mmio_req and yield_mmio_res,  *)
(* whatever the client sends and the server answers.                       *)
THEOREM TypeCorrect == Spec => []TypeOK
<1>1. ASSUME Types PROVE TypeOK
  BY <1>1 DEF Types, TypeOK, Arrays, Pairs
<1> QED
  BY <1>1, Invariance, PTL DEF AskInv

(* The browser is asked for the client's request, cut to the arrays; no    *)
(* string is read beyond its end.                                          *)
THEOREM RequestForwarded == Spec => []AskedAsRequested
  BY Invariance, PTL DEF AskInv

(* The client's response has the browser's header fields, in order, the    *)
(* last of each name, cut to the arrays, and behind them the fields that   *)
(* keep_alive and prepare_payload set, whatever the server's header text   *)
(* says of them and however its lines end.                                 *)
THEOREM ResponseForwarded == Spec => []ResponseAsReceived
  BY Invariance, PTL DEF AnswerInv
-----------------------------------------------------------------------------
(* What the loops have left to do: a field of the request, a character of  *)
(* the text or an entry of the arrays for each turn.                       *)
InLoops ==
    /\ pc = "fill" => i <= Len(request.fields) + 1
    /\ pc = "respond" => i <= Len(mmio_res) + 1

AnswerLeft == Len(text) + MaxHeaders + 5
LoopsLeft ==
    IF pc = "begin" THEN Len(request.fields) + 2 + AnswerLeft
    ELSE IF pc = "fill" THEN Len(request.fields) + 2 - i + AnswerLeft
    ELSE IF pc = "fetch" THEN AnswerLeft
    ELSE IF pc = "split" THEN Len(text) + 2 - i + MaxHeaders + 2
    ELSE IF pc = "respond" THEN MaxHeaders + 2 - i
    ELSE 0

LEMMA Lengths ==
    ASSUME AskInv, AnswerInv
    PROVE  /\ i \in Nat /\ i > 0 /\ MaxHeaders \in Nat
           /\ Len(request.fields) \in Nat /\ Len(text) \in Nat
           /\ Len(mmio_res) \in Nat /\ Len(mmio_res) <= MaxHeaders
           /\ pc = "split" => i <= Len(text) + 1
<1>1. Len(request.fields) \in Nat /\ Len(text) \in Nat /\ Len(mmio_res) \in Nat /\ MaxHeaders \in Nat
  BY LenProperties, SizesAssumption DEF AskInv, Types, Requests, Text
<1>2. ASSUME pc = "split" PROVE i <= Len(text) + 1
  <2>1. i = 1 \/ i - 1 \in LineEnds
    BY <1>2 DEF AnswerInv
  <2>2. \A e \in LineEnds : e \in 1..Len(text)
    BY EndsFinite DEF AskInv, Types
  <2> QED
    BY <1>1, <2>1, <2>2 DEF AskInv, Types
<1> QED
  BY <1>1, <1>2 DEF AskInv, Types

LEMMA InLoopsStep == AskInv /\ AnswerInv /\ InLoops /\ [Next]_vars => InLoops'
<1> SUFFICES ASSUME AskInv, AnswerInv, InLoops, [Next]_vars PROVE InLoops'
  OBVIOUS
<1>1. CASE FillUrl \/ FillField \/ Filled \/ Fetch
  BY <1>1, Lengths DEF FillUrl, FillField, Filled, Fetch, InLoops, AskInv
<1>2. CASE SplitLine \/ SplitEnds
  BY <1>2, Lengths DEF SplitLine, SplitEnds, InLoops
<1>3. CASE Respond \/ Responded
  BY <1>3, Lengths DEF Respond, Responded, InLoops
<1>4. CASE Done \/ UNCHANGED vars
  BY <1>4 DEF Done, vars, InLoops
<1> QED
  BY <1>1, <1>2, <1>3, <1>4 DEF Next

LEMMA LoopsStep ==
    ASSUME AskInv, AnswerInv, InLoops, Next, ~Done
    PROVE  LoopsLeft' \in Nat /\ LoopsLeft' < LoopsLeft
<1>1. request' = request /\ text' = text
  BY DEF Next, FillUrl, FillField, Filled, Fetch, SplitLine, SplitEnds, Respond, Responded
<1>2. CASE FillUrl
  BY <1>1, <1>2, Lengths DEF FillUrl, LoopsLeft, AnswerLeft, AskInv
<1>3. CASE FillField
  <2>1. pc = "fill" /\ pc' = "fill" /\ i <= Len(request.fields) /\ i' = i + 1
    BY <1>3 DEF FillField
  <2>2. PICK n, left \in Nat : n = Len(request.fields) /\ left = AnswerLeft
    BY Lengths DEF AnswerLeft
  <2>3. LoopsLeft = n + 2 - i + left /\ LoopsLeft' = n + 2 - (i + 1) + left
    BY <1>1, <2>1, <2>2 DEF LoopsLeft, AnswerLeft
  <2>4. i \in Nat /\ i <= n
    BY <2>1, <2>2, Lengths
  <2> QED
    BY <2>2, <2>3, <2>4
<1>4. CASE Filled
  <2>1. pc = "fill" /\ pc' = "fetch" /\ i <= Len(request.fields) + 1
    BY <1>4 DEF Filled, InLoops
  <2> QED
    BY <1>1, <2>1, Lengths DEF LoopsLeft, AnswerLeft
<1>5. CASE Fetch
  BY <1>1, <1>5, Lengths DEF Fetch, LoopsLeft, AnswerLeft
<1>6. CASE SplitLine
  <2>1. pc = "split" /\ pc' = "split" /\ ~AtEnd /\ i' = Min(Ends(i)) + 1
    BY <1>6 DEF SplitLine
  <2>2. Ends(i) # {} /\ \A k \in Ends(i) : k \in Nat /\ k >= i /\ k <= Len(text)
    BY <2>1, Lengths DEF Ends, AtEnd
  <2>3. Min(Ends(i)) \in Ends(i)
    BY <2>2, NaturalMin
  <2>4. i' \in Nat /\ i' > i /\ i' <= Len(text) + 1
    BY <2>1, <2>2, <2>3, Lengths
  <2> QED
    BY <1>1, <2>1, <2>4, Lengths DEF LoopsLeft
<1>7. CASE SplitEnds
  BY <1>1, <1>7, Lengths DEF SplitEnds, LoopsLeft
<1>8. CASE Respond
  BY <1>1, <1>8, Lengths DEF Respond, LoopsLeft
<1>9. CASE Responded
  BY <1>1, <1>9, Lengths DEF Responded, LoopsLeft, InLoops
<1> QED
  BY <1>2, <1>3, <1>4, <1>5, <1>6, <1>7, <1>8, <1>9 DEF Next

(* Every turn of fill_mmio_req, of the loop over the lines and of the one  *)
(* in handle_request brings the end nearer, whatever the client sends and  *)
(* the server answers.                                                     *)
THEOREM LoopsDescend == Spec => [][LoopsLeft' \in Nat /\ LoopsLeft' < LoopsLeft]_vars
<1>1. Init => InLoops
  BY DEF Init, InLoops
<1>2. AskInv /\ AnswerInv /\ InLoops /\ [Next]_vars => [LoopsLeft' \in Nat /\ LoopsLeft' < LoopsLeft]_vars
  BY LoopsStep DEF Done
<1> QED
  BY <1>1, <1>2, InLoopsStep, AskInvInit, AskInvStep, AnswerInvInit, AnswerInvStep, PTL DEF Spec
=============================================================================
