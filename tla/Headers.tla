------------------------------ MODULE Headers ------------------------------
(***************************************************************************)
(* How the text of a request and of a response crosses the border between  *)
(* guest and browser: through the fixed character arrays of yield_mmio_req *)
(* and yield_mmio_res, which strsvcopy fills and C functions read up to    *)
(* the first NUL.  fill_mmio_req and the loop of handle_request are in     *)
(* https-proxy.cpp, the host's side is in handle_softyield of webcm.cpp.   *)
(* FetchPath carries both messages as wholes.                              *)
(***************************************************************************)
EXTENDS Naturals, Sequences, SequencesExt, FiniteSetsExt

CONSTANTS
    UrlSize, MethodSize, FieldSize, MaxHeaders,   \* 4096, 32, 256, 64
    Chars,      \* of a request and of response headers: NUL is not one
    Lowercase,  \* the lower-case letter of each upper-case one
    Exchanges   \* of a request [version, host, method, target, fields], as the HTTP parser
                \* gives it, and the text of the response headers, as the browser does

NUL == "nul"
LF == "lf"
CR == "cr"

ASSUME SizesAssumption == {UrlSize, MethodSize, FieldSize, MaxHeaders} \subseteq Nat \ {0}

Scheme == <<"https://">>

(* A field's name that Beast knows, a token of a value and the decimal     *)
(* number of a length are one character each.                              *)
Connection == <<"Connection">>
ContentLength == <<"Content-Length">>
TransferEncoding == <<"Transfer-Encoding">>
Framing == {Connection, ContentLength, TransferEncoding}
Own == {<<"Host">>, <<"User-Agent">>, ContentLength}
BodyLength == <<"length of the body">>

Text == Seq(Chars)
Requests == [version : {10, 11}, host : Text, method : Text, target : Text, fields : Seq(Text \X Text)]

(* Beast compares names, and the tokens of a value, without regard to case. *)
Lower(ch) == IF ch \in DOMAIN Lowercase THEN Lowercase[ch] ELSE ch
Folded(s) == [k \in DOMAIN s |-> Lower(s[k])]
Same(name, other) == Folded(name) = Folded(other)

(* The HTTP parser refuses a NUL, and a C string has none. *)
ASSUME CharsAssumption == NUL \notin Chars /\ Scheme \in Text
ASSUME LowercaseAssumption == \A name, other \in Framing : Same(name, other) => name = other
ASSUME ExchangesAssumption == Exchanges \subseteq Requests \X Text

VARIABLES
    request, text,
    pc,          \* "begin", "fill", "fetch", "split", "respond", "done"
    i,           \* next header field, or next character of the text
    mmio_req,    \* url, method and header arrays
    asked,       \* what emscripten_fetch is called with
    mmio_res,    \* header arrays
    response     \* the header fields of the client's response

vars == <<request, text, pc, i, mmio_req, asked, mmio_res, response>>

Blank(size) == [k \in 0..(size - 1) |-> NUL]
NotAsked == [url |-> <<>>, method |-> <<>>, headers |-> <<>>]

Init ==
    /\ \E exchange \in Exchanges : request = exchange[1] /\ text = exchange[2]
    /\ pc = "begin" /\ i = 1
    /\ mmio_req = [url |-> Blank(UrlSize), method |-> Blank(MethodSize), headers |-> <<>>]
    /\ asked = NotAsked
    /\ mmio_res = <<>> /\ response = <<>>
-----------------------------------------------------------------------------
Least(m, n) == IF m < n THEN m ELSE n

MutStrsvcopy(size, sv) ==
    [k \in 0..(size - 1) |-> IF k < Len(sv) THEN sv[k + 1] ELSE NUL]
strsvcopy(size, sv) ==
    [k \in 0..(size - 1) |->
        IF k = Least(Len(sv), size - 1) THEN NUL
        ELSE IF k < Least(Len(sv), size) THEN sv[k + 1] ELSE NUL]

Pair(name, value) == <<strsvcopy(FieldSize, name), strsvcopy(FieldSize, value)>>

(* What strcpy, std::string and the browser read of an array.  An array    *)
(* without a NUL is read beyond its end.                                   *)
CString(array) ==
    LET ends == {k \in DOMAIN array : array[k] = NUL} IN
    IF ends = {} THEN <<"overrun">> ELSE [k \in 1..Min(ends) |-> array[k - 1]]

(* Both loops stop when every entry of the arrays is used. *)
MutFull(headers) == Len(headers) > MaxHeaders
Full(headers) == Len(headers) >= MaxHeaders

(* fill_mmio_req: the url and the method, then the fields one by one, but  *)
(* for three, and at most 64.                                              *)
Url(r) == Scheme \o r.host \o r.target

FillUrl ==
    /\ pc = "begin"
    /\ mmio_req' = [mmio_req EXCEPT !.url = strsvcopy(UrlSize, Url(request)),
                                    !.method = strsvcopy(MethodSize, request.method)]
    /\ pc' = "fill"
    /\ UNCHANGED <<request, text, i, asked, mmio_res, response>>

Skipped(field) == \E name \in Own : Same(field[1], name)

FillField ==
    /\ pc = "fill"
    /\ i <= Len(request.fields) /\ ~Full(mmio_req.headers)
    /\ LET field == request.fields[i] IN
       mmio_req' = IF Skipped(field) THEN mmio_req
                   ELSE [mmio_req EXCEPT !.headers = Append(@, Pair(field[1], field[2]))]
    /\ i' = i + 1
    /\ UNCHANGED <<request, text, pc, asked, mmio_res, response>>

Filled ==
    /\ pc = "fill"
    /\ i > Len(request.fields) \/ Full(mmio_req.headers)
    /\ pc' = "fetch"
    /\ UNCHANGED <<request, text, i, mmio_req, asked, mmio_res, response>>

(* REQUEST: the headers become a vector of C strings. *)
Fetch ==
    /\ pc = "fetch"
    /\ asked' = [url |-> CString(mmio_req.url), method |-> CString(mmio_req.method),
                 headers |-> [k \in DOMAIN mmio_req.headers |->
                                 <<CString(mmio_req.headers[k][1]), CString(mmio_req.headers[k][2])>>]]
    /\ pc' = "split" /\ i' = 1
    /\ UNCHANGED <<request, text, mmio_req, mmio_res, response>>
-----------------------------------------------------------------------------
(* POLL_RESPONSE: the text line by line, up to an empty one or its end.    *)
Ends(from) == {k \in from..Len(text) : text[k] = LF}
Line == LET end == Min(Ends(i)) IN SubSeq(text, i, end - 1)
AtEnd == IF Ends(i) = {} THEN TRUE ELSE Min(Ends(i)) = i

Stripped(line) == IF Last(line) = CR THEN Front(line) ELSE line

Colons(line) == {k \in 1..(Len(line) - 1) : line[k] = ":" /\ line[k + 1] = " "}
NameOf(line) == SubSeq(line, 1, Min(Colons(line)) - 1)
ValueOf(line) == SubSeq(line, Min(Colons(line)) + 2, Len(line))

SplitLine ==
    /\ pc = "split"
    /\ ~Full(mmio_res) /\ ~AtEnd
    /\ LET line == Stripped(Line) IN
       mmio_res' = IF Colons(line) = {} THEN mmio_res
                   ELSE Append(mmio_res, Pair(NameOf(line), ValueOf(line)))
    /\ i' = Min(Ends(i)) + 1
    /\ UNCHANGED <<request, text, pc, mmio_req, asked, response>>

SplitEnds ==
    /\ pc = "split"
    /\ Full(mmio_res) \/ AtEnd
    /\ pc' = "respond" /\ i' = 1
    /\ UNCHANGED <<request, text, mmio_req, asked, mmio_res, response>>

(* handle_request: res.set erases the field of the same name, of which     *)
(* there is at most one, and adds the new one behind the others.           *)
Named(fields, name) == {k \in DOMAIN fields : Same(fields[k][1], name)}
Others(fields, name) ==
    IF Named(fields, name) = {} THEN fields ELSE RemoveAt(fields, Min(Named(fields, name)))
set(fields, name, value) == Append(Others(fields, name), <<name, value>>)

Respond ==
    /\ pc = "respond" /\ i <= Len(mmio_res)
    /\ response' = set(response, CString(mmio_res[i][1]), CString(mmio_res[i][2]))
    /\ i' = i + 1
    /\ UNCHANGED <<request, text, pc, mmio_req, asked, mmio_res>>

(* Then it frames the message itself: keep_alive(false) rewrites the       *)
(* tokens of Connection, and prepare_payload sets Content-Length and takes *)
(* a last "chunked" from Transfer-Encoding.  A field left empty is erased. *)
Value(fields, name) ==
    IF Named(fields, name) = {} THEN <<>> ELSE fields[Min(Named(fields, name))][2]
Update(fields, name, value) ==
    IF value = <<>> THEN Others(fields, name) ELSE set(fields, name, value)

Without(tokens, words) == SelectSeq(tokens, LAMBDA token : Lower(token) \notin words)
Closing(tokens) ==
    IF request.version = 10 THEN Without(tokens, {"close", "keep-alive"})
    ELSE LET kept == Without(tokens, {"keep-alive"}) IN
         IF \E k \in DOMAIN kept : Lower(kept[k]) = "close" THEN kept ELSE Append(kept, "close")
Unchunked(tokens) ==
    IF tokens # <<>> /\ Lower(Last(tokens)) = "chunked" THEN Front(tokens) ELSE tokens

keep_alive(fields) == Update(fields, Connection, Closing(Value(fields, Connection)))
MutPrepare(fields) == fields
prepare_payload(fields) ==
    LET sized == set(fields, ContentLength, BodyLength) IN
    Update(sized, TransferEncoding, Unchunked(Value(sized, TransferEncoding)))

Responded ==
    /\ pc = "respond" /\ i > Len(mmio_res)
    /\ response' = prepare_payload(keep_alive(response))
    /\ pc' = "done"
    /\ UNCHANGED <<request, text, i, mmio_req, asked, mmio_res>>

Done == pc = "done" /\ UNCHANGED vars

Next == FillUrl \/ FillField \/ Filled \/ Fetch \/ SplitLine \/ SplitEnds \/ Respond \/ Responded \/ Done

Spec == Init /\ [][Next]_vars
-----------------------------------------------------------------------------
(* No loop writes beyond the arrays of yield_mmio_req and yield_mmio_res.   *)
TypeOK ==
    /\ pc \in {"begin", "fill", "fetch", "split", "respond", "done"} /\ i \in Nat \ {0}
    /\ DOMAIN mmio_req.url = 0..(UrlSize - 1) /\ DOMAIN mmio_req.method = 0..(MethodSize - 1)
    /\ \A headers \in {mmio_req.headers, mmio_res} :
          /\ Len(headers) <= MaxHeaders
          /\ \A k \in DOMAIN headers : \A v \in {1, 2} : DOMAIN headers[k][v] = 0..(FieldSize - 1)

Cut(size, s) == SubSeq(s, 1, Least(Len(s), size - 1))
Place(S, k) == Cardinality({j \in S : j <= k})

(* The browser is asked for the client's request, without the three fields *)
(* it sets itself, each string cut to its array and the headers to 64.     *)
(* What fits is unchanged, no string runs into the next, and each field    *)
(* that is passed on has the place it has among them.                      *)
Forwarded(r) == {k \in DOMAIN r.fields : \A name \in Own : ~Same(r.fields[k][1], name)}

AskedAsRequested ==
    asked # NotAsked =>
       /\ asked.url = Cut(UrlSize, Url(request))
       /\ asked.method = Cut(MethodSize, request.method)
       /\ Len(asked.headers) = Least(Cardinality(Forwarded(request)), MaxHeaders)
       /\ \A k \in Forwarded(request) :
             LET f == request.fields[k] p == Place(Forwarded(request), k) IN
             p <= MaxHeaders => asked.headers[p] = <<Cut(FieldSize, f[1]), Cut(FieldSize, f[2])>>

(* The client gets the browser's header fields, in order: the lines up to  *)
(* the first empty one that have a colon and a space, split there.  Only   *)
(* the first 64 pass, and of those of one name, in upper or lower case,    *)
(* the last.  Behind them come the fields that say where the message and   *)
(* the connection end.  They are the proxy's own, whatever the browser's   *)
(* say: closed after the response, as long as the body, not chunked.       *)
LineEnds == {k \in DOMAIN text : text[k] = LF}
Begin(e) ==
    LET before == {d \in LineEnds : d < e} IN IF before = {} THEN 1 ELSE Max(before) + 1
TextLine(e) == SubSeq(text, Begin(e), e - 1)
Header(line) == {c \in DOMAIN line : c > 1 /\ line[c - 1] = ":" /\ line[c] = " "}
Unended(s) == IF s # <<>> /\ Last(s) = CR THEN Front(s) ELSE s

HeaderEnds == {e \in LineEnds :
                  /\ Header(TextLine(e)) # {}
                  /\ \A d \in LineEnds : d <= e => TextLine(d) # <<>>}
HeaderField(e) ==
    LET line == TextLine(e) c == Min(Header(line)) IN
    <<Cut(FieldSize, SubSeq(line, 1, c - 2)),
      Cut(FieldSize, Unended(SubSeq(line, c + 1, Len(line))))>>

Passing == {e \in HeaderEnds : Place(HeaderEnds, e) <= MaxHeaders}
Lasting == {e \in Passing : \A d \in Passing : Same(HeaderField(d)[1], HeaderField(e)[1]) => d <= e}

Kept == {e \in Lasting : \A name \in Framing : ~Same(HeaderField(e)[1], name)}
ReceivedValues(name) ==
    {HeaderField(e)[2] : e \in {d \in Lasting : Same(HeaderField(d)[1], name)}}
Only(S) == CHOOSE x \in S : TRUE
Received(name) ==
    IF ReceivedValues(name) = {} THEN <<>> ELSE Only(ReceivedValues(name))
Unless(name, value) == IF value = <<>> THEN <<>> ELSE <<<<name, value>>>>
Frame ==
    Unless(Connection, Closing(Received(Connection)))
    \o <<<<ContentLength, BodyLength>>>>
    \o Unless(TransferEncoding, Unchunked(Received(TransferEncoding)))

ResponseAsReceived ==
    pc = "done" =>
       LET kept == Kept frame == Frame IN
       /\ Len(response) = Cardinality(kept) + Len(frame)
       /\ \A e \in kept : response[Place(kept, e)] = HeaderField(e)
       /\ \A p \in 1..Len(frame) : response[Cardinality(kept) + p] = frame[p]
=============================================================================
