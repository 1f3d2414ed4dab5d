----------------------------- MODULE MCHeaders -----------------------------
(* Strings around the sizes of the arrays, and texts line by line. *)
EXTENDS Headers, TLC

MCChars == {"x", "h", "G", "Host", "HOST", "User-Agent", "user-agent", "content-length", "9",
            "a", "A", "b", "c", "v", "w", ":", " ", LF, CR, "https://",
            "Connection", "connection", "close", "Close", "keep-alive",
            "Content-Length", "transfer-encoding", "Transfer-Encoding", "chunked", "host"}

MCLowercase == "A" :> "a" @@ "Close" :> "close" @@ "Host" :> "host" @@ "HOST" :> "host"
               @@ "User-Agent" :> "user-agent" @@ "Connection" :> "connection"
               @@ "Content-Length" :> "content-length" @@ "Transfer-Encoding" :> "transfer-encoding"

Strings(n) == {[k \in 1..m |-> "x"] : m \in 0..n}

Fields == {<<<<"HOST">>, <<"h">>>>, <<<<"content-length">>, <<"9">>>>, <<<<"user-agent">>, <<"v">>>>}
          \cup {<<v, w>> : v \in {<<"a">>, <<"b", "b", "b">>}, w \in {<<>>, <<"v", "v">>, <<"v", "v", "v", "v">>}}

C == <<<<"c">>, <<"v">>>>
FieldLists == UNION {[1..n -> Fields] : n \in 0..2}
              \cup {<<f, <<<<"Host">>, <<"h">>>>, g, C, C>> : f, g \in Fields}

MCRequests ==
    {[version |-> 11, host |-> <<"h">>, method |-> m, target |-> t, fields |-> <<>>] :
        m \in Strings(4) \ {<<>>}, t \in Strings(4)}
    \cup {[version |-> 11, host |-> <<"h">>, method |-> <<"G">>, target |-> <<"x">>, fields |-> l] :
             l \in FieldLists}

Lines == {<<>>, <<"a">>, <<"a", ":", " ">>, <<"a", ":", " ", "v">>, <<"a", ":", "v">>,
          <<"b", ":", " ", "v", ":", " ">>, <<"c", "c", "c", ":", " ", "v", "v", "v">>}
EndedLines == {l \o e : l \in Lines, e \in {<<LF>>, <<CR, LF>>}}

(* A text may end without a line feed. *)
MCTexts == {<<>>} \cup EndedLines \cup {l \o <<"a", ":", " ">> : l \in EndedLines}
           \cup {l \o m \o <<"a", ":", " ", "w", LF, "A", ":", " ", "v", LF>> : l, m \in EndedLines}

(* What a server says of the message's end, of the connection's, and else. *)
FrameLines == {name \o <<":", " ">> \o value \o <<LF>> :
                  name \in {<<"Connection">>, <<"connection">>, <<"Transfer-Encoding">>},
                  value \in {<<>>, <<"keep-alive">>, <<"v", "Close">>, <<"chunked">>, <<"chunked", "v">>,
                             <<"v", "chunked">>}}
FrameTexts == {l \o <<"a", ":", " ", "v", LF>> \o m \o n : l, m \in FrameLines,
                  n \in {<<>>, <<"content-length", ":", " ", "9", LF>>}}

Get(version) == [version |-> version, host |-> <<"h">>, method |-> <<"G">>, target |-> <<"x">>, fields |-> <<>>]

(* Every request with an empty response, every text behind a short request. *)
MCExchanges == (MCRequests \X {<<>>}) \cup ({Get(11)} \X MCTexts) \cup ({Get(10), Get(11)} \X FrameTexts)
=============================================================================
