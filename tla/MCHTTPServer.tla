----------------------------- MODULE MCHTTPServer -----------------------------
(***************************************************************************)
(* Two families of workloads for TLC: one connection with any request head *)
(* the parser may meet, and three connections that create, list and look   *)
(* up orders at the same time.                                             *)
(***************************************************************************)
EXTENDS HTTPServer, SequencesExt

OrdersPath == <<"/", "orders">>
MCNumerals == <<"1", "2", "3">>
OnePath == <<"/", "orders", "/", "1">>

Request(method, path) == <<"request", method, path, "HTTP/1.1">>
Host == <<"header", "host", Junk>>
Length(n) == <<"header", "content-length", n>>

Input(lines, body, end) == [lines |-> lines, body |-> body, end |-> end, doc |-> "order"]

HeaderLines == {Host, Length(DocLen), Length(maxBodySize + 1), <<"long">>, <<"part">>, <<"blank">>}

\* A partial line is the last, and so is a blank one.
Tails == {s \in SeqOf(HeaderLines, maxHeaders + 1) :
            \A i \in 1 .. Len(s) - 1 : s[i] \notin {<<"part">>, <<"blank">>}}

Heads ==
  {<<Request(m, OrdersPath)>> \o tail : m \in {"GET", "POST"}, tail \in Tails}
  \cup {<<>>, <<<<"bad">>>>, <<<<"long">>>>, <<<<"part">>>>,
        <<<<"request", "GET", OrdersPath, "HTTP/1.0">>, Host, <<"blank">>>>,
        <<Request("GET", OrdersPath), Host, <<"fold">>, <<"blank">>>>,
        <<Request("GET", OrdersPath), Host, Length(-1), <<"blank">>>>}

ParserInputs ==
  {Input(lines, DocLen, end) : lines \in Heads, end \in {"EOF", "error", "open"}}
  \cup {Input(lines, DocLen - 1, end) : lines \in {h \in Heads : <<"blank">> \in ToSet(h)},
                                        end \in {"EOF", "error", "open"}}

\* Requests for every route.
RouteInputs ==
  {Input(<<Request(m, p), Host, <<"blank">>>>, 0, "open") :
     m \in {"GET", "DELETE"},
     p \in {<<"/">>, <<"/", "x">>, <<"/", "healthz">>, <<"/", "echo", "/", "x">>, OrdersPath,
            OnePath, <<"/", "orders", "/">>, <<"/", "orders", "/", "x">>,
            <<"/", "orders", "/", "1", "/", "x">>}}
  \cup {[Input(<<Request("POST", OrdersPath), Host, Length(n), <<"blank">>>>, n, "open") EXCEPT !.doc = d] :
          n \in {DocLen, DocLen - 1}, d \in {"order", "not an order"}}

StoreInputs ==
  <<Input(<<Request("POST", OrdersPath), Host, Length(DocLen), <<"blank">>>>, DocLen, "open"),
   Input(<<Request("GET", OrdersPath), Host, <<"blank">>>>, 0, "EOF"),
   Input(<<Request("GET", OnePath), Host, <<"blank">>>>, 0, "EOF")>>

Alone(in) == [c \in Conns |-> IF c = 1 THEN in ELSE None]

\* Connections are interchangeable: one order of every choice is enough.
Together == {[c \in Conns |-> StoreInputs[f[c]]] :
               f \in {f \in [Conns -> DOMAIN StoreInputs] : \A c, d \in Conns : c <= d => f[c] <= f[d]}}

MCWorkloads == {Alone(in) : in \in ParserInputs \cup RouteInputs} \cup Together

=============================================================================
