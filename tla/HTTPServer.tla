------------------------------ MODULE HTTPServer ------------------------------
(***************************************************************************)
(* What happens on the connections that main accepts: the TLS handshake,   *)
(* http.Serve with its parser, router and response writer, and the orders  *)
(* handlers over the SQLite store.  Every connection has its own           *)
(* goroutine; they meet in the pool of database connections.               *)
(*                                                                         *)
(* A connection's input is what its client will have sent: the lines of    *)
(* the request, the bytes behind the blank line, and how the stream ends.  *)
(* A line is a tuple whose first element is its kind:                      *)
(*   <<"request", method, path, version>>   a well-formed request line     *)
(*   <<"header", name, value>>              a well-formed header line      *)
(*   <<"blank">>  <<"fold">> (leading space)  <<"bad">> (neither)          *)
(*   <<"long">>   a line of at least as many bytes as readLine allows      *)
(*   <<"part">>   the stream ends in the middle of this line               *)
(* Paths are sequences of their segments and slashes, so that being a      *)
(* prefix means what it means for the strings.                             *)
(***************************************************************************)
EXTENDS Integers, Sequences, FiniteSets

CONSTANTS
  Conns,        \* connections
  Workloads,    \* the inputs that connections may have, [Conns -> inputs]
  None,         \* no input, no answer
  maxHeaders, maxBodySize,
  DocLen,       \* length of a JSON order
  Numerals,     \* the text of each order's number, as far as clients ask for them
  Pool,         \* database connections that database/sql might open
  MaxFaults     \* bound on the failures of the database

ASSUME HTTPAssumption ==
  /\ maxHeaders \in Nat /\ maxBodySize \in Nat /\ DocLen \in Nat
  /\ Pool \subseteq Nat /\ 1 \in Pool /\ MaxFaults \in Nat /\ Numerals \in Seq(STRING)

\* A line as readLine, parseRequestLine and parseHeader leave it: a path
\* begins with "/", and the Content-Length is a number or Junk, which is one.
IsLine(line) ==
  /\ line[1] \in {"request", "header", "blank", "fold", "bad", "long", "part"}
  /\ line[1] = "blank" => line = <<"blank">>
  /\ line[1] = "header" /\ line[2] = "content-length" => line[3] \in Int
  /\ line[1] = "request" => line[3] \in Seq(STRING) /\ line[3] # <<>> /\ line[3][1] = "/"

IsInput(in) ==
  /\ in.lines \in Seq({in.lines[i] : i \in DOMAIN in.lines})
  /\ \A i \in DOMAIN in.lines : IsLine(in.lines[i])
  /\ in.body \in Nat /\ in.end \in {"EOF", "error", "open"}

ASSUME WorkloadAssumption ==
  \A w \in Workloads : \A c \in Conns : w[c] # None => IsInput(w[c])

VARIABLES
  input,     \* the input of each connection
  pc,        \* where each connection's goroutine is
  holds,     \* the database connection it uses, 0 if none
  scanned,   \* rows List has scanned so far
  answer,    \* status and rows (None without the store) the handler decided on
  resp,      \* the status of the response written, 0 if none
  db,        \* the rows in the database behind each database connection
  faults     \* connections that met a failure of the database

httpVars == <<input, pc, holds, scanned, answer, resp, db, faults>>

Begins(s, t) == Len(s) <= Len(t) /\ SubSeq(t, 1, Len(s)) = s

------------------------------------------------------------------------------
(***************************************************************************)
(* ReadRequest.                                                            *)
(***************************************************************************)

Junk == -2      \* a header value that is not a number

\* What reading on returns when the lines are used up.
StreamError(in) == IF in.end = "EOF" THEN "EOF"
                   ELSE IF in.end = "error" THEN "ErrIO" ELSE "blocks"

\* The same in the middle of a line or of the body.
TruncatedError(in) == IF in.end = "EOF" THEN "ErrUnexpectedEOF" ELSE StreamError(in)

\* The header loop: the place n of the line at which it ends.  Lines before
\* it were headers; the limit is looked at before the line.
HeaderEnd(in) ==
  CHOOSE n \in 2 .. Len(in.lines) + 1 :
    /\ \A i \in 2 .. n - 1 : i - 2 < maxHeaders /\ in.lines[i][1] = "header"
    /\ n - 2 >= maxHeaders \/ n > Len(in.lines) \/ in.lines[n][1] # "header"

\* Seeded fault: one line more than the limit is read.
HeaderError_OneMore(in) ==
  LET n == HeaderEnd(in) IN
  IF n > Len(in.lines) THEN StreamError(in)
  ELSE IF in.lines[n][1] = "blank" THEN "nil"
  ELSE IF in.lines[n][1] = "part" THEN TruncatedError(in) ELSE "ErrMalformed"

\* Why it ends there, "nil" at the blank line.
HeaderError(in) ==
  LET n == HeaderEnd(in) IN
  IF n - 2 >= maxHeaders THEN "ErrTooManyHeaders"
  ELSE IF n > Len(in.lines) THEN StreamError(in)
  ELSE IF in.lines[n][1] = "blank" THEN "nil"
  ELSE IF in.lines[n][1] = "part" THEN TruncatedError(in) ELSE "ErrMalformed"

\* req.Headers: the values of a repeated name are joined, and no number then.
Headers(in) ==
  LET read == 2 .. HeaderEnd(in) - 1
      named(name) == {i \in read : in.lines[i][2] = name}
  IN [name \in {in.lines[i][2] : i \in read} |->
        IF Cardinality(named(name)) > 1 THEN Junk
        ELSE in.lines[CHOOSE i \in named(name) : TRUE][3]]

methodRequiresLength(method) == method \in {"POST", "PUT", "PATCH"}

\* Seeded fault: a body cut short is taken as it is.
BodyError_Short(in, method, headers) ==
  IF "content-length" \in DOMAIN headers
  THEN IF headers["content-length"] < 0 THEN "ErrMalformed"
       ELSE IF headers["content-length"] > maxBodySize THEN "ErrPayloadTooLarge"
       ELSE "nil"
  ELSE IF methodRequiresLength(method) THEN "ErrLengthRequired" ELSE "nil"

BodyError(in, method, headers) ==
  IF "content-length" \in DOMAIN headers
  THEN IF headers["content-length"] < 0 THEN "ErrMalformed"
       ELSE IF headers["content-length"] > maxBodySize THEN "ErrPayloadTooLarge"
       ELSE IF in.body < headers["content-length"] THEN TruncatedError(in)
       ELSE "nil"
  ELSE IF methodRequiresLength(method) THEN "ErrLengthRequired" ELSE "nil"

\* The error of ReadRequest ("nil" if none), and the length of the body.
ReadRequest(in) ==
  LET line == in.lines[1]
      headers == Headers(in)
      err == IF in.lines = <<>> THEN StreamError(in)
             ELSE IF line[1] = "part" THEN TruncatedError(in)
             ELSE IF line[1] # "request" THEN "ErrMalformed"
             ELSE IF line[4] # "HTTP/1.1" THEN "ErrVersionNotSupported"
             ELSE IF HeaderError(in) # "nil" THEN HeaderError(in)
             ELSE IF "host" \notin DOMAIN headers THEN "ErrMalformed"
             ELSE BodyError(in, line[2], headers)
  IN [err |-> err,
      body |-> IF err = "nil" /\ "content-length" \in DOMAIN headers
               THEN headers["content-length"] ELSE 0]

\* The status WriteError answers an error with.
ErrorStatus(err) ==
  IF err = "ErrMalformed" THEN 400
  ELSE IF err = "ErrLengthRequired" THEN 411
  ELSE IF err = "ErrPayloadTooLarge" THEN 413
  ELSE IF err = "ErrTooManyHeaders" THEN 431
  ELSE IF err = "ErrVersionNotSupported" THEN 505
  ELSE 500

------------------------------------------------------------------------------
(***************************************************************************)
(* The router and the handlers that need no database.                      *)
(***************************************************************************)

exact == {<<"/", "orders">>, <<"/", "healthz">>}
prefix == {<<"/">>, <<"/", "orders", "/">>, <<"/", "echo", "/">>}

\* ServeMux.match: the pattern exactly, or the longest prefix.  "/" is
\* registered, so there is always one.
match(path) ==
  IF path \in exact THEN path
  ELSE CHOOSE p \in prefix : Begins(p, path) /\ \A q \in prefix : Begins(q, path) => Len(q) <= Len(p)

\* strconv.ParseInt of what follows "/orders/": 0 if it is no positive number.
OrderId(path) ==
  IF Len(path) = 4 /\ \E id \in DOMAIN Numerals : Numerals[id] = path[4]
  THEN CHOOSE id \in DOMAIN Numerals : Numerals[id] = path[4]
  ELSE 0

\* What the request asks of the store: "create", "list" or "get"; or the
\* status the handler answers with without asking.
Dispatch(in) ==
  LET method == in.lines[1][2]
      path == in.lines[1][3]
      pattern == match(path)
      now(status) == [op |-> "none", status |-> status]
      ask(op) == [op |-> op, status |-> 0]
  IN IF pattern = <<"/">> THEN now(IF path = <<"/">> THEN 200 ELSE 404)
     ELSE IF pattern = <<"/", "orders">>
     THEN IF method = "GET" THEN ask("list")
          ELSE IF method # "POST" THEN now(405)
          ELSE IF ReadRequest(in).body # DocLen \/ in.doc # "order" THEN now(400)
          ELSE ask("create")
     ELSE IF pattern = <<"/", "orders", "/">>
     THEN IF method # "GET" THEN now(405)
          ELSE IF OrderId(path) = 0 THEN now(400) ELSE ask("get")
     ELSE now(200)

------------------------------------------------------------------------------
(***************************************************************************)
(* The store.  A database in memory belongs to one database connection,    *)
(* and NewStore has created the table on the first; the pool may open as   *)
(* many as MaxOpenConns.                                                   *)
(***************************************************************************)

\* Seeded fault: the pool is not pinned to one connection.
MaxOpenConns_Unpinned == 2

MaxOpenConns == 1

HasSchema(k) == k = 1

HTTPInit ==
  /\ input \in Workloads
  /\ pc = [c \in Conns |-> IF input[c] = None THEN "unused" ELSE "handshake"]
  /\ holds = [c \in Conns |-> 0]
  /\ scanned = [c \in Conns |-> <<>>]
  /\ answer = [c \in Conns |-> None]
  /\ resp = [c \in Conns |-> 0]
  /\ db = [k \in Pool |-> <<>>]
  /\ faults = {}

Decide(c, status, rows) ==
  /\ answer' = [answer EXCEPT ![c] = [status |-> status, rows |-> rows]]
  /\ pc' = [pc EXCEPT ![c] = "write"]

\* main's goroutine: tlsConn.Handshake, and the end if it fails.
TLSHandshake(c) ==
  /\ pc[c] = "handshake"
  /\ \E next \in {"serve", "failed"} : pc' = [pc EXCEPT ![c] = next]
  /\ UNCHANGED <<input, holds, scanned, answer, resp, db, faults>>

\* Serve: read the request, and refuse it, leave quietly, or call the handler
\* up to where it needs the store.
Serve(c) ==
  /\ pc[c] = "serve" /\ ReadRequest(input[c]).err # "blocks"
  /\ LET err == ReadRequest(input[c]).err
         todo == Dispatch(input[c])
     IN \/ err = "EOF" /\ pc' = [pc EXCEPT ![c] = "closed"] /\ UNCHANGED answer
        \/ err \notin {"EOF", "nil"} /\ Decide(c, ErrorStatus(err), None)
        \/ err = "nil" /\ todo.op = "none" /\ Decide(c, todo.status, None)
        \/ err = "nil" /\ todo.op # "none" /\ pc' = [pc EXCEPT ![c] = todo.op] /\ UNCHANGED answer
  /\ UNCHANGED <<input, holds, scanned, resp, db, faults>>

\* database/sql hands out a free connection, or opens one more.
AcquireConn(c, k) ==
  /\ pc[c] \in {"create", "list", "get"} /\ holds[c] = 0
  /\ k <= MaxOpenConns /\ \A d \in Conns : holds[d] # k
  /\ holds' = [holds EXCEPT ![c] = k]
  /\ UNCHANGED <<input, pc, scanned, answer, resp, db, faults>>

\* The statement of c is over: the connection goes back, c has its answer.
Finish(c, status, rows) ==
  /\ holds' = [holds EXCEPT ![c] = 0]
  /\ IF HasSchema(holds[c]) THEN Decide(c, status, rows) ELSE Decide(c, 500, <<>>)
  /\ UNCHANGED <<input, scanned, resp>>

\* Seeded fault: the number is the table's size when the handler looks for it
\* before it inserts.
StoreCreate_NumberFirst(c) ==
  /\ pc[c] = "create" /\ holds[c] # 0
  /\ db' = [db EXCEPT ![holds[c]] = Append(@, c)]
  /\ Finish(c, 201, <<<<Len(db[holds[c]]), c>>>>)
  /\ UNCHANGED faults

\* Store.Create: INSERT, and the number the row was given.
StoreCreate(c) ==
  /\ pc[c] = "create" /\ holds[c] # 0
  /\ db' = IF HasSchema(holds[c]) THEN [db EXCEPT ![holds[c]] = Append(@, c)] ELSE db
  /\ Finish(c, 201, <<<<Len(db[holds[c]]) + 1, c>>>>)
  /\ UNCHANGED faults

\* Store.List: rows.Next and Scan, with the connection held until rows.Close.
StoreListNext(c) ==
  /\ pc[c] = "list" /\ holds[c] # 0 /\ Len(scanned[c]) < Len(db[holds[c]])
  /\ LET id == Len(scanned[c]) + 1 IN
     scanned' = [scanned EXCEPT ![c] = Append(@, <<id, db[holds[c]][id]>>)]
  /\ UNCHANGED <<input, pc, holds, answer, resp, db, faults>>

StoreListDone(c) ==
  /\ pc[c] = "list" /\ holds[c] # 0 /\ Len(scanned[c]) = Len(db[holds[c]])
  /\ Finish(c, 200, scanned[c])
  /\ UNCHANGED <<db, faults>>

\* Store.Get.
StoreGet(c) ==
  /\ pc[c] = "get" /\ holds[c] # 0
  /\ LET id == OrderId(input[c].lines[1][3])
         rows == db[holds[c]]
     IN IF id \in DOMAIN rows THEN Finish(c, 200, <<<<id, rows[id]>>>>) ELSE Finish(c, 404, <<>>)
  /\ UNCHANGED <<db, faults>>

\* Seeded fault: the connection is given back only on success.
StoreFails_Leaks(c) ==
  /\ pc[c] \in {"create", "list", "get"} /\ holds[c] # 0 /\ Cardinality(faults) < MaxFaults
  /\ Decide(c, 500, <<>>)
  /\ faults' = faults \cup {c}
  /\ UNCHANGED <<db, holds, input, scanned, resp>>

\* The database fails: before the statement has any effect, in the middle of
\* a list, or, for an INSERT, when the number is asked for afterwards.
StoreFails(c) ==
  /\ pc[c] \in {"create", "list", "get"} /\ holds[c] # 0 /\ Cardinality(faults) < MaxFaults
  /\ Finish(c, 500, <<>>)
  /\ faults' = faults \cup {c}
  /\ \/ UNCHANGED db
     \/ pc[c] = "create" /\ db' = [db EXCEPT ![holds[c]] = Append(@, c)]

\* WriteResponse and, as main's goroutine ends, Close.
WriteResponse(c) ==
  /\ pc[c] = "write"
  /\ resp' = [resp EXCEPT ![c] = answer[c].status]
  /\ pc' = [pc EXCEPT ![c] = "closed"]
  /\ UNCHANGED <<input, holds, scanned, answer, db, faults>>

Goroutine(c) ==
  \/ TLSHandshake(c) \/ Serve(c) \/ WriteResponse(c)
  \/ \E k \in Pool : AcquireConn(c, k)
  \/ StoreCreate(c) \/ StoreListNext(c) \/ StoreListDone(c) \/ StoreGet(c) \/ StoreFails(c)

HTTPNext == \E c \in Conns : Goroutine(c)

HTTPSpec == HTTPInit /\ [][HTTPNext]_httpVars

\* The runtime runs every goroutine that can run.
HTTPFairSpec == HTTPSpec /\ \A c \in Conns : WF_httpVars(Goroutine(c))

------------------------------------------------------------------------------

\* A request as the grammar has it, within the limits and complete: a request
\* line, fewer than maxHeaders header lines and a blank one, a Host, and the
\* body its one Content-Length announces.
WellFormed(in) ==
  /\ in.lines # <<>> /\ in.lines[1][1] = "request" /\ in.lines[1][4] = "HTTP/1.1"
  /\ \E n \in 2 .. Len(in.lines) :
       /\ in.lines[n] = <<"blank">>
       /\ \A i \in 2 .. n - 1 : in.lines[i][1] = "header"
       /\ n - 2 < maxHeaders
       /\ \E i \in 2 .. n - 1 : in.lines[i][2] = "host"
       /\ LET lengths == {i \in 2 .. n - 1 : in.lines[i][2] = "content-length"} IN
          IF lengths = {} THEN ~methodRequiresLength(in.lines[1][2])
          ELSE \E i \in lengths : /\ lengths = {i}
                                  /\ in.lines[i][3] \in 0 .. maxBodySize
                                  /\ in.lines[i][3] <= in.body

\* ReadRequest returns a request exactly when one has arrived: the header
\* loop, its limit, the joining of repeated headers, the length rules and
\* every place where the stream may end come out as the grammar says.
ParserAcceptsWellFormed ==
  \A c \in Conns : input[c] # None => (ReadRequest(input[c]).err = "nil" <=> WellFormed(input[c]))

\* An order in the book was sent whole: nothing is created from a request
\* whose stream ended early, and nothing by another method or path.
OrdersAreComplete ==
  \A i \in DOMAIN db[1] :
    LET in == input[db[1][i]] IN
    /\ WellFormed(in) /\ in.doc = "order" /\ in.body >= DocLen
    /\ in.lines[1][2] = "POST" /\ in.lines[1][3] = <<"/", "orders">>

\* What Serve's comment says: only an io.EOF before any bytes produces no
\* response, every other error of the parser is answered.
QuietOnlyBeforeAnyBytes ==
  \A c \in Conns : pc[c] = "closed" /\ resp[c] = 0 => input[c].lines = <<>>

\* A 500 has a cause outside the server: the database failed in this
\* request, or the client's stream broke off.
ServerErrorsHaveCause ==
  \A c \in Conns :
    resp[c] = 500 =>
      c \in faults \/ (~WellFormed(input[c]) /\ input[c].end \in {"EOF", "error"})

\* Every request that has arrived, or whose stream has ended, is answered or
\* closed: no goroutine waits for ever for the one database connection.
EveryRequestAnswered ==
  \A c \in Conns :
    pc[c] = "serve" /\ ReadRequest(input[c]).err # "blocks" ~> pc[c] = "closed"

Book == INSTANCE OrderBook WITH book <- db[1]

\* The service is one book of orders that handles its requests one at a
\* time, although handlers run concurrently and List reads row by row.
ImplementsOrderBook == Book!BookSpec

=============================================================================
