------------------------------ MODULE HTTPLines ------------------------------
(***************************************************************************)
(* The lines of a request: readLine, one byte per step, and what           *)
(* parseRequestLine and parseHeader make of a line.  A stream is a         *)
(* sequence of symbols: "a" is any token character, "sp", "tab", "cr" and  *)
(* "lf" are what they say, "HTTP/" stands for these five characters.       *)
(***************************************************************************)
EXTENDS Integers, Sequences

CONSTANTS
  Streams,   \* pairs of what is expected, "request" or "header", and a stream
  MaxLine    \* maxRequestLine and maxHeaderLine

Symbols == {"a", "/", ":", "sp", "tab", "cr", "lf", "HTTP/"}

ASSUME LinesAssumption ==
  /\ \A s \in Streams : s[1] \in {"request", "header"} /\ s[2] \in Seq(Symbols)
  /\ MaxLine \in Nat

VARIABLES
  stream,    \* as in Streams
  pos,       \* symbols read
  buf,       \* the line so far
  line       \* "reading", an error, or the result of the parser

lineVars == <<stream, pos, buf, line>>

Malformed == [err |-> "ErrMalformed"]

isTokenChar(s) == s = "a"
isValidToken(s) == s # <<>> /\ \A k \in DOMAIN s : isTokenChar(s[k])

\* strings.IndexByte and LastIndexByte, counted from 1, and 0 for none.
IndexByte(s, b) ==
  IF \E k \in DOMAIN s : s[k] = b
  THEN CHOOSE k \in DOMAIN s : s[k] = b /\ \A l \in 1 .. k - 1 : s[l] # b ELSE 0
LastIndexByte(s, b) ==
  IF \E k \in DOMAIN s : s[k] = b
  THEN CHOOSE k \in DOMAIN s : s[k] = b /\ \A l \in k + 1 .. Len(s) : s[l] # b ELSE 0

parseRequestLine(s) ==
  LET first == IndexByte(s, "sp")
      last == LastIndexByte(s, "sp")
      method == SubSeq(s, 1, first - 1)
      path == SubSeq(s, first + 1, last - 1)
      version == SubSeq(s, last + 1, Len(s))
  IN IF \/ first <= 1 \/ last = first
        \/ ~isValidToken(method)
        \/ path = <<>> \/ path[1] # "/"
        \/ \E k \in DOMAIN path : path[k] \in {"sp", "tab"}
        \/ version = <<>> \/ version[1] # "HTTP/"
     THEN Malformed
     ELSE [err |-> "", method |-> method, path |-> path, version |-> version]

\* strings.Trim(s, " \t")
Trim(s) ==
  LET ink == {k \in DOMAIN s : s[k] \notin {"sp", "tab"}} IN
  IF ink = {} THEN <<>>
  ELSE SubSeq(s, CHOOSE k \in ink : \A l \in ink : k <= l, CHOOSE k \in ink : \A l \in ink : l <= k)

\* The checks of ReadRequest on a line that is not empty, and parseHeader.
parseHeader(s) ==
  LET colon == IndexByte(s, ":") IN
  IF s = <<>> THEN [err |-> "", end |-> TRUE]
  ELSE IF s[1] \in {"sp", "tab"} \/ colon <= 1 \/ ~isValidToken(SubSeq(s, 1, colon - 1))
  THEN Malformed
  ELSE [err |-> "", name |-> SubSeq(s, 1, colon - 1), value |-> Trim(SubSeq(s, colon + 1, Len(s)))]

------------------------------------------------------------------------------

LineInit == stream \in Streams /\ pos = 0 /\ buf = <<>> /\ line = [err |-> "reading"]

LineEnds(result) == line' = result /\ UNCHANGED buf

\* Seeded fault: a longer line is noticed one byte too late.
TooLong_Late == Len(buf) > MaxLine

TooLong == Len(buf) >= MaxLine

\* The line without its CR, parsed.
ParseLine ==
  LET n == Len(buf)
      s == IF n > 0 /\ buf[n] = "cr" THEN SubSeq(buf, 1, n - 1) ELSE buf
  IN IF stream[1] = "request" THEN parseRequestLine(s) ELSE parseHeader(s)

\* One turn of readLine's loop.
readLine ==
  /\ line.err = "reading"
  /\ \/ TooLong /\ LineEnds(Malformed) /\ UNCHANGED pos
     \/ /\ ~TooLong /\ pos = Len(stream[2])
        /\ LineEnds([err |-> IF buf = <<>> THEN "EOF" ELSE "ErrUnexpectedEOF"])
        /\ UNCHANGED pos
     \/ /\ ~TooLong /\ pos < Len(stream[2]) /\ pos' = pos + 1
        /\ IF stream[2][pos + 1] = "lf" THEN LineEnds(ParseLine)
           ELSE buf' = Append(buf, stream[2][pos + 1]) /\ UNCHANGED line
  /\ UNCHANGED stream

LineNext == readLine
LineSpec == LineInit /\ [][LineNext]_lineVars

------------------------------------------------------------------------------
(***************************************************************************)
(* The grammar.  Lines lists what a stream may begin with: the line's end, *)
(* with or without a CR, is the first LF.                                  *)
(***************************************************************************)

Ends(s) == {n \in DOMAIN s : s[n] = "lf" /\ \A k \in 1 .. n - 1 : s[k] # "lf"}
Without(s, b) == \A k \in DOMAIN s : s[k] # b
Blank(s) == \A k \in DOMAIN s : s[k] \in {"sp", "tab"}

\* s is the request line of method, path and version.
IsRequestLine(s, r) ==
  /\ s = r.method \o <<"sp">> \o r.path \o <<"sp">> \o r.version
  /\ isValidToken(r.method) /\ r.path[1] = "/" /\ Without(r.path, "sp") /\ Without(r.path, "tab")
  /\ r.version[1] = "HTTP/" /\ Without(r.version, "sp")

IsHeader(s, r) ==
  /\ isValidToken(r.name)
  /\ \E a, b \in 0 .. Len(s) :
       /\ Len(r.name) + 1 + a + Len(r.value) + b = Len(s)
       /\ s = r.name \o <<":">> \o SubSeq(s, Len(r.name) + 2, Len(r.name) + 1 + a)
                \o r.value \o SubSeq(s, Len(s) - b + 1, Len(s))
       /\ Blank(SubSeq(s, Len(r.name) + 2, Len(r.name) + 1 + a))
       /\ Blank(SubSeq(s, Len(s) - b + 1, Len(s)))
  /\ r.value # <<>> => r.value[1] \notin {"sp", "tab"} /\ r.value[Len(r.value)] \notin {"sp", "tab"}

\* All ways to cut s in parts that may make a request line or a header.
RequestLines(s) ==
  {[method |-> SubSeq(s, 1, a), path |-> SubSeq(s, a + 2, b), version |-> SubSeq(s, b + 2, Len(s))] :
     a \in 1 .. Len(s), b \in 1 .. Len(s)}
HeaderLines(s) ==
  {[name |-> SubSeq(s, 1, a), value |-> SubSeq(s, b, c)] :
     a \in 1 .. Len(s), b \in 1 .. Len(s) + 1, c \in 0 .. Len(s)}

\* A line is accepted exactly if it, with its end, is at most MaxLine bytes
\* long and the grammar allows it, and then it is cut where the grammar says;
\* the errors tell apart an empty stream, one that ends within a line, and a
\* line that is wrong or too long.
LinesReadAsGrammar ==
  line.err # "reading" =>
    LET n == CHOOSE k \in Ends(stream[2]) : TRUE
        raw == SubSeq(stream[2], 1, n - 1)
        s == IF raw # <<>> /\ raw[Len(raw)] = "cr" THEN SubSeq(raw, 1, Len(raw) - 1) ELSE raw
    IN IF Ends(stream[2]) = {} \/ n > MaxLine
       THEN line.err = IF Len(stream[2]) >= MaxLine THEN "ErrMalformed"
                       ELSE IF stream[2] = <<>> THEN "EOF" ELSE "ErrUnexpectedEOF"
       ELSE IF stream[1] = "request"
       THEN IF line.err = ""
            THEN IsRequestLine(s, [method |-> line.method, path |-> line.path, version |-> line.version])
            ELSE line = Malformed /\ \A r \in RequestLines(s) :
                   r.path # <<>> /\ r.version # <<>> => ~IsRequestLine(s, r)
       ELSE IF s = <<>> THEN line = [err |-> "", end |-> TRUE]
       ELSE IF line.err = "" THEN IsHeader(s, [name |-> line.name, value |-> line.value])
       ELSE line = Malformed /\ \A r \in HeaderLines(s) : ~IsHeader(s, r)

=============================================================================
