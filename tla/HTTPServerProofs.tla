--------------------------- MODULE HTTPServerProofs ---------------------------
(***************************************************************************)
(* Proofs about the HTTP server, for any number of connections and any     *)
(* inputs they may have: the parser accepts exactly the complete requests, *)
(* and the concurrent handlers over the pool of one database connection    *)
(* implement one book of orders that is asked one request at a time.       *)
(***************************************************************************)
EXTENDS HTTPServer, FiniteSetTheorems, NaturalsInduction, WellFoundedInduction, TLAPS

------------------------------------------------------------------------------
(***************************************************************************)
(* ReadRequest.                                                            *)
(***************************************************************************)

\* A set of natural numbers with a member has a least one.
LEMMA LeastMember ==
  ASSUME NEW T \in SUBSET Nat, T # {}
  PROVE  \E n \in T : \A m \in T : n <= m
<1>1. IsWellFoundedOn(OpToRel(<, Nat), Nat)
  BY NatLessThanWellFounded
<1>2. PICK n \in T : \A m \in T : ~(<<m, n>> \in OpToRel(<, Nat))
  BY <1>1, WFMin
<1>3. \A m \in T : ~(m < n)
  BY <1>2 DEF OpToRel
<1>4. QED
  BY <1>3

\* The place where the header loop stops, and why it stops there.
StopsAt(in, n) ==
  /\ \A i \in 2 .. n - 1 : i - 2 < maxHeaders /\ in.lines[i][1] = "header"
  /\ n - 2 >= maxHeaders \/ n > Len(in.lines) \/ in.lines[n][1] # "header"

\* Behind a request line the header loop stops at exactly one place.
LEMMA HeaderLoopStops ==
  ASSUME NEW in, in.lines \in Seq({in.lines[i] : i \in DOMAIN in.lines}), in.lines # <<>>
  PROVE  /\ HeaderEnd(in) \in 2 .. Len(in.lines) + 1
         /\ StopsAt(in, HeaderEnd(in))
         /\ \A n \in 2 .. Len(in.lines) + 1 : StopsAt(in, n) => n = HeaderEnd(in)
<1> DEFINE top == Len(in.lines) + 1
           Stop(n) == n - 2 >= maxHeaders \/ n > Len(in.lines) \/ in.lines[n][1] # "header"
           T == {n \in 2 .. top : Stop(n)}
<1>1. Len(in.lines) \in Nat /\ Len(in.lines) >= 1
  OBVIOUS
<1>2. T \in SUBSET Nat /\ T # {}
  <2>1. top \in T
    BY <1>1
  <2>2. T \subseteq 2 .. top /\ 2 .. top \subseteq Nat
    BY <1>1
  <2>3. QED
    BY <2>1, <2>2
<1>3. PICK n \in T : \A m \in T : n <= m
  BY <1>2, LeastMember
<1>4. StopsAt(in, n)
  <2>1. ASSUME NEW i \in 2 .. n - 1
        PROVE  i - 2 < maxHeaders /\ in.lines[i][1] = "header"
    <3>1. i \in 2 .. top /\ ~(n <= i)
      BY <1>1
    <3>2. ~Stop(i)
      BY <3>1, <1>3
    <3>3. QED
      BY <3>1, <3>2, <1>1, HTTPAssumption
  <2>2. QED
    BY <2>1 DEF StopsAt
<1>5. n \in 2 .. top
  OBVIOUS
<1>6. ASSUME NEW a \in 2 .. top, NEW b \in 2 .. top, StopsAt(in, a), StopsAt(in, b)
      PROVE  ~(a < b)
  <2>1. SUFFICES ASSUME a < b PROVE FALSE
    OBVIOUS
  <2>2. a \in 2 .. b - 1
    BY <2>1, <1>1
  <2>3. a - 2 < maxHeaders /\ in.lines[a][1] = "header"
    BY <2>2, <1>6 DEF StopsAt
  <2>4. a <= Len(in.lines)
    BY <2>1, <1>1
  <2>5. QED
    BY <2>3, <2>4, <1>6, <1>1, HTTPAssumption DEF StopsAt
<1>7. HeaderEnd(in) = CHOOSE m \in 2 .. top : StopsAt(in, m)
  BY DEF HeaderEnd, StopsAt
<1>8. HeaderEnd(in) \in 2 .. top /\ StopsAt(in, HeaderEnd(in))
  BY <1>4, <1>5, <1>7
<1>9. ASSUME NEW m \in 2 .. top, StopsAt(in, m) PROVE m = HeaderEnd(in)
  <2>1. ~(m < HeaderEnd(in)) /\ ~(HeaderEnd(in) < m)
    BY <1>6, <1>8, <1>9
  <2>2. QED
    BY <2>1, <1>8, <1>1
<1>10. QED
  BY <1>8, <1>9

\* The header loop without an error has stopped at the blank line.
LEMMA HeadersEnd ==
  ASSUME NEW in, IsInput(in), in.lines # <<>>
  PROVE  /\ HeaderError(in) = "nil" <=>
              /\ HeaderEnd(in) - 2 < maxHeaders
              /\ HeaderEnd(in) \in 2 .. Len(in.lines)
              /\ in.lines[HeaderEnd(in)] = <<"blank">>
         /\ HeaderError(in) \in {"nil", "ErrTooManyHeaders", "ErrMalformed", "EOF",
                                 "ErrUnexpectedEOF", "ErrIO", "blocks"}
         /\ HeaderError(in) = "EOF" =>
              in.end = "EOF" /\ \A i \in 2 .. Len(in.lines) : in.lines[i][1] = "header"
         /\ HeaderError(in) \in {"ErrUnexpectedEOF", "ErrIO"} => in.end \in {"EOF", "error"}
         /\ HeaderError(in) = "blocks" => in.end = "open"
<1> DEFINE n == HeaderEnd(in)
<1>1. in.lines \in Seq({in.lines[i] : i \in DOMAIN in.lines}) /\ in.end \in {"EOF", "error", "open"}
  BY DEF IsInput
<1>2. Len(in.lines) \in Nat /\ DOMAIN in.lines = 1 .. Len(in.lines)
  BY <1>1
<1>3. n \in 2 .. Len(in.lines) + 1 /\ StopsAt(in, n)
  BY <1>1, HeaderLoopStops
<1>4. ASSUME n <= Len(in.lines)
      PROVE  n \in 2 .. Len(in.lines) /\ (in.lines[n][1] = "blank" <=> in.lines[n] = <<"blank">>)
  <2>1. n \in DOMAIN in.lines
    BY <1>2, <1>3, <1>4
  <2>2. in.lines[n][1] = "blank" => in.lines[n] = <<"blank">>
    BY <2>1 DEF IsInput, IsLine
  <2>3. QED
    BY <2>2, <1>4, <1>3, <1>2
<1> HIDE DEF n
<1>5. \/ in.end = "EOF" /\ StreamError(in) = "EOF" /\ TruncatedError(in) = "ErrUnexpectedEOF"
      \/ in.end = "error" /\ StreamError(in) = "ErrIO" /\ TruncatedError(in) = "ErrIO"
      \/ in.end = "open" /\ StreamError(in) = "blocks" /\ TruncatedError(in) = "blocks"
  BY <1>1 DEF StreamError, TruncatedError
<1>6. HeaderError(in) = IF n - 2 >= maxHeaders THEN "ErrTooManyHeaders"
                        ELSE IF n > Len(in.lines) THEN StreamError(in)
                        ELSE IF in.lines[n][1] = "blank" THEN "nil"
                        ELSE IF in.lines[n][1] = "part" THEN TruncatedError(in) ELSE "ErrMalformed"
  BY DEF HeaderError, n
<1>7. n > Len(in.lines) => \A i \in 2 .. Len(in.lines) : in.lines[i][1] = "header"
  BY <1>2, <1>3 DEF StopsAt
<1>8. n \in Int /\ maxHeaders \in Int
  BY <1>2, <1>3, HTTPAssumption
<1>9. HeaderError(in) = "nil" <=>
        n - 2 < maxHeaders /\ n \in 2 .. Len(in.lines) /\ in.lines[n] = <<"blank">>
  <2>1. StreamError(in) # "nil" /\ TruncatedError(in) # "nil"
    BY <1>5
  <2>2. CASE n - 2 >= maxHeaders
    BY <2>2, <1>6, <1>8
  <2>3. CASE ~(n - 2 >= maxHeaders) /\ n > Len(in.lines)
    <3>1. HeaderError(in) = StreamError(in)
      BY <2>3, <1>6
    <3>2. n \notin 2 .. Len(in.lines)
      BY <2>3, <1>2, <1>8
    <3>3. QED
      BY <2>1, <3>1, <3>2
  <2>4. CASE ~(n - 2 >= maxHeaders) /\ ~(n > Len(in.lines))
    <3>1. n \in 2 .. Len(in.lines) /\ (in.lines[n][1] = "blank" <=> in.lines[n] = <<"blank">>)
      BY <2>4, <1>2, <1>4, <1>8
    <3>2. n - 2 < maxHeaders
      BY <2>4, <1>8
    <3>3. QED
      BY <2>1, <2>4, <3>1, <3>2, <1>6
  <2>5. QED
    BY <2>2, <2>3, <2>4
<1>10. /\ HeaderError(in) \in {"nil", "ErrTooManyHeaders", "ErrMalformed", "EOF",
                                 "ErrUnexpectedEOF", "ErrIO", "blocks"}
       /\ HeaderError(in) \in {"ErrUnexpectedEOF", "ErrIO"} => in.end \in {"EOF", "error"}
       /\ HeaderError(in) = "blocks" => in.end = "open"
  BY <1>5, <1>6
<1>11. HeaderError(in) = "EOF" =>
         in.end = "EOF" /\ \A i \in 2 .. Len(in.lines) : in.lines[i][1] = "header"
  BY <1>5, <1>6, <1>7
<1>12. QED
  BY <1>9, <1>10, <1>11 DEF n

\* The headers that the loop has read: which names there are, and that a
\* content length is a number of the one line that has it, or no length.
LEMMA HeadersRead ==
  ASSUME NEW in, IsInput(in), in.lines # <<>>
  PROVE  LET read == 2 .. HeaderEnd(in) - 1
             lengths == {i \in read : in.lines[i][2] = "content-length"}
         IN /\ "host" \in DOMAIN Headers(in) <=> \E i \in read : in.lines[i][2] = "host"
            /\ "content-length" \in DOMAIN Headers(in) <=> lengths # {}
            /\ \A i \in lengths :
                 IF lengths = {i} THEN /\ Headers(in)["content-length"] = in.lines[i][3]
                                       /\ in.lines[i][3] \in Int
                                  ELSE Headers(in)["content-length"] = Junk
<1> DEFINE read == 2 .. HeaderEnd(in) - 1
           lengths == {i \in read : in.lines[i][2] = "content-length"}
<1>1. in.lines \in Seq({in.lines[i] : i \in DOMAIN in.lines})
  BY DEF IsInput
<1>2. Len(in.lines) \in Nat /\ DOMAIN in.lines = 1 .. Len(in.lines)
  BY <1>1
<1>3. HeaderEnd(in) \in 2 .. Len(in.lines) + 1 /\ StopsAt(in, HeaderEnd(in))
  BY <1>1, HeaderLoopStops
<1>4. \A i \in read : in.lines[i][1] = "header" /\ i \in DOMAIN in.lines
  BY <1>2, <1>3 DEF StopsAt
<1>5. \A i \in lengths : in.lines[i][3] \in Int
  BY <1>4 DEF IsInput, IsLine
<1>6. DOMAIN Headers(in) = {in.lines[i][2] : i \in read}
  BY DEF Headers
<1>7. ASSUME lengths # {}
      PROVE  Headers(in)["content-length"] =
               IF Cardinality(lengths) > 1 THEN Junk
               ELSE in.lines[CHOOSE i \in lengths : TRUE][3]
  <2>1. "content-length" \in {in.lines[i][2] : i \in read}
    BY <1>7
  <2>2. QED
    BY <2>1 DEF Headers
<1>8. IsFiniteSet(lengths) /\ Cardinality(lengths) \in Nat
  <2>1. IsFiniteSet(read)
    BY <1>2, <1>3, FS_Interval
  <2>2. lengths \in SUBSET read
    OBVIOUS
  <2>3. IsFiniteSet(lengths)
    BY <2>1, <2>2, FS_Subset
  <2>4. QED
    BY <2>3, FS_CardinalityType
<1>9. ASSUME NEW i \in lengths
      PROVE  IF lengths = {i} THEN Cardinality(lengths) = 1 /\ (CHOOSE j \in lengths : TRUE) = i
                              ELSE Cardinality(lengths) > 1
  <2> HIDE DEF lengths
  <2>1. Cardinality(lengths) # 0
    BY <1>8, FS_EmptySet
  <2>2. CASE lengths = {i}
    BY <2>2, FS_Singleton
  <2>3. CASE lengths # {i}
    <3>1. Cardinality(lengths) # 1
      BY <2>3, <1>8, FS_Singleton
    <3>2. QED
      BY <2>1, <2>3, <3>1, <1>8
  <2>4. QED
    BY <2>2, <2>3
<1>10. "host" \in DOMAIN Headers(in) <=> \E i \in read : in.lines[i][2] = "host"
  BY <1>6
<1>11. "content-length" \in DOMAIN Headers(in) <=> lengths # {}
  BY <1>6
<1>12. ASSUME NEW i \in lengths
       PROVE  IF lengths = {i} THEN /\ Headers(in)["content-length"] = in.lines[i][3]
                                    /\ in.lines[i][3] \in Int
                               ELSE Headers(in)["content-length"] = Junk
  <2>1. lengths # {}
    OBVIOUS
  <2> HIDE DEF lengths
  <2>2. in.lines[i][3] \in Int
    BY <1>5
  <2>3. CASE lengths = {i}
    BY <2>1, <2>2, <2>3, <1>7, <1>9
  <2>4. CASE lengths # {i}
    BY <2>1, <2>4, <1>7, <1>9
  <2>5. QED
    BY <2>3, <2>4
<1>13. QED
  BY <1>10, <1>11, <1>12

\* What the grammar says of the body, at the place n of the blank line.
BodyFits(in, n) ==
  LET lengths == {i \in 2 .. n - 1 : in.lines[i][2] = "content-length"} IN
  IF lengths = {} THEN ~methodRequiresLength(in.lines[1][2])
  ELSE \E i \in lengths : /\ lengths = {i}
                          /\ in.lines[i][3] \in 0 .. maxBodySize
                          /\ in.lines[i][3] <= in.body

\* The length rules accept what the grammar accepts; and a body is as long as
\* its Content-Length says.
LEMMA BodyRules ==
  ASSUME NEW in, IsInput(in), in.lines # <<>>
  PROVE  LET err == BodyError(in, in.lines[1][2], Headers(in)) IN
         /\ err = "nil" <=> BodyFits(in, HeaderEnd(in))
         /\ err \in {"nil", "ErrMalformed", "ErrPayloadTooLarge", "ErrLengthRequired",
                     "ErrUnexpectedEOF", "ErrIO", "blocks"}
         /\ err \in {"ErrUnexpectedEOF", "ErrIO"} => in.end \in {"EOF", "error"}
         /\ err = "blocks" => in.end = "open"
         /\ err = "nil" /\ "content-length" \in DOMAIN Headers(in) =>
              Headers(in)["content-length"] \in 0 .. in.body
<1> DEFINE lengths == {i \in 2 .. HeaderEnd(in) - 1 : in.lines[i][2] = "content-length"}
           method == in.lines[1][2]
           len == Headers(in)["content-length"]
           err == BodyError(in, method, Headers(in))
<1>1. /\ "content-length" \in DOMAIN Headers(in) <=> lengths # {}
      /\ \A i \in lengths : IF lengths = {i} THEN len = in.lines[i][3] /\ in.lines[i][3] \in Int
                                             ELSE len = Junk
  BY HeadersRead
<1>2. /\ TruncatedError(in) \in {"ErrUnexpectedEOF", "ErrIO", "blocks"}
      /\ TruncatedError(in) \in {"ErrUnexpectedEOF", "ErrIO"} => in.end \in {"EOF", "error"}
      /\ TruncatedError(in) = "blocks" => in.end = "open"
  BY DEF IsInput, StreamError, TruncatedError
<1>nat. in.body \in Nat /\ maxBodySize \in Nat
  BY HTTPAssumption DEF IsInput
<1>3. BodyFits(in, HeaderEnd(in)) <=>
        IF lengths = {} THEN ~methodRequiresLength(method)
        ELSE \E i \in lengths : /\ lengths = {i}
                                /\ in.lines[i][3] \in 0 .. maxBodySize
                                /\ in.lines[i][3] <= in.body
  BY DEF BodyFits
<1>4. err = IF "content-length" \in DOMAIN Headers(in)
            THEN IF len < 0 THEN "ErrMalformed"
                 ELSE IF len > maxBodySize THEN "ErrPayloadTooLarge"
                 ELSE IF in.body < len THEN TruncatedError(in) ELSE "nil"
            ELSE IF methodRequiresLength(method) THEN "ErrLengthRequired" ELSE "nil"
  BY DEF BodyError
<1> HIDE DEF lengths, method, len, err
<1> SUFFICES /\ err = "nil" <=> BodyFits(in, HeaderEnd(in))
             /\ err \in {"nil", "ErrMalformed", "ErrPayloadTooLarge", "ErrLengthRequired",
                         "ErrUnexpectedEOF", "ErrIO", "blocks"}
             /\ err \in {"ErrUnexpectedEOF", "ErrIO"} => in.end \in {"EOF", "error"}
             /\ err = "blocks" => in.end = "open"
             /\ err = "nil" /\ "content-length" \in DOMAIN Headers(in) => len \in 0 .. in.body
  BY DEF err, method, len
<1>5. CASE lengths = {}
  BY <1>1, <1>3, <1>4, <1>5
<1>6. CASE lengths # {}
  <2>1. PICK i \in lengths : TRUE
    BY <1>6
  <2>2. CASE lengths # {i}
    <3>1. len = Junk /\ ~BodyFits(in, HeaderEnd(in))
      <4>1. \A j \in lengths : lengths # {j}
        BY <2>1, <2>2
      <4>2. QED
        BY <4>1, <1>1, <1>3, <1>6
    <3>2. len < 0
      BY <3>1 DEF Junk
    <3>3. err = "ErrMalformed"
      BY <3>2, <1>1, <1>4, <1>6
    <3>4. QED
      BY <3>1, <3>3
  <2>3. CASE lengths = {i}
    <3>1. len = in.lines[i][3] /\ len \in Int
      BY <2>3, <1>1
    <3>int. len \in Int
      BY <3>1
    <3>2. BodyFits(in, HeaderEnd(in)) <=> len \in 0 .. maxBodySize /\ len <= in.body
      BY <3>1, <2>3, <1>3, <1>6
    <3>3. err = IF len < 0 THEN "ErrMalformed"
                ELSE IF len > maxBodySize THEN "ErrPayloadTooLarge"
                ELSE IF in.body < len THEN TruncatedError(in) ELSE "nil"
      BY <1>1, <1>4, <1>6
    <3>4. CASE len < 0
      BY <3>1, <3>2, <3>3, <3>4
    <3>5. CASE ~(len < 0) /\ len > maxBodySize
      <4>1. err = "ErrPayloadTooLarge"
        BY <3>3, <3>5
      <4>2. ~BodyFits(in, HeaderEnd(in))
        BY <3>int, <3>2, <3>5, <1>nat
      <4>3. QED
        BY <4>1, <4>2
    <3>6. CASE ~(len < 0) /\ ~(len > maxBodySize) /\ in.body < len
      <4>1. err = TruncatedError(in)
        BY <3>3, <3>6
      <4>2. ~BodyFits(in, HeaderEnd(in))
        BY <3>int, <3>2, <3>6, <1>nat
      <4>3. QED
        BY <4>1, <4>2, <1>2
    <3>7. CASE ~(len < 0) /\ ~(len > maxBodySize) /\ ~(in.body < len)
      <4>1. err = "nil"
        BY <3>3, <3>7
      <4>2. BodyFits(in, HeaderEnd(in)) /\ len \in 0 .. in.body
        BY <3>int, <3>2, <3>7, <1>nat
      <4>3. QED
        BY <4>1, <4>2
    <3>8. QED
      BY <3>4, <3>5, <3>6, <3>7
  <2>4. QED
    BY <2>2, <2>3
<1>7. QED
  BY <1>5, <1>6

ReadErrors == {"nil", "ErrMalformed", "ErrVersionNotSupported", "ErrTooManyHeaders",
               "ErrPayloadTooLarge", "ErrLengthRequired", "EOF", "ErrUnexpectedEOF",
               "ErrIO", "blocks"}

\* ReadRequest accepts what the grammar accepts; which errors it returns, and
\* what the stream was like when it returns those that Serve treats specially.
LEMMA ReadRequestResult ==
  ASSUME NEW in, IsInput(in)
  PROVE  LET err == ReadRequest(in).err IN
         /\ err = "nil" <=> WellFormed(in)
         /\ err \in ReadErrors
         /\ err = "EOF" => in.end = "EOF" /\ \A i \in DOMAIN in.lines :
                                                in.lines[i][1] \in {"request", "header"}
         /\ err \in {"ErrUnexpectedEOF", "ErrIO"} => in.end \in {"EOF", "error"}
         /\ in.lines = <<>> /\ in.end = "EOF" => err = "EOF"
         /\ err = "nil" => in.lines # <<>> /\ in.lines[1][1] = "request"
         /\ err = "nil" /\ in.lines[1][2] = "POST" => ReadRequest(in).body \in 0 .. in.body
<1> DEFINE err == ReadRequest(in).err
           line == in.lines[1]
           method == in.lines[1][2]
           herr == HeaderError(in)
           berr == BodyError(in, method, Headers(in))
           n == HeaderEnd(in)
<1>1. in.lines \in Seq({in.lines[i] : i \in DOMAIN in.lines}) /\ in.end \in {"EOF", "error", "open"}
  BY DEF IsInput
<1>2. /\ err = IF in.lines = <<>> THEN StreamError(in)
               ELSE IF line[1] = "part" THEN TruncatedError(in)
               ELSE IF line[1] # "request" THEN "ErrMalformed"
               ELSE IF line[4] # "HTTP/1.1" THEN "ErrVersionNotSupported"
               ELSE IF herr # "nil" THEN herr
               ELSE IF "host" \notin DOMAIN Headers(in) THEN "ErrMalformed"
               ELSE berr
      /\ ReadRequest(in).body = IF err = "nil" /\ "content-length" \in DOMAIN Headers(in)
                                THEN Headers(in)["content-length"] ELSE 0
  BY DEF ReadRequest
<1>3. \/ in.end = "EOF" /\ StreamError(in) = "EOF" /\ TruncatedError(in) = "ErrUnexpectedEOF"
      \/ in.end = "error" /\ StreamError(in) = "ErrIO" /\ TruncatedError(in) = "ErrIO"
      \/ in.end = "open" /\ StreamError(in) = "blocks" /\ TruncatedError(in) = "blocks"
  BY <1>1 DEF StreamError, TruncatedError
<1>4. CASE in.lines = <<>>
  <2>1. err = StreamError(in)
    BY <1>2, <1>4
  <2>2. ~WellFormed(in)
    BY <1>4 DEF WellFormed
  <2>3. DOMAIN in.lines = {}
    BY <1>4
  <2>4. QED
    BY <2>1, <2>2, <2>3, <1>3, <1>4 DEF ReadErrors
<1>5. CASE in.lines # <<>> /\ line[1] # "request"
  <2>1. err \in {"ErrMalformed", TruncatedError(in)} /\ ~WellFormed(in)
    BY <1>2, <1>5 DEF WellFormed
  <2>2. QED
    BY <2>1, <1>3, <1>5 DEF ReadErrors
<1>6. CASE in.lines # <<>> /\ line[1] = "request" /\ line[4] # "HTTP/1.1"
  <2>1. err = "ErrVersionNotSupported" /\ ~WellFormed(in)
    BY <1>2, <1>6 DEF WellFormed
  <2>2. QED
    BY <2>1, <1>6 DEF ReadErrors
<1>7. CASE in.lines # <<>> /\ line[1] = "request" /\ line[4] = "HTTP/1.1"
  <2>1. Len(in.lines) \in Nat /\ DOMAIN in.lines = 1 .. Len(in.lines)
    BY <1>1
  <2>2. /\ n \in 2 .. Len(in.lines) + 1 /\ StopsAt(in, n)
        /\ \A m \in 2 .. Len(in.lines) + 1 : StopsAt(in, m) => m = n
    BY <1>1, <1>7, HeaderLoopStops
  <2>3. /\ herr = "nil" <=> n - 2 < maxHeaders /\ n \in 2 .. Len(in.lines) /\ in.lines[n] = <<"blank">>
        /\ herr \in {"nil", "ErrTooManyHeaders", "ErrMalformed", "EOF",
                     "ErrUnexpectedEOF", "ErrIO", "blocks"}
        /\ herr = "EOF" => in.end = "EOF" /\ \A i \in 2 .. Len(in.lines) : in.lines[i][1] = "header"
        /\ herr \in {"ErrUnexpectedEOF", "ErrIO"} => in.end \in {"EOF", "error"}
    BY <1>7, HeadersEnd
  <2>4. "host" \in DOMAIN Headers(in) <=> \E i \in 2 .. n - 1 : in.lines[i][2] = "host"
    BY <1>7, HeadersRead
  <2>5. /\ berr = "nil" <=> BodyFits(in, n)
        /\ berr \in {"nil", "ErrMalformed", "ErrPayloadTooLarge", "ErrLengthRequired",
                     "ErrUnexpectedEOF", "ErrIO", "blocks"}
        /\ berr \in {"ErrUnexpectedEOF", "ErrIO"} => in.end \in {"EOF", "error"}
        /\ berr = "nil" /\ "content-length" \in DOMAIN Headers(in) =>
             Headers(in)["content-length"] \in 0 .. in.body
    BY <1>7, BodyRules
  <2>6. WellFormed(in) <=>
          \E m \in 2 .. Len(in.lines) :
            /\ in.lines[m] = <<"blank">>
            /\ \A i \in 2 .. m - 1 : in.lines[i][1] = "header"
            /\ m - 2 < maxHeaders
            /\ \E i \in 2 .. m - 1 : in.lines[i][2] = "host"
            /\ BodyFits(in, m)
    BY <1>7 DEF WellFormed, BodyFits
  <2>7. WellFormed(in) <=> herr = "nil" /\ "host" \in DOMAIN Headers(in) /\ berr = "nil"
    <3>1. ASSUME WellFormed(in)
          PROVE  herr = "nil" /\ "host" \in DOMAIN Headers(in) /\ berr = "nil"
      <4>1. PICK m \in 2 .. Len(in.lines) :
              /\ in.lines[m] = <<"blank">>
              /\ \A i \in 2 .. m - 1 : in.lines[i][1] = "header"
              /\ m - 2 < maxHeaders
              /\ \E i \in 2 .. m - 1 : in.lines[i][2] = "host"
              /\ BodyFits(in, m)
        BY <2>6, <3>1
      <4>2. in.lines[m][1] # "header"
        BY <4>1
      <4>3. \A i \in 2 .. m - 1 : i - 2 < maxHeaders
        BY <4>1, <2>1, HTTPAssumption
      <4>4. StopsAt(in, m) /\ m \in 2 .. Len(in.lines) + 1
        BY <4>1, <4>2, <4>3, <2>1 DEF StopsAt
      <4>5. m = n
        BY <4>4, <2>2
      <4>6. QED
        BY <4>1, <4>5, <2>3, <2>4, <2>5
    <3>2. ASSUME herr = "nil", "host" \in DOMAIN Headers(in), berr = "nil"
          PROVE  WellFormed(in)
      <4>1. n - 2 < maxHeaders /\ n \in 2 .. Len(in.lines) /\ in.lines[n] = <<"blank">>
        BY <3>2, <2>3
      <4>2. \A i \in 2 .. n - 1 : in.lines[i][1] = "header"
        BY <2>2 DEF StopsAt
      <4>3. (\E i \in 2 .. n - 1 : in.lines[i][2] = "host") /\ BodyFits(in, n)
        BY <3>2, <2>4, <2>5
      <4>4. QED
        BY <4>1, <4>2, <4>3, <2>6
    <3>3. QED
      BY <3>1, <3>2
  <2> HIDE DEF herr, berr
  <2>8. err = IF herr # "nil" THEN herr
              ELSE IF "host" \notin DOMAIN Headers(in) THEN "ErrMalformed" ELSE berr
    BY <1>2, <1>7
  <2>9. err = "EOF" => in.end = "EOF" /\ \A i \in DOMAIN in.lines :
                                           in.lines[i][1] \in {"request", "header"}
    <3>1. SUFFICES ASSUME err = "EOF"
                   PROVE  in.end = "EOF" /\ \A i \in DOMAIN in.lines :
                                              in.lines[i][1] \in {"request", "header"}
      OBVIOUS
    <3>2. herr = "EOF"
      BY <3>1, <2>5, <2>8
    <3>3. in.end = "EOF" /\ \A i \in 2 .. Len(in.lines) : in.lines[i][1] = "header"
      BY <3>2, <2>3
    <3>4. \A i \in DOMAIN in.lines : i = 1 \/ i \in 2 .. Len(in.lines)
      BY <2>1
    <3>5. QED
      BY <3>3, <3>4, <1>7
  <2>10. err \in ReadErrors
    BY <2>3, <2>5, <2>8 DEF ReadErrors
  <2>11. err \in {"ErrUnexpectedEOF", "ErrIO"} => in.end \in {"EOF", "error"}
    BY <2>3, <2>5, <2>8
  <2>12. err = "nil" <=> WellFormed(in)
    BY <2>7, <2>8
  <2>13. err = "nil" /\ method = "POST" => ReadRequest(in).body \in 0 .. in.body
    <3>1. SUFFICES ASSUME err = "nil", method = "POST"
                   PROVE  ReadRequest(in).body \in 0 .. in.body
      OBVIOUS
    <3>2. berr = "nil"
      BY <3>1, <2>7, <2>12
    <3>3. "content-length" \in DOMAIN Headers(in)
      BY <3>1, <3>2 DEF berr, BodyError, methodRequiresLength
    <3>4. QED
      BY <3>1, <3>2, <3>3, <2>5, <1>2
  <2>14. QED
    BY <2>9, <2>10, <2>11, <2>12, <2>13, <1>7
<1>8. QED
  BY <1>4, <1>5, <1>6, <1>7

\* A sequence of one element.
LEMMA SingletonSeq ==
  ASSUME NEW S, NEW s \in Seq(S), Len(s) = 1
  PROVE  s = <<s[1]>>
OBVIOUS

\* Some registered prefix is the longest that a path begins with.
LEMMA LongestPrefix ==
  ASSUME NEW path \in Seq(STRING), path # <<>>, path[1] = "/"
  PROVE  \E p \in prefix : Begins(p, path) /\ \A q \in prefix : Begins(q, path) => Len(q) <= Len(p)
<1> DEFINE Best(p) == Begins(p, path) /\ \A q \in prefix : Begins(q, path) => Len(q) <= Len(p)
           root == <<"/">>
           orders == <<"/", "orders", "/">>
           echo == <<"/", "echo", "/">>
<1>1. prefix = {root, orders, echo}
  BY DEF prefix
<1>2. Len(root) = 1 /\ Len(orders) = 3 /\ Len(echo) = 3
  OBVIOUS
<1>3. Begins(root, path)
  <2>1. Len(path) \in Nat /\ Len(path) >= 1
    OBVIOUS
  <2>2. SubSeq(path, 1, 1) \in Seq(STRING) /\ Len(SubSeq(path, 1, 1)) = 1
    BY <2>1
  <2>3. SubSeq(path, 1, 1)[1] = path[1]
    BY <2>1
  <2>4. SubSeq(path, 1, 1) = <<"/">>
    BY <2>2, <2>3, SingletonSeq
  <2>5. QED
    BY <2>1, <2>4, <1>2 DEF Begins
<1> HIDE DEF root, orders, echo
<1>4. \A q \in prefix : q = root \/ q = orders \/ q = echo
  BY <1>1
<1>5. ASSUME NEW q \in prefix PROVE Len(q) \in Nat /\ Len(q) <= 3
  <2>1. CASE q = root
    BY <2>1 DEF root
  <2>2. CASE q = orders
    BY <2>2 DEF orders
  <2>3. CASE q = echo
    BY <2>3 DEF echo
  <2>4. QED
    BY <2>1, <2>2, <2>3, <1>4
<1>6. CASE Begins(orders, path)
  <2>1. Best(orders)
    BY <1>2, <1>5, <1>6
  <2>2. QED
    BY <2>1, <1>1
<1>7. CASE Begins(echo, path)
  <2>1. Best(echo)
    BY <1>2, <1>5, <1>7
  <2>2. QED
    BY <2>1, <1>1
<1>8. CASE ~Begins(orders, path) /\ ~Begins(echo, path)
  <2>1. Best(root)
    <3>1. ASSUME NEW q \in prefix, Begins(q, path) PROVE Len(q) <= Len(root)
      <4>1. q = root
        BY <3>1, <1>4, <1>8
      <4>2. QED
        BY <4>1, <1>5
    <3>2. QED
      BY <3>1, <1>3
  <2>2. QED
    BY <2>1, <1>1
<1>9. QED
  BY <1>6, <1>7, <1>8

\* The request for which a handler asks the store to create an order.
LEMMA DispatchResult ==
  ASSUME NEW in, IsInput(in), WellFormed(in)
  PROVE  /\ \/ Dispatch(in).op \in {"create", "list", "get"}
            \/ Dispatch(in).op = "none" /\ \E s \in {200, 400, 404, 405} : Dispatch(in).status = s
         /\ Dispatch(in).op = "create" =>
              /\ in.doc = "order" /\ in.body >= DocLen
              /\ in.lines[1][2] = "POST" /\ in.lines[1][3] = <<"/", "orders">>
<1> DEFINE path == in.lines[1][3]
           method == in.lines[1][2]
<1>1. in.lines # <<>> /\ in.lines[1][1] = "request"
  BY ReadRequestResult
<1>e. ReadRequest(in).err = "nil"
  BY ReadRequestResult
<1>2. path \in Seq(STRING) /\ path # <<>> /\ path[1] = "/"
  <2> DEFINE C == {in.lines[i] : i \in DOMAIN in.lines}
  <2>0. in.lines \in Seq(C)
    BY DEF IsInput
  <2> HIDE DEF C
  <2>1. 1 \in DOMAIN in.lines
    BY <2>0, <1>1
  <2>2. IsLine(in.lines[1])
    BY <2>1 DEF IsInput
  <2>3. QED
    BY <2>2, <1>1 DEF IsLine
<1>3. match(path) = <<"/", "orders">> => path = <<"/", "orders">>
  <2>1. SUFFICES ASSUME path \notin exact, match(path) = <<"/", "orders">> PROVE FALSE
    BY DEF match
  <2>2. \E p \in prefix : Begins(p, path) /\ \A q \in prefix : Begins(q, path) => Len(q) <= Len(p)
    BY <1>2, LongestPrefix
  <2>3. match(path) = CHOOSE p \in prefix :
                        Begins(p, path) /\ \A q \in prefix : Begins(q, path) => Len(q) <= Len(p)
    BY <2>1 DEF match
  <2>4. match(path) \in prefix
    BY <2>2, <2>3
  <2>5. <<"/", "orders">> \notin prefix
    BY DEF prefix
  <2>6. QED
    BY <2>1, <2>4, <2>5
<1> DEFINE now(status) == [op |-> "none", status |-> status]
           ask(op) == [op |-> op, status |-> 0]
<1>4. CASE match(path) # <<"/", "orders">>
  <2>1. CASE match(path) = <<"/">>
    <3>1. Dispatch(in) = now(IF path = <<"/">> THEN 200 ELSE 404)
      BY <2>1 DEF Dispatch
    <3>2. QED
      BY <3>1
  <2>2. CASE match(path) # <<"/">> /\ match(path) = <<"/", "orders", "/">>
    <3>1. Dispatch(in) = IF method # "GET" THEN now(405)
                         ELSE IF OrderId(path) = 0 THEN now(400) ELSE ask("get")
      BY <2>2, <1>4 DEF Dispatch
    <3>2. QED
      BY <3>1
  <2>3. CASE match(path) # <<"/">> /\ match(path) # <<"/", "orders", "/">>
    <3>1. Dispatch(in) = now(200)
      BY <2>3, <1>4 DEF Dispatch
    <3>2. QED
      BY <3>1
  <2>4. QED
    BY <2>1, <2>2, <2>3
<1>5. CASE match(path) = <<"/", "orders">> /\ method # "POST"
  <2>1. Dispatch(in) = IF method = "GET" THEN ask("list") ELSE now(405)
    BY <1>5 DEF Dispatch
  <2>2. QED
    BY <2>1
<1>6. CASE match(path) = <<"/", "orders">> /\ method = "POST"
  <2>1. Dispatch(in) = IF ReadRequest(in).body # DocLen \/ in.doc # "order" THEN now(400)
                       ELSE ask("create")
    BY <1>6 DEF Dispatch
  <2>2. CASE ReadRequest(in).body # DocLen \/ in.doc # "order"
    <3>1. Dispatch(in) = now(400)
      BY <2>1, <2>2
    <3>2. QED
      BY <3>1
  <2>3. CASE ReadRequest(in).body = DocLen /\ in.doc = "order"
    <3>1. Dispatch(in) = ask("create")
      BY <2>1, <2>3
    <3>2. ReadRequest(in).body \in 0 .. in.body
      BY <1>6, <1>e, ReadRequestResult
    <3>3. DocLen \in 0 .. in.body
      BY <2>3, <3>2
    <3>4. in.body \in Nat /\ DocLen \in Nat
      BY HTTPAssumption DEF IsInput
    <3>5. in.body >= DocLen
      BY <3>3, <3>4
    <3>6. path = <<"/", "orders">>
      BY <1>3, <1>6
    <3>7. QED
      BY <2>3, <3>1, <3>5, <3>6, <1>6
  <2>4. QED
    BY <2>2, <2>3
<1>7. QED
  BY <1>4, <1>5, <1>6

------------------------------------------------------------------------------
(***************************************************************************)
(* The inductive invariant.  At most one connection holds the database     *)
(* connection, and only while it is at its statement, so what it has read  *)
(* of the table is still what the table holds; and every answer carries    *)
(* the reason for which it was decided.                                    *)
(***************************************************************************)

PCs == {"unused", "handshake", "failed", "serve", "create", "list", "get", "write", "closed"}
RowSeqs == Seq(Nat \X Conns)
Answers == [status : Nat, rows : {None} \cup RowSeqs]

HTTPTypeOK ==
  /\ input \in Workloads
  /\ pc \in [Conns -> PCs]
  /\ holds \in [Conns -> {0, 1}]
  /\ scanned \in [Conns -> RowSeqs]
  /\ answer \in [Conns -> {None} \cup Answers]
  /\ resp \in [Conns -> Nat]
  /\ db \in [Pool -> Seq(Conns)]

AtStatement(c) == pc[c] \in {"create", "list", "get"}

CompleteOrder(in) ==
  /\ WellFormed(in) /\ in.doc = "order" /\ in.body >= DocLen
  /\ in.lines[1][2] = "POST" /\ in.lines[1][3] = <<"/", "orders">>

NothingSent(in) == in.lines = <<>> /\ in.end = "EOF"

EndedInHead(in) ==
  in.end = "EOF" /\ \A i \in DOMAIN in.lines : in.lines[i][1] \in {"request", "header"}

BrokenOff(in) == ~WellFormed(in) /\ in.end \in {"EOF", "error"}

\* The rows scanned are the first rows of the table.
ScannedRows(s, rows) ==
  /\ Len(s) <= Len(rows)
  /\ \A i \in 1 .. Len(s) : s[i] = <<i, rows[i]>>

\* Before there is an answer.
Pending(c) ==
  pc[c] \notin {"write", "closed"} =>
    /\ answer[c] = None /\ resp[c] = 0
    /\ input[c] = None => pc[c] = "unused"
    /\ ~(pc[c] = "list" /\ holds[c] = 1) => scanned[c] = <<>>
    /\ pc[c] = "list" /\ holds[c] = 1 => ScannedRows(scanned[c], db[1])
    /\ pc[c] = "create" => CompleteOrder(input[c])
    /\ AtStatement(c) => ~NothingSent(input[c])

\* Once there is one.
Decided(c) ==
  /\ pc[c] = "write" =>
       /\ resp[c] = 0 /\ answer[c] \in Answers /\ answer[c].status # 0
       /\ ~NothingSent(input[c])
       /\ answer[c].status = 500 => c \in faults \/ BrokenOff(input[c])
  /\ pc[c] = "closed" =>
       /\ resp[c] = 0 => EndedInHead(input[c])
       /\ NothingSent(input[c]) => resp[c] = 0
       /\ resp[c] = 500 => c \in faults \/ BrokenOff(input[c])

HoldsAtStatement(c) == holds[c] # 0 => AtStatement(c)

ConnectionOK(c) == Pending(c) /\ Decided(c) /\ HoldsAtStatement(c)

OneHolder == \A c, d \in Conns : holds[c] = 1 /\ holds[d] = 1 => c = d

HTTPIInv ==
  /\ HTTPTypeOK /\ OneHolder
  /\ \A c \in Conns : ConnectionOK(c)
  /\ \A i \in DOMAIN db[1] : CompleteOrder(input[db[1][i]])

\* The initial states satisfy the invariant.
LEMMA HTTPInitInv == HTTPInit => HTTPIInv
<1> SUFFICES ASSUME HTTPInit PROVE HTTPIInv
  OBVIOUS
<1>1. HTTPTypeOK
  BY HTTPAssumption DEF HTTPInit, HTTPTypeOK, PCs, RowSeqs
<1>2. OneHolder
  BY DEF HTTPInit, OneHolder
<1>3. ASSUME NEW c \in Conns PROVE ConnectionOK(c)
  BY DEF HTTPInit, ConnectionOK, Pending, Decided, HoldsAtStatement, AtStatement
<1>4. DOMAIN db[1] = {}
  BY HTTPAssumption DEF HTTPInit
<1>5. QED
  BY <1>1, <1>2, <1>3, <1>4 DEF HTTPIInv

\* A goroutine whose own state does not change keeps what it knows: nobody
\* else touches the table while it holds the database connection.
LEMMA OtherConnection ==
  ASSUME NEW d \in Conns, ConnectionOK(d),
         input' = input, pc'[d] = pc[d], holds'[d] = holds[d], scanned'[d] = scanned[d],
         answer'[d] = answer[d], resp'[d] = resp[d], faults \subseteq faults',
         holds[d] = 1 => db'[1] = db[1]
  PROVE  ConnectionOK(d)'
<1>1. Pending(d)'
  BY DEF ConnectionOK, Pending, AtStatement
<1>2. Decided(d)'
  BY DEF ConnectionOK, Decided
<1>3. HoldsAtStatement(d)'
  BY DEF ConnectionOK, HoldsAtStatement, AtStatement
<1>4. QED
  BY <1>1, <1>2, <1>3 DEF ConnectionOK

\* The inputs are never changed, and every connection in use has one.
LEMMA InputKnown ==
  ASSUME HTTPIInv, NEW c \in Conns, pc[c] \notin {"unused", "write", "closed"}
  PROVE  IsInput(input[c])
BY WorkloadAssumption DEF HTTPIInv, HTTPTypeOK, ConnectionOK, Pending

\* Only main's goroutine before and after http.Serve.
LEMMA TLSHandshakeStep ==
  ASSUME HTTPIInv, NEW c \in Conns, TLSHandshake(c)
  PROVE  HTTPIInv'
<1>1. HTTPTypeOK' /\ OneHolder'
  BY DEF HTTPIInv, HTTPTypeOK, OneHolder, TLSHandshake, PCs
<1>2. ConnectionOK(c)'
  BY DEF HTTPIInv, HTTPTypeOK, TLSHandshake, ConnectionOK, Pending, Decided, HoldsAtStatement, AtStatement
<1>3. ASSUME NEW d \in Conns, d # c PROVE ConnectionOK(d)'
  BY <1>3, OtherConnection DEF HTTPIInv, HTTPTypeOK, TLSHandshake
<1>4. QED
  BY <1>1, <1>2, <1>3 DEF HTTPIInv, TLSHandshake

\* The response is what was decided, and the end is the end.
LEMMA WriteResponseStep ==
  ASSUME HTTPIInv, NEW c \in Conns, WriteResponse(c)
  PROVE  HTTPIInv'
<1>1. HTTPTypeOK' /\ OneHolder'
  BY DEF HTTPIInv, HTTPTypeOK, OneHolder, WriteResponse, PCs, ConnectionOK, Decided, Answers
<1>2. ConnectionOK(c)'
  BY SMTT(40) DEF HTTPIInv, HTTPTypeOK, WriteResponse, ConnectionOK, Pending, Decided, HoldsAtStatement, AtStatement
<1>3. ASSUME NEW d \in Conns, d # c PROVE ConnectionOK(d)'
  BY <1>3, OtherConnection DEF HTTPIInv, HTTPTypeOK, WriteResponse
<1>4. QED
  BY <1>1, <1>2, <1>3 DEF HTTPIInv, WriteResponse

\* A decision with the given status: what the answers look like then.
LEMMA DecideResult ==
  ASSUME HTTPIInv, NEW c \in Conns, NEW status \in Nat, NEW rows \in {None} \cup RowSeqs,
         answer' = [answer EXCEPT ![c] = [status |-> status, rows |-> rows]]
  PROVE  /\ answer' \in [Conns -> {None} \cup Answers] /\ answer'[c] \in Answers
         /\ answer'[c].status = status
         /\ \A d \in Conns : d # c => answer'[d] = answer[d]
<1> DEFINE a == [status |-> status, rows |-> rows]
<1>1. a \in Answers /\ a.status = status
  BY DEF Answers
<1>2. answer' = [answer EXCEPT ![c] = a] /\ answer \in [Conns -> {None} \cup Answers]
  BY DEF HTTPIInv, HTTPTypeOK
<1> HIDE DEF a
<1>3. QED
  BY <1>1, <1>2

\* What a decision that is still to be written has to satisfy.
LEMMA DecideStep ==
  ASSUME HTTPIInv, NEW c \in Conns, pc[c] \notin {"write", "closed"},
         pc' = [pc EXCEPT ![c] = "write"],
         answer'[c] \in Answers, answer'[c].status # 0,
         answer'[c].status = 500 => c \in faults' \/ BrokenOff(input[c]),
         input' = input, resp' = resp, holds'[c] = 0, ~NothingSent(input[c])
  PROVE  /\ pc' \in [Conns -> PCs] /\ ConnectionOK(c)'
         /\ \A d \in Conns : d # c => pc'[d] = pc[d]
<1>1. pc \in [Conns -> PCs] /\ resp[c] = 0
  BY DEF HTTPIInv, HTTPTypeOK, ConnectionOK, Pending
<1>2. pc' \in [Conns -> PCs] /\ pc'[c] = "write" /\ \A d \in Conns : d # c => pc'[d] = pc[d]
  BY <1>1 DEF PCs
<1>3. Pending(c)' /\ HoldsAtStatement(c)'
  BY <1>2 DEF Pending, HoldsAtStatement
<1>4. Decided(c)'
  BY <1>1, <1>2 DEF Decided
<1>5. QED
  BY <1>2, <1>3, <1>4 DEF ConnectionOK

ErrorStatuses == {400, 411, 413, 431, 500, 505}

\* The statuses are numbers other than 0.
LEMMA ErrorStatusesType ==
  /\ 400 \in ErrorStatuses /\ 411 \in ErrorStatuses /\ 413 \in ErrorStatuses
  /\ 431 \in ErrorStatuses /\ 500 \in ErrorStatuses /\ 505 \in ErrorStatuses
  /\ \A s \in ErrorStatuses : s \in Nat /\ s # 0
<1>1. \A s \in ErrorStatuses : s \in Nat /\ s # 0
  BY DEF ErrorStatuses
<1>2. QED
  BY <1>1 DEF ErrorStatuses

\* An error is answered with one of its statuses, and with 500 only when the
\* stream broke off.
LEMMA ErrorStatusOf ==
  ASSUME NEW err \in ReadErrors \ {"EOF", "nil", "blocks"}
  PROVE  /\ ErrorStatus(err) \in ErrorStatuses
         /\ err \in {"ErrUnexpectedEOF", "ErrIO"} \/ ErrorStatus(err) # 500
<1>1. err \in {"ErrUnexpectedEOF", "ErrIO", "ErrMalformed", "ErrVersionNotSupported",
               "ErrTooManyHeaders", "ErrPayloadTooLarge", "ErrLengthRequired"}
  BY DEF ReadErrors
<1>2. ErrorStatus("ErrUnexpectedEOF") = 500 /\ ErrorStatus("ErrIO") = 500
  BY DEF ErrorStatus
<1>3. /\ ErrorStatus("ErrMalformed") = 400 /\ ErrorStatus("ErrLengthRequired") = 411
      /\ ErrorStatus("ErrPayloadTooLarge") = 413 /\ ErrorStatus("ErrTooManyHeaders") = 431
      /\ ErrorStatus("ErrVersionNotSupported") = 505
  BY DEF ErrorStatus
<1>4. CASE err \in {"ErrUnexpectedEOF", "ErrIO"}
  <2>1. CASE err = "ErrUnexpectedEOF"
    <3>1. ErrorStatus(err) \in ErrorStatuses
      BY <1>2, <2>1, ErrorStatusesType
    <3>2. QED
      BY <1>4, <3>1, Zenon
  <2>2. CASE err = "ErrIO"
    <3>1. ErrorStatus(err) \in ErrorStatuses
      BY <1>2, <2>2, ErrorStatusesType
    <3>2. QED
      BY <1>4, <3>1, Zenon
  <2>3. QED
    BY <2>1, <2>2, <1>4
<1>5. CASE err = "ErrMalformed"
  BY <1>3, <1>5, ErrorStatusesType
<1>6. CASE err = "ErrLengthRequired"
  BY <1>3, <1>6, ErrorStatusesType
<1>7. CASE err = "ErrPayloadTooLarge"
  BY <1>3, <1>7, ErrorStatusesType
<1>8. CASE err = "ErrTooManyHeaders"
  BY <1>3, <1>8, ErrorStatusesType
<1>9. CASE err = "ErrVersionNotSupported"
  BY <1>3, <1>9, ErrorStatusesType
<1>10. QED
  BY <1>1, <1>4, <1>5, <1>6, <1>7, <1>8, <1>9

\* Serve: the request is refused with the status of its error, closed without
\* one, or handed to its handler.
LEMMA ServeStep ==
  ASSUME HTTPIInv, NEW c \in Conns, Serve(c)
  PROVE  /\ HTTPIInv'
         /\ \/ answer' = answer
            \/ \E s \in {200, 400, 404, 405, 411, 413, 431, 500, 505} : Decide(c, s, None)
<1> DEFINE in == input[c]
           err == ReadRequest(in).err
           op == Dispatch(in).op
           status == Dispatch(in).status
<1>1. /\ pc[c] = "serve" /\ IsInput(in)
      /\ input' = input /\ holds' = holds /\ scanned' = scanned
      /\ resp' = resp /\ db' = db /\ faults' = faults
  BY InputKnown DEF Serve
<1>2. /\ pc \in [Conns -> PCs] /\ answer \in [Conns -> {None} \cup Answers]
      /\ answer[c] = None /\ resp[c] = 0 /\ holds[c] = 0 /\ holds \in [Conns -> {0, 1}]
      /\ scanned[c] = <<>> /\ in # None
  BY <1>1 DEF HTTPIInv, HTTPTypeOK, ConnectionOK, Pending, HoldsAtStatement, AtStatement
<1>3. \/ err = "EOF" /\ pc' = [pc EXCEPT ![c] = "closed"] /\ answer' = answer
      \/ err \notin {"EOF", "nil", "blocks"} /\ Decide(c, ErrorStatus(err), None)
      \/ err = "nil" /\ op = "none" /\ Decide(c, status, None)
      \/ err = "nil" /\ op # "none" /\ pc' = [pc EXCEPT ![c] = op] /\ answer' = answer
  BY DEF Serve
<1>4. /\ err = "nil" => WellFormed(in)
      /\ WellFormed(in) => err = "nil"
      /\ err \in ReadErrors
      /\ err = "EOF" => EndedInHead(in)
      /\ err \in {"ErrUnexpectedEOF", "ErrIO"} => in.end \in {"EOF", "error"}
      /\ NothingSent(in) => err = "EOF"
  BY <1>1, ReadRequestResult DEF EndedInHead, NothingSent
<1>5. WellFormed(in) => \/ op \in {"create", "list", "get"}
                        \/ op = "none" /\ \E s \in {200, 400, 404, 405} : status = s
  BY <1>1, DispatchResult
<1>6. WellFormed(in) /\ op = "create" => CompleteOrder(in)
  BY <1>1, DispatchResult DEF CompleteOrder
<1>f. /\ None \in {None} \cup RowSeqs /\ holds' \in [Conns -> {0, 1}] /\ holds'[c] = 0
      /\ input' = input /\ resp' = resp /\ pc[c] \notin {"write", "closed"}
  BY <1>1, <1>2
<1> HIDE DEF err, op, status
\* What is left to show: the connection's own state, and that of its fields.
<1>7. SUFFICES /\ pc' \in [Conns -> PCs] /\ answer' \in [Conns -> {None} \cup Answers]
               /\ ConnectionOK(c)'
               /\ \A d \in Conns : d # c => pc'[d] = pc[d] /\ answer'[d] = answer[d]
               /\ \/ answer' = answer
                  \/ \E s \in {200, 400, 404, 405, 411, 413, 431, 500, 505} : Decide(c, s, None)
  <2>1. HTTPTypeOK' /\ OneHolder'
    BY <1>1, <1>7 DEF HTTPIInv, HTTPTypeOK, OneHolder
  <2>2. ASSUME NEW d \in Conns, d # c PROVE ConnectionOK(d)'
    BY <2>2, <1>1, <1>7, OtherConnection DEF HTTPIInv
  <2>3. \A i \in DOMAIN db'[1] : CompleteOrder(input'[db'[1][i]])
    BY <1>1 DEF HTTPIInv
  <2>4. QED
    BY <2>1, <2>2, <2>3, <1>7 DEF HTTPIInv
<1>8. CASE err = "EOF" /\ pc' = [pc EXCEPT ![c] = "closed"] /\ answer' = answer
  <2>1. pc' \in [Conns -> PCs] /\ pc'[c] = "closed" /\ \A d \in Conns : d # c => pc'[d] = pc[d]
    BY <1>2, <1>8 DEF PCs
  <2>2. ConnectionOK(c)'
    BY <2>1, <1>1, <1>2, <1>4, <1>8 DEF ConnectionOK, Pending, Decided, HoldsAtStatement
  <2>3. QED
    BY <2>1, <2>2, <1>2, <1>8
<1>9. CASE err \notin {"EOF", "nil", "blocks"} /\ Decide(c, ErrorStatus(err), None)
  <2>1. err \in ReadErrors \ {"EOF", "nil", "blocks"} /\ ~NothingSent(in)
    BY <1>4, <1>9
  <2>2. err \in {"ErrUnexpectedEOF", "ErrIO"} => BrokenOff(in)
    BY <1>4, <1>9 DEF BrokenOff
  <2>3. PICK s \in ErrorStatuses : /\ ErrorStatus(err) = s
                                   /\ err \in {"ErrUnexpectedEOF", "ErrIO"} \/ s # 500
    BY <2>1, ErrorStatusOf
  <2>4. Decide(c, s, None)
    BY <2>3, <1>9
  <2>5. s \in Nat /\ s # 0
    BY ErrorStatusesType
  <2>6. /\ pc' \in [Conns -> PCs]
        /\ answer' \in [Conns -> {None} \cup Answers]
        /\ ConnectionOK(c)'
        /\ \A d \in Conns : d # c => pc'[d] = pc[d] /\ answer'[d] = answer[d]
    <3>1. /\ answer' = [answer EXCEPT ![c] = [status |-> s, rows |-> None]]
          /\ pc' = [pc EXCEPT ![c] = "write"]
      BY <2>4 DEF Decide
    <3>2. /\ answer' \in [Conns -> {None} \cup Answers] /\ answer'[c] \in Answers
          /\ answer'[c].status = s
          /\ \A d \in Conns : d # c => answer'[d] = answer[d]
      BY <3>1, <2>5, <1>f, DecideResult, Zenon
    <3>3. answer'[c].status # 0
      BY <3>2, <2>5
    <3>4. answer'[c].status = 500 => c \in faults' \/ BrokenOff(input[c])
      BY <3>2, <2>2, <2>3
    <3>5. pc' \in [Conns -> PCs] /\ ConnectionOK(c)' /\ \A d \in Conns : d # c => pc'[d] = pc[d]
      BY <3>1, <3>2, <3>3, <3>4, <2>1, <1>f, DecideStep
    <3>6. QED
      BY <3>2, <3>5
  <2>7. s \in {200, 400, 404, 405, 411, 413, 431, 500, 505}
    BY DEF ErrorStatuses
  <2>8. QED
    BY <2>4, <2>6, <2>7
<1>10. CASE err = "nil" /\ op = "none" /\ Decide(c, status, None)
  <2>1. WellFormed(in) /\ ~NothingSent(in)
    BY <1>4, <1>10
  <2>2. status \in {200, 400, 404, 405}
    BY <2>1, <1>5, <1>10
  <2>3. status \in Nat /\ status # 0
    BY <2>2
  <2>4. /\ pc' \in [Conns -> PCs]
        /\ answer' \in [Conns -> {None} \cup Answers]
        /\ ConnectionOK(c)'
        /\ \A d \in Conns : d # c => pc'[d] = pc[d] /\ answer'[d] = answer[d]
    <3>1. /\ answer' = [answer EXCEPT ![c] = [status |-> status, rows |-> None]]
          /\ pc' = [pc EXCEPT ![c] = "write"]
      BY <1>10 DEF Decide
    <3>2. /\ answer' \in [Conns -> {None} \cup Answers] /\ answer'[c] \in Answers
          /\ answer'[c].status = status
          /\ \A d \in Conns : d # c => answer'[d] = answer[d]
      BY <3>1, <2>3, <1>f, DecideResult, Zenon
    <3>3. answer'[c].status # 0 /\ (answer'[c].status = 500 => c \in faults' \/ BrokenOff(input[c]))
      BY <3>2, <2>2
    <3>4. pc' \in [Conns -> PCs] /\ ConnectionOK(c)' /\ \A d \in Conns : d # c => pc'[d] = pc[d]
      BY <3>1, <3>2, <3>3, <2>1, <1>f, DecideStep, Zenon
    <3>5. QED
      BY <3>2, <3>4
  <2>5. \E s \in {200, 400, 404, 405, 411, 413, 431, 500, 505} : Decide(c, s, None)
    <3>1. status \in {200, 400, 404, 405, 411, 413, 431, 500, 505}
      BY <2>2
    <3>2. QED
      BY <3>1, <1>10, ZenonT(40)
  <2>6. QED
    BY <2>4, <2>5
<1>11. CASE err = "nil" /\ op # "none" /\ pc' = [pc EXCEPT ![c] = op] /\ answer' = answer
  <2>1. WellFormed(in) /\ ~NothingSent(in)
    BY <1>4, <1>11
  <2>2. op \in {"create", "list", "get"} /\ (op = "create" => CompleteOrder(in))
    BY <2>1, <1>5, <1>6, <1>11
  <2>3. pc' \in [Conns -> PCs] /\ pc'[c] = op /\ \A d \in Conns : d # c => pc'[d] = pc[d]
    BY <2>2, <1>2, <1>11 DEF PCs
  <2>4. Decided(c)' /\ HoldsAtStatement(c)'
    BY <2>2, <2>3, <1>f DEF Decided, HoldsAtStatement
  <2>5. Pending(c)'
    <3>1. answer'[c] = None /\ resp'[c] = 0 /\ scanned'[c] = <<>> /\ input'[c] # None
      BY <1>1, <1>2, <1>11
    <3>2. ~(pc'[c] = "list" /\ holds'[c] = 1)
      BY <1>f
    <3>3. pc'[c] = "create" => CompleteOrder(input'[c])
      BY <2>2, <2>3, <1>1
    <3>4. ~NothingSent(input'[c])
      BY <2>1, <1>1
    <3>5. QED
      BY <3>1, <3>2, <3>3, <3>4 DEF Pending
  <2>6. QED
    BY <2>3, <2>4, <2>5, <1>2, <1>11 DEF ConnectionOK
<1>12. QED
  BY <1>3, <1>8, <1>9, <1>10, <1>11

\* The pool hands out its one connection to one goroutine.
LEMMA AcquireConnStep ==
  ASSUME HTTPIInv, NEW c \in Conns, NEW k \in Pool, AcquireConn(c, k)
  PROVE  HTTPIInv'
<1>1. /\ holds \in [Conns -> {0, 1}] /\ holds[c] = 0 /\ k \in Nat /\ k <= 1 /\ AtStatement(c)
      /\ \A d \in Conns : holds[d] # k
      /\ holds' = [holds EXCEPT ![c] = k]
      /\ UNCHANGED <<input, pc, scanned, answer, resp, db, faults>>
  BY HTTPAssumption DEF HTTPIInv, HTTPTypeOK, AcquireConn, MaxOpenConns, AtStatement
<1>2. k = 1
  BY <1>1
<1>3. holds' \in [Conns -> {0, 1}] /\ holds'[c] = 1 /\ \A d \in Conns : d # c => holds'[d] = holds[d]
  BY <1>1, <1>2
<1>4. HTTPTypeOK'
  BY <1>1, <1>3 DEF HTTPIInv, HTTPTypeOK
<1>5. OneHolder'
  <2>1. \A d \in Conns : holds'[d] = 1 => d = c
    BY <1>1, <1>2, <1>3
  <2>2. QED
    BY <2>1 DEF OneHolder
<1>6. ConnectionOK(c)'
  <2>1. /\ pc[c] \in {"create", "list", "get"} /\ scanned[c] = <<>> /\ ConnectionOK(c)
        /\ db[1] \in Seq(Conns)
    BY <1>1, HTTPAssumption DEF HTTPIInv, HTTPTypeOK, ConnectionOK, Pending, AtStatement
  <2>2. ScannedRows(scanned[c], db[1])
    <3>1. Len(scanned[c]) = 0 /\ Len(db[1]) \in Nat
      BY <2>1
    <3>2. QED
      BY <3>1 DEF ScannedRows
  <2>3. QED
    BY <2>1, <2>2, <1>1, <1>3 DEF ConnectionOK, Pending, Decided, HoldsAtStatement, AtStatement
<1>7. ASSUME NEW d \in Conns, d # c PROVE ConnectionOK(d)'
  BY <1>1, <1>3, <1>7, OtherConnection DEF HTTPIInv
<1>8. QED
  BY <1>1, <1>4, <1>5, <1>6, <1>7 DEF HTTPIInv

\* At its statement a goroutine holds the database connection that has the
\* table, nobody else holds one, and it has no answer yet.
LEMMA Holding ==
  ASSUME HTTPIInv, NEW c \in Conns, pc[c] \in {"create", "list", "get"}, holds[c] # 0
  PROVE  /\ holds[c] = 1 /\ HasSchema(holds[c]) /\ \A d \in Conns : d # c => holds[d] = 0
         /\ db[1] \in Seq(Conns) /\ Len(db[1]) \in Nat
         /\ answer[c] = None /\ ~NothingSent(input[c])
<1>1. holds[c] = 1 /\ \A d \in Conns : d # c => holds[d] = 0
  BY DEF HTTPIInv, HTTPTypeOK, OneHolder
<1>2. db[1] \in Seq(Conns)
  BY HTTPAssumption DEF HTTPIInv, HTTPTypeOK
<1>3. answer[c] = None /\ ~NothingSent(input[c])
  BY DEF HTTPIInv, ConnectionOK, Pending, AtStatement
<1>4. QED
  BY <1>1, <1>2, <1>3 DEF HasSchema

\* The end of a statement, whatever it did to the table.
LEMMA FinishStep ==
  ASSUME HTTPIInv, NEW c \in Conns, pc[c] \in {"create", "list", "get"}, holds[c] # 0,
         holds' = [holds EXCEPT ![c] = 0],
         answer' \in [Conns -> {None} \cup Answers],
         answer'[c] \in Answers, answer'[c].status # 0,
         answer'[c].status = 500 => c \in faults',
         \A d \in Conns : d # c => answer'[d] = answer[d],
         pc' = [pc EXCEPT ![c] = "write"],
         UNCHANGED <<input, scanned, resp>>,
         faults \subseteq faults',
         db' \in [Pool -> Seq(Conns)],
         \A i \in DOMAIN db'[1] : CompleteOrder(input[db'[1][i]])
  PROVE  HTTPIInv'
<1>1. /\ holds[c] = 1 /\ \A d \in Conns : d # c => holds[d] = 0
      /\ answer[c] = None /\ ~NothingSent(input[c])
  BY Holding
<1>2. input' = input /\ scanned' = scanned /\ resp' = resp
  OBVIOUS
<1>3. holds' \in [Conns -> {0, 1}] /\ holds'[c] = 0 /\ \A d \in Conns : holds'[d] = 0
  BY <1>1, <1>2 DEF HTTPIInv, HTTPTypeOK
<1>4. pc' \in [Conns -> PCs] /\ ConnectionOK(c)' /\ \A d \in Conns : d # c => pc'[d] = pc[d]
  <2>1. /\ pc[c] \notin {"write", "closed"}
        /\ answer'[c].status = 500 => c \in faults' \/ BrokenOff(input[c])
    OBVIOUS
  <2>2. QED
    BY <2>1, <1>1, <1>2, <1>3, DecideStep, Zenon
<1>5. HTTPTypeOK' /\ OneHolder'
  BY <1>2, <1>3, <1>4 DEF HTTPIInv, HTTPTypeOK, OneHolder
<1>6. ASSUME NEW d \in Conns, d # c PROVE ConnectionOK(d)'
  <2>1. ConnectionOK(d) /\ holds'[d] = holds[d] /\ holds[d] # 1
    BY <1>1, <1>3, <1>6 DEF HTTPIInv
  <2>2. scanned'[d] = scanned[d] /\ resp'[d] = resp[d] /\ pc'[d] = pc[d] /\ answer'[d] = answer[d]
    BY <1>2, <1>4, <1>6
  <2>3. QED
    BY <2>1, <2>2, <1>2, OtherConnection
<1>7. QED
  BY <1>2, <1>4, <1>5, <1>6 DEF HTTPIInv

\* The same for an answer with the given status and rows.
LEMMA FinishWith ==
  ASSUME HTTPIInv, NEW c \in Conns, pc[c] \in {"create", "list", "get"}, holds[c] # 0,
         NEW status \in Nat, status # 0, status = 500 => c \in faults', NEW rows \in RowSeqs,
         holds' = [holds EXCEPT ![c] = 0],
         answer' = [answer EXCEPT ![c] = [status |-> status, rows |-> rows]],
         pc' = [pc EXCEPT ![c] = "write"],
         UNCHANGED <<input, scanned, resp>>,
         faults \subseteq faults',
         db' \in [Pool -> Seq(Conns)],
         \A i \in DOMAIN db'[1] : CompleteOrder(input[db'[1][i]])
  PROVE  HTTPIInv'
<1>1. rows \in {None} \cup RowSeqs
  OBVIOUS
<1>2. /\ answer' \in [Conns -> {None} \cup Answers] /\ answer'[c] \in Answers
      /\ answer'[c].status = status
      /\ \A d \in Conns : d # c => answer'[d] = answer[d]
  BY <1>1, DecideResult, Zenon
<1>3. answer'[c].status # 0 /\ (answer'[c].status = 500 => c \in faults')
  BY <1>2
<1>4. QED
  BY <1>2, <1>3, FinishStep, Zenon

\* The table with one more order of a goroutine that was asked to create it.
LEMMA InsertKeepsOrders ==
  ASSUME HTTPIInv, NEW c \in Conns, pc[c] = "create",
         db' = [db EXCEPT ![1] = Append(@, c)]
  PROVE  /\ db' \in [Pool -> Seq(Conns)] /\ db'[1] = Append(db[1], c)
         /\ \A i \in DOMAIN db'[1] : CompleteOrder(input[db'[1][i]])
<1>1. /\ db \in [Pool -> Seq(Conns)] /\ 1 \in Pool /\ CompleteOrder(input[c])
      /\ \A i \in DOMAIN db[1] : CompleteOrder(input[db[1][i]])
  BY HTTPAssumption DEF HTTPIInv, HTTPTypeOK, ConnectionOK, Pending
<1>2. db[1] \in Seq(Conns) /\ db'[1] = Append(db[1], c)
  BY <1>1
<1>3. db' \in [Pool -> Seq(Conns)]
  BY <1>1, <1>2
<1>4. ASSUME NEW i \in DOMAIN db'[1] PROVE CompleteOrder(input[db'[1][i]])
  <2>1. (i \in DOMAIN db[1] /\ db'[1][i] = db[1][i]) \/ db'[1][i] = c
    BY <1>2
  <2>2. QED
    BY <2>1, <1>1
<1>5. QED
  BY <1>2, <1>3, <1>4

\* Store.Create.
LEMMA StoreCreateStep ==
  ASSUME HTTPIInv, NEW c \in Conns, StoreCreate(c)
  PROVE  HTTPIInv' /\ Book!Create(c)
<1>1. pc[c] = "create" /\ holds[c] # 0 /\ faults' = faults
  BY DEF StoreCreate
<1>2. /\ holds[c] = 1 /\ HasSchema(holds[c]) /\ answer[c] = None
      /\ db[1] \in Seq(Conns) /\ Len(db[1]) \in Nat
  BY <1>1, Holding
<1>3. /\ db' = [db EXCEPT ![1] = Append(@, c)]
      /\ holds' = [holds EXCEPT ![c] = 0]
      /\ answer' = [answer EXCEPT ![c] = [status |-> 201, rows |-> <<<<Len(db[1]) + 1, c>>>>]]
      /\ pc' = [pc EXCEPT ![c] = "write"]
      /\ UNCHANGED <<input, scanned, resp>>
  BY <1>2 DEF StoreCreate, Finish, Decide
<1>4. /\ db' \in [Pool -> Seq(Conns)] /\ db'[1] = Append(db[1], c)
      /\ \A i \in DOMAIN db'[1] : CompleteOrder(input[db'[1][i]])
  BY <1>1, <1>3, InsertKeepsOrders
<1>5. <<<<Len(db[1]) + 1, c>>>> \in RowSeqs
  BY <1>2 DEF RowSeqs
<1>6. HTTPIInv'
  <2> DEFINE rows == <<<<Len(db[1]) + 1, c>>>>
  <2>1. PICK s \in Nat : s = 201 /\ s # 0 /\ s # 500
    OBVIOUS
  <2>2. /\ answer' = [answer EXCEPT ![c] = [status |-> s, rows |-> rows]] /\ rows \in RowSeqs
        /\ pc[c] \in {"create", "list", "get"} /\ faults \subseteq faults'
    BY <2>1, <1>1, <1>3, <1>5
  <2> HIDE DEF rows
  <2>3. s # 0 /\ (s = 500 => c \in faults')
    BY <2>1
  <2>4. QED
    BY <2>2, <2>3, <1>1, <1>3, <1>4, FinishWith, Zenon
<1>7. Book!Create(c)
  BY <1>2, <1>3, <1>4 DEF Book!Create, Book!Answer
<1>8. QED
  BY <1>6, <1>7

\* Store.List reads one more row of a table that has not changed since it
\* began.
LEMMA StoreListNextStep ==
  ASSUME HTTPIInv, NEW c \in Conns, StoreListNext(c)
  PROVE  HTTPIInv'
<1> DEFINE id == Len(scanned[c]) + 1
<1>1. /\ pc[c] = "list" /\ holds[c] # 0 /\ Len(scanned[c]) < Len(db[holds[c]])
      /\ scanned' = [scanned EXCEPT ![c] = Append(@, <<id, db[holds[c]][id]>>)]
      /\ UNCHANGED <<input, pc, holds, answer, resp, db, faults>>
  BY DEF StoreListNext
<1>2. holds[c] = 1 /\ db[1] \in Seq(Conns)
  BY <1>1, Holding
<1>3. /\ scanned \in [Conns -> RowSeqs] /\ scanned[c] \in Seq(Nat \X Conns)
      /\ Pending(c) /\ Decided(c) /\ HoldsAtStatement(c)
  BY DEF HTTPIInv, HTTPTypeOK, ConnectionOK, RowSeqs
<1>4. ScannedRows(scanned[c], db[1])
  BY <1>1, <1>2, <1>3 DEF Pending
<1>5. id \in 1 .. Len(db[1]) /\ <<id, db[1][id]>> \in Nat \X Conns
  BY <1>1, <1>2, <1>3
<1>6. /\ scanned'[c] = Append(scanned[c], <<id, db[1][id]>>) /\ scanned'[c] \in Seq(Nat \X Conns)
      /\ scanned' \in [Conns -> RowSeqs] /\ \A d \in Conns : d # c => scanned'[d] = scanned[d]
  BY <1>1, <1>2, <1>3, <1>5 DEF RowSeqs
<1>7. ScannedRows(scanned'[c], db[1])
  <2>1. Len(scanned'[c]) = id
    BY <1>3, <1>6
  <2>2. ASSUME NEW i \in 1 .. id PROVE scanned'[c][i] = <<i, db[1][i]>>
    <3>1. CASE i = id
      BY <3>1, <1>3, <1>6
    <3>2. CASE i # id
      <4>1. i \in 1 .. Len(scanned[c])
        BY <3>2, <1>3
      <4>2. scanned'[c][i] = scanned[c][i]
        BY <4>1, <1>3, <1>6
      <4>3. QED
        BY <4>1, <4>2, <1>4 DEF ScannedRows
    <3>3. QED
      BY <3>1, <3>2
  <2>3. QED
    BY <2>1, <2>2, <1>5 DEF ScannedRows
<1>8. HTTPTypeOK' /\ OneHolder'
  BY <1>1, <1>6 DEF HTTPIInv, HTTPTypeOK, OneHolder
<1>9. ConnectionOK(c)'
  BY <1>1, <1>2, <1>3, <1>7 DEF ConnectionOK, Pending, Decided, HoldsAtStatement, AtStatement
<1>10. ASSUME NEW d \in Conns, d # c PROVE ConnectionOK(d)'
  BY <1>1, <1>6, <1>10, OtherConnection DEF HTTPIInv
<1>11. QED
  BY <1>1, <1>8, <1>9, <1>10 DEF HTTPIInv

\* Store.List is through: it answers with the whole table as it is now.
LEMMA StoreListDoneStep ==
  ASSUME HTTPIInv, NEW c \in Conns, StoreListDone(c)
  PROVE  HTTPIInv' /\ Book!List(c)
<1>1. pc[c] = "list" /\ holds[c] # 0 /\ faults' = faults /\ db' = db
  BY DEF StoreListDone
<1>2. /\ holds[c] = 1 /\ HasSchema(holds[c]) /\ answer[c] = None /\ db[1] \in Seq(Conns)
  BY <1>1, Holding
<1>3. /\ Len(scanned[c]) = Len(db[1])
      /\ holds' = [holds EXCEPT ![c] = 0]
      /\ answer' = [answer EXCEPT ![c] = [status |-> 200, rows |-> scanned[c]]]
      /\ pc' = [pc EXCEPT ![c] = "write"]
      /\ UNCHANGED <<input, scanned, resp>>
  BY <1>2 DEF StoreListDone, Finish, Decide
<1>4. /\ db \in [Pool -> Seq(Conns)] /\ \A i \in DOMAIN db[1] : CompleteOrder(input[db[1][i]])
      /\ scanned[c] \in Seq(Nat \X Conns) /\ scanned[c] \in RowSeqs /\ Pending(c)
  BY DEF HTTPIInv, HTTPTypeOK, RowSeqs, ConnectionOK
<1>5. ScannedRows(scanned[c], db[1])
  BY <1>1, <1>2, <1>4 DEF Pending
<1>6. scanned[c] = Book!Rows(db[1])
  <2>1. DOMAIN scanned[c] = DOMAIN db[1] /\ DOMAIN db[1] = 1 .. Len(scanned[c])
    BY <1>2, <1>3, <1>4
  <2>2. scanned[c] = [i \in DOMAIN scanned[c] |-> scanned[c][i]]
    BY <1>4
  <2>3. \A i \in DOMAIN scanned[c] : scanned[c][i] = <<i, db[1][i]>>
    BY <2>1, <1>5 DEF ScannedRows
  <2>4. QED
    BY <2>1, <2>2, <2>3 DEF Book!Rows
<1>7. HTTPIInv'
  <2>1. PICK s \in Nat : s = 200 /\ s # 0 /\ s # 500
    OBVIOUS
  <2>2. /\ answer' = [answer EXCEPT ![c] = [status |-> s, rows |-> scanned[c]]]
        /\ pc[c] \in {"create", "list", "get"} /\ faults \subseteq faults'
        /\ db' \in [Pool -> Seq(Conns)] /\ \A i \in DOMAIN db'[1] : CompleteOrder(input[db'[1][i]])
    BY <2>1, <1>1, <1>3, <1>4
  <2>3. s # 0 /\ (s = 500 => c \in faults')
    BY <2>1
  <2>4. QED
    BY <2>2, <2>3, <1>1, <1>3, <1>4, FinishWith, Zenon
<1>8. Book!List(c)
  BY <1>1, <1>2, <1>3, <1>6 DEF Book!List, Book!Answer
<1>9. QED
  BY <1>7, <1>8

\* Store.Get.
LEMMA StoreGetStep ==
  ASSUME HTTPIInv, NEW c \in Conns, StoreGet(c)
  PROVE  HTTPIInv' /\ \E n \in 1 .. Len(db[1]) + 1 : Book!Get(c, n)
<1> DEFINE id == OrderId(input[c].lines[1][3])
<1>1. pc[c] = "get" /\ holds[c] # 0 /\ faults' = faults /\ db' = db
  BY DEF StoreGet
<1>2. /\ holds[c] = 1 /\ HasSchema(holds[c]) /\ answer[c] = None
      /\ db[1] \in Seq(Conns) /\ Len(db[1]) \in Nat
  BY <1>1, Holding
<1>3. IF id \in DOMAIN db[1] THEN Finish(c, 200, <<<<id, db[1][id]>>>>) ELSE Finish(c, 404, <<>>)
  BY <1>2 DEF StoreGet
<1>4. db \in [Pool -> Seq(Conns)] /\ \A i \in DOMAIN db[1] : CompleteOrder(input[db[1][i]])
  BY DEF HTTPIInv, HTTPTypeOK
<1> HIDE DEF id
<1>5. CASE id \in DOMAIN db[1]
  <2>1. /\ holds' = [holds EXCEPT ![c] = 0]
        /\ answer' = [answer EXCEPT ![c] = [status |-> 200, rows |-> <<<<id, db[1][id]>>>>]]
        /\ pc' = [pc EXCEPT ![c] = "write"]
        /\ UNCHANGED <<input, scanned, resp>>
    BY <1>2, <1>3, <1>5 DEF Finish, Decide
  <2>2. <<<<id, db[1][id]>>>> \in RowSeqs /\ id \in 1 .. Len(db[1]) + 1
    BY <1>2, <1>5 DEF RowSeqs
  <2>3. HTTPIInv'
    <3> DEFINE rows == <<<<id, db[1][id]>>>>
    <3>1. PICK s \in Nat : s = 200 /\ s # 0 /\ s # 500
      OBVIOUS
    <3>2. /\ answer' = [answer EXCEPT ![c] = [status |-> s, rows |-> rows]] /\ rows \in RowSeqs
          /\ pc[c] \in {"create", "list", "get"} /\ faults \subseteq faults'
          /\ db' \in [Pool -> Seq(Conns)] /\ \A i \in DOMAIN db'[1] : CompleteOrder(input[db'[1][i]])
      BY <3>1, <2>1, <2>2, <1>1, <1>4
    <3> HIDE DEF rows
    <3>3. s # 0 /\ (s = 500 => c \in faults')
      BY <3>1
    <3>4. QED
      BY <3>2, <3>3, <2>1, <1>1, FinishWith, Zenon
  <2>4. Book!Get(c, id)
    BY <2>1, <1>1, <1>2, <1>5 DEF Book!Get, Book!Answer
  <2>5. QED
    BY <2>2, <2>3, <2>4
<1>6. CASE id \notin DOMAIN db[1]
  <2>1. /\ holds' = [holds EXCEPT ![c] = 0]
        /\ answer' = [answer EXCEPT ![c] = [status |-> 404, rows |-> <<>>]]
        /\ pc' = [pc EXCEPT ![c] = "write"]
        /\ UNCHANGED <<input, scanned, resp>>
    BY <1>2, <1>3, <1>6 DEF Finish, Decide
  <2>2. <<>> \in RowSeqs /\ Len(db[1]) + 1 \notin DOMAIN db[1] /\ Len(db[1]) + 1 \in 1 .. Len(db[1]) + 1
    BY <1>2 DEF RowSeqs
  <2>3. HTTPIInv'
    <3> DEFINE rows == <<>>
    <3>1. PICK s \in Nat : s = 404 /\ s # 0 /\ s # 500
      OBVIOUS
    <3>2. /\ answer' = [answer EXCEPT ![c] = [status |-> s, rows |-> rows]] /\ rows \in RowSeqs
          /\ pc[c] \in {"create", "list", "get"} /\ faults \subseteq faults'
          /\ db' \in [Pool -> Seq(Conns)] /\ \A i \in DOMAIN db'[1] : CompleteOrder(input[db'[1][i]])
      BY <3>1, <2>1, <2>2, <1>1, <1>4
    <3> HIDE DEF rows
    <3>3. s # 0 /\ (s = 500 => c \in faults')
      BY <3>1
    <3>4. QED
      BY <3>2, <3>3, <2>1, <1>1, FinishWith, Zenon
  <2>4. Book!Get(c, Len(db[1]) + 1)
    BY <2>1, <2>2, <1>1, <1>2 DEF Book!Get, Book!Answer
  <2>5. QED
    BY <2>2, <2>3, <2>4
<1>7. QED
  BY <1>5, <1>6

\* The database fails, with or without the order in the table.
LEMMA StoreFailsStep ==
  ASSUME HTTPIInv, NEW c \in Conns, StoreFails(c)
  PROVE  HTTPIInv' /\ (Book!Refuse(c) \/ Book!CreateUnconfirmed(c))
<1>1. pc[c] \in {"create", "list", "get"} /\ holds[c] # 0 /\ faults' = faults \cup {c}
  BY DEF StoreFails
<1>2. holds[c] = 1 /\ HasSchema(holds[c]) /\ answer[c] = None
  BY <1>1, Holding
<1>3. /\ holds' = [holds EXCEPT ![c] = 0]
      /\ answer' = [answer EXCEPT ![c] = [status |-> 500, rows |-> <<>>]]
      /\ pc' = [pc EXCEPT ![c] = "write"]
      /\ UNCHANGED <<input, scanned, resp>>
  BY <1>2 DEF StoreFails, Finish, Decide
<1>c. \/ db' = db
      \/ pc[c] = "create" /\ db' = [db EXCEPT ![1] = Append(@, c)]
  <2>1. \/ UNCHANGED db
        \/ pc[c] = "create" /\ db' = [db EXCEPT ![holds[c]] = Append(@, c)]
    BY Zenon DEF StoreFails
  <2>2. CASE UNCHANGED db
    BY <2>2
  <2>3. CASE pc[c] = "create" /\ db' = [db EXCEPT ![holds[c]] = Append(@, c)]
    BY <2>3, <1>2
  <2>4. QED
    BY <2>1, <2>2, <2>3
<1>s. ASSUME db' \in [Pool -> Seq(Conns)],
             \A i \in DOMAIN db'[1] : CompleteOrder(input[db'[1][i]])
      PROVE  HTTPIInv'
  <2> DEFINE rows == <<>>
  <2>1. PICK s \in Nat : s = 500 /\ s # 0
    OBVIOUS
  <2>2. /\ answer' = [answer EXCEPT ![c] = [status |-> s, rows |-> rows]] /\ rows \in RowSeqs
        /\ faults \subseteq faults' /\ c \in faults'
    BY <2>1, <1>1, <1>3 DEF RowSeqs
  <2> HIDE DEF rows
  <2>3. s # 0
    BY <2>1
  <2>4. QED
    BY <2>2, <2>3, <1>1, <1>3, <1>s, FinishWith, ZenonT(40)
<1>4. db \in [Pool -> Seq(Conns)] /\ \A i \in DOMAIN db[1] : CompleteOrder(input[db[1][i]])
  BY DEF HTTPIInv, HTTPTypeOK
<1>6. CASE db' = db
  <2>1. HTTPIInv'
    BY <1>4, <1>6, <1>s
  <2>2. Book!Refuse(c)
    BY <1>2, <1>3, <1>6 DEF Book!Refuse, Book!Answer
  <2>3. QED
    BY <2>1, <2>2
<1>7. CASE pc[c] = "create" /\ db' = [db EXCEPT ![1] = Append(@, c)]
  <2>1. /\ db' \in [Pool -> Seq(Conns)] /\ db'[1] = Append(db[1], c)
        /\ \A i \in DOMAIN db'[1] : CompleteOrder(input[db'[1][i]])
    BY <1>7, InsertKeepsOrders
  <2>2. HTTPIInv'
    BY <2>1, <1>s
  <2>3. Book!CreateUnconfirmed(c)
    BY <2>1, <1>2, <1>3 DEF Book!CreateUnconfirmed, Book!Answer
  <2>4. QED
    BY <2>2, <2>3
<1>8. QED
  BY <1>6, <1>7, <1>c

------------------------------------------------------------------------------
(***************************************************************************)
(* The theorems.                                                           *)
(***************************************************************************)

\* A step that changes nothing keeps the invariant.
LEMMA HTTPStutter ==
  ASSUME HTTPIInv, UNCHANGED httpVars
  PROVE  HTTPIInv'
<1>1. HTTPTypeOK' /\ OneHolder'
  BY DEF HTTPIInv, HTTPTypeOK, OneHolder, httpVars
<1>2. ASSUME NEW d \in Conns PROVE ConnectionOK(d)'
  BY OtherConnection DEF HTTPIInv, httpVars
<1>3. QED
  BY <1>1, <1>2 DEF HTTPIInv, httpVars

\* What the book of orders sees of a step: one of its own, or nothing.
LEMMA HTTPStep ==
  ASSUME HTTPIInv, HTTPNext
  PROVE  HTTPIInv' /\ [Book!BookNext]_(Book!bookVars)
<1>1. PICK c \in Conns : Goroutine(c)
  BY DEF HTTPNext
<1>2. CASE TLSHandshake(c)
  BY <1>2, TLSHandshakeStep DEF TLSHandshake, Book!bookVars
<1>3. CASE Serve(c)
  <2>1. HTTPIInv' /\ db' = db
    BY <1>3, ServeStep DEF Serve
  <2>2. \/ answer' = answer
        \/ \E s \in {200, 400, 404, 405, 411, 413, 431, 500, 505} : Decide(c, s, None)
    BY <1>3, ServeStep
  <2>3. CASE answer' = answer
    BY <2>1, <2>3 DEF Book!bookVars
  <2>4. CASE \E s \in {200, 400, 404, 405, 411, 413, 431, 500, 505} : Decide(c, s, None)
    <3>1. PICK s \in {200, 400, 404, 405, 411, 413, 431, 500, 505} : Decide(c, s, None)
      BY <2>4
    <3>2. answer[c] = None
      BY <1>3 DEF Serve, HTTPIInv, ConnectionOK, Pending
    <3>3. answer' = [answer EXCEPT ![c] = [status |-> s, rows |-> None]]
      BY <3>1 DEF Decide
    <3>a. Book!Answer(c, s, None)
      BY <3>2, <3>3 DEF Book!Answer
    <3>b. \E status \in {200, 400, 404, 405, 411, 413, 431, 500, 505} : Book!Answer(c, status, None)
      BY <3>a, ZenonT(40)
    <3>4. Book!Refuse(c)
      BY <3>b, <2>1 DEF Book!Refuse
    <3>5. QED
      BY <2>1, <3>4 DEF Book!BookNext
  <2>5. QED
    BY <2>2, <2>3, <2>4
<1>4. CASE WriteResponse(c)
  BY <1>4, WriteResponseStep DEF WriteResponse, Book!bookVars
<1>5. CASE \E k \in Pool : AcquireConn(c, k)
  BY <1>5, AcquireConnStep DEF AcquireConn, Book!bookVars
<1>6. CASE StoreCreate(c)
  BY <1>6, StoreCreateStep DEF Book!BookNext
<1>7. CASE StoreListNext(c)
  BY <1>7, StoreListNextStep DEF StoreListNext, Book!bookVars
<1>8. CASE StoreListDone(c)
  BY <1>8, StoreListDoneStep DEF Book!BookNext
<1>9. CASE StoreGet(c)
  BY <1>9, StoreGetStep DEF Book!BookNext
<1>10. CASE StoreFails(c)
  BY <1>10, StoreFailsStep DEF Book!BookNext
<1>11. QED
  BY <1>1, <1>2, <1>3, <1>4, <1>5, <1>6, <1>7, <1>8, <1>9, <1>10 DEF Goroutine

\* The invariant holds in every state of every behaviour.
THEOREM HTTPInvariant == HTTPSpec => []HTTPIInv
<1>1. HTTPInit => HTTPIInv
  BY HTTPInitInv
<1>2. HTTPIInv /\ [HTTPNext]_httpVars => HTTPIInv'
  BY HTTPStep, HTTPStutter
<1>3. QED
  BY <1>1, <1>2, PTL DEF HTTPSpec

\* ReadRequest accepts exactly the requests that the grammar describes,
\* within the limits, and that have arrived whole: for every limit, every
\* number of lines and every way in which the stream may end.
THEOREM ParserAlwaysAcceptsWellFormed == HTTPSpec => []ParserAcceptsWellFormed
<1>1. HTTPIInv => ParserAcceptsWellFormed
  <2> SUFFICES ASSUME HTTPIInv, NEW c \in Conns, input[c] # None
               PROVE  ReadRequest(input[c]).err = "nil" <=> WellFormed(input[c])
    BY DEF ParserAcceptsWellFormed
  <2>1. IsInput(input[c])
    BY WorkloadAssumption DEF HTTPIInv, HTTPTypeOK
  <2>2. QED
    BY <2>1, ReadRequestResult
<1>2. QED
  BY <1>1, HTTPInvariant, PTL

\* Every order in the book was sent whole, by POST /orders.
THEOREM OrdersAlwaysComplete == HTTPSpec => []OrdersAreComplete
<1>1. HTTPIInv => OrdersAreComplete
  BY DEF HTTPIInv, OrdersAreComplete, CompleteOrder
<1>2. QED
  BY <1>1, HTTPInvariant, PTL

\* Serve leaves without a response only when the stream ended between two
\* lines of a request's head, and always when it ended before the first.
QuietOnlyInHead ==
  \A c \in Conns :
    pc[c] = "closed" => /\ resp[c] = 0 => EndedInHead(input[c])
                        /\ NothingSent(input[c]) => resp[c] = 0

\* How far Serve departs from its comment (QuietOnlyBeforeAnyBytes): besides
\* an empty stream only one cut exactly behind a line of the head goes
\* unanswered, never one cut inside a line or in the body.
THEOREM AlwaysQuietOnlyInHead == HTTPSpec => []QuietOnlyInHead
<1>1. HTTPIInv => QuietOnlyInHead
  BY DEF HTTPIInv, QuietOnlyInHead, ConnectionOK, Decided
<1>2. QED
  BY <1>1, HTTPInvariant, PTL

\* A 500 is answered only when the database failed in this request or the
\* client's stream broke off.
THEOREM ServerErrorsAlwaysHaveCause == HTTPSpec => []ServerErrorsHaveCause
<1>1. HTTPIInv => ServerErrorsHaveCause
  <2> SUFFICES ASSUME HTTPIInv, NEW c \in Conns, resp[c] = 500
               PROVE  c \in faults \/ BrokenOff(input[c])
    BY DEF ServerErrorsHaveCause, BrokenOff
  <2>1. pc[c] = "closed"
    BY DEF HTTPIInv, ConnectionOK, Pending, Decided
  <2>2. QED
    BY <2>1 DEF HTTPIInv, ConnectionOK, Decided
<1>2. QED
  BY <1>1, HTTPInvariant, PTL

\* The concurrent handlers implement one book of orders: every create, list
\* and lookup takes effect in one step, for any number of connections.
THEOREM HTTPImplementsOrderBook == HTTPSpec => ImplementsOrderBook
<1>1. HTTPInit => Book!BookInit
  BY HTTPAssumption DEF HTTPInit, Book!BookInit
<1>2. HTTPIInv /\ [HTTPNext]_httpVars => [Book!BookNext]_(Book!bookVars)
  <2>1. ASSUME UNCHANGED httpVars PROVE UNCHANGED Book!bookVars
    BY <2>1 DEF httpVars, Book!bookVars
  <2>2. QED
    BY <2>1, HTTPStep
<1>3. QED
  BY <1>1, <1>2, HTTPInvariant, PTL DEF HTTPSpec, ImplementsOrderBook, Book!BookSpec

=============================================================================
