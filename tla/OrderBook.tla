------------------------------ MODULE OrderBook ------------------------------
(***************************************************************************)
(* What the orders service promises: one book of orders, numbered from 1   *)
(* in the order in which they were entered, and requests that take effect  *)
(* one at a time.  A caller told "201" has its order in the book under the *)
(* number it was told, a list is the whole book, a lookup finds exactly    *)
(* the orders that are there.                                              *)
(***************************************************************************)
EXTENDS Integers, Sequences

CONSTANTS Conns, None

VARIABLES
  book,     \* the orders; each is named after the connection it came from
  answer    \* per connection, [status, rows], None while there is none;
            \* rows is None when the book was not asked

bookVars == <<book, answer>>

Rows(b) == [i \in DOMAIN b |-> <<i, b[i]>>]

BookInit == book = <<>> /\ answer = [c \in Conns |-> None]

Answer(c, status, rows) ==
  /\ answer[c] = None
  /\ answer' = [answer EXCEPT ![c] = [status |-> status, rows |-> rows]]

Create(c) ==
  /\ book' = Append(book, c)
  /\ Answer(c, 201, <<<<Len(book) + 1, c>>>>)

\* The order is entered, but the caller is told that something went wrong.
CreateUnconfirmed(c) ==
  /\ book' = Append(book, c)
  /\ Answer(c, 500, <<>>)

List(c) == Answer(c, 200, Rows(book)) /\ UNCHANGED book

Get(c, id) ==
  /\ IF id \in DOMAIN book THEN Answer(c, 200, <<<<id, book[id]>>>>)
                           ELSE Answer(c, 404, <<>>)
  /\ UNCHANGED book

\* An answer that says nothing about the book, or that asking it has failed.
Refuse(c) ==
  /\ \/ \E status \in {200, 400, 404, 405, 411, 413, 431, 500, 505} : Answer(c, status, None)
     \/ Answer(c, 500, <<>>)
  /\ UNCHANGED book

BookNext ==
  \E c \in Conns : Create(c) \/ CreateUnconfirmed(c) \/ List(c) \/ Refuse(c)
                     \/ \E id \in 1 .. Len(book) + 1 : Get(c, id)

BookSpec == BookInit /\ [][BookNext]_bookVars

=============================================================================
