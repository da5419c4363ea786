---------------------------- MODULE SlidingWindow ----------------------------
(***************************************************************************)
(* What the send half of a connection promises, with no sequence-number    *)
(* arithmetic, no queue and no timer: a byte stream with three marks on    *)
(* it.  Bytes below una are acknowledged, bytes from una to nxt are in     *)
(* flight, bytes from nxt to written wait for the window.  The marks only  *)
(* move forward, and a step sends exactly the bytes that the peer's window *)
(* has room for.  The FIN takes one position, after the last byte.         *)
(***************************************************************************)
EXTENDS Integers

CONSTANT MaxWindow

VARIABLES
  una,       \* the peer has acknowledged everything before this offset
  nxt,       \* everything before this offset has been sent
  written,   \* the application has written everything before this offset
  wnd,       \* the window that the peer advertises
  fin,       \* the FIN's position is counted in nxt
  over       \* the stream was given up: nothing is promised any more

windowVars == <<una, nxt, written, wnd, fin, over>>

Init ==
  /\ una = 0 /\ nxt = 0 /\ written = 0
  /\ wnd \in 0 .. MaxWindow
  /\ fin = FALSE /\ over = FALSE

\* nxt moves as far as the window reaches, and never back when it shrinks.
SendWhatFits ==
  LET limit == IF una' + wnd' <= written' THEN una' + wnd' ELSE written'
  IN nxt' = IF nxt <= limit THEN limit ELSE nxt

Write ==
  /\ ~fin
  /\ written' >= written
  /\ SendWhatFits
  /\ UNCHANGED <<una, wnd, fin, over>>

Ack ==
  /\ una < una' /\ una' <= nxt
  /\ wnd' \in 0 .. MaxWindow
  /\ SendWhatFits
  /\ UNCHANGED <<written, fin, over>>

Fin ==
  /\ ~fin /\ nxt = written
  /\ fin' = TRUE /\ nxt' = nxt + 1
  /\ UNCHANGED <<una, written, wnd, over>>

GiveUp == over' = TRUE

Next == (~over /\ (Write \/ Ack \/ Fin)) \/ GiveUp

Spec == Init /\ [][Next]_windowVars

=============================================================================
