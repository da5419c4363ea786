-------------------------------- MODULE X25519 --------------------------------
(***************************************************************************)
(* The key exchange of tls/x25519.go: two parties, each with a secret      *)
(* scalar, compute public values and from them a shared secret.  The       *)
(* Montgomery ladder runs one bit per step, over any prime field and       *)
(* Montgomery curve y^2 = x^3 + (4 a24 + 2) x^2 + x, so that small ones    *)
(* can be explored completely.  A little-endian byte string is the number  *)
(* it encodes.                                                             *)
(***************************************************************************)
EXTENDS Integers, Sequences

CONSTANTS
  Prime,      \* the field's prime, p in the code
  a24,
  Bits,       \* Prime < 2^Bits; the wire has one bit more (the code: 255 and 256)
  basepoint,
  Scalars,    \* secrets, as they are before clamping
  PeerValues  \* public values a peer may send without having computed them

ASSUME X25519Assumption ==
  /\ Prime \in Nat /\ Bits \in Nat /\ a24 \in 1 .. Prime - 1 /\ basepoint \in 1 .. Prime - 1
  /\ Prime > 2 /\ Prime < 2^Bits /\ Bits > 3

VARIABLES
  stage,      \* 1, 2: public values of both parties; 3, 4: their secrets; 5: done
  secret,     \* the two scalars
  public,     \* the two public values as they are on the wire
  shared,     \* what x25519 returned to each party
  t,          \* the ladder's next bit, Bits before the ladder starts
  x2, z2, x3, z3, swap,
  R           \* the points <<[m]Q, [m+1]Q>>, m being the bits processed so far

ladderVars == <<t, x2, z2, x3, z3, swap, R>>
xVars == <<stage, secret, public, shared, ladderVars>>

------------------------------------------------------------------------------
(***************************************************************************)
(* Field arithmetic, encoding and clamping.                                *)
(***************************************************************************)

feAdd(a, b) == (a + b) % Prime
feSub(a, b) == (a - b) % Prime
feMul(a, b) == (a * b) % Prime
feSquare(a) == feMul(a, a)

\* Fermat: the power Prime - 2, so that the inverse of 0 is 0.
feInverse(a) ==
  LET power[n \in 0 .. Prime - 2] == IF n = 0 THEN 1 ELSE feMul(a, power[n - 1]) IN power[Prime - 2]

\* The highest bit is ignored; the number may exceed Prime.
decodeUCoordinate(u) == u % 2^Bits
encodeUCoordinate(a) == a % Prime

\* Seeded fault: the low bits stay.
clampScalar_KeepsLowBits(k) == 2^(Bits - 1) + (k % 2^(Bits - 1))

clampScalar(k) == 2^(Bits - 1) + 8 * ((k % 2^(Bits - 1)) \div 8)

------------------------------------------------------------------------------
(***************************************************************************)
(* The points themselves, for reference: pairs <<x, y>> on the curve       *)
(* B y^2 = x^3 + A x^2 + x, where B is 1 or, for the x that are not on the  *)
(* curve, a non-square, and the identity.                                  *)
(***************************************************************************)

Identity == <<>>
CurveA == 4 * a24 + 2
Field == 0 .. Prime - 1
NonSquare == CHOOSE b \in Field : b # 0 /\ \A y \in Field : feSquare(y) # b
Divide(a, b) == CHOOSE c \in Field : feMul(b, c) = a % Prime

Rhs(x) == (x * x * x + CurveA * x * x + x) % Prime
Twist(x) == IF \E y \in Field : feSquare(y) = Rhs(x) THEN 1 ELSE NonSquare
PointOf(u) == LET x == u % Prime IN <<x, CHOOSE y \in Field : feMul(Twist(x), feSquare(y)) = Rhs(x)>>

AddPoints(B, P1, P2) ==
  LET slope == IF P1 = P2
               THEN Divide(3 * P1[1] * P1[1] + 2 * CurveA * P1[1] + 1, 2 * B * P1[2])
               ELSE Divide(P2[2] - P1[2], P2[1] - P1[1])
      x == (B * slope * slope - CurveA - P1[1] - P2[1]) % Prime
  IN IF P1 = Identity THEN P2
     ELSE IF P2 = Identity THEN P1
     ELSE IF P1[1] = P2[1] /\ (P1[2] + P2[2]) % Prime = 0 THEN Identity
     ELSE <<x, (slope * (P1[1] - x) - P1[2]) % Prime>>

------------------------------------------------------------------------------

Party == IF stage % 2 = 1 THEN 1 ELSE 2
InputU == IF stage <= 2 THEN basepoint ELSE public[3 - Party]
x1 == decodeUCoordinate(InputU)
Bit == (clampScalar(secret[Party]) \div 2^t) % 2

XInit ==
  /\ \/ stage = 1 /\ secret \in Scalars \X Scalars /\ public = <<0, 0>>
     \/ stage = 3 /\ \E k \in Scalars, u \in PeerValues : secret = <<k, k>> /\ public = <<-1, u>>
  /\ shared = <<-1, -1>>
  /\ t = Bits /\ x2 = 0 /\ z2 = 0 /\ x3 = 0 /\ z3 = 0 /\ swap = 0 /\ R = <<>>

\* The initialisations of scalarMult.
LadderStart ==
  /\ stage <= 4 /\ t = Bits
  /\ t' = Bits - 1 /\ x2' = 1 /\ z2' = 0 /\ x3' = x1 /\ z3' = 1 /\ swap' = 0
  /\ R' = <<Identity, PointOf(x1)>>
  /\ UNCHANGED <<stage, secret, public, shared>>

\* Seeded fault: the pending swap is forgotten when the bit changes back.
NeedSwap_IgnoresPending == Bit = 1

NeedSwap == swap # Bit

\* One turn of the loop, with the RFC's names.
LadderStep ==
  /\ stage <= 4 /\ t \in 0 .. Bits - 1
  /\ LET X2 == IF NeedSwap THEN x3 ELSE x2
         Z2 == IF NeedSwap THEN z3 ELSE z2
         X3 == IF NeedSwap THEN x2 ELSE x3
         Z3 == IF NeedSwap THEN z2 ELSE z3
         A == feAdd(X2, Z2)    AA == feSquare(A)
         B == feSub(X2, Z2)    BB == feSquare(B)
         E == feSub(AA, BB)
         DA == feMul(feSub(X3, Z3), A)
         CB == feMul(feAdd(X3, Z3), B)
     IN /\ x3' = feSquare(feAdd(DA, CB))
        /\ z3' = feMul(x1, feSquare(feSub(DA, CB)))
        /\ x2' = feMul(AA, BB)
        /\ z2' = feMul(E, feAdd(AA, feMul(a24, E)))
  /\ swap' = Bit /\ t' = t - 1
  /\ LET B == Twist(x1 % Prime)
         both == AddPoints(B, R[1], R[2])
     IN R' = IF Bit = 0 THEN <<AddPoints(B, R[1], R[1]), both>> ELSE <<both, AddPoints(B, R[2], R[2])>>
  /\ UNCHANGED <<stage, secret, public, shared>>

\* The last swap and the projection; x25519 refuses a zero (-2 stands for
\* errZeroSharedSecret).  A peer with a value of its own has no turn.
LadderEnd ==
  /\ stage <= 4 /\ t = -1
  /\ LET x == IF swap = 1 THEN x3 ELSE x2
         z == IF swap = 1 THEN z3 ELSE z2
         out == encodeUCoordinate(feMul(x, feInverse(z)))
     IN IF stage <= 2 THEN public' = [public EXCEPT ![Party] = out] /\ UNCHANGED shared
        ELSE shared' = [shared EXCEPT ![Party] = IF out = 0 THEN -2 ELSE out] /\ UNCHANGED public
  /\ stage' = IF stage = 3 /\ public[1] = -1 THEN 5 ELSE stage + 1
  /\ t' = Bits
  /\ UNCHANGED <<secret, x2, z2, x3, z3, swap, R>>

XNext == LadderStart \/ LadderStep \/ LadderEnd

XSpec == XInit /\ [][XNext]_xVars

------------------------------------------------------------------------------

\* (x : z) stands for a point.
Stands(x, z, P) == IF P = Identity THEN z = 0 /\ x # 0 ELSE z # 0 /\ x % Prime = feMul(P[1], z)

\* The ladder's two projective points are [m]Q and [m+1]Q after every bit:
\* "the difference R1 - R0 is always equal to the input point" also for
\* inputs off the curve (on its twist), above Prime or with the high bit set.
LadderInvariant ==
  stage <= 4 /\ t < Bits /\ x1 % Prime # 0 =>
    /\ R[2] = AddPoints(Twist(x1 % Prime), R[1], PointOf(x1))
    /\ Stands(IF swap = 1 THEN x3 ELSE x2, IF swap = 1 THEN z3 ELSE z2, R[1])
    /\ Stands(IF swap = 1 THEN x2 ELSE x3, IF swap = 1 THEN z2 ELSE z3, R[2])

\* Two parties end with the same secret, or both with an error; and a public
\* value of low order, whose eightfold is the identity, is always refused.
LowOrder(u) ==
  LET x == decodeUCoordinate(u) % Prime
      double(P) == AddPoints(Twist(x), P, P)
  IN double(double(double(PointOf(x)))) = Identity
SecretsAgree ==
  stage = 5 /\ shared[1] # -1 =>
    /\ shared[2] # -1 => shared[1] = shared[2]
    /\ LowOrder(public[2]) => shared[1] = -2

=============================================================================
