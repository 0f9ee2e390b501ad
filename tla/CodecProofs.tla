---------------------------- MODULE CodecProofs ----------------------------
(***************************************************************************)
(* For every width, limit, filter size and set of messages, and every      *)
(* compression that loses nothing: what is read is what was written, in    *)
(* order, wherever the connection breaks; reading ends for cause; and a    *)
(* filter knows what it was made of.                                       *)
(*                                                                         *)
(* From the bottom: a number is the sum of its digits; a run of bytes      *)
(* stands at a place of another, or is cut there; each decoder gives back  *)
(* what its encoder wrote, from any place it stands at; and a frame that   *)
(* is cut short is never taken for another.  Then the wire holds, from the *)
(* next message on, the frames of what was sent, but for what was lost.    *)
(*                                                                         *)
(* Powers, sums, programs and lists of runs are recursive functions and    *)
(* folds: each gets its equations from a function that is shown to exist,  *)
(* as no rule of induction with a predicate for a parameter can be used.   *)
(***************************************************************************)
EXTENDS Codec, TLAPS, FiniteSetTheorems, WellFoundedInduction

-----------------------------------------------------------------------------
(* Natural numbers *)

\* A set of natural numbers has a least one.
LEMMA LeastNumber ==
  ASSUME NEW T \in SUBSET Nat, T # {}
  PROVE  \E m \in T : \A k \in T : m <= k
<1>1. PICK m \in T : \A k \in T : ~ (<<k, m>> \in OpToRel(<, Nat))
  BY NatLessThanWellFounded, WFMin
<1>2. \A k \in T : ~ (k < m)
  BY <1>1 DEF OpToRel
<1> QED
  BY <1>2

\* Induction up to n, with a set in place of a predicate.
LEMMA UpTo ==
  ASSUME NEW n \in Nat, NEW Good, 0 \in Good,
         \A k \in 0 .. n - 1 : k \in Good => k + 1 \in Good
  PROVE  \A k \in 0 .. n : k \in Good
<1> DEFINE Bads == {k \in 0 .. n : k \notin Good}
<1>1. ASSUME Bads # {} PROVE FALSE
  <2>1. PICK m \in Bads : \A k \in Bads : m <= k
    <3> Bads \in SUBSET Nat
      OBVIOUS
    <3> HIDE DEF Bads
    <3> QED
      BY <1>1, LeastNumber
  <2>2. m \in 0 .. n /\ m # 0
    OBVIOUS
  <2>3. m - 1 \in 0 .. n - 1 /\ m - 1 \notin Bads
    BY <2>1, <2>2
  <2>4. m - 1 \in Good
    BY <2>2, <2>3
  <2> QED
    BY <2>2, <2>3, <2>4
<1> QED
  BY <1>1

\* Quotient and remainder.
LEMMA DivMod ==
  ASSUME NEW w \in Nat, w > 0, NEW v \in Nat, NEW q, q = v \div w, NEW r, r = v % w
  PROVE  q \in Nat /\ r \in 0 .. w - 1 /\ v = w * q + r
<1>1. v = w * q + r
  OBVIOUS
<1>2. q \in Nat
  OBVIOUS
<1>3. r \in 0 .. w - 1
  OBVIOUS
<1> QED
  BY <1>1, <1>2, <1>3

\* Of two multiples of w less than w apart, both are the same.
LEMMA SameMultiple ==
  ASSUME NEW w \in Nat, w > 0, NEW q \in Nat, NEW p \in Nat, NEW r \in 0 .. w - 1,
         NEW t \in 0 .. w - 1, w * q + r = w * p + t
  PROVE  q = p /\ r = t
<1>1. CASE q > p
  <2>1. PICK d \in Nat : q = p + 1 + d
    <3>1. q - p - 1 \in Nat /\ q = p + 1 + (q - p - 1)
      BY <1>1
    <3> QED
      BY <3>1
  <2>2. w * d \in Nat /\ w * p \in Nat
    OBVIOUS
  <2>3. w * q = w * p + w + w * d
    BY <2>1
  <2> QED
    BY <2>2, <2>3
<1>2. CASE p > q
  <2>1. PICK d \in Nat : p = q + 1 + d
    <3>1. p - q - 1 \in Nat /\ p = q + 1 + (p - q - 1)
      BY <1>2
    <3> QED
      BY <3>1
  <2>2. w * d \in Nat /\ w * q \in Nat
    OBVIOUS
  <2>3. w * p = w * q + w + w * d
    BY <2>1
  <2> QED
    BY <2>2, <2>3
<1>3. CASE p = q
  <2>1. w * p \in Nat
    OBVIOUS
  <2> QED
    BY <1>3, <2>1
<1> QED
  BY <1>1, <1>2, <1>3

\* A number written as a multiple and a rest has them for quotient and remainder.
LEMMA DivModOf ==
  ASSUME NEW w \in Nat, w > 0, NEW q \in Nat, NEW r \in 0 .. w - 1, NEW v, v = w * q + r
  PROVE  v \div w = q /\ v % w = r
<1>1. v \in Nat
  <2>1. w * q \in Nat
    OBVIOUS
  <2> QED
    BY <2>1
<1>2. PICK p : p = v \div w
  OBVIOUS
<1>3. PICK t : t = v % w
  OBVIOUS
<1>4. p \in Nat /\ t \in 0 .. w - 1 /\ v = w * p + t
  BY <1>1, <1>2, <1>3, DivMod
<1>5. w * q + r = w * p + t
  BY <1>4
<1>6. p = q /\ t = r
  <2>1. p \in Nat /\ t \in 0 .. w - 1
    BY <1>4
  <2>2. q = p /\ r = t
    BY <1>5, <2>1, SameMultiple
  <2> QED
    BY <2>2
<1> QED
  BY <1>2, <1>3, <1>6

\* What is below the divisor is its own rest.
LEMMA SmallMod ==
  ASSUME NEW w \in Nat, w > 0, NEW r \in 0 .. w - 1
  PROVE  r % w = r
OBVIOUS

-----------------------------------------------------------------------------
(* Functions defined by recursion over 0 .. n *)

Runs(g, n, first, step) == g[0] = first /\ \A k \in 1 .. n : g[k] = step[k][g[k - 1]]

\* One exists, for every first value and every step.
LEMMA Recursion ==
  ASSUME NEW n \in Nat, NEW S, NEW first \in S, NEW step \in [1 .. n -> [S -> S]]
  PROVE  \E g \in [0 .. n -> S] : Runs(g, n, first, step)
<1> USE DEF Runs
<1> DEFINE Good == {m \in 0 .. n : \E g \in [0 .. m -> S] : Runs(g, m, first, step)}
<1>1. 0 \in Good
  <2>1. PICK g : g = [k \in 0 .. 0 |-> first]
    OBVIOUS
  <2>2. g \in [0 .. 0 -> S] /\ Runs(g, 0, first, step)
    BY <2>1
  <2>3. 0 \in 0 .. n
    OBVIOUS
  <2> QED
    BY <2>2, <2>3
<1>2. ASSUME NEW m \in 0 .. n - 1, m \in Good
      PROVE  m + 1 \in Good
  <2>1. PICK g \in [0 .. m -> S] : Runs(g, m, first, step)
    BY <1>2
  <2> DEFINE h == [k \in 0 .. m + 1 |-> IF k = m + 1 THEN step[m + 1][g[m]] ELSE g[k]]
  <2>2. m + 1 \in 1 .. n /\ g[m] \in S
    OBVIOUS
  <2>3. step[m + 1][g[m]] \in S
    <3>1. step[m + 1] \in [S -> S]
      BY <2>2
    <3> QED
      BY <2>2, <3>1
  <2>4. h \in [0 .. m + 1 -> S]
    BY <2>3
  <2>5. h[0] = first
    <3>1. h[0] = g[0]
      OBVIOUS
    <3> QED
      BY <2>1, <3>1
  <2>6. ASSUME NEW k \in 1 .. m + 1 PROVE h[k] = step[k][h[k - 1]]
    <3>1. CASE k = m + 1
      <4>1. h[k] = step[m + 1][g[m]] /\ h[m] = g[m]
        BY <3>1
      <4>2. k - 1 = m
        BY <3>1
      <4> QED
        BY <3>1, <4>1, <4>2
    <3>2. CASE k # m + 1
      <4>1. k \in 1 .. m
        BY <3>2
      <4>2. h[k] = g[k] /\ h[k - 1] = g[k - 1]
        BY <4>1
      <4> QED
        BY <2>1, <4>1, <4>2
    <3> QED
      BY <3>1, <3>2
  <2>7. Runs(h, m + 1, first, step)
    BY <2>5, <2>6
  <2>8. m + 1 \in 0 .. n
    OBVIOUS
  <2> QED
    <3> HIDE DEF h
    <3> QED
      BY <2>4, <2>7, <2>8
<1>3. \A m \in 0 .. n : m \in Good
  <2> HIDE DEF Good
  <2> QED
    BY <1>1, <1>2, UpTo
<1> QED
  BY <1>3

\* What a power is: the last value of a function.
PowerRun(p, base, n) == p = [k \in 0 .. n |-> IF k = 0 THEN 1 ELSE base * p[k - 1]]

\* The function of powers exists.
LEMMA PowerRuns ==
  ASSUME NEW base \in Nat, NEW n \in Nat
  PROVE  \E p \in [0 .. n -> Nat] : PowerRun(p, base, n) /\ Power(base, n) = p[n]
<1> DEFINE step == [k \in 1 .. n |-> [x \in Nat |-> base * x]]
<1>1. PICK g \in [0 .. n -> Nat] : Runs(g, n, 1, step)
  <2>1. step \in [1 .. n -> [Nat -> Nat]] /\ 1 \in Nat
    OBVIOUS
  <2> HIDE DEF step
  <2> QED
    BY <2>1, Recursion
<1>2. \A k \in 1 .. n : g[k] = base * g[k - 1]
  <2> TAKE k \in 1 .. n
  <2>1. k - 1 \in 0 .. n /\ step[k] = [x \in Nat |-> base * x]
    OBVIOUS
  <2>2. g[k - 1] \in Nat
    BY <2>1
  <2> QED
    BY <1>1, <2>1, <2>2 DEF Runs
<1>3. PowerRun(g, base, n)
  BY <1>1, <1>2 DEF PowerRun, Runs
<1>4. PICK p : p = CHOOSE f : PowerRun(f, base, n)
  OBVIOUS
<1>5. PowerRun(p, base, n)
  BY <1>3, <1>4
<1>6. Power(base, n) = p[n]
  BY <1>4 DEF Power, PowerRun
<1>7. p \in [0 .. n -> Nat]
  <2> DEFINE Good == {k \in 0 .. n : p[k] \in Nat}
  <2>1. 0 \in Good
    BY <1>5 DEF PowerRun
  <2>2. \A k \in 0 .. n - 1 : k \in Good => k + 1 \in Good
    <3> TAKE k \in 0 .. n - 1
    <3> HAVE k \in Good
    <3>1. p[k + 1] = base * p[k]
      BY <1>5 DEF PowerRun
    <3> QED
      BY <3>1
  <2>3. \A k \in 0 .. n : k \in Good
    <3> HIDE DEF Good
    <3> QED
      BY <2>1, <2>2, UpTo
  <2>4. p = [k \in 0 .. n |-> p[k]]
    BY <1>5 DEF PowerRun
  <2> QED
    BY <2>3, <2>4
<1> QED
  BY <1>5, <1>6, <1>7

\* The equations of a power.
LEMMA PowerIs ==
  ASSUME NEW base \in Nat
  PROVE  /\ Power(base, 0) = 1
         /\ \A n \in Nat : Power(base, n) \in Nat /\ Power(base, n + 1) = base * Power(base, n)
<1>1. Power(base, 0) = 1
  <2>1. PICK z \in Nat : z = 0
    OBVIOUS
  <2>2. PICK p \in [0 .. z -> Nat] : PowerRun(p, base, z) /\ Power(base, z) = p[z]
    BY PowerRuns
  <2> QED
    BY <2>1, <2>2 DEF PowerRun
<1>2. ASSUME NEW n \in Nat
      PROVE  Power(base, n) \in Nat /\ Power(base, n + 1) = base * Power(base, n)
  <2>1. PICK p \in [0 .. n -> Nat] : PowerRun(p, base, n) /\ Power(base, n) = p[n]
    BY PowerRuns
  <2>2. PICK q \in [0 .. n + 1 -> Nat] : PowerRun(q, base, n + 1) /\ Power(base, n + 1) = q[n + 1]
    <3>1. PICK m \in Nat : m = n + 1
      OBVIOUS
    <3>2. \E q \in [0 .. m -> Nat] : PowerRun(q, base, m) /\ Power(base, m) = q[m]
      BY PowerRuns
    <3> QED
      BY <3>1, <3>2
  <2> DEFINE Good == {k \in 0 .. n : p[k] = q[k]}
  <2>3. 0 \in Good
    BY <2>1, <2>2 DEF PowerRun
  <2>4. \A k \in 0 .. n - 1 : k \in Good => k + 1 \in Good
    <3> TAKE k \in 0 .. n - 1
    <3> HAVE k \in Good
    <3>1. p[k + 1] = base * p[k]
      BY <2>1 DEF PowerRun
    <3>2. q[k + 1] = base * q[k]
      BY <2>2 DEF PowerRun
    <3> QED
      BY <3>1, <3>2
  <2>5. \A k \in 0 .. n : k \in Good
    <3> HIDE DEF Good
    <3> QED
      BY <2>3, <2>4, UpTo
  <2>6. q[n + 1] = base * q[n]
    BY <2>2 DEF PowerRun
  <2>7. p[n] = q[n]
    BY <2>5
  <2> QED
    BY <2>1, <2>2, <2>6, <2>7
<1> QED
  BY <1>1, <1>2

\* The powers of a positive number are positive.
LEMMA PowerPositive ==
  ASSUME NEW base \in Nat, base > 0, NEW n \in Nat
  PROVE  Power(base, n) \in Nat /\ Power(base, n) > 0
<1> DEFINE Good == {k \in 0 .. n : Power(base, k) > 0}
<1>1. 0 \in Good
  BY PowerIs
<1>2. \A k \in 0 .. n - 1 : k \in Good => k + 1 \in Good
  <2> TAKE k \in 0 .. n - 1
  <2> HAVE k \in Good
  <2>1. Power(base, k) \in Nat /\ Power(base, k + 1) = base * Power(base, k)
    BY PowerIs
  <2>2. PICK c \in Nat : c = Power(base, k)
    BY <2>1
  <2>3. c > 0 /\ base * c > 0
    BY <2>2
  <2> QED
    BY <2>1, <2>2, <2>3
<1>3. \A k \in 0 .. n : k \in Good
  <2> HIDE DEF Good
  <2> QED
    BY <1>1, <1>2, UpTo
<1> QED
  BY <1>3, PowerIs

\* The sum of the first n values of a function.
Upto(t, n) == Sum([k \in 1 .. n |-> t[k]])

\* What a sum is: the last value of a function.
SumRun(s, t, n) == s = [k \in 0 .. n |-> IF k = 0 THEN 0 ELSE s[k - 1] + t[k]]

\* The function of sums exists.
LEMMA SumRuns ==
  ASSUME NEW n \in Nat, NEW t, \A k \in 1 .. n : t[k] \in Nat
  PROVE  \E s \in [0 .. n -> Nat] : SumRun(s, t, n) /\ Upto(t, n) = s[n]
<1> DEFINE step == [k \in 1 .. n |-> [x \in Nat |-> x + t[k]]]
<1>1. PICK g \in [0 .. n -> Nat] : Runs(g, n, 0, step)
  <2>1. step \in [1 .. n -> [Nat -> Nat]] /\ 0 \in Nat
    OBVIOUS
  <2> HIDE DEF step
  <2> QED
    BY <2>1, Recursion
<1>2. \A k \in 1 .. n : g[k] = g[k - 1] + t[k]
  <2> TAKE k \in 1 .. n
  <2>1. k - 1 \in 0 .. n /\ step[k] = [x \in Nat |-> x + t[k]]
    OBVIOUS
  <2>2. g[k - 1] \in Nat
    BY <2>1
  <2> QED
    BY <1>1, <2>1, <2>2 DEF Runs
<1>3. SumRun(g, t, n)
  BY <1>1, <1>2 DEF SumRun, Runs
<1>4. PICK u : u = [k \in 1 .. n |-> t[k]]
  OBVIOUS
<1>5. Len(u) = n
  BY <1>4
<1>6. PICK s : s = CHOOSE f : SumRun(f, u, n)
  OBVIOUS
<1>7. SumRun(g, u, n)
  BY <1>3, <1>4 DEF SumRun
<1>8. SumRun(s, u, n)
  BY <1>6, <1>7
<1>9. SumRun(s, t, n)
  <2>1. [k \in 0 .. n |-> IF k = 0 THEN 0 ELSE s[k - 1] + u[k]]
          = [k \in 0 .. n |-> IF k = 0 THEN 0 ELSE s[k - 1] + t[k]]
    BY <1>4
  <2> QED
    BY <1>8, <2>1 DEF SumRun
<1>10. Upto(t, n) = s[n]
  <2>1. Upto(t, n) = Sum(u)
    BY <1>4 DEF Upto
  <2>2. Sum(u) = s[n]
    BY <1>5, <1>6 DEF Sum, SumRun
  <2> QED
    BY <2>1, <2>2
<1>11. s \in [0 .. n -> Nat]
  <2> DEFINE Good == {k \in 0 .. n : s[k] \in Nat}
  <2>1. 0 \in Good
    BY <1>9 DEF SumRun
  <2>2. \A k \in 0 .. n - 1 : k \in Good => k + 1 \in Good
    <3> TAKE k \in 0 .. n - 1
    <3> HAVE k \in Good
    <3>1. s[k + 1] = s[k] + t[k + 1]
      BY <1>9 DEF SumRun
    <3>2. t[k + 1] \in Nat
      OBVIOUS
    <3> QED
      BY <3>1, <3>2
  <2>3. \A k \in 0 .. n : k \in Good
    <3> HIDE DEF Good
    <3> QED
      BY <2>1, <2>2, UpTo
  <2>4. s = [k \in 0 .. n |-> s[k]]
    BY <1>9 DEF SumRun
  <2> QED
    BY <2>3, <2>4
<1> QED
  BY <1>9, <1>10, <1>11

\* Two functions that agree have the same sum.
LEMMA UptoSame ==
  ASSUME NEW n \in Nat, NEW t, NEW u, \A k \in 1 .. n : t[k] = u[k]
  PROVE  Upto(t, n) = Upto(u, n)
<1>1. [k \in 1 .. n |-> t[k]] = [k \in 1 .. n |-> u[k]]
  OBVIOUS
<1> QED
  BY <1>1 DEF Upto

\* The equations of a sum.
LEMMA UptoIs ==
  ASSUME NEW n \in Nat, NEW t, \A k \in 1 .. n : t[k] \in Nat
  PROVE  /\ Upto(t, 0) = 0
         /\ \A k \in 0 .. n : Upto(t, k) \in Nat
         /\ \A k \in 0 .. n - 1 : Upto(t, k + 1) = Upto(t, k) + t[k + 1]
<1>1. ASSUME NEW k \in 0 .. n
      PROVE  \E s \in [0 .. k -> Nat] : SumRun(s, t, k) /\ Upto(t, k) = s[k]
  <2>1. k \in Nat /\ \A j \in 1 .. k : t[j] \in Nat
    OBVIOUS
  <2> QED
    BY <2>1, SumRuns
<1>2. \A k \in 0 .. n : Upto(t, k) \in Nat
  <2> TAKE k \in 0 .. n
  <2>1. PICK s \in [0 .. k -> Nat] : Upto(t, k) = s[k]
    BY <1>1
  <2> QED
    BY <2>1
<1>3. Upto(t, 0) = 0
  <2>1. PICK z : z \in 0 .. n /\ z = 0
    OBVIOUS
  <2>2. PICK s \in [0 .. z -> Nat] : SumRun(s, t, z) /\ Upto(t, z) = s[z]
    BY <1>1, <2>1
  <2> QED
    BY <2>1, <2>2 DEF SumRun
<1>4. ASSUME NEW k \in 0 .. n - 1
      PROVE  Upto(t, k + 1) = Upto(t, k) + t[k + 1]
  <2>1. PICK m : m \in 0 .. n /\ m = k + 1
    OBVIOUS
  <2> k \in Nat /\ k \in 0 .. n
    OBVIOUS
  <2>2. PICK p \in [0 .. k -> Nat] : SumRun(p, t, k) /\ Upto(t, k) = p[k]
    BY <1>1
  <2>3. PICK q \in [0 .. m -> Nat] : SumRun(q, t, m) /\ Upto(t, m) = q[m]
    BY <1>1, <2>1
  <2> DEFINE Good == {j \in 0 .. k : p[j] = q[j]}
  <2>4. 0 \in Good
    BY <2>1, <2>2, <2>3 DEF SumRun
  <2>5. \A j \in 0 .. k - 1 : j \in Good => j + 1 \in Good
    <3> TAKE j \in 0 .. k - 1
    <3> HAVE j \in Good
    <3>1. p[j + 1] = p[j] + t[j + 1]
      BY <2>2 DEF SumRun
    <3>2. q[j + 1] = q[j] + t[j + 1]
      BY <2>1, <2>3 DEF SumRun
    <3> QED
      BY <3>1, <3>2
  <2>6. \A j \in 0 .. k : j \in Good
    <3> HIDE DEF Good
    <3> QED
      BY <2>4, <2>5, UpTo
  <2>7. q[k + 1] = q[k] + t[k + 1]
    BY <2>1, <2>3 DEF SumRun
  <2>8. p[k] = q[k]
    BY <2>6
  <2> QED
    BY <2>1, <2>2, <2>3, <2>7, <2>8
<1> QED
  BY <1>2, <1>3, <1>4

-----------------------------------------------------------------------------
(* Digits *)

\* A digit and what is below it: the arithmetic of one place.
LEMMA OnePlace ==
  ASSUME NEW w \in Nat, w > 0, NEW base \in Nat, base > 0, NEW q \in Nat,
         NEW d \in 0 .. base - 1, NEW r \in 0 .. w - 1
  PROVE  /\ w * d + r \in 0 .. base * w - 1
         /\ w * (base * q + d) + r = (base * w) * q + (w * d + r)
         /\ w * d \in Nat /\ base * w \in Nat /\ base * w > 0
<1>1. PICK c \in Nat : base = d + 1 + c
  <2>1. base - d - 1 \in Nat /\ base = d + 1 + (base - d - 1)
    OBVIOUS
  <2> QED
    BY <2>1
<1>2. w * d \in Nat /\ w * c \in Nat
  OBVIOUS
<1>3. base * w = w * d + w + w * c
  BY <1>1
<1>4. w * d + r \in 0 .. base * w - 1
  BY <1>2, <1>3
<1>5. w * (base * q + d) + r = (base * w) * q + (w * d + r)
  OBVIOUS
<1>6. base * w \in Nat /\ base * w > 0
  BY <1>2, <1>3
<1> QED
  BY <1>2, <1>4, <1>5, <1>6

\* What the first k digits of a number make.
LowPart(base, v, k, r) ==
  r \in Nat /\ r < Power(base, k) /\ v = Power(base, k) * (v \div Power(base, k)) + r

\* The sum of the first digits, each at its place, is what they make.
LEMMA DigitsUp ==
  ASSUME NEW base \in Nat, base > 0, NEW v \in Nat, NEW n \in Nat, NEW t,
         \A k \in 1 .. n : t[k] = Digit(base, v, k) * Power(base, k - 1)
  PROVE  /\ \A k \in 1 .. n : t[k] \in Nat /\ Digit(base, v, k) \in 0 .. base - 1
         /\ \A k \in 0 .. n : LowPart(base, v, k, Upto(t, k))
<1>1. ASSUME NEW k \in 1 .. n
      PROVE  t[k] \in Nat /\ Digit(base, v, k) \in 0 .. base - 1
  <2>1. PICK w : w = Power(base, k - 1)
    OBVIOUS
  <2>2. w \in Nat /\ w > 0
    <3>1. k - 1 \in Nat
      OBVIOUS
    <3> QED
      BY <2>1, <3>1, PowerPositive
  <2>3. PICK q : q = v \div w
    OBVIOUS
  <2>4. q \in Nat
    BY <2>2, <2>3
  <2>5. PICK d : d = q % base
    OBVIOUS
  <2>6. d \in 0 .. base - 1
    BY <2>4, <2>5
  <2>7. Digit(base, v, k) = d
    BY <2>1, <2>3, <2>5 DEF Digit
  <2>8. t[k] = d * w
    BY <2>7, <2>1
  <2>9. d * w \in Nat
    BY <2>6, <2>2
  <2> QED
    BY <2>6, <2>7, <2>8, <2>9
<1> DEFINE Good == {k \in 0 .. n : \E r \in Nat :
                     /\ r = Upto(t, k) /\ r < Power(base, k)
                     /\ v = Power(base, k) * (v \div Power(base, k)) + r}
<1>2. 0 \in Good
  <2>1. Power(base, 0) = 1 /\ Upto(t, 0) = 0
    BY <1>1, PowerIs, UptoIs
  <2>2. v = 1 * (v \div 1) + 0
    OBVIOUS
  <2>3. 0 \in 0 .. n /\ 0 \in Nat /\ 0 < 1
    OBVIOUS
  <2> QED
    BY <2>1, <2>2, <2>3
<1>3. ASSUME NEW k \in 0 .. n - 1, k \in Good
      PROVE  k + 1 \in Good
  <2>1. PICK w : w = Power(base, k)
    OBVIOUS
  <2>2. PICK q : q = v \div w
    OBVIOUS
  <2>3. PICK r \in Nat : r = Upto(t, k) /\ r < w /\ v = w * q + r
    BY <1>3, <2>1, <2>2
  <2>4. k \in Nat /\ k + 1 \in 1 .. n /\ k + 1 \in 0 .. n /\ (k + 1) - 1 = k
    OBVIOUS
  <2>5. w \in Nat /\ w > 0 /\ Power(base, k + 1) = base * w
    BY <2>1, <2>4, PowerPositive, PowerIs
  <2>6. q \in Nat
    BY <2>2, <2>5
  <2>7. PICK d : d = q % base
    OBVIOUS
  <2>8. PICK p : p = q \div base
    OBVIOUS
  <2>9. p \in Nat /\ d \in 0 .. base - 1 /\ q = base * p + d
    BY <2>6, <2>7, <2>8, DivMod
  <2>10. Digit(base, v, k + 1) = d
    BY <2>1, <2>2, <2>4, <2>7 DEF Digit
  <2>11. t[k + 1] = d * w
    BY <2>1, <2>4, <2>10
  <2>12. Upto(t, k + 1) = r + t[k + 1]
    BY <1>1, <2>3, UptoIs
  <2>13. r \in 0 .. w - 1
    BY <2>3, <2>5
  <2>14. /\ w * d + r \in 0 .. base * w - 1
         /\ w * (base * p + d) + r = (base * w) * p + (w * d + r)
         /\ w * d \in Nat /\ base * w \in Nat /\ base * w > 0
    BY <2>5, <2>9, <2>13, OnePlace
  <2>15. PICK b : b = base * w
    OBVIOUS
  <2>16. PICK e : e = w * d + r
    OBVIOUS
  <2>17. b \in Nat /\ b > 0 /\ e \in 0 .. b - 1
    BY <2>14, <2>15, <2>16
  <2>18. v = b * p + e
    BY <2>3, <2>9, <2>14, <2>15, <2>16
  <2>19. v \div b = p
    BY <2>9, <2>17, <2>18, DivModOf
  <2>20. e = Upto(t, k + 1)
    <3>1. d * w = w * d
      BY <2>5, <2>9
    <3>2. w * d \in Nat
      BY <2>14
    <3> QED
      BY <2>3, <2>11, <2>12, <2>16, <3>1, <3>2
  <2>21. v = b * (v \div b) + e
    BY <2>18, <2>19
  <2>22. e \in Nat /\ e < b
    BY <2>17
  <2>23. Power(base, k + 1) = b
    BY <2>5, <2>15
  <2> QED
    BY <2>4, <2>20, <2>21, <2>22, <2>23
<1>4. \A k \in 0 .. n : k \in Good
  <2> HIDE DEF Good
  <2> QED
    BY <1>2, <1>3, UpTo
<1>5. \A k \in 0 .. n : LowPart(base, v, k, Upto(t, k))
  BY <1>4 DEF LowPart
<1> QED
  BY <1>1, <1>5

\* A number is what its digits make, if there are enough of them.
LEMMA NumberOfDigits ==
  ASSUME NEW base \in Nat, base > 0, NEW v \in Nat, NEW n \in Nat, v < Power(base, n), NEW t,
         \A k \in 1 .. n : t[k] = Digit(base, v, k) * Power(base, k - 1)
  PROVE  Upto(t, n) = v /\ \A k \in 1 .. n : t[k] \in 0 .. v
<1>1. \A k \in 0 .. n : LowPart(base, v, k, Upto(t, k))
  BY DigitsUp
<1>2. \A k \in 1 .. n : t[k] \in Nat
  BY DigitsUp
<1>3. ASSUME NEW k \in 0 .. n PROVE Upto(t, k) \in 0 .. v
  <2>1. PICK w : w = Power(base, k)
    OBVIOUS
  <2>2. PICK q : q = v \div w
    OBVIOUS
  <2>3. PICK r \in Nat : r = Upto(t, k) /\ v = w * q + r
    BY <1>1, <2>1, <2>2 DEF LowPart
  <2>4. w \in Nat /\ w > 0
    BY <2>1, PowerPositive
  <2>5. w * q \in Nat
    BY <2>2, <2>4
  <2> QED
    BY <2>3, <2>5
<1>4. ASSUME NEW k \in 1 .. n PROVE t[k] \in 0 .. v
  <2>1. PICK j : j \in 0 .. n - 1 /\ k = j + 1
    <3>1. k - 1 \in 0 .. n - 1 /\ k = (k - 1) + 1
      OBVIOUS
    <3> QED
      BY <3>1
  <2>2. Upto(t, j + 1) = Upto(t, j) + t[j + 1]
    BY <1>2, <2>1, UptoIs
  <2>3. j \in 0 .. n /\ j + 1 \in 0 .. n
    BY <2>1
  <2>4. Upto(t, j) \in 0 .. v /\ Upto(t, j + 1) \in 0 .. v
    BY <1>3, <2>3
  <2>5. t[k] \in Nat
    BY <1>2
  <2> QED
    BY <2>1, <2>2, <2>4, <2>5
<1>5. Upto(t, n) = v
  <2>1. PICK w : w = Power(base, n)
    OBVIOUS
  <2>2. PICK q : q = v \div w
    OBVIOUS
  <2>3. PICK r \in Nat : r = Upto(t, n) /\ v = w * q + r
    BY <1>1, <2>1, <2>2 DEF LowPart
  <2>4. w \in Nat /\ v < w
    BY <2>1, PowerPositive
  <2>5. q = 0
    BY <2>2, <2>4
  <2> QED
    BY <2>3, <2>4, <2>5
<1> QED
  BY <1>4, <1>5

\* A power of a sum of exponents is a product.
LEMMA PowerAdd ==
  ASSUME NEW base \in Nat, NEW a \in Nat, NEW b \in Nat
  PROVE  Power(base, a + b) = Power(base, a) * Power(base, b)
<1> DEFINE Good == {k \in 0 .. b : Power(base, a + k) = Power(base, a) * Power(base, k)}
<1>1. 0 \in Good
  <2>1. Power(base, 0) = 1 /\ Power(base, a) \in Nat
    BY PowerIs
  <2>2. a + 0 = a
    OBVIOUS
  <2> QED
    BY <2>1, <2>2
<1>2. ASSUME NEW k \in 0 .. b - 1, k \in Good
      PROVE  k + 1 \in Good
  <2>1. k \in Nat /\ a + k \in Nat /\ a + (k + 1) = (a + k) + 1 /\ k + 1 \in 0 .. b
    OBVIOUS
  <2>2. Power(base, (a + k) + 1) = base * Power(base, a + k)
    BY <2>1, PowerIs
  <2>3. Power(base, k + 1) = base * Power(base, k)
    BY <2>1, PowerIs
  <2>4. PICK u \in Nat : u = Power(base, a)
    BY PowerIs
  <2>5. PICK w \in Nat : w = Power(base, k)
    BY <2>1, PowerIs
  <2>6. Power(base, a + k) = u * w
    BY <1>2, <2>4, <2>5
  <2>7. base * (u * w) = u * (base * w)
    OBVIOUS
  <2>8. Power(base, a + (k + 1)) = u * (base * w)
    BY <2>1, <2>2, <2>6, <2>7
  <2>9. Power(base, a + (k + 1)) = Power(base, a) * Power(base, k + 1)
    BY <2>3, <2>4, <2>5, <2>8
  <2> QED
    BY <2>1, <2>9
<1>3. \A k \in 0 .. b : k \in Good
  <2> HIDE DEF Good
  <2> QED
    BY <1>1, <1>2, UpTo
<1> QED
  BY <1>3

\* Powers grow.
LEMMA PowerGrows ==
  ASSUME NEW base \in Nat, base > 0, NEW a \in Nat, NEW b \in Nat, a <= b
  PROVE  Power(base, a) <= Power(base, b)
<1>1. PICK c \in Nat : b = a + c
  <2>1. b - a \in Nat /\ b = a + (b - a)
    OBVIOUS
  <2> QED
    BY <2>1
<1>2. Power(base, b) = Power(base, a) * Power(base, c)
  BY <1>1, PowerAdd
<1>3. PICK u \in Nat : u = Power(base, a)
  BY PowerIs
<1>4. PICK w \in Nat : w = Power(base, c) /\ w > 0
  BY PowerPositive
<1>5. u <= u * w
  BY <1>4
<1> QED
  BY <1>2, <1>3, <1>4, <1>5

\* The number v has the n digits ds.
HasDigits(base, v, n, ds) ==
  v \in Nat /\ v < Power(base, n) /\ \A k \in 1 .. n : Digit(base, v, k) = ds[k]

\* Digits make a number that has them for its digits.
LEMMA DigitsOfNumber ==
  ASSUME NEW base \in Nat, base > 0, NEW n \in Nat, NEW ds, NEW t,
         \A k \in 1 .. n : ds[k] \in 0 .. base - 1,
         \A k \in 1 .. n : t[k] = ds[k] * Power(base, k - 1)
  PROVE  HasDigits(base, Upto(t, n), n, ds)
<1>1. ASSUME NEW k \in 1 .. n PROVE t[k] \in Nat
  <2>1. k - 1 \in Nat
    OBVIOUS
  <2>2. PICK w \in Nat : w = Power(base, k - 1)
    BY <2>1, PowerPositive
  <2>3. PICK d \in 0 .. base - 1 : d = ds[k]
    OBVIOUS
  <2>4. d * w \in Nat
    OBVIOUS
  <2> QED
    BY <2>2, <2>3, <2>4
<1>2. \A k \in 0 .. n : Upto(t, k) \in Nat
  BY <1>1, UptoIs
<1> DEFINE Low == {k \in 0 .. n : Upto(t, k) < Power(base, k)}
<1>3. 0 \in Low
  <2>1. Upto(t, 0) = 0
    BY <1>1, UptoIs
  <2>2. Power(base, 0) = 1
    BY PowerIs
  <2> QED
    BY <2>1, <2>2
<1>4. ASSUME NEW k \in 0 .. n - 1, k \in Low
      PROVE  k + 1 \in Low
  <2>1. k \in Nat /\ k + 1 \in 1 .. n /\ k + 1 \in 0 .. n /\ (k + 1) - 1 = k /\ k \in 0 .. n
    OBVIOUS
  <2>2. PICK w \in Nat : w = Power(base, k) /\ w > 0
    BY <2>1, PowerPositive
  <2>3. PICK d \in 0 .. base - 1 : d = ds[k + 1]
    BY <2>1
  <2>4. PICK r \in Nat : r = Upto(t, k)
    BY <1>2, <2>1
  <2>5. r \in 0 .. w - 1
    BY <1>4, <2>2, <2>4
  <2>6. w * d + r \in 0 .. base * w - 1 /\ w * d \in Nat /\ base * w \in Nat
    BY <2>2, <2>5, OnePlace
  <2>7. Upto(t, k + 1) = r + t[k + 1]
    BY <1>1, <2>4, UptoIs
  <2>8. t[k + 1] = d * w
    BY <2>1, <2>2, <2>3
  <2>9. d * w = w * d
    OBVIOUS
  <2>10. Power(base, k + 1) = base * w
    BY <2>1, <2>2, PowerIs
  <2> QED
    BY <2>1, <2>6, <2>7, <2>8, <2>9, <2>10
<1>5. \A k \in 0 .. n : Upto(t, k) < Power(base, k)
  <2>1. \A k \in 0 .. n : k \in Low
    <3> HIDE DEF Low
    <3> QED
      BY <1>3, <1>4, UpTo
  <2> QED
    BY <2>1
<1>6. ASSUME NEW k \in 1 .. n PROVE Digit(base, Upto(t, n), k) = ds[k]
  <2>1. /\ k - 1 \in Nat /\ k - 1 \in 0 .. n /\ k - 1 \in 0 .. n - 1
        /\ (k - 1) + 1 = k /\ n - k \in Nat
    OBVIOUS
  <2>2. PICK w \in Nat : w = Power(base, k - 1) /\ w > 0
    BY <2>1, PowerPositive
  <2>3. PICK d \in 0 .. base - 1 : d = ds[k]
    OBVIOUS
  <2>4. PICK low \in Nat : low = Upto(t, k - 1) /\ low < w
    BY <1>2, <1>5, <2>1, <2>2
  <2>5. Power(base, k) = base * w
    <3>1. Power(base, (k - 1) + 1) = base * w
      BY <2>1, <2>2, PowerIs
    <3> QED
      BY <2>1, <3>1
  <2> DEFINE Good == {i \in 0 .. n - k : \E q \in Nat : Upto(t, k + i) = w * (base * q + d) + low}
  <2>6. 0 \in Good
    <3>1. Upto(t, (k - 1) + 1) = Upto(t, k - 1) + t[(k - 1) + 1]
      BY <1>1, <2>1, UptoIs
    <3>2. Upto(t, k) = low + d * w
      BY <2>1, <2>2, <2>3, <2>4, <3>1
    <3>3. low + d * w = w * (base * 0 + d) + low
      OBVIOUS
    <3>4. k + 0 = k /\ 0 \in 0 .. n - k /\ 0 \in Nat
      BY <2>1
    <3> QED
      BY <3>2, <3>3, <3>4
  <2>7. ASSUME NEW i \in 0 .. n - k - 1, i \in Good
        PROVE  i + 1 \in Good
    <3>1. PICK q \in Nat : Upto(t, k + i) = w * (base * q + d) + low
      BY <2>7
    <3>2. i \in Nat /\ k + i \in 0 .. n - 1 /\ (k + i) + 1 \in 1 .. n
          /\ k + (i + 1) = (k + i) + 1 /\ ((k + i) + 1) - 1 = k + i /\ i + 1 \in 0 .. n - k
      OBVIOUS
    <3>3. PICK c \in 0 .. base - 1 : c = ds[(k + i) + 1]
      BY <3>2
    <3>4. PICK p \in Nat : p = Power(base, i)
      BY <3>2, PowerIs
    <3>5. Power(base, k + i) = (base * w) * p
      BY <2>5, <3>2, <3>4, PowerAdd
    <3>6. t[(k + i) + 1] = c * ((base * w) * p)
      BY <3>2, <3>3, <3>5
    <3>7. Upto(t, (k + i) + 1) = Upto(t, k + i) + t[(k + i) + 1]
      BY <1>1, <3>2, UptoIs
    <3>8. PICK cp \in Nat : cp = c * p
      OBVIOUS
    <3>9. c * ((base * w) * p) = w * (base * cp)
      BY <3>8
    <3>10. q + cp \in Nat
      OBVIOUS
    <3>11. w * (base * q + d) + low + w * (base * cp) = w * (base * (q + cp) + d) + low
      OBVIOUS
    <3>12. Upto(t, k + (i + 1)) = w * (base * (q + cp) + d) + low
      BY <3>1, <3>2, <3>6, <3>7, <3>9, <3>11
    <3> QED
      BY <3>2, <3>10, <3>12
  <2>8. n - k \in Good
    <3>1. PICK m \in Nat : m = n - k
      BY <2>1
    <3>2. \A i \in 0 .. m : i \in Good
      <4> HIDE DEF Good
      <4> QED
        BY <2>6, <2>7, <3>1, UpTo
    <3>3. m \in 0 .. m
      OBVIOUS
    <3> HIDE DEF Good
    <3> QED
      BY <3>1, <3>2, <3>3
  <2>9. PICK q \in Nat : Upto(t, n) = w * (base * q + d) + low
    <3>1. k + (n - k) = n
      BY <2>1
    <3> QED
      BY <2>8, <3>1
  <2>10. PICK h \in Nat : h = base * q + d
    OBVIOUS
  <2>11. PICK v : v = Upto(t, n)
    OBVIOUS
  <2>12. v = w * h + low /\ low \in 0 .. w - 1
    BY <2>4, <2>9, <2>10, <2>11
  <2>13. v \div w = h
    BY <2>2, <2>12, DivModOf
  <2>14. h % base = d
    BY <2>10, DivModOf
  <2> QED
    BY <2>2, <2>3, <2>11, <2>13, <2>14 DEF Digit
<1>7. n \in 0 .. n
  OBVIOUS
<1> QED
  BY <1>2, <1>5, <1>6, <1>7 DEF HasDigits

-----------------------------------------------------------------------------
(* Bytes in their place *)

\* x stands in s, after the first at bytes; s ends within x.
At(s, at, x)  == at + Len(x) <= Len(s) /\ \A i \in 1 .. Len(x) : s[at + i] = x[i]
Cut(s, at, x) == /\ at <= Len(s) /\ Len(s) < at + Len(x)
                 /\ \A i \in 1 .. Len(s) - at : s[at + i] = x[i]

\* A sequence stands in itself, and what is taken from a place is what stands there.
LEMMA AtSelf ==
  ASSUME NEW S, NEW s \in Seq(S)
  PROVE  At(s, 0, s)
BY DEF At

\* What stands at a place is the subsequence from there.
LEMMA AtSub ==
  ASSUME NEW S, NEW s \in Seq(S), NEW x \in Seq(S), NEW at \in Nat, At(s, at, x)
  PROVE  SubSeq(s, at + 1, at + Len(x)) = x
<1>1. PICK y : y = SubSeq(s, at + 1, at + Len(x))
  OBVIOUS
<1>2. at + Len(x) <= Len(s) /\ Len(x) \in Nat /\ Len(s) \in Nat
  BY DEF At
<1>3. y \in Seq(S) /\ Len(y) = Len(x)
  BY <1>1, <1>2
<1>4. ASSUME NEW i \in 1 .. Len(x) PROVE y[i] = x[i]
  <2>1. y[i] = s[at + i]
    BY <1>1, <1>2
  <2> QED
    BY <2>1 DEF At
<1>5. PICK n \in Nat : n = Len(x)
  BY <1>2
<1>6. x = [i \in 1 .. n |-> x[i]] /\ y = [i \in 1 .. n |-> y[i]]
  BY <1>3, <1>5
<1>7. [i \in 1 .. n |-> x[i]] = [i \in 1 .. n |-> y[i]]
  BY <1>4, <1>5
<1> QED
  BY <1>1, <1>5, <1>6, <1>7

\* Where one sequence after another stands, each stands in its place.
LEMMA AtCat ==
  ASSUME NEW S, NEW s \in Seq(S), NEW x \in Seq(S), NEW y \in Seq(S), NEW at \in Nat,
         At(s, at, x \o y)
  PROVE  /\ At(s, at, x) /\ At(s, at + Len(x), y)
         /\ Len(x \o y) = Len(x) + Len(y) /\ at + Len(x) + Len(y) <= Len(s)
<1>1. Len(x \o y) = Len(x) + Len(y) /\ Len(x) \in Nat /\ Len(y) \in Nat /\ Len(s) \in Nat
  OBVIOUS
<1>2. at + Len(x) + Len(y) <= Len(s)
  BY <1>1 DEF At
<1>3. ASSUME NEW i \in 1 .. Len(x) PROVE s[at + i] = x[i]
  <2>1. i \in 1 .. Len(x \o y) /\ (x \o y)[i] = x[i]
    BY <1>1
  <2> QED
    BY <2>1 DEF At
<1>4. ASSUME NEW i \in 1 .. Len(y) PROVE s[at + Len(x) + i] = y[i]
  <2>1. Len(x) + i \in 1 .. Len(x \o y) /\ (x \o y)[Len(x) + i] = y[i]
    BY <1>1
  <2>2. s[at + (Len(x) + i)] = y[i]
    BY <2>1 DEF At
  <2>3. at + (Len(x) + i) = at + Len(x) + i
    BY <1>1
  <2> QED
    BY <2>2, <2>3
<1> QED
  BY <1>1, <1>2, <1>3, <1>4 DEF At

\* Where the end cuts off one sequence after another, it cuts the first or the second.
LEMMA CutCat ==
  ASSUME NEW S, NEW s \in Seq(S), NEW x \in Seq(S), NEW y \in Seq(S), NEW at \in Nat,
         Cut(s, at, x \o y)
  PROVE  Cut(s, at, x) \/ (At(s, at, x) /\ Cut(s, at + Len(x), y))
<1>1. Len(x \o y) = Len(x) + Len(y) /\ Len(x) \in Nat /\ Len(y) \in Nat /\ Len(s) \in Nat
  OBVIOUS
<1>2. at <= Len(s) /\ Len(s) < at + Len(x) + Len(y)
  BY <1>1 DEF Cut
<1>3. \A i \in 1 .. Len(s) - at : s[at + i] = (x \o y)[i]
  BY DEF Cut
<1>4. CASE Len(s) < at + Len(x)
  <2>1. ASSUME NEW i \in 1 .. Len(s) - at PROVE s[at + i] = x[i]
    <3>1. i \in 1 .. Len(x)
      BY <1>1, <1>2, <1>4
    <3>2. (x \o y)[i] = x[i]
      BY <3>1
    <3> QED
      BY <1>3, <3>2
  <2> QED
    BY <1>2, <1>4, <2>1 DEF Cut
<1>5. CASE at + Len(x) <= Len(s)
  <2>1. ASSUME NEW i \in 1 .. Len(x) PROVE s[at + i] = x[i]
    <3>1. i \in 1 .. Len(s) - at
      BY <1>1, <1>2, <1>5
    <3>2. (x \o y)[i] = x[i]
      OBVIOUS
    <3> QED
      BY <1>3, <3>1, <3>2
  <2>2. ASSUME NEW i \in 1 .. Len(s) - (at + Len(x)) PROVE s[at + Len(x) + i] = y[i]
    <3>1. Len(x) + i \in 1 .. Len(s) - at /\ i \in 1 .. Len(y)
      BY <1>1, <1>2
    <3>2. (x \o y)[Len(x) + i] = y[i]
      BY <1>1, <3>1
    <3>3. s[at + (Len(x) + i)] = y[i]
      BY <1>3, <3>1, <3>2
    <3>4. at + (Len(x) + i) = at + Len(x) + i
      BY <1>1, <3>1
    <3> QED
      BY <3>3, <3>4
  <2>3. At(s, at, x)
    BY <1>5, <2>1 DEF At
  <2>4. Cut(s, at + Len(x), y)
    BY <1>2, <1>5, <2>2 DEF Cut
  <2> QED
    BY <2>3, <2>4
<1> QED
  BY <1>1, <1>2, <1>4, <1>5

\* What sequences one after the other make: the last value of a function.
FlatRun(g, xs) == g = [i \in 1 .. Len(xs) |-> IF i = 1 THEN xs[i] ELSE g[i - 1] \o xs[i]]

\* The function of concatenations exists.
LEMMA FlatRuns ==
  ASSUME NEW S, NEW xs \in Seq(Seq(S)), Len(xs) > 0
  PROVE  \E g \in [1 .. Len(xs) -> Seq(S)] : FlatRun(g, xs) /\ FlattenSeq(xs) = g[Len(xs)]
<1>1. PICK n \in Nat : n = Len(xs)
  OBVIOUS
<1>2. PICK T : T = Seq(S)
  OBVIOUS
<1>3. \A k \in 1 .. n : xs[k] \in T
  BY <1>1, <1>2
<1> DEFINE step == [k \in 1 .. n |-> [x \in T |-> x \o xs[k]]]
<1>4. PICK f \in [0 .. n -> T] : Runs(f, n, <<>>, step)
  <2>1. step \in [1 .. n -> [T -> T]]
    BY <1>2, <1>3
  <2>2. <<>> \in T
    BY <1>2
  <2> HIDE DEF step
  <2> QED
    BY <2>1, <2>2, Recursion
<1>5. \A k \in 1 .. n : f[k] = f[k - 1] \o xs[k]
  <2> TAKE k \in 1 .. n
  <2>1. k - 1 \in 0 .. n /\ step[k] = [x \in T |-> x \o xs[k]]
    OBVIOUS
  <2>2. f[k - 1] \in T
    BY <2>1
  <2> QED
    BY <1>4, <2>1, <2>2 DEF Runs
<1>6. f[0] = <<>>
  BY <1>4 DEF Runs
<1>7. PICK h : h = [i \in 1 .. n |-> f[i]]
  OBVIOUS
<1>8. FlatRun(h, xs)
  <2>1. ASSUME NEW i \in 1 .. n PROVE h[i] = IF i = 1 THEN xs[i] ELSE h[i - 1] \o xs[i]
    <3>1. CASE i = 1
      <4>1. h[1] = <<>> \o xs[1]
        <5>1. f[i] = f[i - 1] \o xs[i]
          BY <1>5
        <5>2. h[i] = f[i] /\ i - 1 = 0
          BY <1>7, <3>1
        <5> QED
          BY <1>6, <3>1, <5>1, <5>2
      <4>2. xs[1] \in Seq(S)
        BY <1>2, <1>3, <3>1
      <4>3. <<>> \o xs[1] = xs[1]
        BY <4>2
      <4> QED
        BY <3>1, <4>1, <4>3
    <3>2. CASE i # 1
      <4>1. i - 1 \in 1 .. n
        BY <3>2
      <4>2. h[i - 1] = f[i - 1] /\ h[i] = f[i]
        BY <1>7, <4>1
      <4> QED
        BY <1>5, <3>2, <4>2
    <3> QED
      BY <3>1, <3>2
  <2>2. h = [i \in 1 .. n |-> h[i]]
    BY <1>7
  <2>3. h = [i \in 1 .. n |-> IF i = 1 THEN xs[i] ELSE h[i - 1] \o xs[i]]
    BY <2>1, <2>2
  <2> QED
    BY <1>1, <2>3 DEF FlatRun
<1>9. PICK g : g = CHOOSE e : FlatRun(e, xs)
  OBVIOUS
<1>10. FlatRun(g, xs)
  BY <1>8, <1>9
<1>11. FlattenSeq(xs) = g[n]
  BY <1>1, <1>9 DEF FlattenSeq, FlatRun
<1>12. \A i \in 1 .. n : g[i] = IF i = 1 THEN xs[i] ELSE g[i - 1] \o xs[i]
  BY <1>1, <1>10 DEF FlatRun
<1>13. g \in [1 .. n -> T]
  <2> DEFINE Good == {k \in 0 .. n : k = 0 \/ g[k] \in T}
  <2>1. 0 \in Good
    OBVIOUS
  <2>2. ASSUME NEW k \in 0 .. n - 1, k \in Good PROVE k + 1 \in Good
    <3>1. k + 1 \in 1 .. n /\ k + 1 \in 0 .. n /\ (k + 1) - 1 = k
      OBVIOUS
    <3>2. xs[k + 1] \in T
      BY <1>3, <3>1
    <3>3. CASE k = 0
      <4>1. g[k + 1] = xs[k + 1]
        BY <1>12, <3>1, <3>3
      <4> QED
        BY <3>1, <3>2, <4>1
    <3>4. CASE k # 0
      <4>1. g[k + 1] = g[(k + 1) - 1] \o xs[k + 1]
        <5>1. k + 1 # 1
          BY <3>4
        <5> QED
          BY <1>12, <3>1, <5>1
      <4>2. g[k] \in Seq(S) /\ xs[k + 1] \in Seq(S)
        BY <1>2, <2>2, <3>2, <3>4
      <4>3. g[k] \o xs[k + 1] \in T
        BY <1>2, <4>2
      <4> QED
        BY <3>1, <4>1, <4>3
    <3> QED
      BY <3>3, <3>4
  <2>3. \A k \in 0 .. n : k \in Good
    <3> HIDE DEF Good
    <3> QED
      BY <2>1, <2>2, UpTo
  <2>4. \A k \in 1 .. n : g[k] \in T
    BY <2>3
  <2>5. g = [k \in 1 .. n |-> g[k]]
    BY <1>1, <1>10 DEF FlatRun
  <2> QED
    BY <2>4, <2>5
<1> QED
  BY <1>1, <1>2, <1>10, <1>11, <1>13

\* The equations of flattening.
LEMMA FlattenEmpty ==
  FlattenSeq(<<>>) = <<>>
BY DEF FlattenSeq

\* One more run is written after those before it.
LEMMA FlattenAppend ==
  ASSUME NEW S, NEW xs \in Seq(Seq(S)), NEW x \in Seq(S)
  PROVE  FlattenSeq(Append(xs, x)) = FlattenSeq(xs) \o x
<1>1. PICK n \in Nat : n = Len(xs)
  OBVIOUS
<1>2. PICK ys : ys = Append(xs, x)
  OBVIOUS
<1> ys \in Seq(Seq(S))
  BY <1>2
<1>3. Len(ys) = n + 1 /\ ys[n + 1] = x /\ \A k \in 1 .. n : ys[k] = xs[k]
  BY <1>1, <1>2
<1>4. PICK q \in [1 .. Len(ys) -> Seq(S)] : FlatRun(q, ys) /\ FlattenSeq(ys) = q[Len(ys)]
  <2>1. Len(ys) > 0
    BY <1>3
  <2> QED
    BY <2>1, FlatRuns
<1>5. q = [i \in 1 .. n + 1 |-> IF i = 1 THEN ys[i] ELSE q[i - 1] \o ys[i]]
  BY <1>3, <1>4 DEF FlatRun
<1>6. FlattenSeq(ys) = q[n + 1]
  BY <1>3, <1>4
<1>7. \A i \in 1 .. n + 1 : q[i] = IF i = 1 THEN ys[i] ELSE q[i - 1] \o ys[i]
  BY <1>5
<1>8. CASE n = 0
  <2>1. q[1] = ys[1]
    BY <1>5, <1>8
  <2>2. q[n + 1] = x
    BY <2>1, <1>3, <1>8
  <2>3. FlattenSeq(xs) = <<>>
    <3>1. PICK T : T = Seq(S)
      OBVIOUS
    <3>2. xs \in Seq(T) /\ Len(xs) = 0
      BY <1>1, <1>8, <3>1
    <3>3. xs = <<>>
      BY <3>2
    <3> QED
      BY <3>3, FlattenEmpty
  <2>4. <<>> \o x = x
    OBVIOUS
  <2> QED
    BY <1>2, <1>6, <2>2, <2>3, <2>4
<1>9. CASE n > 0
  <2>1. PICK p \in [1 .. Len(xs) -> Seq(S)] : FlatRun(p, xs) /\ FlattenSeq(xs) = p[Len(xs)]
    BY <1>1, <1>9, FlatRuns
  <2>2. p = [i \in 1 .. n |-> IF i = 1 THEN xs[i] ELSE p[i - 1] \o xs[i]]
    BY <1>1, <2>1 DEF FlatRun
  <2>3. \A i \in 1 .. n : p[i] = IF i = 1 THEN xs[i] ELSE p[i - 1] \o xs[i]
    BY <2>2
  <2> DEFINE Good == {k \in 0 .. n : k = 0 \/ p[k] = q[k]}
  <2>4. 0 \in Good
    OBVIOUS
  <2>5. ASSUME NEW k \in 0 .. n - 1, k \in Good PROVE k + 1 \in Good
    <3>1. k + 1 \in 1 .. n /\ k + 1 \in 0 .. n /\ (k + 1) - 1 = k /\ k + 1 \in 1 .. n + 1
      OBVIOUS
    <3>2. xs[k + 1] = ys[k + 1]
      BY <1>3, <3>1
    <3>3. CASE k = 0
      <4>1. p[k + 1] = xs[k + 1] /\ q[k + 1] = ys[k + 1]
        BY <1>7, <2>3, <3>1, <3>3
      <4> QED
        BY <3>1, <3>2, <4>1
    <3>4. CASE k # 0
      <4>1. p[k + 1] = p[(k + 1) - 1] \o xs[k + 1] /\ q[k + 1] = q[(k + 1) - 1] \o ys[k + 1]
        <5>1. k + 1 # 1
          BY <3>4
        <5> QED
          BY <1>7, <2>3, <3>1, <5>1
      <4>2. p[k] = q[k]
        BY <2>5, <3>4
      <4> QED
        BY <3>1, <3>2, <4>1, <4>2
    <3> QED
      BY <3>3, <3>4
  <2>6. \A k \in 0 .. n : k \in Good
    <3> HIDE DEF Good
    <3> QED
      BY <2>4, <2>5, UpTo
  <2>7. p[n] = q[n]
    BY <2>6, <1>9
  <2>8. q[n + 1] = q[n] \o ys[n + 1]
    <3>1. n + 1 \in 1 .. n + 1 /\ n + 1 # 1 /\ (n + 1) - 1 = n
      BY <1>9
    <3>2. q[n + 1] = q[(n + 1) - 1] \o ys[n + 1]
      BY <1>7, <3>1
    <3> QED
      BY <3>1, <3>2
  <2> QED
    BY <1>1, <1>2, <1>3, <1>6, <2>1, <2>7, <2>8
<1> QED
  BY <1>8, <1>9

\* What stands in a sequence stands in it when more follows, and so does what follows.
LEMMA AtMore ==
  ASSUME NEW S, NEW s \in Seq(S), NEW x \in Seq(S), NEW y \in Seq(S), NEW at \in Nat,
         At(s, at, x)
  PROVE  At(s \o y, at, x)
<1>1. at + Len(x) <= Len(s) /\ Len(x) \in Nat /\ Len(s) \in Nat /\ Len(s \o y) = Len(s) + Len(y)
      /\ Len(y) \in Nat
  BY DEF At
<1>2. ASSUME NEW i \in 1 .. Len(x) PROVE (s \o y)[at + i] = x[i]
  <2>1. at + i \in 1 .. Len(s)
    BY <1>1
  <2>2. (s \o y)[at + i] = s[at + i]
    BY <2>1
  <2> QED
    BY <2>2 DEF At
<1> QED
  BY <1>1, <1>2 DEF At

\* What is appended stands at the end of what was there.
LEMMA AtNext ==
  ASSUME NEW S, NEW s \in Seq(S), NEW y \in Seq(S)
  PROVE  At(s \o y, Len(s), y)
<1>1. Len(s \o y) = Len(s) + Len(y) /\ Len(y) \in Nat /\ Len(s) \in Nat
  OBVIOUS
<1>2. ASSUME NEW i \in 1 .. Len(y) PROVE (s \o y)[Len(s) + i] = y[i]
  OBVIOUS
<1> QED
  BY <1>1, <1>2 DEF At

\* Where the k-th of some sequences ends, one after the other.
Offset(xs, k) == Upto([j \in DOMAIN xs |-> Len(xs[j])], k)

\* The offset of a run is the sum of the lengths of those before it.
LEMMA OffsetIs ==
  ASSUME NEW S, NEW xs \in Seq(Seq(S)), NEW n, n = Len(xs)
  PROVE  /\ Offset(xs, 0) = 0
         /\ \A k \in 0 .. n : Offset(xs, k) \in Nat
         /\ \A k \in 0 .. n - 1 : Offset(xs, k + 1) = Offset(xs, k) + Len(xs[k + 1])
<1>1. PICK t : t = [j \in DOMAIN xs |-> Len(xs[j])]
  OBVIOUS
<1>2. DOMAIN xs = 1 .. n /\ n \in Nat
  OBVIOUS
<1>3. \A k \in 1 .. n : t[k] = Len(xs[k]) /\ xs[k] \in Seq(S)
  BY <1>1, <1>2
<1>4. \A k \in 1 .. n : t[k] \in Nat
  BY <1>3
<1>5. \A k : Offset(xs, k) = Upto(t, k)
  BY <1>1 DEF Offset
<1>6. /\ Upto(t, 0) = 0
      /\ \A k \in 0 .. n : Upto(t, k) \in Nat
      /\ \A k \in 0 .. n - 1 : Upto(t, k + 1) = Upto(t, k) + t[k + 1]
  BY <1>2, <1>4, UptoIs
<1>7. ASSUME NEW k \in 0 .. n - 1
      PROVE  Offset(xs, k + 1) = Offset(xs, k) + Len(xs[k + 1])
  <2>1. k + 1 \in 1 .. n
    BY <1>2
  <2> QED
    BY <1>3, <1>5, <1>6, <2>1
<1> QED
  BY <1>5, <1>6, <1>7

\* The first sequences end where they do, whatever follows.
LEMMA OffsetSame ==
  ASSUME NEW S, NEW xs \in Seq(Seq(S)), NEW ys \in Seq(Seq(S)), NEW n \in Nat,
         n <= Len(xs), n <= Len(ys), \A k \in 1 .. n : xs[k] = ys[k]
  PROVE  Offset(xs, n) = Offset(ys, n)
<1>1. PICK t : t = [j \in DOMAIN xs |-> Len(xs[j])]
  OBVIOUS
<1>2. PICK u : u = [j \in DOMAIN ys |-> Len(ys[j])]
  OBVIOUS
<1>3. ASSUME NEW k \in 1 .. n PROVE t[k] = u[k]
  <2>1. k \in DOMAIN xs /\ k \in DOMAIN ys
    OBVIOUS
  <2> QED
    BY <1>1, <1>2, <2>1
<1>4. Upto(t, n) = Upto(u, n)
  BY <1>3, UptoSame
<1> QED
  BY <1>1, <1>2, <1>4 DEF Offset

\* Sequences one after the other: each stands where those before it end.
LEMMA FlattenIs ==
  ASSUME NEW S, NEW xs \in Seq(Seq(S)), NEW n, n = Len(xs)
  PROVE  /\ FlattenSeq(xs) \in Seq(S) /\ Len(FlattenSeq(xs)) = Offset(xs, n)
         /\ \A k \in 1 .. n : At(FlattenSeq(xs), Offset(xs, k - 1), xs[k])
<1> n \in Nat
  OBVIOUS
<1>1. /\ Offset(xs, 0) = 0
      /\ \A k \in 0 .. n : Offset(xs, k) \in Nat
      /\ \A k \in 0 .. n - 1 : Offset(xs, k + 1) = Offset(xs, k) + Len(xs[k + 1])
  BY OffsetIs
<1> DEFINE Placed(f, m) == /\ f \in Seq(S) /\ Len(f) = Offset(xs, m)
                           /\ \A k \in 1 .. m : At(f, Offset(xs, k - 1), xs[k])
           Good == {m \in 0 .. n : Placed(FlattenSeq(SubSeq(xs, 1, m)), m)}
<1>2. 0 \in Good
  <2>1. SubSeq(xs, 1, 0) = <<>>
    OBVIOUS
  <2>2. FlattenSeq(SubSeq(xs, 1, 0)) = <<>>
    BY <2>1, FlattenEmpty
  <2>3. Placed(<<>>, 0)
    BY <1>1
  <2>4. 0 \in 0 .. n
    OBVIOUS
  <2> HIDE DEF Placed
  <2> QED
    BY <2>2, <2>3, <2>4
<1>3. ASSUME NEW m \in 0 .. n - 1, m \in Good PROVE m + 1 \in Good
  <2>1. PICK pre : pre = SubSeq(xs, 1, m)
    OBVIOUS
  <2>2. PICK x \in Seq(S) : x = xs[m + 1]
    <3>1. m + 1 \in 1 .. n
      OBVIOUS
    <3> QED
      BY <3>1
  <2>3. pre \in Seq(Seq(S)) /\ SubSeq(xs, 1, m + 1) = Append(pre, x)
    <3>1. m \in Nat /\ m <= Len(xs) /\ m + 1 <= Len(xs)
      OBVIOUS
    <3>2. pre \in Seq(Seq(S)) /\ Len(pre) = m /\ \A k \in 1 .. m : pre[k] = xs[k]
      BY <2>1, <3>1
    <3>3. PICK a : a = Append(pre, x)
      OBVIOUS
    <3>4. PICK b : b = SubSeq(xs, 1, m + 1)
      OBVIOUS
    <3>5. PICK T : T = Seq(S)
      OBVIOUS
    <3>6. pre \in Seq(T) /\ x \in T
      BY <3>2, <3>5
    <3>7. a \in Seq(T) /\ Len(a) = m + 1 /\ a[m + 1] = x /\ \A k \in 1 .. m : a[k] = pre[k]
      BY <3>1, <3>2, <3>3, <3>6
    <3>8. a \in Seq(Seq(S)) /\ Len(a) = m + 1 /\ a[m + 1] = x /\ \A k \in 1 .. m : a[k] = xs[k]
      BY <3>2, <3>5, <3>7
    <3>9. b \in Seq(Seq(S)) /\ Len(b) = m + 1 /\ \A k \in 1 .. m + 1 : b[k] = xs[k]
      BY <3>1, <3>4
    <3>10. \A k \in 1 .. m + 1 : a[k] = b[k]
      <4> TAKE k \in 1 .. m + 1
      <4>1. CASE k = m + 1
        BY <2>2, <3>8, <3>9, <4>1
      <4>2. CASE k # m + 1
        <5>1. k \in 1 .. m
          BY <3>1, <4>2
        <5> QED
          BY <3>8, <3>9, <5>1
      <4> QED
        BY <4>1, <4>2
    <3> QED
      BY <3>2, <3>3, <3>4, <3>8, <3>9, <3>10
  <2>4. PICK f : f = FlattenSeq(pre)
    OBVIOUS
  <2>5. FlattenSeq(SubSeq(xs, 1, m + 1)) = f \o x
    BY <2>3, <2>4, FlattenAppend
  <2>6. Placed(f, m)
    BY <1>3, <2>1, <2>4
  <2>7. f \in Seq(S) /\ f \o x \in Seq(S) /\ Len(f \o x) = Len(f) + Len(x)
    <3>1. f \in Seq(S)
      BY <2>6
    <3> QED
      BY <3>1
  <2>8. Len(f \o x) = Offset(xs, m + 1)
    BY <1>1, <2>2, <2>6, <2>7
  <2>9. ASSUME NEW k \in 1 .. m + 1 PROVE At(f \o x, Offset(xs, k - 1), xs[k])
    <3>1. CASE k = m + 1
      <4>1. At(f \o x, Len(f), x)
        BY <2>7, AtNext
      <4>2. k - 1 = m
        BY <3>1
      <4> QED
        BY <2>2, <2>6, <3>1, <4>1, <4>2
    <3>2. CASE k # m + 1
      <4>1. k \in 1 .. m /\ k - 1 \in 0 .. n /\ k \in 1 .. n
        BY <3>2
      <4>2. Offset(xs, k - 1) \in Nat /\ xs[k] \in Seq(S)
        BY <1>1, <4>1
      <4>3. At(f, Offset(xs, k - 1), xs[k])
        BY <2>6, <4>1
      <4> QED
        BY <2>7, <4>2, <4>3, AtMore
    <3> QED
      BY <3>1, <3>2
  <2>10. Placed(f \o x, m + 1)
    BY <2>7, <2>8, <2>9
  <2>11. m + 1 \in 0 .. n
    OBVIOUS
  <2> QED
    BY <2>5, <2>10, <2>11
<1>4. n \in Good
  <2>1. \A m \in 0 .. n : m \in Good
    <3> HIDE DEF Good
    <3> QED
      BY <1>2, <1>3, UpTo
  <2> QED
    BY <2>1
<1>5. SubSeq(xs, 1, n) = xs
  OBVIOUS
<1> QED
  BY <1>4, <1>5

\* If all are equally long, so far apart they are.
LEMMA OffsetEven ==
  ASSUME NEW S, NEW xs \in Seq(Seq(S)), NEW n, n = Len(xs), NEW w \in Nat,
         \A k \in 1 .. n : Len(xs[k]) = w
  PROVE  \A k \in 0 .. n : Offset(xs, k) = k * w
<1> n \in Nat
  OBVIOUS
<1>1. /\ Offset(xs, 0) = 0
      /\ \A k \in 0 .. n - 1 : Offset(xs, k + 1) = Offset(xs, k) + Len(xs[k + 1])
  BY OffsetIs
<1> DEFINE Good == {k \in 0 .. n : Offset(xs, k) = k * w}
<1>2. 0 \in Good
  BY <1>1
<1>3. ASSUME NEW k \in 0 .. n - 1, k \in Good PROVE k + 1 \in Good
  <2>1. k + 1 \in 1 .. n /\ k + 1 \in 0 .. n /\ k \in Nat
    OBVIOUS
  <2>2. Offset(xs, k + 1) = k * w + w
    BY <1>1, <1>3, <2>1
  <2>3. k * w + w = (k + 1) * w
    BY <2>1
  <2> QED
    BY <2>1, <2>2, <2>3
<1>4. \A k \in 0 .. n : k \in Good
  <2> HIDE DEF Good
  <2> QED
    BY <1>2, <1>3, UpTo
<1> QED
  BY <1>4

\* x and y stand one after the other from at to the end of z, y from p.
InTwo(s, at, x, p, y, z) ==
  /\ At(s, at, x) /\ p \in Nat /\ At(s, p, y) /\ z \in Seq(Byte) /\ Len(z) \in Nat
  /\ p = at + Len(x) /\ at + Len(z) = p + Len(y) /\ p + Len(y) <= Len(s)

\* Where two runs stand together, each has its place.
LEMMA TwoAt ==
  ASSUME NEW s \in Seq(Byte), NEW x \in Seq(Byte), NEW y \in Seq(Byte), NEW at \in Nat,
         NEW z, z = x \o y, At(s, at, z)
  PROVE  InTwo(s, at, x, at + Len(x), y, z)
<1>1. At(s, at, x \o y)
  OBVIOUS
<1>2. /\ At(s, at, x) /\ At(s, at + Len(x), y)
         /\ Len(x \o y) = Len(x) + Len(y) /\ at + Len(x) + Len(y) <= Len(s)
  BY <1>1, AtCat
<1>3. Len(x) \in Nat /\ Len(y) \in Nat /\ x \o y \in Seq(Byte)
  OBVIOUS
<1> QED
  BY <1>2, <1>3 DEF InTwo

-----------------------------------------------------------------------------
(* Varints *)

\* What is known of the widths.
LEMMA Widths ==
  /\ Radix \in Nat /\ Radix > 11 /\ Word \in Nat /\ Word > 0
  /\ MaxVarint \in Nat /\ MaxVarint > 0 /\ WordBytes \in Nat /\ WordBytes > 0
  /\ WordBits \in Nat /\ WordBits > 0 /\ DigestLen \in Nat /\ DigestLen > 0
  /\ Hashes \in Nat /\ Hashes > 0 /\ Hashes < Word
  /\ MaxPayload \in Nat /\ MaxInstrs \in Nat /\ MinCompress \in Nat /\ MaxBits \in Nat
  /\ MinKeys \in Nat /\ BitsPerKey \in Nat
BY WidthAssumption

\* As many bytes as the number needs, and no more than there may be.
LEMMA VarLenIs ==
  ASSUME NEW v \in Words64
  PROVE  /\ VarLen(v) \in 1 .. MaxVarint /\ v < Power(Radix, VarLen(v))
         /\ VarLen(v) > 1 => v >= Power(Radix, VarLen(v) - 1)
<1> v \in Nat /\ v < Word
  BY Widths DEF Words64
<1> DEFINE T == {n \in 1 .. MaxVarint : v < Power(Radix, n)}
<1>1. MaxVarint \in T
  <2>1. v < Power(Radix, MaxVarint)
    BY Widths, WidthAssumption, PowerIs
  <2> QED
    BY <2>1, Widths
<1>2. PICK m \in T : \A k \in T : m <= k
  <2>1. T \in SUBSET Nat /\ T # {}
    BY <1>1
  <2> HIDE DEF T
  <2> QED
    BY <2>1, LeastNumber
<1>3. m > 1 => v >= Power(Radix, m - 1)
  <2> SUFFICES ASSUME m > 1, ~ (v >= Power(Radix, m - 1)) PROVE FALSE
    OBVIOUS
  <2>1. m - 1 \in 1 .. MaxVarint /\ m - 1 \in Nat
    BY Widths
  <2>2. Power(Radix, m - 1) \in Nat
    BY <2>1, Widths, PowerIs
  <2>3. m - 1 \in T
    BY <2>1, <2>2
  <2> QED
    BY <1>2, <2>3
<1>4. PICK n : n = VarLen(v)
  OBVIOUS
<1>5. /\ n \in 1 .. MaxVarint /\ (v < Power(Radix, n) \/ n = MaxVarint)
      /\ n > 1 => v >= Power(Radix, n - 1)
  BY <1>2, <1>3, <1>4 DEF VarLen
<1>6. v < Power(Radix, MaxVarint)
  BY <1>1
<1> QED
  BY <1>4, <1>5, <1>6

\* Every byte of a varint is a digit of the number, and all but the last are marked.
LEMMA VarBytes ==
  ASSUME NEW v \in Words64, NEW x, x = WriteUvarint(v), NEW n, n = VarLen(v)
  PROVE  /\ x \in Seq(Byte) /\ Len(x) = n /\ n \in 1 .. MaxVarint
         /\ \A i \in 1 .. n : /\ x[i] \in Byte
                              /\ x[i] % Radix = Digit(Radix, v, i)
                              /\ x[i] < Radix <=> i = n
<1> v \in Nat
  BY Widths DEF Words64
<1> Radix \in Nat /\ Radix > 0
  BY Widths
<1>1. n \in 1 .. MaxVarint
  BY VarLenIs
<1>2. x = [i \in 1 .. n |-> Digit(Radix, v, i) + (IF i < n THEN Radix ELSE 0)]
  BY DEF WriteUvarint
<1>3. ASSUME NEW i \in 1 .. n
      PROVE  x[i] \in Byte /\ x[i] % Radix = Digit(Radix, v, i) /\ (x[i] < Radix <=> i = n)
  <2>1. PICK w : w = Power(Radix, i - 1)
    OBVIOUS
  <2>2. w \in Nat /\ w > 0
    <3>1. i - 1 \in Nat
      BY <1>1
    <3> QED
      BY <2>1, <3>1, PowerPositive
  <2>3. PICK q : q = v \div w
    OBVIOUS
  <2>4. q \in Nat
    BY <2>2, <2>3
  <2>5. PICK d : d = q % Radix
    OBVIOUS
  <2>6. d \in 0 .. Radix - 1
    BY <2>4, <2>5
  <2>7. Digit(Radix, v, i) = d
    BY <2>1, <2>3, <2>5 DEF Digit
  <2>8. d % Radix = d /\ (Radix * 1 + d) % Radix = d
    <3>1. d % Radix = d
      BY <2>6, SmallMod
    <3>2. PICK f \in Nat : f = Radix * 1 + d
      BY <2>6
    <3>3. f % Radix = d
      BY <2>6, <3>2, DivModOf
    <3>4. d % Radix = d /\ f % Radix = d
      BY <3>1, <3>3
    <3> QED
      BY <3>2, <3>4
  <2>9. i \in Nat /\ n \in Nat /\ i <= n
    BY <1>1
  <2>10. CASE i < n
    <3>1. x[i] = d + Radix
      BY <1>2, <2>7, <2>10
    <3>2. d + Radix = Radix * 1 + d
      BY <2>6
    <3>3. x[i] % Radix = d
      BY <2>8, <3>1, <3>2
    <3>4. x[i] \in Byte /\ ~ (x[i] < Radix)
      BY <2>6, <3>1 DEF Byte
    <3> QED
      BY <2>7, <2>9, <2>10, <3>3, <3>4
  <2>11. CASE i = n
    <3>1. x[i] = d + 0
      BY <1>2, <2>7, <2>9, <2>11
    <3>2. x[i] = d
      BY <2>6, <3>1
    <3>3. x[i] \in Byte /\ x[i] < Radix
      BY <2>6, <3>2 DEF Byte
    <3> QED
      BY <2>7, <2>8, <2>11, <3>2, <3>3
  <2> QED
    BY <2>9, <2>10, <2>11
<1>4. x \in Seq(Byte) /\ Len(x) = n
  <2>1. n \in Nat
    BY <1>1
  <2>2. x = [i \in 1 .. n |-> x[i]]
    BY <1>2
  <2> QED
    BY <1>3, <2>1, <2>2
<1> QED
  BY <1>1, <1>3, <1>4

\* A varint that stands in the bytes read is read as the number written.
LEMMA UvarintAt ==
  ASSUME NEW v \in Words64, NEW s \in Seq(Byte), NEW at \in Nat, At(s, at, WriteUvarint(v))
  PROVE  Uvarint(s, at) = Ok(v, at + Len(WriteUvarint(v)))
<1>1. PICK x : x = WriteUvarint(v)
  OBVIOUS
<1>2. PICK n : n = VarLen(v)
  OBVIOUS
<1>3. /\ x \in Seq(Byte) /\ Len(x) = n /\ n \in 1 .. MaxVarint
      /\ \A i \in 1 .. n : /\ x[i] \in Byte
                           /\ x[i] % Radix = Digit(Radix, v, i)
                           /\ x[i] < Radix <=> i = n
  BY <1>1, <1>2, VarBytes
<1>4. at + n <= Len(s) /\ \A i \in 1 .. n : s[at + i] = x[i]
  BY <1>1, <1>3 DEF At
<1> /\ n \in Nat /\ v \in Nat /\ v < Word
    /\ Radix \in Nat /\ Radix > 0 /\ MaxVarint \in Nat /\ Word \in Nat
  BY <1>3, Widths DEF Words64
<1> DEFINE Stops(k) == at + k <= Len(s) /\ s[at + k] < Radix
<1>5. \A k \in 1 .. n : Stops(k) <=> k = n
  <2> TAKE k \in 1 .. n
  <2>1. at + k <= Len(s)
    BY <1>4
  <2>2. s[at + k] < Radix <=> k = n
    BY <1>3, <1>4
  <2> QED
    BY <2>1, <2>2
<1>6. PICK stops : stops = {k \in 1 .. MaxVarint : Stops(k) /\ \A j \in 1 .. k - 1 : ~Stops(j)}
  OBVIOUS
<1>7. stops = {n}
  <2>1. n \in stops
    <3>1. \A j \in 1 .. n - 1 : ~Stops(j)
      <4> TAKE j \in 1 .. n - 1
      <4>1. j \in 1 .. n /\ j # n
        OBVIOUS
      <4> HIDE DEF Stops
      <4> QED
        BY <1>5, <4>1
    <3>2. Stops(n)
      <4>1. n \in 1 .. n
        BY <1>3
      <4> HIDE DEF Stops
      <4> QED
        BY <1>5, <4>1
    <3> HIDE DEF Stops
    <3> QED
      BY <1>3, <1>6, <3>1, <3>2
  <2>2. ASSUME NEW k \in stops PROVE k = n
    <3>1. k \in 1 .. MaxVarint /\ Stops(k) /\ \A j \in 1 .. k - 1 : ~Stops(j)
      BY <1>6
    <3>2. CASE k > n
      <4>1. n \in 1 .. k - 1
        BY <1>3, <3>1, <3>2
      <4>2. n \in 1 .. n
        BY <1>3
      <4> HIDE DEF Stops
      <4> QED
        BY <1>5, <3>1, <4>1, <4>2
    <3>3. CASE k <= n
      <4>1. k \in 1 .. n
        BY <1>3, <3>1, <3>3
      <4> HIDE DEF Stops
      <4> QED
        BY <1>5, <3>1, <4>1
    <3>4. k \in Nat
      BY <3>1
    <3> QED
      BY <3>2, <3>3, <3>4
  <2> QED
    BY <2>1, <2>2
<1> DEFINE t == [k \in 1 .. n |-> Digit(Radix, v, k) * Power(Radix, k - 1)]
<1>8. Upto(t, n) = v /\ \A k \in 1 .. n : t[k] \in 0 .. v
  <2>1. v < Power(Radix, n)
    BY <1>2, VarLenIs
  <2>2. \A k \in 1 .. n : t[k] = Digit(Radix, v, k) * Power(Radix, k - 1)
    OBVIOUS
  <2> HIDE DEF t
  <2> QED
    BY <2>1, <2>2, NumberOfDigits
<1>9. ASSUME NEW k \in 1 .. n PROVE Shifted(s[at + k], k) = t[k]
  <2>1. s[at + k] % Radix = Digit(Radix, v, k)
    BY <1>3, <1>4
  <2>2. Shifted(s[at + k], k) = t[k] % Word
    BY <2>1 DEF Shifted
  <2>3. PICK e : e = t[k]
    OBVIOUS
  <2>4. e \in 0 .. Word - 1
    BY <1>8, <2>3
  <2>5. e % Word = e
    BY <2>4, SmallMod
  <2> QED
    BY <2>2, <2>3, <2>5
<1>10. PICK sum : sum = Sum([k \in 1 .. n |-> Shifted(s[at + k], k)])
  OBVIOUS
<1>11. sum = v
  <2>1. [k \in 1 .. n |-> Shifted(s[at + k], k)] = [k \in 1 .. n |-> t[k]]
    <3> HIDE DEF t
    <3> QED
      BY <1>9
  <2> QED
    <3> HIDE DEF t
    <3> QED
      BY <1>8, <1>10, <2>1 DEF Upto
<1>12. Uvarint(s, at) = Ok(sum, at + n)
  <2>1. (CHOOSE k \in stops : TRUE) = n /\ stops # {}
    BY <1>7
  <2> QED
    BY <1>6, <1>10, <2>1 DEF Uvarint
<1> QED
  BY <1>1, <1>3, <1>11, <1>12

\* Of a varint that is cut off, no more is known than that bytes are missing.
LEMMA UvarintCut ==
  ASSUME NEW v \in Words64, NEW s \in Seq(Byte), NEW at \in Nat, Cut(s, at, WriteUvarint(v))
  PROVE  Uvarint(s, at) = Short
<1>1. PICK x : x = WriteUvarint(v)
  OBVIOUS
<1>2. PICK n : n = VarLen(v)
  OBVIOUS
<1>3. /\ x \in Seq(Byte) /\ Len(x) = n /\ n \in 1 .. MaxVarint
      /\ \A i \in 1 .. n : /\ x[i] \in Byte
                           /\ x[i] % Radix = Digit(Radix, v, i)
                           /\ x[i] < Radix <=> i = n
  BY <1>1, <1>2, VarBytes
<1>4. at <= Len(s) /\ Len(s) < at + n /\ \A i \in 1 .. Len(s) - at : s[at + i] = x[i]
  BY <1>1, <1>3 DEF Cut
<1> n \in Nat /\ MaxVarint \in Nat /\ Len(s) \in Nat
  BY <1>3, Widths
<1> DEFINE Stops(k) == at + k <= Len(s) /\ s[at + k] < Radix
<1>5. ASSUME NEW k \in 1 .. MaxVarint PROVE ~Stops(k)
  <2> SUFFICES ASSUME at + k <= Len(s) PROVE ~ (s[at + k] < Radix)
    OBVIOUS
  <2>1. k \in 1 .. Len(s) - at /\ k \in 1 .. n /\ k # n
    BY <1>4
  <2> QED
    BY <1>3, <1>4, <2>1
<1>6. PICK stops : stops = {k \in 1 .. MaxVarint : Stops(k) /\ \A j \in 1 .. k - 1 : ~Stops(j)}
  OBVIOUS
<1>7. stops = {}
  <2> HIDE DEF Stops
  <2> QED
    BY <1>5, <1>6
<1>8. ~ (Len(s) >= at + MaxVarint)
  BY <1>3, <1>4
<1> QED
  BY <1>6, <1>7, <1>8 DEF Uvarint

\* A run that stands at a place can be taken from it.
LEMMA TakeAt ==
  ASSUME NEW S, NEW s \in Seq(S), NEW x \in Seq(S), NEW at \in Nat, At(s, at, x), NEW n, n = Len(x)
  PROVE  Take(s, at, n) = Ok(x, at + n)
<1>1. SubSeq(s, at + 1, at + n) = x
  BY AtSub
<1>2. n \in Nat /\ Len(s) \in Nat /\ at + n <= Len(s)
  BY DEF At
<1>3. ~ (Len(s) - at < n)
  BY <1>2
<1> QED
  BY <1>1, <1>3 DEF Take

\* A varint is bytes, and one of them at least.
LEMMA VarSeq ==
  ASSUME NEW v \in Words64
  PROVE  WriteUvarint(v) \in Seq(Byte) /\ Len(WriteUvarint(v)) \in Nat /\ Len(WriteUvarint(v)) > 0
<1>1. PICK x : x = WriteUvarint(v)
  OBVIOUS
<1>2. PICK n : n = VarLen(v)
  OBVIOUS
<1>3. x \in Seq(Byte) /\ Len(x) = n /\ n \in 1 .. MaxVarint
  BY <1>1, <1>2, VarBytes
<1>4. n \in Nat /\ n > 0
  BY <1>3
<1> QED
  BY <1>1, <1>3, <1>4

-----------------------------------------------------------------------------
(* Programs *)

\* The marks and kinds that are written are bytes, and a kind is never the mark.
LEMMA SmallBytes ==
  0 \in Byte /\ 1 \in Byte /\ <<0>> \in Seq(Byte) /\ <<1>> \in Seq(Byte) /\ ProgMark \in Byte
  /\ \A k \in Kinds : k \in Byte /\ k # ProgMark
BY Widths DEF Byte, ProgMark, Kinds

\* What an end may send as an instruction.
InstrOk(i) == i \in Instrs /\ (i.op = "lit" => Len(i.bytes) < Word)

\* A digest is a run of bytes of one length.
LEMMA DigestSeq ==
  ASSUME NEW d \in DigestBytes
  PROVE  d \in Seq(Byte) /\ Len(d) = DigestLen
BY Widths DEF DigestBytes

\* An instruction is a literal or a reference, and is written as bytes.
LEMMA InstrSeq ==
  ASSUME NEW i, InstrOk(i)
  PROVE  /\ EncodeInstr(i) \in Seq(Byte)
         /\ \/ i.op = "lit" /\ i = Lit(i.bytes) /\ i.bytes \in Seq(Byte) /\ Len(i.bytes) \in Words64
            \/ /\ i.op = "ref" /\ i = Ref(i.digest, i.len)
               /\ i.digest \in DigestBytes /\ i.len \in Words64
<1>1. CASE i \in [op : {"lit"}, bytes : Seq(Byte)]
  <2>1. i.op = "lit" /\ i = Lit(i.bytes) /\ i.bytes \in Seq(Byte)
    BY <1>1 DEF Lit
  <2>2. Len(i.bytes) \in Words64
    BY <2>1, Widths DEF InstrOk, Words64
  <2>3. WriteUvarint(Len(i.bytes)) \in Seq(Byte)
    BY <2>2, VarSeq
  <2>4. EncodeInstr(i) \in Seq(Byte)
    BY <2>1, <2>3, SmallBytes DEF EncodeInstr
  <2> QED
    BY <2>1, <2>2, <2>4
<1>2. CASE i \in [op : {"ref"}, digest : DigestBytes, len : Words64]
  <2>1. i.op = "ref" /\ i = Ref(i.digest, i.len) /\ i.digest \in DigestBytes /\ i.len \in Words64
    BY <1>2 DEF Ref
  <2>2. WriteUvarint(i.len) \in Seq(Byte) /\ i.digest \in Seq(Byte)
    BY <2>1, VarSeq, DigestSeq
  <2>3. EncodeInstr(i) \in Seq(Byte)
    BY <2>1, <2>2, SmallBytes DEF EncodeInstr
  <2> QED
    BY <2>1, <2>3
<1> QED
  BY <1>1, <1>2 DEF InstrOk, Instrs

\* The bytes of a literal and of a reference.
LitBytes(b) == (<<0>> \o WriteUvarint(Len(b))) \o b
RefBytes(d, v) == (<<1>> \o d) \o WriteUvarint(v)


\* A literal, and a reference, that stands in the bytes read is read as it was written.
LEMMA LitAt ==
  ASSUME NEW b \in Seq(Byte), Len(b) \in Words64, NEW s \in Seq(Byte), NEW at \in Nat,
         Len(s) <= MaxPayload, NEW e, e = LitBytes(b), At(s, at, e)
  PROVE  DecodeInstr(s, at) = Ok(Lit(b), at + Len(e))
<1>1. PICK n : n = Len(b)
  OBVIOUS
<1>2. PICK z : z = <<0>>
  OBVIOUS
<1>3. PICK x : x = WriteUvarint(n)
  OBVIOUS
<1>4. PICK zx : zx = z \o x
  OBVIOUS
<1>5. e = zx \o b
  BY <1>1, <1>2, <1>3, <1>4 DEF LitBytes
<1>6. z \in Seq(Byte) /\ Len(z) = 1
  BY <1>2, SmallBytes
<1>7. x \in Seq(Byte)
  BY <1>1, <1>3, VarSeq
<1>8. zx \in Seq(Byte)
  BY <1>6, <1>7, <1>4
<1>9. PICK q : q = at + Len(zx)
  OBVIOUS
<1>10. /\ At(s, at, zx) /\ q \in Nat /\ At(s, q, b)
      /\ at + Len(e) = q + Len(b) /\ q + Len(b) <= Len(s)
  <2>1. InTwo(s, at, zx, at + Len(zx), b, e)
    BY <1>8, <1>5, TwoAt
  <2> QED
    BY <1>9, <2>1 DEF InTwo
<1>11. At(s, at, zx)
  BY <1>10
<1>12. PICK p : p = at + Len(z)
  OBVIOUS
<1>13. At(s, at, z) /\ p \in Nat /\ At(s, p, x) /\ at + Len(zx) = p + Len(x)
  <2>1. InTwo(s, at, z, at + Len(z), x, zx)
    BY <1>6, <1>7, <1>11, <1>4, TwoAt
  <2> QED
    BY <1>12, <2>1 DEF InTwo
<1>14. At(s, at, z)
  BY <1>13
<1>15. Take(s, at, 1) = Ok(z, p)
  <2>1. Take(s, at, 1) = Ok(z, at + 1)
    BY <1>6, <1>14, TakeAt
  <2> QED
    BY <1>6, <1>12, <2>1
<1>16. Uvarint(s, p) = Ok(n, q)
  <2>1. Uvarint(s, p) = Ok(n, p + Len(x))
    BY <1>13, <1>1, <1>3, UvarintAt
  <2> QED
    BY <1>9, <1>13, <2>1
<1>17. q \in Nat /\ At(s, q, b)
  BY <1>10
<1>18. Take(s, q, n) = Ok(b, q + n)
  BY <1>17, <1>1, TakeAt
<1>19. n \in Nat /\ n <= MaxPayload
  <2>1. n \in Nat /\ Len(s) \in Nat /\ MaxPayload \in Nat /\ q + n <= Len(s)
    BY <1>10, <1>1, Widths
  <2> QED
    BY <1>10, <2>1
<1>20. DecodeLit(s, p) = Ok(Lit(b), q + n)
  <2>1. ~ (n > MaxPayload)
    BY <1>19, Widths
  <2> QED
    BY <1>16, <1>18, <2>1 DEF DecodeLit, Then, Ok
<1>21. DecodeInstr(s, at) = DecodeLit(s, p)
  BY <1>15, <1>2 DEF DecodeInstr, Then, Ok
<1> QED
  BY <1>10, <1>20, <1>21, <1>1

\* A reference is read as it was written, from any place.
LEMMA RefAt ==
  ASSUME NEW d \in DigestBytes, NEW v \in Words64, NEW s \in Seq(Byte), NEW at \in Nat,
         NEW e, e = RefBytes(d, v), At(s, at, e)
  PROVE  DecodeInstr(s, at) = Ok(Ref(d, v), at + Len(e))
<1>1. PICK z : z = <<1>>
  OBVIOUS
<1>2. PICK x : x = WriteUvarint(v)
  OBVIOUS
<1>3. PICK zd : zd = z \o d
  OBVIOUS
<1>4. e = zd \o x
  BY <1>1, <1>2, <1>3 DEF RefBytes
<1>5. z \in Seq(Byte) /\ Len(z) = 1
  BY <1>1, SmallBytes
<1>6. x \in Seq(Byte) /\ d \in Seq(Byte) /\ Len(d) = DigestLen
  BY <1>2, VarSeq, DigestSeq
<1>7. zd \in Seq(Byte)
  BY <1>5, <1>6, <1>3
<1>8. PICK q : q = at + Len(zd)
  OBVIOUS
<1>9. At(s, at, zd) /\ q \in Nat /\ At(s, q, x) /\ at + Len(e) = q + Len(x)
  <2>1. InTwo(s, at, zd, at + Len(zd), x, e)
    BY <1>6, <1>7, <1>4, TwoAt
  <2> QED
    BY <1>8, <2>1 DEF InTwo
<1>10. At(s, at, zd)
  BY <1>9
<1>11. PICK p : p = at + Len(z)
  OBVIOUS
<1>12. At(s, at, z) /\ p \in Nat /\ At(s, p, d) /\ at + Len(zd) = p + Len(d)
  <2>1. InTwo(s, at, z, at + Len(z), d, zd)
    BY <1>5, <1>6, <1>10, <1>3, TwoAt
  <2> QED
    BY <1>11, <2>1 DEF InTwo
<1>13. At(s, at, z)
  BY <1>12
<1>14. Take(s, at, 1) = Ok(z, p)
  <2>1. Take(s, at, 1) = Ok(z, at + 1)
    BY <1>5, <1>13, TakeAt
  <2> QED
    BY <1>5, <1>11, <2>1
<1>15. Take(s, p, DigestLen) = Ok(d, q)
  <2>1. Take(s, p, DigestLen) = Ok(d, p + DigestLen)
    BY <1>6, <1>12, TakeAt
  <2> QED
    BY <1>6, <1>8, <1>12, <2>1
<1>16. Uvarint(s, q) = Ok(v, q + Len(x))
  BY <1>9, <1>2, UvarintAt
<1>17. DecodeRef(s, p) = Ok(Ref(d, v), q + Len(x))
  BY <1>15, <1>16 DEF DecodeRef, Then, Ok
<1>18. DecodeInstr(s, at) = DecodeRef(s, p)
  <2>1. <<1>> # <<0>>
    OBVIOUS
  <2> QED
    BY <1>14, <1>1, <2>1 DEF DecodeInstr, Then, Ok
<1> QED
  BY <1>9, <1>17, <1>18

\* An instruction that stands in the bytes read is read as it was written.
LEMMA InstrAt ==
  ASSUME NEW i, InstrOk(i), NEW s \in Seq(Byte), NEW at \in Nat, Len(s) <= MaxPayload,
         At(s, at, EncodeInstr(i))
  PROVE  DecodeInstr(s, at) = Ok(i, at + Len(EncodeInstr(i)))
<1>1. CASE i.op = "lit"
  <2>1. i = Lit(i.bytes) /\ i.bytes \in Seq(Byte) /\ Len(i.bytes) \in Words64
    BY <1>1, InstrSeq
  <2>2. PICK b : b = i.bytes
    OBVIOUS
  <2>3. PICK e : e = EncodeInstr(i)
    OBVIOUS
  <2>4. e = LitBytes(b)
    BY <1>1, <2>2, <2>3 DEF EncodeInstr, LitBytes
  <2>5. DecodeInstr(s, at) = Ok(Lit(b), at + Len(e))
    BY <2>1, <2>2, <2>3, <2>4, LitAt
  <2> QED
    BY <2>1, <2>2, <2>3, <2>5
<1>2. CASE i.op = "ref"
  <2>1. i = Ref(i.digest, i.len) /\ i.digest \in DigestBytes /\ i.len \in Words64
    BY <1>2, InstrSeq
  <2>2. PICK e : e = EncodeInstr(i)
    OBVIOUS
  <2>3. PICK d : d = i.digest
    OBVIOUS
  <2>4. PICK v : v = i.len
    OBVIOUS
  <2>5. e = RefBytes(d, v)
    BY <1>2, <2>2, <2>3, <2>4 DEF EncodeInstr, RefBytes
  <2>6. DecodeInstr(s, at) = Ok(Ref(d, v), at + Len(e))
    BY <2>1, <2>2, <2>3, <2>4, <2>5, RefAt
  <2> QED
    BY <2>1, <2>2, <2>3, <2>4, <2>6
<1> QED
  BY <1>1, <1>2, InstrSeq

\* What stands where something stands, stands that much further on.
LEMMA AtAt ==
  ASSUME NEW s \in Seq(Byte), NEW f \in Seq(Byte), NEW x \in Seq(Byte),
         NEW at \in Nat, NEW o \in Nat,
         At(s, at, f), At(f, o, x)
  PROVE  At(s, at + o, x)
<1>1. Len(s) \in Nat /\ Len(f) \in Nat /\ Len(x) \in Nat
  OBVIOUS
<1>2. at + Len(f) <= Len(s) /\ o + Len(x) <= Len(f)
  BY DEF At
<1>3. (at + o) + Len(x) <= Len(s)
  BY <1>1, <1>2
<1>4. ASSUME NEW i \in 1 .. Len(x) PROVE s[(at + o) + i] = x[i]
  <2>1. PICK j : j = o + i
    OBVIOUS
  <2>2. j \in 1 .. Len(f)
    BY <1>1, <1>2, <2>1
  <2>3. s[at + j] = f[j]
    BY <2>2 DEF At
  <2>4. f[o + i] = x[i]
    BY DEF At
  <2>5. at + j = (at + o) + i
    BY <1>1, <2>1
  <2> QED
    BY <2>1, <2>3, <2>4, <2>5
<1> QED
  BY <1>3, <1>4 DEF At

\* The first so many, one by one.
LEMMA FirstMany ==
  ASSUME NEW T, NEW xs \in Seq(T), NEW k \in 1 .. Len(xs)
  PROVE  SubSeq(xs, 1, k) = Append(SubSeq(xs, 1, k - 1), xs[k])
<1>1. PICK m \in Nat : m = k - 1
  OBVIOUS
<1>2. k = m + 1 /\ m <= Len(xs) /\ m + 1 <= Len(xs) /\ xs[k] \in T
  BY <1>1
<1>3. PICK pre : pre = SubSeq(xs, 1, m)
  OBVIOUS
<1>4. pre \in Seq(T) /\ Len(pre) = m /\ \A j \in 1 .. m : pre[j] = xs[j]
  BY <1>2, <1>3
<1>5. PICK a : a = Append(pre, xs[k])
  OBVIOUS
<1>6. a \in Seq(T) /\ Len(a) = m + 1 /\ a[m + 1] = xs[k] /\ \A j \in 1 .. m : a[j] = pre[j]
  BY <1>2, <1>4, <1>5
<1>7. PICK b : b = SubSeq(xs, 1, k)
  OBVIOUS
<1>8. b \in Seq(T) /\ Len(b) = m + 1 /\ \A j \in 1 .. m + 1 : b[j] = xs[j]
  BY <1>2, <1>7
<1>9. \A j \in 1 .. m + 1 : a[j] = b[j]
  <2> TAKE j \in 1 .. m + 1
  <2>1. CASE j = m + 1
    BY <1>2, <1>6, <1>8, <2>1
  <2>2. CASE j # m + 1
    <3>1. j \in 1 .. m
      BY <1>1, <2>2
    <3> QED
      BY <1>4, <1>6, <1>8, <3>1
  <2> QED
    BY <2>1, <2>2
<1>10. a = b
  BY <1>6, <1>8, <1>9
<1> QED
  BY <1>1, <1>3, <1>5, <1>7, <1>10

\* One instruction more, and all of them: the values of a function.
NextInstr(s, r) ==
  Then(r, LAMBDA prog : Then(DecodeInstr(s, prog.at), LAMBDA i : Ok(Append(prog.val, i.val), i.at)))
InstrsRun(u, s, at, n) ==
  u = [k \in 0 .. n |-> IF k = 0 THEN Ok(<<>>, at) ELSE NextInstr(s, u[k - 1])]

\* What the decoder chooses is a function of this kind.
LEMMA InstrsRuns ==
  ASSUME NEW s, NEW at, NEW n
  PROVE  DecodeInstrs(s, at, n) = (CHOOSE u : InstrsRun(u, s, at, n))[n]
BY DEF DecodeInstrs, InstrsRun, NextInstr

\* A path that obeys the equations is the one taken.
LEMMA InstrsAre ==
  ASSUME NEW s, NEW at, NEW n \in Nat, NEW g, InstrsRun(g, s, at, n)
  PROVE  DecodeInstrs(s, at, n) = g[n]
<1>1. PICK u : u = CHOOSE e : InstrsRun(e, s, at, n)
  OBVIOUS
<1>2. InstrsRun(u, s, at, n)
  BY <1>1
<1>3. /\ u[0] = Ok(<<>>, at) /\ g[0] = Ok(<<>>, at)
      /\ \A k \in 1 .. n : u[k] = NextInstr(s, u[k - 1]) /\ g[k] = NextInstr(s, g[k - 1])
  BY <1>2 DEF InstrsRun
<1> DEFINE Good == {k \in 0 .. n : u[k] = g[k]}
<1>4. 0 \in Good
  BY <1>3
<1>5. ASSUME NEW k \in 0 .. n - 1, k \in Good PROVE k + 1 \in Good
  <2>1. k + 1 \in 1 .. n /\ k + 1 \in 0 .. n /\ (k + 1) - 1 = k
    OBVIOUS
  <2>2. u[k] = g[k]
    BY <1>5
  <2>3. u[k + 1] = g[k + 1]
    BY <1>3, <2>1, <2>2
  <2> QED
    BY <2>1, <2>3
<1>6. \A k \in 0 .. n : k \in Good
  <2> HIDE DEF Good
  <2> QED
    BY <1>4, <1>5, UpTo
<1>7. u[n] = g[n]
  BY <1>6
<1> QED
  BY <1>1, <1>7, InstrsRuns

\* The bytes of the instructions of a program.
InstrBytes(prog) == [k \in DOMAIN prog |-> EncodeInstr(prog[k])]

\* Each instruction of a program has its bytes.
LEMMA InstrBytesSeq ==
  ASSUME NEW prog, Encodable(prog), NEW n, n = Len(prog)
  PROVE  /\ prog \in Seq(Instrs) /\ n \in Words64 /\ n \in Nat
         /\ InstrBytes(prog) \in Seq(Seq(Byte)) /\ Len(InstrBytes(prog)) = n
         /\ \A k \in 1 .. n : InstrOk(prog[k]) /\ InstrBytes(prog)[k] = EncodeInstr(prog[k])
<1>1. prog \in Seq(Instrs) /\ n \in Nat /\ n < Word
  BY DEF Encodable
<1>2. n \in Words64
  BY <1>1, Widths DEF Words64
<1>3. DOMAIN prog = 1 .. n
  BY <1>1
<1>4. ASSUME NEW k \in 1 .. n PROVE InstrOk(prog[k])
  <2>1. prog[k] \in Instrs
    BY <1>1
  <2>2. prog[k].op = "lit" => Len(prog[k].bytes) < Word
    BY <1>3 DEF Encodable
  <2> QED
    BY <2>1, <2>2 DEF InstrOk
<1>5. PICK T : T = Seq(Byte)
  OBVIOUS
<1>6. ASSUME NEW k \in 1 .. n PROVE EncodeInstr(prog[k]) \in T
  <2>1. PICK i : i = prog[k]
    OBVIOUS
  <2>2. InstrOk(i)
    BY <1>4, <2>1
  <2>3. EncodeInstr(i) \in Seq(Byte)
    BY <2>2, InstrSeq
  <2> QED
    BY <1>5, <2>1, <2>3
<1>7. InstrBytes(prog) = [k \in 1 .. n |-> EncodeInstr(prog[k])]
  BY <1>3 DEF InstrBytes
<1>8. InstrBytes(prog) \in Seq(T) /\ Len(InstrBytes(prog)) = n
  BY <1>1, <1>6, <1>7
<1> QED
  BY <1>1, <1>2, <1>4, <1>5, <1>7, <1>8

\* The instructions that stand in the bytes read are read as they were written.
LEMMA InstrsAt ==
  ASSUME NEW prog, Encodable(prog), NEW n, n = Len(prog), NEW f, f = FlattenSeq(InstrBytes(prog)),
         NEW s \in Seq(Byte), Len(s) <= MaxPayload, NEW at \in Nat, At(s, at, f)
  PROVE  DecodeInstrs(s, at, n) = Ok(prog, at + Len(f))
<1>1. PICK es : es = InstrBytes(prog)
  OBVIOUS
<1>2. /\ prog \in Seq(Instrs) /\ n \in Nat /\ es \in Seq(Seq(Byte)) /\ Len(es) = n
      /\ \A k \in 1 .. n : InstrOk(prog[k]) /\ es[k] = EncodeInstr(prog[k])
  BY <1>1, InstrBytesSeq
<1>3. /\ Offset(es, 0) = 0
      /\ \A k \in 0 .. n : Offset(es, k) \in Nat
      /\ \A k \in 0 .. n - 1 : Offset(es, k + 1) = Offset(es, k) + Len(es[k + 1])
  BY <1>2, OffsetIs
<1>4. /\ f \in Seq(Byte) /\ Len(f) = Offset(es, n)
      /\ \A k \in 1 .. n : At(f, Offset(es, k - 1), es[k])
  BY <1>1, <1>2, FlattenIs
<1>5. PICK g : g = [k \in 0 .. n |-> Ok(SubSeq(prog, 1, k), at + Offset(es, k))]
  OBVIOUS
<1>6. g[0] = Ok(<<>>, at)
  <2>1. SubSeq(prog, 1, 0) = <<>>
    BY <1>2
  <2>2. 0 \in 0 .. n /\ at + 0 = at
    BY <1>2
  <2> QED
    BY <1>3, <1>5, <2>1, <2>2
<1>7. ASSUME NEW k \in 1 .. n PROVE g[k] = NextInstr(s, g[k - 1])
  <2>1. k - 1 \in 0 .. n /\ k - 1 \in 0 .. n - 1 /\ k \in 0 .. n /\ (k - 1) + 1 = k
    BY <1>2
  <2>2. PICK i : i = prog[k]
    OBVIOUS
  <2>3. PICK x : x = es[k]
    OBVIOUS
  <2>4. InstrOk(i) /\ x = EncodeInstr(i)
    BY <1>2, <2>2, <2>3
  <2>5. PICK o \in Nat : o = Offset(es, k - 1)
    BY <1>3, <2>1
  <2>6. At(f, o, x)
    BY <1>4, <2>3, <2>5
  <2>7. x \in Seq(Byte) /\ Len(x) \in Nat
    <3>1. x \in Seq(Byte)
      BY <2>4, InstrSeq
    <3> QED
      BY <3>1
  <2>8. At(s, at + o, x)
    BY <1>4, <2>6, <2>7, AtAt
  <2>9. DecodeInstr(s, at + o) = Ok(i, (at + o) + Len(x))
    <3>1. PICK p \in Nat : p = at + o
      OBVIOUS
    <3>2. At(s, p, EncodeInstr(i))
      BY <2>4, <2>8, <3>1
    <3>3. DecodeInstr(s, p) = Ok(i, p + Len(EncodeInstr(i)))
      BY <2>4, <3>2, InstrAt
    <3> QED
      BY <2>4, <3>1, <3>3
  <2>10. PICK pre : pre = SubSeq(prog, 1, k - 1)
    OBVIOUS
  <2>11. g[k - 1] = Ok(pre, at + o)
    BY <1>5, <2>1, <2>5, <2>10
  <2>12. NextInstr(s, g[k - 1]) = Ok(Append(pre, i), (at + o) + Len(x))
    <3>1. PICK r : r = g[k - 1]
      OBVIOUS
    <3>2. r.res = "ok" /\ r.val = pre /\ r.at = at + o
      BY <2>11, <3>1 DEF Ok
    <3>3. PICK d : d = DecodeInstr(s, at + o)
      OBVIOUS
    <3>4. d.res = "ok" /\ d.val = i /\ d.at = (at + o) + Len(x)
      BY <2>9, <3>3 DEF Ok
    <3>5. NextInstr(s, r) = Ok(Append(r.val, d.val), d.at)
      BY <3>2, <3>3, <3>4 DEF NextInstr, Then
    <3> QED
      BY <3>1, <3>2, <3>4, <3>5
  <2>13. SubSeq(prog, 1, k) = Append(pre, i)
    BY <1>2, <2>2, <2>10, FirstMany
  <2>14. Offset(es, k) = o + Len(x)
    <3>1. Offset(es, (k - 1) + 1) = Offset(es, k - 1) + Len(es[(k - 1) + 1])
      BY <1>3, <2>1
    <3> QED
      BY <2>1, <2>3, <2>5, <3>1
  <2>15. at + Offset(es, k) = (at + o) + Len(x)
    BY <2>7, <2>14
  <2>16. g[k] = Ok(SubSeq(prog, 1, k), at + Offset(es, k))
    BY <1>5, <2>1
  <2> QED
    BY <2>12, <2>13, <2>15, <2>16
<1>8. InstrsRun(g, s, at, n)
  <2>1. g = [k \in 0 .. n |-> g[k]]
    BY <1>5
  <2>2. ASSUME NEW k \in 0 .. n
        PROVE  g[k] = IF k = 0 THEN Ok(<<>>, at) ELSE NextInstr(s, g[k - 1])
    <3>1. CASE k = 0
      BY <1>6, <3>1
    <3>2. CASE k # 0
      <4>1. k \in 1 .. n
        BY <1>2, <3>2
      <4> QED
        BY <1>7, <3>2, <4>1
    <3> QED
      BY <3>1, <3>2
  <2>3. g = [k \in 0 .. n |-> IF k = 0 THEN Ok(<<>>, at) ELSE NextInstr(s, g[k - 1])]
    BY <2>1, <2>2
  <2> QED
    BY <2>3 DEF InstrsRun
<1>9. DecodeInstrs(s, at, n) = g[n]
  BY <1>2, <1>8, InstrsAre
<1>10. g[n] = Ok(prog, at + Len(f))
  <2>1. SubSeq(prog, 1, n) = prog
    BY <1>2
  <2>2. n \in 0 .. n
    BY <1>2
  <2> QED
    BY <1>4, <1>5, <2>1, <2>2
<1> QED
  BY <1>9, <1>10

\* A program is written as bytes.
LEMMA ProgramSeq ==
  ASSUME NEW prog, Encodable(prog)
  PROVE  EncodeProgram(prog) \in Seq(Byte)
<1>1. PICK n : n = Len(prog)
  OBVIOUS
<1>2. n \in Words64 /\ InstrBytes(prog) \in Seq(Seq(Byte))
  BY <1>1, InstrBytesSeq
<1>3. FlattenSeq(InstrBytes(prog)) \in Seq(Byte)
  BY <1>2, FlattenIs
<1>4. WriteUvarint(n) \in Seq(Byte)
  BY <1>2, VarSeq
<1> QED
  BY <1>1, <1>3, <1>4 DEF EncodeProgram, InstrBytes

\* A program is read as it was written, if it is not longer than the reader allows.
LEMMA ProgramAt ==
  ASSUME NEW prog, Encodable(prog), NEW s, s = EncodeProgram(prog), Len(s) <= MaxPayload
  PROVE  /\ s \in Seq(Byte)
         /\ DecodeProgram(s) = IF Len(prog) > MaxInstrs THEN Bad ELSE Ok(prog, Len(s))
<1>1. PICK n : n = Len(prog)
  OBVIOUS
<1>2. n \in Words64 /\ n \in Nat /\ InstrBytes(prog) \in Seq(Seq(Byte))
  BY <1>1, InstrBytesSeq
<1>3. PICK f : f = FlattenSeq(InstrBytes(prog))
  OBVIOUS
<1>4. f \in Seq(Byte)
  BY <1>2, <1>3, FlattenIs
<1>5. PICK x : x = WriteUvarint(n)
  OBVIOUS
<1>6. x \in Seq(Byte)
  BY <1>2, <1>5, VarSeq
<1>7. s = x \o f
  BY <1>1, <1>3, <1>5 DEF EncodeProgram, InstrBytes
<1>8. s \in Seq(Byte)
  BY <1>4, <1>6, <1>7
<1>9. PICK z \in Nat : z = 0
  OBVIOUS
<1>10. At(s, z, s)
  BY <1>8, <1>9, AtSelf
<1>11. InTwo(s, z, x, z + Len(x), f, s)
  BY <1>4, <1>6, <1>7, <1>8, <1>10, TwoAt
<1>12. PICK p : p = z + Len(x)
  OBVIOUS
<1>13. At(s, z, x) /\ p \in Nat /\ At(s, p, f) /\ z + Len(s) = p + Len(f) /\ Len(s) \in Nat
  BY <1>11, <1>12 DEF InTwo
<1>14. Uvarint(s, 0) = Ok(n, p)
  <2>1. At(s, z, x)
    BY <1>13
  <2>2. Uvarint(s, z) = Ok(n, z + Len(x))
    BY <1>2, <1>5, <1>8, <2>1, UvarintAt
  <2> QED
    BY <1>9, <1>12, <2>2
<1>15. CASE n > MaxInstrs
  BY <1>1, <1>8, <1>14, <1>15 DEF DecodeProgram, Then, Ok
<1>16. CASE ~ (n > MaxInstrs)
  <2>1. DecodeInstrs(s, p, n) = Ok(prog, p + Len(f))
    <3>1. p \in Nat /\ At(s, p, f)
      BY <1>13
    <3> QED
      BY <1>1, <1>3, <1>8, <3>1, InstrsAt
  <2>2. p + Len(f) = Len(s)
    BY <1>9, <1>13
  <2>3. Whole(DecodeInstrs(s, p, n), s) = Ok(prog, Len(s))
    BY <2>1, <2>2 DEF Whole, Ok
  <2> QED
    BY <1>1, <1>8, <1>14, <1>16, <2>3 DEF DecodeProgram, Then, Ok
<1> QED
  BY <1>15, <1>16

-----------------------------------------------------------------------------
(* Lists of digests *)

\* A list of digests is read as it was written, if it is not too long.
LEMMA NeedsAt ==
  ASSUME NEW ds \in Seq(DigestBytes), Len(ds) < Word, NEW s, s = EncodeNeeds(ds)
  PROVE  s \in Seq(Byte) /\ DecodeNeeds(s) = IF Len(ds) > MaxInstrs THEN Bad ELSE Ok(ds, Len(s))
<1>1. PICK n : n = Len(ds)
  OBVIOUS
<1>2. n \in Nat /\ n \in Words64 /\ MaxInstrs \in Nat
  BY <1>1, Widths DEF Words64
<1>3. PICK T : T = Seq(Byte)
  OBVIOUS
<1>4. \A k \in 1 .. n : ds[k] \in T /\ Len(ds[k]) = DigestLen
  BY <1>1, <1>3, DigestSeq
<1>5. ds \in Seq(Seq(Byte)) /\ DigestLen \in Nat
  <2>1. ds = [k \in 1 .. n |-> ds[k]]
    BY <1>1
  <2>2. ds \in Seq(T)
    BY <1>2, <1>4, <2>1
  <2> QED
    BY <1>3, <2>2, Widths
<1>6. PICK f : f = FlattenSeq(ds)
  OBVIOUS
<1>7. /\ f \in Seq(Byte) /\ Len(f) = Offset(ds, n)
      /\ \A k \in 1 .. n : At(f, Offset(ds, k - 1), ds[k])
  BY <1>1, <1>5, <1>6, FlattenIs
<1>8. \A k \in 0 .. n : Offset(ds, k) = k * DigestLen
  BY <1>1, <1>4, <1>5, OffsetEven
<1>9. PICK x : x = WriteUvarint(n)
  OBVIOUS
<1>10. x \in Seq(Byte)
  BY <1>2, <1>9, VarSeq
<1>11. s = x \o f
  BY <1>1, <1>6, <1>9 DEF EncodeNeeds
<1>12. s \in Seq(Byte)
  BY <1>7, <1>10, <1>11
<1>13. PICK z \in Nat : z = 0
  OBVIOUS
<1>14. At(s, z, s)
  BY <1>12, <1>13, AtSelf
<1>15. f \in Seq(Byte)
  BY <1>7
<1>16. InTwo(s, z, x, z + Len(x), f, s)
  BY <1>10, <1>11, <1>12, <1>14, <1>15, TwoAt
<1>17. PICK p : p = z + Len(x)
  OBVIOUS
<1>18. At(s, z, x) /\ p \in Nat /\ At(s, p, f)
  BY <1>16, <1>17 DEF InTwo
<1>19. Uvarint(s, 0) = Ok(n, p)
  <2>1. At(s, z, x)
    BY <1>18
  <2>2. Uvarint(s, z) = Ok(n, z + Len(x))
    BY <1>2, <1>9, <1>12, <2>1, UvarintAt
  <2> QED
    BY <1>13, <1>17, <2>2
<1>20. CASE n > MaxInstrs
  BY <1>1, <1>12, <1>19, <1>20 DEF DecodeNeeds, Then, Ok
<1>21. CASE ~ (n > MaxInstrs)
  <2>1. PICK w : w = n * DigestLen
    OBVIOUS
  <2>2. w = Len(f)
    <3>1. n \in 0 .. n
      BY <1>2
    <3> QED
      BY <1>7, <1>8, <2>1, <3>1
  <2>3. Take(s, p, w) = Ok(f, p + w)
    <3>1. p \in Nat /\ At(s, p, f)
      BY <1>18
    <3> QED
      BY <1>12, <1>15, <2>2, <3>1, TakeAt
  <2>4. ASSUME NEW k \in 1 .. n
        PROVE  SubSeq(f, (k - 1) * DigestLen + 1, k * DigestLen) = ds[k]
    <3>1. k - 1 \in 0 .. n
      BY <1>2
    <3>2. PICK o : o = (k - 1) * DigestLen
      OBVIOUS
    <3>3. o \in Nat
      <4>1. k - 1 \in Nat
        BY <1>2
      <4> QED
        BY <1>5, <3>2, <4>1
    <3>4. At(f, o, ds[k])
      BY <1>7, <1>8, <3>1, <3>2
    <3>5. PICK d \in Seq(Byte) : d = ds[k]
      BY <1>3, <1>4
    <3>6. Len(d) = DigestLen
      BY <1>4, <3>5
    <3>7. SubSeq(f, o + 1, o + Len(d)) = d
      BY <1>15, <3>3, <3>4, <3>5, AtSub
    <3>8. o + DigestLen = k * DigestLen
      <4>1. k \in Nat
        BY <1>2
      <4> QED
        BY <1>5, <3>2, <4>1
    <3> QED
      BY <3>2, <3>5, <3>6, <3>7, <3>8
  <2>5. [k \in 1 .. n |-> SubSeq(f, (k - 1) * DigestLen + 1, k * DigestLen)] = ds
    <3>1. ds = [k \in 1 .. n |-> ds[k]]
      BY <1>1
    <3> QED
      BY <2>4, <3>1
  <2>6. PICK r : r = Uvarint(s, 0)
    OBVIOUS
  <2>7. r.res = "ok" /\ r.val = n /\ r.at = p
    BY <1>19, <2>6 DEF Ok
  <2>8. PICK a : a = Take(s, p, w)
    OBVIOUS
  <2>9. a.res = "ok" /\ a.val = f
    BY <2>3, <2>8 DEF Ok
  <2>10. DecodeNeeds(s) =
           Ok([k \in 1 .. n |-> SubSeq(f, (k - 1) * DigestLen + 1, k * DigestLen)], Len(s))
    BY <1>21, <2>1, <2>6, <2>7, <2>8, <2>9 DEF DecodeNeeds, Then
  <2> QED
    BY <1>1, <1>12, <1>21, <2>5, <2>10
<1> QED
  BY <1>20, <1>21

-----------------------------------------------------------------------------
(* Blocks *)

\* The bytes of a block: the digest, the mark or nothing, kind, length and body.
BlockParts(d, m, kind, len, y) == (((d \o m) \o <<kind>>) \o WriteUvarint(len)) \o y

\* What is read of them, up to the body, which starts after the first p.
HeadRead(s, d, m, kind, len, y, p) ==
  /\ s \in Seq(Byte) /\ Len(s) \in Nat /\ p \in Nat /\ y \in Seq(Byte)
  /\ SubSeq(s, 1, DigestLen) = d /\ At(s, DigestLen, m)
  /\ s[DigestLen + Len(m) + 1] = kind
  /\ Take(s, DigestLen + Len(m), 1) = Ok(<<kind>>, DigestLen + Len(m) + 1)
  /\ Uvarint(s, DigestLen + Len(m) + 1) = Ok(len, p)
  /\ SubSeq(s, p + 1, Len(s)) = y /\ Len(s) >= DigestLen + 2 /\ Len(y) <= Len(s)

\* The head of a block is read as it was written.
LEMMA HeadAt ==
  ASSUME NEW d \in DigestBytes, NEW m \in Seq(Byte), NEW kind \in Kinds, NEW len \in Words64,
         NEW y \in Seq(Byte), NEW s, s = BlockParts(d, m, kind, len, y)
  PROVE  \E p : HeadRead(s, d, m, kind, len, y, p)
<1>1. PICK h1 : h1 = d \o m
  OBVIOUS
<1>2. PICK k : k = <<kind>>
  OBVIOUS
<1>3. PICK h2 : h2 = h1 \o k
  OBVIOUS
<1>4. PICK x : x = WriteUvarint(len)
  OBVIOUS
<1>5. PICK h3 : h3 = h2 \o x
  OBVIOUS
<1>6. s = h3 \o y
  BY <1>1, <1>2, <1>3, <1>4, <1>5 DEF BlockParts
<1>7. d \in Seq(Byte) /\ Len(d) = DigestLen /\ DigestLen \in Nat
  BY DigestSeq, Widths
<1>8. k \in Seq(Byte) /\ Len(k) = 1 /\ k[1] = kind
  BY <1>2, SmallBytes
<1>9. x \in Seq(Byte) /\ Len(x) \in Nat /\ Len(x) > 0
  BY <1>4, VarSeq
<1>10. h1 \in Seq(Byte)
  BY <1>1, <1>7
<1>11. h2 \in Seq(Byte)
  BY <1>3, <1>8, <1>10
<1>12. h3 \in Seq(Byte)
  BY <1>5, <1>9, <1>11
<1>13. s \in Seq(Byte)
  BY <1>6, <1>12
<1>14. PICK z \in Nat : z = 0
  OBVIOUS
<1>15. At(s, z, s)
  BY <1>13, <1>14, AtSelf
<1>16. InTwo(s, z, h3, z + Len(h3), y, s)
  BY <1>6, <1>12, <1>13, <1>15, TwoAt
<1>17. At(s, z, h3)
  BY <1>16 DEF InTwo
<1>18. InTwo(s, z, h2, z + Len(h2), x, h3)
  BY <1>5, <1>9, <1>11, <1>13, <1>17, TwoAt
<1>19. At(s, z, h2)
  BY <1>18 DEF InTwo
<1>20. InTwo(s, z, h1, z + Len(h1), k, h2)
  BY <1>3, <1>8, <1>10, <1>13, <1>19, TwoAt
<1>21. At(s, z, h1)
  BY <1>20 DEF InTwo
<1>22. InTwo(s, z, d, z + Len(d), m, h1)
  BY <1>1, <1>7, <1>13, <1>21, TwoAt
<1>23. PICK p1 : p1 = DigestLen + Len(m)
  OBVIOUS
<1>24. PICK p2 : p2 = p1 + 1
  OBVIOUS
<1>25. PICK p : p = z + Len(h3)
  OBVIOUS
<1>26. p1 \in Nat /\ At(s, p1, k) /\ p1 = z + Len(h1) /\ p1 >= DigestLen
  <2>1. Len(m) \in Nat
    OBVIOUS
  <2>2. p1 = z + Len(h1)
    BY <1>1, <1>7, <1>14, <1>23, <1>22, <2>1 DEF InTwo
  <2> QED
    BY <1>7, <1>20, <1>23, <2>1, <2>2 DEF InTwo
<1>27. p2 \in Nat /\ At(s, p2, x) /\ p2 = z + Len(h2)
  <2>1. p2 = z + Len(h2)
    BY <1>8, <1>20, <1>24, <1>26 DEF InTwo
  <2> QED
    BY <1>18, <2>1 DEF InTwo
<1>28. p \in Nat /\ At(s, p, y) /\ p = p2 + Len(x) /\ z + Len(s) = p + Len(y) /\ Len(s) \in Nat
  <2>1. p = p2 + Len(x)
    BY <1>18, <1>25, <1>27 DEF InTwo
  <2> QED
    BY <1>16, <1>25, <2>1 DEF InTwo
<1>29. SubSeq(s, 1, DigestLen) = d
  <2>1. At(s, z, d)
    BY <1>22 DEF InTwo
  <2>2. SubSeq(s, z + 1, z + Len(d)) = d
    BY <1>7, <1>13, <2>1, AtSub
  <2> QED
    BY <1>7, <1>14, <2>2
<1>30. At(s, DigestLen, m)
  <2>1. z + Len(d) = DigestLen
    BY <1>7, <1>14
  <2> QED
    BY <1>22, <2>1 DEF InTwo
<1>31. s[p1 + 1] = kind
  <2>1. \A i \in 1 .. Len(k) : s[p1 + i] = k[i]
    BY <1>26 DEF At
  <2>2. 1 \in 1 .. Len(k)
    BY <1>8
  <2> QED
    BY <1>8, <2>1, <2>2
<1>32. Take(s, p1, 1) = Ok(k, p2)
  <2>1. p1 \in Nat /\ At(s, p1, k)
    BY <1>26
  <2>2. PICK n : n = 1
    OBVIOUS
  <2>3. k \in Seq(Byte) /\ n = Len(k)
    BY <1>8, <2>2
  <2>4. Take(s, p1, n) = Ok(k, p1 + n)
    BY <1>13, <2>1, <2>3, TakeAt
  <2> QED
    BY <1>24, <2>2, <2>4
<1>33. Uvarint(s, p2) = Ok(len, p)
  <2>1. p2 \in Nat /\ At(s, p2, WriteUvarint(len))
    BY <1>4, <1>27
  <2>2. Uvarint(s, p2) = Ok(len, p2 + Len(WriteUvarint(len)))
    BY <1>13, <2>1, UvarintAt
  <2> QED
    BY <1>4, <1>28, <2>2
<1>34. SubSeq(s, p + 1, Len(s)) = y
  <2>1. p \in Nat /\ At(s, p, y)
    BY <1>28
  <2>2. SubSeq(s, p + 1, p + Len(y)) = y
    BY <1>13, <2>1, AtSub
  <2>3. p + Len(y) = Len(s)
    BY <1>14, <1>28
  <2> QED
    BY <2>2, <2>3
<1>35. Len(s) >= DigestLen + 2 /\ Len(y) <= Len(s)
  <2>1. Len(y) \in Nat
    OBVIOUS
  <2> QED
    BY <1>7, <1>9, <1>14, <1>24, <1>26, <1>28, <2>1
<1>36. HeadRead(s, d, m, kind, len, y, p)
  BY <1>2, <1>13, <1>23, <1>24, <1>28, <1>29, <1>30, <1>31, <1>32, <1>33, <1>34, <1>35 DEF HeadRead
<1> QED
  BY <1>36

\* A block of bytes is read as it was written.
LEMMA BytesBlockAt ==
  ASSUME NEW b, BlockOk(b), b.body = "bytes", NEW s, s = EncodeBlock(b)
  PROVE  s \in Seq(Byte) /\ DecodeBlock(s) = Ok(b, Len(s))
<1>1. /\ b.digest \in DigestBytes /\ b.kind \in Kinds /\ b.len \in Words64
      /\ b.bytes \in Seq(Byte) /\ b = BlockOfBytes(b.digest, b.kind, b.bytes)
  BY DEF BlockOk
<1>2. PICK d : d = b.digest
  OBVIOUS
<1>3. PICK kind : kind = b.kind
  OBVIOUS
<1>4. PICK y : y = b.bytes
  OBVIOUS
<1>5. PICK len : len = b.len
  OBVIOUS
<1>6. PICK m : m = <<>>
  OBVIOUS
<1>7. d \in DigestBytes /\ kind \in Kinds /\ y \in Seq(Byte) /\ len \in Words64 /\ m \in Seq(Byte)
  BY <1>1, <1>2, <1>3, <1>4, <1>5, <1>6
<1>8. len = Len(y) /\ b = BlockOfBytes(d, kind, y)
  BY <1>1, <1>2, <1>3, <1>4, <1>5 DEF BlockOfBytes
<1>9. s = BlockParts(d, m, kind, len, y)
  BY <1>2, <1>3, <1>4, <1>5, <1>6 DEF EncodeBlock, BlockParts
<1>10. PICK p : HeadRead(s, d, m, kind, len, y, p)
  BY <1>7, <1>9, HeadAt
<1>11. DigestLen \in Nat /\ Len(m) = 0 /\ DigestLen + 0 = DigestLen
  BY <1>6, Widths
<1>12. s[DigestLen + 1] # ProgMark
  <2>1. s[DigestLen + 1] = kind
    BY <1>10, <1>11 DEF HeadRead
  <2> QED
    BY <1>7, <2>1, SmallBytes
<1>13. PICK r : r = Take(s, DigestLen + 0, 1)
  OBVIOUS
<1>14. r.res = "ok" /\ r.val[1] = kind /\ r.at = DigestLen + 1
  BY <1>10, <1>11, <1>13 DEF HeadRead, Ok
<1>15. PICK u : u = Uvarint(s, DigestLen + 1)
  OBVIOUS
<1>16. u.res = "ok" /\ u.val = len /\ u.at = p
  BY <1>10, <1>11, <1>15 DEF HeadRead, Ok
<1>17. SubSeq(s, p + 1, Len(s)) = y /\ SubSeq(s, 1, DigestLen) = d /\ ~ (Len(s) < DigestLen + 2)
  BY <1>10, <1>11 DEF HeadRead
<1>18. DecodeBlock(s) = Ok(BlockOfBytes(d, kind, y), Len(s))
  BY <1>7, <1>8, <1>12, <1>13, <1>14, <1>15, <1>16, <1>17 DEF DecodeBlock, Then
<1>19. s \in Seq(Byte)
  BY <1>10 DEF HeadRead
<1> QED
  BY <1>8, <1>18, <1>19

\* So is a block that is a program, if the program is not too long.
LEMMA ProgramBlockAt ==
  ASSUME NEW b, BlockOk(b), b.body # "bytes", NEW s, s = EncodeBlock(b), Len(s) <= MaxPayload
  PROVE  /\ s \in Seq(Byte) /\ b.body = "program"
         /\ DecodeBlock(s) = IF Len(b.instrs) > MaxInstrs THEN Bad ELSE Ok(b, Len(s))
<1>1. /\ b.digest \in DigestBytes /\ b.kind \in Kinds /\ b.len \in Words64
      /\ Encodable(b.instrs) /\ b = BlockOfProgram(b.digest, b.kind, b.len, b.instrs)
  BY DEF BlockOk
<1>2. PICK d : d = b.digest
  OBVIOUS
<1>3. PICK kind : kind = b.kind
  OBVIOUS
<1>4. PICK prog : prog = b.instrs
  OBVIOUS
<1>5. PICK len : len = b.len
  OBVIOUS
<1>6. PICK m : m = <<ProgMark>>
  OBVIOUS
<1>7. PICK y : y = EncodeProgram(prog)
  OBVIOUS
<1>8. b.body = "program" /\ b = BlockOfProgram(d, kind, len, prog) /\ Encodable(prog)
  BY <1>1, <1>2, <1>3, <1>4, <1>5 DEF BlockOfProgram
<1>9. y \in Seq(Byte)
  BY <1>7, <1>8, ProgramSeq
<1>10. /\ d \in DigestBytes /\ kind \in Kinds /\ len \in Words64
       /\ m \in Seq(Byte) /\ Len(m) = 1 /\ m[1] = ProgMark
  BY <1>1, <1>2, <1>3, <1>5, <1>6, SmallBytes
<1>11. s = BlockParts(d, m, kind, len, y)
  BY <1>2, <1>3, <1>4, <1>5, <1>6, <1>7, <1>8 DEF EncodeBlock, BlockParts
<1>12. PICK p : HeadRead(s, d, m, kind, len, y, p)
  BY <1>9, <1>10, <1>11, HeadAt
<1>13. DigestLen \in Nat
  BY Widths
<1>14. s[DigestLen + 1] = ProgMark
  <2>1. At(s, DigestLen, m)
    BY <1>12 DEF HeadRead
  <2>2. \A i \in 1 .. Len(m) : s[DigestLen + i] = m[i]
    BY <2>1 DEF At
  <2>3. 1 \in 1 .. Len(m)
    BY <1>10
  <2> QED
    BY <1>10, <2>2, <2>3
<1>15. PICK r : r = Take(s, DigestLen + 1, 1)
  OBVIOUS
<1>16. r.res = "ok" /\ r.val[1] = kind /\ r.at = DigestLen + 1 + 1
  BY <1>10, <1>12, <1>15 DEF HeadRead, Ok
<1>17. PICK u : u = Uvarint(s, DigestLen + 1 + 1)
  OBVIOUS
<1>18. u.res = "ok" /\ u.val = len /\ u.at = p
  BY <1>10, <1>12, <1>17 DEF HeadRead, Ok
<1>19. SubSeq(s, p + 1, Len(s)) = y /\ SubSeq(s, 1, DigestLen) = d /\ ~ (Len(s) < DigestLen + 2)
       /\ Len(y) <= Len(s) /\ Len(s) \in Nat /\ s \in Seq(Byte)
  BY <1>12, <1>13 DEF HeadRead
<1>20. Len(y) <= MaxPayload
  <2>1. Len(y) \in Nat
    BY <1>9
  <2> QED
    BY <1>19, <2>1, Widths
<1>21. DecodeProgram(y) = IF Len(prog) > MaxInstrs THEN Bad ELSE Ok(prog, Len(y))
  BY <1>7, <1>8, <1>20, ProgramAt
<1>22. PICK c : c = DecodeProgram(y)
  OBVIOUS
<1>23. DecodeBlock(s) = Then(c, LAMBDA e : Ok(BlockOfProgram(d, kind, len, e.val), Len(s)))
  BY <1>10, <1>14, <1>15, <1>16, <1>17, <1>18, <1>19, <1>22 DEF DecodeBlock, Then
<1>24. CASE Len(prog) > MaxInstrs
  <2>1. c = Bad /\ c.res # "ok"
    BY <1>21, <1>22, <1>24 DEF Bad
  <2>2. DecodeBlock(s) = c
    BY <1>23, <2>1 DEF Then
  <2> QED
    BY <1>4, <1>8, <1>19, <1>24, <2>1, <2>2
<1>25. CASE ~ (Len(prog) > MaxInstrs)
  <2>1. c.res = "ok" /\ c.val = prog
    BY <1>21, <1>22, <1>25 DEF Ok
  <2> QED
    BY <1>4, <1>8, <1>19, <1>23, <1>25, <2>1 DEF Then
<1> QED
  BY <1>24, <1>25

-----------------------------------------------------------------------------
(* Bloom filters *)

\* A filter has a power of two of bits, which are some whole words.
Sized(bits, w) ==
  /\ bits \in Nat /\ bits > 0 /\ bits < Word /\ w \in Nat /\ w > 0
  /\ bits = WordBits * w /\ bits \div WordBits = w /\ bits % WordBits = 0

\* A filter has a whole number of words, and its number of bits fits in one.
LEMMA BloomSize ==
  ASSUME NEW val, FilterOk(val), NEW bits, bits = BitsFor(val.keys)
  PROVE  \E w : Sized(bits, w)
<1>1. PICK keys : keys = val.keys
  OBVIOUS
<1>2. PICK x : x = BitsPerKey * KeysFor(keys)
  OBVIOUS
<1>3. x \in Nat /\ WordBits <= x
  <2>1. Cardinality(keys) \in Nat
    BY <1>1, FS_CardinalityType DEF FilterOk
  <2>2. PICK n : n = KeysFor(keys)
    OBVIOUS
  <2>3. /\ MinKeys \in Nat /\ BitsPerKey \in Nat /\ WordBits \in Nat
        /\ WordBits <= BitsPerKey * MinKeys
    BY Widths, WidthAssumption
  <2>4. n \in Nat /\ n >= MinKeys
    BY <2>1, <2>2, <2>3 DEF KeysFor
  <2>5. PICK c \in Nat : n = MinKeys + c
    <3>1. n - MinKeys \in Nat /\ n = MinKeys + (n - MinKeys)
      BY <2>3, <2>4
    <3> QED
      BY <3>1
  <2>6. BitsPerKey * n = BitsPerKey * MinKeys + BitsPerKey * c
    BY <2>3, <2>5
  <2>7. BitsPerKey * c \in Nat /\ BitsPerKey * MinKeys \in Nat
    BY <2>3
  <2> QED
    BY <1>2, <2>2, <2>3, <2>6, <2>7
<1>4. \A b : Fits(keys, b) <=> x <= b /\ b < 2 * x
  <2>1. 2 * BitsPerKey * KeysFor(keys) = 2 * x
    <3>1. Cardinality(keys) \in Nat
      BY <1>1, FS_CardinalityType DEF FilterOk
    <3>2. PICK n : n = KeysFor(keys)
      OBVIOUS
    <3>3. n \in Nat
      BY <3>1, <3>2, Widths DEF KeysFor
    <3>4. BitsPerKey \in Nat
      BY Widths
    <3>5. 2 * BitsPerKey * n = 2 * (BitsPerKey * n)
      BY <3>3, <3>4
    <3> QED
      BY <1>2, <3>2, <3>5
  <2> QED
    BY <1>2, <2>1 DEF Fits
<1>5. PICK e0 \in 0 .. WordBits : Fits(keys, Power(2, e0)) /\ Power(2, e0) < Word
  BY <1>1 DEF FilterOk
<1>6. PICK e \in 0 .. WordBits : bits = Power(2, e) /\ Fits(keys, bits)
  BY <1>1, <1>5 DEF BitsFor
<1>7. e \in Nat /\ e0 \in Nat /\ WordBits \in Nat
  BY Widths
<1>8. PICK b0 \in Nat : b0 = Power(2, e0)
  BY <1>7, PowerIs
<1>9. bits \in Nat /\ bits > 0
  BY <1>6, <1>7, PowerPositive
<1>10. x <= bits /\ bits < 2 * x /\ x <= b0 /\ b0 < 2 * x /\ b0 < Word
  BY <1>4, <1>5, <1>6, <1>8
<1>11. bits <= b0
  <2>1. CASE e <= e0
    <3>1. Power(2, e) <= Power(2, e0)
      BY <1>7, <2>1, PowerGrows
    <3> QED
      BY <1>6, <1>8, <3>1
  <2>2. CASE e0 + 1 <= e
    <3>1. PICK m \in Nat : m = e0 + 1
      BY <1>7
    <3>2. Power(2, m) <= Power(2, e)
      BY <1>7, <2>2, <3>1, PowerGrows
    <3>3. Power(2, e0 + 1) = 2 * Power(2, e0)
      BY <1>7, PowerIs
    <3> QED
      BY <1>3, <1>6, <1>8, <1>9, <1>10, <3>1, <3>2, <3>3
  <2> QED
    BY <1>7, <2>1, <2>2
<1>12. bits < Word
  BY <1>9, <1>10, <1>11, Widths
<1>13. PICK f \in 0 .. WordBits : WordBits = Power(2, f)
  BY WidthAssumption
<1>14. f \in Nat /\ f <= e
  <2>1. f \in Nat
    BY <1>7
  <2>2. CASE e + 1 <= f
    <3>1. PICK m \in Nat : m = e + 1
      BY <1>7
    <3>2. Power(2, m) <= Power(2, f)
      BY <2>1, <2>2, <3>1, PowerGrows
    <3>3. Power(2, e + 1) = 2 * Power(2, e)
      BY <1>7, PowerIs
    <3>4. 2 * bits <= WordBits
      BY <1>6, <1>13, <3>1, <3>2, <3>3
    <3> QED
      BY <1>3, <1>7, <1>9, <1>10, <3>4
  <2> QED
    BY <1>7, <2>1, <2>2
<1>15. PICK g \in Nat : e = f + g
  <2>1. e - f \in Nat /\ e = f + (e - f)
    BY <1>7, <1>14
  <2> QED
    BY <2>1
<1>16. PICK w : w = Power(2, g)
  OBVIOUS
<1>17. w \in Nat /\ w > 0
  BY <1>16, PowerPositive
<1>18. bits = WordBits * w
  <2>1. Power(2, f + g) = Power(2, f) * Power(2, g)
    BY <1>14, PowerAdd
  <2> QED
    BY <1>6, <1>13, <1>15, <1>16, <2>1
<1>19. bits \div WordBits = w /\ bits % WordBits = 0
  <2>1. PICK z : z = 0
    OBVIOUS
  <2>2. z \in 0 .. WordBits - 1
    BY <2>1, Widths
  <2>3. bits = WordBits * w + z
    BY <1>7, <1>9, <1>18, <2>1
  <2>4. WordBits > 0
    BY Widths
  <2>5. bits \div WordBits = w /\ bits % WordBits = z
    BY <1>7, <1>17, <2>2, <2>3, <2>4, DivModOf
  <2> QED
    BY <2>1, <2>5
<1>20. Sized(bits, w)
  BY <1>9, <1>12, <1>17, <1>18, <1>19 DEF Sized
<1> QED
  BY <1>20

\* The words of a filter: bits made into numbers, that have them for digits.
BitSet(keys, bits) == UNION {Indices(d, Hashes, bits) : d \in keys}
WordOf(set, w) ==
  Number(2, [b \in 1 .. WordBits |-> IF (w - 1) * WordBits + b - 1 \in set THEN 1 ELSE 0])

\* A word has the bits it was made of.
LEMMA WordIs ==
  ASSUME NEW set, NEW w
  PROVE  /\ WordOf(set, w) \in Words64
         /\ \A b \in 1 .. WordBits :
              Digit(2, WordOf(set, w), b) = IF (w - 1) * WordBits + b - 1 \in set THEN 1 ELSE 0
<1>1. PICK ds : ds = [b \in 1 .. WordBits |-> IF (w - 1) * WordBits + b - 1 \in set THEN 1 ELSE 0]
  OBVIOUS
<1>2. PICK t : t = [k \in 1 .. WordBits |-> ds[k] * Power(2, k - 1)]
  OBVIOUS
<1>3. \A k \in 1 .. WordBits : ds[k] = IF (w - 1) * WordBits + k - 1 \in set THEN 1 ELSE 0
  BY <1>1
<1>4. \A k \in 1 .. WordBits : ds[k] \in 0 .. 2 - 1
  BY <1>3
<1>5. \A k \in 1 .. WordBits : t[k] = ds[k] * Power(2, k - 1)
  BY <1>2
<1>6. PICK v : v = Upto(t, WordBits)
  OBVIOUS
<1>7. WordOf(set, w) = v
  <2>1. DOMAIN ds = 1 .. WordBits
    BY <1>1
  <2>2. Number(2, ds) = Sum([k \in 1 .. WordBits |-> ds[k] * Power(2, k - 1)])
    BY <2>1 DEF Number
  <2>3. [k \in 1 .. WordBits |-> ds[k] * Power(2, k - 1)] = [k \in 1 .. WordBits |-> t[k]]
    BY <1>5
  <2> QED
    BY <1>1, <1>6, <2>2, <2>3 DEF WordOf, Upto
<1>8. /\ v \in Nat /\ v < Power(2, WordBits)
      /\ \A k \in 1 .. WordBits : Digit(2, v, k) = ds[k]
  <2>1. WordBits \in Nat
    BY Widths
  <2>2. PICK base \in Nat : base = 2
    OBVIOUS
  <2>3. base > 0
    BY <2>2
  <2>4. \A k \in 1 .. WordBits : ds[k] \in 0 .. base - 1
    BY <1>4, <2>2
  <2>5. \A k \in 1 .. WordBits : t[k] = ds[k] * Power(base, k - 1)
    BY <1>5, <2>2
  <2>6. HasDigits(base, Upto(t, WordBits), WordBits, ds)
    BY <2>1, <2>3, <2>4, <2>5, DigitsOfNumber
  <2> QED
    BY <1>6, <2>2, <2>6 DEF HasDigits
<1>9. v \in Words64
  <2>1. Power(2, WordBits) <= Word /\ WordBits \in Nat /\ Word \in Nat
    BY Widths, WidthAssumption
  <2>2. Power(2, WordBits) \in Nat
    BY <2>1, PowerIs
  <2> QED
    BY <1>8, <2>1, <2>2 DEF Words64
<1> QED
  BY <1>3, <1>7, <1>8, <1>9

\* The filter of some keys.
LEMMA BloomIs ==
  ASSUME NEW keys, NEW bits, bits = BitsFor(keys), NEW w, Sized(bits, w)
  PROVE  BloomOf(keys) = [bits |-> bits, k |-> Hashes,
                          words |-> [v \in 1 .. w |-> WordOf(BitSet(keys, bits), v)]]
BY DEF BloomOf, WordOf, BitSet, Sized

\* It has every key it was made of.
LEMMA BloomHas ==
  ASSUME NEW val, FilterOk(val), NEW d \in val.keys
  PROVE  Has(BloomOf(val.keys), d)
<1>1. PICK bits : bits = BitsFor(val.keys)
  OBVIOUS
<1>2. PICK w : Sized(bits, w)
  BY <1>1, BloomSize
<1>3. PICK set : set = BitSet(val.keys, bits)
  OBVIOUS
<1>4. PICK b : b = BloomOf(val.keys)
  OBVIOUS
<1>5. b = [bits |-> bits, k |-> Hashes, words |-> [v \in 1 .. w |-> WordOf(set, v)]]
  BY <1>1, <1>2, <1>3, <1>4, BloomIs
<1>6. b.bits = bits /\ b.k = Hashes /\ \A v \in 1 .. w : b.words[v] = WordOf(set, v)
  BY <1>5
<1>7. /\ bits \in Nat /\ bits > 0 /\ WordBits \in Nat /\ WordBits > 0
      /\ w \in Nat /\ bits = WordBits * w
  BY <1>2, Widths DEF Sized
<1>8. ASSUME NEW i \in Indices(d, Hashes, bits)
      PROVE  Digit(2, b.words[i \div WordBits + 1], (i % WordBits) + 1) = 1
  <2>1. i \in 0 .. bits - 1
    <3>1. PICK j \in 0 .. Hashes - 1 : i = ((Hash(d)[1] + Hash(d)[2] * (j + 1)) % Word) % bits
      BY DEF Indices
    <3>2. d \in DigestBytes
      BY DEF FilterOk
    <3>3. d[1] \in Nat /\ d[DigestLen] \in Nat
      <4>1. 1 \in 1 .. DigestLen /\ DigestLen \in 1 .. DigestLen
        BY Widths
      <4> QED
        BY <3>2, <4>1, Widths DEF DigestBytes, Byte
    <3>4. PICK h1 \in Nat : h1 = Hash(d)[1]
      BY <3>3 DEF Hash
    <3>5. PICK h2 \in Nat : h2 = Hash(d)[2]
      BY <3>3 DEF Hash
    <3>6. PICK a : a = h1 + h2 * (j + 1)
      OBVIOUS
    <3>7. a \in Nat
      <4>1. j + 1 \in Nat
        BY Widths
      <4>2. h2 * (j + 1) \in Nat
        BY <4>1
      <4> QED
        BY <3>6, <4>2
    <3>8. PICK c : c = a % Word
      OBVIOUS
    <3>9. c \in Nat
      BY <3>7, <3>8, Widths
    <3>10. i = c % bits
      BY <3>1, <3>4, <3>5, <3>6, <3>8
    <3> QED
      BY <1>7, <3>9, <3>10
  <2>2. i \in set
    BY <1>3 DEF BitSet
  <2>3. PICK q : q = i \div WordBits
    OBVIOUS
  <2>4. PICK r : r = i % WordBits
    OBVIOUS
  <2>5. i \in Nat
    BY <1>7, <2>1
  <2>6. q \in Nat /\ r \in 0 .. WordBits - 1 /\ i = WordBits * q + r
    <3>1. PICK u \in Nat : u = WordBits /\ u > 0
      BY Widths
    <3>2. PICK v \in Nat : v = i
      BY <2>5
    <3>3. q = v \div u /\ r = v % u
      BY <2>3, <2>4, <3>1, <3>2
    <3>4. u > 0
      BY <3>1
    <3>5. q \in Nat /\ r \in 0 .. u - 1 /\ v = u * q + r
      BY <3>3, <3>4, DivMod
    <3> QED
      BY <3>1, <3>2, <3>5
  <2>7. q + 1 \in 1 .. w
    <3>1. CASE w <= q
      <4>1. PICK c \in Nat : q = w + c
        <5>1. q - w \in Nat /\ q = w + (q - w)
          BY <1>7, <2>6, <3>1
        <5> QED
          BY <5>1
      <4>2. WordBits * q = WordBits * w + WordBits * c
        BY <1>7, <4>1
      <4>3. WordBits * c \in Nat
        BY <1>7
      <4> QED
        BY <1>7, <2>1, <2>6, <4>2, <4>3
    <3>2. CASE ~ (w <= q)
      BY <1>7, <2>6, <3>2
    <3> QED
      BY <3>1, <3>2
  <2>8. r + 1 \in 1 .. WordBits
    BY <1>7, <2>6
  <2>9. ((q + 1) - 1) * WordBits + (r + 1) - 1 = i
    <3>1. ((q + 1) - 1) = q /\ (r + 1) - 1 = r
      BY <2>6
    <3>2. q * WordBits = WordBits * q /\ q * WordBits \in Nat
      BY <1>7, <2>6
    <3>3. q * WordBits + (r + 1) - 1 = q * WordBits + r
      BY <2>6, <3>2
    <3> QED
      BY <2>6, <3>1, <3>2, <3>3
  <2>10. Digit(2, WordOf(set, q + 1), r + 1) = 1
    <3>1. PICK v : v = q + 1
      OBVIOUS
    <3>2. PICK k : k = r + 1
      OBVIOUS
    <3>3. Digit(2, WordOf(set, v), k) = IF (v - 1) * WordBits + k - 1 \in set THEN 1 ELSE 0
      BY <2>8, <3>2, WordIs
    <3>4. (v - 1) * WordBits + k - 1 = i
      BY <2>9, <3>1, <3>2
    <3> QED
      BY <2>2, <3>1, <3>2, <3>3, <3>4
  <2> QED
    BY <1>6, <2>3, <2>4, <2>7, <2>10
<1> QED
  BY <1>4, <1>6, <1>8 DEF Has

\* A word is as many bytes as it has.
LEMMA LittleSeq ==
  ASSUME NEW v \in Nat
  PROVE  LittleEndian(v) \in Seq(Byte) /\ Len(LittleEndian(v)) = WordBytes
<1>1. PICK base \in Nat : base = 2 * Radix /\ base > 0
  BY Widths
<1>2. ASSUME NEW k \in 1 .. WordBytes PROVE Digit(base, v, k) \in Byte
  <2>1. PICK w : w = Power(base, k - 1)
    OBVIOUS
  <2>2. w \in Nat /\ w > 0
    <3>1. k - 1 \in Nat
      BY Widths
    <3> QED
      BY <1>1, <2>1, <3>1, PowerPositive
  <2>3. PICK q : q = v \div w
    OBVIOUS
  <2>4. q \in Nat
    BY <2>2, <2>3
  <2>5. q % base \in 0 .. base - 1
    BY <1>1, <2>4
  <2>6. Digit(base, v, k) = q % base
    BY <2>1, <2>3 DEF Digit
  <2> QED
    BY <1>1, <2>5, <2>6 DEF Byte
<1>3. WordBytes \in Nat
  BY Widths
<1>4. LittleEndian(v) = [i \in 1 .. WordBytes |-> Digit(base, v, i)]
  BY <1>1 DEF LittleEndian
<1> QED
  BY <1>2, <1>3, <1>4

\* A word that stands in some bytes is read there.
LEMMA WordAt ==
  ASSUME NEW v \in Words64, NEW raw \in Seq(Byte), NEW at \in Nat, At(raw, at, LittleEndian(v))
  PROVE  ReadWord(raw, at) = v
<1>1. PICK base \in Nat : base = 2 * Radix /\ base > 0
  BY Widths
<1>2. v \in Nat /\ WordBytes \in Nat /\ v < Power(base, WordBytes)
  <2>1. v \in Nat /\ v < Word /\ Word \in Nat /\ WordBytes \in Nat
    BY Widths DEF Words64
  <2>2. Power(base, WordBytes) \in Nat /\ Word <= Power(base, WordBytes)
    BY <1>1, <2>1, WidthAssumption, PowerIs
  <2> QED
    BY <2>1, <2>2
<1>3. PICK x : x = LittleEndian(v)
  OBVIOUS
<1>4. \A i \in 1 .. WordBytes : x[i] = Digit(base, v, i)
  BY <1>1, <1>3 DEF LittleEndian
<1>5. Len(x) = WordBytes
  BY <1>2, <1>3, LittleSeq
<1>6. \A i \in 1 .. WordBytes : raw[at + i] = Digit(base, v, i)
  BY <1>3, <1>4, <1>5 DEF At
<1>7. PICK t : t = [k \in 1 .. WordBytes |-> Digit(base, v, k) * Power(base, k - 1)]
  OBVIOUS
<1>8. \A k \in 1 .. WordBytes : t[k] = Digit(base, v, k) * Power(base, k - 1)
  BY <1>7
<1>9. Upto(t, WordBytes) = v
  BY <1>1, <1>2, <1>8, NumberOfDigits
<1>10. PICK ds : ds = [i \in 1 .. WordBytes |-> raw[at + i]]
  OBVIOUS
<1>11. ReadWord(raw, at) = Number(base, ds)
  BY <1>1, <1>10 DEF ReadWord
<1>12. Number(base, ds) = Sum([k \in 1 .. WordBytes |-> ds[k] * Power(base, k - 1)])
  <2>1. DOMAIN ds = 1 .. WordBytes
    BY <1>10
  <2> QED
    BY <2>1 DEF Number
<1>13. [k \in 1 .. WordBytes |-> ds[k] * Power(base, k - 1)] = [k \in 1 .. WordBytes |-> t[k]]
  BY <1>6, <1>8, <1>10
<1> QED
  BY <1>9, <1>11, <1>12, <1>13 DEF Upto

\* What stands in the rest of some bytes.
LEMMA AtRest ==
  ASSUME NEW s \in Seq(Byte), NEW p \in Nat, NEW o \in Nat, NEW x \in Seq(Byte), At(s, p + o, x),
         NEW raw, raw = SubSeq(s, p + 1, Len(s))
  PROVE  At(raw, o, x)
<1>1. Len(s) \in Nat /\ Len(x) \in Nat
  OBVIOUS
<1>2. (p + o) + Len(x) <= Len(s) /\ \A i \in 1 .. Len(x) : s[(p + o) + i] = x[i]
  BY DEF At
<1>3. Len(raw) = Len(s) - p /\ \A j \in 1 .. Len(s) - p : raw[j] = s[p + j]
  BY <1>1, <1>2
<1>4. ASSUME NEW i \in 1 .. Len(x) PROVE raw[o + i] = x[i]
  <2>1. PICK j : j = o + i
    OBVIOUS
  <2>2. j \in 1 .. Len(s) - p
    BY <1>1, <1>2, <2>1
  <2>3. raw[j] = s[p + j]
    BY <1>3, <2>2
  <2>4. p + j = (p + o) + i
    BY <2>1
  <2> QED
    BY <1>2, <2>1, <2>3, <2>4
<1>5. o + Len(x) <= Len(raw)
  BY <1>1, <1>2, <1>3
<1> QED
  BY <1>4, <1>5 DEF At

\* The bytes of a filter, its bits, its hashes and its words, stand at p to the end.
FilterAt(s, p, b, f) ==
  /\ s \in Seq(Byte) /\ p \in Nat /\ f \in Seq(Byte)
  /\ At(s, p, LittleEndian(b.bits)) /\ At(s, p + WordBytes, LittleEndian(b.k))
  /\ At(s, p + 2 * WordBytes, f) /\ Len(s) = p + 2 * WordBytes + Len(f)
  /\ f = FlattenSeq([v \in DOMAIN b.words |-> LittleEndian(b.words[v])])

\* A filter of w words.
FilterIs(b, w) ==
  /\ Sized(b.bits, w) /\ b.k = Hashes /\ b.words \in [1 .. w -> Words64]
  /\ b = [bits |-> b.bits, k |-> Hashes, words |-> b.words]

\* A filter that stands to the end is read as it was written, if it is not too large.
LEMMA FromBytesAt ==
  ASSUME NEW s, NEW p, NEW b, NEW f, NEW w, FilterIs(b, w), FilterAt(s, p, b, f),
         NEW raw, raw = SubSeq(s, p + 1, Len(s))
  PROVE  FromBytes(raw) = IF b.bits > MaxBits THEN Bad ELSE Ok(b, Len(raw))
<1>1. PICK bits : bits = b.bits
  OBVIOUS
<1>2. PICK words : words = b.words
  OBVIOUS
<1>3. /\ bits \in Nat /\ bits > 0 /\ bits < Word /\ w \in Nat /\ w > 0
      /\ bits \div WordBits = w /\ bits % WordBits = 0
  BY <1>1 DEF Sized, FilterIs
<1>4. WordBytes \in Nat /\ WordBytes > 0 /\ Hashes \in Nat /\ Hashes > 0 /\ Hashes < Word
      /\ Word \in Nat /\ MaxBits \in Nat
  BY Widths
<1>5. bits \in Words64 /\ Hashes \in Words64
  BY <1>3, <1>4 DEF Words64
<1>6. /\ s \in Seq(Byte) /\ p \in Nat /\ f \in Seq(Byte)
      /\ At(s, p, LittleEndian(bits)) /\ At(s, p + WordBytes, LittleEndian(Hashes))
      /\ At(s, p + 2 * WordBytes, f) /\ Len(s) = p + 2 * WordBytes + Len(f)
  BY <1>1 DEF FilterAt, FilterIs
<1>7. words \in [1 .. w -> Words64]
  BY <1>2 DEF FilterIs
<1>8. PICK fs : fs = [v \in 1 .. w |-> LittleEndian(words[v])]
  OBVIOUS
<1>9. f = FlattenSeq(fs)
  <2>1. DOMAIN words = 1 .. w
    BY <1>7
  <2> QED
    BY <1>2, <1>8, <2>1 DEF FilterAt
<1>10. PICK T : T = Seq(Byte)
  OBVIOUS
<1>11. ASSUME NEW v \in 1 .. w PROVE fs[v] \in T /\ Len(fs[v]) = WordBytes
  <2>1. words[v] \in Nat
    BY <1>4, <1>7 DEF Words64
  <2> QED
    BY <1>8, <1>10, <2>1, LittleSeq
<1>12. fs \in Seq(Seq(Byte)) /\ Len(fs) = w
  <2>1. fs \in Seq(T) /\ Len(fs) = w
    <3>1. fs = [v \in 1 .. w |-> fs[v]]
      BY <1>8
    <3> QED
      BY <1>3, <1>11, <3>1
  <2> QED
    BY <1>10, <2>1
<1>13. Len(f) = Offset(fs, w) /\ \A v \in 1 .. w : At(f, Offset(fs, v - 1), fs[v])
  BY <1>9, <1>12, FlattenIs
<1>14. \A v \in 0 .. w : Offset(fs, v) = v * WordBytes
  BY <1>4, <1>11, <1>12, OffsetEven
<1>15. Len(f) = w * WordBytes
  <2>1. w \in 0 .. w
    BY <1>3
  <2> QED
    BY <1>13, <1>14, <2>1
<1>16. Len(raw) = 2 * WordBytes + w * WordBytes /\ raw \in Seq(Byte)
  <2>1. Len(s) \in Nat /\ Len(f) \in Nat
    BY <1>6
  <2>2. Len(raw) = Len(s) - p /\ raw \in Seq(Byte)
    BY <1>4, <1>6, <2>1
  <2>3. PICK m \in Nat : m = w * WordBytes
    BY <1>3, <1>4
  <2>4. Len(s) = p + 2 * WordBytes + m /\ p \in Nat
    BY <1>6, <1>15, <2>3
  <2>5. Len(raw) = 2 * WordBytes + m
    BY <1>4, <2>2, <2>4
  <2> QED
    BY <2>2, <2>3, <2>5
<1>17. ReadWord(raw, 0) = bits
  <2>1. PICK z \in Nat : z = 0
    OBVIOUS
  <2>2. PICK x \in Seq(Byte) : x = LittleEndian(bits)
    BY <1>3, LittleSeq
  <2>3. p + z = p
    BY <1>6, <2>1
  <2>4. At(s, p + z, x)
    BY <1>6, <2>2, <2>3
  <2>5. s \in Seq(Byte) /\ p \in Nat
    BY <1>6
  <2>6. At(raw, z, x)
    BY <2>4, <2>5, AtRest
  <2>7. raw \in Seq(Byte)
    BY <1>16
  <2>8. ReadWord(raw, z) = bits
    BY <1>5, <2>2, <2>6, <2>7, WordAt
  <2> QED
    BY <2>1, <2>8
<1>18. ReadWord(raw, WordBytes) = Hashes
  <2>1. PICK x \in Seq(Byte) : x = LittleEndian(Hashes)
    BY <1>4, LittleSeq
  <2>2. At(s, p + WordBytes, x)
    BY <1>6, <2>1
  <2>3. s \in Seq(Byte) /\ p \in Nat /\ WordBytes \in Nat
    BY <1>4, <1>6
  <2>4. At(raw, WordBytes, x)
    BY <2>2, <2>3, AtRest
  <2>5. raw \in Seq(Byte)
    BY <1>16
  <2> QED
    BY <1>5, <2>1, <2>3, <2>4, <2>5, WordAt
<1>19. PICK o2 \in Nat : o2 = 2 * WordBytes
  BY <1>4
<1>20. At(raw, o2, f)
  <2>1. At(s, p + o2, f)
    BY <1>6, <1>19
  <2>2. s \in Seq(Byte) /\ p \in Nat /\ f \in Seq(Byte)
    BY <1>6
  <2> QED
    BY <2>1, <2>2, AtRest
<1>21. ASSUME NEW v \in 1 .. w PROVE ReadWord(raw, (v + 1) * WordBytes) = words[v]
  <2>1. v - 1 \in 0 .. w /\ v - 1 \in Nat
    BY <1>3
  <2>2. PICK o \in Nat : o = (v - 1) * WordBytes
    BY <1>4, <2>1
  <2>3. PICK x \in Seq(Byte) : x = fs[v]
    BY <1>10, <1>11
  <2>4. At(f, o, x)
    BY <1>13, <1>14, <2>1, <2>2, <2>3
  <2>5. f \in Seq(Byte)
    BY <1>6
  <2>6. raw \in Seq(Byte)
    BY <1>16
  <2>7. At(raw, o2 + o, x)
    BY <1>20, <2>4, <2>5, <2>6, AtAt
  <2>8. o2 + o = (v + 1) * WordBytes
    <3>1. PICK u \in Nat : v = u + 1
      <4>1. v = (v - 1) + 1
        BY <1>3
      <4> QED
        BY <2>1, <4>1
    <3>2. o = u * WordBytes
      BY <2>2, <3>1
    <3>3. (v + 1) * WordBytes = u * WordBytes + 2 * WordBytes
      BY <1>4, <3>1
    <3> QED
      BY <1>4, <1>19, <3>2, <3>3
  <2>9. PICK val \in Words64 : val = words[v]
    BY <1>7
  <2>10. x = LittleEndian(val)
    BY <1>8, <2>3, <2>9
  <2>11. PICK a \in Nat : a = o2 + o
    OBVIOUS
  <2>12. At(raw, a, LittleEndian(val))
    BY <2>7, <2>10, <2>11
  <2>13. ReadWord(raw, a) = val
    BY <2>6, <2>12, WordAt
  <2> QED
    BY <2>8, <2>9, <2>11, <2>13
<1>22. Words(raw, w) = words
  <2>1. words = [v \in 1 .. w |-> words[v]]
    BY <1>7
  <2> QED
    BY <1>21, <2>1 DEF Words
<1>23. ~ (Len(raw) < 2 * WordBytes) /\ (Len(raw) - 2 * WordBytes) \div WordBytes = w
  <2>1. PICK m \in Nat : m = w * WordBytes
    BY <1>3, <1>4
  <2>2. Len(raw) - 2 * WordBytes = m /\ ~ (Len(raw) < 2 * WordBytes)
    BY <1>4, <1>16, <2>1
  <2>3. m \div WordBytes = w
    <3>1. PICK z : z = 0
      OBVIOUS
    <3>2. m = WordBytes * w + z /\ z \in 0 .. WordBytes - 1
      BY <1>3, <1>4, <2>1, <3>1
    <3>3. WordBytes \in Nat /\ WordBytes > 0 /\ w \in Nat
      BY <1>3, <1>4
    <3> QED
      BY <3>2, <3>3, DivModOf
  <2> QED
    BY <2>2, <2>3
<1>24. Hashes # 0
  BY <1>4
<1>25. CASE bits > MaxBits
  BY <1>1, <1>3, <1>17, <1>18, <1>23, <1>24, <1>25 DEF FromBytes
<1>26. CASE ~ (bits > MaxBits)
  <2>1. FromBytes(raw) = Ok([bits |-> bits, k |-> Hashes, words |-> Words(raw, w)], Len(raw))
    BY <1>3, <1>17, <1>18, <1>23, <1>24, <1>26 DEF FromBytes
  <2>2. b = [bits |-> bits, k |-> Hashes, words |-> words]
    BY <1>1, <1>2 DEF FilterIs
  <2> QED
    BY <1>1, <1>22, <1>26, <2>1, <2>2
<1> QED
  BY <1>25, <1>26

\* What is read of a list of blocks: epoch and number, and where its filter starts.
BloomRead(s, val, b, f, p1, p) ==
  /\ Uvarint(s, 0) = Ok(val.epoch, p1) /\ Uvarint(s, p1) = Ok(val.blocks, p)
  /\ s \in Seq(Byte) /\ FilterAt(s, p, b, f)

\* Epoch and number of blocks are read as they were written.
LEMMA BloomReadIs ==
  ASSUME NEW val, val.epoch \in Words64, val.blocks \in Words64, NEW b, b = BloomOf(val.keys),
         b.bits \in Nat, b.k \in Nat, NEW f \in Seq(Byte),
         f = FlattenSeq([v \in DOMAIN b.words |-> LittleEndian(b.words[v])]),
         NEW s, s = EncodeBloom(val)
  PROVE  \E p1, p : BloomRead(s, val, b, f, p1, p)
<1>1. PICK x1 : x1 = WriteUvarint(val.epoch)
  OBVIOUS
<1>2. PICK x2 : x2 = WriteUvarint(val.blocks)
  OBVIOUS
<1>3. PICK l1 : l1 = LittleEndian(b.bits)
  OBVIOUS
<1>4. PICK l2 : l2 = LittleEndian(b.k)
  OBVIOUS
<1>5. PICK h2 : h2 = x1 \o x2
  OBVIOUS
<1>6. PICK h3 : h3 = h2 \o l1
  OBVIOUS
<1>7. PICK h4 : h4 = h3 \o l2
  OBVIOUS
<1>8. s = h4 \o f
  BY <1>1, <1>2, <1>3, <1>4, <1>5, <1>6, <1>7 DEF EncodeBloom
<1>9. x1 \in Seq(Byte) /\ x2 \in Seq(Byte)
  BY <1>1, <1>2, VarSeq
<1>10. l1 \in Seq(Byte) /\ l2 \in Seq(Byte) /\ Len(l1) = WordBytes /\ Len(l2) = WordBytes
       /\ WordBytes \in Nat
  BY <1>3, <1>4, LittleSeq, Widths
<1>11. h2 \in Seq(Byte)
  BY <1>5, <1>9
<1>12. h3 \in Seq(Byte)
  BY <1>6, <1>10, <1>11
<1>13. h4 \in Seq(Byte)
  BY <1>7, <1>10, <1>12
<1>14. s \in Seq(Byte)
  BY <1>8, <1>13
<1>15. PICK z \in Nat : z = 0
  OBVIOUS
<1>16. At(s, z, s)
  BY <1>14, <1>15, AtSelf
<1>17. InTwo(s, z, h4, z + Len(h4), f, s)
  BY <1>8, <1>13, <1>14, <1>16, TwoAt
<1>18. At(s, z, h4)
  BY <1>17 DEF InTwo
<1>19. InTwo(s, z, h3, z + Len(h3), l2, h4)
  BY <1>7, <1>10, <1>12, <1>14, <1>18, TwoAt
<1>20. At(s, z, h3)
  BY <1>19 DEF InTwo
<1>21. InTwo(s, z, h2, z + Len(h2), l1, h3)
  BY <1>6, <1>10, <1>11, <1>14, <1>20, TwoAt
<1>22. At(s, z, h2)
  BY <1>21 DEF InTwo
<1>23. InTwo(s, z, x1, z + Len(x1), x2, h2)
  BY <1>5, <1>9, <1>14, <1>22, TwoAt
<1>24. PICK p1 : p1 = z + Len(x1)
  OBVIOUS
<1>25. PICK p : p = z + Len(h2)
  OBVIOUS
<1>26. p1 \in Nat /\ At(s, z, x1) /\ At(s, p1, x2) /\ p = p1 + Len(x2)
  BY <1>23, <1>24, <1>25 DEF InTwo
<1>27. Uvarint(s, 0) = Ok(val.epoch, p1)
  <2>1. At(s, z, WriteUvarint(val.epoch))
    BY <1>1, <1>26
  <2>2. PICK v \in Words64 : v = val.epoch
    OBVIOUS
  <2>3. Uvarint(s, z) = Ok(v, z + Len(WriteUvarint(v)))
    BY <1>14, <2>1, <2>2, UvarintAt
  <2> QED
    BY <1>1, <1>15, <1>24, <2>2, <2>3
<1>28. Uvarint(s, p1) = Ok(val.blocks, p)
  <2>1. p1 \in Nat /\ At(s, p1, WriteUvarint(val.blocks))
    BY <1>2, <1>26
  <2>2. PICK v \in Words64 : v = val.blocks
    OBVIOUS
  <2>3. Uvarint(s, p1) = Ok(v, p1 + Len(WriteUvarint(v)))
    BY <1>14, <2>1, <2>2, UvarintAt
  <2> QED
    BY <1>2, <1>26, <2>2, <2>3
<1>29. p \in Nat /\ At(s, p, l1) /\ z + Len(h3) = p + WordBytes
  BY <1>10, <1>21, <1>25 DEF InTwo
<1>30. At(s, p + WordBytes, l2) /\ z + Len(h4) = p + 2 * WordBytes
  <2>1. At(s, z + Len(h3), l2) /\ z + Len(h4) = (z + Len(h3)) + Len(l2)
    BY <1>19 DEF InTwo
  <2> QED
    BY <1>10, <1>29, <2>1
<1>31. At(s, p + 2 * WordBytes, f) /\ Len(s) = p + 2 * WordBytes + Len(f)
  <2>1. At(s, z + Len(h4), f) /\ z + Len(s) = (z + Len(h4)) + Len(f) /\ Len(s) \in Nat
    BY <1>17 DEF InTwo
  <2>2. z + Len(s) = Len(s)
    BY <1>15, <2>1
  <2> QED
    BY <1>30, <2>1, <2>2
<1>32. FilterAt(s, p, b, f)
  BY <1>3, <1>4, <1>14, <1>29, <1>30, <1>31 DEF FilterAt
<1>33. BloomRead(s, val, b, f, p1, p)
  BY <1>14, <1>27, <1>28, <1>32 DEF BloomRead
<1> QED
  BY <1>33

\* A list of blocks is read as it was written, if its filter is not too large.
LEMMA BloomAt ==
  ASSUME NEW val, FilterOk(val), NEW s, s = EncodeBloom(val)
  PROVE  /\ s \in Seq(Byte)
         /\ DecodeBloom(s) = IF BitsFor(val.keys) > MaxBits THEN Bad
                             ELSE Ok([epoch |-> val.epoch, blocks |-> val.blocks,
                                      bloom |-> BloomOf(val.keys)], Len(s))
<1>1. PICK bits : bits = BitsFor(val.keys)
  OBVIOUS
<1>2. PICK w : Sized(bits, w)
  BY <1>1, BloomSize
<1>3. PICK set : set = BitSet(val.keys, bits)
  OBVIOUS
<1>4. PICK b : b = BloomOf(val.keys)
  OBVIOUS
<1>5. b = [bits |-> bits, k |-> Hashes, words |-> [v \in 1 .. w |-> WordOf(set, v)]]
  BY <1>1, <1>2, <1>3, <1>4, BloomIs
<1>6. /\ b.bits = bits /\ b.k = Hashes /\ b.words = [v \in 1 .. w |-> WordOf(set, v)]
      /\ b = [bits |-> b.bits, k |-> Hashes, words |-> b.words]
  BY <1>5
<1>7. b.words \in [1 .. w -> Words64]
  <2>1. \A v \in 1 .. w : WordOf(set, v) \in Words64
    BY WordIs
  <2> QED
    BY <1>6, <2>1
<1>8. b.bits \in Nat /\ b.k \in Nat /\ w \in Nat
  BY <1>2, <1>6, Widths DEF Sized
<1>9. PICK f : f = FlattenSeq([v \in DOMAIN b.words |-> LittleEndian(b.words[v])])
  OBVIOUS
<1>10. f \in Seq(Byte)
  <2>1. PICK fs : fs = [v \in DOMAIN b.words |-> LittleEndian(b.words[v])]
    OBVIOUS
  <2>2. PICK T : T = Seq(Byte)
    OBVIOUS
  <2>3. DOMAIN b.words = 1 .. w
    BY <1>7
  <2>4. ASSUME NEW v \in 1 .. w PROVE LittleEndian(b.words[v]) \in T
    <3>1. PICK x \in Words64 : x = b.words[v]
      BY <1>7
    <3>2. x \in Nat
      BY Widths DEF Words64
    <3> QED
      BY <2>2, <3>1, <3>2, LittleSeq
  <2>5. fs \in Seq(T)
    BY <1>8, <2>1, <2>3, <2>4
  <2>6. fs \in Seq(Seq(Byte))
    BY <2>2, <2>5
  <2> QED
    BY <1>9, <2>1, <2>6, FlattenIs
<1>11. val.epoch \in Words64 /\ val.blocks \in Words64
  BY DEF FilterOk
<1>12. PICK p1, p : BloomRead(s, val, b, f, p1, p)
  BY <1>4, <1>8, <1>9, <1>10, <1>11, BloomReadIs
<1>13. PICK raw : raw = SubSeq(s, p + 1, Len(s))
  OBVIOUS
<1>14. FilterIs(b, w)
  BY <1>2, <1>6, <1>7 DEF FilterIs
<1>15. FilterAt(s, p, b, f)
  BY <1>12 DEF BloomRead
<1>16. FromBytes(raw) = IF b.bits > MaxBits THEN Bad ELSE Ok(b, Len(raw))
  BY <1>13, <1>14, <1>15, FromBytesAt
<1>17. PICK u1 : u1 = Uvarint(s, 0)
  OBVIOUS
<1>18. u1.res = "ok" /\ u1.val = val.epoch /\ u1.at = p1
  BY <1>12, <1>17 DEF BloomRead, Ok
<1>19. PICK u2 : u2 = Uvarint(s, p1)
  OBVIOUS
<1>20. u2.res = "ok" /\ u2.val = val.blocks /\ u2.at = p
  BY <1>12, <1>19 DEF BloomRead, Ok
<1>21. PICK c : c = FromBytes(raw)
  OBVIOUS
<1>22. DecodeBloom(s) = Then(c, LAMBDA e :
         Ok([epoch |-> val.epoch, blocks |-> val.blocks, bloom |-> e.val], Len(s)))
  BY <1>13, <1>17, <1>18, <1>19, <1>20, <1>21 DEF DecodeBloom, Then
<1>23. s \in Seq(Byte)
  BY <1>12 DEF BloomRead
<1>24. CASE bits > MaxBits
  <2>1. c = Bad /\ c.res # "ok"
    BY <1>6, <1>16, <1>21, <1>24 DEF Bad
  <2>2. DecodeBloom(s) = c
    BY <1>22, <2>1 DEF Then
  <2> QED
    BY <1>1, <1>23, <1>24, <2>1, <2>2
<1>25. CASE ~ (bits > MaxBits)
  <2>1. c.res = "ok" /\ c.val = b
    BY <1>6, <1>16, <1>21, <1>25 DEF Ok
  <2>2. DecodeBloom(s) = Ok([epoch |-> val.epoch, blocks |-> val.blocks, bloom |-> b], Len(s))
    BY <1>22, <2>1 DEF Then
  <2> QED
    BY <1>1, <1>4, <1>23, <1>25, <2>2
<1> QED
  BY <1>24, <1>25

-----------------------------------------------------------------------------
(* Messages and frames *)

AllTags   == {Tags[b] : b \in DOMAIN Tags}
PlainTags == AllTags \ {Compressed[tag] : tag \in Uploads}

\* The byte of a tag stands for that tag alone.
LEMMA TagBytes ==
  ASSUME NEW tag \in AllTags, NEW b, b = TagByte(tag)
  PROVE  b \in DOMAIN Tags /\ Tags[b] = tag /\ b \in Byte
<1>1. \E n \in DOMAIN Tags : Tags[n] = tag
  BY DEF AllTags
<1>2. b \in DOMAIN Tags /\ Tags[b] = tag
  BY <1>1 DEF TagByte
<1>3. DOMAIN Tags = 1 .. 23
  BY DEF Tags
<1> QED
  BY <1>2, <1>3, Widths DEF Byte

\* The tag of an upload has one that says it is compressed, and only those have.
LEMMA UploadTags ==
  /\ \A tag \in Uploads : /\ Compressed[tag] \in AllTags /\ Compressed[tag] # tag
                          /\ Plain(Compressed[tag]) = tag
  /\ \A tag \in PlainTags : tag \in AllTags /\ Plain(tag) = tag
<1>1. Uploads = {"Program", "BlockBytes", "BlockProgram", "RequestBody"}
  BY DEF Uploads, Compressed
<1>2. /\ Compressed["Program"] = "ProgramZ" /\ Compressed["BlockBytes"] = "BlockBytesZ"
      /\ Compressed["BlockProgram"] = "BlockProgramZ" /\ Compressed["RequestBody"] = "RequestBodyZ"
  BY DEF Compressed
<1>3. {"ProgramZ", "BlockBytesZ", "BlockProgramZ", "RequestBodyZ"} \subseteq AllTags
  <2>1. {20, 21, 22, 23} \subseteq DOMAIN Tags
    BY DEF Tags
  <2>2. Tags[20] = "ProgramZ" /\ Tags[21] = "BlockBytesZ" /\ Tags[22] = "BlockProgramZ"
        /\ Tags[23] = "RequestBodyZ"
    BY DEF Tags
  <2> QED
    BY <2>1, <2>2 DEF AllTags
<1>4. ASSUME NEW tag \in Uploads
      PROVE  Compressed[tag] \in AllTags /\ Compressed[tag] # tag /\ Plain(Compressed[tag]) = tag
  <2>1. \A t \in Uploads : Compressed[t] = Compressed[tag] => t = tag
    BY <1>1, <1>2
  <2>2. Plain(Compressed[tag]) = tag
    BY <2>1 DEF Plain
  <2>3. Compressed[tag] \in AllTags /\ Compressed[tag] # tag
    BY <1>1, <1>2, <1>3
  <2> QED
    BY <2>2, <2>3
<1>5. ASSUME NEW tag \in PlainTags PROVE tag \in AllTags /\ Plain(tag) = tag
  <2>1. ~ \E t \in Uploads : Compressed[t] = tag
    BY DEF PlainTags
  <2> QED
    BY <2>1 DEF Plain, PlainTags
<1> QED
  BY <1>4, <1>5

\* A message that may be sent.
MessageOk(m) ==
  /\ m.tag \in PlainTags /\ ContentOk(m) /\ Len(Payload(m)) < Word
  /\ Worth(Payload(m)) => Zstd(Payload(m)) \in Seq(Byte) /\ Unzstd(Zstd(Payload(m))) = Payload(m)

\* What its receiver makes of it, and whether its content is beyond a limit.
Value(m) ==
  IF m.tag = "Bloom"
  THEN [epoch |-> m.val.epoch, blocks |-> m.val.blocks, bloom |-> BloomOf(m.val.keys)]
  ELSE m.val
TooMuch(m) ==
  \/ m.tag \in {"Program", "Need"} /\ Len(m.val) > MaxInstrs
  \/ m.tag \in BlockTags /\ m.val.body = "program" /\ Len(m.val.instrs) > MaxInstrs
  \/ m.tag = "Bloom" /\ BitsFor(m.val.keys) > MaxBits

\* Blocks are written as bytes.
LEMMA BlockSeq ==
  ASSUME NEW b, BlockOk(b)
  PROVE  EncodeBlock(b) \in Seq(Byte)
<1>1. CASE b.body = "bytes"
  BY <1>1, BytesBlockAt
<1>2. CASE b.body # "bytes"
  <2>1. Encodable(b.instrs) /\ b = BlockOfProgram(b.digest, b.kind, b.len, b.instrs)
        /\ b.digest \in DigestBytes /\ b.kind \in Kinds /\ b.len \in Words64
    BY <1>2 DEF BlockOk
  <2>2. b.body = "program"
    BY <2>1 DEF BlockOfProgram
  <2>3. PICK x1 \in Seq(Byte) : x1 = b.digest
    BY <2>1, DigestSeq
  <2>4. PICK x2 \in Seq(Byte) : x2 = <<ProgMark>>
    <3>1. PICK v \in Byte : v = ProgMark
      BY SmallBytes
    <3>2. <<v>> \in Seq(Byte)
      OBVIOUS
    <3> QED
      BY <3>1, <3>2
  <2>5. PICK x3 \in Seq(Byte) : x3 = <<b.kind>>
    <3>1. PICK v \in Byte : v = b.kind
      BY <2>1, SmallBytes
    <3>2. <<v>> \in Seq(Byte)
      OBVIOUS
    <3> QED
      BY <3>1, <3>2
  <2>6. PICK x4 \in Seq(Byte) : x4 = WriteUvarint(b.len)
    BY <2>1, VarSeq
  <2>7. PICK x5 \in Seq(Byte) : x5 = EncodeProgram(b.instrs)
    BY <2>1, ProgramSeq
  <2>8. EncodeBlock(b) = (((x1 \o x2) \o x3) \o x4) \o x5
    BY <2>2, <2>3, <2>4, <2>5, <2>6, <2>7 DEF EncodeBlock
  <2> QED
    BY <2>8
<1> QED
  BY <1>1, <1>2

-----------------------------------------------------------------------------
(* How much is written *)

LEMMA VarSize ==
  ASSUME NEW v \in Words64
  PROVE  /\ WriteUvarint(v) \in Seq(Byte) /\ Len(WriteUvarint(v)) = VarLen(v)
         /\ VarLen(v) \in Nat
<1>1. PICK x : x = WriteUvarint(v)
  OBVIOUS
<1>2. PICK n : n = VarLen(v)
  OBVIOUS
<1>3. x \in Seq(Byte) /\ Len(x) = n /\ n \in 1 .. MaxVarint
  BY <1>1, <1>2, VarBytes
<1>4. n \in Nat
  BY <1>3
<1> QED
  BY <1>1, <1>2, <1>3, <1>4

LEMMA JoinTwo ==
  ASSUME NEW x \in Seq(Byte), NEW y \in Seq(Byte), NEW u, u = x \o y
  PROVE  u \in Seq(Byte) /\ Len(u) = Len(x) + Len(y) /\ Len(x) \in Nat /\ Len(y) \in Nat
OBVIOUS

LEMMA InstrSizeIs ==
  ASSUME NEW i, InstrOk(i)
  PROVE  Len(EncodeInstr(i)) = InstrSize(i)
<1>1. CASE /\ i.op = "lit" /\ i.bytes \in Seq(Byte) /\ Len(i.bytes) \in Words64
  <2>1. PICK v \in Words64 : v = Len(i.bytes)
    BY <1>1
  <2>2. PICK x : x = <<0>>
    OBVIOUS
  <2>3. PICK y : y = WriteUvarint(v)
    OBVIOUS
  <2>4. PICK z : z = i.bytes
    OBVIOUS
  <2>5. x \in Seq(Byte) /\ Len(x) = 1
    BY <2>2, SmallBytes
  <2>6. y \in Seq(Byte) /\ Len(y) = VarLen(v) /\ VarLen(v) \in Nat
    BY <2>3, VarSize
  <2>7. EncodeInstr(i) = (x \o y) \o z
    BY <1>1, <2>1, <2>2, <2>3, <2>4 DEF EncodeInstr
  <2>8. Len((x \o y) \o z) = 1 + VarLen(v) + v
    <3>1. z \in Seq(Byte) /\ Len(z) = v
      BY <1>1, <2>1, <2>4
    <3>2. PICK u : u = x \o y
      OBVIOUS
    <3>3. PICK w : w = u \o z
      OBVIOUS
    <3>4. u \in Seq(Byte) /\ Len(u) = Len(x) + Len(y)
      BY <2>5, <2>6, <3>2, JoinTwo
    <3>5. Len(w) = Len(u) + Len(z)
      BY <3>1, <3>3, <3>4, JoinTwo
    <3> QED
      BY <2>5, <2>6, <3>1, <3>2, <3>3, <3>4, <3>5
  <2>9. InstrSize(i) = 1 + VarLen(v) + v
    BY <1>1, <2>1, Zenon DEF InstrSize, OutLen
  <2> QED
    BY <2>7, <2>8, <2>9
<1>2. CASE /\ i.op = "ref" /\ i.digest \in DigestBytes /\ i.len \in Words64
  <2>1. PICK v \in Words64 : v = i.len
    BY <1>2
  <2>2. PICK x : x = <<1>>
    OBVIOUS
  <2>3. PICK y : y = i.digest
    OBVIOUS
  <2>4. PICK z : z = WriteUvarint(v)
    OBVIOUS
  <2>5. x \in Seq(Byte) /\ Len(x) = 1
    BY <2>2, SmallBytes
  <2>6. y \in Seq(Byte) /\ Len(y) = DigestLen /\ DigestLen \in Nat
    BY <1>2, <2>3, DigestSeq, Widths
  <2>7. z \in Seq(Byte) /\ Len(z) = VarLen(v) /\ VarLen(v) \in Nat
    BY <2>4, VarSize
  <2>8. EncodeInstr(i) = (x \o y) \o z
    BY <1>2, <2>1, <2>2, <2>3, <2>4 DEF EncodeInstr
  <2>9. Len((x \o y) \o z) = 1 + DigestLen + VarLen(v)
    <3>1. PICK u : u = x \o y
      OBVIOUS
    <3>2. PICK w : w = u \o z
      OBVIOUS
    <3>3. u \in Seq(Byte) /\ Len(u) = Len(x) + Len(y)
      BY <2>5, <2>6, <3>1, JoinTwo
    <3>4. Len(w) = Len(u) + Len(z)
      BY <2>7, <3>2, <3>3, JoinTwo
    <3> QED
      BY <2>5, <2>6, <2>7, <3>1, <3>2, <3>3, <3>4
  <2>10. InstrSize(i) = 1 + VarLen(v) + DigestLen
    BY <1>2, <2>1 DEF InstrSize, OutLen
  <2> QED
    BY <2>6, <2>7, <2>8, <2>9, <2>10
<1> QED
  BY <1>1, <1>2, InstrSeq

\* The instructions of a program, one after the other.
LEMMA InstrsSize ==
  ASSUME NEW prog, Encodable(prog)
  PROVE  /\ FlattenSeq(InstrBytes(prog)) \in Seq(Byte)
         /\ Len(FlattenSeq(InstrBytes(prog))) = Total(InstrSize, prog)
<1>1. PICK n : n = Len(prog)
  OBVIOUS
<1>2. PICK xs : xs = InstrBytes(prog)
  OBVIOUS
<1>3. /\ prog \in Seq(Instrs) /\ n \in Nat /\ xs \in Seq(Seq(Byte)) /\ Len(xs) = n
      /\ \A k \in 1 .. n : InstrOk(prog[k]) /\ xs[k] = EncodeInstr(prog[k])
  BY <1>1, <1>2, InstrBytesSeq
<1>4. PICK t : t = [j \in DOMAIN xs |-> Len(xs[j])]
  OBVIOUS
<1>5. PICK u : u = [k \in DOMAIN prog |-> InstrSize(prog[k])]
  OBVIOUS
<1>6. DOMAIN xs = 1 .. n /\ DOMAIN prog = 1 .. n
  BY <1>1, <1>3
<1>7. ASSUME NEW k \in 1 .. n PROVE t[k] = u[k]
  BY <1>3, <1>4, <1>5, <1>6, <1>7, InstrSizeIs
<1>8. [k \in 1 .. n |-> t[k]] = u
  <2>1. u = [k \in 1 .. n |-> u[k]]
    BY <1>5, <1>6
  <2> QED
    BY <1>7, <2>1
<1>9. FlattenSeq(xs) \in Seq(Byte) /\ Len(FlattenSeq(xs)) = Offset(xs, n)
  BY <1>3, FlattenIs
<1>10. Offset(xs, n) = Sum(u)
  <2>1. Offset(xs, n) = Upto(t, n)
    BY <1>4 DEF Offset
  <2>2. Upto(t, n) = Sum([k \in 1 .. n |-> t[k]])
    BY DEF Upto
  <2>3. PICK w : w = [k \in 1 .. n |-> t[k]]
    OBVIOUS
  <2>4. Upto(t, n) = Sum(w) /\ w = u
    BY <1>8, <2>2, <2>3
  <2> QED
    BY <2>1, <2>4
<1>11. Total(InstrSize, prog) = Sum(u)
  BY <1>5, Zenon DEF Total
<1> QED
  BY <1>2, <1>9, <1>10, <1>11

LEMMA ProgramSizeIs ==
  ASSUME NEW prog, Encodable(prog)
  PROVE  /\ EncodeProgram(prog) \in Seq(Byte) /\ Len(EncodeProgram(prog)) = ProgramSize(prog)
         /\ VarLen(Len(prog)) \in Nat /\ Total(InstrSize, prog) \in Nat
<1>1. PICK n \in Words64 : n = Len(prog)
  BY InstrBytesSeq
<1>2. PICK x : x = WriteUvarint(n)
  OBVIOUS
<1>3. PICK y : y = FlattenSeq(InstrBytes(prog))
  OBVIOUS
<1>4. x \in Seq(Byte) /\ Len(x) = VarLen(n) /\ VarLen(n) \in Nat
  BY <1>2, VarSize
<1>5. y \in Seq(Byte) /\ Len(y) = Total(InstrSize, prog)
  BY <1>3, InstrsSize
<1>6. EncodeProgram(prog) = x \o y
  BY <1>1, <1>2, <1>3 DEF EncodeProgram, InstrBytes
<1>7. x \o y \in Seq(Byte) /\ Len(x \o y) = Len(x) + Len(y) /\ Len(y) \in Nat
  BY <1>4, <1>5
<1>8. ProgramSize(prog) = VarLen(n) + Total(InstrSize, prog)
  BY <1>1, Zenon DEF ProgramSize
<1> QED
  BY <1>1, <1>4, <1>5, <1>6, <1>7, <1>8

LEMMA JoinFive ==
  ASSUME NEW v \in Seq(Byte), NEW w \in Seq(Byte), NEW x \in Seq(Byte), NEW y \in Seq(Byte),
         NEW z \in Seq(Byte), NEW u, u = (((v \o w) \o x) \o y) \o z
  PROVE  Len(u) = Len(v) + Len(w) + Len(x) + Len(y) + Len(z)
<1>1. PICK f : f = v \o w
  OBVIOUS
<1>2. PICK g : g = f \o x
  OBVIOUS
<1>3. PICK h : h = g \o y
  OBVIOUS
<1>4. u = h \o z
  BY <1>1, <1>2, <1>3
<1>5. f \in Seq(Byte) /\ Len(f) = Len(v) + Len(w) /\ Len(v) \in Nat /\ Len(w) \in Nat
  BY <1>1, JoinTwo
<1>6. g \in Seq(Byte) /\ Len(g) = Len(f) + Len(x) /\ Len(x) \in Nat
  BY <1>2, <1>5, JoinTwo
<1>7. h \in Seq(Byte) /\ Len(h) = Len(g) + Len(y) /\ Len(y) \in Nat
  BY <1>3, <1>6, JoinTwo
<1>8. Len(u) = Len(h) + Len(z)
  BY <1>4, <1>7, JoinTwo
<1> QED
  BY <1>5, <1>6, <1>7, <1>8

LEMMA BlockSizeIs ==
  ASSUME NEW b, BlockOk(b)
  PROVE  Len(EncodeBlock(b)) = BlockSize(b)
<1>0. /\ b.digest \in DigestBytes /\ b.kind \in Kinds /\ b.len \in Words64
  BY DEF BlockOk
<1>1. PICK d \in Seq(Byte) : d = b.digest /\ Len(d) = DigestLen
  BY <1>0, DigestSeq
<1>2. PICK k \in Seq(Byte) : k = <<b.kind>> /\ Len(k) = 1
  <2>1. PICK v \in Byte : v = b.kind
    BY <1>0, SmallBytes
  <2>2. <<v>> \in Seq(Byte) /\ Len(<<v>>) = 1
    OBVIOUS
  <2> QED
    BY <2>1, <2>2
<1>3. PICK v : v = VarLen(b.len)
  OBVIOUS
<1>4. PICK l \in Seq(Byte) : l = WriteUvarint(b.len) /\ Len(l) = v /\ v \in Nat
  BY <1>0, <1>3, VarSize
<1>5. DigestLen \in Nat
  BY Widths
<1>6. CASE b.body = "bytes"
  <2>1. b.bytes \in Seq(Byte) /\ b = BlockOfBytes(b.digest, b.kind, b.bytes)
    BY <1>6 DEF BlockOk
  <2>2. b.len = Len(b.bytes)
    BY <2>1 DEF BlockOfBytes
  <2>3. PICK x \in Seq(Byte) : x = b.bytes
    BY <2>1
  <2>4. EncodeBlock(b) = (((d \o <<>>) \o k) \o l) \o x
    BY <1>1, <1>2, <1>4, <1>6, <2>3 DEF EncodeBlock
  <2>5. Len((((d \o <<>>) \o k) \o l) \o x) = DigestLen + 0 + 1 + v + Len(x)
    <3>1. PICK e : e = <<>>
      OBVIOUS
    <3>2. e \in Seq(Byte) /\ Len(e) = 0
      BY <3>1
    <3>3. PICK u : u = (((d \o e) \o k) \o l) \o x
      OBVIOUS
    <3>4. Len(u) = Len(d) + Len(e) + Len(k) + Len(l) + Len(x)
      BY <3>2, <3>3, JoinFive
    <3> QED
      BY <1>1, <1>2, <1>4, <3>1, <3>2, <3>3, <3>4
  <2>6. HeadSize(b) = DigestLen + 1 + v + 0
    BY <1>3, <1>6 DEF HeadSize
  <2>7. BlockSize(b) = (DigestLen + 1 + v + 0) + b.len
    BY <1>6, <2>6 DEF BlockSize
  <2>8. Len(x) \in Nat /\ Len(x) = b.len
    BY <2>2, <2>3
  <2> QED
    BY <1>4, <1>5, <2>4, <2>5, <2>7, <2>8
<1>7. CASE b.body # "bytes"
  <2>1. Encodable(b.instrs) /\ b = BlockOfProgram(b.digest, b.kind, b.len, b.instrs)
    BY <1>7 DEF BlockOk
  <2>2. b.body = "program"
    BY <2>1 DEF BlockOfProgram
  <2>3. PICK m \in Seq(Byte) : m = <<ProgMark>> /\ Len(m) = 1
    <3>1. PICK w \in Byte : w = ProgMark
      BY SmallBytes
    <3>2. <<w>> \in Seq(Byte) /\ Len(<<w>>) = 1
      OBVIOUS
    <3> QED
      BY <3>1, <3>2
  <2>4. PICK c : c = VarLen(Len(b.instrs))
    OBVIOUS
  <2>5. PICK t : t = Total(InstrSize, b.instrs)
    OBVIOUS
  <2>6. /\ EncodeProgram(b.instrs) \in Seq(Byte)
        /\ Len(EncodeProgram(b.instrs)) = ProgramSize(b.instrs) /\ c \in Nat /\ t \in Nat
    BY <2>1, <2>4, <2>5, ProgramSizeIs
  <2>7. ProgramSize(b.instrs) = c + t
    BY <2>4, <2>5, Zenon DEF ProgramSize
  <2>8. PICK x \in Seq(Byte) : x = EncodeProgram(b.instrs) /\ Len(x) = c + t
    BY <2>6, <2>7
  <2>9. EncodeBlock(b) = (((d \o m) \o k) \o l) \o x
    BY <1>1, <1>2, <1>4, <2>2, <2>3, <2>8 DEF EncodeBlock
  <2>10. Len((((d \o m) \o k) \o l) \o x) = DigestLen + 1 + 1 + v + (c + t)
    <3>1. PICK u : u = (((d \o m) \o k) \o l) \o x
      OBVIOUS
    <3>2. Len(u) = Len(d) + Len(m) + Len(k) + Len(l) + Len(x)
      BY <3>1, JoinFive
    <3> QED
      BY <1>1, <1>2, <1>4, <2>3, <2>8, <3>1, <3>2
  <2>11. HeadSize(b) = DigestLen + 1 + v + (1 + c)
    BY <1>3, <1>7, <2>4, Zenon DEF HeadSize
  <2>12. BlockSize(b) = (DigestLen + 1 + v + (1 + c)) + t
    BY <1>7, <2>5, <2>11, Zenon DEF BlockSize
  <2>13. DigestLen + 1 + 1 + v + (c + t) = (DigestLen + 1 + v + (1 + c)) + t
    BY <1>4, <1>5, <2>6
  <2> QED
    BY <2>9, <2>10, <2>12, <2>13
<1> QED
  BY <1>6, <1>7

\* The sizes that a split is held against (Trim's WireHonest) are those of what is written:
\* encode_program and encode_block, byte for byte.
THEOREM CodecSizes ==
  /\ \A prog : Encodable(prog) => Len(EncodeProgram(prog)) = ProgramSize(prog)
  /\ \A b : BlockOk(b) => Len(EncodeBlock(b)) = BlockSize(b)
BY ProgramSizeIs, BlockSizeIs

\* The payload of a message is bytes.
LEMMA PayloadSeq ==
  ASSUME NEW m, MessageOk(m)
  PROVE  Payload(m) \in Seq(Byte)
<1>1. ContentOk(m)
  BY DEF MessageOk
<1>2. PICK val : val = m.val
  OBVIOUS
<1>3. CASE m.tag = "Program"
  <2>1. Encodable(val) /\ Payload(m) = EncodeProgram(val)
    BY <1>1, <1>2, <1>3 DEF ContentOk, Payload, BlockTags
  <2> QED
    BY <2>1, ProgramSeq
<1>4. CASE m.tag \in BlockTags
  <2>1. BlockOk(val) /\ Payload(m) = EncodeBlock(val)
    BY <1>1, <1>2, <1>4 DEF ContentOk, Payload, BlockTags
  <2> QED
    BY <2>1, BlockSeq
<1>5. CASE m.tag = "Need"
  <2>1. val \in Seq(DigestBytes) /\ Len(val) < Word /\ Payload(m) = EncodeNeeds(val)
    BY <1>1, <1>2, <1>5 DEF ContentOk, Payload, BlockTags
  <2> QED
    BY <2>1, NeedsAt
<1>6. CASE m.tag = "Bloom"
  <2>1. FilterOk(val)
    BY <1>1, <1>2, <1>6 DEF ContentOk, BlockTags
  <2>2. Payload(m) = EncodeBloom(val)
    BY <1>2, <1>6 DEF Payload, BlockTags
  <2> QED
    BY <2>1, <2>2, BloomAt
<1>7. CASE m.tag # "Program" /\ m.tag \notin BlockTags /\ m.tag # "Need" /\ m.tag # "Bloom"
  BY <1>1, <1>7 DEF ContentOk, Payload
<1> QED
  BY <1>3, <1>4, <1>5, <1>6, <1>7

\* The handler of a message makes of its payload what was written, or refuses it
\* for one of the limits.
Handled(m, c, n) == c = Ok(Value(m), n) \/ (c = Bad /\ TooMuch(m))

\* Every content is handled, by the decoder its tag calls for.
LEMMA ContentAt ==
  ASSUME NEW m, MessageOk(m), NEW s, s = Payload(m), Len(s) <= MaxPayload
  PROVE  Handled(m, Content(m.tag, s), Len(s))
<1>1. ContentOk(m)
  BY DEF MessageOk
<1>2. PICK val : val = m.val
  OBVIOUS
<1>3. CASE m.tag = "Program"
  <2>1. Encodable(val) /\ s = EncodeProgram(val)
    BY <1>1, <1>2, <1>3 DEF ContentOk, Payload, BlockTags
  <2>2. DecodeProgram(s) = IF Len(val) > MaxInstrs THEN Bad ELSE Ok(val, Len(s))
    BY <2>1, ProgramAt
  <2>3. Content(m.tag, s) = DecodeProgram(s) /\ Value(m) = val
        /\ (Len(val) > MaxInstrs => TooMuch(m))
    BY <1>2, <1>3 DEF Content, Value, TooMuch, BlockTags
  <2> QED
    BY <2>2, <2>3 DEF Handled
<1>4. CASE m.tag \in BlockTags
  <2>1. BlockOk(val) /\ s = EncodeBlock(val)
    BY <1>1, <1>2, <1>4 DEF ContentOk, Payload, BlockTags
  <2>2. Content(m.tag, s) = DecodeBlock(s) /\ Value(m) = val
    BY <1>2, <1>4 DEF Content, Value, BlockTags
  <2>3. CASE val.body = "bytes"
    <3>1. DecodeBlock(s) = Ok(val, Len(s))
      BY <2>1, <2>3, BytesBlockAt
    <3> QED
      BY <2>2, <3>1 DEF Handled
  <2>4. CASE val.body # "bytes"
    <3>1. /\ val.body = "program"
          /\ DecodeBlock(s) = IF Len(val.instrs) > MaxInstrs THEN Bad ELSE Ok(val, Len(s))
      BY <2>1, <2>4, ProgramBlockAt
    <3>2. Len(val.instrs) > MaxInstrs => TooMuch(m)
      BY <1>2, <1>4, <3>1 DEF TooMuch
    <3> QED
      BY <2>2, <3>1, <3>2 DEF Handled
  <2> QED
    BY <2>3, <2>4
<1>5. CASE m.tag = "Need"
  <2>1. val \in Seq(DigestBytes) /\ Len(val) < Word /\ s = EncodeNeeds(val)
    BY <1>1, <1>2, <1>5 DEF ContentOk, Payload, BlockTags
  <2>2. DecodeNeeds(s) = IF Len(val) > MaxInstrs THEN Bad ELSE Ok(val, Len(s))
    BY <2>1, NeedsAt
  <2>3. Content(m.tag, s) = DecodeNeeds(s) /\ Value(m) = val
        /\ (Len(val) > MaxInstrs => TooMuch(m))
    BY <1>2, <1>5 DEF Content, Value, TooMuch, BlockTags
  <2> QED
    BY <2>2, <2>3 DEF Handled
<1>6. CASE m.tag = "Bloom"
  <2>1. FilterOk(val) /\ s = EncodeBloom(val)
    BY <1>1, <1>2, <1>6 DEF ContentOk, Payload, BlockTags
  <2>2. DecodeBloom(s) = IF BitsFor(val.keys) > MaxBits THEN Bad
                         ELSE Ok([epoch |-> val.epoch, blocks |-> val.blocks,
                                  bloom |-> BloomOf(val.keys)], Len(s))
    BY <2>1, BloomAt
  <2>3. Content(m.tag, s) = DecodeBloom(s) /\ (BitsFor(val.keys) > MaxBits => TooMuch(m))
    BY <1>2, <1>6 DEF Content, TooMuch, BlockTags
  <2>4. Value(m) = [epoch |-> val.epoch, blocks |-> val.blocks, bloom |-> BloomOf(val.keys)]
    BY <1>2, <1>6 DEF Value
  <2> QED
    BY <2>2, <2>3, <2>4 DEF Handled
<1>7. CASE m.tag # "Program" /\ m.tag \notin BlockTags /\ m.tag # "Need" /\ m.tag # "Bloom"
  <2>1. s = val
    BY <1>2, <1>7 DEF Payload
  <2>2. Content(m.tag, s) = Ok(s, Len(s)) /\ Value(m) = val
    BY <1>2, <1>7 DEF Content, Value
  <2> QED
    BY <2>1, <2>2 DEF Handled
<1> QED
  BY <1>3, <1>4, <1>5, <1>6, <1>7

\* A frame that can be written.
FrameOk(f) ==
  /\ f.tag \in AllTags /\ f.stream \in Words64
  /\ f.payload \in Seq(Byte) /\ Len(f.payload) \in Words64 /\ Len(f.payload) \in Nat
  /\ f = [tag |-> f.tag, stream |-> f.stream, payload |-> f.payload]

\* What is made of the frame of a message, if its payload is not too large.
Delivered(m, stream, r) ==
  \/ r = Ok([tag |-> m.tag, stream |-> stream, val |-> Value(m)], 0)
  \/ r.res # "ok" /\ (Len(Payload(m)) > MaxPayload \/ TooMuch(m))

\* The message that is made of a content.
Told(tag, stream, c) == Ok([tag |-> tag, stream |-> stream, val |-> c.val], 0)

\* The frame of a message can be written, and is delivered.
LEMMA MessageAt ==
  ASSUME NEW m, MessageOk(m), NEW stream \in Words64, NEW compress,
         NEW f, f = FrameOf(m, stream, compress)
  PROVE  FrameOk(f) /\ (Len(f.payload) <= MaxPayload => Delivered(m, stream, Message(f)))
<1>1. PICK s \in Seq(Byte) : s = Payload(m)
  BY PayloadSeq
<1>2. Len(s) < Word /\ Len(s) \in Words64 /\ Len(s) \in Nat
  BY <1>1, Widths DEF MessageOk, Words64
<1>3. PICK tag \in PlainTags : tag = m.tag
  BY DEF MessageOk
<1>4. tag \in AllTags /\ Plain(tag) = tag
  BY UploadTags
<1>5. Len(s) <= MaxPayload => Handled(m, Content(tag, s), Len(s))
  BY <1>1, <1>3, ContentAt
<1>6. ASSUME NEW r, r = Then(Content(tag, s), LAMBDA c : Told(tag, stream, c)),
             Len(s) <= MaxPayload
      PROVE  Delivered(m, stream, r)
  <2>1. PICK c : c = Content(tag, s)
    OBVIOUS
  <2>2. r = Then(c, LAMBDA e : Told(tag, stream, e))
    BY <1>6, <2>1
  <2>3. CASE c = Ok(Value(m), Len(s))
    <3>1. c.res = "ok" /\ c.val = Value(m)
      BY <2>3 DEF Ok
    <3> QED
      BY <1>3, <2>2, <3>1 DEF Then, Delivered, Told
  <2>4. CASE c = Bad /\ TooMuch(m)
    <3>1. c.res # "ok"
      BY <2>4 DEF Bad
    <3> QED
      BY <2>2, <2>4, <3>1 DEF Then, Delivered, Told
  <2> QED
    BY <1>5, <1>6, <2>1, <2>3, <2>4 DEF Handled
<1>7. CASE tag \in Uploads /\ compress /\ Worth(s)
  <2>1. PICK z \in Seq(Byte) : z = Zstd(s) /\ Unzstd(z) = s
    BY <1>1, <1>7 DEF MessageOk
  <2>2. Len(z) <= Len(s) /\ Len(z) \in Nat
    <3>1. 10 * (Len(s) - Len(z)) >= Len(s)
      BY <1>7, <2>1 DEF Worth
    <3> QED
      BY <1>2, <3>1
  <2>3. Len(z) \in Words64
    BY <1>2, <2>2, Widths DEF Words64
  <2>4. PICK ztag : ztag = Compressed[tag]
    OBVIOUS
  <2>5. ztag \in AllTags /\ ztag # tag /\ Plain(ztag) = tag
    BY <1>7, <2>4, UploadTags
  <2>6. f = [tag |-> ztag, stream |-> stream, payload |-> z]
    BY <1>1, <1>3, <1>7, <2>1, <2>4 DEF FrameOf, UploadFrame
  <2>7. f.tag = ztag /\ f.stream = stream /\ f.payload = z
    BY <2>6
  <2>8. FrameOk(f)
    BY <2>2, <2>3, <2>5, <2>6, <2>7 DEF FrameOk
  <2>9. PICK p : p = PlainPayload(f)
    OBVIOUS
  <2>10. p = IF Len(s) > MaxPayload THEN Bad ELSE Ok(s, Len(s))
    BY <2>1, <2>5, <2>7, <2>9 DEF PlainPayload
  <2>11. Message(f) = Then(p, LAMBDA e :
           Then(Content(tag, e.val), LAMBDA c : Told(tag, stream, c)))
    BY <2>5, <2>7, <2>9 DEF Message, Told
  <2>12. CASE Len(s) > MaxPayload
    <3>1. p.res # "ok" /\ Message(f) = p
      BY <2>10, <2>11, <2>12 DEF Bad, Then
    <3> QED
      BY <1>1, <2>8, <2>12, <3>1 DEF Delivered
  <2>13. CASE ~ (Len(s) > MaxPayload)
    <3>1. p.res = "ok" /\ p.val = s
      BY <2>10, <2>13 DEF Ok
    <3>2. Message(f) = Then(Content(tag, s), LAMBDA c : Told(tag, stream, c))
      BY <2>11, <3>1 DEF Then
    <3>3. Len(s) <= MaxPayload
      BY <1>2, <2>13, Widths
    <3> QED
      BY <1>6, <2>8, <3>2, <3>3
  <2> QED
    BY <2>12, <2>13
<1>8. CASE ~ (tag \in Uploads /\ compress /\ Worth(s))
  <2>1. f = [tag |-> tag, stream |-> stream, payload |-> s]
    BY <1>1, <1>3, <1>8 DEF FrameOf, UploadFrame
  <2>2. f.tag = tag /\ f.stream = stream /\ f.payload = s
    BY <2>1
  <2>3. FrameOk(f)
    BY <1>2, <1>4, <2>1, <2>2 DEF FrameOk
  <2>4. PICK p : p = PlainPayload(f)
    OBVIOUS
  <2>5. p.res = "ok" /\ p.val = s
    BY <1>4, <2>2, <2>4 DEF PlainPayload, Ok
  <2>6. Message(f) = Then(p, LAMBDA e :
          Then(Content(tag, e.val), LAMBDA c : Told(tag, stream, c)))
    BY <1>4, <2>2, <2>4 DEF Message, Told
  <2>7. Message(f) = Then(Content(tag, s), LAMBDA c : Told(tag, stream, c))
    BY <2>5, <2>6 DEF Then
  <2> QED
    BY <1>6, <2>2, <2>3, <2>7
<1> QED
  BY <1>7, <1>8

\* The parts of a frame as it is written.
FrameParts(f, w, b, x1, x2) ==
  /\ b = TagByte(f.tag) /\ x1 = WriteUvarint(f.stream) /\ x2 = WriteUvarint(Len(f.payload))
  /\ b \in DOMAIN Tags /\ Tags[b] = f.tag /\ b \in Byte /\ <<b>> \in Seq(Byte)
  /\ x1 \in Seq(Byte) /\ x2 \in Seq(Byte) /\ f.payload \in Seq(Byte)
  /\ w = ((<<b>> \o x1) \o x2) \o f.payload /\ w \in Seq(Byte)

\* A frame is written as bytes.
LEMMA FrameSeq ==
  ASSUME NEW f, FrameOk(f), NEW w, w = WriteFrame(f)
  PROVE  w \in Seq(Byte) /\ \E b, x1, x2 : FrameParts(f, w, b, x1, x2)
<1>1. PICK tag \in AllTags : tag = f.tag
  BY DEF FrameOk
<1>2. PICK b \in Byte : b = TagByte(tag)
  BY TagBytes
<1>3. b \in DOMAIN Tags /\ Tags[b] = tag
  BY <1>2, TagBytes
<1>4. PICK x1 \in Seq(Byte) : x1 = WriteUvarint(f.stream)
  BY VarSeq DEF FrameOk
<1>5. PICK x2 \in Seq(Byte) : x2 = WriteUvarint(Len(f.payload))
  BY VarSeq DEF FrameOk
<1>6. PICK p \in Seq(Byte) : p = f.payload
  BY DEF FrameOk
<1>7. w = ((<<b>> \o x1) \o x2) \o p
  BY <1>1, <1>2, <1>4, <1>5, <1>6 DEF WriteFrame
<1>8. PICK x0 \in Seq(Byte) : x0 = <<b>>
  <2>1. <<b>> \in Seq(Byte)
    OBVIOUS
  <2> QED
    BY <2>1
<1>9. w \in Seq(Byte)
  BY <1>7, <1>8
<1>10. FrameParts(f, w, b, x1, x2)
  BY <1>1, <1>2, <1>3, <1>4, <1>5, <1>6, <1>7, <1>8, <1>9 DEF FrameParts
<1> QED
  BY <1>9, <1>10

\* The reading of a frame after its tag, as far as its length and its payload.
AfterStream(s, b, r) ==
  Then(Uvarint(s, r.at), LAMBDA len :
    IF len.val > MaxPayload THEN Bad
    ELSE Then(Take(s, len.at, len.val), LAMBDA body :
           Ok([tag |-> Tags[b], stream |-> r.val, payload |-> body.val], body.at)))
AfterLength(s, b, r, l) ==
  Then(Take(s, l.at, l.val), LAMBDA body :
    Ok([tag |-> Tags[b], stream |-> r.val, payload |-> body.val], body.at))

\* The tag is read first.
LEMMA ReadFrameIs ==
  ASSUME NEW s \in Seq(Byte), Len(s) > 0, NEW b, b = s[1], b \in DOMAIN Tags,
         NEW u, u = Uvarint(s, 1)
  PROVE  ReadFrame(s) = IF u.res = "ok" THEN AfterStream(s, b, u) ELSE u
<1>1. s # <<>>
  <2>1. Len(<<>>) = 0
    OBVIOUS
  <2> QED
    BY <2>1
<1> QED
  BY <1>1 DEF ReadFrame, AfterStream, Then

\* The length is read next.
LEMMA AfterStreamIs ==
  ASSUME NEW s, NEW b, NEW r, NEW l, l = Uvarint(s, r.at)
  PROVE  AfterStream(s, b, r) = IF l.res # "ok" THEN l
                                ELSE IF l.val > MaxPayload THEN Bad ELSE AfterLength(s, b, r, l)
BY DEF AfterStream, AfterLength, Then

\* A run of bytes that stands somewhere is taken from there.
Taken(s, at, x) == Take(s, at, Len(x)) = Ok(x, at + Len(x))

\* So it is for bytes.
LEMMA TakeBytes ==
  ASSUME NEW s \in Seq(Byte), NEW x \in Seq(Byte), NEW at \in Nat, At(s, at, x)
  PROVE  Taken(s, at, x)
<1>1. PICK n : n = Len(x)
  OBVIOUS
<1>2. Take(s, at, n) = Ok(x, at + n)
  BY <1>1, TakeAt
<1> QED
  BY <1>1, <1>2 DEF Taken

\* The byte of the tag and the stream stand at the start, and end at p1.
FrameHead(s, b, x1, p1) ==
  Len(s) > 0 /\ s[1] = b /\ At(s, 1, x1) /\ p1 = 1 + Len(x1) /\ p1 \in Nat

\* They stand there if the frame does.
LEMMA FrameHeadAt ==
  ASSUME NEW b \in Byte, NEW x0 \in Seq(Byte), x0 = <<b>>, NEW x1 \in Seq(Byte),
         NEW h1, h1 = x0 \o x1, NEW s \in Seq(Byte), At(s, 0, h1)
  PROVE  FrameHead(s, b, x1, Len(h1))
<1>1. PICK z \in Nat : z = 0
  OBVIOUS
<1>2. At(s, z, h1)
  BY <1>1
<1>3. InTwo(s, z, x0, z + Len(x0), x1, h1)
  BY <1>2, TwoAt
<1>4. Len(x0) = 1 /\ x0[1] = b
  OBVIOUS
<1>5. At(s, 1, x1) /\ Len(h1) = 1 + Len(x1) /\ Len(h1) \in Nat
  <2>1. z + Len(x0) = 1
    BY <1>1, <1>4
  <2>2. At(s, z + Len(x0), x1) /\ z + Len(h1) = (z + Len(x0)) + Len(x1) /\ Len(h1) \in Nat
    BY <1>3 DEF InTwo
  <2> QED
    BY <1>1, <2>1, <2>2
<1>6. Len(s) > 0 /\ s[1] = b
  <2>1. At(s, z, x0)
    BY <1>3 DEF InTwo
  <2>2. z + 1 <= Len(s) /\ s[z + 1] = x0[1]
    BY <1>4, <2>1 DEF At
  <2> QED
    BY <1>1, <1>4, <2>2
<1> QED
  BY <1>5, <1>6 DEF FrameHead

\* The first byte and the stream have been read.
Begun(f, s, b, u, p1) ==
  /\ ReadFrame(s) = AfterStream(s, b, u) /\ u.res = "ok" /\ u.val = f.stream /\ u.at = p1

\* They are read as they were written.
LEMMA FrameBegun ==
  ASSUME NEW f, FrameOk(f), NEW w, NEW b, NEW x1 \in Seq(Byte), NEW x2, FrameParts(f, w, b, x1, x2),
         NEW s \in Seq(Byte), NEW p1, FrameHead(s, b, x1, p1), NEW u, u = Uvarint(s, 1)
  PROVE  Begun(f, s, b, u, p1)
<1>1. Len(s) > 0 /\ s[1] = b /\ At(s, 1, x1) /\ p1 = 1 + Len(x1)
  BY DEF FrameHead
<1>2. PICK v \in Words64 : v = f.stream
  BY DEF FrameOk
<1>3. u.res = "ok" /\ u.val = v /\ u.at = 1 + Len(x1)
  <2>1. x1 = WriteUvarint(v)
    BY <1>2 DEF FrameParts
  <2>2. PICK one \in Nat : one = 1
    OBVIOUS
  <2>3. At(s, one, WriteUvarint(v))
    BY <1>1, <2>1, <2>2
  <2>4. Uvarint(s, one) = Ok(v, one + Len(WriteUvarint(v)))
    BY <2>3, UvarintAt
  <2>5. u = Ok(v, 1 + Len(x1))
    BY <2>1, <2>2, <2>4
  <2> QED
    BY <2>5 DEF Ok
<1>4. PICK c : c = s[1]
  OBVIOUS
<1>5. c = b /\ c \in DOMAIN Tags
  BY <1>4, <1>1 DEF FrameParts
<1>6. ReadFrame(s) = IF u.res = "ok" THEN AfterStream(s, c, u) ELSE u
  BY <1>4, <1>5, <1>1, ReadFrameIs
<1> QED
  BY <1>2, <1>3, <1>5, <1>6, <1>1 DEF Begun

\* The length has been read as well.
Measured(f, s, b, u, l, p2) ==
  /\ ReadFrame(s) = IF Len(f.payload) > MaxPayload THEN Bad ELSE AfterLength(s, b, u, l)
  /\ l.at = p2 /\ l.val = Len(f.payload)

\* The length is read as it was written.
LEMMA FrameMeasured ==
  ASSUME NEW f, FrameOk(f), NEW w, NEW b, NEW x1, NEW x2 \in Seq(Byte), FrameParts(f, w, b, x1, x2),
         NEW s \in Seq(Byte), NEW u, NEW p1 \in Nat, Begun(f, s, b, u, p1), At(s, p1, x2),
         NEW l, l = Uvarint(s, p1)
  PROVE  Measured(f, s, b, u, l, p1 + Len(x2))
<1>1. PICK n \in Words64 : n = Len(f.payload)
  BY DEF FrameOk
<1>2. l.res = "ok" /\ l.val = n /\ l.at = p1 + Len(x2)
  <2>1. x2 = WriteUvarint(n)
    BY <1>1 DEF FrameParts
  <2>2. Uvarint(s, p1) = Ok(n, p1 + Len(WriteUvarint(n)))
    BY <2>1, UvarintAt
  <2>3. l = Ok(n, p1 + Len(x2))
    BY <2>1, <2>2
  <2> QED
    BY <2>3 DEF Ok
<1>3. l = Uvarint(s, u.at)
  BY DEF Begun
<1>4. AfterStream(s, b, u) = IF l.res # "ok" THEN l
                             ELSE IF l.val > MaxPayload THEN Bad ELSE AfterLength(s, b, u, l)
  BY <1>3, AfterStreamIs
<1> QED
  BY <1>1, <1>2, <1>4 DEF Begun, Measured

\* A frame that stands at the start is read as it was written, if it is not too large.
LEMMA FrameAt ==
  ASSUME NEW f, FrameOk(f), NEW w, w = WriteFrame(f), NEW s \in Seq(Byte), At(s, 0, w)
  PROVE  ReadFrame(s) = IF Len(f.payload) > MaxPayload THEN Bad ELSE Ok(f, Len(w))
<1>1. PICK b, x1, x2 : FrameParts(f, w, b, x1, x2)
  BY FrameSeq
<1>2. PICK x0 \in Seq(Byte) : x0 = <<b>>
  BY <1>1 DEF FrameParts
<1>3. PICK p \in Seq(Byte) : p = f.payload
  BY <1>1 DEF FrameParts
<1>4. x1 \in Seq(Byte) /\ x2 \in Seq(Byte) /\ w \in Seq(Byte)
  BY <1>1 DEF FrameParts
<1>5. PICK h1 \in Seq(Byte) : h1 = x0 \o x1
  <2>1. x0 \o x1 \in Seq(Byte)
    BY <1>4
  <2> QED
    BY <2>1
<1>6. PICK h2 \in Seq(Byte) : h2 = h1 \o x2
  <2>1. h1 \o x2 \in Seq(Byte)
    BY <1>4
  <2> QED
    BY <2>1
<1>7. w = h2 \o p
  BY <1>1, <1>2, <1>3, <1>5, <1>6 DEF FrameParts
<1>8. PICK z \in Nat : z = 0
  OBVIOUS
<1>9. At(s, z, w)
  BY <1>8
<1>10. InTwo(s, z, h2, z + Len(h2), p, w)
  BY <1>4, <1>7, <1>9, TwoAt
<1>11. At(s, z, h2)
  BY <1>10 DEF InTwo
<1>12. InTwo(s, z, h1, z + Len(h1), x2, h2)
  BY <1>4, <1>6, <1>11, TwoAt
<1>13. At(s, z, h1)
  BY <1>12 DEF InTwo
<1>14. PICK p1 \in Nat : p1 = Len(h1)
  OBVIOUS
<1>15. z + Len(h1) = p1
  BY <1>8, <1>14
<1>16. PICK p2 \in Nat : p2 = z + Len(h2)
  BY <1>10 DEF InTwo
<1>17. At(s, p1, x2) /\ p2 = p1 + Len(x2)
  BY <1>12, <1>15, <1>16 DEF InTwo
<1>18. At(s, p2, p) /\ Len(w) = p2 + Len(p)
  <2>1. At(s, p2, p) /\ z + Len(w) = p2 + Len(p) /\ Len(w) \in Nat
    BY <1>10, <1>16 DEF InTwo
  <2> QED
    BY <1>8, <2>1
<1>19. FrameHead(s, b, x1, p1)
  <2>1. b \in Byte
    BY <1>1 DEF FrameParts
  <2>2. At(s, 0, h1)
    BY <1>8, <1>13
  <2>3. FrameHead(s, b, x1, Len(h1))
    BY <1>2, <1>4, <1>5, <2>1, <2>2, FrameHeadAt
  <2> QED
    BY <1>14, <2>3
<1>20. PICK u : u = Uvarint(s, 1)
  OBVIOUS
<1>21. Begun(f, s, b, u, p1)
  BY <1>1, <1>4, <1>19, <1>20, FrameBegun
<1>22. PICK l : l = Uvarint(s, p1)
  OBVIOUS
<1>23. Measured(f, s, b, u, l, p2)
  <2>1. At(s, p1, x2)
    BY <1>17
  <2>2. Measured(f, s, b, u, l, p1 + Len(x2))
    BY <1>1, <1>4, <1>21, <1>22, <2>1, FrameMeasured
  <2> QED
    BY <1>17, <2>2
<1>24. AfterLength(s, b, u, l) = Ok(f, Len(w))
  <2>1. Taken(s, p2, p)
    BY <1>18, TakeBytes
  <2>2. PICK t : t = Take(s, l.at, l.val)
    OBVIOUS
  <2>3. t = Ok(p, Len(w))
    BY <1>3, <1>18, <1>23, <2>1, <2>2 DEF Measured, Taken
  <2>4. t.res = "ok" /\ t.val = p /\ t.at = Len(w)
    BY <2>3 DEF Ok
  <2>5. AfterLength(s, b, u, l) = Ok([tag |-> Tags[b], stream |-> u.val, payload |-> p], Len(w))
    BY <2>2, <2>4 DEF AfterLength, Then
  <2>6. Tags[b] = f.tag /\ u.val = f.stream
    BY <1>1, <1>21 DEF FrameParts, Begun
  <2>7. f = [tag |-> Tags[b], stream |-> u.val, payload |-> p]
    BY <1>3, <2>6 DEF FrameOk
  <2> QED
    BY <2>5, <2>7
<1> QED
  BY <1>23, <1>24 DEF Measured

\* Bytes that end within two runs end within the first, or within the second.
CutInTwo(s, at, x, p, y) == Cut(s, at, x) \/ (At(s, at, x) /\ p \in Nat /\ Cut(s, p, y))

\* So it is for the concatenation of the two.
LEMMA TwoCut ==
  ASSUME NEW s \in Seq(Byte), NEW x \in Seq(Byte), NEW y \in Seq(Byte), NEW at \in Nat,
         NEW z, z = x \o y, Cut(s, at, z)
  PROVE  CutInTwo(s, at, x, at + Len(x), y)
<1>1. Cut(s, at, x) \/ (At(s, at, x) /\ Cut(s, at + Len(x), y))
  BY CutCat
<1>2. at + Len(x) \in Nat
  OBVIOUS
<1> QED
  BY <1>1, <1>2 DEF CutInTwo

\* Of a frame that is cut short nothing is made: there is more to come, unless its
\* length, that has come, is more than the reader takes.
LEMMA FrameCut ==
  ASSUME NEW f, FrameOk(f), NEW w, w = WriteFrame(f), NEW s \in Seq(Byte), Cut(s, 0, w)
  PROVE  ReadFrame(s) = Short \/ (ReadFrame(s) = Bad /\ Len(f.payload) > MaxPayload)
<1>1. PICK b, x1, x2 : FrameParts(f, w, b, x1, x2)
  BY FrameSeq
<1>2. PICK x0 \in Seq(Byte) : x0 = <<b>>
  BY <1>1 DEF FrameParts
<1>3. PICK p \in Seq(Byte) : p = f.payload
  BY <1>1 DEF FrameParts
<1>4. x1 \in Seq(Byte) /\ x2 \in Seq(Byte) /\ w \in Seq(Byte)
  BY <1>1 DEF FrameParts
<1>5. PICK h1 \in Seq(Byte) : h1 = x0 \o x1
  <2>1. x0 \o x1 \in Seq(Byte)
    BY <1>4
  <2> QED
    BY <2>1
<1>6. PICK h2 \in Seq(Byte) : h2 = h1 \o x2
  <2>1. h1 \o x2 \in Seq(Byte)
    BY <1>4
  <2> QED
    BY <2>1
<1>7. w = h2 \o p
  BY <1>1, <1>2, <1>3, <1>5, <1>6 DEF FrameParts
<1>8. PICK z \in Nat : z = 0
  OBVIOUS
<1>9. Cut(s, z, w)
  BY <1>8
<1>10. CutInTwo(s, z, h2, z + Len(h2), p)
  BY <1>7, <1>9, TwoCut
<1>11. CASE Cut(s, z, h2)
  <2>1. CutInTwo(s, z, h1, z + Len(h1), x2)
    BY <1>4, <1>6, <1>11, TwoCut
  <2>2. CASE Cut(s, z, h1)
    <3>1. CutInTwo(s, z, x0, z + Len(x0), x1)
      BY <1>4, <1>5, <2>2, TwoCut
    <3>2. Len(x0) = 1 /\ x0[1] = b
      BY <1>2
    <3>3. CASE Cut(s, z, x0)
      <4>1. Len(s) < 1
        BY <1>8, <3>2, <3>3 DEF Cut
      <4>2. s = <<>>
        BY <4>1
      <4> QED
        BY <4>2 DEF ReadFrame
    <3>4. CASE At(s, z, x0) /\ Cut(s, z + Len(x0), x1)
      <4>1. Len(s) > 0 /\ s[1] = b
        <5>1. z + 1 <= Len(s) /\ s[z + 1] = x0[1]
          BY <3>2, <3>4 DEF At
        <5> QED
          BY <1>8, <3>2, <5>1
      <4>2. PICK one \in Nat : one = 1
        OBVIOUS
      <4>3. Cut(s, one, x1)
        <5>1. z + Len(x0) = one
          BY <1>8, <3>2, <4>2
        <5> QED
          BY <3>4, <5>1
      <4>4. PICK v \in Words64 : v = f.stream
        BY DEF FrameOk
      <4>5. Cut(s, one, WriteUvarint(v))
        BY <1>1, <4>3, <4>4 DEF FrameParts
      <4>6. PICK u : u = Uvarint(s, 1)
        OBVIOUS
      <4>7. u = Short
        <5>1. Uvarint(s, one) = Short
          BY <4>5, UvarintCut
        <5> QED
          BY <4>2, <4>6, <5>1
      <4>8. u.res # "ok"
        BY <4>7 DEF Short
      <4>9. PICK c : c = s[1]
        OBVIOUS
      <4>10. c \in DOMAIN Tags
        BY <1>1, <4>1, <4>9 DEF FrameParts
      <4>11. ReadFrame(s) = IF u.res = "ok" THEN AfterStream(s, c, u) ELSE u
        BY <4>1, <4>6, <4>9, <4>10, ReadFrameIs
      <4> QED
        BY <4>7, <4>8, <4>11
    <3> QED
      BY <3>1, <3>3, <3>4 DEF CutInTwo
  <2>3. CASE At(s, z, h1) /\ Cut(s, z + Len(h1), x2)
    <3>1. PICK p1 \in Nat : p1 = Len(h1)
      OBVIOUS
    <3>2. Cut(s, p1, x2) /\ At(s, 0, h1)
      BY <1>8, <2>3, <3>1
    <3>3. FrameHead(s, b, x1, p1)
      <4>1. b \in Byte
        BY <1>1 DEF FrameParts
      <4>2. FrameHead(s, b, x1, Len(h1))
        BY <1>2, <1>4, <1>5, <3>2, <4>1, FrameHeadAt
      <4> QED
        BY <3>1, <4>2
    <3>4. PICK u : u = Uvarint(s, 1)
      OBVIOUS
    <3>5. Begun(f, s, b, u, p1)
      BY <1>1, <1>4, <3>3, <3>4, FrameBegun
    <3>6. PICK n \in Words64 : n = Len(f.payload)
      BY DEF FrameOk
    <3>7. Cut(s, p1, WriteUvarint(n))
      BY <1>1, <3>2, <3>6 DEF FrameParts
    <3>8. PICK l : l = Uvarint(s, p1)
      OBVIOUS
    <3>9. l = Short
      BY <3>7, <3>8, UvarintCut
    <3>10. l = Uvarint(s, u.at)
      BY <3>5, <3>8 DEF Begun
    <3>11. AfterStream(s, b, u) = IF l.res # "ok" THEN l
                                  ELSE IF l.val > MaxPayload THEN Bad ELSE AfterLength(s, b, u, l)
      BY <3>10, AfterStreamIs
    <3>12. l.res # "ok"
      BY <3>9 DEF Short
    <3> QED
      BY <3>5, <3>9, <3>11, <3>12 DEF Begun
  <2> QED
    BY <2>1, <2>2, <2>3 DEF CutInTwo
<1>12. CASE At(s, z, h2) /\ Cut(s, z + Len(h2), p)
  <2>1. InTwo(s, z, h1, z + Len(h1), x2, h2)
    BY <1>4, <1>6, <1>12, TwoAt
  <2>2. PICK p1 \in Nat : p1 = Len(h1)
    OBVIOUS
  <2>3. PICK p2 \in Nat : p2 = Len(h2)
    OBVIOUS
  <2>4. At(s, 0, h1) /\ At(s, p1, x2) /\ p2 = p1 + Len(x2)
    <3>1. z + Len(h1) = p1
      BY <1>8, <2>2
    <3>2. At(s, z, h1) /\ At(s, z + Len(h1), x2) /\ z + Len(h2) = (z + Len(h1)) + Len(x2)
      BY <2>1 DEF InTwo
    <3>3. z + Len(h2) = p2
      BY <1>8, <2>3
    <3> QED
      BY <1>8, <3>1, <3>2, <3>3
  <2>5. FrameHead(s, b, x1, p1)
    <3>1. b \in Byte
      BY <1>1 DEF FrameParts
    <3>2. FrameHead(s, b, x1, Len(h1))
      BY <1>2, <1>4, <1>5, <2>4, <3>1, FrameHeadAt
    <3> QED
      BY <2>2, <3>2
  <2>6. PICK u : u = Uvarint(s, 1)
    OBVIOUS
  <2>7. Begun(f, s, b, u, p1)
    BY <1>1, <1>4, <2>5, <2>6, FrameBegun
  <2>8. PICK l : l = Uvarint(s, p1)
    OBVIOUS
  <2>9. Measured(f, s, b, u, l, p2)
    <3>1. At(s, p1, x2)
      BY <2>4
    <3>2. Measured(f, s, b, u, l, p1 + Len(x2))
      BY <1>1, <1>4, <2>7, <2>8, <3>1, FrameMeasured
    <3> QED
      BY <2>4, <3>2
  <2>10. Len(s) - p2 < Len(p)
    <3>1. z + Len(h2) = p2
      BY <1>8, <2>3
    <3>2. Len(s) < p2 + Len(p)
      BY <1>12, <3>1 DEF Cut
    <3> QED
      BY <3>2
  <2>11. AfterLength(s, b, u, l) = Short
    <3>1. PICK t : t = Take(s, l.at, l.val)
      OBVIOUS
    <3>2. t = Short
      BY <1>3, <2>9, <2>10, <3>1 DEF Measured, Take
    <3>3. t.res # "ok"
      BY <3>2 DEF Short
    <3> QED
      BY <3>1, <3>2, <3>3 DEF AfterLength, Then
  <2> QED
    BY <2>9, <2>11 DEF Measured
<1> QED
  BY <1>10, <1>11, <1>12 DEF CutInTwo

-----------------------------------------------------------------------------
(* What is in flight *)

\* A run after a run stands where the two stand.
LEMMA AtJoin ==
  ASSUME NEW s \in Seq(Byte), NEW x \in Seq(Byte), NEW y \in Seq(Byte), NEW at \in Nat,
         At(s, at, x), NEW p, p = at + Len(x), At(s, p, y), NEW z, z = x \o y
  PROVE  At(s, at, z)
<1>1. Len(z) = Len(x) + Len(y) /\ Len(x) \in Nat /\ Len(y) \in Nat
  OBVIOUS
<1>2. at + Len(z) <= Len(s)
  BY <1>1 DEF At
<1>3. ASSUME NEW i \in 1 .. Len(z) PROVE s[at + i] = z[i]
  <2>1. CASE i <= Len(x)
    <3>1. i \in 1 .. Len(x)
      BY <1>1, <2>1
    <3>2. z[i] = x[i]
      BY <3>1
    <3> QED
      BY <3>1, <3>2 DEF At
  <2>2. CASE ~ (i <= Len(x))
    <3>1. PICK j \in 1 .. Len(y) : i = Len(x) + j
      <4>1. i - Len(x) \in 1 .. Len(y) /\ i = Len(x) + (i - Len(x))
        BY <1>1, <2>2
      <4> QED
        BY <4>1
    <3>2. z[i] = y[j]
      BY <1>1, <3>1
    <3>3. s[p + j] = y[j]
      BY DEF At
    <3>4. p + j = at + i
      BY <1>1, <3>1
    <3> QED
      BY <3>2, <3>3, <3>4
  <2> QED
    BY <2>1, <2>2
<1> QED
  BY <1>2, <1>3 DEF At

\* Of two runs that stand at one place the one starts the other.
StartsOrCut(x, y) == At(x, 0, y) \/ Cut(x, 0, y)

\* They do, being the same bytes.
LEMMA AtSame ==
  ASSUME NEW s \in Seq(Byte), NEW x \in Seq(Byte), NEW y \in Seq(Byte), NEW at \in Nat,
         At(s, at, x), At(s, at, y)
  PROVE  StartsOrCut(x, y)
<1>1. Len(x) \in Nat /\ Len(y) \in Nat
  OBVIOUS
<1>2. ASSUME NEW i \in 1 .. Len(x), i \in 1 .. Len(y) PROVE x[i] = y[i]
  BY <1>2 DEF At
<1>3. CASE Len(y) <= Len(x)
  <2>1. \A i \in 1 .. Len(y) : i \in 1 .. Len(x) /\ 0 + i = i
    BY <1>1, <1>3
  <2>2. \A i \in 1 .. Len(y) : x[0 + i] = y[i]
    BY <1>2, <2>1
  <2> QED
    BY <1>1, <1>3, <2>2 DEF At, StartsOrCut
<1>4. CASE ~ (Len(y) <= Len(x))
  <2>1. \A i \in 1 .. Len(x) - 0 : i \in 1 .. Len(x) /\ i \in 1 .. Len(y) /\ 0 + i = i
    BY <1>1, <1>4
  <2>2. \A i \in 1 .. Len(x) - 0 : x[0 + i] = y[i]
    BY <1>2, <2>1
  <2> QED
    BY <1>1, <1>4, <2>2 DEF Cut, StartsOrCut
<1> QED
  BY <1>3, <1>4

\* What is sent, the frame that is made of it and the bytes that are written.
Sent     == [msg : {Messages[i] : i \in DOMAIN Messages}, stream : Streams, compress : BOOLEAN]
Frame(x) == FrameOf(x.msg, x.stream, x.compress)
Bytes(x) == WriteFrame(Frame(x))
Frames(s) == [k \in DOMAIN s |-> Bytes(s[k])]

\* What is sent has a frame that can be written.
LEMMA SentIs ==
  ASSUME NEW x \in Sent
  PROVE  /\ MessageOk(x.msg) /\ x.stream \in Words64 /\ FrameOk(Frame(x))
         /\ Bytes(x) \in Seq(Byte)
<1>1. PICK i \in DOMAIN Messages : x.msg = Messages[i]
  BY DEF Sent
<1>2. PICK m : m = x.msg
  OBVIOUS
<1>3. m.tag \in PlainTags /\ ContentOk(m) /\ Len(Payload(m)) < Word
  BY <1>1, <1>2, MessageAssumption DEF PlainTags, AllTags
<1>4. Worth(Payload(m)) => Zstd(Payload(m)) \in Seq(Byte) /\ Unzstd(Zstd(Payload(m))) = Payload(m)
  BY <1>1, <1>2, ZstdAssumption
<1>5. MessageOk(m)
  BY <1>3, <1>4 DEF MessageOk
<1>6. PICK stream \in Words64 : stream = x.stream
  <2>1. x.stream \in Streams
    BY DEF Sent
  <2>2. Streams \subseteq Words64
    BY WidthAssumption DEF Words64
  <2> QED
    BY <2>1, <2>2
<1>7. PICK compress : compress = x.compress
  OBVIOUS
<1>8. PICK f : f = FrameOf(m, stream, compress)
  OBVIOUS
<1>9. FrameOk(f)
  BY <1>5, <1>8, MessageAt
<1>10. f = Frame(x)
  BY <1>2, <1>6, <1>7, <1>8 DEF Frame
<1>11. PICK w : w = WriteFrame(f)
  OBVIOUS
<1>12. w \in Seq(Byte)
  BY <1>9, <1>11, FrameSeq
<1> QED
  BY <1>2, <1>5, <1>6, <1>9, <1>10, <1>11, <1>12 DEF Bytes

\* The bytes of a sequence of messages.
FramesOf(s, xs) == xs = Frames(s) /\ xs \in Seq(Seq(Byte)) /\ Len(xs) = Len(s)
                   /\ \A k \in 1 .. Len(s) : xs[k] = Bytes(s[k])

\* They are runs of bytes, one for each message.
LEMMA FramesAre ==
  ASSUME NEW s \in Seq(Sent), NEW xs, xs = Frames(s)
  PROVE  FramesOf(s, xs)
<1>1. PICK T : T = Seq(Byte)
  OBVIOUS
<1>2. PICK n \in Nat : n = Len(s)
  OBVIOUS
<1>3. DOMAIN s = 1 .. n
  BY <1>2
<1>4. ASSUME NEW k \in 1 .. n PROVE Bytes(s[k]) \in T
  <2>1. PICK x \in Sent : x = s[k]
    BY <1>2
  <2> QED
    BY <1>1, <2>1, SentIs
<1>5. xs = [k \in 1 .. n |-> Bytes(s[k])]
  BY <1>3 DEF Frames
<1>6. xs \in Seq(T) /\ Len(xs) = n
  BY <1>4, <1>5
<1> QED
  BY <1>1, <1>2, <1>5, <1>6 DEF FramesOf

\* What is in flight is what was written from the k-th message on, but for what the
\* cut has taken from its end.
InFlight(s, k, w, l) ==
  /\ At(FlattenSeq(Frames(s)), Offset(Frames(s), k), w)
  /\ Offset(Frames(s), k) + Len(w) + l = Len(FlattenSeq(Frames(s)))

\* Sending appends a frame to what is in flight.
LEMMA SendKeeps ==
  ASSUME NEW s \in Seq(Sent), NEW k \in 0 .. Len(s), NEW w \in Seq(Byte), InFlight(s, k, w, 0),
         NEW x \in Sent, NEW t, t = Append(s, x)
  PROVE  InFlight(t, k, w \o Bytes(x), 0)
<1>1. t \in Seq(Sent) /\ Len(t) = Len(s) + 1 /\ Len(s) \in Nat
      /\ \A j \in 1 .. Len(s) : t[j] = s[j] /\ t[Len(s) + 1] = x
  OBVIOUS
<1>2. PICK xs : xs = Frames(s)
  OBVIOUS
<1>3. PICK ys : ys = Frames(t)
  OBVIOUS
<1>4. FramesOf(s, xs)
  BY <1>2, FramesAre
<1>5. FramesOf(t, ys)
  BY <1>1, <1>3, FramesAre
<1>6. PICK y \in Seq(Byte) : y = Bytes(x)
  BY SentIs
<1>7. xs \in Seq(Seq(Byte)) /\ ys \in Seq(Seq(Byte)) /\ Len(xs) = Len(s) /\ Len(ys) = Len(s) + 1
  BY <1>1, <1>4, <1>5 DEF FramesOf
<1>8. \A j \in 1 .. Len(s) : xs[j] = ys[j]
  BY <1>1, <1>4, <1>5 DEF FramesOf
<1>9. ys = Append(xs, y)
  <2>1. ys[Len(s) + 1] = y
    <3>1. t[Len(s) + 1] = x /\ Len(s) + 1 \in 1 .. Len(t)
      BY <1>1
    <3> QED
      BY <1>5, <1>6, <3>1 DEF FramesOf
  <2>2. PICK T : T = Seq(Byte)
    OBVIOUS
  <2>3. xs \in Seq(T) /\ ys \in Seq(T) /\ y \in T
    BY <1>6, <1>7, <2>2
  <2> QED
    BY <1>1, <1>7, <1>8, <2>1, <2>3
<1>10. PICK a \in Seq(Byte) : a = FlattenSeq(xs)
  BY <1>7, FlattenIs
<1>11. PICK b : b = FlattenSeq(ys)
  OBVIOUS
<1>12. b = a \o y
  BY <1>6, <1>7, <1>9, <1>10, <1>11, FlattenAppend
<1>13. PICK p \in Nat : p = Offset(xs, k)
  BY <1>7, OffsetIs
<1>14. Offset(ys, k) = p
  <2>1. k \in Nat /\ k <= Len(xs) /\ k <= Len(ys) /\ \A j \in 1 .. k : xs[j] = ys[j]
    BY <1>1, <1>7, <1>8
  <2>2. Offset(xs, k) = Offset(ys, k)
    BY <1>7, <2>1, OffsetSame
  <2> QED
    BY <1>13, <2>2
<1>15. At(a, p, w) /\ p + Len(w) = Len(a)
  <2>1. At(a, p, w) /\ p + Len(w) + 0 = Len(a)
    BY <1>2, <1>10, <1>13 DEF InFlight
  <2> QED
    BY <2>1
<1>16. b \in Seq(Byte) /\ Len(b) = Len(a) + Len(y) /\ Len(a) \in Nat
  BY <1>12
<1>17. At(b, p, w)
  BY <1>12, <1>15, AtMore
<1>18. At(b, Len(a), y)
  BY <1>12, AtNext
<1>19. PICK z : z = w \o y
  OBVIOUS
<1>20. At(b, p, z)
  <2>1. PICK q : q = p + Len(w)
    OBVIOUS
  <2>2. At(b, q, y)
    BY <1>15, <1>18, <2>1
  <2> QED
    BY <1>16, <1>17, <1>19, <2>1, <2>2, AtJoin
<1>21. p + Len(z) + 0 = Len(b)
  <2>1. PICK lw \in Nat : lw = Len(w)
    OBVIOUS
  <2>2. PICK ly \in Nat : ly = Len(y)
    OBVIOUS
  <2>3. Len(z) = lw + ly
    BY <1>19, <2>1, <2>2
  <2>4. PICK la : la = Len(a)
    OBVIOUS
  <2>5. p + lw = la
    BY <1>15, <2>1, <2>4
  <2>6. Len(b) = la + ly
    BY <1>16, <2>2, <2>4
  <2>7. p + (lw + ly) + 0 = (p + lw) + ly
    OBVIOUS
  <2> QED
    BY <2>3, <2>5, <2>6, <2>7
<1> QED
  BY <1>3, <1>6, <1>11, <1>14, <1>19, <1>20, <1>21 DEF InFlight

\* A cut takes bytes from its end.
LEMMA BreakKeeps ==
  ASSUME NEW s, NEW k, Offset(Frames(s), k) \in Nat, NEW w \in Seq(Byte), InFlight(s, k, w, 0),
         NEW n \in 0 .. Len(w), NEW v, v = SubSeq(w, 1, n)
  PROVE  InFlight(s, k, v, Len(w) - n)
<1>1. v \in Seq(Byte) /\ Len(v) = n /\ n \in Nat /\ Len(w) \in Nat /\ n <= Len(w)
  OBVIOUS
<1>2. \A i \in 1 .. n : v[i] = w[i] /\ i \in 1 .. Len(w)
  BY <1>1
<1>3. PICK a : a = FlattenSeq(Frames(s))
  OBVIOUS
<1>4. PICK p \in Nat : p = Offset(Frames(s), k)
  OBVIOUS
<1>5. At(a, p, w) /\ p + Len(w) + 0 = Len(a)
  BY <1>3, <1>4 DEF InFlight
<1>6. At(a, p, v)
  BY <1>1, <1>2, <1>5 DEF At
<1>7. p + Len(v) + (Len(w) - n) = Len(a)
  BY <1>1, <1>5
<1> QED
  BY <1>3, <1>4, <1>6, <1>7 DEF InFlight

\* Nothing is in flight once all has been read.
LEMMA NoneLeft ==
  ASSUME NEW s \in Seq(Sent), NEW w \in Seq(Byte), NEW l \in Nat, InFlight(s, Len(s), w, l)
  PROVE  w = <<>>
<1>1. PICK xs : xs = Frames(s)
  OBVIOUS
<1>2. FramesOf(s, xs)
  BY <1>1, FramesAre
<1>3. xs \in Seq(Seq(Byte)) /\ Len(xs) = Len(s)
  BY <1>2 DEF FramesOf
<1>4. PICK n \in Nat : n = Len(xs)
  BY <1>3
<1>5. PICK p \in Nat : p = Offset(xs, n)
  BY <1>3, <1>4, OffsetIs
<1>6. Len(FlattenSeq(xs)) = p
  BY <1>3, <1>4, <1>5, FlattenIs
<1>7. p + Len(w) + l = p
  BY <1>1, <1>3, <1>4, <1>5, <1>6 DEF InFlight
<1>8. Len(w) = 0
  BY <1>7
<1> QED
  BY <1>8

\* What is in flight starts with the next frame, or ends within it.
LEMMA NextFrame ==
  ASSUME NEW s \in Seq(Sent), NEW k \in 0 .. Len(s) - 1, NEW w \in Seq(Byte), NEW l,
         InFlight(s, k, w, l)
  PROVE  StartsOrCut(w, Bytes(s[k + 1]))
<1>1. PICK xs : xs = Frames(s)
  OBVIOUS
<1>2. FramesOf(s, xs)
  BY <1>1, FramesAre
<1>3. xs \in Seq(Seq(Byte)) /\ Len(xs) = Len(s) /\ Len(s) \in Nat
  BY <1>2 DEF FramesOf
<1>4. PICK n \in Nat : n = Len(xs)
  BY <1>3
<1>5. PICK p \in Nat : p = Offset(xs, k)
  <2>1. k \in 0 .. n
    BY <1>3, <1>4
  <2>2. Offset(xs, k) \in Nat
    BY <1>3, <1>4, <2>1, OffsetIs
  <2> QED
    BY <2>2
<1>6. PICK a \in Seq(Byte) : a = FlattenSeq(xs)
  BY <1>3, FlattenIs
<1>7. PICK j \in 1 .. n : j = k + 1 /\ j - 1 = k
  BY <1>3, <1>4
<1>8. At(a, Offset(xs, j - 1), xs[j])
  BY <1>3, <1>4, <1>6, <1>7, FlattenIs
<1>9. PICK y \in Seq(Byte) : y = Bytes(s[j])
  <2>1. PICK x \in Sent : x = s[j]
    BY <1>3, <1>4, <1>7
  <2> QED
    BY <2>1, SentIs
<1>10. At(a, p, y)
  <2>1. xs[j] = y
    BY <1>2, <1>3, <1>4, <1>7, <1>9 DEF FramesOf
  <2> QED
    BY <1>5, <1>7, <1>8, <2>1
<1>11. At(a, p, w)
  BY <1>1, <1>5, <1>6 DEF InFlight
<1>12. StartsOrCut(w, y)
  BY <1>10, <1>11, AtSame
<1> QED
  BY <1>7, <1>9, <1>12

\* A run from which the first n bytes have been taken stands n places further on.
TailAt(s, p, w, n, v) == At(s, p + n, v) /\ v \in Seq(Byte) /\ Len(v) = Len(w) - n

\* It does.
LEMMA AtTail ==
  ASSUME NEW s \in Seq(Byte), NEW w \in Seq(Byte), NEW p \in Nat, At(s, p, w),
         NEW n \in 0 .. Len(w), NEW v, v = SubSeq(w, n + 1, Len(w))
  PROVE  TailAt(s, p, w, n, v)
<1>1. v \in Seq(Byte) /\ Len(v) = Len(w) - n /\ Len(w) \in Nat /\ n \in Nat
  OBVIOUS
<1>2. ASSUME NEW i \in 1 .. Len(v) PROVE s[(p + n) + i] = v[i]
  <2>1. n + i \in 1 .. Len(w)
    BY <1>1
  <2>2. v[i] = w[n + i]
    BY <1>1, <2>1
  <2>3. s[p + (n + i)] = w[n + i]
    BY <2>1 DEF At
  <2>4. p + (n + i) = (p + n) + i
    BY <1>1
  <2> QED
    BY <2>2, <2>3, <2>4
<1>3. (p + n) + Len(v) <= Len(s)
  <2>1. PICK lw \in Nat : lw = Len(w)
    OBVIOUS
  <2>2. p + lw <= Len(s) /\ Len(s) \in Nat
    BY <2>1 DEF At
  <2>3. (p + n) + (lw - n) = p + lw
    BY <1>1, <2>1
  <2> QED
    BY <1>1, <2>1, <2>2, <2>3
<1> QED
  BY <1>1, <1>2, <1>3 DEF At, TailAt

\* A frame is taken from what is in flight.
LEMMA ReadKeeps ==
  ASSUME NEW s \in Seq(Sent), NEW k \in 0 .. Len(s) - 1, NEW w \in Seq(Byte), NEW l \in Nat,
         InFlight(s, k, w, l), At(w, 0, Bytes(s[k + 1])),
         NEW v, v = SubSeq(w, Len(Bytes(s[k + 1])) + 1, Len(w))
  PROVE  v \in Seq(Byte) /\ InFlight(s, k + 1, v, l)
<1>1. PICK xs : xs = Frames(s)
  OBVIOUS
<1>2. FramesOf(s, xs)
  BY <1>1, FramesAre
<1>3. xs \in Seq(Seq(Byte)) /\ Len(xs) = Len(s) /\ Len(s) \in Nat
  BY <1>2 DEF FramesOf
<1>4. PICK n \in Nat : n = Len(xs)
  BY <1>3
<1>5. k \in 0 .. n - 1 /\ k \in 0 .. n /\ k + 1 \in 1 .. n
  BY <1>3, <1>4
<1>6. PICK p \in Nat : p = Offset(xs, k)
  <2>1. Offset(xs, k) \in Nat
    BY <1>3, <1>4, <1>5, OffsetIs
  <2> QED
    BY <2>1
<1>7. PICK a \in Seq(Byte) : a = FlattenSeq(xs)
  BY <1>3, FlattenIs
<1>8. PICK y \in Seq(Byte) : y = Bytes(s[k + 1])
  <2>1. PICK x \in Sent : x = s[k + 1]
    BY <1>3, <1>4, <1>5
  <2> QED
    BY <2>1, SentIs
<1>9. Offset(xs, k + 1) = p + Len(y)
  <2>1. Offset(xs, k + 1) = Offset(xs, k) + Len(xs[k + 1])
    BY <1>3, <1>4, <1>5, OffsetIs
  <2>2. xs[k + 1] = y
    BY <1>2, <1>3, <1>4, <1>5, <1>8 DEF FramesOf
  <2> QED
    BY <1>6, <2>1, <2>2
<1>10. At(a, p, w) /\ p + Len(w) + l = Len(a)
  BY <1>1, <1>6, <1>7 DEF InFlight
<1>11. PICK m \in 0 .. Len(w) : m = Len(y)
  <2>1. 0 + Len(y) <= Len(w)
    BY <1>8 DEF At
  <2> QED
    BY <2>1
<1>12. v = SubSeq(w, m + 1, Len(w))
  BY <1>8, <1>11
<1>13. At(a, p + m, v) /\ v \in Seq(Byte) /\ Len(v) = Len(w) - m
  <2>1. At(a, p, w)
    BY <1>10
  <2>2. TailAt(a, p, w, m, v)
    BY <1>12, <2>1, AtTail
  <2> QED
    BY <2>2 DEF TailAt
<1>14. (p + m) + Len(v) + l = Len(a)
  <2>1. PICK lw \in Nat : lw = Len(w)
    OBVIOUS
  <2>2. p + lw + l = Len(a)
    BY <1>10, <2>1
  <2>3. Len(v) = lw - m /\ m \in Nat
    BY <1>13, <2>1
  <2>4. (p + m) + (lw - m) + l = p + lw + l
    BY <2>3
  <2> QED
    BY <2>2, <2>3, <2>4
<1>15. Offset(xs, k + 1) = p + m
  BY <1>9, <1>11
<1> QED
  BY <1>1, <1>7, <1>13, <1>14, <1>15 DEF InFlight

\* What the reader makes of what is in flight: the next message, or an error for
\* which one of its limits is the cause.
Reading(s, k, w, l, f, m) ==
  /\ f.res = "ok" /\ m.res = "ok" =>
       /\ k < Len(s) /\ m.val = Arrives(s[k + 1])
       /\ SubSeq(w, f.at + 1, Len(w)) \in Seq(Byte)
       /\ InFlight(s, k + 1, SubSeq(w, f.at + 1, Len(w)), l)
  /\ (f.res = "ok" /\ m.res # "ok") \/ f.res = "bad" => k < Len(s) /\ Oversize(s[k + 1])

\* Arrives and Oversize, of the parts of a message.
LEMMA ArrivesIs ==
  ASSUME NEW x, NEW m, m = x.msg
  PROVE  /\ Arrives(x) = [tag |-> m.tag, stream |-> x.stream, val |-> Value(m)]
         /\ (Oversize(x) <=> \/ Len(Frame(x).payload) > MaxPayload \/ Len(Payload(m)) > MaxPayload
                             \/ TooMuch(m))
<1>1. Arrives(x) = [tag |-> m.tag, stream |-> x.stream, val |-> Value(m)]
  BY DEF Arrives, Value
<1>2. Oversize(x) <=> \/ Len(Frame(x).payload) > MaxPayload \/ Len(Payload(m)) > MaxPayload
                      \/ TooMuch(m)
  BY DEF Oversize, TooMuch, Frame
<1> QED
  BY <1>1, <1>2

\* It is so for whatever is in flight, however much of it is left.
LEMMA ReadingIs ==
  ASSUME NEW s \in Seq(Sent), NEW k \in 0 .. Len(s), NEW w \in Seq(Byte), NEW l \in Nat,
         InFlight(s, k, w, l), NEW f, f = ReadFrame(w), NEW m, m = Message(f.val)
  PROVE  Reading(s, k, w, l, f, m)
<1>1. CASE k = Len(s)
  <2>1. w = <<>>
    BY <1>1, NoneLeft
  <2>2. f = Short
    BY <2>1 DEF ReadFrame
  <2>3. f.res = "short"
    BY <2>2 DEF Short
  <2> QED
    BY <2>3 DEF Reading
<1>2. CASE k # Len(s)
  <2>1. k \in 0 .. Len(s) - 1 /\ k < Len(s) /\ k + 1 \in 1 .. Len(s)
    BY <1>2
  <2>2. PICK x \in Sent : x = s[k + 1]
    BY <2>1
  <2>3. PICK g : g = Frame(x)
    OBVIOUS
  <2>4. PICK y \in Seq(Byte) : y = Bytes(x)
    BY SentIs
  <2>5. FrameOk(g) /\ y = WriteFrame(g)
    BY <2>3, <2>4, SentIs DEF Bytes
  <2>6. PICK msg : msg = x.msg
    OBVIOUS
  <2>7. PICK stream \in Words64 : stream = x.stream
    BY SentIs
  <2>8. Arrives(x) = [tag |-> msg.tag, stream |-> stream, val |-> Value(msg)]
    BY <2>6, <2>7, ArrivesIs
  <2>9. Oversize(x) <=> \/ Len(g.payload) > MaxPayload \/ Len(Payload(msg)) > MaxPayload
                        \/ TooMuch(msg)
    BY <2>3, <2>6, ArrivesIs
  <2>10. StartsOrCut(w, y)
    BY <2>1, <2>2, <2>4, NextFrame
  <2>11. CASE At(w, 0, y)
    <3>1. ReadFrame(w) = IF Len(g.payload) > MaxPayload THEN Bad ELSE Ok(g, Len(y))
      BY <2>5, <2>11, FrameAt
    <3>2. CASE Len(g.payload) > MaxPayload
      <4>1. f.res = "bad"
        BY <3>1, <3>2 DEF Bad
      <4> QED
        BY <2>1, <2>2, <2>9, <3>2, <4>1 DEF Reading
    <3>3. CASE ~ (Len(g.payload) > MaxPayload)
      <4>1. f.res = "ok" /\ f.val = g /\ f.at = Len(y)
        BY <3>1, <3>3 DEF Ok
      <4>2. m = Message(g)
        BY <4>1
      <4>3. Delivered(msg, stream, m)
        <5>1. MessageOk(msg)
          BY <2>6, SentIs
        <5>2. PICK compress : compress = x.compress
          OBVIOUS
        <5>3. g = FrameOf(msg, stream, compress)
          BY <2>3, <2>6, <2>7, <5>2 DEF Frame
        <5>4. Len(g.payload) <= MaxPayload
          <6>1. Len(g.payload) \in Nat
            BY <2>5 DEF FrameOk
          <6> QED
            BY <3>3, <6>1, Widths
        <5> QED
          BY <4>2, <5>1, <5>3, <5>4, MessageAt
      <4>4. PICK v : v = SubSeq(w, Len(y) + 1, Len(w))
        OBVIOUS
      <4>5. v \in Seq(Byte) /\ InFlight(s, k + 1, v, l)
        <5>1. At(w, 0, Bytes(s[k + 1])) /\ v = SubSeq(w, Len(Bytes(s[k + 1])) + 1, Len(w))
          BY <2>2, <2>4, <2>11, <4>4
        <5> QED
          BY <2>1, <5>1, ReadKeeps
      <4>6. CASE m = Ok([tag |-> msg.tag, stream |-> stream, val |-> Value(msg)], 0)
        <5>1. m.res = "ok" /\ m.val = Arrives(x)
          BY <2>8, <4>6 DEF Ok
        <5> QED
          BY <2>1, <2>2, <4>1, <4>4, <4>5, <5>1 DEF Reading
      <4>7. CASE m.res # "ok" /\ (Len(Payload(msg)) > MaxPayload \/ TooMuch(msg))
        <5>1. Oversize(x)
          BY <2>9, <4>7
        <5> QED
          BY <2>1, <2>2, <4>7, <5>1 DEF Reading
      <4> QED
        BY <4>3, <4>6, <4>7 DEF Delivered
    <3> QED
      BY <3>2, <3>3
  <2>12. CASE Cut(w, 0, y)
    <3>1. f = Short \/ (f = Bad /\ Len(g.payload) > MaxPayload)
      BY <2>5, <2>12, FrameCut
    <3>2. CASE f = Short
      <4>1. f.res = "short"
        BY <3>2 DEF Short
      <4> QED
        BY <4>1 DEF Reading
    <3>3. CASE f = Bad /\ Len(g.payload) > MaxPayload
      <4>1. f.res = "bad"
        BY <3>3 DEF Bad
      <4> QED
        BY <2>1, <2>2, <2>9, <3>3, <4>1 DEF Reading
    <3> QED
      BY <3>1, <3>2, <3>3
  <2> QED
    BY <2>10, <2>11, <2>12 DEF StartsOrCut
<1> QED
  BY <1>1, <1>2

-----------------------------------------------------------------------------
(* The inductive invariant *)

CTypes ==
  /\ sent \in Seq(Sent) /\ wire \in Seq(Byte) /\ lost \in Nat
  /\ link \in {"up", "cut"} /\ reader \in {"open", "eof", "io", "bad"}
  /\ read \in Seq({Arrives(x) : x \in Sent}) /\ Len(read) <= Len(sent)

\* The two ends and the wire agree.
CAgree ==
  /\ InFlight(sent, Len(read), wire, lost)
  /\ \A k \in 1 .. Len(read) : read[k] = Arrives(sent[k])

\* How the connection and the reader stand.
CEnds ==
  /\ link = "up" => lost = 0
  /\ reader # "open" => link = "cut"
  /\ reader = "eof" => wire = <<>>
  /\ reader = "bad" => Len(read) < Len(sent) /\ Oversize(sent[Len(read) + 1])

CInv == CTypes /\ CAgree /\ CEnds

\* The invariant holds at the start.
LEMMA CInit ==
  CodecInit => CInv
<1> SUFFICES ASSUME CodecInit PROVE CInv
  OBVIOUS
<1>1. /\ sent = <<>> /\ wire = <<>> /\ read = <<>>
      /\ link = "up" /\ lost = 0 /\ reader = "open"
  BY DEF CodecInit
<1>2. CTypes
  <2>1. PICK S : S = {Arrives(x) : x \in Sent}
    OBVIOUS
  <2>2. sent \in Seq(Sent) /\ wire \in Seq(Byte) /\ read \in Seq(S) /\ Len(read) <= Len(sent)
    BY <1>1
  <2> QED
    BY <1>1, <2>1, <2>2 DEF CTypes
<1>3. CAgree
  <2>1. PICK xs : xs = Frames(sent)
    OBVIOUS
  <2>2. FramesOf(sent, xs)
    BY <1>2, <2>1, FramesAre DEF CTypes
  <2>3. xs \in Seq(Seq(Byte)) /\ Len(xs) = Len(sent)
    BY <2>2 DEF FramesOf
  <2>4. PICK n \in Nat : n = Len(xs) /\ n = 0 /\ n = Len(read)
    BY <1>1, <2>3
  <2>5. Offset(xs, 0) = 0
    BY <2>3, <2>4, OffsetIs
  <2>6. Offset(xs, n) = 0
    BY <2>4, <2>5
  <2>7. FlattenSeq(xs) \in Seq(Byte) /\ Len(FlattenSeq(xs)) = Offset(xs, n)
    BY <2>3, <2>4, FlattenIs
  <2>8. PICK a \in Seq(Byte) : a = FlattenSeq(xs) /\ Len(a) = 0
    BY <2>6, <2>7
  <2>9. At(a, 0, wire) /\ 0 + Len(wire) + 0 = Len(a)
    BY <1>1, <2>8 DEF At
  <2>10. InFlight(sent, Len(read), wire, lost)
    BY <1>1, <2>1, <2>4, <2>6, <2>8, <2>9 DEF InFlight
  <2>11. \A k \in 1 .. Len(read) : read[k] = Arrives(sent[k])
    BY <1>1
  <2> QED
    BY <2>10, <2>11 DEF CAgree
<1>4. CEnds
  BY <1>1 DEF CEnds
<1> QED
  BY <1>2, <1>3, <1>4 DEF CInv

\* Frames of what is sent have their places.
LEMMA OffsetTyped ==
  ASSUME NEW s \in Seq(Sent), NEW k \in 0 .. Len(s)
  PROVE  Offset(Frames(s), k) \in Nat
<1>1. PICK xs : xs = Frames(s)
  OBVIOUS
<1>2. FramesOf(s, xs)
  BY <1>1, FramesAre
<1>3. xs \in Seq(Seq(Byte)) /\ Len(xs) = Len(s)
  BY <1>2 DEF FramesOf
<1>4. PICK n \in Nat : n = Len(xs)
  BY <1>3
<1>5. k \in 0 .. n
  BY <1>3, <1>4
<1>6. Offset(xs, k) \in Nat
  BY <1>3, <1>4, <1>5, OffsetIs
<1> QED
  BY <1>1, <1>6

\* Sending keeps the invariant.
LEMMA CSend ==
  ASSUME CInv, Send
  PROVE  CInv'
<1>1. link = "up" /\ UNCHANGED <<link, lost, read, reader>>
  BY DEF Send
<1>2. PICK m \in DOMAIN Messages, stream \in Streams, compress \in BOOLEAN :
        /\ sent' = Append(sent, [msg |-> Messages[m], stream |-> stream, compress |-> compress])
        /\ wire' = wire \o WriteFrame(FrameOf(Messages[m], stream, compress))
  BY DEF Send
<1>3. PICK x : x = [msg |-> Messages[m], stream |-> stream, compress |-> compress]
  OBVIOUS
<1>4. x \in Sent
  BY <1>3 DEF Sent
<1>5. sent' = Append(sent, x) /\ wire' = wire \o Bytes(x)
  BY <1>2, <1>3 DEF Bytes, Frame
<1>6. sent \in Seq(Sent) /\ wire \in Seq(Byte) /\ lost = 0 /\ lost' = 0
  BY <1>1 DEF CInv, CTypes, CEnds
<1>7. Len(read) \in 0 .. Len(sent) /\ Len(read) \in Nat /\ Len(sent) \in Nat
  BY DEF CInv, CTypes
<1>8. /\ sent' \in Seq(Sent) /\ Len(sent') = Len(sent) + 1
      /\ \A k \in 1 .. Len(sent) : sent'[k] = sent[k]
  BY <1>4, <1>5, <1>6
<1>9. wire' \in Seq(Byte)
  <2>1. PICK y \in Seq(Byte) : y = Bytes(x)
    BY <1>4, SentIs
  <2> QED
    BY <1>5, <1>6, <2>1
<1>10. CTypes'
  <2>1. Len(read) <= Len(sent')
    BY <1>7, <1>8
  <2> QED
    BY <1>1, <1>8, <1>9, <2>1 DEF CInv, CTypes
<1>11. CAgree'
  <2>1. PICK k \in 0 .. Len(sent) : k = Len(read)
    BY <1>7
  <2>2. InFlight(sent, k, wire, 0)
    BY <1>6, <2>1 DEF CInv, CAgree
  <2>3. InFlight(sent', k, wire \o Bytes(x), 0)
    BY <1>4, <1>5, <1>6, <2>2, SendKeeps
  <2>4. InFlight(sent', Len(read), wire', lost')
    BY <1>5, <1>6, <2>1, <2>3
  <2>5. \A j \in 1 .. Len(read) : read[j] = Arrives(sent'[j])
    BY <1>7, <1>8 DEF CInv, CAgree
  <2> QED
    BY <1>1, <2>4, <2>5 DEF CAgree
<1>12. CEnds'
  BY <1>1 DEF CInv, CEnds
<1> QED
  BY <1>10, <1>11, <1>12 DEF CInv

\* A break of the connection keeps the invariant.
LEMMA CBreak ==
  ASSUME CInv, Break
  PROVE  CInv'
<1>1. link = "up" /\ link' = "cut" /\ UNCHANGED <<sent, read, reader>>
  BY DEF Break
<1>2. PICK n \in 0 .. Len(wire) : wire' = SubSeq(wire, 1, n) /\ lost' = Len(wire) - n
  BY DEF Break
<1>3. sent \in Seq(Sent) /\ wire \in Seq(Byte) /\ lost = 0 /\ reader = "open"
  BY <1>1 DEF CInv, CTypes, CEnds
<1>4. PICK k \in 0 .. Len(sent) : k = Len(read)
  BY DEF CInv, CTypes
<1>5. wire' \in Seq(Byte) /\ lost' \in Nat
  BY <1>2, <1>3
<1>6. CTypes'
  BY <1>1, <1>5 DEF CInv, CTypes
<1>7. InFlight(sent, k, wire', lost')
  <2>1. Offset(Frames(sent), k) \in Nat
    BY <1>3, OffsetTyped
  <2>2. InFlight(sent, k, wire, 0)
    BY <1>3, <1>4 DEF CInv, CAgree
  <2>3. PICK v : v = SubSeq(wire, 1, n)
    OBVIOUS
  <2>4. InFlight(sent, k, v, Len(wire) - n)
    BY <1>3, <2>1, <2>2, <2>3, BreakKeeps
  <2> QED
    BY <1>2, <2>3, <2>4
<1>8. CAgree'
  BY <1>1, <1>4, <1>7 DEF CInv, CAgree
<1>9. CEnds'
  BY <1>1, <1>3 DEF CEnds
<1> QED
  BY <1>6, <1>8, <1>9 DEF CInv

\* The reader has stopped, with an error only for cause.
LEMMA CStop ==
  ASSUME CInv, NEW why \in {"eof", "io", "bad"}, Stop(why),
         why = "eof" => wire = <<>>,
         why = "bad" => Len(read) < Len(sent) /\ Oversize(sent[Len(read) + 1])
  PROVE  CInv'
<1>1. reader' = why /\ link' = "cut" /\ UNCHANGED <<sent, wire, lost, read>>
  BY DEF Stop
<1>2. CTypes'
  BY <1>1 DEF CInv, CTypes
<1>3. CAgree'
  BY <1>1 DEF CInv, CAgree
<1>4. CEnds'
  BY <1>1 DEF CEnds
<1> QED
  BY <1>2, <1>3, <1>4 DEF CInv

\* Reading keeps the invariant.
LEMMA CReceive ==
  ASSUME CInv, Receive
  PROVE  CInv'
<1>1. PICK f : f = ReadFrame(wire) /\ Handle(f, Message(f.val))
  BY DEF Receive
<1>2. PICK m : m = Message(f.val)
  OBVIOUS
<1>3. Handle(f, m)
  BY <1>1, <1>2
<1>4. sent \in Seq(Sent) /\ wire \in Seq(Byte) /\ lost \in Nat
  BY DEF CInv, CTypes
<1>5. PICK k \in 0 .. Len(sent) : k = Len(read)
  BY DEF CInv, CTypes
<1>6. Reading(sent, k, wire, lost, f, m)
  <2>1. InFlight(sent, k, wire, lost)
    BY <1>5 DEF CInv, CAgree
  <2>2. f = ReadFrame(wire)
    BY <1>1
  <2> QED
    BY <1>2, <1>4, <2>1, <2>2, ReadingIs
<1>7. CASE /\ f.res = "ok" /\ m.res = "ok"
           /\ read' = Append(read, m.val)
           /\ wire' = SubSeq(wire, f.at + 1, Len(wire))
           /\ UNCHANGED <<sent, link, lost, reader>>
  <2>1. k < Len(sent) /\ m.val = Arrives(sent[k + 1]) /\ wire' \in Seq(Byte)
        /\ InFlight(sent, k + 1, wire', lost)
    BY <1>6, <1>7 DEF Reading
  <2>2. PICK S : S = {Arrives(x) : x \in Sent}
    OBVIOUS
  <2>3. read \in Seq(S) /\ k = Len(read)
    BY <1>5, <2>2 DEF CInv, CTypes
  <2>4. m.val \in S
    <3>1. PICK x \in Sent : x = sent[k + 1]
      BY <1>4, <2>1
    <3> QED
      BY <2>1, <2>2, <3>1
  <2>5. read' \in Seq(S) /\ Len(read') = k + 1 /\ read'[k + 1] = m.val
        /\ \A j \in 1 .. k : read'[j] = read[j]
    BY <1>7, <2>3, <2>4
  <2>6. reader' = reader /\ link' = link /\ lost' = lost /\ sent' = sent
    BY <1>7
  <2>7. CTypes'
    <3>1. Len(read') <= Len(sent)
      BY <1>4, <2>1, <2>5
    <3> QED
      BY <2>1, <2>2, <2>5, <2>6, <3>1 DEF CInv, CTypes
  <2>8. CAgree'
    <3>1. \A j \in 1 .. k : read'[j] = Arrives(sent[j])
      BY <1>5, <2>5 DEF CInv, CAgree
    <3>2. \A j \in 1 .. k + 1 : j \in 1 .. k \/ j = k + 1
      OBVIOUS
    <3>3. \A j \in 1 .. k + 1 : read'[j] = Arrives(sent[j])
      BY <2>1, <2>5, <3>1, <3>2
    <3> QED
      BY <2>1, <2>5, <2>6, <3>3 DEF CAgree
  <2>9. reader = "open"
    BY DEF Receive
  <2>10. CEnds'
    BY <2>6, <2>9 DEF CInv, CEnds
  <2> QED
    BY <2>7, <2>8, <2>10 DEF CInv
<1>8. CASE f.res = "ok" /\ m.res # "ok" /\ Stop("bad")
  <2>1. Len(read) < Len(sent) /\ Oversize(sent[Len(read) + 1])
    BY <1>5, <1>6, <1>8 DEF Reading
  <2> QED
    BY <1>8, <2>1, CStop
<1>9. CASE f.res = "bad" /\ Stop("bad")
  <2>1. Len(read) < Len(sent) /\ Oversize(sent[Len(read) + 1])
    BY <1>5, <1>6, <1>9 DEF Reading
  <2> QED
    BY <1>9, <2>1, CStop
<1>10. CASE f.res = "short" /\ link = "cut" /\ Stop(Ending)
  <2>1. CASE wire = <<>>
    <3>1. Stop("eof")
      BY <1>10, <2>1 DEF Ending
    <3> QED
      BY <2>1, <3>1, CStop
  <2>2. CASE wire # <<>>
    <3>1. Stop("io")
      BY <1>10, <2>2 DEF Ending
    <3> QED
      BY <3>1, CStop
  <2> QED
    BY <2>1, <2>2
<1> QED
  BY <1>3, <1>7, <1>8, <1>9, <1>10 DEF Handle

\* What has been sent arrives in order, and what is in flight is the rest of it: in
\* every state of the codec.
THEOREM CodecSafe == CodecSpec => []CInv
<1>1. CInv /\ [CodecNext]_codec => CInv'
  <2> SUFFICES ASSUME CInv, [CodecNext]_codec PROVE CInv'
    OBVIOUS
  <2>1. CASE Send
    BY <2>1, CSend
  <2>2. CASE Break
    BY <2>2, CBreak
  <2>3. CASE Receive
    BY <2>3, CReceive
  <2>4. CASE UNCHANGED codec
    BY <2>4 DEF codec, CInv, CTypes, CAgree, CEnds
  <2> QED
    BY <2>1, <2>2, <2>3, <2>4 DEF CodecNext
<1> QED
  BY <1>1, CInit, PTL DEF CodecSpec

-----------------------------------------------------------------------------
(* The properties *)

\* What is read is what was sent, in order, whatever was compressed and wherever the
\* connection broke (Faithful).
THEOREM CodecFaithful == CodecSpec => []Faithful
<1>1. CInv => Faithful
  <2> SUFFICES ASSUME CInv PROVE Faithful
    OBVIOUS
  <2>1. wire \in Seq(0 .. 2 * Radix - 1)
    BY DEF CInv, CTypes, Byte
  <2>2. DOMAIN read = 1 .. Len(read)
    BY DEF CInv, CTypes
  <2> QED
    BY <2>1, <2>2 DEF CInv, CTypes, CAgree, Faithful
<1> QED
  BY <1>1, CodecSafe, PTL

\* What is left of the bytes of some messages is the sum of what is left of each.
RestIs(xs, k, r, t) == \A j \in 1 .. r : t[j] = Len(xs[k + j])
RestSum(xs, n, k, r, t) == Offset(xs, n) = Offset(xs, k) + Upto(t, r)

\* They are, one message after the other.
LEMMA OffsetRest ==
  ASSUME NEW xs \in Seq(Seq(Byte)), NEW n, n = Len(xs), NEW k \in 0 .. n, NEW r, r = n - k,
         NEW t, RestIs(xs, k, r, t)
  PROVE  RestSum(xs, n, k, r, t)
<1>1. n \in Nat /\ r \in Nat /\ k \in Nat /\ k + r = n
  OBVIOUS
<1>2. PICK p \in Nat : p = Offset(xs, k)
  BY OffsetIs
<1>3. \A j \in 1 .. r : t[j] = Len(xs[k + j])
  BY DEF RestIs
<1>4. \A j \in 1 .. r : t[j] \in Nat
  <2>1. ASSUME NEW j \in 1 .. r PROVE t[j] \in Nat
    <3>1. k + j \in 1 .. n
      BY <1>1
    <3>2. PICK T : T = Seq(Byte)
      OBVIOUS
    <3>3. xs[k + j] \in T
      BY <3>1, <3>2
    <3>4. PICK x \in Seq(Byte) : x = xs[k + j]
      BY <3>2, <3>3
    <3> QED
      BY <1>3, <3>4
  <2> QED
    BY <2>1
<1>5. Upto(t, 0) = 0 /\ \A j \in 0 .. r - 1 : Upto(t, j + 1) = Upto(t, j) + t[j + 1]
  BY <1>1, <1>4, UptoIs
<1>6. \A j \in 0 .. r : Upto(t, j) \in Nat
  BY <1>1, <1>4, UptoIs
<1> DEFINE Good == {j \in Nat : Offset(xs, k + j) = p + Upto(t, j)}
<1>7. 0 \in Good
  BY <1>1, <1>2, <1>5
<1>8. ASSUME NEW j \in 0 .. r - 1, j \in Good PROVE j + 1 \in Good
  <2>1. PICK i \in 0 .. n - 1 : i = k + j
    BY <1>1
  <2>2. Offset(xs, i + 1) = Offset(xs, i) + Len(xs[i + 1])
    BY OffsetIs
  <2>3. Offset(xs, i) = p + Upto(t, j)
    BY <1>8, <2>1
  <2>4. Upto(t, j + 1) = Upto(t, j) + t[j + 1]
    BY <1>5
  <2>5. i + 1 = k + (j + 1) /\ j + 1 \in 1 .. r /\ j \in 0 .. r
    BY <1>1, <2>1
  <2>6. t[j + 1] = Len(xs[i + 1])
    BY <1>3, <2>5
  <2>7. PICK a \in Nat : a = Upto(t, j)
    BY <1>6, <2>5
  <2>8. PICK c \in Nat : c = t[j + 1]
    BY <1>4, <2>5
  <2>9. Offset(xs, i + 1) = (p + a) + c /\ Upto(t, j + 1) = a + c
    BY <2>2, <2>3, <2>4, <2>6, <2>7, <2>8
  <2>10. (p + a) + c = p + (a + c)
    OBVIOUS
  <2>11. Offset(xs, k + (j + 1)) = p + Upto(t, j + 1)
    BY <2>5, <2>9, <2>10
  <2>12. j + 1 \in Nat
    OBVIOUS
  <2> QED
    BY <2>11, <2>12
<1> HIDE DEF Good
<1>9. \A j \in 0 .. r : j \in Good
  BY <1>1, <1>7, <1>8, UpTo
<1>10. r \in Good
  BY <1>1, <1>9
<1> QED
  BY <1>1, <1>2, <1>10 DEF Good, RestSum

\* Reading ends for cause, and in a clean way only between two frames (EndsForCause).
THEOREM CodecEndsForCause == CodecSpec => []EndsForCause
<1>1. CInv => EndsForCause
  <2> SUFFICES ASSUME CInv PROVE EndsForCause
    OBVIOUS
  <2>1. reader = "bad" => Oversize(sent[Len(read) + 1])
    BY DEF CInv, CEnds
  <2>2. ASSUME reader = "eof", NEW u,
               u = [k \in 1 .. Len(sent) - Len(read) |->
                      Len(WriteFrame(FrameOf(sent[Len(read) + k].msg, sent[Len(read) + k].stream,
                                             sent[Len(read) + k].compress)))]
        PROVE  lost = Sum(u)
    <3>1. sent \in Seq(Sent) /\ wire = <<>> /\ lost \in Nat
      BY <2>2 DEF CInv, CTypes, CEnds
    <3>2. PICK xs : xs = Frames(sent)
      OBVIOUS
    <3>3. FramesOf(sent, xs)
      BY <3>1, <3>2, FramesAre
    <3>4. xs \in Seq(Seq(Byte)) /\ Len(xs) = Len(sent)
      BY <3>3 DEF FramesOf
    <3>5. PICK n \in Nat : n = Len(sent)
      BY <3>1
    <3>6. PICK k \in 0 .. n : k = Len(read)
      BY <3>5 DEF CInv, CTypes
    <3>7. PICK r \in Nat : r = n - k
      BY <3>5, <3>6
    <3>8. u = [j \in 1 .. r |-> Len(Bytes(sent[k + j]))]
      BY <2>2, <3>5, <3>6, <3>7 DEF Bytes, Frame
    <3>9. RestIs(xs, k, r, u)
      <4>1. ASSUME NEW j \in 1 .. r PROVE u[j] = Len(xs[k + j])
        <5>1. k + j \in 1 .. n
          BY <3>7
        <5>2. xs[k + j] = Bytes(sent[k + j])
          BY <3>3, <3>5, <5>1 DEF FramesOf
        <5> QED
          BY <3>8, <5>2
      <4> QED
        BY <4>1 DEF RestIs
    <3>10. Offset(xs, n) = Offset(xs, k) + Upto(u, r)
      <4>1. RestSum(xs, n, k, r, u)
        BY <3>4, <3>5, <3>7, <3>9, OffsetRest
      <4> QED
        BY <4>1 DEF RestSum
    <3>11. Offset(xs, k) + Len(wire) + lost = Len(FlattenSeq(xs))
      BY <3>2, <3>6 DEF CInv, CAgree, InFlight
    <3>12. Len(FlattenSeq(xs)) = Offset(xs, n)
      BY <3>4, <3>5, FlattenIs
    <3>13. Upto(u, r) = Sum(u)
      <4>1. [j \in 1 .. r |-> u[j]] = u
        BY <3>8
      <4> QED
        BY <4>1 DEF Upto
    <3>14. PICK p \in Nat : p = Offset(xs, k)
      BY <3>1, <3>2, <3>5, OffsetTyped
    <3>15. Upto(u, r) \in Nat
      <4>1. \A j \in 1 .. r : u[j] \in Nat
        <5>1. ASSUME NEW j \in 1 .. r PROVE u[j] \in Nat
          <6>1. PICK x \in Sent : x = sent[k + j]
            BY <3>1, <3>5, <3>7
          <6>2. PICK y \in Seq(Byte) : y = Bytes(x)
            BY SentIs
          <6> QED
            BY <3>8, <6>1, <6>2
        <5> QED
          BY <5>1
      <4> QED
        BY <4>1, UptoIs
    <3>16. Len(wire) = 0
      BY <3>1
    <3>17. PICK v \in Nat : v = Upto(u, r)
      BY <3>15
    <3>18. p + 0 + lost = p + v
      BY <3>10, <3>11, <3>12, <3>14, <3>16, <3>17
    <3> QED
      BY <3>1, <3>13, <3>17, <3>18
  <2> QED
    BY <2>1, <2>2 DEF EndsForCause
<1> QED
  BY <1>1, CodecSafe, PTL

\* A filter that has arrived knows every block the other end held when it was made
\* (FilterCovers).
THEOREM CodecFilterCovers == CodecSpec => []FilterCovers
<1>1. CInv => FilterCovers
  <2> SUFFICES ASSUME CInv, NEW k \in DOMAIN read, read[k].tag = "Bloom",
                      NEW d \in sent[k].msg.val.keys
               PROVE  Has(read[k].val.bloom, d)
    BY DEF FilterCovers
  <2>1. k \in 1 .. Len(read) /\ Len(read) <= Len(sent) /\ sent \in Seq(Sent) /\ Len(read) \in Nat
    BY DEF CInv, CTypes
  <2>2. PICK x \in Sent : x = sent[k]
    <3>1. k \in 1 .. Len(sent)
      BY <2>1
    <3> QED
      BY <2>1, <3>1
  <2>3. PICK m : m = x.msg
    OBVIOUS
  <2>4. read[k] = Arrives(x)
    BY <2>1, <2>2 DEF CInv, CAgree
  <2>5. read[k] = [tag |-> m.tag, stream |-> x.stream, val |-> Value(m)]
    BY <2>3, <2>4, ArrivesIs
  <2>6. m.tag = "Bloom" /\ read[k].val = Value(m)
    BY <2>5
  <2>7. PICK val : val = m.val
    OBVIOUS
  <2>8. FilterOk(val)
    <3>1. MessageOk(m)
      BY <2>3, SentIs
    <3> QED
      BY <2>6, <2>7, <3>1 DEF MessageOk, ContentOk, BlockTags
  <2>9. read[k].val.bloom = BloomOf(val.keys)
    BY <2>6, <2>7 DEF Value
  <2>10. d \in val.keys
    BY <2>2, <2>3, <2>7
  <2> QED
    BY <2>8, <2>9, <2>10, BloomHas
<1> QED
  BY <1>1, CodecSafe, PTL
=============================================================================
