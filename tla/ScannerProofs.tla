---------------------------- MODULE ScannerProofs ----------------------------
(***************************************************************************)
(* Theorems about the scanner, for every text over every alphabet, however *)
(* it is edited, and every limit of depth.                                 *)
(***************************************************************************)
EXTENDS Scanner, TLAPS, FiniteSetTheorems, SequenceTheorems, WellFoundedInduction

-----------------------------------------------------------------------------
(* Natural numbers *)

\* A set of natural numbers has a least one.
LEMMA LeastNumber ==
  ASSUME NEW T \in SUBSET Nat, T # {}
  PROVE  \E m \in T : \A k \in T : m <= k
<1>1. PICK m \in T : \A k \in T : ~ (<<k, m>> \in OpToRel(<, Nat))
  BY NatLessThanWellFounded, WFMin
<1>2. \A k \in T : ~ (k < m)
  BY <1>1 DEF OpToRel
<1> QED
  BY <1>2

\* Induction up to n, with a set in place of a predicate.
LEMMA UpTo ==
  ASSUME NEW n \in Nat, NEW Good, 0 \in Good,
         \A k \in 0 .. n - 1 : k \in Good => k + 1 \in Good
  PROVE  \A k \in 0 .. n : k \in Good
<1> DEFINE Bads == {k \in 0 .. n : k \notin Good}
<1>1. ASSUME Bads # {} PROVE FALSE
  <2>1. PICK m \in Bads : \A k \in Bads : m <= k
    <3> Bads \in SUBSET Nat
      OBVIOUS
    <3> HIDE DEF Bads
    <3> QED
      BY <1>1, LeastNumber
  <2>2. m \in 0 .. n /\ m # 0
    OBVIOUS
  <2>3. m - 1 \in 0 .. n - 1 /\ m - 1 \notin Bads
    BY <2>1, <2>2
  <2>4. m - 1 \in Good
    BY <2>2, <2>3
  <2> QED
    BY <2>2, <2>3, <2>4
<1> QED
  BY <1>1

-----------------------------------------------------------------------------
(* Functions defined by recursion *)

\* Where the measure is smaller than at x.
Below(mu, x) == {y \in DOMAIN mu : mu[y] < mu[x]}

\* A function whose value at x is found by a step from its values where the measure is
\* smaller.
Recurs(f, mu, step) ==
  \A x \in DOMAIN mu : f[x] = step[x][[y \in Below(mu, x) |-> f[y]]]

\* One exists, if every step leads to a value.
LEMMA Recursion ==
  ASSUME NEW X, NEW N \in Nat, NEW mu \in [X -> 0 .. N], NEW S, NEW step,
         \A x \in X : step[x] \in [[Below(mu, x) -> S] -> S]
  PROVE  \E f \in [X -> S] : Recurs(f, mu, step)
<1> DEFINE Up(n) == {x \in X : mu[x] < n}
           Goes(f, n) == \A x \in Up(n) : f[x] = step[x][[y \in Below(mu, x) |-> f[y]]]
           Good == {n \in 0 .. N + 1 : \E f \in [Up(n) -> S] : Goes(f, n)}
<1>1. 0 \in Good
  <2>1. PICK f : f = [x \in Up(0) |-> x]
    OBVIOUS
  <2>2. Up(0) = {}
    OBVIOUS
  <2>3. f \in [Up(0) -> S] /\ Goes(f, 0)
    BY <2>1, <2>2
  <2>4. 0 \in 0 .. N + 1
    OBVIOUS
  <2> QED
    BY <2>3, <2>4
<1>2. ASSUME NEW n \in 0 .. N + 1 - 1, n \in Good PROVE n + 1 \in Good
  <2>1. PICK f \in [Up(n) -> S] : Goes(f, n)
    BY <1>2
  <2>2. PICK g : g = [x \in Up(n + 1) |-> IF mu[x] < n THEN f[x]
                                          ELSE step[x][[y \in Below(mu, x) |-> f[y]]]]
    OBVIOUS
  <2>3. ASSUME NEW x \in Up(n + 1)
        PROVE  /\ Below(mu, x) \subseteq Up(n)
               /\ [y \in Below(mu, x) |-> f[y]] \in [Below(mu, x) -> S]
               /\ [y \in Below(mu, x) |-> f[y]] = [y \in Below(mu, x) |-> g[y]]
    <3>1. ASSUME NEW y \in Below(mu, x)
          PROVE  y \in Up(n) /\ f[y] \in S /\ f[y] = g[y]
      <4>1. y \in X /\ mu[y] < mu[x] /\ mu[x] < n + 1 /\ mu[y] \in Nat /\ mu[x] \in Nat
        BY DEF Below
      <4>2. mu[y] < n /\ y \in Up(n + 1)
        BY <4>1
      <4> QED
        BY <4>1, <4>2, <2>2
    <3> QED
      BY <3>1
  <2>4. ASSUME NEW x \in Up(n + 1)
        PROVE  g[x] = step[x][[y \in Below(mu, x) |-> f[y]]]
    <3>1. CASE mu[x] < n
      <4>1. x \in Up(n)
        BY <3>1
      <4>2. f[x] = step[x][[y \in Below(mu, x) |-> f[y]]]
        BY <2>1, <4>1
      <4> QED
        BY <4>2, <3>1, <2>2
    <3>2. CASE ~ (mu[x] < n)
      BY <3>2, <2>2
    <3> QED
      BY <3>1, <3>2
  <2>5. ASSUME NEW x \in Up(n + 1)
        PROVE  g[x] \in S
    <3>1. step[x] \in [[Below(mu, x) -> S] -> S]
      OBVIOUS
    <3> HIDE DEF Up
    <3> QED
      BY <2>3, <2>4, <3>1
  <2>6. g \in [Up(n + 1) -> S]
    <3> HIDE DEF Up
    <3> QED
      BY <2>2, <2>5
  <2>7. Goes(g, n + 1)
    <3> HIDE DEF Up
    <3> QED
      BY <2>3, <2>4
  <2>8. n + 1 \in 0 .. N + 1
    OBVIOUS
  <2> HIDE DEF Up, Goes
  <2> QED
    BY <2>6, <2>7, <2>8
<1>3. \A n \in 0 .. N + 1 : n \in Good
  <2> HIDE DEF Good
  <2>1. N + 1 \in Nat
    OBVIOUS
  <2> QED
    BY <1>1, <1>2, <2>1, UpTo
<1>4. PICK f \in [Up(N + 1) -> S] : Goes(f, N + 1)
  <2>1. N + 1 \in 0 .. N + 1
    OBVIOUS
  <2> HIDE DEF Goes, Up
  <2> QED
    BY <1>3, <2>1
<1>5. Up(N + 1) = X
  <2>1. \A x \in X : mu[x] < N + 1
    <3> TAKE x \in X
    <3>1. mu[x] \in 0 .. N
      OBVIOUS
    <3> QED
      BY <3>1
  <2> QED
    BY <2>1
<1>6. DOMAIN mu = X
  OBVIOUS
<1>7. Recurs(f, mu, step)
  BY <1>4, <1>5, <1>6 DEF Recurs
<1> QED
  BY <1>4, <1>5, <1>7

\* From the end of 1 .. N to its beginning: how far it is to the end.
ToEnd(N) == [k \in 1 .. N |-> N - k]

LEMMA BackIs ==
  ASSUME NEW N \in Nat
  PROVE  /\ ToEnd(N) \in [1 .. N -> 0 .. N]
         /\ \A k \in 1 .. N : Below(ToEnd(N), k) = k + 1 .. N
<1>1. \A k \in 1 .. N : N - k \in 0 .. N
  OBVIOUS
<1>2. ASSUME NEW k \in 1 .. N PROVE Below(ToEnd(N), k) = k + 1 .. N
  <2>1. \A y \in 1 .. N : ToEnd(N)[y] < ToEnd(N)[k] <=> y > k
    BY DEF ToEnd
  <2>2. DOMAIN ToEnd(N) = 1 .. N
    BY DEF ToEnd
  <2> QED
    BY <2>1, <2>2 DEF Below
<1> QED
  BY <1>1, <1>2 DEF ToEnd

\* Induction from the end.
LEMMA DownFrom ==
  ASSUME NEW N \in Nat, NEW Good,
         \A k \in 1 .. N : (\A j \in k + 1 .. N : j \in Good) => k \in Good
  PROVE  \A k \in 1 .. N : k \in Good
<1> DEFINE Bads == {d \in 0 .. N : \E k \in 1 .. N : k \notin Good /\ d = N - k}
<1>1. ASSUME NEW k \in 1 .. N, k \notin Good PROVE FALSE
  <2>1. N - k \in Bads
    BY <1>1
  <2>2. PICK m \in Bads : \A d \in Bads : m <= d
    <3> Bads \in SUBSET Nat
      OBVIOUS
    <3> HIDE DEF Bads
    <3> QED
      BY <2>1, LeastNumber
  <2>3. PICK h \in 1 .. N : h \notin Good /\ m = N - h
    OBVIOUS
  <2>4. PICK j \in h + 1 .. N : j \notin Good
    BY <2>3
  <2>5. j \in 1 .. N /\ N - j \in 0 .. N /\ N - j < m
    BY <2>3, <2>4
  <2>6. N - j \in Bads
    BY <2>4, <2>5
  <2> QED
    BY <2>2, <2>5, <2>6
<1> QED
  BY <1>1

-----------------------------------------------------------------------------
(* Characters *)

Text == Seq(Alphabet)

\* No two characters that the scanner looks for are the same.
LEMMA MarksDiffer ==
  /\ \A x \in {"eof", "[", "]", ":", "^", "u", "n", "t", "l", "e", ".", "-", "+", "0", "1",
              "hi", "lo", "61"} :
       x \notin {Quote, Space, Comma, Open, Close}
  /\ Quote \notin {Back, Space, Comma, Open, Close}
  /\ Back \notin {Space, Comma, Open, Close}
  /\ Space \notin {Comma, Open, Close} /\ Comma \notin {Open, Close} /\ Open # Close
BY Zenon DEF Quote, Back, Space, Comma, Open, Close

\* What follows the last character is no character.
LEMMA AtIs ==
  ASSUME NEW s \in Text
  PROVE  /\ Len(s) \in Nat /\ DOMAIN s = 1 .. Len(s)
         /\ \A i : At(s, i) = "eof" <=> i \notin 1 .. Len(s)
         /\ \A i \in 1 .. Len(s) : At(s, i) = s[i] /\ s[i] \in Alphabet
<1>1. Len(s) \in Nat /\ DOMAIN s = 1 .. Len(s) /\ \A i \in 1 .. Len(s) : s[i] \in Alphabet
  BY LenProperties, ElementOfSeq DEF Text
<1>2. "eof" \notin Alphabet
  BY DocumentAssumption
<1> QED
  BY <1>1, <1>2 DEF At

\* How long a text is.
LEMMA LenIs ==
  ASSUME NEW s \in Text
  PROVE  Len(s) \in Nat
BY AtIs

\* Where a character is, the text goes on.
LEMMA AtInside ==
  ASSUME NEW s \in Text, NEW i, At(s, i) # "eof"
  PROVE  i \in 1 .. Len(s)
BY AtIs

\* The least of a set of numbers.
LEMMA MinIs ==
  ASSUME NEW T \in SUBSET Nat, T # {}
  PROVE  Min(T) \in T /\ \A k \in T : Min(T) <= k
<1>1. \E m \in T : \A k \in T : m <= k
  BY LeastNumber
<1> QED
  BY <1>1 DEF Min

\* All from i to j are of the set, and the one at j is not.
UpToHere(s, i, j, set) ==
  /\ j \in i .. Len(s) + 1 /\ At(s, j) \notin set /\ \A k \in i .. j - 1 : At(s, k) \in set

\* Past finds that place.
LEMMA PastIs ==
  ASSUME NEW s \in Text, NEW i \in 1 .. Len(s) + 1, NEW set, "eof" \notin set
  PROVE  UpToHere(s, i, Past(s, i, set), set)
<1>1. PICK n \in Nat : n = Len(s)
  BY LenIs
<1>2. PICK T : T = {j \in i .. n + 1 : At(s, j) \notin set}
  OBVIOUS
<1>3. n + 1 \in T
  <2>1. At(s, n + 1) = "eof"
    BY <1>1, AtIs
  <2> QED
    BY <1>1, <1>2, <2>1
<1>4. T \in SUBSET Nat
  BY <1>1, <1>2
<1>5. PICK m : m = Min(T)
  OBVIOUS
<1>6. m \in T /\ \A k \in T : m <= k
  BY <1>3, <1>4, <1>5, MinIs
<1>7. m \in i .. n + 1 /\ At(s, m) \notin set
  BY <1>2, <1>6
<1>8. ASSUME NEW k \in i .. m - 1 PROVE At(s, k) \in set
  <2>1. k \in i .. n + 1 /\ ~ (m <= k)
    BY <1>1, <1>7
  <2>2. k \notin T
    BY <1>6, <2>1
  <2> QED
    BY <1>2, <2>1, <2>2
<1>9. Past(s, i, set) = m
  BY <1>1, <1>2, <1>5 DEF Past
<1> QED
  BY <1>1, <1>7, <1>8, <1>9 DEF UpToHere

\* There is one such place.
LEMMA PastOnly ==
  ASSUME NEW s \in Text, NEW i \in 1 .. Len(s) + 1, NEW set, "eof" \notin set,
         NEW j, UpToHere(s, i, j, set)
  PROVE  Past(s, i, set) = j
<1>1. PICK n \in Nat : n = Len(s)
  BY LenIs
<1>2. PICK m : m = Past(s, i, set)
  OBVIOUS
<1>3. UpToHere(s, i, m, set)
  BY <1>2, PastIs
<1>4. /\ j \in i .. n + 1 /\ At(s, j) \notin set /\ \A k \in i .. j - 1 : At(s, k) \in set
      /\ m \in i .. n + 1 /\ At(s, m) \notin set /\ \A k \in i .. m - 1 : At(s, k) \in set
  BY <1>1, <1>3 DEF UpToHere
<1>5. ~ (j < m)
  <2>1. j < m => j \in i .. m - 1
    BY <1>1, <1>4
  <2> QED
    BY <1>4, <2>1
<1>6. ~ (m < j)
  <2>1. m < j => m \in i .. j - 1
    BY <1>1, <1>4
  <2> QED
    BY <1>4, <2>1
<1> QED
  BY <1>1, <1>2, <1>4, <1>5, <1>6

\* Blanks are skipped up to the first character that is none.
LEMMA SkipIs ==
  ASSUME NEW s \in Text, NEW i \in 1 .. Len(s) + 1
  PROVE  /\ SkipWs(s, i) \in i .. Len(s) + 1 /\ At(s, SkipWs(s, i)) # Space
         /\ Blank(s, i, SkipWs(s, i))
<1>1. "eof" \notin {Space}
  BY MarksDiffer
<1>2. UpToHere(s, i, SkipWs(s, i), {Space})
  BY <1>1, PastIs DEF SkipWs
<1>3. PICK j : j = SkipWs(s, i)
  OBVIOUS
<1>4. j \in i .. Len(s) + 1 /\ At(s, j) # Space /\ \A k \in i .. j - 1 : At(s, k) = Space
  BY <1>2, <1>3 DEF UpToHere
<1>5. i <= j
  <2>1. PICK n \in Nat : n = Len(s)
    BY LenIs
  <2>2. i \in 1 .. n + 1
    BY <2>1
  <2>3. j \in i .. n + 1
    BY <1>4, <2>1
  <2> QED
    BY <2>1, <2>2, <2>3
<1> QED
  BY <1>3, <1>4, <1>5 DEF Blank

\* And nowhere else.
LEMMA SkipOnly ==
  ASSUME NEW s \in Text, NEW i \in 1 .. Len(s) + 1, NEW j \in 1 .. Len(s) + 1,
         Blank(s, i, j), At(s, j) # Space
  PROVE  SkipWs(s, i) = j
<1>1. PICK n \in Nat : n = Len(s)
  BY LenIs
<1>2. i <= j
  BY DEF Blank
<1>5. \A k \in i .. j - 1 : At(s, k) = Space
  BY DEF Blank
<1>3. UpToHere(s, i, j, {Space})
  <2>1. i \in 1 .. n + 1 /\ j \in 1 .. n + 1
    BY <1>1
  <2>3. PICK a \in Nat, b \in Nat : a = i /\ b = j /\ b <= n + 1
    BY <2>1
  <2>4. b \in a .. n + 1
    BY <1>2, <2>3
  <2>2. j \in i .. n + 1
    BY <2>3, <2>4
  <2> QED
    BY <1>1, <1>5, <2>2 DEF UpToHere
<1>4. "eof" \notin {Space}
  BY MarksDiffer
<1> QED
  BY <1>3, <1>4, PastOnly DEF SkipWs

-----------------------------------------------------------------------------
(* Strings *)

\* A character of a string ends inside the text.
LEMMA UnitLenIs ==
  ASSUME NEW s \in Text, NEW j \in 1 .. Len(s) + 1
  PROVE  /\ UnitLen(s, j) \in {0, 1, 2, 3} /\ j + UnitLen(s, j) <= Len(s) + 1
         /\ UnitLen(s, j) # 0 => j + UnitLen(s, j) \in j + 1 .. Len(s) + 1
<1>1. PICK n \in Nat : n = Len(s)
  BY LenIs
<1>2. CASE At(s, j) = Back /\ At(s, j + 1) \in Escapes
  <2>1. At(s, j + 1) # "eof"
    BY <1>2 DEF Escapes, Quote, Back
  <2>2. j + 1 \in 1 .. n
    BY <1>1, <2>1, AtInside
  <2>3. UnitLen(s, j) = 2
    BY <1>2 DEF UnitLen, Escapes, Quote, Back
  <2> QED
    BY <1>1, <2>2, <2>3
<1>3. CASE At(s, j) = Back /\ At(s, j + 1) = "u" /\ At(s, j + 2) \in Codes
  <2>1. At(s, j + 2) # "eof"
    BY <1>3 DEF Codes
  <2>2. j + 2 \in 1 .. n
    BY <1>1, <2>1, AtInside
  <2>3. UnitLen(s, j) = 3
    BY <1>3 DEF UnitLen, Escapes, Quote, Back
  <2> QED
    BY <1>1, <2>2, <2>3
<1>4. CASE At(s, j) \notin {Back, "eof", "^"}
  <2>1. j \in 1 .. n
    BY <1>1, <1>4, AtInside
  <2>2. UnitLen(s, j) = 1
    BY <1>4 DEF UnitLen
  <2> QED
    BY <1>1, <2>1, <2>2
<1>5. CASE /\ ~ (At(s, j) = Back /\ At(s, j + 1) \in Escapes)
           /\ ~ (At(s, j) = Back /\ At(s, j + 1) = "u" /\ At(s, j + 2) \in Codes)
           /\ ~ (At(s, j) \notin {Back, "eof", "^"})
  <2>1. UnitLen(s, j) = 0
    BY <1>5 DEF UnitLen
  <2> QED
    BY <1>1, <2>1
<1> QED
  BY <1>2, <1>3, <1>4, <1>5

\* Where the string ends whose rest begins at j.
IsStringEnd(f, s) == f = [j \in 1 .. Len(s) + 1 |->
  CASE At(s, j) = Quote -> j + 1
    [] At(s, j) # Quote /\ UnitLen(s, j) = 0 -> 0
    [] OTHER -> f[j + UnitLen(s, j)]]
StringEnd(s) == CHOOSE f : IsStringEnd(f, s)

LEMMA ScanStringIs ==
  ASSUME NEW s, NEW i
  PROVE  ScanString(s, i) = IF At(s, i) = Quote THEN StringEnd(s)[i + 1] ELSE 0
BY DEF ScanString, StringEnd, IsStringEnd

LEMMA StringEndExists ==
  ASSUME NEW s \in Text
  PROVE  IsStringEnd(StringEnd(s), s)
<1>1. PICK N \in Nat : N = Len(s) + 1
  BY LenIs
<1>2. PICK mu : mu = ToEnd(N)
  OBVIOUS
<1>3. mu \in [1 .. N -> 0 .. N] /\ DOMAIN mu = 1 .. N
      /\ \A k \in 1 .. N : Below(mu, k) = k + 1 .. N
  BY <1>2, BackIs DEF ToEnd
<1>4. PICK step : step = [j \in 1 .. N |-> [g \in [j + 1 .. N -> Nat] |->
        IF At(s, j) = Quote THEN j + 1
        ELSE IF UnitLen(s, j) = 0 THEN 0 ELSE g[j + UnitLen(s, j)]]]
  OBVIOUS
<1>5. \A j \in 1 .. N : UnitLen(s, j) # 0 => j + UnitLen(s, j) \in j + 1 .. N
  BY <1>1, UnitLenIs
<1>6. \A j \in 1 .. N : step[j] \in [[Below(mu, j) -> Nat] -> Nat]
  <2> TAKE j \in 1 .. N
  <2>1. PICK B : B = j + 1 .. N
    OBVIOUS
  <2>2. ASSUME NEW g \in [B -> Nat]
        PROVE  (IF At(s, j) = Quote THEN j + 1
                ELSE IF UnitLen(s, j) = 0 THEN 0 ELSE g[j + UnitLen(s, j)]) \in Nat
    <3>1. UnitLen(s, j) # 0 => g[j + UnitLen(s, j)] \in Nat
      BY <1>5, <2>1
    <3> QED
      BY <3>1
  <2>3. step[j] \in [[B -> Nat] -> Nat]
    BY <1>4, <2>1, <2>2
  <2> QED
    BY <1>3, <2>1, <2>3
<1>7. PICK f \in [1 .. N -> Nat] : Recurs(f, mu, step)
  BY <1>3, <1>6, Recursion
<1>8. ASSUME NEW j \in 1 .. N
      PROVE  f[j] = CASE At(s, j) = Quote -> j + 1
                      [] At(s, j) # Quote /\ UnitLen(s, j) = 0 -> 0
                      [] OTHER -> f[j + UnitLen(s, j)]
  <2>1. PICK r : r = [y \in j + 1 .. N |-> f[y]]
    OBVIOUS
  <2>2. f[j] = step[j][r]
    BY <1>3, <1>7, <2>1 DEF Recurs
  <2>3. r \in [j + 1 .. N -> Nat]
    BY <2>1
  <2>4. f[j] = IF At(s, j) = Quote THEN j + 1
               ELSE IF UnitLen(s, j) = 0 THEN 0 ELSE r[j + UnitLen(s, j)]
    BY <1>4, <2>2, <2>3
  <2>5. UnitLen(s, j) # 0 => r[j + UnitLen(s, j)] = f[j + UnitLen(s, j)]
    BY <1>5, <2>1
  <2> QED
    BY <2>4, <2>5
<1>9. f = [j \in 1 .. N |-> f[j]]
  OBVIOUS
<1>10. IsStringEnd(f, s)
  BY <1>1, <1>8, <1>9 DEF IsStringEnd
<1> QED
  BY <1>10 DEF StringEnd

\* A string ends behind its beginning, with a quote.
LEMMA StringEndIs ==
  ASSUME NEW s \in Text, NEW j \in 1 .. Len(s) + 1
  PROVE  /\ StringEnd(s)[j] = CASE At(s, j) = Quote -> j + 1
                                [] At(s, j) # Quote /\ UnitLen(s, j) = 0 -> 0
                                [] OTHER -> StringEnd(s)[j + UnitLen(s, j)]
         /\ StringEnd(s)[j] = 0 \/ StringEnd(s)[j] \in j + 1 .. Len(s) + 1
<1>1. PICK N \in Nat : N = Len(s) + 1
  BY LenIs
<1>2. PICK f : f = StringEnd(s)
  OBVIOUS
<1>3. ASSUME NEW k \in 1 .. N
      PROVE  f[k] = CASE At(s, k) = Quote -> k + 1
                      [] At(s, k) # Quote /\ UnitLen(s, k) = 0 -> 0
                      [] OTHER -> f[k + UnitLen(s, k)]
  BY <1>1, <1>2, StringEndExists DEF IsStringEnd
<1> DEFINE Good == {k \in 1 .. N : f[k] = 0 \/ f[k] \in k + 1 .. N}
<1>4. ASSUME NEW k \in 1 .. N, \A m \in k + 1 .. N : m \in Good
      PROVE  k \in Good
  <2>1. CASE At(s, k) = Quote
    <3>1. k \in 1 .. Len(s)
      BY <2>1, AtInside DEF Quote
    <3>2. f[k] = k + 1
      BY <1>3, <2>1
    <3> QED
      BY <1>1, <3>1, <3>2, LenIs
  <2>2. CASE At(s, k) # Quote /\ UnitLen(s, k) = 0
    <3>1. f[k] = 0
      BY <1>3, <2>2
    <3> QED
      BY <3>1
  <2>3. CASE At(s, k) # Quote /\ UnitLen(s, k) # 0
    <3>1. PICK m : m = k + UnitLen(s, k)
      OBVIOUS
    <3>2. m \in k + 1 .. N
      BY <1>1, <2>3, <3>1, UnitLenIs
    <3>3. f[k] = f[m]
      BY <1>3, <2>3, <3>1
    <3>4. f[m] = 0 \/ f[m] \in m + 1 .. N
      BY <1>4, <3>2
    <3>5. m + 1 .. N \subseteq k + 1 .. N
      BY <3>2
    <3> QED
      BY <3>3, <3>4, <3>5
  <2> QED
    BY <2>1, <2>2, <2>3
<1>5. \A k \in 1 .. N : k \in Good
  <2> HIDE DEF Good
  <2> QED
    BY <1>4, DownFrom
<1> QED
  BY <1>1, <1>2, <1>3, <1>5

\* The same of a string that begins at i.
LEMMA ScanStringRange ==
  ASSUME NEW s \in Text, NEW i
  PROVE  ScanString(s, i) = 0 \/ (i \in 1 .. Len(s) /\ ScanString(s, i) \in i + 2 .. Len(s) + 1)
<1>1. PICK n \in Nat : n = Len(s)
  BY LenIs
<1>2. CASE At(s, i) = Quote
  <2>1. i \in 1 .. n
    BY <1>1, <1>2, AtInside DEF Quote
  <2>2. PICK j \in 1 .. n + 1 : j = i + 1
    BY <1>1, <2>1
  <2>3. StringEnd(s)[j] = 0 \/ StringEnd(s)[j] \in j + 1 .. n + 1
    BY <1>1, <2>2, StringEndIs
  <2>4. ScanString(s, i) = StringEnd(s)[j]
    BY <1>2, <2>2, ScanStringIs
  <2>5. j + 1 = i + 2
    BY <2>1, <2>2
  <2> QED
    BY <1>1, <2>1, <2>3, <2>4, <2>5
<1>3. CASE At(s, i) # Quote
  BY <1>3, ScanStringIs
<1> QED
  BY <1>2, <1>3

-----------------------------------------------------------------------------
(* Numbers *)

\* What may come after a value.
Ends == {Space, Comma, "]", Close, "eof"}

LEMMA DigitsDiffer ==
  /\ "eof" \notin DigitChar /\ "-" \notin DigitChar /\ "+" \notin DigitChar
  /\ "." \notin DigitChar /\ "e" \notin DigitChar
  /\ \A x \in Ends : x \notin DigitChar /\ x # "." /\ x # "e"
BY Zenon DEF DigitChar, Nonzero, Ends, Space, Comma, Close

\* Digits, up to what is none.
LEMMA DigitsIs ==
  ASSUME NEW s \in Text, NEW i \in 1 .. Len(s) + 1, NEW e, e = Digits(s, i)
  PROVE  e = 0 \/ (e \in i + 1 .. Len(s) + 1 /\ AllDigits(s, i, e))
<1>1. PICK n \in Nat : n = Len(s)
  BY LenIs
<1>2. PICK m : m = Past(s, i, DigitChar)
  OBVIOUS
<1>3. m \in i .. n + 1 /\ \A k \in i .. m - 1 : At(s, k) \in DigitChar
  BY <1>1, <1>2, PastIs, DigitsDiffer DEF UpToHere
<1>4. CASE m = i
  BY <1>2, <1>4 DEF Digits
<1>5. CASE m # i
  <2>1. i < m /\ m \in i + 1 .. n + 1
    BY <1>1, <1>3, <1>5
  <2>2. e = m
    BY <1>2, <1>5 DEF Digits
  <2> QED
    BY <1>1, <1>3, <2>1, <2>2 DEF AllDigits
<1> QED
  BY <1>4, <1>5

\* Nothing else is taken for them.
LEMMA DigitsOnly ==
  ASSUME NEW s \in Text, NEW i \in 1 .. Len(s) + 1, NEW e \in 1 .. Len(s) + 1,
         AllDigits(s, i, e), At(s, e) \notin DigitChar
  PROVE  Digits(s, i) = e
<1>1. PICK n \in Nat : n = Len(s)
  BY LenIs
<1>2. i < e /\ \A k \in i .. e - 1 : At(s, k) \in DigitChar
  BY DEF AllDigits
<1>3. e \in i .. n + 1
  BY <1>1, <1>2
<1>4. UpToHere(s, i, e, DigitChar)
  BY <1>1, <1>2, <1>3 DEF UpToHere
<1>5. Past(s, i, DigitChar) = e
  BY <1>4, PastOnly, DigitsDiffer
<1> QED
  BY <1>2, <1>5 DEF Digits

\* The parts of a number.
IntegerPart(s, a, b) == AllDigits(s, a, b) /\ (At(s, a) = "0" => b = a + 1)
FractionPart(s, b, c) == c = b \/ (At(s, b) = "." /\ AllDigits(s, b + 1, c))
ExponentPart(s, c, e) ==
  \/ c = e
  \/ /\ At(s, c) = "e"
     /\ \/ AllDigits(s, c + 1, e)
        \/ At(s, c + 1) \in {"+", "-"} /\ AllDigits(s, c + 2, e)

LEMMA IntegerIs ==
  ASSUME NEW s \in Text, NEW i \in 1 .. Len(s) + 1, NEW e, e = Integer(s, i)
  PROVE  e = 0 \/ (e \in i + 1 .. Len(s) + 1 /\ IntegerPart(s, i, e))
<1>1. PICK n \in Nat : n = Len(s)
  BY LenIs
<1>2. CASE At(s, i) = "0"
  <2>1. e = i + 1
    BY <1>2 DEF Integer, Nonzero
  <2>2. i \in 1 .. n
    BY <1>1, <1>2, AtInside
  <2>3. e \in i + 1 .. n + 1 /\ i < e
    BY <2>1, <2>2
  <2>4. \A k \in i .. e - 1 : At(s, k) \in DigitChar
    <3>1. \A k \in i .. e - 1 : k = i
      BY <2>1, <2>2
    <3>2. At(s, i) \in DigitChar
      BY <1>2 DEF DigitChar
    <3> QED
      BY <3>1, <3>2
  <2> QED
    BY <1>1, <2>1, <2>3, <2>4 DEF IntegerPart, AllDigits
<1>3. CASE At(s, i) # "0" /\ At(s, i) \in Nonzero
  <2>1. e = Digits(s, i)
    BY <1>3 DEF Integer
  <2> QED
    BY <1>3, <2>1, DigitsIs DEF IntegerPart
<1>4. CASE At(s, i) # "0" /\ At(s, i) \notin Nonzero
  BY <1>4 DEF Integer
<1> QED
  BY <1>2, <1>3, <1>4

LEMMA FractionIs ==
  ASSUME NEW s \in Text, NEW i \in 1 .. Len(s) + 1, NEW e, e = Fraction(s, i)
  PROVE  e = 0 \/ (e \in i .. Len(s) + 1 /\ FractionPart(s, i, e))
<1>1. PICK n \in Nat : n = Len(s)
  BY LenIs
<1>2. CASE At(s, i) = "."
  <2>1. i \in 1 .. n
    BY <1>1, <1>2, AtInside
  <2>2. PICK j \in 1 .. n + 1 : j = i + 1
    BY <2>1
  <2>3. e = Digits(s, j)
    BY <1>2, <2>2 DEF Fraction
  <2>4. e = 0 \/ (e \in j + 1 .. n + 1 /\ AllDigits(s, j, e))
    BY <1>1, <2>3, DigitsIs
  <2>5. j + 1 .. n + 1 \subseteq i .. n + 1
    BY <2>1, <2>2
  <2> QED
    BY <1>1, <1>2, <2>2, <2>4, <2>5 DEF FractionPart
<1>3. CASE At(s, i) # "."
  <2>1. e = i
    BY <1>3 DEF Fraction
  <2>2. i \in i .. n + 1
    BY <1>1
  <2> QED
    BY <1>1, <2>1, <2>2 DEF FractionPart
<1> QED
  BY <1>2, <1>3

LEMMA ExponentIs ==
  ASSUME NEW s \in Text, NEW i \in 1 .. Len(s) + 1, NEW e, e = Exponent(s, i)
  PROVE  e = 0 \/ (e \in i .. Len(s) + 1 /\ ExponentPart(s, i, e))
<1>1. PICK n \in Nat : n = Len(s)
  BY LenIs
<1>2. CASE At(s, i) = "e" /\ At(s, i + 1) \in {"+", "-"}
  <2>1. i \in 1 .. n
    BY <1>1, <1>2, AtInside
  <2>2. i + 1 \in 1 .. n
    BY <1>1, <1>2, AtInside
  <2>3. PICK j \in 1 .. n + 1 : j = i + 2
    BY <2>1, <2>2
  <2>4. e = Digits(s, j)
    <3>1. i + 1 + 1 = j
      BY <2>1, <2>3
    <3> QED
      BY <1>2, <3>1 DEF Exponent
  <2>5. e = 0 \/ (e \in j + 1 .. n + 1 /\ AllDigits(s, j, e))
    BY <1>1, <2>4, DigitsIs
  <2>6. j + 1 .. n + 1 \subseteq i .. n + 1
    BY <2>1, <2>3
  <2> QED
    BY <1>1, <1>2, <2>3, <2>5, <2>6 DEF ExponentPart
<1>3. CASE At(s, i) = "e" /\ At(s, i + 1) \notin {"+", "-"}
  <2>1. i \in 1 .. n
    BY <1>1, <1>3, AtInside
  <2>3. PICK j \in 1 .. n + 1 : j = i + 1
    BY <2>1
  <2>4. e = Digits(s, j)
    <3>1. i + 1 + 0 = j
      BY <2>1, <2>3
    <3> QED
      BY <1>3, <3>1 DEF Exponent
  <2>5. e = 0 \/ (e \in j + 1 .. n + 1 /\ AllDigits(s, j, e))
    BY <1>1, <2>4, DigitsIs
  <2>6. j + 1 .. n + 1 \subseteq i .. n + 1
    BY <2>1, <2>3
  <2> QED
    BY <1>1, <1>3, <2>3, <2>5, <2>6 DEF ExponentPart
<1>4. CASE At(s, i) # "e"
  <2>1. e = i
    BY <1>4 DEF Exponent
  <2>2. i \in i .. n + 1
    BY <1>1
  <2> QED
    BY <1>1, <2>1, <2>2 DEF ExponentPart
<1> QED
  BY <1>2, <1>3, <1>4

\* What does not scan is nowhere.
LEMMA NothingAtZero ==
  ASSUME NEW s \in Text
  PROVE  Fraction(s, 0) = 0 /\ Exponent(s, 0) = 0
<1>1. At(s, 0) = "eof"
  BY AtIs
<1> QED
  BY <1>1 DEF Fraction, Exponent

\* A number has its parts one after the other.
LEMMA NumberParts ==
  ASSUME NEW s, NEW i, NEW e
  PROVE  JsonNumber(s, i, e) <=>
           \E a \in {i, i + 1} :
             /\ a = i \/ At(s, i) = "-"
             /\ \E b \in a + 1 .. e : /\ IntegerPart(s, a, b)
                                      /\ \E c \in b .. e : /\ FractionPart(s, b, c)
                                                           /\ ExponentPart(s, c, e)
BY DEF JsonNumber, IntegerPart, FractionPart, ExponentPart

\* What scan_number finds is a number.
LEMMA NumberSound ==
  ASSUME NEW s \in Text, NEW i \in 1 .. Len(s), NEW e, e = ScanNumber(s, i), e # 0
  PROVE  e \in i + 1 .. Len(s) + 1 /\ JsonNumber(s, i, e)
<1>1. PICK n \in Nat : n = Len(s)
  BY LenIs
<1>2. PICK a : a = IF At(s, i) = "-" THEN i + 1 ELSE i
  OBVIOUS
<1>3. a \in 1 .. n + 1 /\ a \in {i, i + 1} /\ (a = i \/ At(s, i) = "-") /\ i <= a
  BY <1>1, <1>2
<1>4. PICK b : b = Integer(s, a)
  OBVIOUS
<1>5. PICK c : c = Fraction(s, b)
  OBVIOUS
<1>6. e = Exponent(s, c)
  BY <1>2, <1>4, <1>5 DEF ScanNumber
<1>7. c # 0
  BY <1>6, NothingAtZero
<1>8. b # 0
  BY <1>5, <1>7, NothingAtZero
<1>9. b \in a + 1 .. n + 1 /\ IntegerPart(s, a, b)
  BY <1>1, <1>3, <1>4, <1>8, IntegerIs
<1>10. b \in 1 .. n + 1
  BY <1>3, <1>9
<1>11. c \in b .. n + 1 /\ FractionPart(s, b, c)
  BY <1>1, <1>5, <1>7, <1>10, FractionIs
<1>12. c \in 1 .. n + 1
  BY <1>10, <1>11
<1>13. e \in c .. n + 1 /\ ExponentPart(s, c, e)
  BY <1>1, <1>6, <1>12, ExponentIs
<1>14. b \in a + 1 .. e /\ c \in b .. e /\ e \in i + 1 .. n + 1
  BY <1>1, <1>3, <1>9, <1>11, <1>13
<1>15. JsonNumber(s, i, e)
  BY <1>3, <1>9, <1>11, <1>13, <1>14, NumberParts
<1> QED
  BY <1>1, <1>14, <1>15

\* A number that something else than a number goes on after is found.
LEMMA NumberComplete ==
  ASSUME NEW s \in Text, NEW i \in 1 .. Len(s), NEW e \in 1 .. Len(s) + 1,
         JsonNumber(s, i, e), At(s, e) \in Ends
  PROVE  ScanNumber(s, i) = e /\ At(s, i) \in {"-"} \cup DigitChar
<1>1. PICK n \in Nat : n = Len(s)
  BY LenIs
<1>2. PICK a \in {i, i + 1} :
        /\ a = i \/ At(s, i) = "-"
        /\ \E b \in a + 1 .. e : /\ IntegerPart(s, a, b)
                                 /\ \E c \in b .. e : /\ FractionPart(s, b, c)
                                                      /\ ExponentPart(s, c, e)
  BY NumberParts
<1>3. PICK b \in a + 1 .. e : /\ IntegerPart(s, a, b)
                              /\ \E c \in b .. e : /\ FractionPart(s, b, c)
                                                   /\ ExponentPart(s, c, e)
  BY <1>2
<1>4. PICK c \in b .. e : FractionPart(s, b, c) /\ ExponentPart(s, c, e)
  BY <1>3
<1>5. a \in 1 .. n + 1 /\ b \in 1 .. n + 1 /\ c \in 1 .. n + 1 /\ e \in 1 .. n + 1 /\ a < b
  BY <1>1, <1>2, <1>3, <1>4
<1>6. AllDigits(s, a, b) /\ (At(s, a) = "0" => b = a + 1)
  BY <1>3 DEF IntegerPart
<1>7. At(s, a) \in DigitChar
  <2>1. a \in a .. b - 1
    BY <1>5
  <2> QED
    BY <1>6, <2>1 DEF AllDigits
<1>8. a = IF At(s, i) = "-" THEN i + 1 ELSE i
  BY <1>2, <1>7, DigitsDiffer
<1>9. At(s, e) \notin DigitChar /\ At(s, e) # "." /\ At(s, e) # "e"
  BY DigitsDiffer
<1>10. e = c \/ At(s, c) = "e"
  BY <1>4 DEF ExponentPart
<1>11. At(s, c) \notin DigitChar /\ At(s, c) # "."
  BY <1>9, <1>10, DigitsDiffer
<1>12. c = b \/ At(s, b) = "."
  BY <1>4 DEF FractionPart
<1>13. At(s, b) \notin DigitChar
  BY <1>11, <1>12, DigitsDiffer
<1>14. Integer(s, a) = b
  <2>1. CASE At(s, a) = "0"
    BY <1>6, <2>1 DEF Integer, Nonzero
  <2>2. CASE At(s, a) # "0"
    <3>1. At(s, a) \in Nonzero
      BY <1>7, <2>2 DEF DigitChar
    <3>2. Digits(s, a) = b
      BY <1>1, <1>5, <1>6, <1>13, DigitsOnly
    <3> QED
      BY <2>2, <3>1, <3>2 DEF Integer
  <2> QED
    BY <2>1, <2>2
<1>15. Fraction(s, b) = c
  <2>1. CASE c = b
    BY <1>11, <2>1 DEF Fraction
  <2>2. CASE c # b
    <3>1. At(s, b) = "." /\ AllDigits(s, b + 1, c)
      BY <1>4, <2>2 DEF FractionPart
    <3>2. b + 1 \in 1 .. n + 1
      BY <1>1, <1>5, <3>1, AtInside
    <3>3. PICK j \in 1 .. n + 1 : j = b + 1
      BY <3>2
    <3>4. Digits(s, j) = c
      BY <1>1, <1>5, <1>11, <3>1, <3>3, DigitsOnly
    <3> QED
      BY <3>1, <3>3, <3>4 DEF Fraction
  <2> QED
    BY <2>1, <2>2
<1>16. Exponent(s, c) = e
  <2>1. CASE c = e
    BY <1>9, <2>1 DEF Exponent
  <2>2. CASE c # e /\ At(s, c) = "e" /\ AllDigits(s, c + 1, e)
    <3>1. c + 1 \in 1 .. n + 1
      BY <1>1, <1>5, <2>2, AtInside
    <3>2. PICK j \in 1 .. n + 1 : j = c + 1
      BY <3>1
    <3>3. At(s, j) \in DigitChar
      <4>1. j < e
        BY <2>2, <3>2 DEF AllDigits
      <4>2. j \in j .. e - 1
        BY <1>5, <4>1
      <4> QED
        BY <2>2, <3>2, <4>2 DEF AllDigits
    <3>4. At(s, c + 1) \notin {"+", "-"}
      BY <3>2, <3>3, DigitsDiffer
    <3>5. Digits(s, j) = e
      BY <1>1, <1>5, <1>9, <2>2, <3>2, DigitsOnly
    <3>6. c + 1 + 0 = j
      BY <1>5, <3>2
    <3> QED
      BY <2>2, <3>4, <3>5, <3>6 DEF Exponent
  <2>3. CASE c # e /\ At(s, c) = "e" /\ At(s, c + 1) \in {"+", "-"} /\ AllDigits(s, c + 2, e)
    <3>1. c + 1 \in 1 .. n
      BY <1>1, <2>3, AtInside
    <3>2. PICK j \in 1 .. n + 1 : j = c + 2
      BY <1>5, <3>1
    <3>5. Digits(s, j) = e
      BY <1>1, <1>5, <1>9, <2>3, <3>2, DigitsOnly
    <3>6. c + 1 + 1 = j
      BY <1>5, <3>2
    <3> QED
      BY <2>3, <3>5, <3>6 DEF Exponent
  <2> QED
    BY <1>4, <2>1, <2>2, <2>3 DEF ExponentPart
<1>17. ScanNumber(s, i) = e
  BY <1>8, <1>14, <1>15, <1>16 DEF ScanNumber
<1>18. At(s, i) \in {"-"} \cup DigitChar
  BY <1>2, <1>7
<1> QED
  BY <1>17, <1>18

-----------------------------------------------------------------------------
(* Containers *)

Opens  == {Open, "["}
Closes == {Close, "]"}

LEMMA BracketsDiffer ==
  /\ \A x \in Opens : x \notin Closes /\ x # Quote /\ x # "eof" /\ x # Space /\ x # Comma /\ x # ":"
  /\ \A x \in Closes : x # Quote /\ x # "eof" /\ x # Space /\ x # Comma /\ x # ":"
  /\ \A x \in {Space, Comma, ":"} : x # Quote /\ x # "eof" /\ x \notin Opens /\ x \notin Closes
  /\ Quote # "eof" /\ Quote \notin Opens /\ Quote \notin Closes
BY Zenon DEF Opens, Closes, Quote, Space, Comma, Open, Close

\* Where the container ends whose rest begins at j, so many levels deep.
IsDepths(f, s, close) == f = [j \in 1 .. Len(s) + 1 |-> [depth \in 1 .. MaxDepth |->
  CASE At(s, j) = Quote ->
         IF ScanString(s, j) = 0 THEN 0 ELSE f[ScanString(s, j)][depth]
    [] At(s, j) \in {Open, "["} ->
         IF depth = MaxDepth THEN 0 ELSE f[j + 1][depth + 1]
    [] At(s, j) \in {Close, "]"} ->
         IF depth > 1 THEN f[j + 1][depth - 1]
         ELSE IF At(s, j) = close THEN j + 1 ELSE 0
    [] At(s, j) = "eof" -> 0
    [] OTHER -> f[j + 1][depth]]]
Depths(s, close) == CHOOSE f : IsDepths(f, s, close)

LEMMA ScanContainerIs ==
  ASSUME NEW s, NEW i
  PROVE  ScanContainer(s, i) = Depths(s, CloseOf(s, i))[i + 1][1]
BY DEF ScanContainer, Depths, IsDepths

\* One step of it, as a function of what comes after.
Deeper(s, close, g, j, c) ==
  IF At(s, j) = Quote THEN (IF ScanString(s, j) = 0 THEN 0 ELSE g[ScanString(s, j)][c])
  ELSE IF At(s, j) \in Opens THEN (IF c = MaxDepth THEN 0 ELSE g[j + 1][c + 1])
  ELSE IF At(s, j) \in Closes THEN (IF c > 1 THEN g[j + 1][c - 1]
                                    ELSE IF At(s, j) = close THEN j + 1 ELSE 0)
  ELSE IF At(s, j) = "eof" THEN 0 ELSE g[j + 1][c]

LEMMA DepthsExist ==
  ASSUME NEW s \in Text, NEW close
  PROVE  IsDepths(Depths(s, close), s, close)
<1>1. PICK N \in Nat : N = Len(s) + 1
  BY LenIs
<1>2. PICK mu : mu = ToEnd(N)
  OBVIOUS
<1>3. mu \in [1 .. N -> 0 .. N] /\ DOMAIN mu = 1 .. N
      /\ \A k \in 1 .. N : Below(mu, k) = k + 1 .. N
  BY <1>2, BackIs DEF ToEnd
<1>4. PICK S : S = [1 .. MaxDepth -> Nat]
  OBVIOUS
<1>5. PICK step : step = [j \in 1 .. N |-> [g \in [j + 1 .. N -> S] |->
        [c \in 1 .. MaxDepth |-> Deeper(s, close, g, j, c)]]]
  OBVIOUS
<1>6. ASSUME NEW j \in 1 .. N
      PROVE  /\ ScanString(s, j) = 0 \/ ScanString(s, j) \in j + 1 .. N
             /\ At(s, j) # "eof" => j + 1 \in j + 1 .. N
  <2>1. PICK n \in Nat : n = Len(s)
    BY LenIs
  <2>2. ScanString(s, j) = 0 \/ ScanString(s, j) \in j + 2 .. n + 1
    BY <2>1, ScanStringRange
  <2>3. j + 2 .. n + 1 \subseteq j + 1 .. N
    BY <1>1, <2>1
  <2>4. At(s, j) # "eof" => j \in 1 .. n
    BY <2>1, AtInside
  <2>5. At(s, j) # "eof" => j + 1 \in j + 1 .. N
    BY <1>1, <2>1, <2>4
  <2> QED
    BY <2>2, <2>3, <2>5
<1>7. ASSUME NEW j \in 1 .. N, NEW g \in [j + 1 .. N -> S], NEW c \in 1 .. MaxDepth
      PROVE  Deeper(s, close, g, j, c) \in Nat
  <2>1. \A k \in j + 1 .. N, d \in 1 .. MaxDepth : g[k][d] \in Nat
    BY <1>4
  <2>2. MaxDepth \in Nat
    BY DepthAssumption
  <2>3. c + 1 \in 1 .. MaxDepth \/ c = MaxDepth
    BY <2>2
  <2>4. c > 1 => c - 1 \in 1 .. MaxDepth
    BY <2>2
  <2>5. CASE At(s, j) = Quote
    BY <1>6, <2>1, <2>5 DEF Deeper
  <2>6. CASE At(s, j) # Quote /\ At(s, j) \in Opens
    BY <1>6, <2>1, <2>3, <2>6, BracketsDiffer DEF Deeper
  <2>7. CASE At(s, j) # Quote /\ At(s, j) \notin Opens /\ At(s, j) \in Closes
    BY <1>6, <2>1, <2>4, <2>7, BracketsDiffer DEF Deeper
  <2>8. CASE At(s, j) # Quote /\ At(s, j) \notin Opens /\ At(s, j) \notin Closes
    BY <1>6, <2>1, <2>8 DEF Deeper
  <2> QED
    BY <2>5, <2>6, <2>7, <2>8
<1>8. \A j \in 1 .. N : step[j] \in [[Below(mu, j) -> S] -> S]
  <2> TAKE j \in 1 .. N
  <2>1. PICK B : B = j + 1 .. N
    OBVIOUS
  <2>2. ASSUME NEW g \in [B -> S]
        PROVE  [c \in 1 .. MaxDepth |-> Deeper(s, close, g, j, c)] \in S
    BY <1>4, <1>7, <2>1
  <2>3. step[j] \in [[B -> S] -> S]
    BY <1>5, <2>1, <2>2
  <2> QED
    BY <1>3, <2>1, <2>3
<1>9. PICK f \in [1 .. N -> S] : Recurs(f, mu, step)
  BY <1>3, <1>8, Recursion
<1>10. ASSUME NEW j \in 1 .. N
       PROVE  f[j] = [c \in 1 .. MaxDepth |-> Deeper(s, close, f, j, c)]
  <2>1. PICK r : r = [y \in j + 1 .. N |-> f[y]]
    OBVIOUS
  <2>2. f[j] = step[j][r]
    BY <1>3, <1>9, <2>1 DEF Recurs
  <2>3. r \in [j + 1 .. N -> S]
    BY <2>1
  <2>4. f[j] = [c \in 1 .. MaxDepth |-> Deeper(s, close, r, j, c)]
    BY <1>5, <2>2, <2>3
  <2>5. ASSUME NEW c \in 1 .. MaxDepth
        PROVE  Deeper(s, close, r, j, c) = Deeper(s, close, f, j, c)
    <3>1. \A k \in j + 1 .. N : r[k] = f[k]
      BY <2>1
    <3>2. CASE At(s, j) = Quote
      BY <1>6, <3>1, <3>2 DEF Deeper
    <3>3. CASE At(s, j) # Quote /\ At(s, j) # "eof"
      <4>1. r[j + 1] = f[j + 1]
        BY <1>6, <3>1, <3>3
      <4> QED
        BY <3>3, <4>1 DEF Deeper
    <3>4. CASE At(s, j) = "eof"
      BY <3>4, BracketsDiffer DEF Deeper
    <3> QED
      BY <3>2, <3>3, <3>4
  <2> QED
    BY <2>4, <2>5
<1>11. \A j \in 1 .. N, c \in 1 .. MaxDepth : Deeper(s, close, f, j, c) =
         CASE At(s, j) = Quote ->
                IF ScanString(s, j) = 0 THEN 0 ELSE f[ScanString(s, j)][c]
           [] At(s, j) \in {Open, "["} ->
                IF c = MaxDepth THEN 0 ELSE f[j + 1][c + 1]
           [] At(s, j) \in {Close, "]"} ->
                IF c > 1 THEN f[j + 1][c - 1]
                ELSE IF At(s, j) = close THEN j + 1 ELSE 0
           [] At(s, j) = "eof" -> 0
           [] OTHER -> f[j + 1][c]
  <2> TAKE j \in 1 .. N, c \in 1 .. MaxDepth
  <2>1. {Open, "["} = Opens /\ {Close, "]"} = Closes
    BY Zenon DEF Opens, Closes
  <2>2. CASE At(s, j) = Quote
    BY <2>1, <2>2, BracketsDiffer DEF Deeper
  <2>3. CASE At(s, j) \in Opens
    BY <2>1, <2>3, BracketsDiffer DEF Deeper
  <2>4. CASE At(s, j) \in Closes
    BY <2>1, <2>4, BracketsDiffer DEF Deeper
  <2>5. CASE At(s, j) = "eof"
    BY <2>1, <2>5, BracketsDiffer DEF Deeper
  <2>6. CASE At(s, j) # Quote /\ At(s, j) \notin Opens /\ At(s, j) \notin Closes /\ At(s, j) # "eof"
    BY <2>1, <2>6 DEF Deeper
  <2> QED
    BY <2>2, <2>3, <2>4, <2>5, <2>6
<1>12. f = [j \in 1 .. N |-> f[j]]
  OBVIOUS
<1>13. f = [j \in 1 .. N |-> [c \in 1 .. MaxDepth |-> Deeper(s, close, f, j, c)]]
  BY <1>10, <1>12
<1>14. IsDepths(f, s, close)
  <2> DEFINE Step(j, c) ==
         CASE At(s, j) = Quote ->
                IF ScanString(s, j) = 0 THEN 0 ELSE f[ScanString(s, j)][c]
           [] At(s, j) \in {Open, "["} ->
                IF c = MaxDepth THEN 0 ELSE f[j + 1][c + 1]
           [] At(s, j) \in {Close, "]"} ->
                IF c > 1 THEN f[j + 1][c - 1]
                ELSE IF At(s, j) = close THEN j + 1 ELSE 0
           [] At(s, j) = "eof" -> 0
           [] OTHER -> f[j + 1][c]
  <2>1. \A j \in 1 .. N, c \in 1 .. MaxDepth : Deeper(s, close, f, j, c) = Step(j, c)
    BY <1>11
  <2>2. f = [j \in 1 .. N |-> [c \in 1 .. MaxDepth |-> Step(j, c)]]
    <3> HIDE DEF Step
    <3> QED
      BY <1>13, <2>1
  <2> QED
    BY <1>1, <2>2 DEF IsDepths
<1> QED
  BY <1>14 DEF Depths

\* A container, character by character.
LEMMA DepthsIs ==
  ASSUME NEW s \in Text, NEW close, NEW j \in 1 .. Len(s) + 1, NEW c \in 1 .. MaxDepth
  PROVE  Depths(s, close)[j][c] = Deeper(s, close, Depths(s, close), j, c)
<1>1. PICK f : f = Depths(s, close)
  OBVIOUS
<1> DEFINE Step(k, d) ==
       CASE At(s, k) = Quote ->
              IF ScanString(s, k) = 0 THEN 0 ELSE f[ScanString(s, k)][d]
         [] At(s, k) \in {Open, "["} ->
              IF d = MaxDepth THEN 0 ELSE f[k + 1][d + 1]
         [] At(s, k) \in {Close, "]"} ->
              IF d > 1 THEN f[k + 1][d - 1]
              ELSE IF At(s, k) = close THEN k + 1 ELSE 0
         [] At(s, k) = "eof" -> 0
         [] OTHER -> f[k + 1][d]
<1>2. f[j][c] = Step(j, c)
  <2>1. PICK N : N = Len(s) + 1
    OBVIOUS
  <2>2. f = [k \in 1 .. N |-> [d \in 1 .. MaxDepth |-> Step(k, d)]]
    BY <1>1, <2>1, DepthsExist DEF IsDepths
  <2> HIDE DEF Step
  <2> QED
    BY <2>1, <2>2
<1>3. {Open, "["} = Opens /\ {Close, "]"} = Closes
  BY Zenon DEF Opens, Closes
<1>4. f[j][c] = Deeper(s, close, f, j, c)
  <2>2. CASE At(s, j) = Quote
    BY <1>2, <1>3, <2>2, BracketsDiffer DEF Deeper
  <2>3. CASE At(s, j) \in Opens
    BY <1>2, <1>3, <2>3, BracketsDiffer DEF Deeper
  <2>4. CASE At(s, j) \in Closes
    BY <1>2, <1>3, <2>4, BracketsDiffer DEF Deeper
  <2>5. CASE At(s, j) = "eof"
    BY <1>2, <1>3, <2>5, BracketsDiffer DEF Deeper
  <2>6. CASE At(s, j) # Quote /\ At(s, j) \notin Opens /\ At(s, j) \notin Closes /\ At(s, j) # "eof"
    BY <1>2, <1>3, <2>6 DEF Deeper
  <2> QED
    BY <2>2, <2>3, <2>4, <2>5, <2>6
<1> QED
  BY <1>1, <1>4

\* A container ends behind its beginning.
LEMMA DepthsRange ==
  ASSUME NEW s \in Text, NEW close, NEW j \in 1 .. Len(s) + 1, NEW c \in 1 .. MaxDepth
  PROVE  Depths(s, close)[j][c] = 0 \/ Depths(s, close)[j][c] \in j + 1 .. Len(s) + 1
<1>1. PICK N \in Nat : N = Len(s) + 1
  BY LenIs
<1>2. PICK f : f = Depths(s, close)
  OBVIOUS
<1>3. \A k \in 1 .. N, d \in 1 .. MaxDepth : f[k][d] = Deeper(s, close, f, k, d)
  BY <1>1, <1>2, DepthsIs
<1> DEFINE Good == {k \in 1 .. N : \A d \in 1 .. MaxDepth : f[k][d] = 0 \/ f[k][d] \in k + 1 .. N}
<1>4. ASSUME NEW k \in 1 .. N, \A m \in k + 1 .. N : m \in Good
      PROVE  k \in Good
  <2> SUFFICES ASSUME NEW d \in 1 .. MaxDepth PROVE f[k][d] = 0 \/ f[k][d] \in k + 1 .. N
    OBVIOUS
  <2>1. ASSUME NEW m \in k + 1 .. N, NEW e \in 1 .. MaxDepth
        PROVE  f[m][e] = 0 \/ f[m][e] \in k + 1 .. N
    <3>1. f[m][e] = 0 \/ f[m][e] \in m + 1 .. N
      BY <1>4
    <3>2. m + 1 .. N \subseteq k + 1 .. N
      OBVIOUS
    <3> QED
      BY <3>1, <3>2
  <2>2. At(s, k) # "eof" => k + 1 \in k + 1 .. N
    <3>1. PICK n \in Nat : n = Len(s)
      BY LenIs
    <3>2. At(s, k) # "eof" => k \in 1 .. n
      BY <3>1, AtInside
    <3> QED
      BY <1>1, <3>1, <3>2
  <2>3. ScanString(s, k) = 0 \/ ScanString(s, k) \in k + 1 .. N
    <3>1. PICK n \in Nat : n = Len(s)
      BY LenIs
    <3>2. ScanString(s, k) = 0 \/ ScanString(s, k) \in k + 2 .. n + 1
      BY <3>1, ScanStringRange
    <3>3. k + 2 .. n + 1 \subseteq k + 1 .. N
      BY <1>1, <3>1
    <3> QED
      BY <3>2, <3>3
  <2>4. MaxDepth \in Nat
    BY DepthAssumption
  <2>5. f[k][d] = Deeper(s, close, f, k, d)
    BY <1>3
  <2> HIDE DEF Good
  <2>6. CASE At(s, k) = Quote
    BY <2>1, <2>3, <2>5, <2>6 DEF Deeper
  <2>7. CASE At(s, k) # Quote /\ At(s, k) \in Opens
    <3>1. d + 1 \in 1 .. MaxDepth \/ d = MaxDepth
      BY <2>4
    <3> QED
      BY <2>1, <2>2, <2>5, <2>7, <3>1, BracketsDiffer DEF Deeper
  <2>8. CASE At(s, k) # Quote /\ At(s, k) \notin Opens /\ At(s, k) \in Closes
    <3>1. d > 1 => d - 1 \in 1 .. MaxDepth
      BY <2>4
    <3>2. At(s, k) # "eof"
      BY <2>8, BracketsDiffer
    <3>3. f[k][d] = IF d > 1 THEN f[k + 1][d - 1] ELSE IF At(s, k) = close THEN k + 1 ELSE 0
      BY <2>5, <2>8 DEF Deeper
    <3> QED
      BY <2>1, <2>2, <3>1, <3>2, <3>3
  <2>9. CASE At(s, k) # Quote /\ At(s, k) \notin Opens /\ At(s, k) \notin Closes
    BY <2>1, <2>2, <2>5, <2>9 DEF Deeper
  <2> QED
    BY <2>6, <2>7, <2>8, <2>9
<1>5. \A k \in 1 .. N : k \in Good
  <2> HIDE DEF Good
  <2> QED
    BY <1>4, DownFrom
<1> QED
  BY <1>1, <1>2, <1>5

-----------------------------------------------------------------------------
(* Values *)

LEMMA KindsDiffer ==
  /\ Quote \notin Opens \cup {"t", "n", "-"} \cup DigitChar
  /\ Open \notin {"[", "t", "n", "-"} \cup DigitChar
  /\ "[" \notin {"t", "n", "-"} \cup DigitChar
  /\ \A x \in {"t", "n"} : x \notin {"-"} \cup DigitChar /\ x # "eof"
  /\ \A x \in {"-"} \cup DigitChar : x # "eof"
  /\ \A x \in Opens : x # "eof"
BY Zenon DEF Quote, Open, Opens, DigitChar, Nonzero

\* What is found at i, the place of a value.
Found(s, i, end, kind) == [start |-> i, end |-> end, kind |-> kind]

LEMMA ScanValueIs ==
  ASSUME NEW s, NEW pos, NEW i, i = SkipWs(s, pos), NEW v, v = ScanValue(s, pos)
  PROVE  /\ At(s, i) = Quote => v = Found(s, i, ScanString(s, i), "string")
         /\ At(s, i) = Open => v = Found(s, i, ScanContainer(s, i), "object")
         /\ At(s, i) = "[" => v = Found(s, i, ScanContainer(s, i), "array")
         /\ At(s, i) \in {"t", "n"} => v = Found(s, i, ScanLiteral(s, i), "literal")
         /\ At(s, i) \in {"-"} \cup DigitChar => v = Found(s, i, ScanNumber(s, i), "number")
         /\ At(s, i) \notin {Quote} \cup Opens \cup {"t", "n", "-"} \cup DigitChar
              => v = Found(s, i, 0, "none")
<1>1. v = CASE At(s, i) = Quote -> Found(s, i, ScanString(s, i), "string")
            [] At(s, i) = Open -> Found(s, i, ScanContainer(s, i), "object")
            [] At(s, i) = "[" -> Found(s, i, ScanContainer(s, i), "array")
            [] At(s, i) \in {"t", "n"} -> Found(s, i, ScanLiteral(s, i), "literal")
            [] At(s, i) \in {"-"} \cup DigitChar -> Found(s, i, ScanNumber(s, i), "number")
            [] OTHER -> Found(s, i, 0, "none")
  BY DEF ScanValue, Found
<1>2. Open \in Opens /\ "[" \in Opens
  BY DEF Opens
<1>3. \A x : x \in Opens <=> x = Open \/ x = "["
  BY DEF Opens
<1>4. At(s, i) = Quote => v = Found(s, i, ScanString(s, i), "string")
  BY <1>1, <1>2, KindsDiffer
<1>5. At(s, i) = Open => v = Found(s, i, ScanContainer(s, i), "object")
  BY <1>1, <1>2, KindsDiffer
<1>6. At(s, i) = "[" => v = Found(s, i, ScanContainer(s, i), "array")
  BY <1>1, <1>2, KindsDiffer
<1>7. At(s, i) \in {"t", "n"} => v = Found(s, i, ScanLiteral(s, i), "literal")
  BY <1>1, <1>2, KindsDiffer
<1>8. At(s, i) \in {"-"} \cup DigitChar => v = Found(s, i, ScanNumber(s, i), "number")
  BY <1>1, <1>2, KindsDiffer
<1>9. At(s, i) \notin {Quote} \cup Opens \cup {"t", "n", "-"} \cup DigitChar
        => v = Found(s, i, 0, "none")
  BY <1>1, <1>2
<1> QED
  BY <1>4, <1>5, <1>6, <1>7, <1>8, <1>9

\* A literal is found where it stands.
LEMMA ScanLiteralIs ==
  ASSUME NEW s \in Text, NEW i \in 1 .. Len(s)
  PROVE  /\ ScanLiteral(s, i) # 0 =>
              ScanLiteral(s, i) \in i + 1 .. Len(s) + 1 /\ JsonLiteral(s, i, ScanLiteral(s, i))
         /\ \A e : JsonLiteral(s, i, e) => ScanLiteral(s, i) = e /\ At(s, i) \in {"t", "n"}
<1>1. PICK n \in Nat : n = Len(s)
  BY LenIs
<1>2. ASSUME NEW lit \in Literals
      PROVE  lit[1] \in {"t", "n"} /\ lit[2] # "eof"
  BY DEF Literals
<1>3. CASE \E lit \in Literals : At(s, i) = lit[1] /\ At(s, i + 1) = lit[2]
  <2>1. At(s, i) \in {"t", "n"} /\ At(s, i + 1) # "eof"
    BY <1>2, <1>3
  <2>2. i + 1 \in 1 .. n
    BY <1>1, <2>1, AtInside
  <2>3. ScanLiteral(s, i) = i + 2
    BY <1>3 DEF ScanLiteral
  <2>4. i + 2 \in i + 1 .. n + 1
    BY <2>2
  <2>5. \A e : JsonLiteral(s, i, e) <=> e = i + 2
    BY <1>3 DEF JsonLiteral
  <2> QED
    BY <1>1, <2>1, <2>3, <2>4, <2>5
<1>4. CASE ~ \E lit \in Literals : At(s, i) = lit[1] /\ At(s, i + 1) = lit[2]
  BY <1>4 DEF ScanLiteral, JsonLiteral
<1> QED
  BY <1>3, <1>4

\* A value ends behind its beginning, and inside the text.
LEMMA ScanContainerRange ==
  ASSUME NEW s \in Text, NEW i \in 1 .. Len(s)
  PROVE  ScanContainer(s, i) = 0 \/ ScanContainer(s, i) \in i + 1 .. Len(s) + 1
<1>1. PICK n \in Nat : n = Len(s)
  BY LenIs
<1>2. PICK j \in 1 .. n + 1 : j = i + 1
  BY <1>1
<1>3. 1 \in 1 .. MaxDepth
  BY DepthAssumption
<1>4. PICK e : e = Depths(s, CloseOf(s, i))[j][1]
  OBVIOUS
<1>5. e = 0 \/ e \in j + 1 .. n + 1
  BY <1>1, <1>3, <1>4, DepthsRange
<1>6. j + 1 .. n + 1 \subseteq i + 1 .. n + 1
  BY <1>1, <1>2
<1>7. ScanContainer(s, i) = e
  BY <1>2, <1>4, ScanContainerIs
<1> QED
  BY <1>1, <1>5, <1>6, <1>7

LEMMA ScanValueRange ==
  ASSUME NEW s \in Text, NEW pos \in 1 .. Len(s) + 1, NEW v, v = ScanValue(s, pos)
  PROVE  /\ v.start = SkipWs(s, pos) /\ v.start \in pos .. Len(s) + 1
         /\ v.end = 0 \/ (v.start \in 1 .. Len(s) /\ v.end \in v.start + 1 .. Len(s) + 1)
         /\ v = [start |-> v.start, end |-> v.end, kind |-> v.kind]
<1>1. PICK i : i = SkipWs(s, pos)
  OBVIOUS
<1>2. i \in pos .. Len(s) + 1
  BY <1>1, SkipIs
<1>3. PICK n \in Nat : n = Len(s)
  BY LenIs
<1>4. ASSUME At(s, i) # "eof" PROVE i \in 1 .. n
  BY <1>3, <1>4, AtInside
<1> DEFINE Ranged(end) == end = 0 \/ (i \in 1 .. n /\ end \in i + 1 .. n + 1)
<1>5. \E end, kind : v = Found(s, i, end, kind) /\ Ranged(end)
  <2>1. CASE At(s, i) = Quote
    <3>1. v = Found(s, i, ScanString(s, i), "string")
      BY <1>1, <2>1, ScanValueIs
    <3>2. ScanString(s, i) = 0 \/ (i \in 1 .. n /\ ScanString(s, i) \in i + 2 .. n + 1)
      BY <1>3, ScanStringRange
    <3>3. Ranged(ScanString(s, i))
      BY <3>2
    <3> QED
      BY <3>1, <3>3
  <2>2. CASE At(s, i) \in Opens
    <3>1. PICK kind \in {"object", "array"} : v = Found(s, i, ScanContainer(s, i), kind)
      BY <1>1, <2>2, ScanValueIs DEF Opens
    <3>2. i \in 1 .. n
      BY <1>4, <2>2, KindsDiffer
    <3>3. Ranged(ScanContainer(s, i))
      BY <1>3, <3>2, ScanContainerRange
    <3> QED
      BY <3>1, <3>3
  <2>3. CASE At(s, i) \in {"t", "n"}
    <3>1. v = Found(s, i, ScanLiteral(s, i), "literal")
      BY <1>1, <2>3, ScanValueIs
    <3>2. i \in 1 .. n
      BY <1>4, <2>3, KindsDiffer
    <3>3. Ranged(ScanLiteral(s, i))
      BY <1>3, <3>2, ScanLiteralIs
    <3> QED
      BY <3>1, <3>3
  <2>4. CASE At(s, i) \in {"-"} \cup DigitChar
    <3>1. v = Found(s, i, ScanNumber(s, i), "number")
      BY <1>1, <2>4, ScanValueIs
    <3>2. i \in 1 .. n
      BY <1>4, <2>4, KindsDiffer
    <3>3. Ranged(ScanNumber(s, i))
      BY <1>3, <3>2, NumberSound
    <3> QED
      BY <3>1, <3>3
  <2>5. CASE At(s, i) \notin {Quote} \cup Opens \cup {"t", "n", "-"} \cup DigitChar
    <3>1. v = Found(s, i, 0, "none")
      BY <1>1, <2>5, ScanValueIs
    <3> QED
      BY <3>1
  <2> QED
    BY <2>1, <2>2, <2>3, <2>4, <2>5
<1>6. PICK end, kind : v = Found(s, i, end, kind) /\ Ranged(end)
  BY <1>5
<1>7. v.start = i /\ v.end = end /\ v.kind = kind
  BY <1>6 DEF Found
<1>8. v = [start |-> v.start, end |-> v.end, kind |-> v.kind]
  BY <1>6, <1>7 DEF Found
<1> QED
  BY <1>1, <1>2, <1>3, <1>6, <1>7, <1>8

-----------------------------------------------------------------------------
(* Items *)

\* Where an item begins.
StartOf(kind, item) == IF kind = "object" THEN item.key ELSE item.value.start

\* A key, a colon and a value follow one another.
Joined(s, kind, item) ==
  /\ item.value.start < item.value.end
  /\ kind = "object" => /\ item.key < item.keyEnd
                        /\ Separated(s, item.keyEnd, item.value.start, ":")

\* Blanks and blanks are blanks.
LEMMA BlankJoins ==
  ASSUME NEW s, NEW i \in Nat, NEW j \in Nat, NEW k \in Nat, Blank(s, i, j), Blank(s, j, k)
  PROVE  Blank(s, i, k)
<1>1. i <= j /\ \A m \in i .. j - 1 : At(s, m) = Space
  BY DEF Blank
<1>2. j <= k /\ \A m \in j .. k - 1 : At(s, m) = Space
  BY DEF Blank
<1>3. ASSUME NEW m \in i .. k - 1 PROVE At(s, m) = Space
  <2>1. m \in i .. j - 1 \/ m \in j .. k - 1
    OBVIOUS
  <2> QED
    BY <1>1, <1>2, <2>1
<1> QED
  BY <1>1, <1>2, <1>3 DEF Blank

\* What is found at i as an item begins there and ends inside the text.
LEMMA ItemIs ==
  ASSUME NEW s \in Text, NEW i \in 1 .. Len(s) + 1, NEW kind \in {"object", "array"},
         NEW item, item = ItemAt(s, i, kind), item.value.end # 0
  PROVE  /\ Joined(s, kind, item) /\ Blank(s, i, StartOf(kind, item))
         /\ StartOf(kind, item) \in 1 .. Len(s)
         /\ item.value.end \in i + 1 .. Len(s) + 1
<1>1. PICK n \in Nat : n = Len(s)
  BY LenIs
<1>2. CASE kind = "array"
  <2>1. PICK v : v = ScanValue(s, i)
    OBVIOUS
  <2>2. item = Element(v)
    BY <1>2, <2>1 DEF ItemAt
  <2>3. item.value = v
    BY <2>2 DEF Element
  <2>4. v.start = SkipWs(s, i) /\ v.start \in i .. n + 1 /\ v.start \in 1 .. n
        /\ v.end \in v.start + 1 .. n + 1
    BY <1>1, <2>1, <2>3, ScanValueRange
  <2>5. Blank(s, i, v.start)
    BY <2>4, SkipIs
  <2>6. v.start < v.end /\ v.end \in i + 1 .. n + 1
    BY <1>1, <2>4
  <2>7. StartOf(kind, item) = v.start
    BY <1>2, <2>3 DEF StartOf
  <2>8. Joined(s, kind, item)
    BY <1>2, <2>3, <2>6 DEF Joined
  <2> QED
    BY <1>1, <2>3, <2>4, <2>5, <2>6, <2>7, <2>8
<1>3. CASE kind = "object"
  <2>1. PICK key : key = SkipWs(s, i)
    OBVIOUS
  <2>2. PICK end : end = ScanString(s, key)
    OBVIOUS
  <2>3. PICK colon : colon = SkipWs(s, end)
    OBVIOUS
  <2>4. item = Member(s, key, end, colon)
    BY <1>3, <2>1, <2>2, <2>3 DEF ItemAt
  <2>5. PICK v : v = ScanValue(s, colon + 1)
    OBVIOUS
  <2>6. end # 0 /\ At(s, colon) = ":" /\ item = [key |-> key, keyEnd |-> end, value |-> v]
    BY <2>4, <2>5 DEF Member, NoItem, Element
  <2>7. key \in 1 .. n /\ end \in key + 2 .. n + 1
    BY <1>1, <2>2, <2>6, ScanStringRange
  <2>8. Blank(s, i, key) /\ key \in i .. n + 1
    BY <1>1, <2>1, SkipIs
  <2>9. end \in 1 .. n + 1 /\ key < end
    BY <1>1, <2>7
  <2>10. colon \in end .. n + 1 /\ Blank(s, end, colon)
    BY <1>1, <2>3, <2>9, SkipIs
  <2>11. colon \in 1 .. n
    BY <1>1, <2>6, AtInside
  <2>12. colon + 1 \in 1 .. n + 1
    BY <2>11
  <2>13. PICK next : next = colon + 1
    OBVIOUS
  <2>14. v.start = SkipWs(s, next) /\ v.start \in next .. n + 1
         /\ (v.end = 0 \/ (v.start \in 1 .. n /\ v.end \in v.start + 1 .. n + 1))
    BY <1>1, <2>5, <2>12, <2>13, ScanValueRange
  <2>15. item.value = v /\ item.key = key /\ item.keyEnd = end
    BY <2>6
  <2>16. v.start \in 1 .. n /\ v.end \in v.start + 1 .. n + 1
    BY <2>14, <2>15
  <2>17. Blank(s, next, v.start)
    BY <1>1, <2>12, <2>13, <2>14, SkipIs
  <2>18. colon \in end .. v.start - 1
    BY <2>10, <2>11, <2>13, <2>14, <2>16, <2>9
  <2>19. Separated(s, end, v.start, ":")
    BY <2>6, <2>10, <2>13, <2>17, <2>18 DEF Separated
  <2>20. v.start < v.end /\ v.end \in i + 1 .. n + 1
    BY <1>1, <2>7, <2>8, <2>9, <2>10, <2>11, <2>13, <2>14, <2>16
  <2>21. Joined(s, kind, item)
    BY <2>9, <2>15, <2>19, <2>20 DEF Joined
  <2>22. StartOf(kind, item) = key
    BY <1>3, <2>15 DEF StartOf
  <2> QED
    BY <1>1, <2>7, <2>8, <2>15, <2>20, <2>21, <2>22
<1> QED
  BY <1>2, <1>3

\* An item before those that follow it.
LEMMA PutIs ==
  ASSUME NEW T, NEW item \in T, NEW rest \in Seq(T), NEW q, q = <<item>> \o rest
  PROVE  /\ q \in Seq(T) /\ Len(q) = Len(rest) + 1 /\ q[1] = item
         /\ \A k \in 2 .. Len(q) : q[k] = rest[k - 1] /\ k - 1 \in DOMAIN rest
         /\ DOMAIN q = 1 .. Len(q) /\ DOMAIN rest = 1 .. Len(rest) /\ Len(rest) \in Nat
<1>1. <<item>> \in Seq(T) /\ Len(<<item>>) = 1 /\ <<item>>[1] = item
  OBVIOUS
<1>2. PICK n \in Nat : n = Len(rest) /\ DOMAIN rest = 1 .. n
  BY LenProperties
<1>3. q \in Seq(T) /\ Len(q) = n + 1
      /\ \A k \in 1 .. n + 1 : q[k] = IF k <= 1 THEN <<item>>[k] ELSE rest[k - 1]
  BY <1>1, <1>2, ConcatProperties
<1>4. DOMAIN q = 1 .. Len(q)
  BY <1>3, LenProperties
<1>5. q[1] = item
  BY <1>1, <1>2, <1>3
<1>6. ASSUME NEW k \in 2 .. n + 1 PROVE q[k] = rest[k - 1] /\ k - 1 \in 1 .. n
  BY <1>3
<1> QED
  BY <1>2, <1>3, <1>4, <1>5, <1>6

IsItems(f, s, span) == f = [i \in 1 .. Len(s) + 1 |-> ItemsOn(s, span, ItemAt(s, i, span.kind), f)]
ItemsFrom(s, span) == CHOOSE f : IsItems(f, s, span)

LEMMA ItemsIs ==
  ASSUME NEW s, NEW span, NEW first, first = SkipWs(s, span.start + 1)
  PROVE  Items(s, span) = IF first < span.end /\ At(s, first) = CloseOf(s, span.start)
                          THEN [ok |-> TRUE, items |-> <<>>] ELSE ItemsFrom(s, span)[first]
BY DEF Items, ItemsFrom, IsItems

\* One more item, or the last one, or none that scans.
More(s, span, i, item, f, r) ==
  /\ item.value.end # 0 /\ item.value.end <= span.end
  /\ \E m \in i + 1 .. Len(s) :
       /\ Blank(s, item.value.end, m) /\ At(s, m) = Comma
       /\ r = IF f[m + 1].ok
              THEN [ok |-> TRUE, items |-> <<item>> \o f[m + 1].items] ELSE Failed
Last(s, span, i, item, r) ==
  /\ item.value.end # 0 /\ item.value.end <= span.end
  /\ \E m \in i + 1 .. Len(s) :
       /\ Blank(s, item.value.end, m) /\ At(s, m) = CloseOf(s, span.start)
       /\ m + 1 = span.end /\ r = [ok |-> TRUE, items |-> <<item>>]

LEMMA ItemsOnIs ==
  ASSUME NEW s \in Text, NEW span, span.end \in Nat, NEW i \in 1 .. Len(s) + 1,
         span.kind \in {"object", "array"},
         NEW item, item = ItemAt(s, i, span.kind), NEW f, NEW r, r = ItemsOn(s, span, item, f)
  PROVE  r = Failed \/ More(s, span, i, item, f, r) \/ Last(s, span, i, item, r)
<1>1. PICK n \in Nat : n = Len(s)
  BY LenIs
<1>2. PICK end : end = item.value.end
  OBVIOUS
<1>3. PICK m : m = SkipWs(s, end)
  OBVIOUS
<1>4. r = CASE end = 0 \/ end > span.end -> Failed
            [] end \in 1 .. span.end /\ At(s, m) = Comma ->
                 IF f[m + 1].ok
                 THEN [ok |-> TRUE, items |-> <<item>> \o f[m + 1].items] ELSE Failed
            [] end \in 1 .. span.end /\ At(s, m) = CloseOf(s, span.start)
               /\ m + 1 = span.end -> [ok |-> TRUE, items |-> <<item>>]
            [] OTHER -> Failed
  BY <1>2, <1>3 DEF ItemsOn
<1>5. CASE end = 0
  BY <1>4, <1>5
<1>6. CASE end # 0
  <2>1. end \in i + 1 .. n + 1
    BY <1>1, <1>2, <1>6, ItemIs
  <2>2. end \in 1 .. n + 1
    BY <1>1, <2>1
  <2>3. m \in end .. n + 1 /\ Blank(s, end, m)
    BY <1>1, <1>3, <2>2, SkipIs
  <2>4. Comma # "eof" /\ CloseOf(s, span.start) # "eof" /\ CloseOf(s, span.start) # Comma
    BY MarksDiffer DEF CloseOf
  <2>5. At(s, m) # "eof" => m \in 1 .. n
    BY <1>1, AtInside
  <2>6. At(s, m) # "eof" => m \in i + 1 .. n
    BY <1>1, <2>1, <2>3, <2>5
  <2>7. CASE end > span.end
    BY <1>4, <2>7
  <2>8. CASE ~ (end > span.end) /\ At(s, m) = Comma
    <3>1. end \in 1 .. span.end /\ end <= span.end
      BY <2>2, <2>8, <1>1
    <3>2. r = IF f[m + 1].ok
              THEN [ok |-> TRUE, items |-> <<item>> \o f[m + 1].items] ELSE Failed
      BY <1>4, <1>6, <2>8, <3>1, <2>4
    <3>3. m \in i + 1 .. n
      BY <2>4, <2>6, <2>8
    <3> QED
      BY <1>1, <1>2, <1>6, <2>3, <2>8, <3>1, <3>2, <3>3 DEF More
  <2>9. CASE ~ (end > span.end) /\ At(s, m) = CloseOf(s, span.start) /\ m + 1 = span.end
    <3>1. end \in 1 .. span.end /\ end <= span.end
      BY <2>2, <2>9, <1>1
    <3>2. r = [ok |-> TRUE, items |-> <<item>>]
      BY <1>4, <1>6, <2>9, <3>1, <2>4
    <3>3. m \in i + 1 .. n
      BY <2>4, <2>6, <2>9
    <3> QED
      BY <1>1, <1>2, <1>6, <2>3, <2>9, <3>1, <3>2, <3>3 DEF Last
  <2>10. CASE /\ ~ (end > span.end) /\ At(s, m) # Comma
              /\ ~ (At(s, m) = CloseOf(s, span.start) /\ m + 1 = span.end)
    BY <1>4, <1>6, <2>10
  <2> QED
    BY <2>7, <2>8, <2>9, <2>10
<1> QED
  BY <1>5, <1>6

\* Each step looks no further back than where it is.
SameBehind(s, i, f, g) == \A k \in i + 1 .. Len(s) + 1 : f[k] = g[k]

LEMMA ItemsLocal ==
  ASSUME NEW s \in Text, NEW span, span.end \in Nat, NEW i \in 1 .. Len(s) + 1,
         span.kind \in {"object", "array"},
         NEW item, item = ItemAt(s, i, span.kind), NEW f, NEW g,
         SameBehind(s, i, f, g)
  PROVE  ItemsOn(s, span, item, f) = ItemsOn(s, span, item, g)
<1>1. PICK n \in Nat : n = Len(s)
  BY LenIs
<1>2. PICK end : end = item.value.end
  OBVIOUS
<1>3. PICK m : m = SkipWs(s, end)
  OBVIOUS
<1> DEFINE On(h) == CASE end = 0 \/ end > span.end -> Failed
            [] end \in 1 .. span.end /\ At(s, m) = Comma ->
                 IF h[m + 1].ok
                 THEN [ok |-> TRUE, items |-> <<item>> \o h[m + 1].items] ELSE Failed
            [] end \in 1 .. span.end /\ At(s, m) = CloseOf(s, span.start)
               /\ m + 1 = span.end -> [ok |-> TRUE, items |-> <<item>>]
            [] OTHER -> Failed
<1>4. ItemsOn(s, span, item, f) = On(f) /\ ItemsOn(s, span, item, g) = On(g)
  BY <1>2, <1>3 DEF ItemsOn
<1>5. CASE end = 0
  BY <1>4, <1>5
<1>6. CASE end # 0 /\ At(s, m) = Comma
  <2>1. end \in i + 1 .. n + 1
    BY <1>1, <1>2, <1>6, ItemIs
  <2>2. end \in 1 .. n + 1
    BY <1>1, <2>1
  <2>3. m \in end .. n + 1
    BY <1>1, <1>3, <2>2, SkipIs
  <2>4. m \in 1 .. n
    <3>1. Comma # "eof"
      BY MarksDiffer
    <3> QED
      BY <1>1, <1>6, <3>1, AtInside
  <2>5. m + 1 \in i + 1 .. n + 1
    BY <1>1, <2>1, <2>3, <2>4
  <2>6. f[m + 1] = g[m + 1]
    BY <1>1, <2>5 DEF SameBehind
  <2> QED
    BY <1>4, <2>6
<1>7. CASE end # 0 /\ At(s, m) # Comma
  BY <1>4, <1>7
<1> QED
  BY <1>5, <1>6, <1>7

LEMMA ItemsExist ==
  ASSUME NEW s \in Text, NEW span, span.end \in Nat, span.kind \in {"object", "array"}
  PROVE  IsItems(ItemsFrom(s, span), s, span)
<1>1. PICK N \in Nat : N = Len(s) + 1
  BY LenIs
<1>2. PICK mu : mu = ToEnd(N)
  OBVIOUS
<1>3. mu \in [1 .. N -> 0 .. N] /\ DOMAIN mu = 1 .. N
      /\ \A k \in 1 .. N : Below(mu, k) = k + 1 .. N
  BY <1>2, BackIs DEF ToEnd
<1>4. PICK T : T = {ItemAt(s, i, span.kind) : i \in 1 .. N}
  OBVIOUS
<1>5. PICK S : S = [ok : BOOLEAN, items : Seq(T)]
  OBVIOUS
<1>6. PICK item : item = [i \in 1 .. N |-> ItemAt(s, i, span.kind)]
  OBVIOUS
<1>7. PICK step : step = [j \in 1 .. N |-> [g \in [j + 1 .. N -> S] |->
        ItemsOn(s, span, item[j], g)]]
  OBVIOUS
<1>8. ASSUME NEW j \in 1 .. N, NEW g \in [j + 1 .. N -> S]
      PROVE  ItemsOn(s, span, item[j], g) \in S
  <2>1. item[j] \in T /\ item[j] = ItemAt(s, j, span.kind)
    BY <1>4, <1>6
  <2>2. PICK r : r = ItemsOn(s, span, item[j], g)
    OBVIOUS
  <2>3. Failed \in S
    BY <1>5 DEF Failed
  <2>4. [ok |-> TRUE, items |-> <<item[j]>>] \in S
    BY <1>5, <2>1
  <2>5. ASSUME NEW m \in j + 1 .. Len(s),
               r = IF g[m + 1].ok
                   THEN [ok |-> TRUE, items |-> <<item[j]>> \o g[m + 1].items] ELSE Failed
        PROVE  r \in S
    <3>1. PICK n \in Nat : n = Len(s)
      BY LenIs
    <3>2. m + 1 \in j + 1 .. N
      BY <1>1, <3>1
    <3>3. g[m + 1] \in S
      BY <3>2
    <3>4. PICK rest : rest = g[m + 1].items
      OBVIOUS
    <3>5. rest \in Seq(T)
      BY <1>5, <3>3, <3>4
    <3>6. PICK q : q = <<item[j]>> \o rest
      OBVIOUS
    <3>7. q \in Seq(T)
      BY <2>1, <3>5, <3>6, PutIs
    <3>8. r = [ok |-> TRUE, items |-> q] \/ r = Failed
      BY <2>5, <3>4, <3>6
    <3>9. [ok |-> TRUE, items |-> q] \in S
      BY <1>5, <3>7
    <3> QED
      BY <2>3, <3>8, <3>9
  <2>6. PICK it : it = item[j]
    OBVIOUS
  <2>7. r = Failed \/ More(s, span, j, it, g, r) \/ Last(s, span, j, it, r)
    BY <1>1, <2>1, <2>2, <2>6, ItemsOnIs
  <2>8. More(s, span, j, it, g, r) => r \in S
    BY <2>5, <2>6 DEF More
  <2>9. Last(s, span, j, it, r) => r \in S
    BY <2>4, <2>6 DEF Last
  <2> QED
    BY <2>2, <2>3, <2>7, <2>8, <2>9
<1>9. \A j \in 1 .. N : step[j] \in [[Below(mu, j) -> S] -> S]
  <2> TAKE j \in 1 .. N
  <2>1. PICK B : B = j + 1 .. N
    OBVIOUS
  <2>2. \A g \in [B -> S] : ItemsOn(s, span, item[j], g) \in S
    BY <1>8, <2>1
  <2>3. step[j] \in [[B -> S] -> S]
    BY <1>7, <2>1, <2>2
  <2> QED
    BY <1>3, <2>1, <2>3
<1>10. PICK f \in [1 .. N -> S] : Recurs(f, mu, step)
  BY <1>3, <1>9, Recursion
<1>11. ASSUME NEW j \in 1 .. N
       PROVE  f[j] = ItemsOn(s, span, ItemAt(s, j, span.kind), f)
  <2>1. PICK r : r = [y \in j + 1 .. N |-> f[y]]
    OBVIOUS
  <2>2. f[j] = step[j][r]
    BY <1>3, <1>10, <2>1 DEF Recurs
  <2>3. r \in [j + 1 .. N -> S]
    BY <2>1
  <2>4. f[j] = ItemsOn(s, span, item[j], r)
    BY <1>7, <2>2, <2>3
  <2>5. SameBehind(s, j, r, f)
    BY <1>1, <2>1 DEF SameBehind
  <2>6. PICK it : it = ItemAt(s, j, span.kind)
    OBVIOUS
  <2>7. ItemsOn(s, span, it, r) = ItemsOn(s, span, it, f)
    BY <1>1, <2>5, <2>6, ItemsLocal
  <2>8. item[j] = it
    BY <1>6, <2>6
  <2> QED
    BY <2>4, <2>6, <2>7, <2>8
<1>12. f = [j \in 1 .. N |-> f[j]]
  OBVIOUS
<1>13. IsItems(f, s, span)
  BY <1>1, <1>11, <1>12 DEF IsItems
<1> QED
  BY <1>13 DEF ItemsFrom

\* What the items are that are found from i on: those of a level, one behind the other.
ItemsOf(s, span) ==
  {item \in {ItemAt(s, k, span.kind) : k \in 1 .. Len(s) + 1} : item.value.end # 0}
Chain(s, span, i, q) ==
  /\ q \in Seq(ItemsOf(s, span)) /\ Len(q) > 0
  /\ Blank(s, i, StartOf(span.kind, q[1])) /\ Blank(s, q[Len(q)].value.end, span.end - 1)
  /\ \A k \in 1 .. Len(q) :
       /\ Joined(s, span.kind, q[k])
       /\ k > 1 => Separated(s, q[k - 1].value.end, StartOf(span.kind, q[k]), Comma)

LEMMA ChainOne ==
  ASSUME NEW s, NEW span, NEW i, NEW item \in ItemsOf(s, span),
         Joined(s, span.kind, item), Blank(s, i, StartOf(span.kind, item)),
         Blank(s, item.value.end, span.end - 1)
  PROVE  Chain(s, span, i, <<item>>)
<1>1. PICK q : q = <<item>>
  OBVIOUS
<1>2. q \in Seq(ItemsOf(s, span)) /\ Len(q) = 1 /\ q[1] = item
  BY <1>1
<1>3. \A k \in 1 .. Len(q) : k = 1
  BY <1>2
<1> QED
  BY <1>1, <1>2, <1>3 DEF Chain

LEMMA ChainMore ==
  ASSUME NEW s, NEW span, NEW i, NEW item \in ItemsOf(s, span),
         Joined(s, span.kind, item), Blank(s, i, StartOf(span.kind, item)),
         NEW m \in Nat, item.value.end \in Nat, Blank(s, item.value.end, m), At(s, m) = Comma,
         NEW rest, Chain(s, span, m + 1, rest), StartOf(span.kind, rest[1]) \in Nat
  PROVE  Chain(s, span, i, <<item>> \o rest)
<1>1. PICK q : q = <<item>> \o rest
  OBVIOUS
<1>2. PICK n \in Nat : n = Len(rest)
  BY LenProperties DEF Chain
<1>3. /\ q \in Seq(ItemsOf(s, span)) /\ Len(q) = n + 1 /\ q[1] = item
      /\ \A k \in 2 .. n + 1 : q[k] = rest[k - 1]
  <2>1. rest \in Seq(ItemsOf(s, span))
    BY DEF Chain
  <2> QED
    BY <1>1, <1>2, <2>1, PutIs
<1>4. n > 0
  BY <1>2 DEF Chain
<1>5. q[n + 1] = rest[n]
  BY <1>3, <1>4
<1>6. Blank(s, q[n + 1].value.end, span.end - 1)
  BY <1>2, <1>5 DEF Chain
<1>7. ASSUME NEW k \in 1 .. n + 1
      PROVE  Joined(s, span.kind, q[k])
  <2>1. CASE k = 1
    BY <1>3, <2>1
  <2>2. CASE k # 1
    <3>1. PICK h \in 1 .. n : h = k - 1
      BY <2>2
    <3>2. q[k] = rest[h]
      BY <1>3, <2>2, <3>1
    <3> QED
      BY <1>2, <3>1, <3>2 DEF Chain
  <2> QED
    BY <2>1, <2>2
<1>8. ASSUME NEW k \in 1 .. n + 1, k > 1
      PROVE  Separated(s, q[k - 1].value.end, StartOf(span.kind, q[k]), Comma)
  <2>1. CASE k = 2
    <3>1. q[k - 1] = item /\ q[k] = rest[1]
      BY <1>3, <2>1
    <3>2. PICK b \in Nat : b = StartOf(span.kind, rest[1])
      OBVIOUS
    <3>3. Blank(s, m + 1, b)
      BY <3>2 DEF Chain
    <3>4. PICK a \in Nat : a = item.value.end
      OBVIOUS
    <3>5. m \in a .. b - 1
      BY <3>3, <3>4 DEF Blank
    <3>6. Separated(s, a, b, Comma)
      BY <3>3, <3>4, <3>5 DEF Separated
    <3> QED
      BY <3>1, <3>2, <3>4, <3>6
  <2>2. CASE k > 2
    <3>1. PICK h \in 2 .. n : h = k - 1
      BY <2>2
    <3>2. q[k] = rest[h] /\ q[k - 1] = rest[h - 1]
      BY <1>3, <2>2, <3>1
    <3> QED
      BY <1>2, <3>1, <3>2 DEF Chain
  <2> QED
    BY <1>8, <2>1, <2>2
<1> QED
  BY <1>1, <1>3, <1>4, <1>6, <1>7, <1>8 DEF Chain

LEMMA ItemOfLevel ==
  ASSUME NEW s \in Text, NEW span, span.kind \in {"object", "array"},
         NEW item \in ItemsOf(s, span)
  PROVE  StartOf(span.kind, item) \in 1 .. Len(s) /\ item.value.end \in 1 .. Len(s) + 1
<1>1. PICK k \in 1 .. Len(s) + 1 : item = ItemAt(s, k, span.kind)
  BY DEF ItemsOf
<1>2. item.value.end # 0
  BY DEF ItemsOf
<1>3. StartOf(span.kind, item) \in 1 .. Len(s) /\ item.value.end \in k + 1 .. Len(s) + 1
  BY <1>1, <1>2, ItemIs
<1>4. PICK n \in Nat : n = Len(s)
  BY LenIs
<1>5. k + 1 .. n + 1 \subseteq 1 .. n + 1
  BY <1>4
<1> QED
  BY <1>3, <1>4, <1>5

\* What is found from i on is a chain.
LEMMA ItemsChain ==
  ASSUME NEW s \in Text, NEW span, span.end \in Nat, span.kind \in {"object", "array"},
         NEW i \in 1 .. Len(s) + 1, ItemsFrom(s, span)[i].ok
  PROVE  Chain(s, span, i, ItemsFrom(s, span)[i].items)
<1>1. PICK n \in Nat : n = Len(s)
  BY LenIs
<1>2. PICK f : f = ItemsFrom(s, span)
  OBVIOUS
<1>3. ASSUME NEW k \in 1 .. n + 1 PROVE f[k] = ItemsOn(s, span, ItemAt(s, k, span.kind), f)
  BY <1>1, <1>2, ItemsExist DEF IsItems
<1> DEFINE Good == {k \in 1 .. n + 1 : f[k].ok => Chain(s, span, k, f[k].items)}
<1>4. ASSUME NEW k \in 1 .. n + 1, \A j \in k + 1 .. n + 1 : j \in Good
      PROVE  k \in Good
  <2> SUFFICES ASSUME f[k].ok PROVE Chain(s, span, k, f[k].items)
    OBVIOUS
  <2>1. PICK item : item = ItemAt(s, k, span.kind)
    OBVIOUS
  <2>2. PICK r : r = f[k]
    OBVIOUS
  <2>3. r = Failed \/ More(s, span, k, item, f, r) \/ Last(s, span, k, item, r)
    <3>1. r = ItemsOn(s, span, item, f)
      BY <1>3, <2>1, <2>2
    <3> QED
      BY <1>1, <2>1, <3>1, ItemsOnIs
  <2>4. r.ok /\ Failed.ok = FALSE
    BY <2>2 DEF Failed
  <2>5. item.value.end # 0
    BY <2>3, <2>4 DEF More, Last
  <2>6. /\ Joined(s, span.kind, item) /\ Blank(s, k, StartOf(span.kind, item))
        /\ item.value.end \in k + 1 .. n + 1
    BY <1>1, <2>1, <2>5, ItemIs
  <2>7. item \in ItemsOf(s, span)
    BY <1>1, <2>1, <2>5 DEF ItemsOf
  <2>8. item.value.end \in Nat
    BY <2>6
  <2>9. CASE Last(s, span, k, item, r)
    <3>1. PICK m \in k + 1 .. n :
            /\ Blank(s, item.value.end, m) /\ m + 1 = span.end
            /\ r = [ok |-> TRUE, items |-> <<item>>]
      BY <1>1, <2>9 DEF Last
    <3>2. span.end - 1 = m
      BY <3>1
    <3>3. Chain(s, span, k, <<item>>)
      BY <2>6, <2>7, <3>1, <3>2, ChainOne
    <3> QED
      BY <2>2, <3>1, <3>3
  <2>10. CASE More(s, span, k, item, f, r)
    <3>1. PICK m \in k + 1 .. n :
            /\ Blank(s, item.value.end, m) /\ At(s, m) = Comma
            /\ r = IF f[m + 1].ok
                   THEN [ok |-> TRUE, items |-> <<item>> \o f[m + 1].items] ELSE Failed
      BY <1>1, <2>10 DEF More
    <3>2. m + 1 \in k + 1 .. n + 1 /\ m \in Nat /\ m + 1 \in 1 .. n + 1
      OBVIOUS
    <3>3. f[m + 1].ok
      BY <2>4, <3>1
    <3>4. PICK rest : rest = f[m + 1].items
      OBVIOUS
    <3>5. Chain(s, span, m + 1, rest)
      BY <1>4, <3>2, <3>3, <3>4
    <3>6. rest[1] \in ItemsOf(s, span)
      BY <3>5, ElementOfSeq DEF Chain
    <3>7. StartOf(span.kind, rest[1]) \in Nat
      BY <1>1, <3>6, ItemOfLevel
    <3>8. Chain(s, span, k, <<item>> \o rest)
      BY <2>6, <2>7, <2>8, <3>1, <3>2, <3>5, <3>7, ChainMore
    <3>9. r.items = <<item>> \o rest
      BY <3>1, <3>3, <3>4
    <3> QED
      BY <2>2, <3>8, <3>9
  <2> QED
    BY <2>3, <2>4, <2>9, <2>10
<1>5. \A k \in 1 .. n + 1 : k \in Good
  <2>1. n + 1 \in Nat
    OBVIOUS
  <2> HIDE DEF Good
  <2> QED
    BY <1>4, <2>1, DownFrom
<1> QED
  BY <1>1, <1>2, <1>5

-----------------------------------------------------------------------------
(* Levels *)

\* What is between one place and another does not change how deep it is.
Passes(f, i, j, c) == f[i][c] = f[j][c]

LEMMA BlankPasses ==
  ASSUME NEW s \in Text, NEW close, NEW c \in 1 .. MaxDepth,
         NEW i \in 1 .. Len(s) + 1, NEW j \in 1 .. Len(s) + 1, Blank(s, i, j)
  PROVE  Depths(s, close)[i][c] = Depths(s, close)[j][c]
<1>1. PICK n \in Nat : n = Len(s)
  BY LenIs
<1>2. PICK f : f = Depths(s, close)
  OBVIOUS
<1>3. i \in 1 .. n + 1 /\ j \in 1 .. n + 1 /\ i <= j /\ \A k \in i .. j - 1 : At(s, k) = Space
  BY <1>1 DEF Blank
<1> DEFINE Good == {d \in Nat : f[i + d][c] = f[i][c]}
<1>4. ASSUME NEW d \in 0 .. (j - i) - 1, d \in Good PROVE d + 1 \in Good
  <2>1. PICK k : k = i + d
    OBVIOUS
  <2>2. k \in i .. j - 1 /\ k \in 1 .. n + 1 /\ k + 1 = i + (d + 1)
    BY <1>3, <2>1
  <2>3. At(s, k) = Space
    BY <1>3, <2>2
  <2>4. f[k][c] = Deeper(s, close, f, k, c)
    BY <1>1, <1>2, <2>2, DepthsIs
  <2>5. f[k][c] = f[k + 1][c]
    BY <2>3, <2>4, BracketsDiffer DEF Deeper
  <2>6. f[k][c] = f[i][c]
    BY <1>4, <2>1
  <2>7. f[i + (d + 1)][c] = f[i][c]
    BY <2>2, <2>5, <2>6
  <2> QED
    BY <2>7
<1>5. 0 \in Good
  BY <1>3
<1>6. j - i \in 0 .. (j - i) /\ j - i \in Nat
  BY <1>3
<1>7. j - i \in Good
  <2> HIDE DEF Good
  <2> QED
    BY <1>4, <1>5, <1>6, UpTo
<1>8. i + (j - i) = j
  BY <1>3
<1>9. f[i + (j - i)][c] = f[i][c]
  BY <1>7
<1> QED
  BY <1>2, <1>8, <1>9

\* A level without items ends where its bracket is.
LEMMA EmptyLevel ==
  ASSUME NEW s \in Text, NEW i \in 1 .. Len(s), NEW j \in 1 .. Len(s) + 1,
         Blank(s, i + 1, j), At(s, j) = CloseOf(s, i)
  PROVE  ScanContainer(s, i) = j + 1
<1>1. PICK n \in Nat : n = Len(s)
  BY LenIs
<1>2. PICK f : f = Depths(s, CloseOf(s, i))
  OBVIOUS
<1>3. 1 \in 1 .. MaxDepth
  BY DepthAssumption
<1>4. PICK k \in 1 .. n + 1 : k = i + 1
  BY <1>1
<1>5. f[k][1] = f[j][1]
  BY <1>1, <1>2, <1>3, <1>4, BlankPasses
<1>6. f[j][1] = Deeper(s, CloseOf(s, i), f, j, 1)
  BY <1>2, <1>3, DepthsIs
<1>7. CloseOf(s, i) \in Closes
  BY DEF CloseOf, Closes
<1>8. f[j][1] = j + 1
  BY <1>6, <1>7, BracketsDiffer DEF Deeper
<1> QED
  BY <1>2, <1>4, <1>5, <1>8, ScanContainerIs

\* A container is found where its bracket is.
LEMMA ContainerIs ==
  ASSUME NEW s \in Text, NEW pos \in 1 .. Len(s) + 1, NEW v, v = ScanValue(s, pos),
         v.kind \in {"object", "array"}
  PROVE  /\ v.start \in 1 .. Len(s) /\ v.end = ScanContainer(s, v.start)
         /\ v.kind = "object" => At(s, v.start) = Open
         /\ v.kind = "array" => At(s, v.start) = "["
<1>1. PICK i : i = SkipWs(s, pos)
  OBVIOUS
<1>2. CASE At(s, i) = Quote
  <2>1. v = Found(s, i, ScanString(s, i), "string")
    BY <1>1, <1>2, ScanValueIs
  <2> QED
    BY <2>1 DEF Found
<1>3. CASE At(s, i) \in {"t", "n"}
  <2>1. v = Found(s, i, ScanLiteral(s, i), "literal")
    BY <1>1, <1>3, ScanValueIs
  <2> QED
    BY <2>1 DEF Found
<1>4. CASE At(s, i) \in {"-"} \cup DigitChar
  <2>1. v = Found(s, i, ScanNumber(s, i), "number")
    BY <1>1, <1>4, ScanValueIs
  <2> QED
    BY <2>1 DEF Found
<1>5. CASE At(s, i) \notin {Quote} \cup Opens \cup {"t", "n", "-"} \cup DigitChar
  <2>1. v = Found(s, i, 0, "none")
    BY <1>1, <1>5, ScanValueIs
  <2> QED
    BY <2>1 DEF Found
<1>6. CASE At(s, i) = Open
  <2>1. v = Found(s, i, ScanContainer(s, i), "object")
    BY <1>1, <1>6, ScanValueIs
  <2>2. v.start = i /\ v.end = ScanContainer(s, i) /\ v.kind = "object"
    BY <2>1 DEF Found
  <2>3. i \in 1 .. Len(s)
    BY <1>6, AtInside, KindsDiffer DEF Opens
  <2> QED
    BY <1>6, <2>2, <2>3
<1>7. CASE At(s, i) = "["
  <2>1. v = Found(s, i, ScanContainer(s, i), "array")
    BY <1>1, <1>7, ScanValueIs
  <2>2. v.start = i /\ v.end = ScanContainer(s, i) /\ v.kind = "array"
    BY <2>1 DEF Found
  <2>3. i \in 1 .. Len(s)
    BY <1>7, AtInside, KindsDiffer DEF Opens
  <2> QED
    BY <1>7, <2>2, <2>3
<1> QED
  BY <1>2, <1>3, <1>4, <1>5, <1>6, <1>7 DEF Opens

\* Where a level can be walked its spans tile it.
LEMMA LevelTiled ==
  ASSUME NEW s \in Text, NEW pos \in 1 .. Len(s) + 1, NEW v, v = ScanValue(s, pos),
         v.end # 0, v.kind \in {"object", "array"}, NEW level, level = Items(s, v), level.ok
  PROVE  Tiled(s, v, level.items)
<1>1. PICK n \in Nat : n = Len(s)
  BY LenIs
<1>2. v.start \in 1 .. n /\ v.end \in v.start + 1 .. n + 1 /\ v.end \in Nat
  <2>1. v.start \in 1 .. n /\ v.end \in v.start + 1 .. n + 1
    BY <1>1, ScanValueRange
  <2> QED
    BY <2>1
<1>3. PICK j \in 1 .. n + 1 : j = v.start + 1
  BY <1>2
<1>4. PICK first : first = SkipWs(s, j)
  OBVIOUS
<1>5. first \in j .. n + 1 /\ Blank(s, j, first)
  BY <1>1, <1>4, SkipIs
<1>6. level = IF first < v.end /\ At(s, first) = CloseOf(s, v.start)
              THEN [ok |-> TRUE, items |-> <<>>] ELSE ItemsFrom(s, v)[first]
  BY <1>3, <1>4, ItemsIs
<1>7. first \in 1 .. n + 1
  BY <1>3, <1>5
<1>8. CASE first < v.end /\ At(s, first) = CloseOf(s, v.start)
  <2>1. v.end = first + 1
    BY <1>1, <1>2, <1>3, <1>5, <1>7, <1>8, EmptyLevel, ContainerIs
  <2>2. Blank(s, v.start + 1, v.end - 1)
    BY <1>3, <1>5, <1>7, <2>1
  <2>3. PICK q : q = level.items
    OBVIOUS
  <2>4. q = <<>> /\ DOMAIN q = {}
    BY <1>6, <1>8, <2>3
  <2> QED
    BY <2>2, <2>3, <2>4 DEF Tiled
<1>9. CASE ~ (first < v.end /\ At(s, first) = CloseOf(s, v.start))
  <2>1. level = ItemsFrom(s, v)[first]
    BY <1>6, <1>9
  <2>2. PICK q : q = level.items
    OBVIOUS
  <2>3. Chain(s, v, first, q)
    BY <1>1, <1>2, <1>7, <2>1, <2>2, ItemsChain
  <2>4. q \in Seq(ItemsOf(s, v)) /\ Len(q) > 0 /\ DOMAIN q = 1 .. Len(q) /\ q # <<>>
    <3>1. q \in Seq(ItemsOf(s, v)) /\ Len(q) > 0
      BY <2>3 DEF Chain
    <3> QED
      BY <3>1, LenProperties
  <2>5. Blank(s, v.start + 1, StartOf(v.kind, q[1]))
    <3>1. q[1] \in ItemsOf(s, v)
      BY <2>4, ElementOfSeq
    <3>2. PICK b \in Nat : b = StartOf(v.kind, q[1])
      BY <1>1, <3>1, ItemOfLevel
    <3>3. Blank(s, first, b)
      BY <2>3, <3>2 DEF Chain
    <3>4. Blank(s, j, b)
      BY <1>5, <1>7, <3>3, BlankJoins
    <3> QED
      BY <1>3, <3>2, <3>4
  <2>6. Blank(s, q[Len(q)].value.end, v.end - 1)
    BY <2>3 DEF Chain
  <2>7. ASSUME NEW k \in DOMAIN q
        PROVE  /\ Joined(s, v.kind, q[k])
               /\ k > 1 => Separated(s, q[k - 1].value.end, StartOf(v.kind, q[k]), Comma)
    BY <2>3, <2>4 DEF Chain
  <2> QED
    BY <2>2, <2>4, <2>5, <2>6, <2>7 DEF Tiled, StartOf, Joined
<1> QED
  BY <1>8, <1>9

-----------------------------------------------------------------------------
(* The body and its edits *)

BodyIs == text \in Text /\ edits \in Nat

LEMMA EditKeeps ==
  ASSUME BodyIs, Edit
  PROVE  BodyIs'
<1> USE DEF Text
<1>1. edits' \in Nat /\ text \in Seq(Alphabet)
  BY DEF Edit, BodyIs
<1>2. PICK i \in DOMAIN text :
        \/ \E c \in Alphabet : Replace(i, c) \/ Insert(i, c)
        \/ Drop(i, 1) \/ Drop(i, Len(text))
  BY DEF Edit
<1>3. PICK n \in Nat : n = Len(text) /\ DOMAIN text = 1 .. n
  BY <1>1, LenProperties
<1>4. ASSUME NEW c \in Alphabet, Replace(i, c) PROVE text' \in Seq(Alphabet)
  BY <1>1, <1>4, ExceptSeq DEF Replace
<1>5. ASSUME NEW a \in 1 .. n + 1, NEW b \in 0 .. n PROVE SubSeq(text, a, b) \in Seq(Alphabet)
  BY <1>1, <1>3, SubSeqProperties
<1>6. /\ 1 \in 1 .. n + 1 /\ i - 1 \in 0 .. n /\ i \in 1 .. n + 1 /\ n \in 0 .. n
  BY <1>3
<1>7. SubSeq(text, 1, i - 1) \in Seq(Alphabet) /\ SubSeq(text, i, n) \in Seq(Alphabet)
  BY <1>5, <1>6
<1>8. ASSUME NEW c \in Alphabet, Insert(i, c) PROVE text' \in Seq(Alphabet)
  <2>1. PICK a, b : a = SubSeq(text, 1, i - 1) /\ b = SubSeq(text, i, Len(text))
    OBVIOUS
  <2>2. a \in Seq(Alphabet) /\ b \in Seq(Alphabet)
    BY <1>3, <1>7, <2>1
  <2>3. text' = a \o <<c>> \o b
    BY <1>8, <2>1 DEF Insert
  <2> QED
    BY <2>2, <2>3
<1>9. ASSUME NEW k \in Nat, Drop(i, k) PROVE text' \in Seq(Alphabet)
  <2>1. PICK a, b : a = SubSeq(text, 1, i - 1) /\ b = SubSeq(text, i + k, Len(text))
    OBVIOUS
  <2>2. a \in Seq(Alphabet)
    BY <1>3, <1>7, <2>1
  <2>3. b \in Seq(Alphabet)
    BY <1>1, <1>3, <2>1, SubSeqProperties
  <2>4. text' = a \o b
    BY <1>9, <2>1 DEF Drop
  <2> QED
    BY <2>2, <2>3, <2>4
<1>10. text' \in Seq(Alphabet)
  BY <1>2, <1>3, <1>4, <1>8, <1>9
<1> QED
  BY <1>1, <1>10 DEF BodyIs

\* Whatever a client writes and however it is edited: the body is a text.
LEMMA Bodies == ScanSpec => []BodyIs
<1>1. ScanInit => BodyIs
  BY DocumentAssumption DEF ScanInit, BodyIs, Text
<1>2. BodyIs /\ [Edit]_scanner => BodyIs'
  BY EditKeeps DEF BodyIs, scanner
<1> QED
  BY <1>1, <1>2, PTL DEF ScanSpec

\* For every body, however deep a document may be: where a container can be walked the
\* spans that the splitter cuts at tile it.
THEOREM SpansTileAlways == ScanSpec => []SpansTile
<1>1. BodyIs => SpansTile
  <2> SUFFICES ASSUME BodyIs, NEW i \in DOMAIN text, NEW v, v = ScanValue(text, i),
                      NEW level, level = Items(text, v),
                      v.end # 0, v.kind \in {"object", "array"}, level.ok
               PROVE  Tiled(text, v, level.items)
    BY DEF SpansTile
  <2>1. text \in Text
    BY DEF BodyIs
  <2>2. PICK n \in Nat : n = Len(text) /\ DOMAIN text = 1 .. n
    BY <2>1, AtIs
  <2>3. i \in 1 .. Len(text) + 1
    BY <2>2
  <2> QED
    BY <2>1, <2>3, LevelTiled
<1> QED
  BY <1>1, Bodies, PTL
=============================================================================
