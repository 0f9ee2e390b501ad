------------------------------- MODULE Scanner -------------------------------
(***************************************************************************)
(* The span scanner (muka-split, json.rs): where the values of a body      *)
(* begin and end, without parsing what is inside a container until it is   *)
(* walked.  A body comes from outside, so it may be any bytes: a document  *)
(* that a client has written, and a few edits of it.                       *)
(*                                                                         *)
(* A character stands for the bytes that are treated alike: "1" is a digit *)
(* but zero, "^" a control byte, "a" any other; the four digits after \u   *)
(* are one character, "hi" and "lo" the halves of a surrogate pair and     *)
(* "61" the code of "a"; a literal has two letters.  Positions count from  *)
(* one, ends are exclusive, and 0 is the end of what does not scan.        *)
(***************************************************************************)
EXTENDS Naturals, Sequences, FiniteSetsExt

CONSTANTS
  Documents,  \* the bodies that edits start from, each with how many edits (a bound)
  Alphabet,   \* the characters an edit may put in
  MaxDepth    \* MAX_DEPTH

ASSUME DepthAssumption == MaxDepth \in Nat \ {0}

\* "eof" is no character: it stands for what follows the last one.
ASSUME DocumentAssumption ==
  /\ "eof" \notin Alphabet
  /\ \A d \in Documents : d.text \in Seq(Alphabet) /\ d.edits \in Nat

VARIABLES
  text,   \* the body
  edits   \* the edits it may still get

scanner == <<text, edits>>

Quote == "\""
Space == " "
Comma == ","
Open  == "{"
Close == "}"
Back  == "\\"
Codes == {"hi", "lo", "61"}
Escapes  == {Quote, Back, "n"}
Literals == {<<"t", "u">>, <<"n", "l">>}
Nonzero   == {"1"}
DigitChar == {"0"} \cup Nonzero

At(s, i) == IF i \in DOMAIN s THEN s[i] ELSE "eof"

\* The first position from i on whose character is not in the set.
Past(s, i, set) == Min({j \in i .. Len(s) + 1 : At(s, j) \notin set})
\* Mutant: commas are blanks too.
SkipWsCommas(s, i) == Past(s, i, {Space, Comma})
SkipWs(s, i)       == Past(s, i, {Space})

-----------------------------------------------------------------------------
(* Extents: the end of what begins at i                                     *)

\* How far one character of a string reaches, escape included.
UnitLen(s, i) ==
  CASE At(s, i) = Back /\ At(s, i + 1) \in Escapes -> 2
    [] At(s, i) = Back /\ At(s, i + 1) = "u" /\ At(s, i + 2) \in Codes -> 3
    [] At(s, i) \notin {Back, "eof", "^"} -> 1
    [] OTHER -> 0

ScanString(s, i) ==
  LET End[j \in 1 .. Len(s) + 1] ==
        CASE At(s, j) = Quote -> j + 1
          [] At(s, j) # Quote /\ UnitLen(s, j) = 0 -> 0
          [] OTHER -> End[j + UnitLen(s, j)]
  IN  IF At(s, i) = Quote THEN End[i + 1] ELSE 0

\* Mutant: no digits at all will do.
DigitsOrNone(s, i) == Past(s, i, DigitChar)
Digits(s, i) == IF Past(s, i, DigitChar) = i THEN 0 ELSE Past(s, i, DigitChar)

Integer(s, i) ==
  CASE At(s, i) = "0" -> i + 1
    [] At(s, i) \in Nonzero -> Digits(s, i)
    [] OTHER -> 0
Fraction(s, i) == IF At(s, i) = "." THEN Digits(s, i + 1) ELSE i
Exponent(s, i) ==
  LET sign == IF At(s, i + 1) \in {"+", "-"} THEN 1 ELSE 0
  IN  IF At(s, i) = "e" THEN Digits(s, i + 1 + sign) ELSE i

ScanNumber(s, i) ==
  Exponent(s, Fraction(s, Integer(s, IF At(s, i) = "-" THEN i + 1 ELSE i)))

ScanLiteral(s, i) ==
  IF \E lit \in Literals : At(s, i) = lit[1] /\ At(s, i + 1) = lit[2] THEN i + 2 ELSE 0

CloseOf(s, i) == IF At(s, i) = Open THEN Close ELSE "]"

\* Brackets are counted, not matched: only the last one has to be the right one.
ScanContainer(s, i) ==
  LET End[j \in 1 .. Len(s) + 1] == [depth \in 1 .. MaxDepth |->
        CASE At(s, j) = Quote ->
               IF ScanString(s, j) = 0 THEN 0 ELSE End[ScanString(s, j)][depth]
          [] At(s, j) \in {Open, "["} ->
               IF depth = MaxDepth THEN 0 ELSE End[j + 1][depth + 1]
          [] At(s, j) \in {Close, "]"} ->
               IF depth > 1 THEN End[j + 1][depth - 1]
               ELSE IF At(s, j) = CloseOf(s, i) THEN j + 1 ELSE 0
          [] At(s, j) = "eof" -> 0
          [] OTHER -> End[j + 1][depth]]
  IN  End[i + 1][1]

ScanValue(s, pos) ==
  LET i == SkipWs(s, pos)
      Found(end, kind) == [start |-> i, end |-> end, kind |-> kind]
  IN  CASE At(s, i) = Quote -> Found(ScanString(s, i), "string")
        [] At(s, i) = Open -> Found(ScanContainer(s, i), "object")
        [] At(s, i) = "[" -> Found(ScanContainer(s, i), "array")
        [] At(s, i) \in {"t", "n"} -> Found(ScanLiteral(s, i), "literal")
        [] At(s, i) \in {"-"} \cup DigitChar -> Found(ScanNumber(s, i), "number")
        [] OTHER -> Found(0, "none")

-----------------------------------------------------------------------------
(* Walking one level                                                        *)

Failed == [ok |-> FALSE, items |-> <<>>]

\* A string can be decoded: a surrogate needs its other half.
Decodes(s, start, end) ==
  LET From[i \in 1 .. Len(s) + 6] ==
        CASE i >= end - 1 -> TRUE
          [] i < end - 1 /\ At(s, i) # Back -> From[i + 1]
          [] i < end - 1 /\ At(s, i) = Back /\ At(s, i + 1) # "u" -> From[i + 2]
          [] OTHER -> \/ At(s, i + 2) = "61" /\ From[i + 3]
                      \/ /\ At(s, i + 2) = "hi" /\ i + 6 < end
                         /\ At(s, i + 3) = Back /\ At(s, i + 4) = "u" /\ At(s, i + 5) = "lo"
                         /\ From[i + 6]
  IN  From[start + 1]

\* A value of an array; a key, a colon and a value of an object.
Element(v) == [key |-> 0, keyEnd |-> 0, value |-> v]
NoItem     == Element([start |-> 0, end |-> 0, kind |-> "none"])

Member(s, key, end, colon) ==
  IF end # 0 /\ Decodes(s, key, end) /\ At(s, colon) = ":"
  THEN [key |-> key, keyEnd |-> end, value |-> ScanValue(s, colon + 1)] ELSE NoItem

ItemAt(s, i, kind) ==
  LET Ended(key, end) == Member(s, key, end, SkipWs(s, end))
      Keyed(key)      == Ended(key, ScanString(s, key))
  IN  IF kind = "array" THEN Element(ScanValue(s, i)) ELSE Keyed(SkipWs(s, i))

\* An item, and those after it if a comma says that there are more.
ItemsOn(s, span, item, From) ==
  LET next == SkipWs(s, item.value.end)
      rest == From[next + 1]
  IN  CASE item.value.end = 0 \/ item.value.end > span.end -> Failed
        [] item.value.end \in 1 .. span.end /\ At(s, next) = Comma ->
             IF rest.ok THEN [ok |-> TRUE, items |-> <<item>> \o rest.items] ELSE Failed
        [] item.value.end \in 1 .. span.end /\ At(s, next) = CloseOf(s, span.start)
             /\ next + 1 = span.end -> [ok |-> TRUE, items |-> <<item>>]
        [] OTHER -> Failed

\* members_of_object and elements_of_array.
Items(s, span) ==
  LET From[i \in 1 .. Len(s) + 1] == ItemsOn(s, span, ItemAt(s, i, span.kind), From)
      first == SkipWs(s, span.start + 1)
  IN  IF first < span.end /\ At(s, first) = CloseOf(s, span.start)
      THEN [ok |-> TRUE, items |-> <<>>] ELSE From[first]

\* One object and nothing but blanks around it.
Alone(s, v) ==
  IF v.end # 0 /\ SkipWs(s, v.end) = Len(s) + 1 /\ v.kind = "object"
  THEN v ELSE [v EXCEPT !.end = 0]
ScanDocument(s) == Alone(s, ScanValue(s, 1))

\* validate; it may go down so many levels more, this one included.
Valid(s, span) ==
  LET Sound[left \in 0 .. MaxDepth + 1] == [at \in 1 .. Len(s) |->
        LET Each(r)   == r.ok /\ \A k \in DOMAIN r.items : Sound[left - 1][r.items[k].value.start]
            Decent(v) == /\ v.kind \in {"object", "array"} => Each(Items(s, v))
                         /\ v.kind = "string" => Decodes(s, v.start, v.end)
        IN  left > 0 /\ Decent(ScanValue(s, at))]
  IN  Sound[MaxDepth + 1][span.start]

StrictDocument(s) == ScanDocument(s).end # 0 /\ Valid(s, ScanDocument(s))

-----------------------------------------------------------------------------
ScanInit == \E d \in Documents : text = d.text /\ edits = d.edits

Replace(i, c) == text' = [text EXCEPT ![i] = c]
Insert(i, c)  == text' = SubSeq(text, 1, i - 1) \o <<c>> \o SubSeq(text, i, Len(text))
Drop(i, n)    == text' = SubSeq(text, 1, i - 1) \o SubSeq(text, i + n, Len(text))

\* The client that wrote the body is another one, or a faulty one.
Edit ==
  /\ edits > 0 /\ edits' = edits - 1
  /\ \E i \in DOMAIN text :
       \/ \E c \in Alphabet : Replace(i, c) \/ Insert(i, c)
       \/ Drop(i, 1)
       \/ Drop(i, Len(text))

ScanSpec == ScanInit /\ [][Edit]_scanner

-----------------------------------------------------------------------------
(* JSON, as its grammar has it: from where to where, the end exclusive      *)

Spans(s) == {p \in {<<i, e>> : i, e \in 1 .. Len(s) + 1} : p[1] <= p[2]}

Blank(s, i, e) == i <= e /\ \A k \in i .. e - 1 : At(s, k) = Space

AllDigits(s, i, e) == i < e /\ \A k \in i .. e - 1 : At(s, k) \in DigitChar

\* Sign, integer, fraction and exponent end before a, b, c and e.
JsonNumber(s, i, e) ==
  \E a \in {i, i + 1} :
    /\ a = i \/ At(s, i) = "-"
    /\ \E b \in a + 1 .. e :
         /\ AllDigits(s, a, b) /\ (At(s, a) = "0" => b = a + 1)
         /\ \E c \in b .. e :
              /\ c = b \/ (At(s, b) = "." /\ AllDigits(s, b + 1, c))
              /\ \/ c = e
                 \/ /\ At(s, c) = "e"
                    /\ \/ AllDigits(s, c + 1, e)
                       \/ At(s, c + 1) \in {"+", "-"} /\ AllDigits(s, c + 2, e)

\* How long what stands for one character of a string may be.
Units(s, k) == {n \in {1, 2, 3, 6} :
  \/ n = 1 /\ At(s, k) \notin {Quote, Back, "^", "eof"}
  \/ n = 2 /\ At(s, k) = Back /\ At(s, k + 1) \in Escapes
  \/ n = 3 /\ At(s, k) = Back /\ At(s, k + 1) = "u" /\ At(s, k + 2) = "61"
  \/ /\ n = 6 /\ At(s, k) = Back /\ At(s, k + 1) = "u" /\ At(s, k + 2) = "hi"
     /\ At(s, k + 3) = Back /\ At(s, k + 4) = "u" /\ At(s, k + 5) = "lo"}

JsonString(s, i, e) ==
  LET Cut[k \in 1 .. Len(s) + 1] ==
        k = e - 1 \/ \E n \in Units(s, k) : k + n < e /\ Cut[k + n]
  IN  i + 2 <= e /\ At(s, i) = Quote /\ At(s, e - 1) = Quote /\ Cut[i + 1]

JsonLiteral(s, i, e) ==
  e = i + 2 /\ \E lit \in Literals : At(s, i) = lit[1] /\ At(s, i + 1) = lit[2]

Strings(s) == {p \in Spans(s) : JsonString(s, p[1], p[2])}
Scalars(s) ==
  Strings(s) \cup {p \in Spans(s) : JsonNumber(s, p[1], p[2]) \/ JsonLiteral(s, p[1], p[2])}

\* Values with blanks around them; keys, colons and such values.
Padded(s, values) == {p \in Spans(s) :
  \E v \in values : Blank(s, p[1], v[1]) /\ Blank(s, v[2], p[2])}
Members(s, keys, values) == {p \in Spans(s) :
  \E k \in keys : /\ Blank(s, p[1], k[1])
                  /\ \E c \in k[2] .. p[2] : /\ Blank(s, k[2], c) /\ At(s, c) = ":"
                                             /\ <<c + 1, p[2]>> \in values}

\* One part or more, with commas between them.
Listed(s, parts, i, e) ==
  LET From[k \in 1 .. Len(s) + 1] ==
        \/ <<k, e>> \in parts
        \/ \E m \in k .. e - 1 : At(s, m) = Comma /\ <<k, m>> \in parts /\ From[m + 1]
  IN  From[i]

Within(s, open, close, parts, i, e) ==
  /\ i + 2 <= e /\ At(s, i) = open /\ At(s, e - 1) = close
  /\ Blank(s, i + 1, e - 1) \/ Listed(s, parts, i + 1, e - 1)

\* One level more.
Holding(s, keys, values) ==
  LET padded  == Padded(s, values)
      members == Members(s, keys, padded)
  IN  {p \in Spans(s) : \/ Within(s, "[", "]", padded, p[1], p[2])
                        \/ Within(s, Open, Close, members, p[1], p[2])}

\* Where values are that are nested at most so deep.
Values(s) ==
  LET scalars == Scalars(s)
      keys    == Strings(s)
      Of[depth \in 0 .. MaxDepth] ==
        scalars \cup (IF depth = 0 THEN {} ELSE Holding(s, keys, Of[depth - 1]))
  IN  Of

IsJsonObject(s) ==
  \E v \in Values(s)[MaxDepth] :
    At(s, v[1]) = Open /\ Blank(s, 1, v[1]) /\ Blank(s, v[2], Len(s) + 1)

\* The full walk accepts exactly the JSON objects that are not nested too deep,
\* although extents are found by counting brackets (json.rs, strict_document).
StrictIsJson == StrictDocument(text) <=> IsJsonObject(text)

-----------------------------------------------------------------------------
(* Where the splitter cuts                                                  *)

Separated(s, i, e, c) == \E m \in i .. e - 1 : Blank(s, i, m) /\ At(s, m) = c /\ Blank(s, m + 1, e)

\* Spans of the level v follow one another, and with the blanks, colons and commas
\* between them are all of it.
Tiled(s, v, items) ==
  LET Start(item) == IF v.kind = "object" THEN item.key ELSE item.value.start
  IN  /\ items = <<>> => Blank(s, v.start + 1, v.end - 1)
      /\ items # <<>> => /\ Blank(s, v.start + 1, Start(items[1]))
                         /\ Blank(s, items[Len(items)].value.end, v.end - 1)
      /\ \A k \in DOMAIN items :
           /\ items[k].value.start < items[k].value.end
           /\ v.kind = "object" =>
                /\ items[k].key < items[k].keyEnd
                /\ Separated(s, items[k].keyEnd, items[k].value.start, ":")
           /\ k > 1 => Separated(s, items[k - 1].value.end, Start(items[k]), Comma)

\* Whatever the body holds, where a container can be walked its spans and the blanks,
\* colons and commas between them are all there is: no byte is skipped, none is
\* in two spans (json.rs; the splitter cuts a body at these spans).
SpansTile ==
  \A i \in DOMAIN text :
    LET v == ScanValue(text, i)
        level == Items(text, v)
    IN  v.end # 0 /\ v.kind \in {"object", "array"} /\ level.ok => Tiled(text, v, level.items)
=============================================================================
