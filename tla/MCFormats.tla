----------------------------- MODULE MCFormats -----------------------------
(***************************************************************************)
(* The two formats, what travels on the link and the bodies that come in.  *)
(* They share nothing: a behaviour is of the one or of the other.          *)
(***************************************************************************)
EXTENDS Codec, Scanner

\* In place of zstd, a run of equal bytes becomes two bytes.
RunLength(s) ==
  FoldLeft(LAMBDA packed, b : IF packed # <<>> /\ Last(packed) = b
                              THEN [packed EXCEPT ![Len(packed) - 1] = @ + 1]
                              ELSE packed \o <<1, b>>,
           <<>>, s)
Expand(s) == FlattenSeq([i \in 1 .. Len(s) \div 2 |-> [j \in 1 .. s[2 * i - 1] |-> s[2 * i]]])

D1 == <<31, 2>>
D2 == <<5, 31>>
D3 == <<9, 9>>

Run(n, b) == [i \in 1 .. n |-> b]

AllMessages == <<
  [tag |-> "Program", val |-> <<Lit(Run(14, 7)), Ref(D1, 511)>>],
  [tag |-> "Program", val |-> <<Ref(D2, 15), Lit(<<>>), Ref(D1, 256)>>],
  [tag |-> "Program", val |-> <<Lit(<<1>>), Lit(<<1>>), Lit(<<2>>), Lit(<<3>>)>>],
  [tag |-> "BlockBytes", val |-> BlockOfBytes(D1, 4, <<>>)],
  [tag |-> "BlockBytes", val |-> BlockOfBytes(D2, 0, <<31, 31, 31, 31, 31, 31, 31, 31>>)],
  [tag |-> "BlockProgram", val |-> BlockOfProgram(D1, 1, 17, <<Ref(D2, 16), Lit(<<31>>)>>)],
  [tag |-> "Need", val |-> <<D1, D2>>],
  [tag |-> "Bloom", val |-> [epoch |-> 511, blocks |-> 2, keys |-> {D1, D2}]],
  [tag |-> "Bloom", val |-> [epoch |-> 16, blocks |-> 3, keys |-> {D1, D2, D3}]],
  [tag |-> "RequestBody", val |-> Run(9, 1) \o <<2, 3, 4, 5, 6, 7, 8>>],
  [tag |-> "RequestBody", val |-> Run(25, 1)],
  [tag |-> "ResponseBody", val |-> <<20, 1>>],
  [tag |-> "EndOfBody", val |-> <<>>]>>

Q == Quote
WithEscapes == <<"{",Q,"a",Q,":","[","1",",","{",Q,"a",Q,":","0","}","]",",",
            Q,Back,"u","61",Q,":",Q,Back,"u","hi",Back,"u","lo",Q,"}">>
Spaced == <<"{"," ",Q,"}",Back,Q,Q," ",":"," ","-","1",".","0","e","+","1"," ",","," ",
            Q,Q,":","t","u","}"," ">>
Deep   == <<"{",Q,Q,":","[","[","]","]",",",Q,Q,":","{",Q,Q,":","n","l","}","}">>
Small  == <<"{",Q,Q,":","[","1","]","}">>

AllDocuments == {[text |-> WithEscapes, edits |-> 1], [text |-> Spaced, edits |-> 1],
                 [text |-> Deep, edits |-> 1], [text |-> Small, edits |-> 2]}
Characters   == {"{","}","[","]",",",":",Quote,Back," ","a","1","0","-",".","e","+",
                 "t","u","n","l","hi","lo","61","^"}

\* What is written is as long as Program counts it: the theorem CodecSizes, here.
ASSUME SizesCounted == \A i \in DOMAIN AllMessages : LET m == AllMessages[i] IN
  /\ m.tag = "Program" => Len(EncodeProgram(m.val)) = ProgramSize(m.val)
  /\ m.tag \in BlockTags => Len(EncodeBlock(m.val)) = BlockSize(m.val)

CodecIdle == sent = <<>> /\ wire = <<>> /\ read = <<>> /\ link = "cut" /\ lost = 0 /\ reader = "eof"
ScanIdle  == text = <<>> /\ edits = 0

Init == \/ CodecInit /\ ScanIdle
        \/ CodecIdle /\ ScanInit

Next == \/ CodecNext /\ UNCHANGED scanner
        \/ Edit /\ UNCHANGED codec
=============================================================================
