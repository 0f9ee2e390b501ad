------------------------------- MODULE Program -------------------------------
(***************************************************************************)
(* Block programs (muka-split, program.rs): a body is a list of            *)
(* instructions, each a literal run of bytes or a reference to a block,    *)
(* and a block is bytes or a program of its own.                           *)
(*                                                                         *)
(* Bytes are elements of any set, a run of bytes a sequence of them.  A    *)
(* digest is the kind and the bytes it was taken of, that is, the hash is  *)
(* taken to be injective.  What a program and a block take once they are    *)
(* encoded (muka-proto, codec.rs) is counted here, so that what a split is  *)
(* judged by can be held against it; Codec has the bytes themselves.        *)
(***************************************************************************)
EXTENDS Integers, Sequences, SequencesExt

CONSTANTS
  Radix,      \* what fits in the low bits of a byte (128)
  MaxVarint,  \* bytes a varint may take (10)
  DigestLen,  \* DIGEST_LEN (16)
  LenWire     \* the wire cost of a length (3)

ASSUME WireAssumption ==
  /\ Radix \in Nat /\ Radix > 1 /\ MaxVarint \in Nat \ {0}
  /\ DigestLen \in Nat \ {0} /\ LenWire \in Nat \ {0}

-----------------------------------------------------------------------------
(* Numbers: powers, sums, and the length of a varint.                       *)

Power(base, n) == LET p[k \in 0 .. n] == IF k = 0 THEN 1 ELSE base * p[k - 1] IN p[n]
Sum(terms) ==
  LET s[k \in 0 .. Len(terms)] == IF k = 0 THEN 0 ELSE s[k - 1] + terms[k]
  IN  s[Len(terms)]
Total(f(_), s) == Sum([k \in DOMAIN s |-> f(s[k])])

VarLen(v) == CHOOSE n \in 1 .. MaxVarint :
               /\ v < Power(Radix, n) \/ n = MaxVarint
               /\ n > 1 => v >= Power(Radix, n - 1)

-----------------------------------------------------------------------------

Digest(kind, bytes) == [kind |-> kind, bytes |-> bytes]

Lit(bytes)  == [op |-> "lit", bytes |-> bytes]
Ref(d, len) == [op |-> "ref", digest |-> d, len |-> len]

Raw(d)          == [digest |-> d, len |-> Len(d.bytes), body |-> "bytes"]
Nested(d, prog) == [digest |-> d, len |-> Len(d.bytes), body |-> "program",
                    instrs |-> prog]

OutLen(i) == IF i.op = "lit" THEN Len(i.bytes) ELSE i.len

TotalLen(prog) == Total(OutLen, prog)

\* The estimate: REF_WIRE, LIT_HDR, program_wire_cost, and what a block is charged.
RefWire == 1 + DigestLen + LenWire
LitHdr  == 1 + LenWire
InstrCost(i)   == IF i.op = "lit" THEN Len(i.bytes) + LitHdr ELSE RefWire
ProgramCost(prog) == Total(InstrCost, prog)
BlockCost(b) == IF b.body = "bytes" THEN b.len ELSE ProgramCost(b.instrs)

\* The encoding: a tag for each instruction; digest, kind and length for a block, and a
\* mark and a count if it is a program.
InstrSize(i) == 1 + VarLen(OutLen(i)) + IF i.op = "lit" THEN Len(i.bytes) ELSE DigestLen
ProgramSize(prog) == VarLen(Len(prog)) + Total(InstrSize, prog)
HeadSize(b)  == DigestLen + 1 + VarLen(b.len)
                  + IF b.body = "bytes" THEN 0 ELSE 1 + VarLen(Len(b.instrs))
BlockSize(b) == HeadSize(b) + IF b.body = "bytes" THEN b.len ELSE Total(InstrSize, b.instrs)

\* What a store makes sure of: a program is only taken at its length.
Verifies(b) == b.len = IF b.body = "bytes" THEN Len(b.digest.bytes) ELSE TotalLen(b.instrs)

\* The digests a program references itself.
RefsOf(prog) == {i.digest : i \in {j \in ToSet(prog) : j.op = "ref"}}

\* Two literals side by side become one; an empty one that follows no literal goes.
Normalize(prog) ==
  LET Merge(out, i) ==
        CASE i.op = "ref" -> Append(out, i)
          [] i.op = "lit" /\ out # <<>> /\ Last(out).op = "lit" ->
               Append(Front(out), Lit(Last(out).bytes \o i.bytes))
          [] OTHER -> IF i.bytes = <<>> THEN out ELSE Append(out, i)
  IN  FoldLeft(Merge, <<>>, prog)
=============================================================================
