-------------------------------- MODULE Codec --------------------------------
(***************************************************************************)
(* What travels between the two ends, byte by byte (muka-proto): varints,  *)
(* frames, programs, blocks, lists of digests, bloom filters, and the      *)
(* compression of what is uploaded.  One end writes messages, the          *)
(* connection may break at any byte, the other end reads until it ends.    *)
(*                                                                         *)
(* Bytes are numbers; the widths are constants, so that a small instance   *)
(* has varints of every length and words that are full.  Payloads that are *)
(* JSON (Hello, RequestHead, ...) are opaque bytes.  What zstd makes of     *)
(* bytes is external: all that is known of it is that it loses nothing.    *)
(***************************************************************************)
EXTENDS Program, FiniteSets

CONSTANTS
  Word,         \* what fits in a u64
  WordBytes,    \* bytes of a u64 (8)
  WordBits,     \* bits of a word of a bloom filter (64)
  MaxPayload,   \* MAX_FRAME_PAYLOAD and MAX_DECOMPRESSED
  MaxInstrs,    \* MAX_INSTRS: instructions of a program, digests of a Need
  MinCompress,  \* MIN_COMPRESS_BYTES (512)
  MinKeys, BitsPerKey, Hashes, MaxBits, \* the sizes of a bloom filter
  Zstd(_), Unzstd(_), \* external: zstd, at the level and with the limit it is used with
  Messages,     \* what an end may send, a sequence
  Streams,      \* stream ids
  MaxSent       \* bound: messages sent

VARIABLES
  sent,    \* history: the messages written, each with its stream and if compressed
  wire,    \* bytes in flight
  link,    \* "up" or "cut"
  lost,    \* history: bytes the cut has taken
  read,    \* the messages read
  reader   \* "open", or how reading ended: "eof", "io" or "bad"

codec == <<sent, wire, link, lost, read, reader>>

-----------------------------------------------------------------------------
(* Numbers: the digits of a number, the lowest first; a byte is two of the  *)
(* radix.                                                                   *)

Digit(base, v, k) == (v \div Power(base, k - 1)) % base
Number(base, ds)  == Sum([k \in DOMAIN ds |-> ds[k] * Power(base, k - 1)])

Byte == 0 .. 2 * Radix - 1

\* A length and a number of bits fit in the words they are written in.
ASSUME WidthAssumption ==
  /\ {Radix, Word, MaxVarint, WordBytes, WordBits, DigestLen, Hashes} \subseteq Nat \ {0}
  /\ {MaxPayload, MaxInstrs, MinCompress, MaxBits, MinKeys, BitsPerKey} \subseteq Nat
  /\ Radix > 11 /\ Hashes < Word
  /\ Word <= Power(Radix, MaxVarint) /\ Word <= Power(2 * Radix, WordBytes)
  /\ Power(2, WordBits) <= Word /\ \E e \in 0 .. WordBits : WordBits = Power(2, e)
  /\ WordBits <= BitsPerKey * MinKeys
  /\ Streams \subseteq 0 .. Word - 1

-----------------------------------------------------------------------------
(* Reading bytes: the outcome, the value and the position after it.         *)

Ok(v, at) == [res |-> "ok", val |-> v, at |-> at]
Short     == [res |-> "short", val |-> 0, at |-> 0]
Bad       == [res |-> "bad", val |-> 0, at |-> 0]

WriteUvarint(v) == [i \in 1 .. VarLen(v) |->
  Digit(Radix, v, i) + (IF i < VarLen(v) THEN Radix ELSE 0)]

\* Mutant: a byte is shifted one place too few.
ShiftedTooFew(b, i) == ((b % Radix) * Power(Radix, IF i > 2 THEN i - 2 ELSE i - 1)) % Word
\* The shift of the last byte loses what does not fit in the word.
Shifted(b, i)       == ((b % Radix) * Power(Radix, i - 1)) % Word

Uvarint(s, at) ==
  LET Stops(n) == at + n <= Len(s) /\ s[at + n] < Radix
      stops == {n \in 1 .. MaxVarint : Stops(n) /\ \A k \in 1 .. n - 1 : ~Stops(k)}
      Value(n) == Ok(Sum([k \in 1 .. n |-> Shifted(s[at + k], k)]), at + n)
  IN  CASE stops # {} -> Value(CHOOSE n \in stops : TRUE)
        [] stops = {} /\ Len(s) >= at + MaxVarint -> Bad
        [] OTHER -> Short

Take(s, at, n) == IF Len(s) - at < n THEN Short ELSE Ok(SubSeq(s, at + 1, at + n), at + n)

\* What comes next, unless there has been an error: Rust's question mark.
Then(r, Next(_)) == IF r.res = "ok" THEN Next(r) ELSE r

\* Nothing may follow.
Whole(r, s) == IF r.res = "ok" /\ r.at = Len(s) THEN r ELSE Bad

-----------------------------------------------------------------------------
(* Programs                                                                 *)

EncodeInstr(i) ==
  IF i.op = "lit" THEN <<0>> \o WriteUvarint(Len(i.bytes)) \o i.bytes
                  ELSE <<1>> \o i.digest \o WriteUvarint(i.len)

EncodeProgram(prog) ==
  WriteUvarint(Len(prog)) \o FlattenSeq([k \in DOMAIN prog |-> EncodeInstr(prog[k])])

DecodeLit(s, at) ==
  Then(Uvarint(s, at), LAMBDA len :
    IF len.val > MaxPayload THEN Bad
    ELSE Then(Take(s, len.at, len.val), LAMBDA run : Ok(Lit(run.val), run.at)))

DecodeRef(s, at) ==
  Then(Take(s, at, DigestLen), LAMBDA digest :
    Then(Uvarint(s, digest.at), LAMBDA len : Ok(Ref(digest.val, len.val), len.at)))

DecodeInstr(s, at) ==
  Then(Take(s, at, 1), LAMBDA kind :
    CASE kind.val = <<0>> -> DecodeLit(s, kind.at)
      [] kind.val = <<1>> -> DecodeRef(s, kind.at)
      [] OTHER -> Bad)

DecodeInstrs(s, at, n) ==
  LET upto[k \in 0 .. n] ==
        IF k = 0 THEN Ok(<<>>, at)
        ELSE Then(upto[k - 1], LAMBDA prog :
               Then(DecodeInstr(s, prog.at), LAMBDA i : Ok(Append(prog.val, i.val), i.at)))
  IN  upto[n]

\* One instruction after the other; what follows the last is an error.
DecodeProgram(s) ==
  Then(Uvarint(s, 0), LAMBDA count :
    IF count.val > MaxInstrs THEN Bad
    ELSE Whole(DecodeInstrs(s, count.at, count.val), s))

-----------------------------------------------------------------------------
(* Blocks: the digest, a mark if the body is a program, kind and length.    *)

ProgMark == 2 * Radix - 1
Kinds    == 0 .. 4

EncodeBlock(b) ==
  b.digest \o (IF b.body = "program" THEN <<ProgMark>> ELSE <<>>)
    \o <<b.kind>> \o WriteUvarint(b.len)
    \o (IF b.body = "program" THEN EncodeProgram(b.instrs) ELSE b.bytes)

BlockOfBytes(d, kind, bytes) ==
  [digest |-> d, kind |-> kind, len |-> Len(bytes), body |-> "bytes", bytes |-> bytes]
BlockOfProgram(d, kind, len, prog) ==
  [digest |-> d, kind |-> kind, len |-> len, body |-> "program", instrs |-> prog]

\* The mark decides, whatever the tag of the frame said.
DecodeBlock(s) ==
  LET marked == s[DigestLen + 1] = ProgMark
      digest == SubSeq(s, 1, DigestLen)
      Body(kind, len, rest) ==
        CASE marked ->
               Then(DecodeProgram(rest), LAMBDA prog :
                 Ok(BlockOfProgram(digest, kind, len, prog.val), Len(s)))
          [] ~marked /\ Len(rest) = len -> Ok(BlockOfBytes(digest, kind, rest), Len(s))
          [] OTHER -> Bad
      Kind == Take(s, DigestLen + (IF marked THEN 1 ELSE 0), 1)
  IN  IF Len(s) < DigestLen + 2 THEN Bad
      ELSE Then(Kind, LAMBDA kind :
             IF kind.val[1] \notin Kinds THEN Bad
             ELSE Then(Uvarint(s, kind.at), LAMBDA len :
                    Body(kind.val[1], len.val, SubSeq(s, len.at + 1, Len(s)))))

-----------------------------------------------------------------------------
(* Lists of digests, and bloom filters                                      *)

EncodeNeeds(ds) == WriteUvarint(Len(ds)) \o FlattenSeq(ds)

\* Bytes after the last digest are let pass.
DecodeNeeds(s) ==
  Then(Uvarint(s, 0), LAMBDA count :
    IF count.val > MaxInstrs THEN Bad
    ELSE Then(Take(s, count.at, count.val * DigestLen), LAMBDA all :
           Ok([k \in 1 .. count.val |->
                 SubSeq(all.val, (k - 1) * DigestLen + 1, k * DigestLen)], Len(s))))

LittleEndian(v) == [i \in 1 .. WordBytes |-> Digit(2 * Radix, v, i)]
ReadWord(s, at) == Number(2 * Radix, [i \in 1 .. WordBytes |-> s[at + i]])

\* The hash of a digest, two words.
Hash(d) == <<d[1], d[DigestLen]>>

KeysFor(keys) == IF Cardinality(keys) > MinKeys THEN Cardinality(keys) ELSE MinKeys
Fits(keys, b) == BitsPerKey * KeysFor(keys) <= b /\ b < 2 * BitsPerKey * KeysFor(keys)
BitsFor(keys) == CHOOSE b \in {Power(2, e) : e \in 0 .. WordBits} : Fits(keys, b)

Indices(d, k, bits) == {(((Hash(d)[1] + Hash(d)[2] * (i + 1)) % Word) % bits) : i \in 0 .. k - 1}

\* Store::bloom: every key of the store is added to a filter of its size.
BloomOf(keys) ==
  LET bits == BitsFor(keys)
      set  == UNION {Indices(d, Hashes, bits) : d \in keys}
      Word64(w) == Number(2, [b \in 1 .. WordBits |->
                              IF (w - 1) * WordBits + b - 1 \in set THEN 1 ELSE 0])
  IN  [bits |-> bits, k |-> Hashes, words |-> [w \in 1 .. bits \div WordBits |-> Word64(w)]]

Has(b, d) == \A i \in Indices(d, b.k, b.bits) :
  Digit(2, b.words[i \div WordBits + 1], (i % WordBits) + 1) = 1

EncodeBloom(m) ==
  LET b == BloomOf(m.keys)
  IN  WriteUvarint(m.epoch) \o WriteUvarint(m.blocks)
        \o LittleEndian(b.bits) \o LittleEndian(b.k)
        \o FlattenSeq([w \in DOMAIN b.words |-> LittleEndian(b.words[w])])

\* Mutant: the words are read one place too early.
WordsEarly(raw, n) == [w \in 1 .. n |-> ReadWord(raw, w * WordBytes)]
\* The words of a filter, after its number of bits and of hashes.
Words(raw, n)      == [w \in 1 .. n |-> ReadWord(raw, (w + 1) * WordBytes)]

\* Bloom::from_bytes.
FromBytes(raw) ==
  LET bits  == ReadWord(raw, 0)
      k     == ReadWord(raw, WordBytes)
      words == (Len(raw) - 2 * WordBytes) \div WordBytes
  IN  CASE Len(raw) < 2 * WordBytes -> Bad
        [] bits % WordBits # 0 \/ bits \div WordBits # words \/ bits > MaxBits \/ k = 0 -> Bad
        [] OTHER -> Ok([bits |-> bits, k |-> k, words |-> Words(raw, words)], Len(raw))

DecodeBloom(s) ==
  Then(Uvarint(s, 0), LAMBDA epoch :
    Then(Uvarint(s, epoch.at), LAMBDA blocks :
      Then(FromBytes(SubSeq(s, blocks.at + 1, Len(s))), LAMBDA b :
        Ok([epoch |-> epoch.val, blocks |-> blocks.val, bloom |-> b.val], Len(s)))))

-----------------------------------------------------------------------------
(* Compression                                                              *)

\* It has to save a tenth.
Worth(s) == Len(s) >= MinCompress /\ 10 * (Len(s) - Len(Zstd(s))) >= Len(s)

Compressed == [Program |-> "ProgramZ", BlockBytes |-> "BlockBytesZ",
               BlockProgram |-> "BlockProgramZ", RequestBody |-> "RequestBodyZ"]
Uploads    == DOMAIN Compressed
Plain(tag) == IF \E t \in Uploads : Compressed[t] = tag
              THEN CHOOSE t \in Uploads : Compressed[t] = tag ELSE tag

UploadFrame(tag, stream, payload, compress) ==
  IF compress /\ Worth(payload)
  THEN [tag |-> Compressed[tag], stream |-> stream, payload |-> Zstd(payload)]
  ELSE [tag |-> tag, stream |-> stream, payload |-> payload]

PlainPayload(f) ==
  LET packed == Plain(f.tag) # f.tag
      out    == IF packed THEN Unzstd(f.payload) ELSE f.payload
  IN  IF packed /\ Len(out) > MaxPayload THEN Bad ELSE Ok(out, Len(out))

-----------------------------------------------------------------------------
(* Frames                                                                   *)

Tags == <<"Hello", "HelloAck", "RequestHead", "Program", "BlockBytes", "BlockProgram",
          "Need", "Bloom", "ResponseHead", "ResponseBody", "ResponseEnd", "PeerStats",
          "Ping", "Pong", "Reset", "Cancel", "EndOfBody", "RequestBody", "Fail",
          "ProgramZ", "BlockBytesZ", "BlockProgramZ", "RequestBodyZ">>
TagByte(tag) == CHOOSE b \in DOMAIN Tags : Tags[b] = tag

\* The length of a payload is not held against the limit of the reader.
WriteFrame(f) == <<TagByte(f.tag)>> \o WriteUvarint(f.stream)
                   \o WriteUvarint(Len(f.payload)) \o f.payload

ReadFrame(s) ==
  CASE s = <<>> -> Short
    [] s # <<>> /\ s[1] \notin DOMAIN Tags -> Bad
    [] OTHER ->
         Then(Uvarint(s, 1), LAMBDA stream :
           Then(Uvarint(s, stream.at), LAMBDA len :
             IF len.val > MaxPayload THEN Bad
             ELSE Then(Take(s, len.at, len.val), LAMBDA body :
                    Ok([tag |-> Tags[s[1]], stream |-> stream.val, payload |-> body.val],
                       body.at))))

BlockTags == {"BlockBytes", "BlockProgram"}

Payload(m) ==
  CASE m.tag = "Program" -> EncodeProgram(m.val)
    [] m.tag \in BlockTags -> EncodeBlock(m.val)
    [] m.tag = "Need" -> EncodeNeeds(m.val)
    [] m.tag = "Bloom" -> EncodeBloom(m.val)
    [] OTHER -> m.val

FrameOf(m, stream, compress) ==
  IF m.tag \in Uploads THEN UploadFrame(m.tag, stream, Payload(m), compress)
  ELSE [tag |-> m.tag, stream |-> stream, payload |-> Payload(m)]

\* What the handler of a frame makes of it.
Content(tag, bytes) ==
  CASE tag = "Program" -> DecodeProgram(bytes)
    [] tag \in BlockTags -> DecodeBlock(bytes)
    [] tag = "Need" -> DecodeNeeds(bytes)
    [] tag = "Bloom" -> DecodeBloom(bytes)
    [] OTHER -> Ok(bytes, Len(bytes))

Message(f) ==
  Then(PlainPayload(f), LAMBDA plain :
    Then(Content(Plain(f.tag), plain.val), LAMBDA c :
      Ok([tag |-> Plain(f.tag), stream |-> f.stream, val |-> c.val], 0)))

-----------------------------------------------------------------------------
(* What an end may send                                                     *)

Words64 == 0 .. Word - 1
DigestBytes == [1 .. DigestLen -> Byte]
Instrs == [op : {"lit"}, bytes : Seq(Byte)] \cup [op : {"ref"}, digest : DigestBytes, len : Words64]

Encodable(prog) ==
  /\ prog \in Seq(Instrs) /\ Len(prog) < Word
  /\ \A k \in DOMAIN prog : prog[k].op = "lit" => Len(prog[k].bytes) < Word

BlockOk(b) ==
  /\ b.digest \in DigestBytes /\ b.kind \in Kinds /\ b.len \in Words64
  /\ IF b.body = "bytes"
     THEN b.bytes \in Seq(Byte) /\ b = BlockOfBytes(b.digest, b.kind, b.bytes)
     ELSE Encodable(b.instrs) /\ b = BlockOfProgram(b.digest, b.kind, b.len, b.instrs)

\* A filter whose number of bits fits in a word.
FilterOk(val) ==
  /\ val.epoch \in Words64 /\ val.blocks \in Words64
  /\ val.keys \subseteq DigestBytes /\ IsFiniteSet(val.keys)
  /\ \E e \in 0 .. WordBits : Fits(val.keys, Power(2, e)) /\ Power(2, e) < Word

ContentOk(m) ==
  CASE m.tag = "Program" -> Encodable(m.val)
    [] m.tag \in BlockTags -> BlockOk(m.val)
    [] m.tag = "Need" -> m.val \in Seq(DigestBytes) /\ Len(m.val) < Word
    [] m.tag = "Bloom" -> FilterOk(m.val)
    [] OTHER -> m.val \in Seq(Byte)

\* Messages are of the types the handlers have for them, and fit in memory.
ASSUME MessageAssumption ==
  \A i \in DOMAIN Messages : LET m == Messages[i] IN
    /\ m.tag \in {Tags[b] : b \in DOMAIN Tags} \ {Compressed[tag] : tag \in Uploads}
    /\ ContentOk(m) /\ Len(Payload(m)) < Word

\* External: zstd gives back what it was given.
ASSUME ZstdAssumption ==
  \A i \in DOMAIN Messages : LET raw == Payload(Messages[i]) IN
    Worth(raw) => Zstd(raw) \in Seq(Byte) /\ Unzstd(Zstd(raw)) = raw

-----------------------------------------------------------------------------
CodecInit ==
  /\ sent = <<>> /\ wire = <<>> /\ read = <<>>
  /\ link = "up" /\ lost = 0 /\ reader = "open"

Send ==
  /\ link = "up" /\ Len(sent) < MaxSent
  /\ \E m \in DOMAIN Messages, stream \in Streams, compress \in BOOLEAN :
       /\ sent' = Append(sent, [msg |-> Messages[m], stream |-> stream, compress |-> compress])
       /\ wire' = wire \o WriteFrame(FrameOf(Messages[m], stream, compress))
  /\ UNCHANGED <<link, lost, read, reader>>

\* The connection breaks, and of what is in flight only some arrives.
Break ==
  /\ link = "up"
  /\ link' = "cut"
  /\ \E n \in 0 .. Len(wire) : /\ wire' = SubSeq(wire, 1, n)
                               /\ lost' = Len(wire) - n
  /\ UNCHANGED <<sent, read, reader>>

\* An error drops the connection.
Stop(why) ==
  /\ reader' = why
  /\ link' = "cut"
  /\ UNCHANGED <<sent, wire, lost, read>>

\* Mutant: whatever is left over, the peer has hung up.
EndingAlwaysEof == "eof"
\* The connection ended: between two frames that is how a peer hangs up.
Ending == IF wire = <<>> THEN "eof" ELSE "io"

\* A frame has been read, and its handler has made a message of it, or not.
Handle(f, m) ==
  \/ /\ f.res = "ok" /\ m.res = "ok"
     /\ read' = Append(read, m.val)
     /\ wire' = SubSeq(wire, f.at + 1, Len(wire))
     /\ UNCHANGED <<sent, link, lost, reader>>
  \/ f.res = "ok" /\ m.res # "ok" /\ Stop("bad")
  \/ f.res = "bad" /\ Stop("bad")
  \/ f.res = "short" /\ link = "cut" /\ Stop(Ending)

\* read_frame and the start of its handler.
Receive ==
  /\ reader = "open"
  /\ \E f \in {ReadFrame(wire)} : Handle(f, Message(f.val))

CodecNext == Send \/ Break \/ Receive
CodecSpec == CodecInit /\ [][CodecNext]_codec

-----------------------------------------------------------------------------
\* A message as it should arrive.
Arrives(x) ==
  [tag |-> x.msg.tag, stream |-> x.stream,
   val |-> IF x.msg.tag = "Bloom"
           THEN [epoch |-> x.msg.val.epoch, blocks |-> x.msg.val.blocks,
                 bloom |-> BloomOf(x.msg.val.keys)]
           ELSE x.msg.val]

\* A message that one of the reader's limits forbids.
Oversize(x) ==
  LET f == FrameOf(x.msg, x.stream, x.compress) IN
  \/ Len(f.payload) > MaxPayload \/ Len(Payload(x.msg)) > MaxPayload
  \/ x.msg.tag \in {"Program", "Need"} /\ Len(x.msg.val) > MaxInstrs
  \/ x.msg.tag \in BlockTags /\ x.msg.val.body = "program" /\ Len(x.msg.val.instrs) > MaxInstrs
  \/ x.msg.tag = "Bloom" /\ BitsFor(x.msg.val.keys) > MaxBits

\* What is read is what was sent, in order, whatever was compressed and wherever
\* the connection broke: programs and blocks with their lengths, numbers up to a
\* full word, digests and filters; and all that is in flight are bytes (codec.rs,
\* varint.rs, msg.rs, session.rs).
Faithful ==
  /\ wire \in Seq(0 .. 2 * Radix - 1)
  /\ Len(read) <= Len(sent)
  /\ \A k \in DOMAIN read : read[k] = Arrives(sent[k])

\* Reading ends for cause.  A message is refused only for one of the reader's
\* limits, never because the connection broke or because of what came before; and
\* the end is taken for a clean one only between two frames: what was lost is
\* whole frames, and a frame cut short is an error (io.rs, compress.rs).
EndsForCause ==
  LET Size(x) == Len(WriteFrame(FrameOf(x.msg, x.stream, x.compress))) IN
  /\ reader = "bad" => Oversize(sent[Len(read) + 1])
  /\ reader = "eof" => lost = Sum([k \in 1 .. Len(sent) - Len(read) |-> Size(sent[Len(read) + k])])

\* A filter that has arrived knows every block the other end held when it was
\* made: a bloom filter may err, but never this way (muka-store, Bloom).
FilterCovers ==
  \A k \in DOMAIN read : read[k].tag = "Bloom" =>
    \A d \in sent[k].msg.val.keys : Has(read[k].val.bloom, d)
=============================================================================
