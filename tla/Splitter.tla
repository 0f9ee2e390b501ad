------------------------------ MODULE Splitter ------------------------------
(***************************************************************************)
(* The splitter (muka-split, splitter.rs and cdc.rs): which spans of a     *)
(* body become blocks, and the Builder that turns them into a program and  *)
(* a list of blocks to push.  The Builder asks the view of the peer about  *)
(* one digest at a time and other turns change that view meanwhile, so a   *)
(* reference whose block nests others takes several steps here.            *)
(*                                                                         *)
(* A document is its bytes and what the span scanner reports of them: the  *)
(* nodes in document order, each with its span (first byte, byte after the *)
(* last), parent, depth, the class of its key, and whether its inside      *)
(* parses.  The scanner itself is not modelled here.                       *)
(***************************************************************************)
EXTENDS Program, FiniteSets

CONSTANTS
  Policies,     \* the policies a process may run with, each with its store's max_block
  Gear,         \* the gear table: a number for each byte
  PayloadSize,  \* a string this long is a payload whatever it holds (4 KiB)
  MaxPayloads,  \* MAX_PAYLOAD_CANDS
  MinSlack      \* how much larger than the body a split may be (1024)

\* Limits are unsigned, and the hash is a number modulo a power of two.
ASSUME PolicyAssumption ==
  /\ Gear \in [DOMAIN Gear -> Nat] /\ MinSlack \in Nat
  /\ \A p \in Policies : /\ p.min_block \in Nat /\ p.max_block \in Nat
                        /\ p.cdc_min \in Nat /\ 2 ^ p.cdc_bits \in Nat \ {0}

VARIABLES
  policy,   \* Ctx.policy
  doc,      \* the body
  groups,   \* candidates not yet referenced, each with its children
  builder,  \* Builder
  open,     \* the block make_block is at work on
  action,   \* what split_body has decided
  sent,     \* Optimistic.sent
  bloom,    \* the peer's last bloom filter
  local,    \* the local store, a map from digests to blocks
  trusted   \* history: the digests this split found in the view

split == <<doc, groups, builder, open, action, trusted>>

Size(c)       == c.end - c.start
Slice(s, e)   == SubSeq(doc.bytes, s + 1, e)
DigestAt(c)   == Digest(c.kind, Slice(c.start, c.end))
Cand(n, kind, floor) == [start |-> n.start, end |-> n.end, kind |-> kind, floor |-> floor]

\* Mutant: asks the wrong store.
PeerHasLocal(d) == d \in sent \cup bloom \cup DOMAIN local
PeerHas(d) == d \in sent \cup bloom

(***************************************************************************)
(* Candidates                                                              *)
(***************************************************************************)
Children(bd, i) == {n \in DOMAIN bd.nodes : bd.nodes[n].parent = i}
Histories(bd)   == {n \in Children(bd, 1) : /\ bd.nodes[n].key = "history"
                                            /\ bd.nodes[n].kind = "array"}

\* The document parses as an object, and so do the arrays of its history.
Recognised(bd) == /\ bd.json /\ bd.nodes[1].parses
                  /\ \A h \in Histories(bd) : bd.nodes[h].parses

InHistory(bd, i) == bd.nodes[i].parent \in Histories(bd)
Whole(bd, i)     == bd.nodes[i].parent = 1 /\ bd.nodes[i].key = "whole"

\* Elements of the histories and whole values, in the order of the body.
Cands(bd, p) ==
  LET Take(out, i) ==
        LET n == bd.nodes[i] IN
        CASE InHistory(bd, i) /\ Size(n) >= p.min_history ->
               Append(out, Cand(n, "JsonMember", p.min_history))
          [] Whole(bd, i) /\ Size(n) >= p.min_block ->
               Append(out, Cand(n, "JsonMember", p.min_block))
          [] OTHER -> out
  IN  FoldLeftDomain(Take, <<>>, bd.nodes)

(***************************************************************************)
(* collect_payloads, over the nodes in document order.  `entered` are the  *)
(* nodes it was called for and went into.  A string under a media key is   *)
(* taken when its object is entered, past the limits on depth and number;  *)
(* any other only if it looks like a payload.                              *)
(***************************************************************************)
Payloads(bd, p) ==
  LET Visit(acc, i) ==
        LET n == bd.nodes[i]
            reached == n.parent = 0 \/ n.parent \in acc.entered
            long == n.kind = "string" /\ Size(n) >= p.min_payload
        IN  CASE ~reached -> acc
              [] reached /\ n.key = "media" /\ long ->
                   [acc EXCEPT !.out = Append(@, Cand(n, "Media", p.min_payload))]
              [] reached /\ ~(n.key = "media" /\ long)
                         /\ (n.depth > p.max_depth \/ Len(acc.out) >= MaxPayloads) -> acc
              [] OTHER ->
                   [entered |-> IF n.parses THEN acc.entered \cup {i} ELSE acc.entered,
                    out |-> IF long /\ (n.uri \/ Size(n) >= PayloadSize)
                            THEN Append(acc.out, Cand(n, IF n.uri THEN "Media" ELSE "Text",
                                                      p.min_payload))
                            ELSE acc.out]
  IN  FoldLeftDomain(Visit, [entered |-> {}, out |-> <<>>], bd.nodes).out

\* Mutant: a payload that is the whole of a value is not inside it.
WithinStrictly(a, b) == b.start <= a.start /\ a.end < b.end
Within(a, b) == b.start <= a.start /\ a.end <= b.end

KidsOf(c, payloads) ==
  FoldLeft(LAMBDA kids, pl : IF Within(pl, c) THEN Append(kids, pl) ELSE kids, <<>>, payloads)

\* Top-level candidates with the payloads inside them as children; a payload
\* inside none is a group of its own.  All in the order of the body: no two
\* nodes of a document start at the same byte.
StructuralGroups(bd, p) ==
  LET cands    == ToSet(Cands(bd, p))
      payloads == Payloads(bd, p)
      promoted == {pl \in ToSet(payloads) : ~\E c \in cands : Within(pl, c)}
      all      == {[cand |-> c, kids |-> KidsOf(c, payloads)] : c \in cands}
                    \cup {[cand |-> pl, kids |-> <<>>] : pl \in promoted}
      Take(out, i) == out \o SetToSeq({g \in all : g.cand.start = bd.nodes[i].start})
  IN  FoldLeftDomain(Take, <<>>, bd.nodes)

(***************************************************************************)
(* cdc_candidates.  Only the low bits of the gear hash are compared, and   *)
(* those depend on nothing else, so the hash is kept modulo 2^bits.        *)
(***************************************************************************)
Chunks(bd, p) ==
  LET floor == IF p.cdc_min > p.min_block THEN p.cdc_min ELSE p.min_block
      Chunk(s, e) == [start |-> s, end |-> e, kind |-> "Chunk", floor |-> floor]
      Step(acc, i) ==
        LET h == (2 * acc.h + Gear[bd.bytes[i]]) % (2 ^ p.cdc_bits)
            cut == i - acc.start >= floor /\ (h = 0 \/ i - acc.start >= p.cdc_max)
        IN  [h |-> h, start |-> IF cut THEN i ELSE acc.start,
             out |-> IF cut THEN Append(acc.out, Chunk(acc.start, i)) ELSE acc.out]
      end  == Len(bd.bytes)
      done == FoldLeftDomain(Step, [h |-> 0, start |-> 0, out |-> <<>>], bd.bytes)
  IN  IF done.start < end THEN Append(done.out, Chunk(done.start, end)) ELSE done.out

ChunkGroups(bd, p) == LET cs == Chunks(bd, p) IN
  [i \in DOMAIN cs |-> [cand |-> cs[i], kids |-> <<>>]]

(***************************************************************************)
(* The Builder                                                             *)
(***************************************************************************)
NewBuilder == [instrs |-> <<>>, push |-> <<>>, pos |-> 0, limits |-> FALSE,
               lit_bytes |-> 0, ref_covered |-> 0, refs |-> 0, push_bytes |-> 0]
Closed == [cand |-> [start |-> 0, end |-> 0], instrs |-> <<>>, kids |-> <<>>, pos |-> 0]

\* lit: what lies between pos and `to` becomes a literal.
Literal(b, to) ==
  IF to <= b.pos THEN b
  ELSE [b EXCEPT !.instrs = Append(@, Lit(Slice(b.pos, to))),
                 !.lit_bytes = @ + to - b.pos, !.pos = to]

\* Store::insert, short of its ceilings: evictions come when they come.
Storable(blk) == Verifies(blk) /\ blk.len <= policy.max_block
Inserted(s, blk) ==
  IF blk.digest \in DOMAIN s \/ ~Storable(blk) THEN s
  ELSE [d \in DOMAIN s \cup {blk.digest} |-> IF d = blk.digest THEN blk ELSE s[d]]

Queued(b) == {blk.digest : blk \in ToSet(b.push)}

\* Mutants: a block the local end holds already is not pushed; only blocks of bytes
\* are written through.
QueueUnlessLocal(b, blk) ==
  IF blk.digest \in Queued(b) \cup DOMAIN local THEN b
  ELSE [b EXCEPT !.push = Append(@, blk), !.push_bytes = @ + BlockCost(blk)]
ThroughBytes(b, blk) == IF blk.body = "program" THEN local ELSE Inserted(local, blk)

\* queue: once for each digest, and written through to the local store.
Queue(b, blk) ==
  IF blk.digest \in Queued(b) THEN b
  ELSE [b EXCEPT !.push = Append(@, blk), !.push_bytes = @ + BlockCost(blk)]
Through(b, blk) == IF blk.digest \in Queued(b) THEN local ELSE Inserted(local, blk)

\* The instruction for a candidate whose block is settled, and the position after it.
Refer(b, c) ==
  LET instrs == Append(b.instrs, Ref(DigestAt(c), Size(c))) IN
  [b EXCEPT !.instrs = instrs, !.pos = c.end,
            !.limits = @ \/ Len(instrs) > policy.max_instrs]

\* split_body up to the loop over the candidates.
Split(bd) ==
  LET size   == Len(bd.bytes)
      fits   == policy.enabled /\ policy.min_body <= size /\ size <= policy.max_body
      struct == IF Recognised(bd) THEN StructuralGroups(bd, policy) ELSE <<>>
  IN  /\ action = "none"
      /\ doc' = bd /\ builder' = NewBuilder /\ open' = Closed /\ trusted' = {}
      /\ IF fits /\ (struct # <<>> \/ policy.cdc_fallback)
         THEN /\ action' = "splitting"
              /\ groups' = IF struct # <<>> THEN struct ELSE ChunkGroups(bd, policy)
         ELSE action' = "whole" /\ groups' = <<>>
      /\ UNCHANGED <<policy, sent, bloom, local>>

Counted(c) == [Literal(builder, c.start)
                 EXCEPT !.refs = @ + 1, !.ref_covered = @ + Size(c)]

\* reference: too small or overlapping, in the view, or new.  A new one without
\* children is queued at once, else make_block goes to work.
Reference ==
  LET c == Head(groups).cand
      d == DigestAt(c)
  IN  /\ action = "splitting" /\ open = Closed /\ groups # <<>>
      /\ \/ /\ Size(c) < c.floor \/ builder.pos > c.start
            /\ UNCHANGED <<builder, open, local, trusted>>
         \/ /\ Size(c) >= c.floor /\ builder.pos <= c.start /\ PeerHas(d)
            /\ builder' = Refer(Counted(c), c)
            /\ trusted' = trusted \cup {d}
            /\ UNCHANGED <<open, local>>
         \/ /\ Size(c) >= c.floor /\ builder.pos <= c.start /\ ~PeerHas(d)
            /\ Head(groups).kids = <<>>
            /\ builder' = Refer(Queue(Counted(c), Raw(d)), c)
            /\ local' = Through(builder, Raw(d))
            /\ UNCHANGED <<open, trusted>>
         \/ /\ Size(c) >= c.floor /\ builder.pos <= c.start /\ ~PeerHas(d)
            /\ Head(groups).kids # <<>>
            /\ builder' = Counted(c)
            /\ open' = [cand |-> c, instrs |-> <<>>, kids |-> Head(groups).kids,
                        pos |-> c.start]
            /\ UNCHANGED <<local, trusted>>
      /\ groups' = Tail(groups)
      /\ UNCHANGED <<policy, doc, action, sent, bloom>>

\* A round of make_block's loop over the children.
Nest ==
  LET ch == Head(open.kids)
      d  == DigestAt(ch)
      skipped == \/ ch.start < open.pos \/ ch.end > open.cand.end
                 \/ Size(ch) < ch.floor
      lead == IF open.pos < ch.start THEN <<Lit(Slice(open.pos, ch.start))>> ELSE <<>>
      once == [builder EXCEPT !.refs = @ + 1]
  IN  /\ action = "splitting" /\ open.kids # <<>>
      /\ IF skipped
         THEN /\ open' = [open EXCEPT !.kids = Tail(@)]
              /\ UNCHANGED <<builder, local, trusted>>
         ELSE /\ open' = [open EXCEPT !.kids = Tail(@), !.pos = ch.end,
                            !.instrs = @ \o lead \o <<Ref(d, Size(ch))>>]
              /\ IF PeerHas(d)
                 THEN /\ builder' = once
                      /\ trusted' = trusted \cup {d} /\ UNCHANGED local
                 ELSE /\ builder' = Queue(once, Raw(d))
                      /\ local' = Through(builder, Raw(d)) /\ UNCHANGED trusted
      /\ UNCHANGED <<policy, doc, groups, action, sent, bloom>>

\* The rest of make_block, and of the reference that called it.
CloseBlock ==
  LET c    == open.cand
      tail == IF open.pos < c.end THEN <<Lit(Slice(open.pos, c.end))>> ELSE <<>>
      prog == Normalize(open.instrs \o tail)
      blk  == IF Len(prog) = 1 /\ prog[1].op = "lit" THEN Raw(DigestAt(c))
              ELSE Nested(DigestAt(c), prog)
  IN  /\ action = "splitting" /\ open # Closed /\ open.kids = <<>>
      /\ builder' = Refer(Queue(builder, blk), c)
      /\ local' = Through(builder, blk)
      /\ open' = Closed
      /\ UNCHANGED <<policy, doc, groups, action, sent, bloom, trusted>>

\* wire_bytes, with instr_overhead the cost of the program beyond its literals.
Wire(b, prog) ==
  LET over == ProgramCost(prog) - b.lit_bytes IN
  b.lit_bytes + b.push_bytes + (IF over > 0 THEN over ELSE 0)
Slack == IF Len(doc.bytes) \div 16 > MinSlack THEN Len(doc.bytes) \div 16 ELSE MinSlack

\* Mutant: instructions cost nothing.
InflatesByBytes(b, prog) == b.lit_bytes + b.push_bytes > Len(doc.bytes) + Slack
Inflates(b, prog) == Wire(b, prog) > Len(doc.bytes) + Slack

\* The last literal, and finish.
Finish ==
  LET b    == Literal(builder, Len(doc.bytes))
      prog == Normalize(b.instrs)
  IN  /\ action = "splitting" /\ open = Closed /\ groups = <<>>
      /\ action' = IF b.limits \/ b.refs = 0 \/ Inflates(b, prog) THEN "whole" ELSE "split"
      /\ builder' = [b EXCEPT !.instrs = prog]
      /\ UNCHANGED <<policy, doc, groups, open, sent, bloom, local, trusted>>
=============================================================================
