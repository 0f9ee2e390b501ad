-------------------------------- MODULE Trim --------------------------------
(***************************************************************************)
(* A body on its way through the gateway: the splitter of the local end,   *)
(* the upload, and the rebuild of the remote end (missing_blocks, resolve, *)
(* and the Need rounds of remote_end), one turn after another over the     *)
(* same stores.  Link has the frames, connections and faults of the link;  *)
(* here is what they carry.                                                *)
(*                                                                         *)
(* Blocks may be evicted from either store, and the view may be wrong or   *)
(* be cleared, between any two steps: also in the middle of a split or of  *)
(* a resolve, as other turns use the same stores and the same view.        *)
(***************************************************************************)
EXTENDS Splitter

CONSTANTS
  Bodies,      \* what agents send
  MaxDepth,    \* how deep blocks may nest for resolve
  MaxRepairs,  \* MAX_REPAIRS
  Turns,       \* bound: how many bodies are sent
  MaxEvents    \* bound: how often something unforeseen happens

ASSUME TrimAssumption ==
  MaxRepairs \in Nat /\ Turns \in Nat \ {0} /\ MaxEvents \in Nat

\* A body is bytes, and each node of it a span of them (json.rs); after a node come those
\* inside it, of which a string has none, and then those behind it.  rebuild resolves to a
\* depth of 32; a split nests no deeper than two.
ASSUME BodyAssumption ==
  /\ MaxDepth \in Nat /\ MaxDepth >= 2
  /\ \A b \in Bodies :
       /\ b.bytes \in Seq(DOMAIN Gear)
       /\ Len(b.nodes) \in Nat /\ DOMAIN b.nodes = 1 .. Len(b.nodes)
       /\ \A i \in DOMAIN b.nodes :
            /\ b.nodes[i].start \in Nat
            /\ b.nodes[i].end \in b.nodes[i].start .. Len(b.bytes)
            /\ b.nodes[i].parent \in 0 .. i - 1
       /\ \A i, j \in DOMAIN b.nodes : i < j =>
            /\ b.nodes[i].start < b.nodes[j].start
            /\ \/ b.nodes[i].end <= b.nodes[j].start
               \/ /\ b.nodes[j].end <= b.nodes[i].end /\ i <= b.nodes[j].parent
                  /\ b.nodes[i].kind # "string"

VARIABLES
  stage,    \* where the turn is
  uplink,   \* the blocks on their way to the remote end
  remote,   \* the remote store, a map from digests to blocks
  stack,    \* resolve: what is left to expand, each with its depth
  out,      \* resolve: the bytes so far
  need,     \* the digests of the Need frame on its way
  repairs,  \* repairs of remote_end
  asked,    \* history: the digests asked for in this turn
  lost,     \* history: the digests evicted in this turn
  turns,    \* turns begun
  events    \* events left

rebuild == <<uplink, stack, out, need, repairs, asked>>
env     == <<turns, events>>
vars    == <<split, policy, sent, bloom, local, stage, rebuild, remote, lost, env>>

NoBlocks == [d \in {} |-> Raw(d)]

Init ==
  /\ policy \in Policies
  /\ doc \in Bodies /\ groups = <<>> /\ builder = NewBuilder /\ open = Closed
  /\ action = "none" /\ trusted = {}
  /\ sent = {} /\ bloom = {} /\ local = NoBlocks /\ remote = NoBlocks
  /\ stage = "split" /\ uplink = <<>> /\ stack = <<>> /\ out = <<>> /\ need = {}
  /\ repairs = 0 /\ asked = {} /\ lost = {}
  /\ turns = 1 /\ events = MaxEvents

(***************************************************************************)
(* The local end                                                           *)
(***************************************************************************)
Splits ==
  /\ stage = "split"
  /\ Split(doc) \/ Reference \/ Nest \/ CloseBlock \/ Finish
  /\ UNCHANGED <<stage, rebuild, remote, lost, env>>

\* The program and the blocks go out, and the view takes them for arrived.
Upload ==
  /\ stage = "split" /\ action = "split"
  /\ uplink' = builder.push
  /\ sent' = sent \cup Queued(builder)
  /\ stage' = "arriving"
  /\ UNCHANGED <<split, policy, bloom, local, stack, out, need, repairs, asked,
                 remote, lost, env>>

SendWhole ==
  /\ stage = "split" /\ action = "whole"
  /\ out' = doc.bytes /\ stage' = "answered"
  /\ UNCHANGED <<split, policy, sent, bloom, local, uplink, stack, need, repairs,
                 asked, remote, lost, env>>

\* Mutant: one block for each Need.
ResendOne ==
  /\ stage = "need"
  /\ uplink' = IF need \cap DOMAIN local = {} THEN <<>>
               ELSE <<local[CHOOSE d \in need \cap DOMAIN local : TRUE]>>
  /\ need' = {} /\ stage' = "arriving"
  /\ UNCHANGED <<split, policy, sent, bloom, local, stack, out, repairs, asked,
                 remote, lost, env>>

\* Need: what the local end still holds of it goes out again.
Resend ==
  /\ stage = "need"
  /\ LET order == SetToSeq(need \cap DOMAIN local) IN
       uplink' = [i \in DOMAIN order |-> local[order[i]]]
  /\ need' = {} /\ stage' = "arriving"
  /\ UNCHANGED <<split, policy, sent, bloom, local, stack, out, repairs, asked,
                 remote, lost, env>>

\* Fail: forget what was sent, if told to, and send the body whole.
FailThenWhole ==
  /\ stage \in {"unrebuildable", "mismatch"}
  /\ sent' = IF stage = "unrebuildable" THEN {} ELSE sent
  /\ out' = doc.bytes /\ stage' = "answered"
  /\ UNCHANGED <<split, policy, bloom, local, uplink, stack, need, repairs, asked,
                 remote, lost, env>>

(***************************************************************************)
(* The remote end                                                          *)
(***************************************************************************)
Arrive ==
  /\ stage = "arriving" /\ uplink # <<>>
  /\ uplink' = Tail(uplink)
  /\ remote' = Inserted(remote, Head(uplink))
  /\ UNCHANGED <<split, policy, sent, bloom, local, stage, stack, out, need, repairs,
                 asked, lost, env>>

\* missing_blocks over the remote end's own store: a block that is there is not
\* walked into, and one that is not there has no program to walk.
Missing == RefsOf(builder.instrs) \ DOMAIN remote

\* Mutant: one round too many.
AskLate(ds) ==
  /\ IF repairs > MaxRepairs
     THEN stage' = "unrebuildable" /\ UNCHANGED <<need, repairs, asked>>
     ELSE /\ stage' = "need" /\ need' = ds
          /\ repairs' = repairs + 1 /\ asked' = asked \cup ds
  /\ UNCHANGED out

\* A round of Need, or Fail after too many.
Ask(ds) ==
  /\ IF repairs >= MaxRepairs
     THEN stage' = "unrebuildable" /\ UNCHANGED <<need, repairs, asked>>
     ELSE /\ stage' = "need" /\ need' = ds
          /\ repairs' = repairs + 1 /\ asked' = asked \cup ds
  /\ UNCHANGED out

\* Mutant: the instructions of a program are pushed first to last.
DeepForward(prog, n) == [i \in DOMAIN prog |->
                           [instr |-> prog[Len(prog) + 1 - i], depth |-> n]]
Deep(prog, n) == [i \in DOMAIN prog |-> [instr |-> prog[i], depth |-> n]]

\* EndOfBody: ask for what the program references and is not here, or resolve.
Rebuild ==
  /\ stage = "arriving" /\ uplink = <<>>
  /\ IF Missing # {}
     THEN Ask(Missing) /\ UNCHANGED stack
     ELSE /\ stack' = Deep(builder.instrs, 1) /\ out' = <<>> /\ stage' = "resolving"
          /\ UNCHANGED <<need, repairs, asked>>
  /\ UNCHANGED <<split, policy, sent, bloom, local, uplink, remote, lost, env>>

Emit(bytes) == /\ out' = out \o bytes /\ stack' = Tail(stack)
               /\ UNCHANGED <<stage, need, repairs, asked>>
Refuse      == /\ stage' = "mismatch"
               /\ UNCHANGED <<stack, out, need, repairs, asked>>

\* A round of resolve's loop, or its end with rebuild's check of the digest.
Resolve ==
  LET i     == Head(stack).instr
      depth == Head(stack).depth
      room  == Len(doc.bytes) + 1 - Len(out)
      b     == remote[i.digest]
  IN  /\ stage = "resolving"
      /\ \/ /\ stack = <<>>
            /\ stage' = IF out = doc.bytes THEN "answered" ELSE "mismatch"
            /\ UNCHANGED <<stack, out, need, repairs, asked>>
         \/ /\ stack # <<>> /\ i.op = "lit"
            /\ IF Len(i.bytes) > room THEN Refuse ELSE Emit(i.bytes)
         \/ /\ stack # <<>> /\ i.op = "ref"
            /\ CASE depth > MaxDepth \/ i.len > room -> Refuse
                 [] depth <= MaxDepth /\ i.len <= room /\ i.digest \notin DOMAIN remote ->
                      Ask({i.digest}) /\ UNCHANGED stack
                 [] OTHER ->
                      CASE b.len # i.len -> Refuse
                        [] b.len = i.len /\ b.body = "bytes" -> Emit(b.digest.bytes)
                        [] OTHER -> /\ stack' = Deep(b.instrs, depth + 1) \o Tail(stack)
                                    /\ UNCHANGED <<stage, out, need, repairs, asked>>
      /\ UNCHANGED <<split, policy, sent, bloom, local, uplink, remote, lost, env>>

(***************************************************************************)
(* The next turn, and what may happen at any time                          *)
(***************************************************************************)
\* The answer brings the bloom filter of the remote store.
NextTurn ==
  /\ stage = "answered" /\ turns < Turns
  /\ bloom' = DOMAIN remote
  /\ doc' \in Bodies
  /\ groups' = <<>> /\ builder' = NewBuilder /\ open' = Closed /\ action' = "none"
  /\ trusted' = {} /\ uplink' = <<>> /\ stack' = <<>> /\ out' = <<>> /\ need' = {}
  /\ repairs' = 0 /\ asked' = {} /\ lost' = {}
  /\ stage' = "split" /\ turns' = turns + 1
  /\ UNCHANGED <<policy, sent, local, remote, events>>

Event == events > 0 /\ events' = events - 1
         /\ UNCHANGED <<split, policy, stage, rebuild, turns>>

RemoteEvicts ==
  /\ Event
  /\ \E d \in DOMAIN remote :
       /\ remote' = [e \in DOMAIN remote \ {d} |-> remote[e]]
       /\ lost' = lost \cup {d}
  /\ UNCHANGED <<sent, bloom, local>>

LocalEvicts ==
  /\ Event
  /\ \E d \in DOMAIN local :
       /\ local' = [e \in DOMAIN local \ {d} |-> local[e]]
       /\ lost' = lost \cup {d}
  /\ UNCHANGED <<sent, bloom, remote>>

\* Another turn notes a block as pushed before it arrives, or the filter collides.
ViewErrs ==
  /\ Event
  /\ \E c \in UNION {{g.cand} \cup ToSet(g.kids) : g \in ToSet(groups)} :
       sent' = sent \cup {DigestAt(c)}
  /\ UNCHANGED <<bloom, local, remote, lost>>

\* Another turn is told to clear the optimistic view.
ViewForgets ==
  /\ Event /\ sent' = {} /\ UNCHANGED <<bloom, local, remote, lost>>

Done == stage = "answered" /\ turns = Turns /\ UNCHANGED vars

Next == \/ Splits \/ Upload \/ SendWhole \/ Resend \/ FailThenWhole
        \/ Arrive \/ Rebuild \/ Resolve \/ NextTurn
        \/ RemoteEvicts \/ LocalEvicts \/ ViewErrs \/ ViewForgets \/ Done

Spec == Init /\ [][Next]_vars

(***************************************************************************)
(* Properties                                                              *)
(***************************************************************************)
IsStore(s) == \A d \in DOMAIN s : s[d].digest = d /\ s[d].len = Len(d.bytes)

\* Every stage, counter and store has its shape: a stored block is filed under its own
\* digest with its own length (Store::insert, BlockSource::get).
TypeOK ==
  /\ policy \in Policies /\ doc \in Bodies
  /\ action \in {"none", "splitting", "whole", "split"}
  /\ stage \in {"split", "arriving", "resolving", "need", "unrebuildable", "mismatch",
               "answered"}
  /\ IsStore(local) /\ IsStore(remote)
  /\ repairs \in 0 .. MaxRepairs /\ turns \in 1 .. Turns /\ events \in 0 .. MaxEvents

\* The load-bearing one (tests/identity.rs): at every point of a rebuild the bytes so far
\* begin the agent's body, and what is forwarded is that body.  No eviction, no wrong
\* view and no mixture of blocks of several turns makes resolve or the digest check fail.
Exact ==
  /\ stage = "resolving" => IsPrefix(out, doc.bytes)
  /\ stage = "answered" => out = doc.bytes
  /\ stage # "mismatch"

\* What the remote end is given is enough, in the order it is given (Builder::reference,
\* make_block): each reference of the program, and of a pushed block, is to a block the
\* view vouched for or to one pushed before, although the view changes during the split.
Covered ==
  /\ RefsOf(builder.instrs) \subseteq trusted \cup Queued(builder)
  /\ \A i \in DOMAIN builder.push :
       builder.push[i].body = "program" =>
         RefsOf(builder.push[i].instrs)
           \subseteq trusted \cup {builder.push[j].digest : j \in 1 .. i - 1}

\* The Builder's books: its instructions stand for exactly the bytes up to pos, each either
\* literal or covered by a reference, and no candidate to come starts before pos, that is,
\* none is ever lost to an overlap (structural_groups, lit, reference).
Tiles ==
  LET opened == IF open = Closed THEN 0 ELSE Size(open.cand) IN
  /\ TotalLen(builder.instrs) = builder.pos
  /\ builder.lit_bytes + builder.ref_covered = builder.pos + opened
  /\ \A g \in ToSet(groups) : builder.pos + opened <= g.cand.start

\* What goes out for a split: the payloads of the Program frame and of a frame for each
\* pushed block, as encoded (send_request).
UploadSize(b) == ProgramSize(b.instrs) + Total(BlockSize, b.push)

\* How long a span is, at least, for its length to take more bytes than it is charged
\* for; and what the lengths in a block may take beyond that.
LenUnit == Power(Radix, LenWire)
Long(b) == b.len \div LenUnit

\* What a split makes of a body is no larger than the body and the slack, once encoded, but
\* for what the estimate leaves out (inflates, policy.rs:125): the count of the program,
\* the head of each pushed block, and a byte for each LenUnit bytes.  So it is although the
\* estimate is made up of counters that were kept while blocks were found, nested, met
\* again and merged.
WireHonest ==
  action = "split" =>
    UploadSize(builder)
      <= Len(doc.bytes) + Slack + VarLen(Len(builder.instrs)) + Total(HeadSize, builder.push)
           + Len(doc.bytes) \div LenUnit + Total(Long, builder.push)

\* What was pushed can be pushed again (Ctx.local): it stays in the local store unless
\* evicted during the turn or never taken, also when an earlier turn first made the block.
Superset == \A b \in ToSet(builder.push) :
              Storable(b) => b.digest \in DOMAIN local \cup lost

\* Repair makes progress (remote_end's loop): in one turn a block is asked for again only
\* if it was evicted meanwhile or the local end has it no more.
AskedOnce ==
  [][stage # "need" /\ stage' = "need" =>
       need' \cap asked \subseteq lost \cup {d \in need' : d \notin DOMAIN local}]_vars

\* Repair is for wrong guesses only (Optimistic): as long as nothing was evicted, noted
\* or cleared, no turn asks for a block that the stores would take, whatever earlier
\* turns pushed.  One larger than max_block is asked for in every turn, in vain.
QuietWithoutFaults ==
  events = MaxEvents => \A d \in asked : Len(d.bytes) > policy.max_block
=============================================================================
