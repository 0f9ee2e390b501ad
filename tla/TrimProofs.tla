---------------------------- MODULE TrimProofs ----------------------------
(***************************************************************************)
(* Theorems about bodies on their way through the gateway, for every set   *)
(* of bodies and policies, any number of turns, repairs and evictions.     *)
(*                                                                         *)
(* The first part is about which blocks are where.  The second is about    *)
(* what is split, sent and rebuilt: what the remote end makes is the body, *)
(* it is given all it needs, no candidate is lost, sizes are honest, and   *)
(* without faults there is no repair.                                      *)
(*                                                                         *)
(* What a program stands for, and what the groups of a body are, are folds *)
(* of the community modules.  Each gets its equations here, by looking at  *)
(* the least number or set for which they would not hold: that needs no    *)
(* rule of induction with a predicate for a parameter.                     *)
(***************************************************************************)
EXTENDS Trim, TLAPS, FiniteSetTheorems, SequenceTheorems, WellFoundedInduction

-----------------------------------------------------------------------------
(* Part one: which blocks are where *)

USE TrimAssumption

-----------------------------------------------------------------------------
(* The inductive invariant *)

\* A block declares the length of the bytes its digest was taken of.
WellMade(b) == b.len = Len(b.digest.bytes)

StoreSound(s) ==
  /\ IsFiniteSet(DOMAIN s)
  /\ \A d \in DOMAIN s : s[d].digest = d /\ WellMade(s[d]) /\ Storable(s[d])

\* A list of blocks, of which only that it is one and what is in it matters.
BlockList(q) == (\E S : q \in Seq(S)) /\ \A b \in ToSet(q) : WellMade(b)

BuilderSound(b) == "push" \in DOMAIN b /\ BlockList(b.push)

\* What a builder has queued can be sent again.
Repeatable(b, s) ==
  \A k \in ToSet(b.push) : Storable(k) => k.digest \in DOMAIN s \cup lost

\* A stage finds the uplink and the books of repair as the one before left them.
Staged ==
  /\ stage = "split" => asked = {}
  /\ stage \in {"resolving", "need"} => uplink = <<>>

Coming == {b.digest : b \in {k \in ToSet(uplink) : Storable(k)}}

\* A block that was asked for is there, on its way, being asked for, evicted, or one
\* that the local end has not got.
Answerable(d) ==
  \/ d \in lost \cup DOMAIN remote \cup Coming
  \/ d \notin DOMAIN local
  \/ stage = "need" /\ d \in need

Supplied == \A d \in asked : Answerable(d)

IInv == /\ TypeOK /\ BuilderSound(builder) /\ StoreSound(local) /\ StoreSound(remote)
        /\ BlockList(uplink) /\ Superset /\ Staged /\ Supplied

-----------------------------------------------------------------------------
(* Lists and stores *)

\* Append adds its element to a list of blocks, and nothing else.
LEMMA AppendBlock ==
  ASSUME NEW q, NEW b, BlockList(q), WellMade(b)
  PROVE  BlockList(Append(q, b)) /\ ToSet(Append(q, b)) = ToSet(q) \cup {b}
<1>1. PICK S : q \in Seq(S)
  BY DEF BlockList
<1>2. Append(q, b) \in Seq(S \cup {b})
  BY <1>1
<1>3. /\ DOMAIN Append(q, b) = DOMAIN q \cup {Len(q) + 1}
      /\ \A i \in DOMAIN q : Append(q, b)[i] = q[i]
      /\ Append(q, b)[Len(q) + 1] = b
  BY <1>1
<1>4. ToSet(Append(q, b)) = ToSet(q) \cup {b}
  BY <1>3 DEF ToSet
<1> QED
  BY <1>2, <1>4 DEF BlockList

\* The tail of a list of blocks holds what the list holds but its head at most.
LEMMA TailBlock ==
  ASSUME NEW q, BlockList(q), q # <<>>
  PROVE  /\ BlockList(Tail(q)) /\ ToSet(q) = ToSet(Tail(q)) \cup {Head(q)}
         /\ WellMade(Head(q))
<1>1. PICK S : q \in Seq(S)
  BY DEF BlockList
<1>2. /\ Tail(q) \in Seq(S) /\ Len(q) \in Nat \ {0} /\ Len(Tail(q)) = Len(q) - 1
      /\ Head(q) = q[1] /\ \A i \in 1 .. Len(q) - 1 : Tail(q)[i] = q[i + 1]
  BY <1>1
<1>3. DOMAIN q = 1 .. Len(q) /\ DOMAIN Tail(q) = 1 .. Len(q) - 1
  BY <1>1, <1>2
<1>4. ToSet(q) = ToSet(Tail(q)) \cup {Head(q)}
  <2>1. \A i \in 1 .. Len(q) : i = 1 \/ (i - 1 \in 1 .. Len(q) - 1 /\ q[i] = Tail(q)[i - 1])
    BY <1>2
  <2>2. \A i \in 1 .. Len(q) - 1 : i + 1 \in 1 .. Len(q)
    BY <1>2
  <2>3. 1 \in DOMAIN q /\ q[1] \in ToSet(q)
    BY <1>2, <1>3 DEF ToSet
  <2>4. ASSUME NEW b \in ToSet(q) PROVE b \in ToSet(Tail(q)) \cup {q[1]}
    <3>1. PICK i \in 1 .. Len(q) : b = q[i]
      BY <1>3 DEF ToSet
    <3>2. CASE i = 1
      BY <3>1, <3>2
    <3>3. CASE i # 1
      <4>1. i - 1 \in DOMAIN Tail(q) /\ q[i] = Tail(q)[i - 1]
        BY <1>3, <2>1, <3>3
      <4> QED
        BY <3>1, <4>1 DEF ToSet
    <3> QED
      BY <3>2, <3>3
  <2>5. ASSUME NEW b \in ToSet(Tail(q)) PROVE b \in ToSet(q)
    BY <1>2, <1>3, <2>2 DEF ToSet
  <2> QED
    BY <1>2, <2>3, <2>4, <2>5
<1> QED
  BY <1>2, <1>4 DEF BlockList

\* No blocks.
LEMMA NoneToSend == BlockList(<<>>) /\ ToSet(<<>>) = {}
BY DEF BlockList, ToSet

\* Blocks come from two constructors, and both declare the right length.
LEMMA Made == \A d, prog : WellMade(Raw(d)) /\ WellMade(Nested(d, prog))
BY DEF WellMade, Raw, Nested

\* insert keeps a store sound, drops nothing, and takes whatever it may.
LEMMA InsertSound ==
  ASSUME NEW s, NEW b, StoreSound(s), WellMade(b)
  PROVE  /\ StoreSound(Inserted(s, b))
         /\ DOMAIN s \subseteq DOMAIN Inserted(s, b)
         /\ Storable(b) => b.digest \in DOMAIN Inserted(s, b)
<1>1. CASE b.digest \in DOMAIN s \/ ~Storable(b)
  BY <1>1 DEF Inserted
<1>2. CASE ~(b.digest \in DOMAIN s \/ ~Storable(b))
  <2> DEFINE t == [d \in DOMAIN s \cup {b.digest} |-> IF d = b.digest THEN b ELSE s[d]]
  <2>1. Inserted(s, b) = t
    BY <1>2 DEF Inserted
  <2>2. IsFiniteSet(DOMAIN t)
    BY FS_AddElement DEF StoreSound
  <2>3. \A d \in DOMAIN t : t[d].digest = d /\ WellMade(t[d]) /\ Storable(t[d])
    BY <1>2 DEF StoreSound
  <2> QED
    BY <2>1, <2>2, <2>3 DEF StoreSound
<1> QED
  BY <1>1, <1>2

\* prune leaves a store sound.
LEMMA EvictSound ==
  ASSUME NEW s, NEW d, StoreSound(s)
  PROVE  StoreSound([e \in DOMAIN s \ {d} |-> s[e]])
BY FS_RemoveElement DEF StoreSound

\* What is sent again is what was asked for and is held, all of it.
LEMMA OrderOf ==
  ASSUME NEW S, IsFiniteSet(S)
  PROVE  SetToSeq(S) \in Seq(S) /\ ToSet(SetToSeq(S)) = S
<1>1. Cardinality(S) \in Nat /\ ExistsBijection(1 .. Cardinality(S), S)
  BY FS_CardinalityType
<1>2. \E f \in [1 .. Cardinality(S) -> S] : IsInjective(f)
  BY <1>1 DEF ExistsBijection, Bijection, Injection, IsInjective
<1>3. SetToSeq(S) \in [1 .. Cardinality(S) -> S] /\ IsInjective(SetToSeq(S))
  BY <1>2 DEF SetToSeq
<1>4. SetToSeq(S) \in Injection(1 .. Cardinality(S), S)
  BY <1>3 DEF Injection, IsInjective
<1>5. Cardinality(1 .. Cardinality(S)) = Cardinality(S)
  BY <1>1, FS_Interval
<1>6. SetToSeq(S) \in Surjection(1 .. Cardinality(S), S)
  BY <1>4, <1>5, FS_Injection
<1>7. ToSet(SetToSeq(S)) = S
  BY <1>3, <1>6 DEF ToSet, Surjection
<1>8. SetToSeq(S) \in Seq(S)
  BY <1>1, <1>3, SeqDef
<1> QED
  BY <1>7, <1>8
-----------------------------------------------------------------------------
(* The Builder *)

\* lit, and the counters and instructions of reference, leave the queue alone.
LEMMA SameQueue ==
  ASSUME NEW b, "push" \in DOMAIN b
  PROVE  /\ \A to : /\ "push" \in DOMAIN Literal(b, to)
                    /\ Literal(b, to).push = b.push
         /\ \A c : /\ "push" \in DOMAIN Refer(b, c)
                   /\ Refer(b, c).push = b.push
BY DEF Literal, Refer

LEMMA CountedQueue ==
  ASSUME BuilderSound(builder), NEW c
  PROVE  BuilderSound(Counted(c)) /\ Counted(c).push = builder.push
<1>1. "push" \in DOMAIN builder
  BY DEF BuilderSound
<1>2. LET l == Literal(builder, c.start) IN "push" \in DOMAIN l /\ l.push = builder.push
  BY <1>1, SameQueue
<1>3. "push" \in DOMAIN Counted(c) /\ Counted(c).push = builder.push
  BY <1>2 DEF Counted
<1> QED
  BY <1>3 DEF BuilderSound

\* queue and its write-through: b is the builder so far, with the queue of builder.
LEMMA QueueSound ==
  ASSUME NEW b, NEW blk, BuilderSound(b), WellMade(blk), b.push = builder.push,
         StoreSound(local), Repeatable(b, local)
  PROVE  /\ BuilderSound(Queue(b, blk))
         /\ StoreSound(Through(builder, blk))
         /\ Repeatable(Queue(b, blk), Through(builder, blk))
<1>1. Queued(b) = Queued(builder)
  BY DEF Queued
<1>2. CASE blk.digest \in Queued(b)
  BY <1>1, <1>2 DEF Queue, Through
<1>3. CASE blk.digest \notin Queued(b)
  <2>1. Through(builder, blk) = Inserted(local, blk)
    BY <1>1, <1>3 DEF Through
  <2>2. "push" \in DOMAIN Queue(b, blk) /\ Queue(b, blk).push = Append(b.push, blk)
    BY <1>3 DEF Queue, BuilderSound
  <2>3. /\ BlockList(Append(b.push, blk))
        /\ ToSet(Append(b.push, blk)) = ToSet(b.push) \cup {blk}
    BY AppendBlock DEF BuilderSound
  <2> QED
    BY <2>1, <2>2, <2>3, InsertSound DEF BuilderSound, Repeatable
<1> QED
  BY <1>2, <1>3

\* What the splitter may do to the queue and the local store, one step at a time.
LEMMA SplitSteps ==
  ASSUME IInv, Splits
  PROVE  BuilderSound(builder') /\ StoreSound(local') /\ Repeatable(builder', local')
<1> USE DEF IInv
<1>0. /\ BuilderSound(builder) /\ StoreSound(local) /\ Repeatable(builder, local)
      /\ "push" \in DOMAIN builder
  BY DEF Superset, Repeatable, BuilderSound
<1>1. ASSUME Split(doc)
      PROVE  BuilderSound(builder') /\ StoreSound(local') /\ Repeatable(builder', local')
  <2>1. builder' = NewBuilder /\ local' = local
    BY <1>1 DEF Split
  <2>2. "push" \in DOMAIN NewBuilder /\ NewBuilder.push = <<>>
    BY DEF NewBuilder
  <2> QED
    BY <1>0, <2>1, <2>2, NoneToSend DEF BuilderSound, Repeatable
<1>2. ASSUME Reference
      PROVE  BuilderSound(builder') /\ StoreSound(local') /\ Repeatable(builder', local')
  <2> DEFINE c == Head(groups).cand
             d == DigestAt(c)
  <2>1. /\ BuilderSound(Counted(c)) /\ Counted(c).push = builder.push
        /\ Repeatable(Counted(c), local)
    BY <1>0, CountedQueue DEF Repeatable
  <2>2. CASE builder' = builder /\ local' = local
    BY <1>0, <2>2
  <2>3. CASE builder' = Refer(Counted(c), c) /\ local' = local
    <3>1. "push" \in DOMAIN builder' /\ builder'.push = Counted(c).push
      BY <2>1, <2>3, SameQueue DEF BuilderSound
    <3> QED
      BY <1>0, <2>1, <2>3, <3>1 DEF BuilderSound, Repeatable
  <2>4. CASE /\ builder' = Refer(Queue(Counted(c), Raw(d)), c)
             /\ local' = Through(builder, Raw(d))
    <3>1. /\ BuilderSound(Queue(Counted(c), Raw(d))) /\ StoreSound(local')
          /\ Repeatable(Queue(Counted(c), Raw(d)), local')
      BY <1>0, <2>1, <2>4, Made, QueueSound
    <3>2. "push" \in DOMAIN builder' /\ builder'.push = Queue(Counted(c), Raw(d)).push
      BY <2>4, <3>1, SameQueue DEF BuilderSound
    <3> QED
      BY <3>1, <3>2 DEF BuilderSound, Repeatable
  <2>5. CASE builder' = Counted(c) /\ local' = local
    BY <1>0, <2>1, <2>5
  <2> QED
    BY <1>2, <2>2, <2>3, <2>4, <2>5 DEF Reference
<1>3. ASSUME Nest
      PROVE  BuilderSound(builder') /\ StoreSound(local') /\ Repeatable(builder', local')
  <2> DEFINE d    == DigestAt(Head(open.kids))
             once == [builder EXCEPT !.refs = @ + 1]
  <2>1. "push" \in DOMAIN once /\ once.push = builder.push
    BY <1>0
  <2>2. BuilderSound(once) /\ Repeatable(once, local)
    BY <1>0, <2>1 DEF BuilderSound, Repeatable
  <2> HIDE DEF once
  <2>3. CASE builder' = builder /\ local' = local
    BY <1>0, <2>3
  <2>4. CASE builder' = once /\ local' = local
    BY <1>0, <2>2, <2>4
  <2>5. CASE builder' = Queue(once, Raw(d)) /\ local' = Through(builder, Raw(d))
    BY <1>0, <2>1, <2>2, <2>5, Made, QueueSound
  <2> QED
    BY <1>3, <2>3, <2>4, <2>5 DEF Nest, once
<1>4. ASSUME CloseBlock
      PROVE  BuilderSound(builder') /\ StoreSound(local') /\ Repeatable(builder', local')
  <2>1. PICK blk : /\ WellMade(blk)
                   /\ builder' = Refer(Queue(builder, blk), open.cand)
                   /\ local' = Through(builder, blk)
    BY <1>4, Made DEF CloseBlock
  <2>2. /\ BuilderSound(Queue(builder, blk)) /\ StoreSound(local')
        /\ Repeatable(Queue(builder, blk), local')
    BY <1>0, <2>1, QueueSound
  <2>3. "push" \in DOMAIN builder' /\ builder'.push = Queue(builder, blk).push
    BY <2>1, <2>2, SameQueue DEF BuilderSound
  <2> QED
    BY <2>2, <2>3 DEF BuilderSound, Repeatable
<1>5. ASSUME Finish
      PROVE  BuilderSound(builder') /\ StoreSound(local') /\ Repeatable(builder', local')
  <2> DEFINE b == Literal(builder, Len(doc.bytes))
  <2>1. "push" \in DOMAIN b /\ b.push = builder.push
    BY <1>0, SameQueue
  <2> HIDE DEF b
  <2>2. "push" \in DOMAIN builder' /\ builder'.push = builder.push /\ local' = local
    BY <1>5, <2>1 DEF Finish, b
  <2> QED
    BY <1>0, <2>2 DEF BuilderSound, Repeatable
<1> QED
  BY <1>1, <1>2, <1>3, <1>4, <1>5 DEF Splits
-----------------------------------------------------------------------------
(* Every step *)

\* The local end's turn of work on a body.
LEMMA StepSplits == ASSUME IInv, Splits PROVE IInv'
<1> USE DEF IInv
<1>1. BuilderSound(builder') /\ StoreSound(local') /\ Repeatable(builder', local')
  BY SplitSteps
<1>2. /\ UNCHANGED <<stage, uplink, remote, need, asked, lost, repairs, turns, events>>
      /\ policy' = policy /\ stage = "split" /\ asked = {}
  BY DEF Splits, Split, Reference, Nest, CloseBlock, Finish, rebuild, env, Staged
<1>3. doc' \in Bodies /\ action' \in {"none", "splitting", "whole", "split"}
  BY DEF Splits, Split, Reference, Nest, CloseBlock, Finish, TypeOK
<1>4. StoreSound(local)' /\ StoreSound(remote)'
  BY <1>1, <1>2 DEF StoreSound, Storable
<1>5. TypeOK'
  BY <1>2, <1>3, <1>4 DEF TypeOK, IsStore, StoreSound, WellMade
<1>6. Superset'
  BY <1>1, <1>2 DEF Superset, Repeatable, Storable
<1>7. Staged' /\ Supplied' /\ BlockList(uplink)'
  BY <1>2 DEF Staged, Supplied
<1> QED
  BY <1>1, <1>4, <1>5, <1>6, <1>7

\* Steps that leave the builder, the stores and the policy alone.
LEMMA Undisturbed ==
  ASSUME IInv, UNCHANGED <<builder, local, remote, policy, lost, doc, action>>,
         stage' \in {"split", "arriving", "resolving", "need", "unrebuildable", "mismatch",
                     "answered"},
         repairs' \in 0 .. MaxRepairs, turns' = turns, events' = events
  PROVE  /\ TypeOK' /\ BuilderSound(builder)' /\ StoreSound(local)' /\ StoreSound(remote)'
         /\ Superset'
BY DEF IInv, TypeOK, IsStore, StoreSound, Storable, Superset

\* Upload: what is pushed is on its way, and nothing has been asked for.
LEMMA StepUpload == ASSUME IInv, Upload PROVE IInv'
<1>1. /\ UNCHANGED <<builder, local, remote, policy, lost, doc, action, repairs, turns,
                     events, asked>>
      /\ stage' = "arriving" /\ stage = "split" /\ uplink' = builder.push
  BY DEF Upload, split, env
<1>2. asked = {}
  BY <1>1 DEF IInv, Staged
<1>3. repairs' \in 0 .. MaxRepairs
  BY <1>1 DEF IInv, TypeOK
<1>4. Staged' /\ Supplied' /\ BlockList(uplink)'
  BY <1>1, <1>2 DEF Staged, Supplied, IInv, BuilderSound
<1> QED
  BY <1>1, <1>3, <1>4, Undisturbed DEF IInv

\* The body goes whole, at once or after Fail.
LEMMA StepWhole == ASSUME IInv, SendWhole \/ FailThenWhole PROVE IInv'
<1>1. /\ UNCHANGED <<builder, local, remote, policy, lost, doc, action, repairs, turns,
                     events, asked, uplink>>
      /\ stage' = "answered" /\ stage # "need"
  BY DEF SendWhole, FailThenWhole, split, env
<1>2. repairs' \in 0 .. MaxRepairs
  BY <1>1 DEF IInv, TypeOK
<1>3. Supplied'
  BY <1>1 DEF IInv, Supplied, Answerable, Coming, Storable
<1>4. Staged' /\ BlockList(uplink)'
  BY <1>1 DEF Staged, IInv
<1> QED
  BY <1>1, <1>2, <1>3, <1>4, Undisturbed DEF IInv

\* Resend: all of what is asked for and held goes out, and a store would take it.
LEMMA StepResend == ASSUME IInv, Resend PROVE IInv'
<1> DEFINE S     == need \cap DOMAIN local
           order == SetToSeq(S)
           sends == [i \in DOMAIN order |-> local[order[i]]]
<1>1. /\ UNCHANGED <<builder, local, remote, policy, lost, doc, action, repairs, turns,
                     events, asked>>
      /\ stage' = "arriving" /\ stage = "need" /\ uplink' = sends
  BY DEF Resend, split, env
<1>2. repairs' \in 0 .. MaxRepairs
  BY <1>1 DEF IInv, TypeOK
<1>3. order \in Seq(S) /\ ToSet(order) = S
  BY OrderOf, FS_Intersection DEF IInv, StoreSound
<1>4. \A i \in DOMAIN order : order[i] \in S
  BY <1>3 DEF ToSet
<1>5. sends \in Seq({local[d] : d \in S})
  <2> DEFINE T == {local[d] : d \in S}
  <2>1. Len(order) \in Nat /\ DOMAIN order = 1 .. Len(order)
    BY <1>3
  <2>2. \A i \in DOMAIN order : local[order[i]] \in T
    BY <1>4
  <2> HIDE DEF T, order
  <2>3. sends \in [1 .. Len(order) -> T]
    BY <2>1, <2>2
  <2>4. sends \in Seq(T)
    BY <2>1, <2>3, SeqDef
  <2> QED
    BY <2>4 DEF T
<1>6. ToSet(sends) = {local[d] : d \in S}
  <2>1. \A d \in S : \E i \in DOMAIN order : d = order[i]
    BY <1>3 DEF ToSet
  <2>2. DOMAIN sends = DOMAIN order /\ \A i \in DOMAIN order : sends[i] = local[order[i]]
    OBVIOUS
  <2> HIDE DEF sends, order
  <2> QED
    BY <1>4, <2>1, <2>2 DEF ToSet
<1> HIDE DEF sends, order
<1>7. BlockList(uplink)'
  BY <1>1, <1>5, <1>6 DEF BlockList, IInv, StoreSound
<1>8. S \subseteq Coming'
  BY <1>1, <1>6 DEF Coming, IInv, StoreSound, Storable
<1>9. uplink = <<>> /\ Coming = {}
  BY <1>1 DEF IInv, Staged, Coming, ToSet
<1>10. ASSUME NEW d \in asked PROVE Answerable(d)'
  BY <1>1, <1>8, <1>9 DEF IInv, Supplied, Answerable
<1>11. Supplied' /\ Staged'
  BY <1>1, <1>10 DEF Supplied, Staged
<1> QED
  BY <1>1, <1>2, <1>7, <1>11, Undisturbed DEF IInv

\* Arrive: what a store would take is there afterwards.
LEMMA StepArrive == ASSUME IInv, Arrive PROVE IInv'
<1> DEFINE b == Head(uplink)
<1>1. /\ UNCHANGED <<builder, local, policy, lost, doc, action, repairs, turns, events,
                     asked, stage>>
      /\ stage = "arriving" /\ uplink # <<>> /\ uplink' = Tail(uplink)
      /\ remote' = Inserted(remote, b)
  BY DEF Arrive, split, env
<1>2. /\ BlockList(Tail(uplink)) /\ ToSet(uplink) = ToSet(Tail(uplink)) \cup {b}
      /\ WellMade(b)
  BY <1>1, TailBlock DEF IInv
<1> HIDE DEF b
<1>3. /\ StoreSound(remote') /\ DOMAIN remote \subseteq DOMAIN remote'
      /\ Storable(b) => b.digest \in DOMAIN remote'
  BY <1>1, <1>2, InsertSound DEF IInv
<1>4. StoreSound(remote)' /\ StoreSound(local)'
  BY <1>1, <1>3 DEF StoreSound, Storable, IInv
<1>5. TypeOK' /\ BuilderSound(builder)' /\ Superset'
  BY <1>1, <1>4 DEF IInv, TypeOK, IsStore, StoreSound, WellMade, Superset, Storable
<1>6. Coming \subseteq Coming' \cup DOMAIN remote'
  BY <1>1, <1>2, <1>3 DEF Coming, Storable
<1>7. ASSUME NEW d \in asked PROVE Answerable(d)'
  BY <1>1, <1>3, <1>6 DEF IInv, Supplied, Answerable
<1>8. Supplied' /\ Staged' /\ BlockList(uplink)'
  BY <1>1, <1>2, <1>7 DEF Supplied, Staged
<1> QED
  BY <1>1, <1>4, <1>5, <1>8 DEF IInv

\* Asking for blocks the remote end has not got, with nothing on its way: none of them
\* was asked for before, unless it was evicted or the local end has not got it.
LEMMA Asks ==
  ASSUME IInv, NEW ds, Ask(ds), ds \cap DOMAIN remote = {}, stage # "need",
         uplink = <<>>, UNCHANGED <<builder, local, remote, policy, lost, doc, action, turns,
                                    events, uplink>>
  PROVE  /\ IInv'
         /\ stage' = "need" =>
              need' \cap asked \subseteq lost \cup {d \in need' : d \notin DOMAIN local}
<1>1. Coming = {}
  BY DEF Coming, ToSet
<1>2. \A d \in asked : d \in lost \cup DOMAIN remote \/ d \notin DOMAIN local
  BY <1>1 DEF IInv, Supplied, Answerable
<1>3. repairs' \in 0 .. MaxRepairs /\ stage' \in {"unrebuildable", "need"}
  BY DEF Ask, IInv, TypeOK
<1>4. stage' = "need" => need' = ds /\ asked' = asked \cup ds
  BY DEF Ask
<1>5. stage' = "unrebuildable" => asked' = asked
  BY DEF Ask
<1>6. \A d \in asked' : Answerable(d)'
  BY <1>2, <1>3, <1>4, <1>5 DEF Answerable
<1>7. Supplied' /\ Staged' /\ BlockList(uplink)'
  BY <1>3, <1>6 DEF Supplied, Staged, IInv
<1>8. IInv'
  BY <1>3, <1>7, Undisturbed DEF IInv
<1> QED
  BY <1>2, <1>4, <1>8

\* A step of a rebuild that asks for nothing.
LEMMA Proceeds ==
  ASSUME IInv, UNCHANGED <<builder, local, remote, policy, lost, doc, action, turns, events,
                           uplink, need, repairs, asked>>,
         stage \in {"arriving", "resolving"}, uplink = <<>>,
         stage' \in {"resolving", "answered", "mismatch"}
  PROVE  IInv'
<1>1. repairs' \in 0 .. MaxRepairs
  BY DEF IInv, TypeOK
<1>2. Supplied' /\ Staged' /\ BlockList(uplink)'
  BY DEF IInv, Supplied, Answerable, Coming, Storable, Staged
<1> QED
  BY <1>1, <1>2, Undisturbed DEF IInv

\* Rebuild: it asks for what is missing, or starts to resolve.
LEMMA StepRebuild ==
  ASSUME IInv, Rebuild
  PROVE  /\ IInv'
         /\ stage' = "need" =>
              need' \cap asked \subseteq lost \cup {d \in need' : d \notin DOMAIN local}
<1>1. /\ UNCHANGED <<builder, local, remote, policy, lost, doc, action, turns, events, uplink>>
      /\ stage = "arriving" /\ uplink = <<>>
  BY DEF Rebuild, split, env
<1>2. CASE Ask(Missing)
  BY <1>1, <1>2, Asks DEF Missing
<1>3. CASE ~Ask(Missing)
  <2>1. UNCHANGED <<need, repairs, asked>> /\ stage' = "resolving"
    BY <1>3 DEF Rebuild
  <2> QED
    BY <1>1, <2>1, Proceeds
<1> QED
  BY <1>2, <1>3

\* Resolve: the same, for the one block it finds missing.
LEMMA StepResolve ==
  ASSUME IInv, Resolve
  PROVE  /\ IInv'
         /\ stage' = "need" =>
              need' \cap asked \subseteq lost \cup {d \in need' : d \notin DOMAIN local}
<1> DEFINE i == Head(stack).instr
<1>1. /\ UNCHANGED <<builder, local, remote, policy, lost, doc, action, turns, events, uplink>>
      /\ stage = "resolving"
  BY DEF Resolve, split, env
<1>2. uplink = <<>>
  BY <1>1 DEF IInv, Staged
<1>3. CASE i.digest \notin DOMAIN remote /\ Ask({i.digest})
  <2>1. {i.digest} \cap DOMAIN remote = {}
    BY <1>3
  <2> QED
    BY <1>1, <1>2, <1>3, <2>1, Asks
<1>4. CASE /\ UNCHANGED <<need, repairs, asked>>
           /\ stage' \in {"resolving", "answered", "mismatch"}
  BY <1>1, <1>2, <1>4, Proceeds
<1> QED
  BY <1>1, <1>3, <1>4 DEF Resolve, Emit, Refuse

\* NextTurn: the books of the last turn are closed.
LEMMA StepNextTurn == ASSUME IInv, NextTurn PROVE IInv'
<1>1. /\ UNCHANGED <<policy, local, remote, events>> /\ doc' \in Bodies
      /\ action' = "none" /\ builder' = NewBuilder /\ uplink' = <<>> /\ asked' = {}
      /\ repairs' = 0 /\ stage' = "split" /\ turns < Turns /\ turns' = turns + 1
  BY DEF NextTurn
<1>2. "push" \in DOMAIN NewBuilder /\ NewBuilder.push = <<>>
  BY DEF NewBuilder
<1>3. BuilderSound(builder)' /\ BlockList(uplink)' /\ Superset'
  BY <1>1, <1>2, NoneToSend DEF BuilderSound, Superset
<1>4. StoreSound(local)' /\ StoreSound(remote)'
  BY <1>1 DEF IInv, StoreSound, Storable
<1>5. TypeOK'
  BY <1>1 DEF IInv, TypeOK, IsStore
<1>6. Staged' /\ Supplied'
  BY <1>1 DEF Staged, Supplied
<1> QED
  BY <1>3, <1>4, <1>5, <1>6 DEF IInv

\* Evictions move digests from a store to those lost; the view is not spoken of at all.
LEMMA StepEvent ==
  ASSUME IInv, RemoteEvicts \/ LocalEvicts \/ ViewErrs \/ ViewForgets
  PROVE  IInv'
<1>1. /\ UNCHANGED <<builder, policy, doc, action, turns, uplink, need, repairs, asked, stage>>
      /\ events' \in 0 .. MaxEvents
  BY DEF RemoteEvicts, LocalEvicts, ViewErrs, ViewForgets, Event, split, rebuild, IInv, TypeOK
<1>2. CASE UNCHANGED <<local, remote, lost>>
  BY <1>1, <1>2 DEF IInv, TypeOK, IsStore, BuilderSound, BlockList, StoreSound, Storable,
                    Superset, Staged, Supplied, Answerable, Coming
<1>3. ASSUME NEW d, local' = local, lost' = lost \cup {d},
             remote' = [e \in DOMAIN remote \ {d} |-> remote[e]]
      PROVE  IInv'
  <2>1. StoreSound(remote') /\ DOMAIN remote' = DOMAIN remote \ {d}
    BY <1>3, EvictSound DEF IInv
  <2>2. StoreSound(remote)' /\ StoreSound(local)'
    BY <1>1, <1>3, <2>1 DEF IInv, StoreSound, Storable
  <2>3. TypeOK' /\ Superset' /\ BuilderSound(builder)' /\ BlockList(uplink)' /\ Staged'
    BY <1>1, <1>3, <2>2 DEF IInv, TypeOK, IsStore, StoreSound, WellMade, Superset, Storable,
                             Staged
  <2>4. \A x \in asked : Answerable(x)'
    BY <1>1, <1>3, <2>1 DEF IInv, Supplied, Answerable, Coming, Storable
  <2> QED
    BY <1>1, <2>2, <2>3, <2>4 DEF IInv, Supplied
<1>4. ASSUME NEW d, remote' = remote, lost' = lost \cup {d},
             local' = [e \in DOMAIN local \ {d} |-> local[e]]
      PROVE  IInv'
  <2>1. StoreSound(local') /\ DOMAIN local' = DOMAIN local \ {d}
    BY <1>4, EvictSound DEF IInv
  <2>2. StoreSound(remote)' /\ StoreSound(local)'
    BY <1>1, <1>4, <2>1 DEF IInv, StoreSound, Storable
  <2>3. TypeOK' /\ BuilderSound(builder)' /\ BlockList(uplink)' /\ Staged'
    BY <1>1, <1>4, <2>2 DEF IInv, TypeOK, IsStore, StoreSound, WellMade, Staged
  <2>4. Superset'
    BY <1>1, <1>4, <2>1 DEF IInv, Superset, Storable
  <2>5. \A x \in asked : Answerable(x)'
    BY <1>1, <1>4, <2>1 DEF IInv, Supplied, Answerable, Coming, Storable
  <2> QED
    BY <1>1, <2>2, <2>3, <2>4, <2>5 DEF IInv, Supplied
<1> QED
  BY <1>2, <1>3, <1>4 DEF RemoteEvicts, LocalEvicts, ViewErrs, ViewForgets

-----------------------------------------------------------------------------
\* The initial states have the invariant.
LEMMA Begins == Init => IInv
<1> SUFFICES ASSUME Init PROVE IInv
  OBVIOUS
<1>1. DOMAIN NoBlocks = {} /\ IsFiniteSet({})
  BY FS_EmptySet DEF NoBlocks
<1>2. "push" \in DOMAIN NewBuilder /\ NewBuilder.push = <<>>
  BY DEF NewBuilder
<1>3. BuilderSound(builder) /\ BlockList(uplink) /\ Superset
  BY <1>2, NoneToSend DEF Init, BuilderSound, Superset
<1>4. StoreSound(local) /\ StoreSound(remote)
  BY <1>1 DEF Init, StoreSound
<1>5. TypeOK
  BY <1>1 DEF Init, TypeOK, IsStore
<1> QED
  BY <1>3, <1>4, <1>5 DEF Init, IInv, Staged, Supplied

\* Every step keeps it.
LEMMA Keeps == IInv /\ [Next]_vars => IInv'
<1> SUFFICES ASSUME IInv, [Next]_vars PROVE IInv'
  OBVIOUS
<1>1. CASE UNCHANGED vars
  BY <1>1 DEF vars, split, rebuild, env, IInv, TypeOK, IsStore, BuilderSound, BlockList,
              StoreSound, Storable, Superset, Staged, Supplied, Answerable, Coming
<1>2. CASE Next
  BY <1>1, <1>2, StepSplits, StepUpload, StepWhole, StepResend, StepArrive, StepRebuild,
     StepResolve, StepNextTurn, StepEvent DEF Next, Done
<1> QED
  BY <1>1, <1>2

LEMMA IInvHolds == Spec => []IInv
  BY Begins, Keeps, PTL DEF Spec

\* In every state: stages, counters and both stores are as TypeOK says, so a store never
\* holds a block under another digest or with another length than its own.
THEOREM StoresWellFormed == Spec => []TypeOK
<1>1. IInv => TypeOK
  BY DEF IInv
<1> QED
  BY <1>1, IInvHolds, PTL

\* Whatever turns, evictions and wrong guesses came before, every block a split pushes can
\* be sent again, unless it was evicted in this turn or no store would take it.
THEOREM EveryPushRepeatable == Spec => []Superset
<1>1. IInv => Superset
  BY DEF IInv
<1> QED
  BY <1>1, IInvHolds, PTL

\* No repair loop: within a turn, a second request for a block is due to an eviction, or to
\* a block that the local end has not got, however bodies, blocks and evictions fall.
THEOREM NeverAskedInVain == Spec => AskedOnce
<1> DEFINE Fresh == stage # "need" /\ stage' = "need" =>
                      need' \cap asked
                        \subseteq lost \cup {d \in need' : d \notin DOMAIN local}
<1>1. IInv /\ [Next]_vars => [Fresh]_vars
  <2> SUFFICES ASSUME IInv, Next PROVE Fresh
    OBVIOUS
  <2>1. CASE Rebuild
    BY <2>1, StepRebuild
  <2>2. CASE Resolve
    BY <2>2, StepResolve
  <2>3. CASE Next /\ ~Rebuild /\ ~Resolve
    <3>1. stage' = stage \/ stage' # "need"
      BY <2>3 DEF Next, Splits, Upload, SendWhole, Resend, FailThenWhole, Arrive, NextTurn,
                  RemoteEvicts, LocalEvicts, ViewErrs, ViewForgets, Event, Done, vars
    <3> QED
      BY <3>1
  <2> QED
    BY <2>1, <2>2, <2>3
<1> QED
  BY <1>1, IInvHolds, PTL DEF Spec, AskedOnce

-----------------------------------------------------------------------------
(* Part two: what is split, sent and rebuilt *)

HIDE TrimAssumption

-----------------------------------------------------------------------------
(* Natural numbers and folds *)

\* A set of natural numbers has a least one.
LEMMA LeastNumber ==
  ASSUME NEW T \in SUBSET Nat, T # {}
  PROVE  \E m \in T : \A k \in T : m <= k
<1>1. PICK m \in T : \A k \in T : ~ (<<k, m>> \in OpToRel(<, Nat))
  BY NatLessThanWellFounded, WFMin
<1>2. \A k \in T : ~ (k < m)
  BY <1>1 DEF OpToRel
<1> QED
  BY <1>2

\* Induction up to n, with a set in place of a predicate.
LEMMA UpTo ==
  ASSUME NEW n \in Nat, NEW Good, 0 \in Good,
         \A k \in 0 .. n - 1 : k \in Good => k + 1 \in Good
  PROVE  \A k \in 0 .. n : k \in Good
<1> DEFINE Bad == {k \in 0 .. n : k \notin Good}
<1>1. ASSUME Bad # {} PROVE FALSE
  <2>1. PICK m \in Bad : \A k \in Bad : m <= k
    <3> Bad \in SUBSET Nat
      OBVIOUS
    <3> HIDE DEF Bad
    <3> QED
      BY <1>1, LeastNumber
  <2>2. m \in 0 .. n /\ m # 0
    OBVIOUS
  <2>3. m - 1 \in 0 .. n - 1 /\ m - 1 \notin Bad
    BY <2>1, <2>2
  <2>4. m - 1 \in Good
    BY <2>2, <2>3
  <2> QED
    BY <2>2, <2>3, <2>4
<1> QED
  BY <1>1

\* The first of a finite set of sets that is in no other one's place.
LEMMA LeastSet ==
  ASSUME NEW S, IsFiniteSet(S), NEW Bad, Bad # {}, \A C \in Bad : C \subseteq S
  PROVE  \E B \in Bad : \A C \in Bad : C \subseteq B => C = B
<1> DEFINE R == StrictSubsetOrdering(S)
<1>1. IsWellFoundedOn(R, FiniteSubsetsOf(S))
  BY FS_StrictSubsetOrderingWellFounded
<1>2. Bad \subseteq FiniteSubsetsOf(S)
  BY FS_FiniteSubsetsOfFinite
<1>3. PICK B \in Bad : \A C \in Bad : <<C, B>> \notin R
  BY <1>1, <1>2, WFMin
<1>4. ASSUME NEW C \in Bad, C \subseteq B, C # B
      PROVE  FALSE
  <2>1. <<C, B>> \in R
    BY <1>4 DEF StrictSubsetOrdering
  <2> QED
    BY <2>1, <1>3
<1> QED
  BY <1>4

\* The greatest of some positions is one of them.
LEMMA MaxIn ==
  ASSUME NEW n \in Nat, NEW s, s \subseteq 1 .. n, s # {}
  PROVE  Max(s) \in s /\ \A k \in s : k <= Max(s)
<1>1. PICK m \in Nat : /\ \A k \in s : k <= m
                      /\ \A j \in Nat : (\A k \in s : k <= j) => m <= j
  <2> DEFINE T == {j \in Nat : \A k \in s : k <= j}
  <2>1. n \in T
    OBVIOUS
  <2>2. T \in SUBSET Nat /\ T # {}
    BY <2>1
  <2>3. \E m \in T : \A j \in T : m <= j
    <3> HIDE DEF T
    <3> QED
      BY <2>2, LeastNumber
  <2> QED
    BY <2>3
<1>2. m \in s
  <2> SUFFICES ASSUME m \notin s PROVE FALSE
    OBVIOUS
  <2>1. PICK x : x \in s
    OBVIOUS
  <2>2. x \in 1 .. n /\ x <= m
    BY <1>1, <2>1
  <2>3. \A k \in s : k <= m - 1
    BY <1>1
  <2>4. m - 1 \in Nat
    BY <2>2
  <2> QED
    BY <1>1, <2>3, <2>4
<1>3. \E x \in s : \A y \in s : x >= y
  <2>1. \A y \in s : m >= y
    BY <1>1
  <2> QED
    BY <1>2, <2>1
<1>4. Max(s) \in s /\ \A y \in s : Max(s) >= y
  BY <1>3 DEF Max
<1>5. \A y \in s : y \in Int
  OBVIOUS
<1> QED
  BY <1>4, <1>5

\* The last of the first k positions is the k-th.
LEMMA MaxOfFirst ==
  ASSUME NEW n \in Nat, NEW k \in 1 .. n
  PROVE  Max(1 .. k) = k /\ (1 .. k) \ {k} = 1 .. k - 1 /\ 1 .. k # {}
<1>1. 1 .. k \subseteq 1 .. n /\ 1 .. k # {} /\ k \in 1 .. k
  OBVIOUS
<1>2. Max(1 .. k) \in 1 .. k /\ \A j \in 1 .. k : j <= Max(1 .. k)
  BY <1>1, MaxIn
<1> QED
  BY <1>1, <1>2

\* Some positions of a sequence.
Places(S) == \E n \in Nat : S \subseteq 1 .. n

\* g does to the subsets of D what the library's fold does: from the first position on,
\* F makes of what it has and the next position what it has next.
Folds(g, D, F, b) ==
  g = [s \in SUBSET D |-> IF s = {} THEN b ELSE F[<<g[s \ {Max(s)}], Max(s)>>]]

\* What such a function is, subset by subset.
LEMMA FoldsAt ==
  ASSUME NEW D, NEW F, NEW b, NEW g, Folds(g, D, F, b)
  PROVE  \A s : s \subseteq D =>
           g[s] = IF s = {} THEN b ELSE F[<<g[s \ {Max(s)}], Max(s)>>]
BY DEF Folds

\* There is at most one.
LEMMA FoldsOnce ==
  ASSUME NEW S, Places(S), NEW T, NEW F, NEW b,
         NEW g, NEW h, Folds(g, S, F, b), Folds(h, T, F, b)
  PROVE  \A s : s \subseteq S /\ s \subseteq T => g[s] = h[s]
<1> SUFFICES ASSUME NEW s, s \subseteq S, s \subseteq T
             PROVE  g[s] = h[s]
  OBVIOUS
<1> DEFINE Bad == {u \in SUBSET s : g[u] # h[u]}
<1>1. CASE Bad = {}
  BY <1>1
<1>2. CASE Bad # {}
  <2>0. PICK n \in Nat : S \subseteq 1 .. n
    BY DEF Places
  <2>1. IsFiniteSet(s) /\ s \subseteq 1 .. n
    <3>1. IsFiniteSet(1 .. n)
      BY FS_Interval
    <3>2. s \subseteq 1 .. n
      BY <2>0
    <3>3. IsFiniteSet(s)
      BY <3>1, <3>2, FS_Subset
    <3> QED
      BY <3>2, <3>3
  <2>2. PICK B \in Bad : \A C \in Bad : C \subseteq B => C = B
    <3> \A C \in Bad : C \subseteq s
      OBVIOUS
    <3> HIDE DEF Bad
    <3> QED
      BY <1>2, <2>1, LeastSet
  <2>3. B \subseteq S /\ B \subseteq T /\ B \subseteq s /\ B \subseteq 1 .. n
    BY <2>1
  <2>4. /\ g[B] = IF B = {} THEN b ELSE F[<<g[B \ {Max(B)}], Max(B)>>]
        /\ h[B] = IF B = {} THEN b ELSE F[<<h[B \ {Max(B)}], Max(B)>>]
    <3>1. /\ \A u : u \subseteq S =>
                  g[u] = IF u = {} THEN b ELSE F[<<g[u \ {Max(u)}], Max(u)>>]
          /\ \A u : u \subseteq T =>
                  h[u] = IF u = {} THEN b ELSE F[<<h[u \ {Max(u)}], Max(u)>>]
      BY FoldsAt
    <3> QED
      BY <2>3, <3>1
  <2>5. B # {}
    BY <2>4
  <2>6. Max(B) \in B
    BY <2>3, <2>5, MaxIn
  <2>7. g[B \ {Max(B)}] = h[B \ {Max(B)}]
    BY <2>2, <2>6
  <2> QED
    BY <2>4, <2>7
<1> QED
  BY <1>1, <1>2

\* There is one, and its values are of the kind F makes.
LEMMA FoldsExists ==
  ASSUME NEW n \in Nat, NEW U, NEW b \in U, NEW F \in [U \X (1 .. n) -> U]
  PROVE  \E g \in [SUBSET (1 .. n) -> U] : Folds(g, 1 .. n, F, b)
<1> DEFINE D == 1 .. n
           Bad == {T \in SUBSET D : ~ \E g \in [SUBSET T -> U] : Folds(g, T, F, b)}
<1>1. SUFFICES ASSUME Bad # {} PROVE FALSE
  <2> D \in SUBSET D
    OBVIOUS
  <2> QED
    OBVIOUS
<1>2. PICK B : B \in Bad /\ \A C \in Bad : C \subseteq B => C = B
  <2> IsFiniteSet(D)
    BY FS_Interval
  <2> \A C \in Bad : C \subseteq D
    OBVIOUS
  <2> HIDE DEF Bad, D
  <2> QED
    BY <1>1, LeastSet
<1> DEFINE Of(T) == CHOOSE g \in [SUBSET T -> U] : Folds(g, T, F, b)
<1>0. B \subseteq D
  BY <1>2
<1>3. ASSUME NEW T, T \subseteq B, T # B
      PROVE  Of(T) \in [SUBSET T -> U] /\ Folds(Of(T), T, F, b)
  BY <1>2, <1>3
<1> HIDE DEF Of
<1> DEFINE Rest(s) == s \ {Max(s)}
           g == [s \in SUBSET B |-> IF s = {} THEN b ELSE F[<<Of(Rest(s))[Rest(s)], Max(s)>>]]
<1>4. \A s : s \subseteq B /\ s # {}
              => /\ Max(s) \in D /\ Rest(s) \subseteq B /\ Rest(s) # B /\ Rest(s) # s
                 /\ Rest(s) \subseteq s
  <2>1. ASSUME NEW s, s \subseteq B, s # {}
        PROVE  /\ Max(s) \in D /\ Rest(s) \subseteq B /\ Rest(s) # B /\ Rest(s) # s
               /\ Rest(s) \subseteq s
    <3>1. Max(s) \in s
      BY <1>0, <2>1, MaxIn
    <3>2. Max(s) \in B /\ Max(s) \notin Rest(s)
      BY <2>1, <3>1
    <3> QED
      BY <1>0, <2>1, <3>1, <3>2
  <2> QED
    BY <2>1
<1>5. g \in [SUBSET B -> U]
  <2>1. ASSUME NEW s, s \subseteq B
        PROVE  (IF s = {} THEN b ELSE F[<<Of(Rest(s))[Rest(s)], Max(s)>>]) \in U
    <3>1. CASE s = {}
      BY <3>1
    <3>2. CASE s # {}
      <4>1. Max(s) \in D /\ Rest(s) \subseteq B /\ Rest(s) # B
        BY <1>4, <2>1, <3>2
      <4> HIDE DEF Rest
      <4>2. Of(Rest(s)) \in [SUBSET Rest(s) -> U]
        BY <1>3, <4>1
      <4>3. Of(Rest(s))[Rest(s)] \in U
        BY <4>2
      <4> QED
        BY <3>2, <4>1, <4>3
    <3> QED
      BY <3>1, <3>2
  <2> HIDE DEF Rest
  <2> QED
    BY <2>1
<1>6. ASSUME NEW T, T \subseteq B, T # B
      PROVE  g[T] = Of(T)[T]
  <2>1. Folds(Of(T), T, F, b) /\ T \subseteq T
    BY <1>3, <1>6
  <2>2. Of(T)[T] = IF T = {} THEN b ELSE F[<<Of(T)[T \ {Max(T)}], Max(T)>>]
    BY <2>1, FoldsAt
  <2>3. CASE T = {}
    BY <2>2, <2>3
  <2>4. CASE T # {}
    <3>1. Rest(T) \subseteq B /\ Rest(T) # B /\ Rest(T) \subseteq T
      BY <1>4, <1>6, <2>4
    <3>2. Folds(Of(Rest(T)), Rest(T), F, b)
      <4> HIDE DEF Rest
      <4> QED
        BY <1>3, <3>1
    <3>3. Of(T)[Rest(T)] = Of(Rest(T))[Rest(T)]
      <4>3. PICK R : R = Rest(T)
        OBVIOUS
      <4>4. PICK u : u = Of(T)
        OBVIOUS
      <4>5. PICK v : v = Of(R)
        OBVIOUS
      <4>1. T \subseteq 1 .. n /\ Rest(T) \subseteq 1 .. n
        BY <1>0, <1>6
      <4>2. Rest(T) \subseteq Rest(T)
        OBVIOUS
      <4> HIDE DEF Rest
      <4> QED
        <5>1. Folds(u, T, F, b) /\ Folds(v, R, F, b)
          BY <2>1, <3>2, <4>3, <4>4, <4>5
        <5>2. R \subseteq T /\ R \subseteq 1 .. n /\ R \subseteq R
          BY <3>1, <4>1, <4>3
        <5>3. Places(T)
          BY <4>1 DEF Places
        <5>4. \A s : s \subseteq T /\ s \subseteq R => u[s] = v[s]
          BY <5>1, <5>3, FoldsOnce
        <5> QED
          BY <4>3, <4>4, <4>5, <5>2, <5>4
    <3>4. g[T] = F[<<Of(Rest(T))[Rest(T)], Max(T)>>]
      BY <1>6, <2>4
    <3> QED
      BY <2>2, <2>4, <3>3, <3>4
  <2> QED
    BY <2>3, <2>4
<1>7. Folds(g, B, F, b)
  <2>1. ASSUME NEW s, s \subseteq B
        PROVE  (IF s = {} THEN b ELSE F[<<Of(Rest(s))[Rest(s)], Max(s)>>])
                 = (IF s = {} THEN b ELSE F[<<g[s \ {Max(s)}], Max(s)>>])
    <3>1. CASE s = {}
      BY <3>1
    <3>2. CASE s # {}
      <4>1. Rest(s) \subseteq B /\ Rest(s) # B
        BY <1>4, <2>1, <3>2
      <4>2. g[Rest(s)] = Of(Rest(s))[Rest(s)]
        <5> HIDE DEF Rest, g
        <5> QED
          BY <1>6, <4>1
      <4> HIDE DEF g
      <4> QED
        BY <3>2, <4>2
    <3> QED
      BY <3>1, <3>2
  <2>2. g = [s \in SUBSET B |-> IF s = {} THEN b ELSE F[<<Of(Rest(s))[Rest(s)], Max(s)>>]]
    OBVIOUS
  <2> HIDE DEF g, Rest
  <2> QED
    BY <2>1, <2>2 DEF Folds
<1> QED
  BY <1>2, <1>5, <1>7

\* c does what F does, as long as what it has is in U.
Runs(c, n, F, b, U) ==
  /\ n \in Nat /\ b \in U /\ F \in [U \X (1 .. n) -> U] /\ c[{}] = b
  /\ \A s : s \subseteq 1 .. n /\ s # {} /\ c[s \ {Max(s)}] \in U
              => c[s] = F[<<c[s \ {Max(s)}], Max(s)>>]

\* What a fold has after each position, one after the other.
Path(h, c, n, F, b, U) ==
  /\ h \in [0 .. n -> U] /\ h[0] = b /\ h[n] = c[1 .. n]
  /\ \A k \in 1 .. n : h[k] = F[<<h[k - 1], k>>]

\* A fold goes along such a path.
LEMMA FoldPath ==
  ASSUME NEW c, NEW n, NEW F, NEW b, NEW U, Runs(c, n, F, b, U)
  PROVE  \E h : Path(h, c, n, F, b, U)
<1> USE DEF Runs
<1> DEFINE h == [k \in 0 .. n |-> c[1 .. k]]
           Good == {k \in 0 .. n : c[1 .. k] \in U}
<1>1. ASSUME NEW k \in 1 .. n, c[1 .. k - 1] \in U
      PROVE  c[1 .. k] = F[<<c[1 .. k - 1], k>>]
  <2>1. Max(1 .. k) = k /\ (1 .. k) \ {k} = 1 .. k - 1 /\ 1 .. k # {}
    BY MaxOfFirst
  <2>2. 1 .. k \subseteq 1 .. n
    OBVIOUS
  <2>3. 1 .. k # {} /\ c[(1 .. k) \ {Max(1 .. k)}] \in U
          => c[1 .. k] = F[<<c[(1 .. k) \ {Max(1 .. k)}], Max(1 .. k)>>]
    BY <2>2
  <2> QED
    BY <1>1, <2>1, <2>3
<1>2. 0 \in Good
  <2> 1 .. 0 = {}
    OBVIOUS
  <2> QED
    OBVIOUS
<1>3. ASSUME NEW k \in 0 .. n - 1, k \in Good PROVE k + 1 \in Good
  <2>1. k + 1 \in 1 .. n /\ (k + 1) - 1 = k
    OBVIOUS
  <2>2. c[1 .. k + 1] = F[<<c[1 .. k], k + 1>>]
    BY <1>1, <1>3, <2>1
  <2> QED
    BY <1>3, <2>1, <2>2
<1>4. \A k \in 0 .. n : k \in Good
  <2> HIDE DEF Good
  <2> QED
    BY <1>2, <1>3, UpTo
<1>5. h \in [0 .. n -> U]
  BY <1>4
<1>6. \A k \in 1 .. n : h[k] = F[<<h[k - 1], k>>]
  BY <1>1, <1>4
<1>7. h[0] = b /\ h[n] = c[1 .. n]
  <2> 1 .. 0 = {}
    OBVIOUS
  <2> QED
    OBVIOUS
<1>8. Path(h, c, n, F, b, U)
  <2> HIDE DEF h
  <2> QED
    BY <1>5, <1>6, <1>7 DEF Path
<1> QED
  BY <1>8

-----------------------------------------------------------------------------
(* Pieces of a body *)

Byte    == DOMAIN Gear
Leaves  == {"Media", "Text", "Chunk"}
Kinds   == Leaves \cup {"JsonMember"}
Digests == [kind : Kinds, bytes : Seq(Byte)]
Instrs  == [op : {"lit"}, bytes : Seq(Byte)]
             \cup [op : {"ref"}, digest : Digests, len : Nat]

\* What lies between two positions.
Piece(w, a, b) == SubSeq(w, a + 1, b)

\* A piece is as long as its ends are apart; between the ends of the body is all of it.
LEMMA PieceLen ==
  ASSUME NEW w \in Seq(Byte), NEW a \in Nat, NEW b \in a .. Len(w)
  PROVE  /\ Piece(w, a, b) \in Seq(Byte) /\ Len(Piece(w, a, b)) = b - a
         /\ \A i \in 1 .. b - a : Piece(w, a, b)[i] = w[a + i]
<1>1. \A i \in a + 1 .. b : w[i] \in Byte
  BY ElementOfSeq
<1>2. a + 1 \in Int /\ b \in Int
  OBVIOUS
<1>3. /\ SubSeq(w, a + 1, b) \in Seq(Byte)
      /\ Len(SubSeq(w, a + 1, b)) = IF a + 1 <= b THEN b - (a + 1) + 1 ELSE 0
      /\ \A i \in 1 .. b - (a + 1) + 1 : SubSeq(w, a + 1, b)[i] = w[a + 1 + i - 1]
  BY <1>1, <1>2, SubSeqProperties
<1> QED
  BY <1>3 DEF Piece

LEMMA PieceAll ==
  ASSUME NEW w \in Seq(Byte)
  PROVE  Piece(w, 0, Len(w)) = w
BY SubSeqFull DEF Piece

LEMMA PieceNone ==
  ASSUME NEW w \in Seq(Byte), NEW a \in Nat
  PROVE  Piece(w, a, a) = <<>>
BY SubSeqEmpty DEF Piece

\* Two pieces side by side are one.
LEMMA PieceJoin ==
  ASSUME NEW w \in Seq(Byte), NEW a \in Nat, NEW b \in a .. Len(w), NEW c \in b .. Len(w)
  PROVE  Piece(w, a, b) \o Piece(w, b, c) = Piece(w, a, c)
<1>1. a + 1 \in 1 .. Len(w) + 1 /\ b \in (a + 1) - 1 .. Len(w) /\ c \in b .. Len(w)
  OBVIOUS
<1> QED
  BY <1>1, ConcatAdjacentSubSeq DEF Piece

\* A piece of a piece.
LEMMA PieceOf ==
  ASSUME NEW w \in Seq(Byte), NEW x \in Nat, NEW y \in x .. Len(w),
         NEW a \in Nat, NEW b \in a .. y - x
  PROVE  Piece(Piece(w, x, y), a, b) = Piece(w, x + a, x + b)
<1> DEFINE v == Piece(w, x, y)
<1>1. v \in Seq(Byte) /\ Len(v) = y - x /\ \A i \in 1 .. y - x : v[i] = w[x + i]
  BY PieceLen
<1> HIDE DEF v
<1>2. /\ Piece(v, a, b) \in Seq(Byte) /\ Len(Piece(v, a, b)) = b - a
      /\ \A i \in 1 .. b - a : Piece(v, a, b)[i] = v[a + i]
  <2> b \in a .. Len(v)
    BY <1>1
  <2> QED
    BY <1>1, PieceLen
<1>3. /\ Piece(w, x + a, x + b) \in Seq(Byte) /\ Len(Piece(w, x + a, x + b)) = b - a
      /\ \A i \in 1 .. b - a : Piece(w, x + a, x + b)[i] = w[(x + a) + i]
  <2>1. x + a \in Nat /\ x + b \in x + a .. Len(w) /\ (x + b) - (x + a) = b - a
    OBVIOUS
  <2> QED
    BY <2>1, PieceLen
<1>4. \A i \in 1 .. b - a : a + i \in 1 .. y - x /\ x + (a + i) = (x + a) + i
  OBVIOUS
<1>5. \A i \in 1 .. b - a : Piece(v, a, b)[i] = Piece(w, x + a, x + b)[i]
  BY <1>1, <1>2, <1>3, <1>4
<1>6. Piece(v, a, b) = Piece(w, x + a, x + b)
  BY <1>2, <1>3, <1>5, SeqEqual
<1> QED
  BY <1>6 DEF v

-----------------------------------------------------------------------------
(* What a program stands for *)

\* An instruction stands for the bytes of w from a to b; what it references has a kind of K.
Covers(i, w, K, a, b) ==
  /\ a \in Nat /\ b \in a .. Len(w)
  /\ \/ i.op = "lit" /\ i.bytes = Piece(w, a, b)
     \/ /\ i.op = "ref" /\ i.len = b - a
        /\ i.digest.bytes = Piece(w, a, b) /\ i.digest.kind \in K

\* The instructions of a program stand side by side from a to b.
Laid(prog, w, K, cut) ==
  \A k \in 1 .. Len(prog) : Covers(prog[k], w, K, cut[k - 1], cut[k])
Stands(prog, w, K, a, b) ==
  /\ prog \in Seq(Instrs) /\ b \in 0 .. Len(w)
  /\ \E cut \in [0 .. Len(prog) -> Nat] :
       cut[0] = a /\ cut[Len(prog)] = b /\ Laid(prog, w, K, cut)

\* No instruction stands for nothing.
LEMMA StandsNone ==
  ASSUME NEW w \in Seq(Byte), NEW K, NEW a \in 0 .. Len(w)
  PROVE  Stands(<<>>, w, K, a, a)
<1> DEFINE cut == [k \in 0 .. 0 |-> a]
<1>1. cut \in [0 .. Len(<<>>) -> Nat] /\ cut[0] = a /\ cut[Len(<<>>)] = a
  OBVIOUS
<1>2. Laid(<<>>, w, K, cut)
  BY DEF Laid
<1> HIDE DEF cut
<1> QED
  BY <1>1, <1>2 DEF Stands

\* An instruction at the end.
LEMMA StandsAppend ==
  ASSUME NEW w \in Seq(Byte), NEW K, NEW p, NEW a, NEW b, NEW c, NEW i \in Instrs,
         Stands(p, w, K, a, b), Covers(i, w, K, b, c)
  PROVE  Stands(Append(p, i), w, K, a, c)
<1>1. PICK cut \in [0 .. Len(p) -> Nat] :
        cut[0] = a /\ cut[Len(p)] = b /\ Laid(p, w, K, cut)
  BY DEF Stands
<1>2. PICK n \in Nat : n = Len(p)
  BY DEF Stands
<1>3. c \in Nat /\ c \in 0 .. Len(w)
  BY DEF Covers
<1> DEFINE q == Append(p, i)
           to == [k \in 0 .. n + 1 |-> IF k = n + 1 THEN c ELSE cut[k]]
<1>4. q \in Seq(Instrs) /\ Len(q) = n + 1 /\ q[n + 1] = i /\ \A k \in 1 .. n : q[k] = p[k]
  BY <1>2, AppendProperties DEF Stands
<1>5. to \in [0 .. n + 1 -> Nat] /\ to[0] = a /\ to[n + 1] = c /\ to[n] = b
  BY <1>1, <1>2, <1>3
<1>6. \A k \in 1 .. n : to[k] = cut[k] /\ to[k - 1] = cut[k - 1]
  BY <1>2
<1> HIDE DEF q, to
<1>7. ASSUME NEW k \in 1 .. n + 1 PROVE Covers(q[k], w, K, to[k - 1], to[k])
  <2>1. CASE k = n + 1
    <3> k - 1 = n
      BY <2>1
    <3> QED
      BY <1>4, <1>5, <2>1
  <2>2. CASE k # n + 1
    <3>1. k \in 1 .. n
      BY <2>2
    <3>2. Covers(p[k], w, K, cut[k - 1], cut[k])
      BY <1>1, <1>2, <3>1 DEF Laid
    <3> QED
      BY <1>4, <1>6, <3>1, <3>2
  <2> QED
    BY <2>1, <2>2
<1>8. Laid(q, w, K, to)
  BY <1>4, <1>7 DEF Laid
<1>9. Stands(q, w, K, a, c)
  BY <1>3, <1>4, <1>5, <1>8 DEF Stands
<1> QED
  BY <1>9 DEF q

\* The instruction at the end, and those before it.
LEMMA StandsLast ==
  ASSUME NEW w \in Seq(Byte), NEW K, NEW p, NEW a, NEW c, Stands(p, w, K, a, c), p # <<>>
  PROVE  \E b \in Nat : /\ Stands(Front(p), w, K, a, b) /\ Covers(Last(p), w, K, b, c)
                        /\ Last(p) \in Instrs
<1>1. PICK cut \in [0 .. Len(p) -> Nat] :
        cut[0] = a /\ cut[Len(p)] = c /\ Laid(p, w, K, cut)
  BY DEF Stands
<1>2. PICK n \in Nat : n = Len(p) /\ n >= 1
  BY DEF Stands
<1>3. p \in Seq(Instrs) /\ p[n] \in Instrs
  BY <1>2 DEF Stands
<1> DEFINE q == Front(p)
           to == [k \in 0 .. n - 1 |-> cut[k]]
<1>4. q \in Seq(Instrs) /\ Len(q) = n - 1 /\ \A k \in 1 .. n - 1 : q[k] = p[k]
  <2>1. \A k \in 1 .. n - 1 : p[k] \in Instrs
    BY <1>2, <1>3
  <2>2. /\ SubSeq(p, 1, n - 1) \in Seq(Instrs)
        /\ Len(SubSeq(p, 1, n - 1)) = IF 1 <= n - 1 THEN (n - 1) - 1 + 1 ELSE 0
        /\ \A k \in 1 .. (n - 1) - 1 + 1 : SubSeq(p, 1, n - 1)[k] = p[1 + k - 1]
    BY <2>1, SubSeqProperties
  <2> QED
    BY <1>2, <2>2 DEF Front
<1>5. to \in [0 .. n - 1 -> Nat] /\ to[0] = a /\ to[n - 1] = cut[n - 1]
  BY <1>1, <1>2
<1>6. \A k \in 1 .. n - 1 : to[k] = cut[k] /\ to[k - 1] = cut[k - 1]
  BY <1>2
<1>7. Covers(p[n], w, K, cut[n - 1], c)
  BY <1>1, <1>2 DEF Laid
<1>8. cut[n - 1] \in Nat /\ cut[n - 1] \in 0 .. Len(w)
  BY <1>7 DEF Covers
<1> HIDE DEF q, to
<1>9. ASSUME NEW k \in 1 .. n - 1 PROVE Covers(q[k], w, K, to[k - 1], to[k])
  <2>1. Covers(p[k], w, K, cut[k - 1], cut[k])
    BY <1>1, <1>2 DEF Laid
  <2> QED
    BY <1>4, <1>6, <2>1
<1>10. Laid(q, w, K, to)
  BY <1>4, <1>9 DEF Laid
<1>11. Stands(q, w, K, a, cut[n - 1])
  BY <1>4, <1>5, <1>8, <1>10 DEF Stands
<1>12. Last(p) = p[n]
  BY <1>2 DEF Last
<1> QED
  BY <1>3, <1>7, <1>8, <1>11, <1>12 DEF q

\* The positions of instructions go up.
LEMMA CutsGoUp ==
  ASSUME NEW p, NEW w, NEW K, Len(p) \in Nat, NEW cut \in [0 .. Len(p) -> Nat],
         Laid(p, w, K, cut)
  PROVE  \A k \in 0 .. Len(p) : cut[0] <= cut[k] /\ cut[k] <= cut[Len(p)]
<1> DEFINE Good == {k \in 0 .. Len(p) : \A j \in 0 .. k : cut[j] <= cut[k]}
<1>1. 0 \in Good
  OBVIOUS
<1>2. ASSUME NEW k \in 0 .. Len(p) - 1, k \in Good PROVE k + 1 \in Good
  <2>1. k + 1 \in 1 .. Len(p) /\ (k + 1) - 1 = k
    OBVIOUS
  <2>2. cut[k] <= cut[k + 1]
    BY <2>1 DEF Laid, Covers
  <2>3. \A j \in 0 .. k : cut[j] <= cut[k] /\ cut[j] \in Nat /\ cut[k] \in Nat
    BY <1>2
  <2>4. cut[k + 1] \in Nat
    BY <2>1
  <2>5. \A j \in 0 .. k + 1 : cut[j] <= cut[k + 1]
    BY <2>2, <2>3, <2>4
  <2> QED
    BY <2>1, <2>5
<1>3. \A k \in 0 .. Len(p) : k \in Good
  <2> HIDE DEF Good
  <2> QED
    BY <1>1, <1>2, UpTo
<1> QED
  BY <1>3

\* What an instruction stands for in a piece it stands for in the whole, further on.
LEMMA CoversMoves ==
  ASSUME NEW w \in Seq(Byte), NEW x \in Nat, NEW y \in x .. Len(w), NEW K, NEW i,
         NEW a \in Nat, NEW b \in Nat, b <= y - x
  PROVE  Covers(i, Piece(w, x, y), K, a, b) <=> Covers(i, w, K, x + a, x + b)
<1> DEFINE v == Piece(w, x, y)
<1>1. v \in Seq(Byte) /\ Len(v) = y - x
  BY PieceLen
<1>2. a <= b => Piece(v, a, b) = Piece(w, x + a, x + b)
  BY PieceOf
<1>3. a <= b <=> x + a <= x + b
  OBVIOUS
<1>4. x + b <= Len(w) /\ (x + b) - (x + a) = b - a /\ x + a \in Nat /\ x + b \in Nat
  OBVIOUS
<1> HIDE DEF v
<1>5. CASE a <= b
  <2>1. b \in a .. Len(v) /\ x + b \in x + a .. Len(w)
    BY <1>1, <1>4, <1>5
  <2>2. Piece(v, a, b) = Piece(w, x + a, x + b)
    BY <1>2, <1>5
  <2>3. Covers(i, v, K, a, b) <=> Covers(i, w, K, x + a, x + b)
    BY <1>4, <2>1, <2>2 DEF Covers
  <2> QED
    BY <2>3 DEF v
<1>6. CASE ~(a <= b)
  <2>1. b \notin a .. Len(v) /\ x + b \notin x + a .. Len(w)
    BY <1>6
  <2>2. Covers(i, v, K, a, b) <=> Covers(i, w, K, x + a, x + b)
    BY <2>1 DEF Covers
  <2> QED
    BY <2>2 DEF v
<1> QED
  BY <1>5, <1>6

\* A program for a piece, in the whole.
LEMMA StandsOut ==
  ASSUME NEW w \in Seq(Byte), NEW x \in Nat, NEW y \in x .. Len(w), NEW K, NEW p,
         Stands(p, Piece(w, x, y), K, 0, y - x)
  PROVE  Stands(p, w, K, x, y)
<1>1. PICK cut \in [0 .. Len(p) -> Nat] :
        cut[0] = 0 /\ cut[Len(p)] = y - x /\ Laid(p, Piece(w, x, y), K, cut)
  BY DEF Stands
<1>2. PICK n \in Nat : n = Len(p)
  BY DEF Stands
<1>3. \A k \in 0 .. n : cut[k] \in Nat /\ cut[k] <= y - x
  BY <1>1, <1>2, CutsGoUp
<1> DEFINE to == [k \in 0 .. n |-> x + cut[k]]
<1>4. to \in [0 .. n -> Nat] /\ to[0] = x /\ to[n] = y
  BY <1>1, <1>2, <1>3
<1>5. ASSUME NEW k \in 1 .. n PROVE Covers(p[k], w, K, to[k - 1], to[k])
  <2>1. PICK a \in Nat, b \in Nat : a = cut[k - 1] /\ b = cut[k]
    BY <1>2
  <2>2. b <= y - x
    BY <1>3, <2>1
  <2>3. Covers(p[k], Piece(w, x, y), K, a, b)
    BY <1>1, <1>2, <2>1 DEF Laid
  <2>4. Covers(p[k], w, K, x + a, x + b)
    BY <2>2, <2>3, CoversMoves
  <2>5. to[k - 1] = x + a /\ to[k] = x + b
    BY <2>1
  <2> QED
    BY <2>4, <2>5
<1> HIDE DEF to
<1>6. Laid(p, w, K, to)
  BY <1>2, <1>5 DEF Laid
<1>7. p \in Seq(Instrs) /\ y \in 0 .. Len(w)
  BY DEF Stands
<1> QED
  BY <1>2, <1>4, <1>6, <1>7 DEF Stands

\* A program in the whole, for the piece it stands for.
LEMMA StandsIn ==
  ASSUME NEW w \in Seq(Byte), NEW x \in Nat, NEW y \in x .. Len(w), NEW K, NEW p,
         Stands(p, w, K, x, y)
  PROVE  Stands(p, Piece(w, x, y), K, 0, y - x)
<1>1. PICK cut \in [0 .. Len(p) -> Nat] :
        cut[0] = x /\ cut[Len(p)] = y /\ Laid(p, w, K, cut)
  BY DEF Stands
<1>2. PICK n \in Nat : n = Len(p)
  BY DEF Stands
<1>3. \A k \in 0 .. n : cut[k] \in Nat /\ x <= cut[k] /\ cut[k] <= y
  BY <1>1, <1>2, CutsGoUp
<1> DEFINE to == [k \in 0 .. n |-> cut[k] - x]
<1>4. to \in [0 .. n -> Nat] /\ to[0] = 0 /\ to[n] = y - x
  BY <1>1, <1>2, <1>3
<1>5. ASSUME NEW k \in 1 .. n PROVE Covers(p[k], Piece(w, x, y), K, to[k - 1], to[k])
  <2>1. PICK a \in Nat, b \in Nat : x + a = cut[k - 1] /\ x + b = cut[k]
    <3>1. k \in 0 .. n /\ k - 1 \in 0 .. n
      OBVIOUS
    <3>2. cut[k - 1] - x \in Nat /\ cut[k] - x \in Nat
      BY <1>3, <3>1
    <3>3. x + (cut[k - 1] - x) = cut[k - 1] /\ x + (cut[k] - x) = cut[k]
      BY <1>3, <3>1
    <3> QED
      BY <3>2, <3>3
  <2>2. b <= y - x
    BY <1>3, <2>1
  <2>3. Covers(p[k], w, K, x + a, x + b)
    BY <1>1, <1>2, <2>1 DEF Laid
  <2>4. Covers(p[k], Piece(w, x, y), K, a, b)
    BY <2>2, <2>3, CoversMoves
  <2>5. to[k - 1] = a /\ to[k] = b
    BY <1>3, <2>1
  <2> QED
    BY <2>4, <2>5
<1> HIDE DEF to
<1>6. Laid(p, Piece(w, x, y), K, to)
  BY <1>2, <1>5 DEF Laid
<1>7. p \in Seq(Instrs) /\ y - x \in 0 .. Len(Piece(w, x, y))
  BY PieceLen DEF Stands
<1> QED
  BY <1>2, <1>4, <1>6, <1>7 DEF Stands

-----------------------------------------------------------------------------
(* normalize *)

\* What normalize makes of what it has and the next instruction.
Merged(had, i) ==
  CASE i.op = "ref" -> Append(had, i)
    [] i.op = "lit" /\ had # <<>> /\ Last(had).op = "lit" ->
         Append(Front(had), Lit(Last(had).bytes \o i.bytes))
    [] OTHER -> IF i.bytes = <<>> THEN had ELSE Append(had, i)

Merges(g, prog) ==
  g = [s \in SUBSET DOMAIN prog |->
         IF s = {} THEN <<>> ELSE Merged(g[s \ {Max(s)}], prog[Max(s)])]

\* normalize, with the definitions of its fold opened.
LEMMA NormalizeIsFold ==
  ASSUME NEW prog
  PROVE  Normalize(prog) = (CHOOSE g : Merges(g, prog))[DOMAIN prog]
BY Zenon DEF Normalize, FoldLeft, MapThenFoldSet, Merges, Merged

\* It makes programs.
LEMMA MergedType ==
  ASSUME NEW p \in Seq(Instrs), NEW i \in Instrs
  PROVE  Merged(p, i) \in Seq(Instrs)
<1>1. i.op \in {"lit", "ref"} /\ (i.op = "lit" => i.bytes \in Seq(Byte))
  BY DEF Instrs
<1>2. Append(p, i) \in Seq(Instrs)
  OBVIOUS
<1>3. CASE i.op = "lit" /\ p # <<>> /\ Last(p).op = "lit"
  <2>1. Len(p) \in Nat \ {0} /\ Last(p) \in Instrs
    BY <1>3 DEF Last
  <2>2. Front(p) \in Seq(Instrs)
    <3>1. \A k \in 1 .. Len(p) - 1 : p[k] \in Instrs
      BY <2>1
    <3> QED
      BY <2>1, <3>1, SubSeqProperties DEF Front
  <2>3. Last(p).bytes \in Seq(Byte)
    BY <1>3, <2>1 DEF Instrs
  <2>4. Last(p).bytes \o i.bytes \in Seq(Byte)
    BY <1>1, <1>3, <2>3
  <2>5. Lit(Last(p).bytes \o i.bytes) \in Instrs
    BY <2>4 DEF Lit, Instrs
  <2>6. Append(Front(p), Lit(Last(p).bytes \o i.bytes)) \in Seq(Instrs)
    BY <2>2, <2>5, AppendProperties
  <2> QED
    BY <1>3, <2>6 DEF Merged
<1>4. CASE ~(i.op = "lit" /\ p # <<>> /\ Last(p).op = "lit")
  BY <1>1, <1>2, <1>4 DEF Merged
<1> QED
  BY <1>3, <1>4

\* And they stand for what the instructions stand for.
LEMMA MergedStands ==
  ASSUME NEW w \in Seq(Byte), NEW K, NEW p, NEW a, NEW b, NEW c, NEW i \in Instrs,
         Stands(p, w, K, a, b), Covers(i, w, K, b, c)
  PROVE  Stands(Merged(p, i), w, K, a, c)
<1>1. i.op \in {"lit", "ref"} /\ p \in Seq(Instrs)
  BY DEF Covers, Stands
<1>2. Stands(Append(p, i), w, K, a, c)
  BY StandsAppend
<1>0. b \in Nat /\ c \in b .. Len(w) /\ b \in 0 .. Len(w)
  BY DEF Covers, Stands
<1>3. CASE i.op = "lit" /\ p # <<>> /\ Last(p).op = "lit"
  <2>1. PICK m \in Nat : /\ Stands(Front(p), w, K, a, m) /\ Covers(Last(p), w, K, m, b)
                         /\ Last(p) \in Instrs
    BY <1>3, StandsLast
  <2>2. m \in 0 .. Len(w) /\ b \in m .. Len(w) /\ Last(p).bytes = Piece(w, m, b)
    BY <1>3, <2>1 DEF Stands, Covers
  <2>3. i.bytes = Piece(w, b, c)
    BY <1>3 DEF Covers
  <2>4. Last(p).bytes \o i.bytes = Piece(w, m, c)
    BY <1>0, <2>2, <2>3, PieceJoin
  <2>5. c \in m .. Len(w) /\ Piece(w, m, c) \in Seq(Byte)
    <3>1. c \in m .. Len(w)
      BY <1>0, <2>2
    <3> QED
      BY <3>1, PieceLen
  <2>6. PICK l : l = Lit(Last(p).bytes \o i.bytes)
    OBVIOUS
  <2>7. l \in Instrs /\ Covers(l, w, K, m, c)
    BY <2>2, <2>4, <2>5, <2>6 DEF Lit, Instrs, Covers
  <2>8. Stands(Append(Front(p), l), w, K, a, c)
    BY <2>1, <2>7, StandsAppend
  <2> QED
    BY <1>3, <2>6, <2>8 DEF Merged
<1>4. CASE ~(i.op = "lit" /\ p # <<>> /\ Last(p).op = "lit") /\ i.op = "lit" /\ i.bytes = <<>>
  <2>1. c = b
    <3>1. Piece(w, b, c) = <<>> /\ Len(Piece(w, b, c)) = c - b
      BY <1>0, <1>4, PieceLen DEF Covers
    <3> QED
      BY <1>0, <3>1
  <2> QED
    BY <1>4, <2>1 DEF Merged
<1>5. CASE ~(i.op = "lit" /\ p # <<>> /\ Last(p).op = "lit")
           /\ ~(i.op = "lit" /\ i.bytes = <<>>)
  BY <1>1, <1>2, <1>5 DEF Merged
<1> QED
  BY <1>3, <1>4, <1>5

\* What normalize has after each instruction.
LEMMA NormalizePath ==
  ASSUME NEW prog \in Seq(Instrs)
  PROVE  \E h \in [0 .. Len(prog) -> Seq(Instrs)] :
           /\ h[0] = <<>> /\ h[Len(prog)] = Normalize(prog)
           /\ \A k \in 1 .. Len(prog) : h[k] = Merged(h[k - 1], prog[k])
<1>1. PICK n : n \in Nat /\ n = Len(prog) /\ DOMAIN prog = 1 .. n
  OBVIOUS
<1>2. PICK U : U = Seq(Instrs)
  OBVIOUS
<1>3. \A x \in U, k \in 1 .. n : Merged(x, prog[k]) \in U
  BY <1>1, <1>2, MergedType, ElementOfSeq
<1>4. PICK F : /\ F \in [U \X (1 .. n) -> U]
               /\ \A x \in U, k \in 1 .. n : F[<<x, k>>] = Merged(x, prog[k])
  <2> DEFINE f == [y \in U \X (1 .. n) |-> Merged(y[1], prog[y[2]])]
  <2>1. /\ f \in [U \X (1 .. n) -> U]
        /\ \A x \in U, k \in 1 .. n : f[<<x, k>>] = Merged(x, prog[k])
    BY <1>3
  <2> QED
    BY <2>1
<1>5. PICK b : b = <<>>
  OBVIOUS
<1>6. b \in U
  BY <1>2, <1>5
<1>7. PICK g : g \in [SUBSET (1 .. n) -> U] /\ Folds(g, 1 .. n, F, b)
  BY <1>1, <1>4, <1>6, FoldsExists
<1>8. Merges(g, prog)
  <2>1. ASSUME NEW s \in SUBSET (1 .. n)
        PROVE  (IF s = {} THEN b ELSE F[<<g[s \ {Max(s)}], Max(s)>>])
                 = (IF s = {} THEN <<>> ELSE Merged(g[s \ {Max(s)}], prog[Max(s)]))
    <3>1. CASE s = {}
      BY <1>5, <3>1
    <3>2. CASE s # {}
      <4>1. Max(s) \in 1 .. n
        BY <1>1, <3>2, MaxIn
      <4>2. g[s \ {Max(s)}] \in U
        BY <1>7
      <4> QED
        BY <1>4, <3>2, <4>1, <4>2
    <3> QED
      BY <3>1, <3>2
  <2>2. g = [s \in SUBSET (1 .. n) |->
               IF s = {} THEN b ELSE F[<<g[s \ {Max(s)}], Max(s)>>]]
    BY <1>7 DEF Folds
  <2>3. g = [s \in SUBSET (1 .. n) |->
               IF s = {} THEN <<>> ELSE Merged(g[s \ {Max(s)}], prog[Max(s)])]
    BY <2>1, <2>2
  <2> QED
    BY <1>1, <2>3 DEF Merges
<1>9. PICK c : c = CHOOSE e : Merges(e, prog)
  OBVIOUS
<1>10. Merges(c, prog) /\ Normalize(prog) = c[1 .. n]
  BY <1>1, <1>8, <1>9, NormalizeIsFold
<1>11. c = [s \in SUBSET (1 .. n) |->
               IF s = {} THEN <<>> ELSE Merged(c[s \ {Max(s)}], prog[Max(s)])]
  BY <1>1, <1>10 DEF Merges
<1>12. c[{}] = b
  BY <1>5, <1>11
<1>13. ASSUME NEW s, s \subseteq 1 .. n, s # {}, c[s \ {Max(s)}] \in U
       PROVE  c[s] = F[<<c[s \ {Max(s)}], Max(s)>>]
  <2>1. Max(s) \in 1 .. n
    BY <1>1, <1>13, MaxIn
  <2>2. c[s] = Merged(c[s \ {Max(s)}], prog[Max(s)])
    BY <1>11, <1>13
  <2> QED
    BY <1>4, <1>13, <2>1, <2>2
<1>14. \A s : s \subseteq 1 .. n /\ s # {} /\ c[s \ {Max(s)}] \in U
               => c[s] = F[<<c[s \ {Max(s)}], Max(s)>>]
  BY <1>13
<1>15. Runs(c, n, F, b, U)
  BY <1>1, <1>4, <1>6, <1>12, <1>14 DEF Runs
<1>16. PICK h : Path(h, c, n, F, b, U)
  BY <1>15, FoldPath
<1>17. /\ h \in [0 .. n -> U] /\ h[0] = b /\ h[n] = c[1 .. n]
       /\ \A k \in 1 .. n : h[k] = F[<<h[k - 1], k>>]
  BY <1>16 DEF Path
<1>18. \A k \in 1 .. n : h[k] = Merged(h[k - 1], prog[k])
  <2> SUFFICES ASSUME NEW k \in 1 .. n PROVE h[k] = Merged(h[k - 1], prog[k])
    OBVIOUS
  <2>1. k - 1 \in 0 .. n
    BY <1>1
  <2>2. h[k - 1] \in U
    BY <1>17, <2>1
  <2> QED
    BY <1>4, <1>17, <2>2
<1> QED
  BY <1>1, <1>2, <1>5, <1>10, <1>17, <1>18

\* normalize changes nothing about what a program stands for.
LEMMA NormalizeStands ==
  ASSUME NEW w \in Seq(Byte), NEW K, NEW p, NEW a, NEW b, Stands(p, w, K, a, b)
  PROVE  Stands(Normalize(p), w, K, a, b)
<1>1. PICK cut \in [0 .. Len(p) -> Nat] :
        cut[0] = a /\ cut[Len(p)] = b /\ Laid(p, w, K, cut)
  BY DEF Stands
<1>2. p \in Seq(Instrs) /\ b \in 0 .. Len(w)
  BY DEF Stands
<1>3. PICK n \in Nat : n = Len(p)
  BY <1>2
<1>4. PICK h : /\ h[0] = <<>> /\ h[n] = Normalize(p)
               /\ \A k \in 1 .. n : h[k] = Merged(h[k - 1], p[k])
  BY <1>2, <1>3, NormalizePath
<1> DEFINE Good == {k \in 0 .. n : Stands(h[k], w, K, a, cut[k])}
<1>5. 0 \in Good
  <2>1. cut[0] \in Nat /\ cut[0] <= cut[n] /\ Len(w) \in Nat
    BY <1>1, <1>2, <1>3, CutsGoUp
  <2>2. a \in 0 .. Len(w)
    BY <1>1, <1>2, <1>3, <2>1
  <2> QED
    BY <1>1, <1>4, <2>2, StandsNone
<1>6. ASSUME NEW k \in 0 .. n - 1, k \in Good PROVE k + 1 \in Good
  <2>1. k + 1 \in 1 .. n /\ (k + 1) - 1 = k
    OBVIOUS
  <2>2. PICK q, i, x, y : q = h[k] /\ i = p[k + 1] /\ x = cut[k] /\ y = cut[k + 1]
    OBVIOUS
  <2>3. i \in Instrs /\ Covers(i, w, K, x, y)
    BY <1>1, <1>2, <1>3, <2>1, <2>2, ElementOfSeq DEF Laid
  <2>4. Stands(q, w, K, a, x)
    BY <1>6, <2>2
  <2>5. Stands(Merged(q, i), w, K, a, y)
    BY <2>3, <2>4, MergedStands
  <2>6. h[k + 1] = Merged(q, i)
    BY <1>4, <2>1, <2>2
  <2> QED
    BY <2>1, <2>2, <2>5, <2>6
<1>7. \A k \in 0 .. n : k \in Good
  <2> HIDE DEF Good
  <2> QED
    BY <1>5, <1>6, UpTo
<1> QED
  BY <1>1, <1>3, <1>4, <1>7

-----------------------------------------------------------------------------
(* The stack of resolve *)

\* What an instruction at some depth may reference: blocks in blocks nest nothing.
Below(n) == IF n = 1 THEN Kinds ELSE Leaves

Entries == [instr : Instrs, depth : 1 .. 2]

\* The entries of the stack stand side by side.
Piled(st, w, cut) ==
  \A k \in 1 .. Len(st) : Covers(st[k].instr, w, Below(st[k].depth), cut[k - 1], cut[k])
Awaits(st, w, a, b) ==
  /\ st \in Seq(Entries) /\ b \in 0 .. Len(w)
  /\ \E cut \in [0 .. Len(st) -> Nat] :
       cut[0] = a /\ cut[Len(st)] = b /\ Piled(st, w, cut)

\* A program that was pushed.
LEMMA AwaitsDeep ==
  ASSUME NEW w, NEW n \in 1 .. 2, NEW p, NEW a, NEW b, Stands(p, w, Below(n), a, b)
  PROVE  Awaits(Deep(p, n), w, a, b)
<1>1. PICK cut \in [0 .. Len(p) -> Nat] :
        cut[0] = a /\ cut[Len(p)] = b /\ Laid(p, w, Below(n), cut)
  BY DEF Stands
<1>2. p \in Seq(Instrs) /\ b \in 0 .. Len(w)
  BY DEF Stands
<1> DEFINE st == Deep(p, n)
<1>3. st \in Seq(Entries) /\ Len(st) = Len(p)
      /\ \A k \in 1 .. Len(p) : st[k].instr = p[k] /\ st[k].depth = n
  <2>1. DOMAIN p = 1 .. Len(p) /\ Len(p) \in Nat
    BY <1>2
  <2>2. \A k \in 1 .. Len(p) : [instr |-> p[k], depth |-> n] \in Entries
    BY <1>2, ElementOfSeq DEF Entries
  <2>3. st = [k \in 1 .. Len(p) |-> [instr |-> p[k], depth |-> n]]
    BY <2>1 DEF Deep
  <2>4. st \in [1 .. Len(p) -> Entries]
    BY <2>2, <2>3
  <2>5. st \in Seq(Entries)
    BY <2>1, <2>4, SeqDef
  <2> QED
    BY <2>1, <2>3, <2>5
<1> HIDE DEF st
<1>4. Piled(st, w, cut)
  BY <1>1, <1>3 DEF Laid, Piled
<1>5. Awaits(st, w, a, b)
  BY <1>1, <1>2, <1>3, <1>4 DEF Awaits
<1> QED
  BY <1>5 DEF st

\* The entry that is popped, and the rest.
LEMMA AwaitsPop ==
  ASSUME NEW w, NEW st, NEW a, NEW b, Awaits(st, w, a, b), st # <<>>
  PROVE  /\ Head(st) \in Entries
         /\ \E c \in Nat : /\ Covers(Head(st).instr, w, Below(Head(st).depth), a, c)
                           /\ Awaits(Tail(st), w, c, b)
<1>1. PICK cut \in [0 .. Len(st) -> Nat] : cut[0] = a /\ cut[Len(st)] = b /\ Piled(st, w, cut)
  BY DEF Awaits
<1>2. st \in Seq(Entries) /\ b \in 0 .. Len(w)
  BY DEF Awaits
<1>3. PICK n \in Nat : n = Len(st) /\ n >= 1
  BY <1>2
<1>4. Head(st) = st[1] /\ st[1] \in Entries
  BY <1>2, <1>3
<1> DEFINE q  == Tail(st)
           to == [k \in 0 .. n - 1 |-> cut[k + 1]]
<1>5. q \in Seq(Entries) /\ Len(q) = n - 1 /\ \A k \in 1 .. n - 1 : q[k] = st[k + 1]
  BY <1>2, <1>3, HeadTailProperties
<1>6. to \in [0 .. n - 1 -> Nat] /\ to[0] = cut[1] /\ to[n - 1] = b
  BY <1>1, <1>3
<1>7. \A k \in 1 .. n - 1 : to[k] = cut[k + 1] /\ to[k - 1] = cut[k]
  BY <1>3
<1>8. Covers(st[1].instr, w, Below(st[1].depth), a, cut[1]) /\ cut[1] \in Nat
  BY <1>1, <1>3 DEF Piled
<1> HIDE DEF q, to
<1>9. ASSUME NEW k \in 1 .. n - 1
      PROVE  Covers(q[k].instr, w, Below(q[k].depth), to[k - 1], to[k])
  <2>1. k + 1 \in 1 .. n /\ (k + 1) - 1 = k
    OBVIOUS
  <2>2. Covers(st[k + 1].instr, w, Below(st[k + 1].depth), cut[k], cut[k + 1])
    BY <1>1, <1>3, <2>1 DEF Piled
  <2> QED
    BY <1>5, <1>7, <2>2
<1>10. Piled(q, w, to)
  BY <1>5, <1>9 DEF Piled
<1>11. Awaits(q, w, cut[1], b)
  BY <1>2, <1>5, <1>6, <1>10 DEF Awaits
<1> QED
  BY <1>4, <1>8, <1>11 DEF q

\* A program pushed on what is left.
LEMMA AwaitsPush ==
  ASSUME NEW w, NEW s, NEW t, NEW a, NEW b, NEW c, Awaits(s, w, a, c), Awaits(t, w, c, b)
  PROVE  Awaits(s \o t, w, a, b)
<1>1. PICK f \in [0 .. Len(s) -> Nat] : f[0] = a /\ f[Len(s)] = c /\ Piled(s, w, f)
  BY DEF Awaits
<1>2. PICK g \in [0 .. Len(t) -> Nat] : g[0] = c /\ g[Len(t)] = b /\ Piled(t, w, g)
  BY DEF Awaits
<1>3. s \in Seq(Entries) /\ t \in Seq(Entries) /\ b \in 0 .. Len(w)
  BY DEF Awaits
<1>4. PICK m \in Nat, n \in Nat : m = Len(s) /\ n = Len(t)
  BY <1>3
<1> DEFINE q  == s \o t
           to == [k \in 0 .. m + n |-> IF k <= m THEN f[k] ELSE g[k - m]]
<1>5. /\ q \in Seq(Entries) /\ Len(q) = m + n
      /\ \A k \in 1 .. m + n : q[k] = IF k <= m THEN s[k] ELSE t[k - m]
  BY <1>3, <1>4, ConcatProperties
<1>6. to \in [0 .. m + n -> Nat] /\ to[0] = a /\ to[m + n] = b
  BY <1>1, <1>2, <1>4
<1>7. \A k \in 0 .. m + n : /\ k <= m => to[k] = f[k]
                            /\ k >= m => to[k] = g[k - m]
  BY <1>1, <1>2, <1>4
<1> HIDE DEF q, to
<1>8. ASSUME NEW k \in 1 .. m + n
      PROVE  Covers(q[k].instr, w, Below(q[k].depth), to[k - 1], to[k])
  <2>1. CASE k <= m
    <3>1. k \in 1 .. m /\ k - 1 \in 0 .. m + n /\ k - 1 <= m
      BY <2>1
    <3>2. Covers(s[k].instr, w, Below(s[k].depth), f[k - 1], f[k])
      BY <1>1, <1>4, <3>1 DEF Piled
    <3> QED
      BY <1>5, <1>7, <2>1, <3>1, <3>2
  <2>2. CASE ~(k <= m)
    <3>1. k - m \in 1 .. n /\ k - 1 \in 0 .. m + n /\ k - 1 >= m /\ (k - m) - 1 = (k - 1) - m
      BY <2>2
    <3>2. Covers(t[k - m].instr, w, Below(t[k - m].depth), g[(k - m) - 1], g[k - m])
      BY <1>2, <1>4, <3>1 DEF Piled
    <3>3. to[k - 1] = g[(k - m) - 1] /\ to[k] = g[k - m]
      BY <1>7, <2>2, <3>1
    <3> QED
      BY <1>5, <2>2, <3>2, <3>3
  <2> QED
    BY <2>1, <2>2
<1>9. Piled(q, w, to)
  BY <1>5, <1>8 DEF Piled
<1>10. Awaits(q, w, a, b)
  BY <1>3, <1>5, <1>6, <1>9 DEF Awaits
<1> QED
  BY <1>10 DEF q

-----------------------------------------------------------------------------
(* The candidates *)

\* The spans of a body that may become blocks.
Floors(p) == {p.min_history, p.min_block, p.min_payload, p.cdc_min}
Spots(bd, K, p) ==
  {c \in [start : 0 .. Len(bd.bytes), end : 0 .. Len(bd.bytes), kind : K,
          floor : Floors(p)] : c.start <= c.end}
GroupsOf(bd, p) ==
  {g \in [cand : Spots(bd, Kinds, p), kids : Seq(Spots(bd, Leaves, p))] :
     g.kids # <<>> => g.cand.kind = "JsonMember"}

\* The positions of a sequence, as the folds over them are given them.
Idx(s) == [i \in DOMAIN s |-> i]

LEMMA IdxOf ==
  ASSUME NEW s, Len(s) \in Nat, DOMAIN s = 1 .. Len(s)
  PROVE  /\ Idx(s) \in Seq(Nat) /\ Len(Idx(s)) = Len(s) /\ DOMAIN Idx(s) = DOMAIN s
         /\ \A k \in 1 .. Len(s) : Idx(s)[k] = k
<1>1. Idx(s) \in [1 .. Len(s) -> Nat]
  BY DEF Idx
<1>2. Idx(s) \in Seq(Nat) /\ Len(Idx(s)) = Len(s)
  BY <1>1, SeqDef
<1> QED
  BY <1>2 DEF Idx

LEMMA NodesOf ==
  ASSUME NEW bd \in Bodies
  PROVE  /\ Len(bd.nodes) \in Nat /\ DOMAIN bd.nodes = 1 .. Len(bd.nodes)
         /\ bd.bytes \in Seq(Byte) /\ Len(bd.bytes) \in Nat
         /\ \A i \in DOMAIN bd.nodes :
              /\ bd.nodes[i].start \in Nat
              /\ bd.nodes[i].end \in bd.nodes[i].start .. Len(bd.bytes)
<1>1. bd.bytes \in Seq(Byte)
  BY BodyAssumption DEF Byte
<1> QED
  BY <1>1, BodyAssumption

\* A node makes a candidate.
LEMMA NodeSpot ==
  ASSUME NEW bd \in Bodies, NEW p, NEW i \in DOMAIN bd.nodes, NEW K, NEW kind \in K,
         NEW floor \in Floors(p)
  PROVE  Cand(bd.nodes[i], kind, floor) \in Spots(bd, K, p)
<1>1. /\ bd.nodes[i].start \in Nat /\ Len(bd.bytes) \in Nat
      /\ bd.nodes[i].end \in bd.nodes[i].start .. Len(bd.bytes)
  BY NodesOf
<1> QED
  BY <1>1 DEF Cand, Spots

\* Top-level candidates.
TakeCand(had, i, bd, p) ==
  LET n == bd.nodes[i] IN
  CASE InHistory(bd, i) /\ Size(n) >= p.min_history ->
         Append(had, Cand(n, "JsonMember", p.min_history))
    [] Whole(bd, i) /\ Size(n) >= p.min_block ->
         Append(had, Cand(n, "JsonMember", p.min_block))
    [] OTHER -> had

Takes(g, bd, p) ==
  g = [s \in SUBSET DOMAIN Idx(bd.nodes) |->
         IF s = {} THEN <<>> ELSE TakeCand(g[s \ {Max(s)}], Idx(bd.nodes)[Max(s)], bd, p)]

LEMMA CandsIsFold ==
  ASSUME NEW bd, NEW p
  PROVE  Cands(bd, p) = (CHOOSE g : Takes(g, bd, p))[DOMAIN Idx(bd.nodes)]
BY Zenon DEF Cands, FoldLeftDomain, FoldLeft, MapThenFoldSet, Takes, TakeCand, Idx

Members(bd, p) == Spots(bd, {"JsonMember"}, p)

LEMMA TakeType ==
  ASSUME NEW bd \in Bodies, NEW p, NEW had \in Seq(Members(bd, p)), NEW k \in DOMAIN bd.nodes
  PROVE  TakeCand(had, Idx(bd.nodes)[k], bd, p) \in Seq(Members(bd, p))
<1>1. Idx(bd.nodes)[k] = k
  BY DEF Idx
<1>2. /\ Cand(bd.nodes[k], "JsonMember", p.min_history) \in Members(bd, p)
      /\ Cand(bd.nodes[k], "JsonMember", p.min_block) \in Members(bd, p)
  BY NodeSpot DEF Members, Floors
<1>3. \A c \in Members(bd, p) : Append(had, c) \in Seq(Members(bd, p))
  BY AppendProperties
<1> QED
  BY <1>1, <1>2, <1>3 DEF TakeCand

\* What Cands has after each node.
LEMMA CandsPath ==
  ASSUME NEW bd \in Bodies, NEW p
  PROVE  \E h \in [0 .. Len(Idx(bd.nodes)) -> Seq(Members(bd, p))] :
           /\ h[0] = <<>> /\ h[Len(Idx(bd.nodes))] = Cands(bd, p)
           /\ \A k \in 1 .. Len(Idx(bd.nodes)) : h[k] = TakeCand(h[k - 1], Idx(bd.nodes)[k], bd, p)
<1>1. PICK n : n \in Nat /\ n = Len(Idx(bd.nodes)) /\ DOMAIN Idx(bd.nodes) = 1 .. n
  BY NodesOf, IdxOf
<1>2. PICK U : U = Seq(Members(bd, p))
  OBVIOUS
<1>3. \A x \in U, k \in 1 .. n : TakeCand(x, Idx(bd.nodes)[k], bd, p) \in U
  BY <1>1, <1>2, TakeType, NodesOf, IdxOf
<1>4. PICK F : /\ F \in [U \X (1 .. n) -> U]
               /\ \A x \in U, k \in 1 .. n : F[<<x, k>>] = TakeCand(x, Idx(bd.nodes)[k], bd, p)
  <2> DEFINE f == [y \in U \X (1 .. n) |-> TakeCand(y[1], Idx(bd.nodes)[y[2]], bd, p)]
  <2>1. /\ f \in [U \X (1 .. n) -> U]
        /\ \A x \in U, k \in 1 .. n : f[<<x, k>>] = TakeCand(x, Idx(bd.nodes)[k], bd, p)
    BY <1>3
  <2> QED
    BY <2>1
<1>5. PICK b : b = <<>>
  OBVIOUS
<1>6. b \in U
  BY <1>2, <1>5
<1>7. PICK g : g \in [SUBSET (1 .. n) -> U] /\ Folds(g, 1 .. n, F, b)
  BY <1>1, <1>4, <1>6, FoldsExists
<1>8. Takes(g, bd, p)
  <2>1. ASSUME NEW s \in SUBSET (1 .. n)
        PROVE  (IF s = {} THEN b ELSE F[<<g[s \ {Max(s)}], Max(s)>>])
                 = (IF s = {} THEN <<>>
                    ELSE TakeCand(g[s \ {Max(s)}], Idx(bd.nodes)[Max(s)], bd, p))
    <3>1. CASE s = {}
      BY <1>5, <3>1
    <3>2. CASE s # {}
      <4>1. Max(s) \in 1 .. n
        BY <1>1, <3>2, MaxIn
      <4>2. g[s \ {Max(s)}] \in U
        BY <1>7
      <4> QED
        BY <1>4, <3>2, <4>1, <4>2
    <3> QED
      BY <3>1, <3>2
  <2>2. g = [s \in SUBSET (1 .. n) |->
               IF s = {} THEN b ELSE F[<<g[s \ {Max(s)}], Max(s)>>]]
    BY <1>7 DEF Folds
  <2>3. g = [s \in SUBSET (1 .. n) |->
               IF s = {} THEN <<>> ELSE TakeCand(g[s \ {Max(s)}], Idx(bd.nodes)[Max(s)], bd, p)]
    BY <2>1, <2>2
  <2> QED
    BY <1>1, <2>3 DEF Takes
<1>9. PICK c : c = CHOOSE e : Takes(e, bd, p)
  OBVIOUS
<1>10. Takes(c, bd, p) /\ Cands(bd, p) = c[1 .. n]
  BY <1>1, <1>8, <1>9, CandsIsFold
<1>11. c = [s \in SUBSET (1 .. n) |->
               IF s = {} THEN <<>> ELSE TakeCand(c[s \ {Max(s)}], Idx(bd.nodes)[Max(s)], bd, p)]
  BY <1>1, <1>10 DEF Takes
<1>12. c[{}] = b
  BY <1>5, <1>11
<1>13. ASSUME NEW s, s \subseteq 1 .. n, s # {}, c[s \ {Max(s)}] \in U
       PROVE  c[s] = F[<<c[s \ {Max(s)}], Max(s)>>]
  <2>1. Max(s) \in 1 .. n
    BY <1>1, <1>13, MaxIn
  <2>2. c[s] = TakeCand(c[s \ {Max(s)}], Idx(bd.nodes)[Max(s)], bd, p)
    BY <1>11, <1>13
  <2> QED
    BY <1>4, <1>13, <2>1, <2>2
<1>14. \A s : s \subseteq 1 .. n /\ s # {} /\ c[s \ {Max(s)}] \in U
               => c[s] = F[<<c[s \ {Max(s)}], Max(s)>>]
  BY <1>13
<1>15. Runs(c, n, F, b, U)
  BY <1>1, <1>4, <1>6, <1>12, <1>14 DEF Runs
<1>16. PICK h : Path(h, c, n, F, b, U)
  BY <1>15, FoldPath
<1>17. /\ h \in [0 .. n -> U] /\ h[0] = b /\ h[n] = c[1 .. n]
       /\ \A k \in 1 .. n : h[k] = F[<<h[k - 1], k>>]
  BY <1>16 DEF Path
<1>18. \A k \in 1 .. n : h[k] = TakeCand(h[k - 1], Idx(bd.nodes)[k], bd, p)
  <2> SUFFICES ASSUME NEW k \in 1 .. n PROVE h[k] = TakeCand(h[k - 1], Idx(bd.nodes)[k], bd, p)
    OBVIOUS
  <2>1. k - 1 \in 0 .. n
    BY <1>1
  <2>2. h[k - 1] \in U
    BY <1>17, <2>1
  <2> QED
    BY <1>4, <1>17, <2>2
<1> QED
  BY <1>1, <1>2, <1>5, <1>10, <1>17, <1>18

\* collect_payloads: strings of two kinds.
Strings(bd, p) == Spots(bd, {"Media", "Text"}, p)

Visited(acc, i, bd, p) ==
  LET n == bd.nodes[i]
      reached == n.parent = 0 \/ n.parent \in acc.entered
      long == n.kind = "string" /\ Size(n) >= p.min_payload
  IN  CASE ~reached -> acc
        [] reached /\ n.key = "media" /\ long ->
             [acc EXCEPT !.out = Append(@, Cand(n, "Media", p.min_payload))]
        [] reached /\ ~(n.key = "media" /\ long)
                   /\ (n.depth > p.max_depth \/ Len(acc.out) >= MaxPayloads) -> acc
        [] OTHER ->
             [entered |-> IF n.parses THEN acc.entered \cup {i} ELSE acc.entered,
              out |-> IF long /\ (n.uri \/ Size(n) >= PayloadSize)
                      THEN Append(acc.out, Cand(n, IF n.uri THEN "Media" ELSE "Text",
                                                p.min_payload))
                      ELSE acc.out]

Visits(g, bd, p) ==
  g = [s \in SUBSET DOMAIN Idx(bd.nodes) |->
         IF s = {} THEN [entered |-> {}, out |-> <<>>]
         ELSE Visited(g[s \ {Max(s)}], Idx(bd.nodes)[Max(s)], bd, p)]
Visit(bd, p) == (CHOOSE g : Visits(g, bd, p))[DOMAIN Idx(bd.nodes)]

LEMMA PayloadsIsFold ==
  ASSUME NEW bd, NEW p
  PROVE  Payloads(bd, p) = Visit(bd, p).out
BY Zenon DEF Payloads, FoldLeftDomain, FoldLeft, MapThenFoldSet, Visit, Visits, Visited, Idx

Walks(bd, p) == [entered : SUBSET Nat, out : Seq(Strings(bd, p))]

LEMMA VisitType ==
  ASSUME NEW bd \in Bodies, NEW p, NEW acc \in Walks(bd, p), NEW k \in DOMAIN bd.nodes
  PROVE  Visited(acc, Idx(bd.nodes)[k], bd, p) \in Walks(bd, p)
<1>1. Idx(bd.nodes)[k] = k /\ k \in Nat
  BY NodesOf DEF Idx
<1>2. /\ Cand(bd.nodes[k], "Media", p.min_payload) \in Strings(bd, p)
      /\ Cand(bd.nodes[k], "Text", p.min_payload) \in Strings(bd, p)
  BY NodeSpot DEF Strings, Floors
<1>3. acc.out \in Seq(Strings(bd, p)) /\ acc.entered \in SUBSET Nat
  BY DEF Walks
<1>4. \A c \in Strings(bd, p) : Append(acc.out, c) \in Seq(Strings(bd, p))
  BY <1>3, AppendProperties
<1>5. [acc EXCEPT !.out = Append(@, Cand(bd.nodes[k], "Media", p.min_payload))] \in Walks(bd, p)
  BY <1>2, <1>4 DEF Walks
<1>6. ASSUME NEW e \in SUBSET Nat, NEW o \in Seq(Strings(bd, p))
      PROVE  [entered |-> e, out |-> o] \in Walks(bd, p)
  BY DEF Walks
<1>7. acc.entered \cup {k} \in SUBSET Nat
  BY <1>1, <1>3
<1>8. Append(acc.out, Cand(bd.nodes[k], IF bd.nodes[k].uri THEN "Media" ELSE "Text",
                           p.min_payload)) \in Seq(Strings(bd, p))
  BY <1>2, <1>4
<1> HIDE DEF Cand
<1> QED
  BY <1>1, <1>3, <1>5, <1>6, <1>7, <1>8 DEF Visited

\* What collect_payloads has after each node.
LEMMA VisitPath ==
  ASSUME NEW bd \in Bodies, NEW p
  PROVE  \E h \in [0 .. Len(Idx(bd.nodes)) -> Walks(bd, p)] :
           /\ h[0] = [entered |-> {}, out |-> <<>>] /\ h[Len(Idx(bd.nodes))] = Visit(bd, p)
           /\ \A k \in 1 .. Len(Idx(bd.nodes)) : h[k] = Visited(h[k - 1], Idx(bd.nodes)[k], bd, p)
<1>1. PICK n : n \in Nat /\ n = Len(Idx(bd.nodes)) /\ DOMAIN Idx(bd.nodes) = 1 .. n
  BY NodesOf, IdxOf
<1>2. PICK U : U = Walks(bd, p)
  OBVIOUS
<1>3. \A x \in U, k \in 1 .. n : Visited(x, Idx(bd.nodes)[k], bd, p) \in U
  BY <1>1, <1>2, VisitType, NodesOf, IdxOf
<1>4. PICK F : /\ F \in [U \X (1 .. n) -> U]
               /\ \A x \in U, k \in 1 .. n : F[<<x, k>>] = Visited(x, Idx(bd.nodes)[k], bd, p)
  <2> DEFINE f == [y \in U \X (1 .. n) |-> Visited(y[1], Idx(bd.nodes)[y[2]], bd, p)]
  <2>1. /\ f \in [U \X (1 .. n) -> U]
        /\ \A x \in U, k \in 1 .. n : f[<<x, k>>] = Visited(x, Idx(bd.nodes)[k], bd, p)
    BY <1>3
  <2> QED
    BY <2>1
<1>5. PICK b : b = [entered |-> {}, out |-> <<>>]
  OBVIOUS
<1>6. b \in U
  BY <1>2, <1>5 DEF Walks
<1>7. PICK g : g \in [SUBSET (1 .. n) -> U] /\ Folds(g, 1 .. n, F, b)
  BY <1>1, <1>4, <1>6, FoldsExists
<1>8. Visits(g, bd, p)
  <2>1. ASSUME NEW s \in SUBSET (1 .. n)
        PROVE  (IF s = {} THEN b ELSE F[<<g[s \ {Max(s)}], Max(s)>>])
                 = (IF s = {} THEN [entered |-> {}, out |-> <<>>]
                    ELSE Visited(g[s \ {Max(s)}], Idx(bd.nodes)[Max(s)], bd, p))
    <3>1. CASE s = {}
      BY <1>5, <3>1
    <3>2. CASE s # {}
      <4>1. Max(s) \in 1 .. n
        BY <1>1, <3>2, MaxIn
      <4>2. g[s \ {Max(s)}] \in U
        BY <1>7
      <4> QED
        BY <1>4, <3>2, <4>1, <4>2
    <3> QED
      BY <3>1, <3>2
  <2>2. g = [s \in SUBSET (1 .. n) |->
               IF s = {} THEN b ELSE F[<<g[s \ {Max(s)}], Max(s)>>]]
    BY <1>7 DEF Folds
  <2>3. g = [s \in SUBSET (1 .. n) |->
               IF s = {} THEN [entered |-> {}, out |-> <<>>]
               ELSE Visited(g[s \ {Max(s)}], Idx(bd.nodes)[Max(s)], bd, p)]
    BY <2>1, <2>2
  <2> QED
    BY <1>1, <2>3 DEF Visits
<1>9. PICK c : c = CHOOSE e : Visits(e, bd, p)
  OBVIOUS
<1>10. Visits(c, bd, p) /\ Visit(bd, p) = c[1 .. n]
  BY <1>1, <1>8, <1>9, NodesOf DEF Visit
<1>11. c = [s \in SUBSET (1 .. n) |->
               IF s = {} THEN [entered |-> {}, out |-> <<>>]
               ELSE Visited(c[s \ {Max(s)}], Idx(bd.nodes)[Max(s)], bd, p)]
  BY <1>1, <1>10 DEF Visits
<1>12. c[{}] = b
  BY <1>5, <1>11
<1>13. ASSUME NEW s, s \subseteq 1 .. n, s # {}, c[s \ {Max(s)}] \in U
       PROVE  c[s] = F[<<c[s \ {Max(s)}], Max(s)>>]
  <2>1. Max(s) \in 1 .. n
    BY <1>1, <1>13, MaxIn
  <2>2. c[s] = Visited(c[s \ {Max(s)}], Idx(bd.nodes)[Max(s)], bd, p)
    BY <1>11, <1>13
  <2> QED
    BY <1>4, <1>13, <2>1, <2>2
<1>14. \A s : s \subseteq 1 .. n /\ s # {} /\ c[s \ {Max(s)}] \in U
               => c[s] = F[<<c[s \ {Max(s)}], Max(s)>>]
  BY <1>13
<1>15. Runs(c, n, F, b, U)
  BY <1>1, <1>4, <1>6, <1>12, <1>14 DEF Runs
<1>16. PICK h : Path(h, c, n, F, b, U)
  BY <1>15, FoldPath
<1>17. /\ h \in [0 .. n -> U] /\ h[0] = b /\ h[n] = c[1 .. n]
       /\ \A k \in 1 .. n : h[k] = F[<<h[k - 1], k>>]
  BY <1>16 DEF Path
<1>18. \A k \in 1 .. n : h[k] = Visited(h[k - 1], Idx(bd.nodes)[k], bd, p)
  <2> SUFFICES ASSUME NEW k \in 1 .. n PROVE h[k] = Visited(h[k - 1], Idx(bd.nodes)[k], bd, p)
    OBVIOUS
  <2>1. k - 1 \in 0 .. n
    BY <1>1
  <2>2. h[k - 1] \in U
    BY <1>17, <2>1
  <2> QED
    BY <1>4, <1>17, <2>2
<1> QED
  BY <1>1, <1>2, <1>5, <1>10, <1>17, <1>18

\* What the sequences of candidates are.
LEMMA CandsType ==
  ASSUME NEW bd \in Bodies, NEW p
  PROVE  Cands(bd, p) \in Seq(Members(bd, p))
<1>1. PICK h \in [0 .. Len(Idx(bd.nodes)) -> Seq(Members(bd, p))] :
        h[Len(Idx(bd.nodes))] = Cands(bd, p)
  BY CandsPath
<1>2. Len(Idx(bd.nodes)) \in 0 .. Len(Idx(bd.nodes))
  BY NodesOf, IdxOf
<1> QED
  BY <1>1, <1>2

LEMMA PayloadsType ==
  ASSUME NEW bd \in Bodies, NEW p
  PROVE  Payloads(bd, p) \in Seq(Strings(bd, p))
<1>1. PICK h \in [0 .. Len(Idx(bd.nodes)) -> Walks(bd, p)] :
        h[Len(Idx(bd.nodes))] = Visit(bd, p)
  BY VisitPath
<1>2. Len(Idx(bd.nodes)) \in 0 .. Len(Idx(bd.nodes))
  BY NodesOf, IdxOf
<1>3. Visit(bd, p) \in Walks(bd, p)
  BY <1>1, <1>2
<1> QED
  BY <1>3, PayloadsIsFold DEF Walks

\* The payloads inside a member.
KidTaken(kids, pl, m) == IF Within(pl, m) THEN Append(kids, pl) ELSE kids

KidsTaken(g, m, pls) ==
  g = [s \in SUBSET DOMAIN pls |->
         IF s = {} THEN <<>> ELSE KidTaken(g[s \ {Max(s)}], pls[Max(s)], m)]

LEMMA KidsIsFold ==
  ASSUME NEW m, NEW pls
  PROVE  KidsOf(m, pls) = (CHOOSE g : KidsTaken(g, m, pls))[DOMAIN pls]
BY Zenon DEF KidsOf, FoldLeft, MapThenFoldSet, KidsTaken, KidTaken

LEMMA KidType ==
  ASSUME NEW S, NEW kids \in Seq(S), NEW pl \in S, NEW m
  PROVE  KidTaken(kids, pl, m) \in Seq(S)
BY AppendProperties DEF KidTaken

\* What KidsOf has after each payload.
LEMMA KidsPath ==
  ASSUME NEW S, NEW pls \in Seq(S), NEW m
  PROVE  \E h \in [0 .. Len(pls) -> Seq(S)] :
           /\ h[0] = <<>> /\ h[Len(pls)] = KidsOf(m, pls)
           /\ \A k \in 1 .. Len(pls) : h[k] = KidTaken(h[k - 1], pls[k], m)
<1>1. PICK n : n \in Nat /\ n = Len(pls) /\ DOMAIN pls = 1 .. n
  OBVIOUS
<1>2. PICK U : U = Seq(S)
  OBVIOUS
<1>3. \A x \in U, k \in 1 .. n : KidTaken(x, pls[k], m) \in U
  BY <1>1, <1>2, KidType, ElementOfSeq
<1>4. PICK F : /\ F \in [U \X (1 .. n) -> U]
               /\ \A x \in U, k \in 1 .. n : F[<<x, k>>] = KidTaken(x, pls[k], m)
  <2> DEFINE f == [y \in U \X (1 .. n) |-> KidTaken(y[1], pls[y[2]], m)]
  <2>1. /\ f \in [U \X (1 .. n) -> U]
        /\ \A x \in U, k \in 1 .. n : f[<<x, k>>] = KidTaken(x, pls[k], m)
    BY <1>3
  <2> QED
    BY <2>1
<1>5. PICK b : b = <<>>
  OBVIOUS
<1>6. b \in U
  BY <1>2, <1>5
<1>7. PICK g : g \in [SUBSET (1 .. n) -> U] /\ Folds(g, 1 .. n, F, b)
  BY <1>1, <1>4, <1>6, FoldsExists
<1>8. KidsTaken(g, m, pls)
  <2>1. ASSUME NEW s \in SUBSET (1 .. n)
        PROVE  (IF s = {} THEN b ELSE F[<<g[s \ {Max(s)}], Max(s)>>])
                 = (IF s = {} THEN <<>> ELSE KidTaken(g[s \ {Max(s)}], pls[Max(s)], m))
    <3>1. CASE s = {}
      BY <1>5, <3>1
    <3>2. CASE s # {}
      <4>1. Max(s) \in 1 .. n
        BY <1>1, <3>2, MaxIn
      <4>2. g[s \ {Max(s)}] \in U
        BY <1>7
      <4> QED
        BY <1>4, <3>2, <4>1, <4>2
    <3> QED
      BY <3>1, <3>2
  <2>2. g = [s \in SUBSET (1 .. n) |->
               IF s = {} THEN b ELSE F[<<g[s \ {Max(s)}], Max(s)>>]]
    BY <1>7 DEF Folds
  <2>3. g = [s \in SUBSET (1 .. n) |->
               IF s = {} THEN <<>> ELSE KidTaken(g[s \ {Max(s)}], pls[Max(s)], m)]
    BY <2>1, <2>2
  <2> QED
    BY <1>1, <2>3 DEF KidsTaken
<1>9. PICK c : c = CHOOSE e : KidsTaken(e, m, pls)
  OBVIOUS
<1>10. KidsTaken(c, m, pls) /\ KidsOf(m, pls) = c[1 .. n]
  BY <1>1, <1>8, <1>9, KidsIsFold
<1>11. c = [s \in SUBSET (1 .. n) |->
               IF s = {} THEN <<>> ELSE KidTaken(c[s \ {Max(s)}], pls[Max(s)], m)]
  BY <1>1, <1>10 DEF KidsTaken
<1>12. c[{}] = b
  BY <1>5, <1>11
<1>13. ASSUME NEW s, s \subseteq 1 .. n, s # {}, c[s \ {Max(s)}] \in U
       PROVE  c[s] = F[<<c[s \ {Max(s)}], Max(s)>>]
  <2>1. Max(s) \in 1 .. n
    BY <1>1, <1>13, MaxIn
  <2>2. c[s] = KidTaken(c[s \ {Max(s)}], pls[Max(s)], m)
    BY <1>11, <1>13
  <2> QED
    BY <1>4, <1>13, <2>1, <2>2
<1>14. \A s : s \subseteq 1 .. n /\ s # {} /\ c[s \ {Max(s)}] \in U
               => c[s] = F[<<c[s \ {Max(s)}], Max(s)>>]
  BY <1>13
<1>15. Runs(c, n, F, b, U)
  BY <1>1, <1>4, <1>6, <1>12, <1>14 DEF Runs
<1>16. PICK h : Path(h, c, n, F, b, U)
  BY <1>15, FoldPath
<1>17. /\ h \in [0 .. n -> U] /\ h[0] = b /\ h[n] = c[1 .. n]
       /\ \A k \in 1 .. n : h[k] = F[<<h[k - 1], k>>]
  BY <1>16 DEF Path
<1>18. \A k \in 1 .. n : h[k] = KidTaken(h[k - 1], pls[k], m)
  <2> SUFFICES ASSUME NEW k \in 1 .. n PROVE h[k] = KidTaken(h[k - 1], pls[k], m)
    OBVIOUS
  <2>1. k - 1 \in 0 .. n
    BY <1>1
  <2>2. h[k - 1] \in U
    BY <1>17, <2>1
  <2> QED
    BY <1>4, <1>17, <2>2
<1> QED
  BY <1>1, <1>2, <1>5, <1>10, <1>17, <1>18

LEMMA KidsType ==
  ASSUME NEW S, NEW pls \in Seq(S), NEW m
  PROVE  KidsOf(m, pls) \in Seq(S)
<1>1. PICK h \in [0 .. Len(pls) -> Seq(S)] : h[Len(pls)] = KidsOf(m, pls)
  BY KidsPath
<1>2. Len(pls) \in 0 .. Len(pls)
  OBVIOUS
<1> QED
  BY <1>1, <1>2

\* What is in a sequence is finite, and so is a set with one thing for each of a finite set.
LEMMA FiniteImage ==
  ASSUME NEW S, IsFiniteSet(S), NEW f, DOMAIN f = S
  PROVE  IsFiniteSet({f[x] : x \in S})
<1> DEFINE t == [x \in S |-> f[x]]
           T == {f[x] : x \in S}
<1>1. t \in Surjection(S, T)
  BY DEF Surjection
<1> HIDE DEF t, T
<1>2. IsFiniteSet(T)
  BY <1>1, FS_Surjection
<1> QED
  BY <1>2 DEF T

LEMMA SeqFinite ==
  ASSUME NEW S, NEW q \in Seq(S)
  PROVE  IsFiniteSet(ToSet(q)) /\ ToSet(q) \subseteq S
<1>1. DOMAIN q = 1 .. Len(q) /\ Len(q) \in Int
  OBVIOUS
<1>2. PICK D : D = DOMAIN q /\ IsFiniteSet(D)
  BY <1>1, FS_Interval
<1>4. IsFiniteSet({q[i] : i \in D})
  BY <1>2, FiniteImage
<1>3. ToSet(q) \subseteq S
  BY <1>1, ElementOfSeq DEF ToSet
<1> QED
  BY <1>2, <1>3, <1>4 DEF ToSet

\* The groups, before they are put in order.
Promoted(bd, p) ==
  {pl \in ToSet(Payloads(bd, p)) : ~\E c \in ToSet(Cands(bd, p)) : Within(pl, c)}
AllGroups(bd, p) ==
  {[cand |-> c, kids |-> KidsOf(c, Payloads(bd, p))] : c \in ToSet(Cands(bd, p))}
    \cup {[cand |-> pl, kids |-> <<>>] : pl \in Promoted(bd, p)}

LEMMA SpotsOfKinds ==
  ASSUME NEW bd, NEW p
  PROVE  /\ Members(bd, p) \subseteq Spots(bd, Kinds, p)
         /\ Strings(bd, p) \subseteq Spots(bd, Leaves, p)
         /\ Spots(bd, Leaves, p) \subseteq Spots(bd, Kinds, p)
         /\ Spots(bd, {"Chunk"}, p) \subseteq Spots(bd, Leaves, p)
         /\ \A c \in Members(bd, p) : c.kind = "JsonMember"
BY DEF Members, Strings, Spots, Kinds, Leaves

LEMMA SeqWider ==
  ASSUME NEW S, NEW T, S \subseteq T, NEW q \in Seq(S)
  PROVE  q \in Seq(T)
<1>1. q \in [1 .. Len(q) -> T] /\ Len(q) \in Nat
  BY ElementOfSeq
<1> QED
  BY <1>1, SeqDef

LEMMA AllGroupsType ==
  ASSUME NEW bd \in Bodies, NEW p
  PROVE  AllGroups(bd, p) \subseteq GroupsOf(bd, p) /\ IsFiniteSet(AllGroups(bd, p))
<1> DEFINE cands == ToSet(Cands(bd, p))
           pls   == Payloads(bd, p)
<1>1. IsFiniteSet(cands) /\ cands \subseteq Members(bd, p)
  BY CandsType, SeqFinite
<1>2. IsFiniteSet(ToSet(pls)) /\ ToSet(pls) \subseteq Strings(bd, p)
  BY PayloadsType, SeqFinite
<1>3. \A c : KidsOf(c, pls) \in Seq(Spots(bd, Leaves, p))
  <2> SUFFICES ASSUME NEW c PROVE KidsOf(c, pls) \in Seq(Spots(bd, Leaves, p))
    OBVIOUS
  <2>1. KidsOf(c, pls) \in Seq(Strings(bd, p))
    BY PayloadsType, KidsType
  <2> QED
    BY <2>1, SpotsOfKinds, SeqWider
<1> DEFINE inside  == [c \in cands |-> [cand |-> c, kids |-> KidsOf(c, pls)]]
           outside == [pl \in Promoted(bd, p) |-> [cand |-> pl, kids |-> <<>>]]
<1>4. /\ IsFiniteSet({inside[c] : c \in cands})
      /\ IsFiniteSet({outside[pl] : pl \in Promoted(bd, p)})
  <2>1. IsFiniteSet(Promoted(bd, p))
    BY <1>2, FS_Subset DEF Promoted
  <2>2. DOMAIN inside = cands /\ DOMAIN outside = Promoted(bd, p)
    OBVIOUS
  <2> HIDE DEF inside, outside, cands
  <2> QED
    BY <1>1, <2>1, <2>2, FiniteImage
<1>5. AllGroups(bd, p) = {inside[c] : c \in cands} \cup {outside[pl] : pl \in Promoted(bd, p)}
  BY DEF AllGroups
<1>6. \A c \in cands : inside[c] \in GroupsOf(bd, p)
  BY <1>1, <1>3, SpotsOfKinds DEF GroupsOf
<1>7. \A pl \in Promoted(bd, p) : outside[pl] \in GroupsOf(bd, p)
  <2>1. Promoted(bd, p) \subseteq Spots(bd, Kinds, p)
    BY <1>2, SpotsOfKinds DEF Promoted
  <2>2. <<>> \in Seq(Spots(bd, Leaves, p))
    OBVIOUS
  <2> QED
    BY <2>1, <2>2 DEF GroupsOf
<1> HIDE DEF inside, outside, cands
<1> QED
  BY <1>4, <1>5, <1>6, <1>7, FS_Union

\* structural_groups: those that start where the node does.
GroupTaken(had, i, bd, p) ==
  had \o SetToSeq({g \in AllGroups(bd, p) : g.cand.start = bd.nodes[i].start})

Groupings(g, bd, p) ==
  g = [s \in SUBSET DOMAIN Idx(bd.nodes) |->
         IF s = {} THEN <<>> ELSE GroupTaken(g[s \ {Max(s)}], Idx(bd.nodes)[Max(s)], bd, p)]

LEMMA GroupsIsFold ==
  ASSUME NEW bd, NEW p
  PROVE  StructuralGroups(bd, p) = (CHOOSE g : Groupings(g, bd, p))[DOMAIN Idx(bd.nodes)]
BY Zenon DEF StructuralGroups, FoldLeftDomain, FoldLeft, MapThenFoldSet, Groupings, GroupTaken,
             AllGroups, Promoted, Idx

LEMMA GroupTakenType ==
  ASSUME NEW bd \in Bodies, NEW p, NEW had \in Seq(GroupsOf(bd, p)), NEW i
  PROVE  GroupTaken(had, i, bd, p) \in Seq(GroupsOf(bd, p))
<1> DEFINE T == {g \in AllGroups(bd, p) : g.cand.start = bd.nodes[i].start}
<1>1. T \subseteq GroupsOf(bd, p) /\ IsFiniteSet(T)
  BY AllGroupsType, FS_Subset
<1> HIDE DEF T
<1>2. SetToSeq(T) \in Seq(T)
  BY <1>1, OrderOf
<1>3. SetToSeq(T) \in Seq(GroupsOf(bd, p))
  BY <1>1, <1>2, SeqWider
<1>4. had \o SetToSeq(T) \in Seq(GroupsOf(bd, p))
  BY <1>3
<1> QED
  BY <1>4 DEF T, GroupTaken

\* What structural_groups has after each node.
LEMMA GroupsPath ==
  ASSUME NEW bd \in Bodies, NEW p
  PROVE  \E h \in [0 .. Len(Idx(bd.nodes)) -> Seq(GroupsOf(bd, p))] :
           /\ h[0] = <<>> /\ h[Len(Idx(bd.nodes))] = StructuralGroups(bd, p)
           /\ \A k \in 1 .. Len(Idx(bd.nodes)) :
                        h[k] = GroupTaken(h[k - 1], Idx(bd.nodes)[k], bd, p)
<1>1. PICK n : n \in Nat /\ n = Len(Idx(bd.nodes)) /\ DOMAIN Idx(bd.nodes) = 1 .. n
  BY NodesOf, IdxOf
<1>2. PICK U : U = Seq(GroupsOf(bd, p))
  OBVIOUS
<1>3. \A x \in U, k \in 1 .. n : GroupTaken(x, Idx(bd.nodes)[k], bd, p) \in U
  BY <1>1, <1>2, GroupTakenType
<1>4. PICK F : /\ F \in [U \X (1 .. n) -> U]
               /\ \A x \in U, k \in 1 .. n : F[<<x, k>>] = GroupTaken(x, Idx(bd.nodes)[k], bd, p)
  <2> DEFINE f == [y \in U \X (1 .. n) |-> GroupTaken(y[1], Idx(bd.nodes)[y[2]], bd, p)]
  <2>1. /\ f \in [U \X (1 .. n) -> U]
        /\ \A x \in U, k \in 1 .. n : f[<<x, k>>] = GroupTaken(x, Idx(bd.nodes)[k], bd, p)
    BY <1>3
  <2> QED
    BY <2>1
<1>5. PICK b : b = <<>>
  OBVIOUS
<1>6. b \in U
  BY <1>2, <1>5
<1>7. PICK g : g \in [SUBSET (1 .. n) -> U] /\ Folds(g, 1 .. n, F, b)
  BY <1>1, <1>4, <1>6, FoldsExists
<1>8. Groupings(g, bd, p)
  <2>1. ASSUME NEW s \in SUBSET (1 .. n)
        PROVE  (IF s = {} THEN b ELSE F[<<g[s \ {Max(s)}], Max(s)>>])
                 = (IF s = {} THEN <<>>
                    ELSE GroupTaken(g[s \ {Max(s)}], Idx(bd.nodes)[Max(s)], bd, p))
    <3>1. CASE s = {}
      BY <1>5, <3>1
    <3>2. CASE s # {}
      <4>1. Max(s) \in 1 .. n
        BY <1>1, <3>2, MaxIn
      <4>2. g[s \ {Max(s)}] \in U
        BY <1>7
      <4> QED
        BY <1>4, <3>2, <4>1, <4>2
    <3> QED
      BY <3>1, <3>2
  <2>2. g = [s \in SUBSET (1 .. n) |->
               IF s = {} THEN b ELSE F[<<g[s \ {Max(s)}], Max(s)>>]]
    BY <1>7 DEF Folds
  <2>3. g = [s \in SUBSET (1 .. n) |->
               IF s = {} THEN <<>> ELSE GroupTaken(g[s \ {Max(s)}], Idx(bd.nodes)[Max(s)], bd, p)]
    BY <2>1, <2>2
  <2> QED
    BY <1>1, <2>3 DEF Groupings
<1>9. PICK c : c = CHOOSE e : Groupings(e, bd, p)
  OBVIOUS
<1>10. Groupings(c, bd, p) /\ StructuralGroups(bd, p) = c[1 .. n]
  BY <1>1, <1>8, <1>9, GroupsIsFold
<1>11. c = [s \in SUBSET (1 .. n) |->
               IF s = {} THEN <<>> ELSE GroupTaken(c[s \ {Max(s)}], Idx(bd.nodes)[Max(s)], bd, p)]
  BY <1>1, <1>10 DEF Groupings
<1>12. c[{}] = b
  BY <1>5, <1>11
<1>13. ASSUME NEW s, s \subseteq 1 .. n, s # {}, c[s \ {Max(s)}] \in U
       PROVE  c[s] = F[<<c[s \ {Max(s)}], Max(s)>>]
  <2>1. Max(s) \in 1 .. n
    BY <1>1, <1>13, MaxIn
  <2>2. c[s] = GroupTaken(c[s \ {Max(s)}], Idx(bd.nodes)[Max(s)], bd, p)
    BY <1>11, <1>13
  <2> QED
    BY <1>4, <1>13, <2>1, <2>2
<1>14. \A s : s \subseteq 1 .. n /\ s # {} /\ c[s \ {Max(s)}] \in U
               => c[s] = F[<<c[s \ {Max(s)}], Max(s)>>]
  BY <1>13
<1>15. Runs(c, n, F, b, U)
  BY <1>1, <1>4, <1>6, <1>12, <1>14 DEF Runs
<1>16. PICK h : Path(h, c, n, F, b, U)
  BY <1>15, FoldPath
<1>17. /\ h \in [0 .. n -> U] /\ h[0] = b /\ h[n] = c[1 .. n]
       /\ \A k \in 1 .. n : h[k] = F[<<h[k - 1], k>>]
  BY <1>16 DEF Path
<1>18. \A k \in 1 .. n : h[k] = GroupTaken(h[k - 1], Idx(bd.nodes)[k], bd, p)
  <2> SUFFICES ASSUME NEW k \in 1 .. n PROVE h[k] = GroupTaken(h[k - 1], Idx(bd.nodes)[k], bd, p)
    OBVIOUS
  <2>1. k - 1 \in 0 .. n
    BY <1>1
  <2>2. h[k - 1] \in U
    BY <1>17, <2>1
  <2> QED
    BY <1>4, <1>17, <2>2
<1> QED
  BY <1>1, <1>2, <1>5, <1>10, <1>17, <1>18

LEMMA StructuralType ==
  ASSUME NEW bd \in Bodies, NEW p
  PROVE  StructuralGroups(bd, p) \in Seq(GroupsOf(bd, p))
<1>1. PICK h \in [0 .. Len(Idx(bd.nodes)) -> Seq(GroupsOf(bd, p))] :
        h[Len(Idx(bd.nodes))] = StructuralGroups(bd, p)
  BY GroupsPath
<1>2. Len(Idx(bd.nodes)) \in 0 .. Len(Idx(bd.nodes))
  BY NodesOf, IdxOf
<1> QED
  BY <1>1, <1>2

\* cdc_candidates.
ChunkFloor(p) == IF p.cdc_min > p.min_block THEN p.cdc_min ELSE p.min_block
ChunkAt(s, e, p) == [start |-> s, end |-> e, kind |-> "Chunk", floor |-> ChunkFloor(p)]
ChunkTaken(acc, i, bd, p) ==
  LET h == (2 * acc.h + Gear[bd.bytes[i]]) % (2 ^ p.cdc_bits)
      cut == i - acc.start >= ChunkFloor(p) /\ (h = 0 \/ i - acc.start >= p.cdc_max)
  IN  [h |-> h, start |-> IF cut THEN i ELSE acc.start,
       out |-> IF cut THEN Append(acc.out, ChunkAt(acc.start, i, p)) ELSE acc.out]

ChunkRun(g, bd, p) ==
  g = [s \in SUBSET DOMAIN Idx(bd.bytes) |->
         IF s = {} THEN [h |-> 0, start |-> 0, out |-> <<>>]
         ELSE ChunkTaken(g[s \ {Max(s)}], Idx(bd.bytes)[Max(s)], bd, p)]
ChunksDone(bd, p) == (CHOOSE g : ChunkRun(g, bd, p))[DOMAIN Idx(bd.bytes)]

LEMMA ChunksIsFold ==
  ASSUME NEW bd, NEW p
  PROVE  Chunks(bd, p) =
           LET done == ChunksDone(bd, p)
               end  == Len(bd.bytes)
           IN  IF done.start < end THEN Append(done.out, ChunkAt(done.start, end, p))
               ELSE done.out
BY Zenon DEF Chunks, FoldLeftDomain, FoldLeft, MapThenFoldSet, ChunksDone, ChunkRun, ChunkTaken,
             ChunkAt, ChunkFloor, Idx

Cuts(bd, p) == Spots(bd, {"Chunk"}, p)
ChunkStates(bd, p) == [h : Nat, start : 0 .. Len(bd.bytes), out : Seq(Cuts(bd, p))]

LEMMA CutType ==
  ASSUME NEW bd \in Bodies, NEW p, NEW s \in 0 .. Len(bd.bytes), NEW e \in 0 .. Len(bd.bytes),
         s <= e
  PROVE  ChunkAt(s, e, p) \in Cuts(bd, p)
<1>1. ChunkFloor(p) \in Floors(p)
  BY DEF ChunkFloor, Floors
<1> QED
  BY <1>1 DEF ChunkAt, Cuts, Spots

LEMMA ChunkTakenType ==
  ASSUME NEW bd \in Bodies, NEW p \in Policies, NEW acc \in ChunkStates(bd, p),
         NEW k \in 1 .. Len(bd.bytes)
  PROVE  ChunkTaken(acc, Idx(bd.bytes)[k], bd, p) \in ChunkStates(bd, p)
<1>1. bd.bytes \in Seq(Byte) /\ Len(bd.bytes) \in Nat
  BY NodesOf
<1>2. Idx(bd.bytes)[k] = k /\ k \in Nat /\ k \in 0 .. Len(bd.bytes)
  BY <1>1, IdxOf
<1>3. Gear[bd.bytes[k]] \in Nat
  <2>1. bd.bytes[k] \in Byte
    BY <1>1, ElementOfSeq
  <2> QED
    BY <2>1, PolicyAssumption DEF Byte
<1>4. /\ acc.h \in Nat /\ acc.start \in 0 .. Len(bd.bytes) /\ acc.start \in Nat
      /\ acc.out \in Seq(Cuts(bd, p))
  BY <1>1 DEF ChunkStates
<1>5. PICK m : m \in Nat \ {0} /\ m = 2 ^ p.cdc_bits
  BY PolicyAssumption
<1>6. PICK h : h \in Nat /\ h = (2 * acc.h + Gear[bd.bytes[k]]) % (2 ^ p.cdc_bits)
  <2>1. PICK x : x \in Nat /\ x = 2 * acc.h + Gear[bd.bytes[k]]
    BY <1>3, <1>4
  <2>2. x % m \in Nat
    BY <1>5, <2>1
  <2> QED
    BY <1>5, <2>1, <2>2
<1>7. ChunkFloor(p) \in Nat
  BY PolicyAssumption DEF ChunkFloor
<1>8. k - acc.start >= ChunkFloor(p) => acc.start <= k
  BY <1>2, <1>4, <1>7
<1>9. acc.start <= k => Append(acc.out, ChunkAt(acc.start, k, p)) \in Seq(Cuts(bd, p))
  BY <1>2, <1>4, CutType, AppendProperties
<1>10. \A s \in 0 .. Len(bd.bytes), o \in Seq(Cuts(bd, p)) :
         [h |-> h, start |-> s, out |-> o] \in ChunkStates(bd, p)
  BY <1>6 DEF ChunkStates
<1> DEFINE cut == /\ k - acc.start >= ChunkFloor(p)
                  /\ (h = 0 \/ k - acc.start >= p.cdc_max)
<1>11. ChunkTaken(acc, Idx(bd.bytes)[k], bd, p)
         = [h |-> h, start |-> IF cut THEN k ELSE acc.start,
            out |-> IF cut THEN Append(acc.out, ChunkAt(acc.start, k, p)) ELSE acc.out]
  BY <1>2, <1>6 DEF ChunkTaken
<1> QED
  BY <1>2, <1>4, <1>8, <1>9, <1>10, <1>11

\* What cdc_candidates has after each byte.
LEMMA ChunksPath ==
  ASSUME NEW bd \in Bodies, NEW p \in Policies
  PROVE  \E h \in [0 .. Len(Idx(bd.bytes)) -> ChunkStates(bd, p)] :
           /\ h[0] = [h |-> 0, start |-> 0, out |-> <<>>]
                  /\ h[Len(Idx(bd.bytes))] = ChunksDone(bd, p)
           /\ \A k \in 1 .. Len(Idx(bd.bytes)) :
                        h[k] = ChunkTaken(h[k - 1], Idx(bd.bytes)[k], bd, p)
<1>1. PICK n : n \in Nat /\ n = Len(Idx(bd.bytes)) /\ DOMAIN Idx(bd.bytes) = 1 .. n
  BY NodesOf, IdxOf
<1>2. PICK U : U = ChunkStates(bd, p)
  OBVIOUS
<1>3. \A x \in U, k \in 1 .. n : ChunkTaken(x, Idx(bd.bytes)[k], bd, p) \in U
  BY <1>1, <1>2, ChunkTakenType, NodesOf, IdxOf
<1>4. PICK F : /\ F \in [U \X (1 .. n) -> U]
               /\ \A x \in U, k \in 1 .. n : F[<<x, k>>] = ChunkTaken(x, Idx(bd.bytes)[k], bd, p)
  <2> DEFINE f == [y \in U \X (1 .. n) |-> ChunkTaken(y[1], Idx(bd.bytes)[y[2]], bd, p)]
  <2>1. /\ f \in [U \X (1 .. n) -> U]
        /\ \A x \in U, k \in 1 .. n : f[<<x, k>>] = ChunkTaken(x, Idx(bd.bytes)[k], bd, p)
    BY <1>3
  <2> QED
    BY <2>1
<1>5. PICK b : b = [h |-> 0, start |-> 0, out |-> <<>>]
  OBVIOUS
<1>6. b \in U
  BY <1>2, <1>5, NodesOf DEF ChunkStates
<1>7. PICK g : g \in [SUBSET (1 .. n) -> U] /\ Folds(g, 1 .. n, F, b)
  BY <1>1, <1>4, <1>6, FoldsExists
<1>8. ChunkRun(g, bd, p)
  <2>1. ASSUME NEW s \in SUBSET (1 .. n)
        PROVE  (IF s = {} THEN b ELSE F[<<g[s \ {Max(s)}], Max(s)>>])
                 = (IF s = {} THEN [h |-> 0, start |-> 0, out |-> <<>>]
                    ELSE ChunkTaken(g[s \ {Max(s)}], Idx(bd.bytes)[Max(s)], bd, p))
    <3>1. CASE s = {}
      BY <1>5, <3>1
    <3>2. CASE s # {}
      <4>1. Max(s) \in 1 .. n
        BY <1>1, <3>2, MaxIn
      <4>2. g[s \ {Max(s)}] \in U
        BY <1>7
      <4> QED
        BY <1>4, <3>2, <4>1, <4>2
    <3> QED
      BY <3>1, <3>2
  <2>2. g = [s \in SUBSET (1 .. n) |->
               IF s = {} THEN b ELSE F[<<g[s \ {Max(s)}], Max(s)>>]]
    BY <1>7 DEF Folds
  <2>3. g = [s \in SUBSET (1 .. n) |->
               IF s = {} THEN [h |-> 0, start |-> 0, out |-> <<>>]
               ELSE ChunkTaken(g[s \ {Max(s)}], Idx(bd.bytes)[Max(s)], bd, p)]
    BY <2>1, <2>2
  <2> QED
    BY <1>1, <2>3 DEF ChunkRun
<1>9. PICK c : c = CHOOSE e : ChunkRun(e, bd, p)
  OBVIOUS
<1>10. ChunkRun(c, bd, p) /\ ChunksDone(bd, p) = c[1 .. n]
  BY <1>1, <1>8, <1>9, NodesOf DEF ChunksDone
<1>11. c = [s \in SUBSET (1 .. n) |->
               IF s = {} THEN [h |-> 0, start |-> 0, out |-> <<>>]
               ELSE ChunkTaken(c[s \ {Max(s)}], Idx(bd.bytes)[Max(s)], bd, p)]
  BY <1>1, <1>10 DEF ChunkRun
<1>12. c[{}] = b
  BY <1>5, <1>11
<1>13. ASSUME NEW s, s \subseteq 1 .. n, s # {}, c[s \ {Max(s)}] \in U
       PROVE  c[s] = F[<<c[s \ {Max(s)}], Max(s)>>]
  <2>1. Max(s) \in 1 .. n
    BY <1>1, <1>13, MaxIn
  <2>2. c[s] = ChunkTaken(c[s \ {Max(s)}], Idx(bd.bytes)[Max(s)], bd, p)
    BY <1>11, <1>13
  <2> QED
    BY <1>4, <1>13, <2>1, <2>2
<1>14. \A s : s \subseteq 1 .. n /\ s # {} /\ c[s \ {Max(s)}] \in U
               => c[s] = F[<<c[s \ {Max(s)}], Max(s)>>]
  BY <1>13
<1>15. Runs(c, n, F, b, U)
  BY <1>1, <1>4, <1>6, <1>12, <1>14 DEF Runs
<1>16. PICK h : Path(h, c, n, F, b, U)
  BY <1>15, FoldPath
<1>17. /\ h \in [0 .. n -> U] /\ h[0] = b /\ h[n] = c[1 .. n]
       /\ \A k \in 1 .. n : h[k] = F[<<h[k - 1], k>>]
  BY <1>16 DEF Path
<1>18. \A k \in 1 .. n : h[k] = ChunkTaken(h[k - 1], Idx(bd.bytes)[k], bd, p)
  <2> SUFFICES ASSUME NEW k \in 1 .. n PROVE h[k] = ChunkTaken(h[k - 1], Idx(bd.bytes)[k], bd, p)
    OBVIOUS
  <2>1. k - 1 \in 0 .. n
    BY <1>1
  <2>2. h[k - 1] \in U
    BY <1>17, <2>1
  <2> QED
    BY <1>4, <1>17, <2>2
<1> QED
  BY <1>1, <1>2, <1>5, <1>10, <1>17, <1>18

LEMMA ChunkGroupsType ==
  ASSUME NEW bd \in Bodies, NEW p \in Policies
  PROVE  ChunkGroups(bd, p) \in Seq(GroupsOf(bd, p))
<1>0. bd.bytes \in Seq(Byte) /\ Len(bd.bytes) \in Nat
  BY NodesOf
<1>1. PICK h \in [0 .. Len(Idx(bd.bytes)) -> ChunkStates(bd, p)] :
        h[Len(Idx(bd.bytes))] = ChunksDone(bd, p)
  BY ChunksPath
<1>2. Len(Idx(bd.bytes)) \in 0 .. Len(Idx(bd.bytes))
  BY <1>0, IdxOf
<1>3. PICK done : done = ChunksDone(bd, p) /\ done \in ChunkStates(bd, p)
  BY <1>1, <1>2
<1>4. /\ done.start \in 0 .. Len(bd.bytes) /\ done.out \in Seq(Cuts(bd, p))
      /\ Len(bd.bytes) \in 0 .. Len(bd.bytes)
  BY <1>0, <1>3 DEF ChunkStates
<1>5. done.start < Len(bd.bytes)
        => Append(done.out, ChunkAt(done.start, Len(bd.bytes), p)) \in Seq(Cuts(bd, p))
  BY <1>0, <1>4, CutType, AppendProperties
<1>6. Chunks(bd, p) \in Seq(Cuts(bd, p))
  BY <1>3, <1>4, <1>5, ChunksIsFold
<1>7. PICK cs : cs = Chunks(bd, p) /\ cs \in Seq(Cuts(bd, p))
  BY <1>6
<1>8. \A i \in 1 .. Len(cs) : [cand |-> cs[i], kids |-> <<>>] \in GroupsOf(bd, p)
  <2>1. \A i \in 1 .. Len(cs) : cs[i] \in Spots(bd, Kinds, p)
    BY <1>7, ElementOfSeq, SpotsOfKinds DEF Cuts
  <2>2. <<>> \in Seq(Spots(bd, Leaves, p))
    OBVIOUS
  <2> QED
    BY <2>1, <2>2 DEF GroupsOf
<1>9. ChunkGroups(bd, p) \in [1 .. Len(cs) -> GroupsOf(bd, p)] /\ Len(cs) \in Nat
  BY <1>7, <1>8 DEF ChunkGroups
<1> QED
  BY <1>9, SeqDef

-----------------------------------------------------------------------------
(* The inductive invariant of a rebuild *)

\* A block that is a program stands for the bytes of its digest, and nests nothing deeper.
BlockOk(b) ==
  /\ b.body \in {"bytes", "program"} /\ b.digest \in Digests
  /\ b.body = "program" =>
       /\ b.digest.kind = "JsonMember"
       /\ Stands(b.instrs, b.digest.bytes, Leaves, 0, Len(b.digest.bytes))

AllOk(s)  == \A d \in DOMAIN s : BlockOk(s[d])
ListOk(q) == \A b \in ToSet(q) : BlockOk(b)
BlocksOk  == ListOk(builder.push) /\ ListOk(uplink) /\ AllOk(local) /\ AllOk(remote)

Fields == {"instrs", "push", "pos", "limits", "lit_bytes", "ref_covered", "refs", "push_bytes"}

\* The groups are spans of the body, and what the builder has stands for the body up to pos.
Building ==
  /\ Fields \subseteq DOMAIN builder
  /\ groups \in Seq(GroupsOf(doc, policy))
  /\ Stands(builder.instrs, doc.bytes, Kinds, 0, builder.pos)
  /\ action = "split" => builder.pos = Len(doc.bytes)

\* A block at work is one for which the builder stopped, and its instructions stand for
\* its bytes up to its own pos.
Opens == [cand : Members(doc, policy), kids : Seq(Spots(doc, Leaves, policy)),
          instrs : Seq(Instrs), pos : Nat]
Opened ==
  open # Closed =>
    /\ action = "splitting" /\ open \in Opens
    /\ builder.pos = open.cand.start /\ open.pos <= open.cand.end
    /\ Stands(open.instrs, doc.bytes, Leaves, open.cand.start, open.pos)

\* A rebuild is of a split; its bytes begin the body, and its stack stands for the rest.
Rebuilding ==
  /\ stage \in {"arriving", "need", "resolving", "unrebuildable"} => action = "split"
  /\ stage = "resolving" =>
       /\ Len(out) \in 0 .. Len(doc.bytes) /\ out = Piece(doc.bytes, 0, Len(out))
       /\ Awaits(stack, doc.bytes, Len(out), Len(doc.bytes))
  /\ stage = "answered" => out = doc.bytes
  /\ stage # "mismatch"

EInv == BlocksOk /\ Building /\ Opened /\ Rebuilding

LEMMA DocBytes ==
  ASSUME IInv
  PROVE  /\ doc \in Bodies /\ policy \in Policies /\ doc.bytes \in Seq(Byte)
         /\ Len(doc.bytes) \in Nat
  BY NodesOf DEF IInv, TypeOK

-----------------------------------------------------------------------------
(* The parts of the Builder *)

LEMMA RawOk == \A d \in Digests : BlockOk(Raw(d))
BY DEF BlockOk, Raw

LEMMA InsertOk ==
  ASSUME NEW s, NEW b, AllOk(s), BlockOk(b)
  PROVE  AllOk(Inserted(s, b))
BY DEF AllOk, Inserted

LEMMA ThroughOk ==
  ASSUME NEW b, NEW blk, AllOk(local), BlockOk(blk)
  PROVE  AllOk(Through(b, blk))
BY InsertOk DEF Through

\* queue changes the list of blocks and its cost.
LEMMA QueueOk ==
  ASSUME NEW b, NEW blk, Fields \subseteq DOMAIN b, BlockList(b.push), ListOk(b.push),
         BlockOk(blk), WellMade(blk)
  PROVE  /\ Fields \subseteq DOMAIN Queue(b, blk) /\ ListOk(Queue(b, blk).push)
         /\ Queue(b, blk).instrs = b.instrs /\ Queue(b, blk).pos = b.pos
<1>1. CASE blk.digest \in Queued(b)
  BY <1>1 DEF Queue
<1>2. CASE blk.digest \notin Queued(b)
  <2>1. ToSet(Append(b.push, blk)) = ToSet(b.push) \cup {blk}
    BY AppendBlock
  <2>2. /\ Fields \subseteq DOMAIN Queue(b, blk) /\ Queue(b, blk).push = Append(b.push, blk)
        /\ Queue(b, blk).instrs = b.instrs /\ Queue(b, blk).pos = b.pos
    BY <1>2 DEF Queue, Fields
  <2> QED
    BY <2>1, <2>2 DEF ListOk
<1> QED
  BY <1>1, <1>2

\* lit: the bytes up to `to` follow.
LEMMA LiteralStands ==
  ASSUME IInv, NEW b, Fields \subseteq DOMAIN b, NEW to \in 0 .. Len(doc.bytes), b.pos <= to,
         Stands(b.instrs, doc.bytes, Kinds, 0, b.pos)
  PROVE  /\ Fields \subseteq DOMAIN Literal(b, to) /\ Literal(b, to).push = b.push
         /\ Literal(b, to).pos = to
         /\ Stands(Literal(b, to).instrs, doc.bytes, Kinds, 0, to)
<1>1. doc.bytes \in Seq(Byte) /\ Len(doc.bytes) \in Nat
  BY DocBytes
<1>2. b.pos \in Nat /\ to \in Nat
  BY <1>1 DEF Stands
<1>3. CASE to <= b.pos
  BY <1>2, <1>3 DEF Literal
<1>4. CASE ~(to <= b.pos)
  <2>1. PICK w, x : w = doc.bytes /\ x = b.pos
    OBVIOUS
  <2>2. w \in Seq(Byte) /\ x \in Nat /\ to \in x .. Len(w)
    BY <1>1, <1>2, <1>4, <2>1
  <2>3. Piece(w, x, to) \in Seq(Byte)
    BY <2>2, PieceLen
  <2>4. PICK l : l = Lit(Slice(b.pos, to))
    OBVIOUS
  <2>5. l \in Instrs /\ Covers(l, w, Kinds, x, to)
    BY <2>1, <2>2, <2>3, <2>4 DEF Lit, Slice, Piece, Instrs, Covers
  <2>6. Stands(Append(b.instrs, l), w, Kinds, 0, to)
    BY <2>1, <2>2, <2>5, StandsAppend
  <2>7. /\ Fields \subseteq DOMAIN Literal(b, to) /\ Literal(b, to).push = b.push
        /\ Literal(b, to).pos = to /\ Literal(b, to).instrs = Append(b.instrs, l)
    BY <1>4, <2>4 DEF Literal, Fields
  <2> QED
    BY <2>1, <2>6, <2>7
<1> QED
  BY <1>3, <1>4

\* The instruction of a reference stands for the span of its candidate.
LEMMA RefCovers ==
  ASSUME IInv, NEW K, K \subseteq Kinds, NEW c \in Spots(doc, K, policy)
  PROVE  /\ c.start \in Nat /\ c.end \in c.start .. Len(doc.bytes) /\ c.kind \in K
         /\ DigestAt(c) = [kind |-> c.kind, bytes |-> Piece(doc.bytes, c.start, c.end)]
         /\ Size(c) = c.end - c.start /\ DigestAt(c) \in Digests
         /\ Ref(DigestAt(c), Size(c)) \in Instrs
         /\ Covers(Ref(DigestAt(c), Size(c)), doc.bytes, K, c.start, c.end)
<1>1. doc.bytes \in Seq(Byte) /\ Len(doc.bytes) \in Nat
  BY DocBytes
<1>2. c.start \in Nat /\ c.end \in c.start .. Len(doc.bytes) /\ c.kind \in K
  BY <1>1 DEF Spots
<1>3. Piece(doc.bytes, c.start, c.end) \in Seq(Byte)
  BY <1>1, <1>2, PieceLen
<1>4. DigestAt(c) = [kind |-> c.kind, bytes |-> Piece(doc.bytes, c.start, c.end)]
  BY DEF DigestAt, Digest, Slice, Piece
<1>5. Size(c) = c.end - c.start /\ Size(c) \in Nat
  BY <1>2 DEF Size
<1>6. DigestAt(c) \in Digests
  BY <1>2, <1>3, <1>4 DEF Digests
<1>7. Ref(DigestAt(c), Size(c)) \in Instrs
  BY <1>5, <1>6 DEF Ref, Instrs
<1>8. Covers(Ref(DigestAt(c), Size(c)), doc.bytes, K, c.start, c.end)
  BY <1>2, <1>4, <1>5 DEF Ref, Covers
<1> QED
  BY <1>2, <1>4, <1>5, <1>6, <1>7, <1>8

LEMMA ReferStands ==
  ASSUME IInv, NEW b, Fields \subseteq DOMAIN b, NEW c \in Spots(doc, Kinds, policy),
         Stands(b.instrs, doc.bytes, Kinds, 0, c.start)
  PROVE  /\ Fields \subseteq DOMAIN Refer(b, c) /\ Refer(b, c).push = b.push
         /\ Stands(Refer(b, c).instrs, doc.bytes, Kinds, 0, Refer(b, c).pos)
<1>1. PICK i : i = Ref(DigestAt(c), Size(c))
  OBVIOUS
<1>2. PICK w, x, y : w = doc.bytes /\ x = c.start /\ y = c.end
  OBVIOUS
<1>3. i \in Instrs /\ Covers(i, w, Kinds, x, y)
  BY <1>1, <1>2, RefCovers
<1>4. w \in Seq(Byte)
  BY <1>2, DocBytes
<1>5. Stands(Append(b.instrs, i), w, Kinds, 0, y)
  BY <1>2, <1>3, <1>4, StandsAppend
<1>6. /\ Fields \subseteq DOMAIN Refer(b, c) /\ Refer(b, c).push = b.push
      /\ Refer(b, c).pos = c.end /\ Refer(b, c).instrs = Append(b.instrs, i)
  BY <1>1 DEF Refer, Fields
<1> QED
  BY <1>2, <1>5, <1>6

\* The builder up to a candidate.
LEMMA CountedStands ==
  ASSUME IInv, Fields \subseteq DOMAIN builder, NEW c \in Spots(doc, Kinds, policy),
         builder.pos <= c.start, Stands(builder.instrs, doc.bytes, Kinds, 0, builder.pos)
  PROVE  /\ Fields \subseteq DOMAIN Counted(c) /\ Counted(c).push = builder.push
         /\ Counted(c).pos = c.start
         /\ Stands(Counted(c).instrs, doc.bytes, Kinds, 0, c.start)
<1>1. c.start \in 0 .. Len(doc.bytes)
  BY DEF Spots
<1>2. PICK l : l = Literal(builder, c.start)
  OBVIOUS
<1>3. /\ Fields \subseteq DOMAIN l /\ l.push = builder.push /\ l.pos = c.start
      /\ Stands(l.instrs, doc.bytes, Kinds, 0, c.start)
  BY <1>1, <1>2, LiteralStands
<1>4. /\ Fields \subseteq DOMAIN Counted(c) /\ Counted(c).push = l.push
      /\ Counted(c).pos = l.pos /\ Counted(c).instrs = l.instrs
  BY <1>2, <1>3 DEF Counted, Fields
<1> QED
  BY <1>3, <1>4

-----------------------------------------------------------------------------
(* The splitter's steps *)

SplitKeeps == ListOk(builder.push) /\ AllOk(local) /\ Building /\ Opened

LEMMA NothingOpen == Closed.kids = <<>> /\ Closed.instrs = <<>>
BY DEF Closed

LEMMA SplitMakes == ASSUME IInv, EInv, Split(doc) PROVE SplitKeeps'
<1>1. /\ builder' = NewBuilder /\ open' = Closed /\ local' = local /\ policy' = policy
      /\ doc' = doc
  BY DEF Split
<1>2. doc \in Bodies /\ policy \in Policies /\ doc.bytes \in Seq(Byte)
  BY DocBytes
<1>3. groups' \in Seq(GroupsOf(doc, policy)) /\ action' \in {"splitting", "whole"}
  <2>1. /\ StructuralGroups(doc, policy) \in Seq(GroupsOf(doc, policy))
        /\ ChunkGroups(doc, policy) \in Seq(GroupsOf(doc, policy))
        /\ <<>> \in Seq(GroupsOf(doc, policy))
    BY <1>2, StructuralType, ChunkGroupsType
  <2> QED
    BY <2>1 DEF Split
<1>4. /\ Fields \subseteq DOMAIN NewBuilder /\ NewBuilder.instrs = <<>> /\ NewBuilder.pos = 0
      /\ NewBuilder.push = <<>>
  BY DEF NewBuilder, Fields
<1>5. Stands(<<>>, doc.bytes, Kinds, 0, 0)
  BY <1>2, StandsNone
<1>6. Building'
  BY <1>1, <1>3, <1>4, <1>5 DEF Building
<1>7. Opened'
  BY <1>1 DEF Opened
<1>8. ListOk(builder.push)' /\ AllOk(local)'
  BY <1>1, <1>4, NoneToSend DEF EInv, BlocksOk, ListOk, AllOk
<1> QED
  BY <1>6, <1>7, <1>8 DEF SplitKeeps

\* A group comes off the list.
LEMMA HeadGroup ==
  ASSUME NEW bd, NEW p, NEW q \in Seq(GroupsOf(bd, p)), q # <<>>
  PROVE  /\ Head(q).cand \in Spots(bd, Kinds, p) /\ Head(q).kids \in Seq(Spots(bd, Leaves, p))
         /\ Head(q).kids # <<>> => Head(q).cand \in Members(bd, p)
         /\ Tail(q) \in Seq(GroupsOf(bd, p))
<1>1. Head(q) \in GroupsOf(bd, p) /\ Tail(q) \in Seq(GroupsOf(bd, p))
  BY HeadTailProperties
<1>2. \A c \in Spots(bd, Kinds, p) : c.kind = "JsonMember" => c \in Members(bd, p)
  BY DEF Spots, Members
<1> QED
  BY <1>1, <1>2 DEF GroupsOf

LEMMA ReferenceMakes == ASSUME IInv, EInv, Reference PROVE SplitKeeps'
<1> DEFINE c == Head(groups).cand
           d == DigestAt(c)
<1>1. /\ action = "splitting" /\ open = Closed /\ groups # <<>>
      /\ groups' = Tail(groups) /\ UNCHANGED <<policy, doc, action>>
  BY DEF Reference
<1>2. /\ Fields \subseteq DOMAIN builder /\ groups \in Seq(GroupsOf(doc, policy))
      /\ Stands(builder.instrs, doc.bytes, Kinds, 0, builder.pos)
      /\ ListOk(builder.push) /\ AllOk(local) /\ BlockList(builder.push)
  BY <1>1 DEF EInv, Building, BlocksOk, IInv, BuilderSound
<1>3. /\ c \in Spots(doc, Kinds, policy) /\ Head(groups).kids \in Seq(Spots(doc, Leaves, policy))
      /\ Head(groups).kids # <<>> => c \in Members(doc, policy)
      /\ Tail(groups) \in Seq(GroupsOf(doc, policy))
  BY <1>1, <1>2, HeadGroup
<1>4. doc.bytes \in Seq(Byte) /\ Len(doc.bytes) \in Nat
  BY DocBytes
<1>5. c.start \in Nat /\ c.end \in c.start .. Len(doc.bytes) /\ c.start \in 0 .. Len(doc.bytes)
  BY <1>3, <1>4 DEF Spots
<1>10. d \in Digests
  BY <1>3, RefCovers
<1>6. builder.pos \in Nat
  BY <1>2, <1>4 DEF Stands
<1> HIDE DEF c, d
<1>7. CASE UNCHANGED <<builder, open, local>>
  <2>1. Building'
    BY <1>1, <1>2, <1>3, <1>7 DEF Building
  <2>2. Opened'
    BY <1>1, <1>7 DEF Opened
  <2> QED
    BY <1>2, <1>7, <2>1, <2>2 DEF SplitKeeps, AllOk, ListOk
<1>8. ASSUME ~(UNCHANGED <<builder, open, local>>)
      PROVE  builder.pos <= c.start
  BY <1>8 DEF Reference, c
<1>9. ASSUME ~(UNCHANGED <<builder, open, local>>) PROVE SplitKeeps'
  <2> PICK b : b = Counted(c)
    OBVIOUS
  <2>1. /\ Fields \subseteq DOMAIN b /\ b.push = builder.push /\ b.pos = c.start
        /\ Stands(b.instrs, doc.bytes, Kinds, 0, c.start)
    BY <1>2, <1>3, <1>8, <1>9, CountedStands
  <2>2. CASE /\ builder' = Refer(b, c) /\ UNCHANGED <<open, local>>
    <3>1. /\ Fields \subseteq DOMAIN builder' /\ builder'.push = b.push
          /\ Stands(builder'.instrs, doc.bytes, Kinds, 0, builder'.pos)
      BY <1>3, <2>1, <2>2, ReferStands
    <3>2. Building'
      BY <1>1, <1>3, <3>1 DEF Building
    <3>3. Opened'
      BY <1>1, <2>2 DEF Opened
    <3> QED
      BY <1>2, <2>1, <2>2, <3>1, <3>2, <3>3 DEF SplitKeeps, AllOk, ListOk
  <2>3. CASE /\ builder' = Refer(Queue(b, Raw(d)), c) /\ open' = open
             /\ local' = Through(builder, Raw(d))
    <3>1. PICK q : q = Queue(b, Raw(d))
      OBVIOUS
    <3>2. /\ Fields \subseteq DOMAIN q /\ ListOk(q.push) /\ q.instrs = b.instrs /\ q.pos = b.pos
      BY <1>2, <1>10, <2>1, <3>1, QueueOk, RawOk, Made
    <3>3. /\ Fields \subseteq DOMAIN builder' /\ builder'.push = q.push
          /\ Stands(builder'.instrs, doc.bytes, Kinds, 0, builder'.pos)
      BY <1>3, <2>1, <2>3, <3>1, <3>2, ReferStands
    <3>4. AllOk(local')
      BY <1>2, <1>10, <2>3, RawOk, ThroughOk
    <3>5. Building'
      BY <1>1, <1>3, <3>3 DEF Building
    <3>6. Opened'
      BY <1>1, <2>3 DEF Opened
    <3> QED
      BY <3>2, <3>3, <3>4, <3>5, <3>6 DEF SplitKeeps, AllOk, ListOk
  <2>4. CASE /\ Head(groups).kids # <<>> /\ builder' = b /\ local' = local
             /\ open' = [cand |-> c, instrs |-> <<>>, kids |-> Head(groups).kids,
                         pos |-> c.start]
    <3>1. Building'
      BY <1>1, <1>3, <2>1, <2>4 DEF Building
    <3>2. Stands(<<>>, doc.bytes, Leaves, c.start, c.start)
      BY <1>4, <1>5, StandsNone
    <3>3. open' \in Opens
      BY <1>3, <1>5, <2>4 DEF Opens
    <3>4. /\ open'.cand = c /\ open'.instrs = <<>> /\ open'.pos = c.start
      BY <2>4
    <3>5. open' \in Opens'
      BY <1>1, <3>3 DEF Opens, Members
    <3>6. Opened'
      BY <1>1, <1>5, <2>1, <2>4, <3>2, <3>4, <3>5 DEF Opened
    <3> QED
      BY <1>2, <2>1, <2>4, <3>1, <3>6 DEF SplitKeeps, AllOk, ListOk
  <2> QED
    BY <1>9, <2>2, <2>3, <2>4 DEF Reference, c, d
<1> QED
  BY <1>7, <1>9

LEMMA NestMakes == ASSUME IInv, EInv, Nest PROVE SplitKeeps'
<1> DEFINE ch   == Head(open.kids)
           d    == DigestAt(ch)
           once == [builder EXCEPT !.refs = @ + 1]
<1>1. /\ action = "splitting" /\ open.kids # <<>> /\ UNCHANGED <<policy, doc, groups, action>>
  BY DEF Nest
<1>2. open # Closed
  BY <1>1, NothingOpen
<1>3. /\ open \in Opens /\ builder.pos = open.cand.start /\ open.pos <= open.cand.end
      /\ Stands(open.instrs, doc.bytes, Leaves, open.cand.start, open.pos)
  BY <1>2 DEF EInv, Opened
<1>4. /\ Fields \subseteq DOMAIN builder /\ groups \in Seq(GroupsOf(doc, policy))
      /\ Stands(builder.instrs, doc.bytes, Kinds, 0, builder.pos)
      /\ ListOk(builder.push) /\ AllOk(local) /\ BlockList(builder.push)
  BY <1>1 DEF EInv, Building, BlocksOk, IInv, BuilderSound
<1>5. /\ Fields \subseteq DOMAIN once /\ once.push = builder.push
      /\ once.instrs = builder.instrs /\ once.pos = builder.pos
  BY <1>4 DEF Fields
<1> HIDE DEF once
<1>13. d \in Digests
  <2>1. ch \in Spots(doc, Leaves, policy)
    BY <1>1, <1>3, HeadTailProperties DEF Opens
  <2>2. Leaves \subseteq Kinds
    BY DEF Kinds
  <2> QED
    BY <2>1, <2>2, RefCovers
<1>6. /\ builder'.instrs = builder.instrs /\ builder'.pos = builder.pos
      /\ Fields \subseteq DOMAIN builder' /\ ListOk(builder'.push) /\ AllOk(local')
  <2>1. CASE builder' = builder /\ local' = local
    BY <1>4, <2>1
  <2>2. CASE builder' = once /\ local' = local
    BY <1>4, <1>5, <2>2
  <2>3. CASE builder' = Queue(once, Raw(d)) /\ local' = Through(builder, Raw(d))
    BY <1>4, <1>5, <1>13, <2>3, QueueOk, RawOk, Made, ThroughOk
  <2> QED
    BY <2>1, <2>2, <2>3 DEF Nest, once
<1>7. Building'
  BY <1>1, <1>4, <1>6 DEF Building
<1>8. ch \in Spots(doc, Leaves, policy) /\ Tail(open.kids) \in Seq(Spots(doc, Leaves, policy))
  BY <1>1, <1>3, HeadTailProperties DEF Opens
<1>9. /\ open.pos \in Nat /\ open.cand.start \in Nat
      /\ open.cand.end \in open.cand.start .. Len(doc.bytes)
      /\ open.cand \in Members(doc, policy) /\ open.instrs \in Seq(Instrs)
      /\ doc.bytes \in Seq(Byte) /\ Len(doc.bytes) \in Nat
  BY <1>3, DocBytes DEF Opens, Members, Spots
<1>10. /\ open' \in Opens /\ open'.cand = open.cand /\ open'.pos <= open.cand.end
       /\ Stands(open'.instrs, doc.bytes, Leaves, open.cand.start, open'.pos)
  <2>1. CASE open' = [open EXCEPT !.kids = Tail(@)]
    <3>1. /\ open'.cand = open.cand /\ open'.pos = open.pos /\ open'.instrs = open.instrs
          /\ open' \in Opens
      BY <1>3, <1>8, <2>1 DEF Opens
    <3> QED
      BY <1>3, <3>1
  <2>2. ASSUME /\ ~(\/ ch.start < open.pos \/ ch.end > open.cand.end
                    \/ Size(ch) < ch.floor)
               /\ open' = [open EXCEPT !.kids = Tail(@), !.pos = ch.end,
                             !.instrs = @ \o (IF open.pos < ch.start
                                              THEN <<Lit(Slice(open.pos, ch.start))>>
                                              ELSE <<>>) \o <<Ref(d, Size(ch))>>]
        PROVE  /\ open' \in Opens /\ open'.cand = open.cand /\ open'.pos <= open.cand.end
               /\ Stands(open'.instrs, doc.bytes, Leaves, open.cand.start, open'.pos)
    <3>1. PICK w, a, x, y, z, p : /\ w = doc.bytes /\ a = open.cand.start /\ x = open.pos
                                  /\ y = ch.start /\ z = ch.end /\ p = open.instrs
      OBVIOUS
    <3>2. Leaves \subseteq Kinds
      BY DEF Kinds
    <3>3. PICK i : i = Ref(d, Size(ch))
      OBVIOUS
    <3>4. /\ y \in Nat /\ z \in y .. Len(w) /\ i \in Instrs /\ Covers(i, w, Leaves, y, z)
      BY <1>8, <3>1, <3>2, <3>3, RefCovers
    <3>5. x <= y /\ z <= open.cand.end /\ x \in Nat /\ z \in Nat
      BY <1>9, <2>2, <3>1, <3>4
    <3>6. PICK q : q = IF x < y THEN Append(p, Lit(Slice(x, y))) ELSE p
      OBVIOUS
    <3>7. Stands(q, w, Leaves, a, y)
      <4>1. CASE x < y
        <5>1. PICK l : l = Lit(Slice(x, y))
          OBVIOUS
        <5>2. y \in x .. Len(w) /\ w \in Seq(Byte)
          BY <1>9, <3>1, <3>4, <3>5
        <5>3. l \in Instrs /\ Covers(l, w, Leaves, x, y)
          BY <3>1, <3>5, <5>1, <5>2, PieceLen DEF Lit, Slice, Piece, Instrs, Covers
        <5> QED
          BY <1>3, <3>1, <3>6, <4>1, <5>1, <5>2, <5>3, StandsAppend
      <4>2. CASE ~(x < y)
        <5>1. x = y
          BY <3>4, <3>5, <4>2
        <5> QED
          BY <1>3, <3>1, <3>6, <4>2, <5>1
      <4> QED
        BY <4>1, <4>2
    <3>8. Stands(Append(q, i), w, Leaves, a, z)
      BY <1>9, <3>1, <3>4, <3>7, StandsAppend
    <3>9. Append(q, i) \in Seq(Instrs)
      BY <3>8 DEF Stands
    <3>10. PICK o : o = IF open.pos < ch.start THEN <<Lit(Slice(open.pos, ch.start))>> ELSE <<>>
      OBVIOUS
    <3>11. open.instrs \o o \o <<i>> = Append(q, i)
      <4>1. p \in Seq(Instrs)
        BY <1>9, <3>1
      <4>2. \A l : p \o <<l>> = Append(p, l)
        BY <4>1
      <4>3. p \o <<>> = p
        BY <4>1
      <4>4. p \o o = q
        BY <3>1, <3>6, <3>10, <4>2, <4>3
      <4>5. q \in Seq(Instrs)
        BY <3>7 DEF Stands
      <4>6. q \o <<i>> = Append(q, i)
        BY <4>5
      <4> QED
        BY <3>1, <4>4, <4>6
    <3>12. /\ open' = [open EXCEPT !.kids = Tail(@), !.pos = z, !.instrs = Append(q, i)]
      BY <2>2, <3>1, <3>3, <3>10, <3>11
    <3> HIDE DEF ch, d
    <3>13. /\ open'.cand = open.cand /\ open'.pos = z /\ open'.instrs = Append(q, i)
           /\ open' \in Opens
      BY <1>3, <1>8, <3>5, <3>9, <3>12 DEF Opens, ch
    <3> QED
      BY <3>1, <3>5, <3>8, <3>13
  <2> QED
    BY <2>1, <2>2 DEF Nest
<1>11. open' \in Opens'
  BY <1>1, <1>10 DEF Opens, Members
<1>12. Opened'
  BY <1>1, <1>3, <1>6, <1>10, <1>11 DEF Opened
<1> QED
  BY <1>6, <1>7, <1>12 DEF SplitKeeps, AllOk, ListOk

\* The block that make_block makes stands for the bytes of its digest.
LEMMA CloseBlockMakes ==
  ASSUME IInv, EInv, CloseBlock
  PROVE  \E k, q : /\ BlockOk(k) /\ WellMade(k) /\ q = Queue(builder, k)
                   /\ builder' = Refer(q, open.cand) /\ local' = Through(builder, k)
<1> DEFINE c    == open.cand
           tail == IF open.pos < c.end THEN <<Lit(Slice(open.pos, c.end))>> ELSE <<>>
           prog == Normalize(open.instrs \o tail)
           blk  == IF Len(prog) = 1 /\ prog[1].op = "lit" THEN Raw(DigestAt(c))
                   ELSE Nested(DigestAt(c), prog)
<1>1. /\ action = "splitting" /\ open # Closed /\ open' = Closed
      /\ builder' = Refer(Queue(builder, blk), c) /\ local' = Through(builder, blk)
      /\ UNCHANGED <<policy, doc, groups, action>>
  BY DEF CloseBlock
<1>2. /\ open \in Opens /\ builder.pos = c.start /\ open.pos <= c.end
      /\ Stands(open.instrs, doc.bytes, Leaves, c.start, open.pos)
  BY <1>1 DEF EInv, Opened
<1>3. /\ Fields \subseteq DOMAIN builder /\ groups \in Seq(GroupsOf(doc, policy))
      /\ Stands(builder.instrs, doc.bytes, Kinds, 0, builder.pos)
      /\ ListOk(builder.push) /\ AllOk(local) /\ BlockList(builder.push)
  BY <1>1 DEF EInv, Building, BlocksOk, IInv, BuilderSound
<1>4. /\ open.pos \in Nat /\ c.start \in Nat /\ c.end \in c.start .. Len(doc.bytes)
      /\ c \in Members(doc, policy) /\ open.instrs \in Seq(Instrs)
      /\ doc.bytes \in Seq(Byte) /\ Len(doc.bytes) \in Nat
  BY <1>2, DocBytes DEF Opens, Members, Spots
<1>5. c \in Spots(doc, Kinds, policy) /\ c.kind = "JsonMember"
  BY <1>4, SpotsOfKinds
<1>6. /\ DigestAt(c) \in Digests
      /\ DigestAt(c) = [kind |-> c.kind, bytes |-> Piece(doc.bytes, c.start, c.end)]
  BY <1>5, RefCovers
<1>7. Stands(open.instrs \o tail, doc.bytes, Leaves, c.start, c.end)
  <2>1. PICK w, a, x, z, p : /\ w = doc.bytes /\ a = c.start /\ x = open.pos /\ z = c.end
                             /\ p = open.instrs
    OBVIOUS
  <2>2. x \in Nat /\ z \in x .. Len(w) /\ w \in Seq(Byte) /\ p \in Seq(Instrs)
    BY <1>2, <1>4, <2>1
  <2>3. CASE x < z
    <3>1. PICK l : l = Lit(Slice(x, z))
      OBVIOUS
    <3>2. l \in Instrs /\ Covers(l, w, Leaves, x, z)
      BY <2>1, <2>2, <3>1, PieceLen DEF Lit, Slice, Piece, Instrs, Covers
    <3>3. Stands(Append(p, l), w, Leaves, a, z)
      BY <1>2, <2>1, <2>2, <3>2, StandsAppend
    <3>4. tail = <<l>>
      BY <2>1, <2>3, <3>1
    <3>5. p \o <<l>> = Append(p, l)
      BY <2>2
    <3> QED
      BY <2>1, <3>3, <3>4, <3>5
  <2>4. CASE ~(x < z)
    <3>1. x = z
      BY <2>2, <2>4
    <3>2. tail = <<>>
      BY <2>1, <2>4
    <3>3. p \o <<>> = p
      BY <2>2
    <3> QED
      BY <1>2, <2>1, <3>1, <3>2, <3>3
  <2> QED
    BY <2>3, <2>4
<1>8. Stands(prog, doc.bytes, Leaves, c.start, c.end)
  BY <1>4, <1>7, NormalizeStands
<1>9. PICK x, y, w, v, q : /\ x = c.start /\ y = c.end /\ w = doc.bytes /\ q = prog
                           /\ v = Piece(doc.bytes, c.start, c.end)
  OBVIOUS
<1>10. Stands(q, v, Leaves, 0, Len(v))
  <2>1. x \in Nat /\ y \in x .. Len(w) /\ w \in Seq(Byte) /\ Stands(q, w, Leaves, x, y)
    BY <1>4, <1>8, <1>9
  <2>2. Stands(q, Piece(w, x, y), Leaves, 0, y - x) /\ Len(Piece(w, x, y)) = y - x
    BY <2>1, StandsIn, PieceLen
  <2> QED
    BY <1>9, <2>2
<1> HIDE DEF prog, tail
<1>11. PICK k : k = blk
  OBVIOUS
<1>12. BlockOk(k) /\ WellMade(k)
  <2>1. BlockOk(Raw(DigestAt(c))) /\ WellMade(Raw(DigestAt(c)))
        /\ WellMade(Nested(DigestAt(c), prog))
    BY <1>6, RawOk, Made
  <2>2. BlockOk(Nested(DigestAt(c), prog))
    BY <1>5, <1>6, <1>9, <1>10 DEF BlockOk, Nested
  <2> QED
    BY <1>11, <2>1, <2>2
<1>13. builder' = Refer(Queue(builder, k), c) /\ local' = Through(builder, k)
  BY <1>1, <1>11
<1> QED
  BY <1>12, <1>13

LEMMA CloseMakes == ASSUME IInv, EInv, CloseBlock PROVE SplitKeeps'
<1> DEFINE c == open.cand
<1>1. /\ action = "splitting" /\ open # Closed /\ open' = Closed
      /\ UNCHANGED <<policy, doc, groups, action>>
  BY DEF CloseBlock
<1>2. open \in Opens /\ builder.pos = c.start
  BY <1>1 DEF EInv, Opened
<1>3. /\ Fields \subseteq DOMAIN builder /\ groups \in Seq(GroupsOf(doc, policy))
      /\ Stands(builder.instrs, doc.bytes, Kinds, 0, builder.pos)
      /\ ListOk(builder.push) /\ AllOk(local) /\ BlockList(builder.push)
  BY <1>1 DEF EInv, Building, BlocksOk, IInv, BuilderSound
<1>5. c \in Spots(doc, Kinds, policy)
  BY <1>2, SpotsOfKinds DEF Opens, Members
<1>12. PICK k, b : /\ BlockOk(k) /\ WellMade(k) /\ b = Queue(builder, k)
                   /\ builder' = Refer(b, c) /\ local' = Through(builder, k)
  BY CloseBlockMakes
<1>15. /\ Fields \subseteq DOMAIN b /\ ListOk(b.push)
       /\ b.instrs = builder.instrs /\ b.pos = builder.pos
  BY <1>3, <1>12, QueueOk
<1>16. PICK m : m = c
  OBVIOUS
<1>17. /\ m \in Spots(doc, Kinds, policy) /\ builder' = Refer(b, m)
       /\ Stands(b.instrs, doc.bytes, Kinds, 0, m.start)
  BY <1>2, <1>3, <1>5, <1>12, <1>15, <1>16
<1>18. /\ Fields \subseteq DOMAIN builder' /\ builder'.push = b.push
       /\ Stands(builder'.instrs, doc.bytes, Kinds, 0, builder'.pos)
  BY <1>15, <1>17, ReferStands
<1>19. AllOk(local')
  BY <1>3, <1>12, ThroughOk
<1>20. Building'
  BY <1>1, <1>3, <1>18 DEF Building
<1>21. Opened'
  BY <1>1 DEF Opened
<1> QED
  BY <1>15, <1>18, <1>19, <1>20, <1>21 DEF SplitKeeps, AllOk, ListOk

LEMMA FinishMakes == ASSUME IInv, EInv, Finish PROVE SplitKeeps'
<1>1. PICK b : b = Literal(builder, Len(doc.bytes))
  OBVIOUS
<1>2. /\ action = "splitting" /\ action' \in {"whole", "split"} /\ open = Closed
      /\ builder' = [b EXCEPT !.instrs = Normalize(b.instrs)]
      /\ UNCHANGED <<policy, doc, groups, open, local>>
  BY <1>1 DEF Finish
<1>3. /\ Fields \subseteq DOMAIN builder /\ groups \in Seq(GroupsOf(doc, policy))
      /\ Stands(builder.instrs, doc.bytes, Kinds, 0, builder.pos)
      /\ ListOk(builder.push) /\ AllOk(local)
  BY <1>2 DEF EInv, Building, BlocksOk
<1>4. doc.bytes \in Seq(Byte) /\ Len(doc.bytes) \in 0 .. Len(doc.bytes)
  BY DocBytes
<1>5. builder.pos <= Len(doc.bytes)
  BY <1>3, <1>4 DEF Stands
<1>6. /\ Fields \subseteq DOMAIN b /\ b.push = builder.push /\ b.pos = Len(doc.bytes)
      /\ Stands(b.instrs, doc.bytes, Kinds, 0, Len(doc.bytes))
  BY <1>1, <1>3, <1>4, <1>5, LiteralStands
<1>7. Stands(Normalize(b.instrs), doc.bytes, Kinds, 0, Len(doc.bytes))
  BY <1>4, <1>6, NormalizeStands
<1>8. /\ Fields \subseteq DOMAIN builder' /\ builder'.push = b.push
      /\ builder'.instrs = Normalize(b.instrs) /\ builder'.pos = b.pos
  BY <1>2, <1>6 DEF Fields
<1>9. Building'
  BY <1>2, <1>3, <1>6, <1>7, <1>8 DEF Building
<1>10. Opened'
  BY <1>2 DEF Opened
<1> QED
  BY <1>2, <1>3, <1>6, <1>8, <1>9, <1>10 DEF SplitKeeps, AllOk, ListOk

LEMMA EStepSplits == ASSUME IInv, EInv, Splits PROVE EInv'
<1>1. SplitKeeps'
  BY SplitMakes, ReferenceMakes, NestMakes, CloseMakes, FinishMakes DEF Splits
<1>2. stage = "split" /\ UNCHANGED <<stage, uplink, remote>>
  BY DEF Splits, rebuild
<1>3. Rebuilding'
  BY <1>2 DEF Rebuilding
<1>4. ListOk(uplink)' /\ AllOk(remote)'
  BY <1>2 DEF EInv, BlocksOk, ListOk, AllOk
<1> QED
  BY <1>1, <1>3, <1>4 DEF EInv, SplitKeeps, BlocksOk

-----------------------------------------------------------------------------
(* Every other step *)

\* Steps that leave the split alone.
LEMMA SplitKept ==
  ASSUME EInv, UNCHANGED split, policy' = policy
  PROVE  Building' /\ Opened' /\ ListOk(builder.push)'
BY DEF EInv, Building, Opened, Opens, Members, split, BlocksOk, ListOk

LEMMA EStepUpload == ASSUME IInv, EInv, Upload PROVE EInv'
<1>1. /\ UNCHANGED split /\ policy' = policy /\ local' = local /\ remote' = remote
      /\ uplink' = builder.push /\ stage' = "arriving" /\ action = "split"
  BY DEF Upload
<1>2. Building' /\ Opened' /\ ListOk(builder.push)'
  BY <1>1, SplitKept
<1>3. action' = action
  BY <1>1 DEF split
<1>4. Rebuilding'
  BY <1>1, <1>3 DEF Rebuilding
<1> QED
  BY <1>1, <1>2, <1>4 DEF EInv, BlocksOk, ListOk, AllOk

LEMMA EStepWhole == ASSUME IInv, EInv, SendWhole \/ FailThenWhole PROVE EInv'
<1>1. /\ UNCHANGED split /\ policy' = policy /\ local' = local /\ remote' = remote
      /\ uplink' = uplink /\ stage' = "answered" /\ out' = doc.bytes
  BY DEF SendWhole, FailThenWhole
<1>2. Building' /\ Opened' /\ ListOk(builder.push)'
  BY <1>1, SplitKept
<1>3. doc' = doc
  BY <1>1 DEF split
<1>4. Rebuilding'
  BY <1>1, <1>3 DEF Rebuilding
<1> QED
  BY <1>1, <1>2, <1>4 DEF EInv, BlocksOk, ListOk, AllOk

LEMMA EStepResend == ASSUME IInv, EInv, Resend PROVE EInv'
<1> DEFINE S     == need \cap DOMAIN local
           order == SetToSeq(S)
<1>1. /\ UNCHANGED split /\ policy' = policy /\ local' = local /\ remote' = remote
      /\ uplink' = [i \in DOMAIN order |-> local[order[i]]]
      /\ stage = "need" /\ stage' = "arriving"
  BY DEF Resend
<1>2. Building' /\ Opened' /\ ListOk(builder.push)'
  BY <1>1, SplitKept
<1>3. action' = action
  BY <1>1 DEF split
<1>4. Rebuilding'
  BY <1>1, <1>3 DEF EInv, Rebuilding
<1>5. ToSet(order) = S
  BY OrderOf, FS_Intersection DEF IInv, StoreSound
<1>6. \A i \in DOMAIN order : order[i] \in DOMAIN local
  BY <1>5 DEF ToSet
<1> HIDE DEF order
<1>7. ListOk(uplink)'
  BY <1>1, <1>6 DEF EInv, BlocksOk, ListOk, AllOk, ToSet
<1> QED
  BY <1>1, <1>2, <1>4, <1>7 DEF EInv, BlocksOk, AllOk

LEMMA EStepArrive == ASSUME IInv, EInv, Arrive PROVE EInv'
<1>1. /\ UNCHANGED split /\ policy' = policy /\ local' = local
      /\ uplink # <<>> /\ uplink' = Tail(uplink) /\ remote' = Inserted(remote, Head(uplink))
      /\ stage = "arriving" /\ stage' = stage
  BY DEF Arrive
<1>2. Building' /\ Opened' /\ ListOk(builder.push)'
  BY <1>1, SplitKept
<1>3. action' = action
  BY <1>1 DEF split
<1>4. Rebuilding'
  BY <1>1, <1>3 DEF EInv, Rebuilding
<1>5. ToSet(uplink) = ToSet(Tail(uplink)) \cup {Head(uplink)}
  BY <1>1, TailBlock DEF IInv
<1>6. ListOk(uplink)' /\ BlockOk(Head(uplink))
  BY <1>1, <1>5 DEF EInv, BlocksOk, ListOk
<1>7. AllOk(remote')
  BY <1>1, <1>6, InsertOk DEF EInv, BlocksOk
<1> QED
  BY <1>1, <1>2, <1>4, <1>6, <1>7 DEF EInv, BlocksOk, AllOk

LEMMA EStepRebuild == ASSUME IInv, EInv, Rebuild PROVE EInv'
<1>1. /\ UNCHANGED split /\ policy' = policy /\ local' = local /\ remote' = remote
      /\ uplink' = uplink /\ stage = "arriving"
  BY DEF Rebuild
<1>2. Building' /\ Opened' /\ ListOk(builder.push)'
  BY <1>1, SplitKept
<1>3. action = "split" /\ action' = action /\ doc' = doc
  BY <1>1 DEF split, EInv, Rebuilding
<1>4. CASE Ask(Missing)
  <2>1. stage' \in {"unrebuildable", "need"}
    BY <1>4 DEF Ask
  <2> QED
    BY <1>1, <1>2, <1>3, <2>1 DEF EInv, BlocksOk, ListOk, AllOk, Rebuilding
<1>5. CASE stack' = Deep(builder.instrs, 1) /\ out' = <<>> /\ stage' = "resolving"
  <2>1. Stands(builder.instrs, doc.bytes, Kinds, 0, Len(doc.bytes))
    BY <1>3 DEF EInv, Building
  <2>2. Below(1) = Kinds /\ 1 \in 1 .. 2
    BY DEF Below
  <2>3. Awaits(stack', doc.bytes, 0, Len(doc.bytes))
    BY <1>5, <2>1, <2>2, AwaitsDeep
  <2>4. doc.bytes \in Seq(Byte) /\ Len(doc.bytes) \in Nat
    BY DocBytes
  <2>5. Piece(doc.bytes, 0, 0) = <<>>
    BY <2>4, PieceNone
  <2>6. Rebuilding'
    BY <1>3, <1>5, <2>3, <2>4, <2>5 DEF Rebuilding
  <2> QED
    BY <1>1, <1>2, <2>6 DEF EInv, BlocksOk, ListOk, AllOk
<1> QED
  BY <1>4, <1>5 DEF Rebuild

\* A round of resolve: nothing is refused, and the bytes follow those so far.
LEMMA ResolveRound ==
  ASSUME IInv, EInv, Resolve, stack # <<>>
  PROVE  Rebuilding'
<1> DEFINE i == Head(stack).instr
           n == Head(stack).depth
           w == doc.bytes
           a == Len(out)
           b == remote[i.digest]
<1>1. /\ stage = "resolving" /\ UNCHANGED split
  BY DEF Resolve
<1>2. /\ action = "split" /\ action' = action /\ doc' = doc
      /\ a \in 0 .. Len(w) /\ out = Piece(w, 0, a) /\ Awaits(stack, w, a, Len(w))
  BY <1>1 DEF split, EInv, Rebuilding
<1>3. w \in Seq(Byte) /\ Len(w) \in Nat /\ a \in Nat
  BY <1>2, DocBytes
<1>4. /\ i \in Instrs /\ n \in 1 .. 2 /\ Head(stack) \in Entries
  BY <1>2, AwaitsPop DEF Entries
<1>5. PICK c \in Nat : Covers(i, w, Below(n), a, c) /\ Awaits(Tail(stack), w, c, Len(w))
  BY <1>2, AwaitsPop
<1>6. c \in a .. Len(w) /\ c - a \in Nat
  BY <1>3, <1>5 DEF Covers
<1>7. /\ Piece(w, a, c) \in Seq(Byte) /\ Len(Piece(w, a, c)) = c - a
      /\ Piece(w, 0, c) \in Seq(Byte) /\ Len(Piece(w, 0, c)) = c
      /\ Piece(w, 0, a) \o Piece(w, a, c) = Piece(w, 0, c)
  <2>1. PICK x, v : x = a /\ v = w
    OBVIOUS
  <2>2. v \in Seq(Byte) /\ x \in Nat /\ 0 \in Nat /\ x \in 0 .. Len(v) /\ c \in x .. Len(v)
    BY <1>2, <1>3, <1>6, <2>1
  <2>3. c \in 0 .. Len(v) /\ c - 0 = c
    BY <2>2
  <2>4. Piece(v, x, c) \in Seq(Byte) /\ Len(Piece(v, x, c)) = c - x
    BY <2>2, PieceLen
  <2>5. Piece(v, 0, c) \in Seq(Byte) /\ Len(Piece(v, 0, c)) = c
    BY <2>2, <2>3, PieceLen
  <2>6. Piece(v, 0, x) \o Piece(v, x, c) = Piece(v, 0, c)
    BY <2>2, PieceJoin
  <2> QED
    BY <2>1, <2>4, <2>5, <2>6
<1>8. c - a <= Len(w) + 1 - a
  <2>1. PICK x, y : x = a /\ y = Len(w) /\ x \in Nat /\ y \in Nat /\ c \in x .. y
    BY <1>3, <1>6
  <2>2. c - x <= y + 1 - x
    BY <2>1
  <2> QED
    BY <2>1, <2>2
<1>9. ASSUME Emit(Piece(w, a, c)) PROVE Rebuilding'
  <2>1. out' = Piece(w, 0, c) /\ stack' = Tail(stack) /\ stage' = "resolving"
    BY <1>1, <1>2, <1>7, <1>9 DEF Emit
  <2>2. Len(out') = c /\ c \in 0 .. Len(w)
    BY <1>3, <1>6, <1>7, <2>1
  <2> QED
    BY <1>2, <1>5, <2>1, <2>2 DEF Rebuilding
<1>10. ASSUME NEW ds, Ask(ds) PROVE Rebuilding'
  <2>1. stage' \in {"unrebuildable", "need"}
    BY <1>10 DEF Ask
  <2> QED
    BY <1>2, <2>1 DEF Rebuilding
<1> HIDE DEF a
<1>11. CASE i.op = "lit"
  <2>1. i.bytes = Piece(w, a, c) /\ ~(Len(i.bytes) > Len(w) + 1 - a)
    BY <1>3, <1>5, <1>7, <1>8, <1>11 DEF Covers
  <2>2. Emit(i.bytes)
    BY <1>11, <2>1 DEF Resolve, a
  <2> QED
    BY <1>9, <2>1, <2>2
<1>12. CASE i.op = "ref"
  <2>1. /\ i.len = c - a /\ i.digest.bytes = Piece(w, a, c) /\ i.digest.kind \in Below(n)
    BY <1>5, <1>12 DEF Covers
  <2>2. i.len <= Len(w) + 1 - a /\ i.len \in Int
    BY <1>6, <1>8, <2>1
  <2>3. n <= MaxDepth /\ ~(n > MaxDepth)
    BY <1>4, BodyAssumption
  <2>4. ~(i.len > Len(w) + 1 - a)
    BY <1>3, <2>2
  <2>5. CASE i.digest \notin DOMAIN remote
    <3>1. Ask({i.digest})
      BY <1>12, <2>2, <2>3, <2>4, <2>5 DEF Resolve, a
    <3> QED
      BY <1>10, <3>1
  <2>6. CASE i.digest \in DOMAIN remote
    <3>1. b.digest = i.digest /\ b.len = i.len /\ BlockOk(b)
      BY <1>7, <2>1, <2>6 DEF IInv, StoreSound, WellMade, EInv, BlocksOk, AllOk
    <3>2. CASE b.body = "bytes"
      <4>1. Emit(b.digest.bytes)
        BY <1>12, <2>2, <2>3, <2>4, <2>6, <3>1, <3>2 DEF Resolve, a
      <4> QED
        BY <1>9, <2>1, <3>1, <4>1
    <3>3. CASE b.body = "program"
      <4>1. /\ stack' = Deep(b.instrs, n + 1) \o Tail(stack) /\ UNCHANGED <<stage, out>>
        BY <1>12, <2>2, <2>3, <2>4, <2>6, <3>1, <3>3 DEF Resolve, a
      <4>2. i.digest.kind = "JsonMember"
        BY <3>1, <3>3 DEF BlockOk
      <4>3. n = 1
        BY <1>4, <2>1, <4>2 DEF Below, Leaves
      <4>4. Stands(b.instrs, Piece(w, a, c), Leaves, 0, c - a)
        BY <1>7, <2>1, <3>1, <3>3 DEF BlockOk
      <4>5. Stands(b.instrs, w, Leaves, a, c)
        <5>1. PICK p, x : p = b.instrs /\ x = w
          OBVIOUS
        <5>2. x \in Seq(Byte) /\ a \in Nat /\ c \in a .. Len(x)
               /\ Stands(p, Piece(x, a, c), Leaves, 0, c - a)
          BY <1>3, <1>6, <4>4, <5>1
        <5>3. Stands(p, x, Leaves, a, c)
          BY <5>2, StandsOut
        <5> QED
          BY <5>1, <5>3
      <4>6. 2 \in 1 .. 2 /\ Below(2) = Leaves
        BY DEF Below
      <4>7. Awaits(Deep(b.instrs, 2), w, a, c)
        BY <4>5, <4>6, AwaitsDeep
      <4>8. Awaits(Deep(b.instrs, 2) \o Tail(stack), w, a, Len(w))
        BY <1>5, <4>7, AwaitsPush
      <4>9. n + 1 = 2
        BY <4>3
      <4>10. Awaits(stack', w, a, Len(w))
        BY <4>1, <4>8, <4>9
      <4> QED
        BY <1>1, <1>2, <4>1, <4>10 DEF Rebuilding, a
    <3> QED
      BY <3>1, <3>2, <3>3 DEF BlockOk
  <2> QED
    BY <2>5, <2>6
<1> QED
  BY <1>4, <1>11, <1>12 DEF Instrs

\* The end of resolve: all of the body is out, and the digest agrees.
LEMMA ResolveEnds ==
  ASSUME IInv, EInv, Resolve, stack = <<>>
  PROVE  Rebuilding'
<1>1. /\ stage = "resolving" /\ UNCHANGED split /\ UNCHANGED <<stack, out>>
      /\ stage' = IF out = doc.bytes THEN "answered" ELSE "mismatch"
  BY DEF Resolve
<1>2. /\ doc' = doc /\ out = Piece(doc.bytes, 0, Len(out))
      /\ Awaits(<<>>, doc.bytes, Len(out), Len(doc.bytes))
  BY <1>1 DEF split, EInv, Rebuilding
<1>3. Len(out) = Len(doc.bytes)
  <2>1. PICK a, b : a = Len(out) /\ b = Len(doc.bytes)
    OBVIOUS
  <2>2. PICK cut : cut[0] = a /\ cut[Len(<<>>)] = b
    BY <1>2, <2>1 DEF Awaits
  <2>3. Len(<<>>) = 0
    OBVIOUS
  <2> QED
    BY <2>1, <2>2, <2>3
<1>4. doc.bytes \in Seq(Byte)
  BY DocBytes
<1>5. out = doc.bytes
  BY <1>2, <1>3, <1>4, PieceAll
<1> QED
  BY <1>1, <1>2, <1>5 DEF Rebuilding

LEMMA EStepResolve == ASSUME IInv, EInv, Resolve PROVE EInv'
<1>1. /\ UNCHANGED split /\ policy' = policy /\ local' = local /\ remote' = remote
      /\ uplink' = uplink
  BY DEF Resolve
<1>2. Building' /\ Opened' /\ ListOk(builder.push)'
  BY <1>1, SplitKept
<1>3. Rebuilding'
  BY ResolveRound, ResolveEnds
<1> QED
  BY <1>1, <1>2, <1>3 DEF EInv, BlocksOk, ListOk, AllOk

LEMMA StartsEmpty ==
  ASSUME NEW bd \in Bodies
  PROVE  Stands(<<>>, bd.bytes, Kinds, 0, 0)
<1>1. bd.bytes \in Seq(Byte) /\ 0 \in 0 .. Len(bd.bytes)
  BY NodesOf
<1> QED
  BY <1>1, StandsNone

LEMMA EStepNextTurn == ASSUME IInv, EInv, NextTurn PROVE EInv'
<1>1. /\ doc' \in Bodies /\ groups' = <<>> /\ builder' = NewBuilder /\ open' = Closed
      /\ action' = "none" /\ uplink' = <<>> /\ stage' = "split"
      /\ UNCHANGED <<policy, local, remote>>
  BY DEF NextTurn
<1>2. /\ Fields \subseteq DOMAIN NewBuilder /\ NewBuilder.push = <<>>
      /\ NewBuilder.instrs = <<>> /\ NewBuilder.pos = 0
  BY DEF NewBuilder, Fields
<1>5. Stands(<<>>, doc'.bytes, Kinds, 0, 0)
  BY <1>1, StartsEmpty
<1>3. Building'
  BY <1>1, <1>2, <1>5 DEF Building
<1>4. Opened' /\ Rebuilding'
  BY <1>1 DEF Opened, Rebuilding
<1> QED
  BY <1>1, <1>2, <1>3, <1>4, NoneToSend DEF EInv, BlocksOk, ListOk, AllOk

\* What may happen at any time adds no block.
LEMMA EStepEvent ==
  ASSUME IInv, EInv, RemoteEvicts \/ LocalEvicts \/ ViewErrs \/ ViewForgets
  PROVE  EInv'
<1>1. /\ UNCHANGED split /\ policy' = policy /\ UNCHANGED <<stage, rebuild>>
  BY DEF RemoteEvicts, LocalEvicts, ViewErrs, ViewForgets, Event
<1>2. Building' /\ Opened' /\ ListOk(builder.push)'
  BY <1>1, SplitKept
<1>3. /\ UNCHANGED <<uplink, stack, out, doc, action, stage>>
  BY <1>1 DEF rebuild, split
<1>4. Rebuilding'
  BY <1>3 DEF EInv, Rebuilding
<1>5. /\ \A d \in DOMAIN local' : local'[d] = local[d] /\ d \in DOMAIN local
      /\ \A d \in DOMAIN remote' : remote'[d] = remote[d] /\ d \in DOMAIN remote
  BY DEF RemoteEvicts, LocalEvicts, ViewErrs, ViewForgets
<1> QED
  BY <1>2, <1>3, <1>4, <1>5 DEF EInv, BlocksOk, ListOk, AllOk

LEMMA EStepNothing == ASSUME EInv, UNCHANGED vars PROVE EInv'
<1>1. /\ UNCHANGED split /\ policy' = policy
      /\ UNCHANGED <<stage, uplink, stack, out, doc, action, local, remote>>
  BY DEF vars, split, rebuild
<1>2. Building' /\ Opened' /\ ListOk(builder.push)'
  BY <1>1, SplitKept
<1> QED
  BY <1>1, <1>2 DEF EInv, BlocksOk, ListOk, AllOk, Rebuilding

LEMMA EInit == Init => EInv
<1> SUFFICES ASSUME Init PROVE EInv
  OBVIOUS
<1>1. /\ groups = <<>> /\ builder = NewBuilder /\ open = Closed /\ action = "none"
      /\ local = NoBlocks /\ remote = NoBlocks /\ stage = "split" /\ uplink = <<>>
  BY DEF Init
<1>2. /\ Fields \subseteq DOMAIN NewBuilder /\ NewBuilder.push = <<>>
      /\ NewBuilder.instrs = <<>> /\ NewBuilder.pos = 0
  BY DEF NewBuilder, Fields
<1>3. DOMAIN NoBlocks = {}
  BY DEF NoBlocks
<1>5. Stands(<<>>, doc.bytes, Kinds, 0, 0)
  BY StartsEmpty DEF Init
<1>4. Building /\ Opened /\ Rebuilding
  BY <1>1, <1>2, <1>5 DEF Building, Opened, Rebuilding
<1> QED
  BY <1>1, <1>2, <1>3, <1>4, NoneToSend DEF EInv, BlocksOk, ListOk, AllOk

\* EInv is inductive, given IInv.
LEMMA EInvHolds == Spec => []EInv
<1>1. IInv /\ EInv /\ [Next]_vars => EInv'
  <2> SUFFICES ASSUME IInv, EInv, [Next]_vars PROVE EInv'
    OBVIOUS
  <2>1. ASSUME Done PROVE UNCHANGED vars
    BY <2>1 DEF Done
  <2> QED
    BY <2>1, EStepSplits, EStepUpload, EStepWhole, EStepResend, EStepArrive, EStepRebuild,
       EStepResolve, EStepNextTurn, EStepEvent, EStepNothing DEF Next
<1> QED
  BY <1>1, EInit, IInvHolds, PTL DEF Spec

\* What resolve puts together is at every point a beginning of the agent's body, and what
\* is forwarded is that body, whatever is evicted or noted wrongly while it is split, sent,
\* repaired and rebuilt: the digest that rebuild compares with never tells otherwise.
THEOREM BodiesAreExact == Spec => []Exact
<1>1. IInv /\ EInv => Exact
  <2> SUFFICES ASSUME IInv, EInv PROVE Exact
    OBVIOUS
  <2>1. doc.bytes \in Seq(Byte) /\ Len(doc.bytes) \in Nat
    BY DocBytes
  <2>2. ASSUME stage = "resolving" PROVE IsPrefix(out, doc.bytes)
    <3>1. PICK a : a = Len(out) /\ a \in 0 .. Len(doc.bytes) /\ out = Piece(doc.bytes, 0, a)
      BY <2>2 DEF EInv, Rebuilding
    <3>2. SubSeq(out, 1, a) = out
      <4>1. out \in Seq(Byte)
        BY <2>1, <3>1, PieceLen
      <4> QED
        BY <3>1, <4>1, SubSeqFull
    <3> QED
      BY <2>1, <3>1, <3>2 DEF IsPrefix, Piece
  <2> QED
    BY <2>2 DEF EInv, Rebuilding, Exact
<1> QED
  BY <1>1, IInvHolds, EInvHolds, PTL

-----------------------------------------------------------------------------
(* What is referenced *)

RefOf(i) == IF i.op = "ref" THEN {i.digest} ELSE {}

LEMMA AppendSet ==
  ASSUME NEW S, NEW p \in Seq(S), NEW i
  PROVE  ToSet(Append(p, i)) = ToSet(p) \cup {i}
<1>1. /\ DOMAIN Append(p, i) = DOMAIN p \cup {Len(p) + 1}
      /\ \A k \in DOMAIN p : Append(p, i)[k] = p[k]
      /\ Append(p, i)[Len(p) + 1] = i
  <2>1. p \in Seq(S \cup {i}) /\ i \in S \cup {i}
    BY SeqWider
  <2> QED
    BY <2>1
<1> QED
  BY <1>1 DEF ToSet

LEMMA RefsAppend ==
  ASSUME NEW S, NEW p \in Seq(S), NEW i
  PROVE  RefsOf(Append(p, i)) = RefsOf(p) \cup RefOf(i)
<1>1. ToSet(Append(p, i)) = ToSet(p) \cup {i}
  BY AppendSet
<1> QED
  BY <1>1 DEF RefsOf, RefOf

LEMMA RefsNone == RefsOf(<<>>) = {} /\ \A bytes : RefOf(Lit(bytes)) = {}
BY DEF RefsOf, RefOf, Lit, ToSet

LEMMA RefsRef == \A d, len : RefOf(Ref(d, len)) = {d}
BY DEF RefOf, Ref

\* normalize references what the program references, and nothing else.
LEMMA MergedRefs ==
  ASSUME NEW p \in Seq(Instrs), NEW i \in Instrs
  PROVE  RefsOf(Merged(p, i)) \subseteq RefsOf(p) \cup RefOf(i)
<1>1. RefsOf(Append(p, i)) = RefsOf(p) \cup RefOf(i)
  BY RefsAppend
<1>2. CASE i.op = "lit" /\ p # <<>> /\ Last(p).op = "lit"
  <2>1. Front(p) \in Seq(Instrs) /\ ToSet(Front(p)) \subseteq ToSet(p)
    <3>1. PICK n : n \in Nat /\ n = Len(p) /\ n >= 1 /\ DOMAIN p = 1 .. n
      BY <1>2
    <3>2. \A k \in 1 .. n - 1 : p[k] \in Instrs /\ k \in 1 .. n
      BY <3>1
    <3>3. /\ SubSeq(p, 1, n - 1) \in Seq(Instrs)
          /\ Len(SubSeq(p, 1, n - 1)) = IF 1 <= n - 1 THEN (n - 1) - 1 + 1 ELSE 0
          /\ \A k \in 1 .. (n - 1) - 1 + 1 : SubSeq(p, 1, n - 1)[k] = p[1 + k - 1]
      BY <3>1, <3>2, SubSeqProperties
    <3>4. /\ Front(p) \in Seq(Instrs) /\ Len(Front(p)) = n - 1
          /\ \A k \in 1 .. n - 1 : Front(p)[k] = p[k]
      BY <3>1, <3>3 DEF Front
    <3>5. DOMAIN Front(p) = 1 .. n - 1
      BY <3>1, <3>4
    <3> QED
      BY <3>1, <3>2, <3>4, <3>5 DEF ToSet
  <2>2. PICK l : l = Lit(Last(p).bytes \o i.bytes)
    OBVIOUS
  <2>3. RefsOf(Append(Front(p), l)) = RefsOf(Front(p)) \cup RefOf(l)
    BY <2>1, RefsAppend
  <2>4. RefOf(l) = {}
    BY <2>2, RefsNone
  <2>5. RefsOf(Front(p)) \subseteq RefsOf(p)
    BY <2>1 DEF RefsOf
  <2>6. Merged(p, i) = Append(Front(p), l)
    BY <1>2, <2>2 DEF Merged
  <2> QED
    BY <2>3, <2>4, <2>5, <2>6
<1>3. CASE ~(i.op = "lit" /\ p # <<>> /\ Last(p).op = "lit")
  <2>1. i.op \in {"lit", "ref"}
    BY DEF Instrs
  <2>2. Merged(p, i) \in {p, Append(p, i)}
    BY <1>3, <2>1 DEF Merged
  <2> QED
    BY <1>1, <2>2
<1> QED
  BY <1>2, <1>3

LEMMA NormalizeRefs ==
  ASSUME NEW p \in Seq(Instrs)
  PROVE  RefsOf(Normalize(p)) \subseteq RefsOf(p) /\ Normalize(p) \in Seq(Instrs)
<1>1. PICK n \in Nat : n = Len(p)
  OBVIOUS
<1>2. PICK h : /\ h \in [0 .. n -> Seq(Instrs)] /\ h[0] = <<>> /\ h[n] = Normalize(p)
               /\ \A k \in 1 .. n : h[k] = Merged(h[k - 1], p[k])
  BY <1>1, NormalizePath
<1> DEFINE Good == {k \in 0 .. n : RefsOf(h[k]) \subseteq RefsOf(p)}
<1>3. 0 \in Good
  BY <1>2, RefsNone
<1>4. ASSUME NEW k \in 0 .. n - 1, k \in Good PROVE k + 1 \in Good
  <2>1. k + 1 \in 1 .. n /\ (k + 1) - 1 = k /\ k \in 0 .. n
    OBVIOUS
  <2>2. PICK q, i : q = h[k] /\ i = p[k + 1]
    OBVIOUS
  <2>3. q \in Seq(Instrs) /\ i \in Instrs /\ i \in ToSet(p)
    <3>1. DOMAIN p = 1 .. n
      BY <1>1
    <3> QED
      BY <1>1, <1>2, <2>1, <2>2, <3>1, ElementOfSeq DEF ToSet
  <2>4. RefsOf(Merged(q, i)) \subseteq RefsOf(q) \cup RefOf(i)
    BY <2>3, MergedRefs
  <2>5. RefOf(i) \subseteq RefsOf(p)
    BY <2>3 DEF RefOf, RefsOf
  <2>6. h[k + 1] = Merged(q, i)
    BY <1>2, <2>1, <2>2
  <2> QED
    BY <1>4, <2>1, <2>2, <2>4, <2>5, <2>6
<1>5. \A k \in 0 .. n : k \in Good
  <2> HIDE DEF Good
  <2> QED
    BY <1>3, <1>4, UpTo
<1> QED
  BY <1>2, <1>5

-----------------------------------------------------------------------------
(* The references are covered *)

\* What the remote end is taken to have once everything that is queued has arrived.
Given(b, t) == t \cup Queued(b)

\* Each pushed program references what the view vouched for, or what is pushed before it.
PushCovered(b, t) ==
  \A i \in DOMAIN b.push :
    b.push[i].body = "program" =>
      RefsOf(b.push[i].instrs) \subseteq t \cup {b.push[j].digest : j \in 1 .. i - 1}

CInv == /\ RefsOf(builder.instrs) \subseteq Given(builder, trusted)
        /\ RefsOf(open.instrs) \subseteq Given(builder, trusted)
        /\ PushCovered(builder, trusted)

\* More trust covers no less.
LEMMA MoreTrust ==
  ASSUME NEW b, NEW t, NEW u, t \subseteq u, PushCovered(b, t)
  PROVE  PushCovered(b, u) /\ Given(b, t) \subseteq Given(b, u)
BY DEF PushCovered, Given

\* queue adds a digest, and its program may reference what is there before it.
LEMMA QueueCovered ==
  ASSUME NEW b, NEW blk, NEW t, Fields \subseteq DOMAIN b, BlockList(b.push),
         PushCovered(b, t), blk.body = "program" => RefsOf(blk.instrs) \subseteq Given(b, t)
  PROVE  /\ PushCovered(Queue(b, blk), t)
         /\ Given(Queue(b, blk), t) = Given(b, t) \cup {blk.digest}
<1>1. CASE blk.digest \in Queued(b)
  BY <1>1 DEF Queue, Given
<1>2. CASE blk.digest \notin Queued(b)
  <2>1. PICK S : b.push \in Seq(S)
    BY DEF BlockList
  <2>2. PICK q, r, n : q = b.push /\ r = Append(b.push, blk) /\ n = Len(b.push)
    OBVIOUS
  <2>3. q \in Seq(S \cup {blk}) /\ n \in Nat /\ n = Len(q) /\ blk \in S \cup {blk}
    BY <2>1, <2>2, SeqWider
  <2>4. /\ DOMAIN r = 1 .. n + 1 /\ DOMAIN q = 1 .. n
        /\ \A k \in 1 .. n : r[k] = q[k]
        /\ r[n + 1] = blk
    BY <2>2, <2>3, AppendProperties
  <2>5. Queue(b, blk).push = r
    BY <1>2, <2>2 DEF Queue, Fields
  <2>6. ToSet(r) = ToSet(q) \cup {blk}
    BY <2>2, <2>3, AppendSet
  <2>7. Given(Queue(b, blk), t) = Given(b, t) \cup {blk.digest}
    BY <2>2, <2>5, <2>6 DEF Given, Queued
  <2>8. ASSUME NEW i \in DOMAIN r, r[i].body = "program"
        PROVE  RefsOf(r[i].instrs) \subseteq t \cup {r[j].digest : j \in 1 .. i - 1}
    <3>1. CASE i \in 1 .. n
      <4>1. RefsOf(q[i].instrs) \subseteq t \cup {q[j].digest : j \in 1 .. i - 1}
        BY <2>2, <2>4, <2>8, <3>1 DEF PushCovered
      <4>2. \A j \in 1 .. i - 1 : r[j] = q[j]
        BY <2>3, <2>4, <3>1
      <4> QED
        BY <2>4, <3>1, <4>1, <4>2
    <3>2. CASE i = n + 1
      <4>1. RefsOf(blk.instrs) \subseteq t \cup {q[j].digest : j \in 1 .. n}
        BY <2>2, <2>4, <2>8, <3>2 DEF Given, Queued, ToSet
      <4>2. \A j \in 1 .. n : r[j] = q[j]
        BY <2>4
      <4>3. (n + 1) - 1 = n
        BY <2>3
      <4> QED
        BY <2>4, <3>2, <4>1, <4>2, <4>3
    <3> QED
      BY <2>3, <2>4, <2>8, <3>1, <3>2
  <2> QED
    BY <2>5, <2>7, <2>8 DEF PushCovered
<1> QED
  BY <1>1, <1>2

\* lit, and the counters of reference, reference nothing.
LEMMA LiteralRefs ==
  ASSUME NEW b, Fields \subseteq DOMAIN b, b.instrs \in Seq(Instrs), NEW to
  PROVE  /\ RefsOf(Literal(b, to).instrs) = RefsOf(b.instrs)
         /\ Literal(b, to).push = b.push /\ Fields \subseteq DOMAIN Literal(b, to)
<1>1. CASE to <= b.pos
  BY <1>1 DEF Literal
<1>2. CASE ~(to <= b.pos)
  <2>1. PICK l : l = Lit(Slice(b.pos, to))
    OBVIOUS
  <2>2. /\ Literal(b, to).instrs = Append(b.instrs, l) /\ Literal(b, to).push = b.push
        /\ Fields \subseteq DOMAIN Literal(b, to)
    BY <1>2, <2>1 DEF Literal, Fields
  <2>3. RefsOf(Append(b.instrs, l)) = RefsOf(b.instrs) \cup {}
    BY <2>1, RefsAppend, RefsNone
  <2> QED
    BY <2>2, <2>3
<1> QED
  BY <1>1, <1>2

LEMMA CountedRefs ==
  ASSUME Fields \subseteq DOMAIN builder, builder.instrs \in Seq(Instrs), NEW c
  PROVE  /\ RefsOf(Counted(c).instrs) = RefsOf(builder.instrs)
         /\ Counted(c).push = builder.push
<1>1. PICK l : l = Literal(builder, c.start)
  OBVIOUS
<1>2. /\ RefsOf(l.instrs) = RefsOf(builder.instrs) /\ l.push = builder.push
      /\ Fields \subseteq DOMAIN l
  BY <1>1, LiteralRefs
<1>3. Counted(c).instrs = l.instrs /\ Counted(c).push = l.push
  BY <1>1, <1>2 DEF Counted, Fields
<1> QED
  BY <1>2, <1>3

LEMMA ReferRefs ==
  ASSUME NEW b, Fields \subseteq DOMAIN b, b.instrs \in Seq(Instrs), NEW c
  PROVE  /\ RefsOf(Refer(b, c).instrs) = RefsOf(b.instrs) \cup {DigestAt(c)}
         /\ Refer(b, c).push = b.push
<1>1. PICK i : i = Ref(DigestAt(c), Size(c))
  OBVIOUS
<1>2. Refer(b, c).instrs = Append(b.instrs, i) /\ Refer(b, c).push = b.push
  BY <1>1 DEF Refer, Fields
<1>3. RefsOf(Append(b.instrs, i)) = RefsOf(b.instrs) \cup {DigestAt(c)}
  BY <1>1, RefsAppend, RefsRef
<1> QED
  BY <1>2, <1>3

\* The same queue covers the same.
LEMMA SameGiven ==
  ASSUME NEW a, NEW b, NEW t, a.push = b.push
  PROVE  Given(a, t) = Given(b, t) /\ (PushCovered(a, t) <=> PushCovered(b, t))
BY DEF Given, Queued, PushCovered

LEMMA SoFar ==
  ASSUME IInv, EInv, action = "splitting"
  PROVE  /\ Fields \subseteq DOMAIN builder /\ builder.instrs \in Seq(Instrs)
         /\ BlockList(builder.push)
BY DEF EInv, Building, Stands, IInv, BuilderSound

LEMMA CountedSoFar ==
  ASSUME IInv, EInv, Reference, NEW c, c = Head(groups).cand, builder.pos <= c.start
  PROVE  /\ Fields \subseteq DOMAIN Counted(c) /\ Counted(c).instrs \in Seq(Instrs)
         /\ Counted(c).push = builder.push
         /\ RefsOf(Counted(c).instrs) = RefsOf(builder.instrs)
<1>1. action = "splitting" /\ groups # <<>>
  BY DEF Reference
<1>2. /\ Fields \subseteq DOMAIN builder /\ groups \in Seq(GroupsOf(doc, policy))
      /\ Stands(builder.instrs, doc.bytes, Kinds, 0, builder.pos)
  BY <1>1 DEF EInv, Building
<1>3. c \in Spots(doc, Kinds, policy)
  BY <1>1, <1>2, HeadGroup
<1>4. /\ Fields \subseteq DOMAIN Counted(c)
       /\ Stands(Counted(c).instrs, doc.bytes, Kinds, 0, c.start)
  BY <1>2, <1>3, CountedStands
<1>5. builder.instrs \in Seq(Instrs) /\ Counted(c).instrs \in Seq(Instrs)
  BY <1>2, <1>4 DEF Stands
<1> QED
  BY <1>2, <1>4, <1>5, CountedRefs

LEMMA CoveredReference == ASSUME IInv, EInv, CInv, Reference PROVE CInv'
<1> DEFINE c == Head(groups).cand
           d == DigestAt(c)
<1>1. action = "splitting" /\ doc' = doc /\ open = Closed
  BY DEF Reference
<1>2. /\ Fields \subseteq DOMAIN builder /\ builder.instrs \in Seq(Instrs)
      /\ BlockList(builder.push)
  BY <1>1, SoFar
<1>3. PICK m, e : m = c /\ e = d
  OBVIOUS
<1>4. CASE UNCHANGED <<builder, open, trusted>>
  BY <1>4 DEF CInv, Given, Queued, PushCovered
<1>5. ASSUME ~(UNCHANGED <<builder, open, trusted>>) PROVE CInv'
  <2>1. builder.pos <= m.start
    BY <1>3, <1>5 DEF Reference
  <2>2. PICK b : b = Counted(m)
    OBVIOUS
  <2>3. /\ Fields \subseteq DOMAIN b /\ b.instrs \in Seq(Instrs) /\ b.push = builder.push
        /\ RefsOf(b.instrs) = RefsOf(builder.instrs)
    BY <1>3, <2>1, <2>2, CountedSoFar
  <2>4. /\ PushCovered(b, trusted) /\ Given(b, trusted) = Given(builder, trusted)
        /\ BlockList(b.push)
    BY <1>2, <2>3, SameGiven DEF CInv
  <2>5. CASE builder' = Refer(b, m) /\ trusted' = trusted \cup {e} /\ open' = open
    <3>1. RefsOf(builder'.instrs) = RefsOf(b.instrs) \cup {e} /\ builder'.push = b.push
      BY <1>3, <2>3, <2>5, ReferRefs
    <3>2. /\ PushCovered(builder', trusted) /\ Given(builder', trusted) = Given(b, trusted)
      BY <2>4, <3>1, SameGiven
    <3>3. /\ PushCovered(builder', trusted')
          /\ Given(builder', trusted) \subseteq Given(builder', trusted')
      BY <2>5, <3>2, MoreTrust
    <3>4. e \in Given(builder', trusted')
      BY <2>5 DEF Given
    <3>5. /\ RefsOf(builder'.instrs) \subseteq Given(builder', trusted')
          /\ RefsOf(open'.instrs) \subseteq Given(builder', trusted')
      BY <2>3, <2>4, <2>5, <3>1, <3>2, <3>3, <3>4 DEF CInv
    <3> QED
      BY <3>3, <3>5 DEF CInv, Given, Queued, PushCovered
  <2>6. CASE builder' = Refer(Queue(b, Raw(e)), m) /\ UNCHANGED <<open, trusted>>
    <3>1. PICK q : q = Queue(b, Raw(e))
      OBVIOUS
    <3>2. Raw(e).body # "program" /\ Raw(e).digest = e
      BY DEF Raw
    <3>3. /\ PushCovered(q, trusted) /\ Given(q, trusted) = Given(b, trusted) \cup {e}
      BY <2>3, <2>4, <3>1, <3>2, QueueCovered
    <3>4. Fields \subseteq DOMAIN q /\ q.instrs = b.instrs /\ builder' = Refer(q, m)
      BY <2>3, <2>6, <3>1 DEF Queue, Fields
    <3>8. q.instrs \in Seq(Instrs) /\ e = DigestAt(m)
      BY <1>3, <2>3, <3>4
    <3>5. RefsOf(builder'.instrs) = RefsOf(b.instrs) \cup {e} /\ builder'.push = q.push
      BY <3>4, <3>8, ReferRefs
    <3>6. PushCovered(builder', trusted) /\ Given(builder', trusted) = Given(q, trusted)
      BY <3>3, <3>5, SameGiven
    <3>7. /\ RefsOf(builder'.instrs) \subseteq Given(builder', trusted)
          /\ RefsOf(open'.instrs) \subseteq Given(builder', trusted)
      BY <2>3, <2>4, <2>6, <3>3, <3>5, <3>6 DEF CInv
    <3> QED
      BY <2>6, <3>6, <3>7 DEF CInv, Given, Queued, PushCovered
  <2>7. CASE /\ builder' = b /\ trusted' = trusted
             /\ open' = [cand |-> m, instrs |-> <<>>, kids |-> Head(groups).kids,
                         pos |-> m.start]
    <3>1. RefsOf(open'.instrs) = {}
      BY <2>7, RefsNone
    <3>2. RefsOf(builder'.instrs) \subseteq Given(builder', trusted')
      BY <2>3, <2>4, <2>7 DEF CInv
    <3> QED
      BY <2>4, <2>7, <3>1, <3>2 DEF CInv, Given, Queued, PushCovered
  <2> QED
    BY <1>3, <1>5, <2>2, <2>5, <2>6, <2>7 DEF Reference
<1> QED
  BY <1>4, <1>5

LEMMA CoveredNest == ASSUME IInv, EInv, CInv, Nest PROVE CInv'
<1> DEFINE ch   == Head(open.kids)
           d    == DigestAt(ch)
           once == [builder EXCEPT !.refs = @ + 1]
           lead == IF open.pos < ch.start THEN <<Lit(Slice(open.pos, ch.start))>> ELSE <<>>
<1>1. action = "splitting" /\ open.kids # <<>>
  BY DEF Nest
<1>2. open \in Opens
  BY <1>1, NothingOpen DEF EInv, Opened
<1>3. /\ Fields \subseteq DOMAIN builder /\ builder.instrs \in Seq(Instrs)
      /\ BlockList(builder.push)
  BY <1>1, SoFar
<1>4. CASE open' = [open EXCEPT !.kids = Tail(@)] /\ UNCHANGED <<builder, trusted>>
  <2>1. open'.instrs = open.instrs
    BY <1>2, <1>4 DEF Opens
  <2> QED
    BY <1>4, <2>1 DEF CInv, Given, Queued, PushCovered
<1>5. CASE /\ open' = [open EXCEPT !.kids = Tail(@), !.pos = ch.end,
                         !.instrs = @ \o lead \o <<Ref(d, Size(ch))>>]
           /\ \/ builder' = once /\ trusted' = trusted \cup {d}
              \/ builder' = Queue(once, Raw(d)) /\ trusted' = trusted
  <2>1. PICK e, o, i : e = d /\ o = once /\ i = Ref(d, Size(ch))
    OBVIOUS
  <2>2. RefsOf(open'.instrs) = RefsOf(open.instrs) \cup {e}
    <3>1. open'.instrs = (open.instrs \o lead) \o <<i>>
      BY <1>2, <1>5, <2>1 DEF Opens
    <3>2. PICK p, l, s : p = open.instrs /\ l = Lit(Slice(open.pos, ch.start)) /\ s = lead
      OBVIOUS
    <3>3. p \in Seq(Instrs)
      BY <1>2, <3>2 DEF Opens
    <3>4. PICK S : S = Instrs \cup {l, i}
      OBVIOUS
    <3>5. p \in Seq(S) /\ i \in S /\ l \in S
      BY <3>3, <3>4, SeqWider
    <3>6. PICK q : q = p \o s
      OBVIOUS
    <3>7. q \in Seq(S) /\ RefsOf(q) = RefsOf(p)
      <4>1. CASE s = <<>>
        <5>1. q = p
          BY <3>3, <3>6, <4>1
        <5> QED
          BY <3>5, <5>1
      <4>2. CASE s = <<l>>
        <5>1. q = Append(p, l)
          BY <3>5, <3>6, <4>2
        <5>2. RefsOf(Append(p, l)) = RefsOf(p) \cup RefOf(l) /\ RefOf(l) = {}
          BY <3>2, <3>3, RefsAppend, RefsNone
        <5>3. Append(p, l) \in Seq(S)
          BY <3>5
        <5> QED
          BY <5>1, <5>2, <5>3
      <4> QED
        BY <3>2, <4>1, <4>2
    <3>8. q \o <<i>> = Append(q, i)
      BY <3>5, <3>7
    <3>9. RefsOf(Append(q, i)) = RefsOf(q) \cup RefOf(i) /\ RefOf(i) = {e}
      BY <2>1, <3>7, RefsAppend, RefsRef
    <3> HIDE DEF lead
    <3> QED
      BY <3>1, <3>2, <3>6, <3>7, <3>8, <3>9
  <2>3. /\ Fields \subseteq DOMAIN o /\ o.push = builder.push /\ o.instrs = builder.instrs
    BY <1>3, <2>1 DEF Fields
  <2>4. /\ PushCovered(o, trusted) /\ Given(o, trusted) = Given(builder, trusted)
    BY <2>3, SameGiven DEF CInv
  <2> HIDE DEF once, d, lead, ch
  <2>5. CASE builder' = o /\ trusted' = trusted \cup {e}
    <3>1. /\ PushCovered(builder', trusted')
          /\ Given(builder', trusted) \subseteq Given(builder', trusted')
      BY <2>4, <2>5, MoreTrust
    <3>2. e \in Given(builder', trusted')
      BY <2>5 DEF Given
    <3>3. /\ RefsOf(builder'.instrs) \subseteq Given(builder', trusted')
          /\ RefsOf(open'.instrs) \subseteq Given(builder', trusted')
      BY <2>2, <2>3, <2>4, <2>5, <3>1, <3>2 DEF CInv
    <3> QED
      BY <3>1, <3>3 DEF CInv, Given, Queued, PushCovered
  <2>6. CASE builder' = Queue(o, Raw(e)) /\ trusted' = trusted
    <3>1. Raw(e).body # "program" /\ Raw(e).digest = e
      BY DEF Raw
    <3>2. /\ PushCovered(builder', trusted)
          /\ Given(builder', trusted) = Given(o, trusted) \cup {e}
      BY <1>3, <2>3, <2>4, <2>6, <3>1, QueueCovered
    <3>3. builder'.instrs = builder.instrs
      BY <2>3, <2>6 DEF Queue, Fields
    <3>4. /\ RefsOf(builder'.instrs) \subseteq Given(builder', trusted)
          /\ RefsOf(open'.instrs) \subseteq Given(builder', trusted)
      BY <2>2, <2>4, <3>2, <3>3 DEF CInv
    <3> QED
      BY <2>6, <3>2, <3>4 DEF CInv, Given, Queued, PushCovered
  <2> QED
    BY <1>5, <2>1, <2>5, <2>6
<1> QED
  BY <1>4, <1>5 DEF Nest

LEMMA CoveredClose == ASSUME IInv, EInv, CInv, CloseBlock PROVE CInv'
<1> DEFINE c    == open.cand
           tail == IF open.pos < c.end THEN <<Lit(Slice(open.pos, c.end))>> ELSE <<>>
           prog == Normalize(open.instrs \o tail)
           blk  == IF Len(prog) = 1 /\ prog[1].op = "lit" THEN Raw(DigestAt(c))
                   ELSE Nested(DigestAt(c), prog)
<1>1. /\ action = "splitting" /\ open # Closed /\ open' = Closed
      /\ builder' = Refer(Queue(builder, blk), c) /\ trusted' = trusted
  BY DEF CloseBlock
<1>2. open \in Opens /\ Stands(open.instrs, doc.bytes, Leaves, c.start, open.pos)
       /\ open.pos <= c.end
  BY <1>1 DEF EInv, Opened
<1>3. /\ Fields \subseteq DOMAIN builder /\ builder.instrs \in Seq(Instrs)
      /\ BlockList(builder.push)
  BY <1>1, SoFar
<1>4. RefsOf(prog) \subseteq RefsOf(open.instrs)
  <2>1. PICK p, x, y, l : /\ p = open.instrs /\ x = open.pos /\ y = c.end
                          /\ l = Lit(Slice(open.pos, c.end))
    OBVIOUS
  <2>2. p \in Seq(Instrs) /\ x \in Nat
    BY <1>2, <2>1 DEF Opens
  <2>3. PICK s : s = tail
    OBVIOUS
  <2>4. CASE ~(x < y)
    <3>1. p \o s = p
      BY <2>1, <2>2, <2>3, <2>4
    <3> QED
      BY <2>1, <2>2, <2>3, <3>1, NormalizeRefs
  <2>5. CASE x < y
    <3>1. y \in 0 .. Len(doc.bytes) /\ doc.bytes \in Seq(Byte) /\ Len(doc.bytes) \in Nat
      BY <1>2, <2>1, DocBytes DEF Opens, Members, Spots
    <3>2. PICK w : w = doc.bytes
      OBVIOUS
    <3>3. w \in Seq(Byte) /\ y \in x .. Len(w)
      BY <2>2, <2>5, <3>1, <3>2
    <3>4. Piece(w, x, y) \in Seq(Byte)
      BY <2>2, <3>3, PieceLen
    <3>5. l \in Instrs
      BY <2>1, <3>2, <3>4 DEF Slice, Piece, Lit, Instrs
    <3>6. p \o s = Append(p, l) /\ Append(p, l) \in Seq(Instrs)
      BY <2>1, <2>2, <2>3, <2>5, <3>5
    <3>7. RefsOf(Append(p, l)) = RefsOf(p) \cup RefOf(l) /\ RefOf(l) = {}
      BY <2>1, <2>2, RefsAppend, RefsNone
    <3>8. RefsOf(Normalize(Append(p, l))) \subseteq RefsOf(Append(p, l))
      BY <3>6, NormalizeRefs
    <3> QED
      BY <2>1, <2>3, <3>6, <3>7, <3>8
  <2> QED
    BY <2>4, <2>5
<1> HIDE DEF prog, tail
<1>5. PICK k, m : k = blk /\ m = c
  OBVIOUS
<1>6. /\ k.digest = DigestAt(m)
      /\ k.body = "program" => RefsOf(k.instrs) \subseteq Given(builder, trusted)
  BY <1>4, <1>5 DEF Raw, Nested, CInv
<1>7. PICK q : q = Queue(builder, k)
  OBVIOUS
<1>8. /\ PushCovered(q, trusted)
      /\ Given(q, trusted) = Given(builder, trusted) \cup {DigestAt(m)}
  BY <1>3, <1>6, <1>7, QueueCovered DEF CInv
<1>9. Fields \subseteq DOMAIN q /\ q.instrs = builder.instrs
  BY <1>3, <1>7 DEF Queue, Fields
<1>10. builder' = Refer(q, m)
  BY <1>1, <1>5, <1>7
<1>11. RefsOf(builder'.instrs) = RefsOf(q.instrs) \cup {DigestAt(m)} /\ builder'.push = q.push
  BY <1>3, <1>9, <1>10, ReferRefs
<1>12. PushCovered(builder', trusted) /\ Given(builder', trusted) = Given(q, trusted)
  BY <1>8, <1>11, SameGiven
<1>13. RefsOf(open'.instrs) = {}
  BY <1>1, NothingOpen, RefsNone
<1>14. RefsOf(builder'.instrs) \subseteq Given(builder', trusted)
  BY <1>8, <1>9, <1>11, <1>12 DEF CInv
<1> QED
  BY <1>1, <1>12, <1>13, <1>14 DEF CInv, Given, Queued, PushCovered

LEMMA CoveredFinish == ASSUME IInv, EInv, CInv, Finish PROVE CInv'
<1>1. PICK b : b = Literal(builder, Len(doc.bytes))
  OBVIOUS
<1>2. /\ action = "splitting" /\ UNCHANGED <<open, trusted>>
      /\ builder' = [b EXCEPT !.instrs = Normalize(b.instrs)]
  BY <1>1 DEF Finish
<1>3. /\ Fields \subseteq DOMAIN builder /\ builder.instrs \in Seq(Instrs)
      /\ Stands(builder.instrs, doc.bytes, Kinds, 0, builder.pos)
  BY <1>2, SoFar DEF EInv, Building
<1>4. Len(doc.bytes) \in 0 .. Len(doc.bytes) /\ builder.pos <= Len(doc.bytes)
  BY <1>3, DocBytes DEF Stands
<1>5. b.instrs \in Seq(Instrs)
  BY <1>1, <1>3, <1>4, LiteralStands DEF Stands
<1>6. /\ RefsOf(b.instrs) = RefsOf(builder.instrs) /\ b.push = builder.push
      /\ Fields \subseteq DOMAIN b
  BY <1>1, <1>3, LiteralRefs
<1>7. builder'.push = builder.push /\ builder'.instrs = Normalize(b.instrs)
  BY <1>2, <1>6 DEF Fields
<1>8. RefsOf(builder'.instrs) \subseteq RefsOf(builder.instrs)
  BY <1>5, <1>6, <1>7, NormalizeRefs
<1>9. /\ PushCovered(builder', trusted) /\ Given(builder', trusted) = Given(builder, trusted)
  BY <1>7, SameGiven DEF CInv
<1> QED
  BY <1>2, <1>8, <1>9 DEF CInv, Given, Queued, PushCovered

\* A builder that starts covers everything.
LEMMA CoveredAfresh ==
  ASSUME builder' = NewBuilder, open' = Closed
  PROVE  CInv'
<1>1. NewBuilder.push = <<>> /\ NewBuilder.instrs = <<>> /\ DOMAIN <<>> = {}
  BY DEF NewBuilder
<1> QED
  BY <1>1, NothingOpen, RefsNone DEF CInv, PushCovered

LEMMA CInvHolds == Spec => []CInv
<1>1. Init => CInv
  <2>1. NewBuilder.push = <<>> /\ NewBuilder.instrs = <<>> /\ DOMAIN <<>> = {}
    BY DEF NewBuilder
  <2> QED
    BY <2>1, NothingOpen, RefsNone DEF Init, CInv, PushCovered
<1>2. IInv /\ EInv /\ CInv /\ [Next]_vars => CInv'
  <2> SUFFICES ASSUME IInv, EInv, CInv, [Next]_vars PROVE CInv'
    OBVIOUS
  <2>1. CASE UNCHANGED split
    <3>1. UNCHANGED <<builder, open, trusted>>
      BY <2>1 DEF split
    <3> QED
      BY <3>1 DEF CInv, Given, Queued, PushCovered
  <2>2. CASE Splits
    <3>1. ASSUME Split(doc) PROVE CInv'
      BY <3>1, CoveredAfresh DEF Split
    <3> QED
      BY <2>2, <3>1, CoveredReference, CoveredNest, CoveredClose, CoveredFinish DEF Splits
  <2>3. CASE NextTurn
    BY <2>3, CoveredAfresh DEF NextTurn
  <2>4. CASE ~(Splits \/ NextTurn)
    <3>1. UNCHANGED split
      BY <2>4 DEF Next, Upload, SendWhole, Resend, FailThenWhole, Arrive, Rebuild, Resolve,
                  RemoteEvicts, LocalEvicts, ViewErrs, ViewForgets, Event, Done, vars
    <3> QED
      BY <2>1, <3>1
  <2> QED
    BY <2>2, <2>3, <2>4
<1> QED
  BY <1>1, <1>2, IInvHolds, EInvHolds, PTL DEF Spec

\* What the Builder refers to, in its program and in the blocks it queues, in their order,
\* is what the view vouched for when it was asked, or was queued before.
THEOREM ReferencesAreCovered == Spec => []Covered
<1>1. CInv => Covered
  BY DEF CInv, Covered, Given, PushCovered
<1> QED
  BY <1>1, CInvHolds, PTL

-----------------------------------------------------------------------------
(* Totals and powers: functions by recursion over 0 .. n *)

Follows(g, n, first, step) == g[0] = first /\ \A k \in 1 .. n : g[k] = step[k][g[k - 1]]

\* One exists, for every first value and every step.
LEMMA Recursion ==
  ASSUME NEW n \in Nat, NEW S, NEW first \in S, NEW step \in [1 .. n -> [S -> S]]
  PROVE  \E g \in [0 .. n -> S] : Follows(g, n, first, step)
<1> USE DEF Follows
<1> DEFINE Good == {m \in 0 .. n : \E g \in [0 .. m -> S] : Follows(g, m, first, step)}
<1>1. 0 \in Good
  <2>1. PICK g : g = [k \in 0 .. 0 |-> first]
    OBVIOUS
  <2>2. g \in [0 .. 0 -> S] /\ Follows(g, 0, first, step)
    BY <2>1
  <2>3. 0 \in 0 .. n
    OBVIOUS
  <2> QED
    BY <2>2, <2>3
<1>2. ASSUME NEW m \in 0 .. n - 1, m \in Good
      PROVE  m + 1 \in Good
  <2>1. PICK g \in [0 .. m -> S] : Follows(g, m, first, step)
    BY <1>2
  <2> DEFINE h == [k \in 0 .. m + 1 |-> IF k = m + 1 THEN step[m + 1][g[m]] ELSE g[k]]
  <2>2. m + 1 \in 1 .. n /\ g[m] \in S
    OBVIOUS
  <2>3. step[m + 1][g[m]] \in S
    <3>1. step[m + 1] \in [S -> S]
      BY <2>2
    <3> QED
      BY <2>2, <3>1
  <2>4. h \in [0 .. m + 1 -> S]
    BY <2>3
  <2>5. h[0] = first
    <3>1. h[0] = g[0]
      OBVIOUS
    <3> QED
      BY <2>1, <3>1
  <2>6. ASSUME NEW k \in 1 .. m + 1 PROVE h[k] = step[k][h[k - 1]]
    <3>1. CASE k = m + 1
      <4>1. h[k] = step[m + 1][g[m]] /\ h[m] = g[m]
        BY <3>1
      <4>2. k - 1 = m
        BY <3>1
      <4> QED
        BY <3>1, <4>1, <4>2
    <3>2. CASE k # m + 1
      <4>1. k \in 1 .. m
        BY <3>2
      <4>2. h[k] = g[k] /\ h[k - 1] = g[k - 1]
        BY <4>1
      <4> QED
        BY <2>1, <4>1, <4>2
    <3> QED
      BY <3>1, <3>2
  <2>7. Follows(h, m + 1, first, step)
    BY <2>5, <2>6
  <2>8. m + 1 \in 0 .. n
    OBVIOUS
  <2> QED
    <3> HIDE DEF h
    <3> QED
      BY <2>4, <2>7, <2>8
<1>3. \A m \in 0 .. n : m \in Good
  <2> HIDE DEF Good
  <2> QED
    BY <1>1, <1>2, UpTo
<1> QED
  BY <1>3

\* What a sum is: the last value of a function.
SumRun(s, v) == s = [k \in 0 .. Len(v) |-> IF k = 0 THEN 0 ELSE s[k - 1] + v[k]]

\* A sum so far, after each number.
LEMMA SumPath ==
  ASSUME NEW v \in Seq(Nat)
  PROVE  \E h \in [0 .. Len(v) -> Nat] :
           /\ h[0] = 0 /\ h[Len(v)] = Sum(v)
           /\ \A k \in 1 .. Len(v) : h[k] = h[k - 1] + v[k]
<1>1. PICK n \in Nat : n = Len(v) /\ DOMAIN v = 1 .. n
  OBVIOUS
<1> DEFINE step == [k \in 1 .. n |-> [x \in Nat |-> x + v[k]]]
<1>2. \A k \in 1 .. n : v[k] \in Nat
  BY <1>1
<1>3. PICK g \in [0 .. n -> Nat] : Follows(g, n, 0, step)
  <2>1. step \in [1 .. n -> [Nat -> Nat]] /\ 0 \in Nat
    BY <1>2
  <2> HIDE DEF step
  <2> QED
    BY <2>1, Recursion
<1>4. g[0] = 0 /\ \A k \in 1 .. n : g[k] = g[k - 1] + v[k]
  <2>1. ASSUME NEW k \in 1 .. n PROVE g[k] = g[k - 1] + v[k]
    <3>1. k - 1 \in 0 .. n /\ step[k] = [x \in Nat |-> x + v[k]]
      OBVIOUS
    <3>2. g[k - 1] \in Nat
      BY <3>1
    <3> QED
      BY <1>3, <3>1, <3>2 DEF Follows
  <2> QED
    BY <1>3, <2>1 DEF Follows
<1>5. SumRun(g, v)
  BY <1>1, <1>4 DEF SumRun
<1>6. PICK s : s = CHOOSE f : SumRun(f, v)
  OBVIOUS
<1>7. SumRun(s, v)
  BY <1>5, <1>6
<1>8. Sum(v) = s[Len(v)]
  BY <1>6 DEF Sum, SumRun
<1>9. s[0] = 0 /\ \A k \in 1 .. n : s[k] = s[k - 1] + v[k]
  <2>1. s = [k \in 0 .. n |-> IF k = 0 THEN 0 ELSE s[k - 1] + v[k]]
    BY <1>1, <1>7 DEF SumRun
  <2>2. ASSUME NEW k \in 0 .. n PROVE s[k] = IF k = 0 THEN 0 ELSE s[k - 1] + v[k]
    BY <2>1, Zenon
  <2>3. 0 \in 0 .. n /\ \A k \in 1 .. n : k \in 0 .. n /\ k # 0
    OBVIOUS
  <2> QED
    BY <2>2, <2>3
<1> DEFINE Good == {k \in 0 .. n : s[k] \in Nat}
<1>10. 0 \in Good
  BY <1>9
<1>11. \A k \in 0 .. n - 1 : k \in Good => k + 1 \in Good
  <2> TAKE k \in 0 .. n - 1
  <2> HAVE k \in Good
  <2>1. k + 1 \in 1 .. n /\ (k + 1) - 1 = k
    OBVIOUS
  <2>2. s[k + 1] = s[k] + v[k + 1] /\ v[k + 1] \in Nat
    BY <1>2, <1>9, <2>1
  <2> QED
    BY <2>2
<1>12. \A k \in 0 .. n : s[k] \in Nat
  <2>1. \A k \in 0 .. n : k \in Good
    <3> HIDE DEF Good
    <3> QED
      BY <1>10, <1>11, UpTo
  <2> QED
    BY <2>1
<1>13. s \in [0 .. n -> Nat]
  <2>1. s = [k \in 0 .. n |-> s[k]]
    BY <1>1, <1>7 DEF SumRun
  <2> QED
    BY <1>12, <2>1
<1> QED
  BY <1>1, <1>8, <1>9, <1>13

\* The path is the sums of the numbers so far, however it is found.
LEMMA SumOnPath ==
  ASSUME NEW v \in Seq(Nat), NEW f, f[0] = 0, \A k \in 1 .. Len(v) : f[k] = f[k - 1] + v[k]
  PROVE  f[Len(v)] = Sum(v) /\ Sum(v) \in Nat /\ \A k \in 0 .. Len(v) : f[k] \in Nat
<1>1. PICK n \in Nat : n = Len(v)
  OBVIOUS
<1>2. PICK h : /\ h \in [0 .. n -> Nat] /\ h[0] = 0 /\ h[n] = Sum(v)
               /\ \A k \in 1 .. n : h[k] = h[k - 1] + v[k]
  BY <1>1, SumPath
<1> DEFINE Good == {k \in 0 .. n : f[k] = h[k]}
<1>3. 0 \in Good
  BY <1>2
<1>4. ASSUME NEW k \in 0 .. n - 1, k \in Good PROVE k + 1 \in Good
  <2>1. k + 1 \in 1 .. n /\ (k + 1) - 1 = k
    OBVIOUS
  <2> QED
    BY <1>1, <1>2, <1>4, <2>1
<1>5. \A k \in 0 .. n : k \in Good
  <2> HIDE DEF Good
  <2> QED
    BY <1>3, <1>4, UpTo
<1>6. n \in 0 .. n /\ \A k \in 0 .. n : h[k] \in Nat /\ f[k] = h[k]
  BY <1>2, <1>5
<1> QED
  BY <1>1, <1>2, <1>6

LEMMA SumNone == Sum(<<>>) = 0
<1>1. <<>> \in Seq(Nat) /\ Len(<<>>) = 0
  OBVIOUS
<1>2. PICK h : h[0] = 0 /\ h[0] = Sum(<<>>)
  BY <1>1, SumPath
<1> QED
  BY <1>2

LEMMA SumAppend ==
  ASSUME NEW v \in Seq(Nat), NEW x \in Nat
  PROVE  Sum(Append(v, x)) = Sum(v) + x /\ Sum(v) \in Nat
<1>0. PICK q : q = Append(v, x)
  OBVIOUS
<1>1. PICK n : n \in Nat /\ n = Len(v)
  OBVIOUS
<1>2. /\ q \in Seq(Nat) /\ Len(q) = n + 1 /\ q[n + 1] = x
      /\ \A k \in 1 .. n : q[k] = v[k]
  BY <1>0, <1>1, AppendProperties
<1>3. PICK h : /\ h \in [0 .. Len(q) -> Nat] /\ h[0] = 0 /\ h[Len(q)] = Sum(q)
               /\ \A k \in 1 .. Len(q) : h[k] = h[k - 1] + q[k]
  BY <1>2, SumPath
<1>4. \A k \in 1 .. n : h[k] = h[k - 1] + v[k]
  BY <1>1, <1>2, <1>3
<1>5. h[n] = Sum(v) /\ Sum(v) \in Nat
  BY <1>1, <1>3, <1>4, SumOnPath
<1>6. n + 1 \in 1 .. n + 1 /\ (n + 1) - 1 = n
  BY <1>1
<1> QED
  BY <1>0, <1>2, <1>3, <1>5, <1>6

\* The sum of no fewer is no less.
LEMMA SumMonotone ==
  ASSUME NEW v \in Seq(Nat), NEW u \in Seq(Nat), Len(u) = Len(v),
         \A k \in 1 .. Len(v) : u[k] <= v[k]
  PROVE  Sum(u) <= Sum(v)
<1>1. PICK n \in Nat : n = Len(v)
  OBVIOUS
<1>2. PICK h : /\ h \in [0 .. n -> Nat] /\ h[0] = 0 /\ h[n] = Sum(v)
               /\ \A k \in 1 .. n : h[k] = h[k - 1] + v[k]
  BY <1>1, SumPath
<1>3. PICK g : /\ g \in [0 .. n -> Nat] /\ g[0] = 0 /\ g[n] = Sum(u)
               /\ \A k \in 1 .. n : g[k] = g[k - 1] + u[k]
  BY <1>1, SumPath
<1> DEFINE Good == {k \in 0 .. n : g[k] <= h[k]}
<1>4. 0 \in Good
  BY <1>2, <1>3
<1>5. ASSUME NEW k \in 0 .. n - 1, k \in Good PROVE k + 1 \in Good
  <2>1. k + 1 \in 1 .. n /\ (k + 1) - 1 = k /\ k \in 0 .. n
    OBVIOUS
  <2>2. PICK a, b, x, y : a = g[k] /\ b = h[k] /\ x = u[k + 1] /\ y = v[k + 1]
    OBVIOUS
  <2>3. a \in Nat /\ b \in Nat /\ x \in Nat /\ y \in Nat /\ x <= y /\ a <= b
    BY <1>1, <1>2, <1>3, <1>5, <2>1, <2>2, ElementOfSeq
  <2>4. g[k + 1] = a + x /\ h[k + 1] = b + y
    BY <1>2, <1>3, <2>1, <2>2
  <2> QED
    BY <2>1, <2>3, <2>4
<1>6. \A k \in 0 .. n : k \in Good
  <2> HIDE DEF Good
  <2> QED
    BY <1>4, <1>5, UpTo
<1> QED
  BY <1>1, <1>2, <1>3, <1>6

-----------------------------------------------------------------------------
(* Powers, quotients, and the length of a varint *)

\* What a power is: the last value of a function.
PowerRun(p, base, n) == p = [k \in 0 .. n |-> IF k = 0 THEN 1 ELSE base * p[k - 1]]

\* The function of powers exists.
LEMMA PowerRuns ==
  ASSUME NEW base \in Nat, NEW n \in Nat
  PROVE  \E p \in [0 .. n -> Nat] : PowerRun(p, base, n) /\ Power(base, n) = p[n]
<1> DEFINE step == [k \in 1 .. n |-> [x \in Nat |-> base * x]]
<1>1. PICK g \in [0 .. n -> Nat] : Follows(g, n, 1, step)
  <2>1. step \in [1 .. n -> [Nat -> Nat]] /\ 1 \in Nat
    OBVIOUS
  <2> HIDE DEF step
  <2> QED
    BY <2>1, Recursion
<1>2. \A k \in 1 .. n : g[k] = base * g[k - 1]
  <2> TAKE k \in 1 .. n
  <2>1. k - 1 \in 0 .. n /\ step[k] = [x \in Nat |-> base * x]
    OBVIOUS
  <2>2. g[k - 1] \in Nat
    BY <2>1
  <2> QED
    BY <1>1, <2>1, <2>2 DEF Follows
<1>3. PowerRun(g, base, n)
  BY <1>1, <1>2 DEF PowerRun, Follows
<1>4. PICK p : p = CHOOSE f : PowerRun(f, base, n)
  OBVIOUS
<1>5. PowerRun(p, base, n)
  BY <1>3, <1>4
<1>6. Power(base, n) = p[n]
  BY <1>4 DEF Power, PowerRun
<1>7. p \in [0 .. n -> Nat]
  <2> DEFINE Good == {k \in 0 .. n : p[k] \in Nat}
  <2>1. 0 \in Good
    BY <1>5 DEF PowerRun
  <2>2. \A k \in 0 .. n - 1 : k \in Good => k + 1 \in Good
    <3> TAKE k \in 0 .. n - 1
    <3> HAVE k \in Good
    <3>1. p[k + 1] = base * p[k]
      BY <1>5 DEF PowerRun
    <3> QED
      BY <3>1
  <2>3. \A k \in 0 .. n : k \in Good
    <3> HIDE DEF Good
    <3> QED
      BY <2>1, <2>2, UpTo
  <2>4. p = [k \in 0 .. n |-> p[k]]
    BY <1>5 DEF PowerRun
  <2> QED
    BY <2>3, <2>4
<1> QED
  BY <1>5, <1>6, <1>7

\* The equations of a power.
LEMMA PowerIs ==
  ASSUME NEW base \in Nat
  PROVE  /\ Power(base, 0) = 1
         /\ \A n \in Nat : Power(base, n) \in Nat /\ Power(base, n + 1) = base * Power(base, n)
<1>1. Power(base, 0) = 1
  <2>1. PICK z \in Nat : z = 0
    OBVIOUS
  <2>2. PICK p \in [0 .. z -> Nat] : PowerRun(p, base, z) /\ Power(base, z) = p[z]
    BY PowerRuns
  <2> QED
    BY <2>1, <2>2 DEF PowerRun
<1>2. ASSUME NEW n \in Nat
      PROVE  Power(base, n) \in Nat /\ Power(base, n + 1) = base * Power(base, n)
  <2>1. PICK p \in [0 .. n -> Nat] : PowerRun(p, base, n) /\ Power(base, n) = p[n]
    BY PowerRuns
  <2>2. PICK q \in [0 .. n + 1 -> Nat] : PowerRun(q, base, n + 1) /\ Power(base, n + 1) = q[n + 1]
    <3>1. PICK m \in Nat : m = n + 1
      OBVIOUS
    <3>2. \E q \in [0 .. m -> Nat] : PowerRun(q, base, m) /\ Power(base, m) = q[m]
      BY PowerRuns
    <3> QED
      BY <3>1, <3>2
  <2> DEFINE Good == {k \in 0 .. n : p[k] = q[k]}
  <2>3. 0 \in Good
    BY <2>1, <2>2 DEF PowerRun
  <2>4. \A k \in 0 .. n - 1 : k \in Good => k + 1 \in Good
    <3> TAKE k \in 0 .. n - 1
    <3> HAVE k \in Good
    <3>1. p[k + 1] = base * p[k]
      BY <2>1 DEF PowerRun
    <3>2. q[k + 1] = base * q[k]
      BY <2>2 DEF PowerRun
    <3> QED
      BY <3>1, <3>2
  <2>5. \A k \in 0 .. n : k \in Good
    <3> HIDE DEF Good
    <3> QED
      BY <2>3, <2>4, UpTo
  <2>6. q[n + 1] = base * q[n]
    BY <2>2 DEF PowerRun
  <2>7. p[n] = q[n]
    BY <2>5
  <2> QED
    BY <2>1, <2>2, <2>6, <2>7
<1> QED
  BY <1>1, <1>2

\* The powers of a positive number are positive.
LEMMA PowerPositive ==
  ASSUME NEW base \in Nat, base > 0, NEW n \in Nat
  PROVE  Power(base, n) \in Nat /\ Power(base, n) > 0
<1> DEFINE Good == {k \in 0 .. n : Power(base, k) > 0}
<1>1. 0 \in Good
  BY PowerIs
<1>2. \A k \in 0 .. n - 1 : k \in Good => k + 1 \in Good
  <2> TAKE k \in 0 .. n - 1
  <2> HAVE k \in Good
  <2>1. Power(base, k) \in Nat /\ Power(base, k + 1) = base * Power(base, k)
    BY PowerIs
  <2>2. PICK c \in Nat : c = Power(base, k)
    BY <2>1
  <2>3. c > 0 /\ base * c > 0
    BY <2>2
  <2> QED
    BY <2>1, <2>2, <2>3
<1>3. \A k \in 0 .. n : k \in Good
  <2> HIDE DEF Good
  <2> QED
    BY <1>1, <1>2, UpTo
<1> QED
  BY <1>3, PowerIs

\* Quotient and remainder.
LEMMA DivMod ==
  ASSUME NEW w \in Nat, w > 0, NEW v \in Nat, NEW q, q = v \div w, NEW r, r = v % w
  PROVE  q \in Nat /\ r \in 0 .. w - 1 /\ v = w * q + r
<1>1. v = w * q + r
  OBVIOUS
<1>2. q \in Nat
  OBVIOUS
<1>3. r \in 0 .. w - 1
  OBVIOUS
<1> QED
  BY <1>1, <1>2, <1>3

LEMMA TimesMonotone ==
  ASSUME NEW w \in Nat, NEW x \in Nat, NEW y \in Nat, x <= y
  PROVE  w * x <= w * y /\ w * x \in Nat /\ w * y \in Nat
<1>1. PICK d \in Nat : y = x + d
  <2>1. y - x \in Nat /\ y = x + (y - x)
    OBVIOUS
  <2> QED
    BY <2>1
<1>2. w * y = w * x + w * d
  BY <1>1
<1>3. w * x \in Nat /\ w * d \in Nat
  OBVIOUS
<1> QED
  BY <1>2, <1>3

\* What holds m times w has a quotient of m at least.
LEMMA DivAtLeast ==
  ASSUME NEW w \in Nat, w > 0, NEW v \in Nat, NEW m \in Nat, w * m <= v
  PROVE  m <= v \div w
<1>1. PICK q : q = v \div w
  OBVIOUS
<1>2. PICK r : r = v % w
  OBVIOUS
<1>3. q \in Nat /\ r \in 0 .. w - 1 /\ v = w * q + r
  BY <1>1, <1>2, DivMod
<1>4. ASSUME q < m PROVE FALSE
  <2>1. q + 1 \in Nat /\ q + 1 <= m
    BY <1>3, <1>4
  <2>2. w * (q + 1) <= w * m /\ w * m \in Nat
    BY <2>1, TimesMonotone
  <2>3. PICK z : z = w * q
    OBVIOUS
  <2>4. w * (q + 1) = z + w /\ z \in Nat
    BY <1>3, <2>3
  <2>5. z + w <= v /\ v = z + r
    BY <1>3, <2>2, <2>3, <2>4
  <2> QED
    BY <1>3, <2>4, <2>5
<1> QED
  BY <1>1, <1>3, <1>4

\* The quotients of parts are no more than that of the whole.
LEMMA DivSum ==
  ASSUME NEW w \in Nat, w > 0, NEW x \in Nat, NEW y \in Nat
  PROVE  /\ x \div w \in Nat /\ y \div w \in Nat /\ (x + y) \div w \in Nat
         /\ (x \div w) + (y \div w) <= (x + y) \div w
<1>1. PICK p : p = x \div w
  OBVIOUS
<1>2. PICK r : r = x % w
  OBVIOUS
<1>3. p \in Nat /\ r \in 0 .. w - 1 /\ x = w * p + r
  BY <1>1, <1>2, DivMod
<1>4. PICK q : q = y \div w
  OBVIOUS
<1>5. PICK t : t = y % w
  OBVIOUS
<1>6. q \in Nat /\ t \in 0 .. w - 1 /\ y = w * q + t
  BY <1>4, <1>5, DivMod
<1>7. PICK a, b : a = w * p /\ b = w * q
  OBVIOUS
<1>8. w * (p + q) = a + b /\ a \in Nat /\ b \in Nat
  BY <1>3, <1>6, <1>7
<1>9. w * (p + q) <= x + y
  BY <1>3, <1>6, <1>7, <1>8
<1>10. PICK v \in Nat : v = x + y
  OBVIOUS
<1>11. p + q \in Nat /\ w * (p + q) <= v
  BY <1>3, <1>6, <1>9, <1>10
<1>12. p + q <= v \div w /\ v \div w \in Nat
  <2>1. p + q <= v \div w
    BY <1>11, DivAtLeast
  <2>2. v \div w \in Nat
    OBVIOUS
  <2> QED
    BY <2>1, <2>2
<1> QED
  BY <1>1, <1>3, <1>4, <1>6, <1>10, <1>12

\* The quotient of less is no more.
LEMMA DivMonotone ==
  ASSUME NEW w \in Nat, w > 0, NEW x \in Nat, NEW y \in Nat, x <= y
  PROVE  x \div w <= y \div w /\ x \div w \in Nat /\ y \div w \in Nat
<1>1. PICK d \in Nat : y = x + d
  <2>1. y - x \in Nat /\ y = x + (y - x)
    OBVIOUS
  <2> QED
    BY <2>1
<1>2. /\ x \div w \in Nat /\ d \div w \in Nat /\ (x + d) \div w \in Nat
      /\ (x \div w) + (d \div w) <= (x + d) \div w
  BY DivSum
<1>3. PICK a, b, c : a = x \div w /\ b = d \div w /\ c = y \div w
  OBVIOUS
<1>4. a \in Nat /\ b \in Nat /\ c \in Nat /\ a + b <= c
  BY <1>1, <1>2, <1>3
<1>5. a <= c
  BY <1>4
<1> QED
  BY <1>3, <1>4, <1>5

\* Twice a number is no more than a larger multiple.
LEMMA TwiceIsLess ==
  ASSUME NEW r \in Nat, r > 1, NEW p \in Nat
  PROVE  p + p <= r * p /\ r * p \in Nat
<1>1. p * 2 <= p * r /\ p * r \in Nat
  BY TimesMonotone
<1>2. p * 2 = p + p /\ p * r = r * p
  OBVIOUS
<1> QED
  BY <1>1, <1>2

\* A varint is only as long as its number needs, but for the longest.
LEMMA VarLenIs ==
  ASSUME NEW v \in Nat
  PROVE  /\ VarLen(v) \in 1 .. MaxVarint
         /\ VarLen(v) > 1 => v >= Power(Radix, VarLen(v) - 1)
<1>0. Radix \in Nat /\ MaxVarint \in Nat /\ MaxVarint > 0
  BY WireAssumption
<1> DEFINE T == {n \in 1 .. MaxVarint : v < Power(Radix, n) \/ n = MaxVarint}
<1>1. MaxVarint \in T
  BY <1>0
<1>2. PICK m \in T : \A k \in T : m <= k
  <2>1. T \in SUBSET Nat /\ T # {}
    BY <1>1
  <2> HIDE DEF T
  <2> QED
    BY <2>1, LeastNumber
<1>3. m > 1 => v >= Power(Radix, m - 1)
  <2> SUFFICES ASSUME m > 1, ~ (v >= Power(Radix, m - 1)) PROVE FALSE
    OBVIOUS
  <2>1. m - 1 \in 1 .. MaxVarint /\ m - 1 \in Nat
    BY <1>0
  <2>2. Power(Radix, m - 1) \in Nat
    BY <1>0, <2>1, PowerIs
  <2>3. m - 1 \in T
    BY <2>1, <2>2
  <2> QED
    BY <1>2, <2>3
<1>4. PICK n : n = VarLen(v)
  OBVIOUS
<1>5. n \in 1 .. MaxVarint /\ (n > 1 => v >= Power(Radix, n - 1))
  BY <1>2, <1>3, <1>4 DEF VarLen
<1> QED
  BY <1>4, <1>5

LEMMA UnitIs == LenUnit \in Nat /\ LenUnit > 0 /\ LenWire \in Nat /\ LenWire > 0
<1>1. Radix \in Nat /\ Radix > 0 /\ LenWire \in Nat /\ LenWire > 0
  BY WireAssumption
<1> QED
  BY <1>1, PowerPositive DEF LenUnit

\* With every byte that a varint takes beyond its allowance the number is larger by a unit.
LEMMA UnitsGrow ==
  ASSUME NEW m \in Nat
  PROVE  LenUnit * (m + 1) <= Power(Radix, LenWire + m) /\ Power(Radix, LenWire + m) \in Nat
<1>0. PICK w : w = LenUnit
  OBVIOUS
<1>1. w \in Nat /\ w > 0 /\ LenWire \in Nat /\ Radix \in Nat /\ Radix > 1
  BY <1>0, UnitIs, WireAssumption
<1>2. ASSUME NEW k \in Nat
      PROVE  /\ Power(Radix, LenWire + k) \in Nat
             /\ Power(Radix, LenWire + (k + 1)) = Radix * Power(Radix, LenWire + k)
  <2>1. PICK j \in Nat : j = LenWire + k
    BY <1>1
  <2>2. Power(Radix, j) \in Nat /\ Power(Radix, j + 1) = Radix * Power(Radix, j)
    BY <1>1, PowerIs
  <2>3. LenWire + (k + 1) = j + 1
    BY <1>1, <2>1
  <2> QED
    BY <2>1, <2>2, <2>3
<1> DEFINE Good == {k \in 0 .. m : w * (k + 1) <= Power(Radix, LenWire + k)}
<1>3. 0 \in Good
  <2>1. LenWire + 0 = LenWire /\ w * (0 + 1) = w
    BY <1>1
  <2>2. Power(Radix, LenWire + 0) = w
    BY <1>0, <2>1 DEF LenUnit
  <2> QED
    BY <1>1, <2>1, <2>2
<1>4. \A k \in 0 .. m - 1 : k \in Good => k + 1 \in Good
  <2> TAKE k \in 0 .. m - 1
  <2> HAVE k \in Good
  <2>1. k \in Nat /\ k + 1 \in 0 .. m
    OBVIOUS
  <2>2. PICK p : p = Power(Radix, LenWire + k)
    OBVIOUS
  <2>3. PICK z : z = w * k
    OBVIOUS
  <2>4. z \in Nat /\ w * (k + 1) = z + w /\ w * ((k + 1) + 1) = z + w + w
    BY <1>1, <2>1, <2>3
  <2>5. p \in Nat /\ Power(Radix, LenWire + (k + 1)) = Radix * p
    BY <1>2, <2>1, <2>2
  <2>6. p + p <= Radix * p /\ Radix * p \in Nat
    BY <1>1, <2>5, TwiceIsLess
  <2>7. z + w <= p
    BY <2>2, <2>4
  <2>8. z + w + w <= Radix * p
    BY <1>1, <2>4, <2>5, <2>6, <2>7
  <2> QED
    BY <2>1, <2>4, <2>5, <2>8
<1>5. \A k \in 0 .. m : k \in Good
  <2> HIDE DEF Good
  <2> QED
    BY <1>3, <1>4, UpTo
<1>6. m \in 0 .. m
  OBVIOUS
<1> QED
  BY <1>0, <1>2, <1>5, <1>6

\* A length takes what it is charged for, and a byte for each unit at most.
LEMMA VarintCharged ==
  ASSUME NEW v \in Nat
  PROVE  /\ VarLen(v) \in Nat /\ v \div LenUnit \in Nat
         /\ VarLen(v) <= LenWire + (v \div LenUnit)
<1>0. PICK w : w = LenUnit
  OBVIOUS
<1>1. w \in Nat /\ w > 0 /\ LenWire \in Nat /\ LenWire > 0
  BY <1>0, UnitIs
<1>2. PICK n : n = VarLen(v)
  OBVIOUS
<1>3. n \in Nat /\ (n > 1 => v >= Power(Radix, n - 1))
  <2>1. n \in 1 .. MaxVarint /\ (n > 1 => v >= Power(Radix, n - 1))
    BY <1>2, VarLenIs
  <2>2. MaxVarint \in Nat
    BY WireAssumption
  <2> QED
    BY <2>1, <2>2
<1>4. PICK q : q = v \div w
  OBVIOUS
<1>5. q \in Nat
  BY <1>1, <1>4
<1>6. CASE n <= LenWire
  BY <1>0, <1>1, <1>2, <1>3, <1>4, <1>5, <1>6
<1>7. CASE n > LenWire
  <2>1. PICK m \in Nat : n = LenWire + m + 1
    <3>1. n - LenWire - 1 \in Nat /\ n = LenWire + (n - LenWire - 1) + 1
      BY <1>1, <1>3, <1>7
    <3> QED
      BY <3>1
  <2>2. n > 1 /\ n - 1 = LenWire + m
    BY <1>1, <2>1
  <2>3. v >= Power(Radix, LenWire + m)
    BY <1>3, <2>2
  <2>4. w * (m + 1) <= Power(Radix, LenWire + m) /\ Power(Radix, LenWire + m) \in Nat
    BY <1>0, UnitsGrow
  <2>5. m + 1 \in Nat /\ w * (m + 1) <= v
    <3>1. PICK a, b : a = w * (m + 1) /\ b = Power(Radix, LenWire + m)
      OBVIOUS
    <3>2. a \in Nat /\ b \in Nat /\ a <= b /\ b <= v
      BY <1>1, <2>3, <2>4, <3>1
    <3> QED
      BY <3>1, <3>2
  <2>6. m + 1 <= q
    BY <1>1, <1>4, <2>5, DivAtLeast
  <2> QED
    BY <1>0, <1>1, <1>2, <1>3, <1>4, <1>5, <2>1, <2>6
<1> QED
  BY <1>1, <1>3, <1>6, <1>7

-----------------------------------------------------------------------------
(* The totals of programs and of lists of blocks *)

\* The bytes of a program.
Lens(q) == [i \in DOMAIN q |-> OutLen(q[i])]

LEMMA TotalLenIsSum ==
  ASSUME NEW S, NEW q \in Seq(S), \A x \in S : OutLen(x) \in Nat
  PROVE  /\ TotalLen(q) = Sum(Lens(q)) /\ Lens(q) \in Seq(Nat) /\ Len(Lens(q)) = Len(q)
         /\ \A k \in 1 .. Len(q) : Lens(q)[k] = OutLen(q[k])
<1>1. PICK n : n \in Nat /\ n = Len(q) /\ DOMAIN q = 1 .. n
  OBVIOUS
<1>2. PICK v : v = Lens(q)
  OBVIOUS
<1>3. v \in [1 .. n -> Nat] /\ \A k \in 1 .. n : v[k] = OutLen(q[k])
  BY <1>1, <1>2, ElementOfSeq DEF Lens
<1>4. v \in Seq(Nat) /\ Len(v) = n
  BY <1>1, <1>3, SeqDef
<1>5. TotalLen(q) = Sum(v)
  BY <1>2, Zenon DEF TotalLen, Total, Lens
<1> QED
  BY <1>1, <1>2, <1>3, <1>4, <1>5

LEMMA TotalLenAppend ==
  ASSUME NEW S, NEW q \in Seq(S), \A x \in S : OutLen(x) \in Nat, NEW i \in S
  PROVE  TotalLen(Append(q, i)) = TotalLen(q) + OutLen(i) /\ TotalLen(q) \in Nat
<1>1. PICK n : n \in Nat /\ n = Len(q)
  OBVIOUS
<1>2. PICK r : r = Append(q, i)
  OBVIOUS
<1>3. /\ r \in Seq(S) /\ Len(r) = n + 1 /\ r[n + 1] = i
      /\ \A k \in 1 .. n : r[k] = q[k]
  BY <1>1, <1>2, AppendProperties
<1>4. /\ TotalLen(q) = Sum(Lens(q)) /\ Lens(q) \in Seq(Nat) /\ Len(Lens(q)) = n
      /\ \A k \in 1 .. n : Lens(q)[k] = OutLen(q[k])
  BY <1>1, TotalLenIsSum
<1>5. /\ TotalLen(r) = Sum(Lens(r)) /\ Lens(r) \in Seq(Nat) /\ Len(Lens(r)) = n + 1
      /\ \A k \in 1 .. n + 1 : Lens(r)[k] = OutLen(r[k])
  BY <1>3, TotalLenIsSum
<1>6. PICK u, x : u = Lens(q) /\ x = OutLen(i)
  OBVIOUS
<1>7. /\ u \in Seq(Nat) /\ x \in Nat /\ Append(u, x) \in Seq(Nat) /\ Len(Append(u, x)) = n + 1
      /\ Append(u, x)[n + 1] = x /\ \A k \in 1 .. n : Append(u, x)[k] = u[k]
  BY <1>4, <1>6, AppendProperties
<1>8. \A k \in 1 .. n + 1 : Lens(r)[k] = Append(u, x)[k]
  BY <1>1, <1>3, <1>4, <1>5, <1>6, <1>7
<1>9. Lens(r) = Append(u, x)
  BY <1>5, <1>7, <1>8, SeqEqual
<1>10. Sum(Append(u, x)) = Sum(u) + x /\ Sum(u) \in Nat
  BY <1>7, SumAppend
<1> QED
  BY <1>2, <1>4, <1>5, <1>6, <1>9, <1>10

LEMMA TotalLenNone == TotalLen(<<>>) = 0
<1>1. PICK q : q = <<>>
  OBVIOUS
<1>2. PICK S : S = {}
  OBVIOUS
<1>3. q \in Seq(S) /\ \A x \in S : OutLen(x) \in Nat
  BY <1>1, <1>2
<1>4. TotalLen(q) = Sum(Lens(q)) /\ Lens(q) \in Seq(Nat) /\ Len(Lens(q)) = Len(q)
  BY <1>3, TotalLenIsSum
<1>5. Lens(q) = <<>>
  BY <1>1, <1>4
<1> QED
  BY <1>1, <1>4, <1>5, SumNone

\* The cost of a program.
Costs(q) == [i \in DOMAIN q |-> InstrCost(q[i])]

LEMMA CostIsSum ==
  ASSUME NEW S, NEW q \in Seq(S), \A x \in S : InstrCost(x) \in Nat
  PROVE  /\ ProgramCost(q) = Sum(Costs(q)) /\ Costs(q) \in Seq(Nat) /\ Len(Costs(q)) = Len(q)
         /\ \A k \in 1 .. Len(q) : Costs(q)[k] = InstrCost(q[k])
<1>1. PICK n : n \in Nat /\ n = Len(q) /\ DOMAIN q = 1 .. n
  OBVIOUS
<1>2. PICK v : v = Costs(q)
  OBVIOUS
<1>3. v \in [1 .. n -> Nat] /\ \A k \in 1 .. n : v[k] = InstrCost(q[k])
  BY <1>1, <1>2, ElementOfSeq DEF Costs
<1>4. v \in Seq(Nat) /\ Len(v) = n
  BY <1>1, <1>3, SeqDef
<1>5. ProgramCost(q) = Sum(v)
  BY <1>2, Zenon DEF ProgramCost, Total, Costs
<1> QED
  BY <1>1, <1>2, <1>3, <1>4, <1>5

LEMMA CostAppend ==
  ASSUME NEW S, NEW q \in Seq(S), \A x \in S : InstrCost(x) \in Nat, NEW i \in S
  PROVE  ProgramCost(Append(q, i)) = ProgramCost(q) + InstrCost(i) /\ ProgramCost(q) \in Nat
<1>1. PICK n : n \in Nat /\ n = Len(q)
  OBVIOUS
<1>2. PICK r : r = Append(q, i)
  OBVIOUS
<1>3. /\ r \in Seq(S) /\ Len(r) = n + 1 /\ r[n + 1] = i
      /\ \A k \in 1 .. n : r[k] = q[k]
  BY <1>1, <1>2, AppendProperties
<1>4. /\ ProgramCost(q) = Sum(Costs(q)) /\ Costs(q) \in Seq(Nat) /\ Len(Costs(q)) = n
      /\ \A k \in 1 .. n : Costs(q)[k] = InstrCost(q[k])
  BY <1>1, CostIsSum
<1>5. /\ ProgramCost(r) = Sum(Costs(r)) /\ Costs(r) \in Seq(Nat) /\ Len(Costs(r)) = n + 1
      /\ \A k \in 1 .. n + 1 : Costs(r)[k] = InstrCost(r[k])
  BY <1>3, CostIsSum
<1>6. PICK u, x : u = Costs(q) /\ x = InstrCost(i)
  OBVIOUS
<1>7. /\ u \in Seq(Nat) /\ x \in Nat /\ Append(u, x) \in Seq(Nat) /\ Len(Append(u, x)) = n + 1
      /\ Append(u, x)[n + 1] = x /\ \A k \in 1 .. n : Append(u, x)[k] = u[k]
  BY <1>4, <1>6, AppendProperties
<1>8. \A k \in 1 .. n + 1 : Costs(r)[k] = Append(u, x)[k]
  BY <1>1, <1>3, <1>4, <1>5, <1>6, <1>7
<1>9. Costs(r) = Append(u, x)
  BY <1>5, <1>7, <1>8, SeqEqual
<1>10. Sum(Append(u, x)) = Sum(u) + x /\ Sum(u) \in Nat
  BY <1>7, SumAppend
<1> QED
  BY <1>2, <1>4, <1>5, <1>6, <1>9, <1>10

LEMMA CostNone == ProgramCost(<<>>) = 0
<1>1. PICK q : q = <<>>
  OBVIOUS
<1>2. PICK S : S = {}
  OBVIOUS
<1>3. q \in Seq(S) /\ \A x \in S : InstrCost(x) \in Nat
  BY <1>1, <1>2
<1>4. ProgramCost(q) = Sum(Costs(q)) /\ Costs(q) \in Seq(Nat) /\ Len(Costs(q)) = Len(q)
  BY <1>3, CostIsSum
<1>5. Costs(q) = <<>>
  BY <1>1, <1>4
<1> QED
  BY <1>1, <1>4, <1>5, SumNone

\* The bytes of a program that are literal.
LitLen(i) == IF i.op = "lit" THEN Len(i.bytes) ELSE 0
LitTotal(prog) == Total(LitLen, prog)

\* How many of its bytes each instruction brings.
LitLens(q) == [i \in DOMAIN q |-> LitLen(q[i])]

LEMMA LitIsSum ==
  ASSUME NEW S, NEW q \in Seq(S), \A x \in S : LitLen(x) \in Nat
  PROVE  /\ LitTotal(q) = Sum(LitLens(q)) /\ LitLens(q) \in Seq(Nat) /\ Len(LitLens(q)) = Len(q)
         /\ \A k \in 1 .. Len(q) : LitLens(q)[k] = LitLen(q[k])
<1>1. PICK n : n \in Nat /\ n = Len(q) /\ DOMAIN q = 1 .. n
  OBVIOUS
<1>2. PICK v : v = LitLens(q)
  OBVIOUS
<1>3. v \in [1 .. n -> Nat] /\ \A k \in 1 .. n : v[k] = LitLen(q[k])
  BY <1>1, <1>2, ElementOfSeq DEF LitLens
<1>4. v \in Seq(Nat) /\ Len(v) = n
  BY <1>1, <1>3, SeqDef
<1>5. LitTotal(q) = Sum(v)
  BY <1>2, Zenon DEF LitTotal, Total, LitLens
<1> QED
  BY <1>1, <1>2, <1>3, <1>4, <1>5

LEMMA LitAppend ==
  ASSUME NEW S, NEW q \in Seq(S), \A x \in S : LitLen(x) \in Nat, NEW i \in S
  PROVE  LitTotal(Append(q, i)) = LitTotal(q) + LitLen(i) /\ LitTotal(q) \in Nat
<1>1. PICK n : n \in Nat /\ n = Len(q)
  OBVIOUS
<1>2. PICK r : r = Append(q, i)
  OBVIOUS
<1>3. /\ r \in Seq(S) /\ Len(r) = n + 1 /\ r[n + 1] = i
      /\ \A k \in 1 .. n : r[k] = q[k]
  BY <1>1, <1>2, AppendProperties
<1>4. /\ LitTotal(q) = Sum(LitLens(q)) /\ LitLens(q) \in Seq(Nat) /\ Len(LitLens(q)) = n
      /\ \A k \in 1 .. n : LitLens(q)[k] = LitLen(q[k])
  BY <1>1, LitIsSum
<1>5. /\ LitTotal(r) = Sum(LitLens(r)) /\ LitLens(r) \in Seq(Nat) /\ Len(LitLens(r)) = n + 1
      /\ \A k \in 1 .. n + 1 : LitLens(r)[k] = LitLen(r[k])
  BY <1>3, LitIsSum
<1>6. PICK u, x : u = LitLens(q) /\ x = LitLen(i)
  OBVIOUS
<1>7. /\ u \in Seq(Nat) /\ x \in Nat /\ Append(u, x) \in Seq(Nat) /\ Len(Append(u, x)) = n + 1
      /\ Append(u, x)[n + 1] = x /\ \A k \in 1 .. n : Append(u, x)[k] = u[k]
  BY <1>4, <1>6, AppendProperties
<1>8. \A k \in 1 .. n + 1 : LitLens(r)[k] = Append(u, x)[k]
  BY <1>1, <1>3, <1>4, <1>5, <1>6, <1>7
<1>9. LitLens(r) = Append(u, x)
  BY <1>5, <1>7, <1>8, SeqEqual
<1>10. Sum(Append(u, x)) = Sum(u) + x /\ Sum(u) \in Nat
  BY <1>7, SumAppend
<1> QED
  BY <1>2, <1>4, <1>5, <1>6, <1>9, <1>10

LEMMA LitNone == LitTotal(<<>>) = 0
<1>1. PICK q : q = <<>>
  OBVIOUS
<1>2. PICK S : S = {}
  OBVIOUS
<1>3. q \in Seq(S) /\ \A x \in S : LitLen(x) \in Nat
  BY <1>1, <1>2
<1>4. LitTotal(q) = Sum(LitLens(q)) /\ LitLens(q) \in Seq(Nat) /\ Len(LitLens(q)) = Len(q)
  BY <1>3, LitIsSum
<1>5. LitLens(q) = <<>>
  BY <1>1, <1>4
<1> QED
  BY <1>1, <1>4, <1>5, SumNone

\* The cost of a list of blocks.
PushTotal(q) == Total(BlockCost, q)

\* Block by block.
BlockCosts(q) == [i \in DOMAIN q |-> BlockCost(q[i])]

LEMMA PushIsSum ==
  ASSUME NEW S, NEW q \in Seq(S), \A x \in S : BlockCost(x) \in Nat
  PROVE  /\ PushTotal(q) = Sum(BlockCosts(q)) /\ BlockCosts(q) \in Seq(Nat)
         /\ Len(BlockCosts(q)) = Len(q)
         /\ \A k \in 1 .. Len(q) : BlockCosts(q)[k] = BlockCost(q[k])
<1>1. PICK n : n \in Nat /\ n = Len(q) /\ DOMAIN q = 1 .. n
  OBVIOUS
<1>2. PICK v : v = BlockCosts(q)
  OBVIOUS
<1>3. v \in [1 .. n -> Nat] /\ \A k \in 1 .. n : v[k] = BlockCost(q[k])
  BY <1>1, <1>2, ElementOfSeq DEF BlockCosts
<1>4. v \in Seq(Nat) /\ Len(v) = n
  BY <1>1, <1>3, SeqDef
<1>5. PushTotal(q) = Sum(v)
  BY <1>2, Zenon DEF PushTotal, Total, BlockCosts
<1> QED
  BY <1>1, <1>2, <1>3, <1>4, <1>5

LEMMA PushAppend ==
  ASSUME NEW S, NEW q \in Seq(S), \A x \in S : BlockCost(x) \in Nat, NEW i \in S
  PROVE  PushTotal(Append(q, i)) = PushTotal(q) + BlockCost(i) /\ PushTotal(q) \in Nat
<1>1. PICK n : n \in Nat /\ n = Len(q)
  OBVIOUS
<1>2. PICK r : r = Append(q, i)
  OBVIOUS
<1>3. /\ r \in Seq(S) /\ Len(r) = n + 1 /\ r[n + 1] = i
      /\ \A k \in 1 .. n : r[k] = q[k]
  BY <1>1, <1>2, AppendProperties
<1>4. /\ PushTotal(q) = Sum(BlockCosts(q)) /\ BlockCosts(q) \in Seq(Nat) /\ Len(BlockCosts(q)) = n
      /\ \A k \in 1 .. n : BlockCosts(q)[k] = BlockCost(q[k])
  BY <1>1, PushIsSum
<1>5. /\ PushTotal(r) = Sum(BlockCosts(r)) /\ BlockCosts(r) \in Seq(Nat)
       /\ Len(BlockCosts(r)) = n + 1
      /\ \A k \in 1 .. n + 1 : BlockCosts(r)[k] = BlockCost(r[k])
  BY <1>3, PushIsSum
<1>6. PICK u, x : u = BlockCosts(q) /\ x = BlockCost(i)
  OBVIOUS
<1>7. /\ u \in Seq(Nat) /\ x \in Nat /\ Append(u, x) \in Seq(Nat) /\ Len(Append(u, x)) = n + 1
      /\ Append(u, x)[n + 1] = x /\ \A k \in 1 .. n : Append(u, x)[k] = u[k]
  BY <1>4, <1>6, AppendProperties
<1>8. \A k \in 1 .. n + 1 : BlockCosts(r)[k] = Append(u, x)[k]
  BY <1>1, <1>3, <1>4, <1>5, <1>6, <1>7
<1>9. BlockCosts(r) = Append(u, x)
  BY <1>5, <1>7, <1>8, SeqEqual
<1>10. Sum(Append(u, x)) = Sum(u) + x /\ Sum(u) \in Nat
  BY <1>7, SumAppend
<1> QED
  BY <1>2, <1>4, <1>5, <1>6, <1>9, <1>10

LEMMA PushNone == PushTotal(<<>>) = 0
<1>1. PICK q : q = <<>>
  OBVIOUS
<1>2. PICK S : S = {}
  OBVIOUS
<1>3. q \in Seq(S) /\ \A x \in S : BlockCost(x) \in Nat
  BY <1>1, <1>2
<1>4. PushTotal(q) = Sum(BlockCosts(q)) /\ BlockCosts(q) \in Seq(Nat)
       /\ Len(BlockCosts(q)) = Len(q)
  BY <1>3, PushIsSum
<1>5. BlockCosts(q) = <<>>
  BY <1>1, <1>4
<1> QED
  BY <1>1, <1>4, <1>5, SumNone

\* The numbers are numbers.
LEMMA InstrNumbers ==
  \A i \in Instrs : /\ OutLen(i) \in Nat /\ InstrCost(i) \in Nat /\ LitLen(i) \in Nat
                    /\ LitLen(i) <= InstrCost(i)
<1> SUFFICES ASSUME NEW i \in Instrs
             PROVE  /\ OutLen(i) \in Nat /\ InstrCost(i) \in Nat /\ LitLen(i) \in Nat
                    /\ LitLen(i) <= InstrCost(i)
  OBVIOUS
<1>0. LitHdr \in Nat /\ RefWire \in Nat
  BY WireAssumption DEF LitHdr, RefWire
<1>1. CASE i.op = "lit"
  <2>1. Len(i.bytes) \in Nat
    BY <1>1 DEF Instrs
  <2> QED
    BY <1>1, <2>1, <1>0 DEF OutLen, InstrCost, LitLen
<1>2. CASE i.op = "ref" /\ i.len \in Nat
  BY <1>2, <1>0 DEF OutLen, InstrCost, LitLen
<1> QED
  BY <1>1, <1>2 DEF Instrs

\* A program is as long as what it stands for.
LEMMA StandsTotal ==
  ASSUME NEW w \in Seq(Byte), NEW K, NEW p, NEW a, NEW b, Stands(p, w, K, a, b)
  PROVE  TotalLen(p) = b - a /\ a \in Nat
<1>1. PICK cut : /\ cut \in [0 .. Len(p) -> Nat]
                 /\ cut[0] = a /\ cut[Len(p)] = b /\ Laid(p, w, K, cut)
  BY DEF Stands
<1>2. p \in Seq(Instrs) /\ b \in 0 .. Len(w)
  BY DEF Stands
<1>3. PICK n : n \in Nat /\ n = Len(p)
  BY <1>2
<1>4. PICK v : v = Lens(p)
  OBVIOUS
<1>5. /\ TotalLen(p) = Sum(v) /\ v \in Seq(Nat) /\ Len(v) = n
      /\ \A k \in 1 .. n : v[k] = OutLen(p[k])
  BY <1>2, <1>3, <1>4, InstrNumbers, TotalLenIsSum
<1> DEFINE f == [k \in 0 .. n |-> cut[k] - a]
<1>6. \A k \in 0 .. n : cut[k] \in Nat
  BY <1>1, <1>3
<1>7. ASSUME NEW k \in 1 .. n PROVE cut[k] = cut[k - 1] + v[k]
  <2>1. PICK i, x, y : i = p[k] /\ x = cut[k - 1] /\ y = cut[k]
    OBVIOUS
  <2>2. Covers(i, w, K, x, y)
    BY <1>1, <1>3, <2>1 DEF Laid
  <2>3. x \in Nat /\ y \in x .. Len(w)
    BY <2>2 DEF Covers
  <2>4. Len(Piece(w, x, y)) = y - x
    BY <2>3, PieceLen
  <2>5. OutLen(i) = y - x
    BY <2>2, <2>4 DEF Covers, OutLen
  <2> QED
    BY <1>5, <2>1, <2>3, <2>5
<1>8. \A k \in 1 .. n : k - 1 \in 0 .. n /\ k \in 0 .. n
  BY <1>3
<1>9. f[0] = 0 /\ f[n] = b - a /\ \A k \in 1 .. n : f[k] = f[k - 1] + v[k]
  <2>1. \A k \in 1 .. n : cut[k] - a = (cut[k - 1] - a) + v[k]
    <3>1. \A k \in 1 .. n : v[k] \in Nat
      BY <1>5, ElementOfSeq
    <3>2. a \in Nat
      BY <1>1, <1>3, <1>6
    <3> QED
      BY <1>6, <1>7, <1>8, <3>1, <3>2
  <2>2. 0 \in 0 .. n /\ n \in 0 .. n /\ cut[0] = a /\ cut[n] = b /\ a \in Nat
    BY <1>1, <1>3, <1>6
  <2> QED
    BY <1>8, <2>1, <2>2
<1> HIDE DEF f
<1>10. f[n] = Sum(v)
  BY <1>5, <1>9, SumOnPath
<1>11. a \in Nat
  BY <1>1, <1>3, <1>6
<1> QED
  BY <1>5, <1>9, <1>10, <1>11

\* So a block that is one verifies, and a store takes it if it is small enough.
LEMMA BlockNumbers ==
  ASSUME NEW b, BlockOk(b), WellMade(b)
  PROVE  /\ Verifies(b) /\ BlockCost(b) \in Nat /\ b.len \in Nat
         /\ Len(b.digest.bytes) \in Nat
<1>1. b.digest.bytes \in Seq(Byte) /\ Len(b.digest.bytes) \in Nat
  BY DEF BlockOk, Digests
<1>2. CASE b.body = "bytes"
  BY <1>1, <1>2 DEF Verifies, BlockCost, WellMade
<1>3. CASE b.body = "program"
  <2>1. PICK w, p, n : w = b.digest.bytes /\ p = b.instrs /\ n = Len(b.digest.bytes)
    OBVIOUS
  <2>2. w \in Seq(Byte) /\ Stands(p, w, Leaves, 0, n) /\ n \in Nat
    BY <1>1, <1>3, <2>1 DEF BlockOk
  <2>3. TotalLen(p) = n - 0
    BY <2>2, StandsTotal
  <2>4. p \in Seq(Instrs)
    BY <2>2 DEF Stands
  <2>5. ProgramCost(p) \in Nat
    <3>1. PICK v : v = Costs(p)
      OBVIOUS
    <3>2. ProgramCost(p) = Sum(v) /\ v \in Seq(Nat)
      BY <2>4, <3>1, InstrNumbers, CostIsSum
    <3>3. Sum(Append(v, 0)) = Sum(v) + 0 /\ Sum(v) \in Nat
      BY <3>2, SumAppend
    <3> QED
      BY <3>2, <3>3
  <2> QED
    BY <1>1, <1>3, <2>1, <2>2, <2>3, <2>5 DEF Verifies, BlockCost, WellMade
<1> QED
  BY <1>2, <1>3 DEF BlockOk

\* The literal bytes are part of the cost.
LEMMA LitsCost ==
  ASSUME NEW p \in Seq(Instrs)
  PROVE  LitTotal(p) <= ProgramCost(p) /\ LitTotal(p) \in Nat /\ ProgramCost(p) \in Nat
<1>1. PICK n : n \in Nat /\ n = Len(p)
  OBVIOUS
<1>2. PICK v : v = Costs(p)
  OBVIOUS
<1>3. PICK u : u = LitLens(p)
  OBVIOUS
<1>4. /\ ProgramCost(p) = Sum(v) /\ v \in Seq(Nat) /\ Len(v) = n
      /\ \A k \in 1 .. n : v[k] = InstrCost(p[k])
  BY <1>1, <1>2, InstrNumbers, CostIsSum
<1>5. /\ LitTotal(p) = Sum(u) /\ u \in Seq(Nat) /\ Len(u) = n
      /\ \A k \in 1 .. n : u[k] = LitLen(p[k])
  BY <1>1, <1>3, InstrNumbers, LitIsSum
<1>6. \A k \in 1 .. n : u[k] <= v[k]
  BY <1>1, <1>4, <1>5, InstrNumbers, ElementOfSeq
<1>7. Sum(u) <= Sum(v)
  BY <1>4, <1>5, <1>6, SumMonotone
<1>8. Sum(u) \in Nat /\ Sum(v) \in Nat
  BY <1>4, <1>5, SumAppend
<1> QED
  BY <1>4, <1>5, <1>7, <1>8

LEMMA FrontLast ==
  ASSUME NEW S, NEW p \in Seq(S), p # <<>>
  PROVE  Front(p) \in Seq(S) /\ Last(p) \in S /\ p = Append(Front(p), Last(p))
<1>1. PICK n : n \in Nat /\ n = Len(p) /\ n >= 1
  OBVIOUS
<1>2. \A k \in 1 .. n : p[k] \in S
  BY <1>1
<1>3. \A k \in 1 .. n - 1 : p[k] \in S
  BY <1>1, <1>2
<1>4. /\ SubSeq(p, 1, n - 1) \in Seq(S)
      /\ Len(SubSeq(p, 1, n - 1)) = IF 1 <= n - 1 THEN (n - 1) - 1 + 1 ELSE 0
      /\ \A k \in 1 .. (n - 1) - 1 + 1 : SubSeq(p, 1, n - 1)[k] = p[1 + k - 1]
  BY <1>1, <1>3, SubSeqProperties
<1>5. PICK q : q = Front(p)
  OBVIOUS
<1>6. q \in Seq(S) /\ Len(q) = n - 1 /\ \A k \in 1 .. n - 1 : q[k] = p[k]
  BY <1>1, <1>4, <1>5 DEF Front
<1>7. PICK l : l = Last(p)
  OBVIOUS
<1>8. l = p[n] /\ l \in S
  BY <1>1, <1>2, <1>7 DEF Last
<1>9. /\ Append(q, l) \in Seq(S) /\ Len(Append(q, l)) = n /\ Append(q, l)[n] = l
      /\ \A k \in 1 .. n - 1 : Append(q, l)[k] = q[k]
  BY <1>1, <1>6, <1>8, AppendProperties
<1>10. \A k \in 1 .. n : Append(q, l)[k] = p[k]
  BY <1>1, <1>6, <1>8, <1>9
<1>11. Append(q, l) = p
  BY <1>1, <1>9, <1>10, SeqEqual
<1> QED
  BY <1>5, <1>6, <1>7, <1>8, <1>11

\* normalize keeps every literal byte.
LEMMA MergedLits ==
  ASSUME NEW p \in Seq(Instrs), NEW i \in Instrs
  PROVE  LitTotal(Merged(p, i)) = LitTotal(p) + LitLen(i)
<1>1. LitTotal(Append(p, i)) = LitTotal(p) + LitLen(i) /\ LitTotal(p) \in Nat
  BY InstrNumbers, LitAppend
<1>2. CASE i.op = "lit" /\ p # <<>> /\ Last(p).op = "lit"
  <2>1. PICK q : q = Front(p)
    OBVIOUS
  <2>2. PICK l : l = Last(p)
    OBVIOUS
  <2>3. q \in Seq(Instrs) /\ l \in Instrs /\ p = Append(q, l)
    BY <1>2, <2>1, <2>2, FrontLast
  <2>4. i.bytes \in Seq(Byte) /\ l.bytes \in Seq(Byte)
    BY <1>2, <2>2, <2>3 DEF Instrs
  <2>5. l.bytes \o i.bytes \in Seq(Byte) /\ Len(l.bytes \o i.bytes) = Len(l.bytes) + Len(i.bytes)
    BY <2>4
  <2>6. PICK m : m = Lit(l.bytes \o i.bytes)
    OBVIOUS
  <2>7. m \in Instrs /\ LitLen(m) = LitLen(l) + LitLen(i)
    BY <1>2, <2>2, <2>5, <2>6 DEF Lit, Instrs, LitLen
  <2>8. LitTotal(Append(q, m)) = LitTotal(q) + LitLen(m)
    BY <2>3, <2>7, InstrNumbers, LitAppend
  <2>9. LitTotal(p) = LitTotal(q) + LitLen(l) /\ LitTotal(q) \in Nat
    BY <2>3, InstrNumbers, LitAppend
  <2>10. LitLen(l) \in Nat /\ LitLen(i) \in Nat
    BY <2>3, InstrNumbers
  <2>11. Merged(p, i) = Append(q, m)
    BY <1>2, <2>1, <2>2, <2>6 DEF Merged
  <2> QED
    BY <2>7, <2>8, <2>9, <2>10, <2>11
<1>3. CASE ~(i.op = "lit" /\ p # <<>> /\ Last(p).op = "lit") /\ i.op = "lit" /\ i.bytes = <<>>
  <2>1. Merged(p, i) = p /\ LitLen(i) = 0
    BY <1>3 DEF Merged, LitLen
  <2> QED
    BY <1>1, <2>1
<1>4. CASE /\ ~(i.op = "lit" /\ p # <<>> /\ Last(p).op = "lit")
           /\ ~(i.op = "lit" /\ i.bytes = <<>>)
  <2>1. i.op \in {"lit", "ref"}
    BY DEF Instrs
  <2>2. Merged(p, i) = Append(p, i)
    BY <1>4, <2>1 DEF Merged
  <2> QED
    BY <1>1, <2>2
<1> QED
  BY <1>2, <1>3, <1>4

LEMMA NormalizeLits ==
  ASSUME NEW p \in Seq(Instrs)
  PROVE  LitTotal(Normalize(p)) = LitTotal(p)
<1>1. PICK n : n \in Nat /\ n = Len(p)
  OBVIOUS
<1>2. PICK h : /\ h \in [0 .. n -> Seq(Instrs)] /\ h[0] = <<>> /\ h[n] = Normalize(p)
               /\ \A k \in 1 .. n : h[k] = Merged(h[k - 1], p[k])
  BY <1>1, NormalizePath
<1>3. PICK u : u = LitLens(p)
  OBVIOUS
<1>4. /\ LitTotal(p) = Sum(u) /\ u \in Seq(Nat) /\ Len(u) = n
      /\ \A k \in 1 .. n : u[k] = LitLen(p[k])
  BY <1>1, <1>3, InstrNumbers, LitIsSum
<1> DEFINE f == [k \in 0 .. n |-> LitTotal(h[k])]
<1>5. ASSUME NEW k \in 1 .. n PROVE LitTotal(h[k]) = LitTotal(h[k - 1]) + u[k]
  <2>1. PICK q : q = h[k - 1]
    OBVIOUS
  <2>2. PICK i : i = p[k]
    OBVIOUS
  <2>3. q \in Seq(Instrs) /\ i \in Instrs
    BY <1>1, <1>2, <2>1, <2>2, ElementOfSeq
  <2>4. LitTotal(Merged(q, i)) = LitTotal(q) + LitLen(i)
    BY <2>3, MergedLits
  <2> QED
    BY <1>2, <1>4, <2>1, <2>2, <2>4
<1>6. f[0] = 0 /\ f[n] = LitTotal(Normalize(p)) /\ \A k \in 1 .. n : f[k] = f[k - 1] + u[k]
  <2>1. 0 \in 0 .. n /\ n \in 0 .. n /\ \A k \in 1 .. n : k - 1 \in 0 .. n /\ k \in 0 .. n
    BY <1>1
  <2>2. LitTotal(h[0]) = 0
    BY <1>2, LitNone
  <2> QED
    BY <1>2, <1>5, <2>1, <2>2
<1> HIDE DEF f
<1>7. f[n] = Sum(u)
  BY <1>4, <1>6, SumOnPath
<1> QED
  BY <1>4, <1>6, <1>7

-----------------------------------------------------------------------------
(* The books of the Builder *)

\* The numbers of a builder that has counted the reference of a span of o bytes already.
Booked(b, o) ==
  /\ b.lit_bytes = LitTotal(b.instrs) /\ b.push_bytes = PushTotal(b.push)
  /\ b.ref_covered \in Nat /\ b.lit_bytes + b.ref_covered = b.pos + o

Opening(o) == IF o = Closed THEN 0 ELSE Size(o.cand)

Books == /\ Booked(builder, Opening(open))
         /\ action = "split" => ~Inflates(builder, builder.instrs)

\* A block at work is none that is closed.
LEMMA NotClosed == \A o : \A c \in Spots(doc, Kinds, policy) : o.cand = c => o # Closed
<1> SUFFICES ASSUME NEW c \in Spots(doc, Kinds, policy), NEW o, o.cand = c, o = Closed
             PROVE  FALSE
  OBVIOUS
<1>1. Closed.cand = [start |-> 0, end |-> 0]
  BY DEF Closed
<1>2. "kind" \in DOMAIN c /\ "kind" \notin DOMAIN [start |-> 0, end |-> 0]
  BY DEF Spots
<1> QED
  BY <1>1, <1>2

\* lit counts its bytes.
LEMMA LiteralBooks ==
  ASSUME IInv, NEW b, Fields \subseteq DOMAIN b, b.instrs \in Seq(Instrs), b.pos \in Nat,
         NEW to \in 0 .. Len(doc.bytes), NEW o, Booked(b, o), o \in Nat
  PROVE  Booked(Literal(b, to), o)
<1>1. doc.bytes \in Seq(Byte) /\ Len(doc.bytes) \in Nat
  BY DocBytes
<1>2. CASE to <= b.pos
  BY <1>2 DEF Literal
<1>3. CASE ~(to <= b.pos)
  <2>1. PICK w, x : w = doc.bytes /\ x = b.pos
    OBVIOUS
  <2>2. w \in Seq(Byte) /\ x \in Nat /\ to \in x .. Len(w) /\ to \in Nat
    BY <1>1, <1>3, <2>1
  <2>3. Piece(w, x, to) \in Seq(Byte) /\ Len(Piece(w, x, to)) = to - x
    BY <2>2, PieceLen
  <2>4. PICK l : l = Lit(Slice(b.pos, to))
    OBVIOUS
  <2>5. l \in Instrs /\ LitLen(l) = to - x
    BY <2>1, <2>3, <2>4 DEF Lit, Slice, Piece, Instrs, LitLen
  <2>6. LitTotal(Append(b.instrs, l)) = LitTotal(b.instrs) + (to - x) /\ LitTotal(b.instrs) \in Nat
    BY <2>5, InstrNumbers, LitAppend
  <2>7. PICK r : r = Literal(b, to)
    OBVIOUS
  <2>8. /\ r.instrs = Append(b.instrs, l) /\ r.push = b.push /\ r.pos = to
        /\ r.lit_bytes = b.lit_bytes + to - b.pos /\ r.push_bytes = b.push_bytes
        /\ r.ref_covered = b.ref_covered
    BY <1>3, <2>4, <2>7 DEF Literal, Fields
  <2>9. r.lit_bytes = LitTotal(r.instrs)
    BY <2>1, <2>2, <2>6, <2>8 DEF Booked
  <2>10. r.lit_bytes + r.ref_covered = r.pos + o
    <3>1. PICK y, z : y = b.lit_bytes /\ z = b.ref_covered
      OBVIOUS
    <3>2. y \in Nat /\ z \in Nat /\ x \in Nat /\ to \in Nat /\ o \in Nat /\ y + z = x + o
      BY <2>1, <2>2, <2>6, <3>1 DEF Booked
    <3>3. r.lit_bytes = y + to - x /\ r.ref_covered = z /\ r.pos = to
      BY <2>1, <2>8, <3>1
    <3> QED
      BY <3>2, <3>3
  <2>11. r.push_bytes = PushTotal(r.push) /\ r.ref_covered \in Nat
    BY <2>8 DEF Booked
  <2>12. Booked(r, o)
    BY <2>9, <2>10, <2>11 DEF Booked
  <2> QED
    BY <2>7, <2>12
<1> QED
  BY <1>2, <1>3

\* reference counts the span that it refers to.
LEMMA CountedBooks ==
  ASSUME IInv, Fields \subseteq DOMAIN builder, NEW c \in Spots(doc, Kinds, policy),
         builder.pos <= c.start, Stands(builder.instrs, doc.bytes, Kinds, 0, builder.pos),
         Booked(builder, 0)
  PROVE  Booked(Counted(c), Size(c))
<1>1. c.start \in 0 .. Len(doc.bytes) /\ Size(c) \in Nat
  BY DEF Spots, Size
<1>2. builder.instrs \in Seq(Instrs) /\ builder.pos \in Nat
  BY DocBytes DEF Stands
<1>3. PICK l : l = Literal(builder, c.start)
  OBVIOUS
<1>4. Booked(l, 0)
  BY <1>1, <1>2, <1>3, LiteralBooks
<1>5. /\ Fields \subseteq DOMAIN l /\ l.pos = c.start
      /\ Stands(l.instrs, doc.bytes, Kinds, 0, c.start)
  BY <1>1, <1>3, LiteralStands
<1>6. LitTotal(l.instrs) \in Nat /\ l.pos \in Nat
  BY <1>1, <1>5, LitsCost DEF Stands
<1>7. PICK r : r = Counted(c)
  OBVIOUS
<1>8. /\ r.instrs = l.instrs /\ r.push = l.push /\ r.pos = l.pos /\ r.lit_bytes = l.lit_bytes
      /\ r.push_bytes = l.push_bytes /\ r.ref_covered = l.ref_covered + Size(c)
  BY <1>3, <1>5, <1>7 DEF Counted, Fields
<1>9. r.ref_covered \in Nat /\ r.lit_bytes + r.ref_covered = r.pos + Size(c)
  BY <1>1, <1>4, <1>6, <1>8 DEF Booked
<1> QED
  BY <1>4, <1>7, <1>8, <1>9 DEF Booked

\* queue counts the cost of a block once.
LEMMA QueueBooks ==
  ASSUME NEW b, NEW blk, Fields \subseteq DOMAIN b, BlockList(b.push), ListOk(b.push),
         BlockOk(blk), WellMade(blk), NEW o, Booked(b, o)
  PROVE  Booked(Queue(b, blk), o)
<1>1. CASE blk.digest \in Queued(b)
  BY <1>1 DEF Queue
<1>2. CASE blk.digest \notin Queued(b)
  <2>1. PICK q, S : q = b.push /\ S = ToSet(b.push) \cup {blk}
    OBVIOUS
  <2>2. q \in Seq(S)
    <3>1. PICK T : q \in Seq(T)
      BY <2>1 DEF BlockList
    <3>2. \A k \in 1 .. Len(q) : q[k] \in S
      BY <2>1, <3>1 DEF ToSet
    <3> QED
      BY <3>1, <3>2, SeqDef
  <2>3. \A x \in S : BlockCost(x) \in Nat
    BY <2>1, BlockNumbers DEF BlockList, ListOk
  <2>4. PushTotal(Append(q, blk)) = PushTotal(q) + BlockCost(blk)
    BY <2>1, <2>2, <2>3, PushAppend
  <2>5. PICK r : r = Queue(b, blk)
    OBVIOUS
  <2>6. /\ r.instrs = b.instrs /\ r.push = Append(q, blk) /\ r.pos = b.pos
        /\ r.lit_bytes = b.lit_bytes /\ r.ref_covered = b.ref_covered
        /\ r.push_bytes = b.push_bytes + BlockCost(blk)
    BY <1>2, <2>1, <2>5 DEF Queue, Fields
  <2> QED
    BY <2>1, <2>4, <2>5, <2>6 DEF Booked
<1> QED
  BY <1>1, <1>2

\* The reference goes in, and brings no literal byte.
LEMMA ReferBooks ==
  ASSUME IInv, NEW b, Fields \subseteq DOMAIN b, NEW c \in Spots(doc, Kinds, policy),
         b.instrs \in Seq(Instrs), b.pos = c.start, Booked(b, Size(c))
  PROVE  Booked(Refer(b, c), 0)
<1>1. PICK i : i = Ref(DigestAt(c), Size(c))
  OBVIOUS
<1>2. i \in Instrs /\ LitLen(i) = 0
  BY <1>1, RefCovers DEF LitLen, Ref
<1>3. LitTotal(Append(b.instrs, i)) = LitTotal(b.instrs) + 0 /\ LitTotal(b.instrs) \in Nat
  BY <1>2, InstrNumbers, LitAppend
<1>4. c.start \in Nat /\ c.end \in Nat /\ Size(c) = c.end - c.start
  BY DEF Spots, Size
<1>5. PICK r : r = Refer(b, c)
  OBVIOUS
<1>6. /\ r.instrs = Append(b.instrs, i) /\ r.push = b.push /\ r.pos = c.end
      /\ r.lit_bytes = b.lit_bytes /\ r.ref_covered = b.ref_covered
      /\ r.push_bytes = b.push_bytes
  BY <1>1, <1>5 DEF Refer, Fields
<1>7. r.lit_bytes + r.ref_covered = r.pos + 0
  BY <1>3, <1>4, <1>6 DEF Booked
<1> QED
  BY <1>3, <1>5, <1>6, <1>7 DEF Booked

\* Only these numbers matter.
LEMMA SameBooks ==
  ASSUME NEW a, NEW b, NEW o, Booked(b, o), a.instrs = b.instrs, a.push = b.push,
         a.pos = b.pos, a.lit_bytes = b.lit_bytes, a.push_bytes = b.push_bytes,
         a.ref_covered = b.ref_covered
  PROVE  Booked(a, o)
BY DEF Booked

\* The builder in the middle of a split, with its books.
LEMMA BooksSoFar ==
  ASSUME IInv, EInv, Books, action = "splitting"
  PROVE  /\ Fields \subseteq DOMAIN builder /\ builder.instrs \in Seq(Instrs)
         /\ Stands(builder.instrs, doc.bytes, Kinds, 0, builder.pos)
         /\ BlockList(builder.push) /\ ListOk(builder.push) /\ builder.pos \in Nat
         /\ Len(doc.bytes) \in Nat
         /\ Booked(builder, Opening(open)) /\ (open = Closed => Booked(builder, 0))
<1>1. doc.bytes \in Seq(Byte) /\ Len(doc.bytes) \in Nat
  BY DocBytes
<1> QED
  BY <1>1, SoFar DEF EInv, Building, Stands, Books, Opening, BlocksOk

LEMMA BooksAfresh ==
  ASSUME builder' = NewBuilder, open' = Closed, action' # "split"
  PROVE  Books'
<1>1. /\ NewBuilder.push = <<>> /\ NewBuilder.instrs = <<>> /\ NewBuilder.lit_bytes = 0
      /\ NewBuilder.push_bytes = 0 /\ NewBuilder.ref_covered = 0 /\ NewBuilder.pos = 0
  BY DEF NewBuilder
<1>2. PushTotal(NewBuilder.push) = 0 /\ LitTotal(NewBuilder.instrs) = 0
  BY <1>1, PushNone, LitNone
<1>3. Booked(NewBuilder, 0)
  BY <1>1, <1>2 DEF Booked
<1>4. Opening(open') = 0
  BY DEF Opening
<1> QED
  BY <1>3, <1>4 DEF Books

LEMMA BooksReference == ASSUME IInv, EInv, Books, Reference PROVE Books'
<1> DEFINE c == Head(groups).cand
           d == DigestAt(c)
<1>1. action = "splitting" /\ action' = action /\ doc' = doc /\ open = Closed /\ groups # <<>>
  BY DEF Reference
<1>2. /\ Fields \subseteq DOMAIN builder /\ Booked(builder, 0)
      /\ Stands(builder.instrs, doc.bytes, Kinds, 0, builder.pos)
      /\ BlockList(builder.push) /\ ListOk(builder.push)
  BY <1>1, BooksSoFar
<1>3. PICK m, e : m = c /\ e = d
  OBVIOUS
<1>4. groups \in Seq(GroupsOf(doc, policy))
  BY <1>1 DEF EInv, Building
<1>5. m \in Spots(doc, Kinds, policy)
  BY <1>1, <1>3, <1>4, HeadGroup
<1>6. e \in Digests /\ e = DigestAt(m)
  BY <1>3, <1>5, RefCovers
<1>7. CASE UNCHANGED <<builder, open>>
  BY <1>1, <1>7 DEF Books
<1>8. ASSUME ~(UNCHANGED <<builder, open>>) PROVE Books'
  <2>1. builder.pos <= m.start
    BY <1>3, <1>8 DEF Reference
  <2>2. PICK b : b = Counted(m)
    OBVIOUS
  <2>3. /\ Fields \subseteq DOMAIN b /\ b.push = builder.push /\ b.pos = m.start
        /\ Stands(b.instrs, doc.bytes, Kinds, 0, m.start) /\ Booked(b, Size(m))
    BY <1>2, <1>5, <2>1, <2>2, CountedStands, CountedBooks
  <2>4. b.instrs \in Seq(Instrs)
    BY <2>3 DEF Stands
  <2>5. CASE builder' = Refer(b, m) /\ open' = open
    <3>1. Booked(builder', 0) /\ Opening(open') = 0
      BY <1>1, <1>5, <2>3, <2>4, <2>5, ReferBooks DEF Opening
    <3> QED
      BY <1>1, <3>1 DEF Books
  <2>6. CASE builder' = Refer(Queue(b, Raw(e)), m) /\ open' = open
    <3>1. PICK q, k : q = Queue(b, Raw(e)) /\ k = Raw(e)
      OBVIOUS
    <3>2. BlockOk(k) /\ WellMade(k)
      BY <1>6, <3>1, RawOk, Made
    <3>3. Booked(q, Size(m))
      BY <1>2, <2>3, <3>1, <3>2, QueueBooks
    <3>4. /\ Fields \subseteq DOMAIN q /\ q.instrs = b.instrs /\ q.pos = b.pos
      BY <1>2, <2>3, <3>1, <3>2, QueueOk
    <3>5. Booked(builder', 0) /\ Opening(open') = 0
      BY <1>1, <1>5, <2>3, <2>4, <2>6, <3>1, <3>3, <3>4, ReferBooks DEF Opening
    <3> QED
      BY <1>1, <3>5 DEF Books
  <2>7. CASE /\ builder' = b
             /\ open' = [cand |-> m, instrs |-> <<>>, kids |-> Head(groups).kids,
                         pos |-> m.start]
    <3>1. open' # Closed /\ open'.cand = m
      BY <1>5, <2>7, NotClosed
    <3>2. Opening(open') = Size(m)
      BY <3>1 DEF Opening
    <3> QED
      BY <1>1, <2>3, <2>7, <3>2 DEF Books
  <2> QED
    BY <1>3, <1>8, <2>2, <2>5, <2>6, <2>7 DEF Reference
<1> QED
  BY <1>7, <1>8

LEMMA BooksNest == ASSUME IInv, EInv, Books, Nest PROVE Books'
<1> DEFINE ch   == Head(open.kids)
           d    == DigestAt(ch)
           once == [builder EXCEPT !.refs = @ + 1]
<1>1. action = "splitting" /\ action' = action /\ open.kids # <<>>
  BY DEF Nest
<1>2. open # Closed
  BY <1>1, NothingOpen
<1>3. open \in Opens
  BY <1>2 DEF EInv, Opened
<1>4. /\ Fields \subseteq DOMAIN builder /\ Booked(builder, Opening(open))
      /\ BlockList(builder.push) /\ ListOk(builder.push)
  BY <1>1, BooksSoFar
<1>5. open.cand \in Members(doc, policy) /\ open.kids \in Seq(Spots(doc, Leaves, policy))
  BY <1>3 DEF Opens
<1>6. open.cand \in Spots(doc, Kinds, policy)
  BY <1>5, SpotsOfKinds DEF Members
<1>7. open'.cand = open.cand
  <2>1. CASE open' = [open EXCEPT !.kids = Tail(@)]
    BY <1>3, <2>1 DEF Opens
  <2>2. CASE ~(open' = [open EXCEPT !.kids = Tail(@)])
    <3>1. \E x, y : open' = [open EXCEPT !.kids = Tail(@), !.pos = x, !.instrs = y]
      BY <2>2, Zenon DEF Nest
    <3> QED
      BY <1>3, <3>1 DEF Opens
  <2> QED
    BY <2>1, <2>2
<1>8. Opening(open') = Opening(open)
  BY <1>2, <1>6, <1>7, NotClosed DEF Opening
<1>9. PICK o, e : o = once /\ e = d
  OBVIOUS
<1>10. e \in Digests
  <2>1. ch \in Spots(doc, Leaves, policy) /\ Leaves \subseteq Kinds
    BY <1>1, <1>5, HeadTailProperties DEF Kinds
  <2> QED
    BY <1>9, <2>1, RefCovers
<1>11. /\ Fields \subseteq DOMAIN o /\ o.push = builder.push /\ Booked(o, Opening(open))
  <2>1. /\ Fields \subseteq DOMAIN o /\ o.push = builder.push /\ o.instrs = builder.instrs
        /\ o.pos = builder.pos /\ o.lit_bytes = builder.lit_bytes
        /\ o.push_bytes = builder.push_bytes /\ o.ref_covered = builder.ref_covered
    BY <1>4, <1>9 DEF Fields
  <2> QED
    BY <1>4, <2>1, SameBooks
<1>12. Booked(builder', Opening(open))
  <2>1. CASE builder' = builder \/ builder' = o
    BY <1>4, <1>11, <2>1
  <2>2. CASE builder' = Queue(o, Raw(e))
    <3>1. BlockOk(Raw(e)) /\ WellMade(Raw(e))
      BY <1>10, RawOk, Made
    <3> QED
      BY <1>4, <1>11, <2>2, <3>1, QueueBooks
  <2> HIDE DEF once, d
  <2> QED
    BY <1>9, <2>1, <2>2 DEF Nest, once, d
<1> QED
  BY <1>1, <1>8, <1>12 DEF Books

LEMMA BooksClose == ASSUME IInv, EInv, Books, CloseBlock PROVE Books'
<1>1. /\ action = "splitting" /\ action' = action /\ open # Closed /\ open' = Closed
      /\ doc' = doc /\ policy' = policy
  BY DEF CloseBlock
<1>2. /\ Fields \subseteq DOMAIN builder /\ Booked(builder, Opening(open))
      /\ BlockList(builder.push) /\ ListOk(builder.push) /\ builder.instrs \in Seq(Instrs)
  BY <1>1, BooksSoFar
<1>3. open \in Opens /\ builder.pos = open.cand.start
  BY <1>1 DEF EInv, Opened
<1>4. open.cand \in Spots(doc, Kinds, policy)
  BY <1>3, SpotsOfKinds DEF Opens, Members
<1>5. PICK k, q : /\ BlockOk(k) /\ WellMade(k) /\ q = Queue(builder, k)
                  /\ builder' = Refer(q, open.cand)
  BY CloseBlockMakes
<1>6. /\ Fields \subseteq DOMAIN q /\ q.instrs = builder.instrs /\ q.pos = builder.pos
      /\ Booked(q, Size(open.cand))
  BY <1>1, <1>2, <1>5, QueueOk, QueueBooks DEF Opening
<1>7. Booked(builder', 0) /\ Opening(open') = 0
  BY <1>1, <1>2, <1>3, <1>4, <1>5, <1>6, ReferBooks DEF Opening
<1> QED
  BY <1>1, <1>7 DEF Books

LEMMA BooksFinish == ASSUME IInv, EInv, Books, Finish PROVE Books'
<1>1. PICK b : b = Literal(builder, Len(doc.bytes))
  OBVIOUS
<1>2. PICK p : p = Normalize(b.instrs)
  OBVIOUS
<1>3. /\ action = "splitting" /\ open = Closed /\ open' = open /\ doc' = doc
      /\ builder' = [b EXCEPT !.instrs = p]
      /\ action' = "split" => ~Inflates(b, p)
  BY <1>1, <1>2 DEF Finish
<1>4. /\ Fields \subseteq DOMAIN builder /\ Booked(builder, 0)
      /\ builder.instrs \in Seq(Instrs) /\ builder.pos \in Nat
      /\ Stands(builder.instrs, doc.bytes, Kinds, 0, builder.pos)
      /\ Len(doc.bytes) \in Nat
  BY <1>3, BooksSoFar
<1>5. Len(doc.bytes) \in 0 .. Len(doc.bytes) /\ builder.pos <= Len(doc.bytes)
  BY <1>4 DEF Stands
<1>6. Booked(b, 0)
  BY <1>1, <1>4, <1>5, LiteralBooks
<1>7. Fields \subseteq DOMAIN b /\ b.instrs \in Seq(Instrs)
  BY <1>1, <1>4, <1>5, LiteralStands DEF Stands
<1>8. /\ builder'.instrs = p /\ builder'.push = b.push /\ builder'.pos = b.pos
      /\ builder'.lit_bytes = b.lit_bytes /\ builder'.push_bytes = b.push_bytes
      /\ builder'.ref_covered = b.ref_covered
  BY <1>3, <1>7 DEF Fields
<1>9. LitTotal(p) = LitTotal(b.instrs)
  BY <1>2, <1>7, NormalizeLits
<1>10. Booked(builder', 0) /\ Opening(open') = 0
  BY <1>3, <1>6, <1>8, <1>9 DEF Booked, Opening
<1>11. PICK r : r = builder'
  OBVIOUS
<1>12. Wire(r, p) = Wire(b, p)
  <2>1. r.lit_bytes = b.lit_bytes /\ r.push_bytes = b.push_bytes
    BY <1>8, <1>11
  <2> QED
    BY <2>1 DEF Wire
<1>13. ASSUME action' = "split" PROVE ~Inflates(builder, builder.instrs)'
  <2>1. ~Inflates(r, p)
    BY <1>3, <1>12, <1>13 DEF Inflates, Slack
  <2>2. ~Inflates(builder', builder'.instrs)
    BY <1>8, <1>11, <2>1
  <2> QED
    BY <1>3, <2>2 DEF Inflates, Slack, Wire
<1> QED
  BY <1>10, <1>13 DEF Books

LEMMA BooksHold == Spec => []Books
<1>1. Init => Books
  <2> SUFFICES ASSUME Init PROVE Books
    OBVIOUS
  <2>1. /\ NewBuilder.push = <<>> /\ NewBuilder.instrs = <<>> /\ NewBuilder.lit_bytes = 0
        /\ NewBuilder.push_bytes = 0 /\ NewBuilder.ref_covered = 0 /\ NewBuilder.pos = 0
    BY DEF NewBuilder
  <2>2. PushTotal(NewBuilder.push) = 0 /\ LitTotal(NewBuilder.instrs) = 0
    BY <2>1, PushNone, LitNone
  <2> QED
    BY <2>1, <2>2 DEF Init, Books, Booked, Opening
<1>2. IInv /\ EInv /\ Books /\ [Next]_vars => Books'
  <2> SUFFICES ASSUME IInv, EInv, Books, [Next]_vars PROVE Books'
    OBVIOUS
  <2>1. CASE UNCHANGED split
    <3>1. UNCHANGED <<builder, open, action, doc>>
      BY <2>1 DEF split
    <3> QED
      BY <3>1 DEF Books, Inflates, Slack, Wire
  <2>2. CASE Splits
    <3>1. ASSUME Split(doc) PROVE Books'
      BY <3>1, BooksAfresh DEF Split
    <3> QED
      BY <2>2, <3>1, BooksReference, BooksNest, BooksClose, BooksFinish DEF Splits
  <2>3. CASE NextTurn
    BY <2>3, BooksAfresh DEF NextTurn
  <2>4. CASE ~(Splits \/ NextTurn)
    <3>1. UNCHANGED split
      BY <2>4 DEF Next, Upload, SendWhole, Resend, FailThenWhole, Arrive, Rebuild, Resolve,
                  RemoteEvicts, LocalEvicts, ViewErrs, ViewForgets, Event, Done, vars
    <3> QED
      BY <2>1, <3>1
  <2> QED
    BY <2>2, <2>3, <2>4
<1> QED
  BY <1>1, <1>2, IInvHolds, EInvHolds, PTL DEF Spec

-----------------------------------------------------------------------------
(* What is encoded, and what was estimated *)

\* The encoded instructions of a program.
InstrTotal(q) == Total(InstrSize, q)
Sizes(q) == [i \in DOMAIN q |-> InstrSize(q[i])]

LEMMA SizeIsSum ==
  ASSUME NEW S, NEW q \in Seq(S), \A x \in S : InstrSize(x) \in Nat
  PROVE  /\ InstrTotal(q) = Sum(Sizes(q)) /\ Sizes(q) \in Seq(Nat) /\ Len(Sizes(q)) = Len(q)
         /\ \A k \in 1 .. Len(q) : Sizes(q)[k] = InstrSize(q[k])
<1>1. PICK n : n \in Nat /\ n = Len(q) /\ DOMAIN q = 1 .. n
  OBVIOUS
<1>2. PICK v : v = Sizes(q)
  OBVIOUS
<1>3. v \in [1 .. n -> Nat] /\ \A k \in 1 .. n : v[k] = InstrSize(q[k])
  BY <1>1, <1>2, ElementOfSeq DEF Sizes
<1>4. v \in Seq(Nat) /\ Len(v) = n
  BY <1>1, <1>3, SeqDef
<1>5. InstrTotal(q) = Sum(v)
  BY <1>2, Zenon DEF InstrTotal, Total, Sizes
<1> QED
  BY <1>1, <1>2, <1>3, <1>4, <1>5

\* The encoded blocks, their heads, and the units of their lengths.
BlockTotal(q) == Total(BlockSize, q)
BlockSizes(q) == [i \in DOMAIN q |-> BlockSize(q[i])]

LEMMA BlockIsSum ==
  ASSUME NEW S, NEW q \in Seq(S), \A x \in S : BlockSize(x) \in Nat
  PROVE  /\ BlockTotal(q) = Sum(BlockSizes(q)) /\ BlockSizes(q) \in Seq(Nat)
         /\ Len(BlockSizes(q)) = Len(q)
         /\ \A k \in 1 .. Len(q) : BlockSizes(q)[k] = BlockSize(q[k])
<1>1. PICK n : n \in Nat /\ n = Len(q) /\ DOMAIN q = 1 .. n
  OBVIOUS
<1>2. PICK v : v = BlockSizes(q)
  OBVIOUS
<1>3. v \in [1 .. n -> Nat] /\ \A k \in 1 .. n : v[k] = BlockSize(q[k])
  BY <1>1, <1>2, ElementOfSeq DEF BlockSizes
<1>4. v \in Seq(Nat) /\ Len(v) = n
  BY <1>1, <1>3, SeqDef
<1>5. BlockTotal(q) = Sum(v)
  BY <1>2, Zenon DEF BlockTotal, Total, BlockSizes
<1> QED
  BY <1>1, <1>2, <1>3, <1>4, <1>5

HeadTotal(q) == Total(HeadSize, q)
HeadSizes(q) == [i \in DOMAIN q |-> HeadSize(q[i])]

LEMMA HeadIsSum ==
  ASSUME NEW S, NEW q \in Seq(S), \A x \in S : HeadSize(x) \in Nat
  PROVE  /\ HeadTotal(q) = Sum(HeadSizes(q)) /\ HeadSizes(q) \in Seq(Nat)
         /\ Len(HeadSizes(q)) = Len(q)
         /\ \A k \in 1 .. Len(q) : HeadSizes(q)[k] = HeadSize(q[k])
<1>1. PICK n : n \in Nat /\ n = Len(q) /\ DOMAIN q = 1 .. n
  OBVIOUS
<1>2. PICK v : v = HeadSizes(q)
  OBVIOUS
<1>3. v \in [1 .. n -> Nat] /\ \A k \in 1 .. n : v[k] = HeadSize(q[k])
  BY <1>1, <1>2, ElementOfSeq DEF HeadSizes
<1>4. v \in Seq(Nat) /\ Len(v) = n
  BY <1>1, <1>3, SeqDef
<1>5. HeadTotal(q) = Sum(v)
  BY <1>2, Zenon DEF HeadTotal, Total, HeadSizes
<1> QED
  BY <1>1, <1>2, <1>3, <1>4, <1>5

LongTotal(q) == Total(Long, q)
Longs(q) == [i \in DOMAIN q |-> Long(q[i])]

LEMMA LongIsSum ==
  ASSUME NEW S, NEW q \in Seq(S), \A x \in S : Long(x) \in Nat
  PROVE  /\ LongTotal(q) = Sum(Longs(q)) /\ Longs(q) \in Seq(Nat) /\ Len(Longs(q)) = Len(q)
         /\ \A k \in 1 .. Len(q) : Longs(q)[k] = Long(q[k])
<1>1. PICK n : n \in Nat /\ n = Len(q) /\ DOMAIN q = 1 .. n
  OBVIOUS
<1>2. PICK v : v = Longs(q)
  OBVIOUS
<1>3. v \in [1 .. n -> Nat] /\ \A k \in 1 .. n : v[k] = Long(q[k])
  BY <1>1, <1>2, ElementOfSeq DEF Longs
<1>4. v \in Seq(Nat) /\ Len(v) = n
  BY <1>1, <1>3, SeqDef
<1>5. LongTotal(q) = Sum(v)
  BY <1>2, Zenon DEF LongTotal, Total, Longs
<1> QED
  BY <1>1, <1>2, <1>3, <1>4, <1>5

LEMMA SumsOfLess ==
  ASSUME NEW a \in Nat, NEW b \in Nat, NEW x \in Nat, NEW y \in Nat, NEW r \in Nat, NEW s \in Nat,
         NEW t \in Nat, a <= b + r, x <= y + s, r + s <= t
  PROVE  a + x <= (b + y) + t
OBVIOUS

LEMMA TagAndLength ==
  ASSUME NEW n \in Nat, NEW l \in Nat, NEW q \in Nat, NEW w \in Nat, n <= w + q
  PROVE  1 + n + l \in Nat /\ 1 + n + l <= (l + (1 + w)) + q
OBVIOUS

\* An encoded instruction is what it was estimated at, and a byte for each unit at most.
LEMMA InstrCharged ==
  \A i \in Instrs : /\ InstrSize(i) \in Nat /\ OutLen(i) \div LenUnit \in Nat
                    /\ InstrSize(i) <= InstrCost(i) + (OutLen(i) \div LenUnit)
<1> SUFFICES ASSUME NEW i \in Instrs
             PROVE  /\ InstrSize(i) \in Nat /\ OutLen(i) \div LenUnit \in Nat
                    /\ InstrSize(i) <= InstrCost(i) + (OutLen(i) \div LenUnit)
  OBVIOUS
<1>1. DigestLen \in Nat /\ LenWire \in Nat
  BY WireAssumption
<1>2. PICK v \in Nat : v = OutLen(i)
  BY InstrNumbers
<1>3. PICK n, q : n = VarLen(v) /\ q = v \div LenUnit
  OBVIOUS
<1>4. n \in Nat /\ q \in Nat /\ n <= LenWire + q
  BY <1>3, VarintCharged
<1>5. CASE i.op = "lit"
  <2>1. PICK l \in Nat : l = Len(i.bytes)
    BY <1>5 DEF Instrs
  <2>2. InstrSize(i) = 1 + n + l
    BY <1>2, <1>3, <1>5, <2>1, Zenon DEF InstrSize
  <2>3. InstrCost(i) = l + (1 + LenWire)
    BY <1>5, <2>1, Zenon DEF InstrCost, LitHdr
  <2>4. 1 + n + l \in Nat /\ 1 + n + l <= (l + (1 + LenWire)) + q
    BY <1>1, <1>4, TagAndLength
  <2> QED
    BY <1>2, <1>3, <1>4, <2>2, <2>3, <2>4
<1>6. CASE i.op = "ref"
  <2>1. InstrSize(i) = 1 + n + DigestLen
    BY <1>2, <1>3, <1>6 DEF InstrSize
  <2>2. InstrCost(i) = 1 + DigestLen + LenWire
    BY <1>6 DEF InstrCost, RefWire
  <2>3. 1 + n + DigestLen \in Nat /\ 1 + n + DigestLen <= (1 + DigestLen + LenWire) + q
    BY <1>1, <1>4
  <2> QED
    BY <1>2, <1>3, <1>4, <2>1, <2>2, <2>3
<1> QED
  BY <1>5, <1>6 DEF Instrs

\* So are the instructions of a program.
LEMMA ProgramCharged ==
  ASSUME NEW p \in Seq(Instrs)
  PROVE  /\ InstrTotal(p) \in Nat /\ ProgramCost(p) \in Nat /\ TotalLen(p) \in Nat
         /\ TotalLen(p) \div LenUnit \in Nat
         /\ InstrTotal(p) <= ProgramCost(p) + (TotalLen(p) \div LenUnit)
<1>0. PICK w : w = LenUnit
  OBVIOUS
<1>1. w \in Nat /\ w > 0
  BY <1>0, UnitIs
<1>2. PICK n \in Nat : n = Len(p)
  OBVIOUS
<1>3. PICK u : u = Sizes(p)
  OBVIOUS
<1>4. PICK c : c = Costs(p)
  OBVIOUS
<1>5. PICK l : l = Lens(p)
  OBVIOUS
<1>6. /\ InstrTotal(p) = Sum(u) /\ u \in Seq(Nat) /\ Len(u) = n
      /\ \A k \in 1 .. n : u[k] = InstrSize(p[k])
  BY <1>2, <1>3, InstrCharged, SizeIsSum
<1>7. /\ ProgramCost(p) = Sum(c) /\ c \in Seq(Nat) /\ Len(c) = n
      /\ \A k \in 1 .. n : c[k] = InstrCost(p[k])
  BY <1>2, <1>4, InstrNumbers, CostIsSum
<1>8. /\ TotalLen(p) = Sum(l) /\ l \in Seq(Nat) /\ Len(l) = n
      /\ \A k \in 1 .. n : l[k] = OutLen(p[k])
  BY <1>2, <1>5, InstrNumbers, TotalLenIsSum
<1>9. PICK f : /\ f \in [0 .. n -> Nat] /\ f[0] = 0 /\ f[n] = Sum(u)
               /\ \A k \in 1 .. n : f[k] = f[k - 1] + u[k]
  BY <1>6, SumPath
<1>10. PICK g : /\ g \in [0 .. n -> Nat] /\ g[0] = 0 /\ g[n] = Sum(c)
                /\ \A k \in 1 .. n : g[k] = g[k - 1] + c[k]
  BY <1>7, SumPath
<1>11. PICK h : /\ h \in [0 .. n -> Nat] /\ h[0] = 0 /\ h[n] = Sum(l)
                /\ \A k \in 1 .. n : h[k] = h[k - 1] + l[k]
  BY <1>8, SumPath
<1>12. ASSUME NEW k \in 1 .. n
       PROVE  /\ u[k] \in Nat /\ c[k] \in Nat /\ l[k] \in Nat /\ l[k] \div w \in Nat
              /\ u[k] <= c[k] + (l[k] \div w)
  <2>1. PICK i \in Instrs : i = p[k]
    BY <1>2, ElementOfSeq
  <2>2. u[k] = InstrSize(i) /\ c[k] = InstrCost(i) /\ l[k] = OutLen(i)
    BY <1>6, <1>7, <1>8, <2>1
  <2> QED
    BY <1>0, <2>2, InstrNumbers, InstrCharged
<1> DEFINE Good == {k \in 0 .. n : f[k] <= g[k] + (h[k] \div w)}
<1>13. 0 \in Good
  <2>1. 0 \div w \in Nat
    BY <1>1
  <2> QED
    BY <1>9, <1>10, <1>11, <2>1
<1>14. ASSUME NEW k \in 0 .. n - 1, k \in Good PROVE k + 1 \in Good
  <2>1. k + 1 \in 1 .. n /\ (k + 1) - 1 = k /\ k \in 0 .. n /\ k + 1 \in 0 .. n
    OBVIOUS
  <2>2. PICK a, b, d : a = f[k] /\ b = g[k] /\ d = h[k]
    OBVIOUS
  <2>3. a \in Nat /\ b \in Nat /\ d \in Nat /\ a <= b + (d \div w)
    BY <1>9, <1>10, <1>11, <1>14, <2>1, <2>2
  <2>4. PICK x, y, z : x = u[k + 1] /\ y = c[k + 1] /\ z = l[k + 1]
    OBVIOUS
  <2>5. x \in Nat /\ y \in Nat /\ z \in Nat /\ x <= y + (z \div w)
    BY <1>12, <2>1, <2>4
  <2>6. f[k + 1] = a + x /\ g[k + 1] = b + y /\ h[k + 1] = d + z
    BY <1>9, <1>10, <1>11, <2>1, <2>2, <2>4
  <2>7. PICK r, s, t : r = d \div w /\ s = z \div w /\ t = (d + z) \div w
    OBVIOUS
  <2>8. r \in Nat /\ s \in Nat /\ t \in Nat /\ r + s <= t
    BY <1>1, <2>3, <2>5, <2>7, DivSum
  <2>9. a <= b + r /\ x <= y + s
    BY <2>3, <2>5, <2>7, Zenon
  <2>10. a + x <= (b + y) + t
    BY <2>3, <2>5, <2>8, <2>9, SumsOfLess
  <2> QED
    BY <2>1, <2>6, <2>7, <2>10
<1>15. \A k \in 0 .. n : k \in Good
  <2> HIDE DEF Good
  <2> QED
    BY <1>13, <1>14, UpTo
<1>16. f[n] <= g[n] + (h[n] \div w) /\ f[n] \in Nat /\ g[n] \in Nat /\ h[n] \in Nat
  <2>1. n \in 0 .. n
    OBVIOUS
  <2> QED
    BY <1>9, <1>10, <1>11, <1>15, <2>1
<1>17. h[n] \div w \in Nat
  BY <1>1, <1>16
<1> QED
  BY <1>0, <1>6, <1>7, <1>8, <1>9, <1>10, <1>11, <1>16, <1>17

\* And so is a block, but for its head.
LEMMA BlockCharged ==
  ASSUME NEW b, BlockOk(b), WellMade(b)
  PROVE  /\ BlockSize(b) \in Nat /\ BlockCost(b) \in Nat /\ HeadSize(b) \in Nat /\ Long(b) \in Nat
         /\ BlockSize(b) <= HeadSize(b) + BlockCost(b) + Long(b)
<1>1. Verifies(b) /\ BlockCost(b) \in Nat /\ b.len \in Nat
  BY BlockNumbers
<1>2. PICK n : n = b.len
  OBVIOUS
<1>3. PICK m : m = VarLen(n)
  OBVIOUS
<1>4. PICK q : q = n \div LenUnit
  OBVIOUS
<1>5. n \in Nat /\ m \in Nat /\ q \in Nat
  BY <1>1, <1>2, <1>3, <1>4, VarintCharged
<1>6. Long(b) = q
  BY <1>2, <1>4 DEF Long
<1>7. DigestLen \in Nat
  BY WireAssumption
<1>8. CASE b.body = "bytes"
  <2>1. HeadSize(b) = DigestLen + 1 + m + 0
    BY <1>2, <1>3, <1>8 DEF HeadSize
  <2>2. PICK h \in Nat : h = HeadSize(b)
    BY <1>5, <1>7, <2>1
  <2>3. BlockSize(b) = h + n /\ BlockCost(b) = n
    BY <1>2, <1>8, <2>2 DEF BlockSize, BlockCost
  <2> QED
    BY <1>5, <1>6, <2>2, <2>3
<1>9. CASE b.body = "program"
  <2>1. PICK p : p = b.instrs
    OBVIOUS
  <2>2. p \in Seq(Instrs)
    BY <1>9, <2>1 DEF BlockOk, Stands
  <2>3. PICK c \in Nat : c = VarLen(Len(p))
    <3>1. Len(p) \in Nat
      BY <2>2
    <3> QED
      BY <3>1, VarintCharged
  <2>4. HeadSize(b) = DigestLen + 1 + m + (1 + c)
    BY <1>2, <1>3, <1>9, <2>1, <2>3 DEF HeadSize
  <2>5. PICK h \in Nat : h = HeadSize(b)
    BY <1>5, <1>7, <2>3, <2>4
  <2>6. TotalLen(p) = n
    BY <1>1, <1>2, <1>9, <2>1 DEF Verifies
  <2>7. InstrTotal(p) \in Nat /\ ProgramCost(p) \in Nat /\ InstrTotal(p) <= ProgramCost(p) + q
    BY <1>4, <2>2, <2>6, ProgramCharged
  <2>8. BlockSize(b) = h + InstrTotal(p)
    BY <1>9, <2>1, <2>5 DEF BlockSize, InstrTotal
  <2>9. BlockCost(b) = ProgramCost(p)
    BY <1>9, <2>1 DEF BlockCost
  <2> QED
    BY <1>5, <1>6, <2>5, <2>7, <2>8, <2>9
<1> QED
  BY <1>8, <1>9 DEF BlockOk

\* And so are the queued blocks.
LEMMA PushCharged ==
  ASSUME NEW q, BlockList(q), ListOk(q)
  PROVE  /\ BlockTotal(q) \in Nat /\ HeadTotal(q) \in Nat /\ PushTotal(q) \in Nat
         /\ LongTotal(q) \in Nat
         /\ BlockTotal(q) <= HeadTotal(q) + PushTotal(q) + LongTotal(q)
<1>1. PICK S : S = ToSet(q)
  OBVIOUS
<1>2. q \in Seq(S)
  <2>1. PICK T : q \in Seq(T)
    BY DEF BlockList
  <2>2. \A k \in 1 .. Len(q) : q[k] \in S
    BY <1>1, <2>1 DEF ToSet
  <2> QED
    BY <2>1, <2>2, SeqDef
<1>3. \A b \in S : /\ BlockSize(b) \in Nat /\ BlockCost(b) \in Nat /\ HeadSize(b) \in Nat
                   /\ Long(b) \in Nat
                   /\ BlockSize(b) <= HeadSize(b) + BlockCost(b) + Long(b)
  BY <1>1, BlockCharged DEF BlockList, ListOk
<1>4. PICK n \in Nat : n = Len(q)
  BY <1>2
<1>5. PICK u : u = BlockSizes(q)
  OBVIOUS
<1>6. PICK v : v = HeadSizes(q)
  OBVIOUS
<1>7. PICK c : c = BlockCosts(q)
  OBVIOUS
<1>8. PICK l : l = Longs(q)
  OBVIOUS
<1>9. /\ BlockTotal(q) = Sum(u) /\ u \in Seq(Nat) /\ Len(u) = n
      /\ \A k \in 1 .. n : u[k] = BlockSize(q[k])
  BY <1>2, <1>3, <1>4, <1>5, BlockIsSum
<1>10. /\ HeadTotal(q) = Sum(v) /\ v \in Seq(Nat) /\ Len(v) = n
       /\ \A k \in 1 .. n : v[k] = HeadSize(q[k])
  BY <1>2, <1>3, <1>4, <1>6, HeadIsSum
<1>11. /\ PushTotal(q) = Sum(c) /\ c \in Seq(Nat) /\ Len(c) = n
       /\ \A k \in 1 .. n : c[k] = BlockCost(q[k])
  BY <1>2, <1>3, <1>4, <1>7, PushIsSum
<1>12. /\ LongTotal(q) = Sum(l) /\ l \in Seq(Nat) /\ Len(l) = n
       /\ \A k \in 1 .. n : l[k] = Long(q[k])
  BY <1>2, <1>3, <1>4, <1>8, LongIsSum
<1>13. PICK f : /\ f \in [0 .. n -> Nat] /\ f[0] = 0 /\ f[n] = Sum(u)
                /\ \A k \in 1 .. n : f[k] = f[k - 1] + u[k]
  BY <1>9, SumPath
<1>14. PICK e : /\ e \in [0 .. n -> Nat] /\ e[0] = 0 /\ e[n] = Sum(v)
                /\ \A k \in 1 .. n : e[k] = e[k - 1] + v[k]
  BY <1>10, SumPath
<1>15. PICK g : /\ g \in [0 .. n -> Nat] /\ g[0] = 0 /\ g[n] = Sum(c)
                /\ \A k \in 1 .. n : g[k] = g[k - 1] + c[k]
  BY <1>11, SumPath
<1>16. PICK h : /\ h \in [0 .. n -> Nat] /\ h[0] = 0 /\ h[n] = Sum(l)
                /\ \A k \in 1 .. n : h[k] = h[k - 1] + l[k]
  BY <1>12, SumPath
<1>17. ASSUME NEW k \in 1 .. n
       PROVE  /\ u[k] \in Nat /\ v[k] \in Nat /\ c[k] \in Nat /\ l[k] \in Nat
              /\ u[k] <= v[k] + c[k] + l[k]
  <2>1. PICK b \in S : b = q[k]
    BY <1>2, <1>4, ElementOfSeq
  <2>2. u[k] = BlockSize(b) /\ v[k] = HeadSize(b) /\ c[k] = BlockCost(b) /\ l[k] = Long(b)
    BY <1>9, <1>10, <1>11, <1>12, <2>1
  <2> QED
    BY <1>3, <2>2
<1> DEFINE Good == {k \in 0 .. n : f[k] <= e[k] + g[k] + h[k]}
<1>18. 0 \in Good
  BY <1>13, <1>14, <1>15, <1>16
<1>19. ASSUME NEW k \in 0 .. n - 1, k \in Good PROVE k + 1 \in Good
  <2>1. k + 1 \in 1 .. n /\ (k + 1) - 1 = k /\ k \in 0 .. n /\ k + 1 \in 0 .. n
    OBVIOUS
  <2>2. PICK a, b, d, o : a = f[k] /\ b = e[k] /\ d = g[k] /\ o = h[k]
    OBVIOUS
  <2>3. a \in Nat /\ b \in Nat /\ d \in Nat /\ o \in Nat /\ a <= b + d + o
    BY <1>13, <1>14, <1>15, <1>16, <1>19, <2>1, <2>2
  <2>4. PICK w, x, y, z : w = u[k + 1] /\ x = v[k + 1] /\ y = c[k + 1] /\ z = l[k + 1]
    OBVIOUS
  <2>5. w \in Nat /\ x \in Nat /\ y \in Nat /\ z \in Nat /\ w <= x + y + z
    BY <1>17, <2>1, <2>4
  <2>6. /\ f[k + 1] = a + w /\ e[k + 1] = b + x
        /\ g[k + 1] = d + y /\ h[k + 1] = o + z
    BY <1>13, <1>14, <1>15, <1>16, <2>1, <2>2, <2>4
  <2>7. a + w <= (b + x) + (d + y) + (o + z)
    BY <2>3, <2>5
  <2> QED
    BY <2>1, <2>6, <2>7
<1>20. \A k \in 0 .. n : k \in Good
  <2> HIDE DEF Good
  <2> QED
    BY <1>18, <1>19, UpTo
<1>21. f[n] <= e[n] + g[n] + h[n]
  <2>1. n \in 0 .. n
    OBVIOUS
  <2> QED
    BY <1>20, <2>1
<1>22. f[n] \in Nat /\ e[n] \in Nat /\ g[n] \in Nat /\ h[n] \in Nat
  <2>1. n \in 0 .. n
    OBVIOUS
  <2> QED
    BY <1>13, <1>14, <1>15, <1>16, <2>1
<1> QED
  BY <1>9, <1>10, <1>11, <1>12, <1>13, <1>14, <1>15, <1>16, <1>21, <1>22

\* The size that a split is judged by is the cost of the program and of every queued block
\* once (SplitStats::wire_bytes).
LEMMA WireIs ==
  ASSUME IInv, EInv, Books, NEW p, p = builder.instrs, NEW q, q = builder.push
  PROVE  Wire(builder, p) = ProgramCost(p) + PushTotal(q)
<1>1. p \in Seq(Instrs)
  BY DEF EInv, Building, Stands
<1>2. LitTotal(p) <= ProgramCost(p) /\ LitTotal(p) \in Nat /\ ProgramCost(p) \in Nat
  BY <1>1, LitsCost
<1>3. builder.lit_bytes = LitTotal(p) /\ builder.push_bytes = PushTotal(q)
  BY DEF Books, Booked
<1>4. BlockList(q) /\ ListOk(q)
  BY DEF IInv, BuilderSound, EInv, BlocksOk
<1>5. PushTotal(q) \in Nat
  BY <1>4, PushCharged
<1> QED
  BY <1>2, <1>3, <1>5 DEF Wire

\* What goes out for a split, once encoded, is no larger than the body and the slack, but for
\* the count of the program, the heads of the pushed blocks, and a byte for each unit of a
\* length: the bound policy.rs:125 checks on its estimate, carried over to what codec.rs writes.
THEOREM SizesAreHonest == Spec => []WireHonest
<1>1. IInv /\ EInv /\ Books => WireHonest
  <2> SUFFICES ASSUME IInv, EInv, Books, action = "split"
               PROVE  UploadSize(builder)
                        <= Len(doc.bytes) + Slack + VarLen(Len(builder.instrs))
                             + Total(HeadSize, builder.push)
                             + Len(doc.bytes) \div LenUnit + Total(Long, builder.push)
    BY DEF WireHonest
  <2>1. PICK p : p = builder.instrs
    OBVIOUS
  <2>2. PICK q : q = builder.push
    OBVIOUS
  <2>3. PICK n : n = Len(doc.bytes)
    OBVIOUS
  <2>4. n \in Nat /\ doc.bytes \in Seq(Byte)
    BY <2>3, DocBytes
  <2>5. Stands(p, doc.bytes, Kinds, 0, n)
    BY <2>1, <2>3 DEF EInv, Building
  <2>6. p \in Seq(Instrs)
    BY <2>5 DEF Stands
  <2>7. TotalLen(p) = n
    <3>1. TotalLen(p) = n - 0
      BY <2>4, <2>5, StandsTotal
    <3> QED
      BY <2>4, <3>1
  <2>8. PICK a, c, d : a = InstrTotal(p) /\ c = ProgramCost(p) /\ d = n \div LenUnit
    OBVIOUS
  <2>9. a \in Nat /\ c \in Nat /\ d \in Nat /\ a <= c + d
    BY <2>6, <2>7, <2>8, ProgramCharged
  <2>10. BlockList(q) /\ ListOk(q)
    BY <2>2 DEF IInv, BuilderSound, EInv, BlocksOk
  <2>11. PICK e, f, g, h : e = BlockTotal(q) /\ f = HeadTotal(q) /\ g = PushTotal(q)
                           /\ h = LongTotal(q)
    OBVIOUS
  <2>12. e \in Nat /\ f \in Nat /\ g \in Nat /\ h \in Nat /\ e <= f + g + h
    BY <2>10, <2>11, PushCharged
  <2>13. PICK s : s = Slack
    OBVIOUS
  <2>14. Wire(builder, p) = c + g
    BY <2>1, <2>2, <2>8, <2>11, WireIs
  <2>15. ~ (c + g > n + s)
    BY <2>1, <2>3, <2>13, <2>14 DEF Books, Inflates
  <2>16. PICK m : m = VarLen(Len(p))
    OBVIOUS
  <2>17. m \in Nat
    <3>1. Len(p) \in Nat
      BY <2>6
    <3> QED
      BY <2>16, <3>1, VarintCharged
  <2>18. UploadSize(builder) = (m + a) + e
    BY <2>1, <2>2, <2>8, <2>11, <2>16, Zenon DEF UploadSize, ProgramSize, InstrTotal, BlockTotal
  <2>19. Total(HeadSize, builder.push) = f /\ Total(Long, builder.push) = h
    BY <2>2, <2>11, Zenon DEF HeadTotal, LongTotal
  <2>20. s \in Int
    <3>1. PICK r : r = n \div 16
      OBVIOUS
    <3>2. r \in Int /\ MinSlack \in Int
      BY <2>4, <3>1, PolicyAssumption
    <3>3. s = IF r > MinSlack THEN r ELSE MinSlack
      BY <2>3, <2>13, <3>1 DEF Slack
    <3> QED
      BY <3>2, <3>3
  <2>21. (m + a) + e <= n + s + m + f + d + h
    BY <2>4, <2>9, <2>12, <2>15, <2>17, <2>20
  <2> QED
    BY <2>1, <2>3, <2>8, <2>13, <2>16, <2>18, <2>19, <2>21
<1> QED
  BY <1>1, IInvHolds, EInvHolds, BooksHold, PTL

-----------------------------------------------------------------------------
(* As long as nothing unforeseen has happened *)

\* No store takes it; the remote end has no need of it; nor will it have.
Big(d)  == Len(d.bytes) > policy.max_block
Here(d) == d \in DOMAIN remote \/ Big(d)
Soon(d) == Here(d) \/ d \in Coming

\* What a block on its way references is here, or comes before it.
InTurn(q) ==
  \A i \in DOMAIN q :
    Storable(q[i]) /\ q[i].body = "program" =>
      \A e \in RefsOf(q[i].instrs) :
        Here(e) \/ \E j \in 1 .. i - 1 : q[j].digest = e /\ Storable(q[j])

\* The view is right, the remote store is closed under reference, and so is what is on its
\* way to it.
View    == \A d \in sent \cup bloom \cup trusted : Soon(d)
Stocked == \A d \in DOMAIN remote :
             remote[d].body = "program" => \A e \in RefsOf(remote[d].instrs) : Here(e)
Noted   == stage \in {"arriving", "need", "resolving"} => Queued(builder) \subseteq sent
OnStack == stage = "resolving" =>
             \A x \in ToSet(stack) : \A d \in RefOf(x.instr) : Here(d)
InVain  == (\A d \in asked : Big(d)) /\ (stage = "need" => need \subseteq asked)
Calm    == View /\ Stocked /\ InTurn(uplink) /\ Noted /\ OnStack /\ InVain

Emptied == stage # "arriving" => uplink = <<>>
QInv    == Emptied /\ (events = MaxEvents => Calm)

LEMMA Limits == IInv => policy.max_block \in Nat
BY PolicyAssumption DEF IInv, TypeOK

\* A store takes a block or it is too large for one, and not both.
LEMMA FitsOrBig ==
  ASSUME IInv, NEW b, BlockOk(b), WellMade(b)
  PROVE  Storable(b) <=> ~Big(b.digest)
<1>1. Verifies(b) /\ b.len \in Nat /\ b.len = Len(b.digest.bytes)
  BY BlockNumbers DEF WellMade
<1>2. policy.max_block \in Nat
  BY Limits
<1> QED
  BY <1>1, <1>2 DEF Storable, Big

\* Nothing is on its way.
LEMMA NoneComing == uplink = <<>> => Coming = {} /\ \A d : Soon(d) => Here(d)
BY DEF Coming, ToSet, Soon

LEMMA NoneInTurn == InTurn(<<>>)
BY DEF InTurn

\* What is here stays here while the remote store only grows.
LEMMA StaysHere ==
  ASSUME DOMAIN remote \subseteq DOMAIN remote', policy' = policy
  PROVE  /\ \A d : Big(d)' <=> Big(d)
         /\ \A d : Here(d) => Here(d)'
         /\ \A b : Storable(b)' <=> Storable(b)
BY DEF Big, Here, Storable

\* Steps that change neither the remote store nor what is on its way.
LEMMA SameView ==
  ASSUME UNCHANGED <<remote, policy, uplink>>
  PROVE  /\ \A d : Soon(d)' <=> Soon(d)
         /\ \A d : Here(d)' <=> Here(d)
         /\ \A d : Big(d)' <=> Big(d)
         /\ Stocked' <=> Stocked
         /\ InTurn(uplink)' <=> InTurn(uplink)
BY DEF Soon, Here, Big, Coming, Storable, Stocked, InTurn

\* A split trusts what is in the view only.
LEMMA CalmSplits == ASSUME IInv, Calm, Splits PROVE Calm'
<1>1. /\ UNCHANGED <<remote, policy, uplink, sent, bloom, stage, asked>> /\ stage = "split"
  BY DEF Splits, Split, Reference, Nest, CloseBlock, Finish, rebuild
<1>2. trusted' \subseteq trusted \cup sent \cup bloom
  BY DEF Splits, Split, Reference, Nest, CloseBlock, Finish, PeerHas
<1>3. View'
  BY <1>1, <1>2, SameView DEF Calm, View
<1>4. Stocked' /\ InTurn(uplink)'
  BY <1>1, SameView DEF Calm
<1>5. Noted' /\ OnStack'
  BY <1>1 DEF Noted, OnStack
<1>6. InVain'
  BY <1>1, SameView DEF Calm, InVain
<1> QED
  BY <1>3, <1>4, <1>5, <1>6 DEF Calm

\* Upload: what is noted as sent is on its way, in its order.
LEMMA CalmUpload == ASSUME IInv, EInv, CInv, QInv, Calm, Upload PROVE Calm'
<1>1. /\ UNCHANGED <<remote, policy, bloom, asked, builder, trusted>> /\ stage = "split"
      /\ stage' = "arriving" /\ uplink' = builder.push /\ sent' = sent \cup Queued(builder)
      /\ uplink = <<>>
  BY DEF Upload, split, QInv, Emptied
<1>2. \A b \in ToSet(builder.push) : Storable(b) <=> ~Big(b.digest)
  BY FitsOrBig DEF IInv, BuilderSound, BlockList, EInv, BlocksOk, ListOk
<1>3. \A d \in sent \cup bloom \cup trusted : Here(d)
  BY <1>1, NoneComing DEF Calm, View
<1>4. /\ \A d : Big(d)' <=> Big(d)
      /\ \A d : Here(d)' <=> Here(d)
      /\ \A b : Storable(b)' <=> Storable(b)
  BY <1>1 DEF Big, Here, Storable
<1>5. Coming' = {b.digest : b \in {k \in ToSet(builder.push) : Storable(k)}}
  BY <1>1 DEF Coming, Storable
<1>6. \A d \in Queued(builder) : Soon(d)'
  BY <1>2, <1>4, <1>5 DEF Queued, Soon, Here
<1>7. View'
  BY <1>1, <1>3, <1>4, <1>6 DEF View, Soon
<1>8. PICK q : q = builder.push
  OBVIOUS
<1>9. InTurn(uplink)'
  <2> SUFFICES ASSUME NEW i \in DOMAIN q, q[i].body = "program", NEW e \in RefsOf(q[i].instrs)
               PROVE  Here(e)' \/ \E j \in 1 .. i - 1 : q[j].digest = e /\ Storable(q[j])'
    BY <1>1, <1>8 DEF InTurn
  <2>1. e \in trusted \cup {q[j].digest : j \in 1 .. i - 1}
    BY <1>8 DEF CInv, PushCovered
  <2>2. CASE e \in trusted
    BY <1>3, <1>4, <2>2
  <2>3. ASSUME NEW j \in 1 .. i - 1, e = q[j].digest
        PROVE  Here(e) \/ Storable(q[j])
    <3>1. q[j] \in ToSet(q)
      <4>1. PICK S : q \in Seq(S)
        BY <1>8 DEF IInv, BuilderSound, BlockList
      <4>2. j \in DOMAIN q
        BY <4>1
      <4> QED
        BY <4>2 DEF ToSet
    <3> QED
      BY <1>2, <1>8, <2>3, <3>1 DEF Here
  <2> QED
    BY <1>4, <2>1, <2>2, <2>3
<1>10. Stocked' /\ InVain'
  BY <1>1, <1>4 DEF Calm, Stocked, InVain
<1>11. Noted' /\ OnStack'
  BY <1>1 DEF Noted, OnStack, Queued
<1> QED
  BY <1>7, <1>9, <1>10, <1>11 DEF Calm

LEMMA CalmWhole == ASSUME IInv, QInv, Calm, SendWhole \/ FailThenWhole PROVE Calm'
<1>1. /\ UNCHANGED <<remote, policy, uplink, bloom, asked, trusted>> /\ sent' \subseteq sent
      /\ stage' = "answered"
  BY DEF SendWhole, FailThenWhole, split
<1>2. View'
  BY <1>1, SameView DEF Calm, View
<1>3. Stocked' /\ InTurn(uplink)'
  BY <1>1, SameView DEF Calm
<1>4. Noted' /\ OnStack'
  BY <1>1 DEF Noted, OnStack
<1>5. InVain'
  BY <1>1, SameView DEF Calm, InVain
<1> QED
  BY <1>2, <1>3, <1>4, <1>5 DEF Calm

\* Resend: what was asked for is too large for the local store too.
LEMMA CalmResend == ASSUME IInv, EInv, QInv, Calm, Resend PROVE Calm'
<1>1. /\ UNCHANGED <<remote, policy, bloom, asked, trusted, builder, sent, local>>
      /\ stage = "need" /\ stage' = "arriving"
      /\ LET order == SetToSeq(need \cap DOMAIN local) IN
           uplink' = [i \in DOMAIN order |-> local[order[i]]]
  BY DEF Resend, split
<1>2. need \cap DOMAIN local = {}
  <2> SUFFICES ASSUME NEW d \in need, d \in DOMAIN local PROVE FALSE
    OBVIOUS
  <2>1. Big(d)
    BY <1>1 DEF Calm, InVain
  <2>2. Storable(local[d]) /\ WellMade(local[d]) /\ local[d].digest = d
    BY DEF IInv, StoreSound
  <2>3. Big(local[d].digest) /\ BlockOk(local[d])
    BY <2>1, <2>2 DEF EInv, BlocksOk, AllOk
  <2> QED
    BY <2>2, <2>3, FitsOrBig
<1>3. uplink' = <<>>
  <2>1. IsFiniteSet({})
    BY FS_EmptySet
  <2>2. PICK order : order = SetToSeq(need \cap DOMAIN local)
    OBVIOUS
  <2>3. order \in Seq({})
    BY <1>2, <2>1, <2>2, OrderOf
  <2>4. DOMAIN order = {}
    BY <2>3
  <2>5. uplink' = [i \in {} |-> local[order[i]]]
    BY <1>1, <2>2, <2>4
  <2> QED
    BY <2>5
<1>4. uplink = <<>>
  BY <1>1 DEF QInv, Emptied
<1>5. UNCHANGED <<remote, policy, uplink>>
  BY <1>1, <1>3, <1>4
<1>6. View' /\ Stocked' /\ InTurn(uplink)'
  BY <1>1, <1>5, SameView DEF Calm, View
<1>7. Noted' /\ OnStack'
  BY <1>1 DEF Calm, Noted, OnStack, Queued
<1>8. InVain'
  BY <1>1, <1>5, SameView DEF Calm, InVain
<1> QED
  BY <1>6, <1>7, <1>8 DEF Calm

\* Arrive: the first of what is on its way finds what it references.
LEMMA CalmArrive == ASSUME IInv, EInv, Calm, Arrive PROVE Calm'
<1>1. /\ UNCHANGED <<policy, bloom, asked, need, trusted, builder, sent, stage, stack>>
      /\ stage = "arriving" /\ uplink # <<>> /\ uplink' = Tail(uplink)
      /\ remote' = Inserted(remote, Head(uplink))
  BY DEF Arrive, split
<1>2. PICK h, q : h = Head(uplink) /\ q = uplink
  OBVIOUS
<1>3. /\ ToSet(uplink) = ToSet(Tail(uplink)) \cup {h} /\ BlockList(uplink)
  BY <1>1, <1>2, TailBlock DEF IInv
<1>4. PICK S : q \in Seq(S)
  BY <1>2, <1>3 DEF BlockList
<1>5. PICK n : n \in Nat /\ n = Len(q) /\ n >= 1
  BY <1>1, <1>2, <1>4
<1>6. /\ h = q[1] /\ DOMAIN q = 1 .. n /\ DOMAIN Tail(q) = 1 .. n - 1
      /\ \A i \in 1 .. n - 1 : Tail(q)[i] = q[i + 1]
  BY <1>2, <1>4, <1>5, HeadTailProperties
<1>7. /\ DOMAIN remote \subseteq DOMAIN remote'
      /\ Storable(h) => h.digest \in DOMAIN remote'
      /\ \A d \in DOMAIN remote' :
           \/ d \in DOMAIN remote /\ remote'[d] = remote[d]
           \/ remote'[d] = h /\ Storable(h)
  BY <1>1, <1>2 DEF Inserted
<1>8. /\ \A d : Big(d)' <=> Big(d)
      /\ \A d : Here(d) => Here(d)'
      /\ \A b : Storable(b)' <=> Storable(b)
  BY <1>1, <1>7, StaysHere
<1>9. \A d : Soon(d) => Soon(d)'
  <2>1. Coming \subseteq Coming' \cup DOMAIN remote'
    BY <1>1, <1>3, <1>7 DEF Coming, Storable
  <2> QED
    BY <1>8, <2>1 DEF Soon, Here
<1>10. View'
  BY <1>1, <1>9 DEF Calm, View
<1>11. Stocked'
  <2>1. ASSUME Storable(h), h.body = "program", NEW e \in RefsOf(h.instrs)
        PROVE  Here(e)
    <3>1. 1 \in DOMAIN q /\ q[1] = h
      BY <1>5, <1>6
    <3>2. Here(e) \/ \E j \in 1 .. 1 - 1 : q[j].digest = e /\ Storable(q[j])
      BY <1>2, <2>1, <3>1 DEF Calm, InTurn
    <3> QED
      BY <3>2
  <2>2. ASSUME NEW d \in DOMAIN remote', remote'[d].body = "program",
               NEW e \in RefsOf(remote'[d].instrs)
        PROVE  Here(e)
    BY <1>7, <2>1, <2>2 DEF Calm, Stocked
  <2> QED
    BY <1>8, <2>2 DEF Stocked
<1>12. InTurn(uplink)'
  <2>10. PICK r : r = Tail(q)
    OBVIOUS
  <2>11. uplink' = r /\ DOMAIN r = 1 .. n - 1 /\ policy' = policy
    BY <1>1, <1>2, <1>6, <2>10
  <2> SUFFICES ASSUME NEW i \in 1 .. n - 1, Storable(r[i]), r[i].body = "program",
                      NEW e \in RefsOf(r[i].instrs)
               PROVE  Here(e)' \/ \E j \in 1 .. i - 1 : r[j].digest = e /\ Storable(r[j])
    BY <2>11 DEF InTurn, Storable
  <2>1. r[i] = q[i + 1] /\ i + 1 \in DOMAIN q
    BY <1>5, <1>6, <2>10
  <2>2. Here(e) \/ \E j \in 1 .. (i + 1) - 1 : q[j].digest = e /\ Storable(q[j])
    BY <1>2, <2>1 DEF Calm, InTurn
  <2>3. CASE Here(e)
    BY <1>8, <2>3
  <2>4. ASSUME NEW j \in 1 .. (i + 1) - 1, q[j].digest = e, Storable(q[j])
        PROVE  Here(e)' \/ \E k \in 1 .. i - 1 : r[k].digest = e /\ Storable(r[k])
    <3>1. CASE j = 1
      BY <1>6, <1>7, <2>4, <3>1 DEF Here
    <3>2. CASE j # 1
      <4>1. j - 1 \in 1 .. i - 1 /\ j - 1 \in 1 .. n - 1 /\ (j - 1) + 1 = j
        BY <1>5, <3>2
      <4>2. r[j - 1] = q[j]
        BY <1>6, <2>10, <4>1
      <4> QED
        BY <2>4, <4>1, <4>2
    <3> QED
      BY <3>1, <3>2
  <2> QED
    BY <2>2, <2>3, <2>4
<1>13. Noted' /\ OnStack'
  BY <1>1 DEF Calm, Noted, OnStack, Queued
<1>14. InVain'
  BY <1>1, <1>8 DEF Calm, InVain
<1> QED
  BY <1>10, <1>11, <1>12, <1>13, <1>14 DEF Calm

\* Asking, when everything else is as before.
LEMMA CalmAsk ==
  ASSUME Calm, uplink = <<>>, NEW ds, Ask(ds), \A d \in ds : Big(d),
         UNCHANGED <<remote, policy, uplink, sent, bloom, trusted, builder>>,
         stage \in {"arriving", "resolving"}
  PROVE  Calm'
<1>1. View' /\ Stocked' /\ InTurn(uplink)'
  BY SameView DEF Calm, View
<1>2. stage' \in {"need", "unrebuildable"}
  BY DEF Ask
<1>3. Noted' /\ OnStack'
  BY <1>2 DEF Calm, Noted, OnStack, Queued
<1>4. /\ \A d \in asked' : d \in asked \/ d \in ds
      /\ stage' = "need" => need' \subseteq asked'
  BY <1>2 DEF Ask
<1>5. InVain'
  BY <1>4, SameView DEF Calm, InVain
<1> QED
  BY <1>1, <1>3, <1>5 DEF Calm

\* A program that is pushed on the stack brings its references.
LEMMA DeepRefs ==
  \A prog, n : \A x \in ToSet(Deep(prog, n)) : RefOf(x.instr) \subseteq RefsOf(prog)
<1> SUFFICES ASSUME NEW prog, NEW n, NEW x \in ToSet(Deep(prog, n))
             PROVE  RefOf(x.instr) \subseteq RefsOf(prog)
  OBVIOUS
<1>1. PICK i \in DOMAIN prog : x = [instr |-> prog[i], depth |-> n]
  BY DEF ToSet, Deep
<1>2. x.instr = prog[i] /\ prog[i] \in ToSet(prog)
  BY <1>1 DEF ToSet
<1> QED
  BY <1>2 DEF RefOf, RefsOf

\* EndOfBody: the program references what is here, or what no store takes.
LEMMA CalmRebuild == ASSUME IInv, CInv, Calm, Rebuild PROVE Calm'
<1>1. /\ UNCHANGED <<remote, policy, uplink, sent, bloom, trusted, builder>>
      /\ stage = "arriving" /\ uplink = <<>>
  BY DEF Rebuild, split
<1>2. \A d \in RefsOf(builder.instrs) : Here(d)
  BY <1>1, NoneComing DEF CInv, Given, Calm, View, Noted
<1>3. CASE Ask(Missing)
  <2>1. \A d \in Missing : Big(d)
    BY <1>2 DEF Missing, Here
  <2> QED
    BY <1>1, <1>3, <2>1, CalmAsk
<1>4. CASE /\ stack' = Deep(builder.instrs, 1) /\ stage' = "resolving"
           /\ UNCHANGED <<need, repairs, asked>>
  <2>1. View' /\ Stocked' /\ InTurn(uplink)'
    BY <1>1, SameView DEF Calm, View
  <2>2. \A x \in ToSet(stack') : \A d \in RefOf(x.instr) : Here(d)
    BY <1>2, <1>4, DeepRefs
  <2>3. Noted' /\ OnStack'
    BY <1>1, <1>4, <2>2, SameView DEF Calm, Noted, OnStack, Queued
  <2>4. InVain'
    BY <1>1, <1>4, SameView DEF Calm, InVain
  <2> QED
    BY <2>1, <2>3, <2>4 DEF Calm
<1> QED
  BY <1>3, <1>4 DEF Rebuild

\* A round of resolve that asks for nothing, and puts nothing on the stack but what
\* references what is here.
LEMMA CalmProceeds ==
  ASSUME Calm, UNCHANGED <<remote, policy, uplink, sent, bloom, trusted, builder, need, asked>>,
         stage = "resolving", stage' \in {"resolving", "answered", "mismatch"},
         stage' = "resolving" =>
           \A x \in ToSet(stack') : x \in ToSet(stack) \/ \A d \in RefOf(x.instr) : Here(d)
  PROVE  Calm'
<1>1. View' /\ Stocked' /\ InTurn(uplink)'
  BY SameView DEF Calm, View
<1>2. Noted'
  BY DEF Calm, Noted, Queued
<1>3. OnStack'
  BY SameView DEF Calm, OnStack
<1>4. InVain'
  BY SameView DEF Calm, InVain
<1> QED
  BY <1>1, <1>2, <1>3, <1>4 DEF Calm

LEMMA TailOf ==
  ASSUME NEW S, NEW q \in Seq(S), q # <<>>
  PROVE  Head(q) \in ToSet(q) /\ ToSet(Tail(q)) \subseteq ToSet(q)
<1>1. PICK n : n \in Nat /\ n = Len(q) /\ n >= 1
  OBVIOUS
<1>2. /\ Head(q) = q[1] /\ DOMAIN q = 1 .. n /\ DOMAIN Tail(q) = 1 .. n - 1
      /\ \A i \in 1 .. n - 1 : Tail(q)[i] = q[i + 1]
  BY <1>1, HeadTailProperties
<1>3. \A i \in 1 .. n - 1 : i + 1 \in 1 .. n
  BY <1>1
<1> QED
  BY <1>1, <1>2, <1>3 DEF ToSet

LEMMA JoinOf ==
  ASSUME NEW S, NEW p \in Seq(S), NEW q \in Seq(S)
  PROVE  ToSet(p \o q) \subseteq ToSet(p) \cup ToSet(q)
<1>1. PICK m, n : m \in Nat /\ n \in Nat /\ m = Len(p) /\ n = Len(q)
  BY LenProperties
<1>2. /\ DOMAIN (p \o q) = 1 .. m + n /\ DOMAIN p = 1 .. m /\ DOMAIN q = 1 .. n
      /\ \A i \in 1 .. m + n : (p \o q)[i] = IF i <= m THEN p[i] ELSE q[i - m]
  BY <1>1, ConcatProperties
<1>3. \A i \in 1 .. m + n : i \in 1 .. m \/ (~(i <= m) /\ i - m \in 1 .. n)
  BY <1>1
<1>4. \A i \in 1 .. m : i <= m
  BY <1>1
<1>5. ASSUME NEW i \in 1 .. m + n PROVE (p \o q)[i] \in ToSet(p) \cup ToSet(q)
  BY <1>2, <1>3, <1>4 DEF ToSet
<1>6. PICK r : r = p \o q
  OBVIOUS
<1> QED
  BY <1>2, <1>5, <1>6 DEF ToSet

\* Resolve: what it references is here, or no store takes it.
LEMMA CalmResolve == ASSUME IInv, EInv, QInv, Calm, Resolve PROVE Calm'
<1> DEFINE i == Head(stack).instr
           n == Head(stack).depth
           b == remote[i.digest]
<1>1. /\ UNCHANGED <<remote, policy, uplink, sent, bloom, trusted, builder>>
      /\ stage = "resolving" /\ uplink = <<>>
  BY DEF Resolve, split, QInv, Emptied
<1>2. stack \in Seq(Entries)
  BY <1>1 DEF EInv, Rebuilding, Awaits
<1>3. CASE stack = <<>>
  <2>1. UNCHANGED <<stack, need, asked>> /\ stage' \in {"answered", "mismatch"}
    BY <1>3 DEF Resolve
  <2> QED
    BY <1>1, <2>1, CalmProceeds
<1>4. CASE stack # <<>>
  <2>1. /\ Head(stack) \in ToSet(stack) /\ ToSet(Tail(stack)) \subseteq ToSet(stack)
        /\ Tail(stack) \in Seq(Entries)
    BY <1>2, <1>4, TailOf, HeadTailProperties
  <2>2. i.op = "ref" => Here(i.digest)
    <3>1. \A d \in RefOf(i) : Here(d)
      BY <1>1, <2>1 DEF Calm, OnStack
    <3> QED
      BY <3>1 DEF RefOf
  <2>3. CASE stage' = "mismatch" /\ UNCHANGED <<need, asked>>
    BY <1>1, <2>3, CalmProceeds
  <2>4. CASE stack' = Tail(stack) /\ UNCHANGED <<stage, need, asked>>
    BY <1>1, <2>1, <2>4, CalmProceeds
  <2>5. CASE i.op = "ref" /\ i.digest \notin DOMAIN remote /\ Ask({i.digest})
    <3>1. \A d \in {i.digest} : Big(d)
      BY <2>2, <2>5 DEF Here
    <3> QED
      BY <1>1, <2>5, <3>1, CalmAsk
  <2>6. CASE /\ i.op = "ref" /\ i.digest \in DOMAIN remote /\ b.body = "program"
             /\ stack' = Deep(b.instrs, n + 1) \o Tail(stack)
             /\ UNCHANGED <<stage, need, asked>>
    <3>1. \A d \in RefsOf(b.instrs) : Here(d)
      BY <2>6 DEF Calm, Stocked
    <3>2. PICK p, q, k : p = b.instrs /\ q = Tail(stack) /\ k = n + 1
      OBVIOUS
    <3>3. p \in Seq(Instrs)
      BY <2>6, <3>2 DEF EInv, BlocksOk, AllOk, BlockOk, Stands
    <3>4. PICK r : r = Deep(p, k)
      OBVIOUS
    <3>5. PICK S : S = Entries \cup ToSet(r)
      OBVIOUS
    <3>6. r \in Seq(S)
      <4>1. PICK m : m \in Nat /\ m = Len(p) /\ DOMAIN p = 1 .. m
        BY <3>3
      <4>2. r = [j \in 1 .. m |-> [instr |-> p[j], depth |-> k]]
        BY <3>4, <4>1 DEF Deep
      <4>3. r \in [1 .. m -> S]
        BY <3>5, <4>2 DEF ToSet
      <4> QED
        BY <4>1, <4>3, SeqDef
    <3>7. q \in Seq(S)
      BY <2>1, <3>2, <3>5, SeqWider
    <3>8. ToSet(r \o q) \subseteq ToSet(r) \cup ToSet(q)
      BY <3>6, <3>7, JoinOf
    <3>9. \A x \in ToSet(r) : \A d \in RefOf(x.instr) : Here(d)
      BY <3>1, <3>2, <3>4, DeepRefs
    <3>10. \A x \in ToSet(stack') : x \in ToSet(stack) \/ \A d \in RefOf(x.instr) : Here(d)
      BY <2>1, <2>6, <3>2, <3>4, <3>8, <3>9
    <3> QED
      BY <1>1, <2>6, <3>10, CalmProceeds
  <2>7. CASE i.op = "ref" /\ i.digest \in DOMAIN remote
    <3>1. b.body \in {"bytes", "program"}
      BY <2>7 DEF EInv, BlocksOk, AllOk, BlockOk
    <3>2. \/ Refuse \/ Emit(b.digest.bytes)
          \/ ~(b.body = "bytes") /\ stack' = Deep(b.instrs, n + 1) \o Tail(stack)
             /\ UNCHANGED <<stage, out, need, repairs, asked>>
      <4>1. i.op # "lit" /\ i.digest \in DOMAIN remote /\ stack # <<>>
        BY <1>4, <2>7
      <4> QED
        BY <4>1, Zenon DEF Resolve
    <3>3. CASE Refuse
      BY <2>3, <3>3 DEF Refuse
    <3>4. CASE Emit(b.digest.bytes)
      BY <2>4, <3>4 DEF Emit
    <3>5. CASE ~(b.body = "bytes") /\ stack' = Deep(b.instrs, n + 1) \o Tail(stack)
               /\ UNCHANGED <<stage, out, need, repairs, asked>>
      BY <2>6, <2>7, <3>1, <3>5
    <3> QED
      BY <3>2, <3>3, <3>4, <3>5
  <2>8. CASE i.op = "ref" /\ i.digest \notin DOMAIN remote
    <3>1. i \in Instrs /\ n \in 1 .. 2 /\ MaxDepth \in Nat
      <4>1. Head(stack) \in Entries
        BY <1>2, <1>4, HeadTailProperties
      <4> QED
        BY <4>1, BodyAssumption DEF Entries
    <3>2. i.len \in Nat
      BY <2>8, <3>1 DEF Instrs
    <3>3. Len(doc.bytes) + 1 - Len(out) \in Int
      <4>1. Len(doc.bytes) \in Nat /\ Len(out) \in 0 .. Len(doc.bytes)
        BY <1>1, DocBytes DEF EInv, Rebuilding
      <4> QED
        BY <4>1
    <3>4. \/ n > MaxDepth \/ i.len > Len(doc.bytes) + 1 - Len(out)
          \/ n <= MaxDepth /\ i.len <= Len(doc.bytes) + 1 - Len(out)
      <4>1. PICK x, y, z : x = i.len /\ y = Len(doc.bytes) + 1 - Len(out) /\ z = n
        OBVIOUS
      <4>2. x \in Int /\ y \in Int /\ z \in Int /\ MaxDepth \in Int
        BY <3>1, <3>2, <3>3, <4>1
      <4> QED
        BY <4>1, <4>2
    <3>5. Refuse \/ Ask({i.digest})
      <4>1. i.op # "lit" /\ stack # <<>>
        BY <1>4, <2>8
      <4> QED
        BY <2>8, <3>4, <4>1, Zenon DEF Resolve
    <3> QED
      BY <2>3, <2>5, <2>8, <3>5 DEF Refuse
  <2>9. CASE i.op = "lit"
    <3>1. Refuse \/ Emit(i.bytes)
      BY <1>4, <2>9 DEF Resolve
    <3> QED
      BY <2>3, <2>4, <3>1 DEF Refuse, Emit
  <2>10. i.op \in {"lit", "ref"}
    BY <1>4 DEF Resolve
  <2> QED
    BY <2>7, <2>8, <2>9, <2>10
<1> QED
  BY <1>3, <1>4

\* NextTurn: the filter brings what the remote store holds.
LEMMA CalmNextTurn == ASSUME IInv, QInv, Calm, NextTurn PROVE Calm'
<1>1. /\ UNCHANGED <<remote, policy, sent>> /\ bloom' = DOMAIN remote /\ trusted' = {}
      /\ uplink' = <<>> /\ uplink = <<>> /\ asked' = {} /\ stage' = "split"
  BY DEF NextTurn, QInv, Emptied
<1>2. View'
  BY <1>1, SameView DEF Calm, View, Soon, Here
<1>3. Stocked' /\ InTurn(uplink)'
  BY <1>1, SameView DEF Calm
<1>4. Noted' /\ OnStack' /\ InVain'
  BY <1>1 DEF Noted, OnStack, InVain
<1> QED
  BY <1>2, <1>3, <1>4 DEF Calm

LEMMA CalmNothing == ASSUME Calm, UNCHANGED vars PROVE Calm'
<1>1. UNCHANGED <<remote, policy, uplink, sent, bloom, trusted, builder, need, asked, stage,
                  stack>>
  BY DEF vars, split, rebuild
<1>2. View' /\ Stocked' /\ InTurn(uplink)' /\ InVain'
  BY <1>1, SameView DEF Calm, View, InVain
<1>3. Noted' /\ OnStack'
  BY <1>1, SameView DEF Calm, Noted, OnStack, Queued
<1> QED
  BY <1>2, <1>3 DEF Calm

\* The uplink is empty but while blocks arrive.
LEMMA StaysEmptied == ASSUME IInv, Emptied, [Next]_vars PROVE Emptied'
<1>1. CASE UNCHANGED <<stage, uplink>>
  BY <1>1 DEF Emptied
<1>2. CASE Upload \/ SendWhole \/ Resend \/ FailThenWhole \/ Arrive \/ Rebuild \/ NextTurn
  BY <1>2 DEF Emptied, Upload, SendWhole, Resend, FailThenWhole, Arrive, Rebuild, NextTurn
<1>3. CASE Resolve
  BY <1>3 DEF Emptied, Resolve
<1> QED
  BY <1>1, <1>2, <1>3 DEF Next, Splits, RemoteEvicts, LocalEvicts, ViewErrs, ViewForgets,
                          Event, Done, vars, rebuild

LEMMA CalmSteps ==
  ASSUME IInv, EInv, CInv, QInv, Calm, [Next]_vars, events' = events
  PROVE  Calm'
<1>1. ASSUME Event PROVE FALSE
  BY <1>1 DEF Event, IInv, TypeOK
<1>2. ~(RemoteEvicts \/ LocalEvicts \/ ViewErrs \/ ViewForgets)
  BY <1>1 DEF RemoteEvicts, LocalEvicts, ViewErrs, ViewForgets
<1>3. Done => UNCHANGED vars
  BY DEF Done
<1> QED
  BY <1>2, <1>3, CalmSplits, CalmUpload, CalmWhole, CalmResend, CalmArrive, CalmRebuild,
     CalmResolve, CalmNextTurn, CalmNothing DEF Next

LEMMA QInvHolds == Spec => []QInv
<1>1. Init => QInv
  <2> SUFFICES ASSUME Init PROVE QInv
    OBVIOUS
  <2>1. DOMAIN NoBlocks = {}
    BY DEF NoBlocks
  <2>2. View /\ Stocked /\ InTurn(uplink) /\ Noted /\ OnStack /\ InVain
    BY <2>1, NoneInTurn DEF Init, View, Stocked, Noted, OnStack, InVain
  <2> QED
    BY <2>2 DEF Init, QInv, Emptied, Calm
<1>2. IInv /\ EInv /\ CInv /\ QInv /\ IInv' /\ [Next]_vars => QInv'
  <2> SUFFICES ASSUME IInv, EInv, CInv, QInv, [Next]_vars PROVE QInv'
    OBVIOUS
  <2>1. Emptied'
    BY StaysEmptied DEF QInv
  <2>2. ASSUME events' = MaxEvents PROVE Calm'
    <3>1. events' = events \/ (events \in 0 .. MaxEvents /\ events' = events - 1)
      BY DEF Next, Splits, Upload, SendWhole, Resend, FailThenWhole, Arrive, Rebuild, Resolve,
             NextTurn, RemoteEvicts, LocalEvicts, ViewErrs, ViewForgets, Event, Done, vars, env,
             IInv, TypeOK
    <3>2. events' = events
      BY <2>2, <3>1
    <3> QED
      BY <2>2, <3>2, CalmSteps DEF QInv
  <2> QED
    BY <2>1, <2>2 DEF QInv
<1> QED
  BY <1>1, <1>2, IInvHolds, EInvHolds, CInvHolds, PTL DEF Spec

\* As long as nothing was evicted, noted wrongly or cleared, what rebuild asks for is only
\* what is too large for a store to take, in every turn, whatever the turns before pushed.
THEOREM RepairsAreForFaults == Spec => []QuietWithoutFaults
<1>1. QInv => QuietWithoutFaults
  BY DEF QInv, Calm, InVain, Big, QuietWithoutFaults
<1> QED
  BY <1>1, QInvHolds, PTL

-----------------------------------------------------------------------------
(* No two groups overlap *)

Sources(bd) == {i \in DOMAIN bd.nodes : InHistory(bd, i) \/ Whole(bd, i)}
MemberAt(bd, p, i) ==
  Cand(bd.nodes[i], "JsonMember", IF InHistory(bd, i) THEN p.min_history ELSE p.min_block)
StringAt(bd, p, i) ==
  LET n == bd.nodes[i] IN
  Cand(n, IF n.key = "media" \/ n.uri THEN "Media" ELSE "Text", p.min_payload)

\* A node after another is behind it, or inside it.
LEMMA NodeOrder ==
  ASSUME NEW bd \in Bodies, NEW i \in DOMAIN bd.nodes, NEW j \in DOMAIN bd.nodes, i < j
  PROVE  /\ bd.nodes[i].start < bd.nodes[j].start
         /\ \/ bd.nodes[i].end <= bd.nodes[j].start
            \/ /\ bd.nodes[j].end <= bd.nodes[i].end /\ i <= bd.nodes[j].parent
               /\ bd.nodes[i].kind # "string"
  BY BodyAssumption

LEMMA Parents ==
  ASSUME NEW bd \in Bodies, NEW i \in DOMAIN bd.nodes
  PROVE  i \in Nat /\ i >= 1 /\ bd.nodes[i].parent \in 0 .. i - 1
  BY BodyAssumption

\* The histories are members of the document, so neither is the document itself one,
\* nor is one inside another.
LEMMA HistoriesAreMembers ==
  ASSUME NEW bd \in Bodies, NEW h \in Histories(bd)
  PROVE  /\ h \in DOMAIN bd.nodes /\ bd.nodes[h].parent = 1 /\ h # 1
         /\ bd.nodes[h].key = "history"
<1>1. h \in DOMAIN bd.nodes /\ bd.nodes[h].parent = 1 /\ bd.nodes[h].key = "history"
  BY DEF Histories, Children
<1>2. bd.nodes[h].parent \in 0 .. h - 1
  BY <1>1, Parents
<1> QED
  BY <1>1, <1>2

\* Whole values are no elements of a history.
LEMMA WholeIsNoElement ==
  ASSUME NEW bd \in Bodies, NEW i, Whole(bd, i)
  PROVE  ~InHistory(bd, i)
  BY HistoriesAreMembers DEF Whole, InHistory

\* No source is inside another one.
LEMMA SourcesApart ==
  ASSUME NEW bd \in Bodies, NEW i \in Sources(bd), NEW j \in Sources(bd), i < j
  PROVE  bd.nodes[i].end <= bd.nodes[j].start
<1>1. i \in DOMAIN bd.nodes /\ j \in DOMAIN bd.nodes
  BY DEF Sources
<1>2. /\ i \in Nat /\ i >= 1 /\ bd.nodes[i].parent \in 0 .. i - 1
      /\ j \in Nat /\ j >= 1 /\ bd.nodes[j].parent \in 0 .. j - 1
  BY <1>1, Parents
<1>3. i # 1
  <2>1. bd.nodes[i].parent \in Histories(bd) \/ bd.nodes[i].parent = 1
    BY DEF Sources, InHistory, Whole
  <2>2. 0 \notin Histories(bd)
    BY HistoriesAreMembers, Parents
  <2> QED
    BY <1>2, <2>1, <2>2
<1>4. CASE bd.nodes[i].end <= bd.nodes[j].start
  BY <1>4
<1>5. ASSUME bd.nodes[j].end <= bd.nodes[i].end, i <= bd.nodes[j].parent
      PROVE  bd.nodes[i].end <= bd.nodes[j].start
  <2>1. CASE Whole(bd, j)
    BY <1>2, <1>3, <1>5, <2>1 DEF Whole
  <2>2. CASE InHistory(bd, j)
    <3>1. PICK h : h = bd.nodes[j].parent /\ h \in Histories(bd)
      BY <2>2 DEF InHistory
    <3>2. /\ h \in DOMAIN bd.nodes /\ bd.nodes[h].parent = 1 /\ h \in Nat /\ h < j /\ i <= h
          /\ bd.nodes[h].key = "history"
      BY <1>2, <1>5, <3>1, HistoriesAreMembers
    <3>3. h # i
      <4>1. ASSUME h = i PROVE FALSE
        <5>1. ~Whole(bd, i)
          BY <3>2, <4>1 DEF Whole
        <5>2. InHistory(bd, i)
          BY <5>1 DEF Sources
        <5>3. 1 \in Histories(bd)
          BY <3>2, <4>1, <5>2 DEF InHistory
        <5> QED
          BY <5>3, HistoriesAreMembers
      <4> QED
        BY <4>1
    <3>4. i < h
      BY <1>2, <3>2, <3>3
    <3>5. bd.nodes[i].end <= bd.nodes[h].start
      BY <1>1, <1>2, <1>3, <3>2, <3>4, NodeOrder
    <3>6. bd.nodes[h].start < bd.nodes[j].start
      BY <1>1, <3>2, NodeOrder
    <3>7. /\ bd.nodes[i].end \in Int /\ bd.nodes[h].start \in Int
          /\ bd.nodes[j].start \in Int
      BY <1>1, <3>2, NodesOf
    <3> QED
      BY <3>5, <3>6, <3>7
  <2> QED
    BY <2>1, <2>2 DEF Sources
<1> QED
  BY <1>1, <1>4, <1>5, NodeOrder

\* Where the candidates come from.
LEMMA CandsFrom ==
  ASSUME NEW bd \in Bodies, NEW p
  PROVE  \A c \in ToSet(Cands(bd, p)) : \E i \in Sources(bd) : c = MemberAt(bd, p, i)
<1>0. PICK From : From = {MemberAt(bd, p, i) : i \in Sources(bd)}
  OBVIOUS
<1>1. PICK n : n \in Nat /\ n = Len(Idx(bd.nodes)) /\ n = Len(bd.nodes)
               /\ DOMAIN bd.nodes = 1 .. n
  BY NodesOf, IdxOf
<1>2. PICK h \in [0 .. n -> Seq(Members(bd, p))] :
        /\ h[0] = <<>> /\ h[n] = Cands(bd, p)
        /\ \A k \in 1 .. n : h[k] = TakeCand(h[k - 1], Idx(bd.nodes)[k], bd, p)
  BY <1>1, CandsPath
<1> DEFINE Good == {k \in 0 .. n : ToSet(h[k]) \subseteq From}
<1>3. 0 \in Good
  BY <1>1, <1>2 DEF ToSet
<1>4. ASSUME NEW k \in 0 .. n - 1, k \in Good PROVE k + 1 \in Good
  <2>1. PICK j, a : j = k + 1 /\ a = h[k]
    OBVIOUS
  <2>2. j \in 1 .. n /\ j - 1 = k /\ j \in 0 .. n /\ k \in 0 .. n
    BY <1>1, <2>1
  <2>3. a \in Seq(Members(bd, p)) /\ ToSet(a) \subseteq From
    BY <1>2, <1>4, <2>1, <2>2
  <2>4. h[j] = TakeCand(a, j, bd, p)
    BY <1>1, <1>2, <2>1, <2>2, NodesOf, IdxOf
  <2>5. \/ h[j] = a
        \/ j \in Sources(bd) /\ h[j] = Append(a, MemberAt(bd, p, j))
    <3>1. CASE InHistory(bd, j) /\ Size(bd.nodes[j]) >= p.min_history
      BY <1>1, <2>2, <2>4, <3>1, WholeIsNoElement DEF TakeCand, Sources, MemberAt
    <3>2. CASE ~(InHistory(bd, j) /\ Size(bd.nodes[j]) >= p.min_history)
               /\ Whole(bd, j) /\ Size(bd.nodes[j]) >= p.min_block
      BY <1>1, <2>2, <2>4, <3>2, WholeIsNoElement DEF TakeCand, Sources, MemberAt
    <3>3. CASE ~(InHistory(bd, j) /\ Size(bd.nodes[j]) >= p.min_history)
               /\ ~(Whole(bd, j) /\ Size(bd.nodes[j]) >= p.min_block)
      BY <2>4, <3>3 DEF TakeCand
    <3> QED
      BY <3>1, <3>2, <3>3
  <2>6. ToSet(h[j]) \subseteq From
    <3>1. CASE h[j] = a
      BY <2>3, <3>1
    <3>2. ASSUME j \in Sources(bd), h[j] = Append(a, MemberAt(bd, p, j))
          PROVE  ToSet(h[j]) \subseteq From
      <4>1. PICK c : c = MemberAt(bd, p, j)
        OBVIOUS
      <4>2. c \in From
        BY <1>0, <3>2, <4>1
      <4>3. ToSet(h[j]) = ToSet(a) \cup {c}
        BY <2>3, <3>2, <4>1, AppendSet
      <4> QED
        BY <2>3, <4>2, <4>3
    <3> QED
      BY <2>5, <3>1, <3>2
  <2>7. ToSet(h[k + 1]) \subseteq From
    BY <2>1, <2>6
  <2>8. k + 1 \in 0 .. n
    BY <2>1, <2>2
  <2> QED
    BY <2>7, <2>8
<1>5. \A k \in 0 .. n : k \in Good
  <2> HIDE DEF Good
  <2> QED
    BY <1>1, <1>3, <1>4, UpTo
<1>6. ToSet(h[n]) \subseteq From
  BY <1>1, <1>5
<1> QED
  BY <1>0, <1>2, <1>6

\* Where the payloads come from.
LEMMA PayloadsFrom ==
  ASSUME NEW bd \in Bodies, NEW p
  PROVE  \A c \in ToSet(Payloads(bd, p)) :
           \E i \in DOMAIN bd.nodes : bd.nodes[i].kind = "string" /\ c = StringAt(bd, p, i)
<1>0. PICK From : From = {StringAt(bd, p, i) :
                          i \in {k \in DOMAIN bd.nodes : bd.nodes[k].kind = "string"}}
  OBVIOUS
<1>1. PICK n : n \in Nat /\ n = Len(Idx(bd.nodes)) /\ n = Len(bd.nodes)
               /\ DOMAIN bd.nodes = 1 .. n
  BY NodesOf, IdxOf
<1>2. PICK h \in [0 .. n -> Walks(bd, p)] :
        /\ h[0] = [entered |-> {}, out |-> <<>>] /\ h[n] = Visit(bd, p)
        /\ \A k \in 1 .. n : h[k] = Visited(h[k - 1], Idx(bd.nodes)[k], bd, p)
  BY <1>1, VisitPath
<1> DEFINE Good == {k \in 0 .. n : ToSet(h[k].out) \subseteq From}
<1>3. 0 \in Good
  BY <1>1, <1>2 DEF ToSet
<1>4. ASSUME NEW k \in 0 .. n - 1, k \in Good PROVE k + 1 \in Good
  <2>1. PICK j, a : j = k + 1 /\ a = h[k]
    OBVIOUS
  <2>2. j \in 1 .. n /\ j - 1 = k /\ j \in 0 .. n /\ k \in 0 .. n
    BY <1>1, <2>1
  <2>3. a \in Walks(bd, p) /\ a.out \in Seq(Strings(bd, p)) /\ ToSet(a.out) \subseteq From
    <3>1. a \in Walks(bd, p) /\ ToSet(a.out) \subseteq From
      BY <1>2, <1>4, <2>1, <2>2
    <3> QED
      BY <3>1 DEF Walks
  <2>4. h[j] = Visited(a, j, bd, p)
    BY <1>1, <1>2, <2>1, <2>2, NodesOf, IdxOf
  <2>5. \/ h[j].out = a.out
        \/ bd.nodes[j].kind = "string" /\ h[j].out = Append(a.out, StringAt(bd, p, j))
    <3> DEFINE m == bd.nodes[j]
               long == m.kind = "string" /\ Size(m) >= p.min_payload
               reached == m.parent = 0 \/ m.parent \in a.entered
    <3>1. CASE reached /\ m.key = "media" /\ long
      BY <2>3, <2>4, <3>1 DEF Visited, StringAt, Walks
    <3>2. CASE reached /\ ~(m.key = "media" /\ long)
               /\ ~(m.depth > p.max_depth \/ Len(a.out) >= MaxPayloads)
      BY <2>3, <2>4, <3>2 DEF Visited, StringAt, Walks
    <3>3. CASE ~reached \/ (~(m.key = "media" /\ long)
               /\ (m.depth > p.max_depth \/ Len(a.out) >= MaxPayloads))
      BY <2>3, <2>4, <3>3 DEF Visited
    <3> QED
      BY <3>1, <3>2, <3>3
  <2>6. ToSet(h[j].out) \subseteq From
    <3>1. CASE h[j].out = a.out
      BY <2>3, <3>1
    <3>2. ASSUME bd.nodes[j].kind = "string", h[j].out = Append(a.out, StringAt(bd, p, j))
          PROVE  ToSet(h[j].out) \subseteq From
      <4>1. PICK c : c = StringAt(bd, p, j)
        OBVIOUS
      <4>2. c \in From
        BY <1>0, <1>1, <2>2, <3>2, <4>1
      <4>3. ToSet(h[j].out) = ToSet(a.out) \cup {c}
        BY <2>3, <3>2, <4>1, AppendSet
      <4> QED
        BY <2>3, <4>2, <4>3
    <3> QED
      BY <2>5, <3>1, <3>2
  <2>7. ToSet(h[k + 1].out) \subseteq From
    BY <2>1, <2>6
  <2>8. k + 1 \in 0 .. n
    BY <2>1, <2>2
  <2> QED
    BY <2>7, <2>8
<1>5. \A k \in 0 .. n : k \in Good
  <2> HIDE DEF Good
  <2> QED
    BY <1>1, <1>3, <1>4, UpTo
<1>6. ToSet(h[n].out) \subseteq From
  BY <1>1, <1>5
<1> QED
  BY <1>0, <1>2, <1>6, PayloadsIsFold

\* In order, and none begins before the one before it has ended.
Sorted(q) == \A i, j \in DOMAIN q : i < j => q[i].cand.end <= q[j].cand.start

Both(bd, p) == ToSet(Cands(bd, p)) \cup Promoted(bd, p)

\* The node that a candidate is, and whether it is one as a member or as a payload.
LEMMA OriginOf ==
  ASSUME NEW bd \in Bodies, NEW p, NEW c \in Both(bd, p)
  PROVE  \E i \in DOMAIN bd.nodes :
           /\ c.start = bd.nodes[i].start /\ c.end = bd.nodes[i].end
           /\ \/ c \in ToSet(Cands(bd, p)) /\ i \in Sources(bd) /\ c = MemberAt(bd, p, i)
              \/ c \in Promoted(bd, p) /\ bd.nodes[i].kind = "string" /\ c = StringAt(bd, p, i)
<1>1. CASE c \in ToSet(Cands(bd, p))
  <2>1. PICK i \in Sources(bd) : c = MemberAt(bd, p, i)
    BY <1>1, CandsFrom
  <2>2. i \in DOMAIN bd.nodes /\ c.start = bd.nodes[i].start /\ c.end = bd.nodes[i].end
    BY <2>1 DEF Sources, MemberAt, Cand
  <2> QED
    BY <1>1, <2>1, <2>2
<1>2. CASE c \in Promoted(bd, p)
  <2>1. c \in ToSet(Payloads(bd, p))
    BY <1>2 DEF Promoted
  <2>2. PICK i \in DOMAIN bd.nodes : bd.nodes[i].kind = "string" /\ c = StringAt(bd, p, i)
    BY <2>1, PayloadsFrom
  <2>3. c.start = bd.nodes[i].start /\ c.end = bd.nodes[i].end
    BY <2>2 DEF StringAt, Cand
  <2> QED
    BY <1>2, <2>2, <2>3
<1> QED
  BY <1>1, <1>2 DEF Both

\* Candidates do not overlap, and no two begin together.
LEMMA CandidatesApart ==
  ASSUME NEW bd \in Bodies, NEW p, NEW c \in Both(bd, p), NEW d \in Both(bd, p)
  PROVE  /\ c.start = d.start => c = d
         /\ c.start < d.start => c.end <= d.start
         /\ c \in ToSet(Cands(bd, p)) => c \notin Promoted(bd, p)
<1>1. PICK i \in DOMAIN bd.nodes :
        /\ c.start = bd.nodes[i].start /\ c.end = bd.nodes[i].end
        /\ \/ c \in ToSet(Cands(bd, p)) /\ i \in Sources(bd) /\ c = MemberAt(bd, p, i)
           \/ c \in Promoted(bd, p) /\ bd.nodes[i].kind = "string" /\ c = StringAt(bd, p, i)
  BY OriginOf
<1>2. PICK j \in DOMAIN bd.nodes :
        /\ d.start = bd.nodes[j].start /\ d.end = bd.nodes[j].end
        /\ \/ d \in ToSet(Cands(bd, p)) /\ j \in Sources(bd) /\ d = MemberAt(bd, p, j)
           \/ d \in Promoted(bd, p) /\ bd.nodes[j].kind = "string" /\ d = StringAt(bd, p, j)
  BY OriginOf
<1>3. /\ i \in Nat /\ j \in Nat
      /\ c.start \in Nat /\ c.end \in Nat /\ d.start \in Nat /\ d.end \in Nat
  BY <1>1, <1>2, Parents, NodesOf
<1>4. \A x \in Promoted(bd, p), y \in ToSet(Cands(bd, p)) : ~Within(x, y)
  BY DEF Promoted
<1>5. c \in ToSet(Cands(bd, p)) => c \notin Promoted(bd, p)
  BY <1>3, <1>4 DEF Within
<1>6. CASE i = j
  <2>1. c.start = d.start /\ c.end = d.end
    BY <1>1, <1>2, <1>6
  <2>2. c = d
    <3>1. ASSUME c \in ToSet(Cands(bd, p)), d \in Promoted(bd, p) PROVE FALSE
      BY <1>3, <1>4, <2>1, <3>1 DEF Within
    <3>2. ASSUME d \in ToSet(Cands(bd, p)), c \in Promoted(bd, p) PROVE FALSE
      BY <1>3, <1>4, <2>1, <3>2 DEF Within
    <3> QED
      BY <1>1, <1>2, <1>6, <3>1, <3>2
  <2> QED
    BY <1>3, <1>5, <2>1, <2>2
<1>7. CASE i < j
  <2>1. c.start < d.start
    BY <1>1, <1>2, <1>7, NodeOrder
  <2>2. c.end <= d.start \/ (d.end <= c.end /\ bd.nodes[i].kind # "string")
    BY <1>1, <1>2, <1>7, NodeOrder
  <2>3. ASSUME d.end <= c.end, bd.nodes[i].kind # "string" PROVE c.end <= d.start
    <3>1. c \in ToSet(Cands(bd, p)) /\ i \in Sources(bd)
      BY <1>1, <2>3
    <3>2. d \notin Promoted(bd, p)
      BY <1>3, <1>4, <2>1, <2>3, <3>1 DEF Within
    <3>3. j \in Sources(bd)
      BY <1>2, <3>2
    <3> QED
      BY <1>1, <1>2, <1>7, <3>1, <3>3, SourcesApart
  <2> QED
    BY <1>3, <1>5, <2>1, <2>2, <2>3
<1>8. CASE j < i
  <2>1. d.start < c.start
    BY <1>1, <1>2, <1>8, NodeOrder
  <2> QED
    BY <1>3, <1>5, <2>1
<1> QED
  BY <1>3, <1>6, <1>7, <1>8

\* Neither do their groups.
LEMMA GroupsApart ==
  ASSUME NEW bd \in Bodies, NEW p, NEW g \in AllGroups(bd, p), NEW h \in AllGroups(bd, p)
  PROVE  /\ g.cand.start = h.cand.start => g = h
         /\ g.cand.start < h.cand.start => g.cand.end <= h.cand.start
<1> DEFINE Kept(x) ==
      \/ x.cand \in ToSet(Cands(bd, p))
         /\ x = [cand |-> x.cand, kids |-> KidsOf(x.cand, Payloads(bd, p))]
      \/ x.cand \in Promoted(bd, p) /\ x = [cand |-> x.cand, kids |-> <<>>]
<1>1. ASSUME NEW x \in AllGroups(bd, p) PROVE Kept(x)
  BY DEF AllGroups
<1>2. Kept(g) /\ Kept(h)
  BY <1>1
<1>3. g.cand \in Both(bd, p) /\ h.cand \in Both(bd, p)
  BY <1>2 DEF Both
<1>4. PICK c, d : c = g.cand /\ d = h.cand
  OBVIOUS
<1>5. /\ c.start = d.start => c = d
      /\ c.start < d.start => c.end <= d.start
      /\ c \in ToSet(Cands(bd, p)) => c \notin Promoted(bd, p)
  BY <1>3, <1>4, CandidatesApart
<1>6. ASSUME c = d PROVE g = h
  BY <1>2, <1>4, <1>5, <1>6
<1> QED
  BY <1>4, <1>5, <1>6

\* A set is put in a sequence once.
LEMMA OrderOnce ==
  ASSUME NEW S, IsFiniteSet(S)
  PROVE  \A i, j \in DOMAIN SetToSeq(S) : SetToSeq(S)[i] = SetToSeq(S)[j] => i = j
<1>1. Cardinality(S) \in Nat /\ ExistsBijection(1 .. Cardinality(S), S)
  BY FS_CardinalityType
<1>2. \E f \in [1 .. Cardinality(S) -> S] : IsInjective(f)
  BY <1>1 DEF ExistsBijection, Bijection, Injection, IsInjective
<1>3. SetToSeq(S) \in [1 .. Cardinality(S) -> S] /\ IsInjective(SetToSeq(S))
  BY <1>2 DEF SetToSeq
<1> QED
  BY <1>3 DEF IsInjective

\* What is behind all of it is put behind it.
LEMMA SortedJoin ==
  ASSUME NEW S, NEW p \in Seq(S), NEW q \in Seq(S), Sorted(p), Sorted(q),
         \A x \in ToSet(p), y \in ToSet(q) : x.cand.end <= y.cand.start
  PROVE  Sorted(p \o q)
<1>1. PICK m, n : m \in Nat /\ n \in Nat /\ m = Len(p) /\ n = Len(q)
  BY LenProperties
<1>2. /\ DOMAIN (p \o q) = 1 .. m + n /\ DOMAIN p = 1 .. m /\ DOMAIN q = 1 .. n
      /\ \A i \in 1 .. m + n : (p \o q)[i] = IF i <= m THEN p[i] ELSE q[i - m]
  BY <1>1, ConcatProperties
<1>3. PICK r : r = p \o q
  OBVIOUS
<1>4. ASSUME NEW i \in 1 .. m + n, NEW j \in 1 .. m + n, i < j
      PROVE  r[i].cand.end <= r[j].cand.start
  <2>1. CASE j <= m
    <3>1. i <= m /\ i \in 1 .. m /\ j \in 1 .. m
      BY <1>1, <1>4, <2>1
    <3> QED
      BY <1>2, <1>3, <1>4, <2>1, <3>1 DEF Sorted
  <2>2. CASE i <= m /\ ~(j <= m)
    <3>1. i \in 1 .. m /\ j - m \in 1 .. n
      BY <1>1, <1>4, <2>2
    <3>2. r[i] \in ToSet(p) /\ r[j] \in ToSet(q)
      BY <1>2, <1>3, <2>2, <3>1 DEF ToSet
    <3> QED
      BY <3>2
  <2>3. CASE ~(i <= m)
    <3>1. i - m \in 1 .. n /\ j - m \in 1 .. n /\ i - m < j - m /\ ~(j <= m)
      BY <1>1, <1>4, <2>3
    <3> QED
      BY <1>2, <1>3, <2>3, <3>1 DEF Sorted
  <2>4. j <= m \/ (i <= m /\ ~(j <= m)) \/ ~(i <= m)
    BY <1>1
  <2> QED
    BY <2>1, <2>2, <2>3, <2>4
<1> QED
  BY <1>2, <1>3, <1>4 DEF Sorted

\* structural_groups: in the order of the body.
LEMMA StructuralSorted ==
  ASSUME NEW bd \in Bodies, NEW p
  PROVE  Sorted(StructuralGroups(bd, p))
<1>1. PICK n : n \in Nat /\ n = Len(Idx(bd.nodes)) /\ n = Len(bd.nodes)
               /\ DOMAIN bd.nodes = 1 .. n
  BY NodesOf, IdxOf
<1>2. PICK h \in [0 .. n -> Seq(GroupsOf(bd, p))] :
        /\ h[0] = <<>> /\ h[n] = StructuralGroups(bd, p)
        /\ \A k \in 1 .. n : h[k] = GroupTaken(h[k - 1], Idx(bd.nodes)[k], bd, p)
  BY <1>1, GroupsPath
<1>3. PICK All : All = AllGroups(bd, p) /\ IsFiniteSet(All) /\ All \subseteq GroupsOf(bd, p)
  BY AllGroupsType
<1> DEFINE Behind(k) == {g \in All : \E i \in 1 .. k : g.cand.start = bd.nodes[i].start}
           Good == {k \in 0 .. n : Sorted(h[k]) /\ ToSet(h[k]) \subseteq Behind(k)}
<1>4. 0 \in Good
  BY <1>1, <1>2 DEF ToSet, Sorted
<1>5. ASSUME NEW k \in 0 .. n - 1, k \in Good PROVE k + 1 \in Good
  <2>1. PICK j, a : j = k + 1 /\ a = h[k]
    OBVIOUS
  <2>2. j \in 1 .. n /\ j - 1 = k /\ j \in 0 .. n /\ k \in 0 .. n
    BY <1>1, <2>1
  <2>3. a \in Seq(GroupsOf(bd, p)) /\ Sorted(a) /\ ToSet(a) \subseteq Behind(k)
    BY <1>2, <1>5, <2>1, <2>2
  <2>4. PICK T : T = {g \in All : g.cand.start = bd.nodes[j].start}
    OBVIOUS
  <2>5. PICK q : q = SetToSeq(T)
    OBVIOUS
  <2>6. h[j] = a \o q
    <3>1. h[j] = GroupTaken(a, j, bd, p)
      BY <1>1, <1>2, <2>1, <2>2, NodesOf, IdxOf
    <3> QED
      BY <1>3, <2>4, <2>5, <3>1 DEF GroupTaken
  <2>7. /\ q \in Seq(T) /\ ToSet(q) = T
        /\ \A x, y \in DOMAIN q : q[x] = q[y] => x = y
    <3>1. IsFiniteSet(T)
      BY <1>3, <2>4, FS_Subset
    <3> QED
      BY <2>5, <3>1, OrderOf, OrderOnce
  <2>8. q \in Seq(GroupsOf(bd, p))
    BY <1>3, <2>4, <2>7, SeqWider
  <2>9. Sorted(q)
    <3>1. \A x, y \in DOMAIN q : q[x] \in T /\ q[y] \in T
      BY <2>7 DEF ToSet
    <3>2. \A g, e \in T : g = e
      BY <1>3, <2>4, GroupsApart
    <3>3. \A x, y \in DOMAIN q : x = y
      BY <2>7, <3>1, <3>2
    <3>4. \A x \in DOMAIN q : ~(x < x)
      BY <2>7
    <3> QED
      BY <3>3, <3>4 DEF Sorted
  <2>10. ASSUME NEW x \in ToSet(a), NEW y \in ToSet(q) PROVE x.cand.end <= y.cand.start
    <3>1. x \in All /\ y \in All /\ y.cand.start = bd.nodes[j].start
      BY <2>3, <2>4, <2>7
    <3>2. PICK i \in 1 .. k : x.cand.start = bd.nodes[i].start
      BY <2>3
    <3>3. i \in DOMAIN bd.nodes /\ j \in DOMAIN bd.nodes /\ i < j
      BY <1>1, <2>2, <3>2
    <3>4. x.cand.start < y.cand.start
      BY <3>1, <3>2, <3>3, NodeOrder
    <3> QED
      BY <1>3, <3>1, <3>4, GroupsApart
  <2>11. Sorted(h[j])
    BY <2>3, <2>6, <2>8, <2>9, <2>10, SortedJoin
  <2>12. ToSet(h[j]) \subseteq Behind(j)
    <3>1. ToSet(h[j]) \subseteq ToSet(a) \cup ToSet(q)
      BY <2>3, <2>6, <2>8, JoinOf
    <3>2. Behind(k) \subseteq Behind(j)
      <4>1. \A i \in 1 .. k : i \in 1 .. j
        BY <1>1, <2>2
      <4> QED
        BY <4>1
    <3>3. T \subseteq Behind(j)
      <4>1. j \in 1 .. j
        BY <2>2
      <4> QED
        BY <2>4, <4>1
    <3> HIDE DEF Behind
    <3> QED
      BY <2>3, <2>7, <3>1, <3>2, <3>3
  <2> HIDE DEF Behind
  <2> QED
    BY <2>1, <2>2, <2>11, <2>12
<1>6. \A k \in 0 .. n : k \in Good
  <2> HIDE DEF Good
  <2> QED
    BY <1>1, <1>4, <1>5, UpTo
<1>7. n \in Good
  BY <1>1, <1>6
<1> QED
  BY <1>2, <1>7

\* Chunks, and up to where they go.
Cut(q, s) == /\ \A i, j \in DOMAIN q : i < j => q[i].end <= q[j].start
             /\ \A i \in DOMAIN q : q[i].end <= s

LEMMA CutFurther ==
  ASSUME NEW bd, NEW p, NEW q \in Seq(Cuts(bd, p)), NEW s, Cut(q, s), NEW c \in Cuts(bd, p),
         c.start = s
  PROVE  Cut(Append(q, c), c.end)
<1>1. PICK m : m \in Nat /\ m = Len(q) /\ DOMAIN q = 1 .. m
  OBVIOUS
<1>2. PICK r : r = Append(q, c)
  OBVIOUS
<1>3. DOMAIN r = 1 .. m + 1 /\ r[m + 1] = c /\ \A i \in 1 .. m : r[i] = q[i]
  BY <1>1, <1>2, AppendProperties
<1>4. c.start \in Int /\ c.end \in Int /\ c.start <= c.end
  BY DEF Cuts, Spots
<1>5. \A i \in 1 .. m : q[i].end \in Int
  <2>1. \A i \in 1 .. m : q[i] \in Cuts(bd, p)
    BY <1>1, ElementOfSeq
  <2> QED
    BY <2>1 DEF Cuts, Spots
<1>6. \A i \in 1 .. m + 1 : i \in 1 .. m \/ i = m + 1
  BY <1>1
<1>7. \A i \in 1 .. m : q[i].end <= c.start /\ q[i].end <= c.end
  <2> SUFFICES ASSUME NEW i \in 1 .. m PROVE q[i].end <= c.start /\ q[i].end <= c.end
    OBVIOUS
  <2>1. q[i].end <= c.start
    BY <1>1 DEF Cut
  <2> QED
    BY <1>4, <1>5, <2>1
<1>8. ASSUME NEW i \in 1 .. m + 1, NEW j \in 1 .. m + 1, i < j
      PROVE  r[i].end <= r[j].start
  <2>1. i \in 1 .. m
    BY <1>1, <1>8
  <2>2. CASE j \in 1 .. m
    BY <1>1, <1>3, <1>8, <2>1, <2>2 DEF Cut
  <2>3. CASE j = m + 1
    BY <1>3, <1>7, <2>1, <2>3
  <2> QED
    BY <1>6, <2>2, <2>3
<1>9. ASSUME NEW i \in 1 .. m + 1 PROVE r[i].end <= c.end
  <2>1. CASE i \in 1 .. m
    BY <1>3, <1>7, <2>1
  <2>2. CASE i = m + 1
    BY <1>3, <1>4, <2>2
  <2> QED
    BY <1>6, <2>1, <2>2
<1> QED
  BY <1>2, <1>3, <1>8, <1>9 DEF Cut

\* cdc_candidates: each chunk begins where the one before it ends.
LEMMA ChunksSorted ==
  ASSUME NEW bd \in Bodies, NEW p \in Policies
  PROVE  Sorted(ChunkGroups(bd, p))
<1>1. PICK n : n \in Nat /\ n = Len(Idx(bd.bytes)) /\ n = Len(bd.bytes)
  BY NodesOf, IdxOf
<1>0. \A k \in 1 .. n : Idx(bd.bytes)[k] = k
  BY <1>1, NodesOf, IdxOf
<1>2. PICK h \in [0 .. n -> ChunkStates(bd, p)] :
        /\ h[0] = [h |-> 0, start |-> 0, out |-> <<>>] /\ h[n] = ChunksDone(bd, p)
        /\ \A k \in 1 .. n : h[k] = ChunkTaken(h[k - 1], Idx(bd.bytes)[k], bd, p)
  BY <1>1, ChunksPath
<1> DEFINE Good == {k \in 0 .. n : Cut(h[k].out, h[k].start)}
<1>3. 0 \in Good
  <2>1. PICK o : o = h[0].out
    OBVIOUS
  <2>2. o = <<>>
    BY <1>2, <2>1
  <2>3. DOMAIN o = {}
    BY <2>2
  <2>4. Cut(o, h[0].start)
    BY <2>3 DEF Cut
  <2> QED
    BY <1>1, <2>1, <2>4
<1>4. ASSUME NEW k \in 0 .. n - 1, k \in Good PROVE k + 1 \in Good
  <2>1. PICK j, a : j = k + 1 /\ a = h[k]
    OBVIOUS
  <2>2. j \in 1 .. n /\ j - 1 = k /\ j \in 0 .. n /\ k \in 0 .. n
    BY <1>1, <2>1
  <2>3. a \in ChunkStates(bd, p) /\ Cut(a.out, a.start)
    BY <1>2, <1>4, <2>1, <2>2
  <2>4. a.out \in Seq(Cuts(bd, p)) /\ a.start \in 0 .. n
    BY <1>1, <2>3 DEF ChunkStates
  <2>5. h[j] = ChunkTaken(a, j, bd, p)
    BY <1>0, <1>1, <1>2, <2>1, <2>2
  <2>6. CASE h[j].out = a.out /\ h[j].start = a.start
    BY <2>1, <2>2, <2>3, <2>6
  <2>7. CASE /\ j - a.start >= ChunkFloor(p) /\ h[j].start = j
             /\ h[j].out = Append(a.out, ChunkAt(a.start, j, p))
    <3>1. a.start <= j
      <4>1. ChunkFloor(p) \in Nat
        BY PolicyAssumption DEF ChunkFloor
      <4>2. PICK f, s : f = ChunkFloor(p) /\ s = a.start
        OBVIOUS
      <4> QED
        BY <2>2, <2>4, <2>7, <4>1, <4>2
    <3>2. PICK c : c = ChunkAt(a.start, j, p)
      OBVIOUS
    <3>3. c \in Cuts(bd, p) /\ c.start = a.start /\ c.end = j
      <4>1. c \in Cuts(bd, p)
        BY <1>1, <2>2, <2>4, <3>1, <3>2, CutType
      <4> QED
        BY <3>2, <4>1 DEF ChunkAt
    <3>4. Cut(Append(a.out, c), j)
      BY <2>3, <2>4, <3>3, CutFurther
    <3> QED
      BY <2>1, <2>2, <2>7, <3>2, <3>4
  <2> QED
    BY <2>5, <2>6, <2>7 DEF ChunkTaken
<1>5. \A k \in 0 .. n : k \in Good
  <2> HIDE DEF Good
  <2> QED
    BY <1>1, <1>3, <1>4, UpTo
<1>6. PICK d : d = ChunksDone(bd, p)
  OBVIOUS
<1>7. d \in ChunkStates(bd, p) /\ Cut(d.out, d.start)
  <2>1. n \in Good
    BY <1>1, <1>5
  <2> QED
    BY <1>2, <1>6, <2>1
<1>8. d.out \in Seq(Cuts(bd, p)) /\ d.start \in 0 .. n
  BY <1>1, <1>7 DEF ChunkStates
<1>9. PICK cs : cs = Chunks(bd, p)
  OBVIOUS
<1>10. \E e : Cut(cs, e)
  <2>1. CASE d.start < n
    <3>1. PICK c : c = ChunkAt(d.start, n, p)
      OBVIOUS
    <3>2. cs = Append(d.out, c)
      BY <1>1, <1>6, <1>9, <2>1, <3>1, ChunksIsFold
    <3>3. c \in Cuts(bd, p)
      <4>1. n \in 0 .. Len(bd.bytes) /\ d.start \in 0 .. Len(bd.bytes) /\ d.start <= n
        BY <1>1, <1>8, <2>1
      <4> QED
        BY <3>1, <4>1, CutType
    <3>4. c.start = d.start
      BY <3>1 DEF ChunkAt
    <3> QED
      BY <1>7, <1>8, <3>2, <3>3, <3>4, CutFurther
  <2>2. CASE ~(d.start < n)
    BY <1>1, <1>6, <1>7, <1>9, <2>2, ChunksIsFold
  <2> QED
    BY <2>1, <2>2
<1> QED
  BY <1>9, <1>10 DEF Sorted, Cut, ChunkGroups

\* What is to come is in order, and begins no earlier than what the builder has ends.
Room(q, at) == \A g \in ToSet(q) : at <= g.cand.start
Ahead == Sorted(groups) /\ Room(groups, builder.pos + Opening(open))

LEMMA NothingAhead == \A at : Sorted(<<>>) /\ Room(<<>>, at)
BY DEF Sorted, Room, ToSet

\* The first group, and the others behind it.
LEMMA SortedTail ==
  ASSUME NEW bd, NEW p, NEW q \in Seq(GroupsOf(bd, p)), q # <<>>, Sorted(q)
  PROVE  /\ Head(q) \in ToSet(q) /\ ToSet(Tail(q)) \subseteq ToSet(q)
         /\ Sorted(Tail(q)) /\ Room(Tail(q), Head(q).cand.end)
<1>1. PICK n : n \in Nat /\ n = Len(q) /\ n >= 1
  OBVIOUS
<1>2. PICK r : r = Tail(q)
  OBVIOUS
<1>3. /\ Head(q) = q[1] /\ DOMAIN q = 1 .. n /\ DOMAIN r = 1 .. n - 1
      /\ \A i \in 1 .. n - 1 : r[i] = q[i + 1]
  BY <1>1, <1>2, HeadTailProperties
<1>4. \A i \in 1 .. n - 1 : i + 1 \in 1 .. n /\ 1 < i + 1
  BY <1>1
<1>5. ASSUME NEW i \in 1 .. n - 1, NEW j \in 1 .. n - 1, i < j
      PROVE  r[i].cand.end <= r[j].cand.start
  <2>1. i + 1 < j + 1
    BY <1>5
  <2> QED
    BY <1>3, <1>4, <2>1 DEF Sorted
<1>6. Sorted(r)
  BY <1>3, <1>5 DEF Sorted
<1>7. \A i \in 1 .. n - 1 : q[1].cand.end <= r[i].cand.start
  BY <1>1, <1>3, <1>4 DEF Sorted
<1>8. Room(r, Head(q).cand.end)
  BY <1>3, <1>7 DEF Room, ToSet
<1> QED
  BY <1>2, <1>6, <1>8, TailOf

\* A split finds its groups.
LEMMA AheadSplit == ASSUME IInv, Split(doc) PROVE Ahead'
<1>1. /\ doc' = doc /\ builder' = NewBuilder /\ open' = Closed
      /\ doc \in Bodies /\ policy \in Policies
  BY DocBytes DEF Split
<1>2. NewBuilder.pos + Opening(open') = 0
  BY <1>1 DEF NewBuilder, Opening
<1>3. PICK q : q = groups'
  OBVIOUS
<1>4. q \in {<<>>, StructuralGroups(doc, policy), ChunkGroups(doc, policy)}
  BY <1>3 DEF Split
<1>5. q \in Seq(GroupsOf(doc, policy)) /\ Sorted(q)
  <2>1. <<>> \in Seq(GroupsOf(doc, policy)) /\ Sorted(<<>>)
    BY NothingAhead
  <2>2. /\ StructuralGroups(doc, policy) \in Seq(GroupsOf(doc, policy))
        /\ Sorted(StructuralGroups(doc, policy))
    BY <1>1, StructuralType, StructuralSorted
  <2>3. /\ ChunkGroups(doc, policy) \in Seq(GroupsOf(doc, policy))
        /\ Sorted(ChunkGroups(doc, policy))
    BY <1>1, ChunkGroupsType, ChunksSorted
  <2> QED
    BY <1>4, <2>1, <2>2, <2>3
<1>6. Room(q, 0)
  <2>1. \A g \in ToSet(q) : g \in GroupsOf(doc, policy)
    BY <1>5, SeqFinite
  <2>2. Len(doc.bytes) \in Nat
    BY DocBytes
  <2>3. \A g \in GroupsOf(doc, policy) : 0 <= g.cand.start
    BY <2>2 DEF GroupsOf, Spots
  <2> QED
    BY <2>1, <2>3 DEF Room
<1> QED
  BY <1>1, <1>2, <1>3, <1>5, <1>6 DEF Ahead

LEMMA AheadReference == ASSUME IInv, EInv, Ahead, Reference PROVE Ahead'
<1>1. action = "splitting" /\ open = Closed /\ groups # <<>> /\ groups' = Tail(groups)
  BY DEF Reference
<1>2. /\ groups \in Seq(GroupsOf(doc, policy)) /\ Fields \subseteq DOMAIN builder
      /\ Stands(builder.instrs, doc.bytes, Kinds, 0, builder.pos)
  BY DEF EInv, Building
<1>3. PICK c : c = Head(groups).cand
  OBVIOUS
<1>4. c \in Spots(doc, Kinds, policy)
  BY <1>1, <1>2, <1>3, HeadGroup
<1>5. c.start \in Nat /\ c.end \in Nat /\ c.start <= c.end /\ Size(c) = c.end - c.start
  BY <1>4 DEF Spots, Size
<1>6. /\ ToSet(groups') \subseteq ToSet(groups) /\ Sorted(groups') /\ Room(groups', c.end)
  BY <1>1, <1>2, <1>3, SortedTail DEF Ahead
<1>7. CASE UNCHANGED <<builder, open>>
  BY <1>6, <1>7 DEF Ahead, Room
<1>8. ASSUME ~(UNCHANGED <<builder, open>>) PROVE builder'.pos + Opening(open') = c.end
  <2>1. builder.pos <= c.start
    BY <1>3, <1>8 DEF Reference
  <2>2. PICK b : b = Counted(c)
    OBVIOUS
  <2>3. Fields \subseteq DOMAIN b /\ b.pos = c.start
    BY <1>2, <1>4, <2>1, <2>2, CountedStands
  <2>4. CASE \E e : builder' = Refer(e, c) /\ Fields \subseteq DOMAIN e /\ UNCHANGED open
    <3>1. builder'.pos = c.end
      BY <2>4 DEF Refer, Fields
    <3>2. Opening(open') = 0
      BY <1>1, <2>4 DEF Opening
    <3> QED
      BY <1>5, <3>1, <3>2
  <2>5. CASE builder' = b /\ open' = [cand |-> c, instrs |-> <<>>, kids |-> Head(groups).kids,
                                      pos |-> c.start]
    <3>1. open'.cand = c
      BY <2>5
    <3>2. Opening(open') = Size(c)
      BY <1>4, <3>1, NotClosed DEF Opening
    <3>3. builder'.pos = c.start
      BY <2>3, <2>5
    <3> QED
      BY <1>5, <3>2, <3>3
  <2>6. PICK k : k = Raw(DigestAt(c))
    OBVIOUS
  <2>7. Fields \subseteq DOMAIN Queue(b, k)
    BY <2>3 DEF Queue, Fields
  <2>8. \/ builder' = Refer(b, c) /\ UNCHANGED open
        \/ builder' = Refer(Queue(b, k), c) /\ UNCHANGED open
        \/ builder' = b /\ open' = [cand |-> c, instrs |-> <<>>, kids |-> Head(groups).kids,
                                    pos |-> c.start]
    BY <1>3, <1>8, <2>2, <2>6, Zenon DEF Reference
  <2> QED
    BY <2>3, <2>4, <2>5, <2>7, <2>8
<1>9. CASE ~(UNCHANGED <<builder, open>>)
  BY <1>6, <1>8, <1>9 DEF Ahead
<1> QED
  BY <1>7, <1>9

LEMMA AheadNest == ASSUME IInv, EInv, Ahead, Nest PROVE Ahead'
<1> DEFINE ch   == Head(open.kids)
           d    == DigestAt(ch)
           once == [builder EXCEPT !.refs = @ + 1]
<1>1. groups' = groups /\ open # Closed
  BY NothingOpen DEF Nest
<1>2. open \in Opens /\ open.cand \in Spots(doc, Kinds, policy) /\ Fields \subseteq DOMAIN builder
  BY <1>1, SpotsOfKinds DEF EInv, Opened, Opens, Members, Building
<1>3. open'.cand = open.cand
  <2>1. CASE open' = [open EXCEPT !.kids = Tail(@)]
    BY <1>2, <2>1 DEF Opens
  <2>2. CASE ~(open' = [open EXCEPT !.kids = Tail(@)])
    <3>1. \E x, y : open' = [open EXCEPT !.kids = Tail(@), !.pos = x, !.instrs = y]
      BY <2>2, Zenon DEF Nest
    <3> QED
      BY <1>2, <3>1 DEF Opens
  <2> QED
    BY <2>1, <2>2
<1>4. Opening(open') = Opening(open)
  BY <1>1, <1>2, <1>3, NotClosed DEF Opening
<1>5. builder'.pos = builder.pos
  <2>1. PICK o, k : o = once /\ k = Raw(d)
    OBVIOUS
  <2>2. builder' \in {builder, o, Queue(o, k)}
    BY <2>1 DEF Nest
  <2>3. Fields \subseteq DOMAIN o /\ o.pos = builder.pos
    BY <1>2, <2>1 DEF Fields
  <2>4. Queue(o, k).pos = o.pos
    BY <2>3 DEF Queue, Fields
  <2> QED
    BY <2>2, <2>3, <2>4
<1> QED
  BY <1>1, <1>4, <1>5 DEF Ahead

LEMMA AheadClose == ASSUME IInv, EInv, Ahead, CloseBlock PROVE Ahead'
<1>1. groups' = groups /\ open # Closed /\ open' = Closed
  BY DEF CloseBlock
<1>2. /\ open \in Opens /\ builder.pos = open.cand.start /\ Fields \subseteq DOMAIN builder
  BY <1>1 DEF EInv, Opened, Building
<1>3. open.cand \in Spots(doc, Kinds, policy)
  BY <1>2, SpotsOfKinds DEF Opens, Members
<1>4. PICK c : c = open.cand
  OBVIOUS
<1>5. c.start \in Nat /\ c.end \in Nat /\ Size(c) = c.end - c.start
  BY <1>3, <1>4 DEF Spots, Size
<1>6. PICK k, q : q = Queue(builder, k) /\ builder' = Refer(q, c)
  BY <1>4, CloseBlockMakes
<1>7. Fields \subseteq DOMAIN q
  BY <1>2, <1>6 DEF Queue, Fields
<1>8. builder'.pos = c.end
  BY <1>6, <1>7 DEF Refer, Fields
<1>9. builder.pos + Opening(open) = builder'.pos + Opening(open')
  BY <1>1, <1>2, <1>4, <1>5, <1>8 DEF Opening
<1> QED
  BY <1>1, <1>9 DEF Ahead

LEMMA AheadHolds == Spec => []Ahead
<1>1. Init => Ahead
  BY NothingAhead DEF Init, Ahead
<1>2. IInv /\ EInv /\ Ahead /\ [Next]_vars => Ahead'
  <2> SUFFICES ASSUME IInv, EInv, Ahead, [Next]_vars PROVE Ahead'
    OBVIOUS
  <2>1. CASE UNCHANGED split
    <3>1. UNCHANGED <<builder, open, groups>>
      BY <2>1 DEF split
    <3> QED
      BY <3>1 DEF Ahead
  <2>2. CASE Splits
    <3>1. ASSUME Finish PROVE Ahead'
      <4>1. groups' = <<>>
        BY <3>1 DEF Finish
      <4> QED
        BY <4>1, NothingAhead DEF Ahead
    <3> QED
      BY <2>2, <3>1, AheadSplit, AheadReference, AheadNest, AheadClose DEF Splits
  <2>3. CASE NextTurn
    <3>1. groups' = <<>>
      BY <2>3 DEF NextTurn
    <3> QED
      BY <3>1, NothingAhead DEF Ahead
  <2>4. CASE ~(Splits \/ NextTurn)
    <3>1. UNCHANGED split
      BY <2>4 DEF Next, Upload, SendWhole, Resend, FailThenWhole, Arrive, Rebuild, Resolve,
                  RemoteEvicts, LocalEvicts, ViewErrs, ViewForgets, Event, Done, vars
    <3> QED
      BY <2>1, <3>1
  <2> QED
    BY <2>2, <2>3, <2>4
<1> QED
  BY <1>1, <1>2, IInvHolds, EInvHolds, PTL DEF Spec

\* The Builder's instructions are as long as the part of the body it has dealt with, each
\* byte of it counted once, as literal or as covered by a reference; and no candidate
\* begins within that part, so that none is lost (structural_groups, cdc_candidates).
THEOREM NoCandidateIsLost == Spec => []Tiles
<1>1. IInv /\ EInv /\ Books /\ Ahead => Tiles
  <2> SUFFICES ASSUME IInv, EInv, Books, Ahead PROVE Tiles
    OBVIOUS
  <2>1. /\ doc.bytes \in Seq(Byte)
        /\ Stands(builder.instrs, doc.bytes, Kinds, 0, builder.pos)
    BY DocBytes DEF EInv, Building
  <2>2. TotalLen(builder.instrs) = builder.pos - 0 /\ builder.pos \in Nat
    BY <2>1, StandsTotal DEF Stands
  <2>3. PICK o : o = Opening(open)
    OBVIOUS
  <2>4. /\ TotalLen(builder.instrs) = builder.pos
        /\ builder.lit_bytes + builder.ref_covered = builder.pos + o
        /\ \A g \in ToSet(groups) : builder.pos + o <= g.cand.start
    BY <2>2, <2>3 DEF Books, Booked, Ahead, Room
  <2> QED
    BY <2>3, <2>4 DEF Tiles, Opening
<1> QED
  BY <1>1, IInvHolds, EInvHolds, BooksHold, AheadHolds, PTL
=============================================================================
