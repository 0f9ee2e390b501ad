----------------------------- MODULE LinkProofs -----------------------------
(***************************************************************************)
(* Theorems about the link, for every set of requests, blocks and          *)
(* connections, every program of blocks, every bound, and every choice of  *)
(* what the environment may do.                                            *)
(***************************************************************************)
EXTENDS Link, TLAPS, FiniteSetTheorems, SequenceTheorems


-----------------------------------------------------------------------------
(* Frames and the sequences they travel in. *)

\* What a frame carries, by its tag.
LEMMA UpFields ==
  ASSUME NEW f \in UpFrame
  PROVE  /\ f.tag = "Block" => f.block \in Blocks
         /\ f.tag = "Program" => f.req \in Requests
         /\ f.tag = "RequestBody" => f.req \in Requests
         /\ f.tag = "RequestHead" => f.req \in Requests /\ f.split \in BOOLEAN
BY DEF UpFrame

\* The same, on the way down.
LEMMA DownFields ==
  ASSUME NEW f \in DownFrame
  PROVE  /\ f.tag = "Need" => f.blocks \in SUBSET Blocks
         /\ f.tag = "Bloom" => f.blocks \in SUBSET Blocks
         /\ f.tag = "ResponseHead" => f.part \in Parts
         /\ f.tag = "ResponseBody" => f.part \in Parts
         /\ f.tag = "HelloAck" => f.ok \in BOOLEAN /\ f.empty \in BOOLEAN
         /\ f.tag = "Fail" => f.clear \in BOOLEAN
BY DEF DownFrame

\* Every frame either end writes is a frame of its direction.
LEMMA UpTypes ==
  /\ Hello \in UpFrame /\ EndOfBody \in UpFrame /\ Reset \in UpFrame
  /\ \A r \in Requests : /\ Program(r) \in UpFrame /\ RequestBody(r) \in UpFrame
                         /\ \A s \in BOOLEAN : RequestHead(r, s) \in UpFrame
  /\ \A b \in Blocks : BlockFrame(b) \in UpFrame
BY DEF UpFrame, Hello, EndOfBody, Reset, Program, RequestBody, RequestHead, BlockFrame

LEMMA DownTypes ==
  /\ \A x, y \in BOOLEAN : HelloAck(x, y) \in DownFrame
  /\ \A ds \in SUBSET Blocks : Need(ds) \in DownFrame /\ Bloom(ds) \in DownFrame
  /\ \A x \in BOOLEAN : Fail(x) \in DownFrame
  /\ ResponseEnd \in DownFrame
  /\ \A r \in Requests, n, i \in Nat :
       /\ Part(r, n, i) \in Parts
       /\ ResponseHead(r, n) \in DownFrame
       /\ ResponseBody(r, n, i) \in DownFrame
BY DEF DownFrame, HelloAck, Need, Bloom, Fail, ResponseEnd, ResponseHead,
       ResponseBody, Part, Parts

\* An enumeration of a set of blocks is a sequence of them.
LEMMA SetToSeqType ==
  ASSUME NEW S \in SUBSET Blocks
  PROVE  SetToSeq(S) \in Seq(S)
<1>1. IsFiniteSet(S)
  BY FiniteAssumption, FS_Subset
<1>2. Cardinality(S) \in Nat /\ ExistsBijection(1..Cardinality(S), S)
  BY <1>1, FS_CardinalityType
<1>3. \E f : f \in [1..Cardinality(S) -> S] /\ IsInjective(f)
  BY <1>2 DEF ExistsBijection, Bijection, Injection, IsInjective
<1>4. SetToSeq(S) \in [1..Cardinality(S) -> S]
  BY <1>3 DEF SetToSeq
<1> QED
  BY <1>2, <1>4, SeqDef

\* A mapped enumeration: the frames of a set of blocks, in some order.
LEMMA BlockFrames ==
  ASSUME NEW s \in Seq(Blocks)
  PROVE  [i \in DOMAIN s |-> BlockFrame(s[i])] \in Seq(UpFrame)
<1>1. \A i \in DOMAIN s : BlockFrame(s[i]) \in UpFrame
  BY UpTypes
<1> QED
  BY <1>1, SeqDef

\* What is queued for upload is a sequence of blocks.
LEMMA ToPushType ==
  ASSUME NEW r \in Requests, NEW has
  PROVE  /\ NewRoots(r, has) \subseteq Blocks /\ NewKids(r, has) \subseteq Blocks
         /\ ToPush(r, has) \in Seq(Blocks)
<1>1. NewRoots(r, has) \subseteq Blocks
  BY BodyAssumption DEF NewRoots
<1>2. NewKids(r, has) \subseteq Blocks
  BY <1>1, BodyAssumption DEF NewKids
<1>3. /\ SetToSeq(NewKids(r, has)) \in Seq(Blocks)
      /\ SetToSeq(NewRoots(r, has) \ NewKids(r, has)) \in Seq(Blocks)
  BY <1>1, <1>2, SetToSeqType, SeqDef
<1> QED
  BY <1>1, <1>2, <1>3 DEF ToPush

\* The upload of a turn is a sequence of frames of the uplink.
LEMMA UploadType ==
  ASSUME TypeOK, NEW r \in Requests, NEW c \in Conns
  PROVE  Upload(r, c) \in Seq(UpFrame)
<1>1. turn[r].push \in Seq(Blocks) /\ (~turn[r].whole) \in BOOLEAN
  BY DEF TypeOK, TypeLocal, Turn
<1>0. RequestHead(r, ~turn[r].whole) \in UpFrame
  BY <1>1, UpTypes
<1>2. [i \in DOMAIN turn[r].push |-> BlockFrame(turn[r].push[i])] \in Seq(UpFrame)
  BY <1>1, BlockFrames
<1>3. /\ <<Program(r)>> \in Seq(UpFrame) /\ <<RequestBody(r)>> \in Seq(UpFrame)
      /\ <<Hello>> \in Seq(UpFrame) /\ <<EndOfBody>> \in Seq(UpFrame)
      /\ <<>> \in Seq(UpFrame) /\ <<RequestHead(r, ~turn[r].whole)>> \in Seq(UpFrame)
  BY <1>0, UpTypes
<1>4. Payload(r) \in Seq(UpFrame)
  BY <1>2, <1>3 DEF Payload
<1>5. (IF used[c] = 0 THEN <<Hello>> ELSE <<>>) \in Seq(UpFrame)
  BY <1>3
<1> QED
  BY <1>3, <1>4, <1>5 DEF Upload

\* The answer to a Need is a sequence of frames of the uplink.
LEMMA ResendType ==
  ASSUME TypeOK, NEW r \in Requests
  PROVE  Resend(r) \in Seq(UpFrame)
<1> DEFINE held == SetToSeq(Incoming(r).blocks \cap lstore)
<1>1. Incoming(r).blocks \cap lstore \in SUBSET Blocks
  BY DEF TypeOK, TypeViews
<1>2. held \in Seq(Blocks)
  BY <1>1, SetToSeqType, SeqDef
<1>3. Resend(r) = [i \in DOMAIN held |-> BlockFrame(held[i])] \o <<EndOfBody>>
  BY DEF Resend
<1>4. <<EndOfBody>> \in Seq(UpFrame)
  BY UpTypes
<1> HIDE DEF held
<1>5. [i \in DOMAIN held |-> BlockFrame(held[i])] \in Seq(UpFrame)
  BY <1>2, BlockFrames
<1> QED
  BY <1>3, <1>4, <1>5

-----------------------------------------------------------------------------
(* The remote end: its steps keep the types and leave the local end alone. *)

\* A task, fresh or ended, is a task.
LEMMA TaskTypes == NewTask \in Task /\ Ended \in Task
<1>1. NoHead \in [req : Requests \cup {None}, split : BOOLEAN]
  BY DEF NoHead
<1>2. <<>> \in Seq(Requests)
  OBVIOUS
<1>3. NewTask \in Task
  BY <1>1, <1>2 DEF NewTask, Task
<1> QED
  BY <1>3 DEF Ended, Task

\* A task that closes leaves everything of its type, whatever was lost.
LEMMA CloseTypes ==
  ASSUME TypeWire, TypeRemote, NEW c \in Conns, NEW frames \in Seq(DownFrame),
         NEW unread, Close(c, frames, unread)
  PROVE  /\ task' \in [Conns -> Task]
         /\ up' \in [Conns -> Seq(UpFrame)] /\ down' \in [Conns -> Seq(DownFrame)]
<1> DEFINE all == IF Heard(c) THEN down[c] \o frames ELSE down[c]
<1>1. down[c] \in Seq(DownFrame) /\ <<>> \in Seq(DownFrame) /\ <<>> \in Seq(UpFrame)
  BY DEF TypeWire
<1>2. all \in Seq(DownFrame)
  BY <1>1
<1>3. \E left \in {<<>>, all} : down' = [down EXCEPT ![c] = left]
  BY DEF Close
<1>4. up' = [up EXCEPT ![c] = <<>>] /\ task' = [task EXCEPT ![c] = Ended]
  BY DEF Close
<1> HIDE DEF all
<1>5. down' \in [Conns -> Seq(DownFrame)]
  BY <1>1, <1>2, <1>3 DEF TypeWire
<1>6. up' \in [Conns -> Seq(UpFrame)]
  BY <1>1, <1>4 DEF TypeWire
<1>7. task' \in [Conns -> Task]
  BY <1>4, TaskTypes DEF TypeRemote
<1> QED
  BY <1>5, <1>6, <1>7

\* So does one that writes frames of the downlink.
LEMMA WriteTypes ==
  ASSUME TypeWire, TypeRemote, NEW c \in Conns, NEW frames \in Seq(DownFrame),
         NEW next \in Task, NEW rest \in Seq(UpFrame), Write(c, frames, next, rest)
  PROVE  /\ task' \in [Conns -> Task]
         /\ up' \in [Conns -> Seq(UpFrame)] /\ down' \in [Conns -> Seq(DownFrame)]
<1>1. CASE Close(c, <<>>, FALSE)
  <2>1. <<>> \in Seq(DownFrame)
    OBVIOUS
  <2> QED
    BY <1>1, <2>1, CloseTypes
<1>2. CASE /\ task' = [task EXCEPT ![c] = next]
           /\ up' = [up EXCEPT ![c] = rest]
           /\ down' = IF Heard(c) THEN [down EXCEPT ![c] = @ \o frames] ELSE down
  <2>1. down[c] \o frames \in Seq(DownFrame)
    BY DEF TypeWire
  <2>2. down' \in [Conns -> Seq(DownFrame)]
    BY <1>2, <2>1 DEF TypeWire
  <2>3. up' \in [Conns -> Seq(UpFrame)]
    BY <1>2 DEF TypeWire
  <2>4. task' \in [Conns -> Task]
    BY <1>2 DEF TypeRemote
  <2> QED
    BY <2>2, <2>3, <2>4
<1> QED
  BY <1>1, <1>2 DEF Write

\* The frame a task reads, and what is behind it.
LEMMA UplinkTypes ==
  ASSUME TypeWire, NEW c \in Conns, up[c] # <<>>
  PROVE  Frame(c) \in UpFrame /\ Tail(up[c]) \in Seq(UpFrame)
BY DEF TypeWire, Frame

\* Reading a frame leaves frames.
LEMMA PopTypes ==
  ASSUME TypeWire, NEW c \in Conns, up[c] # <<>>, Pop(c)
  PROVE  up' \in [Conns -> Seq(UpFrame)]
BY UplinkTypes DEF TypeWire, Pop

\* The remote end touches neither the local end nor what the environment decides.
LEMMA RemoteLeaves ==
  ASSUME NEW c \in Conns, Remote(c)
  PROVE  UNCHANGED <<local, views, cut, admin>>
BY DEF Remote, RemoteHello, RemoteHead, RemoteProgram, RemoteBody, RemoteBlock,
       RemoteReset, RemoteAsksAgain, RemoteFails, RemoteForwards, RemoteEof,
       RemoteResponds, RemoteRelays, RemoteFinishes

\* What the remote end asks for are sets of blocks.
LEMMA WantedType ==
  ASSUME TypeOK, NEW c \in Conns
  PROVE  Wanted(c) \subseteq SUBSET Blocks
<1>1. Refs(c) \subseteq Blocks
  BY BodyAssumption DEF Refs, TypeOK, TypeRemote, Task
<1> QED
  BY <1>1, BodyAssumption DEF Wanted

\* The steps that read a frame of a request.
LEMMA RemoteReads ==
  ASSUME TypeOK, NEW c \in Conns,
         \/ RemoteHello(c) \/ RemoteHead(c) \/ RemoteProgram(c) \/ RemoteBody(c)
         \/ RemoteBlock(c) \/ RemoteReset(c)
  PROVE  TypeWire' /\ TypeRemote'
<1> USE DEF TypeOK
<1>1. cut' = cut /\ cut \subseteq Conns
  BY DEF TypeWire, RemoteHello, RemoteHead, RemoteProgram, RemoteBody, RemoteBlock,
         RemoteReset
<1>2. up[c] # <<>> /\ Frame(c) \in UpFrame /\ Tail(up[c]) \in Seq(UpFrame)
  BY UplinkTypes DEF RemoteHello, RemoteHead, RemoteProgram, RemoteBody, RemoteBlock,
         RemoteReset, Received
<1>3. task[c] \in Task /\ <<>> \in Seq(DownFrame)
  BY DEF TypeRemote
<1>4. CASE RemoteHello(c)
  <2> DEFINE ack == HelloAck(paired, rstore = {})
  <2>1. <<ack>> \in Seq(DownFrame)
    <3>1. paired \in BOOLEAN
      BY DEF TypeAdmin
    <3>2. (rstore = {}) \in BOOLEAN
      OBVIOUS
    <3>3. ack \in DownFrame
      BY <3>1, <3>2, DownTypes
    <3> HIDE DEF ack
    <3> QED
      BY <3>3
  <2>2. [task[c] EXCEPT !.greeted = TRUE] \in Task
    BY <1>3 DEF Task
  <2>3. rstore' = rstore /\ calls' = calls
    BY <1>4 DEF RemoteHello
  <2>4. \/ Write(c, <<ack>>, [task[c] EXCEPT !.greeted = TRUE], Tail(up[c]))
        \/ Close(c, <<ack>>, Tail(up[c]) # <<>>)
    BY <1>4 DEF RemoteHello
  <2> HIDE DEF ack
  <2>5. /\ task' \in [Conns -> Task]
        /\ up' \in [Conns -> Seq(UpFrame)] /\ down' \in [Conns -> Seq(DownFrame)]
    BY <1>2, <2>1, <2>2, <2>4, WriteTypes, CloseTypes
  <2> QED
    BY <1>1, <2>3, <2>5 DEF TypeWire, TypeRemote
<1>5. CASE RemoteHead(c)
  <2>1. rstore' = rstore /\ calls' = calls
    BY <1>5 DEF RemoteHead
  <2>2. CASE Close(c, <<>>, TRUE)
    BY <1>1, <1>3, <2>1, <2>2, CloseTypes DEF TypeWire, TypeRemote
  <2>3. CASE /\ task' = [task EXCEPT ![c].head =
                                       [req |-> Frame(c).req, split |-> Frame(c).split]]
             /\ Pop(c) /\ UNCHANGED down
    <3>1. [req |-> Frame(c).req, split |-> Frame(c).split]
            \in [req : Requests \cup {None}, split : BOOLEAN]
      BY <1>2, <1>5, UpFields DEF RemoteHead, Received, Frame
    <3>2. task' \in [Conns -> Task]
      BY <1>3, <2>3, <3>1 DEF TypeRemote, Task
    <3> QED
      BY <1>1, <1>2, <2>1, <2>3, <3>2, PopTypes DEF TypeWire, TypeRemote
  <2> QED
    BY <1>5, <2>2, <2>3 DEF RemoteHead
<1>6. CASE RemoteProgram(c)
  <2>1. Frame(c).req \in Requests
    BY <1>2, <1>6, UpFields DEF RemoteProgram, Received, Frame
  <2>2. task' \in [Conns -> Task]
    BY <1>3, <1>6, <2>1 DEF RemoteProgram, TypeRemote, Task
  <2> QED
    BY <1>1, <1>2, <1>6, <2>2, PopTypes DEF RemoteProgram, TypeWire, TypeRemote
<1>7. CASE RemoteBody(c)
  <2>1. Frame(c).req \in Requests
    BY <1>2, <1>7, UpFields DEF RemoteBody, Received, Frame
  <2>2. Append(task[c].literal, Frame(c).req) \in Seq(Requests)
    BY <1>3, <2>1 DEF Task
  <2>3. task' \in [Conns -> Task]
    BY <1>3, <1>7, <2>2 DEF RemoteBody, TypeRemote, Task
  <2> QED
    BY <1>1, <1>2, <1>7, <2>3, PopTypes DEF RemoteBody, TypeWire, TypeRemote
<1>8. CASE RemoteBlock(c)
  <2>1. Frame(c).block \in Blocks
    BY <1>2, <1>8, UpFields DEF RemoteBlock, Received, Frame
  <2> QED
    BY <1>1, <1>2, <1>8, <2>1, PopTypes DEF RemoteBlock, TypeWire, TypeRemote
<1>9. CASE RemoteReset(c)
  BY <1>1, <1>2, <1>9, PopTypes DEF RemoteReset, TypeWire, TypeRemote
<1> QED
  BY <1>4, <1>5, <1>6, <1>7, <1>8, <1>9

\* The steps at the end of a body, and the end of file.
LEMMA RemoteRebuilds ==
  ASSUME TypeOK, NEW c \in Conns,
         \/ RemoteAsksAgain(c) \/ RemoteFails(c) \/ RemoteForwards(c) \/ RemoteEof(c)
  PROVE  TypeWire' /\ TypeRemote'
<1> USE DEF TypeOK
<1>1. /\ cut' = cut /\ cut \subseteq Conns /\ rstore' = rstore
      /\ task[c] \in Task /\ <<>> \in Seq(DownFrame)
  <2>1. cut' = cut /\ rstore' = rstore
    BY DEF RemoteAsksAgain, RemoteFails, RemoteForwards, RemoteEof
  <2>2. task[c] \in Task /\ <<>> \in Seq(DownFrame) /\ cut \subseteq Conns
    BY DEF TypeWire, TypeRemote
  <2> QED
    BY <2>1, <2>2
<1>2. CASE RemoteAsksAgain(c)
  <2> DEFINE asks == [task[c] EXCEPT !.pc = "repair", !.repairs = @ + 1]
  <2>1. PICK ds \in Wanted(c) : Write(c, <<Need(ds)>>, asks, Tail(up[c]))
    BY <1>2 DEF RemoteAsksAgain
  <2>2. <<Need(ds)>> \in Seq(DownFrame)
    BY WantedType, DownTypes
  <2>3. asks \in Task
    <3>1. task[c].repairs + 1 \in Nat
      BY <1>1 DEF Task
    <3> QED
      BY <1>1, <3>1 DEF Task
  <2>4. Tail(up[c]) \in Seq(UpFrame)
    BY <1>2, UplinkTypes DEF RemoteAsksAgain, BodyComplete, Received
  <2> HIDE DEF asks
  <2>5. /\ task' \in [Conns -> Task]
        /\ up' \in [Conns -> Seq(UpFrame)] /\ down' \in [Conns -> Seq(DownFrame)]
    BY <2>1, <2>2, <2>3, <2>4, WriteTypes
  <2> QED
    BY <1>1, <1>2, <2>5 DEF RemoteAsksAgain, TypeWire, TypeRemote
<1>3. CASE RemoteFails(c)
  <2> DEFINE last == LastWords(c)
  <2>1. last \in Seq(DownFrame)
    <3> DEFINE fail == Fail(Wanted(c) # {})
    <3>1. (Wanted(c) # {}) \in BOOLEAN
      OBVIOUS
    <3>2. fail \in DownFrame
      BY <3>1, DownTypes
    <3>3. last = <<>> \/ last = <<fail>>
      BY DEF LastWords
    <3> HIDE DEF fail, last
    <3>4. <<>> \in Seq(DownFrame) /\ <<fail>> \in Seq(DownFrame)
      BY <3>2
    <3> QED
      BY <3>3, <3>4
  <2>2. Close(c, last, FALSE) /\ calls' = calls
    BY <1>3 DEF RemoteFails
  <2> HIDE DEF last
  <2>3. /\ task' \in [Conns -> Task]
        /\ up' \in [Conns -> Seq(UpFrame)] /\ down' \in [Conns -> Seq(DownFrame)]
    BY <2>1, <2>2, CloseTypes
  <2> QED
    BY <1>1, <2>2, <2>3 DEF TypeWire, TypeRemote
<1>4. CASE RemoteForwards(c)
  <2> DEFINE r == task[c].head.req
  <2>1. r \in Requests
    BY <1>1, <1>4 DEF RemoteForwards, Intact, Task
  <2>2. calls' \in [Requests -> Nat] /\ calls[r] + 1 \in Nat
    BY <1>4, <2>1 DEF RemoteForwards, TypeRemote
  <2>3. task' \in [Conns -> Task]
    <3> DEFINE next == [task[c] EXCEPT !.pc = "upstream", !.call = calls[r] + 1,
                          !.relayed = 0, !.repairs = 0,
                          !.literal = IF task[c].head.split THEN @ ELSE <<>>]
    <3>1. task' = [task EXCEPT ![c] = next]
      BY <1>4 DEF RemoteForwards, TypeRemote
    <3> DEFINE rest == IF task[c].head.split THEN task[c].literal ELSE <<>>
    <3>2. rest \in Seq(Requests)
      BY <1>1 DEF Task
    <3>3. next = [task[c] EXCEPT !.pc = "upstream", !.call = calls[r] + 1,
                    !.relayed = 0, !.repairs = 0, !.literal = rest]
      OBVIOUS
    <3> HIDE DEF rest, next, r
    <3>4. next \in Task
      BY <1>1, <2>2, <3>2, <3>3 DEF Task
    <3> QED
      BY <3>1, <3>4 DEF TypeRemote
  <2>4. up[c] # <<>> /\ Pop(c) /\ down' = down
    BY <1>4 DEF RemoteForwards, BodyComplete, Received
  <2> QED
    BY <1>1, <2>2, <2>3, <2>4, PopTypes DEF TypeWire, TypeRemote
<1>5. CASE RemoteEof(c)
  <2>1. Close(c, <<>>, FALSE) /\ calls' = calls
    BY <1>5 DEF RemoteEof
  <2>2. /\ task' \in [Conns -> Task]
        /\ up' \in [Conns -> Seq(UpFrame)] /\ down' \in [Conns -> Seq(DownFrame)]
    BY <1>1, <2>1, CloseTypes
  <2> QED
    BY <1>1, <2>1, <2>2 DEF TypeWire, TypeRemote
<1> QED
  BY <1>2, <1>3, <1>4, <1>5

\* The steps that relay an answer: there is a request it belongs to.
LEMMA RemoteAnswers ==
  ASSUME TypeOK, Bookkeeping, NEW c \in Conns,
         \/ RemoteResponds(c) \/ RemoteRelays(c) \/ RemoteFinishes(c)
  PROVE  TypeWire' /\ TypeRemote'
<1> USE DEF TypeOK
<1>1. cut' = cut /\ rstore' = rstore /\ calls' = calls
  BY DEF RemoteResponds, RemoteRelays, RemoteFinishes
<1>2. task[c] \in Task /\ up[c] \in Seq(UpFrame) /\ cut \subseteq Conns
  BY DEF TypeWire, TypeRemote
<1>3. \E fs \in Seq(DownFrame), next \in Task : Write(c, fs, next, up[c])
  <2>1. CASE RemoteResponds(c)
    <3> DEFINE head == ResponseHead(task[c].head.req, task[c].call)
               next == [task[c] EXCEPT !.pc = "relay"]
    <3>1. Write(c, <<head>>, next, up[c])
      BY <2>1 DEF RemoteResponds
    <3>2. task[c].head.req \in Requests /\ task[c].call \in Nat
      BY <1>2, <2>1 DEF RemoteResponds, Bookkeeping, Task
    <3>3. head \in DownFrame
      BY <3>2, DownTypes
    <3>4. next \in Task
      BY <1>2 DEF Task
    <3> HIDE DEF head, next
    <3>5. <<head>> \in Seq(DownFrame)
      BY <3>3
    <3> QED
      BY <3>1, <3>4, <3>5
  <2>2. CASE RemoteRelays(c)
    <3> DEFINE body == ResponseBody(task[c].head.req, task[c].call, task[c].relayed + 1)
               next == [task[c] EXCEPT !.relayed = @ + 1]
    <3>1. Write(c, <<body>>, next, up[c])
      BY <2>2 DEF RemoteRelays
    <3>2. /\ task[c].head.req \in Requests /\ task[c].call \in Nat
          /\ task[c].relayed + 1 \in Nat
      BY <1>2, <2>2 DEF RemoteRelays, Bookkeeping, Task
    <3>3. body \in DownFrame
      BY <3>2, DownTypes
    <3>4. next \in Task
      BY <1>2, <3>2 DEF Task
    <3> HIDE DEF body, next
    <3>5. <<body>> \in Seq(DownFrame)
      BY <3>3
    <3> QED
      BY <3>1, <3>4, <3>5
  <2>3. CASE RemoteFinishes(c)
    <3> DEFINE next == [task[c] EXCEPT !.pc = "read", !.head = NoHead, !.instrs = None,
                                       !.call = 0, !.relayed = 0]
    <3>1. PICK extra \in SUBSET Collide :
            Write(c, <<Bloom(rstore \cup extra), ResponseEnd>>, next, up[c])
      BY <2>3 DEF RemoteFinishes
    <3>2. Bloom(rstore \cup extra) \in DownFrame /\ ResponseEnd \in DownFrame
      BY DownTypes, EnvAssumption DEF TypeRemote
    <3>3. next \in Task
      BY <1>2 DEF Task, NoHead
    <3> HIDE DEF next
    <3>4. <<Bloom(rstore \cup extra), ResponseEnd>> \in Seq(DownFrame)
      BY <3>2
    <3> QED
      BY <3>1, <3>3, <3>4
  <2> QED
    BY <2>1, <2>2, <2>3
<1>4. /\ task' \in [Conns -> Task]
      /\ up' \in [Conns -> Seq(UpFrame)] /\ down' \in [Conns -> Seq(DownFrame)]
  BY <1>2, <1>3, WriteTypes
<1> QED
  BY <1>1, <1>2, <1>4 DEF TypeWire, TypeRemote

\* Together: a step of the remote end keeps the types.
LEMMA RemoteTypes ==
  ASSUME TypeOK, Bookkeeping, NEW c \in Conns, Remote(c)
  PROVE  TypeOK'
<1>1. TypeWire' /\ TypeRemote'
  BY RemoteReads, RemoteRebuilds, RemoteAnswers DEF Remote
<1>2. UNCHANGED <<local, views, cut, admin>>
  BY RemoteLeaves
<1> QED
  BY <1>1, <1>2 DEF TypeOK, TypeLocal, TypeViews, TypeAdmin, local, views, admin, console

-----------------------------------------------------------------------------
(* The local end and the environment. *)

\* An attempt on connection c begins: what local_end writes and notes is typed.
LEMMA AfterBegin ==
  ASSUME TypeOK, NEW r \in Requests, NEW c \in Conns, NEW heard,
         turn[r].attempt < 2, Begin(r, c, heard)
  PROVE  /\ turn' \in [Requests -> Turn] /\ used' \in [Conns -> Nat]
         /\ up' \in [Conns -> Seq(UpFrame)] /\ sent' \subseteq Blocks
<1> USE DEF TypeOK
<1>1. turn[r] \in Turn /\ turn[r].attempt + 1 \in 0..2 /\ used[c] + 1 \in Nat
  BY DEF TypeLocal, Turn
<1>2. turn' \in [Requests -> Turn]
  <2> DEFINE next == [turn[r] EXCEPT !.pc = "await", !.attempt = @ + 1,
                                     !.conn = c, !.repairs = 0]
  <2>1. turn' = [turn EXCEPT ![r] = next]
    BY DEF Begin, TypeLocal
  <2>2. next \in Turn
    BY <1>1 DEF Turn
  <2> HIDE DEF next
  <2> QED
    BY <2>1, <2>2 DEF TypeLocal
<1>3. used' \in [Conns -> Nat]
  BY <1>1 DEF Begin, TypeLocal
<1>4. up' \in [Conns -> Seq(UpFrame)]
  <2>1. up[c] \o Upload(r, c) \in Seq(UpFrame)
    BY UploadType DEF TypeWire
  <2> QED
    BY <2>1 DEF Begin, TypeWire
<1>5. sent' \subseteq Blocks
  <2>1. ToSet(turn[r].push) \subseteq Blocks
    BY <1>1 DEF Turn, ToSet
  <2> QED
    BY <2>1 DEF Begin, TypeViews
<1> QED
  BY <1>2, <1>3, <1>4, <1>5

\* Letting go of connections.
LEMMA AfterDrop ==
  ASSUME TypeLocal, NEW cs, DropConns(cs)
  PROVE  dialed' \subseteq Conns /\ used' \in [Conns -> Nat]
BY DEF DropConns, TypeLocal

\* What the agent has seen once its turn is over.
LEMMA AgentTypes ==
  ASSUME TypeLocal, NEW r \in Requests
  PROVE  AgentAtEnd(r) \in {"idle", "waiting", "streaming", "ended", "refused", "gone"}
BY DEF AgentAtEnd, TypeLocal

\* An attempt that fails leaves everything of its type.
LEMMA AfterFailure ==
  ASSUME TypeOK, NEW r \in Requests, turn[r].conn \in Conns, AttemptFails(r)
  PROVE  TypeLocal' /\ down' \in [Conns -> Seq(DownFrame)]
<1> USE DEF TypeOK
<1> DEFINE next == [turn[r] EXCEPT !.pc = IF Retryable(r) THEN "ready" ELSE "over",
                                   !.whole = TRUE, !.push = <<>>, !.conn = None]
<1>1. turn' = [turn EXCEPT ![r] = next]
  BY DEF AttemptFails, TypeLocal
<1>2. next \in Turn
  <2> DEFINE pc == IF Retryable(r) THEN "ready" ELSE "over"
  <2>1. pc \in {"new", "ready", "await", "over"} /\ <<>> \in Seq(Blocks)
    OBVIOUS
  <2>2. next = [turn[r] EXCEPT !.pc = pc, !.whole = TRUE, !.push = <<>>, !.conn = None]
    OBVIOUS
  <2>3. turn[r] \in Turn
    BY DEF TypeLocal
  <2> HIDE DEF pc, next
  <2> QED
    BY <2>1, <2>2, <2>3 DEF Turn
<1> HIDE DEF next
<1>3. turn' \in [Requests -> Turn]
  BY <1>1, <1>2 DEF TypeLocal
<1>4. agent' \in [Requests ->
                   {"idle", "waiting", "streaming", "ended", "refused", "gone"}]
  BY AgentTypes DEF AttemptFails, TypeLocal
<1>5. down' \in [Conns -> Seq(DownFrame)]
  <2>1. <<>> \in Seq(DownFrame)
    OBVIOUS
  <2> QED
    BY <2>1 DEF AttemptFails, TypeWire
<1>6. dialed' \subseteq Conns /\ used' \in [Conns -> Nat]
  BY AfterDrop DEF AttemptFails
<1>7. got' = got /\ pool' = pool
  BY DEF AttemptFails
<1> QED
  BY <1>3, <1>4, <1>5, <1>6, <1>7 DEF TypeLocal

\* The frame local_end reads, and the rest of the downlink behind it.
LEMMA DownlinkTypes ==
  ASSUME TypeOK, NEW r \in Requests, NEW tag, Arrived(r, tag), turn[r].conn \in Conns
  PROVE  /\ Incoming(r) \in DownFrame /\ Incoming(r).tag = tag
         /\ Tail(down[turn[r].conn]) \in Seq(DownFrame)
         /\ Consume(r) => down' \in [Conns -> Seq(DownFrame)]
<1>1. /\ down[turn[r].conn] \in Seq(DownFrame) /\ down[turn[r].conn] # <<>>
      /\ Incoming(r) = Head(down[turn[r].conn]) /\ Incoming(r).tag = tag
  BY DEF TypeOK, TypeWire, Arrived, Incoming
<1>2. Incoming(r) \in DownFrame /\ Tail(down[turn[r].conn]) \in Seq(DownFrame)
  BY <1>1
<1>3. Consume(r) => down' \in [Conns -> Seq(DownFrame)]
  BY <1>2 DEF Consume, TypeOK, TypeWire
<1> QED
  BY <1>1, <1>2, <1>3

\* The steps that prepare a request and get a connection for it.
LEMMA LocalTakes ==
  ASSUME TypeOK, Bookkeeping, NEW r \in Requests,
         Prepare(r) \/ TakePooled(r) \/ Dial(r) \/ DialFails(r)
  PROVE  TypeLocal' /\ TypeViews' /\ TypeWire' /\ TypeRemote'
<1> USE DEF TypeOK
<1>1. turn[r] \in Turn
  BY DEF TypeLocal
<1>2. CASE Prepare(r)
  <2>1. PICK seen \in SeenBlooms, shadow \in BOOLEAN :
          LET has == sent \cup seen
              whole == Prog[r] = {} \/ shadow
          IN /\ turn' = [turn EXCEPT ![r].pc = "ready", ![r].whole = whole,
                            ![r].push = IF whole THEN <<>> ELSE ToPush(r, has)]
             /\ lstore' = lstore \cup NewRoots(r, has) \cup NewKids(r, has)
    BY <1>2 DEF Prepare
  <2> DEFINE has == sent \cup seen
             whole == Prog[r] = {} \/ shadow
             push == IF whole THEN <<>> ELSE ToPush(r, has)
             next == [turn[r] EXCEPT !.pc = "ready", !.whole = whole, !.push = push]
  <2>2. turn' = [turn EXCEPT ![r] = next]
    BY <2>1 DEF TypeLocal
  <2>3. push \in Seq(Blocks) /\ NewRoots(r, has) \subseteq Blocks
        /\ NewKids(r, has) \subseteq Blocks
    BY ToPushType
  <2>4. whole \in BOOLEAN
    OBVIOUS
  <2>5. lstore' \subseteq Blocks
    BY <2>1, <2>3 DEF TypeViews
  <2>6. next \in Turn
    <3> HIDE DEF whole, push
    <3> QED
      BY <1>1, <2>3, <2>4 DEF Turn
  <2> HIDE DEF next
  <2>7. turn' \in [Requests -> Turn]
    BY <2>2, <2>6 DEF TypeLocal
  <2>8. agent' \in [Requests ->
                     {"idle", "waiting", "streaming", "ended", "refused", "gone"}]
    BY <1>2 DEF Prepare, TypeLocal
  <2>9. UNCHANGED <<got, pool, dialed, used, sent, bloom, wire, remote>>
    BY <1>2 DEF Prepare
  <2> QED
    BY <2>5, <2>7, <2>8, <2>9
    DEF TypeLocal, TypeViews, TypeWire, TypeRemote, wire, remote
<1>3. CASE TakePooled(r)
  <2>1. Last(pool) \in Conns /\ Front(pool) \in Seq(Conns)
    BY <1>3 DEF TakePooled, TypeLocal, Last, Front
  <2>2. turn[r].attempt < 2
    BY <1>3 DEF TakePooled, Bookkeeping
  <2>3. /\ turn' \in [Requests -> Turn] /\ used' \in [Conns -> Nat]
        /\ up' \in [Conns -> Seq(UpFrame)] /\ sent' \subseteq Blocks
    BY <1>3, <2>1, <2>2, AfterBegin DEF TakePooled
  <2>4. pool' = Front(pool)
        /\ UNCHANGED <<agent, got, dialed, lstore, bloom, down, cut, remote>>
    BY <1>3 DEF TakePooled
  <2> QED
    BY <2>1, <2>3, <2>4 DEF TypeLocal, TypeViews, TypeWire, TypeRemote, remote
<1>4. CASE Dial(r)
  <2>1. PICK c \in Conns : /\ Begin(r, c, TRUE) /\ dialed' = dialed \cup {c}
                            /\ cut' = cut \ {c} /\ task' = [task EXCEPT ![c] = NewTask]
    BY <1>4 DEF Dial, TypeLocal
  <2>2. turn[r].attempt < 2
    BY <1>4 DEF Dial, Bookkeeping
  <2>3. /\ turn' \in [Requests -> Turn] /\ used' \in [Conns -> Nat]
        /\ up' \in [Conns -> Seq(UpFrame)] /\ sent' \subseteq Blocks
    BY <2>1, <2>2, AfterBegin
  <2>4. task' \in [Conns -> Task]
    BY <2>1, TaskTypes DEF TypeRemote
  <2>5. UNCHANGED <<agent, got, pool, lstore, bloom, down, rstore, calls>>
    BY <1>4 DEF Dial
  <2> QED
    BY <2>1, <2>3, <2>4, <2>5 DEF TypeLocal, TypeViews, TypeWire, TypeRemote
<1>5. CASE DialFails(r)
  <2>1. turn' \in [Requests -> Turn]
    <3> DEFINE next == [turn[r] EXCEPT !.pc = "over"]
    <3>1. turn' = [turn EXCEPT ![r] = next]
      BY <1>5 DEF DialFails, TypeLocal
    <3>2. next \in Turn
      BY <1>1 DEF Turn
    <3> HIDE DEF next
    <3> QED
      BY <3>1, <3>2 DEF TypeLocal
  <2>2. agent' \in [Requests ->
                     {"idle", "waiting", "streaming", "ended", "refused", "gone"}]
    BY <1>5, AgentTypes DEF DialFails, TypeLocal
  <2>3. UNCHANGED <<got, pool, dialed, used, views, wire, remote>>
    BY <1>5 DEF DialFails
  <2> QED
    BY <2>1, <2>2, <2>3
    DEF TypeLocal, TypeViews, TypeWire, TypeRemote, views, wire, remote
<1> QED
  BY <1>2, <1>3, <1>4, <1>5

\* The steps that end an attempt, whatever frame they read.
LEMMA LocalGivesUp ==
  ASSUME TypeOK, Bookkeeping, NEW r \in Requests, turn[r].pc = "await",
         AttemptFails(r), up' = up, cut' = cut, sent' \subseteq Blocks,
         UNCHANGED <<lstore, bloom, remote>>
  PROVE  TypeLocal' /\ TypeViews' /\ TypeWire' /\ TypeRemote'
<1>1. turn[r].conn \in Conns
  BY DEF TypeOK, TypeLocal, Turn, Bookkeeping
<1>2. TypeLocal' /\ down' \in [Conns -> Seq(DownFrame)]
  BY <1>1, AfterFailure
<1> QED
  BY <1>2 DEF TypeOK, TypeViews, TypeWire, TypeRemote, remote

\* The steps that read a frame, or the end of file: a turn that awaits an answer
\* has a connection.
LEMMA LocalReads ==
  ASSUME TypeOK, Bookkeeping, NEW r \in Requests,
         \/ LocalEof(r) \/ LocalHelloAck(r) \/ LocalRejected(r) \/ LocalNeed(r)
         \/ LocalFail(r) \/ LocalBloom(r) \/ LocalHead(r) \/ LocalBody(r) \/ LocalEnd(r)
  PROVE  TypeLocal' /\ TypeViews' /\ TypeWire' /\ TypeRemote'
<1> USE DEF TypeOK
<1> DEFINE c == turn[r].conn
<1>1. turn[r].pc = "await" /\ UNCHANGED <<remote, cut>>
  BY DEF LocalEof, LocalHelloAck, LocalRejected, LocalNeed, LocalFail, LocalBloom,
         LocalHead, LocalBody, LocalEnd, Arrived
<1>2. turn[r] \in Turn /\ c \in Conns /\ sent \subseteq Blocks
  BY <1>1 DEF TypeLocal, TypeViews, Turn, Bookkeeping
<1>3. TypeRemote' /\ cut' \subseteq Conns
  BY <1>1 DEF TypeRemote, TypeWire, remote
<1>4. CASE AttemptFails(r) /\ UNCHANGED <<views, up>>
  BY <1>1, <1>2, <1>4, LocalGivesUp DEF views
<1>5. CASE LocalHelloAck(r)
  <2>1. UNCHANGED <<local, lstore, bloom, up>> /\ Consume(r) /\ Arrived(r, "HelloAck")
    BY <1>5 DEF LocalHelloAck
  <2>2. sent' \subseteq Blocks
    BY <1>2, <1>5 DEF LocalHelloAck
  <2>3. down' \in [Conns -> Seq(DownFrame)]
    BY <1>2, <2>1, DownlinkTypes
  <2> QED
    BY <1>3, <2>1, <2>2, <2>3 DEF TypeLocal, TypeViews, TypeWire, local
<1>6. CASE LocalNeed(r)
  <2>1. CASE AttemptFails(r) /\ up' = up
    BY <1>4, <1>6, <2>1 DEF LocalNeed
  <2>2. CASE /\ turn' = [turn EXCEPT ![r].repairs = @ + 1]
             /\ up' = IF Hears(c) THEN [up EXCEPT ![c] = @ \o Resend(r)] ELSE up
             /\ Consume(r)
             /\ UNCHANGED <<agent, got, pool, dialed, used>>
    <3> DEFINE next == [turn[r] EXCEPT !.repairs = @ + 1]
    <3>1. turn' = [turn EXCEPT ![r] = next]
      BY <2>2 DEF TypeLocal
    <3>2. next \in Turn
      BY <1>2 DEF Turn
    <3> HIDE DEF next
    <3>3. turn' \in [Requests -> Turn]
      BY <3>1, <3>2 DEF TypeLocal
    <3>4. up[c] \o Resend(r) \in Seq(UpFrame)
      BY <1>2, ResendType DEF TypeWire
    <3>5. up' \in [Conns -> Seq(UpFrame)]
      BY <1>2, <2>2, <3>4 DEF TypeWire
    <3>6. down' \in [Conns -> Seq(DownFrame)]
      BY <1>2, <1>6, <2>2, DownlinkTypes DEF LocalNeed
    <3>7. UNCHANGED views
      BY <1>6 DEF LocalNeed
    <3> QED
      BY <1>3, <2>2, <3>3, <3>5, <3>6, <3>7 DEF TypeLocal, TypeViews, TypeWire, views
  <2> QED
    BY <1>6, <2>1, <2>2 DEF LocalNeed
<1>7. CASE LocalFail(r)
  <2>1. sent' \subseteq Blocks
    BY <1>2, <1>7 DEF LocalFail
  <2> QED
    BY <1>1, <1>7, <2>1, LocalGivesUp DEF LocalFail
<1>8. CASE LocalBloom(r)
  <2>1. Incoming(r).blocks \in SUBSET Blocks /\ down' \in [Conns -> Seq(DownFrame)]
    BY <1>2, <1>8, DownlinkTypes, DownFields DEF LocalBloom
  <2>2. UNCHANGED <<local, lstore, sent, up>> /\ bloom' = Incoming(r).blocks
    BY <1>8 DEF LocalBloom
  <2> QED
    BY <1>3, <2>1, <2>2 DEF TypeLocal, TypeViews, TypeWire, local
<1>9. CASE /\ LocalHead(r) \/ LocalBody(r)
           /\ got' = [got EXCEPT ![r] = Append(@, Incoming(r).part)]
           /\ Consume(r) /\ UNCHANGED <<pool, dialed, used>>
  <2>1. Incoming(r).part \in Parts /\ down' \in [Conns -> Seq(DownFrame)]
    BY <1>2, <1>9, DownlinkTypes, DownFields DEF LocalHead, LocalBody
  <2>2. got' \in [Requests -> Seq(Parts)]
    BY <1>9, <2>1 DEF TypeLocal
  <2> DEFINE next == [turn[r] EXCEPT !.headSent = TRUE]
  <2>3. next \in Turn
    BY <1>2 DEF Turn
  <2>4. turn' = turn \/ turn' = [turn EXCEPT ![r] = next] \/ AttemptFails(r)
    BY <1>9 DEF LocalHead, LocalBody, TypeLocal
  <2> HIDE DEF next
  <2>5. turn' \in [Requests -> Turn]
    BY <1>2, <2>3, <2>4, AfterFailure DEF TypeLocal
  <2>6. agent' \in [Requests ->
                     {"idle", "waiting", "streaming", "ended", "refused", "gone"}]
    BY <1>2, <1>9, AfterFailure DEF LocalHead, LocalBody, TypeLocal
  <2>7. UNCHANGED <<views, up>>
    BY <1>9 DEF LocalHead, LocalBody
  <2> QED
    BY <1>3, <1>9, <2>1, <2>2, <2>5, <2>6, <2>7
    DEF TypeLocal, TypeViews, TypeWire, views
<1>10. CASE LocalEnd(r)
  <2> DEFINE next == [turn[r] EXCEPT !.pc = "over", !.conn = None]
  <2>1. turn' = [turn EXCEPT ![r] = next] /\ UNCHANGED <<got, views, up>>
    BY <1>10 DEF LocalEnd, TypeLocal
  <2>2. next \in Turn
    BY <1>2 DEF Turn
  <2> HIDE DEF next
  <2>3. turn' \in [Requests -> Turn]
    BY <2>1, <2>2 DEF TypeLocal
  <2>4. agent' \in [Requests ->
                     {"idle", "waiting", "streaming", "ended", "refused", "gone"}]
    BY <1>10, AgentTypes DEF LocalEnd, TypeLocal
  <2>5. CASE pool' = Append(pool, c) /\ Consume(r) /\ UNCHANGED <<dialed, used>>
    <3>1. down' \in [Conns -> Seq(DownFrame)]
      BY <1>2, <1>10, <2>5, DownlinkTypes DEF LocalEnd
    <3> QED
      BY <1>2, <1>3, <2>1, <2>3, <2>4, <2>5, <3>1
      DEF TypeLocal, TypeViews, TypeWire, views
  <2>6. CASE DropConns({c}) /\ down' = [down EXCEPT ![c] = <<>>] /\ UNCHANGED pool
    <3>1. dialed' \subseteq Conns /\ used' \in [Conns -> Nat]
      BY <2>6, AfterDrop
    <3>2. <<>> \in Seq(DownFrame)
      OBVIOUS
    <3> QED
      BY <1>3, <2>1, <2>3, <2>4, <2>6, <3>1, <3>2
      DEF TypeLocal, TypeViews, TypeWire, views
  <2> QED
    BY <1>10, <2>5, <2>6 DEF LocalEnd
<1> QED
  BY <1>4, <1>5, <1>6, <1>7, <1>8, <1>9, <1>10
  DEF LocalEof, LocalRejected, LocalHead, LocalBody

\* Together: a step of the local end keeps the types.
LEMMA LocalTypes ==
  ASSUME TypeOK, Bookkeeping, NEW r \in Requests, Local(r)
  PROVE  TypeOK'
<1>1. TypeLocal' /\ TypeViews' /\ TypeWire' /\ TypeRemote'
  BY LocalTakes, LocalReads DEF Local
<1>2. UNCHANGED admin
  BY DEF Local, Prepare, TakePooled, Dial, LocalEof, LocalHelloAck, LocalRejected,
         LocalNeed, LocalFail, LocalBloom, LocalHead, LocalBody, LocalEnd
<1> QED
  BY <1>1, <1>2 DEF TypeOK, TypeAdmin, admin, console

\* An event is counted, within the bound.
LEMMA EventTypes ==
  ASSUME TypeAdmin, NEW e, Event(e), UNCHANGED <<paired, console>>
  PROVE  TypeAdmin'
BY BoundsAssumption, EnvAssumption DEF TypeAdmin, Event, console

\* The environment keeps the types.
LEMMA EnvironmentTypes ==
  ASSUME TypeOK, Bookkeeping, Environment
  PROVE  TypeOK'
<1> USE DEF TypeOK
<1>0. <<>> \in Seq(UpFrame) /\ <<>> \in Seq(DownFrame)
  OBVIOUS
<1>1. ASSUME NEW r \in Requests, DialFails(r)  PROVE TypeOK'
  BY <1>1, LocalTakes, EventTypes DEF DialFails
<1>2. ASSUME NEW r \in Requests, AgentHangsUp(r)  PROVE TypeOK'
  <2>1. TypeAdmin'
    BY <1>2, EventTypes DEF AgentHangsUp
  <2>2. /\ agent' = [agent EXCEPT ![r] = "gone"]
        /\ UNCHANGED <<turn, got, pool, dialed, used, views, wire, remote>>
    BY <1>2 DEF AgentHangsUp
  <2> QED
    BY <2>1, <2>2 DEF TypeLocal, TypeViews, TypeWire, TypeRemote, views, wire, remote
<1>3. ASSUME NEW c \in Conns, Cut(c)  PROVE TypeOK'
  <2>1. TypeAdmin'
    BY <1>3, EventTypes DEF Cut
  <2>2. cut' \subseteq Conns /\ UNCHANGED <<local, views, remote>>
    BY <1>3 DEF Cut, TypeWire
  <2>3. up' \in [Conns -> Seq(UpFrame)] /\ down' \in [Conns -> Seq(DownFrame)]
    <3>1. \E u \in {<<>>, up[c]} : up' = [up EXCEPT ![c] = u]
      BY <1>3 DEF Cut
    <3>2. \E d \in {<<>>, down[c]} : down' = [down EXCEPT ![c] = d]
      BY <1>3 DEF Cut
    <3>3. up' \in [Conns -> Seq(UpFrame)]
      BY <1>0, <3>1 DEF TypeWire
    <3>4. down' \in [Conns -> Seq(DownFrame)]
      BY <1>0, <3>2 DEF TypeWire
    <3> QED
      BY <3>3, <3>4
  <2> QED
    BY <2>1, <2>2, <2>3 DEF TypeLocal, TypeViews, TypeWire, TypeRemote, local, views, remote
<1>4. ASSUME NEW c \in Conns, UpstreamBreaks(c)  PROVE TypeOK'
  <2>1. TypeAdmin'
    BY <1>4, EventTypes DEF UpstreamBreaks
  <2>2. Close(c, <<>>, FALSE) /\ UNCHANGED <<local, views, cut, rstore, calls>>
    BY <1>4 DEF UpstreamBreaks
  <2>3. /\ task' \in [Conns -> Task]
        /\ up' \in [Conns -> Seq(UpFrame)] /\ down' \in [Conns -> Seq(DownFrame)]
    BY <1>0, <2>2, CloseTypes
  <2> QED
    BY <2>1, <2>2, <2>3 DEF TypeLocal, TypeViews, TypeWire, TypeRemote, local, views
<1>5. ASSUME NEW b \in Blocks, RemoteEvicts(b) \/ LocalEvicts(b)  PROVE TypeOK'
  <2>1. TypeAdmin'
    BY <1>5, EventTypes DEF RemoteEvicts, LocalEvicts
  <2> QED
    BY <1>5, <2>1 DEF RemoteEvicts, LocalEvicts, TypeLocal, TypeViews, TypeWire,
                      TypeRemote, local, views, wire, remote
<1>6. ASSUME Restart  PROVE TypeOK'
  <2>1. TypeAdmin'
    BY <1>6, EventTypes DEF Restart
  <2>2. task' \in [Conns -> Task] /\ rstore' = {} /\ up' \in [Conns -> Seq(UpFrame)]
    BY <1>0, <1>6, TaskTypes DEF Restart
  <2>3. down' \in [Conns -> Seq(DownFrame)]
    BY <1>0, <1>6 DEF Restart, TypeWire
  <2>4. UNCHANGED <<local, views, cut, calls>>
    BY <1>6 DEF Restart
  <2> QED
    BY <2>1, <2>2, <2>3, <2>4
    DEF TypeLocal, TypeViews, TypeWire, TypeRemote, local, views
<1>7. ASSUME ResetViews  PROVE TypeOK'
  BY <1>7, EnvAssumption, BoundsAssumption DEF ResetViews, Event, TypeLocal, TypeViews, TypeWire, TypeRemote, TypeAdmin,
              local, wire, remote
<1> QED
  BY <1>1, <1>2, <1>3, <1>4, <1>5, <1>6, <1>7 DEF Environment

\* reset_cache keeps the types: the pool is as long as what is left to do.
LEMMA ResettingTypes ==
  ASSUME TypeOK, Bookkeeping, Resetting
  PROVE  TypeOK'
<1> USE DEF TypeOK
<1>0. CASE ResetBloom
  BY <1>0 DEF ResetBloom, TypeLocal, TypeViews, TypeWire, TypeRemote, TypeAdmin,
              local, wire, remote
<1>1. CASE ResetLocks
  BY <1>1 DEF ResetLocks, TypeLocal, TypeViews, TypeWire, TypeRemote, TypeAdmin,
              local, views, wire, remote
<1>2. CASE ResetConn
  <2> DEFINE c == Head(pool)
  <2>1. Len(pool) > 0 /\ c \in Conns /\ Tail(pool) \in Seq(Conns)
    BY <1>2 DEF ResetConn, Bookkeeping, TypeLocal, TypeAdmin
  <2>2. pool' \in Seq(Conns)
    <3>1. pool' = Append(Tail(pool), c) \/ pool' = Tail(pool)
      BY <1>2 DEF ResetConn
    <3> HIDE DEF c
    <3>2. Append(Tail(pool), c) \in Seq(Conns)
      BY <2>1
    <3> QED
      BY <2>1, <3>1, <3>2
  <2>3. dialed' \subseteq Conns /\ used' \in [Conns -> Nat]
    BY <1>2, AfterDrop DEF ResetConn, TypeLocal
  <2>4. up' \in [Conns -> Seq(UpFrame)]
    <3>1. Append(up[c], Reset) \in Seq(UpFrame)
      BY <2>1, UpTypes DEF TypeWire
    <3> QED
      BY <1>2, <2>1, <3>1 DEF ResetConn, TypeWire
  <2>5. down' \in [Conns -> Seq(DownFrame)]
    <3>1. <<>> \in Seq(DownFrame)
      OBVIOUS
    <3> QED
      BY <1>2, <2>1, <3>1 DEF ResetConn, TypeWire
  <2>6. todo' \in Nat
    BY <1>2 DEF ResetConn, TypeAdmin
  <2>7. UNCHANGED <<turn, agent, got, views, cut, remote, paired, events, resetting>>
    BY <1>2 DEF ResetConn
  <2> QED
    BY <2>2, <2>3, <2>4, <2>5, <2>6, <2>7
    DEF TypeLocal, TypeViews, TypeWire, TypeRemote, TypeAdmin, views, remote
<1>3. CASE ResetStore
  BY <1>3 DEF ResetStore, TypeLocal, TypeViews, TypeWire, TypeRemote, TypeAdmin,
              local, wire, remote
<1> QED
  BY <1>0, <1>1, <1>2, <1>3 DEF Resetting

\* Every step keeps the types.
LEMMA NextTypes == TypeOK /\ Bookkeeping /\ [Next]_vars => TypeOK'
<1> SUFFICES ASSUME TypeOK, Bookkeeping, [Next]_vars  PROVE TypeOK'
  OBVIOUS
<1>1. CASE UNCHANGED vars
  BY <1>1 DEF TypeOK, TypeLocal, TypeViews, TypeWire, TypeRemote, TypeAdmin,
              vars, local, views, wire, remote, admin, console
<1>2. CASE Idle
  BY <1>1, <1>2 DEF Idle
<1> QED
  BY <1>1, <1>2, LocalTypes, RemoteTypes, EnvironmentTypes, ResettingTypes DEF Next

-----------------------------------------------------------------------------
(* What the types rely on is kept as well. *)

\* It holds at the start.
LEMMA BookkeepingInit == Init => Bookkeeping
BY DEF Init, Bookkeeping, NewTurn, NewTask, Ended

\* One turn's driver moves, to a state Bookkeeping allows.
TurnStep(r) ==
  /\ turn' = [turn EXCEPT ![r] = turn'[r]]
  /\ turn'[r].pc = "await" <=> turn'[r].conn # None
  /\ turn'[r].pc # "new"
  /\ turn'[r].pc = "ready" => turn'[r].attempt < 2

\* A failed attempt leaves no connection behind and is the last or the first.
LEMMA FailureSteps ==
  ASSUME TypeOK, NEW r \in Requests, AttemptFails(r)
  PROVE  TurnStep(r) /\ pool' = pool /\ turn'[r].conn = None
<1>1. turn \in [Requests -> Turn]
  BY DEF TypeOK, TypeLocal
<1>2. turn' = [turn EXCEPT ![r] = turn'[r]]
  BY <1>1 DEF AttemptFails
<1>3. /\ turn'[r].pc = IF Retryable(r) THEN "ready" ELSE "over"
      /\ turn'[r].conn = None /\ turn'[r].attempt = turn[r].attempt
  BY <1>1 DEF AttemptFails, Turn
<1>4. Retryable(r) => turn[r].attempt = 1
  BY DEF Retryable
<1>5. pool' = pool
  BY DEF AttemptFails
<1> QED
  BY <1>2, <1>3, <1>4, <1>5 DEF TurnStep

\* An attempt that begins has the connection it was given.
LEMMA BeginSteps ==
  ASSUME TypeOK, NEW r \in Requests, NEW c \in Conns, NEW heard, Begin(r, c, heard)
  PROVE  TurnStep(r) /\ turn'[r].conn = c
<1> DEFINE next == [turn[r] EXCEPT !.pc = "await", !.attempt = @ + 1,
                                   !.conn = c, !.repairs = 0]
<1>1. turn \in [Requests -> Turn] /\ turn[r] \in Turn
  BY DEF TypeOK, TypeLocal
<1>2. turn' = [turn EXCEPT ![r] = next]
  BY <1>1 DEF Begin
<1>3. next.pc = "await" /\ next.conn = c /\ c # None
  BY <1>1, NoneAssumption DEF Turn
<1> HIDE DEF next
<1>4. turn'[r] = next
  BY <1>1, <1>2
<1> QED
  BY <1>2, <1>3, <1>4 DEF TurnStep

\* Every step of the local end moves the driver of one turn so, or of none.
LEMMA LocalSteps ==
  ASSUME TypeOK, Bookkeeping, NEW r \in Requests, Local(r) \/ DialFails(r)
  PROVE  turn' = turn \/ TurnStep(r)
<1>0. turn[r] \in Turn /\ turn \in [Requests -> Turn]
  BY DEF TypeOK, TypeLocal
<1>1. CASE AttemptFails(r)
  BY <1>1, FailureSteps
<1>2. CASE Prepare(r)
  <2>1. turn[r].conn = None /\ turn[r].attempt = 0
    BY <1>2 DEF Prepare, Bookkeeping
  <2>2. PICK whole, push : turn' = [turn EXCEPT ![r].pc = "ready", ![r].whole = whole,
                                                ![r].push = push]
    BY <1>2 DEF Prepare
  <2>3. turn' = [turn EXCEPT ![r] =
          [turn[r] EXCEPT !.pc = "ready", !.whole = whole, !.push = push]]
    BY <1>0, <2>2
  <2>4. /\ turn'[r].conn = None /\ turn'[r].pc = "ready" /\ turn'[r].attempt = 0
        /\ turn' = [turn EXCEPT ![r] = turn'[r]]
    BY <1>0, <2>1, <2>3 DEF Turn
  <2> QED
    BY <2>4 DEF TurnStep
<1>3. CASE DialFails(r)
  <2>1. turn[r].conn = None
    BY <1>3 DEF DialFails, Bookkeeping
  <2>2. turn' = [turn EXCEPT ![r].pc = "over"]
    BY <1>3 DEF DialFails
  <2>3. /\ turn'[r].conn = None /\ turn'[r].pc = "over"
        /\ turn' = [turn EXCEPT ![r] = turn'[r]]
    BY <1>0, <2>1, <2>2 DEF Turn
  <2> QED
    BY <2>3 DEF TurnStep
<1>4. CASE TakePooled(r) \/ Dial(r)
  <2>1. PICK c \in Conns, heard \in BOOLEAN : Begin(r, c, heard)
    <3>1. TakePooled(r) => Last(pool) \in Conns /\ Hears(Last(pool)) \in BOOLEAN
      BY DEF TakePooled, TypeOK, TypeLocal, Last, Hears
    <3> QED
      BY <1>4, <3>1 DEF TakePooled, Dial
  <2> QED
    BY <2>1, BeginSteps
<1>5. CASE LocalEnd(r)
  BY <1>0, <1>5 DEF LocalEnd, TurnStep, Turn
<1>6. CASE /\ LocalNeed(r) \/ LocalHead(r) \/ LocalBody(r)
           /\ ~AttemptFails(r)
  <2>1. turn[r].pc = "await" /\ turn[r].conn # None
    BY <1>6 DEF LocalNeed, LocalHead, LocalBody, Arrived, Bookkeeping
  <2>2. \/ turn' = [turn EXCEPT ![r].repairs = @ + 1]
        \/ turn' = [turn EXCEPT ![r].headSent = TRUE]
        \/ turn' = turn
    BY <1>6 DEF LocalNeed, LocalHead, LocalBody
  <2>3. turn'[r].pc = "await" /\ turn'[r].conn # None
    BY <1>0, <2>1, <2>2 DEF Turn
  <2>4. turn' = [turn EXCEPT ![r] = turn'[r]]
    BY <1>0, <2>2
  <2> QED
    BY <2>3, <2>4 DEF TurnStep
<1>7. CASE LocalHelloAck(r) \/ LocalBloom(r)
  BY <1>7 DEF LocalHelloAck, LocalBloom, local
<1> QED
  BY <1>1, <1>2, <1>3, <1>4, <1>5, <1>6, <1>7
  DEF Local, LocalEof, LocalRejected, LocalFail

\* One task moves, to a state Bookkeeping allows.
TaskStep(c) ==
  /\ task' = [task EXCEPT ![c] = task'[c]]
  /\ task'[c].pc \in {"upstream", "relay"} => task'[c].head.req # None

\* A task that closes, and one that writes.
LEMMA CloseSteps ==
  ASSUME TypeOK, NEW c \in Conns, NEW frames, NEW unread, Close(c, frames, unread)
  PROVE  TaskStep(c)
<1>1. task' = [task EXCEPT ![c] = Ended] /\ task \in [Conns -> Task]
  BY DEF Close, TypeOK, TypeRemote
<1>2. Ended.pc = "ended"
  BY DEF Ended, NewTask
<1> QED
  BY <1>1, <1>2 DEF TaskStep

LEMMA WriteSteps ==
  ASSUME TypeOK, NEW c \in Conns, NEW frames, NEW next, NEW rest,
         Write(c, frames, next, rest),
         next.pc \in {"upstream", "relay"} => next.head.req # None
  PROVE  TaskStep(c)
<1>1. CASE Close(c, <<>>, FALSE)
  BY <1>1, CloseSteps
<1>2. CASE task' = [task EXCEPT ![c] = next]
  BY <1>2 DEF TaskStep, TypeOK, TypeRemote
<1> QED
  BY <1>1, <1>2 DEF Write

\* Every step of the remote end moves one task so: head is set before the body is
\* forwarded, and kept until the answer is out.
LEMMA RemoteSteps ==
  ASSUME TypeOK, Bookkeeping, NEW c \in Conns, Remote(c) \/ UpstreamBreaks(c)
  PROVE  TaskStep(c)
<1>0. task \in [Conns -> Task] /\ task[c] \in Task
  BY DEF TypeOK, TypeRemote
<1>1. CASE task' = task
  BY <1>0, <1>1 DEF TaskStep, Bookkeeping
<1>2. CASE \E frames, unread : Close(c, frames, unread)
  BY <1>2, CloseSteps
<1>3. CASE \E frames, next, rest :
             /\ Write(c, frames, next, rest)
             /\ next.pc \in {"upstream", "relay"} => next.head.req # None
  BY <1>3, WriteSteps
<1>4. CASE \E next : /\ task' = [task EXCEPT ![c] = next]
                     /\ next.pc \in {"upstream", "relay"} => next.head.req # None
  BY <1>0, <1>4 DEF TaskStep
<1>5. CASE RemoteHello(c)
  <2>1. CASE \E frames, rest : Write(c, frames, [task[c] EXCEPT !.greeted = TRUE], rest)
    <3>1. [task[c] EXCEPT !.greeted = TRUE].pc = "read"
      BY <1>0, <1>5 DEF RemoteHello, Listening, Task
    <3> QED
      BY <1>3, <2>1, <3>1
  <2> QED
    BY <1>2, <1>5, <2>1 DEF RemoteHello
<1>6. CASE RemoteHead(c)
  <2>1. CASE \E h : task' = [task EXCEPT ![c].head = h]
    <3>1. PICK h : task' = [task EXCEPT ![c] = [task[c] EXCEPT !.head = h]]
      BY <1>0, <2>1
    <3>2. [task[c] EXCEPT !.head = h].pc = "read"
      BY <1>0, <1>6 DEF RemoteHead, Listening, Task
    <3> QED
      BY <1>4, <3>1, <3>2
  <2> QED
    BY <1>2, <1>6, <2>1 DEF RemoteHead
<1>7. CASE RemoteProgram(c)
  <2>1. task' = [task EXCEPT ![c] = [task[c] EXCEPT !.instrs = Frame(c).req]]
    BY <1>0, <1>7 DEF RemoteProgram
  <2>2. [task[c] EXCEPT !.instrs = Frame(c).req].pc = "read"
    BY <1>0, <1>7 DEF RemoteProgram, Listening, Task
  <2> QED
    BY <1>4, <2>1, <2>2
<1>8. CASE RemoteBody(c)
  <2> DEFINE next == [task[c] EXCEPT !.literal = Append(@, Frame(c).req)]
  <2>1. task' = [task EXCEPT ![c] = next]
    BY <1>0, <1>8 DEF RemoteBody
  <2>2. next.pc = "read"
    BY <1>0, <1>8 DEF RemoteBody, Listening, Task
  <2> QED
    BY <1>4, <2>1, <2>2
<1>9. CASE RemoteAsksAgain(c)
  <2> DEFINE next == [task[c] EXCEPT !.pc = "repair", !.repairs = @ + 1]
  <2>1. next.pc = "repair"
    BY <1>0 DEF Task
  <2> QED
    BY <1>3, <1>9, <2>1 DEF RemoteAsksAgain
<1>10. CASE RemoteForwards(c)
  <2>1. task[c].head.req # None
    BY <1>10 DEF RemoteForwards, Intact
  <2>2. PICK n, lit : task' = [task EXCEPT ![c].pc = "upstream", ![c].call = n,
                      ![c].relayed = 0, ![c].repairs = 0, ![c].literal = lit]
    BY <1>10 DEF RemoteForwards
  <2>3. task' = [task EXCEPT ![c] = task'[c]] /\ task'[c].head = task[c].head
    BY <1>0, <2>2 DEF Task
  <2> QED
    BY <2>1, <2>3 DEF TaskStep
<1>11. CASE RemoteResponds(c) \/ RemoteRelays(c)
  <2>1. task[c].head.req # None
    BY <1>11 DEF RemoteResponds, RemoteRelays, Bookkeeping
  <2>2. /\ [task[c] EXCEPT !.pc = "relay"].head.req # None
        /\ [task[c] EXCEPT !.relayed = @ + 1].head.req # None
    BY <1>0, <2>1 DEF Task
  <2> QED
    BY <1>3, <1>11, <2>2 DEF RemoteResponds, RemoteRelays
<1>12. CASE RemoteFinishes(c)
  <2> DEFINE next == [task[c] EXCEPT !.pc = "read", !.head = NoHead, !.instrs = None,
                                     !.call = 0, !.relayed = 0]
  <2>1. next.pc = "read"
    BY <1>0 DEF Task
  <2> HIDE DEF next
  <2>2. \E frames, rest : Write(c, frames, next, rest)
    BY <1>12 DEF RemoteFinishes, next
  <2> QED
    BY <1>3, <2>1, <2>2
<1> QED
  BY <1>1, <1>2, <1>5, <1>6, <1>7, <1>8, <1>9, <1>10, <1>11, <1>12
  DEF Remote, RemoteBlock, RemoteReset, RemoteFails, RemoteEof, UpstreamBreaks

\* While reset_cache holds the pool no turn takes from it or gives back to it.
LEMMA PoolHeld ==
  ASSUME TypeOK, NEW r \in Requests, Local(r) \/ DialFails(r), resetting = "locked"
  PROVE  pool' = pool
<1>1. ~PoolFree
  BY DEF PoolFree
<1> QED
  BY <1>1 DEF Local, Prepare, TakePooled, Dial, DialFails, LocalEof, LocalHelloAck,
              LocalRejected, LocalNeed, LocalFail, LocalBloom, LocalHead, LocalBody,
              LocalEnd, AttemptFails, local

\* The parts of Bookkeeping.
TurnsKept ==
  \A r \in Requests : /\ turn[r].pc = "await" <=> turn[r].conn # None
                      /\ turn[r].pc = "new" => turn[r].attempt = 0
                      /\ turn[r].pc = "ready" => turn[r].attempt < 2

TasksKept ==
  \A c \in Conns : task[c].pc \in {"upstream", "relay"} => task[c].head.req # None

ResetKept == (todo > 0 => resetting = "locked") /\ todo <= Len(pool)

\* They are its parts.
LEMMA KeptParts == Bookkeeping <=> TurnsKept /\ TasksKept /\ ResetKept
BY DEF Bookkeeping, TurnsKept, TasksKept, ResetKept

\* The step of one turn keeps the part about turns, that of one task the part
\* about tasks.
LEMMA TurnKept ==
  ASSUME TypeOK, TurnsKept, NEW r \in Requests, turn' = turn \/ TurnStep(r)
  PROVE  TurnsKept'
<1>1. CASE turn' = turn
  BY <1>1 DEF TurnsKept
<1>2. CASE TurnStep(r)
  <2>1. \A q \in Requests \ {r} : turn'[q] = turn[q]
    BY <1>2 DEF TurnStep, TypeOK, TypeLocal
  <2> QED
    BY <1>2, <2>1 DEF TurnsKept, TurnStep
<1> QED
  BY <1>1, <1>2

LEMMA TaskKept ==
  ASSUME TypeOK, TasksKept, NEW c \in Conns, TaskStep(c)
  PROVE  TasksKept'
<1>1. \A d \in Conns \ {c} : task'[d] = task[d]
  BY DEF TaskStep, TypeOK, TypeRemote
<1> QED
  BY <1>1 DEF TasksKept, TaskStep

\* Every step keeps the bookkeeping.
LEMMA NextKeeps == TypeOK /\ Bookkeeping /\ [Next]_vars => Bookkeeping'
<1> SUFFICES ASSUME TypeOK, Bookkeeping, [Next]_vars  PROVE Bookkeeping'
  OBVIOUS
<1>0. TurnsKept /\ TasksKept /\ ResetKept
  BY KeptParts
<1>1. CASE UNCHANGED vars
  BY <1>1 DEF Bookkeeping, vars, local, remote, admin, console
<1>2. ASSUME NEW r \in Requests, Local(r) \/ DialFails(r)  PROVE Bookkeeping'
  <2>1. TurnsKept'
    BY <1>0, <1>2, LocalSteps, TurnKept
  <2>2. TasksKept'
    <3>1. CASE \E c \in Conns : task' = [task EXCEPT ![c] = NewTask]
      BY <1>0, <3>1 DEF TasksKept, NewTask, TypeOK, TypeRemote
    <3>2. CASE task' = task
      BY <1>0, <3>2 DEF TasksKept
    <3> QED
      BY <1>2, <3>1, <3>2
      DEF Local, Prepare, TakePooled, Dial, DialFails, LocalEof, LocalHelloAck,
          LocalRejected, LocalNeed, LocalFail, LocalBloom, LocalHead, LocalBody,
          LocalEnd, remote, TypeOK, TypeLocal
  <2>3. ResetKept'
    <3>1. UNCHANGED <<resetting, todo>>
      BY <1>2 DEF Local, Prepare, TakePooled, Dial, DialFails, LocalEof, LocalHelloAck,
                  LocalRejected, LocalNeed, LocalFail, LocalBloom, LocalHead, LocalBody,
                  LocalEnd, admin, console
    <3>2. CASE resetting = "locked"
      BY <1>0, <1>2, <3>1, <3>2, PoolHeld DEF ResetKept
    <3>3. CASE resetting # "locked"
      <4>1. pool' \in Seq(Conns) /\ todo = 0
        BY <1>0, <1>2, <3>3, LocalTypes, LocalTakes
        DEF ResetKept, TypeOK, TypeLocal, TypeAdmin
      <4> QED
        BY <3>1, <3>3, <4>1 DEF ResetKept
    <3> QED
      BY <3>2, <3>3
  <2> QED
    BY <2>1, <2>2, <2>3 DEF Bookkeeping, TurnsKept, TasksKept, ResetKept
<1>3. ASSUME NEW c \in Conns, Remote(c) \/ UpstreamBreaks(c)  PROVE Bookkeeping'
  <2>1. TasksKept'
    BY <1>0, <1>3, RemoteSteps, TaskKept
  <2>2. UNCHANGED <<turn, pool, resetting, todo>>
    BY <1>3, RemoteLeaves DEF UpstreamBreaks, local, admin, console
  <2> QED
    BY <1>0, <2>1, <2>2 DEF Bookkeeping, TurnsKept, TasksKept, ResetKept
<1>4. ASSUME UNCHANGED <<turn, pool, task, resetting, todo>>  PROVE Bookkeeping'
  BY <1>4 DEF Bookkeeping
<1>5. ASSUME NEW r \in Requests, AgentHangsUp(r)  PROVE Bookkeeping'
  BY <1>4, <1>5 DEF AgentHangsUp, remote, console
<1>6. ASSUME NEW c \in Conns, Cut(c)  PROVE Bookkeeping'
  BY <1>4, <1>6 DEF Cut, local, remote, console
<1>7. ASSUME NEW b \in Blocks, RemoteEvicts(b) \/ LocalEvicts(b)  PROVE Bookkeeping'
  BY <1>4, <1>7 DEF RemoteEvicts, LocalEvicts, local, remote, console
<1>8. CASE Restart
  <2>1. Ended.pc = "ended"
    BY DEF Ended, NewTask
  <2> QED
    BY <1>8, <2>1 DEF Bookkeeping, Restart, local, console
<1>9. CASE ResetViews
  BY <1>9 DEF Bookkeeping, ResetViews, local, remote, TypeOK, TypeAdmin
<1>13. CASE ResetBloom
  BY <1>13 DEF Bookkeeping, ResetBloom, local, remote, TypeOK, TypeAdmin
<1>10. CASE ResetLocks
  BY <1>10 DEF Bookkeeping, ResetLocks, local, remote, TypeOK, TypeLocal
<1>11. CASE ResetConn
  <2>1. UNCHANGED <<turn, task, resetting>> /\ todo' = todo - 1
    BY <1>11 DEF ResetConn, remote
  <2>2. Len(pool') >= Len(pool) - 1
    <3>1. Len(pool) > 0 /\ pool \in Seq(Conns)
      BY <1>11 DEF ResetConn, Bookkeeping, TypeOK, TypeLocal, TypeAdmin
    <3>2. pool' = Append(Tail(pool), Head(pool)) \/ pool' = Tail(pool)
      BY <1>11 DEF ResetConn
    <3>3. Tail(pool) \in Seq(Conns) /\ Len(Tail(pool)) = Len(pool) - 1
          /\ Head(pool) \in Conns
      BY <3>1
    <3>4. Len(Append(Tail(pool), Head(pool))) = Len(pool)
      BY <3>1, <3>3
    <3> QED
      BY <3>1, <3>2, <3>3, <3>4
  <2>3. ResetKept'
    <3>1. todo > 0 /\ todo \in Nat /\ resetting = "locked" /\ todo <= Len(pool)
      BY <1>0, <1>11 DEF ResetConn, ResetKept, TypeOK, TypeAdmin
    <3>2. Len(pool) \in Nat /\ Len(pool') \in Nat
      BY <1>11, ResettingTypes DEF Resetting, TypeOK, TypeLocal
    <3> QED
      BY <2>1, <2>2, <3>1, <3>2 DEF ResetKept
  <2> QED
    BY <1>0, <2>1, <2>3 DEF Bookkeeping, TurnsKept, TasksKept, ResetKept
<1>12. CASE ResetStore
  BY <1>12 DEF Bookkeeping, ResetStore, local, remote
<1> QED
  BY <1>1, <1>2, <1>3, <1>5, <1>6, <1>7, <1>8, <1>9, <1>10, <1>11, <1>12, <1>13
  DEF Next, Environment, Resetting, Idle

\* The shape of the state: after any steps every variable holds what its comment
\* says, and the bookkeeping the steps rely on is right.
THEOREM LinkTypeCorrect == Spec => [](TypeOK /\ Bookkeeping)
<1>1. Init => TypeOK
  <2> SUFFICES ASSUME Init  PROVE TypeOK
    OBVIOUS
  <2>1. TypeLocal
    <3>1. NewTurn \in Turn
      BY DEF NewTurn, Turn
    <3> QED
      BY <3>1 DEF Init, TypeLocal
  <2>2. TypeViews
    BY DEF Init, TypeViews
  <2>3. TypeWire
    BY DEF Init, TypeWire
  <2>4. TypeRemote
    BY TaskTypes DEF Init, TypeRemote
  <2>5. TypeAdmin
    BY EnvAssumption, BoundsAssumption DEF Init, TypeAdmin
  <2> QED
    BY <2>1, <2>2, <2>3, <2>4, <2>5 DEF TypeOK
<1>2. Init => Bookkeeping
  BY BookkeepingInit
<1>3. TypeOK /\ Bookkeeping /\ [Next]_vars => TypeOK' /\ Bookkeeping'
  BY NextTypes, NextKeeps
<1> QED
  BY <1>1, <1>2, <1>3, PTL DEF Spec

-----------------------------------------------------------------------------
(* Every connection has one owner. *)

\* A sequence without repetition, and what appending to it, and taking its last or
\* its first element, do to its set.
Distinct(s) == \A i, j \in 1..Len(s) : s[i] = s[j] => i = j

LEMMA ToSetAppend ==
  ASSUME NEW S, NEW s \in Seq(S), NEW x \in S
  PROVE  /\ ToSet(Append(s, x)) = ToSet(s) \cup {x}
         /\ Distinct(s) /\ x \notin ToSet(s) => Distinct(Append(s, x))
<1> DEFINE t == Append(s, x)
<1>1. /\ Len(s) \in Nat /\ Len(t) = Len(s) + 1
      /\ \A i \in 1..Len(s) : t[i] = s[i]
      /\ t[Len(s) + 1] = x
      /\ DOMAIN s = 1..Len(s) /\ DOMAIN t = 1..(Len(s) + 1)
  OBVIOUS
<1> HIDE DEF t
<1>2. ToSet(t) = ToSet(s) \cup {x}
  <2>1. 1..(Len(s) + 1) = (1..Len(s)) \cup {Len(s) + 1}
    BY <1>1
  <2>2. ToSet(t) \subseteq ToSet(s) \cup {x}
    BY <1>1, <2>1 DEF ToSet
  <2>3. x \in ToSet(t)
    BY <1>1 DEF ToSet
  <2>4. ToSet(s) \subseteq ToSet(t)
    BY <1>1, <2>1 DEF ToSet
  <2> QED
    BY <2>2, <2>3, <2>4
<1>3. ASSUME Distinct(s), x \notin ToSet(s)  PROVE Distinct(t)
  <2>1. \A i \in 1..Len(s) : s[i] # x
    BY <1>1, <1>3 DEF ToSet
  <2> QED
    BY <1>1, <1>3, <2>1 DEF Distinct
<1> QED
  BY <1>2, <1>3 DEF t

LEMMA TakeLast ==
  ASSUME NEW S, NEW s \in Seq(S), s # <<>>, Distinct(s)
  PROVE  /\ Last(s) \in ToSet(s) /\ Last(s) \in S
         /\ ToSet(Front(s)) = ToSet(s) \ {Last(s)}
         /\ Distinct(Front(s))
<1> DEFINE n == Len(s)
<1>1. n \in Nat \ {0} /\ DOMAIN s = 1..n
  OBVIOUS
<1>2. Last(s) = s[n] /\ Front(s) = SubSeq(s, 1, n - 1)
  BY DEF Last, Front
<1>3. /\ Len(Front(s)) = n - 1
      /\ \A i \in 1..(n - 1) : Front(s)[i] = s[i]
      /\ DOMAIN Front(s) = 1..(n - 1)
  BY <1>1, <1>2
<1> HIDE DEF n
<1>4. 1..n = (1..(n - 1)) \cup {n}
  BY <1>1
<1>5. \A i \in 1..(n - 1) : s[i] # s[n]
  BY <1>1, <1>4 DEF Distinct, n
<1>6. ToSet(Front(s)) = ToSet(s) \ {Last(s)}
  <2>1. ToSet(Front(s)) = {s[i] : i \in 1..(n - 1)}
    BY <1>3 DEF ToSet
  <2>2. ToSet(s) = {s[i] : i \in 1..(n - 1)} \cup {s[n]}
    BY <1>1, <1>4 DEF ToSet
  <2> QED
    BY <1>2, <1>5, <2>1, <2>2
<1>7. Distinct(Front(s))
  BY <1>1, <1>3, <1>4 DEF Distinct, n
<1>8. Last(s) \in ToSet(s) /\ Last(s) \in S
  BY <1>1, <1>2 DEF ToSet
<1> QED
  BY <1>6, <1>7, <1>8

LEMMA TakeHead ==
  ASSUME NEW S, NEW s \in Seq(S), s # <<>>, Distinct(s)
  PROVE  /\ Head(s) \in ToSet(s) /\ Head(s) \in S /\ Tail(s) \in Seq(S)
         /\ ToSet(Tail(s)) = ToSet(s) \ {Head(s)}
         /\ Distinct(Tail(s))
<1> DEFINE n == Len(s)
<1>1. n \in Nat \ {0} /\ DOMAIN s = 1..n /\ Head(s) = s[1] /\ Tail(s) \in Seq(S)
  OBVIOUS
<1>2. /\ Len(Tail(s)) = n - 1
      /\ \A i \in 1..(n - 1) : Tail(s)[i] = s[i + 1]
      /\ DOMAIN Tail(s) = 1..(n - 1)
  BY <1>1
<1> HIDE DEF n
<1>3. \A i \in 1..n : i = 1 \/ (i - 1 \in 1..(n - 1) /\ s[i] = Tail(s)[i - 1])
  BY <1>1, <1>2
<1>4. \A i \in 1..(n - 1) : i + 1 \in 1..n /\ s[i + 1] # s[1]
  BY <1>1 DEF Distinct, n
<1>5. ToSet(Tail(s)) = ToSet(s) \ {Head(s)}
  <2>1. ToSet(Tail(s)) \subseteq ToSet(s) \ {Head(s)}
    BY <1>1, <1>2, <1>4 DEF ToSet
  <2>2. ASSUME NEW x \in ToSet(s) \ {Head(s)}  PROVE x \in ToSet(Tail(s))
    <3>1. PICK i \in 1..n : s[i] = x
      BY <1>1 DEF ToSet
    <3>2. i - 1 \in 1..(n - 1) /\ x = Tail(s)[i - 1]
      BY <1>1, <1>3, <3>1
    <3> QED
      BY <1>2, <3>2 DEF ToSet
  <2> QED
    BY <2>1, <2>2
<1>6. Distinct(Tail(s))
  BY <1>1, <1>2, <1>4 DEF Distinct, n
<1>7. Head(s) \in ToSet(s) /\ Head(s) \in S
  BY <1>1 DEF ToSet
<1> QED
  BY <1>1, <1>5, <1>6, <1>7

\* OneOwner, with the connections of the turns as a set.
Carrying(t) == {t[r].conn : r \in Requests} \ {None}

\* No connection carries two turns.
Single(t) == \A q, r \in Requests : t[q].conn = t[r].conn /\ t[q].conn # None => q = r

\* OneOwner in these terms.
LEMMA OwnerParts ==
  TypeOK => (OneOwner <=> /\ Distinct(pool) /\ Single(turn)
                          /\ Carrying(turn) \cap ToSet(pool) = {}
                          /\ dialed = ToSet(pool) \cup Carrying(turn))
<1> SUFFICES ASSUME TypeOK
             PROVE (OneOwner <=> /\ Distinct(pool) /\ Single(turn)
                                 /\ Carrying(turn) \cap ToSet(pool) = {}
                                 /\ dialed = ToSet(pool) \cup Carrying(turn))
  OBVIOUS
<1>1. None \notin ToSet(pool)
  BY NoneAssumption DEF TypeOK, TypeLocal, ToSet
<1>2. (\A r \in Requests : turn[r].conn \notin ToSet(pool))
        <=> Carrying(turn) \cap ToSet(pool) = {}
  BY <1>1 DEF Carrying
<1>3. (\A q, r \in Requests : turn[q].conn = turn[r].conn /\ turn[q].conn # None => q = r)
        <=> Single(turn)
  BY DEF Single
<1>4. (\A i, j \in 1..Len(pool) : pool[i] = pool[j] => i = j) <=> Distinct(pool)
  BY DEF Distinct
<1>5. (dialed = ToSet(pool) \cup ({turn[r].conn : r \in Requests} \ {None}))
        <=> dialed = ToSet(pool) \cup Carrying(turn)
  BY DEF Carrying
<1> QED
  BY <1>2, <1>3, <1>4, <1>5 DEF OneOwner

\* What one turn's change of connection does to the set of them.
LEMMA Carried ==
  ASSUME TypeOK, TypeOK', Single(turn), NEW r \in Requests,
         turn' = [turn EXCEPT ![r] = turn'[r]],
         turn'[r].conn # None => turn'[r].conn \notin Carrying(turn) \ {turn[r].conn}
  PROVE  /\ Single(turn')
         /\ Carrying(turn') = (Carrying(turn) \ {turn[r].conn})
                                \cup ({turn'[r].conn} \ {None})
<1>1. /\ turn \in [Requests -> Turn] /\ turn' \in [Requests -> Turn]
      /\ \A q \in Requests \ {r} : turn'[q].conn = turn[q].conn
  BY DEF TypeOK, TypeLocal
<1>2. \A q \in Requests \ {r} : turn[q].conn # None => turn[q].conn # turn[r].conn
  BY DEF Single
<1>3. \A q \in Requests \ {r} : turn[q].conn # None => turn[q].conn \in Carrying(turn)
  BY DEF Carrying
<1>4. Single(turn')
  BY <1>1, <1>2, <1>3 DEF Single
<1>5. Carrying(turn') = (Carrying(turn) \ {turn[r].conn}) \cup ({turn'[r].conn} \ {None})
  BY <1>1, <1>2 DEF Carrying
<1> QED
  BY <1>4, <1>5

\* A step that changes no connection of a turn, nor the pool.
LEMMA SameOwner ==
  ASSUME TypeOK, TypeOK', OneOwner, NEW r \in Requests,
         \/ turn' = turn
         \/ turn' = [turn EXCEPT ![r] = turn'[r]] /\ turn'[r].conn = turn[r].conn,
         UNCHANGED <<pool, dialed>>
  PROVE  OneOwner'
<1>1. \A q \in Requests : turn'[q].conn = turn[q].conn
  BY DEF TypeOK, TypeLocal
<1> QED
  BY <1>1 DEF OneOwner

\* The same, after a step.
LEMMA OwnerPartsNext ==
  TypeOK' => (OneOwner' <=> /\ Distinct(pool') /\ Single(turn')
                            /\ Carrying(turn') \cap ToSet(pool') = {}
                            /\ dialed' = ToSet(pool') \cup Carrying(turn'))
<1>1. (TypeOK => (OneOwner <=> /\ Distinct(pool) /\ Single(turn)
                               /\ Carrying(turn) \cap ToSet(pool) = {}
                               /\ dialed = ToSet(pool) \cup Carrying(turn)))'
  BY OwnerParts, PTL
<1> QED
  BY <1>1 DEF Distinct, Single, Carrying

\* take_conn: from the pool to a turn, or a new one.
LEMMA TakingKeepsOwners ==
  ASSUME TypeOK, TypeOK', Bookkeeping, OneOwner, NEW r \in Requests,
         TakePooled(r) \/ Dial(r)
  PROVE  OneOwner'
<1>0. /\ Distinct(pool) /\ Single(turn) /\ Carrying(turn) \cap ToSet(pool) = {}
      /\ dialed = ToSet(pool) \cup Carrying(turn) /\ pool \in Seq(Conns)
  BY OwnerParts DEF TypeOK, TypeLocal
<1>1. turn[r].conn = None
  BY DEF TakePooled, Dial, Bookkeeping
<1>2. None \notin Carrying(turn)
  BY DEF Carrying
<1>3. CASE TakePooled(r)
  <2> DEFINE c == Last(pool)
  <2>1. /\ pool # <<>> /\ Begin(r, c, Hears(c)) /\ pool' = Front(pool)
        /\ dialed' = dialed
    BY <1>3 DEF TakePooled
  <2>2. /\ c \in ToSet(pool) /\ c \in Conns /\ ToSet(pool') = ToSet(pool) \ {c}
        /\ Distinct(pool')
    BY <1>0, <2>1, TakeLast
  <2>3. turn' = [turn EXCEPT ![r] = turn'[r]] /\ turn'[r].conn = c
    BY <2>1, <2>2, BeginSteps DEF TurnStep
  <2> HIDE DEF c
  <2>4. Single(turn') /\ Carrying(turn') = Carrying(turn) \cup {c}
    BY <1>0, <1>1, <1>2, <2>2, <2>3, Carried, NoneAssumption
  <2> QED
    BY <1>0, <2>1, <2>2, <2>4, OwnerPartsNext
<1>4. CASE Dial(r)
  <2>1. PICK c \in Conns \ dialed : Begin(r, c, TRUE) /\ dialed' = dialed \cup {c}
    BY <1>4 DEF Dial
  <2>2. pool' = pool
    BY <1>4 DEF Dial
  <2>3. turn' = [turn EXCEPT ![r] = turn'[r]] /\ turn'[r].conn = c
    BY <2>1, BeginSteps DEF TurnStep
  <2>4. c \notin Carrying(turn) /\ c \notin ToSet(pool)
    BY <1>0, <2>1
  <2>5. Single(turn') /\ Carrying(turn') = Carrying(turn) \cup {c}
    BY <1>0, <1>1, <1>2, <2>1, <2>3, <2>4, Carried, NoneAssumption
  <2> QED
    BY <1>0, <2>1, <2>2, <2>4, <2>5, OwnerPartsNext
<1> QED
  BY <1>3, <1>4

\* A failed attempt: its connection is dropped.
LEMMA FailingKeepsOwners ==
  ASSUME TypeOK, TypeOK', Bookkeeping, OneOwner, NEW r \in Requests,
         turn[r].pc = "await", AttemptFails(r)
  PROVE  OneOwner'
<1> DEFINE c == turn[r].conn
<1>0. /\ Distinct(pool) /\ Single(turn) /\ Carrying(turn) \cap ToSet(pool) = {}
      /\ dialed = ToSet(pool) \cup Carrying(turn)
  BY OwnerParts
<1>1. c # None /\ c \in Carrying(turn)
  BY DEF Bookkeeping, Carrying
<1>2. /\ turn' = [turn EXCEPT ![r] = turn'[r]] /\ turn'[r].conn = None
      /\ pool' = pool /\ dialed' = dialed \ {c}
  BY FailureSteps DEF TurnStep, AttemptFails, DropConns
<1>3. Single(turn') /\ Carrying(turn') = Carrying(turn) \ {c}
  BY <1>0, <1>2, Carried
<1> HIDE DEF c
<1> QED
  BY <1>0, <1>1, <1>2, <1>3, OwnerPartsNext

\* put_conn: from a turn to the pool, or dropped.
LEMMA EndingKeepsOwners ==
  ASSUME TypeOK, TypeOK', Bookkeeping, OneOwner, NEW r \in Requests, LocalEnd(r)
  PROVE  OneOwner'
<1> DEFINE c == turn[r].conn
<1>0. /\ Distinct(pool) /\ Single(turn) /\ Carrying(turn) \cap ToSet(pool) = {}
      /\ dialed = ToSet(pool) \cup Carrying(turn) /\ pool \in Seq(Conns)
  BY OwnerParts DEF TypeOK, TypeLocal
<1>1. c # None /\ c \in Conns /\ c \in Carrying(turn)
  BY DEF LocalEnd, Arrived, Bookkeeping, Carrying, TypeOK, TypeLocal, Turn
<1>2. turn' = [turn EXCEPT ![r] = turn'[r]] /\ turn'[r].conn = None
  <2>1. turn' = [turn EXCEPT ![r].pc = "over", ![r].conn = None]
    BY DEF LocalEnd
  <2>2. turn \in [Requests -> Turn]
    BY DEF TypeOK, TypeLocal
  <2> QED
    BY <2>1, <2>2 DEF Turn
<1>3. Single(turn') /\ Carrying(turn') = Carrying(turn) \ {c}
  BY <1>0, <1>2, Carried
<1>4. \/ pool' = Append(pool, c) /\ dialed' = dialed
      \/ pool' = pool /\ dialed' = dialed \ {c}
  BY DEF LocalEnd, DropConns
<1> HIDE DEF c
<1>5. CASE pool' = Append(pool, c) /\ dialed' = dialed
  <2>1. ToSet(pool') = ToSet(pool) \cup {c} /\ Distinct(pool')
    BY <1>0, <1>1, <1>5, ToSetAppend
  <2> QED
    BY <1>0, <1>1, <1>3, <1>5, <2>1, OwnerPartsNext
<1>6. CASE pool' = pool /\ dialed' = dialed \ {c}
  BY <1>0, <1>1, <1>3, <1>6, OwnerPartsNext
<1> QED
  BY <1>4, <1>5, <1>6

\* reset_cache: to the back of the pool, or dropped.
LEMMA ResettingKeepsOwners ==
  ASSUME TypeOK, TypeOK', Bookkeeping, OneOwner, ResetConn
  PROVE  OneOwner'
<1> DEFINE c == Head(pool)
<1>0. /\ Distinct(pool) /\ Single(turn) /\ Carrying(turn) \cap ToSet(pool) = {}
      /\ dialed = ToSet(pool) \cup Carrying(turn) /\ pool \in Seq(Conns)
  BY OwnerParts DEF TypeOK, TypeLocal
<1>1. pool # <<>>
  BY <1>0 DEF ResetConn, Bookkeeping, TypeOK, TypeAdmin
<1>2. /\ c \in ToSet(pool) /\ c \in Conns /\ Tail(pool) \in Seq(Conns)
      /\ ToSet(Tail(pool)) = ToSet(pool) \ {c} /\ Distinct(Tail(pool))
  BY <1>0, <1>1, TakeHead
<1>3. turn' = turn
  BY DEF ResetConn
<1>4. \/ pool' = Append(Tail(pool), c) /\ dialed' = dialed
      \/ pool' = Tail(pool) /\ dialed' = dialed \ {c}
  BY DEF ResetConn, DropConns
<1> HIDE DEF c
<1>5. CASE pool' = Append(Tail(pool), c) /\ dialed' = dialed
  <2> DEFINE rest == Tail(pool)
  <2>1. rest \in Seq(Conns) /\ c \in Conns /\ c \notin ToSet(rest) /\ Distinct(rest)
    BY <1>2
  <2> HIDE DEF rest
  <2>2. ToSet(Append(rest, c)) = ToSet(rest) \cup {c} /\ Distinct(Append(rest, c))
    BY <2>1, ToSetAppend
  <2>3. ToSet(pool') = ToSet(Tail(pool)) \cup {c} /\ Distinct(pool')
    BY <1>5, <2>2 DEF rest
  <2> QED
    BY <1>0, <1>2, <1>3, <1>5, <2>3, OwnerPartsNext
<1>6. CASE pool' = Tail(pool) /\ dialed' = dialed \ {c}
  BY <1>0, <1>2, <1>3, <1>6, OwnerPartsNext
<1> QED
  BY <1>4, <1>5, <1>6

\* Every step keeps the owners.
LEMMA NextKeepsOwners ==
  TypeOK /\ TypeOK' /\ Bookkeeping /\ OneOwner /\ [Next]_vars => OneOwner'
<1> SUFFICES ASSUME TypeOK, TypeOK', Bookkeeping, OneOwner, [Next]_vars  PROVE OneOwner'
  OBVIOUS
<1>1. ASSUME UNCHANGED <<turn, pool, dialed>>  PROVE OneOwner'
  BY <1>1 DEF OneOwner
<1>2. ASSUME NEW r \in Requests, Local(r) \/ DialFails(r)  PROVE OneOwner'
  <2>0. turn[r] \in Turn /\ turn \in [Requests -> Turn]
    BY DEF TypeOK, TypeLocal
  <2>1. CASE TakePooled(r) \/ Dial(r)
    BY <2>1, TakingKeepsOwners
  <2>2. CASE AttemptFails(r) /\ turn[r].pc = "await"
    BY <2>2, FailingKeepsOwners
  <2>3. CASE LocalEnd(r)
    BY <2>3, EndingKeepsOwners
  <2>4. CASE LocalHelloAck(r) \/ LocalBloom(r)
    BY <1>1, <2>4 DEF LocalHelloAck, LocalBloom, local
  <2>5. CASE DialFails(r)
    <3>1. turn' = [turn EXCEPT ![r].pc = "over"] /\ UNCHANGED <<pool, dialed>>
      BY <2>5 DEF DialFails
    <3>2. turn' = [turn EXCEPT ![r] = turn'[r]] /\ turn'[r].conn = turn[r].conn
      BY <2>0, <3>1 DEF Turn
    <3> QED
      BY <3>1, <3>2, SameOwner
  <2>6. CASE Prepare(r)
    <3>1. PICK whole, push : turn' = [turn EXCEPT ![r].pc = "ready", ![r].whole = whole,
                                                  ![r].push = push]
      BY <2>6 DEF Prepare
    <3>2. turn' = [turn EXCEPT ![r] = turn'[r]] /\ turn'[r].conn = turn[r].conn
      BY <2>0, <3>1 DEF Turn
    <3>3. UNCHANGED <<pool, dialed>>
      BY <2>6 DEF Prepare
    <3> QED
      BY <3>2, <3>3, SameOwner
  <2>7. CASE /\ LocalNeed(r) \/ LocalHead(r) \/ LocalBody(r)
             /\ ~AttemptFails(r)
    <3>1. /\ \/ turn' = [turn EXCEPT ![r].repairs = @ + 1]
             \/ turn' = [turn EXCEPT ![r].headSent = TRUE]
             \/ turn' = turn
          /\ UNCHANGED <<pool, dialed>>
      BY <2>7 DEF LocalNeed, LocalHead, LocalBody
    <3>2. \/ turn' = turn
          \/ turn' = [turn EXCEPT ![r] = turn'[r]] /\ turn'[r].conn = turn[r].conn
      BY <2>0, <3>1 DEF Turn
    <3> QED
      BY <3>1, <3>2, SameOwner
  <2> QED
    BY <1>2, <2>1, <2>2, <2>3, <2>4, <2>5, <2>6, <2>7
    DEF Local, LocalEof, LocalRejected, LocalFail, LocalNeed, LocalHead, LocalBody, Arrived
<1>3. ASSUME NEW c \in Conns, Remote(c)  PROVE OneOwner'
  BY <1>1, <1>3, RemoteLeaves DEF local
<1>4. CASE UNCHANGED vars \/ Idle
  BY <1>1, <1>4 DEF Idle, vars, local
<1>5. CASE \/ \E r \in Requests : AgentHangsUp(r)
           \/ \E c \in Conns : Cut(c) \/ UpstreamBreaks(c)
           \/ \E b \in Blocks : RemoteEvicts(b) \/ LocalEvicts(b)
           \/ Restart \/ ResetViews
  BY <1>1, <1>5 DEF AgentHangsUp, Cut, UpstreamBreaks, RemoteEvicts, LocalEvicts, Restart,
                    ResetViews, local
<1>6. CASE ResetBloom \/ ResetLocks \/ ResetStore
  BY <1>1, <1>6 DEF ResetBloom, ResetLocks, ResetStore, local
<1>7. CASE ResetConn
  BY <1>7, ResettingKeepsOwners
<1> QED
  BY <1>2, <1>3, <1>4, <1>5, <1>6, <1>7 DEF Next, Environment, Resetting

\* Two turns never interleave on a connection, and none leaks: whatever breaks,
\* however requests, retries, evictions and resets fall between each other.
THEOREM EveryConnHasOneOwner == Spec => []OneOwner
<1>1. Init => OneOwner
  BY NoneAssumption DEF Init, OneOwner, NewTurn, ToSet
<1>2. TypeOK /\ Bookkeeping /\ OneOwner /\ [Next]_vars => OneOwner'
  BY NextTypes, NextKeepsOwners
<1> QED
  BY <1>1, <1>2, LinkTypeCorrect, PTL DEF Spec

-----------------------------------------------------------------------------
(***************************************************************************)
(* What is on the wires of the link, for every instance: the uplink of a   *)
(* connection is always what is left of one upload its task is waiting     *)
(* for, the downlink what is left of one answer its turn is waiting for.   *)
(* From this invariant follow that a pooled connection is quiet, that a    *)
(* complete upload is intact, that an agent gets a prefix of one answer,   *)
(* and that a stranger gets nothing done.                                  *)
(***************************************************************************)

(* The uplink.  t is the task of a connection, u the frames on their way to it. *)

\* A task between two requests.
Blank == [NewTask EXCEPT !.greeted = TRUE]

\* Frame g may come next after f (Upload, Resend, ResetConn).
UpNext(f, g) ==
  \/ f.tag = "Hello" /\ g.tag = "RequestHead"
  \/ f.tag = "Reset" /\ g.tag \in {"Reset", "RequestHead"}
  \/ f.tag = "RequestHead" /\ f.split /\ g = Program(f.req)
  \/ f.tag = "RequestHead" /\ ~f.split /\ g = RequestBody(f.req)
  \/ f.tag \in {"Program", "Block"} /\ g.tag \in {"Block", "EndOfBody"}
  \/ f.tag = "RequestBody" /\ g.tag = "EndOfBody"

UpChain(u) == \A i \in 1..(Len(u) - 1) : UpNext(u[i], u[i + 1])

\* The task has read the head; the program; the body in one piece; everything.
HeadRead(t)  == /\ t.pc = "read" /\ t.greeted /\ t.head.req # None
                /\ t.instrs = None /\ t.literal = <<>>
SplitRead(t) == /\ t.pc \in {"read", "repair"} /\ t.greeted /\ t.head.req # None
                /\ t.head.split /\ t.instrs = t.head.req /\ t.literal = <<>>
WholeRead(t) == /\ t.pc = "read" /\ t.greeted /\ t.head.req # None
                /\ ~t.head.split /\ t.instrs = None /\ t.literal = <<t.head.req>>
Serving(t)   == /\ t.pc \in {"upstream", "relay"} /\ t.greeted /\ t.head.req # None
                /\ t.literal = <<>> /\ t.repairs = 0 /\ t.relayed <= NChunks
                /\ t.pc = "upstream" => t.relayed = 0

\* Frame f is one the task is waiting for.
UpFirst(t, f) ==
  \/ t = NewTask /\ f.tag = "Hello"
  \/ t = Blank /\ f.tag \in {"Reset", "RequestHead"}
  \/ HeadRead(t) /\ t.head.split /\ f = Program(t.head.req)
  \/ HeadRead(t) /\ ~t.head.split /\ f = RequestBody(t.head.req)
  \/ SplitRead(t) /\ f.tag \in {"Block", "EndOfBody"}
  \/ WholeRead(t) /\ f.tag = "EndOfBody"

Reads(t, u) ==
  /\ t.pc = "ended" => u = <<>>
  /\ t.pc # "ended" /\ ~t.greeted => t = NewTask
  /\ t.pc \in {"upstream", "relay"} => Serving(t) /\ u = <<>>
  /\ t.pc = "repair" => SplitRead(t)
  /\ u # <<>> => UpFirst(t, u[1])
  /\ UpChain(u)

-----------------------------------------------------------------------------
(* The downlink.  d are the frames on their way to the local end. *)

\* Frame g may come next after f (RemoteHello ... RemoteFinishes).
DownNext(f, g) ==
  \/ f.tag = "HelloAck" /\ g.tag \in {"Need", "Fail"}
  \/ f.tag = "HelloAck" /\ g.tag = "ResponseHead" /\ g.part.part = 0
  \/ /\ f.tag \in {"ResponseHead", "ResponseBody"} /\ f.part.part < NChunks
     /\ g.tag = "ResponseBody"
     /\ g.part = Part(f.part.req, f.part.call, f.part.part + 1)
  \/ /\ f.tag \in {"ResponseHead", "ResponseBody"} /\ f.part.part = NChunks
     /\ g.tag = "Bloom"
  \/ f.tag = "Bloom" /\ g.tag = "ResponseEnd"

DownChain(d) == \A i \in 1..(Len(d) - 1) : DownNext(d[i], d[i + 1])

\* Nothing of an answer is on its way.
OnlyAcks(d) == \A i \in 1..Len(d) : d[i].tag = "HelloAck"

\* A frame of that kind is on its way.
Says(d, tag) == \E i \in 1..Len(d) : d[i].tag = tag

\* What the wires of a connection and its task have to do with each other; open
\* says whether the local end has the connection, idle whether it pools it.
WireOk(t, u, d, open, idle) ==
  /\ Reads(t, u)
  /\ ~open => d = <<>>
  /\ idle => d = <<>> /\ ToSet(u) \subseteq {Reset} /\ (t.pc # "ended" => t = Blank)
  /\ t.pc # "ended" =>
       /\ Says(d, "Need") => t.pc = "repair" /\ u = <<>>
       /\ ~Says(d, "Fail")
       /\ Says(d, "ResponseEnd") => t = Blank /\ u = <<>>

-----------------------------------------------------------------------------
(* The turn that has the connection.  g is what its agent has got. *)

\* Frame f continues what the agent of r has got.
DownFirst(r, g, f) ==
  \/ g = <<>> /\ f.tag \in {"HelloAck", "Need", "Fail"}
  \/ g = <<>> /\ f.tag = "ResponseHead" /\ f.part.part = 0
  \/ /\ g # <<>> /\ Len(g) <= NChunks
     /\ f.tag = "ResponseBody" /\ f.part = Part(r, g[1].call, Len(g))
  \/ Len(g) = NChunks + 1 /\ f.tag \in {"Bloom", "ResponseEnd"}

\* What the remote end writes next continues what is on the way, and if nothing
\* is, what the agent has got.
Joins(r, g, t, u, d) ==
  /\ (t.pc \in {"read", "repair"} /\ u # <<>>) \/ t.pc = "upstream" =>
       g = <<>> /\ OnlyAcks(d)
  /\ t = NewTask => d = <<>>
  /\ t.pc = "relay" =>
       IF d = <<>> THEN g # <<>> /\ g[Len(g)] = Part(r, t.call, t.relayed)
       ELSE /\ d[Len(d)].tag \in {"ResponseHead", "ResponseBody"}
            /\ d[Len(d)].part = Part(r, t.call, t.relayed)

\* The head of the upload, once read or on its way, is r's, and is not split when
\* the turn sends its body whole.
CarriesUp(r, whole, t, u) ==
  /\ \A i \in 1..Len(u) : u[i].tag = "RequestHead" =>
                             u[i].req = r /\ (whole => ~u[i].split)
  /\ t.pc # "ended" => t.head.req \in {None, r} /\ (whole => ~t.head.split)

\* A frame of an answer to r, which was forwarded n times.
AnswerTo(r, whole, n, f) ==
  /\ f.tag \in {"ResponseHead", "ResponseBody"} =>
       f.part.req = r /\ f.part.call \in 1..n
  /\ whole => f.tag \notin {"Need", "Fail"}

CarriesDown(r, whole, g, n, d) ==
  /\ \A i \in 1..Len(d) : AnswerTo(r, whole, n, d[i])
  /\ DownChain(d)
  /\ d # <<>> => DownFirst(r, g, d[1])

\* Everything on the wires is of r's request; heard says whether what the remote
\* end writes arrives.
Carries(r, whole, g, n, t, u, d, heard) ==
  /\ CarriesUp(r, whole, t, u)
  /\ CarriesDown(r, whole, g, n, d)
  /\ t.pc # "ended" /\ heard => Joins(r, g, t, u, d)

\* What an agent has got, and when.
GotOk(r, v, g, n) ==
  /\ \A i \in 1..Len(g) : g[i] = Part(r, g[1].call, i - 1) /\ g[i].call \in 1..n
  /\ v.headSent <=> g # <<>>
  /\ v.pc \in {"new", "ready"} => g = <<>>

-----------------------------------------------------------------------------
(* The invariant. *)

WireInv == \A c \in Conns :
  WireOk(task[c], up[c], down[c], c \in dialed, c \in ToSet(pool))

CarryInv == \A r \in Requests : turn[r].conn # None =>
  Carries(r, turn[r].whole, got[r], calls[r], task[turn[r].conn],
          up[turn[r].conn], down[turn[r].conn], Heard(turn[r].conn))

GotInv == \A r \in Requests : GotOk(r, turn[r], got[r], calls[r])

\* A connection has been used since it was dialed, and not otherwise.
UsedInv == \A c \in Conns : c \in dialed <=> used[c] # 0

\* An answer is numbered with a call that was made.
CallInv == \A c \in Conns : task[c].pc \in {"upstream", "relay"} =>
             task[c].call \in 1..calls[task[c].head.req]

\* Only a paired local end is greeted.
GreetInv == \A c \in Conns : Alive(c) /\ task[c].greeted => paired

LinkInv == /\ WireInv /\ CarryInv /\ GotInv /\ UsedInv /\ CallInv
           /\ GreetInv /\ StrangerRefused

-----------------------------------------------------------------------------
(* Queues of frames. *)

\* Reading a frame off a queue.
LEMMA TailParts ==
  ASSUME NEW S, NEW s \in Seq(S), s # <<>>
  PROVE  /\ Tail(s) \in Seq(S) /\ Len(Tail(s)) = Len(s) - 1 /\ Len(s) \in Nat \ {0}
         /\ \A i \in 1..(Len(s) - 1) : Tail(s)[i] = s[i + 1] /\ i + 1 \in 1..Len(s)
         /\ Head(s) = s[1] /\ (Tail(s) = <<>> <=> Len(s) = 1)
<1>1. /\ Tail(s) \in Seq(S) /\ Len(Tail(s)) = Len(s) - 1 /\ Len(s) \in Nat \ {0}
      /\ \A i \in 1..(Len(s) - 1) : Tail(s)[i] = s[i + 1]
  OBVIOUS
<1>2. Head(s) = s[1]
  OBVIOUS
<1>3. Tail(s) = <<>> <=> Len(Tail(s)) = 0
  BY <1>1
<1>4. \A i \in 1..(Len(s) - 1) : i + 1 \in 1..Len(s)
  BY <1>1
<1> QED
  BY <1>1, <1>2, <1>3, <1>4

\* Writing one at its end.
LEMMA PutParts ==
  ASSUME NEW S, NEW s \in Seq(S), NEW x \in S
  PROVE  /\ s \o <<x>> \in Seq(S) /\ Len(s \o <<x>>) = Len(s) + 1 /\ Len(s) \in Nat
         /\ \A i \in 1..Len(s) : (s \o <<x>>)[i] = s[i]
         /\ (s \o <<x>>)[Len(s) + 1] = x
         /\ s \o <<x>> # <<>> /\ (s = <<>> <=> Len(s) = 0)
         /\ Append(s, x) = s \o <<x>>
OBVIOUS

\* Writing several.
LEMMA JoinParts ==
  ASSUME NEW S, NEW s \in Seq(S), NEW t \in Seq(S)
  PROVE  /\ s \o t \in Seq(S) /\ Len(s \o t) = Len(s) + Len(t)
         /\ Len(s) \in Nat /\ Len(t) \in Nat
         /\ \A i \in 1..Len(s) : (s \o t)[i] = s[i]
         /\ \A i \in 1..Len(t) : (s \o t)[Len(s) + i] = t[i]
         /\ \A i \in 1..(Len(s) + Len(t)) :
              i \notin 1..Len(s) => i - Len(s) \in 1..Len(t) /\ (s \o t)[i] = t[i - Len(s)]
         /\ (s = <<>> <=> Len(s) = 0) /\ (t = <<>> <=> Len(t) = 0)
OBVIOUS

\* What is behind the frame that was read is a chain, and follows it.
LEMMA UpTail ==
  ASSUME NEW u \in Seq(UpFrame), u # <<>>, UpChain(u)
  PROVE  UpChain(Tail(u)) /\ (Tail(u) # <<>> => UpNext(u[1], Tail(u)[1]))
<1>1. /\ Len(u) \in Nat \ {0} /\ Len(Tail(u)) = Len(u) - 1
      /\ \A i \in 1..(Len(u) - 1) : Tail(u)[i] = u[i + 1]
      /\ Tail(u) = <<>> <=> Len(u) = 1
  BY TailParts
<1>2. \A i \in 1..(Len(u) - 1) : UpNext(u[i], u[i + 1])
  BY DEF UpChain
<1>3. ASSUME NEW i \in 1..(Len(u) - 2)  PROVE UpNext(Tail(u)[i], Tail(u)[i + 1])
  <2>1. i \in 1..(Len(u) - 1) /\ i + 1 \in 1..(Len(u) - 1)
    BY <1>1
  <2> QED
    BY <1>1, <1>2, <2>1
<1>4. Tail(u) # <<>> => 1 \in 1..(Len(u) - 1)
  BY <1>1
<1>5. Len(Tail(u)) - 1 = Len(u) - 2
  BY <1>1
<1> QED
  BY <1>1, <1>2, <1>3, <1>4, <1>5 DEF UpChain

\* The same on the way down.
LEMMA DownTail ==
  ASSUME NEW d \in Seq(DownFrame), d # <<>>, DownChain(d)
  PROVE  DownChain(Tail(d)) /\ (Tail(d) # <<>> => DownNext(d[1], Tail(d)[1]))
<1>1. /\ Len(d) \in Nat \ {0} /\ Len(Tail(d)) = Len(d) - 1
      /\ \A i \in 1..(Len(d) - 1) : Tail(d)[i] = d[i + 1]
      /\ Tail(d) = <<>> <=> Len(d) = 1
  BY TailParts
<1>2. \A i \in 1..(Len(d) - 1) : DownNext(d[i], d[i + 1])
  BY DEF DownChain
<1>3. ASSUME NEW i \in 1..(Len(d) - 2)  PROVE DownNext(Tail(d)[i], Tail(d)[i + 1])
  <2>1. i \in 1..(Len(d) - 1) /\ i + 1 \in 1..(Len(d) - 1)
    BY <1>1
  <2> QED
    BY <1>1, <1>2, <2>1
<1>4. Tail(d) # <<>> => 1 \in 1..(Len(d) - 1)
  BY <1>1
<1>5. Len(Tail(d)) - 1 = Len(d) - 2
  BY <1>1
<1> QED
  BY <1>1, <1>2, <1>3, <1>4, <1>5 DEF DownChain

\* A frame that may follow the last one makes a longer chain.
LEMMA DownPut ==
  ASSUME NEW d \in Seq(DownFrame), NEW f \in DownFrame, DownChain(d),
         d # <<>> => DownNext(d[Len(d)], f)
  PROVE  DownChain(d \o <<f>>)
<1> DEFINE e == d \o <<f>>
<1>1. /\ Len(d) \in Nat /\ Len(e) = Len(d) + 1
      /\ \A i \in 1..Len(d) : e[i] = d[i]
      /\ e[Len(d) + 1] = f /\ (d = <<>> <=> Len(d) = 0)
  BY PutParts
<1> HIDE DEF e
<1>2. ASSUME NEW i \in 1..Len(d)  PROVE DownNext(e[i], e[i + 1])
  <2>1. CASE i = Len(d)
    BY <1>1, <2>1
  <2>2. CASE i # Len(d)
    <3>1. i \in 1..(Len(d) - 1) /\ i + 1 \in 1..Len(d)
      BY <1>1, <2>2
    <3> QED
      BY <1>1, <3>1 DEF DownChain
  <2> QED
    BY <2>1, <2>2
<1>3. Len(e) - 1 = Len(d)
  BY <1>1
<1> QED
  BY <1>2, <1>3 DEF DownChain, e

\* Two chains that fit make one.
LEMMA UpJoin ==
  ASSUME NEW u \in Seq(UpFrame), NEW v \in Seq(UpFrame), UpChain(u), UpChain(v),
         u # <<>> /\ v # <<>> => UpNext(u[Len(u)], v[1])
  PROVE  UpChain(u \o v)
<1> DEFINE w == u \o v
<1>1. /\ Len(u) \in Nat /\ Len(v) \in Nat /\ Len(w) = Len(u) + Len(v)
      /\ \A i \in 1..Len(u) : w[i] = u[i]
      /\ \A i \in 1..Len(v) : w[Len(u) + i] = v[i]
      /\ (u = <<>> <=> Len(u) = 0) /\ (v = <<>> <=> Len(v) = 0)
  BY JoinParts
<1> HIDE DEF w
<1>2. ASSUME NEW i \in 1..(Len(w) - 1)  PROVE UpNext(w[i], w[i + 1])
  <2>1. CASE i < Len(u)
    <3>1. i \in 1..(Len(u) - 1) /\ i \in 1..Len(u) /\ i + 1 \in 1..Len(u)
      BY <1>1, <2>1
    <3> QED
      BY <1>1, <3>1 DEF UpChain
  <2>2. CASE i = Len(u)
    <3>1. i \in 1..Len(u) /\ 1 \in 1..Len(v) /\ i + 1 = Len(u) + 1
      BY <1>1, <2>2
    <3> QED
      BY <1>1, <2>2, <3>1
  <2>3. CASE i > Len(u)
    <3> DEFINE j == i - Len(u)
    <3>1. /\ j \in 1..(Len(v) - 1) /\ j \in 1..Len(v) /\ j + 1 \in 1..Len(v)
          /\ i = Len(u) + j /\ i + 1 = Len(u) + (j + 1)
      BY <1>1, <2>3
    <3> HIDE DEF j
    <3>2. w[i] = v[j] /\ w[i + 1] = v[j + 1]
      BY <1>1, <3>1
    <3> QED
      BY <3>1, <3>2 DEF UpChain
  <2> QED
    BY <1>1, <2>1, <2>2, <2>3
<1> QED
  BY <1>2 DEF UpChain, w

\* A frame of two queues is a frame of one of them.
LEMMA JoinFrames ==
  ASSUME NEW S, NEW s \in Seq(S), NEW t \in Seq(S), NEW i \in 1..Len(s \o t)
  PROVE  \/ \E j \in 1..Len(s) : (s \o t)[i] = s[j]
         \/ \E j \in 1..Len(t) : (s \o t)[i] = t[j]
BY JoinParts

\* The enumeration of blocks, as frames.
LEMMA BlockChain ==
  ASSUME NEW s \in Seq(Blocks)
  PROVE  LET v == [i \in DOMAIN s |-> BlockFrame(s[i])]
         IN /\ v \in Seq(UpFrame) /\ Len(v) = Len(s) /\ UpChain(v)
            /\ \A i \in 1..Len(v) : v[i].tag = "Block"
<1> DEFINE v == [i \in DOMAIN s |-> BlockFrame(s[i])]
<1>1. v \in Seq(UpFrame)
  BY BlockFrames
<1>2. DOMAIN s = 1..Len(s) /\ Len(s) \in Nat /\ Len(v) = Len(s)
  OBVIOUS
<1>3. \A i \in 1..Len(v) : v[i].tag = "Block"
  BY <1>2 DEF BlockFrame
<1> HIDE DEF v
<1>4. UpChain(v)
  BY <1>2, <1>3 DEF UpChain, UpNext
<1> QED
  BY <1>1, <1>2, <1>3, <1>4 DEF v

\* A queue of one frame.
LEMMA OneFrame ==
  ASSUME NEW f
  PROVE  UpChain(<<f>>) /\ Len(<<f>>) = 1 /\ <<f>>[1] = f /\ <<f>> # <<>> /\ DownChain(<<f>>)
BY DEF UpChain, DownChain

\* The payload of an upload is what its head declares.
LEMMA PayloadChain ==
  ASSUME TypeOK, NEW r \in Requests
  PROVE  /\ Payload(r) \in Seq(UpFrame) /\ UpChain(Payload(r)) /\ Payload(r) # <<>>
         /\ Payload(r)[1] = IF turn[r].whole THEN RequestBody(r) ELSE Program(r)
         /\ \A i \in 1..Len(Payload(r)) :
              Payload(r)[i].tag \in {"Program", "RequestBody", "Block"}
<1>0. turn[r].push \in Seq(Blocks)
  BY DEF TypeOK, TypeLocal, Turn
<1> DEFINE v == [i \in DOMAIN turn[r].push |-> BlockFrame(turn[r].push[i])]
<1>1. /\ v \in Seq(UpFrame) /\ UpChain(v) /\ \A i \in 1..Len(v) : v[i].tag = "Block"
  BY <1>0, BlockChain
<1>2. CASE turn[r].whole
  <2>1. Payload(r) = <<RequestBody(r)>>
    BY <1>2 DEF Payload
  <2>2. RequestBody(r) \in UpFrame /\ RequestBody(r).tag = "RequestBody"
    BY UpTypes DEF RequestBody
  <2> QED
    BY <1>2, <2>1, <2>2, OneFrame
<1>3. CASE ~turn[r].whole
  <2> DEFINE f == Program(r)
  <2>1. Payload(r) = <<f>> \o v
    BY <1>3 DEF Payload
  <2>2. f \in UpFrame /\ f.tag = "Program"
    BY UpTypes DEF Program
  <2> HIDE DEF v, f
  <2>3. <<f>> \in Seq(UpFrame) /\ UpChain(<<f>>) /\ <<f>>[Len(<<f>>)] = f
    BY <2>2, OneFrame
  <2>4. v # <<>> => UpNext(f, v[1])
    <3>1. v # <<>> => 1 \in 1..Len(v)
      BY <1>1
    <3> QED
      BY <1>1, <2>2, <3>1 DEF UpNext
  <2>5. UpChain(<<f>> \o v) /\ <<f>> \o v \in Seq(UpFrame)
    <3>1. <<f>> # <<>> /\ v # <<>> => UpNext(<<f>>[Len(<<f>>)], v[1])
      BY <2>3, <2>4
    <3>2. UpChain(<<f>> \o v)
      BY <1>1, <2>3, <3>1, UpJoin
    <3> QED
      BY <1>1, <2>3, <3>2
  <2>6. <<f>> \o v # <<>> /\ (<<f>> \o v)[1] = f
    BY <1>1, <2>3
  <2>7. \A i \in 1..Len(<<f>> \o v) : (<<f>> \o v)[i].tag \in {"Program", "Block"}
    <3>1. ASSUME NEW i \in 1..Len(<<f>> \o v)
          PROVE  (<<f>> \o v)[i].tag \in {"Program", "Block"}
      <4>1. \/ \E j \in 1..Len(<<f>>) : (<<f>> \o v)[i] = <<f>>[j]
            \/ \E j \in 1..Len(v) : (<<f>> \o v)[i] = v[j]
        BY <1>1, <2>3, JoinFrames
      <4>2. \A j \in 1..Len(<<f>>) : <<f>>[j] = f
        OBVIOUS
      <4> QED
        BY <1>1, <2>2, <4>1, <4>2
    <3> QED
      BY <3>1
  <2> QED
    BY <1>3, <2>1, <2>5, <2>6, <2>7 DEF f
<1> QED
  BY <1>2, <1>3

\* An upload is a chain from its greeting, or its head, to the end of the body;
\* the only head in it is the request's.
LEMMA UploadChain ==
  ASSUME TypeOK, NEW r \in Requests, NEW c \in Conns
  PROVE  /\ Upload(r, c) \in Seq(UpFrame) /\ UpChain(Upload(r, c)) /\ Upload(r, c) # <<>>
         /\ Upload(r, c)[1].tag = IF used[c] = 0 THEN "Hello" ELSE "RequestHead"
         /\ \A i \in 1..Len(Upload(r, c)) : Upload(r, c)[i].tag = "RequestHead" =>
              Upload(r, c)[i].req = r /\ (turn[r].whole => ~Upload(r, c)[i].split)
<1> DEFINE h == RequestHead(r, ~turn[r].whole)
           pre == IF used[c] = 0 THEN <<Hello>> ELSE <<>>
           p == Payload(r)
           a == pre \o <<h>>
           b == a \o p
           w == b \o <<EndOfBody>>
<1>1. Upload(r, c) = w
  BY DEF Upload
<1>2. /\ h \in UpFrame /\ h.tag = "RequestHead" /\ h.req = r /\ h.split = ~turn[r].whole
      /\ Hello \in UpFrame /\ Hello.tag = "Hello"
      /\ EndOfBody \in UpFrame /\ EndOfBody.tag = "EndOfBody"
  <2>1. (~turn[r].whole) \in BOOLEAN
    OBVIOUS
  <2> QED
    BY <2>1, UpTypes DEF RequestHead, Hello, EndOfBody
<1>3. /\ p \in Seq(UpFrame) /\ UpChain(p) /\ p # <<>>
      /\ p[1] = IF turn[r].whole THEN RequestBody(r) ELSE Program(r)
      /\ \A i \in 1..Len(p) : p[i].tag \in {"Program", "RequestBody", "Block"}
  BY PayloadChain
<1> HIDE DEF h, p
<1>4. /\ <<h>> \in Seq(UpFrame) /\ UpChain(<<h>>) /\ <<h>>[Len(<<h>>)] = h
      /\ <<EndOfBody>> \in Seq(UpFrame) /\ UpChain(<<EndOfBody>>) /\ <<EndOfBody>>[1] = EndOfBody
  BY <1>2, OneFrame
<1>5. /\ pre \in Seq(UpFrame) /\ UpChain(pre)
      /\ pre # <<>> => pre[Len(pre)] = Hello
      /\ \A i \in 1..Len(pre) : pre[i].tag = "Hello"
  <2>1. CASE used[c] = 0
    BY <1>2, <2>1, OneFrame
  <2>2. CASE used[c] # 0
    BY <2>2 DEF UpChain
  <2> QED
    BY <2>1, <2>2
<1>6. /\ a \in Seq(UpFrame) /\ UpChain(a) /\ a # <<>> /\ a[Len(a)] = h
      /\ a[1].tag = IF used[c] = 0 THEN "Hello" ELSE "RequestHead"
      /\ \A i \in 1..Len(a) : a[i].tag = "Hello" \/ a[i] = h
  <2>1. UpNext(Hello, h)
    BY <1>2 DEF UpNext
  <2>2. UpChain(a)
    BY <1>4, <1>5, <2>1, UpJoin
  <2>3. /\ a \in Seq(UpFrame) /\ a # <<>> /\ Len(a) = Len(pre) + 1 /\ Len(pre) \in Nat
        /\ \A i \in 1..Len(pre) : a[i] = pre[i]
        /\ a[Len(pre) + 1] = h
    BY <1>2, <1>5, PutParts
  <2>4. a[Len(a)] = h
    BY <2>3
  <2>5. \A i \in 1..Len(a) : a[i].tag = "Hello" \/ a[i] = h
    <3>1. \A i \in 1..Len(a) : i \in 1..Len(pre) \/ i = Len(pre) + 1
      BY <2>3
    <3> QED
      BY <1>5, <2>3, <3>1
  <2>6. a[1].tag = IF used[c] = 0 THEN "Hello" ELSE "RequestHead"
    <3>1. CASE used[c] = 0
      <4>1. Len(pre) = 1 /\ 1 \in 1..Len(pre)
        BY <3>1
      <4> QED
        BY <1>5, <2>3, <3>1, <4>1
    <3>2. CASE used[c] # 0
      <4>1. Len(pre) = 0
        BY <3>2
      <4> QED
        BY <1>2, <2>3, <3>2, <4>1
    <3> QED
      BY <3>1, <3>2
  <2> QED
    BY <2>2, <2>3, <2>4, <2>5, <2>6
<1> HIDE DEF a
<1>7. /\ b \in Seq(UpFrame) /\ UpChain(b) /\ b # <<>> /\ b[1] = a[1]
      /\ b[Len(b)].tag \in {"Program", "RequestBody", "Block"}
      /\ \A i \in 1..Len(b) : b[i].tag = "RequestHead" => b[i] = h
  <2>1. UpNext(h, p[1])
    <3>1. turn[r].whole => UpNext(h, RequestBody(r))
      BY <1>2 DEF UpNext
    <3>2. ~turn[r].whole => UpNext(h, Program(r))
      BY <1>2 DEF UpNext
    <3> QED
      BY <1>3, <3>1, <3>2
  <2>2. b \in Seq(UpFrame) /\ UpChain(b)
    BY <1>3, <1>6, <2>1, UpJoin
  <2>3. Len(p) \in 1..Len(p) /\ Len(b) = Len(a) + Len(p) /\ 1 \in 1..Len(a)
    BY <1>3, <1>6
  <2>4. b[Len(b)] = p[Len(p)] /\ b[1] = a[1] /\ b # <<>>
    BY <1>3, <1>6, <2>3
  <2>5. b[Len(b)].tag \in {"Program", "RequestBody", "Block"}
    BY <1>3, <2>3, <2>4
  <2>6. ASSUME NEW i \in 1..Len(b), b[i].tag = "RequestHead"  PROVE b[i] = h
    <3>1. \/ \E j \in 1..Len(a) : b[i] = a[j]
          \/ \E j \in 1..Len(p) : b[i] = p[j]
      BY <1>3, <1>6, JoinFrames
    <3> QED
      BY <1>3, <1>6, <2>6, <3>1
  <2> QED
    BY <2>2, <2>4, <2>5, <2>6
<1> HIDE DEF b
<1>8. /\ w \in Seq(UpFrame) /\ UpChain(w) /\ w # <<>> /\ w[1] = b[1]
      /\ \A i \in 1..Len(w) : w[i].tag = "RequestHead" => w[i] = h
  <2>1. UpNext(b[Len(b)], EndOfBody)
    BY <1>2, <1>7 DEF UpNext
  <2>2. UpChain(w)
    BY <1>4, <1>7, <2>1, UpJoin
  <2>3. w \in Seq(UpFrame) /\ w # <<>>
    BY <1>4, <1>7
  <2>4. w[1] = b[1]
    BY <1>4, <1>7
  <2>5. ASSUME NEW i \in 1..Len(w), w[i].tag = "RequestHead"  PROVE w[i] = h
    <3>1. \/ \E j \in 1..Len(b) : w[i] = b[j]
          \/ \E j \in 1..Len(<<EndOfBody>>) : w[i] = <<EndOfBody>>[j]
      BY <1>4, <1>7, JoinFrames
    <3>2. \A j \in 1..Len(<<EndOfBody>>) : <<EndOfBody>>[j].tag = "EndOfBody"
      BY <1>2
    <3> QED
      BY <1>7, <2>5, <3>1, <3>2
  <2> QED
    BY <2>2, <2>3, <2>4, <2>5
<1> HIDE DEF w
<1> QED
  BY <1>1, <1>2, <1>6, <1>7, <1>8

\* The answer to a Need: blocks, then the end of the body.
LEMMA ResendChain ==
  ASSUME TypeOK, NEW r \in Requests
  PROVE  /\ Resend(r) \in Seq(UpFrame) /\ UpChain(Resend(r)) /\ Resend(r) # <<>>
         /\ \A i \in 1..Len(Resend(r)) : Resend(r)[i].tag \in {"Block", "EndOfBody"}
<1> DEFINE held == SetToSeq(Incoming(r).blocks \cap lstore)
           v == [i \in DOMAIN held |-> BlockFrame(held[i])]
           w == v \o <<EndOfBody>>
<1>1. Incoming(r).blocks \cap lstore \in SUBSET Blocks
  BY DEF TypeOK, TypeViews
<1>2. held \in Seq(Blocks)
  BY <1>1, SetToSeqType, SeqDef
<1>3. Resend(r) = w
  BY DEF Resend
<1> HIDE DEF held
<1>4. v \in Seq(UpFrame) /\ UpChain(v) /\ \A i \in 1..Len(v) : v[i].tag = "Block"
  BY <1>2, BlockChain
<1>5. /\ EndOfBody \in UpFrame /\ EndOfBody.tag = "EndOfBody"
      /\ <<EndOfBody>> \in Seq(UpFrame) /\ UpChain(<<EndOfBody>>) /\ <<EndOfBody>>[1] = EndOfBody
  BY UpTypes, OneFrame DEF EndOfBody
<1> HIDE DEF v
<1>6. v # <<>> => UpNext(v[Len(v)], EndOfBody)
  <2>1. v # <<>> => Len(v) \in 1..Len(v)
    BY <1>4
  <2> QED
    BY <1>4, <1>5, <2>1 DEF UpNext
<1>7. UpChain(w)
  BY <1>4, <1>5, <1>6, UpJoin
<1>8. w \in Seq(UpFrame) /\ w # <<>>
  BY <1>4, <1>5
<1>9. ASSUME NEW i \in 1..Len(w)  PROVE w[i].tag \in {"Block", "EndOfBody"}
  <2>1. \/ \E j \in 1..Len(v) : w[i] = v[j]
        \/ \E j \in 1..Len(<<EndOfBody>>) : w[i] = <<EndOfBody>>[j]
    BY <1>4, <1>5, JoinFrames
  <2>2. \A j \in 1..Len(<<EndOfBody>>) : <<EndOfBody>>[j].tag = "EndOfBody"
    BY <1>5
  <2> QED
    BY <1>4, <2>1, <2>2
<1> QED
  BY <1>3, <1>7, <1>8, <1>9

-----------------------------------------------------------------------------
(* What the task does to the uplink. *)

\* A task whose next frame is of some kind is in the state that waits for it.
LEMMA FirstTells ==
  ASSUME NEW t, NEW f, UpFirst(t, f)
  PROVE  /\ f.tag = "Hello" => t = NewTask
         /\ f.tag \in {"Reset", "RequestHead"} => t = Blank
         /\ f.tag = "Program" => HeadRead(t) /\ t.head.split /\ f = Program(t.head.req)
         /\ f.tag = "RequestBody" => HeadRead(t) /\ ~t.head.split /\ f = RequestBody(t.head.req)
         /\ f.tag = "Block" => SplitRead(t)
         /\ f.tag = "EndOfBody" => SplitRead(t) \/ WholeRead(t)
BY DEF UpFirst, Program, RequestBody

\* What NewTask and Blank are.
LEMMA FreshTasks ==
  /\ NewTask.pc = "read" /\ ~NewTask.greeted /\ NewTask.head = NoHead
  /\ Blank.pc = "read" /\ Blank.greeted /\ Blank.head = NoHead
  /\ Blank.instrs = None /\ Blank.literal = <<>> /\ Blank.repairs = 0
  /\ Blank.call = 0 /\ Blank.relayed = 0
  /\ NoHead.req = None /\ ~NoHead.split /\ Blank # NewTask
  /\ Blank \in Task /\ Ended.pc = "ended" /\ Ended \in Task
<1>1. /\ NewTask.pc = "read" /\ ~NewTask.greeted /\ NewTask.head = NoHead
      /\ Blank.pc = "read" /\ Blank.greeted /\ Blank.head = NoHead
      /\ Blank.instrs = None /\ Blank.literal = <<>> /\ Blank.repairs = 0
      /\ Blank.call = 0 /\ Blank.relayed = 0
      /\ NoHead.req = None /\ ~NoHead.split
      /\ Ended.pc = "ended"
  BY DEF NewTask, Blank, NoHead, Ended
<1>2. Blank \in Task
  BY TaskTypes DEF Blank, Task
<1> QED
  BY <1>1, <1>2, TaskTypes

\* A task whose record has the fields of Blank is Blank.
LEMMA IsBlank ==
  ASSUME NEW t \in Task, t.pc = "read", t.greeted, t.head = NoHead, t.instrs = None,
         t.literal = <<>>, t.repairs = 0, t.call = 0, t.relayed = 0
  PROVE  t = Blank
BY DEF Task, Blank, NewTask

\* The greeting.
LEMMA ReadsHello ==
  ASSUME NEW t \in Task, NEW u \in Seq(UpFrame), Reads(t, u), u # <<>>, u[1].tag = "Hello"
  PROVE  t = NewTask /\ Reads(Blank, Tail(u)) /\ Tail(u) \in Seq(UpFrame)
<1>1. UpFirst(t, u[1]) /\ UpChain(u)
  BY DEF Reads
<1>2. t = NewTask
  BY <1>1, FirstTells
<1>3. /\ Tail(u) \in Seq(UpFrame) /\ UpChain(Tail(u))
      /\ Tail(u) # <<>> => UpNext(u[1], Tail(u)[1])
  BY <1>1, UpTail, TailParts
<1>4. Tail(u) # <<>> => UpFirst(Blank, Tail(u)[1])
  BY <1>3 DEF UpNext, UpFirst
<1> QED
  BY <1>2, <1>3, <1>4, FreshTasks DEF Reads

\* The head.
LEMMA ReadsHead ==
  ASSUME NEW t \in Task, NEW u \in Seq(UpFrame), Reads(t, u), u # <<>>,
         u[1].tag = "RequestHead"
  PROVE  LET next == [t EXCEPT !.head = [req |-> u[1].req, split |-> u[1].split]]
         IN t = Blank /\ Reads(next, Tail(u)) /\ next.pc = "read" /\ next # NewTask
            /\ next.greeted /\ Tail(u) \in Seq(UpFrame)
<1> DEFINE next == [t EXCEPT !.head = [req |-> u[1].req, split |-> u[1].split]]
<1>1. UpFirst(t, u[1]) /\ UpChain(u) /\ u[1] \in UpFrame
  BY DEF Reads
<1>2. t = Blank
  BY <1>1, FirstTells
<1>3. /\ Tail(u) \in Seq(UpFrame) /\ UpChain(Tail(u))
      /\ Tail(u) # <<>> => UpNext(u[1], Tail(u)[1])
  BY <1>1, UpTail, TailParts
<1>4. /\ next.pc = "read" /\ next.greeted /\ next.instrs = None /\ next.literal = <<>>
      /\ next.head.req = u[1].req /\ next.head.split = u[1].split
  BY <1>2, FreshTasks DEF Task
<1>5. u[1].req # None
  BY <1>1, UpFields, NoneAssumption
<1> HIDE DEF next
<1>6. HeadRead(next)
  BY <1>4, <1>5 DEF HeadRead
<1>7. Tail(u) # <<>> => UpFirst(next, Tail(u)[1])
  BY <1>3, <1>4, <1>6 DEF UpNext, UpFirst
<1>8. Reads(next, Tail(u)) /\ next # NewTask
  BY <1>3, <1>4, <1>7, FreshTasks DEF Reads
<1> QED
  BY <1>2, <1>3, <1>4, <1>8 DEF next

\* The program of a split body.
LEMMA ReadsProgram ==
  ASSUME NEW t \in Task, NEW u \in Seq(UpFrame), Reads(t, u), u # <<>>,
         u[1].tag = "Program"
  PROVE  LET next == [t EXCEPT !.instrs = u[1].req]
         IN HeadRead(t) /\ Reads(next, Tail(u)) /\ next.pc = "read" /\ next.greeted
            /\ next.head = t.head /\ Tail(u) \in Seq(UpFrame)
<1> DEFINE next == [t EXCEPT !.instrs = u[1].req]
<1>1. UpFirst(t, u[1]) /\ UpChain(u) /\ u[1] \in UpFrame
  BY DEF Reads
<1>2. HeadRead(t) /\ t.head.split /\ u[1] = Program(t.head.req)
  BY <1>1, FirstTells
<1>3. /\ Tail(u) \in Seq(UpFrame) /\ UpChain(Tail(u))
      /\ Tail(u) # <<>> => UpNext(u[1], Tail(u)[1])
  BY <1>1, UpTail, TailParts
<1>4. u[1].req = t.head.req /\ u[1].tag = "Program"
  BY <1>2 DEF Program
<1>5. /\ next.pc = "read" /\ next.greeted /\ next.instrs = t.head.req
      /\ next.literal = <<>> /\ next.head = t.head
  BY <1>2, <1>4 DEF Task, HeadRead
<1> HIDE DEF next
<1>6. SplitRead(next)
  BY <1>2, <1>5 DEF HeadRead, SplitRead
<1>7. Tail(u) # <<>> => UpFirst(next, Tail(u)[1])
  BY <1>3, <1>4, <1>6 DEF UpNext, UpFirst
<1>8. Reads(next, Tail(u))
  BY <1>3, <1>5, <1>7 DEF Reads
<1> QED
  BY <1>2, <1>3, <1>5, <1>8 DEF next

\* A body in one piece.
LEMMA ReadsBody ==
  ASSUME NEW t \in Task, NEW u \in Seq(UpFrame), Reads(t, u), u # <<>>,
         u[1].tag = "RequestBody"
  PROVE  LET next == [t EXCEPT !.literal = Append(@, u[1].req)]
         IN HeadRead(t) /\ Reads(next, Tail(u)) /\ next.pc = "read" /\ next.greeted
            /\ next.head = t.head /\ Tail(u) \in Seq(UpFrame)
<1> DEFINE next == [t EXCEPT !.literal = Append(@, u[1].req)]
<1>1. UpFirst(t, u[1]) /\ UpChain(u) /\ u[1] \in UpFrame
  BY DEF Reads
<1>2. HeadRead(t) /\ ~t.head.split /\ u[1] = RequestBody(t.head.req)
  BY <1>1, FirstTells
<1>3. /\ Tail(u) \in Seq(UpFrame) /\ UpChain(Tail(u))
      /\ Tail(u) # <<>> => UpNext(u[1], Tail(u)[1])
  BY <1>1, UpTail, TailParts
<1>4. u[1].req = t.head.req /\ u[1].tag = "RequestBody"
  BY <1>2 DEF RequestBody
<1>5. Append(t.literal, u[1].req) = <<t.head.req>>
  BY <1>2, <1>4 DEF HeadRead
<1>6. /\ next.pc = "read" /\ next.greeted /\ next.instrs = None
      /\ next.literal = Append(t.literal, u[1].req) /\ next.head = t.head
  BY <1>2 DEF Task, HeadRead
<1> HIDE DEF next
<1>7. WholeRead(next)
  BY <1>2, <1>5, <1>6 DEF HeadRead, WholeRead
<1>8. Tail(u) # <<>> => UpFirst(next, Tail(u)[1])
  BY <1>3, <1>4, <1>7 DEF UpNext, UpFirst
<1>9. Reads(next, Tail(u))
  BY <1>3, <1>6, <1>8 DEF Reads
<1> QED
  BY <1>2, <1>3, <1>6, <1>9 DEF next

\* A block, or a Reset: the task stays as it is.
LEMMA ReadsOn ==
  ASSUME NEW t \in Task, NEW u \in Seq(UpFrame), Reads(t, u), u # <<>>,
         u[1].tag \in {"Block", "Reset"}
  PROVE  /\ Reads(t, Tail(u)) /\ Tail(u) \in Seq(UpFrame) /\ t.greeted
         /\ u[1].tag = "Block" => SplitRead(t)
<1>1. UpFirst(t, u[1]) /\ UpChain(u)
  BY DEF Reads
<1>2. /\ u[1].tag = "Block" => SplitRead(t)
      /\ u[1].tag = "Reset" => t = Blank
  BY <1>1, FirstTells
<1>3. /\ Tail(u) \in Seq(UpFrame) /\ UpChain(Tail(u))
      /\ Tail(u) # <<>> => UpNext(u[1], Tail(u)[1])
  BY <1>1, UpTail, TailParts
<1>4. Tail(u) # <<>> => UpFirst(t, Tail(u)[1])
  BY <1>2, <1>3 DEF UpNext, UpFirst
<1>5. t.pc \in {"read", "repair"} /\ t.greeted
  BY <1>2, FreshTasks DEF SplitRead
<1>6. t.pc = "repair" => SplitRead(t)
  BY DEF Reads
<1> QED
  BY <1>2, <1>3, <1>4, <1>5, <1>6 DEF Reads

\* The end of the body is the last frame, and what was read is the body the head
\* declares.
LEMMA ReadsEnd ==
  ASSUME NEW t \in Task, NEW u \in Seq(UpFrame), Reads(t, u), u # <<>>,
         u[1].tag = "EndOfBody"
  PROVE  Tail(u) = <<>> /\ (SplitRead(t) \/ WholeRead(t))
<1>1. UpFirst(t, u[1]) /\ UpChain(u)
  BY DEF Reads
<1>2. Tail(u) # <<>> => UpNext(u[1], Tail(u)[1])
  BY <1>1, UpTail
<1>3. Tail(u) = <<>>
  BY <1>2 DEF UpNext
<1> QED
  BY <1>1, <1>3, FirstTells

-----------------------------------------------------------------------------
(* What the task does to the downlink. *)

\* Reading a frame of the uplink leaves the heads of r's upload.
LEMMA CarriesUpOn ==
  ASSUME NEW r \in Requests, NEW whole \in BOOLEAN, NEW t \in Task, NEW next,
         NEW u \in Seq(UpFrame), u # <<>>, CarriesUp(r, whole, t, u),
         next.pc # "ended" =>
           \/ next.head = t.head /\ t.pc # "ended"
           \/ next.head.req = None /\ ~next.head.split
           \/ /\ u[1].tag = "RequestHead"
              /\ next.head.req = u[1].req /\ next.head.split = u[1].split
  PROVE  CarriesUp(r, whole, next, Tail(u))
<1>1. /\ Len(Tail(u)) = Len(u) - 1 /\ Len(u) \in Nat \ {0}
      /\ \A i \in 1..(Len(u) - 1) : Tail(u)[i] = u[i + 1] /\ i + 1 \in 1..Len(u)
  BY TailParts
<1>2. /\ \A i \in 1..Len(u) : u[i].tag = "RequestHead" =>
                                u[i].req = r /\ (whole => ~u[i].split)
      /\ t.pc # "ended" => t.head.req \in {None, r} /\ (whole => ~t.head.split)
  BY DEF CarriesUp
<1>3. \A i \in 1..Len(Tail(u)) : Tail(u)[i].tag = "RequestHead" =>
        Tail(u)[i].req = r /\ (whole => ~Tail(u)[i].split)
  BY <1>1, <1>2
<1>4. 1 \in 1..Len(u)
  BY <1>1
<1>5. next.pc # "ended" => next.head.req \in {None, r} /\ (whole => ~next.head.split)
  BY <1>2, <1>4
<1> QED
  BY <1>3, <1>5 DEF CarriesUp

\* With nothing on the uplink there is only the head that was read.
LEMMA CarriesUpNothing ==
  ASSUME NEW r \in Requests, NEW whole \in BOOLEAN, NEW t,
         t.pc # "ended" => t.head.req \in {None, r} /\ (whole => ~t.head.split)
  PROVE  CarriesUp(r, whole, t, <<>>)
BY DEF CarriesUp

\* A frame that fits goes onto the downlink.
LEMMA CarriesDownPut ==
  ASSUME NEW r \in Requests, NEW whole \in BOOLEAN, NEW g, NEW n \in Nat,
         NEW d \in Seq(DownFrame), NEW f \in DownFrame,
         CarriesDown(r, whole, g, n, d), AnswerTo(r, whole, n, f),
         IF d = <<>> THEN DownFirst(r, g, f) ELSE DownNext(d[Len(d)], f)
  PROVE  CarriesDown(r, whole, g, n, d \o <<f>>)
<1> DEFINE e == d \o <<f>>
<1>1. /\ Len(e) = Len(d) + 1 /\ Len(d) \in Nat
      /\ \A i \in 1..Len(d) : e[i] = d[i]
      /\ e[Len(d) + 1] = f /\ (d = <<>> <=> Len(d) = 0)
  BY PutParts
<1>2. /\ \A i \in 1..Len(d) : AnswerTo(r, whole, n, d[i])
      /\ DownChain(d)
      /\ d # <<>> => DownFirst(r, g, d[1])
  BY DEF CarriesDown
<1>3. DownChain(e)
  BY <1>2, DownPut
<1> HIDE DEF e
<1>4. \A i \in 1..Len(e) : AnswerTo(r, whole, n, e[i])
  <2>1. \A i \in 1..Len(e) : i \in 1..Len(d) \/ i = Len(d) + 1
    BY <1>1
  <2> QED
    BY <1>1, <1>2, <2>1
<1>5. DownFirst(r, g, e[1])
  <2>1. CASE d = <<>>
    BY <1>1, <2>1
  <2>2. CASE d # <<>>
    <3>1. 1 \in 1..Len(d)
      BY <1>1, <2>2
    <3> QED
      BY <1>1, <1>2, <2>2, <3>1
  <2> QED
    BY <2>1, <2>2
<1> QED
  BY <1>3, <1>4, <1>5 DEF CarriesDown, e

\* The local end takes the first frame: what is behind it follows.
LEMMA CarriesDownTake ==
  ASSUME NEW r \in Requests, NEW whole \in BOOLEAN, NEW g, NEW h, NEW n \in Nat,
         NEW d \in Seq(DownFrame), d # <<>>, CarriesDown(r, whole, g, n, d),
         \A f \in DownFrame : DownNext(d[1], f) => DownFirst(r, h, f)
  PROVE  CarriesDown(r, whole, h, n, Tail(d)) /\ Tail(d) \in Seq(DownFrame)
<1>1. /\ Tail(d) \in Seq(DownFrame) /\ Len(Tail(d)) = Len(d) - 1 /\ Len(d) \in Nat \ {0}
      /\ \A i \in 1..(Len(d) - 1) : Tail(d)[i] = d[i + 1] /\ i + 1 \in 1..Len(d)
  BY TailParts
<1>2. DownChain(Tail(d)) /\ (Tail(d) # <<>> => DownNext(d[1], Tail(d)[1]))
  BY DownTail DEF CarriesDown
<1>3. \A i \in 1..Len(Tail(d)) : AnswerTo(r, whole, n, Tail(d)[i])
  BY <1>1 DEF CarriesDown
<1>4. Tail(d) # <<>> => DownFirst(r, h, Tail(d)[1])
  BY <1>1, <1>2
<1> QED
  BY <1>1, <1>2, <1>3, <1>4 DEF CarriesDown

\* More calls do not disturb what is on the way, nor what was handed over.
LEMMA CarriesMonotone ==
  ASSUME NEW r, NEW whole, NEW g, NEW n \in Nat, NEW m \in Nat, n <= m, NEW d,
         CarriesDown(r, whole, g, n, d)
  PROVE  CarriesDown(r, whole, g, m, d)
<1>1. \A x \in 1..n : x \in 1..m
  OBVIOUS
<1>2. \A i \in 1..Len(d) : AnswerTo(r, whole, m, d[i])
  BY <1>1 DEF CarriesDown, AnswerTo
<1> QED
  BY <1>2 DEF CarriesDown

\* A queue that says something says it after another frame is written, and says
\* nothing else besides that frame; less when one is read.
LEMMA SaysPut ==
  ASSUME NEW d \in Seq(DownFrame), NEW f \in DownFrame, NEW tag
  PROVE  Says(d \o <<f>>, tag) <=> Says(d, tag) \/ f.tag = tag
<1>1. /\ Len(d \o <<f>>) = Len(d) + 1 /\ Len(d) \in Nat
      /\ \A i \in 1..Len(d) : (d \o <<f>>)[i] = d[i]
      /\ (d \o <<f>>)[Len(d) + 1] = f
  BY PutParts
<1>2. \A i \in 1..(Len(d) + 1) : i \in 1..Len(d) \/ i = Len(d) + 1
  BY <1>1
<1>3. Len(d) + 1 \in 1..(Len(d) + 1) /\ \A i \in 1..Len(d) : i \in 1..(Len(d) + 1)
  BY <1>1
<1> QED
  BY <1>1, <1>2, <1>3 DEF Says

\* What is said behind the first frame is said.
LEMMA SaysTake ==
  ASSUME NEW d \in Seq(DownFrame), d # <<>>, NEW tag, Says(Tail(d), tag)
  PROVE  Says(d, tag)
<1>1. /\ Len(Tail(d)) = Len(d) - 1
      /\ \A i \in 1..(Len(d) - 1) : Tail(d)[i] = d[i + 1] /\ i + 1 \in 1..Len(d)
  BY TailParts
<1> QED
  BY <1>1 DEF Says

\* The first frame is said.
LEMMA SaysFirst ==
  ASSUME NEW d \in Seq(DownFrame), d # <<>>
  PROVE  Says(d, d[1].tag)
<1>1. 1 \in 1..Len(d)
  OBVIOUS
<1> QED
  BY <1>1 DEF Says

\* An empty downlink says nothing.
LEMMA SaysNothing == \A tag : ~Says(<<>>, tag)
BY DEF Says

\* A downlink that only acknowledges.
LEMMA AcksSay ==
  ASSUME NEW d \in Seq(DownFrame), OnlyAcks(d)
  PROVE  /\ \A tag : Says(d, tag) => tag = "HelloAck"
         /\ d # <<>> => d[Len(d)].tag = "HelloAck" /\ d[1].tag = "HelloAck"
<1>1. d # <<>> => Len(d) \in 1..Len(d) /\ 1 \in 1..Len(d)
  OBVIOUS
<1> QED
  BY <1>1 DEF OnlyAcks, Says

-----------------------------------------------------------------------------
(* The steps of a task, on the wires of its connection. *)

\* An idle connection has Reset frames on its uplink and nothing else.
LEMMA OnlyResets ==
  ASSUME NEW u \in Seq(UpFrame), ToSet(u) \subseteq {Reset}
  PROVE  /\ \A i \in 1..Len(u) : u[i] = Reset /\ u[i].tag = "Reset"
         /\ UpChain(u)
         /\ u # <<>> => ToSet(Tail(u)) \subseteq {Reset}
<1>1. \A i \in 1..Len(u) : u[i] = Reset
  BY DEF ToSet
<1>2. \A i \in 1..Len(u) : u[i].tag = "Reset"
  BY <1>1 DEF Reset
<1>3. UpChain(u)
  BY <1>2 DEF UpChain, UpNext
<1>4. ASSUME u # <<>>  PROVE ToSet(Tail(u)) \subseteq {Reset}
  <2>1. /\ Tail(u) \in Seq(UpFrame) /\ Len(Tail(u)) = Len(u) - 1
        /\ \A i \in 1..(Len(u) - 1) : Tail(u)[i] = u[i + 1] /\ i + 1 \in 1..Len(u)
    BY <1>4, TailParts
  <2>2. DOMAIN Tail(u) = 1..(Len(u) - 1)
    BY <2>1
  <2> QED
    BY <1>1, <2>1, <2>2 DEF ToSet
<1> QED
  BY <1>1, <1>2, <1>3, <1>4

\* The downlink after a frame was written to a local end that hears it, or not.
Put(heard, d, f) == IF heard THEN d \o <<f>> ELSE d

\* The frame may come next on a downlink that carries an answer to r.
Fits(r, whole, g, n, d, f) ==
  /\ AnswerTo(r, whole, n, f)
  /\ IF d = <<>> THEN DownFirst(r, g, f) ELSE DownNext(d[Len(d)], f)

\* A frame is read and nothing written.
LEMMA WireReads ==
  ASSUME NEW t \in Task, NEW u \in Seq(UpFrame), NEW d \in Seq(DownFrame),
         NEW open, NEW idle, WireOk(t, u, d, open, idle),
         t.pc # "ended", u # <<>>, NEW next, Reads(next, Tail(u)), next.pc # "ended",
         next = t \/ t # Blank \/ u[1].tag # "Reset"
  PROVE  WireOk(next, Tail(u), d, open, idle)
<1>1. ~Says(d, "Need") /\ ~Says(d, "Fail") /\ ~Says(d, "ResponseEnd") /\ (~open => d = <<>>)
  BY DEF WireOk
<1>2. ASSUME idle
      PROVE  d = <<>> /\ ToSet(Tail(u)) \subseteq {Reset} /\ next = Blank
  <2>1. d = <<>> /\ ToSet(u) \subseteq {Reset} /\ t = Blank
    BY <1>2 DEF WireOk
  <2>2. u[1].tag = "Reset" /\ ToSet(Tail(u)) \subseteq {Reset}
    <3>1. 1 \in 1..Len(u)
      OBVIOUS
    <3> QED
      BY <2>1, <3>1, OnlyResets
  <2> QED
    BY <2>1, <2>2
<1> QED
  BY <1>1, <1>2 DEF WireOk

\* A frame is written, in the middle of a request.
LEMMA WireWrites ==
  ASSUME NEW t \in Task, NEW u \in Seq(UpFrame), NEW d \in Seq(DownFrame),
         NEW open, NEW idle, WireOk(t, u, d, open, idle),
         t.pc # "ended", t # Blank, ~Says(d, "Need"),
         NEW next, NEW v, Reads(next, v), next.pc # "ended",
         NEW f \in DownFrame, f.tag \notin {"Fail", "ResponseEnd"},
         f.tag = "Need" => next.pc = "repair" /\ v = <<>>,
         NEW heard, heard => open
  PROVE  WireOk(next, v, Put(heard, d, f), open, idle) /\ Put(heard, d, f) \in Seq(DownFrame)
<1> DEFINE e == Put(heard, d, f)
<1>0. e = IF heard THEN d \o <<f>> ELSE d
  BY DEF Put
<1> HIDE DEF e
<1>1. ~idle /\ ~Says(d, "Fail") /\ ~Says(d, "ResponseEnd") /\ (~open => d = <<>>)
  BY DEF WireOk
<1>2. \A tag : Says(d \o <<f>>, tag) <=> Says(d, tag) \/ f.tag = tag
  BY SaysPut
<1>3. /\ Says(e, "Need") => next.pc = "repair" /\ v = <<>>
      /\ ~Says(e, "Fail") /\ ~Says(e, "ResponseEnd")
      /\ ~open => e = <<>>
  BY <1>0, <1>1, <1>2
<1>4. e \in Seq(DownFrame)
  BY <1>0, PutParts
<1> QED
  BY <1>1, <1>3, <1>4 DEF WireOk, e

\* The connection closes; what was written before is lost or arrives, with a
\* last word or without.
LEMMA WireCloses ==
  ASSUME NEW t, NEW u, NEW d, NEW open, NEW idle, WireOk(t, u, d, open, idle),
         NEW e, ~open \/ idle => e \in {<<>>, d}
  PROVE  WireOk(Ended, <<>>, e, open, idle)
<1>1. Reads(Ended, <<>>)
  BY FreshTasks DEF Reads, UpChain
<1>2. ToSet(<<>>) \subseteq {Reset}
  BY DEF ToSet
<1>3. /\ ~open => d = <<>>
      /\ idle => d = <<>>
  BY DEF WireOk
<1> QED
  BY <1>1, <1>2, <1>3, FreshTasks DEF WireOk

\* The same steps, for the turn that has the connection.
LEMMA CarriesReads ==
  ASSUME NEW t \in Task, NEW u \in Seq(UpFrame), NEW d \in Seq(DownFrame),
         NEW heard, t.pc \in {"read", "repair"}, u # <<>>,
         NEW next, next # NewTask, next.pc # "relay",
         \/ next.head = t.head
         \/ next.head.req = None /\ ~next.head.split
         \/ /\ u[1].tag = "RequestHead"
            /\ next.head.req = u[1].req /\ next.head.split = u[1].split,
         NEW r \in Requests, NEW whole \in BOOLEAN, NEW g, NEW n \in Nat,
         Carries(r, whole, g, n, t, u, d, heard)
  PROVE  Carries(r, whole, g, n, next, Tail(u), d, heard)
<1>1. CarriesUp(r, whole, t, u)
  BY DEF Carries
<1>2. CarriesUp(r, whole, next, Tail(u))
  BY <1>1, CarriesUpOn
<1>3. heard => Joins(r, g, t, u, d)
  BY DEF Carries
<1>4. heard => g = <<>> /\ OnlyAcks(d)
  BY <1>3 DEF Joins
<1>5. heard => Joins(r, g, next, Tail(u), d)
  BY <1>4 DEF Joins
<1> QED
  BY <1>2, <1>5 DEF Carries

\* The remote end writes a frame that fits.
LEMMA CarriesWrites ==
  ASSUME NEW t \in Task, NEW u \in Seq(UpFrame), NEW d \in Seq(DownFrame),
         NEW heard, NEW next, NEW v,
         NEW r \in Requests, NEW whole \in BOOLEAN, NEW g, NEW n \in Nat,
         Carries(r, whole, g, n, t, u, d, heard), CarriesUp(r, whole, next, v),
         NEW f \in DownFrame,
         heard => Fits(r, whole, g, n, d, f) /\ Joins(r, g, next, v, d \o <<f>>)
  PROVE  Carries(r, whole, g, n, next, v, Put(heard, d, f), heard)
<1> DEFINE e == Put(heard, d, f)
<1>0. e = IF heard THEN d \o <<f>> ELSE d
  BY DEF Put
<1> HIDE DEF e
<1>1. CarriesDown(r, whole, g, n, d)
  BY DEF Carries
<1>2. heard => CarriesDown(r, whole, g, n, d \o <<f>>)
  BY <1>1, CarriesDownPut DEF Fits
<1>3. CarriesDown(r, whole, g, n, e) /\ (heard => Joins(r, g, next, v, e))
  BY <1>0, <1>1, <1>2
<1> QED
  BY <1>3 DEF Carries, e

\* The remote end is gone: what it had said is all there is.
LEMMA CarriesCloses ==
  ASSUME NEW r \in Requests, NEW whole \in BOOLEAN, NEW g, NEW n \in Nat, NEW heard,
         NEW e, CarriesDown(r, whole, g, n, e)
  PROVE  Carries(r, whole, g, n, Ended, <<>>, e, heard)
BY FreshTasks, CarriesUpNothing DEF Carries

\* A downlink of which everything is lost.
LEMMA CarriesNothing ==
  ASSUME NEW r, NEW whole, NEW g, NEW n
  PROVE  CarriesDown(r, whole, g, n, <<>>)
BY DEF CarriesDown, DownChain

\* An agent's parts are numbered from the head on (GotOk).
Numbered(r, g) == \A i \in 1..Len(g) : g[i] = Part(r, g[1].call, i - 1)

\* One more ack.
LEMMA AcksPut ==
  ASSUME NEW d \in Seq(DownFrame), NEW f \in DownFrame, OnlyAcks(d), f.tag = "HelloAck"
  PROVE  OnlyAcks(d \o <<f>>)
<1>1. /\ Len(d \o <<f>>) = Len(d) + 1 /\ Len(d) \in Nat
      /\ \A i \in 1..Len(d) : (d \o <<f>>)[i] = d[i]
      /\ (d \o <<f>>)[Len(d) + 1] = f
  BY PutParts
<1>2. \A i \in 1..(Len(d) + 1) : i \in 1..Len(d) \/ i = Len(d) + 1
  BY <1>1
<1> QED
  BY <1>1, <1>2 DEF OnlyAcks

\* RemoteHello, of a paired local end.
LEMMA GreetStep ==
  ASSUME NEW t \in Task, NEW u \in Seq(UpFrame), NEW d \in Seq(DownFrame),
         NEW open, NEW idle, NEW heard, heard => open,
         WireOk(t, u, d, open, idle), t.pc # "ended", u # <<>>, u[1].tag = "Hello",
         NEW f \in DownFrame, f.tag = "HelloAck"
  PROVE  /\ t = NewTask /\ WireOk(Blank, Tail(u), Put(heard, d, f), open, idle)
         /\ Put(heard, d, f) \in Seq(DownFrame)
         /\ \A r \in Requests, whole \in BOOLEAN, n \in Nat : \A g :
              Carries(r, whole, g, n, t, u, d, heard)
                => Carries(r, whole, g, n, Blank, Tail(u), Put(heard, d, f), heard)
<1>1. t = NewTask /\ Reads(Blank, Tail(u))
  BY ReadsHello DEF WireOk
<1>2. ~Says(d, "Need")
  BY <1>1, FreshTasks DEF WireOk
<1>3. /\ WireOk(Blank, Tail(u), Put(heard, d, f), open, idle)
      /\ Put(heard, d, f) \in Seq(DownFrame)
  <2>1. Blank.pc # "ended" /\ t # Blank /\ f.tag \notin {"Fail", "ResponseEnd"} /\ f.tag # "Need"
    BY <1>1, FreshTasks
  <2> QED
    BY <1>1, <1>2, <2>1, WireWrites
<1>4. ASSUME NEW r \in Requests, NEW whole \in BOOLEAN, NEW n \in Nat, NEW g,
             Carries(r, whole, g, n, t, u, d, heard)
      PROVE  Carries(r, whole, g, n, Blank, Tail(u), Put(heard, d, f), heard)
  <2>1. CarriesUp(r, whole, Blank, Tail(u))
    <3>1. CarriesUp(r, whole, t, u)
      BY <1>4 DEF Carries
    <3> QED
      BY <3>1, CarriesUpOn, FreshTasks
  <2>2. ASSUME heard
        PROVE  Fits(r, whole, g, n, d, f) /\ Joins(r, g, Blank, Tail(u), d \o <<f>>)
    <3>1. Joins(r, g, t, u, d)
      BY <1>4, <2>2 DEF Carries
    <3>2. d = <<>> /\ g = <<>> /\ OnlyAcks(d)
      BY <1>1, <3>1, FreshTasks DEF Joins
    <3>3. OnlyAcks(d \o <<f>>)
      BY <3>2, AcksPut
    <3>4. Joins(r, g, Blank, Tail(u), d \o <<f>>)
      BY <3>2, <3>3, FreshTasks DEF Joins
    <3> QED
      BY <3>2, <3>4 DEF Fits, AnswerTo, DownFirst
  <2> QED
    BY <1>4, <2>1, <2>2, CarriesWrites
<1> QED
  BY <1>1, <1>3, <1>4

\* RemoteAsksAgain.
LEMMA AskStep ==
  ASSUME NEW t \in Task, NEW u \in Seq(UpFrame), NEW d \in Seq(DownFrame),
         NEW open, NEW idle, NEW heard, heard => open,
         WireOk(t, u, d, open, idle), u # <<>>, u[1].tag = "EndOfBody", SplitRead(t),
         NEW f \in DownFrame, f.tag = "Need",
         NEW next \in Task, next.pc = "repair", next.greeted = t.greeted,
         next.head = t.head, next.instrs = t.instrs, next.literal = t.literal
  PROVE  /\ WireOk(next, Tail(u), Put(heard, d, f), open, idle)
         /\ Put(heard, d, f) \in Seq(DownFrame)
         /\ \A r \in Requests, whole \in BOOLEAN, n \in Nat : \A g :
              Carries(r, whole, g, n, t, u, d, heard)
                => Carries(r, whole, g, n, next, Tail(u), Put(heard, d, f), heard)
<1>1. Tail(u) = <<>> /\ t.pc \in {"read", "repair"} /\ t # Blank /\ t.pc # "ended"
  BY ReadsEnd, FreshTasks DEF WireOk, SplitRead
<1>2. ~Says(d, "Need")
  BY <1>1 DEF WireOk
<1>3. /\ next.pc = "repair" /\ next.head = t.head /\ next.greeted
      /\ SplitRead(next) /\ next # NewTask
  BY FreshTasks DEF SplitRead, Task
<1>4. Reads(next, Tail(u))
  <2>1. Reads(next, <<>>)
    BY <1>3 DEF Reads, UpChain
  <2> QED
    BY <1>1, <2>1
<1>5. WireOk(next, Tail(u), Put(heard, d, f), open, idle) /\ Put(heard, d, f) \in Seq(DownFrame)
  <2>1. /\ next.pc # "ended" /\ f.tag \notin {"Fail", "ResponseEnd"}
        /\ f.tag = "Need" => next.pc = "repair" /\ Tail(u) = <<>>
    BY <1>1, <1>3
  <2> QED
    BY <1>1, <1>2, <1>4, <2>1, WireWrites
<1>6. ASSUME NEW r \in Requests, NEW whole \in BOOLEAN, NEW n \in Nat, NEW g,
             Carries(r, whole, g, n, t, u, d, heard)
      PROVE  Carries(r, whole, g, n, next, Tail(u), Put(heard, d, f), heard)
  <2>1. CarriesUp(r, whole, t, u)
    BY <1>6 DEF Carries
  <2>2. ~whole /\ CarriesUp(r, whole, next, Tail(u))
    BY <1>1, <1>3, <2>1 DEF CarriesUp, SplitRead
  <2>3. ASSUME heard
        PROVE  Fits(r, whole, g, n, d, f) /\ Joins(r, g, next, Tail(u), d \o <<f>>)
    <3>1. Joins(r, g, t, u, d)
      BY <1>1, <1>6, <2>3 DEF Carries
    <3>2. g = <<>> /\ OnlyAcks(d)
      BY <1>1, <3>1 DEF Joins
    <3>3. d # <<>> => DownNext(d[Len(d)], f)
      BY <3>2, AcksSay DEF DownNext
    <3>4. Joins(r, g, next, Tail(u), d \o <<f>>)
      BY <1>1, <1>3 DEF Joins
    <3> QED
      BY <2>2, <3>2, <3>3, <3>4 DEF Fits, AnswerTo, DownFirst
  <2> QED
    BY <1>6, <2>2, <2>3, CarriesWrites
<1> QED
  BY <1>5, <1>6

\* A task that serves r: the head is r's.
LEMMA ServesOwner ==
  ASSUME NEW r \in Requests, NEW whole \in BOOLEAN, NEW t \in Task, NEW u,
         CarriesUp(r, whole, t, u), Serving(t)
  PROVE  /\ t.head.req = r /\ (whole => ~t.head.split)
         /\ \A next : next.head = t.head => CarriesUp(r, whole, next, <<>>)
<1>1. t.head.req = r /\ (whole => ~t.head.split)
  BY DEF CarriesUp, Serving
<1> QED
  BY <1>1, CarriesUpNothing

\* RemoteResponds.
LEMMA RespondStep ==
  ASSUME NEW t \in Task, NEW d \in Seq(DownFrame),
         NEW open, NEW idle, NEW heard, heard => open,
         WireOk(t, <<>>, d, open, idle), t.pc = "upstream",
         NEW f, f = ResponseHead(t.head.req, t.call),
         NEW next \in Task, next.pc = "relay", next.greeted = t.greeted,
         next.head = t.head, next.literal = t.literal, next.repairs = t.repairs,
         next.call = t.call, next.relayed = t.relayed
  PROVE  /\ WireOk(next, <<>>, Put(heard, d, f), open, idle)
         /\ Put(heard, d, f) \in Seq(DownFrame)
         /\ \A r \in Requests, whole \in BOOLEAN, n \in Nat : \A g :
              Carries(r, whole, g, n, t, <<>>, d, heard) /\ t.call \in 1..n
                => Carries(r, whole, g, n, next, <<>>, Put(heard, d, f), heard)
<1>1. Serving(t) /\ t.head.req \in Requests /\ t.call \in Nat
  BY DEF WireOk, Reads, Serving, Task
<1>2. f \in DownFrame /\ f.tag = "ResponseHead" /\ f.part = Part(t.head.req, t.call, 0)
  BY <1>1, DownTypes DEF ResponseHead
<1>3. ~Says(d, "Need") /\ t # Blank /\ t.relayed = 0
  BY <1>1, FreshTasks DEF WireOk, Serving
<1>4. /\ next.pc = "relay" /\ next.head = t.head /\ next.call = t.call
      /\ next.relayed = t.relayed /\ Serving(next) /\ next # NewTask
  BY <1>1, FreshTasks DEF Serving, Task
<1>5. Reads(next, <<>>) /\ <<>> \in Seq(UpFrame)
  BY <1>4 DEF Reads, UpChain, Serving
<1>6. WireOk(next, <<>>, Put(heard, d, f), open, idle) /\ Put(heard, d, f) \in Seq(DownFrame)
  <2>1. /\ next.pc # "ended" /\ f.tag \notin {"Fail", "ResponseEnd"} /\ t.pc # "ended"
        /\ f.tag = "Need" => next.pc = "repair" /\ <<>> = <<>>
    BY <1>2, <1>4
  <2> QED
    BY <1>2, <1>3, <1>5, <2>1, WireWrites
<1>7. ASSUME NEW r \in Requests, NEW whole \in BOOLEAN, NEW n \in Nat, NEW g,
             Carries(r, whole, g, n, t, <<>>, d, heard), t.call \in 1..n
      PROVE  Carries(r, whole, g, n, next, <<>>, Put(heard, d, f), heard)
  <2>1. t.head.req = r /\ CarriesUp(r, whole, next, <<>>)
    <3>1. CarriesUp(r, whole, t, <<>>)
      BY <1>7 DEF Carries
    <3> QED
      BY <1>1, <1>4, <3>1, ServesOwner
  <2>2. f.part.req = r /\ f.part.call = t.call /\ f.part.part = 0
    BY <1>2, <2>1 DEF Part
  <2>3. ASSUME heard
        PROVE  Fits(r, whole, g, n, d, f) /\ Joins(r, g, next, <<>>, d \o <<f>>)
    <3>1. Joins(r, g, t, <<>>, d)
      BY <1>7, <2>3 DEF Carries
    <3>2. g = <<>> /\ OnlyAcks(d)
      BY <3>1 DEF Joins
    <3>3. d # <<>> => DownNext(d[Len(d)], f)
      BY <1>2, <2>2, <3>2, AcksSay DEF DownNext
    <3>4. Joins(r, g, next, <<>>, d \o <<f>>)
      <4>1. d \o <<f>> # <<>> /\ (d \o <<f>>)[Len(d \o <<f>>)] = f
        BY <1>2, PutParts
      <4> QED
        BY <1>2, <1>3, <1>4, <2>1, <4>1 DEF Joins
    <3> QED
      BY <1>2, <1>7, <2>2, <3>2, <3>3, <3>4 DEF Fits, AnswerTo, DownFirst
  <2>4. heard => Fits(r, whole, g, n, d, f) /\ Joins(r, g, next, <<>>, d \o <<f>>)
    BY <2>3
  <2>5. f \in DownFrame /\ CarriesUp(r, whole, next, <<>>)
    BY <1>2, <2>1
  <2>6. <<>> \in Seq(UpFrame) /\ Carries(r, whole, g, n, t, <<>>, d, heard)
    BY <1>5, <1>7
  <2> QED
    BY <2>4, <2>5, <2>6, CarriesWrites
<1> QED
  BY <1>6, <1>7

\* What the agent of a turn has got when nothing of the answer is on the way.
LEMMA LastGot ==
  ASSUME NEW r, NEW g \in Seq(Parts), g # <<>>, Numbered(r, g), NEW n \in Nat, NEW i \in Nat,
         g[Len(g)] = Part(r, n, i)
  PROVE  g[1].call = n /\ Len(g) = i + 1
<1>1. Len(g) \in 1..Len(g) /\ Len(g) \in Nat
  OBVIOUS
<1>2. g[Len(g)] = Part(r, g[1].call, Len(g) - 1)
  BY <1>1 DEF Numbered
<1>3. n = g[1].call /\ i = Len(g) - 1
  BY <1>2 DEF Part
<1> QED
  BY <1>1, <1>3

\* RemoteRelays.
LEMMA RelayStep ==
  ASSUME NEW t \in Task, NEW d \in Seq(DownFrame),
         NEW open, NEW idle, NEW heard, heard => open,
         WireOk(t, <<>>, d, open, idle), t.pc = "relay", t.relayed < NChunks,
         NEW f, f = ResponseBody(t.head.req, t.call, t.relayed + 1),
         NEW next \in Task, next.pc = "relay", next.greeted = t.greeted,
         next.head = t.head, next.literal = t.literal, next.repairs = t.repairs,
         next.call = t.call, next.relayed = t.relayed + 1
  PROVE  /\ WireOk(next, <<>>, Put(heard, d, f), open, idle)
         /\ Put(heard, d, f) \in Seq(DownFrame)
         /\ \A r \in Requests, whole \in BOOLEAN, n \in Nat : \A g \in Seq(Parts) :
              Carries(r, whole, g, n, t, <<>>, d, heard) /\ t.call \in 1..n /\ Numbered(r, g)
                => Carries(r, whole, g, n, next, <<>>, Put(heard, d, f), heard)
<1>1. /\ Serving(t) /\ t.head.req \in Requests /\ t.call \in Nat /\ t.relayed \in Nat
      /\ NChunks \in Nat
  <2>1. Serving(t)
    BY DEF WireOk, Reads
  <2>2. t.head.req # None
    BY <2>1 DEF Serving
  <2>3. t.head.req \in Requests
    BY <2>2 DEF Task
  <2> QED
    BY <2>1, <2>3, BoundsAssumption DEF Task
<1>2. f \in DownFrame /\ f.tag = "ResponseBody" /\ f.part = Part(t.head.req, t.call, t.relayed + 1)
  <2>1. t.relayed + 1 \in Nat
    BY <1>1
  <2> QED
    BY <1>1, <2>1, DownTypes DEF ResponseBody
<1>3. ~Says(d, "Need") /\ t # Blank /\ t.pc # "ended"
  BY <1>1, FreshTasks DEF WireOk, Serving
<1>4. Serving(next) /\ next # NewTask
  BY <1>1, FreshTasks DEF Serving
<1>5. Reads(next, <<>>) /\ <<>> \in Seq(UpFrame)
  BY <1>4 DEF Reads, UpChain, Serving
<1>6. WireOk(next, <<>>, Put(heard, d, f), open, idle) /\ Put(heard, d, f) \in Seq(DownFrame)
  <2>1. /\ next.pc # "ended" /\ f.tag \notin {"Fail", "ResponseEnd"}
        /\ f.tag = "Need" => next.pc = "repair" /\ <<>> = <<>>
    BY <1>2
  <2> QED
    BY <1>2, <1>3, <1>5, <2>1, WireWrites
<1>7. ASSUME NEW r \in Requests, NEW whole \in BOOLEAN, NEW n \in Nat, NEW g \in Seq(Parts),
             Carries(r, whole, g, n, t, <<>>, d, heard), t.call \in 1..n, Numbered(r, g)
      PROVE  Carries(r, whole, g, n, next, <<>>, Put(heard, d, f), heard)
  <2>1. t.head.req = r /\ CarriesUp(r, whole, next, <<>>)
    <3>1. CarriesUp(r, whole, t, <<>>)
      BY <1>7 DEF Carries
    <3> QED
      BY <1>1, <3>1, ServesOwner
  <2>2. f.part = Part(r, t.call, t.relayed + 1) /\ f.part.req = r /\ f.part.call = t.call
    BY <1>2, <2>1 DEF Part
  <2>3. ASSUME heard
        PROVE  Fits(r, whole, g, n, d, f) /\ Joins(r, g, next, <<>>, d \o <<f>>)
    <3>1. Joins(r, g, t, <<>>, d)
      BY <1>7, <2>3 DEF Carries
    <3>2. d = <<>> => DownFirst(r, g, f)
      <4>1. ASSUME d = <<>>  PROVE g # <<>> /\ g[Len(g)] = Part(r, t.call, t.relayed)
        BY <3>1, <4>1 DEF Joins
      <4>2. ASSUME d = <<>>  PROVE g # <<>> /\ g[1].call = t.call /\ Len(g) = t.relayed + 1
        BY <1>1, <1>7, <4>1, <4>2, LastGot
      <4>3. ASSUME d = <<>>  PROVE Len(g) <= NChunks
        BY <1>1, <4>2, <4>3
      <4> QED
        BY <1>2, <2>2, <4>2, <4>3 DEF DownFirst
    <3>3. d # <<>> => DownNext(d[Len(d)], f)
      <4>1. ASSUME d # <<>>
            PROVE  /\ d[Len(d)].tag \in {"ResponseHead", "ResponseBody"}
                   /\ d[Len(d)].part = Part(r, t.call, t.relayed)
        BY <3>1, <4>1 DEF Joins
      <4>2. /\ Part(r, t.call, t.relayed).req = r /\ Part(r, t.call, t.relayed).call = t.call
            /\ Part(r, t.call, t.relayed).part = t.relayed
        BY DEF Part
      <4> QED
        BY <1>2, <2>2, <4>1, <4>2 DEF DownNext
    <3>4. Joins(r, g, next, <<>>, d \o <<f>>)
      <4>1. d \o <<f>> # <<>> /\ (d \o <<f>>)[Len(d \o <<f>>)] = f
        BY <1>2, PutParts
      <4> QED
        BY <1>2, <1>4, <2>2, <4>1 DEF Joins
    <3> QED
      BY <1>2, <1>7, <2>2, <3>2, <3>3, <3>4 DEF Fits, AnswerTo
  <2>4. heard => Fits(r, whole, g, n, d, f) /\ Joins(r, g, next, <<>>, d \o <<f>>)
    BY <2>3
  <2>5. f \in DownFrame /\ CarriesUp(r, whole, next, <<>>)
    BY <1>2, <2>1
  <2>6. <<>> \in Seq(UpFrame) /\ Carries(r, whole, g, n, t, <<>>, d, heard)
    BY <1>5, <1>7
  <2> QED
    BY <2>4, <2>5, <2>6, CarriesWrites, ZenonT(60)
<1> QED
  BY <1>6, <1>7

\* RemoteFinishes: the bloom and the end of the answer.
LEMMA FinishStep ==
  ASSUME NEW t \in Task, NEW d \in Seq(DownFrame),
         NEW open, NEW idle, NEW heard, heard => open,
         WireOk(t, <<>>, d, open, idle), t.pc = "relay", t.relayed = NChunks,
         NEW f \in DownFrame, f.tag = "Bloom",
         NEW e, e = IF heard THEN d \o <<f, ResponseEnd>> ELSE d
  PROVE  /\ WireOk(Blank, <<>>, e, open, idle) /\ e \in Seq(DownFrame)
         /\ \A r \in Requests, whole \in BOOLEAN, n \in Nat : \A g \in Seq(Parts) :
              Carries(r, whole, g, n, t, <<>>, d, heard) /\ t.call \in 1..n /\ Numbered(r, g)
                => Carries(r, whole, g, n, Blank, <<>>, e, heard)
<1> DEFINE a == d \o <<f>>
           b == a \o <<ResponseEnd>>
<1>1. /\ Serving(t) /\ t.head.req \in Requests /\ t.call \in Nat /\ t.relayed \in Nat
      /\ NChunks \in Nat
  BY DEF WireOk, Reads, Serving, Task
<1>2. /\ ResponseEnd \in DownFrame /\ ResponseEnd.tag = "ResponseEnd"
      /\ f.tag # "ResponseEnd" /\ f.tag # "Fail" /\ f.tag # "Need"
  BY DownTypes DEF ResponseEnd
<1>3. b = d \o <<f, ResponseEnd>> /\ a \in Seq(DownFrame) /\ b \in Seq(DownFrame)
  BY <1>2
<1>4. e = IF heard THEN b ELSE d
  BY <1>3
<1>5. ~idle /\ ~Says(d, "Need") /\ ~Says(d, "Fail") /\ ~Says(d, "ResponseEnd") /\ (~open => d = <<>>)
  BY <1>1, FreshTasks DEF WireOk, Serving
<1>6. \A tag : Says(b, tag) <=> Says(d, tag) \/ f.tag = tag \/ tag = "ResponseEnd"
  <2>1. \A tag : Says(a, tag) <=> Says(d, tag) \/ f.tag = tag
    BY SaysPut
  <2>2. \A tag : Says(b, tag) <=> Says(a, tag) \/ ResponseEnd.tag = tag
    BY <1>2, <1>3, SaysPut
  <2> QED
    BY <1>2, <2>1, <2>2
<1>7. a # <<>> /\ a[Len(a)] = f
  BY PutParts
<1> HIDE DEF a, b
<1>8. Reads(Blank, <<>>) /\ <<>> \in Seq(UpFrame)
  BY FreshTasks DEF Reads, UpChain
<1>9. WireOk(Blank, <<>>, e, open, idle) /\ e \in Seq(DownFrame)
  <2>1. ~Says(e, "Need") /\ ~Says(e, "Fail") /\ (~open => e = <<>>)
    BY <1>2, <1>4, <1>5, <1>6
  <2> QED
    BY <1>3, <1>4, <1>5, <1>8, <2>1 DEF WireOk
<1>10. ASSUME NEW r \in Requests, NEW whole \in BOOLEAN, NEW n \in Nat, NEW g \in Seq(Parts),
              Carries(r, whole, g, n, t, <<>>, d, heard), t.call \in 1..n, Numbered(r, g)
       PROVE  Carries(r, whole, g, n, Blank, <<>>, e, heard)
  <2>1. CarriesUp(r, whole, Blank, <<>>)
    BY FreshTasks, CarriesUpNothing
  <2>2. CarriesDown(r, whole, g, n, d)
    BY <1>10 DEF Carries
  <2>3. ASSUME heard
        PROVE  CarriesDown(r, whole, g, n, b)
    <3>1. Joins(r, g, t, <<>>, d)
      BY <1>10, <2>3 DEF Carries
    <3>2. d = <<>> => DownFirst(r, g, f)
      <4>1. ASSUME d = <<>>  PROVE g # <<>> /\ g[Len(g)] = Part(r, t.call, t.relayed)
        BY <3>1, <4>1 DEF Joins
      <4>2. ASSUME d = <<>>  PROVE Len(g) = NChunks + 1
        BY <1>1, <1>10, <4>1, <4>2, LastGot
      <4> QED
        BY <4>2 DEF DownFirst
    <3>3. d # <<>> => DownNext(d[Len(d)], f)
      <4>1. ASSUME d # <<>>
            PROVE  /\ d[Len(d)].tag \in {"ResponseHead", "ResponseBody"}
                   /\ d[Len(d)].part = Part(r, t.call, t.relayed)
        BY <3>1, <4>1 DEF Joins
      <4>2. Part(r, t.call, t.relayed).part = NChunks
        BY DEF Part
      <4> QED
        BY <4>1, <4>2 DEF DownNext
    <3>4. AnswerTo(r, whole, n, f) /\ AnswerTo(r, whole, n, ResponseEnd)
      BY <1>2 DEF AnswerTo
    <3>5. CarriesDown(r, whole, g, n, a)
      BY <2>2, <3>2, <3>3, <3>4, CarriesDownPut DEF a
    <3>6. DownNext(a[Len(a)], ResponseEnd)
      BY <1>2, <1>7 DEF DownNext
    <3> QED
      BY <1>2, <1>3, <1>7, <3>4, <3>5, <3>6, CarriesDownPut DEF b
  <2>4. CarriesDown(r, whole, g, n, e)
    BY <1>4, <2>2, <2>3
  <2>5. Joins(r, g, Blank, <<>>, e)
    BY FreshTasks DEF Joins
  <2> QED
    BY <2>1, <2>4, <2>5 DEF Carries
<1> QED
  BY <1>9, <1>10

\* RemoteForwards.
LEMMA ForwardStep ==
  ASSUME NEW t \in Task, NEW u \in Seq(UpFrame), NEW d \in Seq(DownFrame),
         NEW open, NEW idle, NEW heard,
         WireOk(t, u, d, open, idle), u # <<>>, u[1].tag = "EndOfBody",
         SplitRead(t) \/ WholeRead(t),
         NEW next \in Task, next.pc = "upstream", next.greeted = t.greeted,
         next.head = t.head, next.literal = <<>>, next.repairs = 0, next.relayed = 0
  PROVE  /\ WireOk(next, Tail(u), d, open, idle)
         /\ \A r \in Requests, whole \in BOOLEAN, n, m \in Nat : \A g :
              Carries(r, whole, g, n, t, u, d, heard) /\ n <= m
                => Carries(r, whole, g, m, next, Tail(u), d, heard)
<1>1. /\ Tail(u) = <<>> /\ t.pc \in {"read", "repair"} /\ t # Blank /\ t.pc # "ended"
      /\ t.greeted /\ t.head.req # None
  <2>1. Tail(u) = <<>>
    BY ReadsEnd DEF WireOk
  <2>2. t.pc \in {"read", "repair"} /\ t.greeted /\ t.head.req # None
    BY DEF SplitRead, WholeRead
  <2> QED
    BY <2>1, <2>2, FreshTasks
<1>2. Serving(next) /\ next # NewTask /\ next # Blank
  BY <1>1, FreshTasks, BoundsAssumption DEF Serving
<1>3. Reads(next, <<>>)
  <2>1. UpChain(<<>>)
    BY DEF UpChain
  <2>2. next.pc = "upstream" /\ next.greeted
    BY <1>1
  <2> QED
    BY <1>2, <2>1, <2>2 DEF Reads
<1>4. ~Says(d, "Need") /\ ~Says(d, "Fail") /\ ~Says(d, "ResponseEnd") /\ ~idle /\ (~open => d = <<>>)
  BY <1>1 DEF WireOk
<1>5. WireOk(next, Tail(u), d, open, idle)
  BY <1>1, <1>3, <1>4 DEF WireOk
<1>6. ASSUME NEW r \in Requests, NEW whole \in BOOLEAN, NEW n \in Nat, NEW m \in Nat, NEW g,
             Carries(r, whole, g, n, t, u, d, heard), n <= m
      PROVE  Carries(r, whole, g, m, next, Tail(u), d, heard)
  <2>1. CarriesUp(r, whole, t, u) /\ CarriesDown(r, whole, g, n, d)
    BY <1>6 DEF Carries
  <2>2. CarriesUp(r, whole, next, <<>>)
    BY <1>1, <2>1, CarriesUpNothing DEF CarriesUp
  <2>3. CarriesDown(r, whole, g, m, d)
    BY <1>6, <2>1, CarriesMonotone
  <2>4. heard => g = <<>> /\ OnlyAcks(d)
    BY <1>1, <1>6 DEF Carries, Joins
  <2>5. heard => Joins(r, g, next, <<>>, d)
    BY <1>2, <2>4 DEF Joins
  <2> QED
    BY <1>1, <2>2, <2>3, <2>5 DEF Carries
<1> QED
  BY <1>5, <1>6

-----------------------------------------------------------------------------
(* A step of the remote end keeps the invariant when it does so on the      *)
(* connection it works on.                                                  *)

\* What an agent has got stays in order when more calls are made.
LEMMA GotMonotone ==
  ASSUME NEW r, NEW v, NEW g, NEW n \in Nat, NEW m \in Nat, n <= m, GotOk(r, v, g, n)
  PROVE  GotOk(r, v, g, m)
<1>1. \A x \in 1..n : x \in 1..m
  OBVIOUS
<1> QED
  BY <1>1 DEF GotOk

\* The parts an agent has got are those of one answer, in order.
LEMMA GotNumbered ==
  ASSUME NEW r, NEW v, NEW g, NEW n, GotOk(r, v, g, n)
  PROVE  Numbered(r, g)
BY DEF GotOk, Numbered

\* Connections that a step leaves alone stay as they were.
LEMMA CarryRest ==
  ASSUME NEW r, NEW whole, NEW g, NEW n \in Nat, NEW m \in Nat, n <= m, NEW t, NEW u,
         NEW d, NEW heard, Carries(r, whole, g, n, t, u, d, heard)
  PROVE  Carries(r, whole, g, m, t, u, d, heard)
<1>1. CarriesDown(r, whole, g, m, d)
  BY CarriesMonotone DEF Carries
<1> QED
  BY <1>1 DEF Carries

\* A step of the remote end keeps the invariant when it does so on its connection.
LEMMA RemoteLift ==
  ASSUME TypeOK, LinkInv, NEW c \in Conns, UNCHANGED <<local, cut, paired>>,
         NEW tn, NEW un, NEW dn,
         task' = [task EXCEPT ![c] = tn], up' = [up EXCEPT ![c] = un],
         down' = [down EXCEPT ![c] = dn],
         calls' \in [Requests -> Nat], \A q \in Requests : calls[q] <= calls'[q],
         WireOk(tn, un, dn, c \in dialed, c \in ToSet(pool)),
         \A r \in Requests : turn[r].conn = c =>
           Carries(r, turn[r].whole, got[r], calls'[r], tn, un, dn, Heard(c)),
         tn.pc \in {"upstream", "relay"} => tn.call \in 1..calls'[tn.head.req],
         tn.pc # "ended" /\ tn.greeted => paired,
         ~paired => rstore' = {} /\ \A r \in Requests : calls'[r] = 0
  PROVE  LinkInv'
<1> USE DEF LinkInv
<1>1. /\ turn' = turn /\ got' = got /\ pool' = pool /\ dialed' = dialed /\ used' = used
      /\ cut' = cut /\ paired' = paired
  BY DEF local
<1>2. /\ task \in [Conns -> Task] /\ DOMAIN up = Conns /\ DOMAIN down = Conns
      /\ calls \in [Requests -> Nat]
  BY DEF TypeOK, TypeWire, TypeRemote
<1>3. /\ task'[c] = tn /\ up'[c] = un /\ down'[c] = dn
      /\ \A x \in Conns \ {c} : task'[x] = task[x] /\ up'[x] = up[x] /\ down'[x] = down[x]
  BY <1>2
<1>4. WireInv'
  <2> SUFFICES ASSUME NEW x \in Conns
               PROVE  WireOk(task'[x], up'[x], down'[x], x \in dialed, x \in ToSet(pool))
    BY <1>1 DEF WireInv
  <2>1. CASE x = c
    BY <1>3, <2>1
  <2>2. CASE x # c
    BY <1>3, <2>2 DEF WireInv
  <2> QED
    BY <2>1, <2>2
<1>5. CarryInv'
  <2> SUFFICES ASSUME NEW r \in Requests, turn[r].conn # None
               PROVE  Carries(r, turn[r].whole, got[r], calls'[r], task'[turn[r].conn],
                              up'[turn[r].conn], down'[turn[r].conn], Heard(turn[r].conn))
    BY <1>1 DEF CarryInv, Heard
  <2>1. CASE turn[r].conn = c
    BY <1>3, <2>1
  <2>2. CASE turn[r].conn # c
    <3>1. turn[r].conn \in Conns
      BY DEF TypeOK, TypeLocal, Turn
    <3>2. Carries(r, turn[r].whole, got[r], calls[r], task[turn[r].conn],
                  up[turn[r].conn], down[turn[r].conn], Heard(turn[r].conn))
      BY DEF CarryInv
    <3>3. calls[r] \in Nat /\ calls'[r] \in Nat /\ calls[r] <= calls'[r]
      BY <1>2
    <3>4. Carries(r, turn[r].whole, got[r], calls'[r], task[turn[r].conn],
                  up[turn[r].conn], down[turn[r].conn], Heard(turn[r].conn))
      BY <3>2, <3>3, CarryRest
    <3> QED
      BY <1>3, <2>2, <3>1, <3>4
  <2> QED
    BY <2>1, <2>2
<1>6. GotInv'
  <2> SUFFICES ASSUME NEW r \in Requests  PROVE GotOk(r, turn[r], got[r], calls'[r])
    BY <1>1 DEF GotInv
  <2>1. calls[r] \in Nat /\ calls'[r] \in Nat /\ calls[r] <= calls'[r]
    BY <1>2
  <2>2. GotOk(r, turn[r], got[r], calls[r])
    BY DEF GotInv
  <2> QED
    BY <2>1, <2>2, GotMonotone
<1>7. UsedInv'
  BY <1>1 DEF UsedInv
<1>8. CallInv'
  <2> SUFFICES ASSUME NEW x \in Conns, task'[x].pc \in {"upstream", "relay"}
               PROVE  task'[x].call \in 1..calls'[task'[x].head.req]
    BY DEF CallInv
  <2>1. CASE x = c
    BY <1>3, <2>1
  <2>2. CASE x # c
    <3>1. task'[x] = task[x]
      BY <1>3, <2>2
    <3>2. task[x].call \in 1..calls[task[x].head.req]
      BY <3>1 DEF CallInv
    <3>3. task[x].head.req \in Requests
      <4>1. Serving(task[x])
        BY <3>1 DEF WireInv, WireOk, Reads
      <4>2. task[x].head.req # None
        BY <4>1 DEF Serving
      <4> QED
        BY <1>2, <4>2 DEF Task
    <3>4. /\ calls[task[x].head.req] \in Nat /\ calls'[task[x].head.req] \in Nat
          /\ calls[task[x].head.req] <= calls'[task[x].head.req]
      BY <1>2, <3>3
    <3> QED
      BY <3>1, <3>2, <3>4
  <2> QED
    BY <2>1, <2>2
<1>9. GreetInv'
  <2> SUFFICES ASSUME NEW x \in Conns, task'[x].pc # "ended", task'[x].greeted  PROVE paired
    BY <1>1 DEF GreetInv, Alive
  <2>1. CASE x = c
    BY <1>3, <2>1
  <2>2. CASE x # c
    BY <1>3, <2>2 DEF GreetInv, Alive
  <2> QED
    BY <2>1, <2>2
<1>10. StrangerRefused'
  BY <1>1 DEF StrangerRefused
<1> QED
  BY <1>4, <1>5, <1>6, <1>7, <1>8, <1>9, <1>10

\* What the invariant says of one connection.
LEMMA ConnFacts ==
  ASSUME TypeOK, LinkInv, NEW c \in Conns
  PROVE  /\ task[c] \in Task /\ up[c] \in Seq(UpFrame) /\ down[c] \in Seq(DownFrame)
         /\ WireOk(task[c], up[c], down[c], c \in dialed, c \in ToSet(pool))
         /\ Heard(c) \in BOOLEAN /\ (Heard(c) => c \in dialed)
         /\ (c \in dialed) \in BOOLEAN /\ (c \in ToSet(pool)) \in BOOLEAN
         /\ task = [task EXCEPT ![c] = task[c]] /\ up = [up EXCEPT ![c] = up[c]]
         /\ down = [down EXCEPT ![c] = down[c]]
<1>1. /\ task \in [Conns -> Task] /\ up \in [Conns -> Seq(UpFrame)]
      /\ down \in [Conns -> Seq(DownFrame)]
  BY DEF TypeOK, TypeWire, TypeRemote
<1>2. WireOk(task[c], up[c], down[c], c \in dialed, c \in ToSet(pool))
  BY DEF LinkInv, WireInv
<1>3. Heard(c) \in BOOLEAN /\ (Heard(c) => c \in dialed)
  BY DEF Heard
<1> QED
  BY <1>1, <1>2, <1>3

\* And of the turn that has it.
LEMMA OwnerFacts ==
  ASSUME TypeOK, LinkInv, NEW c \in Conns, NEW r \in Requests
  PROVE  /\ turn[r].whole \in BOOLEAN /\ calls[r] \in Nat /\ got[r] \in Seq(Parts)
         /\ GotOk(r, turn[r], got[r], calls[r]) /\ Numbered(r, got[r])
         /\ turn[r].conn = c =>
              Carries(r, turn[r].whole, got[r], calls[r], task[c], up[c], down[c], Heard(c))
<1>1. turn[r].whole \in BOOLEAN /\ calls[r] \in Nat /\ got[r] \in Seq(Parts)
  BY DEF TypeOK, TypeLocal, TypeRemote, Turn
<1>2. GotOk(r, turn[r], got[r], calls[r])
  BY DEF LinkInv, GotInv
<1>3. turn[r].conn = c =>
        Carries(r, turn[r].whole, got[r], calls[r], task[c], up[c], down[c], Heard(c))
  BY NoneAssumption DEF LinkInv, CarryInv
<1> QED
  BY <1>1, <1>2, <1>3, GotNumbered

\* A task that closes without a word.
LEMMA ClosesSilent ==
  ASSUME TypeOK, LinkInv, NEW c \in Conns, UNCHANGED <<local, cut, rstore, calls, paired>>,
         NEW unread, Close(c, <<>>, unread)
  PROVE  LinkInv'
<1>1. /\ down[c] \in Seq(DownFrame) /\ down[c] \o <<>> = down[c]
      /\ WireOk(task[c], up[c], down[c], c \in dialed, c \in ToSet(pool))
  BY ConnFacts
<1>2. PICK dn \in {<<>>, down[c]} : down' = [down EXCEPT ![c] = dn]
  BY <1>1 DEF Close
<1>3. task' = [task EXCEPT ![c] = Ended] /\ up' = [up EXCEPT ![c] = <<>>]
  BY DEF Close
<1>4. WireOk(Ended, <<>>, dn, c \in dialed, c \in ToSet(pool))
  <2>1. c \notin dialed \/ c \in ToSet(pool) => dn \in {<<>>, down[c]}
    BY <1>2
  <2> QED
    BY <1>1, <2>1, WireCloses
<1>5. ASSUME NEW r \in Requests, turn[r].conn = c
      PROVE  Carries(r, turn[r].whole, got[r], calls[r], Ended, <<>>, dn, Heard(c))
  <2>1. /\ turn[r].whole \in BOOLEAN /\ calls[r] \in Nat
        /\ CarriesDown(r, turn[r].whole, got[r], calls[r], down[c])
    BY <1>5, OwnerFacts DEF Carries
  <2>2. CarriesDown(r, turn[r].whole, got[r], calls[r], dn)
    BY <2>1, CarriesNothing
  <2> QED
    BY <2>1, <2>2, CarriesCloses
<1>6. calls' = calls /\ calls \in [Requests -> Nat] /\ \A q \in Requests : calls[q] <= calls[q]
  BY DEF TypeOK, TypeRemote
<1>7. ~paired => rstore' = {} /\ \A r \in Requests : calls[r] = 0
  BY DEF LinkInv, StrangerRefused
<1>8. Ended.pc = "ended"
  BY FreshTasks
<1>9. PICK tn, un : tn = Ended /\ un = <<>>
  OBVIOUS
<1>10. /\ task' = [task EXCEPT ![c] = tn] /\ up' = [up EXCEPT ![c] = un]
       /\ WireOk(tn, un, dn, c \in dialed, c \in ToSet(pool))
       /\ calls' \in [Requests -> Nat] /\ \A q \in Requests : calls[q] <= calls'[q]
       /\ ~paired => rstore' = {} /\ \A r \in Requests : calls'[r] = 0
       /\ UNCHANGED <<local, cut, paired>>
  BY <1>3, <1>4, <1>6, <1>7, <1>9
<1>11. \A r \in Requests : turn[r].conn = c =>
         Carries(r, turn[r].whole, got[r], calls'[r], tn, un, dn, Heard(c))
  BY <1>5, <1>6, <1>9
<1>12. tn.pc = "ended"
  BY <1>8, <1>9
<1> QED
  BY <1>2, <1>10, <1>11, <1>12, RemoteLift

\* A task that closes with a last word.
LEMMA ClosesTelling ==
  ASSUME TypeOK, LinkInv, NEW c \in Conns, UNCHANGED <<local, cut, rstore, calls, paired>>,
         NEW f \in DownFrame, NEW unread, Close(c, <<f>>, unread), c \notin ToSet(pool),
         \A r \in Requests : turn[r].conn = c /\ Heard(c) =>
           Fits(r, turn[r].whole, got[r], calls[r], down[c], f)
  PROVE  LinkInv'
<1>1. /\ down[c] \in Seq(DownFrame)
      /\ WireOk(task[c], up[c], down[c], c \in dialed, c \in ToSet(pool))
      /\ Heard(c) => c \in dialed
  BY ConnFacts
<1>2. PICK dn \in {<<>>, Put(Heard(c), down[c], f)} : down' = [down EXCEPT ![c] = dn]
  BY DEF Close, Put
<1>3. task' = [task EXCEPT ![c] = Ended] /\ up' = [up EXCEPT ![c] = <<>>]
  BY DEF Close
<1>4. WireOk(Ended, <<>>, dn, c \in dialed, c \in ToSet(pool))
  <2>1. c \notin dialed \/ c \in ToSet(pool) => dn \in {<<>>, down[c]}
    BY <1>1, <1>2 DEF Put
  <2> QED
    BY <1>1, <2>1, WireCloses
<1>5. ASSUME NEW r \in Requests, turn[r].conn = c
      PROVE  Carries(r, turn[r].whole, got[r], calls[r], Ended, <<>>, dn, Heard(c))
  <2>1. /\ turn[r].whole \in BOOLEAN /\ calls[r] \in Nat
        /\ Carries(r, turn[r].whole, got[r], calls[r], task[c], up[c], down[c], Heard(c))
    BY <1>5, OwnerFacts
  <2>2. Heard(c) => Fits(r, turn[r].whole, got[r], calls[r], down[c], f)
    BY <1>5
  <2>3. CarriesDown(r, turn[r].whole, got[r], calls[r], down[c])
    BY <2>1 DEF Carries
  <2>4. Heard(c) => CarriesDown(r, turn[r].whole, got[r], calls[r], down[c] \o <<f>>)
    BY <1>1, <2>1, <2>2, <2>3, CarriesDownPut DEF Fits
  <2>5. CarriesDown(r, turn[r].whole, got[r], calls[r], dn)
    BY <1>2, <2>3, <2>4, CarriesNothing DEF Put
  <2> QED
    BY <2>1, <2>5, CarriesCloses
<1>6. calls' = calls /\ calls \in [Requests -> Nat] /\ \A q \in Requests : calls[q] <= calls[q]
  BY DEF TypeOK, TypeRemote
<1>7. ~paired => rstore' = {} /\ \A r \in Requests : calls[r] = 0
  BY DEF LinkInv, StrangerRefused
<1>8. Ended.pc = "ended"
  BY FreshTasks
<1> QED
  BY <1>2, <1>3, <1>4, <1>5, <1>6, <1>7, <1>8, RemoteLift

\* A task that writes frames, or finds nobody there.
LEMMA WriteLift ==
  ASSUME TypeOK, LinkInv, NEW c \in Conns, UNCHANGED <<local, cut, rstore, calls, paired>>,
         NEW frames, NEW next, NEW rest, Write(c, frames, next, rest),
         NEW e, e = IF Heard(c) THEN down[c] \o frames ELSE down[c],
         WireOk(next, rest, e, c \in dialed, c \in ToSet(pool)),
         \A r \in Requests : turn[r].conn = c =>
           Carries(r, turn[r].whole, got[r], calls[r], next, rest, e, Heard(c)),
         next.pc \in {"upstream", "relay"} => next.call \in 1..calls[next.head.req],
         next.pc # "ended" /\ next.greeted => paired
  PROVE  LinkInv'
<1>1. CASE Close(c, <<>>, FALSE)
  BY <1>1, ClosesSilent
<1>2. CASE /\ task' = [task EXCEPT ![c] = next]
           /\ up' = [up EXCEPT ![c] = rest]
           /\ down' = IF Heard(c) THEN [down EXCEPT ![c] = @ \o frames] ELSE down
  <2>1. down' = [down EXCEPT ![c] = e]
    <3>1. down = [down EXCEPT ![c] = down[c]]
      BY ConnFacts
    <3> QED
      BY <1>2, <3>1
  <2>2. calls' = calls /\ calls \in [Requests -> Nat] /\ \A q \in Requests : calls[q] <= calls[q]
    BY DEF TypeOK, TypeRemote
  <2>3. ~paired => rstore' = {} /\ \A r \in Requests : calls[r] = 0
    BY DEF LinkInv, StrangerRefused
  <2> QED
    BY <1>2, <2>1, <2>2, <2>3, RemoteLift
<1> QED
  BY <1>1, <1>2 DEF Write

\* A task that reads a frame and writes none.
LEMMA ReadLift ==
  ASSUME TypeOK, LinkInv, NEW c \in Conns, UNCHANGED <<local, down, cut, calls, paired>>,
         up[c] # <<>>, task[c].pc \in {"read", "repair"}, NEW next,
         task' = [task EXCEPT ![c] = next], Pop(c), Reads(next, Tail(up[c])),
         next.pc \in {"read", "repair"}, next # NewTask, next.greeted => paired,
         next = task[c] \/ task[c] # Blank \/ up[c][1].tag # "Reset",
         \/ next.head = task[c].head
         \/ /\ up[c][1].tag = "RequestHead"
            /\ next.head.req = up[c][1].req /\ next.head.split = up[c][1].split,
         ~paired => rstore' = {}
  PROVE  LinkInv'
<1> DEFINE open == c \in dialed
           idle == c \in ToSet(pool)
           heard == Heard(c)
<1>1. /\ task[c] \in Task /\ up[c] \in Seq(UpFrame) /\ down[c] \in Seq(DownFrame)
      /\ WireOk(task[c], up[c], down[c], open, idle)
      /\ heard \in BOOLEAN /\ open \in BOOLEAN /\ idle \in BOOLEAN
  BY ConnFacts
<1>2. ASSUME NEW r \in Requests, turn[r].conn = c
      PROVE  /\ turn[r].whole \in BOOLEAN /\ calls[r] \in Nat
             /\ Carries(r, turn[r].whole, got[r], calls[r], task[c], up[c], down[c], heard)
  BY <1>2, OwnerFacts
<1> HIDE DEF open, idle, heard
<1>3. WireOk(next, Tail(up[c]), down[c], open, idle)
  <2>1. task[c].pc # "ended" /\ next.pc # "ended"
    OBVIOUS
  <2> QED
    BY <1>1, <2>1, WireReads
<1>4. ASSUME NEW r \in Requests, turn[r].conn = c
      PROVE  Carries(r, turn[r].whole, got[r], calls[r], next, Tail(up[c]), down[c], heard)
  <2>1. next.pc # "relay"
    OBVIOUS
  <2>2. /\ turn[r].whole \in BOOLEAN /\ calls[r] \in Nat
        /\ Carries(r, turn[r].whole, got[r], calls[r], task[c], up[c], down[c], heard)
    BY <1>2, <1>4
  <2>3. \/ next.head = task[c].head
        \/ next.head.req = None /\ ~next.head.split
        \/ /\ up[c][1].tag = "RequestHead"
           /\ next.head.req = up[c][1].req /\ next.head.split = up[c][1].split
    OBVIOUS
  <2> QED
    BY <1>1, <2>1, <2>2, <2>3, CarriesReads
<1>5. up' = [up EXCEPT ![c] = Tail(up[c])] /\ down' = [down EXCEPT ![c] = down[c]]
  BY ConnFacts DEF Pop
<1>6. calls' = calls /\ calls \in [Requests -> Nat] /\ \A q \in Requests : calls[q] <= calls[q]
  BY DEF TypeOK, TypeRemote
<1>7. ~paired => rstore' = {} /\ \A r \in Requests : calls[r] = 0
  BY DEF LinkInv, StrangerRefused
<1>8. /\ WireOk(next, Tail(up[c]), down[c], c \in dialed, c \in ToSet(pool))
      /\ \A r \in Requests : turn[r].conn = c =>
           Carries(r, turn[r].whole, got[r], calls'[r], next, Tail(up[c]), down[c], Heard(c))
  BY <1>3, <1>4, <1>6 DEF open, idle, heard
<1>9. next.pc \notin {"upstream", "relay"}
  OBVIOUS
<1> QED
  BY <1>5, <1>6, <1>7, <1>8, <1>9, RemoteLift

\* The frame that is read.
LEMMA FrameFirst ==
  ASSUME TypeOK, NEW c \in Conns, up[c] # <<>>
  PROVE  Frame(c) = up[c][1] /\ Frame(c) \in UpFrame
<1>1. up[c] \in Seq(UpFrame)
  BY DEF TypeOK, TypeWire
<1> QED
  BY <1>1, TailParts DEF Frame

\* The greeting: an ack, and for a stranger the end of the connection.
LEMMA HelloKeeps ==
  ASSUME TypeOK, LinkInv, NEW c \in Conns, RemoteHello(c)
  PROVE  LinkInv'
<1> DEFINE ack == HelloAck(paired, rstore = {})
           open == c \in dialed
           idle == c \in ToSet(pool)
           heard == Heard(c)
           e == Put(heard, down[c], ack)
<1>0. task[c].pc = "read" /\ up[c] # <<>> /\ up[c][1].tag = "Hello"
  BY FrameFirst DEF RemoteHello, Listening, Received, Frame
<1>1. UNCHANGED <<local, cut, rstore, calls, paired>>
  BY DEF RemoteHello, admin
<1>2. /\ task[c] \in Task /\ up[c] \in Seq(UpFrame) /\ down[c] \in Seq(DownFrame)
      /\ WireOk(task[c], up[c], down[c], open, idle)
      /\ heard \in BOOLEAN /\ open \in BOOLEAN /\ idle \in BOOLEAN /\ (heard => open)
  BY ConnFacts
<1>3. ack \in DownFrame /\ ack.tag = "HelloAck"
  <2>1. paired \in BOOLEAN /\ (rstore = {}) \in BOOLEAN
    BY DEF TypeOK, TypeAdmin
  <2>2. ack \in DownFrame
    BY <2>1, DownTypes
  <2> QED
    BY <2>2 DEF HelloAck
<1>4. CASE paired
  <2>1. Write(c, <<ack>>, [task[c] EXCEPT !.greeted = TRUE], Tail(up[c]))
    BY <1>4 DEF RemoteHello
  <2> HIDE DEF open, idle, heard, ack
  <2>2. /\ task[c] = NewTask /\ WireOk(Blank, Tail(up[c]), e, open, idle)
        /\ \A r \in Requests, whole \in BOOLEAN, n \in Nat : \A g :
             Carries(r, whole, g, n, task[c], up[c], down[c], heard)
               => Carries(r, whole, g, n, Blank, Tail(up[c]), e, heard)
    <3> DEFINE t == task[c]
               u == up[c]
               d == down[c]
    <3>1. /\ t \in Task /\ u \in Seq(UpFrame) /\ d \in Seq(DownFrame) /\ (heard => open)
          /\ WireOk(t, u, d, open, idle) /\ t.pc # "ended" /\ u # <<>> /\ u[1].tag = "Hello"
      BY <1>0, <1>2
    <3> HIDE DEF t, u, d
    <3>2. /\ t = NewTask /\ WireOk(Blank, Tail(u), Put(heard, d, ack), open, idle)
          /\ \A r \in Requests, whole \in BOOLEAN, n \in Nat : \A g :
               Carries(r, whole, g, n, t, u, d, heard)
                 => Carries(r, whole, g, n, Blank, Tail(u), Put(heard, d, ack), heard)
      BY <1>3, <3>1, GreetStep
    <3> QED
      BY <3>2 DEF t, u, d
  <2>3. Write(c, <<ack>>, Blank, Tail(up[c]))
    BY <2>1, <2>2 DEF Blank
  <2>4. e = IF Heard(c) THEN down[c] \o <<ack>> ELSE down[c]
    BY DEF Put, heard
  <2>5. ASSUME NEW r \in Requests, turn[r].conn = c
        PROVE  Carries(r, turn[r].whole, got[r], calls[r], Blank, Tail(up[c]), e, Heard(c))
    <3>1. /\ turn[r].whole \in BOOLEAN /\ calls[r] \in Nat
          /\ Carries(r, turn[r].whole, got[r], calls[r], task[c], up[c], down[c], heard)
      BY <2>5, OwnerFacts DEF heard
    <3>2. Carries(r, turn[r].whole, got[r], calls[r], Blank, Tail(up[c]), e, heard)
      BY <2>2, <3>1
    <3> QED
      BY <3>2 DEF heard
  <2>6. WireOk(Blank, Tail(up[c]), e, c \in dialed, c \in ToSet(pool))
    BY <2>2 DEF open, idle
  <2>7. Blank.pc \notin {"upstream", "relay"}
    BY FreshTasks
  <2> HIDE DEF e
  <2> QED
    BY <1>1, <1>4, <2>3, <2>4, <2>5, <2>6, <2>7, WriteLift
<1>5. CASE ~paired
  <2>1. Close(c, <<ack>>, Tail(up[c]) # <<>>)
    BY <1>5 DEF RemoteHello
  <2>2. task[c] = NewTask
    BY <1>0, <1>2, ReadsHello DEF WireOk
  <2>3. c \notin ToSet(pool)
    BY <1>2, <2>2, FreshTasks DEF WireOk
  <2> HIDE DEF ack
  <2>4. ASSUME NEW r \in Requests, turn[r].conn = c, Heard(c)
        PROVE  Fits(r, turn[r].whole, got[r], calls[r], down[c], ack)
    <3>1. Joins(r, got[r], NewTask, up[c], down[c])
      BY <2>2, <2>4, OwnerFacts, FreshTasks DEF Carries
    <3>2. got[r] = <<>> /\ down[c] = <<>>
      BY <1>0, <3>1, FreshTasks DEF Joins
    <3> QED
      BY <1>3, <3>2 DEF Fits, AnswerTo, DownFirst
  <2> QED
    BY <1>1, <1>3, <2>1, <2>3, <2>4, ClosesTelling
<1> QED
  BY <1>4, <1>5

\* The head of a request.
LEMMA HeadKeeps ==
  ASSUME TypeOK, LinkInv, NEW c \in Conns, RemoteHead(c)
  PROVE  LinkInv'
<1> DEFINE next == [task[c] EXCEPT !.head = [req |-> up[c][1].req, split |-> up[c][1].split]]
<1>0. task[c].pc = "read" /\ up[c] # <<>> /\ up[c][1].tag = "RequestHead" /\ Frame(c) = up[c][1]
  BY FrameFirst DEF RemoteHead, Listening, Received, Frame
<1>1. UNCHANGED <<local, cut, rstore, calls, paired>>
  BY DEF RemoteHead, admin
<1>2. /\ task[c] \in Task /\ up[c] \in Seq(UpFrame)
      /\ Reads(task[c], up[c])
  BY ConnFacts DEF WireOk
<1>3. /\ task[c] = Blank /\ Reads(next, Tail(up[c])) /\ next.pc = "read"
      /\ next # NewTask /\ next.greeted
  BY <1>0, <1>2, ReadsHead
<1>4. task' = [task EXCEPT ![c] = next] /\ Pop(c) /\ down' = down
  BY <1>0, <1>3, FreshTasks DEF RemoteHead
<1>5. next.head.req = up[c][1].req /\ next.head.split = up[c][1].split
  BY <1>2 DEF Task
<1>6. paired /\ up[c][1].tag # "Reset"
  BY <1>0, <1>3, FreshTasks DEF LinkInv, GreetInv, Alive
<1> HIDE DEF next
<1> QED
  BY <1>0, <1>1, <1>3, <1>4, <1>5, <1>6, ReadLift

\* Its program.
LEMMA ProgramKeeps ==
  ASSUME TypeOK, LinkInv, NEW c \in Conns, RemoteProgram(c)
  PROVE  LinkInv'
<1> DEFINE next == [task[c] EXCEPT !.instrs = up[c][1].req]
<1>0. task[c].pc = "read" /\ up[c] # <<>> /\ up[c][1].tag = "Program" /\ Frame(c) = up[c][1]
  BY FrameFirst DEF RemoteProgram, Listening, Received, Frame
<1>1. UNCHANGED <<local, down, cut, rstore, calls, paired>> /\ Pop(c)
  BY DEF RemoteProgram, admin
<1>2. /\ task[c] \in Task /\ up[c] \in Seq(UpFrame)
      /\ Reads(task[c], up[c])
  BY ConnFacts DEF WireOk
<1>3. /\ HeadRead(task[c]) /\ Reads(next, Tail(up[c])) /\ next.pc = "read"
      /\ next.greeted /\ next.head = task[c].head
  BY <1>0, <1>2, ReadsProgram
<1>4. task' = [task EXCEPT ![c] = next]
  BY <1>0 DEF RemoteProgram
<1>5. paired /\ up[c][1].tag # "Reset" /\ next # NewTask
  BY <1>0, <1>3, FreshTasks DEF LinkInv, GreetInv, Alive, HeadRead
<1> HIDE DEF next
<1> QED
  BY <1>0, <1>1, <1>3, <1>4, <1>5, ReadLift

\* Its body.
LEMMA BodyKeeps ==
  ASSUME TypeOK, LinkInv, NEW c \in Conns, RemoteBody(c)
  PROVE  LinkInv'
<1> DEFINE next == [task[c] EXCEPT !.literal = Append(@, up[c][1].req)]
<1>0. task[c].pc = "read" /\ up[c] # <<>> /\ up[c][1].tag = "RequestBody" /\ Frame(c) = up[c][1]
  BY FrameFirst DEF RemoteBody, Listening, Received, Frame
<1>1. UNCHANGED <<local, down, cut, rstore, calls, paired>> /\ Pop(c)
  BY DEF RemoteBody, admin
<1>2. /\ task[c] \in Task /\ up[c] \in Seq(UpFrame)
      /\ Reads(task[c], up[c])
  BY ConnFacts DEF WireOk
<1>3. /\ HeadRead(task[c]) /\ Reads(next, Tail(up[c])) /\ next.pc = "read"
      /\ next.greeted /\ next.head = task[c].head
  BY <1>0, <1>2, ReadsBody
<1>4. task' = [task EXCEPT ![c] = next]
  BY <1>0 DEF RemoteBody
<1>5. paired /\ up[c][1].tag # "Reset" /\ next # NewTask
  BY <1>0, <1>3, FreshTasks DEF LinkInv, GreetInv, Alive, HeadRead
<1> HIDE DEF next
<1> QED
  BY <1>0, <1>1, <1>3, <1>4, <1>5, ReadLift

\* A block, or a Reset from the console.
LEMMA BlockKeeps ==
  ASSUME TypeOK, LinkInv, NEW c \in Conns, RemoteBlock(c) \/ RemoteReset(c)
  PROVE  LinkInv'
<1>0. /\ task[c].pc \in {"read", "repair"} /\ up[c] # <<>>
      /\ up[c][1].tag \in {"Block", "Reset"}
  BY FrameFirst DEF RemoteBlock, RemoteReset, Listening, Received, Frame
<1>1. UNCHANGED <<local, down, cut, task, calls, paired>> /\ Pop(c)
  BY DEF RemoteBlock, RemoteReset, admin
<1>2. /\ task[c] \in Task /\ up[c] \in Seq(UpFrame)
      /\ Reads(task[c], up[c]) /\ task = [task EXCEPT ![c] = task[c]]
  BY ConnFacts DEF WireOk
<1>3. Reads(task[c], Tail(up[c])) /\ task[c].greeted
  BY <1>0, <1>2, ReadsOn
<1>4. paired /\ task[c] # NewTask
  BY <1>0, <1>3, FreshTasks DEF LinkInv, GreetInv, Alive
<1> QED
  BY <1>0, <1>1, <1>2, <1>3, <1>4, ReadLift

\* A complete upload is what its head declares, and only the program of a split
\* one refers to blocks.
LEMMA CompleteUpload ==
  ASSUME TypeOK, LinkInv, NEW c \in Conns, BodyComplete(c)
  PROVE  /\ up[c] # <<>> /\ up[c][1].tag = "EndOfBody" /\ Tail(up[c]) = <<>>
         /\ SplitRead(task[c]) \/ WholeRead(task[c])
         /\ Intact(c) /\ (Wanted(c) # {} => SplitRead(task[c]))
         /\ task[c].greeted /\ task[c].pc \in {"read", "repair"}
         /\ task[c].head.req \in Requests
<1>1. /\ task[c] \in Task /\ up[c] \in Seq(UpFrame) /\ Reads(task[c], up[c])
  BY ConnFacts DEF WireOk
<1>2. up[c] # <<>> /\ up[c][1].tag = "EndOfBody" /\ task[c].pc \in {"read", "repair"}
  BY FrameFirst DEF BodyComplete, Received, Frame
<1>3. Tail(up[c]) = <<>> /\ (SplitRead(task[c]) \/ WholeRead(task[c]))
  BY <1>1, <1>2, ReadsEnd
<1>4. Intact(c) /\ task[c].greeted /\ task[c].head.req # None
  BY <1>3 DEF Intact, SplitRead, WholeRead
<1>5. WholeRead(task[c]) => Wanted(c) = {}
  BY DEF WholeRead, Wanted, Refs
<1>6. task[c].head.req \in Requests
  BY <1>1, <1>4 DEF Task
<1> QED
  BY <1>2, <1>3, <1>4, <1>5, <1>6

\* Blocks are absent: a Need goes out.
LEMMA AsksAgainKeeps ==
  ASSUME TypeOK, LinkInv, NEW c \in Conns, RemoteAsksAgain(c)
  PROVE  LinkInv'
<1> DEFINE open == c \in dialed
           idle == c \in ToSet(pool)
           heard == Heard(c)
           next == [task[c] EXCEPT !.pc = "repair", !.repairs = @ + 1]
<1>1. UNCHANGED <<local, cut, rstore, calls, paired>> /\ BodyComplete(c)
  BY DEF RemoteAsksAgain, admin
<1>2. PICK ds \in Wanted(c) : Write(c, <<Need(ds)>>, next, Tail(up[c]))
  BY DEF RemoteAsksAgain
<1> DEFINE f == Need(ds)
           e == Put(heard, down[c], f)
<1>3. /\ up[c] # <<>> /\ up[c][1].tag = "EndOfBody" /\ SplitRead(task[c])
      /\ task[c].greeted /\ task[c].pc # "ended"
  BY <1>1, <1>2, CompleteUpload
<1>4. f \in DownFrame /\ f.tag = "Need"
  BY <1>2, WantedType, DownTypes DEF Need
<1>5. /\ task[c] \in Task /\ up[c] \in Seq(UpFrame) /\ down[c] \in Seq(DownFrame)
      /\ WireOk(task[c], up[c], down[c], open, idle)
      /\ heard \in BOOLEAN /\ open \in BOOLEAN /\ idle \in BOOLEAN /\ (heard => open)
  BY ConnFacts
<1>6. /\ next \in Task /\ next.pc = "repair" /\ next.greeted = task[c].greeted
      /\ next.head = task[c].head /\ next.instrs = task[c].instrs
      /\ next.literal = task[c].literal
  <2>1. task[c].repairs + 1 \in Nat
    BY <1>5 DEF Task
  <2> QED
    BY <1>5, <2>1 DEF Task
<1>7. paired
  BY <1>3 DEF LinkInv, GreetInv, Alive
<1> HIDE DEF open, idle, heard, f, next
<1>8. /\ WireOk(next, Tail(up[c]), e, open, idle)
      /\ \A r \in Requests, whole \in BOOLEAN, n \in Nat : \A g :
           Carries(r, whole, g, n, task[c], up[c], down[c], heard)
             => Carries(r, whole, g, n, next, Tail(up[c]), e, heard)
  <2> DEFINE t == task[c]
             u == up[c]
             d == down[c]
  <2>1. /\ t \in Task /\ u \in Seq(UpFrame) /\ d \in Seq(DownFrame) /\ heard \in BOOLEAN
        /\ WireOk(t, u, d, open, idle) /\ open \in BOOLEAN /\ idle \in BOOLEAN
        /\ (heard => open) /\ u # <<>> /\ u[1].tag = "EndOfBody" /\ SplitRead(t)
    BY <1>3, <1>5
  <2>2. /\ next \in Task /\ next.pc = "repair" /\ next.greeted = t.greeted
        /\ next.head = t.head /\ next.instrs = t.instrs /\ next.literal = t.literal
    BY <1>6
  <2> HIDE DEF t, u, d
  <2>3. /\ WireOk(next, Tail(u), Put(heard, d, f), open, idle)
        /\ \A r \in Requests, whole \in BOOLEAN, n \in Nat : \A g :
             Carries(r, whole, g, n, t, u, d, heard)
               => Carries(r, whole, g, n, next, Tail(u), Put(heard, d, f), heard)
    BY <1>4, <2>1, <2>2, AskStep
  <2> QED
    BY <2>3 DEF t, u, d
<1>9. e = IF Heard(c) THEN down[c] \o <<f>> ELSE down[c]
  BY DEF Put, heard
<1>10. ASSUME NEW r \in Requests, turn[r].conn = c
       PROVE  Carries(r, turn[r].whole, got[r], calls[r], next, Tail(up[c]), e, Heard(c))
  <2>1. /\ turn[r].whole \in BOOLEAN /\ calls[r] \in Nat
        /\ Carries(r, turn[r].whole, got[r], calls[r], task[c], up[c], down[c], heard)
    BY <1>10, OwnerFacts DEF heard
  <2>2. Carries(r, turn[r].whole, got[r], calls[r], next, Tail(up[c]), e, heard)
    BY <1>8, <2>1
  <2> QED
    BY <2>2 DEF heard
<1>11. WireOk(next, Tail(up[c]), e, c \in dialed, c \in ToSet(pool))
  BY <1>8 DEF open, idle
<1>12. Write(c, <<f>>, next, Tail(up[c])) /\ next.pc \notin {"upstream", "relay"}
  BY <1>2, <1>6 DEF f
<1> HIDE DEF e
<1> QED
  BY <1>1, <1>7, <1>9, <1>10, <1>11, <1>12, WriteLift

\* A body is complete only after a head, so that a Fail goes out.
LEMMA FailSaid ==
  ASSUME TypeOK, LinkInv, NEW c \in Conns, RemoteFails(c)
  PROVE  Close(c, <<Fail(Wanted(c) # {})>>, FALSE)
<1>1. BodyComplete(c) /\ Close(c, LastWords(c), FALSE)
  BY DEF RemoteFails
<1>2. task[c].head.req # None
  BY <1>1, CompleteUpload, NoneAssumption
<1>3. LastWords(c) = <<Fail(Wanted(c) # {})>>
  BY <1>2 DEF LastWords
<1> QED
  BY <1>1, <1>3

\* Blocks are still absent: a Fail goes out and the connection closes.
LEMMA FailsKeeps ==
  ASSUME TypeOK, LinkInv, NEW c \in Conns, RemoteFails(c)
  PROVE  LinkInv'
<1> DEFINE f == Fail(Wanted(c) # {})
<1>1. UNCHANGED <<local, cut, rstore, calls, paired>> /\ BodyComplete(c) /\ Close(c, <<f>>, FALSE)
  BY FailSaid DEF RemoteFails, admin
<1>2. /\ up[c] # <<>> /\ SplitRead(task[c]) /\ task[c].pc \in {"read", "repair"}
      /\ task[c].pc # "ended" /\ task[c] # Blank
  <2>1. Wanted(c) # {}
    BY <1>1, CompleteUpload DEF RemoteFails
  <2>2. /\ up[c] # <<>> /\ SplitRead(task[c]) /\ task[c].pc \in {"read", "repair"}
    BY <1>1, <2>1, CompleteUpload
  <2> QED
    BY <2>2, FreshTasks DEF SplitRead
<1>3. f \in DownFrame /\ f.tag = "Fail"
  <2>1. (Wanted(c) # {}) \in BOOLEAN
    OBVIOUS
  <2> QED
    BY <2>1, DownTypes DEF Fail
<1>4. c \notin ToSet(pool) /\ down[c] \in Seq(DownFrame)
  BY <1>2, ConnFacts DEF WireOk
<1> HIDE DEF f
<1>5. ASSUME NEW r \in Requests, turn[r].conn = c, Heard(c)
      PROVE  Fits(r, turn[r].whole, got[r], calls[r], down[c], f)
  <2>1. /\ Joins(r, got[r], task[c], up[c], down[c])
        /\ CarriesUp(r, turn[r].whole, task[c], up[c])
    BY <1>2, <1>5, OwnerFacts DEF Carries
  <2>2. got[r] = <<>> /\ OnlyAcks(down[c])
    BY <1>2, <2>1 DEF Joins
  <2>3. ~turn[r].whole
    BY <1>2, <2>1 DEF CarriesUp, SplitRead
  <2>4. down[c] # <<>> => DownNext(down[c][Len(down[c])], f)
    BY <1>3, <1>4, <2>2, AcksSay DEF DownNext
  <2> QED
    BY <1>3, <2>2, <2>3, <2>4 DEF Fits, AnswerTo, DownFirst
<1> QED
  BY <1>1, <1>3, <1>4, <1>5, ClosesTelling

\* The upstream API gets the request.
LEMMA ForwardsKeeps ==
  ASSUME TypeOK, LinkInv, NEW c \in Conns, RemoteForwards(c)
  PROVE  LinkInv'
<1> DEFINE open == c \in dialed
           idle == c \in ToSet(pool)
           heard == Heard(c)
           p == task[c].head.req
           next == [task[c] EXCEPT !.pc = "upstream", !.call = calls[p] + 1, !.relayed = 0,
                      !.repairs = 0, !.literal = IF task[c].head.split THEN @ ELSE <<>>]
<1>1. UNCHANGED <<local, down, cut, rstore, paired>> /\ BodyComplete(c) /\ Pop(c)
  BY DEF RemoteForwards, admin
<1>2. calls' = [calls EXCEPT ![p] = @ + 1] /\ task' = [task EXCEPT ![c] = next]
  BY DEF RemoteForwards
<1>3. /\ up[c] # <<>> /\ up[c][1].tag = "EndOfBody"
      /\ SplitRead(task[c]) \/ WholeRead(task[c])
      /\ task[c].greeted /\ p \in Requests /\ task[c].pc # "ended"
  BY <1>1, CompleteUpload
<1>4. /\ task[c] \in Task /\ up[c] \in Seq(UpFrame) /\ down[c] \in Seq(DownFrame)
      /\ WireOk(task[c], up[c], down[c], open, idle)
      /\ heard \in BOOLEAN /\ open \in BOOLEAN /\ idle \in BOOLEAN
      /\ down = [down EXCEPT ![c] = down[c]]
  BY ConnFacts
<1>5. calls \in [Requests -> Nat] /\ calls[p] + 1 \in Nat /\ calls[p] \in Nat
  BY <1>3 DEF TypeOK, TypeRemote
<1>6. /\ next \in Task /\ next.pc = "upstream" /\ next.greeted = task[c].greeted
      /\ next.head = task[c].head /\ next.literal = <<>>
      /\ next.repairs = 0 /\ next.relayed = 0 /\ next.call = calls[p] + 1
  <2>1. /\ next.pc = "upstream" /\ next.greeted = task[c].greeted
        /\ next.head = task[c].head /\ next.repairs = 0 /\ next.relayed = 0
        /\ next.call = calls[p] + 1
        /\ next.literal = IF task[c].head.split THEN task[c].literal ELSE <<>>
    BY <1>4 DEF Task
  <2>2. next.literal = <<>>
    <3>1. SplitRead(task[c]) => task[c].literal = <<>>
      BY DEF SplitRead
    <3>2. WholeRead(task[c]) => ~task[c].head.split
      BY DEF WholeRead
    <3> QED
      BY <1>3, <2>1, <3>1, <3>2
  <2>3. next \in Task
    <3>1. (IF task[c].head.split THEN task[c].literal ELSE <<>>) \in Seq(Requests)
      BY <1>4 DEF Task
    <3>2. calls[p] + 1 \in Nat /\ 0 \in Nat
      BY <1>5
    <3> HIDE DEF p
    <3> QED
      BY <1>4, <3>1, <3>2 DEF Task
  <2> QED
    BY <2>1, <2>2, <2>3
<1>7. paired
  BY <1>3 DEF LinkInv, GreetInv, Alive
<1> HIDE DEF open, idle, heard, next
<1>8. /\ WireOk(next, Tail(up[c]), down[c], open, idle)
      /\ \A r \in Requests, whole \in BOOLEAN, n, m \in Nat : \A g :
           Carries(r, whole, g, n, task[c], up[c], down[c], heard) /\ n <= m
             => Carries(r, whole, g, m, next, Tail(up[c]), down[c], heard)
  <2> DEFINE t == task[c]
             u == up[c]
             d == down[c]
  <2>1. /\ t \in Task /\ u \in Seq(UpFrame) /\ d \in Seq(DownFrame)
        /\ WireOk(t, u, d, open, idle) /\ open \in BOOLEAN /\ idle \in BOOLEAN
        /\ u # <<>> /\ u[1].tag = "EndOfBody" /\ (SplitRead(t) \/ WholeRead(t))
    BY <1>3, <1>4
  <2>2. /\ next \in Task /\ next.pc = "upstream" /\ next.greeted = t.greeted
        /\ next.head = t.head /\ next.literal = <<>> /\ next.repairs = 0 /\ next.relayed = 0
    BY <1>6
  <2> HIDE DEF t, u, d
  <2>3. /\ WireOk(next, Tail(u), d, open, idle)
        /\ \A r \in Requests, whole \in BOOLEAN, n, m \in Nat : \A g :
             Carries(r, whole, g, n, t, u, d, heard) /\ n <= m
               => Carries(r, whole, g, m, next, Tail(u), d, heard)
    BY <2>1, <2>2, ForwardStep, SMTT(60)
  <2> QED
    BY <2>3 DEF t, u, d
<1>9. /\ calls' \in [Requests -> Nat] /\ \A q \in Requests : calls[q] <= calls'[q]
      /\ calls'[p] = calls[p] + 1
  BY <1>2, <1>3, <1>5
<1>10. ASSUME NEW r \in Requests, turn[r].conn = c
       PROVE  Carries(r, turn[r].whole, got[r], calls'[r], next, Tail(up[c]), down[c], Heard(c))
  <2>1. /\ turn[r].whole \in BOOLEAN /\ calls[r] \in Nat
        /\ Carries(r, turn[r].whole, got[r], calls[r], task[c], up[c], down[c], heard)
    BY <1>10, OwnerFacts DEF heard
  <2>2. calls'[r] \in Nat /\ calls[r] <= calls'[r]
    BY <1>9
  <2>3. Carries(r, turn[r].whole, got[r], calls'[r], next, Tail(up[c]), down[c], heard)
    BY <1>8, <2>1, <2>2
  <2> QED
    BY <2>3 DEF heard
<1>11. WireOk(next, Tail(up[c]), down[c], c \in dialed, c \in ToSet(pool))
  BY <1>8 DEF open, idle
<1>12. next.call \in 1..calls'[next.head.req]
  <2>1. next.head.req = p /\ next.call = calls[p] + 1
    BY <1>6
  <2> QED
    BY <1>5, <1>9, <2>1
<1>13. up' = [up EXCEPT ![c] = Tail(up[c])] /\ down' = [down EXCEPT ![c] = down[c]]
  BY <1>1, <1>4 DEF Pop
<1> HIDE DEF p
<1> QED
  BY <1>1, <1>2, <1>7, <1>9, <1>10, <1>11, <1>12, <1>13, RemoteLift

\* The task of an answer.
LEMMA Answering ==
  ASSUME TypeOK, LinkInv, NEW c \in Conns, task[c].pc \in {"upstream", "relay"}
  PROVE  /\ Serving(task[c]) /\ up[c] = <<>> /\ task[c].head.req \in Requests
         /\ task[c].call \in Nat /\ task[c].relayed \in Nat /\ paired
         /\ task[c].call \in 1..calls[task[c].head.req]
         /\ \A r \in Requests : turn[r].conn = c => task[c].head.req = r
<1>1. task[c] \in Task /\ Reads(task[c], up[c])
  BY ConnFacts DEF WireOk
<1>2. Serving(task[c]) /\ up[c] = <<>>
  BY <1>1 DEF Reads
<1>3. task[c].head.req \in Requests /\ task[c].greeted
  BY <1>1, <1>2 DEF Serving, Task
<1>4. task[c].call \in 1..calls[task[c].head.req] /\ paired
  BY <1>3 DEF LinkInv, CallInv, GreetInv, Alive
<1>5. ASSUME NEW r \in Requests, turn[r].conn = c  PROVE task[c].head.req = r
  <2>1. CarriesUp(r, turn[r].whole, task[c], up[c]) /\ turn[r].whole \in BOOLEAN
    BY <1>5, OwnerFacts DEF Carries
  <2> QED
    BY <1>1, <1>2, <2>1, ServesOwner
<1>6. task[c].call \in Nat /\ task[c].relayed \in Nat
  BY <1>1 DEF Task
<1> QED
  BY <1>2, <1>3, <1>4, <1>5, <1>6

\* The head of the answer goes out.
LEMMA RespondsKeeps ==
  ASSUME TypeOK, LinkInv, NEW c \in Conns, RemoteResponds(c)
  PROVE  LinkInv'
<1> DEFINE open == c \in dialed
           idle == c \in ToSet(pool)
           heard == Heard(c)
           t == task[c]
           d == down[c]
           next == [t EXCEPT !.pc = "relay"]
           f == ResponseHead(t.head.req, t.call)
           e == Put(heard, d, f)
<1>1. /\ UNCHANGED <<local, cut, rstore, calls, paired>> /\ t.pc = "upstream"
      /\ Write(c, <<f>>, next, up[c])
  BY DEF RemoteResponds, admin
<1>2. /\ Serving(t) /\ up[c] = <<>> /\ t.head.req \in Requests
      /\ t.call \in Nat /\ t.relayed \in Nat /\ paired
      /\ t.call \in 1..calls[t.head.req]
      /\ \A r \in Requests : turn[r].conn = c => t.head.req = r
  BY <1>1, Answering
<1>3. /\ t \in Task /\ d \in Seq(DownFrame) /\ WireOk(t, <<>>, d, open, idle)
      /\ heard => open
  BY <1>2, ConnFacts
<1>4. /\ next \in Task /\ next.pc = "relay" /\ next.greeted = t.greeted
      /\ next.head = t.head /\ next.literal = t.literal /\ next.repairs = t.repairs
      /\ next.call = t.call /\ next.relayed = t.relayed
  BY <1>3 DEF Task
<1>5. f = ResponseHead(t.head.req, t.call)
  OBVIOUS
<1> HIDE DEF open, idle, heard, t, d, next, f
<1>6. /\ WireOk(next, <<>>, Put(heard, d, f), open, idle)
      /\ \A r \in Requests, whole \in BOOLEAN, n \in Nat : \A g :
           Carries(r, whole, g, n, t, <<>>, d, heard) /\ t.call \in 1..n
             => Carries(r, whole, g, n, next, <<>>, Put(heard, d, f), heard)
  BY <1>1, <1>3, <1>4, <1>5, RespondStep
<1>7. ASSUME NEW r \in Requests, turn[r].conn = c
      PROVE  Carries(r, turn[r].whole, got[r], calls[r], next, <<>>, e, heard)
  <2>1. /\ turn[r].whole \in BOOLEAN /\ calls[r] \in Nat /\ got[r] \in Seq(Parts)
        /\ Numbered(r, got[r])
        /\ Carries(r, turn[r].whole, got[r], calls[r], t, <<>>, d, heard)
    BY <1>2, <1>7, OwnerFacts DEF t, d, heard
  <2>2. t.call \in 1..calls[r]
    BY <1>2, <1>7
  <2> QED
    BY <1>6, <2>1, <2>2
<1>8. e = IF Heard(c) THEN down[c] \o <<f>> ELSE down[c]
  BY DEF Put, heard, d
<1>9. /\ WireOk(next, <<>>, e, c \in dialed, c \in ToSet(pool))
      /\ \A r \in Requests : turn[r].conn = c =>
           Carries(r, turn[r].whole, got[r], calls[r], next, <<>>, e, Heard(c))
  BY <1>6, <1>7 DEF open, idle, heard
<1>10. next.call \in 1..calls[next.head.req]
  BY <1>2, <1>4
<1>11. Write(c, <<f>>, next, <<>>)
  BY <1>1, <1>2
<1> HIDE DEF e
<1> QED
  BY <1>1, <1>2, <1>8, <1>9, <1>10, <1>11, WriteLift

\* A part of its body goes out.
LEMMA RelaysKeeps ==
  ASSUME TypeOK, LinkInv, NEW c \in Conns, RemoteRelays(c)
  PROVE  LinkInv'
<1> DEFINE open == c \in dialed
           idle == c \in ToSet(pool)
           heard == Heard(c)
           t == task[c]
           d == down[c]
           next == [t EXCEPT !.relayed = @ + 1]
           f == ResponseBody(t.head.req, t.call, t.relayed + 1)
           e == Put(heard, d, f)
<1>1. /\ UNCHANGED <<local, cut, rstore, calls, paired>> /\ t.pc = "relay"
      /\ Write(c, <<f>>, next, up[c]) /\ t.relayed < NChunks
  BY DEF RemoteRelays, admin
<1>2. /\ Serving(t) /\ up[c] = <<>> /\ t.head.req \in Requests
      /\ t.call \in Nat /\ t.relayed \in Nat /\ paired
      /\ t.call \in 1..calls[t.head.req]
      /\ \A r \in Requests : turn[r].conn = c => t.head.req = r
  BY <1>1, Answering
<1>3. /\ t \in Task /\ d \in Seq(DownFrame) /\ WireOk(t, <<>>, d, open, idle)
      /\ heard => open
  BY <1>2, ConnFacts
<1>4. /\ next \in Task /\ next.pc = "relay" /\ next.greeted = t.greeted
      /\ next.head = t.head /\ next.literal = t.literal /\ next.repairs = t.repairs
      /\ next.call = t.call /\ next.relayed = t.relayed + 1
  <2>1. t.relayed + 1 \in Nat
    BY <1>2
  <2> QED
    BY <1>1, <1>3, <2>1 DEF Task
<1>5. f = ResponseBody(t.head.req, t.call, t.relayed + 1)
  OBVIOUS
<1> HIDE DEF open, idle, heard, t, d, next, f
<1>6. /\ WireOk(next, <<>>, Put(heard, d, f), open, idle)
      /\ \A r \in Requests, whole \in BOOLEAN, n \in Nat : \A g \in Seq(Parts) :
           Carries(r, whole, g, n, t, <<>>, d, heard) /\ t.call \in 1..n /\ Numbered(r, g)
             => Carries(r, whole, g, n, next, <<>>, Put(heard, d, f), heard)
  BY <1>1, <1>3, <1>4, <1>5, RelayStep
<1>7. ASSUME NEW r \in Requests, turn[r].conn = c
      PROVE  Carries(r, turn[r].whole, got[r], calls[r], next, <<>>, e, heard)
  <2>1. /\ turn[r].whole \in BOOLEAN /\ calls[r] \in Nat /\ got[r] \in Seq(Parts)
        /\ Numbered(r, got[r])
        /\ Carries(r, turn[r].whole, got[r], calls[r], t, <<>>, d, heard)
    BY <1>2, <1>7, OwnerFacts DEF t, d, heard
  <2>2. t.call \in 1..calls[r]
    BY <1>2, <1>7
  <2> QED
    BY <1>6, <2>1, <2>2
<1>8. e = IF Heard(c) THEN down[c] \o <<f>> ELSE down[c]
  BY DEF Put, heard, d
<1>9. /\ WireOk(next, <<>>, e, c \in dialed, c \in ToSet(pool))
      /\ \A r \in Requests : turn[r].conn = c =>
           Carries(r, turn[r].whole, got[r], calls[r], next, <<>>, e, Heard(c))
  BY <1>6, <1>7 DEF open, idle, heard
<1>10. next.call \in 1..calls[next.head.req]
  BY <1>2, <1>4
<1>11. Write(c, <<f>>, next, <<>>)
  BY <1>1, <1>2
<1> HIDE DEF e
<1> QED
  BY <1>1, <1>2, <1>8, <1>9, <1>10, <1>11, WriteLift

\* The filter and the end of the answer go out, and the task starts over.
LEMMA FinishesKeeps ==
  ASSUME TypeOK, LinkInv, NEW c \in Conns, RemoteFinishes(c)
  PROVE  LinkInv'
<1> DEFINE open == c \in dialed
           idle == c \in ToSet(pool)
           heard == Heard(c)
           t == task[c]
           d == down[c]
           next == [t EXCEPT !.pc = "read", !.head = NoHead, !.instrs = None,
                             !.call = 0, !.relayed = 0]
<1>1. /\ UNCHANGED <<local, cut, rstore, calls, paired>> /\ t.pc = "relay"
      /\ t.relayed = NChunks
  BY DEF RemoteFinishes, admin
<1>2. PICK extra \in SUBSET Collide :
        Write(c, <<Bloom(rstore \cup extra), ResponseEnd>>, next, up[c])
  BY DEF RemoteFinishes
<1> DEFINE f == Bloom(rstore \cup extra)
           e == IF heard THEN d \o <<f, ResponseEnd>> ELSE d
<1>3. /\ Serving(t) /\ up[c] = <<>> /\ t.head.req \in Requests
      /\ t.call \in Nat /\ t.relayed \in Nat /\ paired
      /\ t.call \in 1..calls[t.head.req]
      /\ \A r \in Requests : turn[r].conn = c => t.head.req = r
  BY <1>1, Answering
<1>4. /\ t \in Task /\ d \in Seq(DownFrame) /\ WireOk(t, <<>>, d, open, idle)
      /\ heard => open
  BY <1>3, ConnFacts
<1>5. next = Blank
  <2>1. t.greeted /\ t.literal = <<>> /\ t.repairs = 0
    BY <1>3 DEF Serving
  <2>2. /\ next.pc = "read" /\ next.head = NoHead /\ next.instrs = None /\ next.call = 0
        /\ next.relayed = 0 /\ next.greeted = t.greeted /\ next.literal = t.literal
        /\ next.repairs = t.repairs
    BY <1>4 DEF Task
  <2>3. next \in Task
    <3>1. NoHead \in [req : Requests \cup {None}, split : BOOLEAN]
      BY DEF NoHead
    <3> QED
      BY <1>4, <3>1 DEF Task
  <2> HIDE DEF next
  <2> QED
    BY <2>1, <2>2, <2>3, IsBlank
<1>6. f \in DownFrame /\ f.tag = "Bloom"
  <2>1. rstore \cup extra \in SUBSET Blocks
    BY EnvAssumption DEF TypeOK, TypeRemote
  <2> QED
    BY <2>1, DownTypes DEF Bloom
<1> HIDE DEF open, idle, heard, t, d, next, f
<1>7. e = IF heard THEN d \o <<f, ResponseEnd>> ELSE d
  OBVIOUS
<1> HIDE DEF e
<1>8. /\ WireOk(Blank, <<>>, e, open, idle)
      /\ \A r \in Requests, whole \in BOOLEAN, n \in Nat : \A g \in Seq(Parts) :
           Carries(r, whole, g, n, t, <<>>, d, heard) /\ t.call \in 1..n /\ Numbered(r, g)
             => Carries(r, whole, g, n, Blank, <<>>, e, heard)
  BY <1>1, <1>4, <1>6, <1>7, FinishStep
<1>9. ASSUME NEW r \in Requests, turn[r].conn = c
      PROVE  Carries(r, turn[r].whole, got[r], calls[r], Blank, <<>>, e, heard)
  <2>1. /\ turn[r].whole \in BOOLEAN /\ calls[r] \in Nat /\ got[r] \in Seq(Parts)
        /\ Numbered(r, got[r])
        /\ Carries(r, turn[r].whole, got[r], calls[r], t, <<>>, d, heard)
    BY <1>3, <1>9, OwnerFacts DEF t, d, heard
  <2>2. t.call \in 1..calls[r]
    BY <1>3, <1>9
  <2> QED
    BY <1>8, <2>1, <2>2
<1>10. e = IF Heard(c) THEN down[c] \o <<f, ResponseEnd>> ELSE down[c]
  BY <1>7 DEF heard, d
<1>11. /\ WireOk(Blank, <<>>, e, c \in dialed, c \in ToSet(pool))
       /\ \A r \in Requests : turn[r].conn = c =>
            Carries(r, turn[r].whole, got[r], calls[r], Blank, <<>>, e, Heard(c))
  BY <1>8, <1>9 DEF open, idle, heard
<1>12. Write(c, <<f, ResponseEnd>>, Blank, <<>>)
  BY <1>2, <1>3, <1>5 DEF f
<1>13. Blank.pc \notin {"upstream", "relay"}
  BY FreshTasks
<1> QED
  BY <1>1, <1>3, <1>10, <1>11, <1>12, <1>13, WriteLift

\* The end of file, and an upstream whose answer breaks off.
LEMMA EofKeeps ==
  ASSUME TypeOK, LinkInv, NEW c \in Conns, RemoteEof(c) \/ UpstreamBreaks(c)
  PROVE  LinkInv'
<1>1. UNCHANGED <<local, cut, rstore, calls, paired>> /\ Close(c, <<>>, FALSE)
  BY DEF RemoteEof, UpstreamBreaks, admin
<1> QED
  BY <1>1, ClosesSilent

\* Every step of the remote end.
LEMMA RemoteKeeps ==
  ASSUME TypeOK, LinkInv, NEW c \in Conns, Remote(c)
  PROVE  LinkInv'
BY HelloKeeps, HeadKeeps, ProgramKeeps, BodyKeeps, BlockKeeps, AsksAgainKeeps, FailsKeeps,
   ForwardsKeeps, RespondsKeeps, RelaysKeeps, FinishesKeeps, EofKeeps DEF Remote

-----------------------------------------------------------------------------
(* A step of the local end, or of the network, keeps the invariant when it   *)
(* does so on the connection it works on.                                    *)

\* Such a step in general.
LEMMA LocalLift ==
  ASSUME TypeOK, LinkInv, NEW c \in Conns, UNCHANGED <<rstore, calls, paired>>,
         NEW tn, NEW un, NEW dn, tn = task[c] \/ tn = NewTask,
         task' = [task EXCEPT ![c] = tn], up' = [up EXCEPT ![c] = un],
         down' = [down EXCEPT ![c] = dn],
         \A x \in Conns \ {c} : /\ x \in dialed' <=> x \in dialed
                                /\ x \in ToSet(pool') <=> x \in ToSet(pool)
                                /\ x \in cut' <=> x \in cut
                                /\ used'[x] = used[x],
         \A q \in Requests : turn'[q].conn \notin {None, c} =>
           turn'[q] = turn[q] /\ got'[q] = got[q],
         \A q \in Requests : GotOk(q, turn'[q], got'[q], calls[q]),
         WireOk(tn, un, dn, c \in dialed', c \in ToSet(pool')),
         \A q \in Requests : turn'[q].conn = c =>
           Carries(q, turn'[q].whole, got'[q], calls[q], tn, un, dn, c \in dialed' \ cut'),
         c \in dialed' <=> used'[c] # 0
  PROVE  LinkInv'
<1> USE DEF LinkInv
<1>1. calls' = calls /\ rstore' = rstore /\ paired' = paired
  OBVIOUS
<1>2. /\ task \in [Conns -> Task] /\ DOMAIN up = Conns /\ DOMAIN down = Conns
      /\ \A q \in Requests : turn[q].conn \in Conns \cup {None}
  BY DEF TypeOK, TypeLocal, TypeWire, TypeRemote, Turn
<1>3. /\ task'[c] = tn /\ up'[c] = un /\ down'[c] = dn
      /\ \A x \in Conns \ {c} : task'[x] = task[x] /\ up'[x] = up[x] /\ down'[x] = down[x]
  BY <1>2
<1>4. WireInv'
  <2> SUFFICES ASSUME NEW x \in Conns
               PROVE  WireOk(task'[x], up'[x], down'[x], x \in dialed', x \in ToSet(pool'))
    BY DEF WireInv
  <2>1. CASE x = c
    BY <1>3, <2>1
  <2>2. CASE x # c
    <3>1. WireOk(task[x], up[x], down[x], x \in dialed, x \in ToSet(pool))
      BY DEF WireInv
    <3>2. (x \in dialed') = (x \in dialed) /\ (x \in ToSet(pool')) = (x \in ToSet(pool))
      BY <2>2
    <3> QED
      BY <1>3, <2>2, <3>1, <3>2
  <2> QED
    BY <2>1, <2>2
<1>5. CarryInv'
  <2> SUFFICES ASSUME NEW q \in Requests, turn'[q].conn # None
               PROVE  Carries(q, turn'[q].whole, got'[q], calls[q], task'[turn'[q].conn],
                              up'[turn'[q].conn], down'[turn'[q].conn],
                              turn'[q].conn \in dialed' \ cut')
    BY <1>1 DEF CarryInv, Heard
  <2>1. CASE turn'[q].conn = c
    BY <1>3, <2>1
  <2>2. CASE turn'[q].conn # c
    <3> DEFINE x == turn[q].conn
    <3>1. turn'[q] = turn[q] /\ got'[q] = got[q]
      BY <2>2
    <3>2. x \in Conns \ {c}
      BY <1>2, <2>2, <3>1
    <3>3. Carries(q, turn[q].whole, got[q], calls[q], task[x], up[x], down[x], x \in dialed \ cut)
      BY <3>1 DEF CarryInv, Heard
    <3>4. (x \in dialed' \ cut') = (x \in dialed \ cut)
      BY <3>2
    <3>5. task'[x] = task[x] /\ up'[x] = up[x] /\ down'[x] = down[x]
      BY <1>3, <3>2
    <3> HIDE DEF x
    <3>6. Carries(q, turn[q].whole, got[q], calls[q], task'[x], up'[x], down'[x],
                  x \in dialed' \ cut')
      BY <3>3, <3>4, <3>5
    <3> QED
      BY <3>1, <3>6 DEF x
  <2> QED
    BY <2>1, <2>2
<1>6. GotInv'
  BY <1>1 DEF GotInv
<1>7. UsedInv'
  <2> SUFFICES ASSUME NEW x \in Conns  PROVE x \in dialed' <=> used'[x] # 0
    BY DEF UsedInv
  <2>1. x \in dialed <=> used[x] # 0
    BY DEF UsedInv
  <2> QED
    BY <2>1
<1>8. CallInv' /\ GreetInv'
  <2>1. /\ NewTask.pc \notin {"upstream", "relay"} /\ ~NewTask.greeted
    BY FreshTasks
  <2>2. CallInv'
    BY <1>1, <1>3, <2>1 DEF CallInv
  <2>3. GreetInv'
    BY <1>1, <1>3, <2>1 DEF GreetInv, Alive
  <2> QED
    BY <2>2, <2>3
<1>9. StrangerRefused'
  BY <1>1 DEF StrangerRefused
<1> QED
  BY <1>4, <1>5, <1>6, <1>7, <1>8, <1>9

\* The step of one turn, on a connection no other turn has.
LEMMA TurnLift ==
  ASSUME TypeOK, LinkInv, NEW c \in Conns, NEW r \in Requests,
         UNCHANGED <<rstore, calls, paired>>,
         NEW tn, NEW un, NEW dn, NEW v, NEW g, tn = task[c] \/ tn = NewTask,
         task' = [task EXCEPT ![c] = tn], up' = [up EXCEPT ![c] = un],
         down' = [down EXCEPT ![c] = dn],
         turn' = [turn EXCEPT ![r] = v], got' = [got EXCEPT ![r] = g],
         v.conn \in {None, c}, \A q \in Requests \ {r} : turn[q].conn # c,
         \A x \in Conns \ {c} : /\ x \in dialed' <=> x \in dialed
                                /\ x \in ToSet(pool') <=> x \in ToSet(pool)
                                /\ x \in cut' <=> x \in cut
                                /\ used'[x] = used[x],
         GotOk(r, v, g, calls[r]),
         WireOk(tn, un, dn, c \in dialed', c \in ToSet(pool')),
         v.conn = c => Carries(r, v.whole, g, calls[r], tn, un, dn, c \in dialed' \ cut'),
         c \in dialed' <=> used'[c] # 0
  PROVE  LinkInv'
<1>1. turn \in [Requests -> Turn] /\ DOMAIN got = Requests
  BY DEF TypeOK, TypeLocal
<1>2. /\ turn'[r] = v /\ got'[r] = g
      /\ \A q \in Requests \ {r} : turn'[q] = turn[q] /\ got'[q] = got[q]
  BY <1>1
<1>3. \A q \in Requests : turn'[q].conn \notin {None, c} =>
        turn'[q] = turn[q] /\ got'[q] = got[q]
  BY <1>2
<1>4. ASSUME NEW q \in Requests  PROVE GotOk(q, turn'[q], got'[q], calls[q])
  <2>1. GotOk(q, turn[q], got[q], calls[q])
    BY DEF LinkInv, GotInv
  <2> QED
    BY <1>2, <2>1
<1>5. ASSUME NEW q \in Requests, turn'[q].conn = c
      PROVE  Carries(q, turn'[q].whole, got'[q], calls[q], tn, un, dn, c \in dialed' \ cut')
  BY <1>2, <1>5
<1> QED
  BY <1>3, <1>4, <1>5, LocalLift

\* The step of a turn that has no connection.
LEMMA QuietTurn ==
  ASSUME TypeOK, LinkInv, NEW r \in Requests, NEW v, turn' = [turn EXCEPT ![r] = v],
         v.conn = None,
         UNCHANGED <<got, pool, dialed, used, up, down, cut, task, rstore, calls, paired>>,
         GotOk(r, v, got[r], calls[r])
  PROVE  LinkInv'
<1> USE DEF LinkInv
<1>1. /\ turn'[r] = v /\ \A q \in Requests \ {r} : turn'[q] = turn[q]
  BY DEF TypeOK, TypeLocal
<1>2. WireInv' /\ UsedInv' /\ CallInv' /\ GreetInv' /\ StrangerRefused'
  BY DEF WireInv, UsedInv, CallInv, GreetInv, StrangerRefused, Alive
<1>3. GotInv'
  BY <1>1 DEF GotInv
<1>4. CarryInv'
  <2> SUFFICES ASSUME NEW q \in Requests, turn'[q].conn # None
               PROVE  Carries(q, turn'[q].whole, got[q], calls[q], task[turn'[q].conn],
                              up[turn'[q].conn], down[turn'[q].conn], Heard(turn'[q].conn))
    BY DEF CarryInv, Heard
  <2>1. turn'[q] = turn[q]
    BY <1>1
  <2> QED
    BY <2>1 DEF CarryInv
<1> QED
  BY <1>2, <1>3, <1>4

\* A step of nothing the invariant is about, besides an eviction.
LEMMA Untouched ==
  ASSUME LinkInv, rstore' \subseteq rstore,
         UNCHANGED <<turn, got, pool, dialed, used, up, down, cut, task, calls, paired>>
  PROVE  LinkInv'
<1>1. WireInv' /\ CarryInv' /\ GotInv' /\ UsedInv' /\ CallInv' /\ GreetInv'
  BY DEF LinkInv, WireInv, CarryInv, GotInv, UsedInv, CallInv, GreetInv, Alive, Heard
<1>2. StrangerRefused'
  BY DEF LinkInv, StrangerRefused
<1> QED
  BY <1>1, <1>2 DEF LinkInv

-----------------------------------------------------------------------------
(* The steps of the local end, on the wires of its connection. *)

\* Handing a part to an agent.
LEMMA AppendParts ==
  ASSUME NEW S, NEW s \in Seq(S), NEW x \in S
  PROVE  /\ Append(s, x) \in Seq(S) /\ Len(Append(s, x)) = Len(s) + 1 /\ Len(s) \in Nat
         /\ \A i \in 1..Len(s) : Append(s, x)[i] = s[i]
         /\ Append(s, x)[Len(s) + 1] = x /\ Append(s, x)[Len(Append(s, x))] = x
         /\ Append(s, x) # <<>> /\ (s = <<>> <=> Len(s) = 0)
OBVIOUS

\* It reads a frame.
LEMMA WireTakes ==
  ASSUME NEW t, NEW u, NEW d \in Seq(DownFrame), d # <<>>, NEW open, NEW idle,
         WireOk(t, u, d, open, idle)
  PROVE  WireOk(t, u, Tail(d), open, idle) /\ Tail(d) \in Seq(DownFrame)
<1>1. Tail(d) \in Seq(DownFrame)
  BY TailParts
<1>2. \A tag : Says(Tail(d), tag) => Says(d, tag)
  BY SaysTake
<1>3. open /\ ~idle
  BY DEF WireOk
<1> QED
  BY <1>1, <1>2, <1>3 DEF WireOk

\* It lets go of the connection.
LEMMA WireDrops ==
  ASSUME NEW t, NEW u, NEW d, NEW open, NEW idle, WireOk(t, u, d, open, idle)
  PROVE  WireOk(t, u, <<>>, FALSE, FALSE)
BY SaysNothing DEF WireOk

\* What is joined stays joined when a frame is read that is no part of an answer.
LEMMA JoinsTakes ==
  ASSUME NEW r, NEW g, NEW t, NEW u, NEW d \in Seq(DownFrame), d # <<>>,
         d[1].tag \notin {"ResponseHead", "ResponseBody"}, Joins(r, g, t, u, d)
  PROVE  Joins(r, g, t, u, Tail(d))
<1>1. /\ Len(Tail(d)) = Len(d) - 1 /\ Len(d) \in Nat \ {0}
      /\ \A i \in 1..(Len(d) - 1) : Tail(d)[i] = d[i + 1] /\ i + 1 \in 1..Len(d)
      /\ Tail(d) = <<>> <=> Len(d) = 1
  BY TailParts
<1>2. OnlyAcks(d) => OnlyAcks(Tail(d))
  BY <1>1 DEF OnlyAcks
<1>3. Tail(d) # <<>> => Tail(d)[Len(Tail(d))] = d[Len(d)]
  BY <1>1
<1>4. t # NewTask
  BY DEF Joins
<1>5. ASSUME t.pc = "relay"
      PROVE  Tail(d) # <<>> /\ d[Len(d)].tag \in {"ResponseHead", "ResponseBody"}
             /\ d[Len(d)].part = Part(r, t.call, t.relayed)
  <2>1. /\ d[Len(d)].tag \in {"ResponseHead", "ResponseBody"}
        /\ d[Len(d)].part = Part(r, t.call, t.relayed)
    BY <1>5 DEF Joins
  <2>2. Len(d) # 1
    BY <2>1
  <2> QED
    BY <1>1, <2>1, <2>2
<1>6. t.pc = "relay" =>
        IF Tail(d) = <<>> THEN g # <<>> /\ g[Len(g)] = Part(r, t.call, t.relayed)
        ELSE /\ Tail(d)[Len(Tail(d))].tag \in {"ResponseHead", "ResponseBody"}
             /\ Tail(d)[Len(Tail(d))].part = Part(r, t.call, t.relayed)
  BY <1>3, <1>5
<1>7. (t.pc \in {"read", "repair"} /\ u # <<>>) \/ t.pc = "upstream" =>
        g = <<>> /\ OnlyAcks(Tail(d))
  BY <1>2 DEF Joins
<1> QED
  BY <1>4, <1>6, <1>7 DEF Joins

\* A part of the answer goes to the agent: what the remote end writes next joins
\* it when nothing else is on the way.
LEMMA JoinsHands ==
  ASSUME NEW r, NEW g \in Seq(Parts), NEW t, NEW u, NEW d \in Seq(DownFrame), d # <<>>,
         d[1].tag \in {"ResponseHead", "ResponseBody"}, d[1].part \in Parts,
         Joins(r, g, t, u, d)
  PROVE  Joins(r, Append(g, d[1].part), t, u, Tail(d))
<1> DEFINE h == Append(g, d[1].part)
<1>1. /\ Len(Tail(d)) = Len(d) - 1 /\ Len(d) \in Nat \ {0}
      /\ \A i \in 1..(Len(d) - 1) : Tail(d)[i] = d[i + 1] /\ i + 1 \in 1..Len(d)
      /\ Tail(d) = <<>> <=> Len(d) = 1
  BY TailParts
<1>2. h # <<>> /\ h[Len(h)] = d[1].part
  BY AppendParts
<1> HIDE DEF h
<1>3. ~OnlyAcks(d)
  <2>1. 1 \in 1..Len(d)
    BY <1>1
  <2> QED
    BY <2>1 DEF OnlyAcks
<1>4. t # NewTask /\ ~((t.pc \in {"read", "repair"} /\ u # <<>>) \/ t.pc = "upstream")
  BY <1>3 DEF Joins
<1>5. ASSUME t.pc = "relay"
      PROVE  IF Tail(d) = <<>> THEN h # <<>> /\ h[Len(h)] = Part(r, t.call, t.relayed)
             ELSE /\ Tail(d)[Len(Tail(d))].tag \in {"ResponseHead", "ResponseBody"}
                  /\ Tail(d)[Len(Tail(d))].part = Part(r, t.call, t.relayed)
  <2>1. /\ d[Len(d)].tag \in {"ResponseHead", "ResponseBody"}
        /\ d[Len(d)].part = Part(r, t.call, t.relayed)
    BY <1>5 DEF Joins
  <2>2. Tail(d) = <<>> => d[1].part = Part(r, t.call, t.relayed)
    BY <1>1, <2>1
  <2>3. Tail(d) # <<>> => Tail(d)[Len(Tail(d))] = d[Len(d)]
    BY <1>1
  <2> QED
    BY <1>2, <2>1, <2>2, <2>3
<1>6. Joins(r, h, t, u, Tail(d))
  BY <1>4, <1>5 DEF Joins
<1> QED
  BY <1>6 DEF h

\* A frame that is no part of an answer.
LEMMA CarriesTakes ==
  ASSUME NEW r \in Requests, NEW whole \in BOOLEAN, NEW g, NEW n \in Nat, NEW t, NEW u,
         NEW d \in Seq(DownFrame), d # <<>>, NEW heard,
         Carries(r, whole, g, n, t, u, d, heard), d[1].tag \in {"HelloAck", "Bloom"}
  PROVE  Carries(r, whole, g, n, t, u, Tail(d), heard)
<1>1. CarriesDown(r, whole, g, n, d) /\ CarriesUp(r, whole, t, u)
  BY DEF Carries
<1>2. DownFirst(r, g, d[1])
  BY <1>1 DEF CarriesDown
<1>3. ASSUME NEW f \in DownFrame, DownNext(d[1], f)  PROVE DownFirst(r, g, f)
  <2>1. CASE d[1].tag = "HelloAck"
    BY <1>2, <1>3, <2>1 DEF DownFirst, DownNext
  <2>2. CASE d[1].tag = "Bloom"
    BY <1>2, <1>3, <2>2 DEF DownFirst, DownNext
  <2> QED
    BY <2>1, <2>2
<1>4. CarriesDown(r, whole, g, n, Tail(d))
  BY <1>1, <1>3, CarriesDownTake
<1>5. t.pc # "ended" /\ heard => Joins(r, g, t, u, Tail(d))
  BY JoinsTakes DEF Carries
<1> QED
  BY <1>1, <1>4, <1>5 DEF Carries

\* The head, and a part of the body: the agent has one more part of the same answer.
LEMMA CarriesHands ==
  ASSUME NEW r \in Requests, NEW whole \in BOOLEAN, NEW g \in Seq(Parts), NEW n \in Nat,
         NEW t, NEW u, NEW d \in Seq(DownFrame), d # <<>>, NEW heard,
         Carries(r, whole, g, n, t, u, d, heard), Numbered(r, g),
         \A i \in 1..Len(g) : g[i].call \in 1..n,
         d[1].tag \in {"ResponseHead", "ResponseBody"}
  PROVE  LET h == Append(g, d[1].part)
         IN /\ Carries(r, whole, h, n, t, u, Tail(d), heard)
            /\ Numbered(r, h) /\ h # <<>> /\ \A i \in 1..Len(h) : h[i].call \in 1..n
            /\ d[1].tag = "ResponseBody" => g # <<>>
<1> DEFINE h == Append(g, d[1].part)
<1>1. CarriesDown(r, whole, g, n, d) /\ CarriesUp(r, whole, t, u)
  BY DEF Carries
<1>2. /\ d[1] \in DownFrame /\ d[1].part \in Parts
      /\ d[1].part.req = r /\ d[1].part.call \in 1..n
      /\ DownFirst(r, g, d[1])
  <2>1. 1 \in 1..Len(d) /\ d[1] \in DownFrame
    OBVIOUS
  <2> QED
    BY <1>1, <2>1, DownFields DEF CarriesDown, AnswerTo
<1>3. /\ Len(h) = Len(g) + 1 /\ Len(g) \in Nat /\ h # <<>>
      /\ \A i \in 1..Len(g) : h[i] = g[i]
      /\ h[Len(g) + 1] = d[1].part /\ (g = <<>> <=> Len(g) = 0)
  BY <1>2, AppendParts
<1>4. \A i \in 1..Len(h) : i \in 1..Len(g) \/ i = Len(g) + 1
  BY <1>3
<1>5. d[1].part = Part(r, h[1].call, Len(g)) /\ (d[1].tag = "ResponseBody" => g # <<>>)
      /\ (g # <<>> => h[1] = g[1])
  <2>1. CASE g = <<>>
    <3>1. d[1].tag = "ResponseHead" /\ d[1].part.part = 0
      BY <1>2, <2>1 DEF DownFirst
    <3>2. h[1] = d[1].part /\ Len(g) = 0
      BY <1>3, <2>1
    <3>3. d[1].part = Part(r, d[1].part.call, 0)
      BY <1>2, <3>1 DEF Parts, Part
    <3> QED
      BY <2>1, <3>1, <3>2, <3>3
  <2>2. CASE g # <<>>
    <3>1. d[1].part = Part(r, g[1].call, Len(g))
      BY <1>2, <2>2, <1>3 DEF DownFirst
    <3>2. 1 \in 1..Len(g)
      BY <1>3, <2>2
    <3> QED
      BY <1>3, <2>2, <3>1, <3>2
  <2> QED
    BY <2>1, <2>2
<1> HIDE DEF h
<1>6. Numbered(r, h)
  <2>1. ASSUME NEW i \in 1..Len(h)  PROVE h[i] = Part(r, h[1].call, i - 1)
    <3>1. CASE i \in 1..Len(g)
      <4>1. g # <<>> /\ h[i] = g[i] /\ g[i] = Part(r, g[1].call, i - 1)
        BY <1>3, <3>1 DEF Numbered
      <4> QED
        BY <1>5, <4>1
    <3>2. CASE i = Len(g) + 1
      <4>1. i - 1 = Len(g)
        BY <1>3, <3>2
      <4> QED
        BY <1>3, <1>5, <3>2, <4>1
    <3> QED
      BY <1>4, <3>1, <3>2
  <2> QED
    BY <2>1 DEF Numbered
<1>7. \A i \in 1..Len(h) : h[i].call \in 1..n
  BY <1>2, <1>3, <1>4
<1>8. /\ d[1].part.part = Len(g) /\ d[1].part.call = h[1].call
  BY <1>5 DEF Part
<1>9. ASSUME NEW f \in DownFrame, DownNext(d[1], f)  PROVE DownFirst(r, h, f)
  <2>1. Len(g) <= NChunks
    BY <1>2, <1>3, BoundsAssumption DEF DownFirst
  <2>2. CASE /\ d[1].part.part < NChunks /\ f.tag = "ResponseBody"
             /\ f.part = Part(d[1].part.req, d[1].part.call, d[1].part.part + 1)
    <3>1. f.part = Part(r, h[1].call, Len(h))
      BY <1>2, <1>3, <1>8, <2>2
    <3>2. Len(h) <= NChunks
      BY <1>3, <1>8, <2>2, BoundsAssumption
    <3> QED
      BY <1>3, <2>2, <3>1, <3>2 DEF DownFirst
  <2>3. CASE d[1].part.part = NChunks /\ f.tag = "Bloom"
    BY <1>3, <1>8, <2>3 DEF DownFirst
  <2> QED
    BY <1>9, <2>2, <2>3 DEF DownNext
<1>10. CarriesDown(r, whole, h, n, Tail(d))
  BY <1>1, <1>9, CarriesDownTake
<1>11. t.pc # "ended" /\ heard => Joins(r, h, t, u, Tail(d))
  BY <1>2, JoinsHands DEF Carries, h
<1>12. Carries(r, whole, h, n, t, u, Tail(d), heard)
  BY <1>1, <1>10, <1>11 DEF Carries
<1> QED
  BY <1>3, <1>5, <1>6, <1>7, <1>12 DEF h

\* Nothing follows a Need, a Fail or the end of the answer.
LEMMA LastFrame ==
  ASSUME NEW d \in Seq(DownFrame), d # <<>>, DownChain(d),
         d[1].tag \in {"Need", "Fail", "ResponseEnd"}
  PROVE  Tail(d) = <<>>
<1>1. Tail(d) # <<>> => DownNext(d[1], Tail(d)[1])
  BY DownTail
<1> QED
  BY <1>1 DEF DownNext

\* The end of the answer: the connection has nothing of it left.
LEMMA WireEnds ==
  ASSUME NEW t, NEW u, NEW d \in Seq(DownFrame), d # <<>>, NEW open, NEW idle,
         WireOk(t, u, d, open, idle), d[1].tag = "ResponseEnd"
  PROVE  WireOk(t, u, <<>>, TRUE, TRUE)
<1>1. Says(d, "ResponseEnd")
  BY SaysFirst
<1>2. u = <<>> /\ (t.pc # "ended" => t = Blank)
  BY <1>1 DEF WireOk, Reads
<1>3. ToSet(<<>>) \subseteq {Reset}
  BY DEF ToSet
<1> QED
  BY <1>2, <1>3, SaysNothing DEF WireOk

\* The blocks asked for go out.
LEMMA WireResends ==
  ASSUME NEW t, NEW u, NEW d \in Seq(DownFrame), d # <<>>, NEW open, NEW idle,
         WireOk(t, u, d, open, idle), DownChain(d), d[1].tag = "Need", t.pc # "ended",
         NEW w \in Seq(UpFrame), UpChain(w), w # <<>>,
         \A i \in 1..Len(w) : w[i].tag \in {"Block", "EndOfBody"}
  PROVE  u = <<>> /\ u \o w = w /\ Tail(d) = <<>> /\ WireOk(t, w, <<>>, open, idle)
<1>1. t.pc = "repair" /\ u = <<>>
  BY SaysFirst DEF WireOk
<1>2. Tail(d) = <<>>
  BY LastFrame
<1>3. ~idle /\ t # Blank /\ t.greeted /\ SplitRead(t)
  BY <1>1, FreshTasks DEF WireOk, Reads
<1>4. UpFirst(t, w[1])
  <2>1. 1 \in 1..Len(w)
    OBVIOUS
  <2> QED
    BY <1>3, <2>1 DEF UpFirst
<1>5. Reads(t, w)
  BY <1>1, <1>3, <1>4 DEF Reads
<1>6. WireOk(t, w, <<>>, open, idle)
  BY <1>3, <1>5, SaysNothing DEF WireOk
<1>7. u \o w = w
  BY <1>1
<1> QED
  BY <1>1, <1>2, <1>6, <1>7

-----------------------------------------------------------------------------
(* The steps of the local end. *)

\* A turn that awaits an answer has a connection of its own.
LEMMA Awaiting ==
  ASSUME TypeOK, Bookkeeping, OneOwner, LinkInv, NEW r \in Requests, turn[r].pc = "await"
  PROVE  /\ turn[r].conn \in Conns /\ turn[r].conn \in dialed /\ turn[r].conn # None
         /\ turn[r].conn \notin ToSet(pool) /\ used[turn[r].conn] # 0
         /\ \A q \in Requests \ {r} : turn[q].conn # turn[r].conn
<1>1. turn[r].conn \in Conns \cup {None}
  BY DEF TypeOK, TypeLocal, Turn
<1>2. turn[r].conn # None
  BY DEF Bookkeeping
<1>3. turn[r].conn \notin ToSet(pool) /\ \A q \in Requests \ {r} : turn[q].conn # turn[r].conn
  BY <1>2 DEF OneOwner
<1>4. turn[r].conn \in dialed
  BY <1>2 DEF OneOwner
<1>5. turn[r].conn \in Conns
  BY <1>1, <1>2
<1>6. used[turn[r].conn] # 0
  BY <1>4, <1>5 DEF LinkInv, UsedInv
<1> QED
  BY <1>2, <1>3, <1>4, <1>5, <1>6

\* A request is prepared, or finds no connection.
LEMMA PrepareKeeps ==
  ASSUME TypeOK, Bookkeeping, LinkInv, NEW r \in Requests, Prepare(r) \/ DialFails(r)
  PROVE  LinkInv'
<1>1. /\ turn[r].pc \in {"new", "ready"}
      /\ UNCHANGED <<got, pool, dialed, used, up, down, cut, task, rstore, calls, paired>>
  BY DEF Prepare, DialFails, views, wire, remote, admin
<1>2. turn[r] \in Turn /\ turn \in [Requests -> Turn] /\ turn[r].conn = None
  BY <1>1 DEF TypeOK, TypeLocal, Bookkeeping
<1>3. GotOk(r, turn[r], got[r], calls[r]) /\ got[r] = <<>> /\ ~turn[r].headSent
  BY <1>1 DEF LinkInv, GotInv, GotOk
<1>4. PICK v : /\ turn' = [turn EXCEPT ![r] = v]
               /\ v.conn = turn[r].conn /\ v.headSent = turn[r].headSent
  <2>1. CASE Prepare(r)
    <3>1. PICK w, p : turn' = [turn EXCEPT ![r].pc = "ready", ![r].whole = w, ![r].push = p]
      BY <2>1 DEF Prepare
    <3>2. turn' = [turn EXCEPT ![r] = [turn[r] EXCEPT !.pc = "ready", !.whole = w, !.push = p]]
      BY <1>2, <3>1
    <3>3. /\ [turn[r] EXCEPT !.pc = "ready", !.whole = w, !.push = p].conn = turn[r].conn
          /\ [turn[r] EXCEPT !.pc = "ready", !.whole = w, !.push = p].headSent = turn[r].headSent
      BY <1>2 DEF Turn
    <3> QED
      BY <3>2, <3>3
  <2>2. CASE DialFails(r)
    <3>1. turn' = [turn EXCEPT ![r] = [turn[r] EXCEPT !.pc = "over"]]
      BY <1>2, <2>2 DEF DialFails
    <3>2. /\ [turn[r] EXCEPT !.pc = "over"].conn = turn[r].conn
          /\ [turn[r] EXCEPT !.pc = "over"].headSent = turn[r].headSent
      BY <1>2 DEF Turn
    <3> QED
      BY <3>1, <3>2
  <2> QED
    BY <2>1, <2>2
<1>5. GotOk(r, v, got[r], calls[r])
  BY <1>3, <1>4 DEF GotOk
<1> QED
  BY <1>1, <1>2, <1>4, <1>5, QuietTurn

\* An upload begins: whatever is in front of it, the turn has no part of an answer.
LEMMA FreshCarries ==
  ASSUME NEW r \in Requests, NEW whole \in BOOLEAN, NEW n \in Nat, NEW heard,
         NEW t, t.pc = "ended" \/ t = Blank \/ t = NewTask, NEW u,
         \A i \in 1..Len(u) : u[i].tag = "RequestHead" =>
                                u[i].req = r /\ (whole => ~u[i].split)
  PROVE  Carries(r, whole, <<>>, n, t, u, <<>>, heard)
<1>1. CarriesUp(r, whole, t, u)
  BY FreshTasks DEF CarriesUp
<1>2. CarriesDown(r, whole, <<>>, n, <<>>)
  BY CarriesNothing
<1>3. t.pc # "ended" => Joins(r, <<>>, t, u, <<>>)
  <2>1. OnlyAcks(<<>>)
    BY DEF OnlyAcks
  <2> QED
    BY <2>1, FreshTasks DEF Joins
<1> QED
  BY <1>1, <1>2, <1>3 DEF Carries

\* Begin, in the terms of the lemmas above.
LEMMA BeginParts ==
  ASSUME TypeOK, NEW r \in Requests, NEW c \in Conns, NEW heard, Begin(r, c, heard)
  PROVE  \E v : /\ turn' = [turn EXCEPT ![r] = v]
                /\ v.conn = c /\ v.pc = "await" /\ v.whole = turn[r].whole
                /\ v.headSent = turn[r].headSent
<1> DEFINE v == [turn[r] EXCEPT !.pc = "await", !.attempt = @ + 1, !.conn = c, !.repairs = 0]
<1>1. turn[r] \in Turn /\ turn \in [Requests -> Turn]
  BY DEF TypeOK, TypeLocal
<1>2. turn' = [turn EXCEPT ![r] = v]
  BY <1>1 DEF Begin
<1>3. /\ v.conn = c /\ v.pc = "await" /\ v.whole = turn[r].whole
      /\ v.headSent = turn[r].headSent
  BY <1>1 DEF Turn
<1> QED
  BY <1>2, <1>3

\* What an attempt starts from.
LEMMA ReadyFacts ==
  ASSUME TypeOK, Bookkeeping, LinkInv, NEW r \in Requests, turn[r].pc = "ready"
  PROVE  /\ got[r] = <<>> /\ ~turn[r].headSent /\ turn[r].conn = None
         /\ got = [got EXCEPT ![r] = <<>>] /\ calls[r] \in Nat /\ turn[r].whole \in BOOLEAN
         /\ \A v : v.pc = "await" /\ v.headSent = turn[r].headSent =>
              GotOk(r, v, <<>>, calls[r])
<1>1. GotOk(r, turn[r], got[r], calls[r])
  BY DEF LinkInv, GotInv
<1>2. got[r] = <<>> /\ ~turn[r].headSent
  BY <1>1 DEF GotOk
<1>3. got = [got EXCEPT ![r] = <<>>] /\ calls[r] \in Nat /\ turn[r].whole \in BOOLEAN
  BY <1>2 DEF TypeOK, TypeLocal, TypeRemote, Turn
<1>4. turn[r].conn = None
  BY DEF Bookkeeping
<1> QED
  BY <1>2, <1>3, <1>4 DEF GotOk

\* The upload goes out on a connection of the pool.
LEMMA WireUploads ==
  ASSUME NEW t \in Task, NEW u \in Seq(UpFrame), NEW d, NEW open, WireOk(t, u, d, open, TRUE),
         t.pc # "ended", NEW w \in Seq(UpFrame), UpChain(w), w # <<>>,
         w[1].tag = "RequestHead"
  PROVE  WireOk(t, u \o w, <<>>, TRUE, FALSE)
<1> DEFINE e == u \o w
<1>1. /\ t = Blank /\ ToSet(u) \subseteq {Reset}
  BY DEF WireOk
<1>2. /\ \A i \in 1..Len(u) : u[i] = Reset /\ u[i].tag = "Reset"
      /\ UpChain(u)
  BY <1>1, OnlyResets
<1>3. /\ Len(e) = Len(u) + Len(w) /\ Len(u) \in Nat /\ Len(w) \in Nat \ {0}
      /\ \A i \in 1..Len(u) : e[i] = u[i]
      /\ \A i \in 1..Len(w) : e[Len(u) + i] = w[i]
      /\ (u = <<>> <=> Len(u) = 0) /\ e # <<>>
  BY JoinParts
<1>4. UpChain(e)
  <2>1. u # <<>> => UpNext(u[Len(u)], w[1])
    <3>1. u # <<>> => u[Len(u)].tag = "Reset"
      BY <1>2, <1>3
    <3> QED
      BY <3>1 DEF UpNext
  <2> QED
    BY <1>2, <2>1, UpJoin
<1> HIDE DEF e
<1>5. e[1].tag \in {"Reset", "RequestHead"}
  <2>1. CASE u = <<>>
    <3>1. e[1] = w[1]
      BY <1>3, <2>1
    <3> QED
      BY <3>1
  <2>2. CASE u # <<>>
    BY <1>2, <1>3, <2>2
  <2> QED
    BY <2>1, <2>2
<1>6. UpFirst(Blank, e[1])
  BY <1>5 DEF UpFirst
<1>7. Reads(Blank, e)
  BY <1>4, <1>6, FreshTasks DEF Reads
<1>8. WireOk(Blank, e, <<>>, TRUE, FALSE)
  BY <1>7, SaysNothing DEF WireOk
<1> QED
  BY <1>1, <1>8 DEF e

\* It takes the connection out of the pool without writing to it.
LEMMA WireTaken ==
  ASSUME NEW t, NEW u, NEW d, NEW open, WireOk(t, u, d, open, TRUE)
  PROVE  /\ d = <<>> /\ WireOk(t, u, <<>>, TRUE, FALSE)
         /\ ToSet(u) \subseteq {Reset} /\ (t.pc = "ended" \/ t = Blank)
BY SaysNothing DEF WireOk

\* The upload goes out on a new connection.
LEMMA WireDials ==
  ASSUME NEW w \in Seq(UpFrame), UpChain(w), w # <<>>, w[1].tag = "Hello"
  PROVE  WireOk(NewTask, w, <<>>, TRUE, FALSE)
<1>1. UpFirst(NewTask, w[1])
  BY DEF UpFirst
<1>2. Reads(NewTask, w)
  BY <1>1, FreshTasks DEF Reads
<1> QED
  BY <1>2, SaysNothing DEF WireOk

\* A turn takes a connection of the pool: the upload goes out behind the Resets.
LEMMA TakePooledKeeps ==
  ASSUME TypeOK, Bookkeeping, OneOwner, LinkInv, NEW r \in Requests, TakePooled(r)
  PROVE  LinkInv'
<1> DEFINE c == Last(pool)
           heard == Hears(c)
           w == Upload(r, c)
           un == IF heard THEN up[c] \o w ELSE up[c]
<1>1. /\ turn[r].pc = "ready" /\ pool # <<>> /\ Begin(r, c, heard) /\ pool' = Front(pool)
      /\ UNCHANGED <<got, dialed, down, cut, task, rstore, calls, paired>>
  BY DEF TakePooled, remote, admin
<1>2. /\ c \in ToSet(pool) /\ c \in Conns /\ ToSet(Front(pool)) = ToSet(pool) \ {c}
      /\ c \in dialed
  <2>1. pool \in Seq(Conns) /\ Distinct(pool)
    BY OwnerParts DEF TypeOK, TypeLocal
  <2>2. c \in ToSet(pool) /\ c \in Conns /\ ToSet(Front(pool)) = ToSet(pool) \ {c}
    BY <1>1, <2>1, TakeLast
  <2> QED
    BY <2>2 DEF OneOwner
<1>3. /\ up' = [up EXCEPT ![c] = un]
      /\ used' = [used EXCEPT ![c] = @ + 1]
      /\ heard => task[c].pc # "ended"
  BY <1>1, <1>2, ConnFacts DEF Begin, Hears, Alive
<1>4. PICK v : /\ turn' = [turn EXCEPT ![r] = v]
               /\ v.conn = c /\ v.pc = "await" /\ v.whole = turn[r].whole
               /\ v.headSent = turn[r].headSent
  BY <1>1, <1>2, BeginParts
<1>5. /\ task[c] \in Task /\ up[c] \in Seq(UpFrame)
      /\ WireOk(task[c], up[c], down[c], c \in dialed, c \in ToSet(pool))
      /\ task' = [task EXCEPT ![c] = task[c]] /\ down' = [down EXCEPT ![c] = down[c]]
  BY <1>1, <1>2, ConnFacts
<1>6. /\ w \in Seq(UpFrame) /\ UpChain(w) /\ w # <<>> /\ w[1].tag = "RequestHead"
      /\ \A i \in 1..Len(w) : w[i].tag = "RequestHead" =>
              w[i].req = r /\ (turn[r].whole => ~w[i].split)
  <2>1. used[c] # 0
    BY <1>2 DEF LinkInv, UsedInv
  <2> QED
    BY <1>2, <2>1, UploadChain
<1>7. used'[c] # 0 /\ \A x \in Conns \ {c} : used'[x] = used[x]
  BY <1>2, <1>3 DEF TypeOK, TypeLocal
<1>8. /\ got[r] = <<>> /\ got' = [got EXCEPT ![r] = <<>>]
      /\ calls[r] \in Nat /\ turn[r].whole \in BOOLEAN
      /\ GotOk(r, v, <<>>, calls[r])
  BY <1>1, <1>4, ReadyFacts
<1>9. \A q \in Requests \ {r} : turn[q].conn # c
  BY <1>2 DEF OneOwner
<1>10. (c \in dialed') = TRUE /\ (c \in ToSet(pool')) = FALSE /\ (c \in ToSet(pool)) = TRUE
  BY <1>1, <1>2
<1>11. \A x \in Conns \ {c} : /\ x \in dialed' <=> x \in dialed
                              /\ x \in ToSet(pool') <=> x \in ToSet(pool)
                              /\ x \in cut' <=> x \in cut
  BY <1>1, <1>2
<1> DEFINE t == task[c]
           u == up[c]
           open == c \in dialed
<1> HIDE DEF heard, w, t, u, open, c
<1>12. WireOk(t, u, down[c], open, TRUE) /\ t \in Task /\ u \in Seq(UpFrame)
       /\ (heard => t.pc # "ended")
  BY <1>3, <1>5, <1>10 DEF t, u, open
<1>13. /\ down[c] = <<>> /\ WireOk(t, u, <<>>, TRUE, FALSE)
       /\ ToSet(u) \subseteq {Reset} /\ (t.pc = "ended" \/ t = Blank)
  BY <1>12, WireTaken
<1>14. WireOk(t, un, <<>>, TRUE, FALSE)
  <2>1. heard => WireOk(t, u \o w, <<>>, TRUE, FALSE)
    BY <1>6, <1>12, WireUploads
  <2> QED
    BY <1>13, <2>1 DEF u
<1>15. \A i \in 1..Len(un) : un[i].tag = "RequestHead" =>
         un[i].req = r /\ (turn[r].whole => ~un[i].split)
  <2>1. \A i \in 1..Len(u) : u[i].tag = "Reset"
    BY <1>12, <1>13, OnlyResets
  <2>2. \A i \in 1..Len(u \o w) : \/ \E j \in 1..Len(u) : (u \o w)[i] = u[j]
                                  \/ \E j \in 1..Len(w) : (u \o w)[i] = w[j]
    BY <1>6, <1>12, JoinFrames
  <2>3. \A i \in 1..Len(u \o w) : (u \o w)[i].tag = "RequestHead" =>
          (u \o w)[i].req = r /\ (turn[r].whole => ~(u \o w)[i].split)
    BY <1>6, <2>1, <2>2
  <2>4. un = u \o w \/ un = u
    BY DEF u
  <2> QED
    BY <2>1, <2>3, <2>4
<1>16. \A x : Carries(r, turn[r].whole, <<>>, calls[r], t, un, <<>>, x)
  BY <1>8, <1>13, <1>15, FreshCarries
<1> HIDE DEF un
<1>17. WireOk(task[c], un, down[c], c \in dialed', c \in ToSet(pool'))
  BY <1>10, <1>13, <1>14 DEF t
<1>18. v.conn = c => Carries(r, v.whole, <<>>, calls[r], task[c], un, down[c], c \in dialed' \ cut')
  BY <1>4, <1>13, <1>16 DEF t
<1>19. c \in dialed' <=> used'[c] # 0
  BY <1>7, <1>10
<1>20. c \in Conns /\ v.conn \in {None, c}
  BY <1>2, <1>4
<1>21. UNCHANGED <<rstore, calls, paired>>
  BY <1>1
<1> QED
  BY <1>3, <1>4, <1>5, <1>7, <1>8, <1>9, <1>11, <1>17, <1>18, <1>19, <1>20, <1>21, TurnLift

\* A turn dials: the upload is all there is on the connection.
LEMMA DialKeeps ==
  ASSUME TypeOK, Bookkeeping, OneOwner, LinkInv, NEW r \in Requests, Dial(r)
  PROVE  LinkInv'
<1>1. PICK c \in Conns \ dialed :
        /\ ~Alive(c) /\ Begin(r, c, TRUE)
        /\ dialed' = dialed \cup {c} /\ cut' = cut \ {c}
        /\ task' = [task EXCEPT ![c] = NewTask]
  BY DEF Dial
<1>2. turn[r].pc = "ready" /\ UNCHANGED <<got, pool, down, rstore, calls, paired>>
  BY DEF Dial, admin
<1> DEFINE w == Upload(r, c)
<1>3. up' = [up EXCEPT ![c] = up[c] \o w] /\ used' = [used EXCEPT ![c] = @ + 1]
  BY <1>1 DEF Begin, TypeOK, TypeWire
<1>4. PICK v : /\ turn' = [turn EXCEPT ![r] = v]
               /\ v.conn = c /\ v.pc = "await" /\ v.whole = turn[r].whole
               /\ v.headSent = turn[r].headSent
  BY <1>1, BeginParts
<1>5. /\ task[c] \in Task /\ up[c] \in Seq(UpFrame)
      /\ WireOk(task[c], up[c], down[c], c \in dialed, c \in ToSet(pool))
      /\ down' = [down EXCEPT ![c] = down[c]]
  BY <1>1, <1>2, ConnFacts
<1>6. used[c] = 0
  BY <1>1 DEF LinkInv, UsedInv
<1>7. /\ w \in Seq(UpFrame) /\ UpChain(w) /\ w # <<>> /\ w[1].tag = "Hello"
      /\ \A i \in 1..Len(w) : w[i].tag = "RequestHead" =>
              w[i].req = r /\ (turn[r].whole => ~w[i].split)
  BY <1>1, <1>6, UploadChain
<1>8. up[c] = <<>> /\ down[c] = <<>>
  BY <1>1, <1>5 DEF WireOk, Reads, Alive
<1>9. up[c] \o w = w
  BY <1>7, <1>8
<1>10. used'[c] # 0 /\ \A x \in Conns \ {c} : used'[x] = used[x]
  BY <1>1, <1>3, <1>6 DEF TypeOK, TypeLocal
<1>11. /\ got' = [got EXCEPT ![r] = <<>>]
       /\ calls[r] \in Nat /\ turn[r].whole \in BOOLEAN
       /\ GotOk(r, v, <<>>, calls[r])
  BY <1>2, <1>4, ReadyFacts
<1>12. c \notin ToSet(pool) /\ \A q \in Requests \ {r} : turn[q].conn # c
  BY <1>1, NoneAssumption DEF OneOwner
<1>13. (c \in dialed') = TRUE /\ (c \in ToSet(pool')) = FALSE
  BY <1>1, <1>2, <1>12
<1>14. \A x \in Conns \ {c} : /\ x \in dialed' <=> x \in dialed
                              /\ x \in ToSet(pool') <=> x \in ToSet(pool)
                              /\ x \in cut' <=> x \in cut
  BY <1>1, <1>2
<1> HIDE DEF w
<1>15. WireOk(NewTask, w, <<>>, TRUE, FALSE)
  BY <1>7, WireDials
<1>16. \A x : Carries(r, turn[r].whole, <<>>, calls[r], NewTask, w, <<>>, x)
  BY <1>7, <1>11, FreshCarries
<1>17. WireOk(NewTask, w, <<>>, c \in dialed', c \in ToSet(pool'))
  BY <1>13, <1>15
<1>18. v.conn = c => Carries(r, v.whole, <<>>, calls[r], NewTask, w, <<>>, c \in dialed' \ cut')
  BY <1>4, <1>16
<1>19. c \in dialed' <=> used'[c] # 0
  BY <1>10, <1>13
<1>20. up' = [up EXCEPT ![c] = w] /\ down' = [down EXCEPT ![c] = <<>>]
  BY <1>3, <1>5, <1>8, <1>9
<1>21. /\ UNCHANGED <<rstore, calls, paired>> /\ v.conn \in {None, c} /\ c \in Conns
       /\ task' = [task EXCEPT ![c] = NewTask] /\ turn' = [turn EXCEPT ![r] = v]
       /\ got' = [got EXCEPT ![r] = <<>>] /\ GotOk(r, v, <<>>, calls[r])
       /\ \A q \in Requests \ {r} : turn[q].conn # c
  BY <1>1, <1>2, <1>4, <1>11, <1>12
<1>22. \A x \in Conns \ {c} : /\ x \in dialed' <=> x \in dialed
                              /\ x \in ToSet(pool') <=> x \in ToSet(pool)
                              /\ x \in cut' <=> x \in cut
                              /\ used'[x] = used[x]
  BY <1>10, <1>14
<1> QED
  BY <1>17, <1>18, <1>19, <1>20, <1>21, <1>22, TurnLift

\* A turn lets go of its connection, which is closed or pooled.
LEMMA LetGoLift ==
  ASSUME TypeOK, LinkInv, NEW c \in Conns, NEW r \in Requests,
         UNCHANGED <<rstore, calls, paired>>,
         NEW t, NEW u, NEW g, t = task[c] \/ t = NewTask,
         task' = [task EXCEPT ![c] = t], up' = [up EXCEPT ![c] = u],
         got' = [got EXCEPT ![r] = g],
         NEW v, turn' = [turn EXCEPT ![r] = v], v.conn = None,
         down' = [down EXCEPT ![c] = <<>>],
         \A q \in Requests \ {r} : turn[q].conn # c,
         \A x \in Conns \ {c} : /\ x \in dialed' <=> x \in dialed
                                /\ x \in ToSet(pool') <=> x \in ToSet(pool)
                                /\ x \in cut' <=> x \in cut
                                /\ used'[x] = used[x],
         GotOk(r, v, g, calls[r]),
         WireOk(t, u, <<>>, c \in dialed', c \in ToSet(pool')),
         c \in dialed' <=> used'[c] # 0
  PROVE  LinkInv'
<1>1. v.conn \in {None, c} /\ v.conn # c
  BY NoneAssumption
<1>2. v.conn = c => Carries(r, v.whole, g, calls[r], t, u, <<>>, c \in dialed' \ cut')
  BY <1>1
<1> QED
  BY <1>1, <1>2, TurnLift

\* A step that touches neither the uplinks nor the other end.
FarEndStill == UNCHANGED <<up, cut, task, rstore, calls, paired>>

\* An attempt fails: its connection is let go of, and only an attempt of which the
\* agent has seen nothing is tried again.
LEMMA FailingKeeps ==
  ASSUME TypeOK, Bookkeeping, OneOwner, LinkInv, NEW r \in Requests,
         turn[r].pc = "await", AttemptFails(r), FarEndStill
  PROVE  LinkInv'
<1> DEFINE c == turn[r].conn
           v == [turn[r] EXCEPT !.pc = IF Retryable(r) THEN "ready" ELSE "over",
                                !.whole = TRUE, !.push = <<>>, !.conn = None]
<1>1. /\ c \in Conns /\ c \in dialed /\ c \notin ToSet(pool)
      /\ \A q \in Requests \ {r} : turn[q].conn # c
  BY Awaiting
<1>2. turn[r] \in Turn /\ turn \in [Requests -> Turn] /\ got' = [got EXCEPT ![r] = got[r]]
  BY DEF TypeOK, TypeLocal, AttemptFails
<1>3. /\ turn' = [turn EXCEPT ![r] = v] /\ down' = [down EXCEPT ![c] = <<>>]
      /\ dialed' = dialed \ {c} /\ pool' = pool
      /\ used' = [x \in Conns |-> IF x \in {c} THEN 0 ELSE used[x]]
  BY <1>2 DEF AttemptFails, DropConns
<1>4. /\ v.conn = None /\ v.headSent = turn[r].headSent
      /\ v.pc = IF Retryable(r) THEN "ready" ELSE "over"
  BY <1>2 DEF Turn
<1>5. GotOk(r, turn[r], got[r], calls[r])
  BY DEF LinkInv, GotInv
<1>6. Retryable(r) => ~turn[r].headSent
  BY DEF Retryable
<1> HIDE DEF v
<1>7. GotOk(r, v, got[r], calls[r])
  BY <1>4, <1>5, <1>6 DEF GotOk
<1> HIDE DEF c
<1>8. /\ task' = [task EXCEPT ![c] = task[c]] /\ up' = [up EXCEPT ![c] = up[c]]
      /\ WireOk(task[c], up[c], down[c], c \in dialed, c \in ToSet(pool))
  BY <1>1, ConnFacts DEF FarEndStill
<1>9. WireOk(task[c], up[c], <<>>, FALSE, FALSE)
  BY <1>8, WireDrops
<1>10. (c \in dialed') = FALSE /\ (c \in ToSet(pool')) = FALSE
  BY <1>1, <1>3
<1>11. WireOk(task[c], up[c], <<>>, c \in dialed', c \in ToSet(pool'))
  BY <1>9, <1>10
<1>12. \A x \in Conns \ {c} : /\ x \in dialed' <=> x \in dialed
                              /\ x \in ToSet(pool') <=> x \in ToSet(pool)
                              /\ x \in cut' <=> x \in cut
                              /\ used'[x] = used[x]
  BY <1>3 DEF FarEndStill
<1>13. c \in dialed' <=> used'[c] # 0
  <2>1. used'[c] = 0
    BY <1>1, <1>3
  <2> QED
    BY <1>10, <2>1
<1>14. UNCHANGED <<rstore, calls, paired>>
  BY DEF FarEndStill
<1> DEFINE t == task[c]
           u == up[c]
           g == got[r]
<1>15. t = task[c] \/ t = NewTask
  OBVIOUS
<1>16. /\ GotOk(r, v, g, calls[r]) /\ WireOk(t, u, <<>>, c \in dialed', c \in ToSet(pool'))
       /\ got' = [got EXCEPT ![r] = g]
       /\ task' = [task EXCEPT ![c] = t] /\ up' = [up EXCEPT ![c] = u]
  BY <1>2, <1>7, <1>8, <1>11
<1> HIDE DEF t, u, g
<1> QED
  BY <1>1, <1>3, <1>4, <1>12, <1>13, <1>14, <1>15, <1>16, LetGoLift

\* What a turn knows of the frame it reads.
LEMMA ArrivedFacts ==
  ASSUME TypeOK, Bookkeeping, OneOwner, LinkInv, NEW r \in Requests, NEW tag, Arrived(r, tag),
         NEW c, c = turn[r].conn
  PROVE  /\ turn[r].pc = "await" /\ c \in Conns /\ c \in dialed /\ c \notin ToSet(pool)
         /\ down[c] \in Seq(DownFrame) /\ down[c] # <<>>
         /\ Incoming(r) = down[c][1] /\ Incoming(r) \in DownFrame /\ Incoming(r).tag = tag
         /\ WireOk(task[c], up[c], down[c], TRUE, FALSE)
         /\ Carries(r, turn[r].whole, got[r], calls[r], task[c], up[c], down[c], Heard(c))
         /\ DownChain(down[c]) /\ DownFirst(r, got[r], down[c][1])
         /\ turn[r] \in Turn /\ calls[r] \in Nat /\ got[r] \in Seq(Parts)
         /\ turn[r].whole \in BOOLEAN
         /\ GotOk(r, turn[r], got[r], calls[r]) /\ Numbered(r, got[r])
<1>1. turn[r].pc = "await" /\ down[c] # <<>> /\ Head(down[c]).tag = tag
  BY DEF Arrived
<1>2. /\ c \in Conns /\ c \in dialed /\ c \notin ToSet(pool)
  BY <1>1, Awaiting
<1>3. down[c] \in Seq(DownFrame) /\ Head(down[c]) = down[c][1] /\ Head(down[c]) \in DownFrame
  <2>1. down[c] \in Seq(DownFrame)
    BY <1>2 DEF TypeOK, TypeWire
  <2> QED
    BY <1>1, <2>1
<1>4. (c \in dialed) = TRUE /\ (c \in ToSet(pool)) = FALSE
  BY <1>2
<1>5. WireOk(task[c], up[c], down[c], c \in dialed, c \in ToSet(pool))
  BY <1>2, ConnFacts
<1>6. /\ turn[r].whole \in BOOLEAN /\ calls[r] \in Nat /\ got[r] \in Seq(Parts)
      /\ GotOk(r, turn[r], got[r], calls[r]) /\ Numbered(r, got[r])
      /\ Carries(r, turn[r].whole, got[r], calls[r], task[c], up[c], down[c], Heard(c))
  BY <1>2, OwnerFacts
<1>7. DownChain(down[c]) /\ DownFirst(r, got[r], down[c][1])
  BY <1>1, <1>6 DEF Carries, CarriesDown
<1>8. turn[r] \in Turn
  BY DEF TypeOK, TypeLocal
<1>9. WireOk(task[c], up[c], down[c], TRUE, FALSE)
  BY <1>4, <1>5
<1> QED
  BY <1>1, <1>2, <1>3, <1>4, <1>6, <1>7, <1>8, <1>9 DEF Incoming

\* A step that touches no connection but for its wires.
ConnStill == UNCHANGED <<pool, dialed, used, cut, task, rstore, calls, paired>>

\* A turn stays on its connection.
LEMMA StaysLift ==
  ASSUME TypeOK, LinkInv, NEW c \in Conns, NEW r \in Requests, ConnStill,
         NEW u, NEW d, NEW g, NEW v, NEW t, t = task[c], NEW heard, heard = Heard(c),
         NEW n, n = calls[r],
         up' = [up EXCEPT ![c] = u], down' = [down EXCEPT ![c] = d],
         got' = [got EXCEPT ![r] = g], turn' = [turn EXCEPT ![r] = v], v.conn = c,
         c \in dialed, c \notin ToSet(pool),
         \A q \in Requests \ {r} : turn[q].conn # c,
         GotOk(r, v, g, n), WireOk(t, u, d, TRUE, FALSE),
         Carries(r, v.whole, g, n, t, u, d, heard)
  PROVE  LinkInv'
<1>1. UNCHANGED <<rstore, calls, paired>>
  BY DEF ConnStill
<1>2. /\ (c \in dialed') = TRUE /\ (c \in ToSet(pool')) = FALSE
      /\ c \in dialed' <=> used'[c] # 0
  BY DEF ConnStill, LinkInv, UsedInv
<1>3. \A x \in Conns \ {c} : /\ x \in dialed' <=> x \in dialed
                             /\ x \in ToSet(pool') <=> x \in ToSet(pool)
                             /\ x \in cut' <=> x \in cut
                             /\ used'[x] = used[x]
  BY DEF ConnStill
<1>4. heard = (c \in dialed' \ cut')
  BY DEF ConnStill, Heard
<1>5. WireOk(t, u, d, c \in dialed', c \in ToSet(pool'))
  BY <1>2
<1>6. v.conn = c => Carries(r, v.whole, g, calls[r], t, u, d, c \in dialed' \ cut')
  BY <1>4
<1>7. task' = [task EXCEPT ![c] = t]
  BY DEF TypeOK, TypeRemote, ConnStill
<1>8. (t = task[c] \/ t = NewTask) /\ v.conn \in {None, c} /\ GotOk(r, v, g, calls[r])
  OBVIOUS
<1> QED
  BY <1>1, <1>2, <1>3, <1>5, <1>6, <1>7, <1>8, TurnLift

\* An ack, or the filter of the remote store.
LEMMA TakingKeeps ==
  ASSUME TypeOK, Bookkeeping, OneOwner, LinkInv, NEW r \in Requests,
         LocalHelloAck(r) \/ LocalBloom(r)
  PROVE  LinkInv'
<1> DEFINE c == turn[r].conn
           t == task[c]
           u == up[c]
           d == down[c]
           g == got[r]
           v == turn[r]
           heard == Heard(c)
           n == calls[r]
<1>1. PICK tag \in {"HelloAck", "Bloom"} : Arrived(r, tag)
  BY DEF LocalHelloAck, LocalBloom
<1>2. ConnStill /\ UNCHANGED <<turn, got, up>> /\ down' = [down EXCEPT ![c] = Tail(d)]
  BY DEF ConnStill, LocalHelloAck, LocalBloom, Consume, local, remote, admin
<1>3. /\ c \in Conns /\ c \in dialed /\ c \notin ToSet(pool)
      /\ d \in Seq(DownFrame) /\ d # <<>>
      /\ Incoming(r) = d[1] /\ Incoming(r).tag = tag
      /\ WireOk(t, u, d, TRUE, FALSE) /\ Carries(r, v.whole, g, n, t, u, d, heard)
      /\ n \in Nat /\ v.whole \in BOOLEAN /\ GotOk(r, v, g, n)
  <2>1. c = turn[r].conn
    OBVIOUS
  <2> HIDE DEF c
  <2> QED
    BY <1>1, <2>1, ArrivedFacts
<1>4. /\ up' = [up EXCEPT ![c] = u] /\ got' = [got EXCEPT ![r] = g]
      /\ turn' = [turn EXCEPT ![r] = v] /\ v.conn = c
  BY <1>2 DEF TypeOK, TypeLocal, TypeWire
<1>0. \A q \in Requests \ {r} : turn[q].conn # c
  BY <1>1, Awaiting DEF Arrived
<1>5. t = task[c] /\ heard = Heard(c) /\ n = calls[r]
  OBVIOUS
<1> HIDE DEF c, t, u, d, g, v, heard, n
<1>6. WireOk(t, u, Tail(d), TRUE, FALSE)
  BY <1>3, WireTakes
<1>7. Carries(r, v.whole, g, n, t, u, Tail(d), heard)
  BY <1>1, <1>3, CarriesTakes
<1>8. ConnStill /\ down' = [down EXCEPT ![c] = Tail(d)]
  BY <1>2
<1> QED
  BY <1>0, <1>3, <1>4, <1>5, <1>6, <1>7, <1>8, StaysLift

\* The agent gets the head of an answer, or the next part of its body.
LEMMA HandingKeeps ==
  ASSUME TypeOK, Bookkeeping, OneOwner, LinkInv, NEW r \in Requests,
         LocalHead(r) \/ LocalBody(r), agent[r] # "gone"
  PROVE  LinkInv'
<1> DEFINE c == turn[r].conn
           t == task[c]
           u == up[c]
           d == down[c]
           g == got[r]
           h == Append(g, d[1].part)
           v == IF LocalHead(r) THEN [turn[r] EXCEPT !.headSent = TRUE] ELSE turn[r]
           heard == Heard(c)
           n == calls[r]
<1>1. PICK tag \in {"ResponseHead", "ResponseBody"} :
        Arrived(r, tag) /\ (tag = "ResponseHead" <=> LocalHead(r))
  BY DEF LocalHead, LocalBody, Arrived
<1>2. /\ turn[r].pc = "await" /\ c \in Conns /\ c \in dialed /\ c \notin ToSet(pool)
      /\ d \in Seq(DownFrame) /\ d # <<>>
      /\ Incoming(r) = d[1] /\ Incoming(r).tag = tag
      /\ WireOk(t, u, d, TRUE, FALSE) /\ Carries(r, turn[r].whole, g, n, t, u, d, heard)
      /\ n \in Nat /\ turn[r].whole \in BOOLEAN /\ GotOk(r, turn[r], g, n)
      /\ turn[r] \in Turn /\ g \in Seq(Parts) /\ Numbered(r, g)
  <2>1. c = turn[r].conn
    OBVIOUS
  <2> HIDE DEF c
  <2> QED
    BY <1>1, <2>1, ArrivedFacts
<1>3. /\ ConnStill /\ UNCHANGED up /\ down' = [down EXCEPT ![c] = Tail(d)]
      /\ got' = [got EXCEPT ![r] = h]
  BY <1>2 DEF ConnStill, LocalHead, LocalBody, Consume, remote, admin, TypeOK, TypeLocal
<1>4. /\ turn' = [turn EXCEPT ![r] = v] /\ v.conn = c /\ v.whole = turn[r].whole
      /\ v.pc = "await" /\ (v.headSent <=> turn[r].headSent \/ tag = "ResponseHead")
  <2>1. CASE LocalHead(r)
    <3>1. v = [turn[r] EXCEPT !.headSent = TRUE]
      BY <2>1
    <3>2. turn' = [turn EXCEPT ![r] = [turn[r] EXCEPT !.headSent = TRUE]]
      BY <2>1 DEF LocalHead, TypeOK, TypeLocal
    <3> HIDE DEF v
    <3> QED
      BY <1>1, <1>2, <2>1, <3>1, <3>2 DEF Turn
  <2>2. CASE ~LocalHead(r)
    <3>1. v = turn[r] /\ turn' = turn
      BY <2>2 DEF LocalBody
    <3>2. turn' = [turn EXCEPT ![r] = turn[r]]
      BY <3>1 DEF TypeOK, TypeLocal
    <3> HIDE DEF v
    <3> QED
      BY <1>1, <1>2, <2>2, <3>1, <3>2
  <2> QED
    BY <2>1, <2>2
<1>0. \A q \in Requests \ {r} : turn[q].conn # c
  BY <1>1, Awaiting DEF Arrived
<1>5. t = task[c] /\ heard = Heard(c) /\ n = calls[r]
  OBVIOUS
<1>6. up' = [up EXCEPT ![c] = u]
  BY <1>3 DEF TypeOK, TypeWire
<1> HIDE DEF c, t, u, d, g, v, heard, n
<1>7. WireOk(t, u, Tail(d), TRUE, FALSE)
  BY <1>2, WireTakes
<1>8. \A i \in 1..Len(g) : g[i].call \in 1..n
  BY <1>2 DEF GotOk
<1>9. d[1].tag \in {"ResponseHead", "ResponseBody"}
  BY <1>1, <1>2
<1>10. /\ Carries(r, turn[r].whole, h, n, t, u, Tail(d), heard)
       /\ Numbered(r, h) /\ h # <<>> /\ \A i \in 1..Len(h) : h[i].call \in 1..n
       /\ d[1].tag = "ResponseBody" => g # <<>>
  BY <1>2, <1>8, <1>9, CarriesHands
<1> HIDE DEF h
<1>11. v.headSent
  <2>1. turn[r].headSent <=> g # <<>>
    BY <1>2 DEF GotOk
  <2> QED
    BY <1>2, <1>4, <1>9, <1>10, <2>1
<1>12. GotOk(r, v, h, n)
  BY <1>4, <1>10, <1>11 DEF GotOk, Numbered
<1>13. Carries(r, v.whole, h, n, t, u, Tail(d), heard)
  BY <1>4, <1>10
<1>14. ConnStill /\ down' = [down EXCEPT ![c] = Tail(d)] /\ got' = [got EXCEPT ![r] = h]
  BY <1>3
<1> QED
  BY <1>0, <1>2, <1>4, <1>5, <1>6, <1>7, <1>12, <1>13, <1>14, StaysLift

\* The blocks the remote end asked for are sent once more.
LEMMA ResendingKeeps ==
  ASSUME TypeOK, Bookkeeping, OneOwner, LinkInv, NEW r \in Requests, LocalNeed(r),
         turn[r].repairs < MaxRepairs
  PROVE  LinkInv'
<1> DEFINE c == turn[r].conn
           t == task[c]
           u == up[c]
           d == down[c]
           g == got[r]
           w == Resend(r)
           un == IF Hears(c) THEN u \o w ELSE u
           v == [turn[r] EXCEPT !.repairs = @ + 1]
           heard == Heard(c)
           n == calls[r]
<1>1. Arrived(r, "Need") /\ ~(turn[r].repairs >= MaxRepairs)
  BY BoundsAssumption DEF LocalNeed, TypeOK, TypeLocal, Turn
<1>2. /\ turn[r].pc = "await" /\ c \in Conns /\ c \in dialed /\ c \notin ToSet(pool)
      /\ d \in Seq(DownFrame) /\ d # <<>> /\ Incoming(r) = d[1] /\ Incoming(r).tag = "Need"
      /\ WireOk(t, u, d, TRUE, FALSE) /\ Carries(r, turn[r].whole, g, n, t, u, d, heard)
      /\ DownChain(d) /\ DownFirst(r, g, d[1])
      /\ n \in Nat /\ turn[r].whole \in BOOLEAN /\ GotOk(r, turn[r], g, n)
      /\ turn[r] \in Turn
  <2>1. c = turn[r].conn
    OBVIOUS
  <2> HIDE DEF c
  <2> QED
    BY <1>1, <2>1, ArrivedFacts
<1>3. \A q \in Requests \ {r} : turn[q].conn # c
  BY <1>2, Awaiting
<1>4. /\ ConnStill /\ UNCHANGED got /\ down' = [down EXCEPT ![c] = Tail(d)]
      /\ up' = [up EXCEPT ![c] = un] /\ turn' = [turn EXCEPT ![r] = v]
  <2>1. /\ turn' = [turn EXCEPT ![r].repairs = @ + 1]
        /\ up' = IF Hears(c) THEN [up EXCEPT ![c] = @ \o Resend(r)] ELSE up
        /\ Consume(r) /\ UNCHANGED <<got, pool, dialed, used, cut, task, rstore, calls, paired>>
    BY <1>1 DEF LocalNeed, remote, admin
  <2>2. up \in [Conns -> Seq(UpFrame)] /\ turn \in [Requests -> Turn]
    BY DEF TypeOK, TypeLocal, TypeWire
  <2>3. turn' = [turn EXCEPT ![r] = v]
    BY <2>1, <2>2
  <2>4. up' = [up EXCEPT ![c] = un]
    BY <1>2, <2>1, <2>2
  <2>5. ConnStill /\ UNCHANGED got /\ down' = [down EXCEPT ![c] = Tail(d)]
    BY <2>1 DEF ConnStill, Consume
  <2> QED
    BY <2>3, <2>4, <2>5
<1>5. /\ v.conn = c /\ v.whole = turn[r].whole /\ v.pc = turn[r].pc
      /\ v.headSent = turn[r].headSent
  BY <1>2 DEF Turn
<1>6. got' = [got EXCEPT ![r] = g]
  BY <1>4 DEF TypeOK, TypeLocal
<1>7. t = task[c] /\ heard = Heard(c) /\ n = calls[r]
  OBVIOUS
<1>8. /\ w \in Seq(UpFrame) /\ UpChain(w) /\ w # <<>>
      /\ \A i \in 1..Len(w) : w[i].tag \in {"Block", "EndOfBody"}
  BY ResendChain
<1>9. Hears(c) => t.pc # "ended"
  BY DEF Hears, Alive
<1>10. ~Hears(c) /\ t.pc # "ended" => ~heard
  BY DEF Hears, Alive, Heard
<1> DEFINE hears == Hears(c)
<1>11. un = (IF hears THEN u \o w ELSE u) /\ (hears => t.pc # "ended")
       /\ (~hears /\ t.pc # "ended" => ~heard)
  BY <1>9, <1>10
<1> HIDE DEF c, t, u, d, g, v, w, un, heard, hears, n
<1>12. d[1].tag = "Need" /\ g = <<>>
  BY <1>2 DEF DownFirst
<1>13. Tail(d) = <<>>
  BY <1>2, <1>12, LastFrame
<1>14. hears => /\ WireOk(t, un, <<>>, TRUE, FALSE)
                /\ Carries(r, turn[r].whole, g, n, t, un, <<>>, heard)
  <2> SUFFICES ASSUME hears
               PROVE  /\ WireOk(t, un, <<>>, TRUE, FALSE)
                      /\ Carries(r, turn[r].whole, g, n, t, un, <<>>, heard)
    OBVIOUS
  <2>1. /\ u = <<>> /\ u \o w = w /\ WireOk(t, w, <<>>, TRUE, FALSE)
    <3>1. t.pc # "ended" /\ d[1].tag = "Need" /\ DownChain(d)
      BY <1>2, <1>11, <1>12
    <3> DEFINE open == TRUE
               idle == FALSE
    <3>2. WireOk(t, u, d, open, idle) /\ d \in Seq(DownFrame) /\ d # <<>>
      BY <1>2
    <3> HIDE DEF open, idle
    <3>3. u = <<>> /\ u \o w = w /\ WireOk(t, w, <<>>, open, idle)
      BY <1>8, <3>1, <3>2, WireResends
    <3> QED
      BY <3>3 DEF open, idle
  <2>2. un = w
    BY <1>11, <2>1
  <2>3. CarriesUp(r, turn[r].whole, t, w)
    BY <1>2, <1>8 DEF Carries, CarriesUp
  <2>4. t.pc = "repair" /\ t # NewTask
    <3>1. t.pc = "repair"
      BY <1>2, <1>11, <1>12, SaysFirst DEF WireOk
    <3> QED
      BY <3>1, FreshTasks
  <2>5. Joins(r, g, t, w, <<>>)
    <3>1. OnlyAcks(<<>>)
      BY DEF OnlyAcks
    <3> QED
      BY <1>12, <2>4, <3>1 DEF Joins
  <2>6. Carries(r, turn[r].whole, g, n, t, w, <<>>, heard)
    BY <2>3, <2>5, CarriesNothing DEF Carries
  <2> QED
    BY <2>1, <2>2, <2>6
<1>15. ~hears => /\ WireOk(t, un, <<>>, TRUE, FALSE)
                 /\ Carries(r, turn[r].whole, g, n, t, un, <<>>, heard)
  <2> SUFFICES ASSUME ~hears
               PROVE  /\ WireOk(t, un, <<>>, TRUE, FALSE)
                      /\ Carries(r, turn[r].whole, g, n, t, un, <<>>, heard)
    OBVIOUS
  <2>1. un = u /\ WireOk(t, u, <<>>, TRUE, FALSE)
    BY <1>2, <1>11, <1>13, WireTakes
  <2>2. Carries(r, turn[r].whole, g, n, t, u, <<>>, heard)
    BY <1>2, <1>11, CarriesNothing DEF Carries
  <2> QED
    BY <2>1, <2>2
<1>16. WireOk(t, un, <<>>, TRUE, FALSE) /\ Carries(r, v.whole, g, n, t, un, <<>>, heard)
  BY <1>5, <1>14, <1>15
<1>17. down' = [down EXCEPT ![c] = <<>>] /\ up' = [up EXCEPT ![c] = un] /\ ConnStill
       /\ turn' = [turn EXCEPT ![r] = v]
  BY <1>4, <1>13
<1>18. GotOk(r, v, g, n)
  BY <1>2, <1>5 DEF GotOk
<1> QED
  BY <1>2, <1>3, <1>5, <1>6, <1>7, <1>16, <1>17, <1>18, StaysLift

\* The answer is complete: the connection is quiet, whether it is pooled or closed.
LEMMA EndingKeeps ==
  ASSUME TypeOK, Bookkeeping, OneOwner, LinkInv, NEW r \in Requests, LocalEnd(r)
  PROVE  LinkInv'
<1> DEFINE c == turn[r].conn
           t == task[c]
           u == up[c]
           d == down[c]
           g == got[r]
           v == [turn[r] EXCEPT !.pc = "over", !.conn = None]
           n == calls[r]
<1>1. Arrived(r, "ResponseEnd")
  BY DEF LocalEnd
<1>2. /\ turn[r].pc = "await" /\ c \in Conns /\ c \in dialed /\ c \notin ToSet(pool)
      /\ d \in Seq(DownFrame) /\ d # <<>> /\ Incoming(r) = d[1] /\ Incoming(r).tag = "ResponseEnd"
      /\ WireOk(t, u, d, TRUE, FALSE)
      /\ DownChain(d) /\ GotOk(r, turn[r], g, n) /\ turn[r] \in Turn
  <2>1. c = turn[r].conn
    OBVIOUS
  <2> HIDE DEF c
  <2> QED
    BY <1>1, <2>1, ArrivedFacts
<1>3. \A q \in Requests \ {r} : turn[q].conn # c
  BY <1>2, Awaiting
<1>4. UNCHANGED <<rstore, calls, paired, task, up, got, cut>>
  BY DEF LocalEnd, views, remote, admin
<1>5. /\ task' = [task EXCEPT ![c] = t] /\ up' = [up EXCEPT ![c] = u]
      /\ got' = [got EXCEPT ![r] = g] /\ t = task[c]
  BY <1>4 DEF TypeOK, TypeLocal, TypeWire, TypeRemote
<1>6. turn' = [turn EXCEPT ![r] = v]
  BY DEF LocalEnd, TypeOK, TypeLocal
<1>7. v.conn = None /\ v.pc = "over" /\ v.headSent = turn[r].headSent
  BY <1>2 DEF Turn
<1>8. \/ /\ pool' = Append(pool, c) /\ down' = [down EXCEPT ![c] = Tail(d)]
         /\ UNCHANGED <<dialed, used>>
      \/ /\ dialed' = dialed \ {c} /\ used' = [x \in Conns |-> IF x \in {c} THEN 0 ELSE used[x]]
         /\ down' = [down EXCEPT ![c] = <<>>] /\ pool' = pool
  BY DEF LocalEnd, Consume, DropConns
<1>9. ToSet(Append(pool, c)) = ToSet(pool) \cup {c}
  BY <1>2, ToSetAppend DEF TypeOK, TypeLocal
<1>10. used[c] # 0
  BY <1>2 DEF LinkInv, UsedInv
<1>11. \A x \in Conns \ {c} : /\ x \in dialed' <=> x \in dialed
                              /\ x \in ToSet(pool') <=> x \in ToSet(pool)
                              /\ x \in cut' <=> x \in cut
                              /\ used'[x] = used[x]
  BY <1>4, <1>8, <1>9
<1>12. c \in dialed' <=> used'[c] # 0
  <2>1. CASE UNCHANGED <<dialed, used>>
    BY <1>2, <1>10, <2>1
  <2>2. CASE /\ dialed' = dialed \ {c}
             /\ used' = [x \in Conns |-> IF x \in {c} THEN 0 ELSE used[x]]
    <3>1. used'[c] = 0 /\ c \notin dialed'
      BY <1>2, <2>2
    <3> QED
      BY <3>1
  <2> QED
    BY <1>8, <2>1, <2>2
<1>13. \/ (c \in dialed') = TRUE /\ (c \in ToSet(pool')) = TRUE
       \/ (c \in dialed') = FALSE /\ (c \in ToSet(pool')) = FALSE
  <2>1. CASE pool' = Append(pool, c) /\ UNCHANGED <<dialed, used>>
    <3>1. c \in dialed' /\ c \in ToSet(pool')
      BY <1>2, <1>9, <2>1
    <3> QED
      BY <3>1
  <2>2. CASE dialed' = dialed \ {c} /\ pool' = pool
    <3>1. c \notin dialed' /\ c \notin ToSet(pool')
      BY <1>2, <2>2
    <3> QED
      BY <3>1
  <2> QED
    BY <1>8, <2>1, <2>2
<1>14. UNCHANGED <<rstore, calls, paired>> /\ n = calls[r]
  BY <1>4
<1> HIDE DEF c, t, u, d, g, v, n
<1>15. d[1].tag = "ResponseEnd"
  BY <1>2
<1>16. Tail(d) = <<>>
  BY <1>2, <1>15, LastFrame
<1>17. down' = [down EXCEPT ![c] = <<>>]
  BY <1>8, <1>16
<1>18. WireOk(t, u, <<>>, TRUE, TRUE)
  <2> DEFINE open == TRUE
             idle == FALSE
  <2>1. WireOk(t, u, d, open, idle)
    BY <1>2
  <2> HIDE DEF open, idle
  <2> QED
    BY <1>2, <1>15, <2>1, WireEnds
<1>19. WireOk(t, u, <<>>, FALSE, FALSE)
  BY <1>18, WireDrops
<1>20. WireOk(t, u, <<>>, c \in dialed', c \in ToSet(pool'))
  <2>1. CASE (c \in dialed') = TRUE /\ (c \in ToSet(pool')) = TRUE
    BY <1>18, <2>1
  <2>2. CASE (c \in dialed') = FALSE /\ (c \in ToSet(pool')) = FALSE
    BY <1>19, <2>2
  <2> QED
    BY <1>13, <2>1, <2>2
<1>21. GotOk(r, v, g, calls[r])
  BY <1>2, <1>7, <1>14 DEF GotOk
<1> QED
  BY <1>2, <1>3, <1>5, <1>6, <1>7, <1>11, <1>12, <1>14, <1>17, <1>20, <1>21, LetGoLift

\* A turn that gives up leaves the far end as it is.
LEMMA GivingUpKeeps ==
  ASSUME TypeOK, Bookkeeping, OneOwner, LinkInv, NEW r \in Requests,
         \/ LocalEof(r) \/ LocalRejected(r) \/ LocalFail(r)
         \/ LocalNeed(r) /\ turn[r].repairs >= MaxRepairs
         \/ (LocalHead(r) \/ LocalBody(r)) /\ agent[r] = "gone"
  PROVE  LinkInv'
<1>1. turn[r].pc = "await"
  BY DEF LocalEof, LocalRejected, LocalFail, LocalNeed, LocalHead, LocalBody, Arrived
<1>2. AttemptFails(r)
  BY DEF LocalEof, LocalRejected, LocalFail, LocalNeed, LocalHead, LocalBody
<1>3. FarEndStill
  BY DEF LocalEof, LocalRejected, LocalFail, LocalNeed, LocalHead, LocalBody, FarEndStill,
         remote, admin
<1> QED
  BY <1>1, <1>2, <1>3, FailingKeeps

\* Every step of the local end.
LEMMA LocalKeeps ==
  ASSUME TypeOK, Bookkeeping, OneOwner, LinkInv, NEW r \in Requests, Local(r)
  PROVE  LinkInv'
<1>1. ~(turn[r].repairs >= MaxRepairs) => turn[r].repairs < MaxRepairs
  BY BoundsAssumption DEF TypeOK, TypeLocal, Turn
<1> QED
  BY <1>1, PrepareKeeps, TakePooledKeeps, DialKeeps, TakingKeeps, HandingKeeps,
     ResendingKeeps, EndingKeeps, GivingUpKeeps DEF Local

-----------------------------------------------------------------------------
(* The console and the environment. *)

\* A Reset goes out on an idle connection.
LEMMA WireResets ==
  ASSUME NEW t, NEW u \in Seq(UpFrame), NEW d, NEW open, WireOk(t, u, d, open, TRUE),
         t.pc # "ended"
  PROVE  WireOk(t, Append(u, Reset), <<>>, TRUE, TRUE)
<1> DEFINE e == Append(u, Reset)
<1>1. t = Blank /\ ToSet(u) \subseteq {Reset}
  BY DEF WireOk
<1>2. Reset \in UpFrame /\ Reset.tag = "Reset"
  BY UpTypes DEF Reset
<1>3. e \in Seq(UpFrame) /\ e # <<>> /\ Len(e) = Len(u) + 1 /\ Len(u) \in Nat
  BY <1>2, AppendParts
<1>4. ToSet(e) \subseteq {Reset}
  BY <1>1, <1>2, ToSetAppend
<1> HIDE DEF e
<1>5. (\A i \in 1..Len(e) : e[i] = Reset) /\ UpChain(e)
  BY <1>3, <1>4, OnlyResets
<1>6. e[1].tag = "Reset"
  BY <1>2, <1>3, <1>5
<1>7. UpFirst(Blank, e[1])
  BY <1>6 DEF UpFirst
<1>8. Reads(Blank, e)
  BY <1>5, <1>7, FreshTasks DEF Reads
<1>9. WireOk(Blank, e, <<>>, TRUE, TRUE)
  BY <1>4, <1>8, SaysNothing DEF WireOk
<1> QED
  BY <1>1, <1>9 DEF e

\* The console sends a Reset on an idle connection, or drops it.
LEMMA ResettingConnKeeps ==
  ASSUME TypeOK, Bookkeeping, OneOwner, LinkInv, ResetConn
  PROVE  LinkInv'
<1> DEFINE c == Head(pool)
           t == task[c]
           u == up[c]
           d == down[c]
<1>1. /\ \/ /\ pool' = Append(Tail(pool), c)
            /\ up' = IF Hears(c) THEN [up EXCEPT ![c] = Append(@, Reset)] ELSE up
            /\ UNCHANGED <<dialed, used, down>>
         \/ /\ pool' = Tail(pool)
            /\ dialed' = dialed \ {c} /\ used' = [x \in Conns |-> IF x \in {c} THEN 0 ELSE used[x]]
            /\ down' = [down EXCEPT ![c] = <<>>]
            /\ up' = up
      /\ todo > 0
  BY DEF ResetConn, DropConns
<1>2. UNCHANGED <<turn, got, cut, task, rstore, calls, paired>>
  BY DEF ResetConn, remote
<1>3. pool # <<>> /\ pool \in Seq(Conns) /\ Distinct(pool)
  <2>1. pool \in Seq(Conns)
    BY DEF TypeOK, TypeLocal
  <2>2. todo <= Len(pool) /\ todo \in Nat
    BY DEF Bookkeeping, TypeOK, TypeAdmin
  <2>3. Len(pool) # 0
    BY <1>1, <2>1, <2>2
  <2> QED
    BY <2>1, <2>3, OwnerParts
<1>4. /\ c \in ToSet(pool) /\ c \in Conns /\ Tail(pool) \in Seq(Conns)
      /\ ToSet(Tail(pool)) = ToSet(pool) \ {c}
      /\ ToSet(Append(Tail(pool), c)) = ToSet(pool)
  <2>1. /\ c \in ToSet(pool) /\ c \in Conns /\ Tail(pool) \in Seq(Conns)
        /\ ToSet(Tail(pool)) = ToSet(pool) \ {c}
    BY <1>3, TakeHead
  <2> DEFINE s == Tail(pool)
  <2>2. s \in Seq(Conns) /\ c \in Conns
    BY <2>1
  <2> HIDE DEF c, s
  <2>3. ToSet(Append(s, c)) = ToSet(s) \cup {c}
    BY <2>2, ToSetAppend
  <2> QED
    BY <2>1, <2>3 DEF s
<1>5. c \in dialed /\ \A q \in Requests : turn[q].conn # c
  BY <1>4 DEF OneOwner
<1>6. used[c] # 0 /\ c # None
  BY <1>4, <1>5, NoneAssumption DEF LinkInv, UsedInv
<1>7. /\ t \in Task /\ u \in Seq(UpFrame) /\ d \in Seq(DownFrame)
      /\ WireOk(t, u, d, TRUE, TRUE)
  <2>1. (c \in dialed) = TRUE /\ (c \in ToSet(pool)) = TRUE
    BY <1>4, <1>5
  <2>2. /\ t \in Task /\ u \in Seq(UpFrame) /\ d \in Seq(DownFrame)
        /\ WireOk(t, u, d, c \in dialed, c \in ToSet(pool))
    BY <1>4, ConnFacts
  <2> QED
    BY <2>1, <2>2
<1>8. \A q \in Requests : GotOk(q, turn'[q], got'[q], calls[q])
  BY <1>2 DEF LinkInv, GotInv
<1>9. task' = [task EXCEPT ![c] = t] /\ (Hears(c) => t.pc # "ended")
  BY <1>2 DEF TypeOK, TypeRemote, Hears, Alive
<1>10. /\ UNCHANGED <<rstore, calls, paired>>
       /\ \A q \in Requests : turn'[q].conn # c
       /\ \A q \in Requests : turn'[q].conn \notin {None, c} =>
            turn'[q] = turn[q] /\ got'[q] = got[q]
  BY <1>2, <1>5
<1>11. d = <<>>
  BY <1>7 DEF WireOk
<1>12. CASE /\ pool' = Append(Tail(pool), c)
            /\ up' = IF Hears(c) THEN [up EXCEPT ![c] = Append(@, Reset)] ELSE up
            /\ UNCHANGED <<dialed, used, down>>
  <2> DEFINE un == IF Hears(c) THEN Append(u, Reset) ELSE u
  <2>1. up' = [up EXCEPT ![c] = un] /\ down' = [down EXCEPT ![c] = <<>>]
    BY <1>4, <1>11, <1>12 DEF TypeOK, TypeWire
  <2>2. WireOk(t, un, <<>>, TRUE, TRUE)
    <3>1. Hears(c) => WireOk(t, Append(u, Reset), <<>>, TRUE, TRUE)
      BY <1>7, <1>9, WireResets
    <3> QED
      BY <1>7, <1>11, <3>1
  <2>3. /\ (c \in dialed') = TRUE /\ (c \in ToSet(pool')) = TRUE
        /\ used'[c] # 0
    BY <1>4, <1>5, <1>6, <1>12
  <2>4. \A x \in Conns \ {c} : /\ x \in dialed' <=> x \in dialed
                               /\ x \in ToSet(pool') <=> x \in ToSet(pool)
                               /\ x \in cut' <=> x \in cut
                               /\ used'[x] = used[x]
    BY <1>2, <1>4, <1>12
  <2>5. (t = task[c] \/ t = NewTask) /\ c \in Conns /\ (c \in dialed' <=> used'[c] # 0)
    BY <1>4, <2>3
  <2>6. \A q \in Requests : turn'[q].conn = c =>
          Carries(q, turn'[q].whole, got'[q], calls[q], t, un, <<>>, c \in dialed' \ cut')
    BY <1>10
  <2> HIDE DEF c, t, u, un
  <2>7. WireOk(t, un, <<>>, c \in dialed', c \in ToSet(pool'))
    BY <2>2, <2>3
  <2> QED
    BY <1>8, <1>9, <1>10, <2>1, <2>4, <2>5, <2>6, <2>7, LocalLift
<1>13. CASE /\ pool' = Tail(pool)
            /\ dialed' = dialed \ {c} /\ used' = [x \in Conns |-> IF x \in {c} THEN 0 ELSE used[x]]
            /\ down' = [down EXCEPT ![c] = <<>>]
            /\ up' = up
  <2>1. up' = [up EXCEPT ![c] = u] /\ down' = [down EXCEPT ![c] = <<>>]
    BY <1>4, <1>13 DEF TypeOK, TypeWire
  <2>2. WireOk(t, u, <<>>, FALSE, FALSE)
    BY <1>7, WireDrops
  <2>3. /\ (c \in dialed') = FALSE /\ (c \in ToSet(pool')) = FALSE
        /\ used'[c] = 0
    <3>1. c \notin dialed' /\ c \notin ToSet(pool') /\ used'[c] = 0
      BY <1>4, <1>13
    <3> QED
      BY <3>1
  <2>4. \A x \in Conns \ {c} : /\ x \in dialed' <=> x \in dialed
                               /\ x \in ToSet(pool') <=> x \in ToSet(pool)
                               /\ x \in cut' <=> x \in cut
                               /\ used'[x] = used[x]
    BY <1>2, <1>4, <1>13
  <2>5. (t = task[c] \/ t = NewTask) /\ c \in Conns /\ (c \in dialed' <=> used'[c] # 0)
    BY <1>4, <2>3
  <2>6. \A q \in Requests : turn'[q].conn = c =>
          Carries(q, turn'[q].whole, got'[q], calls[q], t, u, <<>>, c \in dialed' \ cut')
    BY <1>10
  <2> HIDE DEF c, t, u
  <2>7. WireOk(t, u, <<>>, c \in dialed', c \in ToSet(pool'))
    BY <2>2, <2>3
  <2> QED
    BY <1>8, <1>9, <1>10, <2>1, <2>4, <2>5, <2>6, <2>7, LocalLift
<1> QED
  BY <1>1, <1>12, <1>13

\* The network breaks a connection under a request, or under none.
LEMMA WireCuts ==
  ASSUME NEW t, NEW u, NEW d, NEW open, NEW idle, WireOk(t, u, d, open, idle),
         NEW v, v \in {<<>>, u}, NEW e, e \in {<<>>, d}
  PROVE  WireOk(t, v, e, open, idle)
<1>1. Reads(t, v)
  <2>1. UpChain(<<>>)
    BY DEF UpChain
  <2> QED
    BY <2>1 DEF WireOk, Reads
<1>2. \A tag : Says(e, tag) => Says(d, tag)
  BY SaysNothing
<1>3. ToSet(v) \subseteq ToSet(u)
  BY DEF ToSet
<1> QED
  BY <1>1, <1>2, <1>3 DEF WireOk

\* The same, of what the wires carry.
LEMMA CarriesCuts ==
  ASSUME NEW r, NEW whole, NEW n, NEW g, NEW heard, NEW t, NEW u, NEW d,
         Carries(r, whole, g, n, t, u, d, heard),
         NEW v, v \in {<<>>, u}, NEW e, e \in {<<>>, d}
  PROVE  Carries(r, whole, g, n, t, v, e, FALSE)
<1>1. CarriesUp(r, whole, t, v)
  BY DEF Carries, CarriesUp
<1>2. CarriesDown(r, whole, g, n, e)
  BY CarriesNothing DEF Carries
<1> QED
  BY <1>1, <1>2 DEF Carries

\* The network breaks a connection.
LEMMA CutKeeps ==
  ASSUME TypeOK, Bookkeeping, OneOwner, LinkInv, NEW c \in Conns, Cut(c)
  PROVE  LinkInv'
<1> DEFINE t == task[c]
           u == up[c]
           d == down[c]
           open == c \in dialed
           idle == c \in ToSet(pool)
<1>1. PICK v, e : /\ v \in {<<>>, u} /\ e \in {<<>>, d}
                  /\ up' = [up EXCEPT ![c] = v] /\ down' = [down EXCEPT ![c] = e]
  BY DEF Cut
<1>2. UNCHANGED <<turn, got, pool, dialed, used, task, rstore, calls, paired>>
      /\ cut' = cut \cup {c}
  BY DEF Cut, local, remote
<1>3. t \in Task /\ WireOk(t, u, d, open, idle) /\ task' = [task EXCEPT ![c] = t]
  BY <1>2, ConnFacts
<1>4. ASSUME NEW q \in Requests, turn[q].conn = c
      PROVE  /\ turn[q].whole \in BOOLEAN /\ calls[q] \in Nat
             /\ Carries(q, turn[q].whole, got[q], calls[q], t, u, d, Heard(c))
  BY <1>4, OwnerFacts
<1> HIDE DEF t, u, d, open, idle
<1>5. WireOk(t, v, e, open, idle)
  <2>1. v \in {<<>>, u} /\ e \in {<<>>, d} /\ WireOk(t, u, d, open, idle)
    BY <1>1, <1>3
  <2> QED
    BY <2>1, WireCuts
<1>6. WireOk(t, v, e, c \in dialed', c \in ToSet(pool'))
  BY <1>2, <1>5 DEF open, idle
<1>7. ASSUME NEW q \in Requests, turn'[q].conn = c
      PROVE  Carries(q, turn'[q].whole, got'[q], calls[q], t, v, e, c \in dialed' \ cut')
  <2>1. Carries(q, turn[q].whole, got[q], calls[q], t, v, e, FALSE)
    BY <1>1, <1>2, <1>4, <1>7, CarriesCuts
  <2>2. (c \in dialed' \ cut') = FALSE
    BY <1>2
  <2> QED
    BY <1>2, <2>1, <2>2
<1>8. \A q \in Requests : GotOk(q, turn'[q], got'[q], calls[q])
  BY <1>2 DEF LinkInv, GotInv
<1>9. /\ c \in dialed' <=> used'[c] # 0
      /\ t = task[c] \/ t = NewTask
  BY <1>2 DEF LinkInv, UsedInv, t
<1>10. \A x \in Conns \ {c} : /\ x \in dialed' <=> x \in dialed
                              /\ x \in ToSet(pool') <=> x \in ToSet(pool)
                              /\ x \in cut' <=> x \in cut
                              /\ used'[x] = used[x]
  BY <1>2
<1>11. /\ UNCHANGED <<rstore, calls, paired>>
       /\ \A q \in Requests : turn'[q].conn \notin {None, c} =>
            turn'[q] = turn[q] /\ got'[q] = got[q]
  BY <1>2
<1> QED
  BY <1>1, <1>3, <1>6, <1>7, <1>8, <1>9, <1>10, <1>11, LocalLift

\* The remote process restarts: its tasks are gone, and what they had written is
\* still on its way or lost.
LEMMA RestartKeeps ==
  ASSUME TypeOK, LinkInv, Restart
  PROVE  LinkInv'
<1>1. /\ task' = [c \in Conns |-> Ended] /\ rstore' = {} /\ up' = [c \in Conns |-> <<>>]
      /\ UNCHANGED <<turn, got, pool, dialed, used, cut, calls, paired>>
      /\ \E lost \in SUBSET dialed :
           down' = [c \in Conns |-> IF c \in lost THEN <<>> ELSE down[c]]
  BY DEF Restart, local
<1>2. \A c \in Conns : task'[c] = Ended /\ up'[c] = <<>> /\ down'[c] \in {<<>>, down[c]}
  BY <1>1
<1>3. WireInv'
  <2> SUFFICES ASSUME NEW c \in Conns
               PROVE  WireOk(Ended, <<>>, down'[c], c \in dialed, c \in ToSet(pool))
    BY <1>1, <1>2 DEF WireInv
  <2> DEFINE open == c \in dialed
             idle == c \in ToSet(pool)
             e == down'[c]
             t == task[c]
             u == up[c]
             d == down[c]
  <2>1. WireOk(t, u, d, open, idle) /\ e \in {<<>>, d}
    BY <1>2 DEF LinkInv, WireInv
  <2> HIDE DEF open, idle, e, t, u, d
  <2>2. ~open \/ idle => e \in {<<>>, d}
    BY <2>1
  <2>3. WireOk(Ended, <<>>, e, open, idle)
    BY <2>1, <2>2, WireCloses
  <2> QED
    BY <2>3 DEF open, idle, e
<1>4. CarryInv'
  <2> SUFFICES ASSUME NEW q \in Requests, turn[q].conn # None
               PROVE  Carries(q, turn[q].whole, got[q], calls[q], Ended, <<>>,
                              down'[turn[q].conn], Heard(turn[q].conn))
    <3>1. \A q \in Requests : turn[q].conn \in Conns \cup {None}
      BY DEF TypeOK, TypeLocal, Turn
    <3> QED
      BY <1>1, <1>2, <3>1 DEF CarryInv, Heard
  <2> DEFINE c == turn[q].conn
             e == down'[c]
             heard == Heard(c)
             whole == turn[q].whole
             n == calls[q]
             g == got[q]
  <2>1. c \in Conns
    BY DEF TypeOK, TypeLocal, Turn
  <2>2. whole \in BOOLEAN /\ n \in Nat /\ e \in {<<>>, down[c]}
    BY <1>2, <2>1 DEF TypeOK, TypeLocal, TypeRemote, Turn
  <2>3. CarriesDown(q, whole, g, n, down[c])
    BY DEF LinkInv, CarryInv, Carries
  <2> HIDE DEF e, heard, whole, n, g, c
  <2>4. CarriesDown(q, whole, g, n, e)
    BY <2>2, <2>3, CarriesNothing
  <2>5. Carries(q, whole, g, n, Ended, <<>>, e, heard)
    BY <2>2, <2>4, CarriesCloses
  <2> QED
    BY <2>5 DEF e, heard, whole, n, g, c
<1>5. GotInv' /\ UsedInv'
  BY <1>1 DEF LinkInv, GotInv, UsedInv
<1>6. CallInv' /\ GreetInv'
  BY <1>2, FreshTasks DEF CallInv, GreetInv, Alive
<1>7. StrangerRefused'
  BY <1>1 DEF LinkInv, StrangerRefused
<1> QED
  BY <1>3, <1>4, <1>5, <1>6, <1>7 DEF LinkInv

\* The rest: nothing on the wires, and no turn, is touched.
LEMMA OthersKeep ==
  ASSUME LinkInv,
         \/ \E b \in Blocks : RemoteEvicts(b) \/ LocalEvicts(b)
         \/ \E r \in Requests : AgentHangsUp(r)
         \/ ResetViews \/ ResetBloom \/ ResetLocks \/ ResetStore \/ UNCHANGED vars
  PROVE  LinkInv'
<1>1. UNCHANGED <<turn, got, pool, dialed, used, up, down, cut, task, calls, paired>>
      /\ rstore' \subseteq rstore
  <2>1. CASE UNCHANGED vars
    BY <2>1 DEF vars, local, views, wire, remote, admin
  <2>2. CASE \E b \in Blocks : RemoteEvicts(b) \/ LocalEvicts(b)
    BY <2>2 DEF RemoteEvicts, LocalEvicts, local, views, wire, remote
  <2>3. CASE \E r \in Requests : AgentHangsUp(r)
    BY <2>3 DEF AgentHangsUp, views, wire, remote
  <2>4. CASE ResetViews \/ ResetBloom \/ ResetLocks \/ ResetStore
    BY <2>4 DEF ResetViews, ResetBloom, ResetLocks, ResetStore, local, views, wire, remote
  <2> QED
    BY <2>1, <2>2, <2>3, <2>4
<1> QED
  BY <1>1, Untouched

\* Every step of the link.
LEMMA NextKeepsLink ==
  TypeOK /\ Bookkeeping /\ OneOwner /\ LinkInv /\ [Next]_vars => LinkInv'
<1> SUFFICES ASSUME TypeOK, Bookkeeping, OneOwner, LinkInv, [Next]_vars  PROVE LinkInv'
  OBVIOUS
<1>1. ASSUME NEW r \in Requests, Local(r)  PROVE LinkInv'
  BY <1>1, LocalKeeps
<1>2. ASSUME NEW c \in Conns, Remote(c)  PROVE LinkInv'
  BY <1>2, RemoteKeeps
<1>3. CASE Resetting
  BY <1>3, ResettingConnKeeps, OthersKeep DEF Resetting
<1>4. CASE Environment
  <2>1. ASSUME NEW r \in Requests, DialFails(r)  PROVE LinkInv'
    BY <2>1, PrepareKeeps
  <2>2. ASSUME NEW c \in Conns, Cut(c)  PROVE LinkInv'
    BY <2>2, CutKeeps
  <2>3. ASSUME NEW c \in Conns, UpstreamBreaks(c)  PROVE LinkInv'
    BY <2>3, EofKeeps
  <2>4. CASE Restart
    BY <2>4, RestartKeeps
  <2> QED
    BY <1>4, <2>1, <2>2, <2>3, <2>4, OthersKeep DEF Environment
<1>5. CASE Idle \/ UNCHANGED vars
  BY <1>5, OthersKeep DEF Idle
<1> QED
  BY <1>1, <1>2, <1>3, <1>4, <1>5 DEF Next

\* Before the first step every wire is empty.
LEMMA LinkInvInit == Init => LinkInv
<1> SUFFICES ASSUME Init  PROVE LinkInv
  OBVIOUS
<1>1. /\ \A c \in Conns : task[c] = Ended /\ up[c] = <<>> /\ down[c] = <<>> /\ used[c] = 0
      /\ \A r \in Requests : turn[r] = NewTurn /\ got[r] = <<>> /\ calls[r] = 0
      /\ pool = <<>> /\ dialed = {} /\ rstore = {}
  BY DEF Init
<1>2. ToSet(pool) = {}
  BY <1>1 DEF ToSet
<1>3. WireInv
  <2>1. WireOk(Ended, <<>>, <<>>, FALSE, FALSE)
    BY FreshTasks, SaysNothing DEF WireOk, Reads, UpChain
  <2>2. \A c \in Conns : (c \in dialed) = FALSE /\ (c \in ToSet(pool)) = FALSE
    BY <1>1, <1>2
  <2> QED
    BY <1>1, <2>1, <2>2 DEF WireInv
<1>4. CarryInv /\ GotInv
  BY <1>1 DEF CarryInv, GotInv, GotOk, NewTurn
<1>5. UsedInv /\ CallInv /\ GreetInv /\ StrangerRefused
  BY <1>1, FreshTasks DEF UsedInv, CallInv, GreetInv, StrangerRefused, Alive
<1> QED
  BY <1>3, <1>4, <1>5 DEF LinkInv

-----------------------------------------------------------------------------
(* The theorems. *)

\* What is on the wires of the link is, at any time, what the two ends have still
\* to read of one request and of one answer to it.
THEOREM WiresCarryOneTurn == Spec => []LinkInv
<1>1. TypeOK /\ Bookkeeping /\ OneOwner /\ LinkInv /\ [Next]_vars => LinkInv'
  BY NextKeepsLink
<1> QED
  BY <1>1, LinkInvInit, LinkTypeCorrect, EveryConnHasOneOwner, PTL DEF Spec

\* A pooled connection has nothing of an earlier turn on it (put_conn).
THEOREM PooledConnsAreQuiet == Spec => []PooledIsQuiet
<1>1. TypeOK /\ LinkInv => PooledIsQuiet
  <2> SUFFICES ASSUME TypeOK, LinkInv, NEW c \in ToSet(pool)
               PROVE  /\ down[c] = <<>> /\ ToSet(up[c]) \subseteq {Reset}
                      /\ Alive(c) => task[c] = Blank
    BY DEF PooledIsQuiet, Blank
  <2>1. c \in Conns
    BY DEF TypeOK, TypeLocal, ToSet
  <2>2. WireOk(task[c], up[c], down[c], c \in dialed, c \in ToSet(pool))
    BY <2>1 DEF LinkInv, WireInv
  <2> QED
    BY <2>2 DEF WireOk, Alive
<1> QED
  BY <1>1, WiresCarryOneTurn, LinkTypeCorrect, PTL

\* A complete upload is the body its head declares (the rebuild of remote_end).
THEOREM CompleteUploadsAreIntact == Spec => []NothingForeign
<1>1. TypeOK /\ LinkInv => NothingForeign
  BY CompleteUpload DEF NothingForeign
<1> QED
  BY <1>1, WiresCarryOneTurn, LinkTypeCorrect, PTL

\* An agent gets a prefix of one answer to its own request (local_end, drive).
THEOREM AgentsGetOneAnswer == Spec => []OneAnswer
<1>1. LinkInv => OneAnswer
  BY DEF LinkInv, GotInv, GotOk, OneAnswer
<1> QED
  BY <1>1, WiresCarryOneTurn, PTL

\* A local end that is not paired gets nothing done (the handshake of remote_end).
THEOREM StrangersAreRefused == Spec => []StrangerRefused
<1>1. LinkInv => StrangerRefused
  BY DEF LinkInv
<1> QED
  BY <1>1, WiresCarryOneTurn, PTL
=============================================================================
