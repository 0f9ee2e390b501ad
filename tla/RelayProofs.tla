------------------------------ MODULE RelayProofs ------------------------------
(***************************************************************************)
(* For queues of any capacity and answers of any length: no queue is over  *)
(* its limit, and a turn that ends well has handed over a whole answer.    *)
(*                                                                         *)
(* Every chunk is somewhere on its way, and where it is tells its number:  *)
(* with the agent, in the body, in the hand of local_end, on the link, in  *)
(* the hand of remote_end, in the channel, with pump, or in a frame of the *)
(* upstream API.  The way has two parts.  What has reached the link is in  *)
(* order whatever happens (Near); what has not is in order, and joins on   *)
(* to it, only while the connection is open (Far), and nothing is written  *)
(* to the link when it is not.  The end is written when Far is empty.      *)
(***************************************************************************)
EXTENDS Relay, SequenceTheorems, TLAPS

Frame == [kind : {"head", "chunk", "end", "error"}, n : Nat]

\* The types, and the limits of the queues.
Types ==
  /\ api \in [state : {"asked", "refused", "open", "ended", "broken", "dropped"},
              frames : Seq(Seq(Nat)), sent : Nat, count : Nat]
  /\ pump \in [pc : {"none", "read", "push", "error", "done"}, left : Seq(Nat)]
  /\ task \in [pc : {"send", "head", "relay", "write", "read", "over"}, item : Nat]
  /\ conn \in {"open", "remote", "local", "network"}
  /\ turn \in [pc : {"await", "push", "done", "failed"}, item : Nat]
  /\ agent \in {"waiting", "reading", "ended", "refused", "gone"}
  /\ chan \in Seq(Frame) /\ Len(chan) <= ChanCap
  /\ link \in Seq(Frame) /\ Len(link) <= LinkCap
  /\ body \in Seq(Nat) /\ Len(body) <= BodyCap
  /\ got \in Seq(Nat)

-----------------------------------------------------------------------------
\* What appending does to a queue.
LEMMA Appended ==
  ASSUME NEW T, NEW s \in Seq(T), NEW x \in T
  PROVE  /\ Append(s, x) \in Seq(T) /\ Append(s, x) # <<>>
         /\ Len(Append(s, x)) = Len(s) + 1
         /\ \A i \in 1 .. Len(s) : Append(s, x)[i] = s[i]
         /\ Append(s, x)[Len(s) + 1] = x
  OBVIOUS

\* What taking the first does.
LEMMA Shifted ==
  ASSUME NEW T, NEW s \in Seq(T), s # <<>>
  PROVE  /\ Tail(s) \in Seq(T) /\ Head(s) \in T /\ Head(s) = s[1]
         /\ Len(s) \in Nat \ {0} /\ Len(Tail(s)) = Len(s) - 1
         /\ \A i \in 1 .. Len(s) - 1 : Tail(s)[i] = s[i + 1]
         /\ Len(s) = 1 => Tail(s) = <<>>
<1>1. /\ Tail(s) \in Seq(T) /\ Head(s) \in T /\ Head(s) = s[1]
      /\ Len(s) \in Nat \ {0} /\ Len(Tail(s)) = Len(s) - 1
      /\ \A i \in 1 .. Len(Tail(s)) : Tail(s)[i] = s[i + 1]
  BY HeadTailProperties, EmptySeq
<1>2. Tail(s) # <<>> => Len(Tail(s)) \in Nat \ {0}
  BY <1>1, EmptySeq
<1> QED BY <1>1, <1>2

\* What losing the last does.
LEMMA Shortened ==
  ASSUME NEW T, NEW s \in Seq(T), NEW n \in 0 .. Len(s)
  PROVE  /\ SubSeq(s, 1, n) \in Seq(T) /\ Len(SubSeq(s, 1, n)) = n
         /\ \A i \in 1 .. n : SubSeq(s, 1, n)[i] = s[i]
<1>1. Len(s) \in Nat /\ \A i \in 1 .. n : s[i] \in T
  BY ElementOfSeq, LenProperties
<1> QED BY <1>1, SubSeqProperties

\* The three kinds of what travels.
LEMMA Frames ==
  /\ \A n \in Nat : Chunk(n) \in Frame /\ Chunk(n).kind = "chunk" /\ Chunk(n).n = n
  /\ \A k \in {"head", "end", "error"} : Mark(k) \in Frame /\ Mark(k).kind = k
  BY DEF Frame, Chunk, Mark

\* Capacities are positive.
LEMMA Capacities ==
  ChanCap \in Nat \ {0} /\ LinkCap \in Nat \ {0} /\ BodyCap \in Nat \ {0}
  BY CapAssumption

\* Types are preserved by the upstream API, ...
LEMMA ApiTypes == ASSUME Types, Api PROVE Types'
<1> USE DEF Types
<1>1. UNCHANGED <<pump, chan, task, conn, link, turn, body, agent, got>>
  BY DEF Api, local
<1>2. CASE ApiFrame
  <2>1. PICK n \in 0 .. MaxChunks :
          api' = [api EXCEPT !.count = @ + 1, !.sent = @ + n,
                             !.frames = Append(@, [i \in 1 .. n |-> api.sent + i])]
    BY <1>2 DEF ApiFrame
  <2>2. [i \in 1 .. n |-> api.sent + i] \in Seq(Nat)
    BY IsASeq
  <2>3. Append(api.frames, [i \in 1 .. n |-> api.sent + i]) \in Seq(Seq(Nat))
    BY <2>2, Appended
  <2>4. api.count + 1 \in Nat /\ api.sent + n \in Nat
    OBVIOUS
  <2> QED BY <1>1, <2>1, <2>3, <2>4
<1>3. CASE ApiHead \/ ApiEnds \/ ApiBreaks \/ ApiRefuses
  <2>1. PICK state \in {"open", "ended", "broken", "refused"} : api' = [api EXCEPT !.state = state]
    BY <1>3 DEF ApiHead, ApiEnds, ApiBreaks, ApiRefuses
  <2>2. api' \in [state : {"asked", "refused", "open", "ended", "broken", "dropped"},
                  frames : Seq(Seq(Nat)), sent : Nat, count : Nat]
    BY <2>1
  <2> QED BY <1>1, <2>2
<1> QED BY <1>2, <1>3 DEF Api

\* ... by pump, ...
LEMMA PumpTypes == ASSUME Types, Pump PROVE Types'
<1> USE DEF Types
<1>1. UNCHANGED <<task, conn, link, turn, body, agent, got>>
  BY DEF Pump, local
<1>2. CASE PumpReads
  <2>1. Head(api.frames) \in Seq(Nat) /\ Tail(api.frames) \in Seq(Seq(Nat))
    BY <1>2, Shifted DEF PumpReads
  <2> QED BY <1>1, <1>2, <2>1 DEF PumpReads
<1>3. CASE PumpAtEnd \/ PumpFails \/ PumpTimesOut \/ PumpHasPushed \/ PumpGivesUp
  <2>1. <<>> \in Seq(Nat)
    BY EmptySeq
  <2>2. UNCHANGED chan /\ (UNCHANGED api \/ api' = [api EXCEPT !.state = "dropped"])
    <3>1. CASE PumpAtEnd \/ PumpFails \/ PumpHasPushed
      BY <3>1 DEF PumpAtEnd, PumpFails, PumpHasPushed
    <3>2. CASE PumpTimesOut \/ PumpGivesUp
      BY <3>2 DEF PumpTimesOut, PumpGivesUp
    <3> QED BY <1>3, <3>1, <3>2
  <2>3. \/ pump' = [pc |-> "done", left |-> <<>>]
        \/ \E pc \in {"done", "error", "read"} : pump' = [pump EXCEPT !.pc = pc]
    BY <1>3 DEF PumpAtEnd, PumpFails, PumpTimesOut, PumpHasPushed, PumpGivesUp
  <2>4. pump' \in [pc : {"none", "read", "push", "error", "done"}, left : Seq(Nat)]
    <3>1. CASE pump' = [pc |-> "done", left |-> <<>>]
      BY <2>1, <3>1
    <3>2. ASSUME NEW pc \in {"done", "error", "read"}, pump' = [pump EXCEPT !.pc = pc]
          PROVE  pump' \in [pc : {"none", "read", "push", "error", "done"}, left : Seq(Nat)]
      BY <3>2
    <3> QED BY <2>3, <3>1, <3>2
  <2> QED BY <1>1, <2>2, <2>4
<1>4. CASE PumpPushes
  <2>1. Head(pump.left) \in Nat /\ Tail(pump.left) \in Seq(Nat)
    BY <1>4, Shifted DEF PumpPushes
  <2>2. Append(chan, Chunk(Head(pump.left))) \in Seq(Frame)
        /\ Len(Append(chan, Chunk(Head(pump.left)))) = Len(chan) + 1
    BY <2>1, Frames, Appended
  <2>3. Len(chan) + 1 <= ChanCap
    BY <1>4, Capacities, LenProperties DEF PumpPushes, Full
  <2> QED BY <1>1, <1>4, <2>1, <2>2, <2>3 DEF PumpPushes
<1>5. CASE PumpPushesError
  <2>1. Append(chan, Mark("error")) \in Seq(Frame)
        /\ Len(Append(chan, Mark("error"))) = Len(chan) + 1
    BY Frames, Appended
  <2>2. Len(chan) + 1 <= ChanCap
    BY <1>5, Capacities, LenProperties DEF PumpPushesError, Full
  <2> QED BY <1>1, <1>5, <2>1, <2>2 DEF PumpPushesError
<1> QED BY <1>2, <1>3, <1>4, <1>5 DEF Pump

\* ... by what is written to the link, ...
LEMMA WriteTypes ==
  ASSUME Types, NEW frame \in Frame,
         NEW next \in [pc : {"send", "head", "relay", "write", "read", "over"}, item : Nat],
         Write(frame, next)
  PROVE  /\ task' \in [pc : {"send", "head", "relay", "write", "read", "over"}, item : Nat]
         /\ conn' = conn /\ link' \in Seq(Frame) /\ Len(link') <= LinkCap
<1> USE DEF Types
<1>1. CASE conn = "open" /\ Len(link) < LinkCap /\ link' = Append(link, frame)
           /\ task' = next /\ UNCHANGED conn
  <2>1. Append(link, frame) \in Seq(Frame) /\ Len(Append(link, frame)) = Len(link) + 1
    BY Appended
  <2>2. Len(link) + 1 <= LinkCap
    BY <1>1, Capacities, LenProperties
  <2> QED BY <1>1, <2>1, <2>2
<1>2. CASE task' \in {next, At("over", 0)} /\ UNCHANGED <<conn, link>>
  BY <1>2 DEF At
<1> QED BY <1>1, <1>2 DEF Write

\* ... by remote_end, ...
LEMMA RemoteTypes == ASSUME Types, Remote PROVE Types'
<1> USE DEF Types
<1>1. UNCHANGED <<turn, body, agent, got>>
  BY DEF Remote, local
<1>2. CASE RemoteSends \/ RemoteEof
  <2>1. \E pc \in {"head", "over"} : task' = [pc |-> pc, item |-> 0]
    BY <1>2 DEF RemoteSends, RemoteEof, At
  <2>2. UNCHANGED <<api, chan, conn, link>>
        /\ (UNCHANGED pump \/ pump' = [pump EXCEPT !.pc = "read"])
    BY <1>2 DEF RemoteSends, RemoteEof, upstream
  <2>3. pump' \in [pc : {"none", "read", "push", "error", "done"}, left : Seq(Nat)]
    BY <2>2
  <2>4. task' \in [pc : {"send", "head", "relay", "write", "read", "over"}, item : Nat]
    BY <2>1
  <2> QED BY <1>1, <2>2, <2>3, <2>4
<1>3. CASE RemoteMakes502
  <2>1. <<Chunk(0)>> \in Seq(Frame) /\ Len(<<Chunk(0)>>) = 1
    BY Frames
  <2>2. /\ api' = [api EXCEPT !.state = "dropped"] /\ pump' = [pump EXCEPT !.pc = "done"]
        /\ task' = [pc |-> "head", item |-> 0] /\ chan' = <<Chunk(0)>>
        /\ UNCHANGED <<conn, link>>
    BY <1>3 DEF RemoteMakes502, At
  <2>3. 1 <= ChanCap
    BY Capacities
  <2>4. api' \in [state : {"asked", "refused", "open", "ended", "broken", "dropped"},
                  frames : Seq(Seq(Nat)), sent : Nat, count : Nat]
        /\ pump' \in [pc : {"none", "read", "push", "error", "done"}, left : Seq(Nat)]
    BY <2>2
  <2> QED BY <1>1, <2>1, <2>2, <2>3, <2>4
<1>4. CASE RemoteHead \/ RemoteWrites \/ RemoteFinishes
  <2>1. UNCHANGED <<api, pump, chan>>
    BY <1>4 DEF RemoteHead, RemoteWrites, RemoteFinishes, upstream
  <2>2. PICK frame \in Frame,
             next \in [pc : {"send", "head", "relay", "write", "read", "over"}, item : Nat] :
          Write(frame, next)
    <3>1. CASE RemoteHead
      BY <3>1, Frames DEF RemoteHead, At
    <3>2. CASE RemoteWrites
      BY <3>2, Frames DEF RemoteWrites, At
    <3>3. CASE RemoteFinishes
      BY <3>3, Frames DEF RemoteFinishes, At
    <3> QED BY <1>4, <3>1, <3>2, <3>3
  <2> QED BY <1>1, <2>1, <2>2, WriteTypes
<1>5. CASE RemoteTakes
  <2>1. /\ Tail(chan) \in Seq(Frame) /\ Len(Tail(chan)) <= ChanCap
        /\ Head(chan).n \in Nat
    <3>1. Head(chan) \in Frame
      BY <1>5, Shifted DEF RemoteTakes
    <3> QED BY <1>5, <3>1, Shifted, Capacities DEF RemoteTakes, Frame
  <2> QED BY <1>1, <1>5, <2>1 DEF RemoteTakes, At
<1> QED BY <1>2, <1>3, <1>4, <1>5 DEF Remote

\* ... and by local_end, the agent and the network.
LEMMA LocalTypes == ASSUME Types, Local PROVE Types'
<1> USE DEF Types
<1>1. UNCHANGED <<api, pump, chan, task>>
  BY DEF Local, upstream
<1>2. ASSUME link # <<>>
      PROVE  Tail(link) \in Seq(Frame) /\ Len(Tail(link)) <= LinkCap /\ Head(link).n \in Nat
  <2>1. Head(link) \in Frame
    BY <1>2, Shifted
  <2> QED BY <1>2, <2>1, Shifted, Capacities DEF Frame
<1>3. ASSUME Fail
      PROVE  /\ turn' \in [pc : {"await", "push", "done", "failed"}, item : Nat]
             /\ conn' \in {"open", "remote", "local", "network"}
             /\ link' \in Seq(Frame) /\ Len(link') <= LinkCap
  BY <1>3, EmptySeq, Capacities DEF Fail, At
<1>4. CASE LocalHead
  BY <1>1, <1>2, <1>3, <1>4 DEF LocalHead
<1>5. CASE LocalBody \/ LocalEnd
  <2>1. link # <<>> /\ link' = Tail(link) /\ UNCHANGED <<conn, body, agent, got>>
    BY <1>5 DEF LocalBody, LocalEnd
  <2>2. \/ turn' = [pc |-> "push", item |-> Head(link).n]
        \/ turn' = [pc |-> "done", item |-> 0]
    BY <1>5 DEF LocalBody, LocalEnd, At
  <2>3. turn' \in [pc : {"await", "push", "done", "failed"}, item : Nat]
    BY <1>2, <2>1, <2>2
  <2> QED BY <1>1, <1>2, <2>1, <2>3
<1>6. CASE LocalPushes
  <2>1. CASE Fail /\ UNCHANGED body
    BY <1>1, <1>3, <1>6, <2>1 DEF LocalPushes
  <2>2. CASE Len(body) < BodyCap /\ body' = Append(body, turn.item)
             /\ turn' = At("await", 0) /\ UNCHANGED <<conn, link>>
    <3>1. Append(body, turn.item) \in Seq(Nat)
          /\ Len(Append(body, turn.item)) = Len(body) + 1
      BY Appended
    <3>2. Len(body) + 1 <= BodyCap
      BY <2>2, Capacities, LenProperties
    <3> QED BY <1>1, <1>6, <2>2, <3>1, <3>2 DEF LocalPushes, At
  <2> QED BY <1>6, <2>1, <2>2 DEF LocalPushes
<1>7. CASE LocalEof
  BY <1>1, <1>3, <1>7 DEF LocalEof
<1> QED BY <1>4, <1>5, <1>6, <1>7 DEF Local

LEMMA AgentTypes == ASSUME Types, Agent \/ AgentHangsUp \/ LinkBreaks PROVE Types'
<1> USE DEF Types
<1>1. CASE AgentReads /\ UNCHANGED <<upstream, task, conn, link>>
  <2>1. Tail(body) \in Seq(Nat) /\ Head(body) \in Nat /\ Len(Tail(body)) = Len(body) - 1
    BY <1>1, Shifted DEF AgentReads
  <2>2. Append(got, Head(body)) \in Seq(Nat)
    BY <2>1, Appended
  <2>3. Len(body) - 1 <= BodyCap
    BY Capacities, LenProperties
  <2> QED BY <1>1, <2>1, <2>2, <2>3 DEF AgentReads, upstream
<1>2. CASE AgentAtEnd /\ UNCHANGED <<upstream, task, conn, link>>
  BY <1>2 DEF AgentAtEnd, upstream
<1>3. CASE AgentHangsUp
  BY <1>3, EmptySeq, Capacities DEF AgentHangsUp, upstream
<1>4. CASE LinkBreaks
  <2>1. PICK n \in 0 .. Len(link) : link' = SubSeq(link, 1, n)
    BY <1>4 DEF LinkBreaks
  <2>2. link' \in Seq(Frame) /\ Len(link') <= LinkCap
    BY <2>1, Shortened, LenProperties, Capacities
  <2> QED BY <1>4, <2>2 DEF LinkBreaks, upstream, local
<1> QED BY <1>1, <1>2, <1>3, <1>4 DEF Agent

LEMMA TypesStep == ASSUME Types, [Next]_vars PROVE Types'
<1>1. ASSUME UNCHANGED vars PROVE Types'
  BY <1>1 DEF vars, upstream, local, Types
<1> QED BY <1>1, ApiTypes, PumpTypes, RemoteTypes, LocalTypes, AgentTypes DEF Next, Idle

LEMMA TypesInit == ASSUME Init PROVE Types
  BY EmptySeq, Capacities DEF Init, Types, At

-----------------------------------------------------------------------------
(* Where the chunks are                                                     *)

One(b) == IF b THEN 1 ELSE 0

\* Whether the first on the link is the head, and the last the end.
Heads == One(link # <<>> /\ link[1].kind = "head")
Ends  == One(link # <<>> /\ link[Len(link)].kind = "end")

\* How many chunks have come to local_end, to the link, to remote_end.
Passed  == Len(got) + Len(body) + One(turn.pc = "push")
Carried == Passed + Len(link) - Heads - Ends
Taken   == Carried + One(task.pc = "write")

\* The chunks that have come to the link, in order.  The first is number 1 - off: off
\* is 1 for the answer made of an upstream error, whose only chunk is number 0.
Near(off) ==
  /\ \A i \in 1 .. Len(got) : got[i] = i - off
  /\ \A i \in 1 .. Len(body) : body[i] = Len(got) + i - off
  /\ turn.pc = "push" => turn.item = Passed - off
  /\ \A i \in 1 .. Len(link) :
       /\ link[i].kind # "error"
       /\ link[i].kind = "head" => i = 1 /\ Passed = 0
       /\ link[i].kind = "chunk" => link[i].n = Passed + i - Heads - off
       /\ link[i].kind = "end" => i = Len(link)

\* When the end has come to the link, or the turn is done, there are no others.
Whole(off) ==
  Ends = 1 \/ turn.pc = "done" =>
    /\ task.pc \in {"read", "over"} /\ pump.pc = "done"
    /\ turn.pc = "done" => link = <<>>
    /\ off = 0 => api.state = "ended" /\ Carried = api.sent
    /\ off = 1 => api.state = "dropped" /\ Carried = 1

\* The frames begin after chunk p, join on to each other, and end with chunk q.
Joined(frames, p, q) ==
  \E st \in [1 .. Len(frames) + 1 -> Int] :
    /\ st[1] = p /\ st[Len(frames) + 1] = q
    /\ \A j \in 1 .. Len(frames) :
         /\ Len(frames[j]) = st[j + 1] - st[j]
         /\ \A i \in 1 .. Len(frames[j]) : frames[j][i] = st[j] + i

Broken == chan # <<>> /\ chan[Len(chan)].kind = "error"

\* The answer of the upstream API as far as it has not come to remote_end.
FarUpstream ==
  /\ task.pc = "send" => pump.pc = "none" /\ chan = <<>>
  /\ pump.pc \in {"none", "read", "error"} => pump.left = <<>>
  /\ \A i \in 1 .. Len(pump.left) : pump.left[i] = Taken + Len(chan) + i
  /\ pump.pc \in {"none", "read", "push"} =>
       Joined(api.frames, Taken + Len(chan) + Len(pump.left), api.sent)
  /\ pump.pc = "done" => Broken \/ (api.state = "ended" /\ Taken + Len(chan) = api.sent)

\* Likewise the answer made of an error.
Far502 ==
  /\ task.pc # "send" /\ pump.pc = "done" /\ api.state = "dropped"
  /\ Taken + Len(chan) = 1 /\ ~Broken

\* The chunks that have not come to the link.
Far(off) ==
  /\ task.pc # "over"
  /\ task.pc \in {"send", "head"} => link = <<>> /\ Passed = 0
  /\ task.pc = "write" => task.item = Taken - off
  /\ \A i \in 1 .. Len(chan) :
       /\ chan[i].kind = "chunk" => chan[i].n = Taken + i - off
       /\ chan[i].kind # "chunk" => chan[i].kind = "error" /\ i = Len(chan) /\ pump.pc = "done"
  /\ off = 0 => FarUpstream
  /\ off = 1 => Far502

InPlace(off) == Near(off) /\ Whole(off) /\ (conn = "open" => Far(off))
InOrder      == agent = "gone" \/ \E off \in {0, 1} : InPlace(off)

-----------------------------------------------------------------------------
(* Frames that join on                                                      *)

\* One more frame, with the next chunks.
LEMMA JoinedExtends ==
  ASSUME NEW frames \in Seq(Seq(Nat)), NEW p \in Int, NEW q \in Int, NEW n \in Nat,
         Joined(frames, p, q)
  PROVE  Joined(Append(frames, [i \in 1 .. n |-> q + i]), p, q + n)
<1> DEFINE frame == [i \in 1 .. n |-> q + i]
           more  == Append(frames, frame)
           len   == Len(frames)
<1>1. len \in Nat /\ Len(more) = len + 1 /\ more[len + 1] = frame
      /\ \A j \in 1 .. len : more[j] = frames[j]
  BY LenProperties, AppendProperties
<1>2. Len(frame) = n
  BY IsASeq
<1>3. PICK st \in [1 .. len + 1 -> Int] :
        /\ st[1] = p /\ st[len + 1] = q
        /\ \A j \in 1 .. len : /\ Len(frames[j]) = st[j + 1] - st[j]
                               /\ \A i \in 1 .. Len(frames[j]) : frames[j][i] = st[j] + i
  BY DEF Joined
<1> DEFINE st2 == [j \in 1 .. (len + 1) + 1 |-> IF j = len + 2 THEN q + n ELSE st[j]]
<1>4. st2 \in [1 .. (len + 1) + 1 -> Int] /\ st2[1] = p /\ st2[(len + 1) + 1] = q + n
      /\ \A j \in 1 .. len + 1 : st2[j] = st[j]
  BY <1>1, <1>3
<1>5. ASSUME NEW j \in 1 .. len + 1
      PROVE  /\ Len(more[j]) = st2[j + 1] - st2[j]
             /\ \A i \in 1 .. Len(more[j]) : more[j][i] = st2[j] + i
  <2>1. CASE j = len + 1
    BY <1>1, <1>2, <1>3, <1>4, <2>1
  <2>2. CASE j # len + 1
    <3>1. j \in 1 .. len /\ j + 1 \in 1 .. len + 1
      BY <1>1, <1>5, <2>2
    <3> QED BY <1>1, <1>3, <1>4, <3>1
  <2> QED BY <2>1, <2>2
<1> HIDE DEF st2, more
<1>6. Joined(more, p, q + n)
  <2>1. /\ st2 \in [1 .. Len(more) + 1 -> Int] /\ st2[1] = p /\ st2[Len(more) + 1] = q + n
        /\ \A j \in 1 .. Len(more) :
             /\ Len(more[j]) = st2[j + 1] - st2[j]
             /\ \A i \in 1 .. Len(more[j]) : more[j][i] = st2[j] + i
    <3>1. Len(more) = len + 1
      BY <1>1
    <3> QED BY <1>4, <1>5, <3>1
  <2> QED BY <2>1 DEF Joined
<1> QED BY <1>6 DEF more

\* The first frame taken.
LEMMA JoinedShifts ==
  ASSUME NEW frames \in Seq(Seq(Nat)), NEW p \in Int, NEW q \in Int,
         Joined(frames, p, q), frames # <<>>
  PROVE  /\ \A i \in 1 .. Len(Head(frames)) : Head(frames)[i] = p + i
         /\ Joined(Tail(frames), p + Len(Head(frames)), q)
<1> DEFINE rest == Tail(frames)
           len  == Len(frames)
<1>1. /\ len \in Nat \ {0} /\ Len(rest) = len - 1 /\ Head(frames) = frames[1]
      /\ \A j \in 1 .. len - 1 : rest[j] = frames[j + 1]
  BY Shifted
<1>2. PICK st \in [1 .. len + 1 -> Int] :
        /\ st[1] = p /\ st[len + 1] = q
        /\ \A j \in 1 .. len : /\ Len(frames[j]) = st[j + 1] - st[j]
                               /\ \A i \in 1 .. Len(frames[j]) : frames[j][i] = st[j] + i
  BY DEF Joined
<1>3. 1 \in 1 .. len /\ st[2] = p + Len(frames[1])
  <2>1. 1 \in 1 .. len /\ 1 \in 1 .. len + 1 /\ 2 \in 1 .. len + 1
    BY <1>1
  <2>2. Len(frames[1]) = st[1 + 1] - st[1]
    BY <1>2, <2>1
  <2>3. st[1] \in Int /\ st[2] \in Int /\ st[1] = p
    BY <1>2, <2>1
  <2>4. Len(frames[1]) = st[2] - st[1]
    BY <2>2
  <2>5. ASSUME NEW x \in Int, NEW y, y = x - p PROVE x = p + y
    BY <2>5
  <2> QED BY <2>1, <2>3, <2>4, <2>5
<1> DEFINE st2 == [j \in 1 .. (len - 1) + 1 |-> st[j + 1]]
<1>4. st2 \in [1 .. (len - 1) + 1 -> Int] /\ st2[1] = st[2] /\ st2[(len - 1) + 1] = q
      /\ \A j \in 1 .. len : st2[j] = st[j + 1]
  BY <1>1, <1>2
<1>5. ASSUME NEW j \in 1 .. len - 1
      PROVE  /\ Len(rest[j]) = st2[j + 1] - st2[j]
             /\ \A i \in 1 .. Len(rest[j]) : rest[j][i] = st2[j] + i
  <2>1. j \in 1 .. len /\ j + 1 \in 1 .. len
    BY <1>1, <1>5
  <2> QED BY <1>1, <1>2, <1>4, <1>5, <2>1
<1> HIDE DEF st2, rest
<1>6. Joined(rest, st[2], q)
  <2>1. /\ st2 \in [1 .. Len(rest) + 1 -> Int] /\ st2[1] = st[2] /\ st2[Len(rest) + 1] = q
        /\ \A j \in 1 .. Len(rest) :
             /\ Len(rest[j]) = st2[j + 1] - st2[j]
             /\ \A i \in 1 .. Len(rest[j]) : rest[j][i] = st2[j] + i
    <3>1. Len(rest) = len - 1
      BY <1>1
    <3> QED BY <1>4, <1>5, <3>1
  <2> QED BY <2>1 DEF Joined
<1> QED BY <1>1, <1>2, <1>3, <1>6 DEF rest

\* No frame left.
LEMMA JoinedEmpty == ASSUME NEW p \in Int, NEW q \in Int, Joined(<<>>, p, q) PROVE p = q
  BY DEF Joined

-----------------------------------------------------------------------------
(* What the counts are                                                      *)

LEMMA Counts ==
  ASSUME Types
  PROVE  /\ Heads \in {0, 1} /\ Ends \in {0, 1} /\ Passed \in Nat
         /\ Carried \in Int /\ Taken \in Int
         /\ Len(link) \in Nat /\ Len(chan) \in Nat /\ Len(body) \in Nat /\ Len(got) \in Nat
         /\ Len(pump.left) \in Nat
         /\ link = <<>> => Heads = 0 /\ Ends = 0 /\ Carried = Passed
<1>1. /\ Len(link) \in Nat /\ Len(chan) \in Nat /\ Len(body) \in Nat /\ Len(got) \in Nat
      /\ Len(pump.left) \in Nat /\ (link = <<>> => Len(link) = 0)
  BY LenProperties DEF Types
<1>2. \A b : One(b) \in {0, 1}
  BY DEF One
<1>3. link = <<>> => Heads = 0 /\ Ends = 0
  BY DEF Heads, Ends, One
<1>4. Heads \in {0, 1} /\ Ends \in {0, 1}
  BY DEF Heads, Ends, One
<1>5. Passed \in Nat
  BY <1>1, <1>2 DEF Passed
<1> QED BY <1>1, <1>2, <1>3, <1>4, <1>5 DEF Carried, Taken

\* What has not come to the link does not change while local_end and the agent hand on
\* what has.
LEMMA FarStays ==
  ASSUME NEW off \in {0, 1}, Far(off), Carried' = Carried,
         UNCHANGED <<api, pump, chan, task>>,
         link = <<>> /\ Passed = 0 => link' = <<>> /\ Passed' = 0
  PROVE  Far(off)'
<1>1. Taken' = Taken
  BY DEF Taken, One
<1>2. FarUpstream => FarUpstream'
  BY <1>1 DEF FarUpstream, Broken
<1>3. Far502 => Far502'
  BY <1>1 DEF Far502, Broken
<1> QED BY <1>1, <1>2, <1>3 DEF Far

\* Nor does what has come to it while the others work.
LEMMA NearStays ==
  ASSUME NEW off \in {0, 1}, Near(off), UNCHANGED <<link, turn, body, got>>
  PROVE  Near(off)' /\ Carried' = Carried /\ Passed' = Passed /\ Heads' = Heads /\ Ends' = Ends
  BY DEF Near, Carried, Passed, Heads, Ends, One

\* What is known when local_end takes the first from the link.
LEMMA LinkShifts ==
  ASSUME Types, NEW off \in {0, 1}, Near(off), link # <<>>, link' = Tail(link)
  PROVE  /\ Head(link) = link[1] /\ link[1] \in Frame
         /\ Len(link) \in Nat \ {0} /\ Len(link') = Len(link) - 1
         /\ \A i \in 1 .. Len(link') : i + 1 \in 1 .. Len(link) /\ link'[i] = link[i + 1]
         /\ Len(link) = 1 => link' = <<>>
         /\ Heads' = 0 /\ Ends' = (IF Len(link) = 1 THEN 0 ELSE Ends)
         /\ Heads = (IF link[1].kind = "head" THEN 1 ELSE 0)
<1>1. /\ link' \in Seq(Frame) /\ Head(link) \in Frame /\ Head(link) = link[1]
      /\ Len(link) \in Nat \ {0} /\ Len(link') = Len(link) - 1
      /\ \A i \in 1 .. Len(link) - 1 : link'[i] = link[i + 1]
      /\ Len(link) = 1 => link' = <<>>
  BY Shifted DEF Types
<1>2. link' # <<>> => Len(link') \in Nat \ {0}
  BY <1>1, EmptySeq
<1>3. \A i \in 1 .. Len(link') : i + 1 \in 1 .. Len(link) /\ link'[i] = link[i + 1]
  BY <1>1
<1>4. Heads' = 0
  <2>1. ASSUME link' # <<>> PROVE 2 \in 1 .. Len(link) /\ link'[1] = link[2]
    BY <1>1, <1>2, <2>1
  <2>2. link' # <<>> => link'[1].kind # "head"
    BY <2>1 DEF Near
  <2> QED BY <2>2 DEF Heads, One
<1>5. Ends' = (IF Len(link) = 1 THEN 0 ELSE Ends)
  <2>1. CASE Len(link) = 1
    BY <1>1, <2>1 DEF Ends, One
  <2>2. CASE Len(link) # 1
    <3>1. Len(link') \in 1 .. Len(link') /\ Len(link') + 1 = Len(link)
      BY <1>1, <2>2
    <3>2. link'[Len(link')] = link[Len(link)]
      BY <1>3, <3>1
    <3>3. link' # <<>>
      <4>1. Len(<<>>) = 0 /\ Len(link') # 0
        BY <1>1, <2>2
      <4> QED BY <4>1
    <3> QED BY <2>2, <3>2, <3>3 DEF Ends, One
  <2> QED BY <2>1, <2>2
<1> QED BY <1>1, <1>3, <1>4, <1>5 DEF Heads, One

\* What has come to the link stays in order while local_end and the agent hand it on:
\* the head is taken, ...
LEMMA HeadInOrder ==
  ASSUME Types, NEW off \in {0, 1}, InPlace(off), LocalHead, agent # "gone",
         UNCHANGED <<upstream, task>>
  PROVE  InPlace(off)'
<1>1. /\ turn.pc = "await" /\ link # <<>> /\ Head(link).kind = "head"
      /\ link' = Tail(link) /\ UNCHANGED <<turn, conn, body, got, api, pump, chan, task>>
  BY DEF LocalHead, upstream
<1>2. Near(off)
  BY DEF InPlace
<1>3. /\ Len(link) \in Nat \ {0} /\ Len(link') = Len(link) - 1 /\ link[1].kind = "head"
      /\ Heads = 1 /\ Heads' = 0 /\ Ends' = Ends
      /\ \A i \in 1 .. Len(link') : i + 1 \in 1 .. Len(link) /\ link'[i] = link[i + 1]
  <2>1. Len(link) = 1 => Ends = 0
    BY <1>1, <1>2, LinkShifts DEF Ends, One
  <2> QED BY <1>1, <1>2, <2>1, LinkShifts
<1>4. Passed = 0
  <2>1. 1 \in 1 .. Len(link)
    BY <1>3
  <2> QED BY <1>2, <1>3, <2>1 DEF Near
<1>5. Passed' = 0
  <2>1. Passed' = Passed
    BY <1>1 DEF Passed, One
  <2> QED BY <1>4, <2>1
<1>6. Carried' = Carried
  BY <1>3, <1>4, <1>5, Counts DEF Carried
<1>7. Near(off)'
  <2>1. ASSUME NEW i \in 1 .. Len(link')
        PROVE  /\ link'[i].kind # "error"
               /\ link'[i].kind = "head" => i = 1 /\ Passed' = 0
               /\ link'[i].kind = "chunk" => link'[i].n = Passed' + i - Heads' - off
               /\ link'[i].kind = "end" => i = Len(link')
    <3>1. i + 1 \in 1 .. Len(link) /\ i + 1 # 1 /\ link'[i] = link[i + 1] /\ i \in Nat
      BY <1>3, <2>1
    <3> QED BY <1>2, <1>3, <1>4, <1>5, <3>1 DEF Near
  <2> QED BY <1>1, <1>2, <1>4, <1>5, <2>1 DEF Near
<1>8. Whole(off)'
  BY <1>1, <1>3, <1>6 DEF InPlace, Whole
<1>9. conn' = "open" => Far(off)'
  BY <1>1, <1>6, FarStays DEF InPlace
<1> QED BY <1>7, <1>8, <1>9 DEF InPlace

\* ... a chunk is taken, ...
LEMMA BodyInOrder ==
  ASSUME Types, NEW off \in {0, 1}, InPlace(off), LocalBody, UNCHANGED <<upstream, task>>
  PROVE  InPlace(off)'
<1>1. /\ turn.pc = "await" /\ link # <<>> /\ Head(link).kind = "chunk"
      /\ turn' = At("push", Head(link).n)
      /\ link' = Tail(link) /\ UNCHANGED <<conn, body, got, api, pump, chan, task>>
  BY DEF LocalBody, upstream
<1>2. Near(off)
  BY DEF InPlace
<1>3. /\ Len(link) \in Nat \ {0} /\ Len(link') = Len(link) - 1 /\ link[1].kind = "chunk"
      /\ Head(link) = link[1] /\ Heads = 0 /\ Heads' = 0 /\ Ends' = Ends
      /\ \A i \in 1 .. Len(link') : i + 1 \in 1 .. Len(link) /\ link'[i] = link[i + 1]
  <2>1. Len(link) = 1 => Ends = 0
    BY <1>1, <1>2, LinkShifts DEF Ends, One
  <2> QED BY <1>1, <1>2, <2>1, LinkShifts
<1>4. Passed \in Nat /\ Passed' = Passed + 1
  <2>1. Passed = Len(got) + Len(body) /\ Passed' = Len(got) + Len(body) + 1
    BY <1>1, Counts DEF Passed, One, At
  <2> QED BY <2>1, Counts
<1>5. link[1].n = Passed + 1 - off
  <2>1. 1 \in 1 .. Len(link)
    BY <1>3
  <2> QED BY <1>2, <1>3, <1>4, <2>1 DEF Near
<1>6. Carried' = Carried
  <2>1. Ends \in {0, 1}
    BY Counts
  <2>2. Carried = Passed + Len(link) - 0 - Ends
        /\ Carried' = (Passed + 1) + (Len(link) - 1) - 0 - Ends
    BY <1>3, <1>4 DEF Carried
  <2> QED BY <1>3, <1>4, <2>1, <2>2
<1>7. Near(off)'
  <2>1. ASSUME NEW i \in 1 .. Len(link')
        PROVE  /\ link'[i].kind # "error"
               /\ link'[i].kind = "head" => i = 1 /\ Passed' = 0
               /\ link'[i].kind = "chunk" => link'[i].n = Passed' + i - Heads' - off
               /\ link'[i].kind = "end" => i = Len(link')
    <3>1. i + 1 \in 1 .. Len(link) /\ i + 1 # 1 /\ link'[i] = link[i + 1] /\ i \in Nat
      BY <1>3, <2>1
    <3>2. /\ link[i + 1].kind # "error" /\ link[i + 1].kind # "head"
          /\ link[i + 1].kind = "chunk" => link[i + 1].n = Passed + (i + 1) - Heads - off
          /\ link[i + 1].kind = "end" => i + 1 = Len(link)
      BY <1>2, <3>1 DEF Near
    <3>3. /\ link'[i].kind = "chunk" => link'[i].n = Passed + (i + 1) - 0 - off
          /\ Passed + (i + 1) - 0 - off = (Passed + 1) + i - 0 - off
      BY <1>3, <1>4, <3>1, <3>2
    <3>4. i + 1 = Len(link) => i = Len(link')
      BY <1>3, <3>1
    <3> QED BY <1>3, <1>4, <3>1, <3>2, <3>3, <3>4
  <2>2. turn'.item = Passed' - off
    BY <1>1, <1>3, <1>4, <1>5 DEF At
  <2> QED BY <1>1, <1>2, <2>1, <2>2 DEF Near
<1>8. Whole(off)'
  BY <1>1, <1>3, <1>6 DEF InPlace, Whole, At
<1>9. conn' = "open" => Far(off)'
  BY <1>1, <1>6, FarStays DEF InPlace
<1> QED BY <1>7, <1>8, <1>9 DEF InPlace

\* ... the end is taken, when all chunks have been, ...
LEMMA EndInOrder ==
  ASSUME Types, NEW off \in {0, 1}, InPlace(off), LocalEnd, UNCHANGED <<upstream, task>>
  PROVE  InPlace(off)'
<1>1. /\ turn.pc = "await" /\ link # <<>> /\ Head(link).kind = "end"
      /\ turn' = At("done", 0)
      /\ link' = Tail(link) /\ UNCHANGED <<conn, body, got, api, pump, chan, task>>
  BY DEF LocalEnd, upstream
<1>2. Near(off)
  BY DEF InPlace
<1>3. Head(link) = link[1] /\ Len(link) \in Nat \ {0} /\ Heads = 0
  BY <1>1, <1>2, LinkShifts
<1>4. Len(link) = 1
  <2>1. 1 \in 1 .. Len(link)
    BY <1>3
  <2> QED BY <1>1, <1>2, <1>3, <2>1 DEF Near
<1>5. link' = <<>> /\ Len(link') = 0
  BY <1>1, <1>2, <1>4, LinkShifts
<1>6. Ends = 1 /\ Ends' = 0 /\ Heads' = 0
  BY <1>1, <1>3, <1>4, <1>5 DEF Ends, Heads, One
<1>7. Passed \in Nat /\ Passed' = Passed
  <2>1. Passed' = Passed
    BY <1>1 DEF Passed, One, At
  <2> QED BY <2>1, Counts
<1>8. Carried' = Carried
  BY <1>3, <1>4, <1>5, <1>6, <1>7 DEF Carried
<1>9. Near(off)'
  BY <1>1, <1>2, <1>5 DEF Near, At
<1>10. Whole(off)'
  BY <1>1, <1>5, <1>6, <1>8 DEF InPlace, Whole, At
<1>11. conn' = "open" => Far(off)'
  BY <1>1, <1>8, FarStays DEF InPlace
<1> QED BY <1>9, <1>10, <1>11 DEF InPlace

\* ... what does not touch the link moves a chunk on or nothing at all, ...
LEMMA RestInOrder ==
  ASSUME Types, NEW off \in {0, 1}, InPlace(off), Near(off)', Passed' = Passed,
         UNCHANGED <<api, pump, chan, task, conn, link>>,
         turn'.pc = "done" => turn.pc = "done"
  PROVE  InPlace(off)'
<1>1. Heads' = Heads /\ Ends' = Ends
  BY DEF Heads, Ends, One
<1>2. Carried' = Carried
  BY <1>1 DEF Carried
<1>3. Whole(off)'
  BY <1>1, <1>2 DEF InPlace, Whole
<1>4. conn' = "open" => Far(off)'
  BY <1>2, FarStays DEF InPlace
<1> QED BY <1>3, <1>4 DEF InPlace

LEMMA PushInOrder ==
  ASSUME Types, NEW off \in {0, 1}, InPlace(off), LocalPushes, agent # "gone",
         UNCHANGED <<upstream, task>>
  PROVE  InPlace(off)'
<1>1. /\ turn.pc = "push" /\ turn' = At("await", 0) /\ body' = Append(body, turn.item)
      /\ UNCHANGED <<conn, link, got, api, pump, chan, task>>
  BY DEF LocalPushes, upstream
<1>2. turn.item \in Nat
  BY DEF Types
<1>3. /\ Len(body') = Len(body) + 1 /\ body'[Len(body) + 1] = turn.item
      /\ \A i \in 1 .. Len(body) : body'[i] = body[i]
  BY <1>1, <1>2, Appended DEF Types
<1>4. Len(body) \in Nat /\ Len(got) \in Nat
  BY Counts
<1>5. Passed = Len(got) + Len(body) + 1 /\ Passed' = Passed
  <2>1. Passed = Len(got) + Len(body) + 1
    BY <1>1 DEF Passed, One
  <2>2. Passed' = Len(got) + (Len(body) + 1) + 0
    BY <1>1, <1>3 DEF Passed, One, At
  <2> QED BY <1>4, <2>1, <2>2
<1>6. Near(off)
  BY DEF InPlace
<1>7. Near(off)'
  <2>1. ASSUME NEW i \in 1 .. Len(body') PROVE body'[i] = Len(got) + i - off
    <3>1. CASE i = Len(body) + 1
      <4>1. turn.item = Len(got) + Len(body) + 1 - off
        BY <1>1, <1>5, <1>6 DEF Near
      <4> QED BY <1>3, <1>4, <3>1, <4>1
    <3>2. CASE i # Len(body) + 1
      <4>1. i \in 1 .. Len(body)
        BY <1>3, <1>4, <2>1, <3>2
      <4> QED BY <1>3, <1>6, <4>1 DEF Near
    <3> QED BY <3>1, <3>2
  <2>2. Heads' = Heads
    BY <1>1 DEF Heads, One
  <2> QED BY <1>1, <1>5, <1>6, <2>1, <2>2 DEF Near, At
<1> QED BY <1>1, <1>5, <1>7, RestInOrder DEF At

LEMMA ReadInOrder ==
  ASSUME Types, NEW off \in {0, 1}, InPlace(off), AgentReads,
         UNCHANGED <<upstream, task, conn, link>>
  PROVE  InPlace(off)'
<1>1. /\ body # <<>> /\ got' = Append(got, Head(body)) /\ body' = Tail(body)
      /\ UNCHANGED <<conn, link, turn, api, pump, chan, task>>
  BY DEF AgentReads, upstream
<1>2. /\ Head(body) = body[1] /\ Head(body) \in Nat
      /\ Len(body) \in Nat \ {0} /\ Len(body') = Len(body) - 1
      /\ \A i \in 1 .. Len(body) - 1 : body'[i] = body[i + 1]
  BY <1>1, Shifted DEF Types
<1>3. /\ Len(got') = Len(got) + 1 /\ got'[Len(got) + 1] = Head(body)
      /\ \A i \in 1 .. Len(got) : got'[i] = got[i]
  BY <1>1, <1>2, Appended DEF Types
<1>4. Len(got) \in Nat
  BY Counts
<1>5. Passed' = Passed
  <2>1. Passed' = (Len(got) + 1) + (Len(body) - 1) + One(turn.pc = "push")
    BY <1>1, <1>2, <1>3 DEF Passed, One
  <2>2. One(turn.pc = "push") \in Nat
    BY DEF One
  <2> QED BY <1>2, <1>4, <2>1, <2>2 DEF Passed
<1>6. Near(off)
  BY DEF InPlace
<1>7. Near(off)'
  <2>1. ASSUME NEW i \in 1 .. Len(got') PROVE got'[i] = i - off
    <3>1. CASE i = Len(got) + 1
      <4>1. 1 \in 1 .. Len(body) /\ body[1] = Len(got) + 1 - off
        BY <1>2, <1>6 DEF Near
      <4> QED BY <1>2, <1>3, <3>1, <4>1
    <3>2. CASE i # Len(got) + 1
      <4>1. i \in 1 .. Len(got)
        BY <1>3, <1>4, <2>1, <3>2
      <4> QED BY <1>3, <1>6, <4>1 DEF Near
    <3> QED BY <3>1, <3>2
  <2>2. ASSUME NEW i \in 1 .. Len(body') PROVE body'[i] = Len(got') + i - off
    <3>1. i \in 1 .. Len(body) - 1 /\ i + 1 \in 1 .. Len(body) /\ i \in Nat
      BY <1>2, <2>2
    <3>2. body'[i] = Len(got) + (i + 1) - off
      BY <1>2, <1>6, <3>1 DEF Near
    <3> QED BY <1>3, <1>4, <3>1, <3>2
  <2>3. Heads' = Heads
    BY <1>1 DEF Heads, One
  <2> QED BY <1>1, <1>5, <1>6, <2>1, <2>2, <2>3 DEF Near
<1> QED BY <1>1, <1>5, <1>7, RestInOrder

\* ... so it does in every step of theirs.
LEMMA LocalInOrder ==
  ASSUME Types, InOrder, Local \/ Agent \/ AgentHangsUp
  PROVE  InOrder'
<1>1. CASE agent = "gone" \/ agent' = "gone"
  <2>1. agent = "gone" => agent' = "gone"
    BY DEF Local, LocalHead, LocalBody, LocalPushes, LocalEnd, LocalEof,
           Agent, AgentReads, AgentAtEnd, AgentHangsUp
  <2> QED BY <1>1, <2>1 DEF InOrder
<1>2. CASE agent # "gone" /\ agent' # "gone"
  <2>1. PICK off \in {0, 1} : InPlace(off)
    BY <1>2 DEF InOrder
  <2>2. CASE Local
    <3>1. UNCHANGED <<upstream, task>>
      BY <2>2 DEF Local
    <3>2. CASE LocalEof
      <4>1. /\ link = <<>> /\ link' = <<>> /\ conn' # "open" /\ turn' = At("failed", 0)
            /\ turn.pc = "await" /\ UNCHANGED <<body, got>>
        BY <3>2 DEF LocalEof, Fail
      <4>2. Near(off)'
        BY <2>1, <4>1 DEF InPlace, Near, At
      <4>3. Whole(off)'
        BY <4>1 DEF Whole, Ends, One, At
      <4> QED BY <2>1, <4>1, <4>2, <4>3 DEF InPlace, InOrder
    <3>3. InPlace(off)' \/ LocalEof
      BY <1>2, <2>1, <2>2, <3>1, HeadInOrder, BodyInOrder, PushInOrder, EndInOrder DEF Local
    <3> QED BY <2>1, <3>2, <3>3 DEF InOrder
  <2>3. CASE Agent
    <3>1. UNCHANGED <<upstream, task, conn, link>>
      BY <2>3 DEF Agent
    <3>2. CASE AgentAtEnd
      <4>1. UNCHANGED <<turn, body, got, api, pump, chan, task, conn, link>>
        BY <3>1, <3>2 DEF AgentAtEnd, upstream
      <4>2. Near(off)' /\ Passed' = Passed
        BY <2>1, <4>1, NearStays DEF InPlace
      <4> QED BY <2>1, <4>1, <4>2, RestInOrder DEF InOrder
    <3> QED BY <2>1, <2>3, <3>1, <3>2, ReadInOrder DEF Agent, InOrder
  <2> QED BY <1>2, <2>2, <2>3 DEF AgentHangsUp
<1> QED BY <1>1, <1>2

\* A part of what was on the link is in order too.
LEMMA BreakInOrder ==
  ASSUME Types, NEW off \in {0, 1}, InPlace(off), LinkBreaks
  PROVE  InPlace(off)'
<1>1. PICK n \in 0 .. Len(link) : link' = SubSeq(link, 1, n)
  BY DEF LinkBreaks
<1>2. Len(link') = n /\ \A i \in 1 .. n : link'[i] = link[i]
  BY <1>1, Shortened DEF Types
<1>3. /\ conn' = "network" /\ turn.pc \notin {"done", "failed"}
      /\ UNCHANGED <<api, pump, chan, task, turn, body, got>>
  BY DEF LinkBreaks, Over, upstream, local
<1>4. Near(off)
  BY DEF InPlace
<1>5. Passed' = Passed /\ Passed \in Nat /\ Len(link) \in Nat
  BY <1>3, Counts DEF Passed, One
<1>6. CASE n = 0
  <2>1. link' = <<>>
    <3>1. link' \in Seq(Frame)
      BY <1>1, Shortened DEF Types
    <3> QED BY <1>2, <1>6, <3>1, EmptySeq
  <2> QED BY <1>3, <1>4, <1>5, <2>1 DEF InPlace, Near, Whole, Ends, One
<1>7. CASE n # 0
  <2>1. link' # <<>> /\ link # <<>> /\ 1 \in 1 .. n /\ n \in 1 .. n
    BY <1>2, <1>5, <1>7
  <2>2. Heads' = Heads
    BY <1>2, <2>1 DEF Heads, One
  <2>3. Ends' = 1 => n = Len(link)
    <3>1. link'[Len(link')] = link[n] /\ n \in 1 .. Len(link)
      BY <1>2, <1>7, <2>1
    <3> QED BY <1>4, <2>1, <3>1 DEF Near, Ends, One
  <2>4. n = Len(link) => Ends' = Ends /\ Carried' = Carried
    <3>1. n = Len(link) => Ends' = Ends
      BY <1>2, <2>1 DEF Ends, One
    <3> QED BY <1>2, <1>5, <2>2, <3>1 DEF Carried
  <2>5. Near(off)'
    <3>1. ASSUME NEW i \in 1 .. Len(link')
          PROVE  /\ link'[i].kind # "error"
                 /\ link'[i].kind = "head" => i = 1 /\ Passed' = 0
                 /\ link'[i].kind = "chunk" => link'[i].n = Passed' + i - Heads' - off
                 /\ link'[i].kind = "end" => i = Len(link')
      <4>1. i \in 1 .. Len(link) /\ link'[i] = link[i] /\ i <= Len(link') /\ Len(link') <= Len(link)
        BY <1>2, <1>5, <3>1
      <4>2. link[i].kind = "end" => i = Len(link')
        BY <1>2, <1>4, <1>5, <4>1 DEF Near
      <4> QED BY <1>4, <1>5, <2>2, <4>1, <4>2 DEF Near
    <3> QED BY <1>3, <1>4, <1>5, <3>1 DEF Near
  <2>6. Whole(off)'
    BY <1>3, <2>3, <2>4 DEF InPlace, Whole
  <2> QED BY <1>3, <2>5, <2>6 DEF InPlace
<1> QED BY <1>6, <1>7

\* While the upstream API or pump still does something the end has not come to the link.
LEMMA NotYetWhole ==
  ASSUME NEW off \in {0, 1}, Whole(off), Api \/ Pump
  PROVE  Ends # 1 /\ turn.pc # "done"
<1>1. CASE Api
  <2>1. api.state \in {"asked", "open"}
    BY <1>1 DEF Api, ApiHead, ApiFrame, ApiEnds, ApiBreaks, ApiRefuses
  <2> QED BY <2>1 DEF Whole
<1>2. CASE Pump
  <2>1. pump.pc # "done"
    BY <1>2 DEF Pump, PumpReads, PumpAtEnd, PumpFails, PumpTimesOut, PumpPushes,
                PumpHasPushed, PumpPushesError, PumpGivesUp
  <2> QED BY <2>1 DEF Whole
<1> QED BY <1>1, <1>2

\* Then it is enough to look at what has not come to the link: when the upstream API
\* goes on, ...
LEMMA FarApi ==
  ASSUME Types, NEW off \in {0, 1}, Far(off), Api, Taken' = Taken, Passed' = Passed
  PROVE  Far(off)'
<1>1. UNCHANGED <<pump, chan, task, link>>
  BY DEF Api
<1>2. api.state \in {"asked", "open"}
  BY DEF Api, ApiHead, ApiFrame, ApiEnds, ApiBreaks, ApiRefuses
<1>3. off = 0 /\ FarUpstream
  BY <1>2 DEF Far, Far502
<1>4. pump.pc = "done" => Broken'
  BY <1>1, <1>2, <1>3 DEF FarUpstream, Broken
<1>5. ASSUME pump.pc \in {"none", "read", "push"}
      PROVE  Joined(api'.frames, Taken + Len(chan) + Len(pump.left), api'.sent)
  <2>1. CASE ApiFrame
    <3>1. PICK n \in 0 .. MaxChunks :
            api' = [api EXCEPT !.count = @ + 1, !.sent = @ + n,
                               !.frames = Append(@, [i \in 1 .. n |-> api.sent + i])]
      BY <2>1 DEF ApiFrame
    <3>2. /\ api'.frames = Append(api.frames, [i \in 1 .. n |-> api.sent + i])
          /\ api'.sent = api.sent + n
      BY <3>1 DEF Types
    <3>3. /\ api.frames \in Seq(Seq(Nat)) /\ api.sent \in Int /\ n \in Nat
          /\ Taken + Len(chan) + Len(pump.left) \in Int
      BY Counts DEF Types
    <3>4. Joined(api.frames, Taken + Len(chan) + Len(pump.left), api.sent)
      BY <1>3, <1>5 DEF FarUpstream
    <3> QED BY <3>2, <3>3, <3>4, JoinedExtends
  <2>2. CASE ApiHead \/ ApiEnds \/ ApiBreaks \/ ApiRefuses
    <3>1. api'.frames = api.frames /\ api'.sent = api.sent
      BY <2>2 DEF ApiHead, ApiEnds, ApiBreaks, ApiRefuses, Types
    <3> QED BY <1>3, <1>5, <3>1 DEF FarUpstream
  <2> QED BY <2>1, <2>2 DEF Api
<1>6. FarUpstream'
  BY <1>1, <1>3, <1>4, <1>5 DEF FarUpstream
<1> QED BY <1>1, <1>3, <1>6 DEF Far

\* ... when pump goes on, ...
LEMMA FarPump ==
  ASSUME Types, NEW off \in {0, 1}, Far(off), Pump, Taken' = Taken, Passed' = Passed
  PROVE  Far(off)'
<1>1. UNCHANGED <<task, link>>
  BY DEF Pump
<1>2. pump.pc \notin {"done", "none"}
  BY DEF Pump, PumpReads, PumpAtEnd, PumpFails, PumpTimesOut, PumpPushes,
         PumpHasPushed, PumpPushesError, PumpGivesUp
<1>3. off = 0 /\ FarUpstream
  BY <1>2 DEF Far, Far502
<1>4. task.pc # "send"
  BY <1>2, <1>3 DEF FarUpstream
<1>5. \A i \in 1 .. Len(chan) : chan[i].kind = "chunk" /\ chan[i].n = Taken + i
  <2>1. ASSUME NEW i \in 1 .. Len(chan) PROVE chan[i].n = Taken + i - 0 => chan[i].n = Taken + i
    BY Counts
  <2> QED BY <1>2, <1>3, <2>1 DEF Far
<1>6. Taken \in Int /\ Len(chan) \in Nat /\ Len(pump.left) \in Nat
  BY Counts
\* What is to be shown of the chunks of the channel, and of the answer, is enough.
<1>7. ASSUME FarUpstream',
             \A i \in 1 .. Len(chan') :
               /\ chan'[i].kind = "chunk" => chan'[i].n = Taken + i
               /\ chan'[i].kind # "chunk" =>
                    chan'[i].kind = "error" /\ i = Len(chan') /\ pump'.pc = "done"
      PROVE  Far(off)'
  <2>1. ASSUME NEW i \in 1 .. Len(chan') PROVE Taken + i - 0 = Taken + i
    BY <1>6
  <2> QED BY <1>1, <1>3, <1>4, <1>7, <2>1 DEF Far
<1>8. CASE PumpReads \/ PumpAtEnd \/ PumpFails \/ PumpTimesOut \/ PumpHasPushed
  <2>1. UNCHANGED chan
    BY <1>8 DEF PumpReads, PumpAtEnd, PumpFails, PumpTimesOut, PumpHasPushed
  <2>2. CASE PumpReads
    <3>1. /\ pump.pc = "read" /\ api.frames # <<>>
          /\ pump'.pc = "push" /\ pump'.left = Head(api.frames)
          /\ api'.frames = Tail(api.frames) /\ api'.sent = api.sent
      BY <2>2 DEF PumpReads, Types
    <3>2. pump.left = <<>> /\ Len(pump.left) = 0
          /\ Joined(api.frames, Taken + Len(chan) + Len(pump.left), api.sent)
      BY <1>3, <3>1 DEF FarUpstream
    <3>3. /\ Taken + Len(chan) + Len(pump.left) = Taken + Len(chan)
          /\ Taken + Len(chan) \in Int /\ api.sent \in Int /\ api.frames \in Seq(Seq(Nat))
      BY <1>6, <3>2 DEF Types
    <3>4. /\ \A i \in 1 .. Len(pump'.left) : pump'.left[i] = Taken + Len(chan) + i
          /\ Joined(api'.frames, Taken + Len(chan) + Len(pump'.left), api'.sent)
      BY <3>1, <3>2, <3>3, JoinedShifts
    <3>5. FarUpstream'
      BY <1>1, <1>4, <2>1, <3>1, <3>4 DEF FarUpstream
    <3> QED BY <1>5, <1>7, <2>1, <3>5
  <2>3. CASE PumpAtEnd
    <3>1. /\ pump.pc = "read" /\ api.frames = <<>> /\ api.state = "ended"
          /\ pump'.pc = "done" /\ pump'.left = pump.left /\ UNCHANGED api
      BY <2>3 DEF PumpAtEnd, Types
    <3>2. pump.left = <<>> /\ Len(pump.left) = 0
          /\ Joined(<<>>, Taken + Len(chan) + Len(pump.left), api.sent)
      BY <1>3, <3>1 DEF FarUpstream
    <3>3. Taken + Len(chan) = api.sent
      <4>1. Taken + Len(chan) + Len(pump.left) \in Int /\ api.sent \in Int
        BY <1>6 DEF Types
      <4>2. Taken + Len(chan) + Len(pump.left) = api.sent
        BY <3>2, <4>1, JoinedEmpty
      <4> QED BY <1>6, <3>2, <4>2
    <3>4. FarUpstream'
      BY <1>1, <1>4, <2>1, <3>1, <3>2, <3>3 DEF FarUpstream
    <3> QED BY <1>5, <1>7, <2>1, <3>4
  <2>4. CASE PumpFails \/ PumpTimesOut
    <3>1. pump.pc = "read" /\ pump'.pc = "error" /\ pump'.left = pump.left
      BY <2>4 DEF PumpFails, PumpTimesOut, Types
    <3>2. pump.left = <<>> /\ Len(pump.left) = 0
      BY <1>3, <3>1 DEF FarUpstream
    <3>3. FarUpstream'
      BY <1>1, <1>4, <2>1, <3>1, <3>2 DEF FarUpstream
    <3> QED BY <1>5, <1>7, <2>1, <3>3
  <2>5. CASE PumpHasPushed
    <3>1. /\ pump.pc = "push" /\ pump.left = <<>>
          /\ pump'.pc = "read" /\ pump'.left = pump.left /\ UNCHANGED api
      BY <2>5 DEF PumpHasPushed, Types
    <3>2. FarUpstream'
      BY <1>1, <1>3, <1>4, <2>1, <3>1 DEF FarUpstream
    <3> QED BY <1>5, <1>7, <2>1, <3>2
  <2> QED BY <1>8, <2>2, <2>3, <2>4, <2>5
<1>9. CASE PumpPushes
  <2>1. /\ pump.pc = "push" /\ pump.left # <<>> /\ chan' = Append(chan, Chunk(Head(pump.left)))
        /\ pump'.pc = "push" /\ pump'.left = Tail(pump.left) /\ UNCHANGED api
    BY <1>9 DEF PumpPushes, Types
  <2>2. /\ Head(pump.left) = pump.left[1] /\ Head(pump.left) \in Nat
        /\ Len(pump.left) \in Nat \ {0} /\ Len(pump'.left) = Len(pump.left) - 1
        /\ \A i \in 1 .. Len(pump.left) - 1 : pump'.left[i] = pump.left[i + 1]
    BY <2>1, Shifted DEF Types
  <2>3. /\ Len(chan') = Len(chan) + 1 /\ \A i \in 1 .. Len(chan) : chan'[i] = chan[i]
        /\ chan'[Len(chan) + 1].kind = "chunk" /\ chan'[Len(chan) + 1].n = Head(pump.left)
    <3>1. Chunk(Head(pump.left)) \in Frame
      BY <2>2, Frames
    <3> QED BY <2>1, <2>2, <3>1, Appended, Frames DEF Types
  <2>4. ASSUME NEW i \in 1 .. Len(pump.left) PROVE pump.left[i] = Taken + Len(chan) + i
    BY <1>3 DEF FarUpstream
  <2>5. ASSUME NEW i \in 1 .. Len(chan') PROVE chan'[i].kind = "chunk" /\ chan'[i].n = Taken + i
    <3>1. CASE i = Len(chan) + 1
      <4>1. 1 \in 1 .. Len(pump.left) /\ pump.left[1] = Taken + Len(chan) + 1
        BY <2>2, <2>4
      <4> QED BY <1>6, <2>2, <2>3, <3>1, <4>1
    <3>2. CASE i # Len(chan) + 1
      <4>1. i \in 1 .. Len(chan)
        BY <1>6, <2>3, <2>5, <3>2
      <4> QED BY <1>5, <2>3, <4>1
    <3> QED BY <3>1, <3>2
  <2>6. ASSUME NEW i \in 1 .. Len(pump'.left) PROVE pump'.left[i] = Taken + Len(chan') + i
    <3>1. i \in 1 .. Len(pump.left) - 1 /\ i + 1 \in 1 .. Len(pump.left) /\ i \in Nat
      BY <2>2, <2>6
    <3>2. pump'.left[i] = Taken + Len(chan) + (i + 1)
      BY <2>2, <2>4, <3>1
    <3> QED BY <1>6, <2>3, <3>1, <3>2
  <2>7. Joined(api.frames, Taken + Len(chan') + Len(pump'.left), api.sent)
    <3>1. Taken + Len(chan') + Len(pump'.left) = Taken + Len(chan) + Len(pump.left)
      <4>1. Len(chan') = Len(chan) + 1 /\ Len(pump'.left) = Len(pump.left) - 1
        BY <2>2, <2>3
      <4>2. ASSUME NEW t \in Int, NEW l \in Nat, NEW m \in Nat
            PROVE  t + (l + 1) + (m - 1) = t + l + m
        OBVIOUS
      <4> QED BY <1>6, <4>1, <4>2
    <3> QED BY <1>3, <2>1, <3>1 DEF FarUpstream
  <2>8. FarUpstream'
    BY <1>1, <1>4, <2>1, <2>6, <2>7 DEF FarUpstream
  <2> QED BY <1>7, <2>5, <2>8
<1>10. CASE PumpPushesError
  <2>1. /\ pump.pc = "error" /\ chan' = Append(chan, Mark("error"))
        /\ pump'.pc = "done" /\ pump'.left = pump.left
    BY <1>10 DEF PumpPushesError, Types
  <2>2. /\ Len(chan') = Len(chan) + 1 /\ \A i \in 1 .. Len(chan) : chan'[i] = chan[i]
        /\ chan'[Len(chan) + 1].kind = "error" /\ chan' # <<>>
    <3>1. Mark("error") \in Frame /\ Mark("error").kind = "error"
      BY Frames
    <3>2. chan \in Seq(Frame)
      BY DEF Types
    <3> DEFINE error == Mark("error")
    <3> HIDE DEF error
    <3>3. /\ Len(Append(chan, error)) = Len(chan) + 1 /\ Append(chan, error) # <<>>
          /\ \A i \in 1 .. Len(chan) : Append(chan, error)[i] = chan[i]
          /\ Append(chan, error)[Len(chan) + 1] = error
      BY <3>1, <3>2, Appended DEF error
    <3> QED BY <2>1, <3>1, <3>3 DEF error
  <2>3. pump'.left = <<>> /\ Len(pump'.left) = 0
    BY <1>3, <2>1 DEF FarUpstream
  <2>4. Broken'
    BY <2>2 DEF Broken
  <2>5. FarUpstream'
    BY <1>1, <1>4, <2>1, <2>3, <2>4 DEF FarUpstream
  <2>6. ASSUME NEW i \in 1 .. Len(chan')
        PROVE  /\ chan'[i].kind = "chunk" => chan'[i].n = Taken + i
               /\ chan'[i].kind # "chunk" => chan'[i].kind = "error" /\ i = Len(chan')
    <3>1. i = Len(chan) + 1 \/ i \in 1 .. Len(chan)
      BY <1>6, <2>2, <2>6
    <3> QED BY <1>5, <2>2, <3>1
  <2> QED BY <1>7, <2>1, <2>5, <2>6
<1>11. ~PumpGivesUp
  BY DEF PumpGivesUp, Gone, Far
<1> QED BY <1>8, <1>9, <1>10, <1>11 DEF Pump

LEMMA UpstreamInOrder ==
  ASSUME Types, NEW off \in {0, 1}, InPlace(off), Api \/ Pump
  PROVE  InPlace(off)'
<1>1. UNCHANGED <<task, conn, link, turn, body, got>>
  BY DEF Api, Pump, local
<1>2. Near(off)' /\ Carried' = Carried /\ Passed' = Passed /\ Ends' = Ends
  BY <1>1, NearStays DEF InPlace
<1>3. Taken' = Taken
  BY <1>1, <1>2 DEF Taken, One
<1>4. Whole(off)'
  BY <1>1, <1>2, NotYetWhole DEF InPlace, Whole
<1> QED BY <1>1, <1>2, <1>3, <1>4, FarApi, FarPump DEF InPlace

\* Nothing has come to its end before remote_end has written it.
LEMMA NotEnded ==
  ASSUME Types, NEW off \in {0, 1}, Whole(off), task.pc \notin {"read", "over"}
  PROVE  Ends = 0 /\ turn.pc # "done"
  BY Counts DEF Whole

\* remote_end waits for the upstream, and takes what comes: while it writes nothing, ...
LEMMA FarSends ==
  ASSUME Types, NEW off \in {0, 1}, Far(off), RemoteSends, Carried' = Carried, Passed' = Passed
  PROVE  Far(off)'
<1>1. /\ task.pc = "send" /\ task'.pc = "head" /\ pump'.pc = "read" /\ pump'.left = pump.left
      /\ UNCHANGED <<api, chan, link>>
  BY DEF RemoteSends, At, Types
<1>2. off = 0 /\ FarUpstream
  BY <1>1 DEF Far, Far502
<1>3. Taken' = Taken
  BY <1>1 DEF Taken, One
<1>4. FarUpstream'
  BY <1>1, <1>2, <1>3 DEF FarUpstream
<1>5. chan = <<>> /\ Len(chan) = 0
  BY <1>1, <1>2 DEF FarUpstream
<1> QED BY <1>1, <1>2, <1>4, <1>5 DEF Far

LEMMA FarTakes ==
  ASSUME Types, NEW off \in {0, 1}, Far(off), RemoteTakes, conn' = "open",
         Carried' = Carried, Passed' = Passed
  PROVE  Far(off)'
<1>1. /\ task.pc = "relay" /\ chan # <<>> /\ chan' = Tail(chan)
      /\ task' = At("write", Head(chan).n) /\ Head(chan).kind # "error"
      /\ UNCHANGED <<api, pump, link>>
  BY DEF RemoteTakes
<1>2. /\ Head(chan) = chan[1] /\ Len(chan) \in Nat \ {0} /\ Len(chan') = Len(chan) - 1
      /\ \A i \in 1 .. Len(chan) - 1 : chan'[i] = chan[i + 1]
      /\ Len(chan) = 1 => chan' = <<>>
  BY <1>1, Shifted DEF Types
<1>3. Taken \in Int /\ Taken' = Taken + 1
  <2>1. Taken = Carried + 0 /\ Taken' = Carried + 1
    BY <1>1 DEF Taken, One, At
  <2> QED BY <2>1, Counts
<1>4. chan[1].kind = "chunk" /\ chan[1].n = Taken + 1 - off
  <2>1. 1 \in 1 .. Len(chan)
    BY <1>2
  <2> QED BY <1>1, <1>2, <2>1 DEF Far
<1>5. \A i \in 1 .. Len(chan') :
        /\ chan'[i].kind = "chunk" => chan'[i].n = Taken' + i - off
        /\ chan'[i].kind # "chunk" =>
             chan'[i].kind = "error" /\ i = Len(chan') /\ pump'.pc = "done"
  <2>1. ASSUME NEW i \in 1 .. Len(chan')
        PROVE  /\ chan'[i].kind = "chunk" => chan'[i].n = Taken' + i - off
               /\ chan'[i].kind # "chunk" =>
                    chan'[i].kind = "error" /\ i = Len(chan') /\ pump'.pc = "done"
    <3>1. i + 1 \in 1 .. Len(chan) /\ chan'[i] = chan[i + 1] /\ i \in Nat
      BY <1>2, <2>1
    <3>2. /\ chan[i + 1].kind = "chunk" => chan[i + 1].n = Taken + (i + 1) - off
          /\ chan[i + 1].kind # "chunk" =>
               chan[i + 1].kind = "error" /\ i + 1 = Len(chan) /\ pump.pc = "done"
      BY <3>1 DEF Far
    <3>3. Taken + (i + 1) - off = Taken' + i - off
      BY <1>3, <3>1
    <3>4. i + 1 = Len(chan) => i = Len(chan')
      BY <1>2, <3>1
    <3> QED BY <1>1, <3>1, <3>2, <3>3, <3>4
  <2> QED BY <2>1
<1>6. Taken' + Len(chan') = Taken + Len(chan)
  BY <1>2, <1>3
<1>7. Broken' = Broken
  <2>1. CASE Len(chan) = 1
    BY <1>2, <1>4, <2>1 DEF Broken
  <2>2. CASE Len(chan) # 1
    <3>1. Len(chan') \in 1 .. Len(chan) - 1 /\ Len(chan') + 1 = Len(chan)
      BY <1>2, <2>2
    <3>2. chan'[Len(chan')] = chan[Len(chan)]
      BY <1>2, <3>1
    <3>3. chan' # <<>>
      <4>1. Len(<<>>) = 0 /\ Len(chan') # 0
        BY <1>2, <2>2
      <4> QED BY <4>1
    <3> QED BY <1>1, <3>2, <3>3 DEF Broken
  <2> QED BY <2>1, <2>2
<1>8. off = 0 => FarUpstream'
  <2>1. ASSUME NEW i \in 1 .. Len(pump.left), FarUpstream
        PROVE  pump.left[i] = Taken' + Len(chan') + i
    BY <1>6, <2>1 DEF FarUpstream
  <2>2. FarUpstream => FarUpstream'
    BY <1>1, <1>6, <1>7, <2>1 DEF FarUpstream, At
  <2> QED BY <2>2 DEF Far
<1>9. off = 1 => Far502'
  BY <1>1, <1>6, <1>7 DEF Far, Far502, At
<1>10. task'.pc = "write" /\ task'.item = Taken' - off
  BY <1>1, <1>2, <1>3, <1>4 DEF At
<1> QED BY <1>5, <1>8, <1>9, <1>10 DEF Far

LEMMA TakesInOrder ==
  ASSUME Types, NEW off \in {0, 1}, InPlace(off), Remote,
         RemoteSends \/ RemoteTakes \/ RemoteEof
  PROVE  InPlace(off)'
<1>1. UNCHANGED <<link, turn, body, got>>
  BY DEF Remote, RemoteSends, RemoteTakes, RemoteEof, local
<1>2. Near(off)' /\ Carried' = Carried /\ Passed' = Passed /\ Ends' = Ends
  BY <1>1, NearStays DEF InPlace
<1>3. CASE RemoteEof
  <2>1. conn' # "open" /\ task'.pc = "over" /\ UNCHANGED <<api, pump>>
    BY <1>3 DEF RemoteEof, At, upstream
  <2>2. Whole(off)'
    BY <1>1, <1>2, <2>1 DEF InPlace, Whole
  <2> QED BY <1>2, <2>1, <2>2 DEF InPlace
<1>4. CASE RemoteSends \/ RemoteTakes
  <2>1. task.pc \in {"send", "relay"}
    BY <1>4 DEF RemoteSends, RemoteTakes
  <2>2. Whole(off)'
    BY <1>1, <1>2, <2>1, NotEnded DEF InPlace, Whole
  <2>3. conn' = "open" => conn = "open"
    BY <1>4 DEF RemoteSends, RemoteTakes
  <2> QED BY <1>2, <1>4, <2>2, <2>3, FarSends, FarTakes DEF InPlace
<1> QED BY <1>3, <1>4

\* ... and an answer made of an error begins where nothing of another has come.
LEMMA MadeInOrder ==
  ASSUME Types, NEW off \in {0, 1}, InPlace(off), RemoteMakes502, UNCHANGED local
  PROVE  \E o \in {0, 1} : InPlace(o)'
<1>1. /\ task.pc = "send" /\ task'.pc = "head" /\ pump'.pc = "done" /\ chan' = <<Chunk(0)>>
      /\ api'.state = "dropped" /\ UNCHANGED <<conn, link, turn, body, got>>
  BY DEF RemoteMakes502, At, Types, local
<1>2. /\ Near(off)' /\ Carried' = Carried /\ Passed' = Passed /\ Ends' = Ends
  BY <1>1, NearStays DEF InPlace
<1>3. Ends' = 0 /\ turn'.pc # "done"
  BY <1>1, <1>2, NotEnded DEF InPlace
<1>4. CASE conn # "open"
  <2>1. Whole(off)'
    BY <1>3 DEF Whole
  <2> QED BY <1>1, <1>2, <1>4, <2>1 DEF InPlace
<1>5. CASE conn = "open"
  <2>1. link = <<>> /\ Passed = 0
    BY <1>1, <1>5 DEF InPlace, Far
  <2>2. Carried = 0
    BY <2>1, Counts
  <2>3. Len(got) = 0 /\ Len(body) = 0 /\ turn.pc # "push"
    BY <2>1, Counts DEF Passed, One
  <2>4. Near(1)'
    BY <1>1, <2>1, <2>3 DEF Near
  <2>5. Whole(1)'
    BY <1>3 DEF Whole
  <2>6. Taken' = 0
    BY <1>1, <1>2, <2>2 DEF Taken, One
  <2>7. /\ Len(chan') = 1 /\ chan'[1].kind = "chunk" /\ chan'[1].n = 0
    BY <1>1 DEF Chunk
  <2>8. Far502'
    BY <1>1, <2>6, <2>7 DEF Far502, Broken
  <2>9. Far(1)'
    BY <1>1, <1>2, <2>1, <2>6, <2>7, <2>8 DEF Far
  <2> QED BY <2>4, <2>5, <2>9 DEF InPlace
<1> QED BY <1>4, <1>5

\* What is written to the link while it is open.
LEMMA LinkGrows ==
  ASSUME Types, NEW off \in {0, 1}, Near(off), Ends = 0,
         NEW frame \in Frame, link' = Append(link, frame), UNCHANGED <<turn, body, got>>,
         frame.kind # "error",
         frame.kind = "head" => link = <<>> /\ Passed = 0,
         frame.kind = "chunk" => frame.n = Carried + 1 - off
  PROVE  /\ Near(off)' /\ Passed' = Passed /\ Ends' = One(frame.kind = "end")
         /\ Carried' = Carried + One(frame.kind = "chunk")
<1>1. /\ Len(link') = Len(link) + 1 /\ link' # <<>> /\ link'[Len(link) + 1] = frame
      /\ \A i \in 1 .. Len(link) : link'[i] = link[i]
  <2>1. link \in Seq(Frame)
    BY DEF Types
  <2> QED BY <2>1, Appended
<1>2. /\ Heads \in {0, 1} /\ Passed \in Nat /\ Len(link) \in Nat
      /\ link = <<>> => Heads = 0
  BY Counts
<1>3. Passed' = Passed
  BY DEF Passed, One
<1>4. Ends' = One(frame.kind = "end")
  BY <1>1 DEF Ends, One
<1>5. link # <<>> => 1 \in 1 .. Len(link) /\ Len(link) \in 1 .. Len(link)
  BY <1>2, EmptySeq DEF Types
<1>6. Heads' = (IF frame.kind = "head" THEN 1 ELSE Heads)
  <2>1. CASE link = <<>>
    <3>1. link'[1] = frame
      <4>1. Len(link) = 0 /\ 0 + 1 = 1
        BY <2>1
      <4> QED BY <1>1, <4>1
    <3> QED BY <1>1, <1>2, <2>1, <3>1 DEF Heads, One
  <2>2. CASE link # <<>>
    <3>1. link'[1] = link[1]
      BY <1>1, <1>5, <2>2
    <3> QED BY <1>1, <2>2, <3>1 DEF Heads, One
  <2> QED BY <2>1, <2>2
<1>7. Carried = Passed + Len(link) - Heads
  BY <1>2 DEF Carried
<1>8. Carried' = Carried + One(frame.kind = "chunk")
  <2>1. Carried' = Passed + (Len(link) + 1) - Heads' - Ends'
    BY <1>1, <1>3 DEF Carried
  <2>2. CASE frame.kind = "chunk"
    BY <1>2, <1>4, <1>6, <1>7, <2>1, <2>2 DEF One
  <2>3. CASE frame.kind = "end"
    BY <1>2, <1>4, <1>6, <1>7, <2>1, <2>3 DEF One
  <2>4. CASE frame.kind = "head"
    <3>1. Heads = 0
      BY <1>2, <2>4
    <3> QED BY <1>2, <1>4, <1>6, <1>7, <2>1, <2>4, <3>1 DEF One
  <2> QED BY <2>2, <2>3, <2>4 DEF Frame
<1>9. ASSUME NEW i \in 1 .. Len(link')
      PROVE  /\ link'[i].kind # "error"
             /\ link'[i].kind = "head" => i = 1 /\ Passed' = 0
             /\ link'[i].kind = "chunk" => link'[i].n = Passed' + i - Heads' - off
             /\ link'[i].kind = "end" => i = Len(link')
  <2>1. CASE i = Len(link) + 1
    <3>1. link'[i] = frame
      BY <1>1, <2>1
    <3>2. frame.kind = "chunk" => frame.n = Passed + (Len(link) + 1) - Heads - off
      BY <1>2, <1>7
    <3>3. frame.kind = "head" => i = 1
      BY <2>1
    <3> QED BY <1>1, <1>3, <1>6, <2>1, <3>1, <3>2, <3>3
  <2>2. CASE i # Len(link) + 1
    <3>1. i \in 1 .. Len(link) /\ link'[i] = link[i]
      BY <1>1, <1>2, <1>9, <2>2
    <3>2. link[i].kind # "end"
      <4>1. link # <<>>
        BY <3>1
      <4>2. link[Len(link)].kind # "end"
        BY <4>1 DEF Ends, One
      <4> QED BY <3>1, <4>2 DEF Near
    <3>3. frame.kind # "head"
      BY <3>1
    <3> QED BY <1>3, <1>6, <3>1, <3>2, <3>3 DEF Near
  <2> QED BY <2>1, <2>2
<1>10. Near(off)'
  BY <1>3, <1>9 DEF Near
<1> QED BY <1>3, <1>4, <1>8, <1>10

\* On a connection that is no more, what is written is lost.
LEMMA LostInOrder ==
  ASSUME Types, NEW off \in {0, 1}, InPlace(off), UNCHANGED <<conn, link, local>>,
         conn # "open", task.pc \notin {"read", "over"}
  PROVE  InPlace(off)'
<1>1. UNCHANGED <<turn, body, got>>
  BY DEF local
<1>2. Near(off)' /\ Ends' = Ends
  BY <1>1, NearStays DEF InPlace
<1>3. Whole(off)'
  BY <1>1, <1>2, NotEnded DEF InPlace, Whole
<1> QED BY <1>2, <1>3 DEF InPlace

\* When the last that came from the channel has been written, all has.
LEMMA WritesInOrder ==
  ASSUME Types, NEW off \in {0, 1}, InPlace(off), UNCHANGED local,
         RemoteHead \/ RemoteWrites \/ RemoteFinishes
  PROVE  InPlace(off)'
<1>1. /\ task.pc \in {"head", "write", "relay"} /\ UNCHANGED <<api, pump, chan, turn, body, got>>
  BY DEF RemoteHead, RemoteWrites, RemoteFinishes, upstream, local
<1>2. CASE conn # "open"
  <2>1. UNCHANGED <<conn, link>>
    BY <1>2 DEF RemoteHead, RemoteWrites, RemoteFinishes, Write
  <2> QED BY <1>1, <1>2, <2>1, LostInOrder
<1>3. CASE conn = "open"
  <2>1. Near(off) /\ Whole(off) /\ Far(off)
    BY <1>3 DEF InPlace
  <2>2. Ends = 0 /\ turn.pc # "done"
    BY <1>1, <2>1, NotEnded
  <2>3. Carried \in Int /\ Taken \in Int
    BY Counts
  <2>4. CASE RemoteHead
    <3>1. task.pc = "head" /\ link' = Append(link, Mark("head")) /\ task' = At("relay", 0)
      BY <1>3, <2>4 DEF RemoteHead, Write
    <3>2. /\ Mark("head") \in Frame /\ Mark("head").kind = "head"
          /\ link = <<>> /\ Passed = 0
      BY <2>1, <3>1, Frames DEF Far
    <3>3. /\ Near(off)' /\ Passed' = Passed /\ Ends' = One("head" = "end")
          /\ Carried' = Carried + One("head" = "chunk")
      BY <1>1, <2>1, <2>2, <3>1, <3>2, LinkGrows
    <3>4. Ends' = 0 /\ Carried' = Carried
      BY <2>3, <3>3 DEF One
    <3>5. Taken' = Taken
      BY <3>1, <3>4 DEF Taken, One, At
    <3>6. Whole(off)'
      BY <1>1, <2>2, <3>4 DEF Whole
    <3>7. (FarUpstream => FarUpstream') /\ (Far502 => Far502')
      BY <1>1, <3>1, <3>5 DEF FarUpstream, Far502, Broken, At
    <3>8. Far(off)'
      BY <1>1, <2>1, <3>1, <3>5, <3>7 DEF Far, At
    <3> QED BY <3>3, <3>6, <3>8 DEF InPlace
  <2>5. CASE RemoteWrites
    <3>1. /\ task.pc = "write" /\ link' = Append(link, Chunk(task.item))
          /\ task' = At("relay", 0)
      BY <1>3, <2>5 DEF RemoteWrites, Write
    <3>2. Taken = Carried + 1
      BY <3>1 DEF Taken, One
    <3>3. /\ Chunk(task.item) \in Frame /\ Chunk(task.item).kind = "chunk"
          /\ Chunk(task.item).n = Carried + 1 - off
      <4>1. task.item \in Nat
        <5>1. task \in [pc : {"send", "head", "relay", "write", "read", "over"}, item : Nat]
          BY DEF Types
        <5> QED BY <5>1
      <4>2. task.item = Taken - off
        BY <2>1, <3>1 DEF Far
      <4>3. task.item = Carried + 1 - off
        BY <2>3, <3>2, <4>2
      <4>4. Chunk(task.item) \in Frame /\ Chunk(task.item).kind = "chunk"
            /\ Chunk(task.item).n = task.item
        BY <4>1, Frames
      <4> QED BY <4>3, <4>4
    <3>4. /\ Near(off)' /\ Passed' = Passed /\ Ends' = One("chunk" = "end")
          /\ Carried' = Carried + One("chunk" = "chunk")
      BY <1>1, <2>1, <2>2, <3>1, <3>3, LinkGrows
    <3>5. Ends' = 0 /\ Carried' = Carried + 1
      BY <3>4 DEF One
    <3>6. Taken' = Taken
      <4>1. Taken' = Carried' + 0
        BY <3>1 DEF Taken, One, At
      <4> QED BY <2>3, <3>2, <3>5, <4>1
    <3>7. Whole(off)'
      BY <1>1, <2>2, <3>5 DEF Whole
    <3>8. (FarUpstream => FarUpstream') /\ (Far502 => Far502')
      BY <1>1, <3>1, <3>6 DEF FarUpstream, Far502, Broken, At
    <3>9. Far(off)'
      BY <1>1, <2>1, <3>1, <3>6, <3>8 DEF Far, At
    <3> QED BY <3>4, <3>7, <3>9 DEF InPlace
  <2>6. CASE RemoteFinishes
    <3>1. /\ task.pc = "relay" /\ chan = <<>> /\ pump.pc = "done"
          /\ link' = Append(link, Mark("end")) /\ task' = At("read", 0)
      BY <1>3, <2>6 DEF RemoteFinishes, Write
    <3>2. Mark("end") \in Frame /\ Mark("end").kind = "end"
      BY Frames
    <3>3. /\ Near(off)' /\ Passed' = Passed /\ Ends' = One("end" = "end")
          /\ Carried' = Carried + One("end" = "chunk")
      BY <1>1, <2>1, <2>2, <3>1, <3>2, LinkGrows
    <3>4. Carried' = Carried
      BY <2>3, <3>3 DEF One
    <3>5. Taken' = Taken /\ Taken = Carried
      <4>1. Taken' = Carried' + 0 /\ Taken = Carried + 0
        BY <3>1 DEF Taken, One, At
      <4> QED BY <2>3, <3>4, <4>1
    <3>6. Taken + Len(chan) = Carried /\ ~Broken
      BY <2>3, <3>1, <3>5 DEF Broken
    <3>7. Whole(off)'
      <4>1. off = 0 => api.state = "ended" /\ Carried = api.sent
        BY <2>1, <3>1, <3>6 DEF Far, FarUpstream
      <4>2. off = 1 => api.state = "dropped" /\ Carried = 1
        BY <2>1, <3>6 DEF Far, Far502
      <4> QED BY <1>1, <2>2, <3>1, <3>4, <4>1, <4>2 DEF Whole, At
    <3>8. (FarUpstream => FarUpstream') /\ (Far502 => Far502')
      BY <1>1, <3>1, <3>5 DEF FarUpstream, Far502, Broken, At
    <3>9. Far(off)'
      BY <1>1, <2>1, <3>1, <3>5, <3>8 DEF Far, At
    <3> QED BY <3>3, <3>7, <3>9 DEF InPlace
  <2> QED BY <2>4, <2>5, <2>6
<1> QED BY <1>2, <1>3

-----------------------------------------------------------------------------
(* What holds always                                                        *)

LEMMA OrderInit == ASSUME Init PROVE InOrder
<1>1. /\ api.state = "asked" /\ api.frames = <<>> /\ api.sent = 0
      /\ pump = [pc |-> "none", left |-> <<>>] /\ chan = <<>>
      /\ task = At("send", 0) /\ link = <<>> /\ turn = At("await", 0)
      /\ body = <<>> /\ got = <<>>
  BY DEF Init
<1>2. Heads = 0 /\ Ends = 0 /\ Passed = 0 /\ Carried = 0 /\ Taken = 0
  BY <1>1 DEF Heads, Ends, Passed, Carried, Taken, One, At
<1>3. Near(0)
  BY <1>1 DEF Near, At
<1>4. Whole(0)
  BY <1>1, <1>2 DEF Whole, At
<1>5. Joined(<<>>, 0, 0)
  <2> DEFINE st == [j \in 1 .. 1 |-> 0]
  <2>1. st \in [1 .. Len(<<>>) + 1 -> Int] /\ Len(<<>>) = 0
    OBVIOUS
  <2>2. st[1] = 0 /\ st[Len(<<>>) + 1] = 0
    OBVIOUS
  <2> HIDE DEF st
  <2> QED BY <2>1, <2>2 DEF Joined
<1>6. FarUpstream
  BY <1>1, <1>2, <1>5 DEF FarUpstream, At
<1>7. Far(0)
  BY <1>1, <1>2, <1>6 DEF Far, At
<1> QED BY <1>3, <1>4, <1>7 DEF InPlace, InOrder

LEMMA OrderStep == ASSUME Types, InOrder, [Next]_vars PROVE InOrder'
<1>1. CASE UNCHANGED vars
  <2>1. UNCHANGED <<api, pump, chan, task, conn, link, turn, body, agent, got>>
    BY <1>1 DEF vars, upstream, local
  <2>2. ASSUME NEW off \in {0, 1}, InPlace(off) PROVE InPlace(off)'
    <3>1. Near(off)' /\ Passed' = Passed
      BY <2>1, <2>2, NearStays DEF InPlace
    <3> QED BY <2>1, <2>2, <3>1, RestInOrder
  <2> QED BY <2>1, <2>2 DEF InOrder
<1>2. CASE Local \/ Agent \/ AgentHangsUp
  BY <1>2, LocalInOrder
<1>3. CASE Api \/ Pump \/ Remote \/ LinkBreaks
  <2>1. CASE agent = "gone"
    <3>1. agent' = agent
      BY <1>3 DEF Api, Pump, Remote, LinkBreaks, local
    <3> QED BY <2>1, <3>1 DEF InOrder
  <2>2. CASE agent # "gone"
    <3>1. PICK off \in {0, 1} : InPlace(off)
      BY <2>2 DEF InOrder
    <3>2. CASE Api \/ Pump \/ LinkBreaks
      BY <3>1, <3>2, UpstreamInOrder, BreakInOrder DEF InOrder
    <3>3. CASE Remote
      <4>1. UNCHANGED local
        BY <3>3 DEF Remote
      <4>2. \E o \in {0, 1} : InPlace(o)'
        BY <3>1, <3>3, <4>1, TakesInOrder, MadeInOrder, WritesInOrder DEF Remote
      <4> QED BY <4>2 DEF InOrder
    <3> QED BY <1>3, <3>2, <3>3
  <2> QED BY <2>1, <2>2
<1> QED BY <1>1, <1>2, <1>3 DEF Next, Idle

\* Everything in its place, with the end come and nothing left on the link, is the
\* whole answer in the hands of the agent.
LEMMA OrderIsWhole == ASSUME Types, InOrder PROVE DoneIsWhole
<1> SUFFICES ASSUME turn.pc = "done", agent # "gone"
             PROVE  \/ got \o body = <<0>> /\ api.state = "dropped"
                    \/ api.state = "ended" /\ got \o body = [i \in 1 .. api.sent |-> i]
  BY DEF DoneIsWhole
<1>1. PICK off \in {0, 1} : Near(off) /\ Whole(off)
  BY DEF InOrder, InPlace
<1>2. link = <<>> /\ Carried = Len(got) + Len(body)
  <2>1. link = <<>>
    BY <1>1 DEF Whole
  <2>2. Passed = Len(got) + Len(body)
    BY Counts DEF Passed, One
  <2> QED BY <2>1, <2>2, Counts
<1>3. /\ got \o body \in Seq(Nat) /\ Len(got \o body) = Len(got) + Len(body)
      /\ \A i \in 1 .. Len(got) + Len(body) :
           (got \o body)[i] = (IF i <= Len(got) THEN got[i] ELSE body[i - Len(got)])
  BY ConcatProperties DEF Types
<1>4. ASSUME NEW i \in 1 .. Len(got) + Len(body) PROVE (got \o body)[i] = i - off
  <2>1. Len(got) \in Nat /\ Len(body) \in Nat
    BY Counts
  <2>2. CASE i <= Len(got)
    <3>1. i \in 1 .. Len(got)
      BY <2>1, <2>2
    <3> QED BY <1>1, <1>3, <2>2, <3>1 DEF Near
  <2>3. CASE ~(i <= Len(got))
    <3>1. i - Len(got) \in 1 .. Len(body) /\ Len(got) + (i - Len(got)) = i
      BY <2>1, <2>3
    <3>2. body[i - Len(got)] = Len(got) + (i - Len(got)) - off
      BY <1>1, <3>1 DEF Near
    <3> QED BY <1>3, <2>3, <3>1, <3>2
  <2> QED BY <2>2, <2>3
<1>5. CASE off = 0
  <2>1. api.state = "ended" /\ api.sent = Len(got) + Len(body)
    BY <1>1, <1>2, <1>5 DEF Whole
  <2>2. [i \in 1 .. api.sent |-> i] \in Seq(Nat) /\ Len([i \in 1 .. api.sent |-> i]) = api.sent
    BY IsASeq DEF Types
  <2>3. \A i \in 1 .. Len(got \o body) : (got \o body)[i] = [j \in 1 .. api.sent |-> j][i]
    BY <1>3, <1>4, <1>5, <2>1
  <2>4. got \o body = [i \in 1 .. api.sent |-> i]
    BY <1>3, <2>1, <2>2, <2>3, SeqEqual
  <2> QED BY <2>1, <2>4
<1>6. CASE off = 1
  <2>1. api.state = "dropped" /\ Len(got) + Len(body) = 1
    BY <1>1, <1>2, <1>6 DEF Whole
  <2>2. (got \o body)[1] = 0
    BY <1>4, <1>6, <2>1
  <2>3. <<0>> \in Seq(Nat) /\ Len(<<0>>) = 1 /\ <<0>>[1] = 0
    OBVIOUS
  <2>4. Len(got \o body) = 1 /\ \A i \in 1 .. Len(got \o body) : (got \o body)[i] = <<0>>[i]
    BY <1>3, <2>1, <2>2, <2>3
  <2>5. got \o body = <<0>>
    BY <1>3, <2>3, <2>4, SeqEqual
  <2> QED BY <2>1, <2>5
<1> QED BY <1>5, <1>6

\* Whatever the upstream, the link and the agent do, no queue on the way of an
\* answer is over its limit, for every limit (upstream.rs, local.rs).
THEOREM QueuesBounded == Spec => []TypeOK
<1>1. Types => TypeOK
  BY DEF Types, TypeOK
<1> QED BY <1>1, TypesInit, TypesStep, PTL DEF Spec

\* Whatever breaks off, is late or goes away, a turn that ends well has handed over the
\* whole answer of the upstream, or the whole 502 made of its error (upstream.rs,
\* session.rs, local.rs).
THEOREM WholeOrFailed == Spec => []DoneIsWhole
<1>1. Init => Types /\ InOrder
  BY TypesInit, OrderInit
<1>2. Types /\ InOrder /\ [Next]_vars => Types' /\ InOrder'
  BY TypesStep, OrderStep
<1>3. Types /\ InOrder => DoneIsWhole
  BY OrderIsWhole
<1> QED BY <1>1, <1>2, <1>3, PTL DEF Spec
=============================================================================
