-------------------------------- MODULE Relay --------------------------------
(***************************************************************************)
(* The way of one answer from the upstream API to the agent: send and pump *)
(* of the upstream client, the relay of remote_end, the link, local_end,   *)
(* and the body the agent reads.  Each hand-over is a queue with a limit,  *)
(* so whoever is slow holds up everyone before it, and whoever goes away   *)
(* has to be noticed by everyone after it: only by writing, since nobody   *)
(* on this way listens for the end of what it writes to.                   *)
(*                                                                         *)
(* A chunk is its number, 0 the body of the 502 made of an upstream error. *)
(***************************************************************************)
EXTENDS Naturals, Sequences, SequencesExt

CONSTANTS
  ChanCap,    \* capacity of the pump's channel (8)
  LinkCap,    \* frames the connection holds
  BodyCap,    \* capacity of body_tx (8)
  MaxFrames,  \* bound: frames the upstream API sends
  MaxChunks   \* bound: chunks of RELAY_CHUNK bytes in one of them

ASSUME CapAssumption == {ChanCap, LinkCap, BodyCap} \subseteq Nat \ {0}

VARIABLES
  api,    \* the upstream API: its state, frames not yet read, chunks sent
  pump,   \* pump: what it does, and what it has still to push
  chan,   \* the channel from pump to remote_end
  task,   \* remote_end, and the chunk it is writing
  conn,   \* "open", or who has closed it: "remote", "local", "network"
  link,   \* frames on their way to the local end
  turn,   \* local_end, and the chunk it is handing over
  body,   \* the channel of body_tx
  agent,  \* "waiting" for a head, "reading", "ended", "refused" or "gone"
  got     \* the chunks the agent has read

upstream == <<api, pump, chan>>
local    == <<turn, body, agent, got>>
vars     == <<upstream, task, conn, link, local>>

At(pc, item) == [pc |-> pc, item |-> item]

\* What the channels and the connection carry.
Chunk(n)   == [kind |-> "chunk", n |-> n]
Mark(kind) == [kind |-> kind, n |-> 0]

Init ==
  /\ api = [state |-> "asked", frames |-> <<>>, sent |-> 0, count |-> 0]
  /\ pump = [pc |-> "none", left |-> <<>>] /\ chan = <<>>
  /\ task = At("send", 0) /\ conn = "open" /\ link = <<>>
  /\ turn = At("await", 0) /\ body = <<>> /\ agent = "waiting" /\ got = <<>>

-----------------------------------------------------------------------------
(* The upstream API                                                         *)

ApiHead ==
  /\ api.state = "asked"
  /\ api' = [api EXCEPT !.state = "open"]

ApiFrame ==
  /\ api.state = "open" /\ api.count < MaxFrames
  /\ \E n \in 0 .. MaxChunks :
       api' = [api EXCEPT !.count = @ + 1, !.sent = @ + n,
                          !.frames = Append(@, [i \in 1 .. n |-> api.sent + i])]

ApiEnds   == api.state = "open" /\ api' = [api EXCEPT !.state = "ended"]
ApiBreaks == api.state = "open" /\ api' = [api EXCEPT !.state = "broken"]
ApiRefuses == api.state = "asked" /\ api' = [api EXCEPT !.state = "refused"]

Api == /\ ApiHead \/ ApiFrame \/ ApiEnds \/ ApiBreaks \/ ApiRefuses
       /\ UNCHANGED <<pump, chan, task, conn, link, local>>

-----------------------------------------------------------------------------
(* pump.  The receiver of its channel is dropped when remote_end returns.   *)

Gone == task.pc = "over"
Full == Len(chan) >= ChanCap

\* The result of resp.frame(), or of its timeout.
PumpReads ==
  /\ pump.pc = "read" /\ api.frames # <<>>
  /\ pump' = [pc |-> "push", left |-> Head(api.frames)]
  /\ api' = [api EXCEPT !.frames = Tail(@)]
  /\ UNCHANGED chan

PumpAtEnd ==
  /\ pump.pc = "read" /\ api.frames = <<>> /\ api.state = "ended"
  /\ pump' = [pump EXCEPT !.pc = "done"]
  /\ UNCHANGED <<api, chan>>

\* Mutant: an error of the upstream ends the channel like the end of the body.
PumpFailsSilently ==
  /\ pump.pc = "read" /\ api.frames = <<>> /\ api.state = "broken"
  /\ pump' = [pump EXCEPT !.pc = "done"]
  /\ UNCHANGED <<api, chan>>

PumpFails ==
  /\ pump.pc = "read" /\ api.frames = <<>> /\ api.state = "broken"
  /\ pump' = [pump EXCEPT !.pc = "error"]
  /\ UNCHANGED <<api, chan>>

\* Mutant: no timeout.
PumpWaits == FALSE /\ UNCHANGED upstream

\* 900 seconds without a frame.
PumpTimesOut ==
  /\ pump.pc = "read" /\ api.frames = <<>> /\ api.state = "open"
  /\ pump' = [pump EXCEPT !.pc = "error"]
  /\ api' = [api EXCEPT !.state = "dropped"]
  /\ UNCHANGED chan

\* Mutant: the channel has one place more than it was made with.
PumpPushesOver ==
  /\ pump.pc = "push" /\ pump.left # <<>> /\ ~Gone /\ Len(chan) <= ChanCap
  /\ chan' = Append(chan, Chunk(Head(pump.left)))
  /\ pump' = [pump EXCEPT !.left = Tail(@)]
  /\ UNCHANGED api

PumpPushes ==
  /\ pump.pc = "push" /\ pump.left # <<>> /\ ~Gone /\ ~Full
  /\ chan' = Append(chan, Chunk(Head(pump.left)))
  /\ pump' = [pump EXCEPT !.left = Tail(@)]
  /\ UNCHANGED api

PumpHasPushed ==
  /\ pump.pc = "push" /\ pump.left = <<>>
  /\ pump' = [pump EXCEPT !.pc = "read"]
  /\ UNCHANGED <<api, chan>>

PumpPushesError ==
  /\ pump.pc = "error" /\ ~Gone /\ ~Full
  /\ chan' = Append(chan, Mark("error"))
  /\ pump' = [pump EXCEPT !.pc = "done"]
  /\ UNCHANGED api

\* Mutant: the failed send is taken no notice of, the chunk is tried again.
PumpInsists == FALSE /\ UNCHANGED upstream

\* The receiver is gone: the send fails, and the upstream connection is dropped.
PumpGivesUp ==
  /\ pump.pc \in {"push", "error"} /\ Gone
  /\ pump.pc = "push" => pump.left # <<>>
  /\ pump' = [pc |-> "done", left |-> <<>>]
  /\ api' = [api EXCEPT !.state = "dropped"]
  /\ UNCHANGED chan

Pump == /\ \/ PumpReads \/ PumpAtEnd \/ PumpFails \/ PumpTimesOut \/ PumpPushes
           \/ PumpHasPushed \/ PumpPushesError \/ PumpGivesUp
        /\ UNCHANGED <<task, conn, link, local>>

-----------------------------------------------------------------------------
(* remote_end                                                               *)

\* A frame is written once there is room for it.  On a connection that is no more
\* the write fails, or is lost unnoticed.
Write(frame, next) ==
  \/ /\ conn = "open" /\ Len(link) < LinkCap
     /\ link' = Append(link, frame)
     /\ task' = next /\ UNCHANGED conn
  \/ /\ conn # "open"
     /\ task' \in {next, At("over", 0)} /\ UNCHANGED <<conn, link>>

\* The head has come within HEAD_TIMEOUT, and pump is spawned.
RemoteSends ==
  /\ task.pc = "send" /\ api.state \in {"open", "ended", "broken"}
  /\ task' = At("head", 0)
  /\ pump' = [pump EXCEPT !.pc = "read"]
  /\ UNCHANGED <<api, chan, conn, link>>

\* No head in time, or no connection: serve_conn makes an answer of the error.
RemoteMakes502 ==
  /\ task.pc = "send" /\ api.state \in {"asked", "refused"}
  /\ api' = [api EXCEPT !.state = "dropped"]
  /\ chan' = <<Chunk(0)>>
  /\ pump' = [pump EXCEPT !.pc = "done"]
  /\ task' = At("head", 0)
  /\ UNCHANGED <<conn, link>>

RemoteHead ==
  /\ task.pc = "head" /\ Write(Mark("head"), At("relay", 0))
  /\ UNCHANGED upstream

RemoteTakes ==
  /\ task.pc = "relay" /\ chan # <<>>
  /\ chan' = Tail(chan)
  /\ IF Head(chan).kind = "error"
     THEN /\ task' = At("over", 0)
          /\ conn' = IF conn = "open" THEN "remote" ELSE conn
     ELSE task' = At("write", Head(chan).n) /\ UNCHANGED conn
  /\ UNCHANGED <<api, pump, link>>

RemoteWrites ==
  /\ task.pc = "write" /\ Write(Chunk(task.item), At("relay", 0))
  /\ UNCHANGED upstream

\* The channel is closed and empty: Bloom and ResponseEnd.
RemoteFinishes ==
  /\ task.pc = "relay" /\ chan = <<>> /\ pump.pc = "done"
  /\ Write(Mark("end"), At("read", 0))
  /\ UNCHANGED upstream

\* Back in read_frame, the end of the connection is seen at last.
RemoteEof ==
  /\ task.pc = "read" /\ conn # "open"
  /\ task' = At("over", 0)
  /\ UNCHANGED <<upstream, conn, link>>

Remote == /\ \/ RemoteSends \/ RemoteMakes502 \/ RemoteHead \/ RemoteTakes
             \/ RemoteWrites \/ RemoteFinishes \/ RemoteEof
          /\ UNCHANGED local

-----------------------------------------------------------------------------
(* local_end and the agent                                                  *)

Over == turn.pc \in {"done", "failed"}

\* An error returns from local_end, and drive drops the connection.
Fail == /\ turn' = At("failed", 0)
        /\ conn' = IF conn = "open" THEN "local" ELSE conn
        /\ link' = <<>>

LocalHead ==
  /\ turn.pc = "await" /\ link # <<>> /\ Head(link).kind = "head"
  /\ IF agent = "gone" THEN Fail /\ UNCHANGED agent
     ELSE agent' = "reading" /\ link' = Tail(link) /\ UNCHANGED <<turn, conn>>
  /\ UNCHANGED <<body, got>>

LocalBody ==
  /\ turn.pc = "await" /\ link # <<>> /\ Head(link).kind = "chunk"
  /\ turn' = At("push", Head(link).n)
  /\ link' = Tail(link)
  /\ UNCHANGED <<conn, body, agent, got>>

LocalPushes ==
  /\ turn.pc = "push"
  /\ \/ /\ agent = "gone" /\ Fail /\ UNCHANGED body
     \/ /\ agent # "gone" /\ Len(body) < BodyCap
        /\ body' = Append(body, turn.item)
        /\ turn' = At("await", 0) /\ UNCHANGED <<conn, link>>
  /\ UNCHANGED <<agent, got>>

LocalEnd ==
  /\ turn.pc = "await" /\ link # <<>> /\ Head(link).kind = "end"
  /\ turn' = At("done", 0)
  /\ link' = Tail(link)
  /\ UNCHANGED <<conn, body, agent, got>>

LocalEof ==
  /\ turn.pc = "await" /\ link = <<>> /\ conn # "open"
  /\ Fail
  /\ UNCHANGED <<body, agent, got>>

Local == /\ LocalHead \/ LocalBody \/ LocalPushes \/ LocalEnd \/ LocalEof
         /\ UNCHANGED <<upstream, task>>

AgentReads ==
  /\ agent = "reading" /\ body # <<>>
  /\ got' = Append(got, Head(body))
  /\ body' = Tail(body)
  /\ UNCHANGED <<turn, agent>>

\* The end of the turn closes the body, whatever ended it.
AgentAtEnd ==
  /\ Over
  /\ \/ agent = "reading" /\ body = <<>> /\ agent' = "ended"
     \/ agent = "waiting" /\ agent' = "refused"
  /\ UNCHANGED <<turn, body, got>>

Agent == (AgentReads \/ AgentAtEnd) /\ UNCHANGED <<upstream, task, conn, link>>

AgentHangsUp ==
  /\ agent \in {"waiting", "reading"}
  /\ agent' = "gone"
  /\ body' = <<>>
  /\ UNCHANGED <<upstream, task, conn, link, turn, got>>

\* What is in flight arrives in part.
LinkBreaks ==
  /\ conn = "open" /\ ~Over
  /\ conn' = "network"
  /\ \E n \in 0 .. Len(link) : link' = SubSeq(link, 1, n)
  /\ UNCHANGED <<upstream, task, local>>

Idle == Over /\ pump.pc \in {"none", "done"} /\ task.pc \in {"read", "over"} /\ UNCHANGED vars

Next == Api \/ Pump \/ Remote \/ Local \/ Agent \/ AgentHangsUp \/ LinkBreaks \/ Idle

\* The tasks of both ends are scheduled, timeouts expire, and an agent that stays
\* reads.  The upstream API owes nothing.
Spec == Init /\ [][Next]_vars
Fairness == WF_vars(Pump) /\ WF_vars(Remote) /\ WF_vars(Local) /\ WF_vars(Agent)
FairSpec == Spec /\ Fairness

-----------------------------------------------------------------------------
\* Every hand-over is in a state it has a name for, and no queue over its limit.
TypeOK ==
  /\ api.state \in {"asked", "refused", "open", "ended", "broken", "dropped"}
  /\ pump.pc \in {"none", "read", "push", "error", "done"}
  /\ task.pc \in {"send", "head", "relay", "write", "read", "over"}
  /\ conn \in {"open", "remote", "local", "network"}
  /\ turn.pc \in {"await", "push", "done", "failed"}
  /\ agent \in {"waiting", "reading", "ended", "refused", "gone"}
  /\ Len(chan) <= ChanCap /\ Len(link) <= LinkCap /\ Len(body) <= BodyCap

\* A turn that ends well has handed over a whole answer: the upstream ended it,
\* and every chunk of it has reached the agent or waits for it, in order; or it
\* is the one chunk of a 502.  An answer that breaks off, on any part of its way,
\* is never recorded as a success (upstream.rs, session.rs, local.rs).
DoneIsWhole ==
  turn.pc = "done" /\ agent # "gone" =>
    \/ got \o body = <<0>> /\ api.state = "dropped"
    \/ api.state = "ended" /\ got \o body = [i \in 1 .. api.sent |-> i]

\* When the agent has gone nobody keeps the upstream connection for it: the pump
\* ends although it, and remote_end, only notice by writing (upstream.rs, pump).
Released ==
  agent = "gone" ~> pump.pc \in {"none", "done"} /\ task.pc \in {"read", "over"}

\* An agent that stays gets an end, whatever the upstream leaves undone and however full
\* the queues are (send, pump, remote_end, local_end).  Of an upstream that sends for
\* ever, a frame within each timeout, nothing is said: MaxFrames bounds it, the code
\* does not.
EveryAnswerEnds == agent = "waiting" ~> agent \in {"ended", "refused", "gone"}
=============================================================================
