------------------------------ MODULE Exchange ------------------------------
(***************************************************************************)
(* What the gateway promises an agent, with no link in sight: the upstream *)
(* API receives a request at most Tries times, and the agent gets a 502 or *)
(* a prefix of one of the answers, in order.  When nothing breaks (Sound)  *)
(* there is no 502 and the answer is whole.                                *)
(***************************************************************************)
EXTENDS Naturals, Sequences

CONSTANTS Requests, NChunks, Tries, Sound

VARIABLES agent, got, calls

xvars == <<agent, got, calls>>

Init ==
  /\ agent = [r \in Requests |-> "idle"]
  /\ got = [r \in Requests |-> <<>>]
  /\ calls = [r \in Requests |-> 0]

Ask(r) ==
  /\ agent[r] = "idle"
  /\ agent' = [agent EXCEPT ![r] = "waiting"]
  /\ UNCHANGED <<got, calls>>

\* Possibly after the agent has got its answer, or has gone: an attempt that was
\* given up can still reach the upstream API.
Call(r) ==
  /\ agent[r] # "idle"
  /\ calls[r] < Tries
  /\ calls' = [calls EXCEPT ![r] = @ + 1]
  /\ UNCHANGED <<agent, got>>

Answer(r, n, i) == [req |-> r, call |-> n, part |-> i]

Begin(r) ==
  /\ agent[r] = "waiting"
  /\ \E n \in 1..calls[r] : got' = [got EXCEPT ![r] = <<Answer(r, n, 0)>>]
  /\ agent' = [agent EXCEPT ![r] = "streaming"]
  /\ UNCHANGED calls

Continue(r) ==
  /\ agent[r] = "streaming"
  /\ Len(got[r]) <= NChunks
  /\ got' = [got EXCEPT ![r] = Append(@, Answer(r, @[1].call, Len(@)))]
  /\ UNCHANGED <<agent, calls>>

Finish(r) ==
  /\ agent[r] = "streaming"
  /\ Sound => Len(got[r]) = NChunks + 1
  /\ agent' = [agent EXCEPT ![r] = "ended"]
  /\ UNCHANGED <<got, calls>>

Refuse(r) ==
  /\ agent[r] = "waiting"
  /\ ~Sound
  /\ agent' = [agent EXCEPT ![r] = "refused"]
  /\ UNCHANGED <<got, calls>>

HangUp(r) ==
  /\ agent[r] \in {"waiting", "streaming"}
  /\ agent' = [agent EXCEPT ![r] = "gone"]
  /\ UNCHANGED <<got, calls>>

Next == \E r \in Requests :
  Ask(r) \/ Call(r) \/ Begin(r) \/ Continue(r) \/ Finish(r) \/ Refuse(r) \/ HangUp(r)

Spec == Init /\ [][Next]_xvars
=============================================================================
