------------------------------- MODULE MCLink -------------------------------
(* Instances of Link for TLC: who the requests and blocks are. *)
EXTENDS Link

CONSTANTS r1, r2, msg, img

\* Two turns of one conversation.  msg is a message of the history and contains
\* the payload img; r2 repeats msg (both requests share it).
OneMessage  == [r \in Requests |-> {msg}]
Nested      == [b \in Blocks |-> IF b = msg THEN Blocks \ {msg} ELSE {}]

\* r1 goes whole (not a path that is split), r2 is split.
SecondSplit == [r \in Requests |-> IF r = r2 THEN {msg} ELSE {}]
Flat        == [b \in Blocks |-> {}]

ConnSymmetry == Permutations(Conns)
=============================================================================
