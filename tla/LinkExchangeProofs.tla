------------------------- MODULE LinkExchangeProofs -------------------------
(***************************************************************************)
(* The link implements the exchange it promises its agents, for every      *)
(* instance.  Besides what is on the wires (LinkInv) this needs an account *)
(* of the calls the upstream API may still get, of the ways an answer can  *)
(* break off, and of what the agent of a turn has seen.                    *)
(***************************************************************************)
EXTENDS LinkProofs

\* No connection breaks, and no agent hangs up.
Steady == Env \cap {"cut", "restart", "hangup"} = {}

\* No connection breaks.
Calm == Env \cap {"cut", "restart"} = {}

\* Nothing that could cost an agent its answer: Exchange's Sound.
SoundLink == Env \cap LinkFaults = {} /\ Pairings = {TRUE}

-----------------------------------------------------------------------------
(* The account of calls. *)

\* How many calls of the upstream API the attempts of a turn are good for.
Budget(v) == IF Steady THEN (IF v.pc \in {"new", "ready"} THEN 0 ELSE 1) ELSE v.attempt

\* The task has still to call the upstream API for r: it is reading r's upload, or
\* waits for blocks the local end can still send.
Pending(r, t, u, open) ==
  /\ t.pc \in {"read", "repair"}
  /\ u # <<>> \/ (t.pc = "repair" /\ open)
  /\ \/ t.head.req = r
     \/ \E i \in 1..Len(u) : u[i].tag = "RequestHead" /\ u[i].req = r

\* Connection c may still bring a call for r.
Owes(r, c) == Pending(r, task[c], up[c], c \in dialed)

Owed(r) == {c \in Conns : Owes(r, c)}

\* n calls made, and one for each member of S, are within b.
Within(n, S, b) == IsFiniteSet(S) /\ n + Cardinality(S) <= b

\* A call made or still owed is one of an attempt.
CountInv == \A r \in Requests : Within(calls[r], Owed(r), Budget(turn[r]))

\* When no connection breaks and no agent hangs up, only the turn's own connection
\* owes a call, and none was made when the remote end gives up.
SteadyInv == Steady => \A r \in Requests :
  /\ \A c \in Conns : Owes(r, c) => turn[r].conn = c
  /\ turn[r].conn # None /\ Says(down[turn[r].conn], "Fail") => calls[r] = 0

-----------------------------------------------------------------------------
(* How an answer breaks off. *)

\* The remote end has given up, or the upstream has.
Broken(d, g) ==
  \/ d = <<>> /\ g # <<>> /\ "upstream" \in Env
  \/ d # <<>> /\ d[Len(d)].tag = "Fail"
  \/ d # <<>> /\ d[Len(d)].tag \in {"ResponseHead", "ResponseBody"} /\ "upstream" \in Env

\* An answer that has no end to come has broken off so, or was a refusal.
CutShort(d, g) == ~Says(d, "ResponseEnd") /\ (paired => Broken(d, g))

\* When no connection breaks, a task ends only so.
CalmInv == Calm =>
  /\ cut = {}
  /\ \A c \in ToSet(pool) : Alive(c)
  /\ \A r \in Requests : turn[r].conn # None /\ ~Alive(turn[r].conn) =>
       CutShort(down[turn[r].conn], got[r])

-----------------------------------------------------------------------------
(* What the agent has seen, and the greeting. *)

\* v is the turn of the agent a, who has got g.
SeenOk(v, a, g) ==
  /\ v.pc = "new" <=> a = "idle"
  /\ v.pc \in {"ready", "await"} /\ g = <<>> => a \in {"waiting", "gone"}
  /\ v.pc = "await" /\ g # <<>> => a \in {"streaming", "gone"}
  /\ v.pc = "over" => a \in {"ended", "refused", "gone"}
  /\ a = "gone" => "hangup" \in Env
  /\ v.pc = "await" /\ ~v.whole => v.attempt = 1
  /\ v.pc = "ready" /\ ~v.whole => v.attempt = 0

AgentInv == \A r \in Requests : SeenOk(turn[r], agent[r], got[r])

\* Every ack says whether the local end is paired.
Acked(d) == \A i \in 1..Len(d) : d[i].tag = "HelloAck" => d[i].ok = paired

AckInv == paired \in Pairings /\ \A c \in Conns : Acked(down[c])

ExchangeInv == CountInv /\ SteadyInv /\ CalmInv /\ AgentInv /\ AckInv

-----------------------------------------------------------------------------
(* Counting. *)

\* The account is not disturbed when less is owed, or more may be.
LEMMA OweLess ==
  ASSUME NEW n \in Nat, NEW S, NEW T, NEW b \in Nat, NEW e \in Nat,
         Within(n, S, b), T \subseteq S, b <= e
  PROVE  Within(n, T, e)
<1>1. IsFiniteSet(S) /\ n + Cardinality(S) <= b
  BY DEF Within
<1>2. IsFiniteSet(T) /\ Cardinality(T) <= Cardinality(S)
  BY <1>1, FS_Subset
<1>3. Cardinality(S) \in Nat /\ Cardinality(T) \in Nat
  BY <1>1, <1>2, FS_CardinalityType
<1> QED
  BY <1>1, <1>2, <1>3 DEF Within

\* One attempt more owes one call more.
LEMMA OweMore ==
  ASSUME NEW n \in Nat, NEW S, NEW T, NEW c, NEW b \in Nat,
         Within(n, S, b), T \subseteq S \cup {c}
  PROVE  Within(n, T, b + 1)
<1>1. IsFiniteSet(S) /\ n + Cardinality(S) <= b
  BY DEF Within
<1>2. IsFiniteSet(S \cup {c}) /\ Cardinality(S \cup {c}) <= Cardinality(S) + 1
  <2>1. /\ IsFiniteSet(S \cup {c})
        /\ Cardinality(S \cup {c}) = IF c \in S THEN Cardinality(S) ELSE Cardinality(S) + 1
    BY <1>1, FS_AddElement
  <2> QED
    BY <1>1, <2>1, FS_CardinalityType
<1>3. IsFiniteSet(T) /\ Cardinality(T) <= Cardinality(S \cup {c})
  BY <1>2, FS_Subset
<1>4. /\ Cardinality(S) \in Nat /\ Cardinality(T) \in Nat
      /\ Cardinality(S \cup {c}) \in Nat
  BY <1>1, <1>2, <1>3, FS_CardinalityType
<1> QED
  BY <1>1, <1>2, <1>3, <1>4 DEF Within

\* A call that was owed is made.
LEMMA OwePaid ==
  ASSUME NEW n \in Nat, NEW S, NEW T, NEW c \in S, NEW b \in Nat,
         Within(n, S, b), T \subseteq S \ {c}
  PROVE  Within(n + 1, T, b)
<1>1. IsFiniteSet(S) /\ n + Cardinality(S) <= b
  BY DEF Within
<1>2. IsFiniteSet(S \ {c}) /\ Cardinality(S \ {c}) = Cardinality(S) - 1
  BY <1>1, FS_RemoveElement
<1>3. IsFiniteSet(T) /\ Cardinality(T) <= Cardinality(S \ {c})
  BY <1>2, FS_Subset
<1>4. /\ Cardinality(S) \in Nat /\ Cardinality(T) \in Nat
      /\ Cardinality(S \ {c}) \in Nat
  BY <1>1, <1>2, <1>3, FS_CardinalityType
<1> QED
  BY <1>1, <1>2, <1>3, <1>4 DEF Within

\* What the account says: nothing is over the budget, and what is owed is not made.
LEMMA OweBound ==
  ASSUME NEW n \in Nat, NEW S, NEW b \in Nat, Within(n, S, b)
  PROVE  n <= b /\ \A c \in S : n + 1 <= b
<1>1. IsFiniteSet(S) /\ n + Cardinality(S) <= b /\ Cardinality(S) \in Nat
  BY FS_CardinalityType DEF Within
<1>2. ASSUME NEW c \in S  PROVE n + 1 <= b
  <2>1. Cardinality(S) # 0
    BY <1>1, FS_EmptySet
  <2> QED
    BY <1>1, <2>1
<1> QED
  BY <1>1, <1>2

\* Nothing is owed.
LEMMA OweNothing ==
  ASSUME NEW n \in Nat, NEW b \in Nat, n <= b
  PROVE  Within(n, {}, b)
BY FS_EmptySet DEF Within

\* A budget is a number, one at most when nothing breaks.
LEMMA BudgetType ==
  ASSUME NEW v \in Turn
  PROVE  /\ Budget(v) \in Nat /\ Budget(v) <= 2
         /\ Steady => Budget(v) <= 1
<1>1. v.attempt \in 0..2
  BY DEF Turn
<1> QED
  BY <1>1 DEF Budget

-----------------------------------------------------------------------------
(* What a task owes. *)

\* A task that reads a frame owes no more than before.
LEMMA PendingReads ==
  ASSUME NEW q \in Requests, NEW t, NEW u \in Seq(UpFrame), u # <<>>, NEW open,
         t.pc \in {"read", "repair"}, NEW next,
         \/ next.head.req = t.head.req
         \/ u[1].tag = "RequestHead" /\ next.head.req = u[1].req,
         Pending(q, next, Tail(u), open)
  PROVE  Pending(q, t, u, open)
<1>1. /\ Len(Tail(u)) = Len(u) - 1 /\ Len(u) \in Nat \ {0}
      /\ \A i \in 1..(Len(u) - 1) : Tail(u)[i] = u[i + 1] /\ i + 1 \in 1..Len(u)
  BY TailParts
<1>2. 1 \in 1..Len(u)
  BY <1>1
<1>3. CASE next.head.req = q
  BY <1>2, <1>3 DEF Pending
<1>4. CASE next.head.req # q
  <2>1. PICK i \in 1..Len(Tail(u)) : Tail(u)[i].tag = "RequestHead" /\ Tail(u)[i].req = q
    BY <1>4 DEF Pending
  <2>2. i + 1 \in 1..Len(u) /\ u[i + 1] = Tail(u)[i]
    BY <1>1, <2>1
  <2> QED
    BY <2>1, <2>2 DEF Pending
<1> QED
  BY <1>3, <1>4

\* A task that has called, that has ended, or waits for the next request owes none.
LEMMA PendingNothing ==
  ASSUME NEW q, NEW t, NEW u, NEW open,
         t.pc \notin {"read", "repair"} \/ (t.pc = "read" /\ u = <<>>)
  PROVE  ~Pending(q, t, u, open)
BY DEF Pending

\* An idle connection owes none either, whatever Resets are on it.
LEMMA PendingIdle ==
  ASSUME NEW q \in Requests, NEW t, NEW u \in Seq(UpFrame), NEW open,
         t.pc = "ended" \/ t = Blank,
         \A i \in 1..Len(u) : u[i].tag = "RequestHead" => u[i].req # q
  PROVE  ~Pending(q, t, u, open)
BY FreshTasks, NoneAssumption DEF Pending

\* Less arrives, or the connection is closed.
LEMMA PendingLess ==
  ASSUME NEW q, NEW t, NEW u, NEW v, v = <<>> \/ v = u, NEW open, NEW stays,
         stays => open, Pending(q, t, v, stays)
  PROVE  Pending(q, t, u, open)
BY DEF Pending

-----------------------------------------------------------------------------
(* Steps of the remote end. *)

\* How a task ends.
LEMMA CloseShape ==
  ASSUME TypeOK, NEW c \in Conns, NEW frames, NEW unread, Close(c, frames, unread)
  PROVE  /\ task' = [task EXCEPT ![c] = Ended] /\ up' = [up EXCEPT ![c] = <<>>]
         /\ \E e \in {<<>>, down[c], down[c] \o frames} : down' = [down EXCEPT ![c] = e]
BY DEF Close

\* How it writes.
LEMMA WriteShape ==
  ASSUME TypeOK, NEW c \in Conns, NEW frames, NEW next, NEW rest,
         Write(c, frames, next, rest)
  PROVE  \/ /\ task' = [task EXCEPT ![c] = next] /\ up' = [up EXCEPT ![c] = rest]
            /\ \E e \in {down[c], down[c] \o frames} : down' = [down EXCEPT ![c] = e]
         \/ ~Heard(c) /\ Close(c, <<>>, FALSE)
<1>1. down = [down EXCEPT ![c] = down[c]]
  BY DEF TypeOK, TypeWire
<1> QED
  BY <1>1 DEF Write

\* Nothing new is owed where the far end stands still and no connection is opened.
LEMMA OwesStill ==
  ASSUME task' = task, up' = up, dialed' \subseteq dialed, NEW q, NEW x, Owes(q, x)'
  PROVE  Owes(q, x)
BY PendingLess DEF Owes, Pending

\* Nor where a task reads.
LEMMA OwesReading ==
  ASSUME TypeOK, NEW c \in Conns, dialed' = dialed, up[c] # <<>>,
         task[c].pc \in {"read", "repair"}, NEW next,
         task' = [task EXCEPT ![c] = next], up' = [up EXCEPT ![c] = Tail(up[c])],
         \/ next.head.req = task[c].head.req
         \/ up[c][1].tag = "RequestHead" /\ next.head.req = up[c][1].req,
         NEW q \in Requests, NEW x \in Conns, Owes(q, x)'
  PROVE  Owes(q, x)
<1>1. /\ task \in [Conns -> Task] /\ up \in [Conns -> Seq(UpFrame)]
      /\ up[c] \in Seq(UpFrame)
  BY DEF TypeOK, TypeWire, TypeRemote
<1>2. CASE x = c
  <2> DEFINE open == c \in dialed  t == task[c]  u == up[c]
  <2>1. Pending(q, next, Tail(u), open)
    BY <1>1, <1>2 DEF Owes
  <2> HIDE DEF open, t, u
  <2>2. /\ u \in Seq(UpFrame) /\ u # <<>> /\ t.pc \in {"read", "repair"}
        /\ \/ next.head.req = t.head.req
           \/ u[1].tag = "RequestHead" /\ next.head.req = u[1].req
    BY <1>1 DEF t, u
  <2>3. Pending(q, t, u, open)
    BY <2>1, <2>2, PendingReads
  <2> QED
    BY <1>2, <2>3 DEF Owes, t, u, open
<1>3. CASE x # c
  BY <1>1, <1>3 DEF Owes
<1> QED
  BY <1>2, <1>3

\* Nor where it has called, has ended, or is between two requests.
LEMMA OwesNone ==
  ASSUME TypeOK, NEW c \in Conns, dialed' = dialed, NEW next, NEW v,
         task' = [task EXCEPT ![c] = next], up' = [up EXCEPT ![c] = v],
         next.pc \notin {"read", "repair"} \/ (next.pc = "read" /\ v = <<>>),
         NEW q \in Requests, NEW x \in Conns, Owes(q, x)'
  PROVE  Owes(q, x) /\ x # c
<1>1. task \in [Conns -> Task] /\ up \in [Conns -> Seq(UpFrame)]
  BY DEF TypeOK, TypeWire, TypeRemote
<1>2. x # c
  <2> SUFFICES ASSUME x = c  PROVE FALSE
    OBVIOUS
  <2>1. Pending(q, next, v, c \in dialed')
    BY <1>1 DEF Owes
  <2> QED
    BY <2>1, PendingNothing
<1>3. Owes(q, x)
  BY <1>1, <1>2 DEF Owes
<1> QED
  BY <1>2, <1>3

\* Nor where it ends.
LEMMA OwesEnded ==
  ASSUME TypeOK, NEW c \in Conns, dialed' = dialed, NEW frames, NEW unread,
         Close(c, frames, unread), NEW q \in Requests, NEW x \in Conns, Owes(q, x)'
  PROVE  Owes(q, x) /\ x # c
<1>1. task' = [task EXCEPT ![c] = Ended] /\ up' = [up EXCEPT ![c] = <<>>]
  BY CloseShape
<1> QED
  BY <1>1, OwesNone, FreshTasks

\* A step of the remote end, or of its upstream, owes nothing new.
LEMMA RemoteOwes ==
  ASSUME TypeOK, LinkInv, NEW c \in Conns, Remote(c) \/ UpstreamBreaks(c),
         NEW q \in Requests, NEW x \in Conns, Owes(q, x)'
  PROVE  Owes(q, x) /\ (RemoteForwards(c) => x # c)
<1>1. dialed' = dialed
  <2>1. CASE Remote(c)
    BY <2>1, RemoteLeaves DEF local
  <2>2. CASE UpstreamBreaks(c)
    BY <2>2 DEF UpstreamBreaks, local
  <2> QED
    BY <2>1, <2>2
<1>2. /\ task[c] \in Task /\ up[c] \in Seq(UpFrame)
      /\ up[c] # <<>> => Frame(c) = up[c][1]
  BY ConnFacts, FrameFirst
<1>3. ASSUME NEW frames, NEW unread, Close(c, frames, unread)  PROVE Owes(q, x) /\ x # c
  BY <1>1, <1>3, OwesEnded
<1>4. ASSUME NEW frames, NEW next, NEW rest, Write(c, frames, next, rest)
      PROVE  Owes(q, x) \/ (task' = [task EXCEPT ![c] = next] /\ up' = [up EXCEPT ![c] = rest])
  <2>1. CASE Close(c, <<>>, FALSE)
    BY <1>3, <2>1
  <2>2. CASE ~Close(c, <<>>, FALSE)
    BY <1>4, <2>2, WriteShape
  <2> QED
    BY <2>1, <2>2
<1>5. CASE RemoteForwards(c)
  <2> DEFINE r == task[c].head.req
             next == [task[c] EXCEPT !.pc = "upstream", !.call = calls[r] + 1,
                        !.relayed = 0, !.repairs = 0,
                        !.literal = IF task[c].head.split THEN @ ELSE <<>>]
  <2>1. task' = [task EXCEPT ![c] = next]
    BY <1>2, <1>5, ConnFacts DEF RemoteForwards
  <2>2. next.pc = "upstream"
    BY <1>2 DEF Task
  <2>3. up' = [up EXCEPT ![c] = Tail(up[c])]
    BY <1>5 DEF RemoteForwards, Pop
  <2> HIDE DEF next
  <2> QED
    BY <1>1, <2>1, <2>2, <2>3, OwesNone
<1>6. CASE RemoteHello(c) /\ ~RemoteForwards(c)
  <2> DEFINE next == [task[c] EXCEPT !.greeted = TRUE]
             ack == HelloAck(paired, rstore = {})
  <2>1. /\ up[c] # <<>> /\ task[c].pc = "read"
        /\ \/ Close(c, <<ack>>, Tail(up[c]) # <<>>)
           \/ Write(c, <<ack>>, next, Tail(up[c]))
    BY <1>6 DEF RemoteHello, Listening, Received
  <2>2. next.head.req = task[c].head.req
    BY <1>2 DEF Task
  <2> HIDE DEF next, ack
  <2>3. \/ Owes(q, x)
        \/ task' = [task EXCEPT ![c] = next] /\ up' = [up EXCEPT ![c] = Tail(up[c])]
    BY <1>3, <1>4, <2>1
  <2> QED
    BY <1>1, <1>6, <2>1, <2>2, <2>3, OwesReading
<1>7. CASE RemoteHead(c) /\ ~RemoteForwards(c)
  <2> DEFINE next == [task[c] EXCEPT !.head = [req |-> Frame(c).req, split |-> Frame(c).split]]
  <2>1. /\ up[c] # <<>> /\ task[c].pc = "read" /\ up[c][1].tag = "RequestHead"
        /\ \/ Close(c, <<>>, TRUE)
           \/ task' = [task EXCEPT ![c] = next] /\ up' = [up EXCEPT ![c] = Tail(up[c])]
    BY <1>2, <1>7, ConnFacts DEF RemoteHead, Listening, Received, Pop, Frame
  <2>2. next.head.req = up[c][1].req
    BY <1>2, <2>1 DEF Task
  <2> HIDE DEF next
  <2> QED
    BY <1>1, <1>3, <1>7, <2>1, <2>2, OwesReading
<1>8. CASE (RemoteProgram(c) \/ RemoteBody(c)) /\ ~RemoteForwards(c)
  <2>1. PICK next : /\ task' = [task EXCEPT ![c] = next]
                    /\ next.head.req = task[c].head.req
    <3> DEFINE withProgram == [task[c] EXCEPT !.instrs = Frame(c).req]
               withBody == [task[c] EXCEPT !.literal = Append(@, Frame(c).req)]
    <3>1. withProgram.head.req = task[c].head.req /\ withBody.head.req = task[c].head.req
      BY <1>2 DEF Task
    <3>2. \/ task' = [task EXCEPT ![c] = withProgram]
          \/ task' = [task EXCEPT ![c] = withBody]
      BY <1>8 DEF RemoteProgram, RemoteBody
    <3> QED
      BY <3>1, <3>2
  <2>2. up[c] # <<>> /\ task[c].pc = "read" /\ up' = [up EXCEPT ![c] = Tail(up[c])]
    BY <1>8 DEF RemoteProgram, RemoteBody, Listening, Received, Pop
  <2> QED
    BY <1>1, <1>8, <2>1, <2>2, OwesReading
<1>9. CASE (RemoteBlock(c) \/ RemoteReset(c)) /\ ~RemoteForwards(c)
  <2>1. /\ up[c] # <<>> /\ task[c].pc \in {"read", "repair"}
        /\ up' = [up EXCEPT ![c] = Tail(up[c])] /\ task' = task
    BY <1>9 DEF RemoteBlock, RemoteReset, Listening, Received, Pop
  <2>2. task' = [task EXCEPT ![c] = task[c]]
    BY <2>1, ConnFacts
  <2> QED
    BY <1>1, <1>9, <2>1, <2>2, OwesReading
<1>10. CASE RemoteAsksAgain(c) /\ ~RemoteForwards(c)
  <2> DEFINE next == [task[c] EXCEPT !.pc = "repair", !.repairs = @ + 1]
  <2>1. PICK ds : Write(c, <<Need(ds)>>, next, Tail(up[c]))
    BY <1>10 DEF RemoteAsksAgain
  <2>2. up[c] # <<>> /\ task[c].pc \in {"read", "repair"}
    BY <1>10 DEF RemoteAsksAgain, BodyComplete, Received
  <2>3. next.head.req = task[c].head.req
    BY <1>2 DEF Task
  <2> HIDE DEF next
  <2>4. \/ Owes(q, x)
        \/ task' = [task EXCEPT ![c] = next] /\ up' = [up EXCEPT ![c] = Tail(up[c])]
    BY <1>4, <2>1
  <2> QED
    BY <1>1, <1>10, <2>2, <2>3, <2>4, OwesReading
<1>11. CASE (RemoteFails(c) \/ RemoteEof(c) \/ UpstreamBreaks(c)) /\ ~RemoteForwards(c)
  BY <1>3, <1>11 DEF RemoteFails, RemoteEof, UpstreamBreaks
<1>12. CASE (RemoteResponds(c) \/ RemoteRelays(c) \/ RemoteFinishes(c)) /\ ~RemoteForwards(c)
  <2>1. up[c] = <<>>
    BY <1>12, Answering DEF RemoteResponds, RemoteRelays, RemoteFinishes
  <2>2. PICK next, frames : /\ Write(c, frames, next, up[c])
                            /\ next.pc \in {"read", "relay"}
    <3>1. CASE RemoteResponds(c)
      <4>1. [task[c] EXCEPT !.pc = "relay"].pc = "relay"
        BY <1>2 DEF Task
      <4> QED
        BY <3>1, <4>1 DEF RemoteResponds
    <3>2. CASE RemoteRelays(c)
      <4>1. [task[c] EXCEPT !.relayed = @ + 1].pc = "relay"
        BY <1>2, <3>2 DEF Task, RemoteRelays
      <4> QED
        BY <3>2, <4>1 DEF RemoteRelays
    <3>3. CASE RemoteFinishes(c)
      <4> DEFINE next == [task[c] EXCEPT !.pc = "read", !.head = NoHead, !.instrs = None,
                                         !.call = 0, !.relayed = 0]
      <4>1. next.pc = "read"
        BY <1>2 DEF Task
      <4>2. \E frames : Write(c, frames, next, up[c])
        BY <3>3 DEF RemoteFinishes
      <4> HIDE DEF next
      <4> QED
        BY <4>1, <4>2
    <3> QED
      BY <1>12, <3>1, <3>2, <3>3
  <2>3. CASE Owes(q, x)
    BY <1>12, <2>3
  <2>4. CASE task' = [task EXCEPT ![c] = next] /\ up' = [up EXCEPT ![c] = up[c]]
    BY <1>1, <1>12, <2>1, <2>2, <2>4, OwesNone
  <2> QED
    BY <1>4, <2>2, <2>3, <2>4
<1> QED
  BY <1>5, <1>6, <1>7, <1>8, <1>9, <1>10, <1>11, <1>12 DEF Remote

\* What every step of the remote end leaves alone.
LEMMA RemoteStill ==
  ASSUME NEW c \in Conns, Remote(c) \/ UpstreamBreaks(c)
  PROVE  /\ UNCHANGED <<turn, agent, got, pool, dialed, used, cut, paired>>
         /\ ~RemoteForwards(c) => calls' = calls
<1>1. CASE Remote(c)
  <2>1. UNCHANGED <<turn, agent, got, pool, dialed, used, cut, paired>>
    BY <1>1, RemoteLeaves DEF local, admin
  <2>2. ~RemoteForwards(c) => calls' = calls
    BY <1>1 DEF Remote, RemoteHello, RemoteHead, RemoteProgram, RemoteBody, RemoteBlock,
      RemoteReset, RemoteAsksAgain, RemoteFails, RemoteEof, RemoteResponds, RemoteRelays,
      RemoteFinishes
  <2> QED
    BY <2>1, <2>2
<1>2. CASE UpstreamBreaks(c)
  BY <1>2 DEF UpstreamBreaks, local
<1> QED
  BY <1>1, <1>2

\* A call is made of a request it was owed to.
LEMMA ForwardCalls ==
  ASSUME TypeOK, LinkInv, NEW c \in Conns, RemoteForwards(c)
  PROVE  \E r \in Requests : /\ r = task[c].head.req /\ Owes(r, c)
                             /\ calls' = [calls EXCEPT ![r] = @ + 1]
<1>1. BodyComplete(c)
  BY DEF RemoteForwards
<1>2. /\ up[c] # <<>> /\ task[c].pc \in {"read", "repair"}
      /\ task[c].head.req \in Requests
  BY <1>1, CompleteUpload
<1>3. Owes(task[c].head.req, c)
  BY <1>2 DEF Owes, Pending
<1> QED
  BY <1>2, <1>3 DEF RemoteForwards

\* The members of Owed.
LEMMA OwedMembers ==
  ASSUME NEW q
  PROVE  /\ Owed(q) \subseteq Conns /\ \A x \in Conns : x \in Owed(q) <=> Owes(q, x)
         /\ Owed(q)' \subseteq Conns /\ \A x \in Conns : x \in Owed(q)' <=> Owes(q, x)'
BY DEF Owed

\* The remote end keeps the account.
LEMMA RemoteCounts ==
  ASSUME TypeOK, LinkInv, CountInv, NEW c \in Conns, Remote(c) \/ UpstreamBreaks(c)
  PROVE  CountInv'
<1> SUFFICES ASSUME NEW q \in Requests
             PROVE  Within(calls'[q], Owed(q)', Budget(turn'[q]))
  BY DEF CountInv, Within, Budget
<1>1. /\ Within(calls[q], Owed(q), Budget(turn[q])) /\ calls[q] \in Nat
      /\ Budget(turn[q]) \in Nat /\ turn' = turn /\ calls \in [Requests -> Nat]
  BY RemoteStill, BudgetType DEF CountInv, TypeOK, TypeLocal, TypeRemote
<1>2. \A x \in Conns : Owes(q, x)' => Owes(q, x) /\ (RemoteForwards(c) => x # c)
  BY RemoteOwes
<1>3. Owed(q)' \subseteq Owed(q) /\ (RemoteForwards(c) => Owed(q)' \subseteq Owed(q) \ {c})
  BY <1>2, OwedMembers
<1>4. CASE calls'[q] = calls[q]
  BY <1>1, <1>3, <1>4, OweLess
<1>5. CASE calls'[q] # calls[q]
  <2>1. RemoteForwards(c)
    BY <1>5, RemoteStill
  <2>2. PICK r \in Requests : Owes(r, c) /\ calls' = [calls EXCEPT ![r] = @ + 1]
    BY <2>1, ForwardCalls
  <2>3. q = r /\ calls'[q] = calls[q] + 1 /\ c \in Owed(q)
    BY <1>1, <1>5, <2>2, OwedMembers
  <2>4. Within(calls[q] + 1, Owed(q)', Budget(turn[q]))
    BY <1>1, <1>3, <2>1, <2>3, OwePaid
  <2> QED
    BY <1>1, <2>3, <2>4
<1> QED
  BY <1>4, <1>5

\* What a queue says once something was written to it, or was lost.
LEMMA SaysMore ==
  ASSUME NEW d \in Seq(DownFrame), NEW w \in Seq(DownFrame), NEW e \in {<<>>, d, d \o w},
         NEW tag, Says(e, tag)
  PROVE  Says(d, tag) \/ Says(w, tag)
<1>1. \A i \in 1..Len(d \o w) : \/ \E j \in 1..Len(d) : (d \o w)[i] = d[j]
                                \/ \E j \in 1..Len(w) : (d \o w)[i] = w[j]
  BY JoinFrames
<1>2. CASE e = <<>>
  BY <1>2 DEF Says
<1>3. CASE e = d
  BY <1>3
<1>4. CASE e = d \o w
  BY <1>1, <1>4 DEF Says
<1> QED
  BY <1>2, <1>3, <1>4

\* Its acks tell the truth if they did, and what was written does.
LEMMA AckedMore ==
  ASSUME NEW d \in Seq(DownFrame), NEW w \in Seq(DownFrame), NEW e \in {<<>>, d, d \o w},
         Acked(d), Acked(w)
  PROVE  Acked(e)
<1>1. \A i \in 1..Len(d \o w) : \/ \E j \in 1..Len(d) : (d \o w)[i] = d[j]
                                \/ \E j \in 1..Len(w) : (d \o w)[i] = w[j]
  BY JoinFrames
<1>2. CASE e = <<>>
  BY <1>2 DEF Acked
<1>3. CASE e = d
  BY <1>3
<1>4. CASE e = d \o w
  BY <1>1, <1>4 DEF Acked
<1> QED
  BY <1>2, <1>3, <1>4

\* One frame, as a queue.
LEMMA SaysOne ==
  ASSUME NEW f \in DownFrame
  PROVE  /\ <<f>> \in Seq(DownFrame) /\ \A tag : Says(<<f>>, tag) <=> f.tag = tag
         /\ f.tag # "HelloAck" \/ f.ok = paired => Acked(<<f>>)
<1>1. <<f>> \in Seq(DownFrame) /\ Len(<<f>>) = 1 /\ <<f>>[1] = f
  OBVIOUS
<1> QED
  BY <1>1 DEF Says, Acked

\* What the remote end adds to its answer: acks that tell the truth, and a Fail only
\* when it fails.
Adds(c, w) == /\ w \in Seq(DownFrame) /\ Acked(w) /\ (Says(w, "Fail") => RemoteFails(c))
              /\ \E e \in {<<>>, down[c], down[c] \o w} : down' = [down EXCEPT ![c] = e]

\* It adds nothing when it does not write.
LEMMA AddsNothing ==
  ASSUME TypeOK, NEW c \in Conns, \/ down' = down
                                  \/ \E unread : Close(c, <<>>, unread)
  PROVE  Adds(c, <<>>)
<1>1. <<>> \in Seq(DownFrame) /\ Acked(<<>>) /\ ~Says(<<>>, "Fail")
  BY SaysNothing DEF Acked
<1>2. down = [down EXCEPT ![c] = down[c]]
  BY DEF TypeOK, TypeWire
<1>3. \E e \in {<<>>, down[c], down[c] \o <<>>} : down' = [down EXCEPT ![c] = e]
  BY <1>2, CloseShape
<1> QED
  BY <1>1, <1>3 DEF Adds

\* Or writes in vain.
LEMMA AddsWritten ==
  ASSUME TypeOK, NEW c \in Conns, NEW w \in Seq(DownFrame), NEW next, NEW rest,
         Acked(w), Says(w, "Fail") => RemoteFails(c),
         Write(c, w, next, rest) \/ \E unread : Close(c, w, unread)
  PROVE  \E v : Adds(c, v)
<1>1. CASE Close(c, <<>>, FALSE)
  BY <1>1, AddsNothing
<1>2. CASE ~Close(c, <<>>, FALSE)
  BY <1>2, WriteShape, CloseShape DEF Adds
<1> QED
  BY <1>1, <1>2

\* Every step of the remote end adds such frames.
LEMMA RemoteAdds ==
  ASSUME TypeOK, LinkInv, NEW c \in Conns, Remote(c) \/ UpstreamBreaks(c)
  PROVE  \E w : Adds(c, w)
<1>1. /\ task[c] \in Task /\ (rstore = {}) \in BOOLEAN /\ paired \in BOOLEAN
      /\ rstore \subseteq Blocks
  BY ConnFacts DEF TypeOK, TypeAdmin, TypeRemote
<1>2. CASE RemoteHello(c)
  <2> DEFINE ack == HelloAck(paired, rstore = {})
  <2>1. /\ ack \in DownFrame /\ ack.tag = "HelloAck" /\ ack.ok = paired
    BY <1>1, DownTypes DEF HelloAck
  <2>2. \/ \E next, rest : Write(c, <<ack>>, next, rest)
        \/ \E unread : Close(c, <<ack>>, unread)
    BY <1>2 DEF RemoteHello
  <2> HIDE DEF ack
  <2>3. <<ack>> \in Seq(DownFrame) /\ Acked(<<ack>>) /\ ~Says(<<ack>>, "Fail")
    BY <2>1, SaysOne
  <2> QED
    BY <2>2, <2>3, AddsWritten
<1>3. CASE RemoteHead(c)
  <2>1. down' = down \/ Close(c, <<>>, TRUE)
    BY <1>3 DEF RemoteHead
  <2> QED
    BY <2>1, AddsNothing
<1>4. CASE \/ RemoteProgram(c) \/ RemoteBody(c) \/ RemoteBlock(c) \/ RemoteReset(c)
           \/ RemoteForwards(c)
  <2>1. down' = down
    BY <1>4 DEF RemoteProgram, RemoteBody, RemoteBlock, RemoteReset, RemoteForwards
  <2> QED
    BY <2>1, AddsNothing
<1>5. CASE RemoteEof(c) \/ UpstreamBreaks(c)
  <2>1. Close(c, <<>>, FALSE)
    BY <1>5 DEF RemoteEof, UpstreamBreaks
  <2> QED
    BY <2>1, AddsNothing
<1>6. CASE RemoteAsksAgain(c)
  <2>1. PICK ds \in Wanted(c) : \E next, rest : Write(c, <<Need(ds)>>, next, rest)
    BY <1>6 DEF RemoteAsksAgain
  <2>2. Need(ds) \in DownFrame /\ Need(ds).tag = "Need"
    BY WantedType, DownTypes DEF Need
  <2>3. <<Need(ds)>> \in Seq(DownFrame) /\ Acked(<<Need(ds)>>) /\ ~Says(<<Need(ds)>>, "Fail")
    BY <2>2, SaysOne
  <2> QED
    BY <2>1, <2>3, AddsWritten
<1>7. CASE RemoteFails(c)
  <2> DEFINE f == Fail(Wanted(c) # {})
  <2>1. f \in DownFrame /\ f.tag = "Fail"
    BY DownTypes DEF Fail
  <2>2. Close(c, <<f>>, FALSE)
    BY <1>7, FailSaid
  <2> HIDE DEF f
  <2>3. <<f>> \in Seq(DownFrame) /\ Acked(<<f>>)
    BY <2>1, SaysOne
  <2> QED
    BY <1>7, <2>2, <2>3, AddsWritten
<1>8. CASE RemoteResponds(c) \/ RemoteRelays(c)
  <2>1. /\ task[c].head.req \in Requests /\ task[c].call \in Nat /\ task[c].relayed \in Nat
    BY <1>8, Answering DEF RemoteResponds, RemoteRelays
  <2>2. PICK f \in DownFrame : /\ f.tag \in {"ResponseHead", "ResponseBody"}
                               /\ \E next, rest : Write(c, <<f>>, next, rest)
    <3>1. /\ ResponseHead(task[c].head.req, task[c].call) \in DownFrame
          /\ ResponseHead(task[c].head.req, task[c].call).tag = "ResponseHead"
      BY <2>1, DownTypes DEF ResponseHead
    <3>2. /\ ResponseBody(task[c].head.req, task[c].call, task[c].relayed + 1) \in DownFrame
          /\ ResponseBody(task[c].head.req, task[c].call, task[c].relayed + 1).tag
               = "ResponseBody"
      BY <2>1, DownTypes DEF ResponseBody
    <3>3. CASE RemoteResponds(c)
      BY <3>1, <3>3 DEF RemoteResponds
    <3>4. CASE RemoteRelays(c)
      BY <3>2, <3>4 DEF RemoteRelays
    <3> QED
      BY <1>8, <3>3, <3>4
  <2>3. <<f>> \in Seq(DownFrame) /\ Acked(<<f>>) /\ ~Says(<<f>>, "Fail")
    BY <2>2, SaysOne
  <2> QED
    BY <2>2, <2>3, AddsWritten
<1>9. CASE RemoteFinishes(c)
  <2>1. PICK extra \in SUBSET Collide :
          \E next, rest : Write(c, <<Bloom(rstore \cup extra), ResponseEnd>>, next, rest)
    BY <1>9 DEF RemoteFinishes
  <2> DEFINE f == Bloom(rstore \cup extra)  w == <<f, ResponseEnd>>
  <2>2. rstore \cup extra \in SUBSET Blocks
    BY <1>1, EnvAssumption
  <2>3. /\ f \in DownFrame /\ f.tag = "Bloom"
        /\ ResponseEnd \in DownFrame /\ ResponseEnd.tag = "ResponseEnd"
    BY <2>2, DownTypes DEF Bloom, ResponseEnd
  <2> HIDE DEF f
  <2>4. w \in Seq(DownFrame) /\ Len(w) = 2 /\ w[1] = f /\ w[2] = ResponseEnd
    BY <2>3
  <2>5. \A i \in 1..Len(w) : w[i].tag \in {"Bloom", "ResponseEnd"}
    BY <2>3, <2>4
  <2>6. Acked(w) /\ ~Says(w, "Fail")
    BY <2>5 DEF Acked, Says
  <2>7. \E next, rest : Write(c, w, next, rest)
    BY <2>1 DEF f
  <2> HIDE DEF w
  <2> QED
    BY <2>4, <2>6, <2>7, AddsWritten
<1> QED
  BY <1>2, <1>3, <1>4, <1>5, <1>6, <1>7, <1>8, <1>9 DEF Remote

\* So what it says is as it was, but for that.
LEMMA RemoteSays ==
  ASSUME TypeOK, LinkInv, NEW c \in Conns, Remote(c) \/ UpstreamBreaks(c), NEW x \in Conns
  PROVE  /\ Acked(down[x]) => Acked(down'[x])
         /\ Says(down'[x], "Fail") => Says(down[x], "Fail") \/ (x = c /\ RemoteFails(c))
<1>1. PICK w : Adds(c, w)
  BY RemoteAdds
<1>2. w \in Seq(DownFrame) /\ Acked(w) /\ (Says(w, "Fail") => RemoteFails(c))
  BY <1>1 DEF Adds
<1>3. PICK e \in {<<>>, down[c], down[c] \o w} : down' = [down EXCEPT ![c] = e]
  BY <1>1 DEF Adds
<1>4. down \in [Conns -> Seq(DownFrame)] /\ down[c] \in Seq(DownFrame)
  BY DEF TypeOK, TypeWire
<1>5. CASE x = c
  <2> DEFINE d == down[c]
  <2>0. /\ w \in Seq(DownFrame) /\ d \in Seq(DownFrame)
        /\ e \in {<<>>, d, d \o w}
    BY <1>2, <1>4
  <2>1. down'[x] = e /\ d \in Seq(DownFrame) /\ e \in {<<>>, d, d \o w} /\ down[x] = d
    BY <1>3, <1>4, <1>5
  <2> HIDE DEF d
  <2>2. Acked(d) => Acked(e)
    BY <1>2, <2>1, AckedMore
  <2>3. ASSUME NEW tag, Says(e, tag)  PROVE Says(d, tag) \/ Says(w, tag)
    BY <2>0, <2>3, SaysMore
  <2> QED
    BY <1>2, <1>5, <2>1, <2>2, <2>3
<1>6. CASE x # c
  BY <1>3, <1>4, <1>6
<1> QED
  BY <1>5, <1>6

\* The greeting is answered truthfully.
LEMMA RemoteAcks ==
  ASSUME TypeOK, LinkInv, AckInv, NEW c \in Conns, Remote(c) \/ UpstreamBreaks(c)
  PROVE  AckInv'
<1>1. paired' = paired
  BY RemoteStill
<1>2. \A x \in Conns : Acked(down'[x])
  BY RemoteSays DEF AckInv
<1> QED
  BY <1>1, <1>2 DEF AckInv, Acked

\* The remote end gives up, in a run where nothing breaks, before it has called.
LEMMA RemoteSteady ==
  ASSUME TypeOK, Bookkeeping, OneOwner, LinkInv, CountInv, SteadyInv,
         NEW c \in Conns, Remote(c) \/ UpstreamBreaks(c)
  PROVE  SteadyInv'
<1> SUFFICES ASSUME Steady, NEW r \in Requests
             PROVE  /\ \A x \in Conns : Owes(r, x)' => turn'[r].conn = x
                    /\ turn'[r].conn # None /\ Says(down'[turn'[r].conn], "Fail")
                         => calls'[r] = 0
  BY DEF SteadyInv
<1>1. /\ turn' = turn /\ turn[r] \in Turn /\ calls \in [Requests -> Nat]
  BY RemoteStill DEF TypeOK, TypeLocal, TypeRemote
<1>2. \A x \in Conns : Owes(r, x) => turn[r].conn = x
  BY DEF SteadyInv
<1>3. ASSUME NEW x \in Conns, Owes(r, x)'  PROVE turn'[r].conn = x
  BY <1>1, <1>2, <1>3, RemoteOwes
<1>4. ASSUME turn[r].conn # None, Says(down'[turn[r].conn], "Fail")  PROVE calls'[r] = 0
  <2> DEFINE x == turn[r].conn
  <2>1. x \in Conns
    BY <1>1, <1>4 DEF Turn
  <2>2. Says(down[x], "Fail") \/ (x = c /\ RemoteFails(c))
    BY <1>4, <2>1, RemoteSays
  <2>3. CASE RemoteFails(c) /\ x = c
    <3>1. BodyComplete(c) /\ ~RemoteForwards(c)
      BY <2>3, FreshTasks, ConnFacts DEF RemoteFails, RemoteForwards, Close
    <3>2. /\ up[c] # <<>> /\ task[c].pc \in {"read", "repair"}
          /\ task[c].head.req \in Requests
      BY <3>1, CompleteUpload
    <3>3. task[c].head.req = r
      <4>1. task[c].pc # "ended"
        BY <3>2
      <4>2. task[c].head.req \in {None, r}
        BY <2>3, <4>1, OwnerFacts DEF Carries, CarriesUp
      <4> QED
        BY <3>2, <4>2, NoneAssumption
    <3>4. c \in Owed(r)
      BY <3>2, <3>3, OwedMembers DEF Owes, Pending
    <3>5. calls[r] + 1 <= Budget(turn[r]) /\ Budget(turn[r]) <= 1
      BY <1>1, <3>4, OweBound, BudgetType DEF CountInv
    <3>6. calls'[r] = calls[r]
      BY <3>1, RemoteStill
    <3> QED
      BY <1>1, <3>5, <3>6, BudgetType
  <2>4. CASE Says(down[x], "Fail") /\ ~(RemoteFails(c) /\ x = c)
    <3>1. calls[r] = 0
      BY <1>4, <2>4 DEF SteadyInv
    <3>2. SUFFICES ASSUME calls'[r] # calls[r]  PROVE FALSE
      BY <3>1
    <3>3. RemoteForwards(c)
      BY <3>2, RemoteStill
    <3>4. PICK q \in Requests : Owes(q, c) /\ calls' = [calls EXCEPT ![q] = @ + 1]
      BY <3>3, ForwardCalls
    <3>5. q = r
      BY <1>1, <3>2, <3>4
    <3>6. x = c
      BY <1>2, <3>4, <3>5
    <3>7. task[c].pc # "ended"
      BY <3>4 DEF Owes, Pending
    <3>8. ~Says(down[c], "Fail")
      BY <3>7, ConnFacts DEF WireOk
    <3> QED
      BY <2>4, <3>6, <3>8
  <2> QED
    BY <2>2, <2>3, <2>4
<1> QED
  BY <1>1, <1>3, <1>4

\* The other connections are left alone.
LEMMA RemoteElsewhere ==
  ASSUME TypeOK, Bookkeeping, LinkInv, NEW c \in Conns, Remote(c) \/ UpstreamBreaks(c),
         NEW x \in Conns, x # c
  PROVE  task'[x] = task[x] /\ down'[x] = down[x]
<1>1. task'[x] = task[x]
  BY RemoteSteps DEF TaskStep, TypeOK, TypeRemote
<1>2. PICK w : Adds(c, w)
  BY RemoteAdds
<1>3. \E e : down' = [down EXCEPT ![c] = e]
  BY <1>2 DEF Adds
<1>4. down'[x] = down[x]
  BY <1>3 DEF TypeOK, TypeWire
<1> QED
  BY <1>1, <1>4

\* A task whose connection is whole ends because it has met a stranger, has given
\* up on a body, or the upstream has broken off.
LEMMA EndsOnly ==
  ASSUME TypeOK, LinkInv, NEW c \in Conns, Remote(c) \/ UpstreamBreaks(c), Heard(c),
         task'[c].pc = "ended"
  PROVE  \/ RemoteHello(c) /\ ~paired
         \/ RemoteHead(c) /\ ~task[c].greeted
         \/ RemoteFails(c)
         \/ UpstreamBreaks(c)
<1>1. task \in [Conns -> Task] /\ task[c] \in Task
  BY DEF TypeOK, TypeRemote
<1>2. ASSUME NEW frames, NEW next, NEW rest, Write(c, frames, next, rest)
      PROVE  next.pc = "ended"
  BY <1>1, <1>2, WriteShape
<1>3. ASSUME RemoteHello(c), paired  PROVE FALSE
  <2> DEFINE next == [task[c] EXCEPT !.greeted = TRUE]
  <2>1. \E frames, rest : Write(c, frames, next, rest)
    BY <1>3 DEF RemoteHello
  <2>2. next.pc = "read"
    BY <1>1, <1>3 DEF RemoteHello, Listening, Task
  <2> HIDE DEF next
  <2> QED
    BY <1>2, <2>1, <2>2
<1>4. ASSUME RemoteHead(c), task[c].greeted  PROVE FALSE
  <2> DEFINE next == [task[c] EXCEPT !.head = [req |-> Frame(c).req, split |-> Frame(c).split]]
  <2>1. task' = [task EXCEPT ![c] = next] /\ task[c].pc = "read"
    BY <1>4 DEF RemoteHead, Listening
  <2>2. next.pc = "read"
    BY <1>1, <2>1 DEF Task
  <2> HIDE DEF next
  <2> QED
    BY <1>1, <2>1, <2>2
<1>5. ASSUME RemoteProgram(c) \/ RemoteBody(c)  PROVE FALSE
  <2> DEFINE withProgram == [task[c] EXCEPT !.instrs = Frame(c).req]
             withBody == [task[c] EXCEPT !.literal = Append(@, Frame(c).req)]
  <2>1. task[c].pc = "read"
    BY <1>5 DEF RemoteProgram, RemoteBody, Listening
  <2>2. withProgram.pc = "read" /\ withBody.pc = "read"
    BY <1>1, <2>1 DEF Task
  <2>3. \/ task' = [task EXCEPT ![c] = withProgram]
        \/ task' = [task EXCEPT ![c] = withBody]
    BY <1>5 DEF RemoteProgram, RemoteBody
  <2> HIDE DEF withProgram, withBody
  <2> QED
    BY <1>1, <2>2, <2>3
<1>6. ASSUME RemoteBlock(c) \/ RemoteReset(c)  PROVE FALSE
  BY <1>6 DEF RemoteBlock, RemoteReset, Listening
<1>7. ASSUME RemoteAsksAgain(c)  PROVE FALSE
  <2> DEFINE next == [task[c] EXCEPT !.pc = "repair", !.repairs = @ + 1]
  <2>1. \E frames, rest : Write(c, frames, next, rest)
    BY <1>7 DEF RemoteAsksAgain
  <2>2. next.pc = "repair"
    BY <1>1 DEF Task
  <2> HIDE DEF next
  <2> QED
    BY <1>2, <2>1, <2>2
<1>8. ASSUME RemoteForwards(c)  PROVE FALSE
  <2> DEFINE next == [task[c] EXCEPT !.pc = "upstream", !.call = calls[task[c].head.req] + 1,
                        !.relayed = 0, !.repairs = 0,
                        !.literal = IF task[c].head.split THEN @ ELSE <<>>]
  <2>1. task' = [task EXCEPT ![c] = next]
    BY <1>1, <1>8 DEF RemoteForwards
  <2>2. next.pc = "upstream"
    BY <1>1 DEF Task
  <2> HIDE DEF next
  <2> QED
    BY <1>1, <2>1, <2>2
<1>9. ASSUME RemoteEof(c)  PROVE FALSE
  BY <1>9 DEF RemoteEof
<1>10. ASSUME RemoteResponds(c)  PROVE FALSE
  <2> DEFINE next == [task[c] EXCEPT !.pc = "relay"]
  <2>1. \E frames, rest : Write(c, frames, next, rest)
    BY <1>10 DEF RemoteResponds
  <2>2. next.pc = "relay"
    BY <1>1 DEF Task
  <2> HIDE DEF next
  <2> QED
    BY <1>2, <2>1, <2>2
<1>11. ASSUME RemoteRelays(c)  PROVE FALSE
  <2> DEFINE next == [task[c] EXCEPT !.relayed = @ + 1]
  <2>1. \E frames, rest : Write(c, frames, next, rest)
    BY <1>11 DEF RemoteRelays
  <2>2. next.pc = "relay"
    BY <1>1, <1>11 DEF Task, RemoteRelays
  <2> HIDE DEF next
  <2> QED
    BY <1>2, <2>1, <2>2
<1>12. ASSUME RemoteFinishes(c)  PROVE FALSE
  <2> DEFINE next == [task[c] EXCEPT !.pc = "read", !.head = NoHead, !.instrs = None,
                                     !.call = 0, !.relayed = 0]
  <2>1. \E frames, rest : Write(c, frames, next, rest)
    BY <1>12 DEF RemoteFinishes
  <2>2. next.pc = "read"
    BY <1>1 DEF Task
  <2> HIDE DEF next
  <2> QED
    BY <1>2, <2>1, <2>2
<1> QED
  BY <1>3, <1>4, <1>5, <1>6, <1>7, <1>8, <1>9, <1>10, <1>11, <1>12 DEF Remote

\* What is written to a queue last, is last.
LEMMA LastWritten ==
  ASSUME NEW d \in Seq(DownFrame), NEW f \in DownFrame
  PROVE  d \o <<f>> # <<>> /\ (d \o <<f>>)[Len(d \o <<f>>)] = f
BY PutParts

\* Where it meets a stranger there is no answer, and where it gives up, or the
\* upstream has broken off, that is the last the local end hears.
LEMMA EndsShort ==
  ASSUME TypeOK, LinkInv, NEW c \in Conns, Remote(c) \/ UpstreamBreaks(c), Heard(c),
         task'[c].pc = "ended", NEW r \in Requests, turn[r].conn = c
  PROVE  CutShort(down'[c], got[r]) /\ task[c].pc # "ended" /\ task[c] # Blank
<1> DEFINE d == down[c]  e == down'[c]
<1>1. /\ d \in Seq(DownFrame) /\ down \in [Conns -> Seq(DownFrame)]
      /\ WireOk(task[c], up[c], d, c \in dialed, c \in ToSet(pool))
  BY ConnFacts DEF TypeOK, TypeWire
<1>2. ASSUME task[c].pc # "ended", task[c] # Blank
      PROVE  ~Says(d, "ResponseEnd") /\ ~Says(<<>>, "ResponseEnd")
  BY <1>1, <1>2, SaysNothing DEF WireOk
<1>3. CASE RemoteHello(c) /\ ~paired
  <2> DEFINE ack == HelloAck(paired, rstore = {})
  <2>1. /\ ack \in DownFrame /\ ack.tag = "HelloAck"
    <3>1. paired \in BOOLEAN /\ (rstore = {}) \in BOOLEAN
      BY DEF TypeOK, TypeAdmin
    <3> QED
      BY <3>1, DownTypes DEF HelloAck
  <2>2. Close(c, <<ack>>, Tail(up[c]) # <<>>)
    BY <1>3 DEF RemoteHello
  <2>3. up[c] # <<>> /\ up[c][1].tag = "Hello" /\ task[c].pc = "read"
    BY <1>3, FrameFirst DEF RemoteHello, Received, Listening, Frame
  <2>4. task[c] # Blank
    <3>1. Reads(task[c], up[c])
      BY <1>1 DEF WireOk
    <3>2. task[c] = NewTask
      BY <2>3, <3>1, ConnFacts, ReadsHello
    <3> QED
      BY <3>2, FreshTasks
  <2>5. e \in {<<>>, d, d \o <<ack>>}
    BY <1>1, <2>2, CloseShape
  <2> HIDE DEF ack, d, e
  <2>6. <<ack>> \in Seq(DownFrame) /\ d \in Seq(DownFrame) /\ ~Says(<<ack>>, "ResponseEnd")
    BY <1>1, <2>1, SaysOne
  <2>7. ~Says(d, "ResponseEnd")
    BY <1>2, <2>3, <2>4
  <2>8. ~Says(e, "ResponseEnd")
    <3>1. ~Says(d \o <<ack>>, "ResponseEnd")
      BY <2>6, <2>7, SaysMore
    <3>2. CASE e = <<>>
      BY <3>2 DEF Says
    <3> QED
      BY <2>5, <2>7, <3>1, <3>2
  <2> QED
    BY <1>3, <2>3, <2>4, <2>8 DEF CutShort, e
<1>4. CASE RemoteHead(c) /\ ~task[c].greeted
  <2>1. up[c] # <<>> /\ up[c][1].tag = "RequestHead"
    BY <1>4, FrameFirst DEF RemoteHead, Received, Frame
  <2>2. Reads(task[c], up[c])
    BY <1>1 DEF WireOk
  <2>3. task[c] = Blank
    BY <2>1, <2>2, ConnFacts, ReadsHead
  <2> QED
    BY <1>4, <2>3, FreshTasks
<1>5. CASE RemoteFails(c)
  <2> DEFINE f == Fail(Wanted(c) # {})
  <2>1. f \in DownFrame /\ f.tag = "Fail"
    BY DownTypes DEF Fail
  <2>2. Close(c, <<f>>, FALSE)
    BY <1>5, FailSaid
  <2>3. SplitRead(task[c]) \/ WholeRead(task[c])
    BY <1>5, CompleteUpload DEF RemoteFails
  <2>4. task[c] # Blank /\ task[c].pc # "ended"
    BY <2>3, FreshTasks DEF SplitRead, WholeRead
  <2>5. e = d \o <<f>>
    BY <1>1, <2>2 DEF Close
  <2> HIDE DEF f, d, e
  <2>6. /\ <<f>> \in Seq(DownFrame) /\ d \in Seq(DownFrame) /\ ~Says(<<f>>, "ResponseEnd")
        /\ e # <<>> /\ e[Len(e)] = f
    BY <1>1, <2>1, <2>5, SaysOne, LastWritten
  <2>7. ~Says(d, "ResponseEnd")
    BY <1>2, <2>4
  <2>8. ~Says(e, "ResponseEnd")
    BY <2>5, <2>6, <2>7, SaysMore
  <2> QED
    BY <2>1, <2>4, <2>6, <2>8 DEF CutShort, Broken, e
<1>6. CASE UpstreamBreaks(c)
  <2>1. task[c].pc = "relay" /\ "upstream" \in Env /\ Close(c, <<>>, FALSE)
    BY <1>6 DEF UpstreamBreaks, Event
  <2>2. task[c] # Blank /\ task[c].pc # "ended"
    BY <2>1, FreshTasks
  <2>3. e = d
    <3>1. d \o <<>> = d
      BY <1>1
    <3> QED
      BY <1>1, <2>1, <3>1 DEF Close
  <2>4. Joins(r, got[r], task[c], up[c], d)
    BY <2>1, OwnerFacts DEF Carries
  <2>5. ~Says(d, "ResponseEnd")
    BY <1>2, <2>2
  <2> HIDE DEF d, e
  <2>6. Broken(d, got[r])
    BY <2>1, <2>4 DEF Joins, Broken
  <2> QED
    BY <2>2, <2>3, <2>5, <2>6 DEF CutShort, e
<1> QED
  BY <1>3, <1>4, <1>5, <1>6, EndsOnly

\* A task of an idle connection does not end so.
LEMMA IdleStays ==
  ASSUME TypeOK, LinkInv, NEW c \in Conns, Remote(c) \/ UpstreamBreaks(c), Heard(c),
         c \in ToSet(pool), Alive(c)
  PROVE  Alive(c)'
<1> SUFFICES ASSUME task'[c].pc = "ended"  PROVE FALSE
  BY DEF Alive
<1>1. /\ task[c] = Blank /\ up[c] \in Seq(UpFrame) /\ ToSet(up[c]) \subseteq {Reset}
  BY ConnFacts DEF WireOk, Alive
<1>2. up[c] # <<>> => up[c][1].tag = "Reset"
  <2>1. up[c] # <<>> => 1 \in 1..Len(up[c])
    BY <1>1
  <2> QED
    BY <1>1, <2>1, OnlyResets
<1>3. ~task[c].greeted => FALSE
  BY <1>1, FreshTasks
<1>4. ~UpstreamBreaks(c)
  BY <1>1, FreshTasks DEF UpstreamBreaks
<1>5. ~RemoteHello(c) /\ ~RemoteFails(c)
  BY <1>2, FrameFirst DEF RemoteHello, RemoteFails, BodyComplete, Received, Frame
<1> QED
  BY <1>3, <1>4, <1>5, EndsOnly

\* What CalmInv says of the next state.
CalmNext ==
  /\ cut' = {}
  /\ \A x \in ToSet(pool') : task'[x].pc # "ended"
  /\ \A r \in Requests : turn'[r].conn # None /\ task'[turn'[r].conn].pc = "ended" =>
       CutShort(down'[turn'[r].conn], got'[r])

\* And that it says so.
LEMMA CalmStep ==
  ASSUME paired' = paired, Calm => CalmNext
  PROVE  CalmInv'
BY DEF CalmInv, CalmNext, CutShort, Broken, Alive, Calm

\* So a task ends only so, as long as no connection breaks.
LEMMA RemoteCalm ==
  ASSUME TypeOK, Bookkeeping, OneOwner, LinkInv, CalmInv,
         NEW c \in Conns, Remote(c) \/ UpstreamBreaks(c)
  PROVE  CalmInv'
<1> SUFFICES ASSUME Calm  PROVE CalmNext
  BY RemoteStill, CalmStep
<1>1. UNCHANGED <<turn, got, pool, dialed, cut, paired>>
  BY RemoteStill
<1>2. /\ cut = {} /\ \A x \in ToSet(pool) : Alive(x)
      /\ \A r \in Requests : turn[r].conn # None /\ ~Alive(turn[r].conn) =>
           CutShort(down[turn[r].conn], got[r])
  BY DEF CalmInv
<1>3. ToSet(pool) \subseteq Conns /\ ToSet(pool) \subseteq dialed
  <2>1. pool \in Seq(Conns)
    BY DEF TypeOK, TypeLocal
  <2>2. ToSet(pool) \subseteq Conns
    BY <2>1 DEF ToSet
  <2> QED
    BY <2>2 DEF OneOwner
<1>4. ASSUME NEW x \in ToSet(pool)  PROVE task'[x].pc # "ended"
  <2>1. x \in Conns /\ x \in dialed /\ Alive(x) /\ Heard(x)
    BY <1>2, <1>3, <1>4 DEF Heard
  <2>2. CASE x = c
    BY <1>4, <2>1, <2>2, IdleStays DEF Alive
  <2>3. CASE x # c
    BY <2>1, <2>3, RemoteElsewhere DEF Alive
  <2> QED
    BY <2>2, <2>3
<1>5. ASSUME NEW r \in Requests, turn[r].conn # None,
             task'[turn[r].conn].pc = "ended"
      PROVE  CutShort(down'[turn[r].conn], got[r])
  <2> DEFINE x == turn[r].conn
  <2>1. x \in Conns /\ x \in dialed
    <3>1. turn[r] \in Turn
      BY DEF TypeOK, TypeLocal
    <3> QED
      BY <1>5, <3>1 DEF OneOwner, Turn
  <2>2. CASE x = c
    <3>1. Heard(c) /\ task'[c].pc = "ended"
      BY <1>2, <1>5, <2>1, <2>2 DEF Heard, Alive
    <3> QED
      BY <2>2, <3>1, EndsShort
  <2>3. CASE x # c
    <3>1. task'[x] = task[x] /\ down'[x] = down[x]
      BY <2>1, <2>3, RemoteElsewhere
    <3>2. ~Alive(x)
      BY <1>5, <3>1 DEF Alive
    <3> QED
      BY <1>2, <1>5, <3>1, <3>2
  <2> QED
    BY <2>2, <2>3
<1> QED
  BY <1>1, <1>2, <1>4, <1>5 DEF CalmNext

-----------------------------------------------------------------------------
(* Steps of a turn. *)

\* The account is kept by a step of r that owes nothing new and has the budget.
LEMMA CountTurn ==
  ASSUME TypeOK, CountInv, NEW r \in Requests, NEW v \in Turn,
         turn' = [turn EXCEPT ![r] = v], calls' = calls,
         \A q \in Requests, x \in Conns : Owes(q, x)' => Owes(q, x),
         Budget(turn[r]) <= Budget(v)
  PROVE  CountInv'
<1> SUFFICES ASSUME NEW q \in Requests
             PROVE  Within(calls'[q], Owed(q)', Budget(turn'[q]))
  BY DEF CountInv, Within, Budget
<1>1. /\ Within(calls[q], Owed(q), Budget(turn[q])) /\ calls[q] \in Nat
      /\ turn[q] \in Turn /\ turn \in [Requests -> Turn]
  BY DEF CountInv, TypeOK, TypeLocal, TypeRemote
<1>2. Owed(q)' \subseteq Owed(q)
  BY OwedMembers
<1>3. Budget(turn[q]) \in Nat /\ Budget(v) \in Nat
  BY <1>1, BudgetType
<1>4. Budget(turn[q]) <= Budget(turn'[q]) /\ Budget(turn'[q]) \in Nat
  <2>1. CASE q = r
    BY <1>1, <1>3, <2>1
  <2>2. CASE q # r
    BY <1>1, <1>3, <2>2
  <2> QED
    BY <2>1, <2>2
<1>5. Within(calls[q], Owed(q)', Budget(turn'[q]))
  BY <1>1, <1>2, <1>3, <1>4, OweLess
<1> QED
  BY <1>5

\* The turn's own connection, and nothing else, owes a call for r.
LEMMA SteadyTurn ==
  ASSUME TypeOK, SteadyInv, NEW r \in Requests, NEW v,
         turn' = [turn EXCEPT ![r] = v], calls' = calls,
         \A q \in Requests \ {r}, x \in Conns : Owes(q, x)' => Owes(q, x),
         Steady => \A x \in Conns : Owes(r, x)' => v.conn = x,
         \A q \in Requests \ {r} : turn[q].conn # None =>
           (Says(down'[turn[q].conn], "Fail") => Says(down[turn[q].conn], "Fail")),
         Steady => (v.conn # None /\ Says(down'[v.conn], "Fail") => calls[r] = 0)
  PROVE  SteadyInv'
<1> SUFFICES ASSUME Steady, NEW q \in Requests
             PROVE  /\ \A x \in Conns : Owes(q, x)' => turn'[q].conn = x
                    /\ turn'[q].conn # None /\ Says(down'[turn'[q].conn], "Fail")
                         => calls'[q] = 0
  BY DEF SteadyInv
<1>1. turn \in [Requests -> Turn]
  BY DEF TypeOK, TypeLocal
<1>2. CASE q = r
  BY <1>1, <1>2
<1>3. CASE q # r
  <2>1. turn'[q] = turn[q]
    BY <1>1, <1>3
  <2>2. /\ \A x \in Conns : Owes(q, x) => turn[q].conn = x
        /\ turn[q].conn # None /\ Says(down[turn[q].conn], "Fail") => calls[q] = 0
    BY DEF SteadyInv
  <2> QED
    BY <1>3, <2>1, <2>2
<1> QED
  BY <1>2, <1>3

\* A turn that is cut short, is.
LEMMA CalmTurn ==
  ASSUME TypeOK, CalmInv, paired' = paired, NEW r \in Requests, NEW c, NEW v, NEW g,
         turn' = [turn EXCEPT ![r] = v], got' = [got EXCEPT ![r] = g],
         \A q \in Requests \ {r} : turn[q].conn # c,
         \A x \in Conns \ {c} : task'[x] = task[x] /\ down'[x] = down[x],
         cut' \subseteq cut, Calm => \A x \in ToSet(pool') : task'[x].pc # "ended",
         Calm /\ v.conn # None /\ task'[v.conn].pc = "ended" => CutShort(down'[v.conn], g)
  PROVE  CalmInv'
<1> SUFFICES ASSUME Calm  PROVE CalmNext
  BY CalmStep
<1>1. turn \in [Requests -> Turn] /\ got \in [Requests -> Seq(Parts)]
  BY DEF TypeOK, TypeLocal
<1>2. cut' = {}
  BY DEF CalmInv
<1>3. ASSUME NEW q \in Requests, turn'[q].conn # None, task'[turn'[q].conn].pc = "ended"
      PROVE  CutShort(down'[turn'[q].conn], got'[q])
  <2>1. CASE q = r
    BY <1>1, <1>3, <2>1
  <2>2. CASE q # r
    <3>1. turn'[q] = turn[q] /\ got'[q] = got[q]
      BY <1>1, <2>2
    <3>2. turn[q].conn \in Conns \ {c}
      BY <1>1, <1>3, <2>2, <3>1 DEF Turn
    <3>3. task[turn[q].conn].pc = "ended"
      BY <1>3, <3>1, <3>2
    <3>4. CutShort(down[turn[q].conn], got[q])
      BY <1>3, <3>1, <3>3 DEF CalmInv, Alive
    <3> QED
      BY <3>1, <3>2, <3>4
  <2> QED
    BY <2>1, <2>2
<1> QED
  BY <1>2, <1>3 DEF CalmNext

\* Acks tell the truth if those of one connection still do.
LEMMA AckTurn ==
  ASSUME TypeOK, AckInv, paired' = paired,
         \A x \in Conns : Acked(down[x]) => Acked(down'[x])
  PROVE  AckInv'
BY DEF AckInv, Acked

\* What is left of a queue tells no more.
LEMMA AckedTail ==
  ASSUME NEW d \in Seq(DownFrame), d # <<>>, Acked(d)
  PROVE  Acked(Tail(d)) /\ Acked(<<>>)
<1>1. /\ Len(Tail(d)) = Len(d) - 1
      /\ \A i \in 1..(Len(d) - 1) : Tail(d)[i] = d[i + 1] /\ i + 1 \in 1..Len(d)
  BY TailParts
<1> QED
  BY <1>1 DEF Acked

\* An answer that breaks off still does when a frame of it is taken.
LEMMA CutShortTail ==
  ASSUME NEW d \in Seq(DownFrame), d # <<>>, NEW g, NEW h, CutShort(d, g),
         d[1].tag # "Fail",
         d[1].tag \in {"ResponseHead", "ResponseBody"} => h # <<>>
  PROVE  CutShort(Tail(d), h)
<1>1. /\ Len(Tail(d)) = Len(d) - 1 /\ Len(d) \in Nat \ {0}
      /\ \A i \in 1..(Len(d) - 1) : Tail(d)[i] = d[i + 1] /\ i + 1 \in 1..Len(d)
      /\ Tail(d) = <<>> <=> Len(d) = 1
  BY TailParts
<1>2. ~Says(Tail(d), "ResponseEnd")
  BY SaysTake DEF CutShort
<1>3. ASSUME Broken(d, g)  PROVE Broken(Tail(d), h)
  <2>1. CASE Len(d) = 1
    BY <1>1, <1>3, <2>1 DEF Broken
  <2>2. CASE Len(d) # 1
    <3>1. Len(d) - 1 \in 1..(Len(d) - 1) /\ Len(d) - 1 + 1 = Len(d)
      BY <1>1, <2>2
    <3>2. Tail(d) # <<>> /\ Tail(d)[Len(Tail(d))] = d[Len(d)]
      BY <1>1, <2>2, <3>1
    <3> QED
      BY <1>3, <3>2 DEF Broken
  <2> QED
    BY <2>1, <2>2
<1> QED
  BY <1>2, <1>3 DEF CutShort

\* An attempt under way, or a turn that is over, has the budget of its attempts.
LEMMA BudgetKept ==
  ASSUME NEW v \in Turn, NEW w \in Turn, w.attempt = v.attempt,
         v.pc \in {"new", "ready"} \/ w.pc \notin {"new", "ready"}
  PROVE  Budget(v) <= Budget(w)
<1>1. v.attempt \in 0..2 /\ w.attempt \in 0..2
  BY DEF Turn
<1> QED
  BY <1>1 DEF Budget

\* A turn that takes a frame, and stays on its connection, keeps the accounts.
LEMMA StaysInAccount ==
  ASSUME TypeOK, Bookkeeping, OneOwner, LinkInv, ExchangeInv, NEW r \in Requests,
         NEW c, c = turn[r].conn, turn[r].pc = "await",
         down[c] # <<>>, down[c][1].tag # "Fail",
         NEW v \in Turn, v.conn = c, v.attempt = turn[r].attempt, v.pc = "await", NEW g,
         turn' = [turn EXCEPT ![r] = v], got' = [got EXCEPT ![r] = g], ConnStill,
         down' = [down EXCEPT ![c] = Tail(down[c])],
         \A q \in Requests, x \in Conns : Owes(q, x)' => Owes(q, x),
         down[c][1].tag \in {"ResponseHead", "ResponseBody"} => g # <<>>
  PROVE  CountInv' /\ SteadyInv' /\ CalmInv' /\ AckInv'
<1>0. /\ CountInv /\ SteadyInv /\ CalmInv /\ AckInv /\ paired' = paired /\ calls' = calls
      /\ task' = task /\ pool' = pool /\ cut' = cut
  BY DEF ExchangeInv, ConnStill
<1>1. /\ c \in Conns /\ c # None /\ \A q \in Requests \ {r} : turn[q].conn # c
  BY Awaiting
<1>2. /\ down \in [Conns -> Seq(DownFrame)] /\ down[c] \in Seq(DownFrame)
      /\ turn[r] \in Turn /\ turn \in [Requests -> Turn]
  BY <1>1 DEF TypeOK, TypeLocal, TypeWire
<1>3. /\ down'[c] = Tail(down[c]) /\ \A x \in Conns \ {c} : down'[x] = down[x]
  BY <1>1, <1>2
<1> DEFINE d == down[c]
<1>4. d = down[c] /\ d \in Seq(DownFrame) /\ d # <<>> /\ d[1].tag # "Fail"
      /\ (d[1].tag \in {"ResponseHead", "ResponseBody"} => g # <<>>)
  BY <1>2
<1> HIDE DEF d
<1>5. CountInv'
  <2>1. Budget(turn[r]) <= Budget(v)
    BY <1>2, BudgetKept
  <2> QED
    BY <1>0, <2>1, CountTurn
<1>6. SteadyInv'
  <2>1. Steady => \A x \in Conns : Owes(r, x)' => v.conn = x
    BY <1>0 DEF SteadyInv
  <2>2. \A q \in Requests \ {r} : turn[q].conn # None =>
          (Says(down'[turn[q].conn], "Fail") => Says(down[turn[q].conn], "Fail"))
    <3>1. \A q \in Requests \ {r} : turn[q].conn # None => turn[q].conn \in Conns \ {c}
      BY <1>1, <1>2 DEF Turn
    <3> QED
      BY <1>3, <3>1
  <2>3. Steady => (v.conn # None /\ Says(down'[v.conn], "Fail") => calls[r] = 0)
    <3>1. Says(Tail(d), "Fail") => Says(d, "Fail")
      BY <1>4, SaysTake
    <3> QED
      BY <1>0, <1>1, <1>3, <1>4, <3>1 DEF SteadyInv
  <2>4. \A q \in Requests \ {r}, x \in Conns : Owes(q, x)' => Owes(q, x)
    OBVIOUS
  <2> QED
    BY <1>0, <2>1, <2>2, <2>3, <2>4, SteadyTurn
<1>7. CalmInv'
  <2>1. Calm => \A x \in ToSet(pool') : task'[x].pc # "ended"
    BY <1>0 DEF CalmInv, Alive
  <2>2. Calm /\ v.conn # None /\ task'[v.conn].pc = "ended" => CutShort(down'[v.conn], g)
    <3> SUFFICES ASSUME Calm, task[c].pc = "ended"  PROVE CutShort(Tail(d), g)
      BY <1>0, <1>3, <1>4
    <3>1. CutShort(d, got[r])
      BY <1>0, <1>1, <1>4 DEF CalmInv, Alive
    <3> QED
      BY <1>4, <3>1, CutShortTail
  <2>3. \A x \in Conns \ {c} : task'[x] = task[x] /\ down'[x] = down[x]
    BY <1>0, <1>3
  <2> QED
    BY <1>0, <1>1, <2>1, <2>2, <2>3, CalmTurn
<1>8. AckInv'
  <2>1. Acked(d) => Acked(Tail(d))
    BY <1>4, AckedTail
  <2>2. \A x \in Conns : Acked(down[x]) => Acked(down'[x])
    BY <1>1, <1>3, <1>4, <2>1
  <2> QED
    BY <1>0, <2>2, AckTurn
<1> QED
  BY <1>5, <1>6, <1>7, <1>8

\* Blocks that are sent once more owe no call that was not owed.
LEMMA ResendOwes ==
  ASSUME TypeOK, Bookkeeping, OneOwner, LinkInv, NEW r \in Requests, LocalNeed(r),
         turn[r].repairs < MaxRepairs, NEW q \in Requests, NEW x \in Conns, Owes(q, x)'
  PROVE  Owes(q, x)
<1> DEFINE c == turn[r].conn
           t == task[c]
           u == up[c]
           d == down[c]
           w == Resend(r)
<1>1. Arrived(r, "Need") /\ ~(turn[r].repairs >= MaxRepairs)
  BY BoundsAssumption DEF LocalNeed, TypeOK, TypeLocal, Turn
<1>2. /\ c \in Conns /\ c \in dialed /\ d \in Seq(DownFrame) /\ d # <<>>
      /\ d[1].tag = "Need" /\ WireOk(t, u, d, TRUE, FALSE)
  <2>1. c = turn[r].conn
    OBVIOUS
  <2> HIDE DEF c
  <2> QED
    BY <1>1, <2>1, ArrivedFacts
<1>3. /\ up' = IF Hears(c) THEN [up EXCEPT ![c] = @ \o w] ELSE up
      /\ task' = task /\ dialed' = dialed
  BY <1>1 DEF LocalNeed, remote
<1>4. /\ w \in Seq(UpFrame) /\ \A i \in 1..Len(w) : w[i].tag \in {"Block", "EndOfBody"}
  BY ResendChain
<1>5. up \in [Conns -> Seq(UpFrame)] /\ (Hears(c) => t.pc # "ended") /\ u \in Seq(UpFrame)
  BY <1>2 DEF TypeOK, TypeWire, Hears, Alive
<1>6. CASE Hears(c) /\ x = c
  <2>1. t.pc = "repair" /\ u = <<>>
    <3>1. Says(d, "Need")
      <4>1. Says(d, d[1].tag)
        BY <1>2, SaysFirst
      <4> QED
        BY <1>2, <4>1
    <3> QED
      BY <1>2, <1>5, <1>6, <3>1 DEF WireOk
  <2>2. up'[c] = w
    <3>1. up'[c] = u \o w
      BY <1>2, <1>3, <1>5, <1>6
    <3> QED
      BY <1>4, <2>1, <3>1
  <2>3. Pending(q, t, w, TRUE)
    BY <1>2, <1>3, <1>6, <2>2 DEF Owes, Pending
  <2>4. t.head.req = q
    BY <1>4, <2>3 DEF Pending
  <2> QED
    BY <1>2, <1>6, <2>1, <2>4 DEF Owes, Pending
<1>7. CASE ~(Hears(c) /\ x = c)
  <2>1. up'[x] = up[x]
    BY <1>3, <1>5, <1>7
  <2> QED
    BY <1>3, <2>1 DEF Owes
<1> QED
  BY <1>6, <1>7

\* A turn that takes a frame, and goes on.
LEMMA TakingInAccount ==
  ASSUME TypeOK, Bookkeeping, OneOwner, LinkInv, ExchangeInv, NEW r \in Requests,
         \/ LocalHelloAck(r) \/ LocalBloom(r)
         \/ (LocalHead(r) \/ LocalBody(r)) /\ agent[r] # "gone"
         \/ LocalNeed(r) /\ turn[r].repairs < MaxRepairs
  PROVE  CountInv' /\ SteadyInv' /\ CalmInv' /\ AckInv'
<1> DEFINE c == turn[r].conn
<1>1. PICK tag \in {"HelloAck", "Bloom", "ResponseHead", "ResponseBody", "Need"} :
        Arrived(r, tag)
  BY DEF LocalHelloAck, LocalBloom, LocalHead, LocalBody, LocalNeed
<1>2. /\ turn[r].pc = "await" /\ c \in Conns /\ down[c] \in Seq(DownFrame) /\ down[c] # <<>>
      /\ Incoming(r) = down[c][1] /\ Incoming(r).tag = tag /\ got[r] \in Seq(Parts)
      /\ turn[r] \in Turn
  <2>1. c = turn[r].conn
    OBVIOUS
  <2> HIDE DEF c
  <2> QED
    BY <1>1, <2>1, ArrivedFacts
<1>3. turn \in [Requests -> Turn] /\ got \in [Requests -> Seq(Parts)]
  BY DEF TypeOK, TypeLocal
<1>4. down[c] # <<>> /\ down[c][1].tag # "Fail"
  BY <1>1, <1>2
<1>5. CASE LocalHelloAck(r) \/ LocalBloom(r)
  <2>1. /\ ConnStill /\ UNCHANGED <<turn, got, up>>
        /\ down' = [down EXCEPT ![c] = Tail(down[c])]
        /\ task' = task /\ dialed' = dialed
    BY <1>5 DEF ConnStill, LocalHelloAck, LocalBloom, Consume, local, remote, admin
  <2>2. turn' = [turn EXCEPT ![r] = turn[r]] /\ got' = [got EXCEPT ![r] = got[r]]
    BY <1>3, <2>1
  <2>3. \A q \in Requests, x \in Conns : Owes(q, x)' => Owes(q, x)
    BY <2>1, OwesStill
  <2>4. down[c][1].tag \notin {"ResponseHead", "ResponseBody"}
    <3>1. Arrived(r, "HelloAck") \/ Arrived(r, "Bloom")
      BY <1>5 DEF LocalHelloAck, LocalBloom
    <3> QED
      BY <1>2, <3>1 DEF Arrived, Incoming
  <2>5. turn[r].conn = c
    OBVIOUS
  <2> HIDE DEF c
  <2>6. PICK v \in Turn :
          \E g : /\ v.conn = c /\ v.attempt = turn[r].attempt /\ v.pc = "await"
                 /\ turn' = [turn EXCEPT ![r] = v] /\ got' = [got EXCEPT ![r] = g]
    BY <1>2, <2>2, <2>5
  <2>7. PICK g :
          /\ v.conn = c /\ v.attempt = turn[r].attempt /\ v.pc = "await"
          /\ turn' = [turn EXCEPT ![r] = v] /\ got' = [got EXCEPT ![r] = g]
    BY <2>6
  <2>8. ConnStill /\ down' = [down EXCEPT ![c] = Tail(down[c])]
    BY <2>1
  <2> QED
    BY <1>2, <1>4, <2>3, <2>4, <2>5, <2>7, <2>8, StaysInAccount
<1>6. CASE (LocalHead(r) \/ LocalBody(r)) /\ agent[r] # "gone"
  <2> DEFINE h == Append(got[r], Incoming(r).part)
             v == IF LocalHead(r) THEN [turn[r] EXCEPT !.headSent = TRUE] ELSE turn[r]
  <2>1. /\ ConnStill /\ UNCHANGED up /\ down' = [down EXCEPT ![c] = Tail(down[c])]
        /\ got' = [got EXCEPT ![r] = h] /\ task' = task /\ dialed' = dialed
    BY <1>3, <1>6 DEF ConnStill, LocalHead, LocalBody, Consume, remote, admin
  <2>2. turn' = [turn EXCEPT ![r] = v]
    BY <1>3, <1>6 DEF LocalHead, LocalBody
  <2>3. v \in Turn /\ v.conn = c /\ v.attempt = turn[r].attempt /\ v.pc = "await"
    <3>1. [turn[r] EXCEPT !.headSent = TRUE] \in Turn
      BY <1>2 DEF Turn
    <3>2. /\ [turn[r] EXCEPT !.headSent = TRUE].conn = c
          /\ [turn[r] EXCEPT !.headSent = TRUE].attempt = turn[r].attempt
          /\ [turn[r] EXCEPT !.headSent = TRUE].pc = "await"
      BY <1>2 DEF Turn
    <3> QED
      BY <1>2, <3>1, <3>2
  <2>4. h # <<>>
    <3> DEFINE f == Incoming(r).part
    <3>1. h = Append(got[r], f)
      OBVIOUS
    <3> HIDE DEF f, h
    <3>2. Len(h) = Len(got[r]) + 1 /\ Len(got[r]) \in Nat
      BY <1>2, <3>1
    <3> QED
      BY <3>2
  <2>5. \A q \in Requests, x \in Conns : Owes(q, x)' => Owes(q, x)
    BY <2>1, OwesStill
  <2>6. turn[r].conn = c
    OBVIOUS
  <2> HIDE DEF c, h, v
  <2> QED
    BY <1>2, <1>4, <2>1, <2>2, <2>3, <2>4, <2>5, <2>6, StaysInAccount
<1>7. CASE LocalNeed(r) /\ turn[r].repairs < MaxRepairs
  <2> DEFINE v == [turn[r] EXCEPT !.repairs = @ + 1]
  <2>0. ~(turn[r].repairs >= MaxRepairs)
    BY <1>2, <1>7, BoundsAssumption DEF Turn
  <2>1. /\ ConnStill /\ down' = [down EXCEPT ![c] = Tail(down[c])]
        /\ UNCHANGED got /\ turn' = [turn EXCEPT ![r] = v]
    <3>1. /\ turn' = [turn EXCEPT ![r].repairs = @ + 1]
          /\ Consume(r) /\ UNCHANGED <<got, pool, dialed, used, cut, task, rstore, calls, paired>>
      BY <1>7, <2>0 DEF LocalNeed, remote, admin
    <3>2. turn' = [turn EXCEPT ![r] = v]
      BY <1>3, <3>1
    <3> QED
      BY <3>1, <3>2 DEF ConnStill, Consume
  <2>2. got' = [got EXCEPT ![r] = got[r]]
    BY <1>3, <2>1
  <2>3. v \in Turn /\ v.conn = c /\ v.attempt = turn[r].attempt /\ v.pc = "await"
    <3>1. turn[r].repairs + 1 \in Nat
      BY <1>2 DEF Turn
    <3>2. v = [turn[r] EXCEPT !.repairs = turn[r].repairs + 1]
      OBVIOUS
    <3> HIDE DEF v
    <3>3. v \in Turn
      BY <1>2, <3>1, <3>2 DEF Turn
    <3>4. v.conn = c /\ v.attempt = turn[r].attempt /\ v.pc = "await"
      BY <1>2, <3>2 DEF Turn
    <3> QED
      BY <3>3, <3>4
  <2>4. \A q \in Requests, x \in Conns : Owes(q, x)' => Owes(q, x)
    BY <1>7, ResendOwes
  <2>5. down[c][1].tag \notin {"ResponseHead", "ResponseBody"}
    <3>1. Arrived(r, "Need")
      BY <1>7 DEF LocalNeed
    <3> QED
      BY <1>2, <3>1 DEF Arrived, Incoming
  <2>6. turn[r].conn = c
    OBVIOUS
  <2> HIDE DEF c, v
  <2> QED
    BY <1>2, <1>4, <2>1, <2>2, <2>3, <2>4, <2>5, <2>6, StaysInAccount
<1> QED
  BY <1>5, <1>6, <1>7

\* A turn that lets its connection go keeps the accounts, if it can be tried again
\* only when, in a run where nothing breaks, no call was made nor will be.
LEMMA LetsGoInAccount ==
  ASSUME TypeOK, Bookkeeping, OneOwner, LinkInv, ExchangeInv, NEW r \in Requests,
         NEW c, c = turn[r].conn, turn[r].pc = "await",
         NEW v \in Turn, v.conn = None, v.attempt = turn[r].attempt,
         v.pc \in {"ready", "over"}, turn' = [turn EXCEPT ![r] = v],
         NEW g, got' = [got EXCEPT ![r] = g], FarEndStill, dialed' \subseteq dialed,
         down' = [down EXCEPT ![c] = <<>>],
         Calm => \A x \in ToSet(pool') : task[x].pc # "ended",
         Steady => \A x \in Conns : ~Owes(r, x)',
         Steady /\ v.pc = "ready" => calls[r] = 0
  PROVE  CountInv' /\ SteadyInv' /\ CalmInv' /\ AckInv'
<1>0. /\ CountInv /\ SteadyInv /\ CalmInv /\ AckInv /\ paired' = paired /\ calls' = calls
      /\ task' = task /\ up' = up /\ cut' = cut
  BY DEF ExchangeInv, FarEndStill
<1>1. /\ c \in Conns /\ c # None /\ \A q \in Requests \ {r} : turn[q].conn # c
  BY Awaiting
<1>2. /\ down \in [Conns -> Seq(DownFrame)]
      /\ turn[r] \in Turn /\ turn \in [Requests -> Turn] /\ got \in [Requests -> Seq(Parts)]
  BY <1>1 DEF TypeOK, TypeLocal, TypeWire
<1>3. /\ down'[c] = <<>> /\ \A x \in Conns \ {c} : down'[x] = down[x]
  BY <1>1, <1>2
<1>4. \A q \in Requests, x \in Conns : Owes(q, x)' => Owes(q, x)
  BY <1>0, OwesStill
<1>5. CountInv'
  <2>1. CASE Steady /\ v.pc = "ready"
    <3> SUFFICES ASSUME NEW q \in Requests
                 PROVE  Within(calls'[q], Owed(q)', Budget(turn'[q]))
      BY DEF CountInv, Within, Budget
    <3>1. CASE q = r
      <4>1. turn'[q] = v /\ calls'[q] = 0 /\ Budget(v) = 0
        BY <1>0, <1>2, <2>1, <3>1 DEF Budget
      <4>2. Owed(q)' = {}
        BY <2>1, <3>1, OwedMembers
      <4>3. Within(0, {}, 0)
        BY OweNothing
      <4> QED
        BY <4>1, <4>2, <4>3
    <3>2. CASE q # r
      <4>1. turn'[q] = turn[q] /\ calls'[q] = calls[q] /\ turn[q] \in Turn
        BY <1>0, <1>2, <3>2
      <4>2. Owed(q)' \subseteq Owed(q)
        BY <1>4, OwedMembers
      <4>3. /\ Within(calls[q], Owed(q), Budget(turn[q])) /\ calls[q] \in Nat
            /\ Budget(turn[q]) \in Nat /\ Budget(turn[q]) <= Budget(turn[q])
        BY <1>0, <4>1, BudgetType DEF CountInv, TypeOK, TypeRemote
      <4>4. Within(calls[q], Owed(q)', Budget(turn[q]))
        BY <4>2, <4>3, OweLess
      <4> QED
        BY <4>1, <4>4
    <3> QED
      BY <3>1, <3>2
  <2>2. CASE ~(Steady /\ v.pc = "ready")
    <3>1. Budget(turn[r]) <= Budget(v)
      BY <1>2, <2>2 DEF Budget, Turn
    <3> QED
      BY <1>0, <1>4, <3>1, CountTurn
  <2> QED
    BY <2>1, <2>2
<1>6. SteadyInv'
  <2>1. Steady => \A x \in Conns : Owes(r, x)' => v.conn = x
    OBVIOUS
  <2>2. \A q \in Requests \ {r} : turn[q].conn # None =>
          (Says(down'[turn[q].conn], "Fail") => Says(down[turn[q].conn], "Fail"))
    <3>1. \A q \in Requests \ {r} : turn[q].conn # None => turn[q].conn \in Conns \ {c}
      BY <1>1, <1>2 DEF Turn
    <3> QED
      BY <1>3, <3>1
  <2>3. Steady => (v.conn # None /\ Says(down'[v.conn], "Fail") => calls[r] = 0)
    OBVIOUS
  <2>4. \A q \in Requests \ {r}, x \in Conns : Owes(q, x)' => Owes(q, x)
    BY <1>4
  <2> QED
    BY <1>0, <2>1, <2>2, <2>3, <2>4, SteadyTurn
<1>7. CalmInv'
  <2> SUFFICES ASSUME Calm  PROVE CalmNext
    BY <1>0, CalmStep
  <2>1. cut' = {} /\ \A x \in ToSet(pool') : task'[x].pc # "ended"
    BY <1>0 DEF CalmInv
  <2>2. ASSUME NEW q \in Requests, turn'[q].conn # None, task'[turn'[q].conn].pc = "ended"
        PROVE  CutShort(down'[turn'[q].conn], got'[q])
    <3>1. q # r /\ turn'[q] = turn[q] /\ got'[q] = got[q]
      BY <1>2, <2>2
    <3>2. turn[q].conn \in Conns \ {c}
      BY <1>1, <1>2, <2>2, <3>1 DEF Turn
    <3>3. task[turn[q].conn].pc = "ended" /\ down'[turn[q].conn] = down[turn[q].conn]
      BY <1>0, <1>3, <2>2, <3>1, <3>2
    <3>4. CutShort(down[turn[q].conn], got[q])
      BY <1>0, <2>2, <3>1, <3>3 DEF CalmInv, Alive
    <3> QED
      BY <3>1, <3>3, <3>4
  <2> QED
    BY <2>1, <2>2 DEF CalmNext
<1>8. AckInv'
  <2>1. \A x \in Conns : Acked(down[x]) => Acked(down'[x])
    BY <1>1, <1>3 DEF Acked
  <2> QED
    BY <1>0, <2>1, AckTurn
<1> QED
  BY <1>5, <1>6, <1>7, <1>8

\* The other connections of a turn that has lost one: in a run where nothing breaks
\* it owes a call on none of them.
LEMMA OwesElsewhere ==
  ASSUME TypeOK, SteadyInv, Steady, NEW r \in Requests, NEW c, c = turn[r].conn,
         FarEndStill, dialed' \subseteq dialed,
         c \in Conns => ~Owes(r, c)', NEW x \in Conns
  PROVE  ~Owes(r, x)'
<1>1. task' = task /\ up' = up
  BY DEF FarEndStill
<1>2. Owes(r, x)' => Owes(r, x)
  BY <1>1, OwesStill
<1>3. Owes(r, x) => x = c
  BY DEF SteadyInv
<1> QED
  BY <1>2, <1>3

\* The ways an attempt fails.
GivesUp(r) ==
  \/ LocalEof(r) \/ LocalRejected(r) \/ LocalFail(r)
  \/ LocalNeed(r) /\ turn[r].repairs >= MaxRepairs
  \/ (LocalHead(r) \/ LocalBody(r)) /\ agent[r] = "gone"

\* Where nothing breaks an attempt fails with no call made, or heard of, and with none
\* to come.
LEMMA SteadyGivesUp ==
  ASSUME TypeOK, Bookkeeping, OneOwner, LinkInv, ExchangeInv, Steady, NEW r \in Requests,
         NEW c, c = turn[r].conn, GivesUp(r)
  PROVE  ~Pending(r, task[c], up[c], FALSE) /\ (got[r] = <<>> => calls[r] = 0)
<1> DEFINE t == task[c]
           u == up[c]
           d == down[c]
           g == got[r]
<1>0. /\ CountInv /\ SteadyInv /\ CalmInv /\ AgentInv /\ AckInv /\ Calm
      /\ StrangerRefused /\ GreetInv
  BY DEF ExchangeInv, LinkInv, Calm, Steady
<1>1. turn[r].pc = "await"
  BY DEF GivesUp, LocalEof, LocalRejected, LocalFail, LocalNeed, LocalHead, LocalBody, Arrived
<1>2. c \in Conns /\ c \in dialed /\ c # None
  BY <1>1, Awaiting
<1>3. /\ cut = {} /\ Heard(c)
      /\ t.pc = "ended" => CutShort(d, g)
  BY <1>0, <1>2 DEF CalmInv, Alive, Heard
<1>4. t.pc = "ended" => ~Pending(r, t, u, FALSE)
  BY PendingNothing
<1>5. ~paired => calls[r] = 0
  BY <1>0 DEF StrangerRefused
<1>6. turn[r] \in Turn /\ calls[r] \in Nat /\ t \in Task /\ d \in Seq(DownFrame)
  BY <1>2, ConnFacts DEF TypeOK, TypeLocal, TypeRemote
<1>7. CASE LocalEof(r)
  <2>1. d = <<>> /\ t.pc = "ended"
    BY <1>3, <1>7 DEF LocalEof, Hears, Alive
  <2>2. paired => g # <<>>
    BY <1>3, <2>1 DEF CutShort, Broken
  <2> QED
    BY <1>4, <1>5, <2>1, <2>2
<1>8. CASE LocalRejected(r)
  <2>1. Arrived(r, "HelloAck") /\ ~Incoming(r).ok
    BY <1>8 DEF LocalRejected
  <2>2. /\ d # <<>> /\ Incoming(r) = d[1] /\ Incoming(r).tag = "HelloAck"
        /\ WireOk(t, u, d, TRUE, FALSE) /\ Carries(r, turn[r].whole, g, calls[r], t, u, d, Heard(c))
    BY <2>1, ArrivedFacts
  <2>3. ~paired
    <3>1. 1 \in 1..Len(d) /\ Acked(d)
      BY <1>0, <1>2, <1>6, <2>2 DEF AckInv
    <3> QED
      BY <2>1, <2>2, <3>1 DEF Acked
  <2>4. t.pc = "ended"
    <3> SUFFICES ASSUME t.pc # "ended"  PROVE FALSE
      OBVIOUS
    <3>1. ~t.greeted
      BY <1>0, <1>2, <2>3 DEF GreetInv, Alive
    <3>2. t = NewTask
      BY <2>2, <3>1 DEF WireOk, Reads
    <3> QED
      BY <1>3, <2>2, <3>2 DEF Carries, Joins
  <2> QED
    BY <1>4, <1>5, <2>3, <2>4
<1>9. CASE LocalFail(r)
  <2>1. Arrived(r, "Fail")
    BY <1>9 DEF LocalFail
  <2>2. d # <<>> /\ Incoming(r) = d[1] /\ Incoming(r).tag = "Fail" /\ WireOk(t, u, d, TRUE, FALSE)
    BY <2>1, ArrivedFacts
  <2>3. Says(d, "Fail")
    <3>1. Says(d, d[1].tag)
      BY <1>6, <2>2, SaysFirst
    <3> QED
      BY <2>2, <3>1
  <2>4. t.pc = "ended"
    BY <2>2, <2>3 DEF WireOk
  <2>5. calls[r] = 0
    BY <1>0, <1>2, <2>3 DEF SteadyInv
  <2> QED
    BY <1>4, <2>4, <2>5
<1>10. CASE LocalNeed(r) /\ turn[r].repairs >= MaxRepairs
  <2>1. Arrived(r, "Need")
    BY <1>10 DEF LocalNeed
  <2>2. /\ d # <<>> /\ Incoming(r) = d[1] /\ Incoming(r).tag = "Need" /\ DownChain(d)
        /\ WireOk(t, u, d, TRUE, FALSE) /\ Carries(r, turn[r].whole, g, calls[r], t, u, d, Heard(c))
    BY <2>1, ArrivedFacts
  <2>3. Says(d, "Need")
    <3>1. Says(d, d[1].tag)
      BY <1>6, <2>2, SaysFirst
    <3> QED
      BY <2>2, <3>1
  <2>4. CASE t.pc = "ended"
    <3>1. Tail(d) = <<>>
      BY <1>6, <2>2, LastFrame
    <3>2. Len(d) = 1
      BY <1>6, <2>2, <3>1, TailParts
    <3>3. ~Broken(d, g)
      BY <2>2, <3>2 DEF Broken
    <3>4. ~paired
      BY <1>3, <2>4, <3>3 DEF CutShort
    <3> QED
      BY <1>4, <1>5, <2>4, <3>4
  <2>5. CASE t.pc # "ended"
    <3>1. t.pc = "repair" /\ u = <<>>
      BY <2>2, <2>3, <2>5 DEF WireOk
    <3>2. t.head.req # None
      BY <2>2, <3>1 DEF WireOk, Reads, SplitRead
    <3>3. t.head.req = r
      BY <2>2, <2>5, <3>2 DEF Carries, CarriesUp
    <3>4. c \in Owed(r)
      BY <1>2, <3>1, <3>3, OwedMembers DEF Owes, Pending
    <3>5. calls[r] + 1 <= Budget(turn[r]) /\ Budget(turn[r]) <= 1 /\ Budget(turn[r]) \in Nat
      BY <1>0, <1>6, <3>4, OweBound, BudgetType DEF CountInv
    <3>6. calls[r] = 0
      BY <1>6, <3>5
    <3>7. ~Pending(r, t, u, FALSE)
      BY <3>1 DEF Pending
    <3> QED
      BY <3>6, <3>7
  <2> QED
    BY <2>4, <2>5
<1>11. CASE (LocalHead(r) \/ LocalBody(r)) /\ agent[r] = "gone"
  <2>1. "hangup" \in Env
    BY <1>0, <1>11 DEF AgentInv, SeenOk
  <2> QED
    BY <2>1 DEF Steady
<1> QED
  BY <1>7, <1>8, <1>9, <1>10, <1>11 DEF GivesUp

\* A turn that gives up keeps the accounts.
LEMMA GivingUpInAccount ==
  ASSUME TypeOK, Bookkeeping, OneOwner, LinkInv, ExchangeInv, NEW r \in Requests, GivesUp(r)
  PROVE  CountInv' /\ SteadyInv' /\ CalmInv' /\ AckInv'
<1>9. PICK c : c = turn[r].conn
  OBVIOUS
<1> DEFINE v == [turn[r] EXCEPT !.pc = IF Retryable(r) THEN "ready" ELSE "over",
                                !.whole = TRUE, !.push = <<>>, !.conn = None]
<1>1. turn[r].pc = "await"
  BY DEF GivesUp, LocalEof, LocalRejected, LocalFail, LocalNeed, LocalHead, LocalBody, Arrived
<1>2. AttemptFails(r) /\ FarEndStill
  BY DEF GivesUp, LocalEof, LocalRejected, LocalFail, LocalNeed, LocalHead, LocalBody,
         FarEndStill, remote, admin
<1>3. turn \in [Requests -> Turn] /\ turn[r] \in Turn /\ got \in [Requests -> Seq(Parts)]
      /\ turn' \in [Requests -> Turn]
  <2>1. turn[r].conn \in Conns
    BY <1>1, Awaiting
  <2> QED
    BY <1>2, <2>1, AfterFailure DEF TypeOK, TypeLocal
<1>4. /\ turn' = [turn EXCEPT ![r] = v] /\ down' = [down EXCEPT ![c] = <<>>]
      /\ dialed' = dialed \ {c} /\ pool' = pool /\ got' = [got EXCEPT ![r] = got[r]]
  BY <1>2, <1>3, <1>9 DEF AttemptFails, DropConns
<1>5. /\ v \in Turn /\ v.conn = None /\ v.attempt = turn[r].attempt
      /\ v.pc = IF Retryable(r) THEN "ready" ELSE "over"
  <2>1. turn'[r] = v
    BY <1>3, <1>4
  <2>2. v \in Turn
    BY <1>3, <2>1
  <2>3. /\ v.conn = None /\ v.attempt = turn[r].attempt
        /\ v.pc = IF Retryable(r) THEN "ready" ELSE "over"
    BY <1>3 DEF Turn
  <2> QED
    BY <2>2, <2>3
<1>6. v.pc \in {"ready", "over"} /\ (v.pc = "ready" => Retryable(r))
  BY <1>5
<1>7. Calm => \A x \in ToSet(pool') : task[x].pc # "ended"
  BY <1>4 DEF ExchangeInv, CalmInv, Alive
<1>8. Retryable(r) => got[r] = <<>>
  BY OwnerFacts, <1>1, Awaiting DEF Retryable, GotOk
<1> HIDE DEF v
<1>10. ASSUME Steady  PROVE  ~Pending(r, task[c], up[c], FALSE) /\ (got[r] = <<>> => calls[r] = 0)
  BY <1>9, <1>10, SteadyGivesUp
<1>11. Steady /\ v.pc = "ready" => calls[r] = 0
  BY <1>6, <1>8, <1>10
<1>12. ASSUME Steady, NEW x \in Conns  PROVE ~Owes(r, x)'
  <2>1. c \in Conns => ~Owes(r, c)'
    <3>1. task' = task /\ up' = up /\ (c \in dialed') = FALSE
      BY <1>2, <1>4 DEF FarEndStill
    <3>2. Owes(r, c)' <=> Pending(r, task[c], up[c], FALSE)
      BY <3>1 DEF Owes
    <3> QED
      BY <1>10, <1>12, <3>2
  <2>2. dialed' \subseteq dialed /\ SteadyInv
    BY <1>4 DEF ExchangeInv
  <2>3. FarEndStill
    BY <1>2
  <2> QED
    BY <1>9, <1>12, <2>1, <2>2, <2>3, OwesElsewhere
<1>13. dialed' \subseteq dialed
  BY <1>4
<1>14. /\ turn' = [turn EXCEPT ![r] = v] /\ down' = [down EXCEPT ![c] = <<>>]
       /\ got' = [got EXCEPT ![r] = got[r]] /\ FarEndStill
  BY <1>2, <1>4
<1>15. v \in Turn /\ v.conn = None /\ v.attempt = turn[r].attempt
  BY <1>5
<1> QED
  BY <1>1, <1>6, <1>7, <1>9, <1>11, <1>12, <1>13, <1>14, <1>15, LetsGoInAccount

\* The end of an answer says that the call was made, and the task is there for the next.
LEMMA EndedInAccount ==
  ASSUME TypeOK, Bookkeeping, OneOwner, LinkInv, ExchangeInv, NEW r \in Requests,
         Arrived(r, "ResponseEnd"), NEW c, c = turn[r].conn, NEW open
  PROVE  /\ ~Pending(r, task[c], up[c], open) /\ Tail(down[c]) = <<>>
         /\ Calm => task[c].pc # "ended"
<1>1. /\ turn[r].pc = "await" /\ c \in Conns /\ c \in dialed
      /\ down[c] \in Seq(DownFrame) /\ down[c] # <<>> /\ DownChain(down[c])
      /\ Incoming(r) = down[c][1] /\ Incoming(r).tag = "ResponseEnd"
      /\ WireOk(task[c], up[c], down[c], TRUE, FALSE)
  BY ArrivedFacts
<1>2. Says(down[c], "ResponseEnd")
  <2>1. Says(down[c], down[c][1].tag)
    BY <1>1, SaysFirst
  <2> QED
    BY <1>1, <2>1
<1>3. \/ task[c].pc = "ended"
      \/ task[c].pc = "read" /\ up[c] = <<>>
  BY <1>1, <1>2, FreshTasks DEF WireOk
<1>4. Tail(down[c]) = <<>>
  BY <1>1, LastFrame
<1>5. Calm => task[c].pc # "ended"
  <2>1. c # None
    BY <1>1, Awaiting
  <2> QED
    BY <1>2, <2>1 DEF ExchangeInv, CalmInv, CutShort, Alive
<1> QED
  BY <1>3, <1>4, <1>5, PendingNothing

\* A turn whose answer is complete keeps the accounts.
LEMMA EndingInAccount ==
  ASSUME TypeOK, Bookkeeping, OneOwner, LinkInv, ExchangeInv, NEW r \in Requests, LocalEnd(r)
  PROVE  CountInv' /\ SteadyInv' /\ CalmInv' /\ AckInv'
<1>1. PICK c : c = turn[r].conn
  OBVIOUS
<1> DEFINE v == [turn[r] EXCEPT !.pc = "over", !.conn = None]
<1>2. Arrived(r, "ResponseEnd") /\ turn[r].pc = "await"
  BY DEF LocalEnd, Arrived
<1>3. FarEndStill
  BY DEF LocalEnd, FarEndStill, remote, admin
<1>4. turn \in [Requests -> Turn] /\ turn[r] \in Turn /\ got \in [Requests -> Seq(Parts)]
      /\ c \in Conns /\ down \in [Conns -> Seq(DownFrame)]
  BY <1>1, <1>2, Awaiting DEF TypeOK, TypeLocal, TypeWire
<1>5. /\ turn' = [turn EXCEPT ![r] = v] /\ got' = [got EXCEPT ![r] = got[r]]
  BY <1>4 DEF LocalEnd
<1>6. \/ pool' = Append(pool, c) /\ down' = [down EXCEPT ![c] = Tail(down[c])] /\ dialed' = dialed
      \/ pool' = pool /\ down' = [down EXCEPT ![c] = <<>>] /\ dialed' = dialed \ {c}
  BY <1>1 DEF LocalEnd, Consume, DropConns
<1>7. /\ \A open : ~Pending(r, task[c], up[c], open)
      /\ Tail(down[c]) = <<>> /\ (Calm => task[c].pc # "ended")
  BY <1>1, <1>2, EndedInAccount
<1>8. down' = [down EXCEPT ![c] = <<>>] /\ dialed' \subseteq dialed
  BY <1>6, <1>7
<1>9. Calm => \A x \in ToSet(pool') : task[x].pc # "ended"
  <2>1. ToSet(Append(pool, c)) = ToSet(pool) \cup {c}
    BY <1>4, ToSetAppend DEF TypeOK, TypeLocal
  <2>2. ToSet(pool') \subseteq ToSet(pool) \cup {c}
    BY <1>6, <2>1
  <2> QED
    BY <1>7, <2>2 DEF ExchangeInv, CalmInv, Alive
<1>10. v \in Turn /\ v.conn = None /\ v.attempt = turn[r].attempt /\ v.pc = "over"
  <2>1. v \in Turn
    BY <1>4 DEF Turn
  <2>2. v.conn = None /\ v.attempt = turn[r].attempt /\ v.pc = "over"
    BY <1>4 DEF Turn
  <2> QED
    BY <2>1, <2>2
<1> HIDE DEF v
<1>11. ASSUME Steady, NEW x \in Conns  PROVE ~Owes(r, x)'
  <2>1. c \in Conns => ~Owes(r, c)'
    <3>1. task' = task /\ up' = up
      BY <1>3 DEF FarEndStill
    <3> QED
      BY <1>7, <3>1 DEF Owes
  <2>2. SteadyInv
    BY DEF ExchangeInv
  <2> QED
    BY <1>1, <1>3, <1>8, <1>11, <2>1, <2>2, OwesElsewhere
<1>12. v.pc \in {"ready", "over"} /\ (Steady /\ v.pc = "ready" => calls[r] = 0)
  BY <1>10
<1> QED
  BY <1>1, <1>2, <1>3, <1>5, <1>8, <1>9, <1>10, <1>11, <1>12, LetsGoInAccount

\* A turn that has no connection yet, and has none after.
LEMMA QuietInAccount ==
  ASSUME TypeOK, ExchangeInv, NEW r \in Requests, NEW v \in Turn, v.conn = None,
         turn[r].conn = None, turn[r].pc \in {"new", "ready"},
         v.attempt = turn[r].attempt, turn' = [turn EXCEPT ![r] = v],
         UNCHANGED <<got, pool, dialed, up, down, cut, task, calls, paired>>
  PROVE  CountInv' /\ SteadyInv' /\ CalmInv' /\ AckInv'
<1>0. /\ CountInv /\ SteadyInv /\ CalmInv /\ AckInv
      /\ paired' = paired /\ calls' = calls /\ task' = task /\ up' = up /\ down' = down
      /\ dialed' = dialed /\ got' = got /\ pool' = pool /\ cut' = cut
  BY DEF ExchangeInv
<1>1. turn \in [Requests -> Turn] /\ turn[r] \in Turn
  BY DEF TypeOK, TypeLocal
<1>2. \A q \in Requests, x \in Conns : Owes(q, x)' => Owes(q, x)
  BY <1>0, OwesStill
<1>3. CountInv'
  <2>1. Budget(turn[r]) <= Budget(v)
    BY <1>1, BudgetKept
  <2> QED
    BY <1>0, <1>2, <2>1, CountTurn
<1>4. SteadyInv'
  <2>1. Steady => \A x \in Conns : Owes(r, x)' => v.conn = x
    BY <1>0, <1>2, NoneAssumption DEF SteadyInv
  <2>2. \A q \in Requests \ {r} : turn[q].conn # None =>
          (Says(down'[turn[q].conn], "Fail") => Says(down[turn[q].conn], "Fail"))
    BY <1>0
  <2>3. Steady => (v.conn # None /\ Says(down'[v.conn], "Fail") => calls[r] = 0)
    OBVIOUS
  <2>4. \A q \in Requests \ {r}, x \in Conns : Owes(q, x)' => Owes(q, x)
    BY <1>2
  <2> QED
    BY <1>0, <2>1, <2>2, <2>3, <2>4, SteadyTurn
<1>5. CalmInv'
  <2> SUFFICES ASSUME Calm  PROVE CalmNext
    BY <1>0, CalmStep
  <2>1. cut' = {} /\ \A x \in ToSet(pool') : task'[x].pc # "ended"
    BY <1>0 DEF CalmInv, Alive
  <2>2. ASSUME NEW q \in Requests, turn'[q].conn # None, task'[turn'[q].conn].pc = "ended"
        PROVE  CutShort(down'[turn'[q].conn], got'[q])
    <3>1. q # r /\ turn'[q] = turn[q]
      BY <1>1, <2>2
    <3> QED
      BY <1>0, <2>2, <3>1 DEF CalmInv, Alive
  <2> QED
    BY <2>1, <2>2 DEF CalmNext
<1>6. AckInv'
  BY <1>0, AckTurn
<1> QED
  BY <1>3, <1>4, <1>5, <1>6

\* Splitting a request, or failing to dial, changes no account.
LEMMA PreparingInAccount ==
  ASSUME TypeOK, Bookkeeping, ExchangeInv, NEW r \in Requests, Prepare(r) \/ DialFails(r),
         TypeOK'
  PROVE  CountInv' /\ SteadyInv' /\ CalmInv' /\ AckInv'
<1>1. turn \in [Requests -> Turn] /\ turn[r] \in Turn /\ turn' \in [Requests -> Turn]
  BY DEF TypeOK, TypeLocal
<1>2. turn[r].pc \in {"new", "ready"} /\ turn[r].conn = None
  BY DEF Prepare, DialFails, Bookkeeping
<1>3. \E v : turn' = [turn EXCEPT ![r] = v] /\ v.conn = None /\ v.attempt = turn[r].attempt
  <2>1. CASE Prepare(r)
    <3>1. PICK w, p : turn' = [turn EXCEPT ![r].pc = "ready", ![r].whole = w, ![r].push = p]
      BY <2>1 DEF Prepare
    <3>2. DEFINE v == [turn[r] EXCEPT !.pc = "ready", !.whole = w, !.push = p]
    <3>3. v.conn = None /\ v.attempt = turn[r].attempt
      BY <1>1, <1>2 DEF Turn
    <3>4. turn' = [turn EXCEPT ![r] = v]
      BY <1>1, <3>1
    <3> QED
      BY <3>3, <3>4
  <2>2. CASE DialFails(r)
    <3>1. DEFINE v == [turn[r] EXCEPT !.pc = "over"]
    <3>2. v.conn = None /\ v.attempt = turn[r].attempt
      BY <1>1, <1>2 DEF Turn
    <3>3. turn' = [turn EXCEPT ![r] = v]
      BY <1>1, <2>2 DEF DialFails
    <3> QED
      BY <3>2, <3>3
  <2> QED
    BY <2>1, <2>2
<1>4. PICK v : turn' = [turn EXCEPT ![r] = v] /\ v.conn = None /\ v.attempt = turn[r].attempt
  BY <1>3
<1>5. v \in Turn
  <2>1. turn'[r] = v
    BY <1>1, <1>4
  <2> QED
    BY <1>1, <2>1
<1>6. UNCHANGED <<got, pool, dialed, up, down, cut, task, calls, paired>>
  BY DEF Prepare, DialFails, wire, remote, admin
<1> QED
  BY <1>2, <1>4, <1>5, <1>6, QuietInAccount

\* Turn r, which becomes v, begins an attempt on connection c, whose task is then t
\* and has to read u, in which nobody else's request is.
Begins(r, c, v, t, u) ==
  /\ turn[r].conn = None /\ turn[r].pc = "ready" /\ v.conn = c /\ v.pc = "await"
  /\ v.attempt = turn[r].attempt + 1 /\ turn' = [turn EXCEPT ![r] = v]
  /\ got' = got /\ down' = down /\ calls' = calls /\ paired' = paired
  /\ dialed' = dialed \cup {c} /\ cut' \subseteq cut /\ down[c] = <<>>
  /\ task' = [task EXCEPT ![c] = t] /\ (t.pc = "ended" \/ t = Blank \/ t = NewTask)
  /\ u \in Seq(UpFrame) /\ up' = [up EXCEPT ![c] = u]
  /\ \A i \in 1..Len(u) : u[i].tag = "RequestHead" => u[i].req = r
  /\ \A q \in Requests \ {r} : turn[q].conn # c
  /\ ToSet(pool') \subseteq ToSet(pool) \ {c}
  /\ Calm => t.pc # "ended"

\* Beginning an attempt keeps the accounts: one call more may be owed, and may be made.
LEMMA BeginsInAccount ==
  ASSUME TypeOK, ExchangeInv, NEW r \in Requests, NEW c \in Conns, NEW v \in Turn,
         NEW t, NEW u, Begins(r, c, v, t, u)
  PROVE  CountInv' /\ SteadyInv' /\ CalmInv' /\ AckInv'
<1> USE DEF Begins
<1>0. CountInv /\ SteadyInv /\ CalmInv /\ AckInv
  BY DEF ExchangeInv
<1>1. /\ turn \in [Requests -> Turn] /\ turn[r] \in Turn
      /\ task \in [Conns -> Task] /\ up \in [Conns -> Seq(UpFrame)]
  BY DEF TypeOK, TypeLocal, TypeWire, TypeRemote
<1>2. ASSUME NEW q \in Requests, NEW x \in Conns, x # c, Owes(q, x)'  PROVE Owes(q, x)
  <2>1. task'[x] = task[x] /\ up'[x] = up[x] /\ (x \in dialed' <=> x \in dialed)
    BY <1>1, <1>2
  <2>2. Pending(q, task[x], up[x], x \in dialed')
    BY <1>2, <2>1 DEF Owes
  <2> QED
    BY <2>1, <2>2, PendingLess DEF Owes
<1>3. ASSUME NEW q \in Requests, q # r  PROVE ~Owes(q, c)'
  <2>1. \A i \in 1..Len(u) : u[i].tag = "RequestHead" => u[i].req # q
    BY <1>3
  <2>2. \A open : ~Pending(q, t, u, open)
    <3>1. CASE t.pc = "ended" \/ t = Blank
      BY <2>1, <3>1, PendingIdle
    <3>2. CASE t = NewTask
      BY <2>1, <3>2, FreshTasks, NoneAssumption DEF Pending
    <3> QED
      BY <3>1, <3>2
  <2>3. task'[c] = t /\ up'[c] = u
    BY <1>1
  <2> QED
    BY <2>2, <2>3 DEF Owes
<1>4. ASSUME NEW q \in Requests, q # r, NEW x \in Conns, Owes(q, x)'  PROVE Owes(q, x)
  BY <1>2, <1>3, <1>4
<1>5. CountInv'
  <2> SUFFICES ASSUME NEW q \in Requests
               PROVE  Within(calls'[q], Owed(q)', Budget(turn'[q]))
    BY DEF CountInv, Within, Budget
  <2>1. turn[q] \in Turn /\ Budget(turn[q]) \in Nat /\ calls[q] \in Nat
    BY <1>1, BudgetType DEF TypeOK, TypeRemote
  <2>2. Within(calls[q], Owed(q), Budget(turn[q]))
    BY <1>0 DEF CountInv
  <2>3. CASE q = r
    <3>1. turn'[q] = v /\ Budget(v) = Budget(turn[q]) + 1
      BY <1>1, <2>3 DEF Budget
    <3>2. Owed(q)' \subseteq Owed(q) \cup {c}
      BY <1>2, OwedMembers
    <3>3. Within(calls[q], Owed(q)', Budget(turn[q]) + 1)
      BY <2>1, <2>2, <3>2, OweMore
    <3> QED
      BY <3>1, <3>3
  <2>4. CASE q # r
    <3>1. turn'[q] = turn[q]
      BY <1>1, <2>4
    <3>2. Owed(q)' \subseteq Owed(q)
      BY <1>4, <2>4, OwedMembers
    <3>3. Budget(turn[q]) <= Budget(turn[q])
      BY <2>1
    <3>4. Within(calls[q], Owed(q)', Budget(turn[q]))
      BY <2>1, <2>2, <3>2, <3>3, OweLess
    <3> QED
      BY <3>1, <3>4
  <2> QED
    BY <2>3, <2>4
<1>6. SteadyInv'
  <2>1. Steady => \A x \in Conns : Owes(r, x)' => v.conn = x
    <3> SUFFICES ASSUME Steady, NEW x \in Conns, Owes(r, x)', x # c  PROVE FALSE
      OBVIOUS
    <3>1. Owes(r, x)
      BY <1>2
    <3> QED
      BY <1>0, <3>1, NoneAssumption DEF SteadyInv
  <2>2. \A q \in Requests \ {r} : turn[q].conn # None =>
          (Says(down'[turn[q].conn], "Fail") => Says(down[turn[q].conn], "Fail"))
    OBVIOUS
  <2>3. Steady => (v.conn # None /\ Says(down'[v.conn], "Fail") => calls[r] = 0)
    BY SaysNothing
  <2>4. \A q \in Requests \ {r}, x \in Conns : Owes(q, x)' => Owes(q, x)
    BY <1>4
  <2> QED
    BY <1>0, <2>1, <2>2, <2>3, <2>4, SteadyTurn
<1>7. CalmInv'
  <2> SUFFICES ASSUME Calm  PROVE CalmNext
    BY CalmStep
  <2>1. cut' = {} /\ \A x \in ToSet(pool') : Alive(x) /\ x # c
    BY <1>0 DEF CalmInv
  <2>2. \A x : x # c => task'[x] = task[x]
    BY <1>1
  <2>3. \A x \in ToSet(pool') : task'[x].pc # "ended"
    BY <2>1, <2>2 DEF Alive
  <2>4. ASSUME NEW q \in Requests, turn'[q].conn # None, task'[turn'[q].conn].pc = "ended"
        PROVE  CutShort(down'[turn'[q].conn], got'[q])
    <3>1. CASE q = r
      BY <1>1, <2>4, <3>1
    <3>2. CASE q # r
      <4>1. turn'[q] = turn[q] /\ turn[q].conn # c
        BY <1>1, <3>2
      <4>2. turn[q].conn # None /\ task[turn[q].conn].pc = "ended"
        BY <2>2, <2>4, <4>1
      <4>3. CutShort(down[turn[q].conn], got[q])
        BY <1>0, <4>2 DEF CalmInv, Alive
      <4> QED
        BY <4>1, <4>3
    <3> QED
      BY <3>1, <3>2
  <2> QED
    BY <2>1, <2>3, <2>4 DEF CalmNext
<1>8. AckInv'
  BY <1>0, AckTurn
<1> QED
  BY <1>5, <1>6, <1>7, <1>8

\* What beginning an attempt makes of the turn.
LEMMA BeginTurn ==
  ASSUME TypeOK, TypeOK', Bookkeeping, NEW r \in Requests, NEW c \in Conns, NEW heard,
         Begin(r, c, heard)
  PROVE  \E v \in Turn : /\ turn' = [turn EXCEPT ![r] = v] /\ v.conn = c /\ v.pc = "await"
                         /\ v.attempt = turn[r].attempt + 1 /\ v.whole = turn[r].whole
<1> DEFINE v == [turn[r] EXCEPT !.pc = "await", !.attempt = @ + 1, !.conn = c, !.repairs = 0]
<1>1. turn \in [Requests -> Turn] /\ turn[r] \in Turn /\ turn' \in [Requests -> Turn]
  BY DEF TypeOK, TypeLocal
<1>2. turn' = [turn EXCEPT ![r] = v]
  BY <1>1 DEF Begin
<1>3. v \in Turn
  <2>1. turn'[r] = v
    BY <1>1, <1>2
  <2> HIDE DEF v
  <2> QED
    BY <1>1, <2>1
<1>4. /\ v.conn = c /\ v.pc = "await" /\ v.attempt = turn[r].attempt + 1
      /\ v.whole = turn[r].whole
  BY <1>1 DEF Turn
<1> QED
  BY <1>2, <1>3, <1>4

\* Two uploads of r joined have no other request in them.
LEMMA JoinHeads ==
  ASSUME NEW r, NEW x \in Seq(UpFrame), NEW y \in Seq(UpFrame),
         \A i \in 1..Len(x) : x[i].tag = "RequestHead" => x[i].req = r,
         \A i \in 1..Len(y) : y[i].tag = "RequestHead" => y[i].req = r
  PROVE  /\ x \o y \in Seq(UpFrame)
         /\ \A i \in 1..Len(x \o y) : (x \o y)[i].tag = "RequestHead" => (x \o y)[i].req = r
<1> DEFINE w == x \o y
<1>1. /\ Len(x) \in Nat /\ Len(y) \in Nat /\ Len(w) = Len(x) + Len(y)
      /\ \A i \in 1..Len(x) : w[i] = x[i]
      /\ \A i \in 1..Len(y) : w[Len(x) + i] = y[i]
  BY JoinParts
<1>2. w \in Seq(UpFrame)
  OBVIOUS
<1> HIDE DEF w
<1>3. ASSUME NEW i \in 1..Len(w), w[i].tag = "RequestHead"
      PROVE  w[i].req = r
  <2>1. CASE i <= Len(x)
    <3>1. i \in 1..Len(x)
      BY <1>1, <2>1
    <3> QED
      BY <1>1, <1>3, <3>1
  <2>2. CASE i > Len(x)
    <3>1. PICK j \in 1..Len(y) : i = Len(x) + j
      <4>1. i - Len(x) \in 1..Len(y) /\ i = Len(x) + (i - Len(x))
        BY <1>1, <2>2
      <4> QED
        BY <4>1
    <3>2. w[i] = y[j]
      BY <1>1, <3>1
    <3> QED
      BY <1>3, <3>2
  <2> QED
    BY <1>1, <2>1, <2>2
<1> QED
  BY <1>2, <1>3 DEF w

\* A turn takes a pooled connection: one call more may be owed.
LEMMA TakePooledInAccount ==
  ASSUME TypeOK, TypeOK', Bookkeeping, OneOwner, LinkInv, ExchangeInv,
         NEW r \in Requests, TakePooled(r)
  PROVE  CountInv' /\ SteadyInv' /\ CalmInv' /\ AckInv'
<1>0. PICK c : c = Last(pool)
  OBVIOUS
<1>1. PICK heard : heard = Hears(c)
  OBVIOUS
<1>2. /\ turn[r].pc = "ready" /\ pool # <<>> /\ Begin(r, c, heard) /\ pool' = Front(pool)
      /\ UNCHANGED <<got, dialed, down, cut, task, rstore, calls, paired>>
  BY <1>0, <1>1 DEF TakePooled, remote, admin
<1>3. /\ c \in ToSet(pool) /\ c \in Conns /\ ToSet(Front(pool)) = ToSet(pool) \ {c}
      /\ c \in dialed
  <2>1. pool \in Seq(Conns) /\ Distinct(pool)
    BY OwnerParts DEF TypeOK, TypeLocal
  <2>2. c \in ToSet(pool) /\ c \in Conns /\ ToSet(Front(pool)) = ToSet(pool) \ {c}
    BY <1>0, <1>2, <2>1, TakeLast
  <2> QED
    BY <2>2 DEF OneOwner
<1> DEFINE w == Upload(r, c)
           u == IF heard THEN up[c] \o w ELSE up[c]
<1>4. up' = [up EXCEPT ![c] = u]
  <2>1. up' = IF heard THEN [up EXCEPT ![c] = @ \o w] ELSE up
    BY <1>2 DEF Begin
  <2>2. up \in [Conns -> Seq(UpFrame)]
    BY DEF TypeOK, TypeWire
  <2> HIDE DEF w
  <2> QED
    BY <2>1, <2>2
<1>5. PICK v \in Turn : /\ turn' = [turn EXCEPT ![r] = v] /\ v.conn = c /\ v.pc = "await"
                        /\ v.attempt = turn[r].attempt + 1 /\ v.whole = turn[r].whole
  BY <1>2, <1>3, BeginTurn
<1>6. /\ task[c] \in Task /\ up[c] \in Seq(UpFrame)
      /\ WireOk(task[c], up[c], down[c], c \in dialed, TRUE)
      /\ task' = [task EXCEPT ![c] = task[c]]
  <2>1. (c \in ToSet(pool)) = TRUE
    BY <1>3
  <2>2. /\ task[c] \in Task /\ up[c] \in Seq(UpFrame)
        /\ WireOk(task[c], up[c], down[c], c \in dialed, c \in ToSet(pool))
        /\ task = [task EXCEPT ![c] = task[c]]
    BY <1>3, ConnFacts
  <2>3. task' = task
    BY <1>2
  <2> QED
    BY <2>1, <2>2, <2>3
<1>7. /\ w \in Seq(UpFrame)
      /\ \A i \in 1..Len(w) : w[i].tag = "RequestHead" => w[i].req = r
  BY <1>3, UploadChain
<1>8. /\ down[c] = <<>> /\ ToSet(up[c]) \subseteq {Reset}
      /\ (task[c].pc = "ended" \/ task[c] = Blank)
  BY <1>6, SaysNothing DEF WireOk
<1>9. u \in Seq(UpFrame) /\ \A i \in 1..Len(u) : u[i].tag = "RequestHead" => u[i].req = r
  <2> HIDE DEF w
  <2>1. PICK x : x = up[c]
    OBVIOUS
  <2>2. PICK y : y = w
    OBVIOUS
  <2>3. x \in Seq(UpFrame) /\ ToSet(x) \subseteq {Reset} /\ y \in Seq(UpFrame)
    BY <1>6, <1>7, <1>8, <2>1, <2>2
  <2>4. \A i \in 1..Len(x) : x[i].tag = "RequestHead" => x[i].req = r
    BY <2>3, OnlyResets
  <2>5. \A i \in 1..Len(y) : y[i].tag = "RequestHead" => y[i].req = r
    BY <1>7, <2>2
  <2>6. /\ x \o y \in Seq(UpFrame)
        /\ \A i \in 1..Len(x \o y) : (x \o y)[i].tag = "RequestHead" => (x \o y)[i].req = r
    BY <2>3, <2>4, <2>5, JoinHeads
  <2>7. u = x \o y \/ u = x
    BY <2>1, <2>2
  <2> HIDE DEF u
  <2> QED
    BY <2>3, <2>4, <2>6, <2>7
<1>10. \A q \in Requests \ {r} : turn[q].conn # c
  BY <1>3 DEF OneOwner
<1>11. ToSet(pool') \subseteq ToSet(pool) \ {c} /\ dialed' = dialed \cup {c} /\ cut' \subseteq cut
  BY <1>2, <1>3
<1>12. Calm => task[c].pc # "ended"
  BY <1>3 DEF ExchangeInv, CalmInv, Alive
<1>13. turn[r].conn = None
  BY <1>2 DEF Bookkeeping
<1> HIDE DEF w, u
<1>14. got' = got /\ down' = down /\ calls' = calls /\ paired' = paired
  BY <1>2
<1>15. PICK t, z : t = task[c] /\ z = u
  OBVIOUS
<1>16. /\ task' = [task EXCEPT ![c] = t] /\ (t.pc = "ended" \/ t = Blank)
       /\ (Calm => t.pc # "ended")
  BY <1>6, <1>8, <1>12, <1>15
<1>17. /\ z \in Seq(UpFrame) /\ up' = [up EXCEPT ![c] = z]
       /\ \A i \in 1..Len(z) : z[i].tag = "RequestHead" => z[i].req = r
  BY <1>4, <1>9, <1>15
<1>18. c \in Conns /\ turn[r].pc = "ready" /\ down[c] = <<>>
  BY <1>2, <1>3, <1>8
<1>19. Begins(r, c, v, t, z)
  BY <1>5, <1>10, <1>11, <1>13, <1>14, <1>16, <1>17, <1>18 DEF Begins
<1> QED
  BY <1>18, <1>19, BeginsInAccount

\* A turn dials: one call more is owed.
LEMMA DialInAccount ==
  ASSUME TypeOK, TypeOK', Bookkeeping, OneOwner, LinkInv, ExchangeInv,
         NEW r \in Requests, Dial(r)
  PROVE  CountInv' /\ SteadyInv' /\ CalmInv' /\ AckInv'
<1>1. PICK c \in Conns \ dialed :
        /\ ~Alive(c) /\ Begin(r, c, TRUE)
        /\ dialed' = dialed \cup {c} /\ cut' = cut \ {c}
        /\ task' = [task EXCEPT ![c] = NewTask]
  BY DEF Dial
<1>2. turn[r].pc = "ready" /\ UNCHANGED <<got, pool, down, calls, paired>>
  BY DEF Dial, admin
<1> DEFINE w == Upload(r, c)
<1>3. up' = [up EXCEPT ![c] = up[c] \o w]
  BY <1>1 DEF Begin, TypeOK, TypeWire
<1>4. PICK v \in Turn : /\ turn' = [turn EXCEPT ![r] = v] /\ v.conn = c /\ v.pc = "await"
                        /\ v.attempt = turn[r].attempt + 1 /\ v.whole = turn[r].whole
  BY <1>1, BeginTurn
<1>5. /\ up[c] \in Seq(UpFrame)
      /\ WireOk(task[c], up[c], down[c], c \in dialed, c \in ToSet(pool))
  BY <1>1, ConnFacts
<1>6. up[c] = <<>> /\ down[c] = <<>>
  BY <1>1, <1>5 DEF WireOk, Reads, Alive
<1>7. /\ w \in Seq(UpFrame)
      /\ \A i \in 1..Len(w) : w[i].tag = "RequestHead" => w[i].req = r
  BY <1>1, UploadChain
<1>8. up' = [up EXCEPT ![c] = w]
  <2>1. up[c] \o w = w
    BY <1>6, <1>7
  <2> QED
    BY <1>3, <2>1
<1>9. c \notin ToSet(pool) /\ \A q \in Requests \ {r} : turn[q].conn # c
  BY <1>1, NoneAssumption DEF OneOwner
<1>10. turn[r].conn = None
  BY <1>2 DEF Bookkeeping
<1>11. NewTask.pc # "ended"
  BY FreshTasks
<1>12. ToSet(pool') \subseteq ToSet(pool) \ {c} /\ cut' \subseteq cut
  BY <1>1, <1>2, <1>9
<1> HIDE DEF w
<1>13. got' = got /\ down' = down /\ calls' = calls /\ paired' = paired
  BY <1>2
<1>14. PICK t, z : t = NewTask /\ z = w
  OBVIOUS
<1>15. task' = [task EXCEPT ![c] = t] /\ t = NewTask /\ (Calm => t.pc # "ended")
  BY <1>1, <1>11, <1>14
<1>16. /\ z \in Seq(UpFrame) /\ up' = [up EXCEPT ![c] = z]
       /\ \A i \in 1..Len(z) : z[i].tag = "RequestHead" => z[i].req = r
  BY <1>7, <1>8, <1>14
<1>17. c \in Conns /\ turn[r].pc = "ready" /\ down[c] = <<>> /\ dialed' = dialed \cup {c}
  BY <1>1, <1>2, <1>6
<1>18. Begins(r, c, v, t, z)
  BY <1>4, <1>9, <1>10, <1>12, <1>13, <1>15, <1>16, <1>17 DEF Begins
<1> QED
  BY <1>17, <1>18, BeginsInAccount

\* A step that moves no turn: it leaves the connections that carry turns as they are,
\* or breaks them in a run where connections break.
Apart ==
  /\ turn' = turn /\ got' = got /\ calls' = calls /\ paired' = paired
  /\ \A q \in Requests, x \in Conns : Owes(q, x)' => Owes(q, x)
  /\ \A x \in Conns : Acked(down[x]) => Acked(down'[x])
  /\ Calm \/ Steady =>
       /\ cut' = cut
       /\ \A x \in ToSet(pool') : x \in ToSet(pool) /\ task'[x].pc = task[x].pc
       /\ \A r \in Requests : turn[r].conn # None =>
            /\ task'[turn[r].conn] = task[turn[r].conn]
            /\ down'[turn[r].conn] = down[turn[r].conn]

\* Such a step keeps the accounts.
LEMMA ApartInAccount ==
  ASSUME TypeOK, ExchangeInv, Apart
  PROVE  CountInv' /\ SteadyInv' /\ CalmInv' /\ AckInv'
<1>0. /\ CountInv /\ SteadyInv /\ CalmInv /\ AckInv
      /\ turn' = turn /\ got' = got /\ calls' = calls /\ paired' = paired
  BY DEF ExchangeInv, Apart
<1>1. CountInv'
  <2> SUFFICES ASSUME NEW q \in Requests
               PROVE  Within(calls'[q], Owed(q)', Budget(turn'[q]))
    BY DEF CountInv, Within, Budget
  <2>1. turn[q] \in Turn /\ calls[q] \in Nat
    BY DEF TypeOK, TypeLocal, TypeRemote
  <2>2. Budget(turn[q]) \in Nat
    BY <2>1, BudgetType
  <2>3. Owed(q)' \subseteq Owed(q)
    BY OwedMembers DEF Apart
  <2>4. Within(calls[q], Owed(q), Budget(turn[q])) /\ Budget(turn[q]) <= Budget(turn[q])
    BY <1>0, <2>2 DEF CountInv
  <2>5. Within(calls[q], Owed(q)', Budget(turn[q]))
    BY <2>1, <2>2, <2>3, <2>4, OweLess
  <2> QED
    BY <1>0, <2>5
<1>2. SteadyInv'
  <2> SUFFICES ASSUME Steady, NEW q \in Requests
               PROVE  /\ \A x \in Conns : Owes(q, x)' => turn'[q].conn = x
                      /\ turn'[q].conn # None /\ Says(down'[turn'[q].conn], "Fail")
                           => calls'[q] = 0
    BY DEF SteadyInv, Steady, Says
  <2>1. \A x \in Conns : Owes(q, x)' => turn[q].conn = x
    BY <1>0 DEF SteadyInv, Apart
  <2>2. turn[q].conn # None => down'[turn[q].conn] = down[turn[q].conn]
    BY DEF Apart
  <2>3. turn[q].conn # None /\ Says(down[turn[q].conn], "Fail") => calls[q] = 0
    BY <1>0 DEF SteadyInv
  <2> QED
    BY <1>0, <2>1, <2>2, <2>3
<1>3. CalmInv'
  <2> SUFFICES ASSUME Calm  PROVE CalmNext
    BY <1>0, CalmStep
  <2>1. cut' = {} /\ \A x \in ToSet(pool') : task'[x].pc # "ended"
    BY <1>0 DEF CalmInv, Apart, Alive
  <2>2. ASSUME NEW q \in Requests, turn'[q].conn # None, task'[turn'[q].conn].pc = "ended"
        PROVE  CutShort(down'[turn'[q].conn], got'[q])
    <3>1. /\ turn'[q].conn = turn[q].conn /\ task'[turn[q].conn] = task[turn[q].conn]
          /\ down'[turn[q].conn] = down[turn[q].conn]
      BY <1>0, <2>2 DEF Apart
    <3> QED
      BY <1>0, <2>2, <3>1 DEF CalmInv, Alive
  <2> QED
    BY <2>1, <2>2 DEF CalmNext
<1>4. AckInv'
  BY <1>0, AckTurn DEF Apart
<1> QED
  BY <1>1, <1>2, <1>3, <1>4

\* reset_cache writes a Reset to a pooled connection, or drops it.
LEMMA ResettingIsApart ==
  ASSUME TypeOK, Bookkeeping, OneOwner, LinkInv, ResetConn
  PROVE  Apart
<1>0. PICK c : c = Head(pool)
  OBVIOUS
<1>1. /\ \/ /\ pool' = Append(Tail(pool), c)
            /\ up' = IF Hears(c) THEN [up EXCEPT ![c] = Append(@, Reset)] ELSE up
            /\ dialed' = dialed /\ down' = down
         \/ /\ pool' = Tail(pool)
            /\ dialed' = dialed \ {c} /\ down' = [down EXCEPT ![c] = <<>>]
            /\ up' = up
      /\ todo > 0
  BY <1>0 DEF ResetConn, DropConns
<1>2. /\ turn' = turn /\ got' = got /\ cut' = cut /\ task' = task /\ calls' = calls
      /\ paired' = paired
  BY DEF ResetConn, remote
<1>3. pool # <<>> /\ pool \in Seq(Conns) /\ Distinct(pool)
  <2>1. pool \in Seq(Conns)
    BY DEF TypeOK, TypeLocal
  <2>2. todo <= Len(pool) /\ todo \in Nat
    BY DEF Bookkeeping, TypeOK, TypeAdmin
  <2>3. Len(pool) # 0
    BY <1>1, <2>1, <2>2
  <2> QED
    BY <2>1, <2>3, OwnerParts
<1>4. /\ c \in ToSet(pool) /\ c \in Conns /\ ToSet(Tail(pool)) \subseteq ToSet(pool)
      /\ ToSet(Append(Tail(pool), c)) \subseteq ToSet(pool)
  <2>1. /\ c \in ToSet(pool) /\ c \in Conns /\ Tail(pool) \in Seq(Conns)
        /\ ToSet(Tail(pool)) = ToSet(pool) \ {c}
    BY <1>0, <1>3, TakeHead
  <2>2. PICK s : s = Tail(pool)
    OBVIOUS
  <2>3. s \in Seq(Conns)
    BY <2>1, <2>2
  <2>4. ToSet(Append(s, c)) = ToSet(s) \cup {c}
    BY <2>1, <2>3, ToSetAppend
  <2> QED
    BY <2>1, <2>2, <2>4
<1>5. \A x \in ToSet(pool') : x \in ToSet(pool)
  BY <1>1, <1>4
<1>6. \A q \in Requests : turn[q].conn # c
  BY <1>4 DEF OneOwner
<1>7. /\ task[c] \in Task /\ up[c] \in Seq(UpFrame) /\ down[c] = <<>>
      /\ ToSet(up[c]) \subseteq {Reset} /\ (task[c].pc = "ended" \/ task[c] = Blank)
  <2>1. (c \in ToSet(pool)) = TRUE
    BY <1>4
  <2>2. /\ task[c] \in Task /\ up[c] \in Seq(UpFrame)
        /\ WireOk(task[c], up[c], down[c], c \in dialed, c \in ToSet(pool))
    BY <1>4, ConnFacts
  <2> QED
    BY <2>1, <2>2, SaysNothing DEF WireOk
<1>8. down' = down
  <2>1. down \in [Conns -> Seq(DownFrame)]
    BY DEF TypeOK, TypeWire
  <2>2. [down EXCEPT ![c] = <<>>] = down
    BY <1>7, <2>1
  <2> QED
    BY <1>1, <2>2
<1>9. ASSUME NEW q \in Requests, NEW x \in Conns, Owes(q, x)'  PROVE Owes(q, x)
  <2>1. dialed' \subseteq dialed
    BY <1>1
  <2>2. CASE up' = up
    BY <1>2, <1>9, <2>1, <2>2, OwesStill
  <2>3. CASE up' = [up EXCEPT ![c] = Append(@, Reset)]
    <3>1. up \in [Conns -> Seq(UpFrame)]
      BY DEF TypeOK, TypeWire
    <3>2. CASE x = c
      <4>1. PICK u : u = up[c]
        OBVIOUS
      <4>2. u \in Seq(UpFrame) /\ ToSet(u) \subseteq {Reset}
        BY <1>7, <4>1
      <4>3. Append(u, Reset) \in Seq(UpFrame) /\ \A i \in 1..Len(Append(u, Reset)) :
              Append(u, Reset)[i].tag = "Reset"
        <5>1. \A i \in 1..Len(u) : u[i].tag = "Reset"
          BY <4>2, OnlyResets
        <5>2. Reset \in UpFrame /\ Reset.tag = "Reset"
          BY DEF Reset, UpFrame
        <5>3. /\ Append(u, Reset) \in Seq(UpFrame) /\ Len(Append(u, Reset)) = Len(u) + 1
              /\ Len(u) \in Nat /\ \A i \in 1..Len(u) : Append(u, Reset)[i] = u[i]
              /\ Append(u, Reset)[Len(u) + 1] = Reset
          BY <4>2, <5>2, AppendParts
        <5> QED
          <6>1. PICK w : w = Append(u, Reset)
            OBVIOUS
          <6>2. ASSUME NEW i \in 1..Len(w)  PROVE w[i].tag = "Reset"
            <7>1. i \in 1..Len(u) \/ i = Len(u) + 1
              BY <5>3, <6>1
            <7> QED
              BY <5>1, <5>2, <5>3, <6>1, <7>1
          <6> QED
            BY <5>3, <6>1, <6>2
      <4>4. ~Pending(q, task[c], Append(u, Reset), x \in dialed')
        <5>1. \A i \in 1..Len(Append(u, Reset)) :
                Append(u, Reset)[i].tag = "RequestHead" => Append(u, Reset)[i].req # q
          BY <4>3
        <5>2. \A open : ~Pending(q, task[c], Append(u, Reset), open)
          <6>1. PICK t, v : t = task[c] /\ v = Append(u, Reset)
            OBVIOUS
          <6>2. \A open : ~Pending(q, t, v, open)
            BY <1>7, <4>3, <5>1, <6>1, PendingIdle
          <6> QED
            BY <6>1, <6>2
        <5> QED
          BY <5>2
      <4>5. up'[c] = Append(u, Reset) /\ task'[c] = task[c]
        BY <1>2, <1>4, <2>3, <3>1, <4>1
      <4> QED
        BY <1>9, <3>2, <4>4, <4>5 DEF Owes
    <3>3. CASE x # c
      <4>1. up'[x] = up[x] /\ task'[x] = task[x]
        BY <1>2, <2>3, <3>1, <3>3
      <4>2. Pending(q, task[x], up[x], x \in dialed')
        BY <1>9, <4>1 DEF Owes
      <4> QED
        BY <2>1, <4>2 DEF Owes, Pending
    <3> QED
      BY <3>2, <3>3
  <2> QED
    BY <1>1, <2>2, <2>3
<1> QED
  BY <1>2, <1>5, <1>8, <1>9 DEF Apart

\* The network breaks a connection, or the remote end restarts.
LEMMA BreakingIsApart ==
  ASSUME TypeOK, Restart \/ \E c \in Conns : Cut(c)
  PROVE  Apart
<1>1. ~Calm /\ ~Steady
  BY DEF Restart, Cut, Event, Calm, Steady
<1>2. /\ turn' = turn /\ got' = got /\ calls' = calls /\ paired' = paired /\ dialed' = dialed
  BY DEF Restart, Cut, local, remote
<1>3. /\ task \in [Conns -> Task] /\ up \in [Conns -> Seq(UpFrame)]
      /\ down \in [Conns -> Seq(DownFrame)]
  BY DEF TypeOK, TypeWire, TypeRemote
<1>4. \A x \in Conns : /\ task'[x] = task[x] \/ task'[x] = Ended
                       /\ up'[x] = up[x] \/ up'[x] = <<>>
                       /\ down'[x] = down[x] \/ down'[x] = <<>>
  <2>1. CASE Restart
    BY <2>1 DEF Restart
  <2>2. ASSUME NEW c \in Conns, Cut(c)
        PROVE  \A x \in Conns : /\ task'[x] = task[x] \/ task'[x] = Ended
                                /\ up'[x] = up[x] \/ up'[x] = <<>>
                                /\ down'[x] = down[x] \/ down'[x] = <<>>
    <3>1. task' = task
      BY <2>2 DEF Cut, remote
    <3>2. PICK u, d : /\ u \in {<<>>, up[c]} /\ up' = [up EXCEPT ![c] = u]
                      /\ d \in {<<>>, down[c]} /\ down' = [down EXCEPT ![c] = d]
      BY <2>2 DEF Cut
    <3> QED
      BY <1>3, <3>1, <3>2
  <2> QED
    BY <2>1, <2>2
<1>5. ASSUME NEW q \in Requests, NEW x \in Conns, Owes(q, x)'  PROVE Owes(q, x)
  <2>1. PICK t, u : t = task'[x] /\ u = up'[x]
    OBVIOUS
  <2>2. Pending(q, t, u, x \in dialed)
    BY <1>2, <1>5, <2>1 DEF Owes
  <2>3. t = task[x]
    BY <1>4, <2>1, <2>2, FreshTasks DEF Pending
  <2> QED
    BY <1>4, <2>1, <2>2, <2>3, PendingLess DEF Owes
<1>6. \A x \in Conns : Acked(down[x]) => Acked(down'[x])
  BY <1>4 DEF Acked
<1> QED
  BY <1>1, <1>2, <1>5, <1>6 DEF Apart

\* Nothing on the link moves.
LEMMA OthersAreApart ==
  ASSUME UNCHANGED <<turn, got, pool, dialed, up, down, cut, task, calls, paired>>
  PROVE  Apart
<1>1. /\ turn' = turn /\ got' = got /\ calls' = calls /\ paired' = paired /\ dialed' = dialed
      /\ task' = task /\ up' = up /\ down' = down /\ cut' = cut /\ pool' = pool
  OBVIOUS
<1>2. \A q \in Requests, x \in Conns : Owes(q, x)' => Owes(q, x)
  BY <1>1, OwesStill
<1> QED
  BY <1>1, <1>2 DEF Apart

\* A step concerns one turn and its agent.
LEMMA AgentTurn ==
  ASSUME AgentInv, NEW r \in Requests,
         \A q \in Requests \ {r} : turn'[q] = turn[q] /\ agent'[q] = agent[q] /\ got'[q] = got[q],
         SeenOk(turn'[r], agent'[r], got'[r])
  PROVE  AgentInv'
<1> SUFFICES ASSUME NEW q \in Requests  PROVE SeenOk(turn'[q], agent'[q], got'[q])
  BY DEF AgentInv, SeenOk
<1>1. CASE q = r
  BY <1>1
<1>2. CASE q # r
  BY <1>2 DEF AgentInv
<1> QED
  BY <1>1, <1>2

\* What is known of a turn and its agent.
LEMMA AgentFacts ==
  ASSUME TypeOK, LinkInv, ExchangeInv, NEW r \in Requests
  PROVE  /\ SeenOk(turn[r], agent[r], got[r]) /\ turn[r] \in Turn
         /\ turn[r].headSent <=> got[r] # <<>>
         /\ turn[r].pc \in {"new", "ready"} => got[r] = <<>>
         /\ turn \in [Requests -> Turn] /\ DOMAIN agent = Requests /\ DOMAIN got = Requests
         /\ got[r] \in Seq(Parts)
<1>1. SeenOk(turn[r], agent[r], got[r])
  BY DEF ExchangeInv, AgentInv
<1>2. GotOk(r, turn[r], got[r], calls[r])
  BY DEF LinkInv, GotInv
<1> QED
  BY <1>1, <1>2 DEF GotOk, TypeOK, TypeLocal

\* An agent whose attempt failed waits on, if there is another, or is told.
LEMMA FailingSeen ==
  ASSUME TypeOK, LinkInv, ExchangeInv, NEW r \in Requests, turn[r].pc = "await",
         AttemptFails(r)
  PROVE  AgentInv'
<1>1. /\ SeenOk(turn[r], agent[r], got[r]) /\ turn[r] \in Turn
      /\ turn[r].headSent <=> got[r] # <<>>
      /\ turn \in [Requests -> Turn] /\ DOMAIN agent = Requests
  BY AgentFacts
<1>2. /\ turn' = [turn EXCEPT ![r].pc = IF Retryable(r) THEN "ready" ELSE "over",
                              ![r].whole = TRUE, ![r].push = <<>>, ![r].conn = None]
      /\ agent' = IF Retryable(r) THEN agent ELSE [agent EXCEPT ![r] = AgentAtEnd(r)]
      /\ got' = got
  BY DEF AttemptFails
<1>3. /\ \A q \in Requests \ {r} : turn'[q] = turn[q] /\ agent'[q] = agent[q]
      /\ turn'[r].pc = IF Retryable(r) THEN "ready" ELSE "over"
      /\ turn'[r].whole = TRUE
      /\ agent'[r] = IF Retryable(r) THEN agent[r] ELSE AgentAtEnd(r)
  BY <1>1, <1>2 DEF Turn
<1>4. SeenOk(turn'[r], agent'[r], got'[r])
  <2>1. CASE Retryable(r)
    <3>1. got[r] = <<>>
      BY <1>1, <2>1 DEF Retryable
    <3> QED
      BY <1>1, <1>2, <1>3, <2>1, <3>1 DEF SeenOk
  <2>2. CASE ~Retryable(r)
    BY <1>1, <1>2, <1>3, <2>2 DEF SeenOk, AgentAtEnd
  <2> QED
    BY <2>1, <2>2
<1> QED
  BY <1>2, <1>3, <1>4, AgentTurn DEF ExchangeInv

\* A step of the local end keeps the turns and what the agents have seen in step.
LEMMA LocalSeen ==
  ASSUME TypeOK, Bookkeeping, OneOwner, LinkInv, ExchangeInv, NEW r \in Requests,
         Local(r) \/ DialFails(r)
  PROVE  AgentInv'
<1>1. /\ SeenOk(turn[r], agent[r], got[r]) /\ turn[r] \in Turn
      /\ turn[r].headSent <=> got[r] # <<>>
      /\ turn[r].pc \in {"new", "ready"} => got[r] = <<>>
      /\ turn \in [Requests -> Turn] /\ DOMAIN agent = Requests /\ DOMAIN got = Requests
      /\ got[r] \in Seq(Parts)
  BY AgentFacts
<1>2. AgentInv
  BY DEF ExchangeInv
<1>3. CASE Prepare(r)
  <2>1. turn[r].pc = "new" /\ turn[r].attempt = 0
    BY <1>3 DEF Prepare, Bookkeeping
  <2>2. PICK w, p : turn' = [turn EXCEPT ![r].pc = "ready", ![r].whole = w, ![r].push = p]
    BY <1>3 DEF Prepare
  <2>3. agent' = [agent EXCEPT ![r] = "waiting"] /\ got' = got
    BY <1>3 DEF Prepare
  <2>4. /\ \A q \in Requests \ {r} : turn'[q] = turn[q] /\ agent'[q] = agent[q] /\ got'[q] = got[q]
        /\ turn'[r].pc = "ready" /\ turn'[r].attempt = 0 /\ agent'[r] = "waiting"
    BY <1>1, <2>1, <2>2, <2>3 DEF Turn
  <2>5. SeenOk(turn'[r], agent'[r], got'[r])
    BY <2>4 DEF SeenOk
  <2> QED
    BY <1>2, <2>4, <2>5, AgentTurn
<1>4. CASE TakePooled(r) \/ Dial(r)
  <2>1. turn[r].pc = "ready" /\ got' = got /\ agent' = agent
    BY <1>4 DEF TakePooled, Dial
  <2>2. PICK c : turn' = [turn EXCEPT ![r].pc = "await", ![r].attempt = @ + 1,
                                      ![r].conn = c, ![r].repairs = 0]
    BY <1>4 DEF TakePooled, Dial, Begin
  <2>3. /\ \A q \in Requests \ {r} : turn'[q] = turn[q]
        /\ turn'[r].pc = "await" /\ turn'[r].attempt = turn[r].attempt + 1
        /\ turn'[r].whole = turn[r].whole
    BY <1>1, <2>2 DEF Turn
  <2>4. SeenOk(turn'[r], agent'[r], got'[r])
    BY <1>1, <2>1, <2>3 DEF SeenOk
  <2> QED
    BY <1>2, <2>1, <2>3, <2>4, AgentTurn
<1>5. CASE DialFails(r)
  <2>1. /\ turn[r].pc = "ready" /\ got' = got /\ agent' = [agent EXCEPT ![r] = AgentAtEnd(r)]
        /\ turn' = [turn EXCEPT ![r].pc = "over"]
    BY <1>5 DEF DialFails
  <2>2. /\ \A q \in Requests \ {r} : turn'[q] = turn[q] /\ agent'[q] = agent[q]
        /\ turn'[r].pc = "over" /\ agent'[r] = AgentAtEnd(r)
    BY <1>1, <2>1 DEF Turn
  <2>3. SeenOk(turn'[r], agent'[r], got'[r])
    BY <1>1, <2>1, <2>2 DEF SeenOk, AgentAtEnd
  <2> QED
    BY <1>2, <2>1, <2>2, <2>3, AgentTurn
<1>6. CASE LocalHelloAck(r) \/ LocalBloom(r)
  <2>1. turn' = turn /\ agent' = agent /\ got' = got
    BY <1>6 DEF LocalHelloAck, LocalBloom, local
  <2> QED
    BY <1>1, <1>2, <2>1, AgentTurn
<1>7. CASE LocalNeed(r) /\ turn[r].repairs < MaxRepairs
  <2>1. /\ turn' = [turn EXCEPT ![r].repairs = @ + 1] /\ agent' = agent /\ got' = got
    BY <1>1, <1>7, BoundsAssumption DEF LocalNeed, Turn
  <2>2. /\ \A q \in Requests \ {r} : turn'[q] = turn[q]
        /\ turn'[r].pc = turn[r].pc /\ turn'[r].attempt = turn[r].attempt
        /\ turn'[r].whole = turn[r].whole
    BY <1>1, <2>1 DEF Turn
  <2>3. SeenOk(turn'[r], agent'[r], got'[r])
    BY <1>1, <2>1, <2>2 DEF SeenOk
  <2> QED
    BY <1>2, <2>1, <2>2, <2>3, AgentTurn
<1>8. CASE LocalHead(r) /\ agent[r] # "gone"
  <2>1. /\ turn' = [turn EXCEPT ![r].headSent = TRUE] /\ turn[r].pc = "await"
        /\ agent' = [agent EXCEPT ![r] = "streaming"]
        /\ got' = [got EXCEPT ![r] = Append(@, Incoming(r).part)]
    BY <1>8 DEF LocalHead, Arrived
  <2>2. /\ \A q \in Requests \ {r} : turn'[q] = turn[q] /\ agent'[q] = agent[q] /\ got'[q] = got[q]
        /\ turn'[r].pc = turn[r].pc /\ turn'[r].attempt = turn[r].attempt
        /\ turn'[r].whole = turn[r].whole /\ agent'[r] = "streaming"
    BY <1>1, <2>1 DEF Turn
  <2>3. got'[r] # <<>>
    BY <1>1, <2>1
  <2>4. SeenOk(turn'[r], agent'[r], got'[r])
    BY <1>1, <2>1, <2>2, <2>3 DEF SeenOk
  <2> QED
    BY <1>2, <2>2, <2>4, AgentTurn
<1>9. CASE LocalBody(r) /\ agent[r] # "gone"
  <2>1. /\ turn' = turn /\ turn[r].pc = "await" /\ agent' = agent
        /\ got' = [got EXCEPT ![r] = Append(@, Incoming(r).part)]
    BY <1>9 DEF LocalBody, Arrived
  <2>2. got[r] # <<>>
    <3>1. Arrived(r, "ResponseBody")
      BY <1>9 DEF LocalBody
    <3>2. PICK c : c = turn[r].conn
      OBVIOUS
    <3>3. /\ DownFirst(r, got[r], down[c][1]) /\ Incoming(r) = down[c][1]
          /\ Incoming(r).tag = "ResponseBody"
      BY <3>1, <3>2, ArrivedFacts
    <3> QED
      BY <3>3, BoundsAssumption DEF DownFirst
  <2>3. got'[r] # <<>> /\ \A q \in Requests \ {r} : got'[q] = got[q]
    BY <1>1, <2>1
  <2>4. SeenOk(turn'[r], agent'[r], got'[r])
    BY <1>1, <2>1, <2>2, <2>3 DEF SeenOk
  <2> QED
    BY <1>2, <2>1, <2>3, <2>4, AgentTurn
<1>10. CASE LocalEnd(r)
  <2>1. /\ turn[r].pc = "await" /\ got' = got /\ agent' = [agent EXCEPT ![r] = AgentAtEnd(r)]
        /\ turn' = [turn EXCEPT ![r].pc = "over", ![r].conn = None]
    BY <1>10 DEF LocalEnd, Arrived
  <2>2. /\ \A q \in Requests \ {r} : turn'[q] = turn[q] /\ agent'[q] = agent[q]
        /\ turn'[r].pc = "over" /\ agent'[r] = AgentAtEnd(r)
    BY <1>1, <2>1 DEF Turn
  <2>3. SeenOk(turn'[r], agent'[r], got'[r])
    BY <1>1, <2>1, <2>2 DEF SeenOk, AgentAtEnd
  <2> QED
    BY <1>2, <2>1, <2>2, <2>3, AgentTurn
<1>11. CASE GivesUp(r)
  <2>1. turn[r].pc = "await" /\ AttemptFails(r)
    BY <1>11 DEF GivesUp, LocalEof, LocalRejected, LocalFail, LocalNeed, LocalHead, LocalBody,
                 Arrived
  <2> QED
    BY <2>1, FailingSeen
<1>12. turn[r].repairs < MaxRepairs \/ turn[r].repairs >= MaxRepairs
  BY <1>1, BoundsAssumption DEF Turn
<1> QED
  BY <1>3, <1>4, <1>5, <1>6, <1>7, <1>8, <1>9, <1>10, <1>11, <1>12 DEF Local, GivesUp

\* An agent hangs up.
LEMMA HangingUpSeen ==
  ASSUME TypeOK, LinkInv, ExchangeInv, NEW r \in Requests, AgentHangsUp(r)
  PROVE  AgentInv'
<1>1. /\ SeenOk(turn[r], agent[r], got[r]) /\ turn \in [Requests -> Turn] /\ DOMAIN agent = Requests
      /\ AgentInv
  BY AgentFacts DEF ExchangeInv
<1>2. /\ agent' = [agent EXCEPT ![r] = "gone"] /\ turn' = turn /\ got' = got
      /\ agent[r] \in {"waiting", "streaming"} /\ "hangup" \in Env
  BY DEF AgentHangsUp, Event
<1>3. agent'[r] = "gone" /\ \A q \in Requests \ {r} : agent'[q] = agent[q]
  BY <1>1, <1>2
<1>4. SeenOk(turn'[r], agent'[r], got'[r])
  BY <1>1, <1>2, <1>3 DEF SeenOk
<1> QED
  BY <1>1, <1>2, <1>3, <1>4, AgentTurn

\* A step of the local end keeps the accounts.
LEMMA LocalInAccount ==
  ASSUME TypeOK, TypeOK', Bookkeeping, OneOwner, LinkInv, ExchangeInv, NEW r \in Requests,
         Local(r) \/ DialFails(r)
  PROVE  ExchangeInv'
<1>1. turn[r].repairs < MaxRepairs \/ turn[r].repairs >= MaxRepairs
  BY BoundsAssumption DEF TypeOK, TypeLocal, Turn
<1>2. \/ Prepare(r) \/ DialFails(r) \/ TakePooled(r) \/ Dial(r) \/ GivesUp(r) \/ LocalEnd(r)
      \/ LocalHelloAck(r) \/ LocalBloom(r)
      \/ (LocalHead(r) \/ LocalBody(r)) /\ agent[r] # "gone"
      \/ LocalNeed(r) /\ turn[r].repairs < MaxRepairs
  BY <1>1 DEF Local, GivesUp
<1>3. CountInv' /\ SteadyInv' /\ CalmInv' /\ AckInv'
  BY <1>2, PreparingInAccount, TakePooledInAccount, DialInAccount, GivingUpInAccount,
     EndingInAccount, TakingInAccount
<1>4. AgentInv'
  BY LocalSeen
<1> QED
  BY <1>3, <1>4 DEF ExchangeInv

\* A step of the remote end, or the upstream breaking off, keeps the accounts.
LEMMA RemoteInAccount ==
  ASSUME TypeOK, Bookkeeping, OneOwner, LinkInv, ExchangeInv, NEW c \in Conns,
         Remote(c) \/ UpstreamBreaks(c)
  PROVE  ExchangeInv'
<1>1. CountInv /\ SteadyInv /\ CalmInv /\ AgentInv /\ AckInv
  BY DEF ExchangeInv
<1>2. CountInv' /\ SteadyInv' /\ CalmInv' /\ AckInv'
  BY <1>1, RemoteCounts, RemoteSteady, RemoteCalm, RemoteAcks
<1>3. AgentInv'
  BY <1>1, RemoteStill DEF AgentInv, SeenOk
<1> QED
  BY <1>2, <1>3 DEF ExchangeInv

\* Every other step keeps the accounts.
LEMMA OtherInAccount ==
  ASSUME TypeOK, Bookkeeping, OneOwner, LinkInv, ExchangeInv,
         \/ Resetting \/ Restart \/ ResetViews \/ \E c \in Conns : Cut(c)
         \/ \E b \in Blocks : RemoteEvicts(b) \/ LocalEvicts(b)
         \/ \E r \in Requests : AgentHangsUp(r)
         \/ UNCHANGED vars
  PROVE  ExchangeInv'
<1>1. CASE \E r \in Requests : AgentHangsUp(r)
  <2>1. PICK r \in Requests : AgentHangsUp(r)
    BY <1>1
  <2>2. UNCHANGED <<turn, got, pool, dialed, up, down, cut, task, calls, paired>>
    BY <2>1 DEF AgentHangsUp, wire, remote
  <2>3. CountInv' /\ SteadyInv' /\ CalmInv' /\ AckInv'
    BY <2>2, OthersAreApart, ApartInAccount
  <2>4. AgentInv'
    BY <2>1, HangingUpSeen
  <2> QED
    BY <2>3, <2>4 DEF ExchangeInv
<1>2. CASE ~\E r \in Requests : AgentHangsUp(r)
  <2>1. turn' = turn /\ agent' = agent /\ got' = got
    BY <1>2 DEF Resetting, ResetBloom, ResetLocks, ResetConn, ResetStore, Restart, ResetViews,
                Cut, RemoteEvicts, LocalEvicts, vars, local
  <2>2. ASSUME ResetConn  PROVE Apart
    BY <2>2, ResettingIsApart
  <2>3. ASSUME Restart \/ \E c \in Conns : Cut(c)  PROVE Apart
    BY <2>3, BreakingIsApart
  <2>4. ASSUME \/ ResetBloom \/ ResetLocks \/ ResetStore \/ ResetViews
               \/ \E b \in Blocks : RemoteEvicts(b) \/ LocalEvicts(b)
               \/ UNCHANGED vars
        PROVE  Apart
    <3>1. UNCHANGED <<turn, got, pool, dialed, up, down, cut, task, calls, paired>>
      BY <2>4 DEF ResetBloom, ResetLocks, ResetStore, ResetViews, RemoteEvicts, LocalEvicts,
                  vars, local, wire, remote, admin
    <3> QED
      BY <3>1, OthersAreApart
  <2>7. Apart
    BY <1>2, <2>2, <2>3, <2>4 DEF Resetting
  <2>5. CountInv' /\ SteadyInv' /\ CalmInv' /\ AckInv'
    BY <2>7, ApartInAccount
  <2>6. AgentInv'
    BY <2>1 DEF ExchangeInv, AgentInv, SeenOk
  <2> QED
    BY <2>5, <2>6 DEF ExchangeInv
<1> QED
  BY <1>1, <1>2

\* Every step of the link keeps the accounts.
LEMMA NextInAccount ==
  TypeOK /\ TypeOK' /\ Bookkeeping /\ OneOwner /\ LinkInv /\ ExchangeInv /\ [Next]_vars
    => ExchangeInv'
<1> SUFFICES ASSUME TypeOK, TypeOK', Bookkeeping, OneOwner, LinkInv, ExchangeInv, [Next]_vars
             PROVE  ExchangeInv'
  OBVIOUS
<1>1. ASSUME NEW r \in Requests, Local(r) \/ DialFails(r)  PROVE ExchangeInv'
  BY <1>1, LocalInAccount
<1>2. ASSUME NEW c \in Conns, Remote(c) \/ UpstreamBreaks(c)  PROVE ExchangeInv'
  BY <1>2, RemoteInAccount
<1>3. \/ \E r \in Requests : Local(r) \/ DialFails(r)
      \/ \E c \in Conns : Remote(c) \/ UpstreamBreaks(c)
      \/ Resetting \/ Restart \/ ResetViews \/ \E c \in Conns : Cut(c)
      \/ \E b \in Blocks : RemoteEvicts(b) \/ LocalEvicts(b)
      \/ \E r \in Requests : AgentHangsUp(r)
      \/ UNCHANGED vars
  BY DEF Next, Environment, Idle
<1> QED
  BY <1>1, <1>2, <1>3, OtherInAccount

\* Nothing is owed at first.
LEMMA ExchangeInvInit == Init => ExchangeInv
<1> SUFFICES ASSUME Init  PROVE ExchangeInv
  OBVIOUS
<1>1. /\ \A r \in Requests : turn[r] = NewTurn /\ agent[r] = "idle" /\ got[r] = <<>> /\ calls[r] = 0
      /\ \A c \in Conns : task[c] = Ended /\ down[c] = <<>>
      /\ pool = <<>> /\ cut = {} /\ paired \in Pairings
  BY DEF Init
<1>2. NewTurn.pc = "new" /\ NewTurn.conn = None /\ NewTurn.attempt = 0
  BY DEF NewTurn
<1>3. \A r \in Requests, c \in Conns : ~Owes(r, c)
  BY <1>1, FreshTasks DEF Owes, Pending
<1>4. CountInv
  <2> SUFFICES ASSUME NEW r \in Requests  PROVE Within(calls[r], Owed(r), Budget(turn[r]))
    BY DEF CountInv
  <2>1. Owed(r) = {} /\ calls[r] = 0 /\ Budget(turn[r]) = 0
    BY <1>1, <1>2, <1>3 DEF Owed, Budget
  <2>2. Within(0, {}, 0)
    BY OweNothing
  <2> QED
    BY <2>1, <2>2
<1>5. SteadyInv
  BY <1>1, <1>2, <1>3 DEF SteadyInv
<1>6. CalmInv
  <2>1. ToSet(pool) = {}
    BY <1>1 DEF ToSet
  <2> QED
    BY <1>1, <1>2, <2>1 DEF CalmInv
<1>7. AgentInv
  BY <1>1, <1>2 DEF AgentInv, SeenOk
<1>8. AckInv
  BY <1>1 DEF AckInv, Acked
<1> QED
  BY <1>4, <1>5, <1>6, <1>7, <1>8 DEF ExchangeInv

\* The accounts hold in every state (the calls an attempt is good for, the ways an
\* answer breaks off, what an agent has seen).
THEOREM CallsAreAccounted == Spec => []ExchangeInv
<1>1. TypeOK /\ TypeOK' /\ Bookkeeping /\ OneOwner /\ LinkInv /\ ExchangeInv /\ [Next]_vars
        => ExchangeInv'
  BY NextInAccount
<1> QED
  BY <1>1, ExchangeInvInit, LinkTypeCorrect, EveryConnHasOneOwner, WiresCarryOneTurn, PTL DEF Spec

-----------------------------------------------------------------------------
(* Every step of the link is one of the exchange, or none. *)

\* A step the agents and the upstream API do not notice.
Unnoticed == agent' = agent /\ got' = got /\ calls' = calls

\* A request that goes out is a call the promise still allows.
LEMMA ForwardingIsCall ==
  ASSUME TypeOK, Bookkeeping, LinkInv, ExchangeInv, NEW c \in Conns, RemoteForwards(c)
  PROVE  \E r \in Requests : Promise!Call(r)
<1>1. PICK r \in Requests : Owes(r, c) /\ calls' = [calls EXCEPT ![r] = @ + 1]
  BY ForwardCalls
<1>2. turn[r] \in Turn /\ calls[r] \in Nat
  BY DEF TypeOK, TypeLocal, TypeRemote
<1>3. /\ Budget(turn[r]) \in Nat /\ Budget(turn[r]) <= 2 /\ (Steady => Budget(turn[r]) <= 1)
  BY <1>2, BudgetType
<1>4. calls[r] + 1 <= Budget(turn[r])
  <2>1. Within(calls[r], Owed(r), Budget(turn[r])) /\ c \in Owed(r)
    BY <1>1, OwedMembers DEF ExchangeInv, CountInv
  <2> QED
    BY <1>2, <1>3, <2>1, OweBound
<1>5. turn[r].pc # "new"
  BY <1>2, <1>3, <1>4 DEF Budget, Bookkeeping
<1>6. agent[r] # "idle"
  BY <1>5 DEF ExchangeInv, AgentInv, SeenOk
<1>7. calls[r] < IF Env \cap {"cut", "restart", "hangup"} = {} THEN 1 ELSE 2
  BY <1>2, <1>3, <1>4 DEF Steady
<1>8. agent' = agent /\ got' = got
  BY DEF RemoteForwards, local
<1>9. Promise!Call(r)
  BY <1>1, <1>6, <1>7, <1>8 DEF Promise!Call
<1> QED
  BY <1>9

\* What the agent has seen when a frame of an answer is read.
LEMMA HandedPart ==
  ASSUME TypeOK, Bookkeeping, OneOwner, LinkInv, ExchangeInv, NEW r \in Requests, NEW tag,
         Arrived(r, tag)
  PROVE  /\ tag = "ResponseHead" =>
              /\ got[r] = <<>> /\ agent[r] \in {"waiting", "gone"}
              /\ \E n \in 1..calls[r] : Incoming(r).part = Part(r, n, 0)
         /\ tag = "ResponseBody" =>
              /\ got[r] # <<>> /\ Len(got[r]) <= NChunks /\ agent[r] \in {"streaming", "gone"}
              /\ Incoming(r).part = Part(r, got[r][1].call, Len(got[r]))
         /\ tag \in {"Need", "Fail"} =>
              got[r] = <<>> /\ ~turn[r].whole /\ agent[r] \in {"waiting", "gone"}
         /\ tag = "ResponseEnd" =>
              Len(got[r]) = NChunks + 1 /\ agent[r] \in {"streaming", "gone"}
<1>1. PICK c : c = turn[r].conn
  OBVIOUS
<1>2. /\ turn[r].pc = "await" /\ down[c] \in Seq(DownFrame) /\ down[c] # <<>>
      /\ Incoming(r) = down[c][1] /\ Incoming(r) \in DownFrame /\ Incoming(r).tag = tag
      /\ Carries(r, turn[r].whole, got[r], calls[r], task[c], up[c], down[c], Heard(c))
      /\ DownFirst(r, got[r], down[c][1])
      /\ calls[r] \in Nat /\ got[r] \in Seq(Parts)
  BY <1>1, ArrivedFacts
<1>3. SeenOk(turn[r], agent[r], got[r])
  BY DEF ExchangeInv, AgentInv
<1>4. AnswerTo(r, turn[r].whole, calls[r], Incoming(r))
  <2>1. 1 \in 1..Len(down[c])
    BY <1>2
  <2> QED
    BY <1>2, <2>1 DEF Carries, CarriesDown
<1>5. DownFirst(r, got[r], Incoming(r)) /\ NChunks \in Nat /\ (got[r] = <<>> <=> Len(got[r]) = 0)
  BY <1>2, BoundsAssumption
<1>6. CASE tag = "ResponseHead"
  <2>1. got[r] = <<>> /\ Incoming(r).part.part = 0
    BY <1>2, <1>5, <1>6 DEF DownFirst
  <2>2. agent[r] \in {"waiting", "gone"}
    BY <1>2, <1>3, <2>1 DEF SeenOk
  <2>3. /\ Incoming(r).part \in Parts /\ Incoming(r).part.req = r
        /\ Incoming(r).part.call \in 1..calls[r]
    BY <1>2, <1>4, <1>6 DEF AnswerTo, DownFrame
  <2>4. Incoming(r).part = Part(r, Incoming(r).part.call, 0)
    BY <2>1, <2>3 DEF Parts, Part
  <2> QED
    BY <1>6, <2>1, <2>2, <2>3, <2>4
<1>7. CASE tag = "ResponseBody"
  <2>1. /\ got[r] # <<>> /\ Len(got[r]) <= NChunks
        /\ Incoming(r).part = Part(r, got[r][1].call, Len(got[r]))
    BY <1>2, <1>5, <1>7 DEF DownFirst
  <2>2. agent[r] \in {"streaming", "gone"}
    BY <1>2, <1>3, <2>1 DEF SeenOk
  <2> QED
    BY <1>7, <2>1, <2>2
<1>8. CASE tag \in {"Need", "Fail"}
  <2>1. got[r] = <<>> /\ ~turn[r].whole
    BY <1>2, <1>4, <1>5, <1>8 DEF DownFirst, AnswerTo
  <2>2. agent[r] \in {"waiting", "gone"}
    BY <1>2, <1>3, <2>1 DEF SeenOk
  <2> QED
    BY <1>8, <2>1, <2>2
<1>9. CASE tag = "ResponseEnd"
  <2>1. Len(got[r]) = NChunks + 1
    BY <1>2, <1>5, <1>9 DEF DownFirst
  <2>2. got[r] # <<>>
    BY <1>5, <2>1
  <2>3. agent[r] \in {"streaming", "gone"}
    BY <1>2, <1>3, <2>2 DEF SeenOk
  <2> QED
    BY <1>9, <2>1, <2>3
<1> QED
  BY <1>6, <1>7, <1>8, <1>9

\* The head of an answer reaches the agent, or more of it.
LEMMA HandingIsAnswer ==
  ASSUME TypeOK, Bookkeeping, OneOwner, LinkInv, ExchangeInv, NEW r \in Requests,
         LocalHead(r) \/ LocalBody(r), agent[r] # "gone"
  PROVE  Promise!Begin(r) \/ Promise!Continue(r)
<1>1. calls' = calls /\ got' = [got EXCEPT ![r] = Append(@, Incoming(r).part)]
  BY DEF LocalHead, LocalBody, remote
<1>2. got \in [Requests -> Seq(Parts)]
  BY DEF TypeOK, TypeLocal
<1>3. CASE LocalHead(r)
  <2>1. Arrived(r, "ResponseHead") /\ agent' = [agent EXCEPT ![r] = "streaming"]
    BY <1>3 DEF LocalHead
  <2>2. got[r] = <<>> /\ agent[r] = "waiting"
    BY <2>1, HandedPart
  <2>3. PICK n \in 1..calls[r] : Incoming(r).part = Part(r, n, 0)
    BY <2>1, HandedPart
  <2>4. got' = [got EXCEPT ![r] = <<Promise!Answer(r, n, 0)>>]
    BY <1>1, <1>2, <2>2, <2>3 DEF Part, Promise!Answer
  <2> QED
    BY <1>1, <2>1, <2>2, <2>4 DEF Promise!Begin
<1>4. CASE LocalBody(r)
  <2>1. Arrived(r, "ResponseBody") /\ agent' = agent
    BY <1>4 DEF LocalBody
  <2>2. /\ Len(got[r]) <= NChunks /\ agent[r] = "streaming"
        /\ Incoming(r).part = Part(r, got[r][1].call, Len(got[r]))
    BY <2>1, HandedPart
  <2>3. got' = [got EXCEPT ![r] = Append(@, Promise!Answer(r, @[1].call, Len(@)))]
    BY <1>1, <1>2, <2>2 DEF Part, Promise!Answer
  <2> QED
    BY <1>1, <2>1, <2>2, <2>3 DEF Promise!Continue
<1> QED
  BY <1>3, <1>4

\* The answer is complete: the agent's body ends.
LEMMA EndingIsFinish ==
  ASSUME TypeOK, Bookkeeping, OneOwner, LinkInv, ExchangeInv, NEW r \in Requests, LocalEnd(r)
  PROVE  Promise!Finish(r) \/ Unnoticed
<1>1. /\ Arrived(r, "ResponseEnd") /\ agent' = [agent EXCEPT ![r] = AgentAtEnd(r)]
      /\ got' = got /\ calls' = calls
  BY DEF LocalEnd, remote
<1>2. Len(got[r]) = NChunks + 1 /\ agent[r] \in {"streaming", "gone"}
  BY <1>1, HandedPart
<1>3. CASE agent[r] = "streaming"
  <2>1. agent' = [agent EXCEPT ![r] = "ended"]
    BY <1>1, <1>3 DEF AgentAtEnd
  <2> QED
    BY <1>1, <1>2, <1>3, <2>1 DEF Promise!Finish
<1>4. CASE agent[r] = "gone"
  <2>1. agent' = agent
    BY <1>1, <1>4 DEF AgentAtEnd, TypeOK, TypeLocal
  <2> QED
    BY <1>1, <2>1 DEF Unnoticed
<1> QED
  BY <1>2, <1>3, <1>4

\* While neither a connection nor the upstream breaks, an attempt fails only when the
\* body can be sent again, whole.
LEMMA SoundGivesUp ==
  ASSUME TypeOK, Bookkeeping, OneOwner, LinkInv, ExchangeInv, SoundLink, NEW r \in Requests,
         GivesUp(r), agent[r] # "gone"
  PROVE  Retryable(r)
<1>0. /\ Calm /\ paired = TRUE /\ "upstream" \notin Env
      /\ CalmInv /\ AckInv /\ SeenOk(turn[r], agent[r], got[r])
  BY DEF SoundLink, LinkFaults, Calm, ExchangeInv, AgentInv, AckInv
<1>1. turn[r].pc = "await"
  BY DEF GivesUp, LocalEof, LocalRejected, LocalFail, LocalNeed, LocalHead, LocalBody, Arrived
<1>2. turn[r].headSent <=> got[r] # <<>>
  BY AgentFacts
<1>3. PICK c : c = turn[r].conn
  OBVIOUS
<1>4. c \in Conns /\ c \in dialed /\ c # None
  BY <1>1, <1>3, Awaiting
<1>5. ~LocalEof(r)
  <2> SUFFICES ASSUME LocalEof(r)  PROVE FALSE
    OBVIOUS
  <2>1. down[c] = <<>> /\ ~Alive(c)
    BY <1>0, <1>3 DEF LocalEof, Hears, CalmInv
  <2>2. CutShort(down[c], got[r])
    BY <1>0, <1>3, <1>4, <2>1 DEF CalmInv
  <2> QED
    BY <1>0, <2>1, <2>2 DEF CutShort, Broken
<1>6. ~LocalRejected(r)
  <2> SUFFICES ASSUME LocalRejected(r)  PROVE FALSE
    OBVIOUS
  <2>1. Arrived(r, "HelloAck") /\ ~Incoming(r).ok
    BY DEF LocalRejected
  <2>2. /\ down[c] \in Seq(DownFrame) /\ down[c] # <<>> /\ Incoming(r) = down[c][1]
        /\ Incoming(r).tag = "HelloAck"
    BY <1>3, <2>1, ArrivedFacts
  <2>3. 1 \in 1..Len(down[c]) /\ Acked(down[c])
    BY <1>0, <1>4, <2>2 DEF AckInv
  <2> QED
    BY <1>0, <2>1, <2>2, <2>3 DEF Acked
<1>7. Arrived(r, "Fail") \/ Arrived(r, "Need")
  BY <1>5, <1>6 DEF GivesUp, LocalFail, LocalNeed
<1>8. got[r] = <<>> /\ ~turn[r].whole
  BY <1>7, HandedPart
<1> QED
  BY <1>0, <1>1, <1>2, <1>8 DEF SeenOk, Retryable

\* An attempt fails: the agent waits on, or is refused, or its body ends.
LEMMA GivingUpIsEnd ==
  ASSUME TypeOK, Bookkeeping, OneOwner, LinkInv, ExchangeInv, NEW r \in Requests, GivesUp(r)
  PROVE  Promise!Finish(r) \/ Promise!Refuse(r) \/ Unnoticed
<1>1. turn[r].pc = "await" /\ AttemptFails(r) /\ calls' = calls
  BY DEF GivesUp, LocalEof, LocalRejected, LocalFail, LocalNeed, LocalHead, LocalBody,
         Arrived, remote
<1>2. /\ got' = got
      /\ agent' = IF Retryable(r) THEN agent ELSE [agent EXCEPT ![r] = AgentAtEnd(r)]
  BY <1>1 DEF AttemptFails
<1>3. CASE Retryable(r)
  BY <1>1, <1>2, <1>3 DEF Unnoticed
<1>4. CASE ~Retryable(r) /\ agent[r] = "gone"
  <2>1. agent' = agent
    BY <1>2, <1>4 DEF AgentAtEnd, TypeOK, TypeLocal
  <2> QED
    BY <1>1, <1>2, <2>1 DEF Unnoticed
<1>5. CASE ~Retryable(r) /\ agent[r] # "gone"
  <2>1. ~(Env \cap LinkFaults = {} /\ Pairings = {TRUE})
    BY <1>5, SoundGivesUp DEF SoundLink
  <2>2. agent[r] \in {"waiting", "streaming"}
    BY <1>1, <1>5 DEF ExchangeInv, AgentInv, SeenOk
  <2>3. CASE agent[r] = "waiting"
    <3>1. agent' = [agent EXCEPT ![r] = "refused"]
      BY <1>2, <1>5, <2>3 DEF AgentAtEnd
    <3> QED
      BY <1>1, <1>2, <2>1, <2>3, <3>1 DEF Promise!Refuse
  <2>4. CASE agent[r] = "streaming"
    <3>1. agent' = [agent EXCEPT ![r] = "ended"]
      BY <1>2, <1>5, <2>4 DEF AgentAtEnd
    <3> QED
      BY <1>1, <1>2, <2>1, <2>4, <3>1 DEF Promise!Finish
  <2> QED
    BY <2>2, <2>3, <2>4
<1> QED
  BY <1>3, <1>4, <1>5

\* What a step of the local end is to the agent.
LEMMA LocalIsExchange ==
  ASSUME TypeOK, Bookkeeping, OneOwner, LinkInv, ExchangeInv, NEW r \in Requests,
         Local(r) \/ DialFails(r) \/ AgentHangsUp(r)
  PROVE  Promise!Next \/ Unnoticed
<1>1. /\ SeenOk(turn[r], agent[r], got[r])
      /\ turn[r].pc \in {"new", "ready"} => got[r] = <<>>
  BY AgentFacts
<1>2. turn[r].repairs < MaxRepairs \/ turn[r].repairs >= MaxRepairs
  BY BoundsAssumption DEF TypeOK, TypeLocal, Turn
<1>3. CASE Prepare(r)
  <2>1. /\ turn[r].pc = "new" /\ agent' = [agent EXCEPT ![r] = "waiting"]
        /\ got' = got /\ calls' = calls
    BY <1>3 DEF Prepare, remote
  <2>2. Promise!Ask(r)
    BY <1>1, <2>1 DEF SeenOk, Promise!Ask
  <2> QED
    BY <2>2 DEF Promise!Next
<1>4. CASE \/ TakePooled(r) \/ Dial(r) \/ LocalHelloAck(r) \/ LocalBloom(r)
           \/ LocalNeed(r) /\ turn[r].repairs < MaxRepairs
  <2>1. ~(turn[r].repairs >= MaxRepairs) \/ ~LocalNeed(r) \/ ~(turn[r].repairs < MaxRepairs)
    BY BoundsAssumption DEF TypeOK, TypeLocal, Turn
  <2> QED
    BY <1>4, <2>1 DEF TakePooled, Dial, LocalHelloAck, LocalBloom, LocalNeed, Unnoticed,
                      local, remote
<1>5. CASE (LocalHead(r) \/ LocalBody(r)) /\ agent[r] # "gone"
  BY <1>5, HandingIsAnswer DEF Promise!Next
<1>6. CASE LocalEnd(r)
  BY <1>6, EndingIsFinish DEF Promise!Next
<1>7. CASE GivesUp(r)
  BY <1>7, GivingUpIsEnd DEF Promise!Next
<1>8. CASE DialFails(r)
  <2>1. /\ turn[r].pc = "ready" /\ got' = got /\ calls' = calls /\ "dial" \in Env
        /\ agent' = [agent EXCEPT ![r] = AgentAtEnd(r)]
    BY <1>8 DEF DialFails, remote, Event
  <2>2. agent[r] \in {"waiting", "gone"}
    BY <1>1, <2>1 DEF SeenOk
  <2>3. CASE agent[r] = "waiting"
    <3>1. agent' = [agent EXCEPT ![r] = "refused"]
      BY <2>1, <2>3 DEF AgentAtEnd
    <3>2. ~(Env \cap LinkFaults = {} /\ Pairings = {TRUE})
      BY <2>1 DEF LinkFaults
    <3>3. Promise!Refuse(r)
      BY <2>1, <2>3, <3>1, <3>2 DEF Promise!Refuse
    <3> QED
      BY <3>3 DEF Promise!Next
  <2>4. CASE agent[r] = "gone"
    <3>1. agent' = agent
      BY <2>1, <2>4 DEF AgentAtEnd, TypeOK, TypeLocal
    <3> QED
      BY <2>1, <3>1 DEF Unnoticed
  <2> QED
    BY <2>2, <2>3, <2>4
<1>9. CASE AgentHangsUp(r)
  <2>1. Promise!HangUp(r)
    BY <1>9 DEF AgentHangsUp, remote, Promise!HangUp
  <2> QED
    BY <2>1 DEF Promise!Next
<1> QED
  BY <1>2, <1>3, <1>4, <1>5, <1>6, <1>7, <1>8, <1>9 DEF Local, GivesUp

\* What any other step is to the agents.
LEMMA OtherIsExchange ==
  ASSUME TypeOK, Bookkeeping, OneOwner, LinkInv, ExchangeInv,
         \/ \E c \in Conns : Remote(c) \/ UpstreamBreaks(c) \/ Cut(c)
         \/ Resetting \/ Restart \/ ResetViews
         \/ \E b \in Blocks : RemoteEvicts(b) \/ LocalEvicts(b)
         \/ UNCHANGED vars
  PROVE  Promise!Next \/ Unnoticed
<1>1. ASSUME NEW c \in Conns, Remote(c) \/ UpstreamBreaks(c)
      PROVE  Promise!Next \/ Unnoticed
  <2>1. CASE RemoteForwards(c)
    BY <2>1, ForwardingIsCall DEF Promise!Next
  <2>2. CASE ~RemoteForwards(c)
    BY <1>1, <2>2, RemoteStill DEF Unnoticed
  <2> QED
    BY <2>1, <2>2
<1>2. ASSUME \/ \E c \in Conns : Cut(c)
             \/ Resetting \/ Restart \/ ResetViews
             \/ \E b \in Blocks : RemoteEvicts(b) \/ LocalEvicts(b)
             \/ UNCHANGED vars
      PROVE  Unnoticed
  BY <1>2 DEF Resetting, ResetBloom, ResetLocks, ResetConn, ResetStore, Restart, ResetViews, Cut,
              RemoteEvicts, LocalEvicts, vars, local, remote, Unnoticed
<1> QED
  BY <1>1, <1>2

\* The link implements the exchange it promises (Exchange!Spec with as many calls as
\* its environment may cost, and soundness when it may cost none): at most one
\* upstream call for a request, two when connections break or agents hang up; a prefix
\* of one answer for its agent; and the whole of it while nothing breaks.
THEOREM LinkImplementsExchange == Spec => ImplementsExchange
<1>1. Init => Promise!Init
  BY DEF Init, Promise!Init
<1>2. TypeOK /\ Bookkeeping /\ OneOwner /\ LinkInv /\ ExchangeInv /\ [Next]_vars
        => [Promise!Next]_(Promise!xvars)
  <2> SUFFICES ASSUME TypeOK, Bookkeeping, OneOwner, LinkInv, ExchangeInv, [Next]_vars
               PROVE  Promise!Next \/ Unnoticed
    BY DEF Unnoticed, Promise!xvars
  <2>1. ASSUME NEW r \in Requests, Local(r) \/ DialFails(r) \/ AgentHangsUp(r)
        PROVE  Promise!Next \/ Unnoticed
    BY <2>1, LocalIsExchange
  <2>2. \/ \E r \in Requests : Local(r) \/ DialFails(r) \/ AgentHangsUp(r)
        \/ \E c \in Conns : Remote(c) \/ UpstreamBreaks(c) \/ Cut(c)
        \/ Resetting \/ Restart \/ ResetViews
        \/ \E b \in Blocks : RemoteEvicts(b) \/ LocalEvicts(b)
        \/ UNCHANGED vars
    BY DEF Next, Environment, Idle
  <2> QED
    BY <2>1, <2>2, OtherIsExchange
<1> QED
  BY <1>1, <1>2, CallsAreAccounted, WiresCarryOneTurn, LinkTypeCorrect, EveryConnHasOneOwner,
     PTL DEF Spec, ImplementsExchange, Promise!Spec

=============================================================================
