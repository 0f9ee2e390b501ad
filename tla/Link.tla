-------------------------------- MODULE Link --------------------------------
(***************************************************************************)
(* The dedup link of the gateway: the local end takes a request from an    *)
(* agent, uploads it to the remote end as references to blocks the remote  *)
(* end is believed to hold plus the blocks it is believed to lack, and the *)
(* remote end rebuilds the body, calls the upstream API and relays the     *)
(* answer back on the same connection.                                     *)
(*                                                                         *)
(* What is kept: every frame of the protocol and the order the two ends    *)
(* write them in, every early return of local_end, remote_end and drive,   *)
(* the connection pool, the optimistic view of the remote store, and the   *)
(* one retry.  What is abstracted: a body is the request it belongs to, a  *)
(* block is a name, the store of either end is the set of blocks it holds  *)
(* (module Store has its insides; here an eviction may take any block at   *)
(* any time), and a body chunked over several frames is one frame.         *)
(***************************************************************************)
EXTENDS Naturals, FiniteSets, Sequences, SequencesExt

CONSTANTS
  Requests,    \* the requests agents make, one turn each
  Blocks,      \* every block some body can be cut into
  Conns,       \* slots for connections; a slot is reused once both ends closed
  None,        \* "no request" and "no connection"
  Prog,        \* Prog[r]: the blocks r's program references; {} is not split
  Kids,        \* Kids[b]: the blocks b's own program references (payloads)
  Collide,     \* blocks the remote end's bloom filter may report by collision
  Env,         \* which events of the environment may happen
  Pairings,    \* may the local end hold the remote end's pairing token, or not
  MaxRepairs,  \* MAX_REPAIRS
  MaxConns,    \* profile.max_conns, the capacity of the pool
  MaxReuse,    \* the 512 of put_conn: requests a connection may have carried
  MaxEvents,   \* bound: how many events of the environment happen
  NChunks      \* chunks of every upstream answer

\* "shadow" and "contend" are choices a step of the program leaves open; the
\* others are events, of which MaxEvents happen.
EnvEvents == {"cut", "restart", "dial", "evict", "forget", "reset",
              "hangup", "upstream", "shadow", "contend"}

ASSUME NoneAssumption   == None \notin Requests /\ None \notin Conns
ASSUME BodyAssumption   == /\ Prog \in [Requests -> SUBSET Blocks]
                           /\ Kids \in [Blocks -> SUBSET Blocks]
                           /\ \A b \in Blocks : \A k \in Kids[b] : Kids[k] = {}
ASSUME EnvAssumption    == Env \subseteq EnvEvents /\ Pairings \subseteq BOOLEAN
                           /\ Collide \subseteq Blocks
ASSUME FiniteAssumption == IsFiniteSet(Blocks)
ASSUME BoundsAssumption == {MaxRepairs, MaxConns, MaxReuse, MaxEvents, NChunks}
                             \subseteq Nat

VARIABLES
  turn,      \* turn[r]: the driver of r (drive and local_end's locals)
  agent,     \* agent[r]: what the agent of r has seen
  got,       \* got[r]: the parts of answers handed to the agent, in order
  pool,      \* idle connections, the last one is taken first
  dialed,    \* connections open at the local end
  used,      \* used[c]: Conn.requests
  lstore,    \* the local end's block store
  sent,      \* Optimistic.sent: pushed and not yet forgotten
  bloom,     \* SharedBloom: the last bloom the remote end reported
  up, down,  \* up[c], down[c]: frames in flight to the remote / local end
  cut,       \* connections the network has broken
  task,      \* task[c]: remote_end's locals
  rstore,    \* the remote end's block store
  calls,     \* calls[r]: how often the upstream API has received r
  paired,    \* the proof of the local end is the one the remote end expects
  events,    \* events of the environment so far
  resetting, \* what reset_cache does next: "no", clear the "bloom", lock the "pool";
             \* "locked": it writes to the connections of the pool
  todo       \* pooled connections that have still to be sent a Reset

local  == <<turn, agent, got, pool, dialed, used>>
views  == <<lstore, sent, bloom>>
wire   == <<up, down, cut>>
remote == <<task, rstore, calls>>
console == <<resetting, todo>>
admin  == <<paired, events, console>>
vars   == <<local, views, wire, remote, admin>>

-----------------------------------------------------------------------------
(* Frames.  The frames of an answer carry the request and the number of the *)
(* upstream call they come from, so that properties can tell answers apart. *)

Hello             == [tag |-> "Hello"]
RequestHead(r, s) == [tag |-> "RequestHead", req |-> r, split |-> s]
Program(r)        == [tag |-> "Program", req |-> r]
RequestBody(r)    == [tag |-> "RequestBody", req |-> r]
BlockFrame(b)     == [tag |-> "Block", block |-> b]
EndOfBody         == [tag |-> "EndOfBody"]
Reset             == [tag |-> "Reset"]

HelloAck(ok, empty) == [tag |-> "HelloAck", ok |-> ok, empty |-> empty]
Need(ds)            == [tag |-> "Need", blocks |-> ds]
Fail(clear)         == [tag |-> "Fail", clear |-> clear]
Bloom(ds)           == [tag |-> "Bloom", blocks |-> ds]
ResponseEnd         == [tag |-> "ResponseEnd"]
Part(r, n, i)       == [req |-> r, call |-> n, part |-> i]
ResponseHead(r, n)    == [tag |-> "ResponseHead", part |-> Part(r, n, 0)]
ResponseBody(r, n, i) == [tag |-> "ResponseBody", part |-> Part(r, n, i)]

Parts == [req : Requests, call : Nat, part : Nat]

UpFrame ==
  [tag : {"Hello", "EndOfBody", "Reset"}]
    \cup [tag : {"RequestHead"}, req : Requests, split : BOOLEAN]
    \cup [tag : {"Program", "RequestBody"}, req : Requests]
    \cup [tag : {"Block"}, block : Blocks]

DownFrame ==
  [tag : {"HelloAck"}, ok : BOOLEAN, empty : BOOLEAN]
    \cup [tag : {"Need", "Bloom"}, blocks : SUBSET Blocks]
    \cup [tag : {"Fail"}, clear : BOOLEAN]
    \cup [tag : {"ResponseHead", "ResponseBody"}, part : Parts]
    \cup [tag : {"ResponseEnd"}]

-----------------------------------------------------------------------------
(* State. *)

NewTurn == [pc |-> "new", attempt |-> 0, whole |-> FALSE, push |-> <<>>,
            conn |-> None, repairs |-> 0, headSent |-> FALSE]

NoHead  == [req |-> None, split |-> FALSE]
NewTask == [pc |-> "read", greeted |-> FALSE, head |-> NoHead, instrs |-> None,
            literal |-> <<>>, repairs |-> 0, call |-> 0, relayed |-> 0]
Ended   == [NewTask EXCEPT !.pc = "ended"]

\* reset_cache holds the lock of the pool while it writes to the connections.
PoolFree == resetting # "locked"

\* An event of the environment happens.
Event(e) == e \in Env /\ events < MaxEvents /\ events' = events + 1

Alive(c) == task[c].pc # "ended"
Heard(c) == c \in dialed \ cut        \* what the remote end writes arrives
Hears(c) == Alive(c) /\ c \notin cut  \* what the local end writes arrives

Init ==
  /\ turn = [r \in Requests |-> NewTurn]
  /\ agent = [r \in Requests |-> "idle"]
  /\ got = [r \in Requests |-> <<>>]
  /\ pool = <<>> /\ dialed = {} /\ used = [c \in Conns |-> 0]
  /\ lstore = {} /\ sent = {} /\ bloom = {}
  /\ up = [c \in Conns |-> <<>>] /\ down = [c \in Conns |-> <<>>] /\ cut = {}
  /\ task = [c \in Conns |-> Ended]
  /\ rstore = {} /\ calls = [r \in Requests |-> 0]
  /\ paired \in Pairings /\ events = 0
  /\ resetting = "no" /\ todo = 0

Turn == [pc : {"new", "ready", "await", "over"}, attempt : 0..2,
         whole : BOOLEAN, push : Seq(Blocks), conn : Conns \cup {None},
         repairs : Nat, headSent : BOOLEAN]

Task == [pc : {"read", "repair", "upstream", "relay", "ended"},
         greeted : BOOLEAN,
         head : [req : Requests \cup {None}, split : BOOLEAN],
         instrs : Requests \cup {None}, literal : Seq(Requests),
         repairs : Nat, call : Nat, relayed : Nat]

TypeLocal ==
  /\ turn \in [Requests -> Turn]
  /\ agent \in [Requests ->
                 {"idle", "waiting", "streaming", "ended", "refused", "gone"}]
  /\ got \in [Requests -> Seq(Parts)]
  /\ pool \in Seq(Conns) /\ dialed \subseteq Conns /\ used \in [Conns -> Nat]

TypeViews == lstore \subseteq Blocks /\ sent \subseteq Blocks /\ bloom \subseteq Blocks

TypeWire ==
  /\ up \in [Conns -> Seq(UpFrame)] /\ down \in [Conns -> Seq(DownFrame)]
  /\ cut \subseteq Conns

TypeRemote ==
  /\ task \in [Conns -> Task]
  /\ rstore \subseteq Blocks /\ calls \in [Requests -> Nat]

TypeAdmin ==
  /\ paired \in BOOLEAN /\ events \in 0..MaxEvents
  /\ resetting \in {"no", "bloom", "pool", "locked"} /\ todo \in Nat

TypeOK == TypeLocal /\ TypeViews /\ TypeWire /\ TypeRemote /\ TypeAdmin

-----------------------------------------------------------------------------
(* The local end: preparing a request and taking a connection. *)

\* What the splitter may see of the shared bloom: SharedBloom::has answers
\* "no" while another task is swapping the filter.
SeenBlooms == IF "contend" \in Env THEN SUBSET bloom ELSE {bloom}

\* Blocks of r's program queued for upload when `has` is what the remote end is
\* believed to hold: the children of a block first, as make_block queues them.
NewRoots(r, has) == Prog[r] \ has
NewKids(r, has)  == UNION {Kids[b] : b \in NewRoots(r, has)} \ has
ToPush(r, has)   ==
  SetToSeq(NewKids(r, has)) \o SetToSeq(NewRoots(r, has) \ NewKids(r, has))

\* An agent's request arrives and is split (or not) against the current view
\* of the remote store.  Every queued block is written through to the local
\* store.  In shadow mode the split is measured and the body goes whole.
Prepare(r) ==
  /\ turn[r].pc = "new"
  /\ \E seen \in SeenBlooms, shadow \in BOOLEAN :
       LET has == sent \cup seen
           whole == Prog[r] = {} \/ shadow
       IN /\ shadow => "shadow" \in Env
          /\ turn' = [turn EXCEPT ![r].pc = "ready", ![r].whole = whole,
                        ![r].push = IF whole THEN <<>> ELSE ToPush(r, has)]
          /\ lstore' = lstore \cup NewRoots(r, has) \cup NewKids(r, has)
  /\ agent' = [agent EXCEPT ![r] = "waiting"]
  /\ UNCHANGED <<got, pool, dialed, used, sent, bloom, wire, remote, admin>>

Payload(r) ==
  IF turn[r].whole THEN <<RequestBody(r)>>
  ELSE <<Program(r)>> \o [i \in DOMAIN turn[r].push |-> BlockFrame(turn[r].push[i])]

\* Mutant: the head keeps the split flag of the first attempt.
UploadStaleHead(r, c) ==
  (IF used[c] = 0 THEN <<Hello>> ELSE <<>>)
    \o <<RequestHead(r, Prog[r] # {})>> \o Payload(r) \o <<EndOfBody>>

Upload(r, c) ==
  (IF used[c] = 0 THEN <<Hello>> ELSE <<>>)
    \o <<RequestHead(r, ~turn[r].whole)>> \o Payload(r) \o <<EndOfBody>>

\* drive has connection c: local_end writes the whole request and notes what it
\* pushed.  On a connection whose other end is gone a write is lost or fails;
\* in the second case local_end returns before it notes anything.
Begin(r, c, heard) ==
  /\ turn' = [turn EXCEPT ![r].pc = "await", ![r].attempt = @ + 1,
                          ![r].conn = c, ![r].repairs = 0]
  /\ used' = [used EXCEPT ![c] = @ + 1]
  /\ up' = IF heard THEN [up EXCEPT ![c] = @ \o Upload(r, c)] ELSE up
  /\ \/ sent' = sent \cup (IF turn[r].whole THEN {} ELSE ToSet(turn[r].push))
     \/ ~heard /\ sent' = sent

\* Mutant: the connection is looked at but not taken out of the pool.
TakePooledPeeks(r) ==
  /\ turn[r].pc = "ready" /\ PoolFree
  /\ pool # <<>>
  /\ Begin(r, Last(pool), Hears(Last(pool)))
  /\ UNCHANGED <<agent, got, pool, dialed, lstore, bloom, down, cut, remote, admin>>

\* take_conn finds an idle connection: the one put back last.
TakePooled(r) ==
  /\ turn[r].pc = "ready" /\ PoolFree
  /\ pool # <<>>
  /\ Begin(r, Last(pool), Hears(Last(pool)))
  /\ pool' = Front(pool)
  /\ UNCHANGED <<agent, got, dialed, lstore, bloom, down, cut, remote, admin>>

\* take_conn finds none and dials: the remote end spawns a task for it.
Dial(r) ==
  /\ turn[r].pc = "ready" /\ PoolFree
  /\ pool = <<>>
  /\ \E c \in Conns \ dialed :
       /\ ~Alive(c)
       /\ Begin(r, c, TRUE)
       /\ dialed' = dialed \cup {c}
       /\ cut' = cut \ {c}
       /\ task' = [task EXCEPT ![c] = NewTask]
  /\ UNCHANGED <<agent, got, pool, lstore, bloom, down, rstore, calls, admin>>

\* What the agent has seen once drive returned: a 502 if no head has reached
\* it, and otherwise a body that ends (body_tx is dropped, no error is ever sent).
AgentAtEnd(r) == CASE agent[r] = "waiting"   -> "refused"
                [] agent[r] = "streaming" -> "ended"
                [] OTHER                  -> agent[r]

DialFails(r) ==
  /\ Event("dial")
  /\ turn[r].pc = "ready" /\ PoolFree
  /\ pool = <<>>
  /\ turn' = [turn EXCEPT ![r].pc = "over"]
  /\ agent' = [agent EXCEPT ![r] = AgentAtEnd(r)]
  /\ UNCHANGED <<got, pool, dialed, used, views, wire, remote, paired, console>>

-----------------------------------------------------------------------------
(* The local end: reading the answer. *)

\* The local end lets go of the connections in cs.
DropConns(cs) ==
  /\ dialed' = dialed \ cs
  /\ used' = [c \in Conns |-> IF c \in cs THEN 0 ELSE used[c]]

\* Mutants: every early failure is retried; a started answer does not stop the
\* retry; there is none.
RetryableAlways(r)    == ~turn[r].headSent
RetryableAfterHead(r) == turn[r].attempt = 1 /\ ~turn[r].whole
RetryableNever(r)     == FALSE

Retryable(r) == turn[r].attempt = 1 /\ ~turn[r].whole /\ ~turn[r].headSent

\* Mutant: the connection of a failed attempt is put back into the pool.
AttemptFailsPoolsConn(r) ==
  /\ pool' = Append(pool, turn[r].conn)
  /\ turn' = [turn EXCEPT
                ![r].pc = IF Retryable(r) THEN "ready" ELSE "over",
                ![r].whole = TRUE, ![r].push = <<>>, ![r].conn = None]
  /\ agent' = IF Retryable(r) THEN agent
              ELSE [agent EXCEPT ![r] = AgentAtEnd(r)]
  /\ UNCHANGED <<got, down, dialed, used>>

\* local_end returns an error (each kind it can return here falls back to a
\* whole body): the connection is dropped and drive sends the body whole, once.
AttemptFails(r) ==
  /\ DropConns({turn[r].conn})
  /\ down' = [down EXCEPT ![turn[r].conn] = <<>>]
  /\ turn' = [turn EXCEPT
                ![r].pc = IF Retryable(r) THEN "ready" ELSE "over",
                ![r].whole = TRUE, ![r].push = <<>>, ![r].conn = None]
  /\ agent' = IF Retryable(r) THEN agent
              ELSE [agent EXCEPT ![r] = AgentAtEnd(r)]
  /\ UNCHANGED <<got, pool>>

\* The frame local_end reads next.
Arrived(r, tag) == /\ turn[r].pc = "await"
                   /\ down[turn[r].conn] # <<>>
                   /\ Head(down[turn[r].conn]).tag = tag
Incoming(r)  == Head(down[turn[r].conn])
Consume(r)   == down' = [down EXCEPT ![turn[r].conn] = Tail(@)]

LocalEof(r) ==
  /\ turn[r].pc = "await"
  /\ down[turn[r].conn] = <<>>
  /\ ~Hears(turn[r].conn)
  /\ AttemptFails(r)
  /\ UNCHANGED <<views, up, cut, remote, admin>>

\* An ack from an empty store wipes the optimistic view.
LocalHelloAck(r) ==
  /\ Arrived(r, "HelloAck")
  /\ Incoming(r).ok
  /\ sent' = IF Incoming(r).empty THEN {} ELSE sent
  /\ Consume(r)
  /\ UNCHANGED <<local, lstore, bloom, up, cut, remote, admin>>

LocalRejected(r) ==
  /\ Arrived(r, "HelloAck")
  /\ ~Incoming(r).ok
  /\ AttemptFails(r)
  /\ UNCHANGED <<views, up, cut, remote, admin>>

\* Mutant: with nothing to push, nothing is answered.
ResendHeldOnly(r) == LET held == SetToSeq(Incoming(r).blocks \cap lstore)
                         again == [i \in DOMAIN held |-> BlockFrame(held[i])]
                     IN IF held = <<>> THEN <<>> ELSE again \o <<EndOfBody>>

\* Re-push the blocks asked for that the local store still has; a block it has
\* not is passed over in silence.
Resend(r) == LET held == SetToSeq(Incoming(r).blocks \cap lstore)
             IN [i \in DOMAIN held |-> BlockFrame(held[i])] \o <<EndOfBody>>

LocalNeed(r) ==
  /\ Arrived(r, "Need")
  /\ IF turn[r].repairs >= MaxRepairs
     THEN AttemptFails(r) /\ UNCHANGED up
     ELSE LET c == turn[r].conn
          IN /\ turn' = [turn EXCEPT ![r].repairs = @ + 1]
             /\ up' = IF Hears(c) THEN [up EXCEPT ![c] = @ \o Resend(r)] ELSE up
             /\ Consume(r)
             /\ UNCHANGED <<agent, got, pool, dialed, used>>
  /\ UNCHANGED <<views, cut, remote, admin>>

LocalFail(r) ==
  /\ Arrived(r, "Fail")
  /\ sent' = IF Incoming(r).clear THEN {} ELSE sent
  /\ AttemptFails(r)
  /\ UNCHANGED <<lstore, bloom, up, cut, remote, admin>>

LocalBloom(r) ==
  /\ Arrived(r, "Bloom")
  /\ bloom' = Incoming(r).blocks
  /\ Consume(r)
  /\ UNCHANGED <<local, lstore, sent, up, cut, remote, admin>>

\* The head goes to the agent.  If the agent has hung up, head_tx.send fails and
\* local_end returns LinkClosed with head_sent still unset.
LocalHead(r) ==
  /\ Arrived(r, "ResponseHead")
  /\ IF agent[r] = "gone"
     THEN AttemptFails(r)
     ELSE /\ turn' = [turn EXCEPT ![r].headSent = TRUE]
          /\ agent' = [agent EXCEPT ![r] = "streaming"]
          /\ got' = [got EXCEPT ![r] = Append(@, Incoming(r).part)]
          /\ Consume(r)
          /\ UNCHANGED <<pool, dialed, used>>
  /\ UNCHANGED <<views, up, cut, remote, admin>>

LocalBody(r) ==
  /\ Arrived(r, "ResponseBody")
  /\ IF agent[r] = "gone"
     THEN AttemptFails(r)
     ELSE /\ got' = [got EXCEPT ![r] = Append(@, Incoming(r).part)]
          /\ Consume(r)
          /\ UNCHANGED <<turn, agent, pool, dialed, used>>
  /\ UNCHANGED <<views, up, cut, remote, admin>>

\* The turn is complete: put_conn keeps the connection if it is not worn out
\* and the pool has room.
LocalEnd(r) ==
  /\ Arrived(r, "ResponseEnd") /\ PoolFree
  /\ LET c == turn[r].conn
     IN /\ turn' = [turn EXCEPT ![r].pc = "over", ![r].conn = None]
        /\ agent' = [agent EXCEPT ![r] = AgentAtEnd(r)]
        /\ IF used[c] <= MaxReuse /\ Len(pool) < MaxConns
           THEN /\ pool' = Append(pool, c)
                /\ Consume(r)
                /\ UNCHANGED <<dialed, used>>
           ELSE /\ DropConns({c})
                /\ down' = [down EXCEPT ![c] = <<>>]
                /\ UNCHANGED pool
  /\ UNCHANGED <<got, views, up, cut, remote, admin>>

-----------------------------------------------------------------------------
(* The remote end: reading a request. *)

Received(c, tag) == up[c] # <<>> /\ Head(up[c]).tag = tag
Listening(c)     == task[c].pc = "read"
Frame(c)         == Head(up[c])
Pop(c)           == up' = [up EXCEPT ![c] = Tail(@)]

\* remote_end returns and its socket closes.  Its last words `frames` may be
\* lost when it leaves frames unread (the close becomes a reset).
Close(c, frames, unread) ==
  LET all == IF Heard(c) THEN down[c] \o frames ELSE down[c]
  IN /\ task' = [task EXCEPT ![c] = Ended]
     /\ up' = [up EXCEPT ![c] = <<>>]
     /\ \E left \in (IF unread THEN {<<>>, all} ELSE {all}) :
          down' = [down EXCEPT ![c] = left]

\* remote_end writes `frames` having read up to `rest` of the uplink.  With
\* nobody at the other end the write is lost, or fails and ends the task.
Write(c, frames, next, rest) ==
  \/ /\ task' = [task EXCEPT ![c] = next]
     /\ up' = [up EXCEPT ![c] = rest]
     /\ down' = IF Heard(c) THEN [down EXCEPT ![c] = @ \o frames] ELSE down
  \/ ~Heard(c) /\ Close(c, <<>>, FALSE)

\* Mutant: a wrong proof is answered but the connection stays, and counts as
\* greeted.
RemoteHelloKeepsStranger(c) ==
  /\ Listening(c) /\ Received(c, "Hello")
  /\ Write(c, <<HelloAck(paired, rstore = {})>>,
           [task[c] EXCEPT !.greeted = TRUE], Tail(up[c]))
  /\ UNCHANGED <<local, views, cut, rstore, calls, admin>>

\* The handshake.  A wrong proof is answered and the connection closed, with
\* the request behind the greeting unread.
RemoteHello(c) ==
  /\ Listening(c) /\ Received(c, "Hello")
  /\ LET ack == HelloAck(paired, rstore = {})
     IN IF paired
        THEN Write(c, <<ack>>, [task[c] EXCEPT !.greeted = TRUE], Tail(up[c]))
        ELSE Close(c, <<ack>>, Tail(up[c]) # <<>>)
  /\ UNCHANGED <<local, views, cut, rstore, calls, admin>>

RemoteHead(c) ==
  /\ Listening(c) /\ Received(c, "RequestHead")
  /\ IF task[c].greeted
     THEN /\ task' = [task EXCEPT ![c].head =
                                  [req |-> Frame(c).req, split |-> Frame(c).split]]
          /\ Pop(c) /\ UNCHANGED down
     ELSE Close(c, <<>>, TRUE)
  /\ UNCHANGED <<local, views, cut, rstore, calls, admin>>

RemoteProgram(c) ==
  /\ Listening(c) /\ Received(c, "Program")
  /\ task' = [task EXCEPT ![c].instrs = Frame(c).req]
  /\ Pop(c)
  /\ UNCHANGED <<local, views, down, cut, rstore, calls, admin>>

RemoteBody(c) ==
  /\ Listening(c) /\ Received(c, "RequestBody")
  /\ task' = [task EXCEPT ![c].literal = Append(@, Frame(c).req)]
  /\ Pop(c)
  /\ UNCHANGED <<local, views, down, cut, rstore, calls, admin>>

\* A pushed block, with the request or as the answer to a Need.
RemoteBlock(c) ==
  /\ task[c].pc \in {"read", "repair"} /\ Received(c, "Block")
  /\ rstore' = rstore \cup {Frame(c).block}
  /\ Pop(c)
  /\ UNCHANGED <<local, views, down, cut, task, calls, admin>>

\* The console of the local end asked for both stores to be emptied.
RemoteReset(c) ==
  /\ Listening(c) /\ Received(c, "Reset")
  /\ rstore' = {}
  /\ Pop(c)
  /\ UNCHANGED <<local, views, down, cut, task, calls, admin>>

\* The rebuild.  missing_blocks names every referenced block that is absent but
\* does not walk into a block that is there; only when none is absent does
\* resolve run into an absent child, one at a time.
Refs(c) == IF task[c].head.split /\ task[c].instrs # None
           THEN Prog[task[c].instrs] ELSE {}
Wanted(c) ==
  LET absent == Refs(c) \ rstore
      inner  == UNION {Kids[b] : b \in Refs(c)} \ rstore
  IN IF absent # {} THEN {absent} ELSE {{d} : d \in inner}

\* What the digest in the head is compared with.
Intact(c) == /\ task[c].head.req # None
             /\ IF task[c].head.split THEN task[c].instrs = task[c].head.req
                ELSE task[c].literal = <<task[c].head.req>>

BodyComplete(c) == task[c].pc \in {"read", "repair"} /\ Received(c, "EndOfBody")

RemoteAsksAgain(c) ==
  /\ BodyComplete(c)
  /\ task[c].repairs < MaxRepairs
  /\ \E ds \in Wanted(c) :
       Write(c, <<Need(ds)>>,
             [task[c] EXCEPT !.pc = "repair", !.repairs = @ + 1], Tail(up[c]))
  /\ UNCHANGED <<local, views, cut, rstore, calls, admin>>

\* Without a head nothing is said; on a body that is not the one the head
\* declares, or after too many rounds, that it should be sent whole.
LastWords(c) == IF task[c].head.req = None THEN <<>> ELSE <<Fail(Wanted(c) # {})>>

\* In either case the connection closes.
RemoteFails(c) ==
  /\ BodyComplete(c)
  /\ IF Wanted(c) # {} THEN task[c].repairs >= MaxRepairs ELSE ~Intact(c)
  /\ Close(c, LastWords(c), FALSE)
  /\ UNCHANGED <<local, views, cut, rstore, calls, admin>>

\* The body is whole and the upstream API gets it.
RemoteForwards(c) ==
  /\ BodyComplete(c)
  /\ Wanted(c) = {} /\ Intact(c)
  /\ LET r == task[c].head.req
     IN /\ calls' = [calls EXCEPT ![r] = @ + 1]
        /\ task' = [task EXCEPT ![c].pc = "upstream", ![c].call = calls[r] + 1,
                      ![c].relayed = 0, ![c].repairs = 0,
                      ![c].literal = IF task[c].head.split THEN @ ELSE <<>>]
  /\ Pop(c)
  /\ UNCHANGED <<local, views, down, cut, rstore, admin>>

\* Mutant: only the loop that waits for re-pushed blocks notices the end of file.
RemoteEofInRepair(c) ==
  /\ task[c].pc = "repair"
  /\ up[c] = <<>>
  /\ ~Heard(c)
  /\ Close(c, <<>>, FALSE)
  /\ UNCHANGED <<local, views, cut, rstore, calls, admin>>

\* The local end has closed, or the network has: the next read ends the task.
RemoteEof(c) ==
  /\ task[c].pc \in {"read", "repair"}
  /\ up[c] = <<>>
  /\ ~Heard(c)
  /\ Close(c, <<>>, FALSE)
  /\ UNCHANGED <<local, views, cut, rstore, calls, admin>>

-----------------------------------------------------------------------------
(* The remote end: relaying the answer.  An upstream that cannot be reached *)
(* is an answer too (serve_conn makes it a 502 with a body).                *)

RemoteResponds(c) ==
  /\ task[c].pc = "upstream"
  /\ Write(c, <<ResponseHead(task[c].head.req, task[c].call)>>,
           [task[c] EXCEPT !.pc = "relay"], up[c])
  /\ UNCHANGED <<local, views, cut, rstore, calls, admin>>

RemoteRelays(c) ==
  /\ task[c].pc = "relay"
  /\ task[c].relayed < NChunks
  /\ Write(c, <<ResponseBody(task[c].head.req, task[c].call, task[c].relayed + 1)>>,
           [task[c] EXCEPT !.relayed = @ + 1], up[c])
  /\ UNCHANGED <<local, views, cut, rstore, calls, admin>>

\* The last chunk is out: a fresh bloom (of the store as it is now, with the
\* collisions of a filter), the end frame, and the next request may come.
RemoteFinishes(c) ==
  /\ task[c].pc = "relay"
  /\ task[c].relayed = NChunks
  /\ \E extra \in SUBSET Collide :
       Write(c, <<Bloom(rstore \cup extra), ResponseEnd>>,
             [task[c] EXCEPT !.pc = "read", !.head = NoHead, !.instrs = None,
                             !.call = 0, !.relayed = 0], up[c])
  /\ UNCHANGED <<local, views, cut, rstore, calls, admin>>

\* The upstream's body breaks off or stalls: remote_end returns on the spot.
UpstreamBreaks(c) ==
  /\ Event("upstream")
  /\ task[c].pc = "relay"
  /\ task[c].relayed < NChunks
  /\ Close(c, <<>>, FALSE)
  /\ UNCHANGED <<local, views, cut, rstore, calls, paired, console>>

-----------------------------------------------------------------------------
(* The environment. *)

AgentHangsUp(r) ==
  /\ Event("hangup")
  /\ agent[r] \in {"waiting", "streaming"}
  /\ agent' = [agent EXCEPT ![r] = "gone"]
  /\ UNCHANGED <<turn, got, pool, dialed, used, views, wire, remote, paired, console>>

\* The network breaks a connection; what is in flight in either direction is lost
\* or still arrives.  (That part of it arrives is a cut at another moment.)
Cut(c) ==
  /\ Event("cut")
  /\ c \in dialed \ cut /\ Alive(c)
  /\ cut' = cut \cup {c}
  /\ \E u \in {<<>>, up[c]} : up' = [up EXCEPT ![c] = u]
  /\ \E d \in {<<>>, down[c]} : down' = [down EXCEPT ![c] = d]
  /\ UNCHANGED <<local, views, remote, paired, console>>

\* The remote process restarts with an empty store; what it had written to its
\* connections arrives or not.
Restart ==
  /\ Event("restart")
  /\ \E c \in Conns : Alive(c)
  /\ task' = [c \in Conns |-> Ended]
  /\ rstore' = {}
  /\ up' = [c \in Conns |-> <<>>]
  /\ \E lost \in SUBSET dialed :
       down' = [c \in Conns |-> IF c \in lost THEN <<>> ELSE down[c]]
  /\ UNCHANGED <<local, views, cut, calls, paired, console>>

\* LRU and TTL, on either side (Store!Prune).
RemoteEvicts(b) ==
  /\ Event("evict")
  /\ b \in rstore
  /\ rstore' = rstore \ {b}
  /\ UNCHANGED <<local, views, wire, task, calls, paired, console>>

LocalEvicts(b) ==
  /\ Event("forget")
  /\ b \in lstore
  /\ lstore' = lstore \ {b}
  /\ UNCHANGED <<local, sent, bloom, wire, remote, paired, console>>

\* reset_cache forgets what was sent, waits for the lock of the filter and
\* forgets that too, then, when drop_store, locks the pool.
ResetViews ==
  /\ Event("reset")
  /\ resetting = "no"
  /\ sent' = {} /\ resetting' = "bloom"
  /\ UNCHANGED <<local, lstore, bloom, wire, remote, paired, todo>>

ResetBloom ==
  /\ resetting = "bloom"
  /\ bloom' = {} /\ resetting' \in {"no", "pool"}
  /\ UNCHANGED <<local, lstore, sent, wire, remote, paired, events, todo>>

ResetLocks ==
  /\ resetting = "pool"
  /\ resetting' = "locked"
  /\ todo' = Len(pool)
  /\ UNCHANGED <<local, views, wire, remote, paired, events>>

\* A Reset frame on the next idle connection, which goes back behind the others
\* (so that they end in the order they were in); one whose write fails is dropped.
ResetConn ==
  /\ todo > 0
  /\ LET c == Head(pool)
     IN \/ /\ pool' = Append(Tail(pool), c)
           /\ up' = IF Hears(c) THEN [up EXCEPT ![c] = Append(@, Reset)] ELSE up
           /\ UNCHANGED <<dialed, used, down>>
        \/ /\ ~Hears(c)
           /\ pool' = Tail(pool)
           /\ DropConns({c})
           /\ down' = [down EXCEPT ![c] = <<>>]
           /\ UNCHANGED up
  /\ todo' = todo - 1
  /\ UNCHANGED <<turn, agent, got, views, cut, remote, paired, events, resetting>>

\* The local store is cleared and the pool unlocked.
ResetStore ==
  /\ resetting = "locked" /\ todo = 0
  /\ lstore' = {}
  /\ resetting' = "no"
  /\ UNCHANGED <<local, sent, bloom, wire, remote, paired, events, todo>>

-----------------------------------------------------------------------------
Local(r) ==
  \/ Prepare(r) \/ TakePooled(r) \/ Dial(r)
  \/ LocalEof(r) \/ LocalHelloAck(r) \/ LocalRejected(r) \/ LocalNeed(r)
  \/ LocalFail(r) \/ LocalBloom(r) \/ LocalHead(r) \/ LocalBody(r) \/ LocalEnd(r)

Remote(c) ==
  \/ RemoteHello(c) \/ RemoteHead(c) \/ RemoteProgram(c) \/ RemoteBody(c)
  \/ RemoteBlock(c) \/ RemoteReset(c) \/ RemoteAsksAgain(c) \/ RemoteFails(c)
  \/ RemoteForwards(c) \/ RemoteEof(c)
  \/ RemoteResponds(c) \/ RemoteRelays(c) \/ RemoteFinishes(c)

Environment ==
  \/ \E r \in Requests : DialFails(r) \/ AgentHangsUp(r)
  \/ \E c \in Conns : Cut(c) \/ UpstreamBreaks(c)
  \/ \E b \in Blocks : RemoteEvicts(b) \/ LocalEvicts(b)
  \/ Restart \/ ResetViews

\* Both ends wait for the next request.
Idle ==
  /\ \A r \in Requests : turn[r].pc = "over"
  /\ resetting = "no"
  /\ UNCHANGED vars

\* What is left of reset_cache once it has begun.
Resetting == ResetBloom \/ ResetLocks \/ ResetConn \/ ResetStore

Next ==
  \/ \E r \in Requests : Local(r)
  \/ Resetting
  \/ \E c \in Conns : Remote(c)
  \/ Environment
  \/ Idle

Spec == Init /\ [][Next]_vars

\* The tasks of both ends are scheduled, and the upstream answers: send and pump
\* turn a silent upstream into an answer or an error after HEAD_TIMEOUT and 900 s.
\* Nothing is assumed of the environment.
Fairness == /\ \A r \in Requests : WF_vars(Local(r))
            /\ \A c \in Conns : WF_vars(Remote(c))
            /\ WF_vars(Resetting)

FairSpec == Spec /\ Fairness

-----------------------------------------------------------------------------
(* Safety. *)

\* A connection open at the local end is idle in the pool or carries one
\* request, never both, never twice, and never neither (take_conn, put_conn and
\* the drops of drive): two turns cannot interleave frames on one connection,
\* and none leaks.
OneOwner ==
  /\ \A i, j \in 1..Len(pool) : pool[i] = pool[j] => i = j
  /\ \A q, r \in Requests :
       turn[q].conn = turn[r].conn /\ turn[q].conn # None => q = r
  /\ \A r \in Requests : turn[r].conn \notin ToSet(pool)
  /\ dialed = ToSet(pool) \cup ({turn[r].conn : r \in Requests} \ {None})

\* What the steps above rely on, besides the types: a turn has a connection just
\* while it awaits an answer, and at most two attempts; a request is known of
\* every call; reset_cache holds the pool while connections are still to be told.
Bookkeeping ==
  /\ \A r \in Requests :
       /\ turn[r].pc = "await" <=> turn[r].conn # None
       /\ turn[r].pc = "new" => turn[r].attempt = 0
       /\ turn[r].pc = "ready" => turn[r].attempt < 2
  /\ \A c \in Conns :
       task[c].pc \in {"upstream", "relay"} => task[c].head.req # None
  /\ todo > 0 => resetting = "locked"
  /\ todo <= Len(pool)

\* A connection goes back to the pool with nothing of the last turn on it: no
\* frame of an answer is still to come, at most Reset frames are going out, and
\* the remote end, if it is still there, has forgotten the request.  So the next
\* turn starts clean whatever the last one did.
PooledIsQuiet ==
  \A c \in ToSet(pool) :
    /\ down[c] = <<>>
    /\ ToSet(up[c]) \subseteq {Reset}
    /\ Alive(c) => task[c] = [NewTask EXCEPT !.greeted = TRUE]

\* When the remote end has a complete upload, what it holds is the body the head
\* declares: nothing of an earlier request on the connection, or of the attempt
\* before, gets into it (head.split is rewritten on the retry, instrs is cleared,
\* the literal is taken).  The digest gate never has to fire between two honest
\* ends.
NothingForeign ==
  \A c \in Conns : BodyComplete(c) => Intact(c)

\* What an agent gets is a prefix, in order, of one answer to its own request:
\* never two heads, a part of another attempt's answer, or of another agent's.
OneAnswer ==
  \A r \in Requests : \A i \in 1..Len(got[r]) :
    /\ got[r][i] = Part(r, got[r][1].call, i - 1)
    /\ got[r][i].call \in 1..calls[r]

\* A local end without the pairing token gets nothing done: no call, no block.
StrangerRefused == ~paired => rstore = {} /\ \A r \in Requests : calls[r] = 0

\* Events that break a connection or an answer under a request.
LinkFaults == {"cut", "restart", "dial", "upstream"}

\* The link does what the gateway promises: at most one upstream call unless a
\* connection breaks or an agent hangs up, and then at most two; and unless a
\* connection or the upstream breaks, evictions on both sides, resets, shadowed
\* turns, bloom collisions and concurrent turns never cost an agent its answer.
Promise == INSTANCE Exchange WITH
  Tries <- IF Env \cap {"cut", "restart", "hangup"} = {} THEN 1 ELSE 2,
  Sound <- Env \cap LinkFaults = {} /\ Pairings = {TRUE}

ImplementsExchange == Promise!Spec

\* An agent that stays gets an end: an answer (or what there is of it) or a 502.
\* So it does when a block asked for is in neither store, which the filter or an
\* eviction may lead to: each Need has its EndOfBody, and the rounds run out
\* (session.rs:303, 541).
EveryTurnEnds ==
  \A r \in Requests :
    agent[r] = "waiting" ~> agent[r] \in {"ended", "refused", "gone"}

\* The remote end does not keep a task for a connection the local end dropped.
EveryTaskEnds ==
  \A c \in Conns : Alive(c) /\ c \notin dialed ~> ~Alive(c) \/ c \in dialed

-----------------------------------------------------------------------------
(* What the documentation says of the link, and the code does not do. *)

\* session.rs:214, of errors after the head has gone to the agent: "errors have
\* to surface instead".  An answer that ends for the agent would be whole.
ErrorsSurface ==
  \A r \in Requests : agent[r] = "ended" => Len(got[r]) = NChunks + 1

\* README:277, a retry "only when the link itself fails": with a link that never
\* fails the upstream API gets every request once.
RetriesOnlyForLink ==
  \A r \in Requests : calls[r] <= 1

=============================================================================
