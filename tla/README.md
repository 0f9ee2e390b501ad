# A verification of Muka-AI-Trim

Muka-AI-Trim puts two gateways between an AI agent and the API it talks to. The **local end**, next
to the agent, cuts each request body into content-addressed blocks and uploads only those the other
side is not believed to hold. The **remote end**, in a place with a fast uplink, puts the body
together again, calls the upstream API, and streams the answer back. The sources are the Rust
workspace under `src/crates`.

This directory holds TLA+ modules of that program, model checked with TLC, and theorems about them
checked with TLAPS. It covers the link between the two ends, with its connection pool and its retry,
the block store, the splitter with the rebuild, the JSON scanner and the wire formats, the way of an
answer back to the agent, and the life of a process: its configuration, its key material, its
listeners and what its console shows. What is left out, and why, is in section 7.

## 1. The system

| Component | State | Operations | Talks to |
|---|---|---|---|
| `App`, `local.rs` | pool of idle connections, one driver task per request | `prepare`, `take_conn`, `drive`, `put_conn`, `reset_cache`, the agent's side in `handle` | agents (HTTP), local end, console |
| local end, `session.rs` `local_end` | locals of one turn: repairs so far, whether a head has gone out | write a request; read HelloAck, Need, Fail, Bloom, head, body, end | the remote end, over one connection |
| remote end, `session.rs` `remote_end` | greeted, head, instrs, literal, repairs | read a request, rebuild, ask for blocks, forward, relay, reset | the local end, the store, the upstream |
| view of the remote store, `presence.rs`, `session.rs` | `Optimistic.sent`, `SharedBloom` | note pushed, clear, swap the bloom, `has` | read by the splitter of every turn, written by every connection |
| block store, `muka-store` | map, recency counter, running total, statistics | `insert` + `prune`, `get`, `touch`, `clear`, `stats` | all tasks of an end |
| splitter, `muka-split` | none between calls | candidates, floors, chunking, `make_block`, `queue` | view, local store |
| program, `program.rs` | none | `missing_blocks`, `resolve`, append and encode | remote end |
| codec, `muka-proto` | none | varints, frames, programs, needs, blooms | both ends |
| upstream client, `upstream.rs` | a pump task and its channel per call | `send`, `pump` | the upstream API, remote end |
| `Peer`, `remote.rs` | accept loop, one task per connection | `accept`, `serve_conn`, shutdown | local ends |
| span scanner, `json.rs` | none | extents, members, elements, `strict_document` | splitter |
| console, `metrics.rs` | counters, ring of turns, shadow mode | `push`, `buckets`, switch, reset | everything |
| TLS, `tls.rs` | four files of key material | `generate`, `serve` | remote end, an operator who copies the CA |
| supervision, `lib.rs`, `main.rs` | listeners, shutdown | `run_local`, `run_remote` | all of it |
| configuration, `config.rs`, `main.rs` | none | a file, flags over it, `validate` | supervision |
| pairing, service files | none | print | |

**What is hard here.** Turns run concurrently and share four things: the pool, the view, the local
store, the remote store. The view is a *guess*: it is written before the blocks it speaks of have
arrived, read by other turns at once, cleared by a greeting or a failure of one of them, and wrong
after an eviction, a restart or a collision of the bloom filter. The protocol repairs wrong guesses
with `Need` rounds, gives up after `MAX_REPAIRS` with `Fail`, and then `drive` sends the body whole,
once. A connection carries many requests, and the remote end keeps `head`, `instrs` and `literal`
across frames, so what one turn leaves behind is there for the next. Any of it can be cut by the
network, by the remote process, by the upstream, by the agent, or by the console clearing the caches
in the middle.

**What makes each part correct.**
* Link: an agent gets a prefix of one answer to its own request; the upstream is not called twice
  unless something broke; what the remote end forwards is what the agent sent; nobody waits for ever.
* Pool: a connection has one owner, none leaks, and what is pooled is clean.
* View: a wrong guess costs bytes or rounds, never an answer.
* Store: it stays within its ceilings up to the work in progress, evicts the least recently used and
  no more than needed, and its books balance.
* Splitter and rebuild: what is forwarded is the body, byte for byte; what is pushed and what the view
  vouches for cover what is referenced; a split never costs much more than the body.
* Scanner: what a full walk accepts is a JSON object, although extents are found by counting brackets, and
  the spans of a level with what is between them are the whole of it, for the splitter cuts there.
* Wire formats: what is read is what was written, at the limits of every width, and reading ends for cause.
* Answer path: the agent gets an end whatever stalls; a cut answer is never recorded as whole; who hangs up is
  noticed by everyone behind it.
* Process: one interrupt ends it; it says it ended well only if it did; a paired laptop stays paired through
  every crash and restart; the console tells of the last turns, all of them.

`PROJECT.json` lists every hazard found in the code, at its line, with the properties that cover it.

## 2. The modules

| Module | What it is |
|---|---|
| `Exchange` | What the gateway promises an agent, without a link in sight |
| `Link` | Both ends, the pool, the driver, the view and the environment; refines `Exchange` |
| `MCLink` | Instances of `Link` for TLC: who the requests and blocks are |
| `LinkProofs` | Theorems about `Link`: types, who owns a connection, what is on the wires, and what follows |
| `LinkExchangeProofs` | The theorem that `Link` implements `Exchange` |
| `Store` | The block store with its critical sections |
| `MCStore` | Instance of `Store` |
| `StoreProofs` | Theorems about `Store` |
| `Program` | Block programs: instructions, blocks, their lengths and costs, `normalize` |
| `Splitter` | Candidates, chunking and the Builder, over `Program` |
| `Trim` | A body from split to rebuild over both stores, turn after turn; composes `Splitter` with the remote end |
| `MCTrim` | Instances of `Trim`: four bodies, three policies |
| `TrimProofs` | Theorems about `Trim`: which blocks are where; what is split, sent and rebuilt |
| `Scanner` | The span scanner and the grammar it is held against, over edited bodies |
| `Codec` | Varints, frames, programs, blocks, needs, blooms and compression, over `Program`'s instructions |
| `ScannerProofs` | Theorems about `Scanner`: extents, numbers, strings, levels |
| `CodecProofs` | Theorems about `Codec`: every format reads back as it was written |
| `MCFormats` | Instance of `Codec` and `Scanner` for TLC, side by side: they share no state |
| `Relay` | One answer: `send`, `pump`, the relay of `remote_end`, the link, `local_end`, the agent's body |
| `RelayProofs` | Theorems about `Relay` |
| `Config` | The configuration: file, flags, `validate`, and what opening the files refuses |
| `Keys` | The key material on disk, system call by system call |
| `Process` | A process from command line to exit, over `Config` and `Keys`: listeners, interrupt, turns, console |
| `MCProcess` | The command lines `Process` is started with |
| `ProcessProofs` | Theorems about `Process` and `Keys` |

### Link

*State.* `turn[r]` is the driver of request `r` (the locals of `drive` and `local_end`): `new` until
`prepare`, `ready` to take a connection, `await`ing the answer, `over`. `agent[r]` and `got[r]` are
what the agent has seen. `pool` is the vector of `App`, whose last element is taken first; `dialed` the
connections open at the local end, `used[c]` `Conn.requests`. `lstore`, `sent`, `bloom` are the local
store, `Optimistic.sent` and the shared bloom. `up[c]` and `down[c]` are the frames in flight, `cut` the
connections the network has broken. `task[c]` holds the locals of `remote_end`, `rstore` the remote
store, `calls[r]` counts upstream calls. `resetting` and `todo` are the progress of `reset_cache`.

*Actions.* One for each frame an end may read, each early return, each step of the environment:

| Action | Code |
|---|---|
| `Prepare` | `App::prepare` with the splitter's choice of what to push (`ToPush`, children first) |
| `TakePooled`, `Dial`, `DialFails` | `take_conn`, then the whole upload of `local_end` (`Begin`, `Upload`) and `note_pushed` |
| `LocalHelloAck` .. `LocalEnd`, `LocalEof` | the arms of `local_end`'s loop; `LocalEnd` ends in `put_conn` |
| `AttemptFails`, `Retryable` | `drive` after an error: drop the connection, retry whole or give up |
| `RemoteHello` .. `RemoteReset` | the arms of `remote_end`'s loop |
| `RemoteAsksAgain`, `RemoteFails`, `RemoteForwards` | `EndOfBody`: the rebuild, with the loop that waits for blocks |
| `RemoteResponds`, `RemoteRelays`, `RemoteFinishes` | relaying, then Bloom and ResponseEnd |
| `Close`, `Write` | the end of a task; a write to a socket whose other end is gone is lost *or* fails |
| `ResetViews`, `ResetBloom`, `ResetLocks`, `ResetConn`, `ResetStore` | `reset_cache`: it clears `Optimistic.sent`, then the bloom, then holds the pool's lock while it writes to one connection after another |
| `Cut`, `Restart`, `UpstreamBreaks`, `AgentHangsUp`, `RemoteEvicts`, `LocalEvicts` | the environment |

*Abstractions.* A body is the request it belongs to; a block is a name, and `Kids` says which blocks
its own program references; the digest in the head is the identity of the body (`Intact`). Chunks of
one body are one frame upward, and `NChunks` frames downward. Writing a whole request is one step: the
remote end reads it frame by frame, and a break in the middle of the upload is a break before it or
after it with the rest lost. Evictions are arbitrary, which is more than the store does. An answer's
frames carry the number of the upstream call they come from, so that two attempts' answers can be told
apart; the code has no such number and no action reads it.

*Not in the model.* Ping, Pong and PeerStats, which no code path sends; more than one profile per hub;
header rewriting; byte counts; a link that is open and silent for ever (there is no read timeout in
`local_end`, see the hazard at `session.rs:281`).

### Store

One action is one critical section. `insert` is two: under the lock it adds the block and sees whether
a ceiling is exceeded; it unlocks, and `prune` reads the clock (`PruneReadsClock`), locks again and
evicts (`Prune`). In between other tasks insert, touch, prune and clear. `Victims` is prune's two passes
(expired blocks, then oldest first until both ceilings hold, counting as the code counts) as a set.
`SizeOf` sums block sizes. The bloom filter's bits are in `Codec`; the hit, miss and reject counters are
left out. Time only goes forward here, which the wall clock need not (section 5).

### Program, Splitter, Trim

`Link` says how frames and failures fall; `Trim` says what they carry. The two abstract each other's
subject: `Trim` has no connections and one turn at a time, `Link` has no bytes.

*Data.* A byte is an element of a set; a digest is the kind and the bytes it was taken of, so that hashing
is injective and `verifies` is the comparison of lengths that is left of it. A document is its bytes and the
nodes the span scanner reports (span, parent, depth, class of key, whether its inside parses); `Scanner` is
the module about `json.rs` itself. Key names are classes: `history` stands for the member keys whose arrays are cut
(`ARRAY_MEMBER_KEYS`), `whole` for `WHOLE_VALUE_KEYS`, `media` for `MEDIA_KEYS`. The gear hash of the chunker
is kept modulo `2^cdc_bits`, the part that is compared.

*State and actions.* `Split` is `split_body` up to its loop; it computes the groups at once, for they are a
function of the body. The Builder is step by step, because each of its questions to the view (`PeerHas`) is a
lock of its own in the code and other turns write the view in between: `Reference` is one call of
`reference` (with `make_block` when there are no children), `Nest` one round of `make_block`'s loop,
`CloseBlock` its end, `Finish` the last literal, `normalize`, the limits and the size. `builder` is the
struct, `open` the locals of `make_block`. `Upload` sends and notes as pushed; `Arrive` is a Block frame;
`Rebuild` is `EndOfBody` with `missing_blocks`; `Resolve` is one round of `resolve`'s loop over its stack;
`Ask` is a `Need` frame or, after `MAX_REPAIRS`, `Fail`; `Resend` and `FailThenWhole` are the local end's
answers; `NextTurn` brings the bloom filter of the remote store with the answer. `RemoteEvicts`,
`LocalEvicts`, `ViewErrs` (another turn notes a block as pushed that has not arrived, or the filter
collides) and `ViewForgets` happen between any two of these.

*Sizes.* There are two. `Wire` is `wire_bytes`, the estimate of the code: running counters and a constant for each
instruction, by which `Finish` judges a split. `UploadSize` is what is written: `ProgramSize` and `BlockSize`
follow `encode_program` and `encode_block`, varint by varint. That they do is checked by TLC against `Codec`'s
encoders (`SizesCounted` in `MCFormats`) and proved (`CodecSizes`). `WireHonest` relates the two.

*Left out.* Statistics that decide nothing; compression and the frames' own headers (both in `Codec`); the
order in which `Need` names blocks.

### Scanner

`text` is a body, `edits` how often a client may still change one character of it. The definitions are the
functions of `json.rs`, as recursive functions of a position: `ScanString`, `ScanNumber`, `ScanLiteral`,
`ScanContainer` (which counts brackets of both kinds and looks at the last only), `ScanValue`, `Items`
(`members_of_object` and `elements_of_array`, with the span's end they must meet), `Decodes` (whether a string
can be decoded), `Valid` and
`StrictDocument`. A character stands for the bytes the code treats alike; `\uXXXX` is three characters, of
which the last is an ordinary code or half of a surrogate pair. `"eof"` is what `at` meets behind the last
character. Against the functions stands a grammar of JSON (`IsJsonObject`), as sets of spans: `Strings` and
`Scalars`, and from the values of one depth those one level deeper (`Holding`). It counts nothing and looks at
all ways to cut a text.

### Codec

`Send` writes one message (`UploadFrame` decides on compression), `Break` cuts the connection after any byte in
flight, `Receive` is `read_frame` with the start of the frame's handler. `reader` says how reading ended:
`"eof"` between frames, `"io"` inside one, `"bad"` when a message was refused. `Then` is Rust's question mark:
each decoder is a chain of it. The widths are constants: a
byte has `2 * Radix` values and a word `Word`, so a small instance has varints of one to `MaxVarint` bytes, a
last byte whose high bits must go (`Shifted`, `% Word`), and full words. zstd is a pair of constant operators,
`Zstd` and `Unzstd`, of which only `ZstdAssumption` is known; `MCFormats` has a run-length code for them. Whether
compression is worth it, and whether what comes out is too large, are what the code decides by. The hash of a
digest is external too. `Encodable`, `BlockOk`, `FilterOk` and `ContentOk` are the types the Rust code has for what
it sends. A stream is the number of a connection (`session.rs:225`), so the 12 bytes `write_frame` has for a header
(`io.rs:14`) hold it with any length of a payload: the buffer is not modelled.

### Relay

Three queues with a limit (`chan` from `pump` to the remote end, `link`, `body` to the agent) and five parties.
`Write` is what makes the module: it waits for room, and on a connection that is no more it fails *or* is
lost unnoticed. No party listens for the end of what it writes to, so hanging up travels backwards by failed
writes only. `PumpTimesOut` and `RemoteMakes502` are the timeouts, possible whenever there is nothing to read;
`LinkBreaks` loses any suffix of the frames in flight. `LocalEnd` is the end of the turn as far as the agent
sees it; the pool and the retry are in `Link`.

### Config, Keys, Process

*Config* is operators: `LocalFlags` and `RemoteFlags` as the commands apply them, `Validate`, and `Opens` for
what still fails before the listeners (a missing CA file, an upstream that does not parse, a key file that is
lost). A key on the command line replaces the key and the key file of the configuration, and the other way round
(`Keyed`); a file is read only when there is no key that is more than blanks (`KeyReadable`). Addresses are model
values, and a profile's name is a number, its place in the order of names.

*Keys.* `disk` maps the four files and the two temporary ones to which file of which generation they hold. A
process in `tls::serve` checks (`Missing`), then for each file makes the temporary one (`CreateTemp`: it holds a
part), fills it (`WriteTemp`), removes the old one and renames, and loads; `KeysStop` is its end at any point. So
a kill can leave a partial temporary file, which the next write replaces. What is written stays written: the
module is about a process that is killed, not about a machine that loses power, for which `write_atomic` has no
fsync. `CopyCa` is the operator who copies `ca.der` once a peer is up.

*Process.* `main` is the phase of the process, `tasks` its listeners (`spawned`, `unbound` if it could not bind,
`bound`, `waiting` for the interrupt, `woken`, `ended`, `failed`), `awaited` the one `run_local` waits for. A
listener can be told to end only once it waits (`notified()`); `Interrupt` is `notify_waiters`, which wakes all
that wait now and nobody later. A connection that was accepted is a task of its own: turns go on beginning on it
after its listener has ended or failed (`Accepted`). Turns are logged under the name of their profile, which two
profiles may share. `Vanish` is exit and crash. `shadow`, `open`, `ring` are the Hub's switch, turns in flight and
`TurnLog.turns`; `Push` is `TurnLog::push`, `Buckets` the tables of the console. `MCProcess` has 26 command
lines on two machines: good, refused and failing ones.

## 3. What is checked

| Run | Question | Bounds |
|---|---|---|
| `link_faults` | Safety and refinement under every fault | 2 requests (one goes whole, one split), 2 connections, pool of 1, 1 repair, 2 events of 7 kinds, right and wrong pairing token |
| `link_reliable` | With no broken connection, do caches, collisions and concurrency cost anybody an answer? | 2 requests sharing a message with a nested payload, 3 connections, pool of 2, 2 repairs, 2 events of evict/forget/reset, plus contention, shadow mode and bloom collisions at every step |
| `link_live` | Does every turn and every task end? | 2 requests (one goes whole, one split), 2 connections, pool of 1, 2 repairs, a message that nests an image which the bloom filter may report by collision; 1 event of 8 kinds: cut, restart, failed dial, broken upstream, hang-up, eviction at the remote end, a block lost by the local store, reset; right pairing token; under fairness |
| `store` | Ceilings, order, extent of eviction, counters | 4 blocks of two sizes, 2 tasks, 6 uses, 3 ticks |
| `trim` | Is the body rebuilt byte for byte, and at what price, whatever is evicted and whatever the view claims? | 4 bodies of 13 to 26 bytes, 2 turns (16 pairs), 3 policies, 2 events of 4 kinds, 2 repairs, nesting to depth 2 |
| `formats` | Is what is read what was sent? Is what is accepted JSON, and cut without loss? | 2 of 13 messages, 2 streams, a break at any byte, varints of 3 bytes and words of 9 bits; 4 documents of 7 to 25 characters, 1 or 2 edits by 23 characters, depth 3 |
| `relay` | Does an answer end, whole or as a failure, and is everything released? | 3 frames of up to 2 chunks, queues of 2, 1 and 1 places, one hang-up, one break |
| `process` | Do configuration, keys, listeners, interrupt and console hold together? | 26 command lines, 2 listeners, 2 generations of keys, a ring of 2 and 3 turns, any number of starts and crashes |
| `link_truncated`, `link_hangup`, `keys_crash`, `interrupt_lost` | Statements of the documentation that the code does not keep; see 5 | small |

Properties of the link:
* `ImplementsExchange`: `Link` refines `Exchange`. A request reaches the upstream at most once unless a
  connection breaks or an agent hangs up, then at most twice; the agent gets a prefix of one answer; and
  unless a connection or the upstream breaks, every agent that stays gets a whole answer, with no 502,
  whatever the caches do (`link_reliable`).
* `OneOwner`: a connection is in the pool once or carries one turn, never both, never neither.
* `PooledIsQuiet`: what goes back to the pool has no frame of an answer left, and the remote task has
  forgotten the request.
* `NothingForeign`: at `EndOfBody`, with nothing missing, what the remote end has is the body the head
  declares, so leftovers of an earlier request or attempt never get in.
* `OneAnswer`: what an agent gets are consecutive parts of the answer to one call for its own request.
* `StrangerRefused`: without the pairing token nothing is stored and nothing is called.
* `EveryTurnEnds`: whatever breaks, and whatever either store has lost, every turn ends for its agent. A block
  that was referenced for a collision is in neither store, so its repair is futile: the rounds end by `MAX_REPAIRS`
  and the body goes whole. A block the local store has lost is not sent, and the `EndOfBody` comes all the same.
* `EveryTaskEnds`: a remote task ends when its connection has been dropped, whatever it was doing.

Properties of the store: `TotalIsSum` (running total against the sum), `CountBounded` and `BytesBounded`
(the ceilings are exceeded by at most one block for each task that has still to prune), `Recency`,
`Conserved` (every block ever stored is held or counted as evicted, once), `EvictsOldest` (what leaves is
older than what stays, also when blocks were used after the decision to prune), and `EvictsToFit` (what goes
without having expired exceeds a ceiling together with all that is more recent, and with the expired blocks: these
count along, because `prune` does not take them off before it looks at the ceilings, `lib.rs:224`).

Properties of the splitter and the rebuild:
* `Exact`: the bytes resolved so far are a prefix of the body at every step, what is forwarded is the body,
  and the digest check never fails, whichever turns the blocks come from.
* `Covered`: each reference, in the program and in each pushed block, is to a block the view vouched for in
  this split or to one pushed before it.
* `Tiles`: the instructions stand for exactly the bytes passed so far, each literal or covered, and no
  candidate still to come begins before them, so none is dropped for an overlap.
* `WireHonest`: what a split sends, once encoded, exceeds the body by no more than the slack and what the estimate
  leaves out: the count of the program, the head of each pushed block (digest, kind, length), and a byte for each
  `LenUnit` bytes of a length. `inflates` looks at counters that were kept while blocks were found, nested, met
  again and merged; the property is about what leaves.
* `Superset`: what is pushed can be pushed again in a repair, unless evicted in this turn.
* `AskedOnce` (of steps): in one turn a block is asked for again only if it was evicted or the local end has
  not got it.
* `QuietWithoutFaults`: with no eviction and no disturbance of the view, no turn needs a repair, but for a
  block that is too large for a store.

Properties of the formats:
* `Faithful`: what is read is what was sent, in order: programs, blocks, needs, blooms, numbers up to a full
  word, compressed or not, wherever the connection broke.
* `EndsForCause`: a message is refused only for one of the reader's limits, and the end is taken for a clean
  one only when whole frames were lost.
* `FilterCovers`: a filter that has arrived knows every block the other end held.
* `StrictIsJson`: the full walk accepts exactly the JSON objects within the limit of depth.
* `SpansTile`: wherever a container begins in a body, if it can be walked its spans come one behind the other,
  with blanks and one colon or comma between them, from its bracket to the one that counting found: all that
  there is, also in a body that is no JSON elsewhere.

Properties of the answer's way: `DoneIsWhole` (a turn that ends well has handed over the whole answer, in order,
or the one chunk of a 502), `EveryAnswerEnds` (an agent that stays gets an end, whatever the upstream leaves
undone and however full the queues), `Released` (when the agent has gone, the pump and the remote task end,
although they notice only by writing). Deadlock is checked.

Properties of the process: `OneSignal` (an interrupt that finds every listener waiting ends the process,
whichever of them fail; without the premise it is `StopsWhenTold`, which fails, see 5), `ExitHonest` (success
means that each listener was told to end and did, and no two share an address), `PairingLasts` (after the CA
has been copied, no start, stop or crash changes it, serves another, or fails), `ConsoleAddsUp` (the ring
holds the last turns of this run, as many as fit, which is its part `ConsoleTellsLast`, and every turn in it
is in one row of each table, with bytes that add up and the largest saving first).

**Why the bounds are enough.** Two turns are what the races of the pool and of the view need; a second
request on a connection needs a pool of one and reuse above zero; a retry meets a second connection
while the first is dying, so there are two (three where two turns run at once and none breaks). Two
events cover a fault during a retry, which is the last attempt. One message with one nested payload
covers both rounds of repair (`Wanted` names absent blocks first and absent children one at a time). For
the store, four blocks against a ceiling of two blocks or three bytes make both ceilings bind, and two
tasks make both see the overflow of one. Connections are interchangeable, hence the symmetry set of the
safety runs; the liveness run has none. In the liveness run one fault is enough for each reason a turn could
hang: a connection that dies in each phase, an attempt that is retried while the first is still served, a repair
that can never be complete, a block that is not there to be sent. It reaches 121 076 states.

For `trim`, the bodies are chosen so that each path of the splitter is taken: a message twice in one history
and an image in several (one push, by two parents), a turn that keeps a message of the last and moves its
image to the top level, a string that is candidate and payload, a member that does not parse and one nested
too deep, more payloads than `MaxPayloads`, chunks with a tail, and a history of crumbs whose split is larger
than the body. The policies differ in what binds: all is split; the number of instructions and the size of
the body are limited; every crumb is cut, without the chunker, and messages are too large for the store. Two
turns are what reuse needs, two events an eviction under a wrong view. It reaches 299 264 states. Two branches
are never taken, and by design: a child that `make_block` skips (the walk never yields overlapping or
small children), and `Refuse`, which is the end `Exact` excludes.

For `formats`, the messages have a varint of each length, an empty literal, a digest that contains the mark of
a program, a program at its limit of instructions and one over it, payloads just below and over the limit of a
frame, and filters of which one is over its limit; the documents have escapes, surrogates, every part of a
number, blanks everywhere and the limit of depth, and one edit reaches each wrong bracket, a second one its
repair. It reaches 281 071 states. In `relay` three frames of two chunks are more than the queues hold
together, so every party can be held up by the next (120 896 states). In `process` two listeners are what the
order of waiting needs, two generations of keys what making them again needs (83 120 states).

Every property of a passing run is also run against a mutant, a plausible bug in the code it is about,
named in `PROJECT.json`, which TLC must find. The mutants stand before the definition they change.

**Fairness.** `Fairness` of `Link` is weak fairness of each turn's driver, of each remote task and of
`reset_cache`: tokio schedules tasks that can go on. That the upstream answers or fails is part of it, because
`send` turns a silent upstream into an error after `HEAD_TIMEOUT` and `pump` after 900 s. Nothing is assumed
of the environment. `Relay` has the timeouts as actions instead: its fairness is that of `pump`, the remote
task, the local task and an agent that stays and reads; the upstream owes nothing. `MaxFrames` bounds the
upstream's answer: one that goes on for ever, a frame within each timeout, is left out, and the code lets it.
`Process` assumes that loading keys, the listeners and the loop over them go on; nobody has to interrupt.

## 4. What is proved

The theorems hold for all values of the constants that satisfy the assumptions named in the modules
(finite sets of blocks, programs of depth one, `None` distinct, numeric bounds): any number of requests,
connections and tasks, any programs, any bounds, any choice of faults.

`LinkProofs`:
* `LinkTypeCorrect`: `Spec => [](TypeOK /\ Bookkeeping)`. The types alone are not inductive: a relayed
  frame names the request of the task's head, which the type allows to be `None`; a frame is read from
  `turn[r].conn`, which may be `None` by type; the attempt counter would leave `0..2`; and the rotation of
  the pool would take the head of an empty sequence. `Bookkeeping` says what the code relies on at these
  points: a turn has a connection just while it awaits, starts at most two attempts, a task that forwards
  has a head, and `reset_cache` never has more to tell than the pool holds. The proof has a lemma for each
  group of steps (`RemoteReads`, `RemoteRebuilds`, `RemoteAnswers`, `LocalTakes`, `LocalReads`,
  `EnvironmentTypes`, `ResettingTypes`), on lemmas about frames and sequences.
* `EveryConnHasOneOwner`: `Spec => []OneOwner`. It is inductive relative to the theorem above. The pool is
  seen as a sequence without repetition; `ToSetAppend`, `TakeLast` and `TakeHead` say what putting back,
  taking and rotating do to its set, `Carried` what a change of one turn's connection does to the set of
  connections in use, and there is one lemma for each way a connection changes hands.

The second half of `LinkProofs` is about the order of frames in flight. `WiresCarryOneTurn` is `Spec =>
[]LinkInv`, where `LinkInv` is inductive relative to the two theorems above. Its parts:
* `WireInv` says of each connection what the remote task and the two queues have to do with each other. The
  uplink is a chain (`UpChain`: each frame is one that the sender writes after the one before), and its first
  frame is one that the task, in the state it is in, waits for (`UpFirst`). While the task has `Need` on its way,
  nothing comes up; once it has written `Fail` it has ended; `ResponseEnd` is written by a task that has forgotten
  the request. On a pooled connection nothing comes down and at most Resets go up.
* `CarryInv` says of the turn that has the connection that all frames on it are of its request, and that the
  downlink continues what its agent has got (`DownFirst`), frame after frame (`DownChain`), and is continued by
  what the task writes next (`Joins`). `Joins` is only claimed while what the remote end writes arrives: a write
  to a connection that is no more is lost *or* fails, and then the task runs on.
* `GotInv`, `UsedInv`, `CallInv` and `GreetInv` are what these need of the agent's prefix, of `Conn.requests` (a
  connection is greeted once, by its first upload), of the numbers of calls, and of the greeting;
  `StrangerRefused` is inductive with them.

From it follow four properties that the runs check on small instances: `PooledConnsAreQuiet`
(`PooledIsQuiet`), `CompleteUploadsAreIntact` (`NothingForeign`), `AgentsGetOneAnswer` (`OneAnswer`) and
`StrangersAreRefused` (`StrangerRefused`). The proof has a lemma for each step of each end (`HelloKeeps` to
`FinishesKeeps` for the remote end, `TakingKeeps` to `GivingUpKeeps` for the local one), and lemmas about
chains of frames: what of a chain is left, joined, or lost is a chain.

`LinkExchangeProofs` proves `LinkImplementsExchange`, `Spec => ImplementsExchange`: for every instance and every
choice of faults `Link` implements `Exchange`. The bound `Tries` and the flag `Sound` depend on `Env`, so the theorem
is about all environments at once. Beyond `LinkInv` it needs `ExchangeInv` (`CallsAreAccounted`):
* `CountInv`: the calls made for a request and the connections that still owe one (`Owes`: a task that reads its
  upload, or waits for blocks that can still come) are together within the budget of its attempts. An attempt
  that was given up may reach the upstream after the next one, so both count.
* `SteadyInv`: with no cut, no restart and no agent gone only the turn's own connection owes a call, and none was
  made when `Fail` is on its way. This is why the retry then does not call twice.
* `CalmInv`: with no cut and no restart no connection breaks by itself: pooled ones are alive, and a task that
  has ended under a turn has refused, given up, or lost the upstream.
* `AgentInv` ties the turn to what its agent has seen, and says that only the first attempt is not whole;
  `AckInv` that every HelloAck tells the truth about the pairing.

The simulation has a lemma for each group of steps. `Prepare` is `Ask`, `RemoteForwards` is `Call`
(`ForwardingIsCall`, by `CountInv`), `LocalHead` and `LocalBody` are `Begin` and `Continue`
(`HandingIsAnswer`, by `CarryInv`), `LocalEnd` and an answer that breaks off are `Finish` (`EndingIsFinish`),
a failure before the head is `Refuse`, `AgentHangsUp` is `HangUp`, all else stutters (`Unnoticed`). The step
with an argument is a failure where nothing breaks: `SoundGivesUp` says that it can only be one that `drive`
answers by sending the body whole, so that no agent is refused and no answer is cut; with `Need` and `Fail`
never sent for a whole body, the second attempt then succeeds.

These invariants were held against the `link_*` configurations with TLC before they were proved.

`StoreProofs`: the inductive invariant `IInv` is the conjunction of `TypeOK`, `CountBounded`, `Recency` and
`Conserved`. The step that needs an argument is `Prune`: `PruneSuffices` shows that its survivors fit the
count ceiling, because the oldest survivor (`OldestExists`, by well-founded induction on a finite set) is no
victim, so it and everything younger fit. From `IInv` follow `TypeCorrect`, `CountNeverExceeded`,
`RecencyTotal` and `EveryBlockCounted`. The bytes are a fold of the community modules over a set. Its equations are
proved by looking at a least set that would violate them (`LeastSubset`), which needs no induction rule with a
predicate for a parameter: the function the fold chooses exists (`AddsExists`) and there is only one
(`AddsOnce`), so it has its equations (`SizeEquations`), does not depend on the order (`SizeWithout`), and adds
up (`SizeSplits`). With them `BytesInv` gives `TotalIsTheSum` and `BytesNeverExceeded`. `Times` says that times of use
are in the order of use, and with `VictimsAreOldest` gives the action properties `OldestGoFirst`
(`EvictsOldest`) and `NoMoreThanNeeded` (`EvictsToFit`). It rests on a clock that only goes forward (section 5).
So all properties of `store` are proved.

`TrimProofs` has one inductive invariant, `IInv`, for three theorems, over any bodies, policies, turns and
events:
* `NeverAskedInVain`: `Spec => AskedOnce`. The invariant says where a block that was asked for can be
  (`Answerable`): in the remote store, on its way, evicted, not held locally, or in the `Need` that has not
  been answered. That is kept because all of what is asked for and held is sent (`OrderOf`), a store takes
  what another store held (`Storable` is part of `StoreSound`), and the local store does not grow while a
  repair goes on (`Staged`: nothing has been asked for while a split is at work).
* `EveryPushRepeatable`: `Spec => []Superset`, by `QueueSound` for `queue` and its write-through, and a lemma
  `SplitSteps` for each way the Builder queues.
* `StoresWellFormed`: `Spec => []TypeOK`. The types of the stores need the lengths of the blocks in flight and
  in the queue (`WellMade`), which both constructors of blocks give them.

Its second part is about what programs stand for, over any bodies, policies, gear table, turns, repairs and events.
`Normalize`, `Cands`, `Payloads`, `StructuralGroups`, `Chunks`, `TotalLen` and the costs are folds of the community
modules, over sequences of any length. A fold is the function `CHOOSE`n to satisfy its equation. That there is one
(`FoldsExists`), and only one (`FoldsOnce`), is shown by looking at a least set that it fails for; it then
has a path from its base through every position (`FoldPath`), along which an invariant goes (`UpTo`). Each
operator gets its path this way, and its lemmas from it. `BodyAssumption` says what a body is (nodes are spans of
it, in document order: after a node come those inside it, of which a string has none, then those behind it) and that
resolve goes at least two deep, which is as deep as a split nests; `PolicyAssumption` that limits are unsigned.
* `BodiesAreExact`: `Spec => []Exact`. `EInv` says that every block, wherever it is, holds what its digest was taken
  of (`BlocksOk`, by `Stands`: a program stands for a piece of a body if it can be cut into pieces that its
  instructions stand for, one after the other); that the Builder's instructions stand for the body up to `pos`, and
  those of an open block for the candidate up to its own `pos` (`Building`, `Opened`); and that `out` is a
  beginning of the body, of which what is on the stack is the rest (`Rebuilding`, by `Awaits`). A reference is
  replaced by its block's program in `Resolve`, which stands for the same piece; this is also why the bound on depth
  and the check of the total are never what refuses a program.
* `ReferencesAreCovered`: `Spec => []Covered`. `CInv` adds the blocks open and the order of the queue; `NormalizeRefs`
  says that `normalize` neither drops nor invents a reference.
* `NoCandidateIsLost`: `Spec => []Tiles`. A candidate is a function of its node (`CandsFrom`, `PayloadsFrom`),
  and from the order of nodes no two of them overlap (`SourcesApart`, `CandidatesApart`): elements of a
  history and whole values do not nest, and a payload inside one is a child of it, not a group. So the groups
  of a body are in order and apart (`StructuralSorted`), as are chunks (`ChunksSorted`), and what is left of
  them begins where the Builder is or later (`Ahead`). The overlap that `reference` looks for never happens.
* `SizesAreHonest`: `Spec => []WireHonest`, about what is encoded. `Books` is that the running sums of the Builder
  are the sums over what it has made; `NormalizeLits` that `normalize` keeps the literal bytes. So the guard of
  `Finish` bounds the cost of the program and of the pushed blocks, and each encoded instruction and block is at
  most its cost, its head, and what a long length takes beyond `LenWire` bytes, which is less than the length
  divided by `LenUnit`. What the lengths of the program add up to is the body (`EInv`). `WireAssumption` says what
  a varint is: at least two digits, at least one byte.
* `RepairsAreForFaults`: `Spec => []QuietWithoutFaults`. `QInv` says of a system in which no event has taken
  place what optimism rests on (`Calm`): what the view vouches for is in the remote store, on its way, or
  queued by the split at work (`View`), unless no store takes it; each block comes after what it references
  (`InTurn`), and each stored one has what it references (`Stocked`); and so has what is on the stack
  (`OnStack`).

`EInv` and `QInv` were held against the configuration of `trim` with TLC before they were proved.

`ProcessProofs` has five theorems about any set of machines and command lines, any number of starts, and crashes
at any step. The assumptions are `CommandAssumption`, that whatever is asked for has one of two roles and its
profiles are a sequence with names, `ProcessAssumption`, that the configured capacity is a natural number, zero
too, and `CostAssumption`, that amounts are natural numbers, and so is a path. Paths and names are their places in
the order of names, which is all that the tables ask of them.
* `PairingForever`: `Spec => []PairingLasts`. The inductive invariant `KInv` says why four files without a
  transaction are enough for this: the leaf's certificate is written after the CA and never taken away while
  it is there (`LeafLast`), so keys are not made anew from then on; what has been written of the generation
  under way is known file by file, the temporary one in the making included (`Progress`); a peer that is up
  has loaded what is on disk (`UpLoaded`); and once somebody has copied the CA, nobody writes (`Paired`). It
  needs `Alone`: no other process is in the directory. With two it fails, see 5. That a crash *before* the
  pairing can leave what no start loads is `keys_crash`.
* `SuccessIsHonest`: `Spec => []ExitHonest`. `XInv` says that all listeners before the awaited one have ended,
  that an ended one stays so, and that a configuration that runs lists distinct addresses (`ValidIsListable`).
* `ConsoleNeverForgets`: `Spec => []ConsoleTellsLast`. A push drops what is over the capacity of a ring that
  already holds the last turns, and what is left are the last turns of the longer history (`PushKeepsNewest`):
  below the capacity, at it, and for a capacity of zero, which counts as one.
* `ConsoleBooksBalance`: `Spec => []ConsoleAddsUp`. A ring of the last turns is a finite sequence of turns
  (`ConsoleNeverForgets`), and of any such sequence the tables are right. `TableAddsUp` counts twice: one turn
  more adds its amount to one row, since its key is that of a row, and to no other, since no two rows share one.
  That there is such a table at all takes an order: of finitely many rows one comes first (`FirstExists`, as
  `StrictSubsetOrdering` is well founded), so they can be written one after the other (`SortedExists`), and
  `Before` is total on rows because different rows have different keys (`TableSorted`).
* `ProcessTypeCorrect`: `Spec => []TypeOK`. It needs all three invariants: the awaited listener is one of the
  tasks (`XInv`, `PInv`), the ring is the end of the history, and the turns in flight are finitely many, each of
  which is logged at most once (`CInv`).

`RelayProofs` has two theorems about queues of any capacity (`CapAssumption`: at least one) and answers of any
number of frames and chunks:
* `QueuesBounded`: `Spec => []TypeOK`, by the types of all queues (`Types`).
* `WholeOrFailed`: `Spec => []DoneIsWhole`. The invariant `InOrder` says where every chunk is, and that where it
  is tells its number: with the agent, in `body`, in the hand of `local_end`, on the link, in the hand of
  `remote_end`, in `chan`, with `pump`, or in a frame of the upstream, whose frames join on to each other
  (`Joined`). It has two parts, because a connection that closes cuts the way in two. What has come to the link
  stays in order whatever happens (`Near`); what has not joins on to it only while the connection is open
  (`Far`), and when it is not, nothing is written to the link. The end is written when `Far` is empty and the
  upstream has ended, or the answer is the 502 (`off` is 1: its only chunk is number 0); from then on nothing is
  added (`Whole`). `Near` and `Far` are kept step by step: `HeadInOrder` to `BreakInOrder` for the local end, the
  agent and the network, `FarApi`, `FarPump`, `FarTakes` for what is before the link, `LinkGrows` for the writes.

`CodecProofs` has four theorems about any widths of bytes, words, varints and digests, any limits of the
reader, any sizes of filters, any sequence of messages, any number of them sent, and a connection that may
break at any byte. The assumptions are what the Rust types say. `WidthAssumption`: a varint of `MaxVarint`
bytes and `WordBytes` bytes hold a word (10 and 8 bytes hold 64 bits), the bits of a word are a power of two
of them (64), and the smallest filter has at least one word. `MessageAssumption`: a message is of its
handler's type and its length fits in a word. `ZstdAssumption`: where compression is worth it, decompression
gives back what was compressed.
* The proof goes up from the digits of a number. `Sum` and `Power` are recursive functions, and so are
  `FlattenSeq` and the loop over instructions; each gets its equations by existence and uniqueness, as the folds do,
  and what holds along its path by looking at a least position where it would fail. `Digits` of a number below a
  power add up to it; so a varint reads back, also where the last byte is shifted out of the word (`UvarintAt`).
* For each format there are two lemmas. One says what is read where it stands in a longer text, whatever comes
  after it: `UvarintAt`, `ProgramAt`, `BytesBlockAt`, `ProgramBlockAt`, `NeedsAt`, `BloomAt`, `FrameAt`,
  `MessageAt`; the other that a proper beginning of it is `Short`, never `Bad` and never something else:
  `UvarintCut`, `FrameCut`. A block is read by its mark, which no kind is equal to (`Radix > 11`: a byte has
  room for 23 tags, so kinds are below the mark).
* A filter's words are read as they were written, and a bit that `BloomOf` sets is 1 in the word that `Has` looks
  at, because bits and words divide one another (`BloomHas`).
* The inductive invariant `CInv` is `CTypes /\ CAgree /\ CEnds`. `CAgree` says that what is in flight are the
  frames of the messages not yet read, one after the other, with the last `lost` bytes missing once the link
  is cut; `CEnds` is what is known when reading has ended. `SendKeeps`, `BreakKeeps` and `ReadKeeps` are its
  steps; in the last, what is in flight is nothing, a proper beginning of a frame, or a frame and a rest, and
  `ReadingIs` says what `read_frame` and the handler make of each.
* `CodecFaithful` (`Faithful`), `CodecEndsForCause` (`EndsForCause`) and `CodecFilterCovers` (`FilterCovers`) follow.
* `CodecSizes`: programs and blocks are encoded to as many bytes as `ProgramSize` and `BlockSize` count
  (`ProgramSizeIs`, `BlockSizeIs`), which are the sizes of `SizesAreHonest`.

`ScannerProofs` has a theorem about any text over any alphabet, any edits of it and any `MaxDepth`. It assumes
`DocumentAssumption`: documents are texts, and `"eof"`, which stands for what follows the last character, is
none (`at` reads past the end of a body as an error, not as a byte).
* `SpansTileAlways`: `ScanSpec => []SpansTile`. Each recursive function of the scanner looks further on only, so it
  has its equations (`Recursion`, by how far it is to the end: `StringEndExists`, `DepthsExist`, `ItemsExist`), and
  what it finds is shown from the end backwards (`DownFrom`). A string, a number, a literal and a container end
  behind their beginning and inside the text (`ScanValueRange`), an item begins behind blanks and ends so too
  (`ItemIs`), and what a walk finds from a position on is a chain of items up to the closing bracket
  (`ItemsChain`). An empty level is left at the first bracket that is not a blank, wherever the walked span says
  that it ends; that this is the same place is what counting does over blanks (`BlankPasses`, `EmptyLevel`).

**Model checked only.** That the full walk accepts exactly JSON (`StrictIsJson`): the grammar is a recursive
definition of its own, and that its derivations and the walk agree on every text takes an induction over both,
which has not been done. That a body's nodes come in document order is an assumption of `TrimProofs`;
`SpansTileAlways` is the part of it that one level shows.
Liveness, which needs fairness and `ENABLED`.

## 5. Where the code and its documentation disagree

Each is the counterexample of a run, and an entry of `PROJECT.json` with the lines quoted.
1. `link_truncated`: an answer that breaks off after its head ends for the agent as if it were whole: an
   error after the head is never sent to the agent, `body_tx` is only dropped.
2. `link_hangup`: an agent that hangs up before the head makes the driver retry over a healthy link, and the
   upstream is called twice.
3. `keys_crash`: a crash between the leaf's certificate and its key leaves a directory that no later start can
   load; it has to be emptied by hand.
4. `interrupt_lost`: an interrupt that comes while a listener is being bound is not heard by it
   (`local.rs:537`, `:550`), so `run_local` goes on until the next one; `lib.rs:31` says that it runs until
   `shutdown` fires.

Seen while modelling, without a run of their own.

The link and the caches:
* A request that goes whole is not retried (`local.rs:455`), so a stale pooled connection costs a 502;
  `local.rs:295` says "a stale one costs a reconnect".
* Two concurrent first turns that share a nested block need two rounds of repair (`program.rs:192`), with
  nothing broken; `README.md:326` says one. Likewise `rebuild` reports one missing child at a time
  (`session.rs:636`), so a parent that is there with more than `MAX_REPAIRS` children evicted costs the rounds
  and then a body sent whole.
* Clearing both caches while no connection is idle does not reach the peer (`local.rs:242`).
* Below its ceilings a store never drops an expired block (`muka-store/src/lib.rs:204`); `README.md:235` says
  that blocks are dropped after 14 days.
* A prune that finds expired blocks takes them, but counts their bytes and their number along when it looks at the
  ceilings (`muka-store/src/lib.rs:224`), so fresh blocks go that would have fitted. `EvictsToFit` bounds it.
* A block over `max_block_bytes` (200 MiB, bodies may have 512 MiB) is refused by both stores. Every turn that
  carries it is split, pushed, asked for `MAX_REPAIRS` times in vain, and then sent whole. `program.rs:101`
  says that a refusal "only costs a future cache hit". `QuietWithoutFaults` excepts these blocks, and the third
  policy of `trim` has them.
* The store's times of use come from the wall clock. Set back, a block used later has an earlier time, expires
  first, and `EvictsOldest` does not hold; `Tick` goes forward only.
* There is no read timeout at the local end (`session.rs:281`).

Formats:
* `write_frame` does not hold the payload against the limit the reader applies (`io.rs:10`); `EndsForCause` is
  about messages the reader's limits allow.
* A filter of more than 2^26 bits is built and sent, and refused by `from_bytes`.
* The estimate that a split is judged by (`wire_bytes`) is less than what is encoded: the head of each pushed block
  and the count of the program are in no counter, and a length of 2^21 or more takes four bytes where three are
  charged. `policy.rs:110` calls it "Bytes the local side puts on the wire before compression", the test at
  `codec.rs:323-324` says that the cost "must never understate the real encoding", and `README.md:106` that a split
  is never larger than the body. `WireHonest` is how far that holds.
* Extents count brackets without matching them, laxer than the header of `json.rs` (9-11) reads; only a walk
  of each level, which the splitter does, refuses wrong ones (`StrictIsJson`, `SpansTile`).

Process and console:
* A profile configured as shadowed stays shadowed when the console switches the mode off (`local.rs:399`), and the
  console then says it is off; `local.rs:65` calls the setting "the startup value". The other way round, one
  shadowed profile shadows all (`local.rs:108`).
* `--passthrough` is always refused: it clears `enabled` (`main.rs:223`), which `validate` insists on
  (`config.rs:202`).
* `--profile` with an unknown name is not refused: the name is written into `cfg.local` first (`main.rs:227`),
  and `[local]` is served under it. The other flags change `[local]` only, so they have no effect on profiles.
  `--tls` without `--ca` clears the configured `tls_ca_file`.
* Two processes that make keys in one directory at once interleave their files, and `PairingLasts` fails with
  two `Procs`; the peer's directory is meant for one (`README.md:195`).
* Repairs of one turn are counted twice (`session.rs:311` and `:375`), `Turn.seq` counts requests of a
  connection (`local.rs:273`), and `refs_new` leaves nested references out (`splitter.rs:334`): wrong numbers
  on the console, which no action reads.

## 6. Plan

Done: all modules of section 2. Next, in this order:

| Subject | Content |
|---|---|
| `Scanner` | that the full walk accepts exactly JSON, for every text, by induction on the depth |
| `Link` | two profiles that share one view of a peer and have pools of their own |
| `Store` | a clock that steps back, with `EvictsOldest` stated by use instead of by time |

## 7. Not modelled

* `pair.rs`, `service.rs` and the subcommands that print and exit: they format text and write it once.
* The HTML console and the counters: layout, and relaxed atomics that nothing decides by.
* Header filters and the headers `upstream.rs` builds: maps from one list of strings to another.
* Ping, Pong, PeerStats and Cancel, which no code path sends.
* zstd, rustls and hyper, libraries; digests, taken to be injective; `memory.rs`, a store used by tests only.
