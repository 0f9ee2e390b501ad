-------------------------------- MODULE Store --------------------------------
(***************************************************************************)
(* The block store of either end (muka-store): a map from digests to       *)
(* blocks under one mutex, bounded by bytes and by count, evicting the     *)
(* least recently used blocks, with a time to live.  Several tasks use it. *)
(* An action is one critical section.  insert is two of them: it decides   *)
(* under the lock that a ceiling is exceeded, unlocks, and only then calls *)
(* prune, which reads the clock and locks again.                           *)
(*                                                                         *)
(* A block is its digest; that its bytes match the digest (verifies) is    *)
(* taken as given, as both ends make blocks with the same function.        *)
(***************************************************************************)
EXTENDS Integers, FiniteSets, FiniteSetsExt

CONSTANTS
  Digests,        \* every block
  Size,           \* Size[d]: the length of a block
  Threads,        \* the tasks that use the store
  MaxBytes,       \* Config.max_bytes
  MaxBlocks,      \* Config.max_blocks
  MaxBlockBytes,  \* Config.max_block_bytes
  Ttl,            \* Config.ttl_secs; 0 turns expiry off
  MaxSeq,         \* bound: uses of the store
  MaxTime         \* bound: ticks of the clock

ASSUME SizeAssumption == Size \in [Digests -> Nat]
ASSUME CeilingAssumption ==
  {MaxBytes, MaxBlocks, MaxBlockBytes, Ttl, MaxSeq, MaxTime} \subseteq Nat
ASSUME FiniteAssumption == IsFiniteSet(Digests) /\ IsFiniteSet(Threads)

VARIABLES
  held,    \* the digests in Inner.map
  seq,     \* seq[d]: Entry.seq, the recency of a held block
  at,      \* at[d]: Entry.at, when it was last used
  clock,   \* Inner.seq
  total,   \* Inner.total
  stored,  \* Stats.stored
  evicted, \* Stats.evictions
  pc,      \* pc[t]: what is left of a call to insert
  seen,    \* seen[t]: the time prune read before it locked
  now      \* now_secs

entries == <<held, seq, at>>
stats   == <<stored, evicted>>
vars    == <<entries, clock, total, stats, pc, seen, now>>

Init ==
  /\ held = {} /\ seq = [d \in Digests |-> 0] /\ at = [d \in Digests |-> 0]
  /\ clock = 0 /\ total = 0 /\ stored = 0 /\ evicted = 0
  /\ pc = [t \in Threads |-> "idle"] /\ seen = [t \in Threads |-> 0]
  /\ now = 0

TypeOK ==
  /\ held \subseteq Digests
  /\ seq \in [Digests -> Nat] /\ at \in [Digests -> Nat]
  /\ clock \in Nat /\ stored \in Nat /\ evicted \in Nat
  /\ pc \in [Threads -> {"idle", "over", "prune"}]
  /\ seen \in [Threads -> Nat] /\ now \in Nat

SizeOf(S) == MapThenSumSet(LAMBDA d : Size[d], S)

\* What an entry that leaves the map is: nothing.
Vacate(S) == /\ seq' = [d \in Digests |-> IF d \in S THEN 0 ELSE seq[d]]
             /\ at'  = [d \in Digests |-> IF d \in S THEN 0 ELSE at[d]]

\* Mutants: a use of a held block refreshes its time only; it does not get a
\* recency of its own.
UseRefreshesTime(d) == /\ clock' = clock + 1
                       /\ seq' = IF d \in held THEN seq
                                 ELSE [seq EXCEPT ![d] = clock + 1]
                       /\ at' = [at EXCEPT ![d] = now]
UseShared(d) == /\ clock' = clock + (IF d \in held THEN 0 ELSE 1)
                /\ seq' = [seq EXCEPT ![d] = clock']
                /\ at' = [at EXCEPT ![d] = now]

\* A use of d is the most recent one.
Use(d) == /\ clock' = clock + 1
          /\ seq' = [seq EXCEPT ![d] = clock + 1]
          /\ at' = [at EXCEPT ![d] = now]

-----------------------------------------------------------------------------
\* Mutant: the return value of insert is ignored and a held block counts again.
InsertAgain(t, d) ==
  /\ pc[t] = "idle"
  /\ clock < MaxSeq
  /\ Size[d] <= MaxBlockBytes
  /\ Use(d)
  /\ held' = held \cup {d}
  /\ total' = total + Size[d]
  /\ stored' = stored + 1
  /\ pc' = [pc EXCEPT ![t] =
             IF total' > MaxBytes \/ Cardinality(held') > MaxBlocks
             THEN "over" ELSE "idle"]
  /\ UNCHANGED <<evicted, seen, now>>

\* Mutant: one task prunes for all, so a second one over the ceiling does not.
InsertLeavesPruning(t, d) ==
  /\ pc[t] = "idle"
  /\ clock < MaxSeq
  /\ d \notin held /\ Size[d] <= MaxBlockBytes
  /\ Use(d)
  /\ held' = held \cup {d}
  /\ total' = total + Size[d]
  /\ stored' = stored + 1
  /\ pc' = [pc EXCEPT ![t] =
             IF /\ total' > MaxBytes \/ Cardinality(held') > MaxBlocks
                /\ \A u \in Threads : pc[u] = "idle"
             THEN "over" ELSE "idle"]
  /\ UNCHANGED <<evicted, seen, now>>

\* insert: the first critical section, for a block the map does not have and
\* that is not too large (both are refused with no effect on the map).
Insert(t, d) ==
  /\ pc[t] = "idle"
  /\ clock < MaxSeq
  /\ d \notin held /\ Size[d] <= MaxBlockBytes
  /\ Use(d)
  /\ held' = held \cup {d}
  /\ total' = total + Size[d]
  /\ stored' = stored + 1
  /\ pc' = [pc EXCEPT ![t] =
             IF total' > MaxBytes \/ Cardinality(held') > MaxBlocks
             THEN "over" ELSE "idle"]
  /\ UNCHANGED <<evicted, seen, now>>

\* Mutant: prune computes the time limit itself, and the subtraction underflows.
PruneReadsLimit(t) ==
  /\ pc[t] = "over"
  /\ pc' = [pc EXCEPT ![t] = "prune"]
  /\ seen' = [seen EXCEPT ![t] = now - Ttl]
  /\ UNCHANGED <<entries, clock, total, stats, now>>

\* prune reads the clock before it takes the lock.
PruneReadsClock(t) ==
  /\ pc[t] = "over"
  /\ pc' = [pc EXCEPT ![t] = "prune"]
  /\ seen' = [seen EXCEPT ![t] = now]
  /\ UNCHANGED <<entries, clock, total, stats, now>>

\* Blocks past their time, by the clock prune read (a block used since then has
\* a later time, and the subtraction saturates).
Expired(time) == {d \in held : Ttl > 0 /\ time > at[d] + Ttl}

\* The others that are less recently used than d, which prune takes before d.
Older(d, time) == {e \in held \ Expired(time) : seq[e] < seq[d]}

\* Mutants: prune stops one block too late; it looks at the count only.
OverflowsAtLimit(d, time) ==
  \/ total >= MaxBytes + SizeOf(Older(d, time))
  \/ Cardinality(held) >= MaxBlocks + Cardinality(Older(d, time))
OverflowsCount(d, time) ==
  Cardinality(held) > MaxBlocks + Cardinality(Older(d, time))

\* Both ceilings hold only once d is gone too.  The bytes and the count of the
\* expired blocks are not taken off first.
Overflows(d, time) ==
  \/ total > MaxBytes + SizeOf(Older(d, time))
  \/ Cardinality(held) > MaxBlocks + Cardinality(Older(d, time))

Victims(time) ==
  Expired(time) \cup {d \in held \ Expired(time) : Overflows(d, time)}

\* Mutant: the bytes of the expired blocks stay on the account.
PruneForgetsBytes(t) ==
  /\ pc[t] = "prune"
  /\ LET gone == Victims(seen[t])
     IN /\ held' = held \ gone
        /\ Vacate(gone)
        /\ evicted' = evicted + Cardinality(gone)
        /\ total' = total - SizeOf(gone \ Expired(seen[t]))
  /\ pc' = [pc EXCEPT ![t] = "idle"]
  /\ seen' = [seen EXCEPT ![t] = 0]
  /\ UNCHANGED <<clock, stored, now>>

Prune(t) ==
  /\ pc[t] = "prune"
  /\ LET gone == Victims(seen[t])
     IN /\ held' = held \ gone
        /\ Vacate(gone)
        /\ evicted' = evicted + Cardinality(gone)
  /\ total' = SizeOf(held')
  /\ pc' = [pc EXCEPT ![t] = "idle"]
  /\ seen' = [seen EXCEPT ![t] = 0]
  /\ UNCHANGED <<clock, stored, now>>

\* get and touch: a held block becomes the most recent one.
Touch(t, d) ==
  /\ pc[t] = "idle"
  /\ clock < MaxSeq
  /\ d \in held
  /\ Use(d)
  /\ UNCHANGED <<held, total, stats, pc, seen, now>>

Clear(t) ==
  /\ pc[t] = "idle"
  /\ held # {}
  /\ held' = {}
  /\ Vacate(held)
  /\ total' = 0
  /\ evicted' = evicted + Cardinality(held)
  /\ UNCHANGED <<clock, stored, pc, seen, now>>

Tick == /\ now < MaxTime
        /\ now' = now + 1
        /\ UNCHANGED <<entries, clock, total, stats, pc, seen>>

Next ==
  \/ \E t \in Threads, d \in Digests : Insert(t, d) \/ Touch(t, d)
  \/ \E t \in Threads : PruneReadsClock(t) \/ Prune(t) \/ Clear(t)
  \/ Tick

Spec == Init /\ [][Next]_vars

-----------------------------------------------------------------------------
\* The running total of insert agrees with the sum prune recomputes, whatever
\* insert, prune and clear of other tasks did in between.
TotalIsSum == total \in Nat /\ total = SizeOf(held)

\* Tasks between the two critical sections of insert.
Pruning == {t \in Threads : pc[t] # "idle"}

\* Between insert's unlock and prune's lock other tasks insert too.  The store
\* never exceeds its count ceiling by more than one block for each task that has
\* still to prune, and is within it when no task has.
CountBounded == Cardinality(held) <= MaxBlocks + Cardinality(Pruning)

\* The same of the byte ceiling, with the largest block insert accepts for each.
BytesBounded == total <= MaxBytes + Cardinality(Pruning) * MaxBlockBytes

\* No two held blocks have the same recency, and none is ahead of the counter, so
\* the order prune evicts in is the order of use.
Recency ==
  \A d \in held : /\ seq[d] \in 1..clock
                  /\ \A e \in held : seq[d] = seq[e] => d = e

\* The counters of the console add up: every block ever stored is still held or
\* was evicted, once, though prune and clear of several tasks race for it.
Conserved == stored = Cardinality(held) + evicted

\* A block that leaves while others stay was last used before every block that
\* stays, expired or not, and also when blocks were used or inserted between the
\* decision to prune and the lock.
EvictsOldest ==
  [][\A d \in held \ held', e \in held \cap held' :
       seq[d] < seq[e] /\ at[d] <= at[e]]_vars

\* A prune evicts no block it need not that could have stayed: those at least as recent
\* exceed a ceiling together with it.  Two tasks that both saw the store over its
\* ceiling do not evict twice.  Expired blocks, which go anyway, count along, for prune
\* does not take them off first: that is how much too much it may evict.
EvictsToFit ==
  [][held' # {} =>
       \A d \in held \ (held' \cup Expired(now)) :
         LET kept == {e \in held : seq[e] >= seq[d]} \cup Expired(now)
         IN SizeOf(kept) > MaxBytes \/ Cardinality(kept) > MaxBlocks]_vars

=============================================================================
