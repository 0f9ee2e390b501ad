-------------------------------- MODULE Process --------------------------------
(***************************************************************************)
(* A process of either end, from its command line to its exit: run_local   *)
(* and run_remote (lib.rs) with the key material they load, their          *)
(* listeners and the interrupt that ends them, and what the console shows  *)
(* and switches while they run: the log of turns and the shadow mode.      *)
(*                                                                         *)
(* A turn is what is logged of it when it succeeds; module Link has the    *)
(* turn itself.                                                            *)
(***************************************************************************)
EXTENDS Config, Keys, SequencesExt, FiniteSetsExt

CONSTANTS
  Me,         \* the process
  Machines,   \* the machines it may run on: the commands, each a file and flags, used there
  Costs,      \* what a turn may cost: path, bytes of the body, bytes on the link
  TurnLogCap, \* turn_log_cap, as it is configured
  MaxTurns    \* bound: turns of one run of the process

ASSUME ProcessAssumption == Me \in Procs /\ TurnLogCap \in Nat /\ MaxTurns \in Nat

\* Of a path only its place in the order of names matters.
ASSUME CostAssumption ==
  \A cost \in Costs : {cost.path, cost.body, cost.wire} \subseteq Nat

\* Whatever a process is asked to be, it has a role, and a list of profiles with names.
ASSUME CommandAssumption ==
  \A machine \in Machines : \A command \in machine :
    LET c == Asked(command.file, command.flags)
    IN  /\ c.role \in {"local", "remote"}
        /\ Len(c.profiles) \in Nat /\ DOMAIN c.profiles = 1 .. Len(c.profiles)
        /\ c.role = "local" => \A i \in DOMAIN EffectiveProfiles(c) :
                                 EffectiveProfiles(c)[i].name \in Nat

VARIABLES
  commands, \* those of this machine
  main,     \* "off", "keys", "run", or how it ended: "ok" or "error"
  cfg,      \* the configuration it runs with
  tasks,    \* its listeners, in order
  awaited,  \* the listener whose end run_local waits for
  told,     \* history: has an interrupt come: "never", "early", or to listeners that all wait
  shadow,   \* Hub.shadow
  open,     \* turns in flight
  ring,     \* TurnLog.turns
  past      \* history: the turns logged

hub  == <<shadow, open, ring, past>>
life == <<commands, main, cfg, tasks, awaited, told>>
vars == <<life, hub, keys>>

NoConfig == <<>>
Local    == main = "run" /\ cfg.role = "local"

Init ==
  /\ commands \in Machines
  /\ main = "off" /\ cfg = NoConfig /\ tasks = <<>> /\ awaited = 1 /\ told = "never"
  /\ shadow = FALSE /\ open = {} /\ ring = <<>> /\ past = <<>>
  /\ KeysInit

-----------------------------------------------------------------------------
(* Starting                                                                 *)

\* Hub::new: the mode is of the process, whichever profile asks for it.
StartsInShadow(c) == c.local.shadow \/ \E i \in DOMAIN c.profiles : c.profiles[i].shadow

Spawned(c) == [i \in DOMAIN Addresses(c) |-> "spawned"]

Start ==
  /\ main = "off"
  /\ \E command \in commands :
       LET c == Asked(command.file, command.flags)
           withKeys == c.role = "remote" /\ c.remote.tls
       IN  /\ cfg' = c
           /\ \/ /\ ~(Validate(c) /\ Opens(c))
                 /\ main' = "error" /\ UNCHANGED <<tasks, shadow, keys>>
              \/ /\ Validate(c) /\ Opens(c) /\ ~withKeys
                 /\ main' = "run" /\ tasks' = Spawned(c)
                 /\ shadow' = StartsInShadow(c)
                 /\ UNCHANGED keys
              \/ /\ Validate(c) /\ Opens(c) /\ withKeys
                 /\ main' = "keys" /\ KeysStart(Me)
                 /\ UNCHANGED <<tasks, shadow>>
  /\ UNCHANGED <<commands, awaited, told, open, ring, past>>

\* tls::serve, before Peer::serve binds.
LoadKeys ==
  /\ main = "keys"
  /\ \/ keyer[Me].pc \notin {"up", "failed"} /\ Serve(Me) /\ UNCHANGED <<main, tasks>>
     \/ keyer[Me].pc = "up" /\ main' = "run" /\ tasks' = Spawned(cfg) /\ UNCHANGED keys
     \/ keyer[Me].pc = "failed" /\ main' = "error" /\ UNCHANGED <<tasks, keys>>
  /\ UNCHANGED <<commands, cfg, awaited, told, hub>>

-----------------------------------------------------------------------------
(* Listeners                                                                *)

Becomes(i, state) == tasks' = [tasks EXCEPT ![i] = state]

Bind(i) ==
  /\ tasks[i] = "spawned"
  /\ \/ /\ \A j \in DOMAIN tasks : tasks[j] \in {"bound", "waiting", "woken"}
                                     => Addresses(cfg)[j] # Addresses(cfg)[i]
        /\ Becomes(i, "bound")
     \/ Becomes(i, "unbound")

\* Only now is shutdown.notified() called: an interrupt before it is not heard.
Wait(i) == tasks[i] = "bound" /\ Becomes(i, "waiting")

Ends(i) == tasks[i] = "woken" /\ Becomes(i, "ended")

Listen ==
  /\ main = "run"
  /\ \E i \in DOMAIN tasks : Bind(i) \/ Wait(i) \/ Ends(i)
  /\ UNCHANGED <<commands, main, cfg, awaited, told, hub, keys>>

\* Even when the interrupt has been heard: select! takes either.
AcceptFails ==
  /\ main = "run"
  /\ \E i \in DOMAIN tasks : tasks[i] \in {"waiting", "woken"} /\ Becomes(i, "failed")
  /\ UNCHANGED <<commands, main, cfg, awaited, told, hub, keys>>

\* Mutant: one waiter is woken, as by a channel.
WakenOne == IF SelectInSeq(tasks, LAMBDA t : t = "waiting") = 0 THEN tasks
            ELSE [tasks EXCEPT ![SelectInSeq(tasks, LAMBDA t : t = "waiting")] = "woken"]
\* notify_waiters: all that wait now, and nobody later.
Waken == [i \in DOMAIN tasks |-> IF tasks[i] = "waiting" THEN "woken" ELSE tasks[i]]

Interrupt ==
  /\ main = "run"
  /\ tasks' = Waken
  /\ told' = IF \A i \in DOMAIN tasks : tasks[i] \notin {"spawned", "bound"} THEN "all"
             ELSE IF told = "all" THEN told ELSE "early"
  /\ UNCHANGED <<commands, main, cfg, awaited, hub, keys>>

\* Mutant: a listener that failed is done, like one that was told to end.
AwaitIgnoresFailure ==
  \/ tasks[awaited] \in {"ended", "failed", "unbound"} /\ awaited < Len(tasks)
       /\ awaited' = awaited + 1 /\ UNCHANGED main
  \/ tasks[awaited] \in {"ended", "failed", "unbound"} /\ awaited = Len(tasks)
       /\ main' = "ok" /\ UNCHANGED awaited
\* The loop over the tasks: in their order, and the first error returns.
AwaitTask ==
  \/ tasks[awaited] = "ended" /\ awaited < Len(tasks)
       /\ awaited' = awaited + 1 /\ UNCHANGED main
  \/ tasks[awaited] = "ended" /\ awaited = Len(tasks) /\ main' = "ok" /\ UNCHANGED awaited
  \/ tasks[awaited] \in {"failed", "unbound"} /\ main' = "error" /\ UNCHANGED awaited

Await ==
  /\ main = "run" /\ AwaitTask
  /\ UNCHANGED <<commands, cfg, tasks, told, hub, keys>>

\* The process is gone, by itself or killed, and all it held in memory with it.
Vanish ==
  /\ main # "off"
  /\ main' = "off" /\ cfg' = NoConfig /\ tasks' = <<>> /\ awaited' = 1 /\ told' = "never"
  /\ shadow' = FALSE /\ open' = {} /\ ring' = <<>> /\ past' = <<>>
  /\ IF keyer[Me].pc = "off" THEN UNCHANGED keys ELSE KeysStop(Me)
  /\ UNCHANGED commands

Copy == CopyCa(Me) /\ UNCHANGED <<life, hub>>

-----------------------------------------------------------------------------
(* Turns and the console                                                    *)

\* prepare: shadowed if the profile or the process is.  Connections that a listener has
\* accepted are tasks of their own, which go on after the listener has ended or failed.
Accepted(i) == tasks[i] \in {"waiting", "woken", "ended", "failed"}

Begin ==
  /\ Local /\ Cardinality(open) + Len(past) < MaxTurns
  /\ \E i \in DOMAIN tasks :
       /\ Accepted(i)
       /\ open' = open \cup
            {[slot |-> Min((1 .. MaxTurns) \ {t.slot : t \in open}),
              profile |-> EffectiveProfiles(cfg)[i].name,
              shadowed |-> EffectiveProfiles(cfg)[i].shadow \/ shadow]}
  /\ UNCHANGED <<life, shadow, ring, past, keys>>

Capacity == Max({TurnLogCap, 1})

\* Mutant: when the ring is full the newest is dropped.
PushKeepsOldest(log, t) == SubSeq(Append(log, t), 1, Min({Len(log) + 1, Capacity}))
\* Mutant: one turn too many is kept.
PushOver(log, t) == LET all == Append(log, t)
                    IN  SubSeq(all, Max({Len(all) - Capacity - 1, 0}) + 1, Len(all))
\* TurnLog::push: what is over the capacity is drained from the front.
Push(log, t) == LET all == Append(log, t)
                IN  SubSeq(all, Max({Len(all) - Capacity, 0}) + 1, Len(all))

Log ==
  /\ Local
  /\ \E t \in open, cost \in Costs :
       LET turn == [profile |-> t.profile, path |-> cost.path,
                    body |-> cost.body, wire |-> cost.wire]
       IN  /\ open' = open \ {t}
           /\ ring' = Push(ring, turn)
           /\ past' = Append(past, turn)
  /\ UNCHANGED <<life, shadow, keys>>

\* A turn that fails is not logged.
Drop ==
  /\ Local
  /\ \E t \in open : open' = open \ {t}
  /\ UNCHANGED <<life, shadow, ring, past, keys>>

\* POST /shadow, with the mode or without: what a toggle has read may be old.
Switch ==
  /\ Local
  /\ shadow' \in BOOLEAN
  /\ UNCHANGED <<life, open, ring, past, keys>>

Saved(row) == Max({row.body - row.wire, 0})

\* Who saved most comes first, of equals the one first by name.
Before(a, b) == Saved(a) > Saved(b) \/ (Saved(a) = Saved(b) /\ a.key <= b.key)

\* What a loop over the turns adds up.
Sum(terms) ==
  LET s[k \in 0 .. Len(terms)] == IF k = 0 THEN 0 ELSE s[k - 1] + terms[k]
  IN  s[Len(terms)]
Column(rows, what) == [k \in DOMAIN rows |-> rows[k][what]]

\* The row of a key: what its turns add up to.
Row(turns, field, key) ==
  LET Add(amount) == Sum([k \in DOMAIN turns |-> IF turns[k][field] = key THEN amount[k] ELSE 0])
  IN  [key |-> key, requests |-> Add([k \in DOMAIN turns |-> 1]),
       body |-> Add(Column(turns, "body")), wire |-> Add(Column(turns, "wire"))]

\* The rows in the order of sort_by.
Sorted(rows) == CHOOSE s \in [1 .. Cardinality(rows) -> rows] :
                  \A k, l \in DOMAIN s : k < l => s[k] # s[l] /\ Before(s[k], s[l])

\* buckets: one row for each path, or profile.
Buckets(turns, field) == Sorted({Row(turns, field, turns[k][field]) : k \in DOMAIN turns})

-----------------------------------------------------------------------------
Next == Start \/ LoadKeys \/ Listen \/ AcceptFails \/ Interrupt \/ Await \/ Vanish \/ Copy
        \/ Begin \/ Log \/ Drop \/ Switch

\* The runtime runs its tasks; nobody has to interrupt, ask or fail.
Fairness == WF_vars(LoadKeys) /\ WF_vars(Listen) /\ WF_vars(Await)
Spec     == Init /\ [][Next]_vars
FairSpec == Spec /\ Fairness

-----------------------------------------------------------------------------
\* The process is in a phase it has a name for, run_local waits for a listener it has,
\* and neither the ring nor the history grows over its limit.
TypeOK ==
  /\ main \in {"off", "keys", "run", "ok", "error"}
  /\ \A i \in DOMAIN tasks :
       tasks[i] \in {"spawned", "unbound", "bound", "waiting", "woken", "ended", "failed"}
  /\ tasks # <<>> => awaited \in DOMAIN tasks
  /\ Len(ring) <= Capacity /\ Cardinality(open) + Len(past) <= MaxTurns

\* "One signal, every listener" (lib.rs:47): one interrupt that comes when every
\* listener waits for it ends the process, however many listeners there are and
\* whichever of them fail.
OneSignal == told = "all" ~> main # "run"

\* run_local and run_remote run "until `shutdown` fires" (lib.rs:31, 60): an interrupt
\* that comes while they run ends them, also while a listener is only being bound.
StopsWhenTold == told # "never" ~> main # "run"

\* run_local says all went well only if it did: no listener has failed, and none
\* still listens.  And no listener is in another's way (lib.rs, config.rs).
ExitHonest ==
  /\ main = "ok" => \A i \in DOMAIN tasks : tasks[i] = "ended"
  /\ \A i, j \in DOMAIN tasks : Addresses(cfg)[i] = Addresses(cfg)[j] => i = j

\* The console tells of the last turns, all of them up to the capacity and none of
\* another run (metrics.rs, TurnLog::push).
Newest(turns) ==
  SubSeq(turns, Len(turns) - Min({Len(turns), Capacity}) + 1, Len(turns))
ConsoleTellsLast == ring = Newest(past)

\* So it does, and its tables lose none of them: every turn is in one row, bytes add
\* up, and who saved most comes first (metrics.rs, TurnLog and buckets).  Profiles that
\* have one name share a row.
ConsoleAddsUp ==
  LET Total(rows, what) == Sum(Column(rows, what))
  IN  /\ ConsoleTellsLast
      /\ \A field \in {"path", "profile"} :
           LET rows == Buckets(ring, field) IN
           /\ Total(rows, "requests") = Len(ring)
           /\ Total(rows, "body") = Total(ring, "body")
           /\ Total(rows, "wire") = Total(ring, "wire")
           /\ \A k, l \in DOMAIN rows : k < l => /\ Saved(rows[k]) >= Saved(rows[l])
                                                 /\ rows[k].key # rows[l].key
=============================================================================
