-------------------------------- MODULE Config --------------------------------
(***************************************************************************)
(* What a process is asked to be (config.rs, main.rs): the configuration   *)
(* file, the flags of `local` and `remote` laid over it, and the check     *)
(* before anything starts.  An address and a directory are model values,   *)
(* and of a name only its place in the order of names matters; of a token  *)
(* only its length does, of the upstream only whether it has a scheme and  *)
(* parses, of a key only whether it is blank.                              *)
(***************************************************************************)
EXTENDS Naturals, Sequences

CONSTANT Absent  \* a flag that is not given, a field that is not set

\* LocalConfig; ca is Absent, "file", or "lost" when there is no such file.
Profile(name, listen, peer) ==
  [name |-> name, listen |-> listen, peer |-> peer,
   tls |-> FALSE, ca |-> Absent, shadow |-> FALSE]

Given(flag, old) == IF flag = Absent THEN old ELSE flag

\* cfg.local.name is set to the name that is asked for before anyone looks whether
\* there is such a profile, and when there is none [local] is served.
LocalFlags(c, f) ==
  [c EXCEPT
     !.role     = "local",
     !.token    = Given(f.token, @),
     !.enabled  = @ /\ ~f.passthrough,
     !.local    = [@ EXCEPT !.listen = Given(f.listen, @), !.peer = Given(f.peer, @),
                            !.name = Given(f.profile, @), !.shadow = @ \/ f.shadow,
                            !.tls = @ \/ f.tls, !.ca = IF f.tls THEN f.ca ELSE @],
     !.profiles = IF f.profile = Absent THEN @
                  ELSE SelectSeq(@, LAMBDA p : p.name = f.profile)]

\* One flag about the API key replaces both fields about it.
Keyed(f) == f.key # Absent \/ f.keyfile # Absent

RemoteFlags(c, f) ==
  [c EXCEPT
     !.role   = "remote",
     !.token  = Given(f.token, @),
     !.remote = [@ EXCEPT !.listen = Given(f.listen, @), !.upstream = Given(f.upstream, @),
                          !.key = IF Keyed(f) THEN f.key ELSE @,
                          !.keyfile = IF Keyed(f) THEN f.keyfile ELSE @,
                          !.tls = @ \/ f.tls, !.dir = IF f.tls THEN f.dir ELSE @]]

Asked(c, f) == IF f.cmd = "local" THEN LocalFlags(c, f) ELSE RemoteFlags(c, f)

EffectiveProfiles(c) == IF c.profiles = <<>> THEN <<c.local>> ELSE c.profiles

\* No two profiles listen on one address.
Distinct(c) ==
  LET ps == EffectiveProfiles(c)
  IN  \A i, j \in DOMAIN ps : ps[i].listen = ps[j].listen => i = j

Validate(c) ==
  /\ c.token = "long" /\ c.fits
  /\ c.role = "local" =>
       /\ c.enabled /\ Distinct(c)
       /\ \A i \in DOMAIN EffectiveProfiles(c) :
            LET p == EffectiveProfiles(c)[i]
            IN  p.listen # p.peer /\ (p.tls => p.ca # Absent)
  /\ c.role = "remote" => c.remote.upstream # "bare"

\* The key file is read only when there is no key at hand.
KeyReadable(remote) == remote.key = "given" \/ remote.keyfile # "lost"

\* What can still go wrong before the listeners: App::all reads the CA file of a
\* profile, Peer::new parses the upstream and reads the key file.
Opens(c) ==
  IF c.role = "local"
  THEN \A i \in DOMAIN EffectiveProfiles(c) :
         LET p == EffectiveProfiles(c)[i] IN p.tls => p.ca = "file"
  ELSE /\ c.remote.upstream = "url"
       /\ KeyReadable(c.remote)
       /\ c.remote.tls => c.remote.dir # Absent

\* The addresses run_local, or run_remote, listens on.
Addresses(c) ==
  IF c.role = "remote" THEN <<c.remote.listen>>
  ELSE [i \in DOMAIN EffectiveProfiles(c) |-> EffectiveProfiles(c)[i].listen]
=============================================================================
