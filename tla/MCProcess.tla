------------------------------ MODULE MCProcess ------------------------------
(* Configuration files and flags to start a process with. *)
EXTENDS Process

\* Names of profiles, in their order.
CONSTANTS a, b, peer, default, one, two, dir

LocalPart  == Profile(default, a, peer)
RemotePart == [listen |-> peer, upstream |-> "url", key |-> Absent, keyfile |-> Absent,
               tls |-> FALSE, dir |-> Absent]

File(profiles) ==
  [role |-> "local", local |-> LocalPart, profiles |-> profiles, remote |-> RemotePart,
   token |-> "long", enabled |-> TRUE, fits |-> TRUE]

LocalAsIs  == [cmd |-> "local", token |-> Absent, listen |-> Absent, peer |-> Absent,
               profile |-> Absent, passthrough |-> FALSE, shadow |-> FALSE,
               tls |-> FALSE, ca |-> Absent]
RemoteAsIs == [cmd |-> "remote", token |-> Absent, listen |-> Absent, upstream |-> Absent,
               key |-> Absent, keyfile |-> Absent, tls |-> FALSE, dir |-> Absent]

First   == Profile(one, a, peer)
Second  == [Profile(two, b, peer) EXCEPT !.shadow = TRUE]
Single  == File(<<>>)
Both    == File(<<First, Second>>)
Twins   == File(<<First, [Second EXCEPT !.name = one]>>)
Clash   == File(<<First, [Second EXCEPT !.listen = a]>>)
Upstream(u) == [Single EXCEPT !.remote.upstream = u]

Do(file, flags) == [file |-> file, flags |-> flags]

LocalCommands ==
  {Do(f, LocalAsIs) : f \in {Single, Both, Twins, Clash, [Single EXCEPT !.fits = FALSE],
                             [Single EXCEPT !.token = "short"]}}
  \cup {Do(f, [LocalAsIs EXCEPT !.profile = n]) : f \in {Both, Clash}, n \in {one, two}}
  \cup {Do(Single, fl) : fl \in {[LocalAsIs EXCEPT !.passthrough = TRUE],
                                 [LocalAsIs EXCEPT !.listen = peer],
                                 [LocalAsIs EXCEPT !.tls = TRUE],
                                 [LocalAsIs EXCEPT !.tls = TRUE, !.ca = "file"],
                                 [LocalAsIs EXCEPT !.tls = TRUE, !.ca = "lost"],
                                 [LocalAsIs EXCEPT !.shadow = TRUE]}}

WithTls == [RemoteAsIs EXCEPT !.tls = TRUE, !.dir = dir]

RemoteCommands ==
  {Do(Single, fl) : fl \in {RemoteAsIs, WithTls, [RemoteAsIs EXCEPT !.tls = TRUE]}}
  \cup {Do(Upstream(u), RemoteAsIs) : u \in {"bare", "scheme"}}
  \cup {Do(Upstream("bare"), [RemoteAsIs EXCEPT !.upstream = "url"])}
  \cup {Do([Single EXCEPT !.remote.keyfile = "lost"], fl) :
          fl \in {RemoteAsIs} \cup {[RemoteAsIs EXCEPT !.key = k] : k \in {"given", "blank"}}}
  \cup {Do([Single EXCEPT !.remote.key = "given"], [RemoteAsIs EXCEPT !.keyfile = "lost"])}

Either        == {LocalCommands, RemoteCommands}
TlsMachine    == {{Do(Single, WithTls)}}

\* Two paths; the second turn costs more on the link than its body has bytes.
AllCosts == {[path |-> 1, body |-> 5, wire |-> 2], [path |-> 2, body |-> 1, wire |-> 2]}
=============================================================================
