----------------------------- MODULE ProcessProofs -----------------------------
(***************************************************************************)
(* For every set of machines, commands and processes, any number of starts *)
(* and crashes at any system call: a laptop that has been paired stays     *)
(* paired, a process that says all went well has ended every listener, and *)
(* the console tells of the last turns, in tables that add up.             *)
(*                                                                         *)
(* Pairing.  The certificate of the leaf is what tells a complete pair of  *)
(* certificates: it is written after the CA and never taken away again, so *)
(* while it is there keys are not made anew.  A peer that is up has read   *)
(* all files of one generation, and from then on nobody writes.            *)
(*                                                                         *)
(* Tables.  Adding one turn more adds its amount to one row and to no      *)
(* other, so that rows and turns stay equal, turn by turn.                 *)
(***************************************************************************)
EXTENDS Process, SequenceTheorems, FiniteSetTheorems, WellFoundedInduction, TLAPS

File == [file : {"none", "part", "ca.der", "ca.key", "leaf.der", "leaf.key"}, gen : Nat]
Pcs  == {"off", "check", "write", "fill", "clear", "rename", "load", "up", "failed"}
Writing(m) == m.pc \in {"write", "fill", "clear", "rename"}

KeysTypeOK ==
  /\ disk \in [Names -> File] /\ gens \in Nat /\ copied \in File
  /\ keyer \in [Procs -> [pc : Pcs, at : 1 .. 4, gen : Nat]]

\* Nobody else is at work in the directory.
Alone == \A p \in Procs \ {Me} : keyer[p].pc = "off"

\* A leaf certificate is there only with the CA it was signed by, and while it is,
\* nothing but its key is still to be written.
LeafLast ==
  disk["leaf.der"] # Nothing =>
    /\ disk["leaf.der"].file = "leaf.der"
    /\ disk["ca.der"] # Nothing /\ disk["ca.der"].gen = disk["leaf.der"].gen
    /\ Writing(keyer[Me]) => keyer[Me].at = 4

\* What has been written of the generation under way, file by file.
Progress ==
  LET m == keyer[Me] IN
  /\ m.pc = "check" => m.at = 1
  /\ Writing(m) /\ m.at > 1 => disk["ca.der"] = [file |-> "ca.der", gen |-> m.gen]
  /\ m.pc \in {"clear", "rename"} =>
       disk[Temp(m.at)] = [file |-> Files[m.at], gen |-> m.gen]

\* A peer that is up has loaded what is on disk.
UpLoaded == keyer[Me].pc = "up" => Loads /\ keyer[Me].gen = disk["leaf.der"].gen

\* When somebody has copied the CA the directory is complete and nobody writes it.
Paired ==
  copied # Nothing =>
    /\ disk["ca.der"] = copied /\ Loads /\ disk["leaf.der"].gen = copied.gen
    /\ ~Writing(keyer[Me]) /\ keyer[Me].pc # "failed"
    /\ keyer[Me].pc = "up" => keyer[Me].gen = copied.gen

KInv == KeysTypeOK /\ Alone /\ LeafLast /\ Progress /\ UpLoaded /\ Paired

-----------------------------------------------------------------------------
\* The names of the files, in the order they are written.
LEMMA FileNames ==
  /\ Files[1] = "ca.der" /\ Files[2] = "ca.key" /\ Files[3] = "leaf.der" /\ Files[4] = "leaf.key"
  /\ Names = {"ca.der", "ca.key", "leaf.der", "leaf.key", "ca.tmp", "leaf.tmp"}
  /\ Nothing \in File /\ Partial \in File
<1>1. /\ Files[1] = "ca.der" /\ Files[2] = "ca.key"
      /\ Files[3] = "leaf.der" /\ Files[4] = "leaf.key"
  BY DEF Files
<1>2. 1 .. 4 = {1, 2, 3, 4}
  OBVIOUS
<1>3. {Files[i] : i \in 1 .. 4} = {"ca.der", "ca.key", "leaf.der", "leaf.key"}
  BY <1>1, <1>2
<1>4. Names = {"ca.der", "ca.key", "leaf.der", "leaf.key", "ca.tmp", "leaf.tmp"}
  BY <1>3 DEF Names, Temps
<1>5. Nothing \in File /\ Partial \in File
  BY DEF Nothing, Partial, File
<1> QED BY <1>1, <1>4, <1>5

\* A start begins with a look at the directory.
LEMMA StartKeeps == ASSUME KInv, KeysStart(Me) PROVE KInv'
<1> USE ProcessAssumption DEF KInv
<1>1. keyer' = [keyer EXCEPT ![Me] = [pc |-> "check", at |-> 1, gen |-> 0]]
      /\ UNCHANGED <<disk, gens, copied>>
  BY DEF KeysStart
<1>2. keyer'[Me] = [pc |-> "check", at |-> 1, gen |-> 0]
  BY <1>1 DEF KeysTypeOK, Pcs
<1>3. KeysTypeOK'
  BY <1>1 DEF KeysTypeOK, Pcs
<1>4. Alone'
  BY <1>1 DEF Alone, KeysTypeOK
<1> QED
  BY <1>1, <1>2, <1>3, <1>4 DEF LeafLast, Progress, UpLoaded, Paired, Writing, Loads

\* A process that is gone leaves the directory as it is.
LEMMA StopKeeps == ASSUME KInv, KeysStop(Me) PROVE KInv'
<1> USE ProcessAssumption DEF KInv
<1>1. keyer' = [keyer EXCEPT ![Me].pc = "off"] /\ UNCHANGED <<disk, gens, copied>>
  BY DEF KeysStop, Goes
<1>2. keyer'[Me].pc = "off"
  BY <1>1 DEF KeysTypeOK, Pcs
<1>3. KeysTypeOK'
  BY <1>1 DEF KeysTypeOK, Pcs
<1>4. Alone'
  BY <1>1 DEF Alone, KeysTypeOK
<1> QED
  BY <1>1, <1>2, <1>3, <1>4 DEF LeafLast, Progress, UpLoaded, Paired, Writing, Loads

\* Keys are made only when the leaf certificate is missing, and so nobody is paired.
LEMMA CheckKeeps == ASSUME KInv, KeysCheck(Me) PROVE KInv'
<1> USE ProcessAssumption DEF KInv
<1>1. keyer[Me].pc = "check" /\ UNCHANGED <<disk, copied>>
  BY DEF KeysCheck
<1>2. CASE Missing /\ gens' = gens + 1
           /\ keyer' = [keyer EXCEPT ![Me].pc = "write", ![Me].gen = gens + 1]
  <2>1. keyer'[Me] = [keyer[Me] EXCEPT !.pc = "write", !.gen = gens + 1]
    BY <1>2 DEF KeysTypeOK, Pcs
  <2>2. keyer'[Me].pc = "write" /\ keyer'[Me].at = 1
    BY <1>1, <2>1 DEF KeysTypeOK, Progress
  <2>3. gens + 1 \in Nat /\ gens' = gens + 1
    BY <1>2 DEF KeysTypeOK
  <2>4. keyer'[Me] = [pc |-> "write", at |-> keyer[Me].at, gen |-> gens + 1]
    BY <2>1 DEF KeysTypeOK
  <2>5. keyer'[Me] \in [pc : Pcs, at : 1 .. 4, gen : Nat]
    BY <2>3, <2>4 DEF KeysTypeOK, Pcs
  <2>6. KeysTypeOK'
    BY <1>1, <1>2, <2>3, <2>5 DEF KeysTypeOK
  <2>7. Alone'
    BY <1>2 DEF Alone, KeysTypeOK
  <2>8. disk["leaf.der"] = Nothing
    BY <1>2 DEF Missing, LeafLast
  <2>9. copied = Nothing
    BY <2>8 DEF Paired, Loads, Nothing
  <2> QED
    BY <1>1, <2>2, <2>6, <2>7, <2>8, <2>9 DEF LeafLast, Progress, UpLoaded, Paired
<1>3. CASE ~Missing /\ Goes(Me, "load") /\ UNCHANGED gens
  <2>1. keyer' = [keyer EXCEPT ![Me].pc = "load"] /\ keyer'[Me].pc = "load"
    BY <1>3 DEF Goes, KeysTypeOK
  <2>2. KeysTypeOK'
    BY <1>1, <1>3, <2>1 DEF KeysTypeOK, Pcs
  <2>3. Alone'
    BY <2>1 DEF Alone, KeysTypeOK
  <2> QED
    BY <1>1, <2>1, <2>2, <2>3 DEF LeafLast, Progress, UpLoaded, Paired, Writing, Loads
<1> QED BY <1>2, <1>3 DEF KeysCheck

\* A partial file is a temporary one, which nobody reads.
LEMMA CreateTempKeeps == ASSUME KInv, CreateTemp(Me) PROVE KInv'
<1> USE ProcessAssumption DEF KInv
<1> DEFINE m == keyer[Me]
<1>1. /\ m.pc = "write" /\ UNCHANGED <<gens, copied>>
      /\ disk' = [disk EXCEPT ![Temp(m.at)] = Partial]
      /\ keyer' = [keyer EXCEPT ![Me].pc = "fill"]
  BY DEF CreateTemp, Goes
<1>2. m.at \in 1 .. 4 /\ m.gen \in Nat
  BY DEF KeysTypeOK, Pcs
<1>3. Temp(m.at) \in {"ca.tmp", "leaf.tmp"}
  BY <1>2 DEF Temp
<1>4. KeysTypeOK'
  BY <1>1, <1>3, FileNames DEF KeysTypeOK, Pcs
<1>5. Alone'
  BY <1>1 DEF Alone, KeysTypeOK
<1>6. /\ disk'["ca.der"] = disk["ca.der"] /\ disk'["leaf.der"] = disk["leaf.der"]
      /\ disk'["leaf.key"] = disk["leaf.key"]
  BY <1>1, <1>3, FileNames DEF KeysTypeOK, Pcs
<1>7. keyer'[Me] = [m EXCEPT !.pc = "fill"]
  BY <1>1 DEF KeysTypeOK, Pcs
<1>8. keyer'[Me].pc = "fill" /\ keyer'[Me].at = m.at /\ keyer'[Me].gen = m.gen
  BY <1>7 DEF KeysTypeOK, Pcs
<1>9. copied = Nothing
  BY <1>1 DEF Paired, Writing
<1>10. LeafLast'
  BY <1>1, <1>6, <1>8 DEF LeafLast, Writing
<1>11. Progress'
  BY <1>1, <1>6, <1>8 DEF Progress, Writing
<1> QED
  BY <1>1, <1>4, <1>5, <1>8, <1>9, <1>10, <1>11 DEF UpLoaded, Paired

\* While a file is written the leaf certificate is not there, but for its own key.
LEMMA WriteTempKeeps == ASSUME KInv, WriteTemp(Me) PROVE KInv'
<1> USE ProcessAssumption DEF KInv
<1> DEFINE m == keyer[Me]
           new == [file |-> Files[m.at], gen |-> m.gen]
<1>1. /\ m.pc = "fill" /\ UNCHANGED <<gens, copied>>
      /\ disk' = [disk EXCEPT ![Temp(m.at)] = new]
      /\ keyer' = [keyer EXCEPT ![Me].pc = "clear"]
  BY DEF WriteTemp, Goes
<1>2. m.at \in 1 .. 4 /\ m.gen \in Nat
  BY DEF KeysTypeOK, Pcs
<1>3. new \in File /\ Temp(m.at) \in {"ca.tmp", "leaf.tmp"}
  BY <1>2, FileNames DEF File, Temp
<1>4. KeysTypeOK'
  BY <1>1, <1>3, FileNames DEF KeysTypeOK, Pcs
<1>5. Alone'
  BY <1>1 DEF Alone, KeysTypeOK
<1>6. /\ disk'["ca.der"] = disk["ca.der"] /\ disk'["leaf.der"] = disk["leaf.der"]
      /\ disk'["leaf.key"] = disk["leaf.key"] /\ disk'[Temp(m.at)] = new
  BY <1>1, <1>3, FileNames DEF KeysTypeOK, Pcs
<1>7. keyer'[Me] = [m EXCEPT !.pc = "clear"]
  BY <1>1 DEF KeysTypeOK, Pcs
<1>8. keyer'[Me].pc = "clear" /\ keyer'[Me].at = m.at /\ keyer'[Me].gen = m.gen
  BY <1>7 DEF KeysTypeOK, Pcs
<1>9. copied = Nothing
  BY <1>1 DEF Paired, Writing
<1>10. LeafLast'
  BY <1>1, <1>6, <1>8 DEF LeafLast, Writing
<1>11. Progress'
  BY <1>1, <1>6, <1>8 DEF Progress, Writing
<1> QED
  BY <1>1, <1>4, <1>5, <1>8, <1>9, <1>10, <1>11 DEF UpLoaded, Paired

\* The file that is taken away is the one under way.
LEMMA RemoveOldKeeps == ASSUME KInv, RemoveOld(Me) PROVE KInv'
<1> USE ProcessAssumption DEF KInv
<1> DEFINE m == keyer[Me]
<1>1. /\ m.pc = "clear" /\ UNCHANGED <<gens, copied>>
      /\ disk' = [disk EXCEPT ![Files[m.at]] = Nothing]
      /\ keyer' = [keyer EXCEPT ![Me].pc = "rename"]
  BY DEF RemoveOld, Goes
<1>2. m.at \in 1 .. 4 /\ m.gen \in Nat
  BY DEF KeysTypeOK, Pcs
<1>3. KeysTypeOK'
  BY <1>1, <1>2, FileNames DEF KeysTypeOK, Pcs
<1>4. Alone'
  BY <1>1 DEF Alone, KeysTypeOK
<1>5. keyer'[Me] = [m EXCEPT !.pc = "rename"]
  BY <1>1 DEF KeysTypeOK, Pcs
<1>6. keyer'[Me].pc = "rename" /\ keyer'[Me].at = m.at /\ keyer'[Me].gen = m.gen
  BY <1>5 DEF KeysTypeOK, Pcs
<1>7. copied = Nothing
  BY <1>1 DEF Paired, Writing
<1>8. disk'[Temp(m.at)] = disk[Temp(m.at)]
  BY <1>1, <1>2, FileNames DEF Temp, KeysTypeOK
<1>9. m.at > 1 => disk'["ca.der"] = disk["ca.der"]
  BY <1>1, <1>2, FileNames DEF KeysTypeOK, Pcs
<1>10. disk'["leaf.der"] # Nothing => disk'["leaf.der"] = disk["leaf.der"]
  BY <1>1, <1>2, FileNames DEF KeysTypeOK, Pcs
<1>11. LeafLast'
  BY <1>1, <1>6, <1>9, <1>10 DEF LeafLast, Writing
<1>12. Progress'
  BY <1>1, <1>6, <1>8, <1>9 DEF Progress, Writing
<1> QED
  BY <1>1, <1>3, <1>4, <1>6, <1>7, <1>11, <1>12 DEF UpLoaded, Paired

\* A file gets its name with what was made for it.  With the third the pair of
\* certificates is complete.
LEMMA RenameKeeps == ASSUME KInv, Rename(Me) PROVE KInv'
<1> USE ProcessAssumption DEF KInv
<1> DEFINE m == keyer[Me]
           new == [file |-> Files[m.at], gen |-> m.gen]
<1>1. m.pc = "rename" /\ UNCHANGED <<gens, copied>> /\ disk[Temp(m.at)] = new
  BY DEF Rename, Progress
<1>2. m.at \in 1 .. 4 /\ m.gen \in Nat
  BY DEF KeysTypeOK
<1>3. new \in File /\ new # Nothing /\ Temp(m.at) \in {"ca.tmp", "leaf.tmp"}
  BY <1>2, FileNames DEF File, Temp, Nothing
<1>4. /\ disk' = [disk EXCEPT ![Files[m.at]] = new, ![Temp(m.at)] = Nothing]
      /\ keyer' = [keyer EXCEPT ![Me].pc = IF m.at = 4 THEN "load" ELSE "write",
                                ![Me].at = IF m.at = 4 THEN 4 ELSE m.at + 1]
  BY <1>1, <1>3 DEF Rename
<1>5. keyer'[Me] = [m EXCEPT !.pc = IF m.at = 4 THEN "load" ELSE "write",
                             !.at = IF m.at = 4 THEN 4 ELSE m.at + 1]
  BY <1>4 DEF KeysTypeOK
<1>6. /\ keyer'[Me].pc = (IF m.at = 4 THEN "load" ELSE "write") /\ keyer'[Me].gen = m.gen
      /\ keyer'[Me].at = (IF m.at = 4 THEN 4 ELSE m.at + 1)
  BY <1>5 DEF KeysTypeOK
<1>7. keyer'[Me] \in [pc : Pcs, at : 1 .. 4, gen : Nat]
  <2>1. m \in [pc : Pcs, at : 1 .. 4, gen : Nat]
    BY DEF KeysTypeOK
  <2>2. CASE m.at = 4
    BY <1>5, <2>1, <2>2 DEF Pcs
  <2>3. CASE m.at # 4
    <3>1. m.at + 1 \in 1 .. 4
      BY <1>2, <2>3
    <3>2. keyer'[Me] = [m EXCEPT !.pc = "write", !.at = m.at + 1]
      BY <1>5, <2>3
    <3> HIDE DEF m
    <3> QED BY <2>1, <3>1, <3>2 DEF Pcs
  <2> QED BY <2>2, <2>3
<1>8. KeysTypeOK'
  <2>1. disk' \in [Names -> File]
    BY <1>3, <1>4, FileNames DEF KeysTypeOK
  <2>2. keyer' \in [Procs -> [pc : Pcs, at : 1 .. 4, gen : Nat]]
    BY <1>4, <1>7 DEF KeysTypeOK
  <2> QED BY <1>1, <2>1, <2>2 DEF KeysTypeOK
<1>9. Alone'
  BY <1>4 DEF Alone, KeysTypeOK
<1>10. copied = Nothing
  BY <1>1 DEF Paired, Writing
<1>11. /\ disk'["ca.der"] = (IF m.at = 1 THEN new ELSE disk["ca.der"])
       /\ disk'["leaf.der"] = (IF m.at = 3 THEN new ELSE disk["leaf.der"])
  BY <1>2, <1>3, <1>4, FileNames DEF KeysTypeOK
<1>12. m.at > 1 => disk["ca.der"] = [file |-> "ca.der", gen |-> m.gen]
  BY <1>1 DEF Progress, Writing
<1>13. disk["leaf.der"] # Nothing => m.at = 4
  BY <1>1 DEF LeafLast, Writing
<1>14. LeafLast'
  <2>1. CASE m.at = 3
    BY <1>6, <1>11, <1>12, <2>1, FileNames DEF LeafLast, Nothing
  <2>2. CASE m.at # 3
    BY <1>2, <1>6, <1>11, <1>12, <1>13, <2>2 DEF LeafLast, Writing
  <2> QED BY <2>1, <2>2
<1>15. Progress'
  BY <1>2, <1>6, <1>11, <1>12, FileNames DEF Progress, Writing
<1> QED
  BY <1>1, <1>6, <1>8, <1>9, <1>10, <1>14, <1>15 DEF UpLoaded, Paired

\* A start that finds the directory of a pairing can load it.
LEMMA LoadKeeps == ASSUME KInv, KeysLoad(Me) PROVE KInv'
<1> USE ProcessAssumption DEF KInv
<1>1. /\ keyer[Me].pc = "load" /\ UNCHANGED <<disk, gens, copied>>
      /\ keyer' = [keyer EXCEPT ![Me].pc = IF Loads THEN "up" ELSE "failed",
                                ![Me].gen = disk["leaf.der"].gen]
  BY DEF KeysLoad
<1>2. keyer'[Me] = [keyer[Me] EXCEPT !.pc = IF Loads THEN "up" ELSE "failed",
                                     !.gen = disk["leaf.der"].gen]
  BY <1>1 DEF KeysTypeOK
<1>3. /\ keyer'[Me].pc = (IF Loads THEN "up" ELSE "failed")
      /\ keyer'[Me].gen = disk["leaf.der"].gen
  BY <1>2 DEF KeysTypeOK
<1>4. disk["leaf.der"].gen \in Nat
  BY FileNames DEF KeysTypeOK, File
<1>5. keyer'[Me] \in [pc : Pcs, at : 1 .. 4, gen : Nat]
  BY <1>2, <1>4 DEF KeysTypeOK, Pcs
<1>6. KeysTypeOK'
  BY <1>1, <1>5 DEF KeysTypeOK
<1>7. Alone'
  BY <1>1 DEF Alone, KeysTypeOK
<1> QED
  BY <1>1, <1>3, <1>6, <1>7 DEF LeafLast, Progress, UpLoaded, Paired, Writing, Loads

\* What is copied from a peer that is up belongs to what it has loaded.
LEMMA CopyKeeps == ASSUME KInv, CopyCa(Me) PROVE KInv'
<1> USE ProcessAssumption DEF KInv
<1>1. /\ keyer[Me].pc = "up" /\ copied' = disk["ca.der"] /\ UNCHANGED <<disk, gens, keyer>>
  BY DEF CopyCa
<1>2. KeysTypeOK'
  BY <1>1, FileNames DEF KeysTypeOK
<1>3. Loads /\ disk["leaf.der"] # Nothing
  BY <1>1 DEF UpLoaded, Loads, Nothing
<1>4. disk["ca.der"].gen = disk["leaf.der"].gen
  BY <1>3 DEF LeafLast
<1>5. Paired'
  BY <1>1, <1>3, <1>4 DEF Paired, UpLoaded, Loads, Writing
<1> QED
  BY <1>1, <1>2, <1>5 DEF Alone, LeafLast, Progress, UpLoaded, Loads

\* An empty directory.
LEMMA KeysStartEmpty == Init => KInv
<1> SUFFICES ASSUME Init PROVE KInv
  OBVIOUS
<1> USE ProcessAssumption
<1>1. /\ disk = [f \in Names |-> Nothing] /\ gens = 0 /\ copied = Nothing
      /\ keyer = [p \in Procs |-> [pc |-> "off", at |-> 1, gen |-> 0]]
  BY DEF Init, KeysInit
<1>2. keyer[Me] = [pc |-> "off", at |-> 1, gen |-> 0] /\ disk["leaf.der"] = Nothing
  BY <1>1, FileNames
<1>3. KeysTypeOK
  BY <1>1, FileNames DEF KeysTypeOK, Pcs
<1>4. Alone
  BY <1>1 DEF Alone
<1> QED
  BY <1>1, <1>2, <1>3, <1>4 DEF KInv, LeafLast, Progress, UpLoaded, Paired, Writing

\* A step that leaves the keys alone.
LEMMA KeysUntouched == ASSUME KInv, UNCHANGED keys PROVE KInv'
  BY DEF KInv, keys, KeysTypeOK, Alone, LeafLast, Progress, UpLoaded, Paired, Writing, Loads

\* Of all steps of the process only its start, tls::serve, its end and the copy of
\* the CA are about the keys.
LEMMA KeysStep == KInv /\ [Next]_vars => KInv'
<1> SUFFICES ASSUME KInv, [Next]_vars PROVE KInv'
  OBVIOUS
<1>1. KeysStart(Me) \/ KeysStop(Me) \/ Serve(Me) \/ CopyCa(Me) \/ UNCHANGED keys
  <2>1. ASSUME Start PROVE KeysStart(Me) \/ UNCHANGED keys
    BY <2>1 DEF Start
  <2>2. ASSUME LoadKeys PROVE Serve(Me) \/ UNCHANGED keys
    BY <2>2 DEF LoadKeys
  <2>3. ASSUME Vanish PROVE KeysStop(Me) \/ UNCHANGED keys
    BY <2>3 DEF Vanish
  <2>4. ASSUME Copy PROVE CopyCa(Me)
    BY <2>4 DEF Copy
  <2>5. ASSUME Listen \/ AcceptFails \/ Interrupt \/ Await PROVE UNCHANGED keys
    BY <2>5 DEF Listen, AcceptFails, Interrupt, Await
  <2>6. ASSUME Begin \/ Log \/ Drop \/ Switch PROVE UNCHANGED keys
    BY <2>6 DEF Begin, Log, Drop, Switch
  <2>7. ASSUME UNCHANGED vars PROVE UNCHANGED keys
    BY <2>7 DEF vars
  <2> QED BY <2>1, <2>2, <2>3, <2>4, <2>5, <2>6, <2>7 DEF Next
<1> QED
  BY <1>1, StartKeeps, StopKeeps, CheckKeeps, CreateTempKeeps, WriteTempKeeps, RemoveOldKeeps,
     RenameKeeps, LoadKeeps, CopyKeeps, KeysUntouched DEF Serve

\* Whatever starts and crashes come, also between any two system calls of the
\* first start: once somebody has copied the CA of a peer that was up, every peer
\* that comes up serves a leaf of that CA, and none fails to load (tls.rs, serve).
THEOREM PairingForever == Spec => []PairingLasts
<1>1. KInv => PairingLasts
  <2> SUFFICES ASSUME KInv, copied # Nothing
               PROVE /\ disk["ca.der"] = copied
                     /\ \A p \in Procs : /\ keyer[p].pc = "up" => keyer[p].gen = copied.gen
                                         /\ keyer[p].pc # "failed"
    BY DEF PairingLasts
  <2>1. disk["ca.der"] = copied
    BY DEF KInv, Paired
  <2>2. ASSUME NEW p \in Procs, p # Me
        PROVE  keyer[p].pc = "off"
    BY <2>2 DEF KInv, Alone
  <2> QED BY <2>1, <2>2 DEF KInv, Paired
<1> QED BY <1>1, KeysStartEmpty, KeysStep, PTL DEF Spec

-----------------------------------------------------------------------------
(* The end of run_local *)

States == {"spawned", "unbound", "bound", "waiting", "woken", "ended", "failed"}

\* A configuration that passed the check lists addresses, no two of them the same.
Listable(c) ==
  /\ \E n \in Nat : DOMAIN Addresses(c) = 1 .. n
  /\ \A i, j \in DOMAIN Addresses(c) : Addresses(c)[i] = Addresses(c)[j] => i = j

\* What turns are logged under.
Named(c) == \A i \in DOMAIN Addresses(c) : c.role = "local" => EffectiveProfiles(c)[i].name \in Nat

\* Listeners are those of the configuration, and those run_local no longer waits
\* for have ended.
XInv ==
  /\ commands \in Machines
  /\ tasks \in Seq(States) /\ awaited \in Nat
  /\ main = "off" => tasks = <<>> /\ awaited = 1
  /\ main = "keys" => tasks = <<>> /\ awaited = 1 /\ Listable(cfg) /\ Named(cfg)
  /\ main = "run" => DOMAIN tasks = DOMAIN Addresses(cfg) /\ Named(cfg)
  /\ \A i, j \in DOMAIN tasks : Addresses(cfg)[i] = Addresses(cfg)[j] => i = j
  /\ \A j \in DOMAIN tasks : j < awaited => tasks[j] = "ended"
  /\ main = "ok" => \A i \in DOMAIN tasks : tasks[i] = "ended"

\* validate looks at every profile, so two listeners never share an address.
LEMMA ValidIsListable ==
  ASSUME NEW c, c.role \in {"local", "remote"}, Validate(c),
         Len(c.profiles) \in Nat, DOMAIN c.profiles = 1 .. Len(c.profiles)
  PROVE  Listable(c)
<1>1. CASE c.role = "remote"
  <2>1. Addresses(c) = <<c.remote.listen>>
    BY <1>1 DEF Addresses
  <2>2. DOMAIN Addresses(c) = 1 .. 1
    BY <2>1
  <2> QED BY <2>1, <2>2 DEF Listable
<1>2. CASE c.role = "local"
  <2>1. Addresses(c) = [i \in DOMAIN EffectiveProfiles(c) |-> EffectiveProfiles(c)[i].listen]
    BY <1>2 DEF Addresses
  <2>2. Distinct(c)
    BY <1>2 DEF Validate
  <2>3. \E n \in Nat : DOMAIN EffectiveProfiles(c) = 1 .. n
    <3>1. CASE c.profiles = <<>>
      <4>1. DOMAIN EffectiveProfiles(c) = 1 .. 1
        BY <3>1 DEF EffectiveProfiles
      <4> QED BY <4>1
    <3>2. CASE c.profiles # <<>>
      BY <3>2 DEF EffectiveProfiles
    <3> QED BY <3>1, <3>2
  <2> QED BY <2>1, <2>2, <2>3 DEF Listable, Distinct
<1> QED BY <1>1, <1>2

\* The tasks of such a configuration.
LEMMA SpawnedTasks ==
  ASSUME NEW c, Listable(c)
  PROVE  /\ Spawned(c) \in Seq(States) /\ DOMAIN Spawned(c) = DOMAIN Addresses(c)
         /\ \A i \in DOMAIN Spawned(c) : Spawned(c)[i] = "spawned"
<1>1. PICK n \in Nat : DOMAIN Addresses(c) = 1 .. n
  BY DEF Listable
<1>2. Spawned(c) = [i \in 1 .. n |-> "spawned"]
  BY <1>1 DEF Spawned
<1>3. Spawned(c) \in Seq(States)
  BY <1>2, IsASeq DEF States
<1> QED BY <1>1, <1>2, <1>3

\* A listener that has not ended goes on to another state.
LEMMA TaskMoves ==
  ASSUME XInv, NEW i \in DOMAIN tasks, NEW state \in States, tasks[i] # "ended",
         main = "run", Becomes(i, state), UNCHANGED <<commands, main, cfg, awaited>>
  PROVE  XInv'
<1>1. tasks' = [tasks EXCEPT ![i] = state]
  BY DEF Becomes
<1>2. tasks' \in Seq(States) /\ DOMAIN tasks' = DOMAIN tasks
  BY <1>1, ExceptSeq DEF XInv
<1>3. \A j \in DOMAIN tasks : tasks[j] = "ended" => tasks'[j] = "ended"
  BY <1>1
<1> QED BY <1>1, <1>2, <1>3 DEF XInv

\* run_local spawns one listener for each address, and begins to wait for the first.
LEMMA StartListens == ASSUME XInv, Start PROVE XInv'
<1>1. PICK command \in commands :
        LET c == Asked(command.file, command.flags)
        IN  /\ cfg' = c
            /\ \/ main' = "error" /\ UNCHANGED tasks
               \/ Validate(c) /\ main' = "run" /\ tasks' = Spawned(c)
               \/ Validate(c) /\ main' = "keys" /\ UNCHANGED tasks
  BY DEF Start
<1>2. main = "off" /\ tasks = <<>> /\ awaited = 1 /\ commands \in Machines
      /\ UNCHANGED <<commands, awaited>>
  BY DEF Start, XInv
<1>3. /\ cfg'.role \in {"local", "remote"}
      /\ Len(cfg'.profiles) \in Nat /\ DOMAIN cfg'.profiles = 1 .. Len(cfg'.profiles)
      /\ cfg'.role = "local" => \A i \in DOMAIN EffectiveProfiles(cfg') :
                                   EffectiveProfiles(cfg')[i].name \in Nat
  BY <1>1, <1>2, CommandAssumption
<1>7. Named(cfg')
  <2> SUFFICES ASSUME NEW i \in DOMAIN Addresses(cfg'), cfg'.role = "local"
               PROVE  EffectiveProfiles(cfg')[i].name \in Nat
    BY DEF Named
  <2>1. Addresses(cfg')
          = [j \in DOMAIN EffectiveProfiles(cfg') |-> EffectiveProfiles(cfg')[j].listen]
    BY DEF Addresses
  <2>2. i \in DOMAIN EffectiveProfiles(cfg')
    BY <2>1
  <2> QED BY <1>3, <2>2
<1>4. CASE main' = "error" /\ UNCHANGED tasks
  BY <1>2, <1>4 DEF XInv
<1>5. CASE Validate(cfg') /\ main' = "run" /\ tasks' = Spawned(cfg')
  <2>1. Listable(cfg')
    BY <1>3, <1>5, ValidIsListable
  <2>2. /\ tasks' \in Seq(States) /\ DOMAIN tasks' = DOMAIN Addresses(cfg')
    BY <1>5, <2>1, SpawnedTasks
  <2>3. tasks' \in Seq(States) => \A j \in DOMAIN tasks' : ~(j < awaited')
    BY <1>2, LenProperties
  <2> QED BY <1>2, <1>5, <1>7, <2>1, <2>2, <2>3 DEF XInv, Listable
<1>6. CASE Validate(cfg') /\ main' = "keys" /\ UNCHANGED tasks
  <2>1. Listable(cfg')
    BY <1>3, <1>6, ValidIsListable
  <2> QED BY <1>2, <1>6, <1>7, <2>1 DEF XInv
<1> QED BY <1>1, <1>4, <1>5, <1>6

\* The remote end spawns its listener when its keys are loaded.
LEMMA LoadListens == ASSUME XInv, LoadKeys PROVE XInv'
<1>1. main = "keys" /\ tasks = <<>> /\ awaited = 1 /\ Listable(cfg) /\ Named(cfg)
      /\ UNCHANGED <<commands, cfg, awaited>>
  BY DEF LoadKeys, XInv, hub
<1>2. CASE main' = "run" /\ tasks' = Spawned(cfg)
  <2>1. /\ tasks' \in Seq(States) /\ DOMAIN tasks' = DOMAIN Addresses(cfg)
    BY <1>1, <1>2, SpawnedTasks
  <2>2. \A j \in DOMAIN tasks' : ~(j < awaited')
    BY <1>1, <2>1, LenProperties
  <2> QED BY <1>1, <1>2, <2>1, <2>2 DEF XInv, Listable
<1>3. CASE UNCHANGED <<main, tasks>> \/ (main' = "error" /\ UNCHANGED tasks)
  BY <1>1, <1>3 DEF XInv
<1> QED BY <1>2, <1>3 DEF LoadKeys

\* No listener that has ended starts again.
LEMMA ListenersMove == ASSUME XInv, Listen \/ AcceptFails PROVE XInv'
<1>1. main = "run" /\ UNCHANGED <<commands, main, cfg, awaited>>
  BY DEF Listen, AcceptFails
<1>2. PICK i \in DOMAIN tasks, state \in States :
        tasks[i] # "ended" /\ Becomes(i, state)
  <2>1. CASE Listen
    BY <2>1 DEF Listen, Bind, Wait, Ends, States
  <2>2. CASE AcceptFails
    BY <2>2 DEF AcceptFails, States
  <2> QED BY <2>1, <2>2
<1> QED BY <1>1, <1>2, TaskMoves

\* An interrupt wakes listeners that wait, and changes no other.
LEMMA InterruptWakes == ASSUME XInv, Interrupt PROVE XInv'
<1>1. main = "run" /\ tasks' = Waken /\ UNCHANGED <<commands, main, cfg, awaited>>
  BY DEF Interrupt
<1>2. PICK n \in Nat : DOMAIN tasks = 1 .. n
  BY LenProperties DEF XInv
<1>3. \A i \in 1 .. n : tasks[i] \in States
  BY <1>2, LenProperties DEF XInv
<1>4. Waken = [i \in 1 .. n |-> IF tasks[i] = "waiting" THEN "woken" ELSE tasks[i]]
  BY <1>2 DEF Waken
<1>5. Waken \in [1 .. n -> States]
  BY <1>3, <1>4 DEF States
<1>6. Waken \in Seq(States)
  BY <1>5
<1>7. DOMAIN tasks' = DOMAIN tasks
      /\ \A j \in DOMAIN tasks : tasks[j] = "ended" => tasks'[j] = "ended"
  BY <1>1, <1>2, <1>4
<1> QED BY <1>1, <1>6, <1>7 DEF XInv

\* run_local goes on only past a listener that has ended.
LEMMA AwaitGoesOn == ASSUME XInv, Await PROVE XInv'
<1>1. main = "run" /\ AwaitTask /\ UNCHANGED <<commands, cfg, tasks>>
  BY DEF Await
<1>2. \A j \in DOMAIN tasks : j \in Nat /\ j <= Len(tasks)
  BY LenProperties DEF XInv
<1>3. CASE tasks[awaited] = "ended" /\ awaited' = awaited + 1 /\ UNCHANGED main
  <2>1. \A j \in DOMAIN tasks : j < awaited' => j < awaited \/ j = awaited
    BY <1>2, <1>3 DEF XInv
  <2> QED BY <1>1, <1>3, <2>1 DEF XInv
<1>4. CASE tasks[awaited] = "ended" /\ awaited = Len(tasks) /\ main' = "ok"
           /\ UNCHANGED awaited
  <2>1. \A j \in DOMAIN tasks : j < awaited \/ j = awaited
    BY <1>2, <1>4 DEF XInv
  <2> QED BY <1>1, <1>4, <2>1 DEF XInv
<1>5. CASE main' = "error" /\ UNCHANGED awaited
  BY <1>1, <1>5 DEF XInv
<1> QED BY <1>1, <1>3, <1>4, <1>5 DEF AwaitTask

\* All steps together.
LEMMA ListenersStep == XInv /\ [Next]_vars => XInv'
<1> SUFFICES ASSUME XInv, [Next]_vars PROVE XInv'
  OBVIOUS
<1>1. ASSUME Vanish PROVE XInv'
  BY <1>1, EmptySeq DEF Vanish, XInv
<1>2. ASSUME UNCHANGED life PROVE XInv'
  BY <1>2 DEF life, XInv
<1>3. ASSUME Copy \/ Begin \/ Log \/ Drop \/ Switch \/ UNCHANGED vars PROVE UNCHANGED life
  BY <1>3 DEF Copy, Begin, Log, Drop, Switch, vars
<1> QED
  BY <1>1, <1>2, <1>3, StartListens, LoadListens, ListenersMove, InterruptWakes, AwaitGoesOn
  DEF Next

\* A process reports success only when each of its listeners was told to end and
\* did, however many there are and in whatever order they end or fail; and no two
\* of them listen on one address (lib.rs, run_local; config.rs, validate).
THEOREM SuccessIsHonest == Spec => []ExitHonest
<1>1. Init => XInv
  BY EmptySeq DEF Init, XInv
<1>2. XInv => ExitHonest
  BY DEF XInv, ExitHonest
<1> QED BY <1>1, <1>2, ListenersStep, PTL DEF Spec

-----------------------------------------------------------------------------
(* The console *)

\* The larger and the smaller of two numbers.
LEMMA MaxOfTwo ==
  ASSUME NEW m \in Int, NEW n \in Int
  PROVE  Max({m, n}) = IF m >= n THEN m ELSE n
BY DEF Max

LEMMA MinOfTwo ==
  ASSUME NEW m \in Int, NEW n \in Int
  PROVE  Min({m, n}) = IF m <= n THEN m ELSE n
BY DEF Min

\* TurnLog::new: at least one turn is kept.
LEMMA CapacityIsPositive == Capacity \in Nat /\ Capacity >= 1
BY ProcessAssumption, MaxOfTwo DEF Capacity

\* How many of the last turns there are, and which.
LEMMA NewestProperties ==
  ASSUME NEW S, NEW turns \in Seq(S), NEW m, m = Len(turns),
         NEW n, n = IF m <= Capacity THEN m ELSE Capacity
  PROVE  /\ m \in Nat /\ n \in Nat /\ n <= m /\ n <= Capacity
         /\ Newest(turns) \in Seq(S) /\ Len(Newest(turns)) = n
         /\ \A i \in 1 .. n : Newest(turns)[i] = turns[m - n + i]
<1>1. m \in Nat
  BY LenProperties
<1>2. PICK c : c = Capacity /\ c \in Nat /\ c >= 1
  BY CapacityIsPositive
<1>3. n = (IF m <= c THEN m ELSE c) /\ n \in Nat /\ n <= m /\ n <= c
  BY <1>1, <1>2
<1>4. Min({m, c}) = n
  BY <1>1, <1>2, <1>3, MinOfTwo
<1>5. Newest(turns) = SubSeq(turns, m - n + 1, m)
  BY <1>1, <1>2, <1>4 DEF Newest
<1>6. m - n + 1 \in Int /\ m \in Int /\ \A i \in (m - n + 1) .. m : turns[i] \in S
  BY <1>1, <1>3, ElementOfSeq
<1>7. PICK k : k = m - n + 1 /\ k \in Int
  BY <1>6
<1>8. /\ SubSeq(turns, k, m) \in Seq(S)
      /\ Len(SubSeq(turns, k, m)) = IF k <= m THEN m - k + 1 ELSE 0
      /\ \A i \in 1 .. m - k + 1 : SubSeq(turns, k, m)[i] = turns[k + i - 1]
  <2>1. \A i \in k .. m : turns[i] \in S
    BY <1>6, <1>7
  <2>2. k \in Int /\ m \in Int
    BY <1>1, <1>7
  <2> QED BY <2>1, <2>2, SubSeqProperties
<1>9. m - k + 1 = n /\ (IF k <= m THEN m - k + 1 ELSE 0) = n
      /\ \A i \in 1 .. n : k + i - 1 = m - n + i
  BY <1>1, <1>3, <1>7
<1>10. PICK q : q = SubSeq(turns, k, m)
  OBVIOUS
<1>11. q \in Seq(S) /\ Len(q) = n
  BY <1>8, <1>9, <1>10
<1>12. \A i \in 1 .. n : q[i] = turns[m - n + i]
  <2> TAKE i \in 1 .. n
  <2>1. i \in 1 .. m - k + 1 /\ k + i - 1 = m - n + i
    BY <1>9
  <2> QED BY <1>8, <1>10, <2>1
<1>13. Newest(turns) = q
  BY <1>5, <1>7, <1>10
<1> QED BY <1>1, <1>2, <1>3, <1>11, <1>12, <1>13

\* Of none, none.
LEMMA NewestOfNone == Newest(<<>>) = <<>>
<1>1. <<>> \in Seq({}) /\ Len(<<>>) = 0
  BY EmptySeq
<1>2. PICK none : none = <<>> /\ none \in Seq({}) /\ Len(none) = 0
  BY <1>1
<1>3. PICK n : n = 0 /\ n = IF n <= Capacity THEN n ELSE Capacity
  BY CapacityIsPositive
<1>5. n = Len(none)
  BY <1>2, <1>3
<1>6. none \in Seq({})
  BY <1>2
<1>7. Newest(none) \in Seq({}) /\ Len(Newest(none)) = n
  BY <1>3, <1>5, <1>6, NewestProperties
<1>4. Newest(none) \in Seq({}) /\ Len(Newest(none)) = 0
  BY <1>3, <1>7
<1> QED BY <1>2, <1>4, SeqEqual

\* What push makes of the last turns, at the capacity and below it: the last turns.
LEMMA PushKeepsNewest ==
  ASSUME NEW S, NEW turns \in Seq(S), NEW t \in S
  PROVE  Push(Newest(turns), t) = Newest(Append(turns, t))
<1>1. PICK m : m = Len(turns) /\ m \in Nat
  BY LenProperties
<1>2. PICK c : c = Capacity /\ c \in Nat /\ c >= 1
  BY CapacityIsPositive
<1>3. PICK n : n = (IF m <= c THEN m ELSE c) /\ n \in Nat
  BY <1>1, <1>2
<1>a. PICK log : log = Newest(turns)
  OBVIOUS
<1>b. n = IF m <= Capacity THEN m ELSE Capacity
  BY <1>2, <1>3
<1>4. /\ log \in Seq(S) /\ Len(log) = n
      /\ \A i \in 1 .. n : log[i] = turns[m - n + i]
  BY <1>1, <1>a, <1>b, NewestProperties
<1>c. PICK all : all = Append(log, t)
  OBVIOUS
<1>5. /\ all \in Seq(S) /\ Len(all) = n + 1
      /\ \A i \in 1 .. n : all[i] = log[i]
      /\ all[n + 1] = t
  BY <1>c, <1>4, AppendProperties
<1>6. PICK d : d = (IF n + 1 - c >= 0 THEN n + 1 - c ELSE 0) /\ d \in Nat /\ d <= n
  BY <1>2, <1>3, <1>1
<1>7. Push(log, t) = SubSeq(all, d + 1, n + 1)
  <2>1. PICK x : x = Len(all) - Capacity /\ x = n + 1 - c /\ x \in Int
    BY <1>2, <1>3, <1>5
  <2>2. Push(log, t) = SubSeq(all, Max({x, 0}) + 1, Len(all))
    BY <1>c, <2>1 DEF Push
  <2>3. Max({x, 0}) = d
    BY <2>1, <1>6, MaxOfTwo
  <2>4. Len(all) = n + 1
    BY <1>5
  <2> QED BY <2>2, <2>3, <2>4
<1>8. \A i \in (d + 1) .. (n + 1) : all[i] \in S
  BY <1>5, <1>6, <1>3, ElementOfSeq
<1>9. PICK k : k = n + 1 - d /\ k \in Nat
  BY <1>6, <1>3
<1>10. /\ Push(log, t) \in Seq(S) /\ Len(Push(log, t)) = k
       /\ \A i \in 1 .. k : Push(log, t)[i] = all[d + i]
  <2>1. PICK f, l : f = d + 1 /\ l = n + 1 /\ f \in Int /\ l \in Int
    BY <1>6, <1>3
  <2>2. /\ SubSeq(all, f, l) \in Seq(S)
        /\ Len(SubSeq(all, f, l)) = IF f <= l THEN l - f + 1 ELSE 0
        /\ \A i \in 1 .. l - f + 1 : SubSeq(all, f, l)[i] = all[f + i - 1]
    BY <2>1, <1>8, SubSeqProperties
  <2>3. l - f + 1 = k /\ (IF f <= l THEN l - f + 1 ELSE 0) = k
        /\ \A i \in 1 .. k : f + i - 1 = d + i
    <3>1. n \in Nat /\ d \in Nat /\ d <= n /\ k = n + 1 - d
      BY <1>3, <1>6, <1>9
    <3> QED BY <2>1, <3>1
  <2> QED BY <2>1, <2>2, <2>3, <1>7
<1>d. PICK more : more = Append(turns, t)
  OBVIOUS
<1>11. /\ more \in Seq(S) /\ Len(more) = m + 1
       /\ \A i \in 1 .. m : more[i] = turns[i]
       /\ more[m + 1] = t
  BY <1>1, <1>d, AppendProperties
<1>12. k = IF m + 1 <= c THEN m + 1 ELSE c
  <2>1. CASE m < c
    <3>1. n = m /\ d = 0 /\ k = m + 1
      <4>1. n = m
        BY <2>1, <1>1, <1>2, <1>3
      <4>2. d = 0
        BY <4>1, <2>1, <1>1, <1>2, <1>6
      <4> QED BY <4>1, <4>2, <1>1, <1>9
    <3> QED BY <3>1, <2>1, <1>1, <1>2
  <2>2. CASE m >= c
    <3>1. n = c
      BY <2>2, <1>1, <1>2, <1>3
    <3>2. d = 1
      BY <3>1, <1>2, <1>6
    <3>3. k = c
      BY <3>1, <3>2, <1>2, <1>9
    <3> QED BY <3>3, <2>2, <1>1, <1>2
  <2> QED BY <2>1, <2>2, <1>1, <1>2
<1>13. /\ Newest(more) \in Seq(S) /\ Len(Newest(more)) = k
       /\ \A i \in 1 .. k : Newest(more)[i] = more[m + 1 - k + i]
  <2>1. PICK l : l = m + 1 /\ l = Len(more)
    BY <1>11
  <2>2. k = IF l <= Capacity THEN l ELSE Capacity
    BY <2>1, <1>2, <1>12
  <2>3. /\ Newest(more) \in Seq(S) /\ Len(Newest(more)) = k
        /\ \A i \in 1 .. k : Newest(more)[i] = more[l - k + i]
    <3>1. more \in Seq(S) /\ l = Len(more)
      BY <2>1, <1>11
    <3> QED BY <3>1, <2>2, NewestProperties
  <2> QED BY <2>1, <2>3, <1>1, <1>9
<1>14. ASSUME NEW i \in 1 .. k PROVE Push(log, t)[i] = Newest(more)[i]
  <2>1. PICK j : j = d + i /\ j \in 1 .. n + 1
    BY <1>3, <1>6, <1>9
  <2>2. PICK h : h = m + 1 - k + i /\ h \in 1 .. m + 1 /\ h = m - n + j
    <3>1. m + 1 - k = m - n + d
      <4>1. m \in Nat /\ n \in Nat /\ d \in Nat
        BY <1>1, <1>3, <1>6
      <4>2. k = n + 1 - d
        BY <1>9
      <4> QED BY <4>1, <4>2
    <3>2. k <= m + 1
      BY <1>1, <1>2, <1>12
    <3>3. PICK h : h = m + 1 - k + i /\ h \in Int
      BY <1>1, <1>9
    <3>4. h >= 1 /\ h <= m + 1
      BY <3>2, <3>3, <1>1, <1>9
    <3>5. h = m - n + j
      <4>1. m \in Nat /\ n \in Nat /\ d \in Nat /\ k \in Nat
        BY <1>1, <1>3, <1>6, <1>9
      <4> QED BY <4>1, <3>1, <3>3, <2>1
    <3> QED BY <3>3, <3>4, <3>5, <1>1
  <2>3. Push(log, t)[i] = all[j] /\ Newest(more)[i] = more[h]
    BY <1>10, <1>13, <2>1, <2>2
  <2>4. CASE j = n + 1
    <3>1. h = m + 1
      BY <2>2, <2>4, <1>1, <1>3
    <3> QED BY <2>3, <2>4, <3>1, <1>5, <1>11
  <2>5. CASE j \in 1 .. n
    <3>1. h \in 1 .. m
      BY <2>2, <2>5, <1>1, <1>3
    <3>2. all[j] = turns[h]
      BY <1>4, <1>5, <2>2, <2>5
    <3> QED BY <2>3, <3>1, <3>2, <1>11
  <2> QED BY <2>1, <2>4, <2>5, <1>3
<1> QED BY <1>a, <1>d, <1>10, <1>13, <1>14, SeqEqual

\* What is logged of a turn.
Logged == [profile : Nat, path : {cost.path : cost \in Costs},
           body : {cost.body : cost \in Costs}, wire : {cost.wire : cost \in Costs}]

\* Turns that are open become turns that are logged, so both together have a bound.
CInv ==
  /\ IsFiniteSet(open) /\ (\A t \in open : t.profile \in Nat)
  /\ past \in Seq(Logged) /\ ring = Newest(past)
  /\ Cardinality(open) + Len(past) <= MaxTurns

\* Nothing is open, logged or shown.
LEMMA ConsoleEmpty ==
  ASSUME open' = {}, ring' = <<>>, past' = <<>>
  PROVE  CInv'
<1>1. IsFiniteSet({}) /\ Cardinality({}) = 0
  BY FS_EmptySet
<1>2. <<>> \in Seq(Logged) /\ Len(<<>>) = 0
  BY EmptySeq
<1>4. Newest(past') = <<>>
  BY NewestOfNone
<1>5. Newest(past') = Newest(past)'
  BY DEF Newest, Capacity
<1>6. MaxTurns \in Nat /\ MaxTurns' = MaxTurns
  BY ProcessAssumption
<1> QED BY <1>1, <1>2, <1>4, <1>5, <1>6 DEF CInv

\* A turn begins while the history has room for it.
LEMMA BeginKeepsConsole == ASSUME XInv, CInv, Begin PROVE CInv'
<1>0. PICK i \in DOMAIN tasks :
        \E t : t.profile = EffectiveProfiles(cfg)[i].name /\ open' = open \cup {t}
  BY DEF Begin
<1>1. PICK t : t.profile = EffectiveProfiles(cfg)[i].name /\ open' = open \cup {t}
  BY <1>0
<1>2. t.profile \in Nat
  <2>1. main = "run" /\ cfg.role = "local"
    BY DEF Begin, Local
  <2> QED BY <1>1, <2>1 DEF XInv, Named
<1>3. UNCHANGED <<past, ring>> /\ Cardinality(open) + Len(past) < MaxTurns
  BY DEF Begin
<1>4. PICK n, m : n = Cardinality(open) /\ m = Len(past) /\ n \in Nat /\ m \in Nat
  BY LenProperties, FS_CardinalityType DEF CInv
<1>5. IsFiniteSet(open') /\ Cardinality(open') \in {n, n + 1}
  BY <1>1, <1>4, FS_AddElement DEF CInv
<1>6. Cardinality(open') + Len(past') <= MaxTurns
  BY <1>3, <1>4, <1>5, ProcessAssumption
<1>7. \A u \in open' : u.profile \in Nat
  BY <1>1, <1>2 DEF CInv
<1>8. past' \in Seq(Logged) /\ ring' = Newest(past)
  BY <1>3 DEF CInv
<1> QED BY <1>3, <1>5, <1>6, <1>7, <1>8 DEF CInv

\* A turn that is logged is no longer open.
LEMMA LogKeepsConsole == ASSUME CInv, Log PROVE CInv'
<1>1. PICK t \in open, cost \in Costs :
        LET turn == [profile |-> t.profile, path |-> cost.path,
                     body |-> cost.body, wire |-> cost.wire]
        IN  /\ open' = open \ {t} /\ ring' = Push(ring, turn) /\ past' = Append(past, turn)
  BY DEF Log
<1>2. PICK turn : /\ turn = [profile |-> t.profile, path |-> cost.path,
                             body |-> cost.body, wire |-> cost.wire]
                  /\ ring' = Push(ring, turn) /\ past' = Append(past, turn)
  BY <1>1
<1>3. turn \in Logged
  BY <1>1, <1>2 DEF CInv, Logged
<1>4. PICK n, m : n = Cardinality(open) /\ m = Len(past) /\ n \in Nat /\ m \in Nat
  BY LenProperties, FS_CardinalityType DEF CInv
<1>5. IsFiniteSet(open') /\ Cardinality(open') = n - 1
  BY <1>1, <1>4, FS_RemoveElement DEF CInv
<1>6. past' \in Seq(Logged) /\ Len(past') = m + 1
  BY <1>2, <1>3, <1>4, AppendProperties DEF CInv
<1>7. Cardinality(open') + Len(past') <= MaxTurns
  BY <1>4, <1>5, <1>6, ProcessAssumption DEF CInv
<1>8. ring' = Newest(past')
  BY <1>2, <1>3, PushKeepsNewest DEF CInv
<1>9. \A u \in open' : u.profile \in Nat
  BY <1>1 DEF CInv
<1>10. Newest(past') = Newest(past)'
  BY DEF Newest, Capacity
<1> QED BY <1>5, <1>6, <1>7, <1>8, <1>9, <1>10 DEF CInv

\* All steps together.
LEMMA ConsoleStep == XInv /\ CInv /\ [Next]_vars => CInv'
<1> SUFFICES ASSUME XInv, CInv, [Next]_vars PROVE CInv'
  OBVIOUS
<1>1. ASSUME UNCHANGED <<open, ring, past>> PROVE CInv'
  BY <1>1 DEF CInv, Newest, Capacity
<1>2. ASSUME Vanish PROVE CInv'
  <2>1. open' = {} /\ ring' = <<>> /\ past' = <<>>
    BY <1>2 DEF Vanish
  <2> QED BY <2>1, ConsoleEmpty
<1>3. ASSUME Drop PROVE CInv'
  <2>1. PICK t \in open : open' = open \ {t} /\ UNCHANGED <<ring, past>>
    BY <1>3 DEF Drop
  <2>2. PICK n, m : n = Cardinality(open) /\ m = Len(past) /\ n \in Nat /\ m \in Nat
    BY LenProperties, FS_CardinalityType DEF CInv
  <2>3. IsFiniteSet(open') /\ Cardinality(open') = n - 1
    BY <2>1, <2>2, FS_RemoveElement DEF CInv
  <2>4. Cardinality(open') + Len(past') <= MaxTurns
    BY <2>1, <2>2, <2>3, ProcessAssumption DEF CInv
  <2> QED BY <2>1, <2>3, <2>4 DEF CInv, Newest, Capacity
<1>4. ASSUME \/ Start \/ LoadKeys \/ Listen \/ AcceptFails \/ Interrupt \/ Await \/ Copy
             \/ Switch \/ UNCHANGED vars
      PROVE  UNCHANGED <<open, ring, past>>
  BY <1>4 DEF Start, LoadKeys, Listen, AcceptFails, Interrupt, Await, Copy, Switch, vars, hub
<1> QED
  BY <1>1, <1>2, <1>3, <1>4, BeginKeepsConsole, LogKeepsConsole DEF Next

\* The phase of the process, and the listener it waits for.
PInv ==
  /\ main \in {"off", "keys", "run", "ok", "error"}
  /\ tasks # <<>> => awaited \in DOMAIN tasks

\* run_local waits for the first of its listeners, then for the next, never past the last.
LEMMA PhaseStep == XInv /\ PInv /\ [Next]_vars => PInv'
<1> SUFFICES ASSUME XInv, PInv, [Next]_vars PROVE PInv'
  OBVIOUS
<1>1. ASSUME NEW s \in Seq(States), s # <<>> PROVE 1 \in DOMAIN s
  <2>1. PICK n : n = Len(s) /\ n \in Nat /\ DOMAIN s = 1 .. n
    BY LenProperties
  <2>2. n # 0
    BY <2>1, <1>1, EmptySeq
  <2> QED BY <2>1, <2>2
<1>2. ASSUME Start \/ LoadKeys PROVE PInv'
  <2>1. awaited' = 1 /\ main' \in {"off", "keys", "run", "ok", "error"}
    BY <1>2 DEF Start, LoadKeys, XInv, PInv
  <2>2. tasks' \in Seq(States)
    BY <1>2, StartListens, LoadListens DEF XInv
  <2> QED BY <2>1, <2>2, <1>1 DEF PInv
<1>3. ASSUME Listen \/ AcceptFails \/ Interrupt PROVE PInv'
  <2>1. UNCHANGED <<main, awaited>>
    BY <1>3 DEF Listen, AcceptFails, Interrupt
  <2>2. DOMAIN tasks' = DOMAIN tasks
    BY <1>3 DEF Listen, AcceptFails, Interrupt, Waken, Bind, Wait, Ends, Becomes
  <2>3. tasks' # <<>> => tasks # <<>>
    <3>1. tasks = <<>> => DOMAIN tasks' = {}
      BY <2>2
    <3>2. tasks' \in Seq(States)
      BY <1>3, ListenersMove, InterruptWakes DEF XInv
    <3> QED BY <3>1, <3>2, <1>1
  <2> QED BY <2>1, <2>2, <2>3 DEF PInv
<1>4. ASSUME Await PROVE PInv'
  <2>1. UNCHANGED tasks /\ main' \in {main, "ok", "error"}
    BY <1>4 DEF Await, AwaitTask
  <2>2. CASE UNCHANGED awaited
    BY <2>1, <2>2 DEF PInv
  <2>3. CASE awaited < Len(tasks) /\ awaited' = awaited + 1
    <3>1. PICK n : n = Len(tasks) /\ n \in Nat /\ DOMAIN tasks = 1 .. n
      BY LenProperties DEF XInv
    <3>2. awaited' \in 1 .. n
      BY <2>3, <3>1 DEF XInv
    <3> QED BY <2>1, <3>1, <3>2 DEF PInv
  <2> QED BY <1>4, <2>2, <2>3 DEF Await, AwaitTask
<1>5. ASSUME Vanish PROVE PInv'
  BY <1>5 DEF Vanish, PInv
<1>6. ASSUME Copy \/ Begin \/ Log \/ Drop \/ Switch \/ UNCHANGED vars PROVE PInv'
  <2>1. UNCHANGED life
    BY <1>6 DEF Copy, Begin, Log, Drop, Switch, vars
  <2> QED BY <2>1 DEF life, PInv
<1> QED BY <1>2, <1>3, <1>4, <1>5, <1>6 DEF Next

\* All that is kept together.
LEMMA ProcessStart == Init => XInv /\ CInv /\ PInv
<1> SUFFICES ASSUME Init PROVE XInv /\ CInv /\ PInv
  OBVIOUS
<1>1. XInv /\ PInv
  BY EmptySeq DEF Init, XInv, PInv
<1>2. open = {} /\ ring = <<>> /\ past = <<>>
  BY DEF Init
<1>3. IsFiniteSet({}) /\ Cardinality({}) = 0
  BY FS_EmptySet
<1>4. <<>> \in Seq(Logged) /\ Len(<<>>) = 0
  BY EmptySeq
<1> QED BY <1>1, <1>2, <1>3, <1>4, NewestOfNone, ProcessAssumption DEF CInv

\* The phases, the listener waited for and the limits of the ring and of the history
\* hold of every process, whatever it is started with and however long it runs.
THEOREM ProcessTypeCorrect == Spec => []TypeOK
<1>1. CInv => Len(ring) <= Capacity
  BY CapacityIsPositive, NewestProperties DEF CInv
<1>2. XInv => \A i \in DOMAIN tasks :
                tasks[i] \in {"spawned", "unbound", "bound", "waiting", "woken", "ended",
                              "failed"}
  BY LenProperties DEF XInv, States
<1>3. XInv /\ CInv /\ PInv => TypeOK
  BY <1>1, <1>2 DEF CInv, PInv, TypeOK
<1> QED BY <1>3, ProcessStart, ListenersStep, ConsoleStep, PhaseStep, PTL DEF Spec

\* The console tells of the last turns of the run, in order and without a gap,
\* for every capacity and every number of turns (metrics.rs, TurnLog::push).
THEOREM ConsoleNeverForgets == Spec => []ConsoleTellsLast
<1>1. CInv => ConsoleTellsLast
  BY DEF CInv, ConsoleTellsLast
<1> QED BY <1>1, ProcessStart, ListenersStep, ConsoleStep, PTL DEF Spec
-----------------------------------------------------------------------------
(* The tables: numbers, sums and orders                                     *)

\* A set of numbers that is not empty has a least one.
LEMMA LeastNumber ==
  ASSUME NEW T \in SUBSET Nat, T # {}
  PROVE  \E m \in T : \A k \in T : m <= k
<1>1. PICK m \in T : \A k \in T : ~ (<<k, m>> \in OpToRel(<, Nat))
  BY NatLessThanWellFounded, WFMin
<1>2. \A k \in T : ~ (k < m)
  BY <1>1 DEF OpToRel
<1> QED BY <1>2

\* Induction up to n, with a set in place of a predicate.
LEMMA UpTo ==
  ASSUME NEW n \in Nat, NEW Good, 0 \in Good,
         \A k \in 0 .. n - 1 : k \in Good => k + 1 \in Good
  PROVE  \A k \in 0 .. n : k \in Good
<1> DEFINE Bads == {k \in 0 .. n : k \notin Good}
<1>1. ASSUME Bads # {} PROVE FALSE
  <2>1. PICK m \in Bads : \A k \in Bads : m <= k
    <3> Bads \in SUBSET Nat
      OBVIOUS
    <3> HIDE DEF Bads
    <3> QED BY <1>1, LeastNumber
  <2>2. m \in 0 .. n /\ m # 0
    OBVIOUS
  <2>3. m - 1 \in 0 .. n - 1 /\ m - 1 \notin Bads
    BY <2>1, <2>2
  <2>4. m - 1 \in Good
    BY <2>2, <2>3
  <2> QED BY <2>2, <2>3, <2>4
<1> QED BY <1>1

\* The partial sums of t.
Sums(s, t, n) == s[0] = 0 /\ \A k \in 0 .. n - 1 : s[k + 1] = s[k] + t[k + 1]

\* There are partial sums.
LEMMA SumsExist ==
  ASSUME NEW n \in Nat, NEW t \in [1 .. n -> Nat]
  PROVE  \E s \in [0 .. n -> Nat] : Sums(s, t, n)
<1> DEFINE Good == {m \in 0 .. n : \E s \in [0 .. m -> Nat] : Sums(s, t, m)}
<1>1. 0 \in Good
  <2>1. PICK s : s = [k \in 0 .. 0 |-> 0]
    OBVIOUS
  <2>2. s \in [0 .. 0 -> Nat] /\ Sums(s, t, 0)
    BY <2>1 DEF Sums
  <2>3. 0 \in 0 .. n
    OBVIOUS
  <2> QED BY <2>2, <2>3
<1>2. ASSUME NEW m \in 0 .. n - 1, m \in Good PROVE m + 1 \in Good
  <2>1. PICK s \in [0 .. m -> Nat] : Sums(s, t, m)
    BY <1>2
  <2>2. PICK u : u = [k \in 0 .. m + 1 |-> IF k = m + 1 THEN s[m] + t[m + 1] ELSE s[k]]
    OBVIOUS
  <2>3. s[m] \in Nat /\ t[m + 1] \in Nat
    OBVIOUS
  <2>4. u \in [0 .. m + 1 -> Nat] /\ u[0] = 0
    BY <2>1, <2>2, <2>3 DEF Sums
  <2>5. ASSUME NEW k \in 0 .. m PROVE u[k + 1] = u[k] + t[k + 1]
    <3>1. CASE k = m
      BY <2>2, <3>1
    <3>2. CASE k # m
      <4>1. k \in 0 .. m - 1 /\ u[k + 1] = s[k + 1] /\ u[k] = s[k]
        BY <2>2, <3>2
      <4> QED BY <2>1, <4>1 DEF Sums
    <3> QED BY <3>1, <3>2
  <2>6. m + 1 \in 0 .. n /\ Sums(u, t, m + 1)
    BY <2>4, <2>5 DEF Sums
  <2> QED BY <2>4, <2>6
<1>3. \A m \in 0 .. n : m \in Good
  <2> HIDE DEF Good
  <2> QED BY <1>1, <1>2, UpTo
<1>4. n \in Good
  <2> HIDE DEF Good
  <2>1. n \in 0 .. n
    OBVIOUS
  <2> QED BY <1>3, <2>1
<1> QED BY <1>4

\* Sum is the last of them.
LEMMA SumIs ==
  ASSUME NEW n \in Nat, NEW t \in [1 .. n -> Nat]
  PROVE  /\ Sum(t) \in Nat
         /\ \E s \in [0 .. n -> Nat] : Sums(s, t, n) /\ Sum(t) = s[n]
<1> DEFINE Is(s) == s = [k \in 0 .. n |-> IF k = 0 THEN 0 ELSE s[k - 1] + t[k]]
<1>1. PICK g \in [0 .. n -> Nat] : Sums(g, t, n)
  BY SumsExist
<1>2. Is(g)
  <2>1. \A k \in 1 .. n : g[k] = g[k - 1] + t[k]
    <3> TAKE k \in 1 .. n
    <3>1. PICK j \in 0 .. n - 1 : k = j + 1
      OBVIOUS
    <3>2. g[j + 1] = g[j] + t[j + 1]
      BY <1>1 DEF Sums
    <3> QED BY <3>1, <3>2
  <2> QED BY <1>1, <2>1 DEF Sums
<1>3. PICK s : s = CHOOSE f : Is(f)
  OBVIOUS
<1>4. Is(s)
  BY <1>2, <1>3
<1>5. Len(t) = n
  OBVIOUS
<1>6. Sum(t) = s[n]
  BY <1>3, <1>5 DEF Sum
<1>7. \A k \in 0 .. n : k \in {j \in 0 .. n : s[j] \in Nat}
  <2> DEFINE Good == {j \in 0 .. n : s[j] \in Nat}
  <2>1. 0 \in Good
    BY <1>4
  <2>2. ASSUME NEW k \in 0 .. n - 1, k \in Good PROVE k + 1 \in Good
    <3>1. s[k + 1] = s[k] + t[k + 1]
      BY <1>4
    <3>2. t[k + 1] \in Nat /\ s[k] \in Nat
      BY <2>2
    <3> QED BY <3>1, <3>2
  <2> HIDE DEF Good
  <2>3. \A k \in 0 .. n : k \in Good
    BY <2>1, <2>2, UpTo
  <2> QED BY <2>3 DEF Good
<1>8. s = [k \in 0 .. n |-> s[k]]
  BY <1>4
<1>9. s \in [0 .. n -> Nat]
  BY <1>7, <1>8
<1>10. Sums(s, t, n)
  BY <1>4 DEF Sums
<1> QED BY <1>6, <1>9, <1>10

\* Nothing adds up to nothing, and ones to how many there are.
LEMMA SumOfSame ==
  ASSUME NEW n \in Nat, NEW c \in {0, 1}, NEW t, t = [k \in 1 .. n |-> c]
  PROVE  Sum(t) = IF c = 0 THEN 0 ELSE n
<1>1. t \in [1 .. n -> Nat]
  OBVIOUS
<1>2. PICK s \in [0 .. n -> Nat] : Sums(s, t, n) /\ Sum(t) = s[n]
  BY <1>1, SumIs
<1> DEFINE Good == {k \in 0 .. n : s[k] = IF c = 0 THEN 0 ELSE k}
<1>3. 0 \in Good
  BY <1>2 DEF Sums
<1>4. ASSUME NEW k \in 0 .. n - 1, k \in Good PROVE k + 1 \in Good
  <2>1. s[k + 1] = s[k] + c
    BY <1>2 DEF Sums
  <2> QED BY <1>4, <2>1
<1> HIDE DEF Good
<1>5. \A k \in 0 .. n : k \in Good
  BY <1>3, <1>4, UpTo
<1> QED BY <1>2, <1>5 DEF Good

\* One term that grows lets the sum grow by as much.
LEMMA SumGrows ==
  ASSUME NEW n \in Nat, NEW t \in [1 .. n -> Nat], NEW u \in [1 .. n -> Nat],
         NEW m \in 1 .. n, NEW d \in Nat, u[m] = t[m] + d,
         \A k \in 1 .. n : k # m => u[k] = t[k]
  PROVE  Sum(u) = Sum(t) + d
<1>1. PICK s \in [0 .. n -> Nat] : Sums(s, t, n) /\ Sum(t) = s[n]
  BY SumIs
<1>2. PICK v \in [0 .. n -> Nat] : Sums(v, u, n) /\ Sum(u) = v[n]
  BY SumIs
<1> DEFINE Good == {k \in 0 .. n : v[k] = s[k] + (IF k < m THEN 0 ELSE d)}
<1>3. 0 \in Good
  BY <1>1, <1>2 DEF Sums
<1>4. ASSUME NEW k \in 0 .. n - 1, k \in Good PROVE k + 1 \in Good
  <2>1. k + 1 \in 1 .. n /\ s[k] \in Nat /\ t[k + 1] \in Nat
    OBVIOUS
  <2>2. v[k + 1] = v[k] + u[k + 1] /\ s[k + 1] = s[k] + t[k + 1]
    BY <1>1, <1>2 DEF Sums
  <2>3. PICK a \in Nat, b \in Nat : a = s[k] /\ b = t[k + 1]
    BY <2>1
  <2>4. s[k + 1] = a + b /\ v[k] = a + (IF k < m THEN 0 ELSE d)
    BY <1>4, <2>2, <2>3
  <2>5. u[k + 1] = IF k + 1 = m THEN b + d ELSE b
    BY <2>1, <2>3
  <2>6. v[k + 1] = (a + (IF k < m THEN 0 ELSE d)) + (IF k + 1 = m THEN b + d ELSE b)
    BY <2>2, <2>4, <2>5
  <2>7. v[k + 1] = (a + b) + (IF k + 1 < m THEN 0 ELSE d)
    <3>1. CASE k + 1 = m
      BY <2>6, <3>1
    <3>2. CASE k + 1 < m
      BY <2>6, <3>2
    <3>3. CASE k + 1 > m
      BY <2>6, <3>3
    <3> QED BY <3>1, <3>2, <3>3
  <2>8. v[k + 1] = s[k + 1] + (IF k + 1 < m THEN 0 ELSE d)
    BY <2>4, <2>7
  <2>9. k + 1 \in 0 .. n
    BY <2>1
  <2> QED BY <2>8, <2>9
<1> HIDE DEF Good
<1>5. \A k \in 0 .. n : k \in Good
  BY <1>3, <1>4, UpTo
<1> QED BY <1>1, <1>2, <1>5 DEF Good

\* What is in the terms whose key is c.
OfKey(ks, c, w) == [k \in DOMAIN w |-> IF ks[k] = c THEN w[k] ELSE 0]

\* What the rows' terms add up to is what all terms add up to.
RowsAddUp(ks, w, row, r) == Sum([l \in 1 .. r |-> Sum(OfKey(ks, row[l], w))]) = Sum(w)

\* Terms sorted by their keys add up to all of them: each term has a key, and no
\* key is counted twice.
LEMMA TableAddsUp ==
  ASSUME NEW n \in Nat, NEW w \in [1 .. n -> Nat], NEW ks,
         NEW r \in Nat, NEW row, \A k, l \in 1 .. r : row[k] = row[l] => k = l,
         \A k \in 1 .. n : \E l \in 1 .. r : row[l] = ks[k]
  PROVE  RowsAddUp(ks, w, row, r)
<1>1. \A l \in 1 .. r : OfKey(ks, row[l], w) \in [1 .. n -> Nat]
  BY DEF OfKey
<1>2. PICK s \in [0 .. n -> Nat] : Sums(s, w, n) /\ Sum(w) = s[n]
  BY SumIs
<1> DEFINE Part(l, p) == /\ p \in [0 .. n -> Nat] /\ Sums(p, OfKey(ks, row[l], w), n)
                         /\ Sum(OfKey(ks, row[l], w)) = p[n]
<1>3. \A l \in 1 .. r : \E p : Part(l, p)
  BY <1>1, SumIs
<1>4. PICK q : q = [l \in 1 .. r |-> CHOOSE p : Part(l, p)]
  OBVIOUS
<1>5. \A l \in 1 .. r : Part(l, q[l])
  <2> HIDE DEF Part
  <2> QED BY <1>3, <1>4
<1> DEFINE Parts(k) == [l \in 1 .. r |-> q[l][k]]
           Good == {k \in 0 .. n : Sum(Parts(k)) = s[k]}
<1>6. \A k \in 0 .. n : Parts(k) \in [1 .. r -> Nat]
  BY <1>5
<1>7. 0 \in Good
  <2>1. Parts(0) = [l \in 1 .. r |-> 0]
    BY <1>5 DEF Sums
  <2>2. Sum([l \in 1 .. r |-> 0]) = 0
    BY SumOfSame
  <2>3. s[0] = 0 /\ 0 \in 0 .. n
    BY <1>2 DEF Sums
  <2> HIDE DEF Parts
  <2> QED BY <2>1, <2>2, <2>3
<1>8. ASSUME NEW k \in 0 .. n - 1, k \in Good PROVE k + 1 \in Good
  <2>1. k + 1 \in 1 .. n /\ k \in 0 .. n /\ k + 1 \in 0 .. n /\ (k + 1) - 1 = k
    OBVIOUS
  <2>2. PICK m \in 1 .. r : row[m] = ks[k + 1]
    BY <2>1
  <2>3. PICK d \in Nat : d = w[k + 1]
    BY <2>1
  <2>4. \A l \in 1 .. r : q[l][k + 1] = q[l][k] + OfKey(ks, row[l], w)[k + 1]
    BY <1>5, <2>1 DEF Sums
  <2>5. \A l \in 1 .. r : OfKey(ks, row[l], w)[k + 1] = IF l = m THEN d ELSE 0
    BY <2>1, <2>2, <2>3 DEF OfKey
  <2>6. PICK f : f = Parts(k)
    OBVIOUS
  <2>7. PICK g : g = Parts(k + 1)
    OBVIOUS
  <2>8. f \in [1 .. r -> Nat] /\ g \in [1 .. r -> Nat]
    <3> HIDE DEF Parts
    <3> QED BY <1>6, <2>1, <2>6, <2>7
  <2>9. \A l \in 1 .. r : g[l] = f[l] + IF l = m THEN d ELSE 0
    BY <2>4, <2>5, <2>6, <2>7
  <2>10. Sum(g) = Sum(f) + d
    <3>1. g[m] = f[m] + d
      BY <2>9
    <3>2. \A l \in 1 .. r : l # m => g[l] = f[l]
      BY <2>8, <2>9
    <3> QED BY <2>8, <3>1, <3>2, SumGrows
  <2>11. s[k + 1] = s[k] + d
    BY <1>2, <2>1, <2>3 DEF Sums
  <2>12. Sum(f) = s[k]
    BY <1>8, <2>6
  <2> QED BY <2>1, <2>7, <2>10, <2>11, <2>12
<1>9. \A k \in 0 .. n : k \in Good
  <2> HIDE DEF Good
  <2> QED BY <1>7, <1>8, UpTo
<1>10. Parts(n) = [l \in 1 .. r |-> Sum(OfKey(ks, row[l], w))]
  BY <1>5
<1>11. Sum(Parts(n)) = s[n]
  BY <1>9
<1> HIDE DEF Parts
<1> QED BY <1>2, <1>10, <1>11 DEF RowsAddUp

\* Of a finite set there is one that comes before no other it comes after.
LEMMA FirstExists ==
  ASSUME NEW S, IsFiniteSet(S), S # {}, NEW P,
         \A a \in S : <<a, a>> \notin P,
         \A a, b, c \in S : <<a, b>> \in P /\ <<b, c>> \in P => <<a, c>> \in P
  PROVE  \E d \in S : \A e \in S : <<e, d>> \notin P
<1> DEFINE Prior(d) == {e \in S : <<e, d>> \in P}
           T == {Prior(d) : d \in S}
           R == StrictSubsetOrdering(S)
<1>1. IsWellFoundedOn(R, FiniteSubsetsOf(S))
  BY FS_StrictSubsetOrderingWellFounded
<1>2. T \subseteq FiniteSubsetsOf(S) /\ T # {}
  <2>1. FiniteSubsetsOf(S) = SUBSET S
    BY FS_FiniteSubsetsOfFinite
  <2>2. \A d \in S : Prior(d) \in SUBSET S
    OBVIOUS
  <2> HIDE DEF Prior
  <2> QED BY <2>1, <2>2
<1>3. PICK B \in T : \A C \in T : <<C, B>> \notin R
  BY <1>1, <1>2, WFMin
<1>4. PICK d \in S : B = Prior(d)
  BY <1>3
<1>5. ASSUME NEW e \in S, <<e, d>> \in P
      PROVE  FALSE
  <2>1. Prior(e) \subseteq Prior(d) /\ e \in Prior(d) /\ e \notin Prior(e)
    BY <1>5
  <2>2. <<Prior(e), Prior(d)>> \in R
    BY <2>1 DEF StrictSubsetOrdering
  <2> QED BY <2>2, <1>3, <1>4
<1> QED BY <1>5

\* The first m of an order, one after the other.
InOrderOf(s, P, m) == \A k, l \in 1 .. m : k < l => <<s[k], s[l]>> \in P

\* A finite set with a strict order can be written in that order.
LEMMA SortedExists ==
  ASSUME NEW S, IsFiniteSet(S), NEW P,
         \A a \in S : <<a, a>> \notin P,
         \A a, b \in S : a # b => <<a, b>> \in P \/ <<b, a>> \in P,
         \A a, b, c \in S : <<a, b>> \in P /\ <<b, c>> \in P => <<a, c>> \in P
  PROVE  \E s \in [1 .. Cardinality(S) -> S] : InOrderOf(s, P, Cardinality(S))
<1>1. PICK n \in Nat : n = Cardinality(S)
  BY FS_CardinalityType
<1> DEFINE Listed(T, m) == \E s \in [1 .. m -> T] : InOrderOf(s, P, m)
           Good == {m \in 0 .. n : \A T \in SUBSET S : Cardinality(T) = m => Listed(T, m)}
<1>2. 0 \in Good
  <2> SUFFICES ASSUME NEW T \in SUBSET S PROVE Listed(T, 0)
    OBVIOUS
  <2>1. PICK s : s = [k \in 1 .. 0 |-> {}]
    OBVIOUS
  <2>2. s \in [1 .. 0 -> T] /\ InOrderOf(s, P, 0)
    BY <2>1 DEF InOrderOf
  <2> QED BY <2>2
<1>3. ASSUME NEW m \in 0 .. n - 1, m \in Good PROVE m + 1 \in Good
  <2> SUFFICES ASSUME NEW T \in SUBSET S, Cardinality(T) = m + 1 PROVE Listed(T, m + 1)
    OBVIOUS
  <2>1. IsFiniteSet(T) /\ T # {}
    BY FS_Subset, FS_EmptySet
  <2>2. PICK d \in T : \A e \in T : <<e, d>> \notin P
    BY <2>1, FirstExists
  <2>3. PICK U : U = T \ {d}
    OBVIOUS
  <2>4. U \in SUBSET S /\ Cardinality(U) = m
    <3>1. Cardinality(T \ {d}) = Cardinality(T) - 1
      BY <2>1, FS_RemoveElement
    <3>2. (m + 1) - 1 = m
      OBVIOUS
    <3> QED BY <2>3, <3>1, <3>2
  <2>5. PICK u \in [1 .. m -> U] : InOrderOf(u, P, m)
    BY <1>3, <2>4
  <2>6. PICK s : s = [k \in 1 .. m + 1 |-> IF k = 1 THEN d ELSE u[k - 1]]
    OBVIOUS
  <2>7. \A k \in 2 .. m + 1 : k - 1 \in 1 .. m /\ s[k] = u[k - 1] /\ s[k] \in T /\ s[k] # d
    <3> TAKE k \in 2 .. m + 1
    <3>1. k - 1 \in 1 .. m /\ s[k] = u[k - 1]
      BY <2>6
    <3>2. u[k - 1] \in U
      BY <3>1
    <3> QED BY <3>1, <3>2, <2>3
  <2>8. s[1] = d
    BY <2>6
  <2>9. s \in [1 .. m + 1 -> T]
    <3>1. \A k \in 1 .. m + 1 : s[k] \in T
      BY <2>7, <2>8
    <3> QED BY <2>6, <3>1
  <2>10. ASSUME NEW k \in 1 .. m + 1, NEW l \in 1 .. m + 1, k < l
         PROVE  <<s[k], s[l]>> \in P
    <3>1. l \in 2 .. m + 1
      BY <2>10
    <3>2. CASE k = 1
      <4>1. s[l] \in T /\ s[l] # d /\ s[k] = d
        BY <2>7, <2>8, <3>1, <3>2
      <4>2. s[l] \in S /\ d \in S /\ <<s[l], d>> \notin P
        BY <2>2, <4>1
      <4> QED BY <4>1, <4>2
    <3>3. CASE k # 1
      <4>1. k - 1 \in 1 .. m /\ l - 1 \in 1 .. m /\ k - 1 < l - 1
        BY <2>10, <3>1, <3>3
      <4>2. s[k] = u[k - 1] /\ s[l] = u[l - 1]
        BY <2>7, <3>1, <3>3
      <4> QED BY <2>5, <4>1, <4>2 DEF InOrderOf
    <3> QED BY <3>2, <3>3
  <2>11. InOrderOf(s, P, m + 1)
    BY <2>10 DEF InOrderOf
  <2> QED BY <2>9, <2>11
<1>4. \A m \in 0 .. n : m \in Good
  <2> HIDE DEF Good
  <2> QED BY <1>2, <1>3, UpTo
<1>5. n \in Good
  <2> HIDE DEF Good
  <2>1. n \in 0 .. n
    OBVIOUS
  <2> QED BY <1>4, <2>1
<1> QED BY <1>1, <1>5

-----------------------------------------------------------------------------
(* The tables of the console                                                *)

\* A table of turns: what their keys are.
KeysOf(turns, field) == [k \in DOMAIN turns |-> turns[k][field]]
Ones(turns) == [k \in DOMAIN turns |-> 1]
RowsOf(turns, field) == {Row(turns, field, turns[k][field]) : k \in DOMAIN turns}

\* What is logged has a key of both kinds, and amounts.
LEMMA LoggedIs ==
  ASSUME NEW turns \in Seq(Logged), NEW field \in {"path", "profile"}
  PROVE  \E n \in Nat :
           /\ n = Len(turns) /\ DOMAIN turns = 1 .. n
           /\ KeysOf(turns, field) \in [1 .. n -> Nat] /\ Ones(turns) \in [1 .. n -> Nat]
           /\ Column(turns, "body") \in [1 .. n -> Nat]
           /\ Column(turns, "wire") \in [1 .. n -> Nat]
<1>1. PICK n \in Nat : n = Len(turns) /\ DOMAIN turns = 1 .. n
  BY LenProperties
<1>2. \A k \in 1 .. n : turns[k] \in Logged
  BY <1>1, ElementOfSeq
<1>3. \A t \in Logged : t["path"] \in Nat /\ t["profile"] \in Nat
                        /\ t["body"] \in Nat /\ t["wire"] \in Nat
  BY CostAssumption DEF Logged
<1>4. \A k \in 1 .. n : turns[k][field] \in Nat /\ turns[k]["body"] \in Nat
                        /\ turns[k]["wire"] \in Nat
  BY <1>2, <1>3
<1> QED BY <1>1, <1>4 DEF KeysOf, Ones, Column

\* A row is of its key, and its numbers are sums.
LEMMA RowIs ==
  ASSUME NEW turns \in Seq(Logged), NEW field \in {"path", "profile"}, NEW c
  PROVE  Row(turns, field, c) =
           [key |-> c, requests |-> Sum(OfKey(KeysOf(turns, field), c, Ones(turns))),
            body |-> Sum(OfKey(KeysOf(turns, field), c, Column(turns, "body"))),
            wire |-> Sum(OfKey(KeysOf(turns, field), c, Column(turns, "wire")))]
<1>1. ASSUME NEW w, DOMAIN w = DOMAIN turns
      PROVE  OfKey(KeysOf(turns, field), c, w)
               = [k \in DOMAIN turns |-> IF turns[k][field] = c THEN w[k] ELSE 0]
  BY <1>1 DEF OfKey, KeysOf
<1>2. /\ DOMAIN Ones(turns) = DOMAIN turns
      /\ DOMAIN Column(turns, "body") = DOMAIN turns
      /\ DOMAIN Column(turns, "wire") = DOMAIN turns
  BY DEF Ones, Column
<1>3. /\ OfKey(KeysOf(turns, field), c, Ones(turns))
           = [k \in DOMAIN turns |-> IF turns[k][field] = c THEN Ones(turns)[k] ELSE 0]
      /\ OfKey(KeysOf(turns, field), c, Column(turns, "body"))
           = [k \in DOMAIN turns |-> IF turns[k][field] = c THEN Column(turns, "body")[k] ELSE 0]
      /\ OfKey(KeysOf(turns, field), c, Column(turns, "wire"))
           = [k \in DOMAIN turns |-> IF turns[k][field] = c THEN Column(turns, "wire")[k] ELSE 0]
  BY <1>1, <1>2
<1> QED BY <1>3 DEF Row, Ones

\* The larger of a difference and nothing.
LEMMA SavedIs ==
  ASSUME NEW row, row.body \in Nat, row.wire \in Nat
  PROVE  Saved(row) \in Nat
<1>1. PICK d \in Int : d = row.body - row.wire
  OBVIOUS
<1>2. Max({d, 0}) = IF d >= 0 THEN d ELSE 0
  BY MaxOfTwo
<1> QED BY <1>1, <1>2 DEF Saved

\* The r rows of a table: in the console's order, and all of them.
IsTable(rows, turns, field, r) ==
  /\ rows \in [1 .. r -> RowsOf(turns, field)]
  /\ \A k, l \in 1 .. r : k < l => rows[k] # rows[l] /\ Before(rows[k], rows[l])
  /\ \A x \in RowsOf(turns, field) : \E l \in 1 .. r : rows[l] = x
  /\ \A x \in RowsOf(turns, field) : /\ x.key \in Nat /\ Saved(x) \in Nat
                                     /\ x = Row(turns, field, x.key)

\* The rows of a table are sorted as the console wants them, and are all of them.
LEMMA TableSorted ==
  ASSUME NEW turns \in Seq(Logged), NEW field \in {"path", "profile"},
         NEW rows, rows = Buckets(turns, field)
  PROVE  \E r \in Nat : IsTable(rows, turns, field, r)
<1>1. PICK n \in Nat :
        /\ n = Len(turns) /\ DOMAIN turns = 1 .. n
        /\ KeysOf(turns, field) \in [1 .. n -> Nat] /\ Ones(turns) \in [1 .. n -> Nat]
        /\ Column(turns, "body") \in [1 .. n -> Nat]
        /\ Column(turns, "wire") \in [1 .. n -> Nat]
  BY LoggedIs
<1>2. \A k \in 1 .. n : turns[k][field] \in Nat
  BY <1>1 DEF KeysOf
<1>3. PICK S : S = RowsOf(turns, field)
  OBVIOUS
<1>4. IsFiniteSet(S)
  <2>1. PICK f : f = [k \in 1 .. n |-> Row(turns, field, turns[k][field])]
    OBVIOUS
  <2>2. f \in Surjection(1 .. n, S)
    BY <1>1, <1>3, <2>1 DEF RowsOf, Surjection
  <2>3. IsFiniteSet(1 .. n)
    BY FS_Interval
  <2> QED BY <2>2, <2>3, FS_Surjection
<1>5. ASSUME NEW x \in S
      PROVE  x.key \in Nat /\ x = Row(turns, field, x.key) /\ Saved(x) \in Nat
  <2>1. PICK k \in 1 .. n : x = Row(turns, field, turns[k][field])
    BY <1>1, <1>3 DEF RowsOf
  <2>2. PICK c \in Nat : c = turns[k][field]
    BY <1>2
  <2>3. x.key = c
    BY <2>1, <2>2, RowIs
  <2>4. x.body \in Nat /\ x.wire \in Nat
    <3>1. OfKey(KeysOf(turns, field), c, Column(turns, "body")) \in [1 .. n -> Nat]
      BY <1>1 DEF OfKey
    <3>2. OfKey(KeysOf(turns, field), c, Column(turns, "wire")) \in [1 .. n -> Nat]
      BY <1>1 DEF OfKey
    <3>3. x.body = Sum(OfKey(KeysOf(turns, field), c, Column(turns, "body")))
          /\ x.wire = Sum(OfKey(KeysOf(turns, field), c, Column(turns, "wire")))
      BY <2>1, <2>2, RowIs
    <3> QED BY <3>1, <3>2, <3>3, SumIs
  <2> QED BY <2>1, <2>2, <2>3, <2>4, SavedIs
<1> DEFINE P == {p \in S \X S : p[1] # p[2] /\ Before(p[1], p[2])}
<1>6. \A a, b \in S : <<a, b>> \in P <=> a # b /\ Before(a, b)
  OBVIOUS
<1>7. \A a, b \in S : Before(a, b) <=> Saved(a) > Saved(b) \/ (Saved(a) = Saved(b) /\ a.key <= b.key)
  BY DEF Before
<1>8. \A a, b \in S : a.key = b.key => a = b
  BY <1>5
<1>9. \A a, b \in S : a # b => <<a, b>> \in P \/ <<b, a>> \in P
  <2> TAKE a, b \in S
  <2> HAVE a # b
  <2>1. PICK u \in Nat, v \in Nat : u = Saved(a) /\ v = Saved(b)
    BY <1>5
  <2>2. PICK i \in Nat, j \in Nat : i = a.key /\ j = b.key
    BY <1>5
  <2>3. (u > v \/ (u = v /\ i <= j)) \/ (v > u \/ (v = u /\ j <= i))
    OBVIOUS
  <2>4. Before(a, b) \/ Before(b, a)
    BY <2>1, <2>2, <2>3, <1>7
  <2> HIDE DEF P
  <2> QED BY <2>4, <1>6
<1>10. \A a, b, c \in S : <<a, b>> \in P /\ <<b, c>> \in P => <<a, c>> \in P
  <2> TAKE a, b, c \in S
  <2> HAVE <<a, b>> \in P /\ <<b, c>> \in P
  <2>0. a # b /\ Before(a, b) /\ b # c /\ Before(b, c)
    <3> HIDE DEF P
    <3> QED BY <1>6
  <2>1. PICK u \in Nat, v \in Nat, w \in Nat : u = Saved(a) /\ v = Saved(b) /\ w = Saved(c)
    BY <1>5
  <2>2. PICK i \in Nat, j \in Nat, h \in Nat : i = a.key /\ j = b.key /\ h = c.key
    BY <1>5
  <2>3. i # j /\ j # h
    BY <2>0, <2>2, <1>8
  <2>4. (u > v \/ (u = v /\ i <= j)) /\ (v > w \/ (v = w /\ j <= h))
    BY <2>0, <2>1, <2>2, <1>7
  <2>5. (u > w \/ (u = w /\ i <= h)) /\ (u = w => i # h)
    BY <2>3, <2>4
  <2>6. Before(a, c)
    BY <2>1, <2>2, <2>5, <1>7
  <2>7. a # c
    <3>1. a = c => u = w /\ i = h
      BY <2>1, <2>2
    <3> QED BY <2>5, <3>1
  <2> HIDE DEF P
  <2> QED BY <2>6, <2>7, <1>6
<1>11. PICK r \in Nat : r = Cardinality(S)
  BY <1>4, FS_CardinalityType
<1>12. PICK s \in [1 .. r -> S] : InOrderOf(s, P, r)
  <2>1. \A a \in S : <<a, a>> \notin P
    OBVIOUS
  <2> HIDE DEF P
  <2>2. \E s \in [1 .. Cardinality(S) -> S] : InOrderOf(s, P, Cardinality(S))
    BY <1>4, <1>9, <1>10, <2>1, SortedExists
  <2> QED BY <1>11, <2>2
<1> DEFINE Good(f) == \A k, l \in DOMAIN f : k < l => f[k] # f[l] /\ Before(f[k], f[l])
<1>13. Good(s)
  <2>1. DOMAIN s = 1 .. r /\ \A k \in 1 .. r : s[k] \in S
    OBVIOUS
  <2> HIDE DEF P
  <2>2. \A k, l \in 1 .. r : k < l => <<s[k], s[l]>> \in P
    BY <1>12 DEF InOrderOf
  <2> QED BY <2>1, <2>2, <1>6
<1>14. rows = CHOOSE f \in [1 .. r -> S] : Good(f)
  BY <1>3, <1>11 DEF Buckets, Sorted, RowsOf
<1>15. rows \in [1 .. r -> S] /\ Good(rows)
  <2> HIDE DEF Good
  <2> QED BY <1>13, <1>14
<1>16. \A k, l \in 1 .. r : k < l => rows[k] # rows[l] /\ Before(rows[k], rows[l])
  BY <1>15
<1>17. \A x \in S : \E l \in 1 .. r : rows[l] = x
  <2>1. rows \in Injection(1 .. r, S)
    <3>1. \A k, l \in 1 .. r : rows[k] = rows[l] => k = l
      <4> TAKE k, l \in 1 .. r
      <4>1. k < l \/ l < k \/ k = l
        OBVIOUS
      <4> QED BY <1>16, <4>1
    <3>2. DOMAIN rows = 1 .. r
      BY <1>15
    <3> QED BY <1>15, <3>1, <3>2 DEF Injection, IsInjective
  <2>2. IsFiniteSet(1 .. r) /\ Cardinality(1 .. r) = r
    BY FS_Interval
  <2>3. rows \in Surjection(1 .. r, S)
    BY <2>1, <2>2, <1>4, <1>11, FS_Injection
  <2> QED BY <2>3 DEF Surjection
<1> QED
  <2> HIDE DEF P, Good
  <2>1. IsTable(rows, turns, field, r)
    BY <1>3, <1>5, <1>15, <1>16, <1>17 DEF IsTable
  <2> QED BY <1>11, <2>1

\* What a row says of one of its three amounts.
Amount(turns, what) == IF what = "requests" THEN Ones(turns) ELSE Column(turns, what)

\* The column of an amount is what its keys add up to, row by row.
LEMMA ColumnIs ==
  ASSUME NEW turns \in Seq(Logged), NEW field \in {"path", "profile"},
         NEW what \in {"requests", "body", "wire"},
         NEW r \in Nat, NEW rows \in [1 .. r -> RowsOf(turns, field)]
  PROVE  Column(rows, what)
           = [l \in 1 .. r |-> Sum(OfKey(KeysOf(turns, field), rows[l].key, Amount(turns, what)))]
<1>1. ASSUME NEW l \in 1 .. r
      PROVE  rows[l][what] = Sum(OfKey(KeysOf(turns, field), rows[l].key, Amount(turns, what)))
  <2>1. PICK k \in DOMAIN turns : rows[l] = Row(turns, field, turns[k][field])
    BY DEF RowsOf
  <2>2. PICK c : c = turns[k][field]
    OBVIOUS
  <2>3. rows[l] = [key |-> c, requests |-> Sum(OfKey(KeysOf(turns, field), c, Ones(turns))),
                   body |-> Sum(OfKey(KeysOf(turns, field), c, Column(turns, "body"))),
                   wire |-> Sum(OfKey(KeysOf(turns, field), c, Column(turns, "wire")))]
    BY <2>1, <2>2, RowIs
  <2>4. rows[l].key = c
    BY <2>3
  <2>5. CASE what = "requests"
    BY <2>3, <2>4, <2>5 DEF Amount
  <2>6. CASE what = "body"
    BY <2>3, <2>4, <2>6 DEF Amount
  <2>7. CASE what = "wire"
    BY <2>3, <2>4, <2>7 DEF Amount
  <2> QED BY <2>5, <2>6, <2>7
<1>2. DOMAIN rows = 1 .. r
  OBVIOUS
<1> QED BY <1>1, <1>2 DEF Column

\* A table loses no turn: each amount adds up to that of all turns.
LEMMA TableLosesNone ==
  ASSUME NEW turns \in Seq(Logged), NEW field \in {"path", "profile"},
         NEW what \in {"requests", "body", "wire"}
  PROVE  Sum(Column(Buckets(turns, field), what)) = Sum(Amount(turns, what))
<1>1. PICK n \in Nat :
        /\ n = Len(turns) /\ DOMAIN turns = 1 .. n
        /\ KeysOf(turns, field) \in [1 .. n -> Nat] /\ Ones(turns) \in [1 .. n -> Nat]
        /\ Column(turns, "body") \in [1 .. n -> Nat]
        /\ Column(turns, "wire") \in [1 .. n -> Nat]
  BY LoggedIs
<1>2. PICK rows : rows = Buckets(turns, field)
  OBVIOUS
<1>3. PICK r \in Nat : IsTable(rows, turns, field, r)
  BY <1>2, TableSorted
<1>4. PICK ks : ks = KeysOf(turns, field)
  OBVIOUS
<1>5. PICK w : w = Amount(turns, what)
  OBVIOUS
<1>6. w \in [1 .. n -> Nat]
  BY <1>1, <1>5 DEF Amount
<1>7. PICK row : row = [l \in 1 .. r |-> rows[l].key]
  OBVIOUS
<1>8. \A k, l \in 1 .. r : row[k] = row[l] => k = l
  <2> TAKE k, l \in 1 .. r
  <2> HAVE row[k] = row[l]
  <2>1. rows[k] = rows[l]
    <3>1. rows[k] \in RowsOf(turns, field) /\ rows[l] \in RowsOf(turns, field)
      BY <1>3 DEF IsTable
    <3>2. rows[k].key = rows[l].key
      BY <1>7
    <3> QED BY <1>3, <3>1, <3>2 DEF IsTable
  <2>2. k < l \/ l < k \/ k = l
    OBVIOUS
  <2> QED BY <1>3, <2>1, <2>2 DEF IsTable
<1>9. \A k \in 1 .. n : \E l \in 1 .. r : row[l] = ks[k]
  <2> TAKE k \in 1 .. n
  <2>1. PICK c : c = turns[k][field] /\ c = ks[k]
    BY <1>1, <1>4 DEF KeysOf
  <2>2. PICK x : x = Row(turns, field, c)
    OBVIOUS
  <2>3. x \in RowsOf(turns, field)
    BY <1>1, <2>1, <2>2 DEF RowsOf
  <2>4. x.key = c
    BY <2>2, RowIs
  <2>5. PICK l \in 1 .. r : rows[l] = x
    BY <1>3, <2>3 DEF IsTable
  <2> QED BY <1>7, <2>1, <2>4, <2>5
<1>10. Sum([l \in 1 .. r |-> Sum(OfKey(ks, row[l], w))]) = Sum(w)
  <2>1. RowsAddUp(ks, w, row, r)
    BY <1>6, <1>8, <1>9, TableAddsUp
  <2> QED BY <2>1 DEF RowsAddUp
<1>11. Column(rows, what) = [l \in 1 .. r |-> Sum(OfKey(ks, rows[l].key, w))]
  <2>1. rows \in [1 .. r -> RowsOf(turns, field)]
    BY <1>3 DEF IsTable
  <2> QED BY <1>4, <1>5, <2>1, ColumnIs
<1>12. [l \in 1 .. r |-> Sum(OfKey(ks, rows[l].key, w))]
         = [l \in 1 .. r |-> Sum(OfKey(ks, row[l], w))]
  BY <1>7
<1> QED BY <1>2, <1>5, <1>10, <1>11, <1>12

\* The tables of the console, for any turns it may hold: every turn is in one row of
\* each, amounts add up, who saved most comes first and no key comes twice.
LEMMA TablesAddUp ==
  ASSUME NEW turns \in Seq(Logged), NEW field \in {"path", "profile"},
         NEW rows, rows = Buckets(turns, field)
  PROVE  /\ Sum(Column(rows, "requests")) = Len(turns)
         /\ Sum(Column(rows, "body")) = Sum(Column(turns, "body"))
         /\ Sum(Column(rows, "wire")) = Sum(Column(turns, "wire"))
         /\ \A k, l \in DOMAIN rows : k < l => /\ Saved(rows[k]) >= Saved(rows[l])
                                               /\ rows[k].key # rows[l].key
<1>1. Sum(Column(rows, "requests")) = Sum(Ones(turns))
  BY TableLosesNone DEF Amount
<1>2. Sum(Ones(turns)) = Len(turns)
  <2>1. PICK n \in Nat : n = Len(turns) /\ DOMAIN turns = 1 .. n
    BY LenProperties
  <2>2. Ones(turns) = [k \in 1 .. n |-> 1]
    BY <2>1 DEF Ones
  <2>3. Sum(Ones(turns)) = n
    BY <2>2, SumOfSame
  <2> QED BY <2>1, <2>3
<1>3. Sum(Column(rows, "body")) = Sum(Column(turns, "body"))
  BY TableLosesNone DEF Amount
<1>4. Sum(Column(rows, "wire")) = Sum(Column(turns, "wire"))
  BY TableLosesNone DEF Amount
<1>5. ASSUME NEW k \in DOMAIN rows, NEW l \in DOMAIN rows, k < l
      PROVE  Saved(rows[k]) >= Saved(rows[l]) /\ rows[k].key # rows[l].key
  <2>1. PICK r \in Nat : IsTable(rows, turns, field, r)
    BY TableSorted
  <2>2. k \in 1 .. r /\ l \in 1 .. r
    BY <2>1 DEF IsTable
  <2>3. rows[k] \in RowsOf(turns, field) /\ rows[l] \in RowsOf(turns, field)
    BY <2>1, <2>2 DEF IsTable
  <2>4. rows[k] # rows[l] /\ Before(rows[k], rows[l])
    BY <1>5, <2>1, <2>2 DEF IsTable
  <2>5. rows[k].key # rows[l].key
    BY <2>1, <2>3, <2>4 DEF IsTable
  <2>6. PICK u \in Nat, v \in Nat : u = Saved(rows[k]) /\ v = Saved(rows[l])
    BY <2>1, <2>3 DEF IsTable
  <2>7. u > v \/ u = v
    BY <2>4, <2>6 DEF Before
  <2> QED BY <2>5, <2>6, <2>7
<1> QED BY <1>1, <1>2, <1>3, <1>4, <1>5

\* The console tells of the last turns, and its tables lose none of them: every turn is
\* in one row, bytes add up, and who saved most comes first, for every capacity, number
\* of turns and cost (metrics.rs, TurnLog and buckets).
THEOREM ConsoleBooksBalance == Spec => []ConsoleAddsUp
<1>1. CInv => ring \in Seq(Logged)
  BY LenProperties, CapacityIsPositive, NewestProperties DEF CInv
<1>2. CInv => ConsoleTellsLast
  BY DEF CInv, ConsoleTellsLast
<1>3. CInv => ConsoleAddsUp
  BY <1>1, <1>2, TablesAddUp DEF ConsoleAddsUp
<1> QED BY <1>3, ProcessStart, ListenersStep, ConsoleStep, PTL DEF Spec
=============================================================================
