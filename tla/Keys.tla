--------------------------------- MODULE Keys ---------------------------------
(***************************************************************************)
(* The key material of the remote end (tls.rs): four files in one          *)
(* directory, made on the first start and read on every start.  Each file  *)
(* is replaced by a rename, but nothing joins the four: a process may die  *)
(* between any two system calls, and processes given one directory do not  *)
(* know of each other.                                                     *)
(*                                                                         *)
(* A file holds Nothing, a Partial content, or what was made               *)
(* for it: which file, and in which generation of keys.  What a system     *)
(* call has done is done: processes are killed, machines keep their power. *)
(***************************************************************************)
EXTENDS Naturals, Sequences

CONSTANTS
  Procs,   \* the processes that share the directory
  MaxGens  \* bound: how often keys are made

ASSUME GensAssumption == MaxGens \in Nat

VARIABLES
  disk,    \* the directory
  gens,    \* generations of keys made so far
  keyer,   \* what each process is doing in tls::serve
  copied   \* the ca.der an operator has copied to a laptop

keys == <<disk, gens, keyer, copied>>

Files   == <<"ca.der", "ca.key", "leaf.der", "leaf.key">>
Temps   == {"ca.tmp", "leaf.tmp"}
Names   == {Files[i] : i \in 1 .. 4} \cup Temps
Nothing == [file |-> "none", gen |-> 0]
Partial == [file |-> "part", gen |-> 0]

\* with_extension: a certificate and its key go through one temporary file.
Temp(i) == IF i <= 2 THEN "ca.tmp" ELSE "leaf.tmp"

KeysInit ==
  /\ disk = [f \in Names |-> Nothing] /\ gens = 0 /\ copied = Nothing
  /\ keyer = [p \in Procs |-> [pc |-> "off", at |-> 1, gen |-> 0]]

Goes(p, pc) == keyer' = [keyer EXCEPT ![p].pc = pc]

KeysStart(p) ==
  /\ keyer[p].pc = "off"
  /\ keyer' = [keyer EXCEPT ![p] = [pc |-> "check", at |-> 1, gen |-> 0]]
  /\ UNCHANGED <<disk, gens, copied>>

\* Mutant: the key material is made anew on every start.
MissingAlways == TRUE
Missing == disk["leaf.der"] = Nothing \/ disk["ca.der"] = Nothing

KeysCheck(p) ==
  /\ keyer[p].pc = "check"
  /\ \/ /\ Missing /\ gens < MaxGens
        /\ gens' = gens + 1
        /\ keyer' = [keyer EXCEPT ![p].pc = "write", ![p].gen = gens + 1]
     \/ ~Missing /\ Goes(p, "load") /\ UNCHANGED gens
  /\ UNCHANGED <<disk, copied>>

\* write_atomic, one system call at a time.  fs::write truncates or makes the file,
\* which holds some of the bytes until the last of them is written.
CreateTemp(p) ==
  /\ keyer[p].pc = "write"
  /\ disk' = [disk EXCEPT ![Temp(keyer[p].at)] = Partial]
  /\ Goes(p, "fill")
  /\ UNCHANGED <<gens, copied>>

WriteTemp(p) ==
  /\ keyer[p].pc = "fill"
  /\ LET i == keyer[p].at
     IN  disk' = [disk EXCEPT ![Temp(i)] = [file |-> Files[i], gen |-> keyer[p].gen]]
  /\ Goes(p, "clear")
  /\ UNCHANGED <<gens, copied>>

RemoveOld(p) ==
  /\ keyer[p].pc = "clear"
  /\ disk' = [disk EXCEPT ![Files[keyer[p].at]] = Nothing]
  /\ Goes(p, "rename")
  /\ UNCHANGED <<gens, copied>>

Rename(p) ==
  /\ keyer[p].pc = "rename"
  /\ LET i == keyer[p].at IN
     IF disk[Temp(i)] = Nothing THEN Goes(p, "failed") /\ UNCHANGED disk
     ELSE /\ disk' = [disk EXCEPT ![Files[i]] = disk[Temp(i)], ![Temp(i)] = Nothing]
          /\ keyer' = [keyer EXCEPT ![p].pc = IF i = 4 THEN "load" ELSE "write",
                                    ![p].at = IF i = 4 THEN 4 ELSE i + 1]
  /\ UNCHANGED <<gens, copied>>

\* The three files are read, and the key has to be that of the leaf.
Loads ==
  /\ disk["ca.der"] # Nothing
  /\ disk["leaf.der"].file = "leaf.der" /\ disk["leaf.key"].file = "leaf.key"
  /\ disk["leaf.der"].gen = disk["leaf.key"].gen

KeysLoad(p) ==
  /\ keyer[p].pc = "load"
  /\ keyer' = [keyer EXCEPT ![p].pc = IF Loads THEN "up" ELSE "failed",
                            ![p].gen = disk["leaf.der"].gen]
  /\ UNCHANGED <<disk, gens, copied>>

Serve(p) ==
  \/ KeysCheck(p) \/ KeysLoad(p)
  \/ CreateTemp(p) \/ WriteTemp(p) \/ RemoveOld(p) \/ Rename(p)

\* The process is gone, killed or done.
KeysStop(p) ==
  /\ keyer[p].pc # "off"
  /\ Goes(p, "off")
  /\ UNCHANGED <<disk, gens, copied>>

\* "copy that ca.der to the other machine", says a peer that is up.
CopyCa(p) ==
  /\ keyer[p].pc = "up" /\ copied = Nothing
  /\ copied' = disk["ca.der"]
  /\ UNCHANGED <<disk, gens, keyer>>

-----------------------------------------------------------------------------
\* A laptop that has been paired stays paired: whatever starts and stops come
\* later, the CA it has copied is the one on disk, every peer that is up serves a
\* leaf of that CA, and none fails to start (tls.rs; the test at tls.rs:186).
PairingLasts ==
  copied # Nothing =>
    /\ disk["ca.der"] = copied
    /\ \A p \in Procs : /\ keyer[p].pc = "up" => keyer[p].gen = copied.gen
                        /\ keyer[p].pc # "failed"

\* "Create the key material if absent, then load it" (tls.rs:46): what a start
\* finds or makes can be loaded.
KeysLoadable == \A p \in Procs : keyer[p].pc # "failed"
=============================================================================
