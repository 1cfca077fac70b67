------------------------------ MODULE Bootstrap ------------------------------
(***************************************************************************)
(* The certificate directory of a mesh and the commands that write to it   *)
(* (main.go: runCA; package identity: BootstrapDir, InitCAFiles,           *)
(* SignNodeFiles, LoadOrCreate): `ca bootstrap` under a lock made with     *)
(* mkdir, `ca init` and `ca sign` without it, and a node that is started   *)
(* on the directory, which makes its key when there is none (node.New).    *)
(*                                                                         *)
(* A file is created empty and then filled, a command may be killed at any *)
(* point and a write may fail.  Key pairs are numbers, and a certificate   *)
(* is the key it names and the key that signed it.                         *)
(***************************************************************************)
EXTENDS Integers, Sequences, FiniteSets

CONSTANTS Proc, Name,
          Jobs,       \* command lines: [kind : Kind, names : Seq(Name)]
          MaxRun,     \* bound: commands begun
          MaxLoose,   \* bound: of them, those that take no lock
          MaxTrouble  \* bound: commands killed and failing writes

Kind == {"bootstrap", "init", "sign", "node"}

ASSUME BootstrapAssumption ==
    /\ IsFiniteSet(Proc) /\ {"free", "dead"} \cap Proc = {}
    /\ Jobs \subseteq [kind : Kind, names : Seq(Name)]
    /\ \A j \in Jobs :                  \* one --identity and one --out
          j.kind \in {"sign", "node"} => Len(j.names) = 1
    /\ MaxRun \in Nat /\ MaxLoose \in Nat /\ MaxTrouble \in Nat

VARIABLES
    file,       \* file[f]: what is in the directory
    lock,       \* .bootstrap.lock: "free", who made it, or "dead" when that
                \* process no longer lives
    pc,         \* pc[p]: what p's command does next, "idle" without one
    work,       \* work[p]: its job, the name it is at, the keys it has loaded
    count,      \* see the bounds, and key pairs made
    stolen,     \* a lock was removed from under a living process
    clash       \* two commands have worked in the directory at one time

dirVars == <<file, lock, pc, work, count, stolen, clash>>

(* A node may be called "ca": its certificate is then the CA's file.        *)
CaKey == <<"ca", "key">>
CaCrt == <<"ca", "crt">>
Pem(n) == <<n, "pem">>
Crt(n) == <<n, "crt">>
File == {CaKey, CaCrt} \cup {Pem(n) : n \in Name} \cup {Crt(n) : n \in Name}

Absent == [is |-> "absent", key |-> 0, by |-> 0]
Torn == [is |-> "torn", key |-> 0, by |-> 0]
Whole(key, by) == [is |-> "whole", key |-> key, by |-> by]

Idle == [job |-> [kind |-> "node", names |-> <<>>], at |-> 1,
         ca |-> 0, root |-> 0, id |-> 0]
DirInit ==
    /\ file = [f \in File |-> Absent]
    /\ lock = "free"
    /\ pc = [p \in Proc |-> "idle"]
    /\ work = [p \in Proc |-> Idle]
    /\ count = [run |-> 0, loose |-> 0, trouble |-> 0, key |-> 0]
    /\ stolen = FALSE /\ clash = FALSE

-----------------------------------------------------------------------------

Does(p) == work[p].job.kind
MyName(p) == work[p].job.names[work[p].at]
Exists(f) == file[f].is # "absent"

Goes(p, there) == pc' = [pc EXCEPT ![p] = there] /\ UNCHANGED work

(* The command returns; a bootstrap removes the lock first.                 *)
Returns(p, result) ==
    IF Does(p) = "bootstrap"
    THEN Goes(p, IF result = "ok" THEN "unlock ok" ELSE "unlock failed")
    ELSE /\ pc' = [pc EXCEPT ![p] = "idle"]
         /\ work' = [work EXCEPT ![p] = Idle]

Working(p) == pc[p] \notin {"idle", "lock", "break"}
Clash == clash' = (clash \/ Cardinality({p \in Proc : Working(p)'}) > 1)

Reads == UNCHANGED <<file, lock, stolen, count>> /\ Clash

-----------------------------------------------------------------------------
(* withMkdirLock                                                            *)

Begin(p) ==
    /\ pc[p] = "idle" /\ count.run < MaxRun
    /\ \E j \in Jobs :
          /\ j.kind = "bootstrap" \/ count.loose < MaxLoose
          /\ count' = [count EXCEPT !.run = @ + 1,
                        !.loose = @ + IF j.kind = "bootstrap" THEN 0 ELSE 1]
          /\ work' = [work EXCEPT ![p] = [Idle EXCEPT !.job = j]]
          /\ pc' = [pc EXCEPT ![p] = CASE j.kind = "bootstrap" -> "lock"
                                       [] j.kind = "init"      -> "check"
                                       [] j.kind = "sign"      -> "load"
                                       [] j.kind = "node"      -> "identity"]
    /\ UNCHANGED <<file, lock, stolen>> /\ Clash

(* Fault of Mkdir: like MkdirAll, it does not mind a lock that is there.    *)
MkdirAll(p) == /\ pc[p] = "lock"
               /\ lock' = p
               /\ Goes(p, "check")
               /\ UNCHANGED <<file, stolen, count>> /\ Clash

Mkdir(p) == /\ pc[p] = "lock" /\ lock = "free"
            /\ lock' = p
            /\ Goes(p, "check")
            /\ UNCHANGED <<file, stolen, count>> /\ Clash

(* mkdir fails, and not because the lock is there.                          *)
MkdirFails(p) == /\ pc[p] = "lock" /\ count.trouble < MaxTrouble
                 /\ count' = [count EXCEPT !.trouble = @ + 1]
                 /\ pc' = [pc EXCEPT ![p] = "idle"]
                 /\ work' = [work EXCEPT ![p] = Idle]
                 /\ UNCHANGED <<file, lock, stolen>> /\ Clash

(* Fault of Deadline: a waiter waits for ever.                              *)
NoDeadline(p) == FALSE /\ Goes(p, "break") /\ Reads

(* mkdir fails and p has waited for 30 seconds.                             *)
Deadline(p) == /\ pc[p] = "lock" /\ lock # "free"
               /\ Goes(p, "break") /\ Reads

(* Then it removes the lock that is there by now, whosever it is.           *)
Break(p) == /\ pc[p] = "break"
            /\ lock' = "free"
            /\ stolen' = (stolen \/ lock \in Proc)
            /\ Goes(p, "lock")
            /\ UNCHANGED <<file, count>> /\ Clash

Unlock(p) == /\ pc[p] \in {"unlock ok", "unlock failed"}
             /\ lock' = "free"
             /\ stolen' = (stolen \/ lock \in Proc \ {p})
             /\ pc' = [pc EXCEPT ![p] = "idle"]
             /\ work' = [work EXCEPT ![p] = Idle]
             /\ UNCHANGED <<file, count>> /\ Clash

-----------------------------------------------------------------------------
(* Files                                                                    *)

Creating == {"new ca.key", "new ca.crt", "new pem", "new crt"}
Filling == {"fill ca.key", "fill ca.crt", "fill pem", "fill crt"}

Target(p) == CASE pc[p] \in {"new ca.key", "fill ca.key"} -> CaKey
               [] pc[p] \in {"new ca.crt", "fill ca.crt"} -> CaCrt
               [] pc[p] \in {"new pem", "fill pem"}       -> Pem(MyName(p))
               [] pc[p] \in {"new crt", "fill crt"}       -> Crt(MyName(p))

Content(p) == CASE pc[p] = "fill ca.key" -> Whole(work[p].ca, 0)
                [] pc[p] = "fill ca.crt" -> Whole(work[p].ca, work[p].ca)
                [] pc[p] = "fill pem"    -> Whole(work[p].id, 0)
                [] pc[p] = "fill crt"    -> Whole(work[p].id, work[p].ca)

(* x509.CreateCertificate refuses a key that is not the CA certificate's.   *)
Refused(p) == /\ pc[p] = "new crt" /\ work[p].root # work[p].ca
              /\ Returns(p, "failed") /\ Reads

Create(p) ==
    /\ pc[p] \in Creating
    /\ ~(pc[p] = "new crt" /\ work[p].root # work[p].ca)
    /\ file' = [file EXCEPT ![Target(p)] = Torn]
    /\ Goes(p, CASE pc[p] = "new ca.key" -> "fill ca.key"
                 [] pc[p] = "new ca.crt" -> "fill ca.crt"
                 [] pc[p] = "new pem"    -> "fill pem"
                 [] pc[p] = "new crt"    -> "fill crt")
    /\ UNCHANGED <<lock, stolen, count>> /\ Clash

(* After LoadOrCreate.                                                      *)
WithIdentity(p) == IF Does(p) = "node" THEN "open" ELSE "new crt"

Fill(p) ==
    /\ pc[p] \in Filling
    /\ file' = [file EXCEPT ![Target(p)] = Content(p)]
    /\ CASE pc[p] = "fill ca.key" -> Goes(p, "new ca.crt")
         [] pc[p] = "fill ca.crt" -> IF Does(p) = "init" THEN Returns(p, "ok")
                                                         ELSE Goes(p, "next")
         [] pc[p] = "fill pem"    -> Goes(p, WithIdentity(p))
         [] pc[p] = "fill crt"    -> IF Does(p) = "sign" THEN Returns(p, "ok")
                                                         ELSE Goes(p, "next")
    /\ UNCHANGED <<lock, stolen, count>> /\ Clash

WriteFails(p) ==
    /\ pc[p] \in Creating \cup Filling /\ count.trouble < MaxTrouble
    /\ count' = [count EXCEPT !.trouble = @ + 1]
    /\ Returns(p, "failed")
    /\ UNCHANGED <<file, lock, stolen>> /\ Clash

-----------------------------------------------------------------------------
(* bootstrapDirLocked and InitCAFiles                                       *)

(* CreateCA                                                                 *)
MakesCA(p) == /\ count' = [count EXCEPT !.key = @ + 1]
              /\ work' = [work EXCEPT ![p].ca = count.key + 1,
                                      ![p].root = count.key + 1]
              /\ pc' = [pc EXCEPT ![p] = "new ca.key"]
              /\ UNCHANGED <<file, lock, stolen>> /\ Clash

(* Fault of Check: half a CA is as good as none.                            *)
CheckEither(p) ==
    /\ pc[p] = "check"
    /\ IF Exists(CaKey) /\ Exists(CaCrt) THEN Goes(p, "next") /\ Reads
                                         ELSE MakesCA(p)

Check(p) ==
    /\ pc[p] = "check"
    /\ CASE ~Exists(CaKey) /\ ~Exists(CaCrt) -> MakesCA(p)
         [] Exists(CaKey) /\ Exists(CaCrt) /\ Does(p) = "bootstrap"
                                             -> Goes(p, "next") /\ Reads
         [] OTHER                            -> Returns(p, "failed") /\ Reads

(* The loop over the names: a name that has a certificate is passed over.   *)
NextName(p) ==
    /\ pc[p] = "next"
    /\ IF work[p].at > Len(work[p].job.names) THEN Returns(p, "ok")
       ELSE IF Exists(Crt(MyName(p)))
            THEN work' = [work EXCEPT ![p].at = @ + 1] /\ UNCHANGED pc
            ELSE Goes(p, "load")
    /\ Reads

-----------------------------------------------------------------------------
(* SignNodeFiles, LoadOrCreate, node.New                                    *)

Load(p) ==
    /\ pc[p] = "load"
    /\ IF file[CaKey].is = "whole" /\ file[CaCrt].is = "whole"
       THEN /\ work' = [work EXCEPT ![p].ca = file[CaKey].key,
                                    ![p].root = file[CaCrt].key]
            /\ pc' = [pc EXCEPT ![p] = "identity"]
       ELSE Returns(p, "failed")
    /\ Reads

(* A new key pair for p, and where p goes on with it.                       *)
NewIdentity(p, there) ==
    /\ count' = [count EXCEPT !.key = @ + 1]
    /\ work' = [work EXCEPT ![p].id = count.key + 1]
    /\ pc' = [pc EXCEPT ![p] = there]
    /\ UNCHANGED <<file, lock, stolen>> /\ Clash

OldIdentity(p) ==
    LET f == Pem(MyName(p)) IN
    /\ IF file[f].is = "whole"
       THEN /\ work' = [work EXCEPT ![p].id = file[f].key]
            /\ pc' = [pc EXCEPT ![p] = WithIdentity(p)]
       ELSE Returns(p, "failed")
    /\ Reads

(* Fault of LoadOrCreate: a new key is not saved.                           *)
LoadOrMakeUp(p) ==
    /\ pc[p] = "identity"
    /\ IF Exists(Pem(MyName(p))) THEN OldIdentity(p)
                                 ELSE NewIdentity(p, WithIdentity(p))

LoadOrCreate(p) ==
    /\ pc[p] = "identity"
    /\ IF Exists(Pem(MyName(p))) THEN OldIdentity(p)
                                 ELSE NewIdentity(p, "new pem")

(* LoadCert of both certificates, TLSCertFromSigned, VerifyChain: what New  *)
(* wants of a node with this key.                                           *)
Accepts(n, id) == /\ file[CaCrt].is = "whole" /\ file[Crt(n)].is = "whole"
                  /\ file[Crt(n)].key = id
                  /\ file[Crt(n)].by = file[CaCrt].key

New(p) == /\ pc[p] = "open"
          /\ Returns(p, IF Accepts(MyName(p), work[p].id) THEN "ok"
                                                          ELSE "failed")
          /\ Reads

Kill(p) == /\ pc[p] # "idle" /\ count.trouble < MaxTrouble
           /\ count' = [count EXCEPT !.trouble = @ + 1]
           /\ pc' = [pc EXCEPT ![p] = "idle"]
           /\ work' = [work EXCEPT ![p] = Idle]
           /\ lock' = IF lock = p THEN "dead" ELSE lock
           /\ UNCHANGED <<file, stolen>> /\ Clash

-----------------------------------------------------------------------------

Step(p) == \/ Mkdir(p) \/ Deadline(p) \/ Break(p) \/ Unlock(p)
           \/ Refused(p) \/ Create(p) \/ Fill(p)
           \/ Check(p) \/ NextName(p) \/ Load(p) \/ LoadOrCreate(p) \/ New(p)

DirNext == \E p \in Proc : Step(p) \/ Begin(p) \/ MkdirFails(p) \/ WriteFails(p) \/ Kill(p)

DirSpec == DirInit /\ [][DirNext]_dirVars

(* A command that has begun is scheduled, and 30 seconds pass.              *)
FairDirSpec == DirSpec /\ \A p \in Proc : WF_dirVars(Step(p))

-----------------------------------------------------------------------------
(* Properties                                                               *)

HasLock(p) == Does(p) = "bootstrap" /\ Working(p)

(* withMkdirLock, "an exclusive mkdir-based lock": two bootstraps work at   *)
(* one time only after a waiter past its deadline has removed the lock of a *)
(* process that was alive.  To remove that of a dead one is safe.           *)
Exclusive == ~stolen => Cardinality({p \in Proc : HasLock(p)}) <= 1

(* BootstrapDir, "Existing files are left alone": no key and no certificate *)
(* that was written is ever changed, through kills, failed writes and       *)
(* repeated commands; only `ca sign` writes its output again.  Commands     *)
(* that have worked at one time are excepted: what they found is stale.     *)
ExistingFilesLeftAlone ==
    [][\A f \in File :
          file[f].is = "whole" /\ file'[f] # file[f] =>
             \/ clash
             \/ \E p \in Proc : Does(p) = "sign" /\ f = Crt(MyName(p))]_dirVars

(* When bootstrap reports success, every node it was asked for can be       *)
(* started on the directory: its certificate is for its key and by the CA.  *)
(* That is so after commands were killed and writes failed, unless one of   *)
(* them has left a file cut off, which bootstrap does not look into, or     *)
(* `ca sign` has written over the CA's certificate.  A node called "ca" is  *)
(* excepted: bootstrap takes the CA's certificate for its own.              *)
SuccessMeansUsable ==
    [][\A p \in Proc :
          /\ pc[p] = "unlock ok" /\ pc'[p] = "idle" /\ ~clash
          /\ \A f \in File : file[f].is # "torn"
          /\ file[CaCrt].key = file[CaCrt].by
          => \A i \in DOMAIN work[p].job.names :
                LET n == work[p].job.names[i] IN
                n # "ca" => /\ file[Pem(n)].is = "whole"
                            /\ Accepts(n, file[Pem(n)].key)
      ]_dirVars

(* A bootstrap that waits for the lock gets its turn and ends, whoever died *)
(* with the lock in hand.                                                   *)
WaitersEnd == \A p \in Proc : (pc[p] = "lock") ~> (pc[p] = "idle")

=============================================================================
