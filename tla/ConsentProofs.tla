---------------------------- MODULE ConsentProofs ----------------------------
(***************************************************************************)
(* Proofs about Consent, for any sets of commands, grants and verifier     *)
(* configurations and any bounds.                                          *)
(*                                                                         *)
(* The commands share seven files and lock two of them, one write at a     *)
(* time.  CommandInv says what a command between two of its steps still    *)
(* knows of the files: that they are filed under its key, that the policy  *)
(* it read can only have been replaced by a later revision, that the       *)
(* pending record is its own (so that one initialisation at a time writes  *)
(* the user's files), and that the file it is about to rename over is the  *)
(* one it looked at.                                                       *)
(***************************************************************************)
EXTENDS Consent, TLAPS

NoKeyPcs == {"key", "create", "write"}
InitPcs == {"consent", "check", "git", "apply", "rename", "confirm", "clear", "rollback"}
Pcs == NoKeyPcs \cup InitPcs \cup {"load", "install", "save"}

Plans == [HygieneFiles -> Contents \cup {None}]

Cmds == [pc : Pcs, ask : Asks, id : Commands \cup {None}, seen : Policies \cup {None},
         plan : Plans \cup {None}, file : HygieneFiles]

(* The initialisation has filed its pending record and not removed it.     *)
Filing(r) == r.pc \in InitPcs \ {"consent"} \/ (r.pc = "save" /\ r.ask.kind = "init")

(* Which command is where, and the key it works under.                     *)
KindInv(r) ==
  /\ r.pc \in InitPcs => r.ask.kind = "init"
  /\ r.pc \in {"load", "install"} => r.ask.kind # "init"
  /\ r.ask.kind = "init" => r.seen = None
  /\ r.pc = "install" => r.ask.set # None

KeyInv(r) ==
  /\ r.pc \in NoKeyPcs => r.id = None
  /\ r.pc \notin NoKeyPcs => r.id = key /\ key \in Commands
  /\ r.pc = "write" => key = Short

(* What a command knows of the policy it read and of the copy it made.     *)
SeenInv(r) ==
  r.pc \in {"install", "save"} =>
    /\ git
    /\ VersionOf(r.seen) < MaxVersion
    /\ VersionOf(r.seen) <= VersionOf(policy[r.id])
    /\ VersionOf(r.seen) = VersionOf(policy[r.id]) => r.seen = policy[r.id]
    /\ r.pc = "save" /\ r.ask.set # None => verifiers[r.id] # None

(* The pending record of an initialisation is its own.                     *)
FiledInv(c) ==
  Filing(run[c]) => /\ pending[run[c].id] # None
                    /\ pending[run[c].id].by = <<c, "init">>

(* What an initialisation has planned, and the file it is about to write.  *)
PlanInv(r) ==
  /\ r.pc \in {"git", "apply", "rename"} => r.plan \in Plans
  /\ ~EditsInWindow /\ r.pc = "rename" => files[r.file] = r.plan[r.file]

CommandInv(c) ==
  /\ KindInv(run[c]) /\ KeyInv(run[c]) /\ SeenInv(run[c])
  /\ FiledInv(c) /\ PlanInv(run[c])

(* The files of the state directory lie under the one key.                 *)
FileInv ==
  \A k \in Commands : pending[k] # None \/ policy[k] # None \/ verifiers[k] # None => key = k

OneWriter == \A c, d \in Commands : run[c].pc = "write" /\ run[d].pc = "write" => c = d

IInv ==
  /\ TypeOK
  /\ run \in [Commands -> Cmds \cup {Idle}]
  /\ \A c \in Commands : run[c] # Idle => CommandInv(c)
  /\ FileInv /\ OneWriter
  /\ NoStaleConsent /\ NamedVerifiersExist

-----------------------------------------------------------------------------
(* A process without a command is at no point of one.                      *)
LEMMA IdleIsIdle == Idle.pc = "idle" /\ Idle \notin Cmds
  BY DEF Idle, Cmds, Pcs, NoKeyPcs, InitPcs

(* Who is at a point of a command has one, and knows what it has to there. *)
LEMMA AtPoint ==
  ASSUME IInv, NEW c \in Commands, run[c].pc \in Pcs
  PROVE  run[c] \in Cmds /\ CommandInv(c)
<1>1. run[c] # Idle
  BY IdleIsIdle DEF Pcs, NoKeyPcs, InitPcs
<1> QED
  BY <1>1 DEF IInv

(* Going on leaves what a command carries, and the other commands.         *)
LEMMA GotoShape ==
  ASSUME run \in [Commands -> Cmds \cup {Idle}], NEW c \in Commands, run[c] \in Cmds,
         NEW l \in Pcs, Goto(c, l)
  PROVE  /\ \A d \in Commands : d # c => run'[d] = run[d]
         /\ run' \in [Commands -> Cmds \cup {Idle}] /\ run'[c] \in Cmds
         /\ run'[c].pc = l /\ run'[c].ask = run[c].ask /\ run'[c].id = run[c].id
         /\ run'[c].seen = run[c].seen /\ run'[c].plan = run[c].plan
         /\ run'[c].file = run[c].file
<1> DEFINE s == [run[c] EXCEPT !.pc = l]
<1>1. s \in Cmds /\ s.pc = l /\ s.ask = run[c].ask /\ s.id = run[c].id
      /\ s.seen = run[c].seen /\ s.plan = run[c].plan /\ s.file = run[c].file
  BY DEF Cmds
<1>2. run' = [run EXCEPT ![c] = s]
  BY DEF Goto
<1> HIDE DEF s
<1> QED
  BY <1>1, <1>2

(* A command that has found its key.                                       *)
LEMMA IdentifiedShape ==
  ASSUME run \in [Commands -> Cmds \cup {Idle}], NEW c \in Commands, run[c] \in Cmds,
         NEW k \in Commands, Identified(c, k)
  PROVE  /\ \A d \in Commands : d # c => run'[d] = run[d]
         /\ run' \in [Commands -> Cmds \cup {Idle}] /\ run'[c] \in Cmds
         /\ run'[c].pc = IF run[c].ask.kind = "init" THEN "consent" ELSE "load"
         /\ run'[c].ask = run[c].ask /\ run'[c].id = k
         /\ run'[c].seen = run[c].seen /\ run'[c].plan = run[c].plan
         /\ run'[c].file = run[c].file
<1> DEFINE l == IF run[c].ask.kind = "init" THEN "consent" ELSE "load"
           s == [run[c] EXCEPT !.id = k, !.pc = l]
<1>0. l \in Pcs
  BY DEF Pcs, InitPcs
<1>2. run' = [run EXCEPT ![c] = s]
  BY DEF Identified
<1> HIDE DEF l
<1>1. s \in Cmds /\ s.pc = l /\ s.ask = run[c].ask /\ s.id = k
      /\ s.seen = run[c].seen /\ s.plan = run[c].plan /\ s.file = run[c].file
  BY <1>0 DEF Cmds
<1> HIDE DEF s
<1>3. run'[c] = s /\ run' \in [Commands -> Cmds \cup {Idle}]
      /\ \A d \in Commands : d # c => run'[d] = run[d]
  BY <1>1, <1>2
<1> QED
  BY <1>1, <1>3 DEF l

(* An initialisation that has read the hygiene files.                      *)
LEMMA PlannedShape ==
  ASSUME run \in [Commands -> Cmds \cup {Idle}], NEW c \in Commands, run[c] \in Cmds,
         files \in Plans, run' = [run EXCEPT ![c].pc = "git", ![c].plan = files]
  PROVE  /\ \A d \in Commands : d # c => run'[d] = run[d]
         /\ run' \in [Commands -> Cmds \cup {Idle}] /\ run'[c] \in Cmds
         /\ run'[c].pc = "git" /\ run'[c].ask = run[c].ask /\ run'[c].id = run[c].id
         /\ run'[c].seen = run[c].seen /\ run'[c].plan = files /\ run'[c].file = run[c].file
<1> DEFINE s == [run[c] EXCEPT !.pc = "git", !.plan = files]
<1>1. s \in Cmds /\ s.pc = "git" /\ s.ask = run[c].ask /\ s.id = run[c].id
      /\ s.seen = run[c].seen /\ s.plan = files /\ s.file = run[c].file
  BY DEF Cmds, Pcs, InitPcs
<1>2. run' = [run EXCEPT ![c] = s]
  OBVIOUS
<1> HIDE DEF s
<1> QED
  BY <1>1, <1>2

(* An initialisation done with one of its files.                           *)
LEMMA NextFileShape ==
  ASSUME run \in [Commands -> Cmds \cup {Idle}], NEW c \in Commands, run[c] \in Cmds,
         NextFile(c)
  PROVE  /\ \A d \in Commands : d # c => run'[d] = run[d]
         /\ run' \in [Commands -> Cmds \cup {Idle}] /\ run'[c] \in Cmds
         /\ run'[c].pc \in {"apply", "confirm"}
         /\ run'[c].ask = run[c].ask /\ run'[c].id = run[c].id /\ run'[c].seen = run[c].seen
         /\ run'[c].pc = "apply" => run'[c].plan = run[c].plan
<1>1. CASE run[c].file = "README.md"
  <2> DEFINE s == [run[c] EXCEPT !.pc = "confirm", !.plan = None]
  <2>1. /\ s \in Cmds /\ s.pc = "confirm" /\ s.ask = run[c].ask /\ s.id = run[c].id
        /\ s.seen = run[c].seen
    BY DEF Cmds, Pcs, InitPcs
  <2>2. run' = [run EXCEPT ![c] = s]
    BY <1>1 DEF NextFile
  <2> HIDE DEF s
  <2> QED
    BY <2>1, <2>2
<1>2. CASE run[c].file # "README.md"
  <2> DEFINE s == [run[c] EXCEPT !.file = "README.md", !.pc = "apply"]
  <2>1. /\ s \in Cmds /\ s.pc = "apply" /\ s.ask = run[c].ask /\ s.id = run[c].id
        /\ s.seen = run[c].seen /\ s.plan = run[c].plan
    BY DEF Cmds, Pcs, InitPcs, HygieneFiles
  <2>2. run' = [run EXCEPT ![c] = s]
    BY <1>2 DEF NextFile
  <2> HIDE DEF s
  <2> QED
    BY <2>1, <2>2
<1> QED
  BY <1>1, <1>2

(* A command that has read its policy.                                     *)
LEMMA LoadShape ==
  ASSUME run \in [Commands -> Cmds \cup {Idle}], NEW c \in Commands, run[c] \in Cmds,
         NEW p \in Policies \cup {None}, NEW l \in {"save", "install"},
         run' = [run EXCEPT ![c].seen = p, ![c].pc = l]
  PROVE  /\ \A d \in Commands : d # c => run'[d] = run[d]
         /\ run' \in [Commands -> Cmds \cup {Idle}] /\ run'[c] \in Cmds
         /\ run'[c].pc = l /\ run'[c].ask = run[c].ask /\ run'[c].id = run[c].id
         /\ run'[c].seen = p
<1> DEFINE s == [run[c] EXCEPT !.seen = p, !.pc = l]
<1>1. s \in Cmds /\ s.pc = l /\ s.ask = run[c].ask /\ s.id = run[c].id /\ s.seen = p
  BY DEF Cmds, Pcs
<1>2. run' = [run EXCEPT ![c] = s]
  OBVIOUS
<1> HIDE DEF s
<1>3. run'[c] = s /\ \A d \in Commands : d # c => run'[d] = run[d]
  BY <1>2
<1>4. run' \in [Commands -> Cmds \cup {Idle}]
  BY <1>1, <1>2
<1> QED
  BY <1>1, <1>3, <1>4

(* A command that ends.                                                    *)
LEMMA LeaveShape ==
  ASSUME run \in [Commands -> Cmds \cup {Idle}], NEW c \in Commands, Leave(c)
  PROVE  /\ \A d \in Commands : d # c => run'[d] = run[d]
         /\ run' \in [Commands -> Cmds \cup {Idle}] /\ run'[c] = Idle
  BY DEF Leave

(* A command that begins.                                                  *)
LEMMA BeginShape ==
  ASSUME run \in [Commands -> Cmds \cup {Idle}], NEW c \in Commands,
         NEW ask \in Asks, Begin(c, ask)
  PROVE  /\ \A d \in Commands : d # c => run'[d] = run[d]
         /\ run' \in [Commands -> Cmds \cup {Idle}] /\ run'[c] \in Cmds
         /\ run'[c].pc = "key" /\ run'[c].ask = ask /\ run'[c].id = None
         /\ run'[c].seen = None
<1> DEFINE s == [pc |-> "key", ask |-> ask, id |-> None, seen |-> None,
                 plan |-> None, file |-> ".gitignore"]
<1>1. s \in Cmds /\ s.pc = "key" /\ s.ask = ask /\ s.id = None /\ s.seen = None
  BY DEF Cmds, Pcs, NoKeyPcs, HygieneFiles
<1>2. run' = [run EXCEPT ![c] = s]
  BY DEF Begin
<1> HIDE DEF s
<1> QED
  BY <1>1, <1>2

-----------------------------------------------------------------------------
(* The steps of one command.                                               *)
Do(c) ==
  \/ \E ask \in Asks : Begin(c, ask)
  \/ ReadKey(c) \/ CreateKey(c) \/ WriteKey(c)
  \/ SavePending(c) \/ CheckRoot(c) \/ GitInit(c) \/ CheckFile(c) \/ RenameFile(c)
  \/ Confirm(c) \/ ClearPending(c) \/ Load(c) \/ Install(c) \/ Save(c) \/ Stop(c)

(* A step is one command's, or the user's, which leaves the commands and   *)
(* the state directory alone.                                              *)
LEMMA WhoSteps ==
  ASSUME [Next]_vars
  PROVE  \/ \E c \in Commands : Do(c)
         \/ UNCHANGED <<key, pending, policy, verifiers, run>>
  BY DEF Next, UserInit, UserWrites, vars, Do

(* A step of one command leaves the others where they are.                 *)
LEMMA OthersStay ==
  ASSUME IInv, NEW c \in Commands, Do(c)
  PROVE  /\ \A d \in Commands : d # c => run'[d] = run[d]
         /\ run' \in [Commands -> Cmds \cup {Idle}]
<1>0. run \in [Commands -> Cmds \cup {Idle}] /\ files \in Plans
  BY DEF IInv, TypeOK, Plans
<1> DEFINE G == /\ \A d \in Commands : d # c => run'[d] = run[d]
                /\ run' \in [Commands -> Cmds \cup {Idle}]
<1>1. CASE Leave(c)
  BY <1>0, <1>1, LeaveShape
<1>2. ASSUME NEW ask \in Asks, Begin(c, ask) PROVE G
  BY <1>0, <1>2, BeginShape
<1>3. ASSUME NEW l \in Pcs, Goto(c, l), run[c].pc \in Pcs PROVE G
  BY <1>0, <1>3, AtPoint, GotoShape
<1>4. ASSUME NEW k \in Commands, Identified(c, k), run[c].pc \in Pcs PROVE G
  BY <1>0, <1>4, AtPoint, IdentifiedShape
<1>5. ASSUME NextFile(c), run[c].pc \in Pcs PROVE G
  BY <1>0, <1>5, AtPoint, NextFileShape
<1> USE DEF Pcs, NoKeyPcs, InitPcs
<1>6. CASE ReadKey(c)
  BY <1>1, <1>3, <1>4, <1>6 DEF ReadKey, IInv, TypeOK
<1>7. CASE CreateKey(c) \/ WriteKey(c)
  BY <1>3, <1>4, <1>7 DEF CreateKey, WriteKey
<1>8. CASE SavePending(c)
  BY <1>1, <1>3, <1>8 DEF SavePending
<1>9. CASE CheckRoot(c)
  <2>1. CASE run' = [run EXCEPT ![c].pc = "git", ![c].plan = files]
    BY <1>0, <1>9, <2>1, AtPoint, PlannedShape DEF CheckRoot
  <2> QED
    BY <1>3, <1>9, <2>1 DEF CheckRoot
<1>10. CASE GitInit(c) \/ Confirm(c) \/ Install(c)
  BY <1>3, <1>10 DEF GitInit, Confirm, Install
<1>11. CASE CheckFile(c)
  BY <1>3, <1>5, <1>11 DEF CheckFile
<1>12. CASE RenameFile(c)
  BY <1>3, <1>5, <1>12 DEF RenameFile
<1>13. CASE ClearPending(c) \/ Stop(c)
  BY <1>1, <1>13 DEF ClearPending, Stop
<1>14. CASE Load(c)
  <2>1. run[c] \in Cmds /\ CommandInv(c)
    BY <1>14, AtPoint DEF Load
  <2>2. policy[run[c].id] \in Policies \cup {None}
    BY <1>14, <2>1 DEF Load, CommandInv, KeyInv, IInv, TypeOK
  <2>3. CASE \E l \in {"save", "install"} :
               run' = [run EXCEPT ![c].seen = policy[run[c].id], ![c].pc = l]
    BY <1>0, <2>1, <2>2, <2>3, LoadShape
  <2> QED
    BY <1>1, <1>14, <2>3 DEF Load
<1>15. CASE Save(c)
  BY <1>1, <1>3, <1>15 DEF Save
<1> QED
  BY <1>2, <1>6, <1>7, <1>8, <1>9, <1>10, <1>11, <1>12, <1>13, <1>14, <1>15 DEF Do

(* The key, once written, stays (loadIdentityKey).                         *)
LEMMA KeyStays ==
  ASSUME IInv, [Next]_vars
  PROVE  /\ key \in Commands => key' = key
         /\ key' # key => \E c \in Commands :
              \/ CreateKey(c) /\ key = None /\ key' = Short
              \/ WriteKey(c) /\ key = Short /\ key' = c
<1>1. ASSUME NEW c \in Commands, CreateKey(c), key' # key PROVE key = None /\ key' = Short
  BY <1>1 DEF CreateKey
<1>2. ASSUME NEW c \in Commands, WriteKey(c) PROVE key = Short /\ key' = c
  BY <1>2, AtPoint DEF WriteKey, Pcs, NoKeyPcs, CommandInv, KeyInv
<1>3. ASSUME NEW c \in Commands, Do(c), ~CreateKey(c), ~WriteKey(c) PROVE key' = key
  BY <1>3 DEF Do, Begin, ReadKey, SavePending, CheckRoot, GitInit, CheckFile, RenameFile,
     Confirm, ClearPending, Load, Install, Save, Stop
<1> QED
  BY <1>1, <1>2, <1>3, WhoSteps, ConsentAssumption

(* A repository stays one, and a copied configuration stays one.           *)
LEMMA RepositoryStays ==
  ASSUME IInv, [Next]_vars
  PROVE  /\ git => git'
         /\ verifiers' \in [Commands -> VerifierSets \cup {None}]
         /\ \A k \in Commands : verifiers[k] # None => verifiers'[k] # None
         /\ \A k \in Commands : verifiers'[k] # verifiers[k] => key = k
<1>0. verifiers \in [Commands -> VerifierSets \cup {None}]
  BY DEF IInv, TypeOK
<1>1. ASSUME NEW c \in Commands, Install(c)
      PROVE  /\ verifiers' \in [Commands -> VerifierSets \cup {None}]
             /\ \A k \in Commands : verifiers[k] # None => verifiers'[k] # None
             /\ \A k \in Commands : verifiers'[k] # verifiers[k] => key = k
  <2>1. run[c] \in Cmds /\ CommandInv(c) /\ run[c].pc = "install"
    BY <1>1, AtPoint DEF Install, Pcs
  <2>2. run[c].ask.set # None /\ run[c].ask.set \in VerifierSets \cup {None}
    BY <2>1 DEF CommandInv, KindInv, Cmds, Asks, InitAsks, EnableAsks, DisableAsks
  <2>3. run[c].id = key /\ key \in Commands
    BY <2>1 DEF CommandInv, KeyInv, NoKeyPcs
  <2>4. verifiers' = [verifiers EXCEPT ![key] = run[c].ask.set]
    BY <1>1, <2>3 DEF Install
  <2> QED
    BY <1>0, <2>2, <2>3, <2>4
<1>2. ASSUME NEW c \in Commands, Do(c), ~Install(c) PROVE verifiers' = verifiers
  BY <1>2 DEF Do, Begin, ReadKey, CreateKey, WriteKey, SavePending, CheckRoot, GitInit,
     CheckFile, RenameFile, Confirm, ClearPending, Load, Save, Stop
<1>3. ASSUME NEW c \in Commands, Do(c), git PROVE git'
  BY <1>3 DEF Do, Begin, ReadKey, CreateKey, WriteKey, SavePending, CheckRoot, GitInit,
     CheckFile, RenameFile, Confirm, ClearPending, Load, Install, Save, Stop
<1>4. git => git'
  BY <1>3 DEF Next, Do, UserInit, UserWrites, vars
<1> QED
  BY <1>0, <1>1, <1>2, <1>4, WhoSteps

(* What a save writes: the revision after the one its command has read,    *)
(* which is the one in the file (savePolicy).                              *)
LEMMA SaveWrites ==
  ASSUME IInv, NEW c \in Commands, Save(c), IsNext(c)
  PROVE  LET p == Granted(c, VersionOf(run[c].seen) + 1) IN
         /\ key \in Commands /\ run[c] \in Cmds /\ run[c].id = key
         /\ run[c].seen = policy[key]
         /\ policy' = [policy EXCEPT ![key] = p] /\ p \in Policies
         /\ VersionOf(p) = VersionOf(policy[key]) + 1
         /\ p.by = <<c, run[c].ask.kind>> /\ (p.named <=> run[c].ask.set # None)
         /\ git /\ (run[c].ask.set # None => verifiers[key] # None)
<1> DEFINE v == VersionOf(run[c].seen) + 1
           p == Granted(c, v)
<1>1. run[c] \in Cmds /\ CommandInv(c) /\ run[c].pc = "save"
  BY AtPoint DEF Save, Pcs
<1>2. key \in Commands /\ run[c].id = key
  BY <1>1 DEF CommandInv, KeyInv, NoKeyPcs
<1>3. /\ git /\ (run[c].ask.set # None => verifiers[key] # None)
      /\ VersionOf(run[c].seen) < MaxVersion
      /\ run[c].seen = policy[key]
  BY <1>1, <1>2 DEF CommandInv, SeenInv, IsNext
<1>4. VersionOf(run[c].seen) \in Nat
  BY <1>1 DEF Cmds, VersionOf, Policies
<1>5. v \in 1..MaxVersion
  BY <1>3, <1>4, ConsentAssumption
<1>6. run[c].ask.kind \in Kinds /\ run[c].ask.grant \in Grants \cup {"no"}
  BY <1>1 DEF Cmds, Asks, InitAsks, EnableAsks, DisableAsks, Kinds
<1>7. <<c, run[c].ask.kind>> \in Commands \X Kinds /\ (run[c].ask.set # None) \in BOOLEAN
  BY <1>6
<1> HIDE DEF v
<1>8. p \in Policies
  BY <1>5, <1>6, <1>7 DEF Granted, Policies
<1>9. p.version = v /\ p.by = <<c, run[c].ask.kind>>
  BY DEF Granted
<1>10. p.named = (run[c].ask.set # None)
  BY Zenon DEF Granted
<1>11. policy' = [policy EXCEPT ![key] = p]
  BY <1>2 DEF Save, v
<1> HIDE DEF p
<1>12. VersionOf(p) = v
  BY <1>8, <1>9, ConsentNullAssumption DEF VersionOf
<1> QED
  BY <1>1, <1>2, <1>3, <1>7, <1>8, <1>9, <1>10, <1>11, <1>12 DEF p, v

(* The policy changes by such a save only.                                 *)
LEMMA PolicyWriters ==
  ASSUME IInv, [Next]_vars, policy' # policy
  PROVE  \E c \in Commands : Save(c) /\ IsNext(c)
<1>1. ASSUME NEW c \in Commands, Do(c), ~Save(c) PROVE policy' = policy
  BY <1>1 DEF Do, Begin, ReadKey, CreateKey, WriteKey, SavePending, CheckRoot, GitInit,
     CheckFile, RenameFile, Confirm, ClearPending, Load, Install, Stop
<1>2. ASSUME NEW c \in Commands, Save(c), ~IsNext(c) PROVE policy' = policy
  BY <1>2 DEF Save
<1> QED
  BY <1>1, <1>2, WhoSteps

(* Revisions go up, and a revision never changes.                          *)
LEMMA PolicyGrows ==
  ASSUME IInv, [Next]_vars
  PROVE  /\ policy' \in [Commands -> Policies \cup {None}]
         /\ \A k \in Commands :
              /\ VersionOf(policy[k]) \in Nat /\ VersionOf(policy'[k]) \in Nat
              /\ VersionOf(policy[k]) <= VersionOf(policy'[k])
              /\ VersionOf(policy[k]) = VersionOf(policy'[k]) => policy'[k] = policy[k]
              /\ policy'[k] # policy[k] => key = k
<1>0. policy \in [Commands -> Policies \cup {None}]
  BY DEF IInv, TypeOK
<1>1. \A k \in Commands : VersionOf(policy[k]) \in Nat
  BY <1>0 DEF VersionOf, Policies
<1>2. CASE policy' = policy
  BY <1>0, <1>1, <1>2
<1>3. ASSUME NEW c \in Commands, Save(c), IsNext(c)
      PROVE  /\ policy' \in [Commands -> Policies \cup {None}]
             /\ \A k \in Commands :
                  /\ VersionOf(policy[k]) \in Nat /\ VersionOf(policy'[k]) \in Nat
                  /\ VersionOf(policy[k]) <= VersionOf(policy'[k])
                  /\ VersionOf(policy[k]) = VersionOf(policy'[k]) => policy'[k] = policy[k]
                  /\ policy'[k] # policy[k] => key = k
  <2>1. PICK p \in Policies : /\ key \in Commands /\ policy' = [policy EXCEPT ![key] = p]
                              /\ VersionOf(p) = VersionOf(policy[key]) + 1
    BY <1>3, SaveWrites
  <2>2. policy'[key] = p /\ \A k \in Commands : k # key => policy'[k] = policy[k]
    BY <1>0, <2>1
  <2>3. VersionOf(policy[key]) \in Nat
    BY <1>1, <2>1
  <2>4. policy' \in [Commands -> Policies \cup {None}]
    BY <1>0, <2>1
  <2> QED
    BY <1>1, <2>1, <2>2, <2>3, <2>4
<1> QED
  BY <1>2, <1>3, PolicyWriters

(* A pending record is filed where there is none, and removed by the       *)
(* initialisation it belongs to.                                           *)
LEMMA PendingWriters ==
  ASSUME IInv, [Next]_vars
  PROVE  /\ pending' \in [Commands -> Policies \cup {None}]
         /\ \A k \in Commands : pending'[k] # pending[k] =>
              /\ key = k
              /\ \E c \in Commands :
                   \/ SavePending(c) /\ pending[k] = None /\ pending'[k].by = <<c, "init">>
                   \/ ClearPending(c) /\ pending[k].by = <<c, "init">>
         /\ \A c \in Commands : SavePending(c) /\ pending[run[c].id] = None =>
              pending'[key] # None /\ pending'[key].by = <<c, "init">>
<1>0. pending \in [Commands -> Policies \cup {None}]
  BY DEF IInv, TypeOK
<1>1. ASSUME NEW c \in Commands, SavePending(c), pending[run[c].id] = None
      PROVE  /\ pending' \in [Commands -> Policies \cup {None}]
             /\ \A k \in Commands : pending'[k] # pending[k] => key = k /\ pending[k] = None
             /\ pending'[key] # None /\ pending'[key].by = <<c, "init">>
  <2>1. run[c] \in Cmds /\ CommandInv(c) /\ run[c].pc = "consent"
    BY <1>1, AtPoint DEF SavePending, Pcs, InitPcs
  <2>2. key \in Commands /\ run[c].id = key /\ run[c].ask.kind = "init"
    BY <2>1 DEF CommandInv, KeyInv, KindInv, NoKeyPcs, InitPcs
  <2>3. run[c].ask.grant \in Grants \cup {"no"} /\ 1 \in 1..MaxVersion
    BY <2>1, ConsentAssumption DEF Cmds, Asks, InitAsks, EnableAsks, DisableAsks
  <2>4. <<c, run[c].ask.kind>> \in Commands \X Kinds /\ (run[c].ask.set # None) \in BOOLEAN
    BY <2>2 DEF Kinds
  <2> DEFINE p == Granted(c, 1)
  <2>5. p \in Policies
    BY <2>3, <2>4 DEF Granted, Policies
  <2>6. p.by = <<c, "init">>
    BY <2>2 DEF Granted
  <2>7. pending' = [pending EXCEPT ![key] = p]
    BY <1>1, <2>2 DEF SavePending
  <2> HIDE DEF p
  <2>8. p # None
    BY <2>5, ConsentNullAssumption
  <2>9. pending[key] = None
    BY <1>1, <2>2
  <2> QED
    BY <1>0, <2>2, <2>5, <2>6, <2>7, <2>8, <2>9
<1>2. ASSUME NEW c \in Commands, SavePending(c), pending[run[c].id] # None
      PROVE  pending' = pending
  BY <1>2 DEF SavePending
<1>3. ASSUME NEW c \in Commands, ClearPending(c)
      PROVE  /\ pending' \in [Commands -> Policies \cup {None}]
             /\ \A k \in Commands : pending'[k] # pending[k] =>
                  key = k /\ pending[k].by = <<c, "init">>
  <2>1. run[c] \in Cmds /\ CommandInv(c) /\ run[c].pc \in {"clear", "rollback"}
    BY <1>3, AtPoint DEF ClearPending, Pcs, InitPcs
  <2>2. key \in Commands /\ run[c].id = key /\ pending[key].by = <<c, "init">>
    BY <2>1 DEF CommandInv, KeyInv, FiledInv, Filing, NoKeyPcs, InitPcs
  <2>3. pending' = [pending EXCEPT ![key] = None]
    BY <1>3, <2>2 DEF ClearPending
  <2> QED
    BY <1>0, <2>2, <2>3
<1>4. ASSUME NEW c \in Commands, Do(c), ~SavePending(c), ~ClearPending(c)
      PROVE  pending' = pending
  BY <1>4 DEF Do, Begin, ReadKey, CreateKey, WriteKey, CheckRoot, GitInit,
     CheckFile, RenameFile, Confirm, Load, Install, Save, Stop
<1>5. /\ pending' \in [Commands -> Policies \cup {None}]
      /\ \A k \in Commands : pending'[k] # pending[k] =>
           /\ key = k
           /\ \E c \in Commands :
                \/ SavePending(c) /\ pending[k] = None /\ pending'[k].by = <<c, "init">>
                \/ ClearPending(c) /\ pending[k].by = <<c, "init">>
  BY <1>0, <1>1, <1>2, <1>3, <1>4, WhoSteps
<1> QED
  BY <1>1, <1>5

(* A file that an initialisation writes, or the user, is still one.        *)
LEMMA DesiredIsContent ==
  ASSUME NEW f \in HygieneFiles, NEW x \in Contents \cup {None}
  PROVE  /\ Desired(f, x) \in Contents
         /\ x # None => Desired(f, x).user = x.user
<1>1. CASE x = None
  <2>1. 0 \in 0..MaxEdits
    BY ConsentAssumption
  <2> QED
    BY <1>1, <2>1 DEF Desired, Contents
<1>2. CASE x # None /\ f = ".gitignore"
  BY <1>2 DEF Desired, Contents
<1>3. CASE x # None /\ f = "README.md"
  BY <1>3 DEF Desired
<1> QED
  BY <1>1, <1>2, <1>3 DEF HygieneFiles

(* What the user writes.                                                   *)
LEMMA UserAdds ==
  ASSUME files \in Plans, NEW f \in HygieneFiles, UserWrites(f)
  PROVE  /\ files' \in Plans
         /\ \A g \in HygieneFiles : g # f => files'[g] = files[g]
         /\ files'[f] # None
         /\ files[f] # None => files'[f].user >= files[f].user
<1> DEFINE n == IF files[f] = None THEN [user |-> 1, ours |-> FALSE]
                ELSE [user |-> files[f].user + 1, ours |-> files[f].ours]
<1>1. files' = [files EXCEPT ![f] = n]
  BY DEF UserWrites, Plans
<1>2. n \in Contents /\ (files[f] # None => n.user >= files[f].user)
  <2>1. CASE files[f] = None
    <3>1. 1 \in 0..MaxEdits
      BY ConsentAssumption
    <3> QED
      BY <2>1, <3>1 DEF Contents
  <2>2. CASE files[f] # None
    <3>1. files[f] \in Contents
      BY <2>2 DEF Plans
    <3>2. files[f].user \in 0..MaxEdits /\ files[f].ours \in BOOLEAN
      BY <3>1 DEF Contents
    <3>3. files[f].user < MaxEdits
      BY <2>2 DEF UserWrites
    <3>4. files[f].user + 1 \in 0..MaxEdits /\ files[f].user + 1 >= files[f].user
      BY <3>2, <3>3, ConsentAssumption
    <3> QED
      BY <2>2, <3>2, <3>4 DEF Contents
  <2> QED
    BY <2>1, <2>2
<1> HIDE DEF n
<1>3. n # None
  BY <1>2, ConsentNullAssumption
<1> QED
  BY <1>1, <1>2, <1>3 DEF Plans

(* A rename goes over the file, with what was planned for it.              *)
LEMMA RenameWrites ==
  ASSUME IInv, NEW c \in Commands, RenameFile(c)
  PROVE  /\ run[c] \in Cmds /\ CommandInv(c) /\ run[c].pc = "rename" /\ run[c].plan \in Plans
         /\ files' \in Plans
         /\ \A g \in HygieneFiles : g # run[c].file => files'[g] = files[g]
         /\ \/ files' = files
            \/ files'[run[c].file] = Desired(run[c].file, run[c].plan[run[c].file])
<1>1. run[c] \in Cmds /\ CommandInv(c) /\ run[c].pc = "rename"
  BY AtPoint DEF RenameFile, Pcs, InitPcs
<1>2. run[c].plan \in Plans /\ run[c].file \in HygieneFiles /\ files \in Plans
  BY <1>1 DEF CommandInv, PlanInv, Cmds, IInv, TypeOK, Plans
<1> DEFINE n == Desired(run[c].file, run[c].plan[run[c].file])
<1>3. n \in Contents
  BY <1>2, DesiredIsContent DEF Plans
<1>4. files' = files \/ files' = [files EXCEPT ![run[c].file] = n]
  BY DEF RenameFile
<1> HIDE DEF n
<1>5. /\ files' \in Plans
      /\ \A g \in HygieneFiles : g # run[c].file => files'[g] = files[g]
      /\ files' = files \/ files'[run[c].file] = n
  BY <1>2, <1>3, <1>4 DEF Plans
<1> QED
  BY <1>1, <1>2, <1>5 DEF n

(* One initialisation at a time writes the files, for the pending record   *)
(* is one command's; and while it has looked and not yet renamed, nobody   *)
(* else writes the file it is at.                                          *)
LEMMA FileStays ==
  ASSUME IInv, [Next]_vars
  PROVE  /\ files' \in Plans
         /\ \A d \in Commands : ~EditsInWindow /\ run[d].pc = "rename" /\ ~RenameFile(d) =>
              files'[run[d].file] = files[run[d].file]
<1>0. files \in Plans
  BY DEF IInv, TypeOK, Plans
<1>1. ASSUME NEW f \in HygieneFiles, UserWrites(f)
      PROVE  /\ files' \in Plans
             /\ \A d \in Commands : ~EditsInWindow /\ run[d].pc = "rename" =>
                  files'[run[d].file] = files[run[d].file]
  <2>1. ASSUME NEW d \in Commands, ~EditsInWindow, run[d].pc = "rename"
        PROVE  run[d].file # f /\ run[d].file \in HygieneFiles
    BY <1>1, <2>1, AtPoint DEF UserWrites, Cmds, Pcs, InitPcs
  <2> QED
    BY <1>0, <1>1, <2>1, UserAdds
<1>2. ASSUME NEW c \in Commands, RenameFile(c)
      PROVE  /\ files' \in Plans
             /\ \A d \in Commands : run[d].pc = "rename" => d = c
  <2>1. ASSUME NEW d \in Commands, run[d].pc = "rename"
        PROVE  pending[key].by = <<d, "init">>
    <3>1. CommandInv(d)
      BY <2>1, AtPoint DEF Pcs, InitPcs
    <3> QED
      BY <2>1, <3>1 DEF CommandInv, KeyInv, FiledInv, Filing, InitPcs, NoKeyPcs
  <2>2. run[c].pc = "rename"
    BY <1>2 DEF RenameFile
  <2>3. \A d \in Commands : run[d].pc = "rename" => <<d, "init">> = <<c, "init">>
    BY <2>1, <2>2
  <2> QED
    BY <1>2, <2>3, RenameWrites
<1>3. ASSUME NEW c \in Commands, Do(c), ~RenameFile(c) PROVE files' = files
  BY <1>3 DEF Do, Begin, ReadKey, CreateKey, WriteKey, SavePending, CheckRoot, GitInit,
     CheckFile, Confirm, ClearPending, Load, Install, Save, Stop
<1>4. CASE UserInit \/ UNCHANGED vars
  BY <1>0, <1>4 DEF UserInit, vars
<1>5. CASE \E f \in HygieneFiles : UserWrites(f)
  BY <1>1, <1>5
<1>6. CASE \E c \in Commands : Do(c)
  BY <1>0, <1>2, <1>3, <1>6
<1> QED
  BY <1>4, <1>5, <1>6 DEF Next, Do

-----------------------------------------------------------------------------
(* What a command knows stays true under the steps of the others.          *)
LEMMA KnowledgeStays ==
  ASSUME IInv, [Next]_vars, NEW d \in Commands, run[d] # Idle, run'[d] = run[d]
  PROVE  CommandInv(d)'
<1>0. run[d] \in Cmds /\ CommandInv(d)
  BY DEF IInv
<1>1. KindInv(run[d])'
  BY <1>0 DEF CommandInv, KindInv
<1>2. KeyInv(run[d])'
  <2>1. ASSUME WriteKey(d) PROVE run'[d].pc # "write"
    <3>1. run \in [Commands -> Cmds \cup {Idle}] /\ Identified(d, d)
      BY <2>1 DEF IInv, WriteKey
    <3> QED
      BY <1>0, <3>1, IdentifiedShape
  <2>2. ASSUME run[d].pc = "write" PROVE key' = Short
    <3>1. key = Short
      BY <1>0, <2>2 DEF CommandInv, KeyInv
    <3>2. \A c \in Commands : WriteKey(c) => c = d
      BY <2>2 DEF WriteKey, IInv, OneWriter
    <3> QED
      BY <2>1, <2>2, <3>1, <3>2, KeyStays, ConsentAssumption
  <2> QED
    BY <1>0, <2>2, KeyStays DEF CommandInv, KeyInv
<1>3. ASSUME run[d].pc \notin NoKeyPcs
      PROVE  run[d].id = key /\ key \in Commands /\ key' = key
  BY <1>0, <1>3, KeyStays DEF CommandInv, KeyInv
<1>4. SeenInv(run[d])'
  <2> SUFFICES ASSUME run[d].pc \in {"install", "save"}
               PROVE  /\ git'
                      /\ VersionOf(run[d].seen) < MaxVersion
                      /\ VersionOf(run[d].seen) <= VersionOf(policy'[run[d].id])
                      /\ VersionOf(run[d].seen) = VersionOf(policy'[run[d].id]) =>
                           run[d].seen = policy'[run[d].id]
                      /\ run[d].pc = "save" /\ run[d].ask.set # None => verifiers'[run[d].id] # None
    BY DEF SeenInv, VersionOf
  <2>1. run[d].id \in Commands
    BY <1>3 DEF NoKeyPcs
  <2>2. /\ git /\ VersionOf(run[d].seen) < MaxVersion
        /\ VersionOf(run[d].seen) <= VersionOf(policy[run[d].id])
        /\ VersionOf(run[d].seen) = VersionOf(policy[run[d].id]) => run[d].seen = policy[run[d].id]
        /\ run[d].pc = "save" /\ run[d].ask.set # None => verifiers[run[d].id] # None
    BY <1>0 DEF CommandInv, SeenInv
  <2>3. git' /\ (verifiers[run[d].id] # None => verifiers'[run[d].id] # None)
    BY <2>1, <2>2, RepositoryStays
  <2>4. VersionOf(run[d].seen) \in Nat
    BY <1>0 DEF Cmds, VersionOf, Policies
  <2>5. /\ VersionOf(policy[run[d].id]) \in Nat /\ VersionOf(policy'[run[d].id]) \in Nat
        /\ VersionOf(policy[run[d].id]) <= VersionOf(policy'[run[d].id])
        /\ VersionOf(policy[run[d].id]) = VersionOf(policy'[run[d].id]) =>
             policy'[run[d].id] = policy[run[d].id]
    BY <2>1, PolicyGrows
  <2>6. VersionOf(run[d].seen) <= VersionOf(policy'[run[d].id])
    BY <2>2, <2>4, <2>5
  <2>7. VersionOf(run[d].seen) = VersionOf(policy'[run[d].id]) =>
          VersionOf(run[d].seen) = VersionOf(policy[run[d].id])
    BY <2>2, <2>4, <2>5
  <2> QED
    BY <2>2, <2>3, <2>5, <2>6, <2>7
<1>5. FiledInv(d)'
  <2> SUFFICES ASSUME Filing(run[d])
               PROVE  pending'[key] = pending[key] /\ pending[key] # None
                      /\ pending[key].by = <<d, "init">> /\ run[d].id = key
    BY DEF FiledInv, Filing
  <2>1. run[d].pc \notin NoKeyPcs
    BY DEF Filing, InitPcs, NoKeyPcs
  <2>2. pending[key] # None /\ pending[key].by = <<d, "init">>
    BY <1>0, <1>3, <2>1 DEF CommandInv, FiledInv
  <2>3. ~ClearPending(d)
    BY LeaveShape DEF ClearPending, IInv
  <2>4. \A c \in Commands : pending[key].by = <<c, "init">> => c = d
    BY <2>2
  <2> QED
    BY <1>3, <2>1, <2>2, <2>3, <2>4, PendingWriters
<1>6. PlanInv(run[d])'
  <2>1. ASSUME run[d].pc = "rename" PROVE ~RenameFile(d)
    <3>1. run \in [Commands -> Cmds \cup {Idle}]
      BY DEF IInv
    <3>2. NextFile(d) => run'[d].pc # "rename"
      BY <1>0, <3>1, NextFileShape
    <3>3. Goto(d, "rollback") => run'[d].pc = "rollback"
      BY <1>0, <3>1, GotoShape DEF Pcs, InitPcs
    <3> QED
      BY <2>1, <3>2, <3>3 DEF RenameFile
  <2>2. ~EditsInWindow /\ run[d].pc = "rename" => files'[run[d].file] = files[run[d].file]
    BY <2>1, FileStays
  <2> QED
    BY <1>0, <2>2 DEF CommandInv, PlanInv
<1> QED
  BY <1>1, <1>2, <1>4, <1>5, <1>6 DEF CommandInv

(* A command that goes on without a change of its files, from a point      *)
(* where it has its key.                                                   *)
LEMMA GoesOn ==
  ASSUME IInv, [Next]_vars, NEW c \in Commands, run[c] \in Cmds, CommandInv(c),
         run[c].pc \notin NoKeyPcs, run'[c].ask = run[c].ask, run'[c].id = run[c].id,
         run'[c].pc \in InitPcs => run[c].ask.kind = "init",
         run'[c].pc \notin NoKeyPcs \cup {"load", "install", "save"},
         run'[c].seen = run[c].seen,
         run'[c].pc \in {"git", "apply", "rename"} => run'[c].plan \in Plans,
         run'[c].pc # "rename",
         run'[c].pc # "consent" => /\ pending'[run[c].id] # None
                                   /\ pending'[run[c].id].by = <<c, "init">>
  PROVE  CommandInv(c)'
<1>1. KindInv(run[c])'
  BY DEF CommandInv, KindInv, InitPcs
<1>2. run[c].id = key /\ key' = key /\ key \in Commands
  BY KeyStays DEF CommandInv, KeyInv
<1>3. KeyInv(run[c])'
  BY <1>2 DEF KeyInv, NoKeyPcs
<1>4. SeenInv(run[c])' /\ PlanInv(run[c])'
  BY DEF SeenInv, PlanInv
<1>5. FiledInv(c)'
  BY DEF FiledInv, Filing
<1> QED
  BY <1>1, <1>3, <1>4, <1>5 DEF CommandInv

(* A command that still looks for the key.                                 *)
LEMMA LooksForKey ==
  ASSUME NEW c \in Commands, run'[c].pc \in NoKeyPcs, run'[c].id = None,
         run'[c].pc = "write" => key' = Short,
         run'[c].ask.kind = "init" => run'[c].seen = None
  PROVE  CommandInv(c)'
  BY DEF CommandInv, KindInv, KeyInv, SeenInv, FiledInv, Filing, PlanInv, NoKeyPcs, InitPcs

(* A command that has found the key.                                       *)
LEMMA FindsKey ==
  ASSUME IInv, NEW c \in Commands, run[c].pc \in NoKeyPcs, NEW k \in Commands,
         Identified(c, k), key' = k
  PROVE  CommandInv(c)'
<1>1. run[c] \in Cmds /\ CommandInv(c) /\ run \in [Commands -> Cmds \cup {Idle}]
  BY AtPoint DEF Pcs, IInv
<1>2. run[c].ask.kind = "init" => run[c].seen = None
  BY <1>1 DEF CommandInv, KindInv
<1>3. /\ run'[c].pc = IF run[c].ask.kind = "init" THEN "consent" ELSE "load"
      /\ run'[c].ask = run[c].ask /\ run'[c].id = k /\ run'[c].seen = run[c].seen
  BY <1>1, IdentifiedShape
<1>4. CASE run[c].ask.kind = "init"
  BY <1>2, <1>3, <1>4 DEF CommandInv, KindInv, KeyInv, SeenInv, FiledInv, Filing, PlanInv,
     NoKeyPcs, InitPcs
<1>5. CASE run[c].ask.kind # "init"
  BY <1>2, <1>3, <1>5 DEF CommandInv, KindInv, KeyInv, SeenInv, FiledInv, Filing, PlanInv,
     NoKeyPcs, InitPcs
<1> QED
  BY <1>4, <1>5

(* An initialisation that is under way keeps its pending record until it   *)
(* removes it.                                                             *)
LEMMA RecordStays ==
  ASSUME IInv, [Next]_vars, NEW c \in Commands, run[c] \in Cmds, CommandInv(c),
         Filing(run[c]), ~ClearPending(c)
  PROVE  pending'[run[c].id] # None /\ pending'[run[c].id].by = <<c, "init">>
<1>1. run[c].id = key /\ key \in Commands
  BY DEF CommandInv, KeyInv, Filing, InitPcs, NoKeyPcs
<1>2. pending[key] # None /\ pending[key].by = <<c, "init">>
  BY <1>1 DEF CommandInv, FiledInv
<1>3. \A d \in Commands : pending[key].by = <<d, "init">> => d = c
  BY <1>2
<1> QED
  BY <1>1, <1>2, <1>3, PendingWriters

(* A step of a command leaves it what it knows at its next point.          *)
LEMMA OwnStep ==
  ASSUME IInv, [Next]_vars, NEW c \in Commands, Do(c), run'[c] # Idle
  PROVE  CommandInv(c)'
<1>0. run \in [Commands -> Cmds \cup {Idle}] /\ files \in Plans
  BY DEF IInv, TypeOK, Plans
<1> DEFINE Cont == run[c] \in Cmds /\ CommandInv(c)
<1>1. ~Leave(c)
  BY <1>0, LeaveShape
<1>2. ASSUME NEW ask \in Asks, Begin(c, ask) PROVE CommandInv(c)'
  <2>1. run'[c].pc = "key" /\ run'[c].id = None /\ run'[c].seen = None
    BY <1>0, <1>2, BeginShape
  <2> QED
    BY <2>1, LooksForKey DEF NoKeyPcs
<1>3. ASSUME NEW l \in Pcs, Goto(c, l), run[c].pc \in Pcs
      PROVE  /\ Cont /\ run'[c].pc = l /\ run'[c].ask = run[c].ask /\ run'[c].id = run[c].id
             /\ run'[c].seen = run[c].seen /\ run'[c].plan = run[c].plan
             /\ run'[c].file = run[c].file
  BY <1>0, <1>3, AtPoint, GotoShape
<1>4. ASSUME NEW l \in NoKeyPcs, Goto(c, l), run[c].pc \in NoKeyPcs, l = "write" => key' = Short
      PROVE  CommandInv(c)'
  <2>1. /\ CommandInv(c) /\ run'[c].pc = l /\ run'[c].id = run[c].id
        /\ run'[c].seen = run[c].seen /\ run'[c].ask = run[c].ask
    BY <1>3, <1>4 DEF Pcs
  <2> QED
    BY <1>4, <2>1, LooksForKey DEF CommandInv, KindInv, KeyInv
<1>5. ASSUME NEW l \in InitPcs \ {"consent", "rename"}, Goto(c, l), run[c].pc \in Pcs \ NoKeyPcs,
             Filing(run[c]), ~ClearPending(c), l \in {"git", "apply"} => run[c].plan \in Plans
      PROVE  CommandInv(c)'
  <2>1. /\ Cont /\ run'[c].pc = l /\ run'[c].ask = run[c].ask /\ run'[c].id = run[c].id
        /\ run'[c].seen = run[c].seen /\ run'[c].plan = run[c].plan
    BY <1>3, <1>5 DEF Pcs
  <2>2. run[c].ask.kind = "init"
    BY <1>5, <2>1 DEF Filing, CommandInv, KindInv
  <2>3. pending'[run[c].id] # None /\ pending'[run[c].id].by = <<c, "init">>
    BY <1>5, <2>1, RecordStays
  <2> QED
    BY <1>5, <2>1, <2>2, <2>3, GoesOn DEF NoKeyPcs, InitPcs
<1>6. ASSUME NextFile(c), run[c].pc \in {"apply", "rename"} PROVE CommandInv(c)'
  <2>1. Cont
    BY <1>6, AtPoint DEF Pcs, InitPcs
  <2>2. /\ run'[c].pc \in {"apply", "confirm"}
        /\ run'[c].ask = run[c].ask /\ run'[c].id = run[c].id /\ run'[c].seen = run[c].seen
        /\ run'[c].pc = "apply" => run'[c].plan = run[c].plan
    BY <1>0, <1>6, <2>1, NextFileShape
  <2>3. Filing(run[c]) /\ run[c].ask.kind = "init" /\ run[c].plan \in Plans
    BY <1>6, <2>1 DEF Filing, CommandInv, KindInv, PlanInv, InitPcs
  <2>4. pending'[run[c].id] # None /\ pending'[run[c].id].by = <<c, "init">>
    BY <1>6, <2>1, <2>3, RecordStays DEF ClearPending
  <2> QED
    BY <1>6, <2>1, <2>2, <2>3, <2>4, GoesOn DEF NoKeyPcs, InitPcs
<1>7. CASE ReadKey(c)
  <2>1. run[c].pc \in NoKeyPcs /\ key' = key
    BY <1>7 DEF ReadKey, NoKeyPcs
  <2>2. CASE key = None /\ Goto(c, "create")
    BY <1>4, <2>1, <2>2 DEF NoKeyPcs
  <2>3. CASE key \in Commands /\ Identified(c, key)
    BY <2>1, <2>3, FindsKey
  <2> QED
    BY <1>1, <1>7, <2>2, <2>3, ConsentAssumption DEF ReadKey, IInv, TypeOK
<1>8. CASE CreateKey(c)
  BY <1>4, <1>8 DEF CreateKey, NoKeyPcs
<1>9. CASE WriteKey(c)
  BY <1>9, FindsKey DEF WriteKey, NoKeyPcs
<1>10. CASE SavePending(c)
  <2>1. run[c].pc = "consent" /\ Goto(c, "check") /\ pending[run[c].id] = None
    BY <1>1, <1>10 DEF SavePending
  <2>2. /\ Cont /\ run'[c].pc = "check" /\ run'[c].ask = run[c].ask /\ run'[c].id = run[c].id
        /\ run'[c].seen = run[c].seen /\ run'[c].plan = run[c].plan
    BY <1>3, <2>1 DEF Pcs, InitPcs
  <2>3. run[c].id = key /\ run[c].ask.kind = "init"
    BY <2>1, <2>2 DEF CommandInv, KeyInv, KindInv, NoKeyPcs, InitPcs
  <2>4. pending'[key] # None /\ pending'[key].by = <<c, "init">>
    BY <1>10, <2>1, PendingWriters
  <2> QED
    BY <2>1, <2>2, <2>3, <2>4, GoesOn DEF NoKeyPcs, InitPcs
<1>11. CASE CheckRoot(c)
  <2>1. run[c].pc = "check" /\ Filing(run[c])
    BY <1>11 DEF CheckRoot, Filing, InitPcs
  <2>2. CASE Goto(c, "rollback")
    BY <1>5, <2>1, <2>2 DEF Pcs, InitPcs, NoKeyPcs, ClearPending
  <2>3. CASE run' = [run EXCEPT ![c].pc = "git", ![c].plan = files]
    <3>1. Cont
      BY <2>1, AtPoint DEF Pcs, InitPcs
    <3>2. /\ run'[c].pc = "git" /\ run'[c].ask = run[c].ask /\ run'[c].id = run[c].id
          /\ run'[c].seen = run[c].seen /\ run'[c].plan = files
      BY <1>0, <2>3, <3>1, PlannedShape
    <3>3. run[c].ask.kind = "init"
      BY <2>1, <3>1 DEF CommandInv, KindInv, InitPcs
    <3>4. pending'[run[c].id] # None /\ pending'[run[c].id].by = <<c, "init">>
      BY <2>1, <3>1, RecordStays DEF ClearPending
    <3> QED
      BY <1>0, <2>1, <3>1, <3>2, <3>3, <3>4, GoesOn DEF NoKeyPcs, InitPcs
  <2> QED
    BY <1>11, <2>2, <2>3 DEF CheckRoot
<1>12. CASE GitInit(c)
  <2>1. run[c].pc = "git" /\ Filing(run[c])
    BY <1>12 DEF GitInit, Filing, InitPcs
  <2>2. run[c].plan \in Plans
    BY <2>1, AtPoint DEF Pcs, InitPcs, CommandInv, PlanInv
  <2> QED
    BY <1>5, <1>12, <2>1, <2>2 DEF GitInit, Pcs, InitPcs, NoKeyPcs, ClearPending
<1>13. CASE CheckFile(c)
  <2>1. run[c].pc = "apply" /\ Filing(run[c])
    BY <1>13 DEF CheckFile, Filing, InitPcs
  <2>2. CASE Goto(c, "rollback")
    BY <1>5, <2>1, <2>2 DEF Pcs, InitPcs, NoKeyPcs, ClearPending
  <2>3. CASE Goto(c, "rename") /\ UnchangedSincePlan(c)
    <3>1. /\ Cont /\ run'[c].pc = "rename" /\ run'[c].ask = run[c].ask /\ run'[c].id = run[c].id
          /\ run'[c].seen = run[c].seen /\ run'[c].plan = run[c].plan
          /\ run'[c].file = run[c].file
      BY <1>3, <2>1, <2>3 DEF Pcs, InitPcs
    <3>2. run[c].ask.kind = "init" /\ run[c].plan \in Plans /\ run[c].seen = None
      BY <2>1, <3>1 DEF CommandInv, KindInv, PlanInv, InitPcs
    <3>3. pending'[run[c].id] # None /\ pending'[run[c].id].by = <<c, "init">>
      BY <2>1, <3>1, RecordStays DEF ClearPending
    <3>4. run[c].id = key /\ key' = key /\ key \in Commands
      BY <2>1, <3>1, KeyStays DEF CommandInv, KeyInv, NoKeyPcs
    <3>5. files' = files
      BY <1>13 DEF CheckFile
    <3>6. KindInv(run[c])' /\ KeyInv(run[c])' /\ SeenInv(run[c])'
      BY <3>1, <3>2, <3>4 DEF KindInv, KeyInv, SeenInv, InitPcs, NoKeyPcs
    <3>7. FiledInv(c)'
      BY <3>1, <3>3 DEF FiledInv
    <3>8. PlanInv(run[c])'
      BY <2>3, <3>1, <3>2, <3>5 DEF PlanInv, UnchangedSincePlan
    <3> QED
      BY <3>6, <3>7, <3>8 DEF CommandInv
  <2> QED
    BY <1>6, <1>13, <2>1, <2>2, <2>3 DEF CheckFile
<1>14. CASE RenameFile(c)
  <2>1. run[c].pc = "rename" /\ Filing(run[c])
    BY <1>14 DEF RenameFile, Filing, InitPcs
  <2> QED
    BY <1>5, <1>6, <1>14, <2>1 DEF RenameFile, Pcs, InitPcs, NoKeyPcs, ClearPending
<1>15. CASE Confirm(c)
  <2>1. run[c].pc = "confirm" /\ Filing(run[c])
    BY <1>15 DEF Confirm, Filing, InitPcs
  <2>2. CASE Goto(c, "rollback")
    BY <1>5, <2>1, <2>2 DEF Pcs, InitPcs, NoKeyPcs, ClearPending
  <2>3. CASE git /\ Goto(c, "save")
    <3>1. /\ Cont /\ run'[c].pc = "save" /\ run'[c].ask = run[c].ask /\ run'[c].id = run[c].id
          /\ run'[c].seen = run[c].seen
      BY <1>3, <2>1, <2>3 DEF Pcs, InitPcs
    <3>2. run[c].ask.kind = "init" /\ run[c].seen = None
      BY <2>1, <3>1 DEF CommandInv, KindInv, InitPcs
    <3>3. pending'[run[c].id] # None /\ pending'[run[c].id].by = <<c, "init">>
      BY <2>1, <3>1, RecordStays DEF ClearPending
    <3>4. run[c].id = key /\ key' = key /\ key \in Commands
      BY <2>1, <3>1, KeyStays DEF CommandInv, KeyInv, NoKeyPcs
    <3>5. run[c].ask.set = None
      BY <3>1, <3>2 DEF Cmds, Asks, InitAsks, EnableAsks, DisableAsks
    <3>6. git' /\ policy' = policy
      BY <1>15, <2>3 DEF Confirm
    <3>7. KindInv(run[c])' /\ KeyInv(run[c])' /\ PlanInv(run[c])' /\ FiledInv(c)'
      BY <3>1, <3>2, <3>3, <3>4 DEF KindInv, KeyInv, PlanInv, FiledInv, InitPcs, NoKeyPcs
    <3>8. policy[key] \in Policies \cup {None} /\ VersionOf(None) = 0
      BY <3>4 DEF IInv, TypeOK, VersionOf
    <3>9. /\ VersionOf(policy[key]) >= 0 /\ 0 < MaxVersion
          /\ VersionOf(policy[key]) = 0 => policy[key] = None
      BY <3>8, ConsentAssumption DEF VersionOf, Policies
    <3>10. /\ run'[c].seen = None /\ run'[c].id = key /\ policy'[key] = policy[key]
           /\ run'[c].ask.set = None
      BY <3>1, <3>2, <3>4, <3>5, <3>6
    <3>11. VersionOf(run'[c].seen) = 0
      BY <3>8, <3>10
    <3>12. SeenInv(run[c])'
      BY <3>6, <3>9, <3>10, <3>11 DEF SeenInv, VersionOf
    <3> QED
      BY <3>7, <3>12 DEF CommandInv
  <2> QED
    BY <1>15, <2>2, <2>3 DEF Confirm
<1>16. CASE ClearPending(c) \/ Stop(c)
  BY <1>1, <1>16 DEF ClearPending, Stop
<1>17. CASE Load(c)
  <2>1. Cont /\ run[c].pc = "load"
    BY <1>17, AtPoint DEF Load, Pcs
  <2>2. run[c].ask.kind # "init"
    BY <2>1 DEF CommandInv, KindInv
  <2>3. run[c].id = key /\ key' = key /\ key \in Commands
    BY <2>1, KeyStays DEF CommandInv, KeyInv, NoKeyPcs
  <2>4. policy[key] \in Policies \cup {None}
    BY <2>3 DEF IInv, TypeOK
  <2>5. git /\ git' = git /\ policy' = policy /\ VersionOf(policy[key]) < MaxVersion
    BY <1>1, <1>17, <2>3 DEF Load
  <2>6. PICK l \in {"save", "install"} :
          /\ run' = [run EXCEPT ![c].seen = policy[key], ![c].pc = l]
          /\ l = IF run[c].ask.set = None THEN "save" ELSE "install"
    BY <1>1, <1>17, <2>3 DEF Load
  <2>7. /\ run'[c].pc = l /\ run'[c].ask = run[c].ask /\ run'[c].id = key
        /\ run'[c].seen = policy[key]
    <3>1. /\ run'[c].pc = l /\ run'[c].ask = run[c].ask /\ run'[c].id = run[c].id
          /\ run'[c].seen = policy[key]
      BY <1>0, <2>1, <2>4, <2>6, LoadShape
    <3> QED
      BY <2>3, <3>1
  <2>8. KindInv(run[c])' /\ KeyInv(run[c])' /\ PlanInv(run[c])' /\ FiledInv(c)'
    BY <2>2, <2>3, <2>6, <2>7 DEF KindInv, KeyInv, PlanInv, FiledInv, Filing, InitPcs, NoKeyPcs
  <2>9. VersionOf(policy[key]) \in Nat
    BY <2>4 DEF VersionOf, Policies
  <2>10. /\ VersionOf(run'[c].seen) < MaxVersion
         /\ VersionOf(run'[c].seen) <= VersionOf(policy'[run'[c].id])
         /\ run'[c].seen = policy'[run'[c].id]
    BY <2>5, <2>7, <2>9
  <2>11. run'[c].pc = "save" => run'[c].ask.set = None
    BY <2>6, <2>7
  <2>12. SeenInv(run[c])'
    BY <2>5, <2>10, <2>11 DEF SeenInv, VersionOf
  <2> QED
    BY <2>8, <2>12 DEF CommandInv
<1>18. CASE Install(c)
  <2>1. run[c].pc = "install" /\ Goto(c, "save") /\ policy' = policy /\ git' = git
    BY <1>18 DEF Install
  <2>2. /\ Cont /\ run'[c].pc = "save" /\ run'[c].ask = run[c].ask /\ run'[c].id = run[c].id
        /\ run'[c].seen = run[c].seen
    BY <1>3, <2>1 DEF Pcs
  <2>3. run[c].ask.kind # "init" /\ run[c].ask.set # None
    BY <2>1, <2>2 DEF CommandInv, KindInv
  <2>4. run[c].id = key /\ key' = key /\ key \in Commands
    BY <2>1, <2>2, KeyStays DEF CommandInv, KeyInv, NoKeyPcs
  <2>5. verifiers'[key] # None
    BY <1>18, <2>3, <2>4 DEF Install, IInv, TypeOK
  <2>6. KindInv(run[c])' /\ KeyInv(run[c])' /\ PlanInv(run[c])' /\ FiledInv(c)'
    BY <2>2, <2>3, <2>4 DEF KindInv, KeyInv, PlanInv, FiledInv, Filing, InitPcs, NoKeyPcs
  <2>7. SeenInv(run[c])'
    BY <2>1, <2>2, <2>4, <2>5 DEF CommandInv, SeenInv, VersionOf
  <2> QED
    BY <2>6, <2>7 DEF CommandInv
<1>19. CASE Save(c)
  <2>1. run[c].pc = "save" /\ Goto(c, "clear") /\ run[c].ask.kind = "init"
    BY <1>1, <1>19 DEF Save
  <2> QED
    BY <1>5, <2>1 DEF Filing, Pcs, InitPcs, NoKeyPcs, ClearPending
<1> QED
  BY <1>2, <1>7, <1>8, <1>9, <1>10, <1>11, <1>12, <1>13, <1>14, <1>15, <1>16, <1>17, <1>18,
     <1>19 DEF Do

(* A command keeps its arguments to its end, an initialisation that has    *)
(* saved its policy only ends, and the key is written by who created it.   *)
LEMMA CommandMoves ==
  ASSUME IInv, NEW c \in Commands, Do(c)
  PROVE  /\ run[c] # Idle => run'[c] = Idle \/ run'[c].ask = run[c].ask
         /\ run[c].pc = "clear" => run'[c] = Idle
         /\ run'[c].pc = "write" => key = None
<1>0. run \in [Commands -> Cmds \cup {Idle}] /\ files \in Plans
  BY DEF IInv, TypeOK, Plans
<1> DEFINE G == /\ run[c] # Idle => run'[c] = Idle \/ run'[c].ask = run[c].ask
                /\ run[c].pc = "clear" => run'[c] = Idle
                /\ run'[c].pc = "write" => key = None
<1>1. CASE Leave(c)
  <2>1. run'[c] = Idle
    BY <1>0, <1>1, LeaveShape
  <2> QED
    BY <2>1, IdleIsIdle
<1>2. ASSUME NEW ask \in Asks, Begin(c, ask) PROVE run[c] = Idle /\ run'[c].pc = "key"
  BY <1>0, <1>2, BeginShape DEF Begin
<1>3. ASSUME NEW l \in Pcs, Goto(c, l), run[c].pc \in Pcs \ {"clear"}, l = "write" => key = None
      PROVE  G
  BY <1>0, <1>3, AtPoint, GotoShape
<1>4. ASSUME NEW k \in Commands, Identified(c, k), run[c].pc \in Pcs \ {"clear"}
      PROVE  G
  <2>1. /\ run'[c].pc = IF run[c].ask.kind = "init" THEN "consent" ELSE "load"
        /\ run'[c].ask = run[c].ask
    BY <1>0, <1>4, AtPoint, IdentifiedShape
  <2> QED
    BY <1>4, <2>1
<1>5. ASSUME NextFile(c), run[c].pc \in Pcs \ {"clear"} PROVE G
  BY <1>0, <1>5, AtPoint, NextFileShape
<1> USE DEF Pcs, NoKeyPcs, InitPcs
<1>6. CASE ReadKey(c)
  <2>1. run[c].pc = "key"
    BY <1>6 DEF ReadKey
  <2>2. CASE Goto(c, "create")
    BY <1>3, <2>1, <2>2
  <2>3. CASE key \in Commands /\ Identified(c, key)
    BY <1>4, <2>1, <2>3
  <2> QED
    BY <1>1, <1>6, <2>2, <2>3 DEF ReadKey, IInv, TypeOK
<1>7. CASE CreateKey(c) \/ WriteKey(c)
  <2>1. run[c].pc \in {"create", "write"}
    BY <1>7 DEF CreateKey, WriteKey
  <2>2. CASE key = None /\ Goto(c, "write")
    BY <1>3, <2>1, <2>2
  <2>3. CASE Goto(c, "key")
    BY <1>3, <2>1, <2>3
  <2>4. CASE Identified(c, c)
    BY <1>4, <2>1, <2>4
  <2> QED
    BY <1>7, <2>2, <2>3, <2>4 DEF CreateKey, WriteKey
<1>8. CASE SavePending(c)
  BY <1>1, <1>3, <1>8 DEF SavePending
<1>9. CASE CheckRoot(c)
  <2>1. CASE run' = [run EXCEPT ![c].pc = "git", ![c].plan = files]
    <3>1. run[c].pc = "check" /\ run[c] \in Cmds
      BY <1>9, AtPoint DEF CheckRoot
    <3> QED
      BY <1>0, <2>1, <3>1, PlannedShape
  <2> QED
    BY <1>3, <1>9, <2>1 DEF CheckRoot
<1>10. CASE GitInit(c) \/ Confirm(c) \/ Install(c)
  BY <1>3, <1>10 DEF GitInit, Confirm, Install
<1>11. CASE CheckFile(c)
  BY <1>3, <1>5, <1>11 DEF CheckFile
<1>12. CASE RenameFile(c)
  BY <1>3, <1>5, <1>12 DEF RenameFile
<1>13. CASE ClearPending(c) \/ Stop(c)
  BY <1>1, <1>13 DEF ClearPending, Stop
<1>14. CASE Load(c)
  <2>1. run[c] \in Cmds /\ CommandInv(c) /\ run[c].pc = "load"
    BY <1>14, AtPoint DEF Load
  <2>2. policy[run[c].id] \in Policies \cup {None}
    BY <2>1 DEF CommandInv, KeyInv, IInv, TypeOK
  <2>3. CASE \E l \in {"save", "install"} :
               run' = [run EXCEPT ![c].seen = policy[run[c].id], ![c].pc = l]
    <3>1. run'[c].pc \in {"save", "install"} /\ run'[c].ask = run[c].ask
      BY <1>0, <2>1, <2>2, <2>3, LoadShape
    <3> QED
      BY <2>1, <3>1
  <2> QED
    BY <1>1, <1>14, <2>3 DEF Load
<1>15. CASE Save(c)
  BY <1>1, <1>3, <1>15 DEF Save
<1>16. CASE \E ask \in Asks : Begin(c, ask)
  BY <1>2, <1>16, IdleIsIdle
<1> QED
  BY <1>6, <1>7, <1>8, <1>9, <1>10, <1>11, <1>12, <1>13, <1>14, <1>15, <1>16 DEF Do

-----------------------------------------------------------------------------
(* At first there is no file of AutoGit's and no command.                  *)
LEMMA InitIInv == Init => IInv
<1> SUFFICES ASSUME Init PROVE IInv
  OBVIOUS
<1>1. [user |-> 1, ours |-> FALSE] \in Contents
  BY ConsentAssumption DEF Contents
<1>2. TypeOK
  BY <1>1 DEF Init, TypeOK
<1>3. run \in [Commands -> Cmds \cup {Idle}] /\ \A c \in Commands : run[c] = Idle
  BY DEF Init
<1>4. OneWriter
  BY <1>3, IdleIsIdle DEF OneWriter
<1> QED
  BY <1>2, <1>3, <1>4 DEF Init, IInv, FileInv, NoStaleConsent, NamedVerifiersExist

(* The files lie under the one key, and its one writer writes it once.     *)
LEMMA KeyNext ==
  ASSUME IInv, [Next]_vars
  PROVE  FileInv' /\ OneWriter' /\ key' \in Commands \cup {None, Short}
<1>1. FileInv'
  <2>1. ASSUME NEW k \in Commands, pending'[k] # None \/ policy'[k] # None \/ verifiers'[k] # None
        PROVE  key = k
    BY <2>1, PendingWriters, PolicyGrows, RepositoryStays DEF IInv, FileInv
  <2> QED
    BY <2>1, KeyStays DEF FileInv
<1>2. OneWriter'
  <2>1. CASE run' = run
    BY <2>1 DEF IInv, OneWriter
  <2>2. ASSUME NEW c \in Commands, Do(c) PROVE OneWriter'
    <3>1. \A d \in Commands : d # c => run'[d] = run[d]
      BY <2>2, OthersStay
    <3>2. run'[c].pc = "write" => key = None
      BY <2>2, CommandMoves
    <3>3. \A d \in Commands : run[d].pc = "write" => key = Short
      BY AtPoint DEF Pcs, NoKeyPcs, CommandInv, KeyInv
    <3> QED
      BY <3>1, <3>2, <3>3, ConsentAssumption DEF IInv, OneWriter
  <2> QED
    BY <2>1, <2>2, WhoSteps
<1>3. key' \in Commands \cup {None, Short}
  BY KeyStays DEF IInv, TypeOK
<1> QED
  BY <1>1, <1>2, <1>3

(* A policy in force is one of a repository, and of no initialisation that *)
(* may still fail.                                                         *)
LEMMA StaleNext ==
  ASSUME IInv, [Next]_vars
  PROVE  NoStaleConsent'
<1>1. ASSUME NEW k \in Commands, policy'[k] # None PROVE git'
  <2>1. CASE policy'[k] = policy[k]
    BY <1>1, <2>1, RepositoryStays DEF IInv, NoStaleConsent
  <2>2. CASE policy'[k] # policy[k]
    BY <2>2, PolicyWriters, SaveWrites, RepositoryStays
  <2> QED
    BY <2>1, <2>2
<1>2. ASSUME NEW k \in Commands, policy'[k] # None,
             NEW c \in Commands, policy'[k].by = <<c, "init">>
      PROVE  run'[c].pc \in {"idle", "clear"} \/ run'[c].ask.kind # "init"
  <2>1. CASE policy'[k] = policy[k]
    <3>1. git /\ (run[c].pc \in {"idle", "clear"} \/ run[c].ask.kind # "init")
      BY <1>2, <2>1 DEF IInv, NoStaleConsent
    <3>2. CASE run'[c] = run[c]
      BY <3>1, <3>2
    <3>3. CASE Do(c)
      <4>1. CASE run[c] = Idle
        <5>1. PICK ask \in Asks : Begin(c, ask)
          BY <3>3, <4>1, IdleIsIdle DEF Do, ReadKey, CreateKey, WriteKey, SavePending, CheckRoot,
             GitInit, CheckFile, RenameFile, Confirm, ClearPending, Load, Install, Save, Stop
        <5>2. ask.kind # "init"
          BY <3>1, <5>1 DEF Begin
        <5>3. run'[c].ask = ask
          BY <5>1, BeginShape DEF IInv
        <5> QED
          BY <5>2, <5>3
      <4>2. CASE run[c] # Idle
        <5>1. run[c].pc # "idle"
          BY <4>2 DEF IInv, Cmds, Pcs, NoKeyPcs, InitPcs
        <5> QED
          BY <3>1, <3>3, <4>2, <5>1, CommandMoves, IdleIsIdle
      <4> QED
        BY <4>1, <4>2
    <3> QED
      BY <3>2, <3>3, WhoSteps, OthersStay
  <2>2. CASE policy'[k] # policy[k]
    <3>1. PICK e \in Commands : Save(e) /\ IsNext(e)
      BY <2>2, PolicyWriters
    <3>2. k = key
      BY <2>2, PolicyGrows
    <3>3. policy'[key].by = <<e, run[e].ask.kind>>
      <4>1. policy \in [Commands -> Policies \cup {None}]
        BY DEF IInv, TypeOK
      <4> QED
        BY <3>1, <4>1, SaveWrites
    <3>4. e = c /\ run[c].ask.kind = "init"
      BY <1>2, <3>2, <3>3
    <3>5. Goto(c, "clear") /\ run[c].pc = "save"
      BY <3>1, <3>4 DEF Save
    <3>6. run'[c].pc = "clear"
      BY <3>5, AtPoint, GotoShape DEF Pcs, InitPcs, IInv
    <3> QED
      BY <3>6
  <2> QED
    BY <2>1, <2>2
<1> QED
  BY <1>1, <1>2 DEF NoStaleConsent

(* A policy that names the copied configuration is saved after the copy.   *)
LEMMA VerifiersNext ==
  ASSUME IInv, [Next]_vars
  PROVE  NamedVerifiersExist'
<1> SUFFICES ASSUME NEW k \in Commands, policy'[k] # None, policy'[k].named
             PROVE  verifiers'[k] # None
  BY DEF NamedVerifiersExist
<1>1. CASE policy'[k] = policy[k]
  BY <1>1, RepositoryStays DEF IInv, NamedVerifiersExist
<1>2. CASE policy'[k] # policy[k]
  <2>1. PICK e \in Commands : Save(e) /\ IsNext(e)
    BY <1>2, PolicyWriters
  <2>2. k = key
    BY <1>2, PolicyGrows
  <2>3. PICK p \in Policies : /\ policy' = [policy EXCEPT ![key] = p]
                              /\ p.named <=> run[e].ask.set # None
                              /\ run[e].ask.set # None => verifiers[key] # None
    BY <2>1, SaveWrites
  <2>4. policy'[k] = p
    BY <2>2, <2>3 DEF IInv, TypeOK
  <2>5. verifiers[k] # None
    BY <2>2, <2>3, <2>4, Zenon
  <2> QED
    BY <2>5, RepositoryStays
<1> QED
  BY <1>1, <1>2

(* Every step keeps the invariant.                                         *)
LEMMA NextIInv == IInv /\ [Next]_vars => IInv'
<1> SUFFICES ASSUME IInv, [Next]_vars PROVE IInv'
  OBVIOUS
<1>1. git' \in BOOLEAN
  <2>0. git \in BOOLEAN
    BY DEF IInv, TypeOK
  <2>1. CASE UserInit \/ (\E f \in HygieneFiles : UserWrites(f)) \/ UNCHANGED vars
    BY <2>0, <2>1 DEF UserInit, UserWrites, vars
  <2>2. ASSUME NEW c \in Commands,
               \/ \E ask \in Asks : Begin(c, ask)
               \/ ReadKey(c) \/ CreateKey(c) \/ WriteKey(c) \/ SavePending(c) \/ CheckRoot(c)
        PROVE  git' = git
    BY <2>2 DEF Begin, ReadKey, CreateKey, WriteKey, SavePending, CheckRoot
  <2>3. ASSUME NEW c \in Commands, GitInit(c) PROVE git' \in BOOLEAN
    BY <2>0, <2>3 DEF GitInit
  <2>4. ASSUME NEW c \in Commands, CheckFile(c) \/ RenameFile(c) \/ Confirm(c) \/ ClearPending(c)
        PROVE  git' = git
    BY <2>4 DEF CheckFile, RenameFile, Confirm, ClearPending
  <2>5. ASSUME NEW c \in Commands, Load(c) \/ Install(c) \/ Save(c) \/ Stop(c) PROVE git' = git
    BY <2>5 DEF Load, Install, Save, Stop
  <2> QED
    BY <2>0, <2>1, <2>2, <2>3, <2>4, <2>5 DEF Next
<1>2. TypeOK'
  BY <1>1, FileStays, KeyNext, PendingWriters, PolicyGrows, RepositoryStays DEF TypeOK, Plans
<1>3. run' \in [Commands -> Cmds \cup {Idle}]
  BY WhoSteps, OthersStay DEF IInv
<1>4. ASSUME NEW d \in Commands, run'[d] # Idle PROVE CommandInv(d)'
  <2>1. CASE run'[d] = run[d]
    BY <1>4, <2>1, KnowledgeStays
  <2>2. CASE Do(d)
    BY <1>4, <2>2, OwnStep
  <2> QED
    BY <2>1, <2>2, WhoSteps, OthersStay
<1> QED
  BY <1>2, <1>3, <1>4, KeyNext, StaleNext, VerifiersNext DEF IInv

(* The invariant: the shape of the state, what every command knows between *)
(* its steps, and that the files lie under one key.                        *)
THEOREM Invariance == Spec => []IInv
  BY InitIInv, NextIInv, PTL DEF Spec

(* Whatever commands interleave, fail and die, for any number of them: a   *)
(* policy is in force only for a repository, and the consent of an         *)
(* initialisation only once that can no longer fail (main.go:1070).        *)
THEOREM ConsentIsNeverStale == Spec => []NoStaleConsent
<1>1. IInv => NoStaleConsent
  BY DEF IInv
<1> QED
  BY <1>1, Invariance, PTL

(* A policy that names the copied verifier configuration has one: enable   *)
(* copies before it saves and nothing removes a copy.                      *)
THEOREM NamedIsCopied == Spec => []NamedVerifiersExist
<1>1. IInv => NamedVerifiersExist
  BY DEF IInv
<1> QED
  BY <1>1, Invariance, PTL

(* All records lie under the one identity key, and every command that has  *)
(* a key has that one, however many first commands race for it.            *)
THEOREM IdentityIsOne == Spec => []OneIdentity
<1>1. IInv => OneIdentity
  BY DEF IInv, OneIdentity, FileInv, CommandInv, KeyInv
<1> QED
  BY <1>1, Invariance, PTL

(* A save replaces the very policy its command had read, although it       *)
(* compares the revision only: revisions go up and none is written twice.  *)
THEOREM UpdatesAreNotLost == Spec => NoLostUpdate
<1>1. IInv /\ [Next]_vars =>
        [\A k \in Commands : policy'[k] # policy[k] =>
            run[policy'[k].by[1]].seen = policy[k]]_vars
  <2> SUFFICES ASSUME IInv, [Next]_vars, NEW k \in Commands, policy'[k] # policy[k]
               PROVE  run[policy'[k].by[1]].seen = policy[k]
    OBVIOUS
  <2>1. PICK e \in Commands : Save(e) /\ IsNext(e)
    BY PolicyWriters
  <2>2. k = key
    BY PolicyGrows
  <2>3. PICK p \in Policies : /\ policy' = [policy EXCEPT ![key] = p]
                              /\ p.by = <<e, run[e].ask.kind>>
                              /\ run[e].seen = policy[key]
    BY <2>1, SaveWrites
  <2>4. policy'[k] = p
    BY <2>2, <2>3 DEF IInv, TypeOK
  <2> QED
    BY <2>2, <2>3, <2>4
<1> QED
  BY <1>1, Invariance, PTL DEF Spec, NoLostUpdate

(* An initialisation never loses what the user has written, when the user  *)
(* does not write between the last look at a file and the rename over it:  *)
(* only one initialisation is ever at a file, whatever else is running.    *)
THEOREM BytesAreKept == ASSUME ~EditsInWindow PROVE Spec => UserBytesKept
<1>1. IInv /\ [Next]_vars =>
        [\A f \in HygieneFiles : files[f] # None =>
            files'[f] # None /\ files'[f].user >= files[f].user]_vars
  <2> SUFFICES ASSUME IInv, [Next]_vars, NEW f \in HygieneFiles, files[f] # None
               PROVE  files'[f] # None /\ files'[f].user >= files[f].user
    OBVIOUS
  <2>0. files \in Plans
    BY DEF IInv, TypeOK, Plans
  <2>1. files[f] \in Contents /\ files[f].user >= files[f].user
    BY <2>0 DEF Plans, Contents
  <2>2. CASE files'[f] = files[f]
    BY <2>1, <2>2
  <2>3. ASSUME NEW g \in HygieneFiles, UserWrites(g)
        PROVE  files'[f] # None /\ files'[f].user >= files[f].user
    BY <2>0, <2>2, <2>3, UserAdds
  <2>4. ASSUME NEW c \in Commands, RenameFile(c), files'[f] # files[f]
        PROVE  files'[f] # None /\ files'[f].user >= files[f].user
    <3>1. /\ run[c] \in Cmds /\ CommandInv(c) /\ run[c].pc = "rename" /\ f = run[c].file
          /\ files'[f] = Desired(f, run[c].plan[f])
      BY <2>4, RenameWrites
    <3>2. run[c].plan[f] = files[f]
      BY <3>1 DEF CommandInv, PlanInv
    <3>3. Desired(f, files[f]) \in Contents /\ Desired(f, files[f]).user = files[f].user
      BY <2>1, DesiredIsContent
    <3> QED
      BY <2>1, <3>1, <3>2, <3>3, ConsentNullAssumption
  <2>5. ASSUME NEW c \in Commands, Do(c), ~RenameFile(c) PROVE files' = files
    BY <2>5 DEF Do, Begin, ReadKey, CreateKey, WriteKey, SavePending, CheckRoot, GitInit,
       CheckFile, Confirm, ClearPending, Load, Install, Save, Stop
  <2>6. CASE UserInit \/ UNCHANGED vars
    BY <2>2, <2>6 DEF UserInit, vars
  <2> QED
    BY <2>2, <2>3, <2>4, <2>5, <2>6 DEF Next, Do
<1> QED
  BY <1>1, Invariance, PTL DEF Spec, UserBytesKept
=============================================================================
