------------------------------- MODULE Consent -------------------------------
(***************************************************************************)
(* The consent a user gives for one directory: autogit init, enable and    *)
(* disable (cmd/autogit/main.go) on one state directory.                   *)
(*                                                                         *)
(* Everything is kept in files.  identity.key is created once and names    *)
(* the repository; under that name lie the policy in force, the pending    *)
(* policy of an initialisation and the copied verifier configuration.      *)
(* Policy files change under a file lock, one read-check-write at a time   *)
(* (securefs.WithExclusiveLockWithin), and are replaced by a rename; the   *)
(* rest of a command is not locked, so commands interleave, and any of     *)
(* them may fail or die between two steps.  An initialisation also plans,  *)
(* and after git init writes, two files in the user's own directory.       *)
(***************************************************************************)
EXTENDS Naturals, FiniteSets

CONSTANTS
    Commands,       \* processes; also names the key a process draws
    Grants,         \* what init and enable may grant: "local", "private", "public"
    VerifierSets,   \* verifier configurations that enable may copy
    None,           \* no file
    Short,          \* identity.key created and not yet written
    MaxVersion,     \* bound on the policy revisions
    MaxEdits,       \* bound on what the user writes into a hygiene file
    EditsInWindow   \* the user may write between a file's check and its rename

ASSUME ConsentAssumption ==
    /\ Grants \subseteq {"local", "private", "public"}
    /\ None \notin Commands \cup VerifierSets /\ Short \notin Commands
    /\ None # Short
    /\ MaxVersion \in Nat \ {0} /\ MaxEdits \in Nat \ {0}
    /\ EditsInWindow \in BOOLEAN

VARIABLES
    git,        \* the directory is a git repository
    files,      \* its .gitignore and README.md
    key,        \* identity.key: None, Short or the process whose key it holds
    pending,    \* pending[k]: policy-<id>.json.pending of the identity k
    policy,     \* policy[k]: policy-<id>.json
    verifiers,  \* verifiers[k]: the copied verifier configuration
    run         \* the commands

vars == <<git, files, key, pending, policy, verifiers, run>>

Idle == [pc |-> "idle"]

HygieneFiles == {".gitignore", "README.md"}

\* A file: how much the user has written into it, and whether it holds what an
\* initialisation adds.
Contents == [user : 0..MaxEdits, ours : BOOLEAN]

\* prepareHygiene: an absent file is generated, a .gitignore gets the entries it
\* lacks as a block at its end, a README is left as it is.
Desired(f, content) ==
    CASE content = None -> [user |-> 0, ours |-> TRUE]
      [] content # None /\ f = ".gitignore" -> [content EXCEPT !.ours = TRUE]
      [] content # None /\ f = "README.md" -> content

Kinds == {"init", "enable", "disable"}

\* A policy file.  named: verifier_config is set, which auto_complete requires.
\* by: ghost, the command that wrote it and its kind.
Policies ==
    [version : 1..MaxVersion, tracking : Grants \cup {"no"}, named : BOOLEAN,
     by : Commands \X Kinds]

ASSUME ConsentNullAssumption == None \notin Contents \cup Policies

\* What the arguments may ask for; only enable takes verifiers.
InitAsks == [kind : {"init"}, grant : Grants, set : {None}]
EnableAsks == [kind : {"enable"}, grant : Grants, set : VerifierSets \cup {None}]
DisableAsks == [kind : {"disable"}, grant : {"no"}, set : {None}]
Asks == InitAsks \cup EnableAsks \cup DisableAsks

VersionOf(p) == IF p = None THEN 0 ELSE p.version

Init ==
    /\ git \in BOOLEAN
    /\ files \in [HygieneFiles -> {None, [user |-> 1, ours |-> FALSE]}]
    /\ key = None
    /\ pending = [k \in Commands |-> None]
    /\ policy = [k \in Commands |-> None]
    /\ verifiers = [k \in Commands |-> None]
    /\ run = [c \in Commands |-> Idle]

Goto(c, pc) == run' = [run EXCEPT ![c].pc = pc]

Leave(c) == run' = [run EXCEPT ![c] = Idle]

\* An initialisation is planned first, and refused inside a repository.
Begin(c, ask) ==
    /\ run[c] = Idle
    /\ ask.kind = "init" => ~git
    /\ run' = [run EXCEPT ![c] = [pc |-> "key", ask |-> ask, id |-> None, seen |-> None,
                                      plan |-> None, file |-> ".gitignore"]]
    /\ UNCHANGED <<git, files, key, pending, policy, verifiers>>

\* With its key a command knows the name of the repository.
Identified(c, k) ==
    run' = [run EXCEPT ![c].id = k,
                       ![c].pc = IF run[c].ask.kind = "init" THEN "consent" ELSE "load"]

\* loadIdentityKey: an invalid key is refused, a missing one is created.
ReadKey(c) ==
    /\ run[c].pc = "key"
    /\ CASE key = Short -> Leave(c)
         [] key = None -> Goto(c, "create")
         [] key \in Commands -> Identified(c, key)
    /\ UNCHANGED <<git, files, key, pending, policy, verifiers>>

\* Mutant: the key just drawn is used although another process was first.
CreateKeyOwn(c) ==
    /\ run[c].pc = "create"
    /\ IF key = None THEN key' = Short /\ Goto(c, "write")
                     ELSE key' = key /\ Identified(c, c)
    /\ UNCHANGED <<git, files, pending, policy, verifiers>>

\* O_EXCL: whoever comes second reads the key of the first.
CreateKey(c) ==
    /\ run[c].pc = "create"
    /\ IF key = None THEN key' = Short /\ Goto(c, "write")
                     ELSE key' = key /\ Goto(c, "key")
    /\ UNCHANGED <<git, files, pending, policy, verifiers>>

WriteKey(c) ==
    /\ run[c].pc = "write"
    /\ key' = c
    /\ Identified(c, c)
    /\ UNCHANGED <<git, files, pending, policy, verifiers>>

\* initPolicy, enabledPolicy and the policy of disable.
Granted(c, version) ==
    [version |-> version, tracking |-> run[c].ask.grant, named |-> run[c].ask.set # None,
     by |-> <<c, run[c].ask.kind>>]

\* Mutant: the consent of an initialisation goes into force at once.
SavePendingActive(c) ==
    /\ run[c].pc = "consent"
    /\ LET k == run[c].id IN
         IF policy[k] # None
         THEN Leave(c) /\ UNCHANGED policy
         ELSE policy' = [policy EXCEPT ![k] = Granted(c, 1)] /\ Goto(c, "check")
    /\ UNCHANGED <<git, files, key, pending, verifiers>>

\* savePendingPolicy: one initialisation at a time.
SavePending(c) ==
    /\ run[c].pc = "consent"
    /\ LET k == run[c].id IN
         IF pending[k] # None
         THEN Leave(c) /\ UNCHANGED pending
         ELSE pending' = [pending EXCEPT ![k] = Granted(c, 1)] /\ Goto(c, "check")
    /\ UNCHANGED <<git, files, key, policy, verifiers>>

\* Initialize looks again: the directory may have become a repository meanwhile,
\* and the hygiene files, which are read now, may not be usable.
CheckRoot(c) ==
    /\ run[c].pc = "check"
    /\ \/ ~git /\ run' = [run EXCEPT ![c].pc = "git", ![c].plan = files]
       \/ Goto(c, "rollback")
    /\ UNCHANGED <<git, files, key, pending, policy, verifiers>>

\* git init may fail.
GitInit(c) ==
    /\ run[c].pc = "git"
    /\ \/ git' = TRUE /\ Goto(c, "apply")
       \/ git' \in {git, TRUE} /\ Goto(c, "rollback")
    /\ UNCHANGED <<files, key, pending, policy, verifiers>>

\* applyHygiene: .gitignore, then README.md.
NextFile(c) ==
    run' = IF run[c].file = "README.md"
           THEN [run EXCEPT ![c].pc = "confirm", ![c].plan = None]
           ELSE [run EXCEPT ![c].file = "README.md", ![c].pc = "apply"]

\* Mutant: what was planned is written whatever the file has become.
UnchangedSincePlanAlways(c) == TRUE

UnchangedSincePlan(c) == files[run[c].file] = run[c].plan[run[c].file]

\* A file that needs nothing is skipped; one that has changed, appeared or gone
\* since it was read ends the initialisation.
CheckFile(c) ==
    /\ run[c].pc = "apply"
    /\ LET f == run[c].file
           planned == run[c].plan[f] IN
         CASE Desired(f, planned) = planned -> NextFile(c)
           [] Desired(f, planned) # planned /\ UnchangedSincePlan(c) -> Goto(c, "rename")
           [] Desired(f, planned) # planned /\ ~UnchangedSincePlan(c) -> Goto(c, "rollback")
    /\ UNCHANGED <<git, files, key, pending, policy, verifiers>>

\* The new content is written beside the file and renamed over it, or that fails.
RenameFile(c) ==
    /\ run[c].pc = "rename"
    /\ LET f == run[c].file IN
         \/ files' = [files EXCEPT ![f] = Desired(f, run[c].plan[f])] /\ NextFile(c)
         \/ UNCHANGED files /\ Goto(c, "rollback")
    /\ UNCHANGED <<git, key, pending, policy, verifiers>>

\* The new repository must be found under the identity the consent was filed for.
Confirm(c) ==
    /\ run[c].pc = "confirm"
    /\ \/ git /\ Goto(c, "save")
       \/ Goto(c, "rollback")
    /\ UNCHANGED <<git, files, key, pending, policy, verifiers>>

\* clearPendingPolicy, at the end of an initialisation and to roll one back.
ClearPending(c) ==
    /\ run[c].pc \in {"clear", "rollback"}
    /\ pending' = [pending EXCEPT ![run[c].id] = None]
    /\ Leave(c)
    /\ UNCHANGED <<git, files, key, policy, verifiers>>

\* Mutant: the policy names the copy before it is made.
LoadSkipsInstall(c) ==
    /\ run[c].pc = "load"
    /\ LET p == policy[run[c].id] IN
         IF ~git THEN Leave(c)
         ELSE /\ VersionOf(p) < MaxVersion
              /\ run' = [run EXCEPT ![c].seen = p, ![c].pc = "save"]
    /\ UNCHANGED <<git, files, key, pending, policy, verifiers>>

\* enable and disable: the repository must exist, and its policy is read.
Load(c) ==
    /\ run[c].pc = "load"
    /\ LET p == policy[run[c].id] IN
         IF ~git THEN Leave(c)
         ELSE /\ VersionOf(p) < MaxVersion
              /\ run' = [run EXCEPT ![c].seen = p,
                                    ![c].pc = IF run[c].ask.set = None THEN "save" ELSE "install"]
    /\ UNCHANGED <<git, files, key, pending, policy, verifiers>>

\* installTrustedVerifierConfig: the copy has one fixed place per repository.
Install(c) ==
    /\ run[c].pc = "install"
    /\ verifiers' = [verifiers EXCEPT ![run[c].id] = run[c].ask.set]
    /\ Goto(c, "save")
    /\ UNCHANGED <<git, files, key, pending, policy>>

\* Mutant: the revision is not compared under the lock.
IsNextAlways(c) == TRUE

\* The revision written follows the one that is now in the file.
IsNext(c) == VersionOf(run[c].seen) = VersionOf(policy[run[c].id])

\* savePolicy.  An initialisation always writes revision 1.  A refused one leaves
\* its pending record behind.
Save(c) ==
    /\ run[c].pc = "save"
    /\ LET k == run[c].id
           p == Granted(c, VersionOf(run[c].seen) + 1) IN
         IF IsNext(c)
         THEN /\ policy' = [policy EXCEPT ![k] = p]
              /\ IF run[c].ask.kind = "init" THEN Goto(c, "clear") ELSE Leave(c)
         ELSE Leave(c) /\ UNCHANGED policy
    /\ UNCHANGED <<git, files, key, pending, verifiers>>

\* A command fails on its input or output, is interrupted or killed.
Stop(c) ==
    /\ run[c] # Idle
    /\ Leave(c)
    /\ UNCHANGED <<git, files, key, pending, policy, verifiers>>

\* The user runs git init by hand.
UserInit ==
    /\ ~git
    /\ git' = TRUE
    /\ UNCHANGED <<files, key, pending, policy, verifiers, run>>

\* The user creates or writes one of the files.
UserWrites(f) ==
    /\ EditsInWindow \/ \A c \in Commands : run[c].pc = "rename" => run[c].file # f
    /\ files[f] # None => files[f].user < MaxEdits
    /\ files' = [files EXCEPT ![f] =
           IF @ = None THEN [user |-> 1, ours |-> FALSE]
           ELSE [user |-> @.user + 1, ours |-> @.ours]]
    /\ UNCHANGED <<git, key, pending, policy, verifiers, run>>

Next ==
    \/ UserInit \/ \E f \in HygieneFiles : UserWrites(f)
    \/ \E c \in Commands :
         \/ \E ask \in Asks : Begin(c, ask)
         \/ ReadKey(c) \/ CreateKey(c) \/ WriteKey(c)
         \/ SavePending(c) \/ CheckRoot(c) \/ GitInit(c) \/ CheckFile(c) \/ RenameFile(c)
         \/ Confirm(c) \/ ClearPending(c)
         \/ Load(c) \/ Install(c) \/ Save(c)
         \/ Stop(c)

Spec == Init /\ [][Next]_vars

-----------------------------------------------------------------------------
\* The shape of the state.
TypeOK ==
    /\ git \in BOOLEAN
    /\ files \in [HygieneFiles -> Contents \cup {None}]
    /\ key \in Commands \cup {None, Short}
    /\ pending \in [Commands -> Policies \cup {None}]
    /\ policy \in [Commands -> Policies \cup {None}]
    /\ verifiers \in [Commands -> VerifierSets \cup {None}]

\* main.go:1070: "a crash or failed init cannot leave usable stale consent
\* behind".  Whatever init, enable and disable commands interleave and die, a
\* policy is in force only for a repository that exists, and the consent of an
\* initialisation is not in force while that initialisation can still fail.
NoStaleConsent ==
    \A k \in Commands : policy[k] # None =>
        /\ git
        /\ \A c \in Commands :
              policy[k].by = <<c, "init">> => run[c].pc \in {"idle", "clear"} \/ run[c].ask.kind # "init"

\* A policy file that names the copied verifier configuration has one, although
\* the copy and the policy are two files and a command may die between them
\* (enable in runContext; policy.go:16: automatic completion "only when a trusted
\* verifier configuration has been copied into AutoGit state").
NamedVerifiersExist ==
    \A k \in Commands : policy[k] # None /\ policy[k].named => verifiers[k] # None

\* Every record of the state directory is filed under the one identity key on
\* disk, although two first commands may both find no key and draw one each
\* (loadIdentityKey): otherwise a consent would be filed where nobody looks.
OneIdentity ==
    /\ \A k \in Commands :
          pending[k] # None \/ policy[k] # None \/ verifiers[k] # None => key = k
    /\ \A c \in Commands : run[c] # Idle /\ run[c].id # None => run[c].id = key

\* No revision is overwritten by a command that did not read it: the policy that
\* a save replaces is the one its command had read before it built the new one
\* (savePolicy re-reads the revision under the lock), so a disable that raced an
\* enable is never undone by it.
NoLostUpdate ==
    [][\A k \in Commands : policy'[k] # policy[k] =>
           run[policy'[k].by[1]].seen = policy[k]]_vars

\* initialize.go:111: an initialisation never "overwrites existing user bytes".
\* The files are read before git init and written after it, with the user at work
\* in between; nothing the user has written by then is lost (applyHygieneFile),
\* unless it is written between the last check and the rename (EditsInWindow).
UserBytesKept ==
    [][\A f \in HygieneFiles : files[f] # None =>
           files'[f] # None /\ files'[f].user >= files[f].user]_vars
=============================================================================
