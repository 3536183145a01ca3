----------------------------- MODULE PublishGate -----------------------------
(***************************************************************************)
(* What stands between a commit and a hosted repository: autogit publish,  *)
(* retry and remote create (cmd/autogit/main.go), the public preflight     *)
(* (internal/publication), the scans of HistoryScan and the verifiers      *)
(* (internal/verification).                                                *)
(*                                                                         *)
(* One completed commit intent, recorded together with the digest of the   *)
(* verifier set it was verified with.  While commands run, the policy and  *)
(* the copied verifier configuration may be changed by other commands, the *)
(* executables of verifiers may be replaced (by a rename, as an upgrade    *)
(* does), and the commit may be undone.  What happens at the provider      *)
(* after the first contact is the subject of PushJob and RemoteCreate.     *)
(***************************************************************************)
EXTENDS HistoryScan

CONSTANTS
    Commands,       \* processes
    Pasts,          \* the histories a run may start from: commits numbered up to the tip
    Tip,            \* the commit of the intent
    Readme, License,\* paths of the two documents a public candidate must have
    Dests,          \* owner/name pairs
    Verifiers,      \* names of verifiers
    Configs,        \* verifier configurations: name -> how it is listed
    Exes,           \* contents an executable may have
    Bound,          \* verifiers are run from the descriptor that was fingerprinted (Linux)
    None,
    MaxChanges      \* bound on the changes others make

\* unlisted, applicable, not applicable, applicable without isolation.
Listed == {"absent", "on", "off", "bare"}

ASSUME GateAssumption ==
    /\ Tip \in Nat \ {0}
    /\ Pasts \subseteq Histories(Trees, Tip)
    /\ {Readme, License} \subseteq Paths
    /\ Configs \subseteq [Verifiers -> Listed]
    /\ Bound \in BOOLEAN
    /\ None \notin Dests \cup Configs
    /\ MaxChanges \in Nat

VARIABLES
    past,       \* the history of the commit
    recorded,   \* the verifier set whose digest the intent holds
    intact,     \* the AutoGit ref still names the commit
    policy,     \* the policy in force
    config,     \* the copied verifier configuration
    exe,        \* the executables of the verifiers, as they are now
    job,        \* the push job of the intent, or None
    run,        \* the commands
    contact,    \* ghost: what the provider was last asked to accept, and on which grounds
    changes

vars == <<past, recorded, intact, policy, config, exe, job, run, contact, changes>>

Idle == [pc |-> "idle"]

-----------------------------------------------------------------------------
(* Policies, as enable, init and disable write them.                        *)

NoPolicy == [tracking |-> "", localOnly |-> FALSE, visibility |-> "", dest |-> None,
             consent |-> FALSE]

Disabled == [NoPolicy EXCEPT !.tracking = "no"]

LocalPolicy ==
    [NoPolicy EXCEPT !.tracking = "local", !.localOnly = TRUE, !.visibility = "private"]

RemotePolicy(visibility, dest) ==
    [tracking |-> "yes", localOnly |-> FALSE, visibility |-> visibility, dest |-> dest,
     consent |-> visibility = "public"]

Remotes == {RemotePolicy(v, d) : v \in {"private", "public"}, d \in Dests}

Policies == {NoPolicy, Disabled, LocalPolicy} \cup Remotes

TrackingEnabled(p) == p.tracking \in {"yes", "local"}

CanPublishPublic(p) ==
    p.tracking = "yes" /\ p.visibility = "public" /\ p.consent /\ ~p.localOnly

\* The checks of publish and of remote create, in the order of the code.
PolicyAllows(p, mode, dest) ==
    /\ TrackingEnabled(p)
    /\ ~p.localOnly
    /\ p.visibility # "" => p.visibility = mode
    /\ p.dest # None => p.dest = dest
    /\ mode = "public" => CanPublishPublic(p)

\* The policy that grants exactly this publication.
Grants(p, mode, dest) == p = RemotePolicy(mode, dest)

-----------------------------------------------------------------------------
(* Verifier sets.                                                           *)

ListedIn(c) == {v \in Verifiers : c[v] # "absent"}

\* NewVerifierRegistry: every listed executable is fingerprinted.
Registry(c) == [v \in ListedIn(c) |-> [how |-> c[v], exe |-> exe[v]]]

\* Select for a public policy: the applicable ones; one without isolation refuses.
Selected(r) == {v \in DOMAIN r : r[v].how \in {"on", "bare"}}

Selectable(r) == \A v \in DOMAIN r : r[v].how # "bare"

Init ==
    /\ past \in Pasts
    /\ \E x \in Exes : exe = [v \in Verifiers |-> x]     \* a name for what each holds at first
    /\ config \in Configs
    /\ recorded = Registry(config)
    /\ intact = TRUE
    /\ policy \in {NoPolicy, LocalPolicy} \cup Remotes
    /\ job = None
    /\ run = [c \in Commands |-> Idle]
    /\ contact = None
    /\ changes = 0

Goto(c, pc) == run' = [run EXCEPT ![c].pc = pc]

Leave(c) == run' = [run EXCEPT ![c] = Idle]

Tree == past.tree[Tip]

\* What a command carries: its arguments, the registry it read, the evidence it
\* gathered, and (ghosts) the executables that passed the commit and whether a
\* policy granted what it is for at some moment since it began.
Command(kind, mode, dest, ready) ==
    [pc |-> IF kind = "publish" THEN "intent" ELSE "policy", kind |-> kind, mode |-> mode,
     dest |-> dest, ready |-> ready, granted |-> Grants(policy, mode, dest), registry |-> << >>,
     evidence |-> {}, todo |-> {}, passed |-> {}, ran |-> {}, at |-> None]

\* ready: license, confirmed destination, branch, tests and CI as the preflight
\* wants them.  parsePublishArgs: a public mode comes with --public-consent.
Publish(c, mode, dest, ready) ==
    /\ run[c] = Idle
    /\ ready => mode = "public"
    /\ run' = [run EXCEPT ![c] = Command("publish", mode, dest, ready)]
    /\ UNCHANGED <<past, recorded, intact, policy, config, exe, job, contact, changes>>

CreateRemote(c, mode, dest) ==
    /\ run[c] = Idle
    /\ run' = [run EXCEPT ![c] = Command("create", mode, dest, FALSE)]
    /\ UNCHANGED <<past, recorded, intact, policy, config, exe, job, contact, changes>>

\* The intent is completed and its ref names the recorded commit.
VerifyStoredCommit(c) ==
    /\ run[c].pc = "intent"
    /\ IF intact THEN Goto(c, "policy") ELSE Leave(c)
    /\ UNCHANGED <<past, recorded, intact, policy, config, exe, job, contact, changes>>

\* Where an allowed command goes: only a public publication has a preflight.
Allowed(c) ==
    Goto(c, CASE run[c].kind = "create" -> "create"
              [] run[c].kind = "publish" /\ run[c].mode = "public" -> "snapshot"
              [] run[c].kind = "publish" /\ run[c].mode = "private" -> "push")

\* Mutant: a publication that waits to be retried has its consent already.
CheckPolicyOnce(c) ==
    /\ run[c].pc = "policy"
    /\ IF \/ PolicyAllows(policy, run[c].mode, run[c].dest)
          \/ /\ run[c].kind = "publish" /\ job # None
             /\ job.why.mode = run[c].mode /\ job.why.dest = run[c].dest
       THEN Allowed(c) ELSE Leave(c)
    /\ UNCHANGED <<past, recorded, intact, policy, config, exe, job, contact, changes>>

\* loadPolicy and the consent checks.
CheckPolicy(c) ==
    /\ run[c].pc = "policy"
    /\ IF PolicyAllows(policy, run[c].mode, run[c].dest) THEN Allowed(c) ELSE Leave(c)
    /\ UNCHANGED <<past, recorded, intact, policy, config, exe, job, contact, changes>>

\* buildPublicPreflight: without a snapshot the report is a refusal.
ReadSnapshot(c) ==
    /\ run[c].pc = "snapshot"
    /\ IF Snapshot(Tree) THEN Goto(c, "candidate") ELSE Leave(c)
    /\ UNCHANGED <<past, recorded, intact, policy, config, exe, job, contact, changes>>

\* Evidence of one kind is there when its check passed; a check that failed to run
\* (git, limits, time) leaves none, and the others are still made.
Gather(c, kind, holds, pc) ==
    \E found \in {TRUE, FALSE} :
        /\ found => holds
        /\ run' = [run EXCEPT ![c].pc = pc,
                              ![c].evidence = IF found THEN @ \cup {kind} ELSE @]

ScanCandidate(c) ==
    /\ run[c].pc = "candidate"
    /\ Gather(c, "candidate", CandidateSafe(Tree), "history")
    /\ UNCHANGED <<past, recorded, intact, policy, config, exe, job, contact, changes>>

ScanHistory(c) ==
    /\ run[c].pc = "history"
    /\ Gather(c, "history", HistorySafe(past, Tip), "registry")
    /\ UNCHANGED <<past, recorded, intact, policy, config, exe, job, contact, changes>>

\* LoadTrustedRegistryFile: the copied configuration, named by the policy that was
\* read (or by --verifiers, which must lie in the state directory too).  A set that
\* cannot be loaded or selected leaves no verification evidence.
LoadRegistry(c) ==
    /\ run[c].pc = "registry"
    /\ \/ Goto(c, "evaluate")
       \/ /\ Selectable(Registry(config))
          /\ run' = [run EXCEPT ![c].registry = Registry(config),
                                ![c].todo = Selected(Registry(config)),
                                ![c].pc = "verify"]
    /\ UNCHANGED <<past, recorded, intact, policy, config, exe, job, contact, changes>>

\* runTrustedOne, first half: the executable is fingerprinted again by its path.
Recheck(c, v) ==
    /\ run[c].pc = "verify"
    /\ v \in run[c].todo
    /\ IF exe[v] = run[c].registry[v].exe
       THEN run' = [run EXCEPT ![c].at = v, ![c].pc = "open"]
       ELSE run' = [run EXCEPT ![c].todo = @ \ {v}]
    /\ UNCHANGED <<past, recorded, intact, policy, config, exe, job, contact, changes>>

\* Mutant: whatever the path holds by now is run.
OpenedMatchesAnything(c) == TRUE

\* The opened descriptor is fingerprinted where the platform can run a descriptor.
OpenedMatches(c) == Bound => exe[run[c].at] = run[c].registry[run[c].at].exe

\* runTrustedOne, second half: the verifier passes, fails or is out of time.
RunVerifier(c) ==
    /\ run[c].pc = "open"
    /\ LET v == run[c].at
           left == [run[c] EXCEPT !.pc = "verify", !.todo = @ \ {v}, !.at = None] IN
         \/ /\ OpenedMatches(c)
            /\ run' = [run EXCEPT ![c] = [left EXCEPT !.passed = @ \cup {v},
                                                      !.ran = @ \cup {<<v, exe[v]>>}]]
         \/ run' = [run EXCEPT ![c] = left]
    /\ UNCHANGED <<past, recorded, intact, policy, config, exe, job, contact, changes>>

\* Verify returns when every selected verifier has run.
Verified(c) ==
    /\ run[c].pc = "verify"
    /\ run[c].todo = {}
    /\ Goto(c, "evaluate")
    /\ UNCHANGED <<past, recorded, intact, policy, config, exe, job, contact, changes>>

Documented(tree) ==
    /\ tree[Readme] # Absent /\ tree[Readme].blob \notin Stubs
    /\ tree[License] # Absent

\* checkVerification: at least one verifier, all of them passed, and the set is the
\* one the intent was recorded with.
VerificationHolds(r) ==
    /\ r.registry = recorded
    /\ Selected(r.registry) # {}
    /\ r.passed = Selected(r.registry)

\* Evaluate: every reason refuses.
PublicAuthorized(r) ==
    /\ r.ready
    /\ {"candidate", "history"} \subseteq r.evidence
    /\ VerificationHolds(r)
    /\ Documented(Tree)

Evaluate(c) ==
    /\ run[c].pc = "evaluate"
    /\ IF PublicAuthorized(run[c]) THEN Goto(c, "confirm") ELSE Leave(c)
    /\ UNCHANGED <<past, recorded, intact, policy, config, exe, job, contact, changes>>

\* ConfirmRepository: the provider names this repository, and calls it public.
ConfirmRepository(c) ==
    /\ run[c].pc = "confirm"
    /\ Goto(c, "push") \/ Leave(c)
    /\ UNCHANGED <<past, recorded, intact, policy, config, exe, job, contact, changes>>

\* The grounds a command has for its contact.
Grounds(r) == [mode |-> r.mode, dest |-> r.dest, kind |-> r.kind, granted |-> r.granted, ran |-> r.ran]

Outcomes == {"RETRY_WAIT", "SUCCEEDED", "BLOCKED"}

\* coordinator.Push: the job is bound to destination and visibility by its digest; a
\* settled job, or another identity, is the end.
Push(c) ==
    /\ run[c].pc = "push"
    /\ LET mine == Grounds(run[c])
           same == job # None /\ job.why.mode = mine.mode /\ job.why.dest = mine.dest IN
         IF job = None \/ (same /\ job.state = "RETRY_WAIT")
         THEN \E o \in Outcomes :
                /\ job' = [state |-> o, why |-> mine]
                /\ contact' = mine
         ELSE UNCHANGED <<job, contact>>
    /\ Leave(c)
    /\ UNCHANGED <<past, recorded, intact, policy, config, exe, changes>>

\* autogit retry: only a waiting job, and only what the job says; the policy is
\* read after the push.
Retry(c) ==
    /\ run[c] = Idle
    /\ job # None /\ job.state = "RETRY_WAIT"
    /\ \E o \in Outcomes : job' = [job EXCEPT !.state = o]
    /\ contact' = [job.why EXCEPT !.kind = "retry",
                                  !.granted = Grants(policy, job.why.mode, job.why.dest)]
    /\ UNCHANGED <<past, recorded, intact, policy, config, exe, run, changes>>

\* RepositoryTransaction.Create asks the provider for the repository.
Create(c) ==
    /\ run[c].pc = "create"
    /\ contact' = Grounds(run[c])
    /\ Leave(c)
    /\ UNCHANGED <<past, recorded, intact, policy, config, exe, job, changes>>

\* A command fails, is interrupted or killed.
Stop(c) ==
    /\ run[c] # Idle
    /\ Leave(c)
    /\ UNCHANGED <<past, recorded, intact, policy, config, exe, job, contact, changes>>

-----------------------------------------------------------------------------
(* What happens meanwhile.                                                  *)

Change == changes < MaxChanges /\ changes' = changes + 1

\* enable, init and disable (module Consent).
SetPolicy(p) ==
    /\ Change
    /\ p # policy /\ p # NoPolicy
    /\ policy' = p
    /\ run' = [c \in Commands |->
                 IF run[c] = Idle THEN Idle
                 ELSE [run[c] EXCEPT !.granted = @ \/ Grants(p, run[c].mode, run[c].dest)]]
    /\ UNCHANGED <<past, recorded, intact, config, exe, job, contact>>

\* enable --verifiers replaces the copy before it writes the policy.
InstallConfig(k) ==
    /\ Change
    /\ k # config
    /\ config' = k
    /\ UNCHANGED <<past, recorded, intact, policy, exe, job, run, contact>>

\* Somebody upgrades a verifier.
ReplaceExecutable(v, x) ==
    /\ Change
    /\ x # exe[v]
    /\ exe' = [exe EXCEPT ![v] = x]
    /\ UNCHANGED <<past, recorded, intact, policy, config, job, run, contact>>

\* autogit operation undo (module GitCommit).
Undo ==
    /\ Change
    /\ intact
    /\ intact' = FALSE
    /\ UNCHANGED <<past, recorded, policy, config, exe, job, run, contact>>

Step(c) ==
    \/ \E m \in {"private", "public"}, d \in Dests :
         CreateRemote(c, m, d) \/ \E ready \in BOOLEAN : Publish(c, m, d, ready)
    \/ VerifyStoredCommit(c) \/ CheckPolicy(c) \/ ReadSnapshot(c) \/ ScanCandidate(c)
    \/ ScanHistory(c) \/ LoadRegistry(c) \/ RunVerifier(c) \/ Verified(c)
    \/ \E v \in Verifiers : Recheck(c, v)
    \/ Evaluate(c) \/ ConfirmRepository(c) \/ Push(c) \/ Retry(c) \/ Create(c) \/ Stop(c)

Next ==
    \/ \E c \in Commands : Step(c)
    \/ \E p \in Policies : SetPolicy(p)
    \/ \E k \in Configs : InstallConfig(k)
    \/ \E v \in Verifiers, x \in Exes : ReplaceExecutable(v, x)
    \/ Undo

Spec == Init /\ [][Next]_vars

-----------------------------------------------------------------------------
\* The shape of the state.
TypeOK ==
    /\ past \in Pasts
    /\ intact \in BOOLEAN
    /\ policy \in Policies
    /\ config \in Configs
    /\ exe \in [Verifiers -> Exes]
    /\ job = None \/ job.state \in Outcomes
    /\ changes \in 0..MaxChanges

\* A reference definition of the commits a branch publishes: those in every set
\* that holds the tip and the parents of its members.
Published(h) ==
    {c \in 1..Tip : \A S \in SUBSET (1..Tip) :
        Tip \in S /\ (\A x \in S : h.parents[x] \subseteq S) => c \in S}

IsPublicPush(k) == k # None /\ k.kind # "create" /\ k.mode = "public"

\* Nothing that a public push uncovers was left unread: in every commit the pushed
\* one reaches, each file is a regular one under an innocent name, without a
\* finding, in full and of readable size, and the tip has its two documents.  The
\* history scan drops duplicate entries and skips objects on purpose
\* (historyscan.go:404, :502), publish may be repeated, and retry does not look
\* again (runRetryContext).
PublicContactWasCleared ==
    IsPublicPush(contact) =>
        /\ \A c \in Published(past), p \in Paths :
              LET e == past.tree[c][p] IN
              e # Absent => /\ e.mode \in {"file", "exec"}
                            /\ p \notin Hot
                            /\ e.blob \notin Tainted \cup Pointers
                            /\ Size[e.blob] <= MaxBlobBytes
        /\ Tree[Readme] # Absent /\ Tree[License] # Absent

\* A public push was verified by the set the commit was recorded with: each
\* verifier of that set that applies passed it, run from the executable whose
\* digest the intent is bound to, however configuration and executables were
\* replaced while the command ran (runTrustedOne: "The executable is checked again
\* at execution time to close replacement and symlink races", policy.go:351).
VerifiedByRecordedSet ==
    IsPublicPush(contact) =>
        /\ Selected(recorded) # {}
        /\ contact.ran = {<<v, recorded[v].exe>> : v \in Selected(recorded)}

\* Once consent is withdrawn no new command goes on with what was granted before,
\* though an earlier publication may have left a job that waits: a publish or a
\* remote create contacts the provider only for a visibility and a destination
\* that a policy in force since the command began has granted
\* (runPublishContext, runRemoteContext).
NewCommandsNeedConsent ==
    contact # None /\ contact.kind # "retry" => contact.granted

\* The same of every contact ("Stop publication by selecting `disable` or a
\* local-only policy", docs/release-runbook.md:137; "`local-only` tracking MUST
\* invoke no provider operation and MUST NOT push an existing remote", FR-CNS-007,
\* docs/product-requirements.md:81).  The code does not keep it: retry pushes
\* before it reads the policy (runRetryContext, main.go:1997).
WithdrawalStopsPublication == contact # None => contact.granted
=============================================================================
