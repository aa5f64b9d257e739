--------------------------- MODULE OwnershipClaim ---------------------------
(***************************************************************************)
(* The ownership claim of packages/core/ownership-claim.ts: a readers and  *)
(* writer lock that unrelated processes take through the file system.      *)
(* One claim set is a directory `root` with                                *)
(*   exclusive/<id>.claim   at most one, published by renaming a directory *)
(*   shared/<id>.claim      any number, published by renaming a file       *)
(*   <id>.child             the process a holder spawned to do the work    *)
(*   .staging-<id>          a claim being prepared                         *)
(*                                                                         *)
(* An element of Claims is one call of tryAcquireClaim, the id it draws    *)
(* and the process that owns it.  Every system call that another process   *)
(* can observe is a step of its own, and a process may die between any two *)
(* of them.  Nothing runs on behalf of a dead process: the next caller     *)
(* surveys the set, decides who is dead and removes what they left.        *)
(***************************************************************************)
EXTENDS Naturals, FiniteSets

CONSTANTS
    Exclusive,        \* the calls made with mode 'exclusive'
    Shared,           \* the calls made with mode 'shared'
    PublishAttempts,  \* PUBLISH_ATTEMPTS, 64 in the code
    Spawners,         \* the holders that run their work in a spawned child
    Detached,         \* the spawners whose child leads a process group
    Doubtful          \* whether inspectProcessIdentity may be inconclusive

Claims == Exclusive \cup Shared

ASSUME ModesAssumption == Exclusive \cap Shared = {}

ASSUME AttemptsAssumption == PublishAttempts \in Nat \ {0}

ASSUME SpawnersAssumption == /\ Spawners \subseteq Claims
                             /\ Detached \subseteq Spawners
                             /\ Doubtful \in BOOLEAN

VARIABLES
    files,      \* the claims whose .claim file is in the directory of its mode
    sharedDir,  \* whether the directory shared/ exists
    staging,    \* .staging-<id>: absent, without its claim file, or complete
    child,      \* the .child file: absent, a pending mark, or a process record
    work,       \* the spawned process: its leader runs, only its group, or gone
    pc,         \* where each call stands; "dead" once its process has died
    handle,     \* whether the call has published its claim and not given it up
    attempts,   \* the publishing attempts a call has lost
    verdict     \* what the survey of a call says of every other claim

fsVars   == <<files, sharedDir, staging, child>>
callVars == <<pc, handle, attempts, verdict>>
vars     == <<files, sharedDir, staging, child, work, pc, handle, attempts, verdict>>

Verdicts ==
    {"none",        \* not listed, or gone when it was read
     "listed",      \* in the directory listing, not read yet
     "suspect",     \* its owner is gone; its child record is read next
     "live", "dead", "unresolved",
     "orphan",      \* a .child file without a .claim file
     "doomed"}      \* dead, and its .child file already unlinked

Steps ==
    {"idle", "list_exclusive", "read_exclusive", "read_shared", "reap",
     "mkdir", "write", "rename", "acquired", "pending",
     "release", "unlink", "done", "dead"}

TypeOK ==
    /\ files \subseteq Claims
    /\ sharedDir \in BOOLEAN
    /\ staging \in [Claims -> {"none", "empty", "full"}]
    /\ child \in [Claims -> {"none", "pending", "recorded"}]
    /\ work \in [Claims -> {"none", "leader", "group"}]
    /\ pc \in [Claims -> Steps]
    /\ handle \in [Claims -> BOOLEAN]
    /\ attempts \in [Claims -> 0..PublishAttempts]
    /\ verdict \in [Claims -> [Claims -> Verdicts]]

Init ==
    /\ files = {}
    /\ sharedDir = FALSE
    /\ staging = [c \in Claims |-> "none"]
    /\ child = [c \in Claims |-> "none"]
    /\ work = [c \in Claims |-> "none"]
    /\ pc = [c \in Claims |-> "idle"]
    /\ handle = [c \in Claims |-> FALSE]
    /\ attempts = [c \in Claims |-> 0]
    /\ verdict = [c \in Claims |-> [d \in Claims |-> "none"]]

-----------------------------------------------------------------------------
(***************************************************************************)
(* The state of the claim set.                                             *)
(***************************************************************************)

\* The process that made call c is alive.
Up(c) == pc[c] # "dead"

\* Some process of the group that c's spawned child leads is alive.
Working(c) == work[c] # "none"

\* The entries a directory holds: its claims and the child records beside them.
Entries(dir) == {d \in dir : d \in files \/ child[d] # "none"}

\* The answers of a survey that keep the surveyed claim in the way.
Pending == {"listed", "suspect"}

\* The survey of c has a claim of `dir` with this verdict.
Finds(c, dir, answer) == \E d \in dir : verdict[c][d] = answer

Clean == [d \in Claims |-> "none"]

\* Leave the survey: the call keeps only what it returned.
Goto(c, step) == /\ pc' = [pc EXCEPT ![c] = step]
                 /\ verdict' = [verdict EXCEPT ![c] = Clean]

-----------------------------------------------------------------------------
(***************************************************************************)
(* readClaimSet and survey: the listing of exclusive/, then of shared/.    *)
(***************************************************************************)

\* readdir of a directory; the .child files without a claim are orphans.
Listing(c, dir) ==
    [d \in Claims |-> IF d \notin dir THEN verdict[c][d]
                      ELSE IF d \in files THEN "listed"
                      ELSE IF child[d] # "none" THEN "orphan"
                      ELSE "none"]

ListExclusive(c) ==
    /\ pc[c] = "list_exclusive"
    /\ pc' = [pc EXCEPT ![c] = "read_exclusive"]
    /\ verdict' = [verdict EXCEPT ![c] = Listing(c, Exclusive)]
    /\ UNCHANGED <<fsVars, work, handle, attempts>>

ListShared(c) ==
    /\ pc[c] = "read_exclusive"
    /\ \A d \in Claims : verdict[c][d] \notin Pending
    /\ pc' = [pc EXCEPT ![c] = "read_shared"]
    /\ verdict' = [verdict EXCEPT ![c] = Listing(c, Shared)]
    /\ UNCHANGED <<fsVars, work, handle, attempts>>

\* Mutant of OwnerAnswers: a claim file is taken for a live holder.
OwnerAnswersFileIsLife(d) == IF d \in files THEN {"live"} ELSE {"none"}

\* readClaim and the owner's half of claimLiveness.  A claim that is gone is
\* skipped; an owner that is gone, or whose pid names another process, sends
\* the survey to the child record.
OwnerAnswers(d) ==
    IF d \notin files THEN {"none"}
    ELSE (IF Up(d) THEN {"live"} ELSE {"suspect"})
         \cup (IF Doubtful THEN {"unresolved"} ELSE {})

ReadOwner(c, d) ==
    /\ pc[c] \in {"read_exclusive", "read_shared"}
    /\ verdict[c][d] = "listed"
    /\ \A e \in Claims : verdict[c][e] # "suspect"
    /\ \E answer \in OwnerAnswers(d) :
          verdict' = [verdict EXCEPT ![c][d] = answer]
    /\ UNCHANGED <<fsVars, work, pc, handle, attempts>>

\* Mutant of ChildAnswers: a recorded child is followed only through the
\* process itself.
ChildAnswersLeaderOnly(d) ==
    CASE child[d] = "pending" -> {"unresolved"}
      [] child[d] = "recorded" /\ work[d] = "leader" -> {"live"}
      [] OTHER -> {"dead"}

\* childLiveness, read after the owner was found gone.  A pending mark is
\* unknown; a recorded child counts through its whole process group, whose
\* number, when recycled, reads as alive.
ChildAnswers(d) ==
    CASE child[d] = "none"    -> {"dead"}
      [] child[d] = "pending" -> {"unresolved"}
      [] OTHER -> (IF Working(d) THEN {"live"} ELSE {"dead"})
                  \cup (IF Doubtful THEN {"live", "unresolved"} ELSE {})

ReadChild(c, d) ==
    /\ verdict[c][d] = "suspect"
    /\ \E answer \in ChildAnswers(d) :
          verdict' = [verdict EXCEPT ![c][d] = answer]
    /\ UNCHANGED <<fsVars, work, pc, handle, attempts>>

-----------------------------------------------------------------------------
(***************************************************************************)
(* inspectClaimSet: refuse, or remove what the dead left, then answer.     *)
(***************************************************************************)

\* A survey with nothing left to read.
Surveyed(c) ==
    /\ pc[c] = "read_shared"
    /\ \A d \in Claims : verdict[c][d] \notin Pending

\* One unresolved claim refuses the call; settleOrRelease gives up the claim
\* it had published.
Refuse(c) ==
    /\ Surveyed(c)
    /\ Finds(c, Claims, "unresolved")
    /\ Goto(c, IF handle[c] THEN "release" ELSE "done")
    /\ UNCHANGED <<fsVars, work, handle, attempts>>

Resolve(c) ==
    /\ Surveyed(c)
    /\ ~Finds(c, Claims, "unresolved")
    /\ pc' = [pc EXCEPT ![c] = "reap"]
    /\ UNCHANGED <<fsVars, work, handle, attempts, verdict>>

RemoveOrphan(c, d) ==
    /\ pc[c] = "reap"
    /\ verdict[c][d] = "orphan"
    /\ child' = [child EXCEPT ![d] = "none"]
    /\ verdict' = [verdict EXCEPT ![c][d] = "none"]
    /\ UNCHANGED <<files, sharedDir, staging, work, pc, handle, attempts>>

\* reap reads the claim again: someone else may have removed it, ...
ReapGone(c, d) ==
    /\ pc[c] = "reap"
    /\ verdict[c][d] = "dead"
    /\ d \notin files
    /\ verdict' = [verdict EXCEPT ![c][d] = "none"]
    /\ UNCHANGED <<fsVars, work, pc, handle, attempts>>

\* ... else it unlinks its child record ...
ReapChild(c, d) ==
    /\ pc[c] = "reap"
    /\ ~Finds(c, Claims, "orphan")
    /\ ~Finds(c, Claims, "doomed")
    /\ verdict[c][d] = "dead"
    /\ d \in files
    /\ child' = [child EXCEPT ![d] = "none"]
    /\ verdict' = [verdict EXCEPT ![c][d] = "doomed"]
    /\ UNCHANGED <<files, sharedDir, staging, work, pc, handle, attempts>>

\* ... and last the claim itself.
ReapClaim(c, d) ==
    /\ pc[c] = "reap"
    /\ verdict[c][d] = "doomed"
    /\ files' = files \ {d}
    /\ verdict' = [verdict EXCEPT ![c][d] = "none"]
    /\ UNCHANGED <<sharedDir, staging, child, work, pc, handle, attempts>>

Reaped(c) ==
    /\ pc[c] = "reap"
    /\ \A d \in Claims : verdict[c][d] \in {"none", "live"}

\* tidy: rmdir removes shared/ only when it is empty, and only when the
\* survey saw no live reader.  For exclusive/ an empty and an absent
\* directory are the same to every operation.
TidyShared(c) ==
    sharedDir' = (sharedDir /\ (Finds(c, Shared, "live") \/ Entries(Shared) # {}))

-----------------------------------------------------------------------------
(***************************************************************************)
(* tryAcquireClaim and settleClaim.                                        *)
(***************************************************************************)

Begin(c) ==
    /\ pc[c] = "idle"
    /\ Goto(c, "list_exclusive")
    /\ UNCHANGED <<fsVars, work, handle, attempts>>

\* Mutant of Inspected: the attempts are never counted out.
InspectedUnbounded(c) ==
    /\ Reaped(c)
    /\ ~handle[c]
    /\ TidyShared(c)
    /\ Goto(c, IF Finds(c, Exclusive, "live") THEN "done" ELSE "mkdir")
    /\ UNCHANGED <<files, staging, child, work, handle, attempts>>

\* The inspection before publishing: a live exclusive claim answers `held`.
\* Past the last attempt a holder of either mode does, or the call is refused.
Inspected(c) ==
    /\ Reaped(c)
    /\ ~handle[c]
    /\ TidyShared(c)
    /\ Goto(c, IF Finds(c, Exclusive, "live") \/ attempts[c] = PublishAttempts
               THEN "done" ELSE "mkdir")
    /\ UNCHANGED <<files, staging, child, work, handle, attempts>>

\* createClaimDir: the staging directory of an exclusive claim, or shared/.
MakeStagingDir(c) ==
    /\ pc[c] = "mkdir"
    /\ c \in Exclusive
    /\ pc' = [pc EXCEPT ![c] = "write"]
    /\ staging' = [staging EXCEPT ![c] = "empty"]
    /\ UNCHANGED <<files, sharedDir, child, work, handle, attempts, verdict>>

MakeSharedDir(c) ==
    /\ pc[c] = "mkdir"
    /\ c \in Shared
    /\ pc' = [pc EXCEPT ![c] = "write"]
    /\ sharedDir' = TRUE
    /\ UNCHANGED <<files, staging, child, work, handle, attempts, verdict>>

\* writeFileSync of the record.
WriteStaging(c) ==
    /\ pc[c] = "write"
    /\ c \in Exclusive => staging[c] = "empty"
    /\ staging' = [staging EXCEPT ![c] = "full"]
    /\ pc' = [pc EXCEPT ![c] = "rename"]
    /\ UNCHANGED <<files, sharedDir, child, work, handle, attempts, verdict>>

\* Mutant of CanRename: a rename that replaces a directory with entries.
CanRenameOver(c) == staging[c] # "none" /\ (c \in Shared => sharedDir)

\* renameSync publishes.  A directory replaces exclusive/ only when that is
\* absent or empty; a file enters shared/ only while the directory exists.
CanRename(c) ==
    /\ staging[c] # "none"
    /\ IF c \in Exclusive THEN Entries(Exclusive) = {} ELSE sharedDir

Publish(c) ==
    /\ pc[c] = "rename"
    /\ CanRename(c)
    /\ files' = IF staging[c] = "full" THEN files \cup {c} ELSE files
    /\ staging' = [staging EXCEPT ![c] = "none"]
    /\ handle' = [handle EXCEPT ![c] = TRUE]
    /\ pc' = [pc EXCEPT ![c] = "list_exclusive"]
    /\ UNCHANGED <<sharedDir, child, work, attempts, verdict>>

\* ENOTEMPTY or ENOENT is contention: remove the staging entry, try again.
Retry(c) ==
    /\ \/ pc[c] = "write" /\ c \in Exclusive /\ staging[c] = "none"
       \/ pc[c] = "rename" /\ ~CanRename(c)
    /\ staging' = [staging EXCEPT ![c] = "none"]
    /\ attempts' = [attempts EXCEPT ![c] = @ + 1]
    /\ pc' = [pc EXCEPT ![c] = "list_exclusive"]
    /\ UNCHANGED <<files, sharedDir, child, work, handle, verdict>>

\* Mutants of Settlement: a reader that does not look again; one that returns
\* `held` and leaves its claim behind.
SettlementBlind(c) ==
    IF c \in Exclusive /\ Finds(c, Shared, "live") THEN "pending" ELSE "acquired"

SettlementLeft(c) ==
    IF c \in Shared
    THEN IF Finds(c, Exclusive, "live") THEN "done" ELSE "acquired"
    ELSE IF Finds(c, Shared, "live") THEN "pending" ELSE "acquired"

\* What the inspection after publishing makes of the claim: a reader yields to
\* a writer, a writer keeps its place while the readers it found drain.
Settlement(c) ==
    IF c \in Shared
    THEN IF Finds(c, Exclusive, "live") THEN "release" ELSE "acquired"
    ELSE IF Finds(c, Shared, "live") THEN "pending" ELSE "acquired"

Settled(c) ==
    /\ Reaped(c)
    /\ handle[c]
    /\ TidyShared(c)
    /\ Goto(c, Settlement(c))
    /\ UNCHANGED <<files, staging, child, work, handle, attempts>>

\* The holder of a pending claim polls settleClaim.
SettleClaim(c) ==
    /\ pc[c] = "pending"
    /\ pc' = [pc EXCEPT ![c] = "list_exclusive"]
    /\ UNCHANGED <<fsVars, work, handle, attempts, verdict>>

-----------------------------------------------------------------------------
(***************************************************************************)
(* releaseClaim, by the holder: the child record, then the claim, then the *)
(* empty directory.                                                        *)
(***************************************************************************)

\* A holder releases once what it spawned is gone.
Release(c) ==
    /\ pc[c] = "acquired"
    /\ ~Working(c)
    /\ pc' = [pc EXCEPT ![c] = "release"]
    /\ UNCHANGED <<fsVars, work, handle, attempts, verdict>>

\* Most callers (directory locks, build locks, slots) never keep a pending
\* claim: they release it at once.
GiveUpPending(c) ==
    /\ pc[c] = "pending"
    /\ pc' = [pc EXCEPT ![c] = "release"]
    /\ UNCHANGED <<fsVars, work, handle, attempts, verdict>>

ReleaseChild(c) ==
    /\ pc[c] = "release"
    /\ pc' = [pc EXCEPT ![c] = "unlink"]
    /\ child' = IF c \in files THEN [child EXCEPT ![c] = "none"] ELSE child
    /\ UNCHANGED <<files, sharedDir, staging, work, handle, attempts, verdict>>

ReleaseFile(c) ==
    /\ pc[c] = "unlink"
    /\ pc' = [pc EXCEPT ![c] = "done"]
    /\ handle' = [handle EXCEPT ![c] = FALSE]
    /\ files' = files \ {c}
    /\ sharedDir' = (sharedDir /\ (c \in Exclusive \/ (Entries(Shared) \ {c}) # {}))
    /\ UNCHANGED <<staging, child, work, attempts, verdict>>

-----------------------------------------------------------------------------
(***************************************************************************)
(* The work of a holder runs in a spawned child that can outlive it.       *)
(* spawnDeclared: mark the claim, spawn, record; forget on exit.           *)
(***************************************************************************)

\* markClaimChildPending, before the spawn.
DeclareChild(c) ==
    /\ c \in Spawners
    /\ pc[c] = "acquired"
    /\ child[c] = "none"
    /\ child' = [child EXCEPT ![c] = "pending"]
    /\ UNCHANGED <<files, sharedDir, staging, work, callVars>>

Spawn(c) ==
    /\ pc[c] = "acquired"
    /\ child[c] = "pending"
    /\ ~Working(c)
    /\ work' = [work EXCEPT ![c] = "leader"]
    /\ UNCHANGED <<fsVars, callVars>>

\* setClaimChild; best effort, the pending mark stays when it fails.
RecordChild(c) ==
    /\ pc[c] = "acquired"
    /\ child[c] = "pending"
    /\ work[c] = "leader"
    /\ child' = [child EXCEPT ![c] = "recorded"]
    /\ UNCHANGED <<files, sharedDir, staging, work, callVars>>

\* The child exits; the rest of the group it leads, if any, lives on.
ChildExit(c) ==
    /\ work[c] = "leader"
    /\ work' = [work EXCEPT ![c] = IF c \in Detached THEN "group" ELSE "none"]
    /\ UNCHANGED <<fsVars, callVars>>

GroupExit(c) ==
    /\ work[c] = "group"
    /\ work' = [work EXCEPT ![c] = "none"]
    /\ UNCHANGED <<fsVars, callVars>>

\* clearClaimChild, on a failed spawn or once nothing it spawned runs.
ClearChild(c) ==
    /\ pc[c] = "acquired"
    /\ child[c] # "none"
    /\ ~Working(c)
    /\ child' = [child EXCEPT ![c] = "none"]
    /\ UNCHANGED <<files, sharedDir, staging, work, callVars>>

-----------------------------------------------------------------------------
(***************************************************************************)
(* The environment: a process dies; a person runs the `rm -f <id>.claim`   *)
(* that a refusal prints, having checked that nothing uses the claim.      *)
(***************************************************************************)

Crash(c) ==
    /\ pc[c] \notin {"idle", "done", "dead"}
    /\ Goto(c, "dead")
    /\ handle' = [handle EXCEPT ![c] = FALSE]
    /\ attempts' = [attempts EXCEPT ![c] = 0]
    /\ UNCHANGED <<fsVars, work>>

RemoveByHand(d) ==
    /\ d \in files
    /\ ~Up(d)
    /\ ~Working(d)
    /\ child[d] # "none" \/ Doubtful
    /\ files' = files \ {d}
    /\ UNCHANGED <<sharedDir, staging, child, work, callVars>>

-----------------------------------------------------------------------------

\* The steps of the call c, one after the other.
Call(c) ==
    \/ Begin(c) \/ ListExclusive(c) \/ ListShared(c)
    \/ \E d \in Claims : ReadOwner(c, d) \/ ReadChild(c, d)
    \/ Refuse(c) \/ Resolve(c)
    \/ \E d \in Claims : RemoveOrphan(c, d) \/ ReapGone(c, d) \/ ReapChild(c, d) \/ ReapClaim(c, d)
    \/ Inspected(c) \/ MakeStagingDir(c) \/ MakeSharedDir(c) \/ WriteStaging(c)
    \/ Publish(c) \/ Retry(c) \/ Settled(c)
    \/ ReleaseChild(c) \/ ReleaseFile(c)

\* What its caller does with the claim it got.
Hold(c) ==
    \/ SettleClaim(c) \/ GiveUpPending(c) \/ Release(c)
    \/ DeclareChild(c) \/ Spawn(c) \/ RecordChild(c) \/ ClearChild(c)

Environment(c) == ChildExit(c) \/ GroupExit(c) \/ Crash(c) \/ RemoveByHand(c)

Next == \E c \in Claims : Call(c) \/ Hold(c) \/ Environment(c)

Spec == Init /\ [][Next]_vars

\* A live process goes on with its call and polls the claim it has pending, a
\* holder spawns finitely often and then lets go, a spawned process ends.
Fairness ==
    \A c \in Claims : /\ WF_vars(Call(c))
                      /\ WF_vars(SettleClaim(c))
                      /\ SF_vars(Release(c))
                      /\ WF_vars(ChildExit(c) \/ GroupExit(c))

FairSpec == Spec /\ Fairness

-----------------------------------------------------------------------------
(***************************************************************************)
(* Properties.                                                             *)
(***************************************************************************)

\* The claim protects something: its holder has it and lives, or the child it
\* was declared for still runs, its holder dead or not.
InUse(c) == pc[c] = "acquired" \/ Working(c)

\* A writer's claim excludes every other claim, also while the writer itself
\* is dead and only the child it spawned goes on: publishing and then looking
\* lets at most one of two incompatible calls through.
Exclusion ==
    \A c, d \in Claims :
        c # d /\ InUse(c) /\ InUse(d) => c \in Shared /\ d \in Shared

\* No survey, however stale, unlinks a claim that is in use: its file stays
\* where the next caller will find it.
InUseKept == \A c \in Claims : InUse(c) => c \in files

\* A call that ends without a handle, or that released it, leaves no claim,
\* no child record and no staging entry that would block a later caller.
NothingLeft ==
    \A c \in Claims : pc[c] = "done" =>
        c \notin files /\ child[c] = "none" /\ staging[c] = "none"

\* Every call ends: lost races are counted out, the readers a pending writer
\* waits for drain without new ones getting in front of it, and what a dead
\* process left, at whatever step it died, blocks nobody for good.
CallEnds == \A c \in Claims : pc[c] # "idle" ~> pc[c] \in {"done", "dead"}

\* The claims in use behave like the readers and writer lock of ClaimLock.
Lock == INSTANCE ClaimLock WITH holders <- {c \in Claims : InUse(c)}

ImplementsLock == Lock!Spec

-----------------------------------------------------------------------------
(***************************************************************************)
(* The inductive invariant behind them.                                    *)
(***************************************************************************)

\* While its owner lives, a claim file exists exactly as long as the owner's
\* handle, and a staging entry only between its creation and the rename.
Owned ==
    \A c \in Claims :
        /\ handle[c] => pc[c] \in {"list_exclusive", "read_exclusive", "read_shared",
                                   "reap", "acquired", "pending", "release", "unlink"}
        /\ pc[c] \in {"acquired", "pending", "release", "unlink"} => handle[c]
        /\ Up(c) => (c \in files <=> handle[c])
        /\ Up(c) => (staging[c] # "none" => pc[c] \in {"write", "rename"})

\* A running child is declared on a claim that is still in the set, and only
\* a holder has a child record.
Declared ==
    \A c \in Claims :
        /\ Working(c) => c \in files /\ child[c] # "none"
        /\ Working(c) /\ Up(c) => pc[c] = "acquired"
        /\ child[c] # "none" /\ Up(c) => handle[c] /\ pc[c] # "unlink"

\* A verdict that leads to an unlink stays true however old the survey is.
SurveysSound ==
    \A c, d \in Claims :
        /\ verdict[c][d] = "suspect" => ~Up(d)
        /\ verdict[c][d] \in {"dead", "doomed", "orphan"} => ~Up(d) /\ ~Working(d)

\* exclusive/ is replaced only when empty.
OneWriter == \A c, d \in Exclusive : c \in files /\ d \in files => c = d

\* c published, has listed d's directory since and found nothing there that
\* keeps d in its way.
Missed(c, d) ==
    \/ Working(c)
    \/ /\ handle[c]
       /\ \/ pc[c] = "acquired"
          \/ /\ \/ pc[c] \in {"read_shared", "reap"}
                \/ pc[c] = "read_exclusive" /\ d \in Exclusive
             /\ verdict[c][d] \notin {"listed", "suspect", "live", "unresolved"}

InForce(c) == handle[c] \/ Working(c)

\* Of a writer and a reader in force, the one that published last sees the
\* other: they never miss each other.
NeverBothMissed ==
    \A e \in Exclusive, s \in Shared :
        InForce(e) /\ InForce(s) => ~(Missed(e, s) /\ Missed(s, e))

\* A call publishes only while it has attempts left.
Counted ==
    \A c \in Claims :
        pc[c] \in {"mkdir", "write", "rename"} => attempts[c] < PublishAttempts

ClaimsSound == /\ TypeOK
               /\ Counted
               /\ Owned
               /\ Declared
               /\ SurveysSound
               /\ OneWriter
               /\ NeverBothMissed

\* What is renamed has its claim file: nobody touches the staging of a live call.
Staged == \A c \in Claims : pc[c] = "rename" => staging[c] = "full"

IndInv == ClaimsSound /\ Staged
=============================================================================
