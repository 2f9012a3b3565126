----------------------------- MODULE ConfigLock -----------------------------
(***************************************************************************)
(* The lock of the command line's configuration file: every command runs   *)
(* under it, and a lock left by a process that died is taken away under a  *)
(* second lock, the recovery lock.                                         *)
(*                                                                         *)
(*   Source: JsonFileClientStorage of apps/cli/src/storage.ts and runCli   *)
(*   of apps/cli/src/cli.ts.                                               *)
(*                                                                         *)
(* A lock file is a hard link to an owner record with a token of its own;  *)
(* link fails when the file is there, and unlink removes whatever is       *)
(* there.  A process acquires the lock once, for its command, and is       *)
(* itself the identity its records have: of a dead process one recovery    *)
(* record at most is left, so that a token adds nothing.  All processes    *)
(* are in one PID namespace; another one's are never taken for dead.       *)
(***************************************************************************)
EXTENDS Naturals

CONSTANTS
  Processes,
  NoProcess,   \* no file
  MaxDeaths    \* processes killed

VARIABLES
  lock,        \* config.json.lock
  recovery,    \* config.json.lock.recovery
  process,     \* where each process is, and the owner it has read
  deaths,
  overlaps     \* history: the windows of the code that a step fell into

lockVars == <<lock, recovery, process, deaths, overlaps>>

LockInit ==
  /\ lock = NoProcess /\ recovery = NoProcess
  /\ process = [p \in Processes |-> [at |-> "try", owner |-> NoProcess]]
  /\ deaths = 0 /\ overlaps = {}

-----------------------------------------------------------------------------
Where(p, at)    == process[p].at = at
Turns(p, at)    == process' = [process EXCEPT ![p].at = at]
Reads(p, at, o) == process' = [process EXCEPT ![p] = [at |-> at, owner |-> o]]
Stale(o)        == o # NoProcess /\ process[o].at = "dead"

\* withFileLock: link, or look at who has the lock.
Link(p) ==
  /\ Where(p, "try")
  /\ IF lock = NoProcess THEN lock' = p /\ Turns(p, "hold")
     ELSE UNCHANGED lock /\ Turns(p, "observe")
  /\ UNCHANGED <<recovery, deaths>>

TimeOut(p) ==
  /\ Where(p, "try") /\ lock # NoProcess
  /\ Turns(p, "gone")
  /\ UNCHANGED <<lock, recovery, deaths>>

\* recoverStaleLock
Observe(p) ==
  /\ Where(p, "observe")
  /\ IF Stale(lock) THEN Reads(p, "claim", lock) ELSE Turns(p, "try")
  /\ UNCHANGED <<lock, recovery, deaths>>

\* The recovery lock, or one that was abandoned.
ClaimRecovery(p) ==
  /\ Where(p, "claim")
  /\ IF recovery = NoProcess THEN recovery' = p /\ Turns(p, "recheck")
     ELSE /\ UNCHANGED recovery
          /\ IF Stale(recovery) THEN Reads(p, "abandoned", recovery) ELSE Turns(p, "try")
  /\ UNCHANGED <<lock, deaths>>

\* removeOwnedLock reads the file, and then unlinks what it has read.
RereadAbandoned(p) ==
  /\ Where(p, "abandoned")
  /\ Turns(p, IF recovery = process[p].owner THEN "sweep" ELSE "try")
  /\ UNCHANGED <<lock, recovery, deaths>>

UnlinkAbandoned(p) ==
  /\ Where(p, "sweep")
  /\ recovery' = NoProcess
  /\ Turns(p, "try")
  /\ UNCHANGED <<lock, deaths>>

\* Under the recovery lock the owner is compared again, and once more by
\* removeOwnedLock, before the stale lock is unlinked.
RecheckNothing(p) ==   \* bug: what was observed before is unlinked
  /\ Where(p, "recheck")
  /\ Turns(p, "unlink")
  /\ UNCHANGED <<lock, recovery, deaths>>

Recheck(p) ==
  /\ Where(p, "recheck")
  /\ Turns(p, IF lock = process[p].owner THEN "unlink" ELSE "release")
  /\ UNCHANGED <<lock, recovery, deaths>>

UnlinkStale(p) ==
  /\ Where(p, "unlink")
  /\ lock' = NoProcess
  /\ Turns(p, "release")
  /\ UNCHANGED <<recovery, deaths>>

ReleaseRecovery(p) ==
  /\ Where(p, "release")
  /\ Turns(p, IF recovery = p THEN "unlinkRecovery" ELSE "try")
  /\ UNCHANGED <<lock, recovery, deaths>>

UnlinkRecovery(p) ==
  /\ Where(p, "unlinkRecovery")
  /\ recovery' = NoProcess
  /\ Turns(p, "try")
  /\ UNCHANGED <<lock, deaths>>

\* The command has ended: the lock must be the one that was taken.
Release(p) ==
  /\ Where(p, "hold")
  /\ Turns(p, IF lock = p THEN "unlinkOwn" ELSE "gone")
  /\ UNCHANGED <<lock, recovery, deaths>>

UnlinkOwn(p) ==
  /\ Where(p, "unlinkOwn")
  /\ lock' = NoProcess
  /\ Turns(p, "gone")
  /\ UNCHANGED <<recovery, deaths>>

Die(p) ==
  /\ ~Where(p, "gone") /\ ~Where(p, "dead")
  /\ deaths < MaxDeaths /\ deaths' = deaths + 1
  /\ Turns(p, "dead")
  /\ UNCHANGED <<lock, recovery>>

Contend(p) ==
  \/ Link(p) \/ TimeOut(p) \/ Observe(p) \/ ClaimRecovery(p) \/ RereadAbandoned(p)
  \/ Recheck(p) \/ UnlinkStale(p) \/ ReleaseRecovery(p)
  \/ UnlinkRecovery(p) \/ Release(p) \/ UnlinkOwn(p)

\* A step that falls into a window is remembered; nothing keeps it from it.
Enters(window, in) == overlaps' = IF in THEN overlaps \cup {window} ELSE overlaps

\* Nothing is between the reading of an abandoned recovery lock and its
\* unlinking, and what is unlinked may be another process's by then.
Sweeps(p) == UnlinkAbandoned(p) /\ Enters("sweep", recovery # process[p].owner)

LockNext ==
  \E p \in Processes : Sweeps(p) \/ ((Contend(p) \/ Die(p)) /\ UNCHANGED overlaps)
LockSpec == LockInit /\ [][LockNext]_lockVars

-----------------------------------------------------------------------------
(* Properties *)

\* The lock file is its holder's for as long as the command runs, so that two
\* processes never write the configuration at once, whoever dies and whoever
\* cleans up after it: unless a sweep of an abandoned recovery lock has unlinked
\* another one than it read (removeOwnedLock).  After that there may be two
\* holders, although docs/architecture.md says that writes are locked.
HoldersHaveTheLock ==
  overlaps = {} =>
    \A p \in Processes : Where(p, "hold") \/ Where(p, "unlinkOwn") => lock = p
=============================================================================
