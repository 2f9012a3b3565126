---------------------------- MODULE PartsProofs ----------------------------
(***************************************************************************)
(* Five of the smaller parts, each for itself: the configuration lock of   *)
(* the command line, the notes a browser receives from its extension, the  *)
(* shares a browser accepts, the bytes of an attachment, and the clips of  *)
(* the command line.                                                       *)
(***************************************************************************)
EXTENDS ConfigLock, Received, TLAPS

-----------------------------------------------------------------------------
(* The configuration lock: one process at a time holds it, whatever dies and whoever
   cleans up, until a recovery lock is swept away that was renewed since it was read *)

LockPlaces ==
  {"try", "hold", "observe", "claim", "abandoned", "sweep", "recheck", "unlink",
   "release", "unlinkRecovery", "unlinkOwn", "gone", "dead"}

LockTypes ==
  /\ lock \in Processes \cup {NoProcess}
  /\ recovery \in Processes \cup {NoProcess}
  /\ process \in [Processes -> [at : LockPlaces, owner : Processes \cup {NoProcess}]]

\* Who works under the recovery lock has it, until a sweep took it away.
Recovers(p) == process[p].at \in {"recheck", "unlink", "release", "unlinkRecovery"}

RecoveryIsOwned == overlaps = {} => \A p \in Processes : Recovers(p) => recovery = p

\* An owner that was read and found stale is a process that is dead.
Accuses(p) == process[p].at \in {"claim", "abandoned", "sweep", "recheck", "unlink"}

AccusedAreDead ==
  \A p \in Processes : Accuses(p) =>
    process[p].owner \in Processes /\ process[process[p].owner].at = "dead"

\* The lock that is about to be unlinked is still that of the dead process.
UnlinkedIsStale ==
  overlaps = {} => \A p \in Processes : Where(p, "unlink") => lock = process[p].owner

LockInv ==
  /\ LockTypes /\ RecoveryIsOwned /\ AccusedAreDead /\ UnlinkedIsStale
  /\ HoldersHaveTheLock

\* LockInv holds at first: nobody has started.
LEMMA LockInvInit == LockInit => LockInv
  BY DEF LockInit, LockInv, LockTypes, LockPlaces, RecoveryIsOwned, Recovers, AccusedAreDead,
         Accuses, UnlinkedIsStale, HoldersHaveTheLock, Where

\* A process that goes elsewhere changes its own place and no other one's, and
\* the owner it has read only when it reads one.
LEMMA TurnsOne ==
  ASSUME LockTypes, NEW p \in Processes, NEW at \in LockPlaces, Turns(p, at)
  PROVE  /\ process' \in [Processes -> [at : LockPlaces, owner : Processes \cup {NoProcess}]]
         /\ process'[p].at = at /\ process'[p].owner = process[p].owner
         /\ \A q \in Processes \ {p} : process'[q] = process[q]
  BY DEF LockTypes, Turns

LEMMA ReadsOne ==
  ASSUME LockTypes, NEW p \in Processes, NEW at \in LockPlaces,
         NEW o \in Processes \cup {NoProcess}, Reads(p, at, o)
  PROVE  /\ process' \in [Processes -> [at : LockPlaces, owner : Processes \cup {NoProcess}]]
         /\ process'[p].at = at /\ process'[p].owner = o
         /\ \A q \in Processes \ {p} : process'[q] = process[q]
  BY DEF LockTypes, Reads

\* The dead stay dead: no step moves them.
LEMMA DeadStayDead ==
  ASSUME LockTypes, NEW p \in Processes, Contend(p) \/ UnlinkAbandoned(p) \/ Die(p)
  PROVE  \A q \in Processes :
           Where(q, "dead") => process'[q] = process[q] /\ q # p
  BY DEF LockTypes, Where, Contend, Die, Link, TimeOut, Observe, ClaimRecovery,
         RereadAbandoned, UnlinkAbandoned, Recheck, UnlinkStale, ReleaseRecovery,
         UnlinkRecovery, Release, UnlinkOwn, Turns, Reads

\* Every step keeps the invariant.  The lock is unlinked by its holder or, under
\* the recovery lock, after it was found to be a dead process's: neither can be
\* while another process holds it.  A sweep of a renewed recovery lock is in the
\* history from then on, and what is owned is not claimed any more.
LEMMA LockInvStep ==
  ASSUME NoProcess \notin Processes, LockInv, NEW p \in Processes,
         Sweeps(p) \/ ((Contend(p) \/ Die(p)) /\ UNCHANGED overlaps)
  PROVE  LockInv'
<1> USE DEF LockInv
<1>d. \A q \in Processes : Where(q, "dead") => process'[q] = process[q] /\ q # p
  BY DeadStayDead DEF Sweeps
<1>o. overlaps' = {} => overlaps = {}
  BY DEF Sweeps, Enters
<1> DEFINE Moved(at, o) ==
      /\ process' \in [Processes -> [at : LockPlaces, owner : Processes \cup {NoProcess}]]
      /\ process'[p].at = at /\ process'[p].owner = o
      /\ \A q \in Processes \ {p} : process'[q] = process[q]
<1>t. ASSUME NEW at \in LockPlaces, Turns(p, at) PROVE Moved(at, process[p].owner)
  BY <1>t, TurnsOne
<1>r. ASSUME NEW at \in LockPlaces, NEW o \in Processes \cup {NoProcess}, Reads(p, at, o)
      PROVE  Moved(at, o)
  BY <1>r, ReadsOne
<1> USE DEF LockTypes, RecoveryIsOwned, Recovers, AccusedAreDead, Accuses,
            UnlinkedIsStale, HoldersHaveTheLock, Where
<1>1. CASE Link(p)
  <2>1. CASE lock = NoProcess
    <3>1. Moved("hold", process[p].owner) /\ lock' = p /\ recovery' = recovery
      BY <1>1, <2>1, <1>t DEF Link, LockPlaces
    <3> HIDE DEF Moved
    <3>2. QED
      BY <3>1, <2>1, <1>d, <1>o DEF Moved
  <2>2. CASE lock # NoProcess
    <3>1. Moved("observe", process[p].owner) /\ UNCHANGED <<lock, recovery>>
      BY <1>1, <2>2, <1>t DEF Link, LockPlaces
    <3>2. QED
      BY <3>1, <1>d, <1>o
  <2>3. QED
    BY <2>1, <2>2
<1>2. CASE TimeOut(p)
  <2>1. Moved("gone", process[p].owner) /\ UNCHANGED <<lock, recovery>>
    BY <1>2, <1>t DEF TimeOut, LockPlaces
  <2>2. QED
    BY <2>1, <1>d, <1>o
<1>3. CASE Observe(p)
  <2>1. CASE Stale(lock)
    <3>1. Moved("claim", lock) /\ UNCHANGED <<lock, recovery>>
      BY <1>3, <2>1, <1>r DEF Observe, LockPlaces
    <3>2. lock \in Processes /\ process[lock].at = "dead"
      BY <2>1 DEF Stale
    <3>3. QED
      BY <3>1, <3>2, <1>d, <1>o
  <2>2. CASE ~Stale(lock)
    <3>1. Moved("try", process[p].owner) /\ UNCHANGED <<lock, recovery>>
      BY <1>3, <2>2, <1>t DEF Observe, LockPlaces
    <3>2. QED
      BY <3>1, <1>d, <1>o
  <2>3. QED
    BY <2>1, <2>2
<1>4. CASE ClaimRecovery(p)
  <2>1. CASE recovery = NoProcess
    <3>1. Moved("recheck", process[p].owner) /\ recovery' = p /\ lock' = lock
      BY <1>4, <2>1, <1>t DEF ClaimRecovery, LockPlaces
    <3>2. QED
      BY <3>1, <2>1, <1>4, <1>d, <1>o DEF ClaimRecovery
  <2>2. CASE recovery # NoProcess /\ Stale(recovery)
    <3>1. Moved("abandoned", recovery) /\ UNCHANGED <<lock, recovery>>
      BY <1>4, <2>2, <1>r DEF ClaimRecovery, LockPlaces
    <3>2. recovery \in Processes /\ process[recovery].at = "dead"
      BY <2>2 DEF Stale
    <3>3. QED
      BY <3>1, <3>2, <1>d, <1>o
  <2>3. CASE recovery # NoProcess /\ ~Stale(recovery)
    <3>1. Moved("try", process[p].owner) /\ UNCHANGED <<lock, recovery>>
      BY <1>4, <2>3, <1>t DEF ClaimRecovery, LockPlaces
    <3>2. QED
      BY <3>1, <1>d, <1>o
  <2>4. QED
    BY <2>1, <2>2, <2>3
<1>5. CASE RereadAbandoned(p)
  <2>1. \/ Moved("sweep", process[p].owner)
        \/ Moved("try", process[p].owner)
    BY <1>5, <1>t DEF RereadAbandoned, LockPlaces
  <2>2. UNCHANGED <<lock, recovery>> /\ process[p].at = "abandoned"
    BY <1>5 DEF RereadAbandoned
  <2>3. QED
    BY <2>1, <2>2, <1>d, <1>o
<1>6. CASE Sweeps(p)
  <2>1. Moved("try", process[p].owner) /\ lock' = lock /\ recovery' = NoProcess
    BY <1>6, <1>t DEF Sweeps, UnlinkAbandoned, LockPlaces
  <2>2. overlaps' = {} => recovery \in Processes /\ process[recovery].at = "dead"
    BY <1>6 DEF Sweeps, Enters, UnlinkAbandoned
  <2>3. QED
    BY <2>1, <2>2, <1>d, <1>o
<1>7. CASE Recheck(p)
  <2>1. \/ Moved("unlink", process[p].owner) /\ lock = process[p].owner
        \/ Moved("release", process[p].owner)
    BY <1>7, <1>t DEF Recheck, LockPlaces
  <2>2. UNCHANGED <<lock, recovery>> /\ process[p].at = "recheck"
    BY <1>7 DEF Recheck
  <2>3. QED
    BY <2>1, <2>2, <1>d, <1>o
<1>8. CASE UnlinkStale(p)
  <2>1. Moved("release", process[p].owner) /\ lock' = NoProcess /\ recovery' = recovery
    BY <1>8, <1>t DEF UnlinkStale, LockPlaces
  <2>2. /\ process[p].at = "unlink"
        /\ overlaps = {} => recovery = p /\ lock \in Processes /\ process[lock].at = "dead"
    BY <1>8 DEF UnlinkStale
  <2>3. QED
    BY <2>1, <2>2, <1>d, <1>o
<1>9. CASE ReleaseRecovery(p)
  <2>1. \/ Moved("unlinkRecovery", process[p].owner)
        \/ Moved("try", process[p].owner)
    BY <1>9, <1>t DEF ReleaseRecovery, LockPlaces
  <2>2. UNCHANGED <<lock, recovery>> /\ process[p].at = "release"
    BY <1>9 DEF ReleaseRecovery
  <2>3. QED
    BY <2>1, <2>2, <1>d, <1>o
<1>10. CASE UnlinkRecovery(p)
  <2>1. Moved("try", process[p].owner) /\ lock' = lock /\ recovery' = NoProcess
    BY <1>10, <1>t DEF UnlinkRecovery, LockPlaces
  <2>2. process[p].at = "unlinkRecovery" /\ (overlaps = {} => recovery = p)
    BY <1>10 DEF UnlinkRecovery
  <2>3. QED
    BY <2>1, <2>2, <1>d, <1>o
<1>11. CASE Release(p)
  <2>1. \/ Moved("unlinkOwn", process[p].owner)
        \/ Moved("gone", process[p].owner)
    BY <1>11, <1>t DEF Release, LockPlaces
  <2>2. UNCHANGED <<lock, recovery>> /\ process[p].at = "hold"
    BY <1>11 DEF Release
  <2>3. QED
    BY <2>1, <2>2, <1>d, <1>o
<1>12. CASE UnlinkOwn(p)
  <2>1. Moved("gone", process[p].owner) /\ lock' = NoProcess /\ recovery' = recovery
    BY <1>12, <1>t DEF UnlinkOwn, LockPlaces
  <2>2. process[p].at = "unlinkOwn" /\ (overlaps = {} => lock = p)
    BY <1>12 DEF UnlinkOwn
  <2>3. QED
    BY <2>1, <2>2, <1>d, <1>o
<1>13. CASE Die(p)
  <2>1. Moved("dead", process[p].owner) /\ UNCHANGED <<lock, recovery>>
    BY <1>13, <1>t DEF Die, LockPlaces
  <2>2. QED
    BY <2>1, <1>d, <1>o
<1>14. QED
  BY <1>1, <1>2, <1>3, <1>4, <1>5, <1>6, <1>7, <1>8, <1>9, <1>10, <1>11, <1>12, <1>13
  DEF Contend

\* The configuration is written by one process at a time (docs/architecture.md:
\* "Config writes are locked across processes"), for any number of processes and
\* deaths, unless an abandoned recovery lock is swept away that another process
\* has renewed since it was read (storage.ts:330).
THEOREM OneHolder ==
  ASSUME NoProcess \notin Processes
  PROVE  LockSpec => []HoldersHaveTheLock
<1>1. LockInit => LockInv
  BY LockInvInit
<1>2. LockInv /\ [LockNext]_lockVars => LockInv'
  <2> SUFFICES ASSUME LockInv, [LockNext]_lockVars PROVE LockInv'
    OBVIOUS
  <2>1. CASE LockNext
    BY <2>1, LockInvStep DEF LockNext
  <2>2. CASE UNCHANGED lockVars
    BY <2>2 DEF lockVars, LockInv, LockTypes, RecoveryIsOwned, Recovers, AccusedAreDead,
                Accuses, UnlinkedIsStale, HoldersHaveTheLock, Where
  <2>3. QED
    BY <2>1, <2>2
<1>3. LockInv => HoldersHaveTheLock
  BY DEF LockInv
<1>4. QED
  BY <1>1, <1>2, <1>3, PTL DEF LockSpec

-----------------------------------------------------------------------------
(* A received note has its bytes, for any number of tabs that receive it, of
   attachments, of claims that expire, and of failures *)

ReceiverPlaces ==
  {"idle", "renew", "stage", "finalize", "push", "check", "discard", "release"}

Receiver(n) == [at : ReceiverPlaces, token : Nat, staged : 0..n, owned : BOOLEAN]

\* The attachments are numbered, and a tab stages them in this order.
InPlace(n, r) ==
  /\ r.at = "stage" => r.staged + 1 \in Attachments
  /\ r.at = "finalize" => r.staged = n

ReceivedTypes(n) ==
  /\ claim \in [token : Nat, fresh : BOOLEAN]
  /\ created \in BOOLEAN
  /\ stored \in [Attachments -> [gen : Nat, staged : BOOLEAN]]
  /\ receiver \in [Tabs -> Receiver(n)]
  /\ claims \in Nat
  /\ \A t \in Tabs : InPlace(n, receiver[t])

\* A token is one tab's, and the claim in force is the latest.
TokensAreOnce ==
  /\ claim.token \in {0, claims}
  /\ \A t \in Tabs : /\ receiver[t].token <= claims
                     /\ ~At(t, "idle") => receiver[t].token > 0
  /\ \A t, u \in Tabs :
       t # u /\ receiver[t].token = receiver[u].token => At(t, "idle") \/ At(u, "idle")

\* What the tab that holds the claim has staged is there, under its token.
StagedAreThere ==
  \A t \in Tabs :
    receiver[t].at \in {"renew", "stage", "finalize"} /\ Holds(t) =>
      \A a \in Attachments : a <= receiver[t].staged => stored[a].gen = receiver[t].token

\* Once the note exists its bytes have the last token, no claim is in force, and
\* the tab with that token will not discard any more.
NoteIsSealed ==
  created =>
    /\ claims > 0 /\ claim.token = 0
    /\ \A a \in Attachments : stored[a].gen = claims
    /\ \A t \in Tabs : receiver[t].token = claims => receiver[t].at \in {"idle", "push", "check"}

ReceivedInv(n) ==
  ReceivedTypes(n) /\ TokensAreOnce /\ StagedAreThere /\ NoteIsSealed

LEMMA ReceivedInvInit ==
  ASSUME NEW n \in Nat, ReceivedInit
  PROVE  ReceivedInv(n)
<1>1. /\ claim.token = 0 /\ claims = 0 /\ created = FALSE
      /\ \A t \in Tabs : receiver[t] = Waiting
  BY DEF ReceivedInit, NoClaim
<1>2. ReceivedTypes(n)
  <2>1. Waiting \in Receiver(n) /\ InPlace(n, Waiting)
    BY DEF Waiting, ReceiverPlaces, Receiver, InPlace
  <2>2. NoClaim \in [token : Nat, fresh : BOOLEAN] /\ Nothing \in [gen : Nat, staged : BOOLEAN]
    BY DEF NoClaim, Nothing
  <2> QED
    BY <1>1, <2>1, <2>2 DEF ReceivedInit, ReceivedTypes
<1> QED
  BY <1>1, <1>2 DEF ReceivedInv, TokensAreOnce, StagedAreThere, NoteIsSealed, Waiting, At

\* The tab that steps, and the others.
LEMMA MovesOne ==
  ASSUME NEW n \in Nat, ReceivedTypes(n), NEW t \in Tabs, NEW r, Moves(t, r)
  PROVE  receiver'[t] = r /\ \A u \in Tabs : u # t => receiver'[u] = receiver[u]
BY DEF Moves, ReceivedTypes

LEMMA LeadsOne ==
  ASSUME NEW n \in Nat, ReceivedTypes(n), NEW t \in Tabs, NEW at, Leads(t, at)
  PROVE  /\ receiver'[t].at = at /\ receiver'[t].token = receiver[t].token
         /\ receiver'[t].staged = receiver[t].staged
         /\ receiver'[t].owned = receiver[t].owned
         /\ \A u \in Tabs : u # t => receiver'[u] = receiver[u]
<1>1. receiver[t] \in Receiver(n)
  BY DEF ReceivedTypes
<1> DEFINE r == [receiver[t] EXCEPT !.at = at]
<1>2. /\ r.at = at /\ r.token = receiver[t].token
      /\ r.staged = receiver[t].staged /\ r.owned = receiver[t].owned
  BY <1>1 DEF Receiver
<1>3. Moves(t, r)
  BY DEF Leads
<1> HIDE DEF r
<1> QED
  BY <1>2, <1>3, MovesOne

-----------------------------------------------------------------------------
(* Types *)

\* A step of one tab keeps the types, if it does so at that tab.
LEMMA TabTypes ==
  ASSUME NEW n \in Nat, ReceivedTypes(n), NEW t \in Tabs, NEW r,
         receiver' = receiver \/ Moves(t, r), r \in Receiver(n) /\ InPlace(n, r),
         claim' \in [token : Nat, fresh : BOOLEAN], created' \in BOOLEAN,
         stored' \in [Attachments -> [gen : Nat, staged : BOOLEAN]], claims' \in Nat
  PROVE  ReceivedTypes(n)'
BY DEF ReceivedTypes, Moves

LEMMA ReceivedTypesStep ==
  ASSUME NEW n \in Nat, Attachments = 1..n, ReceivedTypes(n), ReceivedNext
  PROVE  ReceivedTypes(n)'
<1>1. Waiting \in Receiver(n) /\ InPlace(n, Waiting)
  BY DEF Waiting, Receiver, InPlace, ReceiverPlaces
<1>2. /\ NoClaim \in [token : Nat, fresh : BOOLEAN]
      /\ \A f \in BOOLEAN : [claim EXCEPT !.fresh = f] \in [token : Nat, fresh : BOOLEAN]
      /\ Nothing \in [gen : Nat, staged : BOOLEAN]
      /\ \A a \in Attachments : [stored[a] EXCEPT !.staged = FALSE] \in [gen : Nat, staged : BOOLEAN]
  BY DEF NoClaim, Nothing, ReceivedTypes
<1>3. ASSUME NEW t \in Tabs
      PROVE  /\ receiver[t] \in Receiver(n)
             /\ \A at \in ReceiverPlaces \ {"stage", "finalize"} :
                  LET r == [receiver[t] EXCEPT !.at = at] IN r \in Receiver(n) /\ InPlace(n, r)
  BY DEF ReceivedTypes, Receiver, InPlace
<1>4. ASSUME NEW t \in Tabs, ClaimNote(t)
      PROVE  ReceivedTypes(n)'
  <2> DEFINE r == [Waiting EXCEPT !.at = "renew", !.token = claims', !.owned = TRUE]
  <2>1. claims' \in Nat /\ claim' \in [token : Nat, fresh : BOOLEAN]
    <3>1. /\ claims' = claims \/ claims' = claims + 1
          /\ claim' = NoClaim \/ claim' = [token |-> claims', fresh |-> TRUE]
      BY <1>4 DEF ClaimNote
    <3>2. claims' \in Nat
      BY <3>1 DEF ReceivedTypes
    <3> QED
      <4>1. CASE claim' = NoClaim
        BY <1>2, <3>2, <4>1
      <4>2. CASE claim' = [token |-> claims', fresh |-> TRUE]
        BY <3>2, <4>2
      <4> QED
        BY <3>1, <3>2, <4>1, <4>2
  <2>2. r \in Receiver(n) /\ InPlace(n, r)
    <3>1. r \in Receiver(n)
      <4> DEFINE token == claims'
                 first == [Waiting EXCEPT !.at = "renew"]
                 second == [first EXCEPT !.token = token]
      <4>1. first \in Receiver(n)
        BY <1>1 DEF Receiver, ReceiverPlaces
      <4>2. token \in Nat
        BY <2>1
      <4>3. r = [second EXCEPT !.owned = TRUE]
        OBVIOUS
      <4> HIDE DEF token, first
      <4>4. second \in Receiver(n)
        BY <4>1, <4>2 DEF Receiver
      <4> HIDE DEF second, r
      <4> QED
        BY <4>3, <4>4 DEF Receiver
    <3>2. r.at = "renew"
      BY DEF Waiting
    <3> HIDE DEF r
    <3> QED
      BY <3>1, <3>2 DEF InPlace
  <2>3. receiver' = receiver \/ Moves(t, r)
    BY <1>4 DEF ClaimNote
  <2> HIDE DEF r
  <2> QED
    BY <1>4, <2>1, <2>2, <2>3, TabTypes DEF ClaimNote, ReceivedTypes
<1>5. ASSUME NEW t \in Tabs, RenewClaim(t)
      PROVE  ReceivedTypes(n)'
  <2> DEFINE place == IF receiver[t].staged + 1 \in Attachments THEN "stage" ELSE "finalize"
             r == [receiver[t] EXCEPT !.at = place]
             lost == [receiver[t] EXCEPT !.at = "check", !.owned = FALSE]
  <2>1. r \in Receiver(n) /\ InPlace(n, r)
    BY <1>3 DEF Receiver, InPlace, ReceiverPlaces
  <2>2. lost \in Receiver(n) /\ InPlace(n, lost)
    <3>1. receiver[t] \in Receiver(n)
      BY <1>3
    <3>2. lost \in Receiver(n)
      BY <3>1 DEF Receiver, ReceiverPlaces
    <3>3. lost.at = "check"
      BY <3>1 DEF Receiver
    <3> HIDE DEF lost
    <3> QED
      BY <3>2, <3>3 DEF InPlace
  <2>3. Moves(t, r) \/ Moves(t, lost)
    BY <1>5 DEF RenewClaim, Leads
  <2>4. claim' \in [token : Nat, fresh : BOOLEAN]
    BY <1>2, <1>5 DEF RenewClaim, ReceivedTypes
  <2> HIDE DEF r, lost
  <2> QED
    BY <1>5, <2>1, <2>2, <2>3, <2>4, TabTypes DEF RenewClaim, ReceivedTypes
<1>6. ASSUME NEW t \in Tabs, Beat(t)
      PROVE  ReceivedTypes(n)'
  <2> DEFINE r == [receiver[t] EXCEPT !.owned = FALSE]
  <2>1. r \in Receiver(n) /\ InPlace(n, r)
    BY <1>3 DEF Receiver, InPlace, ReceivedTypes
  <2>2. receiver' = receiver \/ Moves(t, r)
    BY <1>6 DEF Beat
  <2>3. claim' \in [token : Nat, fresh : BOOLEAN]
    BY <1>2, <1>6 DEF Beat, ReceivedTypes
  <2> HIDE DEF r
  <2> QED
    BY <1>6, <2>1, <2>2, <2>3, TabTypes DEF Beat, ReceivedTypes
<1>7. ASSUME NEW t \in Tabs, StageReceived(t)
      PROVE  ReceivedTypes(n)'
  <2> DEFINE next == receiver[t].staged + 1
             bytes == [gen |-> receiver[t].token, staged |-> TRUE]
             r == [receiver[t] EXCEPT !.at = "renew", !.staged = next]
             lost == [receiver[t] EXCEPT !.at = "check"]
  <2>1. next \in 1..n
    BY <1>7 DEF StageReceived, ReceivedTypes, InPlace, At
  <2>2. r \in Receiver(n) /\ InPlace(n, r)
    <3>1. receiver[t] \in Receiver(n)
      BY <1>3
    <3>2. r \in Receiver(n)
      <4>1. next \in 0..n
        BY <2>1
      <4> HIDE DEF next
      <4> QED
        BY <3>1, <4>1 DEF Receiver, ReceiverPlaces
    <3>3. r.at = "renew"
      BY <3>1 DEF Receiver
    <3> HIDE DEF r
    <3> QED
      BY <3>2, <3>3 DEF InPlace
  <2>3. lost \in Receiver(n) /\ InPlace(n, lost)
    BY <1>3 DEF ReceiverPlaces
  <2>4. Moves(t, r) \/ Moves(t, lost)
    BY <1>7 DEF StageReceived, Leads
  <2>5. bytes \in [gen : Nat, staged : BOOLEAN]
    BY <1>3 DEF Receiver
  <2>6. stored' = stored \/ stored' = [stored EXCEPT ![next] = bytes]
    BY <1>7 DEF StageReceived
  <2> HIDE DEF r, lost, bytes, next
  <2>7. stored' \in [Attachments -> [gen : Nat, staged : BOOLEAN]]
    BY <2>5, <2>6 DEF ReceivedTypes
  <2> QED
    BY <1>7, <2>2, <2>3, <2>4, <2>7, TabTypes DEF StageReceived, ReceivedTypes
<1>8. ASSUME NEW t \in Tabs,
             Finalize(t) \/ PushReceived(t) \/ CheckOwner(t) \/ ReleaseClaim(t) \/ CloseReceiver(t)
      PROVE  ReceivedTypes(n)'
  <2>1. PICK r : Moves(t, r) /\ r \in Receiver(n) /\ InPlace(n, r)
    BY <1>1, <1>3, <1>8 DEF Finalize, PushReceived, CheckOwner, ReleaseClaim, CloseReceiver,
                            Leads, ReceiverPlaces
  <2>2. claim' \in [token : Nat, fresh : BOOLEAN] /\ created' \in BOOLEAN
    BY <1>2, <1>8 DEF Finalize, PushReceived, CheckOwner, ReleaseClaim, CloseReceiver,
                      ReceivedTypes
  <2>3. stored' = stored /\ claims' = claims
    BY <1>8 DEF Finalize, PushReceived, CheckOwner, ReleaseClaim, CloseReceiver
  <2> QED
    BY <2>1, <2>2, <2>3, TabTypes DEF ReceivedTypes
<1>9. ASSUME NEW t \in Tabs, DiscardReceived(t)
      PROVE  ReceivedTypes(n)'
  <2>1. PICK r : Moves(t, r) /\ r \in Receiver(n) /\ InPlace(n, r)
    BY <1>1, <1>3, <1>9 DEF DiscardReceived, Leads, ReceiverPlaces
  <2>2. stored' \in [Attachments -> [gen : Nat, staged : BOOLEAN]]
    BY <1>2, <1>9 DEF DiscardReceived, ReceivedTypes
  <2> QED
    BY <1>9, <2>1, <2>2, TabTypes DEF DiscardReceived, ReceivedTypes
<1>10. ASSUME NEW a \in Attachments, PromoteReceived(a)
       PROVE  ReceivedTypes(n)'
  BY <1>2, <1>10 DEF PromoteReceived, ReceivedTypes, At
<1>11. ASSUME ClaimExpires
       PROVE  ReceivedTypes(n)'
  BY <1>2, <1>11 DEF ClaimExpires, ReceivedTypes, At
<1> QED
  BY <1>4, <1>5, <1>6, <1>7, <1>8, <1>9, <1>10, <1>11 DEF ReceivedNext, Receive

-----------------------------------------------------------------------------
(* What a step does to the bytes and the tokens *)

LEMMA TokensStep ==
  ASSUME NEW n \in Nat, ReceivedTypes(n), TokensAreOnce, ReceivedNext
  PROVE  TokensAreOnce'
<1>1. ASSUME NEW t \in Tabs, ClaimNote(t)
      PROVE  TokensAreOnce'
  <2>1. CASE created
    BY <1>1, <2>1 DEF ClaimNote, TokensAreOnce, NoClaim, At
  <2>2. CASE ~created
    <3> DEFINE r == [Waiting EXCEPT !.at = "renew", !.token = claims', !.owned = TRUE]
    <3>1. r.at = "renew" /\ r.token = claims'
      BY DEF Waiting
    <3>2. /\ claims' = claims + 1 /\ claim' = [token |-> claims', fresh |-> TRUE]
          /\ Moves(t, r)
      BY <1>1, <2>2 DEF ClaimNote
    <3> HIDE DEF r
    <3>3. receiver'[t] = r /\ \A u \in Tabs : u # t => receiver'[u] = receiver[u]
      BY <3>2, MovesOne
    <3>4. claims \in Nat /\ \A u \in Tabs : receiver[u].token <= claims
                                          /\ receiver[u].token \in Nat
      BY DEF TokensAreOnce, ReceivedTypes, Receiver
    <3> QED
      BY <3>1, <3>2, <3>3, <3>4 DEF TokensAreOnce, At
  <2> QED
    BY <2>1, <2>2
<1>2. ASSUME NEW t \in Tabs, claims' = claims, claim'.token \in {0, claim.token},
             \A u \in Tabs : u # t => receiver'[u] = receiver[u],
             \/ receiver'[t].token = receiver[t].token /\ ~At(t, "idle")
             \/ receiver'[t] = Waiting
             \/ receiver'[t] = receiver[t]
      PROVE  TokensAreOnce'
  BY <1>2 DEF TokensAreOnce, Waiting, At, ReceivedTypes
<1>3. ASSUME NEW t \in Tabs,
             \/ RenewClaim(t) \/ Beat(t) \/ StageReceived(t) \/ Finalize(t)
             \/ PushReceived(t) \/ CheckOwner(t) \/ DiscardReceived(t) \/ ReleaseClaim(t)
             \/ CloseReceiver(t)
      PROVE  TokensAreOnce'
  <2>1. claims' = claims /\ claim'.token \in {0, claim.token}
    BY <1>3 DEF RenewClaim, Beat, StageReceived, Finalize, PushReceived, CheckOwner,
                DiscardReceived, ReleaseClaim, CloseReceiver, NoClaim, ReceivedTypes
  <2>2. ~At(t, "idle")
    BY <1>3 DEF RenewClaim, Beat, StageReceived, Finalize, PushReceived, CheckOwner,
                DiscardReceived, ReleaseClaim, CloseReceiver, At
  <2>3. PICK r : /\ Moves(t, r) \/ receiver' = receiver
                 /\ r = Waiting \/ r.token = receiver[t].token
    <3>1. \A at : [receiver[t] EXCEPT !.at = at].token = receiver[t].token
      BY DEF ReceivedTypes, Receiver
    <3>2. CASE RenewClaim(t)
      <4> DEFINE r == [receiver[t] EXCEPT !.at = "check", !.owned = FALSE]
      <4>1. r.token = receiver[t].token
        BY DEF ReceivedTypes, Receiver
      <4>2. (\E at : Leads(t, at)) \/ Moves(t, r)
        BY <3>2 DEF RenewClaim
      <4> HIDE DEF r
      <4> QED
        BY <3>1, <4>1, <4>2 DEF Leads
    <3>3. CASE Beat(t)
      <4> DEFINE r == [receiver[t] EXCEPT !.owned = FALSE]
      <4>1. r.token = receiver[t].token
        BY DEF ReceivedTypes, Receiver
      <4>2. Moves(t, r) \/ receiver' = receiver
        BY <3>3 DEF Beat
      <4> HIDE DEF r
      <4> QED
        BY <4>1, <4>2
    <3>4. CASE StageReceived(t)
      <4> DEFINE r == [receiver[t] EXCEPT !.at = "renew", !.staged = receiver[t].staged + 1]
      <4>1. r.token = receiver[t].token
        BY DEF ReceivedTypes, Receiver
      <4>2. Leads(t, "check") \/ Moves(t, r)
        BY <3>4 DEF StageReceived
      <4> HIDE DEF r
      <4> QED
        BY <3>1, <4>1, <4>2 DEF Leads
    <3>5. CASE \/ Finalize(t) \/ PushReceived(t) \/ CheckOwner(t) \/ DiscardReceived(t)
               \/ ReleaseClaim(t) \/ CloseReceiver(t)
      <4>1. (\E at : Leads(t, at)) \/ Moves(t, Waiting)
        BY <3>5 DEF Finalize, PushReceived, CheckOwner, DiscardReceived, ReleaseClaim,
                    CloseReceiver
      <4> QED
        BY <3>1, <4>1 DEF Leads
    <3> QED
      BY <1>3, <3>2, <3>3, <3>4, <3>5
  <2> QED
    BY <1>2, <2>1, <2>2, <2>3, MovesOne
<1>4. ASSUME \/ \E a \in Attachments : PromoteReceived(a)
             \/ ClaimExpires
      PROVE  TokensAreOnce'
  <2>1. claims' = claims /\ claim'.token = claim.token /\ receiver' = receiver
    BY <1>4 DEF PromoteReceived, ClaimExpires, ReceivedTypes
  <2> QED
    BY <2>1 DEF TokensAreOnce, At
<1> QED
  BY <1>1, <1>3, <1>4 DEF ReceivedNext, Receive

\* A step that keeps the bytes, and takes tab t neither on in its staging nor, with
\* the last token, back to its staged bytes.
LEMMA HarmlessStep ==
  ASSUME NEW n \in Nat, ReceivedInv(n), TokensAreOnce', NEW t \in Tabs,
         \A a \in Attachments : stored'[a].gen = stored[a].gen,
         created' = created, claims' = claims, claim'.token \in {0, claim.token},
         \A u \in Tabs : u # t => receiver'[u] = receiver[u],
         \/ receiver'[t] = receiver[t]
         \/ receiver'[t] = Waiting
         \/ /\ receiver'[t].token = receiver[t].token
            /\ receiver'[t].staged = receiver[t].staged
            /\ receiver'[t].at \in {"renew", "stage", "finalize"} =>
                 receiver[t].at \in {"renew", "stage", "finalize"}
            /\ created /\ receiver[t].token = claims => receiver'[t].at \in {"push", "check"}
  PROVE  StagedAreThere' /\ NoteIsSealed'
<1> USE DEF ReceivedInv
<1>1. StagedAreThere'
  <2> SUFFICES ASSUME NEW u \in Tabs, receiver'[u].at \in {"renew", "stage", "finalize"},
                      claim'.token = receiver'[u].token,
                      NEW a \in Attachments, a <= receiver'[u].staged
               PROVE  stored'[a].gen = receiver'[u].token
    BY DEF StagedAreThere, Holds
  <2>1. receiver'[u].token > 0
    BY DEF TokensAreOnce, At
  <2>2. /\ receiver'[u].token = receiver[u].token /\ receiver'[u].staged = receiver[u].staged
        /\ receiver[u].at \in {"renew", "stage", "finalize"}
    BY DEF Waiting
  <2>3. claim'.token = claim.token
    BY <2>1
  <2> QED
    BY <2>2, <2>3 DEF StagedAreThere, Holds
<1>2. NoteIsSealed'
  <2> SUFFICES ASSUME created PROVE NoteIsSealed'
    BY DEF NoteIsSealed
  <2>1. \A u \in Tabs : receiver'[u].token = claims =>
          receiver'[u].at \in {"idle", "push", "check"}
    BY DEF NoteIsSealed, Waiting
  <2> QED
    BY <2>1 DEF NoteIsSealed
<1> QED
  BY <1>1, <1>2

LEMMA BytesStep ==
  ASSUME NEW n \in Nat, Attachments = 1..n, ReceivedInv(n), ReceivedTypes(n)',
         TokensAreOnce', ReceivedNext
  PROVE  StagedAreThere' /\ NoteIsSealed'
<1> USE DEF ReceivedInv
<1>1. /\ claims \in Nat /\ claim.token \in Nat /\ claim.token \in {0, claims}
      /\ \A u \in Tabs : /\ receiver[u] \in Receiver(n)
                         /\ receiver[u].token \in Nat /\ receiver[u].token <= claims
                         /\ receiver[u].staged \in 0..n
                         /\ ~At(u, "idle") => receiver[u].token > 0
      /\ \A a \in Attachments : stored[a].gen \in Nat
  BY DEF ReceivedTypes, Receiver, TokensAreOnce
<1>2. \A f : [claim EXCEPT !.fresh = f].token = claim.token
  BY DEF ReceivedTypes
<1>3. ASSUME NEW t \in Tabs, ClaimNote(t)
      PROVE  StagedAreThere' /\ NoteIsSealed'
  <2>1. CASE created
    BY <1>3, <2>1, HarmlessStep DEF ClaimNote, NoClaim
  <2>2. CASE ~created
    <3> DEFINE r == [Waiting EXCEPT !.at = "renew", !.token = claims', !.owned = TRUE]
    <3>1. r.staged = 0
      BY DEF Waiting
    <3>2. /\ claims' = claims + 1 /\ claim'.token = claims + 1 /\ Moves(t, r)
          /\ created' = created /\ stored' = stored
      BY <1>3, <2>2 DEF ClaimNote
    <3> HIDE DEF r
    <3>3. receiver'[t] = r /\ \A u \in Tabs : u # t => receiver'[u] = receiver[u]
      BY <3>2, MovesOne
    <3>4. \A u \in Tabs : u # t => claim'.token # receiver'[u].token
      BY <1>1, <3>2, <3>3
    <3>5. \A a \in Attachments : ~(a <= receiver'[t].staged)
      BY <3>1, <3>3
    <3> QED
      BY <2>2, <3>2, <3>4, <3>5 DEF StagedAreThere, NoteIsSealed, Holds
  <2> QED
    BY <2>1, <2>2
<1>4. ASSUME NEW t \in Tabs, RenewClaim(t)
      PROVE  StagedAreThere' /\ NoteIsSealed'
  <2> DEFINE lost == [receiver[t] EXCEPT !.at = "check", !.owned = FALSE]
  <2>1. /\ lost.at = "check" /\ lost.token = receiver[t].token
        /\ lost.staged = receiver[t].staged
    BY <1>1 DEF Receiver
  <2>2. /\ \/ Leads(t, "stage") \/ Leads(t, "finalize")
           \/ Moves(t, lost)
        /\ claim'.token = claim.token /\ receiver[t].at = "renew"
        /\ stored' = stored /\ created' = created /\ claims' = claims
    BY <1>2, <1>4 DEF RenewClaim, At
  <2>3. created => receiver[t].token # claims
    BY <2>2 DEF NoteIsSealed
  <2> HIDE DEF lost
  <2> QED
    BY <2>1, <2>2, <2>3, LeadsOne, MovesOne, HarmlessStep
<1>5. ASSUME NEW t \in Tabs, Beat(t)
      PROVE  StagedAreThere' /\ NoteIsSealed'
  <2> DEFINE lost == [receiver[t] EXCEPT !.owned = FALSE]
  <2>1. /\ lost.at = receiver[t].at /\ lost.token = receiver[t].token
        /\ lost.staged = receiver[t].staged
    BY <1>1 DEF Receiver
  <2>2. /\ receiver' = receiver \/ Moves(t, lost)
        /\ claim'.token = claim.token /\ receiver[t].at # "idle"
        /\ stored' = stored /\ created' = created /\ claims' = claims
    BY <1>2, <1>5 DEF Beat, At
  <2>3. created /\ receiver[t].token = claims => receiver[t].at \in {"push", "check"}
    BY <2>2 DEF NoteIsSealed
  <2> HIDE DEF lost
  <2> QED
    BY <2>1, <2>2, <2>3, MovesOne, HarmlessStep
<1>6. ASSUME NEW t \in Tabs, StageReceived(t)
      PROVE  StagedAreThere' /\ NoteIsSealed'
  <2> DEFINE next == receiver[t].staged + 1
             bytes == [gen |-> receiver[t].token, staged |-> TRUE]
             r == [receiver[t] EXCEPT !.at = "renew", !.staged = next]
  <2>1. CASE Leads(t, "check") /\ stored' = stored
    BY <1>6, <2>1, LeadsOne, HarmlessStep DEF StageReceived
  <2>2. CASE /\ ~(stored[next].gen > receiver[t].token)
             /\ stored' = [stored EXCEPT ![next] = bytes] /\ Moves(t, r)
    <3>1. /\ r.at = "renew" /\ r.token = receiver[t].token /\ r.staged = next
          /\ bytes.gen = receiver[t].token
      BY <1>1 DEF Receiver
    <3>2. receiver[t].at = "stage" /\ claim' = claim /\ created' = created /\ claims' = claims
      BY <1>6 DEF StageReceived, At
    <3>3. next \in Attachments /\ next \in Nat /\ stored[next].gen <= receiver[t].token
      BY <1>1, <2>2, <3>2 DEF ReceivedTypes, InPlace
    <3> HIDE DEF r, bytes
    <3>4. /\ receiver'[t] = r /\ \A u \in Tabs : u # t => receiver'[u] = receiver[u]
          /\ \A a \in Attachments :
               stored'[a].gen = IF a = next THEN receiver[t].token ELSE stored[a].gen
      BY <2>2, <3>1, <3>3, MovesOne DEF ReceivedTypes
    <3>5. ~created
      <4>1. receiver[t].token # claims \/ ~created
        BY <3>2 DEF NoteIsSealed
      <4>2. created => stored[next].gen = claims
        BY <3>3 DEF NoteIsSealed
      <4> QED
        BY <1>1, <3>3, <4>1, <4>2
    <3>6. StagedAreThere'
      <4> SUFFICES ASSUME NEW u \in Tabs, receiver'[u].at \in {"renew", "stage", "finalize"},
                          claim'.token = receiver'[u].token,
                          NEW a \in Attachments, a <= receiver'[u].staged
                   PROVE  stored'[a].gen = receiver'[u].token
        BY DEF StagedAreThere, Holds
      <4>1. CASE u = t
        <5>1. CASE a = next
          BY <3>1, <3>4, <4>1, <5>1
        <5>2. CASE a # next
          <6>1. a <= receiver[t].staged
            BY <1>1, <3>1, <3>4, <4>1, <5>2
          <6> QED
            BY <3>1, <3>2, <3>4, <4>1, <5>2, <6>1 DEF StagedAreThere, Holds
        <5> QED
          BY <5>1, <5>2
      <4>2. CASE u # t
        <5>1. /\ receiver'[u] = receiver[u] /\ stored[a].gen = receiver[u].token
              /\ receiver[u].token = claim.token
          BY <3>2, <3>4, <4>2 DEF StagedAreThere, Holds
        <5>2. receiver[u].token # receiver[t].token
          BY <3>2, <4>2, <5>1 DEF TokensAreOnce, At
        <5>3. receiver[u].token = claims
          BY <1>1, <5>1 DEF At
        <5>4. a # next
          BY <1>1, <3>3, <5>1, <5>2, <5>3
        <5> QED
          BY <3>4, <5>1, <5>4
      <4> QED
        BY <4>1, <4>2
    <3> QED
      BY <3>2, <3>5, <3>6 DEF NoteIsSealed
  <2> HIDE DEF bytes, r
  <2> QED
    BY <1>6, <2>1, <2>2 DEF StageReceived, bytes, r
<1>7. ASSUME NEW t \in Tabs, Finalize(t)
      PROVE  StagedAreThere' /\ NoteIsSealed'
  <2>1. CASE created \/ ~Holds(t)
    <3>1. Moves(t, Waiting) \/ (~created /\ Leads(t, "check"))
      BY <1>7, <2>1 DEF Finalize
    <3>2. /\ claim'.token \in {0, claim.token} /\ created' = created
          /\ stored' = stored /\ claims' = claims
      BY <1>7, <2>1 DEF Finalize, NoClaim, ReceivedTypes
    <3> QED
      BY <3>1, <3>2, LeadsOne, MovesOne, HarmlessStep
  <2>2. CASE ~created /\ Holds(t)
    <3>1. /\ receiver[t].at = "finalize" /\ claim'.token = 0 /\ created'
          /\ Leads(t, "push") /\ stored' = stored /\ claims' = claims
      BY <1>7, <2>2 DEF Finalize, At, NoClaim
    <3>2. /\ receiver'[t].at = "push" /\ receiver'[t].token = receiver[t].token
          /\ \A u \in Tabs : u # t => receiver'[u] = receiver[u]
      BY <3>1, LeadsOne
    <3>3. receiver[t].token > 0 /\ receiver[t].token = claims
      BY <1>1, <2>2, <3>1 DEF Holds, At
    <3>4. \A a \in Attachments : stored[a].gen = claims
      <4>1. receiver[t].staged = n
        BY <3>1 DEF ReceivedTypes, InPlace
      <4> QED
        BY <2>2, <3>1, <3>3, <4>1 DEF StagedAreThere
    <3>5. \A u \in Tabs : receiver'[u].token = claims =>
            receiver'[u].at \in {"idle", "push", "check"}
      BY <3>1, <3>2, <3>3 DEF TokensAreOnce, At
    <3>6. \A u \in Tabs : receiver'[u].at # "idle" => receiver'[u].token # 0
      BY DEF TokensAreOnce, At
    <3> QED
      BY <3>1, <3>3, <3>4, <3>5, <3>6 DEF StagedAreThere, NoteIsSealed, Holds
  <2> QED
    BY <2>1, <2>2
<1>8. ASSUME NEW t \in Tabs, PushReceived(t) \/ CheckOwner(t) \/ ReleaseClaim(t) \/ CloseReceiver(t)
      PROVE  StagedAreThere' /\ NoteIsSealed'
  <2>1. \/ Moves(t, Waiting) \/ Leads(t, "check")
        \/ Leads(t, "discard") /\ Holds(t) /\ receiver[t].at = "check"
    BY <1>8 DEF PushReceived, CheckOwner, ReleaseClaim, CloseReceiver, At
  <2>2. /\ claim'.token \in {0, claim.token} /\ created' = created
        /\ stored' = stored /\ claims' = claims
    <3>1. \/ claim' = claim \/ claim' = NoClaim
          \/ claim' = [claim EXCEPT !.fresh = TRUE]
      BY <1>8 DEF PushReceived, CheckOwner, ReleaseClaim, CloseReceiver
    <3>2. claim'.token \in {0, claim.token}
      <4>1. NoClaim.token = 0
        BY DEF NoClaim
      <4>2. [claim EXCEPT !.fresh = TRUE].token = claim.token
        BY <1>2
      <4> QED
        BY <3>1, <4>1, <4>2
    <3> QED
      BY <1>8, <3>2 DEF PushReceived, CheckOwner, ReleaseClaim, CloseReceiver
  <2>3. Holds(t) /\ receiver[t].at = "check" => ~created
    BY <1>1 DEF Holds, NoteIsSealed, At
  <2> QED
    BY <2>1, <2>2, <2>3, LeadsOne, MovesOne, HarmlessStep
<1>9. ASSUME NEW t \in Tabs, DiscardReceived(t)
      PROVE  StagedAreThere' /\ NoteIsSealed'
  <2>1. receiver[t].at = "discard" /\ claim' = claim /\ created' = created /\ claims' = claims
    BY <1>9 DEF DiscardReceived, At
  <2>2. CASE Moves(t, Waiting) /\ stored' = stored
    BY <2>1, <2>2, MovesOne, HarmlessStep
  <2>3. CASE /\ stored' = [a \in Attachments |->
                            IF stored[a] = [gen |-> receiver[t].token, staged |-> TRUE]
                            THEN Nothing ELSE stored[a]]
             /\ Leads(t, "release")
    <3>1. /\ receiver'[t].at = "release" /\ receiver'[t].token = receiver[t].token
          /\ \A u \in Tabs : u # t => receiver'[u] = receiver[u]
      BY <2>3, LeadsOne
    <3>2. \A a \in Attachments :
            stored[a].gen # receiver[t].token => stored'[a].gen = stored[a].gen
      BY <2>3
    <3>3. StagedAreThere'
      <4> SUFFICES ASSUME NEW u \in Tabs, receiver'[u].at \in {"renew", "stage", "finalize"},
                          claim'.token = receiver'[u].token,
                          NEW a \in Attachments, a <= receiver'[u].staged
                   PROVE  stored'[a].gen = receiver'[u].token
        BY DEF StagedAreThere, Holds
      <4>1. u # t /\ receiver'[u] = receiver[u]
        BY <3>1
      <4>2. stored[a].gen = receiver[u].token
        BY <2>1, <4>1 DEF StagedAreThere, Holds
      <4>3. receiver[u].token # receiver[t].token
        BY <2>1, <4>1 DEF TokensAreOnce, At
      <4> QED
        BY <3>2, <4>1, <4>2, <4>3
    <3>4. NoteIsSealed'
      <4> SUFFICES ASSUME created PROVE NoteIsSealed'
        BY <2>1 DEF NoteIsSealed
      <4>1. receiver[t].token # claims
        BY <2>1 DEF NoteIsSealed
      <4>2. \A a \in Attachments : stored'[a].gen = claims
        BY <3>2, <4>1 DEF NoteIsSealed
      <4> QED
        BY <2>1, <3>1, <4>1, <4>2 DEF NoteIsSealed
    <3> QED
      BY <3>3, <3>4
  <2> QED
    BY <1>9, <2>2, <2>3 DEF DiscardReceived
<1>10. ASSUME (\E a \in Attachments : PromoteReceived(a)) \/ ClaimExpires
       PROVE  StagedAreThere' /\ NoteIsSealed'
  <2>1. /\ receiver' = receiver /\ created' = created /\ claims' = claims
        /\ claim'.token = claim.token
        /\ \A a \in Attachments : stored'[a].gen = stored[a].gen
    <3>1. CASE ClaimExpires
      BY <1>2, <3>1 DEF ClaimExpires
    <3>2. ASSUME NEW a \in Attachments, PromoteReceived(a)
          PROVE  \A b \in Attachments : stored'[b].gen = stored[b].gen
      BY <3>2 DEF PromoteReceived, ReceivedTypes
    <3> QED
      BY <1>10, <3>1, <3>2 DEF PromoteReceived
  <2> QED
    BY <2>1 DEF StagedAreThere, NoteIsSealed, Holds
<1> QED
  BY <1>3, <1>4, <1>5, <1>6, <1>7, <1>8, <1>9, <1>10 DEF ReceivedNext, Receive

-----------------------------------------------------------------------------
\* The received note has the bytes of all its attachments: a tab that lost the
\* claim, whose push failed, that is slow or that tries again removes no other's
\* bytes, for any number of tabs, attachments, claims and failures (createReceivedNote
\* of noteStore.svelte.ts).
THEOREM ReceivedNotesHaveBytes ==
  ASSUME NEW n \in Nat, Attachments = 1..n
  PROVE  ReceivedSpec => []ReceivedHaveBytes
<1>1. ReceivedInit => ReceivedInv(n)
  BY ReceivedInvInit
<1>2. ReceivedInv(n) /\ [ReceivedNext]_receivedVars => ReceivedInv(n)'
  <2>1. ASSUME ReceivedInv(n), ReceivedNext PROVE ReceivedInv(n)'
    BY <2>1, ReceivedTypesStep, TokensStep, BytesStep DEF ReceivedInv
  <2>2. ASSUME ReceivedInv(n), UNCHANGED receivedVars PROVE ReceivedInv(n)'
    BY <2>2 DEF receivedVars, ReceivedInv, ReceivedTypes, TokensAreOnce, StagedAreThere,
                NoteIsSealed, Holds, At
  <2> QED
    BY <2>1, <2>2
<1>3. ReceivedInv(n) => ReceivedHaveBytes
  <2>1. Nothing.gen = 0
    BY DEF Nothing
  <2> QED
    BY <2>1 DEF ReceivedInv, NoteIsSealed, ReceivedHaveBytes
<1> QED
  BY <1>1, <1>2, <1>3, PTL DEF ReceivedSpec

-----------------------------------------------------------------------------
(* An accepted share waits in localStorage or is a note, and of its own vault and of no
   other until a step falls into a window, for any number of tabs, shares, vaults,
   faults and changes of the vault *)

CONSTANTS Ids, Vaults, NoVault, MaxPending, MaxChanges

\* session is the vault of the stored session (stored, in Shares).
VARIABLES session, pending, bound, page, notes, tab, confirmed, faults, changes

Web == INSTANCE Shares WITH stored <- session

Loops ==
  [vault : Vaults \cup {NoVault}, at : {"idle", "next", "save"}, for : Vaults \cup {NoVault},
   list : SUBSET Ids, saved : SUBSET Ids, share : SUBSET Ids, target : Vaults \cup {NoVault}]

SharesTypes ==
  /\ session \in Vaults \cup {NoVault} /\ pending \subseteq Ids /\ confirmed \subseteq Ids
  /\ bound \in [Ids -> Vaults \cup {NoVault}]
  /\ page \in [at : {"idle", "stash"}, vault : Vaults \cup {NoVault}]
  /\ notes \in [Vaults -> SUBSET Ids]
  /\ tab \in [Tabs -> Loops]

\* Only accepted shares are anywhere: the vault of a share is never set again once
\* a tab may have listed it.
AcceptedOnly ==
  /\ pending \subseteq confirmed
  /\ \A v \in Vaults : notes[v] \subseteq confirmed
  /\ \A t \in Tabs : tab[t].list \cup tab[t].share \subseteq confirmed

\* A tab saves into a vault, and what it counts as saved is a note.
LoopsSave ==
  \A t \in Tabs :
    LET r == tab[t] IN
    /\ r.at = "idle" => r.list = {} /\ r.share = {} /\ r.saved = {}
    /\ r.at # "idle" => r.for \in Vaults /\ r.saved \subseteq UNION {notes[v] : v \in Vaults}
    /\ r.at = "save" => r.target \in Vaults

\* It saves into the vault it has listed for, until a loop went on in another one.
LoopsAreOfOneVault ==
  "switch" \notin overlaps => \A t \in Tabs : tab[t].at = "save" => tab[t].target = tab[t].for

\* What a vault has, or a tab may still give it, was bound to it or to none.
SavedWhereBound ==
  "switch" \notin overlaps =>
    \A i \in Ids, v \in Vaults : Web!SavedOrSaving(i, v) => bound[i] \in {v, NoVault}

\* No two vaults have a share or may still be given it.
OneVaultEach ==
  overlaps = {} =>
    \A i \in Ids, v, w \in Vaults : Web!SavedOrSaving(i, v) /\ Web!SavedOrSaving(i, w) => v = w

KeptOrSaved == \A i \in confirmed : i \in pending \/ \E v \in Vaults : i \in notes[v]

SharesInv ==
  /\ SharesTypes /\ AcceptedOnly /\ LoopsSave /\ LoopsAreOfOneVault
  /\ SavedWhereBound /\ OneVaultEach /\ KeptOrSaved


-----------------------------------------------------------------------------
(* The steps *)

\* Nothing is accepted, bound or saved at first.
LEMMA SharesInvInit == Web!SharesInit => SharesInv
<1> SUFFICES ASSUME Web!SharesInit PROVE SharesInv
  OBVIOUS
<1>1. /\ Web!Quiet \in Loops /\ Web!Quiet.list = {} /\ Web!Quiet.share = {}
      /\ Web!Quiet.saved = {} /\ Web!Quiet.at = "idle"
  BY DEF Web!Quiet, Loops
<1>2. \A t \in Tabs : tab[t] = Web!Quiet
  BY DEF Web!SharesInit
<1>3. \A i \in Ids, v \in Vaults : ~Web!SavedOrSaving(i, v)
  BY <1>1, <1>2 DEF Web!SharesInit, Web!SavedOrSaving
<1>4. SharesTypes
  BY <1>1 DEF Web!SharesInit, SharesTypes, Web!NoPage
<1> QED
  BY <1>1, <1>2, <1>3, <1>4
  DEF Web!SharesInit, SharesInv, AcceptedOnly, LoopsSave, LoopsAreOfOneVault, SavedWhereBound,
      OneVaultEach, KeptOrSaved

\* A tab that goes on goes on alone.
LEMMA LoopLeadsOne ==
  ASSUME SharesTypes, NEW t \in Tabs, NEW r \in Loops, Web!Lead(t, r)
  PROVE  /\ tab' \in [Tabs -> Loops] /\ tab'[t] = r
         /\ \A u \in Tabs \ {t} : tab'[u] = tab[u]
  BY DEF SharesTypes, Web!Lead

\* What a step does to the sharing of shares among vaults: those accepted before
\* keep their vault, and no vault may get a share it could not get before.
SharesOutNoMore ==
  /\ overlaps \subseteq overlaps'
  /\ \A i \in confirmed : bound'[i] = bound[i]
  /\ "switch" \notin overlaps' =>
       \A i \in Ids, v \in Vaults : Web!SavedOrSaving(i, v)' => Web!SavedOrSaving(i, v)

LEMMA SharedOut ==
  ASSUME SharesInv, SharesOutNoMore
  PROVE  SavedWhereBound' /\ OneVaultEach'
<1>1. \A i \in Ids, v \in Vaults : Web!SavedOrSaving(i, v) => i \in confirmed
  BY DEF SharesInv, AcceptedOnly, Web!SavedOrSaving
<1> QED
  BY <1>1 DEF SharesInv, SharesOutNoMore, SavedWhereBound, OneVaultEach

\* A step of one tab's loop that gives it no more to save, in storage as it is.
LEMMA LoopStep ==
  ASSUME SharesInv, NEW t \in Tabs, NEW r \in Loops, Web!Lead(t, r),
         UNCHANGED <<session, bound, page, notes, confirmed>>, overlaps \subseteq overlaps',
         pending' \in {pending, pending \ tab[t].saved},
         r.list \cup r.share \subseteq tab[t].list \cup tab[t].share,
         r.at = "idle" => r.list = {} /\ r.share = {} /\ r.saved = {},
         r.at # "idle" =>
           r.for = tab[t].for /\ r.saved \subseteq tab[t].saved /\ tab[t].at # "idle",
         r.at = "save" => r.target \in Vaults /\ ("switch" \notin overlaps' => r.target = r.for)
  PROVE  SharesInv'
<1>1. /\ tab' \in [Tabs -> Loops] /\ tab'[t] = r
      /\ \A u \in Tabs \ {t} : tab'[u] = tab[u]
  BY LoopLeadsOne DEF SharesInv
<1>2. tab[t] \in Loops
  BY DEF SharesInv, SharesTypes
<1>3. SharesTypes'
  BY <1>1, <1>2 DEF SharesInv, SharesTypes, Loops
<1>4. AcceptedOnly'
  BY <1>1, <1>2 DEF SharesInv, AcceptedOnly, Loops
<1>5. LoopsSave' /\ LoopsAreOfOneVault'
  BY <1>1 DEF SharesInv, LoopsSave, LoopsAreOfOneVault
<1>6. SharesOutNoMore
  BY <1>1 DEF SharesInv, LoopsSave, SharesOutNoMore, Web!SavedOrSaving
<1>7. KeptOrSaved'
  <2>1. \A i \in tab[t].saved : \E v \in Vaults : i \in notes[v]
    BY DEF SharesInv, LoopsSave
  <2> QED
    BY <2>1 DEF SharesInv, KeptOrSaved
<1> QED
  BY <1>3, <1>4, <1>5, <1>6, <1>7, SharedOut DEF SharesInv


\* A share gets its vault when it is accepted, before any tab has seen it.
LEMMA StashKept ==
  ASSUME SharesInv, NEW j \in Ids, Web!StashPendingShare(j), UNCHANGED overlaps
  PROVE  SharesInv'
<1>1. CASE UNCHANGED <<pending, bound, confirmed>>
  BY <1>1 DEF Web!StashPendingShare, Web!NoPage, SharesInv, SharesTypes, AcceptedOnly,
              LoopsSave, LoopsAreOfOneVault, SavedWhereBound, OneVaultEach, KeptOrSaved,
              Web!SavedOrSaving
<1>2. CASE ~UNCHANGED <<pending, bound, confirmed>>
  <2>1. /\ pending' = pending \cup {j} /\ confirmed' = confirmed \cup {j}
        /\ bound' = [bound EXCEPT ![j] = page.vault] /\ j \notin confirmed
        /\ page' = Web!NoPage /\ UNCHANGED <<session, notes, tab>>
    BY <1>2 DEF Web!StashPendingShare
  <2>2. page.vault \in Vaults \cup {NoVault}
    BY DEF SharesInv, SharesTypes
  <2>3. SharesTypes'
    BY <2>1, <2>2 DEF SharesInv, SharesTypes, Web!NoPage
  <2>4. SharesOutNoMore
    BY <2>1 DEF SharesInv, SharesTypes, SharesOutNoMore, Web!SavedOrSaving
  <2>5. AcceptedOnly' /\ LoopsSave' /\ LoopsAreOfOneVault' /\ KeptOrSaved'
    BY <2>1 DEF SharesInv, AcceptedOnly, LoopsSave, LoopsAreOfOneVault, KeptOrSaved
  <2> QED
    BY <2>3, <2>4, <2>5, SharedOut DEF SharesInv
<1> QED
  BY <1>1, <1>2

\* A tab lists the shares bound to its vault, which no other vault may get, and
\* those bound to none: if another vault has one of them or may get it, that is in
\* the history from then on.
LEMMA ReadyKept ==
  ASSUME SharesInv, NoVault \notin Vaults, NEW t \in Tabs, NEW agrees \in BOOLEAN,
         Web!VaultReady(t, agrees), Web!Enters("twice", Web!Twice(agrees))
  PROVE  SharesInv'
<1> DEFINE matching == {i \in pending : bound[i] = session}
           unbound  == {i \in pending : bound[i] = NoVault}
           r == [Web!Quiet EXCEPT !.vault = session, !.for = session, !.at = "next",
                   !.list = matching \cup IF agrees THEN unbound ELSE {}]
<1>1. /\ tab[t].at = "idle" /\ session # NoVault /\ Web!Lead(t, r)
      /\ overlaps' = {} /\ agrees =>
           \A i \in unbound, v \in Vaults \ {session} : ~Web!SavedOrSaving(i, v)
      /\ overlaps \subseteq overlaps'
      /\ UNCHANGED <<session, pending, bound, page, notes, confirmed>>
  BY DEF Web!VaultReady, Web!Enters, Web!Twice
<1>2. session \in Vaults /\ pending \subseteq Ids
  BY <1>1 DEF SharesInv, SharesTypes
<1>3. /\ r \in Loops /\ r.at = "next" /\ r.for = session /\ r.share = {} /\ r.saved = {}
      /\ r.list \subseteq pending
      /\ \A i \in r.list : \/ bound[i] = session
                           \/ i \in unbound /\ agrees
  BY <1>2 DEF Loops, Web!Quiet
<1> HIDE DEF r
<1>4. /\ tab' \in [Tabs -> Loops] /\ tab'[t] = r
      /\ \A u \in Tabs \ {t} : tab'[u] = tab[u]
  BY <1>1, <1>3, LoopLeadsOne DEF SharesInv
<1>5. \A i \in Ids, v \in Vaults :
        Web!SavedOrSaving(i, v)' => Web!SavedOrSaving(i, v) \/ (v = session /\ i \in r.list)
  BY <1>1, <1>3, <1>4 DEF Web!SavedOrSaving
<1>6. overlaps' = {} => \A i \in r.list, v \in Vaults : Web!SavedOrSaving(i, v) => v = session
  BY <1>1, <1>2, <1>3 DEF SharesInv, SavedWhereBound
<1>7. SavedWhereBound'
  BY <1>1, <1>3, <1>5 DEF SharesInv, SavedWhereBound
<1>8. OneVaultEach'
  BY <1>1, <1>5, <1>6 DEF SharesInv, OneVaultEach
<1>9. SharesTypes'
  BY <1>1, <1>4 DEF SharesInv, SharesTypes
<1>10. AcceptedOnly'
  BY <1>1, <1>3, <1>4 DEF SharesInv, AcceptedOnly
<1>11. LoopsSave' /\ LoopsAreOfOneVault' /\ KeptOrSaved'
  BY <1>1, <1>2, <1>3, <1>4 DEF SharesInv, LoopsSave, LoopsAreOfOneVault, KeptOrSaved
<1> QED
  BY <1>7, <1>8, <1>9, <1>10, <1>11 DEF SharesInv

\* The next share is saved to the vault that is open in the tab, if any is: the one it
\* was listed for, unless the loop goes on in another one.
LEMMA BeginKept ==
  ASSUME SharesInv, NoVault \notin Vaults, NEW t \in Tabs, Web!Begin(t),
         Web!Enters("switch", Web!Switched(t))
  PROVE  SharesInv'
<1>1. /\ tab[t] \in Loops /\ tab[t].at = "next" /\ tab[t].vault \in Vaults \cup {NoVault}
      /\ UNCHANGED <<session, pending, bound, page, notes, confirmed>>
      /\ overlaps \subseteq overlaps'
      /\ "switch" \notin overlaps' => tab[t].vault \in {tab[t].for, NoVault}
  BY DEF Web!Begin, Web!Enters, Web!Switched, SharesInv, SharesTypes, Loops
<1>2. PICK i \in tab[t].list :
        Web!Lead(t, IF tab[t].vault = NoVault THEN [tab[t] EXCEPT !.list = @ \ {i}]
                ELSE [tab[t] EXCEPT !.list = @ \ {i}, !.share = {i}, !.target = tab[t].vault,
                                    !.at = "save"])
  BY DEF Web!Begin
<1>3. CASE tab[t].vault = NoVault
  <2> DEFINE r == [tab[t] EXCEPT !.list = @ \ {i}]
  <2>1. Web!Lead(t, r)
    BY <1>2, <1>3
  <2>2. /\ r \in Loops /\ r.list \cup r.share \subseteq tab[t].list \cup tab[t].share
        /\ r.at = "next" /\ r.for = tab[t].for /\ r.saved = tab[t].saved
    BY <1>1 DEF Loops
  <2> HIDE DEF r
  <2> QED
    BY <1>1, <2>1, <2>2, LoopStep
<1>4. CASE tab[t].vault # NoVault
  <2> DEFINE r == [tab[t] EXCEPT !.list = @ \ {i}, !.share = {i}, !.target = tab[t].vault,
                                 !.at = "save"]
  <2>1. Web!Lead(t, r)
    BY <1>2, <1>4
  <2>2. /\ r \in Loops /\ r.list \cup r.share \subseteq tab[t].list \cup tab[t].share
        /\ r.at = "save" /\ r.for = tab[t].for /\ r.saved = tab[t].saved
        /\ r.target = tab[t].vault
    BY <1>1 DEF Loops
  <2> HIDE DEF r
  <2> QED
    BY <1>1, <1>4, <2>1, <2>2, LoopStep
<1> QED
  BY <1>3, <1>4

\* A note is saved to the vault it was begun for, or is not saved.
LEMMA CreateKept ==
  ASSUME SharesInv, NEW t \in Tabs, Web!CreateReceivedNote(t), UNCHANGED overlaps
  PROVE  SharesInv'
<1> DEFINE next == [tab[t] EXCEPT !.share = {}, !.at = "next"]
           r == [next EXCEPT !.saved = @ \cup tab[t].share]
           v == tab[t].target
<1>1. /\ tab[t] \in Loops /\ tab[t].at = "save" /\ v \in Vaults /\ tab[t].for \in Vaults
      /\ "switch" \notin overlaps => tab[t].for = v
      /\ tab[t].saved \subseteq UNION {notes[w] : w \in Vaults}
      /\ UNCHANGED <<session, pending, bound, page, confirmed>>
  BY DEF Web!CreateReceivedNote, SharesInv, SharesTypes, LoopsSave, LoopsAreOfOneVault
<1>2. /\ next \in Loops /\ next.at = "next" /\ next.for = tab[t].for /\ next.list = tab[t].list
      /\ next.share = {} /\ next.saved = tab[t].saved
  BY <1>1 DEF Loops
<1>3. /\ r \in Loops /\ r.at = "next" /\ r.for = tab[t].for /\ r.list = tab[t].list
      /\ r.share = {} /\ r.saved = tab[t].saved \cup tab[t].share
  BY <1>1 DEF Loops
<1>4. \/ notes' = [notes EXCEPT ![v] = @ \cup tab[t].share] /\ Web!Lead(t, r)
      \/ Web!Lead(t, next) /\ UNCHANGED notes
  BY <1>1 DEF Web!CreateReceivedNote
<1> HIDE DEF next, r, v
<1>5. CASE Web!Lead(t, next) /\ UNCHANGED notes
  BY <1>1, <1>2, <1>5, LoopStep DEF v
<1>6. CASE notes' = [notes EXCEPT ![v] = @ \cup tab[t].share] /\ Web!Lead(t, r)
  <2>1. /\ tab' \in [Tabs -> Loops] /\ tab'[t] = r
        /\ \A u \in Tabs \ {t} : tab'[u] = tab[u]
    BY <1>3, <1>6, LoopLeadsOne DEF SharesInv
  <2>2. notes \in [Vaults -> SUBSET Ids] /\ tab[t].share \subseteq Ids
    BY <1>1 DEF SharesInv, SharesTypes, Loops
  <2>3. /\ notes' \in [Vaults -> SUBSET Ids] /\ notes'[v] = notes[v] \cup tab[t].share
        /\ \A w \in Vaults \ {v} : notes'[w] = notes[w]
    BY <1>1, <1>6, <2>2
  <2>4. \A w \in Vaults : notes[w] \subseteq notes'[w]
    BY <2>3
  <2>5. SharesTypes'
    BY <1>1, <2>1, <2>3 DEF SharesInv, SharesTypes
  <2>6. AcceptedOnly'
    BY <1>1, <1>3, <2>1, <2>3 DEF SharesInv, AcceptedOnly
  <2>7. LoopsSave'
    <3> DEFINE savedNotes == UNION {notes[w] : w \in Vaults}
               nowSaved == UNION {notes'[w] : w \in Vaults}
    <3>0. savedNotes \subseteq nowSaved /\ tab[t].share \subseteq nowSaved
      BY <1>1, <2>3, <2>4
    <3> SUFFICES ASSUME NEW u \in Tabs
                 PROVE  /\ tab'[u].at = "idle" =>
                             tab'[u].list = {} /\ tab'[u].share = {} /\ tab'[u].saved = {}
                        /\ tab'[u].at # "idle" =>
                             tab'[u].for \in Vaults /\ tab'[u].saved \subseteq nowSaved
                        /\ tab'[u].at = "save" => tab'[u].target \in Vaults
      BY DEF LoopsSave
    <3> HIDE DEF nowSaved
    <3>1. CASE u = t
      BY <1>1, <1>3, <2>1, <3>0, <3>1
    <3>2. CASE u # t
      BY <2>1, <3>0, <3>2 DEF SharesInv, LoopsSave
    <3> QED
      BY <3>1, <3>2
  <2>11. LoopsAreOfOneVault'
    BY <1>3, <2>1 DEF SharesInv, LoopsAreOfOneVault
  <2>8. SharesOutNoMore
    <3>1. \A i \in Ids, w \in Vaults : i \in notes'[w] =>
            i \in notes[w] \/ (w = v /\ i \in tab[t].share)
      BY <2>3
    <3>2. \A i \in Ids, w \in Vaults, u \in Tabs :
            tab'[u].for = w /\ i \in tab'[u].list \cup tab'[u].share =>
              tab[u].for = w /\ i \in tab[u].list \cup tab[u].share
      BY <1>3, <2>1
    <3> QED
      BY <1>1, <3>1, <3>2 DEF SharesOutNoMore, Web!SavedOrSaving
  <2>9. KeptOrSaved'
    BY <1>1, <2>4 DEF SharesInv, KeptOrSaved
  <2> QED
    BY <2>5, <2>6, <2>7, <2>8, <2>9, <2>11, SharedOut DEF SharesInv
<1> QED
  BY <1>4, <1>5, <1>6

\* What is removed from the queue was saved.
LEMMA RemoveKept ==
  ASSUME SharesInv, NEW t \in Tabs, Web!RemovePendingShares(t) \/ Web!CloseTab(t),
         UNCHANGED overlaps
  PROVE  SharesInv'
<1>1. tab[t] \in Loops
  BY DEF SharesInv, SharesTypes
<1>2. CASE Web!RemovePendingShares(t)
  <2> DEFINE r == [Web!Quiet EXCEPT !.vault = tab[t].vault]
  <2>1. /\ r \in Loops /\ r.at = "idle" /\ r.list = {} /\ r.share = {} /\ r.saved = {}
    BY <1>1 DEF Loops, Web!Quiet
  <2>2. /\ Web!Lead(t, r) /\ pending' = pending \ tab[t].saved
        /\ UNCHANGED <<session, bound, page, notes, confirmed>>
    BY <1>2 DEF Web!RemovePendingShares
  <2> HIDE DEF r
  <2> QED
    BY <2>1, <2>2, LoopStep
<1>3. CASE Web!CloseTab(t)
  <2>1. /\ Web!Quiet \in Loops /\ Web!Quiet.at = "idle"
        /\ Web!Quiet.list = {} /\ Web!Quiet.share = {}
        /\ Web!Quiet.saved = {}
    BY DEF Loops, Web!Quiet
  <2>2. Web!Lead(t, Web!Quiet) /\ UNCHANGED <<session, pending, bound, page, notes, confirmed>>
    BY <1>3 DEF Web!CloseTab
  <2> QED
    BY <2>1, <2>2, LoopStep
<1> QED
  BY <1>2, <1>3

\* The vault of a tab changes nothing of what its loop was begun for.
LEMMA TurnKept ==
  ASSUME SharesInv, NEW t \in Tabs, Web!Leave(t) \/ Web!Reopen(t), UNCHANGED overlaps
  PROVE  SharesInv'
<1>1. PICK w \in Vaults \cup {NoVault} : Web!Lead(t, [tab[t] EXCEPT !.vault = w])
  BY DEF Web!Leave, Web!Reopen, SharesInv, SharesTypes
<1> DEFINE r == [tab[t] EXCEPT !.vault = w]
<1>2. tab[t] \in Loops
  BY DEF SharesInv, SharesTypes
<1>3. /\ r \in Loops /\ r.at = tab[t].at /\ r.for = tab[t].for /\ r.list = tab[t].list
      /\ r.share = tab[t].share /\ r.saved = tab[t].saved /\ r.target = tab[t].target
  BY <1>2 DEF Loops
<1>4. UNCHANGED <<session, pending, bound, page, notes, confirmed>>
  BY DEF Web!Leave, Web!Reopen
<1>5. /\ tab[t].at = "idle" => tab[t].list = {} /\ tab[t].share = {} /\ tab[t].saved = {}
      /\ tab[t].at = "save" => /\ tab[t].target \in Vaults
                               /\ "switch" \notin overlaps => tab[t].target = tab[t].for
  BY DEF SharesInv, LoopsSave, LoopsAreOfOneVault
<1>6. Web!Lead(t, r)
  BY <1>1
<1> HIDE DEF r
<1> QED
  BY <1>3, <1>4, <1>5, <1>6, LoopStep

\* Looking up the session and changing it touch no share.
LEMMA SessionKept ==
  ASSUME SharesInv, \/ Web!ConfirmShare \/ UNCHANGED Web!sharesVars
                    \/ \E v \in Vaults \cup {NoVault} : Web!Connect(v),
         UNCHANGED overlaps
  PROVE  SharesInv'
<1>1. UNCHANGED <<pending, bound, notes, tab, confirmed>>
  BY DEF Web!ConfirmShare, Web!Connect, Web!sharesVars
<1>2. /\ session' \in Vaults \cup {NoVault}
      /\ page' \in [at : {"idle", "stash"}, vault : Vaults \cup {NoVault}]
  BY DEF Web!ConfirmShare, Web!Connect, Web!sharesVars, SharesInv, SharesTypes
<1> QED
  BY <1>1, <1>2
  DEF SharesInv, SharesTypes, AcceptedOnly, LoopsSave, LoopsAreOfOneVault, SavedWhereBound,
      OneVaultEach, KeptOrSaved, Web!SavedOrSaving

LEMMA SharesInvStep ==
  ASSUME SharesInv, [Web!SharesNext]_(Web!sharesVars), NoVault \notin Vaults
  PROVE  SharesInv'
<1>1. ASSUME NEW i \in Ids, Web!StashPendingShare(i), UNCHANGED overlaps PROVE SharesInv'
  BY <1>1, StashKept
<1>2. ASSUME NEW t \in Tabs, NEW agrees \in BOOLEAN, Web!VaultReady(t, agrees),
             Web!Enters("twice", Web!Twice(agrees))
      PROVE  SharesInv'
  BY <1>2, ReadyKept
<1>3. ASSUME NEW t \in Tabs, Web!Begin(t), Web!Enters("switch", Web!Switched(t)) PROVE SharesInv'
  BY <1>3, BeginKept
<1>4. ASSUME NEW t \in Tabs, Web!CreateReceivedNote(t), UNCHANGED overlaps PROVE SharesInv'
  BY <1>4, CreateKept
<1>5. ASSUME NEW t \in Tabs, Web!RemovePendingShares(t) \/ Web!CloseTab(t), UNCHANGED overlaps
      PROVE  SharesInv'
  BY <1>5, RemoveKept
<1>6. ASSUME NEW t \in Tabs, Web!Leave(t) \/ Web!Reopen(t), UNCHANGED overlaps PROVE SharesInv'
  BY <1>6, TurnKept
<1>7. CASE /\ \/ Web!ConfirmShare \/ UNCHANGED Web!sharesVars
              \/ \E v \in Vaults \cup {NoVault} : Web!Connect(v)
           /\ UNCHANGED overlaps
  BY <1>7, SessionKept
<1>8. UNCHANGED Web!sharesVars => UNCHANGED overlaps
  BY DEF Web!sharesVars
<1> QED
  BY <1>1, <1>2, <1>3, <1>4, <1>5, <1>6, <1>7, <1>8 DEF Web!SharesNext

\* A share that was accepted waits or is a note, whatever happens, for any number of
\* tabs, vaults, faults and changes of the vault (+page.svelte:201): a note of the
\* vault it was bound to unless a loop went on in another vault, and of no second one
\* unless that or the user has taken it into two.
THEOREM SharesAlwaysArrive ==
  ASSUME NoVault \notin Vaults
  PROVE  Web!SharesSpec => []Web!SharesArrive
<1>1. Web!SharesInit => SharesInv
  BY SharesInvInit
<1>2. SharesInv /\ [Web!SharesNext]_(Web!sharesVars) => SharesInv'
  BY SharesInvStep
<1>3. SharesInv => Web!SharesArrive
  <2>1. \A i \in Ids, v \in Vaults : i \in notes[v] => Web!SavedOrSaving(i, v)
    BY DEF Web!SavedOrSaving
  <2> QED
    BY <2>1
    DEF SharesInv, SharesTypes, Web!SharesArrive, SavedWhereBound, OneVaultEach, KeptOrSaved
<1> QED
  BY <1>1, <1>2, <1>3, PTL DEF Web!SharesSpec

-----------------------------------------------------------------------------
(* The bytes of an attachment: no upload is lost, no writer's epoch goes back and no
   deletion is undone, for any number of tabs, writers, draws and faults *)

CONSTANTS Browsers, WriteEpochs, ClaimTtl, MaxDraws

\* stored is the byte record (as in Received), faults those of a behaviour of the store.
VARIABLES queued, staged, pulled, doomed, browser, relayHas, uploads, accepted, givenUp, draws

Bytes == INSTANCE AttachmentStore

Records ==
  [gen : Nat, pull : Nat, epoch : Nat, needs : BOOLEAN, retained : BOOLEAN]

Rows ==
  [op : Nat \ {Bytes!None}, gen : Nat, epoch : Nat, purge : BOOLEAN,
   claim : Browsers \cup {Bytes!None}, age : Nat]

Places ==
  {"idle", "promote", "check", "retire", "enlist", "enlisting", "claim", "removing",
   "removed", "failed"}

Operations ==
  [at : Places, lists : BOOLEAN, seen : Nat, row : {Bytes!NoDelete} \cup Rows]

BytesTypes ==
  /\ stored \in {Bytes!NoRecord} \cup Records /\ doomed \in {Bytes!NoDelete} \cup Rows
  /\ queued \in Nat /\ staged \in Nat /\ pulled \in Nat /\ draws \in Nat
  /\ browser \in [Browsers -> Operations]
  /\ uploads \subseteq Nat \ {Bytes!None}

\* Bytes wait for their upload or are retained for an undo, never both.
OnePurpose == Bytes!Present => ~(stored.needs /\ stored.retained)

\* Behind a queued deletion the bytes are retained, nothing uploads them, and the
\* pull that brought them is no longer to be confirmed.
DoomedAreRetained == Bytes!Present /\ Bytes!Doomed => stored.retained /\ stored.pull = Bytes!None

\* A tab whose call was answered has deleted the attachment at the relay.
RemovedAreGone == \A b \in Browsers : browser[b].at = "removed" => relayHas = "gone"

BytesInv ==
  BytesTypes /\ OnePurpose /\ DoomedAreRetained /\ RemovedAreGone /\ Bytes!UploadsSurvive

\* What a step of the store owes the bytes and the queue.
StoreStep == BytesInv' /\ Bytes!EpochAdvances /\ Bytes!DeletionIsFinal

\* Nothing is stored, queued or under way at first.
LEMMA BytesInvInit == Bytes!BytesInit => BytesInv
  BY DEF Bytes!BytesInit, BytesInv, BytesTypes, OnePurpose, DoomedAreRetained, RemovedAreGone,
         Bytes!UploadsSurvive, Bytes!Present, Bytes!Doomed, Bytes!Resting, Operations, Places,
              Bytes!None, Bytes!NoRecord

\* A record is no missing one, and a row no missing one.
LEMMA Distinct ==
  /\ \A r \in Records : r # Bytes!NoRecord
  /\ \A r \in Rows : r # Bytes!NoDelete
  BY DEF Records, Rows, Bytes!NoRecord, Bytes!NoDelete, Bytes!None

\* LatestEpoch is no older than the epoch of the record.
LEMMA LatestEpochIsLatest ==
  ASSUME BytesTypes
  PROVE  Bytes!LatestEpoch \in Nat /\ (Bytes!Present => Bytes!LatestEpoch >= stored.epoch)
<1>1. Bytes!Epochs \subseteq Nat
  BY DEF BytesTypes, Bytes!Epochs, Bytes!Present, Bytes!Doomed, Records, Rows
<1>2. CASE Bytes!Epochs = {}
  BY <1>2 DEF Bytes!LatestEpoch, Bytes!None, Bytes!Epochs
<1>3. CASE Bytes!Epochs # {}
  <2>1. \E e \in Bytes!Epochs : \A f \in Bytes!Epochs : f <= e
    BY <1>1, <1>3 DEF Bytes!Epochs
  <2>2. Bytes!LatestEpoch \in Bytes!Epochs /\ \A f \in Bytes!Epochs : f <= Bytes!LatestEpoch
    BY <2>1, <1>3 DEF Bytes!LatestEpoch
  <2> QED
    BY <1>1, <2>2 DEF Bytes!Epochs
<1> QED
  BY <1>2, <1>3

-----------------------------------------------------------------------------
(* The steps of a tab that read, index or call: the record and the queue stay *)

\* What a tab goes on with.
LEMMA TabGoesOn ==
  ASSUME BytesInv, NEW b \in Browsers, NEW r \in Operations,
         browser' = [browser EXCEPT ![b] = r],
         r.at = "removed" \/ relayHas = "gone" => relayHas' = "gone"
  PROVE  browser' \in [Browsers -> Operations] /\ RemovedAreGone'
  BY DEF BytesInv, BytesTypes, RemovedAreGone

\* What leaves the record, the queue and the histories as they are keeps all of it.
LEMMA RecordStays ==
  ASSUME BytesInv, UNCHANGED <<stored, doomed, uploads, givenUp, draws>>,
         accepted \subseteq accepted', queued' \in Nat, staged' \in Nat, pulled' \in Nat,
         browser' \in [Browsers -> Operations], RemovedAreGone'
  PROVE  StoreStep
  BY DEF StoreStep, BytesInv, BytesTypes, OnePurpose, DoomedAreRetained, Bytes!UploadsSurvive,
         Bytes!EpochAdvances, Bytes!DeletionIsFinal, Bytes!Present, Bytes!Doomed, Bytes!Claimed

LEMMA OperationFields ==
  ASSUME BytesTypes, NEW b \in Browsers
  PROVE  /\ browser[b] \in Operations /\ Bytes!Resting \in Operations
         /\ browser[b].row \in {Bytes!NoDelete} \cup Rows /\ browser[b].seen \in Nat
         /\ browser[b].lists \in BOOLEAN
  BY DEF BytesTypes, Operations, Places, Bytes!Resting, Bytes!None

LEMMA RestKeeps ==
  ASSUME BytesInv, NEW b \in Browsers, Bytes!Rest(b), UNCHANGED relayHas
  PROVE  browser' \in [Browsers -> Operations] /\ RemovedAreGone'
  BY OperationFields, TabGoesOn DEF Bytes!Rest, Bytes!Resting, BytesInv

LEMMA MoveKeeps ==
  ASSUME BytesInv, NEW b \in Browsers,
         NEW at \in Places,
         Bytes!Move(b, at), at = "removed" \/ relayHas = "gone" => relayHas' = "gone"
  PROVE  browser' \in [Browsers -> Operations] /\ RemovedAreGone'
<1>1. browser' = [browser EXCEPT ![b] = [browser[b] EXCEPT !.at = at]]
  BY DEF Bytes!Move
<1>2. [browser[b] EXCEPT !.at = at] \in Operations /\ [browser[b] EXCEPT !.at = at].at = at
  BY OperationFields DEF Operations, BytesInv
<1> QED
  BY <1>1, <1>2, TabGoesOn

\* prepareUploads: what it reads is kept for its next step.
LEMMA PrepareKeeps ==
  ASSUME BytesInv, NEW b \in Browsers, NEW lists \in BOOLEAN, Bytes!Prepare(b,
       lists) PROVE StoreStep
<1>1. [Bytes!Resting EXCEPT !.at = "promote", !.lists = lists, !.seen = staged] \in Operations
  BY DEF BytesInv, BytesTypes, Operations, Places, Bytes!Resting
<1>2. browser' \in [Browsers -> Operations] /\ RemovedAreGone'
  BY <1>1, TabGoesOn DEF Bytes!Prepare, Bytes!Resting
<1> QED
  BY <1>2, RecordStays DEF Bytes!Prepare, BytesInv, BytesTypes

LEMMA PromoteKeeps ==
  ASSUME BytesInv, NEW b \in Browsers, Bytes!Promote(b) PROVE StoreStep
<1> USE OperationFields DEF BytesInv, Bytes!Promote
<1>1. queued' \in Nat /\ staged' \in Nat
  BY DEF BytesTypes, Bytes!None
<1>2. browser' = [browser EXCEPT ![b] = [browser[b] EXCEPT !.at = "check", !.seen = queued']]
  BY DEF BytesTypes
<1> DEFINE next == [browser[b] EXCEPT !.at = "check", !.seen = queued']
<1>3. next \in Operations /\ next.at = "check"
  BY <1>1 DEF Operations, Places
<1>4. browser' \in [Browsers -> Operations] /\ RemovedAreGone'
  <2> HIDE DEF next
  <2> QED
    BY <1>2, <1>3, TabGoesOn DEF next
<1> QED
  BY <1>1, <1>4, RecordStays DEF BytesTypes

LEMMA CheckKeeps ==
  ASSUME BytesInv, NEW b \in Browsers, Bytes!Check(b) \/ Bytes!Retire(b) PROVE StoreStep
<1>1. queued' \in Nat
  BY DEF Bytes!Check, Bytes!Retire, BytesInv, BytesTypes, Bytes!None
<1>2. PICK at \in {"idle", "enlist", "retire"} : Bytes!Move(b, at)
  BY DEF Bytes!Check, Bytes!Retire, Bytes!AfterCheck
<1>3. browser' \in [Browsers -> Operations] /\ RemovedAreGone'
  BY <1>2, MoveKeeps DEF Bytes!Check, Bytes!Retire, Places
<1> QED
  BY <1>1, <1>3, RecordStays DEF Bytes!Check, Bytes!Retire, BytesInv, BytesTypes

LEMMA EnlistKeeps ==
  ASSUME BytesInv, NEW b \in Browsers, Bytes!Enlist(b) PROVE StoreStep
<1> USE OperationFields DEF BytesInv, Bytes!Enlist
<1>1. CASE Bytes!Present /\ stored.needs
  <2>1. stored.gen \in Nat
    BY <1>1 DEF BytesTypes, Bytes!Present, Records
  <2>2. browser' = [browser EXCEPT ![b] = [browser[b] EXCEPT !.at = "enlisting",
       !.seen = stored.gen]]
    BY <1>1 DEF BytesTypes
  <2> DEFINE next == [browser[b] EXCEPT !.at = "enlisting", !.seen = stored.gen]
  <2>3. next \in Operations /\ next.at = "enlisting"
    BY <2>1 DEF Operations, Places
  <2>4. browser' \in [Browsers -> Operations] /\ RemovedAreGone'
    BY <2>2, <2>3, TabGoesOn
  <2> QED
    BY <2>4, RecordStays DEF BytesTypes
<1>2. CASE ~(Bytes!Present /\ stored.needs)
  BY <1>2, RestKeeps, RecordStays DEF BytesTypes
<1> QED
  BY <1>1, <1>2

LEMMA EnlistingKeeps ==
  ASSUME BytesInv, NEW b \in Browsers, Bytes!Enlisting(b) PROVE StoreStep
<1>1. queued' \in Nat /\ staged' \in Nat
  BY OperationFields DEF Bytes!Enlisting, BytesInv, BytesTypes, Bytes!None
<1> QED
  BY <1>1, RestKeeps, RecordStays DEF Bytes!Enlisting, BytesInv, BytesTypes

\* flushDeletes reads the queue, calls the relay, or the tab is closed meanwhile.
LEMMA FlushKeeps ==
  ASSUME BytesInv, NEW b \in Browsers, Bytes!Flush(b) PROVE StoreStep
<1>1. [Bytes!Resting EXCEPT !.at = "claim", !.row = doomed] \in Operations
  BY DEF BytesInv, BytesTypes, Operations, Places, Bytes!Resting, Bytes!None
<1>2. browser' \in [Browsers -> Operations] /\ RemovedAreGone'
  BY <1>1, TabGoesOn DEF Bytes!Flush, Bytes!Resting
<1> QED
  BY <1>2, RecordStays DEF Bytes!Flush, BytesInv, BytesTypes

LEMMA RemoveKeeps ==
  ASSUME BytesInv, NEW b \in Browsers, Bytes!Remove(b) PROVE StoreStep
<1>1. browser' \in [Browsers -> Operations] /\ RemovedAreGone'
  BY MoveKeeps DEF Bytes!Remove, Places
<1> QED
  BY <1>1, RecordStays DEF Bytes!Remove, BytesInv, BytesTypes

LEMMA CloseTabKeeps ==
  ASSUME BytesInv, NEW b \in Browsers, Bytes!CloseTab(b) PROVE StoreStep
  BY RestKeeps, RecordStays DEF Bytes!CloseTab, BytesInv, BytesTypes

\* The bundle with the bytes is accepted, or another device deletes them.
LEMMA RelayKeeps ==
  ASSUME BytesInv, Bytes!Commit \/ Bytes!DeletedElsewhere PROVE StoreStep
<1>1. RemovedAreGone'
  BY DEF Bytes!Commit, Bytes!DeletedElsewhere, BytesInv, RemovedAreGone
<1> QED
  BY <1>1, RecordStays DEF Bytes!Commit, Bytes!DeletedElsewhere, BytesInv, BytesTypes

-----------------------------------------------------------------------------
(* The steps that write the record or the queue *)

\* save: a new generation replaces what its caller had given up.
LEMMA SaveKeeps ==
  ASSUME BytesInv, Bytes!Save PROVE StoreStep
<1> USE Distinct
    DEF BytesInv, BytesTypes, Bytes!Save, Bytes!Present, Bytes!Doomed, Bytes!Claimed, Records,
         Rows, Bytes!NoRecord, Bytes!NoDelete, Bytes!None
<1>0. stored' \in {Bytes!NoRecord} \cup Records /\ doomed' \in {Bytes!NoDelete} \cup Rows
  BY DEF Bytes!Upload, Bytes!Draw, Bytes!Fresh
<1>1. BytesTypes'
  BY <1>0 DEF Bytes!Upload, Bytes!Draw, Bytes!Fresh
<1>2. OnePurpose' /\ DoomedAreRetained' /\ RemovedAreGone'
  BY DEF OnePurpose, DoomedAreRetained, RemovedAreGone, Bytes!Upload
<1>3. Bytes!UploadsSurvive'
  BY DEF OnePurpose, DoomedAreRetained, Bytes!UploadsSurvive, Bytes!AtStake, Bytes!Upload
<1>4. Bytes!EpochAdvances /\ Bytes!DeletionIsFinal
  BY DEF OnePurpose, DoomedAreRetained, RemovedAreGone, Bytes!EpochAdvances,
       Bytes!DeletionIsFinal, Bytes!Upload
<1> QED
  BY <1>1, <1>2, <1>3, <1>4 DEF StoreStep

\* stageUpload: no epoch older than what is there.
LEMMA StageKeeps ==
  ASSUME NEW e \in WriteEpochs \cup {Bytes!None}, WriteEpochs \subseteq Nat \ {Bytes!None},
         BytesInv, Bytes!Stage(e) PROVE StoreStep
<1> USE Distinct
    DEF BytesInv, BytesTypes, Bytes!Stage, Bytes!Present, Bytes!Doomed, Bytes!Claimed, Records,
         Rows, Bytes!NoRecord, Bytes!NoDelete, Bytes!None
<1>1. BytesTypes'
  BY DEF Bytes!Upload, Bytes!Draw, Bytes!Fresh
<1>2. OnePurpose' /\ DoomedAreRetained' /\ RemovedAreGone'
  BY DEF OnePurpose, DoomedAreRetained, RemovedAreGone, Bytes!Upload
<1>3. Bytes!UploadsSurvive'
  BY DEF OnePurpose, DoomedAreRetained, Bytes!UploadsSurvive, Bytes!AtStake, Bytes!Upload
<1>4. Bytes!EpochAdvances /\ Bytes!DeletionIsFinal
  BY LatestEpochIsLatest
  DEF OnePurpose, DoomedAreRetained, RemovedAreGone, Bytes!EpochAdvances,
       Bytes!DeletionIsFinal, Bytes!Upload
<1> QED
  BY <1>1, <1>2, <1>3, <1>4 DEF StoreStep

\* saveRemote: what is local is not replaced.
LEMMA SaveRemoteKeeps ==
  ASSUME BytesInv, Bytes!SaveRemote PROVE StoreStep
<1> USE Distinct
    DEF BytesInv, BytesTypes, Bytes!SaveRemote, Bytes!Present, Bytes!Doomed, Bytes!Claimed,
         Records, Rows, Bytes!NoRecord, Bytes!NoDelete, Bytes!None
<1>1. BytesTypes'
  BY DEF Bytes!Draw, Bytes!Fresh
<1>2. OnePurpose' /\ DoomedAreRetained' /\ RemovedAreGone'
  BY DEF OnePurpose, DoomedAreRetained, RemovedAreGone
<1>3. Bytes!UploadsSurvive'
  BY DEF OnePurpose, DoomedAreRetained, Bytes!UploadsSurvive, Bytes!AtStake
<1>4. Bytes!EpochAdvances /\ Bytes!DeletionIsFinal
  BY DEF OnePurpose, DoomedAreRetained, RemovedAreGone, Bytes!EpochAdvances,
       Bytes!DeletionIsFinal
<1> QED
  BY <1>1, <1>2, <1>3, <1>4 DEF StoreStep

\* confirmRemote: no deletion is queued, it would have ended the pull.
LEMMA ConfirmRemoteKeeps ==
  ASSUME BytesInv, Bytes!ConfirmRemote PROVE StoreStep
<1> USE Distinct
    DEF BytesInv, BytesTypes, Bytes!ConfirmRemote, Bytes!Present, Bytes!Doomed, Bytes!Claimed,
         Records, Rows, Bytes!NoRecord, Bytes!NoDelete, Bytes!None
<1>1. BytesTypes'
  BY DEF Bytes!None
<1>2. OnePurpose' /\ DoomedAreRetained' /\ RemovedAreGone'
  BY DEF OnePurpose, DoomedAreRetained, RemovedAreGone
<1>3. Bytes!UploadsSurvive'
  BY DEF OnePurpose, DoomedAreRetained, Bytes!UploadsSurvive, Bytes!AtStake
<1>4. Bytes!EpochAdvances /\ Bytes!DeletionIsFinal
  BY DEF OnePurpose, DoomedAreRetained, RemovedAreGone, Bytes!EpochAdvances,
       Bytes!DeletionIsFinal
<1> QED
  BY <1>1, <1>2, <1>3, <1>4 DEF StoreStep

\* discardStage: one generation, given up by who staged it.
LEMMA DiscardStageKeeps ==
  ASSUME NEW g \in 1..MaxDraws, BytesInv, Bytes!DiscardStage(g) PROVE StoreStep
<1> USE Distinct
    DEF BytesInv, BytesTypes, Bytes!DiscardStage, Bytes!Present, Bytes!Doomed, Bytes!Claimed,
         Records, Rows, Bytes!NoRecord, Bytes!NoDelete, Bytes!None
<1>1. BytesTypes'
  BY DEF Bytes!None
<1>2. OnePurpose' /\ DoomedAreRetained' /\ RemovedAreGone'
  BY DEF OnePurpose, DoomedAreRetained, RemovedAreGone
<1>3. Bytes!UploadsSurvive'
  BY DEF OnePurpose, DoomedAreRetained, Bytes!UploadsSurvive, Bytes!AtStake
<1>4. Bytes!EpochAdvances /\ Bytes!DeletionIsFinal
  BY DEF OnePurpose, DoomedAreRetained, RemovedAreGone, Bytes!EpochAdvances,
       Bytes!DeletionIsFinal
<1> QED
  BY <1>1, <1>2, <1>3, <1>4 DEF StoreStep

\* confirmCompoundUpload: the generation the relay took, and no other.
LEMMA ConfirmKeeps ==
  ASSUME NEW g \in 1..MaxDraws, BytesInv, Bytes!Confirm(g) PROVE StoreStep
<1> USE Distinct
    DEF BytesInv, BytesTypes, Bytes!Confirm, Bytes!Present, Bytes!Doomed, Bytes!Claimed,
         Records, Rows, Bytes!NoRecord, Bytes!NoDelete, Bytes!None
<1>1. BytesTypes'
  BY DEF Bytes!None
<1>2. OnePurpose' /\ DoomedAreRetained' /\ RemovedAreGone'
  BY DEF OnePurpose, DoomedAreRetained, RemovedAreGone
<1>3. Bytes!UploadsSurvive'
  BY DEF OnePurpose, DoomedAreRetained, Bytes!UploadsSurvive, Bytes!AtStake
<1>4. Bytes!EpochAdvances /\ Bytes!DeletionIsFinal
  BY DEF OnePurpose, DoomedAreRetained, RemovedAreGone, Bytes!EpochAdvances,
       Bytes!DeletionIsFinal
<1> QED
  BY <1>1, <1>2, <1>3, <1>4 DEF StoreStep

\* discardRejectedUploads: one generation, its note kept as a copy.
LEMMA DiscardRejectedKeeps ==
  ASSUME NEW g \in 1..MaxDraws, BytesInv, Bytes!DiscardRejected(g) PROVE StoreStep
<1> USE Distinct
    DEF BytesInv, BytesTypes, Bytes!DiscardRejected, Bytes!Present, Bytes!Doomed,
         Bytes!Claimed, Records, Rows, Bytes!NoRecord, Bytes!NoDelete, Bytes!None
<1>1. BytesTypes'
  BY DEF Bytes!None
<1>2. OnePurpose' /\ DoomedAreRetained' /\ RemovedAreGone'
  BY DEF OnePurpose, DoomedAreRetained, RemovedAreGone
<1>3. Bytes!UploadsSurvive'
  BY DEF OnePurpose, DoomedAreRetained, Bytes!UploadsSurvive, Bytes!AtStake
<1>4. Bytes!EpochAdvances /\ Bytes!DeletionIsFinal
  BY DEF OnePurpose, DoomedAreRetained, RemovedAreGone, Bytes!EpochAdvances,
       Bytes!DeletionIsFinal
<1> QED
  BY <1>1, <1>2, <1>3, <1>4 DEF StoreStep

\* queueDelete: the upload that was pending is kept in the queue.
LEMMA QueueDeleteKeeps ==
  ASSUME NEW purge \in BOOLEAN, BytesInv, Bytes!QueueDelete(purge) PROVE StoreStep
<1> USE Distinct
    DEF BytesInv, BytesTypes, Bytes!QueueDelete, Bytes!Present, Bytes!Doomed, Bytes!Claimed,
         Records, Rows, Bytes!NoRecord, Bytes!NoDelete, Bytes!None
<1>0. stored' \in {Bytes!NoRecord} \cup Records /\ doomed' \in {Bytes!NoDelete} \cup Rows
  <2>1. doomed' \in Rows
    <3>1. CASE Bytes!Present
      BY <3>1 DEF Bytes!Draw, Bytes!Fresh
    <3>2. CASE ~Bytes!Present
      BY <3>2 DEF Bytes!Draw, Bytes!Fresh
    <3> QED
      BY <3>1, <3>2
  <2>2. stored' \in {Bytes!NoRecord} \cup Records
    OBVIOUS
  <2> QED
    BY <2>1, <2>2
<1>1. BytesTypes'
  BY <1>0 DEF Bytes!Draw, Bytes!Fresh
<1>2. OnePurpose' /\ DoomedAreRetained' /\ RemovedAreGone'
  BY DEF OnePurpose, DoomedAreRetained, RemovedAreGone
<1>3. Bytes!UploadsSurvive'
  BY DEF OnePurpose, DoomedAreRetained, Bytes!UploadsSurvive, Bytes!AtStake
<1>4. Bytes!EpochAdvances /\ Bytes!DeletionIsFinal
  BY DEF OnePurpose, DoomedAreRetained, RemovedAreGone, Bytes!EpochAdvances,
       Bytes!DeletionIsFinal
<1> QED
  BY <1>1, <1>2, <1>3, <1>4 DEF StoreStep

\* cancelDelete: and comes back with its generation.
LEMMA CancelDeleteKeeps ==
  ASSUME BytesInv, Bytes!CancelDelete PROVE StoreStep
<1> USE Distinct
    DEF BytesInv, BytesTypes, Bytes!CancelDelete, Bytes!Present, Bytes!Doomed, Bytes!Claimed,
         Records, Rows, Bytes!NoRecord, Bytes!NoDelete, Bytes!None
<1>1. BytesTypes'
  BY DEF Bytes!None
<1>2. OnePurpose' /\ DoomedAreRetained' /\ RemovedAreGone'
  BY DEF OnePurpose, DoomedAreRetained, RemovedAreGone
<1>3. Bytes!UploadsSurvive'
  BY DEF OnePurpose, DoomedAreRetained, Bytes!UploadsSurvive, Bytes!AtStake
<1>4. Bytes!EpochAdvances /\ Bytes!DeletionIsFinal
  BY DEF OnePurpose, DoomedAreRetained, RemovedAreGone, Bytes!EpochAdvances,
       Bytes!DeletionIsFinal
<1> QED
  BY <1>1, <1>2, <1>3, <1>4 DEF StoreStep

\* purgeRetained: the undo is given up.
LEMMA PurgeRetainedKeeps ==
  ASSUME BytesInv, Bytes!PurgeRetained PROVE StoreStep
<1> USE Distinct
    DEF BytesInv, BytesTypes, Bytes!PurgeRetained, Bytes!Present, Bytes!Doomed, Bytes!Claimed,
         Records, Rows, Bytes!NoRecord, Bytes!NoDelete, Bytes!None
<1>1. BytesTypes'
  BY DEF Bytes!None
<1>2. OnePurpose' /\ DoomedAreRetained' /\ RemovedAreGone'
  BY DEF OnePurpose, DoomedAreRetained, RemovedAreGone
<1>3. Bytes!UploadsSurvive'
  BY DEF OnePurpose, DoomedAreRetained, Bytes!UploadsSurvive, Bytes!AtStake
<1>4. Bytes!EpochAdvances /\ Bytes!DeletionIsFinal
  BY DEF OnePurpose, DoomedAreRetained, RemovedAreGone, Bytes!EpochAdvances,
       Bytes!DeletionIsFinal
<1> QED
  BY <1>1, <1>2, <1>3, <1>4 DEF StoreStep

\* applyRemoteDelete: what waits for its upload is kept.
LEMMA ApplyRemoteDeleteKeeps ==
  ASSUME BytesInv, Bytes!ApplyRemoteDelete PROVE StoreStep
<1> USE Distinct
    DEF BytesInv, BytesTypes, Bytes!ApplyRemoteDelete, Bytes!Present, Bytes!Doomed,
         Bytes!Claimed, Records, Rows, Bytes!NoRecord, Bytes!NoDelete, Bytes!None
<1>1. BytesTypes'
  BY DEF Bytes!None
<1>2. OnePurpose' /\ DoomedAreRetained' /\ RemovedAreGone'
  BY DEF OnePurpose, DoomedAreRetained, RemovedAreGone
<1>3. Bytes!UploadsSurvive'
  BY DEF OnePurpose, DoomedAreRetained, Bytes!UploadsSurvive, Bytes!AtStake, Bytes!Pending,
       Bytes!Staged
<1>4. Bytes!EpochAdvances /\ Bytes!DeletionIsFinal
  BY DEF OnePurpose, DoomedAreRetained, RemovedAreGone, Bytes!EpochAdvances,
       Bytes!DeletionIsFinal
<1> QED
  BY <1>1, <1>2, <1>3, <1>4 DEF StoreStep

\* flushDeletes claims the row: it is the same deletion.
LEMMA ClaimKeeps ==
  ASSUME NEW b \in Browsers, BytesInv, Bytes!Claim(b) PROVE StoreStep
<1> DEFINE row == [doomed EXCEPT !.claim = b, !.age = 0]
<1> USE Distinct
    DEF BytesInv, BytesTypes, Bytes!Claim, Bytes!Present, Bytes!Doomed, Bytes!Claimed
<1>1. CASE doomed' = doomed /\ Bytes!Rest(b)
  BY <1>1, RestKeeps, RecordStays
<1>2. CASE /\ Bytes!Doomed /\ doomed' = row
           /\ browser' = [browser EXCEPT ![b].at = "removing", ![b].row = row]
  <2>1. row \in Rows /\ row.gen = doomed.gen
    BY <1>2 DEF Rows
  <2>2. browser' = [browser EXCEPT ![b] = [browser[b] EXCEPT !.at = "removing", !.row = row]]
    BY <1>2
  <2> DEFINE next == [browser[b] EXCEPT !.at = "removing", !.row = row]
  <2>a. next \in Operations /\ next.at = "removing"
    BY <2>1, OperationFields DEF Operations, Places
  <2>3. browser' \in [Browsers -> Operations] /\ RemovedAreGone'
    BY <2>2, <2>a, TabGoesOn
  <2>4. BytesTypes' /\ OnePurpose' /\ DoomedAreRetained' /\ Bytes!UploadsSurvive'
    BY <1>2, <2>1, <2>3 DEF OnePurpose, DoomedAreRetained, Bytes!UploadsSurvive
  <2>5. Bytes!EpochAdvances /\ Bytes!DeletionIsFinal
    BY <1>2, <2>1 DEF Bytes!EpochAdvances, Bytes!DeletionIsFinal
  <2> QED
    BY <2>3, <2>4, <2>5 DEF StoreStep
<1> QED
  BY <1>1, <1>2

\* ... deletes the bytes it was to purge, if the claim is still its own ...
LEMMA CompleteKeeps ==
  ASSUME NEW b \in Browsers, BytesInv, Bytes!Complete(b) PROVE StoreStep
<1> USE Distinct
    DEF BytesInv, BytesTypes, Bytes!Complete, Bytes!Present, Bytes!Doomed, Bytes!Claimed,
         Records, Rows, Bytes!NoRecord, Bytes!NoDelete, Bytes!None
<1>1. BytesTypes'
  BY RestKeeps DEF Bytes!None
<1>2. OnePurpose' /\ DoomedAreRetained' /\ RemovedAreGone'
  BY DEF OnePurpose, DoomedAreRetained, RemovedAreGone, Bytes!Rest, Bytes!Resting
<1>3. Bytes!UploadsSurvive'
  BY DEF OnePurpose, DoomedAreRetained, Bytes!UploadsSurvive, Bytes!AtStake, Bytes!Owns
<1>4. Bytes!EpochAdvances /\ Bytes!DeletionIsFinal
  BY DEF OnePurpose, DoomedAreRetained, RemovedAreGone, Bytes!EpochAdvances,
       Bytes!DeletionIsFinal, Bytes!Owns
<1> QED
  BY <1>1, <1>2, <1>3, <1>4 DEF StoreStep

\* ... or gives the claim back.
LEMMA ReleaseKeeps ==
  ASSUME NEW b \in Browsers, BytesInv, Bytes!Release(b) PROVE StoreStep
<1> USE Distinct
    DEF BytesInv, BytesTypes, Bytes!Release, Bytes!Present, Bytes!Doomed, Bytes!Claimed,
         Records, Rows, Bytes!NoRecord, Bytes!NoDelete, Bytes!None
<1>1. BytesTypes'
  BY RestKeeps DEF Bytes!None
<1>2. OnePurpose' /\ DoomedAreRetained' /\ RemovedAreGone'
  BY DEF OnePurpose, DoomedAreRetained, RemovedAreGone, Bytes!Rest, Bytes!Resting
<1>3. Bytes!UploadsSurvive'
  BY DEF OnePurpose, DoomedAreRetained, Bytes!UploadsSurvive, Bytes!AtStake
<1>4. Bytes!EpochAdvances /\ Bytes!DeletionIsFinal
  BY DEF OnePurpose, DoomedAreRetained, RemovedAreGone, Bytes!EpochAdvances,
       Bytes!DeletionIsFinal
<1> QED
  BY <1>1, <1>2, <1>3, <1>4 DEF StoreStep

\* A claim grows old, and the deletion stays the same.
LEMMA ElapseKeeps ==
  ASSUME BytesInv, Bytes!Elapse PROVE StoreStep
<1> USE Distinct
    DEF BytesInv, BytesTypes, Bytes!Elapse, Bytes!Present, Bytes!Doomed, Bytes!Claimed,
         Records, Rows, Bytes!NoRecord, Bytes!NoDelete, Bytes!None
<1>1. BytesTypes'
  BY DEF Bytes!None
<1>2. OnePurpose' /\ DoomedAreRetained' /\ RemovedAreGone'
  BY DEF OnePurpose, DoomedAreRetained, RemovedAreGone
<1>3. Bytes!UploadsSurvive'
  BY DEF OnePurpose, DoomedAreRetained, Bytes!UploadsSurvive, Bytes!AtStake
<1>4. Bytes!EpochAdvances /\ Bytes!DeletionIsFinal
  BY DEF OnePurpose, DoomedAreRetained, RemovedAreGone, Bytes!EpochAdvances,
       Bytes!DeletionIsFinal
<1> QED
  BY <1>1, <1>2, <1>3, <1>4 DEF StoreStep

-----------------------------------------------------------------------------
LEMMA StoreStepHolds ==
  ASSUME WriteEpochs \subseteq Nat \ {Bytes!None}, BytesInv, Bytes!BytesNext PROVE StoreStep
<1>1. CASE \E b \in Browsers : Bytes!Preparing(b)
  BY <1>1, PromoteKeeps, CheckKeeps, EnlistKeeps, EnlistingKeeps DEF Bytes!Preparing
<1>2. CASE \E b \in Browsers : Bytes!Flushing(b)
  BY <1>2, FlushKeeps, ClaimKeeps, RemoveKeeps, CompleteKeeps, ReleaseKeeps DEF Bytes!Flushing
<1>3. CASE \E b \in Browsers, lists \in BOOLEAN : Bytes!CloseTab(b) \/ Bytes!Prepare(b, lists)
  BY <1>3, CloseTabKeeps, PrepareKeeps
<1>4. CASE Bytes!Save \/ \E e \in WriteEpochs \cup {Bytes!None} : Bytes!Stage(e)
  BY <1>4, SaveKeeps, StageKeeps
<1>5. CASE Bytes!SaveRemote \/ Bytes!ConfirmRemote \/ Bytes!Commit \/ Bytes!DeletedElsewhere
  BY <1>5, SaveRemoteKeeps, ConfirmRemoteKeeps, RelayKeeps
<1>6. CASE \E g \in 1..MaxDraws :
             Bytes!DiscardStage(g) \/ Bytes!Confirm(g) \/ Bytes!DiscardRejected(g)
  BY <1>6, DiscardStageKeeps, ConfirmKeeps, DiscardRejectedKeeps
<1>7. CASE \/ \E purge \in BOOLEAN : Bytes!QueueDelete(purge)
           \/ Bytes!CancelDelete \/ Bytes!PurgeRetained
  BY <1>7, QueueDeleteKeeps, CancelDeleteKeeps, PurgeRetainedKeeps
<1>8. CASE Bytes!ApplyRemoteDelete \/ Bytes!Elapse
  BY <1>8, ApplyRemoteDeleteKeeps, ElapseKeeps
<1> QED
  BY <1>1, <1>2, <1>3, <1>4, <1>5, <1>6, <1>7, <1>8 DEF Bytes!BytesNext

\* A step that changes none of it.
LEMMA BytesStutter ==
  ASSUME BytesInv, UNCHANGED Bytes!bytesVars PROVE StoreStep
<1>1. RemovedAreGone'
  BY DEF BytesInv, RemovedAreGone, Bytes!bytesVars
<1> QED
  BY <1>1, RecordStays DEF BytesInv, BytesTypes, Bytes!bytesVars

\* Bytes that wait for their upload stay until the relay took them or their caller
\* let go of them, whatever pulls, tombstones, deletions and tabs come between.
THEOREM UploadsAlwaysSurvive ==
  ASSUME WriteEpochs \subseteq Nat \ {Bytes!None}
  PROVE  Bytes!BytesSpec => []Bytes!UploadsSurvive
<1>1. Bytes!BytesInit => BytesInv
  BY BytesInvInit
<1>2. BytesInv /\ [Bytes!BytesNext]_(Bytes!bytesVars) => BytesInv'
  BY StoreStepHolds, BytesStutter DEF StoreStep
<1>3. BytesInv => Bytes!UploadsSurvive
  BY DEF BytesInv
<1> QED
  BY <1>1, <1>2, <1>3, PTL DEF Bytes!BytesSpec

\* A writer's epoch in the record only advances, and while a tab deletes the
\* attachment at the relay nobody brings its bytes back or drops the deletion.
THEOREM EpochsAndDeletionsHold ==
  ASSUME WriteEpochs \subseteq Nat \ {Bytes!None}
  PROVE  Bytes!BytesSpec => Bytes!EpochsAndDeletions
<1>1. Bytes!BytesInit => BytesInv
  BY BytesInvInit
<1>2. BytesInv /\ [Bytes!BytesNext]_(Bytes!bytesVars) =>
        BytesInv' /\ [Bytes!EpochAdvances /\ Bytes!DeletionIsFinal]_(Bytes!bytesVars)
  BY StoreStepHolds, BytesStutter DEF StoreStep
<1> QED
  BY <1>1, <1>2, PTL DEF Bytes!BytesSpec, Bytes!EpochsAndDeletions

-----------------------------------------------------------------------------
(* The clips of the command line: what was published arrives once and its copy stays,
   whatever command is killed, whatever answer is lost and whoever edits the note;
   its bundle stays listed until another device removes it, and what a command knows
   of its own clip holds until a stage expires or a copy disappears under it *)

CONSTANTS Logins, Mutations, MaxEvents

\* faults are those of a behaviour of the command line, removed is its history.
VARIABLES intent, cache, base, root, files, relay, login, command, reported, removed, lost,
          copies, drawn, mutations, events

Clips == INSTANCE Clip

\* Every number is one that was drawn, an intent and a bundle have one.
Thens  == {"off", "copy", "report", "pending", "pull"}
ClipPlaces ==
  {"off", "committed", "pending", "pull", "recover", "retire", "forget", "attempt", "stage",
   "final", "repull", "settle", "complete", "unstage", "abandon", "reidentify", "cancel",
   "discard", "copy", "intend", "report"}

Commands ==
  [at : ClipPlaces, clips : BOOLEAN, own : Nat, early : BOOLEAN, attempt : Nat, file : Nat,
   then : Thens]
Bundles ==
  [mutation : Nat, id : Nat, login : Nat, base : Nat, sealed : BOOLEAN, staged : BOOLEAN,
   final : BOOLEAN, done : BOOLEAN]
Stages == [mutation : Nat, id : Nat, login : Nat]
Relays ==
  [listed : SUBSET Nat, rev : Nat, stages : SUBSET Stages,
   receipts : SUBSET [mutation : Nat, login : Nat, rev : Nat], used : SUBSET Nat]

ClipTypes ==
  /\ intent \in [id : Nat, file : Nat] /\ cache \subseteq Nat /\ base \in Nat
  /\ root \in Bundles /\ files \subseteq Nat /\ relay \in Relays
  /\ login \in Nat /\ command \in Commands
  /\ reported \subseteq Nat /\ removed \subseteq Nat /\ lost \subseteq Nat
  /\ copies \subseteq Nat \X Nat /\ drawn \in Nat /\ mutations \in Nat

\* Nothing has a number that is still to be drawn.
NumbersAreDrawn ==
  /\ \A i \in relay.used : i <= drawn
  /\ \A s \in relay.stages : s.id <= drawn /\ s.mutation <= mutations
  /\ \A r \in relay.receipts : r.mutation <= mutations
  /\ \A c \in copies : c[1] <= drawn /\ c[2] <= drawn
  /\ command.own <= drawn /\ root.mutation <= mutations
  /\ intent # Clips!NoIntent => intent.id \in 1..drawn /\ intent.file \in 1..drawn

\* What was listed is used, and the cache has nothing else.
ListedAreUsed ==
  relay.listed \cup removed \subseteq relay.used /\ cache \subseteq relay.listed \cup removed

\* A bundle is that of the intent, until the intent is settled with its answer.
BundleIsIntended ==
  root # Clips!NoRoot =>
    /\ root.id > 0 /\ (intent.id = root.id \/ (intent = Clips!NoIntent /\ root.done))
    /\ root.final => root.staged
    /\ root.staged => root.sealed

\* What the relay has answered for the bundle was published.
BundleIsPublished ==
  /\ root # Clips!NoRoot /\ Clips!Receipts # {} => root.id \in relay.listed \cup removed
  /\ root.done => root # Clips!NoRoot /\ root.id \in relay.listed \cup removed

\* It stays in the note, and is in the cache once the intent is settled, as long as
\* nobody removes it before its bundle is completed.
NoRemoval == "removal" \notin overlaps
BundleIsListed ==
  NoRemoval =>
    /\ root # Clips!NoRoot /\ Clips!Receipts # {} => root.id \in relay.listed
    /\ root.done => root.id \in relay.listed
    /\ root.done /\ intent = Clips!NoIntent => root.id \in cache

\* The IDs of a copy are its own, the intent's is one of them, and of its others
\* none is in the note.
IdsAreOfOneCopy ==
  /\ \A c, d \in copies : c[2] = d[2] => c = d
  /\ intent # Clips!NoIntent =>
       /\ <<intent.file, intent.id>> \in copies
       /\ \A c \in copies : c[1] = intent.file /\ c[2] # intent.id => c[2] \notin relay.listed

\* Where a command is with the intent and the bundle.
Steps == {"attempt", "repull", "abandon", "reidentify"}
LaterSteps == Steps \cup (IF command.early THEN {} ELSE {"stage", "final"})

PlacesHold ==
  /\ root.done => command.at \in {"off", "committed", "settle", "complete"}
  /\ command.at \in {"settle", "complete"} => root.done
  /\ command.at \in {"pull", "recover", "retire",
       "abandon"} => root = Clips!NoRoot \/ Clips!Foreign
  /\ command.at \in {"forget", "unstage", "copy", "intend", "repull", "reidentify", "discard"} =>
       root = Clips!NoRoot
  /\ command.at \in {"stage", "final"} => root # Clips!NoRoot
  /\ command.at = "final" => root.staged
  /\ command.at \in {"unstage", "copy", "intend", "complete"} => intent = Clips!NoIntent
  /\ command.at \in {"retire", "forget", "cancel", "discard"} => intent # Clips!NoIntent
  /\ command.at = "recover" /\ intent.id \in relay.listed => intent.id \in cache
  /\ command.at \in LaterSteps => intent # Clips!NoIntent /\ intent.id \notin relay.listed
  /\ command.at = "attempt" => root = Clips!NoRoot \/ intent.id \notin cache
  /\ command.at = "cancel" => ~root.final
  /\ command.at = "discard" => ~command.early
  /\ command.at \in {"committed", "pending"} => command.then \in {"off", "pending"}
  /\ "copy" \in {command.at, command.then} => command.clips /\ ~command.early

\* The clip of the command itself: until it is intended nothing was done with its ID.
own == command.own
Begun == {"intend", "recover"}
OwnBegins ==
  /\ command.then = "report" => own # 0
  /\ command.at \in {"intend", "report"} => own # 0
  /\ own # 0 =>
       /\ command.clips /\ ~command.early
       /\ command.at \notin {"off", "committed", "pending", "copy"}
       /\ command.at \notin Begun => command.then = "report"
  /\ command.at = "intend" =>
       /\ own \in files \cup lost /\ own \notin relay.used
       /\ \A c \in copies : c[1] # own /\ c[2] # own

\* Until it is published nobody has used its ID, its copy is there, and it is reported
\* when it was in the note, unless its stage expired or its copy disappeared.
Before == Begun \cup (IF command.attempt < 3 THEN {"attempt", "repull", "stage"} ELSE {})

NoFailure == "expired" \notin overlaps /\ "tampered" \notin overlaps
OwnHolds ==
  NoFailure /\ own # 0 =>
     /\ command.at \in {"intend", "recover", "attempt", "stage", "final", "repull", "settle",
                        "complete", "unstage", "report", "abandon", "reidentify"}
     /\ command.at \notin {"complete", "unstage", "report"} => own \in files
     /\ command.at \in Before \cup {"final"} => own \notin relay.used
     /\ command.at \in (Before \ {"intend"}) \cup {"final"} => intent = [id |-> own, file |-> own]
     /\ command.at \in Before => \A s \in relay.stages : s.id # own
     /\ command.at \in {"recover", "attempt"} => root = Clips!NoRoot
     /\ command.at \in {"stage", "final"} =>
          command.attempt < 3 /\ Clips!Receipts = {} /\ root.login = login
     /\ command.at = "stage" => ~root.staged /\ ~root.sealed
     /\ command.at = "final" =>
          /\ Clips!Staged
          /\ \A s \in relay.stages : s.id = own => s.mutation = root.mutation /\ s.login = login
     /\ command.at \in {"abandon", "reidentify"} => command.attempt = 3
     /\ command.at = "settle" => root.id = own
     /\ command.at \in {"complete", "unstage"} => command.then = "report"
     /\ command.at \in {"complete", "unstage", "report"} => own \in relay.listed \cup removed

ClipInv ==
  /\ ClipTypes /\ NumbersAreDrawn /\ ListedAreUsed /\ BundleIsIntended
  /\ BundleIsPublished /\ BundleIsListed
  /\ IdsAreOfOneCopy /\ PlacesHold /\ OwnBegins /\ OwnHolds
  /\ Clips!ReportedArePublished /\ Clips!CopiesAreKept /\ Clips!PublishedOnce

-----------------------------------------------------------------------------
(* Helpers *)

USE DEF Clips!Doing, Clips!To, Clips!Exit, Clips!Fault, Clips!Event, Clips!Draw, Clips!past,
     Clips!local, own, NoRemoval, NoFailure

\* At first nothing is under way.
LEMMA ClipInvInit == Clips!ClipInit => ClipInv
<1> SUFFICES ASSUME Clips!ClipInit PROVE ClipInv
  OBVIOUS
<1>1. ClipTypes
  BY DEF Clips!ClipInit, ClipTypes, Commands, Bundles, Stages, Relays, ClipPlaces, Thens,
         Clips!NoIntent, Clips!NoRoot, Clips!Off
<1>2. PlacesHold /\ OwnHolds /\ OwnBegins
  BY DEF Clips!ClipInit, PlacesHold, OwnHolds, OwnBegins, Clips!Off, Clips!NoRoot, Clips!NoIntent,
         LaterSteps, Steps
<1> QED
  BY <1>1, <1>2
  DEF Clips!ClipInit, ClipInv, NumbersAreDrawn, ListedAreUsed, BundleIsIntended, BundleIsListed,
      BundleIsPublished,
      IdsAreOfOneCopy, Clips!ReportedArePublished, Clips!CopiesAreKept, Clips!PublishedOnce,
           Clips!Off, Clips!NoRoot, Clips!NoIntent

\* The fields of what is stored.
LEMMA ClipFields ==
  ASSUME ClipTypes
  PROVE  /\ intent.id \in Nat /\ intent.file \in Nat
         /\ root.mutation \in Nat /\ root.id \in Nat /\ root.login \in Nat /\ root.base \in Nat
         /\ root.sealed \in BOOLEAN /\ root.staged \in BOOLEAN /\ root.final \in BOOLEAN
         /\ root.done \in BOOLEAN
         /\ relay.listed \subseteq Nat /\ relay.used \subseteq Nat /\ relay.rev \in Nat
         /\ relay.stages \subseteq Stages
         /\ command.at \in ClipPlaces /\ command.clips \in BOOLEAN /\ command.own \in Nat
         /\ command.early \in BOOLEAN /\ command.attempt \in Nat /\ command.file \in Nat
         /\ command.then \in Thens
  BY DEF ClipTypes, Commands, Bundles, Relays

\* A command that goes on keeps what it knows.
Goes(at) ==
  /\ command' \in Commands /\ command'.at = at /\ command'.clips = command.clips
  /\ command'.own = command.own /\ command'.early = command.early
  /\ command'.attempt = command.attempt /\ command'.file = command.file
  /\ command'.then = command.then

\* To does.
LEMMA ToGoes ==
  ASSUME ClipTypes, NEW at \in ClipPlaces, Clips!To(at) PROVE Goes(at)
  BY DEF ClipTypes, Commands, Goes

\* No command runs.
LEMMA OffIs ==
  /\ Clips!Off \in Commands /\ Clips!Off.at = "off" /\ Clips!Off.own = 0
  /\ Clips!Off.then = "off" /\ ~Clips!Off.early /\ ~Clips!Off.clips /\ Clips!Off.attempt = 0
  BY DEF Clips!Off, Commands, ClipPlaces, Thens

\* No bundle and no intent.
LEMMA NoneIs ==
  /\ Clips!NoRoot \in Bundles /\ Clips!NoRoot.id = 0 /\ ~Clips!NoRoot.done
  /\ ~Clips!NoRoot.final /\ ~Clips!NoRoot.staged /\ ~Clips!NoRoot.sealed /\ Clips!NoRoot.mutation = 0
  /\ Clips!NoIntent.id = 0 /\ Clips!NoIntent.file = 0 /\ Clips!NoIntent \in [id : Nat, file : Nat]
  BY DEF Clips!NoRoot, Clips!NoIntent, Bundles

\* An intent without a number is none.
LEMMA IntentIs ==
  ASSUME ClipTypes, NumbersAreDrawn PROVE intent = Clips!NoIntent <=> intent.id = 0
  BY NoneIs DEF ClipTypes, NumbersAreDrawn

\* What was drawn stays drawn.
LEMMA StillDrawn ==
  ASSUME ClipTypes, NumbersAreDrawn, NEW n \in Nat, n >= drawn, NEW m \in Nat, m >= mutations
  PROVE  /\ \A i \in relay.used : i <= n
         /\ \A s \in relay.stages : s.id <= n /\ s.mutation <= m
         /\ \A r \in relay.receipts : r.mutation <= m
         /\ \A c \in copies : c[1] <= n /\ c[2] <= n
         /\ command.own <= n /\ root.mutation <= m
         /\ intent # Clips!NoIntent => intent.id \in 1..n /\ intent.file \in 1..n
<1>1. \A s \in relay.stages : s.id \in Nat /\ s.mutation \in Nat
  BY DEF ClipTypes, Relays, Stages
<1>2. \A r \in relay.receipts : r.mutation \in Nat
  BY DEF ClipTypes, Relays
<1>3. \A c \in copies : c[1] \in Nat /\ c[2] \in Nat
  BY DEF ClipTypes
<1>4. command.own \in Nat /\ root.mutation \in Nat /\ relay.used \subseteq Nat
      /\ drawn \in Nat /\ mutations \in Nat /\ intent.id \in Nat /\ intent.file \in Nat
  BY ClipFields DEF ClipTypes
<1> QED
  BY <1>1, <1>2, <1>3, <1>4 DEF NumbersAreDrawn

\* recoverPendingClipCompound
LEMMA RecoverPendingKeeps ==
  ASSUME ClipInv, Clips!RecoverPending,
         UNCHANGED overlaps
  PROVE  ClipInv'
<1> USE ClipFields, NoneIs, IntentIs DEF ClipInv
<1>0. \/ Goes("pull") /\ (intent = Clips!NoIntent \/ root = Clips!NoRoot \/ Clips!Foreign)
      \/ /\ command' \in Commands /\ command'.at = "stage" /\ command'.early
         /\ command'.own = command.own /\ command'.then = command.then /\ root # Clips!NoRoot
         /\ command'.attempt = command.attempt
  BY DEF Clips!RecoverPending, ClipTypes, Commands, ClipPlaces, Goes
<1>1. ClipTypes'
  BY <1>0 DEF Clips!RecoverPending, Goes, ClipTypes
<1>2. NumbersAreDrawn'
  BY <1>0 DEF Clips!RecoverPending, Goes, NumbersAreDrawn
<1>3. ListedAreUsed'
  BY <1>0 DEF Clips!RecoverPending, Goes, ListedAreUsed
<1>4. BundleIsIntended'
  BY <1>0 DEF Clips!RecoverPending, Goes, BundleIsIntended
<1>5. BundleIsListed'
  BY <1>0
  DEF Clips!RecoverPending, Goes, BundleIsListed, BundleIsPublished, BundleIsIntended,
      PlacesHold, Clips!Receipts
<1>6. IdsAreOfOneCopy'
  BY <1>0 DEF Clips!RecoverPending, Goes, IdsAreOfOneCopy
<1>7. PlacesHold'
  BY <1>0
  DEF Clips!RecoverPending, Goes, PlacesHold, LaterSteps, Steps, Clips!Foreign, BundleIsIntended
<1>8. OwnHolds'
  BY <1>0 DEF Clips!RecoverPending, Goes, OwnHolds, OwnBegins
<1>9. Clips!ReportedArePublished'
  BY <1>0 DEF Clips!RecoverPending, Goes, Clips!ReportedArePublished
<1>10. Clips!CopiesAreKept'
  BY <1>0 DEF Clips!RecoverPending, Goes, Clips!CopiesAreKept
<1>11. Clips!PublishedOnce'
  BY <1>0 DEF Clips!RecoverPending, Goes, Clips!PublishedOnce
<1>12. BundleIsPublished'
  BY <1>0
  DEF Clips!RecoverPending, Goes, BundleIsPublished, BundleIsIntended, PlacesHold, Clips!Receipts
<1>13. OwnBegins'
  BY <1>0 DEF Clips!RecoverPending, Goes, OwnBegins, Begun
<1> QED
  BY <1>1, <1>2, <1>3, <1>4, <1>5, <1>6, <1>7, <1>8, <1>9, <1>10, <1>11, <1>12, <1>13

\* recoverInterruptedClip
LEMMA RecoverKeeps ==
  ASSUME ClipInv, Clips!Recover,
         UNCHANGED overlaps
  PROVE  ClipInv'
<1> USE ClipFields, NoneIs, IntentIs DEF ClipInv
<1>0. /\ command' \in Commands /\ ~command'.early /\ command'.attempt = 0
      /\ command'.then = Clips!After
      /\ command'.clips = command.clips /\ command'.own = command.own
      /\ command'.at = IF intent = Clips!NoIntent THEN Clips!After
                       ELSE IF intent.id \in cache THEN "retire" ELSE "attempt"
  <2>1. command.own \in Nat /\ Clips!After \in Thens \cap ClipPlaces
    BY DEF Clips!After, ClipPlaces, Thens
  <2>2. \E at \in ClipPlaces :
          /\ command' = [command EXCEPT !.early = FALSE, !.attempt = 0, !.file = intent.file,
                                        !.then = Clips!After, !.at = at]
          /\ at = IF intent = Clips!NoIntent THEN Clips!After
                  ELSE IF intent.id \in cache THEN "retire" ELSE "attempt"
    BY <2>1 DEF Clips!Recover, ClipPlaces
  <2>3. PICK at \in ClipPlaces :
          /\ command' = [command EXCEPT !.early = FALSE, !.attempt = 0, !.file = intent.file,
                                        !.then = Clips!After, !.at = at]
          /\ at = IF intent = Clips!NoIntent THEN Clips!After
                  ELSE IF intent.id \in cache THEN "retire" ELSE "attempt"
    BY <2>2
  <2>4. command \in Commands /\ intent.file \in Nat /\ Clips!After \in Thens
    BY <2>1 DEF ClipTypes
  <2>5. command' \in Commands
    <3> DEFINE late  == [command EXCEPT !.early = FALSE]
               fresh == [late EXCEPT !.attempt = 0]
               reset == [fresh EXCEPT !.file = intent.file]
    <3>1. late \in Commands
      BY <2>4 DEF Commands
    <3>2. fresh \in Commands
      <4> HIDE DEF late
      <4> QED
        BY <3>1 DEF Commands
    <3>4. reset \in Commands
      <4> HIDE DEF fresh
      <4> QED
        BY <2>4, <3>2 DEF Commands
    <3>3. command' = [reset EXCEPT !.then = Clips!After, !.at = at]
      BY <2>3
    <3> HIDE DEF reset
    <3> QED
      BY <2>4, <3>3, <3>4 DEF Commands
  <2>7. command'.at = at /\ command'.early = FALSE
    BY <2>3, <2>4 DEF Commands
  <2>6. /\ command'.attempt = 0 /\ command'.then = Clips!After /\ command'.clips = command.clips
        /\ command'.own = command.own
    BY <2>3, <2>4 DEF Commands
  <2> QED
    BY <2>3, <2>5, <2>6, <2>7
<1>1. ClipTypes'
  BY <1>0 DEF Clips!Recover, ClipTypes
<1>2. NumbersAreDrawn'
  BY <1>0 DEF Clips!Recover, NumbersAreDrawn
<1>3. ListedAreUsed'
  BY <1>0 DEF Clips!Recover, ListedAreUsed
<1>4. BundleIsIntended'
  BY <1>0 DEF Clips!Recover, BundleIsIntended
<1>5. BundleIsListed'
  BY <1>0 DEF Clips!Recover, BundleIsListed, BundleIsPublished, BundleIsIntended, PlacesHold,
              Clips!Receipts
<1>6. IdsAreOfOneCopy'
  BY <1>0 DEF Clips!Recover, IdsAreOfOneCopy
<1>7. PlacesHold'
  BY <1>0
  DEF Clips!Recover, Clips!After, OwnHolds, OwnBegins, PlacesHold, LaterSteps, Steps,
      Clips!Foreign,
      BundleIsIntended
<1>8. OwnHolds'
  BY <1>0
  DEF Clips!Recover, OwnHolds, OwnBegins, PlacesHold, Before, Begun, Clips!Receipts, Clips!Staged,
      Clips!After, ListedAreUsed
<1>9. Clips!ReportedArePublished'
  BY <1>0 DEF Clips!Recover, Clips!ReportedArePublished
<1>10. Clips!CopiesAreKept'
  BY <1>0 DEF Clips!Recover, Clips!CopiesAreKept
<1>11. Clips!PublishedOnce'
  BY <1>0 DEF Clips!Recover, Clips!PublishedOnce
<1>12. BundleIsPublished'
  BY <1>0 DEF Clips!Recover, BundleIsPublished, BundleIsIntended, PlacesHold, Clips!Receipts
<1>13. OwnBegins'
  BY <1>0
  DEF Clips!Recover, OwnBegins, PlacesHold, Begun, Clips!After, ListedAreUsed
<1> QED
  BY <1>1, <1>2, <1>3, <1>4, <1>5, <1>6, <1>7, <1>8, <1>9, <1>10, <1>11, <1>12, <1>13

\* A command is killed anywhere.
LEMMA KillKeeps ==
  ASSUME ClipInv, Clips!Kill,
         UNCHANGED overlaps
  PROVE  ClipInv'
<1> USE OffIs, ClipFields, NoneIs, IntentIs DEF ClipInv
<1>0. command' = Clips!Off
  BY DEF Clips!Kill
<1>1. ClipTypes'
  BY <1>0 DEF Clips!Kill, ClipTypes
<1>2. NumbersAreDrawn'
  BY <1>0 DEF Clips!Kill, NumbersAreDrawn, ClipTypes
<1>3. ListedAreUsed'
  BY <1>0 DEF Clips!Kill, ListedAreUsed
<1>4. BundleIsIntended'
  BY <1>0 DEF Clips!Kill, BundleIsIntended
<1>5. BundleIsListed'
  BY <1>0 DEF Clips!Kill, BundleIsListed, BundleIsPublished, BundleIsIntended, PlacesHold,
              Clips!Receipts
<1>6. IdsAreOfOneCopy'
  BY <1>0 DEF Clips!Kill, IdsAreOfOneCopy
<1>7. PlacesHold'
  BY <1>0 DEF Clips!Kill, PlacesHold, LaterSteps, Steps, Clips!Foreign, BundleIsIntended
<1>8. OwnHolds'
  BY <1>0 DEF Clips!Kill, OwnHolds, OwnBegins
<1>9. Clips!ReportedArePublished'
  BY <1>0 DEF Clips!Kill, Clips!ReportedArePublished
<1>10. Clips!CopiesAreKept'
  BY <1>0 DEF Clips!Kill, Clips!CopiesAreKept
<1>11. Clips!PublishedOnce'
  BY <1>0 DEF Clips!Kill, Clips!PublishedOnce
<1>12. BundleIsPublished'
  BY <1>0 DEF Clips!Kill, BundleIsPublished, BundleIsIntended, PlacesHold, Clips!Receipts
<1>13. OwnBegins'
  BY <1>0 DEF Clips!Kill, OwnBegins, Begun
<1> QED
  BY <1>1, <1>2, <1>3, <1>4, <1>5, <1>6, <1>7, <1>8, <1>9, <1>10, <1>11, <1>12, <1>13

\* syncNotes
LEMMA PullKeeps ==
  ASSUME ClipInv, Clips!Pull,
         UNCHANGED overlaps
  PROVE  ClipInv'
<1> USE OffIs, ClipFields, NoneIs, IntentIs DEF ClipInv
<1>0. \/ Goes(IF command.at = "pull" THEN "recover" ELSE "attempt")
      \/ command' = Clips!Off
  BY ToGoes DEF Clips!Pull, ClipPlaces
<1>1. ClipTypes'
  BY <1>0 DEF Clips!Pull, Goes, ClipTypes
<1>2. NumbersAreDrawn'
  BY <1>0 DEF Clips!Pull, Goes, NumbersAreDrawn, ClipTypes
<1>3. ListedAreUsed'
  BY <1>0 DEF Clips!Pull, Goes, ListedAreUsed
<1>4. BundleIsIntended'
  BY <1>0 DEF Clips!Pull, Goes, BundleIsIntended
<1>5. BundleIsListed'
  BY <1>0 DEF Clips!Pull, Goes, BundleIsListed, BundleIsPublished, BundleIsIntended, PlacesHold,
              Clips!Receipts
<1>6. IdsAreOfOneCopy'
  BY <1>0 DEF Clips!Pull, Goes, IdsAreOfOneCopy
<1>7. PlacesHold'
  BY <1>0 DEF Clips!Pull, Goes, PlacesHold, LaterSteps, Steps, Clips!Foreign, BundleIsIntended
<1>8. OwnHolds'
  BY <1>0
  DEF Clips!Pull, Goes, OwnHolds, OwnBegins, PlacesHold, Before, Begun, Clips!Receipts,
      Clips!Staged,
      Clips!After, ListedAreUsed
<1>9. Clips!ReportedArePublished'
  BY <1>0 DEF Clips!Pull, Goes, Clips!ReportedArePublished
<1>10. Clips!CopiesAreKept'
  BY <1>0 DEF Clips!Pull, Goes, Clips!CopiesAreKept
<1>11. Clips!PublishedOnce'
  BY <1>0 DEF Clips!Pull, Goes, Clips!PublishedOnce
<1>12. BundleIsPublished'
  BY <1>0 DEF Clips!Pull, Goes, BundleIsPublished, BundleIsIntended, PlacesHold, Clips!Receipts
<1>13. OwnBegins'
  BY <1>0
  DEF Clips!Pull, Goes, OwnBegins, PlacesHold, Begun, Clips!After, ListedAreUsed
<1> QED
  BY <1>1, <1>2, <1>3, <1>4, <1>5, <1>6, <1>7, <1>8, <1>9, <1>10, <1>11, <1>12, <1>13

\* runCli sweeps the copies no intent names.
LEMMA StartKeeps ==
  ASSUME ClipInv, NEW clips \in BOOLEAN, Clips!Start(clips),
         UNCHANGED overlaps
  PROVE  ClipInv'
<1> USE OffIs, ClipFields, NoneIs, IntentIs DEF ClipInv
<1>0. /\ command' \in Commands /\ command'.at = "committed" /\ command'.own = 0
      /\ command'.then = "off" /\ ~command'.early /\ files' = files \cap {intent.file}
  BY DEF Clips!Start, Commands, Clips!Off, ClipPlaces, Thens
<1>1. ClipTypes'
  BY <1>0 DEF Clips!Start, ClipTypes
<1>2. NumbersAreDrawn'
  BY <1>0 DEF Clips!Start, NumbersAreDrawn, ClipTypes
<1>3. ListedAreUsed'
  BY <1>0 DEF Clips!Start, ListedAreUsed
<1>4. BundleIsIntended'
  BY <1>0 DEF Clips!Start, BundleIsIntended
<1>5. BundleIsListed'
  BY <1>0 DEF Clips!Start, BundleIsListed, BundleIsPublished, BundleIsIntended, PlacesHold,
              Clips!Receipts
<1>6. IdsAreOfOneCopy'
  BY <1>0 DEF Clips!Start, IdsAreOfOneCopy
<1>7. PlacesHold'
  BY <1>0 DEF Clips!Start, PlacesHold, LaterSteps, Steps, Clips!Foreign, BundleIsIntended
<1>8. OwnHolds'
  BY <1>0 DEF Clips!Start, OwnHolds, OwnBegins
<1>9. Clips!ReportedArePublished'
  BY <1>0 DEF Clips!Start, Clips!ReportedArePublished
<1>10. Clips!CopiesAreKept'
  BY <1>0 DEF Clips!Start, Clips!CopiesAreKept
<1>11. Clips!PublishedOnce'
  BY <1>0 DEF Clips!Start, Clips!PublishedOnce
<1>12. BundleIsPublished'
  BY <1>0 DEF Clips!Start, BundleIsPublished, BundleIsIntended, PlacesHold, Clips!Receipts
<1>13. OwnBegins'
  BY <1>0 DEF Clips!Start, OwnBegins, Begun
<1> QED
  BY <1>1, <1>2, <1>3, <1>4, <1>5, <1>6, <1>7, <1>8, <1>9, <1>10, <1>11, <1>12, <1>13

\* The answered bundle goes.
LEMMA CompleteClipKeeps ==
  ASSUME ClipInv, Clips!Complete,
         UNCHANGED overlaps
  PROVE  ClipInv'
<1> USE ClipFields, NoneIs, IntentIs DEF ClipInv
<1>0. Goes("unstage")
  BY ToGoes DEF Clips!Complete, ClipPlaces
<1>1. ClipTypes'
  BY <1>0 DEF Clips!Complete, Goes, ClipTypes
<1>2. NumbersAreDrawn'
  BY <1>0 DEF Clips!Complete, Goes, NumbersAreDrawn, ClipTypes
<1>3. ListedAreUsed'
  BY <1>0 DEF Clips!Complete, Goes, ListedAreUsed
<1>4. BundleIsIntended'
  BY <1>0 DEF Clips!Complete, Goes, BundleIsIntended
<1>5. BundleIsListed'
  BY <1>0 DEF Clips!Complete, Goes, BundleIsListed, BundleIsPublished
<1>6. IdsAreOfOneCopy'
  BY <1>0 DEF Clips!Complete, Goes, IdsAreOfOneCopy
<1>7. PlacesHold'
  BY <1>0 DEF Clips!Complete, Goes, PlacesHold, LaterSteps, Steps, Clips!Foreign, BundleIsIntended
<1>8. OwnHolds'
  BY <1>0
  DEF Clips!Complete, Goes, OwnHolds, OwnBegins, PlacesHold, Before, Begun, Clips!Receipts,
      Clips!Staged,
      Clips!After, ListedAreUsed
<1>9. Clips!ReportedArePublished'
  BY <1>0 DEF Clips!Complete, Goes, Clips!ReportedArePublished
<1>10. Clips!CopiesAreKept'
  BY <1>0 DEF Clips!Complete, Goes, Clips!CopiesAreKept
<1>11. Clips!PublishedOnce'
  BY <1>0 DEF Clips!Complete, Goes, Clips!PublishedOnce
<1>12. BundleIsPublished'
  BY <1>0 DEF Clips!Complete, Goes, BundleIsPublished
<1>13. OwnBegins'
  BY <1>0
  DEF Clips!Complete, Goes, OwnBegins, PlacesHold, Begun, Clips!After, ListedAreUsed
<1> QED
  BY <1>1, <1>2, <1>3, <1>4, <1>5, <1>6, <1>7, <1>8, <1>9, <1>10, <1>11, <1>12, <1>13

\* removeCompletedClipStage
LEMMA UnstageKeeps ==
  ASSUME ClipInv, Clips!Unstage,
         UNCHANGED overlaps
  PROVE  ClipInv'
<1> USE ClipFields, NoneIs, IntentIs DEF ClipInv
<1>0. Goes(command.then)
  BY ToGoes DEF Clips!Unstage, ClipPlaces, Thens
<1>1. ClipTypes'
  BY <1>0 DEF Clips!Unstage, Goes, ClipTypes
<1>2. NumbersAreDrawn'
  BY <1>0 DEF Clips!Unstage, Goes, NumbersAreDrawn
<1>3. ListedAreUsed'
  BY <1>0 DEF Clips!Unstage, Goes, ListedAreUsed
<1>4. BundleIsIntended'
  BY <1>0 DEF Clips!Unstage, Goes, BundleIsIntended
<1>5. BundleIsListed'
  BY <1>0
  DEF Clips!Unstage, Goes, Thens, BundleIsListed, BundleIsPublished, BundleIsIntended,
      PlacesHold, Clips!Receipts
<1>6. IdsAreOfOneCopy'
  BY <1>0 DEF Clips!Unstage, Goes, IdsAreOfOneCopy
<1>7. PlacesHold'
  BY <1>0
  DEF Clips!Unstage, Goes, Thens, PlacesHold, LaterSteps, Steps, Clips!Foreign, BundleIsIntended
<1>8. OwnHolds'
  BY <1>0
  DEF Clips!Unstage, Goes, Thens, OwnHolds, OwnBegins, PlacesHold, Before, Begun, Clips!Receipts,
      Clips!Staged, Clips!After, ListedAreUsed
<1>9. Clips!ReportedArePublished'
  BY <1>0 DEF Clips!Unstage, Goes, Clips!ReportedArePublished
<1>10. Clips!CopiesAreKept'
  BY <1>0 DEF Clips!Unstage, Goes, Thens, Clips!CopiesAreKept, PlacesHold, IdsAreOfOneCopy
<1>11. Clips!PublishedOnce'
  BY <1>0 DEF Clips!Unstage, Goes, Clips!PublishedOnce
<1>12. BundleIsPublished'
  BY <1>0
  DEF Clips!Unstage, Goes, Thens, BundleIsPublished, BundleIsIntended, PlacesHold, Clips!Receipts
<1>13. OwnBegins'
  BY <1>0
  DEF Clips!Unstage, Goes, Thens, OwnBegins, PlacesHold, Begun, Clips!After, ListedAreUsed
<1> QED
  BY <1>1, <1>2, <1>3, <1>4, <1>5, <1>6, <1>7, <1>8, <1>9, <1>10, <1>11, <1>12, <1>13

\* recoverCommittedClipHandles
LEMMA RecoverCommittedKeeps ==
  ASSUME ClipInv, Clips!RecoverCommitted,
         UNCHANGED overlaps
  PROVE  ClipInv'
<1> USE OffIs, ClipFields, NoneIs, IntentIs DEF ClipInv
<1>0. \/ Goes("pending") /\ ~root.done /\ UNCHANGED <<intent, cache>>
      \/ /\ root.done /\ intent.id = root.id /\ intent' = Clips!NoIntent
         /\ cache' = cache \cup {intent.id}
         /\ command' \in Commands /\ command'.at = "complete" /\ command'.then = "pending"
         /\ command'.own = command.own /\ command'.early = command.early
      \/ command' = Clips!Off /\ UNCHANGED <<intent, cache>>
      \/ /\ root.done /\ intent = Clips!NoIntent /\ UNCHANGED <<intent, cache>>
         /\ command' \in Commands /\ command'.at = "complete" /\ command'.then = "pending"
         /\ command'.own = command.own /\ command'.early = command.early
  <2>1. CASE ~root.done
    BY <2>1, ToGoes DEF Clips!RecoverCommitted, ClipPlaces
  <2>2. CASE root.done /\ intent.id = root.id
    <3>1. Clips!Settle /\ command' = [command EXCEPT !.at = "complete", !.file = intent.file,
                                               !.then = "pending"]
      <4>1. intent # Clips!NoIntent
        BY <2>2 DEF BundleIsIntended, BundleIsListed, BundleIsPublished
      <4> QED
        BY <2>2, <4>1 DEF Clips!RecoverCommitted
    <3> QED
      BY <2>2, <3>1 DEF Clips!Settle, ClipTypes, Commands, ClipPlaces, Thens
  <2>3. CASE root.done /\ intent # Clips!NoIntent /\ intent.id # root.id
    BY <2>3 DEF Clips!RecoverCommitted
  <2>4. CASE root.done /\ intent = Clips!NoIntent /\ intent.id # root.id
    <3>1. UNCHANGED <<intent, cache>>
      BY <2>4 DEF Clips!RecoverCommitted
    <3>2. \/ command' = Clips!Off
          \/ command' = [command EXCEPT !.at = "complete", !.file = root.id, !.then = "pending"]
      BY <2>4 DEF Clips!RecoverCommitted
    <3> QED
      BY <2>4, <3>1, <3>2, ZenonT(40) DEF ClipTypes, Commands, ClipPlaces, Thens
  <2> QED
    BY <2>1, <2>2, <2>3, <2>4
<1>1. ClipTypes'
  BY <1>0 DEF Clips!RecoverCommitted, Goes, ClipTypes
<1>2. NumbersAreDrawn'
  BY <1>0 DEF Clips!RecoverCommitted, Goes, NumbersAreDrawn, ClipTypes
<1>3. ListedAreUsed'
  BY <1>0 DEF Clips!RecoverCommitted, Goes, ListedAreUsed, BundleIsListed, BundleIsPublished
<1>4. BundleIsIntended'
  BY <1>0 DEF Clips!RecoverCommitted, Goes, BundleIsIntended
<1>5. BundleIsListed'
  BY <1>0
  DEF Clips!RecoverCommitted, Goes, BundleIsListed, BundleIsPublished, BundleIsIntended,
      PlacesHold, Clips!Receipts
<1>6. IdsAreOfOneCopy'
  BY <1>0 DEF Clips!RecoverCommitted, Goes, IdsAreOfOneCopy
<1>7. PlacesHold'
  BY <1>0
  DEF Clips!RecoverCommitted, Goes, PlacesHold, LaterSteps, Steps, Clips!Foreign, BundleIsIntended
<1>8. OwnHolds'
  BY <1>0 DEF Clips!RecoverCommitted, Goes, OwnHolds, OwnBegins
<1>9. Clips!ReportedArePublished'
  BY <1>0 DEF Clips!RecoverCommitted, Goes, Clips!ReportedArePublished
<1>10. Clips!CopiesAreKept'
  BY <1>0 DEF Clips!RecoverCommitted, Goes, Clips!CopiesAreKept
<1>11. Clips!PublishedOnce'
  BY <1>0 DEF Clips!RecoverCommitted, Goes, Clips!PublishedOnce
<1>12. BundleIsPublished'
  BY <1>0
  DEF Clips!RecoverCommitted, Goes, BundleIsPublished, BundleIsIntended, PlacesHold,
      Clips!Receipts
<1>13. OwnBegins'
  BY <1>0 DEF Clips!RecoverCommitted, Goes, OwnBegins, Begun
<1> QED
  BY <1>1, <1>2, <1>3, <1>4, <1>5, <1>6, <1>7, <1>8, <1>9, <1>10, <1>11, <1>12, <1>13

\* A clip the pull brought.
LEMMA RetireKeeps ==
  ASSUME ClipInv, Clips!Retire,
         UNCHANGED overlaps
  PROVE  ClipInv'
<1> USE ClipFields, NoneIs, IntentIs DEF ClipInv
<1>0. Goes("forget")
  BY ToGoes DEF Clips!Retire, ClipPlaces
<1>1. ClipTypes'
  BY <1>0 DEF Clips!Retire, Goes, ClipTypes
<1>2. NumbersAreDrawn'
  BY <1>0 DEF Clips!Retire, Goes, NumbersAreDrawn, ClipTypes
<1>3. ListedAreUsed'
  BY <1>0 DEF Clips!Retire, Goes, ListedAreUsed
<1>4. BundleIsIntended'
  BY <1>0 DEF Clips!Retire, Goes, BundleIsIntended
<1>5. BundleIsListed'
  BY <1>0 DEF Clips!Retire, Goes, BundleIsListed, BundleIsPublished, BundleIsIntended,
              PlacesHold, Clips!Receipts
<1>6. IdsAreOfOneCopy'
  BY <1>0 DEF Clips!Retire, Goes, IdsAreOfOneCopy
<1>7. PlacesHold'
  BY <1>0 DEF Clips!Retire, Goes, PlacesHold, LaterSteps, Steps, Clips!Foreign, BundleIsIntended
<1>8. OwnHolds'
  BY <1>0 DEF Clips!Retire, Goes, OwnHolds, OwnBegins
<1>9. Clips!ReportedArePublished'
  BY <1>0 DEF Clips!Retire, Goes, Clips!ReportedArePublished
<1>10. Clips!CopiesAreKept'
  BY <1>0 DEF Clips!Retire, Goes, Clips!CopiesAreKept
<1>11. Clips!PublishedOnce'
  BY <1>0 DEF Clips!Retire, Goes, Clips!PublishedOnce
<1>12. BundleIsPublished'
  BY <1>0 DEF Clips!Retire, Goes, BundleIsPublished, BundleIsIntended, PlacesHold, Clips!Receipts
<1>13. OwnBegins'
  BY <1>0 DEF Clips!Retire, Goes, OwnBegins, Begun
<1> QED
  BY <1>1, <1>2, <1>3, <1>4, <1>5, <1>6, <1>7, <1>8, <1>9, <1>10, <1>11, <1>12, <1>13

\* Its intent goes.
LEMMA ForgetKeeps ==
  ASSUME ClipInv, Clips!Forget,
         UNCHANGED overlaps
  PROVE  ClipInv'
<1> USE ClipFields, NoneIs, IntentIs DEF ClipInv
<1>0. Goes("unstage")
  BY ToGoes DEF Clips!Forget, ClipPlaces
<1>1. ClipTypes'
  BY <1>0 DEF Clips!Forget, Goes, ClipTypes
<1>2. NumbersAreDrawn'
  BY <1>0 DEF Clips!Forget, Goes, NumbersAreDrawn
<1>3. ListedAreUsed'
  BY <1>0 DEF Clips!Forget, Goes, ListedAreUsed
<1>4. BundleIsIntended'
  BY <1>0 DEF Clips!Forget, Goes, BundleIsIntended, PlacesHold, Clips!Foreign
<1>5. BundleIsListed'
  BY <1>0 DEF Clips!Forget, Goes, BundleIsListed, BundleIsPublished, BundleIsIntended,
              PlacesHold, Clips!Receipts
<1>6. IdsAreOfOneCopy'
  BY <1>0 DEF Clips!Forget, Goes, IdsAreOfOneCopy
<1>7. PlacesHold'
  BY <1>0 DEF Clips!Forget, Goes, PlacesHold, LaterSteps, Steps, Clips!Foreign, BundleIsIntended
<1>8. OwnHolds'
  BY <1>0 DEF Clips!Forget, Goes, OwnHolds, OwnBegins
<1>9. Clips!ReportedArePublished'
  BY <1>0 DEF Clips!Forget, Goes, Clips!ReportedArePublished
<1>10. Clips!CopiesAreKept'
  BY <1>0 DEF Clips!Forget, Goes, Clips!CopiesAreKept
<1>11. Clips!PublishedOnce'
  BY <1>0 DEF Clips!Forget, Goes, Clips!PublishedOnce
<1>12. BundleIsPublished'
  BY <1>0 DEF Clips!Forget, Goes, BundleIsPublished, BundleIsIntended, PlacesHold, Clips!Receipts
<1>13. OwnBegins'
  BY <1>0 DEF Clips!Forget, Goes, OwnBegins, Begun
<1> QED
  BY <1>1, <1>2, <1>3, <1>4, <1>5, <1>6, <1>7, <1>8, <1>9, <1>10, <1>11, <1>12, <1>13

\* One of three attempts.
LEMMA AttemptKeeps ==
  ASSUME ClipInv, Clips!Attempt,
         UNCHANGED overlaps
  PROVE  ClipInv'
<1> USE OffIs, ClipFields, NoneIs, IntentIs DEF ClipInv
<1>0. \/ command' = Clips!Off /\ UNCHANGED <<root, mutations>>
      \/ Goes("forget") /\ intent.id \in cache /\ UNCHANGED <<root, mutations>>
      \/ Goes("stage") /\ command.attempt < 3 /\ root # Clips!NoRoot /\ UNCHANGED <<root,
           mutations>>
      \/ /\ Goes("stage") /\ command.attempt < 3 /\ root = Clips!NoRoot
         /\ mutations' = mutations + 1
         /\ root' \in Bundles /\ root' # Clips!NoRoot /\ root'.mutation = mutations + 1
         /\ root'.id = intent.id /\ root'.id > 0 /\ root'.login = login
         /\ ~root'.sealed /\ ~root'.staged /\ ~root'.final /\ ~root'.done
      \/ /\ Goes("cancel") /\ command.attempt < 3 /\ root = Clips!NoRoot
         /\ intent.file \notin files
         /\ UNCHANGED <<root, mutations>>
  <2>1. intent.id > 0
    BY DEF Clips!Attempt, PlacesHold, LaterSteps, Steps
  <2>2. CASE Clips!NewBundle
    <3>1. mutations + 1 > 0
      BY DEF ClipTypes
    <3>2. root' = [mutation |-> mutations + 1, id |-> intent.id, login |-> login, base |-> base,
                   sealed |-> FALSE, staged |-> FALSE, final |-> FALSE, done |-> FALSE]
      BY <2>2 DEF Clips!NewBundle, Clips!NoRoot
    <3>3. root' \in Bundles /\ root'.id # Clips!NoRoot.id
      BY <2>1, <3>1, <3>2 DEF Bundles, ClipTypes
    <3>4. command.attempt < 3 /\ root = Clips!NoRoot /\ Goes("stage")
      BY <2>2, ToGoes DEF Clips!Attempt, Clips!NewBundle, ClipPlaces, ClipTypes
    <3> QED
      BY <2>1, <2>2, <3>2, <3>3, <3>4 DEF Clips!NewBundle
  <2>3. CASE ~Clips!NewBundle
    BY <2>3, ToGoes DEF Clips!Attempt, ClipPlaces
  <2> QED
    BY <2>2, <2>3
<1>1. ClipTypes'
  BY <1>0 DEF Clips!Attempt, Goes, ClipTypes
<1>2. NumbersAreDrawn'
  <2>1. mutations' \in Nat /\ mutations' >= mutations /\ drawn \in Nat
    BY <1>0 DEF Clips!Attempt, Clips!NewBundle, ClipTypes
  <2>2. command'.own \in {0, command.own} /\ root'.mutation <= mutations'
    BY <1>0 DEF Goes, NumbersAreDrawn, ClipTypes
  <2> QED
    BY <2>1, <2>2, StillDrawn DEF Clips!Attempt, NumbersAreDrawn
<1>3. ListedAreUsed'
  BY <1>0 DEF Clips!Attempt, Goes, ListedAreUsed
<1>4. BundleIsIntended'
  BY <1>0 DEF Clips!Attempt, Goes, BundleIsIntended
<1>5. BundleIsListed'
  BY <1>0
  DEF Clips!Attempt, Goes, NumbersAreDrawn, ClipTypes, BundleIsListed, BundleIsPublished,
      BundleIsIntended,
      PlacesHold, Clips!Receipts
<1>6. IdsAreOfOneCopy'
  BY <1>0 DEF Clips!Attempt, Goes, IdsAreOfOneCopy
<1>7. PlacesHold'
  BY <1>0
  DEF Clips!Attempt, Goes, PlacesHold, LaterSteps, Steps, Clips!Foreign, BundleIsIntended,
      OwnHolds, OwnBegins
<1>8. OwnHolds'
  BY <1>0
  DEF Clips!Attempt, Goes, OwnHolds, OwnBegins, NumbersAreDrawn, ClipTypes, PlacesHold, Before,
      Begun,
      Clips!Receipts, Clips!Staged, Clips!After, ListedAreUsed
<1>9. Clips!ReportedArePublished'
  BY <1>0 DEF Clips!Attempt, Goes, Clips!ReportedArePublished
<1>10. Clips!CopiesAreKept'
  BY <1>0 DEF Clips!Attempt, Goes, Clips!CopiesAreKept
<1>11. Clips!PublishedOnce'
  BY <1>0 DEF Clips!Attempt, Goes, Clips!PublishedOnce
<1>12. BundleIsPublished'
  BY <1>0
  DEF Clips!Attempt, Goes, NumbersAreDrawn, ClipTypes, BundleIsPublished, BundleIsIntended,
      PlacesHold, Clips!Receipts
<1>13. OwnBegins'
  BY <1>0
  DEF Clips!Attempt, Goes, OwnBegins, NumbersAreDrawn, ClipTypes, PlacesHold, Begun,
      Clips!After, ListedAreUsed
<1> QED
  BY <1>1, <1>2, <1>3, <1>4, <1>5, <1>6, <1>7, <1>8, <1>9, <1>10, <1>11, <1>12, <1>13

\* The intent is settled with the cached note.
LEMMA SettleClipKeeps ==
  ASSUME ClipInv, Clips!SettleClip,
         UNCHANGED overlaps
  PROVE  ClipInv'
<1> USE OffIs, ClipFields, NoneIs, IntentIs DEF ClipInv
<1>0. \/ /\ intent.id = root.id /\ intent' = Clips!NoIntent /\ cache' = cache \cup {intent.id}
         /\ command' \in Commands /\ command'.at = "complete" /\ command'.early = command.early
         /\ command'.own = command.own /\ command'.clips = command.clips
         /\ command'.then = IF command.early THEN "pull" ELSE Clips!After
      \/ command' = Clips!Off /\ UNCHANGED <<intent, cache>>
  BY ZenonT(40) DEF Clips!SettleClip, Clips!Settle, Clips!After, ClipTypes, Commands, ClipPlaces,
      Thens
<1>1. ClipTypes'
  BY <1>0 DEF Clips!SettleClip, ClipTypes
<1>2. NumbersAreDrawn'
  BY <1>0 DEF Clips!SettleClip, NumbersAreDrawn, ClipTypes
<1>3. ListedAreUsed'
  BY <1>0 DEF Clips!SettleClip, ListedAreUsed, BundleIsListed, BundleIsPublished, PlacesHold
<1>4. BundleIsIntended'
  BY <1>0 DEF Clips!SettleClip, BundleIsIntended, PlacesHold, Clips!Foreign
<1>5. BundleIsListed'
  BY <1>0 DEF Clips!SettleClip, BundleIsListed, BundleIsPublished, BundleIsIntended, PlacesHold,
              Clips!Receipts
<1>6. IdsAreOfOneCopy'
  BY <1>0 DEF Clips!SettleClip, IdsAreOfOneCopy
<1>7. PlacesHold'
  BY <1>0
  DEF Clips!SettleClip, Clips!After, PlacesHold, LaterSteps, Steps, Clips!Foreign,
      BundleIsIntended
<1>8. OwnHolds'
  BY <1>0
  DEF Clips!SettleClip, OwnHolds, OwnBegins, PlacesHold, Before, Begun, Clips!Receipts,
      Clips!Staged,
      Clips!After, ListedAreUsed, OwnHolds, OwnBegins, BundleIsListed, BundleIsPublished,
      ClipTypes
<1>9. Clips!ReportedArePublished'
  BY <1>0 DEF Clips!SettleClip, Clips!ReportedArePublished
<1>10. Clips!CopiesAreKept'
  BY <1>0 DEF Clips!SettleClip, Clips!CopiesAreKept
<1>11. Clips!PublishedOnce'
  BY <1>0 DEF Clips!SettleClip, Clips!PublishedOnce
<1>12. BundleIsPublished'
  BY <1>0 DEF Clips!SettleClip, BundleIsPublished, BundleIsIntended, PlacesHold, Clips!Receipts
<1>13. OwnBegins'
  BY <1>0
  DEF Clips!SettleClip, OwnBegins, PlacesHold, Begun, Clips!After, ListedAreUsed, OwnBegins,
      ClipTypes
<1> QED
  BY <1>1, <1>2, <1>3, <1>4, <1>5, <1>6, <1>7, <1>8, <1>9, <1>10, <1>11, <1>12, <1>13

\* Another credential's bundle is abandoned.
LEMMA AbandonKeeps ==
  ASSUME ClipInv, Clips!Abandon,
         UNCHANGED overlaps
  PROVE  ClipInv'
<1> USE ClipFields, NoneIs, IntentIs DEF ClipInv
<1>0. Goes("reidentify")
  BY ToGoes DEF Clips!Abandon, ClipPlaces
<1>1. ClipTypes'
  BY <1>0 DEF Clips!Abandon, Goes, ClipTypes
<1>2. NumbersAreDrawn'
  BY <1>0 DEF Clips!Abandon, Goes, NumbersAreDrawn, ClipTypes
<1>3. ListedAreUsed'
  BY <1>0 DEF Clips!Abandon, Goes, ListedAreUsed
<1>4. BundleIsIntended'
  BY <1>0 DEF Clips!Abandon, Goes, BundleIsIntended
<1>5. BundleIsListed'
  BY <1>0 DEF Clips!Abandon, Goes, BundleIsListed, BundleIsPublished, BundleIsIntended,
              PlacesHold, Clips!Receipts
<1>6. IdsAreOfOneCopy'
  BY <1>0 DEF Clips!Abandon, Goes, IdsAreOfOneCopy
<1>7. PlacesHold'
  BY <1>0 DEF Clips!Abandon, Goes, PlacesHold, LaterSteps, Steps, Clips!Foreign, BundleIsIntended
<1>8. OwnHolds'
  BY <1>0
  DEF Clips!Abandon, Goes, OwnHolds, OwnBegins, PlacesHold, Before, Begun, Clips!Receipts,
      Clips!Staged,
      Clips!After, ListedAreUsed
<1>9. Clips!ReportedArePublished'
  BY <1>0 DEF Clips!Abandon, Goes, Clips!ReportedArePublished
<1>10. Clips!CopiesAreKept'
  BY <1>0 DEF Clips!Abandon, Goes, Clips!CopiesAreKept
<1>11. Clips!PublishedOnce'
  BY <1>0 DEF Clips!Abandon, Goes, Clips!PublishedOnce
<1>12. BundleIsPublished'
  BY <1>0 DEF Clips!Abandon, Goes, BundleIsPublished, BundleIsIntended, PlacesHold, Clips!Receipts
<1>13. OwnBegins'
  BY <1>0
  DEF Clips!Abandon, Goes, OwnBegins, PlacesHold, Begun, Clips!After, ListedAreUsed
<1> QED
  BY <1>1, <1>2, <1>3, <1>4, <1>5, <1>6, <1>7, <1>8, <1>9, <1>10, <1>11, <1>12, <1>13

\* The copy gets a new ID.
LEMMA ReidentifyKeeps ==
  ASSUME ClipInv, Clips!Reidentify,
         UNCHANGED overlaps
  PROVE  ClipInv'
<1> USE ClipFields, NoneIs, IntentIs DEF ClipInv
<1>0. Goes("attempt") /\ intent' \in [id : Nat, file : Nat] /\ intent'.id = drawn + 1
      /\ intent'.file = intent.file /\ intent.file \in 1..drawn
      /\ drawn' = drawn + 1 /\ drawn \in Nat
      /\ intent # Clips!NoIntent /\ intent' # Clips!NoIntent
      /\ copies' = copies \cup {<<intent'.file, intent'.id>>}
  BY ToGoes
  DEF Clips!Reidentify, ClipPlaces, ClipTypes, NumbersAreDrawn, PlacesHold, LaterSteps, Steps
<1>1. ClipTypes'
  BY <1>0 DEF Clips!Reidentify, Goes, ClipTypes
<1>2. NumbersAreDrawn'
  <2>1. drawn' \in Nat /\ drawn' >= drawn /\ mutations \in Nat
    BY <1>0 DEF ClipTypes
  <2>2. intent'.id \in 1..drawn' /\ intent'.file \in 1..drawn'
    BY <1>0
  <2> QED
    BY <1>0, <2>1, <2>2, StillDrawn DEF Clips!Reidentify, Goes, NumbersAreDrawn
<1>3. ListedAreUsed'
  BY <1>0 DEF Clips!Reidentify, Goes, ListedAreUsed
<1>4. BundleIsIntended'
  BY <1>0 DEF Clips!Reidentify, Goes, BundleIsIntended, PlacesHold, Clips!Foreign
<1>5. BundleIsListed'
  BY <1>0 DEF Clips!Reidentify, Goes, BundleIsListed, BundleIsPublished, BundleIsIntended,
              PlacesHold, Clips!Receipts
<1>6. IdsAreOfOneCopy'
  <2>1. \A c \in copies : c[2] <= drawn /\ c[2] \in Nat
    BY DEF NumbersAreDrawn, ClipTypes
  <2>2. \A c \in copies : c[2] # drawn + 1
    BY <2>1 DEF ClipTypes
  <2>3. \A c \in copies : c[1] = intent.file => c[2] \notin relay.listed
    BY DEF IdsAreOfOneCopy, PlacesHold, LaterSteps, Steps, Clips!Reidentify
  <2> QED
    BY <1>0, <2>2, <2>3 DEF Clips!Reidentify, IdsAreOfOneCopy
<1>7. PlacesHold'
  BY <1>0
  DEF Clips!Reidentify, Goes, PlacesHold, LaterSteps, Steps, Clips!Foreign, BundleIsIntended,
      ListedAreUsed, NumbersAreDrawn, ClipTypes
<1>8. OwnHolds'
  BY <1>0
  DEF Clips!Reidentify, Goes, OwnHolds, OwnBegins, PlacesHold, Before, Begun, Clips!Receipts,
      Clips!Staged,
      Clips!After, ListedAreUsed
<1>9. Clips!ReportedArePublished'
  BY <1>0 DEF Clips!Reidentify, Goes, Clips!ReportedArePublished
<1>10. Clips!CopiesAreKept'
  BY <1>0 DEF Clips!Reidentify, Goes, Clips!CopiesAreKept
<1>11. Clips!PublishedOnce'
  BY <1>0
  DEF Clips!Reidentify, Goes, Clips!PublishedOnce, IdsAreOfOneCopy, BundleIsIntended, PlacesHold,
      ListedAreUsed, NumbersAreDrawn, ClipTypes
<1>12. BundleIsPublished'
  BY <1>0 DEF Clips!Reidentify, Goes, BundleIsPublished, BundleIsIntended, PlacesHold,
              Clips!Receipts
<1>13. OwnBegins'
  BY <1>0
  DEF Clips!Reidentify, Goes, OwnBegins, PlacesHold, Begun, Clips!After, ListedAreUsed
<1> QED
  BY <1>1, <1>2, <1>3, <1>4, <1>5, <1>6, <1>7, <1>8, <1>9, <1>10, <1>11, <1>12, <1>13

\* The copy is gone.
LEMMA CancelKeeps ==
  ASSUME ClipInv, Clips!Cancel,
         UNCHANGED overlaps
  PROVE  ClipInv'
<1> USE OffIs, ClipFields, NoneIs, IntentIs DEF ClipInv
<1>0. Goes("pull") \/ Goes("discard") \/ command' = Clips!Off
  BY ToGoes DEF Clips!Cancel, ClipPlaces
<1>1. ClipTypes'
  BY <1>0 DEF Clips!Cancel, Goes, ClipTypes
<1>2. NumbersAreDrawn'
  BY <1>0 DEF Clips!Cancel, Goes, NumbersAreDrawn, ClipTypes
<1>3. ListedAreUsed'
  BY <1>0 DEF Clips!Cancel, Goes, ListedAreUsed
<1>4. BundleIsIntended'
  BY <1>0 DEF Clips!Cancel, Goes, BundleIsIntended
<1>5. BundleIsListed'
  BY <1>0 DEF Clips!Cancel, Goes, BundleIsListed, BundleIsPublished, BundleIsIntended,
              PlacesHold, Clips!Receipts
<1>6. IdsAreOfOneCopy'
  BY <1>0 DEF Clips!Cancel, Goes, IdsAreOfOneCopy
<1>7. PlacesHold'
  <2>1. root' = Clips!NoRoot \/ (root' = root /\ command' = Clips!Off)
    BY DEF Clips!Cancel, PlacesHold
  <2>2. ~root.done /\ intent' = intent /\ intent # Clips!NoIntent
    BY DEF Clips!Cancel, PlacesHold
  <2>3. \/ command' = Clips!Off
        \/ /\ command'.at = "pull" \/ (command'.at = "discard" /\ ~command'.early)
           /\ command'.then = command.then /\ command'.early = command.early
           /\ command'.clips = command.clips
    BY ToGoes DEF Clips!Cancel, Goes, ClipPlaces
  <2>4. command.then = "copy" => command.clips /\ ~command.early
    BY DEF PlacesHold
  <2> HIDE DEF ClipInv
  <2> QED
    BY <2>1, <2>2, <2>3, <2>4 DEF PlacesHold, LaterSteps, Steps
<1>8. OwnHolds'
  BY <1>0 DEF Clips!Cancel, Goes, OwnHolds, OwnBegins
<1>9. Clips!ReportedArePublished'
  BY <1>0 DEF Clips!Cancel, Goes, Clips!ReportedArePublished
<1>10. Clips!CopiesAreKept'
  BY <1>0 DEF Clips!Cancel, Goes, Clips!CopiesAreKept
<1>11. Clips!PublishedOnce'
  BY <1>0 DEF Clips!Cancel, Goes, Clips!PublishedOnce
<1>12. BundleIsPublished'
  BY <1>0 DEF Clips!Cancel, Goes, BundleIsPublished, BundleIsIntended, PlacesHold, Clips!Receipts
<1>13. OwnBegins'
  BY <1>0 DEF Clips!Cancel, Goes, OwnBegins, Begun
<1> QED
  BY <1>1, <1>2, <1>3, <1>4, <1>5, <1>6, <1>7, <1>8, <1>9, <1>10, <1>11, <1>12, <1>13

\* The clip is given up.
LEMMA DiscardKeeps ==
  ASSUME ClipInv, Clips!Discard,
         UNCHANGED overlaps
  PROVE  ClipInv'
<1> USE OffIs, ClipFields, NoneIs, IntentIs DEF ClipInv
<1>0. /\ \/ Goes("unstage") /\ intent' = Clips!NoIntent
         \/ command' = command /\ intent' = intent
         \/ command' = Clips!Off /\ intent' = intent
      /\ relay' \in Relays /\ relay'.listed = relay.listed /\ relay'.used = relay.used
      /\ relay'.stages = relay.stages /\ relay'.receipts = relay.receipts
      /\ base' \in Nat /\ cache' \in {cache, relay.listed}
  BY ToGoes DEF Clips!Discard, Clips!Lost, ClipPlaces, ClipTypes, Relays
<1>1. ClipTypes'
  BY <1>0 DEF Clips!Discard, Goes, ClipTypes
<1>2. NumbersAreDrawn'
  BY <1>0 DEF Clips!Discard, Goes, Clips!Lost, NumbersAreDrawn, ClipTypes
<1>3. ListedAreUsed'
  BY <1>0 DEF Clips!Discard, Goes, ListedAreUsed
<1>4. BundleIsIntended'
  BY <1>0 DEF Clips!Discard, Goes, Clips!Lost, BundleIsIntended, PlacesHold, Clips!Foreign
<1>5. BundleIsListed'
  BY <1>0
  DEF Clips!Discard, Goes, Clips!Lost, BundleIsListed, BundleIsPublished, BundleIsIntended,
      PlacesHold,
      Clips!Receipts
<1>6. IdsAreOfOneCopy'
  BY <1>0 DEF Clips!Discard, Goes, IdsAreOfOneCopy
<1>7. PlacesHold'
  BY <1>0
  DEF Clips!Discard, Goes, Clips!Lost, PlacesHold, LaterSteps, Steps, Clips!Foreign,
      BundleIsIntended
<1>8. OwnHolds'
  BY <1>0 DEF Clips!Discard, Goes, OwnHolds, OwnBegins
<1>9. Clips!ReportedArePublished'
  BY <1>0 DEF Clips!Discard, Goes, Clips!ReportedArePublished
<1>10. Clips!CopiesAreKept'
  BY <1>0 DEF Clips!Discard, Goes, Clips!CopiesAreKept
<1>11. Clips!PublishedOnce'
  BY <1>0 DEF Clips!Discard, Goes, Clips!PublishedOnce
<1>12. BundleIsPublished'
  BY <1>0
  DEF Clips!Discard, Goes, Clips!Lost, BundleIsPublished, BundleIsIntended, PlacesHold,
      Clips!Receipts
<1>13. OwnBegins'
  BY <1>0 DEF Clips!Discard, Goes, OwnBegins, Begun
<1> QED
  BY <1>1, <1>2, <1>3, <1>4, <1>5, <1>6, <1>7, <1>8, <1>9, <1>10, <1>11, <1>12, <1>13

\* stageClipFile
LEMMA CopyKeeps ==
  ASSUME ClipInv, Clips!Copy,
         UNCHANGED overlaps
  PROVE  ClipInv'
<1> USE ClipFields, NoneIs, IntentIs DEF ClipInv
<1>0. /\ command' \in Commands /\ command'.at = "intend" /\ command'.own = drawn + 1
      /\ command'.clips = command.clips /\ command'.early = command.early
      /\ command'.then = command.then
  <2>1. drawn' \in Nat
    BY DEF Clips!Copy, ClipTypes
  <2> QED
    BY <2>1 DEF Clips!Copy, ClipTypes, Commands, ClipPlaces
<1>1. ClipTypes'
  BY <1>0 DEF Clips!Copy, ClipTypes
<1>2. NumbersAreDrawn'
  <2>1. drawn' \in Nat /\ drawn' >= drawn /\ mutations \in Nat /\ command'.own <= drawn'
    BY <1>0 DEF Clips!Copy, ClipTypes
  <2> QED
    BY <2>1, StillDrawn DEF Clips!Copy, NumbersAreDrawn
<1>3. ListedAreUsed'
  BY <1>0 DEF Clips!Copy, ListedAreUsed
<1>4. BundleIsIntended'
  BY <1>0 DEF Clips!Copy, BundleIsIntended
<1>5. BundleIsListed'
  BY <1>0 DEF Clips!Copy, BundleIsListed, BundleIsPublished, BundleIsIntended, PlacesHold,
              Clips!Receipts
<1>6. IdsAreOfOneCopy'
  BY <1>0 DEF Clips!Copy, IdsAreOfOneCopy
<1>7. PlacesHold'
  BY <1>0 DEF Clips!Copy, PlacesHold, LaterSteps, Steps, Clips!Foreign, BundleIsIntended
<1>8. /\ own' # 0 /\ own' \in files' /\ own' \notin relay.used
      /\ \A s \in relay.stages : s.id # own'
      /\ \A c \in copies : c[1] # own' /\ c[2] # own'
  <2>1. \A c \in copies : c[1] \in Nat /\ c[2] \in Nat
    BY DEF ClipTypes
  <2>2. \A s \in relay.stages : s.id \in Nat
    BY DEF Stages
  <2>3. /\ drawn + 1 # 0 /\ drawn + 1 \notin relay.used
        /\ \A s \in relay.stages : s.id # drawn + 1
        /\ \A c \in copies : c[1] # drawn + 1 /\ c[2] # drawn + 1
    BY <2>1, <2>2 DEF NumbersAreDrawn, ClipTypes
  <2> QED
    BY <1>0, <2>3 DEF Clips!Copy
<1>9. Clips!ReportedArePublished'
  BY <1>0 DEF Clips!Copy, Clips!ReportedArePublished
<1>10. Clips!CopiesAreKept'
  BY <1>0 DEF Clips!Copy, Clips!CopiesAreKept
<1>11. Clips!PublishedOnce'
  BY <1>0 DEF Clips!Copy, Clips!PublishedOnce
<1>12. BundleIsPublished'
  BY <1>0 DEF Clips!Copy, BundleIsPublished, BundleIsIntended, PlacesHold, Clips!Receipts
<1>13. OwnBegins'
  BY <1>0, <1>8 DEF Clips!Copy, OwnBegins, Begun, PlacesHold
<1>14. OwnHolds'
  BY <1>0, <1>8 DEF Clips!Copy, OwnHolds, Before, Begun
<1> QED
  BY <1>1, <1>2, <1>3, <1>4, <1>5, <1>6, <1>7, <1>9, <1>10, <1>11, <1>12, <1>13, <1>14

\* The intent names the copy.
LEMMA IntendKeeps ==
  ASSUME ClipInv, Clips!Intend,
         UNCHANGED overlaps
  PROVE  ClipInv'
<1> USE ClipFields, NoneIs, IntentIs DEF ClipInv
<1>0. Goes("recover")
  BY ToGoes DEF Clips!Intend, ClipPlaces
<1>1. ClipTypes'
  BY <1>0 DEF Clips!Intend, Goes, ClipTypes
<1>2. NumbersAreDrawn'
  BY <1>0 DEF Clips!Intend, Goes, NumbersAreDrawn
<1>3. ListedAreUsed'
  BY <1>0 DEF Clips!Intend, Goes, ListedAreUsed
<1>4. BundleIsIntended'
  BY <1>0 DEF Clips!Intend, Goes, BundleIsIntended, PlacesHold, Clips!Foreign
<1>5. BundleIsListed'
  BY <1>0 DEF Clips!Intend, Goes, BundleIsListed, BundleIsPublished, BundleIsIntended,
              PlacesHold, Clips!Receipts
<1>6. IdsAreOfOneCopy'
  BY <1>0
  DEF Clips!Intend, Goes, IdsAreOfOneCopy, NumbersAreDrawn, OwnHolds, OwnBegins, ListedAreUsed,
      ClipTypes
<1>7. PlacesHold'
  <2>1. intent'.id = own /\ own \notin relay.listed /\ root = Clips!NoRoot
    BY DEF Clips!Intend, PlacesHold, OwnHolds, OwnBegins, Before, Begun, ListedAreUsed
  <2>2. /\ UNCHANGED <<root, relay>> /\ command'.at = "recover" /\ command'.clips = command.clips
        /\ command'.early = command.early /\ command'.then = command.then
    BY <1>0 DEF Clips!Intend, Goes
  <2>3. command.then = "copy" => command.clips /\ ~command.early
    BY DEF PlacesHold
  <2> HIDE DEF ClipInv
  <2> QED
    BY <2>1, <2>2, <2>3 DEF PlacesHold, LaterSteps, Steps
<1>8. OwnHolds'
  BY <1>0
  DEF Clips!Intend, Goes, OwnHolds, OwnBegins, PlacesHold, Before, Begun, Clips!Receipts,
      Clips!Staged,
      Clips!After, ListedAreUsed
<1>9. Clips!ReportedArePublished'
  BY <1>0 DEF Clips!Intend, Goes, Clips!ReportedArePublished
<1>10. Clips!CopiesAreKept'
  BY <1>0 DEF Clips!Intend, Goes, Clips!CopiesAreKept, PlacesHold, IdsAreOfOneCopy, OwnHolds,
              OwnBegins
<1>11. Clips!PublishedOnce'
  BY <1>0
  DEF Clips!Intend, Goes, Clips!PublishedOnce, IdsAreOfOneCopy, BundleIsIntended, PlacesHold,
      OwnHolds, OwnBegins, ListedAreUsed
<1>12. BundleIsPublished'
  BY <1>0 DEF Clips!Intend, Goes, BundleIsPublished, BundleIsIntended, PlacesHold, Clips!Receipts
<1>13. OwnBegins'
  BY <1>0
  DEF Clips!Intend, Goes, OwnBegins, PlacesHold, Begun, Clips!After, ListedAreUsed
<1> QED
  BY <1>1, <1>2, <1>3, <1>4, <1>5, <1>6, <1>7, <1>8, <1>9, <1>10, <1>11, <1>12, <1>13

\* The clip is reported.
LEMMA ReportKeeps ==
  ASSUME ClipInv, Clips!Report,
         UNCHANGED overlaps
  PROVE  ClipInv'
<1> USE OffIs, ClipFields, NoneIs, IntentIs DEF ClipInv
<1>0. command' = Clips!Off
  BY DEF Clips!Report
<1>1. ClipTypes'
  BY <1>0 DEF Clips!Report, ClipTypes
<1>2. NumbersAreDrawn'
  BY <1>0 DEF Clips!Report, NumbersAreDrawn, ClipTypes
<1>3. ListedAreUsed'
  BY <1>0 DEF Clips!Report, ListedAreUsed
<1>4. BundleIsIntended'
  BY <1>0 DEF Clips!Report, BundleIsIntended
<1>5. BundleIsListed'
  BY <1>0 DEF Clips!Report, BundleIsListed, BundleIsPublished, BundleIsIntended, PlacesHold,
              Clips!Receipts
<1>6. IdsAreOfOneCopy'
  BY <1>0 DEF Clips!Report, IdsAreOfOneCopy
<1>7. PlacesHold'
  BY <1>0 DEF Clips!Report, PlacesHold, LaterSteps, Steps, Clips!Foreign, BundleIsIntended
<1>8. OwnHolds'
  BY <1>0 DEF Clips!Report, OwnHolds, OwnBegins
<1>9. Clips!ReportedArePublished'
  BY <1>0 DEF Clips!Report, Clips!ReportedArePublished, OwnHolds, OwnBegins
<1>10. Clips!CopiesAreKept'
  BY <1>0 DEF Clips!Report, Clips!CopiesAreKept
<1>11. Clips!PublishedOnce'
  BY <1>0 DEF Clips!Report, Clips!PublishedOnce
<1>12. BundleIsPublished'
  BY <1>0 DEF Clips!Report, BundleIsPublished, BundleIsIntended, PlacesHold, Clips!Receipts
<1>13. OwnBegins'
  BY <1>0 DEF Clips!Report, OwnBegins, Begun
<1> QED
  BY <1>1, <1>2, <1>3, <1>4, <1>5, <1>6, <1>7, <1>8, <1>9, <1>10, <1>11, <1>12, <1>13

\* The user signs in again: the bundle keeps its credential.
LEMMA LogInKeeps ==
  ASSUME ClipInv, Clips!LogIn,
         UNCHANGED overlaps
  PROVE  ClipInv'
<1> USE ClipFields, NoneIs, IntentIs DEF ClipInv
<1>0. command' = command
  BY DEF Clips!LogIn
<1>1. ClipTypes'
  BY <1>0 DEF Clips!LogIn, ClipTypes
<1>2. NumbersAreDrawn'
  BY <1>0 DEF Clips!LogIn, NumbersAreDrawn
<1>3. ListedAreUsed'
  BY <1>0 DEF Clips!LogIn, ListedAreUsed
<1>4. BundleIsIntended'
  BY <1>0 DEF Clips!LogIn, BundleIsIntended
<1>5. BundleIsListed'
  BY <1>0
  DEF Clips!LogIn, BundleIsListed, BundleIsPublished, BundleIsIntended, PlacesHold,
      Clips!Receipts
<1>6. IdsAreOfOneCopy'
  BY <1>0 DEF Clips!LogIn, IdsAreOfOneCopy
<1>7. PlacesHold'
  BY <1>0
  DEF Clips!LogIn, PlacesHold, LaterSteps, Steps, Clips!Foreign,
      BundleIsIntended
<1>8. OwnHolds'
  BY <1>0 DEF Clips!LogIn, OwnHolds, OwnBegins
<1>9. Clips!ReportedArePublished'
  BY <1>0 DEF Clips!LogIn, Clips!ReportedArePublished
<1>10. Clips!CopiesAreKept'
  BY <1>0 DEF Clips!LogIn, Clips!CopiesAreKept
<1>11. Clips!PublishedOnce'
  BY <1>0 DEF Clips!LogIn, Clips!PublishedOnce
<1>12. BundleIsPublished'
  BY <1>0
  DEF Clips!LogIn, BundleIsPublished, BundleIsIntended, PlacesHold,
      Clips!Receipts
<1>13. OwnBegins'
  BY <1>0 DEF Clips!LogIn, OwnBegins, Begun
<1> QED
  BY <1>1, <1>2, <1>3, <1>4, <1>5, <1>6, <1>7, <1>8, <1>9, <1>10, <1>11, <1>12, <1>13

\* Another device edits the note: its clips stay.
LEMMA EditClipboardKeeps ==
  ASSUME ClipInv, Clips!EditClipboard,
         UNCHANGED overlaps
  PROVE  ClipInv'
<1> USE ClipFields, NoneIs, IntentIs DEF ClipInv
<1>0. command' = command
  BY DEF Clips!EditClipboard
<1>1. ClipTypes'
  BY <1>0
  DEF Clips!EditClipboard, ClipTypes, Bundles, Relays, Stages
<1>2. NumbersAreDrawn'
  BY <1>0 DEF Clips!EditClipboard, NumbersAreDrawn
<1>3. ListedAreUsed'
  BY <1>0 DEF Clips!EditClipboard, ListedAreUsed
<1>4. BundleIsIntended'
  BY <1>0 DEF Clips!EditClipboard, BundleIsIntended
<1>5. BundleIsListed'
  BY <1>0
  DEF Clips!EditClipboard, BundleIsListed, BundleIsPublished, BundleIsIntended,
      PlacesHold, Clips!Receipts
<1>6. IdsAreOfOneCopy'
  BY <1>0 DEF Clips!EditClipboard, IdsAreOfOneCopy
<1>7. PlacesHold'
  BY <1>0
  DEF Clips!EditClipboard, PlacesHold, LaterSteps, Steps,
      Clips!Foreign, BundleIsIntended
<1>8. OwnHolds'
  BY <1>0
  DEF Clips!EditClipboard, OwnHolds, OwnBegins, PlacesHold, Before, Begun,
      Clips!Receipts, Clips!Staged, Clips!After, ListedAreUsed
<1>9. Clips!ReportedArePublished'
  BY <1>0 DEF Clips!EditClipboard, Clips!ReportedArePublished
<1>10. Clips!CopiesAreKept'
  BY <1>0 DEF Clips!EditClipboard, Clips!CopiesAreKept
<1>11. Clips!PublishedOnce'
  BY <1>0 DEF Clips!EditClipboard, Clips!PublishedOnce
<1>12. BundleIsPublished'
  BY <1>0
  DEF Clips!EditClipboard, BundleIsPublished, BundleIsIntended,
      PlacesHold, Clips!Receipts
<1>13. OwnBegins'
  BY <1>0
  DEF Clips!EditClipboard, OwnBegins, PlacesHold, Begun,
      Clips!After, ListedAreUsed
<1> QED
  BY <1>1, <1>2, <1>3, <1>4, <1>5, <1>6, <1>7, <1>8, <1>9, <1>10, <1>11, <1>12, <1>13

\* A stage expires; while a command adds a clip that is a failure.
LEMMA ExpireStageKeeps ==
  ASSUME ClipInv, Clips!ExpireStage,
         Clips!Enters("expired", command.own # 0)
  PROVE  ClipInv'
<1> USE ClipFields, NoneIs, IntentIs DEF ClipInv
<1>0. command' = command /\ (NoFailure' => NoFailure /\ own = 0) /\ (NoRemoval' => NoRemoval)
  BY DEF Clips!ExpireStage, Clips!Enters
<1>1. ClipTypes'
  BY <1>0 DEF Clips!ExpireStage, ClipTypes, Bundles, Relays, Stages
<1>2. NumbersAreDrawn'
  BY <1>0 DEF Clips!ExpireStage, NumbersAreDrawn
<1>3. ListedAreUsed'
  BY <1>0 DEF Clips!ExpireStage, ListedAreUsed
<1>4. BundleIsIntended'
  BY <1>0 DEF Clips!ExpireStage, BundleIsIntended
<1>5. BundleIsListed'
  BY <1>0
  DEF Clips!ExpireStage, BundleIsListed, BundleIsPublished, BundleIsIntended,
      PlacesHold, Clips!Receipts
<1>6. IdsAreOfOneCopy'
  BY <1>0 DEF Clips!ExpireStage, IdsAreOfOneCopy
<1>7. PlacesHold'
  BY <1>0
  DEF Clips!ExpireStage, PlacesHold, LaterSteps, Steps,
      Clips!Foreign, BundleIsIntended
<1>8. OwnHolds'
  BY <1>0 DEF Clips!ExpireStage, OwnHolds, OwnBegins
<1>9. Clips!ReportedArePublished'
  BY <1>0 DEF Clips!ExpireStage, Clips!ReportedArePublished
<1>10. Clips!CopiesAreKept'
  BY <1>0 DEF Clips!ExpireStage, Clips!CopiesAreKept
<1>11. Clips!PublishedOnce'
  BY <1>0 DEF Clips!ExpireStage, Clips!PublishedOnce
<1>12. BundleIsPublished'
  BY <1>0
  DEF Clips!ExpireStage, BundleIsPublished, BundleIsIntended,
      PlacesHold, Clips!Receipts
<1>13. OwnBegins'
  BY <1>0 DEF Clips!ExpireStage, OwnBegins, Begun
<1> QED
  BY <1>1, <1>2, <1>3, <1>4, <1>5, <1>6, <1>7, <1>8, <1>9, <1>10, <1>11, <1>12, <1>13

\* A copy disappears; under its command that is a failure.
LEMMA LoseCopyKeeps ==
  ASSUME ClipInv, Clips!LoseCopy,
         Clips!Enters("tampered", command.own \in files)
  PROVE  ClipInv'
<1> USE ClipFields, NoneIs, IntentIs DEF ClipInv
<1>0. /\ command' = command
      /\ (NoFailure' => NoFailure /\ own \notin files) /\ (NoRemoval' => NoRemoval)
  BY DEF Clips!LoseCopy, Clips!Enters
<1>1. ClipTypes'
  BY <1>0 DEF Clips!LoseCopy, ClipTypes
<1>2. NumbersAreDrawn'
  BY <1>0 DEF Clips!LoseCopy, NumbersAreDrawn
<1>3. ListedAreUsed'
  BY <1>0 DEF Clips!LoseCopy, ListedAreUsed
<1>4. BundleIsIntended'
  BY <1>0 DEF Clips!LoseCopy, BundleIsIntended
<1>5. BundleIsListed'
  BY <1>0
  DEF Clips!LoseCopy, BundleIsListed, BundleIsPublished, BundleIsIntended, PlacesHold,
      Clips!Receipts
<1>6. IdsAreOfOneCopy'
  BY <1>0 DEF Clips!LoseCopy, IdsAreOfOneCopy
<1>7. PlacesHold'
  BY <1>0
  DEF Clips!LoseCopy, PlacesHold, LaterSteps, Steps, Clips!Foreign,
      BundleIsIntended
<1>8. OwnHolds'
  BY <1>0
  DEF Clips!LoseCopy, OwnHolds, OwnBegins, PlacesHold, Before, Begun,
      Clips!Receipts, Clips!Staged, Clips!After, ListedAreUsed
<1>9. Clips!ReportedArePublished'
  BY <1>0 DEF Clips!LoseCopy, Clips!ReportedArePublished
<1>10. Clips!CopiesAreKept'
  BY <1>0 DEF Clips!LoseCopy, Clips!CopiesAreKept
<1>11. Clips!PublishedOnce'
  BY <1>0 DEF Clips!LoseCopy, Clips!PublishedOnce
<1>12. BundleIsPublished'
  BY <1>0
  DEF Clips!LoseCopy, BundleIsPublished, BundleIsIntended, PlacesHold,
      Clips!Receipts
<1>13. OwnBegins'
  BY <1>0
  DEF Clips!LoseCopy, OwnBegins, PlacesHold, Begun,
      Clips!After, ListedAreUsed
<1> QED
  BY <1>1, <1>2, <1>3, <1>4, <1>5, <1>6, <1>7, <1>8, <1>9, <1>10, <1>11, <1>12, <1>13

\* Another device removes a clip: it stays used, and unless it is that of a bundle to be
\* completed nothing is known less.
LEMMA RemoveClipKeeps ==
  ASSUME ClipInv, NEW id \in Ids, Clips!RemoveClip(id),
         Clips!Enters("removal", root.id = id)
  PROVE  ClipInv'
<1> USE ClipFields, NoneIs, IntentIs DEF ClipInv
<1>0. /\ command' = command /\ id \in relay.listed /\ id \in Nat
      /\ (NoRemoval' => NoRemoval /\ root.id # id) /\ (NoFailure' => NoFailure)
      /\ relay' \in Relays /\ relay'.listed = relay.listed \ {id} /\ relay'.used = relay.used
      /\ relay'.stages = relay.stages /\ relay'.receipts = relay.receipts
  <2>1. relay.rev + 1 \in Nat /\ relay.listed \ {id} \subseteq Nat
    BY DEF ClipTypes
  <2> QED
    BY <2>1 DEF Clips!RemoveClip, Clips!Enters, ClipTypes, Relays
<1>1. ClipTypes'
  BY <1>0 DEF Clips!RemoveClip, ClipTypes
<1>2. NumbersAreDrawn'
  BY <1>0 DEF Clips!RemoveClip, NumbersAreDrawn
<1>3. ListedAreUsed'
  BY <1>0 DEF Clips!RemoveClip, ListedAreUsed
<1>4. BundleIsIntended'
  BY <1>0 DEF Clips!RemoveClip, BundleIsIntended
<1>5. BundleIsListed'
  BY <1>0
  DEF Clips!RemoveClip, BundleIsListed, BundleIsPublished, BundleIsIntended,
      PlacesHold, Clips!Receipts
<1>6. IdsAreOfOneCopy'
  BY <1>0 DEF Clips!RemoveClip, IdsAreOfOneCopy
<1>7. PlacesHold'
  BY <1>0
  DEF Clips!RemoveClip, PlacesHold, LaterSteps, Steps,
      Clips!Foreign, BundleIsIntended
<1>8. OwnHolds'
  BY <1>0
  DEF Clips!RemoveClip, OwnHolds, OwnBegins, PlacesHold, Before, Begun,
      Clips!Receipts, Clips!Staged, Clips!After, ListedAreUsed
<1>9. Clips!ReportedArePublished'
  BY <1>0 DEF Clips!RemoveClip, Clips!ReportedArePublished
<1>10. Clips!CopiesAreKept'
  BY <1>0 DEF Clips!RemoveClip, Clips!CopiesAreKept
<1>11. Clips!PublishedOnce'
  BY <1>0 DEF Clips!RemoveClip, Clips!PublishedOnce
<1>12. BundleIsPublished'
  BY <1>0
  DEF Clips!RemoveClip, BundleIsPublished, BundleIsIntended,
      PlacesHold, Clips!Receipts
<1>13. OwnBegins'
  BY <1>0
  DEF Clips!RemoveClip, OwnBegins, PlacesHold, Begun,
      Clips!After, ListedAreUsed
<1> QED
  BY <1>1, <1>2, <1>3, <1>4, <1>5, <1>6, <1>7, <1>8, <1>9, <1>10, <1>11, <1>12, <1>13

\* The bundle is the same one, further on.
SameBundle ==
  /\ root' \in Bundles /\ root' # Clips!NoRoot /\ root'.mutation = root.mutation
  /\ root'.id = root.id /\ root'.login = root.login

\* What a step of a bundle leaves alone.
Rest ==
  UNCHANGED <<intent, cache, files, reported, copies, login, removed, lost, drawn, mutations>>

\* What is known of a bundle that is on its way.
LEMMA BundleKnown ==
  ASSUME ClipInv, command.at \in {"stage", "final"}
  PROVE  /\ root # Clips!NoRoot /\ ~root.done /\ root.id > 0 /\ intent.id = root.id
         /\ intent # Clips!NoIntent /\ root.id <= drawn /\ root.mutation <= mutations
         /\ drawn \in Nat /\ mutations \in Nat
         /\ ~command.early => root.id \notin relay.listed
         /\ NoFailure /\ own # 0 => root.id = own /\ intent = [id |-> own, file |-> own]
<1>1. root # Clips!NoRoot /\ ~root.done
  BY DEF ClipInv, PlacesHold
<1>2. root.id > 0 /\ intent.id = root.id
  BY <1>1 DEF ClipInv, BundleIsIntended
<1>3. intent # Clips!NoIntent
  BY <1>2, NoneIs
<1>4. root.id <= drawn /\ root.mutation <= mutations
  BY <1>2, <1>3 DEF ClipInv, NumbersAreDrawn
<1>5. ~command.early => root.id \notin relay.listed
  BY <1>2 DEF ClipInv, PlacesHold, LaterSteps
<1>6. NoFailure /\ own # 0 => intent = [id |-> own, file |-> own]
  BY DEF ClipInv, OwnHolds, Before, Begun
<1> QED
  BY <1>1, <1>2, <1>3, <1>4, <1>5, <1>6 DEF ClipInv, ClipTypes

\* What a refusal does.
RefusedTo(conflict) ==
  /\ command' \in Commands /\ command'.own = command.own /\ command'.clips = command.clips
  /\ command'.early = command.early /\ command'.then = command.then
  /\ \/ command.early /\ command'.at = "pull"
     \/ /\ ~command.early /\ conflict /\ ~Clips!Foreign /\ command.attempt < 2
        /\ command'.at = "repull" /\ command'.attempt = command.attempt + 1
     \/ /\ ~command.early /\ (conflict /\ ~Clips!Foreign => command.attempt >= 2)
        /\ command'.at = "abandon" /\ command'.attempt = command.attempt + 1
  /\ root' \in Bundles
  /\ \/ Clips!Foreign /\ root' = root
     \/ ~Clips!Foreign /\ root' = Clips!NoRoot

\* A command that is refused ends, or goes on to what a refusal asks for.
LEMMA RefusedGoes ==
  ASSUME ClipTypes, NEW conflict \in BOOLEAN, Clips!Refused(conflict) PROVE RefusedTo(conflict)
<1>1. /\ root' \in Bundles
      /\ \/ Clips!Foreign /\ root' = root
         \/ ~Clips!Foreign /\ root' = Clips!NoRoot
  BY NoneIs DEF Clips!Refused, ClipTypes
<1>2. command \in Commands
  BY DEF ClipTypes
<1>3. CASE command.early
  <2>1. command' = [command EXCEPT !.at = "pull"]
    BY <1>3 DEF Clips!Refused
  <2> QED
    BY <1>1, <1>2, <1>3, <2>1 DEF RefusedTo, Commands, ClipPlaces
<1>4. CASE ~command.early /\ conflict /\ ~Clips!Foreign /\ command.attempt < 2
  <2> DEFINE at == [command EXCEPT !.at = "repull"]
  <2>0. /\ at \in Commands /\ at.at = "repull" /\ at.attempt = command.attempt
        /\ at.own = command.own /\ at.clips = command.clips
        /\ at.early = command.early /\ at.then = command.then
    BY <1>2 DEF Commands, ClipPlaces
  <2>1. command' = [at EXCEPT !.attempt = @ + 1]
    BY <1>4 DEF Clips!Refused
  <2> HIDE DEF at
  <2> QED
    BY <1>1, <1>4, <2>0, <2>1 DEF RefusedTo, Commands
<1>5. CASE ~command.early /\ ~(conflict /\ ~Clips!Foreign /\ command.attempt < 2)
  <2> DEFINE at == [command EXCEPT !.at = "abandon"]
  <2>0. /\ at \in Commands /\ at.at = "abandon" /\ at.attempt = command.attempt
        /\ at.own = command.own /\ at.clips = command.clips
        /\ at.early = command.early /\ at.then = command.then
    BY <1>2 DEF Commands, ClipPlaces
  <2>1. command' = [at EXCEPT !.attempt = @ + 1]
    BY <1>5 DEF Clips!Refused
  <2>2. conflict /\ ~Clips!Foreign => command.attempt >= 2
    BY <1>2, <1>5 DEF Commands
  <2> HIDE DEF at
  <2> QED
    BY <1>1, <1>5, <2>0, <2>1, <2>2 DEF RefusedTo, Commands
<1> QED
  BY <1>3, <1>4, <1>5

\* A bundle that is staged is finalized, one without a copy is cancelled.
LEMMA StageGoesOn ==
  ASSUME ClipInv, command.at = "stage",
         NEW at \in {"final", "cancel"},
         Goes(at),
         Rest,
         UNCHANGED <<root, relay>>,
         base' = base,
         at = "final" => root.staged,
         at = "cancel" => ~root.staged /\ intent.file \notin files,
         UNCHANGED overlaps
  PROVE  ClipInv'
<1> USE OffIs, ClipFields, NoneIs, IntentIs DEF ClipInv, Goes, SameBundle
<1>1. ClipTypes'
  BY DEF Rest, ClipTypes
<1>2. NumbersAreDrawn'
  BY DEF Rest, NumbersAreDrawn
<1>3. ListedAreUsed'
  BY DEF Rest, ListedAreUsed
<1>4. BundleIsIntended'
  BY DEF Rest, BundleIsIntended
<1>5. BundleIsListed'
  BY DEF Rest, BundleIsListed, BundleIsPublished, BundleIsIntended, PlacesHold, Clips!Receipts
<1>6. IdsAreOfOneCopy'
  BY DEF Rest, IdsAreOfOneCopy
<1>7. PlacesHold'
  BY DEF Rest, PlacesHold, LaterSteps, Steps, Clips!Foreign, BundleIsIntended
<1>8. OwnHolds'
  BY DEF Rest, OwnHolds, OwnBegins, PlacesHold, Before, Begun, Clips!Receipts, Clips!Staged,
         Clips!After,
         ListedAreUsed
<1>9. Clips!ReportedArePublished'
  BY DEF Rest, Clips!ReportedArePublished
<1>10. Clips!CopiesAreKept'
  BY DEF Rest, Clips!CopiesAreKept
<1>11. Clips!PublishedOnce'
  BY DEF Rest, Clips!PublishedOnce
<1>12. BundleIsPublished'
  BY DEF Rest, BundleIsPublished, BundleIsIntended, PlacesHold, Clips!Receipts
<1>13. OwnBegins'
  BY DEF Rest, OwnBegins, PlacesHold, Begun, Clips!After,
         ListedAreUsed
<1> QED
  BY <1>1, <1>2, <1>3, <1>4, <1>5, <1>6, <1>7, <1>8, <1>9, <1>10, <1>11, <1>12, <1>13

\* A bundle is stored, sealed, before its answer; the command ends.
LEMMA StageLeft ==
  ASSUME ClipInv, command.at = "stage",
         command' = Clips!Off,
         Rest,
         base' = base,
         SameBundle,
         root'.sealed,
         root'.staged = root.staged,
         root'.final = root.final,
         root'.done = root.done,
         relay' \in Relays, relay'.listed = relay.listed, relay'.used = relay.used,
         relay'.receipts = relay.receipts,
         relay'.stages \subseteq relay.stages \cup {[mutation |-> root.mutation, id |-> root.id,
              login |-> login]},
         UNCHANGED overlaps
  PROVE  ClipInv'
<1> USE OffIs, ClipFields, NoneIs, IntentIs DEF ClipInv, Goes, SameBundle
<1>1. ClipTypes'
  BY DEF Rest, ClipTypes
<1>2. NumbersAreDrawn'
  <2>1. \A s \in relay'.stages : s.id <= drawn /\ s.mutation <= mutations
    BY BundleKnown DEF NumbersAreDrawn, ClipTypes
  <2>2. command'.own <= drawn /\ root'.mutation <= mutations
    BY BundleKnown DEF NumbersAreDrawn, ClipTypes
  <2>3. \A i \in relay'.used : i <= drawn
    BY BundleKnown DEF NumbersAreDrawn, ClipTypes
  <2>4. \A r \in relay'.receipts : r.mutation <= mutations
    BY BundleKnown DEF NumbersAreDrawn, ClipTypes
  <2> QED
    BY <2>1, <2>2, <2>3, <2>4 DEF Rest, NumbersAreDrawn, ClipTypes
<1>3. ListedAreUsed'
  BY DEF Rest, ListedAreUsed
<1>4. BundleIsIntended'
  BY DEF Rest, BundleIsIntended, PlacesHold, Clips!Foreign
<1>5. BundleIsListed'
  BY DEF Rest, BundleIsListed, BundleIsPublished, BundleIsIntended, PlacesHold, Clips!Receipts
<1>6. IdsAreOfOneCopy'
  BY DEF Rest, IdsAreOfOneCopy
<1>7. PlacesHold'
  BY DEF Rest, PlacesHold, LaterSteps, Steps, Clips!Foreign, BundleIsIntended
<1>8. OwnHolds'
  BY DEF Rest, OwnHolds, OwnBegins
<1>9. Clips!ReportedArePublished'
  BY DEF Rest, Clips!ReportedArePublished
<1>10. Clips!CopiesAreKept'
  BY DEF Rest, Clips!CopiesAreKept
<1>11. Clips!PublishedOnce'
  BY DEF Rest, Clips!PublishedOnce
<1>12. BundleIsPublished'
  BY DEF Rest, BundleIsPublished, BundleIsIntended, PlacesHold, Clips!Receipts
<1>13. OwnBegins'
  BY DEF Rest, OwnBegins, Begun
<1> QED
  BY <1>1, <1>2, <1>3, <1>4, <1>5, <1>6, <1>7, <1>8, <1>9, <1>10, <1>11, <1>12, <1>13

\* The relay has staged it.
LEMMA StageTaken ==
  ASSUME ClipInv, command.at = "stage",
         Goes("final"),
         Rest,
         base' = base,
         SameBundle,
         root'.sealed,
         root'.staged,
         root'.final = root.final,
         root'.done = root.done,
         ~Clips!StageRefused,
         relay' \in Relays, relay'.listed = relay.listed, relay'.used = relay.used,
         relay'.receipts = relay.receipts,
         relay'.stages = relay.stages \cup {[mutation |-> root.mutation, id |-> root.id,
              login |-> login]},
         UNCHANGED overlaps
  PROVE  ClipInv'
<1> USE OffIs, ClipFields, NoneIs, IntentIs DEF ClipInv, Goes, SameBundle
<1>1. ClipTypes'
  BY DEF Rest, ClipTypes
<1>2. NumbersAreDrawn'
  <2>1. \A s \in relay'.stages : s.id <= drawn /\ s.mutation <= mutations
    BY BundleKnown DEF NumbersAreDrawn, ClipTypes
  <2>2. command'.own <= drawn /\ root'.mutation <= mutations
    BY BundleKnown DEF NumbersAreDrawn, ClipTypes
  <2>3. \A i \in relay'.used : i <= drawn
    BY BundleKnown DEF NumbersAreDrawn, ClipTypes
  <2>4. \A r \in relay'.receipts : r.mutation <= mutations
    BY BundleKnown DEF NumbersAreDrawn, ClipTypes
  <2> QED
    BY <2>1, <2>2, <2>3, <2>4 DEF Rest, NumbersAreDrawn, ClipTypes
<1>3. ListedAreUsed'
  BY DEF Rest, ListedAreUsed
<1>4. BundleIsIntended'
  BY DEF Rest, BundleIsIntended, PlacesHold, Clips!Foreign
<1>5. BundleIsListed'
  BY DEF Rest, BundleIsListed, BundleIsPublished, BundleIsIntended, PlacesHold, Clips!Receipts
<1>6. IdsAreOfOneCopy'
  BY DEF Rest, IdsAreOfOneCopy
<1>7. PlacesHold'
  BY DEF Rest, PlacesHold, LaterSteps, Steps, Clips!Foreign, BundleIsIntended
<1>8. OwnHolds'
  <2> DEFINE stage == [mutation |-> root.mutation, id |-> root.id, login |-> login]
  <2>0. stage \in relay'.stages /\ stage.mutation = root'.mutation /\ stage.login = login'
    BY DEF Rest, Rest
  <2>1. Clips!Staged'
    BY ONLY <2>0 DEF Clips!Staged
  <2>2. NoFailure /\ own # 0 => \A s \in relay'.stages :
                     s.id = own => s.mutation = root.mutation /\ s.login = login
    BY BundleKnown DEF Clips!StageRefused
  <2>3. Clips!Receipts' = Clips!Receipts
    BY DEF Rest, Clips!Receipts
  <2>5. NoFailure /\ own # 0 =>
          /\ own \in files /\ own \notin relay.used /\ command.attempt < 3
          /\ Clips!Receipts = {} /\ root.login = login
    BY BundleKnown DEF OwnHolds, Before
  <2>6. NoFailure /\ own # 0 => intent = [id |-> own, file |-> own]
    BY BundleKnown
  <2>7. /\ command'.at = "final" /\ command'.own = own /\ command'.clips = command.clips
        /\ command'.early = command.early /\ command'.attempt = command.attempt
        /\ command'.then = command.then /\ root'.mutation = root.mutation
        /\ root'.login = root.login /\ relay'.used = relay.used
        /\ UNCHANGED <<intent, login, files, overlaps>>
    BY DEF Rest
  <2> HIDE DEF ClipInv, Goes, SameBundle
  <2> QED
    BY ONLY <2>1, <2>2, <2>3, <2>5, <2>6, <2>7 DEF OwnHolds, Before, Begun, own, NoFailure
<1>9. Clips!ReportedArePublished'
  BY DEF Rest, Clips!ReportedArePublished
<1>10. Clips!CopiesAreKept'
  BY DEF Rest, Clips!CopiesAreKept
<1>11. Clips!PublishedOnce'
  BY DEF Rest, Clips!PublishedOnce
<1>12. BundleIsPublished'
  BY DEF Rest, BundleIsPublished, BundleIsIntended, PlacesHold, Clips!Receipts
<1>13. OwnBegins'
  BY DEF Rest, OwnBegins, Begun
<1> QED
  BY <1>1, <1>2, <1>3, <1>4, <1>5, <1>6, <1>7, <1>8, <1>9, <1>10, <1>11, <1>12, <1>13

\* The relay refuses it; of this command's own clip only as a conflict, if nothing failed.
LEMMA RefusedKeeps ==
  ASSUME ClipInv, command.at \in {"stage", "final"},
         NEW conflict \in BOOLEAN,
         Clips!Refused(conflict),
         Rest,
         base' = base,
         relay' \in Relays, relay'.listed = relay.listed, relay'.used = relay.used,
         relay'.receipts = relay.receipts,
         relay'.stages \subseteq relay.stages,
         NoFailure /\ own # 0 => conflict /\ \A s \in relay'.stages : s.id # own,
         UNCHANGED overlaps
  PROVE  ClipInv'
<1> USE OffIs, ClipFields, NoneIs, IntentIs DEF ClipInv, RefusedTo
<1>0. RefusedTo(conflict)
  BY RefusedGoes
<1>1. ClipTypes'
  BY <1>0 DEF Rest, ClipTypes
<1>2. NumbersAreDrawn'
  <2>1. \A s \in relay'.stages : s.id <= drawn /\ s.mutation <= mutations
    BY <1>0, BundleKnown DEF NumbersAreDrawn, ClipTypes
  <2>2. command'.own <= drawn /\ root'.mutation <= mutations
    BY <1>0, BundleKnown DEF NumbersAreDrawn, ClipTypes
  <2>3. \A i \in relay'.used : i <= drawn
    BY <1>0, BundleKnown DEF NumbersAreDrawn, ClipTypes
  <2>4. \A r \in relay'.receipts : r.mutation <= mutations
    BY <1>0, BundleKnown DEF NumbersAreDrawn, ClipTypes
  <2> QED
    BY <2>1, <2>2, <2>3, <2>4 DEF Rest, NumbersAreDrawn, ClipTypes
<1>3. ListedAreUsed'
  BY DEF Rest, ListedAreUsed
<1>4. BundleIsIntended'
  BY <1>0 DEF Rest, BundleIsIntended
<1>5. BundleIsListed'
  BY <1>0, BundleKnown DEF Rest, BundleIsListed, BundleIsPublished, Clips!Receipts
<1>6. IdsAreOfOneCopy'
  BY DEF Rest, IdsAreOfOneCopy
<1>7. PlacesHold'
  BY <1>0, BundleKnown DEF Rest, PlacesHold, LaterSteps, Steps, Clips!Foreign
<1>8. OwnHolds'
  <2>1. CASE ~(NoFailure /\ own # 0)
    BY <2>1, <1>0 DEF Rest, OwnHolds
  <2>2. CASE NoFailure /\ own # 0
    <3>1. conflict /\ ~Clips!Foreign /\ ~command.early /\ command.attempt < 3
          /\ own \in files /\ own \notin relay.used
      BY <2>2 DEF OwnHolds, OwnBegins, Clips!Foreign, Before
    <3>2. root' = Clips!NoRoot
          /\ \/ command'.at = "repull" /\ command'.attempt < 3
             \/ command'.at = "abandon" /\ command'.attempt = 3
      BY <3>1, <1>0
    <3> QED
      BY <2>2, <3>1, <3>2, <1>0, BundleKnown DEF Rest, OwnHolds, Before, Begun
  <2> QED
    BY <2>1, <2>2
<1>9. Clips!ReportedArePublished'
  BY DEF Rest, Clips!ReportedArePublished
<1>10. Clips!CopiesAreKept'
  BY DEF Rest, Clips!CopiesAreKept
<1>11. Clips!PublishedOnce'
  BY DEF Rest, Clips!PublishedOnce
<1>12. BundleIsPublished'
  BY <1>0, BundleKnown DEF Rest, BundleIsPublished, Clips!Receipts
<1>13. OwnBegins'
  BY <1>0 DEF Rest, OwnBegins, Begun
<1> QED
  BY <1>1, <1>2, <1>3, <1>4, <1>5, <1>6, <1>7, <1>8, <1>9, <1>10, <1>11, <1>12, <1>13

\* The answer is stored with the bundle.
LEMMA AnswerKeeps ==
  ASSUME ClipInv, command.at = "final",
         Goes("settle"),
         Rest,
         base' \in Nat,
         SameBundle,
         root'.sealed = root.sealed,
         root'.staged = root.staged,
         root'.final,
         root'.done,
         relay' \in Relays,
         \/ relay' = relay /\ Clips!Receipts # {}
         \/ /\ relay'.listed = relay.listed \cup {root.id}
            /\ relay'.used = relay.used \cup {root.id}
            /\ relay'.stages \subseteq relay.stages
            /\ \E rev \in Nat :
                 relay'.receipts = relay.receipts \cup
                   {[mutation |-> root.mutation, login |-> login, rev |-> rev]},
         UNCHANGED overlaps
  PROVE  ClipInv'
<1> USE OffIs, ClipFields, NoneIs, IntentIs DEF ClipInv, Goes, SameBundle
<1>1. ClipTypes'
  BY DEF Rest, ClipTypes
<1>2. NumbersAreDrawn'
  <2>1. \A s \in relay'.stages : s.id <= drawn /\ s.mutation <= mutations
    BY BundleKnown DEF NumbersAreDrawn, ClipTypes
  <2>2. command'.own <= drawn /\ root'.mutation <= mutations
    BY BundleKnown DEF NumbersAreDrawn, ClipTypes
  <2>3. \A i \in relay'.used : i <= drawn
    BY BundleKnown DEF NumbersAreDrawn, ClipTypes
  <2>4. \A r \in relay'.receipts : r.mutation <= mutations
    BY BundleKnown DEF NumbersAreDrawn, ClipTypes
  <2> QED
    BY <2>1, <2>2, <2>3, <2>4 DEF Rest, NumbersAreDrawn, ClipTypes
<1>3. ListedAreUsed'
  BY DEF Rest, ListedAreUsed
<1>4. BundleIsIntended'
  BY DEF Rest, BundleIsIntended, PlacesHold, Clips!Foreign
<1>5. BundleIsListed'
  BY DEF Rest, BundleIsListed, BundleIsPublished, BundleIsIntended, PlacesHold, Clips!Receipts
<1>6. IdsAreOfOneCopy'
  BY BundleKnown DEF Rest, IdsAreOfOneCopy
<1>7. PlacesHold'
  BY DEF Rest, PlacesHold, LaterSteps, Steps, Clips!Foreign, BundleIsIntended
<1>8. OwnHolds'
  <2>1. NoFailure /\ own # 0 => own \in files /\ root.id = own
    BY BundleKnown DEF OwnHolds
  <2> HIDE DEF ClipInv
  <2> QED
    BY <2>1 DEF Rest, OwnHolds, Before, Begun
<1>9. Clips!ReportedArePublished'
  BY DEF Rest, Clips!ReportedArePublished
<1>10. Clips!CopiesAreKept'
  BY DEF Rest, Clips!CopiesAreKept
<1>11. Clips!PublishedOnce'
  BY DEF Rest, Clips!PublishedOnce, IdsAreOfOneCopy, BundleIsIntended, PlacesHold
<1>12. BundleIsPublished'
  BY DEF Rest, BundleIsPublished, BundleIsIntended, PlacesHold, Clips!Receipts
<1>13. OwnBegins'
  BY DEF Rest, OwnBegins, Begun
<1> QED
  BY <1>1, <1>2, <1>3, <1>4, <1>5, <1>6, <1>7, <1>8, <1>9, <1>10, <1>11, <1>12, <1>13

\* No answer comes, whatever the relay has done; the command ends.
LEMMA Unheard ==
  ASSUME ClipInv, command.at = "final",
         command' = Clips!Off,
         Rest,
         base' \in Nat,
         SameBundle,
         root'.sealed = root.sealed,
         root'.staged = root.staged,
         root'.final,
         root'.done = root.done,
         relay' \in Relays,
         \/ relay' = relay
         \/ /\ relay'.listed = relay.listed \cup {root.id}
            /\ relay'.used = relay.used \cup {root.id}
            /\ relay'.stages \subseteq relay.stages
            /\ \E rev \in Nat :
                 relay'.receipts = relay.receipts \cup
                   {[mutation |-> root.mutation, login |-> login, rev |-> rev]},
         UNCHANGED overlaps
  PROVE  ClipInv'
<1> USE OffIs, ClipFields, NoneIs, IntentIs DEF ClipInv, Goes, SameBundle
<1>1. ClipTypes'
  BY DEF Rest, ClipTypes
<1>2. NumbersAreDrawn'
  <2>1. \A s \in relay'.stages : s.id <= drawn /\ s.mutation <= mutations
    BY BundleKnown DEF NumbersAreDrawn, ClipTypes
  <2>2. command'.own <= drawn /\ root'.mutation <= mutations
    BY BundleKnown DEF NumbersAreDrawn, ClipTypes
  <2>3. \A i \in relay'.used : i <= drawn
    BY BundleKnown DEF NumbersAreDrawn, ClipTypes
  <2>4. \A r \in relay'.receipts : r.mutation <= mutations
    BY BundleKnown DEF NumbersAreDrawn, ClipTypes
  <2> QED
    BY <2>1, <2>2, <2>3, <2>4 DEF Rest, NumbersAreDrawn, ClipTypes
<1>3. ListedAreUsed'
  BY DEF Rest, ListedAreUsed
<1>4. BundleIsIntended'
  BY DEF Rest, BundleIsIntended, PlacesHold, Clips!Foreign
<1>5. BundleIsListed'
  BY DEF Rest, BundleIsListed, BundleIsPublished, BundleIsIntended, PlacesHold, Clips!Receipts
<1>6. IdsAreOfOneCopy'
  BY BundleKnown DEF Rest, IdsAreOfOneCopy
<1>7. PlacesHold'
  BY DEF Rest, PlacesHold, LaterSteps, Steps, Clips!Foreign, BundleIsIntended
<1>8. OwnHolds'
  BY DEF Rest, OwnHolds, OwnBegins
<1>9. Clips!ReportedArePublished'
  BY DEF Rest, Clips!ReportedArePublished
<1>10. Clips!CopiesAreKept'
  BY DEF Rest, Clips!CopiesAreKept
<1>11. Clips!PublishedOnce'
  BY DEF Rest, Clips!PublishedOnce, IdsAreOfOneCopy, BundleIsIntended, PlacesHold
<1>12. BundleIsPublished'
  BY DEF Rest, BundleIsPublished, BundleIsIntended, PlacesHold, Clips!Receipts
<1>13. OwnBegins'
  BY DEF Rest, OwnBegins, Begun
<1> QED
  BY <1>1, <1>2, <1>3, <1>4, <1>5, <1>6, <1>7, <1>8, <1>9, <1>10, <1>11, <1>12, <1>13

\* A bundle that goes on is the same one.
LEMMA SealedIsSame ==
  ASSUME ClipTypes, root # Clips!NoRoot, root.id > 0, root' = [root EXCEPT !.sealed = TRUE]
  PROVE  SameBundle /\ root'.sealed /\ root'.staged = root.staged
         /\ root'.final = root.final /\ root'.done = root.done
<1>1. root' \in Bundles /\ root'.mutation = root.mutation /\ root'.id = root.id
      /\ root'.login = root.login
  BY DEF ClipTypes, Bundles
<1>2. root' # Clips!NoRoot
  <2>1. root'.id # 0
    BY <1>1
  <2> QED
    BY <2>1, NoneIs
<1> QED
  BY <1>1, <1>2 DEF SameBundle, ClipTypes, Bundles

\* The exchange that stages a bundle.
LEMMA StageClipKeeps ==
  ASSUME ClipInv, Clips!Stage,
         UNCHANGED overlaps
  PROVE  ClipInv'
<1>1. ClipTypes /\ command.at = "stage" /\ Rest /\ base' = base
  BY DEF Clips!Stage, ClipInv, Rest
<1>2. root # Clips!NoRoot /\ ~root.done /\ root.id > 0
  BY <1>1, BundleKnown
<1>3. CASE root.staged
  <2>1. Clips!To("final") /\ UNCHANGED <<root, relay>>
    BY <1>2, <1>3 DEF Clips!Stage
  <2>2. Goes("final")
    BY <1>1, <2>1, ToGoes DEF ClipPlaces
  <2> QED
    BY <1>1, <1>3, <2>1, <2>2, StageGoesOn
<1>4. CASE ~root.staged /\ ~root.sealed /\ intent.file \notin files
  <2>1. Clips!To("cancel") /\ UNCHANGED <<root, relay>>
    BY <1>2, <1>4 DEF Clips!Stage
  <2>2. Goes("cancel")
    BY <1>1, <2>1, ToGoes DEF ClipPlaces
  <2> QED
    BY <1>1, <1>4, <2>1, <2>2, StageGoesOn
<1>5. CASE ~root.staged /\ (root.sealed \/ intent.file \in files)
  <2> DEFINE kept == [root EXCEPT !.sealed = TRUE]
             stage == [mutation |-> root.mutation, id |-> root.id, login |-> login]
  <2>1. \/ Clips!StageRefused /\ Clips!Refused(FALSE) /\ relay' = relay
        \/ /\ ~Clips!StageRefused
           /\ relay' = [relay EXCEPT !.stages = @ \cup {stage}]
           /\ \/ root' = [kept EXCEPT !.staged = TRUE] /\ Clips!To("final")
              \/ root' = kept /\ command' = Clips!Off
        \/ root' = kept /\ relay' = relay /\ command' = Clips!Off
    BY <1>2, <1>5 DEF Clips!Stage, Clips!Lost
  <2>2. stage \in Stages
    BY <1>1, ClipFields DEF Stages, ClipTypes
  <2>3. kept \in Bundles /\ kept.mutation = root.mutation /\ kept.id = root.id
        /\ kept.login = root.login /\ kept.final = root.final /\ kept.done = root.done
        /\ kept.sealed /\ kept.staged = root.staged
    BY <1>1 DEF ClipTypes, Bundles
  <2>4. relay \in Relays
    BY <1>1 DEF ClipTypes
  <2>5. CASE Clips!StageRefused /\ Clips!Refused(FALSE) /\ relay' = relay
    <3>1. ~(NoFailure /\ own # 0)
      BY <1>1, <1>2, <2>5, BundleKnown
      DEF ClipInv, OwnHolds, OwnBegins, Before, Clips!StageRefused, Clips!Receipts
    <3> QED
      BY <1>1, <2>4, <2>5, <3>1, RefusedKeeps
  <2>6. CASE ~Clips!StageRefused /\ relay' = [relay EXCEPT !.stages = @ \cup {stage}]
    <3>1. relay' \in Relays /\ relay'.listed = relay.listed /\ relay'.used = relay.used
          /\ relay'.receipts = relay.receipts /\ relay'.stages = relay.stages \cup {stage}
      BY <2>2, <2>4, <2>6 DEF Relays
    <3>2. CASE root' = [kept EXCEPT !.staged = TRUE] /\ Clips!To("final")
      <4>1. root' \in Bundles /\ root'.mutation = root.mutation /\ root'.id = root.id
            /\ root'.login = root.login /\ root'.final = root.final /\ root'.done = root.done
            /\ root'.sealed /\ root'.staged
        <5> HIDE DEF kept
        <5> QED
          BY <2>3, <3>2 DEF Bundles
      <4>2. SameBundle
        BY <1>2, <4>1, NoneIs DEF SameBundle
      <4>3. Goes("final")
        BY <1>1, <3>2, ToGoes DEF ClipPlaces
      <4> QED
        BY <1>1, <2>6, <3>1, <4>1, <4>2, <4>3, StageTaken
    <3>3. CASE root' = kept /\ command' = Clips!Off
      BY <1>1, <1>2, <3>1, <3>3, SealedIsSame, StageLeft
    <3> QED
      BY <2>1, <2>6, <3>2, <3>3
  <2>7. CASE root' = kept /\ relay' = relay /\ command' = Clips!Off
    BY <1>1, <1>2, <2>4, <2>7, SealedIsSame, StageLeft
  <2> QED
    BY <2>1, <2>5, <2>6, <2>7
<1> QED
  BY <1>3, <1>4, <1>5

\* The exchange that finalizes it.
LEMMA FinalizeKeeps ==
  ASSUME ClipInv, Clips!Finalize,
         UNCHANGED overlaps
  PROVE  ClipInv'
<1> DEFINE receipt == [mutation |-> root.mutation, login |-> login, rev |-> relay.rev + 1]
           repeats == \E r \in Clips!Receipts : r.login = login
           accepts == Clips!Receipts = {} /\ root.base = relay.rev /\ Clips!Staged
<1>1. ClipTypes /\ command.at = "final" /\ Rest
  BY DEF Clips!Finalize, ClipInv, Rest
<1>2. root # Clips!NoRoot /\ ~root.done /\ root.id > 0
  BY <1>1, BundleKnown
<1>3. relay \in Relays /\ root \in Bundles /\ base \in Nat /\ relay.rev + 1 \in Nat
      /\ login \in Nat
  BY <1>1, ClipFields DEF ClipTypes
<1>4. ASSUME NEW rev \in Nat, Clips!Answered(rev)
      PROVE  /\ Goes("settle") /\ base' \in Nat /\ SameBundle
             /\ root'.sealed = root.sealed /\ root'.staged = root.staged
             /\ root'.final /\ root'.done
  <2> DEFINE sent == [root EXCEPT !.final = TRUE]
  <2>1. sent \in Bundles /\ sent.mutation = root.mutation /\ sent.id = root.id
        /\ sent.login = root.login /\ sent.sealed = root.sealed
        /\ sent.staged = root.staged /\ sent.final
    BY <1>3 DEF Bundles
  <2>2. root' = [sent EXCEPT !.done = TRUE]
    BY <1>4 DEF Clips!Answered
  <2>3. root' \in Bundles /\ root'.mutation = root.mutation /\ root'.id = root.id
        /\ root'.login = root.login /\ root'.sealed = root.sealed
        /\ root'.staged = root.staged /\ root'.final /\ root'.done
    <3> HIDE DEF sent
    <3> QED
      BY <2>1, <2>2 DEF Bundles
  <2>4. Goes("settle")
    BY <1>1, <1>4, ToGoes DEF Clips!Answered, ClipPlaces
  <2>5. base' \in Nat
    BY <1>3, <1>4 DEF Clips!Answered
  <2> QED
    BY <1>2, <2>3, <2>4, <2>5, NoneIs DEF SameBundle
<1>5. ASSUME Clips!Unanswered
      PROVE  /\ command' = Clips!Off /\ base' \in Nat /\ SameBundle
             /\ root'.sealed = root.sealed /\ root'.staged = root.staged
             /\ root'.final /\ root'.done = root.done
  <2>1. root' = [root EXCEPT !.final = TRUE] /\ command' = Clips!Off /\ base' = base
    BY <1>5 DEF Clips!Unanswered, Clips!Lost
  <2>2. root' \in Bundles /\ root'.mutation = root.mutation /\ root'.id = root.id
        /\ root'.login = root.login /\ root'.sealed = root.sealed
        /\ root'.staged = root.staged /\ root'.final /\ root'.done = root.done
    BY <1>3, <2>1 DEF Bundles
  <2> QED
    BY <1>2, <1>3, <2>1, <2>2, NoneIs DEF SameBundle
<1>6. CASE /\ repeats /\ relay' = relay
           /\ ((\E r \in Clips!Receipts : Clips!Answered(r.rev)) \/ Clips!Unanswered)
  <2>1. CASE Clips!Unanswered
    BY <1>1, <1>3, <1>5, <1>6, <2>1, Unheard
  <2>2. CASE \E r \in Clips!Receipts : Clips!Answered(r.rev)
    <3>1. PICK r \in Clips!Receipts : Clips!Answered(r.rev)
      BY <2>2
    <3>2. r.rev \in Nat
      BY <1>3 DEF Clips!Receipts, Relays
    <3> QED
      BY <1>1, <1>3, <1>4, <1>6, <3>1, <3>2, AnswerKeeps
  <2> QED
    BY <1>6, <2>1, <2>2
<1>7. CASE /\ accepts /\ relay' = Clips!Published
           /\ (Clips!Answered(relay.rev + 1) \/ Clips!Unanswered)
  <2>1. receipt \in [mutation : Nat, login : Nat, rev : Nat]
    BY <1>3, ClipFields, <1>1
  <2>2. relay' \in Relays /\ relay'.listed = relay.listed \cup {root.id}
        /\ relay'.used = relay.used \cup {root.id} /\ relay'.stages \subseteq relay.stages
        /\ relay'.receipts = relay.receipts \cup {receipt}
    <3>1. root.id \in Nat
      BY <1>1, ClipFields
    <3> QED
      BY <1>3, <1>7, <2>1, <3>1 DEF Clips!Published, Relays
  <2>3. CASE Clips!Unanswered
    BY <1>1, <1>3, <1>5, <2>2, <2>3, Unheard
  <2>4. CASE Clips!Answered(relay.rev + 1)
    BY <1>1, <1>3, <1>4, <2>2, <2>4, AnswerKeeps
  <2> QED
    BY <1>7, <2>3, <2>4
<1>8. CASE /\ ~repeats /\ ~accepts
           /\ Clips!Refused(Clips!Receipts = {} /\ root.base # relay.rev)
           /\ relay' = [relay EXCEPT !.stages =
                          {s \in @ : Clips!Receipts # {} \/ root.base = relay.rev
                                       \/ s.mutation # root.mutation \/ s.login # login}]
           /\ base' = base
  <2>1. relay' \in Relays /\ relay'.listed = relay.listed /\ relay'.used = relay.used
        /\ relay'.receipts = relay.receipts /\ relay'.stages \subseteq relay.stages
        /\ relay'.stages = {s \in relay.stages : Clips!Receipts # {} \/ root.base = relay.rev
                              \/ s.mutation # root.mutation \/ s.login # login}
    BY <1>3, <1>8 DEF Relays
  <2>2. NoFailure /\ own # 0 =>
                   Clips!Receipts = {} /\ Clips!Staged
                   /\ \A s \in relay.stages :
                        s.id = own => s.mutation = root.mutation /\ s.login = login
    BY <1>1 DEF ClipInv, OwnHolds, OwnBegins
  <2>3. NoFailure /\ own # 0 =>
                   (Clips!Receipts = {} /\ root.base # relay.rev)
                   /\ \A s \in relay'.stages : s.id # own
    BY <1>8, <2>1, <2>2
  <2>4. (Clips!Receipts = {} /\ root.base # relay.rev) \in BOOLEAN
    OBVIOUS
  <2> QED
    BY <1>1, <1>8, <2>1, <2>3, <2>4, RefusedKeeps
<1>9. CASE Clips!Unanswered /\ relay' = relay
  BY <1>1, <1>3, <1>5, <1>9, Unheard
<1>10. \/ /\ repeats /\ relay' = relay
          /\ ((\E r \in Clips!Receipts : Clips!Answered(r.rev)) \/ Clips!Unanswered)
       \/ /\ accepts /\ relay' = Clips!Published
          /\ (Clips!Answered(relay.rev + 1) \/ Clips!Unanswered)
       \/ /\ ~repeats /\ ~accepts
          /\ Clips!Refused(Clips!Receipts = {} /\ root.base # relay.rev)
          /\ relay' = [relay EXCEPT !.stages =
                         {s \in @ : Clips!Receipts # {} \/ root.base = relay.rev
                                      \/ s.mutation # root.mutation \/ s.login # login}]
          /\ base' = base
       \/ Clips!Unanswered /\ relay' = relay
  BY DEF Clips!Finalize
<1> QED
  BY <1>6, <1>7, <1>8, <1>9, <1>10

\* So does a step of the command that runs.
LEMMA CommandStepKeeps ==
  ASSUME ClipInv, Clips!CommandStep,
         UNCHANGED overlaps
  PROVE  ClipInv'
<1>1. CASE Clips!Complete \/ Clips!Unstage
  BY <1>1, CompleteClipKeeps, UnstageKeeps
<1>2. CASE Clips!RecoverCommitted \/ Clips!RecoverPending \/ Clips!Pull \/ Clips!Recover
  BY <1>2, RecoverCommittedKeeps, RecoverPendingKeeps, PullKeeps, RecoverKeeps
<1>3. CASE \/ Clips!Retire \/ Clips!Forget \/ Clips!Attempt
           \/ Clips!Stage \/ Clips!Finalize \/ Clips!SettleClip
  BY <1>3, RetireKeeps, ForgetKeeps, AttemptKeeps, StageClipKeeps, FinalizeKeeps, SettleClipKeeps
<1>4. CASE Clips!Abandon \/ Clips!Reidentify \/ Clips!Cancel \/ Clips!Discard
  BY <1>4, AbandonKeeps, ReidentifyKeeps, CancelKeeps, DiscardKeeps
<1>5. CASE Clips!Copy \/ Clips!Intend \/ Clips!Report \/ Clips!Kill
  BY <1>5, CopyKeeps, IntendKeeps, ReportKeeps, KillKeeps
<1> QED
  BY <1>1, <1>2, <1>3, <1>4, <1>5 DEF Clips!CommandStep

\* Every step keeps ClipInv.
LEMMA ClipInvStep ==
  ASSUME ClipInv, [Clips!ClipNext]_(Clips!clipVars) PROVE ClipInv'
<1>1. ASSUME NEW clips \in BOOLEAN, Clips!Start(clips), UNCHANGED overlaps PROVE ClipInv'
  BY <1>1, StartKeeps
<1>2. CASE Clips!CommandStep /\ UNCHANGED overlaps
  BY <1>2, CommandStepKeeps
<1>3. CASE \/ (Clips!LogIn \/ Clips!EditClipboard) /\ UNCHANGED overlaps
           \/ Clips!ExpireStage /\ Clips!Enters("expired", command.own # 0)
           \/ Clips!LoseCopy /\ Clips!Enters("tampered", command.own \in files)
  BY <1>3, LogInKeeps, EditClipboardKeeps, ExpireStageKeeps, LoseCopyKeeps
<1>4. ASSUME NEW id \in Ids, Clips!RemoveClip(id), Clips!Enters("removal", root.id = id)
      PROVE  ClipInv'
  BY <1>4, RemoveClipKeeps
<1>5. CASE UNCHANGED Clips!clipVars
  BY <1>5
  DEF Clips!clipVars, ClipInv, ClipTypes, NumbersAreDrawn, ListedAreUsed, BundleIsIntended,
      BundleIsListed, BundleIsPublished, IdsAreOfOneCopy, PlacesHold, LaterSteps, Steps,
      Clips!Foreign, OwnHolds, OwnBegins,
           Before,
      Begun, Clips!Staged, Clips!Receipts, Clips!ReportedArePublished, Clips!CopiesAreKept,
           Clips!PublishedOnce
<1> QED
  BY <1>1, <1>2, <1>3, <1>4, <1>5 DEF Clips!ClipNext

\* A copy stays while an intent may need it, no clip is published under two IDs, what
\* the relay has committed can be completed unless another device removed the clip before,
\* and a clip that a command has printed was published unless a stage expired or the copy
\* disappeared under the command (cli.ts:665, docs/architecture.md): for any number of IDs,
\* credentials, bundles, commands killed, answers lost and edits.
THEOREM ClipsAlwaysArrive ==
  Clips!ClipSpec => [](/\ Clips!ReportedArePublished /\ Clips!CopiesAreKept
                       /\ Clips!CommittedCanFinish /\ Clips!PublishedOnce)
<1>1. Clips!ClipInit => ClipInv
  BY ClipInvInit
<1>2. ClipInv /\ [Clips!ClipNext]_(Clips!clipVars) => ClipInv'
  BY ClipInvStep
<1>3. ClipInv => /\ Clips!ReportedArePublished /\ Clips!CopiesAreKept
                 /\ Clips!CommittedCanFinish /\ Clips!PublishedOnce
  <2>1. ClipInv => Clips!CommittedCanFinish
    BY DEF ClipInv, BundleIsIntended, BundleIsListed, BundleIsPublished, Clips!CommittedCanFinish
  <2> QED
    BY <2>1 DEF ClipInv
<1> QED
  BY <1>1, <1>2, <1>3, PTL DEF Clips!ClipSpec

=============================================================================
