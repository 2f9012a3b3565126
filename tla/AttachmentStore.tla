-------------------------- MODULE AttachmentStore --------------------------
(***************************************************************************)
(* The bytes of one attachment in a browser, the class AttachmentStore of  *)
(* apps/web/src/lib/attachmentStorage.ts: a byte record with a generation, *)
(* the indexes of pending, staged and pulled generations, and the queue of *)
(* deletions.                                                              *)
(*                                                                         *)
(* Within a tab runExclusive runs the operations one at a time; between    *)
(* tabs only a storage transaction is atomic.  An operation that reads     *)
(* before its transaction is several steps.  Its callers in noteStore are  *)
(* free to come in any order, with the handles they were given.            *)
(***************************************************************************)
EXTENDS Integers, FiniteSets

CONSTANTS
  Browsers,     \* AttachmentStore instances over one storage
  WriteEpochs,  \* epochs of share and import writers: positive naturals
  ClaimTtl,     \* ATTACHMENT_DELETE_CLAIM_TTL_MS, in ticks
  MaxDraws,     \* bound on random generations and operation tokens
  MaxFaults     \* bound on closed tabs and failed relay calls

None == 0       \* no generation, no epoch, no operation

VARIABLES
  stored,     \* the byte record
  queued,     \* its generation in pendingUploadsKey
  staged,     \* ... in stagedUploadsKey
  pulled,     \* ... in stagedRemoteAttachmentsKey
  doomed,     \* its row in pendingDeletesKey
  browser,    \* operation in progress in each tab
  relayHas,   \* the attachment at the relay: "none", "live" or "gone"
  uploads,    \* history: generations that were to be uploaded
  accepted,   \* history: those the relay took
  givenUp,    \* history: those a caller let go
  draws, faults

bytesVars == <<stored, queued, staged, pulled, doomed, browser, relayHas,
               uploads, accepted, givenUp, draws, faults>>

Generations == 0..MaxDraws
NoRecord == [gen |-> -1]
NoDelete == [op |-> None]

\* A byte record is [gen, pull, epoch, needs, retained] (remoteGeneration,
\* needsUpload, retainedForUndo); a deletion [op, gen, epoch, purge, claim, age],
\* where age is the time since claimedAt, up to the claim's lifetime.

\* A tab: where its operation is, whether the note version it prepares lists the
\* attachment, the generation it read, the deletion it holds.
Resting == [at |-> "idle", lists |-> FALSE, seen |-> None, row |-> NoDelete]

\* An attachment to be made here, or one another device uploaded.
BytesInit ==
  /\ stored = NoRecord
  /\ queued = None /\ staged = None /\ pulled = None
  /\ doomed = NoDelete
  /\ browser = [b \in Browsers |-> Resting]
  /\ relayHas \in {"none", "live"}
  /\ uploads = {} /\ accepted = {} /\ givenUp = {}
  /\ draws = 0 /\ faults = 0

-----------------------------------------------------------------------------
(* The record, the indexes and the queue *)

Present  == stored # NoRecord
Doomed   == doomed # NoDelete
Claimed  == Doomed /\ doomed.claim # None
Pending  == Present /\ stored.needs /\ queued = stored.gen
Staged   == Present /\ staged # None /\ staged = stored.gen

\* The upload that is lost when the record is overwritten or its deletion decided.
AtStake ==
  (IF Present /\ stored.needs THEN {stored.gen} ELSE {})
    \cup (IF Doomed /\ Present /\ stored.retained THEN {doomed.gen} \ {None} ELSE {})

Epochs == (IF Present THEN {stored.epoch} ELSE {})
            \cup (IF Doomed THEN {doomed.epoch} ELSE {})
LatestEpoch == IF Epochs = {} THEN None ELSE CHOOSE e \in Epochs : \A f \in Epochs : f <= e

Fresh == draws + 1
Draw == draws < MaxDraws /\ draws' = Fresh

Upload(gen, epoch) ==
  [gen |-> gen, pull |-> None, epoch |-> epoch, needs |-> TRUE, retained |-> FALSE]

Idle(b) == browser[b].at = "idle"
Rest(b) == browser' = [browser EXCEPT ![b] = Resting]
Move(b, to) == browser' = [browser EXCEPT ![b].at = to]

-----------------------------------------------------------------------------
(* Writers of bytes *)

\* save({pendingUpload: true}): a deletion that failed to be recorded puts the
\* bytes it read back (noteStore.svelte.ts:1411), under a new generation.
Save ==
  /\ Present /\ stored.pull = None
  /\ ~Claimed
  /\ Draw
  /\ stored' = Upload(Fresh, IF stored.epoch # None \/ ~Doomed THEN stored.epoch
                             ELSE doomed.epoch)
  /\ queued' = Fresh /\ staged' = None /\ pulled' = None
  /\ doomed' = NoDelete
  /\ uploads' = uploads \cup {Fresh}
  /\ givenUp' = givenUp \cup AtStake
  /\ UNCHANGED <<browser, relayHas, accepted, faults>>

\* stageUpload, without an epoch for an attachment whose id is new.
StageUnfenced(e) ==   \* bug: the epoch of the bytes in place is not compared
  /\ ~Claimed
  /\ Draw
  /\ stored' = Upload(Fresh, e)
  /\ staged' = Fresh /\ queued' = None /\ pulled' = None
  /\ doomed' = NoDelete
  /\ uploads' = uploads \cup {Fresh}
  /\ givenUp' = givenUp \cup AtStake
  /\ UNCHANGED <<browser, relayHas, accepted, faults>>

Stage(e) ==
  /\ e = None => draws = 0 /\ relayHas = "none"
  /\ e >= LatestEpoch
  /\ ~Claimed
  /\ Draw
  /\ stored' = Upload(Fresh, e)
  /\ staged' = Fresh /\ queued' = None /\ pulled' = None
  /\ doomed' = NoDelete
  /\ uploads' = uploads \cup {Fresh}
  /\ givenUp' = givenUp \cup AtStake
  /\ UNCHANGED <<browser, relayHas, accepted, faults>>

\* saveRemote of a pulled attachment; refused while anything local is at work.
SaveRemoteOver ==   \* bug: bytes that wait for their upload may be replaced
  /\ relayHas # "none"
  /\ ~Doomed
  /\ Draw
  /\ stored' = [gen |-> None, pull |-> Fresh, needs |-> FALSE, retained |-> FALSE,
                epoch |-> IF Present THEN stored.epoch ELSE None]
  /\ queued' = None /\ staged' = None /\ pulled' = Fresh
  /\ UNCHANGED <<doomed, browser, relayHas, uploads, accepted, givenUp, faults>>

SaveRemote ==
  /\ relayHas # "none"
  /\ ~Doomed
  /\ Present => ~stored.needs /\ ~stored.retained /\ ~Staged
  /\ Draw
  /\ stored' = [gen |-> None, pull |-> Fresh, needs |-> FALSE, retained |-> FALSE,
                epoch |-> IF Present THEN stored.epoch ELSE None]
  /\ queued' = None /\ staged' = None /\ pulled' = Fresh
  /\ UNCHANGED <<doomed, browser, relayHas, uploads, accepted, givenUp, faults>>

\* confirmRemote, after the note was saved.
ConfirmRemote ==
  /\ Present /\ pulled # None /\ stored.pull = pulled
  /\ stored' = [stored EXCEPT !.pull = None]
  /\ pulled' = None
  /\ UNCHANGED <<queued, staged, doomed, browser, relayHas, uploads, accepted,
                 givenUp, draws, faults>>

\* discardStage, by the caller that staged g and could not save its note.
DiscardStage(g) ==
  /\ g \in uploads
  /\ Present /\ stored.needs /\ stored.gen = g /\ staged = g
  /\ stored' = NoRecord
  /\ staged' = None
  /\ queued' = IF queued = g THEN None ELSE queued
  /\ givenUp' = givenUp \cup {g}
  /\ UNCHANGED <<pulled, doomed, browser, relayHas, uploads, accepted, draws, faults>>

-----------------------------------------------------------------------------
(* prepareUploads, for a note version that lists the attachment or not *)

Prepare(b, lists) ==
  /\ Idle(b)
  /\ browser' = [browser EXCEPT ![b] =
       [Resting EXCEPT !.at = "promote", !.lists = lists, !.seen = staged]]
  /\ UNCHANGED <<stored, queued, staged, pulled, doomed, relayHas, uploads, accepted,
                 givenUp, draws, faults>>

\* The staged generation becomes a pending one, if it still is the one read.
PromoteUnlisted(b) ==   \* bug: what the version does not list is thrown away
  LET g == browser[b].seen
  IN  /\ browser[b].at = "promote"
      /\ IF g # None /\ staged = g /\ Present /\ stored.gen = g /\ stored.needs
         THEN /\ staged' = None
              /\ queued' = IF browser[b].lists THEN g ELSE queued
              /\ stored' = IF browser[b].lists THEN stored ELSE NoRecord
              /\ browser' = [browser EXCEPT ![b].at = "check", ![b].seen = queued']
         ELSE /\ browser' = [browser EXCEPT ![b].at = "check", ![b].seen = queued]
              /\ UNCHANGED <<staged, queued, stored>>
      /\ UNCHANGED <<pulled, doomed, relayHas, uploads, accepted,
                     givenUp, draws, faults>>

Promote(b) ==
  LET g == browser[b].seen
      promotes == /\ browser[b].lists /\ g # None /\ staged = g
                  /\ Present /\ stored.gen = g /\ stored.needs
  IN  /\ browser[b].at = "promote"
      /\ staged' = IF promotes THEN None ELSE staged
      /\ queued' = IF promotes THEN g ELSE queued
      /\ browser' = [browser EXCEPT ![b].at = "check", ![b].seen = queued']
      /\ UNCHANGED <<stored, pulled, doomed, relayHas, uploads, accepted,
                     givenUp, draws, faults>>

AfterCheck(b) == IF browser[b].lists THEN "enlist" ELSE "idle"

\* A pending generation that is not the record's is dropped from the index, by
\* what was read: the update looks at the index alone.
Check(b) ==
  LET g == browser[b].seen
  IN  /\ browser[b].at = "check"
      /\ Move(b, IF g = None \/ (Present /\ stored.needs /\ stored.gen = g)
                 THEN AfterCheck(b) ELSE "retire")
      /\ UNCHANGED <<stored, queued, staged, pulled, doomed, relayHas, uploads, accepted,
                     givenUp, draws, faults>>

Retire(b) ==
  /\ browser[b].at = "retire"
  /\ queued' = IF queued = browser[b].seen THEN None ELSE queued
  /\ Move(b, AfterCheck(b))
  /\ UNCHANGED <<stored, staged, pulled, doomed, relayHas, uploads, accepted,
                 givenUp, draws, faults>>

\* A listed attachment must have bytes, and is pending if they need an upload.
Enlist(b) ==
  /\ browser[b].at = "enlist"
  /\ IF Present /\ stored.needs
     THEN browser' = [browser EXCEPT ![b].at = "enlisting", ![b].seen = stored.gen]
     ELSE Rest(b)
  /\ UNCHANGED <<stored, queued, staged, pulled, doomed, relayHas, uploads, accepted,
                 givenUp, draws, faults>>

Enlisting(b) ==
  LET g == browser[b].seen
  IN  /\ browser[b].at = "enlisting"
      /\ IF Present /\ stored.needs /\ stored.gen = g
         THEN queued' = g /\ staged' = IF staged = g THEN None ELSE staged
         ELSE UNCHANGED <<queued, staged>>      \* throws
      /\ Rest(b)
      /\ UNCHANGED <<stored, pulled, doomed, relayHas, uploads, accepted,
                     givenUp, draws, faults>>

-----------------------------------------------------------------------------
(* Uploads *)

\* pendingUploadSources, loadPendingGeneration and the commit of a bundle with it.
Commit ==
  /\ Pending
  /\ relayHas = "none"
  /\ relayHas' = "live"
  /\ accepted' = accepted \cup {stored.gen}
  /\ UNCHANGED <<stored, queued, staged, pulled, doomed, browser, uploads, givenUp,
                 draws, faults>>

\* confirmCompoundUpload, by the tab that committed g or any that recovers it.
ConfirmAny(g) ==   \* bug: the generation is not compared
  /\ g \in accepted
  /\ Present /\ stored.needs
  /\ stored' = [stored EXCEPT !.needs = FALSE, !.gen = None]
  /\ queued' = IF queued = g THEN None ELSE queued
  /\ staged' = IF staged = g THEN None ELSE staged
  /\ UNCHANGED <<pulled, doomed, browser, relayHas, uploads, accepted, givenUp,
                 draws, faults>>

Confirm(g) ==
  /\ g \in accepted
  /\ Present /\ stored.needs /\ stored.gen = g
  /\ stored' = [stored EXCEPT !.needs = FALSE, !.gen = None]
  /\ queued' = IF queued = g THEN None ELSE queued
  /\ staged' = IF staged = g THEN None ELSE staged
  /\ UNCHANGED <<pulled, doomed, browser, relayHas, uploads, accepted, givenUp,
                 draws, faults>>

\* discardRejectedUploads: the note of g was refused and kept as a copy.
DiscardRejected(g) ==
  /\ g \in uploads
  /\ IF Present /\ stored.needs /\ stored.gen = g
     THEN stored' = NoRecord /\ givenUp' = givenUp \cup {g}
     ELSE UNCHANGED <<stored, givenUp>>
  /\ queued' = IF queued = g THEN None ELSE queued
  /\ staged' = IF staged = g THEN None ELSE staged
  /\ UNCHANGED <<pulled, doomed, browser, relayHas, uploads, accepted, draws, faults>>

-----------------------------------------------------------------------------
(* Deletions *)

\* queueDelete({retainBytes}): when a note is deleted, to be undone; and again
\* with purgeRetainedBytesOnComplete when the version without the attachment is
\* pushed, which settles it.
QueueDelete(purge) ==
  /\ purge \/ ~Doomed
  /\ ~Claimed
  /\ Present \/ relayHas # "none"
  /\ Draw
  /\ doomed' = [op |-> Fresh, gen |-> IF Present THEN stored.gen ELSE None,
                epoch |-> IF Present THEN stored.epoch ELSE None,
                purge |-> purge, claim |-> None, age |-> 0]
  /\ queued' = None /\ staged' = None /\ pulled' = None
  /\ stored' = IF Present THEN [stored EXCEPT !.retained = TRUE, !.needs = FALSE,
                                              !.gen = None, !.pull = None]
               ELSE stored
  /\ givenUp' = IF purge THEN givenUp \cup AtStake ELSE givenUp
  /\ UNCHANGED <<browser, relayHas, uploads, accepted, faults>>

\* cancelDelete: the note lists the attachment after all.
CancelDeleteBare ==   \* bug: the upload that was pending is not resumed
  /\ Doomed /\ ~Claimed
  /\ doomed' = NoDelete
  /\ stored' = IF Present THEN [stored EXCEPT !.retained = FALSE] ELSE stored
  /\ UNCHANGED <<queued, staged, pulled, browser, relayHas, uploads, accepted, givenUp,
                 draws, faults>>

CancelDelete ==
  LET resumes == Present /\ stored.retained /\ doomed.gen # None
  IN  /\ Doomed /\ ~Claimed
      /\ doomed' = NoDelete
      /\ stored' = IF resumes
                   THEN [stored EXCEPT !.retained = FALSE, !.needs = TRUE, !.gen = doomed.gen]
                   ELSE IF Present THEN [stored EXCEPT !.retained = FALSE] ELSE stored
      /\ queued' = IF resumes THEN doomed.gen ELSE queued
      /\ UNCHANGED <<staged, pulled, browser, relayHas, uploads, accepted, givenUp,
                     draws, faults>>

\* purgeRetained: the time to undo is over, or the undo has copied the bytes.
PurgeRetained ==
  /\ Present /\ stored.retained
  /\ stored' = NoRecord
  /\ queued' = None /\ staged' = None /\ pulled' = None
  /\ givenUp' = givenUp \cup AtStake
  /\ UNCHANGED <<doomed, browser, relayHas, uploads, accepted, draws, faults>>

\* applyRemoteDelete of a tombstone in the feed.
ApplyRemoteDelete ==
  LET keep == Present /\ (stored.retained \/ Pending \/ (Staged /\ stored.needs))
  IN  /\ relayHas = "gone"
      /\ stored' = IF keep THEN stored ELSE NoRecord
      /\ queued' = IF keep THEN queued ELSE None
      /\ staged' = IF keep THEN staged ELSE None
      /\ pulled' = None
      /\ doomed' = IF Claimed THEN doomed ELSE NoDelete
      /\ givenUp' = IF keep /\ stored.needs THEN givenUp ELSE givenUp \cup AtStake
      /\ UNCHANGED <<browser, relayHas, uploads, accepted, draws, faults>>

\* flushDeletes: read the queue, claim the row, delete at the relay, and retire
\* the row or release it.
Flush(b) ==
  /\ Idle(b) /\ Doomed
  /\ browser' = [browser EXCEPT ![b] = [Resting EXCEPT !.at = "claim", !.row = doomed]]
  /\ UNCHANGED <<stored, queued, staged, pulled, doomed, relayHas, uploads, accepted,
                 givenUp, draws, faults>>

Claim(b) ==
  LET claims == /\ Doomed /\ doomed.op = browser[b].row.op
                /\ doomed.claim # None => doomed.age = ClaimTtl
      row    == [doomed EXCEPT !.claim = b, !.age = 0]
  IN  /\ browser[b].at = "claim"
      /\ doomed' = IF claims THEN row ELSE doomed
      /\ IF claims
         THEN browser' = [browser EXCEPT ![b].at = "removing", ![b].row = row]
         ELSE Rest(b)
      /\ UNCHANGED <<stored, queued, staged, pulled, relayHas, uploads, accepted,
                     givenUp, draws, faults>>

\* The relay tombstones the attachment, and the answer arrives or not.
Remove(b) ==
  /\ browser[b].at = "removing"
  /\ \/ relayHas' = "gone" /\ Move(b, "removed") /\ UNCHANGED faults
     \/ /\ faults < MaxFaults /\ faults' = faults + 1
        /\ relayHas' \in {relayHas, "gone"}
        /\ Move(b, "failed")
  /\ UNCHANGED <<stored, queued, staged, pulled, doomed, uploads, accepted, givenUp, draws>>

Owns(b) == Doomed /\ doomed.op = browser[b].row.op /\ doomed.claim = b

CompleteUnowned(b) ==   \* bug: the deletion is retired although the claim was lost
  /\ browser[b].at = "removed"
  /\ doomed' = NoDelete
  /\ stored' = NoRecord
  /\ givenUp' = givenUp
  /\ Rest(b)
  /\ UNCHANGED <<queued, staged, pulled, relayHas, uploads, accepted, draws, faults>>

Complete(b) ==
  LET purges == /\ Owns(b) /\ browser[b].row.purge
                /\ Present /\ stored.retained /\ stored.epoch = browser[b].row.epoch
  IN  /\ browser[b].at = "removed"
      /\ doomed' = IF Owns(b) THEN NoDelete ELSE doomed
      /\ stored' = IF purges THEN NoRecord ELSE stored
      /\ givenUp' = IF Owns(b) THEN givenUp \cup AtStake ELSE givenUp
      /\ Rest(b)
      /\ UNCHANGED <<queued, staged, pulled, relayHas, uploads, accepted, draws, faults>>

Release(b) ==
  /\ browser[b].at = "failed"
  /\ doomed' = IF Owns(b) THEN [doomed EXCEPT !.claim = None, !.age = 0] ELSE doomed
  /\ Rest(b)
  /\ UNCHANGED <<stored, queued, staged, pulled, relayHas, uploads, accepted,
                 givenUp, draws, faults>>

-----------------------------------------------------------------------------
(* Surroundings *)

\* Time passes for a claim; the tab that holds it may be closed by then.
Elapse ==
  /\ Claimed /\ doomed.age < ClaimTtl
  /\ doomed' = [doomed EXCEPT !.age = @ + 1]
  /\ UNCHANGED <<stored, queued, staged, pulled, browser, relayHas, uploads, accepted,
                 givenUp, draws, faults>>

CloseTab(b) ==
  /\ ~Idle(b)
  /\ faults < MaxFaults /\ faults' = faults + 1
  /\ Rest(b)
  /\ UNCHANGED <<stored, queued, staged, pulled, doomed, relayHas, uploads, accepted,
                 givenUp, draws>>

\* Another device deletes the attachment.
DeletedElsewhere ==
  /\ relayHas = "live" /\ relayHas' = "gone"
  /\ UNCHANGED <<stored, queued, staged, pulled, doomed, browser, uploads, accepted,
                 givenUp, draws, faults>>

Preparing(b) ==
  Promote(b) \/ Check(b) \/ Retire(b) \/ Enlist(b) \/ Enlisting(b)

Flushing(b) == Flush(b) \/ Claim(b) \/ Remove(b) \/ Complete(b) \/ Release(b)

BytesNext ==
  \/ Save \/ SaveRemote \/ ConfirmRemote \/ Commit
  \/ \E e \in WriteEpochs \cup {None} : Stage(e)
  \/ \E g \in 1..MaxDraws : DiscardStage(g) \/ Confirm(g) \/ DiscardRejected(g)
  \/ \E purge \in BOOLEAN : QueueDelete(purge)
  \/ CancelDelete \/ PurgeRetained \/ ApplyRemoteDelete
  \/ \E b \in Browsers : Preparing(b) \/ Flushing(b) \/ CloseTab(b)
  \/ \E b \in Browsers, lists \in BOOLEAN : Prepare(b, lists)
  \/ Elapse \/ DeletedElsewhere

BytesSpec == BytesInit /\ [][BytesNext]_bytesVars

-----------------------------------------------------------------------------
(* Safety *)

\* Bytes that wait for their upload stay, in the record or retained behind a
\* queued deletion that restores them, until the relay took them or the note let
\* go of them: no pull, tombstone, stale version or other tab loses them
\* (attachmentStorage.ts:1151).
UploadsSurvive ==
  \A g \in uploads :
    \/ g \in accepted \cup givenUp
    \/ Present /\ stored.needs /\ stored.gen = g
    \/ Present /\ stored.retained /\ Doomed /\ doomed.gen = g

\* A share or import writer whose claim was taken over never replaces the bytes
\* of its successor, not even through a queued deletion (attachmentStorage.ts:29).
EpochAdvances ==
  Present /\ stored' # NoRecord /\ stored'.epoch # stored.epoch =>
    stored'.epoch > stored.epoch

\* While a tab deletes the attachment at the relay no other one brings its bytes
\* back, and the deletion leaves the queue only when the relay has it
\* (attachmentStorage.ts:449, 1469).
DeletionIsFinal ==
  Claimed =>
    /\ stored' # stored => stored' = NoRecord
    /\ doomed' = NoDelete => relayHas = "gone"

EpochsAndDeletions == [][EpochAdvances /\ DeletionIsFinal]_bytesVars
=============================================================================
