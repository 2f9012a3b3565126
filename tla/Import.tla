------------------------------- MODULE Import -------------------------------
(***************************************************************************)
(* Imports of one backed-up note with an attachment, and the recovery of   *)
(* those that were interrupted.  Three stores that no transaction spans    *)
(* take part: the journal in the client state, the bytes next to it, and   *)
(* the notes with the commit receipts in the notes database.               *)
(*                                                                         *)
(*   Source: apps/web/src/lib/importJournal.ts, importCommit.ts,           *)
(*   importCollisions.ts, noteStore.svelte.ts (init, importNotes,          *)
(*   commitImportedNotes) and the import receipts of                       *)
(*   packages/core/src/adapters/local.ts.                                  *)
(*                                                                         *)
(* Every import of the note is a batch: its number stands for the commit   *)
(* token, the generation of the bytes and, in order, the write epoch.      *)
(* AttachmentStore has the rest of the life of the bytes.                  *)
(***************************************************************************)
EXTENDS Naturals, FiniteSets

CONSTANTS
  Tabs,        \* tabs on one vault
  MaxBatches,  \* imports begun
  MaxFaults    \* tabs closed and writes that fail

VARIABLES
  journal,   \* the import journal: its batch, owner and lease
  receipts,  \* the import-commit record of each batch
  notes,     \* what the notes database has under each ID
  bytes,     \* the attachment's bytes under each ID: generation, staged or not
  importer,  \* the import or recovery in progress in each tab
  batches, faults,
  overlaps   \* history: the windows of the code that a step fell into

importVars == <<journal, receipts, notes, bytes, importer, batches, faults, overlaps>>

Batches == 1..MaxBatches

\* The ID in the backup, and the one a batch makes when that is taken.
Original == 0
Ids == Batches \cup {Original}

NoJournal == [batch |-> 0]
NoBytes   == [gen |-> 0, staged |-> FALSE]
AtRest    == [at |-> "idle", batch |-> 0, id |-> Original, as |-> "importer",
              staged |-> FALSE, seen |-> FALSE, state |-> "none"]

ImportInit ==
  /\ journal = NoJournal
  /\ receipts = [b \in Batches |-> "none"]
  /\ notes = [i \in Ids |-> "absent"]
  /\ bytes = [i \in Ids |-> NoBytes]
  /\ importer = [t \in Tabs |-> AtRest]
  /\ batches = 0 /\ faults = 0 /\ overlaps = {}

-----------------------------------------------------------------------------
(* The journal *)

Work(t)  == importer[t]
On(t, at) == importer[t].at = at
Goes(t, work) == importer' = [importer EXCEPT ![t] = work]
StepTo(t, at) == Goes(t, [Work(t) EXCEPT !.at = at])
Ends(t) == Goes(t, AtRest)

\* The owner token: the batch's own, or that of the recovery in a tab.
Token(t) == <<Work(t).as, IF Work(t).as = "importer" THEN Work(t).batch ELSE t>>
Journaled == journal # NoJournal
Owns(t)  == Journaled /\ journal.batch = Work(t).batch /\ journal.owner = Token(t)

Renewed == [journal EXCEPT !.lease = TRUE]
Fault == faults < MaxFaults /\ faults' = faults + 1

-----------------------------------------------------------------------------
(* commitImportedNotes *)

\* The IDs in use are listed, and what collides gets a new one.
ChooseOriginal(t) ==   \* bug: IDs in use are not mapped to new ones
  /\ On(t, "idle") /\ batches < MaxBatches
  /\ batches' = batches + 1
  /\ Goes(t, [AtRest EXCEPT !.at = "begin", !.batch = batches'])
  /\ UNCHANGED <<journal, receipts, notes, bytes, faults>>

Choose(t) ==
  /\ On(t, "idle") /\ batches < MaxBatches
  /\ batches' = batches + 1
  /\ Goes(t, [AtRest EXCEPT !.at = "begin", !.batch = batches',
                !.id = IF notes[Original] = "absent" THEN Original ELSE batches'])
  /\ UNCHANGED <<journal, receipts, notes, bytes, faults>>

\* An interrupted import must be recovered before another one starts.
Begin(t) ==
  /\ On(t, "begin")
  /\ IF Journaled THEN Ends(t) /\ UNCHANGED journal
     ELSE /\ journal' = [batch |-> Work(t).batch, id |-> Work(t).id,
                         owner |-> Token(t), lease |-> TRUE]
          /\ StepTo(t, "prepare")
  /\ UNCHANGED <<receipts, notes, bytes, batches, faults>>

PrepareCommit(t) ==
  LET b == Work(t).batch IN
  /\ On(t, "prepare")
  /\ IF receipts[b] = "cancelled" THEN StepTo(t, "discard") /\ UNCHANGED receipts
     ELSE /\ receipts' = [receipts EXCEPT ![b] = "pending"]
          /\ StepTo(t, "renew")
  /\ UNCHANGED <<journal, notes, bytes, batches, faults>>

\* Each transaction of the importer is preceded by one that renews its lease;
\* the lease it finds lost ends the import.
Renews(t, from, to) ==
  /\ On(t, from)
  /\ IF Owns(t) THEN journal' = Renewed /\ StepTo(t, to)
     ELSE UNCHANGED journal /\ StepTo(t, "discard")
  /\ UNCHANGED <<receipts, notes, bytes, batches, faults>>

RenewJournal(t) == Renews(t, "renew", "stage")
CommitStarted(t) == Renews(t, "mark", "save")

Heartbeat(t) ==
  /\ Work(t).as = "importer" /\ Owns(t) /\ ~journal.lease
  /\ Work(t).at \in {"prepare", "renew", "stage", "mark", "save", "unmark", "discard"}
  /\ journal' = Renewed
  /\ UNCHANGED <<receipts, notes, bytes, importer, batches, faults>>

\* stageUpload refuses an epoch older than that of the bytes in place.
StageAttachment(t) ==
  LET b == Work(t).batch  i == Work(t).id IN
  /\ On(t, "stage")
  /\ \/ /\ bytes[i].gen <= b
        /\ bytes' = [bytes EXCEPT ![i] = [gen |-> b, staged |-> TRUE]]
        /\ Goes(t, [Work(t) EXCEPT !.at = "mark", !.staged = TRUE])
        /\ UNCHANGED faults
     \/ /\ bytes[i].gen > b \/ faults < MaxFaults
        /\ faults' = IF bytes[i].gen > b THEN faults ELSE faults + 1
        /\ StepTo(t, "discard") /\ UNCHANGED bytes
  /\ UNCHANGED <<journal, receipts, notes, batches>>

\* saveNotesWithPendingSyncAtomically: the notes, the outbox and the receipt.
SaveUnprepared(t) ==   \* bug: the receipt is not read
  LET b == Work(t).batch IN
  /\ On(t, "save")
  /\ notes' = [notes EXCEPT ![Work(t).id] = "imported"]
  /\ receipts' = [receipts EXCEPT ![b] = "committed"]
  /\ StepTo(t, "clear")
  /\ UNCHANGED <<journal, bytes, batches, faults>>

SaveNotes(t) ==
  LET b == Work(t).batch IN
  /\ On(t, "save")
  /\ \/ /\ receipts[b] = "pending"
        /\ notes' = [notes EXCEPT ![Work(t).id] = "imported"]
        /\ receipts' = [receipts EXCEPT ![b] = "committed"]
        /\ StepTo(t, "clear") /\ UNCHANGED faults
     \/ /\ receipts[b] # "pending" \/ faults < MaxFaults
        /\ faults' = IF receipts[b] # "pending" THEN faults ELSE faults + 1
        /\ StepTo(t, "unmark") /\ UNCHANGED <<notes, receipts>>
  /\ UNCHANGED <<journal, bytes, batches>>

CommitFailed(t) ==
  /\ On(t, "unmark")
  /\ journal' = IF Owns(t) THEN Renewed ELSE journal
  /\ StepTo(t, "discard")
  /\ UNCHANGED <<receipts, notes, bytes, batches, faults>>

\* commitImportBatch discards what it staged, and the import recovers itself.
Discarded(i, gen) ==
  IF bytes[i] = [gen |-> gen, staged |-> TRUE] THEN [bytes EXCEPT ![i] = NoBytes] ELSE bytes

DiscardOwn(t) ==
  /\ On(t, "discard")
  /\ bytes' = IF Work(t).staged THEN Discarded(Work(t).id, Work(t).batch) ELSE bytes
  /\ StepTo(t, "recover")
  /\ UNCHANGED <<journal, receipts, notes, batches, faults>>

ClearReceipt(t) ==
  /\ Work(t).at \in {"clear", "cleared"}
  /\ receipts' = [receipts EXCEPT ![Work(t).batch] = "none"]
  /\ StepTo(t, "complete")
  /\ UNCHANGED <<journal, notes, bytes, batches, faults>>

\* Only the owner removes the journal.
CompleteJournal(t) ==
  /\ On(t, "complete")
  /\ journal' = IF Owns(t) THEN NoJournal ELSE journal
  /\ Ends(t)
  /\ UNCHANGED <<receipts, notes, bytes, batches, faults>>

-----------------------------------------------------------------------------
(* recoverImportJournal: when a vault is opened, and after a failed import *)

\* A live owner excludes recovery; the recovery of an import owns its journal.
Take(t) ==
  /\ \/ On(t, "idle") /\ Journaled
     \/ On(t, "recover")
  /\ IF ~Journaled \/ (journal.lease /\ ~(On(t, "recover") /\ Owns(t)))
     THEN Ends(t) /\ UNCHANGED journal
     ELSE LET as == IF On(t, "recover") /\ Owns(t) THEN Work(t).as ELSE "recovery" IN
          /\ journal' = [Renewed EXCEPT !.owner = <<as, IF as = "importer" THEN @[2] ELSE t>>]
          /\ Goes(t, [AtRest EXCEPT !.as = as, !.batch = journal.batch,
                                    !.id = journal.id, !.at = "list"])
  /\ UNCHANGED <<receipts, notes, bytes, batches, faults>>

ListStored(t) ==
  /\ On(t, "list")
  /\ Goes(t, [Work(t) EXCEPT !.seen = notes[Work(t).id] # "absent",
                !.at = IF Work(t).state = "committed" THEN "decide" ELSE "state"])
  /\ UNCHANGED <<journal, receipts, notes, bytes, batches, faults>>

CommitState(t) ==
  LET state == receipts[Work(t).batch] IN
  /\ On(t, "state")
  /\ Goes(t, [Work(t) EXCEPT !.state = state,
                !.at = CASE state = "pending" -> "cancel"
                         [] state = "committed" /\ ~Work(t).seen -> "list"
                         [] OTHER -> "decide"])
  /\ UNCHANGED <<journal, receipts, notes, bytes, batches, faults>>

\* The transaction that fences a stale writer, or finds that it has committed.
CancelCommit(t) ==
  LET b == Work(t).batch
      state == IF receipts[b] = "pending" THEN "cancelled" ELSE receipts[b] IN
  /\ On(t, "cancel")
  /\ receipts' = [receipts EXCEPT ![b] = state]
  /\ Goes(t, [Work(t) EXCEPT !.state = state,
                !.at = IF state = "committed" /\ ~Work(t).seen THEN "list" ELSE "decide"])
  /\ UNCHANGED <<journal, notes, bytes, batches, faults>>

\* A committed note must have its bytes, and is queued for sync.  Otherwise the
\* recovery ends with an error and the vault is not opened.
Indeterminate(t) ==
  /\ On(t, "decide")
  /\ IF Work(t).seen THEN bytes[Work(t).id] = NoBytes ELSE Work(t).state = "committed"

Decide(t) ==
  /\ On(t, "decide")
  /\ IF Indeterminate(t) THEN Ends(t)
     ELSE StepTo(t, IF Work(t).seen THEN "clear" ELSE "rollback")
  /\ UNCHANGED <<journal, receipts, notes, bytes, batches, faults>>

RollBack(t) ==
  /\ On(t, "rollback")
  /\ bytes' = Discarded(Work(t).id, Work(t).batch)
  /\ StepTo(t, "cleared")
  /\ UNCHANGED <<journal, receipts, notes, batches, faults>>

-----------------------------------------------------------------------------
(* Time, closed tabs and the rest of the application *)

LeaseExpires ==
  /\ Journaled /\ journal.lease
  /\ journal' = [journal EXCEPT !.lease = FALSE]
  /\ UNCHANGED <<receipts, notes, bytes, importer, batches, faults>>

CloseTab(t) ==
  /\ Fault /\ ~On(t, "idle") /\ Ends(t)
  /\ UNCHANGED <<journal, receipts, notes, bytes, batches>>

\* Another tab pulls the note that is in the backup.
Pulled ==
  /\ notes[Original] = "absent" /\ bytes[Original] = NoBytes
  /\ notes' = [notes EXCEPT ![Original] = "pulled"]
  /\ bytes' = [bytes EXCEPT ![Original] = [gen |-> 0, staged |-> TRUE]]
  /\ UNCHANGED <<journal, receipts, importer, batches, faults>>

\* A pass finds the note stored and promotes its bytes; it is deleted for good.
Promoted(i) ==
  /\ notes[i] = "imported" /\ bytes[i].staged
  /\ bytes' = [bytes EXCEPT ![i].staged = FALSE]
  /\ UNCHANGED <<journal, receipts, notes, importer, batches, faults>>

Deleted(i) ==
  /\ notes[i] \in {"imported", "pulled"}
  /\ notes' = [notes EXCEPT ![i] = "deleted"]
  /\ bytes' = [bytes EXCEPT ![i] = NoBytes]
  /\ UNCHANGED <<journal, receipts, importer, batches, faults>>

ImportStep(t) ==
  \/ Choose(t) \/ PrepareCommit(t) \/ RenewJournal(t) \/ CommitStarted(t) \/ Heartbeat(t)
  \/ StageAttachment(t) \/ CommitFailed(t) \/ DiscardOwn(t) \/ CompleteJournal(t)
  \/ Take(t) \/ ListStored(t) \/ CommitState(t) \/ CancelCommit(t) \/ Decide(t)
  \/ RollBack(t)

-----------------------------------------------------------------------------
(* Four windows of the code, which the steps fall into freely *)

\* A step that falls into a window is remembered; nothing keeps it from it.
Enters(window, in) == overlaps' = IF in THEN overlaps \cup {window} ELSE overlaps

\* A newer import of the ID that has lost the journal and is about to stage,
\* when another one of the ID begins.
Overtaken(t) ==
  \E u \in Tabs : On(u, "stage") /\ Work(u).id = Work(t).id /\ Work(u).batch > Work(t).batch

\* An import that has listed the IDs in use and not begun, when a note is saved
\* under the one it chose.
Listing(i) == \E t \in Tabs : On(t, "begin") /\ Work(t).id = i

\* An import or a recovery that has not ended has the ID, when its note is
\* pulled or deleted.
Claimed(i) ==
  \/ Journaled /\ journal.id = i
  \/ \E t \in Tabs : ~On(t, "idle") /\ Work(t).id = i

\* What a recovery has listed without finding the note, and not yet compared,
\* when a late owner clears the receipt of its commit.
Unseen(batch) ==
  /\ receipts[batch] = "committed"
  /\ \E t \in Tabs : Work(t).at \in {"state", "cancel"} /\ Work(t).batch = batch /\ ~Work(t).seen

ImportNext ==
  \/ \E t \in Tabs :
       \/ Begin(t) /\ Enters("epoch", ~Journaled /\ Overtaken(t))
       \/ SaveNotes(t) /\ Enters("collision", Listing(Work(t).id))
       \/ ClearReceipt(t) /\ Enters("late", Unseen(Work(t).batch))
  \/ Pulled /\ Enters("collision", Claimed(Original))
  \/ \E i \in Ids : Deleted(i) /\ Enters("deletion", Claimed(i))
  \/ /\ \/ \E t \in Tabs : ImportStep(t) \/ CloseTab(t)
        \/ \E i \in Ids : Promoted(i)
        \/ LeaseExpires
     /\ UNCHANGED overlaps

ImportSpec == ImportInit /\ [][ImportNext]_importVars

-----------------------------------------------------------------------------
(* Properties *)

\* An imported note has its attachment's bytes, whoever committed, recovered or
\* rolled back: a lease that ran out while its owner was merely slow leaves the
\* owner and the recovery at work on the same journal.  A deletion meanwhile
\* changes nothing in that; the three other windows may.
ImportedHaveBytes ==
  overlaps \subseteq {"deletion"} =>
    \A i \in Ids : notes[i] = "imported" => bytes[i] # NoBytes

\* An import never replaces a record the vault has, but for one that came under
\* the chosen ID after the IDs in use were listed: that is then saved over,
\* although importCollisions.ts means to keep an import from it.
ExistingIsKept ==
  "collision" \notin overlaps' =>
    \A i \in Ids : notes[i] # "absent" => notes'[i] \in {notes[i], "deleted"}

ExistingAreKept == [][ExistingIsKept]_importVars

\* An interrupted import can be recovered: no recovery ends with an error, as long
\* as no step fell into a window.
RecoverySucceeds == overlaps = {} => \A t \in Tabs : ~Indeterminate(t)
=============================================================================
