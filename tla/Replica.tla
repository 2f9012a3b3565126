------------------------------ MODULE Replica ------------------------------
(***************************************************************************)
(* A connected device that follows the relay: EncryptedSync.pull and       *)
(* acknowledge (packages/client/src/sync.ts) and the page loop of          *)
(* NoteStore.performSync (apps/web/src/lib/noteStore.svelte.ts) over the   *)
(* relay of module Relay.  The device has no edits of its own.             *)
(*                                                                         *)
(* A pass fetches one page of the changes feed, downloads the attachments  *)
(* its notes list with a request each, writes IndexedDB record by record   *)
(* and only then acknowledges the page.  The relay goes on between any two *)
(* of these steps, and the tab may be closed between any two.              *)
(***************************************************************************)
EXTENDS Relay

CONSTANTS
  Reader,       \* the device's credential
  Images,       \* the attachments listed inside a note's envelope
  Unreadable,   \* envelopes this device cannot decrypt or validate
  PageLimit,    \* LIMIT 1000 of the feed, SYNC_PULL_PAGE_SIZE of the client
  MaxStops      \* bound on reloads and unreachable relays

ASSUME ReplicaAssumption ==
  /\ Reader \in Credentials
  /\ Images \in [Envelopes -> SUBSET Attachments]
  /\ Unreadable \subseteq Envelopes
  /\ PageLimit \in Nat \ {0} /\ MaxStops \in Nat

\* A request ties an attachment to a note: it writes the attachment for the note,
\* or writes an envelope of the note that lists it.
Claims(q, a, n) ==
  \/ q.op = "put" /\ q.id \in Notes /\ n = q.id /\ a \in Images[q.envelope]
  \/ q.op = "put" /\ q.id \in Attachments /\ n = q.note /\ a = q.id
  \/ q.op = "stage" /\ n = q.note /\ a = q.id
  \/ q.op = "bundle" /\ n = q.id /\ a \in Images[q.envelope] \cup BundleIds(q)

\* An attachment is drawn for one note and encrypted to it (conflictCopy.ts:6):
\* under any other note it does not decrypt.
ASSUME OwnershipAssumption ==
  \A p, q \in Requests, a \in Attachments, m, n \in Notes :
    Claims(p, a, m) /\ Claims(q, a, n) => m = n

NoteRow == [deleted : BOOLEAN, envelope : Envelopes, images : SUBSET Attachments]

\* An absent row or list is told from any row or list.
ASSUME AbsenceAssumption ==
  Null \notin NoteRow /\ \A S \in SUBSET Attachments : S # Null

VARIABLES
  cursor,       \* durable: the acknowledged cursor
  known,        \* durable: the revision acknowledged of each record
  quarantine,   \* durable: the revision a note is quarantined at, 0 if it is not
  local,        \* durable: the note row in IndexedDB, Null if there is none
  arrived,      \* durable: attachments whose bytes are stored
  arriving,     \* durable: those stored but not confirmed (remoteGeneration)
  shown,        \* memory: attachments of the notes in the list, Null if not in it
  fresh,        \* memory: notes whose durable snapshot equals the IndexedDB row
  page,         \* memory: the page being applied, Null between pages
  stops         \* reloads and unreachable relays so far

device == <<cursor, known, quarantine, local, arrived, arriving>>
memory == <<shown, fresh, page>>

replicaVars == <<device, memory, stops>>

\* A note row is [deleted, envelope, images]; a page is [rows, todo, got, gone,
\* pulled, save, drop, put, confirm, remove, purge]: the feed's snapshot; the
\* attachments still to download, downloaded, and found tombstoned; whether pull()
\* has returned; then what is still to apply: bytes, attachment tombstones, notes,
\* confirmations of the note just written, note tombstones, and the bytes of what
\* was just removed.

-----------------------------------------------------------------------------
(* pull *)

\* GET /changes?since=cursor: the first rows by revision.
Changes ==
  LET newer == {k \in Ids : records[k].rev > cursor}
      first == {k \in newer :
                  Cardinality({j \in newer : records[j].rev <= records[k].rev})
                    <= PageLimit}
  IN  [k \in first |-> records[k]]

PageCursorOfTable(rows) == MaxRevision   \* bug: the newest revision, read or not

PageCursor(rows) == Max({rows[k].rev : k \in DOMAIN rows})

\* A note row is decrypted before its deleted flag is looked at.
ReadableNotes(rows) ==
  {n \in DOMAIN rows \cap Notes : rows[n].envelope \notin Unreadable}

LiveRows(rows) == {n \in ReadableNotes(rows) : ~rows[n].deleted}

DeletedAttachments(rows) ==
  {a \in DOMAIN rows \cap Attachments : rows[a].deleted}

Pull ==
  /\ page = Null
  /\ Reader \in live
  /\ DOMAIN Changes # {}
  /\ page' =
       [rows |-> Changes,
        todo |-> (UNION {Images[Changes[n].envelope] : n \in LiveRows(Changes)})
                   \ DeletedAttachments(Changes),
        got |-> {}, gone |-> DeletedAttachments(Changes), pulled |-> FALSE,
        save |-> {}, drop |-> {}, put |-> {}, confirm |-> {}, remove |-> {},
        purge |-> {}]
  /\ UNCHANGED <<device, shown, fresh, stops>>

\* GET /attachments/:id answers from the table of that moment, not of the page:
\* the attachment may be tombstoned by now.
Download(a) ==
  /\ page # Null /\ a \in page.todo
  /\ Reader \in live
  /\ Exists(a)
  /\ page' = [page EXCEPT !.todo = @ \ {a},
                          !.got = IF Live(a) THEN @ \cup {a} ELSE @,
                          !.gone = IF Live(a) THEN @ ELSE @ \cup {a}]
  /\ UNCHANGED <<device, shown, fresh, stops>>

\* The relay cannot be reached, refuses or lacks the attachment: the pass ends.
Unreachable ==
  /\ page # Null /\ page.todo # {}
  /\ stops < MaxStops
  /\ stops' = stops + 1
  /\ page' = Null
  /\ UNCHANGED <<device, shown, fresh>>

\* updateQuarantines: a readable row releases the note, an unreadable one
\* holds it at the newer revision.
Quarantined(rows) ==
  [n \in Notes |->
     LET held == quarantine[n]
     IN  IF n \notin DOMAIN rows \/ held > rows[n].rev THEN held
         ELSE IF n \in ReadableNotes(rows) THEN 0 ELSE rows[n].rev]

PullReturns ==
  /\ page # Null /\ ~page.pulled /\ page.todo = {}
  /\ quarantine' = Quarantined(page.rows)
  /\ page' = [page EXCEPT !.pulled = TRUE,
                          !.save = page.got,
                          !.drop = page.gone,
                          !.put = LiveRows(page.rows),
                          !.remove = {n \in ReadableNotes(page.rows) :
                                        page.rows[n].deleted}]
  /\ UNCHANGED <<cursor, known, local, arrived, arriving, shown, fresh, stops>>

-----------------------------------------------------------------------------
(* Applying a page: bytes, attachment tombstones, notes, note tombstones *)

Applying == page # Null /\ page.pulled

\* saveRemote.  The bytes are not shown until the note that lists them is saved.
SaveBytes(a) ==
  /\ Applying /\ a \in page.save
  /\ arriving' = arriving \cup {a}
  /\ arrived' = arrived \ {a}
  /\ page' = [page EXCEPT !.save = @ \ {a}]
  /\ UNCHANGED <<cursor, known, quarantine, local, shown, fresh, stops>>

\* The IndexedDB row is not the one this tab read last: the tab takes the row
\* up, and the pass ends unacknowledged (refreshLocalNoteFromSnapshot).
ConflictForgotten(n) ==   \* bug: the snapshot is not refreshed
  /\ n \notin fresh
  /\ page' = Null
  /\ UNCHANGED <<device, shown, fresh, stops>>

Conflict(n) ==
  /\ n \notin fresh
  /\ fresh' = fresh \cup {n}
  /\ shown' = [shown EXCEPT ![n] = local[n].images]
  /\ page' = Null
  /\ UNCHANGED <<device, stops>>

Listed(a) ==
  LET n == records[a].note IN shown[n] # Null /\ a \in shown[n]

CanDrop(a) == Applying /\ page.save = {} /\ page.purge = {} /\ a \in page.drop

\* A tombstone matters to a note of the list that still has the attachment.
SkipTombstone(a) ==
  /\ CanDrop(a) /\ ~Listed(a)
  /\ page' = [page EXCEPT !.drop = @ \ {a}]
  /\ UNCHANGED <<device, shown, fresh, stops>>

DropAttachment(a) ==
  LET n == records[a].note
  IN  /\ CanDrop(a) /\ Listed(a)
      /\ \/ Conflict(n)
         \/ /\ n \in fresh
            /\ local' = [local EXCEPT ![n].images = shown[n] \ {a}]
            /\ shown' = [shown EXCEPT ![n] = @ \ {a}]
            /\ page' = [page EXCEPT !.drop = @ \ {a}, !.purge = {a}]
            /\ UNCHANGED <<cursor, known, quarantine, arrived, arriving, fresh, stops>>

\* applyRemoteDelete of an attachment no note lists any more.
Purge(a) ==
  /\ Applying /\ a \in page.purge
  /\ arrived' = arrived \ {a}
  /\ arriving' = arriving \ {a}
  /\ page' = [page EXCEPT !.purge = @ \ {a}]
  /\ UNCHANGED <<cursor, known, quarantine, local, shown, fresh, stops>>

NotesMayBeSavedFirst == page.confirm = {}   \* bug: the bytes are saved later

NotesMayBeSaved ==
  page.save = {} /\ page.drop = {} /\ page.purge = {} /\ page.confirm = {}

\* saveNoteIfUnchanged, then the list shows the note.
SaveNote(n) ==
  LET images == Images[page.rows[n].envelope] \ page.gone
  IN  /\ Applying /\ n \in page.put
      /\ NotesMayBeSaved
      /\ \/ Conflict(n)
         \/ /\ n \in fresh
            /\ local' = [local EXCEPT ![n] =
                           [deleted |-> FALSE, envelope |-> page.rows[n].envelope,
                            images |-> images]]
            /\ shown' = [shown EXCEPT ![n] = images]
            /\ page' = [page EXCEPT !.put = @ \ {n}, !.confirm = images]
            /\ UNCHANGED <<cursor, known, quarantine, arrived, arriving, fresh, stops>>

ConfirmBytes(a) ==
  /\ Applying /\ a \in page.confirm
  /\ arriving' = arriving \ {a}
  /\ arrived' = arrived \cup {a}
  /\ page' = [page EXCEPT !.confirm = @ \ {a}]
  /\ UNCHANGED <<cursor, known, quarantine, local, shown, fresh, stops>>

\* applyRemoteNoteTombstone.  The tombstone gets a new updatedAt that the
\* snapshot lacks, so the next write of this note meets a conflict first.
RemoveNote(n) ==
  /\ Applying /\ n \in page.remove
  /\ NotesMayBeSaved /\ page.put = {}
  /\ \/ Conflict(n)
     \/ /\ n \in fresh
        /\ page' = [page EXCEPT !.remove = @ \ {n},
                                !.purge = IF shown[n] = Null THEN {} ELSE shown[n]]
        /\ shown' = [shown EXCEPT ![n] = Null]
        /\ IF local[n] = Null
           THEN UNCHANGED <<local, fresh>>
           ELSE /\ local' = [local EXCEPT ![n].deleted = TRUE]
                /\ fresh' = fresh \ {n}
        /\ UNCHANGED <<cursor, known, quarantine, arrived, arriving, stops>>

AppliedNotes == page.save = {} /\ page.put = {}   \* bug: tombstones may be left

Applied == NotesMayBeSaved /\ page.put = {} /\ page.remove = {}

Acknowledge ==
  /\ Applying /\ Applied
  /\ cursor' = IF PageCursor(page.rows) > cursor THEN PageCursor(page.rows) ELSE cursor
  /\ known' = [k \in Ids |->
                 IF k \in DOMAIN page.rows /\ page.rows[k].rev > known[k]
                 THEN page.rows[k].rev ELSE known[k]]
  /\ page' = Null
  /\ UNCHANGED <<quarantine, local, arrived, arriving, shown, fresh, stops>>

\* The tab is closed and opened again: the list and the snapshots are read
\* from the rows that are not deleted.
Reload ==
  /\ stops < MaxStops
  /\ stops' = stops + 1
  /\ page' = Null
  /\ shown' = [n \in Notes |->
                 IF local[n] = Null THEN Null
                 ELSE IF local[n].deleted THEN Null ELSE local[n].images]
  /\ fresh' = {n \in Notes : local[n] = Null \/ ~local[n].deleted}
  /\ UNCHANGED device

-----------------------------------------------------------------------------

ReplicaInit ==
  /\ Init
  /\ cursor = 0
  /\ known = [k \in Ids |-> 0]
  /\ quarantine = [n \in Notes |-> 0]
  /\ local = [n \in Notes |-> Null]
  /\ arrived = {} /\ arriving = {}
  /\ shown = [n \in Notes |-> Null]
  /\ fresh = Notes
  /\ page = Null
  /\ stops = 0

Sync ==
  \/ Pull
  \/ PullReturns
  \/ \E a \in Attachments :
       Download(a) \/ SaveBytes(a) \/ SkipTombstone(a) \/ DropAttachment(a)
         \/ Purge(a) \/ ConfirmBytes(a)
  \/ \E n \in Notes : SaveNote(n) \/ RemoveNote(n)
  \/ Acknowledge

ReplicaNext ==
  \/ Next /\ UNCHANGED replicaVars
  \/ (Sync \/ Unreachable \/ Reload) /\ UNCHANGED vars

\* sync() runs every 15 seconds and once the page is in sight, and a pass that
\* is not stopped goes on (noteStore.svelte.ts:428).
ReplicaSpec ==
  /\ ReplicaInit
  /\ [][ReplicaNext]_<<vars, replicaVars>>
  /\ WF_<<vars, replicaVars>>(Sync /\ UNCHANGED vars)

-----------------------------------------------------------------------------
(* Safety *)

\* What was acknowledged was applied: every note up to the cursor is here as
\* the relay has it now, or quarantined at exactly that revision, and lists the
\* attachments of its envelope less those deleted by the cursor
\* (noteStore.svelte.ts:2139, docs/architecture.md:46).
AcknowledgedIsApplied ==
  \A n \in Notes : Exists(n) /\ records[n].rev <= cursor =>
    LET row == records[n]
    IN  IF row.envelope \in Unreadable
        THEN quarantine[n] = row.rev
        ELSE /\ quarantine[n] = 0
             /\ row.deleted => local[n] = Null \/ local[n].deleted
             /\ ~row.deleted =>
                  /\ local[n] # Null
                  /\ ~local[n].deleted /\ local[n].envelope = row.envelope
                  /\ local[n].images \subseteq Images[row.envelope]
                  /\ \A a \in Images[row.envelope] :
                       /\ Live(a) => a \in local[n].images
                       /\ Exists(a) /\ ~Live(a) /\ records[a].rev <= cursor =>
                            a \notin local[n].images

\* The base revision of the device's next write is the relay's for everything
\* up to the cursor and never one the relay has not given out, so that a
\* conflict it meets is a real one (sync.ts:1055).
BasesAreCurrent ==
  \A k \in Ids :
    /\ known[k] <= records[k].rev
    /\ records[k].rev <= cursor => known[k] = records[k].rev

\* A note that lists an attachment has its bytes, also if the tab is closed in
\* the middle of a page (noteStore.svelte.ts:2079).
ListedBytesAreStored ==
  \A n \in Notes : local[n] # Null /\ ~local[n].deleted =>
    local[n].images \subseteq arrived \cup arriving

\* docs/architecture.md:46: the client saves tombstones "durably before
\* acknowledging the cursor, so an interrupted apply simply repeats".  Repeated,
\* it would remove the bytes of every attachment whose tombstone is
\* acknowledged.
InterruptedApplyRepeats ==
  page = Null =>
    \A a \in arrived \cup arriving :
      Exists(a) /\ ~Live(a) => records[a].rev > cursor

-----------------------------------------------------------------------------
(* Liveness *)

\* The device catches up with the relay again and again, unless it is revoked:
\* no page, however interrupted, keeps it from the pages after it.
CatchesUp == []<>(cursor = MaxRevision \/ Reader \notin live)
=============================================================================
