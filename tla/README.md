# UnKeep in TLA+

UnKeep is an end-to-end encrypted notes application.  Browsers and command
lines (the clients) hold notes in local storage and exchange encrypted records
through a relay, one Node.js process over one SQLite file.  The relay never
sees a note; it sees ids, revisions, sizes and credentials.

This directory models the parts of the program whose correctness depends on
the order of events: who may write, what a write does to the tables, what a
device may conclude from a page of changes, and what survives a lost answer, a
closed tab or a restart.

## Inventory

| Part | Source | State | Operations | What is hard | What makes it correct |
|---|---|---|---|---|---|
| Relay record store | `apps/server/src/index.mjs`, `storageQuota.mjs`, `migrations.mjs` | tables `records`, `mutations`, `attachment_stages` | ordinary put, stage, compound put, feed, download | body awaited between authorization and transaction, repeats with and without a receipt, stages that expire | revisions unique, one answer per request, notes and attachments change together, quota |
| Relay access control | `index.mjs` | tables `devices`, `service_credentials`, `pairing_requests`, `pairing_consume_receipts` | claim, reclaim, pair, approve, consume, issue, revoke | approvals and issues in flight during a revocation, ids and tokens over three tables | nothing outlives the device it depends on |
| Relay rate limiting | `pairingSecurity.mjs`, `administrativeSecurity.mjs` | windows per source | attempt, fail, succeed | bounded tables, clock | a source never exceeds its window |
| Client sync, remote half | `packages/client/src/sync.ts` | cursor, known revisions, quarantine | pull, download, acknowledge | the relay changes between requests of one page | what is acknowledged is applied |
| Client sync, pending mutations | `sync.ts` | pending mutation and compound records, their index | push, upload, delete, commit, cancel, rebase, complete | answers lost, crash between persisting, sending and forgetting | a mutation is sent as it was persisted until it is resolved |
| Local adapter | `packages/core/src/adapters/local.ts` | IndexedDB notes, outbox, creation claims, import receipts | compare-and-save, compare-and-delete, outbox, receive, import | two tabs | no edit is lost |
| Web note store | `apps/web/src/lib/noteStore.svelte.ts` | list, snapshots, debounced saves, upload intents | edit, delete, sync pass, compound upload, receive, import | user edits during a pass, three stores without a common transaction | an edit is pushed, or kept as a conflict copy |
| Web attachment storage | `attachmentStorage.ts` | byte records with generations and epochs, five indexes | stage, promote, queue, confirm, delete, claim | several tabs, bytes and notes written separately | bytes wait until the relay has them, a deletion is final |
| Web work queues | `debouncedWorkQueue.ts`, `vaultTaskCoordinator.ts` | timers, tokens, generation | schedule, drain, cancel, reset | overlapping runs | the last value is saved |
| Web import | `importJournal.ts`, `importCommit.ts`, `importCollisions.ts` | journal with a lease, commit receipts | begin, stage, commit, recover | the lease runs out while its owner is merely slow | imported notes have their bytes, nothing is replaced |
| Client pairing | `pairing.ts`, `deviceAccess.ts`, `session.ts` | device id, keys, session with its pending mark | request, wait, install, consume, undo, disconnect, forget | relay and local storage disagree, other tabs | an access that was granted is held |
| Web vault access | `AuthVaultGate.svelte`, `vaultAccessInvalidation.ts` | view and open vault of each tab | boot, pair, sign out, forget, switch | storage is read and awaited before it is acted upon | a settled tab has the stored session open, or nothing |
| Web shares | `routes/share`, `routes/+page.svelte`, `shareTarget.ts` | queue in `localStorage` | share, confirm, save, remove | several tabs, a change of vault | an accepted share becomes one note of its vault |
| Link previews | `linkPreviews.svelte.ts`, `linkPreview.mjs` | queue, loads and cache of previews; pages in progress | request, connect, clear, fetch | late answers, a cleared cache, limits | nothing asked for is lost, only lasting misses are kept |
| Command line | `apps/cli/src` | configuration file and lock, staged clips, intents | lock, stage, upload, recover | a killed process | one writer, a reported clip is published once |

Components that are left out altogether (user interface, formats, encryption,
build scripts and so on) are listed in `PROJECT.json` with the reason.

How the parts interact: a client calls the relay over HTTP, with its credential
in each request.  The relay never calls a client; a client learns of changes by
paging `GET /changes?since=cursor`.  Inside the browser the note store calls
the sync client, the local adapter and the attachment storage, which are three
separate stores without a common transaction.

## Plan

| # | Module | About | State |
|---|---|---|---|
| 1 | `Relay`, `Vault`, `RelayVault` | record store; what it promises; that it does | done, proved but for the quota |
| 2 | `Replica` over `Relay` | pull, apply, acknowledge | done, safety proved |
| 3 | `Access` | credentials, pairing, revocation | done, proved |
| 4 | `Sync` over `Relay` | pending mutations of a note, credential handoff, several tabs | done, safety proved but for one property |
| 5 | `Compound` over `Relay` | the compound commit and its recovery | done, proved |
| 6 | `Edits` | edits, queues, outbox, conflict copies, sync pass, in several tabs | done |
| 7 | `AttachmentStore` | bytes, uploads, deletions and their claims | done, proved |
| 8 | `Import`, `Received` | journal and lease; received notes | done, proved |
| 9 | `Pairing`, `VaultTabs`, `Shares` | the new device's side of pairing; tabs; shares | done, proved |
| 10 | `ConfigLock`, `Clip` | lock file, clips of the command line | done, proved |
| 11 | `RateLimit` | sliding windows | done |
| 12 | `LinkPreviews` | loads, connections and the cache; the relay's count | done |

Theorem worth proving next: `SavedEditsKept` in `Edits`.

## Modules

### Relay

`Relay` has the three tables as variables: `records` (a function on ids,
revision 0 for a row that does not exist), `receipts` (table `mutations`) and
`stages`.  A write handler authenticates, awaits the request body and then runs
one `BEGIN IMMEDIATE` transaction without yielding, so a handler is two steps:
`Begin` and one of `Replay`, `PutRedundant`, `Put`, `StageRenew`, `StageAdd`,
`BundleDiscard`, `Bundle`, `Refuse`.  The last one is every answer that rolls
back.  `Revoke`, `Cleanup`, `Restart` and `Tick` come between.

- A request is a record; `Requests` is the set clients may send.  Nothing is
  ever removed from it, so every request may be repeated and reordered without
  end: that is the network.  A request may carry any mutation id, so two
  different requests may share one.
- `baseRevision` left out of an ordinary put is `NoBase`.
- The hash of a stage stands for its bundle, its note and its envelope, so
  comparing hashes is comparing those.
- `answered` is a history variable: every 200 to a put or a bundle.
- `live` says which credentials are not revoked.  Here any set may be revoked
  at any time; `Access` models which.  A credential that `Access` would admit
  later is one that has sent nothing yet, so `live` only shrinks.
- `Limits` has the quota settings an operator may start the relay with; a
  restart chooses again, so usage may be above a limit.
- The check `note_deleted` (`index.mjs:1356`) is behind two checks that refuse
  every live attachment put, so it never decides; the model leaves it out.

`Vault` is what the record store promises: a note and its attachments change in
one step, at revisions above all earlier ones, and an attachment id is used
once.  `RelayVault` reads the tables as a vault.

### Replica

A device that follows the relay, without edits of its own: `EncryptedSync.pull`,
`downloadAttachment` and `acknowledge`, and the page loop of
`NoteStore.performSync`.  Durable state is what IndexedDB and the client
storage hold (`cursor`, `known`, `quarantine`, `local`, `arrived`, `arriving`);
`shown`, `fresh` and `page` are memory and lost by `Reload`.  Each durable
write is a step of its own, and any action of `Relay` may come between two.
`fresh` says whether the durable snapshot of a note equals its row: a tombstone
gives the row an `updatedAt` the snapshot lacks, so the next write of that note
meets `LocalNoteConflictError`, which ends the pass after taking the row up.

The quarantine table never reaches its limit here (a page is smaller), and a
download that answers 404 ends the pass like an unreachable relay.

### Access

Tables `devices`, `services`, `pairings` and `receipts`, with the two handlers
that await a body after authenticating (approve and issue) split in two steps.
Claim, reclaim and the pairing request await a body too, but what they read
before it is constant or only ever grows more permissive, and they read it
again in their transaction.  The token of a pending pairing is unique by an
index of the schema; a request that would violate it answers 500 and changes
nothing, so it is a guard.  `minted` holds every token drawn or brought along,
since the relay draws 32 random bytes.  `Subtree` is the recursive query as
the least set closed under approval.

### Sync

How a device writes a note: `EncryptedSync.mutate`, `sendPending`,
`resume`, `abandon` and `rebasePending...AfterCredentialChange`, in the order
in which the web client's `pushWithCredentialHandoff` calls them, over the
records of `Relay`.  `pending`, `known` and `session` are storage and shared by
the tabs; `tab[t]` is memory and lost by `Close`.  Within a tab `runMutation`
runs the operations on a note one at a time, so a tab is in one operation and
`tab[t].at` says where; each storage call and each request is a step.  A
compare-and-set inside one storage transaction is one step.

- `Send` puts the request in flight at the relay (`Begin`); `Serve` is the
  relay's transaction together with the tabs that hear its answer.  An answer
  nobody hears, a request that never arrives, a copy that arrives late and a
  tab that gives up before the answer each cost one of `MaxStops`; a tab whose
  request is not in flight any more gives up for free.
- A draft and the envelope it encrypts to are one value.  The fingerprint of a
  stored mutation is that value, so comparing fingerprints is comparing drafts.
- Mutation ids are UUIDs, so `Fresh` takes one nobody holds.
- Of the deterministic refusals (`shouldDiscardPendingAfterRelayError`) only
  `record_conflict` can happen to a valid client here.  401 and 507, a quota that
  is used up, keep the mutation (`Unserved`).
- Receipts are never pruned in the runs (`MaxTime` is 0, `MaxReceipts` large);
  the theorems prune them.  A mutation resent after its receipt is gone may be
  refused although it was carried out; `OneAnswer` of `Relay` says it is at
  least never carried out twice.
- The command line gives up where the web client abandons; that is `Close`.

### Compound

How a note with new attachments is published: the root record, the payloads
and the index of `EncryptedSync` (`commitNoteWithAttachments` with
`installPendingCompound`, `installCompoundStagePayload` and
`sendPendingCompound`, then `cancelPendingCompoundCommit`,
`completeCompoundCommit`, the rebase and the recovery), the upload intent of
the attachment storage and the outbox row of the note, over the stages and
records of `Relay`.  Each storage transaction
and each request is a step of `tab[t]`; a tab closes between any two, the user
edits between any two, stages expire, the credential is replaced and another
device writes the note.

- A draft is an envelope with a list of attachments (`Lists`); two drafts with
  different lists make the second edit remove an attachment of the first, so
  intents are found stale and dropped (`noteStore.svelte.ts:1277`).
- `Hear` hands an answer of the relay to the tabs that wait for it.  An ordinary push is
  answered here: its losses are those of `Sync`.  Tombstones of removed
  attachments are those of `AttachmentStore`.
- Two behaviours of the code are in the model and break no property, since no
  edit is lost by them: a tab closed between `beginCompoundUploadIntent` and
  the installation of the root, followed by an edit that replaces the
  attachment, leaves an intent every later pass ends at ("missing an intended
  upload"); and an ordinary push made while the answer of the bundle is lost
  keeps a copy of the user's own version.

### Edits

One note from the keystroke to the relay: what each tab shows and expects to
find stored (`visibleNoteSnapshots`, `durableNoteSnapshots`), the debounced
queue, the operations that run, the row and the outbox in IndexedDB, the
pushes of a tab and its sync pass.  A value of the note is the set of changes
it contains and its mark (live, trash, dead), so that "an edit is lost" is a
change in no value any more.  Local writes, requests and copies may fail, tabs
close and open, and a vault may be left (`VaultTaskCoordinator.reset`) and
opened again with operations of the former generation still running.

The code leaves windows open: pairs of steps that may overlap and then break
one of the properties.  Nothing in the model keeps a step from falling into
one.  The history variable `overlaps` remembers which windows a step fell into
and no guard reads it; each property names in its antecedent the windows it
excludes, and says of every other history that it holds.  The list therefore
says what would have to be repaired for the property to hold without an
antecedent.  The same convention is used in the modules below.

| Window | What overlaps |
|---|---|
| `push` | an older value of the outbox, listed or captured, is pushed on a base of a newer one (`noteStore.svelte.ts:1960`); the run `edits_listed` |
| `check` | a change is made, or is still unsaved, between the flush of a pass (1931) and the moment it captures the pull generations (2009) |
| `trash` | trashing or restoring awaits its push and then assigns its snapshot over what the tab shows (1514, 1531) |
| `refresh` | a pull has set the durable snapshot and not yet shown the note: an immediate change expects the new row and writes the old text |
| `copy` | the value to be preserved is remembered before its copy is stored, so a second conflict of the same value does not wait for it |

`SavedEditsKept` is claimed for histories with no window but `trash`, which
shows an older value and drops none; `NothingOverwritten` for those with no
window but `copy`, which loses what is this browser's own.
`SavedEditsAlwaysKept` is the same without an antecedent; `edits_listed`
refutes it.

Immediate saves of a vault that was left write unconditionally
(`persistNote`, 792).  Undo of a deletion, labels, ordering and the marks a
conflict copy drops are left out; a note with attachments is `Compound`'s.

### AttachmentStore

The bytes of one attachment: the byte record with its generation and write
epoch, the indexes of pending, staged and pulled generations, and the queue of
deletions with its claims, in two tabs.  An operation that reads before its
transaction is several steps (`Prepare`, `Promote`, `Enlist`, `Claim`, ...);
its callers come in any order, with the handles they were given.  A claimed
deletion expires (`ClaimTtl`) and another tab takes it over.

### Import and Received

`Import` has the journal with its owner and lease, the commit receipts, the
notes database and the bytes, three stores without a common transaction: an
import stages bytes, prepares its commit, saves notes and clears up; a
recovery, started by any tab once the lease ran out, takes the journal over
while the importer may go on.  Windows:

- `collision`: the ids in use are listed before the journal is claimed and
  notes are saved unconditionally (`noteStore.svelte.ts:1765`, 1841), so a note
  that comes under the chosen id meanwhile is overwritten by the backup, against
  "Preserve existing vault records by remapping colliding note and attachment
  IDs" (`importCollisions.ts:19`).
- `late`: a receipt is cleared that a slow recovery has yet to look for
  (`importJournal.ts:193`).
- `deletion`: the note is deleted before the recovery has seen it; each later
  start ends with "Committed import is missing attachment bytes".
- `epoch`: an importer has drawn its write epoch (`importJournal.ts:97`) and
  gets to its journal transaction only when a newer importer of the same note
  has lost the journal between its last renewal and its staging: what the older
  one then stages and saves, the newer one stages over, since its epoch is
  higher, and discards.  This takes a third tab, for the recovery in between, so
  the run `parts` with two tabs never meets it; the proof of
  `ImportsKeepTheirBytes` asked for it.

`ImportedHaveBytes` excludes all but `deletion`, `ExistingIsKept` excludes
`collision` only, `RecoverySucceeds` excludes all four.
An importer that prepares its commit after the rollback leaves a receipt for ever;
nothing reads it.

`Received` has a shared note that three tabs receive at once under one
idempotency key: the creation claim, staged bytes under the claim's token as
write epoch, commit, failure and retry.  Receiving without a key, a clock
that is behind the claim, and deletion of the note are left out.

### Pairing, VaultTabs and Shares

`Pairing` is the browser's side of `Access`: a tab requests, waits, installs
keys and a pending session, consumes, removes the mark, or takes all of it
back; another tab resumes, disconnects, forgets or cancels; requests and
answers are lost and tabs closed.  `installPairedMasterKey`, a read followed
by a compare-and-set, is one step.  Windows: `rollback` (another tab resumes a
pending session while the tab that paired has yet to decide on it: if it was
cancelled it restores the session before, `pairing.ts:294`, and the credential the other
tab activates is held nowhere) and `expired` (the device id is requested again
while an approved pairing whose request has expired is still being installed;
it has yet to hear of it).  `ActiveIsHeld` excludes both,
`PendingIsNotWithdrawn` only the second, `FinalizedIsActive` none.  A pending session
whose request expired can never finish; the user has to disconnect.

`VaultTabs` is `AuthVaultGate` in two tabs: boot, pairing, setup and reclaim,
leaving, and the signals other tabs get, with every read awaited before it is
acted upon and the lifecycle counter kept as a mark "stale".  Keys and session
are read at once; a signal arrives once per tab.  Windows: `replace` (another
session is stored while a tab still opens or shows the one that was there: no
signal tells it), `restart` (an operation begins in a tab while a stale one
still runs), `late` (one begins while the tab signs out) and `rollback` (a
cancelled pairing takes its session back when another tab has opened it,
`pairing.ts:305`).  That the session of a settled tab is the stored one is
claimed for histories in no window; with three tabs `late` alone breaks it: the
session a tab opens while it signs out is cleared from its memory, and the
signal that this session has ended then finds nothing to compare.  That the
notes open in a settled tab are those of its session excludes only `restart`
and `late`.

`Shares` is the queue of shared texts: the share page binds a share to the
vault it has looked up, a tab that opens a vault asks, saves each share as a
note under its own id and removes what it saved.  Windows: `twice` (the user
takes an unbound share into a vault while a tab with another vault has saved
it or is about to) and `switch` (the loop goes on in the vault that was opened
meanwhile, `+page.svelte:202`-224).  That the share waits or is a note holds in
every history; that it is of no vault but its own excludes `switch`; that it is
of no second one excludes both.  The migration of
the former queue is left out.

### ConfigLock and Clip

`ConfigLock` is the lock file of the command line's configuration: hard links
to owner records, stale owners recognised by process identity, cleanup under a
recovery lock.  Processes die at any step.  Window: `sweep` (a process that
read an abandoned recovery lock unlinks one that was taken since,
`storage.ts:330`).  `HoldersHaveTheLock` is claimed up to the first such sweep;
after it two processes may hold the lock, against "Config writes are locked
across processes" (`docs/architecture.md:105`).

`Clip` is a clip from the private copy over the intent and the bundle to the
cache, killed between any two steps, and the recovery every later command
begins with.  Staging and finalizing are one exchange each (`Compound` has
them step by step).  Windows: `expired` and `tampered` (the stage or the copy
of the clip the running command publishes is gone; it prints an id that was
never published, `cli.ts:1352`, against "It reports success only after both
the relay and the local cache are updated", `docs/architecture.md:115`) and
`removal` (another device removes the clip before its bundle is completed;
`recoverCommittedClipHandles`, `cli.ts:665`, throws at each later command).
`ReportedArePublished` excludes the first two, `CommittedCanFinish` the third;
`CopiesAreKept` and `PublishedOnce` hold in every history.

### RateLimit

The limiter of pairing attempts and of link previews, and that of setup and
recovery secrets, as functions of the clock and the attempts let through.  The
clock does not step back.

### LinkPreviews

The store of each tab (`LinkPreviewStore`), the loads under way, the cache of
the browser and the pages the relay is fetching.  `generation` moves on when
the vault's access is forgotten and marks older loads as stale; it does not
move on with the connection.  `via` names the connection whose fetcher a load
called.  `cache.get`, the call of the relay and `cache.put` are steps of their
own; IndexedDB runs what one tab asks of it in the order asked, so a clear
comes after the writes begun before it (`InTurn`, `Wipe`).  A lost answer
leaves the relay fetching.  `tried`, `told` and `wiped` are history.  What a
page contains and which addresses may be fetched are outcomes (`Outcomes`).
Windows: `late` (a request of the former connection fails after the next one is
set: the URL is deferred though a connection is there, and the former relay's
`link_previews_disabled` stops the new one, `linkPreviews.svelte.ts:147`) and
`elsewhere` (access is forgotten while another tab is connected or has asked
its connection: it hears of it after the cache was cleared and disconnects
without clearing, `AuthVaultGate.svelte:64`, and a load that had called the
relay before writes its preview to the cache, against "are cleared when local
vault access is forgotten", `THREAT_MODEL.md:276`).  `ForgottenIsGone` excludes
`elsewhere`, the clause of `RequestsTracked` about what waits for a connection
excludes `late`, and the rest holds in every history.

## Runs

The component modules are instantiated by few `MC` modules.  `MCRelay`,
`MCAccess` and `MCSyncScenes` hold two instances of one module each, with
different constants: the variable `scene` (or `room`) is chosen with the
initial state and never changes, so a run explores both.  `MCParts` does the
same with the ten smaller modules: `part` chooses one, which plays on the
variables `x1`, `x2`, ...; the parts share nothing.

| Run | Module, configuration | Shows |
|---|---|---|
| `relay_protocol` | `MCRelay`, `MCRelay` | the record store's invariants, step properties and the refinement of `Vault`; expiry of bundles, quota |
| `replica_pages` | `MCReplica`, `MCReplicaPages` | what is acknowledged is applied, listed bytes are stored, the device catches up |
| `access_lifecycle` | `MCAccess`, `MCAccess` | lineage, ids, tokens, repeatable consume, recovery, limits |
| `sync_writes` | `MCSyncScenes`, `MCSyncScenes` | what is unresolved stays stored, what was refused is never carried out, a device never conflicts with itself, handoffs with two tabs |
| `sync_settles` | `MCSync`, `MCSyncSettles` | every stored mutation is settled |
| `compound_commits` | `MCCompound`, `MCCompound` | a compound commit is repeated exactly, never dropped while its outcome is open, and gives up neither edits nor bytes the relay does not have |
| `edits_kept` | `MCEdits`, `MCEdits` | no saved edit is lost, no other device's edit overwritten |
| `parts` | `MCParts`, `MCParts` | ten parts, see their modules |
| `replica_interrupted`, `sync_lost`, `compound_tabs`, `edits_listed` | | disagreements of documents with the code, see below |

Bounds and why they are enough:

- `relay_protocol`, scene `protocol`: one note, two attachments, two writers,
  three mutation ids and thirteen requests, picked so that every base revision
  they can meet has one: two bundles over the same attachments, deletion of the
  note with 0, 1 and 2 live attachments, its return, and the deletion of one
  attachment before and after it exists.  Two receipts at most and a receipt
  lifetime of one tick make every receipt prunable between two sends.  One
  handler in flight is enough: handlers touch shared state in one transaction
  only, and what may come between `Begin` and it (revocation, cleanup, restart,
  the clock) needs no second handler; several handlers in flight commute until
  their transactions. Scene `stages`: a read-only credential, two limits of
  which the second is below what the first admits, three ticks with a stage
  lifetime of two and a bundle lifetime of three, so a renewal is once cut by
  the bundle's lifetime.
- `replica_pages`: two notes, one attachment, a page of two rows, so that the
  feed takes several pages and rows move between them; one stop (reload or
  unreachable relay) at any step.  One stop is enough to reach every durable
  prefix of a page; a second one would start again from the same kind of state.
- `sync_writes`, scene `alone`: two drafts, so that a stored mutation may or may
  not be the note being pushed; three mutation ids (the mutation, the one after
  it and one more for a rebase), two credentials, two faults, and another device
  that writes the note once, before or after this one.  Scene `together`: two
  tabs, one draft and no faults: closing, handoff and conflict already put any
  step of one tab between two steps of the other.  `sync_settles` has one draft
  (fingerprints do not matter to it) and no limit on handlers in flight that any
  state reaches, since a full relay would starve a tab only because of the
  bound.  `sync_lost` adds one fault to two tabs.
- `access_lifecycle`, `roomy`: three devices, so that an approval tree of depth two is
  revoked at its root; two pairings, three tokens, one service, two handlers in
  flight.  `tight`: fewer places than requesters.
- `compound_commits`: one tab, two drafts with an attachment each, two seals,
  three mutation ids and one stop.  `FewFaults` leaves out states that combine
  a loss with expired stages, or a replaced credential with a write of the
  other device: each of these alone already takes every branch of the
  recovery.  `compound_tabs` has two tabs, one attachment and no faults.
- `edits_kept`: two changes here and one elsewhere, one fault; `MaxEvents`
  bounds changes, faults and open tabs together to four.  With two tabs,
  `Reduced` allows one operation, one push and, after the second change, one
  pass at a time: more operations of a tab only wait for each other.  `Asked`
  stops exploring a history once it is one neither property speaks of: windows
  are never forgotten, so whatever follows satisfies both.  `edits_listed`
  explores all.
- `parts`: two writers (two epochs) of the bytes and three random draws, or two
  and a fault (`BytesBound`), so that a record is made, replaced and deleted;
  two imports and one fault; three tabs that receive a note with two
  attachments; two pairing requests, two faults; four processes of which two
  die, the least for a recovery lock that is abandoned and taken over while a
  third observes; three clips, two logins and two faults; three sources over a
  window of two ticks, five ticks, limits of one and two; two tabs with two
  sessions, two operations in each, one signal and one fault; two shares, two
  vaults and two changes of vault; one tab with two links, so that one waits for
  the slot of the other, and two tabs with the same link, over one slot, one
  place at the relay, one redirect, two connections, one clear and one fault.
- Device ids, pairing ids, service ids, tokens, credentials, seals, tabs and
  processes are symmetric where the runs say so (nothing orders them), and
  those runs check safety only.

`MaxTime`, `MaxInFlight` and `MaxStops` bound exploration only; the first two
appear in guards of `Tick` and `Begin` and nowhere else, the third in `Reload`
and `Unreachable` of `Replica` and in the faults of `Sync` and `Compound`.  `Drawable` bounds
the mutation ids a device may draw.  In the smaller modules `MaxFaults`,
`MaxEvents`, `MaxEdits`, `MaxForeign`, `MaxDraws`, `MaxBatches`, `MaxClaims`,
`MaxDeaths`, `MaxSignals` and `MaxChanges` do the same.

Deadlock is checked in the runs of `Relay`, `Replica`, `Access` and `Sync`: a
request may always begin or a cleanup happen.  In `compound_commits`,
`compound_tabs`, `edits_kept`, `edits_listed` and `parts` the users' changes and faults are
finite and nothing runs on its own, so a behaviour may end.

### Fairness

Two properties need it.  For `CatchesUp`, `ReplicaSpec` has weak fairness of the device's own
steps.  `noteStore` calls `sync()` every 15 seconds and when the page becomes
visible, and a pass that meets no error goes on by itself.  The relay's actions
have no fairness.  `MaxStops` makes interruptions finite, so the property says
that no page, however interrupted, blocks the ones after it; with interruptions
for ever nothing could be promised.

For `Settles`, `SyncFairness` has weak fairness of each tab's steps and of its
deadline (the page syncs every 15 seconds and a request is aborted after 30),
weak fairness of the relay's answer to a request it received, and strong
fairness of `Reload`: a page whose credential was replaced says so and stays on
the screen until it is reloaded, while its failing passes go on.  The property
lets off a device that has no live credential and, as a bound, a rebase for
which the instance has no mutation id left.

### Disagreements

`replica_interrupted` checks the sentence of `docs/architecture.md:46`: a pull
saves everything durably before acknowledging, "so an interrupted apply simply
repeats".  It does not always: the bytes of a new attachment are stored before
the note that lists it (`saveRemote`).  If the tab is reloaded between the two
and another device deletes the attachment meanwhile, the page that is fetched
again has its tombstone; no note in the list has the attachment, so the loop
skips the tombstone, saves the note without it and acknowledges both.  The bytes
the interrupted apply stored stay in IndexedDB.

`sync_lost` checks the comment of `packages/client/src/sync.ts:987`: "Network,
parse, and server failures remain pending."  With two tabs they may not.  Both
tabs read that no mutation of the note is stored; one stores and sends its own
and the answer is lost; the other stores its mutation over it, unconditionally.
The first mutation, whose outcome is unknown, is gone.  If it was carried out,
the second one conflicts with a write of its own device, and the user gets a
conflict copy.  `sync_writes` shows that one tab never does this
(`AloneUnresolvedRemain`, `AloneConflictsAreForeign`), and that the
handoff operations, which compare before they write, do not either.

`compound_tabs` and `edits_listed` check `README.md:39`: "Edits are saved in
the browser first and sync when the server is reachable.  Conflicting edits
become a visible copy instead of silently overwriting each other."

- Two tabs: the first reads draft d1 of a note with an attachment from the
  outbox, the user saves d2, the second begins the compound intent for d2.
  `beginCompoundUploadIntent` of the first keeps the intent it finds, the
  bundle it commits has d1, and `finishCompoundCommit`
  (`noteStore.svelte.ts:1165`) completes the outbox row of the intent, d2.
  The relay has d1 and nothing is left to send.
- One tab, no fault: `performSync` lists the outbox once
  (`noteStore.svelte.ts:1960`) and pushes the listed values, each with the
  base revision of the moment.  A newer version of the note pushed by its own
  task in between is accepted; the listed, older version then goes over it and
  is accepted too, since its base is the revision of the newer one.  The next
  pull puts the older version over the row.

The windows of the modules above were found the same way: each is a history in
which the property fails without its antecedent.  They are told there and have
no run of their own.  Four of them contradict a document of the repository as
well: `collision` of `Import` the comment of `importCollisions.ts:19`, `sweep` of
`ConfigLock` `docs/architecture.md:105`, `expired` and `tampered` of `Clip`
`docs/architecture.md:115`, and `elsewhere` of `LinkPreviews`
`THREAT_MODEL.md:276`.

## Proofs

Each theorem holds for every value of the constants that satisfies the named
assumptions.  `RelayProofs` also proves the refinement; the others prove invariants
and action properties of one component each.

`RelayProofs` (from `KeysAssumption`, `RequestsAssumption` and
`SettingsAssumption`):

- `TypeCorrect`: `TypeOK` is inductive with `Bounded`, that every revision is
  at most the highest.  In particular a read-only credential never has a write
  in flight.
- `UniqueRevisions`: inductive with `TypeOK`.  The argument is about numbering:
  the highest revision bounds all rows, a cascade gives ranks 1..n above the
  note's new revision, a bundle ranks 1..n above the highest and the note the
  next one, and ranks in a finite set of naturals are distinct.
- `LiveAttachmentsHaveNotes`: a note tombstone takes every live attachment with
  it, a bundle makes its note live, and no ordinary put makes an attachment
  live.
- `AnswersAreStable`: while a receipt exists it gives the answer (`Replay`).
  `Settled` says what refuses the request once the receipt was pruned: the row
  of a note is newer than the base, that of an attachment is a tombstone whose
  revision a redundant delete repeats.
- `BundlesAreWhole`: inductive as `BundlesKept`: an attachment of an answered
  bundle has the revision that its rank in the bundle gives it, or is a newer
  tombstone; rows are never removed and no write revives an attachment.
- `OnlyWritersWrite`: an action property; every step that changes a row or
  gives an answer takes a handler out of flight whose credential is live and
  may write at that moment.
- `StagesAlwaysAgree`: inductive with `StagesAged`, that no stage is from the
  future, which bounds the expiry a new stage gives to the others.
- `ReceiptsAreRetained`: receipts of one mutation are one, so the order in which
  `Cleanup` prunes is total; by counting, those kept by the limit are the
  `MaxReceipts` last ones.  A redundant delete gives its receipt the revision of
  the old tombstone, so a receipt made by the same step may come before the ones
  dropped for it: `ReceiptsRetained` compares positions with older receipts only.
- `RelayImplementsVault`: the initial states agree, a put of a note, its cascade
  and a bundle are one step of `Vault` each, a deletion of an attachment
  another, and everything else leaves the vault as it is.

`ReplicaProofs` (also from `ReplicaAssumption`, `OwnershipAssumption` and
`AbsenceAssumption`), three theorems, each on top of the one before:

- `BasesStayCurrent`, by the invariant `Followed`.  The difficulty is that the
  relay goes on while a page is applied.  `FeedIsWhole`: between the cursor and
  the cursor of the page nothing is at the relay but the rows of the page, and a
  row that changed since is above.  `RecordsOwned` carries the ownership of
  attachments from requests to rows.
- `ListedBytesStayStored`, by `BytesInv`.  `Downloaded` accounts for every
  attachment that a note of the page lists: downloaded, or a tombstone, or still
  to come; `Unlisted` says that what a pass purges is listed by no note.
- `AcknowledgedStaysApplied`, by `AppliedInv`.  `PageApplied` says of each note of
  the page that it is saved, removed or still to be, and quarantined or
  released; at the acknowledgement nothing is left to do.

`SyncProofs` (also from `SyncAssumption`), any number of tabs, credentials,
drafts, losses and restarts, with other devices writing.  `SyncInv` has the
types, the relay's `AnswerInv` and, step by step:

- `IdsAreDrawnOnce`: a mutation id stands for one request, whatever tab holds it
  and wherever copies of it are; `BasesBehind`: no base is above the note's
  revision; `TrafficIsOwn`: what the relay works on or has a receipt of under an
  id of this device, this device sent; `ToldAsAnswered`: what a tab was told is
  the relay's answer to the mutation it works on.
- `RefusedAreStale`: a refused mutation has no receipt and a base below the
  note's revision.  As revisions only grow and the id stands for no other
  request, no copy of it can be accepted later.  `RefusedStayUnapplied` follows.
- `PushesReturnTheirNote`: from `ToldAsAnswered` at the step that forgets the
  mutation.  `PushReturns` speaks of `answered`, since a receipt may be pruned.
- `HandoffsAreExact`: an action property, from `OutcomesAtHand`, that a tab
  which was told of a refusal or a success has it on record.
- `AloneKeepUnresolved`: what `sync_lost` refutes for two tabs holds for one tab
  at work (`AloneSpec`).  `Aligned` says that this tab works on the mutation that
  is stored and stores one only over none; so what it deletes was settled.

`CompoundProofs` (also from `CompoundAssumption`), any number of tabs, drafts,
attachments, credentials and losses, with other devices writing.
`CompoundInv` has the types, the relay's `AnswerInv` and `CoreInv`:

- `ResendsAreExact`: a root lives in storage, in the hands of every tab that
  read it and in what was sent, and each may be older than another.
  `HeadsAgree` says that all of one mutation have one base, draft and set of
  attachments; `SealedOnce` that an attachment of a mutation has one envelope
  wherever one can read it; `SealKept` that a root that has not recorded the
  hash of a sealed attachment still has the payload, so that the next tab
  takes it over instead of sealing again; `RootLeads` that no tab knows of a
  seal the root does not; `FullFinal` and `SentAlready` that what is final is
  full and was asked; `PayloadsOwned` and `FreshInstall` that a new root meets
  nothing of an earlier one; `AskedKinds` what a request may look like.
- `FinalizingIsKept`: for one tab at work (`AloneSpec`), since two are free to
  hand one root over between them.  `InHand` says at each place of the code
  what the tab's copy and the stored root have in common, `CommittedTold` that a
  stored receipt was told.
- `ConfirmedIsStored`: for any number of tabs, by `HandlesStored`.  `Published`
  says of a handle, a stored receipt and an answer in a tab's hands that the
  relay has each attachment, or its tombstone.
- `LetGoIsKept`: for one tab at work; `compound_tabs` refutes it for two.  The
  outbox names a draft by its token, the upload intent by the draft it was begun
  for, and the root by the draft it publishes, and the three are written in
  different transactions.  `DraftInv` has what keeps them apart: `Dated`, that an
  edit made since the row was read is in neither intent nor root; `Aligned`,
  that an intent of a draft that may still be pushed is that of its bundle;
  `StoreAligned`, that a root has its intent and a receipt its handle; and what a
  tab knows at each place of its row (`RowKnown`), of storage (`StoreKnown`) and of
  the outcome (`OutcomeKnown`).

`AccessProofs` (from `AccessAssumption`):

- `AccessTypes`: a pending pairing must be known to have a device and a token
  before a consumed one can be admitted, so the invariant proved is `Typed`,
  which adds `RowsComplete` to `AccessTypeOK`.
- `LineageIsKept`: the step that matters is the revocation of a device.  Its
  subtree is shown to be closed under approval and to contain the device; a
  device left active therefore has an approver outside the subtree.
- `IdsAreReserved`: the sweep only removes reservations, and each action that
  creates a device or a reservation looks at the other table.
- `TokensStayUnique`: `TokensApart` speaks of the rows of the three tables at
  once and adds that every token in use was drawn; a pairing's token moves to
  its device in the step that ends the pairing.
- `CountsAreKept`: a device created by a pairing was counted when the pairing
  was requested, so the sum of devices and pending pairings is bounded.
- `RecoveryAloneReopens`: an action property; with no active device every other
  action that would create one needs an approver or an open instance.
- `ConsumesAreRepeatable`: `Remembered` says that a consumed pairing stays gone,
  its device known and its token drawn, so its receipt is written once.

`PartsProofs` has five parts, each for itself:

- `OneHolder` (from `NoProcess \notin Processes`): until a `sweep`, a holder's
  lock file is its own, for any number of processes and deaths.
  `HoldersHaveTheLock` alone is not inductive, since a cleanup may be on its way
  to an unlink.  `LockInv` adds that whoever cleans up has the recovery lock,
  that whoever was read and found stale is dead, and that at the unlink itself
  the lock is still that of the dead process: the recheck under the recovery
  lock makes it so, and only another cleanup could change it.
- `ReceivedNotesHaveBytes` (for attachments numbered 1..n): a note received in
  any number of tabs has its bytes.  `TokensAreOnce`: the claim in force has the
  last token. `StagedAreThere`: what the holder of the claim has staged is
  there, since a tab with an older token is refused as stale and discards only
  its own bytes. `NoteIsSealed`: once the note exists its bytes have the last
  token, and the tab with that token is past discarding.
- `SharesAlwaysArrive` (from `NoVault \notin Vaults`): the three clauses of
  `SharesArrive`, each for its histories.  `KeptOrSaved` holds in all: a share
  that no longer waits is a note, since a tab removes only what it has saved.
  Until a loop met a `switch`, a note is of the vault its share is bound to; and
  while it was not taken `twice` either, `OneVaultEach`: no two vaults have it or
  have a tab that lists it.
- `UploadsAlwaysSurvive` and `EpochsAndDeletionsHold` (for epochs numbered from 1):
  `OnePurpose`, bytes wait for upload or are retained and never both;
  `DoomedAreRetained`, behind a queued deletion of their generation they are
  retained and no pull of them is still to be confirmed, so no confirmation drops
  what a failed deletion has to give back; `RemovedAreGone`, a tab that has an
  answer to its deletion knows what the relay has.
- `ClipsAlwaysArrive`: the four invariants of `Clip` at once, two of them in every
  history.  `ClipInv` says where a command may be
  with the intent and the bundle (`PlacesHold`) and what is known of the clip it
  adds (`OwnHolds`): until its last attempt its ID was never used.
  `BundleIsIntended` and `BundleIsListed`: the bundle is that of the intent, and
  what the relay has published of it is in the note and, once the intent is
  settled, in the cache.  `IdsAreOfOneCopy`: of the IDs a copy had, none but the
  intent's is in the note, so a copy that gets a new ID is not published twice.

`PairingProofs`:

- `PairingsAlwaysAgree` (from requests numbered from 1): `ActiveIsHeld` and
  `PendingIsNotWithdrawn`, with the antecedents they have in `Pairing`.  What
  makes them inductive is `RestoresOfDevice`: a tab that pairs keeps the key and
  the session from before to put them back, and both must be of the same device
  id, with the session given up; `RequestsInOrder`, that a device id has a new
  request only when all its others are gone, makes them so until the window
  `expired` is met.  `NotYetInstalled` and `NotYetConsumed` say that until a
  request is consumed no other tab works on it, so whatever is put back or
  withdrawn was never activated.
- `FinalizedIsAlwaysActive` (from the same): `FinalizedIsActive`, in every history.
- `OpenIsAlwaysStored`: while no window was met, a tab at rest has the stored
  session open or nothing; and until `restart` or `late`, the notes it has open
  are those of its session.  `Told` makes it inductive: a tab that
  has, or is about to have, a session that is not stored will hear of it, since
  someone is leaving, a signal waits in its inbox, or its handler has seen the
  session and will end it.  `LivesIn` and `VaultHolds`: an operation that is not
  stale is the only one of its tab, and the notes are open for the session in
  memory but while an operation opens or closes them or the session is left.

`ImportProofs` (from `Counted`: the number of imports is a natural).  `ImportInv`
has parts for every history and parts for those in which certain windows were
not met, so the theorems have no hypothesis on windows either:

- `ImportsKeepTheirBytes`: `ImportedHaveBytes` and `RecoverySucceeds`.  In every
  history, the imports that may still commit (`Live`) have the journal
  (`LiveIsJournaled`), so there is one; and none is live once a recovery has
  decided on its batch (`RecoveryFences`), since the recovery took the journal and
  fenced the receipt.  Until `collision`, the id of a live import has no record
  (`NotesAbsent`).  Until `late` and `epoch` too, the bytes are those of the live
  import, whose epoch is the highest of those about to stage (`StagedBytes`), and
  what a failed import or a rollback discards is never of an imported note
  (`RecoverySees`).  Until `deletion` as well, a note with a claim is there.
- `ImportsReplaceNothing`: `ExistingAreKept`, from `NotesAbsent`.

The assumptions are what the code makes true.  `OwnershipAssumption`: an
attachment id is drawn for one note and its bytes are encrypted with that note's
id in the context (`sync.ts:1609`), and a conflict copy gets new ids
(`conflictCopy.ts`), so no two notes claim one.  `AbsenceAssumption` and the
clauses with `Null` in `AccessAssumption` and `SyncAssumption` say that an absent
row, receipt or mutation is told from a present one.  Bounds are guards and not
assumptions: a tab of `Sync` writes only while `Requests` and `Drawable` have a
mutation for it (`CanWrite`), and one of `Compound` sends what `Requests` has.
That an edit is at the relay is read from `answered`, since a receipt may be
pruned.

Not proved, only checked:

- liveness (`CatchesUp`, `Settles`), which is out of the prover's reach;
- `QuotaHolds`: the usage is a sum over the rows, a fold, and what a fold over a
  set does when one element changes needs induction over data;
- `AloneConflictsAreForeign`: it holds where receipts are not pruned, as in its
  run; a mutation that is resent after its receipt is gone is refused for its
  own first copy;
- what `compound_commits` checks with one tab holds in the theorems for one tab at
  work, not for several: `FinalizingRemains` is not claimed for them and
  `EditsAreDelivered` is refuted;
- `LimitsHold`: the limiter filters a sequence of attempts, a recursive function,
  and what it leaves takes induction over data;
- `Edits` and `LinkPreviews`.

## Not modelled

- Encryption and formats: envelopes, texts and payloads are values.  The
  upgrade of the relay's schema is one-time SQL.
- `restoreForUndo`, deletion by the user and hydration of previews in
  `attachmentStorage.ts`; undo and ordering in `noteStore.svelte.ts`.
- Quick-send links, readers of Keep and vault archives, export, the markdown
  and git adapters, the user interface, HTTP parsing, deployment scripts: data
  conversion or presentation.
- Storage failures of SQLite are modelled only as a stop between two
  transactions; those of IndexedDB also as writes that fail, where the code
  handles them (`Edits`, `Import`, `Received`).
