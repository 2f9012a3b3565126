------------------------------- MODULE Relay -------------------------------
(***************************************************************************)
(* The record store of the relay, apps/server/src/index.mjs: notes and     *)
(* attachments with revisions, mutation receipts, attachment stages and    *)
(* the storage quota.                                                      *)
(*                                                                         *)
(* The relay is one Node.js thread over one SQLite file.  A write handler  *)
(* authenticates its credential, awaits the request body, and then runs    *)
(* one BEGIN IMMEDIATE transaction without yielding.  So a handler is two  *)
(* steps here: Begin, which puts it in flight, and the transaction that    *)
(* answers it.  Revocations, restarts, the cleanup timer and the           *)
(* transactions of other handlers interleave between the two.              *)
(***************************************************************************)
EXTENDS Integers, FiniteSets, FiniteSetsExt

CONSTANTS
  Notes,          \* ids of note records
  Attachments,    \* ids of attachment records: naturals, for SQL's ORDER BY id
  Mutations,      \* mutation ids: naturals, ordered for the same reason
  Credentials,    \* hashes of device and service credentials
  ReadOnly,       \* those whose scope is read-only
  Envelopes,      \* encrypted payloads
  Size,           \* their length in bytes
  NullSize,       \* length of the text 'null' a cascaded tombstone keeps
  Requests,       \* the write requests clients may send, any number of times
  Limits,         \* quota settings an operator may start the relay with
  StageTtl, BundleLife, ReceiptTtl, MaxReceipts, MaxCompound,
  Null,           \* SQL NULL: no owning note, no owner, the 'null' envelope
  MaxTime,        \* bound on the clock
  MaxInFlight     \* bound on handlers awaiting a body at once

Ids == Notes \cup Attachments

NoBase == -1      \* baseRevision left out of the request

PutRequest ==
  [op : {"put"}, mutation : Mutations, id : Ids, base : Nat \cup {NoBase},
   deleted : BOOLEAN, note : Notes \cup {Null}, envelope : Envelopes]

StageRequest ==
  [op : {"stage"}, mutation : Mutations, id : Attachments, note : Notes,
   envelope : Envelopes]

\* newAttachments: one entry per attachment, its stage hash standing for the
\* staged envelope.
Manifest == [id : Attachments, envelope : Envelopes]

BundleRequest ==
  [op : {"bundle"}, mutation : Mutations, id : Notes, base : Nat,
   envelope : Envelopes, attachments : SUBSET Manifest]

Request == PutRequest \cup StageRequest \cup BundleRequest

BundleIds(q) == {x.id : x \in q.attachments}

\* What the handlers' body checks leave: an attachment names its note and a
\* note names none; a bundle has attachments, each once.
WellFormed(q) ==
  /\ q.op = "put" => (q.id \in Attachments <=> q.note # Null)
  /\ q.op = "bundle" =>
       /\ q.attachments # {}
       /\ \A x, y \in q.attachments : x.id = y.id => x = y

Limit == [records : Nat, attachments : Nat, bytes : Nat]

ASSUME KeysAssumption ==
  /\ IsFiniteSet(Notes) /\ IsFiniteSet(Attachments)
  /\ Attachments \subseteq Nat /\ Mutations \subseteq Nat
  /\ Notes \cap Attachments = {}
  /\ Null \notin Notes

ASSUME RequestsAssumption ==
  \A q \in Requests : q \in Request /\ WellFormed(q)

ASSUME SettingsAssumption ==
  /\ ReadOnly \subseteq Credentials
  /\ Limits # {} /\ Limits \subseteq Limit
  /\ Size \in [Envelopes -> Nat] /\ NullSize \in Nat
  /\ Null \notin Envelopes /\ Null \notin Credentials
  /\ StageTtl \in Nat \ {0} /\ BundleLife \in Nat \ {0}
  /\ ReceiptTtl \in Nat /\ MaxReceipts \in Nat \ {0} /\ MaxCompound \in Nat
  /\ MaxTime \in Nat /\ MaxInFlight \in Nat

VARIABLES
  records,    \* table records; revision 0 for a row that does not exist
  receipts,   \* table mutations
  stages,     \* table attachment_stages
  live,       \* credentials whose revoked_at is NULL
  limits,     \* quota settings of the running process
  inflight,   \* <<credential, request>> authenticated, body awaited
  now,        \* Date.now()
  answered    \* history: [request, rev] of every 200 to a put or a bundle

vars == <<records, receipts, stages, live, limits, inflight, now, answered>>

Record ==
  [rev : Nat, deleted : BOOLEAN, note : Notes \cup {Null},
   envelope : Envelopes \cup {Null}]

Receipt ==
  [request : Requests, rev : Nat, owner : Credentials \cup {Null},
   created : Nat]

Stage ==
  [bundle : Mutations, id : Attachments, note : Notes, envelope : Envelopes,
   owner : Credentials, created : Nat, expires : Nat]

TypeOK ==
  /\ records \in [Ids -> Record]
  /\ receipts \subseteq Receipt
  /\ stages \subseteq Stage
  /\ live \subseteq Credentials
  /\ limits \in Limits
  /\ inflight \subseteq (Credentials \ ReadOnly) \X Requests
  /\ now \in Nat
  /\ answered \subseteq [request : Requests, rev : Nat]

-----------------------------------------------------------------------------
(* Queries *)

Exists(k) == records[k].rev > 0
Live(k)   == Exists(k) /\ ~records[k].deleted

MaxRevision == Max({records[k].rev : k \in Ids} \cup {0})
NextRevision == MaxRevision + 1

\* DELETE FROM attachment_stages WHERE expires_at <= now
FreshStages == {s \in stages : s.expires > now}

\* The stages of one bundle that belong to one credential.
BundleOf(S, c, m) == {s \in S : s.bundle = m /\ s.owner = c}

Prior(m) == {r \in receipts : r.request.mutation = m}

\* Position of id a in SELECT ... ORDER BY id over S, from 1.
Rank(a, S) == Cardinality({b \in S : b <= a})

\* ORDER BY created_at, revision, id
Older(r, s) ==
  \/ r.created < s.created
  \/ r.created = s.created /\ r.rev < s.rev
  \/ r.created = s.created /\ r.rev = s.rev
       /\ r.request.mutation < s.request.mutation

\* pruneMutationReceipts: drop the receipts past their TTL, then the oldest
\* beyond the retained limit.
PrunedOneLate(reserved) ==   \* bug: the slot of the new receipt is not reserved
  LET fresh  == {r \in receipts : r.created > now - ReceiptTtl}
      excess == Cardinality(fresh) - MaxReceipts
  IN  {r \in fresh : Cardinality({s \in fresh : Older(s, r)}) >= excess}

Pruned(reserved) ==
  LET fresh  == {r \in receipts : r.created > now - ReceiptTtl}
      excess == Cardinality(fresh) - (MaxReceipts - reserved)
  IN  {r \in fresh : Cardinality({s \in fresh : Older(s, r)}) >= excess}

WithReceipt(q, rev, owner) ==
  Pruned(1) \cup {[request |-> q, rev |-> rev, owner |-> owner, created |-> now]}

-----------------------------------------------------------------------------
(* Storage quota: records and stages share every budget *)

SizeOf(e) == IF e = Null THEN NullSize ELSE Size[e]

Usage(recs, S) ==
  LET rows == {k \in Ids : recs[k].rev > 0}
      n    == Cardinality(S)
  IN  [records     |-> Cardinality(rows) + n,
       attachments |-> Cardinality(rows \cap Attachments) + n,
       bytes       |-> MapThenSumSet(LAMBDA k : SizeOf(recs[k].envelope), rows)
                         + MapThenSumSet(LAMBDA s : Size[s.envelope], S)]

\* A write is refused only when it grows a budget beyond its limit.
WithinQuotaOfRecords(delta) ==   \* bug: pending stages are not counted
  \A b \in DOMAIN delta :
    Usage(records, {})[b] + delta[b] <= limits[b] \/ delta[b] <= 0

WithinQuota(delta) ==
  LET usage == Usage(records, FreshStages)
  IN  \A b \in DOMAIN delta :
        usage[b] + delta[b] <= limits[b] \/ delta[b] <= 0

-----------------------------------------------------------------------------
(* PUT /notes/:id and /attachments/:id *)

\* The live attachments a note tombstone takes with it.
CascadeNone(q) == {}   \* bug: attachments outlive their note

Cascade(q) ==
  IF q.id \in Notes /\ q.deleted
  THEN {a \in Attachments : Live(a) /\ records[a].note = q.id}
  ELSE {}

PutDelta(q) ==
  LET isNew == IF Exists(q.id) THEN 0 ELSE 1
      freed == MapThenSumSet(LAMBDA a : SizeOf(records[a].envelope), Cascade(q))
      old   == IF Exists(q.id) THEN SizeOf(records[q.id].envelope) ELSE 0
  IN  [records     |-> isNew,
       attachments |-> IF q.id \in Attachments THEN isNew ELSE 0,
       bytes       |-> Size[q.envelope] - old - freed
                         + Cardinality(Cascade(q)) * NullSize]

\* Deleting a tombstoned attachment again succeeds whatever the base.
PutIsRedundant(q) ==
  /\ Prior(q.mutation) = {}
  /\ q.base # NoBase
  /\ q.id \in Attachments /\ q.deleted
  /\ Exists(q.id) /\ records[q.id].deleted
  /\ records[q.id].note = q.note

\* An attachment record is created live by a bundle only and never replaced:
\* an ordinary put can but tombstone it.
PutIsAcceptedUnbased(q) ==   \* bug: the base revision is not compared
  /\ Prior(q.mutation) = {}
  /\ q.id \in Attachments =>
       /\ q.deleted
       /\ Exists(q.id) => Live(q.id) /\ records[q.id].note = q.note
  /\ WithinQuota(PutDelta(q))

PutIsAccepted(q) ==
  /\ Prior(q.mutation) = {}
  /\ q.base = records[q.id].rev
  /\ q.id \in Attachments =>
       /\ q.deleted
       /\ Exists(q.id) => Live(q.id) /\ records[q.id].note = q.note
  /\ WithinQuota(PutDelta(q))

-----------------------------------------------------------------------------
(* PUT /note-mutations/:bundle/attachments/:id *)

StageExpiry(createdAt) ==
  IF now + StageTtl < createdAt + BundleLife
  THEN now + StageTtl ELSE createdAt + BundleLife

StageHeld(q) ==
  {s \in FreshStages : s.bundle = q.mutation /\ s.id = q.id}

StageIsKnown(c, q) ==
  /\ Prior(q.mutation) = {}
  /\ \E s \in StageHeld(q) :
       s.owner = c /\ s.note = q.note /\ s.envelope = q.envelope

StageIsAcceptedPerBundle(c, q) ==   \* bug: ids are unique in their bundle only
  /\ Prior(q.mutation) = {}
  /\ ~Exists(q.id)
  /\ StageHeld(q) = {}
  /\ Cardinality(BundleOf(FreshStages, c, q.mutation)) < MaxCompound
  /\ WithinQuota([records |-> 1, attachments |-> 1, bytes |-> Size[q.envelope]])

StageIsAccepted(c, q) ==
  /\ Prior(q.mutation) = {}
  /\ ~Exists(q.id)
  /\ \A s \in FreshStages : s.id # q.id
  /\ Cardinality(BundleOf(FreshStages, c, q.mutation)) < MaxCompound
  /\ WithinQuota([records |-> 1, attachments |-> 1, bytes |-> Size[q.envelope]])

\* Every stage of the bundle gets the expiry of the one just staged.
RefreshedNone(S, c, m, expiry) == S   \* bug: each stage keeps its own expiry

Refreshed(S, c, m, expiry) ==
  {IF s \in BundleOf(S, c, m) THEN [s EXCEPT !.expires = expiry] ELSE s : s \in S}

-----------------------------------------------------------------------------
(* PUT /notes/:id/compound *)

BundleIsStale(q) ==
  /\ Prior(q.mutation) = {}
  /\ q.base # records[q.id].rev

BundleIsStagedInPart(c, q) ==   \* bug: a missing stage is not noticed
  LET staged == BundleOf(FreshStages, c, q.mutation)
  IN  /\ Prior(q.mutation) = {}
      /\ q.base = records[q.id].rev
      /\ {[id |-> s.id, envelope |-> s.envelope] : s \in staged} \subseteq q.attachments
      /\ \A s \in staged : s.note = q.id

BundleIsStaged(c, q) ==
  LET staged == BundleOf(FreshStages, c, q.mutation)
  IN  /\ Prior(q.mutation) = {}
      /\ q.base = records[q.id].rev
      /\ {[id |-> s.id, envelope |-> s.envelope] : s \in staged} = q.attachments
      /\ \A s \in staged : s.note = q.id

BundleCollides(c, q) ==
  /\ BundleIsStaged(c, q)
  /\ \E a \in BundleIds(q) : Exists(a)

BundleDelta(q) ==
  [records     |-> IF Exists(q.id) THEN 0 ELSE 1,
   attachments |-> 0,     \* each stage becomes the record it was counted for
   bytes       |-> Size[q.envelope]
                     - IF Exists(q.id) THEN SizeOf(records[q.id].envelope) ELSE 0]

BundleIsAccepted(c, q) ==
  /\ BundleIsStaged(c, q)
  /\ \A a \in BundleIds(q) : ~Exists(a)
  /\ WithinQuota(BundleDelta(q))

-----------------------------------------------------------------------------
(* Handlers *)

\* requireCredential and the read-only check, then the await of the body.
Begin(c, q) ==
  /\ c \in live \ ReadOnly
  /\ Cardinality(inflight) < MaxInFlight
  /\ inflight' = inflight \cup {<<c, q>>}
  /\ UNCHANGED <<records, receipts, stages, live, limits, now, answered>>

\* The transaction of a handler in flight; credentialByHash again, under the
\* database lock.
AuthorizedOnce(c, q) == <<c, q>> \in inflight   \* bug: not re-read after the await

Authorized(c, q) == <<c, q>> \in inflight /\ c \in live

Finish(c, q) ==
  /\ inflight' = inflight \ {<<c, q>>}
  /\ UNCHANGED <<live, limits, now>>

Answer(q, rev) == answered' = answered \cup {[request |-> q, rev |-> rev]}

\* The mutation was committed before: repeat its answer.  A bundle is only
\* repeated to the credential that committed it.
Repeats(c, q) ==
  {r \in Prior(q.mutation) : r.request = q /\ (q.op = "bundle" => r.owner = c)}

Replay(c, q) ==
  /\ Authorized(c, q)
  /\ \E r \in Repeats(c, q) : Answer(q, r.rev)
  /\ stages' = FreshStages
  /\ UNCHANGED <<records, receipts>>
  /\ Finish(c, q)

PutRedundant(c, q) ==
  /\ Authorized(c, q)
  /\ q.op = "put" /\ PutIsRedundant(q)
  /\ receipts' = WithReceipt(q, records[q.id].rev, Null)
  /\ stages' = FreshStages
  /\ Answer(q, records[q.id].rev)
  /\ UNCHANGED records
  /\ Finish(c, q)

\* The row, then one tombstone for each attachment of a deleted note.
PutRecordsShared(q) ==   \* bug: the tombstones share the revision of their note
  [k \in Ids |->
     IF k = q.id
     THEN [rev |-> NextRevision, deleted |-> q.deleted, note |-> q.note,
           envelope |-> q.envelope]
     ELSE IF k \in Cascade(q)
     THEN [rev |-> NextRevision, deleted |-> TRUE, note |-> records[k].note,
           envelope |-> Null]
     ELSE records[k]]

PutRecords(q) ==
  [k \in Ids |->
     IF k = q.id
     THEN [rev |-> NextRevision, deleted |-> q.deleted, note |-> q.note,
           envelope |-> q.envelope]
     ELSE IF k \in Cascade(q)
     THEN [rev |-> NextRevision + Rank(k, Cascade(q)), deleted |-> TRUE,
           note |-> records[k].note, envelope |-> Null]
     ELSE records[k]]

Put(c, q) ==
  /\ Authorized(c, q)
  /\ q.op = "put" /\ PutIsAccepted(q)
  /\ records' = PutRecords(q)
  /\ receipts' = WithReceipt(q, NextRevision, Null)
  /\ stages' = FreshStages
  /\ Answer(q, NextRevision)
  /\ Finish(c, q)

StageRenew(c, q) ==
  /\ Authorized(c, q)
  /\ q.op = "stage" /\ StageIsKnown(c, q)
  /\ LET bundle == BundleOf(FreshStages, c, q.mutation)
     IN  stages' = Refreshed(FreshStages, c, q.mutation,
                             StageExpiry(Min({s.created : s \in bundle})))
  /\ UNCHANGED <<records, receipts, answered>>
  /\ Finish(c, q)

StageAdd(c, q) ==
  /\ Authorized(c, q)
  /\ q.op = "stage" /\ StageIsAccepted(c, q)
  /\ LET bundle == BundleOf(FreshStages, c, q.mutation)
         expiry == StageExpiry(IF bundle = {} THEN now
                               ELSE Min({s.created : s \in bundle}))
     IN  stages' = Refreshed(FreshStages, c, q.mutation, expiry)
                     \cup {[bundle |-> q.mutation, id |-> q.id, note |-> q.note,
                            envelope |-> q.envelope, owner |-> c,
                            created |-> now, expires |-> expiry]}
  /\ UNCHANGED <<records, receipts, answered>>
  /\ Finish(c, q)

\* record_conflict and attachment_id_unavailable commit the removal of the
\* bundle's stages; the client stages again under a new mutation.
BundleDiscard(c, q) ==
  /\ Authorized(c, q)
  /\ q.op = "bundle" /\ (BundleIsStale(q) \/ BundleCollides(c, q))
  /\ stages' = FreshStages \ BundleOf(FreshStages, c, q.mutation)
  /\ UNCHANGED <<records, receipts, answered>>
  /\ Finish(c, q)

\* The attachments take the next revisions in id order, the note the one after.
BundleRecords(c, q) ==
  LET staged == BundleOf(FreshStages, c, q.mutation)
      ids    == {s.id : s \in staged}
  IN  [k \in Ids |->
         IF k = q.id
         THEN [rev |-> NextRevision + Cardinality(ids), deleted |-> FALSE,
               note |-> Null, envelope |-> q.envelope]
         ELSE IF k \in ids
         THEN [rev |-> MaxRevision + Rank(k, ids), deleted |-> FALSE, note |-> q.id,
               envelope |-> (CHOOSE s \in staged : s.id = k).envelope]
         ELSE records[k]]

Bundle(c, q) ==
  /\ Authorized(c, q)
  /\ q.op = "bundle" /\ BundleIsAccepted(c, q)
  /\ records' = BundleRecords(c, q)
  /\ receipts' = WithReceipt(q, BundleRecords(c, q)[q.id].rev, c)
  /\ stages' = FreshStages \ BundleOf(FreshStages, c, q.mutation)
  /\ Answer(q, BundleRecords(c, q)[q.id].rev)
  /\ Finish(c, q)

\* Every other answer rolls back, the removal of expired stages included.
Refuse(c, q) ==
  /\ <<c, q>> \in inflight
  /\ c \in live =>
       /\ Repeats(c, q) = {}
       /\ q.op = "put" => ~PutIsRedundant(q) /\ ~PutIsAccepted(q)
       /\ q.op = "stage" => ~StageIsKnown(c, q) /\ ~StageIsAccepted(c, q)
       /\ q.op = "bundle" => /\ ~BundleIsStale(q) /\ ~BundleCollides(c, q)
                             /\ ~BundleIsAccepted(c, q)
  /\ UNCHANGED <<records, receipts, stages, answered>>
  /\ Finish(c, q)

-----------------------------------------------------------------------------
(* The relay's surroundings *)

\* DELETE of a device with its descendants, of a service credential, or of
\* every device: some credentials get a revoked_at, for good.
Revoke(C) ==
  /\ live' = live \ C
  /\ UNCHANGED <<records, receipts, stages, limits, inflight, now, answered>>

\* cleanupTransientState, on its timer.
Cleanup ==
  /\ stages' = FreshStages
  /\ receipts' = Pruned(0)
  /\ UNCHANGED <<records, live, limits, inflight, now, answered>>

\* The process stops, committed transactions stay, handlers in flight are
\* lost.  The next process may have other limits; it cleans up as it starts.
Restart ==
  /\ inflight' = {}
  /\ limits' \in Limits
  /\ stages' = FreshStages
  /\ receipts' = Pruned(0)
  /\ UNCHANGED <<records, live, now, answered>>

Tick ==
  /\ now < MaxTime
  /\ now' = now + 1
  /\ UNCHANGED <<records, receipts, stages, live, limits, inflight, answered>>

Init ==
  /\ records = [k \in Ids |-> [rev |-> 0, deleted |-> FALSE, note |-> Null,
                               envelope |-> Null]]
  /\ receipts = {}
  /\ stages = {}
  /\ live = Credentials
  /\ limits \in Limits
  /\ inflight = {}
  /\ now = 0
  /\ answered = {}

Handle(c, q) ==
  \/ Replay(c, q)
  \/ PutRedundant(c, q)
  \/ Put(c, q)
  \/ StageRenew(c, q)
  \/ StageAdd(c, q)
  \/ BundleDiscard(c, q)
  \/ Bundle(c, q)
  \/ Refuse(c, q)

Next ==
  \/ \E c \in Credentials, q \in Requests : Begin(c, q) \/ Handle(c, q)
  \/ \E C \in SUBSET Credentials : Revoke(C)
  \/ Cleanup
  \/ Restart
  \/ Tick

Spec == Init /\ [][Next]_vars

-----------------------------------------------------------------------------
(* Safety: invariants *)

\* No two rows share a revision, whatever a cascade or a bundle numbered in one
\* transaction: the changes feed pages by "revision > cursor" (index.mjs:1231).
RevisionsUnique ==
  \A j, k \in Ids : Exists(j) /\ records[j].rev = records[k].rev => j = k

\* A request is answered with one revision however often it is sent, also when
\* its receipt is long pruned and only the base revision or the tombstone is
\* left to recognise it (index.mjs:258, 1305, 1329, 1342).
OneAnswer ==
  \A x, y \in answered : x.request = y.request => x.rev = y.rev

\* No live attachment without its live note, over bundles, cascades, single
\* deletions and notes brought back from a tombstone (index.mjs:1409, 1047).
AttachmentsHaveNotes ==
  \A a \in Attachments :
    Live(a) => records[a].note \in Notes /\ Live(records[a].note)

\* A bundle that was answered is stored whole: each attachment of it has the
\* revision the answer promised, just below the note's, or was deleted since
\* (index.mjs:1045).
BundlesWhole ==
  \A x \in answered : x.request.op = "bundle" =>
    LET q   == x.request
        ids == BundleIds(q)
    IN  /\ records[q.id].rev >= x.rev
        /\ \A m \in q.attachments :
             LET row == records[m.id]
             IN  /\ row.note = q.id
                 /\ \/ row.rev > x.rev /\ row.deleted
                    \/ /\ row.rev = x.rev - Cardinality(ids) + Rank(m.id, ids) - 1
                       /\ row.envelope = m.envelope /\ ~row.deleted

\* An attachment is staged once over all bundles, as the table's primary key asks
\* (migrations.mjs:409), and the stages of a bundle expire in the same instant, so
\* none is left to be finalized without the others; renewing cannot keep them past
\* the bundle's lifetime (index.mjs:824, 841, 873).
StagesAgree ==
  \A s, t \in stages :
    /\ s.id = t.id => s = t
    /\ s.bundle = t.bundle /\ s.owner = t.owner =>
         s.expires = t.expires /\ s.expires <= t.created + BundleLife

-----------------------------------------------------------------------------
(* Safety: steps *)

\* Rows change and receipts appear only in the transaction of a handler whose
\* credential may write and is not revoked at that moment, though it may have
\* been when the handler began (index.mjs:1294).
WritersAreAuthorized ==
  [][records' # records \/ answered' # answered =>
       \E h \in inflight \ inflight' : h[1] \in live \ ReadOnly]_vars

\* A budget over its limit never grows, and none grows over it: the projected
\* change of each write is the change that write makes (storageQuota.mjs:41).
QuotaHolds ==
  [][\A b \in {"records", "attachments", "bytes"} :
       \/ Usage(records', stages')[b] <= limits'[b]
       \/ Usage(records', stages')[b] <= Usage(records, stages)[b]]_vars

\* The receipt table stays within its limit, and a receipt inside its TTL goes
\* only for newer ones that fill the table (index.mjs:258).  The receipt being
\* written is newer than all, though its revision need not be: a redundant
\* delete repeats the revision of the tombstone (index.mjs:1329).
ReceiptsRetained ==
  [][/\ Cardinality(receipts') <= MaxReceipts
     /\ \A r \in receipts \ receipts' :
          \/ r.created <= now - ReceiptTtl
          \/ /\ Cardinality(receipts') = MaxReceipts
             /\ \A s \in receipts' : /\ s.created >= r.created
                                     /\ s \in receipts => ~Older(s, r)]_receipts
=============================================================================
