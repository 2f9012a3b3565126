------------------------------ MODULE Compound ------------------------------
(***************************************************************************)
(* How a browser publishes one note together with new attachments: the     *)
(* durable root, payloads and index of EncryptedSync                       *)
(* (packages/client/src/sync.ts), the upload intent of AttachmentStore and *)
(* the outbox row of noteStore, over the relay's stages and records.       *)
(*                                                                         *)
(* Each storage transaction and each request is a step, so a tab may be    *)
(* closed, and the user may edit, between any two.  The losses of an       *)
(* ordinary push are those of module Sync; here it is answered.            *)
(***************************************************************************)
EXTENDS Relay

CONSTANTS
  Tabs,       \* pages over one storage, each with a pass or a push at work
  Key,        \* the note
  Owners,     \* credentials of this device: naturals, in the order it gets them
  Drafts,     \* versions of the note, by their envelopes; each has its own token
  Lists,      \* the attachments each draft lists
  Seals,      \* envelopes an attachment may be encrypted to
  Drawable,   \* mutation ids this device draws; other devices draw the rest
  MaxStops    \* bound on lost messages and closed tabs

\* What is stored: the outbox row, the upload intent, the pending bundle with the
\* hash of each stage, the handle of a committed one.
Edits == [draft : Drafts, before : SUBSET Attachments]
UploadIntents ==
  [draft : Drafts, uploads : SUBSET Attachments, phase : {"pending", "reconciled"}]
Hashes == UNION {[S -> Seals \cup {Null}] : S \in SUBSET Attachments}
Bundles ==
  {r \in [mutation : Drawable, owner : Owners, base : Nat, draft : Drafts,
          ids : SUBSET Attachments, hashes : Hashes, final : BOOLEAN, rev : Nat] :
     r.hashes \in [r.ids -> Seals \cup {Null}]}
Handles == [mutation : Drawable, draft : Drafts, ids : SUBSET Attachments, rev : Nat]

ASSUME CompoundAssumption ==
  /\ Key \in Notes /\ Owners \subseteq Credentials \cap Nat /\ Owners # {}
  /\ Lists \in [Drafts -> SUBSET Attachments]
  /\ Drafts \cup Seals \subseteq Envelopes /\ Drawable \subseteq Mutations
  /\ MaxStops \in Nat
  /\ Null \notin Edits \cup UploadIntents \cup Bundles \cup Handles \cup Requests

VARIABLES
  root,       \* pendingCompoundKey: StoredPendingCompoundMutation, or Null
  payloads,   \* pendingCompoundStageKey: <<mutation, attachment, envelope>>
  index,      \* pendingCompoundIndexKey: the handle of the note, or Null
  known,      \* stored revision the device has seen of the note
  session,    \* stored credential
  outbox,     \* pending note sync, or Null
  intent,     \* compound upload intent, or Null
  waiting,    \* attachments whose bytes need an upload
  shelved,    \* those whose deletion is queued, to be restored or purged
  text,       \* draft the device shows, or Null for what the relay has
  written,    \* history: drafts the user has made
  tab,        \* what each tab is doing
  sent,       \* history: <<credential, request>> of every send
  resolved,   \* history: requests whose outcome a tab was told
  cleared,    \* history: drafts whose outbox row was completed
  copied,     \* history: drafts kept as conflicting copies
  confirmed,  \* history: attachments taken for uploaded
  stops

compoundVars ==
  <<root, payloads, index, known, session, outbox, intent, waiting, shelved, text,
    written, tab, sent, resolved, cleared, copied, confirmed, stops>>
allVars == <<vars, compoundVars>>

\* What a tab never touches with a step of its own.
fixed  == <<session, text, written>>
kept   == <<session, text, written, shelved>>
device == <<root, payloads, index, known, outbox, intent, waiting, shelved, resolved,
            cleared, copied, confirmed>>

Idle(c) ==
  [at |-> "idle", cred |-> c, recovers |-> FALSE, row |-> Null, cur |-> Null,
   intent |-> Null, sources |-> {}, job |-> Null, todo |-> {}, handoff |-> FALSE,
   envelope |-> Null, rev |-> 0, kept |-> FALSE, retried |-> FALSE, then |-> "idle"]

CompoundInit ==
  /\ Init
  /\ root = Null /\ payloads = {} /\ index = Null
  /\ known = 0
  /\ session = Min(Owners)
  /\ outbox = Null /\ intent = Null /\ waiting = {} /\ shelved = {}
  /\ text = Null /\ written = {}
  /\ tab = [t \in Tabs |-> Idle(session)]
  /\ sent = {} /\ resolved = {} /\ cleared = {} /\ copied = {} /\ confirmed = {}
  /\ stops = 0

-----------------------------------------------------------------------------
(* Helpers *)

At(t, where) == tab[t].at = where
Become(t, to) == tab' = [tab EXCEPT ![t] = to]
Go(t, where) == tab' = [tab EXCEPT ![t].at = where]
GiveUp(t) == Become(t, Idle(tab[t].cred))
Stop == stops < MaxStops /\ stops' = stops + 1

\* Mutation ids are random: none is drawn twice.
Drawn ==
  {s[2].mutation : s \in sent}
    \cup {r.mutation : r \in ({root} \cup {tab[t].job : t \in Tabs}) \ {Null}}

Hashed(r) == {a \in r.ids : r.hashes[a] # Null}

Same(r, job) == r # Null /\ r.mutation = job.mutation

\* The handle of a committed root.
HandleOf(r) == [mutation |-> r.mutation, draft |-> r.draft, ids |-> r.ids, rev |-> r.rev]

StageRequestOf(job, a, e) ==
  [op |-> "stage", mutation |-> job.mutation, id |-> a, note |-> Key, envelope |-> e]

FinalRequest(r) ==
  [op |-> "bundle", mutation |-> r.mutation, id |-> Key, base |-> r.base,
   envelope |-> r.draft,
   attachments |-> {[id |-> a, envelope |-> r.hashes[a]] : a \in r.ids}]

PlainRequest(m, d) ==
  [op |-> "put", mutation |-> m, id |-> Key, base |-> known, deleted |-> FALSE,
   note |-> Null, envelope |-> d]

Payload(job, a) == {p \in payloads : p[1] = job.mutation /\ p[2] = a}
Without(S, r) == {p \in S : p[1] # r.mutation}

\* A send that threw, seen by its caller.  Recovery gives up a bundle it has not
\* all sources of only for a newer draft that does not list the missing ones.
Caught(p) ==
  LET missing == p.intent.uploads \ p.sources
  IN  IF /\ p.recovers /\ missing # {}
         /\ p.cur # Null /\ p.cur.draft # p.intent.draft
         /\ missing \cap Lists[p.cur.draft] = {}
      THEN [p EXCEPT !.at = "cancel"]
      ELSE Idle(p.cred)

-----------------------------------------------------------------------------
(* recoverCompoundCommits, the first part of a sync pass *)

StartPass(t) ==
  /\ At(t, "idle")
  /\ outbox # Null \/ intent # Null \/ index # Null
  /\ Become(t, [Idle(tab[t].cred) EXCEPT !.at = "committed", !.recovers = TRUE])
  /\ UNCHANGED <<vars, fixed, device, sent, stops>>

\* pendingCompoundCommits
Committed(t) ==
  /\ At(t, "committed")
  /\ Become(t, IF index = Null THEN [tab[t] EXCEPT !.at = "listed"]
               ELSE [tab[t] EXCEPT !.at = "finish", !.job = index, !.then = "listed"])
  /\ UNCHANGED <<vars, fixed, device, sent, stops>>

\* listPendingNoteSync
Listed(t) ==
  /\ At(t, "listed")
  /\ Become(t, [tab[t] EXCEPT !.at = "intents", !.cur = outbox])
  /\ UNCHANGED <<vars, fixed, device, sent, stops>>

\* compoundUploadIntents and pendingUploadSourcesForHandles
Intents(t) ==
  /\ At(t, "intents")
  /\ Become(t, IF intent = Null THEN [tab[t] EXCEPT !.at = "pending"]
               ELSE [tab[t] EXCEPT
                      !.at = IF intent.phase = "reconciled" THEN "drop" ELSE "resume",
                      !.intent = intent, !.sources = intent.uploads \cap waiting,
                      !.then = "pending"])
  /\ UNCHANGED <<vars, fixed, device, sent, stops>>

\* What a resumed or newly installed root leads to.
Sending(p, r) ==
  IF r.rev > 0
  THEN [p EXCEPT !.at = "finish", !.job = HandleOf(r)]
  ELSE [p EXCEPT !.at = "stage", !.job = r, !.todo = r.ids]

\* resumePendingCompoundCommit, with another credential's bundle only for a row
\* that can rebuild it.
Resume(t) ==
  LET p == tab[t]
  IN  /\ At(t, "resume")
      /\ Become(t, IF root = Null
                   THEN [p EXCEPT !.at = "stale"]
                   ELSE IF ~(p.sources \subseteq root.ids) THEN Caught(p)
                   ELSE IF root.rev > 0 \/ root.owner = p.cred THEN Sending(p, root)
                   ELSE IF p.cur = Null THEN Idle(p.cred)
                   ELSE [Sending(p, root) EXCEPT !.handoff = TRUE])
      /\ UNCHANGED <<vars, fixed, device, sent, stops>>

\* No root: the intent is stale unless the outbox still has its token.
Stale(t) ==
  LET p == tab[t]
  IN  /\ At(t, "stale")
      /\ Go(t, IF p.cur # Null /\ p.cur.draft = p.intent.draft THEN "pending" ELSE "drop")
      /\ UNCHANGED <<vars, fixed, device, sent, stops>>

\* cancelPendingCompoundCommit, never once the bundle may be finalizing.
Cancel(t) ==
  /\ At(t, "cancel")
  /\ IF root # Null /\ root.rev = 0 /\ ~root.final
     THEN /\ root' = Null /\ payloads' = Without(payloads, root)
          /\ Become(t, [tab[t] EXCEPT !.at = "drop", !.then = "pending"])
     ELSE GiveUp(t) /\ UNCHANGED <<root, payloads>>
  /\ UNCHANGED <<vars, kept, index, known, outbox, intent, waiting, resolved, cleared,
                 copied, confirmed, sent, stops>>

\* flushDeletes at the end of a push: what the relay deletes is purged.
Flushes(ends) == shelved' \in {shelved} \cup (IF ends THEN {{}} ELSE {})

\* completeCompoundUploadIntent, for the token that was read.
Drop(t) ==
  LET p == tab[t]
  IN  /\ At(t, "drop")
      /\ intent' = IF intent # Null /\ intent.draft = p.intent.draft THEN Null ELSE intent
      /\ Flushes(p.then = "idle")
      /\ IF p.then = "idle" THEN GiveUp(t) ELSE Go(t, p.then)
      /\ UNCHANGED <<vars, fixed, root, payloads, index, known, outbox, waiting, resolved,
                     cleared, copied, confirmed, sent, stops>>

-----------------------------------------------------------------------------
(* pushPendingNote, as the rest of the pass or at once after an edit *)

Push(t) ==
  /\ At(t, "idle") \/ At(t, "pending")
  /\ IF outbox = Null
     THEN At(t, "pending") /\ GiveUp(t)
     ELSE Become(t, [Idle(tab[t].cred) EXCEPT !.at = "remove", !.row = outbox])
  /\ UNCHANGED <<vars, fixed, device, sent, stops>>

\* queueDelete of what the row no longer lists, then pendingUploadSources.
Remove(t) ==
  LET d     == tab[t].row.draft
      left  == waiting \ (tab[t].row.before \ Lists[d])
      needs == left \cap Lists[d]
  IN  /\ At(t, "remove")
      /\ waiting' = left
      /\ shelved' = shelved \cup (waiting \ left)
      /\ Become(t, [tab[t] EXCEPT !.at = IF needs = {} THEN "plain" ELSE "await",
                                  !.sources = needs])
      /\ UNCHANGED <<vars, fixed, root, payloads, index, known, outbox, intent, resolved,
                     cleared, copied, confirmed, sent, stops>>

\* pendingCompoundCommit, or an intent that outlived its root.
Await(t) ==
  LET p == tab[t]
  IN  /\ At(t, "await")
      /\ Become(t, IF index # Null
                   THEN [p EXCEPT !.at = "finish", !.job = index, !.then = "begin"]
                   ELSE IF intent # Null /\ intent.phase = "reconciled"
                   THEN [p EXCEPT !.at = "drop", !.intent = intent, !.then = "begin"]
                   ELSE [p EXCEPT !.at = "begin"])
      /\ UNCHANGED <<vars, fixed, device, sent, stops>>

\* beginCompoundUploadIntent keeps an intent that is there.
Begins(t) ==
  LET p == tab[t]
  IN  /\ At(t, "begin")
      /\ intent' = IF intent # Null THEN intent
                   ELSE [draft |-> p.row.draft, uploads |-> p.sources, phase |-> "pending"]
      /\ Go(t, "enter")
      /\ UNCHANGED <<vars, kept, root, payloads, index, known, outbox, waiting, resolved,
                     cleared, copied, confirmed, sent, stops>>

\* The bundle a draft is to become, and whether a root already is that bundle.
Candidate(p) ==
  [mutation |-> Min(Drawable \ Drawn), owner |-> p.cred, base |-> known,
   draft |-> p.row.draft, ids |-> p.sources,
   hashes |-> [a \in p.sources |-> Null], final |-> FALSE, rev |-> 0]

Matches(p, r) == r.draft = p.row.draft /\ r.ids = p.sources

\* A commit over another bundle throws PendingCompoundCompletionError once that
\* one is through: the caller finishes it and commits again, once.
Committing(p, r) ==
  IF r.owner # p.cred /\ r.rev = 0
  THEN IF p.sources \subseteq r.ids
       THEN [Sending(p, r) EXCEPT !.handoff = TRUE, !.then = "idle"]
       ELSE Idle(p.cred)
  ELSE [Sending(p, r) EXCEPT
          !.then = IF Matches(p, r) \/ p.retried THEN "idle" ELSE "begin",
          !.retried = ~Matches(p, r)]

\* commitNoteWithAttachments: over an existing root, or the encrypted note first.
Enter(t) ==
  LET p == tab[t]
  IN  /\ At(t, "enter")
      /\ IF root # Null THEN Become(t, Committing(p, root))
         ELSE IF p.sources \subseteq waiting
         THEN /\ Drawable \ Drawn # {}     \* a bound
              /\ Become(t, [p EXCEPT !.at = "install", !.job = Candidate(p)])
         ELSE GiveUp(t)
      /\ UNCHANGED <<vars, fixed, device, sent, stops>>

\* installPendingCompound keeps a root another tab installed meanwhile.
Install(t) ==
  LET p == tab[t]
  IN  /\ At(t, "install")
      /\ root' = IF root = Null THEN p.job ELSE root
      /\ Become(t, Committing(p, root'))
      /\ UNCHANGED <<vars, kept, payloads, index, known, outbox, intent, waiting, resolved,
                     cleared, copied, confirmed, sent, stops>>

-----------------------------------------------------------------------------
(* sendPendingCompound *)

\* The next stage in id order: one with a hash only drops its payload, one with
\* a payload is sent, the others are encrypted from their source.
NextStage(t) ==
  LET p == tab[t]
      a == Min(p.todo)
  IN  /\ At(t, "stage") /\ p.todo # {}
      /\ IF p.job.hashes[a] # Null
         THEN /\ payloads' = payloads \ Payload(p.job, a)
              /\ Become(t, [p EXCEPT !.todo = @ \ {a}])
         ELSE /\ UNCHANGED payloads
              /\ IF Payload(p.job, a) # {}
                 THEN \E x \in Payload(p.job, a) :
                        Become(t, [p EXCEPT !.at = "stageSend", !.envelope = x[3]])
                 ELSE Become(t, IF a \in p.sources \cap waiting
                                THEN [p EXCEPT !.at = "seal"] ELSE Caught(p))
      /\ UNCHANGED <<vars, kept, root, index, known, outbox, intent, waiting, resolved,
                     cleared, copied, confirmed, sent, stops>>

SealUnstored(t) ==   \* bug: the payload is not stored before it is sent
  LET p == tab[t]
  IN  /\ At(t, "seal")
      /\ \E e \in Seals : Become(t, [p EXCEPT !.at = "stageSend", !.envelope = e])
      /\ UNCHANGED <<vars, fixed, device, sent, stops>>

\* installCompoundStagePayload: a payload that is there is kept, and a stage that
\* has its hash gets none.
Seal(t) ==
  LET p == tab[t]
      a == Min(p.todo)
  IN  /\ At(t, "seal")
      /\ IF Same(root, p.job) /\ root.rev = 0 /\ root.hashes[a] = Null
         THEN \E e \in (IF Payload(p.job, a) = {} THEN Seals
                        ELSE {x[3] : x \in Payload(p.job, a)}) :
                /\ payloads' = payloads \cup {<<p.job.mutation, a, e>>}
                /\ Become(t, [p EXCEPT !.at = "stageSend", !.envelope = e])
         ELSE Become(t, Caught(p)) /\ UNCHANGED payloads
      /\ UNCHANGED <<vars, kept, root, index, known, outbox, intent, waiting, resolved,
                     cleared, copied, confirmed, sent, stops>>

\* What a tab sends, by where it is.
RequestOf(p) ==
  CASE p.at \in {"stageSend", "stageWait"} ->
         StageRequestOf(p.job, Min(p.todo), p.envelope)
    [] p.at \in {"finalSend", "finalWait"} -> FinalRequest(p.job)
    [] p.at = "plainWait" -> p.job

\* The request is on its way, or is turned away, or never gets there.
Sends(t) ==
  LET p == tab[t]
      q == RequestOf(p)
  IN  /\ p.at \in {"stageSend", "finalSend"}
      /\ q \in Requests     \* a bound
      /\ sent' = sent \cup {<<p.cred, q>>}
      /\ \/ /\ Begin(p.cred, q)
            /\ Go(t, IF p.at = "stageSend" THEN "stageWait" ELSE "finalWait")
            /\ UNCHANGED stops
         \/ /\ p.cred \notin live
            /\ Become(t, Caught(p))
            /\ UNCHANGED <<vars, stops>>
         \/ /\ Stop
            /\ Become(t, Caught(p))
            /\ UNCHANGED vars
      /\ UNCHANGED <<fixed, device>>

\* The hash of a stage enters the root, then its payload goes and the root is
\* read again.
Staged(t) ==
  LET p == tab[t]
      a == Min(p.todo)
  IN  /\ At(t, "staged")
      /\ IF Same(root, p.job) /\ root.hashes[a] \in {Null, p.envelope}
         THEN root' = [root EXCEPT !.hashes[a] = p.envelope] /\ Go(t, "unseal")
         ELSE Become(t, Caught(p)) /\ UNCHANGED root
      /\ UNCHANGED <<vars, kept, payloads, index, known, outbox, intent, waiting, resolved,
                     cleared, copied, confirmed, sent, stops>>

Unseal(t) ==
  LET p == tab[t]
      a == Min(p.todo)
  IN  /\ At(t, "unseal")
      /\ payloads' = payloads \ Payload(p.job, a)
      /\ Become(t, IF root = Null THEN Caught(p)
                   ELSE IF root.rev > 0 THEN Sending(p, root)
                   ELSE [p EXCEPT !.at = "stage", !.todo = @ \ {a}])
      /\ UNCHANGED <<vars, kept, root, index, known, outbox, intent, waiting, resolved,
                     cleared, copied, confirmed, sent, stops>>

\* The final payload, made once.
Finalize(t) ==
  LET p == tab[t]
  IN  /\ At(t, "stage") /\ p.todo = {}
      /\ IF Same(root, p.job) /\ (root.final \/ root.rev > 0 \/ Hashed(root) = root.ids)
         THEN /\ root' = [root EXCEPT !.final = @ \/ root.rev = 0]
              /\ Become(t, IF root.rev > 0 THEN Sending(p, root)
                           ELSE [p EXCEPT !.at = "finalSend", !.job = root'])
         ELSE Become(t, Caught(p)) /\ UNCHANGED root
      /\ UNCHANGED <<vars, kept, payloads, index, known, outbox, intent, waiting, resolved,
                     cleared, copied, confirmed, sent, stops>>

\* rememberCompoundReceipt
Remember(t) ==
  /\ At(t, "told")
  /\ known' = Max({known, tab[t].rev})
  /\ Go(t, "commit")
  /\ UNCHANGED <<vars, kept, root, payloads, index, outbox, intent, waiting, resolved,
                 cleared, copied, confirmed, sent, stops>>

\* The receipt and the index in one transaction.
Commit(t) ==
  LET p == tab[t]
  IN  /\ At(t, "commit")
      /\ IF Same(root, p.job) /\ root.final
         THEN /\ root' = [root EXCEPT !.rev = p.rev]
              /\ index' = HandleOf(root')
              /\ Become(t, Sending(p, root'))
         ELSE Become(t, Caught(p)) /\ UNCHANGED <<root, index>>
      /\ UNCHANGED <<vars, kept, payloads, known, outbox, intent, waiting, resolved,
                     cleared, copied, confirmed, sent, stops>>

-----------------------------------------------------------------------------
(* Refusals *)

Conflicted(p) == [p EXCEPT !.at = "copy", !.todo = {}, !.job = Null]

\* discardUncommittedCompound: a refused stage does not discard a bundle that is
\* finalizing.
Discard(t) ==
  LET p == tab[t]
  IN  /\ p.at \in {"stageRefused", "finalRefused"} /\ ~p.handoff
      /\ IF Same(root, p.job) /\ root.rev = 0 /\ (root.final <=> p.at = "finalRefused")
         THEN root' = Null /\ payloads' = Without(payloads, p.job)
         ELSE UNCHANGED <<root, payloads>>
      /\ Become(t, IF p.recovers THEN Caught(p)
                   ELSE IF p.kept THEN Conflicted(p) ELSE Idle(p.cred))
      /\ UNCHANGED <<vars, kept, index, known, outbox, intent, waiting, resolved, cleared,
                     copied, confirmed, sent, stops>>

\* abandonPendingCompoundAfterCredentialChange: the caller can rebuild the bundle.
Abandon(t) ==
  LET p == tab[t]
      abandons == root # Null /\ root.rev = 0 /\ root.owner # p.cred
  IN  /\ p.at \in {"stageRefused", "finalRefused"} /\ p.handoff
      /\ IF abandons
         THEN root' = Null /\ payloads' = Without(payloads, root)
         ELSE UNCHANGED <<root, payloads>>
      /\ Become(t, IF p.recovers
                   THEN IF ~abandons THEN Idle(p.cred)
                        ELSE [p EXCEPT !.at = IF p.cur.draft = p.intent.draft
                                              THEN "pending" ELSE "drop",
                                       !.then = "pending"]
                   ELSE IF abandons \/ p.kept THEN Conflicted(p) ELSE Idle(p.cred))
      /\ UNCHANGED <<vars, kept, index, known, outbox, intent, waiting, resolved, cleared,
                     copied, confirmed, sent, stops>>

\* A preservable conflict: the intent of the row, the deletions, a copy of the draft, the bytes
\* of the draft, the row.
DropOwn(t) ==
  LET p == tab[t]
  IN  /\ At(t, "copy")
      /\ intent' = IF intent # Null /\ intent.draft = p.row.draft THEN Null ELSE intent
      /\ Go(t, "restore")
      /\ UNCHANGED <<vars, kept, root, payloads, index, known, outbox, waiting, resolved,
                     cleared, copied, confirmed, sent, stops>>

\* cancelAttachmentDeletes
Restore(t) ==
  /\ At(t, "restore")
  /\ waiting' = waiting \cup shelved
  /\ shelved' = {}
  /\ Go(t, "preserve")
  /\ UNCHANGED <<vars, fixed, root, payloads, index, known, outbox, intent, resolved,
                 cleared, copied, confirmed, sent, stops>>

\* preserveConflict, which shows the winner under the note's id.
Preserve(t) ==
  /\ At(t, "preserve")
  /\ copied' = copied \cup {tab[t].row.draft}
  /\ text' = IF text = tab[t].row.draft THEN Null ELSE text
  /\ Go(t, "reject")
  /\ UNCHANGED <<vars, session, written, root, payloads, index, known, outbox, intent,
                 waiting, shelved, resolved, cleared, confirmed, sent, stops>>

\* discardRejectedUploads
Reject(t) ==
  /\ At(t, "reject")
  /\ waiting' = waiting \ tab[t].sources
  /\ Go(t, "settle")
  /\ UNCHANGED <<vars, kept, root, payloads, index, known, outbox, intent, resolved,
                 cleared, copied, confirmed, sent, stops>>

\* completePendingNoteSync clears the row only if it still has this token.
Clears(d) ==
  IF outbox # Null /\ outbox.draft = d
  THEN outbox' = Null /\ cleared' = cleared \cup {d}
  ELSE UNCHANGED <<outbox, cleared>>

ClearsAny(d) ==
  IF outbox # Null
  THEN outbox' = Null /\ cleared' = cleared \cup {outbox.draft}
  ELSE UNCHANGED <<outbox, cleared>>

SettleRow(t) ==
  /\ At(t, "settle")
  /\ Clears(tab[t].row.draft)
  /\ Flushes(tab[t].row.draft \notin copied)
  /\ GiveUp(t)
  /\ UNCHANGED <<vars, fixed, root, payloads, index, known, intent, waiting, resolved,
                 copied, confirmed, sent, stops>>

-----------------------------------------------------------------------------
(* finishCompoundCommit *)

FinishesAll(t) ==   \* bug: the uploads are not looked up in the bundle
  LET p == tab[t]
  IN  /\ At(t, "finish")
      /\ IF intent = Null
         THEN GiveUp(t) /\ UNCHANGED <<waiting, confirmed>>
         ELSE /\ waiting' = waiting \ intent.uploads
              /\ confirmed' = confirmed \cup intent.uploads
              /\ Become(t, [p EXCEPT !.at = IF intent.phase = "pending" THEN "clear"
                                            ELSE "complete",
                                     !.intent = intent])
      /\ UNCHANGED <<vars, kept, root, payloads, index, known, outbox, intent, resolved,
                     cleared, copied, sent, stops>>

\* The uploads of the intent are confirmed in their order, up to one that the
\* bundle lacks.
Finishes(t) ==
  LET p    == tab[t]
      done == {a \in intent.uploads : \A b \in intent.uploads : b <= a => b \in p.job.ids}
  IN  /\ At(t, "finish")
      /\ IF intent = Null
         THEN GiveUp(t) /\ UNCHANGED <<waiting, confirmed>>
         ELSE IF intent.phase = "reconciled"
         THEN /\ Become(t, [p EXCEPT !.at = "complete", !.intent = intent])
              /\ UNCHANGED <<waiting, confirmed>>
         ELSE /\ waiting' = waiting \ done
              /\ confirmed' = confirmed \cup done
              /\ IF done = intent.uploads
                 THEN Become(t, [p EXCEPT !.at = "clear", !.intent = intent])
                 ELSE GiveUp(t)
      /\ UNCHANGED <<vars, kept, root, payloads, index, known, outbox, intent, resolved,
                     cleared, copied, sent, stops>>

ClearAny(t) ==   \* bug: the row of a newer draft is completed too
  /\ At(t, "clear")
  /\ ClearsAny(tab[t].intent.draft)
  /\ Go(t, "mark")
  /\ UNCHANGED <<vars, kept, root, payloads, index, known, intent, waiting, resolved,
                 copied, confirmed, sent, stops>>

Clear(t) ==
  /\ At(t, "clear")
  /\ Clears(tab[t].intent.draft)
  /\ Go(t, "mark")
  /\ UNCHANGED <<vars, kept, root, payloads, index, known, intent, waiting, resolved,
                 copied, confirmed, sent, stops>>

Mark(t) ==
  LET p == tab[t]
  IN  /\ At(t, "mark")
      /\ IF intent # Null /\ intent.draft = p.intent.draft
         THEN intent' = [intent EXCEPT !.phase = "reconciled"] /\ Go(t, "complete")
         ELSE GiveUp(t) /\ UNCHANGED intent
      /\ UNCHANGED <<vars, kept, root, payloads, index, known, outbox, waiting, resolved,
                     cleared, copied, confirmed, sent, stops>>

CompleteFirst(t) ==   \* bug: the intent goes before the root
  LET p == tab[t]
  IN  /\ At(t, "complete")
      /\ intent' = IF intent # Null /\ intent.draft = p.intent.draft THEN Null ELSE intent
      /\ Go(t, "drop")
      /\ UNCHANGED <<vars, kept, root, index, payloads, known, outbox, waiting, resolved,
                     cleared, copied, confirmed, sent, stops>>

\* completeCompoundCommit, of this handle only.
Complete(t) ==
  LET exact == root # Null /\ root.rev > 0 /\ HandleOf(root) = tab[t].job
  IN  /\ At(t, "complete")
      /\ root' = IF exact THEN Null ELSE root
      /\ index' = IF exact THEN Null ELSE index
      /\ Go(t, "drop")
      /\ UNCHANGED <<vars, kept, payloads, known, outbox, intent, waiting, resolved,
                     cleared, copied, confirmed, sent, stops>>

-----------------------------------------------------------------------------
(* A row without new attachments *)

\* pushWithCredentialHandoff, whose pending mutation is that of module Sync.
Plain(t) ==
  LET p == tab[t]
      q == PlainRequest(Min(Drawable \ Drawn), p.row.draft)
  IN  /\ At(t, "plain")
      /\ IF p.cred \in live
         THEN /\ Drawable \ Drawn # {} /\ q \in Requests     \* a bound
              /\ Begin(p.cred, q)
              /\ sent' = sent \cup {<<p.cred, q>>}
              /\ Become(t, [p EXCEPT !.at = "plainWait", !.job = q])
         ELSE GiveUp(t) /\ UNCHANGED <<vars, sent>>
      /\ UNCHANGED <<fixed, device, stops>>

-----------------------------------------------------------------------------
(* The relay answers, and each tab waiting for this request hears it or not *)

Waiting(c, q) ==
  {t \in Tabs : tab[t].at \in {"stageWait", "finalWait", "plainWait"}
                  /\ tab[t].cred = c /\ RequestOf(tab[t]) = q}

Hear(T, to) ==
  /\ tab' = [t \in Tabs |-> IF t \in T THEN to[t] ELSE tab[t]]
  /\ UNCHANGED <<kept, root, payloads, index, outbox, intent, waiting, cleared, copied,
                 confirmed, sent>>

Resolved(q, T) == resolved' = IF T = {} THEN resolved ELSE resolved \cup {q}

StageAnswer(c, q, T) ==
  /\ StageAdd(c, q) \/ StageRenew(c, q)
  /\ Hear(T, [t \in T |-> [tab[t] EXCEPT !.at = "staged"]])
  /\ Resolved(q, T)
  /\ UNCHANGED known

\* A push of its own row goes on to clear it.
CommitAnswer(c, q, T) ==
  /\ Bundle(c, q) \/ Put(c, q) \/ Replay(c, q)
  /\ \E r \in receipts' :
       /\ r.request = q
       /\ Hear(T, [t \in T |->
            [tab[t] EXCEPT !.at = IF @ = "finalWait" THEN "told" ELSE "settle", !.rev = r.rev]])
       /\ known' = IF q.op = "put" /\ T # {} THEN Max({known, r.rev}) ELSE known
  /\ Resolved(q, T)

\* record_conflict and attachment_id_unavailable make a copy; the others,
\* attachment_stage_conflict, attachment_stage_missing and mutation_conflict,
\* leave the row to be pushed again.
RefusalKeeps(q) ==
  CASE q.op = "stage"  -> Prior(q.mutation) = {} /\ StageHeld(q) = {}
    [] q.op = "bundle" -> FALSE
    [] q.op = "put"    -> TRUE

RefusalAnswer(c, q, T) ==
  /\ c \in live
  /\ \/ /\ BundleDiscard(c, q)
        /\ Hear(T, [t \in T |-> [tab[t] EXCEPT !.at = "finalRefused", !.kept = TRUE]])
     \/ /\ Refuse(c, q)
        /\ Hear(T, [t \in T |->
             IF tab[t].at = "plainWait" THEN Conflicted(tab[t])
             ELSE [tab[t] EXCEPT !.at = IF @ = "stageWait" THEN "stageRefused"
                                        ELSE "finalRefused",
                                 !.kept = RefusalKeeps(q)]])
  /\ Resolved(q, T)
  /\ UNCHANGED known

Unauthorized(c, q, T) ==
  /\ c \notin live /\ Refuse(c, q)
  /\ Hear(T, [t \in T |-> Caught(tab[t])])
  /\ UNCHANGED <<known, resolved>>

\* The losses of a plain push belong to module Sync.
Serve(c, q) ==
  \E T \in SUBSET Waiting(c, q) :
    /\ \/ StageAnswer(c, q, T) \/ CommitAnswer(c, q, T)
       \/ RefusalAnswer(c, q, T) \/ Unauthorized(c, q, T)
    /\ IF T = Waiting(c, q) THEN UNCHANGED stops
       ELSE Stop /\ \A t \in Waiting(c, q) \ T : tab[t].at # "plainWait"

TimeoutDiscards(t) ==   \* bug: an unknown outcome counts as a refusal
  LET p == tab[t]
  IN  /\ p.at \in {"stageWait", "finalWait"}
      /\ IF <<p.cred, RequestOf(p)>> \in inflight THEN Stop ELSE UNCHANGED stops
      /\ Become(t, Caught(p))
      /\ root' = Null
      /\ UNCHANGED <<vars, kept, payloads, index, known, outbox, intent, waiting, resolved,
                     cleared, copied, confirmed, sent>>

\* A timeout, or the end of the wait for an answer that was lost.
Timeout(t) ==
  LET p == tab[t]
  IN  /\ p.at \in {"stageWait", "finalWait"}
      /\ IF <<p.cred, RequestOf(p)>> \in inflight THEN Stop ELSE UNCHANGED stops
      /\ Become(t, Caught(p))
      /\ UNCHANGED <<vars, fixed, device, sent>>

-----------------------------------------------------------------------------
(* Surroundings *)

ListedNow == IF text = Null THEN {} ELSE Lists[text]
Made == UNION {Lists[d] : d \in written}

\* The user saves a draft; a new row overwrites the one before.  An attachment
\* that was removed is not listed again under its id.
Edit(d) ==
  /\ d \in Drafts \ written
  /\ Lists[d] \cap Made \subseteq ListedNow
  /\ written' = written \cup {d}
  /\ text' = d
  /\ outbox' = [draft |-> d, before |-> ListedNow]
  /\ waiting' = waiting \cup (Lists[d] \ Made)
  /\ UNCHANGED <<vars, session, shelved, root, payloads, index, known, intent, tab, sent, resolved,
                 cleared, copied, confirmed, stops>>

\* A pull, which an outbox row holds up.
Pull ==
  /\ outbox = Null
  /\ known < records[Key].rev
  /\ known' = records[Key].rev
  /\ text' = IF records[Key].envelope \in Drafts THEN records[Key].envelope ELSE Null
  /\ UNCHANGED <<vars, session, written, root, payloads, index, outbox, intent, waiting, shelved,
                 tab, sent, resolved, cleared, copied, confirmed, stops>>

\* The page is closed and opened again: only the storage is left.
Close(t) ==
  /\ tab[t].at \notin {"idle", "plainWait"}
  /\ Stop
  /\ Become(t, Idle(session))
  /\ UNCHANGED <<vars, fixed, device, sent>>

\* The device is paired again; an idle tab reloads for it.
Recredential(c) ==
  /\ c \in live /\ c > session
  /\ session' = c
  /\ UNCHANGED <<vars, text, written, device, tab, sent, stops>>

Reload(t) ==
  /\ At(t, "idle") /\ tab[t].cred # session
  /\ Become(t, Idle(session))
  /\ UNCHANGED <<vars, fixed, device, sent, stops>>

\* Another device writes the note; this one's old credential is revoked.
Elsewhere ==
  /\ \E c \in Credentials \ Owners, q \in Requests :
       /\ q.mutation \notin Drawable
       /\ Begin(c, q) \/ Put(c, q) \/ Refuse(c, q)
  /\ UNCHANGED compoundVars

Disown(c) == c < session /\ c \in live /\ Revoke({c}) /\ UNCHANGED compoundVars

Expire == Tick /\ UNCHANGED compoundVars

Recovering(t) ==
  \/ StartPass(t) \/ Committed(t) \/ Listed(t) \/ Intents(t) \/ Resume(t)
  \/ Stale(t) \/ Cancel(t) \/ Drop(t)

Pushing(t) ==
  \/ Push(t) \/ Remove(t) \/ Await(t) \/ Begins(t) \/ Enter(t) \/ Install(t) \/ Plain(t)

SendingOn(t) ==
  \/ NextStage(t) \/ Seal(t) \/ Sends(t) \/ Staged(t) \/ Unseal(t) \/ Finalize(t)
  \/ Remember(t) \/ Commit(t) \/ Timeout(t)

Ending(t) ==
  \/ Discard(t) \/ Abandon(t) \/ DropOwn(t) \/ Restore(t) \/ Preserve(t) \/ Reject(t) \/ SettleRow(t)
  \/ Finishes(t) \/ Clear(t) \/ Mark(t) \/ Complete(t)

CompoundNext ==
  \/ \E t \in Tabs : \/ Recovering(t) \/ Pushing(t) \/ SendingOn(t) \/ Ending(t)
                     \/ Close(t) \/ Reload(t)
  \/ \E s \in sent : Serve(s[1], s[2])
  \/ \E d \in Drafts : Edit(d)
  \/ \E c \in Owners : Recredential(c) \/ Disown(c)
  \/ Pull \/ Elsewhere \/ Expire

CompoundSpec == CompoundInit /\ [][CompoundNext]_allVars

-----------------------------------------------------------------------------
(* Safety *)

\* A mutation that is sent again is sent as it was: the envelope of a stage and
\* the final payload never change, over closed tabs and credentials
\* (sync.ts:1179).
ResentExactly ==
  \A s, u \in sent :
    s[2].mutation = u[2].mutation /\ s[2].id = u[2].id => s[2] = u[2]

\* A bundle the relay may be finalizing stays stored until a tab was told what
\* became of it (sync.ts:1380).
FinalizingRemains ==
  \A s \in sent :
    s[2].op = "bundle" =>
      \/ s[2] \in resolved
      \/ root # Null /\ root.mutation = s[2].mutation /\ root.final

\* The outbox gives up an edit only for the same edit at the relay or for a copy
\* of it: another draft's bundle never passes for it (noteStore.svelte.ts:1165).
EditsAreDelivered ==
  \A d \in cleared :
    d \in copied \/ \E x \in answered : x.request.envelope = d

\* Bytes are taken for uploaded only when the relay has the attachment
\* (noteStore.svelte.ts:1162).
ConfirmedAreStored == \A a \in confirmed : Exists(a)

\* What the device lets go of is at the relay, the edits of the outbox and the
\* bytes to upload alike, whatever was interrupted or lost (noteStore.svelte.ts:1154).
LetGoIsStored == EditsAreDelivered /\ ConfirmedAreStored
=============================================================================
