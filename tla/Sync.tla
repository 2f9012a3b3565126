-------------------------------- MODULE Sync --------------------------------
(***************************************************************************)
(* How a device writes one note to the relay: the pending mutations of     *)
(* EncryptedSync, packages/client/src/sync.ts, over the relay's records.   *)
(*                                                                         *)
(* A mutation is stored before it is sent and stays stored until its       *)
(* outcome is known; a resent copy has the same mutation id.  Tabs share   *)
(* the storage.  Within a tab the operations on a note run one at a time   *)
(* (runMutation); between tabs nothing orders them.  Every storage call    *)
(* and every request is a step of its own.                                 *)
(***************************************************************************)
EXTENDS Relay

CONSTANTS
  Tabs,       \* EncryptedSync instances over one storage
  Key,        \* the note
  Owners,     \* credentials of this device: naturals, in the order it gets them
  Drafts,     \* plaintexts a caller may push, by the envelope they encrypt to
  Drawable,   \* mutation ids this device draws; other devices draw the rest
  MaxStops    \* bound on lost, late and repeated messages, closed tabs, restarts

VARIABLES
  pending,    \* stored mutation of the note: [owner, request], or Null
  known,      \* stored revision the device has seen of it
  session,    \* stored credential
  tab,        \* what each tab is doing
  sent,       \* history: <<credential, request>> of every send
  settled,    \* history: requests a tab was told the revision of
  refused,    \* history: requests a tab was told a conflict of
  returned,   \* history: [draft, rev] of every push that succeeded
  stops

syncVars == <<pending, known, session, tab, sent, settled, refused, returned, stops>>
allVars  == <<vars, syncVars>>

ASSUME SyncAssumption ==
  /\ Key \in Notes
  /\ Owners \subseteq Credentials \cap Nat /\ Owners # {}
  /\ Drafts \subseteq Envelopes
  /\ Drawable \subseteq Mutations /\ IsFiniteSet(Drawable)
  /\ MaxStops \in Nat
  /\ Null \notin [owner : Owners, request : Requests]

\* A stored mutation is [owner, request].  Of a tab, at: where its operation is;
\* want: the note its caller pushes; stored: the mutation it works on; fresh: the
\* one it is about to store; rev: the revision in the relay's last answer.
Idle(c) == [at |-> "idle", cred |-> c, want |-> Null, stored |-> Null,
            fresh |-> Null, rev |-> 0]

SyncInit ==
  /\ Init
  /\ pending = Null
  /\ known = 0
  /\ session = Min(Owners)
  /\ tab = [t \in Tabs |-> Idle(session)]
  /\ sent = {} /\ settled = {} /\ refused = {} /\ returned = {}
  /\ stops = 0

-----------------------------------------------------------------------------
(* Steps of a tab *)

Become(t, to) == tab' = [tab EXCEPT ![t] = to]
Stop == stops < MaxStops /\ stops' = stops + 1

\* Mutation ids are random: none is drawn twice.
Held ==
  ({pending} \cup UNION {{tab[t].stored, tab[t].fresh} : t \in Tabs}) \ {Null}

Drawn == {m.request.mutation : m \in Held} \cup {s[2].mutation : s \in sent}

\* The note encrypted over the revision the device knows, while Requests, a bound,
\* still has the mutation.
FreshAgain(d, c) ==   \* bug: a rebased note keeps the mutation id
  [owner |-> c,
   request |-> [op |-> "put", id |-> Key,
                mutation |-> IF pending = Null THEN Min(Drawable \ Drawn)
                             ELSE pending.request.mutation,
                base |-> known, deleted |-> FALSE, note |-> Null, envelope |-> d]]

Fresh(d, c) ==
  [owner |-> c,
   request |-> [op |-> "put", mutation |-> Min(Drawable \ Drawn), id |-> Key,
                base |-> known, deleted |-> FALSE, note |-> Null, envelope |-> d]]

CanWrite(d, c) == Drawable \ Drawn # {} /\ Fresh(d, c).request \in Requests

\* mutate: an older mutation of this credential is resent before the note is
\* looked at.  One of another credential rejects the push.
PushRegardless(t, d) ==   \* bug: the stored mutation is not resent first
  /\ tab[t].at = "idle"
  /\ pending # Null => pending.owner = tab[t].cred
  /\ Become(t, [tab[t] EXCEPT !.at = "prepare", !.want = d])
  /\ UNCHANGED <<vars, pending, known, session, sent, settled, refused, returned, stops>>

Push(t, d) ==
  /\ tab[t].at = "idle"
  /\ \/ /\ pending = Null
        /\ CanWrite(d, tab[t].cred)
        /\ Become(t, [tab[t] EXCEPT !.at = "prepare", !.want = d])
     \/ /\ pending # Null /\ pending.owner = tab[t].cred
        /\ Become(t, [tab[t] EXCEPT !.at = "send", !.want = d, !.stored = pending])
  /\ UNCHANGED <<vars, pending, known, session, sent, settled, refused, returned, stops>>

\* pushWithCredentialHandoff of the callers, rejected as above:
\* resumePendingMutationAfterCredentialChange sends the other credential's
\* mutation with this one.
Handoff(t, d) ==
  /\ tab[t].at = "idle"
  /\ pending # Null /\ pending.owner # tab[t].cred
  /\ Become(t, [tab[t] EXCEPT !.at = "send", !.want = d, !.stored = pending])
  /\ UNCHANGED <<vars, pending, known, session, sent, settled, refused, returned, stops>>

Prepare(t) ==
  /\ tab[t].at = "prepare"
  /\ CanWrite(tab[t].want, tab[t].cred)
  /\ Become(t, [tab[t] EXCEPT !.at = "persist",
                              !.fresh = Fresh(tab[t].want, tab[t].cred)])
  /\ UNCHANGED <<vars, pending, known, session, sent, settled, refused, returned, stops>>

Persist(t) ==
  /\ tab[t].at = "persist"
  /\ pending' = tab[t].fresh
  /\ Become(t, [tab[t] EXCEPT !.at = "send", !.stored = tab[t].fresh, !.fresh = Null])
  /\ UNCHANGED <<vars, known, session, sent, settled, refused, returned, stops>>

\* The request is on its way: the relay authenticates it and awaits the body,
\* or turns the credential away, or is never reached.
Send(t) ==
  LET c == tab[t].cred
      q == tab[t].stored.request
  IN  /\ tab[t].at = "send"
      /\ sent' = sent \cup {<<c, q>>}
      /\ \/ /\ Begin(c, q)
            /\ Become(t, [tab[t] EXCEPT !.at = "wait"])
            /\ UNCHANGED stops
         \/ /\ c \notin live
            /\ Become(t, Idle(c))
            /\ UNCHANGED <<vars, stops>>
         \/ /\ Stop
            /\ Become(t, Idle(c))
            /\ UNCHANGED vars
      /\ UNCHANGED <<pending, known, session, settled, refused, returned>>

\* Network, parse and server errors and timeouts: the mutation stays stored,
\* the relay may still carry it out.
TimeoutDiscards(t) ==   \* bug: an unknown outcome counts as a refusal
  /\ tab[t].at = "wait"
  /\ IF <<tab[t].cred, tab[t].stored.request>> \in inflight THEN Stop ELSE UNCHANGED stops
  /\ Become(t, Idle(tab[t].cred))
  /\ pending' = Null
  /\ UNCHANGED <<vars, known, session, sent, settled, refused, returned>>

Timeout(t) ==
  /\ tab[t].at = "wait"
  /\ IF <<tab[t].cred, tab[t].stored.request>> \in inflight THEN Stop ELSE UNCHANGED stops
  /\ Become(t, Idle(tab[t].cred))
  /\ UNCHANGED <<vars, pending, known, session, sent, settled, refused, returned>>

\* rememberRevision, before the mutation is deleted.
Remember(t) ==
  /\ tab[t].at = "told"
  /\ known' = Max({known, tab[t].rev})
  /\ Become(t, [tab[t] EXCEPT !.at = "remembered"])
  /\ UNCHANGED <<vars, pending, session, sent, settled, refused, returned, stops>>

\* storage.delete(key), whatever is stored there by now.  A push goes on to its
\* own note unless the mutation was that note; a handoff leaves it to a new push.
IsDoneAnyway(t) == TRUE   \* bug: the fingerprint of the stored mutation is not compared

IsDone(t) == tab[t].stored.request.envelope = tab[t].want

Forget(t) ==
  LET own == tab[t].stored.owner = tab[t].cred
  IN  /\ tab[t].at = "remembered"
      /\ pending' = Null
      /\ IF own /\ ~IsDone(t)
         THEN Become(t, [tab[t] EXCEPT !.at = "prepare", !.stored = Null, !.rev = 0])
         ELSE Become(t, Idle(tab[t].cred))
      /\ returned' = IF own /\ IsDone(t)
                     THEN returned \cup {[draft |-> tab[t].want, rev |-> tab[t].rev]}
                     ELSE returned
      /\ UNCHANGED <<vars, known, session, sent, settled, refused, stops>>

DiscardNothing(t) ==   \* bug: the refused mutation is kept for another try
  /\ tab[t].at = "refused"
  /\ Become(t, Idle(tab[t].cred))
  /\ UNCHANGED <<vars, pending, known, session, sent, settled, refused, returned, stops>>

\* A deterministic refusal deletes the mutation, whatever is stored by now.
Discard(t) ==
  /\ tab[t].at = "refused"
  /\ pending' = Null
  /\ Become(t, Idle(tab[t].cred))
  /\ UNCHANGED <<vars, known, session, sent, settled, refused, returned, stops>>

\* After a refused handoff the caller rebases the note it pushes, if this device
\* has pulled the revision it conflicts with ...
Rebase(t) ==
  /\ tab[t].at = "conflict"
  /\ pending = tab[t].stored
  /\ known >= tab[t].rev
  /\ CanWrite(tab[t].want, tab[t].cred)
  /\ Become(t, [tab[t] EXCEPT !.at = "install",
                              !.fresh = Fresh(tab[t].want, tab[t].cred)])
  /\ UNCHANGED <<vars, pending, known, session, sent, settled, refused, returned, stops>>

InstallBlindly(t) ==   \* bug: the storage may hold another mutation by now
  /\ tab[t].at = "install"
  /\ pending' = tab[t].fresh
  /\ Become(t, [tab[t] EXCEPT !.at = "send", !.stored = tab[t].fresh,
                              !.fresh = Null, !.rev = 0])
  /\ UNCHANGED <<vars, known, session, sent, settled, refused, returned, stops>>

\* ... by replacing the stored mutation, if it is still the one refused.
Install(t) ==
  /\ tab[t].at = "install"
  /\ \/ /\ pending = tab[t].stored
        /\ pending' = tab[t].fresh
        /\ Become(t, [tab[t] EXCEPT !.at = "send", !.stored = tab[t].fresh,
                                    !.fresh = Null, !.rev = 0])
     \/ /\ pending # tab[t].stored
        /\ Become(t, Idle(tab[t].cred))
        /\ UNCHANGED pending
  /\ UNCHANGED <<vars, known, session, sent, settled, refused, returned, stops>>

\* Otherwise it abandons exactly the mutation that was refused and keeps the
\* note as a conflicting copy.
Abandon(t) ==
  /\ tab[t].at = "conflict"
  /\ pending = tab[t].stored => known < tab[t].rev
  /\ pending' = IF pending = tab[t].stored THEN Null ELSE pending
  /\ Become(t, Idle(tab[t].cred))
  /\ UNCHANGED <<vars, known, session, sent, settled, refused, returned, stops>>

-----------------------------------------------------------------------------
(* The relay answers, and each tab waiting for this request hears it or not *)

Waiting(c, q) ==
  {t \in Tabs : tab[t].at = "wait" /\ tab[t].cred = c /\ tab[t].stored.request = q}

Hear(T, to) ==
  /\ tab' = [t \in Tabs |-> IF t \in T THEN to[t] ELSE tab[t]]
  /\ UNCHANGED <<pending, known, session, sent, returned>>

Accepted(c, q, T) ==
  /\ Replay(c, q) \/ Put(c, q)
  /\ \E r \in receipts' :
       /\ r.request = q
       /\ Hear(T, [t \in T |-> [tab[t] EXCEPT !.at = "told", !.rev = r.rev]])
  /\ settled' = IF T = {} THEN settled ELSE settled \cup {q}
  /\ UNCHANGED refused

\* 409 record_conflict, with the revision it conflicts with.
Conflict(c, q, T) ==
  /\ Refuse(c, q) /\ c \in live
  /\ q.base # records[q.id].rev
  /\ Hear(T, [t \in T |->
       [tab[t] EXCEPT !.at = IF tab[t].stored.owner = c THEN "refused" ELSE "conflict",
                      !.rev = records[q.id].rev]])
  /\ refused' = IF T = {} THEN refused ELSE refused \cup {q}
  /\ UNCHANGED settled

\* 401, the credential was revoked meanwhile, or 507, a quota is used up: the
\* mutation stays.
Unserved(c, q, T) ==
  /\ Refuse(c, q)
  /\ c \in live => q.base = records[q.id].rev
  /\ Hear(T, [t \in T |-> Idle(c)])
  /\ UNCHANGED <<settled, refused>>

Serve(c, q) ==
  \E T \in SUBSET Waiting(c, q) :
    /\ Accepted(c, q, T) \/ Conflict(c, q, T) \/ Unserved(c, q, T)
    /\ IF T = Waiting(c, q) THEN UNCHANGED stops ELSE Stop

-----------------------------------------------------------------------------
(* Surroundings *)

\* The tab is closed and opened again: only the storage is left.
Close(t) ==
  /\ Stop
  /\ Become(t, Idle(session))
  /\ UNCHANGED <<vars, pending, known, session, sent, settled, refused, returned>>

\* The device is paired again; an idle tab reloads for it.
Recredential(c) ==
  /\ c \in live /\ c > session
  /\ session' = c
  /\ UNCHANGED <<vars, pending, known, tab, sent, settled, refused, returned, stops>>

Reload(t) ==
  /\ tab[t].at = "idle" /\ tab[t].cred # session
  /\ Become(t, Idle(session))
  /\ UNCHANGED <<vars, pending, known, session, sent, settled, refused, returned, stops>>

\* acknowledge, after a pull that read the note at some revision.
Acknowledge ==
  /\ \E r \in 0..records[Key].rev : r > known /\ known' = r
  /\ UNCHANGED <<vars, pending, session, tab, sent, settled, refused, returned, stops>>

\* A copy that arrives late, or once more.
Duplicate ==
  /\ \E s \in sent : Begin(s[1], s[2])
  /\ Stop
  /\ UNCHANGED <<pending, known, session, tab, sent, settled, refused, returned>>

\* Another device writes the note.
Elsewhere ==
  \E c \in Credentials \ Owners, q \in Requests :
    /\ q.mutation \notin Drawable
    /\ Begin(c, q) \/ Replay(c, q) \/ Put(c, q) \/ Refuse(c, q)
    /\ UNCHANGED syncVars

Relaunch ==
  /\ Stop /\ Restart
  /\ UNCHANGED <<pending, known, session, tab, sent, settled, refused, returned>>

Disown(c) == c \in live /\ Revoke({c}) /\ UNCHANGED syncVars

TabStep(t) ==
  \/ \E d \in Drafts : Push(t, d) \/ Handoff(t, d)
  \/ Prepare(t) \/ Persist(t) \/ Send(t)
  \/ Remember(t) \/ Forget(t) \/ Discard(t)
  \/ Rebase(t) \/ Install(t) \/ Abandon(t) \/ Reload(t)

SyncNext ==
  \/ \E t \in Tabs : TabStep(t) \/ Timeout(t) \/ Close(t)
  \/ \E s \in sent : Serve(s[1], s[2])
  \/ \E c \in Owners : Recredential(c) \/ Disown(c)
  \/ Acknowledge \/ Duplicate \/ Elsewhere \/ Relaunch

SyncSpec == SyncInit /\ [][SyncNext]_allVars

\* The page syncs every 15 seconds and goes on by itself, the relay answers what
\* reached it, and a page whose credential was replaced asks to be reloaded.
SyncFairness ==
  /\ \A t \in Tabs : WF_allVars(TabStep(t)) /\ WF_allVars(Timeout(t))
                       /\ SF_allVars(Reload(t))
  /\ \A c \in Owners, q \in Requests : WF_allVars(Serve(c, q))

FairSyncSpec == SyncSpec /\ SyncFairness

-----------------------------------------------------------------------------
(* Safety *)

\* A mutation that was sent and whose outcome nobody was told, or awaits, stays
\* stored, over lost messages, closed tabs and a new credential: "Network, parse,
\* and server failures remain pending" (sync.ts:988).
UnresolvedRemainPending ==
  \A s \in sent :
    \/ s[2] \in settled \cup refused
    \/ \E t \in Tabs : tab[t].at = "wait" /\ tab[t].stored.request = s[2]
    \/ pending # Null /\ pending.request = s[2]

\* A mutation the device gave up is never carried out, by no copy of it that is
\* still on its way (sync.ts:186).
RefusedIsNotApplied ==
  \A q \in refused : Prior(q.mutation) = {}

\* A conflict is always another device's doing: a device never loses a note
\* against a write of its own (sync.ts:1025).
ConflictsAreForeign ==
  \A q \in refused :
    \E r \in receipts : r.request.mutation \notin Drawable /\ r.rev > q.base

\* The revision a push returns is that of the note it was given, though an older
\* mutation was sent on the way (sync.ts:1026).
PushReturns ==
  \A x \in returned :
    \E y \in answered : y.rev = x.rev /\ y.request.envelope = x.draft

\* With other tabs at work a handoff gives up exactly the mutation that the relay
\* refused to it, never one stored since (sync.ts:1367).
HandoffIsExact ==
  [][\A t \in Tabs :
       tab[t].at \in {"conflict", "install"} /\ tab'[t] # tab[t] /\ pending' # pending =>
         pending # Null /\ pending.request \in refused]_allVars

-----------------------------------------------------------------------------
(* Liveness *)

\* A stored mutation is settled in the end, by its own credential or by the next
\* one, unless the device has no credential left: no order of handoff, conflict,
\* rebase and lost answers blocks the note (sync.ts:1232).  The last disjunct is
\* the bound on mutation ids.
Settles ==
  pending # Null ~>
    \/ pending = Null
    \/ session \notin live
    \/ Drawable \subseteq Drawn /\ \E t \in Tabs : tab[t].at = "conflict"
=============================================================================
