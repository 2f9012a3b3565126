-------------------------------- MODULE Edits --------------------------------
(***************************************************************************)
(* One note in the web note store, from the keystroke to the relay: the     *)
(* note as a tab shows it, the debounced queue, the row and the outbox in   *)
(* IndexedDB that the tabs share, the pushes of a tab, and the sync pass    *)
(* that pulls what another device wrote.                                    *)
(*                                                                          *)
(*   Source: apps/web/src/lib/noteStore.svelte.ts (persistNote,             *)
(*   debouncedSave, the immediate changes, deleteNote, preserveConflict,    *)
(*   performSync), debouncedWorkQueue.ts, vaultTaskCoordinator.ts and       *)
(*   packages/core/src/adapters/local.ts (the conditional writes).          *)
(*                                                                          *)
(* A value of the note is the set of the changes it contains and whether it *)
(* is in the trash (and since which change) or a tombstone. Two writers     *)
(* disagree exactly when one writes a value that lacks a change of the      *)
(* other. The relay is the record and its revision; Sync models the         *)
(* mutations a push is made of, and Compound and AttachmentStore the notes  *)
(* with attachments.                                                        *)
(***************************************************************************)
EXTENDS Naturals, Sequences, FiniteSets

CONSTANTS
  Tabs,        \* tabs of one browser with the vault open
  MaxEdits,    \* changes made in these tabs
  MaxForeign,  \* changes another device makes at the relay
  MaxFaults,   \* local writes, requests and copies that fail, tabs closed
  MaxEvents,   \* all of these and the tabs that are open
  Faults       \* the kinds of fault considered

ASSUME EditsAssumption ==
  /\ IsFiniteSet(Tabs) /\ Tabs # {}
  /\ MaxEdits \in Nat /\ MaxForeign \in Nat /\ MaxFaults \in Nat
  /\ MaxEvents \in Nat
  /\ Faults \subseteq {"save", "copy", "push", "close", "leave"}

VARIABLES
  row,      \* the note's record in the object store "notes"
  outbox,   \* its record in "pending-sync": the value and its token
  copies,   \* conflict copies stored, notes of their own
  relay,    \* the value and the revision the relay has
  known,    \* the base revision of the next push (Sync's stored base)
  cursor,   \* the revision up to which changes were pulled
  tab,      \* the memory of each tab
  edits,    \* changes made so far here
  foreign,  \* changes made so far by the other device
  faults,
  saved,    \* history: the changes a write of the row has made durable
  overlaps  \* history: the windows of the code that a step fell into

storage == <<row, outbox, copies>>
remote  == <<relay, known, cursor>>
counts  == <<edits, foreign, faults>>
vars    == <<row, outbox, copies, relay, known, cursor, tab, edits, foreign,
             faults, saved, overlaps>>

Null == [changes |-> {}, state |-> "none", stamp |-> 0]
Note(changes) == [changes |-> changes, state |-> "live", stamp |-> 0]
With(value, change) == [value EXCEPT !.changes = @ \cup {change}]
Dead(value)    == [value EXCEPT !.state = "dead"]
Toggled(value, stamp) ==
  [value EXCEPT !.state = IF @ = "live" THEN "trash" ELSE "live", !.stamp = stamp]
IsDead(value)  == value.state = "dead"

Changes == 1..(MaxEdits + MaxForeign)

\* What a conditional write expects, if it is conditional.
Unconditional == [Null EXCEPT !.state = "any"]
Matches(expect) == expect \in {Unconditional, row}

Open == {t \in Tabs : tab[t].pass.at # "closed"}

\* Whether one more change or fault is considered.
Room == edits + foreign + faults + Cardinality(Open) < MaxEvents

NoWork  == [value |-> Null, token |-> 0]
NoEntry == [value |-> Null, expect |-> Null]
NoPass  == [at |-> "idle", value |-> Null, token |-> 0, revision |-> 0]

\* The note as a tab that opens the vault finds it: a tombstone is not loaded.
Loaded == IF IsDead(row) THEN Null ELSE row

\* shown is the note on the screen; visible and durable are the values a typed
\* and an immediate change expect to find stored (visibleNoteSnapshots,
\* durableNoteSnapshots); edited is whether the generation moved since a pass
\* captured it; memo is the value preserveConflict remembers; queue is the
\* debounced save, ops the operations that run, pushes the pushes asked for in
\* their order, pass the sync pass.
Opened == [shown |-> Loaded, visible |-> Loaded, durable |-> Loaded,
           edited |-> FALSE, memo |-> Null, queue |-> NoEntry, ops |-> {},
           pushes |-> <<>>, pass |-> NoPass]

Closed == [Opened EXCEPT !.shown = Null, !.visible = Null, !.durable = Null,
                         !.pass.at = "closed"]

\* A note that this browser and the relay have, in the trash or not, or none
\* yet; some of the tabs are open.
EditsInit ==
  /\ row \in {Null, Note({}), Toggled(Note({}), 0)}
  /\ relay = [value |-> row, revision |-> IF row = Null THEN 0 ELSE 1]
  /\ known = relay.revision /\ cursor = relay.revision
  /\ outbox = NoWork /\ copies = {}
  /\ \E open \in (SUBSET Tabs) \ {{}} :
       tab = [t \in Tabs |-> IF t \in open THEN Opened ELSE Closed]
  /\ edits = 0 /\ foreign = 0 /\ faults = 0 /\ saved = {} /\ overlaps = {}

-----------------------------------------------------------------------------
(* Tokens, operations and faults *)

Tokens == {outbox.token}
            \cup {tab[t].pass.token : t \in Tabs}
            \cup UNION {{tab[t].pushes[i].token : i \in DOMAIN tab[t].pushes} : t \in Tabs}

\* A token that nothing refers to any more.
NewToken == CHOOSE k \in 1..(Cardinality(Tokens) + 1) :
              k \notin Tokens /\ \A j \in 1..(k - 1) : j \in Tokens

Typed(t)   == {o \in tab[t].ops : o.kind = "typed"}
Listed(t)  == tab[t].shown # Null
Deleting(t) == \/ \E o \in tab[t].ops : o.kind = "delete"
               \/ \E i \in DOMAIN tab[t].pushes :
                    tab[t].pushes[i].by = "delete" /\ tab[t].pushes[i].live

\* The code leaves five windows open: a change of the trash is not shown before
\* its push is over ("trash"), a value is stored before it is shown ("refresh"), a
\* pass looks for pending saves before it starts to notice edits ("check"), a value
\* counts as preserved before its copy is stored ("copy"), and a push reads its
\* value when it is asked for and its base when its turn comes ("push").
Trashing(t) == \/ \E o \in tab[t].ops : o.kind = "trash"
               \/ \E i \in DOMAIN tab[t].pushes :
                    tab[t].pushes[i].by = "trash" /\ tab[t].pushes[i].live
Showing(t)  == tab[t].durable # tab[t].visible
Copying(t, value) ==
  \/ \E o \in tab[t].ops : o.at = "copying" /\ o.value = value
  \/ \E i \in DOMAIN tab[t].pushes :
       tab[t].pushes[i].at = "copying" /\ tab[t].pushes[i].value = value
Storing(t)  == tab[t].queue # NoEntry \/ \E o \in tab[t].ops : o.at = "waiting"
At(t, at)   == tab[t].pass.at = at
Turn(t, i)  == /\ tab[t].pushes[i].at = "waiting"
               /\ \A j \in 1..(i - 1) : tab[t].pushes[j].at \notin {"waiting", "sent", "accepted"}

\* Nothing keeps a step from falling into one; the history remembers which.
In(window, in) == IF in THEN {window} ELSE {}
Enters(windows) == overlaps' = overlaps \cup windows

\* The windows of a change of the note that is shown, and of one that is written
\* at once.
CheckPassed(t) == In("check", At(t, "capture"))
Changing(t)  == In("trash", tab[t].shown.state = "live" /\ Trashing(t)) \cup CheckPassed(t)
Capturing(t) == In("refresh", Showing(t)) \cup CheckPassed(t)

\* The editor changes a note the tab lists; in the trash it is read only.
Editable(t) == tab[t].shown.state = "live" /\ ~Deleting(t) /\ edits < MaxEdits /\ Room
InTrash(t)  == tab[t].shown.state = "trash" /\ ~Deleting(t) /\ edits < MaxEdits /\ Room
NewEdit == edits + 1

Fault(kind) == kind \in Faults /\ faults < MaxFaults /\ Room /\ faults' = faults + 1

\* Whether the note was edited counts from the capture to the end of a pass.
Keep(t, memory) ==
  tab' = [tab EXCEPT ![t] =
            [memory EXCEPT !.edited = @ /\ memory.pass.at \in {"pull", "apply", "show"}]]
Without(t, o) == tab[t].ops \ {o}

\* schedule() and cancel() both take the key's token from earlier operations.
Superseded(ops) == {[o EXCEPT !.last = FALSE] : o \in ops}

-----------------------------------------------------------------------------
(* Local writes *)

Op(kind, value, expect) ==
  [kind |-> kind, value |-> value, expect |-> expect, last |-> TRUE,
   winner |-> Null, at |-> "waiting"]

\* A typed operation that fails is queued again if nothing newer took its
\* token; a deletion that fails saves the note that is shown.
AfterFailure(t, o) ==
  CASE o.kind = "typed" /\ o.last /\ tab[t].queue = NoEntry ->
         [value |-> o.value, expect |-> o.expect]
    [] o.kind = "delete" /\ Listed(t) ->
         [value |-> tab[t].shown, expect |-> tab[t].visible]
    [] OTHER -> tab[t].queue

\* The drain of a pass ends with the first operation that fails.
AfterFlush(t, o) ==
  IF o.kind = "typed" /\ tab[t].pass.at = "flush" THEN NoPass ELSE tab[t].pass

\* Until a push has its turn its base is the one its value was read on; what is
\* sent is read again then.
Push(value, token, by, base) ==
  [value |-> value, token |-> token, by |-> by, at |-> "waiting",
   base |-> base, live |-> TRUE]

\* The tab after its write. A flush that defers the remote part leaves the push
\* to the next pass.
Written(o, memory, pushed) ==
  [memory EXCEPT
     !.durable = o.value, !.visible = IF o.kind = "delete" THEN Null ELSE o.value,
     !.pushes = IF pushed THEN Append(@, Push(o.value, NewToken, o.kind, known)) ELSE @]

\* saveNoteWithPendingSync writes the row and the outbox in one transaction;
\* transactions run in the order they are made, and nothing happens in the tab
\* before the answer. A write that finds another row starts preserveConflict,
\* unless this very value is being preserved already.
WritesAlways(t, o, memory, windows) ==   \* bug: the expected value is not compared
  /\ Enters(windows)
  /\ row' = o.value
  /\ outbox' = [value |-> o.value, token |-> NewToken]
  /\ saved' = saved \cup o.value.changes
  /\ \E pushed \in {TRUE} \cup {o.kind # "typed"} : Keep(t, Written(o, memory, pushed))
  /\ UNCHANGED faults

Writes(t, o, memory, windows) ==
  /\ Matches(o.expect)
  /\ Enters(windows)
  /\ row' = o.value
  /\ outbox' = [value |-> o.value, token |-> NewToken]
  /\ saved' = saved \cup o.value.changes
  /\ \E pushed \in {TRUE} \cup {o.kind # "typed"} : Keep(t, Written(o, memory, pushed))
  /\ UNCHANGED faults

Conflicts(t, o, memory, windows) ==
  /\ ~Matches(o.expect)
  /\ Enters(windows \cup In("trash", o.kind = "trash") \cup In("copy", Copying(t, o.value)))
  /\ Keep(t, [memory EXCEPT !.memo = o.value,
       !.ops = @ \cup {[o EXCEPT !.winner = row,
                          !.at = IF tab[t].memo = o.value THEN "copied" ELSE "copying"]}])
  /\ UNCHANGED <<row, outbox, saved, faults>>

Fails(t, o, memory, windows) ==
  /\ Fault("save") /\ Enters(windows)
  /\ Keep(t, [memory EXCEPT !.queue = AfterFailure(t, o), !.pass = AfterFlush(t, o)])
  /\ UNCHANGED <<row, outbox, saved>>

Transaction(t, o, memory, windows) ==
  /\ \/ Writes(t, o, memory, windows)
     \/ Conflicts(t, o, memory, windows)
     \/ Fails(t, o, memory, windows)
  /\ UNCHANGED <<copies, remote, foreign>>

-----------------------------------------------------------------------------
(* Changes *)

\* createNote.
Create(t) ==
  /\ t \in Open /\ row = Null /\ relay.value = Null /\ edits = 0 /\ edits < MaxEdits /\ Room
  /\ edits' = NewEdit
  /\ Transaction(t, Op("create", Note({NewEdit}), Null),
                 [tab[t] EXCEPT !.shown = Note({NewEdit}), !.edited = TRUE], Changing(t))

\* debouncedSave looks the expected value up when the change is made.
TypeLate(t) ==   \* bug: the expected value is the last one this tab stored
  /\ Editable(t)
  /\ edits' = NewEdit
  /\ LET value == With(tab[t].shown, NewEdit) IN
     Keep(t, [tab[t] EXCEPT !.shown = value, !.edited = TRUE,
                            !.queue = [value |-> value, expect |-> tab[t].durable],
                            !.ops = Superseded(@)])
  /\ Enters(Changing(t))
  /\ UNCHANGED <<storage, remote, foreign, faults, saved>>

Type(t) ==
  /\ Editable(t)
  /\ edits' = NewEdit
  /\ LET value == With(tab[t].shown, NewEdit) IN
     Keep(t, [tab[t] EXCEPT !.shown = value, !.edited = TRUE,
                            !.queue = [value |-> value, expect |-> tab[t].visible],
                            !.ops = Superseded(@)])
  /\ Enters(Changing(t))
  /\ UNCHANGED <<storage, remote, foreign, faults, saved>>

\* The timer fires, or a drain starts the work: persistNote(queued).
Timer(t) ==
  /\ tab[t].queue # NoEntry
  /\ Transaction(t, Op("typed", tab[t].queue.value, tab[t].queue.expect),
                 [tab[t] EXCEPT !.edited = TRUE, !.queue = NoEntry], CheckPassed(t))
  /\ UNCHANGED edits

\* An immediate change supersedes the queued one and waits for the typed
\* operations that run; then it captures the value and the stored one.
Stored(t) == IF tab[t].durable = Null THEN Unconditional ELSE tab[t].durable

Immediate(t, kind, value, shown) ==
  LET memory == [tab[t] EXCEPT !.shown = shown, !.queue = NoEntry, !.ops = Superseded(@),
                               !.edited = @ \/ kind = "delete" \/ Typed(t) = {}]
  IN IF Typed(t) = {}
     THEN Transaction(t, Op(kind, value, Stored(t)), memory, Changing(t) \cup Capturing(t))
     ELSE /\ Keep(t, [memory EXCEPT !.ops = @ \cup {Op(kind, value, Unconditional)}])
          /\ Enters(Changing(t) \cup Capturing(t))
          /\ UNCHANGED <<storage, remote, foreign, faults, saved>>

\* togglePin, setColor and toggleChecklist change the note that is shown.
Now(t) ==
  /\ Editable(t)
  /\ edits' = NewEdit
  /\ LET value == With(tab[t].shown, NewEdit) IN Immediate(t, "now", value, value)

\* trashNote and restoreTrashedNote change a snapshot and show it afterwards.
Trash(t) ==
  /\ Editable(t) \/ InTrash(t)
  /\ edits' = NewEdit
  /\ Immediate(t, "trash", Toggled(tab[t].shown, NewEdit), tab[t].shown)

\* permanentlyDeleteNote.
Delete(t) ==
  /\ InTrash(t)
  /\ edits' = NewEdit
  /\ Immediate(t, "delete", Dead(tab[t].shown), tab[t].shown)

Captured(t, o) ==
  [o EXCEPT !.expect = Stored(t),
            !.value = CASE o.kind = "now"   -> tab[t].shown
                        [] o.kind = "trash" -> Toggled(tab[t].shown, o.value.stamp)
                        [] OTHER            -> o.value]

Ready(t, o) ==
  /\ o.at = "waiting" /\ Typed(t) = {}
  /\ Transaction(t, Captured(t, o), [tab[t] EXCEPT !.edited = TRUE, !.ops = Without(t, o)],
                 Capturing(t))
  /\ UNCHANGED edits

-----------------------------------------------------------------------------
(* What follows a local conflict *)

OpCopied(t, o) ==
  /\ o.at = "copying"
  /\ copies' = copies \cup {Note(o.value.changes)}
  /\ Keep(t, [tab[t] EXCEPT !.ops = Without(t, o) \cup {[o EXCEPT !.at = "copied"]}])
  /\ UNCHANGED <<row, outbox, remote, counts, saved, overlaps>>

OpCopyFails(t, o) ==
  /\ Fault("copy") /\ o.at = "copying"
  /\ Keep(t, [tab[t] EXCEPT !.ops = Without(t, o), !.queue = AfterFailure(t, o),
                            !.pass = AfterFlush(t, o),
                            !.memo = IF @ = o.value THEN Null ELSE @])
  /\ UNCHANGED <<storage, remote, edits, foreign, saved, overlaps>>

\* refreshLocalNoteFromSnapshot: the stored value first, and once its
\* attachments are loaded the note that is shown.
Adopt(t, o) ==
  /\ o.at = "copied"
  /\ Keep(t, [tab[t] EXCEPT !.durable = o.winner,
                            !.ops = Without(t, o) \cup {[o EXCEPT !.at = "adopting"]}])
  /\ UNCHANGED <<storage, remote, counts, saved, overlaps>>

Present(t, o) ==
  /\ o.at = "adopting"
  /\ Keep(t, [tab[t] EXCEPT
       !.shown = IF o.kind = "trash" THEN o.value ELSE o.winner,
       !.visible = o.winner, !.ops = Without(t, o),
       !.edited = @ \/ o.kind = "delete",
       !.queue = IF o.kind = "delete"
                 THEN [value |-> o.winner, expect |-> o.winner] ELSE @])
  /\ UNCHANGED <<storage, remote, counts, saved, overlaps>>

Write(t) ==
  \E o \in tab[t].ops :
     \/ Ready(t, o)
     \/ OpCopied(t, o) \/ OpCopyFails(t, o) \/ Adopt(t, o) \/ Present(t, o)

-----------------------------------------------------------------------------
(* Pushes: one at a time in a tab, in the order they were asked for *)

Move(t, i, at) == Keep(t, [tab[t] EXCEPT !.pushes[i].at = at])

RemoveAt(s, i) == SubSeq(s, 1, i - 1) \o SubSeq(s, i + 1, Len(s))

\* What the caller does when its push is over: a deletion and a change of the
\* trash show their result, a pass goes on or ends.
Finished(t, i, ok) ==
  LET p == tab[t].pushes[i] IN
  [tab[t] EXCEPT
     !.pushes = RemoveAt(@, i),
     !.shown = CASE p.live /\ p.by = "delete" -> Null
                 [] p.live /\ p.by = "trash" /\ @ # Null -> p.value
                 [] OTHER -> @,
     !.pass = CASE p.by # "pass" \/ ~p.live -> @
                [] ok -> [@ EXCEPT !.at = "check"]
                [] OTHER -> NoPass]

\* completePendingNoteSync compares the token.
CompletesAny(p) == TRUE   \* bug: the entry is removed whatever its token
Completes(p) == outbox.token = p.token
Cleared(p) == IF Completes(p) THEN NoWork ELSE outbox

\* The entry of a push was replaced or pushed by another, and the base is not
\* the one its value was read on.
Outdated(p) == p.token # outbox.token /\ p.base # known

Starts(t, i) ==
  /\ Turn(t, i)
  /\ Keep(t, [tab[t] EXCEPT !.pushes[i].at = "sent", !.pushes[i].base = known])
  /\ Enters(In("push", Outdated(tab[t].pushes[i])))
  /\ UNCHANGED <<storage, remote, counts, saved>>

\* The relay accepts a value made on the revision it has.
Send(t, i) ==
  LET p == tab[t].pushes[i] IN
  /\ p.at = "sent"
  /\ IF p.base = relay.revision
     THEN /\ relay' = [value |-> p.value, revision |-> relay.revision + 1]
          /\ known' = relay'.revision
          /\ Move(t, i, "accepted")
     ELSE UNCHANGED <<relay, known>> /\ Move(t, i, "rejected")
  /\ UNCHANGED <<storage, cursor, counts, saved, overlaps>>

SendFails(t, i) ==
  /\ Fault("push")
  /\ tab[t].pushes[i].at = "sent"
  /\ Keep(t, Finished(t, i, FALSE))
  /\ UNCHANGED <<storage, remote, edits, foreign, saved, overlaps>>

Accepted(t, i) ==
  /\ tab[t].pushes[i].at = "accepted"
  /\ outbox' = Cleared(tab[t].pushes[i])
  /\ Keep(t, Finished(t, i, TRUE))
  /\ UNCHANGED <<row, copies, remote, counts, saved, overlaps>>

\* A rejected deletion, and a push of a vault that was left, stay queued.
Rejected(t, i) ==
  LET p == tab[t].pushes[i] IN
  /\ p.at = "rejected" /\ Enters(In("copy", Copying(t, p.value)))
  /\ IF p.by = "delete" \/ ~p.live THEN Keep(t, Finished(t, i, FALSE))
     ELSE Keep(t, [tab[t] EXCEPT !.memo = p.value, !.pushes[i].at =
            IF tab[t].memo = p.value THEN "copied" ELSE "copying"])
  /\ UNCHANGED <<storage, remote, counts, saved>>

PushCopied(t, i) ==
  LET p == tab[t].pushes[i] IN
  /\ p.at = "copying" /\ p.live
  /\ copies' = copies \cup {Note(p.value.changes)}
  /\ Move(t, i, "copied")
  /\ UNCHANGED <<row, outbox, remote, counts, saved, overlaps>>

\* The copy cannot be stored, or the vault was left meanwhile.
PushCopyFails(t, i) ==
  LET p == tab[t].pushes[i] IN
  /\ p.at = "copying"
  /\ IF p.live THEN Fault("copy") ELSE UNCHANGED faults
  /\ Keep(t, [Finished(t, i, FALSE) EXCEPT !.memo = IF @ = p.value THEN Null ELSE @])
  /\ UNCHANGED <<storage, remote, edits, foreign, saved, overlaps>>

Settled(t, i) ==
  /\ tab[t].pushes[i].at = "copied"
  /\ outbox' = Cleared(tab[t].pushes[i])
  /\ Keep(t, Finished(t, i, TRUE))
  /\ UNCHANGED <<row, copies, remote, counts, saved, overlaps>>

Deliver(t) ==
  \E i \in DOMAIN tab[t].pushes :
     \/ Starts(t, i) \/ Send(t, i) \/ SendFails(t, i) \/ Accepted(t, i) \/ Rejected(t, i)
     \/ PushCopied(t, i) \/ PushCopyFails(t, i) \/ Settled(t, i)

-----------------------------------------------------------------------------
(* The sync pass *)

Go(t, at) == Keep(t, [tab[t] EXCEPT !.pass.at = at])
Ends(t)   == Keep(t, [tab[t] EXCEPT !.pass = NoPass])

StartPass(t) ==
  /\ At(t, "idle") /\ Go(t, "flush")
  /\ UNCHANGED <<storage, remote, counts, saved, overlaps>>

\* flushPendingSaves, then the outbox is listed; the pass comes to this entry
\* when it has pushed those of other notes.
Flushed(t) ==
  /\ At(t, "flush") /\ tab[t].queue = NoEntry /\ Typed(t) = {}
  /\ IF outbox = NoWork THEN Go(t, "check")
     ELSE Keep(t, [tab[t] EXCEPT !.pass = [at |-> "list", value |-> outbox.value,
                                           token |-> outbox.token, revision |-> known]])
  /\ UNCHANGED <<storage, remote, counts, saved, overlaps>>

PushesListed(t) ==
  /\ At(t, "list")
  /\ Keep(t, [tab[t] EXCEPT
       !.pushes = Append(@, Push(tab[t].pass.value, tab[t].pass.token, "pass",
                                 tab[t].pass.revision)),
       !.pass = [NoPass EXCEPT !.at = "push"]])
  /\ UNCHANGED <<storage, remote, counts, saved, overlaps>>

\* No pull while anything is queued.
Check(t) ==
  /\ At(t, "check") /\ Enters(In("check", Storing(t)))
  /\ IF outbox # NoWork THEN Ends(t)
     ELSE Go(t, "capture")
  /\ UNCHANGED <<storage, remote, counts, saved>>

\* The edits made from here on stop the pull.
Capture(t) ==
  /\ At(t, "capture")
  /\ Keep(t, [tab[t] EXCEPT !.edited = FALSE, !.pass.at = "pull"])
  /\ UNCHANGED <<storage, remote, counts, saved, overlaps>>

Pull(t) ==
  /\ At(t, "pull")
  /\ IF relay.revision = cursor THEN Ends(t)
     ELSE Keep(t, [tab[t] EXCEPT
            !.pass = [at |-> "apply", value |-> relay.value, token |-> 0,
                      revision |-> relay.revision]])
  /\ UNCHANGED <<storage, remote, counts, saved, overlaps>>

\* saveRemoteNoteIfUnchanged and applyRemoteNoteTombstone: the write expects
\* the value this tab stored last. A tombstone keeps the note's content.
Applied(t) ==
  IF ~IsDead(tab[t].pass.value) THEN tab[t].pass.value
  ELSE IF row = Null THEN Null ELSE Dead(row)

ApplyAlways(t) ==   \* bug: the row is not compared
  /\ At(t, "apply") /\ ~tab[t].edited
  /\ row' = Applied(t)
  /\ Keep(t, [tab[t] EXCEPT !.pass.at = "show",
              !.durable = IF IsDead(tab[t].pass.value) THEN @ ELSE tab[t].pass.value])
  /\ UNCHANGED <<outbox, copies, remote, counts, saved, overlaps>>

Apply(t) ==
  /\ At(t, "apply") /\ ~tab[t].edited
  /\ row = tab[t].durable /\ Enters(In("check", outbox # NoWork))
  /\ row' = Applied(t)
  /\ Keep(t, [tab[t] EXCEPT !.pass.at = "show",
              !.durable = IF IsDead(tab[t].pass.value) THEN @ ELSE tab[t].pass.value])
  /\ UNCHANGED <<outbox, copies, remote, counts, saved>>

\* Another tab has written the row: this one takes that value and stops.
ApplyRefused(t) ==
  /\ At(t, "apply") /\ ~tab[t].edited
  /\ row # tab[t].durable
  /\ IF row = Null
     THEN Keep(t, [tab[t] EXCEPT !.durable = Null, !.shown = Null, !.pass = NoPass])
     ELSE Keep(t, [tab[t] EXCEPT !.durable = row,
                     !.pass = [at |-> "refresh", value |-> row, token |-> 0, revision |-> 0]])
  /\ UNCHANGED <<storage, remote, counts, saved, overlaps>>

Refresh(t) ==
  /\ At(t, "refresh") /\ Enters(In("trash", Trashing(t)))
  /\ Keep(t, [tab[t] EXCEPT !.shown = tab[t].pass.value, !.visible = tab[t].pass.value,
                            !.pass = NoPass])
  /\ UNCHANGED <<storage, remote, counts, saved>>

Show(t) ==
  /\ At(t, "show") /\ ~tab[t].edited /\ Enters(In("trash", Trashing(t)))
  /\ LET value == IF IsDead(tab[t].pass.value) THEN Null ELSE tab[t].pass.value IN
     Keep(t, [tab[t] EXCEPT !.shown = value, !.visible = value, !.memo = Null,
                            !.pass.at = "ack"])
  /\ UNCHANGED <<storage, remote, counts, saved>>

\* stopForLocalEdit: nothing is acknowledged.
StopForEdit(t) ==
  /\ tab[t].pass.at \in {"apply", "show"} /\ tab[t].edited
  /\ Ends(t)
  /\ UNCHANGED <<storage, remote, counts, saved, overlaps>>

\* acknowledge advances the cursor and the base of the next push.
Acknowledge(t) ==
  LET later(n) == IF tab[t].pass.revision > n THEN tab[t].pass.revision ELSE n IN
  /\ At(t, "ack")
  /\ cursor' = later(cursor) /\ known' = later(known)
  /\ Ends(t)
  /\ UNCHANGED <<storage, relay, counts, saved, overlaps>>

Sync(t) ==
  \/ StartPass(t) \/ Flushed(t) \/ PushesListed(t) \/ Check(t) \/ Capture(t) \/ Pull(t)
  \/ Apply(t) \/ ApplyRefused(t) \/ Refresh(t) \/ Show(t)
  \/ StopForEdit(t) \/ Acknowledge(t)

-----------------------------------------------------------------------------
(* The other device, vaults left and tabs closed *)

\* Another device changes or deletes the note it has pulled.
Foreign ==
  /\ foreign < MaxForeign /\ Room
  /\ relay.value.state \in {"live", "trash"}
  /\ foreign' = foreign + 1
  /\ \E state \in {"live", "dead"} :
       relay' = [value |-> [With(relay.value, MaxEdits + foreign') EXCEPT !.state = state],
                 revision |-> relay.revision + 1]
  /\ UNCHANGED <<storage, known, cursor, tab, edits, faults, saved, overlaps>>

\* disableEncryptedSync drains the queue; what still runs belongs to a vault
\* that is not current any more, and the same vault may be opened again.
Stale(pushes) == [i \in DOMAIN pushes |-> [pushes[i] EXCEPT !.live = FALSE]]

Reenter(t) ==
  /\ Fault("leave")
  /\ tab[t].queue = NoEntry /\ tab[t].ops = {} /\ tab[t].pushes # <<>>
  /\ Keep(t, [Opened EXCEPT !.pushes = Stale(tab[t].pushes), !.edited = tab[t].edited])
  /\ UNCHANGED <<storage, remote, edits, foreign, saved, overlaps>>

\* A tab is closed, or its browser stops, and it is opened again.
Close(t) ==
  /\ Fault("close")
  /\ t \in Open /\ tab[t] # Opened
  /\ Keep(t, Opened)
  /\ UNCHANGED <<storage, remote, edits, foreign, saved, overlaps>>

EditsNext ==
  \/ \E t \in Tabs : \/ Create(t) \/ Type(t) \/ Timer(t) \/ Now(t) \/ Trash(t) \/ Delete(t)
                      \/ Write(t) \/ Deliver(t) \/ Sync(t) \/ Reenter(t) \/ Close(t)
  \/ Foreign

EditsSpec == EditsInit /\ [][EditsNext]_vars

-----------------------------------------------------------------------------
(* Properties *)

InMemory(t) ==
  tab[t].shown.changes
    \cup (UNION {o.value.changes : o \in tab[t].ops})
    \cup (UNION {tab[t].pushes[i].value.changes : i \in DOMAIN tab[t].pushes})

\* A change that a write of the row made durable is afterwards in the row, at
\* the relay, in a conflict copy, or still held by an open tab that has it to
\* write or to push. README.md:39 promises it; a listed value that is pushed
\* after a newer one (noteStore.svelte.ts:1960) breaks it.
SavedEditsAlwaysKept ==
  saved \subseteq row.changes \cup outbox.value.changes \cup relay.value.changes
                   \cup (UNION {c.changes : c \in copies})
                   \cup (UNION {InMemory(t) : t \in Tabs})

\* Unless a step fell into a window ("trash" excepted, which shows an older value
\* but drops none), conditional writes, outbox tokens and copies together leave
\* no step that drops such a change, whatever the other tab, the other device, a
\* pass or a vault that is left do meanwhile.
SavedEditsKept == overlaps \subseteq {"trash"} => SavedEditsAlwaysKept

\* Unless a step fell into a window ("copy" excepted, which loses what is this
\* browser's own), a push never replaces a version of another device that it does
\* not contain: conflicting edits become a copy instead of overwriting. (A
\* tombstone may replace a tombstone: the one applied keeps the row's content.)
ForeignChanges == {c \in Changes : c > MaxEdits}
NothingOverwritten ==
  [][overlaps' \subseteq {"copy"} /\ ~IsDead(relay.value) =>
       relay.value.changes \cap ForeignChanges \subseteq relay'.value.changes]_vars
=============================================================================
