-------------------------------- MODULE Clip --------------------------------
(***************************************************************************)
(* How the command line clips a file: a private copy, a durable intent,    *)
(* the bundle that publishes the attachment with the Clipboard note, and   *)
(* the recovery every later command starts with.                           *)
(*                                                                         *)
(*   Source: apps/cli/src/cli.ts and clipStaging.ts over the bundles of    *)
(*   packages/client/src/sync.ts and of the relay.                         *)
(*                                                                         *)
(* One command runs at a time (ConfigLock) and may be killed between any   *)
(* two steps; every write of its configuration file is atomic.  Compound   *)
(* and Relay have the bundle step by step; here staging and finalizing are *)
(* one exchange each, with the payload stored before it.                   *)
(***************************************************************************)
EXTENDS Naturals

CONSTANTS
  Ids,          \* attachment IDs, 1..n, in the order they are drawn
  Logins,       \* credentials the command line gets, in their order
  Mutations,    \* bundles, 1..n
  MaxFaults,    \* commands killed, requests and answers lost
  MaxEvents     \* edits, removals, lost copies and expired stages

VARIABLES
  intent,     \* PendingClipIntent: the attachment ID and the file of its copy
  cache,      \* clips of the cached Clipboard note
  base,       \* revision the device knows of that note
  root,       \* the pending bundle of the note
  files,      \* the staging directory; a copy has the name of its first ID
  relay,      \* the note's clips and revision, stages, receipts, used IDs
  login,      \* the stored credential
  command,    \* the command that runs
  reported,   \* history: clips a command printed
  removed,    \* history: clips another device removed
  lost,       \* history: copies that disappeared
  copies,     \* history: <<file, ID>> of every clip that was intended
  drawn, mutations, faults, events,
  overlaps    \* history: the windows of the code that a step fell into

clipVars == <<intent, cache, base, root, files, relay, login, command, reported,
              removed, lost, copies, drawn, mutations, faults, events, overlaps>>

NoIntent == [id |-> 0, file |-> 0]
NoRoot   == [mutation |-> 0, id |-> 0, login |-> 0, base |-> 0, sealed |-> FALSE,
             staged |-> FALSE, final |-> FALSE, done |-> FALSE]
Off      == [at |-> "off", clips |-> FALSE, own |-> 0, early |-> FALSE,
             attempt |-> 0, file |-> 0, then |-> "off"]

ClipInit ==
  /\ intent = NoIntent /\ cache = {} /\ base = 0 /\ root = NoRoot /\ files = {}
  /\ relay = [listed |-> {}, rev |-> 0, stages |-> {}, receipts |-> {}, used |-> {}]
  /\ login = 1 /\ command = Off
  /\ reported = {} /\ removed = {} /\ lost = {} /\ copies = {}
  /\ drawn = 0 /\ mutations = 0 /\ faults = 0 /\ events = 0 /\ overlaps = {}

-----------------------------------------------------------------------------
Doing(at)  == command.at = at
To(at)     == command' = [command EXCEPT !.at = at]
Exit       == command' = Off
Fault      == faults < MaxFaults /\ faults' = faults + 1
Event      == events < MaxEvents /\ events' = events + 1
Foreign    == root # NoRoot /\ root.login # login
Draw       == drawn + 1 \in Ids /\ drawn' = drawn + 1
past       == <<login, removed, lost, drawn, mutations, events>>
local      == <<cache, base, files, relay, reported, copies>>

\* What follows once no clip is interrupted.
After ==
  IF ~command.clips THEN "off" ELSE IF command.own = 0 THEN "copy" ELSE "report"

\* runCli: the lock, then the copies no intent names are swept.
StartSweeping(clips) ==   \* bug: the intent's copy is swept too
  /\ Doing("off")
  /\ files' = {}
  /\ command' = [Off EXCEPT !.at = "committed", !.clips = clips]
  /\ UNCHANGED <<intent, cache, base, root, relay, reported, copies, past, faults>>

Start(clips) ==
  /\ Doing("off")
  /\ files' = files \cap {intent.file}
  /\ command' = [Off EXCEPT !.at = "committed", !.clips = clips]
  /\ UNCHANGED <<intent, cache, base, root, relay, reported, copies, past, faults>>

-----------------------------------------------------------------------------
(* The cache and the intent are written together, then the bundle goes, then  *)
(* the copy.                                                                  *)

SettleUncached ==   \* bug: the intent is cleared without the cached note
  /\ intent' = NoIntent /\ UNCHANGED cache

Settle ==
  /\ intent' = NoIntent
  /\ cache' = cache \cup {intent.id}

Complete ==
  /\ Doing("complete")
  /\ root' = NoRoot
  /\ To("unstage")
  /\ UNCHANGED <<intent, local, past, faults>>

\* removeCompletedClipStage; that it fails is only a warning.
Unstage ==
  /\ Doing("unstage")
  /\ \/ files' = files \ {command.file} /\ UNCHANGED faults
     \/ Fault /\ UNCHANGED files
  /\ To(command.then)
  /\ UNCHANGED <<intent, cache, base, root, relay, reported, copies, past>>

\* recoverCommittedClipHandles: a bundle whose answer was stored.
RecoverCommitted ==
  /\ Doing("committed")
  /\ CASE ~root.done -> To("pending") /\ UNCHANGED <<intent, cache, faults>>
       [] root.done /\ intent.id = root.id ->
            /\ Settle
            /\ command' = [command EXCEPT !.at = "complete", !.file = intent.file,
                             !.then = "pending"]
            /\ UNCHANGED faults
       [] root.done /\ intent # NoIntent /\ intent.id # root.id ->
            Exit /\ UNCHANGED <<intent, cache, faults>>
       [] root.done /\ intent = NoIntent ->
            /\ \/ /\ root.id \in cache \cap relay.listed
                  /\ command' = [command EXCEPT !.at = "complete", !.file = root.id,
                                   !.then = "pending"]
                  /\ UNCHANGED faults
               \/ root.id \notin cache \cap relay.listed /\ Exit /\ UNCHANGED faults
               \/ Fault /\ Exit
            /\ UNCHANGED <<intent, cache>>
  /\ UNCHANGED <<root, base, files, relay, reported, copies, past>>

\* recoverPendingClipCompound, before the pull, with the same credential only.
RecoverPending ==
  /\ Doing("pending")
  /\ command' = IF intent = NoIntent \/ root = NoRoot \/ Foreign
                THEN [command EXCEPT !.at = "pull"]
                ELSE [command EXCEPT !.at = "stage", !.early = TRUE]
  /\ UNCHANGED <<intent, root, local, past, faults>>

\* syncNotes, as far as the Clipboard note goes.
PullUnsaved ==   \* bug: the page is acknowledged, and not saved
  /\ Doing("pull") \/ Doing("repull")
  /\ base' = relay.rev
  /\ To(IF Doing("pull") THEN "recover" ELSE "attempt")
  /\ UNCHANGED <<intent, cache, root, files, relay, reported, copies, past, faults>>

Pull ==
  /\ Doing("pull") \/ Doing("repull")
  /\ \/ /\ cache' = relay.listed /\ base' = relay.rev
        /\ To(IF Doing("pull") THEN "recover" ELSE "attempt") /\ UNCHANGED faults
     \/ Fault /\ Exit /\ UNCHANGED <<cache, base>>
  /\ UNCHANGED <<intent, root, files, relay, reported, copies, past>>

-----------------------------------------------------------------------------
(* recoverInterruptedClip *)

Recover ==
  /\ Doing("recover")
  /\ command' = [command EXCEPT
       !.early = FALSE, !.attempt = 0, !.file = intent.file, !.then = After,
       !.at = IF intent = NoIntent THEN After
              ELSE IF intent.id \in cache THEN "retire" ELSE "attempt"]
  /\ UNCHANGED <<intent, root, local, past, faults>>

\* A clip the pull brought: abandonPendingCompoundAfterCredentialChange.
Retire ==
  /\ Doing("retire")
  /\ root' = IF Foreign /\ ~root.done THEN NoRoot ELSE root
  /\ To("forget")
  /\ UNCHANGED <<intent, local, past, faults>>

Forget ==
  /\ Doing("forget")
  /\ intent' = NoIntent
  /\ To("unstage")
  /\ UNCHANGED <<root, local, past, faults>>

\* One of three attempts: the bundle there is, or a new one.
NewBundle ==
  /\ mutations + 1 \in Mutations /\ mutations' = mutations + 1
  /\ root' = [NoRoot EXCEPT !.mutation = mutations', !.id = intent.id,
                !.login = login, !.base = base]
  /\ To("stage")

Attempt ==
  /\ Doing("attempt")
  /\ \/ /\ command.attempt = 3
        /\ Exit /\ UNCHANGED <<root, mutations>>
     \/ /\ command.attempt < 3 /\ intent.id \in cache
        /\ To("forget") /\ UNCHANGED <<root, mutations>>
     \/ /\ command.attempt < 3 /\ intent.id \notin cache /\ root # NoRoot
        /\ To("stage") /\ UNCHANGED <<root, mutations>>
     \/ /\ command.attempt < 3 /\ intent.id \notin cache /\ root = NoRoot
        /\ IF intent.file \in files THEN NewBundle
           ELSE To("cancel") /\ UNCHANGED <<root, mutations>>
  /\ UNCHANGED <<intent, local, login, removed, lost, drawn, events, faults>>

\* A terminal refusal ends this device's bundle, never another credential's.
\* A conflict is pulled and tried again twice; else the clip gets a new ID.
Refused(conflict) ==
  /\ root' = IF Foreign THEN root ELSE NoRoot
  /\ command' =
       IF command.early THEN [command EXCEPT !.at = "pull"]
       ELSE IF conflict /\ ~Foreign /\ command.attempt < 2
       THEN [command EXCEPT !.at = "repull", !.attempt = @ + 1]
       ELSE [command EXCEPT !.at = "abandon", !.attempt = @ + 1]

Lost == Fault /\ Exit

\* The relay keeps a reserved ID for its bundle and credential.
StageRefused ==
  \/ \E r \in relay.receipts : r.mutation = root.mutation
  \/ \E s \in relay.stages :
       s.id = root.id /\ (s.mutation # root.mutation \/ s.login # login)
  \/ root.id \in relay.used

Stage ==
  LET kept == [root EXCEPT !.sealed = TRUE]
      stage == [mutation |-> root.mutation, id |-> root.id, login |-> login] IN
  /\ Doing("stage")
  /\ CASE root.done   -> To("settle") /\ UNCHANGED <<root, relay, faults>>
       [] ~root.done /\ root.staged -> To("final") /\ UNCHANGED <<root, relay, faults>>
       [] ~root.done /\ ~root.staged /\ ~root.sealed /\ intent.file \notin files ->
            To("cancel") /\ UNCHANGED <<root, relay, faults>>
       [] ~root.done /\ ~root.staged /\ (root.sealed \/ intent.file \in files) ->
            \/ /\ StageRefused /\ Refused(FALSE) /\ UNCHANGED <<relay, faults>>
            \/ /\ ~StageRefused
               /\ relay' = [relay EXCEPT !.stages = @ \cup {stage}]
               /\ \/ root' = [kept EXCEPT !.staged = TRUE] /\ To("final") /\ UNCHANGED faults
                  \/ root' = kept /\ Lost
            \/ root' = kept /\ UNCHANGED relay /\ Lost
  /\ UNCHANGED <<intent, cache, base, files, reported, copies, past>>

Staged == \E s \in relay.stages : s.mutation = root.mutation /\ s.login = login
Receipts == {r \in relay.receipts : r.mutation = root.mutation}

\* The relay publishes the clip with the note, or repeats that it has.
Published ==
  [relay EXCEPT !.listed = @ \cup {root.id}, !.rev = @ + 1, !.used = @ \cup {root.id},
     !.stages = {s \in @ : s.mutation # root.mutation},
     !.receipts = @ \cup {[mutation |-> root.mutation, login |-> login, rev |-> relay.rev + 1]}]

Answered(rev) ==
  /\ root' = [root EXCEPT !.final = TRUE, !.done = TRUE]
  /\ base' = IF base < rev THEN rev ELSE base
  /\ To("settle") /\ UNCHANGED faults

UnansweredPasses ==   \* bug: no answer is taken for the relay's word
  /\ root' = [root EXCEPT !.final = TRUE, !.done = TRUE]
  /\ Fault /\ To("settle") /\ UNCHANGED base

Unanswered == root' = [root EXCEPT !.final = TRUE] /\ Lost /\ UNCHANGED base

Finalize ==
  LET repeats == \E r \in Receipts : r.login = login
      accepts == Receipts = {} /\ root.base = relay.rev /\ Staged IN
  /\ Doing("final")
  /\ \/ /\ repeats /\ UNCHANGED relay
        /\ (\E r \in Receipts : Answered(r.rev)) \/ Unanswered
     \/ /\ accepts /\ relay' = Published
        /\ Answered(relay.rev + 1) \/ Unanswered
     \/ /\ ~repeats /\ ~accepts
        /\ Refused(Receipts = {} /\ root.base # relay.rev)
        /\ relay' = [relay EXCEPT !.stages =
                       {s \in @ : Receipts # {} \/ root.base = relay.rev
                                    \/ s.mutation # root.mutation \/ s.login # login}]
        /\ UNCHANGED <<base, faults>>
     \/ Unanswered /\ UNCHANGED relay
  /\ UNCHANGED <<intent, cache, files, reported, copies, past>>

SettleClip ==
  /\ Doing("settle")
  /\ IF intent.id = root.id
     THEN /\ Settle
          /\ command' = [command EXCEPT !.at = "complete", !.file = intent.file,
                           !.then = IF command.early THEN "pull" ELSE After]
     ELSE Exit /\ UNCHANGED <<intent, cache>>
  /\ UNCHANGED <<root, base, files, relay, reported, copies, past, faults>>

\* Another credential's bundle is abandoned; then the intent gets a new ID.
Abandon ==
  /\ Doing("abandon")
  /\ root' = IF Foreign /\ ~root.done THEN NoRoot ELSE root
  /\ To("reidentify")
  /\ UNCHANGED <<intent, local, past, faults>>

Reidentify ==
  /\ Doing("reidentify") /\ Draw
  /\ intent' = [intent EXCEPT !.id = drawn']
  /\ copies' = copies \cup {<<intent.file, drawn'>>}
  /\ To("attempt")
  /\ UNCHANGED <<root, cache, base, files, relay, reported, login, removed, lost,
                 mutations, events, faults>>

\* The private copy is gone: cancelPendingCompoundCommit, then the note is
\* pushed without the clip, and the intent goes.
Cancel ==
  LET cancels == root # NoRoot /\ ~root.final IN
  /\ Doing("cancel")
  /\ root' = IF cancels THEN NoRoot ELSE root
  /\ IF command.early
     THEN IF cancels THEN To("pull") ELSE Exit
     ELSE To("discard")
  /\ UNCHANGED <<intent, local, past, faults>>

Discard ==
  /\ Doing("discard")
  /\ \/ /\ base = relay.rev
        /\ relay' = [relay EXCEPT !.rev = @ + 1] /\ base' = relay.rev + 1
        /\ intent' = NoIntent
        /\ To("unstage") /\ UNCHANGED <<cache, faults>>
     \/ /\ base # relay.rev
        /\ cache' = relay.listed /\ base' = relay.rev
        /\ UNCHANGED <<intent, relay, command, faults>>
     \/ Lost /\ UNCHANGED <<intent, relay, cache, base>>
  /\ UNCHANGED <<root, files, reported, copies, past>>

-----------------------------------------------------------------------------
(* handleClip, after its own sync *)

\* stageClipFile, then the intent that names the copy.
Copy ==
  /\ Doing("copy") /\ Draw
  /\ files' = files \cup {drawn'}
  /\ command' = [command EXCEPT !.at = "intend", !.own = drawn']
  /\ UNCHANGED <<intent, cache, base, root, relay, reported, copies, login, removed,
                 lost, mutations, events, faults>>

Intend ==
  /\ Doing("intend")
  /\ intent' = [id |-> command.own, file |-> command.own]
  /\ copies' = copies \cup {<<command.own, command.own>>}
  /\ To("recover")
  /\ UNCHANGED <<root, cache, base, files, relay, reported, past, faults>>

\* The result of the recovery is not looked at.
Report ==
  /\ Doing("report")
  /\ reported' = reported \cup {command.own}
  /\ Exit
  /\ UNCHANGED <<intent, cache, base, root, files, relay, copies, past, faults>>

-----------------------------------------------------------------------------
(* What happens to a command, and around it *)

Kill ==
  /\ ~Doing("off") /\ Fault /\ Exit
  /\ UNCHANGED <<intent, root, local, past>>

LogIn ==
  /\ Doing("off") /\ login + 1 \in Logins
  /\ login' = login + 1
  /\ UNCHANGED <<intent, root, local, command, removed, lost, drawn, mutations, events, faults>>

EditClipboard ==
  /\ Event
  /\ relay' = [relay EXCEPT !.rev = @ + 1]
  /\ UNCHANGED <<intent, root, cache, base, files, reported, copies, command, login, removed,
                 lost, drawn, mutations, faults>>

RemoveClip(id) ==
  /\ id \in relay.listed /\ Event
  /\ relay' = [relay EXCEPT !.rev = @ + 1, !.listed = @ \ {id}]
  /\ removed' = removed \cup {id}
  /\ UNCHANGED <<intent, root, cache, base, files, reported, copies, command, login, lost,
                 drawn, mutations, faults>>

ExpireStage ==
  /\ relay.stages # {} /\ Event
  /\ \E s \in relay.stages : relay' = [relay EXCEPT !.stages = @ \ {s}]
  /\ UNCHANGED <<intent, root, cache, base, files, reported, copies, command, login, removed,
                 lost, drawn, mutations, faults>>

LoseCopy ==
  /\ files # {} /\ Event
  /\ \E f \in files : files' = files \ {f} /\ lost' = lost \cup {f}
  /\ UNCHANGED <<intent, root, cache, base, relay, reported, copies, command, login, removed,
                 drawn, mutations, faults>>

CommandStep ==
  \/ Complete \/ Unstage \/ RecoverCommitted \/ RecoverPending \/ Pull \/ Recover
  \/ Retire \/ Forget \/ Attempt \/ Stage \/ Finalize \/ SettleClip \/ Abandon
  \/ Reidentify \/ Cancel \/ Discard \/ Copy \/ Intend \/ Report \/ Kill

-----------------------------------------------------------------------------
(* Three windows of the code, which the steps fall into freely *)

\* A step that falls into a window is remembered; nothing keeps it from it.
Enters(window, in) == overlaps' = IF in THEN overlaps \cup {window} ELSE overlaps

\* A clip is removed whose bundle is not completed; the stage of a command that
\* clips expires, or its private copy disappears.
ClipNext ==
  \/ \E id \in Ids : RemoveClip(id) /\ Enters("removal", root.id = id)
  \/ ExpireStage /\ Enters("expired", command.own # 0)
  \/ LoseCopy /\ Enters("tampered", command.own \in files)
  \/ /\ \/ \E clips \in BOOLEAN : Start(clips)
        \/ CommandStep
        \/ LogIn \/ EditClipboard
     /\ UNCHANGED overlaps

ClipSpec == ClipInit /\ [][ClipNext]_clipVars

-----------------------------------------------------------------------------
(* Properties *)

\* A clip whose ID a command printed was published by the relay
\* (docs/architecture.md: success is reported only after relay and cache), but for
\* a command whose stage expired or whose copy disappeared: the clip gets another
\* ID or none, and cli.ts prints the first one.
ReportedArePublished ==
  {"expired", "tampered"} \cap overlaps = {} => reported \subseteq relay.listed \cup removed

\* The private copy stays for as long as an intent may need it, whatever was
\* interrupted and whichever command sweeps.
CopiesAreKept == intent # NoIntent => intent.file \in files \cup lost

\* A bundle the relay has committed can be completed by the next command: the
\* intent still names the clip, or cache and relay both have it.  But when another
\* device removed the clip meanwhile, cli.ts throws at every command from then on.
CommittedCanFinish ==
  "removal" \notin overlaps =>
    (root.done =>
       \/ intent.id = root.id
       \/ intent = NoIntent /\ root.id \in cache \cap relay.listed)

\* A clip is published under one ID: neither a retry nor another credential
\* publishes it again.
PublishedOnce ==
  \A c, d \in copies :
    c[1] = d[1] /\ {c[2], d[2]} \subseteq relay.listed => c = d
=============================================================================
