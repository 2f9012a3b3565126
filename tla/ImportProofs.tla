---------------------------- MODULE ImportProofs ----------------------------
(***************************************************************************)
(* What was imported has its bytes, every recovery succeeds and nothing is *)
(* replaced, for any number of tabs, imports and faults, but for what the  *)
(* steps that fell into a window of Import account for.                    *)
(*                                                                         *)
(* The heart of the invariant is who may still commit (Live): at most the  *)
(* import in the journal, until a recovery takes the journal and fences    *)
(* the receipt.  That holds whatever the steps fall into; what it says of  *)
(* the notes and the bytes is given up window by window.                   *)
(***************************************************************************)
EXTENDS Import, TLAPS

Writing == {"stage", "mark", "save"}
Before  == {"begin", "prepare", "renew", "unmark", "discard", "recover"} \cup Writing
Decided == {"decide", "rollback", "clear", "cleared", "complete"}
Stages  == {"idle", "list", "state", "cancel"} \cup Before \cup Decided
States  == {"none", "pending", "cancelled", "committed"}

Owners == ({"importer"} \X Batches) \cup ({"recovery"} \X Tabs)
Journals == [batch : Batches, id : Ids, owner : Owners, lease : BOOLEAN]
Works == [at : Stages, batch : Ids, id : Ids, as : {"importer", "recovery"},
          staged : BOOLEAN, seen : BOOLEAN, state : States]

ImportTypes ==
  /\ journal \in {NoJournal} \cup Journals
  /\ receipts \in [Batches -> States]
  /\ notes \in [Ids -> {"absent", "imported", "pulled", "deleted"}]
  /\ bytes \in [Ids -> [gen : Ids, staged : BOOLEAN]]
  /\ importer \in [Tabs -> Works]
  /\ batches \in Ids

Mine(t) == Work(t).batch
Idle(t) == On(t, "idle")
Imports(t) == ~Idle(t) /\ Work(t).as = "importer"
Recovers(t) == ~Idle(t) /\ Work(t).as = "recovery"

\* A batch has one ID, and one importer; those to come have left nothing yet.
OneOfBatch ==
  /\ \A t \in Tabs : ~Idle(t) => Mine(t) \in 1..batches /\ Work(t).id \in {Original, Mine(t)}
  /\ Journaled => journal.batch \in 1..batches /\ journal.id \in {Original, journal.batch}
  /\ \A t, u \in Tabs : ~Idle(t) /\ ~Idle(u) /\ Mine(t) = Mine(u) => Work(t).id = Work(u).id
  /\ \A t \in Tabs : ~Idle(t) /\ Journaled /\ journal.batch = Mine(t) => journal.id = Work(t).id
  /\ \A t, u \in Tabs : Imports(t) /\ Imports(u) /\ Mine(t) = Mine(u) => t = u
  /\ \A t \in Tabs : Recovers(t) => Work(t).at \notin Before
  /\ \A b \in Batches : b > batches => receipts[b] = "none" /\ notes[b] = "absent"

\* An import that has not begun is known to nobody else.
FreshAtBegin ==
  \A t \in Tabs : On(t, "begin") =>
    /\ receipts[Mine(t)] = "none" /\ ~Work(t).staged
    /\ Journaled => journal.batch # Mine(t)
    /\ \A u \in Tabs : ~Idle(u) /\ Mine(u) = Mine(t) => u = t

ImporterOwns(b) == Journaled /\ journal.batch = b /\ journal.owner = <<"importer", b>>

\* An import that may still commit: it has the journal, or has seen that it had it and
\* its receipt has not been cancelled since.
Live(t) ==
  /\ Imports(t)
  /\ \/ Work(t).at \in {"prepare", "renew"} /\ ImporterOwns(Mine(t))
     \/ Work(t).at \in Writing /\ receipts[Mine(t)] = "pending"

LiveIsJournaled == \A t \in Tabs : Live(t) => Journaled /\ journal.batch = Mine(t)

\* A recovery has taken the journal from the importer, for good; and once it has
\* decided the import can no longer commit.
RecoveryFences ==
  /\ \A t \in Tabs : Recovers(t) => ~ImporterOwns(Mine(t))
  /\ \A t, u \in Tabs : Work(t).at \in Decided /\ Mine(u) = Mine(t) => ~Live(u)

\* What a tab has seen of a commit, and what it has read of its receipt.
Shows(t) ==
  /\ Work(t).at \in Before => receipts[Mine(t)] # "committed"
  /\ Work(t).at \in {"state", "cancel", "decide"} /\ Work(t).seen => notes[Work(t).id] # "absent"
  /\ On(t, "list") /\ Work(t).state = "committed" => notes[Work(t).id] # "absent"
  /\ On(t, "decide") /\ ~Work(t).seen => Work(t).state # "committed"

\* What was committed stays under its ID, and its import no longer writes.
CommitsShow ==
  /\ \A t \in Tabs : Shows(t)
  /\ \A t, u \in Tabs : ~Idle(t) /\ Work(t).state = "committed" /\ Mine(u) = Mine(t) =>
       Work(u).at \notin Before
  /\ \A b \in Batches : receipts[b] = "committed" =>
       /\ \A t \in Tabs : ~Idle(t) /\ Mine(t) = b => notes[Work(t).id] # "absent"
       /\ Journaled /\ journal.batch = b => notes[journal.id] # "absent"

\* Unless a record came under a chosen ID: an import that begins, or may still commit,
\* finds none there.
NotesAbsent ==
  \A t \in Tabs : On(t, "begin") \/ Live(t) => notes[Work(t).id] = "absent"

BytesOf(t) == bytes[Work(t).id].gen = Mine(t)
IsImported(t) == notes[Work(t).id] = "imported"

\* The bytes of the batch from their staging to the commit, or to their discarding.
StagedBytes ==
  /\ \A t \in Tabs : On(t, "stage") /\ IsImported(t) => bytes[Work(t).id].gen > Mine(t)
  /\ \A t \in Tabs : On(t, "stage") /\ Journaled /\ journal.id = Work(t).id =>
       Mine(t) <= journal.batch
  /\ \A t \in Tabs : Work(t).at \in {"mark", "save"} /\ Live(t) =>
       BytesOf(t) /\ bytes[Work(t).id].staged
  /\ \A t \in Tabs : Work(t).at \in Before /\ Work(t).staged /\ IsImported(t) => ~BytesOf(t)

\* Bytes that a recovery may discard are of no imported note, or of a commit it reads.
Sees(t) ==
  /\ Work(t).at \in {"state", "cancel"} /\ ~Work(t).seen /\ IsImported(t) /\ BytesOf(t) =>
       receipts[Mine(t)] = "committed"
  /\ On(t, "decide") /\ ~Work(t).seen /\ IsImported(t) => ~BytesOf(t)
  /\ On(t, "rollback") /\ IsImported(t) => ~BytesOf(t)

RecoverySees == \A t \in Tabs : Sees(t)

ImportedAreKept == \A i \in Ids : notes[i] = "imported" => bytes[i].gen # 0

\* Unless a note was pulled or deleted meanwhile: what is journaled or in progress stands
\* for one that is imported or not there.
ClaimedNotes ==
  /\ \A t \in Tabs : ~Idle(t) => notes[Work(t).id] \in {"absent", "imported"}
  /\ Journaled => notes[journal.id] \in {"absent", "imported"}

\* The windows a step has fallen into, as far as each part of the invariant is concerned.
Uncollided  == "collision" \notin overlaps
Orderly     == overlaps \subseteq {"deletion"}
Undisturbed == overlaps = {}

ImportInv ==
  /\ ImportTypes /\ OneOfBatch /\ FreshAtBegin /\ LiveIsJournaled /\ RecoveryFences
  /\ CommitsShow
  /\ Uncollided => NotesAbsent
  /\ Orderly => StagedBytes /\ RecoverySees /\ ImportedAreKept
  /\ Undisturbed => ClaimedNotes

Further ==
  (Uncollided' => Uncollided) /\ (Orderly' => Orderly) /\ (Undisturbed' => Undisturbed)

\* No window is forgotten, and one that is entered counts.
LEMMA Entered ==
  ASSUME NEW window, NEW in, Enters(window, in)
  PROVE  /\ Further
         /\ window = "collision" /\ Uncollided' => ~in
         /\ window # "deletion" /\ Orderly' => ~in
         /\ Undisturbed' => ~in
BY DEF Enters, Further, Uncollided, Orderly, Undisturbed

LEMMA Nested == /\ (Undisturbed => Orderly) /\ (Orderly => Uncollided)
                /\ (Undisturbed' => Orderly') /\ (Orderly' => Uncollided')
BY DEF Uncollided, Orderly, Undisturbed

LEMMA UnchangedWindows == ASSUME UNCHANGED overlaps PROVE Further
BY DEF Further, Uncollided, Orderly, Undisturbed

Counted == MaxBatches \in Nat

LEMMA IdsAreNumbers ==
  ASSUME Counted
  PROVE  /\ Ids \subseteq Nat /\ Batches \subseteq Nat \ {0} /\ Batches \subseteq Ids
         /\ Original \in Ids /\ Original \notin Batches /\ Original = 0
         /\ NoJournal \notin Journals
         /\ \A b \in Ids : 1..b \subseteq Batches
BY DEF Ids, Batches, Original, Counted, NoJournal, Journals

-----------------------------------------------------------------------------
(* Steps of one tab *)

\* What a step that leaves the tab with its batch changes of its work, and that it
\* changes that of no other tab.
Moves(t, at, staged, seen, state) ==
  /\ importer' \in [Tabs -> Works]
  /\ \A u \in Tabs : u # t => importer'[u] = importer[u]
  /\ importer'[t].at = at /\ importer'[t].staged = staged
  /\ importer'[t].seen = seen /\ importer'[t].state = state
  /\ importer'[t].batch = importer[t].batch /\ importer'[t].id = importer[t].id
  /\ importer'[t].as = importer[t].as

LEMMA GoesMoves ==
  ASSUME ImportTypes, NEW t \in Tabs, NEW w \in Works, Goes(t, w),
         w.batch = importer[t].batch, w.id = importer[t].id, w.as = importer[t].as
  PROVE  Moves(t, w.at, w.staged, w.seen, w.state)
<1>1. importer' = [importer EXCEPT ![t] = w] /\ importer \in [Tabs -> Works]
  BY DEF ImportTypes, Goes
<1>2. /\ importer' \in [Tabs -> Works] /\ importer'[t] = w
      /\ \A u \in Tabs : u # t => importer'[u] = importer[u]
  BY <1>1
<1>3. QED
  BY <1>2 DEF Moves

LEMMA StepMoves ==
  ASSUME ImportTypes, NEW t \in Tabs, NEW at \in Stages, StepTo(t, at)
  PROVE  Moves(t, at, importer[t].staged, importer[t].seen, importer[t].state)
<1> DEFINE w == [importer[t] EXCEPT !.at = at]
<1>1. Goes(t, w) /\ importer[t] \in Works
  BY DEF StepTo, ImportTypes, Work
<1>2. /\ w \in Works /\ w.at = at /\ w.batch = importer[t].batch /\ w.id = importer[t].id
      /\ w.as = importer[t].as /\ w.staged = importer[t].staged /\ w.seen = importer[t].seen
      /\ w.state = importer[t].state
  BY <1>1 DEF Works
<1> HIDE DEF w
<1>3. QED
  BY <1>1, <1>2, GoesMoves

LEMMA ReadMoves ==
  ASSUME ImportTypes, NEW t \in Tabs, NEW at \in Stages, NEW seen \in BOOLEAN, NEW state \in States
  PROVE  /\ Goes(t, [importer[t] EXCEPT !.seen = seen, !.at = at]) =>
              Moves(t, at, importer[t].staged, seen, importer[t].state)
         /\ Goes(t, [importer[t] EXCEPT !.state = state, !.at = at]) =>
              Moves(t, at, importer[t].staged, importer[t].seen, state)
<1> DEFINE w == [importer[t] EXCEPT !.seen = seen, !.at = at]
           x == [importer[t] EXCEPT !.state = state, !.at = at]
<1>1. importer[t] \in Works
  BY DEF ImportTypes
<1>2. /\ w \in Works /\ w.at = at /\ w.batch = importer[t].batch /\ w.id = importer[t].id
      /\ w.as = importer[t].as /\ w.staged = importer[t].staged /\ w.seen = seen
      /\ w.state = importer[t].state
  BY <1>1 DEF Works
<1>3. /\ x \in Works /\ x.at = at /\ x.batch = importer[t].batch /\ x.id = importer[t].id
      /\ x.as = importer[t].as /\ x.staged = importer[t].staged /\ x.seen = importer[t].seen
      /\ x.state = state
  BY <1>1 DEF Works
<1> HIDE DEF w, x
<1>4. Goes(t, w) => Moves(t, at, importer[t].staged, seen, importer[t].state)
  BY <1>2, GoesMoves
<1>5. Goes(t, x) => Moves(t, at, importer[t].staged, importer[t].seen, state)
  BY <1>3, GoesMoves
<1>6. QED
  BY <1>4, <1>5 DEF w, x

USE DEF Work, On, Mine, Idle, Imports, Recovers, Before, Writing, IsImported, BytesOf

USE DEF Further

LEMMA Parts ==
  ASSUME ImportInv
  PROVE  /\ ImportTypes /\ OneOfBatch /\ FreshAtBegin /\ LiveIsJournaled /\ RecoveryFences
         /\ CommitsShow
         /\ Uncollided => NotesAbsent
         /\ Orderly => StagedBytes /\ RecoverySees /\ ImportedAreKept
         /\ Undisturbed => ClaimedNotes
         /\ (Undisturbed => Orderly) /\ (Orderly => Uncollided)
BY DEF ImportInv, Undisturbed, Orderly, Uncollided

LEMMA TypesOfParts ==
  ASSUME ImportTypes, Counted
  PROVE  /\ \A u \in Tabs : importer[u].batch \in Nat /\ importer[u].batch \in Ids
                           /\ importer[u].id \in Ids /\ importer[u].at \in Stages
                           /\ importer[u].as \in {"importer", "recovery"}
         /\ \A i \in Ids : bytes[i].gen \in Nat /\ bytes[i].gen \in Ids
                          /\ bytes[i].staged \in BOOLEAN
         /\ Journaled => journal \in Journals /\ journal.batch \in Batches /\ journal.batch \in Nat
                          /\ journal.id \in Ids
BY IdsAreNumbers DEF ImportTypes, Works, Journals, Journaled

LEMMA ActiveBatches ==
  ASSUME ImportInv, Counted
  PROVE  /\ batches \in Nat
         /\ \A u \in Tabs : importer[u].at # "idle" =>
              importer[u].batch \in Batches /\ importer[u].batch <= batches
<1>1. \A u \in Tabs : importer[u].at # "idle" => importer[u].batch \in 1..batches
  BY Parts DEF OneOfBatch
<1>2. batches \in Ids /\ batches \in Nat /\ 1..batches \subseteq Batches
  BY Parts, IdsAreNumbers DEF ImportTypes
<1>3. QED
  BY <1>1, <1>2

LEMMA EndsKeeps ==
  ASSUME ImportInv, Counted, Further, NEW t \in Tabs, Ends(t),
         UNCHANGED <<receipts, notes, bytes, batches>>, journal' \in {journal, NoJournal},
         journal' = NoJournal => \A u \in Tabs : Live(u) => u = t
  PROVE  ImportInv'
<1> USE IdsAreNumbers, Parts, TypesOfParts
<1>1. /\ importer' \in [Tabs -> Works] /\ importer'[t].at = "idle"
      /\ \A u \in Tabs : u # t => importer'[u] = importer[u]
  <2>1. AtRest \in Works /\ AtRest.at = "idle"
    BY DEF AtRest, Works, Stages, States
  <2> HIDE DEF AtRest
  <2>2. QED
    BY <2>1 DEF Ends, Goes, ImportTypes
<1>2. ImportTypes'
  BY <1>1 DEF ImportTypes
<1>3. journal' = journal \/ ~Journaled'
  BY DEF Journaled
<1>4. OneOfBatch'
  BY <1>1, <1>3 DEF OneOfBatch, Journaled
<1>5. FreshAtBegin'
  BY <1>1, <1>3 DEF FreshAtBegin, Journaled
<1>6. Undisturbed' => ClaimedNotes'
  BY <1>1, <1>3 DEF ClaimedNotes, Journaled
<1>commits. CommitsShow'
  BY <1>1, <1>3 DEF CommitsShow, Shows, Journaled
<1>7. \A u \in Tabs : Live(u)' => u # t /\ Live(u) /\ journal' = journal
  BY <1>1, <1>3 DEF Live, ImporterOwns, Journaled
<1>8. LiveIsJournaled'
  BY <1>1, <1>7 DEF LiveIsJournaled, Journaled
<1>absent. Uncollided' => NotesAbsent'
  BY <1>1, <1>7 DEF NotesAbsent, Journaled
<1>9. RecoveryFences'
  <2>1. \A u \in Tabs : Recovers(u)' => ~ImporterOwns(Mine(u))'
    BY <1>1, <1>3 DEF RecoveryFences, ImporterOwns, Journaled
  <2>2. QED
    BY <2>1, <1>1, <1>7 DEF RecoveryFences, Decided
<1>10. Orderly' => StagedBytes'
  BY <1>1, <1>3, <1>7 DEF StagedBytes, Journaled
<1>11. Orderly' => RecoverySees'
  BY <1>1 DEF RecoverySees, Sees
<1>12. Orderly' => ImportedAreKept'
  BY DEF ImportedAreKept
<1>13. QED
  BY <1>commits, <1>absent, Nested, <1>2, <1>4, <1>5, <1>6, <1>8, <1>9, <1>10, <1>11, <1>12 DEF ImportInv

LEMMA BeginKeeps ==
  ASSUME ImportInv, Counted, NEW t \in Tabs, Begin(t),
         Enters("epoch", ~Journaled /\ Overtaken(t))
  PROVE  ImportInv'
<1> USE IdsAreNumbers, Parts, TypesOfParts
<1>windows. Further /\ (Orderly' /\ ~Journaled => ~Overtaken(t))
  BY DEF Enters, Uncollided, Orderly, Undisturbed
<1>1. CASE Journaled
  <2>1. Ends(t) /\ UNCHANGED <<journal, receipts, notes, bytes, batches>>
    BY <1>1 DEF Begin
  <2>2. QED
    BY <1>windows, <1>1, <2>1, EndsKeeps DEF Journaled
<1>2. CASE ~Journaled
  <2>0. /\ UNCHANGED <<receipts, notes, bytes, batches>>
        /\ importer[t].at = "begin" /\ (Orderly' => ~Overtaken(t))
        /\ Moves(t, "prepare", importer[t].staged, importer[t].seen, importer[t].state)
    BY <1>windows, <1>2, StepMoves DEF Begin, Stages
  <2>1. /\ importer[t].as = "importer" /\ Token(t) = <<"importer", importer[t].batch>>
        /\ importer[t].batch \in Batches
    BY <2>0 DEF OneOfBatch, Token, ImportTypes, Counted
  <2>2. /\ journal' \in Journals
        /\ journal'.batch = importer[t].batch /\ journal'.id = importer[t].id
        /\ journal'.owner = <<"importer", importer[t].batch>> /\ Journaled'
    <3>1. journal' = [batch |-> importer[t].batch, id |-> importer[t].id,
                      owner |-> <<"importer", importer[t].batch>>, lease |-> TRUE]
      BY <1>2, <2>1 DEF Begin
    <3>2. <<"importer", importer[t].batch>> \in Owners
      BY <2>1 DEF Owners
    <3>3. journal' \in Journals
      BY <3>1, <3>2, <2>1 DEF Journals
    <3>4. QED
      BY <3>1, <3>3 DEF Journaled
  <2>3. ImportTypes'
    BY <2>0, <2>2 DEF ImportTypes, Moves
  <2>4. OneOfBatch'
    BY <2>0, <2>2 DEF OneOfBatch, FreshAtBegin, Moves
  <2>5. FreshAtBegin'
    BY <2>0, <2>2 DEF FreshAtBegin, Moves
  <2>6. Undisturbed' => ClaimedNotes'
    BY <1>windows, <2>0, <2>2 DEF ClaimedNotes, NotesAbsent, Moves
  <2>commits. CommitsShow'
    BY <2>0, <2>2 DEF CommitsShow, Shows, Moves
  <2>7. \A u \in Tabs : ~Live(u)
    BY <1>2 DEF LiveIsJournaled
  <2>8. \A u \in Tabs : Live(u)' => u = t
    BY <2>0, <2>2, <2>7, <1>2 DEF Live, ImporterOwns, OneOfBatch, FreshAtBegin, Moves
  <2>9. LiveIsJournaled'
    BY <2>0, <2>2, <2>8 DEF LiveIsJournaled, FreshAtBegin, Moves
  <2>absent. Uncollided' => NotesAbsent'
    BY <1>windows, <2>0, <2>2, <2>8 DEF NotesAbsent, Moves
  <2>10. RecoveryFences'
    BY <2>0, <2>1, <2>2, <2>8 DEF RecoveryFences, ImporterOwns, FreshAtBegin, Decided, Moves
  <2>11. Orderly' => StagedBytes'
    <3>1. \A u \in Tabs : importer'[u].at = "stage" => u # t
      BY <2>0 DEF Moves
    <3>2. Orderly' => \A u \in Tabs : On(u, "stage")' /\ journal'.id = Work(u)'.id => Mine(u)' <= journal'.batch
      BY <2>0, <2>2, <3>1 DEF Overtaken, Moves
    <3>3. QED
      BY <1>windows, <2>0, <2>2, <2>8, <3>1, <3>2 DEF StagedBytes, FreshAtBegin, Moves
  <2>12. Orderly' => RecoverySees'
    BY <1>windows, <2>0 DEF RecoverySees, Sees, Moves
  <2>13. Orderly' => ImportedAreKept'
    BY <1>windows, <2>0 DEF ImportedAreKept
  <2>14. QED
    BY <2>commits, <2>absent, Nested, <2>3, <2>4, <2>5, <2>6, <2>9, <2>10, <2>11, <2>12, <2>13 DEF ImportInv
<1>3. QED
  BY <1>1, <1>2

-----------------------------------------------------------------------------
(* Steps of an import *)

LEMMA ChooseKeeps ==
  ASSUME ImportInv, Counted, Further, NEW t \in Tabs, Choose(t)
  PROVE  ImportInv'
<1> USE IdsAreNumbers, Parts, TypesOfParts
<1> DEFINE id == IF notes[Original] = "absent" THEN Original ELSE batches + 1
           w == [AtRest EXCEPT !.at = "begin", !.batch = batches + 1, !.id = id]
<1>1. /\ UNCHANGED <<journal, receipts, notes, bytes>> /\ batches' = batches + 1
      /\ importer[t].at = "idle" /\ importer' = [importer EXCEPT ![t] = w]
  BY DEF Choose, Goes
<1>2. batches \in Nat /\ batches' \in Batches
  BY <1>1 DEF Choose, ImportTypes, Batches, Ids, Original, Counted
<1>3. w \in Works
  BY <1>1, <1>2 DEF Works, AtRest, Stages, States
<1>4. /\ importer' \in [Tabs -> Works]
      /\ \A u \in Tabs : u # t => importer'[u] = importer[u]
      /\ importer'[t].at = "begin" /\ importer'[t].batch = batches' /\ importer'[t].id = id
      /\ importer'[t].as = "importer" /\ ~importer'[t].staged /\ importer'[t].state = "none"
  BY <1>1, <1>3 DEF ImportTypes, AtRest
<1>5. /\ notes[id] = "absent" /\ receipts[batches'] = "none" /\ id \in {Original, batches'}
      /\ \A u \in Tabs : importer[u].at # "idle" => importer[u].batch # batches'
      /\ Journaled => journal.batch # batches'
  BY <1>1, <1>2 DEF OneOfBatch
<1> HIDE DEF w, id
<1>6. ImportTypes'
  BY <1>1, <1>2, <1>4 DEF ImportTypes
<1>7. OneOfBatch'
  BY <1>1, <1>2, <1>4, <1>5 DEF OneOfBatch, Journaled
<1>8. FreshAtBegin'
  BY <1>1, <1>2, <1>4, <1>5 DEF FreshAtBegin, Journaled
<1>9. Undisturbed' => ClaimedNotes'
  BY <1>1, <1>2, <1>4, <1>5 DEF ClaimedNotes, Journaled
<1>commits. CommitsShow'
  BY <1>1, <1>2, <1>4, <1>5 DEF CommitsShow, Shows, Journaled
<1>10. \A u \in Tabs : Live(u)' => u # t /\ Live(u)
  BY <1>1, <1>4 DEF Live, ImporterOwns, Journaled
<1>11. LiveIsJournaled'
  BY <1>1, <1>4, <1>10 DEF LiveIsJournaled, Journaled
<1>absent. Uncollided' => NotesAbsent'
  BY <1>1, <1>4, <1>5, <1>10 DEF NotesAbsent, Journaled
<1>12. RecoveryFences'
  BY <1>1, <1>4, <1>10 DEF RecoveryFences, ImporterOwns, Journaled, Decided
<1>13. Orderly' => StagedBytes'
  BY <1>1, <1>2, <1>4, <1>5, <1>10 DEF StagedBytes, Journaled
<1>14. Orderly' => RecoverySees'
  BY <1>1, <1>4 DEF RecoverySees, Sees
<1>15. Orderly' => ImportedAreKept'
  BY <1>1 DEF ImportedAreKept
<1>16. QED
  BY <1>commits, <1>absent, Nested, <1>6, <1>7, <1>8, <1>9, <1>11, <1>12, <1>13, <1>14, <1>15 DEF ImportInv

LEMMA PrepareCommitKeeps ==
  ASSUME ImportInv, Counted, Further, NEW t \in Tabs, PrepareCommit(t)
  PROVE  ImportInv'
<1> USE IdsAreNumbers, Parts, TypesOfParts, ActiveBatches
<1>1. /\ UNCHANGED <<journal, notes, bytes, batches>> /\ importer[t].at = "prepare"
      /\ importer[t].as = "importer" /\ importer[t].batch \in Batches
      /\ receipts[importer[t].batch] # "committed"
  BY DEF PrepareCommit, OneOfBatch, CommitsShow, Shows, ImportTypes
<1>2. PICK at \in {"discard", "renew"} :
        /\ Moves(t, at, importer[t].staged, importer[t].seen, importer[t].state)
        /\ \/ at = "discard" /\ receipts' = receipts
           \/ at = "renew" /\ receipts' = [receipts EXCEPT ![importer[t].batch] = "pending"]
  BY StepMoves DEF PrepareCommit, Stages
<1>3. /\ receipts' \in [Batches -> States]
      /\ \A b \in Batches : b # importer[t].batch => receipts'[b] = receipts[b]
      /\ receipts'[importer[t].batch] # "committed"
      /\ \A b \in Batches : receipts'[b] = "committed" => receipts[b] = "committed"
  BY <1>1, <1>2 DEF ImportTypes, States
<1>4. \A u \in Tabs : u # t /\ importer[u].at # "idle" /\ importer[u].as = "importer" =>
        importer[u].batch # importer[t].batch
  BY <1>1 DEF OneOfBatch
<1>5. ImportTypes'
  BY <1>1, <1>2, <1>3 DEF ImportTypes, Moves
<1>6. OneOfBatch'
  BY <1>1, <1>2, <1>3 DEF OneOfBatch, Journaled, Moves
<1>7. FreshAtBegin'
  BY <1>1, <1>2, <1>3 DEF FreshAtBegin, Journaled, Moves
<1>8. Undisturbed' => ClaimedNotes'
  BY <1>1, <1>2, <1>3 DEF ClaimedNotes, Journaled, Moves
<1>commits. CommitsShow'
  BY <1>1, <1>2, <1>3 DEF CommitsShow, Shows, Journaled, Moves
<1>9. \A u \in Tabs : Live(u)' => Live(u)
  BY <1>1, <1>2, <1>3, <1>4 DEF Live, ImporterOwns, Journaled, Moves
<1>10. LiveIsJournaled'
  BY <1>1, <1>2, <1>9 DEF LiveIsJournaled, Journaled, Moves
<1>absent. Uncollided' => NotesAbsent'
  BY <1>1, <1>2, <1>9 DEF NotesAbsent, Journaled, Moves
<1>11. RecoveryFences'
  BY <1>1, <1>2, <1>9 DEF RecoveryFences, ImporterOwns, Journaled, Decided, Moves
<1>12. Orderly' => StagedBytes'
  BY <1>1, <1>2, <1>3, <1>9 DEF StagedBytes, Journaled, Moves
<1>13. Orderly' => RecoverySees'
  BY <1>1, <1>2, <1>3 DEF RecoverySees, Sees, Moves
<1>14. Orderly' => ImportedAreKept'
  BY <1>1 DEF ImportedAreKept
<1>15. QED
  BY <1>commits, <1>absent, Nested, <1>5, <1>6, <1>7, <1>8, <1>10, <1>11, <1>12, <1>13, <1>14 DEF ImportInv

\* The journal as it was, but for the lease.
JournalKept ==
  /\ journal' \in {NoJournal} \cup Journals
  /\ Journaled' <=> Journaled
  /\ Journaled => /\ journal'.batch = journal.batch /\ journal'.id = journal.id
                  /\ journal'.owner = journal.owner

LEMMA LeaseOnly ==
  ASSUME ImportTypes, Counted, NEW l \in BOOLEAN, Journaled, journal' = [journal EXCEPT !.lease = l]
  PROVE  JournalKept
BY IdsAreNumbers, TypesOfParts DEF JournalKept, Journals, Journaled

LEMMA SameJournal ==
  ASSUME ImportTypes, UNCHANGED journal
  PROVE  JournalKept
BY DEF JournalKept, ImportTypes, Journaled

\* A step of an import on which nothing but its own place and the lease changes.
LEMMA StepKeeps ==
  ASSUME ImportInv, Counted, Further, NEW t \in Tabs, NEW at \in Before \ {"begin"},
         importer[t].at \in Before \ {"begin"}, JournalKept,
         UNCHANGED <<receipts, notes, bytes, batches>>,
         Moves(t, at, importer[t].staged, importer[t].seen, importer[t].state),
         at \in {"prepare", "renew", "stage"} => Live(t),
         at \in {"mark", "save"} => importer[t].at \in {"mark", "save"}
  PROVE  ImportInv'
<1> USE IdsAreNumbers, Parts, TypesOfParts DEF JournalKept
<1>1. ImportTypes'
  BY DEF ImportTypes, Moves
<1>2. OneOfBatch'
  BY DEF OneOfBatch, Moves
<1>3. FreshAtBegin'
  BY DEF FreshAtBegin, Moves
<1>4. Undisturbed' => ClaimedNotes'
  BY DEF ClaimedNotes, Moves
<1>commits. CommitsShow'
  BY DEF CommitsShow, Shows, Moves
<1>5. \A u \in Tabs : Live(u)' => Live(u)
  BY DEF Live, ImporterOwns, Moves
<1>6. LiveIsJournaled'
  BY <1>5 DEF LiveIsJournaled, Moves
<1>absent. Uncollided' => NotesAbsent'
  BY <1>5 DEF NotesAbsent, Moves
<1>7. RecoveryFences'
  BY <1>5 DEF RecoveryFences, ImporterOwns, Decided, Moves
<1>8. Orderly' => StagedBytes'
  <2>1. Orderly' /\ importer'[t].at = "stage" => notes[importer[t].id] = "absent" /\ Live(t)
    BY DEF NotesAbsent, Moves
  <2>2. QED
    BY <1>5, <2>1 DEF StagedBytes, LiveIsJournaled, Moves
<1>9. Orderly' => RecoverySees'
  BY DEF RecoverySees, Sees, Moves
<1>10. Orderly' => ImportedAreKept'
  BY DEF ImportedAreKept
<1>11. QED
  BY <1>commits, <1>absent, Nested, <1>1, <1>2, <1>3, <1>4, <1>6, <1>7, <1>8, <1>9, <1>10 DEF ImportInv

LEMMA LeaseKeeps ==
  ASSUME ImportInv, Counted, Further, JournalKept, UNCHANGED <<receipts, notes, bytes, importer, batches>>
  PROVE  ImportInv'
<1> USE IdsAreNumbers, Parts, TypesOfParts DEF JournalKept
<1>1. ImportTypes' /\ OneOfBatch' /\ FreshAtBegin' /\ CommitsShow'
  BY DEF ImportTypes, OneOfBatch, FreshAtBegin, CommitsShow, Shows
<1>2. \A u \in Tabs : Live(u)' <=> Live(u)
  BY DEF Live, ImporterOwns
<1>3. LiveIsJournaled' /\ RecoveryFences'
  BY <1>2 DEF LiveIsJournaled, RecoveryFences, ImporterOwns
<1>4. (Uncollided' => NotesAbsent') /\ (Undisturbed' => ClaimedNotes')
  BY <1>2 DEF NotesAbsent, ClaimedNotes
<1>5. Orderly' => StagedBytes'
  BY <1>2 DEF StagedBytes
<1>6. Orderly' => RecoverySees' /\ ImportedAreKept'
  BY DEF RecoverySees, Sees, ImportedAreKept
<1>7. QED
  BY <1>1, <1>3, <1>4, <1>5, <1>6 DEF ImportInv

\* An import that has the journal is known by its owner token.
LEMMA ImportersOwn ==
  ASSUME ImportInv, Counted, NEW t \in Tabs, importer[t].at \in Before
  PROVE  importer[t].as = "importer" /\ (Owns(t) <=> ImporterOwns(importer[t].batch))
<1>1. importer[t].as = "importer"
  BY Parts, TypesOfParts DEF OneOfBatch
<1>2. QED
  BY <1>1 DEF Owns, Token, ImporterOwns

LEMMA RenewsKeeps ==
  ASSUME ImportInv, Counted, Further, NEW t \in Tabs,
         Renews(t, "renew", "stage") \/ Renews(t, "mark", "save")
  PROVE  ImportInv'
<1>1. CASE Owns(t)
  <2>1. PICK at \in {"stage", "save"} :
          /\ StepTo(t, at) /\ journal' = Renewed /\ UNCHANGED <<receipts, notes, bytes, batches>>
          /\ importer[t].at = IF at = "stage" THEN "renew" ELSE "mark"
    BY <1>1 DEF Renews
  <2>2. /\ Moves(t, at, importer[t].staged, importer[t].seen, importer[t].state)
        /\ JournalKept
    BY <1>1, <2>1, StepMoves, LeaseOnly, Parts DEF Stages, Owns, Renewed
  <2>3. at = "stage" => Live(t)
    BY <1>1, <2>1, ImportersOwn DEF Live
  <2>4. QED
    BY <2>1, <2>2, <2>3, StepKeeps
<1>2. CASE ~Owns(t)
  <2>1. /\ StepTo(t, "discard") /\ UNCHANGED <<journal, receipts, notes, bytes, batches>>
        /\ importer[t].at \in {"renew", "mark"}
    BY <1>2 DEF Renews
  <2>2. /\ Moves(t, "discard", importer[t].staged, importer[t].seen, importer[t].state)
        /\ JournalKept
    BY <2>1, StepMoves, SameJournal, Parts DEF Stages
  <2>3. QED
    BY <2>1, <2>2, StepKeeps
<1>3. QED
  BY <1>1, <1>2

LEMMA HeartbeatKeeps ==
  ASSUME ImportInv, Counted, Further, NEW t \in Tabs, Heartbeat(t)
  PROVE  ImportInv'
BY LeaseKeeps, LeaseOnly, Parts DEF Heartbeat, Owns, Renewed

LEMMA CommitFailedKeeps ==
  ASSUME ImportInv, Counted, Further, NEW t \in Tabs, CommitFailed(t)
  PROVE  ImportInv'
<1>1. /\ StepTo(t, "discard") /\ UNCHANGED <<receipts, notes, bytes, batches>>
      /\ importer[t].at = "unmark"
  BY DEF CommitFailed
<1>2. JournalKept
  BY LeaseOnly, SameJournal, Parts DEF CommitFailed, Owns, Renewed
<1>3. Moves(t, "discard", importer[t].staged, importer[t].seen, importer[t].state)
  BY <1>1, StepMoves, Parts DEF Stages
<1>4. QED
  BY <1>1, <1>2, <1>3, StepKeeps

LEMMA DiscardStepKeeps ==
  ASSUME ImportInv, Counted, Further, NEW t \in Tabs, StepTo(t, "discard"),
         importer[t].at \in Before \ {"begin"}, UNCHANGED <<journal, receipts, notes, bytes, batches>>
  PROVE  ImportInv'
<1>1. /\ Moves(t, "discard", importer[t].staged, importer[t].seen, importer[t].state)
      /\ JournalKept
  BY StepMoves, SameJournal, Parts DEF Stages
<1>2. QED
  BY <1>1, StepKeeps

LEMMA StageAttachmentKeeps ==
  ASSUME ImportInv, Counted, Further, NEW t \in Tabs, StageAttachment(t)
  PROVE  ImportInv'
<1> USE IdsAreNumbers, Parts, TypesOfParts, ActiveBatches
<1> DEFINE b == importer[t].batch  i == importer[t].id
<1>1. /\ UNCHANGED <<journal, receipts, notes, batches>> /\ importer[t].at = "stage"
      /\ importer[t].as = "importer" /\ b \in Batches /\ i \in Ids
  BY DEF StageAttachment, OneOfBatch
<1>2. CASE StepTo(t, "discard") /\ UNCHANGED bytes
  BY <1>1, <1>2, DiscardStepKeeps
<1>3. CASE /\ bytes[i].gen <= b
           /\ bytes' = [bytes EXCEPT ![i] = [gen |-> b, staged |-> TRUE]]
           /\ Goes(t, [importer[t] EXCEPT !.at = "mark", !.staged = TRUE])
  <2> DEFINE w == [importer[t] EXCEPT !.at = "mark", !.staged = TRUE]
  <2>1. importer[t] \in Works
    BY DEF ImportTypes
  <2>2. /\ w \in Works /\ w.at = "mark" /\ w.staged = TRUE /\ w.batch = b /\ w.id = i
        /\ w.as = importer[t].as /\ w.seen = importer[t].seen /\ w.state = importer[t].state
    BY <2>1 DEF Works, Stages
  <2>3. Goes(t, w)
    BY <1>3
  <2> HIDE DEF w
  <2>4. Moves(t, "mark", TRUE, importer[t].seen, importer[t].state)
    BY <2>2, <2>3, GoesMoves
  <2>5. /\ bytes' \in [Ids -> [gen : Ids, staged : BOOLEAN]]
        /\ \A j \in Ids : j # i => bytes'[j] = bytes[j]
        /\ bytes'[i].gen = b /\ bytes'[i].staged = TRUE
    BY <1>1, <1>3 DEF ImportTypes
  <2>6. Orderly' => notes[i] # "imported"
    BY <1>1, <1>3 DEF StagedBytes
  <2>7. \A u \in Tabs : u # t /\ importer[u].at # "idle" /\ importer[u].as = "importer" =>
          importer[u].batch # b
    BY <1>1 DEF OneOfBatch
  <2>8. ImportTypes'
    BY <1>1, <2>4, <2>5 DEF ImportTypes, Moves
  <2>9. OneOfBatch'
    BY <1>1, <2>4 DEF OneOfBatch, Journaled, Moves
  <2>10. FreshAtBegin'
    BY <1>1, <2>4 DEF FreshAtBegin, Journaled, Moves
  <2>11. Undisturbed' => ClaimedNotes'
    BY <1>1, <2>4 DEF ClaimedNotes, Journaled, Moves
  <2>commits. CommitsShow'
    BY <1>1, <2>4 DEF CommitsShow, Shows, Journaled, Moves
  <2>12. \A u \in Tabs : Live(u)' => Live(u)
    BY <1>1, <2>4 DEF Live, ImporterOwns, Journaled, Moves
  <2>13. LiveIsJournaled'
    BY <1>1, <2>4, <2>12 DEF LiveIsJournaled, Journaled, Moves
  <2>absent. Uncollided' => NotesAbsent'
    BY <1>1, <2>4, <2>12 DEF NotesAbsent, Journaled, Moves
  <2>14. RecoveryFences'
    BY <1>1, <2>4, <2>12 DEF RecoveryFences, ImporterOwns, Journaled, Decided, Moves
  <2>15. Orderly' => StagedBytes'
    <3> SUFFICES ASSUME Orderly' PROVE StagedBytes'
      OBVIOUS
    <3>1. \A u \in Tabs : On(u, "stage")' /\ IsImported(u)' => bytes'[importer'[u].id].gen > importer'[u].batch
      BY <1>1, <2>4, <2>5, <2>6 DEF StagedBytes, Moves
    <3>2. \A u \in Tabs : u # t /\ importer[u].at \in {"mark", "save"} /\ Live(u) => importer[u].id # i
      <4> SUFFICES ASSUME NEW u \in Tabs, u # t, importer[u].at \in {"mark", "save"}, Live(u),
                          importer[u].id = i
                   PROVE  FALSE
        OBVIOUS
      <4>1. journal.batch = importer[u].batch /\ Journaled /\ journal.id = i
        BY DEF LiveIsJournaled, OneOfBatch
      <4>2. b <= importer[u].batch /\ bytes[i].gen = importer[u].batch
        BY <1>1, <4>1 DEF StagedBytes
      <4>3. b = importer[u].batch
        BY <1>3, <4>2
      <4>4. QED
        BY <2>7, <4>3 DEF Live
    <3>3. \A u \in Tabs : importer'[u].at \in {"mark", "save"} /\ Live(u)' =>
            BytesOf(u)' /\ bytes'[importer'[u].id].staged
      BY <2>4, <2>5, <2>12, <3>2 DEF StagedBytes, Moves
    <3>4. \A u \in Tabs : importer'[u].at \in Before /\ importer'[u].staged /\ IsImported(u)' => ~BytesOf(u)'
      BY <1>1, <2>4, <2>5, <2>6 DEF StagedBytes, Moves
    <3>5. QED
      BY <1>1, <2>4, <3>1, <3>3, <3>4 DEF StagedBytes, Journaled, Moves
  <2>16. Orderly' => RecoverySees'
    BY <1>1, <2>4, <2>5, <2>6 DEF RecoverySees, Sees, Moves
  <2>17. Orderly' => ImportedAreKept'
    BY <1>1, <2>5 DEF ImportedAreKept
  <2>18. QED
    BY <2>commits, <2>absent, Nested, <2>8, <2>9, <2>10, <2>11, <2>13, <2>14, <2>15, <2>16, <2>17 DEF ImportInv
<1>4. QED
  BY <1>2, <1>3 DEF StageAttachment

LEMMA SaveNotesKeeps ==
  ASSUME ImportInv, Counted, NEW t \in Tabs, SaveNotes(t),
         Enters("collision", Listing(importer[t].id))
  PROVE  ImportInv'
<1> USE IdsAreNumbers, Parts, TypesOfParts, ActiveBatches
<1> DEFINE b == importer[t].batch  i == importer[t].id
<1>windows. Further /\ (Uncollided' => ~Listing(i))
  BY Entered
<1>1. /\ UNCHANGED <<journal, bytes, batches>> /\ importer[t].at = "save"
      /\ importer[t].as = "importer" /\ b \in Batches /\ i \in Ids
  BY DEF SaveNotes, OneOfBatch
<1>2. CASE StepTo(t, "unmark") /\ UNCHANGED <<notes, receipts>>
  <2>1. /\ Moves(t, "unmark", importer[t].staged, importer[t].seen, importer[t].state)
        /\ JournalKept
    BY <1>1, <1>2, StepMoves, SameJournal DEF Stages
  <2>2. QED
    BY <1>windows, <1>1, <1>2, <2>1, StepKeeps
<1>3. CASE /\ receipts[b] = "pending"
           /\ notes' = [notes EXCEPT ![i] = "imported"]
           /\ receipts' = [receipts EXCEPT ![b] = "committed"]
           /\ StepTo(t, "clear")
  <2>1. Moves(t, "clear", importer[t].staged, importer[t].seen, importer[t].state)
    BY <1>3, StepMoves DEF Stages, Decided
  <2>2. /\ notes' \in [Ids -> {"absent", "imported", "pulled", "deleted"}]
        /\ notes'[i] = "imported" /\ \A j \in Ids : j # i => notes'[j] = notes[j]
        /\ receipts' \in [Batches -> States]
        /\ receipts'[b] = "committed" /\ \A c \in Batches : c # b => receipts'[c] = receipts[c]
    BY <1>1, <1>3 DEF ImportTypes, States
  <2>3. Live(t)
    BY <1>1, <1>3 DEF Live
  <2>4. /\ Journaled /\ journal.batch = b /\ journal.id = i
        /\ Orderly' => bytes[i].gen = b /\ bytes[i].staged
    BY <1>windows, <1>1, <2>3 DEF LiveIsJournaled, StagedBytes, OneOfBatch
  <2>5. \A u \in Tabs : u # t /\ importer[u].at # "idle" /\ importer[u].as = "importer" =>
          importer[u].batch # b
    BY <1>1 DEF OneOfBatch
  <2>6. \A u \in Tabs : importer[u].at # "idle" /\ importer[u].batch = b => importer[u].id = i
    BY <1>1 DEF OneOfBatch
  <2>7. \A u \in Tabs : ~Live(u)'
    <3>1. \A u \in Tabs : Live(u)' => u # t /\ Live(u)
      BY <1>1, <2>1, <2>2, <2>5 DEF Live, Moves, ImporterOwns, Journaled
    <3>2. \A u \in Tabs : Live(u) => u = t
      BY <2>4, <2>5 DEF Live, LiveIsJournaled
    <3>3. QED
      BY <3>1, <3>2
  <2>8. ImportTypes'
    BY <1>1, <2>1, <2>2 DEF ImportTypes, Moves
  <2>9. OneOfBatch'
    BY <1>1, <2>1, <2>2, SMTT(30) DEF OneOfBatch, Journaled, Moves
  <2>10. FreshAtBegin'
    BY <1>1, <2>1, <2>2 DEF FreshAtBegin, Journaled, Moves
  <2>11. Undisturbed' => ClaimedNotes'
    BY <1>windows, <1>1, <2>1, <2>2, <2>4, <2>6 DEF ClaimedNotes, Journaled, Moves, OneOfBatch
  <2>commits. CommitsShow'
    <3>1. \A u \in Tabs : importer[u].at \in Before /\ importer[u].batch = b => u = t
      BY <1>1, <2>5 DEF OneOfBatch
    <3>2. \A j \in Ids : notes[j] # "absent" => notes'[j] # "absent"
      BY <2>2
    <3>3. \A u \in Tabs : importer'[u].at \in Before => u # t /\ importer[u].at \in Before
      BY <2>1 DEF Moves
    <3>4. \A u \in Tabs : Shows(u)'
      BY <1>1, <2>1, <2>2, <3>1, <3>2, <3>3 DEF CommitsShow, Shows, Moves
    <3>5. \A x, u \in Tabs : ~Idle(x)' /\ Work(x)'.state = "committed" /\ Mine(u)' = Mine(x)' =>
            Work(u)'.at \notin Before
      BY <1>1, <2>1, <3>3 DEF CommitsShow, Moves
    <3>6. ASSUME NEW c \in Batches, receipts'[c] = "committed"
          PROVE  /\ \A u \in Tabs : ~Idle(u)' /\ Mine(u)' = c => notes'[Work(u)'.id] # "absent"
                 /\ Journaled' /\ journal'.batch = c => notes'[journal'.id] # "absent"
      <4>1. CASE c = b
        BY <1>1, <2>1, <2>2, <2>4, <2>6, <4>1 DEF Moves, Journaled
      <4>2. CASE c # b
        BY <1>1, <2>1, <2>2, <3>2, <3>6, <4>2 DEF CommitsShow, Moves, Journaled
      <4>3. QED
        BY <4>1, <4>2
    <3>7. QED
      BY <3>4, <3>5, <3>6 DEF CommitsShow
  <2>12. LiveIsJournaled'
    BY <2>7 DEF LiveIsJournaled
  <2>absent. Uncollided' => NotesAbsent'
    BY <1>windows, <1>1, <2>1, <2>2, <2>7 DEF NotesAbsent, Moves, Listing
  <2>13. RecoveryFences'
    BY <1>1, <2>1, <2>7 DEF RecoveryFences, ImporterOwns, Journaled, Moves
  <2>14. Orderly' => StagedBytes'
    <3> SUFFICES ASSUME Orderly' PROVE StagedBytes'
      OBVIOUS
    <3>0. Orderly
      BY <1>windows
    <3>1. \A u \in Tabs : On(u, "stage")' /\ IsImported(u)' => bytes'[importer'[u].id].gen > importer'[u].batch
      BY <3>0, <1>1, <2>1, <2>2, <2>4, <2>5 DEF StagedBytes, Moves, OneOfBatch
    <3>2. \A u \in Tabs : importer'[u].at \in Before /\ importer'[u].staged /\ IsImported(u)' => ~BytesOf(u)'
      BY <3>0, <1>1, <2>1, <2>2, <2>4, <2>5 DEF StagedBytes, Moves, OneOfBatch
    <3>4. QED
      BY <3>0, <1>1, <2>1, <2>7, <3>1, <3>2 DEF StagedBytes, Journaled, Moves
  <2>15. Orderly' => RecoverySees'
    <3>1. \A u \in Tabs : importer[u].at \in Decided => importer[u].batch # b
      BY <2>3 DEF RecoveryFences
    <3>2. QED
      BY <1>windows, <1>1, <2>1, <2>2, <2>4, <3>1 DEF RecoverySees, Sees, Moves, Decided
  <2>16. Orderly' => ImportedAreKept'
    BY <1>windows, <1>1, <2>2, <2>4 DEF ImportedAreKept
  <2>17. QED
    BY <2>commits, <2>absent, Nested, <2>8, <2>9, <2>10, <2>11, <2>12, <2>13, <2>14, <2>15, <2>16 DEF ImportInv
<1>4. QED
  BY <1>2, <1>3 DEF SaveNotes

\* Staged bytes that are discarded are of no imported note and of no import that may
\* still commit.
LEMMA DiscardingKeeps ==
  ASSUME ImportInv, Counted, Further, NEW t \in Tabs, NEW at \in {"recover", "cleared"},
         importer[t].at # "idle", importer[t].at # "begin",
         Moves(t, at, importer[t].staged, importer[t].seen, importer[t].state),
         at = "recover" <=> importer[t].at \in Before,
         at = "cleared" => importer[t].at \in Decided,
         bytes' \in {bytes, Discarded(importer[t].id, importer[t].batch)},
         Orderly /\ bytes' # bytes => ~(IsImported(t) /\ BytesOf(t)),
         \A u \in Tabs : Live(u) /\ u # t => importer[u].batch # importer[t].batch,
         UNCHANGED <<journal, receipts, notes, batches>>
  PROVE  ImportInv'
<1> USE IdsAreNumbers, Parts, TypesOfParts, ActiveBatches
<1> DEFINE b == importer[t].batch  i == importer[t].id
<1>1. \/ bytes' = bytes
      \/ /\ bytes[i] = [gen |-> b, staged |-> TRUE] /\ (Orderly => notes[i] # "imported")
         /\ bytes' = [bytes EXCEPT ![i] = NoBytes]
  BY DEF Discarded
<1>2. /\ bytes' \in [Ids -> [gen : Ids, staged : BOOLEAN]]
      /\ Orderly => \A j \in Ids : notes[j] = "imported" => bytes'[j] = bytes[j]
      /\ \A j \in Ids : bytes'[j] = bytes[j] \/ bytes[j].gen = b
  <2>1. CASE bytes' = bytes
    BY <2>1 DEF ImportTypes
  <2>2. CASE /\ bytes[i] = [gen |-> b, staged |-> TRUE] /\ (Orderly => notes[i] # "imported")
             /\ bytes' = [bytes EXCEPT ![i] = NoBytes]
    <3>1. bytes[i].gen = b /\ i \in Ids
      BY <2>2
    <3>2. NoBytes \in [gen : Ids, staged : BOOLEAN]
      BY DEF NoBytes
    <3> HIDE DEF NoBytes
    <3>3. bytes' \in [Ids -> [gen : Ids, staged : BOOLEAN]] /\ \A j \in Ids : j # i => bytes'[j] = bytes[j]
      BY <2>2, <3>2 DEF ImportTypes
    <3>4. QED
      BY <2>2, <3>1, <3>3
  <2>3. QED
    BY <1>1, <2>1, <2>2
<1>3. ImportTypes'
  BY <1>2 DEF ImportTypes, Moves
<1>4. OneOfBatch'
  BY DEF OneOfBatch, Journaled, Moves
<1>5. FreshAtBegin'
  BY DEF FreshAtBegin, Journaled, Moves
<1>6. Undisturbed' => ClaimedNotes'
  BY DEF ClaimedNotes, Journaled, Moves
<1>commits. CommitsShow'
  BY DEF CommitsShow, Shows, Journaled, Moves
<1>7. \A u \in Tabs : Live(u)' => Live(u) /\ u # t
  BY DEF Live, ImporterOwns, Journaled, Moves
<1>8. LiveIsJournaled'
  BY <1>7 DEF LiveIsJournaled, Journaled, Moves
<1>absent. Uncollided' => NotesAbsent'
  BY <1>7 DEF NotesAbsent, Journaled, Moves
<1>9. RecoveryFences'
  BY <1>7 DEF RecoveryFences, ImporterOwns, Journaled, Decided, Moves
<1>10. Orderly' => StagedBytes'
  <2> SUFFICES ASSUME Orderly' PROVE StagedBytes'
    OBVIOUS
  <2>0. Orderly /\ StagedBytes
    OBVIOUS
  <2>1. \A u \in Tabs : On(u, "stage")' /\ IsImported(u)' => bytes'[importer'[u].id].gen > importer'[u].batch
    <3>1. \A u \in Tabs : On(u, "stage") /\ IsImported(u) => bytes[importer[u].id].gen > importer[u].batch
      BY <2>0 DEF StagedBytes
    <3> SUFFICES ASSUME NEW u \in Tabs, On(u, "stage")', IsImported(u)'
                 PROVE  bytes'[importer'[u].id].gen > importer'[u].batch
      OBVIOUS
    <3>2. On(u, "stage") /\ importer'[u].id = importer[u].id /\ importer'[u].batch = importer[u].batch
      BY DEF Moves
    <3>3. importer[u].id \in Ids /\ notes[importer[u].id] = "imported"
      BY <3>2
    <3>4. bytes'[importer[u].id] = bytes[importer[u].id]
      BY <1>2, <2>0, <3>3
    <3>5. QED
      BY <3>1, <3>2, <3>3, <3>4
  <2>2. \A u \in Tabs : importer'[u].at \in {"mark", "save"} /\ Live(u)' =>
          BytesOf(u)' /\ bytes'[importer'[u].id].staged
    BY <1>2, <1>7 DEF StagedBytes, Moves
  <2>3. \A u \in Tabs : importer'[u].at \in Before /\ importer'[u].staged /\ IsImported(u)' => ~BytesOf(u)'
    <3>1. \A u \in Tabs : importer'[u].at \in Before => importer[u].at \in Before
      BY DEF Moves
    <3>2. \A u \in Tabs : importer[u].at \in Before /\ importer[u].staged /\ IsImported(u) => ~BytesOf(u)
      BY DEF StagedBytes
    <3>3. \A u \in Tabs : /\ importer'[u].staged = importer[u].staged /\ importer'[u].id = importer[u].id
                         /\ importer'[u].batch = importer[u].batch /\ importer[u].id \in Ids
      BY DEF Moves
    <3> SUFFICES ASSUME NEW u \in Tabs, importer'[u].at \in Before, importer'[u].staged, IsImported(u)'
                 PROVE  ~BytesOf(u)'
      OBVIOUS
    <3>4. notes[importer[u].id] = "imported" /\ importer[u].staged /\ importer[u].at \in Before
      BY <3>1, <3>3
    <3>5. bytes'[importer[u].id] = bytes[importer[u].id]
      BY <1>2, <3>3, <3>4
    <3>6. QED
      BY <3>2, <3>3, <3>4, <3>5
  <2>4. QED
    BY <2>1, <2>2, <2>3 DEF StagedBytes, Journaled, Moves
<1>11. Orderly' => RecoverySees'
  <2> SUFFICES ASSUME Orderly' PROVE RecoverySees'
    OBVIOUS
  <2>1. Orderly /\ RecoverySees
    OBVIOUS
  <2>2. \A j \in Ids : notes[j] = "imported" => bytes'[j] = bytes[j]
    BY <1>2, <2>1
  <2>3. QED
    BY <2>1, <2>2 DEF RecoverySees, Sees, Moves
<1>12. Orderly' => ImportedAreKept'
  BY <1>2 DEF ImportedAreKept
<1>13. QED
  BY <1>commits, <1>absent, Nested, <1>3, <1>4, <1>5, <1>6, <1>8, <1>9, <1>10, <1>11, <1>12 DEF ImportInv

LEMMA DiscardOwnKeeps ==
  ASSUME ImportInv, Counted, Further, NEW t \in Tabs, DiscardOwn(t)
  PROVE  ImportInv'
<1>1. /\ importer[t].at = "discard" /\ UNCHANGED <<journal, receipts, notes, batches>>
      /\ Moves(t, "recover", importer[t].staged, importer[t].seen, importer[t].state)
  BY StepMoves, Parts DEF DiscardOwn, Stages
<1>2. /\ bytes' \in {bytes, Discarded(importer[t].id, importer[t].batch)}
      /\ Orderly /\ bytes' # bytes => ~(IsImported(t) /\ BytesOf(t))
  BY <1>1, Parts DEF DiscardOwn, StagedBytes
<1>3. \A u \in Tabs : Live(u) /\ u # t => importer[u].batch # importer[t].batch
  BY <1>1, Parts, ImportersOwn DEF Live, OneOfBatch
<1>4. QED
  BY <1>1, <1>2, <1>3, DiscardingKeeps

LEMMA RollBackKeeps ==
  ASSUME ImportInv, Counted, Further, NEW t \in Tabs, RollBack(t)
  PROVE  ImportInv'
<1>1. /\ importer[t].at = "rollback" /\ UNCHANGED <<journal, receipts, notes, batches>>
      /\ Moves(t, "cleared", importer[t].staged, importer[t].seen, importer[t].state)
      /\ bytes' = Discarded(importer[t].id, importer[t].batch)
  BY StepMoves, Parts DEF RollBack, Stages, Decided
<1>2. Orderly => ~(IsImported(t) /\ BytesOf(t))
  BY <1>1, Parts DEF RecoverySees, Sees
<1>3. \A u \in Tabs : Live(u) => importer[u].batch # importer[t].batch
  BY <1>1, Parts DEF RecoveryFences, Decided
<1>4. QED
  BY <1>1, <1>2, <1>3, DiscardingKeeps DEF Decided

LEMMA ClearReceiptKeeps ==
  ASSUME ImportInv, Counted, NEW t \in Tabs, ClearReceipt(t),
         Enters("late", Unseen(importer[t].batch))
  PROVE  ImportInv'
<1> USE IdsAreNumbers, Parts, TypesOfParts, ActiveBatches
<1> DEFINE b == importer[t].batch
<1>windows. Further /\ (Orderly' => ~Unseen(b))
  BY Entered
<1>1. /\ UNCHANGED <<journal, notes, bytes, batches>> /\ importer[t].at \in {"clear", "cleared"}
      /\ b \in Batches
      /\ Moves(t, "complete", importer[t].staged, importer[t].seen, importer[t].state)
  BY StepMoves DEF ClearReceipt, Stages, Decided
<1>2. /\ receipts' \in [Batches -> States]
      /\ receipts'[b] = "none" /\ \A c \in Batches : c # b => receipts'[c] = receipts[c]
  BY <1>1 DEF ClearReceipt, ImportTypes, States
<1>3. ImportTypes'
  BY <1>1, <1>2 DEF ImportTypes, Moves
<1>4. OneOfBatch'
  BY <1>1, <1>2 DEF OneOfBatch, Journaled, Moves
<1>5. FreshAtBegin'
  BY <1>1, <1>2 DEF FreshAtBegin, Journaled, Moves
<1>6. Undisturbed' => ClaimedNotes'
  BY <1>windows, <1>1, <1>2 DEF ClaimedNotes, Journaled, Moves
<1>commits. CommitsShow'
  BY <1>1, <1>2 DEF CommitsShow, Shows, Journaled, Moves
<1>7. \A u \in Tabs : Live(u)' => Live(u) /\ u # t
  BY <1>1, <1>2 DEF Live, ImporterOwns, Journaled, Moves
<1>8. LiveIsJournaled'
  BY <1>1, <1>7 DEF LiveIsJournaled, Journaled, Moves
<1>absent. Uncollided' => NotesAbsent'
  BY <1>windows, <1>1, <1>7 DEF NotesAbsent, Journaled, Moves
<1>9. RecoveryFences'
  BY <1>1, <1>7 DEF RecoveryFences, ImporterOwns, Journaled, Decided, Moves
<1>10. Orderly' => StagedBytes'
  BY <1>windows, <1>1, <1>2, <1>7 DEF StagedBytes, Journaled, Moves
<1>11. Orderly' => RecoverySees'
  BY <1>windows, <1>1, <1>2 DEF RecoverySees, Sees, Moves, Unseen
<1>12. Orderly' => ImportedAreKept'
  BY <1>windows, <1>1 DEF ImportedAreKept
<1>13. QED
  BY <1>commits, <1>absent, Nested, <1>3, <1>4, <1>5, <1>6, <1>8, <1>9, <1>10, <1>11, <1>12 DEF ImportInv

LEMMA CompleteJournalKeeps ==
  ASSUME ImportInv, Counted, Further, NEW t \in Tabs, CompleteJournal(t)
  PROVE  ImportInv'
<1>1. /\ importer[t].at = "complete" /\ Ends(t) /\ UNCHANGED <<receipts, notes, bytes, batches>>
      /\ journal' = IF Owns(t) THEN NoJournal ELSE journal
  BY DEF CompleteJournal
<1>2. journal' = NoJournal => \A u \in Tabs : ~Live(u)
  BY <1>1, Parts DEF LiveIsJournaled, RecoveryFences, Decided, Owns, Journaled
<1>3. QED
  BY <1>1, <1>2, EndsKeeps

-----------------------------------------------------------------------------
(* Steps of a recovery *)

LEMMA TakeKeeps ==
  ASSUME ImportInv, Counted, Further, NEW t \in Tabs, Take(t)
  PROVE  ImportInv'
<1> USE IdsAreNumbers, Parts, TypesOfParts, ActiveBatches
<1>1. /\ UNCHANGED <<receipts, notes, bytes, batches>> /\ importer[t].at \in {"idle", "recover"}
  BY DEF Take
<1>2. CASE Ends(t) /\ UNCHANGED journal
  <2>1. journal' = NoJournal => \A u \in Tabs : Live(u) => u = t
    BY <1>2 DEF LiveIsJournaled, Journaled
  <2>2. QED
    BY <1>1, <1>2, <2>1, EndsKeeps
<1>3. CASE /\ Journaled
           /\ ~(journal.lease /\ ~(On(t, "recover") /\ Owns(t)))
  <2> DEFINE as == IF On(t, "recover") /\ Owns(t) THEN importer[t].as ELSE "recovery"
             owner == <<as, IF as = "importer" THEN journal.owner[2] ELSE t>>
             w == [AtRest EXCEPT !.as = as, !.batch = journal.batch, !.id = journal.id, !.at = "list"]
  <2>1. /\ journal' = [[journal EXCEPT !.lease = TRUE] EXCEPT !.owner = owner]
        /\ Goes(t, w)
    BY <1>3 DEF Take, Renewed
  <2>2. \/ /\ as = "importer" /\ importer[t].at = "recover" /\ importer[t].batch = journal.batch
           /\ importer[t].as = "importer" /\ owner = <<"importer", journal.batch>>
           /\ journal.owner = <<"importer", journal.batch>>
        \/ as = "recovery" /\ owner = <<"recovery", t>>
    BY <1>1, ImportersOwn DEF Owns, ImporterOwns
  <2>3. owner \in Owners
    BY <1>3, <2>2 DEF Owners
  <2>4. w \in Works /\ w.at = "list" /\ w.as = as /\ w.batch = journal.batch /\ w.id = journal.id
        /\ ~w.staged /\ ~w.seen /\ w.state = "none"
    BY <1>3, <2>2 DEF Works, AtRest, Stages, States
  <2> HIDE DEF as, owner, w
  <2>5. /\ journal' \in Journals /\ Journaled'
        /\ journal'.batch = journal.batch /\ journal'.id = journal.id /\ journal'.owner = owner
    BY <1>3, <2>1, <2>3 DEF Journals, Journaled
  <2>6. /\ importer' \in [Tabs -> Works] /\ importer'[t] = w
        /\ \A u \in Tabs : u # t => importer'[u] = importer[u]
    BY <2>1, <2>4 DEF Goes, ImportTypes
  <2>7. \A b \in Batches : ImporterOwns(b)' => ImporterOwns(b) /\ as = "importer"
    BY <1>3, <2>2, <2>5 DEF ImporterOwns
  <2>8. ImportTypes'
    BY <1>1, <2>5, <2>6 DEF ImportTypes
  <2>9. OneOfBatch'
    <3>1. \A u \in Tabs : importer'[u].at # "idle" =>
            \/ u = t
            \/ u # t /\ importer'[u] = importer[u]
      BY <2>6
    <3>2. journal.batch \in 1..batches /\ journal.id \in {Original, journal.batch}
      BY <1>3 DEF OneOfBatch
    <3>3. \A u \in Tabs : ~Idle(u)' =>
            Mine(u)' \in 1..batches' /\ Work(u)'.id \in {Original, Mine(u)'}
      BY <1>1, <2>4, <2>6, <3>2 DEF OneOfBatch
    <3>4. \A u, x \in Tabs : ~Idle(u)' /\ ~Idle(x)' /\ Mine(u)' = Mine(x)' => Work(u)'.id = Work(x)'.id
      BY <1>3, <2>4, <2>6 DEF OneOfBatch
    <3>5. \A u \in Tabs : ~Idle(u)' /\ journal'.batch = Mine(u)' => journal'.id = Work(u)'.id
      BY <1>3, <2>4, <2>5, <2>6 DEF OneOfBatch
    <3>6. \A u, x \in Tabs : Imports(u)' /\ Imports(x)' /\ Mine(u)' = Mine(x)' => u = x
      <4>1. \A u \in Tabs : Imports(u)' => Imports(u) /\ importer'[u].batch = importer[u].batch
        BY <2>2, <2>4, <2>6
      <4>2. QED
        BY <4>1 DEF OneOfBatch
    <3>7. \A u \in Tabs : Recovers(u)' => Work(u)'.at \notin Before
      BY <2>4, <2>6 DEF OneOfBatch
    <3>8. QED
      BY <1>1, <2>5, <3>2, <3>3, <3>4, <3>5, <3>6, <3>7 DEF OneOfBatch
  <2>10. FreshAtBegin'
    BY <1>1, <1>3, <2>4, <2>5, <2>6 DEF FreshAtBegin
  <2>11. Undisturbed' => ClaimedNotes'
    BY <1>1, <1>3, <2>4, <2>5, <2>6 DEF ClaimedNotes
  <2>commits. CommitsShow'
    BY <1>1, <1>3, <2>4, <2>5, <2>6 DEF CommitsShow, Shows
  <2>12. \A u \in Tabs : Live(u)' => u # t /\ Live(u)
    BY <1>1, <2>4, <2>6, <2>7 DEF Live
  <2>13. LiveIsJournaled'
    BY <1>1, <1>3, <2>5, <2>6, <2>12 DEF LiveIsJournaled
  <2>absent. Uncollided' => NotesAbsent'
    BY <1>1, <1>3, <2>4, <2>5, <2>6, <2>12 DEF NotesAbsent
  <2>14. RecoveryFences'
    <3>1. \A u \in Tabs : Recovers(u)' => ~ImporterOwns(Mine(u))'
      <4> SUFFICES ASSUME NEW u \in Tabs, Recovers(u)', ImporterOwns(Mine(u))'
                   PROVE  FALSE
        OBVIOUS
      <4>1. importer'[u].batch = journal.batch /\ owner = <<"importer", journal.batch>>
        BY <2>5 DEF ImporterOwns
      <4>2. as = "importer" /\ ImporterOwns(journal.batch)
        BY <1>3, <2>2, <4>1 DEF ImporterOwns
      <4>3. u # t /\ Recovers(u) /\ importer[u].batch = journal.batch
        BY <2>4, <2>6, <4>1, <4>2
      <4>4. QED
        BY <4>2, <4>3 DEF RecoveryFences
    <3>2. QED
      BY <3>1, <2>4, <2>6, <2>12 DEF RecoveryFences, Decided
  <2>15. Orderly' => StagedBytes'
    BY <1>1, <1>3, <2>4, <2>5, <2>6, <2>12 DEF StagedBytes
  <2>16. Orderly' => RecoverySees'
    BY <1>1, <2>4, <2>6 DEF RecoverySees, Sees
  <2>17. Orderly' => ImportedAreKept'
    BY <1>1 DEF ImportedAreKept
  <2>18. QED
    BY <2>commits, <2>absent, Nested, <2>8, <2>9, <2>10, <2>11, <2>13, <2>14, <2>15, <2>16, <2>17 DEF ImportInv
<1>4. QED
  BY <1>2, <1>3 DEF Take

\* A step of a recovery that lists, reads, decides or cancels the commit.
LEMMA RecoveryStepKeeps ==
  ASSUME ImportInv, Counted, Further, NEW t \in Tabs, importer[t].at \notin Before \cup {"idle"},
         NEW at \in {"list", "state", "cancel"} \cup Decided, NEW seen \in BOOLEAN, NEW state \in States,
         Moves(t, at, importer[t].staged, seen, state),
         UNCHANGED <<journal, notes, bytes, batches>>,
         \/ receipts' = receipts
         \/ /\ receipts[importer[t].batch] = "pending"
            /\ receipts' = [receipts EXCEPT ![importer[t].batch] = "cancelled"],
         at \in Decided => \A u \in Tabs : importer[u].batch = importer[t].batch /\ Live(u) =>
                              importer[u].at \in Writing /\ receipts'[importer[t].batch] # "pending",
         state = "committed" => \A u \in Tabs : importer[u].batch = importer[t].batch =>
                                   importer[u].at \notin Before,
         Shows(t)', Orderly' => Sees(t)'
  PROVE  ImportInv'
<1> USE IdsAreNumbers, Parts, TypesOfParts, ActiveBatches
<1> DEFINE b == importer[t].batch
<1>1. /\ receipts' \in [Batches -> States] /\ b \in Batches
      /\ \A c \in Batches : receipts'[c] = receipts[c] \/ (receipts[c] = "pending" /\ receipts'[c] = "cancelled")
  BY DEF ImportTypes, States
<1>2. ImportTypes'
  BY <1>1 DEF ImportTypes, Moves
<1>3. OneOfBatch'
  BY <1>1 DEF OneOfBatch, Journaled, Moves, Decided
<1>4. FreshAtBegin'
  BY <1>1 DEF FreshAtBegin, Journaled, Moves, Decided
<1>5. Undisturbed' => ClaimedNotes'
  BY <1>1 DEF ClaimedNotes, Journaled, Moves
<1>commits. CommitsShow'
  <2>1. ASSUME NEW u \in Tabs PROVE Shows(u)'
    BY <1>1 DEF CommitsShow, Shows, Moves
  <2>2. \A x \in Tabs : importer'[x].at \in Before => x # t /\ importer[x].at \in Before
    BY DEF Moves, Decided
  <2>3. \A x, u \in Tabs : ~Idle(x)' /\ Work(x)'.state = "committed" /\ Mine(u)' = Mine(x)' =>
          Work(u)'.at \notin Before
    BY <2>2 DEF CommitsShow, Moves
  <2>4. \A c \in Batches : receipts'[c] = "committed" =>
          /\ \A u \in Tabs : ~Idle(u)' /\ Mine(u)' = c => notes'[Work(u)'.id] # "absent"
          /\ Journaled' /\ journal'.batch = c => notes'[journal'.id] # "absent"
    BY <1>1 DEF CommitsShow, Moves, Journaled
  <2>5. QED
    BY <2>1, <2>3, <2>4 DEF CommitsShow
<1>6. \A u \in Tabs : Live(u)' => Live(u) /\ u # t
  BY <1>1 DEF Live, ImporterOwns, Journaled, Moves, Decided
<1>7. LiveIsJournaled'
  BY <1>6 DEF LiveIsJournaled, Journaled, Moves
<1>absent. Uncollided' => NotesAbsent'
  BY <1>6 DEF NotesAbsent, Journaled, Moves, Decided
<1>8. RecoveryFences'
  <2>1. \A u \in Tabs : Recovers(u)' => ~ImporterOwns(Mine(u))'
    BY DEF RecoveryFences, ImporterOwns, Journaled, Moves
  <2>2. ASSUME NEW r \in Tabs, NEW u \in Tabs, Work(r)'.at \in Decided, Mine(u)' = Mine(r)', Live(u)'
        PROVE  FALSE
    <3>1. Live(u) /\ u # t /\ importer'[u] = importer[u] /\ importer[u].batch = importer[r].batch
      BY <1>6, <2>2 DEF Moves
    <3>2. r = t
      BY <2>2, <3>1 DEF RecoveryFences, Moves
    <3>3. at \in Decided /\ receipts'[b] # "pending" /\ importer[u].at \in Writing
      BY <2>2, <3>1, <3>2 DEF Moves
    <3>4. QED
      BY <2>2, <3>1, <3>2, <3>3 DEF Live
  <2>3. QED
    BY <2>1, <2>2 DEF RecoveryFences
<1>9. Orderly' => StagedBytes'
  <2>1. \A u \in Tabs : importer'[u].at \in Before => u # t /\ importer[u].at \in Before
    BY DEF Moves, Decided
  <2>2. QED
    BY <1>1, <1>6, <2>1 DEF StagedBytes, Journaled, Moves
<1>10. Orderly' => RecoverySees'
  <2>1. \A u \in Tabs : u # t /\ Sees(u) => Sees(u)'
    BY <1>1 DEF Sees, Moves
  <2>2. QED
    BY <2>1 DEF RecoverySees
<1>11. Orderly' => ImportedAreKept'
  BY DEF ImportedAreKept
<1>12. QED
  BY <1>commits, <1>absent, Nested, <1>2, <1>3, <1>4, <1>5, <1>7, <1>8, <1>9, <1>10, <1>11 DEF ImportInv

LEMMA ListStoredKeeps ==
  ASSUME ImportInv, Counted, Further, NEW t \in Tabs, ListStored(t)
  PROVE  ImportInv'
<1> USE IdsAreNumbers, Parts, TypesOfParts, ActiveBatches
<1> DEFINE seen == notes[importer[t].id] # "absent"
           at == IF importer[t].state = "committed" THEN "decide" ELSE "state"
<1>1. /\ importer[t].at = "list" /\ Goes(t, [importer[t] EXCEPT !.seen = seen, !.at = at])
      /\ UNCHANGED <<journal, receipts, notes, bytes, batches>>
  BY DEF ListStored
<1>2. seen \in BOOLEAN /\ at \in {"decide", "state"} /\ (at = "decide" => importer[t].state = "committed")
  OBVIOUS
<1>3. seen <=> notes[importer[t].id] # "absent"
  OBVIOUS
<1> HIDE DEF seen, at
<1>4. /\ at \in Stages /\ importer[t].state \in States
      /\ at \in {"list", "state", "cancel"} \cup Decided /\ (at \in Decided => at = "decide")
      /\ importer[t].at \notin Before \cup {"idle"}
  BY <1>1, <1>2 DEF Stages, Decided, ImportTypes, Works
<1>5. Moves(t, at, importer[t].staged, seen, importer[t].state)
  BY <1>1, <1>2, <1>4, ReadMoves, ZenonT(40)
<1>6. at = "decide" => \A u \in Tabs : importer[u].batch = importer[t].batch => ~Live(u)
  BY <1>1, <1>2 DEF CommitsShow, Live
<1>7. Shows(t)' /\ (Orderly' => Sees(t)')
  BY <1>1, <1>2, <1>3, <1>5 DEF CommitsShow, Shows, Sees, Moves
<1>8. importer[t].state = "committed" => \A u \in Tabs : importer[u].batch = importer[t].batch =>
        importer[u].at \notin Before
  BY <1>1 DEF CommitsShow
<1> HIDE DEF Before
<1>9. QED
  BY <1>1, <1>2, <1>4, <1>5, <1>6, <1>7, <1>8, RecoveryStepKeeps

LEMMA CommitStateKeeps ==
  ASSUME ImportInv, Counted, Further, NEW t \in Tabs, CommitState(t)
  PROVE  ImportInv'
<1> USE IdsAreNumbers, Parts, TypesOfParts, ActiveBatches
<1> DEFINE state == receipts[importer[t].batch]
           at == CASE state = "pending" -> "cancel"
                   [] state = "committed" /\ ~importer[t].seen -> "list"
                   [] OTHER -> "decide"
<1>1. /\ importer[t].at = "state" /\ Goes(t, [importer[t] EXCEPT !.state = state, !.at = at])
      /\ UNCHANGED <<journal, receipts, notes, bytes, batches>>
  BY DEF CommitState
<1>2. state \in States /\ at \in {"cancel", "list", "decide"}
  BY <1>1 DEF ImportTypes
<1>3. /\ at = "cancel" => state = "pending"
      /\ at = "list" => state = "committed" /\ ~importer[t].seen
      /\ at = "decide" => state # "pending" /\ (state = "committed" => importer[t].seen)
  OBVIOUS
<1> HIDE DEF at
<1>4. /\ at \in Stages /\ importer[t].seen \in BOOLEAN
      /\ at \in {"list", "state", "cancel"} \cup Decided /\ (at \in Decided => at = "decide")
      /\ importer[t].at \notin Before \cup {"idle"}
  BY <1>1, <1>2 DEF Stages, Decided, ImportTypes, Works
<1>5. Moves(t, at, importer[t].staged, importer[t].seen, state)
  BY <1>1, <1>2, <1>4, ReadMoves
<1>6. at = "decide" => \A u \in Tabs : importer[u].batch = importer[t].batch /\ Live(u) =>
        importer[u].at \in Writing /\ receipts'[importer[t].batch] # "pending"
  BY <1>1, <1>3 DEF RecoveryFences, Live, OneOfBatch
<1>7. Shows(t)' /\ (Orderly' => Sees(t)')
  <2>1. state = "committed" => notes[importer[t].id] # "absent"
    BY <1>1 DEF CommitsShow
  <2>2. QED
    BY <1>1, <1>2, <1>3, <1>5, <2>1 DEF CommitsShow, Shows, Sees, Moves, RecoverySees
<1>writer. state = "committed" => \A u \in Tabs : importer[u].batch = importer[t].batch =>
             importer[u].at \notin Before
  BY <1>1, <1>2 DEF CommitsShow, Shows
<1> HIDE DEF Before, state
<1>8. QED
  BY <1>1, <1>2, <1>4, <1>5, <1>6, <1>7, <1>writer, RecoveryStepKeeps

LEMMA CancelCommitKeeps ==
  ASSUME ImportInv, Counted, Further, NEW t \in Tabs, CancelCommit(t)
  PROVE  ImportInv'
<1> USE IdsAreNumbers, Parts, TypesOfParts, ActiveBatches
<1> DEFINE b == importer[t].batch
           state == IF receipts[b] = "pending" THEN "cancelled" ELSE receipts[b]
           at == IF state = "committed" /\ ~importer[t].seen THEN "list" ELSE "decide"
<1>1. /\ importer[t].at = "cancel" /\ Goes(t, [importer[t] EXCEPT !.state = state, !.at = at])
      /\ UNCHANGED <<journal, notes, bytes, batches>>
      /\ receipts' = [receipts EXCEPT ![b] = state]
  BY DEF CancelCommit
<1>2. /\ b \in Batches /\ receipts \in [Batches -> States] /\ state \in States \ {"pending"}
      /\ at \in {"list", "decide"} /\ receipts'[b] = state
  BY <1>1 DEF ImportTypes, States
<1>3. /\ at = "list" => state = "committed" /\ ~importer[t].seen
      /\ at = "decide" => (state = "committed" => importer[t].seen)
      /\ state = "committed" <=> receipts[b] = "committed"
  OBVIOUS
<1>4. \/ receipts' = receipts
      \/ receipts[b] = "pending" /\ receipts' = [receipts EXCEPT ![b] = "cancelled"]
  BY <1>1, <1>2
<1> HIDE DEF at, state
<1>5. /\ at \in Stages /\ importer[t].seen \in BOOLEAN /\ state \in States
      /\ at \in {"list", "state", "cancel"} \cup Decided /\ importer[t].at \notin Before \cup {"idle"}
  BY <1>1, <1>2 DEF Stages, Decided, ImportTypes, Works
<1>6. Moves(t, at, importer[t].staged, importer[t].seen, state)
  BY <1>1, <1>5, ReadMoves
<1>7. \A u \in Tabs : importer[u].batch = b /\ Live(u) =>
        importer[u].at \in Writing /\ receipts'[b] # "pending"
  BY <1>1, <1>2 DEF RecoveryFences, Live, OneOfBatch
<1>8. Shows(t)' /\ (Orderly' => Sees(t)')
  <2>1. state = "committed" => notes[importer[t].id] # "absent"
    BY <1>1, <1>2, <1>3 DEF CommitsShow
  <2>2. QED
    BY <1>1, <1>2, <1>3, <1>6, <2>1 DEF CommitsShow, Shows, Sees, Moves, RecoverySees
<1>writer. state = "committed" => \A u \in Tabs : importer[u].batch = importer[t].batch =>
             importer[u].at \notin Before
  BY <1>1, <1>2, <1>3 DEF CommitsShow, Shows
<1> HIDE DEF Before
<1>9. QED
  BY <1>1, <1>4, <1>5, <1>6, <1>7, <1>8, <1>writer, RecoveryStepKeeps

LEMMA DecideKeeps ==
  ASSUME ImportInv, Counted, Further, NEW t \in Tabs, Decide(t)
  PROVE  ImportInv'
<1> USE IdsAreNumbers, Parts, TypesOfParts, ActiveBatches
<1>1. /\ UNCHANGED <<journal, receipts, notes, bytes, batches>> /\ importer[t].at = "decide"
  BY DEF Decide
<1>2. CASE Ends(t)
  BY <1>1, <1>2, EndsKeeps DEF LiveIsJournaled, Journaled
<1>3. ASSUME NEW at \in {"clear", "rollback"}, StepTo(t, at), at = "rollback" <=> ~importer[t].seen
      PROVE  ImportInv'
  <2>1. /\ Moves(t, at, importer[t].staged, importer[t].seen, importer[t].state)
        /\ importer[t].seen \in BOOLEAN /\ importer[t].state \in States
    BY <1>3, StepMoves DEF Stages, Decided, ImportTypes, Works
  <2>2. Shows(t)' /\ (Orderly' => Sees(t)')
    BY <1>1, <1>3, <2>1 DEF CommitsShow, Shows, Sees, Moves, RecoverySees
  <2>3. \A u \in Tabs : importer[u].batch = importer[t].batch => ~Live(u)
    BY <1>1 DEF RecoveryFences, Decided
  <2>4. QED
    <3> DEFINE staged == importer[t].staged  seen == importer[t].seen  state == importer[t].state
    <3>1. at \in {"list", "state", "cancel"} \cup Decided /\ importer[t].at \notin Before \cup {"idle"}
      BY <1>1 DEF Decided
    <3>2. Moves(t, at, importer[t].staged, seen, state) /\ seen \in BOOLEAN /\ state \in States
      BY <2>1
    <3>writer. state = "committed" => \A u \in Tabs : importer[u].batch = importer[t].batch =>
                 importer[u].at \notin Before
      BY <1>1 DEF CommitsShow
    <3> HIDE DEF Decided, Before, seen, state
    <3>3. QED
      BY <1>1, <2>2, <2>3, <3>writer, <3>1, <3>2, RecoveryStepKeeps
<1>4. QED
  BY <1>2, <1>3 DEF Decide

-----------------------------------------------------------------------------
(* Steps of no import *)

\* A note is pulled or deleted, or the bytes of an imported one are promoted.
LEMMA NoteKeeps ==
  ASSUME ImportInv, Counted, Further, NEW i \in Ids,
         UNCHANGED <<journal, receipts, importer, batches>>,
         \A j \in Ids : j # i => notes'[j] = notes[j] /\ bytes'[j] = bytes[j],
         notes' \in [Ids -> {"absent", "imported", "pulled", "deleted"}],
         bytes' \in [Ids -> [gen : Ids, staged : BOOLEAN]],
         notes'[i] # "absent", notes[i] = "absent" => i = Original,
         notes'[i] = "imported" => notes[i] = "imported" /\ bytes'[i].gen = bytes[i].gen,
         notes[i] = "absent" /\ Uncollided' => ~Claimed(i),
         notes'[i] # notes[i] /\ Undisturbed' => ~Claimed(i)
  PROVE  ImportInv'
<1> USE IdsAreNumbers, Parts, TypesOfParts, ActiveBatches
<1>1. ImportTypes'
  BY DEF ImportTypes
<1>2. \A j \in Ids : /\ notes[j] # "absent" => notes'[j] # "absent"
                     /\ notes'[j] = "imported" => notes[j] = "imported" /\ bytes'[j].gen = bytes[j].gen
  OBVIOUS
<1>3. Uncollided' => \A u \in Tabs : importer[u].at # "idle" /\ notes[importer[u].id] = "absent" =>
        /\ notes'[importer[u].id] = "absent" /\ bytes'[importer[u].id] = bytes[importer[u].id]
  BY DEF Claimed
<1>4. OneOfBatch'
  BY DEF OneOfBatch, Journaled
<1>5. FreshAtBegin'
  BY DEF FreshAtBegin, Journaled
<1>6. Undisturbed' => ClaimedNotes'
  BY DEF ClaimedNotes, Claimed, Journaled
<1>7. CommitsShow'
  BY <1>2 DEF CommitsShow, Shows, Journaled
<1>8. \A u \in Tabs : Live(u)' <=> Live(u)
  BY DEF Live, ImporterOwns, Journaled
<1>9. LiveIsJournaled' /\ RecoveryFences'
  BY <1>8 DEF LiveIsJournaled, RecoveryFences, ImporterOwns, Journaled
<1>10. Uncollided' => NotesAbsent'
  BY <1>3, <1>8 DEF NotesAbsent, Live
<1>11. Orderly' => StagedBytes'
  BY <1>2, <1>3, <1>8, Nested DEF StagedBytes, NotesAbsent, Journaled
<1>12. Orderly' => RecoverySees'
  BY <1>2 DEF RecoverySees, Sees
<1>13. Orderly' => ImportedAreKept'
  BY <1>2 DEF ImportedAreKept
<1>14. QED
  BY <1>1, <1>4, <1>5, <1>6, <1>7, <1>9, <1>10, <1>11, <1>12, <1>13 DEF ImportInv

LEMMA PulledKeeps ==
  ASSUME ImportInv, Counted, Pulled, Enters("collision", Claimed(Original))
  PROVE  ImportInv'
<1> USE IdsAreNumbers, Parts
<1> DEFINE new == [gen |-> 0, staged |-> TRUE]
<1>windows. Further /\ (Uncollided' \/ Undisturbed' => ~Claimed(Original))
  BY Entered
<1>1. /\ UNCHANGED <<journal, receipts, importer, batches>>
      /\ notes[Original] = "absent" /\ notes' = [notes EXCEPT ![Original] = "pulled"]
      /\ bytes' = [bytes EXCEPT ![Original] = new]
  BY DEF Pulled
<1>2. new \in [gen : Ids, staged : BOOLEAN]
  OBVIOUS
<1> HIDE DEF new
<1>3. /\ notes' \in [Ids -> {"absent", "imported", "pulled", "deleted"}]
      /\ bytes' \in [Ids -> [gen : Ids, staged : BOOLEAN]] /\ notes'[Original] = "pulled"
      /\ \A j \in Ids : j # Original => notes'[j] = notes[j] /\ bytes'[j] = bytes[j]
  BY <1>1, <1>2 DEF ImportTypes
<1>4. QED
  BY <1>windows, <1>1, <1>3, NoteKeeps

LEMMA PromotedKeeps ==
  ASSUME ImportInv, Counted, Further, NEW i \in Ids, Promoted(i)
  PROVE  ImportInv'
<1> USE IdsAreNumbers, Parts
<1> DEFINE new == [bytes[i] EXCEPT !.staged = FALSE]
<1>1. /\ UNCHANGED <<journal, receipts, notes, importer, batches>>
      /\ notes[i] = "imported" /\ bytes' = [bytes EXCEPT ![i] = new]
  BY DEF Promoted
<1>2. new \in [gen : Ids, staged : BOOLEAN] /\ new.gen = bytes[i].gen
  <2>1. bytes[i] \in [gen : Ids, staged : BOOLEAN]
    BY DEF ImportTypes
  <2>2. QED
    BY <2>1
<1> HIDE DEF new
<1>3. /\ bytes' \in [Ids -> [gen : Ids, staged : BOOLEAN]] /\ bytes'[i].gen = bytes[i].gen
      /\ \A j \in Ids : j # i => bytes'[j] = bytes[j]
  BY <1>1, <1>2 DEF ImportTypes
<1>4. notes' \in [Ids -> {"absent", "imported", "pulled", "deleted"}]
  BY <1>1 DEF ImportTypes
<1>5. QED
  BY <1>1, <1>3, <1>4, NoteKeeps

LEMMA DeletedKeeps ==
  ASSUME ImportInv, Counted, NEW i \in Ids, Deleted(i), Enters("deletion", Claimed(i))
  PROVE  ImportInv'
<1> USE IdsAreNumbers, Parts
<1>windows. Further /\ (Undisturbed' => ~Claimed(i))
  BY Entered
<1>1. /\ UNCHANGED <<journal, receipts, importer, batches>>
      /\ notes[i] \in {"imported", "pulled"} /\ notes' = [notes EXCEPT ![i] = "deleted"]
      /\ bytes' = [bytes EXCEPT ![i] = NoBytes]
  BY DEF Deleted
<1>2. NoBytes \in [gen : Ids, staged : BOOLEAN]
  BY DEF NoBytes
<1> HIDE DEF NoBytes
<1>3. /\ notes' \in [Ids -> {"absent", "imported", "pulled", "deleted"}]
      /\ bytes' \in [Ids -> [gen : Ids, staged : BOOLEAN]] /\ notes'[i] = "deleted"
      /\ \A j \in Ids : j # i => notes'[j] = notes[j] /\ bytes'[j] = bytes[j]
  BY <1>1, <1>2 DEF ImportTypes
<1>4. QED
  BY <1>windows, <1>1, <1>3, NoteKeeps

LEMMA InitHolds ==
  ASSUME Counted, ImportInit
  PROVE  ImportInv
<1> USE IdsAreNumbers
<1>1. \A t \in Tabs : importer[t] = AtRest
  BY DEF ImportInit
<1>2. ImportTypes
  BY <1>1 DEF ImportInit, ImportTypes, NoBytes, AtRest, Works, Stages, States, Ids
<1>3. ~Journaled /\ \A t \in Tabs : importer[t].at = "idle"
  BY <1>1 DEF ImportInit, Journaled, AtRest
<1>4. QED
  BY <1>2, <1>3 DEF ImportInv, OneOfBatch, FreshAtBegin, ClaimedNotes, LiveIsJournaled,
     RecoveryFences, CommitsShow, Shows, NotesAbsent, StagedBytes, RecoverySees, Sees,
     ImportedAreKept, ImportInit, Live, Decided

LEMMA StutterKeeps ==
  ASSUME ImportInv, Counted, UNCHANGED importVars
  PROVE  ImportInv'
<1>1. UNCHANGED <<journal, receipts, notes, bytes, importer, batches>> /\ Further
  BY UnchangedWindows DEF importVars
<1>2. QED
  BY <1>1, LeaseKeeps, SameJournal, Parts

LEMMA NextKeeps ==
  ASSUME ImportInv, Counted, [ImportNext]_importVars
  PROVE  ImportInv'
<1>1. ASSUME NEW t \in Tabs, ImportStep(t), Further
      PROVE  ImportInv'
  BY <1>1, ChooseKeeps, PrepareCommitKeeps, RenewsKeeps, HeartbeatKeeps,
     StageAttachmentKeeps, CommitFailedKeeps, DiscardOwnKeeps,
     CompleteJournalKeeps, TakeKeeps, ListStoredKeeps, CommitStateKeeps, CancelCommitKeeps,
     DecideKeeps, RollBackKeeps DEF ImportStep, RenewJournal, CommitStarted
<1>2. ASSUME NEW t \in Tabs, CloseTab(t), Further
      PROVE  ImportInv'
  BY <1>2, EndsKeeps, Parts DEF CloseTab, LiveIsJournaled, Journaled
<1>3. ASSUME LeaseExpires, Further
      PROVE  ImportInv'
  BY <1>3, LeaseKeeps, LeaseOnly, Parts DEF LeaseExpires
<1>4. QED
  BY <1>1, <1>2, <1>3, BeginKeeps, SaveNotesKeeps, ClearReceiptKeeps, PulledKeeps, PromotedKeeps,
     DeletedKeeps, StutterKeeps, UnchangedWindows DEF ImportNext

-----------------------------------------------------------------------------
(* What the invariant gives *)

\* Whoever committed an import, recovered it or rolled it back, and however long a
\* lease ran out before its owner went on (importJournal.ts, importCommit.ts), the
\* note it has stored has the bytes of its attachment, whatever is deleted meanwhile,
\* and no recovery ends with an error that keeps the vault from being opened; the
\* first unless a step fell into one of the other windows of Import, the second
\* unless one fell into any.  The run parts checks the same for two tabs and two
\* imports.
THEOREM ImportsKeepTheirBytes ==
  ASSUME Counted
  PROVE  ImportSpec => [](ImportedHaveBytes /\ RecoverySucceeds)
<1>1. ImportInit => ImportInv
  BY InitHolds
<1>2. ImportInv /\ [ImportNext]_importVars => ImportInv'
  BY NextKeeps
<1>3. ImportInv => ImportedHaveBytes
  BY Parts DEF ImportedHaveBytes, ImportedAreKept, NoBytes, Orderly
<1>4. ImportInv => RecoverySucceeds
  <2>1. NoBytes.gen = 0
    BY DEF NoBytes
  <2>2. ASSUME ImportInv, Undisturbed, NEW t \in Tabs, Indeterminate(t)
        PROVE  FALSE
    <3>1. importer[t].at = "decide" /\ importer[t].id \in Ids
      BY <2>2, Parts, TypesOfParts DEF Indeterminate
    <3>2. CASE importer[t].seen
      <4>1. notes[importer[t].id] = "imported"
        BY <2>2, <3>1, <3>2, Parts DEF CommitsShow, Shows, ClaimedNotes
      <4>2. QED
        BY <2>1, <2>2, <3>1, <3>2, <4>1, Parts DEF Indeterminate, ImportedAreKept
    <3>3. CASE ~importer[t].seen
      BY <2>2, <3>1, <3>3, Parts DEF Indeterminate, CommitsShow, Shows
    <3>4. QED
      BY <3>2, <3>3
  <2>3. QED
    BY <2>2 DEF RecoverySucceeds, Undisturbed
<1>5. QED
  BY <1>1, <1>2, <1>3, <1>4, PTL DEF ImportSpec

LEMMA StepKeepsExisting ==
  ASSUME ImportInv, Counted, [ImportNext]_importVars
  PROVE  ExistingIsKept
<1> USE Parts, IdsAreNumbers, TypesOfParts, ActiveBatches
<1>1. ASSUME UNCHANGED notes
      PROVE  ExistingIsKept
  BY <1>1 DEF ExistingIsKept
<1>2. ASSUME NEW t \in Tabs, SaveNotes(t), Further
      PROVE  ExistingIsKept
  <2>1. CASE UNCHANGED notes
    BY <1>1, <2>1
  <2>2. CASE /\ receipts[importer[t].batch] = "pending"
             /\ notes' = [notes EXCEPT ![importer[t].id] = "imported"]
    <3>1. Live(t)
      BY <1>2, <2>2 DEF SaveNotes, Live, OneOfBatch
    <3>2. Uncollided' => notes[importer[t].id] = "absent"
      BY <1>2, <3>1 DEF NotesAbsent
    <3>3. QED
      BY <2>2, <3>2 DEF ExistingIsKept, ImportTypes, Uncollided
  <2>3. QED
    BY <1>2, <2>1, <2>2 DEF SaveNotes
<1>3. ASSUME Pulled
      PROVE  ExistingIsKept
  BY <1>3 DEF Pulled, ExistingIsKept, ImportTypes
<1>4. ASSUME NEW i \in Ids, Deleted(i)
      PROVE  ExistingIsKept
  BY <1>4 DEF Deleted, ExistingIsKept, ImportTypes
<1>5. ASSUME NEW t \in Tabs, ImportStep(t) \/ Begin(t) \/ ClearReceipt(t)
      PROVE  UNCHANGED notes
  BY <1>5 DEF ImportStep, Choose, Begin, PrepareCommit, RenewJournal, CommitStarted, Renews,
     Heartbeat, StageAttachment, CommitFailed, DiscardOwn, ClearReceipt, CompleteJournal, Take,
     ListStored, CommitState, CancelCommit, Decide, RollBack
<1>6. QED
  BY <1>1, <1>2, <1>3, <1>4, <1>5, Entered
  DEF ImportNext, CloseTab, Promoted, LeaseExpires, importVars

\* An import never replaces a record the vault has (importCollisions.ts), unless the
\* record came under the ID it had chosen: what it stores had no record, and what is
\* stored stays or is deleted, whatever other windows the steps fell into.
THEOREM ImportsReplaceNothing ==
  ASSUME Counted
  PROVE  ImportSpec => ExistingAreKept
<1>1. ImportInit => ImportInv
  BY InitHolds
<1>2. ImportInv /\ [ImportNext]_importVars => ImportInv'
  BY NextKeeps
<1>3. ImportInv /\ [ImportNext]_importVars => [ExistingIsKept]_importVars
  BY StepKeepsExisting
<1>4. QED
  BY <1>1, <1>2, <1>3, PTL DEF ImportSpec, ExistingAreKept

=============================================================================
