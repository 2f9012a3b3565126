--------------------------- MODULE ReplicaProofs ---------------------------
(***************************************************************************)
(* What a device knows of the relay, for any notes, attachments, requests  *)
(* and page size: the relay goes on between any two steps of a pass, and a *)
(* pass may end after any of them.                                         *)
(*                                                                         *)
(* Two facts about the relay carry everything: a row that changes gets a   *)
(* revision above every revision there was, so a page is complete up to    *)
(* its cursor for good; and an attachment comes to life only with its      *)
(* note's row, and dies once.                                              *)
(***************************************************************************)
EXTENDS Replica, RelayProofs

-----------------------------------------------------------------------------
(* What the relay does between two steps of the device *)

Dead(a) == Exists(a) /\ ~Live(a)

Owns(n, a) == \E q \in Requests : Claims(q, a, n)

\* An attachment belongs to the note of its row, and a note's envelope lists
\* attachments of the note.
RecordsOwned ==
  /\ \A a \in Attachments : Exists(a) =>
       records[a].note \in Notes /\ Owns(records[a].note, a)
  /\ \A n \in Notes : Exists(n) =>
       /\ records[n].envelope \in Envelopes
       /\ \A a \in Images[records[n].envelope] : Owns(n, a)

LEMMA OneOwner ==
  ASSUME NEW a \in Attachments, NEW m \in Notes, NEW n \in Notes,
         Owns(m, a), Owns(n, a)
  PROVE  m = n
BY OwnershipAssumption DEF Owns

\* A row stays or becomes newer than all rows.
LEMMA RowsMoveOn ==
  ASSUME TypeInv, [Next]_vars
  PROVE  /\ \A k \in Ids : records'[k] = records[k] \/ records'[k].rev > MaxRevision
         /\ MaxRevision' \in Nat /\ MaxRevision' >= MaxRevision
<1> DEFINE m == MaxRevision
<1>1. m \in Nat /\ \A k \in Ids : records[k].rev \in Nat /\ records[k].rev <= m
  BY MaxRevisionFacts
<1>2. CASE UNCHANGED records
  <2>1. MaxRevision' = MaxRevision
    BY <1>2 DEF MaxRevision
  <2> QED
    BY <1>1, <1>2, <2>1
<1>3. ASSUME NEW c \in Credentials, NEW q \in Requests, Put(c, q)
      PROVE  /\ \A k \in Ids : records'[k] = records[k] \/ records'[k].rev > m
             /\ MaxRevision' \in Nat /\ MaxRevision' >= m
  <2> DEFINE C == Cascade(q)
  <2>1. /\ records'[q.id].rev = m + 1
        /\ \A i \in C : records'[i].rev \in (m + 2)..(m + 1 + Cardinality(C))
        /\ \A i \in Ids : i \notin C /\ i # q.id => records'[i] = records[i]
    BY <1>3, PutEffect
  <2>2. Cardinality(C) \in Nat
    BY CascadeFacts
  <2>3. MaxRevision' \in Nat /\ MaxRevision' >= m + 1
    BY <1>3, PutStep
  <2> HIDE DEF C, m
  <2> QED
    BY <1>1, <2>1, <2>2, <2>3
<1>4. ASSUME NEW c \in Credentials, NEW q \in Requests, Bundle(c, q)
      PROVE  /\ \A k \in Ids : records'[k] = records[k] \/ records'[k].rev > m
             /\ MaxRevision' \in Nat /\ MaxRevision' >= m
  <2> DEFINE A == BundleIds(q)
             top == m + 1 + Cardinality(A)
  <2>1. /\ records'[q.id].rev = top /\ Cardinality(A) \in Nat /\ q.id \in Notes
        /\ \A i \in A : records'[i].rev \in (m + 1)..(m + Cardinality(A))
        /\ \A i \in Ids : i \notin A /\ i # q.id => records'[i] = records[i]
    BY <1>4, BundleEffect
  <2> HIDE DEF A, m
  <2>2. /\ top \in Nat /\ top > m
        /\ \A i \in Ids : records'[i].rev \in Nat /\ records'[i].rev <= top
        /\ \A i \in Ids : records'[i] = records[i] \/ records'[i].rev > m
    BY <1>1, <2>1
  <2> HIDE DEF top
  <2>3. MaxRevision' = top
    BY <2>1, <2>2, NextMax DEF Ids
  <2> QED
    BY <1>1, <2>2, <2>3
<1> HIDE DEF m
<1>5. MaxRevision = m
  BY DEF m
<1> QED
  BY <1>2, <1>3, <1>4, <1>5, RecordSteps

\* A dead attachment stays dead, and is then as new as it was or newer.
LEMMA DeadStayDead ==
  ASSUME TypeInv, [Next]_vars, NEW a \in Attachments, Exists(a)
  PROVE  /\ Exists(a)'
         /\ \/ records'[a] = records[a]
            \/ records'[a].deleted /\ records'[a].rev > MaxRevision
         /\ Dead(a) => Dead(a)'
         /\ records'[a].note = records[a].note
<1>1. a \in Ids
  BY DEF Ids
<1>2. records[a].rev \in Nat /\ records'[a].rev \in Nat
      /\ records'[a].rev >= records[a].rev
  BY <1>1, MaxRevisionFacts, RevisionsGrow
<1> QED
  BY <1>1, <1>2, AttachmentsFinal DEF Dead, Live, Exists

\* A put's rows belong to the notes its request says.
LEMMA PutOwns ==
  ASSUME TypeInv, RecordsOwned, NEW c \in Credentials, NEW q \in Requests, Put(c, q)
  PROVE  /\ RecordsOwned'
         /\ \A a \in Attachments : Live(a)' => Live(a)
<1> DEFINE C == Cascade(q)
<1>1. /\ records' = PutRecords(q) /\ q.op = "put" /\ PutIsAccepted(q)
  BY DEF Put
<1>2. /\ records'[q.id] = [rev |-> MaxRevision + 1, deleted |-> q.deleted,
                           note |-> q.note, envelope |-> q.envelope]
      /\ \A i \in C : records'[i].deleted /\ records'[i].note = records[i].note
      /\ \A i \in Ids : i \notin C /\ i # q.id => records'[i] = records[i]
  BY <1>1, PutRows
<1>3. /\ q \in PutRequest /\ (q.id \in Attachments <=> q.note # Null)
  BY <1>1, RequestKinds
<1>4. /\ q.id \in Ids /\ q.note \in Notes \cup {Null} /\ q.envelope \in Envelopes
  BY <1>3 DEF PutRequest
<1>5. /\ C \in SUBSET Attachments /\ \A i \in C : Live(i)
  BY CascadeFacts
<1> HIDE DEF C
<1>6. ASSUME NEW a \in Attachments
      PROVE  /\ Live(a)' => Live(a)
             /\ Exists(a)' => records'[a].note \in Notes /\ Owns(records'[a].note, a)
  <2>1. a \in Ids
    BY DEF Ids
  <2>2. CASE a = q.id
    <3>1. q.deleted
      BY <1>1, <2>2 DEF PutIsAccepted
    <3>2. Owns(q.note, a)
      BY <1>1, <2>2 DEF Owns, Claims
    <3> QED
      BY <1>2, <1>3, <1>4, <2>2, <3>1, <3>2 DEF Live
  <2>3. CASE a \in C
    BY <1>2, <1>5, <2>3 DEF RecordsOwned, Live
  <2>4. CASE a \notin C /\ a # q.id
    BY <1>2, <2>1, <2>4 DEF RecordsOwned, Live, Exists
  <2> QED
    BY <2>2, <2>3, <2>4
<1>7. ASSUME NEW n \in Notes, Exists(n)'
      PROVE  /\ records'[n].envelope \in Envelopes
             /\ \A a \in Images[records'[n].envelope] : Owns(n, a)
  <2>1. n \in Ids /\ n \notin C
    BY <1>5, KeysAssumption DEF Ids
  <2>2. CASE n = q.id
    BY <1>1, <1>2, <1>4, <2>2 DEF Owns, Claims
  <2>3. CASE n # q.id
    BY <1>2, <1>7, <2>1, <2>3 DEF RecordsOwned, Exists
  <2> QED
    BY <2>2, <2>3
<1> QED
  BY <1>6, <1>7 DEF RecordsOwned

\* A bundle's attachments come to life with a new row of their note.
LEMMA BundleOwns ==
  ASSUME TypeInv, RecordsOwned, NEW c \in Credentials, NEW q \in Requests,
         Bundle(c, q)
  PROVE  /\ RecordsOwned'
         /\ \A a \in Attachments : Live(a)' /\ ~Live(a) =>
              \E n \in Notes : Owns(n, a) /\ records'[n].rev > MaxRevision
<1> DEFINE A == BundleIds(q)
<1>1. /\ records' = BundleRecords(c, q) /\ q.op = "bundle" /\ BundleIsAccepted(c, q)
  BY DEF Bundle
<1>2. /\ A \in SUBSET Attachments /\ Cardinality(A) \in Nat
      /\ q.id \in Notes /\ q.id \notin A
      /\ records'[q.id] = [rev |-> MaxRevision + 1 + Cardinality(A),
                           deleted |-> FALSE, note |-> Null, envelope |-> q.envelope]
      /\ \A k \in A : records'[k].note = q.id
  BY <1>1, BundleRows
<1>3. \A i \in Ids : i \notin A /\ i # q.id => records'[i] = records[i]
  BY <1>1, BundleKeeps
<1>4. q.envelope \in Envelopes
  BY <1>1, RequestKinds DEF BundleRequest
<1>5. \A a \in A : Owns(q.id, a)
  BY <1>1 DEF Owns, Claims
<1>6. MaxRevision \in Nat
  BY MaxRevisionFacts
<1>7. records'[q.id].rev > MaxRevision
  BY <1>2, <1>6
<1> HIDE DEF A
<1>8. ASSUME NEW a \in Attachments
      PROVE  /\ Live(a)' /\ ~Live(a) => a \in A
             /\ Exists(a)' => records'[a].note \in Notes /\ Owns(records'[a].note, a)
  <2>1. a \in Ids /\ a # q.id
    BY <1>2, KeysAssumption DEF Ids
  <2>2. CASE a \in A
    BY <1>2, <1>5, <2>2
  <2>3. CASE a \notin A
    BY <1>3, <2>1, <2>3 DEF RecordsOwned, Live, Exists
  <2> QED
    BY <2>2, <2>3
<1>9. ASSUME NEW n \in Notes, Exists(n)'
      PROVE  /\ records'[n].envelope \in Envelopes
             /\ \A a \in Images[records'[n].envelope] : Owns(n, a)
  <2>1. n \in Ids /\ n \notin A
    BY <1>2, KeysAssumption DEF Ids
  <2>2. CASE n = q.id
    BY <1>1, <1>2, <1>4, <2>2 DEF Owns, Claims
  <2>3. CASE n # q.id
    BY <1>3, <1>9, <2>1, <2>3 DEF RecordsOwned, Exists
  <2> QED
    BY <2>2, <2>3
<1> QED
  BY <1>2, <1>5, <1>7, <1>8, <1>9 DEF RecordsOwned

\* Ownership holds on, and an attachment comes to life only with its note.
LEMMA OwnershipStep ==
  ASSUME TypeInv, RecordsOwned, [Next]_vars
  PROVE  /\ RecordsOwned'
         /\ \A a \in Attachments : Live(a)' /\ ~Live(a) =>
              \E n \in Notes : Owns(n, a) /\ records'[n].rev > MaxRevision
<1>1. CASE UNCHANGED records
  BY <1>1 DEF RecordsOwned, Live, Exists
<1> QED
  BY <1>1, PutOwns, BundleOwns, RecordSteps

-----------------------------------------------------------------------------
(* The page and the cursor *)

Feeds == UNION {[S -> Record] : S \in SUBSET Ids}

Page ==
  [rows : Feeds, todo : SUBSET Attachments, got : SUBSET Attachments,
   gone : SUBSET Attachments, pulled : BOOLEAN, save : SUBSET Attachments,
   drop : SUBSET Attachments, put : SUBSET Notes, confirm : SUBSET Attachments,
   remove : SUBSET Notes, purge : SUBSET Attachments]

DeviceTypes ==
  /\ cursor \in Nat /\ known \in [Ids -> Nat] /\ quarantine \in [Notes -> Nat]
  /\ local \in [Notes -> NoteRow \cup {Null}]
  /\ shown \in [Notes -> (SUBSET Attachments) \cup {Null}]
  /\ fresh \subseteq Notes
  /\ page # Null => page \in Page

\* A page holds what the relay had between the cursor and the page's cursor, and
\* nothing is written there any more: rows that went on are above.
FeedIsWhole(rows) ==
  LET top == PageCursor(rows)
  IN  /\ top \in Nat /\ cursor < top /\ top <= MaxRevision
      /\ \A k \in DOMAIN rows :
           cursor < rows[k].rev /\ rows[k].rev <= top /\ rows[k].rev <= records[k].rev
      /\ \A k \in Ids : cursor < records[k].rev /\ records[k].rev <= top =>
           k \in DOMAIN rows /\ rows[k] = records[k]

RowsOwned(rows) ==
  \A n \in DOMAIN rows \cap Notes :
    /\ rows[n].envelope \in Envelopes
    /\ \A a \in Images[rows[n].envelope] : Owns(n, a)

FeedInv ==
  /\ cursor <= MaxRevision
  /\ page # Null => FeedIsWhole(page.rows) /\ RowsOwned(page.rows)

\* A conflict is met where this tab wrote a tombstone last.
StaleAreDeleted ==
  \A n \in Notes \ fresh : local[n] # Null /\ local[n].deleted

\* The list shows the IndexedDB row wherever the tab knows that row.
ListIsFresh ==
  \A n \in fresh : shown[n] = IF local[n] = Null THEN Null ELSE local[n].images

\* Only what the relay has as a tombstone is taken away.
GoneAreDead ==
  page # Null => \A a \in page.gone \cup page.drop : Dead(a)

\* Only rows of the page are applied.
AppliedAreRows ==
  page # Null => /\ page.put \subseteq LiveRows(page.rows)
                 /\ page.remove \subseteq ReadableNotes(page.rows)
                 /\ \A n \in page.remove : page.rows[n].deleted

WellKept ==
  DeviceTypes /\ StaleAreDeleted /\ ListIsFresh /\ GoneAreDead /\ AppliedAreRows

Followed == TypeInv /\ RecordsOwned /\ WellKept /\ FeedInv /\ BasesAreCurrent

LEMMA IdsFinite == IsFiniteSet(Ids)
BY KeysAssumption, FS_Union DEF Ids

\* The first rows by revision, up to the page's limit, leave no row out below
\* the last of them.
LEMMA ChangesAreWhole ==
  ASSUME TypeInv, RecordsOwned, cursor \in Nat, DOMAIN Changes # {}
  PROVE  Changes \in Feeds /\ FeedIsWhole(Changes) /\ RowsOwned(Changes)
<1> DEFINE newer == {k \in Ids : records[k].rev > cursor}
           Upto(k) == {j \in newer : records[j].rev <= records[k].rev}
           first == {k \in newer : Cardinality(Upto(k)) <= PageLimit}
           revs == {records[k].rev : k \in first}
           top == Max(revs)
<1>1. Changes = [k \in first |-> records[k]]
  BY DEF Changes
<1>2. /\ MaxRevision \in Nat
      /\ \A k \in Ids : records[k].rev \in Nat /\ records[k].rev <= MaxRevision
  BY MaxRevisionFacts
<1>3. /\ first \subseteq newer /\ newer \subseteq Ids /\ first # {}
  BY <1>1
<1>4. revs \in SUBSET Nat /\ revs # {} /\ \A x \in revs : x <= MaxRevision
  BY <1>2, <1>3
<1>5. top \in revs /\ \A x \in revs : x <= top
  BY <1>2, <1>4, NatMax
<1>6. PICK last \in first : records[last].rev = top
  BY <1>5
<1>7. PageCursor(Changes) = top
  <2>1. DOMAIN Changes = first /\ \A k \in first : Changes[k] = records[k]
    BY <1>1
  <2>2. {Changes[k].rev : k \in DOMAIN Changes} = revs
    BY <2>1
  <2> QED
    BY <2>2 DEF PageCursor
<1>8. ASSUME NEW k \in newer, records[k].rev <= top
      PROVE  k \in first
  <2>1. ASSUME NEW j \in Upto(k) PROVE j \in Upto(last)
    <3>1. k \in Ids /\ j \in Ids /\ j \in newer /\ records[j].rev <= records[k].rev
      BY <1>3
    <3>2. records[j].rev <= records[last].rev
      BY <1>2, <1>3, <1>6, <1>8, <3>1
    <3> QED
      BY <3>1, <3>2
  <2>2. IsFiniteSet(Upto(last))
    BY IdsFinite, FS_Subset, Upto(last) \subseteq Ids
  <2>3. /\ Cardinality(Upto(k)) \in Nat /\ Cardinality(Upto(last)) \in Nat
        /\ Cardinality(Upto(k)) <= Cardinality(Upto(last))
    BY <2>1, <2>2, FS_Subset, FS_CardinalityType
  <2>4. Cardinality(Upto(last)) <= PageLimit
    BY <1>6
  <2> HIDE DEF Upto
  <2> QED
    BY <2>3, <2>4, ReplicaAssumption
<1>9. records \in [Ids -> Record]
  BY DEF TypeInv, TypeOK
<1> HIDE DEF top, revs
<1>10. \A k \in first : records[k].rev <= top
  BY <1>5 DEF revs
<1>11. top \in Nat /\ top <= MaxRevision /\ cursor < top
  BY <1>2, <1>3, <1>6
<1>12. \A k \in Ids : cursor < records[k].rev /\ records[k].rev <= top => k \in first
  BY <1>8
<1>13. \A k \in first : k \in Ids /\ cursor < records[k].rev
  OBVIOUS
<1> HIDE DEF first
<1>14. Changes \in Feeds
  BY <1>1, <1>9, <1>13 DEF Feeds
<1>15. FeedIsWhole(Changes)
  BY <1>1, <1>2, <1>7, <1>10, <1>11, <1>12, <1>13 DEF FeedIsWhole
<1>16. \A n \in first \cap Notes : Exists(n)
  BY <1>2, <1>13 DEF Exists
<1> QED
  BY <1>1, <1>14, <1>15, <1>16 DEF RowsOwned, RecordsOwned

\* Nothing is written below the newest revision.
LEMMA FeedRelay ==
  ASSUME Followed, [Next]_vars, UNCHANGED replicaVars
  PROVE  Followed'
<1>1. TypeInv' /\ RecordsOwned'
  BY TypeStep, OwnershipStep DEF Followed
<1>2. UNCHANGED <<cursor, known, quarantine, local, shown, fresh, page>>
  BY DEF replicaVars, device, memory
<1>3. WellKept'
  <2>1. DeviceTypes' /\ StaleAreDeleted' /\ ListIsFresh' /\ AppliedAreRows'
    BY <1>2 DEF Followed, WellKept, DeviceTypes, StaleAreDeleted, ListIsFresh, AppliedAreRows
  <2>2. \A a \in Attachments : Dead(a) => Dead(a)'
    BY DeadStayDead DEF Followed, Dead
  <2>3. page # Null => page.gone \cup page.drop \subseteq Attachments
    BY DEF Followed, WellKept, DeviceTypes, Page
  <2>4. GoneAreDead'
    BY <1>2, <2>2, <2>3 DEF Followed, WellKept, GoneAreDead
  <2> QED
    BY <2>1, <2>4 DEF WellKept
<1>4. /\ \A k \in Ids : records'[k] = records[k] \/ records'[k].rev > MaxRevision
      /\ MaxRevision' \in Nat /\ MaxRevision' >= MaxRevision
  BY RowsMoveOn DEF Followed
<1>5. /\ MaxRevision \in Nat
      /\ \A k \in Ids : records[k].rev \in Nat /\ records[k].rev <= MaxRevision
  BY MaxRevisionFacts DEF Followed
<1>6. \A k \in Ids : records'[k].rev \in Nat /\ records'[k].rev >= records[k].rev
  BY RevisionsGrow DEF Followed
<1>7. cursor \in Nat /\ cursor <= MaxRevision /\ known \in [Ids -> Nat]
  BY DEF Followed, FeedInv, WellKept, DeviceTypes
<1>8. FeedInv'
  <2>1. cursor' <= MaxRevision'
    BY <1>2, <1>4, <1>5, <1>7
  <2>2. ASSUME page # Null
        PROVE  FeedIsWhole(page.rows)'
    <3> DEFINE rows == page.rows
               top == PageCursor(rows)
    <3>1. FeedIsWhole(rows) /\ rows \in Feeds
      BY <2>2 DEF Followed, FeedInv, WellKept, DeviceTypes, Page
    <3>2. DOMAIN rows \subseteq Ids /\ \A k \in DOMAIN rows : rows[k].rev \in Nat
      BY <3>1 DEF Feeds, Record
    <3>3. PageCursor(page.rows)' = top
      BY <1>2 DEF PageCursor
    <3>4. top \in Nat /\ top <= MaxRevision /\ cursor < top
      BY <3>1 DEF FeedIsWhole
    <3>5. \A k \in DOMAIN rows :
            cursor < rows[k].rev /\ rows[k].rev <= top /\ rows[k].rev <= records[k].rev
      BY <3>1 DEF FeedIsWhole
    <3>6. \A k \in Ids : cursor < records[k].rev /\ records[k].rev <= top =>
            k \in DOMAIN rows /\ rows[k] = records[k]
      BY <3>1 DEF FeedIsWhole
    <3> HIDE DEF top, rows
    <3>7. top <= MaxRevision'
      BY <1>4, <1>5, <3>4
    <3>8. \A k \in DOMAIN rows : rows[k].rev <= records'[k].rev
      BY <1>5, <1>6, <3>2, <3>5
    <3>9. \A k \in Ids : cursor < records'[k].rev /\ records'[k].rev <= top =>
            k \in DOMAIN rows /\ rows[k] = records'[k]
      BY <1>4, <1>5, <1>6, <3>4, <3>6
    <3>10. page'.rows = rows
      BY <1>2 DEF rows
    <3> QED
      BY <1>2, <3>3, <3>4, <3>5, <3>7, <3>8, <3>9, <3>10 DEF FeedIsWhole
  <2>3. page # Null => RowsOwned(page.rows)'
    BY <1>2 DEF Followed, FeedInv, RowsOwned
  <2> QED
    BY <1>2, <2>1, <2>2, <2>3 DEF FeedInv
<1>9. BasesAreCurrent'
  <2>1. ASSUME NEW k \in Ids
        PROVE  /\ known[k] <= records'[k].rev
               /\ records'[k].rev <= cursor => known[k] = records'[k].rev
    <3>1. known[k] \in Nat /\ known[k] <= records[k].rev
          /\ (records[k].rev <= cursor => known[k] = records[k].rev)
      BY <1>7 DEF Followed, BasesAreCurrent
    <3> QED
      BY <1>4, <1>5, <1>6, <1>7, <3>1
  <2> QED
    BY <1>2, <2>1 DEF BasesAreCurrent
<1> QED
  BY <1>1, <1>3, <1>8, <1>9 DEF Followed

\* The steps of the device, apart from those of its surroundings.
Act == Sync \/ Unreachable \/ Reload

\* One attachment at a time.
ByteStep(a) ==
  \/ Download(a) \/ SaveBytes(a) \/ SkipTombstone(a) \/ DropAttachment(a)
  \/ Purge(a) \/ ConfirmBytes(a)

LEMMA ActCases ==
  ASSUME Act
  PROVE  \/ Pull \/ PullReturns \/ Acknowledge \/ Unreachable \/ Reload
         \/ \E a \in Attachments : ByteStep(a)
         \/ \E n \in Notes : SaveNote(n) \/ RemoveNote(n)
BY DEF Act, Sync, ByteStep

\* What a page's rows say of a note it has.
LEMMA RowTypes ==
  ASSUME DeviceTypes, FeedInv, page # Null, NEW n \in DOMAIN page.rows \cap Notes
  PROVE  /\ page.rows \in Feeds /\ page.rows[n].rev \in Nat
         /\ page.rows[n].deleted \in BOOLEAN
         /\ page.rows[n].envelope \in Envelopes
         /\ Images[page.rows[n].envelope] \in SUBSET Attachments
<1>1. page.rows \in Feeds
  BY DEF DeviceTypes, Page
<1>2. page.rows[n] \in Record
  BY <1>1 DEF Feeds
<1>3. page.rows[n].envelope \in Envelopes
  BY DEF FeedInv, RowsOwned
<1> QED
  BY <1>1, <1>2, <1>3, ReplicaAssumption DEF Record

\* What a page takes away when it is fetched: the tombstones it brings.
LEMMA PullKeeps ==
  ASSUME Followed, Pull, UNCHANGED vars
  PROVE  WellKept' /\ page'.rows = Changes
<1> DEFINE rows == Changes
           todo == (UNION {Images[rows[n].envelope] : n \in LiveRows(rows)})
                     \ DeletedAttachments(rows)
<1>1. rows \in Feeds /\ RowsOwned(rows)
  BY ChangesAreWhole DEF Followed, WellKept, DeviceTypes, Pull
<1>2. page' = [rows |-> rows, todo |-> todo,
               got |-> {}, gone |-> DeletedAttachments(rows), pulled |-> FALSE,
               save |-> {}, drop |-> {}, put |-> {}, confirm |-> {}, remove |-> {},
               purge |-> {}]
  BY DEF Pull
<1>3. UNCHANGED <<cursor, known, quarantine, local, shown, fresh>>
  BY DEF Pull, device
<1>4. \A a \in DeletedAttachments(rows) : Dead(a)'
  <2>1. ASSUME NEW a \in DeletedAttachments(rows)
        PROVE  records[a].deleted /\ records[a].rev > cursor
    BY DEF DeletedAttachments, Changes
  <2>2. cursor \in Nat /\ \A k \in Ids : records[k].rev \in Nat
    BY MaxRevisionFacts DEF Followed, WellKept, DeviceTypes
  <2>3. DeletedAttachments(rows) \subseteq Ids
    BY DEF DeletedAttachments, Ids
  <2> HIDE DEF rows
  <2> QED
    BY <2>1, <2>2, <2>3 DEF Dead, Live, Exists, vars
<1> HIDE DEF rows
<1>5. \A n \in LiveRows(rows) : Images[rows[n].envelope] \subseteq Attachments
  BY <1>1, ReplicaAssumption DEF LiveRows, ReadableNotes, RowsOwned
<1>6. todo \subseteq Attachments /\ DeletedAttachments(rows) \subseteq Attachments
  BY <1>5 DEF DeletedAttachments
<1> HIDE DEF todo
<1>7. page' \in Page /\ page'.put = {} /\ page'.remove = {}
  BY <1>1, <1>2, <1>6 DEF Page
<1>8. DeviceTypes' /\ StaleAreDeleted' /\ ListIsFresh' /\ AppliedAreRows'
  BY <1>3, <1>7 DEF Followed, WellKept, DeviceTypes, StaleAreDeleted, ListIsFresh, AppliedAreRows
<1>9. GoneAreDead'
  BY <1>2, <1>4 DEF GoneAreDead
<1> QED
  BY <1>2, <1>8, <1>9 DEF WellKept, rows

LEMMA PullReturnsKeeps ==
  ASSUME Followed, PullReturns, UNCHANGED vars
  PROVE  /\ WellKept' /\ UNCHANGED <<cursor, known>>
         /\ page # Null /\ page'.rows = page.rows
<1> DEFINE rows == page.rows
<1>1. page # Null /\ page \in Page
  BY DEF PullReturns, Followed, WellKept, DeviceTypes
<1>2. UNCHANGED <<cursor, known, local, shown, fresh>>
  BY DEF PullReturns
<1>3. quarantine' \in [Notes -> Nat]
  <2>1. ASSUME NEW n \in Notes, n \in DOMAIN rows PROVE rows[n].rev \in Nat
    BY <1>1, <2>1, RowTypes DEF Followed, WellKept
  <2>2. quarantine' = Quarantined(rows) /\ quarantine \in [Notes -> Nat]
    BY DEF PullReturns, Followed, WellKept, DeviceTypes
  <2> QED
    BY <2>1, <2>2 DEF Quarantined
<1>4. LiveRows(rows) \subseteq Notes /\ ReadableNotes(rows) \subseteq Notes
  BY DEF LiveRows, ReadableNotes
<1>5. /\ page' \in Page /\ page'.rows = page.rows
      /\ page'.gone = page.gone /\ page'.drop = page.gone
      /\ page'.put = LiveRows(rows)
      /\ page'.remove = {n \in ReadableNotes(rows) : rows[n].deleted}
  BY <1>1, <1>4 DEF PullReturns, Page
<1>6. GoneAreDead'
  BY <1>1, <1>5 DEF Followed, WellKept, GoneAreDead, Dead, Live, Exists, vars
<1>7. DeviceTypes' /\ StaleAreDeleted' /\ ListIsFresh' /\ AppliedAreRows'
  BY <1>1, <1>2, <1>3, <1>5 DEF Followed, WellKept, DeviceTypes, StaleAreDeleted, ListIsFresh, AppliedAreRows
<1> QED
  BY <1>1, <1>2, <1>5, <1>6, <1>7 DEF WellKept

LEMMA ConflictKeeps ==
  ASSUME Followed, NEW n \in Notes, Conflict(n)
  PROVE  WellKept' /\ UNCHANGED <<cursor, known>> /\ page' = Null
<1>1. UNCHANGED <<cursor, known, quarantine, local>> /\ page' = Null
  BY DEF Conflict, device
<1>2. local[n] \in NoteRow
  BY DEF Conflict, Followed, WellKept, StaleAreDeleted, ListIsFresh, AppliedAreRows, DeviceTypes
<1>3. shown' \in [Notes -> (SUBSET Attachments) \cup {Null}]
  BY <1>2 DEF Conflict, Followed, WellKept, DeviceTypes, NoteRow
<1> QED
  BY <1>1, <1>3
     DEF Conflict, Followed, WellKept, StaleAreDeleted, ListIsFresh, AppliedAreRows, DeviceTypes, GoneAreDead

\* The shape of a page from one step of a pass to the next.
SamePage ==
  /\ page # Null /\ page \in Page /\ page' \in Page
  /\ page'.rows = page.rows /\ page'.todo = page.todo /\ page'.pulled = page.pulled
  /\ page'.got = page.got /\ page'.gone = page.gone
  /\ page'.put \subseteq page.put /\ page'.remove \subseteq page.remove

LEMMA DownloadEffect ==
  ASSUME DeviceTypes, NEW a \in Attachments, Download(a)
  PROVE  /\ page # Null /\ page \in Page /\ page' \in Page
         /\ page'.rows = page.rows /\ page'.pulled = page.pulled
         /\ page'.save = page.save /\ page'.drop = page.drop
         /\ page'.put = page.put /\ page'.confirm = page.confirm
         /\ page'.remove = page.remove /\ page'.purge = page.purge
         /\ a \in page.todo /\ Exists(a)
         /\ page'.todo = page.todo \ {a}
         /\ Live(a) => page'.got = page.got \cup {a} /\ page'.gone = page.gone
         /\ ~Live(a) => page'.got = page.got /\ page'.gone = page.gone \cup {a}
         /\ UNCHANGED <<cursor, known, quarantine, local, arrived, arriving, shown, fresh>>
<1>1. page # Null /\ page \in Page
  BY DEF DeviceTypes, Download
<1> DEFINE got == IF Live(a) THEN page.got \cup {a} ELSE page.got
           gone == IF Live(a) THEN page.gone ELSE page.gone \cup {a}
<1>2. page' = [page EXCEPT !.todo = @ \ {a}, !.got = got, !.gone = gone]
  BY DEF Download
<1>3. got \in SUBSET Attachments /\ gone \in SUBSET Attachments
  BY <1>1 DEF Page
<1>4. /\ Live(a) => got = page.got \cup {a} /\ gone = page.gone
      /\ ~Live(a) => got = page.got /\ gone = page.gone \cup {a}
  OBVIOUS
<1> HIDE DEF got, gone
<1>5. page' \in Page
  BY <1>1, <1>2, <1>3 DEF Page
<1>6. /\ page'.rows = page.rows /\ page'.pulled = page.pulled
      /\ page'.save = page.save /\ page'.drop = page.drop
      /\ page'.put = page.put /\ page'.confirm = page.confirm
      /\ page'.remove = page.remove /\ page'.purge = page.purge
      /\ page'.todo = page.todo \ {a} /\ page'.got = got /\ page'.gone = gone
  BY <1>1, <1>2 DEF Page
<1> QED
  BY <1>1, <1>4, <1>5, <1>6 DEF Download, device

LEMMA SaveBytesEffect ==
  ASSUME DeviceTypes, NEW a \in Attachments, SaveBytes(a)
  PROVE  /\ SamePage
         /\ page.pulled /\ a \in page.save /\ page'.save = page.save \ {a}
         /\ page'.drop = page.drop /\ page'.put = page.put
         /\ page'.confirm = page.confirm /\ page'.remove = page.remove
         /\ page'.purge = page.purge
         /\ arriving' = arriving \cup {a} /\ arrived' = arrived \ {a}
         /\ UNCHANGED <<cursor, known, quarantine, local, shown, fresh>>
BY DEF DeviceTypes, SaveBytes, Applying, Page, SamePage

LEMMA SkipTombstoneEffect ==
  ASSUME DeviceTypes, NEW a \in Attachments, SkipTombstone(a)
  PROVE  /\ SamePage
         /\ page.pulled /\ CanDrop(a) /\ ~Listed(a) /\ page'.drop = page.drop \ {a}
         /\ page'.save = page.save /\ page'.put = page.put
         /\ page'.confirm = page.confirm /\ page'.remove = page.remove
         /\ page'.purge = page.purge
         /\ UNCHANGED <<cursor, known, quarantine, local, arrived, arriving, shown, fresh>>
BY DEF DeviceTypes, SkipTombstone, CanDrop, Applying, Page, SamePage, device

LEMMA PurgeEffect ==
  ASSUME DeviceTypes, NEW a \in Attachments, Purge(a)
  PROVE  /\ SamePage
         /\ page.pulled /\ a \in page.purge /\ page'.purge = page.purge \ {a}
         /\ page'.save = page.save /\ page'.drop = page.drop /\ page'.put = page.put
         /\ page'.confirm = page.confirm /\ page'.remove = page.remove
         /\ arriving' = arriving \ {a} /\ arrived' = arrived \ {a}
         /\ UNCHANGED <<cursor, known, quarantine, local, shown, fresh>>
BY DEF DeviceTypes, Purge, Applying, Page, SamePage

LEMMA ConfirmBytesEffect ==
  ASSUME DeviceTypes, NEW a \in Attachments, ConfirmBytes(a)
  PROVE  /\ SamePage
         /\ page.pulled /\ page'.confirm = page.confirm \ {a}
         /\ page'.save = page.save /\ page'.drop = page.drop /\ page'.put = page.put
         /\ page'.remove = page.remove /\ page'.purge = page.purge
         /\ arriving' = arriving \ {a} /\ arrived' = arrived \cup {a}
         /\ UNCHANGED <<cursor, known, quarantine, local, shown, fresh>>
BY DEF DeviceTypes, ConfirmBytes, Applying, Page, SamePage

\* An attachment is dropped from the one note that may list it.
LEMMA DropAttachmentEffect ==
  ASSUME Followed, NEW a \in Attachments, DropAttachment(a),
         NEW n, n = records[a].note
  PROVE  /\ n \in Notes /\ Owns(n, a)
         /\ CanDrop(a) /\ shown[n] \in SUBSET Attachments /\ a \in shown[n]
         /\ \/ Conflict(n)
            \/ /\ n \in fresh
               /\ SamePage
               /\ page.pulled /\ page'.drop = page.drop \ {a} /\ page'.purge = {a}
               /\ page'.save = page.save /\ page'.put = page.put
               /\ page'.confirm = page.confirm /\ page'.remove = page.remove
               /\ local' = [local EXCEPT ![n].images = shown[n] \ {a}]
               /\ shown' = [shown EXCEPT ![n] = @ \ {a}]
               /\ UNCHANGED <<cursor, known, quarantine, arrived, arriving, fresh>>
<1>1. /\ CanDrop(a) /\ shown[n] # Null /\ a \in shown[n]
      /\ page # Null /\ page.pulled /\ a \in page.drop
  BY DEF DropAttachment, Listed, CanDrop, Applying
<1>2. DeviceTypes /\ page \in Page
  BY <1>1 DEF Followed, WellKept, DeviceTypes
<1>3. Dead(a)
  BY <1>1 DEF Followed, WellKept, GoneAreDead
<1>4. n \in Notes /\ Owns(n, a)
  BY <1>3 DEF Followed, RecordsOwned, Dead
<1>5. shown[n] \in SUBSET Attachments
  BY <1>1, <1>2, <1>4 DEF DeviceTypes
<1>6. ASSUME ~Conflict(n)
      PROVE  /\ n \in fresh
             /\ local' = [local EXCEPT ![n].images = shown[n] \ {a}]
             /\ shown' = [shown EXCEPT ![n] = @ \ {a}]
             /\ page' = [page EXCEPT !.drop = @ \ {a}, !.purge = {a}]
             /\ UNCHANGED <<cursor, known, quarantine, arrived, arriving, fresh>>
  BY <1>6 DEF DropAttachment
<1>7. ASSUME ~Conflict(n)
      PROVE  /\ SamePage
             /\ page'.drop = page.drop \ {a} /\ page'.purge = {a}
             /\ page'.save = page.save /\ page'.put = page.put
             /\ page'.confirm = page.confirm /\ page'.remove = page.remove
  <2>1. page' = [page EXCEPT !.drop = @ \ {a}, !.purge = {a}]
    BY <1>6, <1>7
  <2> QED
    BY <1>1, <1>2, <2>1 DEF SamePage, Page
<1> QED
  BY <1>1, <1>4, <1>5, <1>6, <1>7

LEMMA ByteKeeps ==
  ASSUME Followed, NEW a \in Attachments, ByteStep(a), UNCHANGED vars
  PROVE  /\ WellKept' /\ UNCHANGED <<cursor, known>>
         /\ page # Null /\ (page' = Null \/ page'.rows = page.rows)
<1>1. DeviceTypes /\ StaleAreDeleted /\ ListIsFresh /\ GoneAreDead
      /\ AppliedAreRows
  BY DEF Followed, WellKept
<1>2. \A x : Dead(x)' <=> Dead(x)
  BY DEF Dead, Live, Exists, vars
<1>3. CASE Download(a)
  <2>1. /\ page # Null /\ page' \in Page /\ page'.rows = page.rows
        /\ page'.put = page.put /\ page'.remove = page.remove
        /\ UNCHANGED <<cursor, known, quarantine, local, shown, fresh>>
    BY <1>1, <1>3, DownloadEffect
  <2>2. \A x \in page'.gone \cup page'.drop : x \in page.gone \cup page.drop \/ Dead(x)
    BY <1>1, <1>3, DownloadEffect DEF Dead
  <2>3. DeviceTypes' /\ StaleAreDeleted' /\ ListIsFresh' /\ AppliedAreRows'
    BY <1>1, <2>1 DEF DeviceTypes, StaleAreDeleted, ListIsFresh, AppliedAreRows
  <2>4. GoneAreDead'
    BY <1>1, <1>2, <2>1, <2>2 DEF GoneAreDead
  <2> QED
    BY <2>1, <2>3, <2>4 DEF WellKept
<1>4. CASE SaveBytes(a) \/ SkipTombstone(a) \/ Purge(a) \/ ConfirmBytes(a)
  <2>1. /\ SamePage /\ page'.drop \subseteq page.drop
        /\ UNCHANGED <<cursor, known, quarantine, local, shown, fresh>>
    BY <1>1, <1>4, SaveBytesEffect, SkipTombstoneEffect, PurgeEffect, ConfirmBytesEffect
  <2>2. DeviceTypes' /\ StaleAreDeleted' /\ ListIsFresh' /\ AppliedAreRows'
    BY <1>1, <2>1 DEF DeviceTypes, StaleAreDeleted, ListIsFresh, AppliedAreRows, SamePage
  <2>3. GoneAreDead'
    BY <1>1, <1>2, <2>1 DEF GoneAreDead, SamePage
  <2> QED
    BY <2>1, <2>2, <2>3 DEF WellKept, SamePage
<1>5. CASE DropAttachment(a)
  <2> DEFINE n == records[a].note
  <2>1. /\ n \in Notes /\ CanDrop(a)
        /\ shown[n] \in SUBSET Attachments /\ a \in shown[n]
        /\ \/ Conflict(n)
           \/ /\ n \in fresh
              /\ SamePage
              /\ page'.drop = page.drop \ {a}
              /\ local' = [local EXCEPT ![n].images = shown[n] \ {a}]
              /\ shown' = [shown EXCEPT ![n] = @ \ {a}]
              /\ UNCHANGED <<cursor, known, quarantine, fresh>>
    BY <1>5, DropAttachmentEffect
  <2> HIDE DEF n
  <2>2. CASE Conflict(n)
    BY <2>1, <2>2, ConflictKeeps DEF CanDrop, Applying
  <2>3. CASE ~Conflict(n)
    <3>0. local[n] \in NoteRow
      BY <1>1, <2>1, <2>3, AbsenceAssumption DEF DeviceTypes, ListIsFresh
    <3>1. local' \in [Notes -> NoteRow \cup {Null}]
      BY <1>1, <2>1, <2>3, <3>0 DEF DeviceTypes, NoteRow
    <3>2. shown' \in [Notes -> (SUBSET Attachments) \cup {Null}]
      BY <1>1, <2>1, <2>3 DEF DeviceTypes
    <3>3. DeviceTypes'
      BY <1>1, <2>1, <2>3, <3>1, <3>2 DEF DeviceTypes, SamePage
    <3>4. /\ local'[n] \in NoteRow /\ local'[n].images = shown'[n]
          /\ \A m \in Notes : m # n => local'[m] = local[m] /\ shown'[m] = shown[m]
      <4>1. local \in [Notes -> NoteRow \cup {Null}]
            /\ shown \in [Notes -> (SUBSET Attachments) \cup {Null}]
        BY <1>1 DEF DeviceTypes
      <4> QED
        BY <2>1, <2>3, <3>0, <4>1 DEF NoteRow
    <3>6. StaleAreDeleted' /\ ListIsFresh' /\ AppliedAreRows'
      BY <1>1, <2>1, <2>3, <3>4, AbsenceAssumption
         DEF StaleAreDeleted, ListIsFresh, AppliedAreRows, DeviceTypes, SamePage
    <3>5. GoneAreDead'
      BY <1>1, <1>2, <2>1, <2>3 DEF GoneAreDead, SamePage
    <3> QED
      BY <2>1, <2>3, <3>3, <3>5, <3>6 DEF WellKept, SamePage
  <2> QED
    BY <2>2, <2>3
<1> QED
  BY <1>3, <1>4, <1>5 DEF ByteStep

\* A note that is saved is written to IndexedDB and to the list at once.
LEMMA SaveNoteEffect ==
  ASSUME Followed, NEW n \in Notes, SaveNote(n),
         NEW images, images = Images[page.rows[n].envelope] \ page.gone
  PROVE  /\ page # Null /\ page.pulled /\ NotesMayBeSaved /\ n \in page.put
         /\ n \in LiveRows(page.rows) /\ n \in DOMAIN page.rows
         /\ images \in SUBSET Attachments
         /\ [deleted |-> FALSE, envelope |-> page.rows[n].envelope,
             images |-> images] \in NoteRow
         /\ \/ Conflict(n)
            \/ /\ n \in fresh
               /\ SamePage
               /\ page'.put = page.put \ {n} /\ page'.remove = page.remove
               /\ page'.save = page.save /\ page'.drop = page.drop
               /\ page'.purge = page.purge
               /\ local' = [local EXCEPT ![n] =
                    [deleted |-> FALSE, envelope |-> page.rows[n].envelope,
                     images |-> images]]
               /\ shown' = [shown EXCEPT ![n] = images]
               /\ UNCHANGED <<cursor, known, quarantine, arrived, arriving, fresh>>
<1>1. /\ page # Null /\ page.pulled /\ NotesMayBeSaved /\ n \in page.put
      /\ page \in Page /\ n \in LiveRows(page.rows)
  BY DEF SaveNote, Applying, Followed, WellKept, DeviceTypes, AppliedAreRows
<1>2. n \in DOMAIN page.rows \cap Notes
  BY <1>1 DEF LiveRows, ReadableNotes
<1>3. page.rows[n].envelope \in Envelopes /\ images \in SUBSET Attachments
  BY <1>1, <1>2, RowTypes DEF Followed, WellKept
<1>4. ASSUME ~Conflict(n)
      PROVE  /\ n \in fresh
             /\ local' = [local EXCEPT ![n] =
                  [deleted |-> FALSE, envelope |-> page.rows[n].envelope,
                   images |-> images]]
             /\ shown' = [shown EXCEPT ![n] = images]
             /\ page' = [page EXCEPT !.put = @ \ {n}, !.confirm = images]
             /\ UNCHANGED <<cursor, known, quarantine, arrived, arriving, fresh>>
  BY <1>4 DEF SaveNote
<1>5. ASSUME ~Conflict(n)
      PROVE  /\ SamePage
             /\ page'.put = page.put \ {n} /\ page'.remove = page.remove
             /\ page'.save = page.save /\ page'.drop = page.drop
             /\ page'.purge = page.purge
  <2>1. page' = [page EXCEPT !.put = @ \ {n}, !.confirm = images]
    BY <1>4, <1>5
  <2> QED
    BY <1>1, <1>3, <2>1 DEF SamePage, Page
<1>6. [deleted |-> FALSE, envelope |-> page.rows[n].envelope,
       images |-> images] \in NoteRow
  BY <1>3 DEF NoteRow
<1> QED
  BY <1>1, <1>2, <1>3, <1>4, <1>5, <1>6

\* A note that is removed leaves the list, and its row becomes a tombstone that
\* the tab's snapshot lacks.
LEMMA RemoveNoteEffect ==
  ASSUME Followed, NEW n \in Notes, RemoveNote(n)
  PROVE  /\ page # Null /\ page.pulled /\ NotesMayBeSaved /\ page.put = {}
         /\ n \in page.remove
         /\ \/ Conflict(n)
            \/ /\ n \in fresh
               /\ SamePage
               /\ page'.remove = page.remove \ {n} /\ page'.put = {}
               /\ page'.save = page.save /\ page'.drop = page.drop
               /\ page'.purge = IF shown[n] = Null THEN {} ELSE shown[n]
               /\ shown' = [shown EXCEPT ![n] = Null]
               /\ \/ /\ local[n] = Null /\ UNCHANGED <<local, fresh>>
                  \/ /\ local[n] \in NoteRow
                     /\ local' = [local EXCEPT ![n].deleted = TRUE]
                     /\ fresh' = fresh \ {n}
               /\ UNCHANGED <<cursor, known, quarantine, arrived, arriving>>
<1>1. /\ page # Null /\ page.pulled /\ NotesMayBeSaved /\ page.put = {}
      /\ page \in Page /\ n \in page.remove /\ DeviceTypes
  BY DEF RemoveNote, Applying, Followed, WellKept, DeviceTypes
<1> DEFINE purge == IF shown[n] = Null THEN {} ELSE shown[n]
<1>2. purge \in SUBSET Attachments
  BY <1>1 DEF DeviceTypes
<1>3. ASSUME ~Conflict(n)
      PROVE  /\ n \in fresh
             /\ page' = [page EXCEPT !.remove = @ \ {n}, !.purge = purge]
             /\ shown' = [shown EXCEPT ![n] = Null]
             /\ \/ /\ local[n] = Null /\ UNCHANGED <<local, fresh>>
                \/ /\ local[n] # Null
                   /\ local' = [local EXCEPT ![n].deleted = TRUE]
                   /\ fresh' = fresh \ {n}
             /\ UNCHANGED <<cursor, known, quarantine, arrived, arriving>>
  BY <1>3 DEF RemoveNote
<1>4. local[n] # Null => local[n] \in NoteRow
  BY <1>1 DEF DeviceTypes
<1> HIDE DEF purge
<1>5. ASSUME ~Conflict(n)
      PROVE  /\ SamePage
             /\ page'.remove = page.remove \ {n} /\ page'.put = page.put
             /\ page'.save = page.save /\ page'.drop = page.drop
             /\ page'.purge = purge
  <2>1. page' = [page EXCEPT !.remove = @ \ {n}, !.purge = purge]
    BY <1>3, <1>5
  <2> QED
    BY <1>1, <1>2, <2>1 DEF SamePage, Page
<1> QED
  BY <1>1, <1>3, <1>4, <1>5 DEF purge

LEMMA NoteKeeps ==
  ASSUME Followed, NEW n \in Notes, SaveNote(n) \/ RemoveNote(n), UNCHANGED vars
  PROVE  /\ WellKept' /\ UNCHANGED <<cursor, known>>
         /\ page # Null /\ (page' = Null \/ page'.rows = page.rows)
<1>1. DeviceTypes /\ StaleAreDeleted /\ ListIsFresh /\ GoneAreDead
      /\ AppliedAreRows
  BY DEF Followed, WellKept
<1>2. \A x : Dead(x)' <=> Dead(x)
  BY DEF Dead, Live, Exists, vars
<1>3. CASE Conflict(n)
  <2>1. page # Null
    BY DEF SaveNote, RemoveNote, Applying
  <2> QED
    BY <1>3, <2>1, ConflictKeeps
<1>4. CASE SaveNote(n) /\ ~Conflict(n)
  <2> DEFINE images == Images[page.rows[n].envelope] \ page.gone
             row == [deleted |-> FALSE, envelope |-> page.rows[n].envelope,
                     images |-> images]
  <2>1. /\ images \in SUBSET Attachments /\ row \in NoteRow
        /\ n \in fresh /\ SamePage /\ page'.drop = page.drop
        /\ local' = [local EXCEPT ![n] = row]
        /\ shown' = [shown EXCEPT ![n] = images]
        /\ UNCHANGED <<cursor, known, quarantine, fresh>>
    BY <1>4, SaveNoteEffect
  <2>2. row.images = images
    OBVIOUS
  <2> HIDE DEF images, row
  <2>3. /\ local' \in [Notes -> NoteRow \cup {Null}] /\ local'[n] = row
        /\ shown' \in [Notes -> (SUBSET Attachments) \cup {Null}]
        /\ shown'[n] = images
        /\ \A m \in Notes : m # n => local'[m] = local[m] /\ shown'[m] = shown[m]
    BY <1>1, <2>1 DEF DeviceTypes
  <2>4. DeviceTypes'
    BY <1>1, <2>1, <2>3 DEF DeviceTypes, SamePage
  <2>5. StaleAreDeleted' /\ ListIsFresh'
    BY <1>1, <2>1, <2>2, <2>3, AbsenceAssumption
       DEF StaleAreDeleted, ListIsFresh, DeviceTypes
  <2>6. GoneAreDead' /\ AppliedAreRows'
    BY <1>1, <1>2, <2>1 DEF GoneAreDead, AppliedAreRows, SamePage
  <2> QED
    BY <2>1, <2>4, <2>5, <2>6 DEF WellKept, SamePage
<1>5. CASE RemoveNote(n) /\ ~Conflict(n)
  <2>1. /\ n \in fresh /\ SamePage /\ page'.drop = page.drop
        /\ shown' = [shown EXCEPT ![n] = Null]
        /\ \/ /\ local[n] = Null /\ UNCHANGED <<local, fresh>>
           \/ /\ local[n] \in NoteRow
              /\ local' = [local EXCEPT ![n].deleted = TRUE]
              /\ fresh' = fresh \ {n}
        /\ UNCHANGED <<cursor, known, quarantine>>
    BY <1>5, RemoveNoteEffect
  <2>2. \/ local'[n] = Null /\ local[n] = Null /\ UNCHANGED fresh
        \/ local'[n] \in NoteRow /\ local'[n].deleted /\ fresh' = fresh \ {n}
    BY <1>1, <2>1, ZenonT(40) DEF NoteRow, DeviceTypes
  <2>3. /\ local' \in [Notes -> NoteRow \cup {Null}]
        /\ \A m \in Notes : m # n => local'[m] = local[m]
    BY <1>1, <2>1, <2>2 DEF DeviceTypes
  <2>4. /\ shown' \in [Notes -> (SUBSET Attachments) \cup {Null}]
        /\ shown'[n] = Null /\ \A m \in Notes : m # n => shown'[m] = shown[m]
    BY <1>1, <2>1 DEF DeviceTypes
  <2>5. DeviceTypes'
    BY <1>1, <2>1, <2>3, <2>4 DEF DeviceTypes, SamePage
  <2>6. StaleAreDeleted' /\ ListIsFresh'
    BY <1>1, <2>1, <2>2, <2>3, <2>4, AbsenceAssumption
       DEF StaleAreDeleted, ListIsFresh, DeviceTypes
  <2>7. GoneAreDead' /\ AppliedAreRows'
    BY <1>1, <1>2, <2>1 DEF GoneAreDead, AppliedAreRows, SamePage
  <2> QED
    BY <2>1, <2>5, <2>6, <2>7 DEF WellKept, SamePage
<1> QED
  BY <1>3, <1>4, <1>5

\* A pass that ends without an acknowledgement, or a tab that is opened again.
LEMMA StopKeeps ==
  ASSUME Followed, Unreachable \/ Reload, UNCHANGED vars
  PROVE  WellKept' /\ UNCHANGED <<cursor, known>> /\ page' = Null
<1>1. /\ UNCHANGED <<cursor, known, quarantine, local>> /\ page' = Null
      /\ DeviceTypes /\ StaleAreDeleted /\ ListIsFresh
  BY DEF Unreachable, Reload, device, Followed, WellKept
<1>2. CASE Unreachable
  BY <1>1, <1>2 DEF Unreachable, WellKept, DeviceTypes, StaleAreDeleted, ListIsFresh,
     GoneAreDead, AppliedAreRows
<1>3. CASE Reload
  <2>1. \A n \in Notes : local[n] # Null => local[n] \in NoteRow
    BY <1>1 DEF DeviceTypes
  <2>2. /\ shown' \in [Notes -> (SUBSET Attachments) \cup {Null}]
        /\ fresh' \subseteq Notes
    BY <1>3, <2>1 DEF Reload, NoteRow
  <2>3. StaleAreDeleted' /\ ListIsFresh'
    BY <1>1, <1>3 DEF Reload, StaleAreDeleted, ListIsFresh
  <2> QED
    BY <1>1, <2>2, <2>3 DEF WellKept, DeviceTypes, GoneAreDead, AppliedAreRows
<1> QED
  BY <1>2, <1>3

LEMMA AcknowledgeKeeps ==
  ASSUME Followed, Acknowledge, UNCHANGED vars
  PROVE  /\ WellKept' /\ page # Null /\ page' = Null
         /\ cursor' = PageCursor(page.rows)
         /\ \A k \in Ids : known'[k] =
               IF k \in DOMAIN page.rows /\ page.rows[k].rev > known[k]
               THEN page.rows[k].rev ELSE known[k]
         /\ UNCHANGED <<quarantine, local, arrived, arriving, shown, fresh>>
<1> DEFINE rows == page.rows
           top == PageCursor(rows)
<1>1. /\ page # Null /\ page' = Null
      /\ cursor' = IF top > cursor THEN top ELSE cursor
      /\ known' = [k \in Ids |->
                     IF k \in DOMAIN rows /\ rows[k].rev > known[k]
                     THEN rows[k].rev ELSE known[k]]
      /\ UNCHANGED <<quarantine, local, arrived, arriving, shown, fresh>>
  BY DEF Acknowledge, Applying
<1>2. DeviceTypes /\ StaleAreDeleted /\ ListIsFresh
  BY DEF Followed, WellKept
<1>3. /\ cursor \in Nat /\ known \in [Ids -> Nat]
      /\ \A k \in DOMAIN rows : k \in Ids => rows[k].rev \in Nat
      /\ top \in Nat /\ top > cursor
  <2>1. rows \in Feeds /\ FeedIsWhole(rows)
    BY <1>1, <1>2 DEF DeviceTypes, Page, Followed, FeedInv
  <2>2. \A k \in DOMAIN rows : rows[k].rev \in Nat
    BY <2>1 DEF Feeds, Record
  <2> QED
    BY <1>2, <2>1, <2>2 DEF DeviceTypes, FeedIsWhole
<1> HIDE DEF top, rows
<1>4. cursor' = top /\ known' \in [Ids -> Nat]
  BY <1>1, <1>3
<1>5. WellKept'
  BY <1>1, <1>2, <1>3, <1>4 DEF WellKept, DeviceTypes, StaleAreDeleted, ListIsFresh,
     GoneAreDead, AppliedAreRows
<1> QED
  BY <1>1, <1>4, <1>5 DEF top, rows

-----------------------------------------------------------------------------
(* The bases of the device's next writes *)

\* What an acknowledged page brings is the relay's revision of each of its rows,
\* or was until the relay went on above the page.
LEMMA AcknowledgedBases ==
  ASSUME Followed, Acknowledge, UNCHANGED vars
  PROVE  FeedInv' /\ BasesAreCurrent'
<1> DEFINE rows == page.rows
           top == PageCursor(rows)
<1>1. /\ page' = Null /\ cursor' = top /\ page # Null
      /\ \A k \in Ids : known'[k] =
            IF k \in DOMAIN rows /\ rows[k].rev > known[k]
            THEN rows[k].rev ELSE known[k]
  BY AcknowledgeKeeps
<1>2. FeedIsWhole(rows) /\ rows \in Feeds
  BY <1>1 DEF Followed, FeedInv, WellKept, DeviceTypes, Page
<1>3. /\ top \in Nat /\ cursor < top /\ top <= MaxRevision
      /\ \A k \in DOMAIN rows : /\ rows[k].rev \in Nat /\ cursor < rows[k].rev
                                /\ rows[k].rev <= records[k].rev
      /\ \A k \in Ids : cursor < records[k].rev /\ records[k].rev <= top =>
           k \in DOMAIN rows /\ rows[k] = records[k]
  BY <1>2 DEF FeedIsWhole, Feeds, Record
<1>4. /\ cursor \in Nat /\ known \in [Ids -> Nat]
      /\ \A k \in Ids : records[k].rev \in Nat
  BY MaxRevisionFacts DEF Followed, WellKept, DeviceTypes
<1>5. UNCHANGED records
  BY DEF vars
<1> HIDE DEF top, rows
<1>6. ASSUME NEW k \in Ids
      PROVE  /\ known'[k] <= records[k].rev
             /\ records[k].rev <= top => known'[k] = records[k].rev
  <2>1. /\ known[k] \in Nat /\ known[k] <= records[k].rev
        /\ (records[k].rev <= cursor => known[k] = records[k].rev)
    BY <1>4 DEF Followed, BasesAreCurrent
  <2> QED
    BY <1>1, <1>3, <1>4, <2>1
<1>7. BasesAreCurrent'
  BY <1>1, <1>5, <1>6 DEF BasesAreCurrent
<1>8. MaxRevision' = MaxRevision
  BY <1>5 DEF MaxRevision
<1> QED
  BY <1>1, <1>3, <1>7, <1>8 DEF FeedInv

LEMMA FollowedAct ==
  ASSUME Followed, Act, UNCHANGED vars
  PROVE  Followed'
<1>1. TypeInv' /\ RecordsOwned' /\ UNCHANGED records
  BY DEF Followed, TypeInv, TypeOK, Bounded, RecordsOwned, Exists, vars
<1>2. MaxRevision' = MaxRevision
  BY <1>1 DEF MaxRevision
<1>3. CASE Pull
  <2>1. WellKept' /\ page'.rows = Changes /\ UNCHANGED <<cursor, known>>
    BY <1>3, PullKeeps DEF Pull, device
  <2>2. FeedIsWhole(Changes) /\ RowsOwned(Changes)
    BY <1>3, ChangesAreWhole DEF Followed, WellKept, DeviceTypes, Pull
  <2>3. FeedIsWhole(page.rows)' /\ RowsOwned(page.rows)'
    <3> HIDE DEF Changes
    <3> DEFINE rows == Changes
    <3>1. page'.rows = rows
      BY <2>1
    <3> HIDE DEF rows
    <3> QED
      BY <1>1, <1>2, <2>1, <2>2, <3>1 DEF FeedIsWhole, RowsOwned, rows
  <2> QED
    BY <1>1, <1>2, <2>1, <2>3 DEF Followed, FeedInv, BasesAreCurrent
<1>4. CASE Acknowledge
  BY <1>1, <1>4, AcknowledgeKeeps, AcknowledgedBases DEF Followed
<1>5. ASSUME WellKept', UNCHANGED <<cursor, known>>,
             page' = Null \/ (page # Null /\ page'.rows = page.rows)
      PROVE  Followed'
  <2>1. ASSUME page' # Null
        PROVE  FeedIsWhole(page.rows)' /\ RowsOwned(page.rows)'
    <3>1. page'.rows = page.rows /\ FeedIsWhole(page.rows) /\ RowsOwned(page.rows)
      BY <1>5, <2>1 DEF Followed, FeedInv
    <3> QED
      BY <1>1, <1>2, <1>5, <3>1 DEF FeedIsWhole, RowsOwned
  <2> QED
    BY <1>1, <1>2, <1>5, <2>1 DEF Followed, FeedInv, BasesAreCurrent
<1> QED
  BY <1>3, <1>4, <1>5, ActCases, PullReturnsKeeps, ByteKeeps, NoteKeeps, StopKeeps

LEMMA FollowedStep ==
  ASSUME Followed, [ReplicaNext]_<<vars, replicaVars>>
  PROVE  Followed'
<1>1. CASE Next /\ UNCHANGED replicaVars
  BY <1>1, FeedRelay
<1>2. CASE (Sync \/ Unreachable \/ Reload) /\ UNCHANGED vars
  BY <1>2, FollowedAct DEF Act
<1>3. CASE UNCHANGED <<vars, replicaVars>>
  BY <1>3, FeedRelay
<1> QED
  BY <1>1, <1>2, <1>3 DEF ReplicaNext

LEMMA FollowedInit == ReplicaInit => Followed
<1> SUFFICES ASSUME ReplicaInit PROVE Followed
  OBVIOUS
<1>1. TypeInv
  BY TypeInit DEF ReplicaInit
<1>2. /\ \A k \in Ids : records[k].rev = 0
      /\ page = Null /\ fresh = Notes /\ cursor = 0
      /\ known = [k \in Ids |-> 0]
  BY DEF ReplicaInit, Init
<1>3. RecordsOwned
  BY <1>2 DEF RecordsOwned, Exists, Ids
<1>4. WellKept
  BY <1>2 DEF ReplicaInit, WellKept, DeviceTypes, StaleAreDeleted, ListIsFresh,
     GoneAreDead, AppliedAreRows
<1>5. FeedInv
  BY <1>1, <1>2, MaxRevisionFacts DEF FeedInv
<1>6. BasesAreCurrent
  BY <1>2 DEF BasesAreCurrent
<1> QED
  BY <1>1, <1>3, <1>4, <1>5, <1>6 DEF Followed

\* The base of the device's next write is the relay's revision of everything up
\* to the cursor, however pages are cut, repeated and overtaken.
THEOREM BasesStayCurrent == ReplicaSpec => []BasesAreCurrent
<1>1. Followed => BasesAreCurrent
  BY DEF Followed
<1> QED
  BY <1>1, FollowedInit, FollowedStep, PTL DEF ReplicaSpec

LEMMA FollowedAlways == ReplicaSpec => []Followed
BY FollowedInit, FollowedStep, PTL DEF ReplicaSpec

-----------------------------------------------------------------------------
(* The bytes of listed attachments *)

Listing(n, a) == local[n] # Null /\ ~local[n].deleted /\ a \in local[n].images

Stored == arrived \cup arriving

\* What was downloaded was there, or is deleted above the page by now; all that
\* the page's notes list is accounted for, and is stored before a note is saved.
Downloaded ==
  page # Null =>
    /\ \A a \in page.got :
         Live(a) \/ (Dead(a) /\ records[a].rev > PageCursor(page.rows))
    /\ DeletedAttachments(page.rows) \subseteq page.gone
    /\ \A n \in LiveRows(page.rows) :
         Images[page.rows[n].envelope] \subseteq page.todo \cup page.got \cup page.gone
    /\ page.pulled => page.todo = {}
    /\ ~page.pulled => page.purge = {}
    /\ page.drop \subseteq page.gone
    /\ page.put # {} => page.purge \subseteq page.gone
    /\ page.pulled /\ page.put # {} =>
         page.got \ page.gone \subseteq page.save \cup Stored

\* A note lists attachments of its own, and none whose tombstone was applied or
\* whose bytes are to go.
Unlisted ==
  /\ \A n \in Notes : local[n] # Null => \A a \in local[n].images : Owns(n, a)
  /\ page # Null => \A n \in Notes :
       /\ \A a \in page.purge : ~Listing(n, a)
       /\ page.pulled => \A a \in page.gone \ page.drop : ~Listing(n, a)

BytesInv == Downloaded /\ Unlisted /\ ListedBytesAreStored

\* The tab sees every listing, and there is one of an attachment at most.
LEMMA ListingIsSeen ==
  ASSUME Followed, BytesInv, NEW a \in Attachments, Exists(a),
         NEW n \in Notes, Listing(n, a)
  PROVE  n = records[a].note /\ n \in fresh /\ Listed(a)
<1>1. Owns(n, a)
  BY DEF BytesInv, Unlisted, Listing
<1>2. records[a].note \in Notes /\ Owns(records[a].note, a)
  BY DEF Followed, RecordsOwned
<1>3. n = records[a].note
  BY <1>1, <1>2, OneOwner
<1>4. n \in fresh /\ shown[n] = local[n].images /\ local[n] \in NoteRow
  BY DEF Listing, Followed, WellKept, StaleAreDeleted, ListIsFresh, DeviceTypes
<1>5. shown[n] # Null /\ a \in shown[n]
  BY <1>4, AbsenceAssumption DEF Listing, NoteRow
<1> QED
  BY <1>3, <1>4, <1>5 DEF Listed

LEMMA BytesRelay ==
  ASSUME Followed, BytesInv, [Next]_vars, UNCHANGED replicaVars
  PROVE  BytesInv'
<1>1. UNCHANGED <<cursor, known, quarantine, local, arrived, arriving, shown, fresh, page>>
  BY DEF replicaVars, device, memory
<1>2. Unlisted' /\ ListedBytesAreStored'
  BY <1>1 DEF BytesInv, Unlisted, ListedBytesAreStored, Listing
<1>3. ASSUME page # Null, NEW a \in page.got
      PROVE  Live(a)' \/ (Dead(a)' /\ records'[a].rev > PageCursor(page.rows))
  <2> DEFINE top == PageCursor(page.rows)
  <2>1. page \in Page /\ FeedIsWhole(page.rows)
    BY <1>3 DEF Followed, WellKept, DeviceTypes, FeedInv
  <2>2. a \in Attachments /\ a \in Ids /\ top \in Nat /\ top <= MaxRevision
    BY <2>1 DEF Page, FeedIsWhole, Ids
  <2>3. Live(a) \/ (Dead(a) /\ records[a].rev > top)
    BY <1>3 DEF BytesInv, Downloaded
  <2>4. Exists(a)
    BY <2>3 DEF Live, Dead
  <2>5. /\ Exists(a)'
        /\ records'[a] = records[a] \/ records'[a].rev > MaxRevision
        /\ Dead(a) => Dead(a)'
    BY <2>2, <2>4, DeadStayDead DEF Followed
  <2>6. MaxRevision \in Nat /\ records'[a].rev \in Nat
    BY <2>2, MaxRevisionFacts, RevisionsGrow DEF Followed
  <2> HIDE DEF top
  <2>7. CASE records'[a] = records[a]
    BY <2>3, <2>7 DEF Live, Dead, Exists, top
  <2>8. CASE records'[a].rev > MaxRevision
    <3>1. records'[a].rev > top
      BY <2>2, <2>6, <2>8
    <3>2. Live(a)' \/ Dead(a)'
      BY <2>5 DEF Live, Dead
    <3> QED
      BY <3>1, <3>2 DEF top
  <2> QED
    BY <2>5, <2>7, <2>8
<1>4. Downloaded'
  BY <1>1, <1>3 DEF BytesInv, Downloaded, Stored
<1> QED
  BY <1>2, <1>4 DEF BytesInv

\* When a pass ends, what it stored remains.
LEMMA BytesStop ==
  ASSUME BytesInv, page' = Null, UNCHANGED <<local, arrived, arriving>>
  PROVE  BytesInv'
BY DEF BytesInv, Downloaded, Unlisted, ListedBytesAreStored

LEMMA ConflictStops ==
  ASSUME NEW n, Conflict(n)
  PROVE  page' = Null /\ UNCHANGED <<cursor, known, quarantine, local, arrived, arriving>>
BY DEF Conflict, device

LEMMA BytesPull ==
  ASSUME Followed, BytesInv, Pull, UNCHANGED vars
  PROVE  BytesInv'
<1> DEFINE rows == Changes
           todo == (UNION {Images[rows[n].envelope] : n \in LiveRows(rows)})
                     \ DeletedAttachments(rows)
<1>1. page' = [rows |-> rows, todo |-> todo,
               got |-> {}, gone |-> DeletedAttachments(rows), pulled |-> FALSE,
               save |-> {}, drop |-> {}, put |-> {}, confirm |-> {}, remove |-> {},
               purge |-> {}]
  BY DEF Pull
<1>2. UNCHANGED <<local, arrived, arriving>>
  BY DEF Pull, device
<1>3. \A n \in LiveRows(rows) :
        Images[rows[n].envelope] \subseteq todo \cup DeletedAttachments(rows)
  OBVIOUS
<1> HIDE DEF rows, todo
<1>4. /\ page'.rows = rows /\ page'.todo = todo /\ page'.got = {}
      /\ page'.gone = DeletedAttachments(rows) /\ ~page'.pulled
      /\ page'.drop = {} /\ page'.put = {} /\ page'.purge = {}
  BY <1>1
<1>5. Downloaded'
  BY <1>3, <1>4 DEF Downloaded
<1>6. Unlisted' /\ ListedBytesAreStored'
  BY <1>2, <1>4 DEF BytesInv, Unlisted, ListedBytesAreStored
<1> QED
  BY <1>5, <1>6 DEF BytesInv

LEMMA BytesPullReturns ==
  ASSUME Followed, BytesInv, PullReturns, UNCHANGED vars
  PROVE  BytesInv'
<1>1. page # Null /\ page \in Page /\ ~page.pulled /\ page.todo = {}
      /\ UNCHANGED <<local, arrived, arriving>>
  BY DEF PullReturns, Followed, WellKept, DeviceTypes
<1>2. /\ page'.rows = page.rows /\ page'.todo = {} /\ page'.got = page.got
      /\ page'.gone = page.gone /\ page'.pulled /\ page'.save = page.got
      /\ page'.drop = page.gone /\ page'.put = LiveRows(page.rows)
      /\ page'.purge = page.purge
  BY <1>1 DEF PullReturns, Page
<1>3. page.purge = {}
  BY <1>1 DEF BytesInv, Downloaded
<1>4. \A a : (Live(a)' <=> Live(a)) /\ (Dead(a)' <=> Dead(a))
  BY DEF Live, Dead, Exists, vars
<1>5. Downloaded'
  BY <1>1, <1>2, <1>3, <1>4 DEF BytesInv, Downloaded, vars
<1>6. Unlisted' /\ ListedBytesAreStored'
  BY <1>1, <1>2, <1>3 DEF BytesInv, Unlisted, ListedBytesAreStored
<1> QED
  BY <1>5, <1>6 DEF BytesInv

LEMMA BytesDownload ==
  ASSUME Followed, BytesInv, NEW a \in Attachments, Download(a), UNCHANGED vars
  PROVE  BytesInv'
<1>1. /\ page # Null /\ a \in page.todo /\ Exists(a)
      /\ page'.rows = page.rows /\ page'.pulled = page.pulled
      /\ page'.drop = page.drop /\ page'.put = page.put /\ page'.purge = page.purge
      /\ page'.todo = page.todo \ {a}
      /\ UNCHANGED <<local, arrived, arriving>>
  BY DownloadEffect DEF Followed, WellKept
<1>2. /\ Live(a) => page'.got = page.got \cup {a} /\ page'.gone = page.gone
      /\ ~Live(a) => page'.got = page.got /\ page'.gone = page.gone \cup {a}
  BY DownloadEffect DEF Followed, WellKept
<1>3. ~page.pulled
  BY <1>1 DEF BytesInv, Downloaded
<1>4. \A x : (Live(x)' <=> Live(x)) /\ (Dead(x)' <=> Dead(x))
  BY DEF Live, Dead, Exists, vars
<1>5. Downloaded'
  BY <1>1, <1>2, <1>3, <1>4 DEF BytesInv, Downloaded, vars
<1>6. Unlisted' /\ ListedBytesAreStored'
  BY <1>1, <1>3 DEF BytesInv, Unlisted, ListedBytesAreStored, Listing
<1> QED
  BY <1>5, <1>6 DEF BytesInv

\* Bytes come, are confirmed, and go when no note lists them.
LEMMA BytesOfOne ==
  ASSUME Followed, BytesInv, NEW a \in Attachments,
         SaveBytes(a) \/ Purge(a) \/ ConfirmBytes(a), UNCHANGED vars
  PROVE  BytesInv'
<1>1. \A x : (Live(x)' <=> Live(x)) /\ (Dead(x)' <=> Dead(x))
  BY DEF Live, Dead, Exists, vars
<1>2. DeviceTypes /\ UNCHANGED records
  BY DEF Followed, WellKept, vars
<1>3. CASE SaveBytes(a) \/ ConfirmBytes(a)
  <2>1. /\ SamePage /\ page.pulled
        /\ page'.put = page.put /\ page'.drop = page.drop /\ page'.purge = page.purge
        /\ UNCHANGED local
        /\ page.save \subseteq page'.save \cup {a} /\ Stored' = Stored \cup {a}
    BY <1>2, <1>3, SaveBytesEffect, ConfirmBytesEffect DEF Stored
  <2>2. Stored \subseteq Stored' /\ page.save \cup Stored \subseteq page'.save \cup Stored'
    BY <1>2, <1>3, <2>1, SaveBytesEffect, ConfirmBytesEffect
  <2>3. Downloaded'
    BY <1>1, <1>2, <2>1, <2>2 DEF BytesInv, Downloaded, SamePage
  <2>4. Unlisted'
    BY <2>1 DEF BytesInv, Unlisted, SamePage, Listing
  <2>5. ListedBytesAreStored'
    BY <2>1, <2>2 DEF BytesInv, ListedBytesAreStored, Stored
  <2> QED
    BY <2>3, <2>4, <2>5 DEF BytesInv
<1>4. CASE Purge(a)
  <2>1. /\ SamePage /\ page.pulled /\ a \in page.purge
        /\ page'.put = page.put /\ page'.drop = page.drop /\ page'.save = page.save
        /\ page'.purge = page.purge \ {a}
        /\ UNCHANGED local
        /\ Stored' = Stored \ {a}
    BY <1>2, <1>4, PurgeEffect DEF Stored
  <2>2. \A n \in Notes : ~Listing(n, a)
    BY <2>1 DEF BytesInv, Unlisted, SamePage
  <2>3. page.put # {} => a \in page.gone
    BY <2>1 DEF BytesInv, Downloaded, SamePage
  <2>4. Downloaded'
    BY <1>1, <1>2, <2>1, <2>3 DEF BytesInv, Downloaded, SamePage
  <2>5. Unlisted'
    BY <2>1 DEF BytesInv, Unlisted, SamePage, Listing
  <2>6. ListedBytesAreStored'
    BY <2>1, <2>2 DEF BytesInv, ListedBytesAreStored, Stored, Listing
  <2> QED
    BY <2>4, <2>5, <2>6 DEF BytesInv
<1> QED
  BY <1>3, <1>4

\* A tombstone that is skipped is of an attachment no note lists.
LEMMA BytesSkip ==
  ASSUME Followed, BytesInv, NEW a \in Attachments, SkipTombstone(a), UNCHANGED vars
  PROVE  BytesInv'
<1>1. \A x : (Live(x)' <=> Live(x)) /\ (Dead(x)' <=> Dead(x))
  BY DEF Live, Dead, Exists, vars
<1>2. /\ SamePage /\ page.pulled /\ CanDrop(a) /\ ~Listed(a)
      /\ page'.drop = page.drop \ {a}
      /\ page'.save = page.save /\ page'.put = page.put /\ page'.purge = page.purge
      /\ UNCHANGED <<local, arrived, arriving, records>>
  BY SkipTombstoneEffect DEF Followed, WellKept, vars
<1>3. Exists(a)
  BY <1>2 DEF Followed, WellKept, GoneAreDead, Dead, CanDrop, SamePage
<1>4. \A n \in Notes : ~Listing(n, a)
  BY <1>2, <1>3, ListingIsSeen
<1>5. Downloaded'
  BY <1>1, <1>2 DEF BytesInv, Downloaded, SamePage, Stored
<1>6. Unlisted'
  BY <1>2, <1>4 DEF BytesInv, Unlisted, SamePage, Listing
<1>7. ListedBytesAreStored'
  BY <1>2 DEF BytesInv, ListedBytesAreStored
<1> QED
  BY <1>5, <1>6, <1>7 DEF BytesInv

LEMMA BytesDrop ==
  ASSUME Followed, BytesInv, NEW a \in Attachments, DropAttachment(a), UNCHANGED vars
  PROVE  BytesInv'
<1> DEFINE n == records[a].note
<1>1. /\ n \in Notes /\ Owns(n, a) /\ CanDrop(a) /\ a \in shown[n]
      /\ shown[n] \in SUBSET Attachments
      /\ \/ Conflict(n)
         \/ /\ n \in fresh
            /\ SamePage
            /\ page.pulled /\ page'.drop = page.drop \ {a} /\ page'.purge = {a}
            /\ page'.save = page.save /\ page'.put = page.put
            /\ local' = [local EXCEPT ![n].images = shown[n] \ {a}]
            /\ UNCHANGED <<arrived, arriving>>
  BY DropAttachmentEffect
<1> HIDE DEF n
<1>2. CASE Conflict(n)
  BY <1>2, ConflictStops, BytesStop
<1>3. CASE ~Conflict(n)
  <2>1. \A x : (Live(x)' <=> Live(x)) /\ (Dead(x)' <=> Dead(x))
    BY DEF Live, Dead, Exists, vars
  <2>2. local[n] # Null /\ shown[n] = local[n].images /\ local[n] \in NoteRow
        /\ local \in [Notes -> NoteRow \cup {Null}]
    BY <1>1, <1>3, AbsenceAssumption DEF Followed, WellKept, ListIsFresh, DeviceTypes
  <2>3. /\ local'[n] # Null /\ local'[n].deleted = local[n].deleted
        /\ local'[n].images = local[n].images \ {a}
        /\ \A m \in Notes : m # n => local'[m] = local[m]
    BY <1>1, <1>3, <2>2, AbsenceAssumption DEF NoteRow
  <2>4. ASSUME NEW m \in Notes, NEW x, Listing(m, x)'
        PROVE  Listing(m, x) /\ x # a
    <3>1. Listing(m, x)
      BY <2>2, <2>3, <2>4 DEF Listing
    <3>2. CASE m = n
      BY <2>3, <2>4, <3>1, <3>2 DEF Listing
    <3>3. CASE m # n
      <4>1. Owns(m, x)
        BY <3>1 DEF BytesInv, Unlisted, Listing
      <4> QED
        BY <1>1, <3>1, <3>3, <4>1, OneOwner
    <3> QED
      BY <3>2, <3>3
  <2>5. a \in page.gone
    BY <1>1, <1>3 DEF CanDrop, BytesInv, Downloaded, SamePage
  <2>6. Downloaded'
    BY <1>1, <1>3, <2>1, <2>5 DEF BytesInv, Downloaded, SamePage, Stored, vars
  <2>7. \A m \in Notes : local'[m] # Null => \A x \in local'[m].images : Owns(m, x)
    BY <2>2, <2>3 DEF BytesInv, Unlisted
  <2>8. Unlisted'
    BY <1>1, <1>3, <2>4, <2>7 DEF BytesInv, Unlisted, SamePage
  <2>9. ListedBytesAreStored'
    BY <1>1, <1>3, <2>2, <2>3 DEF BytesInv, ListedBytesAreStored
  <2> QED
    BY <2>6, <2>8, <2>9 DEF BytesInv
<1> QED
  BY <1>2, <1>3

\* What a note lists when it is saved was downloaded and is stored.
LEMMA BytesSaveNote ==
  ASSUME Followed, BytesInv, NEW n \in Notes, SaveNote(n), UNCHANGED vars
  PROVE  BytesInv'
<1> DEFINE images == Images[page.rows[n].envelope] \ page.gone
           row == [deleted |-> FALSE, envelope |-> page.rows[n].envelope,
                   images |-> images]
<1>1. /\ page # Null /\ page.pulled /\ NotesMayBeSaved /\ n \in page.put
      /\ n \in LiveRows(page.rows) /\ n \in DOMAIN page.rows
      /\ row \in NoteRow
      /\ \/ Conflict(n)
         \/ /\ SamePage
            /\ page'.put = page.put \ {n}
            /\ page'.save = page.save /\ page'.drop = page.drop
            /\ page'.purge = page.purge
            /\ local' = [local EXCEPT ![n] = row]
            /\ UNCHANGED <<arrived, arriving>>
  BY SaveNoteEffect
<1>2. CASE Conflict(n)
  BY <1>2, ConflictStops, BytesStop
<1>3. CASE ~Conflict(n)
  <2>1. \A x : (Live(x)' <=> Live(x)) /\ (Dead(x)' <=> Dead(x))
    BY DEF Live, Dead, Exists, vars
  <2>2. page.save = {} /\ page.drop = {} /\ page.purge = {} /\ page.todo = {}
    BY <1>1 DEF NotesMayBeSaved, BytesInv, Downloaded
  <2>3. page.got \ page.gone \subseteq Stored
    BY <1>1, <2>2 DEF BytesInv, Downloaded
  <2>4. Images[page.rows[n].envelope] \subseteq page.got \cup page.gone
    BY <1>1, <2>2 DEF BytesInv, Downloaded
  <2>5. images \subseteq Stored /\ \A x \in images : Owns(n, x) /\ x \notin page.gone
    BY <1>1, <2>3, <2>4 DEF Followed, FeedInv, RowsOwned
  <2>6. row.images = images /\ row # Null
    BY <1>1, AbsenceAssumption
  <2> HIDE DEF images, row
  <2>7. local'[n] = row /\ \A m \in Notes : m # n => local'[m] = local[m]
    BY <1>1, <1>3 DEF Followed, WellKept, DeviceTypes
  <2>8. Downloaded'
    BY <1>1, <1>3, <2>1, <2>2, <2>3 DEF BytesInv, Downloaded, SamePage, Stored, vars
  <2>9. ASSUME NEW m \in Notes, NEW x, Listing(m, x)'
        PROVE  Listing(m, x) \/ x \in images
    BY <2>6, <2>7, <2>9 DEF Listing
  <2>10. \A m \in Notes : local'[m] # Null => \A x \in local'[m].images : Owns(m, x)
    BY <2>5, <2>6, <2>7 DEF BytesInv, Unlisted
  <2>11. Unlisted'
    BY <1>1, <1>3, <2>2, <2>5, <2>9, <2>10 DEF BytesInv, Unlisted, SamePage
  <2>12. ListedBytesAreStored'
    BY <1>1, <1>3, <2>5, <2>6, <2>7 DEF BytesInv, ListedBytesAreStored, Stored
  <2> QED
    BY <2>8, <2>11, <2>12 DEF BytesInv
<1> QED
  BY <1>2, <1>3

\* The bytes that go with a note are listed by no other note.
LEMMA BytesRemoveNote ==
  ASSUME Followed, BytesInv, NEW n \in Notes, RemoveNote(n), UNCHANGED vars
  PROVE  BytesInv'
<1>1. /\ page # Null /\ page.pulled /\ NotesMayBeSaved /\ page.put = {}
      /\ \/ Conflict(n)
         \/ /\ n \in fresh
            /\ SamePage
            /\ page'.put = {} /\ page'.save = page.save /\ page'.drop = page.drop
            /\ page'.purge = IF shown[n] = Null THEN {} ELSE shown[n]
            /\ \/ /\ local[n] = Null /\ UNCHANGED <<local, fresh>>
               \/ /\ local[n] \in NoteRow
                  /\ local' = [local EXCEPT ![n].deleted = TRUE]
                  /\ fresh' = fresh \ {n}
            /\ UNCHANGED <<arrived, arriving>>
  BY RemoveNoteEffect
<1>2. CASE Conflict(n)
  BY <1>2, ConflictStops, BytesStop
<1>3. CASE ~Conflict(n)
  <2>1. \A x : (Live(x)' <=> Live(x)) /\ (Dead(x)' <=> Dead(x))
    BY DEF Live, Dead, Exists, vars
  <2>2. DeviceTypes
    BY DEF Followed, WellKept
  <2>3. /\ \/ local[n] = Null /\ local'[n] = Null
           \/ /\ local[n] # Null /\ local'[n].deleted
              /\ local'[n].images = local[n].images
        /\ \A m \in Notes : m # n => local'[m] = local[m]
    BY <1>1, <1>3, <2>2, AbsenceAssumption DEF DeviceTypes, NoteRow
  <2>4. page'.purge = IF local[n] = Null THEN {} ELSE local[n].images
    BY <1>1, <1>3, <2>2, AbsenceAssumption
       DEF Followed, WellKept, ListIsFresh, DeviceTypes, NoteRow
  <2>5. page'.purge \subseteq Attachments
    BY <1>1, <1>3 DEF SamePage, Page
  <2>6. ASSUME NEW m \in Notes, NEW x, Listing(m, x)'
        PROVE  Listing(m, x) /\ m # n
    BY <2>3, <2>6 DEF Listing
  <2>7. ASSUME NEW m \in Notes, NEW x \in page'.purge, Listing(m, x)
        PROVE  m = n
    <3>1. Owns(n, x) /\ Owns(m, x)
      BY <2>4, <2>7 DEF BytesInv, Unlisted, Listing
    <3> QED
      BY <2>5, <3>1, OneOwner
  <2>8. Downloaded'
    BY <1>1, <1>3, <2>1 DEF BytesInv, Downloaded, SamePage, vars
  <2>9. \A m \in Notes : local'[m] # Null => \A x \in local'[m].images : Owns(m, x)
    BY <2>3 DEF BytesInv, Unlisted
  <2>10. Unlisted'
    BY <1>1, <1>3, <2>6, <2>7, <2>9 DEF BytesInv, Unlisted, SamePage
  <2>11. ListedBytesAreStored'
    BY <1>1, <1>3, <2>3 DEF BytesInv, ListedBytesAreStored
  <2> QED
    BY <2>8, <2>10, <2>11 DEF BytesInv
<1> QED
  BY <1>2, <1>3

LEMMA BytesStep ==
  ASSUME Followed, BytesInv, [ReplicaNext]_<<vars, replicaVars>>
  PROVE  BytesInv'
<1>1. CASE Next /\ UNCHANGED replicaVars
  BY <1>1, BytesRelay
<1>2. CASE UNCHANGED <<vars, replicaVars>>
  BY <1>2, BytesRelay
<1>3. CASE Act /\ UNCHANGED vars
  <2>1. CASE Unreachable \/ Reload \/ Acknowledge
    <3>1. page' = Null /\ UNCHANGED <<local, arrived, arriving>>
      BY <2>1 DEF Unreachable, Reload, Acknowledge, device
    <3> QED
      BY <3>1, BytesStop
  <2>2. ASSUME NEW a \in Attachments, ByteStep(a) PROVE BytesInv'
    BY <1>3, <2>2, BytesDownload, BytesOfOne, BytesSkip, BytesDrop DEF ByteStep
  <2> QED
    BY <1>3, <2>1, <2>2, BytesPull, BytesPullReturns, BytesSaveNote, BytesRemoveNote,
       ActCases
<1> QED
  BY <1>1, <1>2, <1>3 DEF ReplicaNext, Act

LEMMA BytesInit == ReplicaInit => BytesInv
BY DEF ReplicaInit, BytesInv, Downloaded, Unlisted, ListedBytesAreStored

\* A note that lists an attachment has its bytes, wherever in a page the tab is
\* closed and whatever the relay deletes meanwhile.
THEOREM ListedBytesStayStored == ReplicaSpec => []ListedBytesAreStored
<1>1. BytesInv => ListedBytesAreStored
  BY DEF BytesInv
<1> QED
  BY <1>1, BytesInit, BytesStep, FollowedAlways, PTL DEF ReplicaSpec

LEMMA BytesAlways == ReplicaSpec => []BytesInv
BY BytesInit, BytesStep, FollowedAlways, PTL DEF ReplicaSpec

-----------------------------------------------------------------------------
(* What is acknowledged is applied *)

\* A live row of the page that was saved: the note lists what was downloaded for
\* it, and all that is still live unless the note went on.
IsSaved(n) ==
  LET row == page.rows[n]
  IN  /\ local[n] # Null /\ ~local[n].deleted /\ local[n].envelope = row.envelope
      /\ local[n].images \subseteq Images[row.envelope]
      /\ local[n].images \subseteq page.got
      /\ records[n] = row =>
           \A a \in Images[row.envelope] : Live(a) => a \in local[n].images

\* Of a page that is being applied, each note is quarantined or released, and
\* saved or removed or still to be.
PageApplied ==
  page # Null /\ page.pulled =>
    /\ \A n \in DOMAIN page.rows \cap Notes :
         quarantine[n] = IF n \in ReadableNotes(page.rows) THEN 0 ELSE page.rows[n].rev
    /\ \A n \in LiveRows(page.rows) \ page.put : IsSaved(n)
    /\ \A n \in ReadableNotes(page.rows) \ page.remove :
         page.rows[n].deleted => local[n] = Null \/ local[n].deleted

\* What AcknowledgedIsApplied says of one note, and of one attachment it lists.
ImageApplied(n, a) ==
  /\ Live(a) => a \in local[n].images
  /\ Exists(a) /\ ~Live(a) /\ records[a].rev <= cursor => a \notin local[n].images

RowApplied(n) ==
  LET row == records[n]
  IN  IF row.envelope \in Unreadable
      THEN quarantine[n] = row.rev
      ELSE /\ quarantine[n] = 0
           /\ row.deleted => local[n] = Null \/ local[n].deleted
           /\ ~row.deleted =>
                /\ local[n] # Null
                /\ ~local[n].deleted /\ local[n].envelope = row.envelope
                /\ local[n].images \subseteq Images[row.envelope]
                /\ \A a \in Images[row.envelope] : ImageApplied(n, a)

\* No quarantine is ahead of the relay, nor of the page before it is looked at.
HeldBelow ==
  /\ \A n \in Notes : quarantine[n] <= records[n].rev
  /\ page # Null /\ ~page.pulled =>
       \A n \in DOMAIN page.rows \cap Notes : quarantine[n] <= page.rows[n].rev

AppliedInv == HeldBelow /\ PageApplied /\ AcknowledgedIsApplied

\* An attachment of a note comes to life only with a new row of the note.
LEMMA LiveWithItsNote ==
  ASSUME Followed, [Next]_vars, NEW n \in Notes, NEW a \in Attachments, Owns(n, a),
         records'[n] = records[n], Live(a)'
  PROVE  Live(a)
<1>1. SUFFICES ASSUME ~Live(a) PROVE FALSE
  OBVIOUS
<1>2. PICK m \in Notes : Owns(m, a) /\ records'[m].rev > MaxRevision
  BY <1>1, OwnershipStep DEF Followed
<1>3. m = n
  BY <1>2, OneOwner
<1>4. MaxRevision \in Nat /\ records[n].rev \in Nat /\ records[n].rev <= MaxRevision
  BY MaxRevisionFacts DEF Followed, Ids
<1> QED
  BY <1>2, <1>3, <1>4

LEMMA HeldRelay ==
  ASSUME Followed, HeldBelow, [Next]_vars, UNCHANGED replicaVars
  PROVE  HeldBelow'
<1>1. UNCHANGED <<quarantine, page>>
  BY DEF replicaVars, device, memory
<1>2. \A n \in Notes : /\ records'[n].rev \in Nat /\ records'[n].rev >= records[n].rev
                       /\ records[n].rev \in Nat /\ quarantine[n] \in Nat
  BY MaxRevisionFacts, RevisionsGrow DEF Followed, WellKept, DeviceTypes, Ids
<1> QED
  BY <1>1, <1>2 DEF HeldBelow

LEMMA PageAppliedRelay ==
  ASSUME Followed, PageApplied, [Next]_vars, UNCHANGED replicaVars
  PROVE  PageApplied'
<1>1. UNCHANGED <<quarantine, local, page>>
  BY DEF replicaVars, device, memory
<1>2. SUFFICES ASSUME page # Null, page.pulled,
                      NEW n \in LiveRows(page.rows) \ page.put, IsSaved(n)
               PROVE  IsSaved(n)'
  BY <1>1 DEF PageApplied
<1> DEFINE row == page.rows[n]
           top == PageCursor(page.rows)
<1>3. n \in Notes /\ n \in DOMAIN page.rows /\ n \in Ids
  BY DEF LiveRows, ReadableNotes, Ids
<1>4. FeedIsWhole(page.rows) /\ RowsOwned(page.rows)
  BY <1>2 DEF Followed, FeedInv
<1>5. row.rev <= top /\ top <= MaxRevision /\ top \in Nat /\ row.rev \in Nat
  BY <1>2, <1>3, <1>4, RowTypes DEF FeedIsWhole, Followed, WellKept
<1>6. \A a \in Images[row.envelope] : a \in Attachments /\ Owns(n, a)
  BY <1>2, <1>3, <1>4, RowTypes DEF RowsOwned, Followed, WellKept
<1>7. MaxRevision \in Nat /\ (records'[n] = records[n] \/ records'[n].rev > MaxRevision)
  BY <1>3, RowsMoveOn, MaxRevisionFacts DEF Followed
<1>8. page'.rows[n] = row /\ page'.got = page.got /\ local'[n] = local[n]
  BY <1>1
<1> HIDE DEF row, top
<1>9. ASSUME records'[n] = row, NEW a \in Images[row.envelope], Live(a)'
      PROVE  a \in local[n].images
  <2>1. records'[n] = records[n]
    BY <1>5, <1>7, <1>9
  <2>2. Live(a)
    BY <1>3, <1>6, <1>9, <2>1, LiveWithItsNote
  <2> QED
    BY <1>2, <1>9, <2>1, <2>2 DEF IsSaved, row
<1> QED
  BY <1>2, <1>8, <1>9 DEF IsSaved, row

LEMMA AcknowledgedRelay ==
  ASSUME Followed, AcknowledgedIsApplied, [Next]_vars, UNCHANGED replicaVars
  PROVE  AcknowledgedIsApplied'
<1>1. UNCHANGED <<cursor, quarantine, local>>
  BY DEF replicaVars, device, memory
<1> SUFFICES ASSUME NEW n \in Notes, Exists(n)', records'[n].rev <= cursor
             PROVE  RowApplied(n)'
  BY <1>1 DEF AcknowledgedIsApplied, RowApplied, ImageApplied
<1>2. /\ MaxRevision \in Nat /\ cursor \in Nat /\ cursor <= MaxRevision
      /\ \A k \in Ids : /\ records'[k] = records[k] \/ records'[k].rev > MaxRevision
                        /\ records'[k].rev \in Nat
  BY RowsMoveOn, RevisionsGrow, MaxRevisionFacts DEF Followed, FeedInv, WellKept, DeviceTypes
<1>3. \A k \in Ids : records'[k].rev <= cursor => records'[k] = records[k]
  BY <1>2
<1>4. records'[n] = records[n] /\ Exists(n) /\ records[n].rev <= cursor
  BY <1>3 DEF Ids, Exists
<1>5. \A a \in Images[records[n].envelope] : a \in Attachments /\ Owns(n, a)
  BY <1>4, ReplicaAssumption DEF Followed, RecordsOwned
<1>6. ASSUME NEW a \in Images[records[n].envelope], ImageApplied(n, a)
      PROVE  ImageApplied(n, a)'
  <2>1. Live(a)' => Live(a)
    BY <1>4, <1>5, LiveWithItsNote
  <2>2. records'[a].rev <= cursor => records'[a] = records[a]
    BY <1>3, <1>5 DEF Ids
  <2> QED
    BY <1>1, <1>6, <2>1, <2>2 DEF ImageApplied, Exists, Live
<1>7. RowApplied(n)
  BY <1>4 DEF AcknowledgedIsApplied, RowApplied, ImageApplied
<1> QED
  BY <1>1, <1>4, <1>6, <1>7 DEF RowApplied

\* A page's rows are above what was acknowledged.
LEMMA AboveCursor ==
  ASSUME Followed, page # Null, NEW n \in DOMAIN page.rows \cap Notes
  PROVE  /\ records[n].rev > cursor /\ page.rows[n].rev <= records[n].rev
         /\ records[n].rev \in Nat /\ page.rows[n].rev \in Nat /\ cursor \in Nat
<1>1. FeedIsWhole(page.rows)
  BY DEF Followed, FeedInv
<1>2. /\ cursor < page.rows[n].rev /\ page.rows[n].rev <= records[n].rev
  BY <1>1 DEF FeedIsWhole
<1>3. records[n].rev \in Nat /\ page.rows[n].rev \in Nat /\ cursor \in Nat
  BY RowTypes, MaxRevisionFacts DEF Followed, WellKept, DeviceTypes, Ids
<1> QED
  BY <1>2, <1>3

\* What was acknowledged stays applied while only notes above the cursor change.
LEMMA AcknowledgedKept ==
  ASSUME Followed, AcknowledgedIsApplied, UNCHANGED <<records, cursor>>,
         \A n \in Notes : records[n].rev <= cursor =>
           quarantine'[n] = quarantine[n] /\ local'[n] = local[n]
  PROVE  AcknowledgedIsApplied'
BY DEF AcknowledgedIsApplied, Live, Exists

\* A step of a pass that neither writes a note nor ends the pass.
LEMMA AppliedSame ==
  ASSUME Followed, AppliedInv, SamePage, UNCHANGED <<records, cursor, quarantine, local>>,
         page'.put = page.put, page'.remove = page.remove
  PROVE  AppliedInv'
<1>1. AcknowledgedIsApplied'
  BY AcknowledgedKept DEF AppliedInv
<1>2. HeldBelow'
  BY DEF AppliedInv, HeldBelow, SamePage
<1>3. ASSUME NEW n PROVE IsSaved(n)' <=> IsSaved(n)
  BY DEF IsSaved, SamePage, Live, Exists
<1>4. PageApplied'
  BY <1>3 DEF AppliedInv, PageApplied, SamePage
<1> QED
  BY <1>1, <1>2, <1>4 DEF AppliedInv

LEMMA AppliedStop ==
  ASSUME Followed, AppliedInv, page' = Null,
         UNCHANGED <<records, cursor, quarantine, local>>
  PROVE  AppliedInv'
<1>1. AcknowledgedIsApplied'
  BY AcknowledgedKept DEF AppliedInv
<1> QED
  BY <1>1 DEF AppliedInv, HeldBelow, PageApplied

LEMMA AppliedPull ==
  ASSUME Followed, AppliedInv, Pull, UNCHANGED vars
  PROVE  AppliedInv'
<1> DEFINE rows == Changes
<1>1. UNCHANGED <<records, cursor, quarantine, local>>
  BY DEF Pull, device, vars
<1>2. page'.rows = rows /\ ~page'.pulled
  BY DEF Pull
<1>3. \A n \in DOMAIN rows \cap Notes : rows[n].rev = records[n].rev
  BY DEF Changes
<1>4. AcknowledgedIsApplied'
  BY <1>1, AcknowledgedKept DEF AppliedInv
<1> HIDE DEF rows
<1>5. HeldBelow'
  BY <1>1, <1>2, <1>3 DEF AppliedInv, HeldBelow
<1> QED
  BY <1>2, <1>4, <1>5 DEF AppliedInv, PageApplied

LEMMA AppliedPullReturns ==
  ASSUME Followed, AppliedInv, PullReturns, UNCHANGED vars
  PROVE  AppliedInv'
<1> DEFINE rows == page.rows
<1>1. /\ page # Null /\ page \in Page /\ ~page.pulled
      /\ UNCHANGED <<records, cursor, local>>
      /\ quarantine' = Quarantined(rows)
  BY DEF PullReturns, Followed, WellKept, DeviceTypes, vars
<1>2. /\ page'.rows = rows /\ page'.pulled
      /\ page'.put = LiveRows(rows)
      /\ page'.remove = {n \in ReadableNotes(rows) : rows[n].deleted}
  BY <1>1 DEF PullReturns, Page
<1>3. ASSUME NEW n \in Notes
      PROVE  quarantine'[n] =
               IF n \notin DOMAIN rows \/ quarantine[n] > rows[n].rev THEN quarantine[n]
               ELSE IF n \in ReadableNotes(rows) THEN 0 ELSE rows[n].rev
  BY <1>1 DEF Quarantined
<1>4. ASSUME NEW n \in DOMAIN rows \cap Notes
      PROVE  /\ quarantine[n] <= rows[n].rev /\ quarantine[n] \in Nat
             /\ rows[n].rev \in Nat /\ records[n].rev \in Nat
             /\ records[n].rev > cursor /\ rows[n].rev <= records[n].rev
             /\ cursor \in Nat
  BY <1>1, AboveCursor DEF AppliedInv, HeldBelow, Followed, WellKept, DeviceTypes
<1> HIDE DEF rows
<1>5. ASSUME NEW n \in DOMAIN rows \cap Notes
      PROVE  quarantine'[n] = IF n \in ReadableNotes(rows) THEN 0 ELSE rows[n].rev
  BY <1>3, <1>4
<1>6. \A n \in Notes : records[n].rev <= cursor => quarantine'[n] = quarantine[n]
  BY <1>3, <1>4
<1>7. AcknowledgedIsApplied'
  BY <1>1, <1>6, AcknowledgedKept DEF AppliedInv
<1>8. HeldBelow'
  BY <1>1, <1>2, <1>3, <1>4, <1>5 DEF AppliedInv, HeldBelow
<1>9. PageApplied'
  BY <1>2, <1>5 DEF PageApplied, LiveRows
<1> QED
  BY <1>7, <1>8, <1>9 DEF AppliedInv

LEMMA AppliedDownload ==
  ASSUME Followed, BytesInv, AppliedInv, NEW a \in Attachments, Download(a),
         UNCHANGED vars
  PROVE  AppliedInv'
<1>1. /\ page # Null /\ a \in page.todo
      /\ page'.rows = page.rows /\ page'.pulled = page.pulled
      /\ UNCHANGED <<records, cursor, quarantine, local>>
  BY DownloadEffect DEF Followed, WellKept, vars
<1>2. ~page.pulled
  BY <1>1 DEF BytesInv, Downloaded
<1>3. AcknowledgedIsApplied'
  BY <1>1, AcknowledgedKept DEF AppliedInv
<1>4. HeldBelow'
  BY <1>1 DEF AppliedInv, HeldBelow
<1> QED
  BY <1>1, <1>2, <1>3, <1>4 DEF AppliedInv, PageApplied

\* An attachment that is taken from a note is dead, so the note still lists all
\* that is live.
LEMMA AppliedDrop ==
  ASSUME Followed, AppliedInv, NEW a \in Attachments, DropAttachment(a), UNCHANGED vars
  PROVE  AppliedInv'
<1> DEFINE n == records[a].note
<1>1. /\ n \in Notes /\ CanDrop(a) /\ a \in shown[n]
      /\ shown[n] \in SUBSET Attachments
      /\ \/ Conflict(n)
         \/ /\ n \in fresh
            /\ SamePage
            /\ page.pulled /\ page'.put = page.put /\ page'.remove = page.remove
            /\ local' = [local EXCEPT ![n].images = shown[n] \ {a}]
            /\ UNCHANGED <<cursor, quarantine>>
  BY DropAttachmentEffect
<1>2. UNCHANGED records /\ \A x : (Live(x)' <=> Live(x)) /\ (Exists(x)' <=> Exists(x))
  BY DEF Live, Exists, vars
<1> HIDE DEF n
<1>3. CASE Conflict(n)
  BY <1>2, <1>3, ConflictStops, AppliedStop
<1>4. CASE ~Conflict(n)
  <2>1. Dead(a)
    BY <1>1, <1>4 DEF CanDrop, SamePage, Followed, WellKept, GoneAreDead
  <2>2. local[n] # Null /\ shown[n] = local[n].images /\ local[n] \in NoteRow
        /\ local \in [Notes -> NoteRow \cup {Null}]
    BY <1>1, <1>4, AbsenceAssumption DEF Followed, WellKept, ListIsFresh, DeviceTypes
  <2>3. /\ local'[n] # Null /\ local'[n].deleted = local[n].deleted
        /\ local'[n].envelope = local[n].envelope
        /\ local'[n].images = local[n].images \ {a}
        /\ \A m \in Notes : m # n => local'[m] = local[m]
    BY <1>1, <1>4, <2>2, AbsenceAssumption DEF NoteRow
  <2>4. HeldBelow'
    BY <1>1, <1>2, <1>4 DEF AppliedInv, HeldBelow, SamePage
  <2>5. ASSUME NEW m \in Notes, IsSaved(m) PROVE IsSaved(m)'
    <3>1. CASE m = n
      BY <1>1, <1>2, <1>4, <2>1, <2>2, <2>3, <2>5, <3>1 DEF IsSaved, SamePage, Dead
    <3>2. CASE m # n
      BY <1>1, <1>2, <1>4, <2>3, <2>5, <3>2 DEF IsSaved, SamePage
    <3> QED
      BY <3>1, <3>2
  <2>6. \A m \in Notes : local[m] = Null \/ local[m].deleted =>
          local'[m] = Null \/ local'[m].deleted
    BY <2>2, <2>3
  <2>7. \A m : m \in LiveRows(page.rows) \/ m \in ReadableNotes(page.rows) => m \in Notes
    BY DEF LiveRows, ReadableNotes
  <2>8. PageApplied'
    BY <1>1, <1>4, <2>5, <2>6, <2>7 DEF AppliedInv, PageApplied, SamePage
  <2>9. ASSUME NEW m \in Notes, Exists(m), records[m].rev <= cursor
        PROVE  RowApplied(m)'
    <3>1. RowApplied(m)
      BY <2>9 DEF AppliedInv, AcknowledgedIsApplied, RowApplied, ImageApplied
    <3>2. CASE m = n
      <4>1. ASSUME NEW x, ImageApplied(m, x) PROVE ImageApplied(m, x)'
        BY <1>1, <1>2, <1>4, <2>1, <2>3, <3>2, <4>1 DEF ImageApplied, Dead
      <4> QED
        BY <1>1, <1>2, <1>4, <2>2, <2>3, <3>1, <3>2, <4>1 DEF RowApplied
    <3>3. CASE m # n
      BY <1>1, <1>2, <1>4, <2>3, <3>1, <3>3 DEF RowApplied, ImageApplied
    <3> QED
      BY <3>2, <3>3
  <2>10. AcknowledgedIsApplied'
    BY <1>1, <1>2, <1>4, <2>9 DEF AcknowledgedIsApplied, RowApplied, ImageApplied
  <2> QED
    BY <2>4, <2>8, <2>10 DEF AppliedInv
<1> QED
  BY <1>3, <1>4

LEMMA AppliedSaveNote ==
  ASSUME Followed, BytesInv, AppliedInv, NEW n \in Notes, SaveNote(n), UNCHANGED vars
  PROVE  AppliedInv'
<1> DEFINE images == Images[page.rows[n].envelope] \ page.gone
           row == [deleted |-> FALSE, envelope |-> page.rows[n].envelope,
                   images |-> images]
<1>1. /\ page # Null /\ page.pulled /\ n \in page.put
      /\ n \in LiveRows(page.rows) /\ n \in DOMAIN page.rows
      /\ row \in NoteRow
      /\ \/ Conflict(n)
         \/ /\ SamePage
            /\ page'.put = page.put \ {n} /\ page'.remove = page.remove
            /\ local' = [local EXCEPT ![n] = row]
            /\ UNCHANGED <<cursor, quarantine>>
  BY SaveNoteEffect
<1>2. UNCHANGED records /\ \A x : (Live(x)' <=> Live(x)) /\ (Exists(x)' <=> Exists(x))
  BY DEF Live, Exists, vars
<1>3. CASE Conflict(n)
  BY <1>2, <1>3, ConflictStops, AppliedStop
<1>4. CASE ~Conflict(n)
  <2>1. images \subseteq page.got
    BY <1>1 DEF BytesInv, Downloaded
  <2>2. \A x \in page.gone : ~Live(x)
    BY <1>1 DEF Followed, WellKept, GoneAreDead, Dead
  <2>3. /\ row # Null /\ ~row.deleted /\ row.envelope = page.rows[n].envelope
        /\ row.images = images /\ images \subseteq Images[page.rows[n].envelope]
        /\ \A x \in Images[page.rows[n].envelope] : Live(x) => x \in images
    BY <1>1, <2>2, AbsenceAssumption
  <2> HIDE DEF images, row
  <2>4. local'[n] = row /\ \A m \in Notes : m # n => local'[m] = local[m]
    BY <1>1, <1>4 DEF Followed, WellKept, DeviceTypes
  <2>5. \A m \in Notes : records[m].rev <= cursor =>
          quarantine'[m] = quarantine[m] /\ local'[m] = local[m]
    BY <1>1, <1>4, <2>4, AboveCursor
  <2>6. AcknowledgedIsApplied'
    BY <1>1, <1>2, <1>4, <2>5, AcknowledgedKept DEF AppliedInv
  <2>7. HeldBelow'
    BY <1>1, <1>2, <1>4 DEF AppliedInv, HeldBelow, SamePage
  <2>8. IsSaved(n)'
    BY <1>1, <1>2, <1>4, <2>1, <2>3, <2>4 DEF IsSaved, SamePage
  <2>9. ASSUME NEW m \in Notes, m # n, IsSaved(m) PROVE IsSaved(m)'
    BY <1>1, <1>2, <1>4, <2>4, <2>9 DEF IsSaved, SamePage
  <2>10. \A m : m \in LiveRows(page.rows) \/ m \in ReadableNotes(page.rows) =>
           m \in Notes
    BY DEF LiveRows, ReadableNotes
  <2>11. \A m \in LiveRows(page.rows) \ page'.put : IsSaved(m)'
    BY <1>1, <1>4, <2>8, <2>9, <2>10 DEF AppliedInv, PageApplied
  <2>12. \A m \in ReadableNotes(page.rows) \ page'.remove :
           page.rows[m].deleted => local'[m] = Null \/ local'[m].deleted
    BY <1>1, <1>4, <2>4, <2>10 DEF AppliedInv, PageApplied, LiveRows
  <2>13. PageApplied'
    BY <1>1, <1>4, <2>11, <2>12 DEF AppliedInv, PageApplied, SamePage
  <2> QED
    BY <2>6, <2>7, <2>13 DEF AppliedInv
<1> QED
  BY <1>3, <1>4

LEMMA AppliedRemoveNote ==
  ASSUME Followed, AppliedInv, NEW n \in Notes, RemoveNote(n), UNCHANGED vars
  PROVE  AppliedInv'
<1>1. /\ page # Null /\ page.pulled /\ page.put = {} /\ n \in page.remove
      /\ \/ Conflict(n)
         \/ /\ SamePage
            /\ page'.remove = page.remove \ {n} /\ page'.put = {}
            /\ \/ /\ local[n] = Null /\ UNCHANGED <<local, fresh>>
               \/ /\ local[n] \in NoteRow
                  /\ local' = [local EXCEPT ![n].deleted = TRUE]
                  /\ fresh' = fresh \ {n}
            /\ UNCHANGED <<cursor, quarantine>>
  BY RemoveNoteEffect
<1>2. UNCHANGED records /\ \A x : (Live(x)' <=> Live(x)) /\ (Exists(x)' <=> Exists(x))
  BY DEF Live, Exists, vars
<1>3. CASE Conflict(n)
  BY <1>2, <1>3, ConflictStops, AppliedStop
<1>4. CASE ~Conflict(n)
  <2>1. /\ n \in ReadableNotes(page.rows) /\ page.rows[n].deleted
        /\ n \in DOMAIN page.rows
    BY <1>1 DEF Followed, WellKept, AppliedAreRows, ReadableNotes
  <2>2. /\ local'[n] = Null \/ local'[n].deleted
        /\ \A m \in Notes : m # n => local'[m] = local[m]
    BY <1>1, <1>4 DEF Followed, WellKept, DeviceTypes, NoteRow
  <2>3. \A m \in Notes : records[m].rev <= cursor =>
          quarantine'[m] = quarantine[m] /\ local'[m] = local[m]
    BY <1>1, <1>4, <2>1, <2>2, AboveCursor
  <2>4. AcknowledgedIsApplied'
    BY <1>1, <1>2, <1>4, <2>3, AcknowledgedKept DEF AppliedInv
  <2>5. HeldBelow'
    BY <1>1, <1>2, <1>4 DEF AppliedInv, HeldBelow, SamePage
  <2>6. ASSUME NEW m \in Notes, m # n, IsSaved(m) PROVE IsSaved(m)'
    BY <1>1, <1>2, <1>4, <2>2, <2>6 DEF IsSaved, SamePage
  <2>7. \A m \in LiveRows(page.rows) : m \in Notes /\ m # n
    BY <2>1 DEF LiveRows, ReadableNotes
  <2>8. \A m \in LiveRows(page.rows) \ page'.put : IsSaved(m)'
    BY <1>1, <1>4, <2>6, <2>7 DEF AppliedInv, PageApplied
  <2>9. \A m \in ReadableNotes(page.rows) \ page'.remove :
          page.rows[m].deleted => local'[m] = Null \/ local'[m].deleted
    BY <1>1, <1>4, <2>2 DEF AppliedInv, PageApplied, ReadableNotes
  <2>10. PageApplied'
    BY <1>1, <1>4, <2>8, <2>9 DEF AppliedInv, PageApplied, SamePage
  <2> QED
    BY <2>4, <2>5, <2>10 DEF AppliedInv
<1> QED
  BY <1>3, <1>4

\* The page was complete up to its cursor, all of it is applied, and no note of an
\* earlier page lists what the page's tombstones took away.
LEMMA AppliedAcknowledge ==
  ASSUME Followed, BytesInv, AppliedInv, Acknowledge, UNCHANGED vars
  PROVE  AppliedInv'
<1> DEFINE rows == page.rows
           top == PageCursor(rows)
<1>1. /\ page # Null /\ page' = Null /\ cursor' = top
      /\ UNCHANGED <<records, quarantine, local>>
  BY AcknowledgeKeeps DEF vars
<1>2. /\ page.pulled /\ page.drop = {} /\ page.put = {} /\ page.remove = {}
  BY DEF Acknowledge, Applying, Applied, NotesMayBeSaved
<1>3. \A x : (Live(x)' <=> Live(x)) /\ (Exists(x)' <=> Exists(x))
  BY <1>1 DEF Live, Exists
<1>4. /\ rows \in Feeds /\ FeedIsWhole(rows)
      /\ \A k \in Ids : records[k].rev \in Nat
      /\ cursor \in Nat
  BY <1>1, MaxRevisionFacts DEF Followed, FeedInv, WellKept, DeviceTypes, Page
<1>5. /\ top \in Nat /\ cursor < top
      /\ \A k \in Ids : cursor < records[k].rev /\ records[k].rev <= top =>
           k \in DOMAIN rows /\ rows[k] = records[k]
  BY <1>4 DEF FeedIsWhole
<1>6. /\ \A n \in DOMAIN rows \cap Notes :
           quarantine[n] = IF n \in ReadableNotes(rows) THEN 0 ELSE rows[n].rev
      /\ \A n \in LiveRows(rows) : IsSaved(n)
      /\ \A n \in ReadableNotes(rows) :
           rows[n].deleted => local[n] = Null \/ local[n].deleted
  BY <1>1, <1>2 DEF AppliedInv, PageApplied
<1>7. ASSUME NEW a \in Attachments, NEW n \in Notes, Listing(n, a),
             Exists(a), ~Live(a), cursor < records[a].rev, records[a].rev <= top
      PROVE  FALSE
  <2>1. a \in DeletedAttachments(rows)
    BY <1>5, <1>7 DEF DeletedAttachments, Live, Ids
  <2>2. a \in page.gone
    BY <1>1, <2>1 DEF BytesInv, Downloaded
  <2> QED
    BY <1>1, <1>2, <1>7, <2>2 DEF BytesInv, Unlisted
<1>8. ASSUME NEW n \in Notes, Exists(n), records[n].rev <= cursor
      PROVE  RowApplied(n)'
  <2>1. RowApplied(n)
    BY <1>8 DEF AppliedInv, AcknowledgedIsApplied, RowApplied, ImageApplied
  <2>2. \A a \in Images[records[n].envelope] : a \in Attachments /\ a \in Ids
    BY <1>8, ReplicaAssumption DEF Followed, RecordsOwned, Ids
  <2>3. ASSUME NEW a \in Images[records[n].envelope], ImageApplied(n, a),
               local[n] # Null, ~local[n].deleted
        PROVE  ImageApplied(n, a)'
    <3>1. records[a].rev <= cursor \/ cursor < records[a].rev
      BY <1>4, <2>2
    <3>2. ASSUME Exists(a), ~Live(a), records[a].rev <= top
          PROVE  a \notin local[n].images
      <4>1. CASE records[a].rev <= cursor
        BY <2>3, <3>2, <4>1 DEF ImageApplied
      <4>2. CASE cursor < records[a].rev
        BY <1>7, <2>2, <2>3, <3>2, <4>2 DEF Listing
      <4> QED
        BY <3>1, <4>1, <4>2
    <3> HIDE DEF top
    <3> QED
      BY <1>1, <1>3, <2>3, <3>2 DEF ImageApplied
  <2> QED
    BY <1>1, <2>1, <2>3 DEF RowApplied
<1>9. ASSUME NEW n \in Notes, cursor < records[n].rev, records[n].rev <= top
      PROVE  RowApplied(n)'
  <2>1. n \in DOMAIN rows /\ rows[n] = records[n]
    BY <1>5, <1>9 DEF Ids
  <2>2. rows[n].envelope \in Unreadable <=> n \notin ReadableNotes(rows)
    BY <2>1 DEF ReadableNotes
  <2>3. n \in ReadableNotes(rows) /\ ~rows[n].deleted => n \in LiveRows(rows)
    BY DEF LiveRows
  <2>4. \A a \in Images[rows[n].envelope] : a \in Attachments
    BY <1>1, <2>1, RowTypes DEF Followed, WellKept
  <2>5. ASSUME n \in LiveRows(rows), NEW a \in Images[rows[n].envelope]
        PROVE  ImageApplied(n, a)'
    <3>1. IsSaved(n)
      BY <1>6, <2>5
    <3>2. Live(a) => a \in local[n].images
      BY <2>1, <2>5, <3>1 DEF IsSaved
    <3>3. ASSUME a \in local[n].images, ~Live(a) PROVE records[a].rev > top
      BY <1>1, <3>1, <3>3 DEF IsSaved, BytesInv, Downloaded
    <3>4. records[a].rev \in Nat
      BY <1>4, <2>4, <2>5 DEF Ids
    <3>5. ~Live(a) /\ records[a].rev <= top => a \notin local[n].images
      <4> HIDE DEF top
      <4> QED
        BY <1>5, <3>3, <3>4
    <3> HIDE DEF top
    <3> QED
      BY <1>1, <1>3, <3>2, <3>5 DEF ImageApplied
  <2> QED
    BY <1>1, <1>6, <2>1, <2>2, <2>3, <2>5 DEF RowApplied, IsSaved
<1>10. AcknowledgedIsApplied'
  <2>1. ASSUME NEW n \in Notes, Exists(n), records[n].rev <= top
        PROVE  RowApplied(n)'
    <3>1. records[n].rev <= cursor \/ cursor < records[n].rev
      BY <1>4 DEF Ids
    <3> QED
      BY <1>8, <1>9, <2>1, <3>1
  <2> HIDE DEF top
  <2> QED
    BY <1>1, <1>3, <2>1 DEF AcknowledgedIsApplied, RowApplied, ImageApplied
<1>11. HeldBelow' /\ PageApplied'
  BY <1>1 DEF AppliedInv, HeldBelow, PageApplied
<1> QED
  BY <1>10, <1>11 DEF AppliedInv

LEMMA AppliedStep ==
  ASSUME Followed, BytesInv, AppliedInv, [ReplicaNext]_<<vars, replicaVars>>
  PROVE  AppliedInv'
<1>1. ASSUME [Next]_vars, UNCHANGED replicaVars PROVE AppliedInv'
  BY <1>1, HeldRelay, PageAppliedRelay, AcknowledgedRelay DEF AppliedInv
<1>2. CASE Act /\ UNCHANGED vars
  <2>1. UNCHANGED records
    BY <1>2 DEF vars
  <2>2. CASE Unreachable \/ Reload
    <3>1. page' = Null /\ UNCHANGED <<cursor, quarantine, local>>
      BY <2>2 DEF Unreachable, Reload, device
    <3> QED
      BY <2>1, <3>1, AppliedStop
  <2>3. ASSUME NEW a \in Attachments, ByteStep(a) PROVE AppliedInv'
    <3>1. CASE SaveBytes(a) \/ SkipTombstone(a) \/ Purge(a) \/ ConfirmBytes(a)
      <4>1. /\ SamePage /\ UNCHANGED <<cursor, quarantine, local>>
            /\ page'.put = page.put /\ page'.remove = page.remove
        BY <3>1, SaveBytesEffect, SkipTombstoneEffect, PurgeEffect, ConfirmBytesEffect
           DEF Followed, WellKept
      <4> QED
        BY <2>1, <4>1, AppliedSame
    <3> QED
      BY <1>2, <2>3, <3>1, AppliedDownload, AppliedDrop DEF ByteStep
  <2> QED
    BY <1>2, <2>2, <2>3, AppliedPull, AppliedPullReturns, AppliedSaveNote,
       AppliedRemoveNote, AppliedAcknowledge, ActCases
<1> QED
  BY <1>1, <1>2 DEF ReplicaNext, Act

LEMMA AppliedInit == ReplicaInit => AppliedInv
<1> SUFFICES ASSUME ReplicaInit PROVE AppliedInv
  OBVIOUS
<1>1. /\ \A n \in Notes : records[n].rev = 0 /\ quarantine[n] = 0
      /\ page = Null
  BY DEF ReplicaInit, Init, Ids
<1> QED
  BY <1>1 DEF AppliedInv, HeldBelow, PageApplied, AcknowledgedIsApplied, Exists

\* What the device acknowledged it has, as the relay has it: the note's newest row
\* or its quarantine, and of its attachments all that are live and none whose
\* tombstone was acknowledged.
THEOREM AcknowledgedStaysApplied == ReplicaSpec => []AcknowledgedIsApplied
<1>1. AppliedInv => AcknowledgedIsApplied
  BY DEF AppliedInv
<1> QED
  BY <1>1, AppliedInit, AppliedStep, FollowedAlways, BytesAlways, PTL DEF ReplicaSpec

=============================================================================
