---------------------------- MODULE RelayProofs ----------------------------
(***************************************************************************)
(* What holds of the relay's record store for any number of notes,         *)
(* attachments, credentials and requests, and for any limits and TTLs:     *)
(* first of its rows, then of what its answers promise, of who makes it    *)
(* write and of the stages and receipts it keeps, for any requests         *)
(* repeated and interleaved in any way, while receipts are pruned, stages  *)
(* expire and the relay stops; and that it implements the vault.           *)
(***************************************************************************)
EXTENDS RelayVault, FiniteSetTheorems, FunctionTheorems, WellFoundedInduction, TLAPS

-----------------------------------------------------------------------------
(* Naturals and finite sets *)

\* A nonempty set of naturals has a smallest element: MIN(created_at).
LEMMA NatMin ==
  ASSUME NEW S \in SUBSET Nat, S # {}
  PROVE  /\ Min(S) \in S
         /\ \A x \in S : Min(S) <= x
<1>1. \E x \in S : \A y \in S : ~ (<<y, x>> \in OpToRel(<, Nat))
  BY NatLessThanWellFounded, WFMin
<1>2. PICK x \in S : \A y \in S : ~ (<<y, x>> \in OpToRel(<, Nat))
  BY <1>1
<1>3. ASSUME NEW y \in S PROVE x <= y
  <2>1. y < x => <<y, x>> \in OpToRel(<, Nat)
    BY DEF OpToRel
  <2>2. ~ (y < x)
    BY <1>2, <2>1
  <2>3. QED
    BY <2>2
<1>4. QED
  BY <1>3 DEF Min

\* A nonempty bounded set of naturals has a largest element: MAX(revision).
LEMMA NatMax ==
  ASSUME NEW S \in SUBSET Nat, S # {}, NEW b \in Nat, \A x \in S : x <= b
  PROVE  /\ Max(S) \in S
         /\ \A x \in S : x <= Max(S)
<1> DEFINE T == {b - x : x \in S}
<1>a. ASSUME NEW x \in S PROVE b - x \in Nat
  <2>1. x \in Nat /\ x <= b
    OBVIOUS
  <2>2. QED
    BY <2>1
<1>1. T \in SUBSET Nat /\ T # {}
  <2>1. PICK x \in S : TRUE
    OBVIOUS
  <2>2. b - x \in T
    BY <2>1
  <2>3. ASSUME NEW t \in T PROVE t \in Nat
    BY <1>a
  <2> HIDE DEF T
  <2>4. QED
    BY <2>2, <2>3
<1>2. Min(T) \in T /\ \A t \in T : Min(T) <= t
  BY <1>1, NatMin
<1>3. PICK m \in S : Min(T) = b - m
  BY <1>2
<1>4. ASSUME NEW x \in S PROVE m >= x
  <2>1. b - x \in T
    OBVIOUS
  <2>2. b - m <= b - x
    BY <2>1, <1>2, <1>3
  <2>3. x \in Nat /\ m \in Nat
    OBVIOUS
  <2>4. QED
    BY <2>2, <2>3
<1>5. QED
  BY <1>4 DEF Max

\* Positions in an ordered selection: from 1 to its size, no two alike.
LEMMA RankFacts ==
  ASSUME NEW S \in SUBSET Nat, IsFiniteSet(S), NEW a \in S
  PROVE  /\ Cardinality(S) \in Nat
         /\ Rank(a, S) \in 1..Cardinality(S)
         /\ \A b \in S : Rank(b, S) = Rank(a, S) => b = a
<1> DEFINE Upto(x) == {y \in S : y <= x}
<1>1. ASSUME NEW x \in S
      PROVE  /\ IsFiniteSet(Upto(x)) /\ x \in Upto(x)
             /\ Rank(x, S) = Cardinality(Upto(x))
             /\ Cardinality(Upto(x)) \in Nat \ {0}
             /\ Cardinality(Upto(x)) <= Cardinality(S)
  <2>1. Upto(x) \in SUBSET S /\ x \in Upto(x)
    OBVIOUS
  <2>2. IsFiniteSet(Upto(x)) /\ Cardinality(Upto(x)) <= Cardinality(S)
    BY <2>1, FS_Subset
  <2>3. Cardinality(Upto(x)) \in Nat \ {0}
    BY <2>1, <2>2, FS_CardinalityType, FS_EmptySet
  <2>4. QED
    BY <2>1, <2>2, <2>3 DEF Rank
<1>2. Cardinality(S) \in Nat
  BY FS_CardinalityType
<1>3. ASSUME NEW x \in S, NEW y \in S, x < y
      PROVE  Rank(x, S) # Rank(y, S)
  <2>1. Upto(x) \in SUBSET Upto(y) /\ Upto(x) # Upto(y)
    <3>1. ASSUME NEW z \in Upto(x) PROVE z \in Upto(y)
      <4>1. z \in Nat /\ x \in Nat /\ y \in Nat /\ z <= x /\ x < y /\ z \in S
        BY <1>3
      <4>2. QED
        BY <4>1
    <3>2. y \in Upto(y) /\ y \notin Upto(x)
      BY <1>3
    <3>3. QED
      BY <3>1, <3>2
  <2>2. Cardinality(Upto(x)) # Cardinality(Upto(y))
    BY <2>1, <1>1, FS_Subset
  <2>3. QED
    BY <2>2, <1>1
<1>4. ASSUME NEW b \in S, Rank(b, S) = Rank(a, S)
      PROVE  b = a
  <2>1. a \in Nat /\ b \in Nat
    OBVIOUS
  <2>2. ~ (a < b) /\ ~ (b < a)
    BY <1>3, <1>4
  <2>3. QED
    BY <2>1, <2>2
<1>5. Rank(a, S) \in 1..Cardinality(S)
  <2>1. /\ Rank(a, S) = Cardinality(Upto(a))
        /\ Cardinality(Upto(a)) \in Nat \ {0}
        /\ Cardinality(Upto(a)) <= Cardinality(S)
    BY <1>1
  <2> HIDE DEF Upto
  <2>2. QED
    BY <2>1, <1>2
<1>6. QED
  BY <1>2, <1>4, <1>5

-----------------------------------------------------------------------------
(* The rows a transaction writes *)

\* Some natural bounds the revisions: with infinitely many ids to choose from
\* this is what makes MAX(revision) exist.
Bounded == \E b \in Nat : \A k \in Ids : records[k].rev <= b

TypeInv == TypeOK /\ Bounded

LEMMA RequestKinds ==
  ASSUME NEW q \in Requests
  PROVE  /\ q.op \in {"put", "stage", "bundle"}
         /\ q.op = "put" => /\ q \in PutRequest
                            /\ q.id \in Attachments <=> q.note # Null
         /\ q.op = "stage" => q \in StageRequest
         /\ q.op = "bundle" => q \in BundleRequest
<1>1. q \in Request /\ WellFormed(q)
  BY RequestsAssumption
<1>2. q \in PutRequest => q.op = "put"
  BY DEF PutRequest
<1>3. q \in StageRequest => q.op = "stage"
  BY DEF StageRequest
<1>4. q \in BundleRequest => q.op = "bundle"
  BY DEF BundleRequest
<1>5. QED
  BY <1>1, <1>2, <1>3, <1>4 DEF Request, WellFormed

LEMMA MaxRevisionFacts ==
  ASSUME TypeInv
  PROVE  /\ MaxRevision \in Nat
         /\ \A k \in Ids : records[k].rev \in Nat /\ records[k].rev <= MaxRevision
<1> DEFINE S == {records[k].rev : k \in Ids} \cup {0}
<1>1. \A k \in Ids : records[k].rev \in Nat
  BY DEF TypeInv, TypeOK, Record
<1>2. S \in SUBSET Nat /\ S # {}
  BY <1>1
<1>3. PICK b \in Nat : \A x \in S : x <= b
  BY <1>1 DEF TypeInv, Bounded
<1>4. Max(S) \in S /\ \A x \in S : x <= Max(S)
  BY <1>2, <1>3, NatMax
<1>5. MaxRevision = Max(S)
  BY DEF MaxRevision
<1> HIDE DEF S
<1>6. Max(S) \in Nat
  BY <1>2, <1>4
<1>7. ASSUME NEW k \in Ids PROVE records[k].rev <= Max(S)
  <2>1. records[k].rev \in S
    BY DEF S
  <2>2. QED
    BY <2>1, <1>4
<1>8. QED
  BY <1>1, <1>5, <1>6, <1>7

LEMMA CascadeFacts ==
  ASSUME NEW q
  PROVE  /\ Cascade(q) \in SUBSET Attachments /\ Cascade(q) \in SUBSET Nat
         /\ IsFiniteSet(Cascade(q)) /\ Cardinality(Cascade(q)) \in Nat
         /\ q.id \notin Cascade(q)
         /\ \A a \in Cascade(q) : Live(a) /\ records[a].note = q.id
<1>1. Cascade(q) \in SUBSET Attachments /\ Cascade(q) \in SUBSET Nat
  BY KeysAssumption DEF Cascade
<1>2. IsFiniteSet(Cascade(q)) /\ Cardinality(Cascade(q)) \in Nat
  BY <1>1, KeysAssumption, FS_Subset, FS_CardinalityType
<1>3. q.id \notin Cascade(q)
  BY KeysAssumption DEF Cascade
<1>4. \A a \in Cascade(q) : Live(a) /\ records[a].note = q.id
  BY DEF Cascade
<1>5. QED
  BY <1>1, <1>2, <1>3, <1>4

\* An ordinary put: its row is the newest, each cascaded tombstone newer still,
\* every other row stays.
LEMMA PutRows ==
  ASSUME TypeInv, NEW q \in Requests, q.op = "put"
  PROVE  LET R == PutRecords(q)
             m == MaxRevision
             C == Cascade(q)
         IN  /\ R \in [Ids -> Record]
             /\ R[q.id] = [rev |-> m + 1, deleted |-> q.deleted, note |-> q.note,
                           envelope |-> q.envelope]
             /\ \A k \in C : /\ R[k].rev \in (m + 2)..(m + 1 + Cardinality(C))
                             /\ R[k].deleted /\ R[k].note = records[k].note
             /\ \A j, k \in C : R[j].rev = R[k].rev => j = k
             /\ \A k \in Ids : k \notin C /\ k # q.id => R[k] = records[k]
<1> DEFINE R == PutRecords(q)
           m == MaxRevision
           C == Cascade(q)
<1>1. /\ m \in Nat /\ NextRevision = m + 1
      /\ q \in PutRequest /\ q.id \in Ids
      /\ records \in [Ids -> Record]
  BY MaxRevisionFacts, RequestKinds DEF NextRevision, PutRequest, TypeInv, TypeOK
<1>2. /\ C \in SUBSET Ids /\ C \in SUBSET Nat /\ IsFiniteSet(C)
      /\ Cardinality(C) \in Nat /\ q.id \notin C
  BY CascadeFacts DEF Ids
<1>3. \A k \in C : Rank(k, C) \in 1..Cardinality(C)
  BY <1>2, RankFacts
<1>4. \A j, k \in C : Rank(j, C) = Rank(k, C) => j = k
  BY <1>2, RankFacts
<1> HIDE DEF C
<1>5. R[q.id] = [rev |-> m + 1, deleted |-> q.deleted, note |-> q.note,
                 envelope |-> q.envelope]
  BY <1>1 DEF PutRecords
<1>6. ASSUME NEW k \in C
      PROVE  R[k] = [rev |-> m + 1 + Rank(k, C), deleted |-> TRUE,
                     note |-> records[k].note, envelope |-> Null]
  BY <1>1, <1>2 DEF PutRecords, C
<1>7. ASSUME NEW k \in Ids, k \notin C, k # q.id
      PROVE  R[k] = records[k]
  BY <1>7 DEF PutRecords, C
<1>8. ASSUME NEW k \in Ids PROVE R[k] \in Record
  <2>1. CASE k = q.id
    BY <2>1, <1>1, <1>5 DEF Record, PutRequest
  <2>2. CASE k \in C
    <3>1. records[k].note \in Notes \cup {Null}
      BY <1>1 DEF Record
    <3>2. m + 1 + Rank(k, C) \in Nat
      BY <2>2, <1>1, <1>3, <1>2
    <3>3. R[k] = [rev |-> m + 1 + Rank(k, C), deleted |-> TRUE,
                  note |-> records[k].note, envelope |-> Null]
      BY <2>2, <1>6
    <3> HIDE DEF R, m
    <3>4. QED
      BY <3>1, <3>2, <3>3 DEF Record
  <2>3. CASE k \notin C /\ k # q.id
    BY <2>3, <1>1, <1>7
  <2>4. QED
    BY <2>1, <2>2, <2>3
<1>9. R \in [Ids -> Record]
  BY <1>8 DEF PutRecords
<1>10. ASSUME NEW k \in C
       PROVE  /\ R[k].rev = m + 1 + Rank(k, C)
              /\ R[k].rev \in (m + 2)..(m + 1 + Cardinality(C))
              /\ R[k].deleted /\ R[k].note = records[k].note
  <2> HIDE DEF R, m
  <2>0. R[k] = [rev |-> m + 1 + Rank(k, C), deleted |-> TRUE,
                note |-> records[k].note, envelope |-> Null]
    BY <1>6
  <2>1. /\ R[k].rev = m + 1 + Rank(k, C)
        /\ R[k].deleted /\ R[k].note = records[k].note
    BY <2>0
  <2>2. /\ Rank(k, C) \in Nat /\ 1 <= Rank(k, C)
        /\ Rank(k, C) <= Cardinality(C)
    BY <1>2, <1>3
  <2>3. m \in Nat /\ Cardinality(C) \in Nat
    BY <1>1, <1>2
  <2>4. m + 1 + Rank(k, C) \in (m + 2)..(m + 1 + Cardinality(C))
    BY <2>2, <2>3
  <2>5. QED
    BY <2>1, <2>4
<1>11. ASSUME NEW j \in C, NEW k \in C, R[j].rev = R[k].rev
       PROVE  j = k
  <2>1. Rank(j, C) \in Nat /\ Rank(k, C) \in Nat
    BY <1>2, <1>3
  <2>2. m + 1 + Rank(j, C) = m + 1 + Rank(k, C)
    BY <1>10, <1>11
  <2> HIDE DEF R, m
  <2>3. Rank(j, C) = Rank(k, C)
    BY <1>1, <2>1, <2>2
  <2>4. QED
    BY <1>4, <2>3
<1>12. QED
  BY <1>5, <1>7, <1>9, <1>10, <1>11 DEF C

\* The stages a bundle may be finalized from are those its manifest lists.
LEMMA StagedIds ==
  ASSUME NEW c, NEW q, BundleIsStaged(c, q)
  PROVE  {s.id : s \in BundleOf(FreshStages, c, q.mutation)} = BundleIds(q)
<1> DEFINE staged == BundleOf(FreshStages, c, q.mutation)
<1>1. {[id |-> s.id, envelope |-> s.envelope] : s \in staged} = q.attachments
  BY DEF BundleIsStaged
<1> HIDE DEF staged
<1>2. ASSUME NEW s \in staged PROVE s.id \in BundleIds(q)
  <2>1. [id |-> s.id, envelope |-> s.envelope] \in q.attachments
    BY <1>1
  <2>2. QED
    BY <2>1 DEF BundleIds
<1>3. ASSUME NEW x \in q.attachments PROVE x.id \in {s.id : s \in staged}
  <2>1. PICK s \in staged : x = [id |-> s.id, envelope |-> s.envelope]
    BY <1>1
  <2>2. QED
    BY <2>1
<1>4. {s.id : s \in staged} = BundleIds(q)
  BY <1>2, <1>3 DEF BundleIds
<1>5. QED
  BY <1>4 DEF staged

\* A bundle leaves every row but its own alone.
LEMMA BundleKeeps ==
  ASSUME NEW c, NEW q, BundleIsAccepted(c, q),
         NEW k \in Ids, k \notin BundleIds(q), k # q.id
  PROVE  BundleRecords(c, q)[k] = records[k]
<1>1. {s.id : s \in BundleOf(FreshStages, c, q.mutation)} = BundleIds(q)
  BY StagedIds DEF BundleIsAccepted
<1>2. k \notin {s.id : s \in BundleOf(FreshStages, c, q.mutation)}
  BY <1>1
<1>3. QED
  BY <1>2 DEF BundleRecords

\* The attachments of a bundle become live rows of its note.
LEMMA BundleAttachments ==
  ASSUME NEW c, NEW q, BundleIsAccepted(c, q),
         NEW k \in Ids, k \in BundleIds(q), k # q.id
  PROVE  BundleRecords(c, q)[k].note = q.id /\ ~BundleRecords(c, q)[k].deleted
<1>1. {s.id : s \in BundleOf(FreshStages, c, q.mutation)} = BundleIds(q)
  BY StagedIds DEF BundleIsAccepted
<1>2. k \in {s.id : s \in BundleOf(FreshStages, c, q.mutation)}
  BY <1>1
<1>3. QED
  BY <1>2 DEF BundleRecords

\* A bundle: its attachments are new live rows of the note, numbered from the
\* next revision, and the note's row is the newest.
LEMMA BundleRows ==
  ASSUME TypeInv, NEW c \in Credentials, NEW q \in Requests, q.op = "bundle",
         BundleIsAccepted(c, q)
  PROVE  /\ BundleRecords(c, q) \in [Ids -> Record]
         /\ BundleIds(q) \in SUBSET Attachments /\ Cardinality(BundleIds(q)) \in Nat
         /\ q.id \in Notes /\ q.id \notin BundleIds(q)
         /\ BundleRecords(c, q)[q.id] =
              [rev |-> MaxRevision + 1 + Cardinality(BundleIds(q)), deleted |-> FALSE,
               note |-> Null, envelope |-> q.envelope]
         /\ \A k \in BundleIds(q) :
              /\ BundleRecords(c, q)[k].rev \in
                   (MaxRevision + 1)..(MaxRevision + Cardinality(BundleIds(q)))
              /\ ~BundleRecords(c, q)[k].deleted
              /\ BundleRecords(c, q)[k].note = q.id
              /\ ~Exists(k)
         /\ \A j, k \in BundleIds(q) :
              BundleRecords(c, q)[j].rev = BundleRecords(c, q)[k].rev => j = k
<1> DEFINE R == BundleRecords(c, q)
           m == MaxRevision
           A == BundleIds(q)
           staged == BundleOf(FreshStages, c, q.mutation)
           envelopeOf(k) == (CHOOSE s \in staged : s.id = k).envelope
<1>1. /\ m \in Nat /\ NextRevision = m + 1
      /\ q \in BundleRequest /\ q.id \in Notes /\ q.id \in Ids
      /\ records \in [Ids -> Record]
  BY MaxRevisionFacts, RequestKinds DEF NextRevision, BundleRequest, TypeInv, TypeOK, Ids
<1>2. staged \subseteq Stage
  BY DEF TypeInv, TypeOK, BundleOf, FreshStages
<1>3. {s.id : s \in staged} = A
  BY StagedIds DEF BundleIsAccepted
<1>4. A \in SUBSET Attachments
  BY <1>2, <1>3 DEF Stage
<1>5. /\ A \in SUBSET Nat /\ A \in SUBSET Ids
      /\ IsFiniteSet(A) /\ Cardinality(A) \in Nat /\ q.id \notin A
  BY <1>1, <1>4, KeysAssumption, FS_Subset, FS_CardinalityType DEF Ids
<1>6. \A k \in A : Rank(k, A) \in 1..Cardinality(A)
  BY <1>5, RankFacts
<1>7. \A j, k \in A : Rank(j, A) = Rank(k, A) => j = k
  BY <1>5, RankFacts
<1>8. ASSUME NEW k \in A PROVE envelopeOf(k) \in Envelopes
  <2>1. \E s \in staged : s.id = k
    BY <1>3
  <2>2. (CHOOSE s \in staged : s.id = k) \in staged
    BY <2>1
  <2>3. QED
    BY <2>2, <1>2 DEF Stage
<1>9. R = [k \in Ids |->
             IF k = q.id
             THEN [rev |-> m + 1 + Cardinality(A), deleted |-> FALSE,
                   note |-> Null, envelope |-> q.envelope]
             ELSE IF k \in A
             THEN [rev |-> m + Rank(k, A), deleted |-> FALSE, note |-> q.id,
                   envelope |-> envelopeOf(k)]
             ELSE records[k]]
  BY <1>1, <1>3 DEF BundleRecords
<1>10. \A k \in A : ~Exists(k)
  BY DEF BundleIsAccepted
<1> HIDE DEF R, m, A, staged, envelopeOf
<1>11. R[q.id] = [rev |-> m + 1 + Cardinality(A), deleted |-> FALSE, note |-> Null,
                  envelope |-> q.envelope]
  BY <1>1, <1>9
<1>12. ASSUME NEW k \in A
       PROVE  R[k] = [rev |-> m + Rank(k, A), deleted |-> FALSE, note |-> q.id,
                      envelope |-> envelopeOf(k)]
  BY <1>5, <1>9
<1>13. ASSUME NEW k \in Ids, k \notin A, k # q.id PROVE R[k] = records[k]
  BY <1>9, <1>13
<1>14. ASSUME NEW k \in A
       PROVE  /\ R[k].rev = m + Rank(k, A)
              /\ R[k].rev \in (m + 1)..(m + Cardinality(A))
              /\ ~R[k].deleted /\ R[k].note = q.id
              /\ R[k] \in Record
  <2>1. /\ Rank(k, A) \in Nat /\ 1 <= Rank(k, A) /\ Rank(k, A) <= Cardinality(A)
    BY <1>5, <1>6
  <2>2. m + Rank(k, A) \in (m + 1)..(m + Cardinality(A)) /\ m + Rank(k, A) \in Nat
    BY <1>1, <1>5, <2>1
  <2>3. R[k] = [rev |-> m + Rank(k, A), deleted |-> FALSE, note |-> q.id,
                envelope |-> envelopeOf(k)]
    BY <1>12
  <2>4. R[k].rev = m + Rank(k, A) /\ ~R[k].deleted /\ R[k].note = q.id
    BY <2>3
  <2>5. envelopeOf(k) \in Envelopes \cup {Null} /\ q.id \in Notes \cup {Null}
    BY <1>1, <1>8
  <2>6. R[k] \in Record
    BY <2>2, <2>3, <2>5 DEF Record
  <2>7. QED
    BY <2>2, <2>4, <2>6
<1>15. ASSUME NEW j \in A, NEW k \in A, R[j].rev = R[k].rev
       PROVE  j = k
  <2>1. Rank(j, A) \in Nat /\ Rank(k, A) \in Nat
    BY <1>5, <1>6
  <2>2. m + Rank(j, A) = m + Rank(k, A)
    BY <1>14, <1>15
  <2>3. Rank(j, A) = Rank(k, A)
    BY <1>1, <2>1, <2>2
  <2>4. QED
    BY <1>7, <2>3
<1>16. R[q.id] \in Record
  BY <1>1, <1>5, <1>11 DEF Record, BundleRequest
<1>17. R \in [Ids -> Record]
  <2>1. ASSUME NEW k \in Ids PROVE R[k] \in Record
    BY <1>1, <1>13, <1>14, <1>16
  <2>2. QED
    BY <2>1, <1>9
<1>18. QED
  BY <1>1, <1>4, <1>5, <1>10, <1>11, <1>13, <1>14, <1>15, <1>17 DEF R, m, A

-----------------------------------------------------------------------------
(* Types *)

LEMMA RetainedTypes ==
  ASSUME TypeOK
  PROVE  /\ FreshStages \subseteq stages
         /\ \A n : Pruned(n) \subseteq receipts
         /\ \A q \in Requests, rev \in Nat, owner \in Credentials \cup {Null} :
              WithReceipt(q, rev, owner) \subseteq Receipt
<1>1. FreshStages \subseteq stages
  BY DEF FreshStages
<1>2. \A n : Pruned(n) \subseteq receipts
  BY DEF Pruned
<1>3. ASSUME NEW q \in Requests, NEW rev \in Nat, NEW owner \in Credentials \cup {Null}
      PROVE  WithReceipt(q, rev, owner) \subseteq Receipt
  <2>1. [request |-> q, rev |-> rev, owner |-> owner, created |-> now] \in Receipt
    BY DEF TypeOK, Receipt
  <2>2. Pruned(1) \subseteq Receipt
    BY <1>2 DEF TypeOK
  <2>3. QED
    BY <2>1, <2>2 DEF WithReceipt
<1>4. QED
  BY <1>1, <1>2, <1>3

LEMMA ExpiryTypes ==
  ASSUME TypeOK, NEW c, NEW q,
         NEW born, born = {s.created : s \in BundleOf(FreshStages, c, q.mutation)}
  PROVE  /\ born # {} => Min(born) \in Nat
         /\ \A t \in Nat : StageExpiry(t) \in Nat
<1>1. BundleOf(FreshStages, c, q.mutation) \subseteq Stage
  BY DEF TypeOK, BundleOf, FreshStages
<1>2. born \in SUBSET Nat
  BY <1>1 DEF Stage
<1>3. born # {} => Min(born) \in Nat
  BY <1>2, NatMin
<1>4. \A t \in Nat : StageExpiry(t) \in Nat
  BY SettingsAssumption DEF StageExpiry, TypeOK
<1>5. QED
  BY <1>3, <1>4

LEMMA RefreshedTypes ==
  ASSUME TypeOK, NEW c, NEW m, NEW expiry \in Nat
  PROVE  Refreshed(FreshStages, c, m, expiry) \subseteq Stage
<1>1. FreshStages \subseteq Stage
  BY DEF TypeOK, FreshStages
<1>2. ASSUME NEW s \in Stage PROVE [s EXCEPT !.expires = expiry] \in Stage
  BY DEF Stage
<1>3. QED
  BY <1>1, <1>2 DEF Refreshed

LEMMA StageAddTypes ==
  ASSUME TypeOK, NEW c \in Credentials, NEW q \in Requests, StageAdd(c, q)
  PROVE  stages' \subseteq Stage
<1> DEFINE born == {s.created : s \in BundleOf(FreshStages, c, q.mutation)}
           first == IF BundleOf(FreshStages, c, q.mutation) = {} THEN now ELSE Min(born)
           expiry == StageExpiry(first)
           new == [bundle |-> q.mutation, id |-> q.id, note |-> q.note,
                   envelope |-> q.envelope, owner |-> c, created |-> now,
                   expires |-> expiry]
<1>1. stages' = Refreshed(FreshStages, c, q.mutation, expiry) \cup {new}
  BY DEF StageAdd
<1>2. first \in Nat
  <2>1. CASE BundleOf(FreshStages, c, q.mutation) = {}
    BY <2>1 DEF TypeOK
  <2>2. CASE BundleOf(FreshStages, c, q.mutation) # {}
    <3>1. born # {}
      BY <2>2
    <3>2. Min(born) \in Nat
      BY <3>1, ExpiryTypes
    <3>3. QED
      BY <2>2, <3>2
  <2>3. QED
    BY <2>1, <2>2
<1>3. expiry \in Nat
  BY <1>2, ExpiryTypes
<1>4. q \in StageRequest
  BY RequestKinds DEF StageAdd
<1> HIDE DEF expiry
<1>5. new \in Stage
  BY <1>3, <1>4 DEF Stage, StageRequest, TypeOK
<1>6. Refreshed(FreshStages, c, q.mutation, expiry) \subseteq Stage
  BY <1>3, RefreshedTypes
<1>7. QED
  BY <1>1, <1>5, <1>6

LEMMA StageRenewTypes ==
  ASSUME TypeOK, NEW c \in Credentials, NEW q \in Requests, StageRenew(c, q)
  PROVE  stages' \subseteq Stage
<1> DEFINE bundle == BundleOf(FreshStages, c, q.mutation)
           born == {s.created : s \in bundle}
<1>1. stages' = Refreshed(FreshStages, c, q.mutation, StageExpiry(Min(born)))
  BY DEF StageRenew
<1>2. PICK s \in StageHeld(q) : s.owner = c
  BY DEF StageRenew, StageIsKnown
<1>3. s \in bundle
  BY <1>2 DEF BundleOf, StageHeld
<1>4. born # {}
  BY <1>3
<1>5. Min(born) \in Nat
  BY <1>4, ExpiryTypes
<1>6. StageExpiry(Min(born)) \in Nat
  BY <1>5, ExpiryTypes
<1>7. QED
  BY <1>1, <1>6, RefreshedTypes

\* The rows after an accepted put.
LEMMA PutEffect ==
  ASSUME TypeInv, NEW c, NEW q \in Requests, Put(c, q)
  PROVE  /\ PutIsAccepted(q)
         /\ records' \in [Ids -> Record]
         /\ records'[q.id].rev = MaxRevision + 1
         /\ records'[q.id].deleted = q.deleted
         /\ \A i \in Cascade(q) :
              /\ records'[i].rev \in
                   (MaxRevision + 2)..(MaxRevision + 1 + Cardinality(Cascade(q)))
              /\ records'[i].deleted
         /\ \A h, i \in Cascade(q) : records'[h].rev = records'[i].rev => h = i
         /\ \A i \in Ids : i \notin Cascade(q) /\ i # q.id => records'[i] = records[i]
<1> DEFINE R == PutRecords(q)
           m == MaxRevision
           C == Cascade(q)
<1>1. records' = R /\ q.op = "put" /\ PutIsAccepted(q)
  BY DEF Put
<1>2. /\ R \in [Ids -> Record]
      /\ R[q.id] = [rev |-> m + 1, deleted |-> q.deleted, note |-> q.note,
                    envelope |-> q.envelope]
      /\ \A i \in C : R[i].rev \in (m + 2)..(m + 1 + Cardinality(C)) /\ R[i].deleted
      /\ \A h, i \in C : R[h].rev = R[i].rev => h = i
      /\ \A i \in Ids : i \notin C /\ i # q.id => R[i] = records[i]
  <2>1. q.op = "put"
    BY <1>1
  <2>2. QED
    BY <2>1, PutRows
<1> HIDE DEF R, m, C
<1>3. /\ R[q.id].rev = m + 1 /\ R[q.id].deleted = q.deleted
  BY <1>2
<1>4. QED
  BY <1>1, <1>2, <1>3 DEF R, m, C

\* The rows after an accepted bundle.
LEMMA BundleEffect ==
  ASSUME TypeInv, NEW c \in Credentials, NEW q \in Requests, Bundle(c, q)
  PROVE  /\ BundleIsAccepted(c, q)
         /\ records' \in [Ids -> Record]
         /\ BundleIds(q) \in SUBSET Attachments /\ Cardinality(BundleIds(q)) \in Nat
         /\ q.id \in Notes
         /\ records'[q.id].rev = MaxRevision + 1 + Cardinality(BundleIds(q))
         /\ ~records'[q.id].deleted
         /\ \A i \in BundleIds(q) :
              /\ records'[i].rev \in
                   (MaxRevision + 1)..(MaxRevision + Cardinality(BundleIds(q)))
              /\ records'[i].note = q.id
         /\ \A h, i \in BundleIds(q) : records'[h].rev = records'[i].rev => h = i
         /\ \A i \in Ids : i \notin BundleIds(q) /\ i # q.id => records'[i] = records[i]
<1> DEFINE R == BundleRecords(c, q)
           m == MaxRevision
           A == BundleIds(q)
<1>1. records' = R /\ q.op = "bundle" /\ BundleIsAccepted(c, q)
  BY DEF Bundle
<1>2. /\ R \in [Ids -> Record]
      /\ A \in SUBSET Attachments /\ Cardinality(A) \in Nat /\ q.id \in Notes
      /\ R[q.id] = [rev |-> m + 1 + Cardinality(A), deleted |-> FALSE,
                    note |-> Null, envelope |-> q.envelope]
      /\ \A i \in A : R[i].rev \in (m + 1)..(m + Cardinality(A)) /\ R[i].note = q.id
      /\ \A h, i \in A : R[h].rev = R[i].rev => h = i
  <2>1. q.op = "bundle" /\ BundleIsAccepted(c, q)
    BY <1>1
  <2>2. QED
    BY <2>1, BundleRows
<1>3. ASSUME NEW i \in Ids, i \notin A, i # q.id
      PROVE  R[i] = records[i]
  <2>1. BundleIsAccepted(c, q)
    BY <1>1
  <2>2. QED
    BY <1>3, <2>1, BundleKeeps
<1> HIDE DEF R, m, A
<1>4. R[q.id].rev = m + 1 + Cardinality(A) /\ ~R[q.id].deleted
  BY <1>2
<1>5. QED
  BY <1>1, <1>2, <1>3, <1>4 DEF R, m, A

LEMMA TypeStep ==
  ASSUME TypeInv, [Next]_vars
  PROVE  TypeInv'
<1> USE DEF TypeInv
<1>1. ASSUME NEW c \in Credentials, NEW q \in Requests, Begin(c, q)
      PROVE  TypeInv'
  <2>1. <<c, q>> \in (Credentials \ ReadOnly) \X Requests
    BY <1>1 DEF Begin, TypeOK
  <2>2. QED
    BY <1>1, <2>1 DEF Begin, TypeOK, Bounded, Ids
<1>2. ASSUME NEW c \in Credentials, NEW q \in Requests, Replay(c, q)
      PROVE  TypeInv'
  <2>1. PICK r \in Repeats(c, q) : Answer(q, r.rev)
    BY <1>2 DEF Replay
  <2>2. r \in receipts
    BY DEF Repeats, Prior
  <2>3. answered' \subseteq [request : Requests, rev : Nat]
    BY <2>1, <2>2 DEF Answer, TypeOK, Receipt
  <2>4. QED
    BY <1>2, <2>3, RetainedTypes DEF Replay, Finish, TypeOK, Bounded, Ids
<1>3. ASSUME NEW c \in Credentials, NEW q \in Requests, PutRedundant(c, q)
      PROVE  TypeInv'
  <2>1. q.id \in Ids /\ records[q.id].rev \in Nat
    BY <1>3, MaxRevisionFacts DEF PutRedundant, PutIsRedundant, Ids
  <2>2. answered' \subseteq [request : Requests, rev : Nat]
    BY <1>3, <2>1 DEF PutRedundant, Answer, TypeOK
  <2>3. receipts' \subseteq Receipt
    BY <1>3, <2>1, RetainedTypes DEF PutRedundant
  <2>4. QED
    BY <1>3, <2>2, <2>3, RetainedTypes DEF PutRedundant, Finish, TypeOK, Bounded, Ids
<1>4. ASSUME NEW c \in Credentials, NEW q \in Requests, Put(c, q)
      PROVE  TypeInv'
  <2> DEFINE m == MaxRevision
             C == Cascade(q)
             top == m + 1 + Cardinality(C)
  <2>1. m \in Nat /\ NextRevision = m + 1 /\ \A k \in Ids : records[k].rev <= m
    BY MaxRevisionFacts DEF NextRevision
  <2>2. Cardinality(C) \in Nat
    BY CascadeFacts
  <2>3. /\ records' \in [Ids -> Record]
        /\ records'[q.id].rev = m + 1
        /\ \A k \in C : records'[k].rev \in (m + 2)..top
        /\ \A k \in Ids : k \notin C /\ k # q.id => records'[k] = records[k]
    BY <1>4, PutEffect
  <2>4. \A k \in Ids : records[k].rev \in Nat
    BY MaxRevisionFacts
  <2> HIDE DEF m, C
  <2>5. top \in Nat /\ \A k \in Ids : records'[k].rev <= top
    BY <2>1, <2>2, <2>3, <2>4
  <2>6. Bounded'
    BY <2>5 DEF Bounded, Ids
  <2>7. m + 1 \in Nat
    BY <2>1
  <2>8. answered' \subseteq [request : Requests, rev : Nat]
    BY <1>4, <2>1, <2>7 DEF Put, Answer, TypeOK
  <2>9. receipts' \subseteq Receipt
    BY <1>4, <2>1, <2>7, RetainedTypes DEF Put
  <2>10. QED
    BY <1>4, <2>3, <2>6, <2>8, <2>9, RetainedTypes DEF Put, Finish, TypeOK, Ids
<1>5. ASSUME NEW c \in Credentials, NEW q \in Requests, StageRenew(c, q)
      PROVE  TypeInv'
  BY <1>5, StageRenewTypes DEF StageRenew, Finish, TypeOK, Bounded, Ids
<1>6. ASSUME NEW c \in Credentials, NEW q \in Requests, StageAdd(c, q)
      PROVE  TypeInv'
  BY <1>6, StageAddTypes DEF StageAdd, Finish, TypeOK, Bounded, Ids
<1>7. ASSUME NEW c \in Credentials, NEW q \in Requests, BundleDiscard(c, q)
      PROVE  TypeInv'
  BY <1>7, RetainedTypes DEF BundleDiscard, Finish, TypeOK, Bounded, Ids
<1>8. ASSUME NEW c \in Credentials, NEW q \in Requests, Bundle(c, q)
      PROVE  TypeInv'
  <2> DEFINE m == MaxRevision
             A == BundleIds(q)
             top == m + 1 + Cardinality(A)
  <2>1. m \in Nat /\ \A k \in Ids : records[k].rev <= m /\ records[k].rev \in Nat
    BY MaxRevisionFacts
  <2>2. /\ receipts' = WithReceipt(q, records'[q.id].rev, c)
        /\ Answer(q, records'[q.id].rev)
    BY <1>8 DEF Bundle
  <2>3. /\ records' \in [Ids -> Record]
        /\ Cardinality(A) \in Nat
        /\ records'[q.id].rev = top
        /\ \A k \in A : records'[k].rev \in (m + 1)..(m + Cardinality(A))
        /\ \A k \in Ids : k \notin A /\ k # q.id => records'[k] = records[k]
    BY <1>8, BundleEffect
  <2> HIDE DEF m, A
  <2>4. top \in Nat /\ \A k \in Ids : records'[k].rev <= top
    BY <2>1, <2>3
  <2>5. Bounded'
    BY <2>4 DEF Bounded, Ids
  <2>6. answered' \subseteq [request : Requests, rev : Nat]
    BY <2>2, <2>3, <2>4 DEF Answer, TypeOK
  <2>7. receipts' \subseteq Receipt
    BY <2>2, <2>3, <2>4, RetainedTypes
  <2>8. QED
    BY <1>8, <2>3, <2>5, <2>6, <2>7, RetainedTypes DEF Bundle, Finish, TypeOK, Ids
<1>9. ASSUME NEW c \in Credentials, NEW q \in Requests, Refuse(c, q)
      PROVE  TypeInv'
  BY <1>9 DEF Refuse, Finish, TypeOK, Bounded, Ids
<1>10. ASSUME NEW C \in SUBSET Credentials, Revoke(C)
       PROVE  TypeInv'
  BY <1>10 DEF Revoke, TypeOK, Bounded, Ids
<1>11. CASE Cleanup
  BY <1>11, RetainedTypes DEF Cleanup, TypeOK, Bounded, Ids
<1>12. CASE Restart
  BY <1>12, RetainedTypes DEF Restart, TypeOK, Bounded, Ids
<1>13. CASE Tick
  BY <1>13 DEF Tick, TypeOK, Bounded, Ids
<1>14. CASE UNCHANGED vars
  BY <1>14 DEF vars, TypeOK, Bounded, Ids
<1>15. QED
  BY <1>1, <1>2, <1>3, <1>4, <1>5, <1>6, <1>7, <1>8, <1>9, <1>10, <1>11, <1>12,
     <1>13, <1>14 DEF Next, Handle

LEMMA TypeInit == Init => TypeInv
<1> SUFFICES ASSUME Init PROVE TypeInv
  OBVIOUS
<1>1. TypeOK
  BY DEF Init, TypeOK, Record
<1>2. Bounded
  BY DEF Init, Bounded
<1>3. QED
  BY <1>1, <1>2 DEF TypeInv

LEMMA TypeInvariance == Spec => []TypeInv
<1>1. Init => TypeInv
  BY TypeInit
<1>2. TypeInv /\ [Next]_vars => TypeInv'
  BY TypeStep
<1>3. QED
  BY <1>1, <1>2, PTL DEF Spec

\* Every table row, receipt, stage and handler in flight is well formed, the
\* numbering of cascades and bundles included, for any number of ids.
THEOREM TypeCorrect == Spec => []TypeOK
<1>1. TypeInv => TypeOK
  BY DEF TypeInv
<1>2. QED
  BY <1>1, TypeInvariance, PTL

-----------------------------------------------------------------------------
(* Safety *)

\* Only two transactions write rows.
LEMMA RecordSteps ==
  ASSUME [Next]_vars
  PROVE  \/ UNCHANGED records
         \/ \E c \in Credentials, q \in Requests : Put(c, q) \/ Bundle(c, q)
<1>1. ASSUME NEW c \in Credentials, NEW q \in Requests, Begin(c, q)
      PROVE  UNCHANGED records
  BY <1>1 DEF Begin
<1>2. ASSUME NEW c \in Credentials, NEW q \in Requests, Handle(c, q)
      PROVE  UNCHANGED records \/ Put(c, q) \/ Bundle(c, q)
  <2>1. CASE Replay(c, q)
    BY <2>1 DEF Replay
  <2>2. CASE PutRedundant(c, q)
    BY <2>2 DEF PutRedundant
  <2>3. CASE StageRenew(c, q)
    BY <2>3 DEF StageRenew
  <2>4. CASE StageAdd(c, q)
    BY <2>4 DEF StageAdd
  <2>5. CASE BundleDiscard(c, q)
    BY <2>5 DEF BundleDiscard
  <2>6. CASE Refuse(c, q)
    BY <2>6 DEF Refuse
  <2>7. QED
    BY <1>2, <2>1, <2>2, <2>3, <2>4, <2>5, <2>6 DEF Handle
<1>3. ASSUME NEW C \in SUBSET Credentials, Revoke(C)
      PROVE  UNCHANGED records
  BY <1>3 DEF Revoke
<1>4. CASE Cleanup \/ Restart \/ Tick
  BY <1>4 DEF Cleanup, Restart, Tick
<1>5. CASE UNCHANGED vars
  BY <1>5 DEF vars
<1>6. QED
  BY <1>1, <1>2, <1>3, <1>4, <1>5 DEF Next

LEMMA UniqueStep ==
  ASSUME TypeInv, RevisionsUnique, [Next]_vars
  PROVE  RevisionsUnique'
<1> SUFFICES ASSUME NEW j \in Ids, NEW k \in Ids, Exists(j)',
                    records'[j].rev = records'[k].rev
             PROVE  j = k
  BY DEF RevisionsUnique, Ids
<1> DEFINE m == MaxRevision
<1>1. /\ m \in Nat
      /\ \A i \in Ids : records[i].rev \in Nat /\ records[i].rev <= m
  BY MaxRevisionFacts
<1>2. CASE UNCHANGED records
  BY <1>2 DEF RevisionsUnique, Exists
<1>3. ASSUME NEW c \in Credentials, NEW q \in Requests, Put(c, q)
      PROVE  j = k
  <2> DEFINE C == Cascade(q)
  <2>3. records'[q.id].rev = m + 1
    BY <1>3, PutEffect
  <2>4. /\ \A i \in C : records'[i].rev \in (m + 2)..(m + 1 + Cardinality(C))
        /\ \A h, i \in C : records'[h].rev = records'[i].rev => h = i
    BY <1>3, PutEffect
  <2>5. \A i \in Ids : i \notin C /\ i # q.id => records'[i] = records[i]
    BY <1>3, PutEffect
  <2>6. Cardinality(C) \in Nat
    BY CascadeFacts
  <2> HIDE DEF C, m
  <2>7. CASE j \in C \/ k \in C
    BY <2>7, <1>1, <2>3, <2>4, <2>5, <2>6
  <2>8. CASE j \notin C /\ k \notin C /\ (j = q.id \/ k = q.id)
    BY <2>8, <1>1, <2>3, <2>5
  <2>9. CASE j \notin C /\ k \notin C /\ j # q.id /\ k # q.id
    BY <2>9, <2>5 DEF RevisionsUnique, Exists
  <2>10. QED
    BY <2>7, <2>8, <2>9
<1>4. ASSUME NEW c \in Credentials, NEW q \in Requests, Bundle(c, q)
      PROVE  j = k
  <2> DEFINE A == BundleIds(q)
  <2>3. records'[q.id].rev = m + 1 + Cardinality(A)
    BY <1>4, BundleEffect
  <2>4. /\ \A i \in A : records'[i].rev \in (m + 1)..(m + Cardinality(A))
        /\ \A h, i \in A : records'[h].rev = records'[i].rev => h = i
        /\ Cardinality(A) \in Nat
    BY <1>4, BundleEffect
  <2>5. \A i \in Ids : i \notin A /\ i # q.id => records'[i] = records[i]
    BY <1>4, BundleEffect
  <2> HIDE DEF A, m
  <2>6. CASE j \in A \/ k \in A
    BY <2>6, <1>1, <2>3, <2>4, <2>5
  <2>7. CASE j \notin A /\ k \notin A /\ (j = q.id \/ k = q.id)
    BY <2>7, <1>1, <2>3, <2>4, <2>5
  <2>8. CASE j \notin A /\ k \notin A /\ j # q.id /\ k # q.id
    BY <2>8, <2>5 DEF RevisionsUnique, Exists
  <2>9. QED
    BY <2>6, <2>7, <2>8
<1>5. QED
  BY <1>2, <1>3, <1>4, RecordSteps

\* No two rows ever share a revision: the changes feed can page by revision.
THEOREM UniqueRevisions == Spec => []RevisionsUnique
<1>1. Init => RevisionsUnique
  BY DEF Init, RevisionsUnique, Exists
<1>2. TypeInv /\ RevisionsUnique /\ [Next]_vars => RevisionsUnique'
  BY UniqueStep
<1>3. QED
  BY <1>1, <1>2, TypeInvariance, PTL DEF Spec

LEMMA NotesStep ==
  ASSUME TypeInv, AttachmentsHaveNotes, [Next]_vars
  PROVE  AttachmentsHaveNotes'
<1> SUFFICES ASSUME NEW a \in Attachments, records'[a].rev > 0, ~records'[a].deleted
             PROVE  \E n \in Notes : /\ records'[a].note = n
                                     /\ records'[n].rev > 0 /\ ~records'[n].deleted
  BY DEF AttachmentsHaveNotes, Live, Exists
<1> DEFINE m == MaxRevision
<1>1. m \in Nat /\ a \in Ids
  BY MaxRevisionFacts DEF Ids
<1>2. ASSUME records'[a] = records[a]
      PROVE  \E n \in Notes : /\ records[a].note = n
                              /\ records[n].rev > 0 /\ ~records[n].deleted
  BY <1>2 DEF AttachmentsHaveNotes, Live, Exists
<1>3. CASE UNCHANGED records
  BY <1>2, <1>3
<1>4. ASSUME NEW c \in Credentials, NEW q \in Requests, Put(c, q)
      PROVE  \E n \in Notes : /\ records'[a].note = n
                              /\ records'[n].rev > 0 /\ ~records'[n].deleted
  <2> DEFINE C == Cascade(q)
  <2>1. PutIsAccepted(q)
    BY <1>4, PutEffect
  <2>3. records'[q.id].rev = m + 1 /\ records'[q.id].deleted = q.deleted
    BY <1>4, PutEffect
  <2>4. /\ \A i \in C : records'[i].deleted
        /\ \A i \in Ids : i \notin C /\ i # q.id => records'[i] = records[i]
    BY <1>4, PutEffect
  <2>5. a # q.id
    BY <2>1, <2>3 DEF PutIsAccepted
  <2>6. a \notin C
    BY <2>4
  <2>7. records'[a] = records[a]
    BY <1>1, <2>4, <2>5, <2>6
  <2>8. PICK n \in Notes : /\ records[a].note = n
                           /\ records[n].rev > 0 /\ ~records[n].deleted
    BY <1>2, <2>7
  <2>9. CASE n = q.id
    <3>1. ~q.deleted
      BY <2>6, <2>7, <2>8, <2>9 DEF Cascade, Live, Exists
    <3>2. QED
      BY <1>1, <2>3, <2>7, <2>8, <2>9, <3>1
  <2>10. CASE n # q.id
    <3>1. n \notin C /\ n \in Ids
      BY KeysAssumption, CascadeFacts DEF Ids
    <3>2. records'[n] = records[n]
      BY <2>4, <2>10, <3>1
    <3>3. QED
      BY <2>7, <2>8, <3>2
  <2>11. QED
    BY <2>9, <2>10
<1>5. ASSUME NEW c \in Credentials, NEW q \in Requests, Bundle(c, q)
      PROVE  \E n \in Notes : /\ records'[a].note = n
                              /\ records'[n].rev > 0 /\ ~records'[n].deleted
  <2> DEFINE A == BundleIds(q)
  <2>1. /\ A \in SUBSET Attachments /\ q.id \in Notes
        /\ \A i \in Ids : i \notin A /\ i # q.id => records'[i] = records[i]
    BY <1>5, BundleEffect
  <2>2. records'[q.id].rev = m + 1 + Cardinality(A) /\ Cardinality(A) \in Nat
    BY <1>5, BundleEffect
  <2>3. ~records'[q.id].deleted
    BY <1>5, BundleEffect
  <2>4. records'[q.id].rev > 0 /\ ~records'[q.id].deleted
    BY <1>1, <2>2, <2>3
  <2>5. a \in A => records'[a].note = q.id
    BY <1>5, BundleEffect
  <2>6. CASE a \in A
    BY <2>1, <2>4, <2>5, <2>6
  <2>7. CASE a \notin A
    <3>1. a # q.id
      BY <2>1, KeysAssumption
    <3>2. records'[a] = records[a]
      BY <1>1, <2>1, <2>7, <3>1
    <3>3. PICK n \in Notes : /\ records[a].note = n
                             /\ records[n].rev > 0 /\ ~records[n].deleted
      BY <1>2, <3>2
    <3>4. n \in Ids /\ n \notin A
      BY <2>1, KeysAssumption DEF Ids
    <3>5. n # q.id => records'[n] = records[n]
      BY <2>1, <3>4
    <3>6. QED
      BY <2>4, <3>2, <3>3, <3>5
  <2>8. QED
    BY <2>6, <2>7
<1>6. QED
  BY <1>3, <1>4, <1>5, RecordSteps

\* A live attachment always belongs to a live note.
THEOREM LiveAttachmentsHaveNotes == Spec => []AttachmentsHaveNotes
<1>1. Init => AttachmentsHaveNotes
  BY DEF Init, AttachmentsHaveNotes, Live, Exists, Ids
<1>2. TypeInv /\ AttachmentsHaveNotes /\ [Next]_vars => AttachmentsHaveNotes'
  BY NotesStep
<1>3. QED
  BY <1>1, <1>2, TypeInvariance, PTL DEF Spec

-----------------------------------------------------------------------------
(* What a step does to one row *)

\* No row goes back.
LEMMA RevisionsGrow ==
  ASSUME TypeInv, [Next]_vars, NEW k \in Ids
  PROVE  records'[k].rev \in Nat /\ records'[k].rev >= records[k].rev
<1> DEFINE m == MaxRevision
<1>1. m \in Nat /\ records[k].rev \in Nat /\ records[k].rev <= m
  BY MaxRevisionFacts
<1>2. CASE UNCHANGED records
  BY <1>1, <1>2
<1>3. ASSUME NEW c \in Credentials, NEW q \in Requests, Put(c, q)
      PROVE  records'[k].rev \in Nat /\ records'[k].rev >= records[k].rev
  <2> DEFINE C == Cascade(q)
  <2>1. /\ records'[q.id].rev = m + 1
        /\ \A i \in C : records'[i].rev \in (m + 2)..(m + 1 + Cardinality(C))
        /\ \A i \in Ids : i \notin C /\ i # q.id => records'[i] = records[i]
    BY <1>3, PutEffect
  <2>2. Cardinality(C) \in Nat
    BY CascadeFacts
  <2> HIDE DEF C, m
  <2> QED
    BY <1>1, <2>1, <2>2
<1>4. ASSUME NEW c \in Credentials, NEW q \in Requests, Bundle(c, q)
      PROVE  records'[k].rev \in Nat /\ records'[k].rev >= records[k].rev
  <2> DEFINE A == BundleIds(q)
  <2>1. /\ records'[q.id].rev = m + 1 + Cardinality(A) /\ Cardinality(A) \in Nat
        /\ \A i \in A : records'[i].rev \in (m + 1)..(m + Cardinality(A))
        /\ \A i \in Ids : i \notin A /\ i # q.id => records'[i] = records[i]
    BY <1>4, BundleEffect
  <2> HIDE DEF A, m
  <2> QED
    BY <1>1, <2>1
<1> QED
  BY <1>2, <1>3, <1>4, RecordSteps

\* An attachment's row changes once, into a tombstone of the same note that is
\* newer than every row there was.
LEMMA AttachmentsFinal ==
  ASSUME TypeInv, [Next]_vars, NEW a \in Attachments, Exists(a)
  PROVE  \/ records'[a] = records[a]
         \/ /\ ~records[a].deleted /\ records'[a].deleted
            /\ records'[a].note = records[a].note
            /\ records'[a].rev > MaxRevision
<1> DEFINE m == MaxRevision
<1>1. a \in Ids /\ m \in Nat
  BY MaxRevisionFacts DEF Ids
<1>2. ASSUME NEW c \in Credentials, NEW q \in Requests, Put(c, q)
      PROVE  \/ records'[a] = records[a]
             \/ /\ ~records[a].deleted /\ records'[a].deleted
                /\ records'[a].note = records[a].note /\ records'[a].rev > m
  <2> DEFINE C == Cascade(q)
  <2>1. /\ records' = PutRecords(q) /\ q.op = "put" /\ PutIsAccepted(q)
    BY <1>2 DEF Put
  <2>2. /\ records'[q.id] = [rev |-> m + 1, deleted |-> q.deleted, note |-> q.note,
                             envelope |-> q.envelope]
        /\ \A i \in C : /\ records'[i].rev \in (m + 2)..(m + 1 + Cardinality(C))
                        /\ records'[i].deleted /\ records'[i].note = records[i].note
        /\ \A i \in Ids : i \notin C /\ i # q.id => records'[i] = records[i]
    BY <2>1, PutRows
  <2>3. Cardinality(C) \in Nat /\ \A i \in C : Live(i)
    BY CascadeFacts
  <2> HIDE DEF C, m
  <2>4. CASE a = q.id
    <3>1. q.deleted /\ Live(a) /\ records[a].note = q.note
      BY <2>1, <2>4 DEF PutIsAccepted
    <3> QED
      BY <1>1, <2>2, <2>4, <3>1 DEF Live
  <2>5. CASE a \in C
    <3>1. records'[a].rev > m
      BY <1>1, <2>2, <2>3, <2>5
    <3> QED
      BY <2>2, <2>3, <2>5, <3>1 DEF Live
  <2> QED
    BY <1>1, <2>2, <2>4, <2>5
<1>3. ASSUME NEW c \in Credentials, NEW q \in Requests, Bundle(c, q)
      PROVE  records'[a] = records[a]
  <2>1. /\ BundleIsAccepted(c, q) /\ q.id \in Notes
        /\ \A i \in Ids : i \notin BundleIds(q) /\ i # q.id => records'[i] = records[i]
    BY <1>3, BundleEffect
  <2>2. a \notin BundleIds(q)
    BY <2>1 DEF BundleIsAccepted
  <2>3. a # q.id
    BY <2>1, KeysAssumption
  <2> QED
    BY <1>1, <2>1, <2>2, <2>3
<1> QED
  BY <1>2, <1>3, RecordSteps

\* The rows of a bundle: its attachments as its manifest lists them, numbered
\* just below the note.
LEMMA BundleWritesWhole ==
  ASSUME TypeInv, NEW c \in Credentials, NEW q \in Requests, Bundle(c, q)
  PROVE  LET ids == BundleIds(q)
             rev == records'[q.id].rev
         IN  /\ rev = MaxRevision + 1 + Cardinality(ids) /\ Cardinality(ids) \in Nat
             /\ \A m \in q.attachments :
                  /\ m.id \in Attachments
                  /\ records'[m.id].note = q.id /\ ~records'[m.id].deleted
                  /\ records'[m.id].envelope = m.envelope
                  /\ records'[m.id].rev = rev - Cardinality(ids) + Rank(m.id, ids) - 1
                  /\ records'[m.id].rev > 0
<1> DEFINE ids == BundleIds(q)
           staged == BundleOf(FreshStages, c, q.mutation)
           top == MaxRevision
           R == BundleRecords(c, q)
<1>1. /\ records' = R /\ q.op = "bundle" /\ BundleIsAccepted(c, q)
      /\ BundleIsStaged(c, q)
  BY DEF Bundle, BundleIsAccepted
<1>2. {s.id : s \in staged} = ids
  BY <1>1, StagedIds
<1>3. {[id |-> s.id, envelope |-> s.envelope] : s \in staged} = q.attachments
  BY <1>1 DEF BundleIsStaged
<1>4. /\ records'[q.id].rev = top + 1 + Cardinality(ids) /\ Cardinality(ids) \in Nat
      /\ ids \in SUBSET Attachments /\ q.id \in Notes
  BY BundleEffect
<1>5. top \in Nat
  BY MaxRevisionFacts
<1>6. ASSUME NEW m \in q.attachments
      PROVE  /\ m.id \in Attachments
             /\ records'[m.id].note = q.id /\ ~records'[m.id].deleted
             /\ records'[m.id].envelope = m.envelope
             /\ records'[m.id].rev = top + Rank(m.id, ids)
             /\ Rank(m.id, ids) \in Nat /\ Rank(m.id, ids) > 0
  <2> DEFINE held == CHOOSE s \in staged : s.id = m.id
  <2>1. m.id \in ids
    BY DEF BundleIds
  <2>2. m.id \in Attachments /\ m.id \in Ids /\ m.id # q.id
    BY <1>4, <2>1, KeysAssumption DEF Ids
  <2>3. R[m.id] = [rev |-> top + Rank(m.id, ids), deleted |-> FALSE,
                   note |-> q.id, envelope |-> held.envelope]
    BY <1>2, <2>1, <2>2 DEF BundleRecords
  <2>4. held \in staged /\ held.id = m.id
    BY <1>2, <2>1
  <2>5. [id |-> held.id, envelope |-> held.envelope] \in q.attachments
    BY <1>3, <2>4
  <2>6. \A x, y \in q.attachments : x.id = y.id => x = y
    BY <1>1, RequestsAssumption DEF WellFormed
  <2> HIDE DEF held
  <2>7. held.envelope = m.envelope
    BY <2>4, <2>5, <2>6
  <2>8. ids \in SUBSET Nat /\ IsFiniteSet(ids)
    BY <1>4, KeysAssumption, FS_Subset
  <2>9. Rank(m.id, ids) \in 1..Cardinality(ids)
    BY <2>1, <2>8, RankFacts
  <2>10. Rank(m.id, ids) \in Nat /\ Rank(m.id, ids) > 0
    BY <1>4, <2>9
  <2> HIDE DEF R
  <2>11. /\ R[m.id].rev = top + Rank(m.id, ids) /\ ~R[m.id].deleted
         /\ R[m.id].note = q.id /\ R[m.id].envelope = held.envelope
    BY <2>3
  <2> QED
    BY <1>1, <2>2, <2>7, <2>10, <2>11
<1> HIDE DEF ids, top, R
<1>7. ASSUME NEW m \in q.attachments
      PROVE  /\ records'[m.id].rev
                  = records'[q.id].rev - Cardinality(ids) + Rank(m.id, ids) - 1
             /\ records'[m.id].rev > 0
  <2>1. /\ records'[m.id].rev = top + Rank(m.id, ids)
        /\ Rank(m.id, ids) \in Nat /\ Rank(m.id, ids) > 0
    BY <1>6
  <2> QED
    BY <2>1, <1>4, <1>5
<1> QED
  BY <1>4, <1>6, <1>7 DEF ids, top

-----------------------------------------------------------------------------
(* One answer *)

\* A receipt repeats an answer that was given.
ReceiptsAnswer ==
  \A r \in receipts : [request |-> r.request, rev |-> r.rev] \in answered

\* What tells a request that was answered from one that was not, once its
\* receipt is gone: the tombstone of an attachment, a row newer than the base.
Settled ==
  \A x \in answered :
    /\ x.request.op # "stage"
    /\ x.request.id \in Attachments =>
         /\ Exists(x.request.id) /\ records[x.request.id].deleted
         /\ records[x.request.id].rev = x.rev
    /\ x.request.id \in Notes =>
         x.rev > x.request.base /\ records[x.request.id].rev >= x.rev

\* A transaction that answers for the first time.
Answers(c, q, rev) ==
  /\ answered' = answered \cup {[request |-> q, rev |-> rev]}
  /\ \/ Put(c, q) /\ rev = MaxRevision + 1
     \/ PutRedundant(c, q) /\ rev = records[q.id].rev
     \/ Bundle(c, q) /\ rev = records'[q.id].rev

\* Repeating an answer from its receipt adds none.
LEMMA AnswerSteps ==
  ASSUME TypeInv, ReceiptsAnswer, [Next]_vars
  PROVE  \/ answered' = answered
         \/ \E c \in Credentials, q \in Requests, rev \in Nat : Answers(c, q, rev)
<1>1. ASSUME NEW c \in Credentials, NEW q \in Requests, Replay(c, q)
      PROVE  answered' = answered
  <2>1. PICK r \in Repeats(c, q) : Answer(q, r.rev)
    BY <1>1 DEF Replay
  <2>2. [request |-> q, rev |-> r.rev] \in answered
    BY DEF Repeats, Prior, ReceiptsAnswer
  <2> QED
    BY <2>1, <2>2 DEF Answer
<1>2. ASSUME NEW c \in Credentials, NEW q \in Requests, Put(c, q)
      PROVE  Answers(c, q, MaxRevision + 1) /\ MaxRevision + 1 \in Nat
  BY <1>2, MaxRevisionFacts DEF Put, Answer, Answers, NextRevision
<1>3. ASSUME NEW c \in Credentials, NEW q \in Requests, PutRedundant(c, q)
      PROVE  Answers(c, q, records[q.id].rev) /\ records[q.id].rev \in Nat
  <2>1. q.id \in Ids
    BY <1>3 DEF PutRedundant, PutIsRedundant, Ids
  <2> QED
    BY <1>3, <2>1, MaxRevisionFacts DEF PutRedundant, Answer, Answers
<1>4. ASSUME NEW c \in Credentials, NEW q \in Requests, Bundle(c, q)
      PROVE  Answers(c, q, records'[q.id].rev) /\ records'[q.id].rev \in Nat
  <2>1. records'[q.id].rev \in Nat
    <3>1. q.id \in Notes /\ records' \in [Ids -> Record]
      BY <1>4, BundleEffect
    <3> QED
      BY <3>1 DEF Ids, Record
  <2> QED
    BY <1>4, <2>1 DEF Bundle, Answer, Answers
<1>5. ASSUME NEW c \in Credentials, NEW q \in Requests,
             \/ Begin(c, q) \/ StageRenew(c, q) \/ StageAdd(c, q)
             \/ BundleDiscard(c, q) \/ Refuse(c, q)
      PROVE  answered' = answered
  BY <1>5 DEF Begin, StageRenew, StageAdd, BundleDiscard, Refuse
<1>6. ASSUME \/ \E C \in SUBSET Credentials : Revoke(C)
             \/ Cleanup \/ Restart \/ Tick \/ UNCHANGED vars
      PROVE  answered' = answered
  BY <1>6 DEF Revoke, Cleanup, Restart, Tick, vars
<1> QED
  BY <1>1, <1>2, <1>3, <1>4, <1>5, <1>6 DEF Next, Handle

LEMMA AnsweredGrows ==
  ASSUME TypeInv, ReceiptsAnswer, [Next]_vars
  PROVE  answered \subseteq answered'
BY AnswerSteps DEF Answers

\* Receipts are written with the answer they repeat.
LEMMA ReceiptsAnswerStep ==
  ASSUME TypeInv, ReceiptsAnswer, [Next]_vars
  PROVE  ReceiptsAnswer'
<1>1. \A n : Pruned(n) \subseteq receipts
  BY RetainedTypes DEF TypeInv
<1>2. ASSUME NEW q, NEW rev, NEW owner, receipts' = WithReceipt(q, rev, owner),
             Answer(q, rev)
      PROVE  ReceiptsAnswer'
  <2> DEFINE new == [request |-> q, rev |-> rev, owner |-> owner, created |-> now]
  <2>1. Pruned(1) \subseteq receipts
    BY <1>1
  <2>2. receipts' = Pruned(1) \cup {new}
    BY <1>2 DEF WithReceipt
  <2>3. new.request = q /\ new.rev = rev
    OBVIOUS
  <2> HIDE DEF new
  <2> QED
    BY <1>2, <2>1, <2>2, <2>3 DEF Answer, ReceiptsAnswer
<1>3. ASSUME receipts' \subseteq receipts, answered \subseteq answered'
      PROVE  ReceiptsAnswer'
  BY <1>3 DEF ReceiptsAnswer
<1>4. ASSUME NEW c \in Credentials, NEW q \in Requests, Handle(c, q)
      PROVE  ReceiptsAnswer'
  <2>1. CASE Put(c, q)
    BY <1>2, <2>1 DEF Put
  <2>2. CASE PutRedundant(c, q)
    BY <1>2, <2>2 DEF PutRedundant
  <2>3. CASE Bundle(c, q)
    <3>1. /\ receipts' = WithReceipt(q, BundleRecords(c, q)[q.id].rev, c)
          /\ Answer(q, BundleRecords(c, q)[q.id].rev)
      BY <2>3 DEF Bundle
    <3> QED
      BY <1>2, <3>1
  <2>4. CASE Replay(c, q)
    BY <1>3, <2>4 DEF Replay, Answer
  <2>5. CASE \/ StageRenew(c, q) \/ StageAdd(c, q) \/ BundleDiscard(c, q)
             \/ Refuse(c, q)
    BY <1>3, <2>5 DEF StageRenew, StageAdd, BundleDiscard, Refuse
  <2> QED
    BY <1>4, <2>1, <2>2, <2>3, <2>4, <2>5 DEF Handle
<1>5. ASSUME \/ \E c \in Credentials, q \in Requests : Begin(c, q)
             \/ \E C \in SUBSET Credentials : Revoke(C)
             \/ Cleanup \/ Restart \/ Tick \/ UNCHANGED vars
      PROVE  ReceiptsAnswer'
  BY <1>1, <1>3, <1>5 DEF Begin, Revoke, Cleanup, Restart, Tick, vars
<1> QED
  BY <1>4, <1>5 DEF Next

\* An answered request is not carried out a second time; a redundant deletion
\* is answered as the deletion was.
LEMMA NotTwice ==
  ASSUME TypeInv, Settled, NEW c \in Credentials, NEW q \in Requests, NEW rev \in Nat,
         Answers(c, q, rev), NEW x \in answered, x.request = q
  PROVE  x.rev = rev
<1>1. CASE Put(c, q)
  <2>1. /\ q.op = "put" /\ q.base = records[q.id].rev
        /\ q.id \in Attachments /\ Exists(q.id) => Live(q.id)
    BY <1>1 DEF Put, PutIsAccepted
  <2>2. q.id \in Notes \cup Attachments /\ q.base \in Int
    BY <2>1, RequestKinds DEF PutRequest, Ids, NoBase
  <2>3. q.id \notin Attachments
    BY <2>1 DEF Settled, Live
  <2>4. records[q.id].rev \in Nat /\ x.rev \in Nat
    BY <2>2, MaxRevisionFacts DEF Ids, TypeInv, TypeOK
  <2>5. x.rev > q.base /\ records[q.id].rev >= x.rev
    BY <2>2, <2>3 DEF Settled
  <2> QED
    BY <2>1, <2>2, <2>4, <2>5
<1>2. CASE PutRedundant(c, q) /\ rev = records[q.id].rev
  BY <1>2 DEF PutRedundant, PutIsRedundant, Settled
<1>3. CASE Bundle(c, q)
  <2>1. q.base = records[q.id].rev /\ q.op = "bundle"
    BY <1>3 DEF Bundle, BundleIsAccepted, BundleIsStaged
  <2>2. q.id \in Notes /\ q.base \in Int
    BY <2>1, RequestKinds DEF BundleRequest
  <2>3. records[q.id].rev \in Nat /\ x.rev \in Nat
    BY <2>2, MaxRevisionFacts DEF Ids, TypeInv, TypeOK
  <2>4. x.rev > q.base /\ records[q.id].rev >= x.rev
    BY <2>2 DEF Settled
  <2> QED
    BY <2>1, <2>2, <2>3, <2>4
<1> QED
  BY <1>1, <1>2, <1>3 DEF Answers

\* What an answer left behind stays: tombstones are final, revisions grow.
LEMMA SettledStep ==
  ASSUME TypeInv, Settled, ReceiptsAnswer, [Next]_vars
  PROVE  Settled'
<1> DEFINE Left(x) ==
      /\ x.request.op # "stage"
      /\ x.request.id \in Attachments =>
           /\ records'[x.request.id].rev > 0 /\ records'[x.request.id].deleted
           /\ records'[x.request.id].rev = x.rev
      /\ x.request.id \in Notes =>
           x.rev > x.request.base /\ records'[x.request.id].rev >= x.rev
<1>1. ASSUME NEW x \in answered PROVE Left(x)
  <2>1. CASE x.request.id \in Attachments
    <3>1. Exists(x.request.id) /\ records[x.request.id].deleted
      BY <2>1 DEF Settled
    <3>2. records'[x.request.id] = records[x.request.id]
      BY <2>1, <3>1, AttachmentsFinal
    <3> QED
      BY <2>1, <3>1, <3>2, KeysAssumption DEF Settled, Exists
  <2>2. CASE x.request.id \in Notes
    <3>1. x.request.id \in Ids /\ x.rev \in Nat
      BY <2>2 DEF Ids, TypeInv, TypeOK
    <3>2. /\ records'[x.request.id].rev >= records[x.request.id].rev
          /\ records'[x.request.id].rev \in Nat /\ records[x.request.id].rev \in Nat
      BY <3>1, RevisionsGrow, MaxRevisionFacts
    <3>3. x.rev > x.request.base /\ records[x.request.id].rev >= x.rev
          /\ x.request.op # "stage"
      BY <2>2 DEF Settled
    <3>4. records'[x.request.id].rev >= x.rev
      BY <3>1, <3>2, <3>3
    <3> QED
      BY <2>2, <3>3, <3>4, KeysAssumption
  <2> QED
    BY <2>1, <2>2 DEF Settled
<1>2. ASSUME NEW c \in Credentials, NEW q \in Requests, NEW rev \in Nat,
             Answers(c, q, rev)
      PROVE  Left([request |-> q, rev |-> rev])
  <2>1. /\ MaxRevision \in Nat
        /\ \A k \in Ids : records[k].rev \in Nat /\ records[k].rev <= MaxRevision
    BY MaxRevisionFacts
  <2>2. CASE Put(c, q) /\ rev = MaxRevision + 1
    <3>1. q.op = "put" /\ PutIsAccepted(q)
      BY <2>2 DEF Put
    <3>2. /\ q.id \in Ids /\ q.base = records[q.id].rev
          /\ q.id \in Attachments => q.deleted
      BY <3>1, RequestKinds DEF PutIsAccepted, PutRequest
    <3>3. records'[q.id].rev = MaxRevision + 1 /\ records'[q.id].deleted = q.deleted
      BY <2>2, PutEffect
    <3>4. MaxRevision + 1 > 0 /\ MaxRevision + 1 > q.base
          /\ MaxRevision + 1 >= MaxRevision + 1
      BY <2>1, <3>2
    <3> QED
      BY <2>2, <3>1, <3>2, <3>3, <3>4
  <2>3. CASE PutRedundant(c, q) /\ rev = records[q.id].rev
    <3>1. /\ q.op = "put" /\ q.id \in Attachments /\ Exists(q.id)
          /\ records[q.id].deleted /\ records' = records
      BY <2>3 DEF PutRedundant, PutIsRedundant
    <3> QED
      BY <2>3, <3>1, KeysAssumption DEF Exists
  <2>4. CASE Bundle(c, q) /\ rev = records'[q.id].rev
    <3>1. /\ q.op = "bundle" /\ q.id \in Notes /\ q.id \in Ids
          /\ q.base = records[q.id].rev
      BY <2>4, BundleEffect DEF Bundle, BundleIsAccepted, BundleIsStaged, Ids
    <3>2. /\ records'[q.id].rev = MaxRevision + 1 + Cardinality(BundleIds(q))
          /\ Cardinality(BundleIds(q)) \in Nat
      BY <2>4, BundleEffect
    <3>3. records'[q.id].rev > q.base /\ records'[q.id].rev >= records'[q.id].rev
      BY <2>1, <3>1, <3>2
    <3> QED
      BY <2>4, <3>1, <3>3, KeysAssumption
  <2> QED
    BY <1>2, <2>2, <2>3, <2>4 DEF Answers
<1>3. ASSUME NEW x \in answered' PROVE Left(x)
  BY <1>1, <1>2, AnswerSteps DEF Answers
<1> QED
  BY <1>3 DEF Settled, Exists

LEMMA OneAnswerStep ==
  ASSUME TypeInv, Settled, ReceiptsAnswer, OneAnswer, [Next]_vars
  PROVE  OneAnswer'
<1>1. CASE answered' = answered
  BY <1>1 DEF OneAnswer
<1>2. ASSUME NEW c \in Credentials, NEW q \in Requests, NEW rev \in Nat,
             Answers(c, q, rev)
      PROVE  OneAnswer'
  <2>1. \A x \in answered : x.request = q => x.rev = rev
    BY <1>2, NotTwice
  <2> QED
    BY <1>2, <2>1 DEF Answers, OneAnswer
<1> QED
  BY <1>1, <1>2, AnswerSteps

AnswerInv == TypeInv /\ Settled /\ ReceiptsAnswer

LEMMA AnswerInvariance == Spec => []AnswerInv
<1>1. Init => AnswerInv
  <2>1. Init => TypeInv
    BY TypeInit
  <2> QED
    BY <2>1 DEF Init, AnswerInv, Settled, ReceiptsAnswer
<1>2. AnswerInv /\ [Next]_vars => AnswerInv'
  BY TypeStep, SettledStep, ReceiptsAnswerStep DEF AnswerInv
<1> QED
  BY <1>1, <1>2, PTL DEF Spec

\* A request is answered with one revision however often it is sent, by
\* whichever credential, and however long ago its receipt was pruned.
THEOREM AnswersAreStable == Spec => []OneAnswer
<1>1. Init => OneAnswer
  BY DEF Init, OneAnswer
<1>2. AnswerInv /\ OneAnswer /\ [Next]_vars => OneAnswer'
  BY OneAnswerStep DEF AnswerInv
<1> QED
  BY <1>1, <1>2, AnswerInvariance, PTL DEF Spec

-----------------------------------------------------------------------------
(* Bundles are stored whole *)

\* The row of one attachment of an answered bundle: as the bundle wrote it, or
\* a newer tombstone.
AttachmentKept(q, rev, m) ==
  LET row == records[m.id]
      ids == BundleIds(q)
  IN  /\ row.note = q.id
      /\ \/ row.rev > rev /\ row.deleted
         \/ /\ row.rev = rev - Cardinality(ids) + Rank(m.id, ids) - 1
            /\ row.envelope = m.envelope /\ ~row.deleted

\* Rows are never removed, so a bundle's attachments can only be tombstoned.
BundlesKept ==
  \A x \in answered : x.request.op = "bundle" =>
    \A m \in x.request.attachments :
      Exists(m.id) /\ AttachmentKept(x.request, x.rev, m)

LEMMA BundlesKeptStep ==
  ASSUME AnswerInv, BundlesKept, [Next]_vars
  PROVE  BundlesKept'
<1> USE DEF AnswerInv
<1>1. ASSUME NEW x \in answered, x.request.op = "bundle",
             NEW m \in x.request.attachments
      PROVE  (Exists(m.id) /\ AttachmentKept(x.request, x.rev, m))'
  <2> DEFINE q == x.request
             top == MaxRevision
  <2>1. q \in BundleRequest /\ x.rev \in Nat
    <3>1. q \in Requests /\ x.rev \in Nat
      BY DEF TypeInv, TypeOK
    <3> QED
      BY <1>1, <3>1, RequestKinds
  <2>2. m.id \in Attachments /\ q.id \in Notes
    BY <2>1 DEF BundleRequest, Manifest
  <2>3. Exists(m.id) /\ AttachmentKept(q, x.rev, m)
    BY <1>1 DEF BundlesKept
  <2>4. /\ top \in Nat /\ records[q.id].rev <= top /\ records[q.id].rev \in Nat
        /\ records[m.id].rev \in Nat /\ records[m.id].rev <= top
    BY <2>2, MaxRevisionFacts DEF Ids
  <2>5. records[q.id].rev >= x.rev
    BY <1>1, <2>2 DEF Settled
  <2>6. CASE records'[m.id] = records[m.id]
    BY <2>3, <2>6 DEF Exists, AttachmentKept
  <2>7. CASE /\ records'[m.id].deleted /\ records'[m.id].note = records[m.id].note
             /\ records'[m.id].rev > top
    <3>1. records'[m.id].rev \in Nat
      BY <2>2, RevisionsGrow DEF Ids
    <3>2. records'[m.id].note = q.id
      BY <2>3, <2>7 DEF AttachmentKept
    <3> HIDE DEF top
    <3>3. records'[m.id].rev > x.rev /\ records'[m.id].rev > 0
      BY <2>1, <2>4, <2>5, <2>7, <3>1
    <3> QED
      BY <2>7, <3>2, <3>3 DEF Exists, AttachmentKept
  <2> QED
    BY <2>2, <2>3, <2>6, <2>7, AttachmentsFinal
<1>2. ASSUME NEW c \in Credentials, NEW q \in Requests, NEW rev \in Nat,
             Answers(c, q, rev), q.op = "bundle", NEW m \in q.attachments
      PROVE  (Exists(m.id) /\ AttachmentKept(q, rev, m))'
  <2>1. Bundle(c, q) /\ rev = records'[q.id].rev
    BY <1>2 DEF Answers, Put, PutRedundant
  <2>2. /\ records'[m.id].note = q.id /\ ~records'[m.id].deleted
        /\ records'[m.id].envelope = m.envelope
        /\ records'[m.id].rev =
             rev - Cardinality(BundleIds(q)) + Rank(m.id, BundleIds(q)) - 1
        /\ records'[m.id].rev > 0
    BY <2>1, BundleWritesWhole
  <2> QED
    BY <2>2 DEF Exists, AttachmentKept
<1>3. ASSUME NEW x \in answered', x.request.op = "bundle",
             NEW m \in x.request.attachments
      PROVE  (Exists(m.id) /\ AttachmentKept(x.request, x.rev, m))'
  <2>1. CASE x \in answered
    BY <1>1, <1>3, <2>1
  <2>2. CASE x \notin answered
    <3>1. PICK c \in Credentials, q \in Requests, rev \in Nat : Answers(c, q, rev)
      BY <2>2, AnswerSteps
    <3>2. x = [request |-> q, rev |-> rev]
      BY <2>2, <3>1 DEF Answers
    <3>3. x.request = q /\ x.rev = rev
      BY <3>2
    <3> QED
      BY <1>2, <1>3, <3>1, <3>3
  <2> QED
    BY <2>1, <2>2
<1> QED
  BY <1>3 DEF BundlesKept

LEMMA KeptIsWhole ==
  ASSUME AnswerInv, BundlesKept
  PROVE  BundlesWhole
<1> SUFFICES ASSUME NEW x \in answered, x.request.op = "bundle"
             PROVE  /\ records[x.request.id].rev >= x.rev
                    /\ \A m \in x.request.attachments :
                         AttachmentKept(x.request, x.rev, m)
  BY DEF BundlesWhole, AttachmentKept
<1>1. x.request.id \in Notes
  BY RequestKinds DEF AnswerInv, TypeInv, TypeOK, BundleRequest
<1> QED
  BY <1>1 DEF AnswerInv, Settled, BundlesKept

\* A bundle that was answered is stored whole, at the revisions its answer
\* implies, until its attachments are deleted.
THEOREM BundlesAreWhole == Spec => []BundlesWhole
<1>1. Init => BundlesKept
  BY DEF Init, BundlesKept
<1>2. AnswerInv /\ BundlesKept /\ [Next]_vars => BundlesKept'
  BY BundlesKeptStep
<1>3. AnswerInv /\ BundlesKept => BundlesWhole
  BY KeptIsWhole
<1> QED
  BY <1>1, <1>2, <1>3, AnswerInvariance, PTL DEF Spec

-----------------------------------------------------------------------------
(* Writers *)

LEMMA AuthorizedStep ==
  ASSUME TypeInv, [Next]_vars, records' # records \/ answered' # answered
  PROVE  \E h \in inflight \ inflight' : h[1] \in live \ ReadOnly
<1>1. ASSUME NEW c \in Credentials, NEW q \in Requests,
             Authorized(c, q), Finish(c, q)
      PROVE  \E h \in inflight \ inflight' : h[1] \in live \ ReadOnly
  <2>1. <<c, q>> \in inflight /\ c \in live /\ inflight' = inflight \ {<<c, q>>}
    BY <1>1 DEF Authorized, Finish
  <2>2. <<c, q>> \in (Credentials \ ReadOnly) \X Requests
    BY <2>1 DEF TypeInv, TypeOK
  <2>3. <<c, q>> \in inflight \ inflight' /\ <<c, q>>[1] \in live \ ReadOnly
    BY <2>1, <2>2
  <2> QED
    BY <2>3
<1>2. ASSUME NEW c \in Credentials, NEW q \in Requests,
             Replay(c, q) \/ PutRedundant(c, q) \/ Put(c, q) \/ Bundle(c, q)
      PROVE  Authorized(c, q) /\ Finish(c, q)
  BY <1>2 DEF Replay, PutRedundant, Put, Bundle
<1>3. ASSUME NEW c \in Credentials, NEW q \in Requests,
             \/ Begin(c, q) \/ StageRenew(c, q) \/ StageAdd(c, q)
             \/ BundleDiscard(c, q) \/ Refuse(c, q)
      PROVE  FALSE
  BY <1>3 DEF Begin, StageRenew, StageAdd, BundleDiscard, Refuse
<1>4. ASSUME \/ \E C \in SUBSET Credentials : Revoke(C)
             \/ Cleanup \/ Restart \/ Tick \/ UNCHANGED vars
      PROVE  FALSE
  BY <1>4 DEF Revoke, Cleanup, Restart, Tick, vars
<1> QED
  BY <1>1, <1>2, <1>3, <1>4 DEF Next, Handle

\* Whatever is revoked while bodies are awaited, rows change and answers are
\* given only for a credential that may write at that moment.
THEOREM OnlyWritersWrite == Spec => WritersAreAuthorized
<1> DEFINE A == records' # records \/ answered' # answered =>
                  \E h \in inflight \ inflight' : h[1] \in live \ ReadOnly
<1>1. TypeInv /\ [Next]_vars => [A]_vars
  BY AuthorizedStep
<1> QED
  BY <1>1, TypeInvariance, PTL DEF Spec, WritersAreAuthorized

-----------------------------------------------------------------------------
(* Stages *)

\* No stage is from the future: what bounds a bundle's expiry by the creation
\* of each of its stages when the next is added.
StagesAged == \A s \in stages : s.created <= now

StagesInv == StagesAgree /\ StagesAged

\* A subset of the stages, now or later, agrees as they do.
LEMMA FewerStages ==
  ASSUME StagesInv, stages' \subseteq stages, now \in Nat, now' \in Nat, now' >= now,
         stages \subseteq Stage
  PROVE  StagesInv'
<1>1. ASSUME NEW s \in stages' PROVE s.created <= now'
  <2>1. s.created \in Nat /\ s.created <= now
    BY DEF StagesInv, StagesAged, Stage
  <2> QED
    BY <2>1
<1> QED
  BY <1>1 DEF StagesInv, StagesAged, StagesAgree

\* A refreshed stage is one there was, with the new expiry in its bundle.
LEMMA RefreshedStages ==
  ASSUME TypeOK, NEW c, NEW m, NEW expiry \in Nat,
         NEW s \in Refreshed(FreshStages, c, m, expiry)
  PROVE  \E t \in FreshStages :
           /\ s.id = t.id /\ s.bundle = t.bundle /\ s.owner = t.owner
           /\ s.created = t.created
           /\ s.expires = IF t.bundle = m /\ t.owner = c THEN expiry ELSE t.expires
           /\ s = IF t.bundle = m /\ t.owner = c THEN [t EXCEPT !.expires = expiry] ELSE t
<1>1. PICK t \in FreshStages :
        s = IF t \in BundleOf(FreshStages, c, m)
            THEN [t EXCEPT !.expires = expiry] ELSE t
  BY DEF Refreshed
<1>2. t \in Stage
  BY DEF FreshStages, TypeOK
<1>3. t \in BundleOf(FreshStages, c, m) <=> t.bundle = m /\ t.owner = c
  BY DEF BundleOf
<1> QED
  BY <1>1, <1>2, <1>3 DEF Stage

\* Giving a bundle one expiry within its lifetime keeps the stages agreed.
LEMMA RefreshedAgree ==
  ASSUME TypeOK, StagesInv, NEW c, NEW m, NEW expiry \in Nat,
         \A t \in BundleOf(FreshStages, c, m) : expiry <= t.created + BundleLife
  PROVE  LET S == Refreshed(FreshStages, c, m, expiry)
         IN  /\ \A s, t \in S :
                  /\ s.id = t.id => s = t
                  /\ s.bundle = t.bundle /\ s.owner = t.owner =>
                       s.expires = t.expires /\ s.expires <= t.created + BundleLife
             /\ \A s \in S : /\ s.created <= now
                             /\ s.bundle = m /\ s.owner = c => s.expires = expiry
                             /\ \E t \in FreshStages : s.id = t.id
<1> DEFINE S == Refreshed(FreshStages, c, m, expiry)
<1>1. ASSUME NEW s \in S, NEW t \in S
      PROVE  /\ s.id = t.id => s = t
             /\ s.bundle = t.bundle /\ s.owner = t.owner =>
                  s.expires = t.expires /\ s.expires <= t.created + BundleLife
  <2>1. PICK u \in FreshStages :
           /\ s.id = u.id /\ s.bundle = u.bundle /\ s.owner = u.owner
           /\ s.created = u.created
           /\ s.expires = IF u.bundle = m /\ u.owner = c THEN expiry ELSE u.expires
           /\ s = IF u.bundle = m /\ u.owner = c THEN [u EXCEPT !.expires = expiry] ELSE u
    BY RefreshedStages
  <2>2. PICK v \in FreshStages :
           /\ t.id = v.id /\ t.bundle = v.bundle /\ t.owner = v.owner
           /\ t.created = v.created
           /\ t.expires = IF v.bundle = m /\ v.owner = c THEN expiry ELSE v.expires
           /\ t = IF v.bundle = m /\ v.owner = c THEN [v EXCEPT !.expires = expiry] ELSE v
    BY RefreshedStages
  <2>3. u \in stages /\ v \in stages
    BY DEF FreshStages
  <2>4. s.id = t.id => s = t
    BY <2>1, <2>2, <2>3 DEF StagesInv, StagesAgree
  <2>5. ASSUME s.bundle = t.bundle, s.owner = t.owner
        PROVE  s.expires = t.expires /\ s.expires <= t.created + BundleLife
    <3>1. CASE v.bundle = m /\ v.owner = c
      BY <2>1, <2>2, <2>5, <3>1 DEF BundleOf
    <3>2. CASE ~(v.bundle = m /\ v.owner = c)
      BY <2>1, <2>2, <2>3, <2>5, <3>2 DEF StagesInv, StagesAgree
    <3> QED
      BY <3>1, <3>2
  <2> QED
    BY <2>4, <2>5
<1>2. ASSUME NEW s \in S
      PROVE  /\ s.created <= now
             /\ s.bundle = m /\ s.owner = c => s.expires = expiry
             /\ \E t \in FreshStages : s.id = t.id
  <2>1. PICK u \in FreshStages :
           /\ s.id = u.id /\ s.bundle = u.bundle /\ s.owner = u.owner
           /\ s.created = u.created
           /\ s.expires = IF u.bundle = m /\ u.owner = c THEN expiry ELSE u.expires
    BY RefreshedStages
  <2>2. u \in stages
    BY DEF FreshStages
  <2> QED
    BY <2>1, <2>2 DEF StagesInv, StagesAged
<1> QED
  BY <1>1, <1>2

\* The expiry the code computes from the oldest stage of a bundle fits all.
LEMMA ExpiryFits ==
  ASSUME TypeOK, NEW c, NEW q, BundleOf(FreshStages, c, q.mutation) # {}
  PROVE  LET bundle == BundleOf(FreshStages, c, q.mutation)
             expiry == StageExpiry(Min({s.created : s \in bundle}))
         IN  /\ expiry \in Nat
             /\ \A t \in bundle : expiry <= t.created + BundleLife
             /\ StagesAged => expiry <= now + BundleLife
<1> DEFINE bundle == BundleOf(FreshStages, c, q.mutation)
           born == {s.created : s \in bundle}
           first == Min(born)
           expiry == StageExpiry(first)
<1>1. bundle \subseteq stages /\ bundle \subseteq Stage
  BY DEF TypeOK, BundleOf, FreshStages
<1>2. born \in SUBSET Nat /\ born # {}
  BY <1>1 DEF Stage
<1>3. first \in born /\ \A x \in born : first <= x
  BY <1>2, NatMin
<1>4. first \in Nat /\ now \in Nat /\ BundleLife \in Nat /\ StageTtl \in Nat
  BY <1>2, <1>3, SettingsAssumption DEF TypeOK
<1> HIDE DEF first
<1>5. expiry \in Nat /\ expiry <= first + BundleLife
  BY <1>4 DEF StageExpiry
<1>6. ASSUME NEW t \in bundle PROVE expiry <= t.created + BundleLife
  <2>1. first <= t.created /\ t.created \in Nat
    BY <1>1, <1>3 DEF Stage
  <2> HIDE DEF expiry
  <2> QED
    BY <1>4, <1>5, <2>1
<1>7. ASSUME StagesAged PROVE expiry <= now + BundleLife
  <2>1. first <= now
    BY <1>1, <1>3, <1>7 DEF StagesAged
  <2> HIDE DEF expiry
  <2> QED
    BY <1>4, <1>5, <2>1
<1> QED
  BY <1>5, <1>6, <1>7 DEF first

LEMMA StageRenewStep ==
  ASSUME TypeInv, StagesInv, NEW c \in Credentials, NEW q \in Requests, StageRenew(c, q)
  PROVE  StagesInv'
<1> DEFINE bundle == BundleOf(FreshStages, c, q.mutation)
           expiry == StageExpiry(Min({s.created : s \in bundle}))
<1>1. stages' = Refreshed(FreshStages, c, q.mutation, expiry) /\ now' = now
  BY DEF StageRenew, Finish
<1>2. PICK h \in StageHeld(q) : h.owner = c
  BY DEF StageRenew, StageIsKnown
<1>3. bundle # {}
  BY <1>2 DEF BundleOf, StageHeld
<1>4. expiry \in Nat /\ \A t \in bundle : expiry <= t.created + BundleLife
  BY <1>3, ExpiryFits DEF TypeInv
<1> HIDE DEF expiry
<1>5. /\ \A s, t \in stages' :
           /\ s.id = t.id => s = t
           /\ s.bundle = t.bundle /\ s.owner = t.owner =>
                s.expires = t.expires /\ s.expires <= t.created + BundleLife
      /\ \A s \in stages' : s.created <= now
  BY <1>1, <1>4, RefreshedAgree DEF TypeInv
<1> QED
  BY <1>1, <1>5 DEF StagesInv, StagesAgree, StagesAged

LEMMA StageAddStep ==
  ASSUME TypeInv, StagesInv, NEW c \in Credentials, NEW q \in Requests, StageAdd(c, q)
  PROVE  StagesInv'
<1> DEFINE bundle == BundleOf(FreshStages, c, q.mutation)
           first == IF bundle = {} THEN now ELSE Min({s.created : s \in bundle})
           expiry == StageExpiry(first)
           S == Refreshed(FreshStages, c, q.mutation, expiry)
           new == [bundle |-> q.mutation, id |-> q.id, note |-> q.note,
                   envelope |-> q.envelope, owner |-> c, created |-> now,
                   expires |-> expiry]
<1>1. stages' = S \cup {new} /\ now' = now
  BY DEF StageAdd, Finish
<1>2. /\ expiry \in Nat /\ expiry <= now + BundleLife
      /\ \A t \in bundle : expiry <= t.created + BundleLife
  <2>1. CASE bundle = {}
    <3>1. expiry = StageExpiry(now)
      BY <2>1
    <3>2. StageExpiry(now) \in Nat /\ StageExpiry(now) <= now + BundleLife
      BY SettingsAssumption DEF StageExpiry, TypeInv, TypeOK
    <3> QED
      BY <2>1, <3>1, <3>2
  <2>2. CASE bundle # {}
    <3>1. expiry = StageExpiry(Min({s.created : s \in bundle}))
      BY <2>2
    <3> QED
      BY <2>2, <3>1, ExpiryFits DEF TypeInv, StagesInv
  <2> QED
    BY <2>1, <2>2
<1>3. \A s \in FreshStages : s.id # q.id
  BY DEF StageAdd, StageIsAccepted
<1>4. now \in Nat /\ BundleLife \in Nat
  BY SettingsAssumption DEF TypeInv, TypeOK
<1> HIDE DEF expiry
<1>5. /\ \A s, t \in S :
           /\ s.id = t.id => s = t
           /\ s.bundle = t.bundle /\ s.owner = t.owner =>
                s.expires = t.expires /\ s.expires <= t.created + BundleLife
      /\ \A s \in S : /\ s.created <= now
                      /\ s.bundle = q.mutation /\ s.owner = c => s.expires = expiry
                      /\ \E t \in FreshStages : s.id = t.id
  BY <1>2, RefreshedAgree DEF TypeInv
<1>6. /\ new.id = q.id /\ new.bundle = q.mutation /\ new.owner = c
      /\ new.created = now /\ new.expires = expiry
  OBVIOUS
<1>7. ASSUME NEW s \in S, s.bundle = q.mutation, s.owner = c
      PROVE  s.expires = expiry /\ expiry <= s.created + BundleLife
  BY <1>5, <1>7
<1>8. S \cap {new} = {} /\ \A s \in S : s.id # q.id
  BY <1>3, <1>5, <1>6
<1> HIDE DEF S, new
<1>9. ASSUME NEW s \in stages', NEW t \in stages'
      PROVE  /\ s.id = t.id => s = t
             /\ s.bundle = t.bundle /\ s.owner = t.owner =>
                  s.expires = t.expires /\ s.expires <= t.created + BundleLife
  <2>1. CASE s \in S /\ t \in S
    BY <1>5, <2>1
  <2>2. CASE s = new /\ t = new
    BY <1>2, <1>6, <2>2
  <2>3. CASE s = new /\ t \in S
    BY <1>6, <1>7, <1>8, <2>3
  <2>4. CASE s \in S /\ t = new
    BY <1>2, <1>6, <1>7, <1>8, <2>4
  <2> QED
    BY <1>1, <2>1, <2>2, <2>3, <2>4
<1>10. \A s \in stages' : s.created <= now'
  BY <1>1, <1>4, <1>5, <1>6
<1> QED
  BY <1>9, <1>10 DEF StagesInv, StagesAgree, StagesAged

LEMMA StagesStep ==
  ASSUME TypeInv, StagesInv, [Next]_vars
  PROVE  StagesInv'
<1>1. ASSUME stages' \subseteq stages, now' = now \/ now' = now + 1
      PROVE  StagesInv'
  <2>1. now \in Nat /\ now' \in Nat /\ now' >= now
    BY <1>1 DEF TypeInv, TypeOK
  <2> QED
    BY <1>1, <2>1, FewerStages DEF TypeInv, TypeOK
<1>2. FreshStages \subseteq stages
  BY DEF FreshStages
<1>3. ASSUME NEW c \in Credentials, NEW q \in Requests, Handle(c, q)
      PROVE  StagesInv'
  <2>1. CASE StageRenew(c, q)
    BY <2>1, StageRenewStep
  <2>2. CASE StageAdd(c, q)
    BY <2>2, StageAddStep
  <2>3. CASE \/ Replay(c, q) \/ PutRedundant(c, q) \/ Put(c, q)
             \/ BundleDiscard(c, q) \/ Bundle(c, q) \/ Refuse(c, q)
    <3>1. stages' \subseteq FreshStages \/ stages' = stages
      BY <2>3 DEF Replay, PutRedundant, Put, BundleDiscard, Bundle, Refuse
    <3>2. now' = now
      BY <2>3 DEF Replay, PutRedundant, Put, BundleDiscard, Bundle, Refuse, Finish
    <3> QED
      BY <1>1, <1>2, <3>1, <3>2
  <2> QED
    BY <1>3, <2>1, <2>2, <2>3 DEF Handle
<1>4. ASSUME \/ \E c \in Credentials, q \in Requests : Begin(c, q)
             \/ \E C \in SUBSET Credentials : Revoke(C)
             \/ Cleanup \/ Restart \/ Tick \/ UNCHANGED vars
      PROVE  StagesInv'
  BY <1>1, <1>2, <1>4 DEF Begin, Revoke, Cleanup, Restart, Tick, vars
<1> QED
  BY <1>3, <1>4 DEF Next

\* Whatever bundles contend for ids, and however often they are renewed, an id
\* is staged once and a bundle's stages expire together within its lifetime.
THEOREM StagesAlwaysAgree == Spec => []StagesAgree
<1>1. Init => StagesInv
  BY DEF Init, StagesInv, StagesAgree, StagesAged
<1>2. TypeInv /\ StagesInv /\ [Next]_vars => StagesInv'
  BY StagesStep
<1>3. StagesInv => StagesAgree
  BY DEF StagesInv
<1> QED
  BY <1>1, <1>2, <1>3, TypeInvariance, PTL DEF Spec

-----------------------------------------------------------------------------
(* Receipts *)

\* A mutation has one receipt, so ORDER BY created_at, revision, id leaves no
\* two receipts in the same place.
ReceiptsInv ==
  /\ IsFiniteSet(receipts)
  /\ \A r \in receipts : r.created <= now
  /\ \A r, s \in receipts : r.request.mutation = s.request.mutation => r = s

\* Position of receipt r in that order over F, from 0.
Position(r, F) == Cardinality({s \in F : Older(s, r)})

LEMMA MutationIds ==
  ASSUME NEW q \in Requests
  PROVE  q.mutation \in Nat
<1>1. q.mutation \in Mutations
  BY RequestKinds DEF PutRequest, StageRequest, BundleRequest
<1> QED
  BY <1>1, KeysAssumption

LEMMA OlderOrders ==
  ASSUME TypeOK, ReceiptsInv, NEW r \in receipts, NEW s \in receipts
  PROVE  /\ ~Older(r, r)
         /\ r = s \/ Older(r, s) \/ Older(s, r)
         /\ \A t \in receipts : Older(r, s) /\ Older(s, t) => Older(r, t)
         /\ ~Older(s, r) => s.created >= r.created
<1>1. ASSUME NEW t \in receipts
      PROVE  t.created \in Nat /\ t.rev \in Nat /\ t.request.mutation \in Nat
  BY MutationIds DEF TypeOK, Receipt
<1>2. ~Older(r, r)
  BY <1>1 DEF Older
<1>3. r = s \/ Older(r, s) \/ Older(s, r)
  BY <1>1 DEF Older, ReceiptsInv
<1>4. ASSUME NEW t \in receipts, Older(r, s), Older(s, t)
      PROVE  Older(r, t)
  <2>1. /\ r.created \in Nat /\ r.rev \in Nat /\ r.request.mutation \in Nat
        /\ s.created \in Nat /\ s.rev \in Nat /\ s.request.mutation \in Nat
        /\ t.created \in Nat /\ t.rev \in Nat /\ t.request.mutation \in Nat
    BY <1>1
  <2> QED
    BY <1>4, <2>1 DEF Older
<1>5. ~Older(s, r) => s.created >= r.created
  BY <1>1 DEF Older
<1> QED
  BY <1>2, <1>3, <1>4, <1>5

\* The order gives every receipt a place of its own.
LEMMA Positions ==
  ASSUME TypeOK, ReceiptsInv, NEW F \in SUBSET receipts
  PROVE  /\ IsFiniteSet(F) /\ Cardinality(F) \in Nat
         /\ \A r \in F : Position(r, F) \in 0..(Cardinality(F) - 1)
         /\ \A r, s \in F : Older(r, s) => Position(r, F) < Position(s, F)
         /\ \A r, s \in F : Position(r, F) = Position(s, F) => r = s
<1> DEFINE Before(r) == {s \in F : Older(s, r)}
<1>1. IsFiniteSet(F) /\ Cardinality(F) \in Nat
  BY FS_Subset, FS_CardinalityType DEF ReceiptsInv
<1>2. ASSUME NEW r \in F
      PROVE  /\ IsFiniteSet(Before(r)) /\ Position(r, F) = Cardinality(Before(r))
             /\ Position(r, F) \in Nat
             /\ Position(r, F) < Cardinality(F)
  <2>1. Before(r) \in SUBSET F /\ Before(r) # F
    BY OlderOrders
  <2>2. IsFiniteSet(Before(r)) /\ Cardinality(Before(r)) \in Nat
        /\ Cardinality(Before(r)) <= Cardinality(F)
        /\ Cardinality(Before(r)) # Cardinality(F)
    BY <1>1, <2>1, FS_Subset, FS_CardinalityType
  <2> QED
    BY <1>1, <2>2 DEF Position
<1>3. ASSUME NEW r \in F, NEW s \in F, Older(r, s)
      PROVE  Position(r, F) < Position(s, F)
  <2>1. Before(r) \in SUBSET Before(s)
    BY <1>3, OlderOrders
  <2>2. r \in Before(s) /\ r \notin Before(r)
    BY <1>3, OlderOrders
  <2>3. /\ Cardinality(Before(r)) <= Cardinality(Before(s))
        /\ Cardinality(Before(r)) # Cardinality(Before(s))
    BY <1>2, <2>1, <2>2, FS_Subset
  <2>4. /\ Position(r, F) = Cardinality(Before(r)) /\ Position(r, F) \in Nat
        /\ Position(s, F) = Cardinality(Before(s)) /\ Position(s, F) \in Nat
    BY <1>2
  <2> HIDE DEF Before
  <2> QED
    BY <2>3, <2>4
<1>4. ASSUME NEW r \in F, NEW s \in F, Position(r, F) = Position(s, F)
      PROVE  r = s
  <2>1. Position(r, F) \in Nat /\ Position(s, F) \in Nat
    BY <1>2
  <2>2. ~Older(r, s) /\ ~Older(s, r)
    BY <1>3, <1>4, <2>1
  <2> QED
    BY <2>2, OlderOrders
<1>5. ASSUME NEW r \in F PROVE Position(r, F) \in 0..(Cardinality(F) - 1)
  <2>1. Position(r, F) \in Nat /\ Position(r, F) < Cardinality(F)
    BY <1>2
  <2> QED
    BY <1>1, <2>1
<1> QED
  BY <1>1, <1>3, <1>4, <1>5

\* Leaving out the e oldest of n receipts leaves n - e.
LEMMA YoungestCount ==
  ASSUME TypeOK, ReceiptsInv, NEW F \in SUBSET receipts,
         NEW e \in Nat, e <= Cardinality(F)
  PROVE  Cardinality({r \in F : Position(r, F) >= e}) = Cardinality(F) - e
<1> DEFINE n == Cardinality(F)
           K == {r \in F : Position(r, F) >= e}
           f == [r \in F |-> Position(r, F)]
           g == [r \in K |-> Position(r, F)]
<1>1. /\ IsFiniteSet(F) /\ n \in Nat
      /\ \A r \in F : Position(r, F) \in 0..(n - 1)
      /\ \A r, s \in F : Position(r, F) = Position(s, F) => r = s
  BY Positions
<1>2. f \in Injection(F, 0..(n - 1))
  BY <1>1, Fun_IsInj
<1>3. IsFiniteSet(0..(n - 1)) /\ Cardinality(0..(n - 1)) = n
  <2> HIDE DEF n
  <2>1. /\ IsFiniteSet(0..(n - 1))
        /\ Cardinality(0..(n - 1)) = IF 0 > n - 1 THEN 0 ELSE n - 1 - 0 + 1
    BY <1>1, FS_Interval
  <2> QED
    BY <1>1, <2>1
<1>4. f \in Surjection(F, 0..(n - 1))
  BY <1>2, <1>3, FS_Injection
<1>5. ASSUME NEW i \in 0..(n - 1) PROVE \E r \in F : Position(r, F) = i
  <2> DEFINE T == 0..(n - 1)
  <2>1. f \in Surjection(F, T) /\ i \in T
    BY <1>4
  <2>2. \E r \in F : f[r] = i
    <3> HIDE DEF f, T
    <3>1. \A t \in T : \E r \in F : f[r] = t
      BY <2>1, Fun_SurjectionProperties
    <3> QED
      BY <2>1, <3>1
  <2> QED
    BY <2>2
<1>6. /\ g \in [K -> e..(n - 1)]
      /\ \A r, s \in K : g[r] = g[s] => r = s
      /\ \A i \in e..(n - 1) : \E r \in K : g[r] = i
  <2>1. ASSUME NEW r \in K PROVE Position(r, F) \in e..(n - 1)
    BY <1>1
  <2>2. ASSUME NEW i \in e..(n - 1) PROVE \E r \in K : Position(r, F) = i
    <3>1. i \in 0..(n - 1) /\ i >= e
      BY <1>1
    <3>2. PICK r \in F : Position(r, F) = i
      BY <1>5, <3>1
    <3> QED
      BY <3>1, <3>2
  <2>3. ASSUME NEW r \in K, NEW s \in K, Position(r, F) = Position(s, F)
        PROVE  r = s
    BY <1>1, <2>3
  <2> HIDE DEF K
  <2> QED
    BY <2>1, <2>2, <2>3
<1>7. g \in Bijection(K, e..(n - 1))
  BY <1>6, Fun_IsBij
<1>8. IsFiniteSet(K)
  BY <1>1, FS_Subset
<1>9. Cardinality(e..(n - 1)) = Cardinality(K)
  BY <1>7, <1>8, FS_Bijection, Fun_ExistsBij
<1>10. Cardinality(e..(n - 1)) = n - e
  <2> HIDE DEF n
  <2>1. Cardinality(e..(n - 1)) = IF e > n - 1 THEN 0 ELSE n - 1 - e + 1
    BY <1>1, FS_Interval
  <2>2. e <= n
    BY DEF n
  <2> QED
    BY <1>1, <2>1, <2>2
<1> QED
  BY <1>9, <1>10

\* Pruning keeps the newest receipts, as many as there is room for.
LEMMA PrunedFacts ==
  ASSUME TypeOK, ReceiptsInv, NEW reserved \in {0, 1}
  PROVE  LET kept == Pruned(reserved)
             limit == MaxReceipts - reserved
         IN  /\ kept \in SUBSET receipts /\ IsFiniteSet(kept)
             /\ Cardinality(kept) \in Nat /\ Cardinality(kept) <= limit
             /\ \A r \in receipts \ kept :
                  \/ r.created <= now - ReceiptTtl
                  \/ /\ Cardinality(kept) = limit
                     /\ \A s \in kept : ~Older(s, r) /\ s.created >= r.created
<1> DEFINE kept == Pruned(reserved)
           limit == MaxReceipts - reserved
           fresh == {r \in receipts : r.created > now - ReceiptTtl}
           n == Cardinality(fresh)
           excess == n - limit
<1>1. kept = {r \in fresh : Position(r, fresh) >= excess}
  BY DEF Pruned, Position
<1>2. fresh \in SUBSET receipts
  OBVIOUS
<1>3. /\ IsFiniteSet(fresh) /\ n \in Nat
      /\ \A r \in fresh : Position(r, fresh) \in 0..(n - 1)
      /\ \A r, s \in fresh : Older(r, s) => Position(r, fresh) < Position(s, fresh)
  BY <1>2, Positions
<1>4. limit \in Nat /\ reserved \in Nat
  BY SettingsAssumption
<1>5. \A r \in receipts \ fresh : r.created <= now - ReceiptTtl
  BY SettingsAssumption DEF TypeOK, Receipt
<1>6. kept \in SUBSET receipts /\ IsFiniteSet(kept) /\ Cardinality(kept) \in Nat
  <2>1. kept \in SUBSET fresh
    BY <1>1
  <2> HIDE DEF kept, fresh
  <2> QED
    BY <1>2, <1>3, <2>1, FS_Subset, FS_CardinalityType
<1>7. CASE excess <= 0
  <2>1. kept = fresh
    <3>1. ASSUME NEW r \in fresh PROVE Position(r, fresh) >= excess
      <4>1. Position(r, fresh) \in Nat
        BY <1>3
      <4> HIDE DEF fresh
      <4> QED
        BY <1>3, <1>4, <1>7, <4>1
    <3> QED
      BY <1>1, <3>1
  <2>2. n <= limit
    <3> HIDE DEF n
    <3> QED
      BY <1>3, <1>4, <1>7
  <2> QED
    BY <1>5, <1>6, <2>1, <2>2
<1>8. CASE excess > 0
  <2>1. excess \in Nat /\ excess <= n
    <3> HIDE DEF n
    <3> QED
      BY <1>3, <1>4, <1>8
  <2>2. Cardinality(kept) = n - excess
    <3> HIDE DEF excess, fresh
    <3> QED
      BY <1>1, <1>2, <2>1, YoungestCount
  <2>3. Cardinality(kept) = limit
    <3> HIDE DEF n, kept
    <3> QED
      BY <1>3, <1>4, <2>2
  <2>4. ASSUME NEW r \in receipts \ kept, r \in fresh, NEW s \in kept
        PROVE  ~Older(s, r) /\ s.created >= r.created
    <3>1. s \in fresh /\ ~(Position(r, fresh) >= excess) /\ Position(s, fresh) >= excess
      BY <1>1, <2>4
    <3>2. Position(r, fresh) \in Nat /\ Position(s, fresh) \in Nat
      BY <1>3, <2>4, <3>1
    <3>3. Older(s, r) => Position(s, fresh) < Position(r, fresh)
      BY <1>3, <2>4, <3>1
    <3>4. ~Older(s, r)
      <4> HIDE DEF excess, fresh
      <4> QED
        BY <2>1, <3>1, <3>2, <3>3
    <3>5. s \in receipts /\ r \in receipts
      BY <1>6
    <3> QED
      BY <3>4, <3>5, OlderOrders
  <2> QED
    BY <1>4, <1>5, <1>6, <2>3, <2>4
<1> QED
  <2>1. excess \in Int
    <3> HIDE DEF n
    <3> QED
      BY <1>3, <1>4
  <2> HIDE DEF excess, kept, limit
  <2>2. excess <= 0 \/ excess > 0
    BY <2>1
  <2> QED
    BY <1>7, <1>8, <2>2 DEF kept, limit

\* What ReceiptsRetained says of a step that changes receipts.
Retained ==
  /\ Cardinality(receipts') <= MaxReceipts
  /\ \A r \in receipts \ receipts' :
       \/ r.created <= now - ReceiptTtl
       \/ /\ Cardinality(receipts') = MaxReceipts
          /\ \A s \in receipts' : /\ s.created >= r.created
                                  /\ s \in receipts => ~Older(s, r)

LEMMA CleanupRetains ==
  ASSUME TypeOK, ReceiptsInv, receipts' = Pruned(0), now' = now
  PROVE  ReceiptsInv' /\ Retained
<1> DEFINE kept == Pruned(0)
<1>1. /\ kept \in SUBSET receipts /\ IsFiniteSet(kept)
      /\ Cardinality(kept) \in Nat /\ Cardinality(kept) <= MaxReceipts - 0
      /\ \A r \in receipts \ kept :
           \/ r.created <= now - ReceiptTtl
           \/ /\ Cardinality(kept) = MaxReceipts - 0
              /\ \A s \in kept : ~Older(s, r) /\ s.created >= r.created
  <2>1. 0 \in {0, 1}
    OBVIOUS
  <2> QED
    BY <2>1, PrunedFacts
<1>2. MaxReceipts - 0 = MaxReceipts
  BY SettingsAssumption
<1> HIDE DEF kept
<1>3. receipts' = kept
  BY DEF kept
<1> QED
  BY <1>1, <1>2, <1>3 DEF ReceiptsInv, Retained

LEMMA ReceiptRetains ==
  ASSUME TypeInv, ReceiptsInv, NEW q \in Requests, Prior(q.mutation) = {},
         NEW rev, NEW owner, receipts' = WithReceipt(q, rev, owner), now' = now
  PROVE  ReceiptsInv' /\ Retained
<1> DEFINE kept == Pruned(1)
           new == [request |-> q, rev |-> rev, owner |-> owner, created |-> now]
<1>0. TypeOK
  BY DEF TypeInv
<1>1. /\ kept \in SUBSET receipts /\ IsFiniteSet(kept)
      /\ Cardinality(kept) \in Nat /\ Cardinality(kept) <= MaxReceipts - 1
      /\ \A r \in receipts \ kept :
           \/ r.created <= now - ReceiptTtl
           \/ /\ Cardinality(kept) = MaxReceipts - 1
              /\ \A s \in kept : ~Older(s, r) /\ s.created >= r.created
  <2>1. 1 \in {0, 1}
    OBVIOUS
  <2> QED
    BY <1>0, <2>1, PrunedFacts
<1>2. receipts' = kept \cup {new} /\ new.request = q /\ new.created = now
  BY DEF WithReceipt
<1>3. \A r \in receipts : r.request.mutation # q.mutation
  BY DEF Prior
<1> HIDE DEF kept, new
<1>4. new \notin receipts /\ new \notin kept
  BY <1>1, <1>2, <1>3
<1>5. IsFiniteSet(receipts') /\ Cardinality(receipts') = Cardinality(kept) + 1
  BY <1>1, <1>2, <1>4, FS_AddElement
<1>6. MaxReceipts \in Nat
  BY SettingsAssumption
<1>7. Cardinality(receipts') <= MaxReceipts
  BY <1>1, <1>5, <1>6
<1>8. ASSUME NEW r \in receipts \ receipts', ~(r.created <= now - ReceiptTtl)
      PROVE  /\ Cardinality(receipts') = MaxReceipts
             /\ \A s \in receipts' : /\ s.created >= r.created
                                     /\ s \in receipts => ~Older(s, r)
  <2>1. /\ Cardinality(kept) = MaxReceipts - 1
        /\ \A s \in kept : ~Older(s, r) /\ s.created >= r.created
    BY <1>1, <1>2, <1>8
  <2>2. Cardinality(receipts') = MaxReceipts
    BY <1>1, <1>5, <1>6, <2>1
  <2>3. r.created <= now /\ r.created \in Nat /\ now \in Nat
    BY <1>0 DEF ReceiptsInv, TypeOK, Receipt
  <2>4. new.created >= r.created
    BY <1>2, <2>3
  <2> QED
    BY <1>2, <1>4, <2>1, <2>2, <2>4
<1>9. now \in Nat
  BY <1>0 DEF TypeOK
<1>10. \A r \in receipts' : r.created <= now'
  BY <1>1, <1>2, <1>9 DEF ReceiptsInv
<1>11. \A r, s \in receipts' : r.request.mutation = s.request.mutation => r = s
  BY <1>1, <1>2, <1>3 DEF ReceiptsInv
<1> QED
  BY <1>5, <1>7, <1>8, <1>10, <1>11 DEF ReceiptsInv, Retained

LEMMA ReceiptsStep ==
  ASSUME TypeInv, ReceiptsInv, [Next]_vars
  PROVE  ReceiptsInv' /\ (receipts' # receipts => Retained)
<1>1. ASSUME receipts' = receipts, now' = now \/ now' = now + 1
      PROVE  ReceiptsInv'
  <2>1. now \in Nat /\ now' \in Nat /\ now' >= now
    BY <1>1 DEF TypeInv, TypeOK
  <2>2. ASSUME NEW r \in receipts PROVE r.created <= now'
    <3>1. r.created \in Nat /\ r.created <= now
      BY DEF ReceiptsInv, TypeInv, TypeOK, Receipt
    <3> QED
      BY <2>1, <3>1
  <2> QED
    BY <1>1, <2>2 DEF ReceiptsInv
<1>2. ASSUME NEW c \in Credentials, NEW q \in Requests, Handle(c, q)
      PROVE  ReceiptsInv' /\ (receipts' # receipts => Retained)
  <2>1. CASE Put(c, q)
    <3>1. /\ Prior(q.mutation) = {} /\ receipts' = WithReceipt(q, NextRevision, Null)
          /\ now' = now
      BY <2>1 DEF Put, PutIsAccepted, Finish
    <3> QED
      BY <3>1, ReceiptRetains
  <2>2. CASE PutRedundant(c, q)
    <3>1. /\ Prior(q.mutation) = {}
          /\ receipts' = WithReceipt(q, records[q.id].rev, Null) /\ now' = now
      BY <2>2 DEF PutRedundant, PutIsRedundant, Finish
    <3> QED
      BY <3>1, ReceiptRetains
  <2>3. CASE Bundle(c, q)
    <3>1. /\ Prior(q.mutation) = {}
          /\ receipts' = WithReceipt(q, BundleRecords(c, q)[q.id].rev, c)
          /\ now' = now
      BY <2>3 DEF Bundle, BundleIsAccepted, BundleIsStaged, Finish
    <3> QED
      BY <3>1, ReceiptRetains
  <2>4. CASE \/ Replay(c, q) \/ StageRenew(c, q) \/ StageAdd(c, q)
             \/ BundleDiscard(c, q) \/ Refuse(c, q)
    <3>1. receipts' = receipts /\ now' = now
      BY <2>4 DEF Replay, StageRenew, StageAdd, BundleDiscard, Refuse, Finish
    <3> QED
      BY <1>1, <3>1
  <2> QED
    BY <1>2, <2>1, <2>2, <2>3, <2>4 DEF Handle
<1>3. ASSUME \/ \E c \in Credentials, q \in Requests : Begin(c, q)
             \/ \E C \in SUBSET Credentials : Revoke(C)
             \/ Tick \/ UNCHANGED vars
      PROVE  ReceiptsInv' /\ receipts' = receipts
  BY <1>1, <1>3 DEF Begin, Revoke, Tick, vars
<1>4. ASSUME Cleanup \/ Restart
      PROVE  ReceiptsInv' /\ Retained
  <2>1. receipts' = Pruned(0) /\ now' = now
    BY <1>4 DEF Cleanup, Restart
  <2> QED
    BY <2>1, CleanupRetains DEF TypeInv
<1> QED
  BY <1>2, <1>3, <1>4 DEF Next

\* The receipt table stays within its limit, and forgets a receipt that clients
\* may still ask for only when it is full of newer ones.
THEOREM ReceiptsAreRetained == Spec => ReceiptsRetained
<1>1. Init => ReceiptsInv
  BY FS_EmptySet DEF Init, ReceiptsInv
<1>2. TypeInv /\ ReceiptsInv /\ [Next]_vars => ReceiptsInv' /\ [Retained]_receipts
  BY ReceiptsStep
<1> QED
  BY <1>1, <1>2, TypeInvariance, PTL DEF Spec, ReceiptsRetained, Retained

-----------------------------------------------------------------------------
(* The relay implements the vault: its first state is the vault's, and each  *)
(* of its steps is a step of the vault or leaves the vault unchanged.         *)

\* The highest revision after a step.
LEMMA NextMax ==
  ASSUME NEW b \in Nat,
         \A k \in Ids : records'[k].rev \in Nat /\ records'[k].rev <= b
  PROVE  /\ MaxRevision' \in Nat
         /\ \A k \in Ids : records'[k].rev <= MaxRevision'
         /\ (\E k \in Ids : records'[k].rev = b) => MaxRevision' = b
<1> DEFINE S == {records'[k].rev : k \in Ids} \cup {0}
<1>1. S \in SUBSET Nat /\ S # {} /\ \A x \in S : x <= b
  OBVIOUS
<1>2. Max(S) \in S /\ \A x \in S : x <= Max(S)
  BY <1>1, NatMax
<1>3. MaxRevision' = Max(S)
  BY DEF MaxRevision, Ids
<1>4. \A k \in Ids : records'[k].rev \in S
  OBVIOUS
<1> HIDE DEF S
<1>5. Max(S) \in Nat /\ Max(S) <= b
  BY <1>1, <1>2
<1>6. ASSUME NEW k \in Ids, records'[k].rev = b PROVE Max(S) = b
  <2>1. b <= Max(S)
    BY <1>2, <1>4, <1>6
  <2> QED
    BY <1>5, <2>1
<1> QED
  BY <1>2, <1>3, <1>4, <1>5, <1>6

LEMMA InitIsVault == Init => V!Init
<1> SUFFICES ASSUME Init PROVE V!Init
  OBVIOUS
<1>1. \A k \in Ids : records[k].rev = 0
  BY DEF Init
<1>2. MaxRevision = 0
  <2> DEFINE S == {records[k].rev : k \in Ids} \cup {0}
  <2>1. S = {0}
    BY <1>1
  <2>2. Max(S) \in S
    <3>1. 0 \in Nat /\ \A x \in S : x <= 0
      BY <2>1
    <3> HIDE DEF S
    <3> QED
      BY <2>1, <3>1, NatMax
  <2> QED
    BY <2>1, <2>2 DEF MaxRevision
<1>3. \A k \in Ids : ~Exists(k) /\ ~Live(k)
  BY <1>1 DEF Exists, Live
<1> QED
  BY <1>1, <1>2, <1>3 DEF V!Init, NoteRevision, LiveNotes, HeldBy, UsedIds, Ids

-----------------------------------------------------------------------------
(* A put is a save, a deletion or a drop *)

\* The rows after a put, as the cases below use them.
LEMMA PutStep ==
  ASSUME TypeInv, NEW c \in Credentials, NEW q \in Requests, Put(c, q)
  PROVE  /\ q.op = "put" /\ PutIsAccepted(q) /\ q \in PutRequest /\ q.id \in Ids
         /\ MaxRevision \in Nat
         /\ records'[q.id].rev = MaxRevision + 1
         /\ records'[q.id].deleted = q.deleted /\ records'[q.id].note = q.note
         /\ \A a \in Cascade(q) : a \in Attachments /\ Live(a) /\ records[a].note = q.id
         /\ \A a \in Cascade(q) : records'[a].deleted /\ records'[a].rev > 0
         /\ \A k \in Ids : k \notin Cascade(q) /\ k # q.id => records'[k] = records[k]
         /\ MaxRevision' \in Nat /\ MaxRevision' >= MaxRevision + 1
         /\ Cascade(q) = {} => MaxRevision' = MaxRevision + 1
<1> DEFINE m == MaxRevision
           C == Cascade(q)
           top == m + 1 + Cardinality(C)
<1>1. q.op = "put" /\ PutIsAccepted(q) /\ records' = PutRecords(q)
  BY DEF Put
<1>2. /\ records'[q.id] = [rev |-> m + 1, deleted |-> q.deleted, note |-> q.note,
                           envelope |-> q.envelope]
      /\ \A i \in C : records'[i].rev \in (m + 2)..top /\ records'[i].deleted
      /\ \A i \in Ids : i \notin C /\ i # q.id => records'[i] = records[i]
  BY <1>1, PutRows
<1>3. q \in PutRequest /\ q.id \in Ids
  BY <1>1, RequestKinds DEF PutRequest
<1>4. m \in Nat /\ \A k \in Ids : records[k].rev \in Nat /\ records[k].rev <= m
  BY MaxRevisionFacts
<1>5. /\ C \in SUBSET Attachments /\ Cardinality(C) \in Nat
      /\ \A a \in C : Live(a) /\ records[a].note = q.id
      /\ C = {} => Cardinality(C) = 0
  BY CascadeFacts, FS_EmptySet
<1> HIDE DEF C, m
<1>6. records'[q.id].rev = m + 1 /\ records'[q.id].deleted = q.deleted
      /\ records'[q.id].note = q.note
  BY <1>2
<1>7. /\ top \in Nat
      /\ \A k \in Ids : records'[k].rev \in Nat /\ records'[k].rev <= top
  BY <1>2, <1>4, <1>5, <1>6
<1>8. \A a \in C : records'[a].rev > 0
  BY <1>2, <1>4, <1>5
<1> HIDE DEF top
<1>9. MaxRevision' \in Nat /\ records'[q.id].rev <= MaxRevision'
  BY <1>3, <1>7, NextMax
<1>10. MaxRevision' >= m + 1
  BY <1>4, <1>6, <1>9
<1>11. ASSUME C = {} PROVE MaxRevision' = m + 1
  <2>1. top = m + 1
    BY <1>4, <1>5, <1>11 DEF top
  <2> QED
    BY <1>3, <1>6, <1>7, <2>1, NextMax
<1> QED
  BY <1>1, <1>2, <1>3, <1>4, <1>5, <1>6, <1>8, <1>9, <1>10, <1>11 DEF m, C

\* A note written by an ordinary put.
LEMMA PutSaves ==
  ASSUME TypeInv, NEW c \in Credentials, NEW q \in Requests, Put(c, q),
         q.id \in Notes, ~q.deleted
  PROVE  V!Save(q.id, {})
<1>1. Cascade(q) = {}
  BY DEF Cascade
<1>2. /\ records'[q.id].rev = MaxRevision + 1 /\ ~records'[q.id].deleted
      /\ MaxRevision \in Nat /\ MaxRevision' = MaxRevision + 1
      /\ \A k \in Ids : k # q.id => records'[k] = records[k]
  BY <1>1, PutStep
<1>3. MaxRevision' > MaxRevision /\ records'[q.id].rev > 0
  BY <1>2
<1>4. \A a \in Attachments : records'[a] = records[a]
  BY <1>2, KeysAssumption DEF Ids
<1>5. NoteRevision' = [NoteRevision EXCEPT ![q.id] = MaxRevision']
  BY <1>2 DEF NoteRevision, Ids
<1>6. LiveNotes' = LiveNotes \cup {q.id}
  BY <1>2, <1>3 DEF LiveNotes, Live, Exists, Ids
<1>7. HeldBy' = HeldBy /\ UsedIds' = UsedIds
  BY <1>4 DEF HeldBy, UsedIds, Live, Exists
<1>8. HeldBy = [HeldBy EXCEPT ![q.id] = @ \cup {}]
  BY DEF HeldBy
<1> QED
  BY <1>3, <1>5, <1>6, <1>7, <1>8 DEF V!Save

\* A note deleted with the attachments that cascade.
LEMMA PutDeletes ==
  ASSUME TypeInv, NEW c \in Credentials, NEW q \in Requests, Put(c, q),
         q.id \in Notes, q.deleted
  PROVE  V!Delete(q.id)
<1> DEFINE C == Cascade(q)
<1>1. /\ records'[q.id].rev = MaxRevision + 1 /\ records'[q.id].deleted
      /\ MaxRevision \in Nat /\ MaxRevision' \in Nat /\ MaxRevision' >= MaxRevision + 1
      /\ \A a \in C : a \in Attachments /\ Live(a) /\ records[a].note = q.id
      /\ \A a \in C : records'[a].deleted /\ records'[a].rev > 0
      /\ \A k \in Ids : k \notin C /\ k # q.id => records'[k] = records[k]
  BY PutStep
<1>2. C = {a \in Attachments : Live(a) /\ records[a].note = q.id}
  BY DEF Cascade
<1> HIDE DEF C
<1>3. ASSUME NEW n \in Notes, n # q.id PROVE records'[n] = records[n]
  <2>1. n \notin C /\ n \in Ids
    BY <1>1, KeysAssumption DEF Ids
  <2> QED
    BY <1>1, <1>3, <2>1
<1>4. ASSUME NEW a \in Attachments, a \notin C PROVE records'[a] = records[a]
  <2>1. a # q.id /\ a \in Ids
    BY KeysAssumption DEF Ids
  <2> QED
    BY <1>1, <1>4, <2>1
<1>5. MaxRevision + 1 \in (MaxRevision + 1)..MaxRevision'
  <2>1. ASSUME NEW m \in Nat, NEW top \in Nat, top >= m + 1
        PROVE  m + 1 \in (m + 1)..top
    BY <2>1
  <2> QED
    BY <1>1, <2>1
<1>6. NoteRevision' = [NoteRevision EXCEPT ![q.id] = MaxRevision + 1]
  BY <1>1, <1>3 DEF NoteRevision
<1>7. LiveNotes' = LiveNotes \ {q.id}
  BY <1>1, <1>3 DEF LiveNotes, Live, Exists
<1>8. HeldBy' = [HeldBy EXCEPT ![q.id] = {}]
  <2>1. ASSUME NEW n \in Notes
        PROVE  {a \in Attachments : Live(a)' /\ records'[a].note = n}
                 = IF n = q.id THEN {} ELSE HeldBy[n]
    BY <1>1, <1>2, <1>4 DEF HeldBy, Live, Exists
  <2> QED
    BY <2>1 DEF HeldBy
<1>9. UsedIds' = UsedIds
  <2>1. ASSUME NEW a \in Attachments PROVE Exists(a)' <=> Exists(a)
    BY <1>1, <1>4 DEF Live, Exists
  <2> QED
    BY <2>1 DEF UsedIds
<1> QED
  BY <1>5, <1>7, <1>8, <1>9, <1>6 DEF V!Delete

\* A single attachment deleted, or retired before it was ever live.
LEMMA PutDrops ==
  ASSUME TypeInv, NEW c \in Credentials, NEW q \in Requests, Put(c, q),
         q.id \in Attachments
  PROVE  V!Drop(q.id)
<1>1. q.id \notin Notes /\ Cascade(q) = {}
  BY KeysAssumption DEF Cascade
<1>2. /\ records'[q.id].rev = MaxRevision + 1
      /\ records'[q.id].deleted = q.deleted
      /\ MaxRevision \in Nat /\ MaxRevision' = MaxRevision + 1
      /\ \A k \in Ids : k # q.id => records'[k] = records[k]
      /\ PutIsAccepted(q) /\ q \in PutRequest /\ q.op = "put"
  BY <1>1, PutStep
<1>3. MaxRevision' > MaxRevision /\ records'[q.id].rev > 0
  BY <1>2
<1>4. q.deleted /\ (Exists(q.id) => Live(q.id) /\ records[q.id].note = q.note)
  BY <1>2 DEF PutIsAccepted
<1>5. q.note \in Notes
  BY <1>2, RequestKinds DEF PutRequest
<1>6. \A n \in Notes : records'[n] = records[n]
  BY <1>1, <1>2 DEF Ids
<1>7. \A a \in Attachments : a # q.id => records'[a] = records[a]
  BY <1>2 DEF Ids
<1>8. q.id \in UsedIds => \E n \in Notes : q.id \in HeldBy[n]
  BY <1>4, <1>5 DEF UsedIds, HeldBy
<1>9. HeldBy' = [n \in Notes |-> HeldBy[n] \ {q.id}]
  <2>1. ASSUME NEW n \in Notes
        PROVE  {a \in Attachments : Live(a)' /\ records'[a].note = n}
                 = HeldBy[n] \ {q.id}
    BY <1>2, <1>4, <1>7 DEF HeldBy, Live, Exists
  <2> QED
    BY <2>1 DEF HeldBy
<1>10. UsedIds' = UsedIds \cup {q.id}
  BY <1>3, <1>7 DEF UsedIds, Exists
<1>11. NoteRevision' = NoteRevision /\ LiveNotes' = LiveNotes
  BY <1>6 DEF NoteRevision, LiveNotes, Live, Exists
<1> QED
  BY <1>3, <1>8, <1>9, <1>10, <1>11 DEF V!Drop

-----------------------------------------------------------------------------
(* A bundle is a save *)

\* A note written together with its staged attachments.
LEMMA BundleSaves ==
  ASSUME TypeInv, NEW c \in Credentials, NEW q \in Requests, Bundle(c, q)
  PROVE  /\ q.id \in Notes /\ BundleIds(q) \in SUBSET Attachments
         /\ V!Save(q.id, BundleIds(q))
<1> DEFINE m == MaxRevision
           A == BundleIds(q)
           top == m + 1 + Cardinality(A)
<1>1. /\ BundleIsAccepted(c, q)
      /\ A \in SUBSET Attachments /\ Cardinality(A) \in Nat /\ q.id \in Notes
      /\ records'[q.id].rev = top /\ ~records'[q.id].deleted
      /\ \A k \in A : records'[k].rev \in (m + 1)..(m + Cardinality(A))
      /\ \A k \in A : records'[k].note = q.id
      /\ \A k \in Ids : k \notin A /\ k # q.id => records'[k] = records[k]
  BY BundleEffect
<1>2. m \in Nat /\ \A k \in Ids : records[k].rev \in Nat /\ records[k].rev <= m
  BY MaxRevisionFacts
<1>3. \A k \in A : ~Exists(k)
  BY <1>1 DEF BundleIsAccepted
<1>4. \A k \in A : k \in Ids /\ k # q.id
  BY <1>1, KeysAssumption DEF Ids
<1>5. \A k \in A : ~records'[k].deleted
  <2>1. records' = BundleRecords(c, q)
    BY DEF Bundle
  <2> QED
    BY <1>1, <1>4, <2>1, BundleAttachments
<1> HIDE DEF m, A
<1>6. /\ top \in Nat /\ top > m
      /\ \A k \in Ids : records'[k].rev \in Nat /\ records'[k].rev <= top
      /\ \A k \in A : records'[k].rev > 0
  BY <1>1, <1>2
<1>7. q.id \in Ids /\ records'[q.id].rev = top
  BY <1>1 DEF Ids
<1> HIDE DEF top
<1>8. MaxRevision' = top
  BY <1>6, <1>7, NextMax
<1>9. MaxRevision' > MaxRevision
  BY <1>6, <1>8 DEF m
<1>10. records'[q.id].rev > 0
  BY <1>2, <1>6, <1>7
<1>11. \A n \in Notes : n # q.id => records'[n] = records[n]
  BY <1>1, KeysAssumption DEF Ids
<1>12. \A a \in Attachments : a \notin A => records'[a] = records[a]
  BY <1>1, KeysAssumption DEF Ids
<1>13. A \cap UsedIds = {}
  BY <1>3 DEF UsedIds
<1>14. NoteRevision' = [NoteRevision EXCEPT ![q.id] = MaxRevision']
  BY <1>1, <1>8, <1>11 DEF NoteRevision
<1>15. LiveNotes' = LiveNotes \cup {q.id}
  BY <1>1, <1>10, <1>11 DEF LiveNotes, Live, Exists
<1>16. HeldBy' = [HeldBy EXCEPT ![q.id] = @ \cup A]
  <2>1. ASSUME NEW n \in Notes
        PROVE  {a \in Attachments : Live(a)' /\ records'[a].note = n}
                 = IF n = q.id THEN HeldBy[n] \cup A ELSE HeldBy[n]
    <3>1. ASSUME NEW a \in Attachments
          PROVE  Live(a)' /\ records'[a].note = n
                   <=> \/ Live(a) /\ records[a].note = n
                       \/ a \in A /\ n = q.id
      BY <1>1, <1>3, <1>5, <1>6, <1>12 DEF Live, Exists
    <3> QED
      BY <1>1, <3>1 DEF HeldBy
  <2> QED
    BY <1>1, <2>1 DEF HeldBy
<1>17. UsedIds' = UsedIds \cup A
  BY <1>1, <1>6, <1>12 DEF UsedIds, Exists
<1> QED
  BY <1>1, <1>9, <1>13, <1>14, <1>15, <1>16, <1>17 DEF V!Save, A

-----------------------------------------------------------------------------
(* Refinement *)

LEMMA VaultStep ==
  ASSUME TypeInv, [Next]_vars
  PROVE  [V!Next]_(V!vars)
<1>1. CASE UNCHANGED records
  BY <1>1 DEF V!vars, NoteRevision, LiveNotes, HeldBy, UsedIds, MaxRevision, Live,
     Exists, Ids
<1>2. ASSUME NEW c \in Credentials, NEW q \in Requests, Put(c, q)
      PROVE  V!Next
  <2>1. q.id \in Ids
    BY <1>2, PutStep
  <2>2. CASE q.id \in Notes /\ ~q.deleted
    BY <1>2, <2>2, PutSaves DEF V!Next
  <2>3. CASE q.id \in Notes /\ q.deleted
    BY <1>2, <2>3, PutDeletes DEF V!Next
  <2>4. CASE q.id \in Attachments
    BY <1>2, <2>4, PutDrops DEF V!Next
  <2> QED
    BY <2>1, <2>2, <2>3, <2>4 DEF Ids
<1>3. ASSUME NEW c \in Credentials, NEW q \in Requests, Bundle(c, q)
      PROVE  V!Next
  BY <1>3, BundleSaves DEF V!Next
<1> QED
  BY <1>1, <1>2, <1>3, RecordSteps

\* For any number of notes, attachments, credentials and requests, the relay
\* implements the vault: a note and its attachments change together or not at
\* all, at revisions above all earlier ones, and no attachment id is used twice.
THEOREM RelayImplementsVault == Spec => ImplementsVault
<1>1. Init => V!Init
  BY InitIsVault
<1>2. TypeInv /\ [Next]_vars => [V!Next]_(V!vars)
  BY VaultStep
<1> QED
  BY <1>1, <1>2, TypeInvariance, PTL DEF Spec, ImplementsVault, V!Spec
=============================================================================
