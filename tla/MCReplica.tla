----------------------------- MODULE MCReplica -----------------------------
(* Replica beside a relay that few writes change. *)
EXTENDS Replica, TLC

CONSTANTS n1, n2, d1, reader, plain, withA, bad

TwoNotes == {n1, n2}
OneAttachment == {1}
FourMutations == 1..4
Both == {d1, reader}
AllEnvelopes == {plain, withA, bad}
Sizes == [e \in AllEnvelopes |-> 1]
ImagesOf == [e \in AllEnvelopes |-> IF e = withA THEN {1} ELSE {}]
Roomy == {[records |-> 9, attachments |-> 9, bytes |-> 99]}

PutNote(m, n, b, del, e) ==
  [op |-> "put", mutation |-> m, id |-> n, base |-> b, deleted |-> del,
   note |-> Null, envelope |-> e]
DropOne(m, b) ==
  [op |-> "put", mutation |-> m, id |-> 1, base |-> b, deleted |-> TRUE,
   note |-> n1, envelope |-> plain]
StageOne == [op |-> "stage", mutation |-> 1, id |-> 1, note |-> n1, envelope |-> plain]
BundleOne ==
  [op |-> "bundle", mutation |-> 1, id |-> n1, base |-> 0, envelope |-> withA,
   attachments |-> {[id |-> 1, envelope |-> plain]}]

\* A note with an attachment that is edited, deleted and brought back, while
\* the attachment is dropped and another note goes unreadable and back.
LifeRequests ==
  {StageOne, BundleOne, DropOne(2, 1)}
  \cup {PutNote(3, n1, 2, TRUE, plain)}
  \cup {PutNote(4, n1, b, FALSE, plain) : b \in {2, 3}}
  \cup {PutNote(2, n2, 0, FALSE, bad)}
  \cup {PutNote(3, n2, b, FALSE, plain) : b \in {1, 3, 5}}

\* A note with an attachment, and the attachment dropped.
DropRequests == {StageOne, BundleOne, DropOne(2, 1)}
=============================================================================
