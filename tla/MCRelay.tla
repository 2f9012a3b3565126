------------------------------ MODULE MCRelay ------------------------------
(***************************************************************************)
(* Relay on small sets of requests.  Each behaviour plays one of two       *)
(* scenes, the same relay with the requests and the limits of its own      *)
(* question.                                                               *)
(***************************************************************************)
EXTENDS RelayVault, TLC

CONSTANTS n1, d1, d2, ro, e1, e2

VARIABLE scene

OneNote == {n1}
TwoAttachments == {1, 2}
ThreeMutations == {1, 2, 3}
AllCredentials == {d1, d2, ro}
Sizes == (e1 :> 2 @@ e2 :> 3)

PutNote(m, b, del) ==
  [op |-> "put", mutation |-> m, id |-> n1, base |-> b, deleted |-> del,
   note |-> Null, envelope |-> e1]
DropAttachment(m, a, b) ==
  [op |-> "put", mutation |-> m, id |-> a, base |-> b, deleted |-> TRUE,
   note |-> n1, envelope |-> e1]
StageOf(m, a, e) ==
  [op |-> "stage", mutation |-> m, id |-> a, note |-> n1, envelope |-> e]
BundleOn(m, b, atts) ==
  [op |-> "bundle", mutation |-> m, id |-> n1, base |-> b, envelope |-> e1,
   attachments |-> {[id |-> a, envelope |-> e1] : a \in atts}]

\* Lost answers, pruned receipts: two bundles over the same attachments, a note
\* deleted, brought back and its attachments dropped, every base they can meet.
ProtocolRequests ==
  {StageOf(1, 1, e1), StageOf(1, 2, e1), StageOf(3, 2, e1)}
  \cup {BundleOn(1, 0, {1, 2}), BundleOn(3, 3, {2})}
  \cup {PutNote(2, b, TRUE) : b \in {0, 1, 3, 4}}
  \cup {PutNote(3, b, FALSE) : b \in {0, 4}}
  \cup {DropAttachment(2, 1, b) : b \in {0, 1}}

\* Stages of two bundles that contend for ids and room: bundles renewed up to
\* their lifetime, finalized whole, in part and too late.
StageRequests ==
  {StageOf(1, 1, e1), StageOf(1, 2, e2), StageOf(2, 2, e1)}
  \cup {BundleOn(2, 0, {2}),
        [BundleOn(1, 0, {1, 2}) EXCEPT
           !.attachments = {[id |-> 1, envelope |-> e1], [id |-> 2, envelope |-> e2]}]}
  \cup {PutNote(3, b, TRUE) : b \in {0, 2, 3}}

RoomyLimits == {[records |-> 9, attachments |-> 9, bytes |-> 99]}

\* The operator may restart with less room than is in use.
TightLimits ==
  {[records |-> 3, attachments |-> 2, bytes |-> 7],
   [records |-> 2, attachments |-> 2, bytes |-> 5]}

EveryRequest == ProtocolRequests \cup StageRequests
EveryLimit == RoomyLimits \cup TightLimits

Protocol == INSTANCE Relay WITH
  Credentials <- {d1, d2}, ReadOnly <- {}, Requests <- ProtocolRequests,
  Limits <- RoomyLimits, StageTtl <- 1, BundleLife <- 2, MaxTime <- 2

Stages == INSTANCE Relay WITH
  Credentials <- {d1, ro}, Requests <- StageRequests, Limits <- TightLimits

MCInit ==
  \/ scene = "protocol" /\ Protocol!Init
  \/ scene = "stages" /\ Stages!Init

MCNext ==
  \/ scene = "protocol" /\ Protocol!Next /\ UNCHANGED scene
  \/ scene = "stages" /\ Stages!Next /\ UNCHANGED scene

\* Nothing orders the writers; the second scene has one of them only.
Symmetry == Permutations({d1, d2})

MCSpec == MCInit /\ [][MCNext]_<<vars, scene>>
=============================================================================
