------------------------------ MODULE MCParts ------------------------------
(***************************************************************************)
(* The smaller parts of the browser, the command line and the relay, each  *)
(* alone on its own instance.  They share nothing: a behaviour plays the   *)
(* one part chosen with its initial state, on as many of the variables     *)
(* x1, x2, ... as that part has, and leaves the others alone.              *)
(***************************************************************************)
EXTENDS Naturals, TLC

CONSTANTS
  p1, p2, p3, p4,   \* tabs, processes or sources of attempts
  v, w, NoVault, NoProcess

VARIABLES part, x1, x2, x3, x4, x5, x6, x7, x8, x9, x10, x11, x12, x13, x14, x15, x16,
  x17

Pair == {p1, p2}
Trio == {p1, p2, p3}

\* Previews: one tab with two links, and two tabs with the same link.
OneAndTwo ==
  {[t \in Pair |-> {1}]} \cup {[t \in Pair |-> IF t = p THEN {1, 2} ELSE {}] : p \in Pair}

BytesPart == INSTANCE AttachmentStore WITH
  stored <- x1, queued <- x2, staged <- x3, pulled <- x4, doomed <- x5,
  browser <- x6, relayHas <- x7, uploads <- x8, accepted <- x9,
  givenUp <- x10, draws <- x11, faults <- x12, Browsers <- Pair,
  WriteEpochs <- {1, 2}, ClaimTtl <- 1, MaxDraws <- 3, MaxFaults <- 1

ImportPart == INSTANCE Import WITH
  journal <- x1, receipts <- x2, notes <- x3, bytes <- x4, importer <- x5,
  batches <- x6, faults <- x7, overlaps <- x8, Tabs <- Pair, MaxBatches <- 2, MaxFaults <- 1

ReceivedPart == INSTANCE Received WITH
  claim <- x1, created <- x2, stored <- x3, receiver <- x4, claims <- x5,
  failures <- x6, Tabs <- Trio, Attachments <- {1, 2}, MaxClaims <- 3,
  MaxFaults <- 2

PairingPart == INSTANCE Pairing WITH
  request <- x1, device <- x2, keys <- x3, session <- x4, tab <- x5,
  dropped <- x6, cancelled <- x7, drawn <- x8, lost <- x9, overlaps <- x10, Tabs <- Pair,
  Requests <- {1, 2}, MaxDevices <- 2, MaxFaults <- 2

LockPart == INSTANCE ConfigLock WITH
  lock <- x1, recovery <- x2, process <- x3, deaths <- x4, overlaps <- x5,
  Processes <- {p1, p2, p3, p4}, MaxDeaths <- 2

ClipPart == INSTANCE Clip WITH
  intent <- x1, cache <- x2, base <- x3, root <- x4, files <- x5, relay <- x6,
  login <- x7, command <- x8, reported <- x9, removed <- x10, lost <- x11,
  copies <- x12, drawn <- x13, mutations <- x14, faults <- x15, events <- x16, overlaps <- x17,
  Ids <- {1, 2, 3}, Logins <- {1, 2}, Mutations <- {1, 2, 3}, MaxFaults <- 2,
  MaxEvents <- 1

RatePart == INSTANCE RateLimit WITH
  kind <- x1, now <- x2, global <- x3, bySource <- x4, spent <- x5,
  promised <- x6, early <- x7, Sources <- Trio,
  Kinds <- {"attempts", "secrets"}, Window <- 2, SourceLimit <- 1,
  GlobalLimit <- 2, MaxTime <- 5

TabsPart == INSTANCE VaultTabs WITH
  session <- x1, keys <- x2, tab <- x3, opener <- x4, handler <- x5,
  inbox <- x6, granted <- x7, signals <- x8, faults <- x9, overlaps <- x10, Tabs <- Pair,
  Slots <- {1, 2}, Sessions <- {1, 2}, MaxSignals <- 1, MaxFaults <- 1

SharesPart == INSTANCE Shares WITH
  stored <- x1, pending <- x2, bound <- x3, page <- x4, notes <- x5,
  tab <- x6, confirmed <- x7, faults <- x8, changes <- x9, overlaps <- x10, Tabs <- Pair,
  Ids <- {1, 2}, Vaults <- {v, w}, MaxPending <- 1, MaxFaults <- 1,
  MaxChanges <- 2

PreviewPart == INSTANCE LinkPreviews WITH
  store <- x1, loads <- x2, cache <- x3, serving <- x4, active <- x5,
  enabled <- x6, connections <- x7, clears <- x8, faults <- x9, wiped <- x10, overlaps <- x11,
  Tabs <- Pair, Urls <- {1, 2}, Views <- OneAndTwo, MaxLoads <- 1,
  MaxFetches <- 1, MaxRedirects <- 1, MaxConnections <- 2, MaxClears <- 1,
  MaxFaults <- 1

\* The variables a part leaves alone.
Beyond5 == <<x6, x7, x8, x9, x10, x11, x12, x13, x14, x15, x16, x17>>
Beyond6 == <<x7, x8, x9, x10, x11, x12, x13, x14, x15, x16, x17>>
Beyond7 == <<x8, x9, x10, x11, x12, x13, x14, x15, x16, x17>>
Beyond8 == <<x9, x10, x11, x12, x13, x14, x15, x16, x17>>
Beyond10 == <<x11, x12, x13, x14, x15, x16, x17>>
Beyond11 == <<x12, x13, x14, x15, x16, x17>>
Beyond12 == <<x13, x14, x15, x16, x17>>

Spare12 == x13 = 0 /\ x14 = 0 /\ x15 = 0 /\ x16 = 0 /\ x17 = 0
Spare11 == x12 = 0 /\ Spare12
Spare10 == x11 = 0 /\ Spare11
Spare8 == x9 = 0 /\ x10 = 0 /\ Spare10
Spare7 == x8 = 0 /\ Spare8
Spare6 == x7 = 0 /\ Spare7
Spare5 == x6 = 0 /\ Spare6

MCInit ==
  \/ part = "bytes" /\ BytesPart!BytesInit /\ Spare12
  \/ part = "imports" /\ ImportPart!ImportInit /\ Spare8
  \/ part = "received" /\ ReceivedPart!ReceivedInit /\ Spare6
  \/ part = "pairing" /\ PairingPart!PairingInit /\ Spare10
  \/ part = "lock" /\ LockPart!LockInit /\ Spare5
  \/ part = "clips" /\ ClipPart!ClipInit
  \/ part = "limits" /\ RatePart!RateInit /\ Spare7
  \/ part = "tabs" /\ TabsPart!TabsInit /\ Spare10
  \/ part = "shares" /\ SharesPart!SharesInit /\ Spare10
  \/ part = "previews" /\ PreviewPart!PreviewInit /\ Spare11

MCNext ==
  \/ part = "bytes" /\ BytesPart!BytesNext /\ UNCHANGED <<part, Beyond12>>
  \/ part = "imports" /\ ImportPart!ImportNext /\ UNCHANGED <<part, Beyond8>>
  \/ part = "received" /\ ReceivedPart!ReceivedNext /\ UNCHANGED <<part, Beyond6>>
  \/ part = "pairing" /\ PairingPart!PairingNext /\ UNCHANGED <<part, Beyond10>>
  \/ part = "lock" /\ LockPart!LockNext /\ UNCHANGED <<part, Beyond5>>
  \/ part = "clips" /\ ClipPart!ClipNext /\ UNCHANGED part
  \/ part = "limits" /\ RatePart!RateNext /\ UNCHANGED <<part, Beyond7>>
  \/ part = "tabs" /\ TabsPart!TabsNext /\ UNCHANGED <<part, Beyond10>>
  \/ part = "shares" /\ SharesPart!SharesNext /\ UNCHANGED <<part, Beyond10>>
  \/ part = "previews" /\ PreviewPart!PreviewNext /\ UNCHANGED <<part, Beyond11>>

PartVars == <<part, x1, x2, x3, x4, x5, x6, x7, x8, x9, x10, x11, x12, x13,
               x14, x15, x16, x17>>

MCSpec == MCInit /\ [][MCNext]_PartVars

\* Of the bytes: three draws, or two and a fault.
BytesBound == part = "bytes" => x11 + x12 <= 3

\* Nothing orders the actors.
Symmetry == Permutations(Trio)

-----------------------------------------------------------------------------
(* Each property is that of the part: see its module.  Nothing keeps a step   *)
(* from falling into a window of the code; where one breaks a clause, the     *)
(* clause names it and speaks of the histories in which no step fell into it. *)

\* AttachmentStore: bytes that were to be uploaded stay until the relay has them
\* or their caller lets them go.
UploadsSurvive == part = "bytes" => BytesPart!UploadsSurvive

\* AttachmentStore: a writer's epoch only advances, a claimed deletion is final.
EpochsAndDeletions ==
  [][part = "bytes" => BytesPart!EpochAdvances /\ BytesPart!DeletionIsFinal]_PartVars

\* Import: imported notes have their bytes, whoever commits, recovers or rolls
\* back, and whatever is deleted meanwhile; no record of the vault is replaced but
\* one that came under a chosen ID; and an interrupted import is recovered, unless
\* its note came or went, or its receipt was cleared, meanwhile.
ImportsAreSafe ==
  /\ [](part = "imports" => ImportPart!ImportedHaveBytes /\ ImportPart!RecoverySucceeds)
  /\ [][part = "imports" => ImportPart!ExistingIsKept]_PartVars

\* Pairing: what the relay granted is held and what was withdrawn is not waited
\* for, unless the request was made over an expired one that was being installed,
\* or, for the first, resumed where it was yet to be decided on; and what counts as
\* finalized the relay has activated, always.
PairingsAgree ==
  part = "pairing" =>
    PairingPart!ActiveIsHeld /\ PairingPart!FinalizedIsActive /\ PairingPart!PendingIsNotWithdrawn

\* ConfigLock: one process at a time writes the configuration, until a sweep of
\* an abandoned recovery lock unlinks another process's.
HoldersHaveTheLock == part = "lock" => LockPart!HoldersHaveTheLock

\* Clip: a clip is published under one ID and its copy stays while it is needed,
\* always; a reported one is published, unless its own stage expired or its copy
\* was lost; what is committed can be finished, unless it was removed elsewhere.
ClipsArrive ==
  part = "clips" =>
    /\ ClipPart!ReportedArePublished /\ ClipPart!PublishedOnce
    /\ ClipPart!CopiesAreKept /\ ClipPart!CommittedCanFinish

\* RateLimit: no window over its limits, a bounded table, an honest Retry-After.
LimitsHold == part = "limits" => RatePart!LimitsHold

\* VaultTabs: a settled tab has the stored session open, or nothing, until a
\* session that is open elsewhere is replaced or an operation begins beside a
\* stale one; the notes it has open are those of its session until the latter.
OpenIsStored == part = "tabs" => TabsPart!OpenIsStored

\* Shares: an accepted share waits or is a note, always; one of its own vault and of
\* no second one, unless a loop went on in another vault or, for the latter, two
\* vaults took it unbound.  Received: a note received in several tabs has its bytes.
SharesArrive ==
  /\ part = "shares" => SharesPart!SharesArrive
  /\ part = "received" => ReceivedPart!ReceivedHaveBytes

\* LinkPreviews: no link asked for is lost, places are returned and only lasting
\* misses are kept, always; what waits was tried by this connection, unless an
\* earlier one answered late, and a cleared cache stays clear, unless another tab
\* was connected.
PreviewsHold == part = "previews" => PreviewPart!PreviewsHold
=============================================================================
