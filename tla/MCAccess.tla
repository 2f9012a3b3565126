------------------------------ MODULE MCAccess ------------------------------
(***************************************************************************)
(* Access with few devices, tokens and pairings: with room for all of them *)
(* and a long memory, or with more requesters than room.                   *)
(***************************************************************************)
EXTENDS Access, TLC

VARIABLE room

Tight == INSTANCE Access WITH
  MaxDevices <- 2, MaxServices <- 1, MaxPending <- 1, ReceiptTtl <- 1,
  MaxTime <- 1, MaxInFlight <- 1

RoomyOrTight ==
  /\ room \in {"roomy", "tight"} /\ Init
  /\ [][\/ room = "roomy" /\ Next /\ UNCHANGED room
        \/ room = "tight" /\ Tight!Next /\ UNCHANGED room]_<<vars, room>>

\* The tables keep to their limits (CountsHold of Access).
CountsHoldTight == room = "tight" => Tight!CountsHold

\* Ids and tokens are random: none is special.
Alike ==
  Permutations(Devices) \cup Permutations(Tokens) \cup Permutations(Pairings)
    \cup Permutations(Services)
=============================================================================
