---------------------------- MODULE MCSyncScenes ----------------------------
(***************************************************************************)
(* The device of MCSync in two scenes: one tab writes the note while        *)
(* messages are lost and repeated, or two tabs write it side by side.       *)
(***************************************************************************)
EXTENDS MCSync

VARIABLE scene    \* chosen with the initial state

\* Two tabs at work, with fewer drafts, no message lost and no credential revoked.
Few == INSTANCE Sync WITH
  Requests <- MCFewRequests, Drafts <- {e1}, Drawable <- {1, 2}, MaxStops <- 0

MCInit == SyncInit /\ scene \in {"alone", "together"}

MCNext ==
  \/ scene = "alone" /\ SyncNext /\ tab'[t2] = tab[t2] /\ UNCHANGED scene
  \/ scene = "together" /\ Few!SyncNext /\ live' = live /\ UNCHANGED scene

MCSpec == MCInit /\ [][MCNext]_<<allVars, scene>>

\* A mutation that was sent and whose outcome nobody was told stays stored: of
\* one tab's writes (sync.ts:988); the run sync_lost shows two tabs break it.
AloneUnresolvedRemain == scene = "alone" => UnresolvedRemainPending

\* A device that writes in one tab is never refused for its own earlier write
\* (sync.ts:1025); of two tabs, each is refused for the other's.
AloneConflictsAreForeign == scene = "alone" => ConflictsAreForeign
=============================================================================
