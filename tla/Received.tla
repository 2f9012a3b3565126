------------------------------ MODULE Received ------------------------------
(***************************************************************************)
(* A note shared with the application, which several tabs may receive at   *)
(* once and which a retry receives again: the intent's key gives the note  *)
(* and its attachments their IDs, and a claim in the notes database decides *)
(* which tab creates the note.                                             *)
(*                                                                         *)
(*   Source: createReceivedNote of apps/web/src/lib/noteStore.svelte.ts    *)
(*   and the creation claims of packages/core/src/adapters/local.ts.       *)
(*                                                                         *)
(* Every claim has a token of its own; tokens grow, as the times do that   *)
(* are the write epochs.  A token also names the generation it stages.     *)
(***************************************************************************)
EXTENDS Naturals

CONSTANTS
  Tabs,         \* tabs that receive the shared note
  Attachments,  \* its attachments, 1..n
  MaxClaims,    \* claims made
  MaxFaults     \* tabs closed, writes and requests that fail

VARIABLES
  claim,     \* the creation claim: its token, and whether it is fresh
  created,   \* the note exists
  stored,    \* the bytes of each attachment: generation, staged or promoted
  receiver,  \* createReceivedNote in each tab
  claims, failures

receivedVars == <<claim, created, stored, receiver, claims, failures>>

NoClaim == [token |-> 0, fresh |-> FALSE]
Nothing == [gen |-> 0, staged |-> FALSE]
Waiting == [at |-> "idle", token |-> 0, staged |-> 0, owned |-> FALSE]

ReceivedInit ==
  /\ claim = NoClaim
  /\ created = FALSE
  /\ stored = [a \in Attachments |-> Nothing]
  /\ receiver = [t \in Tabs |-> Waiting]
  /\ claims = 0 /\ failures = 0

-----------------------------------------------------------------------------
At(t, at)   == receiver[t].at = at
Moves(t, r) == receiver' = [receiver EXCEPT ![t] = r]
Leads(t, at) == Moves(t, [receiver[t] EXCEPT !.at = at])
Holds(t)    == claim.token = receiver[t].token
Failure     == failures < MaxFaults /\ failures' = failures + 1

\* claimNoteCreation: an existing note ends the claim, a fresh one is waited for.
ClaimNote(t) ==
  /\ At(t, "idle")
  /\ IF created THEN claim' = NoClaim /\ UNCHANGED <<receiver, claims>>
     ELSE /\ ~claim.fresh /\ claims < MaxClaims
          /\ claims' = claims + 1
          /\ claim' = [token |-> claims', fresh |-> TRUE]
          /\ Moves(t, [Waiting EXCEPT !.at = "renew", !.token = claims', !.owned = TRUE])
  /\ UNCHANGED <<created, stored, failures>>

\* renewNoteCreationClaim, which fails under another token.
RenewClaim(t) ==
  /\ At(t, "renew")
  /\ IF receiver[t].owned /\ Holds(t)
     THEN /\ claim' = [claim EXCEPT !.fresh = TRUE]
          /\ Leads(t, IF receiver[t].staged + 1 \in Attachments THEN "stage" ELSE "finalize")
     ELSE /\ Moves(t, [receiver[t] EXCEPT !.at = "check", !.owned = FALSE])
          /\ UNCHANGED claim
  /\ UNCHANGED <<created, stored, claims, failures>>

Beat(t) ==
  /\ ~At(t, "idle") /\ receiver[t].owned /\ (Holds(t) => ~claim.fresh)
  /\ IF Holds(t) THEN claim' = [claim EXCEPT !.fresh = TRUE] /\ UNCHANGED receiver
     ELSE Moves(t, [receiver[t] EXCEPT !.owned = FALSE]) /\ UNCHANGED claim
  /\ UNCHANGED <<created, stored, claims, failures>>

\* stageUpload, which a later epoch in place refuses.
StageReceived(t) ==
  LET next == receiver[t].staged + 1
      stale == stored[next].gen > receiver[t].token IN
  /\ At(t, "stage")
  /\ \/ /\ ~stale
        /\ stored' = [stored EXCEPT ![next] = [gen |-> receiver[t].token, staged |-> TRUE]]
        /\ Moves(t, [receiver[t] EXCEPT !.at = "renew", !.staged = next])
        /\ UNCHANGED failures
     \/ /\ IF stale THEN UNCHANGED failures ELSE Failure
        /\ Leads(t, "check") /\ UNCHANGED stored
  /\ UNCHANGED <<claim, created, claims>>

\* finalizeClaimedNote: a note that exists wins, then the token must match.
Finalize(t) ==
  /\ At(t, "finalize")
  /\ claim' = IF Holds(t) THEN NoClaim ELSE claim
  /\ created' = (created \/ Holds(t))
  /\ IF created THEN Moves(t, Waiting)
     ELSE Leads(t, IF Holds(t) THEN "push" ELSE "check")
  /\ UNCHANGED <<stored, claims, failures>>

\* pushPendingNote, whose failure is handled like that of the steps before.
PushReceived(t) ==
  /\ At(t, "push")
  /\ \/ Moves(t, Waiting) /\ UNCHANGED failures
     \/ Failure /\ Leads(t, "check")
  /\ UNCHANGED <<claim, created, stored, claims>>

\* After an error only the owner of the claim discards what it has staged.
CheckAlways(t) ==   \* bug: the claim is not read
  /\ At(t, "check")
  /\ Leads(t, "discard")
  /\ UNCHANGED <<claim, created, stored, claims, failures>>

CheckOwner(t) ==
  /\ At(t, "check")
  /\ IF receiver[t].owned /\ Holds(t)
     THEN claim' = [claim EXCEPT !.fresh = TRUE] /\ Leads(t, "discard")
     ELSE UNCHANGED claim /\ Moves(t, Waiting)
  /\ UNCHANGED <<created, stored, claims, failures>>

DiscardReceived(t) ==
  /\ At(t, "discard")
  /\ \/ /\ stored' = [a \in Attachments |->
                        IF stored[a] = [gen |-> receiver[t].token, staged |-> TRUE]
                        THEN Nothing ELSE stored[a]]
        /\ Leads(t, "release") /\ UNCHANGED failures
     \/ Failure /\ Moves(t, Waiting) /\ UNCHANGED stored
  /\ UNCHANGED <<claim, created, claims>>

ReleaseClaim(t) ==
  /\ At(t, "release")
  /\ claim' = IF Holds(t) THEN NoClaim ELSE claim
  /\ Moves(t, Waiting)
  /\ UNCHANGED <<created, stored, claims, failures>>

\* The note is pushed by any tab, and its bytes are no longer staged.
PromoteReceived(a) ==
  /\ created /\ stored[a].staged
  /\ stored' = [stored EXCEPT ![a].staged = FALSE]
  /\ UNCHANGED <<claim, created, receiver, claims, failures>>

ClaimExpires ==
  /\ claim.fresh
  /\ claim' = [claim EXCEPT !.fresh = FALSE]
  /\ UNCHANGED <<created, stored, receiver, claims, failures>>

CloseReceiver(t) ==
  /\ ~At(t, "idle") /\ Failure
  /\ Moves(t, Waiting)
  /\ UNCHANGED <<claim, created, stored, claims>>

Receive(t) ==
  \/ ClaimNote(t) \/ RenewClaim(t) \/ Beat(t) \/ StageReceived(t) \/ Finalize(t)
  \/ PushReceived(t) \/ CheckOwner(t) \/ DiscardReceived(t) \/ ReleaseClaim(t)

ReceivedNext ==
  \/ \E t \in Tabs : Receive(t) \/ CloseReceiver(t)
  \/ \E a \in Attachments : PromoteReceived(a)
  \/ ClaimExpires

ReceivedSpec == ReceivedInit /\ [][ReceivedNext]_receivedVars

-----------------------------------------------------------------------------
(* Properties *)

\* The received note has the bytes of all its attachments: a tab that lost the
\* claim, whose push failed or that tries again removes no other's bytes.
ReceivedHaveBytes ==
  created => \A a \in Attachments : stored[a] # Nothing
=============================================================================
