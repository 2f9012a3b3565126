----------------------------- MODULE RelayVault -----------------------------
(* The relay's tables read as a Vault: the refinement mapping. *)
EXTENDS Relay

NoteRevision == [n \in Notes |-> records[n].rev]
LiveNotes    == {n \in Notes : Live(n)}
HeldBy       == [n \in Notes |-> {a \in Attachments : Live(a) /\ records[a].note = n}]
UsedIds      == {a \in Attachments : Exists(a)}

V == INSTANCE Vault WITH revision <- NoteRevision, alive <- LiveNotes,
                         held <- HeldBy, used <- UsedIds, top <- MaxRevision

\* Seen through its tables, whatever the interleaving of handlers, retries,
\* expiries and restarts, the relay takes only steps of the vault: a note and
\* its attachments change together or not at all (docs/architecture.md:43).
ImplementsVault == V!Spec
=============================================================================
