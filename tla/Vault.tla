------------------------------- MODULE Vault -------------------------------
(***************************************************************************)
(* What the relay's record store promises its clients, without requests,   *)
(* receipts, stages, credentials or time: every change of a note is one    *)
(* atomic step on the note and the attachments it holds, at revisions      *)
(* above all earlier ones, and an attachment id is used once.              *)
(* Relay implements it (see RelayVault).                                   *)
(***************************************************************************)
EXTENDS Naturals

CONSTANTS Notes, Attachments

VARIABLES
  revision,   \* of each note, 0 before it exists
  alive,      \* notes that exist and are not deleted
  held,       \* the attachments a note has
  used,       \* attachment ids that exist, deleted ones included
  top         \* the highest revision given out

vars == <<revision, alive, held, used, top>>

TypeOK ==
  /\ revision \in [Notes -> Nat]
  /\ alive \subseteq Notes
  /\ held \in [Notes -> SUBSET Attachments]
  /\ used \subseteq Attachments
  /\ top \in Nat

Init ==
  /\ revision = [n \in Notes |-> 0]
  /\ alive = {}
  /\ held = [n \in Notes |-> {}]
  /\ used = {}
  /\ top = 0

\* A note is written, with new attachments or none; it becomes the newest row.
Save(n, A) ==
  /\ A \cap used = {}
  /\ top' > top
  /\ revision' = [revision EXCEPT ![n] = top']
  /\ alive' = alive \cup {n}
  /\ held' = [held EXCEPT ![n] = @ \cup A]
  /\ used' = used \cup A

\* A note is deleted with all it holds; the tombstones of the attachments
\* follow its own.
Delete(n) ==
  /\ \E r \in (top + 1)..top' :
       revision' = [revision EXCEPT ![n] = r]
  /\ alive' = alive \ {n}
  /\ held' = [held EXCEPT ![n] = {}]
  /\ UNCHANGED used

\* One attachment is deleted, or its id is retired before it was ever live.
Drop(a) ==
  /\ top' > top
  /\ a \in used => \E n \in Notes : a \in held[n]
  /\ held' = [n \in Notes |-> held[n] \ {a}]
  /\ used' = used \cup {a}
  /\ UNCHANGED <<revision, alive>>

Next ==
  \/ \E n \in Notes, A \in SUBSET Attachments : Save(n, A)
  \/ \E n \in Notes : Delete(n)
  \/ \E a \in Attachments : Drop(a)

Spec == Init /\ [][Next]_vars
=============================================================================
