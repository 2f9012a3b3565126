----------------------------- MODULE MCCompound -----------------------------
(***************************************************************************)
(* One note with up to two attachments, and another device that writes it. *)
(***************************************************************************)
EXTENDS Compound, TLC

CONSTANTS t1, t2, note, laptop, d1, d2, s1, s2, other, null

MCNotes       == {note}
MCCredentials == {1, 2, laptop}
MCOwners      == {1, 2}
MCAttachments == {11, 12}
MCDrafts      == {d1, d2}
MCEnvelopes   == MCDrafts \cup {s1, s2, other}
MCSize        == [e \in MCEnvelopes |-> 1]
MCLimits      == {[records |-> 9, attachments |-> 9, bytes |-> 99]}
MCDrawable    == 1..3
MCMutations   == 1..4

\* Each draft has an attachment of its own, so the second removes the first.
MCLists == d1 :> {11} @@ d2 :> {12}
MCOneAttachment == [d \in MCDrafts |-> {11}]

MCRequests ==
  [op : {"stage"}, mutation : MCDrawable, id : Attachments, note : {note},
   envelope : {s1, s2}]
  \cup [op : {"put"}, mutation : MCDrawable, id : {note}, base : 0..6,
        deleted : {FALSE}, note : {null}, envelope : MCDrafts]
  \cup [op : {"bundle"}, mutation : MCDrawable, id : {note}, base : 0..6,
        envelope : MCDrafts,
        attachments : {{[id |-> a, envelope |-> f[a]] : a \in S} :
                         S \in (SUBSET Attachments) \ {{}},
                         f \in [Attachments -> {s1, s2}]}]
  \cup {[op |-> "put", mutation |-> 4, id |-> note, base |-> 0, deleted |-> FALSE,
         note |-> null, envelope |-> other]}

SealSymmetry == Permutations({s1, s2})
\* A loss with a new credential or with a write of the other device; where time
\* passes, for stages to expire, none of these.
Written == \E r \in receipts \cup answered : r.request.mutation = 4
FewFaults ==
  /\ now = 0 \/ (stops = 0 /\ session = 1)
  /\ session = 1 \/ ~Written

TabSymmetry == Permutations({t1, t2}) \cup SealSymmetry
=============================================================================
