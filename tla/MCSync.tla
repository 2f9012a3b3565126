------------------------------- MODULE MCSync -------------------------------
(***************************************************************************)
(* One note, a device with two successive credentials and another device.  *)
(***************************************************************************)
EXTENDS Sync, TLC

CONSTANTS t1, t2, note, laptop, e1, e2, e3, null

MCNotes       == {note}
MCCredentials == {1, 2, laptop}
MCOwners      == {1, 2}
MCEnvelopes   == {e1, e2, e3}
MCDrafts      == {e1, e2}
MCSize        == [e \in MCEnvelopes |-> 1]
MCLimits      == {[records |-> 9, attachments |-> 9, bytes |-> 9]}
MCDrawable    == 1..3
MCMutations   == 1..4

Write(M, B, E) ==
  [op : {"put"}, mutation : M, id : {note}, base : B, deleted : {FALSE},
   note : {null}, envelope : E]

MCRequests == Write(MCDrawable, 0..4, MCDrafts) \cup Write({4}, {0, 1}, {e3})
MCFewRequests == Write(MCDrawable, 0..3, {e1}) \cup Write({4}, {0}, {e3})

\* Nothing orders the tabs or the drafts.
TabSymmetry == Permutations({t1, t2})
Symmetry == Permutations({t1, t2}) \cup Permutations(MCDrafts)
=============================================================================
