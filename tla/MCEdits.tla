------------------------------- MODULE MCEdits -------------------------------
(* Model-checking instances of Edits. *)
EXTENDS Edits, TLC

TabsSymmetric == Permutations(Tabs)

Few(t) == Cardinality(tab[t].ops) <= 1 /\ Len(tab[t].pushes) <= 1

\* The two properties ask about these histories only; windows are never forgotten,
\* so what follows any other history satisfies both.
Asked == overlaps \subseteq {"trash"} \/ overlaps \subseteq {"copy"}

\* Two tabs: one operation and one push in each, and one pass at a time after
\* two changes.
Reduced ==
  Cardinality(Open) > 1 =>
    /\ \A t \in Open : Few(t)
    /\ edits = 2 => Cardinality({t \in Open : ~At(t, "idle")}) <= 1
=============================================================================
