------------------------------- MODULE Shares -------------------------------
(***************************************************************************)
(* Text shared into the application: confirmed on the share page, kept in  *)
(* localStorage for the vault it is bound to, and saved as a note by a tab *)
(* that opens that vault.                                                  *)
(*                                                                         *)
(*   Source: apps/web/src/lib/shareTarget.ts, routes/share/+page.svelte    *)
(*   and handleVaultReady of routes/+page.svelte.                          *)
(*                                                                         *)
(* A share's own ID is the idempotency key of its note (Received), so that *)
(* a vault holds a set of shares.  Access to localStorage does not wait:   *)
(* listing and removing are one step each.                                 *)
(***************************************************************************)
EXTENDS Naturals, FiniteSets

CONSTANTS
  Tabs,         \* tabs of the application
  Ids,          \* shares
  Vaults,       \* vaults the browser may be connected to
  NoVault,      \* no vault: nothing open, or a share that is not bound
  MaxPending,   \* MAX_PENDING_SHARES
  MaxFaults,    \* notes that could not be saved, tabs closed
  MaxChanges    \* times the browser is connected to another vault

VARIABLES
  stored,     \* the vault of the stored session
  pending,    \* shares in localStorage
  bound,      \* targetInstanceId of each share
  page,       \* the share page: the share and the vault it has looked up
  notes,      \* the shares each vault holds as notes
  tab,        \* handleVaultReady in each tab
  confirmed,  \* history: shares that were accepted for saving
  faults, changes,
  overlaps    \* history: the windows of the code that a step fell into

sharesVars ==
  <<stored, pending, bound, page, notes, tab, confirmed, faults, changes, overlaps>>

Quiet == [vault |-> NoVault, at |-> "idle", for |-> NoVault, list |-> {}, saved |-> {},
          share |-> {}, target |-> NoVault]
NoPage == [at |-> "idle", vault |-> NoVault]

SharesInit ==
  /\ stored \in Vaults \cup {NoVault}
  /\ pending = {} /\ bound = [i \in Ids |-> NoVault] /\ page = NoPage
  /\ notes = [v \in Vaults |-> {}] /\ tab = [t \in Tabs |-> Quiet]
  /\ confirmed = {} /\ faults = 0 /\ changes = 0 /\ overlaps = {}

-----------------------------------------------------------------------------
Lead(t, r) == tab' = [tab EXCEPT ![t] = r]
Fault == faults < MaxFaults /\ faults' = faults + 1

\* confirmShare: the session is looked up, then the share is bound to its vault.
ConfirmShare ==
  /\ page.at = "idle"
  /\ page' = [at |-> "stash", vault |-> stored]
  /\ UNCHANGED <<stored, pending, bound, notes, tab, confirmed, faults, changes>>

StashPendingShare(i) ==
  /\ page.at = "stash" /\ i \notin confirmed
  /\ IF Cardinality(pending) >= MaxPending THEN UNCHANGED <<pending, bound, confirmed>>
     ELSE /\ pending' = pending \cup {i} /\ confirmed' = confirmed \cup {i}
          /\ bound' = [bound EXCEPT ![i] = page.vault]
  /\ page' = NoPage
  /\ UNCHANGED <<stored, notes, tab, faults, changes>>

\* handleVaultReady: the vault is open, and the shares of no other vault are
\* listed; those that are not bound only if the user agrees.
VaultReadyAll(t, agrees) ==   \* bug: the shares of other vaults are listed too
  /\ tab[t].vault = NoVault /\ tab[t].at = "idle" /\ stored # NoVault
  /\ Lead(t, [Quiet EXCEPT !.vault = stored, !.for = stored, !.at = "next", !.list = pending])
  /\ UNCHANGED <<stored, pending, bound, page, notes, confirmed, faults, changes>>

VaultReady(t, agrees) ==
  LET matching == {i \in pending : bound[i] = stored}
      unbound  == {i \in pending : bound[i] = NoVault} IN
  /\ tab[t].vault = NoVault /\ tab[t].at = "idle" /\ stored # NoVault
  /\ Lead(t, [Quiet EXCEPT !.vault = stored, !.for = stored, !.at = "next",
                !.list = matching \cup IF agrees THEN unbound ELSE {}])
  /\ UNCHANGED <<stored, pending, bound, page, notes, confirmed, faults, changes>>

\* createReceivedNote takes the vault that is open when it is called.
Begin(t) ==
  LET r == tab[t] IN
  /\ r.at = "next" /\ r.list # {}
  /\ \E i \in r.list :
       Lead(t, IF r.vault = NoVault THEN [r EXCEPT !.list = @ \ {i}]
               ELSE [r EXCEPT !.list = @ \ {i}, !.share = {i}, !.target = r.vault, !.at = "save"])
  /\ UNCHANGED <<stored, pending, bound, page, notes, confirmed, faults, changes>>

\* It is saved there, whatever is open by then, or fails and stays pending.
SavedAnyway(t) ==   \* bug: a note that could not be saved counts as saved
  LET r == tab[t] IN
  /\ r.at = "save"
  /\ \/ notes' = [notes EXCEPT ![r.target] = @ \cup r.share] /\ UNCHANGED faults
     \/ Fault /\ UNCHANGED notes
  /\ Lead(t, [r EXCEPT !.saved = @ \cup r.share, !.share = {}, !.at = "next"])
  /\ UNCHANGED <<stored, pending, bound, page, confirmed, changes>>

CreateReceivedNote(t) ==
  LET r == tab[t]
      next == [r EXCEPT !.share = {}, !.at = "next"] IN
  /\ r.at = "save"
  /\ \/ /\ notes' = [notes EXCEPT ![r.target] = @ \cup r.share]
        /\ Lead(t, [next EXCEPT !.saved = @ \cup r.share]) /\ UNCHANGED faults
     \/ Fault /\ Lead(t, next) /\ UNCHANGED notes
  /\ UNCHANGED <<stored, pending, bound, page, confirmed, changes>>

RemovePendingShares(t) ==
  /\ tab[t].at = "next" /\ tab[t].list = {}
  /\ pending' = pending \ tab[t].saved
  /\ Lead(t, [Quiet EXCEPT !.vault = tab[t].vault])
  /\ UNCHANGED <<stored, bound, page, notes, confirmed, faults, changes>>

\* The vault is left in this tab while its shares may still be saved.
Leave(t) ==
  /\ tab[t].vault # NoVault
  /\ Lead(t, [tab[t] EXCEPT !.vault = NoVault])
  /\ UNCHANGED <<stored, pending, bound, page, notes, confirmed, faults, changes>>

\* Another vault is opened in it before the loop has ended.
Reopen(t) ==
  /\ tab[t].vault = NoVault /\ tab[t].at # "idle" /\ stored # NoVault
  /\ Lead(t, [tab[t] EXCEPT !.vault = stored])
  /\ UNCHANGED <<stored, pending, bound, page, notes, confirmed, faults, changes>>

Connect(v) ==
  /\ changes < MaxChanges /\ changes' = changes + 1
  /\ v # stored /\ stored' = v
  /\ UNCHANGED <<pending, bound, page, notes, tab, confirmed, faults>>

CloseTab(t) ==
  /\ tab[t].at # "idle" /\ Fault
  /\ Lead(t, Quiet)
  /\ UNCHANGED <<stored, pending, bound, page, notes, confirmed, changes>>

-----------------------------------------------------------------------------
(* Two windows of the code, which the steps fall into freely *)

\* A step that falls into a window is remembered; nothing keeps it from it.
Enters(window, in) == overlaps' = IF in THEN overlaps \cup {window} ELSE overlaps

SavedOrSaving(i, v) ==
  i \in notes[v] \/ \E t \in Tabs : tab[t].for = v /\ i \in tab[t].list \cup tab[t].share

\* The user takes an unbound share into this vault that is saved, or being
\* saved, in another one: it stays pending until its loop has ended.
Twice(agrees) ==
  agrees /\ \E i \in pending, v \in Vaults \ {stored} : bound[i] = NoVault /\ SavedOrSaving(i, v)

\* The loop goes on in another vault that was opened in its tab meanwhile.
Switched(t) == tab[t].vault \notin {tab[t].for, NoVault}

SharesNext ==
  \/ \E t \in Tabs, agrees \in BOOLEAN : VaultReady(t, agrees) /\ Enters("twice", Twice(agrees))
  \/ \E t \in Tabs : Begin(t) /\ Enters("switch", Switched(t))
  \/ /\ \/ ConfirmShare
        \/ \E i \in Ids : StashPendingShare(i)
        \/ \E t \in Tabs : \/ CreateReceivedNote(t) \/ RemovePendingShares(t)
                           \/ Leave(t) \/ Reopen(t) \/ CloseTab(t)
        \/ \E v \in Vaults \cup {NoVault} : Connect(v)
     /\ UNCHANGED overlaps

SharesSpec == SharesInit /\ [][SharesNext]_sharesVars

-----------------------------------------------------------------------------
(* Properties *)

\* A share that was accepted waits or is a note, whatever happens.  It is a note of
\* the vault it was bound to, unless a loop went on in another vault that was
\* opened in its tab; and of no second vault, unless that or the user has taken
\* an unbound share into a vault while another one was saving it (+page.svelte
\* keeps neither from happening).
SharesArrive ==
  \A i \in confirmed :
    /\ i \in pending \/ \E v \in Vaults : i \in notes[v]
    /\ "switch" \notin overlaps => \A v \in Vaults : i \in notes[v] => bound[i] \in {v, NoVault}
    /\ overlaps = {} => \A v, w \in Vaults : i \in notes[v] /\ i \in notes[w] => v = w
=============================================================================
