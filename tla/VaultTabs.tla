------------------------------ MODULE VaultTabs ------------------------------
(***************************************************************************)
(* Access to the vault in the tabs of one browser: the stored session, what *)
(* each tab has opened with it, and the signal that tells the other tabs   *)
(* that a session was disconnected or forgotten.                           *)
(*                                                                         *)
(*   Source: apps/web/src/lib/vaultAccessInvalidation.ts and its use in    *)
(*   components/AuthVaultGate.svelte.                                      *)
(*                                                                         *)
(* Storage is read and awaited before it is acted upon, so every step that *)
(* follows a read may find another session stored.  What a tab began before *)
(* its accessLifecycle moved on is stale; the counter is kept as that mark. *)
(* Keys, approval and the relay are in Pairing and Access.                 *)
(***************************************************************************)
EXTENDS Naturals, Sequences

CONSTANTS
  Tabs,         \* tabs of the browser
  Slots,        \* operations a tab may have under way at once
  Sessions,     \* sessions, 1..n, in the order the relay grants them
  MaxSignals,   \* disconnects and forgets
  MaxFaults     \* failed reads, failed openings, cancelled pairings

VARIABLES
  session,   \* the stored session; 0 is none
  keys,      \* device keys are stored
  tab,       \* view, activeSession, the vault the notes are opened for
  opener,    \* boot, save or pairing: the operations that open a vault
  handler,   \* handleExternalAccessInvalidation, one at a time
  inbox,     \* signals a tab has not handled
  granted, signals, faults,
  overlaps   \* history: the windows of the code that a step fell into

tabsVars ==
  <<session, keys, tab, opener, handler, inbox, granted, signals, faults, overlaps>>

Loading == [view |-> "loading", active |-> 0, vault |-> 0, init |-> 0, by |-> 0,
            leaving |-> "no"]
Idle    == [at |-> "off", kind |-> "boot", session |-> 0, expected |-> 0, durable |-> 0,
            stale |-> FALSE]
Deaf    == [at |-> "off", kind |-> "forget", candidate |-> 0, busy |-> FALSE,
            durable |-> 0, keys |-> FALSE, stale |-> FALSE]

TabsInit ==
  /\ session = 1 /\ keys = TRUE
  /\ tab = [t \in Tabs |-> Loading]
  /\ opener = [t \in Tabs |-> [s \in Slots |-> Idle]]
  /\ handler = [t \in Tabs |-> Deaf]
  /\ inbox = [t \in Tabs |-> <<>>]
  /\ granted = 1 /\ signals = 0 /\ faults = 0 /\ overlaps = {}

-----------------------------------------------------------------------------
Does(t, s, at) == opener[t][s].at = at
Running(t)     == \E s \in Slots : opener[t][s].at # "off"
Busy(t)        == tab[t].leaving # "no" \/ \E s \in Slots :
                    opener[t][s].at # "off" /\ ~opener[t][s].stale
Fault          == faults < MaxFaults /\ faults' = faults + 1

\* accessLifecycle += 1: everything under way in the tab is stale.
StaleOps(t) == [s \in Slots |-> [opener[t][s] EXCEPT !.stale = TRUE]]
Bump(t, ops) == opener' = [opener EXCEPT ![t] = ops]
Outdate(t) == handler' = [handler EXCEPT ![t].stale = TRUE]

SetTab(t, r)  == tab' = [tab EXCEPT ![t] = r]
SetOp(t, s, o) == opener' = [opener EXCEPT ![t][s] = o]
LeadOp(t, s, at) == SetOp(t, s, [opener[t][s] EXCEPT !.at = at])
Granted == granted + 1 \in Sessions /\ granted' = granted + 1

-----------------------------------------------------------------------------
(* Opening a vault *)

\* boot: the stored session opens the vault when its keys are there.
Boot(t, s) ==
  /\ tab[t].view = "loading" /\ ~Running(t)
  /\ IF session # 0 /\ keys
     THEN SetOp(t, s, [Idle EXCEPT !.at = "start", !.session = session]) /\ UNCHANGED tab
     ELSE SetTab(t, [tab[t] EXCEPT !.view = "connect"]) /\ UNCHANGED opener
  /\ UNCHANGED <<session, keys, handler, inbox, granted, signals, faults>>

\* finishSetup and reclaim: the session is stored as it is granted.
Save(t, s) ==
  /\ tab[t].view = "connect" /\ ~Busy(t) /\ Does(t, s, "off")
  /\ Granted
  /\ session' = granted' /\ keys' = TRUE
  /\ SetOp(t, s, [Idle EXCEPT !.at = "start", !.kind = "save", !.session = granted'])
  /\ UNCHANGED <<tab, handler, inbox, signals, faults>>

\* ready: a lifecycle of its own.
Ready(t, s) ==
  /\ Does(t, s, "start")
  /\ Bump(t, [StaleOps(t) EXCEPT ![s] = [opener[t][s] EXCEPT !.at = "open", !.stale = FALSE]])
  /\ SetTab(t, [tab[t] EXCEPT !.init = opener[t][s].session, !.by = s])
  /\ Outdate(t)
  /\ UNCHANGED <<session, keys, inbox, granted, signals, faults>>

\* startPairing, and the approved session it opens before it is stored.
StartPairing(t, s) ==
  /\ tab[t].view = "connect" /\ ~Busy(t) /\ Does(t, s, "off")
  /\ Bump(t, [StaleOps(t) EXCEPT ![s] = [Idle EXCEPT !.at = "approval", !.kind = "pair"]])
  /\ SetTab(t, [tab[t] EXCEPT !.view = "pairing"])
  /\ Outdate(t)
  /\ UNCHANGED <<session, keys, inbox, granted, signals, faults>>

Approved(t, s) ==
  /\ Does(t, s, "approval")
  /\ IF opener[t][s].stale THEN SetOp(t, s, Idle) /\ UNCHANGED <<tab, granted, keys>>
     ELSE /\ Granted /\ keys' = TRUE
          /\ SetOp(t, s, [opener[t][s] EXCEPT !.at = "open", !.session = granted',
                            !.expected = session])
          /\ SetTab(t, [tab[t] EXCEPT !.init = granted', !.by = s])
  /\ UNCHANGED <<session, handler, inbox, signals, faults>>

\* onReady: the notes of the vault are opened and its sync is enabled.
Open(t, s) ==
  /\ Does(t, s, "open")
  /\ \/ /\ SetTab(t, [tab[t] EXCEPT !.vault = opener[t][s].session])
        /\ LeadOp(t, s, IF opener[t][s].kind # "pair" THEN "read"
                        ELSE IF opener[t][s].stale THEN "close" ELSE "install")
        /\ UNCHANGED faults
     \/ Fault /\ LeadOp(t, s, "close") /\ UNCHANGED tab
  /\ UNCHANGED <<session, keys, handler, inbox, granted, signals>>

\* installPairingSession: the session is the one seen before, or it fails; a
\* pairing cancelled meanwhile takes it back.
Install(t, s) ==
  LET o == opener[t][s] IN
  /\ Does(t, s, "install")
  /\ IF o.stale \/ session # o.expected
     THEN LeadOp(t, s, "close") /\ UNCHANGED session
     ELSE LeadOp(t, s, "installed") /\ session' = o.session
  /\ UNCHANGED <<keys, tab, handler, inbox, granted, signals, faults>>

Installed(t, s) ==
  LET o == opener[t][s] IN
  /\ Does(t, s, "installed")
  /\ IF o.stale
     THEN /\ session' = IF session = o.session THEN o.expected ELSE session
          /\ LeadOp(t, s, "close")
     ELSE UNCHANGED session /\ LeadOp(t, s, "read")
  /\ UNCHANGED <<keys, tab, handler, inbox, granted, signals, faults>>

\* The stored session is read again, and only then is the tab ready.
ReadDurable(t, s) ==
  /\ Does(t, s, "read")
  /\ SetOp(t, s, [opener[t][s] EXCEPT !.at = "check", !.durable = session])
  /\ UNCHANGED <<session, keys, tab, handler, inbox, granted, signals, faults>>

\* finally: initializingSession is the operation's own, or stays.
Initialized(t, s, r) == IF r.by = s THEN [r EXCEPT !.init = 0, !.by = 0] ELSE r

ReadyAnyway(t, s) ==   \* bug: what is stored now is not compared
  /\ Does(t, s, "check")
  /\ SetTab(t, Initialized(t, s,
       [tab[t] EXCEPT !.active = opener[t][s].session, !.view = "ready"]))
  /\ SetOp(t, s, Idle)
  /\ UNCHANGED <<session, keys, handler, inbox, granted, signals, faults>>

Verified(t, s) ==
  LET o == opener[t][s] IN
  /\ Does(t, s, "check")
  /\ IF o.stale \/ o.durable # o.session
     THEN /\ Bump(t, [(IF o.stale \/ o.kind = "pair" THEN opener[t] ELSE StaleOps(t))
                        EXCEPT ![s] = [o EXCEPT !.at = "close"]])
          /\ IF o.stale \/ o.kind = "pair" THEN UNCHANGED handler ELSE Outdate(t)
          /\ UNCHANGED tab
     ELSE /\ SetTab(t, Initialized(t, s,
               [tab[t] EXCEPT !.active = o.session, !.view = "ready"]))
          /\ SetOp(t, s, Idle) /\ UNCHANGED handler
  /\ UNCHANGED <<session, keys, inbox, granted, signals, faults>>

\* onSignedOut; ready also takes the access from memory.
Close(t, s) ==
  LET closed == [tab[t] EXCEPT !.vault = 0]
      pairs == opener[t][s].kind = "pair" IN
  /\ Does(t, s, "close")
  /\ SetTab(t, Initialized(t, s,
       IF pairs THEN closed
       ELSE [closed EXCEPT !.active = 0, !.view = "connect"]))
  /\ SetOp(t, s, Idle)
  /\ UNCHANGED <<session, keys, handler, inbox, granted, signals, faults>>

\* cancelPairing: the view is free at once, what was begun goes on.
CancelPairing(t) ==
  /\ tab[t].view = "pairing" /\ Fault
  /\ Bump(t, StaleOps(t)) /\ Outdate(t)
  /\ SetTab(t, [tab[t] EXCEPT !.view = "connect"])
  /\ UNCHANGED <<session, keys, inbox, granted, signals>>

-----------------------------------------------------------------------------
(* Disconnect and forget, and the signal to the other tabs *)

Leave(t, kind) ==
  /\ tab[t].view = "ready" /\ tab[t].leaving = "no" /\ signals < MaxSignals
  /\ signals' = signals + 1
  /\ Bump(t, StaleOps(t)) /\ Outdate(t)
  /\ SetTab(t, [tab[t] EXCEPT !.leaving = kind])
  /\ UNCHANGED <<session, keys, inbox, granted, faults>>

Cleared(t) == tab[t].leaving \in {"disconnected", "forgotten"}

\* onSignedOut, then the stored access is cleared, whoever stored it.
Clear(t) ==
  /\ tab[t].leaving \in {"disconnect", "forget"}
  /\ SetTab(t, [tab[t] EXCEPT !.vault = 0,
       !.leaving = IF @ = "forget" THEN "forgotten" ELSE "disconnected"])
  /\ session' = 0 /\ keys' = (keys /\ tab[t].leaving = "disconnect")
  /\ UNCHANGED <<opener, handler, inbox, granted, signals, faults>>

\* publish: each other tab takes the signal once, by whichever way it comes.
PublishNothing(t) ==   \* bug: the tabs are told only of a forgotten key
  /\ Cleared(t)
  /\ inbox' = IF tab[t].leaving = "forgotten"
              THEN [u \in Tabs |-> IF u = t THEN inbox[u] ELSE Append(inbox[u], "forget")]
              ELSE inbox
  /\ SetTab(t, [tab[t] EXCEPT !.active = 0, !.init = 0, !.view = "connect", !.leaving = "no"])
  /\ UNCHANGED <<session, keys, opener, handler, granted, signals, faults>>

Publish(t) ==
  /\ Cleared(t)
  /\ inbox' = [u \in Tabs |-> IF u = t THEN inbox[u] ELSE
                 Append(inbox[u], IF tab[t].leaving = "forgotten" THEN "forget" ELSE "disconnect")]
  /\ SetTab(t, [tab[t] EXCEPT !.active = 0, !.init = 0, !.view = "connect", !.leaving = "no"])
  /\ UNCHANGED <<session, keys, opener, handler, granted, signals, faults>>

\* handleExternalAccessInvalidation: what the tab has, then what is stored.
Hear(t) ==
  LET own == IF tab[t].active # 0 THEN tab[t].active ELSE tab[t].init IN
  /\ handler[t].at = "off" /\ inbox[t] # <<>>
  /\ inbox' = [inbox EXCEPT ![t] = Tail(@)]
  /\ handler' = [handler EXCEPT ![t] = [Deaf EXCEPT !.at = "read", !.kind = Head(inbox[t]),
       !.candidate = own,
       !.busy = own # 0 \/ Busy(t) \/ tab[t].view \in {"loading", "pairing"}]]
  /\ UNCHANGED <<session, keys, tab, opener, granted, signals, faults>>

Look(t) ==
  /\ handler[t].at = "read"
  /\ \/ /\ handler' = [handler EXCEPT ![t].at = "decide", ![t].durable = session, ![t].keys = keys]
        /\ UNCHANGED faults
     \/ Fault /\ handler' = [handler EXCEPT ![t].at = "blind"]
  /\ UNCHANGED <<session, keys, tab, opener, inbox, granted, signals>>

\* shouldInvalidateVaultAccess, when storage could be read.
Outlived(h) ==
  IF h.candidate # 0 THEN h.candidate # h.durable
  ELSE h.durable = 0 /\ ~(h.kind = "forget" /\ h.keys) /\ h.busy

Invalid(h) ==
  IF h.at = "decide" THEN Outlived(h) ELSE h.candidate # 0 \/ h.busy

Decide(t) ==
  /\ handler[t].at \in {"decide", "blind"}
  /\ IF ~handler[t].stale /\ Invalid(handler[t])
     THEN /\ Bump(t, StaleOps(t))
          /\ handler' = [handler EXCEPT ![t].at = "signOut"]
     ELSE handler' = [handler EXCEPT ![t] = Deaf] /\ UNCHANGED opener
  /\ UNCHANGED <<session, keys, tab, inbox, granted, signals, faults>>

SignOut(t) ==
  /\ handler[t].at = "signOut"
  /\ SetTab(t, [tab[t] EXCEPT !.vault = 0])
  /\ handler' = [handler EXCEPT ![t].at = "finish"]
  /\ UNCHANGED <<session, keys, opener, inbox, granted, signals, faults>>

\* After another look at storage, for the notice, memory is cleared.
Finish(t) ==
  /\ handler[t].at = "finish"
  /\ SetTab(t, [tab[t] EXCEPT !.active = 0, !.init = 0, !.by = 0, !.view = "connect"])
  /\ handler' = [handler EXCEPT ![t] = Deaf]
  /\ UNCHANGED <<session, keys, opener, inbox, granted, signals, faults>>

Opening(t, s) ==
  \/ Boot(t, s) \/ Approved(t, s) \/ Open(t, s) \/ ReadDurable(t, s)
  \/ Verified(t, s) \/ Close(t, s)

Leaving(t) == Leave(t, "disconnect") \/ Leave(t, "forget") \/ Clear(t) \/ Publish(t)
Hearing(t) == Hear(t) \/ Look(t) \/ Decide(t) \/ SignOut(t) \/ Finish(t)

-----------------------------------------------------------------------------
(* Four windows of the code, which the steps fall into freely *)

\* The windows a step falls into are remembered; nothing keeps it from them.
Enters(windows) == overlaps' = overlaps \cup windows
In(window, in) == IF in THEN {window} ELSE {}

\* Another tab has the stored session open, or is about to, when this one
\* stores or restores another session.
Elsewhere(t) == session # 0 /\ \E u \in Tabs \ {t} :
  \/ session \in {tab[u].active, tab[u].vault}
  \/ \E s \in Slots : opener[u][s].at # "off" /\ opener[u][s].session = session

\* The tab is about to clear what it has in memory, when it opens a vault.
SigningOut(t) == handler[t].at \in {"signOut", "finish"}

\* An operation that is stale still runs in the tab when it begins another.
Starts(t, s) ==
  \/ Save(t, s) /\ Enters(In("replace", Elsewhere(t)) \cup In("restart", Running(t)))
  \/ Ready(t, s) /\ Enters(In("late", SigningOut(t)))
  \/ StartPairing(t, s) /\ Enters(In("restart", Running(t)) \cup In("late", SigningOut(t)))

Stores(t, s) ==
  LET o == opener[t][s] IN
  \/ /\ Install(t, s)
     /\ Enters(In("replace", session = o.expected /\ ~o.stale /\ Elsewhere(t)))
  \/ /\ Installed(t, s)
     /\ Enters(In("rollback", o.stale /\ session = o.session /\ Elsewhere(t)))

TabsNext ==
  \/ \E t \in Tabs, s \in Slots : Starts(t, s) \/ Stores(t, s)
  \/ /\ \/ \E t \in Tabs, s \in Slots : Opening(t, s)
        \/ \E t \in Tabs : CancelPairing(t) \/ Leaving(t) \/ Hearing(t)
     /\ UNCHANGED overlaps

TabsSpec == TabsInit /\ [][TabsNext]_tabsVars

-----------------------------------------------------------------------------
(* Properties *)

\* Nothing under way in the tab, and no signal it has yet to handle or get.
Settled(t) ==
  /\ ~Running(t) /\ handler[t].at = "off" /\ inbox[t] = <<>>
  /\ \A u \in Tabs : tab[u].leaving = "no"

\* A settled tab has the stored session open, or nothing: no tab goes on with
\* access another one has ended, but for a session that another tab stored or
\* restored in its place, of which nobody is told, and for an operation that
\* began while a stale one still ran or the tab was signing out
\* (AuthVaultGate.svelte).  But for those operations, whatever is stored in its
\* place, the notes it has open are those of the session it has.
OpenIsStored ==
  \A t \in Tabs : Settled(t) =>
    /\ overlaps = {} => tab[t].active \in {0, session}
    /\ {"restart", "late"} \cap overlaps = {} => tab[t].vault = tab[t].active
=============================================================================
