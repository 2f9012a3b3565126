--------------------------- MODULE PairingProofs ---------------------------
(***************************************************************************)
(* The browser and the relay agree on a pairing, and the tabs of a browser *)
(* agree on the session they have open, for any number of tabs, requests,  *)
(* devices, sessions and faults.                                           *)
(***************************************************************************)
EXTENDS Pairing, Sequences, TLAPS

\* 0 is no request and no key.
Numbered == Requests \subseteq Nat \ {0}

Sessions == {NoSession} \cup [credential : Requests, pending : BOOLEAN]
Snapshots == [keys : Requests \cup {0}, session : Sessions]

Joining == {"poll", "snapshot", "keys", "open", "install"}
Finalizing == {"consume", "list", "complete"}
Restorable == {"keys", "open", "install", "installed", "restore"}

Stages == {"idle", "installed", "restore", "cancel", "verify", "revoke"} \cup Joining \cup Finalizing

\* What a tab has in hand.
Pursuits ==
  [at : Stages, request : Requests \cup {0}, as : {"none", "pairing", "resumption"},
   aborted : BOOLEAN, before : Snapshots, installed : Requests \cup {0}]

PairingTypes ==
  /\ request \in [Requests -> [state : {"none", "open", "approved", "active", "revoked", "gone"},
                               device : Nat]]
  /\ device \in Nat /\ drawn \in Nat /\ device <= drawn
  /\ keys \in Requests \cup {0} /\ session \in Sessions
  /\ tab \in [Tabs -> Pursuits]

\* A pairing, from the request to its end or withdrawal, and the part of it in which
\* the state from before may still be put back.
Pairs(t) == tab[t].as = "pairing"
AtWork(t) == Pairs(t) /\ tab[t].at \notin {"poll", "cancel"}
MayRestore(t) == Pairs(t) /\ tab[t].at \in Restorable

Known(r) == request[r].state # "none"
OfDevice(k, d) == k # 0 => Known(k) /\ request[k].device = d

\* Device ids are drawn once, and a device has a new request only when all its
\* others are gone.
RequestsInOrder ==
  /\ \A r \in Requests : Known(r) => request[r].device \in 1..drawn
  /\ \A q, r \in Requests : q < r /\ Known(r) =>
       Known(q) /\ (request[q].device = request[r].device => request[q].state = "gone")

\* The key and the session are of the device the browser has now.
StoredOfDevice ==
  /\ OfDevice(keys, device) /\ OfDevice(session.credential, device)
  /\ session # NoSession => keys # 0

TabsOfRequests ==
  /\ \A t \in Tabs :
       /\ tab[t].at = "idle" <=> tab[t].as = "none"
       /\ tab[t].at # "idle" => Mine(t) \in Requests /\ Known(Mine(t))
       /\ tab[t].as = "resumption" => tab[t].at \in Finalizing
  /\ \A t, u \in Tabs : Pairs(t) /\ Pairs(u) /\ Mine(t) = Mine(u) => t = u

\* A tab that pairs has the last request of its device.
LastOfDevice ==
  \A t \in Tabs, r \in Requests :
    AtWork(t) /\ r > Mine(t) /\ Known(r) => request[r].device # request[Mine(t)].device

\* What a tab may put back is of the same device, and a session among it was given up.
CanRestore(p) ==
  LET d == request[p.request].device
      r == p.before.session.credential IN
  /\ OfDevice(p.before.keys, d) /\ OfDevice(p.installed, d)
  /\ p.installed = 0 => p.before.keys = 0
  /\ p.at \in {"open", "install", "installed"} => p.installed # 0
  /\ p.before.session # NoSession =>
       /\ p.before.keys # 0 /\ OfDevice(r, d) /\ p.before.session.pending
       /\ request[r].state = "gone" /\ r \notin cancelled \cup {p.request}

RestoresOfDevice == \A t \in Tabs : MayRestore(t) => CanRestore(tab[t])

\* No request was made over an expired one that was still being installed, and no tab
\* has resumed a session that its pairing could still take back.
NoExpired == "expired" \notin overlaps
NoRollback == "rollback" \notin overlaps

Unresumed(t) ==
  /\ Pairs(t)
  /\ \/ tab[t].at \in Joining
     \/ NoRollback /\ tab[t].at \in {"installed", "restore"}

\* Before the session is installed nobody has it; until it is consumed nobody else works on it.
NotYetInstalled ==
  \A t \in Tabs : Pairs(t) /\ tab[t].at \in Joining =>
    /\ session.credential # Mine(t)
    /\ \A u \in Tabs : MayRestore(u) => tab[u].before.session.credential # Mine(t)

NotYetConsumed ==
  \A t \in Tabs : Pairs(t) /\ tab[t].at \in Joining \cup {"installed", "restore"} =>
    /\ Unresumed(t) => request[Mine(t)].state \notin {"active", "revoked"}
    /\ Unresumed(t) => \A u \in Tabs : tab[u].as = "resumption" => Mine(u) # Mine(t)
    /\ session.credential = Mine(t) => keys = tab[t].installed

Held(r) ==
  r \in dropped \/ session.credential = r \/ request[r].state \in {"gone", "revoked"}

HeldByTabs ==
  \A t \in Tabs :
    /\ NoRollback /\ tab[t].at \in Finalizing \cup {"installed", "verify"} => Held(Mine(t))
    /\ tab[t].at = "complete" => request[Mine(t)].state \in {"active", "revoked"}
    /\ tab[t].at = "revoke" => session.credential # Mine(t)

RevokedAreLeft ==
  \A r \in Requests : request[r].state = "revoked" => session.credential # r

WithdrawnAreLeft ==
  /\ \A t \in Tabs : Pairs(t) /\ tab[t].at = "cancel" =>
       /\ session # Paired(Mine(t))
       /\ \A u \in Tabs : MayRestore(u) => tab[u].before.session # Paired(Mine(t))
  /\ \A r \in cancelled :
       /\ r \in Requests /\ Known(r)
       /\ session # Paired(r)
       /\ \A t \in Tabs : Pairs(t) => Mine(t) # r

ActiveHeld ==
  NoRollback =>
    \A r \in Requests :
      Active(r) => r \in dropped \/ (session.credential = r /\ keys # 0)

PairingInv ==
  /\ PairingTypes /\ RequestsInOrder /\ StoredOfDevice /\ TabsOfRequests /\ LastOfDevice
  /\ RestoresOfDevice /\ NotYetInstalled /\ NotYetConsumed /\ HeldByTabs /\ RevokedAreLeft
  /\ WithdrawnAreLeft /\ ActiveHeld /\ FinalizedIsActive

-----------------------------------------------------------------------------
(* Steps that leave what is stored as it is *)

LEMMA PairingInvInit ==
  ASSUME Numbered
  PROVE  PairingInit => PairingInv
<1> SUFFICES ASSUME PairingInit PROVE PairingInv
  OBVIOUS
<1>1. /\ AtEase.at = "idle" /\ AtEase.as = "none" /\ AtEase.request = 0
      /\ AtEase.before.session = NoSession
  BY DEF AtEase
<1>2. \A t \in Tabs : tab[t] = AtEase
  BY DEF PairingInit
<1>3. PairingTypes
  BY DEF Numbered, PairingInit, PairingTypes, Pursuits, AtEase, Sessions, Snapshots, NoSession, Stages
<1>4. \A r \in Requests : request[r].state = "none"
  BY DEF PairingInit
<1>5. session = NoSession /\ NoSession.credential = 0 /\ ~NoSession.pending
  BY DEF PairingInit, NoSession
<1>6. RequestsInOrder /\ StoredOfDevice /\ RevokedAreLeft /\ ActiveHeld /\ FinalizedIsActive
  BY <1>4, <1>5 DEF PairingInit, RequestsInOrder, StoredOfDevice, RevokedAreLeft, Known,
                    OfDevice, ActiveHeld, FinalizedIsActive, Active
<1>7. /\ TabsOfRequests /\ LastOfDevice /\ RestoresOfDevice /\ NotYetInstalled
      /\ NotYetConsumed /\ HeldByTabs
  BY <1>1, <1>2 DEF TabsOfRequests, LastOfDevice, RestoresOfDevice, NotYetInstalled,
                    NotYetConsumed, HeldByTabs, Pairs, AtWork, MayRestore, Finalizing
<1>8. WithdrawnAreLeft
  BY <1>1, <1>2, <1>5 DEF PairingInit, WithdrawnAreLeft, Pairs
<1> QED
  BY <1>3, <1>6, <1>7, <1>8 DEF PairingInv

\* One tab goes on.
Alone(t) ==
  /\ tab' \in [Tabs -> Pursuits]
  /\ \A u \in Tabs \ {t} : tab'[u] = tab[u]

LEMMA PutsOne ==
  ASSUME PairingTypes, NEW t \in Tabs,
         NEW w \in Pursuits,
         Puts(t, w)
  PROVE  Alone(t) /\ tab'[t] = w
  BY DEF PairingTypes, Puts, Alone

LEMMA GoesOne ==
  ASSUME PairingTypes, NEW t \in Tabs, NEW at \in Stages, Goes(t, at)
  PROVE  /\ Alone(t) /\ tab'[t].at = at /\ tab'[t].as = tab[t].as
         /\ tab'[t].request = tab[t].request /\ tab'[t].before = tab[t].before
         /\ tab'[t].installed = tab[t].installed
<1> DEFINE w == [tab[t] EXCEPT !.at = at]
<1>1. tab[t] \in Pursuits
  BY DEF PairingTypes
<1>2. /\ w \in Pursuits /\ w.at = at /\ w.as = tab[t].as /\ w.request = tab[t].request
      /\ w.before = tab[t].before /\ w.installed = tab[t].installed
  BY <1>1 DEF Pursuits
<1>3. Puts(t, w)
  BY DEF Goes
<1> HIDE DEF w
<1> QED
  BY <1>2, <1>3, PutsOne

\* What a step may do to requests alone: none comes or comes back, one that
\* becomes active or revoked is left by all tabs but those that finalize it.
RequestsTurn ==
  /\ request' \in [Requests -> [state : {"none", "open", "approved", "active", "revoked", "gone"},
                                device : Nat]]
  /\ \A r \in Requests :
       /\ request'[r].device = request[r].device
       /\ request'[r].state = "none" <=> request[r].state = "none"
       /\ request[r].state = "gone" => request'[r].state = "gone"
       /\ request[r].state = "active" => request'[r].state \in {"active", "revoked"}
       /\ request[r].state = "revoked" => request'[r].state = "revoked"
       /\ NoRollback /\ request'[r].state = "active" => r \in dropped \/ session.credential = r
       /\ request'[r].state = "revoked" => session.credential # r
       /\ request'[r].state \in {"active", "revoked"} =>
            \A t \in Tabs : Unresumed(t) => Mine(t) # r

\* No window is forgotten.
Further == NoRollback' => NoRollback

\* An id is drawn only where there is none.
DeviceKept ==
  \/ UNCHANGED <<device, drawn>>
  \/ device = 0 /\ device' = drawn + 1 /\ drawn' = drawn + 1

LEMMA TurnedKeep ==
  ASSUME Numbered, PairingInv, RequestsTurn, DeviceKept, Further,
         UNCHANGED <<keys, session, dropped>>
  PROVE  /\ RequestsInOrder' /\ StoredOfDevice' /\ RevokedAreLeft' /\ ActiveHeld'
         /\ FinalizedIsActive' /\ \A r \in Requests : Held(r) => Held(r)'
<1>1. session.credential # 0 => session.credential \in Requests
  BY DEF PairingInv, PairingTypes, Sessions, NoSession
<1>2. keys # 0 => keys \in Requests
  BY DEF PairingInv, PairingTypes
<1>3. RequestsInOrder'
  BY DEF PairingInv, PairingTypes, RequestsInOrder, RequestsTurn, DeviceKept, Known
<1>4. StoredOfDevice'
  <2>1. device = 0 => keys = 0 /\ session.credential = 0
    BY <1>1, <1>2 DEF PairingInv, StoredOfDevice, RequestsInOrder, OfDevice
  <2> QED
    BY <1>1, <1>2, <2>1 DEF PairingInv, StoredOfDevice, RequestsTurn, DeviceKept, Known, OfDevice
<1>5. RevokedAreLeft'
  BY DEF PairingInv, RevokedAreLeft, RequestsTurn
<1>6. ActiveHeld'
  BY DEF Numbered, PairingInv, ActiveHeld, Further, RequestsTurn, Active, StoredOfDevice, NoSession
<1>7. FinalizedIsActive'
  BY <1>1 DEF PairingInv, PairingTypes, Sessions, FinalizedIsActive, RequestsTurn
<1>8. \A r \in Requests : Held(r) => Held(r)'
  BY DEF RequestsTurn, Held
<1> QED
  BY <1>3, <1>4, <1>5, <1>6, <1>7, <1>8


\* What a tab may put back stays what it is.
LEMMA CanStill ==
  ASSUME PairingInv, RequestsTurn, NEW p \in Pursuits, CanRestore(p),
         p.before.session # NoSession => p.before.session.credential \notin cancelled',
         NEW q \in Pursuits, p.request \in Requests, q.request = p.request,
         q.before = p.before, q.installed = p.installed,
         q.at \in {"open", "install", "installed"} => p.installed # 0
  PROVE  CanRestore(q)'
<1>1. /\ p.before.keys # 0 => p.before.keys \in Requests
      /\ p.installed # 0 => p.installed \in Requests
      /\ p.before.session # NoSession => p.before.session.credential \in Requests
  BY DEF Pursuits, Snapshots, Sessions
<1> QED
  BY <1>1 DEF CanRestore, OfDevice, Known, RequestsTurn

\* A tab goes on with its pairing or resumption, with what it has in hand.
Proceeds(t) ==
  LET p == tab[t]
      q == tab'[t] IN
  /\ Alone(t) /\ p.at # "idle" /\ q.at # "idle"
  /\ q.as = p.as /\ q.request = p.request /\ q.before = p.before /\ q.installed = p.installed
  /\ p.as = "resumption" => q.at \in Finalizing
  /\ q.at \in Joining => p.at \in Joining
  /\ q.at \in {"installed", "restore"} => p.at \in Joining \cup {"installed", "restore"}
  /\ q.at \in Restorable => p.at \in Restorable
  /\ q.at \in {"open", "install", "installed"} => p.installed # 0
  /\ p.at \in {"poll", "cancel"} /\ q.at \notin {"poll", "cancel"} =>
       request[p.request].state = "approved"
  /\ NoRollback /\ q.at \in Finalizing \cup {"installed", "verify"} => Held(p.request)'
  /\ q.at = "complete" => request'[p.request].state \in {"active", "revoked"}
  /\ q.at = "revoke" => session.credential # p.request
  /\ q.at = "cancel" =>
       /\ session # Paired(p.request)
       /\ \A u \in Tabs : MayRestore(u) => tab[u].before.session # Paired(p.request)

LEMMA ProceedKept ==
  ASSUME Numbered, PairingInv, NEW t \in Tabs, Proceeds(t), RequestsTurn, DeviceKept, Further,
         UNCHANGED <<keys, session, dropped, cancelled>>
  PROVE  PairingInv'
<1>1. /\ RequestsInOrder' /\ StoredOfDevice' /\ RevokedAreLeft' /\ ActiveHeld'
      /\ FinalizedIsActive' /\ \A r \in Requests : Held(r) => Held(r)'
  BY TurnedKeep
<1>2. PairingTypes'
  BY DEF PairingInv, PairingTypes, Proceeds, Alone, RequestsTurn, DeviceKept
<1>3. \A u \in Tabs : /\ Mine(u)' = Mine(u) /\ tab'[u].as = tab[u].as
                      /\ tab'[u].before = tab[u].before /\ tab'[u].installed = tab[u].installed
                      /\ tab'[u].at = "idle" <=> tab[u].at = "idle"
  BY DEF Proceeds, Alone, Mine
<1>4. \A u \in Tabs : /\ Pairs(u)' <=> Pairs(u)
                      /\ MayRestore(u)' => MayRestore(u)
  BY <1>3 DEF Proceeds, Alone, Pairs, MayRestore
<1>5. \A u \in Tabs : tab[u].at # "idle" => Mine(u) \in Requests /\ Known(Mine(u))
  BY DEF PairingInv, TabsOfRequests
<1>6. \A u \in Tabs : Mine(u) \in Requests /\ Known(Mine(u)) => Known(Mine(u))'
  BY <1>3 DEF RequestsTurn, Known
<1>7. TabsOfRequests'
  <2>1. \A u \in Tabs : tab[u].as = "resumption" => tab'[u].at \in Finalizing
    BY DEF PairingInv, TabsOfRequests, Proceeds, Alone
  <2>2. \A u, w \in Tabs : Pairs(u) /\ Pairs(w) /\ Mine(u) = Mine(w) => u = w
    BY DEF PairingInv, TabsOfRequests
  <2>3. \A u \in Tabs : tab[u].at = "idle" <=> tab[u].as = "none"
    BY DEF PairingInv, TabsOfRequests
  <2> QED
    BY <1>3, <1>4, <1>5, <1>6, <2>1, <2>2, <2>3 DEF TabsOfRequests
<1>8. LastOfDevice'
  <2> SUFFICES ASSUME NEW u \in Tabs, NEW r \in Requests, AtWork(u)', r > Mine(u), Known(r)'
               PROVE  request[r].device # request[Mine(u)].device
    BY <1>3, <1>5 DEF LastOfDevice, RequestsTurn, AtWork, Pairs, PairingInv, TabsOfRequests
  <2>1. Known(r) /\ Mine(u) \in Requests
    BY <1>3, <1>5 DEF RequestsTurn, Known, AtWork, Pairs, PairingInv, TabsOfRequests
  <2>2. CASE AtWork(u)
    BY <2>1, <2>2 DEF PairingInv, LastOfDevice
  <2>3. CASE ~AtWork(u)
    <3>1. u = t /\ request[Mine(u)].state = "approved"
      BY <1>3, <1>4, <2>3 DEF AtWork, Proceeds, Alone, Mine
    <3> QED
      BY <2>1, <3>1 DEF PairingInv, RequestsInOrder, Numbered
  <2> QED
    BY <2>2, <2>3
<1>9. RestoresOfDevice'
  <2> SUFFICES ASSUME NEW u \in Tabs, MayRestore(u)', NEW q, q = tab'[u]
               PROVE  CanRestore(q)'
    BY DEF RestoresOfDevice
  <2> DEFINE p == tab[u]
  <2>1. CanRestore(p) /\ p \in Pursuits /\ q \in Pursuits
    BY <1>2, <1>4 DEF PairingInv, RestoresOfDevice, PairingTypes
  <2>2. /\ q.request = p.request /\ q.before = p.before /\ q.installed = p.installed
        /\ q.at \in {"open", "install", "installed"} => p.installed # 0
    BY <1>3, <2>1 DEF Proceeds, Alone, Mine, CanRestore
  <2>3. p.request \in Requests
    BY <1>3, <1>5 DEF Mine, MayRestore, Pairs, PairingInv, TabsOfRequests
  <2>4. p.before.session # NoSession => p.before.session.credential \notin cancelled'
    BY <2>1 DEF CanRestore
  <2> QED
    BY <2>1, <2>2, <2>3, <2>4, CanStill
<1>10. NotYetInstalled'
  <2>1. \A u \in Tabs : tab'[u].at \in Joining => tab[u].at \in Joining
    BY DEF Proceeds, Alone
  <2> QED
    BY <1>3, <1>4, <2>1 DEF PairingInv, NotYetInstalled
<1>11. NotYetConsumed'
  <2>1. \A u \in Tabs : tab'[u].at \in Joining \cup {"installed", "restore"} =>
          tab[u].at \in Joining \cup {"installed", "restore"}
    BY DEF Proceeds, Alone
  <2>2. \A u \in Tabs : Unresumed(u) => request'[Mine(u)].state \notin {"active", "revoked"}
    BY DEF RequestsTurn, PairingInv, TabsOfRequests, Unresumed, Pairs
  <2>3. \A u \in Tabs : Unresumed(u)' => Unresumed(u)
    <3>1. CASE Pairs(t) /\ tab'[t].at \in {"installed", "restore"}
      BY <1>3, <1>4, <3>1 DEF Proceeds, Alone, Unresumed, Further, Joining
    <3>2. CASE ~(Pairs(t) /\ tab'[t].at \in {"installed", "restore"})
      BY <1>3, <1>4, <3>2 DEF Proceeds, Alone, Unresumed, Further
    <3> QED
      BY <3>1, <3>2
  <2> QED
    BY <1>3, <1>4, <2>1, <2>2, <2>3 DEF PairingInv, NotYetConsumed
<1>12. HeldByTabs'
  <2> SUFFICES ASSUME NEW u \in Tabs
               PROVE  /\ NoRollback /\ tab'[u].at \in Finalizing \cup {"installed", "verify"} =>
                           Held(Mine(u))'
                      /\ tab'[u].at = "complete" => request'[Mine(u)].state \in {"active", "revoked"}
                      /\ tab'[u].at = "revoke" => session.credential # Mine(u)
    BY <1>3 DEF HeldByTabs, Further
  <2>1. CASE u = t
    BY <1>3, <2>1 DEF Proceeds, Held, Mine
  <2>2. CASE u # t
    <3>1. tab'[u] = tab[u]
      BY <2>2 DEF Proceeds, Alone
    <3>2. tab[u].at \in Finalizing \cup {"installed", "verify", "revoke"} => Mine(u) \in Requests
      BY <1>5 DEF Finalizing
    <3> QED
      BY <1>1, <1>3, <3>1, <3>2 DEF PairingInv, HeldByTabs, RequestsTurn, Held, Finalizing
  <2> QED
    BY <2>1, <2>2
<1>13. WithdrawnAreLeft'
  <2>1. \A u \in Tabs : Pairs(u) /\ tab'[u].at = "cancel" =>
          /\ session # Paired(Mine(u))
          /\ \A w \in Tabs : MayRestore(w) => tab[w].before.session # Paired(Mine(u))
    BY DEF PairingInv, WithdrawnAreLeft, Proceeds, Alone, Mine
  <2> QED
    BY <1>3, <1>4, <2>1 DEF PairingInv, WithdrawnAreLeft, RequestsTurn, Known
<1> QED
  BY <1>1, <1>2, <1>7, <1>8, <1>9, <1>10, <1>11, <1>12, <1>13 DEF PairingInv

\* A tab that is done has nothing in hand.
LEMMA EaseKept ==
  ASSUME Numbered, PairingInv, NEW t \in Tabs, Puts(t, AtEase), RequestsTurn, DeviceKept, Further,
         UNCHANGED <<keys, session, dropped>>,
         \/ cancelled' = cancelled
         \/ cancelled' = cancelled \cup {Mine(t)} /\ Pairs(t) /\ tab[t].at = "cancel"
  PROVE  PairingInv'
<1>1. /\ RequestsInOrder' /\ StoredOfDevice' /\ RevokedAreLeft' /\ ActiveHeld'
      /\ FinalizedIsActive' /\ \A r \in Requests : Held(r) => Held(r)'
  BY TurnedKeep
<1>2. /\ AtEase \in Pursuits /\ AtEase.at = "idle" /\ AtEase.as = "none"
  BY DEF AtEase, Pursuits, Snapshots, Sessions, Stages
<1>3. Alone(t) /\ tab'[t] = AtEase
  BY <1>2, PutsOne DEF PairingInv
<1>4. PairingTypes'
  BY <1>3 DEF PairingInv, PairingTypes, Alone, RequestsTurn, DeviceKept
<1>5. \A u \in Tabs : tab'[u].as # "none" => u # t /\ tab'[u] = tab[u]
  BY <1>2, <1>3 DEF Alone
<1>6. \A u \in Tabs : tab'[u].at # "idle" => u # t /\ tab'[u] = tab[u]
  BY <1>2, <1>3 DEF Alone
<1>7. \A u \in Tabs : /\ Pairs(u)' => u # t /\ Pairs(u) /\ tab'[u] = tab[u]
                      /\ MayRestore(u)' => u # t /\ MayRestore(u) /\ tab'[u] = tab[u]
                      /\ AtWork(u)' => u # t /\ AtWork(u) /\ tab'[u] = tab[u]
                      /\ Unresumed(u)' => u # t /\ Unresumed(u) /\ tab'[u] = tab[u]
  BY <1>5 DEF Pairs, MayRestore, AtWork, Unresumed, Further
<1>8. \A u \in Tabs : tab[u].at # "idle" => Mine(u) \in Requests /\ request'[Mine(u)].state # "none"
  BY DEF PairingInv, TabsOfRequests, RequestsTurn, Known
<1>9. TabsOfRequests'
  BY <1>2, <1>3, <1>5, <1>6, <1>7, <1>8 DEF PairingInv, TabsOfRequests, Mine, Known, Alone
<1>10. \A u \in Tabs : Pairs(u) => tab[u].at # "idle"
  BY DEF PairingInv, TabsOfRequests, Pairs
<1>11. LastOfDevice'
  BY <1>7, <1>8, <1>10 DEF PairingInv, LastOfDevice, RequestsTurn, Known, Mine, AtWork
<1>12. RestoresOfDevice'
  <2> SUFFICES ASSUME NEW u \in Tabs, MayRestore(u)', NEW q, q = tab'[u]
               PROVE  CanRestore(q)'
    BY DEF RestoresOfDevice
  <2>1. CanRestore(q) /\ q \in Pursuits /\ q = tab[u] /\ u # t
    BY <1>7 DEF PairingInv, RestoresOfDevice, PairingTypes
  <2>2. q.request \in Requests /\ q.before \in Snapshots
    BY <1>7, <1>8, <1>10, <2>1 DEF MayRestore, Mine, Pursuits
  <2>3. ASSUME q.before.session # NoSession PROVE q.before.session.credential \notin cancelled'
    <3>1. q.before.session \in [credential : Requests, pending : BOOLEAN]
      BY <2>2, <2>3 DEF Snapshots, Sessions
    <3>2. q.before.session = Paired(q.before.session.credential)
      BY <2>1, <2>3, <3>1 DEF CanRestore, Paired
    <3> QED
      BY <1>7, <2>1, <2>3, <3>2 DEF CanRestore, PairingInv, WithdrawnAreLeft
  <2>4. q.at \in {"open", "install", "installed"} => q.installed # 0
    BY <2>1 DEF CanRestore
  <2> QED
    BY <2>1, <2>2, <2>3, <2>4, CanStill
<1>13. NotYetInstalled'
  BY <1>7 DEF PairingInv, NotYetInstalled, Mine
<1>14. NotYetConsumed'
  <2>1. \A u \in Tabs : Unresumed(u) => request'[Mine(u)].state \notin {"active", "revoked"}
    BY <1>8, <1>10 DEF RequestsTurn, Unresumed
  <2> QED
    BY <1>5, <1>7, <2>1 DEF PairingInv, NotYetConsumed, Mine
<1>15. HeldByTabs'
  <2> SUFFICES ASSUME NEW u \in Tabs, tab'[u].at # "idle"
               PROVE  /\ NoRollback /\ tab'[u].at \in Finalizing \cup {"installed", "verify"} =>
                           Held(Mine(u))'
                      /\ tab'[u].at = "complete" => request'[Mine(u)'].state \in {"active", "revoked"}
                      /\ tab'[u].at = "revoke" => session.credential # Mine(u)'
    BY DEF HeldByTabs, Finalizing, Further
  <2>1. tab'[u] = tab[u] /\ Mine(u)' = Mine(u) /\ Mine(u) \in Requests
    BY <1>6, <1>8 DEF Mine
  <2> QED
    BY <1>1, <2>1 DEF PairingInv, HeldByTabs, RequestsTurn, Held
<1>16. WithdrawnAreLeft'
  <2>1. \A u \in Tabs : Pairs(u)' /\ tab'[u].at = "cancel" =>
          /\ session # Paired(Mine(u)')
          /\ \A w \in Tabs : MayRestore(w)' => tab'[w].before.session # Paired(Mine(u)')
    BY <1>7 DEF PairingInv, WithdrawnAreLeft, Mine
  <2>2. \A r \in cancelled' :
          /\ session # Paired(r)
          /\ \A u \in Tabs : Pairs(u)' => Mine(u)' # r
          /\ r \in Requests /\ Known(r)'
    BY <1>7, <1>8, <1>10 DEF RequestsTurn, Known, PairingInv, WithdrawnAreLeft, TabsOfRequests, Mine
  <2> QED
    BY <2>1, <2>2 DEF WithdrawnAreLeft
<1> QED
  BY <1>1, <1>4, <1>9, <1>11, <1>12, <1>13, <1>14, <1>15, <1>16 DEF PairingInv

\* The relay goes on alone.
LEMMA RequestKept ==
  ASSUME Numbered, PairingInv, RequestsTurn, Further,
         UNCHANGED <<device, keys, session, tab, dropped, cancelled, drawn>>
  PROVE  PairingInv'
<1>1. /\ RequestsInOrder' /\ StoredOfDevice' /\ RevokedAreLeft' /\ ActiveHeld'
      /\ FinalizedIsActive' /\ \A r \in Requests : Held(r) => Held(r)'
  BY TurnedKeep DEF DeviceKept
<1>2. PairingTypes'
  BY DEF PairingInv, PairingTypes, RequestsTurn
<1>3. \A u \in Tabs : /\ Mine(u)' = Mine(u) /\ tab'[u] = tab[u]
                      /\ Pairs(u)' <=> Pairs(u)
                      /\ MayRestore(u)' <=> MayRestore(u)
                      /\ AtWork(u)' <=> AtWork(u)
                      /\ Unresumed(u)' => Unresumed(u)
  BY DEF Mine, Pairs, MayRestore, AtWork, Unresumed, Further
<1>4. \A u \in Tabs : tab[u].at # "idle" => Mine(u) \in Requests /\ request'[Mine(u)].state # "none"
  BY DEF PairingInv, TabsOfRequests, RequestsTurn, Known
<1>5. \A u \in Tabs : Pairs(u) => tab[u].at # "idle"
  BY DEF PairingInv, TabsOfRequests, Pairs
<1>6. TabsOfRequests'
  BY <1>3, <1>4 DEF PairingInv, TabsOfRequests, Known
<1>7. LastOfDevice'
  BY <1>3, <1>4, <1>5 DEF PairingInv, LastOfDevice, RequestsTurn, Known, AtWork
<1>8. RestoresOfDevice'
  <2> SUFFICES ASSUME NEW u \in Tabs, MayRestore(u)', NEW q, q = tab'[u]
               PROVE  CanRestore(q)'
    BY DEF RestoresOfDevice
  <2>1. /\ CanRestore(q) /\ q \in Pursuits /\ q.request \in Requests
        /\ q.before.session # NoSession => q.before.session.credential \notin cancelled'
        /\ q.at \in {"open", "install", "installed"} => q.installed # 0
    BY <1>3, <1>4, <1>5
    DEF PairingInv, RestoresOfDevice, PairingTypes, CanRestore, MayRestore, Mine
  <2> QED
    BY <2>1, CanStill
<1>9. NotYetInstalled'
  BY <1>3 DEF PairingInv, NotYetInstalled
<1>10. NotYetConsumed'
  <2>1. \A u \in Tabs : Unresumed(u) => request'[Mine(u)].state \notin {"active", "revoked"}
    BY <1>4, <1>5 DEF RequestsTurn, Unresumed
  <2> QED
    BY <1>3, <2>1 DEF PairingInv, NotYetConsumed
<1>11. HeldByTabs'
  BY <1>1, <1>3, <1>4 DEF PairingInv, HeldByTabs, RequestsTurn, Held, Finalizing, Further
<1>12. WithdrawnAreLeft'
  BY <1>3 DEF PairingInv, WithdrawnAreLeft, RequestsTurn, Known
<1> QED
  BY <1>1, <1>2, <1>6, <1>7, <1>8, <1>9, <1>10, <1>11, <1>12 DEF PairingInv

LEMMA StaysTurned ==
  ASSUME PairingInv, request' = request
  PROVE  RequestsTurn
<1>1. \A r \in Requests :
        /\ NoRollback /\ request[r].state = "active" => r \in dropped \/ session.credential = r
        /\ request[r].state = "revoked" => session.credential # r
  BY DEF PairingInv, ActiveHeld, Active, RevokedAreLeft
<1>2. \A t \in Tabs : Unresumed(t) => request[Mine(t)].state \notin {"active", "revoked"}
  BY DEF PairingInv, NotYetConsumed, Unresumed
<1> QED
  BY <1>1, <1>2 DEF PairingInv, PairingTypes, RequestsTurn

\* One tab at a time is at work on the requests of a device, so nobody else may put
\* its request back.
LEMMA OneOfDevice ==
  ASSUME Numbered, PairingInv, NEW t \in Tabs, NEW u \in Tabs, AtWork(t), AtWork(u),
         request[Mine(t)].device = request[Mine(u)].device
  PROVE  t = u
<1>1. /\ Mine(t) \in Requests /\ Mine(u) \in Requests /\ Known(Mine(t)) /\ Known(Mine(u))
      /\ Pairs(t) /\ Pairs(u)
  BY DEF PairingInv, TabsOfRequests, AtWork, Pairs
<1>2. ~(Mine(t) > Mine(u)) /\ ~(Mine(u) > Mine(t))
  BY <1>1 DEF PairingInv, LastOfDevice
<1>3. Mine(t) = Mine(u)
  <2>1. \A m, n \in Nat : ~(m > n) /\ ~(n > m) => m = n
    OBVIOUS
  <2>2. Mine(t) \in Nat /\ Mine(u) \in Nat
    BY <1>1 DEF Numbered
  <2> QED
    BY <1>2, <2>1, <2>2
<1> QED
  BY <1>1, <1>3 DEF PairingInv, TabsOfRequests

LEMMA NobodyRestores ==
  ASSUME Numbered, PairingInv, NEW t \in Tabs, AtWork(t), NEW u \in Tabs, MayRestore(u)
  PROVE  tab[u].before.session.credential # Mine(t)
<1> SUFFICES ASSUME tab[u].before.session.credential = Mine(t) PROVE FALSE
  OBVIOUS
<1>1. Mine(t) \in Requests /\ Mine(t) # 0
  BY DEF Numbered, PairingInv, TabsOfRequests, AtWork, Pairs
<1>2. AtWork(u) /\ CanRestore(tab[u])
  BY DEF PairingInv, RestoresOfDevice, MayRestore, AtWork, Restorable
<1>3. tab[u].before.session # NoSession
  BY <1>1 DEF NoSession
<1>4. request[Mine(t)].device = request[Mine(u)].device /\ Mine(t) # Mine(u)
  BY <1>1, <1>2, <1>3 DEF CanRestore, OfDevice, Mine
<1> QED
  BY <1>2, <1>4, OneOfDevice

-----------------------------------------------------------------------------
(* Steps that go on or end *)

LEMMA PollKept ==
  ASSUME Numbered, PairingInv, Further, NEW t \in Tabs, Poll(t) \/ Initialize(t) \/ Installed(t)
  PROVE  PairingInv'
<1>1. /\ UNCHANGED <<request, device, keys, session, dropped, cancelled, drawn>>
      /\ Stands(t, "poll") \/ Stands(t, "open") \/ Stands(t, "installed")
  BY DEF Poll, Initialize, Installed
<1>2. PICK at \in {"snapshot", "cancel", "restore", "install", "consume"} :
        /\ Goes(t, at)
        /\ Stands(t, "poll") => at = "cancel" \/ (at = "snapshot" /\ request[Mine(t)].state = "approved")
        /\ Stands(t, "open") => at \in {"restore", "install"}
        /\ Stands(t, "installed") => at \in {"restore", "consume"}
  BY DEF Poll, Initialize, Installed, Stands
<1>3. /\ Alone(t) /\ tab'[t].at = at /\ tab'[t].as = tab[t].as
      /\ tab'[t].request = tab[t].request /\ tab'[t].before = tab[t].before
      /\ tab'[t].installed = tab[t].installed
  BY <1>2, GoesOne DEF PairingInv, Stages, Joining, Finalizing
<1>4. Pairs(t) /\ Mine(t) \in Requests
  BY <1>1 DEF PairingInv, TabsOfRequests, Stands, Pairs, Finalizing, PairingTypes, Pursuits
<1>5. Stands(t, "poll") =>
        /\ session.credential # Mine(t)
        /\ \A u \in Tabs : MayRestore(u) => tab[u].before.session.credential # Mine(t)
  BY <1>4 DEF PairingInv, NotYetInstalled, Stands, Joining
<1>6. NoRollback /\ Stands(t, "installed") => Held(Mine(t)) /\ Held(Mine(t))'
  BY <1>1, <1>3 DEF PairingInv, HeldByTabs, Stands, Held, Mine
<1>7. Stands(t, "open") => tab[t].installed # 0
  BY <1>4 DEF PairingInv, RestoresOfDevice, CanRestore, MayRestore, Stands, Restorable
<1>8. Proceeds(t)
  BY <1>1, <1>2, <1>3, <1>4, <1>5, <1>6, <1>7
  DEF Proceeds, Stands, Mine, Held, Pairs, Joining, Restorable, Finalizing, Paired
<1> QED
  BY <1>1, <1>8, StaysTurned, ProceedKept DEF DeviceKept


LEMMA LoseKept ==
  ASSUME Numbered, PairingInv, Further, NEW t \in Tabs,
         CloseTab(t) \/ CancelRequest(t)
  PROVE  PairingInv'
<1>1. Puts(t, AtEase) /\ UNCHANGED <<device, keys, session, dropped, drawn>>
  BY DEF CloseTab, CancelRequest
<1>2. CASE CloseTab(t)
  BY <1>1, <1>2, StaysTurned, EaseKept DEF CloseTab, DeviceKept
<1>3. CASE CancelRequest(t)
  <2>1. /\ Pairs(t) /\ tab[t].at = "cancel" /\ Mine(t) \in Requests
    BY <1>3 DEF CancelRequest, Stands, PairingInv, TabsOfRequests, Pairs, Finalizing,
                PairingTypes, Pursuits
  <2>2. CASE UNCHANGED <<request, cancelled>>
    BY <1>1, <2>2, StaysTurned, EaseKept DEF DeviceKept
  <2>3. CASE /\ request' = [request EXCEPT ![Mine(t)].state =
                              IF @ \in {"open", "approved"} THEN "gone" ELSE @]
             /\ cancelled' = cancelled \cup {Mine(t)}
    <3>1. RequestsTurn
      <4>1. request' \in [Requests -> [state : {"none", "open", "approved", "active", "revoked",
                                                "gone"}, device : Nat]]
        BY <2>1, <2>3 DEF PairingInv, PairingTypes
      <4>2. \A r \in Requests :
              /\ request'[r].device = request[r].device
              /\ request'[r].state = request[r].state
                   \/ (request[r].state \in {"open", "approved"} /\ request'[r].state = "gone")
        BY <2>1, <2>3 DEF PairingInv, PairingTypes
      <4>3. UNCHANGED request => RequestsTurn
        BY StaysTurned
      <4>4. \A r \in Requests :
              /\ NoRollback /\ request[r].state = "active" =>
                   r \in dropped \/ session.credential = r
              /\ request[r].state = "revoked" => session.credential # r
        BY DEF PairingInv, ActiveHeld, Active, RevokedAreLeft
      <4>5. \A u \in Tabs : Unresumed(u) => request[Mine(u)].state \notin {"active", "revoked"}
        BY DEF PairingInv, NotYetConsumed, Unresumed
      <4> QED
        BY <4>1, <4>2, <4>4, <4>5 DEF RequestsTurn
    <3> QED
      BY <1>1, <2>1, <2>3, <3>1, EaseKept DEF DeviceKept
  <2> QED
    BY <1>3, <2>2, <2>3 DEF CancelRequest
<1> QED
  BY <1>2, <1>3

\* A request that becomes r's new state, of those the relay may give it.
LEMMA StateTurned ==
  ASSUME Numbered, PairingInv, NEW r \in Requests, NEW s, SetState(r, s),
         s \in {"open", "approved", "active", "revoked", "gone"}, request[r].state # "none",
         request[r].state = "gone" => s = "gone",
         request[r].state = "active" => s \in {"active", "revoked"},
         request[r].state = "revoked" => s = "revoked",
         NoRollback /\ s = "active" => r \in dropped \/ session.credential = r,
         s = "revoked" => session.credential # r,
         s \in {"active", "revoked"} => \A t \in Tabs : Unresumed(t) => Mine(t) # r
  PROVE  RequestsTurn /\ request'[r].state = s
<1>1. request' \in [Requests -> [state : {"none", "open", "approved", "active", "revoked",
                                          "gone"}, device : Nat]]
  BY DEF PairingInv, PairingTypes, SetState
<1>2. /\ \A q \in Requests : request'[q].device = request[q].device
      /\ \A q \in Requests \ {r} : request'[q].state = request[q].state
      /\ request'[r].state = s
  BY DEF PairingInv, PairingTypes, SetState
<1>3. \A q \in Requests :
        /\ NoRollback /\ request[q].state = "active" => q \in dropped \/ session.credential = q
        /\ request[q].state = "revoked" => session.credential # q
  BY DEF PairingInv, ActiveHeld, Active, RevokedAreLeft
<1>4. \A t \in Tabs : Unresumed(t) => request[Mine(t)].state \notin {"active", "revoked"}
  BY DEF PairingInv, NotYetConsumed, Unresumed
<1> QED
  BY <1>1, <1>2, <1>3, <1>4 DEF RequestsTurn

LEMMA ApproveKept ==
  ASSUME Numbered, PairingInv, Further, NEW r \in Requests, Approve(r) \/ Expire(r)
  PROVE  PairingInv'
<1>1. PICK s \in {"approved", "gone"} :
        SetState(r, s) /\ request[r].state \in {"open", "approved"}
  BY DEF Approve, Expire
<1>2. RequestsTurn
  BY <1>1, StateTurned
<1> QED
  BY <1>2, RequestKept DEF Approve, Expire

\* A tab that finalizes has the credential in the session, or it was dropped or given up.
LEMMA ConsumeKept ==
  ASSUME Numbered, PairingInv, Further, NEW t \in Tabs, Consume(t)
  PROVE  PairingInv'
<1> DEFINE r == Mine(t)
           done == request[r].state \in {"approved", "active"}
<1>1. /\ tab[t].at = "consume" /\ r \in Requests /\ request[r].state # "none" /\ (NoRollback => Held(r))
      /\ UNCHANGED <<device, keys, session, dropped, cancelled, drawn>>
  BY DEF Consume, Stands, PairingInv, TabsOfRequests, HeldByTabs, Known, Finalizing
<1>2. \A u \in Tabs : Unresumed(u) => Mine(u) # r
  <2> SUFFICES ASSUME NEW u \in Tabs, Unresumed(u), Mine(u) = r
               PROVE  FALSE
    OBVIOUS
  <2>1. Pairs(t) => u = t
    BY DEF PairingInv, TabsOfRequests, Unresumed
  <2>2. ~Pairs(t) => tab[t].as = "resumption"
    BY <1>1 DEF PairingInv, PairingTypes, Pursuits, TabsOfRequests, Pairs
  <2> QED
    BY <1>1, <2>1, <2>2 DEF PairingInv, NotYetConsumed, Unresumed, Joining
<1>3. PICK at \in {"complete", "list"} :
        /\ Goes(t, at)
        /\ \/ SetState(r, IF done THEN "active" ELSE request[r].state) /\ (at = "complete" => done)
           \/ UNCHANGED request /\ at = "list"
  <2>1. \/ /\ SetState(r, IF done THEN "active" ELSE request[r].state)
           /\ \/ Goes(t, IF done THEN "complete" ELSE "list")
              \/ Goes(t, "list")
        \/ Goes(t, "list") /\ UNCHANGED request
    BY DEF Consume
  <2> QED
    BY <2>1
<1>4. /\ RequestsTurn
      /\ at = "complete" => request'[r].state = "active"
  <2>1. CASE UNCHANGED request /\ at = "list"
    BY <2>1, StaysTurned
  <2>2. CASE SetState(r, IF done THEN "active" ELSE request[r].state) /\ (at = "complete" => done)
    <3>1. CASE done
      <4>1. SetState(r, "active")
        BY <2>2, <3>1
      <4>2. NoRollback => r \in dropped \/ session.credential = r
        BY <1>1, <3>1 DEF Held
      <4> QED
        BY <1>1, <1>2, <3>1, <4>1, <4>2, StateTurned
    <3>2. CASE ~done
      <4>1. request' = request
        BY <1>1, <2>2, <3>2 DEF SetState, PairingInv, PairingTypes
      <4> QED
        BY <2>2, <3>2, <4>1, StaysTurned
    <3> QED
      BY <3>1, <3>2
  <2> QED
    BY <1>3, <2>1, <2>2
<1>5. /\ Alone(t) /\ tab'[t].at = at /\ tab'[t].as = tab[t].as
      /\ tab'[t].request = tab[t].request /\ tab'[t].before = tab[t].before
      /\ tab'[t].installed = tab[t].installed
  BY <1>3, GoesOne DEF PairingInv, Stages, Finalizing
<1>6. NoRollback => Held(r)'
  <2>1. Mine(t)' = Mine(t)
    BY <1>5 DEF Mine
  <2> QED
    BY <1>1, <1>4, <2>1 DEF Held, RequestsTurn
<1> HIDE DEF r, done
<1>7. Proceeds(t)
  BY <1>1, <1>4, <1>5, <1>6, Zenon DEF Proceeds, r, Mine, Joining, Restorable, Finalizing
<1> QED
  BY <1>1, <1>4, <1>7, ProceedKept DEF DeviceKept

LEMMA AmbiguousKept ==
  ASSUME Numbered, PairingInv, Further, NEW t \in Tabs, tab[t].at \in {"list", "complete"}, Ambiguous(t),
         UNCHANGED <<request, device, keys, session, dropped, cancelled, drawn>>
  PROVE  PairingInv'
<1>1. CASE Pairs(t)
  <2>1. Goes(t, "verify")
    BY <1>1 DEF Ambiguous, Pairs
  <2>2. /\ Alone(t) /\ tab'[t].at = "verify" /\ tab'[t].as = tab[t].as
        /\ tab'[t].request = tab[t].request /\ tab'[t].before = tab[t].before
        /\ tab'[t].installed = tab[t].installed
    BY <2>1, GoesOne DEF PairingInv, Stages
  <2>3. NoRollback => Held(Mine(t))
    BY DEF PairingInv, HeldByTabs, Finalizing
  <2>4. NoRollback => Held(tab[t].request)'
    BY <2>2, <2>3 DEF Held, Mine
  <2>5. Proceeds(t)
    BY <1>1, <2>2, <2>4 DEF Proceeds, Pairs, Joining, Restorable, Finalizing
  <2> QED
    BY <2>5, StaysTurned, ProceedKept DEF DeviceKept
<1>2. CASE ~Pairs(t)
  <2>1. Puts(t, AtEase)
    BY <1>2 DEF Ambiguous, Pairs
  <2> QED
    BY <2>1, StaysTurned, EaseKept DEF DeviceKept
<1> QED
  BY <1>1, <1>2

LEMMA ListKept ==
  ASSUME Numbered, PairingInv, Further, NEW t \in Tabs, ListDevices(t)
  PROVE  PairingInv'
<1>1. /\ tab[t].at = "list" /\ (NoRollback => Held(Mine(t)))
      /\ UNCHANGED <<request, device, keys, session, dropped, cancelled, drawn>>
  BY DEF ListDevices, Stands, PairingInv, HeldByTabs, Finalizing
<1>2. Ambiguous(t) \/ (Active(Mine(t)) /\ Goes(t, "complete"))
  BY DEF ListDevices
<1>3. CASE Ambiguous(t)
  BY <1>1, <1>3, AmbiguousKept
<1>4. CASE Active(Mine(t)) /\ Goes(t, "complete")
  <2>1. /\ Alone(t) /\ tab'[t].at = "complete" /\ tab'[t].as = tab[t].as
        /\ tab'[t].request = tab[t].request /\ tab'[t].before = tab[t].before
        /\ tab'[t].installed = tab[t].installed
    BY <1>4, GoesOne DEF PairingInv, Stages, Finalizing
  <2>2. NoRollback => Held(tab[t].request)'
    BY <1>1, <2>1 DEF Held, Mine
  <2>3. Proceeds(t)
    BY <1>1, <1>4, <2>1, <2>2 DEF Proceeds, Joining, Restorable, Finalizing, Active, Mine
  <2> QED
    BY <1>1, <2>3, StaysTurned, ProceedKept DEF DeviceKept
<1> QED
  BY <1>2, <1>3, <1>4

\* A tab that pairs and works on may withdraw its request once the session has not it.
LEMMA MayWithdraw ==
  ASSUME Numbered, PairingInv, NEW t \in Tabs, AtWork(t), session # Paired(Mine(t)),
         Goes(t, "cancel"), UNCHANGED session
  PROVE  Proceeds(t)
<1>1. /\ Alone(t) /\ tab'[t].at = "cancel" /\ tab'[t].as = tab[t].as
      /\ tab'[t].request = tab[t].request /\ tab'[t].before = tab[t].before
      /\ tab'[t].installed = tab[t].installed
  BY GoesOne DEF PairingInv, Stages
<1>2. \A u \in Tabs : MayRestore(u) => tab[u].before.session.credential # Mine(t)
  BY NobodyRestores
<1>3. tab[t].at # "idle" /\ tab[t].as = "pairing"
  BY DEF PairingInv, TabsOfRequests, AtWork, Pairs
<1> QED
  BY <1>1, <1>2, <1>3 DEF Proceeds, Joining, Restorable, Finalizing, Paired, Mine

LEMMA VerifyKept ==
  ASSUME Numbered, PairingInv, Further, NEW t \in Tabs, Verify(t)
  PROVE  PairingInv'
<1>1. /\ tab[t].at = "verify"
      /\ UNCHANGED <<request, device, keys, session, dropped, cancelled, drawn>>
  BY DEF Verify, Stands
<1>2. Pairs(t) /\ AtWork(t) /\ Mine(t) \in Requests
  BY <1>1 DEF PairingInv, PairingTypes, Pursuits, TabsOfRequests, Pairs, AtWork, Finalizing
<1>3. CASE session = Paired(Mine(t))
  <2>1. Puts(t, AtEase)
    BY <1>3 DEF Verify, Paired, NoSession
  <2> QED
    BY <1>1, <2>1, StaysTurned, EaseKept DEF DeviceKept
<1>4. CASE session = NoSession
  <2>1. session # Paired(Mine(t))
    BY <1>4 DEF Paired, NoSession
  <2>2. Goes(t, "revoke")
    BY <1>4, <2>1 DEF Verify
  <2>3. /\ Alone(t) /\ tab'[t].at = "revoke" /\ tab'[t].as = tab[t].as
        /\ tab'[t].request = tab[t].request /\ tab'[t].before = tab[t].before
        /\ tab'[t].installed = tab[t].installed
    BY <2>2, GoesOne DEF PairingInv, Stages
  <2>4. session.credential # Mine(t)
    BY <1>2, <1>4 DEF NoSession, Numbered
  <2>5. Proceeds(t)
    BY <1>1, <1>2, <2>3, <2>4 DEF Proceeds, Joining, Restorable, Finalizing, Mine, Pairs
  <2> QED
    BY <1>1, <2>5, StaysTurned, ProceedKept DEF DeviceKept
<1>5. CASE session # Paired(Mine(t)) /\ session # NoSession
  <2>1. Goes(t, "cancel")
    BY <1>5 DEF Verify
  <2> QED
    BY <1>1, <1>2, <1>5, <2>1, MayWithdraw, StaysTurned, ProceedKept DEF DeviceKept
<1> QED
  BY <1>3, <1>4, <1>5

LEMMA RevokeKept ==
  ASSUME Numbered, PairingInv, Further, NEW t \in Tabs, RevokeCleared(t)
  PROVE  PairingInv'
<1>1. /\ tab[t].at = "revoke" /\ session.credential # Mine(t) /\ Goes(t, "cancel")
      /\ UNCHANGED <<device, keys, session, dropped, cancelled, drawn>>
  BY DEF RevokeCleared, Stands, PairingInv, HeldByTabs
<1>2. Pairs(t) /\ AtWork(t) /\ Mine(t) \in Requests /\ request[Mine(t)].state # "none"
  BY <1>1 DEF PairingInv, PairingTypes, Pursuits, TabsOfRequests, Pairs, AtWork, Finalizing, Known
<1>3. RequestsTurn
  <2>1. CASE UNCHANGED request
    BY <2>1, StaysTurned
  <2>2. CASE SetState(Mine(t), IF Active(Mine(t)) THEN "revoked" ELSE request[Mine(t)].state)
    <3>1. CASE Active(Mine(t))
      <4>1. SetState(Mine(t), "revoked")
        BY <2>2, <3>1
      <4>2. \A u \in Tabs : Unresumed(u) => Mine(u) # Mine(t)
        BY <1>1, <1>2 DEF PairingInv, TabsOfRequests, Unresumed, Joining
      <4> QED
        BY <1>1, <1>2, <3>1, <4>1, <4>2, StateTurned DEF Active
    <3>2. CASE ~Active(Mine(t))
      <4>1. request' = request
        BY <1>2, <2>2, <3>2 DEF SetState, PairingInv, PairingTypes
      <4> QED
        BY <4>1, StaysTurned
    <3> QED
      BY <3>1, <3>2
  <2> QED
    BY <2>1, <2>2 DEF RevokeCleared
<1>4. session # Paired(Mine(t))
  BY <1>1 DEF Paired
<1> QED
  BY <1>1, <1>2, <1>3, <1>4, MayWithdraw, ProceedKept DEF DeviceKept

LEMMA AbortKept ==
  ASSUME Numbered, PairingInv, Further, NEW t \in Tabs, Abort(t)
  PROVE  PairingInv'
<1> DEFINE p == tab[t]
           at == IF p.at \in {"poll", "snapshot"} THEN "cancel" ELSE p.at
           w == [p EXCEPT !.aborted = TRUE, !.at = at]
<1>1. /\ Pairs(t) /\ p.at \in {"poll", "snapshot", "keys", "open", "install", "installed"}
      /\ UNCHANGED <<request, device, keys, session, dropped, cancelled, drawn>>
  BY DEF Abort, Pairs
<1>2. p \in Pursuits
  BY DEF PairingInv, PairingTypes
<1>3. at \in Stages
  BY <1>1 DEF Stages, Joining
<1>4. /\ w \in Pursuits /\ w.at = at /\ w.as = p.as /\ w.request = p.request
      /\ w.before = p.before /\ w.installed = p.installed
  BY <1>2, <1>3 DEF Pursuits
<1>5. Puts(t, w)
  BY <1>2 DEF Abort, Pursuits
<1> HIDE DEF w
<1>6. Alone(t) /\ tab'[t] = w
  BY <1>4, <1>5, PutsOne DEF PairingInv
<1>7. p.at \in {"poll", "snapshot"} =>
        /\ session.credential # Mine(t)
        /\ \A u \in Tabs : MayRestore(u) => tab[u].before.session.credential # Mine(t)
  BY <1>1 DEF PairingInv, NotYetInstalled, Joining
<1>8. NoRollback /\ p.at = "installed" => Held(Mine(t))
  BY DEF PairingInv, HeldByTabs
<1>9. p.at \in {"open", "install", "installed"} => p.installed # 0
  BY <1>1 DEF PairingInv, RestoresOfDevice, CanRestore, MayRestore, Restorable
<1>10. NoRollback /\ p.at = "installed" => Held(tab[t].request)'
  BY <1>1, <1>4, <1>6, <1>8 DEF Held, Mine
<1>11. Proceeds(t)
  BY <1>1, <1>4, <1>6, <1>7, <1>9, <1>10
  DEF Proceeds, Pairs, Joining, Restorable, Finalizing, Mine, Paired
<1> QED
  BY <1>1, <1>11, StaysTurned, ProceedKept DEF DeviceKept

LEMMA OthersKeep ==
  ASSUME NEW t \in Tabs, Alone(t), Further, NEW u \in Tabs, u # t
  PROVE  /\ tab'[u] = tab[u] /\ Mine(u)' = Mine(u)
         /\ Pairs(u)' <=> Pairs(u)
         /\ MayRestore(u)' <=> MayRestore(u)
         /\ AtWork(u)' <=> AtWork(u)
         /\ Unresumed(u)' => Unresumed(u)
BY DEF Alone, Mine, Pairs, MayRestore, AtWork, Unresumed, Further

\* The tab that pairs takes what there is as what it may put back.
LEMMA SnapshotKept ==
  ASSUME Numbered, PairingInv, Further, NEW t \in Tabs, Snapshot(t)
  PROVE  PairingInv'
<1> DEFINE r == Mine(t)
           w == [tab[t] EXCEPT !.at = "keys", !.installed = keys,
                   !.before = [keys |-> keys, session |-> session]]
<1>1. /\ tab[t].at = "snapshot" /\ UNCHANGED <<request, keys, session, dropped, cancelled>>
      /\ KeepsDevice
  BY DEF Snapshot, Stands
<1>2. /\ Pairs(t) /\ AtWork(t) /\ r \in Requests /\ Known(r) /\ session.credential # r
  BY <1>1 DEF PairingInv, PairingTypes, Pursuits, TabsOfRequests, Pairs, AtWork, Finalizing,
              NotYetInstalled, Joining
<1>3. DeviceKept
  BY <1>1 DEF KeepsDevice, DeviceKept, NextDevice
<1>4. CASE Goes(t, "cancel")
  <2>1. session # Paired(r)
    BY <1>2 DEF Paired
  <2> QED
    BY <1>1, <1>2, <1>3, <1>4, <2>1, MayWithdraw, StaysTurned, ProceedKept
<1>5. CASE device = request[r].device /\ Puts(t, w)
  <2>1. UNCHANGED <<device, drawn>>
    <3>1. device # 0
      BY <1>2, <1>5 DEF PairingInv, RequestsInOrder
    <3> QED
      BY <1>3, <3>1 DEF DeviceKept
  <2>2. /\ w \in Pursuits /\ w.at = "keys" /\ w.as = "pairing" /\ w.request = r
        /\ w.before.keys = keys /\ w.before.session = session /\ w.installed = keys
    BY <1>2 DEF PairingInv, PairingTypes, Pursuits, Snapshots, Stages, Joining, Pairs, Mine
  <2> HIDE DEF w
  <2>3. Alone(t) /\ tab'[t] = w
    BY <1>5, <2>2, PutsOne DEF PairingInv
  <2>4. \A u \in Tabs \ {t} :
          /\ tab'[u] = tab[u] /\ Mine(u)' = Mine(u)
          /\ Pairs(u)' <=> Pairs(u)
          /\ MayRestore(u)' <=> MayRestore(u)
          /\ AtWork(u)' <=> AtWork(u)
          /\ Unresumed(u)' => Unresumed(u)
    BY <2>3, OthersKeep
  <2>5. Mine(t)' = r /\ Pairs(t)' /\ tab'[t].at = "keys"
    BY <2>2, <2>3 DEF Mine, Pairs
  <2> HIDE DEF r
  <2>6. /\ RequestsInOrder' /\ StoredOfDevice' /\ RevokedAreLeft' /\ ActiveHeld'
        /\ FinalizedIsActive'
    BY <1>1, <1>3, StaysTurned, TurnedKeep
  <2>7. PairingTypes'
    BY <1>1, <2>1, <2>3 DEF PairingInv, PairingTypes, Alone
  <2>8. TabsOfRequests'
    BY <1>1, <1>2, <2>3, <2>4, <2>5, <2>2 DEF PairingInv, TabsOfRequests, Known, r
  <2>9. LastOfDevice'
    BY <1>1, <1>2, <2>4, <2>5 DEF PairingInv, LastOfDevice, Known, r
  <2>10. RestoresOfDevice'
    <3> SUFFICES ASSUME NEW u \in Tabs, MayRestore(u)', NEW q, q = tab'[u]
                 PROVE  CanRestore(q)'
      BY DEF RestoresOfDevice
    <3>1. CASE u # t
      <4>1. CanRestore(q) /\ MayRestore(u)
        BY <2>4, <3>1 DEF PairingInv, RestoresOfDevice
      <4> QED
        BY <1>1, <4>1 DEF CanRestore, OfDevice, Known
    <3>2. CASE u = t
      <4>1. OfDevice(keys, device) /\ OfDevice(session.credential, device)
        BY DEF PairingInv, StoredOfDevice
      <4>2. ASSUME session # NoSession
            PROVE  /\ keys # 0 /\ session.pending /\ request[session.credential].state = "gone"
                   /\ session.credential \notin cancelled \cup {r}
        <5> DEFINE c == session.credential
        <5>1. keys # 0 /\ session \in [credential : Requests, pending : BOOLEAN] /\ c # 0
          BY <4>2 DEF PairingInv, StoredOfDevice, PairingTypes, Sessions, Numbered
        <5>2. c \in Requests /\ Known(c) /\ request[c].device = request[r].device /\ c # r
          BY <1>2, <1>5, <4>1, <5>1 DEF OfDevice
        <5>3. ~(c > r)
          BY <1>2, <5>2 DEF PairingInv, LastOfDevice, r
        <5>4. c < r
          <6>1. \A m, n \in Nat : ~(m > n) /\ m # n => m < n
            OBVIOUS
          <6>2. c \in Nat /\ r \in Nat
            BY <1>2, <5>2 DEF Numbered
          <6> QED
            BY <5>2, <5>3, <6>1, <6>2
        <5>5. request[c].state = "gone"
          BY <1>2, <5>2, <5>4 DEF PairingInv, RequestsInOrder
        <5>6. session.pending
          BY <4>2, <5>5 DEF PairingInv, FinalizedIsActive
        <5>7. session = Paired(c)
          BY <5>1, <5>6 DEF Paired
        <5>8. c \notin cancelled
          BY <5>7 DEF PairingInv, WithdrawnAreLeft
        <5> QED
          BY <5>1, <5>2, <5>5, <5>6, <5>8
      <4>3. /\ OfDevice(keys, request[r].device) /\ OfDevice(session.credential, request[r].device)
        BY <1>5, <4>1
      <4>4. q = w /\ w.request = r
        BY <2>2, <2>3, <3>2
      <4> QED
        BY <1>1, <2>2, <4>2, <4>3, <4>4 DEF CanRestore, OfDevice, Known
    <3> QED
      BY <3>1, <3>2
  <2>11. NotYetInstalled'
    BY <1>1, <1>2, <2>2, <2>3, <2>4, <2>5 DEF PairingInv, NotYetInstalled, Joining, r
  <2>12. NotYetConsumed'
    BY <1>1, <1>2, <2>2, <2>3, <2>4, <2>5
    DEF PairingInv, NotYetConsumed, Unresumed, Joining, r
  <2>13. HeldByTabs'
    BY <1>1, <2>4, <2>5 DEF PairingInv, HeldByTabs, Held, Finalizing, Further
  <2>14. WithdrawnAreLeft'
    BY <1>1, <1>2, <2>2, <2>3, <2>4, <2>5 DEF PairingInv, WithdrawnAreLeft, Known, r
  <2> QED
    BY <2>6, <2>7, <2>8, <2>9, <2>10, <2>11, <2>12, <2>13, <2>14 DEF PairingInv
<1> QED
  BY <1>4, <1>5 DEF Snapshot

\* A pairing that fails before its session is installed goes to put back what was.
LEMMA FailKept ==
  ASSUME Numbered, PairingInv, Further, NEW t \in Tabs, tab[t].at \in {"keys", "install"},
         Goes(t, "restore"),
         UNCHANGED <<request, device, keys, session, dropped, cancelled, drawn>>
  PROVE  PairingInv'
<1>1. /\ Alone(t) /\ tab'[t].at = "restore" /\ tab'[t].as = tab[t].as
      /\ tab'[t].request = tab[t].request /\ tab'[t].before = tab[t].before
      /\ tab'[t].installed = tab[t].installed
  BY GoesOne DEF PairingInv, Stages
<1>2. Pairs(t)
  BY DEF PairingInv, PairingTypes, Pursuits, TabsOfRequests, Pairs, Finalizing
<1>3. Proceeds(t)
  BY <1>1, <1>2 DEF Proceeds, Pairs, Joining, Restorable, Finalizing
<1> QED
  BY <1>3, StaysTurned, ProceedKept DEF DeviceKept

\* The key is stored where there is none.
LEMMA InstallKeysKept ==
  ASSUME Numbered, PairingInv, Further, NEW t \in Tabs, InstallKeys(t)
  PROVE  PairingInv'
<1> DEFINE r == Mine(t)
           w == [tab[t] EXCEPT !.at = "open", !.installed = keys']
<1>1. /\ tab[t].at = "keys"
      /\ UNCHANGED <<request, device, session, dropped, cancelled, drawn>>
  BY DEF InstallKeys, Stands
<1>2. CASE device # request[r].device
  BY <1>1, <1>2, FailKept DEF InstallKeys
<1>3. CASE device = request[r].device
  <2>1. keys' = (IF keys = 0 THEN r ELSE keys) /\ Puts(t, w)
    BY <1>3 DEF InstallKeys
  <2>2. /\ Pairs(t) /\ r \in Requests /\ Known(r) /\ r # 0 /\ MayRestore(t)
    BY <1>1 DEF PairingInv, PairingTypes, Pursuits, TabsOfRequests, Pairs, Finalizing, Numbered,
                MayRestore, Restorable
  <2>3. keys' \in Requests /\ keys' # 0
    BY <2>1, <2>2 DEF PairingInv, PairingTypes
  <2>4. /\ w \in Pursuits /\ w.at = "open" /\ w.as = "pairing" /\ w.request = r
        /\ w.before = tab[t].before /\ w.installed = keys'
    BY <2>2, <2>3 DEF PairingInv, PairingTypes, Pursuits, Stages, Joining, Pairs, Mine
  <2> HIDE DEF w
  <2>5. Alone(t) /\ tab'[t] = w
    BY <2>1, <2>4, PutsOne DEF PairingInv
  <2>6. \A u \in Tabs \ {t} :
          /\ tab'[u] = tab[u] /\ Mine(u)' = Mine(u)
          /\ Pairs(u)' <=> Pairs(u)
          /\ MayRestore(u)' <=> MayRestore(u)
          /\ AtWork(u)' <=> AtWork(u)
          /\ Unresumed(u)' => Unresumed(u)
    BY <2>5, OthersKeep
  <2>7. Mine(t)' = r /\ Pairs(t)' /\ tab'[t].at = "open" /\ AtWork(t)
    BY <1>1, <2>2, <2>4, <2>5 DEF Mine, Pairs, AtWork
  <2> HIDE DEF r
  <2>8. OfDevice(keys', device)
    BY <1>3, <2>1, <2>2 DEF PairingInv, StoredOfDevice, OfDevice
  <2>9. StoredOfDevice'
    BY <1>1, <2>3, <2>8 DEF PairingInv, StoredOfDevice, OfDevice, Known
  <2>10. ActiveHeld'
    BY <1>1, <2>3 DEF PairingInv, ActiveHeld, Active, Further
  <2>11. RequestsInOrder' /\ RevokedAreLeft' /\ FinalizedIsActive'
    BY <1>1 DEF PairingInv, RequestsInOrder, RevokedAreLeft, FinalizedIsActive, Known
  <2>12. PairingTypes'
    BY <1>1, <2>3, <2>5 DEF PairingInv, PairingTypes, Alone
  <2>13. TabsOfRequests'
    BY <1>1, <2>2, <2>4, <2>5, <2>6, <2>7 DEF PairingInv, TabsOfRequests, Known, r
  <2>14. LastOfDevice'
    BY <1>1, <2>6, <2>7 DEF PairingInv, LastOfDevice, Known, r
  <2>15. RestoresOfDevice'
    <3> SUFFICES ASSUME NEW u \in Tabs, MayRestore(u)', NEW q, q = tab'[u]
                 PROVE  CanRestore(q)'
      BY DEF RestoresOfDevice
    <3>1. CASE u # t
      <4>1. CanRestore(q) /\ MayRestore(u)
        BY <2>6, <3>1 DEF PairingInv, RestoresOfDevice
      <4> QED
        BY <1>1, <4>1 DEF CanRestore, OfDevice, Known
    <3>2. CASE u = t
      <4>1. CanRestore(tab[t]) /\ tab[t].request = r
        BY <2>2 DEF PairingInv, RestoresOfDevice, r, Mine
      <4>2. q = w /\ OfDevice(keys', request[r].device)
        BY <1>3, <2>5, <2>8, <3>2 DEF r
      <4> QED
        BY <1>1, <2>3, <2>4, <4>1, <4>2 DEF CanRestore, OfDevice, Known
    <3> QED
      BY <3>1, <3>2
  <2>16. NotYetInstalled'
    BY <1>1, <2>2, <2>4, <2>5, <2>6, <2>7 DEF PairingInv, NotYetInstalled, Joining, r
  <2>17. NotYetConsumed'
    <3>1. session.credential # r
      BY <1>1, <2>2 DEF PairingInv, NotYetInstalled, Joining, r
    <3>2. session.credential # 0 => keys' = keys
      BY <2>1 DEF PairingInv, StoredOfDevice, NoSession
    <3>3. \A u \in Tabs : Pairs(u) => Mine(u) # 0
      BY DEF PairingInv, TabsOfRequests, Pairs, Numbered
    <3> QED
      BY <1>1, <2>2, <2>4, <2>5, <2>6, <2>7, <3>1, <3>2, <3>3
      DEF PairingInv, NotYetConsumed, Unresumed, Joining, r
  <2>18. HeldByTabs'
    BY <1>1, <2>6, <2>7 DEF PairingInv, HeldByTabs, Held, Finalizing, Further
  <2>19. WithdrawnAreLeft'
    BY <1>1, <2>2, <2>4, <2>5, <2>6, <2>7 DEF PairingInv, WithdrawnAreLeft, Known, r
  <2> QED
    BY <2>9, <2>10, <2>11, <2>12, <2>13, <2>14, <2>15, <2>16, <2>17, <2>18, <2>19 DEF PairingInv
<1> QED
  BY <1>2, <1>3

\* The session takes the place of none, or of one that was given up.
LEMMA InstallSessionKept ==
  ASSUME Numbered, PairingInv, Further, NEW t \in Tabs, InstallSession(t)
  PROVE  PairingInv'
<1> DEFINE r == Mine(t)
<1>1. /\ tab[t].at = "install"
      /\ UNCHANGED <<request, device, keys, dropped, cancelled, drawn>>
  BY DEF InstallSession, Stands
<1>2. CASE ~(keys = tab[t].installed /\ session = tab[t].before.session)
  BY <1>1, <1>2, FailKept DEF InstallSession
<1>3. CASE keys = tab[t].installed /\ session = tab[t].before.session
  <2>1. session' = Paired(r) /\ Goes(t, "installed")
    BY <1>3 DEF InstallSession
  <2>2. /\ Pairs(t) /\ r \in Requests /\ Known(r) /\ r # 0 /\ MayRestore(t) /\ AtWork(t)
    BY <1>1 DEF PairingInv, PairingTypes, Pursuits, TabsOfRequests, Pairs, Finalizing, Numbered,
                MayRestore, Restorable, AtWork
  <2>3. /\ Alone(t) /\ tab'[t].at = "installed" /\ tab'[t].as = tab[t].as
        /\ tab'[t].request = tab[t].request /\ tab'[t].before = tab[t].before
        /\ tab'[t].installed = tab[t].installed
    BY <2>1, GoesOne DEF PairingInv, Stages
  <2>4. \A u \in Tabs \ {t} :
          /\ tab'[u] = tab[u] /\ Mine(u)' = Mine(u)
          /\ Pairs(u)' <=> Pairs(u)
          /\ MayRestore(u)' <=> MayRestore(u)
          /\ AtWork(u)' <=> AtWork(u)
          /\ Unresumed(u)' => Unresumed(u)
    BY <2>3, OthersKeep
  <2>5. Mine(t)' = r /\ Pairs(t)'
    BY <2>2, <2>3 DEF Mine, Pairs
  <2>6. CanRestore(tab[t])
    BY <2>2 DEF PairingInv, RestoresOfDevice
  <2> HIDE DEF r
  <2>7. session' \in [credential : Requests, pending : BOOLEAN] /\ session'.credential = r
        /\ session'.pending
    BY <2>1, <2>2 DEF Paired
  <2>8. session # NoSession =>
          session.credential \in Requests /\ request[session.credential].state = "gone"
    BY <1>3, <2>6 DEF CanRestore, PairingInv, PairingTypes, Sessions
  <2>9. /\ keys # 0
        /\ OfDevice(r, device)
    <3>1. keys # 0 /\ OfDevice(keys, request[tab[t].request].device)
      BY <1>1, <1>3, <2>6 DEF CanRestore
    <3> QED
      BY <2>2, <3>1 DEF PairingInv, StoredOfDevice, OfDevice, r, Mine
  <2>10. StoredOfDevice'
    BY <1>1, <2>7, <2>9 DEF PairingInv, StoredOfDevice, OfDevice, Known
  <2>11. request[r].state \notin {"active", "revoked"} /\ Unresumed(t)
    BY <1>1, <2>2 DEF PairingInv, NotYetConsumed, Unresumed, Joining, r
  <2>12. ActiveHeld'
    <3>1. NoRollback => \A q \in Requests : Active(q) => q \in dropped
      <4> SUFFICES ASSUME NoRollback, NEW q \in Requests, Active(q), q \notin dropped PROVE FALSE
        OBVIOUS
      <4>1. session.credential = q /\ q # 0
        BY DEF PairingInv, ActiveHeld, Numbered
      <4>2. session # NoSession
        BY <4>1 DEF NoSession
      <4> QED
        BY <2>8, <4>1, <4>2 DEF Active
    <3> QED
      BY <1>1, <3>1 DEF ActiveHeld, Active, Further
  <2>13. RequestsInOrder' /\ RevokedAreLeft' /\ FinalizedIsActive'
    BY <1>1, <2>7, <2>11 DEF PairingInv, RequestsInOrder, RevokedAreLeft, FinalizedIsActive, Known
  <2>14. PairingTypes'
    BY <1>1, <2>3, <2>7 DEF PairingInv, PairingTypes, Alone, Sessions
  <2>15. TabsOfRequests'
    BY <1>1, <2>2, <2>3, <2>4, <2>5 DEF PairingInv, TabsOfRequests, Known, r, Pairs
  <2>16. LastOfDevice'
    BY <1>1, <2>2, <2>4, <2>5 DEF PairingInv, LastOfDevice, Known, r
  <2>17. RestoresOfDevice'
    <3> SUFFICES ASSUME NEW u \in Tabs, MayRestore(u)', NEW q, q = tab'[u]
                 PROVE  CanRestore(q)'
      BY DEF RestoresOfDevice
    <3>1. CASE u # t
      <4>1. CanRestore(q) /\ MayRestore(u)
        BY <2>4, <3>1 DEF PairingInv, RestoresOfDevice
      <4> QED
        BY <1>1, <4>1 DEF CanRestore, OfDevice, Known
    <3>2. CASE u = t
      <4>1. /\ q.request = tab[t].request /\ q.before = tab[t].before
            /\ q.installed = tab[t].installed /\ tab[t].installed # 0
        BY <1>1, <2>3, <2>6, <3>2 DEF CanRestore
      <4> QED
        BY <1>1, <2>6, <4>1 DEF CanRestore, OfDevice, Known
    <3> QED
      BY <3>1, <3>2
  <2>18. \A u \in Tabs \ {t} : Pairs(u) => Mine(u) # r
    BY <2>2 DEF PairingInv, TabsOfRequests, r
  <2>19. NotYetInstalled'
    BY <1>1, <2>2, <2>3, <2>4, <2>5, <2>7, <2>18 DEF PairingInv, NotYetInstalled, Joining
  <2>20. NotYetConsumed'
    <3>1. tab'[t].installed = keys
      BY <1>3, <2>3
    <3> QED
      BY <1>1, <2>2, <2>3, <2>4, <2>5, <2>7, <2>18, <3>1, <2>11
      DEF PairingInv, NotYetConsumed, Joining, r
  <2>21. HeldByTabs'
    <3>1. \A q \in Requests : Held(q) => Held(q)'
      <4> SUFFICES ASSUME NEW q \in Requests, Held(q) PROVE Held(q)'
        OBVIOUS
      <4>1. session.credential = q => session # NoSession
        BY DEF NoSession, Numbered
      <4> QED
        BY <1>1, <2>8, <4>1 DEF Held
    <3>2. \A u \in Tabs : tab[u].at = "revoke" => Pairs(u)
      BY DEF PairingInv, PairingTypes, Pursuits, TabsOfRequests, Pairs, Finalizing
    <3>3. \A u \in Tabs : tab[u].at # "idle" => Mine(u) \in Requests
      BY DEF PairingInv, TabsOfRequests
    <3>4. Held(Mine(t))'
      BY <2>5, <2>7 DEF Held
    <3> QED
      BY <1>1, <2>3, <2>4, <2>5, <2>7, <2>18, <3>1, <3>2, <3>3, <3>4
      DEF PairingInv, HeldByTabs, Held, Finalizing, Further
  <2>22. WithdrawnAreLeft'
    <3>1. \A q : session' = Paired(q) => q = r
      BY <2>7 DEF Paired
    <3> QED
      BY <1>1, <2>2, <2>3, <2>4, <2>5, <2>18, <3>1 DEF PairingInv, WithdrawnAreLeft, Known, r
  <2> QED
    BY <2>10, <2>12, <2>13, <2>14, <2>15, <2>16, <2>17, <2>19, <2>20, <2>21, <2>22 DEF PairingInv
<1> QED
  BY <1>2, <1>3

\* What was before the pairing is put back, unless another tab has changed it since.
LEMMA RestoreKept ==
  ASSUME Numbered, PairingInv, Further, NEW t \in Tabs, Restore(t)
  PROVE  PairingInv'
<1> DEFINE r == Mine(t)
           b == tab[t].before.session
           ours == /\ keys = tab[t].installed
                   /\ session \in {b, Paired(r)}
<1>1. /\ tab[t].at = "restore" /\ Goes(t, "cancel")
      /\ keys' = IF ours THEN tab[t].before.keys ELSE keys
      /\ session' = IF ours THEN b ELSE session
      /\ UNCHANGED <<request, device, dropped, cancelled, drawn>>
  BY DEF Restore, Stands
<1>2. /\ Pairs(t) /\ r \in Requests /\ Known(r) /\ r # 0 /\ MayRestore(t) /\ AtWork(t)
  BY <1>1 DEF PairingInv, PairingTypes, Pursuits, TabsOfRequests, Pairs, Finalizing, Numbered,
              MayRestore, Restorable, AtWork
<1>3. /\ NoRollback =>
           /\ request[r].state \notin {"active", "revoked"}
           /\ \A u \in Tabs : tab[u].as = "resumption" => Mine(u) # r
      /\ session.credential = r => keys = tab[t].installed
  BY <1>1, <1>2 DEF PairingInv, NotYetConsumed, Unresumed
<1>4. CASE ~ours
  <2>1. session # Paired(r)
    BY <1>3, <1>4 DEF Paired
  <2> QED
    BY <1>1, <1>2, <1>4, <2>1, MayWithdraw, StaysTurned, ProceedKept DEF DeviceKept
<1>5. CASE ours
  <2>1. keys' = tab[t].before.keys /\ session' = b
    BY <1>1, <1>5
  <2>2. /\ Alone(t) /\ tab'[t].at = "cancel" /\ tab'[t].as = tab[t].as
        /\ tab'[t].request = tab[t].request /\ tab'[t].before = tab[t].before
        /\ tab'[t].installed = tab[t].installed
    BY <1>1, GoesOne DEF PairingInv, Stages
  <2>3. \A u \in Tabs \ {t} :
          /\ tab'[u] = tab[u] /\ Mine(u)' = Mine(u)
          /\ Pairs(u)' <=> Pairs(u)
          /\ MayRestore(u)' <=> MayRestore(u)
          /\ AtWork(u)' <=> AtWork(u)
          /\ Unresumed(u)' => Unresumed(u)
    BY <2>2, OthersKeep
  <2>4. Mine(t)' = r /\ Pairs(t)' /\ ~MayRestore(t)' /\ ~AtWork(t)'
    BY <1>2, <2>2 DEF Mine, Pairs, MayRestore, AtWork, Restorable
  <2>5. CanRestore(tab[t])
    BY <1>2 DEF PairingInv, RestoresOfDevice
  <2>6. tab[t].before.keys \in Requests \cup {0} /\ b \in Sessions
    BY DEF PairingInv, PairingTypes, Pursuits, Snapshots
  <2>7. b # NoSession =>
          /\ b.credential \in Requests /\ request[b.credential].state = "gone" /\ b.pending
          /\ b.credential \notin cancelled \cup {r}
          /\ tab[t].before.keys # 0
    BY <2>5, <2>6 DEF CanRestore, Sessions, Mine
  <2>8. /\ OfDevice(keys, device) /\ OfDevice(keys, request[r].device)
        /\ OfDevice(tab[t].before.keys, request[r].device)
        /\ OfDevice(b.credential, request[r].device)
        /\ keys = 0 => tab[t].before.keys = 0
    BY <1>5, <2>5, <2>7 DEF CanRestore, PairingInv, StoredOfDevice, OfDevice, Mine, NoSession
  <2>9. b.credential # 0 => tab[t].before.keys # 0
    BY <2>7 DEF NoSession
  <2>10. OfDevice(tab[t].before.keys, device) /\ OfDevice(b.credential, device)
    BY <2>8, <2>9 DEF OfDevice
  <2>11. \A u \in Tabs : Pairs(u) => Mine(u) \in Requests /\ Mine(u) # 0
    BY DEF PairingInv, TabsOfRequests, Pairs, Numbered
  <2>12. NoRollback => \A u \in Tabs \ {t} : Mine(u) = r => tab[u].as = "none"
    BY <1>2, <1>3 DEF PairingInv, PairingTypes, Pursuits, TabsOfRequests, Pairs
  <2>13. \A u \in Tabs : AtWork(u) => b.credential # Mine(u)
    BY <1>2, NobodyRestores
  <2>14. \A u \in Tabs : Pairs(u) /\ tab[u].at \in Joining => b.credential # Mine(u)
    BY <1>2 DEF PairingInv, NotYetInstalled
  <2> HIDE DEF ours, b, r
  <2>15. StoredOfDevice'
    <3>1. session' # NoSession => keys' # 0
      BY <2>1, <2>7
    <3>2. OfDevice(keys', device) /\ OfDevice(session'.credential, device)
      BY <2>1, <2>10
    <3> QED
      BY <1>1, <3>1, <3>2 DEF StoredOfDevice, OfDevice, Known
  <2>16. \A q \in Requests : session.credential = q =>
           q = r \/ request[q].state = "gone"
    <3> SUFFICES ASSUME NEW q \in Requests, session.credential = q, q # r
                 PROVE  request[q].state = "gone"
      OBVIOUS
    <3>1. session = b
      BY <1>5 DEF ours, Paired
    <3>2. b # NoSession
      BY <3>1 DEF NoSession, Numbered
    <3> QED
      BY <2>7, <3>1, <3>2
  <2>17. ActiveHeld'
    <3>1. NoRollback => \A q \in Requests : Active(q) => q \in dropped
      BY <1>3, <2>16 DEF PairingInv, ActiveHeld, Active
    <3> QED
      BY <1>1, <3>1 DEF ActiveHeld, Active, Further
  <2>18. RevokedAreLeft'
    <3>1. \A q \in Requests : b.credential = q => request[q].state = "gone"
      BY <2>7 DEF NoSession, Numbered
    <3> QED
      BY <1>1, <2>1, <3>1 DEF RevokedAreLeft
  <2>19. RequestsInOrder' /\ FinalizedIsActive'
    BY <1>1, <2>1, <2>7 DEF PairingInv, RequestsInOrder, FinalizedIsActive, Known
  <2>20. PairingTypes'
    BY <1>1, <2>1, <2>2, <2>6 DEF PairingInv, PairingTypes, Alone
  <2>21. TabsOfRequests'
    BY <1>1, <1>2, <2>2, <2>3, <2>4 DEF PairingInv, TabsOfRequests, Known, r, Pairs
  <2>22. LastOfDevice'
    BY <1>1, <2>3, <2>4 DEF PairingInv, LastOfDevice, Known
  <2>23. RestoresOfDevice'
    <3> SUFFICES ASSUME NEW u \in Tabs, MayRestore(u)', NEW q, q = tab'[u]
                 PROVE  CanRestore(q)'
      BY DEF RestoresOfDevice
    <3>1. CanRestore(q) /\ MayRestore(u)
      BY <2>3, <2>4 DEF PairingInv, RestoresOfDevice
    <3> QED
      BY <1>1, <3>1 DEF CanRestore, OfDevice, Known
  <2>24. NotYetInstalled'
    BY <1>1, <2>1, <2>2, <2>3, <2>4, <2>14 DEF PairingInv, NotYetInstalled, Joining
  <2>25. NotYetConsumed'
    <3>1. \A u \in Tabs \ {t} : Pairs(u) /\ tab[u].at \in Joining \cup {"installed", "restore"} =>
            session'.credential # Mine(u)
      BY <2>1, <2>13, <2>14 DEF AtWork
    <3>2. \A u \in Tabs : tab[u].as = "resumption" => u # t /\ Mine(u)' = Mine(u)
      BY <1>2, <2>3 DEF Pairs
    <3>3. \A u \in Tabs : tab'[u].as = tab[u].as
      BY <2>2, <2>3
    <3> QED
      BY <1>1, <2>2, <2>3, <2>4, <3>1, <3>2, <3>3
      DEF PairingInv, NotYetConsumed, Unresumed, Joining
  <2>26. HeldByTabs'
    <3>1. \A q \in Requests : Held(q) /\ q # r => Held(q)'
      BY <1>1, <2>16 DEF Held
    <3>2. \A u \in Tabs : tab[u].at = "revoke" => AtWork(u)
      BY DEF PairingInv, PairingTypes, Pursuits, TabsOfRequests, Pairs, Finalizing, AtWork
    <3>3. \A u \in Tabs : tab[u].at # "idle" => tab[u].as # "none" /\ Mine(u) \in Requests
      BY DEF PairingInv, TabsOfRequests
    <3>4. NoRollback => \A u \in Tabs \ {t} : tab[u].at # "idle" => Mine(u) # r
      BY <2>12, <3>3
    <3>5. \A u \in Tabs : tab[u].at = "revoke" => session'.credential # Mine(u)
      BY <2>1, <2>13, <3>2
    <3> SUFFICES ASSUME NEW u \in Tabs, u # t, tab[u].at # "idle"
                 PROVE  /\ NoRollback /\ tab'[u].at \in Finalizing \cup {"installed", "verify"} =>
                             Held(Mine(u))'
                        /\ tab'[u].at = "complete" => request'[Mine(u)'].state \in {"active", "revoked"}
                        /\ tab'[u].at = "revoke" => session'.credential # Mine(u)'
      BY <2>2, <2>3 DEF HeldByTabs, Finalizing, Further
    <3>6. /\ Mine(u)' = Mine(u) /\ tab'[u] = tab[u] /\ Mine(u) \in Requests
          /\ NoRollback => Mine(u) # r
      BY <2>3, <3>3, <3>4
    <3>7. NoRollback /\ Held(Mine(u)) => Held(Mine(u))'
      BY <3>1, <3>6 DEF Held
    <3> QED
      BY <1>1, <3>5, <3>6, <3>7 DEF PairingInv, HeldByTabs
  <2>27. WithdrawnAreLeft'
    <3>1. \A u \in Tabs \ {t} : Pairs(u) /\ tab[u].at = "cancel" => session' # Paired(Mine(u))
      BY <1>2, <2>1 DEF PairingInv, WithdrawnAreLeft, b
    <3>2. session' # Paired(r)
      BY <1>2, <2>1, <2>7 DEF Paired, NoSession
    <3>3. \A u \in Tabs : MayRestore(u) => tab[u].before.session # Paired(r)
      <4>1. \A u \in Tabs : MayRestore(u) => tab[u].before.session.credential # r
        BY <1>2, NobodyRestores DEF r
      <4> QED
        BY <4>1 DEF Paired
    <3>4. \A q \in cancelled : session' # Paired(q)
      BY <2>1, <2>7 DEF Paired, NoSession
    <3>5. \A u \in Tabs : Pairs(u)' => Pairs(u) /\ Mine(u)' = Mine(u)
      BY <1>2, <2>3, <2>4 DEF r
    <3>6. \A q \in cancelled' :
            /\ q \in Requests /\ Known(q)'
            /\ session' # Paired(q)
            /\ \A u \in Tabs : Pairs(u)' => Mine(u)' # q
      BY <1>1, <3>4, <3>5 DEF PairingInv, WithdrawnAreLeft, Known
    <3>7. \A u \in Tabs : Pairs(u)' /\ tab'[u].at = "cancel" =>
            /\ session' # Paired(Mine(u)')
            /\ \A v \in Tabs : MayRestore(v)' => tab'[v].before.session # Paired(Mine(u)')
      <4> SUFFICES ASSUME NEW u \in Tabs, Pairs(u)', tab'[u].at = "cancel"
                   PROVE  /\ session' # Paired(Mine(u)')
                          /\ \A v \in Tabs : MayRestore(v)' => tab'[v].before.session # Paired(Mine(u)')
        OBVIOUS
      <4>1. \A v \in Tabs : MayRestore(v)' => MayRestore(v) /\ tab'[v] = tab[v]
        BY <2>3, <2>4
      <4>2. CASE u = t
        BY <2>4, <3>2, <3>3, <4>1, <4>2
      <4>3. CASE u # t
        <5>1. Pairs(u) /\ tab[u].at = "cancel" /\ Mine(u)' = Mine(u)
          BY <2>3, <4>3
        <5> QED
          BY <3>1, <4>1, <4>3, <5>1 DEF PairingInv, WithdrawnAreLeft
      <4> QED
        BY <4>2, <4>3
    <3> QED
      BY <3>6, <3>7 DEF WithdrawnAreLeft
  <2> QED
    BY <2>15, <2>17, <2>18, <2>19, <2>20, <2>21, <2>22, <2>23, <2>24, <2>25, <2>26, <2>27
    DEF PairingInv
<1> QED
  BY <1>4, <1>5

\* A page that starts with a pending session finalizes it.
LEMMA ResumeKept ==
  ASSUME Numbered, PairingInv, NEW t \in Tabs, Resume(t),
         Enters("rollback", Undecided(session.credential))
  PROVE  PairingInv'
<1> DEFINE r == session.credential
           w == [AtEase EXCEPT !.at = "consume", !.request = r, !.as = "resumption"]
<1>1. /\ tab[t].at = "idle" /\ session.pending /\ Puts(t, w) /\ Further
      /\ NoRollback' => ~Undecided(r)
      /\ UNCHANGED <<request, device, keys, session, dropped, cancelled, drawn>>
  BY DEF Resume, Stands, Enters, NoRollback, Further
<1>2. r \in Requests /\ Known(r)
  BY <1>1 DEF PairingInv, PairingTypes, Sessions, NoSession, StoredOfDevice, OfDevice, Numbered
<1>3. w \in Pursuits /\ w.at = "consume" /\ w.as = "resumption" /\ w.request = r
  BY <1>2 DEF Pursuits, AtEase, Stages, Finalizing, Snapshots, Sessions
<1> HIDE DEF w
<1>4. Alone(t) /\ tab'[t] = w
  BY <1>1, <1>3, PutsOne DEF PairingInv
<1>5. \A u \in Tabs \ {t} :
        /\ tab'[u] = tab[u] /\ Mine(u)' = Mine(u)
        /\ Pairs(u)' <=> Pairs(u)
        /\ MayRestore(u)' <=> MayRestore(u)
        /\ AtWork(u)' <=> AtWork(u)
        /\ Unresumed(u)' => Unresumed(u)
  BY <1>1, <1>4, OthersKeep
<1>6. Mine(t)' = r /\ ~Pairs(t)' /\ ~MayRestore(t)' /\ ~AtWork(t)'
  BY <1>3, <1>4 DEF Mine, Pairs, MayRestore, AtWork
<1>7. \A u \in Tabs \ {t} : Unresumed(u)' => Mine(u) # r
  BY <1>1, <1>5 DEF PairingInv, NotYetInstalled, Undecided, Unresumed, Pairs
<1> HIDE DEF r
<1>8. /\ RequestsInOrder' /\ StoredOfDevice' /\ RevokedAreLeft' /\ ActiveHeld'
      /\ FinalizedIsActive'
  BY <1>1, StaysTurned, TurnedKeep DEF DeviceKept
<1>9. PairingTypes'
  BY <1>1, <1>3, <1>4 DEF PairingInv, PairingTypes, Alone
<1>10. TabsOfRequests'
  BY <1>1, <1>2, <1>3, <1>4, <1>5, <1>6 DEF PairingInv, TabsOfRequests, Known, Finalizing
<1>11. LastOfDevice'
  BY <1>1, <1>5, <1>6 DEF PairingInv, LastOfDevice, Known
<1>12. RestoresOfDevice'
  <2> SUFFICES ASSUME NEW u \in Tabs, MayRestore(u)', NEW q, q = tab'[u]
               PROVE  CanRestore(q)'
    BY DEF RestoresOfDevice
  <2>1. CanRestore(q) /\ MayRestore(u)
    BY <1>5, <1>6 DEF PairingInv, RestoresOfDevice
  <2> QED
    BY <1>1, <2>1 DEF CanRestore, OfDevice, Known
<1>13. NotYetInstalled'
  BY <1>1, <1>5, <1>6 DEF PairingInv, NotYetInstalled
<1>14. NotYetConsumed'
  BY <1>1, <1>5, <1>6, <1>7 DEF PairingInv, NotYetConsumed
<1>15. HeldByTabs'
  <2>1. Held(Mine(t))'
    BY <1>1, <1>6 DEF Held, r
  <2> QED
    BY <1>1, <1>3, <1>4, <1>5, <1>6, <2>1 DEF PairingInv, HeldByTabs, Held, Further
<1>16. WithdrawnAreLeft'
  BY <1>1, <1>5, <1>6 DEF PairingInv, WithdrawnAreLeft, Known
<1> QED
  BY <1>8, <1>9, <1>10, <1>11, <1>12, <1>13, <1>14, <1>15, <1>16 DEF PairingInv

\* The marker is taken off the session that was consumed, of an active credential.
LEMMA CompleteKept ==
  ASSUME Numbered, PairingInv, Further, NEW t \in Tabs, Complete(t)
  PROVE  PairingInv'
<1> DEFINE r == Mine(t)
           final == IF session = Paired(r) THEN [session EXCEPT !.pending = FALSE] ELSE session
<1>1. /\ tab[t].at = "complete" /\ session' = final
      /\ IF final.credential = r THEN Puts(t, AtEase) ELSE Ambiguous(t)
      /\ UNCHANGED <<request, device, keys, dropped, cancelled, drawn>>
  BY DEF Complete, Stands
<1>2. CASE session # Paired(r)
  <2>1. UNCHANGED session
    BY <1>1, <1>2
  <2>2. CASE Puts(t, AtEase)
    BY <1>1, <2>1, <2>2, StaysTurned, EaseKept DEF DeviceKept
  <2>3. CASE Ambiguous(t)
    BY <1>1, <2>1, <2>3, AmbiguousKept
  <2> QED
    BY <1>1, <2>2, <2>3
<1>3. CASE session = Paired(r)
  <2>1. session' = [credential |-> r, pending |-> FALSE] /\ session.credential = r
    BY <1>1, <1>3 DEF Paired
  <2>2. Puts(t, AtEase)
    BY <1>1, <1>3, <2>1
  <2>3. r \in Requests /\ Known(r) /\ r # 0
    BY <1>1 DEF PairingInv, TabsOfRequests, Numbered
  <2>4. request[r].state = "active"
    BY <1>1, <2>1, <2>3 DEF PairingInv, HeldByTabs, RevokedAreLeft
  <2>5. /\ AtEase \in Pursuits /\ AtEase.at = "idle" /\ AtEase.as = "none"
    BY DEF AtEase, Pursuits, Snapshots, Sessions, Stages
  <2>6. Alone(t) /\ tab'[t] = AtEase
    BY <2>2, <2>5, PutsOne DEF PairingInv
  <2>7. \A u \in Tabs \ {t} :
          /\ tab'[u] = tab[u] /\ Mine(u)' = Mine(u)
          /\ Pairs(u)' <=> Pairs(u)
          /\ MayRestore(u)' <=> MayRestore(u)
          /\ AtWork(u)' <=> AtWork(u)
          /\ Unresumed(u)' => Unresumed(u)
    BY <2>6, OthersKeep
  <2>8. ~Pairs(t)' /\ ~MayRestore(t)' /\ ~AtWork(t)'
    BY <2>5, <2>6 DEF Pairs, MayRestore, AtWork
  <2> HIDE DEF r, final
  <2>9. session'.credential = session.credential /\ ~session'.pending /\ session # NoSession
        /\ \A q : session' # Paired(q)
    BY <2>1, <2>3 DEF Paired, NoSession
  <2>10. PairingTypes'
    BY <1>1, <2>1, <2>3, <2>5, <2>6 DEF PairingInv, PairingTypes, Alone, Sessions
  <2>11. RequestsInOrder' /\ RevokedAreLeft' /\ ActiveHeld'
    BY <1>1, <2>9 DEF PairingInv, RequestsInOrder, RevokedAreLeft, ActiveHeld, Known, Active,
                      Further
  <2>12. StoredOfDevice' /\ FinalizedIsActive'
    BY <1>1, <2>1, <2>4, <2>9 DEF PairingInv, StoredOfDevice, FinalizedIsActive, OfDevice, Known
  <2>13. TabsOfRequests'
    BY <1>1, <2>5, <2>6, <2>7, <2>8 DEF PairingInv, TabsOfRequests, Known
  <2>14. LastOfDevice'
    BY <1>1, <2>7, <2>8 DEF PairingInv, LastOfDevice, Known
  <2>15. RestoresOfDevice'
    <3> SUFFICES ASSUME NEW u \in Tabs, MayRestore(u)', NEW q, q = tab'[u]
                 PROVE  CanRestore(q)'
      BY DEF RestoresOfDevice
    <3>1. CanRestore(q) /\ MayRestore(u)
      BY <2>7, <2>8 DEF PairingInv, RestoresOfDevice
    <3> QED
      BY <1>1, <3>1 DEF CanRestore, OfDevice, Known
  <2>16. NotYetInstalled'
    BY <1>1, <2>7, <2>8, <2>9 DEF PairingInv, NotYetInstalled
  <2>17. NotYetConsumed'
    BY <1>1, <2>5, <2>6, <2>7, <2>8, <2>9 DEF PairingInv, NotYetConsumed
  <2>18. HeldByTabs'
    BY <1>1, <2>5, <2>6, <2>7, <2>9 DEF PairingInv, HeldByTabs, Held, Finalizing, Further
  <2>19. WithdrawnAreLeft'
    BY <1>1, <2>7, <2>8, <2>9 DEF PairingInv, WithdrawnAreLeft, Known
  <2> QED
    BY <2>10, <2>11, <2>12, <2>13, <2>14, <2>15, <2>16, <2>17, <2>18, <2>19 DEF PairingInv
<1> QED
  BY <1>2, <1>3

\* A request for a device that has no other.
LEMMA CreateKept ==
  ASSUME Numbered, PairingInv, NEW t \in Tabs, NEW r \in Requests, CreateRequest(t, r),
         Enters("expired", \E u \in Tabs : Outdated(u)), NoExpired'
  PROVE  PairingInv'
<1> DEFINE d == NextDevice
           new == [state |-> "open", device |-> d]
           w == [AtEase EXCEPT !.at = "poll", !.request = r, !.as = "pairing"]
<1>1. /\ tab[t].at = "idle" /\ request[r].state = "none" /\ KeepsDevice /\ ~Unavailable(d)
      /\ \A q \in Requests : q < r => request[q].state # "none"
      /\ Further /\ \A u \in Tabs : ~Outdated(u)
      /\ request' = [request EXCEPT ![r] = new] /\ Puts(t, w)
      /\ UNCHANGED <<keys, session, dropped, cancelled>>
  BY DEF CreateRequest, Stands, Enters, NoExpired, NoRollback, Further
<1>2. DeviceKept /\ d \in Nat /\ device' = d /\ d \in 1..drawn' /\ drawn' >= drawn
      /\ drawn' \in Nat
  BY <1>1 DEF KeepsDevice, DeviceKept, NextDevice, PairingInv, PairingTypes
<1>3. /\ request' \in [Requests -> [state : {"none", "open", "approved", "active", "revoked",
                                            "gone"}, device : Nat]]
      /\ request'[r] = new /\ \A q \in Requests \ {r} : request'[q] = request[q]
  BY <1>1, <1>2 DEF PairingInv, PairingTypes
<1>4. /\ w \in Pursuits /\ w.at = "poll" /\ w.as = "pairing" /\ w.request = r
  BY DEF Pursuits, AtEase, Stages, Joining, Snapshots, Sessions
<1>5. new.state = "open" /\ new.device = d
  OBVIOUS
<1> HIDE DEF w, d, new
<1>6. Alone(t) /\ tab'[t] = w
  BY <1>1, <1>4, PutsOne DEF PairingInv
<1>7. \A u \in Tabs \ {t} :
        /\ tab'[u] = tab[u] /\ Mine(u)' = Mine(u)
        /\ Pairs(u)' <=> Pairs(u)
        /\ MayRestore(u)' <=> MayRestore(u)
        /\ AtWork(u)' <=> AtWork(u)
        /\ Unresumed(u)' => Unresumed(u)
  BY <1>1, <1>6, OthersKeep
<1>8. /\ Mine(t)' = r /\ Pairs(t)' /\ ~MayRestore(t)' /\ ~AtWork(t)' /\ ~Pairs(t)
  <2>1. ~Pairs(t)
    BY <1>1 DEF PairingInv, TabsOfRequests, Pairs
  <2> QED
    BY <1>4, <1>6, <2>1 DEF Mine, Pairs, MayRestore, AtWork, Restorable
<1>9. \A q \in Requests : Known(q) => request'[q] = request[q] /\ Known(q)' /\ q # r
  BY <1>1, <1>3 DEF Known
<1>10. \A q \in Requests : Known(q) /\ request[q].device = d => request[q].state = "gone"
  BY <1>1 DEF Unavailable, Known, PairingInv, PairingTypes
<1>11. \A q \in Requests : Known(q)' <=> (Known(q) \/ q = r)
  BY <1>3, <1>5, <1>9 DEF Known
<1>12. /\ session.credential # 0 => session.credential \in Requests /\ Known(session.credential)
       /\ keys # 0 => keys \in Requests /\ Known(keys)
       /\ session.credential # r
  <2>1. session.credential # 0 => session.credential \in Requests /\ Known(session.credential)
    BY DEF PairingInv, PairingTypes, Sessions, NoSession, StoredOfDevice, OfDevice
  <2>2. keys # 0 => keys \in Requests /\ Known(keys)
    BY DEF PairingInv, PairingTypes, StoredOfDevice, OfDevice
  <2> QED
    BY <1>9, <2>1, <2>2 DEF Numbered
<1>13. \A u \in Tabs : tab[u].at # "idle" => Mine(u) \in Requests /\ Known(Mine(u)) /\ Mine(u) # r
  BY <1>9 DEF PairingInv, TabsOfRequests
<1>14. \A u \in Tabs : Pairs(u) => tab[u].at # "idle"
  BY DEF PairingInv, TabsOfRequests, Pairs
<1>15. PairingTypes'
  BY <1>1, <1>2, <1>3, <1>6 DEF PairingInv, PairingTypes, Alone
<1>16. RequestsInOrder'
  <2>1. \A q \in Requests : Known(q)' => request'[q].device \in 1..drawn'
    <3>1. \A q \in Requests : Known(q) => request[q].device \in 1..drawn'
      BY <1>2 DEF PairingInv, PairingTypes, RequestsInOrder
    <3> QED
      BY <1>2, <1>3, <1>5, <1>9, <1>11, <3>1
  <2>2. ASSUME NEW p \in Requests, NEW q \in Requests, p < q, Known(q)'
        PROVE  Known(p)' /\ (request'[p].device = request'[q].device => request'[p].state = "gone")
    <3>1. CASE q = r
      <4>1. Known(p)
        BY <1>1, <2>2, <3>1 DEF Known
      <4> QED
        BY <1>3, <1>5, <1>9, <1>10, <3>1, <4>1
    <3>2. CASE q # r
      <4>1. Known(q)
        BY <1>11, <2>2, <3>2
      <4>2. Known(p) /\ (request[p].device = request[q].device => request[p].state = "gone")
        BY <2>2, <4>1 DEF PairingInv, RequestsInOrder
      <4> QED
        BY <1>9, <4>1, <4>2
    <3> QED
      BY <3>1, <3>2
  <2> QED
    BY <2>1, <2>2 DEF RequestsInOrder
<1>17. StoredOfDevice'
  <2>1. device # 0 => device' = device
    BY <1>2 DEF DeviceKept, PairingInv, PairingTypes
  <2>2. \A q \in Requests : Known(q) /\ request[q].device = device => device # 0
    BY DEF PairingInv, RequestsInOrder
  <2> QED
    BY <1>1, <1>9, <1>12, <2>1, <2>2 DEF PairingInv, StoredOfDevice, OfDevice
<1>18. RevokedAreLeft' /\ ActiveHeld' /\ FinalizedIsActive'
  <2>1. \A q \in Requests : request'[q].state \in {"active", "revoked"} => request'[q] = request[q]
    BY <1>3, <1>5
  <2>2. session # NoSession => session.credential \in Requests /\ Known(session.credential)
    BY <1>12 DEF PairingInv, PairingTypes, Sessions, Numbered
  <2>3. session # NoSession => request'[session.credential] = request[session.credential]
    BY <1>9, <2>2
  <2> QED
    BY <1>1, <2>1, <2>3
    DEF PairingInv, RevokedAreLeft, ActiveHeld, FinalizedIsActive, Active, Further
<1>19. TabsOfRequests'
  BY <1>1, <1>4, <1>6, <1>7, <1>8, <1>11, <1>13, <1>14 DEF PairingInv, TabsOfRequests
<1>20. LastOfDevice'
  <2> SUFFICES ASSUME NEW u \in Tabs, NEW q \in Requests, u # t, AtWork(u), q > Mine(u), Known(q)'
               PROVE  request'[q].device # request'[Mine(u)].device
    BY <1>7, <1>8 DEF LastOfDevice
  <2>1. Pairs(u) /\ tab[u].at \notin {"poll", "cancel", "idle"} /\ Mine(u) \in Requests
        /\ Known(Mine(u))
    BY <1>13, <1>14 DEF AtWork
  <2>2. request[Mine(u)].state # "gone"
    BY <1>1, <2>1 DEF Outdated, Pairs
  <2>3. request'[Mine(u)] = request[Mine(u)] /\ request[Mine(u)].device # d
    BY <1>9, <1>10, <2>1, <2>2
  <2>4. CASE q = r
    BY <1>3, <1>5, <2>3, <2>4
  <2>5. CASE q # r
    BY <1>9, <1>11, <2>3, <2>5 DEF PairingInv, LastOfDevice
  <2> QED
    BY <2>4, <2>5
<1>21. RestoresOfDevice'
  <2> SUFFICES ASSUME NEW u \in Tabs, MayRestore(u)', NEW q, q = tab'[u]
               PROVE  CanRestore(q)'
    BY DEF RestoresOfDevice
  <2>1. CanRestore(q) /\ MayRestore(u) /\ q \in Pursuits /\ q = tab[u]
    BY <1>7, <1>8 DEF PairingInv, RestoresOfDevice, PairingTypes
  <2>2. q.request \in Requests /\ Known(q.request)
    BY <1>13, <1>14, <2>1 DEF MayRestore, Mine
  <2>3. /\ q.before.keys # 0 => q.before.keys \in Requests
        /\ q.installed # 0 => q.installed \in Requests
        /\ q.before.session # NoSession => q.before.session.credential \in Requests
    BY <2>1 DEF Pursuits, Snapshots, Sessions
  <2>4. request'[q.request].device = request[q.request].device
    BY <1>9, <2>2
  <2> QED
    BY <1>1, <1>9, <2>1, <2>3, <2>4 DEF CanRestore, OfDevice, Numbered
<1>22. NotYetInstalled'
  <2>1. \A u \in Tabs : MayRestore(u) => tab[u].before.session.credential # r
    <3> SUFFICES ASSUME NEW u \in Tabs, MayRestore(u), tab[u].before.session.credential = r
                 PROVE  FALSE
      OBVIOUS
    <3>1. CanRestore(tab[u]) /\ tab[u].before.session # NoSession
      BY DEF PairingInv, RestoresOfDevice, NoSession, Numbered
    <3>2. Known(r)
      BY <3>1 DEF CanRestore, OfDevice, Numbered
    <3> QED
      BY <1>9, <3>2
  <2> QED
    BY <1>1, <1>7, <1>8, <1>12, <2>1 DEF PairingInv, NotYetInstalled
<1>23. NotYetConsumed'
  <2>1. request'[r].state = "open"
    BY <1>3, <1>5
  <2>2. \A u \in Tabs : tab'[u].as = "resumption" => u # t /\ tab[u].as = "resumption"
    BY <1>4, <1>6, <1>7
  <2>3. \A u \in Tabs : tab[u].as = "resumption" => Mine(u) # r
    BY <1>13 DEF PairingInv, TabsOfRequests
  <2>4. \A u \in Tabs : Pairs(u) => Mine(u) \in Requests /\ Mine(u) # r
    BY <1>13, <1>14
  <2> QED
    BY <1>1, <1>3, <1>6, <1>7, <1>8, <1>12, <2>1, <2>2, <2>3, <2>4
    DEF PairingInv, NotYetConsumed
<1>24. HeldByTabs'
  <2> SUFFICES ASSUME NEW u \in Tabs, u # t, tab[u].at # "idle"
               PROVE  /\ NoRollback /\ tab'[u].at \in Finalizing \cup {"installed", "verify"} =>
                           Held(Mine(u))'
                      /\ tab'[u].at = "complete" => request'[Mine(u)'].state \in {"active", "revoked"}
                      /\ tab'[u].at = "revoke" => session'.credential # Mine(u)'
    BY <1>1, <1>4, <1>6, <1>7 DEF HeldByTabs, Finalizing, Further
  <2>1. /\ Mine(u)' = Mine(u) /\ tab'[u] = tab[u] /\ Mine(u) \in Requests
        /\ request'[Mine(u)] = request[Mine(u)]
    BY <1>7, <1>9, <1>13
  <2> QED
    BY <1>1, <2>1 DEF PairingInv, HeldByTabs, Held
<1>25. WithdrawnAreLeft'
  <2>1. \A u \in Tabs : Pairs(u)' /\ tab'[u].at = "cancel" =>
          /\ session # Paired(Mine(u)')
          /\ \A v \in Tabs : MayRestore(v)' => tab'[v].before.session # Paired(Mine(u)')
    BY <1>4, <1>6, <1>7, <1>8 DEF PairingInv, WithdrawnAreLeft
  <2>2. \A q \in cancelled : Known(q)' /\ q # r
    BY <1>9 DEF PairingInv, WithdrawnAreLeft
  <2> QED
    BY <1>1, <1>7, <1>8, <2>1, <2>2 DEF PairingInv, WithdrawnAreLeft
<1> QED
  BY <1>15, <1>16, <1>17, <1>18, <1>19, <1>20, <1>21, <1>22, <1>23, <1>24, <1>25 DEF PairingInv

\* The user lets the session go, or all of it.
LEMMA DropKept ==
  ASSUME Numbered, PairingInv, Further, Disconnect \/ Forget
  PROVE  PairingInv'
<1>1. /\ session' = NoSession
      /\ \A q : q \in dropped \/ session.credential = q => q = 0 \/ q \in dropped'
      /\ dropped \subseteq dropped'
      /\ UNCHANGED <<keys, device>> \/ (keys' = 0 /\ device' = 0)
      /\ UNCHANGED <<request, tab, cancelled, drawn>>
  BY DEF Disconnect, Forget
<1>2. NoSession.credential = 0 /\ ~NoSession.pending /\ \A q : q # 0 => NoSession # Paired(q)
  BY DEF NoSession, Paired
<1>3. \A u \in Tabs : /\ Mine(u)' = Mine(u) /\ tab'[u] = tab[u]
                      /\ Pairs(u)' <=> Pairs(u)
                      /\ MayRestore(u)' <=> MayRestore(u)
                      /\ AtWork(u)' <=> AtWork(u)
                      /\ Unresumed(u)' => Unresumed(u)
  BY <1>1 DEF Mine, Pairs, MayRestore, AtWork, Unresumed, Further
<1>4. \A u \in Tabs : tab[u].at # "idle" => Mine(u) \in Requests /\ Mine(u) # 0
  BY DEF PairingInv, TabsOfRequests, Numbered
<1>5. \A u \in Tabs : Pairs(u) => tab[u].at # "idle"
  BY DEF PairingInv, TabsOfRequests, Pairs
<1>6. PairingTypes'
  BY <1>1 DEF PairingInv, PairingTypes, Sessions
<1>7. RequestsInOrder' /\ StoredOfDevice' /\ RevokedAreLeft' /\ FinalizedIsActive'
  BY <1>1, <1>2 DEF PairingInv, RequestsInOrder, StoredOfDevice, OfDevice, RevokedAreLeft,
                    FinalizedIsActive, Known, Numbered
<1>8. ActiveHeld'
  BY <1>1 DEF PairingInv, ActiveHeld, Active, Numbered, Further
<1>9. TabsOfRequests' /\ LastOfDevice'
  BY <1>1, <1>3 DEF PairingInv, TabsOfRequests, LastOfDevice, Known
<1>10. RestoresOfDevice'
  <2> SUFFICES ASSUME NEW u \in Tabs, MayRestore(u)', NEW q, q = tab'[u]
               PROVE  CanRestore(q)'
    BY DEF RestoresOfDevice
  <2>1. CanRestore(q)
    BY <1>3 DEF PairingInv, RestoresOfDevice
  <2> QED
    BY <1>1, <2>1 DEF CanRestore, OfDevice, Known
<1>11. NotYetInstalled'
  BY <1>1, <1>2, <1>3, <1>4, <1>5 DEF PairingInv, NotYetInstalled
<1>12. NotYetConsumed'
  BY <1>1, <1>2, <1>3, <1>4, <1>5 DEF PairingInv, NotYetConsumed
<1>13. HeldByTabs'
  BY <1>1, <1>2, <1>3, <1>4 DEF PairingInv, HeldByTabs, Held, Finalizing, Further
<1>14. WithdrawnAreLeft'
  BY <1>1, <1>2, <1>3, <1>4, <1>5 DEF PairingInv, WithdrawnAreLeft, Known, Numbered
<1> QED
  BY <1>6, <1>7, <1>8, <1>9, <1>10, <1>11, <1>12, <1>13, <1>14 DEF PairingInv

-----------------------------------------------------------------------------
(* Every step, and the theorem *)

LEMMA PairingStepKept ==
  ASSUME Numbered, PairingInv, [PairingNext]_pairingVars, NoExpired'
  PROVE  PairingInv'
<1>1. CASE UNCHANGED pairingVars
  BY <1>1, StaysTurned, RequestKept DEF pairingVars, Further, NoRollback
<1> USE DEF Further
<1>2. ASSUME NEW t \in Tabs, PairingStep(t) \/ Abort(t) \/ CloseTab(t), UNCHANGED overlaps
      PROVE  PairingInv'
  <2>0. Further
    BY <1>2 DEF NoRollback
  <2> USE <2>0
  <2> HIDE DEF Further
  <2>1. CASE Poll(t) \/ Initialize(t) \/ Installed(t)
    BY <2>1, PollKept
  <2>2. CASE Snapshot(t)
    BY <2>2, SnapshotKept
  <2>3. CASE InstallKeys(t)
    BY <2>3, InstallKeysKept
  <2>4. CASE InstallSession(t)
    BY <2>4, InstallSessionKept
  <2>5. CASE Restore(t)
    BY <2>5, RestoreKept
  <2>6. CASE CloseTab(t) \/ CancelRequest(t)
    BY <2>6, LoseKept
  <2>7. CASE Consume(t)
    BY <2>7, ConsumeKept
  <2>8. CASE ListDevices(t)
    BY <2>8, ListKept
  <2>9. CASE Complete(t)
    BY <2>9, CompleteKept
  <2>10. CASE Verify(t)
    BY <2>10, VerifyKept
  <2>11. CASE RevokeCleared(t)
    BY <2>11, RevokeKept
  <2>12. CASE Abort(t)
    BY <2>12, AbortKept
  <2> QED
    BY <1>2, <2>1, <2>2, <2>3, <2>4, <2>5, <2>6, <2>7, <2>8, <2>9, <2>10, <2>11, <2>12
    DEF PairingStep
<1>3. ASSUME NEW t \in Tabs, NEW r \in Requests, CreateRequest(t, r),
             Enters("expired", \E u \in Tabs : Outdated(u))
      PROVE  PairingInv'
  BY <1>3, CreateKept
<1>4. ASSUME NEW t \in Tabs, Resume(t), Enters("rollback", Undecided(session.credential))
      PROVE  PairingInv'
  BY <1>4, ResumeKept
<1>5. ASSUME NEW r \in Requests, Approve(r) \/ Expire(r), UNCHANGED overlaps
      PROVE  PairingInv'
  BY <1>5, ApproveKept DEF NoRollback
<1>6. CASE (Disconnect \/ Forget) /\ UNCHANGED overlaps
  BY <1>6, DropKept DEF NoRollback
<1> QED
  BY <1>1, <1>2, <1>3, <1>4, <1>5, <1>6 DEF PairingNext

\* The windows a step fell into are kept.
LEMMA ExpiredStays ==
  ASSUME [PairingNext]_pairingVars, NoExpired'
  PROVE  NoExpired
BY DEF PairingNext, pairingVars, Enters, NoExpired

\* The browser and the relay agree on a pairing, whatever answers are lost and however the
\* tabs that pair, resume, disconnect and forget interleave: an activated credential is held
\* with a key unless the user dropped it or a step fell into one of the two windows of
\* pairing.ts, and a session that waits for its finalization was not withdrawn unless a
\* request was made over an expired one.  (The run parts checks the same for two tabs.)
THEOREM PairingsAlwaysAgree ==
  ASSUME Numbered
  PROVE  PairingSpec => [](ActiveIsHeld /\ PendingIsNotWithdrawn)
<1> DEFINE Inv == NoExpired => PairingInv
<1>1. PairingInit => Inv
  BY PairingInvInit
<1>2. Inv /\ [PairingNext]_pairingVars => Inv'
  BY PairingStepKept, ExpiredStays
<1>3. Inv => PendingIsNotWithdrawn
  <2> SUFFICES ASSUME PairingInv, session.pending PROVE session.credential \notin cancelled
    BY DEF PendingIsNotWithdrawn, NoExpired
  <2>1. session \in [credential : Requests, pending : BOOLEAN]
    BY DEF PairingInv, PairingTypes, Sessions, NoSession
  <2>2. session = Paired(session.credential)
    BY <2>1 DEF Paired
  <2> QED
    BY <2>2 DEF PairingInv, WithdrawnAreLeft
<1>4. Inv => ActiveIsHeld
  BY DEF PairingInv, ActiveHeld, ActiveIsHeld, NoExpired, NoRollback
<1> QED
  BY <1>1, <1>2, <1>3, <1>4, PTL DEF PairingSpec

-----------------------------------------------------------------------------
(* A finalized session is of an activated credential, whatever windows are entered *)

WasActive(r) == request[r].state \in {"active", "revoked"}

\* The stored session, and those that may be put back, are of requests; a final one was
\* activated, and so was one that is being completed.
StoredAreKnown ==
  /\ session # NoSession => Known(session.credential)
  /\ \A t \in Tabs : LET b == tab[t].before.session IN
       MayRestore(t) /\ b # NoSession =>
         Known(b.credential) /\ (~b.pending => WasActive(b.credential))
  /\ \A t \in Tabs : tab[t].at = "complete" => WasActive(Mine(t))

\* Nobody else works on a pairing before its session is installed.
JoinedAlone ==
  \A t \in Tabs : Pairs(t) /\ tab[t].at \in Joining =>
    /\ ~WasActive(Mine(t))
    /\ \A u \in Tabs : tab[u].as = "resumption" => Mine(u) # Mine(t)

\* A revoked credential, and one about to be, cannot come back: it is neither the session nor
\* among those that restoring, one tab after another, may lead to.
Left(r) ==
  \/ request[r].state = "revoked"
  \/ \E t \in Tabs : tab[t].at = "revoke" /\ Mine(t) = r

Reaches(S) ==
  /\ 0 \in S /\ session.credential \in S
  /\ \A t \in Tabs : MayRestore(t) /\ Mine(t) \in S => tab[t].before.session.credential \in S

LeftIsGone ==
  \A r \in Requests : Left(r) => \E S \in SUBSET (Requests \cup {0}) : r \notin S /\ Reaches(S)

FinalInv ==
  /\ PairingTypes /\ TabsOfRequests /\ StoredAreKnown /\ NotYetInstalled /\ JoinedAlone
  /\ LeftIsGone /\ FinalizedIsActive

\* What a step may do to a request, to what a tab has in hand, and to the session.
RelayMoves ==
  \A r \in Requests :
    /\ Known(r)' <=> Known(r)
    /\ WasActive(r) => WasActive(r)'
    /\ request'[r].state = "revoked" => Left(r)
    /\ WasActive(r)' => WasActive(r) \/ \A t \in Tabs : Pairs(t) /\ tab[t].at \in Joining => Mine(t) # r

Rests(t) == tab'[t].at = "idle" /\ tab'[t].as = "none"

MovesOn(t) ==
  LET p == tab[t]
      q == tab'[t] IN
  /\ p.at # "idle" /\ q.at # "idle" /\ q.as = p.as /\ q.request = p.request
  /\ p.as = "resumption" => q.at \in Finalizing
  /\ q.at \in Joining => p.at \in Joining
  /\ p.as = "pairing" /\ q.at \in Restorable =>
       \/ p.at \in Restorable /\ q.before.session = p.before.session
       \/ q.before.session = session
  /\ q.at = "complete" => request'[p.request].state \in {"active", "revoked"}
  /\ q.at = "revoke" => p.at = "revoke" \/ (session = NoSession /\ session' = NoSession)

PutBack(t) ==
  /\ MayRestore(t) /\ tab'[t].at = "cancel"
  /\ session \in {tab[t].before.session, Paired(Mine(t))}
  /\ session' = tab[t].before.session

PutNew(t) ==
  /\ Pairs(t) /\ tab[t].at = "install" /\ tab'[t].at = "installed"
  /\ session = tab[t].before.session /\ session' = Paired(Mine(t))

SessionMoves ==
  \/ session' = session
  \/ session' = NoSession
  \/ session'.credential = session.credential /\ request'[session.credential].state = "active"
  \/ \E t \in Tabs : PutBack(t) \/ PutNew(t)

LEMMA InHand ==
  ASSUME Numbered, FinalInv, NEW t \in Tabs, tab[t].at # "idle"
  PROVE  /\ Mine(t) \in Requests /\ Mine(t) # 0 /\ Known(Mine(t))
         /\ tab[t].at \notin Finalizing => Pairs(t)
         /\ Pairs(t) \/ tab[t].as = "resumption"
BY DEF FinalInv, PairingTypes, TabsOfRequests, Pursuits, Pairs, Numbered

LEMMA SessionsOfRequests ==
  ASSUME Numbered, FinalInv
  PROVE  /\ session # NoSession <=> session.credential # 0
         /\ session # NoSession => session.credential \in Requests
         /\ \A t \in Tabs : tab[t].before.session \in Sessions
         /\ \A s \in Sessions : /\ s # NoSession <=> s.credential # 0
                                /\ s # NoSession => s.credential \in Requests
<1>1. \A s \in Sessions : /\ s # NoSession <=> s.credential # 0
                          /\ s # NoSession => s.credential \in Requests
  BY DEF Numbered, Sessions, NoSession
<1>2. session \in Sessions /\ \A t \in Tabs : tab[t].before.session \in Sessions
  BY DEF FinalInv, PairingTypes, Pursuits, Snapshots
<1> QED
  BY <1>1, <1>2

LEMMA FinalMoves ==
  ASSUME Numbered, FinalInv, PairingTypes', RelayMoves, SessionMoves,
         \A t \in Tabs : Rests(t) \/ MovesOn(t)
  PROVE  FinalInv'
<1>1. \A t \in Tabs : tab'[t].at # "idle" =>
        /\ MovesOn(t) /\ tab[t].at # "idle" /\ Mine(t)' = Mine(t)
        /\ tab'[t].as = tab[t].as /\ (Pairs(t)' <=> Pairs(t))
        /\ Mine(t) \in Requests /\ Mine(t) # 0 /\ Known(Mine(t)) /\ Known(Mine(t))'
  <2> SUFFICES ASSUME NEW t \in Tabs, tab'[t].at # "idle"
               PROVE  /\ MovesOn(t) /\ tab[t].at # "idle" /\ Mine(t)' = Mine(t)
                      /\ tab'[t].as = tab[t].as /\ (Pairs(t)' <=> Pairs(t))
                      /\ Mine(t) \in Requests /\ Mine(t) # 0 /\ Known(Mine(t)) /\ Known(Mine(t))'
    OBVIOUS
  <2>1. MovesOn(t) /\ tab[t].at # "idle" /\ Mine(t)' = Mine(t) /\ tab'[t].as = tab[t].as
    BY DEF Rests, MovesOn, Mine
  <2>2. Mine(t) \in Requests /\ Mine(t) # 0 /\ Known(Mine(t))
    BY <2>1, InHand
  <2>3. Known(Mine(t))'
    BY <2>1, <2>2 DEF RelayMoves, Known
  <2> QED
    BY <2>1, <2>2, <2>3 DEF Pairs
<1>2. \A t \in Tabs : Pairs(t)' => tab'[t].at # "idle"
  BY DEF Rests, MovesOn, Pairs
<1>3. \A t \in Tabs : MayRestore(t)' => tab'[t].at # "idle" /\ Pairs(t)
  BY <1>1, <1>2 DEF MayRestore
<1>4. \A t \in Tabs : MayRestore(t)' =>
        \/ MayRestore(t) /\ tab'[t].before.session = tab[t].before.session
        \/ tab'[t].before.session = session
  BY <1>1, <1>3 DEF MovesOn, MayRestore, Pairs
<1>5. TabsOfRequests'
  <2>1. \A t \in Tabs : tab'[t].at = "idle" <=> tab'[t].as = "none"
    BY <1>1 DEF Rests, MovesOn, FinalInv, TabsOfRequests
  <2>2. \A t \in Tabs : tab'[t].at # "idle" => Mine(t)' \in Requests /\ Known(Mine(t))'
    BY <1>1
  <2>3. \A t \in Tabs : tab'[t].as = "resumption" => tab'[t].at \in Finalizing
    BY <1>1 DEF Rests, MovesOn
  <2>4. \A t, u \in Tabs : Pairs(t)' /\ Pairs(u)' /\ Mine(t)' = Mine(u)' => t = u
    BY <1>1, <1>2 DEF FinalInv, TabsOfRequests
  <2> QED
    BY <1>1, <2>1, <2>2, <2>3, <2>4 DEF TabsOfRequests, Known
<1>6. /\ session # NoSession <=> session.credential # 0
      /\ session # NoSession => session.credential \in Requests
      /\ \A t \in Tabs : tab[t].before.session \in Sessions
      /\ \A s \in Sessions : /\ s # NoSession <=> s.credential # 0
                             /\ s # NoSession => s.credential \in Requests
  BY SessionsOfRequests
<1>7. session' \in Sessions
  BY DEF PairingTypes
<1>8. /\ session # NoSession => Known(session.credential)
      /\ session # NoSession /\ ~session.pending => WasActive(session.credential)
      /\ \A t \in Tabs : LET b == tab[t].before.session IN
           MayRestore(t) /\ b # NoSession =>
             Known(b.credential) /\ (~b.pending => WasActive(b.credential))
  BY DEF FinalInv, StoredAreKnown, FinalizedIsActive, WasActive
<1>9. \A r \in Requests : (Known(r)' <=> Known(r)) /\ (WasActive(r) => WasActive(r)')
  BY DEF RelayMoves
<1>10. \A t \in Tabs : PutBack(t) \/ PutNew(t) =>
         /\ Pairs(t) /\ MayRestore(t) /\ tab'[t].at \in {"cancel", "installed"}
         /\ Mine(t) \in Requests /\ Mine(t) # 0 /\ Known(Mine(t))
  <2> SUFFICES ASSUME NEW t \in Tabs, PutBack(t) \/ PutNew(t)
               PROVE  /\ Pairs(t) /\ MayRestore(t) /\ tab'[t].at \in {"cancel", "installed"}
                      /\ Mine(t) \in Requests /\ Mine(t) # 0 /\ Known(Mine(t))
    OBVIOUS
  <2>1. Pairs(t) /\ MayRestore(t) /\ tab'[t].at \in {"cancel", "installed"}
    BY DEF PutBack, PutNew, MayRestore, Restorable
  <2> QED
    BY <1>1, <2>1
<1>11. StoredAreKnown'
  <2>1. session' # NoSession => request'[session'.credential].state # "none"
    <3>1. CASE session'.credential = session.credential
      BY <1>6, <1>7, <1>8, <1>9, <3>1 DEF Known
    <3>2. CASE session' = NoSession
      BY <3>2
    <3>3. ASSUME NEW t \in Tabs, PutBack(t) 
          PROVE  session' # NoSession => request'[session'.credential].state # "none"
      BY <1>6, <1>8, <1>9, <3>3 DEF PutBack, Known
    <3>4. ASSUME NEW t \in Tabs, PutNew(t) PROVE request'[session'.credential].state # "none"
      BY <1>9, <1>10, <3>4 DEF PutNew, Paired, Known
    <3> QED
      BY <3>1, <3>2, <3>3, <3>4 DEF SessionMoves
  <2>2. ASSUME NEW t \in Tabs, MayRestore(t)', NEW b, b = tab'[t].before.session, b # NoSession
        PROVE  /\ request'[b.credential].state # "none"
               /\ ~b.pending => request'[b.credential].state \in {"active", "revoked"}
    <3>1. /\ b \in Sessions /\ Known(b.credential) /\ (~b.pending => WasActive(b.credential))
      BY <1>4, <1>6, <1>8, <2>2, SessionsOfRequests DEF FinalInv, PairingTypes
    <3> QED
      BY <1>6, <1>9, <2>2, <3>1 DEF Known, WasActive
  <2>3. \A t \in Tabs : tab'[t].at = "complete" => WasActive(Mine(t))'
    BY <1>1 DEF MovesOn, Mine, WasActive
  <2> QED
    BY <2>1, <2>2, <2>3 DEF StoredAreKnown, Known, WasActive
<1>12. NotYetInstalled'
  <2> SUFFICES ASSUME NEW t \in Tabs, Pairs(t)', tab'[t].at \in Joining
               PROVE  /\ session'.credential # Mine(t)'
                      /\ \A u \in Tabs : MayRestore(u)' =>
                           tab'[u].before.session.credential # Mine(t)'
    BY DEF NotYetInstalled
  <2>1. /\ Pairs(t) /\ tab[t].at \in Joining /\ Mine(t)' = Mine(t) /\ Mine(t) # 0
    BY <1>1, <1>2 DEF MovesOn
  <2>2. /\ session.credential # Mine(t)
        /\ \A u \in Tabs : MayRestore(u) => tab[u].before.session.credential # Mine(t)
    BY <2>1 DEF FinalInv, NotYetInstalled
  <2>3. session'.credential # Mine(t)
    <3>1. ASSUME NEW u \in Tabs, PutNew(u) PROVE session'.credential # Mine(t)
      <4>1. u # t
        BY <3>1 DEF PutNew, Joining
      <4> QED
        BY <1>10, <2>1, <3>1, <4>1 DEF PutNew, Paired, FinalInv, TabsOfRequests
    <3>2. ASSUME NEW u \in Tabs, PutBack(u) PROVE session'.credential # Mine(t)
      BY <2>2, <3>2 DEF PutBack
    <3> QED
      BY <2>1, <2>2, <3>1, <3>2 DEF SessionMoves, NoSession
  <2>4. \A u \in Tabs : MayRestore(u)' => tab'[u].before.session.credential # Mine(t)
    BY <1>4, <2>2
  <2> QED
    BY <2>1, <2>3, <2>4
<1>13. JoinedAlone'
  <2> SUFFICES ASSUME NEW t \in Tabs, Pairs(t)', tab'[t].at \in Joining
               PROVE  /\ ~WasActive(Mine(t))'
                      /\ \A u \in Tabs : tab'[u].as = "resumption" => Mine(u)' # Mine(t)'
    BY <1>1, <1>2 DEF JoinedAlone, WasActive
  <2>1. /\ Pairs(t) /\ tab[t].at \in Joining /\ Mine(t)' = Mine(t) /\ Mine(t) \in Requests
    BY <1>1, <1>2 DEF MovesOn
  <2>2. /\ ~WasActive(Mine(t))
        /\ \A u \in Tabs : tab[u].as = "resumption" => Mine(u) # Mine(t)
    BY <2>1 DEF FinalInv, JoinedAlone
  <2>3. ~WasActive(Mine(t))'
    BY <2>1, <2>2 DEF RelayMoves, WasActive
  <2>4. \A u \in Tabs : tab'[u].as = "resumption" =>
          tab[u].as = "resumption" /\ Mine(u)' = Mine(u)
    BY <1>1 DEF Rests, MovesOn
  <2> QED
    BY <2>1, <2>2, <2>3, <2>4
<1>14. LeftIsGone'
  <2> SUFFICES ASSUME NEW r \in Requests, Left(r)'
               PROVE  \E S \in SUBSET (Requests \cup {0}) : r \notin S /\ Reaches(S)'
    BY DEF LeftIsGone
  <2>1. Left(r) \/ (session = NoSession /\ session' = NoSession)
    BY <1>1 DEF Left, RelayMoves, MovesOn
  <2>2. CASE session = NoSession /\ session' = NoSession
    <3>1. Reaches({0})'
      BY <1>1, <1>3, <2>2 DEF Reaches, NoSession
    <3>2. r \notin {0}
      BY DEF Numbered
    <3> QED
      BY <3>1, <3>2
  <2>3. CASE Left(r)
    <3>1. PICK S \in SUBSET (Requests \cup {0}) : r \notin S /\ Reaches(S)
      BY <2>3 DEF FinalInv, LeftIsGone
    <3>2. \A u \in Tabs : MayRestore(u)' /\ Mine(u)' \in S =>
            tab'[u].before.session.credential \in S
      BY <1>1, <1>3, <1>4, <3>1 DEF Reaches
    <3>3. CASE session'.credential \in S
      BY <3>1, <3>2, <3>3 DEF Reaches
    <3>4. CASE session'.credential \notin S
      <4>1. \A t \in Tabs : ~PutBack(t)
        <5> SUFFICES ASSUME NEW t \in Tabs, PutBack(t) PROVE FALSE
          OBVIOUS
        <5>1. session = tab[t].before.session \/ session.credential = Mine(t)
          BY DEF PutBack, Paired
        <5> QED
          BY <3>1, <3>4, <5>1 DEF PutBack, Reaches
      <4>2. PICK t \in Tabs : PutNew(t)
        BY <3>1, <3>4, <4>1 DEF SessionMoves, Reaches, NoSession
      <4> DEFINE T == S \cup {Mine(t)}
      <4>3. Pairs(t) /\ tab[t].at = "install" /\ Mine(t) \in Requests /\ session = tab[t].before.session
            /\ session'.credential = Mine(t)
        BY <1>10, <4>2 DEF PutNew, Paired
      <4>4. r # Mine(t)
        <5>1. request[Mine(t)].state # "revoked"
          BY <4>3 DEF FinalInv, JoinedAlone, WasActive, Joining
        <5>2. \A u \in Tabs : tab[u].at = "revoke" => u # t /\ Pairs(u)
          BY <4>3, InHand DEF Finalizing
        <5> QED
          BY <2>3, <4>3, <5>1, <5>2 DEF Left, FinalInv, TabsOfRequests
      <4>5. \A u \in Tabs : MayRestore(u)' /\ Mine(u)' = Mine(t) => u = t
        BY <1>1, <1>3, <4>3 DEF FinalInv, TabsOfRequests
      <4>6. MayRestore(t)' => tab'[t].before.session.credential \in S
        BY <1>4, <3>1, <4>3 DEF Reaches
      <4>7. T \in SUBSET (Requests \cup {0}) /\ r \notin T
        BY <3>1, <4>3, <4>4
      <4>8. Reaches(T)'
        <5>1. \A u \in Tabs : MayRestore(u)' /\ Mine(u)' \in T' =>
                tab'[u].before.session.credential \in S
          <6> SUFFICES ASSUME NEW u \in Tabs, MayRestore(u)', Mine(u)' \in T'
                       PROVE  tab'[u].before.session.credential \in S
            OBVIOUS
          <6>1. Mine(t)' = Mine(t)
            BY <1>1, <4>2 DEF PutNew
          <6> QED
            BY <3>2, <4>5, <4>6, <6>1
        <5>2. Mine(t)' = Mine(t)
          BY <1>1, <4>2 DEF PutNew
        <5> QED
          BY <3>1, <4>3, <5>1, <5>2 DEF Reaches
      <4>9. T' = T
        BY <1>1, <4>2 DEF PutNew
      <4> HIDE DEF T
      <4> QED
        BY <4>7, <4>8, <4>9
    <3> QED
      BY <3>3, <3>4
  <2> QED
    BY <2>1, <2>2, <2>3
<1>15. FinalizedIsActive'
  <2> SUFFICES ASSUME session' # NoSession, ~session'.pending
               PROVE  request'[session'.credential].state = "active"
    BY DEF FinalizedIsActive
  <2>1. session'.credential \in Requests
    BY <1>6, <1>7
  <2>2. request'[session'.credential].state # "revoked"
    <3>1. \A r \in Requests : Left(r)' => session'.credential # r
      BY <1>14 DEF LeftIsGone, Reaches
    <3> QED
      BY <2>1, <3>1 DEF Left
  <2>3. CASE session' = session
    BY <1>8, <1>9, <2>1, <2>2, <2>3 DEF WasActive
  <2>4. CASE request'[session.credential].state = "active" /\ session'.credential = session.credential
    BY <2>4
  <2>5. ASSUME NEW t \in Tabs, PutBack(t) PROVE request'[session'.credential].state = "active"
    BY <1>8, <1>9, <2>1, <2>2, <2>5 DEF PutBack, WasActive
  <2>6. ASSUME NEW t \in Tabs, PutNew(t) PROVE FALSE
    BY <2>6 DEF PutNew, Paired
  <2> QED
    BY <2>3, <2>4, <2>5, <2>6 DEF SessionMoves
<1> QED
  BY <1>5, <1>11, <1>12, <1>13, <1>14, <1>15 DEF FinalInv

-----------------------------------------------------------------------------
(* Every step moves so *)

LEMMA OthersMove ==
  ASSUME Numbered, FinalInv, RelayMoves, NEW t \in Tabs, tab'[t] = tab[t]
  PROVE  Rests(t) \/ MovesOn(t)
<1>1. CASE tab[t].at = "idle"
  BY <1>1 DEF FinalInv, TabsOfRequests, Rests
<1>2. CASE tab[t].at # "idle"
  <2>1. tab[t].as = "resumption" => tab[t].at \in Finalizing
    BY DEF FinalInv, TabsOfRequests
  <2>2. tab[t].at = "complete" => request'[tab[t].request].state \in {"active", "revoked"}
    <3>1. Mine(t) \in Requests
      BY <1>2, InHand
    <3>2. tab[t].at = "complete" => WasActive(Mine(t))
      BY DEF FinalInv, StoredAreKnown
    <3> QED
      BY <3>1, <3>2 DEF RelayMoves, WasActive, Mine
  <2> QED
    BY <1>2, <2>1, <2>2 DEF MovesOn
<1> QED
  BY <1>1, <1>2

LEMMA OneMoves ==
  ASSUME Numbered, FinalInv, NEW t \in Tabs, Alone(t), Rests(t) \/ MovesOn(t),
         PairingTypes', RelayMoves, SessionMoves
  PROVE  FinalInv'
<1>1. \A u \in Tabs : Rests(u) \/ MovesOn(u)
  <2> SUFFICES ASSUME NEW u \in Tabs, u # t PROVE Rests(u) \/ MovesOn(u)
    OBVIOUS
  <2>1. tab'[u] = tab[u]
    BY DEF Alone
  <2> QED
    BY <2>1, OthersMove
<1> QED
  BY <1>1, FinalMoves

LEMMA NoneMoves ==
  ASSUME Numbered, FinalInv, UNCHANGED tab, PairingTypes', RelayMoves, SessionMoves
  PROVE  FinalInv'
BY OthersMove, FinalMoves

LEMMA RelayStays ==
  ASSUME request' = request
  PROVE  RelayMoves
BY DEF RelayMoves, Known, WasActive, Left

LEMMA TypesStay ==
  ASSUME PairingTypes, NEW t \in Tabs, Alone(t),
         UNCHANGED <<request, device, keys, session, drawn>>
  PROVE  PairingTypes'
BY DEF PairingTypes, Alone

LEMMA RestsAtEase ==
  ASSUME PairingTypes, NEW t \in Tabs, Puts(t, AtEase)
  PROVE  Alone(t) /\ Rests(t)
<1>1. AtEase \in Pursuits /\ AtEase.at = "idle" /\ AtEase.as = "none"
  BY DEF AtEase, Pursuits, Snapshots, Sessions, Stages
<1> QED
  BY <1>1, PutsOne DEF Rests

LEMMA StateMoves ==
  ASSUME Numbered, FinalInv, NEW r \in Requests, NEW s, SetState(r, s),
         s \in {"open", "approved", "active", "revoked", "gone"}, request[r].state # "none",
         WasActive(r) => s \in {"active", "revoked"},
         s = "revoked" => Left(r),
         s \in {"active", "revoked"} =>
           WasActive(r) \/ \A t \in Tabs : Pairs(t) /\ tab[t].at \in Joining => Mine(t) # r
  PROVE  /\ RelayMoves /\ request'[r].state = s
         /\ request' \in [Requests -> [state : {"none", "open", "approved", "active", "revoked",
                                                "gone"}, device : Nat]]
<1>1. request' \in [Requests -> [state : {"none", "open", "approved", "active", "revoked",
                                          "gone"}, device : Nat]]
  BY DEF FinalInv, PairingTypes, SetState
<1>2. /\ \A q \in Requests \ {r} : request'[q].state = request[q].state
      /\ request'[r].state = s
  BY DEF FinalInv, PairingTypes, SetState
<1> QED
  BY <1>1, <1>2 DEF RelayMoves, Known, WasActive, Left

\* A tab goes on to another point of its pairing or resumption.
LEMMA GoesMoves ==
  ASSUME Numbered, FinalInv, NEW t \in Tabs, NEW at \in Stages, Goes(t, at), tab[t].at # "idle",
         at # "idle",
         tab[t].as = "resumption" => at \in Finalizing,
         at \in Joining => tab[t].at \in Joining,
         at \in Restorable => tab[t].at \in Restorable,
         at = "complete" => request'[Mine(t)].state \in {"active", "revoked"},
         at = "revoke" => session = NoSession /\ session' = NoSession
  PROVE  Alone(t) /\ tab'[t].at = at /\ MovesOn(t)
<1>1. /\ Alone(t) /\ tab'[t].at = at /\ tab'[t].as = tab[t].as
      /\ tab'[t].request = tab[t].request /\ tab'[t].before = tab[t].before
  BY GoesOne DEF FinalInv
<1> QED
  BY <1>1 DEF MovesOn, Mine

LEMMA GoesFinal ==
  ASSUME Numbered, FinalInv, NEW t \in Tabs, Alone(t), Rests(t) \/ MovesOn(t),
         UNCHANGED <<request, device, keys, session, drawn>>
  PROVE  FinalInv'
<1>1. PairingTypes'
  BY TypesStay DEF FinalInv
<1> QED
  BY <1>1, RelayStays, OneMoves DEF SessionMoves

LEMMA PollFinal ==
  ASSUME Numbered, FinalInv, NEW t \in Tabs, Poll(t) \/ Initialize(t) \/ Installed(t)
  PROVE  FinalInv'
<1>1. /\ UNCHANGED <<request, device, keys, session, drawn>>
      /\ tab[t].at \in {"poll", "open", "installed"}
  BY DEF Poll, Initialize, Installed, Stands
<1>2. PICK at \in {"snapshot", "cancel", "restore", "install", "consume"} :
        /\ Goes(t, at)
        /\ tab[t].at = "poll" => at \in {"cancel", "snapshot"}
        /\ tab[t].at = "open" => at \in {"restore", "install"}
        /\ tab[t].at = "installed" => at \in {"restore", "consume"}
  BY DEF Poll, Initialize, Installed, Stands
<1>3. Pairs(t)
  BY <1>1, InHand DEF Finalizing
<1>4. Alone(t) /\ MovesOn(t)
  BY <1>1, <1>2, <1>3, GoesMoves DEF Stages, Joining, Restorable, Finalizing, Pairs
<1> QED
  BY <1>1, <1>4, GoesFinal

\* A pairing that fails, or goes on with what is stored.
LEMMA FailFinal ==
  ASSUME Numbered, FinalInv, NEW t \in Tabs, tab[t].at \in Restorable \cup {"snapshot", "verify"},
         (Goes(t, "restore") /\ tab[t].at \in Restorable) \/ Goes(t, "cancel"),
         request' = request, PairingTypes', session' = session \/ PutBack(t)
  PROVE  FinalInv'
<1>1. Pairs(t) /\ tab[t].at # "idle"
  BY InHand DEF Restorable, Finalizing
<1>2. Alone(t) /\ MovesOn(t)
  BY <1>1, GoesMoves DEF Stages, Joining, Restorable, Finalizing, Pairs
<1> QED
  BY <1>2, RelayStays, OneMoves DEF SessionMoves

LEMMA SnapshotFinal ==
  ASSUME Numbered, FinalInv, NEW t \in Tabs, Snapshot(t)
  PROVE  FinalInv'
<1> DEFINE w == [tab[t] EXCEPT !.at = "keys", !.installed = keys,
                   !.before = [keys |-> keys, session |-> session]]
<1>1. tab[t].at = "snapshot" /\ UNCHANGED <<request, keys, session>> /\ KeepsDevice
  BY DEF Snapshot, Stands
<1>2. device' \in Nat /\ drawn' \in Nat /\ device' <= drawn'
  BY <1>1 DEF KeepsDevice, NextDevice, FinalInv, PairingTypes
<1>3. Pairs(t)
  BY <1>1, InHand DEF Finalizing
<1>4. CASE Goes(t, "cancel")
  <2>1. PairingTypes'
    <3>1. Alone(t)
      BY <1>4, GoesOne DEF FinalInv, Stages
    <3> QED
      BY <1>1, <1>2, <3>1 DEF FinalInv, PairingTypes, Alone
  <2> QED
    BY <1>1, <1>4, <2>1, FailFinal
<1>5. CASE Puts(t, w)
  <2>1. /\ w \in Pursuits /\ w.at = "keys" /\ w.as = tab[t].as /\ w.request = tab[t].request
        /\ w.before.session = session
    BY DEF FinalInv, PairingTypes, Pursuits, Snapshots, Stages, Joining
  <2> HIDE DEF w
  <2>2. Alone(t) /\ tab'[t] = w
    BY <1>5, <2>1, PutsOne DEF FinalInv
  <2>3. PairingTypes'
    BY <1>1, <1>2, <2>2 DEF FinalInv, PairingTypes, Alone
  <2>4. MovesOn(t)
    BY <1>1, <1>3, <2>1, <2>2 DEF MovesOn, Pairs, Joining
  <2> QED
    BY <1>1, <2>2, <2>3, <2>4, RelayStays, OneMoves DEF SessionMoves
<1> QED
  BY <1>4, <1>5 DEF Snapshot

LEMMA InstallKeysFinal ==
  ASSUME Numbered, FinalInv, NEW t \in Tabs, InstallKeys(t)
  PROVE  FinalInv'
<1> DEFINE w == [tab[t] EXCEPT !.at = "open", !.installed = keys']
<1>1. tab[t].at = "keys" /\ UNCHANGED <<request, device, session, drawn>>
  BY DEF InstallKeys, Stands
<1>2. Pairs(t) /\ Mine(t) \in Requests
  BY <1>1, InHand DEF Finalizing
<1>3. CASE UNCHANGED keys /\ Goes(t, "restore")
  <2>1. Alone(t)
    BY <1>3, GoesOne DEF FinalInv, Stages
  <2> QED
    BY <1>1, <1>3, <2>1, TypesStay, FailFinal DEF FinalInv, Restorable
<1>4. CASE keys' = (IF keys = 0 THEN Mine(t) ELSE keys) /\ Puts(t, w)
  <2>1. keys' \in Requests \cup {0}
    BY <1>2, <1>4 DEF FinalInv, PairingTypes
  <2>2. /\ w \in Pursuits /\ w.at = "open" /\ w.as = tab[t].as /\ w.request = tab[t].request
        /\ w.before = tab[t].before
    BY <2>1 DEF FinalInv, PairingTypes, Pursuits, Stages, Joining
  <2> HIDE DEF w
  <2>3. Alone(t) /\ tab'[t] = w
    BY <1>4, <2>2, PutsOne DEF FinalInv
  <2>4. PairingTypes'
    BY <1>1, <2>1, <2>3 DEF FinalInv, PairingTypes, Alone
  <2>5. MovesOn(t)
    BY <1>1, <1>2, <2>2, <2>3 DEF MovesOn, Pairs, Joining, Restorable
  <2> QED
    BY <1>1, <2>3, <2>4, <2>5, RelayStays, OneMoves DEF SessionMoves
<1> QED
  BY <1>3, <1>4 DEF InstallKeys

LEMMA InstallSessionFinal ==
  ASSUME Numbered, FinalInv, NEW t \in Tabs, InstallSession(t)
  PROVE  FinalInv'
<1>1. tab[t].at = "install" /\ UNCHANGED <<request, device, keys, drawn>>
  BY DEF InstallSession, Stands
<1>2. Pairs(t) /\ Mine(t) \in Requests
  BY <1>1, InHand DEF Finalizing
<1>3. CASE UNCHANGED session /\ Goes(t, "restore")
  <2>1. Alone(t)
    BY <1>3, GoesOne DEF FinalInv, Stages
  <2> QED
    BY <1>1, <1>3, <2>1, TypesStay, FailFinal DEF FinalInv, Restorable
<1>4. CASE /\ session = tab[t].before.session /\ session' = Paired(Mine(t))
           /\ Goes(t, "installed")
  <2>1. Alone(t) /\ tab'[t].at = "installed" /\ MovesOn(t)
    BY <1>1, <1>2, <1>4, GoesMoves DEF Stages, Joining, Restorable, Finalizing, Pairs
  <2>2. PairingTypes'
    BY <1>1, <1>2, <1>4, <2>1 DEF FinalInv, PairingTypes, Alone, Paired, Sessions
  <2>3. SessionMoves
    BY <1>1, <1>2, <1>4, <2>1 DEF SessionMoves, PutNew
  <2> QED
    BY <1>1, <2>1, <2>2, <2>3, RelayStays, OneMoves
<1> QED
  BY <1>3, <1>4 DEF InstallSession

LEMMA RestoreFinal ==
  ASSUME Numbered, FinalInv, NEW t \in Tabs, Restore(t)
  PROVE  FinalInv'
<1>1. tab[t].at = "restore" /\ Goes(t, "cancel") /\ UNCHANGED <<request, device, drawn>>
  BY DEF Restore, Stands
<1>2. /\ keys' \in {tab[t].before.keys, keys}
      /\ \/ session' = session
         \/ /\ session \in {tab[t].before.session, Paired(Mine(t))}
            /\ session' = tab[t].before.session
  BY DEF Restore
<1>3. Alone(t) /\ tab'[t].at = "cancel"
  BY <1>1, GoesOne DEF FinalInv, Stages
<1>4. PairingTypes'
  BY <1>1, <1>2, <1>3 DEF FinalInv, PairingTypes, Alone, Pursuits, Snapshots
<1>5. Pairs(t)
  BY <1>1, InHand DEF Finalizing
<1>6. session' = session \/ PutBack(t)
  BY <1>1, <1>2, <1>3, <1>5 DEF PutBack, MayRestore, Restorable
<1> QED
  BY <1>1, <1>4, <1>6, FailFinal DEF Restorable

LEMMA LoseFinal ==
  ASSUME Numbered, FinalInv, NEW t \in Tabs, CloseTab(t) \/ CancelRequest(t)
  PROVE  FinalInv'
<1>1. Puts(t, AtEase) /\ UNCHANGED <<device, keys, session, drawn>>
  BY DEF CloseTab, CancelRequest
<1>2. Alone(t) /\ Rests(t)
  BY <1>1, RestsAtEase DEF FinalInv
<1>3. CASE UNCHANGED request
  BY <1>1, <1>2, <1>3, GoesFinal
<1>4. CASE /\ tab[t].at = "cancel"
           /\ request' = [request EXCEPT ![Mine(t)].state =
                            IF @ \in {"open", "approved"} THEN "gone" ELSE @]
  <2>1. Mine(t) \in Requests
    BY <1>4, InHand
  <2>2. /\ request' \in [Requests -> [state : {"none", "open", "approved", "active", "revoked",
                                               "gone"}, device : Nat]]
        /\ \A r \in Requests :
             request'[r].state = request[r].state
               \/ (request[r].state \in {"open", "approved"} /\ request'[r].state = "gone")
    BY <1>4, <2>1 DEF FinalInv, PairingTypes
  <2>3. RelayMoves
    BY <2>2 DEF RelayMoves, Known, WasActive, Left
  <2>4. PairingTypes'
    BY <1>1, <1>2, <2>2 DEF FinalInv, PairingTypes, Alone
  <2> QED
    BY <1>1, <1>2, <2>3, <2>4, OneMoves DEF SessionMoves
<1> QED
  BY <1>3, <1>4 DEF CloseTab, CancelRequest, Stands

LEMMA RelayFinal ==
  ASSUME Numbered, FinalInv, NEW r \in Requests, Approve(r) \/ Expire(r)
  PROVE  FinalInv'
<1>1. PICK s \in {"approved", "gone"} :
        SetState(r, s) /\ request[r].state \in {"open", "approved"}
  BY DEF Approve, Expire
<1>2. UNCHANGED <<device, keys, session, tab, drawn>>
  BY DEF Approve, Expire
<1>3. /\ RelayMoves
      /\ request' \in [Requests -> [state : {"none", "open", "approved", "active", "revoked",
                                             "gone"}, device : Nat]]
  BY <1>1, StateMoves DEF WasActive
<1>4. PairingTypes'
  BY <1>2, <1>3 DEF FinalInv, PairingTypes
<1> QED
  BY <1>2, <1>3, <1>4, NoneMoves DEF SessionMoves

LEMMA AmbiguousFinal ==
  ASSUME Numbered, FinalInv, NEW t \in Tabs, tab[t].at \in Finalizing, Ambiguous(t),
         UNCHANGED <<request, device, keys, session, drawn>>
  PROVE  FinalInv'
<1>1. CASE Goes(t, "verify") /\ Pairs(t)
  <2>1. Alone(t) /\ MovesOn(t)
    BY <1>1, GoesMoves DEF Stages, Joining, Restorable, Finalizing, Pairs
  <2> QED
    BY <2>1, GoesFinal
<1>2. CASE Puts(t, AtEase)
  BY <1>2, RestsAtEase, GoesFinal DEF FinalInv
<1> QED
  BY <1>1, <1>2 DEF Ambiguous, Pairs

LEMMA ConsumeFinal ==
  ASSUME Numbered, FinalInv, NEW t \in Tabs, Consume(t)
  PROVE  FinalInv'
<1> DEFINE r == Mine(t)
           done == request[r].state \in {"approved", "active"}
<1>1. tab[t].at = "consume" /\ UNCHANGED <<device, keys, session, drawn>>
  BY DEF Consume, Stands
<1>2. r \in Requests /\ request[r].state # "none"
  BY <1>1, InHand DEF Known
<1>3. PICK at \in {"complete", "list"} :
        /\ Goes(t, at)
        /\ \/ SetState(r, IF done THEN "active" ELSE request[r].state) /\ (at = "complete" => done)
           \/ (UNCHANGED request /\ at = "list")
  <2>1. \/ /\ SetState(r, IF done THEN "active" ELSE request[r].state)
           /\ \/ Goes(t, IF done THEN "complete" ELSE "list")
              \/ Goes(t, "list")
        \/ Goes(t, "list") /\ UNCHANGED request
    BY DEF Consume
  <2> QED
    BY <2>1
<1>4. \A u \in Tabs : Pairs(u) /\ tab[u].at \in Joining => Mine(u) # r
  <2> SUFFICES ASSUME NEW u \in Tabs, Pairs(u), tab[u].at \in Joining, Mine(u) = r
               PROVE  FALSE
    OBVIOUS
  <2>1. CASE Pairs(t)
    BY <1>1, <2>1 DEF FinalInv, TabsOfRequests, Joining
  <2>2. CASE tab[t].as = "resumption"
    BY <2>2 DEF FinalInv, JoinedAlone
  <2> QED
    BY <1>1, <2>1, <2>2, InHand
<1>5. CASE UNCHANGED request /\ at = "list"
  <2>1. Alone(t) /\ MovesOn(t)
    BY <1>1, <1>3, <1>5, GoesMoves DEF Stages, Joining, Restorable, Finalizing
  <2> QED
    BY <1>1, <1>5, <2>1, GoesFinal
<1>6. CASE SetState(r, IF done THEN "active" ELSE request[r].state) /\ (at = "complete" => done)
  <2> DEFINE s == IF done THEN "active" ELSE request[r].state
  <2>1. /\ s \in {"open", "approved", "active", "revoked", "gone"}
        /\ WasActive(r) => s \in {"active", "revoked"}
        /\ s = "revoked" => Left(r)
    BY <1>2 DEF FinalInv, PairingTypes, WasActive, Left
  <2>2. at = "complete" => s = "active"
    BY <1>6
  <2>3. SetState(r, s)
    BY <1>6
  <2> HIDE DEF s, done
  <2>4. /\ RelayMoves /\ request'[r].state = s
        /\ request' \in [Requests -> [state : {"none", "open", "approved", "active", "revoked",
                                               "gone"}, device : Nat]]
    BY <1>2, <1>4, <2>1, <2>3, StateMoves
  <2>5. at = "complete" => request'[r].state \in {"active", "revoked"}
    BY <2>2, <2>4
  <2>6. Alone(t) /\ MovesOn(t)
    BY <1>1, <1>3, <2>5, GoesMoves DEF Stages, Joining, Restorable, Finalizing
  <2>7. PairingTypes'
    BY <1>1, <2>4, <2>6 DEF FinalInv, PairingTypes, Alone
  <2> QED
    BY <1>1, <2>4, <2>6, <2>7, OneMoves DEF SessionMoves
<1> QED
  BY <1>3, <1>5, <1>6

LEMMA ListFinal ==
  ASSUME Numbered, FinalInv, NEW t \in Tabs, ListDevices(t)
  PROVE  FinalInv'
<1>1. tab[t].at = "list" /\ UNCHANGED <<request, device, keys, session, drawn>>
  BY DEF ListDevices, Stands
<1>2. CASE Ambiguous(t)
  BY <1>1, <1>2, AmbiguousFinal DEF Finalizing
<1>3. CASE Active(Mine(t)) /\ Goes(t, "complete")
  <2>1. request'[Mine(t)].state = "active"
    BY <1>1, <1>3 DEF Active
  <2>2. Alone(t) /\ MovesOn(t)
    BY <1>1, <1>3, <2>1, GoesMoves DEF Stages, Joining, Restorable, Finalizing
  <2> QED
    BY <1>1, <2>2, GoesFinal
<1> QED
  BY <1>2, <1>3 DEF ListDevices

LEMMA CompleteFinal ==
  ASSUME Numbered, FinalInv, NEW t \in Tabs, Complete(t)
  PROVE  FinalInv'
<1> DEFINE r == Mine(t)
<1>1. tab[t].at = "complete" /\ UNCHANGED <<request, device, keys, drawn>>
  BY DEF Complete, Stands
<1>2. CASE session = Paired(r)
  <2>1. /\ session' = [credential |-> r, pending |-> FALSE] /\ session.credential = r
        /\ Puts(t, AtEase)
    BY <1>2 DEF Complete, Paired
  <2>2. r \in Requests /\ WasActive(r)
    BY <1>1, InHand DEF FinalInv, StoredAreKnown
  <2>3. request[r].state # "revoked"
    BY <2>1, <2>2 DEF FinalInv, LeftIsGone, Left, Reaches
  <2>4. SessionMoves
    BY <1>1, <2>1, <2>2, <2>3 DEF SessionMoves, WasActive
  <2>5. Alone(t) /\ Rests(t)
    BY <2>1, RestsAtEase DEF FinalInv
  <2>6. PairingTypes'
    BY <1>1, <2>1, <2>2, <2>5 DEF FinalInv, PairingTypes, Alone, Sessions
  <2> QED
    BY <1>1, <2>4, <2>5, <2>6, RelayStays, OneMoves
<1>3. CASE session # Paired(r)
  <2>1. UNCHANGED session /\ (Puts(t, AtEase) \/ Ambiguous(t))
    BY <1>3 DEF Complete
  <2>2. CASE Puts(t, AtEase)
    BY <1>1, <2>1, <2>2, RestsAtEase, GoesFinal DEF FinalInv
  <2>3. CASE Ambiguous(t)
    BY <1>1, <2>1, <2>3, AmbiguousFinal DEF Finalizing
  <2> QED
    BY <2>1, <2>2, <2>3
<1> QED
  BY <1>2, <1>3

LEMMA VerifyFinal ==
  ASSUME Numbered, FinalInv, NEW t \in Tabs, Verify(t)
  PROVE  FinalInv'
<1>1. tab[t].at = "verify" /\ UNCHANGED <<request, device, keys, session, drawn>>
  BY DEF Verify, Stands
<1>2. Pairs(t)
  BY <1>1, InHand DEF Finalizing
<1>3. Puts(t, AtEase) \/ (Goes(t, "revoke") /\ session = NoSession) \/ Goes(t, "cancel")
  BY DEF Verify
<1>4. CASE Puts(t, AtEase)
  BY <1>1, <1>4, RestsAtEase, GoesFinal DEF FinalInv
<1>5. CASE Goes(t, "revoke") /\ session = NoSession
  <2>1. Alone(t) /\ MovesOn(t)
    BY <1>1, <1>2, <1>5, GoesMoves DEF Stages, Joining, Restorable, Finalizing, Pairs
  <2> QED
    BY <1>1, <2>1, GoesFinal
<1>6. CASE Goes(t, "cancel")
  <2>1. Alone(t) /\ MovesOn(t)
    BY <1>1, <1>2, <1>6, GoesMoves DEF Stages, Joining, Restorable, Finalizing, Pairs
  <2> QED
    BY <1>1, <2>1, GoesFinal
<1> QED
  BY <1>3, <1>4, <1>5, <1>6

LEMMA RevokeFinal ==
  ASSUME Numbered, FinalInv, NEW t \in Tabs, RevokeCleared(t)
  PROVE  FinalInv'
<1> DEFINE r == Mine(t)
           s == IF Active(r) THEN "revoked" ELSE request[r].state
<1>1. tab[t].at = "revoke" /\ Goes(t, "cancel") /\ UNCHANGED <<device, keys, session, drawn>>
  BY DEF RevokeCleared, Stands
<1>2. Pairs(t) /\ r \in Requests /\ request[r].state # "none"
  BY <1>1, InHand DEF Finalizing, Known
<1>3. Alone(t) /\ MovesOn(t)
  BY <1>1, <1>2, GoesMoves DEF Stages, Joining, Restorable, Finalizing, Pairs
<1>4. CASE UNCHANGED request
  BY <1>1, <1>3, <1>4, GoesFinal
<1>5. CASE SetState(r, s)
  <2>1. /\ s \in {"open", "approved", "active", "revoked", "gone"}
        /\ WasActive(r) => s \in {"active", "revoked"}
        /\ s \in {"active", "revoked"} => WasActive(r)
        /\ Left(r)
    BY <1>1, <1>2 DEF FinalInv, PairingTypes, WasActive, Left, Active
  <2> HIDE DEF s
  <2>2. /\ RelayMoves
        /\ request' \in [Requests -> [state : {"none", "open", "approved", "active", "revoked",
                                               "gone"}, device : Nat]]
    BY <1>2, <1>5, <2>1, StateMoves
  <2>3. PairingTypes'
    BY <1>1, <1>3, <2>2 DEF FinalInv, PairingTypes, Alone
  <2> QED
    BY <1>1, <1>3, <2>2, <2>3, OneMoves DEF SessionMoves
<1> QED
  BY <1>4, <1>5 DEF RevokeCleared

LEMMA AbortFinal ==
  ASSUME Numbered, FinalInv, NEW t \in Tabs, Abort(t)
  PROVE  FinalInv'
<1> DEFINE p == tab[t]
           at == IF p.at \in {"poll", "snapshot"} THEN "cancel" ELSE p.at
           w == [p EXCEPT !.aborted = TRUE, !.at = at]
<1>1. /\ Pairs(t) /\ p.at \in {"poll", "snapshot", "keys", "open", "install", "installed"}
      /\ UNCHANGED <<request, device, keys, session, drawn>>
  BY DEF Abort, Pairs
<1>2. p \in Pursuits /\ at \in Stages
  BY <1>1 DEF FinalInv, PairingTypes, Stages, Joining
<1>3. /\ w \in Pursuits /\ w.at = at /\ w.as = p.as /\ w.request = p.request
      /\ w.before = p.before
  BY <1>2 DEF Pursuits
<1>4. Puts(t, w)
  BY <1>2 DEF Abort, Pursuits
<1> HIDE DEF w
<1>5. Alone(t) /\ tab'[t] = w
  BY <1>3, <1>4, PutsOne DEF FinalInv
<1>6. MovesOn(t)
  BY <1>1, <1>3, <1>5 DEF MovesOn, Pairs, Joining, Restorable
<1> QED
  BY <1>1, <1>5, <1>6, GoesFinal

LEMMA DropFinal ==
  ASSUME Numbered, FinalInv, Disconnect \/ Forget
  PROVE  FinalInv'
<1>1. /\ session' = NoSession /\ UNCHANGED <<request, tab, drawn>>
      /\ UNCHANGED <<keys, device>> \/ (keys' = 0 /\ device' = 0)
  BY DEF Disconnect, Forget
<1>2. PairingTypes'
  BY <1>1 DEF FinalInv, PairingTypes, Sessions
<1> QED
  BY <1>1, <1>2, RelayStays, NoneMoves DEF SessionMoves

\* A resumption finalizes the stored session, which no pairing has yet to install.
LEMMA ResumeFinal ==
  ASSUME Numbered, FinalInv, NEW t \in Tabs, Resume(t)
  PROVE  FinalInv'
<1> DEFINE r == session.credential
           w == [AtEase EXCEPT !.at = "consume", !.request = r, !.as = "resumption"]
<1>1. /\ tab[t].at = "idle" /\ session.pending /\ Puts(t, w)
      /\ UNCHANGED <<request, device, keys, session, drawn>>
  BY DEF Resume, Stands
<1>2. r \in Requests /\ Known(r)
  BY <1>1, SessionsOfRequests DEF FinalInv, StoredAreKnown, NoSession
<1>3. w \in Pursuits /\ w.at = "consume" /\ w.as = "resumption" /\ w.request = r
  BY <1>2 DEF Pursuits, AtEase, Stages, Finalizing, Snapshots, Sessions
<1> HIDE DEF w
<1>4. Alone(t) /\ tab'[t] = w
  BY <1>1, <1>3, PutsOne DEF FinalInv
<1>5. \A u \in Tabs \ {t} : tab'[u] = tab[u] /\ Mine(u)' = Mine(u)
  BY <1>4 DEF Alone, Mine
<1>6. Mine(t)' = r /\ ~Pairs(t)'
  BY <1>3, <1>4 DEF Mine, Pairs
<1>7. \A u \in Tabs : Pairs(u)' => u # t /\ Pairs(u)
  BY <1>5, <1>6 DEF Pairs
<1>8. \A u \in Tabs : MayRestore(u)' => u # t /\ MayRestore(u)
  BY <1>5, <1>7 DEF MayRestore
<1>9. \A u \in Tabs : Pairs(u) /\ tab[u].at \in Joining => Mine(u) # r
  BY DEF FinalInv, NotYetInstalled
<1> HIDE DEF r
<1>10. PairingTypes'
  BY <1>1, <1>4, TypesStay DEF FinalInv
<1>11. TabsOfRequests'
  BY <1>1, <1>2, <1>3, <1>4, <1>5, <1>6, <1>7 DEF FinalInv, TabsOfRequests, Known, Finalizing
<1>12. StoredAreKnown'
  BY <1>1, <1>3, <1>4, <1>5, <1>8 DEF FinalInv, StoredAreKnown, Known, WasActive
<1>13. NotYetInstalled'
  BY <1>1, <1>5, <1>7, <1>8 DEF FinalInv, NotYetInstalled
<1>14. JoinedAlone'
  BY <1>1, <1>5, <1>6, <1>7, <1>9 DEF FinalInv, JoinedAlone, WasActive
<1>15. LeftIsGone'
  <2>1. \A q \in Requests : Left(q)' => Left(q)
    BY <1>1, <1>3, <1>4, <1>5 DEF Left
  <2>2. \A S : Reaches(S) => Reaches(S)'
    BY <1>1, <1>5, <1>8 DEF Reaches
  <2> QED
    BY <2>1, <2>2 DEF FinalInv, LeftIsGone
<1>16. FinalizedIsActive'
  BY <1>1 DEF FinalInv, FinalizedIsActive
<1> QED
  BY <1>10, <1>11, <1>12, <1>13, <1>14, <1>15, <1>16 DEF FinalInv

\* A new request is of a credential nobody has.
LEMMA CreateFinal ==
  ASSUME Numbered, FinalInv, NEW t \in Tabs, NEW r \in Requests, CreateRequest(t, r)
  PROVE  FinalInv'
<1> DEFINE new == [state |-> "open", device |-> NextDevice]
           w == [AtEase EXCEPT !.at = "poll", !.request = r, !.as = "pairing"]
<1>1. /\ tab[t].at = "idle" /\ request[r].state = "none" /\ KeepsDevice
      /\ request' = [request EXCEPT ![r] = new] /\ Puts(t, w) /\ UNCHANGED <<keys, session>>
  BY DEF CreateRequest, Stands
<1>2. device' \in Nat /\ drawn' \in Nat /\ device' <= drawn' /\ NextDevice \in Nat
  BY <1>1 DEF KeepsDevice, NextDevice, FinalInv, PairingTypes
<1>3. /\ request' \in [Requests -> [state : {"none", "open", "approved", "active", "revoked",
                                            "gone"}, device : Nat]]
      /\ request'[r] = new /\ \A q \in Requests \ {r} : request'[q] = request[q]
  BY <1>1, <1>2 DEF FinalInv, PairingTypes
<1>4. w \in Pursuits /\ w.at = "poll" /\ w.as = "pairing" /\ w.request = r /\ new.state = "open"
  BY DEF Pursuits, AtEase, Stages, Joining, Snapshots, Sessions
<1> HIDE DEF w, new
<1>5. Alone(t) /\ tab'[t] = w
  BY <1>1, <1>4, PutsOne DEF FinalInv
<1>6. \A u \in Tabs \ {t} : tab'[u] = tab[u] /\ Mine(u)' = Mine(u)
  BY <1>5 DEF Alone, Mine
<1>7. /\ Mine(t)' = r /\ Pairs(t)' /\ ~MayRestore(t)'
  BY <1>4, <1>5 DEF Mine, Pairs, MayRestore, Restorable
<1>8. \A q \in Requests : Known(q) => request'[q] = request[q] /\ Known(q)' /\ q # r
  BY <1>1, <1>3 DEF Known
<1>9. \A u \in Tabs : tab[u].at # "idle" => Mine(u) \in Requests /\ Known(Mine(u)) /\ Mine(u) # r
  BY <1>8, InHand
<1>10. \A u \in Tabs : Pairs(u) => tab[u].at # "idle"
  BY DEF FinalInv, TabsOfRequests, Pairs
<1>11. \A u \in Tabs \ {t} : (Pairs(u)' <=> Pairs(u)) /\ (MayRestore(u)' <=> MayRestore(u))
  BY <1>6 DEF Pairs, MayRestore
<1>12. \A u \in Tabs : MayRestore(u)' => u # t /\ MayRestore(u) /\ tab'[u] = tab[u]
  BY <1>6, <1>7, <1>11
<1>13. /\ session # NoSession => session.credential \in Requests /\ Known(session.credential)
       /\ session.credential # r
       /\ \A u \in Tabs : LET b == tab[u].before.session IN
            /\ MayRestore(u) => b.credential # r
            /\ MayRestore(u) /\ b # NoSession => b.credential \in Requests /\ Known(b.credential)
  BY <1>8, SessionsOfRequests DEF FinalInv, StoredAreKnown, NoSession, Numbered
<1>14. PairingTypes'
  BY <1>1, <1>2, <1>3, <1>5 DEF FinalInv, PairingTypes, Alone
<1>15. TabsOfRequests'
  <2>1. Known(r)'
    BY <1>3, <1>4 DEF Known
  <2>2. \A u \in Tabs : u # t /\ tab[u].at # "idle" => Known(Mine(u))'
    BY <1>6, <1>8, <1>9 DEF Known
  <2> QED
    BY <1>1, <1>4, <1>5, <1>6, <1>7, <1>9, <1>10, <1>11, <2>1, <2>2 DEF FinalInv, TabsOfRequests
<1>16. StoredAreKnown'
  <2>1. session # NoSession => request'[session.credential].state # "none"
    BY <1>8, <1>13 DEF Known
  <2>2. \A u \in Tabs : LET b == tab'[u].before.session IN
          MayRestore(u)' /\ b # NoSession =>
            /\ request'[b.credential].state # "none"
            /\ ~b.pending => request'[b.credential].state \in {"active", "revoked"}
    BY <1>8, <1>12, <1>13 DEF Known, FinalInv, StoredAreKnown, WasActive
  <2>3. \A u \in Tabs : tab'[u].at = "complete" => request'[Mine(u)'].state \in {"active", "revoked"}
    BY <1>4, <1>5, <1>6, <1>8, <1>9 DEF FinalInv, StoredAreKnown, WasActive
  <2> QED
    BY <1>1, <2>1, <2>2, <2>3 DEF StoredAreKnown, Known, WasActive
<1>17. NotYetInstalled'
  BY <1>1, <1>6, <1>7, <1>11, <1>12, <1>13 DEF FinalInv, NotYetInstalled
<1>18. JoinedAlone'
  <2>1. \A u \in Tabs : tab'[u].as = "resumption" => u # t /\ tab[u].as = "resumption"
    BY <1>4, <1>5, <1>6
  <2>2. \A u \in Tabs : tab[u].as = "resumption" => Mine(u) # r
    BY <1>9 DEF FinalInv, TabsOfRequests
  <2>3. request'[r].state = "open"
    BY <1>3, <1>4
  <2> QED
    BY <1>6, <1>7, <1>8, <1>9, <1>10, <1>11, <2>1, <2>2, <2>3 DEF FinalInv, JoinedAlone, WasActive
<1>19. LeftIsGone'
  <2>1. \A q \in Requests : Left(q)' => Left(q)
    BY <1>3, <1>4, <1>5, <1>6 DEF Left
  <2>2. \A S : Reaches(S) => Reaches(S)'
    BY <1>1, <1>6, <1>12 DEF Reaches
  <2> QED
    BY <2>1, <2>2 DEF FinalInv, LeftIsGone
<1>20. FinalizedIsActive'
  BY <1>1, <1>8, <1>13 DEF FinalInv, FinalizedIsActive
<1> QED
  BY <1>14, <1>15, <1>16, <1>17, <1>18, <1>19, <1>20 DEF FinalInv

LEMMA FinalStep ==
  ASSUME Numbered, FinalInv, [PairingNext]_pairingVars
  PROVE  FinalInv'
<1>1. CASE UNCHANGED pairingVars
  <2>1. PairingTypes'
    BY <1>1 DEF pairingVars, FinalInv, PairingTypes
  <2> QED
    BY <1>1, <2>1, RelayStays, NoneMoves DEF pairingVars, SessionMoves
<1>2. ASSUME NEW t \in Tabs, PairingStep(t) \/ Abort(t) \/ CloseTab(t)
      PROVE  FinalInv'
  BY <1>2, PollFinal, SnapshotFinal, InstallKeysFinal, InstallSessionFinal, RestoreFinal,
     LoseFinal, ConsumeFinal, ListFinal, CompleteFinal, VerifyFinal, RevokeFinal, AbortFinal
  DEF PairingStep
<1>3. ASSUME NEW t \in Tabs, NEW r \in Requests, CreateRequest(t, r)
      PROVE  FinalInv'
  BY <1>3, CreateFinal
<1>4. ASSUME NEW t \in Tabs, Resume(t)
      PROVE  FinalInv'
  BY <1>4, ResumeFinal
<1>5. ASSUME NEW r \in Requests, Approve(r) \/ Expire(r)
      PROVE  FinalInv'
  BY <1>5, RelayFinal
<1>6. CASE Disconnect \/ Forget
  BY <1>6, DropFinal
<1> QED
  BY <1>1, <1>2, <1>3, <1>4, <1>5, <1>6 DEF PairingNext

\* A session whose marker was removed has an activated credential, always: no window of the
\* code, lost answer or restored session brings back a credential that was revoked, or takes
\* the marker off one the relay has not activated.
THEOREM FinalizedIsAlwaysActive ==
  ASSUME Numbered
  PROVE  PairingSpec => []FinalizedIsActive
<1>1. PairingInit => FinalInv
  <2> SUFFICES ASSUME PairingInit PROVE FinalInv
    OBVIOUS
  <2>1. PairingInv
    BY PairingInvInit
  <2>2. /\ \A r \in Requests : request[r].state = "none"
        /\ \A t \in Tabs : tab[t].at = "idle" /\ tab[t].as = "none"
        /\ session = NoSession
    BY DEF PairingInit, AtEase
  <2>3. StoredAreKnown /\ JoinedAlone /\ LeftIsGone
    BY <2>2 DEF StoredAreKnown, JoinedAlone, LeftIsGone, Left, MayRestore, Pairs
  <2> QED
    BY <2>1, <2>3 DEF PairingInv, FinalInv
<1>2. FinalInv /\ [PairingNext]_pairingVars => FinalInv'
  BY FinalStep
<1>3. FinalInv => FinalizedIsActive
  BY DEF FinalInv
<1> QED
  BY <1>1, <1>2, <1>3, PTL DEF PairingSpec

-----------------------------------------------------------------------------
(* The tabs of a browser: a tab at rest has the stored session open, or nothing,
   for any number of tabs, operations, sessions, signals and faults *)

CONSTANTS Slots, Grants, MaxSignals

\* keys, session and tab are those of a behaviour of the tabs; Sessions is a set above.
VARIABLES opener, handler, inbox, granted, signals, faults

Vault == INSTANCE VaultTabs WITH Sessions <- Grants

TabRows ==
  [view : {"loading", "connect", "pairing", "ready"}, active : Nat, vault : Nat, init : Nat,
   by : Slots \cup {0}, leaving : {"no", "disconnect", "forget", "disconnected", "forgotten"}]

Openers ==
  [at : {"off", "start", "approval", "open", "install", "installed", "read", "check", "close"},
   kind : {"boot", "save", "pair"}, session : Nat, expected : Nat, durable : Nat,
   stale : BOOLEAN]

Signals == {"disconnect", "forget"}

Handlers ==
  [at : {"off", "read", "decide", "blind", "signOut", "finish"}, kind : Signals,
   candidate : Nat, busy : BOOLEAN, durable : Nat, keys : BOOLEAN, stale : BOOLEAN]

TabsTypes ==
  /\ session \in Nat /\ keys \in BOOLEAN /\ granted \in Nat
  /\ tab \in [Tabs -> TabRows]
  /\ opener \in [Tabs -> [Slots -> Openers]]
  /\ handler \in [Tabs -> Handlers]
  /\ inbox \in [Tabs -> Seq(Signals)]

\* A tab that has a session open, or leaves it, has no operation, and never two.
ViewHolds(t) ==
  /\ tab[t].active # 0 => tab[t].view = "ready"
  /\ tab[t].view = "ready" => ~Vault!Running(t)
  /\ tab[t].leaving # "no" => ~Vault!Running(t) /\ tab[t].view \in {"ready", "connect"}
  /\ \A s, r \in Slots : ~Vault!Does(t, s, "off") /\ ~Vault!Does(t, r, "off") => s = r

\* An operation that is not stale is the tab's own, and no signal has ended it.
Opened == {"install", "installed", "read", "check"}

LivesIn(t, s) ==
  ~opener[t][s].stale =>
    /\ opener[t][s].at \in Opened \cup {"approval", "open"} => ~Vault!SigningOut(t)
    /\ opener[t][s].at \in Opened \cup {"open"} =>
         tab[t].init = opener[t][s].session /\ tab[t].by = s
    /\ opener[t][s].at \in Opened => tab[t].vault = opener[t][s].session

\* The notes are open for the session in memory, but while an operation opens or
\* closes them, or the session is being left.
VaultHolds(t) ==
  /\ ~Vault!Running(t) => tab[t].vault \in {0, tab[t].active}
  /\ tab[t].active # 0 /\ tab[t].vault # tab[t].active =>
       Vault!Cleared(t) \/ handler[t].at = "finish"
  /\ Vault!Cleared(t) => tab[t].vault = 0
  /\ handler[t].at = "finish" => tab[t].vault = 0 \/ Vault!Running(t)
  /\ \A s \in Slots : opener[t][s].at \in {"start", "approval", "open"} => tab[t].vault = 0

\* What a tab has open, or will have once it has compared what it read.
Holds(t, x) ==
  /\ x # 0
  /\ \/ tab[t].active = x
     \/ \E s \in Slots : /\ Vault!Does(t, s, "check") /\ ~opener[t][s].stale
                         /\ opener[t][s].session = x /\ opener[t][s].durable = x

\* A signal that ends it is on its way, or is being handled.
SomeoneLeaves == \E u \in Tabs : tab[u].leaving # "no"

Doomed(t, x) ==
  \/ Vault!SigningOut(t)
  \/ /\ ~handler[t].stale /\ handler[t].candidate = x
     /\ \/ handler[t].at \in {"read", "blind"}
        \/ handler[t].at = "decide" /\ handler[t].durable # x

Told(t) ==
  \A x \in Nat : Holds(t, x) /\ x # session => SomeoneLeaves \/ inbox[t] # <<>> \/ Doomed(t, x)

TabHolds(t) ==
  /\ ViewHolds(t) /\ (\A s \in Slots : LivesIn(t, s)) /\ VaultHolds(t)
  /\ overlaps = {} => Told(t)

TabsInv == TabsTypes /\ \A t \in Tabs : TabHolds(t)

\* At first every tab is loading.
LEMMA TabsInvInit == Vault!TabsInit => TabsInv
<1> SUFFICES ASSUME Vault!TabsInit PROVE TabsInv
  OBVIOUS
<1>1. /\ Vault!Loading \in TabRows /\ Vault!Idle \in Openers
      /\ Vault!Deaf \in Handlers /\ <<>> \in Seq(Signals)
  BY DEF Vault!Loading, TabRows, Vault!Idle, Openers, Vault!Deaf, Handlers, Signals
<1>2. TabsTypes
  BY <1>1 DEF Vault!TabsInit, TabsTypes
<1>3. ASSUME NEW t \in Tabs PROVE TabHolds(t)
  BY DEF Vault!TabsInit, TabHolds, ViewHolds, LivesIn, VaultHolds, Told, Holds, Vault!Running,
         Vault!Does,
         Vault!Cleared, Vault!Loading, Vault!Idle, Vault!Deaf, Opened
<1> QED
  BY <1>2, <1>3 DEF TabsInv

-----------------------------------------------------------------------------
(* What a step changes *)

\* One tab's row.
LEMMA RowSet ==
  ASSUME TabsTypes, NEW t \in Tabs, NEW r \in TabRows, Vault!SetTab(t, r)
  PROVE  /\ tab' \in [Tabs -> TabRows] /\ tab'[t] = r
         /\ \A u \in Tabs \ {t} : tab'[u] = tab[u]
  BY DEF TabsTypes, Vault!SetTab

\* One operation of one tab.
LEMMA OperationSet ==
  ASSUME TabsTypes, NEW t \in Tabs, NEW s \in Slots, NEW o \in Openers, Vault!SetOp(t, s, o)
  PROVE  /\ opener' \in [Tabs -> [Slots -> Openers]] /\ opener'[t][s] = o
         /\ \A r \in Slots \ {s} : opener'[t][r] = opener[t][r]
         /\ \A u \in Tabs \ {t} : opener'[u] = opener[u]
  BY DEF TabsTypes, Vault!SetOp

\* All of them.
LEMMA Bumped ==
  ASSUME TabsTypes, NEW t \in Tabs, NEW ops \in [Slots -> Openers], Vault!Bump(t, ops)
  PROVE  /\ opener' \in [Tabs -> [Slots -> Openers]] /\ opener'[t] = ops
         /\ \A u \in Tabs \ {t} : opener'[u] = opener[u]
  BY DEF TabsTypes, Vault!Bump

\* Marked as stale, an operation stays where it is.
LEMMA Staled ==
  ASSUME TabsTypes, NEW t \in Tabs
  PROVE  /\ Vault!StaleOps(t) \in [Slots -> Openers]
         /\ \A s \in Slots : Vault!StaleOps(t)[s].stale /\ Vault!StaleOps(t)[s].at = opener[t][s].at
<1>1. ASSUME NEW s \in Slots
      PROVE  /\ [opener[t][s] EXCEPT !.stale = TRUE] \in Openers
             /\ [opener[t][s] EXCEPT !.stale = TRUE].stale
             /\ [opener[t][s] EXCEPT !.stale = TRUE].at = opener[t][s].at
  <2>1. opener[t][s] \in Openers
    BY DEF TabsTypes
  <2> QED
    BY <2>1 DEF Openers
<1> QED
  BY <1>1 DEF Vault!StaleOps

\* The signal a tab handles.
LEMMA HandlerSet ==
  ASSUME TabsTypes, NEW t \in Tabs, NEW h \in Handlers, handler' = [handler EXCEPT ![t] = h]
  PROVE  /\ handler' \in [Tabs -> Handlers] /\ handler'[t] = h
         /\ \A u \in Tabs \ {t} : handler'[u] = handler[u]
  BY DEF TabsTypes

\* So does what the tab handles.
LEMMA HandlerOutdated ==
  ASSUME TabsTypes, NEW t \in Tabs, Vault!Outdate(t)
  PROVE  /\ handler' \in [Tabs -> Handlers] /\ handler'[t].at = handler[t].at
         /\ \A u \in Tabs \ {t} : handler'[u] = handler[u]
  BY DEF TabsTypes, Vault!Outdate, Handlers

-----------------------------------------------------------------------------
(* What the other tabs keep *)

Same(t) == tab'[t] = tab[t] /\ opener'[t] = opener[t] /\ handler'[t] = handler[t]

\* Outside the windows the stored session is replaced only when no other tab has it open,
\* or is going to hear.
Unseen(t) == overlaps' = {} => session' = session \/ ~Vault!Elsewhere(t) \/ SomeoneLeaves'

\* The windows that break what a tab knows of itself.
Calm  == {"restart", "late"} \cap overlaps = {}
Grown == overlaps' = {} => overlaps = {}

\* The windows of a step, and those before it.
LEMMA Entered ==
  ASSUME NEW windows, Vault!Enters(windows)
  PROVE  /\ Grown /\ (overlaps' = {} => windows = {})
         /\ Calm' => Calm /\ {"restart", "late"} \cap windows = {}
  BY DEF Vault!Enters, Grown, Calm

\* A tab the step leaves alone keeps what it has.
LEMMA OthersHold ==
  ASSUME TabsInv, Grown, NEW t \in Tabs, NEW u \in Tabs, u # t, Same(u), Unseen(t),
         inbox'[u] = inbox[u], tab'[t].leaving = "no" => tab[t].leaving = "no",
         \A w \in Tabs \ {t} : tab'[w] = tab[w]
  PROVE  TabHolds(u)'
<1>1. TabHolds(u)
  BY DEF TabsInv
<1>2. ViewHolds(u)' /\ (\A s \in Slots : LivesIn(u, s)') /\ VaultHolds(u)'
  BY <1>1
  DEF TabHolds, Same, ViewHolds, LivesIn, VaultHolds, Vault!Running, Vault!Does, Vault!Cleared,
      Vault!SigningOut
<1>3. SomeoneLeaves => SomeoneLeaves'
  BY DEF SomeoneLeaves
<1>4. ASSUME NEW x \in Nat, Holds(u, x)', x # session', ~SomeoneLeaves', overlaps' = {}
      PROVE  (SomeoneLeaves \/ inbox[u] # <<>> \/ Doomed(u, x))'
  <2>1. Holds(u, x)
    BY <1>4 DEF Holds, Same, Vault!Does
  <2>2. x # session
    <3>1. CASE session' = session
      BY <1>4, <3>1
    <3>2. CASE ~Vault!Elsewhere(t) /\ x = session
      <4>1. session # 0
        BY <2>1, <3>2 DEF Holds
      <4>2. session = tab[u].active \/ \E s \in Slots : opener[u][s].at # "off"
                                                        /\ opener[u][s].session = session
        BY <2>1, <3>2 DEF Holds, Vault!Does
      <4> QED
        BY <3>2, <4>1, <4>2 DEF Vault!Elsewhere
    <3> QED
      BY <1>4, <3>1, <3>2 DEF Unseen
  <2>3. SomeoneLeaves \/ inbox[u] # <<>> \/ Doomed(u, x)
    BY <1>1, <1>4, <2>1, <2>2 DEF TabHolds, Told, Grown
  <2>4. Doomed(u, x) => Doomed(u, x)'
    BY DEF Doomed, Vault!SigningOut, Same
  <2> QED
    BY <1>3, <2>3, <2>4
<1>5. overlaps' = {} => Told(u)'
  BY <1>4 DEF Told
<1> QED
  BY <1>2, <1>5 DEF TabHolds

\* So a step of one tab is looked at in that tab.
LEMMA OneTab ==
  ASSUME TabsInv, Grown, TabsTypes', NEW t \in Tabs, Unseen(t),
         \A u \in Tabs \ {t} : Same(u) /\ inbox'[u] = inbox[u],
         tab'[t].leaving = "no" => tab[t].leaving = "no",
         ViewHolds(t)', \A s \in Slots : LivesIn(t, s)', VaultHolds(t)', overlaps' = {} => Told(t)'
  PROVE  TabsInv'
<1>1. \A w \in Tabs \ {t} : tab'[w] = tab[w]
  BY DEF Same
<1>2. ASSUME NEW u \in Tabs PROVE TabHolds(u)'
  <2>1. CASE u = t
    BY <2>1 DEF TabHolds
  <2>2. CASE u # t
    BY <1>1, <2>2, OthersHold
  <2> QED
    BY <2>1, <2>2
<1> QED
  BY <1>2 DEF TabsInv
\* The rows of a tab.
LEMMA RowsAre ==
  ASSUME TabsTypes, NEW t \in Tabs
  PROVE  /\ tab[t] \in TabRows /\ handler[t] \in Handlers /\ inbox[t] \in Seq(Signals)
         /\ \A s \in Slots : opener[t][s] \in Openers
  BY DEF TabsTypes

\* While an operation runs, nothing is open in memory.
LEMMA RunningIsShut ==
  ASSUME TabsInv, NEW t \in Tabs, NEW s \in Slots, ~Vault!Does(t, s, "off")
  PROVE  /\ tab[t].active = 0 /\ tab[t].view # "ready" /\ tab[t].leaving = "no"
         /\ Vault!Running(t) /\ \A r \in Slots \ {s} : opener[t][r].at = "off"
<1>1. Vault!Running(t)
  BY DEF Vault!Running, Vault!Does
<1> QED
  BY <1>1 DEF TabsInv, TabHolds, ViewHolds, Vault!Does

\* An operation that begins or goes on, and leaves the tab alone.
LEMMA OperationMoves ==
  ASSUME TabsInv, Grown, NEW t \in Tabs, NEW s \in Slots, NEW o \in Openers, Vault!SetOp(t, s, o),
         UNCHANGED <<tab, handler, inbox>>, Unseen(t),
         session' \in Nat, keys' \in BOOLEAN, granted' \in Nat,
         o.at # "off",
         \/ ~Vault!Does(t, s, "off")
         \/ ~Vault!Running(t) /\ tab[t].view # "ready" /\ tab[t].leaving = "no",
         LivesIn(t, s)',
         o.at \in {"start", "approval", "open"} => tab[t].vault = 0,
         ~o.stale /\ o.at = "check" => o.durable = session'
  PROVE  TabsInv'
<1>1. /\ opener' \in [Tabs -> [Slots -> Openers]] /\ opener'[t][s] = o
      /\ \A r \in Slots \ {s} : opener'[t][r] = opener[t][r]
      /\ \A u \in Tabs \ {t} : opener'[u] = opener[u]
  BY OperationSet DEF TabsInv
<1>2. TabsTypes'
  BY <1>1 DEF TabsInv, TabsTypes
<1>3. /\ tab[t].active = 0 /\ tab[t].view # "ready" /\ tab[t].leaving = "no"
      /\ \A r \in Slots \ {s} : opener[t][r].at = "off"
  <2>1. CASE ~Vault!Does(t, s, "off")
    BY <2>1, RunningIsShut
  <2>2. CASE ~Vault!Running(t) /\ tab[t].view # "ready" /\ tab[t].leaving = "no"
    BY <2>2 DEF TabsInv, TabHolds, ViewHolds, Vault!Running
  <2> QED
    BY <2>1, <2>2
<1>4. \A u \in Tabs \ {t} : Same(u) /\ inbox'[u] = inbox[u]
  BY <1>1 DEF Same
<1>5. Vault!Running(t)'
  BY <1>1 DEF Vault!Running
<1>6. TabHolds(t)
  BY DEF TabsInv
<1>7. ViewHolds(t)'
  BY <1>1, <1>3, <1>5, <1>6 DEF TabHolds, ViewHolds, Vault!Does
<1>8. \A r \in Slots : LivesIn(t, r)'
  BY <1>1, <1>3 DEF LivesIn, Opened
<1>9. VaultHolds(t)'
  BY <1>1, <1>3, <1>5, <1>6 DEF TabHolds, VaultHolds, Vault!Cleared
<1>10. overlaps' = {} => Told(t)'
  BY <1>1, <1>3 DEF Told, Holds, Vault!Does
<1> QED
  BY <1>2, <1>4, <1>7, <1>8, <1>9, <1>10, OneTab

\* boot: the stored session, or the choice.
LEMMA BootKeeps ==
  ASSUME TabsInv, Grown, NEW t \in Tabs, NEW s \in Slots, Vault!Boot(t, s) PROVE TabsInv'
<1>1. TabHolds(t) /\ TabsTypes /\ ~Vault!Running(t) /\ tab[t].view = "loading"
  BY DEF Vault!Boot, TabsInv
<1>2. tab[t].active = 0 /\ tab[t].leaving = "no" /\ tab[t].vault = 0
      /\ \A r \in Slots : opener[t][r].at = "off"
  BY <1>1 DEF TabHolds, ViewHolds, VaultHolds, Vault!Running
<1>3. CASE session # 0 /\ keys
  <2> DEFINE o == [Vault!Idle EXCEPT !.at = "start", !.session = session]
  <2>1. o \in Openers /\ o.at = "start"
    BY <1>1 DEF Vault!Idle, Openers, TabsTypes
  <2>2. Vault!SetOp(t, s, o) /\ UNCHANGED <<tab, handler, inbox, session, keys, granted>>
    BY <1>3 DEF Vault!Boot
  <2>3. opener'[t][s] = o
    BY <1>1, <2>1, <2>2, OperationSet
  <2>4. LivesIn(t, s)'
    BY <2>1, <2>3 DEF LivesIn, Opened
  <2> HIDE DEF o
  <2> QED
    BY <1>1, <1>2, <2>1, <2>2, <2>4, OperationMoves DEF Unseen, TabsTypes
<1>4. CASE ~(session # 0 /\ keys)
  <2> DEFINE r == [tab[t] EXCEPT !.view = "connect"]
  <2>1. r \in TabRows /\ r.view = "connect" /\ r.active = 0 /\ r.vault = 0 /\ r.leaving = "no"
    BY <1>1, <1>2, RowsAre DEF TabRows
  <2>2. Vault!SetTab(t, r) /\ UNCHANGED <<opener, handler, inbox, session, keys, granted>>
    BY <1>4 DEF Vault!Boot
  <2>3. /\ tab' \in [Tabs -> TabRows] /\ tab'[t] = r
        /\ \A u \in Tabs \ {t} : tab'[u] = tab[u]
    <3> HIDE DEF r
    <3> QED
      BY <1>1, <2>1, <2>2, RowSet
  <2> HIDE DEF r
  <2>4. TabsTypes'
    BY <1>1, <2>2, <2>3 DEF TabsTypes
  <2>5. \A u \in Tabs \ {t} : Same(u) /\ inbox'[u] = inbox[u]
    BY <2>2, <2>3 DEF Same
  <2>6. ViewHolds(t)'
    BY <1>1, <2>1, <2>2, <2>3 DEF TabHolds, ViewHolds, Vault!Does, Vault!Running
  <2>7. \A q \in Slots : LivesIn(t, q)'
    BY <1>2, <2>2 DEF LivesIn, Opened
  <2>8. VaultHolds(t)'
    BY <2>1, <2>2, <2>3 DEF VaultHolds, Vault!Cleared
  <2>9. overlaps' = {} => Told(t)'
    BY <1>2, <2>1, <2>2, <2>3 DEF Told, Holds, Vault!Does
  <2> QED
    BY <1>2, <2>2, <2>4, <2>5, <2>6, <2>7, <2>8, <2>9, OneTab DEF Unseen
<1> QED
  BY <1>3, <1>4

\* finishSetup and reclaim.
LEMMA SaveKeeps ==
  ASSUME TabsInv, Calm', NEW t \in Tabs, NEW s \in Slots, Vault!Save(t, s),
         Vault!Enters(Vault!In("replace", Vault!Elsewhere(t))
                        \cup Vault!In("restart", Vault!Running(t)))
  PROVE  TabsInv'
<1> DEFINE windows == Vault!In("replace", Vault!Elsewhere(t))
                        \cup Vault!In("restart", Vault!Running(t))
<1>a. Grown /\ (overlaps' = {} => windows = {}) /\ {"restart", "late"} \cap windows = {}
  <2> HIDE DEF windows
  <2> QED
    BY Entered DEF windows
<1>b. ~Vault!Running(t) /\ (overlaps' = {} => ~Vault!Elsewhere(t))
  BY <1>a DEF Vault!In
<1> HIDE DEF windows
<1>1. /\ TabHolds(t) /\ TabsTypes
      /\ ~Vault!Running(t) /\ tab[t].view = "connect" /\ Unseen(t)
      /\ tab[t].leaving = "no"
  BY <1>b DEF Vault!Save, TabsInv, Vault!Busy, Unseen
<1>2. tab[t].active = 0 /\ tab[t].vault = 0
  BY <1>1 DEF TabHolds, ViewHolds, VaultHolds
<1> DEFINE o == [Vault!Idle EXCEPT !.at = "start", !.kind = "save", !.session = granted']
<1>3. granted' \in Nat /\ session' \in Nat /\ keys' \in BOOLEAN
  BY <1>1 DEF Vault!Save, Vault!Granted, TabsTypes
<1>4. o \in Openers /\ o.at = "start"
  BY <1>3 DEF Vault!Idle, Openers
<1>5. Vault!SetOp(t, s, o) /\ UNCHANGED <<tab, handler, inbox>>
  BY DEF Vault!Save
<1> HIDE DEF o
<1>6. opener'[t][s] = o
  BY <1>1, <1>4, <1>5, OperationSet
<1>7. LivesIn(t, s)'
  BY <1>4, <1>6 DEF LivesIn, Opened
<1> QED
  BY <1>a, <1>1, <1>2, <1>3, <1>4, <1>5, <1>7, OperationMoves

\* What an operation of the tab knows.
LEMMA OperationKnown ==
  ASSUME TabsInv, NEW t \in Tabs, NEW s \in Slots
  PROVE  LivesIn(t, s) /\ opener[t][s] \in Openers
  BY DEF TabsInv, TabHolds, TabsTypes

\* installPairingSession
LEMMA InstallKeeps ==
  ASSUME TabsInv, NEW t \in Tabs, NEW s \in Slots, Vault!Install(t, s),
         Vault!Enters(Vault!In("replace", /\ session = opener[t][s].expected
                                          /\ ~opener[t][s].stale /\ Vault!Elsewhere(t)))
  PROVE  TabsInv'
<1>a. Grown
  BY Entered
<1>1. PICK at \in {"close", "installed"} : Vault!LeadOp(t, s, at)
  BY DEF Vault!Install
<1> DEFINE o == [opener[t][s] EXCEPT !.at = at]
<1>2. /\ o \in Openers /\ o.at = at /\ o.stale = opener[t][s].stale
      /\ o.session = opener[t][s].session
  BY OperationKnown DEF Openers
<1>3. Vault!SetOp(t, s, o) /\ UNCHANGED <<tab, handler, inbox>> /\ opener[t][s].at = "install"
      /\ UNCHANGED <<keys, granted>>
  BY <1>1 DEF Vault!Install, Vault!LeadOp, Vault!Does
<1>4. session' \in Nat
  BY OperationKnown DEF Vault!Install, Openers, TabsInv, TabsTypes
<1>5. Unseen(t)
  BY DEF Vault!Install, Vault!Enters, Vault!In, Unseen
<1> HIDE DEF o
<1>6. opener'[t][s] = o
  BY <1>2, <1>3, OperationSet DEF TabsInv
<1>7. LivesIn(t, s)'
  BY <1>2, <1>3, <1>6, OperationKnown DEF LivesIn, Opened, Vault!SigningOut
<1> QED
  BY <1>a, <1>2, <1>3, <1>4, <1>5, <1>7, OperationMoves DEF Vault!Does, TabsInv, TabsTypes

\* The pairing may have been cancelled meanwhile.
LEMMA InstalledKeeps ==
  ASSUME TabsInv, NEW t \in Tabs, NEW s \in Slots, Vault!Installed(t, s),
         Vault!Enters(Vault!In("rollback", /\ opener[t][s].stale
                                           /\ session = opener[t][s].session
                                           /\ Vault!Elsewhere(t)))
  PROVE  TabsInv'
<1>a. Grown
  BY Entered
<1>1. PICK at \in {"close", "read"} : Vault!LeadOp(t, s, at)
  BY DEF Vault!Installed
<1> DEFINE o == [opener[t][s] EXCEPT !.at = at]
<1>2. /\ o \in Openers /\ o.at = at /\ o.stale = opener[t][s].stale
      /\ o.session = opener[t][s].session
  BY OperationKnown DEF Openers
<1>3. Vault!SetOp(t, s, o) /\ UNCHANGED <<tab, handler, inbox>> /\ opener[t][s].at = "installed"
      /\ UNCHANGED <<keys, granted>>
  BY <1>1 DEF Vault!Installed, Vault!LeadOp, Vault!Does
<1>4. session' \in Nat
  BY OperationKnown DEF Vault!Installed, Openers, TabsInv, TabsTypes
<1>5. Unseen(t)
  BY DEF Vault!Installed, Vault!Enters, Vault!In, Unseen
<1> HIDE DEF o
<1>6. opener'[t][s] = o
  BY <1>2, <1>3, OperationSet DEF TabsInv
<1>7. LivesIn(t, s)'
  BY <1>2, <1>3, <1>6, OperationKnown DEF LivesIn, Opened, Vault!SigningOut
<1> QED
  BY <1>a, <1>2, <1>3, <1>4, <1>5, <1>7, OperationMoves DEF Vault!Does, TabsInv, TabsTypes

\* What is stored is read again.
LEMMA ReadDurableKeeps ==
  ASSUME TabsInv, Grown, NEW t \in Tabs, NEW s \in Slots, Vault!ReadDurable(t, s) PROVE TabsInv'
<1> DEFINE o == [opener[t][s] EXCEPT !.at = "check", !.durable = session]
<1>1. session \in Nat /\ opener[t][s] \in Openers
  BY OperationKnown DEF TabsInv, TabsTypes
<1>2. /\ o \in Openers /\ o.at = "check" /\ o.stale = opener[t][s].stale
      /\ o.session = opener[t][s].session /\ o.durable = session
  BY <1>1 DEF Openers
<1>3. Vault!SetOp(t, s, o) /\ UNCHANGED <<tab, handler, inbox>> /\ opener[t][s].at = "read"
      /\ UNCHANGED <<session, keys, granted>>
  BY DEF Vault!ReadDurable, Vault!Does
<1> HIDE DEF o
<1>4. opener'[t][s] = o
  BY <1>2, <1>3, OperationSet DEF TabsInv
<1>5. LivesIn(t, s)'
  BY <1>2, <1>3, <1>4, OperationKnown DEF LivesIn, Opened, Vault!SigningOut
<1> QED
  BY <1>1, <1>2, <1>3, <1>5, OperationMoves DEF Vault!Does, Unseen, TabsInv, TabsTypes

-----------------------------------------------------------------------------
(* Steps that change the tab, its operations or its signals *)

\* ready: from now on the tab has this operation and no other.
LEMMA ReadyKeeps ==
  ASSUME TabsInv, Calm', NEW t \in Tabs, NEW s \in Slots, Vault!Ready(t, s),
         Vault!Enters(Vault!In("late", Vault!SigningOut(t)))
  PROVE  TabsInv'
<1>a. Grown /\ ~Vault!SigningOut(t)
  BY Entered DEF Vault!In
<1> DEFINE o == [opener[t][s] EXCEPT !.at = "open", !.stale = FALSE]
           r == [tab[t] EXCEPT !.init = opener[t][s].session, !.by = s]
<1>1. TabsTypes /\ TabHolds(t) /\ opener[t][s].at = "start" /\ ~Vault!SigningOut(t)
  BY <1>a DEF Vault!Ready, Vault!Does, TabsInv
<1>2. tab[t].active = 0 /\ tab[t].view # "ready" /\ tab[t].leaving = "no"
      /\ (\A q \in Slots \ {s} : opener[t][q].at = "off") /\ tab[t].vault = 0
  BY <1>1, RunningIsShut DEF Vault!Does, TabHolds, VaultHolds
<1>3. o \in Openers /\ o.at = "open" /\ ~o.stale /\ o.session = opener[t][s].session
  BY OperationKnown DEF Openers
<1>4. /\ r \in TabRows /\ r.init = opener[t][s].session /\ r.by = s /\ r.active = 0
      /\ r.view = tab[t].view /\ r.leaving = "no" /\ r.vault = 0
  <2>1. opener[t][s].session \in Nat
    BY OperationKnown DEF Openers
  <2> QED
    BY <1>1, <1>2, <2>1, RowsAre DEF TabRows
<1>5. Vault!SetTab(t, r) /\ Vault!Bump(t, [Vault!StaleOps(t) EXCEPT ![s] = o]) /\ Vault!Outdate(t)
      /\ UNCHANGED <<session, keys, inbox, granted>>
  BY DEF Vault!Ready
<1> HIDE DEF o, r
<1>6. /\ tab' \in [Tabs -> TabRows] /\ tab'[t] = r
      /\ \A u \in Tabs \ {t} : tab'[u] = tab[u]
  BY <1>1, <1>4, <1>5, RowSet
<1>7. /\ opener' \in [Tabs -> [Slots -> Openers]] /\ opener'[t][s] = o
      /\ \A q \in Slots \ {s} : opener'[t][q].at = "off"
      /\ \A u \in Tabs \ {t} : opener'[u] = opener[u]
  <2> DEFINE ops == [Vault!StaleOps(t) EXCEPT ![s] = o]
  <2>1. ops \in [Slots -> Openers] /\ ops[s] = o /\ \A q \in Slots \ {s} : ops[q].at = "off"
    BY <1>1, <1>2, <1>3, Staled
  <2> HIDE DEF ops
  <2> QED
    BY <1>1, <1>5, <2>1, Bumped DEF ops
<1>8. /\ handler' \in [Tabs -> Handlers] /\ handler'[t].at = handler[t].at
      /\ \A u \in Tabs \ {t} : handler'[u] = handler[u]
  BY <1>1, <1>5, HandlerOutdated
<1>9. TabsTypes'
  BY <1>1, <1>5, <1>6, <1>7, <1>8 DEF TabsTypes
<1>10. \A u \in Tabs \ {t} : Same(u) /\ inbox'[u] = inbox[u]
  BY <1>5, <1>6, <1>7, <1>8 DEF Same
<1>11. ViewHolds(t)'
  BY <1>2, <1>4, <1>6, <1>7 DEF ViewHolds, Vault!Does
<1>12. \A q \in Slots : LivesIn(t, q)'
  BY <1>1, <1>3, <1>4, <1>6, <1>7, <1>8 DEF LivesIn, Opened, Vault!SigningOut
<1>13. VaultHolds(t)'
  BY <1>4, <1>6 DEF VaultHolds, Vault!Cleared
<1>14. overlaps' = {} => Told(t)'
  BY <1>3, <1>4, <1>6, <1>7 DEF Told, Holds, Vault!Does
<1> QED
  BY <1>a, <1>2, <1>5, <1>9, <1>10, <1>11, <1>12, <1>13, <1>14, OneTab DEF Unseen

\* startPairing
LEMMA StartPairingKeeps ==
  ASSUME TabsInv, Calm', NEW t \in Tabs, NEW s \in Slots, Vault!StartPairing(t, s),
         Vault!Enters(Vault!In("restart", Vault!Running(t))
                        \cup Vault!In("late", Vault!SigningOut(t)))
  PROVE  TabsInv'
<1> DEFINE windows == Vault!In("restart", Vault!Running(t))
                        \cup Vault!In("late", Vault!SigningOut(t))
<1>a. Grown /\ {"restart", "late"} \cap windows = {}
  <2> HIDE DEF windows
  <2> QED
    BY Entered DEF windows
<1>b. ~Vault!Running(t) /\ ~Vault!SigningOut(t)
  BY <1>a DEF Vault!In
<1> HIDE DEF windows
<1> DEFINE o == [Vault!Idle EXCEPT !.at = "approval", !.kind = "pair"]
           r == [tab[t] EXCEPT !.view = "pairing"]
<1>1. /\ TabsTypes /\ TabHolds(t) /\ ~Vault!SigningOut(t)
      /\ ~Vault!Running(t) /\ tab[t].view = "connect"
      /\ tab[t].leaving = "no"
  BY <1>b DEF Vault!StartPairing, Vault!Busy, TabsInv
<1>2. tab[t].active = 0 /\ (\A q \in Slots : opener[t][q].at = "off") /\ tab[t].vault = 0
  BY <1>1 DEF TabHolds, ViewHolds, VaultHolds, Vault!Running
<1>3. o \in Openers /\ o.at = "approval"
  BY DEF Vault!Idle, Openers
<1>4. /\ r \in TabRows /\ r.active = 0 /\ r.view = "pairing" /\ r.leaving = "no" /\ r.vault = 0
  BY <1>1, <1>2, RowsAre DEF TabRows
<1>5. Vault!SetTab(t, r) /\ Vault!Bump(t, [Vault!StaleOps(t) EXCEPT ![s] = o]) /\ Vault!Outdate(t)
      /\ UNCHANGED <<session, keys, inbox, granted>>
  BY DEF Vault!StartPairing
<1> HIDE DEF o, r
<1>6. /\ tab' \in [Tabs -> TabRows] /\ tab'[t] = r
      /\ \A u \in Tabs \ {t} : tab'[u] = tab[u]
  BY <1>1, <1>4, <1>5, RowSet
<1>7. /\ opener' \in [Tabs -> [Slots -> Openers]] /\ opener'[t][s] = o
      /\ \A q \in Slots \ {s} : opener'[t][q].at = "off"
      /\ \A u \in Tabs \ {t} : opener'[u] = opener[u]
  <2> DEFINE ops == [Vault!StaleOps(t) EXCEPT ![s] = o]
  <2>1. ops \in [Slots -> Openers] /\ ops[s] = o /\ \A q \in Slots \ {s} : ops[q].at = "off"
    BY <1>1, <1>2, <1>3, Staled
  <2> HIDE DEF ops
  <2> QED
    BY <1>1, <1>5, <2>1, Bumped DEF ops
<1>8. /\ handler' \in [Tabs -> Handlers] /\ handler'[t].at = handler[t].at
      /\ \A u \in Tabs \ {t} : handler'[u] = handler[u]
  BY <1>1, <1>5, HandlerOutdated
<1>9. TabsTypes'
  BY <1>1, <1>5, <1>6, <1>7, <1>8 DEF TabsTypes
<1>10. \A u \in Tabs \ {t} : Same(u) /\ inbox'[u] = inbox[u]
  BY <1>5, <1>6, <1>7, <1>8 DEF Same
<1>11. ViewHolds(t)'
  BY <1>4, <1>6, <1>7 DEF ViewHolds, Vault!Does
<1>12. \A q \in Slots : LivesIn(t, q)'
  BY <1>1, <1>3, <1>6, <1>7, <1>8 DEF LivesIn, Opened, Vault!SigningOut
<1>13. VaultHolds(t)'
  BY <1>4, <1>6 DEF VaultHolds, Vault!Cleared
<1>14. overlaps' = {} => Told(t)'
  BY <1>3, <1>4, <1>6, <1>7 DEF Told, Holds, Vault!Does
<1> QED
  BY <1>a, <1>1, <1>5, <1>9, <1>10, <1>11, <1>12, <1>13, <1>14, OneTab DEF Unseen

\* The approved session; a stale pairing ends.
LEMMA ApprovedKeeps ==
  ASSUME TabsInv, Grown, NEW t \in Tabs, NEW s \in Slots, Vault!Approved(t, s) PROVE TabsInv'
<1>1. TabsTypes /\ TabHolds(t) /\ opener[t][s].at = "approval"
      /\ UNCHANGED <<session, handler, inbox>>
  BY DEF Vault!Approved, Vault!Does, TabsInv
<1>2. tab[t].active = 0 /\ tab[t].view # "ready" /\ tab[t].leaving = "no"
      /\ (\A q \in Slots \ {s} : opener[t][q].at = "off") /\ tab[t].vault = 0
  BY <1>1, RunningIsShut DEF Vault!Does, TabHolds, VaultHolds
<1>3. CASE opener[t][s].stale
  <2>1. Vault!SetOp(t, s, Vault!Idle) /\ UNCHANGED <<tab, granted, keys>>
    BY <1>3 DEF Vault!Approved
  <2>2. Vault!Idle \in Openers /\ Vault!Idle.at = "off"
    BY DEF Vault!Idle, Openers
  <2>3. /\ opener' \in [Tabs -> [Slots -> Openers]] /\ \A q \in Slots : opener'[t][q].at = "off"
        /\ \A u \in Tabs \ {t} : opener'[u] = opener[u]
    BY <1>1, <1>2, <2>1, <2>2, OperationSet, SMTT(30)
  <2>4. TabsTypes'
    BY <1>1, <2>1, <2>3 DEF TabsTypes
  <2>5. \A u \in Tabs \ {t} : Same(u) /\ inbox'[u] = inbox[u]
    BY <1>1, <2>1, <2>3 DEF Same
  <2>6. ViewHolds(t)'
    BY <1>2, <2>1, <2>3 DEF ViewHolds, Vault!Does
  <2>7. \A q \in Slots : LivesIn(t, q)'
    BY <2>3 DEF LivesIn, Opened
  <2>8. VaultHolds(t)'
    BY <1>2, <2>1 DEF VaultHolds, Vault!Cleared
  <2>9. overlaps' = {} => Told(t)'
    BY <1>2, <2>1, <2>3 DEF Told, Holds, Vault!Does
  <2> QED
    BY <1>1, <2>1, <2>4, <2>5, <2>6, <2>7, <2>8, <2>9, OneTab DEF Unseen
<1>4. CASE ~opener[t][s].stale
  <2> DEFINE o == [opener[t][s] EXCEPT !.at = "open", !.session = granted', !.expected = session]
             r == [tab[t] EXCEPT !.init = granted', !.by = s]
  <2>1. Vault!SetOp(t, s, o) /\ Vault!SetTab(t, r) /\ granted' \in Nat /\ keys' \in BOOLEAN
    BY <1>1, <1>4 DEF Vault!Approved, Vault!Granted, TabsTypes
  <2>2. o \in Openers /\ o.at = "open" /\ o.session = granted'
    BY <1>1, <2>1, OperationKnown, ZenonT(40) DEF TabsTypes, Openers
  <2>3. /\ r \in TabRows /\ r.init = granted' /\ r.by = s /\ r.active = 0
        /\ r.view = tab[t].view /\ r.leaving = "no" /\ r.vault = 0
    BY <1>1, <1>2, <2>1, RowsAre DEF TabRows
  <2>4. ~Vault!SigningOut(t)
    BY <1>1, <1>4, OperationKnown DEF LivesIn
  <2> HIDE DEF o, r
  <2>5. /\ tab' \in [Tabs -> TabRows] /\ tab'[t] = r
        /\ \A u \in Tabs \ {t} : tab'[u] = tab[u]
    BY <1>1, <2>1, <2>3, RowSet
  <2>6. /\ opener' \in [Tabs -> [Slots -> Openers]] /\ opener'[t][s] = o
        /\ \A q \in Slots \ {s} : opener'[t][q].at = "off"
        /\ \A u \in Tabs \ {t} : opener'[u] = opener[u]
    BY <1>1, <1>2, <2>1, <2>2, OperationSet
  <2>7. TabsTypes'
    BY <1>1, <2>1, <2>5, <2>6 DEF TabsTypes
  <2>8. \A u \in Tabs \ {t} : Same(u) /\ inbox'[u] = inbox[u]
    BY <1>1, <2>5, <2>6 DEF Same
  <2>9. ViewHolds(t)'
    BY <1>2, <2>3, <2>5, <2>6 DEF ViewHolds, Vault!Does
  <2>10. \A q \in Slots : LivesIn(t, q)'
    BY <1>1, <2>2, <2>3, <2>4, <2>5, <2>6 DEF LivesIn, Opened, Vault!SigningOut
  <2>11. VaultHolds(t)'
    BY <2>3, <2>5 DEF VaultHolds, Vault!Cleared
  <2>12. overlaps' = {} => Told(t)'
    BY <2>2, <2>3, <2>5, <2>6 DEF Told, Holds, Vault!Does
  <2> QED
    BY <1>1, <1>2, <2>1, <2>7, <2>8, <2>9, <2>10, <2>11, <2>12, OneTab DEF Unseen
<1> QED
  BY <1>3, <1>4

\* The notes are opened, or cannot be.
LEMMA OpenKeeps ==
  ASSUME TabsInv, Grown, NEW t \in Tabs, NEW s \in Slots, Vault!Open(t, s) PROVE TabsInv'
<1>1. TabsTypes /\ TabHolds(t) /\ opener[t][s].at = "open" /\ LivesIn(t, s)
      /\ UNCHANGED <<session, keys, handler, inbox, granted>>
  BY OperationKnown DEF Vault!Open, Vault!Does, TabsInv
<1>2. tab[t].active = 0 /\ tab[t].view # "ready" /\ tab[t].leaving = "no"
      /\ (\A q \in Slots \ {s} : opener[t][q].at = "off") /\ tab[t].vault = 0
  BY <1>1, RunningIsShut DEF Vault!Does, TabHolds, VaultHolds
<1>3. CASE Vault!SetTab(t, [tab[t] EXCEPT !.vault = opener[t][s].session])
           /\ \E at \in {"read", "close", "install"} : Vault!LeadOp(t, s, at)
  <2>1. PICK at \in {"read", "close", "install"} : Vault!LeadOp(t, s, at)
    BY <1>3
  <2> DEFINE o == [opener[t][s] EXCEPT !.at = at]
             r == [tab[t] EXCEPT !.vault = opener[t][s].session]
  <2>2. o \in Openers /\ o.at = at /\ o.stale = opener[t][s].stale
        /\ o.session = opener[t][s].session
    BY OperationKnown DEF Openers
  <2>3. /\ r \in TabRows /\ r.init = tab[t].init /\ r.by = tab[t].by /\ r.active = 0
        /\ r.view = tab[t].view /\ r.leaving = "no" /\ r.vault = opener[t][s].session
    BY <1>1, <1>2, RowsAre DEF TabRows, Openers
  <2>4. Vault!SetOp(t, s, o) /\ Vault!SetTab(t, r)
    BY <1>3, <2>1 DEF Vault!LeadOp
  <2> HIDE DEF o, r
  <2>5. /\ tab' \in [Tabs -> TabRows] /\ tab'[t] = r
        /\ \A u \in Tabs \ {t} : tab'[u] = tab[u]
    BY <1>1, <2>4, <2>3, RowSet
  <2>6. /\ opener' \in [Tabs -> [Slots -> Openers]] /\ opener'[t][s] = o
        /\ \A q \in Slots \ {s} : opener'[t][q].at = "off"
        /\ \A u \in Tabs \ {t} : opener'[u] = opener[u]
    BY <1>1, <1>2, <2>4, <2>2, OperationSet, ZenonT(40)
  <2>7. TabsTypes'
    BY <1>1, <2>5, <2>6 DEF TabsTypes
  <2>8. \A u \in Tabs \ {t} : Same(u) /\ inbox'[u] = inbox[u]
    BY <1>1, <2>5, <2>6 DEF Same
  <2>9. ViewHolds(t)' /\ Vault!Running(t)'
    BY <1>2, <2>2, <2>3, <2>5, <2>6 DEF ViewHolds, Vault!Does, Vault!Running
  <2>10. \A q \in Slots : LivesIn(t, q)'
    BY <1>1, <2>2, <2>3, <2>5, <2>6 DEF LivesIn, Opened, Vault!SigningOut
  <2>11. VaultHolds(t)'
    BY <2>2, <2>3, <2>5, <2>6, <2>9 DEF VaultHolds, Vault!Cleared
  <2>12. overlaps' = {} => Told(t)'
    BY <2>2, <2>3, <2>5, <2>6 DEF Told, Holds, Vault!Does
  <2> QED
    BY <1>1, <1>2, <2>7, <2>8, <2>9, <2>10, <2>11, <2>12, OneTab DEF Unseen
<1>4. CASE Vault!LeadOp(t, s, "close") /\ UNCHANGED tab
  <2> DEFINE o == [opener[t][s] EXCEPT !.at = "close"]
  <2>1. o \in Openers /\ o.at = "close" /\ Vault!SetOp(t, s, o)
    BY <1>4, OperationKnown DEF Openers, Vault!LeadOp
  <2> HIDE DEF o
  <2>2. opener'[t][s] = o
    BY <1>1, <2>1, OperationSet
  <2>3. LivesIn(t, s)'
    BY <2>1, <2>2 DEF LivesIn, Opened
  <2> QED
    BY <1>1, <1>4, <2>1, <2>3, OperationMoves DEF Vault!Does, Unseen, TabsTypes
<1> QED
  BY <1>3, <1>4 DEF Vault!Open

\* What it read decides whether the tab is ready.
LEMMA VerifiedKeeps ==
  ASSUME TabsInv, Grown, NEW t \in Tabs, NEW s \in Slots, Vault!Verified(t, s) PROVE TabsInv'
<1>1. TabsTypes /\ TabHolds(t) /\ opener[t][s].at = "check" /\ LivesIn(t, s)
      /\ UNCHANGED <<session, keys, inbox, granted>>
  BY OperationKnown DEF Vault!Verified, Vault!Does, TabsInv
<1>2. tab[t].active = 0 /\ tab[t].view # "ready" /\ tab[t].leaving = "no"
      /\ (\A q \in Slots \ {s} : opener[t][q].at = "off")
  BY <1>1, RunningIsShut DEF Vault!Does
<1>3. CASE opener[t][s].stale \/ opener[t][s].durable # opener[t][s].session
  <2> DEFINE o == [opener[t][s] EXCEPT !.at = "close"]
             all == IF opener[t][s].stale \/ opener[t][s].kind = "pair" THEN opener[t]
                    ELSE Vault!StaleOps(t)
             ops == [all EXCEPT ![s] = o]
  <2>1. o \in Openers /\ o.at = "close"
    BY OperationKnown DEF Openers
  <2>2. Vault!Bump(t, ops) /\ (UNCHANGED handler \/ Vault!Outdate(t)) /\ UNCHANGED tab
    BY <1>3 DEF Vault!Verified
  <2>3. all \in [Slots -> Openers] /\ \A q \in Slots : all[q].at = opener[t][q].at
    BY <1>1, Staled DEF TabsTypes
  <2> HIDE DEF o, all
  <2>4. ops \in [Slots -> Openers] /\ ops[s] = o /\ \A q \in Slots \ {s} : ops[q].at = "off"
    BY <1>2, <2>1, <2>3
  <2> HIDE DEF ops
  <2>5. /\ opener' \in [Tabs -> [Slots -> Openers]] /\ opener'[t][s] = o
        /\ \A q \in Slots \ {s} : opener'[t][q].at = "off"
        /\ \A u \in Tabs \ {t} : opener'[u] = opener[u]
    BY <1>1, <2>2, <2>4, Bumped
  <2>6. /\ handler' \in [Tabs -> Handlers] /\ handler'[t].at = handler[t].at
        /\ \A u \in Tabs \ {t} : handler'[u] = handler[u]
    BY <1>1, <2>2, HandlerOutdated DEF TabsTypes
  <2>7. TabsTypes'
    BY <1>1, <2>2, <2>5, <2>6 DEF TabsTypes
  <2>8. \A u \in Tabs \ {t} : Same(u) /\ inbox'[u] = inbox[u]
    BY <1>1, <2>2, <2>5, <2>6 DEF Same
  <2>9. ViewHolds(t)' /\ Vault!Running(t)'
    BY <1>2, <2>1, <2>2, <2>5 DEF ViewHolds, Vault!Does, Vault!Running
  <2>10. \A q \in Slots : LivesIn(t, q)'
    BY <2>1, <2>5 DEF LivesIn, Opened
  <2>11. VaultHolds(t)'
    BY <1>2, <2>1, <2>2, <2>5, <2>9 DEF VaultHolds, Vault!Cleared
  <2>12. overlaps' = {} => Told(t)'
    BY <1>2, <2>1, <2>2, <2>5 DEF Told, Holds, Vault!Does
  <2> QED
    BY <1>1, <2>2, <2>7, <2>8, <2>9, <2>10, <2>11, <2>12, OneTab DEF Unseen
<1>4. CASE ~opener[t][s].stale /\ opener[t][s].durable = opener[t][s].session
  <2> DEFINE x == opener[t][s].session
             r == Vault!Initialized(t, s, [tab[t] EXCEPT !.active = x, !.view = "ready"])
  <2>1. Vault!SetTab(t, r) /\ Vault!SetOp(t, s, Vault!Idle) /\ UNCHANGED handler
    BY <1>4 DEF Vault!Verified
  <2>2. x \in Nat /\ tab[t].vault = x
    BY <1>1, <1>4, OperationKnown DEF LivesIn, Opened, Openers
  <2>3. /\ r \in TabRows /\ r.active = x /\ r.view = "ready" /\ r.leaving = "no" /\ r.vault = x
    <3> DEFINE q == [tab[t] EXCEPT !.active = x, !.view = "ready"]
    <3>1. q \in TabRows /\ q.active = x /\ q.view = "ready" /\ q.leaving = "no" /\ q.vault = x
      <4> HIDE DEF x
      <4> QED
        BY <1>1, <1>2, <2>2, RowsAre DEF TabRows
    <3> HIDE DEF q, x
    <3>2. r = IF q.by = s THEN [q EXCEPT !.init = 0, !.by = 0] ELSE q
      BY DEF Vault!Initialized, q
    <3>3. CASE q.by = s
      <4> DEFINE p == [q EXCEPT !.init = 0]
      <4>1. /\ p \in TabRows /\ p.active = x /\ p.view = "ready" /\ p.leaving = "no"
            /\ p.vault = x
        BY <3>1 DEF TabRows
      <4>2. r = [p EXCEPT !.by = 0]
        BY <3>2, <3>3
      <4> HIDE DEF p, r
      <4> QED
        BY <4>1, <4>2 DEF TabRows
    <3>4. CASE q.by # s
      BY <3>1, <3>2, <3>4
    <3> QED
      BY <3>3, <3>4
  <2>4. Vault!Idle \in Openers /\ Vault!Idle.at = "off"
    BY DEF Vault!Idle, Openers
  <2> HIDE DEF r
  <2>5. /\ tab' \in [Tabs -> TabRows] /\ tab'[t] = r
        /\ \A u \in Tabs \ {t} : tab'[u] = tab[u]
    BY <1>1, <2>1, <2>3, RowSet
  <2>6. /\ opener' \in [Tabs -> [Slots -> Openers]] /\ \A q \in Slots : opener'[t][q].at = "off"
        /\ \A u \in Tabs \ {t} : opener'[u] = opener[u]
    BY <1>1, <1>2, <2>1, <2>4, OperationSet
  <2>7. TabsTypes'
    BY <1>1, <2>1, <2>5, <2>6 DEF TabsTypes
  <2>8. \A u \in Tabs \ {t} : Same(u) /\ inbox'[u] = inbox[u]
    BY <1>1, <2>1, <2>5, <2>6 DEF Same
  <2>9. ~Vault!Running(t)'
    BY <2>6 DEF Vault!Running
  <2>10. ViewHolds(t)'
    BY <2>3, <2>5, <2>6, <2>9 DEF ViewHolds, Vault!Does
  <2>11. \A q \in Slots : LivesIn(t, q)'
    BY <2>6 DEF LivesIn, Opened
  <2>12. ~Vault!SigningOut(t)
    BY <1>1, <1>4 DEF LivesIn, Opened
  <2>13. VaultHolds(t)'
    BY <2>1, <2>3, <2>5, <2>6, <2>12 DEF VaultHolds, Vault!Cleared, Vault!SigningOut
  <2>14. overlaps' = {} => Told(t)'
    <3> SUFFICES ASSUME NEW y \in Nat, Holds(t, y)', y # session', overlaps' = {}
                 PROVE  (SomeoneLeaves \/ inbox[t] # <<>> \/ Doomed(t, y))'
      BY DEF Told
    <3>1. y = x /\ y # 0
      BY <2>3, <2>5, <2>6 DEF Holds, Vault!Does
    <3>2. Holds(t, y)
      BY <1>1, <1>4, <3>1 DEF Holds, Vault!Does
    <3>3. SomeoneLeaves \/ inbox[t] # <<>> \/ Doomed(t, y)
      BY <1>1, <3>2 DEF TabHolds, Told, Grown
    <3>4. SomeoneLeaves => SomeoneLeaves'
      BY <1>2, <2>5 DEF SomeoneLeaves
    <3> QED
      BY <1>1, <2>1, <3>3, <3>4 DEF Doomed, Vault!SigningOut
  <2> QED
    BY <1>1, <1>2, <2>7, <2>8, <2>10, <2>11, <2>13, <2>14, OneTab DEF Unseen
<1> QED
  BY <1>3, <1>4

\* onSignedOut ends the operation.
LEMMA CloseKeeps ==
  ASSUME TabsInv, Grown, NEW t \in Tabs, NEW s \in Slots, Vault!Close(t, s) PROVE TabsInv'
<1> DEFINE c == [tab[t] EXCEPT !.vault = 0]
           d == IF opener[t][s].kind = "pair" THEN c
                ELSE [c EXCEPT !.active = 0, !.view = "connect"]
           r == Vault!Initialized(t, s, d)
<1>1. TabsTypes /\ TabHolds(t) /\ opener[t][s].at = "close"
      /\ UNCHANGED <<session, keys, handler, inbox, granted>>
  BY DEF Vault!Close, Vault!Does, TabsInv
<1>2. tab[t].active = 0 /\ tab[t].view # "ready" /\ tab[t].leaving = "no"
      /\ \A q \in Slots \ {s} : opener[t][q].at = "off"
  BY <1>1, RunningIsShut DEF Vault!Does
<1>3. Vault!SetTab(t, r) /\ Vault!SetOp(t, s, Vault!Idle)
  BY DEF Vault!Close
<1>4. c \in TabRows /\ c.active = 0 /\ c.view # "ready" /\ c.leaving = "no" /\ c.vault = 0
  BY <1>1, <1>2, RowsAre DEF TabRows
<1> HIDE DEF c
<1>5. d \in TabRows /\ d.active = 0 /\ d.view # "ready" /\ d.leaving = "no" /\ d.vault = 0
  <2> DEFINE e == [c EXCEPT !.active = 0]
  <2>1. e \in TabRows /\ e.active = 0 /\ e.leaving = "no" /\ e.vault = 0
    BY <1>4 DEF TabRows
  <2>2. d = IF opener[t][s].kind = "pair" THEN c ELSE [e EXCEPT !.view = "connect"]
    OBVIOUS
  <2> HIDE DEF d, e
  <2> QED
    BY <1>4, <2>1, <2>2 DEF TabRows
<1> HIDE DEF d
<1>6. r \in TabRows /\ r.active = 0 /\ r.view # "ready" /\ r.leaving = "no" /\ r.vault = 0
  <2> DEFINE e == [d EXCEPT !.init = 0]
  <2>1. /\ e \in TabRows /\ e.active = 0 /\ e.view # "ready" /\ e.leaving = "no"
        /\ e.vault = 0
    BY <1>5 DEF TabRows
  <2>2. r = IF d.by = s THEN [e EXCEPT !.by = 0] ELSE d
    BY DEF Vault!Initialized
  <2> HIDE DEF r, e
  <2> QED
    BY <1>5, <2>1, <2>2 DEF TabRows
<1>7. Vault!Idle \in Openers /\ Vault!Idle.at = "off"
  BY DEF Vault!Idle, Openers
<1> HIDE DEF r
<1>8. /\ tab' \in [Tabs -> TabRows] /\ tab'[t] = r
      /\ \A u \in Tabs \ {t} : tab'[u] = tab[u]
  BY <1>1, <1>3, <1>6, RowSet
<1>9. /\ opener' \in [Tabs -> [Slots -> Openers]] /\ \A q \in Slots : opener'[t][q].at = "off"
      /\ \A u \in Tabs \ {t} : opener'[u] = opener[u]
  BY <1>1, <1>2, <1>3, <1>7, OperationSet
<1>10. TabsTypes'
  BY <1>1, <1>8, <1>9 DEF TabsTypes
<1>11. \A u \in Tabs \ {t} : Same(u) /\ inbox'[u] = inbox[u]
  BY <1>1, <1>8, <1>9 DEF Same
<1>12. ViewHolds(t)'
  BY <1>6, <1>8, <1>9 DEF ViewHolds, Vault!Does
<1>13. \A q \in Slots : LivesIn(t, q)'
  BY <1>9 DEF LivesIn, Opened
<1>14. VaultHolds(t)'
  BY <1>6, <1>8 DEF VaultHolds, Vault!Cleared
<1>15. overlaps' = {} => Told(t)'
  BY <1>6, <1>8, <1>9 DEF Told, Holds, Vault!Does
<1> QED
  BY <1>1, <1>2, <1>10, <1>11, <1>12, <1>13, <1>14, <1>15, OneTab DEF Unseen

\* cancelPairing: what was begun goes on as stale.
LEMMA CancelPairingKeeps ==
  ASSUME TabsInv, Grown, NEW t \in Tabs, Vault!CancelPairing(t) PROVE TabsInv'
<1> DEFINE r == [tab[t] EXCEPT !.view = "connect"]
<1>1. TabsTypes /\ TabHolds(t) /\ tab[t].view = "pairing"
      /\ UNCHANGED <<session, keys, inbox, granted>>
  BY DEF Vault!CancelPairing, TabsInv
<1>2. tab[t].active = 0 /\ tab[t].leaving = "no"
  BY <1>1 DEF TabHolds, ViewHolds
<1>3. Vault!SetTab(t, r) /\ Vault!Bump(t, Vault!StaleOps(t)) /\ Vault!Outdate(t)
  BY DEF Vault!CancelPairing
<1>4. r \in TabRows /\ r.active = 0 /\ r.view = "connect" /\ r.leaving = "no"
      /\ r.vault = tab[t].vault
  BY <1>1, <1>2, RowsAre DEF TabRows
<1> HIDE DEF r
<1>5. /\ tab' \in [Tabs -> TabRows] /\ tab'[t] = r
      /\ \A u \in Tabs \ {t} : tab'[u] = tab[u]
  BY <1>1, <1>3, <1>4, RowSet
<1>6. /\ opener' \in [Tabs -> [Slots -> Openers]]
      /\ \A q \in Slots : opener'[t][q].stale /\ opener'[t][q].at = opener[t][q].at
      /\ \A u \in Tabs \ {t} : opener'[u] = opener[u]
  BY <1>1, <1>3, Staled, Bumped
<1>7. /\ handler' \in [Tabs -> Handlers] /\ handler'[t].at = handler[t].at
      /\ \A u \in Tabs \ {t} : handler'[u] = handler[u]
  BY <1>1, <1>3, HandlerOutdated
<1>8. TabsTypes'
  BY <1>1, <1>5, <1>6, <1>7 DEF TabsTypes
<1>9. \A u \in Tabs \ {t} : Same(u) /\ inbox'[u] = inbox[u]
  BY <1>1, <1>5, <1>6, <1>7 DEF Same
<1>10. Vault!Running(t)' = Vault!Running(t)
  BY <1>6 DEF Vault!Running
<1>11. ViewHolds(t)'
  BY <1>1, <1>4, <1>5, <1>6 DEF TabHolds, ViewHolds, Vault!Does
<1>12. \A q \in Slots : LivesIn(t, q)'
  BY <1>6 DEF LivesIn
<1>13. VaultHolds(t)'
  BY <1>1, <1>2, <1>4, <1>5, <1>6, <1>7, <1>10 DEF TabHolds, VaultHolds, Vault!Cleared
<1>14. overlaps' = {} => Told(t)'
  BY <1>4, <1>5, <1>6 DEF Told, Holds, Vault!Does
<1> QED
  BY <1>1, <1>2, <1>8, <1>9, <1>11, <1>12, <1>13, <1>14, OneTab DEF Unseen

\* A disconnect or a forget begins.
LEMMA LeaveKeeps ==
  ASSUME TabsInv, Grown, NEW t \in Tabs, NEW kind \in Signals, Vault!Leave(t, kind) PROVE TabsInv'
<1> DEFINE r == [tab[t] EXCEPT !.leaving = kind]
<1>1. TabsTypes /\ TabHolds(t) /\ tab[t].view = "ready" /\ tab[t].leaving = "no"
      /\ UNCHANGED <<session, keys, inbox, granted>>
  BY DEF Vault!Leave, TabsInv
<1>2. \A q \in Slots : opener[t][q].at = "off"
  BY <1>1 DEF TabHolds, ViewHolds, Vault!Running
<1>3. Vault!SetTab(t, r) /\ Vault!Bump(t, Vault!StaleOps(t)) /\ Vault!Outdate(t)
  BY DEF Vault!Leave
<1>4. r \in TabRows /\ r.active = tab[t].active /\ r.view = "ready" /\ r.leaving = kind
      /\ r.vault = tab[t].vault
  BY <1>1, RowsAre DEF TabRows, Signals
<1> HIDE DEF r
<1>5. /\ tab' \in [Tabs -> TabRows] /\ tab'[t] = r
      /\ \A u \in Tabs \ {t} : tab'[u] = tab[u]
  BY <1>1, <1>3, <1>4, RowSet
<1>6. /\ opener' \in [Tabs -> [Slots -> Openers]] /\ \A q \in Slots : opener'[t][q].at = "off"
      /\ \A u \in Tabs \ {t} : opener'[u] = opener[u]
  BY <1>1, <1>2, <1>3, Staled, Bumped
<1>7. /\ handler' \in [Tabs -> Handlers] /\ handler'[t].at = handler[t].at
      /\ \A u \in Tabs \ {t} : handler'[u] = handler[u]
  BY <1>1, <1>3, HandlerOutdated
<1>8. TabsTypes'
  BY <1>1, <1>5, <1>6, <1>7 DEF TabsTypes
<1>9. \A u \in Tabs \ {t} : Same(u) /\ inbox'[u] = inbox[u]
  BY <1>1, <1>5, <1>6, <1>7 DEF Same
<1>10. ~Vault!Running(t)' /\ ~Vault!Running(t)
  BY <1>2, <1>6 DEF Vault!Running
<1>11. ViewHolds(t)'
  BY <1>4, <1>5, <1>6, <1>10 DEF ViewHolds, Vault!Does
<1>12. \A q \in Slots : LivesIn(t, q)'
  BY <1>6 DEF LivesIn, Opened
<1>13. VaultHolds(t)'
  BY <1>1, <1>4, <1>5, <1>6, <1>7, <1>10 DEF TabHolds, VaultHolds, Vault!Cleared, Signals
<1>14. SomeoneLeaves'
  BY <1>4, <1>5 DEF SomeoneLeaves, Signals
<1>15. overlaps' = {} => Told(t)'
  BY <1>14 DEF Told
<1> QED
  BY <1>1, <1>8, <1>9, <1>11, <1>12, <1>13, <1>15, OneTab DEF Unseen

\* The stored access is cleared, whoever stored it.
LEMMA ClearKeeps ==
  ASSUME TabsInv, Grown, NEW t \in Tabs, Vault!Clear(t) PROVE TabsInv'
<1> DEFINE next == IF tab[t].leaving = "forget" THEN "forgotten" ELSE "disconnected"
           c == [tab[t] EXCEPT !.vault = 0]
           r == [c EXCEPT !.leaving = next]
<1>1. TabsTypes /\ TabHolds(t) /\ tab[t].leaving \in {"disconnect", "forget"}
      /\ UNCHANGED <<opener, handler, inbox, granted>>
  BY DEF Vault!Clear, TabsInv
<1>2. tab[t].view \in {"ready", "connect"} /\ ~Vault!Running(t)
      /\ \A q \in Slots : opener[t][q].at = "off"
  BY <1>1 DEF TabHolds, ViewHolds, Vault!Running
<1>3. Vault!SetTab(t, r) /\ session' \in Nat /\ keys' \in BOOLEAN
  <2>1. [tab[t] EXCEPT !.vault = 0,
           !.leaving = IF @ = "forget" THEN "forgotten" ELSE "disconnected"] = r
    OBVIOUS
  <2> QED
    BY <1>1, <2>1 DEF Vault!Clear, TabsTypes
<1>4. c \in TabRows /\ c.active = tab[t].active /\ c.view = tab[t].view /\ c.vault = 0
  BY <1>1, RowsAre DEF TabRows
<1> HIDE DEF c
<1>5. r \in TabRows /\ r.active = tab[t].active /\ r.view = tab[t].view
      /\ r.leaving \in {"forgotten", "disconnected"} /\ r.vault = 0
  BY <1>4 DEF TabRows
<1> HIDE DEF r
<1>6. /\ tab' \in [Tabs -> TabRows] /\ tab'[t] = r
      /\ \A u \in Tabs \ {t} : tab'[u] = tab[u]
  BY <1>1, <1>3, <1>5, RowSet
<1>7. TabsTypes'
  BY <1>1, <1>3, <1>6 DEF TabsTypes
<1>8. \A u \in Tabs \ {t} : Same(u) /\ inbox'[u] = inbox[u]
  BY <1>1, <1>6 DEF Same
<1>9. ~Vault!Running(t)'
  BY <1>1, <1>2 DEF Vault!Running
<1>10. ViewHolds(t)'
  BY <1>1, <1>2, <1>5, <1>6, <1>9 DEF TabHolds, ViewHolds, Vault!Does
<1>11. \A q \in Slots : LivesIn(t, q)'
  BY <1>1, <1>2 DEF LivesIn, Opened
<1>12. VaultHolds(t)'
  BY <1>5, <1>6 DEF VaultHolds, Vault!Cleared
<1>13. SomeoneLeaves'
  BY <1>5, <1>6 DEF SomeoneLeaves
<1>14. overlaps' = {} => Told(t)'
  BY <1>13 DEF Told
<1> QED
  BY <1>5, <1>6, <1>7, <1>8, <1>10, <1>11, <1>12, <1>13, <1>14, OneTab DEF Unseen

\* The other tabs are told.
LEMMA PublishKeeps ==
  ASSUME TabsInv, Grown, NEW t \in Tabs, Vault!Publish(t) PROVE TabsInv'
<1> DEFINE a == [tab[t] EXCEPT !.active = 0]
           b == [a EXCEPT !.init = 0]
           c == [b EXCEPT !.view = "connect"]
           r == [c EXCEPT !.leaving = "no"]
           signal == IF tab[t].leaving = "forgotten" THEN "forget" ELSE "disconnect"
<1>1. TabsTypes /\ TabHolds(t) /\ Vault!Cleared(t)
      /\ UNCHANGED <<session, keys, opener, handler, granted>>
  BY DEF Vault!Publish, TabsInv
<1>2. ~Vault!Running(t) /\ tab[t].vault = 0 /\ \A q \in Slots : opener[t][q].at = "off"
  BY <1>1 DEF TabHolds, ViewHolds, VaultHolds, Vault!Running, Vault!Cleared
<1>3. Vault!SetTab(t, r)
      /\ inbox' = [u \in Tabs |-> IF u = t THEN inbox[u] ELSE Append(inbox[u], signal)]
  BY DEF Vault!Publish
<1>4. a \in TabRows /\ a.active = 0 /\ a.vault = 0
  BY <1>1, <1>2, RowsAre DEF TabRows
<1> HIDE DEF a
<1>5. b \in TabRows /\ b.active = 0 /\ b.vault = 0
  BY <1>4 DEF TabRows
<1> HIDE DEF b
<1>6. c \in TabRows /\ c.active = 0 /\ c.vault = 0 /\ c.view = "connect"
  BY <1>5 DEF TabRows
<1> HIDE DEF c
<1>7. r \in TabRows /\ r.active = 0 /\ r.vault = 0 /\ r.view = "connect" /\ r.leaving = "no"
  BY <1>6 DEF TabRows
<1> HIDE DEF r
<1>8. /\ tab' \in [Tabs -> TabRows] /\ tab'[t] = r
      /\ \A u \in Tabs \ {t} : tab'[u] = tab[u]
  BY <1>1, <1>3, <1>7, RowSet
<1>9. signal \in Signals
  BY DEF Signals
<1> HIDE DEF signal
<1>10. inbox' \in [Tabs -> Seq(Signals)] /\ \A u \in Tabs \ {t} : inbox'[u] # <<>>
  <2>1. \A u \in Tabs : inbox[u] \in Seq(Signals)
    BY <1>1 DEF TabsTypes
  <2>2. ASSUME NEW u \in Tabs
        PROVE  Append(inbox[u], signal) \in Seq(Signals) /\ Append(inbox[u], signal) # <<>>
    <3>1. inbox[u] \in Seq(Signals)
      BY <2>1
    <3>2. Append(inbox[u], signal) \in Seq(Signals)
      BY <1>9, <3>1
    <3>3. Len(Append(inbox[u], signal)) = Len(inbox[u]) + 1 /\ Len(inbox[u]) \in Nat
      BY <1>9, <3>1
    <3>4. Len(<<>>) = 0
      OBVIOUS
    <3> QED
      BY <3>2, <3>3, <3>4
  <2> QED
    BY <1>3, <2>1, <2>2
<1>11. TabsTypes'
  BY <1>1, <1>8, <1>10 DEF TabsTypes
<1>12. ASSUME NEW u \in Tabs \ {t} PROVE TabHolds(u)'
  <2>1. TabHolds(u) /\ Same(u)
    BY <1>1, <1>8 DEF TabsInv, Same
  <2>2. ViewHolds(u)' /\ (\A s \in Slots : LivesIn(u, s)') /\ VaultHolds(u)'
    BY <2>1
    DEF TabHolds, Same, ViewHolds, LivesIn, VaultHolds, Vault!Running, Vault!Does, Vault!Cleared,
        Vault!SigningOut
  <2>3. overlaps' = {} => Told(u)'
    BY <1>10 DEF Told
  <2> QED
    BY <2>2, <2>3 DEF TabHolds
<1>13. TabHolds(t)'
  <2>1. ~Vault!Running(t)'
    BY <1>1, <1>2 DEF Vault!Running
  <2>2. ViewHolds(t)'
    BY <1>1, <1>2, <1>7, <1>8, <2>1 DEF ViewHolds, Vault!Does
  <2>3. \A q \in Slots : LivesIn(t, q)'
    BY <1>1, <1>2 DEF LivesIn, Opened
  <2>4. VaultHolds(t)'
    BY <1>7, <1>8 DEF VaultHolds, Vault!Cleared
  <2>5. overlaps' = {} => Told(t)'
    BY <1>1, <1>2, <1>7, <1>8 DEF Told, Holds, Vault!Does
  <2> QED
    BY <2>2, <2>3, <2>4, <2>5 DEF TabHolds
<1> QED
  BY <1>11, <1>12, <1>13 DEF TabsInv

-----------------------------------------------------------------------------
(* The handler of signals *)

\* A signal is taken up.
LEMMA HearKeeps ==
  ASSUME TabsInv, Grown, NEW t \in Tabs, Vault!Hear(t) PROVE TabsInv'
<1> DEFINE candidate == IF tab[t].active # 0 THEN tab[t].active ELSE tab[t].init
           busy == candidate # 0 \/ Vault!Busy(t) \/ tab[t].view \in {"loading", "pairing"}
           h == [Vault!Deaf EXCEPT !.at = "read", !.kind = Head(inbox[t]),
                !.candidate = candidate,
                             !.busy = busy]
<1>1. TabsTypes /\ TabHolds(t) /\ handler[t].at = "off" /\ inbox[t] # <<>>
      /\ UNCHANGED <<session, keys, tab, opener, granted>>
  BY DEF Vault!Hear, TabsInv
<1>2. handler' = [handler EXCEPT ![t] = h] /\ inbox' = [inbox EXCEPT ![t] = Tail(@)]
  BY DEF Vault!Hear
<1>3. inbox[t] \in Seq(Signals) /\ Head(inbox[t]) \in Signals /\ Tail(inbox[t]) \in Seq(Signals)
      /\ candidate \in Nat
  BY <1>1, RowsAre DEF TabRows
<1>4. busy \in BOOLEAN
  BY DEF Vault!Busy
<1> HIDE DEF candidate, busy
<1>5. h \in Handlers /\ h.at = "read" /\ h.candidate = candidate /\ ~h.stale
  BY <1>3, <1>4 DEF Vault!Deaf, Handlers
<1> HIDE DEF h
<1>6. /\ handler' \in [Tabs -> Handlers] /\ handler'[t] = h
      /\ \A u \in Tabs \ {t} : handler'[u] = handler[u]
  BY <1>1, <1>2, <1>5, HandlerSet
<1>7. inbox' \in [Tabs -> Seq(Signals)] /\ \A u \in Tabs \ {t} : inbox'[u] = inbox[u]
  BY <1>1, <1>2, <1>3 DEF TabsTypes
<1>8. TabsTypes'
  BY <1>1, <1>6, <1>7 DEF TabsTypes
<1>9. \A u \in Tabs \ {t} : Same(u) /\ inbox'[u] = inbox[u]
  BY <1>1, <1>6, <1>7 DEF Same
<1>10. ViewHolds(t)'
  BY <1>1 DEF TabHolds, ViewHolds, Vault!Running, Vault!Does
<1>11. \A q \in Slots : LivesIn(t, q)'
  BY <1>1, <1>5, <1>6 DEF TabHolds, LivesIn, Vault!SigningOut
<1>12. VaultHolds(t)'
  BY <1>1, <1>5, <1>6 DEF TabHolds, VaultHolds, Vault!Running, Vault!Cleared
<1>13. overlaps' = {} => Told(t)'
  <2>1. ASSUME NEW x \in Nat, Holds(t, x) PROVE candidate = x
    <3>1. CASE tab[t].active = x
      BY <2>1, <3>1 DEF Holds, candidate
    <3>2. CASE \E s \in Slots : /\ Vault!Does(t, s, "check") /\ ~opener[t][s].stale
                                /\ opener[t][s].session = x
      <4>1. PICK s \in Slots : /\ Vault!Does(t, s, "check") /\ ~opener[t][s].stale
                               /\ opener[t][s].session = x
        BY <3>2
      <4>2. tab[t].active = 0
        BY <4>1, RunningIsShut DEF Vault!Does
      <4>3. tab[t].init = x
        BY <4>1, OperationKnown DEF LivesIn, Opened, Vault!Does
      <4> QED
        BY <4>2, <4>3 DEF candidate
    <3> QED
      BY <2>1, <3>1, <3>2 DEF Holds
  <2>2. \A x \in Nat : Holds(t, x)' => Holds(t, x)
    BY <1>1 DEF Holds, Vault!Does
  <2> QED
    BY <1>5, <1>6, <2>1, <2>2 DEF Told, Doomed
<1> QED
  BY <1>1, <1>8, <1>9, <1>10, <1>11, <1>12, <1>13, OneTab DEF Unseen

\* It looks at what is stored, or cannot.
LEMMA LookKeeps ==
  ASSUME TabsInv, Grown, NEW t \in Tabs, Vault!Look(t) PROVE TabsInv'
<1>1. TabsTypes /\ TabHolds(t) /\ handler[t].at = "read"
      /\ UNCHANGED <<session, keys, tab, opener, inbox, granted>>
  BY DEF Vault!Look, TabsInv
<1>2. /\ handler' \in [Tabs -> Handlers]
      /\ \A u \in Tabs \ {t} : handler'[u] = handler[u]
      /\ handler'[t].stale = handler[t].stale /\ handler'[t].candidate = handler[t].candidate
      /\ \/ handler'[t].at = "decide" /\ handler'[t].durable = session
         \/ handler'[t].at = "blind"
  <2>1. CASE handler' = [handler EXCEPT ![t].at = "decide", ![t].durable = session,
                                        ![t].keys = keys]
    <3> DEFINE a == [handler[t] EXCEPT !.at = "decide"]
               b == [a EXCEPT !.durable = session]
               c == [b EXCEPT !.keys = keys]
    <3>1. /\ a \in Handlers /\ a.stale = handler[t].stale /\ a.at = "decide"
          /\ a.candidate = handler[t].candidate
      BY <1>1, RowsAre DEF Handlers
    <3> HIDE DEF a
    <3>2. /\ b \in Handlers /\ b.stale = handler[t].stale /\ b.at = "decide"
          /\ b.candidate = handler[t].candidate /\ b.durable = session
      BY <1>1, <3>1 DEF Handlers, TabsTypes
    <3> HIDE DEF b
    <3>3. /\ c \in Handlers /\ c.stale = handler[t].stale /\ c.at = "decide"
          /\ c.candidate = handler[t].candidate /\ c.durable = session
      BY <1>1, <3>2 DEF Handlers, TabsTypes
    <3>4. handler' = [handler EXCEPT ![t] = c]
      BY <1>1, <2>1 DEF a, b, TabsTypes
    <3> HIDE DEF c
    <3> QED
      BY <1>1, <3>3, <3>4, HandlerSet
  <2>2. CASE handler' = [handler EXCEPT ![t].at = "blind"]
    <3> DEFINE a == [handler[t] EXCEPT !.at = "blind"]
    <3>1. /\ a \in Handlers /\ a.stale = handler[t].stale /\ a.at = "blind"
          /\ a.candidate = handler[t].candidate
      BY <1>1, RowsAre DEF Handlers
    <3>2. handler' = [handler EXCEPT ![t] = a]
      BY <2>2
    <3> HIDE DEF a
    <3> QED
      BY <1>1, <3>1, <3>2, HandlerSet
  <2> QED
    BY <2>1, <2>2 DEF Vault!Look
<1>3. TabsTypes'
  BY <1>1, <1>2 DEF TabsTypes
<1>4. \A u \in Tabs \ {t} : Same(u) /\ inbox'[u] = inbox[u]
  BY <1>1, <1>2 DEF Same
<1>5. ViewHolds(t)'
  BY <1>1 DEF TabHolds, ViewHolds, Vault!Running, Vault!Does
<1>6. \A q \in Slots : LivesIn(t, q)'
  BY <1>1, <1>2 DEF TabHolds, LivesIn, Vault!SigningOut
<1>7. VaultHolds(t)'
  BY <1>1, <1>2 DEF TabHolds, VaultHolds, Vault!Running, Vault!Cleared
<1>8. overlaps' = {} => Told(t)'
  BY <1>1, <1>2 DEF TabHolds, Told, Grown, Doomed, Holds, Vault!Does, Vault!SigningOut, SomeoneLeaves
<1> QED
  BY <1>1, <1>3, <1>4, <1>5, <1>6, <1>7, <1>8, OneTab DEF Unseen

\* shouldInvalidateVaultAccess
LEMMA DecideKeeps ==
  ASSUME TabsInv, Grown, NEW t \in Tabs, Vault!Decide(t) PROVE TabsInv'
<1>1. TabsTypes /\ TabHolds(t) /\ handler[t].at \in {"decide", "blind"}
      /\ UNCHANGED <<session, keys, tab, inbox, granted>>
  BY DEF Vault!Decide, TabsInv
<1>2. CASE ~handler[t].stale /\ Vault!Invalid(handler[t])
  <2> DEFINE h == [handler[t] EXCEPT !.at = "signOut"]
  <2>1. Vault!Bump(t, Vault!StaleOps(t)) /\ handler' = [handler EXCEPT ![t] = h]
    BY <1>2 DEF Vault!Decide
  <2>2. h \in Handlers /\ h.at = "signOut"
    BY <1>1, RowsAre DEF Handlers
  <2> HIDE DEF h
  <2>3. /\ handler' \in [Tabs -> Handlers] /\ handler'[t] = h
        /\ \A u \in Tabs \ {t} : handler'[u] = handler[u]
    BY <1>1, <2>1, <2>2, HandlerSet
  <2>4. /\ opener' \in [Tabs -> [Slots -> Openers]]
        /\ \A q \in Slots : opener'[t][q].stale /\ opener'[t][q].at = opener[t][q].at
        /\ \A u \in Tabs \ {t} : opener'[u] = opener[u]
    BY <1>1, <2>1, Staled, Bumped
  <2>5. TabsTypes'
    BY <1>1, <2>3, <2>4 DEF TabsTypes
  <2>6. \A u \in Tabs \ {t} : Same(u) /\ inbox'[u] = inbox[u]
    BY <1>1, <2>3, <2>4 DEF Same
  <2>7. Vault!Running(t)' = Vault!Running(t)
    BY <2>4 DEF Vault!Running
  <2>8. ViewHolds(t)'
    BY <1>1, <2>4, <2>7 DEF TabHolds, ViewHolds, Vault!Does
  <2>9. \A q \in Slots : LivesIn(t, q)'
    BY <2>4 DEF LivesIn
  <2>10. VaultHolds(t)'
    BY <1>1, <2>2, <2>3, <2>4, <2>7 DEF TabHolds, VaultHolds, Vault!Cleared
  <2>11. overlaps' = {} => Told(t)'
    BY <2>2, <2>3 DEF Told, Doomed, Vault!SigningOut
  <2> QED
    BY <1>1, <2>5, <2>6, <2>8, <2>9, <2>10, <2>11, OneTab DEF Unseen
<1>3. CASE handler[t].stale \/ ~Vault!Invalid(handler[t])
  <2>1. handler' = [handler EXCEPT ![t] = Vault!Deaf] /\ UNCHANGED opener
    BY <1>3 DEF Vault!Decide
  <2>2. Vault!Deaf \in Handlers /\ Vault!Deaf.at = "off"
    BY DEF Vault!Deaf, Handlers, Signals
  <2>3. /\ handler' \in [Tabs -> Handlers] /\ handler'[t] = Vault!Deaf
        /\ \A u \in Tabs \ {t} : handler'[u] = handler[u]
    BY <1>1, <2>1, <2>2, HandlerSet
  <2>4. TabsTypes'
    BY <1>1, <2>1, <2>3 DEF TabsTypes
  <2>5. \A u \in Tabs \ {t} : Same(u) /\ inbox'[u] = inbox[u]
    BY <1>1, <2>1, <2>3 DEF Same
  <2>6. ViewHolds(t)'
    BY <1>1, <2>1 DEF TabHolds, ViewHolds, Vault!Running, Vault!Does
  <2>7. \A q \in Slots : LivesIn(t, q)'
    BY <1>1, <2>1, <2>2, <2>3 DEF TabHolds, LivesIn, Vault!SigningOut
  <2>8. VaultHolds(t)'
    BY <1>1, <2>1, <2>2, <2>3 DEF TabHolds, VaultHolds, Vault!Running, Vault!Cleared
  <2>9. ASSUME NEW x \in Nat, x # 0 PROVE ~Doomed(t, x)
    BY <1>1, <1>3, <2>9 DEF Doomed, Vault!SigningOut, Vault!Invalid, Vault!Outlived
  <2>10. \A x \in Nat : Holds(t, x)' => Holds(t, x) /\ x # 0
    BY <1>1, <2>1 DEF Holds, Vault!Does
  <2>11. SomeoneLeaves' = SomeoneLeaves
    BY <1>1 DEF SomeoneLeaves
  <2>12. overlaps' = {} => Told(t)'
    BY <1>1, <2>9, <2>10, <2>11 DEF TabHolds, Told, Grown
  <2> QED
    BY <1>1, <2>4, <2>5, <2>6, <2>7, <2>8, <2>12, OneTab DEF Unseen
<1> QED
  BY <1>2, <1>3

\* onSignedOut: the notes are closed.
LEMMA SignOutKeeps ==
  ASSUME TabsInv, Grown, NEW t \in Tabs, Vault!SignOut(t) PROVE TabsInv'
<1> DEFINE r == [tab[t] EXCEPT !.vault = 0]
           h == [handler[t] EXCEPT !.at = "finish"]
<1>1. TabsTypes /\ TabHolds(t) /\ handler[t].at = "signOut"
      /\ UNCHANGED <<session, keys, opener, inbox, granted>>
  BY DEF Vault!SignOut, TabsInv
<1>2. Vault!SetTab(t, r) /\ handler' = [handler EXCEPT ![t] = h]
  BY DEF Vault!SignOut
<1>3. /\ r \in TabRows /\ r.active = tab[t].active /\ r.view = tab[t].view /\ r.vault = 0
      /\ r.leaving = tab[t].leaving /\ r.init = tab[t].init /\ r.by = tab[t].by
  BY <1>1, RowsAre DEF TabRows
<1>4. h \in Handlers /\ h.at = "finish"
  BY <1>1, RowsAre DEF Handlers
<1> HIDE DEF r, h
<1>5. /\ tab' \in [Tabs -> TabRows] /\ tab'[t] = r
      /\ \A u \in Tabs \ {t} : tab'[u] = tab[u]
  BY <1>1, <1>2, <1>3, RowSet
<1>6. /\ handler' \in [Tabs -> Handlers] /\ handler'[t] = h
      /\ \A u \in Tabs \ {t} : handler'[u] = handler[u]
  BY <1>1, <1>2, <1>4, HandlerSet
<1>7. TabsTypes'
  BY <1>1, <1>5, <1>6 DEF TabsTypes
<1>8. \A u \in Tabs \ {t} : Same(u) /\ inbox'[u] = inbox[u]
  BY <1>1, <1>5, <1>6 DEF Same
<1>9. ViewHolds(t)'
  BY <1>1, <1>3, <1>5 DEF TabHolds, ViewHolds, Vault!Running, Vault!Does
<1>10. \A q \in Slots : LivesIn(t, q)'
  BY <1>1 DEF TabHolds, LivesIn, Vault!SigningOut, Opened
<1>11. VaultHolds(t)'
  BY <1>3, <1>4, <1>5, <1>6 DEF VaultHolds
<1>12. overlaps' = {} => Told(t)'
  BY <1>4, <1>6 DEF Told, Doomed, Vault!SigningOut
<1> QED
  BY <1>1, <1>3, <1>5, <1>7, <1>8, <1>9, <1>10, <1>11, <1>12, OneTab DEF Unseen

\* Memory is cleared.
LEMMA FinishKeeps ==
  ASSUME TabsInv, Grown, NEW t \in Tabs, Vault!Finish(t) PROVE TabsInv'
<1> DEFINE a == [tab[t] EXCEPT !.active = 0]
           b == [a EXCEPT !.init = 0]
           c == [b EXCEPT !.by = 0]
           r == [c EXCEPT !.view = "connect"]
<1>1. TabsTypes /\ TabHolds(t) /\ handler[t].at = "finish"
      /\ UNCHANGED <<session, keys, opener, inbox, granted>>
  BY DEF Vault!Finish, TabsInv
<1>2. Vault!SetTab(t, r) /\ handler' = [handler EXCEPT ![t] = Vault!Deaf]
  BY DEF Vault!Finish
<1>3. a \in TabRows /\ a.active = 0 /\ a.vault = tab[t].vault /\ a.leaving = tab[t].leaving
  BY <1>1, RowsAre DEF TabRows
<1> HIDE DEF a
<1>4. b \in TabRows /\ b.active = 0 /\ b.vault = tab[t].vault /\ b.leaving = tab[t].leaving
  BY <1>3 DEF TabRows
<1> HIDE DEF b
<1>5. c \in TabRows /\ c.active = 0 /\ c.vault = tab[t].vault /\ c.leaving = tab[t].leaving
  BY <1>4 DEF TabRows
<1> HIDE DEF c
<1>6. r \in TabRows /\ r.active = 0 /\ r.vault = tab[t].vault /\ r.leaving = tab[t].leaving
      /\ r.view = "connect"
  BY <1>5 DEF TabRows
<1> HIDE DEF r
<1>7. Vault!Deaf \in Handlers /\ Vault!Deaf.at = "off"
  BY DEF Vault!Deaf, Handlers, Signals
<1>8. /\ tab' \in [Tabs -> TabRows] /\ tab'[t] = r
      /\ \A u \in Tabs \ {t} : tab'[u] = tab[u]
  BY <1>1, <1>2, <1>6, RowSet
<1>9. /\ handler' \in [Tabs -> Handlers] /\ handler'[t] = Vault!Deaf
      /\ \A u \in Tabs \ {t} : handler'[u] = handler[u]
  BY <1>1, <1>2, <1>7, HandlerSet
<1>10. TabsTypes'
  BY <1>1, <1>8, <1>9 DEF TabsTypes
<1>11. \A u \in Tabs \ {t} : Same(u) /\ inbox'[u] = inbox[u]
  BY <1>1, <1>8, <1>9 DEF Same
<1>12. ViewHolds(t)'
  BY <1>1, <1>6, <1>8 DEF TabHolds, ViewHolds, Vault!Running, Vault!Does
<1>13. \A q \in Slots : ~opener[t][q].stale => opener[t][q].at \notin Opened \cup {"approval",
     "open"}
  BY <1>1 DEF TabHolds, LivesIn, Vault!SigningOut
<1>14. \A q \in Slots : LivesIn(t, q)'
  BY <1>1, <1>13 DEF LivesIn
<1>15. VaultHolds(t)'
  BY <1>1, <1>6, <1>7, <1>8, <1>9 DEF TabHolds, VaultHolds, Vault!Running, Vault!Cleared
<1>16. overlaps' = {} => Told(t)'
  BY <1>1, <1>6, <1>8, <1>13 DEF Told, Holds, Vault!Does, Opened
<1> QED
  BY <1>1, <1>6, <1>8, <1>10, <1>11, <1>12, <1>14, <1>15, <1>16, OneTab DEF Unseen

-----------------------------------------------------------------------------

\* Every step keeps TabsInv, and no window is forgotten.
LEMMA TabsInvStep ==
  ASSUME Calm => TabsInv, [Vault!TabsNext]_(Vault!tabsVars) PROVE (Calm => TabsInv)'
<1> SUFFICES ASSUME Calm' PROVE TabsInv'
  OBVIOUS
<1>1. ASSUME NEW t \in Tabs, NEW s \in Slots, Vault!Starts(t, s) PROVE TabsInv'
  <2>1. TabsInv
    BY <1>1, Entered DEF Vault!Starts
  <2> QED
    BY <1>1, <2>1, SaveKeeps, ReadyKeeps, StartPairingKeeps DEF Vault!Starts
<1>2. ASSUME NEW t \in Tabs, NEW s \in Slots, Vault!Stores(t, s) PROVE TabsInv'
  <2>1. TabsInv
    BY <1>2, Entered DEF Vault!Stores
  <2> QED
    BY <1>2, <2>1, InstallKeeps, InstalledKeeps DEF Vault!Stores
<1>3. ASSUME UNCHANGED overlaps PROVE TabsInv /\ Grown
  BY <1>3 DEF Calm, Grown
<1>4. ASSUME NEW t \in Tabs, NEW s \in Slots, Vault!Opening(t, s), UNCHANGED overlaps
      PROVE  TabsInv'
  <2>1. CASE Vault!Boot(t, s) \/ Vault!Approved(t, s) \/ Vault!Open(t, s)
    BY <1>3, <1>4, <2>1, BootKeeps, ApprovedKeeps, OpenKeeps
  <2>2. CASE Vault!ReadDurable(t, s) \/ Vault!Verified(t, s) \/ Vault!Close(t, s)
    BY <1>3, <1>4, <2>2, ReadDurableKeeps, VerifiedKeeps, CloseKeeps
  <2> QED
    BY <1>4, <2>1, <2>2 DEF Vault!Opening
<1>5. ASSUME NEW t \in Tabs, Vault!CancelPairing(t), UNCHANGED overlaps PROVE TabsInv'
  BY <1>3, <1>5, CancelPairingKeeps
<1>6. ASSUME NEW t \in Tabs, Vault!Leaving(t), UNCHANGED overlaps PROVE TabsInv'
  BY <1>3, <1>6, LeaveKeeps, ClearKeeps, PublishKeeps DEF Vault!Leaving, Signals
<1>7. ASSUME NEW t \in Tabs, Vault!Hearing(t), UNCHANGED overlaps PROVE TabsInv'
  BY <1>3, <1>7, HearKeeps, LookKeeps, DecideKeeps, SignOutKeeps, FinishKeeps DEF Vault!Hearing
<1>8. CASE UNCHANGED Vault!tabsVars
  <2>1. TabsInv
    BY <1>3, <1>8 DEF Vault!tabsVars
  <2>2. TabsTypes'
    BY <1>8, <2>1 DEF Vault!tabsVars, TabsInv, TabsTypes
  <2>3. ASSUME NEW t \in Tabs PROVE TabHolds(t)'
    <3>1. TabHolds(t)
      BY <2>1 DEF TabsInv
    <3>2. ViewHolds(t)' /\ (\A s \in Slots : LivesIn(t, s)') /\ VaultHolds(t)'
      BY <1>8, <3>1
      DEF Vault!tabsVars, TabHolds, ViewHolds, LivesIn, VaultHolds, Vault!Running, Vault!Does,
          Vault!Cleared, Vault!SigningOut
    <3>3. overlaps' = {} => Told(t)'
      BY <1>8, <3>1
      DEF Vault!tabsVars, TabHolds, Told, Holds, Vault!Does, Doomed, Vault!SigningOut,
          SomeoneLeaves
    <3> QED
      BY <3>2, <3>3 DEF TabHolds
  <2> QED
    BY <2>2, <2>3 DEF TabsInv
<1> QED
  BY <1>1, <1>2, <1>4, <1>5, <1>6, <1>7, <1>8 DEF Vault!TabsNext

\* A tab at rest has the stored session open, or nothing, unless a step fell into a window
\* of VaultTabs, and has the notes open of the session it has, whatever session another tab
\* stored or restored meanwhile; for any number of tabs, operations, sessions, signals and
\* faults (vaultAccessInvalidation.ts, AuthVaultGate.svelte).
THEOREM OpenIsAlwaysStored == Vault!TabsSpec => []Vault!OpenIsStored
<1>1. Vault!TabsInit => (Calm => TabsInv)
  BY TabsInvInit
<1>2. (Calm => TabsInv) /\ [Vault!TabsNext]_(Vault!tabsVars) => (Calm => TabsInv)'
  BY TabsInvStep
<1>3. (Calm => TabsInv) => Vault!OpenIsStored
  <2> SUFFICES ASSUME Calm => TabsInv, NEW t \in Tabs, Vault!Settled(t), Calm
               PROVE  /\ overlaps = {} => tab[t].active \in {0, session}
                      /\ tab[t].vault = tab[t].active
    BY DEF Vault!OpenIsStored, Calm
  <2>1. TabHolds(t) /\ tab[t].active \in Nat
    BY RowsAre DEF TabsInv, TabRows
  <2>2. overlaps = {} /\ tab[t].active # 0 => tab[t].active = session
    BY <2>1 DEF Vault!Settled, TabHolds, Told, Holds, SomeoneLeaves, Doomed, Vault!SigningOut
  <2>3. tab[t].vault = tab[t].active
    BY <2>1 DEF Vault!Settled, TabHolds, VaultHolds, Vault!Cleared
  <2> QED
    BY <2>2, <2>3
<1> QED
  BY <1>1, <1>2, <1>3, PTL DEF Vault!TabsSpec

=============================================================================
