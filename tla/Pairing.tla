------------------------------ MODULE Pairing ------------------------------
(***************************************************************************)
(* A browser joins a vault: it installs the key and a session that is      *)
(* still pending, and only then consumes the pairing, which activates its  *)
(* credential at the relay.  Tabs share the storage; one may pair while    *)
(* another resumes, disconnects or forgets.                                *)
(*                                                                         *)
(*   Source: packages/client/src/pairing.ts, deviceAccess.ts, session.ts,  *)
(*   deviceKeys.ts, and the callers in AuthVaultGate.svelte.               *)
(*                                                                         *)
(* Access has the relay's side of a pairing with all its conditions.  Here *)
(* a request is approved in time or is gone, and credentials are not       *)
(* revoked but by the pairing itself.                                      *)
(***************************************************************************)
EXTENDS Naturals

CONSTANTS
  Tabs,
  Requests,     \* pairing requests, 1..n, also the credential each one brings
  MaxDevices,   \* device ids the browser draws
  MaxFaults     \* requests and answers lost, tabs closed, failing openings

VARIABLES
  request,   \* the relay's pairing requests, and the device id of each
  device,    \* the browser's device id, 0 for none
  keys,      \* the generation of the stored vault key, 0 for none
  session,   \* the stored session: its credential, and whether it is pending
  tab,       \* the pairing or the resumption in each tab
  dropped,   \* history: credentials the user disconnected or forgot
  cancelled, \* history: requests their own client cancelled
  drawn, lost,
  overlaps   \* history: the windows of the code that a step fell into

pairingVars ==
  <<request, device, keys, session, tab, dropped, cancelled, drawn, lost, overlaps>>

NoSession == [credential |-> 0, pending |-> FALSE]
Paired(r) == [credential |-> r, pending |-> TRUE]
AtEase    == [at |-> "idle", request |-> 0, as |-> "none", aborted |-> FALSE,
              before |-> [keys |-> 0, session |-> NoSession], installed |-> 0]

PairingInit ==
  /\ request = [r \in Requests |-> [state |-> "none", device |-> 0]]
  /\ device = 0 /\ keys = 0 /\ session = NoSession
  /\ tab = [t \in Tabs |-> AtEase]
  /\ dropped = {} /\ cancelled = {}
  /\ drawn = 0 /\ lost = 0 /\ overlaps = {}

-----------------------------------------------------------------------------
Stands(t, at) == tab[t].at = at
Puts(t, w)    == tab' = [tab EXCEPT ![t] = w]
Goes(t, at)   == Puts(t, [tab[t] EXCEPT !.at = at])
Mine(t)       == tab[t].request
Loss          == lost < MaxFaults /\ lost' = lost + 1
Active(r)     == request[r].state = "active"
SetState(r, s) == request' = [request EXCEPT ![r].state = s]

\* getDeviceId, which draws an id where there is none.
NextDevice == IF device = 0 THEN drawn + 1 ELSE device
KeepsDevice ==
  /\ NextDevice <= MaxDevices
  /\ device' = NextDevice
  /\ drawn' = IF device = 0 THEN drawn + 1 ELSE drawn

\* The relay refuses a device id it has in a request or a device.
Unavailable(d) ==
  \E r \in Requests :
    /\ request[r].device = d
    /\ request[r].state \in {"open", "approved", "active", "revoked"}

\* createPairingRequest
CreateRequest(t, r) ==
  /\ Stands(t, "idle") /\ request[r].state = "none"
  /\ \A q \in Requests : q < r => request[q].state # "none"
  /\ KeepsDevice /\ ~Unavailable(NextDevice)
  /\ request' = [request EXCEPT ![r] = [state |-> "open", device |-> NextDevice]]
  /\ Puts(t, [AtEase EXCEPT !.at = "poll", !.request = r, !.as = "pairing"])
  /\ UNCHANGED <<keys, session, dropped, cancelled, lost>>

Approve(r) ==
  /\ request[r].state = "open"
  /\ SetState(r, "approved")
  /\ UNCHANGED <<device, keys, session, tab, dropped, cancelled, drawn, lost>>

Expire(r) ==
  /\ request[r].state \in {"open", "approved"}
  /\ SetState(r, "gone")
  /\ UNCHANGED <<device, keys, session, tab, dropped, cancelled, drawn, lost>>

-----------------------------------------------------------------------------
(* waitForPairing *)

\* An approved request brings the key; one that is gone ends the wait.
Poll(t) ==
  /\ Stands(t, "poll") /\ request[Mine(t)].state # "open"
  /\ Goes(t, IF request[Mine(t)].state = "approved" /\ ~tab[t].aborted
             THEN "snapshot" ELSE "cancel")
  /\ UNCHANGED <<request, device, keys, session, dropped, cancelled, drawn, lost>>

\* snapshotPairingAccessState, after the device id was compared.
Snapshot(t) ==
  /\ Stands(t, "snapshot") /\ KeepsDevice
  /\ IF device = request[Mine(t)].device /\ ~tab[t].aborted
     THEN Puts(t, [tab[t] EXCEPT !.at = "keys", !.installed = keys,
                     !.before = [keys |-> keys, session |-> session]])
     ELSE Goes(t, "cancel")
  /\ UNCHANGED <<request, keys, session, dropped, cancelled, lost>>

\* installPairedMasterKey keeps a stored key of the same vault.
InstallKeys(t) ==
  /\ Stands(t, "keys")
  /\ IF device = request[Mine(t)].device
     THEN /\ keys' = IF keys = 0 THEN Mine(t) ELSE keys
          /\ Puts(t, [tab[t] EXCEPT !.at = "open", !.installed = keys'])
     ELSE UNCHANGED keys /\ Goes(t, "restore")
  /\ UNCHANGED <<request, device, session, dropped, cancelled, drawn, lost>>

\* initialize: the application opens the vault, or fails to.
Initialize(t) ==
  /\ Stands(t, "open")
  /\ \/ Goes(t, IF tab[t].aborted THEN "restore" ELSE "install") /\ UNCHANGED lost
     \/ Loss /\ Goes(t, "restore")
  /\ UNCHANGED <<request, device, keys, session, dropped, cancelled, drawn>>

\* installPairingSession compares both records in one transaction.
InstallSession(t) ==
  /\ Stands(t, "install")
  /\ IF keys = tab[t].installed /\ session = tab[t].before.session
     THEN session' = Paired(Mine(t)) /\ Goes(t, "installed")
     ELSE UNCHANGED session /\ Goes(t, "restore")
  /\ UNCHANGED <<request, device, keys, dropped, cancelled, drawn, lost>>

Installed(t) ==
  /\ Stands(t, "installed")
  /\ Goes(t, IF tab[t].aborted THEN "restore" ELSE "consume")
  /\ UNCHANGED <<request, device, keys, session, dropped, cancelled, drawn, lost>>

\* restorePairingAccessState, unless another tab changed the records since.
RestoreNothing(t) ==   \* bug: the session is left as it is
  /\ Stands(t, "restore")
  /\ keys' = IF keys = tab[t].installed THEN tab[t].before.keys ELSE keys
  /\ Goes(t, "cancel")
  /\ UNCHANGED <<request, device, session, dropped, cancelled, drawn, lost>>

Restore(t) ==
  LET ours == /\ keys = tab[t].installed
              /\ session \in {tab[t].before.session, Paired(Mine(t))} IN
  /\ Stands(t, "restore")
  /\ keys' = IF ours THEN tab[t].before.keys ELSE keys
  /\ session' = IF ours THEN tab[t].before.session ELSE session
  /\ Goes(t, "cancel")
  /\ UNCHANGED <<request, device, dropped, cancelled, drawn, lost>>

\* Whatever failed, the request is withdrawn; the answer is not looked at.
CancelRequest(t) ==
  /\ Stands(t, "cancel")
  /\ \/ /\ request' = [request EXCEPT ![Mine(t)].state =
                         IF @ \in {"open", "approved"} THEN "gone" ELSE @]
        /\ cancelled' = cancelled \cup {Mine(t)}
        /\ UNCHANGED lost
     \/ Loss /\ UNCHANGED <<request, cancelled>>
  /\ Puts(t, AtEase)
  /\ UNCHANGED <<device, keys, session, dropped, drawn>>

-----------------------------------------------------------------------------
(* resumePairingFinalization: the end of a pairing, and the start of a page *)

\* A tab that opened a vault with a pending session.
Resume(t) ==
  /\ Stands(t, "idle") /\ session.pending /\ keys # 0
  /\ Puts(t, [AtEase EXCEPT !.at = "consume", !.request = session.credential, !.as = "resumption"])
  /\ UNCHANGED <<request, device, keys, session, dropped, cancelled, drawn, lost>>

\* The relay activates the credential, or repeats that it has.  A request or
\* an answer may be lost.
Consume(t) ==
  LET done == request[Mine(t)].state \in {"approved", "active"} IN
  /\ Stands(t, "consume")
  /\ \/ /\ SetState(Mine(t), IF done THEN "active" ELSE request[Mine(t)].state)
        /\ \/ Goes(t, IF done THEN "complete" ELSE "list") /\ UNCHANGED lost
           \/ Loss /\ Goes(t, "list")
     \/ Loss /\ Goes(t, "list") /\ UNCHANGED request
  /\ UNCHANGED <<device, keys, session, dropped, cancelled, drawn>>

\* After an error an active device can list the devices, a provisional cannot.
ListAnyDevices(t) ==   \* bug: the list is not looked at
  /\ Stands(t, "list")
  /\ Goes(t, "complete")
  /\ UNCHANGED <<request, device, keys, session, dropped, cancelled, drawn, lost>>

Ambiguous(t) == IF tab[t].as = "pairing" THEN Goes(t, "verify") ELSE Puts(t, AtEase)

ListDevices(t) ==
  /\ Stands(t, "list")
  /\ \/ /\ IF Active(Mine(t)) THEN Goes(t, "complete") ELSE Ambiguous(t)
        /\ UNCHANGED lost
     \/ Loss /\ Ambiguous(t)
  /\ UNCHANGED <<request, device, keys, session, dropped, cancelled, drawn>>

\* completePairingFinalization
Complete(t) ==
  LET ours == session = Paired(Mine(t))
      final == IF ours THEN [session EXCEPT !.pending = FALSE] ELSE session IN
  /\ Stands(t, "complete")
  /\ session' = final
  /\ IF final.credential = Mine(t) THEN Puts(t, AtEase) ELSE Ambiguous(t)
  /\ UNCHANGED <<request, device, keys, dropped, cancelled, drawn, lost>>

\* failIfPairingStateChanged: what remains pending is reported as paired.
VerifyByRestoring(t) ==   \* bug: an ambiguous answer takes the access back
  /\ Stands(t, "verify")
  /\ Goes(t, "restore")
  /\ UNCHANGED <<request, device, keys, session, dropped, cancelled, drawn, lost>>

Verify(t) ==
  /\ Stands(t, "verify")
  /\ CASE session = Paired(Mine(t)) -> Puts(t, AtEase)
       [] session = NoSession       -> Goes(t, "revoke")
       [] OTHER                     -> Goes(t, "cancel")
  /\ UNCHANGED <<request, device, keys, session, dropped, cancelled, drawn, lost>>

\* bestEffortRevokeClearedPairing
RevokeCleared(t) ==
  /\ Stands(t, "revoke")
  /\ \/ /\ SetState(Mine(t), IF Active(Mine(t)) THEN "revoked" ELSE request[Mine(t)].state)
        /\ UNCHANGED lost
     \/ Loss /\ UNCHANGED request
  /\ Goes(t, "cancel")
  /\ UNCHANGED <<device, keys, session, dropped, cancelled, drawn>>

-----------------------------------------------------------------------------
(* The user, in any tab *)

Abort(t) ==
  /\ tab[t].as = "pairing" /\ ~tab[t].aborted
  /\ tab[t].at \in {"poll", "snapshot", "keys", "open", "install", "installed"}
  /\ Puts(t, [tab[t] EXCEPT !.aborted = TRUE,
                !.at = IF @ \in {"poll", "snapshot"} THEN "cancel" ELSE @])
  /\ UNCHANGED <<request, device, keys, session, dropped, cancelled, drawn, lost>>

\* The session is cleared; clearDeviceAccess takes the key and the id as well.
Disconnect ==
  /\ session # NoSession
  /\ session' = NoSession
  /\ dropped' = dropped \cup {session.credential}
  /\ UNCHANGED <<request, device, keys, tab, cancelled, drawn, lost>>

Forget ==
  /\ keys # 0
  /\ session' = NoSession /\ keys' = 0 /\ device' = 0
  /\ dropped' = dropped \cup ({session.credential} \ {0})
  /\ UNCHANGED <<request, tab, cancelled, drawn, lost>>

CloseTab(t) ==
  /\ ~Stands(t, "idle") /\ Loss
  /\ Puts(t, AtEase)
  /\ UNCHANGED <<request, device, keys, session, dropped, cancelled, drawn>>

PairingStep(t) ==
  \/ Poll(t) \/ Snapshot(t) \/ InstallKeys(t) \/ Initialize(t) \/ InstallSession(t)
  \/ Installed(t) \/ Restore(t) \/ CancelRequest(t) \/ Consume(t)
  \/ ListDevices(t) \/ Complete(t) \/ Verify(t) \/ RevokeCleared(t)

-----------------------------------------------------------------------------
(* Two windows of the code, which the steps fall into freely *)

\* A step that falls into a window is remembered; nothing keeps it from it.
Enters(window, in) == overlaps' = IF in THEN overlaps \cup {window} ELSE overlaps

\* The answer to a poll is used although the request may have expired since,
\* and another tab asks for a pairing of its own meanwhile.
Outdated(t) ==
  tab[t].as = "pairing" /\ request[Mine(t)].state = "gone" /\ tab[t].at # "poll"

\* The pairing tab has installed its session and may yet take it back, when
\* another tab resumes it.
Undecided(r) ==
  \E t \in Tabs : Mine(t) = r /\ tab[t].as = "pairing" /\ tab[t].at \in {"installed", "restore"}

PairingNext ==
  \/ \E t \in Tabs, r \in Requests :
       CreateRequest(t, r) /\ Enters("expired", \E u \in Tabs : Outdated(u))
  \/ \E t \in Tabs : Resume(t) /\ Enters("rollback", Undecided(session.credential))
  \/ /\ \/ \E t \in Tabs : PairingStep(t) \/ Abort(t) \/ CloseTab(t)
        \/ \E r \in Requests : Approve(r) \/ Expire(r)
        \/ Disconnect \/ Forget
     /\ UNCHANGED overlaps

PairingSpec == PairingInit /\ [][PairingNext]_pairingVars

-----------------------------------------------------------------------------
(* Properties *)

\* A credential the relay has activated is in the browser, with a key, unless
\* the user dropped it: no failure, lost answer or step of another tab takes back
\* an access that was granted, but for the two windows of pairing.ts: another tab
\* resumes a session that its pairing then takes back, or asks for a pairing
\* while one whose request has expired is still being installed.
ActiveIsHeld ==
  overlaps = {} =>
    \A r \in Requests :
      Active(r) => r \in dropped \/ (session.credential = r /\ keys # 0)

\* A session whose marker was removed has an activated credential, always.
FinalizedIsActive ==
  session # NoSession /\ ~session.pending => request[session.credential].state = "active"

\* A session that waits for its finalization was not withdrawn at the relay,
\* unless a request was made over an expired one that was still being installed.
PendingIsNotWithdrawn ==
  "expired" \notin overlaps => (session.pending => session.credential \notin cancelled)
=============================================================================
