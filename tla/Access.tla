------------------------------- MODULE Access -------------------------------
(***************************************************************************)
(* Who may use the relay, apps/server/src/index.mjs: the first claim, the  *)
(* operator's reclaim, pairing requests with their approval and their      *)
(* consumption, the lineage of devices, service credentials, and the       *)
(* revocation of a service, of a device with its descendants or of all.    *)
(*                                                                         *)
(* Handlers are single transactions, but for the two that authenticate     *)
(* first and await a body then: the approval of a pairing and the issue of *)
(* a service credential.  A refused request changes nothing, except that   *)
(* nearly every request sweeps the expired pairings first (Sweep).         *)
(***************************************************************************)
EXTENDS Integers, FiniteSets

CONSTANTS
  Devices,        \* device ids
  Services,       \* ids drawn for service credentials
  Pairings,       \* ids drawn for pairing requests
  Tokens,         \* hashes of credentials
  MaxDevices, MaxServices, MaxPending,   \* limits of the relay's settings
  PairingTtl, ReceiptTtl,
  Null,           \* SQL NULL
  MaxTime,        \* bound on the clock
  MaxInFlight     \* bound on handlers awaiting a body at once

ASSUME AccessAssumption ==
  /\ IsFiniteSet(Devices) /\ IsFiniteSet(Services) /\ IsFiniteSet(Pairings)
  /\ Null \notin Devices /\ Null \notin Tokens
  /\ Null \notin [device : Devices, token : Tokens, expires : Nat]
  /\ MaxDevices \in Nat /\ MaxServices \in Nat /\ MaxPending \in Nat
  /\ PairingTtl \in Nat \ {0} /\ ReceiptTtl \in Nat \ {0}
  /\ MaxTime \in Nat /\ MaxInFlight \in Nat

VARIABLES
  claimed,      \* instance.initialized
  devices,      \* table devices
  services,     \* table service_credentials
  pairings,     \* table pairing_requests; "gone" once deleted, ids are not reused
  receipts,     \* table pairing_consume_receipts, Null for no row
  inflight,     \* approvals and issues authenticated, body awaited
  now,          \* Date.now()
  minted,       \* every token drawn so far, to draw new ones
  consumed      \* history: every pairing that was consumed

vars ==
  <<claimed, devices, services, pairings, receipts, inflight, now, minted, consumed>>

Device ==
  [state : {"none", "active", "revoked"}, token : Tokens \cup {Null},
   approver : Devices \cup {Null}]

Service ==
  [state : {"none", "active", "revoked"}, token : Tokens \cup {Null},
   issuer : Devices \cup {Null}]

Pairing ==
  [state : {"none", "open", "approved", "gone"}, device : Devices \cup {Null},
   token : Tokens \cup {Null}, approver : Devices \cup {Null}, expires : Nat]

Receipt == [device : Devices, token : Tokens, expires : Nat]

Handler ==
  [op : {"approve"}, token : Tokens, id : Pairings]
    \cup [op : {"issue"}, token : Tokens]

AccessTypeOK ==
  /\ claimed \in BOOLEAN
  /\ devices \in [Devices -> Device]
  /\ services \in [Services -> Service]
  /\ pairings \in [Pairings -> Pairing]
  /\ receipts \in [Pairings -> Receipt \cup {Null}]
  /\ inflight \subseteq Handler
  /\ now \in Nat
  /\ minted \subseteq Tokens
  /\ consumed \subseteq
       [pairing : Pairings, device : Devices, token : Tokens, until : Nat]

-----------------------------------------------------------------------------
(* Queries *)

Known(d)    == devices[d].state # "none"
Active(d)   == devices[d].state = "active"
Serves(s)   == services[s].state = "active"
Pending(p)  == pairings[p].state \in {"open", "approved"}

KnownDevices == {d \in Devices : Known(d)}
IssuedServices == {s \in Services : services[s].state # "none"}

\* The device a token authenticates, as a set of at most one.
Holder(t) == {d \in Devices : Active(d) /\ devices[d].token = t}

\* credentialHashRegistered: revoked rows count.
Registered(t) ==
  \/ \E d \in Devices : Known(d) /\ devices[d].token = t
  \/ \E s \in IssuedServices : services[s].token = t

\* cleanupPairings, before almost every request, in the others' transactions
\* and on a timer.
Expired(p) == Pending(p) /\ pairings[p].expires <= now

SweptPairings ==
  [p \in Pairings |->
     IF Expired(p) THEN [pairings[p] EXCEPT !.state = "gone"] ELSE pairings[p]]

SweptReceipts ==
  [p \in Pairings |->
     IF receipts[p] = Null \/ receipts[p].expires > now THEN receipts[p] ELSE Null]

Waiting == {p \in Pairings : Pending(p) /\ ~Expired(p)}

Reserved(d) == \E p \in Waiting : pairings[p].device = d

RoomForDevice == Cardinality(KnownDevices) < MaxDevices

\* WITH RECURSIVE descendants: d, and every device approved by one of them,
\* as the least set closed under approval.
ClosedUnderApproval(S) ==
  \A c \in Devices : devices[c].approver \in S /\ Known(c) => c \in S

SubtreeOfChildren(d) ==   \* bug: only the devices that d approved itself
  {c \in Devices : Known(c) /\ (c = d \/ (Known(d) /\ devices[c].approver = d))}

Subtree(d) ==
  {c \in Devices : Known(d) /\
     \A S \in SUBSET Devices : d \in S /\ ClosedUnderApproval(S) => c \in S}

-----------------------------------------------------------------------------
(* Setup and recovery *)

\* token(): 32 random bytes.
Mint(t) == t \in Tokens \ minted /\ minted' = minted \cup {t}

Admit(d, t, approver) ==
  devices' = [devices EXCEPT ![d] =
                [state |-> "active", token |-> t, approver |-> approver]]

SweepPairings == pairings' = SweptPairings /\ receipts' = SweptReceipts

\* POST /setup/claim
Claim(d, t) ==
  /\ ~claimed
  /\ ~Known(d) /\ ~Reserved(d)
  /\ RoomForDevice
  /\ Mint(t)
  /\ Admit(d, t, Null)
  /\ claimed' = TRUE
  /\ SweepPairings
  /\ UNCHANGED <<services, inflight, now, consumed>>

\* POST /setup/reclaim: a new device, or a known one under a new token and
\* without its approver.
ReclaimReserved(d, t) ==   \* bug: pending pairings are not looked at
  /\ claimed
  /\ Known(d) \/ RoomForDevice
  /\ Mint(t)
  /\ Admit(d, t, Null)
  /\ SweepPairings
  /\ UNCHANGED <<claimed, services, inflight, now, consumed>>

Reclaim(d, t) ==
  /\ claimed
  /\ ~Reserved(d)
  /\ Known(d) \/ RoomForDevice
  /\ Mint(t)
  /\ Admit(d, t, Null)
  /\ SweepPairings
  /\ UNCHANGED <<claimed, services, inflight, now, consumed>>

-----------------------------------------------------------------------------
(* Pairing *)

\* POST /pairings.  The requester brings the hash of its credential; device
\* and token are UNIQUE among the pending requests.
RequestPairingOfPending(p, d, t) ==   \* bug: tokens in use are not looked at
  /\ claimed
  /\ pairings[p].state = "none"
  /\ ~Known(d) /\ ~Reserved(d)
  /\ \A q \in Waiting : pairings[q].token # t
  /\ RoomForDevice
  /\ Cardinality(Waiting) < MaxPending
  /\ pairings' = [SweptPairings EXCEPT ![p] =
                    [state |-> "open", device |-> d, token |-> t, approver |-> Null,
                     expires |-> now + PairingTtl]]
  /\ receipts' = SweptReceipts
  /\ minted' = minted \cup {t}
  /\ UNCHANGED <<claimed, devices, services, inflight, now, consumed>>

RequestPairing(p, d, t) ==
  /\ claimed
  /\ pairings[p].state = "none"
  /\ ~Known(d) /\ ~Reserved(d)
  /\ ~Registered(t)
  /\ \A q \in Waiting : pairings[q].token # t
  /\ RoomForDevice
  /\ Cardinality(Waiting) < MaxPending
  /\ pairings' = [SweptPairings EXCEPT ![p] =
                    [state |-> "open", device |-> d, token |-> t, approver |-> Null,
                     expires |-> now + PairingTtl]]
  /\ receipts' = SweptReceipts
  /\ minted' = minted \cup {t}
  /\ UNCHANGED <<claimed, devices, services, inflight, now, consumed>>

\* DELETE /pairings/:id, by who knows the poll secret.
CancelPairing(p) ==
  /\ p \in Waiting
  /\ pairings' = [SweptPairings EXCEPT ![p].state = "gone"]
  /\ receipts' = SweptReceipts
  /\ UNCHANGED <<claimed, devices, services, inflight, now, minted, consumed>>

\* requireCredential of a device, then the await of the body.
Begin(h) ==
  /\ Holder(h.token) # {}
  /\ Cardinality(inflight) < MaxInFlight
  /\ inflight' = inflight \cup {h}
  /\ SweepPairings
  /\ UNCHANGED <<claimed, devices, services, now, minted, consumed>>

\* The token is read again under the write lock.
Authenticated(h) == h \in inflight /\ Holder(h.token) # {}

Finish(h) == inflight' = inflight \ {h} /\ UNCHANGED <<claimed, now, consumed>>

\* POST /pairings/:id/approve
CanApprove(h) ==
  h.op = "approve" /\ pairings[h.id].state = "open" /\ ~Expired(h.id)

ApproveOnce(h) ==   \* bug: the token is not read again
  /\ h \in inflight /\ CanApprove(h)
  /\ \E d \in Devices :
       /\ devices[d].token = h.token
       /\ pairings' = [pairings EXCEPT ![h.id].state = "approved",
                                       ![h.id].approver = d]
  /\ UNCHANGED <<devices, services, receipts, minted>>
  /\ Finish(h)

Approve(h) ==
  /\ Authenticated(h) /\ CanApprove(h)
  /\ \E d \in Holder(h.token) :
       pairings' = [pairings EXCEPT ![h.id].state = "approved",
                                    ![h.id].approver = d]
  /\ UNCHANGED <<devices, services, receipts, minted>>
  /\ Finish(h)

\* POST /pairings/:id/consume, by who holds the token that was approved.
CanConsumeUncounted(p) ==   \* bug: room is checked with the request only
  LET row == pairings[p]
  IN  /\ p \in Waiting /\ row.state = "approved"
      /\ Active(row.approver)
      /\ ~Registered(row.token)
      /\ ~Known(row.device)

CanConsume(p) ==
  LET row == pairings[p]
  IN  /\ p \in Waiting /\ row.state = "approved"
      /\ Active(row.approver)
      /\ ~Registered(row.token)
      /\ ~Known(row.device)
      /\ RoomForDevice

ConsumeReceiptOfPairing(p) ==   \* bug: kept no longer than the pairing
  [device |-> pairings[p].device, token |-> pairings[p].token,
   expires |-> pairings[p].expires]

ConsumeReceipt(p) ==
  [device |-> pairings[p].device, token |-> pairings[p].token,
   expires |-> now + ReceiptTtl]

Consume(p) ==
  LET row == pairings[p]
  IN  /\ CanConsume(p)
      /\ Admit(row.device, row.token, row.approver)
      /\ receipts' = [SweptReceipts EXCEPT ![p] = ConsumeReceipt(p)]
      /\ pairings' = [SweptPairings EXCEPT ![p].state = "gone"]
      /\ consumed' = consumed \cup
           {[pairing |-> p, device |-> row.device, token |-> row.token,
             until |-> now + ReceiptTtl]}
      /\ UNCHANGED <<claimed, services, inflight, now, minted>>

-----------------------------------------------------------------------------
(* Service credentials and revocation *)

\* POST /service-credentials
CanIssue(h) ==
  h.op = "issue" /\ Cardinality(IssuedServices) < MaxServices

IssueServiceOnce(h, s, t) ==   \* bug: the token is not read again
  /\ h \in inflight /\ CanIssue(h)
  /\ services[s].state = "none"
  /\ Mint(t)
  /\ \E d \in Devices :
       /\ devices[d].token = h.token
       /\ services' = [services EXCEPT ![s] =
                         [state |-> "active", token |-> t, issuer |-> d]]
  /\ UNCHANGED <<devices, pairings, receipts>>
  /\ Finish(h)

IssueService(h, s, t) ==
  /\ Authenticated(h) /\ CanIssue(h)
  /\ services[s].state = "none"
  /\ Mint(t)
  /\ \E d \in Holder(h.token) :
       services' = [services EXCEPT ![s] =
                      [state |-> "active", token |-> t, issuer |-> d]]
  /\ UNCHANGED <<devices, pairings, receipts>>
  /\ Finish(h)

\* 401, 409 or 507.
Refuse(h) ==
  /\ h \in inflight
  /\ Holder(h.token) = {} \/ (~CanApprove(h) /\ ~CanIssue(h))
  /\ UNCHANGED <<devices, services, pairings, receipts, minted>>
  /\ Finish(h)

AnyDevice == \E d \in Devices : Active(d)

\* DELETE /service-credentials/:id
RevokeService(s) ==
  /\ AnyDevice
  /\ Serves(s)
  /\ services' = [services EXCEPT ![s].state = "revoked"]
  /\ SweepPairings
  /\ UNCHANGED <<claimed, devices, inflight, now, minted, consumed>>

\* DELETE /devices/:id, the caller's own included: its subtree, the services
\* issued there and the approvals given there.
RevokeDevice(d) ==
  /\ AnyDevice
  /\ Known(d)
  /\ devices' = [c \in Devices |->
                   IF c \in Subtree(d) THEN [devices[c] EXCEPT !.state = "revoked"]
                   ELSE devices[c]]
  /\ services' = [s \in Services |->
                    IF Serves(s) /\ services[s].issuer \in Subtree(d)
                    THEN [services[s] EXCEPT !.state = "revoked"] ELSE services[s]]
  /\ pairings' = [p \in Pairings |->
                    IF pairings[p].state = "approved"
                         /\ pairings[p].approver \in Subtree(d)
                    THEN [pairings[p] EXCEPT !.state = "gone"] ELSE SweptPairings[p]]
  /\ receipts' = SweptReceipts
  /\ UNCHANGED <<claimed, inflight, now, minted, consumed>>

\* DELETE /devices
RevokeAll ==
  /\ AnyDevice
  /\ devices' = [d \in Devices |->
                   IF Active(d) THEN [devices[d] EXCEPT !.state = "revoked"]
                   ELSE devices[d]]
  /\ services' = [s \in Services |->
                    IF Serves(s) THEN [services[s] EXCEPT !.state = "revoked"]
                    ELSE services[s]]
  /\ pairings' = [p \in Pairings |->
                    IF Pending(p) THEN [pairings[p] EXCEPT !.state = "gone"]
                    ELSE pairings[p]]
  /\ receipts' = [p \in Pairings |-> Null]
  /\ UNCHANGED <<claimed, inflight, now, minted, consumed>>

-----------------------------------------------------------------------------

\* The cleanup timer, a refused request, one that only reads, and a consume
\* that is repeated.
Sweep ==
  /\ SweepPairings
  /\ UNCHANGED <<claimed, devices, services, inflight, now, minted, consumed>>

\* Handlers in flight are lost; the next process sweeps as it starts.
Restart ==
  /\ inflight' = {}
  /\ SweepPairings
  /\ UNCHANGED <<claimed, devices, services, now, minted, consumed>>

Tick ==
  /\ now < MaxTime
  /\ now' = now + 1
  /\ UNCHANGED <<claimed, devices, services, pairings, receipts, inflight, minted,
                 consumed>>

Init ==
  /\ claimed = FALSE
  /\ devices = [d \in Devices |-> [state |-> "none", token |-> Null, approver |-> Null]]
  /\ services = [s \in Services |-> [state |-> "none", token |-> Null, issuer |-> Null]]
  /\ pairings = [p \in Pairings |-> [state |-> "none", device |-> Null, token |-> Null,
                                     approver |-> Null, expires |-> 0]]
  /\ receipts = [p \in Pairings |-> Null]
  /\ inflight = {}
  /\ now = 0
  /\ minted = {}
  /\ consumed = {}

Next ==
  \/ \E d \in Devices, t \in Tokens : Claim(d, t) \/ Reclaim(d, t)
  \/ \E p \in Pairings, d \in Devices, t \in Tokens : RequestPairing(p, d, t)
  \/ \E p \in Pairings : CancelPairing(p) \/ Consume(p)
  \/ \E h \in Handler : Begin(h)
  \/ \E h \in inflight : Approve(h) \/ Refuse(h)
  \/ \E h \in inflight, s \in Services, t \in Tokens : IssueService(h, s, t)
  \/ \E s \in Services : RevokeService(s)
  \/ \E d \in Devices : RevokeDevice(d)
  \/ RevokeAll \/ Sweep \/ Restart \/ Tick

Spec == Init /\ [][Next]_vars

-----------------------------------------------------------------------------
(* Safety *)

\* What depends on a device is in use only while that device is: a device on
\* its approver, and so on its whole ancestry, a service on its issuer and an
\* approved pairing on its approver; also when the approval or the issue was
\* under way as the device was revoked, and after a reclaim
\* (index.mjs:1179, 1451, THREAT_MODEL.md:110).
LineageHolds ==
  /\ \A d \in Devices :
       Active(d) /\ devices[d].approver # Null => Active(devices[d].approver)
  /\ \A s \in Services : Serves(s) => Active(services[s].issuer)
  /\ \A p \in Pairings :
       pairings[p].state = "approved" => Active(pairings[p].approver)

\* A pending pairing is the only claim to its device id: no device, active or
\* revoked, has it and no other pending request; so consuming a pairing can
\* never take a device over (index.mjs:488, 547, THREAT_MODEL.md:178).
IdsReserved ==
  \A p \in Pairings : Pending(p) =>
    /\ ~Known(pairings[p].device)
    /\ \A q \in Pairings :
         Pending(q) /\ pairings[q].device = pairings[p].device => p = q

\* One token authenticates one credential, over devices, services and the
\* credentials pending requests bring along, revoked ones included
\* (index.mjs:323, 554).
TokensUnique ==
  LET Rows == [table : {"device"}, id : KnownDevices]
                \cup [table : {"service"}, id : IssuedServices]
                \cup [table : {"pairing"}, id : {p \in Pairings : Pending(p)}]
      TokenOf(r) == CASE r.table = "device"  -> devices[r.id].token
                      [] r.table = "service" -> services[r.id].token
                      [] r.table = "pairing" -> pairings[r.id].token
  IN  \A x, y \in Rows : TokenOf(x) = TokenOf(y) => x = y

\* The tables keep to their limits though room is looked for when a pairing is
\* requested and a device inserted when it is consumed (index.mjs:558, 690).
CountsHold ==
  /\ Cardinality(KnownDevices) <= MaxDevices
  /\ Cardinality(IssuedServices) <= MaxServices
  /\ Cardinality({p \in Pairings : Pending(p)}) <= MaxPending

\* A device whose answer to consume was lost can repeat it for ReceiptTtl, as
\* long as it is active under the token it paired with: the receipt survives
\* sweeps, restarts and the revocation of others (index.mjs:628).
ConsumeIsRepeatable ==
  \A c \in consumed :
    /\ now < c.until
    /\ Active(c.device) /\ devices[c.device].token = c.token
    => /\ receipts[c.pairing] # Null
       /\ receipts[c.pairing].device = c.device
       /\ receipts[c.pairing].token = c.token
       /\ receipts[c.pairing].expires > now

\* Once every device is revoked only the operator's recovery lets one in:
\* nothing that was under way then, an approval, an issue or a consume, gives
\* access to anyone (THREAT_MODEL.md:119).
OnlyRecoveryReopens ==
  [][claimed /\ (\A d \in Devices : ~Active(d)) =>
       /\ \A s \in Services : ~Serves(s)'
       /\ \A p \in Pairings : pairings'[p].state # "approved"
       /\ \A d \in Devices : Active(d)' =>
            devices'[d].approver = Null /\ devices'[d].token \notin minted]_vars
=============================================================================
