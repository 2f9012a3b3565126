---------------------------- MODULE AccessProofs ----------------------------
(* What Access keeps true for any number of devices, tokens and pairings. *)
EXTENDS Access, FiniteSetTheorems, TLAPS

\* The columns a row in use cannot lack.
RowsComplete ==
  /\ \A p \in Pairings : Pending(p) =>
       pairings[p].device \in Devices /\ pairings[p].token \in Tokens
  /\ \A p \in Pairings :
       pairings[p].state = "approved" => pairings[p].approver \in Devices
  /\ \A s \in Services : Serves(s) => services[s].issuer \in Devices

Typed == AccessTypeOK /\ RowsComplete

\* A sweep takes pending pairings away and leaves the others as they are.
LEMMA Sweeping ==
  ASSUME AccessTypeOK
  PROVE  /\ SweptPairings \in [Pairings -> Pairing]
         /\ SweptReceipts \in [Pairings -> Receipt \cup {Null}]
         /\ \A p \in Pairings :
              \/ SweptPairings[p] = pairings[p] /\ ~Expired(p)
              \/ SweptPairings[p].state = "gone"
         /\ \A p \in Waiting : SweptPairings[p] = pairings[p]
<1>1. ASSUME NEW p \in Pairings
      PROVE  /\ pairings[p] \in Pairing
             /\ [pairings[p] EXCEPT !.state = "gone"] \in Pairing
             /\ [pairings[p] EXCEPT !.state = "gone"].state = "gone"
  BY DEF AccessTypeOK, Pairing
<1>2. SweptPairings \in [Pairings -> Pairing]
  BY <1>1 DEF SweptPairings
<1>3. SweptReceipts \in [Pairings -> Receipt \cup {Null}]
  BY DEF SweptReceipts, AccessTypeOK
<1>4. \A p \in Pairings :
        \/ SweptPairings[p] = pairings[p] /\ ~Expired(p)
        \/ SweptPairings[p].state = "gone"
  BY <1>1 DEF SweptPairings
<1>5. \A p \in Waiting : SweptPairings[p] = pairings[p]
  BY DEF SweptPairings, Waiting
<1> QED
  BY <1>2, <1>3, <1>4, <1>5

-----------------------------------------------------------------------------
(* Types *)

LEMMA TypedInit == Init => Typed
<1> SUFFICES ASSUME Init PROVE Typed
  OBVIOUS
<1>1. devices \in [Devices -> Device]
  BY DEF Init, Device
<1>2. services \in [Services -> Service]
  BY DEF Init, Service
<1>3. pairings \in [Pairings -> Pairing]
  BY DEF Init, Pairing
<1>4. RowsComplete
  BY DEF Init, RowsComplete, Pending, Serves
<1> QED
  BY <1>1, <1>2, <1>3, <1>4 DEF Init, Typed, AccessTypeOK

\* A new row of the table of devices is a device.
LEMMA AdmitTyped ==
  ASSUME AccessTypeOK, NEW d \in Devices, NEW t \in Tokens,
         NEW a \in Devices \cup {Null}, Admit(d, t, a)
  PROVE  devices' \in [Devices -> Device]
  BY DEF Admit, AccessTypeOK, Device

\* Pairings that are only taken away keep the rows in use complete.
LEMMA ShrinkingPairings ==
  ASSUME Typed, services' = services,
         \A p \in Pairings : pairings'[p] = pairings[p] \/ pairings'[p].state = "gone"
  PROVE  RowsComplete'
  BY DEF Typed, RowsComplete, Pending, Serves

LEMMA TypedStep == Typed /\ [Next]_vars => Typed'
<1> SUFFICES ASSUME Typed, [Next]_vars PROVE Typed'
  OBVIOUS
<1> USE DEF Typed
<1>s. /\ SweptPairings \in [Pairings -> Pairing]
      /\ SweptReceipts \in [Pairings -> Receipt \cup {Null}]
      /\ \A p \in Pairings :
           SweptPairings[p] = pairings[p] \/ SweptPairings[p].state = "gone"
      /\ \A p \in Waiting : SweptPairings[p] = pairings[p]
  BY Sweeping
<1>w. ASSUME SweepPairings, services' = services PROVE RowsComplete'
  BY <1>s, <1>w, ShrinkingPairings DEF SweepPairings
<1>1. ASSUME NEW d \in Devices, NEW t \in Tokens, Claim(d, t)
      PROVE  Typed'
  <2>1. devices' \in [Devices -> Device]
    BY <1>1, AdmitTyped DEF Claim
  <2>2. RowsComplete'
    BY <1>1, <1>w DEF Claim
  <2> QED
    BY <1>1, <1>s, <2>1, <2>2 DEF Claim, Mint, SweepPairings, AccessTypeOK
<1>2. ASSUME NEW d \in Devices, NEW t \in Tokens, Reclaim(d, t)
      PROVE  Typed'
  <2>1. devices' \in [Devices -> Device]
    BY <1>2, AdmitTyped DEF Reclaim
  <2>2. RowsComplete'
    BY <1>2, <1>w DEF Reclaim
  <2> QED
    BY <1>2, <1>s, <2>1, <2>2 DEF Reclaim, Mint, SweepPairings, AccessTypeOK
<1>3. ASSUME NEW p \in Pairings, NEW d \in Devices, NEW t \in Tokens,
             RequestPairing(p, d, t)
      PROVE  Typed'
  <2> DEFINE row == [state |-> "open", device |-> d, token |-> t, approver |-> Null,
                     expires |-> now + PairingTtl]
  <2>1. row \in Pairing
    BY AccessAssumption DEF AccessTypeOK, Pairing
  <2>2. pairings' = [SweptPairings EXCEPT ![p] = row]
    BY <1>3 DEF RequestPairing
  <2>3. pairings' \in [Pairings -> Pairing]
    BY <1>s, <2>1, <2>2
  <2>4. ASSUME NEW q \in Pairings
        PROVE  \/ pairings'[q] = pairings[q]
               \/ pairings'[q].state = "gone"
               \/ q = p /\ pairings'[q] = row
    BY <1>s, <2>2
  <2>5. RowsComplete'
    BY <1>3, <2>4 DEF RequestPairing, RowsComplete, Pending, Serves
  <2> QED
    BY <1>3, <1>s, <2>3, <2>5 DEF RequestPairing, AccessTypeOK
<1>4. ASSUME NEW p \in Pairings, CancelPairing(p)
      PROVE  Typed'
  <2>1. pairings' = [SweptPairings EXCEPT ![p].state = "gone"]
    BY <1>4 DEF CancelPairing
  <2>2. pairings' \in [Pairings -> Pairing]
    BY <1>s, <2>1 DEF Pairing
  <2>3. \A q \in Pairings : pairings'[q] = pairings[q] \/ pairings'[q].state = "gone"
    BY <1>s, <2>1 DEF Pairing
  <2>4. RowsComplete'
    BY <1>4, <2>3, ShrinkingPairings DEF CancelPairing
  <2> QED
    BY <1>4, <1>s, <2>2, <2>4 DEF CancelPairing, AccessTypeOK
<1>5. ASSUME NEW p \in Pairings, Consume(p)
      PROVE  Typed'
  <2> DEFINE row == pairings[p]
  <2>1. row.device \in Devices /\ row.token \in Tokens /\ row.approver \in Devices
    BY <1>5 DEF Consume, CanConsume, Waiting, RowsComplete
  <2>2. devices' \in [Devices -> Device]
    BY <1>5, <2>1, AdmitTyped DEF Consume
  <2>3. ConsumeReceipt(p) \in Receipt
    BY <2>1, AccessAssumption DEF ConsumeReceipt, Receipt, AccessTypeOK
  <2>4. receipts' \in [Pairings -> Receipt \cup {Null}]
    BY <1>5, <1>s, <2>3 DEF Consume
  <2>5. pairings' = [SweptPairings EXCEPT ![p].state = "gone"]
    BY <1>5 DEF Consume
  <2>6. pairings' \in [Pairings -> Pairing]
    BY <1>s, <2>5 DEF Pairing
  <2>7. \A q \in Pairings : pairings'[q] = pairings[q] \/ pairings'[q].state = "gone"
    BY <1>s, <2>5 DEF Pairing
  <2>8. RowsComplete'
    BY <1>5, <2>7, ShrinkingPairings DEF Consume
  <2>9. [pairing |-> p, device |-> row.device, token |-> row.token,
         until |-> now + ReceiptTtl]
          \in [pairing : Pairings, device : Devices, token : Tokens, until : Nat]
    BY <2>1, AccessAssumption DEF AccessTypeOK
  <2> QED
    BY <1>5, <2>2, <2>4, <2>6, <2>8, <2>9 DEF Consume, AccessTypeOK
<1>6. ASSUME NEW h \in Handler, Begin(h)
      PROVE  Typed'
  <2>1. RowsComplete'
    BY <1>6, <1>w DEF Begin
  <2> QED
    BY <1>6, <1>s, <2>1 DEF Begin, SweepPairings, AccessTypeOK
<1>7. ASSUME NEW h \in inflight, Approve(h)
      PROVE  Typed'
  <2>1. h.id \in Pairings
    BY <1>7 DEF Approve, CanApprove, AccessTypeOK, Handler
  <2>2. PICK d \in Holder(h.token) :
          pairings' = [pairings EXCEPT ![h.id].state = "approved",
                                       ![h.id].approver = d]
    BY <1>7 DEF Approve
  <2>3. d \in Devices
    BY DEF Holder
  <2>4. pairings' \in [Pairings -> Pairing]
    BY <2>1, <2>2, <2>3 DEF AccessTypeOK, Pairing
  <2>5. /\ pairings'[h.id].device = pairings[h.id].device
        /\ pairings'[h.id].token = pairings[h.id].token
        /\ pairings'[h.id].approver = d
        /\ \A q \in Pairings \ {h.id} : pairings'[q] = pairings[q]
    BY <2>1, <2>2 DEF AccessTypeOK, Pairing
  <2>6. pairings[h.id].state = "open" /\ services' = services
    BY <1>7 DEF Approve, CanApprove
  <2>7. RowsComplete'
    BY <2>1, <2>3, <2>5, <2>6 DEF RowsComplete, Pending, Serves
  <2> QED
    BY <1>7, <2>4, <2>7 DEF Approve, Finish, AccessTypeOK
<1>8. ASSUME NEW h \in inflight, Refuse(h)
      PROVE  Typed'
  BY <1>8 DEF Refuse, Finish, AccessTypeOK, RowsComplete, Pending, Serves
<1>9. ASSUME NEW h \in inflight, NEW s \in Services, NEW t \in Tokens,
             IssueService(h, s, t)
      PROVE  Typed'
  <2>1. PICK d \in Devices :
          services' = [services EXCEPT ![s] =
                         [state |-> "active", token |-> t, issuer |-> d]]
    BY <1>9 DEF IssueService, Holder
  <2>2. services' \in [Services -> Service]
    BY <2>1 DEF AccessTypeOK, Service
  <2>3. RowsComplete'
    BY <1>9, <2>1 DEF IssueService, RowsComplete, Pending, Serves, AccessTypeOK
  <2> QED
    BY <1>9, <2>2, <2>3 DEF IssueService, Mint, Finish, AccessTypeOK
<1>10. ASSUME NEW s \in Services, RevokeService(s)
       PROVE  Typed'
  <2>1. services' \in [Services -> Service]
    BY <1>10 DEF RevokeService, AccessTypeOK, Service
  <2>2. \A r \in Services : r # s => services'[r] = services[r]
    BY <1>10 DEF RevokeService, AccessTypeOK
  <2>3. services'[s].state = "revoked"
    BY <1>10 DEF RevokeService, AccessTypeOK, Service
  <2>4. RowsComplete'
    BY <1>10, <1>s, <2>2, <2>3
       DEF RevokeService, SweepPairings, RowsComplete, Pending, Serves
  <2> QED
    BY <1>10, <1>s, <2>1, <2>4 DEF RevokeService, SweepPairings, AccessTypeOK
<1>11. ASSUME NEW d \in Devices, RevokeDevice(d)
       PROVE  Typed'
  <2>1. devices' \in [Devices -> Device]
    BY <1>11 DEF RevokeDevice, AccessTypeOK, Device
  <2>2. services' \in [Services -> Service]
    BY <1>11 DEF RevokeDevice, AccessTypeOK, Service
  <2>3. \A p \in Pairings : [pairings[p] EXCEPT !.state = "gone"] \in Pairing
    BY DEF AccessTypeOK, Pairing
  <2>4. pairings' \in [Pairings -> Pairing]
    BY <1>11, <1>s, <2>3 DEF RevokeDevice
  <2>5. \A p \in Pairings : pairings'[p] = pairings[p] \/ pairings'[p].state = "gone"
    BY <1>11, <1>s DEF RevokeDevice, AccessTypeOK, Pairing
  <2>6. \A s \in Services : services'[s] = services[s] \/ services'[s].state = "revoked"
    BY <1>11 DEF RevokeDevice, AccessTypeOK, Service
  <2>7. RowsComplete'
    BY <2>5, <2>6 DEF RowsComplete, Pending, Serves
  <2> QED
    BY <1>11, <1>s, <2>1, <2>2, <2>4, <2>7 DEF RevokeDevice, AccessTypeOK
<1>12. ASSUME RevokeAll
       PROVE  Typed'
  <2>1. devices' \in [Devices -> Device]
    BY <1>12 DEF RevokeAll, AccessTypeOK, Device
  <2>2. services' \in [Services -> Service]
    BY <1>12 DEF RevokeAll, AccessTypeOK, Service
  <2>3. pairings' \in [Pairings -> Pairing]
    BY <1>12 DEF RevokeAll, AccessTypeOK, Pairing
  <2>4. \A p \in Pairings : pairings'[p] = pairings[p] \/ pairings'[p].state = "gone"
    BY <1>12 DEF RevokeAll, AccessTypeOK, Pairing
  <2>5. \A s \in Services : services'[s] = services[s] \/ services'[s].state = "revoked"
    BY <1>12 DEF RevokeAll, AccessTypeOK, Service
  <2>6. RowsComplete'
    BY <2>4, <2>5 DEF RowsComplete, Pending, Serves
  <2> QED
    BY <1>12, <2>1, <2>2, <2>3, <2>6 DEF RevokeAll, AccessTypeOK
<1>13. ASSUME Sweep \/ Restart
       PROVE  Typed'
  <2>1. RowsComplete'
    BY <1>13, <1>w DEF Sweep, Restart
  <2> QED
    BY <1>13, <1>s, <2>1 DEF Sweep, Restart, SweepPairings, AccessTypeOK
<1>14. ASSUME Tick
       PROVE  Typed'
  BY <1>14 DEF Tick, AccessTypeOK, RowsComplete, Pending, Serves
<1>15. ASSUME UNCHANGED vars
       PROVE  Typed'
  BY <1>15 DEF vars, AccessTypeOK, RowsComplete, Pending, Serves
<1> QED
  BY <1>1, <1>2, <1>3, <1>4, <1>5, <1>6, <1>7, <1>8, <1>9, <1>10, <1>11, <1>12,
     <1>13, <1>14, <1>15 DEF Next

\* Every row of the registries has its columns, whatever requests arrive.
THEOREM AccessTypes == Spec => []AccessTypeOK
<1>1. Init => Typed
  BY TypedInit
<1>2. Typed /\ [Next]_vars => Typed'
  BY TypedStep
<1>3. Typed => AccessTypeOK
  BY DEF Typed
<1> QED
  BY <1>1, <1>2, <1>3, PTL DEF Spec

-----------------------------------------------------------------------------
(* Lineage *)

\* A device comes in under an active approver or none.
LEMMA AdmitKeepsLineage ==
  ASSUME Typed, LineageHolds,
         NEW d \in Devices, NEW t \in Tokens, NEW a \in Devices \cup {Null},
         Admit(d, t, a), a # Null => Active(a),
         services' = services,
         \A p \in Pairings :
           pairings'[p].state = "approved" => pairings'[p] = pairings[p]
  PROVE  LineageHolds'
<1>1. /\ devices'[d].state = "active" /\ devices'[d].approver = a
      /\ \A c \in Devices \ {d} : devices'[c] = devices[c]
  BY DEF Admit, Typed, AccessTypeOK
<1>2. \A c \in Devices : Active(c) => Active(c)'
  BY <1>1 DEF Active
<1>3. \A c \in Devices : devices[c].approver \in Devices \cup {Null}
  BY DEF Typed, AccessTypeOK, Device
<1>4. ASSUME NEW c \in Devices, Active(c)', devices'[c].approver # Null
      PROVE  Active(devices[c].approver)'
  <2>1. CASE c = d
    BY <1>1, <1>2, <1>4, <2>1 DEF Active
  <2>2. CASE c # d
    BY <1>1, <1>2, <1>3, <1>4, <2>2 DEF LineageHolds, Active
  <2> QED
    BY <2>1, <2>2
<1>5. \A s \in Services : Serves(s)' => Active(services[s].issuer)'
  BY <1>2 DEF LineageHolds, Serves, Typed, RowsComplete, Active
<1>6. \A p \in Pairings :
        pairings'[p].state = "approved" => Active(pairings[p].approver)'
  BY <1>2 DEF LineageHolds, Typed, RowsComplete, Active
<1> QED
  BY <1>4, <1>5, <1>6 DEF LineageHolds, Active, Serves

\* Nothing new depends on a device.
LEMMA StillKeepsLineage ==
  ASSUME LineageHolds,
         devices' = devices,
         \A s \in Services :
           services'[s].state = "active" => services'[s] = services[s],
         \A p \in Pairings :
           pairings'[p].state = "approved" => pairings'[p] = pairings[p]
  PROVE  LineageHolds'
  BY DEF LineageHolds, Active, Serves

\* Whom a member of a subtree approved is in the subtree.
LEMMA SubtreeIsClosed ==
  ASSUME NEW d \in Devices, NEW c \in Devices, Known(c),
         devices[c].approver \in Subtree(d)
  PROVE  c \in Subtree(d)
<1>1. ASSUME NEW S \in SUBSET Devices, d \in S, ClosedUnderApproval(S)
      PROVE  c \in S
  BY <1>1 DEF Subtree, ClosedUnderApproval
<1>2. Known(d)
  BY DEF Subtree
<1> QED
  BY <1>1, <1>2 DEF Subtree

LEMMA RevokeDeviceKeepsLineage ==
  ASSUME Typed, LineageHolds, NEW d \in Devices, RevokeDevice(d)
  PROVE  LineageHolds'
<1>1. \A c \in Devices :
        IF c \in Subtree(d) THEN devices'[c].state = "revoked"
                            ELSE devices'[c] = devices[c]
  BY DEF RevokeDevice, Typed, AccessTypeOK, Device
<1>2. \A s \in Services : services'[s].state = "active" =>
        services'[s] = services[s] /\ services[s].issuer \notin Subtree(d)
  BY DEF RevokeDevice, Typed, AccessTypeOK, Service, Serves
<1>3. \A p \in Pairings : pairings'[p].state = "approved" =>
        pairings'[p] = pairings[p] /\ pairings[p].approver \notin Subtree(d)
  <2>1. \A p \in Pairings :
          \/ SweptPairings[p] = pairings[p]
          \/ SweptPairings[p].state = "gone"
    BY Sweeping DEF Typed
  <2> QED
    BY <2>1 DEF RevokeDevice, Typed, AccessTypeOK, Pairing
<1>4. ASSUME NEW c \in Devices, Active(c)', devices'[c].approver # Null
      PROVE  Active(devices[c].approver)'
  <2>1. c \notin Subtree(d) /\ devices'[c] = devices[c]
    BY <1>1, <1>4 DEF Active
  <2>2. Active(c) /\ Known(c)
    BY <1>4, <2>1 DEF Active, Known
  <2>3. devices[c].approver \in Devices
    BY <1>4, <2>1 DEF Typed, AccessTypeOK, Device
  <2>4. Active(devices[c].approver)
    BY <1>4, <2>1, <2>2 DEF LineageHolds
  <2>5. devices[c].approver \notin Subtree(d)
    BY <2>1, <2>2, SubtreeIsClosed
  <2> QED
    BY <1>1, <2>1, <2>3, <2>4, <2>5 DEF Active
<1>5. ASSUME NEW s \in Services, Serves(s)'
      PROVE  Active(services[s].issuer)'
  <2>1. services'[s] = services[s] /\ services[s].issuer \notin Subtree(d)
    BY <1>2, <1>5 DEF Serves
  <2>2. Active(services[s].issuer) /\ services[s].issuer \in Devices
    BY <1>5, <2>1 DEF LineageHolds, Serves, Typed, RowsComplete
  <2> QED
    BY <1>1, <2>1, <2>2 DEF Active
<1>6. ASSUME NEW p \in Pairings, pairings'[p].state = "approved"
      PROVE  Active(pairings[p].approver)'
  <2>1. pairings'[p] = pairings[p] /\ pairings[p].approver \notin Subtree(d)
    BY <1>3, <1>6
  <2>2. Active(pairings[p].approver) /\ pairings[p].approver \in Devices
    BY <1>6, <2>1 DEF LineageHolds, Typed, RowsComplete
  <2> QED
    BY <1>1, <2>1, <2>2 DEF Active
<1> QED
  BY <1>4, <1>5, <1>6 DEF LineageHolds, Active, Serves

LEMMA LineageStep == Typed /\ LineageHolds /\ [Next]_vars => LineageHolds'
<1> SUFFICES ASSUME Typed, LineageHolds, [Next]_vars PROVE LineageHolds'
  OBVIOUS
<1>s. \A p \in Pairings :
        SweptPairings[p] = pairings[p] \/ SweptPairings[p].state = "gone"
  BY Sweeping DEF Typed
<1>t. SweptPairings \in [Pairings -> Pairing]
  BY Sweeping DEF Typed
<1>w. ASSUME SweepPairings
      PROVE  \A p \in Pairings :
               pairings'[p].state = "approved" => pairings'[p] = pairings[p]
  BY <1>s, <1>w DEF SweepPairings
<1>1. ASSUME NEW d \in Devices, NEW t \in Tokens, Claim(d, t) \/ Reclaim(d, t)
      PROVE  LineageHolds'
  BY <1>1, <1>w, AdmitKeepsLineage DEF Claim, Reclaim
<1>2. ASSUME NEW p \in Pairings, NEW d \in Devices, NEW t \in Tokens,
             RequestPairing(p, d, t)
      PROVE  LineageHolds'
  <2>1. \A q \in Pairings :
          pairings'[q].state = "approved" => pairings'[q] = pairings[q]
    BY <1>2, <1>s, <1>t DEF RequestPairing
  <2> QED
    BY <1>2, <2>1, StillKeepsLineage DEF RequestPairing
<1>3. ASSUME NEW p \in Pairings, CancelPairing(p)
      PROVE  LineageHolds'
  <2>1. \A q \in Pairings :
          pairings'[q].state = "approved" => pairings'[q] = pairings[q]
    BY <1>3, <1>s, <1>t DEF CancelPairing, Pairing
  <2> QED
    BY <1>3, <2>1, StillKeepsLineage DEF CancelPairing
<1>4. ASSUME NEW p \in Pairings, Consume(p)
      PROVE  LineageHolds'
  <2>1. \A q \in Pairings :
          pairings'[q].state = "approved" => pairings'[q] = pairings[q]
    BY <1>4, <1>s, <1>t DEF Consume, Pairing
  <2>2. /\ pairings[p].device \in Devices /\ pairings[p].token \in Tokens
        /\ pairings[p].approver \in Devices /\ Active(pairings[p].approver)
    BY <1>4 DEF Consume, CanConsume, Waiting, Typed, RowsComplete
  <2> QED
    BY <1>4, <2>1, <2>2, AdmitKeepsLineage DEF Consume
<1>5. ASSUME NEW h \in Handler, Begin(h)
      PROVE  LineageHolds'
  BY <1>5, <1>w, StillKeepsLineage DEF Begin
<1>6. ASSUME NEW h \in inflight, Approve(h)
      PROVE  LineageHolds'
  <2>1. h.id \in Pairings
    BY <1>6 DEF Approve, CanApprove, Typed, AccessTypeOK, Handler
  <2>2. PICK d \in Holder(h.token) :
          pairings' = [pairings EXCEPT ![h.id].state = "approved",
                                       ![h.id].approver = d]
    BY <1>6 DEF Approve
  <2>3. /\ pairings'[h.id].approver = d
        /\ \A q \in Pairings \ {h.id} : pairings'[q] = pairings[q]
    BY <2>1, <2>2 DEF Typed, AccessTypeOK, Pairing
  <2>4. devices' = devices /\ services' = services
    BY <1>6 DEF Approve
  <2>5. Active(d)
    BY DEF Holder
  <2> QED
    BY <2>3, <2>4, <2>5 DEF LineageHolds, Active, Serves
<1>7. ASSUME NEW h \in inflight, Refuse(h)
      PROVE  LineageHolds'
  BY <1>7, StillKeepsLineage DEF Refuse
<1>8. ASSUME NEW h \in inflight, NEW s \in Services, NEW t \in Tokens,
             IssueService(h, s, t)
      PROVE  LineageHolds'
  <2>1. PICK d \in Holder(h.token) :
          services' = [services EXCEPT ![s] =
                         [state |-> "active", token |-> t, issuer |-> d]]
    BY <1>8 DEF IssueService
  <2>2. /\ services'[s].issuer = d
        /\ \A r \in Services \ {s} : services'[r] = services[r]
    BY <2>1 DEF Typed, AccessTypeOK
  <2>3. devices' = devices /\ pairings' = pairings
    BY <1>8 DEF IssueService
  <2>4. Active(d)
    BY DEF Holder
  <2> QED
    BY <2>2, <2>3, <2>4 DEF LineageHolds, Active, Serves
<1>9. ASSUME NEW s \in Services, RevokeService(s)
      PROVE  LineageHolds'
  <2>1. \A r \in Services :
          services'[r].state = "active" => services'[r] = services[r]
    BY <1>9 DEF RevokeService, Typed, AccessTypeOK, Service
  <2> QED
    BY <1>9, <1>w, <2>1, StillKeepsLineage DEF RevokeService
<1>10. ASSUME NEW d \in Devices, RevokeDevice(d)
       PROVE  LineageHolds'
  BY <1>10, RevokeDeviceKeepsLineage
<1>11. ASSUME RevokeAll
       PROVE  LineageHolds'
  BY <1>11 DEF RevokeAll, LineageHolds, Active, Serves, Pending, Typed, AccessTypeOK,
               Device, Service, Pairing
<1>12. ASSUME Sweep \/ Restart
       PROVE  LineageHolds'
  BY <1>12, <1>w, StillKeepsLineage DEF Sweep, Restart
<1>13. ASSUME Tick \/ UNCHANGED vars
       PROVE  LineageHolds'
  BY <1>13, StillKeepsLineage DEF Tick, vars
<1> QED
  BY <1>1, <1>2, <1>3, <1>4, <1>5, <1>6, <1>7, <1>8, <1>9, <1>10, <1>11, <1>12,
     <1>13 DEF Next

\* A revoked device takes everything with it that it let in, however deep, and
\* nothing under way can escape that.
THEOREM LineageIsKept == Spec => []LineageHolds
<1>1. Init => Typed /\ LineageHolds
  BY TypedInit DEF Init, LineageHolds, Active, Serves
<1>2. Typed /\ LineageHolds /\ [Next]_vars => (Typed /\ LineageHolds)'
  BY TypedStep, LineageStep
<1> QED
  BY <1>1, <1>2, PTL DEF Spec

-----------------------------------------------------------------------------
(* Device ids *)

\* Pending requests that were there before keep their claim to devices that
\* were not there before.
LEMMA FewerPending ==
  ASSUME IdsReserved,
         \A p \in Pairings : Pending(p)' => Pending(p) /\ pairings'[p] = pairings[p],
         \A p \in Pairings :
           Pending(p)' => ~(devices'[pairings[p].device].state # "none")
  PROVE  IdsReserved'
  BY DEF IdsReserved, Known

LEMMA IdsStep == Typed /\ IdsReserved /\ [Next]_vars => IdsReserved'
<1> SUFFICES ASSUME Typed, IdsReserved, [Next]_vars PROVE IdsReserved'
  OBVIOUS
<1>s. /\ SweptPairings \in [Pairings -> Pairing]
      /\ \A p \in Pairings :
           \/ SweptPairings[p] = pairings[p] /\ ~Expired(p)
           \/ SweptPairings[p].state = "gone"
  BY Sweeping DEF Typed
<1>d. \A p \in Pairings : Pending(p) =>
        pairings[p].device \in Devices /\ devices[pairings[p].device].state = "none"
  BY DEF Typed, RowsComplete, IdsReserved, Known
<1>w. ASSUME SweepPairings, NEW p \in Pairings, Pending(p)'
      PROVE  pairings'[p] = pairings[p] /\ p \in Waiting
  BY <1>s, <1>w DEF SweepPairings, Pending, Waiting
<1>1. ASSUME NEW d \in Devices, NEW t \in Tokens, Claim(d, t) \/ Reclaim(d, t)
      PROVE  IdsReserved'
  <2>1. SweepPairings /\ ~Reserved(d) /\ Admit(d, t, Null)
    BY <1>1 DEF Claim, Reclaim
  <2>2. \A c \in Devices \ {d} : devices'[c] = devices[c]
    BY <2>1 DEF Admit, Typed, AccessTypeOK
  <2>3. ASSUME NEW p \in Pairings, Pending(p)'
        PROVE  /\ Pending(p) /\ pairings'[p] = pairings[p]
               /\ devices'[pairings[p].device].state = "none"
    <3>1. pairings'[p] = pairings[p] /\ p \in Waiting
      BY <1>w, <2>1, <2>3
    <3>2. pairings[p].device # d
      BY <2>1, <3>1 DEF Reserved
    <3> QED
      BY <1>d, <2>2, <3>1, <3>2 DEF Waiting
  <2> QED
    BY <2>3, FewerPending
<1>2. ASSUME NEW p \in Pairings, NEW d \in Devices, NEW t \in Tokens,
             RequestPairing(p, d, t)
      PROVE  IdsReserved'
  <2>1. /\ pairings'[p].device = d
        /\ \A q \in Pairings \ {p} : pairings'[q] = SweptPairings[q]
        /\ devices' = devices
        /\ ~Known(d) /\ ~Reserved(d)
    BY <1>2, <1>s DEF RequestPairing
  <2>2. ASSUME NEW q \in Pairings, q # p, Pending(q)'
        PROVE  Pending(q) /\ pairings'[q] = pairings[q] /\ pairings[q].device # d
    <3>1. pairings'[q] = pairings[q] /\ q \in Waiting
      BY <1>s, <2>1, <2>2 DEF Pending, Waiting
    <3> QED
      BY <2>1, <3>1 DEF Reserved, Waiting
  <2> QED
    BY <2>1, <2>2 DEF IdsReserved, Known, Pending
<1>3. ASSUME NEW p \in Pairings, CancelPairing(p)
      PROVE  IdsReserved'
  <2>1. \A q \in Pairings : Pending(q)' => Pending(q) /\ pairings'[q] = pairings[q]
    BY <1>3, <1>s DEF CancelPairing, Pending, Pairing
  <2> QED
    BY <1>3, <1>d, <2>1, FewerPending DEF CancelPairing
<1>4. ASSUME NEW p \in Pairings, Consume(p)
      PROVE  IdsReserved'
  <2>1. \A q \in Pairings :
          Pending(q)' => Pending(q) /\ pairings'[q] = pairings[q] /\ q # p
    BY <1>4, <1>s DEF Consume, Pending, Pairing
  <2>2. Pending(p) /\ pairings[p].device \in Devices
    BY <1>4, <1>d DEF Consume, CanConsume, Waiting
  <2>3. \A c \in Devices \ {pairings[p].device} : devices'[c] = devices[c]
    BY <1>4 DEF Consume, Admit, Typed, AccessTypeOK
  <2>4. \A q \in Pairings : Pending(q)' => pairings[q].device # pairings[p].device
    BY <2>1, <2>2 DEF IdsReserved
  <2> QED
    BY <1>d, <2>1, <2>3, <2>4, FewerPending
<1>5. ASSUME NEW h \in inflight, Approve(h)
      PROVE  IdsReserved'
  <2>1. h.id \in Pairings /\ Pending(h.id) /\ devices' = devices
    BY <1>5 DEF Approve, CanApprove, Pending, Typed, AccessTypeOK, Handler
  <2>2. /\ pairings'[h.id].device = pairings[h.id].device
        /\ \A q \in Pairings \ {h.id} : pairings'[q] = pairings[q]
    BY <1>5, <2>1 DEF Approve, Typed, AccessTypeOK, Pairing
  <2> QED
    BY <2>1, <2>2 DEF IdsReserved, Known, Pending
<1>6. ASSUME NEW d \in Devices, RevokeDevice(d)
      PROVE  IdsReserved'
  <2>1. \A q \in Pairings : Pending(q)' => Pending(q) /\ pairings'[q] = pairings[q]
    BY <1>6, <1>s DEF RevokeDevice, Pending, Typed, AccessTypeOK, Pairing
  <2>2. \A c \in Devices : devices[c].state = "none" => devices'[c].state = "none"
    <3>1. \A c \in Subtree(d) : devices[c].state # "none"
      <4> DEFINE S == {c \in Devices : devices[c].state # "none"}
      <4>1. d \in S /\ ClosedUnderApproval(S)
        BY <1>6 DEF RevokeDevice, ClosedUnderApproval, Known
      <4> QED
        BY <4>1 DEF Subtree
    <3> QED
      BY <1>6, <3>1 DEF RevokeDevice
  <2> QED
    BY <1>d, <2>1, <2>2, FewerPending
<1>7. ASSUME RevokeAll
      PROVE  IdsReserved'
  BY <1>7 DEF RevokeAll, IdsReserved, Pending, Typed, AccessTypeOK, Pairing
<1>8. ASSUME SweepPairings, devices' = devices
      PROVE  IdsReserved'
  BY <1>8, <1>d, <1>w, FewerPending DEF Waiting
<1>9. ASSUME pairings' = pairings, devices' = devices
      PROVE  IdsReserved'
  BY <1>9 DEF IdsReserved, Pending, Known
<1>10. ASSUME \/ \E h \in Handler : Begin(h)
              \/ \E s \in Services : RevokeService(s)
              \/ Sweep \/ Restart
       PROVE  IdsReserved'
  BY <1>8, <1>10 DEF Begin, RevokeService, Sweep, Restart
<1>11. ASSUME \/ \E h \in inflight : Refuse(h)
              \/ \E h \in inflight, s \in Services, t \in Tokens :
                   IssueService(h, s, t)
              \/ Tick \/ UNCHANGED vars
       PROVE  IdsReserved'
  BY <1>9, <1>11 DEF Refuse, IssueService, Tick, vars
<1> QED
  BY <1>1, <1>2, <1>3, <1>4, <1>5, <1>6, <1>7, <1>10, <1>11 DEF Next

\* However pairings, recoveries and revocations interleave, a pending pairing
\* never names a device that exists, nor one another pending pairing names.
THEOREM IdsAreReserved == Spec => []IdsReserved
<1>1. Init => Typed /\ IdsReserved
  BY TypedInit DEF Init, IdsReserved, Pending
<1>2. Typed /\ IdsReserved /\ [Next]_vars => (Typed /\ IdsReserved)'
  BY TypedStep, IdsStep
<1> QED
  BY <1>1, <1>2, PTL DEF Spec

-----------------------------------------------------------------------------
(* What one step may do to a row *)

\* A revocation takes rows away and changes no token.
LEMMA Revocations ==
  ASSUME Typed, (\E d \in Devices : RevokeDevice(d)) \/ RevokeAll
  PROVE  /\ \A d \in Devices :
              \/ devices'[d] = devices[d]
              \/ /\ Known(d) /\ devices'[d].state = "revoked"
                 /\ devices'[d].token = devices[d].token
         /\ \A s \in Services :
              \/ services'[s] = services[s]
              \/ /\ Serves(s) /\ services'[s].state = "revoked"
                 /\ services'[s].token = services[s].token
         /\ \A p \in Pairings :
              pairings'[p] = pairings[p] \/ pairings'[p].state = "gone"
<1>t. /\ devices \in [Devices -> Device]
      /\ services \in [Services -> Service]
      /\ pairings \in [Pairings -> Pairing]
  BY DEF Typed, AccessTypeOK
<1>s. \A p \in Pairings :
        SweptPairings[p] = pairings[p] \/ SweptPairings[p].state = "gone"
  BY Sweeping DEF Typed
<1>1. ASSUME NEW c \in Devices, RevokeDevice(c), NEW d \in Devices
      PROVE  \/ devices'[d] = devices[d]
             \/ /\ Known(d) /\ devices'[d].state = "revoked"
                /\ devices'[d].token = devices[d].token
  <2>1. CASE d \in Subtree(c)
    <3> DEFINE S == {e \in Devices : Known(e)}
    <3>1. c \in S /\ ClosedUnderApproval(S)
      BY <1>1 DEF RevokeDevice, ClosedUnderApproval
    <3>2. Known(d)
      BY <2>1, <3>1 DEF Subtree
    <3> QED
      BY <1>t, <1>1, <2>1, <3>2 DEF RevokeDevice, Device
  <2>2. CASE d \notin Subtree(c)
    BY <1>1, <2>2 DEF RevokeDevice
  <2> QED
    BY <2>1, <2>2
<1>2. ASSUME NEW c \in Devices, RevokeDevice(c)
      PROVE  /\ \A s \in Services :
                  \/ services'[s] = services[s]
                  \/ /\ Serves(s) /\ services'[s].state = "revoked"
                     /\ services'[s].token = services[s].token
             /\ \A p \in Pairings :
                  pairings'[p] = pairings[p] \/ pairings'[p].state = "gone"
  BY <1>t, <1>s, <1>2 DEF RevokeDevice, Service, Pairing
<1>3. CASE RevokeAll
  BY <1>t, <1>3 DEF RevokeAll, Active, Serves, Known, Device, Service, Pairing
<1> QED
  BY <1>1, <1>2, <1>3

\* A row of the devices is kept or revoked, but for the device let in.
LEMMA DeviceSteps ==
  ASSUME Typed, [Next]_vars, NEW d \in Devices
  PROVE  \/ devices'[d] = devices[d]
         \/ /\ Known(d) /\ devices'[d].state = "revoked"
            /\ devices'[d].token = devices[d].token
         \/ \E t \in Tokens : Claim(d, t) \/ Reclaim(d, t)
         \/ \E p \in Pairings : Consume(p) /\ d = pairings[p].device
<1> DEFINE Goal == \/ devices'[d] = devices[d]
                   \/ /\ Known(d) /\ devices'[d].state = "revoked"
                      /\ devices'[d].token = devices[d].token
                   \/ \E t \in Tokens : Claim(d, t) \/ Reclaim(d, t)
                   \/ \E p \in Pairings : Consume(p) /\ d = pairings[p].device
<1>t. devices \in [Devices -> Device]
  BY DEF Typed, AccessTypeOK
<1>1. ASSUME NEW c \in Devices, NEW t \in Tokens, Claim(c, t) \/ Reclaim(c, t)
      PROVE  Goal
  BY <1>t, <1>1 DEF Claim, Reclaim, Admit
<1>2. ASSUME NEW p \in Pairings, Consume(p)
      PROVE  Goal
  BY <1>t, <1>2 DEF Consume, Admit
<1>3. ASSUME \/ \E c \in Devices : RevokeDevice(c)
             \/ RevokeAll
      PROVE  Goal
  BY <1>3, Revocations
<1>4. ASSUME devices' = devices
      PROVE  Goal
  BY <1>4
<1>5. ASSUME \/ \E p \in Pairings, c \in Devices, t \in Tokens : RequestPairing(p, c, t)
             \/ \E p \in Pairings : CancelPairing(p)
             \/ \E h \in Handler : Begin(h)
             \/ \E h \in inflight : Approve(h) \/ Refuse(h)
             \/ \E h \in inflight, s \in Services, t \in Tokens : IssueService(h, s, t)
             \/ \E s \in Services : RevokeService(s)
             \/ Sweep \/ Restart \/ Tick \/ UNCHANGED vars
      PROVE  devices' = devices
  BY <1>5 DEF RequestPairing, CancelPairing, Begin, Approve, Refuse, IssueService,
              RevokeService, Sweep, Restart, Tick, vars
<1> QED
  BY <1>1, <1>2, <1>3, <1>4, <1>5 DEF Next

\* A row of the service credentials is kept or revoked, but for the one issued.
LEMMA ServiceSteps ==
  ASSUME Typed, [Next]_vars, NEW s \in Services
  PROVE  \/ services'[s] = services[s]
         \/ /\ Serves(s) /\ services'[s].state = "revoked"
            /\ services'[s].token = services[s].token
         \/ \E h \in inflight, t \in Tokens : IssueService(h, s, t)
<1> DEFINE Goal == \/ services'[s] = services[s]
                   \/ /\ Serves(s) /\ services'[s].state = "revoked"
                      /\ services'[s].token = services[s].token
                   \/ \E h \in inflight, t \in Tokens : IssueService(h, s, t)
<1>t. services \in [Services -> Service]
  BY DEF Typed, AccessTypeOK
<1>1. ASSUME NEW h \in inflight, NEW r \in Services, NEW t \in Tokens,
             IssueService(h, r, t)
      PROVE  Goal
  BY <1>t, <1>1 DEF IssueService
<1>2. ASSUME NEW r \in Services, RevokeService(r)
      PROVE  Goal
  BY <1>t, <1>2 DEF RevokeService, Service
<1>3. ASSUME \/ \E d \in Devices : RevokeDevice(d)
             \/ RevokeAll
      PROVE  Goal
  BY <1>3, Revocations
<1>4. ASSUME \/ \E d \in Devices, t \in Tokens : Claim(d, t) \/ Reclaim(d, t)
             \/ \E p \in Pairings, c \in Devices, t \in Tokens : RequestPairing(p, c, t)
             \/ \E p \in Pairings : CancelPairing(p) \/ Consume(p)
             \/ \E h \in Handler : Begin(h)
             \/ \E h \in inflight : Approve(h) \/ Refuse(h)
             \/ Sweep \/ Restart \/ Tick \/ UNCHANGED vars
      PROVE  services' = services
  BY <1>4 DEF Claim, Reclaim, RequestPairing, CancelPairing, Consume, Begin, Approve,
              Refuse, Sweep, Restart, Tick, vars
<1> QED
  BY <1>1, <1>2, <1>3, <1>4 DEF Next

\* A row of the pairings is kept or taken away, but for the one requested or
\* approved; a row past its expiry is kept only while no request sweeps.
LEMMA PairingSteps ==
  ASSUME Typed, [Next]_vars, NEW p \in Pairings
  PROVE  \/ pairings'[p] = pairings[p]
         \/ pairings'[p].state = "gone"
         \/ \E d \in Devices, t \in Tokens : RequestPairing(p, d, t)
         \/ \E h \in inflight : Approve(h) /\ h.id = p
<1> DEFINE Goal == \/ pairings'[p] = pairings[p]
                   \/ pairings'[p].state = "gone"
                   \/ \E d \in Devices, t \in Tokens : RequestPairing(p, d, t)
                   \/ \E h \in inflight : Approve(h) /\ h.id = p
<1>t. pairings \in [Pairings -> Pairing]
  BY DEF Typed, AccessTypeOK
<1>s. /\ SweptPairings \in [Pairings -> Pairing]
      /\ SweptPairings[p] = pairings[p] \/ SweptPairings[p].state = "gone"
  BY Sweeping DEF Typed
<1>1. ASSUME NEW q \in Pairings, NEW d \in Devices, NEW t \in Tokens,
             RequestPairing(q, d, t)
      PROVE  Goal
  BY <1>s, <1>1 DEF RequestPairing
<1>2. ASSUME NEW q \in Pairings, CancelPairing(q) \/ Consume(q)
      PROVE  Goal
  <2>1. pairings' = [SweptPairings EXCEPT ![q].state = "gone"]
    BY <1>2 DEF CancelPairing, Consume
  <2> QED
    BY <1>s, <2>1 DEF Pairing
<1>3. ASSUME NEW h \in inflight, Approve(h)
      PROVE  Goal
  BY <1>t, <1>3 DEF Approve
<1>4. ASSUME \/ \E d \in Devices : RevokeDevice(d)
             \/ RevokeAll
      PROVE  Goal
  BY <1>4, Revocations
<1>5. ASSUME \/ \E d \in Devices, t \in Tokens : Claim(d, t) \/ Reclaim(d, t)
             \/ \E h \in Handler : Begin(h)
             \/ \E s \in Services : RevokeService(s)
             \/ Sweep \/ Restart
      PROVE  Goal
  BY <1>s, <1>5 DEF Claim, Reclaim, Begin, RevokeService, Sweep, Restart, SweepPairings
<1>6. ASSUME \/ \E h \in inflight : Refuse(h)
             \/ \E h \in inflight, s \in Services, t \in Tokens : IssueService(h, s, t)
             \/ Tick \/ UNCHANGED vars
      PROVE  Goal
  BY <1>6 DEF Refuse, IssueService, Tick, vars
<1> QED
  BY <1>1, <1>2, <1>3, <1>4, <1>5, <1>6 DEF Next

-----------------------------------------------------------------------------
(* Recovery *)

LEMMA RecoveryStep ==
  ASSUME Typed, LineageHolds, [Next]_vars, claimed, \A d \in Devices : ~Active(d)
  PROVE  /\ \A s \in Services : ~Serves(s)'
         /\ \A p \in Pairings : pairings'[p].state # "approved"
         /\ \A d \in Devices : Active(d)' =>
              devices'[d].approver = Null /\ devices'[d].token \notin minted
<1>1. /\ \A t : Holder(t) = {}
      /\ \A s \in Services : ~Serves(s)
      /\ \A p \in Pairings : pairings[p].state # "approved"
  BY DEF Holder, LineageHolds, Typed, RowsComplete
<1>2. ASSUME NEW s \in Services PROVE ~Serves(s)'
  BY <1>1, ServiceSteps DEF IssueService, Authenticated, Serves
<1>3. ASSUME NEW p \in Pairings PROVE pairings'[p].state # "approved"
  <2>1. ~ \E h \in inflight : Approve(h)
    BY <1>1 DEF Approve, Authenticated
  <2>2. ASSUME NEW d \in Devices, NEW t \in Tokens, RequestPairing(p, d, t)
        PROVE  pairings'[p].state = "open"
    <3>1. SweptPairings \in [Pairings -> Pairing]
      BY Sweeping DEF Typed
    <3> QED
      BY <2>2, <3>1 DEF RequestPairing
  <2> QED
    BY <1>1, <2>1, <2>2, PairingSteps
<1>4. ASSUME NEW d \in Devices, Active(d)'
      PROVE  devices'[d].approver = Null /\ devices'[d].token \notin minted
  <2>1. ~ \E p \in Pairings : Consume(p)
    BY <1>1 DEF Consume, CanConsume
  <2>2. PICK t \in Tokens : Reclaim(d, t)
    BY <1>4, <2>1, DeviceSteps DEF Claim, Active
  <2> QED
    BY <2>2 DEF Reclaim, Mint, Admit, Typed, AccessTypeOK
<1> QED
  BY <1>2, <1>3, <1>4

\* After every device is revoked, access comes back only through the operator's
\* recovery, with a new token; whatever was under way opens nothing.
THEOREM RecoveryAloneReopens == Spec => OnlyRecoveryReopens
<1> DEFINE A == claimed /\ (\A d \in Devices : ~Active(d)) =>
                  /\ \A s \in Services : ~Serves(s)'
                  /\ \A p \in Pairings : pairings'[p].state # "approved"
                  /\ \A d \in Devices : Active(d)' =>
                       devices'[d].approver = Null /\ devices'[d].token \notin minted
<1>1. Typed /\ LineageHolds /\ [Next]_vars => [A]_vars
  BY RecoveryStep
<1>2. Init => Typed /\ LineageHolds
  BY TypedInit DEF Init, LineageHolds, Active, Serves
<1>3. Typed /\ LineageHolds /\ [Next]_vars => (Typed /\ LineageHolds)'
  BY TypedStep, LineageStep
<1> QED
  BY <1>1, <1>2, <1>3, PTL DEF Spec, OnlyRecoveryReopens

-----------------------------------------------------------------------------
(* Tokens *)

\* The rows of the three tables, those in use, and the token each holds.
DeviceRow(d)  == [table |-> "device", id |-> d]
ServiceRow(s) == [table |-> "service", id |-> s]
PairingRow(p) == [table |-> "pairing", id |-> p]

Row == {DeviceRow(d) : d \in Devices} \cup {ServiceRow(s) : s \in Services}
         \cup {PairingRow(p) : p \in Pairings}

Uses(r, t) ==
  \/ \E d \in Devices : r = DeviceRow(d) /\ Known(d) /\ devices[d].token = t
  \/ \E s \in IssuedServices : r = ServiceRow(s) /\ services[s].token = t
  \/ \E p \in Pairings : r = PairingRow(p) /\ Pending(p) /\ pairings[p].token = t

\* Every token in use was drawn, and no two rows use one.
TokensApart ==
  \A x \in Row, t \in Tokens \cup {Null} : Uses(x, t) =>
    /\ t \in minted
    /\ \A y \in Row : Uses(y, t) => x = y

LEMMA RowsDiffer ==
  /\ \A c, d : DeviceRow(c) = DeviceRow(d) => c = d
  /\ \A c, d : ServiceRow(c) = ServiceRow(d) => c = d
  /\ \A c, d : PairingRow(c) = PairingRow(d) => c = d
  /\ \A c, d : /\ DeviceRow(c) # ServiceRow(d)
               /\ DeviceRow(c) # PairingRow(d)
               /\ ServiceRow(c) # PairingRow(d)
<1>1. \A c : /\ DeviceRow(c).id = c /\ DeviceRow(c).table = "device"
             /\ ServiceRow(c).id = c /\ ServiceRow(c).table = "service"
             /\ PairingRow(c).id = c /\ PairingRow(c).table = "pairing"
  BY DEF DeviceRow, ServiceRow, PairingRow
<1> QED
  BY <1>1

\* What each row uses.
LEMMA RowUses ==
  ASSUME NEW t
  PROVE  /\ \A d \in Devices :
              Uses(DeviceRow(d), t) <=> Known(d) /\ devices[d].token = t
         /\ \A s \in Services :
              Uses(ServiceRow(s), t) <=>
                services[s].state # "none" /\ services[s].token = t
         /\ \A p \in Pairings :
              Uses(PairingRow(p), t) <=> Pending(p) /\ pairings[p].token = t
  BY RowsDiffer DEF Uses, IssuedServices

LEMMA RowUsesLater ==
  ASSUME NEW t
  PROVE  /\ \A d \in Devices :
              Uses(DeviceRow(d), t)' <=> Known(d)' /\ devices'[d].token = t
         /\ \A s \in Services :
              Uses(ServiceRow(s), t)' <=>
                services'[s].state # "none" /\ services'[s].token = t
         /\ \A p \in Pairings :
              Uses(PairingRow(p), t)' <=> Pending(p)' /\ pairings'[p].token = t
  BY RowsDiffer DEF Uses, IssuedServices, DeviceRow, ServiceRow, PairingRow

LEMMA ApartIsUnique ==
  ASSUME Typed, TokensApart
  PROVE  TokensUnique
<1> DEFINE Rows == [table : {"device"}, id : KnownDevices]
                     \cup [table : {"service"}, id : IssuedServices]
                     \cup [table : {"pairing"}, id : {p \in Pairings : Pending(p)}]
           TokenOf(r) == CASE r.table = "device"  -> devices[r.id].token
                           [] r.table = "service" -> services[r.id].token
                           [] r.table = "pairing" -> pairings[r.id].token
<1>1. ASSUME NEW r \in Rows
      PROVE  /\ r \in Row /\ Uses(r, TokenOf(r))
             /\ TokenOf(r) \in Tokens \cup {Null}
  <2>1. CASE r \in [table : {"device"}, id : KnownDevices]
    <3>1. r = DeviceRow(r.id) /\ r.id \in KnownDevices /\ TokenOf(r) = devices[r.id].token
      BY <2>1 DEF DeviceRow
    <3> HIDE DEF TokenOf
    <3> QED
      BY <3>1, RowUses DEF KnownDevices, Row, Typed, AccessTypeOK, Device
  <2>2. CASE r \in [table : {"service"}, id : IssuedServices]
    <3>1. r = ServiceRow(r.id) /\ r.id \in IssuedServices
          /\ TokenOf(r) = services[r.id].token
      BY <2>2 DEF ServiceRow
    <3> HIDE DEF TokenOf
    <3> QED
      BY <3>1, RowUses DEF IssuedServices, Row, Typed, AccessTypeOK, Service
  <2>3. CASE r \in [table : {"pairing"}, id : {p \in Pairings : Pending(p)}]
    <3>1. r = PairingRow(r.id) /\ r.id \in Pairings /\ Pending(r.id)
          /\ TokenOf(r) = pairings[r.id].token
      BY <2>3 DEF PairingRow
    <3> HIDE DEF TokenOf
    <3> QED
      BY <3>1, RowUses DEF Row, Typed, AccessTypeOK, Pairing
  <2> QED
    BY <2>1, <2>2, <2>3
<1> HIDE DEF Rows, TokenOf
<1>2. \A x, y \in Rows : TokenOf(x) = TokenOf(y) => x = y
  BY <1>1 DEF TokensApart
<1> QED
  BY <1>2 DEF TokensUnique, Rows, TokenOf

\* The rows that used a token keep it or give it up, but for at most one row,
\* which takes a token none of the others has.
LEMMA OneRowChanges ==
  ASSUME TokensApart, minted \subseteq minted',
         NEW z,
         \A x \in Row, t \in Tokens \cup {Null} : x # z /\ Uses(x, t)' => Uses(x, t),
         \A t \in Tokens \cup {Null} : Uses(z, t)' =>
           t \in minted' /\ \A x \in Row : x # z => ~Uses(x, t)'
  PROVE  TokensApart'
  BY DEF TokensApart, Row, DeviceRow, ServiceRow, PairingRow

LEMMA NoRowChanges ==
  ASSUME TokensApart, minted \subseteq minted',
         \A x \in Row, t \in Tokens \cup {Null} : Uses(x, t)' => Uses(x, t)
  PROVE  TokensApart'
  BY DEF TokensApart, Row, DeviceRow, ServiceRow, PairingRow

\* Rows keep what they use when their table does.
LEMMA RowsKept ==
  ASSUME NEW z,
         \A d \in Devices : DeviceRow(d) # z /\ Known(d)' =>
           Known(d) /\ devices'[d].token = devices[d].token,
         \A s \in Services : ServiceRow(s) # z /\ services'[s].state # "none" =>
           services[s].state # "none" /\ services'[s].token = services[s].token,
         \A p \in Pairings : PairingRow(p) # z /\ Pending(p)' =>
           Pending(p) /\ pairings'[p].token = pairings[p].token
  PROVE  \A x \in Row, t \in Tokens \cup {Null} : x # z /\ Uses(x, t)' => Uses(x, t)
<1> SUFFICES ASSUME NEW x \in Row, NEW t \in Tokens \cup {Null}, x # z, Uses(x, t)'
             PROVE  Uses(x, t)
  OBVIOUS
<1>1. CASE \E d \in Devices : x = DeviceRow(d)
  BY <1>1, RowUses, RowUsesLater
<1>2. CASE \E s \in Services : x = ServiceRow(s)
  BY <1>2, RowUses, RowUsesLater
<1>3. CASE \E p \in Pairings : x = PairingRow(p)
  BY <1>3, RowUses, RowUsesLater
<1> QED
  BY <1>1, <1>2, <1>3 DEF Row

LEMMA TokensStep == Typed /\ TokensApart /\ [Next]_vars => TokensApart'
<1> SUFFICES ASSUME Typed, TokensApart, [Next]_vars PROVE TokensApart'
  OBVIOUS
<1>t. /\ devices \in [Devices -> Device]
      /\ services \in [Services -> Service]
      /\ pairings \in [Pairings -> Pairing]
  BY DEF Typed, AccessTypeOK
<1>s. /\ SweptPairings \in [Pairings -> Pairing]
      /\ \A p \in Pairings :
           \/ SweptPairings[p] = pairings[p] /\ ~Expired(p)
           \/ SweptPairings[p].state = "gone"
  BY Sweeping DEF Typed
<1>u. /\ \A d \in Devices : Known(d) => Uses(DeviceRow(d), devices[d].token)
      /\ \A s \in Services :
           services[s].state # "none" => Uses(ServiceRow(s), services[s].token)
      /\ \A p \in Pairings : Pending(p) => Uses(PairingRow(p), pairings[p].token)
  BY RowUses
<1>r. /\ \A d \in Devices : DeviceRow(d) \in Row /\ devices[d].token \in Tokens \cup {Null}
      /\ \A s \in Services :
           ServiceRow(s) \in Row /\ services[s].token \in Tokens \cup {Null}
      /\ \A p \in Pairings :
           PairingRow(p) \in Row /\ pairings[p].token \in Tokens \cup {Null}
  BY <1>t DEF Row, Device, Service, Pairing
<1>m. minted \subseteq minted'
  BY DEF Next, Claim, Reclaim, Mint, RequestPairing, CancelPairing, Consume, Begin,
         Approve, Refuse, IssueService, RevokeService, RevokeDevice, RevokeAll, Sweep,
         Restart, Tick, vars
<1>1. ASSUME NEW d \in Devices, NEW t \in Tokens, Claim(d, t) \/ Reclaim(d, t)
      PROVE  TokensApart'
  <2>1. /\ t \notin minted /\ t \in minted'
        /\ devices'[d].token = t
        /\ \A c \in Devices \ {d} : devices'[c] = devices[c]
        /\ services' = services /\ pairings' = SweptPairings
    BY <1>t, <1>1 DEF Claim, Reclaim, Mint, Admit, SweepPairings
  <2>2. \A x \in Row, u \in Tokens \cup {Null} :
          x # DeviceRow(d) /\ Uses(x, u)' => Uses(x, u)
    BY <1>s, <2>1, RowsKept DEF Known, Pending
  <2>3. \A u : Uses(DeviceRow(d), u)' => u = t
    BY <2>1, RowUsesLater
  <2>4. \A x \in Row : ~Uses(x, t)
    BY <2>1 DEF TokensApart
  <2> QED
    BY <1>m, <2>1, <2>2, <2>3, <2>4, OneRowChanges
<1>2. ASSUME NEW p \in Pairings, NEW d \in Devices, NEW t \in Tokens,
             RequestPairing(p, d, t)
      PROVE  TokensApart'
  <2>1. /\ ~Registered(t) /\ \A q \in Waiting : pairings[q].token # t
        /\ t \in minted'
        /\ pairings'[p].token = t
        /\ \A q \in Pairings \ {p} : pairings'[q] = SweptPairings[q]
        /\ devices' = devices /\ services' = services
    BY <1>s, <1>2 DEF RequestPairing
  <2>2. ASSUME NEW q \in Pairings, q # p, Pending(q)'
        PROVE  Pending(q) /\ pairings'[q] = pairings[q] /\ pairings[q].token # t
    BY <1>s, <2>1, <2>2 DEF Pending, Waiting
  <2>3. \A x \in Row, u \in Tokens \cup {Null} :
          x # PairingRow(p) /\ Uses(x, u)' => Uses(x, u)
    BY <2>1, <2>2, RowsKept DEF Known
  <2>4. \A u : Uses(PairingRow(p), u)' => u = t
    BY <2>1, RowUsesLater
  <2>5. ASSUME NEW x \in Row, x # PairingRow(p) PROVE ~Uses(x, t)'
    <3>1. CASE \E c \in Devices : x = DeviceRow(c)
      BY <2>1, <3>1, RowUsesLater DEF Registered, Known
    <3>2. CASE \E s \in Services : x = ServiceRow(s)
      BY <2>1, <3>2, RowUsesLater DEF Registered, IssuedServices
    <3>3. CASE \E q \in Pairings : x = PairingRow(q)
      BY <2>2, <2>5, <3>3, RowUsesLater
    <3> QED
      BY <3>1, <3>2, <3>3 DEF Row
  <2> QED
    BY <1>m, <2>1, <2>3, <2>4, <2>5, OneRowChanges
<1>3. ASSUME NEW p \in Pairings, Consume(p)
      PROVE  TokensApart'
  <2>0. pairings[p].device \in Devices /\ pairings[p].token \in Tokens
    BY <1>3 DEF Consume, CanConsume, Waiting, Typed, RowsComplete
  <2> PICK d \in Devices, t \in Tokens :
         d = pairings[p].device /\ t = pairings[p].token
    BY <2>0
  <2>1. /\ Pending(p)
        /\ devices'[d].token = t
        /\ \A c \in Devices \ {d} : devices'[c] = devices[c]
        /\ services' = services
    BY <1>t, <1>3 DEF Consume, CanConsume, Waiting, Admit
  <2>2. /\ pairings'[p].state = "gone"
        /\ \A q \in Pairings : q # p /\ Pending(q)' => Pending(q) /\ pairings'[q] = pairings[q]
    <3>1. pairings' = [SweptPairings EXCEPT ![p].state = "gone"]
      BY <1>3 DEF Consume
    <3> QED
      BY <1>s, <3>1 DEF Pending, Pairing
  <2>3. ~Pending(p)'
    BY <2>2 DEF Pending
  <2>4. \A x \in Row, u \in Tokens \cup {Null} :
          x # DeviceRow(d) /\ Uses(x, u)' => Uses(x, u)
    BY <2>1, <2>2, <2>3, RowsKept DEF Known
  <2>5. \A u : Uses(DeviceRow(d), u)' => u = t
    BY <2>1, RowUsesLater
  <2>6. t \in minted /\ \A x \in Row : Uses(x, t) => x = PairingRow(p)
    BY <1>r, <1>u, <2>1 DEF TokensApart
  <2>7. ~Uses(PairingRow(p), t)'
    BY <2>3, RowUsesLater
  <2>8. \A x \in Row : x # DeviceRow(d) => ~Uses(x, t)'
    BY <2>1, <2>4, <2>6, <2>7
  <2> QED
    BY <1>m, <2>1, <2>4, <2>5, <2>6, <2>8, OneRowChanges
<1>4. ASSUME NEW h \in inflight, NEW s \in Services, NEW t \in Tokens,
             IssueService(h, s, t)
      PROVE  TokensApart'
  <2>1. /\ t \notin minted /\ t \in minted'
        /\ services'[s].token = t
        /\ \A r \in Services \ {s} : services'[r] = services[r]
        /\ devices' = devices /\ pairings' = pairings
    BY <1>t, <1>4 DEF IssueService, Mint
  <2>2. \A x \in Row, u \in Tokens \cup {Null} :
          x # ServiceRow(s) /\ Uses(x, u)' => Uses(x, u)
    BY <2>1, RowsKept DEF Known, Pending
  <2>3. \A u : Uses(ServiceRow(s), u)' => u = t
    BY <2>1, RowUsesLater
  <2>4. \A x \in Row : ~Uses(x, t)
    BY <2>1 DEF TokensApart
  <2> QED
    BY <1>m, <2>1, <2>2, <2>3, <2>4, OneRowChanges
<1>5. ASSUME /\ \A d \in Devices : Known(d)' =>
                  Known(d) /\ devices'[d].token = devices[d].token
             /\ \A s \in Services : services'[s].state # "none" =>
                  services[s].state # "none" /\ services'[s].token = services[s].token
             /\ \A p \in Pairings : Pending(p)' =>
                  Pending(p) /\ pairings'[p].token = pairings[p].token
      PROVE  TokensApart'
  <2>1. \A x \in Row, t \in Tokens \cup {Null} : Uses(x, t)' => Uses(x, t)
    <3>1. PICK z : z \notin Row
      BY NoSetContainsEverything
    <3> QED
      BY <1>5, <3>1, RowsKept
  <2> QED
    BY <1>m, <2>1, NoRowChanges
<1>6. ASSUME (\E d \in Devices : RevokeDevice(d)) \/ RevokeAll
      PROVE  TokensApart'
  BY <1>5, <1>6, Revocations DEF Known, Serves, Pending
<1>7. ASSUME NEW h \in inflight, Approve(h)
      PROVE  TokensApart'
  <2>1. h.id \in Pairings /\ Pending(h.id) /\ devices' = devices /\ services' = services
    BY <1>7 DEF Approve, CanApprove, Pending, Typed, AccessTypeOK, Handler
  <2>2. /\ pairings'[h.id].token = pairings[h.id].token
        /\ \A q \in Pairings \ {h.id} : pairings'[q] = pairings[q]
    BY <1>t, <1>7, <2>1 DEF Approve, Pairing
  <2> QED
    BY <1>5, <2>1, <2>2 DEF Known, Pending
<1>8. ASSUME NEW p \in Pairings, CancelPairing(p)
      PROVE  TokensApart'
  <2>1. \A q \in Pairings : Pending(q)' => Pending(q) /\ pairings'[q] = pairings[q]
    BY <1>s, <1>8 DEF CancelPairing, Pending, Pairing
  <2> QED
    BY <1>5, <1>8, <2>1 DEF CancelPairing, Known
<1>9. ASSUME NEW s \in Services, RevokeService(s)
      PROVE  TokensApart'
  <2>1. \A r \in Services : services'[r].state # "none" =>
          services[r].state # "none" /\ services'[r].token = services[r].token
    BY <1>t, <1>9 DEF RevokeService, Serves, Service
  <2>2. devices' = devices /\ pairings' = SweptPairings
    BY <1>9 DEF RevokeService, SweepPairings
  <2> QED
    BY <1>5, <1>s, <2>1, <2>2 DEF Known, Pending
<1>10. ASSUME (\E h \in Handler : Begin(h)) \/ Sweep \/ Restart
       PROVE  TokensApart'
  <2>1. devices' = devices /\ services' = services /\ pairings' = SweptPairings
    BY <1>10 DEF Begin, Sweep, Restart, SweepPairings
  <2> QED
    BY <1>5, <1>s, <2>1 DEF Known, Pending
<1>11. ASSUME (\E h \in inflight : Refuse(h)) \/ Tick \/ UNCHANGED vars
       PROVE  TokensApart'
  <2>1. devices' = devices /\ services' = services /\ pairings' = pairings
    BY <1>11 DEF Refuse, Tick, vars
  <2> QED
    BY <1>5, <2>1 DEF Known, Pending
<1> QED
  BY <1>1, <1>2, <1>3, <1>4, <1>6, <1>7, <1>8, <1>9, <1>10, <1>11 DEF Next

LEMMA TokensInit == Init => TokensApart
  BY DEF Init, TokensApart, Uses, Known, IssuedServices, Pending

\* No token ever authenticates two credentials, over devices, services and
\* pending pairings, whatever is revoked, recovered or paired in between.
THEOREM TokensStayUnique == Spec => []TokensUnique
<1>1. Init => Typed /\ TokensApart
  BY TypedInit, TokensInit
<1>2. Typed /\ TokensApart /\ [Next]_vars => (Typed /\ TokensApart)'
  BY TypedStep, TokensStep
<1>3. Typed /\ TokensApart => TokensUnique
  BY ApartIsUnique
<1> QED
  BY <1>1, <1>2, <1>3, PTL DEF Spec

-----------------------------------------------------------------------------
(* Limits *)

\* A set within its limit stays there as elements leave and, below the limit,
\* as one comes.
LEMMA WithinLimit ==
  ASSUME NEW S, NEW T, IsFiniteSet(S), NEW n \in Nat,
         \/ T \subseteq S /\ Cardinality(S) <= n
         \/ Cardinality(S) < n /\ \E x : T \subseteq S \cup {x}
  PROVE  Cardinality(T) <= n
<1>1. CASE T \subseteq S /\ Cardinality(S) <= n
  <2>1. Cardinality(T) <= Cardinality(S) /\ Cardinality(T) \in Nat /\ Cardinality(S) \in Nat
    BY <1>1, FS_Subset, FS_CardinalityType
  <2> QED
    BY <1>1, <2>1
<1>2. ASSUME Cardinality(S) < n, NEW x, T \subseteq S \cup {x}
      PROVE  Cardinality(T) <= n
  <2>1. /\ IsFiniteSet(S \cup {x}) /\ Cardinality(S) \in Nat
        /\ Cardinality(S \cup {x}) = Cardinality(S) \/ Cardinality(S \cup {x}) = Cardinality(S) + 1
    BY FS_AddElement, FS_CardinalityType
  <2>2. /\ Cardinality(T) <= Cardinality(S \cup {x}) /\ Cardinality(T) \in Nat
        /\ Cardinality(S \cup {x}) \in Nat
    BY <1>2, <2>1, FS_Subset, FS_CardinalityType
  <2> QED
    BY <1>2, <2>1, <2>2
<1> QED
  BY <1>1, <1>2

LEMMA CountsStep ==
  ASSUME Typed, CountsHold, [Next]_vars
  PROVE  CountsHold'
<1> DEFINE PendingPairings == {p \in Pairings : Pending(p)}
<1>s. /\ SweptPairings \in [Pairings -> Pairing]
      /\ \A p \in Pairings :
           \/ SweptPairings[p] = pairings[p] /\ ~Expired(p)
           \/ SweptPairings[p].state = "gone"
  BY Sweeping DEF Typed
<1>f. /\ IsFiniteSet(KnownDevices) /\ IsFiniteSet(IssuedServices)
      /\ IsFiniteSet(PendingPairings) /\ IsFiniteSet(Waiting)
      /\ MaxDevices \in Nat /\ MaxServices \in Nat /\ MaxPending \in Nat
  BY AccessAssumption, FS_Subset DEF KnownDevices, IssuedServices, Waiting
<1>1. Cardinality(KnownDevices)' <= MaxDevices
  <2>1. ASSUME \A d \in Devices : Known(d)' => Known(d)
        PROVE  Cardinality(KnownDevices)' <= MaxDevices
    <3>1. KnownDevices' \subseteq KnownDevices
      BY <2>1 DEF KnownDevices
    <3> QED
      BY <1>f, <3>1, WithinLimit DEF CountsHold
  <2>2. ASSUME RoomForDevice, NEW d \in Devices,
               \A c \in Devices \ {d} : devices'[c] = devices[c]
        PROVE  Cardinality(KnownDevices)' <= MaxDevices
    <3>1. KnownDevices' \subseteq KnownDevices \cup {d}
      BY <2>2 DEF KnownDevices, Known
    <3> QED
      BY <1>f, <2>2, <3>1, WithinLimit DEF RoomForDevice
  <2>3. ASSUME NEW d \in Devices, NEW t \in Tokens, Claim(d, t) \/ Reclaim(d, t)
        PROVE  Cardinality(KnownDevices)' <= MaxDevices
    <3>1. /\ \A c \in Devices \ {d} : devices'[c] = devices[c]
          /\ Known(d) \/ RoomForDevice
      BY <2>3 DEF Claim, Reclaim, Admit, Typed, AccessTypeOK
    <3> QED
      BY <2>1, <2>2, <3>1 DEF Known
  <2>4. ASSUME NEW p \in Pairings, Consume(p)
        PROVE  Cardinality(KnownDevices)' <= MaxDevices
    <3>1. PICK d \in Devices : d = pairings[p].device
      BY <2>4 DEF Consume, CanConsume, Waiting, Typed, RowsComplete
    <3>2. RoomForDevice /\ \A c \in Devices \ {d} : devices'[c] = devices[c]
      BY <2>4, <3>1 DEF Consume, CanConsume, Admit, Typed, AccessTypeOK
    <3> QED
      BY <2>2, <3>2
  <2>5. CASE \A d \in Devices :
               ~ ((\E t \in Tokens : Claim(d, t) \/ Reclaim(d, t))
                  \/ \E p \in Pairings : Consume(p))
    <3>1. \A d \in Devices : Known(d)' => Known(d)
      BY <2>5, DeviceSteps DEF Known
    <3> QED
      BY <2>1, <3>1
  <2> QED
    BY <2>3, <2>4, <2>5
<1>2. Cardinality(IssuedServices)' <= MaxServices
  <2>1. ASSUME NEW h \in inflight, NEW s \in Services, NEW t \in Tokens,
               IssueService(h, s, t)
        PROVE  Cardinality(IssuedServices)' <= MaxServices
    <3>1. IssuedServices' \subseteq IssuedServices \cup {s}
      BY <2>1 DEF IssueService, IssuedServices, Typed, AccessTypeOK
    <3>2. Cardinality(IssuedServices) < MaxServices
      BY <2>1 DEF IssueService, CanIssue
    <3> QED
      BY <1>f, <3>1, <3>2, WithinLimit
  <2>2. CASE ~ \E h \in inflight, s \in Services, t \in Tokens : IssueService(h, s, t)
    <3>1. IssuedServices' \subseteq IssuedServices
      BY <2>2, ServiceSteps DEF IssuedServices, Serves
    <3> QED
      BY <1>f, <3>1, WithinLimit DEF CountsHold
  <2> QED
    BY <2>1, <2>2
<1>3. Cardinality(PendingPairings)' <= MaxPending
  <2>1. ASSUME NEW p \in Pairings, NEW d \in Devices, NEW t \in Tokens,
               RequestPairing(p, d, t)
        PROVE  Cardinality(PendingPairings)' <= MaxPending
    <3>1. /\ Cardinality(Waiting) < MaxPending
          /\ \A q \in Pairings \ {p} : pairings'[q] = SweptPairings[q]
      BY <1>s, <2>1 DEF RequestPairing
    <3>2. PendingPairings' \subseteq Waiting \cup {p}
      BY <1>s, <3>1 DEF Pending, Waiting
    <3> QED
      BY <1>f, <3>1, <3>2, WithinLimit
  <2>2. CASE ~ \E p \in Pairings, d \in Devices, t \in Tokens : RequestPairing(p, d, t)
    <3>1. ASSUME NEW h \in inflight, Approve(h)
          PROVE  Pending(h.id)
      BY <3>1 DEF Approve, CanApprove, Pending
    <3>2. PendingPairings' \subseteq PendingPairings
      BY <2>2, <3>1, PairingSteps DEF Pending
    <3> QED
      BY <1>f, <3>2, WithinLimit DEF CountsHold
  <2> QED
    BY <2>1, <2>2
<1> QED
  BY <1>1, <1>2, <1>3 DEF CountsHold

LEMMA CountsInit == Init => CountsHold
<1> SUFFICES ASSUME Init PROVE CountsHold
  OBVIOUS
<1>1. KnownDevices = {} /\ IssuedServices = {} /\ {p \in Pairings : Pending(p)} = {}
  BY DEF Init, KnownDevices, Known, IssuedServices, Pending
<1>2. Cardinality({}) = 0
  BY FS_EmptySet
<1> QED
  BY <1>1, <1>2, AccessAssumption DEF CountsHold

\* Devices, services and pending pairings keep to their limits, though a limit
\* is checked when a pairing is requested and the device comes later.
THEOREM CountsAreKept == Spec => []CountsHold
<1>1. Init => Typed /\ CountsHold
  BY TypedInit, CountsInit
<1>2. Typed /\ CountsHold /\ [Next]_vars => (Typed /\ CountsHold)'
  BY TypedStep, CountsStep
<1> QED
  BY <1>1, <1>2, PTL DEF Spec

-----------------------------------------------------------------------------
(* Repeating a consume *)

\* A consumed pairing stays gone, so its receipt is written once; its device
\* stays known, so no other pairing takes it; its token is never drawn again,
\* so a recovery gives the device another one.  That leaves the sweep of
\* receipts, which takes an expired one, and the revocation of all devices.
Remembered ==
  \A c \in consumed :
    /\ pairings[c.pairing].state = "gone"
    /\ Known(c.device) /\ c.token \in minted
    /\ now < c.until /\ Active(c.device) /\ devices[c.device].token = c.token
         => receipts[c.pairing] =
              [device |-> c.device, token |-> c.token, expires |-> c.until]

LEMMA RememberedIsRepeatable ==
  ASSUME Typed, Remembered
  PROVE  ConsumeIsRepeatable
<1> SUFFICES ASSUME NEW c \in consumed, now < c.until, Active(c.device),
                    devices[c.device].token = c.token
             PROVE  /\ receipts[c.pairing] # Null
                    /\ receipts[c.pairing].device = c.device
                    /\ receipts[c.pairing].token = c.token
                    /\ receipts[c.pairing].expires > now
  BY DEF ConsumeIsRepeatable
<1>1. receipts[c.pairing] = [device |-> c.device, token |-> c.token, expires |-> c.until]
  BY DEF Remembered
<1>2. c.device \in Devices /\ c.token \in Tokens /\ c.until \in Nat /\ now \in Nat
  BY DEF Typed, AccessTypeOK
<1>3. receipts[c.pairing] \in [device : Devices, token : Tokens, expires : Nat]
  BY <1>1, <1>2
<1> QED
  BY <1>1, <1>2, <1>3, AccessAssumption

\* A consumed pairing never comes back.
LEMMA GoneStaysGone ==
  ASSUME Typed, [Next]_vars, NEW p \in Pairings, pairings[p].state = "gone"
  PROVE  pairings'[p].state = "gone"
<1>1. ~ \E d \in Devices, t \in Tokens : RequestPairing(p, d, t)
  BY DEF RequestPairing
<1>2. ~ \E h \in inflight : Approve(h) /\ h.id = p
  BY DEF Approve, CanApprove
<1> QED
  BY <1>1, <1>2, PairingSteps

LEMMA KnownStaysKnown ==
  ASSUME Typed, [Next]_vars, NEW d \in Devices, Known(d)
  PROVE  Known(d)'
<1>1. devices \in [Devices -> Device]
  BY DEF Typed, AccessTypeOK
<1>2. ASSUME NEW t \in Tokens, Claim(d, t) \/ Reclaim(d, t)
      PROVE  Known(d)'
  BY <1>1, <1>2 DEF Known, Claim, Reclaim, Admit
<1>3. ASSUME NEW p \in Pairings, Consume(p), d = pairings[p].device
      PROVE  Known(d)'
  BY <1>1, <1>3 DEF Known, Consume, Admit
<1> QED
  BY <1>2, <1>3, DeviceSteps DEF Known

\* A device that is active with a token it had drawn before was so already.
LEMMA ActiveWithOldToken ==
  ASSUME Typed, [Next]_vars, NEW d \in Devices, Known(d), Active(d)',
         devices'[d].token \in minted
  PROVE  Active(d) /\ devices'[d].token = devices[d].token
<1>1. ASSUME NEW t \in Tokens, Claim(d, t) \/ Reclaim(d, t)
      PROVE  FALSE
  BY <1>1 DEF Claim, Reclaim, Mint, Admit, Typed, AccessTypeOK
<1>2. ASSUME NEW p \in Pairings, Consume(p), d = pairings[p].device
      PROVE  FALSE
  BY <1>2 DEF Consume, CanConsume
<1> QED
  BY <1>1, <1>2, DeviceSteps DEF Active

\* A receipt goes only when it expired or with every device.
LEMMA ReceiptSteps ==
  ASSUME Typed, [Next]_vars, NEW p \in Pairings, pairings[p].state = "gone",
         receipts[p] # Null, receipts[p].expires > now
  PROVE  receipts'[p] = receipts[p] \/ RevokeAll
<1>1. SweptReceipts[p] = receipts[p]
  BY DEF SweptReceipts
<1>2. ASSUME NEW q \in Pairings, Consume(q)
      PROVE  receipts'[p] = receipts[p]
  <2>1. q # p
    BY <1>2 DEF Consume, CanConsume, Waiting, Pending
  <2>2. receipts' = [SweptReceipts EXCEPT ![q] = ConsumeReceipt(q)]
    BY <1>2 DEF Consume
  <2>3. SweptReceipts \in [Pairings -> Receipt \cup {Null}]
    BY Sweeping DEF Typed
  <2> QED
    BY <1>1, <2>1, <2>2, <2>3
<1>3. ASSUME \/ \E d \in Devices, t \in Tokens : Claim(d, t) \/ Reclaim(d, t)
             \/ \E q \in Pairings, d \in Devices, t \in Tokens : RequestPairing(q, d, t)
             \/ \E q \in Pairings : CancelPairing(q)
             \/ \E h \in Handler : Begin(h)
             \/ \E s \in Services : RevokeService(s)
             \/ \E d \in Devices : RevokeDevice(d)
             \/ Sweep \/ Restart
      PROVE  receipts' = SweptReceipts
  BY <1>3 DEF Claim, Reclaim, RequestPairing, CancelPairing, Begin, RevokeService,
              RevokeDevice, Sweep, Restart, SweepPairings
<1>4. ASSUME \/ \E h \in inflight : Approve(h) \/ Refuse(h)
             \/ \E h \in inflight, s \in Services, t \in Tokens : IssueService(h, s, t)
             \/ Tick \/ UNCHANGED vars
      PROVE  receipts' = receipts
  BY <1>4 DEF Approve, Refuse, IssueService, Tick, vars
<1> QED
  BY <1>1, <1>2, <1>3, <1>4 DEF Next

LEMMA RememberedStep ==
  ASSUME Typed, TokensApart, Remembered, [Next]_vars
  PROVE  Remembered'
<1>m. minted \subseteq minted' /\ now' >= now /\ now \in Nat /\ now' \in Nat
  <2>1. now \in Nat
    BY DEF Typed, AccessTypeOK
  <2>2. now' = now \/ now' = now + 1
    BY DEF Next, Claim, Reclaim, RequestPairing, CancelPairing, Consume, Begin, Approve,
       Refuse, Finish, IssueService, RevokeService, RevokeDevice, RevokeAll, Sweep,
       Restart, Tick, vars
  <2>3. minted \subseteq minted'
    BY DEF Next, Claim, Reclaim, Mint, RequestPairing, CancelPairing, Consume, Begin,
       Approve, Refuse, IssueService, RevokeService, RevokeDevice, RevokeAll, Sweep,
       Restart, Tick, vars
  <2> QED
    BY <2>1, <2>2, <2>3
<1>1. ASSUME NEW c \in consumed
      PROVE  /\ pairings'[c.pairing].state = "gone"
             /\ Known(c.device)' /\ c.token \in minted'
             /\ (now' < c.until /\ Active(c.device)' /\ devices'[c.device].token = c.token)
                  => receipts'[c.pairing] =
                       [device |-> c.device, token |-> c.token, expires |-> c.until]
  <2>1. /\ c.pairing \in Pairings /\ c.device \in Devices /\ c.token \in Tokens
        /\ c.until \in Nat
    BY DEF Typed, AccessTypeOK
  <2>2. /\ pairings[c.pairing].state = "gone" /\ Known(c.device) /\ c.token \in minted
    BY DEF Remembered
  <2>3. pairings'[c.pairing].state = "gone" /\ Known(c.device)' /\ c.token \in minted'
    BY <1>m, <2>1, <2>2, GoneStaysGone, KnownStaysKnown DEF Known
  <2>4. ASSUME now' < c.until, Active(c.device)', devices'[c.device].token = c.token
        PROVE  receipts'[c.pairing] =
                 [device |-> c.device, token |-> c.token, expires |-> c.until]
    <3>1. Active(c.device) /\ devices[c.device].token = c.token
      BY <2>1, <2>2, <2>4, ActiveWithOldToken DEF Active, Known
    <3>2. now < c.until
      BY <1>m, <2>1, <2>4
    <3>3. receipts[c.pairing] =
            [device |-> c.device, token |-> c.token, expires |-> c.until]
      BY <3>1, <3>2 DEF Remembered
    <3>4. receipts[c.pairing] \in [device : Devices, token : Tokens, expires : Nat]
          /\ receipts[c.pairing].expires = c.until
      BY <2>1, <3>3
    <3>5. receipts[c.pairing] # Null /\ receipts[c.pairing].expires > now
      BY <1>m, <2>1, <3>2, <3>4, AccessAssumption
    <3>6. ~RevokeAll
      BY <2>1, <2>4, <3>1 DEF RevokeAll, Active, Typed, AccessTypeOK, Device
    <3> QED
      BY <2>1, <2>2, <3>3, <3>5, <3>6, ReceiptSteps
  <2> QED
    BY <2>3, <2>4
<1>2. ASSUME NEW p \in Pairings, Consume(p)
      PROVE  Remembered'
  <2>1. PICK d \in Devices, t \in Tokens :
          d = pairings[p].device /\ t = pairings[p].token
    BY <1>2 DEF Consume, CanConsume, Waiting, Typed, RowsComplete
  <2> DEFINE k == [pairing |-> p, device |-> d, token |-> t, until |-> now + ReceiptTtl]
  <2>2. consumed' = consumed \cup {k}
    BY <1>2, <2>1 DEF Consume
  <2>3. pairings'[p].state = "gone"
    <3>1. /\ SweptPairings \in [Pairings -> Pairing]
          /\ pairings' = [SweptPairings EXCEPT ![p].state = "gone"]
      BY <1>2, Sweeping DEF Consume, Typed
    <3> QED
      BY <3>1 DEF Pairing
  <2>4. Known(d)'
    BY <1>2, <2>1 DEF Consume, Admit, Known, Typed, AccessTypeOK
  <2>5. receipts'[p] = [device |-> d, token |-> t, expires |-> now + ReceiptTtl]
    <3>1. SweptReceipts \in [Pairings -> Receipt \cup {Null}]
      BY Sweeping DEF Typed
    <3> QED
      BY <1>2, <2>1, <3>1 DEF Consume, ConsumeReceipt
  <2>6. t \in minted
    <3>1. Uses(PairingRow(p), t) /\ PairingRow(p) \in Row
      BY <1>2, <2>1, RowUses DEF Consume, CanConsume, Waiting, Row
    <3> QED
      BY <3>1 DEF TokensApart
  <2>7. /\ k.pairing = p /\ k.device = d /\ k.token = t /\ k.until = now + ReceiptTtl
    OBVIOUS
  <2> HIDE DEF k
  <2> QED
    BY <1>m, <1>1, <2>2, <2>3, <2>4, <2>5, <2>6, <2>7 DEF Remembered, Known, Active
<1>3. ASSUME consumed' = consumed
      PROVE  Remembered'
  BY <1>1, <1>3 DEF Remembered, Known, Active
<1>4. ASSUME ~ \E p \in Pairings : Consume(p)
      PROVE  consumed' = consumed
  BY <1>4 DEF Next, Claim, Reclaim, RequestPairing, CancelPairing,
     Begin, Approve, Refuse, Finish, IssueService, RevokeService, RevokeDevice,
     RevokeAll, Sweep, Restart, Tick, vars
<1> QED
  BY <1>2, <1>3, <1>4

\* Whatever is swept, restarted, recovered or revoked meanwhile, a device that
\* lost the answer to its consume can repeat it until the receipt expires.
THEOREM ConsumesAreRepeatable == Spec => []ConsumeIsRepeatable
<1>1. Init => Typed /\ TokensApart /\ Remembered
  <2>1. Init => Remembered
    BY DEF Init, Remembered
  <2> QED
    BY <2>1, TypedInit, TokensInit
<1>2. Typed /\ TokensApart /\ Remembered /\ [Next]_vars
        => (Typed /\ TokensApart /\ Remembered)'
  BY TypedStep, TokensStep, RememberedStep
<1>3. Typed /\ Remembered => ConsumeIsRepeatable
  BY RememberedIsRepeatable
<1> QED
  BY <1>1, <1>2, <1>3, PTL DEF Spec
=============================================================================
