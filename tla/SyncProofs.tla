----------------------------- MODULE SyncProofs -----------------------------
(***************************************************************************)
(* The pending mutations of a device, for any number of tabs, credentials, *)
(* lost and repeated messages, closed tabs and writes of other devices.    *)
(***************************************************************************)
EXTENDS Sync, RelayProofs

-----------------------------------------------------------------------------
(* Types *)

\* The requests this device makes, and the mutations it stores.
Written ==
  {q \in Requests : /\ q.op = "put" /\ q.id = Key
                    /\ q.mutation \in Drawable
                    /\ q.base \in Nat
                    /\ q.envelope \in Drafts}

Mutation == [owner : Owners, request : Written]

Places ==
  {"idle", "prepare", "persist", "send", "wait", "told", "remembered", "refused",
   "conflict", "install"}

TabState ==
  [at : Places, cred : Owners, want : Drafts \cup {Null},
   stored : Mutation \cup {Null}, fresh : Mutation \cup {Null}, rev : Nat]

\* A tab that is not idle pushes a note; one that works on a stored mutation has
\* it, one that is about to store a mutation has that.
TabComplete(p) ==
  /\ p.at # "idle" => p.want \in Drafts
  /\ p.at \notin {"idle", "prepare", "persist"} => p.stored \in Mutation
  /\ p.at \in {"persist", "install"} => p.fresh \in Mutation

SyncTypeOK ==
  /\ pending \in Mutation \cup {Null}
  /\ known \in Nat
  /\ session \in Owners
  /\ tab \in [Tabs -> TabState]
  /\ \A t \in Tabs : TabComplete(tab[t])
  /\ sent \subseteq Owners \X Written
  /\ settled \subseteq Written /\ refused \subseteq Written
  /\ returned \subseteq [draft : Drafts, rev : Nat]

LEMMA WrittenFacts ==
  ASSUME NEW q \in Written
  PROVE  /\ q \in Requests /\ q.op = "put" /\ q.id = Key /\ q.id \in Notes
         /\ q.id \in Ids /\ q.mutation \in Drawable /\ q.mutation \in Nat
         /\ q.base \in Nat /\ q.envelope \in Drafts
BY SyncAssumption, KeysAssumption DEF Written, Ids

LEMMA MutationFacts ==
  ASSUME NEW m \in Mutation
  PROVE  /\ m.owner \in Owners /\ m.owner \in Credentials
         /\ m.request \in Written /\ m # Null
<1>1. m \in [owner : Owners, request : Requests]
  BY DEF Mutation, Written
<1> QED
  BY <1>1, SyncAssumption DEF Mutation

\* A mutation about to be stored has an id of its own and the known base.
LEMMA DrawnMutation ==
  ASSUME NEW d \in Drafts, NEW c \in Owners, CanWrite(d, c), known \in Nat
  PROVE  /\ Fresh(d, c) \in Mutation
         /\ Fresh(d, c).request.mutation \in Drawable \ Drawn
         /\ Fresh(d, c).request.base = known
<1> DEFINE id == Min(Drawable \ Drawn)
           q == Fresh(d, c).request
<1>1. Drawable \ Drawn \in SUBSET Nat /\ Drawable \ Drawn # {}
  BY SyncAssumption, KeysAssumption DEF CanWrite
<1>2. id \in Drawable \ Drawn
  BY <1>1, NatMin
<1> HIDE DEF id
<1>3. /\ Fresh(d, c) = [owner |-> c, request |-> q]
      /\ q = [op |-> "put", mutation |-> id, id |-> Key, base |-> known,
              deleted |-> FALSE, note |-> Null, envelope |-> d]
  BY DEF Fresh, id
<1>4. q \in Requests
  BY DEF CanWrite
<1> HIDE DEF q
<1>5. q \in Written
  BY <1>2, <1>3, <1>4 DEF Written
<1> QED
  BY <1>2, <1>3, <1>5 DEF Mutation

-----------------------------------------------------------------------------
(* What a step does to the relay *)

\* The device adds no step to the relay's: it is one of its clients.
LEMMA RelayStep ==
  ASSUME SyncTypeOK, [SyncNext]_allVars
  PROVE  [Next]_vars
<1> USE DEF vars
<1>1. ASSUME NEW c \in Credentials, NEW q \in Requests,
             Begin(c, q) \/ Replay(c, q) \/ Put(c, q) \/ Refuse(c, q)
      PROVE  Next
  BY <1>1 DEF Next, Handle
<1>2. \A s \in sent : s[1] \in Credentials /\ s[2] \in Requests
  BY SyncAssumption DEF SyncTypeOK, Written
<1>3. ASSUME NEW t \in Tabs, TabStep(t)
      PROVE  [Next]_vars
  <2>1. CASE Send(t)
    <3>1. tab[t] \in TabState /\ tab[t].stored \in Mutation
      BY <2>1 DEF Send, SyncTypeOK, TabComplete
    <3>2. tab[t].cred \in Credentials /\ tab[t].stored.request \in Requests
      BY <3>1, SyncAssumption DEF TabState, Mutation, Written
    <3> QED
      BY <1>1, <2>1, <3>2 DEF Send
  <2>2. ASSUME NEW d \in Drafts, Push(t, d) \/ Handoff(t, d)
        PROVE  UNCHANGED vars
    BY <2>2 DEF Push, Handoff
  <2>3. CASE \/ Prepare(t) \/ Persist(t) \/ Remember(t) \/ Forget(t) \/ Discard(t)
             \/ Rebase(t) \/ Install(t) \/ Abandon(t) \/ Reload(t)
    BY <2>3 DEF Prepare, Persist, Remember, Forget, Discard, Rebase, Install, Abandon,
                Reload
  <2> QED
    BY <1>3, <2>1, <2>2, <2>3 DEF TabStep
<1>4. ASSUME NEW t \in Tabs, Timeout(t) \/ Close(t)
      PROVE  UNCHANGED vars
  BY <1>4 DEF Timeout, Close
<1>5. ASSUME NEW s \in sent, Serve(s[1], s[2])
      PROVE  Next
  BY <1>1, <1>2, <1>5 DEF Serve, Accepted, Conflict, Unserved
<1>6. ASSUME NEW c \in Owners, Recredential(c) \/ Disown(c)
      PROVE  [Next]_vars
  <2>1. {c} \in SUBSET Credentials
    BY SyncAssumption
  <2> QED
    BY <1>6, <2>1 DEF Recredential, Disown, Next
<1>7. CASE Acknowledge
  BY <1>7 DEF Acknowledge
<1>8. CASE Duplicate
  BY <1>1, <1>2, <1>8 DEF Duplicate
<1>9. CASE Elsewhere
  BY <1>1, <1>9 DEF Elsewhere
<1>10. CASE Relaunch
  BY <1>10 DEF Relaunch, Next
<1>11. CASE UNCHANGED allVars
  BY <1>11 DEF allVars
<1> QED
  BY <1>3, <1>4, <1>5, <1>6, <1>7, <1>8, <1>9, <1>10, <1>11 DEF SyncNext

-----------------------------------------------------------------------------
(* Types are kept *)

LEMMA IdleTyped ==
  ASSUME NEW c \in Owners
  PROVE  Idle(c) \in TabState /\ TabComplete(Idle(c))
BY DEF Idle, TabState, TabComplete, Places

\* A step of one tab.
LEMMA BecomeTyped ==
  ASSUME SyncTypeOK, NEW t \in Tabs, NEW to \in TabState, Become(t, to), TabComplete(to)
  PROVE  tab' \in [Tabs -> TabState] /\ \A u \in Tabs : TabComplete(tab'[u])
BY DEF SyncTypeOK, Become

LEMMA TabTyped ==
  ASSUME SyncTypeOK, NEW t \in Tabs
  PROVE  /\ tab[t] \in TabState /\ TabComplete(tab[t])
         /\ tab[t].at \in Places /\ tab[t].cred \in Owners
         /\ tab[t].want \in Drafts \cup {Null} /\ tab[t].rev \in Nat
         /\ tab[t].stored \in Mutation \cup {Null}
         /\ tab[t].fresh \in Mutation \cup {Null}
BY DEF SyncTypeOK, TabState

LEMMA TabStepTypes ==
  ASSUME SyncTypeOK, NEW t \in Tabs, TabStep(t) \/ Timeout(t) \/ Close(t)
  PROVE  SyncTypeOK'
<1> DEFINE p == tab[t]
<1>1. /\ p \in TabState /\ TabComplete(p) /\ p.cred \in Owners
      /\ p.want \in Drafts \cup {Null} /\ p.rev \in Nat
      /\ p.stored \in Mutation \cup {Null} /\ p.fresh \in Mutation \cup {Null}
  BY TabTyped
<1>2. Idle(p.cred) \in TabState /\ TabComplete(Idle(p.cred))
  BY <1>1, IdleTyped
<1>3. Idle(session) \in TabState /\ TabComplete(Idle(session))
  BY IdleTyped DEF SyncTypeOK
<1>4. ASSUME NEW to \in TabState, TabComplete(to), Become(t, to),
             pending' \in Mutation \cup {Null}, known' \in Nat,
             session' = session, sent' \subseteq Owners \X Written,
             settled' = settled, refused' = refused,
             returned' \subseteq [draft : Drafts, rev : Nat]
      PROVE  SyncTypeOK'
  BY <1>4, BecomeTyped DEF SyncTypeOK
<1>5. ASSUME NEW d \in Drafts, Push(t, d) \/ Handoff(t, d)
      PROVE  SyncTypeOK'
  <2>1. PICK to \in {[p EXCEPT !.at = "prepare", !.want = d],
                     [p EXCEPT !.at = "send", !.want = d, !.stored = pending]} :
          /\ Become(t, to)
          /\ to.at = "send" => pending # Null
    BY <1>5, <1>1 DEF Push, Handoff, TabState
  <2>2. to \in TabState /\ TabComplete(to)
    BY <2>1, <1>1 DEF TabState, TabComplete, SyncTypeOK, Places
  <2> QED
    BY <1>4, <1>5, <2>1, <2>2 DEF Push, Handoff, SyncTypeOK
<1>6. CASE Prepare(t)
  <2>1. p.want \in Drafts
    BY <1>6, <1>1 DEF Prepare, TabComplete
  <2>2. Fresh(p.want, p.cred) \in Mutation
    BY <1>1, <1>6, <2>1, DrawnMutation DEF Prepare, SyncTypeOK
  <2> DEFINE to == [p EXCEPT !.at = "persist", !.fresh = Fresh(p.want, p.cred)]
  <2>3. to \in TabState /\ TabComplete(to)
    BY <1>1, <2>1, <2>2 DEF TabState, TabComplete, Places
  <2> QED
    BY <1>4, <1>6, <2>3 DEF Prepare, SyncTypeOK
<1>7. CASE Persist(t)
  <2> DEFINE to == [p EXCEPT !.at = "send", !.stored = p.fresh, !.fresh = Null]
  <2>1. p.fresh \in Mutation /\ p.want \in Drafts
    BY <1>7, <1>1 DEF Persist, TabComplete
  <2>2. to \in TabState /\ TabComplete(to)
    BY <1>1, <2>1 DEF TabState, TabComplete, Places
  <2> QED
    BY <1>4, <1>7, <2>1, <2>2 DEF Persist, SyncTypeOK
<1>8. CASE Send(t)
  <2>1. p.stored \in Mutation /\ p.want \in Drafts
    BY <1>8, <1>1 DEF Send, TabComplete
  <2>2. p.stored.request \in Written
    BY <2>1, MutationFacts
  <2>3. sent' \subseteq Owners \X Written
    BY <1>1, <1>8, <2>2 DEF Send, SyncTypeOK
  <2> DEFINE to == [p EXCEPT !.at = "wait"]
  <2>4. to \in TabState /\ TabComplete(to)
    BY <1>1, <2>1 DEF TabState, TabComplete, Places
  <2>5. Become(t, to) \/ Become(t, Idle(p.cred))
    BY <1>8 DEF Send
  <2> QED
    BY <1>2, <1>4, <1>8, <2>3, <2>4, <2>5 DEF Send, SyncTypeOK
<1>9. CASE Remember(t)
  <2> DEFINE to == [p EXCEPT !.at = "remembered"]
  <2>1. p.stored \in Mutation /\ p.want \in Drafts
    BY <1>9, <1>1 DEF Remember, TabComplete
  <2>2. to \in TabState /\ TabComplete(to)
    BY <1>1, <2>1 DEF TabState, TabComplete, Places
  <2>3. Max({known, p.rev}) \in Nat
    <3>1. {known, p.rev} \in SUBSET Nat /\ known \in {known, p.rev}
      BY <1>1 DEF SyncTypeOK
    <3>2. \E b \in Nat : \A x \in {known, p.rev} : x <= b
      BY <3>1
    <3> QED
      BY <3>1, <3>2, NatMax
  <2> QED
    BY <1>4, <1>9, <2>2, <2>3 DEF Remember, SyncTypeOK
<1>10. CASE Forget(t)
  <2> DEFINE to == [p EXCEPT !.at = "prepare", !.stored = Null, !.rev = 0]
  <2>1. p.want \in Drafts
    BY <1>10, <1>1 DEF Forget, TabComplete
  <2>2. to \in TabState /\ TabComplete(to)
    BY <1>1, <2>1 DEF TabState, TabComplete, Places
  <2>3. Become(t, to) \/ Become(t, Idle(p.cred))
    BY <1>10 DEF Forget
  <2>4. returned' \subseteq [draft : Drafts, rev : Nat]
    BY <1>1, <1>10, <2>1 DEF Forget, SyncTypeOK
  <2> QED
    BY <1>2, <1>4, <1>10, <2>2, <2>3, <2>4 DEF Forget, SyncTypeOK
<1>11. CASE Discard(t)
  BY <1>2, <1>4, <1>11 DEF Discard, SyncTypeOK
<1>12. CASE Rebase(t)
  <2>1. p.want \in Drafts /\ p.stored \in Mutation
    BY <1>12, <1>1 DEF Rebase, TabComplete
  <2>2. Fresh(p.want, p.cred) \in Mutation
    BY <1>1, <1>12, <2>1, DrawnMutation DEF Rebase, SyncTypeOK
  <2> DEFINE to == [p EXCEPT !.at = "install", !.fresh = Fresh(p.want, p.cred)]
  <2>3. to \in TabState /\ TabComplete(to)
    BY <1>1, <2>1, <2>2 DEF TabState, TabComplete, Places
  <2> QED
    BY <1>4, <1>12, <2>3 DEF Rebase, SyncTypeOK
<1>13. CASE Install(t)
  <2> DEFINE to == [p EXCEPT !.at = "send", !.stored = p.fresh, !.fresh = Null, !.rev = 0]
  <2>1. p.fresh \in Mutation /\ p.want \in Drafts
    BY <1>13, <1>1 DEF Install, TabComplete
  <2>2. to \in TabState /\ TabComplete(to)
    BY <1>1, <2>1 DEF TabState, TabComplete, Places
  <2>3. Become(t, to) \/ Become(t, Idle(p.cred))
    BY <1>13 DEF Install
  <2>4. pending' \in Mutation \cup {Null}
    BY <1>13, <2>1 DEF Install, SyncTypeOK
  <2> QED
    BY <1>2, <1>4, <1>13, <2>2, <2>3, <2>4 DEF Install, SyncTypeOK
<1>14. CASE Abandon(t)
  <2>1. pending' \in Mutation \cup {Null}
    BY <1>14 DEF Abandon, SyncTypeOK
  <2> QED
    BY <1>2, <1>4, <1>14, <2>1 DEF Abandon, SyncTypeOK
<1>15. CASE Reload(t)
  BY <1>3, <1>4, <1>15 DEF Reload, SyncTypeOK
<1>16. CASE Timeout(t)
  BY <1>2, <1>4, <1>16 DEF Timeout, SyncTypeOK
<1>17. CASE Close(t)
  BY <1>3, <1>4, <1>17 DEF Close, SyncTypeOK
<1> QED
  BY <1>5, <1>6, <1>7, <1>8, <1>9, <1>10, <1>11, <1>12, <1>13, <1>14, <1>15, <1>16,
     <1>17 DEF TabStep

\* The answer that a copy of request q gets; the tabs of T hear it.
LEMMA HearTypes ==
  ASSUME SyncTypeOK, NEW q \in Written, NEW c, NEW T \in SUBSET Waiting(c, q), NEW to,
         Hear(T, to), \A t \in T : to[t] \in TabState /\ TabComplete(to[t])
  PROVE  tab' \in [Tabs -> TabState] /\ \A u \in Tabs : TabComplete(tab'[u])
<1>1. T \subseteq Tabs
  BY DEF Waiting
<1> QED
  BY <1>1 DEF Hear, SyncTypeOK

\* A tab that waits has a mutation in its hands.
LEMMA WaitingFacts ==
  ASSUME SyncTypeOK, NEW c, NEW q, NEW t \in Waiting(c, q)
  PROVE  /\ t \in Tabs /\ tab[t].at = "wait" /\ tab[t].cred = c /\ c \in Owners
         /\ tab[t] \in TabState /\ tab[t].want \in Drafts
         /\ tab[t].stored \in Mutation /\ tab[t].stored.request = q
<1>1. t \in Tabs /\ tab[t].at = "wait" /\ tab[t].cred = c /\ tab[t].stored.request = q
  BY DEF Waiting
<1> QED
  BY <1>1, TabTyped DEF TabComplete

LEMMA ServeTypes ==
  ASSUME TypeOK, TypeOK', SyncTypeOK, NEW s \in sent, Serve(s[1], s[2])
  PROVE  SyncTypeOK'
<1> DEFINE c == s[1]
           q == s[2]
<1>1. c \in Owners /\ q \in Written
  BY DEF SyncTypeOK
<1>2. PICK T \in SUBSET Waiting(c, q) :
        Accepted(c, q, T) \/ Conflict(c, q, T) \/ Unserved(c, q, T)
  BY DEF Serve
<1>3. \A t \in T : /\ tab[t].at = "wait" /\ tab[t].cred = c
                   /\ tab[t] \in TabState /\ tab[t].want \in Drafts
                   /\ tab[t].stored \in Mutation
  BY WaitingFacts
<1> HIDE DEF c, q
<1>4. ASSUME NEW to, Hear(T, to),
             \A t \in T : to[t] \in TabState /\ TabComplete(to[t]),
             settled' \subseteq Written, refused' \subseteq Written
      PROVE  SyncTypeOK'
  <2>1. tab' \in [Tabs -> TabState] /\ \A u \in Tabs : TabComplete(tab'[u])
    BY <1>1, <1>4, HearTypes
  <2> QED
    BY <1>4, <2>1 DEF Hear, SyncTypeOK
<1>5. CASE Accepted(c, q, T)
  <2>1. PICK r \in receipts' :
          Hear(T, [t \in T |-> [tab[t] EXCEPT !.at = "told", !.rev = r.rev]])
    BY <1>5 DEF Accepted
  <2>2. r.rev \in Nat
    BY <2>1 DEF TypeOK, Receipt
  <2> DEFINE to == [t \in T |-> [tab[t] EXCEPT !.at = "told", !.rev = r.rev]]
  <2>3. ASSUME NEW t \in T PROVE to[t] \in TabState /\ TabComplete(to[t])
    BY <1>3, <2>2 DEF TabState, TabComplete, Places
  <2>4. settled' \subseteq Written /\ refused' \subseteq Written
    BY <1>1, <1>5 DEF Accepted, SyncTypeOK
  <2> HIDE DEF to
  <2> QED
    BY <1>4, <2>1, <2>3, <2>4 DEF to
<1>6. CASE Conflict(c, q, T)
  <2> DEFINE to == [t \in T |->
                     [tab[t] EXCEPT
                        !.at = IF tab[t].stored.owner = c THEN "refused" ELSE "conflict",
                        !.rev = records[q.id].rev]]
  <2>1. Hear(T, to)
    BY <1>6 DEF Conflict
  <2>2. records[q.id].rev \in Nat
    BY <1>1, WrittenFacts DEF TypeOK, Record
  <2>3. ASSUME NEW t \in T PROVE to[t] \in TabState /\ TabComplete(to[t])
    BY <1>3, <2>2 DEF TabState, TabComplete, Places
  <2>4. settled' \subseteq Written /\ refused' \subseteq Written
    BY <1>1, <1>6 DEF Conflict, SyncTypeOK
  <2> HIDE DEF to
  <2> QED
    BY <1>4, <2>1, <2>3, <2>4
<1>7. CASE Unserved(c, q, T)
  <2> DEFINE to == [t \in T |-> Idle(c)]
  <2>1. Hear(T, to) /\ settled' = settled /\ refused' = refused
    BY <1>7 DEF Unserved
  <2>2. ASSUME NEW t \in T PROVE to[t] \in TabState /\ TabComplete(to[t])
    BY <1>1, IdleTyped
  <2>3. settled' \subseteq Written /\ refused' \subseteq Written
    BY <2>1 DEF SyncTypeOK
  <2> HIDE DEF to
  <2> QED
    BY <1>4, <2>1, <2>2, <2>3
<1> QED
  BY <1>2, <1>5, <1>6, <1>7

LEMMA SyncTypeStep ==
  ASSUME TypeInv, SyncTypeOK, [SyncNext]_allVars
  PROVE  TypeInv' /\ SyncTypeOK'
<1>1. TypeInv'
  BY RelayStep, TypeStep
<1>2. ASSUME NEW t \in Tabs, TabStep(t) \/ Timeout(t) \/ Close(t)
      PROVE  SyncTypeOK'
  BY <1>2, TabStepTypes
<1>3. ASSUME NEW s \in sent, Serve(s[1], s[2])
      PROVE  SyncTypeOK'
  BY <1>1, <1>3, ServeTypes DEF TypeInv
<1>4. ASSUME NEW c \in Owners, Recredential(c) \/ Disown(c)
      PROVE  SyncTypeOK'
  BY <1>4 DEF Recredential, Disown, SyncTypeOK, syncVars
<1>5. ASSUME Acknowledge
      PROVE  SyncTypeOK'
  <2>1. known' \in Nat
    <3>1. Key \in Ids /\ records[Key].rev \in Nat
      BY SyncAssumption DEF TypeInv, TypeOK, Ids, Record
    <3> QED
      BY <1>5, <3>1 DEF Acknowledge
  <2> QED
    BY <1>5, <2>1 DEF Acknowledge, SyncTypeOK
<1>6. ASSUME Duplicate \/ Relaunch
      PROVE  SyncTypeOK'
  BY <1>6 DEF Duplicate, Relaunch, SyncTypeOK
<1>7. ASSUME Elsewhere \/ UNCHANGED allVars
      PROVE  SyncTypeOK'
  BY <1>7 DEF Elsewhere, allVars, syncVars, SyncTypeOK
<1> QED
  BY <1>1, <1>2, <1>3, <1>4, <1>5, <1>6, <1>7 DEF SyncNext

LEMMA SyncTypeInit == SyncInit => TypeInv /\ SyncTypeOK
<1> SUFFICES ASSUME SyncInit PROVE TypeInv /\ SyncTypeOK
  OBVIOUS
<1>1. TypeInv
  BY TypeInit DEF SyncInit
<1>2. session \in Owners
  BY SyncAssumption, NatMin DEF SyncInit
<1>3. Idle(session) \in TabState /\ TabComplete(Idle(session))
  BY <1>2, IdleTyped
<1> QED
  BY <1>1, <1>2, <1>3 DEF SyncInit, SyncTypeOK

-----------------------------------------------------------------------------
(* The requests of the device *)

\* Those it holds, and those it has sent at any time.
Sends == {s[2] : s \in sent}
Requested == {m.request : m \in Held} \cup Sends

LEMMA RequestedFacts ==
  ASSUME SyncTypeOK
  PROVE  /\ Requested \subseteq Written
         /\ Drawn = {q.mutation : q \in Requested}
         /\ pending # Null => pending.request \in Requested
         /\ \A t \in Tabs :
              /\ tab[t].stored # Null => tab[t].stored.request \in Requested
              /\ tab[t].fresh # Null => tab[t].fresh.request \in Requested
<1>1. Held \subseteq Mutation
  BY TabTyped DEF Held, SyncTypeOK
<1>2. Requested \subseteq Written
  BY <1>1, MutationFacts DEF Requested, Sends, SyncTypeOK
<1>3. Drawn = {q.mutation : q \in Requested}
  BY DEF Drawn, Requested, Sends
<1>4. ASSUME pending # Null PROVE pending.request \in Requested
  BY <1>4 DEF Requested, Held
<1>5. ASSUME NEW t \in Tabs, NEW m \in {tab[t].stored, tab[t].fresh}, m # Null
      PROVE  m.request \in Requested
  BY <1>5 DEF Requested, Held
<1> QED
  BY <1>2, <1>3, <1>4, <1>5

\* A step of one tab requests what it, the storage or the network had, and what
\* it puts there.
LEMMA BecomeRequests ==
  ASSUME SyncTypeOK, NEW t \in Tabs, NEW to, Become(t, to), NEW N,
         \A m \in {pending', to.stored, to.fresh} :
           m # Null => m.request \in Requested \cup N,
         \A q \in Sends' : q \in Requested \cup N
  PROVE  Requested' \subseteq Requested \cup N
<1>1. ASSUME NEW m \in Held' PROVE m.request \in Requested \cup N
  <2>1. \A u \in Tabs : tab'[u] = IF u = t THEN to ELSE tab[u]
    BY DEF Become, SyncTypeOK
  <2>2. m # Null /\ (m = pending' \/ \E u \in Tabs : m \in {tab'[u].stored, tab'[u].fresh})
    BY DEF Held
  <2>3. ASSUME NEW u \in Tabs, u # t, m \in {tab'[u].stored, tab'[u].fresh}
        PROVE  m.request \in Requested
    BY <2>1, <2>2, <2>3, RequestedFacts
  <2> QED
    BY <2>1, <2>2, <2>3
<1> QED
  BY <1>1 DEF Requested

\* A step of a tab makes at most one new request, under an id never drawn before
\* and over the revision the device knows.
LEMMA TabRequests ==
  ASSUME SyncTypeOK, NEW t \in Tabs, TabStep(t) \/ Timeout(t) \/ Close(t)
  PROVE  \/ Requested' \subseteq Requested
         \/ \E q \in Written : /\ Requested' \subseteq Requested \cup {q}
                               /\ q.mutation \notin Drawn /\ q.base = known
<1> DEFINE p == tab[t]
           New(q) == /\ Requested' \subseteq Requested \cup {q}
                     /\ q.mutation \notin Drawn /\ q.base = known
<1>1. /\ p \in TabState /\ TabComplete(p) /\ p.cred \in Owners
      /\ p.stored # Null => p.stored.request \in Requested
      /\ p.fresh # Null => p.fresh.request \in Requested
      /\ pending # Null => pending.request \in Requested
  BY TabTyped, RequestedFacts
<1>2. Sends \subseteq Requested
  BY DEF Requested
<1>3. ASSUME NEW to, Become(t, to), Sends' \subseteq Requested,
             \A m \in {pending', to.stored, to.fresh} : m # Null => m.request \in Requested
      PROVE  Requested' \subseteq Requested
  BY <1>3, BecomeRequests
<1>4. \A c : Idle(c).stored = Null /\ Idle(c).fresh = Null
  BY DEF Idle
<1>5. ASSUME NEW d \in Drafts, Push(t, d) \/ Handoff(t, d)
      PROVE  Requested' \subseteq Requested
  <2>1. PICK to \in {[p EXCEPT !.at = "prepare", !.want = d],
                     [p EXCEPT !.at = "send", !.want = d, !.stored = pending]} :
          Become(t, to)
    BY <1>5, <1>1 DEF Push, Handoff
  <2>2. to.fresh = p.fresh /\ to.stored \in {p.stored, pending}
    BY <2>1, <1>1 DEF TabState
  <2>3. pending' = pending /\ sent' = sent
    BY <1>5 DEF Push, Handoff
  <2> QED
    BY <1>1, <1>2, <1>3, <2>1, <2>2, <2>3 DEF Sends
<1>6. ASSUME NEW place, Prepare(t) \/ Rebase(t),
             place = IF p.at = "prepare" THEN "persist" ELSE "install"
      PROVE  \E q \in Written : New(q)
  <2> DEFINE m == Fresh(p.want, p.cred)
             to == [p EXCEPT !.at = place, !.fresh = m]
  <2>1. p.want \in Drafts /\ CanWrite(p.want, p.cred)
    BY <1>6, <1>1 DEF Prepare, Rebase, TabComplete
  <2>2. known \in Nat
    BY DEF SyncTypeOK
  <2>3. /\ m \in Mutation /\ m.request.mutation \notin Drawn
        /\ m.request.base = known
    BY <1>1, <2>1, <2>2, DrawnMutation
  <2>4. m.request \in Written
    BY <2>3, MutationFacts
  <2> HIDE DEF m
  <2>5. Become(t, to) /\ pending' = pending /\ sent' = sent
    BY <1>6 DEF Prepare, Rebase, m
  <2>6. to.stored = p.stored /\ to.fresh = m
    BY <1>1 DEF TabState
  <2> HIDE DEF to
  <2> DEFINE N == {m.request}
  <2>7. \A x \in {pending', to.stored, to.fresh} :
          x # Null => x.request \in Requested \cup N
    BY <1>1, <2>5, <2>6
  <2>8. \A x \in Sends' : x \in Requested \cup N
    BY <1>2, <2>5 DEF Sends
  <2> HIDE DEF N
  <2>9. Requested' \subseteq Requested \cup N
    BY <2>5, <2>7, <2>8, BecomeRequests
  <2> QED
    BY <2>3, <2>4, <2>9 DEF N
<1>7. CASE Persist(t)
  <2> DEFINE to == [p EXCEPT !.at = "send", !.stored = p.fresh, !.fresh = Null]
  <2>1. Become(t, to) /\ pending' = p.fresh /\ sent' = sent
    BY <1>7 DEF Persist
  <2>2. to.stored = p.fresh /\ to.fresh = Null
    BY <1>1 DEF TabState
  <2> HIDE DEF to
  <2> QED
    BY <1>1, <1>2, <1>3, <2>1, <2>2 DEF Sends
<1>8. CASE Send(t)
  <2> DEFINE to == [p EXCEPT !.at = "wait"]
  <2>1. Become(t, to) \/ Become(t, Idle(p.cred))
    BY <1>8 DEF Send
  <2>2. pending' = pending /\ sent' = sent \cup {<<p.cred, p.stored.request>>}
    BY <1>8 DEF Send
  <2>3. p.stored \in Mutation
    BY <1>1, <1>8 DEF Send, TabComplete
  <2>4. p.stored.request \in Requested
    BY <1>1, <2>3, MutationFacts
  <2>5. Sends' \subseteq Requested
    BY <1>2, <2>2, <2>4 DEF Sends
  <2>6. to.stored = p.stored /\ to.fresh = p.fresh
    BY <1>1 DEF TabState
  <2> HIDE DEF to
  <2> QED
    BY <1>1, <1>3, <1>4, <2>1, <2>2, <2>5, <2>6
<1>9. CASE Remember(t)
  <2> DEFINE to == [p EXCEPT !.at = "remembered"]
  <2>1. Become(t, to) /\ pending' = pending /\ sent' = sent
    BY <1>9 DEF Remember
  <2>2. to.stored = p.stored /\ to.fresh = p.fresh
    BY <1>1 DEF TabState
  <2> HIDE DEF to
  <2> QED
    BY <1>1, <1>2, <1>3, <2>1, <2>2 DEF Sends
<1>10. CASE Forget(t)
  <2> DEFINE to == [p EXCEPT !.at = "prepare", !.stored = Null, !.rev = 0]
  <2>1. Become(t, to) \/ Become(t, Idle(p.cred))
    BY <1>10 DEF Forget
  <2>2. pending' = Null /\ sent' = sent
    BY <1>10 DEF Forget
  <2>3. to.stored = Null /\ to.fresh = p.fresh
    BY <1>1 DEF TabState
  <2> HIDE DEF to
  <2> QED
    BY <1>1, <1>2, <1>3, <1>4, <2>1, <2>2, <2>3 DEF Sends
<1>11. CASE Install(t)
  <2> DEFINE to == [p EXCEPT !.at = "send", !.stored = p.fresh, !.fresh = Null, !.rev = 0]
  <2>1. Become(t, to) \/ Become(t, Idle(p.cred))
    BY <1>11 DEF Install
  <2>2. pending' \in {pending, p.fresh} /\ sent' = sent
    BY <1>11 DEF Install
  <2>3. to.stored = p.fresh /\ to.fresh = Null
    BY <1>1 DEF TabState
  <2> HIDE DEF to
  <2> QED
    BY <1>1, <1>2, <1>3, <1>4, <2>1, <2>2, <2>3 DEF Sends
<1>12. CASE Discard(t) \/ Abandon(t) \/ Reload(t) \/ Timeout(t) \/ Close(t)
  <2>1. /\ Become(t, Idle(p.cred)) \/ Become(t, Idle(session))
        /\ pending' \in {pending, Null} /\ sent' = sent
    BY <1>12 DEF Discard, Abandon, Reload, Timeout, Close
  <2> QED
    BY <1>1, <1>2, <1>3, <1>4, <2>1 DEF Sends
<1> QED
  BY <1>5, <1>6, <1>7, <1>8, <1>9, <1>10, <1>11, <1>12 DEF TabStep

\* An answer gives the tabs that hear it no new mutation.
LEMMA ServeRequests ==
  ASSUME SyncTypeOK, NEW s \in sent, Serve(s[1], s[2])
  PROVE  Requested' \subseteq Requested
<1> DEFINE c == s[1]
           q == s[2]
<1>1. PICK T \in SUBSET Waiting(c, q) :
        Accepted(c, q, T) \/ Conflict(c, q, T) \/ Unserved(c, q, T)
  BY DEF Serve
<1>2. T \subseteq Tabs /\ \A t \in T : tab[t] \in TabState
  BY WaitingFacts
<1> HIDE DEF c, q
<1>3. \E to : /\ Hear(T, to)
              /\ \A t \in T : /\ to[t].stored \in {tab[t].stored, Null}
                              /\ to[t].fresh \in {tab[t].fresh, Null}
  <2>1. CASE Accepted(c, q, T)
    <3>1. PICK r \in receipts' :
            Hear(T, [t \in T |-> [tab[t] EXCEPT !.at = "told", !.rev = r.rev]])
      BY <2>1 DEF Accepted
    <3> DEFINE to == [t \in T |-> [tab[t] EXCEPT !.at = "told", !.rev = r.rev]]
    <3>2. \A t \in T : to[t].stored = tab[t].stored /\ to[t].fresh = tab[t].fresh
      BY <1>2 DEF TabState
    <3> HIDE DEF to
    <3> QED
      BY <3>1, <3>2 DEF to
  <2>2. CASE Conflict(c, q, T)
    <3> DEFINE to == [t \in T |->
                       [tab[t] EXCEPT
                          !.at = IF tab[t].stored.owner = c THEN "refused" ELSE "conflict",
                          !.rev = records[q.id].rev]]
    <3>1. Hear(T, to)
      BY <2>2 DEF Conflict
    <3>2. \A t \in T : to[t].stored = tab[t].stored /\ to[t].fresh = tab[t].fresh
      BY <1>2 DEF TabState
    <3> HIDE DEF to
    <3> QED
      BY <3>1, <3>2
  <2>3. CASE Unserved(c, q, T)
    <3> DEFINE to == [t \in T |-> Idle(c)]
    <3>1. Hear(T, to)
      BY <2>3 DEF Unserved
    <3>2. \A t \in T : to[t].stored = Null /\ to[t].fresh = Null
      BY DEF Idle
    <3> HIDE DEF to
    <3> QED
      BY <3>1, <3>2
  <2> QED
    BY <1>1, <2>1, <2>2, <2>3
<1>4. pending' = pending /\ sent' = sent
  BY <1>3 DEF Hear
<1>5. ASSUME NEW t \in Tabs
      PROVE  /\ tab'[t].stored \in {tab[t].stored, Null}
             /\ tab'[t].fresh \in {tab[t].fresh, Null}
  BY <1>3 DEF Hear
<1>6. Held' \subseteq Held
  BY <1>4, <1>5 DEF Held
<1> QED
  BY <1>4, <1>6 DEF Requested, Sends

\* At most one new request at a time, for the whole device.
LEMMA RequestsStep ==
  ASSUME SyncTypeOK, [SyncNext]_allVars
  PROVE  \/ Requested' \subseteq Requested
         \/ \E q \in Written : /\ Requested' \subseteq Requested \cup {q}
                               /\ q.mutation \notin Drawn /\ q.base = known
<1>1. ASSUME NEW s \in sent, Serve(s[1], s[2])
      PROVE  Requested' \subseteq Requested
  BY <1>1, ServeRequests
<1>2. ASSUME UNCHANGED <<pending, tab, sent>>
      PROVE  Requested' \subseteq Requested
  BY <1>2 DEF Requested, Held, Sends
<1>3. CASE \/ \E c \in Owners : Recredential(c) \/ Disown(c)
           \/ Acknowledge \/ Duplicate \/ Elsewhere \/ Relaunch \/ UNCHANGED allVars
  BY <1>2, <1>3 DEF Recredential, Disown, Acknowledge, Duplicate, Elsewhere, Relaunch,
                    allVars, syncVars
<1> QED
  BY <1>1, <1>3, TabRequests DEF SyncNext

\* What was sent stays sent, and what is sent was requested.
LEMMA SentGrows ==
  ASSUME SyncTypeOK, [SyncNext]_allVars
  PROVE  sent \subseteq sent'
<1>1. ASSUME NEW t \in Tabs, TabStep(t) \/ Timeout(t) \/ Close(t)
      PROVE  sent \subseteq sent'
  BY <1>1 DEF TabStep, Push, Handoff, Prepare, Persist, Send, Remember, Forget, Discard,
              Rebase, Install, Abandon, Reload, Timeout, Close
<1>2. ASSUME NEW s \in sent, Serve(s[1], s[2])
      PROVE  sent' = sent
  BY <1>2 DEF Serve, Accepted, Conflict, Unserved, Hear
<1>3. CASE \/ \E c \in Owners : Recredential(c) \/ Disown(c)
           \/ Acknowledge \/ Duplicate \/ Elsewhere \/ Relaunch \/ UNCHANGED allVars
  BY <1>3 DEF Recredential, Disown, Acknowledge, Duplicate, Elsewhere, Relaunch,
              allVars, syncVars
<1> QED
  BY <1>1, <1>2, <1>3 DEF SyncNext

-----------------------------------------------------------------------------
(* What is known of them *)

\* A mutation id stands for one request.
IdsAreDrawnOnce ==
  \A p, q \in Requested : p.mutation = q.mutation => p = q

\* The device knows no revision the relay has not given out, and writes over none.
BasesBehind ==
  /\ known <= records[Key].rev
  /\ \A q \in Requested : q.base <= records[Key].rev

\* Under the ids this device draws, the relay works on and has committed nothing
\* but what this device sent.
TrafficIsOwn ==
  /\ \A h \in inflight : h[2].mutation \in Drawable => h[2] \in Sends
  /\ \A r \in receipts : r.request.mutation \in Drawable => r.request \in Sends

\* A tab that was told a revision was told the relay's answer to its mutation.
ToldAsAnswered ==
  \A t \in Tabs : tab[t].at \in {"told", "remembered"} =>
    [request |-> tab[t].stored.request, rev |-> tab[t].rev] \in answered

LEMMA IdsStep ==
  ASSUME SyncTypeOK, IdsAreDrawnOnce, [SyncNext]_allVars
  PROVE  IdsAreDrawnOnce'
<1>1. Drawn = {q.mutation : q \in Requested}
  BY RequestedFacts
<1>2. CASE Requested' \subseteq Requested
  BY <1>2 DEF IdsAreDrawnOnce
<1>3. ASSUME NEW x \in Written, Requested' \subseteq Requested \cup {x},
             x.mutation \notin Drawn
      PROVE  IdsAreDrawnOnce'
  BY <1>1, <1>3 DEF IdsAreDrawnOnce
<1> QED
  BY <1>2, <1>3, RequestsStep

\* The revision a tab was told is one the note has reached.
LEMMA ToldBehind ==
  ASSUME TypeInv, Settled, SyncTypeOK, ToldAsAnswered, NEW t \in Tabs, tab[t].at = "told"
  PROVE  tab[t].rev <= records[Key].rev
<1> DEFINE x == [request |-> tab[t].stored.request, rev |-> tab[t].rev]
<1>1. tab[t].stored \in Mutation /\ tab[t].rev \in Nat
  BY TabTyped DEF TabComplete
<1>2. tab[t].stored.request.id = Key /\ Key \in Notes /\ Key \in Ids
  BY <1>1, MutationFacts, WrittenFacts
<1>3. records[Key].rev \in Nat
  BY <1>2 DEF TypeInv, TypeOK, Record
<1>4. x \in answered /\ x.request.id = Key /\ x.rev = tab[t].rev
  BY <1>2 DEF ToldAsAnswered
<1> HIDE DEF x
<1>5. records[Key].rev >= x.rev
  BY <1>2, <1>4 DEF Settled
<1> QED
  BY <1>1, <1>3, <1>4, <1>5

LEMMA KnownStep ==
  ASSUME TypeInv, Settled, SyncTypeOK, ToldAsAnswered, known <= records[Key].rev,
         [SyncNext]_allVars
  PROVE  known' <= records[Key].rev
<1>1. Key \in Ids /\ records[Key].rev \in Nat /\ known \in Nat
  BY SyncAssumption DEF TypeInv, TypeOK, Ids, Record, SyncTypeOK
<1>2. ASSUME NEW t \in Tabs, Remember(t)
      PROVE  known' <= records[Key].rev
  <2>1. tab[t].rev \in Nat /\ tab[t].rev <= records[Key].rev
    BY <1>2, TabTyped, ToldBehind DEF Remember
  <2>2. {known, tab[t].rev} \in SUBSET Nat /\ {known, tab[t].rev} # {}
    BY <1>1, <2>1
  <2>3. \A x \in {known, tab[t].rev} : x <= records[Key].rev
    BY <2>1
  <2>4. Max({known, tab[t].rev}) \in {known, tab[t].rev}
    BY <1>1, <2>2, <2>3, NatMax
  <2>5. Max({known, tab[t].rev}) <= records[Key].rev
    BY <2>3, <2>4
  <2> QED
    BY <1>2, <2>5 DEF Remember
<1>3. ASSUME NEW t \in Tabs, TabStep(t) \/ Timeout(t) \/ Close(t), ~Remember(t)
      PROVE  known' = known
  BY <1>3 DEF TabStep, Push, Handoff, Prepare, Persist, Send, Forget, Discard, Rebase,
              Install, Abandon, Reload, Timeout, Close
<1>4. ASSUME NEW s \in sent, Serve(s[1], s[2])
      PROVE  known' = known
  BY <1>4 DEF Serve, Accepted, Conflict, Unserved, Hear
<1>5. CASE Acknowledge
  BY <1>1, <1>5 DEF Acknowledge
<1>6. CASE \/ \E c \in Owners : Recredential(c) \/ Disown(c)
           \/ Duplicate \/ Elsewhere \/ Relaunch \/ UNCHANGED allVars
  BY <1>6 DEF Recredential, Disown, Duplicate, Elsewhere, Relaunch, allVars, syncVars
<1> QED
  BY <1>1, <1>2, <1>3, <1>4, <1>5, <1>6 DEF SyncNext

LEMMA BasesStep ==
  ASSUME TypeInv, Settled, SyncTypeOK, ToldAsAnswered, BasesBehind, [SyncNext]_allVars
  PROVE  BasesBehind'
<1> DEFINE top == records[Key].rev
<1>1. Key \in Ids /\ top \in Nat /\ known \in Nat
  BY SyncAssumption DEF TypeInv, TypeOK, Ids, Record, SyncTypeOK
<1>2. known <= top /\ \A q \in Requested : q.base <= top
  BY DEF BasesBehind
<1>3. records'[Key].rev \in Nat /\ records'[Key].rev >= top
  BY <1>1, RelayStep, RevisionsGrow
<1>4. known' <= top /\ known' \in Nat
  BY <1>2, KnownStep, SyncTypeStep DEF SyncTypeOK
<1>5. \A q \in Requested' : q.base <= top
  BY <1>2, RequestsStep
<1>6. \A q \in Requested' : q.base \in Nat
  <2>1. Requested' \subseteq Written
    BY RequestsStep, RequestedFacts
  <2> QED
    BY <2>1, WrittenFacts
<1> HIDE DEF top
<1> QED
  BY <1>1, <1>3, <1>4, <1>5, <1>6 DEF BasesBehind

\* A transaction adds at most the receipt of its own request.
LEMMA ReceiptsOfPut ==
  ASSUME TypeInv, NEW c, NEW q, Put(c, q)
  PROVE  \A r \in receipts' : r \in receipts \/ r.request = q
<1>1. Pruned(1) \subseteq receipts
  BY RetainedTypes DEF TypeInv
<1> QED
  BY <1>1 DEF Put, WithReceipt

LEMMA TrafficStep ==
  ASSUME TypeInv, SyncTypeOK, TrafficIsOwn, [SyncNext]_allVars
  PROVE  TrafficIsOwn'
<1>1. Sends \subseteq Sends'
  BY SentGrows DEF Sends
<1>2. ASSUME \A h \in inflight' : \/ h \in inflight \/ h[2].mutation \notin Drawable
                                  \/ h[2] \in Sends',
             \A r \in receipts' : \/ r \in receipts \/ r.request.mutation \notin Drawable
                                  \/ r.request \in Sends'
      PROVE  TrafficIsOwn'
  BY <1>1, <1>2 DEF TrafficIsOwn
<1>3. ASSUME NEW c, NEW q, q.mutation \notin Drawable \/ q \in Sends',
             Begin(c, q) \/ Replay(c, q) \/ Put(c, q) \/ Refuse(c, q)
      PROVE  TrafficIsOwn'
  <2>1. \A h \in inflight' : h \in inflight \/ h[2] = q
    BY <1>3 DEF Begin, Replay, Put, Refuse, Finish
  <2>2. \A r \in receipts' : r \in receipts \/ r.request = q
    <3>1. CASE Put(c, q)
      BY <3>1, ReceiptsOfPut
    <3>2. CASE Begin(c, q) \/ Replay(c, q) \/ Refuse(c, q)
      BY <3>2 DEF Begin, Replay, Refuse
    <3> QED
      BY <1>3, <3>1, <3>2
  <2> QED
    BY <1>2, <1>3, <2>1, <2>2
<1>4. ASSUME UNCHANGED <<inflight, receipts>>
      PROVE  TrafficIsOwn'
  BY <1>2, <1>4
<1>5. ASSUME NEW t \in Tabs, TabStep(t) \/ Timeout(t) \/ Close(t)
      PROVE  TrafficIsOwn'
  <2>1. CASE Send(t)
    <3> DEFINE s == <<tab[t].cred, tab[t].stored.request>>
    <3>3. s \in sent' /\ s[2] = tab[t].stored.request
      BY <2>1 DEF Send
    <3> HIDE DEF s
    <3>1. tab[t].stored.request \in Sends'
      BY <3>3 DEF Sends
    <3>2. Begin(tab[t].cred, tab[t].stored.request) \/ UNCHANGED vars
      BY <2>1 DEF Send
    <3> QED
      BY <1>3, <1>4, <3>1, <3>2 DEF vars
  <2>2. CASE ~Send(t)
    <3>1. UNCHANGED vars
      BY <1>5, <2>2 DEF TabStep, Push, Handoff, Prepare, Persist, Remember, Forget,
                        Discard, Rebase, Install, Abandon, Reload, Timeout, Close
    <3> QED
      BY <1>4, <3>1 DEF vars
  <2> QED
    BY <2>1, <2>2
<1>6. ASSUME NEW s \in sent, Serve(s[1], s[2]) \/ Begin(s[1], s[2])
      PROVE  TrafficIsOwn'
  <2>1. s[2] \in Sends'
    BY <1>1 DEF Sends
  <2> QED
    BY <1>3, <1>6, <2>1 DEF Serve, Accepted, Conflict, Unserved
<1>7. CASE Duplicate
  BY <1>6, <1>7 DEF Duplicate
<1>8. CASE Elsewhere
  BY <1>3, <1>8 DEF Elsewhere
<1>9. CASE Relaunch
  <2>1. Pruned(0) \subseteq receipts
    BY RetainedTypes DEF TypeInv
  <2> QED
    BY <1>2, <1>9, <2>1 DEF Relaunch, Restart
<1>10. CASE \/ \E c \in Owners : Recredential(c) \/ Disown(c)
            \/ Acknowledge \/ UNCHANGED allVars
  BY <1>4, <1>10 DEF Recredential, Disown, Revoke, Acknowledge, allVars, vars
<1> QED
  BY <1>5, <1>6, <1>7, <1>8, <1>9, <1>10 DEF SyncNext

\* Only the tabs that hear an answer move.
LEMMA HearOthers ==
  ASSUME SyncTypeOK, NEW T, NEW to, Hear(T, to), NEW t \in Tabs
  PROVE  tab'[t] = IF t \in T THEN to[t] ELSE tab[t]
BY DEF Hear

\* The places a tab goes through, and the mutation it works on.
LEMMA Moves ==
  ASSUME SyncTypeOK, NEW t \in Tabs, TabStep(t) \/ Timeout(t) \/ Close(t)
  PROVE  /\ \A u \in Tabs : u # t => tab'[u] = tab[u]
         /\ \A d \in Drafts : Push(t, d) \/ Handoff(t, d) =>
              \/ tab'[t].at = "prepare" /\ tab[t].at = "idle" /\ pending = Null
              \/ /\ tab'[t].at = "send" /\ tab[t].at = "idle" /\ pending # Null
                 /\ tab'[t].stored = pending
         /\ Prepare(t) => tab'[t].at = "persist" /\ tab[t].at = "prepare"
         /\ Persist(t) => /\ tab'[t].at = "send" /\ tab[t].at = "persist"
                          /\ tab'[t].stored = pending'
         /\ Send(t) => /\ tab[t].at = "send"
                       /\ tab'[t].at = "idle" \/ /\ tab'[t].at = "wait"
                                                 /\ tab'[t].stored = tab[t].stored
         /\ Remember(t) => /\ tab'[t].at = "remembered" /\ tab[t].at = "told"
                           /\ tab'[t].stored = tab[t].stored /\ tab'[t].rev = tab[t].rev
         /\ Forget(t) => tab'[t].at \in {"prepare", "idle"} /\ tab[t].at = "remembered"
         /\ Rebase(t) => /\ tab'[t].at = "install" /\ tab[t].at = "conflict"
                         /\ tab'[t].stored = tab[t].stored
         /\ Install(t) =>
              /\ tab[t].at = "install"
              /\ \/ tab'[t].at = "idle" /\ pending' = pending
                 \/ /\ tab'[t].at = "send" /\ pending = tab[t].stored
                    /\ tab'[t].stored = pending'
         /\ Discard(t) => tab'[t].at = "idle" /\ tab[t].at = "refused"
         /\ Abandon(t) => tab'[t].at = "idle" /\ tab[t].at = "conflict"
         /\ Reload(t) => tab'[t].at = "idle" /\ tab[t].at = "idle"
         /\ Timeout(t) => tab'[t].at = "idle" /\ tab[t].at = "wait"
         /\ Close(t) => tab'[t].at = "idle"
<1>1. tab[t] \in TabState
  BY TabTyped
<1>2. ASSUME NEW to, Become(t, to)
      PROVE  tab'[t] = to /\ \A u \in Tabs : u # t => tab'[u] = tab[u]
  BY <1>2 DEF Become, SyncTypeOK
<1>3. \A c : Idle(c).at = "idle"
  BY DEF Idle
<1>4. ASSUME NEW d \in Drafts, Push(t, d) \/ Handoff(t, d)
      PROVE  /\ \/ tab'[t].at = "prepare" /\ tab[t].at = "idle" /\ pending = Null
                \/ /\ tab'[t].at = "send" /\ tab[t].at = "idle" /\ pending # Null
                   /\ tab'[t].stored = pending
             /\ \A u \in Tabs : u # t => tab'[u] = tab[u]
  <2>1. CASE Become(t, [tab[t] EXCEPT !.at = "prepare", !.want = d]) /\ pending = Null
    <3> DEFINE to == [tab[t] EXCEPT !.at = "prepare", !.want = d]
    <3>1. to.at = "prepare"
      BY <1>1 DEF TabState
    <3>2. Become(t, to) /\ tab[t].at = "idle"
      BY <1>4, <2>1 DEF Push, Handoff
    <3> HIDE DEF to
    <3> QED
      BY <1>2, <2>1, <3>1, <3>2
  <2>2. CASE Become(t, [tab[t] EXCEPT !.at = "send", !.want = d, !.stored = pending])
             /\ pending # Null
    <3> DEFINE to == [tab[t] EXCEPT !.at = "send", !.want = d, !.stored = pending]
    <3>1. to.at = "send" /\ to.stored = pending
      BY <1>1 DEF TabState
    <3>2. Become(t, to) /\ tab[t].at = "idle"
      BY <1>4, <2>2 DEF Push, Handoff
    <3> HIDE DEF to
    <3> QED
      BY <1>2, <2>2, <3>1, <3>2
  <2> QED
    BY <1>4, <2>1, <2>2 DEF Push, Handoff
<1>5. ASSUME Prepare(t)
      PROVE  /\ tab'[t].at = "persist" /\ tab[t].at = "prepare"
             /\ \A u \in Tabs : u # t => tab'[u] = tab[u]
  <2> DEFINE to == [tab[t] EXCEPT !.at = "persist", !.fresh = Fresh(tab[t].want, tab[t].cred)]
  <2>3. to.at = "persist"
    BY <1>1 DEF TabState
  <2>4. Become(t, to) /\ tab[t].at = "prepare"
    BY <1>5 DEF Prepare
  <2> HIDE DEF to
  <2> QED
    BY <1>2, <1>3, <2>3, <2>4
<1>6. ASSUME Persist(t)
      PROVE  /\ tab'[t].at = "send" /\ tab[t].at = "persist"
             /\ tab'[t].stored = pending'
             /\ \A u \in Tabs : u # t => tab'[u] = tab[u]
  <2> DEFINE to == [tab[t] EXCEPT !.at = "send", !.stored = tab[t].fresh, !.fresh = Null]
  <2>3. to.at = "send" /\ to.stored = tab[t].fresh
    BY <1>1 DEF TabState
  <2>4. /\ Become(t, to) /\ tab[t].at = "persist"
        /\ pending' = tab[t].fresh
    BY <1>6 DEF Persist
  <2> HIDE DEF to
  <2> QED
    BY <1>2, <1>3, <2>3, <2>4
<1>7. ASSUME Send(t)
      PROVE  /\ tab[t].at = "send"
             /\ \/ tab'[t].at = "idle"
                \/ tab'[t].at = "wait" /\ tab'[t].stored = tab[t].stored
             /\ \A u \in Tabs : u # t => tab'[u] = tab[u]
  <2>1. tab[t].at = "send" /\ (Become(t, [tab[t] EXCEPT !.at = "wait"])
                               \/ Become(t, Idle(tab[t].cred)))
    BY <1>7 DEF Send
  <2> DEFINE to == [tab[t] EXCEPT !.at = "wait"]
  <2>3. to.at = "wait" /\ to.stored = tab[t].stored
    BY <1>1 DEF TabState
  <2>4. tab[t].at = "send" /\ (Become(t, to) \/ Become(t, Idle(tab[t].cred)))
    BY <2>1
  <2> HIDE DEF to
  <2> QED
    BY <1>2, <1>3, <2>3, <2>4
<1>8. ASSUME Remember(t)
      PROVE  /\ tab'[t].at = "remembered" /\ tab[t].at = "told"
             /\ tab'[t].stored = tab[t].stored /\ tab'[t].rev = tab[t].rev
             /\ \A u \in Tabs : u # t => tab'[u] = tab[u]
  <2> DEFINE to == [tab[t] EXCEPT !.at = "remembered"]
  <2>3. to.at = "remembered" /\ to.stored = tab[t].stored /\ to.rev = tab[t].rev
    BY <1>1 DEF TabState
  <2>4. Become(t, to) /\ tab[t].at = "told"
    BY <1>8 DEF Remember
  <2> HIDE DEF to
  <2> QED
    BY <1>2, <1>3, <2>3, <2>4
<1>9. ASSUME Forget(t)
      PROVE  /\ tab'[t].at \in {"prepare", "idle"} /\ tab[t].at = "remembered"
             /\ \A u \in Tabs : u # t => tab'[u] = tab[u]
  <2>1. /\ tab[t].at = "remembered"
        /\ \/ Become(t, [tab[t] EXCEPT !.at = "prepare", !.stored = Null, !.rev = 0])
           \/ Become(t, Idle(tab[t].cred))
    BY <1>9 DEF Forget
  <2> DEFINE to == [tab[t] EXCEPT !.at = "prepare", !.stored = Null, !.rev = 0]
  <2>3. to.at = "prepare"
    BY <1>1 DEF TabState
  <2>4. /\ tab[t].at = "remembered"
        /\ Become(t, to) \/ Become(t, Idle(tab[t].cred))
    BY <2>1
  <2> HIDE DEF to
  <2> QED
    BY <1>2, <1>3, <2>3, <2>4
<1>10. ASSUME Rebase(t)
       PROVE  /\ tab'[t].at = "install" /\ tab[t].at = "conflict"
              /\ tab'[t].stored = tab[t].stored
              /\ \A u \in Tabs : u # t => tab'[u] = tab[u]
  <2> DEFINE to == [tab[t] EXCEPT !.at = "install", !.fresh = Fresh(tab[t].want, tab[t].cred)]
  <2>3. to.at = "install" /\ to.stored = tab[t].stored
    BY <1>1 DEF TabState
  <2>4. Become(t, to) /\ tab[t].at = "conflict"
    BY <1>10 DEF Rebase
  <2> HIDE DEF to
  <2> QED
    BY <1>2, <1>3, <2>3, <2>4
<1>11. ASSUME Install(t)
       PROVE  /\ tab[t].at = "install"
              /\ \/ tab'[t].at = "idle" /\ pending' = pending
                 \/ /\ tab'[t].at = "send" /\ pending = tab[t].stored
                    /\ tab'[t].stored = pending'
              /\ \A u \in Tabs : u # t => tab'[u] = tab[u]
  <2>1. /\ tab[t].at = "install"
        /\ \/ Become(t, Idle(tab[t].cred)) /\ pending' = pending
           \/ /\ pending = tab[t].stored /\ pending' = tab[t].fresh
              /\ Become(t, [tab[t] EXCEPT !.at = "send", !.stored = tab[t].fresh,
                                          !.fresh = Null, !.rev = 0])
    BY <1>11 DEF Install
  <2> DEFINE to == [tab[t] EXCEPT !.at = "send", !.stored = tab[t].fresh, !.fresh = Null,
                               !.rev = 0]
  <2>3. to.at = "send" /\ to.stored = tab[t].fresh
    BY <1>1 DEF TabState
  <2>4. /\ tab[t].at = "install"
        /\ \/ Become(t, Idle(tab[t].cred)) /\ pending' = pending
           \/ Become(t, to) /\ pending = tab[t].stored /\ pending' = tab[t].fresh
    BY <2>1
  <2> HIDE DEF to
  <2> QED
    BY <1>2, <1>3, <2>3, <2>4
<1>12. ASSUME Discard(t) \/ Abandon(t) \/ Reload(t) \/ Timeout(t) \/ Close(t)
       PROVE  /\ tab'[t].at = "idle" /\ \A u \in Tabs : u # t => tab'[u] = tab[u]
  BY <1>2, <1>3, <1>12 DEF Discard, Abandon, Reload, Timeout, Close
<1>13. /\ Discard(t) => tab[t].at = "refused"
       /\ Abandon(t) => tab[t].at = "conflict"
       /\ Reload(t) => tab[t].at = "idle"
       /\ Timeout(t) => tab[t].at = "wait"
  BY DEF Discard, Abandon, Reload, Timeout
<1>14. \A u \in Tabs : u # t => tab'[u] = tab[u]
  BY <1>4, <1>5, <1>6, <1>7, <1>8, <1>9, <1>10, <1>11, <1>12 DEF TabStep
<1> QED
  BY <1>4, <1>5, <1>6, <1>7, <1>8, <1>9, <1>10, <1>11, <1>12, <1>13, <1>14

LEMMA ToldStep ==
  ASSUME TypeInv, ReceiptsAnswer, SyncTypeOK, ToldAsAnswered, [SyncNext]_allVars
  PROVE  ToldAsAnswered'
<1>1. answered \subseteq answered' /\ ReceiptsAnswer'
  BY RelayStep, AnsweredGrows, ReceiptsAnswerStep
<1>2. ASSUME NEW t \in Tabs, tab'[t].at \in {"told", "remembered"},
             \/ tab'[t].at \notin {"told", "remembered"}
             \/ /\ tab[t].at \in {"told", "remembered"}
                /\ tab'[t].stored = tab[t].stored /\ tab'[t].rev = tab[t].rev
      PROVE  [request |-> tab'[t].stored.request, rev |-> tab'[t].rev] \in answered'
  BY <1>1, <1>2 DEF ToldAsAnswered
<1>3. ASSUME NEW t \in Tabs, TabStep(t) \/ Timeout(t) \/ Close(t)
      PROVE  ToldAsAnswered'
  <2>1. \A u \in Tabs : u # t => tab'[u] = tab[u]
    BY <1>3, Moves
  <2>2. \/ tab'[t].at \notin {"told", "remembered"}
        \/ /\ tab[t].at = "told"
           /\ tab'[t].stored = tab[t].stored /\ tab'[t].rev = tab[t].rev
    <3>1. CASE Remember(t)
      BY <1>3, <3>1, Moves
    <3>2. CASE \E d \in Drafts : Push(t, d) \/ Handoff(t, d)
      BY <1>3, <3>2, Moves
    <3>3. CASE ~Remember(t) /\ ~\E d \in Drafts : Push(t, d) \/ Handoff(t, d)
      <4>1. \/ Prepare(t) \/ Persist(t) \/ Send(t) \/ Forget(t) \/ Discard(t)
            \/ Rebase(t) \/ Install(t) \/ Abandon(t) \/ Reload(t)
            \/ Timeout(t) \/ Close(t)
        BY <1>3, <3>3 DEF TabStep
      <4>2. tab'[t].at \in {"idle", "prepare", "persist", "send", "wait", "install"}
        BY <1>3, <4>1, Moves
      <4> QED
        BY <4>2
    <3> QED
      BY <3>1, <3>2, <3>3
  <2> QED
    BY <1>2, <2>1, <2>2 DEF ToldAsAnswered
<1>4. ASSUME NEW s \in sent, Serve(s[1], s[2])
      PROVE  ToldAsAnswered'
  <2> DEFINE c == s[1]
             q == s[2]
  <2>1. PICK T \in SUBSET Waiting(c, q) :
          Accepted(c, q, T) \/ Conflict(c, q, T) \/ Unserved(c, q, T)
    BY <1>4 DEF Serve
  <2>2. \A t \in T : tab[t] \in TabState /\ tab[t].stored.request = q
    BY WaitingFacts
  <2> HIDE DEF c, q
  <2>3. ASSUME NEW to, Hear(T, to),
               \A t \in T : \/ to[t].at \notin {"told", "remembered"}
                            \/ [request |-> to[t].stored.request, rev |-> to[t].rev]
                                 \in answered'
        PROVE  ToldAsAnswered'
    BY <1>2, <2>3, HearOthers DEF ToldAsAnswered
  <2>4. CASE Accepted(c, q, T)
    <3>1. PICK r \in receipts' :
            /\ r.request = q
            /\ Hear(T, [t \in T |-> [tab[t] EXCEPT !.at = "told", !.rev = r.rev]])
      BY <2>4 DEF Accepted
    <3>2. [request |-> q, rev |-> r.rev] \in answered'
      BY <1>1, <3>1 DEF ReceiptsAnswer
    <3> DEFINE to == [t \in T |-> [tab[t] EXCEPT !.at = "told", !.rev = r.rev]]
    <3>3. \A t \in T : to[t].stored.request = q /\ to[t].rev = r.rev
      BY <2>2 DEF TabState
    <3> HIDE DEF to
    <3> QED
      BY <2>3, <3>1, <3>2, <3>3 DEF to
  <2>5. CASE Conflict(c, q, T)
    <3> DEFINE to == [t \in T |->
                       [tab[t] EXCEPT
                          !.at = IF tab[t].stored.owner = c THEN "refused" ELSE "conflict",
                          !.rev = records[q.id].rev]]
    <3>1. Hear(T, to)
      BY <2>5 DEF Conflict
    <3>2. \A t \in T : to[t].at \in {"refused", "conflict"}
      BY <2>2 DEF TabState
    <3> HIDE DEF to
    <3> QED
      BY <2>3, <3>1, <3>2
  <2>6. CASE Unserved(c, q, T)
    <3> DEFINE to == [t \in T |-> Idle(c)]
    <3>1. Hear(T, to)
      BY <2>6 DEF Unserved
    <3>2. \A t \in T : to[t].at = "idle"
      BY DEF Idle
    <3> HIDE DEF to
    <3> QED
      BY <2>3, <3>1, <3>2
  <2> QED
    BY <2>1, <2>4, <2>5, <2>6
<1>5. ASSUME tab' = tab
      PROVE  ToldAsAnswered'
  BY <1>1, <1>5 DEF ToldAsAnswered
<1>6. CASE \/ \E c \in Owners : Recredential(c) \/ Disown(c)
           \/ Acknowledge \/ Duplicate \/ Elsewhere \/ Relaunch \/ UNCHANGED allVars
  BY <1>5, <1>6 DEF Recredential, Disown, Acknowledge, Duplicate, Elsewhere, Relaunch,
                    allVars, syncVars
<1> QED
  BY <1>3, <1>4, <1>6 DEF SyncNext

-----------------------------------------------------------------------------
(* What was refused is never carried out *)

\* A receipt appears with the put it is of.
LEMMA NewReceipts ==
  ASSUME TypeInv, SyncTypeOK, [SyncNext]_allVars, NEW r \in receipts', r \notin receipts
  PROVE  \E c : Put(c, r.request)
<1>1. ASSUME NEW c, NEW q, Begin(c, q) \/ Replay(c, q) \/ Put(c, q) \/ Refuse(c, q)
      PROVE  \E x : Put(x, r.request)
  <2>1. CASE Put(c, q)
    <3>1. r.request = q
      BY <2>1, ReceiptsOfPut
    <3> QED
      BY <2>1, <3>1
  <2>2. CASE Begin(c, q) \/ Replay(c, q) \/ Refuse(c, q)
    BY <2>2 DEF Begin, Replay, Refuse
  <2> QED
    BY <1>1, <2>1, <2>2
<1>2. receipts' # receipts
  OBVIOUS
<1>3. ASSUME NEW t \in Tabs, TabStep(t) \/ Timeout(t) \/ Close(t)
      PROVE  \E x : Put(x, r.request)
  <2>1. CASE Send(t)
    <3>1. Begin(tab[t].cred, tab[t].stored.request) \/ UNCHANGED vars
      BY <2>1 DEF Send
    <3> QED
      BY <1>1, <1>2, <3>1 DEF vars
  <2>2. CASE ~Send(t)
    <3>1. UNCHANGED vars
      BY <1>3, <2>2 DEF TabStep, Push, Handoff, Prepare, Persist, Remember, Forget,
                        Discard, Rebase, Install, Abandon, Reload, Timeout, Close
    <3> QED
      BY <1>2, <3>1 DEF vars
  <2> QED
    BY <2>1, <2>2
<1>4. ASSUME NEW s \in sent, Serve(s[1], s[2]) \/ Begin(s[1], s[2])
      PROVE  \E x : Put(x, r.request)
  BY <1>1, <1>4 DEF Serve, Accepted, Conflict, Unserved
<1>5. CASE Duplicate
  BY <1>4, <1>5 DEF Duplicate
<1>6. CASE Elsewhere
  BY <1>1, <1>6 DEF Elsewhere
<1>7. ASSUME Relaunch PROVE FALSE
  <2>1. Pruned(0) \subseteq receipts
    BY RetainedTypes DEF TypeInv
  <2> QED
    BY <1>7, <2>1 DEF Relaunch, Restart
<1>8. ASSUME \/ \E c \in Owners : Recredential(c) \/ Disown(c)
             \/ Acknowledge \/ UNCHANGED allVars
      PROVE  FALSE
  BY <1>2, <1>8 DEF Recredential, Disown, Revoke, Acknowledge, allVars, vars
<1> QED
  BY <1>3, <1>4, <1>5, <1>6, <1>7, <1>8 DEF SyncNext

\* A tab learns of a refusal from the relay, which compared the base revision.
LEMMA NewRefusals ==
  ASSUME SyncTypeOK, [SyncNext]_allVars
  PROVE  \/ refused' = refused
         \/ \E s \in sent : \E T \in SUBSET Waiting(s[1], s[2]) :
              Conflict(s[1], s[2], T) /\ refused' = refused \cup {s[2]}
<1>1. ASSUME NEW t \in Tabs, TabStep(t) \/ Timeout(t) \/ Close(t)
      PROVE  refused' = refused
  BY <1>1 DEF TabStep, Push, Handoff, Prepare, Persist, Send, Remember, Forget, Discard,
              Rebase, Install, Abandon, Reload, Timeout, Close
<1>2. ASSUME NEW s \in sent, Serve(s[1], s[2])
      PROVE  \/ refused' = refused
             \/ \E T \in SUBSET Waiting(s[1], s[2]) :
                  Conflict(s[1], s[2], T) /\ refused' = refused \cup {s[2]}
  BY <1>2 DEF Serve, Accepted, Conflict, Unserved
<1>3. CASE \/ \E c \in Owners : Recredential(c) \/ Disown(c)
           \/ Acknowledge \/ Duplicate \/ Elsewhere \/ Relaunch \/ UNCHANGED allVars
  BY <1>3 DEF Recredential, Disown, Acknowledge, Duplicate, Elsewhere, Relaunch,
              allVars, syncVars
<1> QED
  BY <1>1, <1>2, <1>3 DEF SyncNext

\* A refused mutation was sent, and its base revision is past for good.
RefusedAreStale ==
  /\ refused \subseteq Sends
  /\ \A q \in refused : q.base < records[Key].rev

LEMMA RefusedStep ==
  ASSUME TypeInv, SyncTypeOK, IdsAreDrawnOnce, BasesBehind, TrafficIsOwn, TrafficIsOwn',
         IdsAreDrawnOnce', RefusedAreStale, RefusedIsNotApplied, [SyncNext]_allVars
  PROVE  RefusedAreStale' /\ RefusedIsNotApplied'
<1> DEFINE top == records[Key].rev
<1>1. Key \in Ids /\ top \in Nat
  BY SyncAssumption DEF TypeInv, TypeOK, Ids, Record
<1>2. records'[Key].rev \in Nat /\ records'[Key].rev >= top
  BY <1>1, RelayStep, RevisionsGrow
<1>3. Sends \subseteq Sends' /\ Sends \subseteq Requested /\ Sends' \subseteq Requested'
  BY SentGrows DEF Sends, Requested
<1>4. Sends \subseteq Written
  BY <1>3, RequestedFacts
<1>5. ASSUME NEW q \in refused
      PROVE  q \in Sends' /\ q.base < records'[Key].rev /\ Prior(q.mutation)' = {}
  <2>1. q \in Sends /\ q \in Sends' /\ q.base < top /\ Prior(q.mutation) = {}
    BY <1>3 DEF RefusedAreStale, RefusedIsNotApplied
  <2>2. q.base \in Nat /\ q.mutation \in Drawable /\ q.id = Key
    BY <1>4, <2>1, WrittenFacts
  <2>3. ASSUME NEW r \in receipts', r.request.mutation = q.mutation
        PROVE  FALSE
    <3>1. r \notin receipts
      BY <2>1, <2>3 DEF Prior
    <3>2. PICK c : Put(c, r.request)
      BY <3>1, NewReceipts
    <3>3. r.request \in Sends'
      BY <2>2, <2>3 DEF TrafficIsOwn
    <3>4. r.request = q
      BY <1>3, <2>1, <2>3, <3>3 DEF IdsAreDrawnOnce
    <3>5. q.base = records[q.id].rev
      BY <3>2, <3>4 DEF Put, PutIsAccepted
    <3> QED
      BY <1>1, <2>1, <2>2, <3>5
  <2>4. Prior(q.mutation)' = {}
    BY <2>3 DEF Prior
  <2> HIDE DEF top
  <2>5. q.base < records'[Key].rev
    BY <1>1, <1>2, <2>1, <2>2
  <2> QED
    BY <2>1, <2>4, <2>5
<1>6. CASE refused' = refused
  BY <1>5, <1>6 DEF RefusedAreStale, RefusedIsNotApplied
<1>7. ASSUME NEW s \in sent, NEW T \in SUBSET Waiting(s[1], s[2]),
             Conflict(s[1], s[2], T), refused' = refused \cup {s[2]}
      PROVE  RefusedAreStale' /\ RefusedIsNotApplied'
  <2> DEFINE c == s[1]
             q == s[2]
  <2>1. q \in Sends
    BY DEF Sends
  <2>2. /\ q.base \in Nat /\ q.mutation \in Drawable /\ q.id = Key /\ q.op = "put"
    BY <1>4, <2>1, WrittenFacts
  <2>3. /\ Refuse(c, q) /\ c \in live /\ q.base # records[q.id].rev
    BY <1>7 DEF Conflict
  <2> HIDE DEF q, c
  <2>4. records' = records /\ receipts' = receipts
    BY <2>3 DEF Refuse
  <2>5. q.base <= top
    BY <1>3, <2>1 DEF BasesBehind
  <2>6. q.base < records'[Key].rev
    BY <1>1, <2>2, <2>3, <2>4, <2>5
  <2>7. ASSUME NEW r \in receipts, r.request.mutation = q.mutation
        PROVE  FALSE
    <3>1. r.request \in Sends
      BY <2>2, <2>7 DEF TrafficIsOwn
    <3>2. r.request = q
      BY <1>3, <2>1, <2>7, <3>1 DEF IdsAreDrawnOnce
    <3>3. r \in Repeats(c, q)
      BY <2>2, <2>7, <3>2 DEF Repeats, Prior
    <3> QED
      BY <2>3, <3>3 DEF Refuse
  <2>8. Prior(q.mutation)' = {}
    BY <2>4, <2>7 DEF Prior
  <2>9. refused' = refused \cup {q}
    BY <1>7 DEF q
  <2> QED
    BY <1>3, <1>5, <2>1, <2>6, <2>8, <2>9 DEF RefusedAreStale, RefusedIsNotApplied
<1> QED
  BY <1>6, <1>7, NewRefusals

-----------------------------------------------------------------------------
(* The inductive invariant *)

SyncInv ==
  /\ AnswerInv
  /\ SyncTypeOK
  /\ IdsAreDrawnOnce
  /\ BasesBehind
  /\ TrafficIsOwn
  /\ ToldAsAnswered
  /\ RefusedAreStale
  /\ RefusedIsNotApplied

LEMMA SyncInvInit == SyncInit => SyncInv
<1> SUFFICES ASSUME SyncInit PROVE SyncInv
  OBVIOUS
<1>1. TypeInv /\ SyncTypeOK
  BY SyncTypeInit
<1>2. AnswerInv
  BY <1>1 DEF SyncInit, Init, AnswerInv, Settled, ReceiptsAnswer
<1>3. Held = {} /\ Sends = {} /\ Requested = {}
  <2>1. \A t \in Tabs : tab[t].stored = Null /\ tab[t].fresh = Null
    BY DEF SyncInit, Idle
  <2>2. pending = Null /\ sent = {}
    BY DEF SyncInit
  <2>3. Held = {}
    BY <2>1, <2>2 DEF Held
  <2> QED
    BY <2>2, <2>3 DEF Requested, Sends
<1>4. Key \in Ids /\ known <= records[Key].rev
  BY SyncAssumption DEF SyncInit, Init, Ids
<1>5. \A t \in Tabs : tab[t].at = "idle"
  BY DEF SyncInit, Idle
<1>6. receipts = {} /\ inflight = {} /\ refused = {}
  BY DEF SyncInit, Init
<1> QED
  BY <1>1, <1>2, <1>3, <1>4, <1>5, <1>6
     DEF SyncInv, IdsAreDrawnOnce, BasesBehind, TrafficIsOwn, ToldAsAnswered,
         RefusedAreStale, RefusedIsNotApplied

LEMMA SyncInvStep ==
  ASSUME SyncInv, [SyncNext]_allVars
  PROVE  SyncInv'
<1> USE DEF SyncInv, AnswerInv
<1>1. AnswerInv'
  BY RelayStep, TypeStep, SettledStep, ReceiptsAnswerStep
<1>2. SyncTypeOK'
  BY SyncTypeStep
<1>3. IdsAreDrawnOnce'
  BY IdsStep
<1>4. BasesBehind'
  BY BasesStep
<1>5. TrafficIsOwn'
  BY TrafficStep
<1>6. ToldAsAnswered'
  BY ToldStep
<1>7. RefusedAreStale' /\ RefusedIsNotApplied'
  BY <1>3, <1>5, RefusedStep
<1> QED
  BY <1>1, <1>2, <1>3, <1>4, <1>5, <1>6, <1>7

LEMMA SyncInvariance == SyncSpec => []SyncInv
BY SyncInvInit, SyncInvStep, PTL DEF SyncSpec

\* A mutation the device was told is refused, and gave up, is never carried out
\* by a copy of it that is still on its way, whatever other tabs, later
\* credentials and other devices do (sync.ts:186).
THEOREM RefusedStayUnapplied == SyncSpec => []RefusedIsNotApplied
BY SyncInvariance, PTL DEF SyncInv

-----------------------------------------------------------------------------
(* What a push returns *)

LEMMA PushReturnsStep ==
  ASSUME SyncInv, PushReturns, [SyncNext]_allVars
  PROVE  PushReturns'
<1> USE DEF SyncInv, AnswerInv
<1>1. answered \subseteq answered'
  BY RelayStep, AnsweredGrows
<1>2. ASSUME returned' = returned
      PROVE  PushReturns'
  BY <1>1, <1>2 DEF PushReturns
<1>3. ASSUME NEW t \in Tabs, Forget(t)
      PROVE  PushReturns'
  <2> DEFINE y == [request |-> tab[t].stored.request, rev |-> tab[t].rev]
             x == [draft |-> tab[t].want, rev |-> tab[t].rev]
  <2>1. y \in answered'
    BY <1>1, <1>3 DEF Forget, ToldAsAnswered
  <2>2. y.rev = x.rev /\ y.request.envelope = tab[t].stored.request.envelope
    OBVIOUS
  <2>3. x.draft = tab[t].want
    OBVIOUS
  <2>4. \/ returned' = returned
        \/ IsDone(t) /\ returned' = returned \cup {x}
    BY <1>3 DEF Forget
  <2> HIDE DEF x, y
  <2> QED
    BY <1>1, <1>2, <2>1, <2>2, <2>3, <2>4 DEF IsDone, PushReturns
<1>4. ASSUME NEW t \in Tabs, TabStep(t) \/ Timeout(t) \/ Close(t), ~Forget(t)
      PROVE  returned' = returned
  BY <1>4 DEF TabStep, Push, Handoff, Prepare, Persist, Send, Remember, Discard,
              Rebase, Install, Abandon, Reload, Timeout, Close
<1>5. ASSUME NEW s \in sent, Serve(s[1], s[2])
      PROVE  returned' = returned
  BY <1>5 DEF Serve, Accepted, Conflict, Unserved, Hear
<1>6. CASE \/ \E c \in Owners : Recredential(c) \/ Disown(c)
           \/ Acknowledge \/ Duplicate \/ Elsewhere \/ Relaunch \/ UNCHANGED allVars
  BY <1>2, <1>6 DEF Recredential, Disown, Acknowledge, Duplicate, Elsewhere, Relaunch,
                    allVars, syncVars
<1> QED
  BY <1>2, <1>3, <1>4, <1>5, <1>6 DEF SyncNext

\* The revision a push returns is the relay's answer for the very note it was
\* given, also when it had to send an older mutation first (sync.ts:1026).
THEOREM PushesReturnTheirNote == SyncSpec => []PushReturns
<1>1. SyncInit => PushReturns
  BY DEF SyncInit, PushReturns
<1>2. SyncInv /\ PushReturns /\ [SyncNext]_allVars => PushReturns'
  BY PushReturnsStep
<1> QED
  BY <1>1, <1>2, SyncInvariance, PTL DEF SyncSpec

-----------------------------------------------------------------------------
(* What a tab gives up *)

\* A tab that was told of a refusal or of a success has it on record.
OutcomesAtHand ==
  \A t \in Tabs :
    /\ tab[t].at \in {"refused", "conflict", "install"} => tab[t].stored.request \in refused
    /\ tab[t].at \in {"told", "remembered"} => tab[t].stored.request \in settled

LEMMA OutcomesGrow ==
  ASSUME [SyncNext]_allVars
  PROVE  settled \subseteq settled' /\ refused \subseteq refused'
<1>1. ASSUME NEW t \in Tabs, TabStep(t) \/ Timeout(t) \/ Close(t)
      PROVE  settled' = settled /\ refused' = refused
  BY <1>1 DEF TabStep, Push, Handoff, Prepare, Persist, Send, Remember, Forget, Discard,
              Rebase, Install, Abandon, Reload, Timeout, Close
<1>2. ASSUME NEW s \in sent, Serve(s[1], s[2])
      PROVE  settled \subseteq settled' /\ refused \subseteq refused'
  BY <1>2 DEF Serve, Accepted, Conflict, Unserved
<1>3. CASE \/ \E c \in Owners : Recredential(c) \/ Disown(c)
           \/ Acknowledge \/ Duplicate \/ Elsewhere \/ Relaunch \/ UNCHANGED allVars
  BY <1>3 DEF Recredential, Disown, Acknowledge, Duplicate, Elsewhere, Relaunch,
              allVars, syncVars
<1> QED
  BY <1>1, <1>2, <1>3 DEF SyncNext

\* The tabs that hear an answer keep their mutation or become idle.
LEMMA Heard ==
  ASSUME SyncTypeOK, NEW s \in sent, Serve(s[1], s[2]), NEW t \in Tabs, tab'[t] # tab[t]
  PROVE  /\ tab[t].at = "wait" /\ pending' = pending
         /\ \/ tab'[t].at = "idle"
            \/ /\ tab'[t].at = "told" /\ tab'[t].stored = tab[t].stored
               /\ tab[t].stored.request \in settled'
            \/ /\ tab'[t].at \in {"refused", "conflict"}
               /\ tab'[t].stored = tab[t].stored
               /\ tab[t].stored.request \in refused'
<1> DEFINE c == s[1]
           q == s[2]
<1>1. PICK T \in SUBSET Waiting(c, q) :
        Accepted(c, q, T) \/ Conflict(c, q, T) \/ Unserved(c, q, T)
  BY DEF Serve
<1> HIDE DEF c, q
<1>2. PICK to : Hear(T, to)
  BY <1>1 DEF Accepted, Conflict, Unserved
<1>3. t \in T /\ pending' = pending
  BY <1>2, HearOthers DEF Hear
<1>4. tab[t].at = "wait" /\ tab[t] \in TabState /\ tab[t].stored.request = q
  BY <1>3, WaitingFacts
<1>5. CASE Accepted(c, q, T)
  <2>1. PICK r \in receipts' :
          Hear(T, [u \in T |-> [tab[u] EXCEPT !.at = "told", !.rev = r.rev]])
    BY <1>5 DEF Accepted
  <2> DEFINE n == [tab[t] EXCEPT !.at = "told", !.rev = r.rev]
             all == [u \in T |-> [tab[u] EXCEPT !.at = "told", !.rev = r.rev]]
  <2>2. n.at = "told" /\ n.stored = tab[t].stored
    BY <1>4 DEF TabState
  <2>3. Hear(T, all)
    BY <2>1
  <2>4. all[t] = n
    BY <1>3
  <2> HIDE DEF n, all
  <2>5. tab'[t] = n
    BY <1>3, <2>3, <2>4, HearOthers
  <2>6. q \in settled'
    BY <1>3, <1>5 DEF Accepted
  <2> QED
    BY <1>3, <1>4, <2>2, <2>5, <2>6
<1>6. CASE Conflict(c, q, T)
  <2> DEFINE n == [tab[t] EXCEPT
                     !.at = IF tab[t].stored.owner = c THEN "refused" ELSE "conflict",
                     !.rev = records[q.id].rev]
             all == [u \in T |->
                      [tab[u] EXCEPT
                         !.at = IF tab[u].stored.owner = c THEN "refused" ELSE "conflict",
                         !.rev = records[q.id].rev]]
  <2>1. Hear(T, all)
    BY <1>6 DEF Conflict
  <2>2. n.at \in {"refused", "conflict"} /\ n.stored = tab[t].stored
    BY <1>4 DEF TabState
  <2>3. all[t] = n
    BY <1>3
  <2> HIDE DEF n, all
  <2>4. tab'[t] = n
    BY <1>3, <2>1, <2>3, HearOthers
  <2>5. q \in refused'
    BY <1>3, <1>6 DEF Conflict
  <2> QED
    BY <1>3, <1>4, <2>2, <2>4, <2>5
<1>7. CASE Unserved(c, q, T)
  <2>1. Hear(T, [u \in T |-> Idle(c)])
    BY <1>7 DEF Unserved
  <2>2. tab'[t] = Idle(c)
    BY <1>3, <2>1, HearOthers
  <2> QED
    BY <1>3, <1>4, <2>2 DEF Idle
<1> QED
  BY <1>1, <1>5, <1>6, <1>7

LEMMA OutcomesStep ==
  ASSUME SyncTypeOK, OutcomesAtHand, [SyncNext]_allVars
  PROVE  OutcomesAtHand'
<1> DEFINE Fine(t) ==
      /\ tab'[t].at \in {"refused", "conflict", "install"} =>
           tab'[t].stored.request \in refused'
      /\ tab'[t].at \in {"told", "remembered"} => tab'[t].stored.request \in settled'
<1>1. settled \subseteq settled' /\ refused \subseteq refused'
  BY OutcomesGrow
<1>2. ASSUME NEW t \in Tabs, tab'[t] = tab[t]
      PROVE  Fine(t)
  BY <1>1, <1>2 DEF OutcomesAtHand
<1>3. ASSUME NEW t \in Tabs, TabStep(t) \/ Timeout(t) \/ Close(t), NEW u \in Tabs
      PROVE  Fine(u)
  <2>1. CASE u # t
    BY <1>2, <1>3, <2>1, Moves
  <2>2. CASE u = t /\ (Remember(t) \/ Rebase(t))
    BY <1>1, <1>3, <2>2, Moves DEF OutcomesAtHand
  <2>3. CASE u = t /\ \E d \in Drafts : Push(t, d) \/ Handoff(t, d)
    BY <1>3, <2>3, Moves
  <2>4. CASE u = t /\ (\/ Prepare(t) \/ Persist(t) \/ Send(t) \/ Forget(t) \/ Discard(t)
                       \/ Install(t) \/ Abandon(t) \/ Reload(t) \/ Timeout(t) \/ Close(t))
    <3>1. tab'[t].at \in {"idle", "prepare", "persist", "send", "wait"}
      BY <1>3, <2>4, Moves
    <3> QED
      BY <2>4, <3>1
  <2> QED
    BY <1>3, <2>1, <2>2, <2>3, <2>4 DEF TabStep
<1>4. ASSUME NEW s \in sent, Serve(s[1], s[2]), NEW t \in Tabs
      PROVE  Fine(t)
  BY <1>2, <1>4, Heard
<1>5. CASE \/ \E c \in Owners : Recredential(c) \/ Disown(c)
           \/ Acknowledge \/ Duplicate \/ Elsewhere \/ Relaunch \/ UNCHANGED allVars
  <2>1. tab' = tab
    BY <1>5 DEF Recredential, Disown, Acknowledge, Duplicate, Elsewhere, Relaunch,
                allVars, syncVars
  <2> QED
    BY <1>2, <2>1 DEF OutcomesAtHand
<1> HIDE DEF Fine
<1>6. \A t \in Tabs : Fine(t)
  <2>1. CASE \E t \in Tabs : TabStep(t) \/ Timeout(t) \/ Close(t)
    BY <1>3, <2>1
  <2>2. CASE \E s \in sent : Serve(s[1], s[2])
    BY <1>4, <2>2
  <2>3. CASE \/ \E c \in Owners : Recredential(c) \/ Disown(c)
             \/ Acknowledge \/ Duplicate \/ Elsewhere \/ Relaunch \/ UNCHANGED allVars
    BY <1>5, <2>3 DEF Fine, OutcomesAtHand
  <2> QED
    BY <2>1, <2>2, <2>3 DEF SyncNext
<1> QED
  BY <1>6 DEF Fine, OutcomesAtHand

LEMMA OutcomesInvariance == SyncSpec => []OutcomesAtHand
<1>1. SyncInit => OutcomesAtHand
  <2>1. SyncInit => \A t \in Tabs : tab[t].at = "idle"
    BY DEF SyncInit, Idle
  <2> QED
    BY <2>1 DEF OutcomesAtHand
<1>2. SyncInv /\ OutcomesAtHand /\ [SyncNext]_allVars => OutcomesAtHand'
  BY OutcomesStep DEF SyncInv
<1> QED
  BY <1>1, <1>2, SyncInvariance, PTL DEF SyncSpec

\* The stored mutation changes in five steps of a tab only.
LEMMA PendingSteps ==
  ASSUME [SyncNext]_allVars, pending' # pending
  PROVE  \E t \in Tabs :
           \/ Persist(t) \/ Forget(t) \/ Discard(t) \/ Install(t) \/ Abandon(t)
<1>1. ASSUME NEW t \in Tabs, TabStep(t) \/ Timeout(t) \/ Close(t)
      PROVE  \/ Persist(t) \/ Forget(t) \/ Discard(t) \/ Install(t) \/ Abandon(t)
  BY <1>1 DEF TabStep, Push, Handoff, Prepare, Send, Remember, Rebase, Reload, Timeout,
              Close
<1>2. ASSUME NEW s \in sent, Serve(s[1], s[2])
      PROVE  FALSE
  BY <1>2 DEF Serve, Accepted, Conflict, Unserved, Hear
<1>3. ASSUME \/ \E c \in Owners : Recredential(c) \/ Disown(c)
             \/ Acknowledge \/ Duplicate \/ Elsewhere \/ Relaunch \/ UNCHANGED allVars
      PROVE  FALSE
  BY <1>3 DEF Recredential, Disown, Acknowledge, Duplicate, Elsewhere, Relaunch,
              allVars, syncVars
<1> QED
  BY <1>1, <1>2, <1>3 DEF SyncNext

LEMMA HandoffStep ==
  ASSUME SyncTypeOK, OutcomesAtHand, [SyncNext]_allVars, pending' # pending,
         NEW t \in Tabs, tab[t].at \in {"conflict", "install"}, tab'[t] # tab[t]
  PROVE  pending # Null /\ pending.request \in refused
<1>1. PICK u \in Tabs :
        \/ Persist(u) \/ Forget(u) \/ Discard(u) \/ Install(u) \/ Abandon(u)
  BY PendingSteps
<1>2. u = t
  BY <1>1, Moves DEF TabStep
<1>3. Install(t) \/ Abandon(t)
  BY <1>1, <1>2 DEF Persist, Forget, Discard
<1>4. pending = tab[t].stored
  BY <1>3 DEF Install, Abandon
<1>5. tab[t].stored \in Mutation
  BY TabTyped DEF TabComplete
<1> QED
  BY <1>4, <1>5, MutationFacts DEF OutcomesAtHand

\* With other tabs storing mutations of their own at any moment, a handoff
\* replaces or removes only the mutation that the relay refused to it
\* (sync.ts:1367).
THEOREM HandoffsAreExact == SyncSpec => HandoffIsExact
<1>1. SyncInv /\ OutcomesAtHand /\ [SyncNext]_allVars =>
        [\A t \in Tabs :
           tab[t].at \in {"conflict", "install"} /\ tab'[t] # tab[t] /\ pending' # pending =>
             pending # Null /\ pending.request \in refused]_allVars
  BY HandoffStep DEF SyncInv
<1> QED
  BY <1>1, SyncInvariance, OutcomesInvariance, PTL DEF SyncSpec, HandoffIsExact

-----------------------------------------------------------------------------
(* One tab alone *)

\* A device on which only tab t is at work: the others are open and idle.
OthersRest(t) == \A u \in Tabs \ {t} : tab'[u] = tab[u]
AloneSpec(t) == SyncInit /\ [][SyncNext /\ OthersRest(t)]_allVars

\* The storage and the tab agree: it stores a mutation over none, and works on the
\* one that is stored.
Aligned(t) ==
  /\ \A u \in Tabs \ {t} : tab[u].at = "idle"
  /\ tab[t].at \in {"prepare", "persist"} => pending = Null
  /\ tab[t].at \notin {"idle", "prepare", "persist"} => pending = tab[t].stored

\* The inductive form of UnresolvedRemainPending: what a tab awaits is stored too.
UnresolvedStored ==
  \A s \in sent :
    \/ s[2] \in settled \cup refused
    \/ pending # Null /\ pending.request = s[2]

AloneInv(t) == Aligned(t) /\ UnresolvedStored

\* Nobody but tab t can step as a tab, and an answer nobody hears changes no tab.
LEMMA AloneSteps ==
  ASSUME SyncTypeOK, NEW t \in Tabs, Aligned(t), OthersRest(t), [SyncNext]_allVars
  PROVE  \/ TabStep(t) \/ Timeout(t) \/ Close(t)
         \/ /\ tab'[t] = tab[t] \/ \E s \in sent : Serve(s[1], s[2])
            /\ pending' = pending /\ sent' = sent
<1>1. ASSUME NEW u \in Tabs, u # t, TabStep(u) \/ Timeout(u) \/ Close(u)
      PROVE  tab'[t] = tab[t] /\ pending' = pending /\ sent' = sent
  <2>1. tab'[t] = tab[t]
    BY <1>1, Moves
  <2>2. tab'[u].at = "idle" /\ tab[u].at = "idle"
    BY <1>1 DEF Aligned, OthersRest
  <2>3. \/ \E d \in Drafts : Push(u, d) \/ Handoff(u, d)
        \/ Reload(u) \/ Close(u)
    BY <1>1, <2>2, Moves DEF TabStep
  <2> QED
    BY <2>1, <2>3 DEF Push, Handoff, Reload, Close
<1>2. ASSUME NEW s \in sent, Serve(s[1], s[2])
      PROVE  pending' = pending /\ sent' = sent
  BY <1>2 DEF Serve, Accepted, Conflict, Unserved, Hear
<1>3. ASSUME \/ \E c \in Owners : Recredential(c) \/ Disown(c)
             \/ Acknowledge \/ Duplicate \/ Elsewhere \/ Relaunch \/ UNCHANGED allVars
      PROVE  tab'[t] = tab[t] /\ pending' = pending /\ sent' = sent
  BY <1>3 DEF Recredential, Disown, Acknowledge, Duplicate, Elsewhere, Relaunch,
              allVars, syncVars
<1> QED
  BY <1>1, <1>2, <1>3 DEF SyncNext

LEMMA AlignedStep ==
  ASSUME SyncTypeOK, NEW t \in Tabs, Aligned(t), OthersRest(t), [SyncNext]_allVars
  PROVE  Aligned(t)'
<1>1. \A u \in Tabs \ {t} : tab'[u].at = "idle"
  BY DEF Aligned, OthersRest
<1>2. ASSUME tab'[t] = tab[t], pending' = pending
      PROVE  Aligned(t)'
  BY <1>1, <1>2 DEF Aligned
<1>3. ASSUME tab'[t].at = "idle"
      PROVE  Aligned(t)'
  BY <1>1, <1>3 DEF Aligned
<1>4. ASSUME NEW s \in sent, Serve(s[1], s[2]), tab'[t] # tab[t]
      PROVE  Aligned(t)'
  BY <1>1, <1>3, <1>4, Heard DEF Aligned
<1>5. ASSUME TabStep(t) \/ Timeout(t) \/ Close(t)
      PROVE  Aligned(t)'
  <2>1. CASE Persist(t) \/ Install(t)
    BY <1>1, <1>3, <1>5, <2>1, Moves DEF Aligned
  <2>2. CASE Remember(t) \/ Rebase(t) \/ Send(t)
    <3>1. pending' = pending
      BY <2>2 DEF Remember, Rebase, Send
    <3> QED
      BY <1>1, <1>3, <1>5, <2>2, <3>1, Moves DEF Aligned
  <2>3. CASE \E d \in Drafts : Push(t, d) \/ Handoff(t, d)
    <3>1. pending' = pending
      BY <2>3 DEF Push, Handoff
    <3> QED
      BY <1>1, <1>5, <2>3, <3>1, Moves DEF Aligned
  <2>4. CASE Prepare(t)
    <3>1. pending' = pending
      BY <2>4 DEF Prepare
    <3> QED
      BY <1>1, <1>5, <2>4, <3>1, Moves DEF Aligned
  <2>5. CASE Forget(t)
    <3>1. pending' = Null
      BY <2>5 DEF Forget
    <3> QED
      BY <1>1, <1>5, <2>5, <3>1, Moves DEF Aligned
  <2>6. CASE Discard(t) \/ Abandon(t) \/ Reload(t) \/ Timeout(t) \/ Close(t)
    BY <1>3, <1>5, <2>6, Moves
  <2> QED
    BY <1>5, <2>1, <2>2, <2>3, <2>4, <2>5, <2>6 DEF TabStep
<1> QED
  BY <1>2, <1>4, <1>5, AloneSteps

LEMMA UnresolvedStep ==
  ASSUME SyncTypeOK, OutcomesAtHand, NEW t \in Tabs, AloneInv(t), OthersRest(t),
         [SyncNext]_allVars
  PROVE  UnresolvedStored'
<1> USE DEF AloneInv
<1>1. settled \subseteq settled' /\ refused \subseteq refused'
  BY OutcomesGrow
<1>2. ASSUME pending' = pending, sent' = sent
      PROVE  UnresolvedStored'
  BY <1>1, <1>2 DEF UnresolvedStored
<1>3. CASE Send(t)
  <2>1. /\ pending' = pending /\ tab[t].at = "send"
        /\ sent' = sent \cup {<<tab[t].cred, tab[t].stored.request>>}
    BY <1>3 DEF Send
  <2>2. pending = tab[t].stored /\ tab[t].stored \in Mutation
    BY <2>1, TabTyped DEF Aligned, TabComplete
  <2>3. pending # Null /\ pending.request = tab[t].stored.request
    BY <2>2, MutationFacts
  <2> QED
    BY <1>1, <2>1, <2>3 DEF UnresolvedStored
<1>4. CASE Persist(t) \/ Forget(t) \/ Discard(t) \/ Install(t) \/ Abandon(t)
  <2>1. sent' = sent
    BY <1>4 DEF Persist, Forget, Discard, Install, Abandon
  <2>2. tab[t].at \in {"persist", "remembered", "refused", "install", "conflict"}
    BY <1>4 DEF Persist, Forget, Discard, Install, Abandon
  <2>3. pending # Null => pending.request \in settled \cup refused
    BY <2>2 DEF Aligned, OutcomesAtHand
  <2> QED
    BY <1>1, <2>1, <2>3 DEF UnresolvedStored
<1>5. ASSUME TabStep(t) \/ Timeout(t) \/ Close(t), ~Send(t),
             ~(Persist(t) \/ Forget(t) \/ Discard(t) \/ Install(t) \/ Abandon(t))
      PROVE  pending' = pending /\ sent' = sent
  BY <1>5 DEF TabStep, Push, Handoff, Prepare, Remember, Rebase, Reload, Timeout, Close
<1> QED
  BY <1>2, <1>3, <1>4, <1>5, AloneSteps

\* On a device with one tab at work a mutation that was sent and whose outcome the
\* tab was not told stays stored, over any number of lost messages, restarts and
\* new credentials: "Network, parse, and server failures remain pending"
\* (sync.ts:988).  With two tabs this fails: one of them deletes what the other
\* stored meanwhile.
THEOREM AloneKeepUnresolved ==
  ASSUME NEW t \in Tabs
  PROVE  AloneSpec(t) => []UnresolvedRemainPending
<1>1. SyncInit => AloneInv(t)
  <2>1. SyncInit => sent = {} /\ \A u \in Tabs : tab[u].at = "idle"
    BY DEF SyncInit, Idle
  <2> QED
    BY <2>1 DEF AloneInv, Aligned, UnresolvedStored
<1>2. SyncInv /\ OutcomesAtHand /\ AloneInv(t) /\ [SyncNext /\ OthersRest(t)]_allVars =>
        AloneInv(t)'
  <2>1. ASSUME UNCHANGED allVars, AloneInv(t) PROVE AloneInv(t)'
    BY <2>1 DEF AloneInv, Aligned, UnresolvedStored, allVars, syncVars
  <2>2. SyncInv => SyncTypeOK
    BY DEF SyncInv
  <2> QED
    BY <2>1, <2>2, AlignedStep, UnresolvedStep DEF AloneInv
<1>3. AloneInv(t) => UnresolvedRemainPending
  BY DEF AloneInv, UnresolvedStored, UnresolvedRemainPending
<1>4. [SyncNext /\ OthersRest(t)]_allVars => [SyncNext]_allVars
  OBVIOUS
<1> QED
  BY <1>1, <1>2, <1>3, <1>4, SyncInvariance, OutcomesInvariance, PTL
     DEF SyncSpec, AloneSpec

=============================================================================
