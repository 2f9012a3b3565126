--------------------------- MODULE CompoundProofs ---------------------------
(***************************************************************************)
(* The publication of a note with its attachments, for any number of tabs, *)
(* credentials, drafts, attachments, lost messages and closed tabs.        *)
(***************************************************************************)
EXTENDS Compound, RelayProofs

-----------------------------------------------------------------------------
(* Types *)

\* Where a tab has a bundle in its hands, a handle, or the row it pushes; where
\* it works on a stage, and where that stage is sealed.
FinalAts  == {"finalSend", "finalWait", "told", "commit", "finalRefused"}
SealAts   == {"stageSend", "stageWait", "staged", "unseal"}
StageAts  == SealAts \cup {"stage", "seal"}
BundleAts == StageAts \cup FinalAts \cup {"install", "stageRefused"}
HandleAts == {"finish", "clear", "mark", "complete"}
RowAts    == {"remove", "await", "begin", "enter", "install", "plain", "plainWait",
              "copy", "restore", "preserve", "reject", "settle"}
Places    == BundleAts \cup HandleAts \cup RowAts
               \cup {"idle", "committed", "listed", "intents", "resume", "stale",
                     "cancel", "drop", "pending"}

TabState ==
  [at : Places, cred : Owners, recovers : BOOLEAN, row : Edits \cup {Null},
   cur : Edits \cup {Null}, intent : UploadIntents \cup {Null},
   sources : SUBSET Attachments, job : Bundles \cup Handles \cup Requests \cup {Null},
   todo : SUBSET Attachments, handoff : BOOLEAN, envelope : Seals \cup {Null},
   rev : Nat, kept : BOOLEAN, retried : BOOLEAN,
   then : {"idle", "listed", "pending", "begin"}]

\* What a tab has at each place.
TabComplete(p) ==
  /\ p.at \in BundleAts => p.job \in Bundles
  /\ p.at \in HandleAts => p.job \in Handles
  /\ p.at = "plainWait" => p.job \in Requests /\ p.job.op = "put"
  /\ p.at # "idle" /\ ~p.recovers => p.row \in Edits
  /\ p.recovers => p.at \notin RowAts /\ p.then # "begin"
  /\ p.at \in StageAts => p.todo \subseteq p.job.ids
  /\ p.at \in SealAts \cup {"seal"} => p.todo # {}
  /\ p.at \in SealAts => p.envelope \in Seals

Good(p) == p \in TabState /\ TabComplete(p)

StoreTypes ==
  /\ root \in Bundles \cup {Null}
  /\ payloads \subseteq Drawable \X Attachments \X Seals
  /\ index \in Handles \cup {Null}
  /\ known \in Nat
  /\ session \in Owners
  /\ outbox \in Edits \cup {Null}
  /\ intent \in UploadIntents \cup {Null}
  /\ waiting \subseteq Attachments /\ shelved \subseteq Attachments
  /\ text \in Drafts \cup {Null} /\ written \subseteq Drafts
  /\ sent \subseteq Owners \X Requests
  /\ resolved \subseteq Requests
  /\ cleared \subseteq Drafts /\ copied \subseteq Drafts
  /\ confirmed \subseteq Attachments
  /\ stops \in Nat

CompoundTypeOK ==
  /\ StoreTypes
  /\ tab \in [Tabs -> TabState] /\ \A t \in Tabs : TabComplete(tab[t])

LEMMA BundleFacts ==
  ASSUME NEW r \in Bundles
  PROVE  /\ r # Null /\ r.mutation \in Drawable /\ r.owner \in Owners /\ r.base \in Nat
         /\ r.draft \in Drafts /\ r.ids \in SUBSET Attachments
         /\ r.hashes \in [r.ids -> Seals \cup {Null}]
         /\ r.final \in BOOLEAN /\ r.rev \in Nat
BY CompoundAssumption DEF Bundles

\* A field of a bundle changes, or the hash of one of its attachments.
LEMMA BundleSteps ==
  ASSUME NEW r \in Bundles
  PROVE  /\ \A f \in BOOLEAN : LET s == [r EXCEPT !.final = f]
              IN /\ s \in Bundles /\ s.final = f /\ s.mutation = r.mutation
                 /\ s.owner = r.owner /\ s.base = r.base /\ s.draft = r.draft
                 /\ s.ids = r.ids /\ s.hashes = r.hashes /\ s.rev = r.rev
         /\ \A n \in Nat : LET s == [r EXCEPT !.rev = n]
              IN /\ s \in Bundles /\ s.rev = n /\ s.mutation = r.mutation
                 /\ s.owner = r.owner /\ s.base = r.base /\ s.draft = r.draft
                 /\ s.ids = r.ids /\ s.hashes = r.hashes /\ s.final = r.final
         /\ \A a \in r.ids : \A e \in Seals : LET s == [r EXCEPT !.hashes[a] = e]
              IN /\ s \in Bundles /\ s.hashes = [r.hashes EXCEPT ![a] = e]
                 /\ s.mutation = r.mutation
                 /\ s.owner = r.owner /\ s.base = r.base /\ s.draft = r.draft
                 /\ s.ids = r.ids /\ s.final = r.final /\ s.rev = r.rev
<1>1. /\ r \in [mutation : Drawable, owner : Owners, base : Nat, draft : Drafts,
                ids : SUBSET Attachments, hashes : Hashes, final : BOOLEAN, rev : Nat]
      /\ r.hashes \in [r.ids -> Seals \cup {Null}]
  BY DEF Bundles
<1>2. ASSUME NEW a \in r.ids, NEW e \in Seals
      PROVE  /\ [r.hashes EXCEPT ![a] = e] \in [r.ids -> Seals \cup {Null}]
             /\ [r.hashes EXCEPT ![a] = e] \in Hashes
  <2>1. r.ids \in SUBSET Attachments
    BY <1>1
  <2>2. [r.hashes EXCEPT ![a] = e] \in [r.ids -> Seals \cup {Null}]
    BY <1>1
  <2> QED
    BY <2>1, <2>2 DEF Hashes
<1>3. ASSUME NEW f \in BOOLEAN
      PROVE  LET s == [r EXCEPT !.final = f]
             IN /\ s \in Bundles /\ s.final = f /\ s.mutation = r.mutation
                /\ s.owner = r.owner /\ s.base = r.base /\ s.draft = r.draft
                /\ s.ids = r.ids /\ s.hashes = r.hashes /\ s.rev = r.rev
  BY <1>1 DEF Bundles
<1>4. ASSUME NEW n \in Nat
      PROVE  LET s == [r EXCEPT !.rev = n]
             IN /\ s \in Bundles /\ s.rev = n /\ s.mutation = r.mutation
                /\ s.owner = r.owner /\ s.base = r.base /\ s.draft = r.draft
                /\ s.ids = r.ids /\ s.hashes = r.hashes /\ s.final = r.final
  BY <1>1 DEF Bundles
<1>5. ASSUME NEW a \in r.ids, NEW e \in Seals
      PROVE  LET s == [r EXCEPT !.hashes[a] = e]
             IN /\ s \in Bundles /\ s.hashes = [r.hashes EXCEPT ![a] = e]
                /\ s.mutation = r.mutation
                /\ s.owner = r.owner /\ s.base = r.base /\ s.draft = r.draft
                /\ s.ids = r.ids /\ s.final = r.final /\ s.rev = r.rev
  <2>1. [r EXCEPT !.hashes[a] = e] = [r EXCEPT !.hashes = [r.hashes EXCEPT ![a] = e]]
    BY <1>1
  <2> DEFINE h == [r.hashes EXCEPT ![a] = e]
  <2>2. h \in Hashes /\ h \in [r.ids -> Seals \cup {Null}]
    BY <1>2
  <2> HIDE DEF h
  <2>3. LET s == [r EXCEPT !.hashes = h]
        IN  /\ s \in [mutation : Drawable, owner : Owners, base : Nat, draft : Drafts,
                      ids : SUBSET Attachments, hashes : Hashes, final : BOOLEAN, rev : Nat]
            /\ s.hashes = h /\ s.mutation = r.mutation
            /\ s.owner = r.owner /\ s.base = r.base /\ s.draft = r.draft
            /\ s.ids = r.ids /\ s.final = r.final /\ s.rev = r.rev
    BY <1>1, <2>2
  <2>4. LET s == [r EXCEPT !.hashes = h]
        IN  /\ s \in Bundles
            /\ s.hashes = h /\ s.mutation = r.mutation
            /\ s.owner = r.owner /\ s.base = r.base /\ s.draft = r.draft
            /\ s.ids = r.ids /\ s.final = r.final /\ s.rev = r.rev
    BY <2>2, <2>3 DEF Bundles
  <2> QED
    BY <2>1, <2>4 DEF h
<1> QED
  BY <1>3, <1>4, <1>5

LEMMA HandleFacts ==
  ASSUME NEW r \in Bundles
  PROVE  /\ HandleOf(r) \in Handles /\ HandleOf(r).ids = r.ids
         /\ HandleOf(r).draft = r.draft /\ HandleOf(r).mutation = r.mutation
         /\ HandleOf(r).rev = r.rev
BY BundleFacts DEF HandleOf, Handles

-----------------------------------------------------------------------------
(* What a tab becomes *)

LEMMA AllPlaces ==
  BundleAts \cup HandleAts \cup RowAts
    \cup {"idle", "committed", "listed", "intents", "resume", "stale", "cancel", "drop",
          "pending"} \subseteq Places
BY DEF Places

LEMMA TabFields ==
  ASSUME NEW p \in TabState
  PROVE  /\ p.at \in Places /\ p.cred \in Owners /\ p.recovers \in BOOLEAN
         /\ p.row \in Edits \cup {Null} /\ p.cur \in Edits \cup {Null}
         /\ p.intent \in UploadIntents \cup {Null} /\ p.sources \in SUBSET Attachments
         /\ p.job \in Bundles \cup Handles \cup Requests \cup {Null}
         /\ p.todo \in SUBSET Attachments /\ p.envelope \in Seals \cup {Null}
         /\ p.rev \in Nat
BY DEF TabState

\* A tab goes somewhere with what it has.
LEMMA AtTyped ==
  ASSUME NEW p \in TabState, NEW w \in Places
  PROVE  LET q == [p EXCEPT !.at = w]
         IN  /\ q \in TabState /\ q.at = w /\ q.cred = p.cred /\ q.recovers = p.recovers
             /\ q.row = p.row /\ q.job = p.job /\ q.todo = p.todo /\ q.intent = p.intent
             /\ q.sources = p.sources /\ q.rev = p.rev
             /\ q.envelope = p.envelope /\ q.then = p.then /\ q.handoff = p.handoff
BY DEF TabState

LEMMA JobTyped ==
  ASSUME NEW p \in TabState, NEW w \in Places,
         NEW j \in Bundles \cup Handles \cup Requests \cup {Null}
  PROVE  LET q == [p EXCEPT !.at = w, !.job = j]
         IN  /\ q \in TabState /\ q.at = w /\ q.cred = p.cred /\ q.recovers = p.recovers
             /\ q.row = p.row /\ q.job = j /\ q.todo = p.todo /\ q.intent = p.intent
             /\ q.sources = p.sources /\ q.rev = p.rev
             /\ q.envelope = p.envelope /\ q.then = p.then /\ q.handoff = p.handoff
BY DEF TabState

LEMMA WorkTyped ==
  ASSUME NEW p \in TabState, NEW w \in Places, NEW S \in SUBSET Attachments,
         NEW j \in Bundles \cup Handles \cup Requests \cup {Null}
  PROVE  LET q == [p EXCEPT !.at = w, !.job = j, !.todo = S]
         IN  /\ q \in TabState /\ q.at = w /\ q.cred = p.cred /\ q.recovers = p.recovers
             /\ q.row = p.row /\ q.job = j /\ q.todo = S /\ q.intent = p.intent
             /\ q.sources = p.sources /\ q.rev = p.rev
             /\ q.envelope = p.envelope /\ q.then = p.then /\ q.handoff = p.handoff
BY DEF TabState

LEMMA IdleTyped ==
  ASSUME NEW c \in Owners
  PROVE  /\ Good(Idle(c)) /\ Idle(c).at = "idle" /\ Idle(c).cred = c
         /\ Idle(c).then = "idle" /\ Idle(c).row = Null
BY DEF Good, Idle, TabState, TabComplete, Places, BundleAts, HandleAts, RowAts, StageAts,
       SealAts, FinalAts

LEMMA CaughtTyped ==
  ASSUME NEW p, Good(p)
  PROVE  Good(Caught(p)) /\ Caught(p).at \in {"cancel", "idle"}
<1>1. p \in TabState /\ p.cred \in Owners
  BY TabFields DEF Good
<1>2. "cancel" \in Places
  BY DEF Places
<1>3. CASE Caught(p) = Idle(p.cred)
  BY <1>1, <1>3, IdleTyped
<1>4. CASE Caught(p) = [p EXCEPT !.at = "cancel"] /\ p.recovers
  <2>1. [p EXCEPT !.at = "cancel"] \in TabState
    BY <1>1, <1>2, AtTyped
  <2> QED
    BY <1>1, <1>2, <1>4, <2>1, AtTyped DEF Good, TabComplete, BundleAts, HandleAts, RowAts, StageAts,
       SealAts, FinalAts
<1> QED
  BY <1>3, <1>4 DEF Caught

LEMMA SendingTyped ==
  ASSUME NEW p, Good(p), NEW r \in Bundles,
         p.at # "idle", p.recovers => p.at \notin RowAts
  PROVE  /\ Good(Sending(p, r)) /\ Sending(p, r).cred = p.cred
         /\ Sending(p, r).recovers = p.recovers
         /\ Sending(p, r).at \in {"finish", "stage"}
         /\ Sending(p, r).at = "stage" => Sending(p, r).job = r
<1>1. /\ p \in TabState /\ r.ids \in SUBSET Attachments /\ HandleOf(r) \in Handles
      /\ {r, HandleOf(r)} \subseteq Bundles \cup Handles \cup Requests \cup {Null}
  BY BundleFacts, HandleFacts DEF Good
<1>2. "finish" \in Places /\ "stage" \in Places
  BY DEF Places, BundleAts, HandleAts, StageAts
<1>3. CASE r.rev > 0
  <2> DEFINE q == [p EXCEPT !.at = "finish", !.job = HandleOf(r)]
  <2>1. Sending(p, r) = q
    BY <1>3 DEF Sending
  <2>2. /\ q \in TabState /\ q.at = "finish" /\ q.cred = p.cred /\ q.recovers = p.recovers
        /\ q.row = p.row /\ q.job = HandleOf(r) /\ q.then = p.then
    BY <1>1, <1>2 DEF TabState
  <2> HIDE DEF q
  <2> QED
    BY <1>1, <2>1, <2>2 DEF Good, TabComplete, BundleAts, HandleAts, RowAts, StageAts,
       SealAts, FinalAts
<1>4. CASE ~(r.rev > 0)
  <2> DEFINE q == [p EXCEPT !.at = "stage", !.job = r, !.todo = r.ids]
  <2>1. Sending(p, r) = q
    BY <1>4 DEF Sending
  <2>2. /\ q \in TabState /\ q.at = "stage" /\ q.cred = p.cred /\ q.recovers = p.recovers
        /\ q.row = p.row /\ q.job = r /\ q.then = p.then /\ q.todo = r.ids
    BY <1>1, <1>2 DEF TabState
  <2> HIDE DEF q
  <2> QED
    BY <1>1, <2>1, <2>2 DEF Good, TabComplete, BundleAts, HandleAts, RowAts, StageAts,
       SealAts, FinalAts
<1> QED
  BY <1>3, <1>4

LEMMA TabTyped ==
  ASSUME CompoundTypeOK, NEW t \in Tabs
  PROVE  Good(tab[t]) /\ tab[t] \in TabState /\ TabComplete(tab[t])
BY DEF CompoundTypeOK, StoreTypes, Good

-----------------------------------------------------------------------------
(* How a tab goes on *)

TabStep(t) ==
  Recovering(t) \/ Pushing(t) \/ SendingOn(t) \/ Ending(t) \/ Close(t) \/ Reload(t)

\* A tab that goes on from p to q keeps the bundle it works on or takes the root;
\* a seal it works on it keeps or has stored; what it finalizes is a root that is
\* final, and sent before an answer comes; its handle is one that is stored.
Track(p, q) ==
  /\ q.at # "install"
  /\ q.at \in BundleAts =>
       \/ p.at \in BundleAts /\ q.job = p.job
       \/ root' # Null /\ q.job = root'
  /\ q.at \in SealAts =>
       \/ p.at \in SealAts /\ q.job = p.job /\ q.todo = p.todo /\ q.envelope = p.envelope
       \/ <<q.job.mutation, Min(q.todo), q.envelope>> \in payloads'
  /\ q.at = "unseal" =>
       Same(root', q.job) /\ root'.hashes[Min(q.todo)] # Null
  /\ q.at \in FinalAts =>
       \/ p.at \in FinalAts /\ q.job = p.job
       \/ q.at = "finalSend" /\ root' # Null /\ q.job = root' /\ root'.final
  /\ q.at \in FinalAts \ {"finalSend"} =>
       \/ p.at \in FinalAts \ {"finalSend"}
       \/ \E s \in sent' : s[2] = FinalRequest(q.job)
  /\ q.at \in HandleAts =>
       \/ p.at \in HandleAts /\ q.job = p.job
       \/ index # Null /\ q.job = index
       \/ root' # Null /\ root'.rev > 0 /\ q.job = HandleOf(root')

\* What it was told it was told before.
Hold(p, q) ==
  q.at \in {"told", "commit"} =>
    p.at \in {"told", "commit"} /\ q.job = p.job /\ q.rev = p.rev

Follow(p, q) == Track(p, q) /\ Hold(p, q)

Draws(t, q) ==
  /\ Enter(t) /\ root = Null /\ tab[t].row \in Edits /\ Drawable \ Drawn # {}
  /\ q.at = "install" /\ q.job = Candidate(tab[t])

LEMMA FreeFollows ==
  ASSUME NEW p, NEW q, q.at \notin BundleAts \cup HandleAts
  PROVE  Follow(p, q)
BY DEF Follow, Track, Hold, BundleAts, StageAts, SealAts, FinalAts

LEMMA SendingFollows ==
  ASSUME NEW p, Good(p), NEW r \in Bundles, r = root',
         p.at # "idle", p.recovers => p.at \notin RowAts
  PROVE  Follow(p, Sending(p, r))
<1>1. /\ Sending(p, r).at \in {"finish", "stage"}
      /\ Sending(p, r).at = "stage" => Sending(p, r).job = r
  BY SendingTyped
<1>2. r # Null /\ p \in TabState
  BY BundleFacts DEF Good
<1>3. Sending(p, r).at = "finish" => r.rev > 0 /\ Sending(p, r).job = HandleOf(r)
  <2>1. CASE r.rev > 0
    <3>1. Sending(p, r) = [p EXCEPT !.at = "finish", !.job = HandleOf(r)]
      BY <2>1 DEF Sending
    <3> QED
      BY <1>2, <2>1, <3>1 DEF TabState
  <2>2. CASE ~(r.rev > 0)
    <3>1. Sending(p, r) = [p EXCEPT !.at = "stage", !.job = r, !.todo = r.ids]
      BY <2>2 DEF Sending
    <3> QED
      BY <1>2, <2>2, <3>1 DEF TabState
  <2> QED
    BY <2>1, <2>2
<1> QED
  BY <1>1, <1>2, <1>3 DEF Follow, Track, Hold, BundleAts, StageAts, SealAts, FinalAts, HandleAts

LEMMA CaughtFollows ==
  ASSUME NEW p, Good(p)
  PROVE  Good(Caught(p)) /\ Follow(p, Caught(p))
<1>1. Good(Caught(p)) /\ Caught(p).at \in {"cancel", "idle"}
  BY CaughtTyped
<1> QED
  BY <1>1, FreeFollows DEF BundleAts, HandleAts, StageAts, SealAts, FinalAts

LEMMA IdleFollows ==
  ASSUME NEW p, NEW c \in Owners
  PROVE  Good(Idle(c)) /\ Follow(p, Idle(c))
<1>1. Good(Idle(c)) /\ Idle(c).at = "idle"
  BY IdleTyped
<1> QED
  BY <1>1, FreeFollows DEF BundleAts, HandleAts, StageAts, SealAts, FinalAts

LEMMA GoIsBecome ==
  ASSUME CompoundTypeOK, NEW t \in Tabs, NEW w, Go(t, w)
  PROVE  Become(t, [tab[t] EXCEPT !.at = w])
BY DEF Go, Become, CompoundTypeOK, StoreTypes

\* Another credential's bundle is sent on as the caller's to rebuild.
LEMMA HandoffFollows ==
  ASSUME NEW p, NEW q, Good(q), Follow(p, q)
  PROVE  LET to == [q EXCEPT !.handoff = TRUE] IN Good(to) /\ Follow(p, to)
<1> DEFINE to == [q EXCEPT !.handoff = TRUE]
<1>1. /\ to \in TabState /\ to.at = q.at /\ to.job = q.job /\ to.recovers = q.recovers
      /\ to.todo = q.todo /\ to.envelope = q.envelope /\ to.row = q.row
      /\ to.then = q.then /\ to.rev = q.rev
  BY DEF Good, TabState
<1> HIDE DEF to
<1>2. Follow(p, to)
  BY <1>1 DEF Follow, Track, Hold
<1>3. TabComplete(to)
  BY <1>1 DEF Good, TabComplete
<1> QED
  BY <1>1, <1>2, <1>3 DEF Good, to

LEMMA RecoveringFollows ==
  ASSUME CompoundTypeOK, NEW t \in Tabs, Recovering(t)
  PROVE  \E to : Become(t, to) /\ Good(to) /\ Follow(tab[t], to)
<1> DEFINE p == tab[t]
<1> USE DEF At
<1>1. /\ Good(p) /\ p \in TabState /\ TabComplete(p) /\ p.cred \in Owners
      /\ p.then \in {"idle", "listed", "pending", "begin"}
  BY TabTyped DEF TabState
<1>2. Good(Idle(p.cred)) /\ Follow(p, Idle(p.cred))
  BY <1>1, IdleFollows
<1>3. ASSUME NEW to, Become(t, to), to \in TabState, TabComplete(to),
             to.at \notin BundleAts \cup HandleAts
      PROVE  \E q : Become(t, q) /\ Good(q) /\ Follow(p, q)
  BY <1>3, FreeFollows DEF Good
<1> SUFFICES \E to : Become(t, to) /\ Good(to) /\ Follow(p, to)
  OBVIOUS
<1> HIDE DEF p
<1>a. /\ {"finish", "drop", "resume", "listed", "intents", "committed", "stale", "pending",
           "begin", "idle"} \subseteq Places
      /\ {"drop", "resume", "listed", "intents", "committed", "stale", "pending",
           "begin", "idle"} \cap (BundleAts \cup HandleAts) = {}
  BY AllPlaces DEF BundleAts, StageAts, SealAts, FinalAts, HandleAts, RowAts
<1>b. ASSUME NEW w \in {"drop", "resume", "listed", "intents", "stale", "pending"},
             NEW to, Become(t, to), to \in TabState, to.at = w, to.recovers = p.recovers,
             to.row = p.row, to.then \in {p.then, "listed", "pending"}, p.at # "idle"
      PROVE  \E q : Become(t, q) /\ Good(q) /\ Follow(p, q)
  <2>1. TabComplete(to)
    BY <1>1, <1>b DEF TabComplete, BundleAts, StageAts, SealAts, FinalAts, HandleAts, RowAts
  <2> QED
    BY <1>3, <1>a, <1>b, <2>1
<1>4. CASE StartPass(t)
  <2> DEFINE c == Idle(p.cred)
             to == [c EXCEPT !.at = "committed", !.recovers = TRUE]
  <2>1. c \in TabState /\ c.then = "idle" /\ c.row = Null
    BY <1>1, IdleTyped DEF Good
  <2> HIDE DEF c
  <2>2. to \in TabState /\ to.at = "committed" /\ to.recovers /\ to.then = "idle"
    BY <1>a, <2>1 DEF TabState
  <2>3. Become(t, to)
    BY <1>4 DEF StartPass, p, c
  <2> HIDE DEF to
  <2>4. TabComplete(to)
    BY <2>2 DEF TabComplete, BundleAts, StageAts, SealAts, FinalAts, HandleAts, RowAts
  <2> QED
    BY <1>3, <1>a, <2>2, <2>3, <2>4
<1>5. CASE Committed(t)
  <2>1. CASE index = Null
    <3> DEFINE to == [p EXCEPT !.at = "listed"]
    <3>1. Become(t, to) /\ p.at = "committed"
      BY <1>5, <2>1 DEF Committed, p
    <3>2. to \in TabState /\ to.at = "listed" /\ to.recovers = p.recovers /\ to.then = p.then
          /\ to.row = p.row
      BY <1>1, <1>a, AtTyped
    <3> QED
      BY <1>b, <3>1, <3>2
  <2>2. CASE index # Null
    <3> DEFINE to == [p EXCEPT !.at = "finish", !.job = index, !.then = "listed"]
    <3>1. Become(t, to) /\ p.at = "committed"
      BY <1>5, <2>2 DEF Committed, p
    <3>2. index \in Handles
      BY <2>2 DEF CompoundTypeOK, StoreTypes
    <3>3. to \in TabState /\ to.at = "finish" /\ to.recovers = p.recovers
          /\ to.then = "listed" /\ to.row = p.row /\ to.job = index
      BY <1>1, <1>a, <3>2 DEF TabState
    <3> HIDE DEF to
    <3>4. Follow(p, to)
      BY <2>2, <3>3 DEF Follow, Track, Hold, BundleAts, StageAts, SealAts, FinalAts, HandleAts
    <3>5. TabComplete(to)
      BY <1>1, <3>1, <3>2, <3>3
         DEF TabComplete, BundleAts, StageAts, SealAts, FinalAts, HandleAts, RowAts
    <3> QED
      BY <3>1, <3>3, <3>4, <3>5 DEF Good
  <2> QED
    BY <2>1, <2>2
<1>6. CASE Listed(t)
  <2> DEFINE to == [p EXCEPT !.at = "intents", !.cur = outbox]
  <2>1. Become(t, to) /\ p.at = "listed" /\ outbox \in Edits \cup {Null}
    BY <1>6 DEF Listed, p, CompoundTypeOK, StoreTypes
  <2>2. to \in TabState /\ to.at = "intents" /\ to.recovers = p.recovers /\ to.then = p.then
        /\ to.row = p.row
    BY <1>1, <1>a, <2>1 DEF TabState
  <2> QED
    BY <1>b, <2>1, <2>2
<1>7. CASE Intents(t)
  <2>1. CASE intent = Null
    <3> DEFINE to == [p EXCEPT !.at = "pending"]
    <3>1. Become(t, to) /\ p.at = "intents"
      BY <1>7, <2>1 DEF Intents, p
    <3>2. to \in TabState /\ to.at = "pending" /\ to.recovers = p.recovers /\ to.then = p.then
          /\ to.row = p.row
      BY <1>1, <1>a, AtTyped
    <3> QED
      BY <1>b, <3>1, <3>2
  <2>2. CASE intent # Null
    <3> DEFINE w == IF intent.phase = "reconciled" THEN "drop" ELSE "resume"
               S == intent.uploads \cap waiting
               to == [p EXCEPT !.at = w, !.intent = intent, !.sources = S, !.then = "pending"]
    <3>1. Become(t, to) /\ p.at = "intents"
      BY <1>7, <2>2 DEF Intents, p
    <3>2. w \in {"drop", "resume"} /\ S \in SUBSET Attachments /\ intent \in UploadIntents
      BY <2>2 DEF CompoundTypeOK, StoreTypes
    <3> HIDE DEF w, S
    <3>3. to \in TabState /\ to.at = w /\ to.recovers = p.recovers
          /\ to.then = "pending" /\ to.row = p.row
      BY <1>1, <1>a, <3>2 DEF TabState
    <3> QED
      BY <1>b, <3>1, <3>2, <3>3
  <2> QED
    BY <2>1, <2>2
<1>8. CASE Resume(t)
  <2>1. p.at = "resume" /\ root' = root
    BY <1>8 DEF Resume, p, device
  <2>2. CASE root = Null
    <3> DEFINE to == [p EXCEPT !.at = "stale"]
    <3>1. Become(t, to)
      BY <1>8, <2>2 DEF Resume, p
    <3>2. to \in TabState /\ to.at = "stale" /\ to.recovers = p.recovers /\ to.then = p.then
          /\ to.row = p.row
      BY <1>1, <1>a, AtTyped
    <3> QED
      BY <1>b, <2>1, <3>1, <3>2
  <2>3. CASE root # Null /\ (Become(t, Caught(p)) \/ Become(t, Idle(p.cred)))
    BY <1>1, <1>2, <2>3, CaughtFollows
  <2>4. CASE root # Null /\ ~(Become(t, Caught(p)) \/ Become(t, Idle(p.cred)))
    <3>1. root \in Bundles /\ (p.recovers => p.at \notin RowAts) /\ p.at # "idle"
      BY <1>1, <2>1, <2>4 DEF CompoundTypeOK, StoreTypes, TabComplete
    <3> DEFINE q == Sending(p, root)
    <3>2. Good(q) /\ Follow(p, q)
      BY <1>1, <2>1, <3>1, SendingTyped, SendingFollows
    <3>3. Become(t, q) \/ Become(t, [q EXCEPT !.handoff = TRUE])
      BY <1>8, <2>4 DEF Resume, p
    <3> HIDE DEF q
    <3> QED
      BY <3>2, <3>3, HandoffFollows
  <2> QED
    BY <2>2, <2>3, <2>4
<1>9. CASE Stale(t)
  <2>1. PICK w \in {"pending", "drop"} : Become(t, [p EXCEPT !.at = w]) /\ p.at = "stale"
    BY <1>9, GoIsBecome DEF Stale, p
  <2> DEFINE to == [p EXCEPT !.at = w]
  <2>2. to \in TabState /\ to.at = w /\ to.recovers = p.recovers /\ to.then = p.then
        /\ to.row = p.row
    BY <1>1, <1>a, AtTyped
  <2> QED
    BY <1>b, <2>1, <2>2
<1>10. CASE Cancel(t)
  <2>1. p.at = "cancel" /\ (Become(t, Idle(p.cred))
                             \/ Become(t, [p EXCEPT !.at = "drop", !.then = "pending"]))
    BY <1>10 DEF Cancel, p, GiveUp
  <2> DEFINE to == [p EXCEPT !.at = "drop", !.then = "pending"]
  <2>2. to \in TabState /\ to.at = "drop" /\ to.recovers = p.recovers /\ to.then = "pending"
        /\ to.row = p.row
    BY <1>1, <1>a DEF TabState
  <2> QED
    BY <1>2, <1>b, <2>1, <2>2
<1>11. CASE Drop(t)
  <2>1. p.at = "drop" /\ (Become(t, Idle(p.cred))
                           \/ (Become(t, [p EXCEPT !.at = p.then]) /\ p.then # "idle"))
    BY <1>11, GoIsBecome DEF Drop, p, GiveUp
  <2>2. CASE Become(t, [p EXCEPT !.at = p.then]) /\ p.then # "idle"
    <3> DEFINE to == [p EXCEPT !.at = p.then]
    <3>1. to \in TabState /\ to.at = p.then /\ to.recovers = p.recovers /\ to.then = p.then
          /\ to.row = p.row
      BY <1>1, <1>a, AtTyped
    <3>2. TabComplete(to) /\ to.at \notin BundleAts \cup HandleAts
      BY <1>1, <1>a, <2>1, <2>2, <3>1
         DEF TabComplete, BundleAts, StageAts, SealAts, FinalAts, HandleAts, RowAts
    <3> QED
      BY <1>3, <2>2, <3>1, <3>2
  <2> QED
    BY <1>2, <2>1, <2>2
<1> QED
  BY <1>4, <1>5, <1>6, <1>7, <1>8, <1>9, <1>10, <1>11 DEF Recovering

\* A tab with a row that has neither bundle nor handle.
LEMMA RowFollows ==
  ASSUME NEW to \in TabState, ~to.recovers, to.row \in Edits,
         to.at \notin BundleAts \cup HandleAts \cup {"plainWait"}
  PROVE  Good(to) /\ \A p : Follow(p, to)
<1>1. TabComplete(to)
  BY DEF TabComplete, BundleAts, StageAts
<1> QED
  BY <1>1, FreeFollows DEF Good

LEMMA CommittingFollows ==
  ASSUME NEW p, Good(p), p.at \in {"enter", "install"}, NEW r \in Bundles, r = root'
  PROVE  Good(Committing(p, r)) /\ Follow(p, Committing(p, r))
<1> DEFINE q == Sending(p, r)
<1>1. ~p.recovers /\ p.cred \in Owners /\ p \in TabState
  BY DEF Good, TabComplete, RowAts, TabState
<1>2. Good(q) /\ Follow(p, q) /\ q.recovers = p.recovers
  BY <1>1, SendingTyped, SendingFollows
<1>3. Good(Idle(p.cred)) /\ Follow(p, Idle(p.cred))
  BY <1>1, IdleFollows
<1> HIDE DEF q
<1>4. CASE Committing(p, r) = [q EXCEPT !.handoff = TRUE, !.then = "idle"]
  <2> DEFINE to == [q EXCEPT !.handoff = TRUE, !.then = "idle"]
  <2>1. /\ to \in TabState /\ to.at = q.at /\ to.job = q.job /\ to.recovers = q.recovers
        /\ to.todo = q.todo /\ to.envelope = q.envelope /\ to.row = q.row
        /\ to.then = "idle" /\ to.rev = q.rev
    <3>1. q \in TabState
      BY <1>2 DEF Good
    <3> QED
      BY <3>1 DEF TabState
  <2> HIDE DEF to
  <2>2. Follow(p, to)
    BY <1>2, <2>1 DEF Follow, Track, Hold
  <2>3. TabComplete(to)
    BY <1>2, <2>1 DEF Good, TabComplete
  <2> QED
    BY <1>4, <2>1, <2>2, <2>3 DEF Good, to
<1>5. CASE Committing(p, r) = [q EXCEPT !.then = IF Matches(p, r) \/ p.retried THEN "idle"
                                                  ELSE "begin",
                                        !.retried = ~Matches(p, r)]
  <2> DEFINE w == IF Matches(p, r) \/ p.retried THEN "idle" ELSE "begin"
             b == ~Matches(p, r)
             to == [q EXCEPT !.then = w, !.retried = b]
  <2>0. w \in {"idle", "begin"} /\ b \in BOOLEAN
    BY DEF Matches
  <2> HIDE DEF w, b
  <2>1. /\ to \in TabState /\ to.at = q.at /\ to.job = q.job /\ to.recovers = q.recovers
        /\ to.todo = q.todo /\ to.envelope = q.envelope /\ to.row = q.row
        /\ to.then = w /\ to.rev = q.rev
    <3>1. q \in TabState
      BY <1>2 DEF Good
    <3> QED
      BY <2>0, <3>1 DEF TabState
  <2> HIDE DEF to
  <2>2. Follow(p, to)
    BY <1>2, <2>1 DEF Follow, Track, Hold
  <2>3. TabComplete(to)
    BY <1>1, <1>2, <2>1 DEF Good, TabComplete
  <2> QED
    BY <1>5, <2>1, <2>2, <2>3 DEF Good, to, w, b
<1> QED
  BY <1>3, <1>4, <1>5 DEF Committing, q

\* A mutation about to be stored has an id that nothing has.
LEMMA DrawnId ==
  ASSUME CompoundTypeOK, Drawable \ Drawn # {}
  PROVE  LET m == Min(Drawable \ Drawn)
         IN  /\ m \in Drawable
             /\ \A s \in sent : s[2].mutation # m
             /\ root # Null => root.mutation # m
             /\ \A t \in Tabs : tab[t].job # Null => tab[t].job.mutation # m
<1> DEFINE m == Min(Drawable \ Drawn)
<1>1. Drawable \ Drawn \in SUBSET Nat
  BY CompoundAssumption, KeysAssumption
<1>2. m \in Drawable \ Drawn
  BY <1>1, NatMin
<1> HIDE DEF m
<1>3. m \in Drawable /\ m \notin Drawn
  BY <1>2
<1> QED
  BY <1>3 DEF Drawn, m

LEMMA CandidateTyped ==
  ASSUME CompoundTypeOK, NEW p \in TabState, p.row \in Edits, Drawable \ Drawn # {}
  PROVE  /\ Candidate(p) \in Bundles
         /\ Candidate(p).mutation = Min(Drawable \ Drawn)
         /\ Candidate(p).ids = p.sources /\ Candidate(p).draft = p.row.draft
         /\ \A a \in p.sources : Candidate(p).hashes[a] = Null
         /\ ~Candidate(p).final /\ Candidate(p).rev = 0
<1> DEFINE m == Min(Drawable \ Drawn)
           h == [a \in p.sources |-> Null]
<1>1. m \in Drawable
  BY DrawnId
<1>2. /\ p.sources \in SUBSET Attachments /\ p.cred \in Owners /\ p.row.draft \in Drafts
      /\ known \in Nat
  BY DEF TabState, Edits, CompoundTypeOK, StoreTypes
<1>3. h \in [p.sources -> Seals \cup {Null}] /\ \A a \in p.sources : h[a] = Null
  OBVIOUS
<1>4. h \in Hashes
  BY <1>2, <1>3 DEF Hashes
<1>5. Candidate(p) = [mutation |-> m, owner |-> p.cred, base |-> known,
                      draft |-> p.row.draft, ids |-> p.sources,
                      hashes |-> h, final |-> FALSE, rev |-> 0]
  BY DEF Candidate
<1> HIDE DEF m, h
<1>6. Candidate(p) \in Bundles
  BY <1>1, <1>2, <1>3, <1>4, <1>5 DEF Bundles
<1> QED
  BY <1>3, <1>5, <1>6 DEF m

LEMMA PushingFollows ==
  ASSUME CompoundTypeOK, NEW t \in Tabs, Pushing(t)
  PROVE  \E to : Become(t, to) /\ Good(to) /\ (Follow(tab[t], to) \/ Draws(t, to))
<1> DEFINE p == tab[t]
<1> USE DEF At
<1>1. /\ Good(p) /\ p \in TabState /\ TabComplete(p) /\ p.cred \in Owners
  BY TabTyped DEF TabState
<1>2. Good(Idle(p.cred)) /\ Follow(p, Idle(p.cred))
  BY <1>1, IdleFollows
<1>3. p.at \in RowAts => ~p.recovers /\ p.row \in Edits
  BY <1>1 DEF TabComplete, RowAts
<1>a. /\ RowAts \cup {"finish", "drop"} \subseteq Places
      /\ {"drop", "remove", "await", "begin", "enter", "plain"}
           \cap (BundleAts \cup HandleAts \cup {"plainWait"}) = {}
      /\ {"remove", "await", "begin", "enter", "install", "plain"} \subseteq RowAts
  BY AllPlaces DEF BundleAts, StageAts, SealAts, FinalAts, HandleAts, RowAts
<1>b. ASSUME NEW w \in {"drop", "remove", "await", "begin", "enter", "plain"},
             NEW to, Become(t, to), to \in TabState, to.at = w, ~to.recovers,
             to.row \in Edits
      PROVE  \E q : Become(t, q) /\ Good(q) /\ Follow(p, q)
  BY <1>a, <1>b, RowFollows
<1> SUFFICES \E to : Become(t, to) /\ Good(to) /\ (Follow(p, to) \/ Draws(t, to))
  OBVIOUS
<1> HIDE DEF p
<1>4. CASE Push(t)
  <2>1. CASE outbox = Null
    BY <1>2, <1>4, <2>1 DEF Push, GiveUp, p
  <2>2. CASE outbox # Null
    <3> DEFINE c == Idle(p.cred)
               to == [c EXCEPT !.at = "remove", !.row = outbox]
    <3>1. c \in TabState /\ ~c.recovers
      BY <1>1, IdleTyped DEF Good, Idle
    <3>2. Become(t, to) /\ outbox \in Edits
      BY <1>4, <2>2 DEF Push, p, CompoundTypeOK, StoreTypes
    <3> HIDE DEF c
    <3>3. to \in TabState /\ to.at = "remove" /\ ~to.recovers /\ to.row = outbox
      BY <1>a, <3>1, <3>2 DEF TabState
    <3> QED
      BY <1>b, <3>2, <3>3
  <2> QED
    BY <2>1, <2>2
<1>5. CASE Remove(t)
  <2>1. PICK w \in {"plain", "await"}, S \in SUBSET waiting :
          Become(t, [p EXCEPT !.at = w, !.sources = S]) /\ p.at = "remove"
    BY <1>5 DEF Remove, p
  <2> DEFINE to == [p EXCEPT !.at = w, !.sources = S]
  <2>2. S \in SUBSET Attachments
    BY <2>1 DEF CompoundTypeOK, StoreTypes
  <2>3. to \in TabState /\ to.at = w /\ to.recovers = p.recovers /\ to.row = p.row
    BY <1>1, <1>a, <2>2 DEF TabState
  <2> QED
    BY <1>3, <1>a, <1>b, <2>1, <2>3
<1>6. CASE Await(t)
  <2>1. p.at = "await" /\ ~p.recovers /\ p.row \in Edits
    BY <1>3, <1>6, <1>a DEF Await, p
  <2>2. CASE index # Null
    <3> DEFINE to == [p EXCEPT !.at = "finish", !.job = index, !.then = "begin"]
    <3>1. Become(t, to) /\ index \in Handles
      BY <1>6, <2>2 DEF Await, p, CompoundTypeOK, StoreTypes
    <3>2. to \in TabState /\ to.at = "finish" /\ to.recovers = p.recovers
          /\ to.then = "begin" /\ to.row = p.row /\ to.job = index
      BY <1>1, <1>a, <3>1 DEF TabState
    <3> HIDE DEF to
    <3>3. Follow(p, to)
      BY <2>2, <3>2 DEF Follow, Track, Hold, BundleAts, StageAts, SealAts, FinalAts, HandleAts
    <3>4. TabComplete(to)
      BY <2>1, <3>1, <3>2
         DEF TabComplete, BundleAts, StageAts, SealAts, FinalAts, HandleAts, RowAts
    <3> QED
      BY <3>1, <3>2, <3>3, <3>4 DEF Good
  <2>3. CASE index = Null /\ intent # Null /\ intent.phase = "reconciled"
    <3> DEFINE to == [p EXCEPT !.at = "drop", !.intent = intent, !.then = "begin"]
    <3>1. Become(t, to) /\ intent \in UploadIntents
      BY <1>6, <2>3 DEF Await, p, CompoundTypeOK, StoreTypes
    <3>2. to \in TabState /\ to.at = "drop" /\ to.recovers = p.recovers /\ to.row = p.row
      BY <1>1, <1>a, <3>1 DEF TabState
    <3> QED
      BY <1>b, <2>1, <3>1, <3>2
  <2>4. CASE index = Null /\ ~(intent # Null /\ intent.phase = "reconciled")
    <3> DEFINE to == [p EXCEPT !.at = "begin"]
    <3>1. Become(t, to)
      BY <1>6, <2>4 DEF Await, p
    <3>2. to \in TabState /\ to.at = "begin" /\ to.recovers = p.recovers /\ to.row = p.row
      BY <1>1, <1>a, AtTyped
    <3> QED
      BY <1>b, <2>1, <3>1, <3>2
  <2> QED
    BY <2>2, <2>3, <2>4
<1>7. CASE Begins(t)
  <2> DEFINE to == [p EXCEPT !.at = "enter"]
  <2>1. Become(t, to) /\ p.at = "begin"
    BY <1>7, GoIsBecome DEF Begins, p
  <2>2. to \in TabState /\ to.at = "enter" /\ to.recovers = p.recovers /\ to.row = p.row
    BY <1>1, <1>a, AtTyped
  <2> QED
    BY <1>3, <1>a, <1>b, <2>1, <2>2
<1>8. CASE Enter(t)
  <2>1. p.at = "enter" /\ ~p.recovers /\ p.row \in Edits /\ root' = root
    BY <1>3, <1>8, <1>a DEF Enter, p, device
  <2>2. CASE root # Null
    <3>1. Become(t, Committing(p, root)) /\ root \in Bundles
      BY <1>8, <2>2 DEF Enter, p, CompoundTypeOK, StoreTypes
    <3> QED
      BY <1>1, <2>1, <3>1, CommittingFollows
  <2>3. CASE root = Null /\ p.sources \subseteq waiting
    <3> DEFINE r == Candidate(p)
               to == [p EXCEPT !.at = "install", !.job = r]
    <3>1. Become(t, to) /\ Drawable \ Drawn # {}
      BY <1>8, <2>3 DEF Enter, p
    <3>2. r \in Bundles
      BY <1>1, <2>1, <3>1, CandidateTyped
    <3> HIDE DEF r
    <3>3. to \in TabState /\ to.at = "install" /\ to.recovers = p.recovers
          /\ to.row = p.row /\ to.job = r
      BY <1>1, <1>a, <3>2 DEF TabState
    <3> HIDE DEF to
    <3>4. TabComplete(to)
      BY <2>1, <3>2, <3>3
         DEF TabComplete, BundleAts, StageAts, SealAts, FinalAts, HandleAts, RowAts
    <3>5. Draws(t, to)
      BY <1>8, <2>1, <2>3, <3>1, <3>3 DEF Draws, r, p
    <3> QED
      BY <3>1, <3>3, <3>4, <3>5 DEF Good
  <2>4. CASE root = Null /\ ~(p.sources \subseteq waiting)
    BY <1>2, <1>8, <2>4 DEF Enter, GiveUp, p
  <2> QED
    BY <2>2, <2>3, <2>4
<1>9. CASE Install(t)
  <2>1. p.at = "install" /\ p.job \in Bundles
    BY <1>1, <1>9 DEF Install, p, TabComplete, BundleAts
  <2>2. Become(t, Committing(p, root')) /\ root' \in Bundles
    BY <1>9, <2>1 DEF Install, p, CompoundTypeOK, StoreTypes
  <2> QED
    BY <1>1, <2>1, <2>2, CommittingFollows
<1>10. CASE Plain(t)
  <2>1. CASE p.cred \in live
    <3> DEFINE q == PlainRequest(Min(Drawable \ Drawn), p.row.draft)
               to == [p EXCEPT !.at = "plainWait", !.job = q]
    <3>1. Become(t, to) /\ q \in Requests /\ p.at = "plain"
      BY <1>10, <2>1 DEF Plain, p
    <3>2. q.op = "put"
      BY DEF PlainRequest
    <3> HIDE DEF q
    <3>3. "plainWait" \in Places
      BY <1>a DEF RowAts
    <3>4. to \in TabState /\ to.at = "plainWait" /\ to.recovers = p.recovers
          /\ to.row = p.row /\ to.job = q
      BY <1>1, <3>1, <3>3 DEF TabState
    <3> HIDE DEF to
    <3>5. TabComplete(to)
      BY <1>3, <1>a, <3>1, <3>2, <3>4
         DEF TabComplete, BundleAts, StageAts, SealAts, FinalAts, HandleAts, RowAts
    <3>6. Follow(p, to)
      BY <3>4, FreeFollows DEF BundleAts, StageAts, SealAts, FinalAts, HandleAts
    <3> QED
      BY <3>1, <3>4, <3>5, <3>6 DEF Good
  <2>2. CASE p.cred \notin live
    BY <1>2, <1>10, <2>2 DEF Plain, GiveUp, p
  <2> QED
    BY <2>1, <2>2
<1> QED
  BY <1>4, <1>5, <1>6, <1>7, <1>8, <1>9, <1>10 DEF Pushing

\* Bundles of one mutation differ at most in what was sent and answered of them.
SameHead(r, s) == r.base = s.base /\ r.draft = s.draft /\ r.ids = s.ids

JobsAgree ==
  \A t \in Tabs : tab[t].at \in BundleAts /\ Same(root, tab[t].job) =>
    SameHead(tab[t].job, root)

\* The stage a tab works on is one of its bundle.
LEMMA StageOf ==
  ASSUME NEW p, Good(p), p.at \in SealAts \cup {"seal"}
  PROVE  Min(p.todo) \in p.todo /\ Min(p.todo) \in p.job.ids /\ Min(p.todo) \in Attachments
<1>1. p.todo # {} /\ p.todo \subseteq p.job.ids /\ p.todo \in SUBSET Attachments
  BY DEF Good, TabComplete, StageAts, SealAts, TabState
<1>2. p.todo \in SUBSET Nat
  BY <1>1, KeysAssumption
<1> QED
  BY <1>1, <1>2, NatMin

LEMMA SealsAreNotNull == \A e \in Seals : e # Null /\ e \in Envelopes
BY CompoundAssumption, SettingsAssumption

LEMMA PayloadFacts ==
  ASSUME CompoundTypeOK, NEW r, NEW a, NEW x \in Payload(r, a)
  PROVE  x = <<r.mutation, a, x[3]>> /\ x \in payloads /\ x[3] \in Seals
BY DEF Payload, CompoundTypeOK, StoreTypes

\* What a step of a sending tab does to the root.
LEMMA RootMoves ==
  ASSUME CompoundTypeOK, JobsAgree, NEW t \in Tabs
  PROVE  /\ Staged(t) /\ root' # root =>
              LET a == Min(tab[t].todo)
              IN  /\ root \in Bundles /\ Same(root, tab[t].job) /\ tab[t].at = "staged"
                  /\ a \in root.ids /\ root.hashes[a] \in {Null, tab[t].envelope}
                  /\ tab[t].envelope \in Seals
                  /\ root' = [root EXCEPT !.hashes[a] = tab[t].envelope]
         /\ Finalize(t) /\ root' # root =>
              /\ root \in Bundles /\ root.rev = 0 /\ Same(root, tab[t].job)
              /\ root.final \/ Hashed(root) = root.ids
              /\ root' = [root EXCEPT !.final = TRUE]
         /\ Commit(t) /\ root' # root =>
              /\ root \in Bundles /\ Same(root, tab[t].job) /\ tab[t].at = "commit"
              /\ root.final /\ tab[t].rev \in Nat
              /\ root' = [root EXCEPT !.rev = tab[t].rev]
<1> DEFINE p == tab[t]
           a == Min(p.todo)
<1>1. Good(p) /\ TabComplete(p) /\ p.rev \in Nat /\ root \in Bundles \cup {Null}
  BY TabTyped DEF TabState, CompoundTypeOK, StoreTypes
<1> HIDE DEF a
<1>2. ASSUME Staged(t), root' # root
      PROVE  /\ root \in Bundles /\ Same(root, p.job) /\ p.at = "staged"
             /\ a \in root.ids /\ root.hashes[a] \in {Null, p.envelope}
             /\ p.envelope \in Seals
             /\ root' = [root EXCEPT !.hashes[a] = p.envelope]
  <2>1. /\ p.at = "staged" /\ Same(root, p.job) /\ root.hashes[a] \in {Null, p.envelope}
        /\ root' = [root EXCEPT !.hashes[a] = p.envelope]
    BY <1>2 DEF Staged, At, a
  <2>2. p.at \in SealAts /\ p.at \in BundleAts
    BY <2>1 DEF SealAts, StageAts, BundleAts
  <2>3. a \in p.job.ids /\ SameHead(p.job, root)
    BY <1>1, <2>1, <2>2, StageOf DEF JobsAgree, a
  <2> QED
    BY <1>1, <2>1, <2>2, <2>3 DEF SameHead, TabComplete, Same
<1>3. ASSUME Finalize(t), root' # root
      PROVE  /\ root \in Bundles /\ root.rev = 0 /\ Same(root, p.job)
             /\ root.final \/ Hashed(root) = root.ids
             /\ root' = [root EXCEPT !.final = TRUE]
  <2>1. /\ Same(root, p.job) /\ (root.final \/ root.rev > 0 \/ Hashed(root) = root.ids)
        /\ root' = [root EXCEPT !.final = root.final \/ root.rev = 0]
    BY <1>3 DEF Finalize
  <2>2. root \in Bundles /\ root.rev \in Nat /\ root.final \in BOOLEAN
    BY <1>1, <2>1, BundleFacts DEF Same
  <2>3. root.rev # 0 => [root EXCEPT !.final = root.final \/ root.rev = 0] = root
    BY <2>2 DEF Bundles
  <2>4. root.rev = 0
    BY <1>3, <2>1, <2>3
  <2> DEFINE b == root.final \/ root.rev = 0
  <2>5. b = TRUE
    BY <2>4
  <2>6. root' = [root EXCEPT !.final = b]
    BY <2>1
  <2> HIDE DEF b
  <2>7. root' = [root EXCEPT !.final = TRUE]
    BY <2>5, <2>6
  <2>8. ~(root.rev > 0)
    BY <2>4
  <2>9. root.final \/ Hashed(root) = root.ids
    BY <2>1, <2>8, Zenon
  <2> QED
    BY <2>1, <2>2, <2>4, <2>7, <2>9
<1>4. ASSUME Commit(t), root' # root
      PROVE  /\ root \in Bundles /\ Same(root, p.job) /\ p.at = "commit"
             /\ root.final /\ p.rev \in Nat /\ root' = [root EXCEPT !.rev = p.rev]
  BY <1>1, <1>4 DEF Commit, Same, At
<1> QED
  BY <1>2, <1>3, <1>4 DEF a

LEMMA SendingOnFollows ==
  ASSUME CompoundTypeOK, JobsAgree, NEW t \in Tabs, SendingOn(t)
  PROVE  \E to : Become(t, to) /\ Good(to) /\ Follow(tab[t], to)
<1> DEFINE p == tab[t]
           a == Min(p.todo)
<1> USE DEF At
<1>1. /\ Good(p) /\ p \in TabState /\ TabComplete(p) /\ p.cred \in Owners /\ p.rev \in Nat
      /\ p.todo \in SUBSET Attachments
  BY TabTyped DEF TabState
<1>2. /\ Good(Idle(p.cred)) /\ Follow(p, Idle(p.cred))
      /\ Good(Caught(p)) /\ Follow(p, Caught(p))
  BY <1>1, IdleFollows, CaughtFollows
<1>3. p.at \in BundleAts \ {"install"} =>
        p.job \in Bundles /\ p.at # "idle" /\ (p.recovers => p.at \notin RowAts)
  BY <1>1 DEF TabComplete, BundleAts, StageAts, SealAts, FinalAts
<1>a. StageAts \cup FinalAts \subseteq Places /\ StageAts \cup FinalAts \subseteq BundleAts
  BY AllPlaces DEF BundleAts
<1>b. ASSUME NEW to \in TabState, p.at \in StageAts, to.at \in StageAts, to.job = p.job,
             to.todo \subseteq p.todo, to.row = p.row, to.recovers = p.recovers,
             to.then = p.then,
             to.at # "stage" => to.todo = p.todo /\ p.todo # {},
             to.at \in SealAts => to.envelope \in Seals
      PROVE  Good(to)
  <2>1. TabComplete(to)
    BY <1>1, <1>b DEF TabComplete, BundleAts, StageAts, SealAts, FinalAts, HandleAts, RowAts
  <2> QED
    BY <1>b, <2>1 DEF Good
<1> SUFFICES \E to : Become(t, to) /\ Good(to) /\ Follow(p, to)
  OBVIOUS
<1> HIDE DEF p, a
<1>4. CASE NextStage(t)
  <2>1. p.at = "stage" /\ p.todo # {}
    BY <1>4 DEF NextStage, p
  <2>2. p.at \in StageAts /\ "stage" \in StageAts /\ "stageSend" \in StageAts /\ "seal" \in StageAts
    BY <2>1 DEF StageAts, SealAts
  <2>3. CASE p.job.hashes[a] # Null
    <3> DEFINE S == p.todo \ {a}
               to == [p EXCEPT !.todo = S]
    <3>1. Become(t, to)
      BY <1>4, <2>3 DEF NextStage, p, a
    <3>2. S \in SUBSET Attachments /\ S \subseteq p.todo
      BY <1>1
    <3> HIDE DEF S
    <3>3. /\ to \in TabState /\ to.at = p.at /\ to.job = p.job /\ to.todo = S
          /\ to.row = p.row /\ to.recovers = p.recovers /\ to.then = p.then
      BY <1>1, <3>2 DEF TabState
    <3> HIDE DEF to
    <3>4. Good(to)
      BY <1>b, <2>1, <2>2, <3>2, <3>3 DEF SealAts
    <3>5. Follow(p, to)
      BY <2>1, <3>3 DEF Follow, Track, Hold, BundleAts, StageAts, SealAts, FinalAts, HandleAts
    <3> QED
      BY <3>1, <3>4, <3>5
  <2>4. CASE p.job.hashes[a] = Null /\ Payload(p.job, a) # {}
    <3>1. PICK x \in Payload(p.job, a) :
            Become(t, [p EXCEPT !.at = "stageSend", !.envelope = x[3]])
      BY <1>4, <2>4 DEF NextStage, p, a
    <3> DEFINE e == x[3]
               to == [p EXCEPT !.at = "stageSend", !.envelope = e]
    <3>2. e \in Seals /\ <<p.job.mutation, a, e>> \in payloads
      BY PayloadFacts
    <3>3. payloads' = payloads
      BY <1>4, <2>4 DEF NextStage, p, a
    <3>4. Become(t, to)
      BY <3>1
    <3> HIDE DEF e
    <3>5. /\ to \in TabState /\ to.at = "stageSend" /\ to.job = p.job /\ to.todo = p.todo
          /\ to.row = p.row /\ to.recovers = p.recovers /\ to.then = p.then
          /\ to.envelope = e
      BY <1>1, <1>a, <2>2, <3>2 DEF TabState
    <3> HIDE DEF to
    <3>6. Good(to)
      BY <1>b, <2>1, <2>2, <3>2, <3>5
    <3>7. Follow(p, to)
      BY <2>1, <3>2, <3>3, <3>5
         DEF Follow, Track, Hold, BundleAts, StageAts, SealAts, FinalAts, HandleAts, a
    <3> QED
      BY <3>4, <3>6, <3>7
  <2>5. CASE p.job.hashes[a] = Null /\ Payload(p.job, a) = {}
    <3> DEFINE to == [p EXCEPT !.at = "seal"]
    <3>1. Become(t, to) \/ Become(t, Caught(p))
      BY <1>4, <2>5 DEF NextStage, p, a
    <3>2. /\ to \in TabState /\ to.at = "seal" /\ to.job = p.job /\ to.todo = p.todo
          /\ to.row = p.row /\ to.recovers = p.recovers /\ to.then = p.then
      BY <1>1, <1>a, <2>2, AtTyped
    <3> HIDE DEF to
    <3>3. Good(to)
      BY <1>b, <2>1, <2>2, <3>2 DEF SealAts
    <3>4. Follow(p, to)
      BY <2>1, <3>2 DEF Follow, Track, Hold, BundleAts, StageAts, SealAts, FinalAts, HandleAts
    <3> QED
      BY <1>2, <3>1, <3>3, <3>4
  <2> QED
    BY <2>3, <2>4, <2>5
<1>5. CASE Seal(t)
  <2>1. p.at = "seal"
    BY <1>5 DEF Seal, p
  <2>2. /\ p.at \in StageAts /\ "stageSend" \in StageAts /\ p.todo # {}
    BY <1>1, <2>1 DEF StageAts, SealAts, TabComplete
  <2>3. Become(t, Caught(p)) \/
        \E e \in Seals : /\ <<p.job.mutation, a, e>> \in payloads'
                         /\ Become(t, [p EXCEPT !.at = "stageSend", !.envelope = e])
    <3>1. \A x \in Payload(p.job, a) : x[3] \in Seals
      BY PayloadFacts
    <3> QED
      BY <1>5, <3>1 DEF Seal, p, a
  <2>4. ASSUME NEW e \in Seals, <<p.job.mutation, a, e>> \in payloads',
               Become(t, [p EXCEPT !.at = "stageSend", !.envelope = e])
        PROVE  \E to : Become(t, to) /\ Good(to) /\ Follow(p, to)
    <3> DEFINE to == [p EXCEPT !.at = "stageSend", !.envelope = e]
    <3>1. /\ to \in TabState /\ to.at = "stageSend" /\ to.job = p.job /\ to.todo = p.todo
          /\ to.row = p.row /\ to.recovers = p.recovers /\ to.then = p.then
          /\ to.envelope = e
      BY <1>1, <1>a, <2>2 DEF TabState
    <3>2. Become(t, to)
      BY <2>4
    <3> HIDE DEF to
    <3>3. Good(to)
      BY <1>b, <2>2, <3>1
    <3>4. Follow(p, to)
      BY <2>1, <2>4, <3>1
         DEF Follow, Track, Hold, BundleAts, StageAts, SealAts, FinalAts, HandleAts, a
    <3> QED
      BY <3>2, <3>3, <3>4
  <2> QED
    BY <1>2, <2>3, <2>4
<1>6. CASE Sends(t)
  <2>1. p.at \in {"stageSend", "finalSend"} /\ sent' = sent \cup {<<p.cred, RequestOf(p)>>}
    BY <1>6 DEF Sends, p
  <2>2. CASE p.at = "stageSend"
    <3> DEFINE to == [p EXCEPT !.at = "stageWait"]
    <3>1. Become(t, to) \/ Become(t, Caught(p))
      BY <1>6, <2>2, GoIsBecome DEF Sends, p
    <3>2. /\ p.at \in StageAts /\ "stageWait" \in StageAts /\ p.todo # {}
          /\ p.envelope \in Seals
      BY <1>1, <2>2 DEF StageAts, SealAts, TabComplete
    <3>3. /\ to \in TabState /\ to.at = "stageWait" /\ to.job = p.job /\ to.todo = p.todo
          /\ to.row = p.row /\ to.recovers = p.recovers /\ to.then = p.then
          /\ to.envelope = p.envelope
      BY <1>1, <1>a, <3>2, AtTyped
    <3> HIDE DEF to
    <3>4. Good(to)
      BY <1>b, <3>2, <3>3
    <3>5. Follow(p, to)
      BY <2>2, <3>3 DEF Follow, Track, Hold, BundleAts, StageAts, SealAts, FinalAts, HandleAts
    <3> QED
      BY <1>2, <3>1, <3>4, <3>5
  <2>3. CASE p.at = "finalSend"
    <3> DEFINE to == [p EXCEPT !.at = "finalWait"]
    <3>1. Become(t, to) \/ Become(t, Caught(p))
      BY <1>6, <2>3, GoIsBecome DEF Sends, p
    <3>2. "finalWait" \in Places /\ RequestOf(p) = FinalRequest(p.job) /\ p.job \in Bundles
      BY <1>3, <1>a, <2>3 DEF FinalAts, RequestOf, BundleAts
    <3>3. /\ to \in TabState /\ to.at = "finalWait" /\ to.job = p.job /\ to.todo = p.todo
          /\ to.row = p.row /\ to.recovers = p.recovers /\ to.then = p.then
          /\ to.envelope = p.envelope
      BY <1>1, <3>2, AtTyped
    <3> HIDE DEF to
    <3>4. TabComplete(to)
      BY <1>1, <2>3, <3>2, <3>3
         DEF TabComplete, BundleAts, StageAts, SealAts, FinalAts, HandleAts, RowAts
    <3>a. \E s \in sent' : s[2] = FinalRequest(to.job)
      <4> DEFINE s == <<p.cred, RequestOf(p)>>
      <4>1. s \in sent' /\ s[2] = RequestOf(p)
        BY <2>1
      <4> HIDE DEF s
      <4> QED
        BY <3>2, <3>3, <4>1
    <3>5. Follow(p, to)
      BY <2>3, <3>2, <3>3, <3>a
         DEF Follow, Track, Hold, BundleAts, StageAts, SealAts, FinalAts, HandleAts
    <3> QED
      BY <1>2, <3>1, <3>3, <3>4, <3>5 DEF Good
  <2> QED
    BY <2>1, <2>2, <2>3
<1>7. CASE Staged(t)
  <2> DEFINE to == [p EXCEPT !.at = "unseal"]
  <2>1. p.at = "staged" /\ (Become(t, Caught(p))
          \/ /\ Become(t, to)
             /\ Same(root, p.job) /\ root' = [root EXCEPT !.hashes[a] = p.envelope])
    BY <1>7, GoIsBecome DEF Staged, p, a
  <2>2. /\ p.at \in StageAts /\ "unseal" \in StageAts /\ p.todo # {} /\ p.at \in BundleAts
        /\ p.envelope \in Seals /\ p.at \in SealAts
    BY <1>1, <2>1 DEF StageAts, SealAts, TabComplete, BundleAts
  <2>3. /\ to \in TabState /\ to.at = "unseal" /\ to.job = p.job /\ to.todo = p.todo
        /\ to.row = p.row /\ to.recovers = p.recovers /\ to.then = p.then
        /\ to.envelope = p.envelope
    BY <1>1, <1>a, <2>2, AtTyped
  <2>4. ASSUME Same(root, p.job), root' = [root EXCEPT !.hashes[a] = p.envelope]
        PROVE  Same(root', p.job) /\ root'.hashes[a] # Null
    <3>1. root \in Bundles /\ a \in p.job.ids /\ SameHead(p.job, root)
      BY <1>1, <2>2, <2>4, StageOf DEF Same, CompoundTypeOK, StoreTypes, JobsAgree, p, a
    <3>2. a \in root.ids
      BY <3>1 DEF SameHead
    <3>3. /\ root'.hashes = [root.hashes EXCEPT ![a] = p.envelope]
          /\ root'.mutation = root.mutation /\ root' \in Bundles
      BY <2>2, <2>4, <3>1, <3>2, BundleSteps
    <3>4. root.hashes \in [root.ids -> Seals \cup {Null}] /\ root' # Null
      BY <3>1, <3>3, BundleFacts
    <3> QED
      BY <2>2, <2>4, <3>2, <3>3, <3>4, SealsAreNotNull DEF Same
  <2> HIDE DEF to
  <2>5. Good(to)
    BY <1>b, <2>2, <2>3
  <2>6. ASSUME Same(root', p.job), root'.hashes[a] # Null
        PROVE  Follow(p, to)
    BY <2>1, <2>3, <2>6
       DEF Follow, Track, Hold, BundleAts, StageAts, SealAts, FinalAts, HandleAts, a
  <2> QED
    BY <1>2, <2>1, <2>4, <2>5, <2>6
<1>8. CASE Unseal(t)
  <2>1. p.at = "unseal" /\ root' = root
    BY <1>8 DEF Unseal, p
  <2>2. p.at \in StageAts /\ "stage" \in StageAts /\ p.at \in BundleAts \ {"install"}
    BY <2>1 DEF StageAts, SealAts, BundleAts
  <2>3. CASE root = Null
    BY <1>2, <1>8, <2>3 DEF Unseal, p
  <2>4. CASE root # Null /\ root.rev > 0
    <3>1. root \in Bundles /\ Become(t, Sending(p, root))
      BY <1>8, <2>4 DEF Unseal, p, CompoundTypeOK, StoreTypes
    <3> QED
      BY <1>1, <1>3, <2>1, <2>2, <3>1, SendingTyped, SendingFollows
  <2>5. CASE root # Null /\ ~(root.rev > 0)
    <3> DEFINE S == p.todo \ {a}
               to == [p EXCEPT !.at = "stage", !.todo = S]
    <3>1. Become(t, to)
      BY <1>8, <2>5 DEF Unseal, p, a
    <3>2. S \in SUBSET Attachments /\ S \subseteq p.todo
      BY <1>1
    <3> HIDE DEF S
    <3>3. /\ to \in TabState /\ to.at = "stage" /\ to.job = p.job /\ to.todo = S
          /\ to.row = p.row /\ to.recovers = p.recovers /\ to.then = p.then
      BY <1>1, <1>a, <2>2, <3>2 DEF TabState
    <3> HIDE DEF to
    <3>4. Good(to)
      BY <1>b, <2>2, <3>2, <3>3 DEF SealAts
    <3>5. Follow(p, to)
      BY <2>2, <3>3 DEF Follow, Track, Hold, BundleAts, StageAts, SealAts, FinalAts, HandleAts
    <3> QED
      BY <3>1, <3>4, <3>5
  <2> QED
    BY <2>3, <2>4, <2>5
<1>9. CASE Finalize(t)
  <2>1. p.at = "stage"
    BY <1>9 DEF Finalize, p
  <2>2. p.at \in BundleAts \ {"install"}
    BY <2>1 DEF StageAts, SealAts, BundleAts
  <2>3. CASE Become(t, Caught(p))
    BY <1>2, <2>3
  <2>4. CASE ~Become(t, Caught(p))
    <3>1. /\ Same(root, p.job) /\ root \in Bundles
          /\ root' = [root EXCEPT !.final = root.final \/ root.rev = 0]
          /\ Become(t, IF root.rev > 0 THEN Sending(p, root)
                       ELSE [p EXCEPT !.at = "finalSend", !.job = root'])
      BY <1>9, <2>4 DEF Finalize, p, Same, CompoundTypeOK, StoreTypes
    <3>2. root.final \in BOOLEAN /\ root.rev \in Nat
      BY <3>1, BundleFacts
    <3>3. CASE root.rev > 0
      <4>1. root' = root
        BY <3>1, <3>2, <3>3 DEF Bundles
      <4> QED
        BY <1>1, <1>3, <2>2, <3>1, <3>3, <4>1, SendingTyped, SendingFollows
    <3>4. CASE ~(root.rev > 0)
      <4> DEFINE r == [root EXCEPT !.final = TRUE]
                 to == [p EXCEPT !.at = "finalSend", !.job = r]
      <4>1. (root.final \/ root.rev = 0) = TRUE
        BY <3>2, <3>4
      <4>2. root' = r /\ r \in Bundles /\ r.final = TRUE /\ r # Null
        BY <3>1, <4>1, BundleSteps, BundleFacts
      <4>3. Become(t, to)
        BY <3>1, <3>4, <4>2
      <4> HIDE DEF r
      <4>4. "finalSend" \in Places
        BY <1>a DEF FinalAts
      <4>5. /\ to \in TabState /\ to.at = "finalSend" /\ to.job = r
            /\ to.row = p.row /\ to.recovers = p.recovers /\ to.then = p.then
        BY <1>1, <4>2, <4>4 DEF TabState
      <4> HIDE DEF to
      <4>6. TabComplete(to)
        BY <1>1, <2>1, <4>2, <4>5
           DEF TabComplete, BundleAts, StageAts, SealAts, FinalAts, HandleAts, RowAts
      <4>7. Follow(p, to)
        BY <4>2, <4>5
           DEF Follow, Track, Hold, BundleAts, StageAts, SealAts, FinalAts, HandleAts
      <4> QED
        BY <4>3, <4>5, <4>6, <4>7 DEF Good
    <3> QED
      BY <3>3, <3>4
  <2> QED
    BY <2>3, <2>4
<1>10. CASE Remember(t)
  <2> DEFINE to == [p EXCEPT !.at = "commit"]
  <2>1. p.at = "told" /\ Become(t, to)
    BY <1>10, GoIsBecome DEF Remember, p
  <2>2. "commit" \in Places
    BY <1>a DEF FinalAts
  <2>3. /\ to \in TabState /\ to.at = "commit" /\ to.job = p.job /\ to.rev = p.rev
        /\ to.row = p.row /\ to.recovers = p.recovers /\ to.then = p.then
    BY <1>1, <2>2, AtTyped
  <2> HIDE DEF to
  <2>4. TabComplete(to)
    BY <1>1, <2>1, <2>3
       DEF TabComplete, BundleAts, StageAts, SealAts, FinalAts, HandleAts, RowAts
  <2>5. Follow(p, to)
    BY <2>1, <2>3 DEF Follow, Track, Hold, BundleAts, StageAts, SealAts, FinalAts, HandleAts
  <2> QED
    BY <2>1, <2>3, <2>4, <2>5 DEF Good
<1>11. CASE Commit(t)
  <2>1. p.at = "commit"
    BY <1>11 DEF Commit, p
  <2>2. p.at \in BundleAts \ {"install"}
    BY <2>1 DEF FinalAts, BundleAts
  <2>3. CASE Become(t, Caught(p))
    BY <1>2, <2>3
  <2>4. CASE ~Become(t, Caught(p))
    <3>1. /\ root \in Bundles /\ root' = [root EXCEPT !.rev = p.rev]
          /\ Become(t, Sending(p, root'))
      BY <1>11, <2>4 DEF Commit, p, Same, CompoundTypeOK, StoreTypes
    <3>2. root' \in Bundles
      BY <1>1, <3>1, BundleSteps
    <3> QED
      BY <1>1, <1>3, <2>2, <3>1, <3>2, SendingTyped, SendingFollows
  <2> QED
    BY <2>3, <2>4
<1>12. CASE Timeout(t)
  BY <1>2, <1>12 DEF Timeout, p
<1> QED
  BY <1>4, <1>5, <1>6, <1>7, <1>8, <1>9, <1>10, <1>11, <1>12 DEF SendingOn

\* A conflicted tab has its row and nothing else.
LEMMA ConflictedFollows ==
  ASSUME NEW p \in TabState, ~p.recovers, p.row \in Edits
  PROVE  Good(Conflicted(p)) /\ \A q : Follow(q, Conflicted(p))
<1> DEFINE to == [p EXCEPT !.at = "copy", !.todo = {}, !.job = Null]
<1>1. "copy" \in Places
  BY AllPlaces DEF RowAts
<1>2. to \in TabState /\ to.at = "copy" /\ to.recovers = p.recovers /\ to.row = p.row
  BY <1>1 DEF TabState
<1>3. "copy" \notin BundleAts \cup HandleAts \cup {"plainWait"}
  BY DEF BundleAts, StageAts, SealAts, FinalAts, HandleAts
<1> HIDE DEF to
<1>4. Good(to) /\ \A q : Follow(q, to)
  BY <1>2, <1>3, RowFollows
<1> QED
  BY <1>4 DEF Conflicted, to

LEMMA EndingFollows ==
  ASSUME CompoundTypeOK, NEW t \in Tabs, Ending(t)
  PROVE  \E to : Become(t, to) /\ Good(to) /\ Follow(tab[t], to)
<1> DEFINE p == tab[t]
<1> USE DEF At
<1>1. Good(p) /\ p \in TabState /\ TabComplete(p) /\ p.cred \in Owners
  BY TabTyped DEF TabState
<1>2. /\ Good(Idle(p.cred)) /\ Follow(p, Idle(p.cred))
      /\ Good(Caught(p)) /\ Follow(p, Caught(p))
  BY <1>1, IdleFollows, CaughtFollows
<1>3. p.at # "idle" => (~p.recovers => p.row \in Edits) /\ (p.at \in RowAts => ~p.recovers)
  BY <1>1 DEF TabComplete
<1>a. /\ RowAts \cup HandleAts \cup {"drop", "pending"} \subseteq Places
      /\ {"drop", "pending", "restore", "preserve", "reject", "settle"}
           \cap (BundleAts \cup HandleAts \cup {"plainWait"}) = {}
      /\ {"copy", "restore", "preserve", "reject", "settle"} \subseteq RowAts
  BY AllPlaces DEF BundleAts, StageAts, SealAts, FinalAts, HandleAts, RowAts
<1>b. ASSUME NEW w \in {"restore", "preserve", "reject", "settle"},
             Become(t, [p EXCEPT !.at = w]),
             p.at \in {"copy", "restore", "preserve", "reject"}
      PROVE  \E q : Become(t, q) /\ Good(q) /\ Follow(p, q)
  <2> DEFINE to == [p EXCEPT !.at = w]
  <2>1. to \in TabState /\ to.at = w /\ to.recovers = p.recovers /\ to.row = p.row
    BY <1>1, <1>a, <1>b, AtTyped
  <2>2. ~p.recovers /\ p.row \in Edits
    BY <1>3, <1>a, <1>b
  <2>3. Good(to) /\ Follow(p, to)
    BY <1>a, <2>1, <2>2, RowFollows
  <2> QED
    BY <1>b, <2>3
<1>c. ASSUME NEW to \in TabState, to.at \in HandleAts, p.at \in HandleAts, to.job = p.job,
             to.row = p.row, to.recovers = p.recovers, to.then = p.then
      PROVE  Good(to) /\ Follow(p, to)
  <2>1. TabComplete(to)
    BY <1>1, <1>c
       DEF TabComplete, BundleAts, StageAts, SealAts, FinalAts, HandleAts, RowAts
  <2>2. Follow(p, to)
    BY <1>c DEF Follow, Track, Hold, BundleAts, StageAts, SealAts, FinalAts, HandleAts
  <2> QED
    BY <1>c, <2>1, <2>2 DEF Good
<1> SUFFICES \E to : Become(t, to) /\ Good(to) /\ Follow(p, to)
  OBVIOUS
<1> HIDE DEF p
<1>4. CASE Discard(t)
  <2>1. p.at # "idle" /\ Become(t, IF p.recovers THEN Caught(p)
                                  ELSE IF p.kept THEN Conflicted(p) ELSE Idle(p.cred))
    BY <1>4 DEF Discard, p
  <2>2. CASE p.recovers \/ ~p.kept
    BY <1>2, <2>1, <2>2
  <2>3. CASE ~p.recovers /\ p.kept
    BY <1>1, <1>3, <2>1, <2>3, ConflictedFollows
  <2> QED
    BY <2>2, <2>3
<1>5. CASE Abandon(t)
  <2>1. /\ p.at \in {"stageRefused", "finalRefused"}
        /\ \/ Become(t, Idle(p.cred))
           \/ ~p.recovers /\ Become(t, Conflicted(p))
           \/ /\ p.recovers
              /\ \E w \in {"pending", "drop"} :
                   Become(t, [p EXCEPT !.at = w, !.then = "pending"])
    BY <1>5 DEF Abandon, p
  <2>2. ASSUME NEW w \in {"pending", "drop"}, p.recovers
        PROVE  LET to == [p EXCEPT !.at = w, !.then = "pending"]
               IN  Good(to) /\ Follow(p, to)
    <3> DEFINE to == [p EXCEPT !.at = w, !.then = "pending"]
    <3>1. /\ to \in TabState /\ to.at = w /\ to.recovers = p.recovers /\ to.row = p.row
          /\ to.then = "pending"
      BY <1>1, <1>a, <2>2 DEF TabState
    <3> HIDE DEF to
    <3>2. TabComplete(to) /\ Follow(p, to)
      BY <1>a, <2>2, <3>1, FreeFollows
         DEF TabComplete, BundleAts, StageAts, SealAts, FinalAts, HandleAts, RowAts
    <3> QED
      BY <3>1, <3>2 DEF Good, to
  <2>3. CASE ~p.recovers /\ Become(t, Conflicted(p))
    BY <1>1, <1>3, <2>1, <2>3, ConflictedFollows
  <2> QED
    BY <1>2, <2>1, <2>2, <2>3
<1>6. CASE DropOwn(t)
  BY <1>b, <1>6, GoIsBecome DEF DropOwn, p
<1>7. CASE Restore(t)
  BY <1>b, <1>7, GoIsBecome DEF Restore, p
<1>8. CASE Preserve(t)
  BY <1>b, <1>8, GoIsBecome DEF Preserve, p
<1>9. CASE Reject(t)
  BY <1>b, <1>9, GoIsBecome DEF Reject, p
<1>10. CASE SettleRow(t)
  BY <1>2, <1>10 DEF SettleRow, GiveUp, p
<1>11. CASE Finishes(t)
  <2>1. CASE Become(t, Idle(p.cred))
    BY <1>2, <2>1
  <2>2. CASE ~Become(t, Idle(p.cred))
    <3>1. PICK w \in {"complete", "clear"} : /\ Become(t, [p EXCEPT !.at = w, !.intent = intent])
                                             /\ intent # Null /\ p.at = "finish"
      BY <1>11, <2>2 DEF Finishes, GiveUp, p
    <3> DEFINE to == [p EXCEPT !.at = w, !.intent = intent]
    <3>2. intent \in UploadIntents /\ w \in HandleAts /\ p.at \in HandleAts
      BY <3>1 DEF CompoundTypeOK, StoreTypes, HandleAts
    <3>3. /\ to \in TabState /\ to.at = w /\ to.recovers = p.recovers /\ to.row = p.row
          /\ to.then = p.then /\ to.job = p.job
      BY <1>1, <1>a, <3>2 DEF TabState
    <3>4. Good(to) /\ Follow(p, to)
      BY <1>c, <3>2, <3>3
    <3> QED
      BY <3>1, <3>4
  <2> QED
    BY <2>1, <2>2
<1>d. ASSUME NEW w \in {"mark", "complete"}, p.at \in {"clear", "mark"},
             Become(t, [p EXCEPT !.at = w])
      PROVE  \E to : Become(t, to) /\ Good(to) /\ Follow(p, to)
  <2> DEFINE to == [p EXCEPT !.at = w]
  <2>1. w \in HandleAts /\ p.at \in HandleAts
    BY <1>d DEF HandleAts
  <2>2. /\ to \in TabState /\ to.at = w /\ to.recovers = p.recovers /\ to.row = p.row
        /\ to.then = p.then /\ to.job = p.job
    BY <1>1, <1>a, <2>1, AtTyped
  <2>3. Good(to) /\ Follow(p, to)
    BY <1>c, <2>1, <2>2
  <2> QED
    BY <1>d, <2>3
<1>12. CASE Clear(t)
  BY <1>d, <1>12, GoIsBecome DEF Clear, p
<1>13. CASE Mark(t)
  BY <1>2, <1>d, <1>13, GoIsBecome DEF Mark, GiveUp, p
<1>14. CASE Complete(t)
  <2> DEFINE to == [p EXCEPT !.at = "drop"]
  <2>1. Become(t, to) /\ p.at = "complete"
    BY <1>14, GoIsBecome DEF Complete, p
  <2>2. /\ to \in TabState /\ to.at = "drop" /\ to.recovers = p.recovers /\ to.row = p.row
        /\ to.then = p.then
    BY <1>1, <1>a, AtTyped
  <2> HIDE DEF to
  <2>3. TabComplete(to) /\ Follow(p, to)
    BY <1>1, <1>a, <2>1, <2>2, FreeFollows
       DEF TabComplete, BundleAts, StageAts, SealAts, FinalAts, HandleAts, RowAts
  <2> QED
    BY <2>1, <2>2, <2>3 DEF Good
<1> QED
  BY <1>4, <1>5, <1>6, <1>7, <1>8, <1>9, <1>10, <1>11, <1>12, <1>13, <1>14 DEF Ending

\* What a step of one tab makes of that tab.
LEMMA TabFollows ==
  ASSUME CompoundTypeOK, JobsAgree, NEW t \in Tabs, TabStep(t)
  PROVE  \E to : Become(t, to) /\ Good(to) /\ (Follow(tab[t], to) \/ Draws(t, to))
<1>1. CASE Recovering(t)
  BY <1>1, RecoveringFollows
<1>2. CASE Pushing(t)
  BY <1>2, PushingFollows
<1>3. CASE SendingOn(t)
  BY <1>3, SendingOnFollows
<1>4. CASE Ending(t)
  BY <1>4, EndingFollows
<1>5. CASE Close(t) \/ Reload(t)
  <2>1. Become(t, Idle(session)) /\ session \in Owners
    BY <1>5 DEF Close, Reload, CompoundTypeOK, StoreTypes
  <2> QED
    BY <2>1, IdleFollows
<1> QED
  BY <1>1, <1>2, <1>3, <1>4, <1>5 DEF TabStep

-----------------------------------------------------------------------------
(* What a tab does to the storage *)

LEMMA RootSteps ==
  ASSUME NEW t \in Tabs, TabStep(t)
  PROVE  \/ root' = root
         \/ root' = Null /\ Complete(t) /\ root # Null /\ root.rev > 0
         \/ root' = Null /\ root # Null /\ payloads' = Without(payloads, root)
         \/ root = Null /\ Install(t) /\ tab[t].at = "install" /\ root' = tab[t].job
         \/ Staged(t) \/ Finalize(t) \/ Commit(t)
<1> USE DEF At
<1>1. CASE Recovering(t) /\ ~Cancel(t)
  BY <1>1 DEF Recovering, StartPass, Committed, Listed, Intents, Resume, Stale, Drop, device
<1>2. CASE Cancel(t)
  BY <1>2 DEF Cancel
<1>3. CASE Pushing(t)
  BY <1>3 DEF Pushing, Push, Remove, Await, Begins, Enter, Install, Plain, device
<1>4. CASE SendingOn(t)
  BY <1>4 DEF SendingOn, NextStage, Seal, Sends, Unseal, Remember, Timeout, device
<1>5. CASE Ending(t) /\ ~Discard(t) /\ ~Abandon(t)
  BY <1>5 DEF Ending, DropOwn, Restore, Preserve, Reject, SettleRow, Finishes, Clear, Mark,
              Complete, device
<1>6. CASE Discard(t)
  BY <1>6 DEF Discard, Same, Without
<1>7. CASE Abandon(t)
  BY <1>7 DEF Abandon
<1>8. CASE Close(t) \/ Reload(t)
  BY <1>8 DEF Close, Reload, device
<1> QED
  BY <1>1, <1>2, <1>3, <1>4, <1>5, <1>6, <1>7, <1>8 DEF TabStep

\* The payload of a stage enters once, and goes when its hash is there.
PayloadEnters(t) ==
  LET p == tab[t]
      a == Min(p.todo)
  IN  /\ p.at = "seal" /\ Same(root, p.job) /\ root.rev = 0 /\ root.hashes[a] = Null
      /\ root' = root /\ sent' = sent /\ Payload(p.job, a) = {}
      /\ \E e \in Seals : payloads' = payloads \cup {<<p.job.mutation, a, e>>}

PayloadLeaves(t) ==
  LET p == tab[t]
      a == Min(p.todo)
  IN  /\ \/ p.at = "stage" /\ p.todo # {} /\ p.job.hashes[a] # Null
         \/ p.at = "unseal"
      /\ payloads' = payloads \ Payload(p.job, a)
      /\ root' = root

LEMMA PayloadSteps ==
  ASSUME CompoundTypeOK, NEW t \in Tabs, TabStep(t)
  PROVE  \/ payloads' = payloads
         \/ root' = Null /\ root # Null /\ payloads' = Without(payloads, root)
         \/ PayloadEnters(t) \/ PayloadLeaves(t)
<1> USE DEF At
<1>1. CASE Recovering(t) /\ ~Cancel(t)
  BY <1>1 DEF Recovering, StartPass, Committed, Listed, Intents, Resume, Stale, Drop, device
<1>2. CASE Cancel(t)
  BY <1>2 DEF Cancel
<1>3. CASE Pushing(t)
  BY <1>3 DEF Pushing, Push, Remove, Await, Begins, Enter, Install, Plain, device
<1>4. CASE SendingOn(t) /\ ~NextStage(t) /\ ~Seal(t) /\ ~Unseal(t)
  BY <1>4 DEF SendingOn, Sends, Staged, Finalize, Remember, Commit, Timeout, device
<1>5. CASE NextStage(t) \/ Unseal(t)
  BY <1>5 DEF NextStage, Unseal, PayloadLeaves
<1>6. CASE Seal(t)
  <2> DEFINE p == tab[t]
             a == Min(p.todo)
  <2>1. CASE ~(Same(root, p.job) /\ root.rev = 0 /\ root.hashes[a] = Null)
    BY <1>6, <2>1 DEF Seal
  <2>2. CASE Same(root, p.job) /\ root.rev = 0 /\ root.hashes[a] = Null
    <3>1. CASE Payload(p.job, a) = {}
      <4>1. PICK e \in Seals : payloads' = payloads \cup {<<p.job.mutation, a, e>>}
        BY <1>6, <2>2, <3>1 DEF Seal
      <4> QED
        BY <1>6, <2>2, <3>1, <4>1 DEF Seal, PayloadEnters
    <3>2. CASE Payload(p.job, a) # {}
      <4>1. PICK x \in Payload(p.job, a) :
              payloads' = payloads \cup {<<p.job.mutation, a, x[3]>>}
        BY <1>6, <2>2, <3>2 DEF Seal
      <4>2. <<p.job.mutation, a, x[3]>> \in payloads
        BY PayloadFacts
      <4> QED
        BY <4>1, <4>2
    <3> QED
      BY <3>1, <3>2
  <2> QED
    BY <2>1, <2>2
<1>7. CASE Ending(t) /\ ~Discard(t) /\ ~Abandon(t)
  BY <1>7 DEF Ending, DropOwn, Restore, Preserve, Reject, SettleRow, Finishes, Clear, Mark,
              Complete, device
<1>8. CASE Discard(t)
  BY <1>8 DEF Discard, Same, Without
<1>9. CASE Abandon(t)
  BY <1>9 DEF Abandon
<1>10. CASE Close(t) \/ Reload(t)
  BY <1>10 DEF Close, Reload, device
<1> QED
  BY <1>1, <1>2, <1>3, <1>4, <1>5, <1>6, <1>7, <1>8, <1>9, <1>10 DEF TabStep

\* What is sent for the first time: a stage or a bundle that is stored, or a put.
SendsOwn(t) ==
  LET p == tab[t]
  IN  /\ p.at \in {"stageSend", "finalSend"} /\ RequestOf(p) \in Requests
      /\ sent' = sent \cup {<<p.cred, RequestOf(p)>>}
      /\ root' = root /\ payloads' = payloads

SendsPut(t) ==
  LET p == tab[t]
      q == PlainRequest(Min(Drawable \ Drawn), p.row.draft)
  IN  /\ p.at = "plain" /\ Drawable \ Drawn # {} /\ q \in Requests
      /\ sent' = sent \cup {<<p.cred, q>>}
      /\ root' = root /\ payloads' = payloads

LEMMA SentSteps ==
  ASSUME NEW t \in Tabs, TabStep(t)
  PROVE  sent' = sent \/ SendsOwn(t) \/ SendsPut(t)
<1> USE DEF At
<1>1. CASE Recovering(t)
  BY <1>1 DEF Recovering, StartPass, Committed, Listed, Intents, Resume, Stale, Cancel, Drop
<1>2. CASE Pushing(t)
  BY <1>2 DEF Pushing, Push, Remove, Await, Begins, Enter, Install, Plain, SendsPut, device
<1>3. CASE SendingOn(t)
  BY <1>3 DEF SendingOn, NextStage, Seal, Sends, Staged, Unseal, Finalize, Remember, Commit,
              Timeout, SendsOwn, device
<1>4. CASE Ending(t)
  BY <1>4 DEF Ending, Discard, Abandon, DropOwn, Restore, Preserve, Reject, SettleRow,
              Finishes, Clear, Mark, Complete
<1>5. CASE Close(t) \/ Reload(t)
  BY <1>5 DEF Close, Reload
<1> QED
  BY <1>1, <1>2, <1>3, <1>4, <1>5 DEF TabStep

LEMMA MaxOfTwo ==
  ASSUME NEW i \in Nat, NEW j \in Nat
  PROVE  Max({i, j}) \in Nat
<1>1. {i, j} \in SUBSET Nat /\ i \in {i, j}
  OBVIOUS
<1>2. \E b \in Nat : \A x \in {i, j} : x <= b
  BY <1>1
<1> QED
  BY <1>1, <1>2, NatMax

LEMMA RootTyped ==
  ASSUME CompoundTypeOK, JobsAgree, NEW t \in Tabs, TabStep(t)
  PROVE  /\ root' \in Bundles \cup {Null}
         /\ payloads' \subseteq Drawable \X Attachments \X Seals
         /\ sent' \subseteq Owners \X Requests
<1> DEFINE p == tab[t]
<1>1. /\ Good(p) /\ TabComplete(p) /\ p.cred \in Owners /\ root \in Bundles \cup {Null}
      /\ sent \subseteq Owners \X Requests
      /\ payloads \subseteq Drawable \X Attachments \X Seals
  BY TabTyped DEF TabState, CompoundTypeOK, StoreTypes
<1>2. root' \in Bundles \cup {Null}
  <2>1. CASE p.at = "install" /\ root' = p.job
    BY <1>1, <2>1 DEF TabComplete, BundleAts
  <2>2. CASE Staged(t) /\ root' # root
    <3>1. /\ root \in Bundles /\ Min(p.todo) \in root.ids /\ p.envelope \in Seals
          /\ root' = [root EXCEPT !.hashes[Min(p.todo)] = p.envelope]
      BY <2>2, RootMoves
    <3> QED
      BY <3>1, BundleSteps
  <2>3. CASE Finalize(t) /\ root' # root
    <3>1. root \in Bundles /\ root' = [root EXCEPT !.final = TRUE]
      BY <2>3, RootMoves
    <3> QED
      BY <3>1, BundleSteps
  <2>4. CASE Commit(t) /\ root' # root
    <3>1. root \in Bundles /\ p.rev \in Nat /\ root' = [root EXCEPT !.rev = p.rev]
      BY <2>4, RootMoves
    <3> QED
      BY <3>1, BundleSteps
  <2> QED
    BY <1>1, <2>1, <2>2, <2>3, <2>4, RootSteps
<1>3. payloads' \subseteq Drawable \X Attachments \X Seals
  <2>1. CASE PayloadEnters(t)
    <3>1. p.at = "seal"
      BY <2>1 DEF PayloadEnters
    <3>2. p.job \in Bundles /\ p.job.mutation \in Drawable /\ Min(p.todo) \in Attachments
      BY <1>1, <3>1, StageOf, BundleFacts DEF TabComplete, BundleAts, StageAts
    <3> QED
      BY <1>1, <2>1, <3>2 DEF PayloadEnters
  <2> QED
    BY <1>1, <2>1, PayloadSteps DEF PayloadLeaves, Without
<1>4. sent' \subseteq Owners \X Requests
  <2>1. sent' = sent \/ \E q \in Requests : sent' = sent \cup {<<p.cred, q>>}
    BY SentSteps DEF SendsOwn, SendsPut
  <2> QED
    BY <1>1, <2>1
<1> QED
  BY <1>2, <1>3, <1>4

LEMMA StoreTyped ==
  ASSUME CompoundTypeOK, JobsAgree, NEW t \in Tabs, TabStep(t)
  PROVE  StoreTypes'
<1> DEFINE p == tab[t]
<1> USE DEF At, device, fixed, kept
<1>1. /\ Good(p) /\ TabComplete(p) /\ p.intent \in UploadIntents \cup {Null}
      /\ p.row \in Edits \cup {Null} /\ p.sources \in SUBSET Attachments
      /\ p.rev \in Nat /\ p.job \in Bundles \cup Handles \cup Requests \cup {Null}
  BY TabTyped, TabFields DEF Good
<1>2. StoreTypes
  BY DEF CompoundTypeOK
<1>3. /\ root' \in Bundles \cup {Null}
      /\ payloads' \subseteq Drawable \X Attachments \X Seals
      /\ sent' \subseteq Owners \X Requests
  BY RootTyped
<1>4. p.at \in RowAts => p.row \in Edits /\ p.row.draft \in Drafts
  BY <1>1 DEF TabComplete, RowAts, Edits
<1>5. intent # Null => intent \in UploadIntents /\ intent.uploads \subseteq Attachments
  BY <1>2 DEF StoreTypes, UploadIntents
<1> HIDE DEF p
<1> DEFINE Rest ==
      /\ known' \in Nat /\ outbox' \in Edits \cup {Null}
      /\ intent' \in UploadIntents \cup {Null}
      /\ waiting' \subseteq Attachments /\ shelved' \subseteq Attachments
      /\ text' \in Drafts \cup {Null} /\ resolved' \subseteq Requests
      /\ cleared' \subseteq Drafts /\ copied' \subseteq Drafts
      /\ confirmed' \subseteq Attachments /\ stops' \in Nat
      /\ index' \in Handles \cup {Null} /\ session' \in Owners /\ written' \subseteq Drafts
<1> SUFFICES Rest
  BY <1>3 DEF StoreTypes
<1>6. CASE StartPass(t) \/ Committed(t) \/ Listed(t) \/ Intents(t) \/ Resume(t) \/ Stale(t)
  BY <1>2, <1>6 DEF StartPass, Committed, Listed, Intents, Resume, Stale, StoreTypes
<1>7. CASE Cancel(t)
  BY <1>2, <1>7 DEF Cancel, StoreTypes
<1>8. CASE Drop(t)
  <2>1. shelved' \subseteq Attachments /\ intent' \in {intent, Null}
    BY <1>2, <1>8 DEF Drop, Flushes, StoreTypes
  <2> QED
    BY <1>2, <1>8, <2>1 DEF Drop, StoreTypes
<1>9. CASE Push(t) \/ Await(t) \/ Enter(t) \/ Plain(t)
  BY <1>2, <1>9 DEF Push, Await, Enter, Plain, StoreTypes
<1>10. CASE Remove(t)
  <2>1. waiting' \subseteq Attachments /\ shelved' \subseteq Attachments
    BY <1>2, <1>10 DEF Remove, StoreTypes
  <2> QED
    BY <1>2, <1>10, <2>1 DEF Remove, StoreTypes
<1>11. CASE Begins(t)
  <2>1. p.at \in RowAts
    BY <1>11 DEF Begins, p, RowAts
  <2>2. intent' \in UploadIntents \cup {Null}
    BY <1>1, <1>2, <1>4, <1>11, <2>1 DEF Begins, StoreTypes, UploadIntents, p
  <2> QED
    BY <1>2, <1>11, <2>2 DEF Begins, StoreTypes
<1>12. CASE Install(t)
  BY <1>2, <1>12 DEF Install, StoreTypes
<1>13. CASE NextStage(t) \/ Seal(t) \/ Staged(t) \/ Unseal(t) \/ Finalize(t)
  BY <1>2, <1>13 DEF NextStage, Seal, Staged, Unseal, Finalize, StoreTypes
<1>14. CASE Sends(t) \/ Timeout(t) \/ Close(t) \/ Reload(t)
  <2>1. stops' \in Nat
    BY <1>2, <1>14 DEF Sends, Timeout, Close, Reload, Stop, StoreTypes
  <2> QED
    BY <1>2, <1>14, <2>1 DEF Sends, Timeout, Close, Reload, StoreTypes
<1>15. CASE Remember(t)
  <2>1. known' \in Nat
    BY <1>1, <1>2, <1>15, MaxOfTwo DEF Remember, StoreTypes, p
  <2> QED
    BY <1>2, <1>15, <2>1 DEF Remember, StoreTypes
<1>16. CASE Commit(t)
  <2>1. index' \in Handles \cup {Null}
    <3>1. CASE UNCHANGED index
      BY <1>2, <3>1 DEF StoreTypes
    <3>2. CASE root' = [root EXCEPT !.rev = p.rev] /\ root # Null /\ index' = HandleOf(root')
      <4>1. root' \in Bundles
        BY <1>1, <1>2, <3>2, BundleSteps DEF StoreTypes
      <4> QED
        BY <3>2, <4>1, HandleFacts
    <3> QED
      BY <1>16, <3>1, <3>2 DEF Commit, Same, p
  <2> QED
    BY <1>2, <1>16, <2>1 DEF Commit, StoreTypes
<1>17. CASE Discard(t) \/ Abandon(t)
  BY <1>2, <1>17 DEF Discard, Abandon, StoreTypes
<1>18. CASE DropOwn(t)
  <2>1. intent' \in {intent, Null}
    BY <1>18 DEF DropOwn
  <2> QED
    BY <1>2, <1>18, <2>1 DEF DropOwn, StoreTypes
<1>19. CASE Restore(t)
  BY <1>2, <1>19 DEF Restore, StoreTypes
<1>20. CASE Preserve(t)
  <2>1. p.row.draft \in Drafts
    BY <1>4, <1>20 DEF Preserve, p, RowAts
  <2> QED
    BY <1>2, <1>20, <2>1 DEF Preserve, StoreTypes, p
<1>21. CASE Reject(t)
  <2>1. waiting' \subseteq Attachments
    BY <1>2, <1>21 DEF Reject, StoreTypes
  <2> QED
    BY <1>2, <1>21, <2>1 DEF Reject, StoreTypes
<1>22. ASSUME NEW d, Clears(d)
       PROVE  outbox' \in Edits \cup {Null} /\ cleared' \subseteq Drafts
  <2>1. outbox # Null => outbox \in Edits /\ outbox.draft \in Drafts
    BY <1>2 DEF StoreTypes, Edits
  <2> QED
    BY <1>2, <1>22, <2>1 DEF Clears, StoreTypes
<1>23. CASE SettleRow(t)
  <2>1. shelved' \subseteq Attachments
    BY <1>2, <1>23 DEF SettleRow, Flushes, StoreTypes
  <2>2. outbox' \in Edits \cup {Null} /\ cleared' \subseteq Drafts
    BY <1>22, <1>23 DEF SettleRow
  <2> QED
    BY <1>2, <1>23, <2>1, <2>2 DEF SettleRow, StoreTypes
<1>24. CASE Finishes(t)
  <2>1. waiting' \subseteq Attachments /\ confirmed' \subseteq Attachments
    BY <1>2, <1>5, <1>24 DEF Finishes, StoreTypes
  <2> QED
    BY <1>2, <1>24, <2>1 DEF Finishes, StoreTypes
<1>25. CASE Clear(t)
  <2>1. outbox' \in Edits \cup {Null} /\ cleared' \subseteq Drafts
    BY <1>22, <1>25 DEF Clear
  <2> QED
    BY <1>2, <1>25, <2>1 DEF Clear, StoreTypes
<1>26. CASE Mark(t)
  <2>1. intent' \in UploadIntents \cup {Null}
    BY <1>2, <1>5, <1>26 DEF Mark, StoreTypes, UploadIntents
  <2> QED
    BY <1>2, <1>26, <2>1 DEF Mark, StoreTypes
<1>27. CASE Complete(t)
  <2>1. index' \in {index, Null}
    BY <1>27 DEF Complete
  <2> QED
    BY <1>2, <1>27, <2>1 DEF Complete, StoreTypes
<1> QED
  BY <1>6, <1>7, <1>8, <1>9, <1>10, <1>11, <1>12, <1>13, <1>14, <1>15, <1>16, <1>17, <1>18,
     <1>19, <1>20, <1>21, <1>23, <1>24, <1>25, <1>26, <1>27
     DEF TabStep, Recovering, Pushing, SendingOn, Ending

-----------------------------------------------------------------------------
(* What an answer makes of the tabs that hear it *)

\* A tab that waits has what its request was made from.
LEMMA WaitingFacts ==
  ASSUME CompoundTypeOK, NEW c, NEW q, NEW t \in Waiting(c, q)
  PROVE  /\ t \in Tabs /\ Good(tab[t]) /\ tab[t] \in TabState /\ tab[t].cred \in Owners
         /\ tab[t].at \in {"stageWait", "finalWait", "plainWait"}
         /\ tab[t].at = "stageWait" => q.op = "stage"
         /\ tab[t].at = "finalWait" => q.op = "bundle" /\ q = FinalRequest(tab[t].job)
         /\ tab[t].at = "plainWait" =>
              q.op = "put" /\ ~tab[t].recovers /\ tab[t].row \in Edits
<1> DEFINE p == tab[t]
<1>1. t \in Tabs /\ p.at \in {"stageWait", "finalWait", "plainWait"} /\ RequestOf(p) = q
  BY DEF Waiting
<1>2. Good(p) /\ p \in TabState /\ TabComplete(p) /\ p.cred \in Owners
  BY <1>1, TabTyped DEF TabState
<1>3. p.at = "stageWait" => q.op = "stage"
  BY <1>1 DEF RequestOf, StageRequestOf
<1>4. p.at = "finalWait" => q.op = "bundle" /\ q = FinalRequest(p.job)
  BY <1>1 DEF RequestOf, FinalRequest
<1>5. p.at = "plainWait" => q.op = "put" /\ ~p.recovers /\ p.row \in Edits
  <2>1. p.at = "plainWait" => q = p.job
    BY <1>1 DEF RequestOf
  <2> QED
    BY <1>2, <2>1 DEF TabComplete, RowAts
<1> QED
  BY <1>1, <1>2, <1>3, <1>4, <1>5

\* A tab is told the answer to its bundle.
Tells(p, q) ==
  /\ p.at = "finalWait" /\ q.at = "told" /\ q.job = p.job
  /\ [request |-> FinalRequest(p.job), rev |-> q.rev] \in answered'

LEMMA ToldFollows ==
  ASSUME NEW p, Good(p), p.at = "finalWait", NEW n \in Nat
  PROVE  LET q == [p EXCEPT !.at = "told", !.rev = n]
         IN  Good(q) /\ Track(p, q) /\ q.at = "told" /\ q.job = p.job /\ q.rev = n
<1> DEFINE q == [p EXCEPT !.at = "told", !.rev = n]
<1>1. p \in TabState /\ TabComplete(p) /\ "told" \in Places
  BY AllPlaces DEF Good, BundleAts, FinalAts
<1>2. /\ q \in TabState /\ q.at = "told" /\ q.job = p.job /\ q.rev = n
      /\ q.row = p.row /\ q.recovers = p.recovers /\ q.then = p.then
  BY <1>1 DEF TabState
<1> HIDE DEF q
<1>3. TabComplete(q)
  BY <1>1, <1>2
     DEF TabComplete, BundleAts, StageAts, SealAts, FinalAts, HandleAts, RowAts
<1>4. Track(p, q)
  BY <1>2 DEF Track, BundleAts, StageAts, SealAts, FinalAts, HandleAts
<1> QED
  BY <1>2, <1>3, <1>4 DEF Good, q

LEMMA StagedFollows ==
  ASSUME NEW p, Good(p), p.at = "stageWait"
  PROVE  LET q == [p EXCEPT !.at = "staged"] IN Good(q) /\ Follow(p, q)
<1> DEFINE q == [p EXCEPT !.at = "staged"]
<1>1. p \in TabState /\ TabComplete(p) /\ "staged" \in Places
  BY AllPlaces DEF Good, BundleAts, StageAts, SealAts
<1>2. /\ q \in TabState /\ q.at = "staged" /\ q.job = p.job /\ q.todo = p.todo
      /\ q.row = p.row /\ q.recovers = p.recovers /\ q.then = p.then
      /\ q.envelope = p.envelope
  BY <1>1, AtTyped
<1> HIDE DEF q
<1>3. TabComplete(q)
  BY <1>1, <1>2
     DEF TabComplete, BundleAts, StageAts, SealAts, FinalAts, HandleAts, RowAts
<1>4. Follow(p, q)
  BY <1>2 DEF Follow, Track, Hold, BundleAts, StageAts, SealAts, FinalAts, HandleAts
<1> QED
  BY <1>2, <1>3, <1>4 DEF Good, q

LEMMA RefusedFollows ==
  ASSUME NEW p, Good(p), NEW b \in BOOLEAN,
         NEW w, \/ p.at = "stageWait" /\ w = "stageRefused"
                \/ p.at = "finalWait" /\ w = "finalRefused"
  PROVE  LET q == [p EXCEPT !.at = w, !.kept = b] IN Good(q) /\ Follow(p, q)
<1> DEFINE q == [p EXCEPT !.at = w, !.kept = b]
<1>1. p \in TabState /\ TabComplete(p) /\ w \in Places
  BY AllPlaces DEF Good, BundleAts, FinalAts
<1>2. /\ q \in TabState /\ q.at = w /\ q.job = p.job /\ q.todo = p.todo
      /\ q.row = p.row /\ q.recovers = p.recovers /\ q.then = p.then
  BY <1>1 DEF TabState
<1> HIDE DEF q
<1>3. TabComplete(q)
  BY <1>1, <1>2
     DEF TabComplete, BundleAts, StageAts, SealAts, FinalAts, HandleAts, RowAts
<1>4. Follow(p, q)
  BY <1>2 DEF Follow, Track, Hold, BundleAts, StageAts, SealAts, FinalAts, HandleAts
<1> QED
  BY <1>2, <1>3, <1>4 DEF Good, q

LEMMA SettleFollows ==
  ASSUME NEW p \in TabState, ~p.recovers, p.row \in Edits, NEW n \in Nat
  PROVE  LET q == [p EXCEPT !.at = "settle", !.rev = n] IN Good(q) /\ Follow(p, q)
<1> DEFINE q == [p EXCEPT !.at = "settle", !.rev = n]
<1>1. "settle" \in Places /\ "settle" \notin BundleAts \cup HandleAts \cup {"plainWait"}
  BY AllPlaces DEF RowAts, BundleAts, StageAts, SealAts, FinalAts, HandleAts
<1>2. q \in TabState /\ q.at = "settle" /\ q.recovers = p.recovers /\ q.row = p.row
  BY <1>1 DEF TabState
<1> HIDE DEF q
<1>3. Good(q) /\ Follow(p, q)
  BY <1>1, <1>2, RowFollows
<1> QED
  BY <1>3 DEF q

LEMMA HearFollows ==
  ASSUME CompoundTypeOK, NEW c, NEW q, NEW T \in SUBSET Waiting(c, q), NEW to, Hear(T, to),
         \A t \in T : /\ Good(to[t]) /\ Track(tab[t], to[t])
                      /\ Hold(tab[t], to[t]) \/ Tells(tab[t], to[t])
  PROVE  /\ tab' \in [Tabs -> TabState]
         /\ \A u \in Tabs :
              \/ tab'[u] = tab[u]
              \/ /\ Good(tab'[u]) /\ Track(tab[u], tab'[u])
                 /\ Hold(tab[u], tab'[u]) \/ Tells(tab[u], tab'[u])
<1>1. tab' = [t \in Tabs |-> IF t \in T THEN to[t] ELSE tab[t]]
  BY DEF Hear
<1>2. \A t \in T : to[t] \in TabState
  BY DEF Good
<1>3. tab \in [Tabs -> TabState]
  BY DEF CompoundTypeOK
<1> QED
  BY <1>1, <1>2, <1>3

LEMMA ServeFollows ==
  ASSUME CompoundTypeOK, AnswerInv', NEW s \in sent, Serve(s[1], s[2])
  PROVE  /\ tab' \in [Tabs -> TabState]
         /\ \A u \in Tabs :
              \/ tab'[u] = tab[u]
              \/ /\ Good(tab'[u]) /\ Track(tab[u], tab'[u])
                 /\ Hold(tab[u], tab'[u]) \/ Tells(tab[u], tab'[u])
         /\ known' \in Nat /\ stops' \in Nat /\ resolved' \subseteq Requests
         /\ UNCHANGED <<kept, root, payloads, index, outbox, intent, waiting, cleared, copied,
                        confirmed, sent>>
<1> DEFINE c == s[1]
           q == s[2]
<1>1. c \in Owners /\ q \in Requests
  BY DEF CompoundTypeOK, StoreTypes
<1>2. PICK T \in SUBSET Waiting(c, q) :
        /\ \/ StageAnswer(c, q, T) \/ CommitAnswer(c, q, T)
           \/ RefusalAnswer(c, q, T) \/ Unauthorized(c, q, T)
        /\ stops' = stops \/ Stop
  BY DEF Serve
<1>3. \A t \in T :
        /\ Good(tab[t]) /\ tab[t] \in TabState /\ tab[t].cred \in Owners
        /\ tab[t].at \in {"stageWait", "finalWait", "plainWait"}
        /\ tab[t].at = "stageWait" => q.op = "stage"
        /\ tab[t].at = "finalWait" => q.op = "bundle" /\ q = FinalRequest(tab[t].job)
        /\ tab[t].at = "plainWait" =>
             q.op = "put" /\ ~tab[t].recovers /\ tab[t].row \in Edits
  BY WaitingFacts
<1>4. stops' \in Nat /\ known \in Nat /\ resolved \subseteq Requests
  BY <1>2 DEF CompoundTypeOK, StoreTypes, Stop
<1> HIDE DEF c, q
<1> DEFINE Fine(to) ==
      \A t \in T : /\ Good(to[t]) /\ Track(tab[t], to[t])
                   /\ Hold(tab[t], to[t]) \/ Tells(tab[t], to[t])
<1>5. ASSUME NEW to, Hear(T, to), Fine(to), Resolved(q, T) \/ resolved' = resolved,
             known' \in Nat
      PROVE  /\ tab' \in [Tabs -> TabState]
             /\ \A u \in Tabs :
                  \/ tab'[u] = tab[u]
                  \/ /\ Good(tab'[u]) /\ Track(tab[u], tab'[u])
                     /\ Hold(tab[u], tab'[u]) \/ Tells(tab[u], tab'[u])
             /\ known' \in Nat /\ stops' \in Nat /\ resolved' \subseteq Requests
             /\ UNCHANGED <<kept, root, payloads, index, outbox, intent, waiting, cleared,
                            copied, confirmed, sent>>
  <2>1. resolved' \subseteq Requests
    BY <1>1, <1>4, <1>5 DEF Resolved
  <2>2. UNCHANGED <<kept, root, payloads, index, outbox, intent, waiting, cleared, copied,
                    confirmed, sent>>
    BY <1>5 DEF Hear
  <2> QED
    BY <1>4, <1>5, <2>1, <2>2, HearFollows
<1>6. CASE StageAnswer(c, q, T)
  <2> DEFINE to == [t \in T |-> [tab[t] EXCEPT !.at = "staged"]]
  <2>1. q.op = "stage"
    BY <1>6 DEF StageAnswer, StageAdd, StageRenew
  <2>2. Fine(to)
    BY <1>3, <2>1, StagedFollows DEF Follow
  <2>3. Hear(T, to) /\ Resolved(q, T) /\ known' = known
    BY <1>6 DEF StageAnswer
  <2> HIDE DEF to, Fine
  <2> QED
    BY <1>4, <1>5, <2>2, <2>3
<1>7. CASE CommitAnswer(c, q, T)
  <2>1. PICK r \in receipts' :
          /\ r.request = q
          /\ Hear(T, [t \in T |->
               [tab[t] EXCEPT !.at = IF @ = "finalWait" THEN "told" ELSE "settle",
                              !.rev = r.rev]])
          /\ known' = IF q.op = "put" /\ T # {} THEN Max({known, r.rev}) ELSE known
    BY <1>7 DEF CommitAnswer
  <2> DEFINE to == [t \in T |->
               [tab[t] EXCEPT !.at = IF @ = "finalWait" THEN "told" ELSE "settle",
                              !.rev = r.rev]]
  <2>2. r.rev \in Nat /\ [request |-> q, rev |-> r.rev] \in answered' /\ q.op # "stage"
    <3>1. r.rev \in Nat
      BY DEF AnswerInv, TypeInv, TypeOK, Receipt
    <3>2. [request |-> q, rev |-> r.rev] \in answered'
      BY <2>1 DEF AnswerInv, ReceiptsAnswer
    <3>3. q.op # "stage"
      BY <3>2 DEF AnswerInv, Settled
    <3> QED
      BY <3>1, <3>2, <3>3
  <2>3. known' \in Nat
    BY <1>4, <2>1, <2>2, MaxOfTwo
  <2>4. ASSUME NEW t \in T
        PROVE  /\ Good(to[t]) /\ Track(tab[t], to[t])
               /\ Hold(tab[t], to[t]) \/ Tells(tab[t], to[t])
    <3>1. CASE tab[t].at = "finalWait"
      <4>1. to[t] = [tab[t] EXCEPT !.at = "told", !.rev = r.rev]
        BY <1>3, <3>1
      <4> DEFINE p == tab[t]
                 n == r.rev
                 v == [p EXCEPT !.at = "told", !.rev = n]
      <4>a. Good(p) /\ p.at = "finalWait" /\ n \in Nat
        BY <1>3, <2>2, <3>1
      <4> HIDE DEF p, n
      <4>b. Good(v) /\ Track(p, v) /\ v.at = "told" /\ v.job = p.job /\ v.rev = n
        BY <4>a, ToldFollows
      <4>2. /\ Good(to[t]) /\ Track(tab[t], to[t]) /\ to[t].at = "told"
            /\ to[t].job = tab[t].job /\ to[t].rev = r.rev
        BY <4>1, <4>b DEF p, n
      <4>3. Tells(tab[t], to[t])
        BY <1>3, <2>2, <3>1, <4>2 DEF Tells
      <4> QED
        BY <4>2, <4>3
    <3>2. CASE tab[t].at = "plainWait"
      <4>1. to[t] = [tab[t] EXCEPT !.at = "settle", !.rev = r.rev]
        BY <1>3, <3>2
      <4> QED
        BY <1>3, <2>2, <3>2, <4>1, SettleFollows DEF Follow
    <3> QED
      BY <1>3, <2>2, <3>1, <3>2
  <2>5. Hear(T, to) /\ Resolved(q, T)
    BY <1>7, <2>1 DEF CommitAnswer
  <2> HIDE DEF to
  <2> QED
    BY <1>5, <2>3, <2>4, <2>5
<1>8. CASE RefusalAnswer(c, q, T)
  <2>1. Resolved(q, T) /\ known' = known
    BY <1>8 DEF RefusalAnswer
  <2>2. CASE BundleDiscard(c, q)
              /\ Hear(T, [t \in T |-> [tab[t] EXCEPT !.at = "finalRefused", !.kept = TRUE]])
    <3> DEFINE to == [t \in T |-> [tab[t] EXCEPT !.at = "finalRefused", !.kept = TRUE]]
    <3>1. q.op = "bundle"
      BY <2>2 DEF BundleDiscard
    <3>2. Fine(to)
      BY <1>3, <3>1, RefusedFollows DEF Follow
    <3>3. Hear(T, to)
      BY <2>2
    <3> HIDE DEF to, Fine
    <3> QED
      BY <1>4, <1>5, <2>1, <3>2, <3>3
  <2>3. CASE Hear(T, [t \in T |->
             IF tab[t].at = "plainWait" THEN Conflicted(tab[t])
             ELSE [tab[t] EXCEPT !.at = IF @ = "stageWait" THEN "stageRefused"
                                        ELSE "finalRefused",
                                 !.kept = RefusalKeeps(q)]])
    <3> DEFINE b == RefusalKeeps(q)
               to == [t \in T |->
                        IF tab[t].at = "plainWait" THEN Conflicted(tab[t])
                        ELSE [tab[t] EXCEPT !.at = IF @ = "stageWait" THEN "stageRefused"
                                                   ELSE "finalRefused",
                                            !.kept = b]]
    <3>1. Hear(T, to)
      BY <2>3
    <3>2. b \in BOOLEAN
      BY <1>1, RequestKinds DEF RefusalKeeps
    <3> HIDE DEF b
    <3>3. ASSUME NEW t \in T
          PROVE  Good(to[t]) /\ Follow(tab[t], to[t])
      <4>1. CASE tab[t].at = "plainWait"
        BY <1>3, <4>1, ConflictedFollows
      <4>2. CASE tab[t].at = "stageWait"
        <5>1. to[t] = [tab[t] EXCEPT !.at = "stageRefused", !.kept = b]
          BY <1>3, <4>2
        <5> QED
          BY <1>3, <3>2, <4>2, <5>1, RefusedFollows
      <4>3. CASE tab[t].at = "finalWait"
        <5>1. to[t] = [tab[t] EXCEPT !.at = "finalRefused", !.kept = b]
          BY <1>3, <4>3
        <5> QED
          BY <1>3, <3>2, <4>3, <5>1, RefusedFollows
      <4> QED
        BY <1>3, <4>1, <4>2, <4>3
    <3> HIDE DEF to
    <3> QED
      BY <1>4, <1>5, <2>1, <3>1, <3>3 DEF Follow
  <2> QED
    BY <1>8, <2>2, <2>3 DEF RefusalAnswer
<1>9. CASE Unauthorized(c, q, T)
  <2> DEFINE to == [t \in T |-> Caught(tab[t])]
  <2>1. Fine(to)
    BY <1>3, CaughtFollows DEF Follow
  <2>2. Hear(T, to) /\ resolved' = resolved /\ known' = known
    BY <1>9 DEF Unauthorized
  <2> HIDE DEF to, Fine
  <2> QED
    BY <1>4, <1>5, <2>1, <2>2
<1> QED
  BY <1>2, <1>6, <1>7, <1>8, <1>9

-----------------------------------------------------------------------------
(* Every step *)

\* What happens around the tabs.
Around ==
  \/ \E d \in Drafts : Edit(d)
  \/ \E c \in Owners : Recredential(c) \/ Disown(c)
  \/ Pull \/ Elsewhere \/ Expire

LEMMA Steps ==
  ASSUME [CompoundNext]_allVars
  PROVE  \/ \E t \in Tabs : TabStep(t)
         \/ \E s \in sent : Serve(s[1], s[2])
         \/ Around
         \/ UNCHANGED allVars
BY DEF CompoundNext, TabStep, Around

\* The device adds no step to the relay's: it is one of its clients.
LEMMA RelayStep ==
  ASSUME CompoundTypeOK, [CompoundNext]_allVars
  PROVE  [Next]_vars
<1>1. ASSUME NEW c \in Credentials, NEW q \in Requests,
             \/ Begin(c, q) \/ Replay(c, q) \/ Put(c, q) \/ Refuse(c, q)
             \/ StageAdd(c, q) \/ StageRenew(c, q) \/ Bundle(c, q) \/ BundleDiscard(c, q)
      PROVE  Next
  BY <1>1 DEF Next, Handle
<1>2. \A s \in sent : s[1] \in Credentials /\ s[2] \in Requests
  BY CompoundAssumption DEF CompoundTypeOK, StoreTypes
<1>3. ASSUME NEW t \in Tabs, TabStep(t)
      PROVE  [Next]_vars
  <2>1. tab[t].cred \in Credentials
    BY TabTyped, CompoundAssumption DEF TabState
  <2>2. CASE Recovering(t)
    BY <2>2 DEF Recovering, StartPass, Committed, Listed, Intents, Resume, Stale, Cancel, Drop
  <2>3. CASE Pushing(t) /\ ~Plain(t)
    BY <2>3 DEF Pushing, Push, Remove, Await, Begins, Enter, Install
  <2>4. CASE Plain(t)
    BY <1>1, <2>1, <2>4 DEF Plain
  <2>5. CASE SendingOn(t) /\ ~Sends(t)
    BY <2>5 DEF SendingOn, NextStage, Seal, Staged, Unseal, Finalize, Remember, Commit,
                Timeout
  <2>6. CASE Sends(t)
    BY <1>1, <2>1, <2>6 DEF Sends
  <2>7. CASE Ending(t)
    BY <2>7 DEF Ending, Discard, Abandon, DropOwn, Restore, Preserve, Reject, SettleRow,
                Finishes, Clear, Mark, Complete
  <2>8. CASE Close(t) \/ Reload(t)
    BY <2>8 DEF Close, Reload
  <2> QED
    BY <1>3, <2>2, <2>3, <2>4, <2>5, <2>6, <2>7, <2>8 DEF TabStep
<1>4. ASSUME NEW s \in sent, Serve(s[1], s[2])
      PROVE  Next
  BY <1>1, <1>2, <1>4
     DEF Serve, StageAnswer, CommitAnswer, RefusalAnswer, Unauthorized
<1>5. CASE Around
  <2>1. ASSUME NEW d \in Drafts, Edit(d)
        PROVE  UNCHANGED vars
    BY <2>1 DEF Edit
  <2>2. ASSUME NEW c \in Owners, Recredential(c) \/ Disown(c)
        PROVE  [Next]_vars
    <3>1. {c} \in SUBSET Credentials
      BY CompoundAssumption
    <3> QED
      BY <2>2, <3>1 DEF Recredential, Disown, Next
  <2>3. CASE Pull
    BY <2>3 DEF Pull
  <2>4. CASE Elsewhere
    BY <1>1, <2>4 DEF Elsewhere
  <2>5. CASE Expire
    BY <2>5 DEF Expire, Next
  <2> QED
    BY <1>5, <2>1, <2>2, <2>3, <2>4, <2>5 DEF Around
<1>6. CASE UNCHANGED allVars
  BY <1>6 DEF allVars
<1> QED
  BY <1>3, <1>4, <1>5, <1>6, Steps

\* The surroundings leave the tabs, and what they store of a bundle, alone.
LEMMA AroundTypes ==
  ASSUME CompoundTypeOK, TypeOK, Around
  PROVE  /\ CompoundTypeOK'
         /\ UNCHANGED <<root, payloads, index, intent, tab, sent, confirmed, resolved,
                        cleared, copied>>
<1> USE DEF device
<1> DEFINE Q == /\ StoreTypes'
                /\ UNCHANGED <<root, payloads, index, intent, tab, sent, confirmed,
                               resolved, cleared, copied>>
<1>1. ASSUME NEW d \in Drafts, Edit(d)
      PROVE  Q
  <2>1. /\ ListedNow \in SUBSET Attachments /\ Lists[d] \in SUBSET Attachments
    BY CompoundAssumption DEF ListedNow, CompoundTypeOK, StoreTypes
  <2>2. outbox' \in Edits
    BY <1>1, <2>1 DEF Edit, Edits
  <2>3. StoreTypes'
    BY <1>1, <2>1, <2>2 DEF Edit, CompoundTypeOK, StoreTypes
  <2> QED
    BY <1>1, <2>3 DEF Edit
<1>2. ASSUME NEW c \in Owners, Recredential(c) \/ Disown(c)
      PROVE  Q
  BY <1>2 DEF Recredential, Disown, compoundVars, CompoundTypeOK, StoreTypes
<1>3. ASSUME Pull
      PROVE  Q
  <2>1. Key \in Ids /\ records[Key].rev \in Nat
    BY CompoundAssumption DEF Ids, TypeOK, Record
  <2>2. text' \in Drafts \cup {Null}
    BY <1>3 DEF Pull
  <2> QED
    BY <1>3, <2>1, <2>2 DEF Pull, CompoundTypeOK, StoreTypes
<1>4. ASSUME Elsewhere \/ Expire
      PROVE  Q
  BY <1>4 DEF Elsewhere, Expire, compoundVars, CompoundTypeOK, StoreTypes
<1> HIDE DEF Q
<1>5. Q
  BY <1>1, <1>2, <1>3, <1>4 DEF Around
<1>6. StoreTypes' /\ UNCHANGED <<root, payloads, index, intent, tab, sent, confirmed,
                                 resolved, cleared, copied>>
  BY <1>5 DEF Q
<1> QED
  BY <1>6 DEF CompoundTypeOK

LEMMA CompoundTypeStep ==
  ASSUME CompoundTypeOK, JobsAgree, TypeOK, AnswerInv', [CompoundNext]_allVars
  PROVE  CompoundTypeOK'
<1>1. ASSUME NEW t \in Tabs, TabStep(t)
      PROVE  CompoundTypeOK'
  <2>1. PICK to : Become(t, to) /\ Good(to)
    BY <1>1, TabFollows
  <2>2. tab' \in [Tabs -> TabState] /\ \A u \in Tabs : TabComplete(tab'[u])
    BY <2>1 DEF Become, Good, CompoundTypeOK
  <2> QED
    BY <1>1, <2>2, StoreTyped DEF CompoundTypeOK
<1>2. ASSUME NEW s \in sent, Serve(s[1], s[2])
      PROVE  CompoundTypeOK'
  <2>1. /\ tab' \in [Tabs -> TabState] /\ \A u \in Tabs : TabComplete(tab'[u])
        /\ known' \in Nat /\ stops' \in Nat /\ resolved' \subseteq Requests
        /\ UNCHANGED <<kept, root, payloads, index, outbox, intent, waiting, cleared, copied,
                       confirmed, sent>>
    BY <1>2, ServeFollows DEF Good, CompoundTypeOK
  <2> QED
    BY <2>1 DEF CompoundTypeOK, StoreTypes, kept
<1>3. CASE Around
  BY <1>3, AroundTypes
<1>4. CASE UNCHANGED allVars
  BY <1>4 DEF allVars, compoundVars, CompoundTypeOK, StoreTypes
<1> QED
  BY <1>1, <1>2, <1>3, <1>4, Steps

LEMMA CompoundTypeInit == CompoundInit => CompoundTypeOK
<1> SUFFICES ASSUME CompoundInit PROVE CompoundTypeOK
  OBVIOUS
<1>1. session \in Owners
  <2>1. Owners \in SUBSET Nat /\ Owners # {}
    BY CompoundAssumption
  <2> QED
    BY <2>1, NatMin DEF CompoundInit
<1>2. Good(Idle(session))
  BY <1>1, IdleTyped
<1>3. tab \in [Tabs -> TabState] /\ \A t \in Tabs : TabComplete(tab[t])
  BY <1>2 DEF CompoundInit, Good
<1> QED
  BY <1>1, <1>3 DEF CompoundInit, CompoundTypeOK, StoreTypes

-----------------------------------------------------------------------------
(* What a mutation is from the start *)

Full(r) == \A a \in r.ids : r.hashes[a] # Null

\* The bundles the device holds, stored or in a tab's hands, and those it sent.
Carries(t) == tab[t].at \in BundleAts
Held   == ({root} \cup {tab[t].job : t \in {u \in Tabs : Carries(u)}}) \ {Null}
Asked  == {s[2] : s \in sent}

\* The note, its base and its attachments belong to the mutation from the start.
HeadOf(r)   == <<r.mutation, r.base, r.draft, r.ids>>
HeadSent(q) == <<q.mutation, q.base, q.envelope, BundleIds(q)>>
Heads ==
  {HeadOf(r) : r \in Held} \cup {HeadSent(q) : q \in {u \in Asked : u.op = "bundle"}}

HeadsAgree == \A h, k \in Heads : h[1] = k[1] => h = k

\* An envelope is bound to an attachment of a mutation wherever one can read it.
Sealed(m, a, e) ==
  \/ <<m, a, e>> \in payloads
  \/ \E r \in Held : r.mutation = m /\ a \in r.ids /\ r.hashes[a] = e /\ e # Null
  \/ \E t \in Tabs : /\ tab[t].at \in SealAts /\ tab[t].job.mutation = m
                     /\ Min(tab[t].todo) = a /\ tab[t].envelope = e
  \/ \E q \in Asked : q.op = "stage" /\ q.mutation = m /\ q.id = a /\ q.envelope = e
  \/ \E q \in Asked : /\ q.op = "bundle" /\ q.mutation = m
                      /\ [id |-> a, envelope |-> e] \in q.attachments

SealedOnce ==
  \A m \in Drawable, a \in Attachments, e, f \in Seals :
    Sealed(m, a, e) /\ Sealed(m, a, f) => e = f

\* A root that lacks a hash that was ever bound has the payload still.
SealKept ==
  root # Null =>
    \A a \in root.ids, e \in Seals :
      root.hashes[a] = Null /\ Sealed(root.mutation, a, e) =>
        \E f \in Seals : <<root.mutation, a, f>> \in payloads

\* The root has every hash that a tab's copy of it has.
RootLeads ==
  \A t \in Tabs : Carries(t) /\ Same(root, tab[t].job) =>
    /\ \A a \in root.ids : tab[t].job.hashes[a] # Null => root.hashes[a] # Null
    /\ tab[t].at = "unseal" => root.hashes[Min(tab[t].todo)] # Null

FullFinal ==
  /\ root # Null /\ root.final => Full(root)
  /\ \A t \in Tabs : tab[t].at \in FinalAts => Full(tab[t].job)

\* What was told of a bundle was asked.
SentAlready ==
  /\ \A t \in Tabs : tab[t].at \in FinalAts \ {"finalSend"} =>
       \E q \in Asked : q = FinalRequest(tab[t].job)
  /\ root # Null /\ root.rev > 0 => \E q \in Asked : q.mutation = root.mutation

PayloadsOwned ==
  \A x \in payloads :
    \/ root # Null /\ root.mutation = x[1]
    \/ \E q \in Asked : q.mutation = x[1]

\* A bundle to install is nobody's yet.
FreshInstall ==
  \A t \in Tabs : tab[t].at = "install" =>
    LET j == tab[t].job
    IN  /\ ~Same(root, j) /\ \A q \in Asked : q.mutation # j.mutation
        /\ \A u \in Tabs \ {t} : Carries(u) => tab[u].job.mutation # j.mutation
        /\ \A a \in j.ids : j.hashes[a] = Null
        /\ ~j.final /\ j.rev = 0

\* What is sent is a stage, a bundle in full, or a put whose id is its own.
AskedKinds ==
  \A q \in Asked :
    /\ q.mutation \in Drawable
    /\ q.op = "stage" => q.note = Key /\ q.envelope \in Seals
    /\ q.op = "bundle" => q.id = Key /\ \A x \in q.attachments : x.envelope \in Seals
    /\ q.op = "put" =>
         /\ \A u \in Asked : u.mutation = q.mutation => u = q
         /\ ~Same(root, q) /\ \A t \in Tabs : Carries(t) => tab[t].job.mutation # q.mutation

CoreInv ==
  /\ HeadsAgree /\ SealedOnce /\ SealKept /\ RootLeads /\ FullFinal /\ SentAlready
  /\ PayloadsOwned /\ FreshInstall /\ AskedKinds

\* The stored bundle becomes s: a hash, the final payload or the receipt is added.
Grown(s) ==
  /\ s \in Bundles /\ HeadOf(s) = HeadOf(root)
  /\ \A a \in root.ids : root.hashes[a] # Null => s.hashes[a] = root.hashes[a]
  /\ \A a \in root.ids : s.hashes[a] # root.hashes[a] =>
       \E t \in Tabs : /\ tab[t].at = "staged" /\ Same(root, tab[t].job)
                       /\ Min(tab[t].todo) = a /\ tab[t].envelope = s.hashes[a]
  /\ s.final => root.final \/ Full(root)
  /\ s.rev > 0 =>
       root.rev > 0 \/ \E t \in Tabs : tab[t].at = "commit" /\ Same(root, tab[t].job)

\* A tab draws a new bundle, and nothing else happens.
Drew(u) ==
  LET j == tab'[u].job
  IN  /\ tab'[u].at = "install" /\ j \in Bundles /\ ~j.final /\ j.rev = 0
      /\ \A a \in j.ids : j.hashes[a] = Null
      /\ \A q \in Asked : q.mutation # j.mutation
      /\ \A t \in Tabs : Carries(t) => tab[t].job.mutation # j.mutation
      /\ \A t \in Tabs \ {u} : tab'[t] = tab[t]
      /\ root = Null /\ UNCHANGED <<root, payloads, sent>>

RootCore ==
  \/ root' = root
  \/ /\ root' = Null /\ root \in Bundles
     /\ \/ payloads' = Without(payloads, root)
        \/ payloads' = payloads /\ root.rev > 0
  \/ root \in Bundles /\ Grown(root') /\ UNCHANGED <<payloads, sent>>
  \/ /\ root = Null /\ UNCHANGED <<payloads, sent>>
     /\ \E t \in Tabs : tab[t].at = "install" /\ root' = tab[t].job /\ tab'[t].at # "install"

PayloadCore ==
  \/ payloads' = payloads
  \/ root' = Null /\ root \in Bundles /\ payloads' = Without(payloads, root)
  \/ \E t \in Tabs : PayloadEnters(t) \/ PayloadLeaves(t)

SentCore == sent' = sent \/ \E t \in Tabs : SendsOwn(t) \/ SendsPut(t)

TabsCore == \A u \in Tabs : tab'[u] = tab[u] \/ Track(tab[u], tab'[u]) \/ Drew(u)

CoreStep == RootCore /\ PayloadCore /\ SentCore /\ TabsCore

LEMMA HeldFacts ==
  ASSUME CompoundTypeOK
  PROVE  /\ \A r \in Held : r \in Bundles /\ (r = root \/ \E t \in Tabs : Carries(t) /\ r = tab[t].job)
         /\ root # Null => root \in Held
         /\ \A t \in Tabs : Carries(t) => tab[t].job \in Held /\ tab[t].job \in Bundles
<1>1. \A t \in Tabs : Carries(t) => tab[t].job \in Bundles /\ tab[t].job # Null
  BY TabTyped, BundleFacts DEF Carries, TabComplete
<1> QED
  BY <1>1 DEF Held, CompoundTypeOK, StoreTypes

LEMMA HeadsGiveJobs ==
  ASSUME CompoundTypeOK, HeadsAgree
  PROVE  JobsAgree
<1> SUFFICES ASSUME NEW t \in Tabs, Carries(t), Same(root, tab[t].job)
             PROVE  SameHead(tab[t].job, root)
  BY DEF JobsAgree, Carries
<1>1. tab[t].job \in Held /\ root \in Held /\ root.mutation = tab[t].job.mutation
  BY HeldFacts DEF Same
<1>2. HeadOf(tab[t].job) \in Heads /\ HeadOf(root) \in Heads
  BY <1>1 DEF Heads
<1>3. HeadOf(tab[t].job)[1] = HeadOf(root)[1]
  BY <1>1 DEF HeadOf
<1>4. HeadOf(tab[t].job) = HeadOf(root)
  BY <1>2, <1>3 DEF HeadsAgree
<1> QED
  BY <1>4 DEF HeadOf, SameHead

\* The three steps that write to a stored bundle.
LEMMA GrownRoot ==
  ASSUME CompoundTypeOK, JobsAgree, NEW t \in Tabs, root' # root,
         Staged(t) \/ Finalize(t) \/ Commit(t)
  PROVE  root \in Bundles /\ Grown(root')
<1> DEFINE p == tab[t]
<1>1. CASE Staged(t)
  <2> DEFINE a == Min(p.todo)
             e == p.envelope
  <2>1. /\ root \in Bundles /\ Same(root, p.job) /\ p.at = "staged" /\ a \in root.ids
        /\ root.hashes[a] \in {Null, e} /\ e \in Seals
        /\ root' = [root EXCEPT !.hashes[a] = e]
    BY <1>1, RootMoves
  <2> HIDE DEF a, e, p
  <2>2. /\ root' \in Bundles /\ root'.hashes = [root.hashes EXCEPT ![a] = e]
        /\ HeadOf(root') = HeadOf(root) /\ root'.final = root.final /\ root'.rev = root.rev
    BY <2>1, BundleSteps DEF HeadOf
  <2>3. root.hashes \in [root.ids -> Seals \cup {Null}]
    BY <2>1, BundleFacts
  <2>4. /\ root'.hashes[a] = e
        /\ \A b \in root.ids : b # a => root'.hashes[b] = root.hashes[b]
    BY <2>1, <2>2, <2>3
  <2>5. \A b \in root.ids : root.hashes[b] # Null => root'.hashes[b] = root.hashes[b]
    BY <2>1, <2>4
  <2>6. \A b \in root.ids : root'.hashes[b] # root.hashes[b] =>
          /\ tab[t].at = "staged" /\ Same(root, tab[t].job)
          /\ Min(tab[t].todo) = b /\ tab[t].envelope = root'.hashes[b]
    BY <2>1, <2>4 DEF a, e, p
  <2> QED
    BY <2>1, <2>2, <2>5, <2>6 DEF Grown
<1>2. CASE Finalize(t)
  <2>1. /\ root \in Bundles /\ (root.final \/ Hashed(root) = root.ids)
        /\ root' = [root EXCEPT !.final = TRUE]
    BY <1>2, RootMoves
  <2>2. /\ root' \in Bundles /\ root'.hashes = root.hashes /\ root'.rev = root.rev
        /\ HeadOf(root') = HeadOf(root)
    BY <2>1, BundleSteps DEF HeadOf
  <2>3. root.final \/ Full(root)
    BY <2>1 DEF Hashed, Full
  <2> QED
    BY <2>1, <2>2, <2>3 DEF Grown
<1>3. CASE Commit(t)
  <2>1. /\ root \in Bundles /\ Same(root, p.job) /\ p.at = "commit" /\ p.rev \in Nat
        /\ root' = [root EXCEPT !.rev = p.rev]
    BY <1>3, RootMoves
  <2> DEFINE n == p.rev
  <2> HIDE DEF n
  <2>2. /\ root' \in Bundles /\ root'.hashes = root.hashes /\ root'.final = root.final
        /\ HeadOf(root') = HeadOf(root)
    <3>1. n \in Nat /\ root' = [root EXCEPT !.rev = n]
      BY <2>1 DEF n
    <3> QED
      BY <2>1, <3>1, BundleSteps DEF HeadOf
  <2> QED
    BY <2>1, <2>2 DEF Grown
<1> QED
  BY <1>1, <1>2, <1>3

LEMMA DrawsDrew ==
  ASSUME CompoundTypeOK, NEW t \in Tabs, NEW to, Become(t, to), Draws(t, to)
  PROVE  Drew(t)
<1> DEFINE p == tab[t]
           j == Candidate(p)
<1>1. /\ Enter(t) /\ root = Null /\ p.row \in Edits /\ Drawable \ Drawn # {}
      /\ tab'[t].at = "install" /\ tab'[t].job = j /\ p \in TabState
      /\ \A u \in Tabs \ {t} : tab'[u] = tab[u]
  BY TabTyped DEF Draws, Become, CompoundTypeOK
<1>2. /\ j \in Bundles /\ j.mutation = Min(Drawable \ Drawn) /\ j.ids = p.sources
      /\ \A a \in p.sources : j.hashes[a] = Null
      /\ ~j.final /\ j.rev = 0
  <2> HIDE DEF p
  <2> QED
    BY <1>1, CandidateTyped
<1>3. UNCHANGED <<root, payloads, sent>>
  BY <1>1 DEF Enter, device
<1> DEFINE m == Min(Drawable \ Drawn)
<1>4. /\ \A s \in sent : s[2].mutation # m
      /\ \A u \in Tabs : tab[u].job # Null => tab[u].job.mutation # m
  BY <1>1, DrawnId
<1>5. \A u \in Tabs : Carries(u) => tab[u].job # Null
  BY HeldFacts, BundleFacts
<1> HIDE DEF p, j, m
<1>6. j.mutation = m
  BY <1>2 DEF m
<1>7. \A q \in Asked : q.mutation # j.mutation
  BY <1>4, <1>6 DEF Asked
<1>8. \A u \in Tabs : Carries(u) => tab[u].job.mutation # j.mutation
  BY <1>4, <1>5, <1>6
<1> QED
  BY <1>1, <1>2, <1>3, <1>7, <1>8 DEF Drew

LEMMA CoreSteps ==
  ASSUME CompoundTypeOK, JobsAgree, TypeOK, AnswerInv', [CompoundNext]_allVars
  PROVE  CoreStep
<1>1. ASSUME NEW t \in Tabs, TabStep(t)
      PROVE  CoreStep
  <2>1. PICK to : Become(t, to) /\ Good(to) /\ (Follow(tab[t], to) \/ Draws(t, to))
    BY <1>1, TabFollows
  <2>2. tab'[t] = to /\ \A u \in Tabs \ {t} : tab'[u] = tab[u]
    BY <2>1 DEF Become, CompoundTypeOK
  <2>3. Track(tab[t], tab'[t]) \/ Drew(t)
    BY <2>1, <2>2, DrawsDrew DEF Follow
  <2>4. TabsCore
    BY <2>2, <2>3 DEF TabsCore
  <2>5. SentCore
    BY <1>1, SentSteps DEF SentCore
  <2>6. root = Null \/ root \in Bundles
    BY DEF CompoundTypeOK, StoreTypes
  <2>7. PayloadCore
    BY <1>1, <2>6, PayloadSteps DEF PayloadCore
  <2>8. root' # root => sent' = sent
    BY <1>1, SentSteps DEF SendsOwn, SendsPut
  <2>9. root' # root /\ root' # Null => payloads' = payloads
    BY <1>1, PayloadSteps DEF PayloadEnters, PayloadLeaves
  <2>10. CASE root' # root /\ (Staged(t) \/ Finalize(t) \/ Commit(t))
    <3>1. root \in Bundles /\ Grown(root')
      BY <2>10, GrownRoot
    <3>2. root' # Null
      BY <3>1, BundleFacts DEF Grown
    <3> QED
      BY <2>4, <2>5, <2>7, <2>8, <2>9, <2>10, <3>1, <3>2 DEF CoreStep, RootCore
  <2>11. CASE root = Null /\ Install(t) /\ tab[t].at = "install" /\ root' = tab[t].job
    <3>1. root' # Null /\ root' # root
      BY <2>11, HeldFacts, BundleFacts DEF Carries, BundleAts
    <3>2. ~Enter(t)
      BY <2>11 DEF Enter, At
    <3>3. tab'[t].at # "install"
      BY <2>1, <2>2, <3>2 DEF Draws, Follow, Track
    <3> QED
      BY <2>4, <2>5, <2>7, <2>8, <2>9, <2>11, <3>1, <3>3 DEF CoreStep, RootCore
  <2>12. CASE root' = Null /\ Complete(t) /\ root # Null /\ root.rev > 0
    <3>1. payloads' = payloads
      BY <2>12 DEF Complete
    <3> QED
      BY <2>4, <2>5, <2>6, <2>7, <2>12, <3>1 DEF CoreStep, RootCore
  <2>13. CASE root' = Null /\ root # Null /\ payloads' = Without(payloads, root)
    BY <2>4, <2>5, <2>6, <2>7, <2>13 DEF CoreStep, RootCore
  <2>14. CASE root' = root
    BY <2>4, <2>5, <2>7, <2>14 DEF CoreStep, RootCore
  <2> QED
    BY <1>1, <2>10, <2>11, <2>12, <2>13, <2>14, RootSteps
<1>2. ASSUME NEW s \in sent, Serve(s[1], s[2])
      PROVE  CoreStep
  <2>1. /\ \A u \in Tabs : tab'[u] = tab[u] \/ Track(tab[u], tab'[u])
        /\ UNCHANGED <<root, payloads, sent>>
    BY <1>2, ServeFollows
  <2> QED
    BY <2>1 DEF CoreStep, RootCore, PayloadCore, SentCore, TabsCore
<1>3. CASE Around
  BY <1>3, AroundTypes DEF CoreStep, RootCore, PayloadCore, SentCore, TabsCore
<1>4. CASE UNCHANGED allVars
  BY <1>4 DEF allVars, compoundVars, CoreStep, RootCore, PayloadCore, SentCore, TabsCore
<1> QED
  BY <1>1, <1>2, <1>3, <1>4, Steps

-----------------------------------------------------------------------------
(* A mutation stays what it is *)

CoreNext == CompoundTypeOK /\ CompoundTypeOK' /\ CoreInv /\ CoreStep

LEMMA FinalFacts ==
  ASSUME NEW r \in Bundles
  PROVE  /\ FinalRequest(r).op = "bundle" /\ FinalRequest(r).mutation = r.mutation
         /\ FinalRequest(r).id = Key /\ HeadSent(FinalRequest(r)) = HeadOf(r)
         /\ \A a, e : [id |-> a, envelope |-> e] \in FinalRequest(r).attachments
                        <=> a \in r.ids /\ e = r.hashes[a]
<1> DEFINE A == {[id |-> a, envelope |-> r.hashes[a]] : a \in r.ids}
           I == {x.id : x \in A}
<1>1. FinalRequest(r) = [op |-> "bundle", mutation |-> r.mutation, id |-> Key,
                         base |-> r.base, envelope |-> r.draft, attachments |-> A]
  BY DEF FinalRequest
<1>2. I = r.ids
  <2>1. ASSUME NEW a \in r.ids PROVE a \in I
    <3>1. [id |-> a, envelope |-> r.hashes[a]] \in A
      BY <2>1
    <3> QED
      BY <3>1
  <2> QED
    BY <2>1
<1>3. \A a, e : [id |-> a, envelope |-> e] \in A <=> a \in r.ids /\ e = r.hashes[a]
  <2>1. ASSUME NEW a, NEW e, [id |-> a, envelope |-> e] \in A
        PROVE  a \in r.ids /\ e = r.hashes[a]
    <3>1. PICK b \in r.ids : [id |-> a, envelope |-> e] = [id |-> b, envelope |-> r.hashes[b]]
      BY <2>1
    <3>2. a = b /\ e = r.hashes[b]
      BY <3>1
    <3> QED
      BY <3>2
  <2> QED
    BY <2>1
<1>4. BundleIds(FinalRequest(r)) = I
  <2> HIDE DEF A
  <2> QED
    BY <1>1 DEF BundleIds
<1> HIDE DEF A, I
<1> QED
  BY <1>1, <1>2, <1>3, <1>4 DEF HeadSent, HeadOf

LEMMA StageFacts ==
  ASSUME NEW r, NEW a, NEW e
  PROVE  LET q == StageRequestOf(r, a, e)
         IN  q.op = "stage" /\ q.mutation = r.mutation /\ q.id = a /\ q.note = Key /\ q.envelope = e
BY DEF StageRequestOf

LEMMA HeldSteps ==
  ASSUME CoreNext, NEW r \in Held'
  PROVE  \/ /\ \E s \in Held : HeadOf(s) = HeadOf(r)
            /\ \A a \in r.ids : r.hashes[a] # Null => Sealed(r.mutation, a, r.hashes[a])
         \/ \E u \in Tabs : Drew(u) /\ r = tab'[u].job
<1> DEFINE Old == /\ \E s \in Held : HeadOf(s) = HeadOf(r)
                  /\ \A a \in r.ids : r.hashes[a] # Null => Sealed(r.mutation, a, r.hashes[a])
<1>1. r \in Bundles /\ (r = root' \/ \E t \in Tabs : Carries(t)' /\ r = tab'[t].job)
  <2>1. r # Null /\ (r = root' \/ \E t \in Tabs : Carries(t)' /\ r = tab'[t].job)
    BY DEF Held
  <2>2. \A t \in Tabs : Carries(t)' => tab'[t].job \in Bundles
    BY DEF CoreNext, CompoundTypeOK, TabComplete, Carries
  <2> QED
    BY <2>1, <2>2 DEF CoreNext, CompoundTypeOK, StoreTypes
<1>2. ASSUME r \in Held PROVE Old
  BY <1>2 DEF Sealed
<1>3. CASE r = root'
  <2>1. CASE root' = root
    BY <1>1, <1>2, <1>3, <2>1, HeldFacts, BundleFacts DEF CoreNext
  <2>2. CASE root \in Bundles /\ Grown(root')
    <3>1. root \in Held /\ HeadOf(root) = HeadOf(r)
      BY <1>3, <2>2, HeldFacts, BundleFacts DEF CoreNext, Grown
    <3>2. r.mutation = root.mutation /\ r.ids = root.ids
      BY <3>1 DEF HeadOf
    <3>3. ASSUME NEW a \in r.ids, r.hashes[a] # Null
          PROVE  Sealed(r.mutation, a, r.hashes[a])
      <4>1. CASE r.hashes[a] = root.hashes[a]
        BY <3>1, <3>2, <3>3, <4>1 DEF Sealed
      <4>2. CASE r.hashes[a] # root.hashes[a]
        <5>1. PICK t \in Tabs : /\ tab[t].at = "staged" /\ Same(root, tab[t].job)
                                /\ Min(tab[t].todo) = a /\ tab[t].envelope = r.hashes[a]
          BY <1>3, <2>2, <3>2, <3>3, <4>2 DEF Grown
        <5> QED
          BY <3>2, <5>1 DEF Sealed, Same, SealAts
      <4> QED
        BY <4>1, <4>2
    <3> QED
      BY <3>1, <3>3
  <2>3. CASE \E t \in Tabs : tab[t].at = "install" /\ root' = tab[t].job
    BY <1>2, <1>3, <2>3, HeldFacts DEF CoreNext, Carries, BundleAts
  <2> QED
    BY <1>1, <1>3, <2>1, <2>2, <2>3, BundleFacts DEF CoreNext, CoreStep, RootCore
<1>4. ASSUME NEW t \in Tabs, Carries(t)', r = tab'[t].job, r # root'
      PROVE  Old \/ Drew(t)
  <2>1. CASE tab'[t] = tab[t]
    BY <1>2, <1>4, <2>1, HeldFacts DEF CoreNext, Carries
  <2>2. CASE Track(tab[t], tab'[t])
    BY <1>2, <1>4, <2>2, HeldFacts DEF CoreNext, Carries, Track
  <2> QED
    BY <2>1, <2>2 DEF CoreNext, CoreStep, TabsCore
<1> QED
  BY <1>1, <1>3, <1>4

LEMMA AskedSteps ==
  ASSUME CoreNext, NEW q \in Asked', q \notin Asked
  PROVE  /\ UNCHANGED <<root, payloads>> /\ ~\E u \in Tabs : Drew(u)
         /\ \A u \in Asked' : u \in Asked \/ u = q
         /\ \/ \E t \in Tabs :
                 /\ Carries(t) /\ tab[t].at \in SealAts
                 /\ q = StageRequestOf(tab[t].job, Min(tab[t].todo), tab[t].envelope)
            \/ \E t \in Tabs :
                 /\ Carries(t) /\ tab[t].at \in FinalAts
                 /\ q = FinalRequest(tab[t].job) /\ Full(tab[t].job)
            \/ /\ q.op = "put" /\ q.mutation \in Drawable
               /\ \A u \in Asked : u.mutation # q.mutation
               /\ root # Null => root.mutation # q.mutation
               /\ \A t \in Tabs : Carries(t) => tab[t].job.mutation # q.mutation
<1>1. sent' # sent
  BY DEF Asked
<1>2. PICK t \in Tabs : SendsOwn(t) \/ SendsPut(t)
  BY <1>1 DEF CoreNext, CoreStep, SentCore
<1>3. UNCHANGED <<root, payloads>> /\ ~\E u \in Tabs : Drew(u)
  BY <1>1, <1>2 DEF SendsOwn, SendsPut, Drew
<1>4. CASE SendsOwn(t)
  <2>1. \A u \in Asked' : u \in Asked \/ u = RequestOf(tab[t])
    BY <1>4 DEF SendsOwn, Asked
  <2>2. q = RequestOf(tab[t]) /\ Carries(t)
    BY <1>4, <2>1 DEF SendsOwn, Carries, BundleAts, FinalAts, StageAts, SealAts
  <2>3. CASE tab[t].at = "stageSend"
    BY <1>3, <2>1, <2>2, <2>3 DEF RequestOf, SealAts
  <2>4. CASE tab[t].at = "finalSend"
    BY <1>3, <2>1, <2>2, <2>4 DEF RequestOf, CoreNext, CoreInv, FullFinal, FinalAts
  <2> QED
    BY <1>4, <2>3, <2>4 DEF SendsOwn
<1>5. CASE SendsPut(t)
  <2> DEFINE m == Min(Drawable \ Drawn)
             u == PlainRequest(m, tab[t].row.draft)
  <2>1. u.op = "put" /\ u.mutation = m
    BY DEF PlainRequest
  <2>2. /\ m \in Drawable
        /\ \A s \in sent : s[2].mutation # m
        /\ root # Null => root.mutation # m
        /\ \A v \in Tabs : tab[v].job # Null => tab[v].job.mutation # m
    BY <1>5, DrawnId DEF SendsPut, CoreNext
  <2>3. sent' = sent \cup {<<tab[t].cred, u>>}
    BY <1>5 DEF SendsPut
  <2> HIDE DEF m, u
  <2>4. q = u /\ \A w \in Asked' : w \in Asked \/ w = q
    BY <2>3 DEF Asked
  <2>5. \A v \in Tabs : Carries(v) => tab[v].job.mutation # q.mutation
    BY <2>1, <2>2, <2>4, HeldFacts, BundleFacts DEF CoreNext
  <2>6. \A w \in Asked : w.mutation # q.mutation
    BY <2>1, <2>2, <2>4 DEF Asked
  <2> QED
    BY <1>3, <2>1, <2>2, <2>4, <2>5, <2>6
<1> QED
  BY <1>2, <1>4, <1>5

LEMMA HeadsStep ==
  ASSUME CoreNext
  PROVE  HeadsAgree'
<1>1. ASSUME NEW h \in Heads'
      PROVE  h \in Heads \/ \E u \in Tabs : Drew(u) /\ h = HeadOf(tab'[u].job)
  <2>1. CASE \E r \in Held' : h = HeadOf(r)
    BY <2>1, HeldSteps DEF Heads
  <2>2. CASE \E q \in Asked' : q.op = "bundle" /\ h = HeadSent(q)
    <3>1. PICK q \in Asked' : q.op = "bundle" /\ h = HeadSent(q)
      BY <2>2
    <3>2. CASE q \in Asked
      BY <3>1, <3>2 DEF Heads
    <3>3. CASE q \notin Asked
      <4>1. PICK t \in Tabs : Carries(t) /\ q = FinalRequest(tab[t].job)
        BY <3>1, <3>3, AskedSteps, StageFacts
      <4>2. tab[t].job \in Held /\ tab[t].job \in Bundles
        BY <4>1, HeldFacts DEF CoreNext
      <4> QED
        BY <3>1, <4>1, <4>2, FinalFacts DEF Heads
    <3> QED
      BY <3>2, <3>3
  <2> QED
    BY <2>1, <2>2 DEF Heads
<1>2. ASSUME NEW u \in Tabs, Drew(u), NEW h \in Heads
      PROVE  h[1] # HeadOf(tab'[u].job)[1]
  <2>1. \A r \in Held : r.mutation # tab'[u].job.mutation
    BY <1>2, HeldFacts, BundleFacts DEF Drew, CoreNext
  <2>2. \A q \in Asked : q.mutation # tab'[u].job.mutation
    BY <1>2 DEF Drew
  <2> QED
    BY <1>2, <2>1, <2>2 DEF Heads, HeadOf, HeadSent
<1>3. ASSUME NEW u \in Tabs, Drew(u), NEW v \in Tabs, Drew(v)
      PROVE  u = v
  BY <1>3 DEF Drew, Carries, BundleAts
<1>4. \A h, k \in Heads : h[1] = k[1] => h = k
  BY DEF CoreNext, CoreInv, HeadsAgree
<1>5. \A h, k \in Heads' : h[1] = k[1] => h = k
  BY <1>1, <1>2, <1>3, <1>4
<1> QED
  BY <1>5 DEF HeadsAgree

\* An envelope is bound to an attachment only as its payload enters.
LEMMA SealedSteps ==
  ASSUME CoreNext, NEW m, NEW a, NEW e \in Seals, Sealed(m, a, e)'
  PROVE  Sealed(m, a, e) \/ <<m, a, e>> \in payloads' \ payloads
<1>0. e # Null
  BY SealsAreNotNull
<1>1. CASE <<m, a, e>> \in payloads'
  BY <1>1 DEF Sealed
<1>2. CASE \E r \in Held' : r.mutation = m /\ a \in r.ids /\ r.hashes[a] = e
  <2>1. PICK r \in Held' : r.mutation = m /\ a \in r.ids /\ r.hashes[a] = e
    BY <1>2
  <2>2. CASE \E u \in Tabs : Drew(u) /\ r = tab'[u].job
    BY <1>0, <2>1, <2>2 DEF Drew
  <2> QED
    BY <1>0, <2>1, <2>2, HeldSteps
<1>3. ASSUME NEW t \in Tabs, tab'[t].at \in SealAts, tab'[t].job.mutation = m,
             Min(tab'[t].todo) = a, tab'[t].envelope = e
      PROVE  Sealed(m, a, e) \/ <<m, a, e>> \in payloads'
  <2>1. CASE tab'[t] = tab[t]
    BY <1>3, <2>1 DEF Sealed
  <2>2. CASE Track(tab[t], tab'[t])
    <3>1. CASE /\ tab[t].at \in SealAts /\ tab'[t].job = tab[t].job
               /\ tab'[t].todo = tab[t].todo /\ tab'[t].envelope = tab[t].envelope
      BY <1>3, <3>1 DEF Sealed
    <3>2. CASE <<tab'[t].job.mutation, Min(tab'[t].todo), tab'[t].envelope>> \in payloads'
      BY <1>3, <3>2
    <3> QED
      BY <1>3, <2>2, <3>1, <3>2 DEF Track
  <2>3. ~Drew(t)
    BY <1>3 DEF Drew, SealAts
  <2> QED
    BY <2>1, <2>2, <2>3 DEF CoreNext, CoreStep, TabsCore
<1>4. ASSUME NEW q \in Asked',
             \/ q.op = "stage" /\ q.mutation = m /\ q.id = a /\ q.envelope = e
             \/ /\ q.op = "bundle" /\ q.mutation = m
                /\ [id |-> a, envelope |-> e] \in q.attachments
      PROVE  Sealed(m, a, e)
  <2>1. CASE q \in Asked
    BY <1>4, <2>1 DEF Sealed
  <2>2. ASSUME q \notin Asked, NEW t \in Tabs, tab[t].at \in SealAts,
               q = StageRequestOf(tab[t].job, Min(tab[t].todo), tab[t].envelope)
        PROVE  Sealed(m, a, e)
    BY <1>4, <2>2, StageFacts DEF Sealed
  <2>3. ASSUME q \notin Asked, NEW t \in Tabs, Carries(t), q = FinalRequest(tab[t].job)
        PROVE  Sealed(m, a, e)
    <3>1. tab[t].job \in Held /\ tab[t].job \in Bundles
      BY <2>3, HeldFacts DEF CoreNext
    <3>2. /\ q.op = "bundle" /\ q.mutation = tab[t].job.mutation
          /\ [id |-> a, envelope |-> e] \in q.attachments
               <=> a \in tab[t].job.ids /\ e = tab[t].job.hashes[a]
      BY <2>3, <3>1, FinalFacts
    <3> QED
      BY <1>0, <1>4, <3>1, <3>2 DEF Sealed
  <2> QED
    BY <1>4, <2>1, <2>2, <2>3, AskedSteps
<1> QED
  BY <1>1, <1>2, <1>3, <1>4 DEF Sealed

\* It enters while the root lacks its hash, and only where no payload is.
LEMMA PayloadNews ==
  ASSUME CoreNext, NEW m, NEW a, NEW e, <<m, a, e>> \in payloads' \ payloads
  PROVE  /\ root \in Bundles /\ root' = root /\ root.mutation = m /\ a \in root.ids
         /\ root.hashes[a] = Null /\ ~\E f : <<m, a, f>> \in payloads
         /\ payloads' = payloads \cup {<<m, a, e>>} /\ sent' = sent
<1>1. PICK t \in Tabs : PayloadEnters(t)
  BY DEF CoreNext, CoreStep, PayloadCore, PayloadLeaves, Without
<1> DEFINE p == tab[t]
           b == Min(p.todo)
<1>2. /\ p.at = "seal" /\ Same(root, p.job) /\ root.hashes[b] = Null
      /\ root' = root /\ sent' = sent /\ Payload(p.job, b) = {}
  BY <1>1 DEF PayloadEnters
<1>3. PICK f \in Seals : payloads' = payloads \cup {<<p.job.mutation, b, f>>}
  BY <1>1 DEF PayloadEnters
<1>4. Carries(t)
  BY <1>2 DEF Carries, BundleAts, StageAts
<1>5. root \in Bundles /\ SameHead(p.job, root) /\ root.mutation = p.job.mutation
  BY <1>2, <1>4, HeadsGiveJobs
     DEF CoreNext, CoreInv, CompoundTypeOK, StoreTypes, Same, JobsAgree, Carries
<1>6. b \in root.ids
  BY <1>2, <1>5, TabTyped, StageOf DEF CoreNext, SameHead
<1>7. \A x \in payloads : x[1] = p.job.mutation => x[2] # b
  BY <1>2 DEF Payload
<1> HIDE DEF p, b
<1>8. m = p.job.mutation /\ a = b /\ e = f
  BY <1>3
<1> QED
  BY <1>2, <1>3, <1>5, <1>6, <1>7, <1>8

LEMMA SealedStep ==
  ASSUME CoreNext
  PROVE  SealedOnce'
<1> SUFFICES ASSUME NEW m \in Drawable, NEW a \in Attachments, NEW e \in Seals, NEW f \in Seals,
                    Sealed(m, a, e)', Sealed(m, a, f)'
             PROVE  e = f
  BY DEF SealedOnce
<1>1. CASE Sealed(m, a, e) /\ Sealed(m, a, f)
  BY <1>1 DEF CoreNext, CoreInv, SealedOnce
<1>2. ASSUME NEW g \in Seals, NEW h \in Seals, Sealed(m, a, g), <<m, a, h>> \in payloads' \ payloads
      PROVE  FALSE
  <2>1. /\ root \in Bundles /\ root.mutation = m /\ a \in root.ids
        /\ root.hashes[a] = Null /\ ~\E i : <<m, a, i>> \in payloads
    BY <1>2, PayloadNews
  <2>2. root # Null
    BY <2>1, BundleFacts
  <2> QED
    BY <1>2, <2>1, <2>2 DEF CoreNext, CoreInv, SealKept
<1>3. CASE <<m, a, e>> \in payloads' \ payloads /\ <<m, a, f>> \in payloads' \ payloads
  <2>1. payloads' = payloads \cup {<<m, a, e>>}
    BY <1>3, PayloadNews
  <2> QED
    BY <1>3, <2>1
<1> QED
  BY <1>1, <1>2, <1>3, SealedSteps

\* A payload goes with its root, or once the root has the hash.
LEMMA KeptStep ==
  ASSUME CoreNext
  PROVE  SealKept'
<1> SUFFICES ASSUME root' # Null, NEW m, m = root'.mutation,
                    NEW a \in root'.ids, NEW e \in Seals,
                    root'.hashes[a] = Null, Sealed(m, a, e)'
             PROVE  \E f \in Seals : <<m, a, f>> \in payloads'
  BY DEF SealKept, Sealed
<1>1. CASE <<m, a, e>> \in payloads'
  BY <1>1
<1>2. CASE Sealed(m, a, e)
  <2>1. CASE root' = root
    <3>1. PICK f \in Seals : <<root.mutation, a, f>> \in payloads
      BY <1>2, <2>1 DEF CoreNext, CoreInv, SealKept
    <3>2. root \in Bundles
      BY <2>1 DEF CoreNext, CompoundTypeOK, StoreTypes
    <3>3. ASSUME NEW t \in Tabs, PayloadLeaves(t), <<root.mutation, a, f>> \notin payloads'
          PROVE  FALSE
      <4> DEFINE p == tab[t]
                 b == Min(p.todo)
      <4>1. /\ \/ p.at = "stage" /\ p.todo # {} /\ p.job.hashes[b] # Null
               \/ p.at = "unseal"
            /\ payloads' = payloads \ Payload(p.job, b)
        BY <3>3 DEF PayloadLeaves
      <4>2. p.job.mutation = root.mutation /\ b = a
        BY <3>1, <3>3, <4>1 DEF Payload
      <4>3. Carries(t) /\ Same(root, p.job)
        BY <2>1, <4>1, <4>2 DEF Carries, BundleAts, StageAts, SealAts, Same
      <4>4. root.hashes[a] # Null
        BY <2>1, <4>1, <4>2, <4>3 DEF CoreNext, CoreInv, RootLeads
      <4> QED
        BY <2>1, <4>4
    <3>4. CASE \E t \in Tabs : PayloadEnters(t)
      BY <2>1, <3>1, <3>4 DEF PayloadEnters
    <3> QED
      BY <2>1, <3>1, <3>3, <3>4 DEF CoreNext, CoreStep, PayloadCore
  <2>2. CASE root \in Bundles /\ Grown(root') /\ payloads' = payloads
    <3>1. /\ root'.mutation = root.mutation /\ root'.ids = root.ids /\ root # Null
      BY <2>2, BundleFacts DEF Grown, HeadOf
    <3>2. root.hashes[a] = Null
      BY <2>2, <3>1 DEF Grown
    <3> QED
      BY <1>2, <2>2, <3>1, <3>2 DEF CoreNext, CoreInv, SealKept
  <2>3. ASSUME root = Null, NEW t \in Tabs, tab[t].at = "install", root' = tab[t].job
        PROVE  FALSE
    <3>0. Carries(t)
      BY <2>3 DEF Carries, BundleAts
    <3>1. /\ \A q \in Asked : q.mutation # root'.mutation
          /\ \A u \in Tabs \ {t} : Carries(u) => tab[u].job.mutation # root'.mutation
          /\ \A b \in root'.ids : root'.hashes[b] = Null
      BY <2>3 DEF CoreNext, CoreInv, FreshInstall
    <3>2. <<m, a, e>> \notin payloads
      BY <2>3, <3>1 DEF CoreNext, CoreInv, PayloadsOwned
    <3>3. \A r \in Held : r.mutation = root'.mutation => r = root'
      BY <2>3, <3>1, HeldFacts, BundleFacts DEF CoreNext
    <3>4. \A u \in Tabs : tab[u].at \in SealAts => tab[u].job.mutation # root'.mutation
      BY <2>3, <3>1 DEF Carries, BundleAts, StageAts, SealAts
    <3> QED
      BY <1>2, <3>1, <3>2, <3>3, <3>4 DEF Sealed
  <2> QED
    BY <2>1, <2>2, <2>3 DEF CoreNext, CoreStep, RootCore
<1> QED
  BY <1>1, <1>2, SealedSteps

\* Where the root goes, once more: it stays, grows, or is a tab's own.
LEMMA RootGoes ==
  ASSUME CoreNext, root' # Null
  PROVE  /\ root' \in Bundles
         /\ \/ root' = root
            \/ root \in Bundles /\ root # Null /\ Grown(root')
            \/ \E t \in Tabs :
                 /\ root = Null /\ tab[t].at = "install" /\ root' = tab[t].job
                 /\ tab'[t].at # "install" /\ UNCHANGED <<payloads, sent>>
                 /\ \A q \in Asked : q.mutation # root'.mutation
                 /\ \A u \in Tabs \ {t} : Carries(u) => tab[u].job.mutation # root'.mutation
                 /\ \A a \in root'.ids : root'.hashes[a] = Null
                 /\ ~root'.final /\ root'.rev = 0
<1>1. root' \in Bundles
  BY DEF CoreNext, CompoundTypeOK, StoreTypes
<1>2. \A t \in Tabs : tab[t].at = "install" =>
        /\ \A q \in Asked : q.mutation # tab[t].job.mutation
        /\ \A u \in Tabs \ {t} : Carries(u) => tab[u].job.mutation # tab[t].job.mutation
        /\ \A a \in tab[t].job.ids : tab[t].job.hashes[a] = Null
        /\ ~tab[t].job.final /\ tab[t].job.rev = 0
  BY DEF CoreNext, CoreInv, FreshInstall
<1>3. root \in Bundles => root # Null
  BY BundleFacts
<1>4. CASE root' = root
  BY <1>1, <1>4
<1>5. CASE root \in Bundles /\ Grown(root')
  BY <1>1, <1>3, <1>5
<1>6. CASE /\ root = Null /\ UNCHANGED <<payloads, sent>>
           /\ \E t \in Tabs :
                tab[t].at = "install" /\ root' = tab[t].job /\ tab'[t].at # "install"
  BY <1>1, <1>2, <1>6
<1> QED
  BY <1>4, <1>5, <1>6 DEF CoreNext, CoreStep, RootCore

LEMMA LeadsStep ==
  ASSUME CoreNext
  PROVE  RootLeads'
<1> SUFFICES ASSUME NEW t \in Tabs, Carries(t)', root' # Null,
                    root'.mutation = tab'[t].job.mutation
             PROVE  /\ \A a \in root'.ids : tab'[t].job.hashes[a] # Null => root'.hashes[a] # Null
                    /\ tab'[t].at = "unseal" => root'.hashes[Min(tab'[t].todo)] # Null
  BY DEF RootLeads, Same
<1> DEFINE L(r, p) == /\ \A a \in r.ids : p.job.hashes[a] # Null => r.hashes[a] # Null
                      /\ p.at = "unseal" => r.hashes[Min(p.todo)] # Null
<1>0. L(root', tab[t]) => \A a \in root'.ids : tab[t].job.hashes[a] # Null => root'.hashes[a] # Null
  OBVIOUS
<1>1. ASSUME Carries(t), root'.mutation = tab[t].job.mutation
      PROVE  L(root', tab[t])
  <2>1. CASE root' = root
    BY <1>1, <2>1 DEF CoreNext, CoreInv, RootLeads, Same
  <2>2. CASE root \in Bundles /\ root # Null /\ Grown(root')
    <3>1. root'.mutation = root.mutation /\ root'.ids = root.ids
      BY <2>2 DEF Grown, HeadOf
    <3>2. L(root, tab[t])
      BY <1>1, <2>2, <3>1 DEF CoreNext, CoreInv, RootLeads, Same
    <3>3. \A a \in root.ids : root.hashes[a] # Null => root'.hashes[a] # Null
      BY <2>2 DEF Grown
    <3>4. tab[t].at = "unseal" => Min(tab[t].todo) \in root.ids
      <4>1. root.mutation = tab[t].job.mutation
        BY <1>1, <3>1
      <4>2. SameHead(tab[t].job, root)
        BY <1>1, <2>2, <4>1, HeadsGiveJobs DEF CoreNext, CoreInv, JobsAgree, Carries, Same
      <4> QED
        BY <4>2, TabTyped, StageOf DEF CoreNext, SameHead, SealAts
    <3> QED
      BY <3>1, <3>2, <3>3, <3>4
  <2>3. CASE \E u \in Tabs : /\ root = Null /\ tab[u].at = "install" /\ root' = tab[u].job
                             /\ \A v \in Tabs \ {u} : Carries(v) => tab[v].job.mutation # root'.mutation
                             /\ \A a \in root'.ids : root'.hashes[a] = Null
    BY <1>1, <2>3
  <2> QED
    BY <2>1, <2>2, <2>3, RootGoes
<1>2. CASE tab'[t] = tab[t]
  BY <1>1, <1>2 DEF Carries
<1>3. CASE Track(tab[t], tab'[t])
  <2>1. tab'[t].at = "unseal" => root'.hashes[Min(tab'[t].todo)] # Null
    BY <1>3 DEF Track
  <2>2. CASE tab[t].at \in BundleAts /\ tab'[t].job = tab[t].job
    BY <1>0, <1>1, <2>1, <2>2 DEF Carries
  <2>3. CASE tab'[t].job = root'
    BY <2>1, <2>3
  <2> QED
    BY <1>3, <2>2, <2>3 DEF Track, Carries
<1>4. CASE Drew(t)
  BY <1>4, HeldFacts, BundleFacts DEF Drew, CoreNext, CompoundTypeOK, StoreTypes
<1> QED
  BY <1>2, <1>3, <1>4 DEF CoreNext, CoreStep, TabsCore

LEMMA FullStep ==
  ASSUME CoreNext
  PROVE  FullFinal'
<1>1. ASSUME root' # Null, root'.final PROVE Full(root')
  <2>1. CASE root' = root
    BY <1>1, <2>1 DEF CoreNext, CoreInv, FullFinal
  <2>2. CASE root \in Bundles /\ root # Null /\ Grown(root')
    BY <1>1, <2>2 DEF CoreNext, CoreInv, FullFinal, Full, Grown, HeadOf
  <2> QED
    BY <1>1, <2>1, <2>2, RootGoes
<1>2. ASSUME NEW t \in Tabs, tab'[t].at \in FinalAts
      PROVE  Full(tab'[t].job)
  <2>1. CASE tab'[t] = tab[t]
    BY <1>2, <2>1 DEF CoreNext, CoreInv, FullFinal
  <2>2. CASE Track(tab[t], tab'[t])
    BY <1>1, <1>2, <2>2 DEF CoreNext, CoreInv, FullFinal, Track
  <2>3. ~Drew(t)
    BY <1>2 DEF Drew, FinalAts
  <2> QED
    BY <2>1, <2>2, <2>3 DEF CoreNext, CoreStep, TabsCore
<1> QED
  BY <1>1, <1>2 DEF FullFinal, Full

LEMMA AskedGrows ==
  ASSUME CoreNext
  PROVE  Asked \subseteq Asked'
BY DEF CoreNext, CoreStep, SentCore, SendsOwn, SendsPut, Asked

LEMMA SentAlreadyStep ==
  ASSUME CoreNext
  PROVE  SentAlready'
<1>1. ASSUME NEW t \in Tabs, tab'[t].at \in FinalAts \ {"finalSend"}
      PROVE  \E q \in Asked' : q = FinalRequest(tab'[t].job)
  <2>1. ASSUME tab[t].at \in FinalAts \ {"finalSend"}, tab'[t].job = tab[t].job
        PROVE  FinalRequest(tab'[t].job) \in Asked'
    BY <2>1, AskedGrows DEF CoreNext, CoreInv, SentAlready
  <2>2. CASE tab'[t] = tab[t]
    BY <1>1, <2>1, <2>2
  <2>3. CASE Track(tab[t], tab'[t])
    <3>1. tab'[t].job = tab[t].job \/ tab'[t].at = "finalSend"
      BY <1>1, <2>3 DEF Track
    <3>2. \/ tab[t].at \in FinalAts \ {"finalSend"}
          \/ \E s \in sent' : s[2] = FinalRequest(tab'[t].job)
      BY <1>1, <2>3 DEF Track
    <3> QED
      BY <1>1, <2>1, <3>1, <3>2 DEF Asked
  <2>4. ~Drew(t)
    BY <1>1 DEF Drew, FinalAts
  <2> QED
    BY <2>2, <2>3, <2>4 DEF CoreNext, CoreStep, TabsCore
<1>2. ASSUME root' # Null, root'.rev > 0
      PROVE  \E q \in Asked' : q.mutation = root'.mutation
  <2>1. CASE root' = root
    BY <1>2, <2>1, AskedGrows DEF CoreNext, CoreInv, SentAlready
  <2>2. CASE root \in Bundles /\ root # Null /\ Grown(root')
    <3>1. root'.mutation = root.mutation
      BY <2>2 DEF Grown, HeadOf
    <3>2. CASE root.rev > 0
      BY <2>2, <3>1, <3>2, AskedGrows DEF CoreNext, CoreInv, SentAlready
    <3>3. ASSUME NEW t \in Tabs, tab[t].at = "commit", Same(root, tab[t].job)
          PROVE  \E q \in Asked : q.mutation = root.mutation
      <4>1. FinalRequest(tab[t].job) \in Asked
        BY <3>3 DEF CoreNext, CoreInv, SentAlready, FinalAts
      <4>2. tab[t].job \in Bundles
        BY <3>3, HeldFacts DEF CoreNext, Carries, BundleAts, FinalAts
      <4> QED
        BY <3>3, <4>1, <4>2, FinalFacts DEF Same
    <3> QED
      BY <1>2, <2>2, <3>1, <3>2, <3>3, AskedGrows DEF Grown
  <2>3. CASE root'.rev = 0
    BY <1>2, <2>3
  <2> QED
    BY <1>2, <2>1, <2>2, <2>3, RootGoes
<1> QED
  BY <1>1, <1>2 DEF SentAlready, FinalRequest

LEMMA OwnedStep ==
  ASSUME CoreNext
  PROVE  PayloadsOwned'
<1> SUFFICES ASSUME NEW x \in payloads'
             PROVE  \/ root' # Null /\ root'.mutation = x[1]
                    \/ \E q \in Asked' : q.mutation = x[1]
  BY DEF PayloadsOwned
<1>1. x = <<x[1], x[2], x[3]>>
  BY DEF CoreNext, CompoundTypeOK, StoreTypes
<1>2. CASE x \notin payloads
  <2>1. root \in Bundles /\ root' = root /\ root.mutation = x[1]
    BY <1>1, <1>2, PayloadNews
  <2> QED
    BY <2>1, BundleFacts
<1>3. CASE x \in payloads
  <2>1. (root # Null /\ root.mutation = x[1]) \/ \E q \in Asked : q.mutation = x[1]
    BY <1>3 DEF CoreNext, CoreInv, PayloadsOwned
  <2>2. CASE root # Null /\ root.mutation = x[1] /\ root' # Null
    BY <2>2, RootGoes DEF Grown, HeadOf
  <2>3. CASE root # Null /\ root.mutation = x[1] /\ root' = Null
    <3>1. payloads' = Without(payloads, root) \/ root.rev > 0
      BY <2>3, BundleFacts DEF CoreNext, CoreStep, RootCore, Grown
    <3>2. payloads' # Without(payloads, root)
      BY <2>3 DEF Without
    <3> QED
      BY <2>3, <3>1, <3>2, AskedGrows DEF CoreNext, CoreInv, SentAlready
  <2> QED
    BY <2>1, <2>2, <2>3, AskedGrows
<1> QED
  BY <1>2, <1>3

LEMMA FreshStep ==
  ASSUME CoreNext
  PROVE  FreshInstall'
<1> SUFFICES ASSUME NEW t \in Tabs, tab'[t].at = "install", NEW j, j = tab'[t].job
             PROVE  /\ ~(root' # Null /\ root'.mutation = j.mutation)
                    /\ \A q \in Asked' : q.mutation # j.mutation
                    /\ \A u \in Tabs \ {t} : Carries(u)' => tab'[u].job.mutation # j.mutation
                    /\ \A a \in j.ids : j.hashes[a] = Null
                    /\ ~j.final /\ j.rev = 0
  BY DEF FreshInstall, Same
<1>1. CASE Drew(t)
  <2>1. Asked' = Asked
    BY <1>1 DEF Drew, Asked
  <2> QED
    BY <1>1, <2>1 DEF Drew, Carries
<1>2. CASE ~Drew(t)
  <2>1. tab'[t] = tab[t]
    BY <1>2 DEF CoreNext, CoreStep, TabsCore, Track
  <2>2. /\ tab[t].at = "install" /\ j = tab[t].job /\ Carries(t) /\ j \in Held
    BY <2>1, HeldFacts DEF CoreNext, Carries, BundleAts
  <2>3. /\ ~Same(root, j) /\ \A q \in Asked : q.mutation # j.mutation
        /\ \A u \in Tabs \ {t} : Carries(u) => tab[u].job.mutation # j.mutation
        /\ \A a \in j.ids : j.hashes[a] = Null
        /\ ~j.final /\ j.rev = 0
    BY <2>2 DEF CoreNext, CoreInv, FreshInstall
  <2>4. root' # Null => root'.mutation # j.mutation
    <3>1. CASE root' = root
      BY <2>3, <3>1 DEF Same
    <3>2. CASE root # Null /\ Grown(root')
      BY <2>3, <3>2 DEF Same, Grown, HeadOf
    <3>3. ASSUME NEW u \in Tabs, root' = tab[u].job, tab[u].at = "install",
                 tab'[u].at # "install"
          PROVE  root'.mutation # j.mutation
      BY <2>1, <2>2, <2>3, <3>3 DEF Carries, BundleAts
    <3> QED
      BY <3>1, <3>2, <3>3, RootGoes
  <2>5. ASSUME NEW q \in Asked' PROVE q.mutation # j.mutation
    <3>1. CASE q \in Asked
      BY <2>3, <3>1
    <3>2. ASSUME q \notin Asked, NEW u \in Tabs, Carries(u), u # t,
                 \/ q = StageRequestOf(tab[u].job, Min(tab[u].todo), tab[u].envelope)
                 \/ q = FinalRequest(tab[u].job)
          PROVE  q.mutation # j.mutation
      <4>1. q.mutation = tab[u].job.mutation
        BY <3>2, StageFacts, FinalFacts, HeldFacts DEF CoreNext
      <4> QED
        BY <2>3, <3>2, <4>1
    <3>3. ASSUME q \notin Asked,
                 \A u \in Tabs : Carries(u) => tab[u].job.mutation # q.mutation
          PROVE  q.mutation # j.mutation
      BY <2>2, <3>3
    <3> QED
      BY <2>2, <3>1, <3>2, <3>3, AskedSteps DEF SealAts, FinalAts
  <2>6. ASSUME NEW u \in Tabs \ {t}, Carries(u)'
        PROVE  tab'[u].job.mutation # j.mutation
    <3>1. CASE tab'[u] = tab[u]
      BY <2>3, <2>6, <3>1 DEF Carries
    <3>2. CASE Track(tab[u], tab'[u])
      BY <2>3, <2>4, <2>6, <3>2 DEF Carries, Track
    <3>3. CASE Drew(u)
      BY <2>2, <3>3 DEF Drew
    <3> QED
      BY <3>1, <3>2, <3>3 DEF CoreNext, CoreStep, TabsCore
  <2> QED
    BY <2>3, <2>4, <2>5, <2>6
<1> QED
  BY <1>1, <1>2

LEMMA AskedKindsStep ==
  ASSUME CoreNext
  PROVE  AskedKinds'
<1>1. ASSUME NEW q \in Asked
      PROVE  /\ q.mutation \in Drawable
             /\ q.op = "stage" => q.note = Key /\ q.envelope \in Seals
             /\ q.op = "bundle" => q.id = Key /\ \A x \in q.attachments : x.envelope \in Seals
  BY <1>1 DEF CoreNext, CoreInv, AskedKinds
<1>2. ASSUME NEW q \in Asked', q \notin Asked
      PROVE  \/ /\ q.mutation \in Drawable /\ q.op # "put"
                /\ q.op = "stage" => q.note = Key /\ q.envelope \in Seals
                /\ q.op = "bundle" => q.id = Key /\ \A x \in q.attachments : x.envelope \in Seals
                /\ \E t \in Tabs : Carries(t) /\ q.mutation = tab[t].job.mutation
             \/ /\ q.op = "put" /\ q.mutation \in Drawable
                /\ \A u \in Asked : u.mutation # q.mutation
                /\ root # Null => root.mutation # q.mutation
                /\ \A t \in Tabs : Carries(t) => tab[t].job.mutation # q.mutation
  <2>1. ASSUME NEW t \in Tabs, Carries(t), tab[t].at \in SealAts,
               q = StageRequestOf(tab[t].job, Min(tab[t].todo), tab[t].envelope)
        PROVE  /\ q.mutation \in Drawable /\ q.op = "stage" /\ q.note = Key
               /\ q.envelope \in Seals /\ q.mutation = tab[t].job.mutation
    BY <2>1, StageFacts, HeldFacts, BundleFacts, TabTyped DEF CoreNext, TabComplete
  <2>2. ASSUME NEW t \in Tabs, Carries(t), q = FinalRequest(tab[t].job), Full(tab[t].job)
        PROVE  /\ q.mutation \in Drawable /\ q.op = "bundle" /\ q.id = Key
               /\ q.mutation = tab[t].job.mutation
               /\ \A x \in q.attachments : x.envelope \in Seals
    <3> DEFINE r == tab[t].job
    <3>1. r \in Bundles
      BY <2>2, HeldFacts DEF CoreNext
    <3>2. /\ r.mutation \in Drawable /\ \A a \in r.ids : r.hashes[a] \in Seals
      BY <2>2, <3>1, BundleFacts DEF Full
    <3> HIDE DEF r
    <3>3. \A x \in FinalRequest(r).attachments : x.envelope \in Seals
      BY <3>2 DEF FinalRequest
    <3> QED
      BY <2>2, <3>1, <3>2, <3>3, FinalFacts DEF r
  <2> QED
    BY <1>2, <2>1, <2>2, AskedSteps
<1>3. ASSUME NEW q \in Asked', q.op = "put"
      PROVE  /\ \A u \in Asked' : u.mutation = q.mutation => u = q
             /\ root' # Null => root'.mutation # q.mutation
             /\ \A t \in Tabs : Carries(t)' => tab'[t].job.mutation # q.mutation
  <2>1. /\ \A u \in Asked : u.mutation = q.mutation => u = q
        /\ root # Null => root.mutation # q.mutation
        /\ \A t \in Tabs : Carries(t) => tab[t].job.mutation # q.mutation
    BY <1>2, <1>3 DEF CoreNext, CoreInv, AskedKinds, Same
  <2>2. ASSUME NEW u \in Asked', u.mutation = q.mutation
        PROVE  u = q
    <3>1. CASE u \in Asked
      BY <2>1, <2>2, <3>1
    <3>2. CASE u \notin Asked /\ q \in Asked
      <4>1. \A t \in Tabs : Carries(t) => u.mutation # tab[t].job.mutation
        BY <2>1, <2>2
      <4>2. \A v \in Asked : v.mutation # u.mutation
        BY <1>2, <3>2, <4>1
      <4> QED
        BY <2>2, <3>2, <4>2
    <3>3. CASE u \notin Asked /\ q \notin Asked
      BY <3>3, AskedSteps
    <3> QED
      BY <3>1, <3>2, <3>3
  <2>3. root' # Null => root'.mutation # q.mutation
    <3>1. CASE root # Null /\ Grown(root')
      BY <2>1, <3>1 DEF Grown, HeadOf
    <3>2. ASSUME NEW t \in Tabs, tab[t].at = "install", root' = tab[t].job
          PROVE  root'.mutation # q.mutation
      BY <2>1, <3>2 DEF Carries, BundleAts
    <3> QED
      BY <2>1, <3>1, <3>2, RootGoes
  <2>4. ASSUME NEW t \in Tabs, Carries(t)'
        PROVE  tab'[t].job.mutation # q.mutation
    <3>1. CASE tab'[t] = tab[t]
      BY <2>1, <2>4, <3>1 DEF Carries
    <3>2. CASE Track(tab[t], tab'[t])
      BY <2>1, <2>3, <2>4, <3>2 DEF Carries, Track
    <3>3. CASE Drew(t)
      <4>1. q \in Asked
        BY <3>3 DEF Drew, Asked
      <4> QED
        BY <3>3, <4>1 DEF Drew
    <3> QED
      BY <3>1, <3>2, <3>3 DEF CoreNext, CoreStep, TabsCore
  <2> QED
    BY <2>2, <2>3, <2>4
<1>4. ASSUME NEW q \in Asked'
      PROVE  /\ q.mutation \in Drawable
             /\ q.op = "stage" => q.note = Key /\ q.envelope \in Seals
             /\ q.op = "bundle" => q.id = Key /\ \A x \in q.attachments : x.envelope \in Seals
  BY <1>1, <1>2, <1>4
<1> QED
  BY <1>3, <1>4 DEF AskedKinds, Same

LEMMA CoreInvStep ==
  ASSUME CoreNext
  PROVE  CoreInv'
BY HeadsStep, SealedStep, KeptStep, LeadsStep, FullStep, SentAlreadyStep, OwnedStep, FreshStep,
   AskedKindsStep DEF CoreInv

LEMMA CoreInit == CompoundInit => CoreInv
<1> SUFFICES ASSUME CompoundInit PROVE CoreInv
  OBVIOUS
<1>1. \A t \in Tabs : tab[t].at = "idle"
  BY IdleTyped, CompoundTypeInit DEF CompoundInit, CompoundTypeOK, StoreTypes
<1>2. \A t \in Tabs : tab[t].at \notin BundleAts
  BY <1>1 DEF BundleAts, StageAts, SealAts, FinalAts
<1>3. Held = {} /\ Asked = {} /\ Heads = {}
  <2>1. root = Null /\ sent = {}
    BY DEF CompoundInit
  <2>2. Held = {}
    BY <1>2, <2>1 DEF Held, Carries
  <2>3. Asked = {}
    BY <2>1 DEF Asked
  <2> QED
    BY <2>2, <2>3 DEF Heads
<1>4. \A t \in Tabs : tab[t].at \notin SealAts \cup FinalAts \cup {"install", "unseal"}
  BY <1>1 DEF SealAts, FinalAts
<1>5. \A m, a, e : ~Sealed(m, a, e)
  BY <1>3, <1>4 DEF Sealed, CompoundInit
<1> QED
  BY <1>2, <1>3, <1>4, <1>5
     DEF CompoundInit, CoreInv, HeadsAgree, SealedOnce, SealKept, RootLeads, FullFinal,
         SentAlready, PayloadsOwned, FreshInstall, AskedKinds, Carries

LEMMA ResentFollows ==
  ASSUME CompoundTypeOK, CoreInv
  PROVE  ResentExactly
<1> SUFFICES ASSUME NEW q \in Asked, NEW u \in Asked, q.mutation = u.mutation, q.id = u.id
             PROVE  q = u
  BY DEF ResentExactly, Asked
<1>1. q \in Requests /\ u \in Requests
  BY DEF Asked, CompoundTypeOK, StoreTypes
<1>2. \A v \in {q, u} :
        /\ v.mutation \in Drawable
        /\ v.op = "stage" => v.note = Key /\ v.envelope \in Seals
        /\ v.op = "bundle" => v.id = Key /\ \A x \in v.attachments : x.envelope \in Seals
        /\ v.op = "put" => \A w \in Asked : w.mutation = v.mutation => w = v
  BY DEF CoreInv, AskedKinds
<1>3. CASE q.op = "put" \/ u.op = "put"
  BY <1>2, <1>3
<1>4. CASE q.op = "stage" /\ u.op = "stage"
  <2>1. q \in StageRequest /\ u \in StageRequest
    BY <1>1, <1>4, RequestKinds
  <2>2. Sealed(q.mutation, q.id, q.envelope) /\ Sealed(q.mutation, q.id, u.envelope)
    BY <1>4 DEF Sealed
  <2>3. q.envelope = u.envelope
    BY <1>2, <1>4, <2>1, <2>2 DEF CoreInv, SealedOnce, StageRequest
  <2> QED
    BY <1>2, <1>4, <2>1, <2>3 DEF StageRequest
<1>5. CASE q.op = "bundle" /\ u.op = "bundle"
  <2>1. q \in BundleRequest /\ u \in BundleRequest /\ WellFormed(q) /\ WellFormed(u)
    BY <1>1, <1>5, RequestKinds, RequestsAssumption
  <2>2. HeadSent(q) \in Heads /\ HeadSent(u) \in Heads
    BY <1>5 DEF Heads
  <2>3. HeadSent(q) = HeadSent(u)
    BY <2>2 DEF CoreInv, HeadsAgree, HeadSent
  <2>4. q.base = u.base /\ q.envelope = u.envelope /\ BundleIds(q) = BundleIds(u)
    BY <2>3 DEF HeadSent
  <2>5. ASSUME NEW v \in {q, u}, NEW w \in {q, u}, NEW x \in v.attachments
        PROVE  x \in w.attachments
    <3>1. x.id \in BundleIds(w)
      BY <2>4 DEF BundleIds
    <3>2. PICK y \in w.attachments : y.id = x.id
      BY <3>1 DEF BundleIds
    <3>3. /\ x = [id |-> x.id, envelope |-> x.envelope] /\ x.id \in Attachments
          /\ y = [id |-> x.id, envelope |-> y.envelope]
      BY <2>1, <3>2 DEF BundleRequest, Manifest
    <3>4. x.envelope \in Seals /\ y.envelope \in Seals
      BY <1>2, <1>5
    <3>5. Sealed(q.mutation, x.id, x.envelope) /\ Sealed(q.mutation, x.id, y.envelope)
      <4>1. ASSUME NEW z, NEW e, z \in {q, u}, [id |-> x.id, envelope |-> e] \in z.attachments
            PROVE  Sealed(q.mutation, x.id, e)
        BY <1>5, <4>1 DEF Sealed
      <4> QED
        BY <3>3, <4>1
    <3>6. x.envelope = y.envelope
      BY <1>2, <3>3, <3>4, <3>5 DEF CoreInv, SealedOnce
    <3> QED
      BY <3>3, <3>6
  <2>6. q.attachments = u.attachments
    BY <2>5
  <2> QED
    BY <1>2, <1>5, <2>1, <2>4, <2>6 DEF BundleRequest
<1>6. ASSUME NEW v \in {q, u}, NEW w \in {q, u}, v.op = "stage", w.op = "bundle"
      PROVE  FALSE
  <2>1. v.id \in Attachments /\ w.id = Key
    BY <1>1, <1>2, <1>6, RequestKinds DEF StageRequest
  <2> QED
    BY <2>1, CompoundAssumption, KeysAssumption
<1> QED
  BY <1>1, <1>3, <1>4, <1>5, <1>6, RequestKinds

CompoundInv == CompoundTypeOK /\ AnswerInv /\ CoreInv

\* A step from a state of the invariant has all that the lemmas ask of it.
LEMMA CompoundInvStep ==
  ASSUME CompoundInv, [CompoundNext]_allVars
  PROVE  CoreNext /\ CompoundInv'
<1>1. [Next]_vars
  BY RelayStep DEF CompoundInv
<1>2. AnswerInv'
  BY <1>1, TypeStep, SettledStep, ReceiptsAnswerStep DEF CompoundInv, AnswerInv
<1>3. JobsAgree
  BY HeadsGiveJobs DEF CompoundInv, CoreInv
<1>4. CompoundTypeOK' /\ CoreStep
  BY <1>2, <1>3, CompoundTypeStep, CoreSteps DEF CompoundInv, AnswerInv, TypeInv
<1>5. CoreNext
  BY <1>4 DEF CoreNext, CompoundInv
<1> QED
  BY <1>2, <1>4, <1>5, CoreInvStep DEF CompoundInv

LEMMA CompoundInvariance == CompoundSpec => []CompoundInv
<1>1. CompoundInit => CompoundInv
  <2>1. Init => AnswerInv
    BY TypeInit DEF Init, AnswerInv, Settled, ReceiptsAnswer
  <2> QED
    BY <2>1, CompoundTypeInit, CoreInit DEF CompoundInit, CompoundInv
<1>2. CompoundInv /\ [CompoundNext]_allVars => CompoundInv'
  BY CompoundInvStep
<1> QED
  BY <1>1, <1>2, PTL DEF CompoundSpec

\* The root, the payloads, the row, the intent and every tab keep their form, and
\* a tab has what the code at its place reads (sync.ts:1121).
THEOREM CompoundTypesHold == CompoundSpec => []CompoundTypeOK
<1>1. CompoundInv => CompoundTypeOK
  BY DEF CompoundInv
<1> QED
  BY <1>1, CompoundInvariance, PTL

\* A mutation that is sent again is sent as it was, the envelope of a stage and
\* the final payload alike, however many tabs work on it, whatever was lost and
\* whichever credential sends it (sync.ts:1179).
THEOREM ResendsAreExact == CompoundSpec => []ResentExactly
<1>1. CompoundInv => ResentExactly
  BY ResentFollows DEF CompoundInv
<1> QED
  BY <1>1, CompoundInvariance, PTL

-----------------------------------------------------------------------------
(* What a tab hears *)

SameRow(p, q) ==
  /\ q.row = p.row /\ q.intent = p.intent /\ q.sources = p.sources
  /\ q.cred = p.cred /\ q.handoff = p.handoff /\ q.then = p.then
  /\ q.recovers = p.recovers
SameWork(p, q) == SameRow(p, q) /\ q.job = p.job /\ q.todo = p.todo

Hears(p, q) ==
  \/ p.at = "stageWait" /\ q.at \in {"staged", "stageRefused"} /\ SameWork(p, q)
  \/ /\ p.at = "finalWait" /\ q.at \in {"told", "finalRefused"} /\ SameWork(p, q)
     /\ FinalRequest(p.job) \in resolved'
  \/ p.at = "plainWait" /\ q.at = "copy" /\ SameRow(p, q)
  \/ /\ p.at = "plainWait" /\ q.at = "settle" /\ SameRow(p, q)
     /\ \E x \in answered' : x.request = p.job
  \/ q = Caught(p)

LEMMA SameFacts ==
  ASSUME NEW p \in TabState, NEW w, NEW n, NEW b
  PROVE  /\ SameWork(p, [p EXCEPT !.at = w]) /\ [p EXCEPT !.at = w].at = w
         /\ SameWork(p, [p EXCEPT !.at = w, !.rev = n])
         /\ [p EXCEPT !.at = w, !.rev = n].at = w
         /\ SameWork(p, [p EXCEPT !.at = w, !.kept = b])
         /\ [p EXCEPT !.at = w, !.kept = b].at = w
         /\ SameRow(p, Conflicted(p)) /\ Conflicted(p).at = "copy"
BY DEF TabState, SameWork, SameRow, Conflicted

LEMMA ServeHears ==
  ASSUME CompoundTypeOK, AnswerInv', NEW s \in sent, Serve(s[1], s[2]),
         NEW u \in Tabs, tab'[u] # tab[u]
  PROVE  Hears(tab[u], tab'[u])
<1> DEFINE c == s[1]
           q == s[2]
           p == tab[u]
<1>1. PICK T \in SUBSET Waiting(c, q) :
        \/ StageAnswer(c, q, T) \/ CommitAnswer(c, q, T)
        \/ RefusalAnswer(c, q, T) \/ Unauthorized(c, q, T)
  BY DEF Serve
<1>2. ASSUME NEW to, Hear(T, to)
      PROVE  u \in T /\ tab'[u] = to[u]
  BY <1>2 DEF Hear
<1>3. ASSUME u \in T
      PROVE  /\ Good(p) /\ p \in TabState
             /\ p.at \in {"stageWait", "finalWait", "plainWait"}
             /\ p.at = "stageWait" => q.op = "stage"
             /\ p.at = "finalWait" => q.op = "bundle" /\ q = FinalRequest(p.job)
             /\ p.at = "plainWait" => q.op = "put" /\ q = p.job
  BY <1>3, WaitingFacts DEF Waiting, RequestOf
<1>4. ASSUME Resolved(q, T), u \in T PROVE q \in resolved'
  BY <1>4 DEF Resolved
<1> HIDE DEF c, q, p
<1>5. CASE StageAnswer(c, q, T)
  <2> DEFINE to == [t \in T |-> [tab[t] EXCEPT !.at = "staged"]]
  <2>1. q.op = "stage" /\ Hear(T, to)
    BY <1>5 DEF StageAnswer, StageAdd, StageRenew
  <2>2. u \in T /\ tab'[u] = to[u]
    BY <1>2, <2>1
  <2>3. tab'[u] = [p EXCEPT !.at = "staged"] /\ p.at = "stageWait" /\ p \in TabState
    BY <1>3, <2>1, <2>2 DEF p
  <2>4. SameWork(p, tab'[u]) /\ tab'[u].at = "staged"
    BY <2>3 DEF TabState, SameWork, SameRow
  <2> QED
    BY <2>3, <2>4 DEF Hears, p
<1>6. CASE CommitAnswer(c, q, T)
  <2>1. PICK r \in receipts' :
          /\ r.request = q
          /\ Hear(T, [t \in T |->
               [tab[t] EXCEPT !.at = IF @ = "finalWait" THEN "told" ELSE "settle",
                              !.rev = r.rev]])
    BY <1>6 DEF CommitAnswer
  <2> DEFINE to == [t \in T |->
               [tab[t] EXCEPT !.at = IF @ = "finalWait" THEN "told" ELSE "settle",
                              !.rev = r.rev]]
             n == r.rev
  <2>2. u \in T /\ tab'[u] = to[u]
    BY <1>2, <2>1
  <2>3. [request |-> q, rev |-> n] \in answered' /\ q.op # "stage"
    <3>1. [request |-> q, rev |-> n] \in answered'
      BY <2>1 DEF AnswerInv, ReceiptsAnswer
    <3> QED
      BY <3>1 DEF AnswerInv, Settled
  <2>4. tab'[u] = [p EXCEPT !.at = IF p.at = "finalWait" THEN "told" ELSE "settle",
                            !.rev = n]
    BY <2>2 DEF p
  <2> HIDE DEF n, to
  <2>5. p \in TabState /\ p.at \in {"finalWait", "plainWait"}
    BY <1>3, <2>2, <2>3
  <2>6. CASE p.at = "finalWait"
    <3>1. tab'[u] = [p EXCEPT !.at = "told", !.rev = n]
      BY <2>4, <2>6
    <3>2. FinalRequest(p.job) \in resolved'
      BY <1>3, <1>4, <1>6, <2>2, <2>6 DEF CommitAnswer
    <3>3. SameWork(p, tab'[u]) /\ tab'[u].at = "told"
      BY <2>5, <3>1 DEF TabState, SameWork, SameRow
    <3> QED
      BY <2>6, <3>2, <3>3 DEF Hears, p
  <2>7. CASE p.at = "plainWait"
    <3>1. tab'[u] = [p EXCEPT !.at = "settle", !.rev = n]
      BY <2>4, <2>7
    <3>2. \E x \in answered' : x.request = p.job
      BY <1>3, <2>2, <2>3, <2>7
    <3>3. SameWork(p, tab'[u]) /\ tab'[u].at = "settle"
      BY <2>5, <3>1 DEF TabState, SameWork, SameRow
    <3> QED
      BY <2>7, <3>2, <3>3 DEF Hears, SameWork, p
  <2> QED
    BY <2>5, <2>6, <2>7
<1>7. CASE RefusalAnswer(c, q, T)
  <2>1. Resolved(q, T)
    BY <1>7 DEF RefusalAnswer
  <2>2. CASE BundleDiscard(c, q)
              /\ Hear(T, [t \in T |-> [tab[t] EXCEPT !.at = "finalRefused", !.kept = TRUE]])
    <3> DEFINE to == [t \in T |-> [tab[t] EXCEPT !.at = "finalRefused", !.kept = TRUE]]
    <3>1. q.op = "bundle" /\ Hear(T, to)
      BY <2>2 DEF BundleDiscard
    <3>2. u \in T /\ tab'[u] = to[u]
      BY <1>2, <3>1
    <3>3. /\ tab'[u] = [p EXCEPT !.at = "finalRefused", !.kept = TRUE]
          /\ p.at = "finalWait" /\ p \in TabState /\ FinalRequest(p.job) \in resolved'
      BY <1>3, <1>4, <2>1, <3>1, <3>2 DEF p
    <3>4. SameWork(p, tab'[u]) /\ tab'[u].at = "finalRefused"
      BY <3>3 DEF TabState, SameWork, SameRow
    <3> QED
      BY <3>3, <3>4 DEF Hears, p
  <2>3. CASE Hear(T, [t \in T |->
             IF tab[t].at = "plainWait" THEN Conflicted(tab[t])
             ELSE [tab[t] EXCEPT !.at = IF @ = "stageWait" THEN "stageRefused"
                                        ELSE "finalRefused",
                                 !.kept = RefusalKeeps(q)]])
    <3> DEFINE b == RefusalKeeps(q)
               to == [t \in T |->
                        IF tab[t].at = "plainWait" THEN Conflicted(tab[t])
                        ELSE [tab[t] EXCEPT !.at = IF @ = "stageWait" THEN "stageRefused"
                                                   ELSE "finalRefused",
                                            !.kept = b]]
    <3>1. Hear(T, to)
      BY <2>3
    <3>2. u \in T /\ tab'[u] = to[u]
      BY <1>2, <3>1
    <3> HIDE DEF b
    <3>3. CASE p.at = "plainWait"
      BY <1>3, <3>2, <3>3, SameFacts DEF Hears, p
    <3>4. CASE p.at = "stageWait"
      <4>1. tab'[u] = [p EXCEPT !.at = "stageRefused", !.kept = b]
        BY <3>2, <3>4 DEF p
      <4>2. SameWork(p, tab'[u]) /\ tab'[u].at = "stageRefused"
        BY <1>3, <3>2, <4>1 DEF TabState, SameWork, SameRow
      <4> QED
        BY <3>4, <4>2 DEF Hears, p
    <3>5. CASE p.at = "finalWait"
      <4>1. tab'[u] = [p EXCEPT !.at = "finalRefused", !.kept = b]
        BY <3>2, <3>5 DEF p
      <4>2. SameWork(p, tab'[u]) /\ tab'[u].at = "finalRefused"
        BY <1>3, <3>2, <4>1 DEF TabState, SameWork, SameRow
      <4>3. FinalRequest(p.job) \in resolved'
        BY <1>3, <1>4, <2>1, <3>2, <3>5
      <4> QED
        BY <3>5, <4>2, <4>3 DEF Hears, p
    <3> QED
      BY <1>3, <3>2, <3>3, <3>4, <3>5
  <2> QED
    BY <1>7, <2>2, <2>3 DEF RefusalAnswer
<1>8. CASE Unauthorized(c, q, T)
  <2>1. u \in T /\ tab'[u] = Caught(tab[u])
    <3> DEFINE to == [t \in T |-> Caught(tab[t])]
    <3>1. Hear(T, to)
      BY <1>8 DEF Unauthorized
    <3> QED
      BY <1>2, <3>1
  <2> QED
    BY <2>1 DEF Hears, p
<1> QED
  BY <1>1, <1>5, <1>6, <1>7, <1>8 DEF c, q

-----------------------------------------------------------------------------
(* One tab at work *)

\* A device on which only tab t is at work: the others are open and idle.
OthersRest(t) == \A u \in Tabs \ {t} : tab'[u] = tab[u]
AloneSpec(t) == CompoundInit /\ [][CompoundNext /\ OthersRest(t)]_allVars

\* The bundle in the hands of the one tab is the stored one, the hashes it has yet
\* to send on are those of the root, and a stage it works on keeps the root from
\* being final.
InHand(p) ==
  /\ p.at = "install" => root = Null
  /\ p.at \in BundleAts \ {"install"} =>
       root # Null /\ root.mutation = p.job.mutation /\ root.rev = 0
  /\ p.at \in StageAts \cup {"stageRefused"} =>
       \A b \in p.todo : \/ root.hashes[b] = p.job.hashes[b]
                         \/ p.at = "unseal" /\ b = Min(p.todo)
  /\ p.at \in {"seal", "stageSend", "stageWait", "staged", "stageRefused"} => ~root.final
  /\ p.at \in FinalAts => root = p.job /\ root.final
  /\ p.at \in {"told", "commit", "finalRefused"} => FinalRequest(p.job) \in resolved

CommittedTold == root # Null /\ root.rev > 0 => FinalRequest(root) \in resolved

AloneInv(t) ==
  /\ \A u \in Tabs \ {t} : tab[u].at = "idle"
  /\ InHand(tab[t]) /\ CommittedTold /\ FinalizingRemains

\* An idle tab does not step and stay as it is.
LEMMA IdleMoves ==
  ASSUME CompoundTypeOK, NEW u \in Tabs, tab[u].at = "idle", TabStep(u)
  PROVE  tab'[u] # tab[u]
<1> USE DEF At
<1>1. tab[u].cred \in Owners /\ session \in Owners
  BY TabTyped DEF TabState, CompoundTypeOK, StoreTypes
<1>2. ASSUME NEW to, Become(u, to) PROVE tab'[u] = to
  BY <1>2 DEF Become, CompoundTypeOK
<1>3. CASE StartPass(u)
  <2>1. tab'[u] = [Idle(tab[u].cred) EXCEPT !.at = "committed", !.recovers = TRUE]
    BY <1>2, <1>3 DEF StartPass
  <2>2. tab'[u].at = "committed"
    BY <2>1 DEF Idle
  <2> QED
    BY <2>2
<1>4. CASE Push(u)
  <2>1. tab'[u] = [Idle(tab[u].cred) EXCEPT !.at = "remove", !.row = outbox]
    BY <1>2, <1>4 DEF Push
  <2>2. tab'[u].at = "remove"
    BY <2>1 DEF Idle
  <2> QED
    BY <2>2
<1>5. CASE Reload(u)
  <2>1. tab'[u] = Idle(session) /\ tab[u].cred # session
    BY <1>2, <1>5 DEF Reload
  <2> QED
    BY <1>1, <2>1, IdleTyped
<1>6. ~Recovering(u) \/ StartPass(u)
  BY DEF Recovering, Committed, Listed, Intents, Resume, Stale, Cancel, Drop
<1>7. ~Pushing(u) \/ Push(u)
  BY DEF Pushing, Remove, Await, Begins, Enter, Install, Plain
<1>8. ~SendingOn(u)
  BY DEF SendingOn, NextStage, Seal, Sends, Staged, Unseal, Finalize, Remember, Commit, Timeout
<1>9. ~Ending(u) /\ ~Close(u)
  BY DEF Ending, Discard, Abandon, DropOwn, Restore, Preserve, Reject, SettleRow, Finishes,
         Clear, Mark, Complete, Close
<1> QED
  BY <1>3, <1>4, <1>5, <1>6, <1>7, <1>8, <1>9 DEF TabStep

LEMMA AloneSteps ==
  ASSUME CompoundTypeOK, NEW t \in Tabs, \A u \in Tabs \ {t} : tab[u].at = "idle",
         OthersRest(t), [CompoundNext]_allVars
  PROVE  \/ TabStep(t)
         \/ \E s \in sent : Serve(s[1], s[2])
         \/ Around
         \/ UNCHANGED allVars
BY Steps, IdleMoves DEF OthersRest

\* Where a tab begins to send a root, or has no bundle in its hands.
Starts(q) ==
  \/ q.at \notin BundleAts
  \/ q.at = "stage" /\ root' \in Bundles /\ q.job = root' /\ root'.rev = 0

LEMMA StartsInHand ==
  ASSUME NEW q, Starts(q)
  PROVE  InHand(q)'
BY BundleFacts DEF Starts, InHand, BundleAts, StageAts, SealAts, FinalAts

LEMMA SendingStarts ==
  ASSUME NEW p, Good(p), NEW r \in Bundles, r = root'
  PROVE  /\ Starts(Sending(p, r))
         /\ Starts([Sending(p, r) EXCEPT !.handoff = TRUE])
         /\ \A b, w : /\ Starts([Sending(p, r) EXCEPT !.handoff = TRUE, !.then = w])
                      /\ Starts([Sending(p, r) EXCEPT !.then = w, !.retried = b])
<1>1. p \in TabState /\ r.rev \in Nat
  BY BundleFacts DEF Good
<1>2. CASE r.rev > 0
  <2> DEFINE v == Sending(p, r)
  <2>1. Sending(p, r) = [p EXCEPT !.at = "finish", !.job = HandleOf(r)]
    BY <1>2 DEF Sending
  <2>2. "finish" \notin BundleAts
    BY DEF BundleAts, StageAts, SealAts, FinalAts
  <2>3. \A b, w : /\ [p EXCEPT !.at = "finish", !.job = HandleOf(r)].at = "finish"
                  /\ [[p EXCEPT !.at = "finish", !.job = HandleOf(r)] EXCEPT !.handoff = TRUE].at = "finish"
                  /\ [[p EXCEPT !.at = "finish", !.job = HandleOf(r)]
                        EXCEPT !.handoff = TRUE, !.then = w].at = "finish"
                  /\ [[p EXCEPT !.at = "finish", !.job = HandleOf(r)]
                        EXCEPT !.then = w, !.retried = b].at = "finish"
    BY <1>1 DEF TabState
  <2> QED
    BY <2>1, <2>2, <2>3 DEF Starts
<1>3. CASE ~(r.rev > 0)
  <2>1. Sending(p, r) = [p EXCEPT !.at = "stage", !.job = r, !.todo = r.ids]
    BY <1>3 DEF Sending
  <2> DEFINE v == [p EXCEPT !.at = "stage", !.job = r, !.todo = r.ids]
  <2>2. \A b, w : /\ v.at = "stage" /\ v.job = r
                  /\ [v EXCEPT !.handoff = TRUE].at = "stage"
                  /\ [v EXCEPT !.handoff = TRUE].job = r
                  /\ [v EXCEPT !.handoff = TRUE, !.then = w].at = "stage"
                  /\ [v EXCEPT !.handoff = TRUE, !.then = w].job = r
                  /\ [v EXCEPT !.then = w, !.retried = b].at = "stage"
                  /\ [v EXCEPT !.then = w, !.retried = b].job = r
    BY <1>1 DEF TabState
  <2>3. r.rev = 0
    BY <1>1, <1>3
  <2> HIDE DEF v
  <2>4. Sending(p, r) = v
    BY <2>1 DEF v
  <2> QED
    BY <2>2, <2>3, <2>4 DEF Starts
<1> QED
  BY <1>2, <1>3

LEMMA IdleStarts ==
  ASSUME NEW c \in Owners
  PROVE  Starts(Idle(c))
BY IdleTyped DEF Starts, BundleAts, StageAts, SealAts, FinalAts

LEMMA CaughtStarts ==
  ASSUME NEW p, Good(p)
  PROVE  Starts(Caught(p))
<1>1. Caught(p).at \in {"cancel", "idle"}
  BY CaughtTyped
<1> QED
  BY <1>1 DEF Starts, BundleAts, StageAts, SealAts, FinalAts

LEMMA CommittingStarts ==
  ASSUME NEW p, Good(p), NEW r \in Bundles, r = root'
  PROVE  Starts(Committing(p, r))
<1>1. p.cred \in Owners
  BY DEF Good, TabState
<1> QED
  BY <1>1, SendingStarts, IdleStarts DEF Committing

\* Most steps leave the tab without a bundle, or at the start of one.
LEMMA StartingMoves ==
  ASSUME CompoundTypeOK, CompoundTypeOK', NEW t \in Tabs, TabStep(t)
  PROVE  \/ Starts(tab'[t])
         \/ NextStage(t) \/ Seal(t) \/ Sends(t) \/ Staged(t) \/ Unseal(t) \/ Finalize(t)
         \/ Remember(t)
         \/ Enter(t) /\ root = Null /\ tab'[t].at = "install"
<1> DEFINE p == tab[t]
<1>1. /\ Good(p) /\ p \in TabState /\ p.cred \in Owners /\ session \in Owners
      /\ p.then \in {"idle", "listed", "pending", "begin"}
  BY TabTyped DEF TabState, CompoundTypeOK, StoreTypes
<1>2. /\ \A to : Become(t, to) => tab'[t] = to
      /\ \A w : Go(t, w) => tab'[t] = [p EXCEPT !.at = w]
  BY DEF Become, Go, CompoundTypeOK
<1>3. root' \in Bundles \cup {Null} /\ root \in Bundles \cup {Null}
  BY DEF CompoundTypeOK, StoreTypes
<1>4. Starts(Idle(p.cred)) /\ Starts(Idle(session)) /\ Starts(Caught(p))
  BY <1>1, IdleStarts, CaughtStarts
<1>5. ASSUME NEW q, q.at \in HandleAts \cup (RowAts \ {"install"})
                  \cup {"idle", "committed", "listed", "intents", "resume", "stale", "cancel",
                        "drop", "pending"}
      PROVE  Starts(q)
  BY <1>5 DEF Starts, BundleAts, StageAts, SealAts, FinalAts, HandleAts, RowAts
<1>6. ASSUME GiveUp(t) PROVE tab'[t] = Idle(p.cred)
  BY <1>2, <1>6 DEF GiveUp
<1> HIDE DEF p
<1>7. CASE Recovering(t) /\ ~Resume(t)
  <2>1. CASE StartPass(t)
    <3>1. tab'[t] = [Idle(p.cred) EXCEPT !.at = "committed", !.recovers = TRUE]
      BY <1>2, <2>1 DEF StartPass, p
    <3>2. tab'[t].at = "committed"
      BY <3>1 DEF Idle
    <3> QED
      BY <1>5, <3>2
  <2>2. CASE Committed(t)
    <3>1. tab'[t] = IF index = Null THEN [p EXCEPT !.at = "listed"]
                    ELSE [p EXCEPT !.at = "finish", !.job = index, !.then = "listed"]
      BY <1>2, <2>2 DEF Committed, p
    <3>2. tab'[t].at \in {"listed", "finish"}
      BY <1>1, <3>1 DEF TabState
    <3> QED
      BY <1>5, <3>2 DEF HandleAts
  <2>3. CASE Listed(t)
    <3>1. tab'[t] = [p EXCEPT !.at = "intents", !.cur = outbox]
      BY <1>2, <2>3 DEF Listed, p
    <3>2. tab'[t].at = "intents"
      BY <1>1, <3>1 DEF TabState
    <3> QED
      BY <1>5, <3>2
  <2>4. CASE Intents(t)
    <3>1. tab'[t] = IF intent = Null THEN [p EXCEPT !.at = "pending"]
               ELSE [p EXCEPT
                      !.at = IF intent.phase = "reconciled" THEN "drop" ELSE "resume",
                      !.intent = intent, !.sources = intent.uploads \cap waiting,
                      !.then = "pending"]
      BY <1>2, <2>4 DEF Intents, p
    <3>2. tab'[t].at \in {"pending", "drop", "resume"}
      BY <1>1, <3>1 DEF TabState
    <3> QED
      BY <1>5, <3>2
  <2>5. CASE Stale(t)
    <3>1. PICK w \in {"pending", "drop"} : tab'[t] = [p EXCEPT !.at = w]
      BY <1>2, <2>5 DEF Stale, p
    <3>2. tab'[t].at \in {"pending", "drop"}
      BY <1>1, <3>1 DEF TabState
    <3> QED
      BY <1>5, <3>2
  <2>6. CASE Cancel(t)
    <3>1. \/ tab'[t] = [p EXCEPT !.at = "drop", !.then = "pending"]
          \/ tab'[t] = Idle(p.cred)
      BY <1>2, <1>6, <2>6 DEF Cancel, p
    <3>2. tab'[t].at = "drop" \/ tab'[t] = Idle(p.cred)
      BY <1>1, <3>1 DEF TabState
    <3> QED
      BY <1>4, <1>5, <3>2
  <2>7. CASE Drop(t)
    <3>1. \/ tab'[t] = Idle(p.cred)
          \/ p.then # "idle" /\ tab'[t] = [p EXCEPT !.at = p.then]
      BY <1>2, <1>6, <2>7 DEF Drop, p
    <3>2. tab'[t].at \in {"listed", "pending", "begin"} \/ tab'[t] = Idle(p.cred)
      BY <1>1, <3>1 DEF TabState
    <3> QED
      BY <1>4, <1>5, <3>2 DEF RowAts
  <2> QED
    BY <1>7, <2>1, <2>2, <2>3, <2>4, <2>5, <2>6, <2>7 DEF Recovering
<1>8. CASE Resume(t)
  <2>1. /\ root' = root
        /\ tab'[t] = IF root = Null
                   THEN [p EXCEPT !.at = "stale"]
                   ELSE IF ~(p.sources \subseteq root.ids) THEN Caught(p)
                   ELSE IF root.rev > 0 \/ root.owner = p.cred THEN Sending(p, root)
                   ELSE IF p.cur = Null THEN Idle(p.cred)
                   ELSE [Sending(p, root) EXCEPT !.handoff = TRUE]
    BY <1>2, <1>8 DEF Resume, device, p
  <2>2. CASE root = Null
    <3>1. tab'[t].at = "stale"
      BY <1>1, <2>1, <2>2 DEF TabState
    <3> QED
      BY <1>5, <3>1
  <2>3. CASE root # Null
    <3>1. root \in Bundles
      BY <1>3, <2>3
    <3>2. /\ Starts(Sending(p, root))
          /\ Starts([Sending(p, root) EXCEPT !.handoff = TRUE])
      BY <1>1, <2>1, <3>1, SendingStarts
    <3> QED
      BY <1>4, <2>1, <2>3, <3>2
  <2> QED
    BY <2>2, <2>3
<1>9. CASE Pushing(t)
  <2>1. CASE Push(t)
    <3>1. \/ tab'[t] = Idle(p.cred)
          \/ tab'[t] = [Idle(p.cred) EXCEPT !.at = "remove", !.row = outbox]
      BY <1>2, <1>6, <2>1 DEF Push, p
    <3>2. tab'[t].at = "remove" \/ tab'[t] = Idle(p.cred)
      BY <3>1 DEF Idle
    <3> QED
      BY <1>4, <1>5, <3>2 DEF RowAts
  <2>2. CASE Remove(t)
    <3>1. \E w \in {"plain", "await"} : \E S : tab'[t] = [p EXCEPT !.at = w, !.sources = S]
      BY <1>2, <2>2 DEF Remove, p
    <3>2. tab'[t].at \in {"plain", "await"}
      BY <1>1, <3>1 DEF TabState
    <3> QED
      BY <1>5, <3>2 DEF RowAts
  <2>3. CASE Await(t)
    <3>1. \/ tab'[t] = [p EXCEPT !.at = "finish", !.job = index, !.then = "begin"]
          \/ tab'[t] = [p EXCEPT !.at = "drop", !.intent = intent, !.then = "begin"]
          \/ tab'[t] = [p EXCEPT !.at = "begin"]
      BY <1>2, <2>3 DEF Await, p
    <3>2. tab'[t].at \in {"finish", "drop", "begin"}
      BY <1>1, <3>1 DEF TabState
    <3> QED
      BY <1>5, <3>2 DEF RowAts, HandleAts
  <2>4. CASE Begins(t)
    <3>1. tab'[t] = [p EXCEPT !.at = "enter"]
      BY <1>2, <2>4 DEF Begins, p
    <3>2. tab'[t].at = "enter"
      BY <1>1, <3>1 DEF TabState
    <3> QED
      BY <1>5, <3>2 DEF RowAts
  <2>5. CASE Enter(t)
    <3>1. /\ root' = root
          /\ \/ root # Null /\ tab'[t] = Committing(p, root)
             \/ root = Null /\ tab'[t] = [p EXCEPT !.at = "install", !.job = Candidate(p)]
             \/ tab'[t] = Idle(p.cred)
      BY <1>2, <1>6, <2>5 DEF Enter, device, p
    <3>2. [p EXCEPT !.at = "install", !.job = Candidate(p)].at = "install"
      BY <1>1 DEF TabState
    <3> QED
      BY <1>1, <1>3, <1>4, <2>5, <3>1, <3>2, CommittingStarts
  <2>6. CASE Install(t)
    <3>1. tab'[t] = Committing(p, root') /\ root' # Null
      <4>1. tab'[t] = Committing(p, root') /\ (root' = p.job \/ (root' = root /\ root # Null))
        BY <1>2, <2>6 DEF Install, p
      <4>2. p.job \in Bundles
        BY <1>1, <2>6 DEF Install, At, p, Good, TabComplete, BundleAts
      <4> QED
        BY <4>1, <4>2, BundleFacts
    <3> QED
      BY <1>1, <1>3, <3>1, CommittingStarts
  <2>7. CASE Plain(t)
    <3>1. \/ tab'[t] = Idle(p.cred)
          \/ \E q : tab'[t] = [p EXCEPT !.at = "plainWait", !.job = q]
      BY <1>2, <1>6, <2>7 DEF Plain, p
    <3>2. tab'[t].at = "plainWait" \/ tab'[t] = Idle(p.cred)
      BY <1>1, <3>1 DEF TabState
    <3> QED
      BY <1>4, <1>5, <3>2 DEF RowAts
  <2> QED
    BY <1>9, <2>1, <2>2, <2>3, <2>4, <2>5, <2>6, <2>7 DEF Pushing
<1>10. CASE Commit(t)
  <2>1. \/ tab'[t] = Caught(p)
        \/ root # Null /\ root' = [root EXCEPT !.rev = p.rev] /\ tab'[t] = Sending(p, root')
    BY <1>2, <1>10 DEF Commit, Same, p
  <2>2. ASSUME root # Null, root' = [root EXCEPT !.rev = p.rev] PROVE root' \in Bundles
    <3>1. p.rev \in Nat /\ root \in Bundles
      BY <1>1, <1>3, <2>2 DEF TabState
    <3> QED
      BY <2>2, <3>1, BundleSteps
  <2>3. ASSUME NEW r, r = root', root # Null, root' = [root EXCEPT !.rev = p.rev]
        PROVE  Starts(Sending(p, r))
    <3>1. r \in Bundles
      BY <2>2, <2>3
    <3> QED
      BY <1>1, <2>3, <3>1, SendingStarts
  <2> QED
    BY <1>4, <2>1, <2>3
<1>11. CASE Timeout(t) \/ Close(t) \/ Reload(t)
  BY <1>2, <1>4, <1>11 DEF Timeout, Close, Reload, p
<1>12. CASE Ending(t)
  <2>1. Starts(Conflicted(p))
    BY <1>1, <1>5, SameFacts DEF RowAts
  <2>2. CASE Discard(t)
    <3>1. tab'[t] \in {Caught(p), Conflicted(p), Idle(p.cred)}
      BY <1>2, <2>2 DEF Discard, p
    <3> QED
      BY <1>4, <2>1, <3>1
  <2>3. CASE Abandon(t)
    <3>1. \/ tab'[t] \in {Conflicted(p), Idle(p.cred)}
          \/ \E w \in {"pending", "drop"} : tab'[t] = [p EXCEPT !.at = w, !.then = "pending"]
      BY <1>2, <2>3 DEF Abandon, p
    <3>2. tab'[t] \in {Conflicted(p), Idle(p.cred)} \/ tab'[t].at \in {"pending", "drop"}
      BY <1>1, <3>1 DEF TabState
    <3> QED
      BY <1>4, <1>5, <2>1, <3>2
  <2>4. CASE DropOwn(t) \/ Restore(t) \/ Preserve(t) \/ Reject(t) \/ Clear(t) \/ Complete(t)
    <3>1. \E w \in {"restore", "preserve", "reject", "settle", "mark", "drop"} :
            tab'[t] = [p EXCEPT !.at = w]
      BY <1>2, <2>4 DEF DropOwn, Restore, Preserve, Reject, Clear, Complete
    <3>2. tab'[t].at \in {"restore", "preserve", "reject", "settle", "mark", "drop"}
      BY <1>1, <3>1 DEF TabState
    <3> QED
      BY <1>5, <3>2 DEF RowAts, HandleAts
  <2>5. CASE SettleRow(t)
    BY <1>4, <1>6, <2>5 DEF SettleRow
  <2>6. CASE Finishes(t)
    <3>1. \/ tab'[t] = Idle(p.cred)
          \/ \E w \in {"complete", "clear"} :
               tab'[t] = [p EXCEPT !.at = w, !.intent = intent]
      BY <1>2, <1>6, <2>6 DEF Finishes, p
    <3>2. tab'[t] = Idle(p.cred) \/ tab'[t].at \in {"complete", "clear"}
      BY <1>1, <3>1 DEF TabState
    <3> QED
      BY <1>4, <1>5, <3>2 DEF HandleAts
  <2>7. CASE Mark(t)
    <3>1. tab'[t] = Idle(p.cred) \/ tab'[t] = [p EXCEPT !.at = "complete"]
      BY <1>2, <1>6, <2>7 DEF Mark, p
    <3>2. tab'[t] = Idle(p.cred) \/ tab'[t].at = "complete"
      BY <1>1, <3>1 DEF TabState
    <3> QED
      BY <1>4, <1>5, <3>2 DEF HandleAts
  <2> QED
    BY <1>12, <2>2, <2>3, <2>4, <2>5, <2>6, <2>7 DEF Ending
<1> QED
  BY <1>7, <1>8, <1>9, <1>10, <1>11, <1>12 DEF TabStep, SendingOn

LEMMA MovedFacts ==
  ASSUME NEW p \in TabState, NEW w, NEW S, NEW e, NEW j
  PROVE  /\ LET q == [p EXCEPT !.at = w] IN q.at = w /\ q.job = p.job /\ q.todo = p.todo
         /\ LET q == [p EXCEPT !.todo = S] IN q.at = p.at /\ q.job = p.job /\ q.todo = S
         /\ LET q == [p EXCEPT !.at = w, !.envelope = e]
            IN  q.at = w /\ q.job = p.job /\ q.todo = p.todo
         /\ LET q == [p EXCEPT !.at = w, !.todo = S]
            IN  q.at = w /\ q.job = p.job /\ q.todo = S
         /\ LET q == [p EXCEPT !.at = w, !.job = j]
            IN  q.at = w /\ q.job = j /\ q.todo = p.todo
BY DEF TabState

\* A stage still to be done keeps the root from being final.
LEMMA UndoneStage ==
  ASSUME CompoundTypeOK, CoreInv, NEW t \in Tabs, InHand(tab[t]), tab[t].at = "stage",
         tab[t].todo # {}, tab[t].job.hashes[Min(tab[t].todo)] = Null
  PROVE  ~root.final
<1> DEFINE p == tab[t]
           a == Min(p.todo)
<1>1. /\ Good(p) /\ Carries(t) /\ p.todo \subseteq p.job.ids /\ p.todo \in SUBSET Nat
  BY TabTyped, KeysAssumption
     DEF TabComplete, TabState, Carries, BundleAts, StageAts
<1>2. a \in p.todo
  BY <1>1, NatMin
<1>3. root # Null /\ Same(root, p.job) /\ root.hashes[a] = p.job.hashes[a]
  BY <1>2 DEF InHand, BundleAts, StageAts, Same
<1>4. JobsAgree
  BY HeadsGiveJobs DEF CoreInv
<1>5. SameHead(p.job, root)
  BY <1>1, <1>3, <1>4 DEF JobsAgree, Carries
<1>6. a \in root.ids /\ root.hashes[a] = Null
  BY <1>1, <1>2, <1>3, <1>5 DEF SameHead
<1> QED
  BY <1>3, <1>6 DEF CoreInv, FullFinal, Full

\* The steps of a tab that keeps a bundle in its hands.
LEMMA HandMoves ==
  ASSUME CompoundTypeOK, CompoundTypeOK', CoreInv, NEW t \in Tabs, InHand(tab[t]),
         \/ NextStage(t) \/ Seal(t) \/ Sends(t) \/ Staged(t) \/ Unseal(t) \/ Finalize(t)
         \/ Remember(t)
  PROVE  \A q : q = tab'[t] => InHand(q)'
<1> DEFINE p == tab[t]
           a == Min(p.todo)
<1>1. /\ Good(p) /\ p \in TabState /\ root \in Bundles \cup {Null} /\ p.todo \in SUBSET Nat
      /\ p.todo # {} => a \in p.todo
  <2>1. p.todo \in SUBSET Nat
    BY TabTyped, KeysAssumption DEF TabState
  <2> QED
    BY <2>1, TabTyped, NatMin DEF TabState, CompoundTypeOK, StoreTypes
<1>2. /\ \A to : Become(t, to) => tab'[t] = to
      /\ \A w : Go(t, w) => tab'[t] = [p EXCEPT !.at = w]
  BY DEF Become, Go, CompoundTypeOK
<1>3. ASSUME NEW q, q = Caught(p) PROVE InHand(q)'
  BY <1>1, <1>3, CaughtStarts, StartsInHand
<1>4. p.at \in BundleAts => root # Null /\ root.mutation = p.job.mutation /\ root.rev = 0
  <2>1. ~Enter(t) /\ ~Install(t) /\ p.at # "install"
    BY DEF NextStage, Seal, Sends, Staged, Unseal, Finalize, Remember, Enter, Install, At
  <2> QED
    BY <2>1 DEF InHand
<1>5. InHand(p)
  OBVIOUS
<1>6. /\ Min(p.todo) = a
      /\ p.at = "stage" /\ p.todo # {} /\ p.job.hashes[a] = Null => ~root.final
  BY UndoneStage
<1> HIDE DEF p, a
<1> USE DEF BundleAts, StageAts, SealAts, FinalAts
<1>7. CASE NextStage(t)
  <2>1. p.at = "stage" /\ p.todo # {} /\ root' = root
    BY <1>7 DEF NextStage, At, p
  <2>2. \/ tab'[t] = Caught(p)
        \/ \E S \in SUBSET p.todo : tab'[t] = [p EXCEPT !.todo = S]
        \/ p.job.hashes[a] = Null /\ \E e : tab'[t] = [p EXCEPT !.at = "stageSend", !.envelope = e]
        \/ p.job.hashes[a] = Null /\ tab'[t] = [p EXCEPT !.at = "seal"]
    <3>1. CASE p.job.hashes[a] # Null
      <4>1. tab'[t] = [p EXCEPT !.todo = p.todo \ {a}]
        BY <1>2, <1>7, <3>1 DEF NextStage, p, a
      <4> QED
        BY <4>1
    <3>2. CASE p.job.hashes[a] = Null /\ Payload(p.job, a) # {}
      <4>1. \E x \in Payload(p.job, a) :
              tab'[t] = [p EXCEPT !.at = "stageSend", !.envelope = x[3]]
        BY <1>2, <1>7, <3>2 DEF NextStage, p, a
      <4> QED
        BY <3>2, <4>1
    <3>3. CASE p.job.hashes[a] = Null /\ Payload(p.job, a) = {}
      <4>1. tab'[t] = [p EXCEPT !.at = "seal"] \/ tab'[t] = Caught(p)
        BY <1>2, <1>7, <3>3 DEF NextStage, p, a
      <4> QED
        BY <3>3, <4>1
    <3> QED
      BY <3>1, <3>2, <3>3
  <2>3. ASSUME NEW S \in SUBSET p.todo, NEW q, q = [p EXCEPT !.todo = S]
        PROVE  InHand(q)'
    <3>1. q.at = "stage" /\ q.job = p.job /\ q.todo = S
      BY <1>1, <2>1, <2>3, MovedFacts
    <3> QED
      BY <1>4, <1>5, <2>1, <3>1 DEF InHand
  <2>4. ASSUME NEW e, NEW q, p.job.hashes[a] = Null,
               \/ q = [p EXCEPT !.at = "stageSend", !.envelope = e]
               \/ q = [p EXCEPT !.at = "seal"]
        PROVE  InHand(q)'
    <3>1. q.at \in {"stageSend", "seal"} /\ q.job = p.job /\ q.todo = p.todo
      <4>1. CASE q = [p EXCEPT !.at = "seal"]
        BY <1>1, <4>1, MovedFacts
      <4>2. CASE q = [p EXCEPT !.at = "stageSend", !.envelope = e]
        BY <1>1, <4>2, MovedFacts
      <4> QED
        BY <2>4, <4>1, <4>2
    <3>2. ~root.final
      BY <1>6, <2>1, <2>4
    <3> QED
      BY <1>4, <1>5, <2>1, <3>1, <3>2 DEF InHand
  <2> QED
    BY <1>3, <2>2, <2>3, <2>4
<1>8. CASE Seal(t)
  <2>1. p.at = "seal" /\ root' = root
    BY <1>8 DEF Seal, At, p
  <2>2. \/ tab'[t] = Caught(p)
        \/ \E e : tab'[t] = [p EXCEPT !.at = "stageSend", !.envelope = e]
    BY <1>2, <1>8 DEF Seal, p
  <2>3. ASSUME NEW e, NEW q, q = [p EXCEPT !.at = "stageSend", !.envelope = e]
        PROVE  InHand(q)'
    <3>1. q.at = "stageSend" /\ q.job = p.job /\ q.todo = p.todo
      BY <1>1, <2>3, MovedFacts
    <3> QED
      BY <1>4, <1>5, <2>1, <3>1 DEF InHand
  <2> QED
    BY <1>3, <2>2, <2>3
<1>9. CASE Sends(t)
  <2>1. p.at \in {"stageSend", "finalSend"} /\ root' = root
    BY <1>9 DEF Sends, device, p
  <2>2. \/ tab'[t] = Caught(p)
        \/ p.at = "stageSend" /\ tab'[t] = [p EXCEPT !.at = "stageWait"]
        \/ p.at = "finalSend" /\ tab'[t] = [p EXCEPT !.at = "finalWait"]
    BY <1>2, <1>9, <2>1 DEF Sends, p
  <2>3. ASSUME NEW q, \/ p.at = "stageSend" /\ q = [p EXCEPT !.at = "stageWait"]
                      \/ p.at = "finalSend" /\ q = [p EXCEPT !.at = "finalWait"]
        PROVE  InHand(q)'
    <3>1. /\ \/ p.at = "stageSend" /\ q.at = "stageWait"
             \/ p.at = "finalSend" /\ q.at = "finalWait"
          /\ q.job = p.job /\ q.todo = p.todo
      <4>1. CASE p.at = "stageSend" /\ q = [p EXCEPT !.at = "stageWait"]
        BY <1>1, <4>1, MovedFacts
      <4>2. CASE p.at = "finalSend" /\ q = [p EXCEPT !.at = "finalWait"]
        BY <1>1, <4>2, MovedFacts
      <4> QED
        BY <2>3, <4>1, <4>2
    <3> QED
      BY <1>4, <1>5, <2>1, <3>1 DEF InHand
  <2> QED
    BY <1>3, <2>2, <2>3
<1>10. CASE Staged(t)
  <2>1. p.at = "staged"
    BY <1>10 DEF Staged, At, p
  <2>2. \/ tab'[t] = Caught(p)
        \/ /\ root' = [root EXCEPT !.hashes[a] = p.envelope]
           /\ tab'[t] = [p EXCEPT !.at = "unseal"]
    BY <1>2, <1>10 DEF Staged, p, a
  <2>3. ASSUME NEW q, q = [p EXCEPT !.at = "unseal"],
               root' = [root EXCEPT !.hashes[a] = p.envelope]
        PROVE  InHand(q)'
    <3>1. q.at = "unseal" /\ q.job = p.job /\ q.todo = p.todo
      BY <1>1, <2>3, MovedFacts
    <3>2. root \in Bundles /\ root # Null
      BY <1>1, <1>4, <2>1
    <3>3. /\ root' # Null /\ root'.mutation = root.mutation /\ root'.rev = root.rev
          /\ \A b \in root.ids : b # a => root'.hashes[b] = root.hashes[b]
      <4>1. /\ root'.mutation = root.mutation /\ root'.rev = root.rev
            /\ root'.hashes = [root.hashes EXCEPT ![a] = p.envelope]
        BY <2>3, <3>2 DEF Bundles
      <4>2. root' # Null
        <5>1. root' \in Bundles \cup {Null} /\ DOMAIN root' = DOMAIN root
          BY <2>3 DEF CompoundTypeOK, StoreTypes
        <5>2. p.envelope \in Seals /\ a \in root.ids /\ JobsAgree
          <6>1. Same(root, p.job) /\ JobsAgree
            BY <1>4, <2>1, HeadsGiveJobs DEF CoreInv, Same
          <6>2. SameHead(p.job, root)
            BY <2>1, <6>1 DEF JobsAgree, p
          <6> QED
            BY <1>1, <2>1, <6>1, <6>2, StageOf DEF SameHead, Good, TabComplete, a
        <5> QED
          BY <2>3, <3>2, <5>2, BundleSteps, BundleFacts
      <4> QED
        BY <3>2, <4>1, <4>2, BundleFacts
    <3>4. \A b \in p.todo : b \in root.ids
      <4>1. Same(root, p.job) /\ JobsAgree
        BY <1>4, <2>1, HeadsGiveJobs DEF CoreInv, Same
      <4>2. SameHead(p.job, root)
        BY <2>1, <4>1 DEF JobsAgree, p
      <4> QED
        BY <1>1, <2>1, <4>2 DEF SameHead, Good, TabComplete
    <3> QED
      BY <1>4, <1>5, <1>6, <2>1, <3>1, <3>3, <3>4 DEF InHand
  <2> QED
    BY <1>3, <2>2, <2>3
<1>11. CASE Unseal(t)
  <2>1. p.at = "unseal" /\ root' = root
    BY <1>11 DEF Unseal, At, p
  <2>2. \/ tab'[t] = Caught(p)
        \/ root # Null /\ tab'[t] = Sending(p, root)
        \/ tab'[t] = [p EXCEPT !.at = "stage", !.todo = p.todo \ {a}]
    BY <1>2, <1>11 DEF Unseal, p, a
  <2>3. ASSUME NEW q, q = [p EXCEPT !.at = "stage", !.todo = p.todo \ {a}]
        PROVE  InHand(q)'
    <3>1. q.at = "stage" /\ q.job = p.job /\ q.todo = p.todo \ {a}
      BY <1>1, <2>3, MovedFacts
    <3> QED
      BY <1>4, <1>5, <1>6, <2>1, <3>1 DEF InHand
  <2>4. ASSUME NEW q, root # Null, q = Sending(p, root) PROVE InHand(q)'
    <3>1. root \in Bundles
      BY <1>1, <2>4
    <3> QED
      BY <1>1, <2>1, <2>4, <3>1, SendingStarts, StartsInHand
  <2> QED
    BY <1>3, <2>2, <2>3, <2>4
<1>12. CASE Finalize(t)
  <2>1. p.at = "stage"
    BY <1>12 DEF Finalize, At, p
  <2>2. root # Null /\ root \in Bundles /\ root.rev = 0 /\ root.mutation = p.job.mutation
    BY <1>1, <1>4, <2>1
  <2>3. \/ tab'[t] = Caught(p)
        \/ /\ root' = [root EXCEPT !.final = root.final \/ root.rev = 0]
           /\ tab'[t] = [p EXCEPT !.at = "finalSend", !.job = root']
    <3>1. ~(root.rev > 0)
      BY <2>2
    <3> QED
      BY <1>2, <1>12, <3>1 DEF Finalize, p
  <2>4. ASSUME NEW q, q = [p EXCEPT !.at = "finalSend", !.job = root'],
               root' = [root EXCEPT !.final = root.final \/ root.rev = 0]
        PROVE  InHand(q)'
    <3>1. q.at = "finalSend" /\ q.job = root' /\ q.todo = p.todo
      BY <1>1, <2>4, MovedFacts
    <3> DEFINE b == root.final \/ root.rev = 0
    <3>2. b = TRUE
      BY <2>2
    <3>3. root' = [root EXCEPT !.final = b]
      BY <2>4
    <3> HIDE DEF b
    <3>4. root' = [root EXCEPT !.final = TRUE]
      BY <3>2, <3>3
    <3>5. /\ root' \in Bundles /\ root'.final = TRUE /\ root'.mutation = root.mutation
          /\ root'.rev = root.rev
      BY <2>2, <3>4, BundleSteps
    <3>6. root' # Null
      BY <3>5, BundleFacts
    <3> QED
      BY <2>2, <3>1, <3>5, <3>6 DEF InHand
  <2> QED
    BY <1>3, <2>3, <2>4
<1>13. CASE Remember(t)
  <2>1. p.at = "told" /\ root' = root /\ resolved' = resolved
    BY <1>13 DEF Remember, At, p
  <2>2. tab'[t] = [p EXCEPT !.at = "commit"]
    BY <1>2, <1>13 DEF Remember, p
  <2>3. ASSUME NEW q, q = [p EXCEPT !.at = "commit"] PROVE InHand(q)'
    <3>1. q.at = "commit" /\ q.job = p.job /\ q.todo = p.todo
      BY <1>1, <2>3, MovedFacts
    <3>2. FinalRequest(q.job)' = FinalRequest(p.job)
      BY <3>1 DEF FinalRequest
    <3> QED
      BY <1>4, <1>5, <2>1, <3>1, <3>2 DEF InHand
  <2> QED
    BY <2>2, <2>3
<1> QED
  BY <1>7, <1>8, <1>9, <1>10, <1>11, <1>12, <1>13

\* Only an answer settles a request, and nothing unsettles one.
LEMMA ResolvedGrows ==
  /\ \A t \in Tabs : TabStep(t) => resolved' = resolved
  /\ \A s \in sent : Serve(s[1], s[2]) => resolved \subseteq resolved'
<1>1. ASSUME NEW t \in Tabs, TabStep(t) PROVE resolved' = resolved
  <2>1. CASE Recovering(t)
    BY <2>1 DEF Recovering, StartPass, Committed, Listed, Intents, Resume, Stale, Cancel, Drop,
                device
  <2>2. CASE Pushing(t)
    BY <2>2 DEF Pushing, Push, Remove, Await, Begins, Enter, Install, Plain, device
  <2>3. CASE SendingOn(t)
    BY <2>3 DEF SendingOn, NextStage, Seal, Sends, Staged, Unseal, Finalize, Remember, Commit,
                Timeout, device
  <2>4. CASE Ending(t)
    BY <2>4 DEF Ending, Discard, Abandon, DropOwn, Restore, Preserve, Reject, SettleRow,
                Finishes, Clear, Mark, Complete
  <2>5. CASE Close(t) \/ Reload(t)
    BY <2>5 DEF Close, Reload, device
  <2> QED
    BY <1>1, <2>1, <2>2, <2>3, <2>4, <2>5 DEF TabStep
<1>2. ASSUME NEW s \in sent, Serve(s[1], s[2]) PROVE resolved \subseteq resolved'
  <2>1. PICK T \in SUBSET Waiting(s[1], s[2]) :
          \/ StageAnswer(s[1], s[2], T) \/ CommitAnswer(s[1], s[2], T)
          \/ RefusalAnswer(s[1], s[2], T) \/ Unauthorized(s[1], s[2], T)
    BY <1>2 DEF Serve
  <2> QED
    BY <2>1 DEF StageAnswer, CommitAnswer, RefusalAnswer, Unauthorized, Resolved
<1> QED
  BY <1>1, <1>2

\* What the tab has in its hands stays what it is while the root does.
LEMMA HandStays ==
  ASSUME NEW p, InHand(p), root' = root, resolved \subseteq resolved'
  PROVE  InHand(p)'
<1>1. FinalRequest(p.job)' = FinalRequest(p.job)
  BY DEF FinalRequest
<1> QED
  BY <1>1 DEF InHand

LEMMA HandStep ==
  ASSUME CompoundInv, CompoundTypeOK', AnswerInv', NEW t \in Tabs, AloneInv(t), OthersRest(t),
         [CompoundNext]_allVars
  PROVE  \A q : q = tab'[t] => InHand(q)'
<1> DEFINE p == tab[t]
<1>1. CompoundTypeOK /\ CoreInv /\ InHand(p) /\ p \in TabState
  BY TabTyped DEF CompoundInv, AloneInv
<1>2. CASE TabStep(t)
  <2>1. CASE Enter(t) /\ root = Null /\ tab'[t].at = "install"
    <3>1. root' = Null
      BY <2>1 DEF Enter, device
    <3> QED
      BY <2>1, <3>1 DEF InHand, BundleAts, StageAts, SealAts, FinalAts
  <2>2. CASE Starts(tab'[t])
    BY <2>2, StartsInHand
  <2> QED
    BY <1>1, <1>2, <2>1, <2>2, StartingMoves, HandMoves
<1>3. CASE \E s \in sent : Serve(s[1], s[2])
  <2>1. PICK s \in sent : Serve(s[1], s[2])
    BY <1>3
  <2>2. root' = root /\ resolved \subseteq resolved'
    BY <1>1, <2>1, ServeFollows, ResolvedGrows DEF CompoundInv
  <2>3. ASSUME NEW q, q = tab'[t] PROVE InHand(q)'
    <3>1. CASE q = p
      BY <1>1, <2>2, <3>1, HandStays
    <3>2. CASE Hears(p, q)
      <4>1. FinalRequest(q.job)' = FinalRequest(q.job)
        BY DEF FinalRequest
      <4>2. CASE /\ p.at = "stageWait" /\ q.at \in {"staged", "stageRefused"}
                 /\ q.job = p.job /\ q.todo = p.todo
        BY <1>1, <2>2, <4>2 DEF InHand, BundleAts, StageAts, SealAts, FinalAts
      <4>3. CASE /\ p.at = "finalWait" /\ q.at \in {"told", "finalRefused"}
                 /\ q.job = p.job /\ q.todo = p.todo /\ FinalRequest(p.job) \in resolved'
        BY <1>1, <2>2, <4>1, <4>3 DEF InHand, BundleAts, StageAts, SealAts, FinalAts
      <4>4. CASE q.at \in {"copy", "settle"} \/ q = Caught(p)
        <5>1. Good(p)
          BY <1>1, TabTyped
        <5>2. Starts(q)
          BY <4>4, <5>1, CaughtStarts DEF Starts, BundleAts, StageAts, SealAts, FinalAts
        <5> QED
          BY <5>2, StartsInHand
      <4> QED
        BY <3>2, <4>2, <4>3, <4>4 DEF Hears, SameWork
    <3> QED
      BY <1>1, <2>1, <2>3, <3>1, <3>2, ServeHears
  <2> QED
    BY <2>3
<1>4. CASE Around \/ UNCHANGED allVars
  <2>1. root' = root /\ resolved' = resolved /\ tab' = tab
    BY <1>4 DEF Around, allVars, compoundVars, Edit, Recredential, Disown, Pull, Elsewhere,
                Expire, device
  <2> QED
    BY <1>1, <2>1, HandStays
<1> QED
  BY <1>1, <1>2, <1>3, <1>4, AloneSteps DEF AloneInv

\* A bundle that was sent is the final payload of the stored one.
LEMMA AskedIsFinal ==
  ASSUME CompoundTypeOK, CoreInv, root # Null, root.final, NEW q \in Asked, q.op = "bundle",
         q.mutation = root.mutation
  PROVE  q = FinalRequest(root)
<1> DEFINE m == root.mutation
           f == FinalRequest(root)
<1>1. root \in Bundles /\ root \in Held /\ m \in Drawable /\ Full(root)
  BY HeldFacts, BundleFacts DEF CompoundTypeOK, StoreTypes, CoreInv, FullFinal
<1>2. /\ q \in BundleRequest /\ WellFormed(q) /\ q.id = Key
      /\ \A x \in q.attachments : x.envelope \in Seals
  <2>1. q \in Requests
    BY DEF Asked, CompoundTypeOK, StoreTypes
  <2> QED
    BY <2>1, RequestKinds, RequestsAssumption DEF CoreInv, AskedKinds
<1>3. HeadSent(q) = HeadOf(root)
  <2>1. HeadSent(q) \in Heads /\ HeadOf(root) \in Heads
    BY <1>1 DEF Heads
  <2>2. HeadSent(q)[1] = HeadOf(root)[1]
    BY DEF HeadSent, HeadOf
  <2> QED
    BY <2>1, <2>2 DEF CoreInv, HeadsAgree
<1>4. q.base = root.base /\ q.envelope = root.draft /\ BundleIds(q) = root.ids
  BY <1>3 DEF HeadSent, HeadOf
<1>5. ASSUME NEW x \in q.attachments
      PROVE  /\ x = [id |-> x.id, envelope |-> x.envelope]
             /\ x.id \in root.ids /\ x.envelope = root.hashes[x.id]
  <2>1. x = [id |-> x.id, envelope |-> x.envelope] /\ x.id \in Attachments
    BY <1>2 DEF BundleRequest, Manifest
  <2>2. x.id \in root.ids
    BY <1>4 DEF BundleIds
  <2>3. root.hashes[x.id] \in Seals /\ root.hashes[x.id] # Null
    BY <1>1, <2>2, BundleFacts DEF Full
  <2>4. Sealed(m, x.id, x.envelope)
    <3>1. ASSUME NEW e, NEW a, [id |-> a, envelope |-> e] \in q.attachments
          PROVE  Sealed(m, a, e)
      BY <3>1 DEF Sealed
    <3> QED
      BY <2>1, <3>1
  <2>5. Sealed(m, x.id, root.hashes[x.id])
    BY <1>1, <2>2, <2>3 DEF Sealed
  <2>6. x.envelope = root.hashes[x.id]
    BY <1>1, <1>2, <2>1, <2>3, <2>4, <2>5 DEF CoreInv, SealedOnce
  <2> QED
    BY <2>1, <2>2, <2>6
<1>6. ASSUME NEW x PROVE x \in q.attachments <=> x \in f.attachments
  <2>1. ASSUME x \in q.attachments PROVE x \in f.attachments
    <3>1. [id |-> x.id, envelope |-> x.envelope] \in f.attachments
      BY <1>1, <1>5, <2>1, FinalFacts
    <3> QED
      BY <1>5, <2>1, <3>1
  <2>2. ASSUME x \in f.attachments PROVE x \in q.attachments
    <3>1. f.attachments = {[id |-> a, envelope |-> root.hashes[a]] : a \in root.ids}
      BY DEF FinalRequest
    <3>2. PICK a \in root.ids : x = [id |-> a, envelope |-> root.hashes[a]]
      BY <2>2, <3>1
    <3>3. PICK y \in q.attachments : y.id = a
      BY <1>4 DEF BundleIds
    <3> QED
      BY <1>5, <3>2, <3>3
  <2> QED
    BY <2>1, <2>2
<1>7. q.attachments = f.attachments
  <2>1. q.attachments \in SUBSET Manifest
    BY <1>2 DEF BundleRequest
  <2> QED
    BY <1>6
<1>8. q = [op |-> "bundle", mutation |-> m, id |-> Key, base |-> q.base,
           envelope |-> q.envelope, attachments |-> q.attachments]
  BY <1>2 DEF BundleRequest
<1>9. f.attachments = {[id |-> a, envelope |-> root.hashes[a]] : a \in root.ids}
  BY DEF FinalRequest
<1> QED
  BY <1>4, <1>7, <1>8, <1>9 DEF FinalRequest

\* What takes the stored bundle away.
LEMMA Removers ==
  ASSUME CompoundTypeOK, JobsAgree, NEW t \in Tabs, TabStep(t), root # Null, root' = Null
  PROVE  root.rev > 0 \/ ~root.final \/ tab[t].at \in {"stageRefused", "finalRefused"}
<1> USE DEF At
<1>1. CASE Recovering(t)
  BY <1>1 DEF Recovering, StartPass, Committed, Listed, Intents, Resume, Stale, Cancel, Drop,
              device
<1>2. CASE Pushing(t)
  BY <1>2 DEF Pushing, Push, Remove, Await, Begins, Enter, Install, Plain, device
<1>3. CASE SendingOn(t)
  <2>1. ~(Staged(t) \/ Finalize(t) \/ Commit(t))
    BY GrownRoot, BundleFacts DEF Grown
  <2> QED
    BY <1>3, <2>1 DEF SendingOn, NextStage, Seal, Sends, Unseal, Remember, Timeout, device
<1>4. CASE Ending(t)
  BY <1>4 DEF Ending, Discard, Abandon, DropOwn, Restore, Preserve, Reject, SettleRow, Finishes,
              Clear, Mark, Complete
<1>5. CASE Close(t) \/ Reload(t)
  BY <1>5 DEF Close, Reload, device
<1> QED
  BY <1>1, <1>2, <1>3, <1>4, <1>5 DEF TabStep

\* A bundle that may be finalizing stays so, with its mutation, while it is stored.
LEMMA FinalStays ==
  ASSUME CompoundTypeOK, JobsAgree, NEW t \in Tabs, TabStep(t), root # Null, root.final,
         root' # Null
  PROVE  root'.mutation = root.mutation /\ root'.final
<1>1. root \in Bundles
  BY DEF CompoundTypeOK, StoreTypes
<1>2. CASE root' # root /\ Staged(t)
  <2>1. PICK a \in root.ids : \E e \in Seals : root' = [root EXCEPT !.hashes[a] = e]
    BY <1>2, RootMoves
  <2> QED
    BY <1>1, <2>1, BundleSteps
<1>3. CASE root' # root /\ Finalize(t)
  <2>1. root' = [root EXCEPT !.final = TRUE]
    BY <1>3, RootMoves
  <2> QED
    BY <1>1, <2>1, BundleSteps
<1>4. CASE root' # root /\ Commit(t)
  <2>1. PICK n \in Nat : root' = [root EXCEPT !.rev = n]
    BY <1>4, RootMoves
  <2> QED
    BY <1>1, <2>1, BundleSteps
<1> QED
  BY <1>2, <1>3, <1>4, RootSteps

LEMMA CommittedToldStep ==
  ASSUME CompoundInv, CompoundTypeOK', AnswerInv', NEW t \in Tabs, AloneInv(t), OthersRest(t),
         [CompoundNext]_allVars
  PROVE  CommittedTold'
<1> DEFINE p == tab[t]
<1>1. /\ CompoundTypeOK /\ CoreInv /\ JobsAgree /\ InHand(p) /\ CommittedTold
      /\ root \in Bundles \cup {Null}
  BY HeadsGiveJobs DEF CompoundInv, AloneInv, CoreInv, CompoundTypeOK, StoreTypes
<1>2. FinalRequest(root)' = FinalRequest(root')
  BY DEF FinalRequest
<1>3. ASSUME root' = root, resolved \subseteq resolved' PROVE CommittedTold'
  BY <1>1, <1>2, <1>3 DEF CommittedTold
<1>4. CASE TabStep(t)
  <2>1. resolved' = resolved
    BY <1>4, ResolvedGrows
  <2>2. CASE root' = Null
    BY <2>2 DEF CommittedTold
  <2>3. CASE root = Null /\ p.at = "install" /\ root' = p.job
    BY <1>1, <2>3 DEF CoreInv, FreshInstall, CommittedTold
  <2>4. CASE root' # root /\ (Staged(t) \/ Finalize(t))
    <3>1. /\ root \in Bundles /\ Same(root, p.job)
          /\ \/ \E a \in root.ids, e \in Seals : root' = [root EXCEPT !.hashes[a] = e]
             \/ root' = [root EXCEPT !.final = TRUE]
          /\ p.at \in {"staged", "stage"}
      BY <1>1, <2>4, RootMoves DEF Finalize, At
    <3>2. root'.rev = root.rev
      <4>1. CASE \E a \in root.ids, e \in Seals : root' = [root EXCEPT !.hashes[a] = e]
        BY <3>1, <4>1, BundleSteps
      <4>2. CASE root' = [root EXCEPT !.final = TRUE]
        BY <3>1, <4>2, BundleSteps
      <4> QED
        BY <3>1, <4>1, <4>2
    <3>3. root.rev = 0
      BY <1>1, <3>1 DEF InHand, BundleAts, StageAts, SealAts
    <3> QED
      BY <3>2, <3>3 DEF CommittedTold
  <2>5. CASE root' # root /\ Commit(t)
    <3>1. /\ root \in Bundles /\ p.at = "commit" /\ p.rev \in Nat
          /\ root' = [root EXCEPT !.rev = p.rev]
      BY <1>1, <2>5, RootMoves
    <3>2. root = p.job /\ FinalRequest(p.job) \in resolved
      BY <1>1, <3>1 DEF InHand, FinalAts
    <3> HIDE DEF p
    <3>3. /\ root'.mutation = root.mutation /\ root'.base = root.base /\ root'.ids = root.ids
          /\ root'.draft = root.draft /\ root'.hashes = root.hashes
      BY <3>1, BundleSteps
    <3>4. FinalRequest(root') = FinalRequest(root)
      BY <3>3 DEF FinalRequest
    <3> QED
      BY <1>2, <2>1, <3>2, <3>4 DEF CommittedTold
  <2> QED
    BY <1>3, <1>4, <2>1, <2>2, <2>3, <2>4, <2>5, RootSteps
<1>5. CASE \E s \in sent : Serve(s[1], s[2])
  BY <1>1, <1>3, <1>5, ServeFollows, ResolvedGrows DEF CompoundInv
<1>6. CASE Around \/ UNCHANGED allVars
  <2>1. root' = root /\ resolved' = resolved
    BY <1>6 DEF Around, allVars, compoundVars, Edit, Recredential, Disown, Pull, Elsewhere,
                Expire, device
  <2> QED
    BY <1>3, <2>1
<1> QED
  BY <1>1, <1>4, <1>5, <1>6, AloneSteps DEF AloneInv

LEMMA RemainsStep ==
  ASSUME CompoundInv, CompoundTypeOK', AnswerInv', NEW t \in Tabs, AloneInv(t), OthersRest(t),
         [CompoundNext]_allVars
  PROVE  FinalizingRemains'
<1> DEFINE p == tab[t]
           Stored(r, q) == r # Null /\ r.mutation = q.mutation /\ r.final
<1>1. /\ CompoundTypeOK /\ CoreInv /\ JobsAgree /\ InHand(p) /\ CommittedTold /\ Good(p)
      /\ FinalizingRemains /\ root \in Bundles \cup {Null}
  BY HeadsGiveJobs, TabTyped DEF CompoundInv, AloneInv, CoreInv, CompoundTypeOK, StoreTypes
<1>2. \A s \in sent : s[2].op = "bundle" => s[2] \in resolved \/ Stored(root, s[2])
  BY <1>1 DEF FinalizingRemains
<1>3. ASSUME \A s \in sent' : s[2].op = "bundle" => s[2] \in resolved' \/ Stored(root', s[2])
      PROVE  FinalizingRemains'
  BY <1>3 DEF FinalizingRemains
<1>4. ASSUME root' = root, resolved \subseteq resolved', sent' = sent PROVE FinalizingRemains'
  BY <1>2, <1>3, <1>4
<1>5. CASE TabStep(t)
  <2>1. resolved' = resolved
    BY <1>5, ResolvedGrows
  <2>2. ASSUME NEW s \in sent, s[2].op = "bundle", s[2] \notin resolved
        PROVE  Stored(root', s[2])
    <3>1. Stored(root, s[2]) /\ s[2] = FinalRequest(root)
      BY <1>1, <1>2, <2>2, AskedIsFinal DEF Asked
    <3>2. root' # Null
      <4> SUFFICES ASSUME root' = Null PROVE FALSE
        OBVIOUS
      <4>1. ~(root.rev > 0)
        BY <1>1, <2>2, <3>1 DEF CommittedTold
      <4>2. p.at \notin {"stageRefused", "finalRefused"}
        BY <1>1, <2>2, <3>1 DEF InHand, FinalAts
      <4> QED
        BY <1>1, <1>5, <3>1, <4>1, <4>2, Removers
    <3> QED
      BY <1>1, <1>5, <3>1, <3>2, FinalStays
  <2>3. ASSUME NEW s \in sent', s \notin sent, s[2].op = "bundle"
        PROVE  Stored(root', s[2])
    <3>1. CASE SendsOwn(t)
      <4>1. /\ s[2] = RequestOf(p) /\ root' = root /\ p.at \in {"stageSend", "finalSend"}
        BY <2>3, <3>1 DEF SendsOwn
      <4>2. p.at # "stageSend"
        BY <2>3, <4>1, StageFacts DEF RequestOf
      <4>3. s[2] = FinalRequest(p.job) /\ root = p.job /\ root.final /\ root # Null
        BY <1>1, <4>1, <4>2 DEF RequestOf, InHand, FinalAts, BundleAts
      <4> QED
        BY <4>1, <4>3 DEF FinalRequest
    <3>2. CASE SendsPut(t)
      BY <2>3, <3>2 DEF SendsPut, PlainRequest
    <3> QED
      BY <1>5, <2>3, <3>1, <3>2, SentSteps
  <2> QED
    BY <1>3, <2>1, <2>2, <2>3
<1>6. CASE \E s \in sent : Serve(s[1], s[2])
  BY <1>1, <1>4, <1>6, ServeFollows, ResolvedGrows DEF CompoundInv
<1>7. CASE Around \/ UNCHANGED allVars
  <2>1. root' = root /\ resolved' = resolved /\ sent' = sent
    BY <1>7 DEF Around, allVars, compoundVars, Edit, Recredential, Disown, Pull, Elsewhere,
                Expire, device
  <2> QED
    BY <1>4, <2>1
<1> QED
  BY <1>1, <1>5, <1>6, <1>7, AloneSteps DEF AloneInv

LEMMA AloneInvStep ==
  ASSUME CompoundInv, NEW t \in Tabs, AloneInv(t), [CompoundNext /\ OthersRest(t)]_allVars
  PROVE  AloneInv(t)'
<1>1. [CompoundNext]_allVars
  OBVIOUS
<1>2. OthersRest(t)
  BY DEF OthersRest, allVars, compoundVars
<1>3. CompoundTypeOK' /\ AnswerInv'
  BY <1>1, CompoundInvStep DEF CompoundInv
<1>4. \A u \in Tabs \ {t} : tab'[u].at = "idle"
  BY <1>2 DEF OthersRest, AloneInv
<1>5. \A q : q = tab'[t] => InHand(q)'
  BY <1>1, <1>2, <1>3, HandStep
<1>6. InHand(tab[t])'
  BY <1>5 DEF InHand
<1> QED
  BY <1>1, <1>2, <1>3, <1>4, <1>6, CommittedToldStep, RemainsStep DEF AloneInv

LEMMA AloneInvInit ==
  ASSUME CompoundInit, NEW t \in Tabs
  PROVE  AloneInv(t)
<1>1. \A u \in Tabs : tab[u].at = "idle"
  BY DEF CompoundInit, Idle
<1> QED
  BY <1>1 DEF CompoundInit, AloneInv, InHand, CommittedTold, FinalizingRemains, BundleAts,
              StageAts, SealAts, FinalAts

\* On a device where one tab is at work, a bundle the relay may be finalizing stays
\* stored until the tab was told what became of it: neither a lost answer, nor a
\* page closed at any point, nor a change of credentials lets go of it
\* (sync.ts:1380).
THEOREM FinalizingIsKept ==
  ASSUME NEW t \in Tabs
  PROVE  AloneSpec(t) => []FinalizingRemains
<1>1. AloneSpec(t) => []CompoundInv
  <2>1. [CompoundNext /\ OthersRest(t)]_allVars => [CompoundNext]_allVars
    OBVIOUS
  <2>2. AloneSpec(t) => CompoundSpec
    BY <2>1, PTL DEF AloneSpec, CompoundSpec
  <2> QED
    BY <2>2, CompoundInvariance, PTL
<1>2. CompoundInit => AloneInv(t)
  BY AloneInvInit
<1>3. CompoundInv /\ AloneInv(t) /\ [CompoundNext /\ OthersRest(t)]_allVars => AloneInv(t)'
  BY AloneInvStep
<1>4. AloneInv(t) => FinalizingRemains
  BY DEF AloneInv
<1> QED
  BY <1>1, <1>2, <1>3, <1>4, PTL DEF AloneSpec

-----------------------------------------------------------------------------
(* What is confirmed is stored *)

AllStored(S) == \A a \in S : Exists(a)

\* The bundle of a draft is at the relay with its attachments.
Published(j) == AllStored(j.ids) /\ \E x \in answered : x.request.envelope = j.draft

\* A handle, a root with its receipt and what a tab was told of are published.
HandlesStored ==
  /\ AllStored(confirmed)
  /\ index # Null => Published(index)
  /\ root # Null /\ root.rev > 0 => Published(root)
  /\ \A u \in Tabs : tab[u].at \in HandleAts \cup {"told", "commit"} =>
       Published(tab[u].job)
  /\ \A u \in Tabs : tab[u].at \in {"told", "commit"} => tab[u].rev > 0

\* What a step of a tab does to the handle and to what is confirmed.
LEMMA HandleMoves ==
  ASSUME CompoundTypeOK, NEW t \in Tabs, TabStep(t)
  PROVE  /\ index' = index \/ index' = Null \/ (Commit(t) /\ index' = HandleOf(root'))
         /\ confirmed' \subseteq confirmed
              \cup (IF tab[t].at = "finish" THEN tab[t].job.ids ELSE {})
<1>1. CASE Finishes(t)
  <2> DEFINE p == tab[t]
             done == {a \in intent.uploads :
                        \A b \in intent.uploads : b <= a => b \in p.job.ids}
  <2>1. ASSUME intent # Null PROVE done \subseteq p.job.ids
    <3>1. intent.uploads \subseteq Nat
      BY <2>1, KeysAssumption DEF CompoundTypeOK, StoreTypes, UploadIntents
    <3> QED
      BY <3>1
  <2>2. /\ index' = index /\ p.at = "finish"
        /\ confirmed' = confirmed \/ (intent # Null /\ confirmed' = confirmed \cup done)
    BY <1>1 DEF Finishes, At
  <2> QED
    BY <2>1, <2>2
<1>2. CASE Recovering(t)
  BY <1>2 DEF Recovering, StartPass, Committed, Listed, Intents, Resume, Stale, Cancel, Drop,
              device
<1>3. CASE Pushing(t)
  BY <1>3 DEF Pushing, Push, Remove, Await, Begins, Enter, Install, Plain, device
<1>4. CASE SendingOn(t)
  BY <1>4 DEF SendingOn, NextStage, Seal, Sends, Staged, Unseal, Finalize, Remember, Commit,
              Timeout, device
<1>5. CASE Ending(t) /\ ~Finishes(t)
  BY <1>5 DEF Ending, Discard, Abandon, DropOwn, Restore, Preserve, Reject, SettleRow, Clear,
              Mark, Complete
<1>6. CASE Close(t) \/ Reload(t)
  BY <1>6 DEF Close, Reload, device
<1> QED
  BY <1>1, <1>2, <1>3, <1>4, <1>5, <1>6 DEF TabStep

\* A record that is there stays there, if only as a tombstone.
LEMMA StoredStays ==
  ASSUME TypeInv, [Next]_vars, NEW S \in SUBSET Attachments, AllStored(S)
  PROVE  AllStored(S)'
<1>1. ASSUME NEW a \in S PROVE records'[a].rev > 0
  <2>1. a \in Ids /\ records[a].rev > 0
    BY DEF Ids, AllStored, Exists
  <2>2. records'[a].rev \in Nat /\ records'[a].rev >= records[a].rev /\ records[a].rev \in Nat
    BY <2>1, RevisionsGrow, MaxRevisionFacts
  <2> QED
    BY <2>1, <2>2
<1> QED
  BY <1>1 DEF AllStored, Exists

\* A bundle a tab is told of is there with all its attachments.
LEMMA TellsStored ==
  ASSUME CompoundTypeOK, AnswerInv', BundlesKept', NEW t \in Tabs, Tells(tab[t], tab'[t])
  PROVE  /\ \A a \in tab'[t].job.ids : records'[a].rev > 0
         /\ \E x \in answered' : x.request.envelope = tab'[t].job.draft
         /\ tab'[t].rev > 0
<1> DEFINE r == tab[t].job
<1>1. r \in Bundles /\ tab'[t].job = r
  BY TabTyped DEF Tells, TabComplete, BundleAts, FinalAts
<1>2. [request |-> FinalRequest(r), rev |-> tab'[t].rev] \in answered'
  BY DEF Tells
<1> HIDE DEF r
<1>3. ASSUME NEW j \in Bundles, NEW n, [request |-> FinalRequest(j), rev |-> n] \in answered'
      PROVE  /\ \A a \in j.ids : records'[a].rev > 0
             /\ \E x \in answered' : x.request.envelope = j.draft
             /\ n > 0
  <2>3. FinalRequest(j).envelope = j.draft /\ FinalRequest(j).id = Key
        /\ FinalRequest(j).base = j.base
    BY DEF FinalRequest
  <2>4. n \in Nat /\ n > j.base /\ j.base \in Nat
    <3>1. Key \in Notes /\ j.base \in Nat
      BY CompoundAssumption, BundleFacts
    <3>2. answered' \subseteq [request : Requests, rev : Nat]
      BY DEF AnswerInv, TypeInv, TypeOK
    <3> DEFINE x == [request |-> FinalRequest(j), rev |-> n]
    <3>3. x \in answered' /\ x.rev = n /\ x.request = FinalRequest(j)
      BY <1>3
    <3> HIDE DEF x
    <3> QED
      BY <2>3, <3>1, <3>2, <3>3 DEF AnswerInv, Settled
  <2>5. \A a \in j.ids : records'[a].rev > 0
    <3> SUFFICES ASSUME NEW a \in j.ids PROVE records'[a].rev > 0
      OBVIOUS
    <3> DEFINE q == FinalRequest(j)
              x == [request |-> q, rev |-> n]
              m == [id |-> a, envelope |-> j.hashes[a]]
    <3>1. q.op = "bundle" /\ m \in q.attachments
     BY FinalFacts
    <3> HIDE DEF q
    <3>2. x.request = q /\ x \in answered' /\ m.id = a
     BY <1>3 DEF q
    <3> QED
     BY <3>1, <3>2 DEF BundlesKept, Exists
  <2>6. \E x \in answered' : x.request.envelope = j.draft
    <3>1. [request |-> FinalRequest(j), rev |-> n].request.envelope = j.draft
      BY <2>3
    <3> QED
      BY <1>3, <3>1
  <2> QED
    BY <2>4, <2>5, <2>6
<1> QED
  BY <1>1, <1>2, <1>3

LEMMA HandlesStep ==
  ASSUME CompoundInv, BundlesKept, HandlesStored, [CompoundNext]_allVars
  PROVE  HandlesStored'
<1> DEFINE Stored(S) == \A a \in S : records'[a].rev > 0
           Given(d) == \E x \in answered' : x.request.envelope = d
           Done(j) == Stored(j.ids) /\ Given(j.draft)
<1>1. /\ CompoundTypeOK /\ TypeInv /\ JobsAgree /\ [Next]_vars /\ CoreNext /\ CompoundInv'
      /\ AnswerInv' /\ BundlesKept' /\ root \in Bundles \cup {Null}
      /\ confirmed \in SUBSET Attachments /\ index \in Handles \cup {Null}
  BY CompoundInvStep, RelayStep, HeadsGiveJobs, BundlesKeptStep
     DEF CompoundInv, CoreInv, AnswerInv, CompoundTypeOK, StoreTypes
<1>2. ASSUME NEW S \in SUBSET Attachments, AllStored(S) PROVE Stored(S)
  BY <1>1, <1>2, StoredStays DEF AllStored, Exists
<1>3. answered \subseteq answered'
  <2>1. TypeInv /\ ReceiptsAnswer /\ [Next]_vars
    BY <1>1 DEF CompoundInv, AnswerInv
  <2> QED
    BY <2>1, AnsweredGrows
<1>4. ASSUME NEW j, j.ids \in SUBSET Attachments, Published(j) PROVE Done(j)
  BY <1>2, <1>3, <1>4 DEF Published
<1>5. \A u \in Tabs : tab[u].at \in HandleAts \cup {"told", "commit"} => Done(tab[u].job)
  <2> SUFFICES ASSUME NEW u \in Tabs, tab[u].at \in HandleAts \cup {"told", "commit"}
               PROVE  Done(tab[u].job)
    OBVIOUS
  <2>1. tab[u].job \in Handles \cup Bundles
    BY <1>1, TabTyped DEF TabComplete, BundleAts, FinalAts
  <2>2. tab[u].job.ids \in SUBSET Attachments
    BY <2>1, BundleFacts DEF Handles
  <2> QED
    BY <1>4, <2>2 DEF HandlesStored
<1>6. Stored(confirmed) /\ (index # Null => Done(index))
  <2>1. index # Null => index.ids \in SUBSET Attachments
    BY <1>1 DEF Handles
  <2> QED
    BY <1>1, <1>2, <1>4, <2>1 DEF HandlesStored
<1>7. root' # Null /\ root'.rev > 0 => Done(root')
  <2> SUFFICES ASSUME root' # Null, root'.rev > 0 PROVE Done(root')
    OBVIOUS
  <2>1. CASE root' = root
    <3>1. root.ids \in SUBSET Attachments
      BY <1>1, <2>1, BundleFacts
    <3> QED
      BY <1>4, <2>1, <3>1 DEF HandlesStored
  <2>2. CASE root \in Bundles /\ root # Null /\ Grown(root')
    <3>1. root'.ids = root.ids /\ root'.draft = root.draft
          /\ root.ids \in SUBSET Attachments
      BY <2>2, BundleFacts DEF Grown, HeadOf
    <3>2. CASE root.rev > 0
      BY <1>4, <2>2, <3>1, <3>2 DEF HandlesStored
    <3>3. CASE \E u \in Tabs : tab[u].at = "commit" /\ Same(root, tab[u].job)
      <4>1. PICK u \in Tabs : tab[u].at = "commit" /\ Same(root, tab[u].job)
        BY <3>3
      <4>2. SameHead(tab[u].job, root)
        BY <1>1, <4>1 DEF JobsAgree, BundleAts, FinalAts
      <4> QED
        BY <1>5, <3>1, <4>1, <4>2 DEF SameHead
    <3> QED
      BY <2>2, <3>2, <3>3 DEF Grown
  <2> QED
    BY <1>1, <2>1, <2>2, RootGoes
<1>8. ASSUME NEW u \in Tabs, tab'[u].at \in HandleAts \cup {"told", "commit"},
             Track(tab[u], tab'[u]), Hold(tab[u], tab'[u])
      PROVE  /\ Done(tab'[u].job)
             /\ tab'[u].at \in {"told", "commit"} => tab'[u].rev > 0
  <2>1. CASE tab'[u].at \in {"told", "commit"}
    BY <1>5, <1>8, <2>1 DEF Hold, HandlesStored
  <2>2. CASE tab'[u].at \in HandleAts
    <3>1. tab'[u].at \notin {"told", "commit"}
      BY <2>2 DEF HandleAts
    <3>2. CASE tab[u].at \in HandleAts /\ tab'[u].job = tab[u].job
      BY <1>5, <3>2, <3>1
    <3>3. CASE index # Null /\ tab'[u].job = index
      BY <1>6, <3>3, <3>1
    <3>4. CASE root' # Null /\ root'.rev > 0 /\ tab'[u].job = HandleOf(root')
      BY <1>7, <3>4, <3>1 DEF HandleOf
    <3> QED
      BY <1>8, <2>2, <3>2, <3>3, <3>4 DEF Track, HandleAts
  <2> QED
    BY <1>8, <2>1, <2>2
<1>9. ASSUME \A u \in Tabs : tab'[u].at \in HandleAts \cup {"told", "commit"} =>
               /\ Done(tab'[u].job)
               /\ tab'[u].at \in {"told", "commit"} => tab'[u].rev > 0,
             Stored(confirmed'), index' # Null => Done(index')
      PROVE  HandlesStored'
  BY <1>7, <1>9 DEF HandlesStored, Published, AllStored, Exists
<1>10. ASSUME NEW t \in Tabs, TabStep(t) PROVE HandlesStored'
  <2>1. Stored(confirmed')
    BY <1>1, <1>5, <1>6, <1>10, HandleMoves DEF HandleAts
  <2>2. index' # Null => Done(index')
    <3>1. CASE Commit(t) /\ index' = HandleOf(root') /\ index' # index
      <4>1. /\ root \in Bundles /\ root' = [root EXCEPT !.rev = tab[t].rev]
            /\ tab[t].at = "commit" /\ Same(root, tab[t].job)
        BY <1>1, <3>1 DEF Commit, Same, At
      <4>2. root'.ids = root.ids /\ root'.draft = root.draft
        BY <4>1 DEF Bundles
      <4>3. SameHead(tab[t].job, root)
        BY <1>1, <4>1 DEF JobsAgree, BundleAts, FinalAts
      <4> QED
        BY <1>5, <3>1, <4>1, <4>2, <4>3 DEF HandleOf, SameHead
    <3> QED
      BY <1>1, <1>6, <1>10, <3>1, HandleMoves
  <2>3. PICK to : Become(t, to) /\ Good(to) /\ (Follow(tab[t], to) \/ Draws(t, to))
    BY <1>1, <1>10, TabFollows
  <2>4. tab'[t] = to /\ \A u \in Tabs \ {t} : tab'[u] = tab[u]
    BY <1>1, <2>3 DEF Become, CompoundTypeOK
  <2>5. ASSUME NEW u \in Tabs, tab'[u].at \in HandleAts \cup {"told", "commit"}
        PROVE  /\ Done(tab'[u].job)
               /\ tab'[u].at \in {"told", "commit"} => tab'[u].rev > 0
    <3>1. CASE u = t
      <4>1. "install" \notin HandleAts \cup {"told", "commit"}
        BY DEF HandleAts
      <4> QED
        BY <1>8, <2>3, <2>4, <2>5, <3>1, <4>1 DEF Follow, Draws
    <3> QED
      BY <1>5, <2>4, <2>5, <3>1 DEF HandlesStored
  <2> QED
    BY <1>9, <2>1, <2>2, <2>5
<1>11. ASSUME NEW s \in sent, Serve(s[1], s[2]) PROVE HandlesStored'
  <2>1. index' = index /\ confirmed' = confirmed
    BY <1>1, <1>11, ServeFollows
  <2>2. ASSUME NEW u \in Tabs, tab'[u].at \in HandleAts \cup {"told", "commit"}
        PROVE  /\ Done(tab'[u].job)
               /\ tab'[u].at \in {"told", "commit"} => tab'[u].rev > 0
    <3>1. CASE tab'[u] = tab[u]
      BY <1>5, <2>2, <3>1 DEF HandlesStored
    <3>2. CASE Tells(tab[u], tab'[u])
      BY <1>1, <3>2, TellsStored
    <3> QED
      BY <1>1, <1>8, <1>11, <2>2, <3>1, <3>2, ServeFollows
  <2> QED
    BY <1>6, <1>9, <2>1, <2>2
<1>12. CASE Around \/ UNCHANGED allVars
  <2>1. UNCHANGED <<index, confirmed, tab>>
    BY <1>12 DEF Around, allVars, compoundVars, Edit, Recredential, Disown, Pull, Elsewhere,
                 Expire, device
  <2> QED
    BY <1>5, <1>6, <1>9, <2>1 DEF HandlesStored
<1> QED
  BY <1>10, <1>11, <1>12, Steps

\* Bytes to upload are taken for uploaded only when the relay has the attachment,
\* whichever tab confirms them and whatever was interrupted or lost on the way
\* (noteStore.svelte.ts:1162).
THEOREM ConfirmedIsStored == CompoundSpec => []ConfirmedAreStored
<1>1. CompoundInit => BundlesKept /\ HandlesStored
  <2>1. CompoundInit => \A u \in Tabs : tab[u].at = "idle"
    BY DEF CompoundInit, Idle
  <2> QED
    BY <2>1 DEF CompoundInit, Init, BundlesKept, HandlesStored, AllStored, HandleAts
<1>2. CompoundInv /\ BundlesKept /\ HandlesStored /\ [CompoundNext]_allVars
        => BundlesKept' /\ HandlesStored'
  <2> SUFFICES ASSUME CompoundInv, BundlesKept, HandlesStored, [CompoundNext]_allVars
               PROVE  BundlesKept' /\ HandlesStored'
    OBVIOUS
  <2>1. [Next]_vars /\ AnswerInv
    BY RelayStep DEF CompoundInv
  <2> QED
    BY <2>1, BundlesKeptStep, HandlesStep
<1>3. HandlesStored => ConfirmedAreStored
  BY DEF HandlesStored, AllStored, ConfirmedAreStored
<1> QED
  BY <1>1, <1>2, <1>3, CompoundInvariance, PTL DEF CompoundSpec

-----------------------------------------------------------------------------
(* What the outbox gives up *)

\* Where a tab recovers, where it is about to publish its row with attachments,
\* and where its row goes without or is refused.
RecoverAts == {"committed", "listed", "intents", "resume", "stale", "pending", "cancel"}
EnterAts   == {"await", "begin", "enter", "install"}
RowOnlyAts == {"plain", "plainWait", "copy", "restore", "preserve", "reject"}

Uncommitted == root # Null /\ root.rev = 0
Receipted   == root # Null /\ root.rev > 0

\* A receipt and its index come and go together, and a bundle without a receipt has
\* its upload intent.
StoreAligned ==
  /\ Receipted => index = HandleOf(root)
  /\ index # Null => Receipted
  /\ Uncommitted => intent # Null /\ intent.phase = "pending"

\* The drafts a tab may push: that of the outbox and that of the row it has read.
Own(p, d) ==
  \/ outbox # Null /\ outbox.draft = d
  \/ p.row # Null /\ p.row.draft = d

\* All drafts were written, and one written since the row was read is neither in
\* the intent nor in the bundle.
Dated(p) ==
  /\ outbox # Null => outbox.draft \in written
  /\ intent # Null => intent.draft \in written
  /\ root # Null => root.draft \in written
  /\ p.row # Null => p.row.draft \in written
  /\ p.row # Null /\ outbox # Null /\ outbox.draft # p.row.draft =>
       /\ intent # Null => intent.draft # outbox.draft
       /\ root # Null => root.draft # outbox.draft

\* An intent with the token of a draft that may still be pushed is the intent of that
\* draft's bundle, and such a bundle keeps the bytes it is to upload.
Aligned(p) ==
  /\ root # Null /\ intent # Null /\ Own(p, intent.draft) => root.draft = intent.draft
  /\ Uncommitted /\ Own(p, root.draft) =>
       root.ids # {} /\ root.ids \subseteq waiting \cap Lists[root.draft]

\* What a tab knows of its row, wherever it is.
RowKnown(p) ==
  /\ p.recovers => p.row = Null
  /\ p.at \in RecoverAts \/ p.then \in {"listed", "pending"} => p.recovers
  /\ p.at = "resume" => p.then = "pending"
  /\ p.at = "remove" => p.then = "idle"
  /\ p.at \in EnterAts \/ p.then = "begin" => p.sources # {} /\ p.row # Null
  /\ p.row # Null /\ p.at # "remove" => p.sources \subseteq Lists[p.row.draft]
  /\ p.handoff => /\ p.then \in {"idle", "pending"}
                  /\ p.at \notin EnterAts
                  /\ p.at \notin {"committed", "listed", "intents", "resume", "remove"}

\* What a tab knows of the stored bundle and its intent at each place.
StoreKnown(p) ==
  /\ p.at \in HandleAts => Receipted /\ p.job = HandleOf(root)
  /\ p.at \in HandleAts \ {"finish"} =>
       intent # Null /\ p.intent # Null /\ p.intent.draft = intent.draft
  /\ p.at = "stale" => root = Null
  /\ p.at = "drop" =>
       /\ ~Uncommitted
       /\ p.then = "begin" => root = Null /\ (intent # Null => intent.draft = p.intent.draft)
  /\ p.at \in EnterAts \ {"await"} =>
       ~Receipted /\ (intent # Null => intent.phase = "pending")
  /\ p.at \in {"enter", "install"} => intent # Null
  /\ p.at = "install" =>
       p.job.draft = p.row.draft /\ p.job.ids = p.sources /\ p.sources \subseteq waiting
  /\ p.at \in RowOnlyAts => ~Uncommitted \/ (p.sources = {} /\ root.draft # p.row.draft)
  /\ p.at \in BundleAts /\ p.handoff => root.owner # p.cred

\* What a tab knows became of its row.
OutcomeKnown(p) ==
  /\ p.at = "plainWait" => p.job.envelope = p.row.draft
  /\ p.at = "reject" => p.row.draft \in copied
  /\ p.at = "settle" =>
       p.row.draft \in copied \/ \E x \in answered : x.request.envelope = p.row.draft

DraftInv(p) ==
  StoreAligned /\ Dated(p) /\ Aligned(p) /\ RowKnown(p) /\ StoreKnown(p) /\ OutcomeKnown(p)

\* Before a step of tab t.
DraftNow(t) ==
  /\ CompoundTypeOK /\ CompoundTypeOK' /\ CoreInv /\ HandlesStored /\ InHand(tab[t])
  /\ DraftInv(tab[t])

stored == <<root, index, intent, outbox, waiting, written>>

LEMMA AtMoved ==
  ASSUME NEW p \in TabState, NEW w, NEW q, q = [p EXCEPT !.at = w]
  PROVE  q.at = w /\ SameWork(p, q)
BY DEF TabState, SameWork, SameRow

\* While nothing changes in the store, a row that is kept, dropped or read anew is
\* as the store is.
LEMMA OwnStays ==
  ASSUME NEW p, StoreAligned, Dated(p), Aligned(p), UNCHANGED stored,
         NEW q, q.row = p.row \/ q.row = Null \/ q.row = outbox
  PROVE  StoreAligned' /\ Dated(q)' /\ Aligned(q)'
<1>1. /\ root' = root /\ index' = index /\ intent' = intent /\ outbox' = outbox
      /\ waiting' = waiting /\ written' = written
  BY DEF stored
<1>2. StoreAligned'
  BY <1>1 DEF StoreAligned, Receipted, Uncommitted, HandleOf
<1>3. Dated(q)'
  BY <1>1 DEF Dated
<1>4. ASSUME NEW d, Own(q, d)' PROVE Own(p, d)
  BY <1>1, <1>4 DEF Own
<1>5. Aligned(q)'
  BY <1>1, <1>4 DEF Aligned, Uncommitted
<1> QED
  BY <1>2, <1>3, <1>5

\* At these places a tab knows nothing yet.
LEMMA EasyPlaces ==
  ASSUME NEW q, q.at \in {"idle", "committed", "listed", "intents", "resume", "cancel",
                          "pending", "remove", "await"}
  PROVE  StoreKnown(q)' /\ OutcomeKnown(q)'
BY DEF StoreKnown, OutcomeKnown, EnterAts, RowOnlyAts, BundleAts, StageAts, SealAts, FinalAts,
       HandleAts

LEMMA IdleKnown ==
  ASSUME NEW c \in Owners
  PROVE  /\ RowKnown(Idle(c)) /\ StoreKnown(Idle(c))' /\ OutcomeKnown(Idle(c))'
         /\ Idle(c).row = Null
<1>1. /\ Idle(c).at = "idle" /\ Idle(c).row = Null /\ Idle(c).then = "idle"
      /\ Idle(c).handoff = FALSE
  BY DEF Idle
<1>2. RowKnown(Idle(c))
  BY <1>1 DEF RowKnown, RecoverAts, EnterAts
<1>3. StoreKnown(Idle(c))' /\ OutcomeKnown(Idle(c))'
  BY <1>1, EasyPlaces
<1> QED
  BY <1>1, <1>2, <1>3

LEMMA CaughtKnown ==
  ASSUME NEW p \in TabState, RowKnown(p)
  PROVE  /\ RowKnown(Caught(p)) /\ StoreKnown(Caught(p))' /\ OutcomeKnown(Caught(p))'
         /\ Caught(p).row \in {p.row, Null}
<1>1. p.cred \in Owners
  BY TabFields
<1>2. CASE Caught(p) = Idle(p.cred)
  BY <1>1, <1>2, IdleKnown
<1>3. CASE p.recovers /\ Caught(p) = [p EXCEPT !.at = "cancel"]
  <2> DEFINE q == Caught(p)
  <2>1. q.at = "cancel" /\ SameRow(p, q)
    BY <1>3, AtMoved DEF SameWork
  <2> HIDE DEF q
  <2>2. RowKnown(q)
    BY <1>3, <2>1 DEF RowKnown, SameRow, RecoverAts, EnterAts
  <2>3. StoreKnown(q)' /\ OutcomeKnown(q)'
    BY <2>1, EasyPlaces
  <2> QED
    BY <2>1, <2>2, <2>3 DEF q, SameRow
<1> QED
  BY <1>2, <1>3 DEF Caught

\* A tab that goes on with the root r: to its handle, or to its first stage.
SentOn(p, r, q) ==
  /\ q.at = (IF r.rev > 0 THEN "finish" ELSE "stage")
  /\ q.job = (IF r.rev > 0 THEN HandleOf(r) ELSE r)
  /\ q.row = p.row /\ q.intent = p.intent /\ q.sources = p.sources /\ q.cred = p.cred
  /\ q.recovers = p.recovers

LEMMA SendingFields ==
  ASSUME NEW p \in TabState, NEW r, NEW q, q = Sending(p, r)
  PROVE  SentOn(p, r, q) /\ q.then = p.then /\ q.handoff = p.handoff /\ DOMAIN q = DOMAIN p
<1>1. CASE r.rev > 0
  <2> DEFINE h == HandleOf(r)
  <2>1. q = [p EXCEPT !.at = "finish", !.job = h]
    BY <1>1 DEF Sending
  <2> HIDE DEF h
  <2>2. /\ q.at = "finish" /\ q.job = h /\ q.row = p.row /\ q.intent = p.intent
        /\ q.sources = p.sources /\ q.cred = p.cred /\ q.recovers = p.recovers
        /\ q.then = p.then /\ q.handoff = p.handoff /\ DOMAIN q = DOMAIN p
    BY <2>1 DEF TabState
  <2> QED
    BY <1>1, <2>2 DEF SentOn, h
<1>2. CASE ~(r.rev > 0)
  <2>1. q = [p EXCEPT !.at = "stage", !.job = r, !.todo = r.ids]
    BY <1>2 DEF Sending
  <2>2. /\ q.at = "stage" /\ q.job = r /\ q.row = p.row /\ q.intent = p.intent
        /\ q.sources = p.sources /\ q.cred = p.cred /\ q.recovers = p.recovers
        /\ q.then = p.then /\ q.handoff = p.handoff /\ DOMAIN q = DOMAIN p
    BY <2>1 DEF TabState
  <2> QED
    BY <1>2, <2>2 DEF SentOn
<1> QED
  BY <1>1, <1>2

LEMMA SendingHandoff ==
  ASSUME NEW p \in TabState, NEW r, NEW q, q = [Sending(p, r) EXCEPT !.handoff = TRUE]
  PROVE  SentOn(p, r, q) /\ q.then = p.then /\ q.handoff = TRUE
<1> DEFINE v == Sending(p, r)
<1>1. SentOn(p, r, v) /\ v.then = p.then /\ DOMAIN v = DOMAIN p
  BY SendingFields
<1> HIDE DEF v
<1>2. q = [v EXCEPT !.handoff = TRUE]
  BY DEF v
<1> QED
  BY <1>1, <1>2 DEF SentOn, TabState

LEMMA SentKnown ==
  ASSUME NEW p, RowKnown(p), NEW r \in Bundles, r = root', NEW q, SentOn(p, r, q),
         p.at # "remove",
         q.then \in {"listed", "pending"} => p.recovers,
         q.then = "begin" => p.sources # {} /\ p.row # Null,
         q.handoff => /\ q.then \in {"idle", "pending"}
                      /\ r.rev > 0 \/ r.owner # q.cred
  PROVE  RowKnown(q) /\ StoreKnown(q)' /\ OutcomeKnown(q)'
<1>1. r # Null /\ r.rev \in Nat
  BY BundleFacts
<1>2. q.at = "finish" \/ q.at = "stage"
  BY DEF SentOn
<1>3. RowKnown(q)
  BY <1>2 DEF RowKnown, SentOn, RecoverAts, EnterAts
<1>4. OutcomeKnown(q)'
  BY <1>2 DEF OutcomeKnown
<1>5. StoreKnown(q)'
  <2>1. CASE r.rev > 0
    <3>1. q.at = "finish" /\ q.job = HandleOf(r)
      BY <2>1 DEF SentOn
    <3>2. Receipted' /\ q.job = HandleOf(root)'
      BY <1>1, <2>1, <3>1 DEF Receipted, HandleOf
    <3> QED
      BY <3>1, <3>2 DEF StoreKnown, EnterAts, RowOnlyAts, BundleAts, StageAts, SealAts, FinalAts,
         HandleAts
  <2>2. CASE ~(r.rev > 0)
    <3>1. q.at = "stage" /\ (q.handoff => root'.owner # q.cred)
      BY <2>2 DEF SentOn
    <3> QED
      BY <3>1 DEF StoreKnown, EnterAts, RowOnlyAts, HandleAts
  <2> QED
    BY <2>1, <2>2
<1> QED
  BY <1>3, <1>4, <1>5

LEMMA DraftFacts ==
  ASSUME NEW t \in Tabs, DraftNow(t)
  PROVE  /\ tab[t] \in TabState /\ TabComplete(tab[t]) /\ tab[t].cred \in Owners
         /\ session \in Owners /\ root \in Bundles \cup {Null}
         /\ intent \in UploadIntents \cup {Null} /\ index \in Handles \cup {Null}
         /\ outbox \in Edits \cup {Null}
         /\ \A to : Become(t, to) => tab'[t] = to
         /\ \A w : Go(t, w) => tab'[t] = [tab[t] EXCEPT !.at = w]
         /\ GiveUp(t) => tab'[t] = Idle(tab[t].cred)
<1>1. CompoundTypeOK /\ tab[t] \in TabState /\ TabComplete(tab[t])
  BY TabTyped DEF DraftNow
<1>2. tab[t].cred \in Owners
  BY <1>1, TabFields
<1> QED
  BY <1>1, <1>2 DEF CompoundTypeOK, StoreTypes, Become, Go, GiveUp

\* It is enough to look at the tab where a step leaves the store as it is.
LEMMA KeptDraft ==
  ASSUME NEW t \in Tabs, DraftNow(t), UNCHANGED stored, NEW q,
         q.row = tab[t].row \/ q.row = Null \/ q.row = outbox,
         RowKnown(q), StoreKnown(q)', OutcomeKnown(q)'
  PROVE  DraftInv(q)'
<1>1. StoreAligned' /\ Dated(q)' /\ Aligned(q)'
  BY OwnStays DEF DraftNow, DraftInv
<1>2. RowKnown(q)'
  BY DEF RowKnown
<1> QED
  BY <1>1, <1>2 DEF DraftInv

LEMMA RecoverDraft ==
  ASSUME NEW t \in Tabs, DraftNow(t),
         \/ StartPass(t) \/ Committed(t) \/ Listed(t) \/ Intents(t) \/ Resume(t) \/ Stale(t)
  PROVE  \A q : q = tab'[t] => DraftInv(q)'
<1> DEFINE p == tab[t]
<1>1. /\ p \in TabState /\ TabComplete(p) /\ p.cred \in Owners
      /\ root \in Bundles \cup {Null} /\ intent \in UploadIntents \cup {Null}
      /\ \A to : Become(t, to) => tab'[t] = to
      /\ \A w : Go(t, w) => tab'[t] = [p EXCEPT !.at = w]
      /\ StoreAligned /\ RowKnown(p) /\ StoreKnown(p)
  BY DraftFacts DEF DraftNow, DraftInv
<1>2. UNCHANGED stored /\ root' = root /\ intent' = intent /\ index' = index
  BY DEF StartPass, Committed, Listed, Intents, Resume, Stale, device, fixed, stored
<1>3. ASSUME NEW q, q.row = p.row \/ q.row = Null,
             RowKnown(q), StoreKnown(q)', OutcomeKnown(q)'
      PROVE  DraftInv(q)'
  BY <1>2, <1>3, KeptDraft
<1>4. ASSUME NEW q, q = Idle(p.cred) \/ q = Caught(p) PROVE DraftInv(q)'
  BY <1>1, <1>3, <1>4, IdleKnown, CaughtKnown
<1> HIDE DEF p
<1>5. CASE StartPass(t)
  <2> SUFFICES ASSUME NEW q, q = tab'[t] PROVE DraftInv(q)'
    OBVIOUS
  <2>1. q = [Idle(p.cred) EXCEPT !.at = "committed", !.recovers = TRUE]
    BY <1>1, <1>5 DEF StartPass, p
  <2>2. /\ q.at = "committed" /\ q.recovers = TRUE /\ q.row = Null /\ q.then = "idle"
        /\ q.handoff = FALSE
    BY <2>1 DEF Idle
  <2>3. RowKnown(q)
    BY <2>2 DEF RowKnown, EnterAts
  <2> QED
    BY <1>3, <2>2, <2>3, EasyPlaces
<1>6. CASE Committed(t)
  <2> SUFFICES ASSUME NEW q, q = tab'[t] PROVE DraftInv(q)'
    OBVIOUS
  <2>1. p.at = "committed"
    BY <1>6 DEF Committed, At, p
  <2>2. p.recovers /\ p.row = Null /\ ~p.handoff /\ p.then # "begin"
    BY <1>1, <2>1 DEF RowKnown, RecoverAts, TabComplete
  <2>3. CASE index = Null
    <3>1. q = [p EXCEPT !.at = "listed"]
      BY <1>1, <1>6, <2>3 DEF Committed, p
    <3>2. q.at = "listed" /\ SameRow(p, q)
      BY <1>1, <3>1, AtMoved DEF SameWork
    <3>3. RowKnown(q)
      BY <1>1, <2>2, <3>2 DEF RowKnown, SameRow, EnterAts
    <3> QED
      BY <1>3, <3>2, <3>3, EasyPlaces DEF SameRow
  <2>4. CASE index # Null
    <3>1. q = [p EXCEPT !.at = "finish", !.job = index, !.then = "listed"]
      BY <1>1, <1>6, <2>4 DEF Committed, p
    <3>2. /\ q.at = "finish" /\ q.job = index /\ q.then = "listed" /\ q.row = p.row
          /\ q.recovers = p.recovers /\ q.handoff = p.handoff
      BY <1>1, <3>1 DEF TabState
    <3>3. RowKnown(q)
      BY <2>2, <3>2 DEF RowKnown, EnterAts
    <3>4. Receipted' /\ q.job = HandleOf(root)'
      BY <1>1, <1>2, <2>4, <3>2 DEF StoreAligned, Receipted, HandleOf
    <3>5. StoreKnown(q)' /\ OutcomeKnown(q)'
      BY <3>2, <3>4 DEF StoreKnown, OutcomeKnown, EnterAts, RowOnlyAts, BundleAts, StageAts,
         SealAts, FinalAts, HandleAts
    <3> QED
      BY <1>3, <3>2, <3>3, <3>5
  <2> QED
    BY <2>3, <2>4
<1>7. CASE Listed(t)
  <2> SUFFICES ASSUME NEW q, q = tab'[t] PROVE DraftInv(q)'
    OBVIOUS
  <2>1. p.at = "listed" /\ q = [p EXCEPT !.at = "intents", !.cur = outbox]
    BY <1>1, <1>7 DEF Listed, At, p
  <2>2. q.at = "intents" /\ SameRow(p, q)
    BY <1>1, <2>1 DEF TabState, SameRow
  <2>3. RowKnown(q)
    BY <1>1, <2>1, <2>2 DEF RowKnown, SameRow, EnterAts, RecoverAts
  <2> QED
    BY <1>3, <2>2, <2>3, EasyPlaces DEF SameRow
<1>8. CASE Intents(t)
  <2> SUFFICES ASSUME NEW q, q = tab'[t] PROVE DraftInv(q)'
    OBVIOUS
  <2>1. p.at = "intents"
    BY <1>8 DEF Intents, At, p
  <2>2. p.recovers /\ p.row = Null /\ ~p.handoff
    BY <1>1, <2>1 DEF RowKnown, RecoverAts
  <2>3. CASE intent = Null
    <3>1. q = [p EXCEPT !.at = "pending"]
      BY <1>1, <1>8, <2>3 DEF Intents, p
    <3>2. q.at = "pending" /\ SameRow(p, q)
      BY <1>1, <3>1, AtMoved DEF SameWork
    <3>3. RowKnown(q)
      BY <1>1, <2>2, <3>2 DEF RowKnown, SameRow, EnterAts
    <3> QED
      BY <1>3, <3>2, <3>3, EasyPlaces DEF SameRow
  <2>4. CASE intent # Null
    <3> DEFINE w == IF intent.phase = "reconciled" THEN "drop" ELSE "resume"
               S == intent.uploads \cap waiting
    <3>1. q = [p EXCEPT !.at = w, !.intent = intent, !.sources = S, !.then = "pending"]
      BY <1>1, <1>8, <2>4 DEF Intents, p
    <3> HIDE DEF w, S
    <3>2. /\ q.at = w /\ q.then = "pending" /\ q.row = p.row /\ q.recovers = p.recovers
          /\ q.handoff = p.handoff
      BY <1>1, <3>1 DEF TabState
    <3>3. w = "resume" \/ (w = "drop" /\ intent.phase # "pending")
      BY DEF w
    <3>4. RowKnown(q)
      BY <2>2, <3>2, <3>3 DEF RowKnown, EnterAts
    <3>5. w = "drop" => ~Uncommitted'
      BY <1>1, <1>2, <3>3 DEF StoreAligned, Uncommitted
    <3>6. StoreKnown(q)' /\ OutcomeKnown(q)'
      BY <3>2, <3>3, <3>5 DEF StoreKnown, OutcomeKnown, EnterAts, RowOnlyAts, BundleAts,
         StageAts, SealAts, FinalAts, HandleAts
    <3> QED
      BY <1>3, <3>2, <3>4, <3>6
  <2> QED
    BY <2>3, <2>4
<1>9. CASE Resume(t)
  <2> SUFFICES ASSUME NEW q, q = tab'[t] PROVE DraftInv(q)'
    OBVIOUS
  <2>1. /\ p.at = "resume"
        /\ q = IF root = Null THEN [p EXCEPT !.at = "stale"]
               ELSE IF ~(p.sources \subseteq root.ids) THEN Caught(p)
               ELSE IF root.rev > 0 \/ root.owner = p.cred THEN Sending(p, root)
               ELSE IF p.cur = Null THEN Idle(p.cred)
               ELSE [Sending(p, root) EXCEPT !.handoff = TRUE]
    BY <1>1, <1>9 DEF Resume, At, p
  <2>2. p.recovers /\ p.row = Null /\ ~p.handoff /\ p.then = "pending"
    BY <1>1, <2>1 DEF RowKnown, RecoverAts
  <2>3. CASE root = Null
    <3>1. q.at = "stale" /\ SameRow(p, q)
      BY <1>1, <2>1, <2>3, AtMoved DEF SameWork
    <3>2. RowKnown(q)
      BY <1>1, <2>2, <3>1 DEF RowKnown, SameRow, EnterAts
    <3>3. StoreKnown(q)' /\ OutcomeKnown(q)'
      BY <1>2, <2>3, <3>1 DEF StoreKnown, OutcomeKnown, EnterAts, RowOnlyAts, BundleAts,
         StageAts, SealAts, FinalAts, HandleAts
    <3> QED
      BY <1>3, <3>1, <3>2, <3>3 DEF SameRow
  <2>4. CASE root # Null /\ q = Sending(p, root)
    <3>1. root \in Bundles /\ SentOn(p, root, q) /\ q.then = p.then /\ q.handoff = p.handoff
      BY <1>1, <2>4, SendingFields
    <3>2. RowKnown(q) /\ StoreKnown(q)' /\ OutcomeKnown(q)'
      BY <1>1, <1>2, <2>1, <2>2, <3>1, SentKnown
    <3> QED
      BY <1>3, <3>1, <3>2 DEF SentOn
  <2>5. CASE /\ root # Null /\ q = [Sending(p, root) EXCEPT !.handoff = TRUE]
             /\ root.owner # p.cred
    <3>1. q = [Sending(p, root) EXCEPT !.handoff = TRUE] /\ p \in TabState
      BY <1>1, <2>5
    <3>2. SentOn(p, root, q) /\ q.then = p.then /\ q.handoff = TRUE
      BY <3>1, SendingHandoff
    <3>3. root \in Bundles /\ root.owner # q.cred
      BY <1>1, <2>5, <3>2 DEF SentOn
    <3>4. RowKnown(q) /\ StoreKnown(q)' /\ OutcomeKnown(q)'
      BY <1>1, <1>2, <2>1, <2>2, <3>2, <3>3, SentKnown
    <3> QED
      BY <1>3, <3>2, <3>4 DEF SentOn
  <2> QED
    BY <1>4, <2>1, <2>3, <2>4, <2>5
<1>10. CASE Stale(t)
  <2> SUFFICES ASSUME NEW q, q = tab'[t] PROVE DraftInv(q)'
    OBVIOUS
  <2>1. p.at = "stale"
    BY <1>10 DEF Stale, At, p
  <2>2. PICK w \in {"pending", "drop"} : q = [p EXCEPT !.at = w]
    BY <1>1, <1>10 DEF Stale, p
  <2>3. q.at = w /\ SameRow(p, q)
    BY <1>1, <2>2, AtMoved DEF SameWork
  <2>4. p.recovers /\ p.then # "begin" /\ root = Null
    BY <1>1, <2>1 DEF RowKnown, RecoverAts, StoreKnown, TabComplete
  <2>5. RowKnown(q)
    BY <1>1, <2>1, <2>3, <2>4 DEF RowKnown, SameRow, EnterAts, RecoverAts
  <2>6. StoreKnown(q)' /\ OutcomeKnown(q)'
    BY <1>2, <2>3, <2>4 DEF StoreKnown, SameRow, OutcomeKnown, Uncommitted, EnterAts, RowOnlyAts,
       BundleAts, StageAts, SealAts, FinalAts, HandleAts
  <2> QED
    BY <1>3, <2>3, <2>5, <2>6 DEF SameRow
<1> QED
  BY <1>5, <1>6, <1>7, <1>8, <1>9, <1>10

LEMMA CommittingKnown ==
  ASSUME NEW p \in TabState, RowKnown(p), p.at \in {"enter", "install"}, NEW r \in Bundles,
         r = root', NEW q, q = Committing(p, r)
  PROVE  /\ RowKnown(q) /\ StoreKnown(q)' /\ OutcomeKnown(q)'
         /\ q.row = p.row \/ q.row = Null
<1>1. p.cred \in Owners /\ p.sources # {} /\ p.row # Null /\ ~p.handoff
  BY TabFields DEF RowKnown, EnterAts
<1> DEFINE v == Sending(p, r)
<1>2. SentOn(p, r, v) /\ v.handoff = p.handoff /\ DOMAIN v = DOMAIN p
  BY SendingFields
<1>3. CASE q = Idle(p.cred)
  BY <1>1, <1>3, IdleKnown
<1>4. CASE q = [Sending(p, r) EXCEPT !.handoff = TRUE, !.then = "idle"] /\ r.owner # p.cred
  <2> HIDE DEF v
  <2>1. q = [v EXCEPT !.handoff = TRUE, !.then = "idle"]
    BY <1>4 DEF v
  <2>2. SentOn(p, r, q) /\ q.then = "idle" /\ q.handoff = TRUE
    BY <1>2, <2>1 DEF SentOn, TabState
  <2>3. r.owner # q.cred
    BY <1>4, <2>2 DEF SentOn
  <2> QED
    BY <1>1, <2>2, <2>3, SentKnown DEF SentOn
<1>5. ASSUME NEW w \in {"idle", "begin"}, NEW b,
             q = [Sending(p, r) EXCEPT !.then = w, !.retried = b]
      PROVE  /\ RowKnown(q) /\ StoreKnown(q)' /\ OutcomeKnown(q)'
             /\ q.row = p.row \/ q.row = Null
  <2> HIDE DEF v
  <2>1. q = [v EXCEPT !.then = w, !.retried = b]
    BY <1>5 DEF v
  <2>2. SentOn(p, r, q) /\ q.then = w /\ q.handoff = p.handoff
    BY <1>2, <2>1 DEF SentOn, TabState
  <2> QED
    BY <1>1, <2>2, SentKnown DEF SentOn
<1> QED
  BY <1>3, <1>4, <1>5 DEF Committing

LEMMA PushDraft ==
  ASSUME NEW t \in Tabs, DraftNow(t),
         Push(t) \/ Await(t) \/ Enter(t) \/ Plain(t) \/ Timeout(t) \/ Close(t) \/ Reload(t)
  PROVE  \A q : q = tab'[t] => DraftInv(q)'
<1> DEFINE p == tab[t]
<1>1. /\ p \in TabState /\ TabComplete(p) /\ p.cred \in Owners /\ session \in Owners
      /\ root \in Bundles \cup {Null} /\ intent \in UploadIntents \cup {Null}
      /\ outbox \in Edits \cup {Null}
      /\ \A to : Become(t, to) => tab'[t] = to
      /\ \A w : Go(t, w) => tab'[t] = [p EXCEPT !.at = w]
      /\ GiveUp(t) => tab'[t] = Idle(p.cred)
      /\ StoreAligned /\ RowKnown(p) /\ StoreKnown(p)
  BY DraftFacts DEF DraftNow, DraftInv
<1>2. UNCHANGED stored /\ root' = root /\ intent' = intent /\ index' = index
      /\ waiting' = waiting
  BY DEF Push, Await, Enter, Plain, Timeout, Close, Reload, device, fixed, stored
<1>3. ASSUME NEW q, q.row = p.row \/ q.row = Null \/ q.row = outbox,
             RowKnown(q), StoreKnown(q)', OutcomeKnown(q)'
      PROVE  DraftInv(q)'
  BY <1>2, <1>3, KeptDraft
<1>4. ASSUME NEW q, q = Idle(p.cred) \/ q = Idle(session) \/ q = Caught(p)
      PROVE  DraftInv(q)'
  BY <1>1, <1>3, <1>4, IdleKnown, CaughtKnown
<1> HIDE DEF p
<1>5. CASE Push(t)
  <2> SUFFICES ASSUME NEW q, q = tab'[t] PROVE DraftInv(q)'
    OBVIOUS
  <2>1. \/ q = Idle(p.cred)
        \/ outbox # Null /\ q = [Idle(p.cred) EXCEPT !.at = "remove", !.row = outbox]
    BY <1>1, <1>5 DEF Push, p
  <2>2. ASSUME outbox # Null, q = [Idle(p.cred) EXCEPT !.at = "remove", !.row = outbox]
        PROVE  DraftInv(q)'
    <3>1. /\ q.at = "remove" /\ q.row = outbox /\ q.recovers = FALSE /\ q.then = "idle"
          /\ q.handoff = FALSE
      BY <2>2 DEF Idle
    <3>2. RowKnown(q)
      BY <3>1 DEF RowKnown, RecoverAts, EnterAts
    <3> QED
      BY <1>3, <3>1, <3>2, EasyPlaces
  <2> QED
    BY <1>4, <2>1, <2>2
<1>6. CASE Await(t)
  <2> SUFFICES ASSUME NEW q, q = tab'[t] PROVE DraftInv(q)'
    OBVIOUS
  <2>1. p.at = "await"
    BY <1>6 DEF Await, At, p
  <2>2. ~p.recovers /\ p.row # Null /\ p.sources # {} /\ ~p.handoff
    BY <1>1, <2>1 DEF RowKnown, EnterAts, TabComplete, RowAts
  <2>3. CASE index # Null
    <3>1. q = [p EXCEPT !.at = "finish", !.job = index, !.then = "begin"]
      BY <1>1, <1>6, <2>3 DEF Await, p
    <3>2. /\ q.at = "finish" /\ q.job = index /\ q.then = "begin" /\ q.row = p.row
          /\ q.recovers = p.recovers /\ q.handoff = p.handoff /\ q.sources = p.sources
      BY <1>1, <3>1 DEF TabState
    <3>3. RowKnown(q)
      BY <1>1, <2>1, <2>2, <3>2 DEF RowKnown, EnterAts, RecoverAts
    <3>4. Receipted' /\ q.job = HandleOf(root)'
      BY <1>1, <1>2, <2>3, <3>2 DEF StoreAligned, Receipted, HandleOf
    <3>5. StoreKnown(q)' /\ OutcomeKnown(q)'
      BY <3>2, <3>4 DEF StoreKnown, OutcomeKnown, EnterAts, RowOnlyAts, BundleAts, StageAts,
         SealAts, FinalAts, HandleAts
    <3> QED
      BY <1>3, <3>2, <3>3, <3>5
  <2>4. CASE index = Null /\ intent # Null /\ intent.phase = "reconciled"
    <3>1. q = [p EXCEPT !.at = "drop", !.intent = intent, !.then = "begin"]
      BY <1>1, <1>6, <2>4 DEF Await, p
    <3>2. /\ q.at = "drop" /\ q.intent = intent /\ q.then = "begin" /\ q.row = p.row
          /\ q.recovers = p.recovers /\ q.handoff = p.handoff /\ q.sources = p.sources
      BY <1>1, <3>1 DEF TabState
    <3>3. RowKnown(q)
      BY <1>1, <2>1, <2>2, <3>2 DEF RowKnown, EnterAts, RecoverAts
    <3>4. root' = Null
      <4>1. ~Receipted
        <5>1. root # Null => HandleOf(root) \in Handles
          BY <1>1, HandleFacts
        <5> QED
          BY <1>1, <2>4, <5>1, CompoundAssumption DEF StoreAligned, Receipted
      <4>2. ~Uncommitted
        BY <1>1, <2>4 DEF StoreAligned
      <4> QED
        BY <1>1, <1>2, <4>1, <4>2, BundleFacts DEF Receipted, Uncommitted
    <3>5. StoreKnown(q)' /\ OutcomeKnown(q)'
      BY <1>2, <3>2, <3>4 DEF StoreKnown, OutcomeKnown, Uncommitted, EnterAts, RowOnlyAts,
         BundleAts, StageAts, SealAts, FinalAts, HandleAts
    <3> QED
      BY <1>3, <3>2, <3>3, <3>5
  <2>5. CASE index = Null /\ (intent # Null => intent.phase # "reconciled")
    <3>1. q = [p EXCEPT !.at = "begin"]
      BY <1>1, <1>6, <2>5 DEF Await, p
    <3>2. q.at = "begin" /\ SameRow(p, q)
      BY <1>1, <3>1, AtMoved DEF SameWork
    <3>3. RowKnown(q)
      BY <1>1, <2>1, <2>2, <3>2 DEF RowKnown, SameRow, EnterAts, RecoverAts
    <3>4. ~Receipted'
      <4>1. root # Null => HandleOf(root) \in Handles
        BY <1>1, HandleFacts
      <4> QED
        BY <1>1, <1>2, <2>5, <4>1, CompoundAssumption DEF StoreAligned, Receipted
    <3>5. intent' # Null => intent'.phase = "pending"
      BY <1>1, <1>2, <2>5 DEF UploadIntents
    <3>6. StoreKnown(q)' /\ OutcomeKnown(q)'
      BY <3>2, <3>4, <3>5 DEF StoreKnown, OutcomeKnown, EnterAts, RowOnlyAts,
         BundleAts, StageAts, SealAts, FinalAts, HandleAts
    <3> QED
      BY <1>3, <3>2, <3>3, <3>6 DEF SameRow
  <2> QED
    BY <2>3, <2>4, <2>5
<1>7. CASE Enter(t)
  <2> SUFFICES ASSUME NEW q, q = tab'[t] PROVE DraftInv(q)'
    OBVIOUS
  <2>1. p.at = "enter"
    BY <1>7 DEF Enter, At, p
  <2>2. CASE root # Null
    <3>1. q = Committing(p, root) /\ root \in Bundles
      BY <1>1, <1>7, <2>2 DEF Enter, p
    <3> QED
      BY <1>1, <1>2, <1>3, <2>1, <3>1, CommittingKnown
  <2>3. CASE root = Null /\ p.sources \subseteq waiting
    <3>1. q = [p EXCEPT !.at = "install", !.job = Candidate(p)]
      BY <1>1, <1>7, <2>3 DEF Enter, p
    <3> DEFINE j == Candidate(p)
    <3>2. j.draft = p.row.draft /\ j.ids = p.sources
      BY DEF Candidate
    <3> HIDE DEF j
    <3>3. q.at = "install" /\ q.job = j /\ SameRow(p, q)
      BY <1>1, <3>1 DEF TabState, SameRow, j
    <3>4. RowKnown(q)
      BY <1>1, <2>1, <3>3 DEF RowKnown, SameRow, EnterAts, RecoverAts
    <3>5. intent # Null /\ intent.phase = "pending"
      BY <1>1, <2>1 DEF StoreKnown, EnterAts
    <3>6. StoreKnown(q)' /\ OutcomeKnown(q)'
      <4>1. ~q.handoff
        BY <3>3, <3>4 DEF RowKnown, EnterAts
      <4> QED
        BY <1>2, <2>3, <3>2, <3>3, <3>5, <4>1 DEF StoreKnown, SameRow, OutcomeKnown, Receipted,
           EnterAts, RowOnlyAts, HandleAts
    <3> QED
      BY <1>3, <3>3, <3>4, <3>6 DEF SameRow
  <2>4. CASE root = Null /\ ~(p.sources \subseteq waiting)
    <3>1. q = Idle(p.cred)
      BY <1>1, <1>7, <2>4 DEF Enter, p
    <3> QED
      BY <1>4, <3>1
  <2> QED
    BY <2>2, <2>3, <2>4
<1>8. CASE Plain(t)
  <2> SUFFICES ASSUME NEW q, q = tab'[t] PROVE DraftInv(q)'
    OBVIOUS
  <2> DEFINE j == PlainRequest(Min(Drawable \ Drawn), p.row.draft)
  <2>1. p.at = "plain" /\ (q = Idle(p.cred) \/ q = [p EXCEPT !.at = "plainWait", !.job = j])
    BY <1>1, <1>8 DEF Plain, At, p
  <2>2. j.envelope = p.row.draft
    BY DEF PlainRequest
  <2> HIDE DEF j
  <2>3. ASSUME q = [p EXCEPT !.at = "plainWait", !.job = j] PROVE DraftInv(q)'
    <3>1. q.at = "plainWait" /\ q.job = j /\ SameRow(p, q)
      BY <1>1, <2>3 DEF TabState, SameRow
    <3>2. RowKnown(q)
      BY <1>1, <2>1, <3>1 DEF RowKnown, SameRow, EnterAts, RecoverAts
    <3>3. ~Uncommitted \/ (p.sources = {} /\ root.draft # p.row.draft)
      BY <1>1, <2>1 DEF StoreKnown, RowOnlyAts
    <3>4. StoreKnown(q)' /\ OutcomeKnown(q)'
      BY <1>2, <2>2, <3>1, <3>3 DEF StoreKnown, SameRow, OutcomeKnown, Uncommitted, EnterAts,
         BundleAts, StageAts, SealAts, FinalAts, HandleAts
    <3> QED
      BY <1>3, <3>1, <3>2, <3>4 DEF SameRow
  <2> QED
    BY <1>4, <2>1, <2>3
<1>9. CASE Timeout(t) \/ Close(t) \/ Reload(t)
  <2>1. tab'[t] \in {Idle(session), Caught(p)}
    BY <1>1, <1>9 DEF Timeout, Close, Reload, p
  <2> QED
    BY <1>4, <2>1
<1> QED
  BY <1>5, <1>6, <1>7, <1>8, <1>9

\* Sending a bundle, a tab gives up or goes on with the same row.
LEMMA BundleMoves ==
  ASSUME NEW t \in Tabs, DraftNow(t),
         \/ NextStage(t) \/ Seal(t) \/ Sends(t) \/ Staged(t) \/ Unseal(t) \/ Finalize(t)
         \/ Remember(t)
  PROVE  /\ tab[t].at \in BundleAts \ {"install"}
         /\ \A q : q = tab'[t] =>
              q = Caught(tab[t])
                \/ (SameRow(tab[t], q) /\ q.at \in BundleAts \ {"install"})
<1> DEFINE p == tab[t]
<1>1. /\ p \in TabState
      /\ \A to : Become(t, to) => tab'[t] = to
      /\ \A w : Go(t, w) => tab'[t] = [p EXCEPT !.at = w]
  BY DraftFacts
<1>2. p.at \in BundleAts \ {"install"}
  BY DEF NextStage, Seal, Sends, Staged, Unseal, Finalize, Remember, At, BundleAts, StageAts,
         SealAts, FinalAts
<1>3. root # Null /\ ~(root.rev > 0)
  <2>1. root # Null /\ root.rev = 0
    BY <1>2 DEF DraftNow, InHand
  <2> QED
    BY <2>1
<1> SUFFICES ASSUME NEW q, q = tab'[t]
             PROVE  q = Caught(p) \/ (SameRow(p, q) /\ q.at \in BundleAts \ {"install"})
  BY <1>2
<1> HIDE DEF p
<1>5. {"stageSend", "seal", "stageWait", "finalWait", "unseal", "stage", "finalSend", "commit"}
        \subseteq BundleAts \ {"install"}
  BY DEF BundleAts, StageAts, SealAts, FinalAts
<1>6. CASE NextStage(t)
  <2>1. PICK a : a = Min(p.todo)
    OBVIOUS
  <2>2. CASE tab'[t] = [p EXCEPT !.todo = p.todo \ {a}]
    <3>1. SameRow(p, q) /\ q.at = p.at
      BY <1>1, <2>2 DEF TabState, SameRow
    <3> QED
      BY <1>2, <3>1 DEF p
  <2>3. CASE \E e : tab'[t] = [p EXCEPT !.at = "stageSend", !.envelope = e]
    <3>1. SameRow(p, q) /\ q.at = "stageSend"
      BY <1>1, <2>3 DEF TabState, SameRow
    <3> QED
      BY <1>5, <3>1
  <2>4. CASE tab'[t] = [p EXCEPT !.at = "seal"]
    <3>1. SameRow(p, q) /\ q.at = "seal"
      BY <1>1, <2>4 DEF TabState, SameRow
    <3> QED
      BY <1>5, <3>1
  <2>5. \/ tab'[t] = Caught(p)
        \/ tab'[t] = [p EXCEPT !.todo = p.todo \ {a}]
        \/ \E e : tab'[t] = [p EXCEPT !.at = "stageSend", !.envelope = e]
        \/ tab'[t] = [p EXCEPT !.at = "seal"]
    BY <1>1, <1>6, <2>1 DEF NextStage, p
  <2> QED
    BY <2>2, <2>3, <2>4, <2>5
<1>7. CASE Seal(t)
  <2>1. \/ tab'[t] = Caught(p)
        \/ \E e : tab'[t] = [p EXCEPT !.at = "stageSend", !.envelope = e]
    BY <1>1, <1>7 DEF Seal, p
  <2>2. ASSUME NEW e, tab'[t] = [p EXCEPT !.at = "stageSend", !.envelope = e]
        PROVE  SameRow(p, q) /\ q.at = "stageSend"
    BY <1>1, <2>2 DEF TabState, SameRow
  <2> QED
    BY <1>5, <2>1, <2>2
<1>8. CASE Sends(t)
  <2>1. \/ tab'[t] = Caught(p)
        \/ \E w \in {"stageWait", "finalWait"} : tab'[t] = [p EXCEPT !.at = w]
    BY <1>1, <1>8 DEF Sends, p
  <2>2. ASSUME NEW w \in {"stageWait", "finalWait"}, tab'[t] = [p EXCEPT !.at = w]
        PROVE  SameRow(p, q) /\ q.at = w
    BY <1>1, <2>2 DEF TabState, SameRow
  <2> QED
    BY <1>5, <2>1, <2>2
<1>9. CASE Staged(t)
  <2>1. tab'[t] = Caught(p) \/ tab'[t] = [p EXCEPT !.at = "unseal"]
    BY <1>1, <1>9 DEF Staged, p
  <2>2. ASSUME tab'[t] = [p EXCEPT !.at = "unseal"] PROVE SameRow(p, q) /\ q.at = "unseal"
    BY <1>1, <2>2 DEF TabState, SameRow
  <2> QED
    BY <1>5, <2>1, <2>2
<1>10. CASE Unseal(t)
  <2>1. PICK S : tab'[t] = [p EXCEPT !.at = "stage", !.todo = S]
    BY <1>1, <1>3, <1>10 DEF Unseal, p
  <2>2. SameRow(p, q) /\ q.at = "stage"
    BY <1>1, <2>1 DEF TabState, SameRow
  <2> QED
    BY <1>5, <2>2
<1>11. CASE Finalize(t)
  <2>1. tab'[t] = Caught(p) \/ \E j : tab'[t] = [p EXCEPT !.at = "finalSend", !.job = j]
    BY <1>1, <1>3, <1>11 DEF Finalize, p
  <2>2. ASSUME NEW j, tab'[t] = [p EXCEPT !.at = "finalSend", !.job = j]
        PROVE  SameRow(p, q) /\ q.at = "finalSend"
    BY <1>1, <2>2 DEF TabState, SameRow
  <2> QED
    BY <1>5, <2>1, <2>2
<1>12. CASE Remember(t)
  <2>1. tab'[t] = [p EXCEPT !.at = "commit"]
    BY <1>1, <1>12 DEF Remember, p
  <2>2. SameRow(p, q) /\ q.at = "commit"
    BY <1>1, <2>1 DEF TabState, SameRow
  <2> QED
    BY <1>5, <2>2
<1> QED
  BY <1>6, <1>7, <1>8, <1>9, <1>10, <1>11, <1>12

\* A bundle that is sent on keeps its owner, draft and attachments.
LEMMA BundleKnown ==
  ASSUME NEW p \in TabState, RowKnown(p), StoreKnown(p), p.at \in BundleAts \ {"install"},
         NEW q, SameRow(p, q), q.at \in BundleAts \ {"install"}, root'.owner = root.owner
  PROVE  RowKnown(q) /\ StoreKnown(q)' /\ OutcomeKnown(q)'
<1>1. q.at \notin RecoverAts \cup EnterAts \cup RowOnlyAts \cup HandleAts
                  \cup {"remove", "drop", "settle", "plainWait", "reject"}
      /\ p.at # "remove"
  BY DEF BundleAts, StageAts, SealAts, FinalAts, RecoverAts, EnterAts, RowOnlyAts, HandleAts
<1>2. RowKnown(q)
  BY <1>1 DEF RowKnown, SameRow, RecoverAts
<1>3. q.handoff => root'.owner # q.cred
  BY DEF StoreKnown, SameRow
<1>4. StoreKnown(q)'
  BY <1>1, <1>3 DEF StoreKnown, RecoverAts, EnterAts
<1>5. OutcomeKnown(q)'
  BY <1>1 DEF OutcomeKnown
<1> QED
  BY <1>2, <1>4, <1>5

LEMMA SendDraft ==
  ASSUME NEW t \in Tabs, DraftNow(t),
         \/ NextStage(t) \/ Seal(t) \/ Sends(t) \/ Staged(t) \/ Unseal(t) \/ Finalize(t)
         \/ Remember(t)
  PROVE  \A q : q = tab'[t] => DraftInv(q)'
<1> SUFFICES ASSUME NEW q, q = tab'[t] PROVE DraftInv(q)'
  OBVIOUS
<1> DEFINE p == tab[t]
<1>1. /\ p \in TabState /\ root \in Bundles \cup {Null} /\ CompoundTypeOK /\ JobsAgree
      /\ StoreAligned /\ Dated(p) /\ Aligned(p) /\ RowKnown(p) /\ StoreKnown(p)
  BY DraftFacts, HeadsGiveJobs DEF DraftNow, DraftInv, CoreInv
<1>2. /\ p.at \in BundleAts \ {"install"}
      /\ q = Caught(p) \/ (SameRow(p, q) /\ q.at \in BundleAts \ {"install"})
  BY BundleMoves
<1>3. root \in Bundles /\ root # Null /\ root.rev = 0
  BY <1>1, <1>2 DEF DraftNow, InHand
<1>4. /\ root' \in Bundles /\ root'.rev = 0 /\ root'.draft = root.draft
      /\ root'.ids = root.ids /\ root'.owner = root.owner /\ root' # Null
  <2>1. CASE root' = root
    BY <1>3, <2>1
  <2>2. CASE root' # root /\ Staged(t)
    <3>1. \E a \in root.ids, e \in Seals : root' = [root EXCEPT !.hashes[a] = e]
      BY <1>1, <2>2, RootMoves
    <3> QED
      BY <1>3, <3>1, BundleSteps, BundleFacts
  <2>3. CASE root' # root /\ Finalize(t)
    <3>1. root' = [root EXCEPT !.final = TRUE]
      BY <1>1, <2>3, RootMoves
    <3> QED
      BY <1>3, <3>1, BundleSteps, BundleFacts
  <2>4. root' = root \/ Staged(t) \/ Finalize(t)
    BY DEF NextStage, Seal, Sends, Unseal, Remember, device
  <2> QED
    BY <2>1, <2>2, <2>3, <2>4
<1>5. UNCHANGED <<index, intent, outbox, waiting, written>>
  BY DEF NextStage, Seal, Sends, Staged, Unseal, Finalize, Remember, device, fixed, kept
<1>6. RowKnown(q) /\ StoreKnown(q)' /\ OutcomeKnown(q)' /\ (q.row = p.row \/ q.row = Null)
  <2>1. CASE q = Caught(p)
    BY <1>1, <2>1, CaughtKnown
  <2>2. CASE SameRow(p, q) /\ q.at \in BundleAts \ {"install"}
    BY <1>1, <1>2, <1>4, <2>2, BundleKnown DEF SameRow
  <2> QED
    BY <1>2, <2>1, <2>2
<1> HIDE DEF p
<1>7. StoreAligned'
  BY <1>1, <1>3, <1>4, <1>5 DEF StoreAligned, Receipted, Uncommitted
<1>8. Dated(q)'
  BY <1>1, <1>3, <1>4, <1>5, <1>6 DEF Dated
<1>9. ASSUME NEW d, Own(q, d)' PROVE Own(p, d)
  BY <1>5, <1>6, <1>9 DEF Own
<1>10. Aligned(q)'
  BY <1>1, <1>3, <1>4, <1>5, <1>9 DEF Aligned, Uncommitted
<1>11. RowKnown(q)'
  BY <1>6 DEF RowKnown
<1> QED
  BY <1>6, <1>7, <1>8, <1>10, <1>11 DEF DraftInv

LEMMA CommitDraft ==
  ASSUME NEW t \in Tabs, DraftNow(t), Commit(t)
  PROVE  \A q : q = tab'[t] => DraftInv(q)'
<1> SUFFICES ASSUME NEW q, q = tab'[t] PROVE DraftInv(q)'
  OBVIOUS
<1> DEFINE p == tab[t]
<1>1. /\ p \in TabState /\ root \in Bundles \cup {Null} /\ p.rev \in Nat /\ p.rev > 0
      /\ p.at = "commit" /\ InHand(p)
      /\ StoreAligned /\ Dated(p) /\ Aligned(p) /\ RowKnown(p) /\ StoreKnown(p)
  BY DraftFacts, TabFields DEF DraftNow, DraftInv, HandlesStored, Commit, At
<1>2. root \in Bundles /\ root # Null /\ root = p.job /\ root.final /\ root.rev = 0
  BY <1>1 DEF InHand, BundleAts, FinalAts
<1>3. /\ root' = [root EXCEPT !.rev = p.rev] /\ index' = HandleOf(root')
      /\ tab'[t] = Sending(p, root')
      /\ UNCHANGED <<intent, outbox, waiting, written>>
  <2>1. Same(root, p.job)
    BY <1>2 DEF Same
  <2> QED
    BY <1>2, <2>1, DraftFacts DEF Commit, kept
<1> HIDE DEF p
<1>4. /\ root' \in Bundles /\ root'.rev = p.rev /\ root'.draft = root.draft
      /\ root'.ids = root.ids /\ root' # Null /\ root'.rev > 0
  BY <1>1, <1>2, <1>3, BundleSteps, BundleFacts
<1>5. SentOn(p, root', q) /\ q.then = p.then /\ q.handoff = p.handoff
  <2>1. \A r : q = Sending(p, r) =>
          SentOn(p, r, q) /\ q.then = p.then /\ q.handoff = p.handoff
    BY <1>1, SendingFields
  <2> QED
    BY <1>3, <2>1
<1>6. RowKnown(q) /\ StoreKnown(q)' /\ OutcomeKnown(q)' /\ q.row = p.row
  <2>1. /\ q.then \in {"listed", "pending"} => p.recovers
        /\ q.then = "begin" => p.sources # {} /\ p.row # Null
        /\ q.handoff => q.then \in {"idle", "pending"}
    BY <1>1, <1>5 DEF RowKnown
  <2>2. \A r \in Bundles : r = root' /\ SentOn(p, r, q) =>
          RowKnown(q) /\ StoreKnown(q)' /\ OutcomeKnown(q)'
    BY <1>1, <1>4, <2>1, SentKnown
  <2> QED
    BY <1>4, <1>5, <2>2 DEF SentOn
<1>7. StoreAligned'
  BY <1>3, <1>4 DEF StoreAligned, Receipted, Uncommitted, HandleOf
<1>8. Dated(q)'
  BY <1>1, <1>2, <1>3, <1>4, <1>6 DEF Dated
<1>9. ASSUME NEW d, Own(q, d)' PROVE Own(p, d)
  BY <1>3, <1>6, <1>9 DEF Own
<1>10. Aligned(q)'
  BY <1>1, <1>2, <1>3, <1>4, <1>9 DEF Aligned, Uncommitted
<1>11. RowKnown(q)'
  BY <1>6 DEF RowKnown
<1> QED
  BY <1>6, <1>7, <1>8, <1>10, <1>11 DEF DraftInv

\* What goes from the store takes nothing with it that a kept row relies on.
LEMMA StoreGoes ==
  ASSUME NEW p, StoreAligned, Dated(p), Aligned(p), root \in Bundles \cup {Null},
         \/ root' = root /\ index' = index
         \/ root' = Null /\ (index' = Null \/ (index' = index /\ ~Receipted)),
         \/ intent' = intent
         \/ /\ ~Uncommitted'
            /\ intent' # Null => intent # Null /\ intent'.draft = intent.draft,
         outbox' = outbox \/ outbox' = Null, written' = written,
         waiting \subseteq waiting' \/ ~Uncommitted',
         NEW q, q.row = p.row \/ q.row = Null
  PROVE  StoreAligned' /\ Dated(q)' /\ Aligned(q)'
<1>1. root' = root \/ root' = Null
  OBVIOUS
<1>2. StoreAligned'
  BY <1>1 DEF StoreAligned, Receipted, Uncommitted, HandleOf
<1>3. intent' # Null => intent # Null /\ intent'.draft = intent.draft
  OBVIOUS
<1>4. Dated(q)'
  BY <1>1, <1>3 DEF Dated
<1>5. ASSUME NEW d, Own(q, d)' PROVE Own(p, d)
  BY <1>5 DEF Own
<1>6. Aligned(q)'
  BY <1>1, <1>3, <1>5 DEF Aligned, Uncommitted
<1> QED
  BY <1>2, <1>4, <1>6

\* A tab that leaves for a place without a promise on its row.
LEMMA RowGoes ==
  ASSUME NEW p, RowKnown(p), p.at # "remove", NEW q, SameRow(p, q),
         q.at \notin RecoverAts \cup EnterAts \cup {"remove"}
  PROVE  RowKnown(q)
BY DEF RowKnown, SameRow, RecoverAts

LEMMA RowOnlyKnown ==
  ASSUME NEW q, q.at \in RowOnlyAts,
         ~Uncommitted' \/ (q.sources = {} /\ root'.draft # q.row.draft)
  PROVE  StoreKnown(q)'
<1>1. q.at \notin HandleAts \cup EnterAts \cup BundleAts \cup {"stale", "drop"}
  BY DEF RowOnlyAts, HandleAts, EnterAts, BundleAts, StageAts, SealAts, FinalAts
<1> QED
  BY <1>1 DEF StoreKnown, EnterAts, HandleAts

LEMMA HandleKnown ==
  ASSUME NEW q, q.at \in HandleAts, Receipted', q.job = HandleOf(root)',
         q.at # "finish" =>
           intent' # Null /\ q.intent # Null /\ q.intent.draft = intent'.draft
  PROVE  StoreKnown(q)' /\ OutcomeKnown(q)'
<1>1. q.at \notin EnterAts \cup BundleAts \cup RowOnlyAts \cup {"stale", "drop", "settle"}
  BY DEF RowOnlyAts, HandleAts, EnterAts, BundleAts, StageAts, SealAts, FinalAts
<1> QED
  BY <1>1 DEF StoreKnown, OutcomeKnown, EnterAts, HandleAts, RowOnlyAts

LEMMA DropKnown ==
  ASSUME NEW q, q.at = "drop", ~Uncommitted',
         q.then = "begin" => root' = Null /\ (intent' # Null => intent'.draft = q.intent.draft)
  PROVE  StoreKnown(q)' /\ OutcomeKnown(q)'
BY DEF StoreKnown, OutcomeKnown, EnterAts, RowOnlyAts, HandleAts, BundleAts, StageAts, SealAts,
       FinalAts

LEMMA CancelDraft ==
  ASSUME NEW t \in Tabs, DraftNow(t), Cancel(t)
  PROVE  \A q : q = tab'[t] => DraftInv(q)'
<1> SUFFICES ASSUME NEW q, q = tab'[t] PROVE DraftInv(q)'
  OBVIOUS
<1> DEFINE p == tab[t]
<1>1. /\ p \in TabState /\ TabComplete(p) /\ p.cred \in Owners /\ p.at = "cancel"
      /\ root \in Bundles \cup {Null}
      /\ StoreAligned /\ Dated(p) /\ Aligned(p) /\ RowKnown(p)
  BY DraftFacts DEF DraftNow, DraftInv, Cancel, At
<1>2. p.recovers /\ p.row = Null /\ p.handoff \in BOOLEAN
  BY <1>1 DEF RowKnown, RecoverAts, TabState
<1>3. UNCHANGED <<index, intent, outbox, waiting, written>>
  BY DEF Cancel, kept
<1>4. CASE root # Null /\ root.rev = 0 /\ ~root.final
  <2>1. root' = Null /\ q = [p EXCEPT !.at = "drop", !.then = "pending"]
    BY <1>4, DraftFacts DEF Cancel
  <2> HIDE DEF p
  <2>2. /\ q.at = "drop" /\ q.then = "pending" /\ q.row = p.row /\ q.recovers = p.recovers
        /\ q.handoff = p.handoff
    BY <1>1, <2>1 DEF TabState
  <2>3. RowKnown(q)
    BY <1>2, <2>2 DEF RowKnown, RecoverAts, EnterAts
  <2>4. ~Uncommitted' /\ ~Receipted
    BY <1>4, <2>1 DEF Uncommitted, Receipted
  <2>5. StoreKnown(q)' /\ OutcomeKnown(q)'
    BY <2>2, <2>4, DropKnown
  <2>6. StoreAligned' /\ Dated(q)' /\ Aligned(q)'
    BY <1>1, <1>3, <2>1, <2>2, <2>4, StoreGoes
  <2> QED
    BY <2>3, <2>5, <2>6 DEF DraftInv, RowKnown
<1>5. CASE ~(root # Null /\ root.rev = 0 /\ ~root.final)
  <2>1. root' = root /\ q = Idle(p.cred)
    BY <1>5, DraftFacts DEF Cancel
  <2>2. UNCHANGED stored
    BY <1>3, <2>1 DEF stored
  <2> QED
    BY <1>1, <2>1, <2>2, IdleKnown, KeptDraft
<1> QED
  BY <1>4, <1>5

LEMMA DropDraft ==
  ASSUME NEW t \in Tabs, DraftNow(t), Drop(t)
  PROVE  \A q : q = tab'[t] => DraftInv(q)'
<1> SUFFICES ASSUME NEW q, q = tab'[t] PROVE DraftInv(q)'
  OBVIOUS
<1> DEFINE p == tab[t]
<1>1. /\ p \in TabState /\ TabComplete(p) /\ p.cred \in Owners /\ p.at = "drop"
      /\ root \in Bundles \cup {Null}
      /\ StoreAligned /\ Dated(p) /\ Aligned(p) /\ RowKnown(p) /\ StoreKnown(p)
  BY DraftFacts DEF DraftNow, DraftInv, Drop, At
<1>2. /\ UNCHANGED <<root, index, outbox, waiting, written>>
      /\ intent' = IF intent # Null /\ intent.draft = p.intent.draft THEN Null ELSE intent
      /\ IF p.then = "idle" THEN q = Idle(p.cred) ELSE q = [p EXCEPT !.at = p.then]
  BY DraftFacts DEF Drop, fixed
<1>3. ~Uncommitted /\ ~Uncommitted'
  BY <1>1, <1>2 DEF StoreKnown, Uncommitted
<1> HIDE DEF p
<1>4. RowKnown(q) /\ StoreKnown(q)' /\ OutcomeKnown(q)' /\ (q.row = p.row \/ q.row = Null)
  <2>1. CASE p.then = "idle"
    BY <1>1, <1>2, <2>1, IdleKnown
  <2>2. CASE p.then \in {"listed", "pending"}
    <3>0. q = [p EXCEPT !.at = p.then] /\ p \in TabState
      BY <1>1, <1>2, <2>2
    <3>1. q.at = p.then /\ SameRow(p, q)
      BY <3>0, AtMoved DEF SameWork
    <3>2. RowKnown(q)
      BY <1>1, <2>2, <3>1 DEF RowKnown, SameRow, EnterAts
    <3> QED
      BY <2>2, <3>1, <3>2, EasyPlaces DEF SameRow
  <2>3. CASE p.then = "begin"
    <3>0. q = [p EXCEPT !.at = "begin"]
      BY <1>2, <2>3
    <3>1. q.at = "begin" /\ SameRow(p, q)
      BY <1>1, <3>0, AtMoved DEF SameWork
    <3>2. RowKnown(q)
      BY <1>1, <2>3, <3>1 DEF RowKnown, SameRow, RecoverAts
    <3>3. root' = Null /\ intent' = Null
      BY <1>1, <1>2, <2>3 DEF StoreKnown
    <3>4. StoreKnown(q)' /\ OutcomeKnown(q)'
      BY <3>1, <3>3 DEF StoreKnown, OutcomeKnown, Receipted, EnterAts, RowOnlyAts, HandleAts,
         BundleAts, StageAts, SealAts, FinalAts
    <3> QED
      BY <3>1, <3>2, <3>4 DEF SameRow
  <2>4. p.then \in {"idle", "listed", "pending", "begin"}
    BY <1>1 DEF TabState
  <2> QED
    BY <2>1, <2>2, <2>3, <2>4
<1>5. StoreAligned' /\ Dated(q)' /\ Aligned(q)'
  BY <1>1, <1>2, <1>3, <1>4, StoreGoes
<1> QED
  BY <1>4, <1>5 DEF DraftInv, RowKnown

LEMMA FinishDraft ==
  ASSUME NEW t \in Tabs, DraftNow(t), Finishes(t)
  PROVE  \A q : q = tab'[t] => DraftInv(q)'
<1> SUFFICES ASSUME NEW q, q = tab'[t] PROVE DraftInv(q)'
  OBVIOUS
<1> DEFINE p == tab[t]
<1>1. /\ p \in TabState /\ TabComplete(p) /\ p.cred \in Owners /\ p.at = "finish"
      /\ root \in Bundles \cup {Null} /\ intent \in UploadIntents \cup {Null}
      /\ StoreAligned /\ Dated(p) /\ Aligned(p) /\ RowKnown(p) /\ StoreKnown(p)
  BY DraftFacts DEF DraftNow, DraftInv, Finishes, At
<1>2. UNCHANGED <<root, index, intent, outbox, written>>
  BY DEF Finishes, kept
<1>3. /\ Receipted /\ Receipted' /\ ~Uncommitted'
      /\ p.job = HandleOf(root) /\ HandleOf(root)' = HandleOf(root)
  BY <1>1, <1>2, BundleFacts DEF StoreKnown, HandleAts, Receipted, Uncommitted, HandleOf
<1>4. \/ q = Idle(p.cred)
      \/ /\ intent # Null
         /\ \E w \in {"clear", "complete"} : q = [p EXCEPT !.at = w, !.intent = intent]
  BY DraftFacts DEF Finishes
<1> HIDE DEF p
<1>5. RowKnown(q) /\ StoreKnown(q)' /\ OutcomeKnown(q)' /\ (q.row = p.row \/ q.row = Null)
  <2>1. CASE q = Idle(p.cred)
    BY <1>1, <2>1, IdleKnown
  <2>2. ASSUME intent # Null, NEW w \in {"clear", "complete"},
               q = [p EXCEPT !.at = w, !.intent = intent]
        PROVE  RowKnown(q) /\ StoreKnown(q)' /\ OutcomeKnown(q)' /\ q.row = p.row
    <3>1. /\ q.at = w /\ q.intent = intent /\ q.row = p.row /\ q.recovers = p.recovers
          /\ q.handoff = p.handoff /\ q.then = p.then /\ q.sources = p.sources
          /\ q.job = p.job
      BY <1>1, <2>2 DEF TabState
    <3>2. RowKnown(q)
      BY <1>1, <3>1 DEF RowKnown, RecoverAts, EnterAts
    <3>3. q.at \in HandleAts /\ q.job = HandleOf(root)'
          /\ intent' # Null /\ q.intent # Null /\ q.intent.draft = intent'.draft
      BY <1>2, <1>3, <2>2, <3>1 DEF HandleAts
    <3>4. StoreKnown(q)' /\ OutcomeKnown(q)'
      BY <1>3, <3>3, HandleKnown
    <3> QED
      BY <3>1, <3>2, <3>4
  <2> QED
    BY <1>4, <2>1, <2>2
<1>6. StoreAligned' /\ Dated(q)' /\ Aligned(q)'
  BY <1>1, <1>2, <1>3, <1>5, StoreGoes
<1> QED
  BY <1>5, <1>6 DEF DraftInv, RowKnown

LEMMA MarkDraft ==
  ASSUME NEW t \in Tabs, DraftNow(t), Mark(t)
  PROVE  \A q : q = tab'[t] => DraftInv(q)'
<1> SUFFICES ASSUME NEW q, q = tab'[t] PROVE DraftInv(q)'
  OBVIOUS
<1> DEFINE p == tab[t]
<1>1. /\ p \in TabState /\ TabComplete(p) /\ p.at = "mark"
      /\ root \in Bundles \cup {Null} /\ intent \in UploadIntents \cup {Null}
      /\ StoreAligned /\ Dated(p) /\ Aligned(p) /\ RowKnown(p) /\ StoreKnown(p)
  BY DraftFacts DEF DraftNow, DraftInv, Mark, At
<1>2. intent # Null /\ p.intent # Null /\ p.intent.draft = intent.draft /\ intent \in UploadIntents
  BY <1>1 DEF StoreKnown, HandleAts
<1>3. /\ UNCHANGED <<root, index, outbox, waiting, written>>
      /\ intent' = [intent EXCEPT !.phase = "reconciled"]
      /\ q = [p EXCEPT !.at = "complete"]
  BY <1>2, DraftFacts DEF Mark, kept
<1>4. intent' # Null /\ intent'.draft = intent.draft
  <2>1. intent' \in UploadIntents /\ intent'.draft = intent.draft
    BY <1>2, <1>3 DEF UploadIntents
  <2> QED
    BY <2>1, CompoundAssumption
<1>5. /\ Receipted /\ Receipted' /\ ~Uncommitted'
      /\ p.job = HandleOf(root) /\ HandleOf(root)' = HandleOf(root)
  BY <1>1, <1>3, BundleFacts DEF StoreKnown, HandleAts, Receipted, Uncommitted, HandleOf
<1> HIDE DEF p
<1>6. q.at = "complete" /\ SameWork(p, q)
  BY <1>1, <1>3, AtMoved
<1>7. RowKnown(q)
  BY <1>1, <1>6, RowGoes DEF SameWork, RecoverAts, EnterAts
<1>8. StoreKnown(q)' /\ OutcomeKnown(q)'
  <2>1. q.at \in HandleAts /\ q.job = HandleOf(root)'
          /\ intent' # Null /\ q.intent # Null /\ q.intent.draft = intent'.draft
    BY <1>2, <1>4, <1>5, <1>6 DEF SameWork, SameRow, HandleAts
  <2> QED
    BY <1>5, <2>1, HandleKnown
<1>9. StoreAligned' /\ Dated(q)' /\ Aligned(q)'
  <2>1. q.row = p.row
    BY <1>6 DEF SameWork, SameRow
  <2> QED
    BY <1>1, <1>2, <1>3, <1>4, <1>5, <2>1, StoreGoes
<1> QED
  BY <1>7, <1>8, <1>9 DEF DraftInv, RowKnown

LEMMA ClearDraft ==
  ASSUME NEW t \in Tabs, DraftNow(t), Clear(t)
  PROVE  \A q : q = tab'[t] => DraftInv(q)'
<1> SUFFICES ASSUME NEW q, q = tab'[t] PROVE DraftInv(q)'
  OBVIOUS
<1> DEFINE p == tab[t]
<1>1. /\ p \in TabState /\ TabComplete(p) /\ p.at = "clear"
      /\ root \in Bundles \cup {Null}
      /\ StoreAligned /\ Dated(p) /\ Aligned(p) /\ RowKnown(p) /\ StoreKnown(p)
  BY DraftFacts DEF DraftNow, DraftInv, Clear, At
<1>2. /\ UNCHANGED <<root, index, intent, waiting, written>>
      /\ outbox' = outbox \/ outbox' = Null
      /\ q = [p EXCEPT !.at = "mark"]
  BY DraftFacts DEF Clear, Clears, kept
<1>3. /\ Receipted' /\ p.job = HandleOf(root) /\ HandleOf(root)' = HandleOf(root)
      /\ intent' # Null /\ p.intent # Null /\ p.intent.draft = intent'.draft
  BY <1>1, <1>2 DEF StoreKnown, HandleAts, Receipted, HandleOf
<1> HIDE DEF p
<1>4. q.at = "mark" /\ SameWork(p, q)
  BY <1>1, <1>2, AtMoved
<1>5. RowKnown(q)
  BY <1>1, <1>4, RowGoes DEF SameWork, RecoverAts, EnterAts
<1>6. StoreKnown(q)' /\ OutcomeKnown(q)'
  <2>1. q.at \in HandleAts /\ q.job = HandleOf(root)'
          /\ q.intent # Null /\ q.intent.draft = intent'.draft
    BY <1>3, <1>4 DEF SameWork, SameRow, HandleAts
  <2> QED
    BY <1>3, <2>1, HandleKnown
<1>7. StoreAligned' /\ Dated(q)' /\ Aligned(q)'
  <2>1. q.row = p.row
    BY <1>4 DEF SameWork, SameRow
  <2> QED
    BY <1>1, <1>2, <2>1, StoreGoes
<1> QED
  BY <1>5, <1>6, <1>7 DEF DraftInv, RowKnown

LEMMA CompleteDraft ==
  ASSUME NEW t \in Tabs, DraftNow(t), Complete(t)
  PROVE  \A q : q = tab'[t] => DraftInv(q)'
<1> SUFFICES ASSUME NEW q, q = tab'[t] PROVE DraftInv(q)'
  OBVIOUS
<1> DEFINE p == tab[t]
<1>1. /\ p \in TabState /\ TabComplete(p) /\ p.at = "complete"
      /\ root \in Bundles \cup {Null}
      /\ StoreAligned /\ Dated(p) /\ Aligned(p) /\ RowKnown(p) /\ StoreKnown(p)
  BY DraftFacts DEF DraftNow, DraftInv, Complete, At
<1>2. /\ Receipted /\ p.job = HandleOf(root)
      /\ intent # Null /\ p.intent # Null /\ p.intent.draft = intent.draft
  BY <1>1 DEF StoreKnown, HandleAts
<1>3. /\ UNCHANGED <<intent, outbox, waiting, written>>
      /\ root' = Null /\ index' = Null
      /\ q = [p EXCEPT !.at = "drop"]
  BY <1>2, DraftFacts DEF Complete, Receipted, kept
<1> HIDE DEF p
<1>4. q.at = "drop" /\ SameRow(p, q)
  BY <1>1, <1>3, AtMoved DEF SameWork
<1>5. RowKnown(q)
  BY <1>1, <1>4, RowGoes DEF RecoverAts, EnterAts
<1>6. StoreKnown(q)' /\ OutcomeKnown(q)'
  <2>1. ~Uncommitted' /\ q.intent = p.intent
    BY <1>3, <1>4 DEF Uncommitted, SameRow
  <2> QED
    BY <1>2, <1>3, <1>4, <2>1, DropKnown
<1>7. StoreAligned' /\ Dated(q)' /\ Aligned(q)'
  <2>1. q.row = p.row
    BY <1>4 DEF SameRow
  <2> QED
    BY <1>1, <1>3, <2>1, StoreGoes
<1> QED
  BY <1>5, <1>6, <1>7 DEF DraftInv, RowKnown

\* A refusal ends with the bundle gone and the row on its way to a copy, or given up.
LEMMA ConflictedKnown ==
  ASSUME NEW p \in TabState, RowKnown(p), p.at \in {"stageRefused", "finalRefused"},
         NEW q, q = Conflicted(p), root' = Null
  PROVE  RowKnown(q) /\ StoreKnown(q)' /\ OutcomeKnown(q)' /\ q.row = p.row
<1>1. SameRow(p, q) /\ q.at = "copy"
  BY SameFacts
<1>2. RowKnown(q)
  BY <1>1, RowGoes DEF RecoverAts, EnterAts
<1>3. StoreKnown(q)'
  BY <1>1, RowOnlyKnown DEF RowOnlyAts, Uncommitted
<1>4. OutcomeKnown(q)'
  BY <1>1 DEF OutcomeKnown
<1> QED
  BY <1>1, <1>2, <1>3, <1>4 DEF SameRow

LEMMA RefusedDraft ==
  ASSUME NEW t \in Tabs, DraftNow(t), Discard(t) \/ Abandon(t)
  PROVE  \A q : q = tab'[t] => DraftInv(q)'
<1> SUFFICES ASSUME NEW q, q = tab'[t] PROVE DraftInv(q)'
  OBVIOUS
<1> DEFINE p == tab[t]
<1>1. /\ p \in TabState /\ TabComplete(p) /\ p.cred \in Owners
      /\ p.at \in {"stageRefused", "finalRefused"} /\ InHand(p)
      /\ root \in Bundles \cup {Null} /\ p.recovers \in BOOLEAN /\ p.handoff \in BOOLEAN
      /\ StoreAligned /\ Dated(p) /\ Aligned(p) /\ RowKnown(p) /\ StoreKnown(p)
  BY DraftFacts DEF DraftNow, DraftInv, Discard, Abandon, TabState
<1>2. /\ root # Null /\ root.mutation = p.job.mutation /\ root.rev = 0
      /\ p.at = "stageRefused" => ~root.final
      /\ p.at = "finalRefused" => root.final
      /\ p.handoff => root.owner # p.cred
  BY <1>1 DEF InHand, StoreKnown, BundleAts, StageAts, SealAts, FinalAts
<1>3. UNCHANGED <<index, intent, outbox, waiting, written>>
  BY DEF Discard, Abandon, kept
<1>4. CASE Discard(t)
  <2>1. root' = Null
    BY <1>2, <1>4 DEF Discard, Same
  <2>2. q = Idle(p.cred) \/ q = Caught(p) \/ q = Conflicted(p)
    BY <1>4, DraftFacts DEF Discard
  <2> HIDE DEF p
  <2>3. RowKnown(q) /\ StoreKnown(q)' /\ OutcomeKnown(q)' /\ (q.row = p.row \/ q.row = Null)
    BY <1>1, <2>1, <2>2, IdleKnown, CaughtKnown, ConflictedKnown
  <2>4. StoreAligned' /\ Dated(q)' /\ Aligned(q)'
    BY <1>1, <1>2, <1>3, <2>1, <2>3, StoreGoes DEF Receipted, Uncommitted
  <2> QED
    BY <2>3, <2>4 DEF DraftInv, RowKnown
<1>5. CASE Abandon(t)
  <2>1. root' = Null
    BY <1>2, <1>5 DEF Abandon
  <2>2. \/ q = Conflicted(p)
        \/ /\ p.recovers
           /\ \E w \in {"pending", "drop"} : q = [p EXCEPT !.at = w, !.then = "pending"]
    <3>1. root # Null /\ root.rev = 0 /\ root.owner # p.cred
      BY <1>2, <1>5 DEF Abandon
    <3>2. CASE p.recovers
      BY <1>5, <3>1, <3>2, DraftFacts DEF Abandon
    <3>3. CASE ~p.recovers
      BY <1>5, <3>1, <3>3, DraftFacts DEF Abandon
    <3> QED
      BY <3>2, <3>3
  <2> HIDE DEF p
  <2>3. RowKnown(q) /\ StoreKnown(q)' /\ OutcomeKnown(q)' /\ q.row = p.row
    <3>1. CASE q = Conflicted(p)
      BY <1>1, <2>1, <3>1, ConflictedKnown
    <3>2. ASSUME p.recovers, NEW w \in {"pending", "drop"},
                 q = [p EXCEPT !.at = w, !.then = "pending"]
          PROVE  RowKnown(q) /\ StoreKnown(q)' /\ OutcomeKnown(q)' /\ q.row = p.row
      <4>0. p \in TabState /\ q = [p EXCEPT !.at = w, !.then = "pending"]
        BY <1>1, <3>2
      <4>1. /\ q.at = w /\ q.then = "pending" /\ q.row = p.row /\ q.recovers = p.recovers
            /\ q.handoff = p.handoff
        BY <4>0 DEF TabState
      <4>2. p.row = Null
        BY <1>1, <3>2 DEF RowKnown
      <4>3. RowKnown(q)
        BY <3>2, <4>1, <4>2 DEF RowKnown, EnterAts
      <4>4. ~Uncommitted'
        BY <2>1 DEF Uncommitted
      <4>5. StoreKnown(q)' /\ OutcomeKnown(q)'
        BY <4>1, <4>4, DropKnown, EasyPlaces
      <4> QED
        BY <4>1, <4>3, <4>5
    <3> QED
      BY <2>2, <3>1, <3>2
  <2>4. StoreAligned' /\ Dated(q)' /\ Aligned(q)'
    BY <1>1, <1>2, <1>3, <2>1, <2>3, StoreGoes DEF Receipted, Uncommitted
  <2> QED
    BY <2>3, <2>4 DEF DraftInv, RowKnown
<1> QED
  BY <1>4, <1>5

LEMMA RowDraft ==
  ASSUME NEW t \in Tabs, DraftNow(t),
         DropOwn(t) \/ Restore(t) \/ Preserve(t) \/ Reject(t) \/ SettleRow(t)
  PROVE  \A q : q = tab'[t] => DraftInv(q)'
<1> SUFFICES ASSUME NEW q, q = tab'[t] PROVE DraftInv(q)'
  OBVIOUS
<1> DEFINE p == tab[t]
<1>1. /\ p \in TabState /\ TabComplete(p) /\ p.cred \in Owners
      /\ root \in Bundles \cup {Null} /\ waiting \subseteq Attachments
      /\ StoreAligned /\ Dated(p) /\ Aligned(p) /\ RowKnown(p) /\ StoreKnown(p)
      /\ OutcomeKnown(p)
  BY DraftFacts DEF DraftNow, DraftInv, CompoundTypeOK, StoreTypes
<1>2. UNCHANGED <<root, index, written>> /\ (outbox' = outbox \/ outbox' = Null)
  BY DEF DropOwn, Restore, Preserve, Reject, SettleRow, Clears, kept, fixed
<1>3. ASSUME p.at \in RowOnlyAts
      PROVE  /\ p.row # Null /\ (~Uncommitted \/ (p.sources = {} /\ root.draft # p.row.draft))
             /\ p.at # "remove"
  BY <1>1, <1>3, CompoundAssumption DEF StoreKnown, TabComplete, RowAts, RowOnlyAts
<1>4. \/ intent' = intent
      \/ ~Uncommitted' /\ (intent' # Null => intent # Null /\ intent'.draft = intent.draft)
  <2>1. CASE DropOwn(t)
    <3>1. /\ p.at = "copy"
          /\ intent' = IF intent # Null /\ intent.draft = p.row.draft THEN Null ELSE intent
      BY <2>1 DEF DropOwn, At
    <3>2. p.row # Null /\ (~Uncommitted \/ root.draft # p.row.draft)
      BY <1>3, <3>1 DEF RowOnlyAts
    <3>3. Uncommitted /\ intent # Null => intent.draft # p.row.draft
      BY <1>1, <3>2 DEF Aligned, Own, Uncommitted
    <3> QED
      BY <1>2, <3>1, <3>3 DEF Uncommitted
  <2>2. CASE ~DropOwn(t)
    BY <2>2 DEF Restore, Preserve, Reject, SettleRow
  <2> QED
    BY <2>1, <2>2
<1>5. waiting \subseteq waiting' \/ ~Uncommitted'
  <2>1. CASE Reject(t)
    <3>1. p.at = "reject" /\ waiting' = waiting \ p.sources
      BY <2>1 DEF Reject, At
    <3>2. ~Uncommitted \/ p.sources = {}
      BY <1>3, <3>1 DEF RowOnlyAts
    <3> QED
      BY <1>2, <3>1, <3>2 DEF Uncommitted
  <2>2. CASE ~Reject(t)
    BY <2>2 DEF DropOwn, Restore, Preserve, SettleRow
  <2> QED
    BY <2>1, <2>2
<1>6. ASSUME NEW w, p.at \in RowOnlyAts, q = [p EXCEPT !.at = w]
      PROVE  q.at = w /\ SameRow(p, q) /\ q.row = p.row
             /\ (w \in {"restore", "preserve", "reject", "settle"} => RowKnown(q))
             /\ (w \in {"restore", "preserve", "reject"} => StoreKnown(q)')
  <2> HIDE DEF p
  <2>1. q.at = w /\ SameRow(p, q)
    BY <1>1, <1>6, AtMoved DEF SameWork
  <2>2. p.at # "remove" /\ (~Uncommitted \/ (p.sources = {} /\ root.draft # p.row.draft))
    BY <1>3, <1>6 DEF p
  <2>3. w \in {"restore", "preserve", "reject", "settle"} => RowKnown(q)
    BY <1>1, <2>1, <2>2, RowGoes DEF RecoverAts, EnterAts
  <2>4. ~Uncommitted' \/ (q.sources = {} /\ root'.draft # q.row.draft)
    BY <1>2, <2>1, <2>2 DEF Uncommitted, SameRow
  <2>5. w \in {"restore", "preserve", "reject"} => StoreKnown(q)'
    BY <2>1, <2>4, RowOnlyKnown DEF RowOnlyAts
  <2> QED
    BY <2>1, <2>3, <2>5 DEF SameRow
<1>7. RowKnown(q) /\ StoreKnown(q)' /\ OutcomeKnown(q)' /\ (q.row = p.row \/ q.row = Null)
  <2>1. CASE DropOwn(t) \/ Restore(t)
    <3>1. PICK w \in {"restore", "preserve"} : q = [p EXCEPT !.at = w] /\ p.at \in RowOnlyAts
      BY <2>1, DraftFacts DEF DropOwn, Restore, At, RowOnlyAts
    <3>2. q.at = w /\ q.row = p.row /\ RowKnown(q) /\ StoreKnown(q)'
      BY <1>6, <3>1
    <3>3. OutcomeKnown(q)'
      BY <3>2 DEF OutcomeKnown
    <3> QED
      BY <3>2, <3>3
  <2>2. CASE Preserve(t)
    <3>1. /\ q = [p EXCEPT !.at = "reject"] /\ p.at \in RowOnlyAts
          /\ copied' = copied \cup {p.row.draft}
      BY <2>2, DraftFacts DEF Preserve, At, RowOnlyAts
    <3>2. q.at = "reject" /\ q.row = p.row /\ RowKnown(q) /\ StoreKnown(q)'
      BY <1>6, <3>1
    <3>3. OutcomeKnown(q)'
      BY <3>1, <3>2 DEF OutcomeKnown
    <3> QED
      BY <3>2, <3>3
  <2>3. CASE Reject(t)
    <3>1. /\ q = [p EXCEPT !.at = "settle"] /\ p.at \in RowOnlyAts /\ p.at = "reject"
          /\ copied' = copied
      BY <2>3, DraftFacts DEF Reject, At, RowOnlyAts
    <3>2. q.at = "settle" /\ q.row = p.row /\ RowKnown(q)
      BY <1>6, <3>1
    <3>3. OutcomeKnown(q)'
      BY <1>1, <3>1, <3>2 DEF OutcomeKnown
    <3>4. StoreKnown(q)'
      BY <3>2 DEF StoreKnown, HandleAts, EnterAts, RowOnlyAts, BundleAts, StageAts, SealAts,
         FinalAts
    <3> QED
      BY <3>2, <3>3, <3>4
  <2>4. CASE SettleRow(t)
    <3>1. q = Idle(p.cred)
      BY <2>4, DraftFacts DEF SettleRow
    <3> QED
      BY <1>1, <3>1, IdleKnown
  <2> QED
    BY <2>1, <2>2, <2>3, <2>4
<1> HIDE DEF p
<1>8. StoreAligned' /\ Dated(q)' /\ Aligned(q)'
  BY <1>1, <1>2, <1>4, <1>5, <1>7, StoreGoes
<1> QED
  BY <1>7, <1>8 DEF DraftInv, RowKnown

LEMMA RemoveDraft ==
  ASSUME NEW t \in Tabs, DraftNow(t), Remove(t)
  PROVE  \A q : q = tab'[t] => DraftInv(q)'
<1> SUFFICES ASSUME NEW q, q = tab'[t] PROVE DraftInv(q)'
  OBVIOUS
<1> DEFINE p     == tab[t]
           d     == p.row.draft
           left  == waiting \ (p.row.before \ Lists[d])
           needs == left \cap Lists[d]
           w     == IF needs = {} THEN "plain" ELSE "await"
<1>1. /\ p \in TabState /\ TabComplete(p) /\ p.at = "remove"
      /\ StoreAligned /\ Dated(p) /\ Aligned(p) /\ RowKnown(p)
  BY DraftFacts DEF DraftNow, DraftInv, Remove, At
<1>2. ~p.recovers /\ p.row # Null /\ p.then = "idle" /\ ~p.handoff
  BY <1>1, CompoundAssumption DEF TabComplete, RowAts, RowKnown
<1>3. /\ waiting' = left /\ q = [p EXCEPT !.at = w, !.sources = needs]
      /\ UNCHANGED <<root, index, intent, outbox, written>>
  BY DraftFacts DEF Remove, fixed
<1>4. Uncommitted /\ Own(p, root.draft) => root.draft = d /\ root.ids # {} /\ root.ids \subseteq needs
  <2> SUFFICES ASSUME Uncommitted, Own(p, root.draft)
               PROVE  root.draft = d /\ root.ids # {} /\ root.ids \subseteq needs
    OBVIOUS
  <2>1. root.draft = d
    BY <1>1, <1>2 DEF Own, Dated, Uncommitted
  <2>2. root.ids # {} /\ root.ids \subseteq waiting \cap Lists[d]
    BY <1>1, <2>1 DEF Aligned
  <2> QED
    BY <2>1, <2>2
<1> HIDE DEF w, needs
<1>5. /\ q.at = w /\ q.sources = needs /\ q.row = p.row /\ q.recovers = p.recovers
      /\ q.then = p.then /\ q.handoff = p.handoff
  <2> HIDE DEF p, left
  <2> QED
    BY <1>1, <1>3 DEF TabState
<1>6. (w = "plain" /\ needs = {}) \/ (w = "await" /\ needs # {})
  BY DEF w
<1>7. needs \subseteq left /\ needs \subseteq Lists[d]
  BY DEF needs
<1> HIDE DEF p, left
<1>8. RowKnown(q)
  BY <1>2, <1>5, <1>6, <1>7 DEF RowKnown, EnterAts, RecoverAts, p
<1>9. StoreKnown(q)' /\ OutcomeKnown(q)'
  <2>1. CASE w = "await"
    BY <1>5, <2>1, EasyPlaces
  <2>2. CASE w = "plain"
    <3>1. needs = {} /\ q.row.draft = d
      BY <1>5, <1>6, <2>2 DEF p
    <3>2. Uncommitted => root.draft # d
      BY <1>2, <1>4, <3>1 DEF Own, p
    <3>3. ~Uncommitted' \/ (q.sources = {} /\ root'.draft # q.row.draft)
      BY <1>3, <1>5, <3>1, <3>2 DEF Uncommitted
    <3>4. StoreKnown(q)'
      BY <1>5, <2>2, <3>3, RowOnlyKnown DEF RowOnlyAts
    <3>5. OutcomeKnown(q)'
      BY <1>5, <2>2 DEF OutcomeKnown
    <3> QED
      BY <3>4, <3>5
  <2> QED
    BY <1>6, <2>1, <2>2
<1>10. StoreAligned'
  BY <1>1, <1>3 DEF StoreAligned, Receipted, Uncommitted, HandleOf
<1>11. Dated(q)'
  BY <1>1, <1>3, <1>5 DEF Dated
<1>12. ASSUME NEW e, Own(q, e)' PROVE Own(p, e)
  BY <1>3, <1>5, <1>12 DEF Own
<1>13. Aligned(q)'
  <2>1. root' # Null /\ intent' # Null /\ Own(q, intent.draft)' => root'.draft = intent'.draft
    BY <1>1, <1>3, <1>12 DEF Aligned
  <2>2. Uncommitted' /\ Own(q, root.draft)' =>
          root'.ids # {} /\ root'.ids \subseteq waiting' \cap Lists[root'.draft]
    BY <1>3, <1>4, <1>7, <1>12 DEF Uncommitted
  <2> QED
    BY <2>1, <2>2 DEF Aligned
<1> QED
  BY <1>8, <1>9, <1>10, <1>11, <1>13 DEF DraftInv, RowKnown

LEMMA BeginDraft ==
  ASSUME NEW t \in Tabs, DraftNow(t), Begins(t)
  PROVE  \A q : q = tab'[t] => DraftInv(q)'
<1> SUFFICES ASSUME NEW q, q = tab'[t] PROVE DraftInv(q)'
  OBVIOUS
<1> DEFINE p == tab[t]
           i == [draft |-> p.row.draft, uploads |-> p.sources, phase |-> "pending"]
<1>1. /\ p \in TabState /\ TabComplete(p) /\ p.at = "begin"
      /\ root \in Bundles \cup {Null} /\ intent \in UploadIntents \cup {Null}
      /\ intent' \in UploadIntents \cup {Null}
      /\ StoreAligned /\ Dated(p) /\ Aligned(p) /\ RowKnown(p) /\ StoreKnown(p)
  BY DraftFacts DEF DraftNow, DraftInv, Begins, At, CompoundTypeOK, StoreTypes
<1>2. /\ p.row # Null /\ ~Receipted /\ (intent # Null => intent.phase = "pending")
  BY <1>1 DEF RowKnown, StoreKnown, EnterAts
<1>3. i.draft = p.row.draft /\ i.phase = "pending" /\ i # Null
  <2>1. p.row \in Edits /\ p.sources \in SUBSET Attachments
    BY <1>1, <1>2, TabFields
  <2>2. i \in UploadIntents
    BY <2>1 DEF UploadIntents, Edits
  <2> QED
    BY <2>2, CompoundAssumption
<1>4. /\ UNCHANGED <<root, index, outbox, waiting, written>>
      /\ intent' = IF intent # Null THEN intent ELSE i
      /\ q = [p EXCEPT !.at = "enter"]
  BY DraftFacts DEF Begins, kept
<1> HIDE DEF p, i
<1>5. q.at = "enter" /\ SameRow(p, q)
  BY <1>1, <1>4, AtMoved DEF SameWork
<1>6. RowKnown(q)
  BY <1>1, <1>5 DEF RowKnown, SameRow, EnterAts, RecoverAts
<1>7. /\ ~Receipted' /\ intent' # Null /\ intent'.phase = "pending"
      /\ intent = Null => root = Null
  BY <1>1, <1>2, <1>3, <1>4, BundleFacts DEF Receipted, StoreAligned, Uncommitted
<1>8. StoreKnown(q)' /\ OutcomeKnown(q)'
  BY <1>5, <1>7 DEF StoreKnown, OutcomeKnown, EnterAts, RowOnlyAts, HandleAts, BundleAts,
     StageAts, SealAts, FinalAts
<1>9. StoreAligned'
  BY <1>1, <1>2, <1>4, <1>7 DEF StoreAligned, Receipted, Uncommitted
<1>10. q.row = p.row
  BY <1>5 DEF SameRow
<1>11. Dated(q)'
  BY <1>1, <1>2, <1>3, <1>4, <1>10 DEF Dated
<1>12. ASSUME NEW e, Own(q, e)' PROVE Own(p, e)
  BY <1>4, <1>10, <1>12 DEF Own
<1>13. Aligned(q)'
  BY <1>1, <1>4, <1>7, <1>12 DEF Aligned, Uncommitted
<1> QED
  BY <1>6, <1>8, <1>9, <1>11, <1>13 DEF DraftInv, RowKnown

LEMMA InstallDraft ==
  ASSUME NEW t \in Tabs, DraftNow(t), Install(t)
  PROVE  \A q : q = tab'[t] => DraftInv(q)'
<1> SUFFICES ASSUME NEW q, q = tab'[t] PROVE DraftInv(q)'
  OBVIOUS
<1> DEFINE p == tab[t]
<1>1. /\ p \in TabState /\ TabComplete(p) /\ p.at = "install"
      /\ StoreAligned /\ Dated(p) /\ Aligned(p) /\ RowKnown(p) /\ StoreKnown(p)
  BY DraftFacts DEF DraftNow, DraftInv, Install, At
<1>2. root = Null /\ p.job \in Bundles /\ p.job.rev = 0
  BY <1>1 DEF DraftNow, InHand, CoreInv, FreshInstall, TabComplete, BundleAts
<1>3. /\ p.row # Null /\ p.sources # {} /\ p.sources \subseteq Lists[p.row.draft]
      /\ intent # Null /\ intent.phase = "pending"
      /\ p.job.draft = p.row.draft /\ p.job.ids = p.sources /\ p.sources \subseteq waiting
  BY <1>1 DEF RowKnown, StoreKnown, EnterAts
<1>4. /\ root' = p.job /\ q = Committing(p, root')
      /\ UNCHANGED <<index, intent, outbox, waiting, written>>
  BY <1>2, DraftFacts DEF Install, kept
<1> HIDE DEF p
<1>5. root' \in Bundles /\ root' # Null /\ root'.rev = 0
  BY <1>2, <1>4, BundleFacts
<1>6. /\ RowKnown(q) /\ StoreKnown(q)' /\ OutcomeKnown(q)'
      /\ q.row = p.row \/ q.row = Null
  <2>1. \A r \in Bundles : r = root' /\ q = Committing(p, r) =>
          /\ RowKnown(q) /\ StoreKnown(q)' /\ OutcomeKnown(q)'
          /\ q.row = p.row \/ q.row = Null
    BY <1>1, CommittingKnown
  <2> QED
    BY <1>4, <1>5, <2>1
<1>7. StoreAligned'
  BY <1>1, <1>2, <1>3, <1>4, <1>5 DEF StoreAligned, Receipted, Uncommitted
<1>8. Dated(q)'
  BY <1>1, <1>3, <1>4, <1>6 DEF Dated
<1>9. ASSUME NEW e, Own(q, e)' PROVE Own(p, e)
  BY <1>4, <1>6, <1>9 DEF Own
<1>10. Own(p, intent.draft) => intent.draft = p.row.draft
  BY <1>1, <1>3 DEF Own, Dated
<1>11. Aligned(q)'
  <2>1. Own(q, intent.draft)' => root'.draft = intent'.draft
    BY <1>3, <1>4, <1>9, <1>10
  <2>2. root'.ids # {} /\ root'.ids \subseteq waiting' \cap Lists[root'.draft]
    BY <1>3, <1>4
  <2> QED
    BY <2>1, <2>2 DEF Aligned
<1> QED
  BY <1>6, <1>7, <1>8, <1>11 DEF DraftInv, RowKnown

LEMMA TabDraft ==
  ASSUME NEW t \in Tabs, DraftNow(t), TabStep(t)
  PROVE  \A q : q = tab'[t] => DraftInv(q)'
<1>1. CASE Recovering(t)
  BY <1>1, RecoverDraft, CancelDraft, DropDraft DEF Recovering
<1>2. CASE Pushing(t)
  BY <1>2, PushDraft, RemoveDraft, BeginDraft, InstallDraft DEF Pushing
<1>3. CASE SendingOn(t)
  BY <1>3, SendDraft, CommitDraft, PushDraft DEF SendingOn
<1>4. CASE Ending(t)
  BY <1>4, RefusedDraft, RowDraft, FinishDraft, ClearDraft, MarkDraft, CompleteDraft DEF Ending
<1>5. CASE Close(t) \/ Reload(t)
  BY <1>5, PushDraft
<1> QED
  BY <1>1, <1>2, <1>3, <1>4, <1>5 DEF TabStep

\* What a tab knows while the device's bundle and intent rest stays true: bytes to
\* upload, copies and answers only get more.
LEMMA KnownStays ==
  ASSUME NEW p, StoreKnown(p), OutcomeKnown(p), root' = root, intent' = intent,
         waiting \subseteq waiting', copied \subseteq copied', answered \subseteq answered'
  PROVE  StoreKnown(p)' /\ OutcomeKnown(p)'
<1>1. StoreKnown(p)'
  BY DEF StoreKnown, Receipted, Uncommitted, HandleOf
<1>2. OutcomeKnown(p)'
  BY DEF OutcomeKnown
<1> QED
  BY <1>1, <1>2

LEMMA ServeDraft ==
  ASSUME NEW t \in Tabs, DraftNow(t), AnswerInv', answered \subseteq answered',
         NEW s \in sent, Serve(s[1], s[2])
  PROVE  \A q : q = tab'[t] => DraftInv(q)'
<1> SUFFICES ASSUME NEW q, q = tab'[t] PROVE DraftInv(q)'
  OBVIOUS
<1> DEFINE p == tab[t]
<1>1. /\ p \in TabState /\ TabComplete(p) /\ CompoundTypeOK
      /\ RowKnown(p) /\ StoreKnown(p) /\ OutcomeKnown(p)
  BY DraftFacts DEF DraftNow, DraftInv
<1>2. UNCHANGED stored /\ copied' = copied /\ root' = root /\ intent' = intent
      /\ waiting' = waiting
  BY DEF Serve, StageAnswer, CommitAnswer, RefusalAnswer, Unauthorized, Hear, kept, stored
<1>3. q = p \/ Hears(p, q)
  BY <1>1, ServeHears
<1>4. ASSUME q.row = p.row \/ q.row = Null, RowKnown(q), StoreKnown(q)', OutcomeKnown(q)'
      PROVE  DraftInv(q)'
  BY <1>2, <1>4, KeptDraft
<1> HIDE DEF p
<1>5. CASE q = p
  <2>1. StoreKnown(q) /\ OutcomeKnown(q)
    BY <1>1, <1>5
  <2>2. StoreKnown(q)' /\ OutcomeKnown(q)'
    BY <1>2, <2>1, KnownStays
  <2> QED
    BY <1>1, <1>4, <1>5, <2>2
<1>6. CASE /\ p.at \in {"stageWait", "finalWait"} /\ SameRow(p, q)
           /\ q.at \in {"staged", "stageRefused", "told", "finalRefused"}
  <2>1. p.at \in BundleAts \ {"install"} /\ q.at \in BundleAts \ {"install"}
    BY <1>6 DEF BundleAts, StageAts, SealAts, FinalAts
  <2>2. RowKnown(q) /\ StoreKnown(q)' /\ OutcomeKnown(q)'
    BY <1>1, <1>2, <1>6, <2>1, BundleKnown
  <2> QED
    BY <1>4, <1>6, <2>2 DEF SameRow
<1>7. CASE p.at = "plainWait" /\ q.at = "copy" /\ SameRow(p, q)
  <2>1. RowKnown(q)
    BY <1>1, <1>7, RowGoes DEF RecoverAts, EnterAts
  <2>2. ~Uncommitted \/ (p.sources = {} /\ root.draft # p.row.draft)
    BY <1>1, <1>7 DEF StoreKnown, RowOnlyAts
  <2>3. StoreKnown(q)'
    <3>1. ~Uncommitted' \/ (q.sources = {} /\ root'.draft # q.row.draft)
      BY <1>2, <1>7, <2>2 DEF Uncommitted, SameRow
    <3> QED
      BY <1>7, <3>1, RowOnlyKnown DEF RowOnlyAts
  <2>4. OutcomeKnown(q)'
    BY <1>7 DEF OutcomeKnown
  <2> QED
    BY <1>4, <1>7, <2>1, <2>3, <2>4 DEF SameRow
<1>8. CASE /\ p.at = "plainWait" /\ q.at = "settle" /\ SameRow(p, q)
           /\ \E x \in answered' : x.request = p.job
  <2>1. RowKnown(q)
    BY <1>1, <1>8, RowGoes DEF RecoverAts, EnterAts
  <2>2. StoreKnown(q)'
    BY <1>8 DEF StoreKnown, HandleAts, EnterAts, RowOnlyAts, BundleAts, StageAts, SealAts,
       FinalAts
  <2>3. p.job.envelope = p.row.draft
    BY <1>1, <1>8 DEF OutcomeKnown
  <2>4. OutcomeKnown(q)'
    BY <1>8, <2>3 DEF OutcomeKnown, SameRow
  <2> QED
    BY <1>4, <1>8, <2>1, <2>2, <2>4 DEF SameRow
<1>9. CASE q = Caught(p)
  BY <1>1, <1>4, <1>9, CaughtKnown
<1> QED
  BY <1>3, <1>5, <1>6, <1>7, <1>8, <1>9 DEF Hears, SameWork

LEMMA AroundDraft ==
  ASSUME NEW t \in Tabs, DraftNow(t), answered \subseteq answered', Around,
         UNCHANGED <<root, index, intent, tab, copied>>
  PROVE  \A q : q = tab'[t] => DraftInv(q)'
<1> SUFFICES ASSUME NEW q, q = tab'[t] PROVE DraftInv(q)'
  OBVIOUS
<1> DEFINE p == tab[t]
<1>1. /\ StoreAligned /\ Dated(p) /\ Aligned(p) /\ RowKnown(p) /\ StoreKnown(p)
      /\ OutcomeKnown(p) /\ q = p
  BY DEF DraftNow, DraftInv
<1>2. waiting \subseteq waiting'
  BY DEF Around, Edit, Recredential, Disown, Pull, Elsewhere, Expire, compoundVars, device
<1>3. RowKnown(q) /\ StoreKnown(q) /\ OutcomeKnown(q)
  BY <1>1
<1>4. RowKnown(q) /\ StoreKnown(q)' /\ OutcomeKnown(q)'
  BY <1>2, <1>3, KnownStays
<1>5. CASE \E d \in Drafts : Edit(d)
  <2>1. PICK d \in Drafts : Edit(d)
    BY <1>5
  <2>2. /\ d \notin written /\ written' = written \cup {d} /\ outbox' # Null
        /\ outbox'.draft = d
    <3>1. outbox' = [draft |-> d, before |-> ListedNow]
      BY <2>1 DEF Edit
    <3>2. outbox' \in Edits
      <4>1. ListedNow \in SUBSET Attachments
        BY CompoundAssumption DEF ListedNow, DraftNow, CompoundTypeOK, StoreTypes
      <4> QED
        BY <3>1, <4>1 DEF Edits
    <3> QED
      BY <2>1, <3>1, <3>2, CompoundAssumption DEF Edit
  <2> HIDE DEF p
  <2>3. StoreAligned'
    BY <1>1 DEF StoreAligned, Receipted, Uncommitted, HandleOf
  <2>4. Dated(q)'
    BY <1>1, <2>2 DEF Dated
  <2>5. ASSUME NEW e \in written, Own(q, e)' PROVE Own(p, e)
    BY <1>1, <2>2, <2>5 DEF Own
  <2>6. Aligned(q)'
    BY <1>1, <1>2, <2>5 DEF Aligned, Dated, Uncommitted
  <2> QED
    BY <1>4, <2>3, <2>4, <2>6 DEF DraftInv, RowKnown
<1>6. CASE ~\E d \in Drafts : Edit(d)
  <2>1. UNCHANGED stored
    BY <1>6 DEF Around, Recredential, Disown, Pull, Elsewhere, Expire, compoundVars, device,
       stored
  <2> QED
    BY <1>1, <1>4, <2>1, KeptDraft
<1> QED
  BY <1>5, <1>6

\* What a tab completes the row of was copied, or is with the relay.
LEMMA DeliveredTab ==
  ASSUME NEW t \in Tabs, DraftNow(t), TabStep(t), answered \subseteq answered',
         EditsAreDelivered
  PROVE  EditsAreDelivered'
<1> DEFINE p == tab[t]
           Given(d) == d \in copied' \/ \E x \in answered' : x.request.envelope = d
<1>1. /\ StoreAligned /\ Dated(p) /\ Aligned(p) /\ StoreKnown(p) /\ OutcomeKnown(p)
      /\ HandlesStored
  BY DEF DraftNow, DraftInv
<1>2. copied \subseteq copied'
  BY DEF TabStep, Recovering, Pushing, SendingOn, Ending, StartPass, Committed, Listed, Intents,
     Resume, Stale, Cancel, Drop, Push, Remove, Await, Begins, Enter, Install, Plain, NextStage,
     Seal, Sends, Staged, Unseal, Finalize, Remember, Commit, Timeout, Discard, Abandon,
     DropOwn, Restore, Preserve, Reject, SettleRow, Finishes, Clear, Mark, Complete, Close,
     Reload, device
<1>3. \/ cleared' = cleared
      \/ SettleRow(t) /\ cleared' = cleared \cup {p.row.draft}
      \/ /\ Clear(t) /\ cleared' = cleared \cup {p.intent.draft}
         /\ outbox # Null /\ outbox.draft = p.intent.draft
  BY DEF TabStep, Recovering, Pushing, SendingOn, Ending, StartPass, Committed, Listed, Intents,
     Resume, Stale, Cancel, Drop, Push, Remove, Await, Begins, Enter, Install, Plain, NextStage,
     Seal, Sends, Staged, Unseal, Finalize, Remember, Commit, Timeout, Discard, Abandon,
     DropOwn, Restore, Preserve, Reject, SettleRow, Finishes, Clear, Mark, Complete, Close,
     Reload, Clears, device
<1>4. ASSUME NEW d \in cleared PROVE Given(d)
  BY <1>2 DEF EditsAreDelivered
<1>5. CASE SettleRow(t)
  <2>1. p.row.draft \in copied \/ \E x \in answered : x.request.envelope = p.row.draft
    BY <1>1, <1>5 DEF SettleRow, At, OutcomeKnown
  <2>2. Given(p.row.draft)
    BY <1>2, <2>1
  <2>3. cleared' \subseteq cleared \cup {p.row.draft}
    BY <1>5 DEF SettleRow, Clears
  <2> QED
    BY <1>4, <2>2, <2>3 DEF EditsAreDelivered
<1>6. CASE /\ Clear(t) /\ cleared' = cleared \cup {p.intent.draft}
           /\ outbox # Null /\ outbox.draft = p.intent.draft
  <2>1. p.at = "clear"
    BY <1>6 DEF Clear, At
  <2>2. /\ root # Null /\ p.job = HandleOf(root) /\ intent # Null
        /\ p.intent.draft = intent.draft
    BY <1>1, <2>1 DEF StoreKnown, HandleAts, Receipted
  <2>3. root.draft = p.intent.draft
    BY <1>1, <1>6, <2>2 DEF Aligned, Own
  <2>4. p.job.draft = p.intent.draft
    BY <2>2, <2>3 DEF HandleOf
  <2>5. \E x \in answered : x.request.envelope = p.job.draft
    BY <1>1, <2>1 DEF HandlesStored, HandleAts, Published
  <2>6. Given(p.intent.draft)
    BY <2>4, <2>5
  <2> QED
    BY <1>4, <1>6, <2>6 DEF EditsAreDelivered
<1>7. CASE cleared' = cleared
  BY <1>4, <1>7 DEF EditsAreDelivered
<1> QED
  BY <1>3, <1>5, <1>6, <1>7

LEMMA DraftStep ==
  ASSUME CompoundInv, BundlesKept, HandlesStored, NEW t \in Tabs, AloneInv(t),
         DraftInv(tab[t]), EditsAreDelivered, [CompoundNext /\ OthersRest(t)]_allVars
  PROVE  DraftInv(tab[t])' /\ EditsAreDelivered'
<1>1. [CompoundNext]_allVars /\ OthersRest(t)
  BY DEF OthersRest, allVars, compoundVars
<1>2. /\ CompoundTypeOK /\ CompoundTypeOK' /\ TypeInv /\ ReceiptsAnswer /\ [Next]_vars
      /\ AnswerInv' /\ CoreInv
  BY <1>1, CompoundInvStep, RelayStep DEF CompoundInv, AnswerInv
<1>3. answered \subseteq answered'
  BY <1>2, AnsweredGrows
<1>4. DraftNow(t)
  BY <1>2 DEF DraftNow, AloneInv
<1>5. \/ TabStep(t)
      \/ \E s \in sent : Serve(s[1], s[2])
      \/ Around
      \/ UNCHANGED allVars
  BY <1>1, <1>2, AloneSteps DEF AloneInv
<1>6. Around => UNCHANGED <<root, index, intent, tab, cleared, copied>>
  BY <1>2, AroundTypes DEF TypeInv
<1>7. \A q : q = tab'[t] => DraftInv(q)'
  <2>1. CASE UNCHANGED allVars
    <3> SUFFICES ASSUME NEW q, q = tab'[t] PROVE DraftInv(q)'
      OBVIOUS
    <3>1. /\ q = tab[t] /\ UNCHANGED stored /\ root' = root /\ intent' = intent
          /\ waiting' = waiting /\ copied' = copied
      BY <2>1 DEF allVars, compoundVars, stored
    <3>2. RowKnown(q) /\ StoreKnown(q) /\ OutcomeKnown(q)
      BY <3>1 DEF DraftInv
    <3>3. StoreKnown(q)' /\ OutcomeKnown(q)'
      BY <1>3, <3>1, <3>2, KnownStays
    <3> QED
      BY <1>4, <3>1, <3>2, <3>3, KeptDraft
  <2>2. CASE TabStep(t)
    BY <1>4, <2>2, TabDraft
  <2>3. CASE \E s \in sent : Serve(s[1], s[2])
    BY <1>2, <1>3, <1>4, <2>3, ServeDraft
  <2>4. CASE Around
    BY <1>3, <1>4, <1>6, <2>4, AroundDraft
  <2> QED
    BY <1>5, <2>1, <2>2, <2>3, <2>4
<1>8. DraftInv(tab[t])'
  <2>1. \A q : q = tab'[t] => StoreAligned' /\ Dated(q)' /\ Aligned(q)'
    BY <1>7 DEF DraftInv
  <2>2. \A q : q = tab'[t] => RowKnown(q)' /\ StoreKnown(q)' /\ OutcomeKnown(q)'
    BY <1>7 DEF DraftInv
  <2>3. StoreAligned' /\ Dated(tab[t])' /\ Aligned(tab[t])'
    BY <2>1 DEF Dated, Aligned, Own
  <2>4. RowKnown(tab[t])' /\ StoreKnown(tab[t])' /\ OutcomeKnown(tab[t])'
    BY <2>2 DEF RowKnown, StoreKnown, OutcomeKnown
  <2> QED
    BY <2>3, <2>4 DEF DraftInv
<1>9. EditsAreDelivered'
  <2>1. CASE TabStep(t)
    BY <1>3, <1>4, <2>1, DeliveredTab
  <2>2. CASE ~TabStep(t)
    <3>1. UNCHANGED <<cleared, copied>>
      BY <1>5, <1>6, <2>2 DEF Serve, StageAnswer, CommitAnswer, RefusalAnswer, Unauthorized,
         Hear, allVars, compoundVars
    <3> QED
      BY <1>3, <3>1 DEF EditsAreDelivered
  <2> QED
    BY <2>1, <2>2
<1> QED
  BY <1>8, <1>9

LEMMA DraftInit ==
  ASSUME CompoundInit, NEW t \in Tabs
  PROVE  DraftInv(tab[t]) /\ EditsAreDelivered
<1>1. /\ tab[t] = Idle(session) /\ session \in Owners /\ root = Null /\ intent = Null
      /\ index = Null /\ outbox = Null /\ cleared = {}
  BY CompoundTypeInit DEF CompoundInit, CompoundTypeOK, StoreTypes
<1>2. /\ tab[t].at = "idle" /\ tab[t].row = Null /\ tab[t].then = "idle"
      /\ tab[t].handoff = FALSE
  BY <1>1 DEF Idle
<1>3. RowKnown(tab[t])
  BY <1>1, IdleKnown
<1>4. StoreKnown(tab[t]) /\ OutcomeKnown(tab[t])
  BY <1>2 DEF StoreKnown, OutcomeKnown, EnterAts, RowOnlyAts, BundleAts, StageAts, SealAts,
     FinalAts, HandleAts
<1>5. StoreAligned /\ Dated(tab[t]) /\ Aligned(tab[t])
  BY <1>1, <1>2 DEF StoreAligned, Receipted, Uncommitted, Dated, Aligned
<1> QED
  BY <1>1, <1>3, <1>4, <1>5 DEF DraftInv, EditsAreDelivered

\* On a device where one tab is at work, the outbox gives up an edit only for that
\* edit at the relay or a copy of it, and bytes to upload only for the attachment at
\* the relay: no draft goes for another that took its place in the outbox, whatever
\* was edited, interrupted, refused or lost on the way (noteStore.svelte.ts:1154).
THEOREM LetGoIsKept ==
  ASSUME NEW t \in Tabs
  PROVE  AloneSpec(t) => []LetGoIsStored
<1>1. AloneSpec(t) => []CompoundInv /\ []ConfirmedAreStored
  <2>1. [CompoundNext /\ OthersRest(t)]_allVars => [CompoundNext]_allVars
    OBVIOUS
  <2>2. AloneSpec(t) => CompoundSpec
    BY <2>1, PTL DEF AloneSpec, CompoundSpec
  <2> QED
    BY <2>2, CompoundInvariance, ConfirmedIsStored, PTL
<1> DEFINE Inv == BundlesKept /\ HandlesStored /\ AloneInv(t) /\ DraftInv(tab[t])
                    /\ EditsAreDelivered
<1>2. CompoundInit => Inv
  <2>1. CompoundInit => \A u \in Tabs : tab[u].at = "idle"
    BY DEF CompoundInit, Idle
  <2>2. CompoundInit => BundlesKept /\ HandlesStored
    BY <2>1 DEF CompoundInit, Init, BundlesKept, HandlesStored, AllStored, HandleAts
  <2> QED
    BY <2>2, AloneInvInit, DraftInit
<1>3. CompoundInv /\ Inv /\ [CompoundNext /\ OthersRest(t)]_allVars => Inv'
  <2> SUFFICES ASSUME CompoundInv, Inv, [CompoundNext /\ OthersRest(t)]_allVars
               PROVE  Inv'
    OBVIOUS
  <2>1. [CompoundNext]_allVars
    OBVIOUS
  <2>2. [Next]_vars /\ AnswerInv
    BY <2>1, RelayStep DEF CompoundInv
  <2>3. BundlesKept' /\ HandlesStored'
    BY <2>1, <2>2, BundlesKeptStep, HandlesStep
  <2>4. AloneInv(t)'
    BY AloneInvStep
  <2>5. DraftInv(tab[t])' /\ EditsAreDelivered'
    BY DraftStep
  <2> QED
    BY <2>3, <2>4, <2>5
<1>4. Inv => EditsAreDelivered
  OBVIOUS
<1> HIDE DEF Inv
<1>5. AloneSpec(t) => []EditsAreDelivered
  BY <1>1, <1>2, <1>3, <1>4, PTL DEF AloneSpec
<1>6. EditsAreDelivered /\ ConfirmedAreStored => LetGoIsStored
  BY DEF LetGoIsStored
<1> QED
  BY <1>1, <1>5, <1>6, PTL

=============================================================================
