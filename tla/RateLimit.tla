----------------------------- MODULE RateLimit -----------------------------
(***************************************************************************)
(* The relay's sliding windows: at most so many attempts of one source,    *)
(* and of all sources together, within any window, and how long a refused  *)
(* caller is told to wait.                                                 *)
(*                                                                         *)
(*   Source: apps/server/src/pairingSecurity.mjs and                       *)
(*   administrativeSecurity.mjs, as index.mjs uses them.                   *)
(*                                                                         *)
(* Pairing requests and link previews spend an attempt each; setup and     *)
(* recovery secrets spend one only when they are wrong, after a look at    *)
(* the windows that refuses even the right one.  All of it is synchronous. *)
(***************************************************************************)
EXTENDS Naturals, FiniteSets, Sequences

CONSTANTS
  Sources,      \* addresses and device IDs that attempts come from
  Kinds,        \* limiters: "attempts" and "secrets"
  Window,       \* windowMs, in ticks
  SourceLimit, GlobalLimit,
  MaxTime       \* bound on the clock

VARIABLES
  kind,       \* which of the limiters this is
  now,        \* Date.now(), which does not step back here
  global,     \* globalAttempts: the times of all spent attempts
  bySource,   \* attemptsBySource: the sources retained, with their times
  spent,      \* history: <<time, source>> of every attempt let through, in order
  promised,   \* history: when a refused source may return
  early       \* history: a source that returned in time was refused again

rateVars == <<kind, now, global, bySource, spent, promised, early>>

RateInit ==
  /\ kind \in Kinds /\ now = 0
  /\ global = <<>> /\ bySource = [s \in {} |-> <<>>]
  /\ spent = <<>> /\ promised = [s \in Sources |-> 0] /\ early = FALSE

-----------------------------------------------------------------------------
Later(t) == t + Window > now

\* activeAttempts filters, activeFailures drops what comes first: in time order
\* these are the same.
ActiveInclusive(times) ==   \* bug: an attempt a whole window old still counts
  SelectSeq(times, LAMBDA t : t + Window >= now)

Active(times) == SelectSeq(times, Later)

\* Every call prunes every source, and forgets those left with nothing.
PruneKept ==   \* bug: sources without an attempt stay in the table
  [s \in DOMAIN bySource |-> Active(bySource[s])]

Prune ==
  [s \in {r \in DOMAIN bySource : Active(bySource[r]) # <<>>} |-> Active(bySource[s])]

Of(s) == IF s \in DOMAIN Prune THEN Prune[s] ELSE <<>>

\* The source's limit is looked at first; retryAfter is the first one's end.
RetryAfter(times) ==
  IF times[1] + Window > now THEN times[1] + Window - now ELSE 1

Refusal(s) ==
  IF Len(Of(s)) >= SourceLimit THEN RetryAfter(Of(s))
  ELSE IF Len(Active(global)) >= GlobalLimit THEN RetryAfter(Active(global))
  ELSE 0

Push(s) ==
  /\ global' = Append(Active(global), now)
  /\ bySource' = [r \in DOMAIN Prune \cup {s} |-> IF r = s THEN Append(Of(s), now) ELSE Of(r)]
  /\ spent' = Append(spent, <<now, s>>)
  /\ promised' = [r \in Sources |-> 0]
  /\ UNCHANGED early

Refuse(s) ==
  /\ global' = Active(global) /\ bySource' = Prune
  /\ early' = (early \/ (promised[s] # 0 /\ now >= promised[s]))
  /\ promised' = [promised EXCEPT ![s] = now + Refusal(s)]
  /\ UNCHANGED spent

\* createPairingRateLimiter: attempt
Attempt(s) ==
  /\ kind = "attempts"
  /\ IF Refusal(s) = 0 THEN Push(s) ELSE Refuse(s)
  /\ UNCHANGED <<kind, now>>

\* authorizeAdministrativeSecret: status, the comparison, then recordFailure,
\* which prunes and looks again at the same instant.
Authorize(s, right) ==
  /\ kind = "secrets"
  /\ IF Refusal(s) # 0 THEN Refuse(s)
     ELSE IF ~right THEN Push(s)
     ELSE /\ global' = Active(global) /\ bySource' = Prune
          /\ UNCHANGED <<spent, promised, early>>
  /\ UNCHANGED <<kind, now>>

Tick ==
  /\ now < MaxTime /\ now' = now + 1
  /\ UNCHANGED <<kind, global, bySource, spent, promised, early>>

RateNext ==
  \/ \E s \in Sources : Attempt(s)
  \/ \E s \in Sources, right \in BOOLEAN : Authorize(s, right)
  \/ Tick

RateSpec == RateInit /\ [][RateNext]_rateVars

-----------------------------------------------------------------------------
(* Properties *)

\* No window holds more attempts than the limits, of one source or of all.
Within(t, S) ==
  {i \in DOMAIN spent : spent[i][2] \in S /\ spent[i][1] <= t /\ spent[i][1] + Window > t}

WindowsHold ==
  \A t \in {spent[i][1] : i \in DOMAIN spent} :
    /\ Cardinality(Within(t, Sources)) <= GlobalLimit
    /\ \A s \in Sources : Cardinality(Within(t, {s})) <= SourceLimit

\* However many sources come, the table keeps no more than the global limit.
TableIsBounded == Cardinality(DOMAIN bySource) <= GlobalLimit

\* A caller that waits as long as it was told is let in, unless another one was
\* let in meanwhile.
RetryIsEnough == ~early

LimitsHold == WindowsHold /\ TableIsBounded /\ RetryIsEnough
=============================================================================
