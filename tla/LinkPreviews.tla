---------------------------- MODULE LinkPreviews ----------------------------
(***************************************************************************)
(* Previews of links: each tab's store of them, the cache of the browser   *)
(* and the relay that fetches the pages.                                   *)
(*                                                                         *)
(*   Source: apps/web/src/lib/linkPreviews.svelte.ts, with its callers in  *)
(*   noteStore.svelte.ts and components/AuthVaultGate.svelte, and          *)
(*   apps/server/src/linkPreview.mjs, with its handler in index.mjs.       *)
(*                                                                         *)
(* A page is what it answers; the limiter is in RateLimit.  IndexedDB runs *)
(* what one tab asks of it in the order asked, that of two tabs in any.    *)
(***************************************************************************)
EXTENDS Naturals, Sequences, FiniteSets

CONSTANTS
  Tabs, Urls,
  Views,            \* the links of the notes in view: functions from tabs to sets of URLs
  MaxLoads,         \* MAX_CONCURRENT_FETCHES of a tab
  MaxFetches,       \* MAX_CONCURRENT_LINK_PREVIEWS of the relay
  MaxRedirects,     \* MAX_REDIRECTS
  MaxConnections, MaxClears, MaxFaults    \* bounds

VARIABLES
  store,     \* LinkPreviewStore of each tab
  loads,     \* load() under way, with the connection whose fetcher it called
  cache,     \* the browser's cache: no entry, or the entry of each URL
  serving,   \* requests whose page the relay is fetching
  active,    \* activeLinkPreviews
  enabled,   \* UNKEEP_LINK_PREVIEWS
  connections, clears, faults,
  wiped,     \* history: connections made before a clear that was completed
  overlaps   \* history: the windows of the code that a step fell into

previewVars ==
  <<store, loads, cache, serving, active, enabled, connections, clears, faults, wiped,
    overlaps>>
relayVars == <<serving, active, enabled>>

\* via: the connection of the fetcher, 0 for null.  History: tried are the URLs
\* this connection was asked for, told says that it is the one that is disabled.
NewStore(links) ==
  [links |-> links, generation |-> 0, via |-> 0, disabled |-> FALSE, requested |-> {},
   deferred |-> <<>>, queue |-> <<>>, shown |-> {}, clearing |-> 0, tried |-> {}, told |-> FALSE]

NoEntry  == [why |-> "none", via |-> 0, fresh |-> FALSE]
NoAnswer == [says |-> "none", why |-> "none"]

PreviewInit ==
  /\ \E view \in Views : store = [t \in Tabs |-> NewStore(view[t])]
  /\ loads = {}
  /\ cache = [u \in Urls |-> NoEntry]
  /\ serving = {} /\ active = 0 /\ enabled = TRUE
  /\ connections = 0 /\ clears = 0 /\ faults = 0 /\ wiped = 0 /\ overlaps = {}

Fault == faults < MaxFaults /\ faults' = faults + 1
Members(q) == {q[i] : i \in DOMAIN q}
Of(t) == {l \in loads : l.tab = t}

-----------------------------------------------------------------------------
(* A tab *)

Load(t, u, generation) ==
  [tab |-> t, url |-> u, generation |-> generation, at |-> "read", via |-> 0,
   cached |-> NoEntry, answer |-> NoAnswer]

\* pump: the queue moves into the slots that are free.
Pump(t, s, going) ==
  LET free == MaxLoads - Cardinality({l \in going : l.tab = t})
      n == IF Len(s.queue) < free THEN Len(s.queue) ELSE free
  IN /\ store' = [store EXCEPT ![t] = [s EXCEPT !.queue = SubSeq(@, n + 1, Len(@))]]
     /\ loads' = going \cup {Load(t, s.queue[i], s.generation) : i \in 1..n}

\* The end of a load.
End(l, s) == Pump(l.tab, s, loads \ {l})

Move(l, to) == loads' = (loads \ {l}) \cup {to}

Defer(s, u) ==
  IF u \in Members(s.deferred) THEN s ELSE [s EXCEPT !.deferred = Append(@, u)]

\* request: each URL of a note once.
Request(t, u) ==
  /\ u \in store[t].links /\ u \notin store[t].requested
  /\ Pump(t, [store[t] EXCEPT !.requested = @ \cup {u}, !.queue = Append(@, u)], loads)
  /\ UNCHANGED <<cache, relayVars, connections, clears, faults, wiped>>

\* setFetcher: a connection takes up what was deferred.
Connected(s, c) ==
  LET t == [s EXCEPT !.via = c, !.disabled = FALSE, !.tried = {}, !.told = FALSE]
  IN IF c = 0 THEN t ELSE [t EXCEPT !.queue = @ \o s.deferred, !.deferred = <<>>]

Connect(t) ==
  /\ connections < MaxConnections /\ connections' = connections + 1
  /\ Pump(t, Connected(store[t], connections'), loads)
  /\ UNCHANGED <<cache, relayVars, clears, faults, wiped>>

Disconnect(t) ==
  /\ store[t].via # 0
  /\ store' = [store EXCEPT ![t] = Connected(@, 0)]
  /\ UNCHANGED <<loads, cache, relayVars, connections, clears, faults, wiped>>

ClearedInPlace(s) ==   \* bug: loads under way still belong to the store
  [s EXCEPT !.requested = {}, !.deferred = <<>>, !.queue = <<>>, !.shown = {},
            !.clearing = connections + 1]

Cleared(s) ==
  [s EXCEPT !.generation = @ + 1, !.requested = {}, !.deferred = <<>>,
            !.queue = <<>>, !.shown = {}, !.clearing = connections + 1]

\* clear, which forgetLocalAccess calls once the tab is disconnected.
Clear(t) ==
  /\ clears < MaxClears /\ clears' = clears + 1
  /\ store[t].via = 0 /\ store[t].clearing = 0
  /\ store' = [store EXCEPT ![t] = Cleared(@)]
  /\ UNCHANGED <<loads, cache, relayVars, connections, faults, wiped>>

\* Its second part, in the order the tab asked; a failure is ignored.
Wipe(t) ==
  /\ store[t].clearing # 0
  /\ \A l \in Of(t) : l.at = "put" => l.generation = store[t].generation
  /\ \/ /\ cache' = [u \in Urls |-> NoEntry]
        /\ wiped' = IF wiped < store[t].clearing THEN store[t].clearing - 1 ELSE wiped
        /\ UNCHANGED faults
     \/ Fault /\ UNCHANGED <<cache, wiped>>
  /\ store' = [store EXCEPT ![t].clearing = 0]
  /\ UNCHANGED <<loads, relayVars, connections, clears>>

\* A reload: only the cache remains, and what the relay is doing.
Reload(t) ==
  /\ Fault
  /\ store' = [store EXCEPT ![t] = NewStore(@.links)] /\ loads' = loads \ Of(t)
  /\ UNCHANGED <<cache, relayVars, connections, clears, wiped>>

-----------------------------------------------------------------------------
(* load *)

Current(l) == l.generation = store[l.tab].generation

\* What a load asks of the cache after a clear waits for it.
InTurn(l) == Current(l) => store[l.tab].clearing = 0

\* cache.get, which may fail.
Read(l) ==
  /\ l.at = "read" /\ InTurn(l)
  /\ \/ Move(l, [l EXCEPT !.at = "resume", !.cached = cache[l.url]]) /\ UNCHANGED faults
     \/ Fault /\ Move(l, [l EXCEPT !.at = "resume"])
  /\ UNCHANGED <<store, cache, relayVars, connections, clears, wiped>>

\* A fresh entry is enough; anything else needs the relay.
Resume(l) ==
  LET s == [store[l.tab] EXCEPT
              !.shown = IF l.cached = NoEntry THEN @ ELSE @ \cup {l.url}] IN
  /\ l.at = "resume"
  /\ IF ~Current(l) THEN End(l, store[l.tab])
     ELSE IF l.cached.fresh THEN End(l, s)
     ELSE IF s.via = 0 \/ s.disabled THEN End(l, Defer(s, l.url))
     ELSE /\ store' = [store EXCEPT ![l.tab] = s]
          /\ Move(l, [l EXCEPT !.at = "sent", !.via = s.via, !.cached = NoEntry])
  /\ UNCHANGED <<cache, relayVars, connections, clears, faults, wiped>>

\* An answer about the page is cached; any other defers the URL to the next
\* connection.
Answered(l) ==
  LET s == store[l.tab]
      same == l.via = s.via IN
  /\ l.at = "answered"
  /\ IF ~Current(l) THEN End(l, s)
     ELSE IF l.answer.says \in {"preview", "null"}
     THEN /\ store' = [store EXCEPT ![l.tab].shown = @ \cup {l.url}]
          /\ Move(l, [l EXCEPT !.at = "put", !.answer.says = "none"])
     ELSE End(l, Defer([s EXCEPT !.disabled = @ \/ l.answer.says = "disabled",
                                 !.told = @ \/ (same /\ l.answer.says = "disabled"),
                                 !.tried = IF same THEN @ \cup {l.url} ELSE @], l.url))
  /\ UNCHANGED <<cache, relayVars, connections, clears, faults, wiped>>

\* cache.put, whose failure is ignored.
Put(l) ==
  /\ l.at = "put" /\ InTurn(l)
  /\ \/ /\ cache' = [cache EXCEPT ![l.url] = [why |-> l.answer.why, via |-> l.via, fresh |-> TRUE]]
        /\ UNCHANGED faults
     \/ Fault /\ UNCHANGED cache
  /\ End(l, store[l.tab])
  /\ UNCHANGED <<relayVars, connections, clears, wiped>>

\* isFresh: an entry outlives its time.
Age(u) ==
  /\ cache[u].fresh /\ cache' = [cache EXCEPT ![u].fresh = FALSE]
  /\ UNCHANGED <<store, loads, relayVars, connections, clears, faults, wiped>>

-----------------------------------------------------------------------------
(* The relay *)

Fetch(l) == [tab |-> l.tab, url |-> l.url, generation |-> l.generation, via |-> l.via, hop |-> 0]

Waits(l, f) == l.at = "sent" /\ [Fetch(l) EXCEPT !.hop = f.hop] = f

Reply(l, says, why) ==
  Move(l, [l EXCEPT !.at = "answered", !.answer = [says |-> says, why |-> why]])

\* POST /link-preview: the setting, the limiter, the pages in progress.
Arrive(l) ==
  /\ l.at = "sent" /\ \A f \in serving : ~Waits(l, f)
  /\ \/ ~enabled /\ Reply(l, "disabled", "disabled") /\ UNCHANGED <<relayVars, faults>>
     \/ /\ enabled /\ active >= MaxFetches
        /\ Reply(l, "limited", "limited") /\ UNCHANGED <<relayVars, faults>>
     \/ enabled /\ Fault /\ Reply(l, "limited", "limited") /\ UNCHANGED relayVars
     \/ /\ enabled /\ active < MaxFetches
        /\ serving' = serving \cup {Fetch(l)} /\ active' = active + 1
        /\ UNCHANGED <<loads, enabled, faults>>
  /\ UNCHANGED <<store, cache, connections, clears, wiped>>

Transient == {"upstream_unavailable", "timeout", "fetch_failed"}

\* What a page without a preview has done is one value here, unless trying again
\* may help.
Outcomes == {"page", "no_preview", "upstream_unavailable", "timeout", "fetch_failed"}

Says(why) ==
  CASE why = "page"        -> "preview"
    [] why = "invalid_url" -> "invalid"
    [] why \in Transient   -> "unavailable"
    [] OTHER               -> "null"

Tell(f, says, why) ==
  loads' = {IF Waits(l, f) THEN [l EXCEPT !.at = "answered", !.answer = [says |-> says, why |-> why]]
            ELSE l : l \in loads}

\* However the fetch ends, the place of the request is free again.
Finish(f, why) ==
  /\ serving' = serving \ {f} /\ active' = active - 1
  /\ Tell(f, Says(why), why)

\* One request of fetchLinkPreview: a redirect is followed so many times.
Hop(f) ==
  /\ \/ \E why \in Outcomes : Finish(f, why)
     \/ f.hop = 0 /\ Finish(f, "invalid_url")
     \/ f.hop = MaxRedirects /\ Finish(f, "too_many_redirects")
     \/ /\ f.hop < MaxRedirects
        /\ serving' = (serving \ {f}) \cup {[f EXCEPT !.hop = @ + 1]}
        /\ UNCHANGED <<active, loads>>
  /\ UNCHANGED <<store, cache, enabled, connections, clears, faults, wiped>>

\* The tab hears nothing, in time or at all; the relay goes on.
Lost(l) ==
  /\ l.at \in {"sent", "answered"} /\ l.answer.says # "lost" /\ Fault
  /\ Reply(l, "lost", "lost")
  /\ UNCHANGED <<store, cache, relayVars, connections, clears, wiped>>

\* The operator starts the relay again, perhaps with the other setting.
Restart ==
  /\ Fault
  /\ enabled' \in BOOLEAN /\ serving' = {} /\ active' = 0
  /\ loads' = {IF \E f \in serving : Waits(l, f)
               THEN [l EXCEPT !.at = "answered", !.answer = [says |-> "lost", why |-> "lost"]]
               ELSE l : l \in loads}
  /\ UNCHANGED <<store, cache, connections, clears, wiped>>

-----------------------------------------------------------------------------
(* Two windows of the code, which the steps fall into freely *)

\* A step that falls into a window is remembered; nothing keeps it from it.
Enters(window, in) == overlaps' = IF in THEN overlaps \cup {window} ELSE overlaps

\* Another tab is connected, or has asked its connection, when one forgets.
Elsewhere(t) ==
  \/ \E u \in Tabs \ {t} : store[u].via # 0
  \/ \E l \in loads : l.tab # t /\ l.via # 0

\* The answer of an earlier connection defers the URL, or disables the store,
\* of the one that has taken its place.
Late(l) ==
  /\ Current(l) /\ store[l.tab].via \notin {0, l.via}
  /\ l.answer.says \notin {"preview", "null"}

LoadStep(l) == Read(l) \/ Resume(l) \/ Put(l) \/ Arrive(l) \/ Lost(l)

PreviewNext ==
  \/ \E t \in Tabs : Clear(t) /\ Enters("elsewhere", Elsewhere(t))
  \/ \E l \in loads : Answered(l) /\ Enters("late", Late(l))
  \/ /\ \/ \E t \in Tabs, u \in Urls : Request(t, u)
        \/ \E t \in Tabs : Connect(t) \/ Disconnect(t) \/ Wipe(t) \/ Reload(t)
        \/ \E l \in loads : LoadStep(l)
        \/ \E f \in serving : Hop(f)
        \/ \E u \in Urls : Age(u)
        \/ Restart
     /\ UNCHANGED overlaps

PreviewSpec == PreviewInit /\ [][PreviewNext]_previewVars

-----------------------------------------------------------------------------
(* Properties *)

\* No URL is lost between the queue, the loads and the list for the next
\* connection: each one asked for is in one of them or has an answer.  None is
\* queued while a load could take it.  And what waits for a connection was tried
\* by the one that is there, unless that one is known to be disabled, or an
\* earlier connection has answered late (linkPreviews.svelte.ts does not look).
RequestsTracked ==
  \A t \in Tabs : LET s == store[t] IN
    /\ s.requested \subseteq
         Members(s.queue) \cup Members(s.deferred) \cup s.shown
           \cup {l.url : l \in {m \in Of(t) : Current(m)}}
    /\ s.queue # <<>> => Cardinality(Of(t)) = MaxLoads
    /\ "late" \notin overlaps /\ s.via # 0 =>
         (s.disabled => s.told) /\ (~s.disabled => Members(s.deferred) \subseteq s.tried)

\* The relay's count is the number of pages it is fetching, and within its limit.
PlacesAreReturned == active = Cardinality(serving) /\ active <= MaxFetches

\* What the cache will not ask again for days is a preview or a lasting fact of
\* the page: no outage, limit or setting on the way to it.
MissesAreLasting ==
  \A u \in Urls : cache[u].why \in {"none", "page", "no_preview", "too_many_redirects"}

\* After the vault's access was forgotten, the cache has nothing that was asked
\* through a connection made before: unless another tab was connected then, or
\* had asked its connection.  That one fills it again, although THREAT_MODEL.md
\* has the cache cleared.
ForgottenIsGone ==
  "elsewhere" \notin overlaps => \A u \in Urls : cache[u] # NoEntry => cache[u].via > wiped

\* All of them.
PreviewsHold == RequestsTracked /\ PlacesAreReturned /\ MissesAreLasting /\ ForgottenIsGone
=============================================================================
