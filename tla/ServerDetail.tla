---------------------------- MODULE ServerDetail ----------------------------
(* The server detail page of the browser console: four calls for a bundle,   *)
(* each replaced by made-up data when it fails, a cache of one bundle that    *)
(* lives as long as the page load, one slot that says what is loading, and    *)
(* the DEMO ribbon, which is kept apart from the bundle it speaks of.         *)
(* Cache and slot go by the number parseInt finds in the address; whether the *)
(* page is still the same is asked of the address as it is written.           *)
EXTENDS Naturals

CONSTANTS
  ServerIds,  \* ids an address can name
  Known,      \* those the API knows
  NoId,       \* no server: another page, an empty slot
  Addresses,  \* what can follow '#servers/' in the address bar
  ParsedId,   \* parseInt of each: 42 of '42', '042' and '42x', NoId of '0' and 'x'
  MaxLoads,   \* bundles asked for in one page load
  MaxRetries  \* retries of one page load

ASSUME DetailAssumption ==
  /\ Known \subseteq ServerIds /\ NoId \notin ServerIds \cup Addresses
  /\ ParsedId \in [Addresses -> ServerIds \cup {NoId}]
  /\ MaxLoads \in Nat /\ MaxRetries \in Nat

VARIABLES
  route,          \* currentRouteParam(): the address, or NoId on another page
  view,           \* what the page shows: of which server, and what
  detailLoaded,   \* _serverDetailLoaded
  detailLoading,  \* _serverDetailLoading
  loads,          \* getServerDetail calls in flight: number, id, idStr, and stage
  loadNr,         \* calls made
  askedAs,        \* history: the address each server was last asked for from
  errors,         \* an API error is recorded
  detailRibbon,   \* DEMO_WIDGETS has 'server-detail'
  retries         \* retries so far

detailVars == <<route, view, detailLoaded, detailLoading, loads, loadNr, askedAs, errors,
                detailRibbon, retries>>

\* What a bundle holds: all of it from the API, or some of it made up.
Bundles == {"real", "made_up"}
Empty == [id |-> NoId, bundle |-> "real"]
\* What a load has found so far: nothing, the API's server, or a made-up one.
LoadStages == {"server", "parts", "parts_of_made_up"}
\* A bundle, "Loading", "Invalid server id", or no detail page at all.
Views == [id : ServerIds \cup {NoId}, shows : Bundles \cup {"loading", "invalid", "none"}]

DetailTypeOK ==
  /\ route \in Addresses \cup {NoId}
  /\ view \in Views
  /\ detailLoaded \in [id : ServerIds \cup {NoId}, bundle : Bundles]
  /\ detailLoading \in ServerIds \cup {NoId}
  /\ loads \in SUBSET [nr : 1..MaxLoads, id : ServerIds, idStr : Addresses, stage : LoadStages]
  /\ askedAs \in [ServerIds -> Addresses \cup {NoId}]
  /\ loadNr \in 0..MaxLoads /\ retries \in 0..MaxRetries
  /\ errors \in BOOLEAN /\ detailRibbon \in BOOLEAN

DetailInit ==
  /\ route = NoId /\ view = [id |-> NoId, shows |-> "none"]
  /\ detailLoaded = Empty /\ detailLoading = NoId
  /\ loads = {} /\ loadNr = 0 /\ retries = 0
  /\ askedAs = [id \in ServerIds |-> NoId]
  /\ errors = FALSE /\ detailRibbon = FALSE

-----------------------------------------------------------------------------
(* Rendering.                                                               *)

\* What the page shows for an address: the cached bundle when it is that server's.
Drawn(idStr, cached) ==
  IF idStr = NoId THEN [id |-> NoId, shows |-> "none"]
  ELSE [id    |-> ParsedId[idStr],
        shows |-> CASE ParsedId[idStr] = NoId -> "invalid"
                    [] ParsedId[idStr] # NoId /\ cached.id = ParsedId[idStr] -> cached.bundle
                    [] OTHER -> "loading"]

\* Drawing starts a load when there is nothing to show and the slot does not
\* already name this server; `live` are the loads still in flight.
renderServerDetailPage(idStr, cached, slot, live) ==
  /\ view' = Drawn(idStr, cached)
  /\ IF view'.shows = "loading" /\ slot # view'.id
       THEN /\ loadNr < MaxLoads
            /\ detailLoading' = view'.id /\ loadNr' = loadNr + 1
            /\ loads' = live \cup
                 {[nr |-> loadNr + 1, id |-> view'.id, idStr |-> idStr, stage |-> "server"]}
            /\ askedAs' = [askedAs EXCEPT ![view'.id] = idStr]
       ELSE detailLoading' = slot /\ loads' = live /\ UNCHANGED <<loadNr, askedAs>>

\* Another address: a row of the inventory, "Back to inventory", one typed or
\* kept as a bookmark.
Goto(idStr) ==
  /\ idStr # route
  /\ route' = idStr
  /\ renderServerDetailPage(idStr, detailLoaded, detailLoading, loads)
  /\ UNCHANGED <<detailLoaded, errors, detailRibbon, retries>>

\* The page is drawn again for a reason of its own: another feed landed, an error
\* was recorded.
Rerender ==
  /\ renderServerDetailPage(route, detailLoaded, detailLoading, loads)
  /\ UNCHANGED <<route, detailLoaded, errors, detailRibbon, retries>>

-----------------------------------------------------------------------------
(* Loading.                                                                 *)

\* Mutant: a load that ends after the user left does not free the slot.
Finish_KeepsSlot(l, bundle) ==
  LET cached == [id |-> l.id, bundle |-> bundle]
  IN  /\ detailLoaded' = cached
      /\ IF route = l.idStr
           THEN renderServerDetailPage(route, cached, NoId, loads \ {l})
           ELSE /\ loads' = loads \ {l}
                /\ UNCHANGED <<view, loadNr, askedAs, detailLoading>>

\* The bundle is cached, the slot freed (whoever holds it), and the page drawn
\* again if the address is still, letter for letter, the one the load was started
\* from (stillOnSamePage).
Finish(l, bundle) ==
  LET cached == [id |-> l.id, bundle |-> bundle]
  IN  /\ detailLoaded' = cached
      /\ IF route = l.idStr
           THEN renderServerDetailPage(route, cached, NoId, loads \ {l})
           ELSE /\ detailLoading' = NoId /\ loads' = loads \ {l}
                /\ UNCHANGED <<view, loadNr, askedAs>>

Advance(l, stage) ==
  /\ loads' = (loads \ {l}) \cup {[l EXCEPT !.stage = stage]}
  /\ UNCHANGED <<view, detailLoaded, detailLoading, loadNr, askedAs>>

\* GET /servers/{id} answers with the server.
ServerFound(l) ==
  /\ l \in loads /\ l.stage = "server" /\ l.id \in Known
  /\ Advance(l, "parts")
  /\ UNCHANGED <<route, errors, detailRibbon, retries>>

\* It answers 404, or fails.  The error list is to tell "not found" from
\* "unreachable", but api() has recorded either one before it is looked at: the
\* branch that returns null, and the page's "Server not found", are never taken (it
\* would need a 200 with the body null, which the controller never answers).
ServerMissing(l) ==
  /\ l \in loads /\ l.stage = "server"
  /\ errors' = TRUE
  /\ Advance(l, "parts_of_made_up")
  /\ UNCHANGED <<route, detailRibbon, retries>>

\* Disks, certificates and history are all in; what failed, or is of another shape,
\* which leaves no error, is made up and the widget marked.
PartsAnswered(l, ok) ==
  /\ l \in loads /\ l.stage # "server"
  /\ errors' \in {errors, errors \/ ~ok}
  /\ detailRibbon' = (detailRibbon \/ ~ok \/ l.stage = "parts_of_made_up")
  /\ Finish(l, IF ok /\ l.stage = "parts" THEN "real" ELSE "made_up")
  /\ UNCHANGED <<route, retries>>

\* OC_API.retry empties the error list and every ribbon; the cache stays.
RetryWave ==
  /\ retries < MaxRetries
  /\ retries' = retries + 1
  /\ errors' = FALSE /\ detailRibbon' = FALSE
  /\ UNCHANGED <<route, view, detailLoaded, detailLoading, loads, loadNr, askedAs>>

LoadStep(l) == ServerFound(l) \/ ServerMissing(l) \/ \E ok \in BOOLEAN : PartsAnswered(l, ok)

DetailNext ==
  \/ \E idStr \in Addresses \cup {NoId} : Goto(idStr)
  \/ Rerender
  \/ \E l \in loads : LoadStep(l)
  \/ RetryWave

DetailSpec == DetailInit /\ [][DetailNext]_detailVars

-----------------------------------------------------------------------------
(* Properties.                                                              *)

\* "Loading" is not left standing while the address is written as it was when its
\* server was last asked for: a load of that server, started from that very address,
\* is out and its end draws the page again, although one slot serves every load, any
\* other load empties it, and a load may end for a page already left.  An address
\* respelled while its server loads is excepted: the end of the load does not draw it.
LoadingIsAwaited ==
  view.shows = "loading" /\ askedAs[view.id] = route
    => \E l \in loads : l.id = view.id /\ l.idStr = route

=============================================================================
