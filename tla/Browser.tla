------------------------------- MODULE Browser -------------------------------
(***************************************************************************)
(* What the pages of the web front end share: the hash router and the page *)
(* it has mounted, the offline banner (app/web/main.js), and the network   *)
(* monitor and fetch wrapper of app/web/api.js.                            *)
(*                                                                         *)
(* JavaScript runs one callback at a time: an action is one callback with  *)
(* the microtasks that follow it.  The module has no next-state relation   *)
(* of its own; WebApp and SubmitPage compose it with their pages.          *)
(***************************************************************************)
EXTENDS Naturals, FiniteSets

CONSTANTS
  Hashes,         \* the hashes a link, a bookmark or the address bar opens
  MaxMounts,      \* bound: pages mounted in a sitting
  MaxTroubles     \* bound: lost connections, and requests that fail without one

VARIABLES
  online,         \* navigator.onLine
  isOnline,       \* what the last requests say (api.js)
  banner,         \* the offline banner is displayed
  troubles,       \* lost connections and failed requests so far
  hash,           \* location.hash
  events,         \* hashchange events not yet handled
  route,          \* the route whose page is mounted
  mount           \* its number; 0 before the first dispatch

monitorVars == <<online, isOnline, banner, troubles>>
routerVars  == <<hash, events, route, mount>>

Pages == {"home", "ops", "task", "submit", "inspiration", "unknown"}
Hash  == [page : Pages, task : Nat]
PageHash(p) == [page |-> p, task |-> 0]
TaskHash(t) == [page |-> "task", task |-> t]
Mounts == 1..MaxMounts

ASSUME BrowserAssumption ==
  /\ Hashes \subseteq Hash
  /\ MaxMounts \in Nat \ {0} /\ MaxTroubles \in Nat

\* main.js dispatches once when it is loaded: the first event
BrowserInit ==
  /\ online = TRUE /\ isOnline = TRUE /\ banner = FALSE /\ troubles = 0
  /\ hash \in Hashes /\ events = 1
  /\ route = PageHash("unknown") /\ mount = 0
-----------------------------------------------------------------------------
(* The router *)

\* location.hash = h: an event only if the hash changes
SetHash(h) ==
  /\ hash' = h
  /\ events' = IF h = hash THEN events ELSE events + 1
  /\ UNCHANGED <<route, mount>>

MayNavigate == mount + events < MaxMounts

Remounts == hash.page # "unknown"

\* dispatch() with e events left: the page of the hash, or a redirection home
Dispatched(e) ==
  IF Remounts
  THEN /\ route' = hash /\ mount' = mount + 1 /\ events' = e
       /\ UNCHANGED hash
  ELSE /\ hash' = PageHash("home") /\ events' = e + 1
       /\ UNCHANGED <<route, mount>>

\* the page p is mounted by this step
MountsPage(p) == Remounts /\ hash.page = p

\* the hashchange listener; a sitting ends with the last mount
HashChanged ==
  /\ events > 0 /\ (Remounts => mount < MaxMounts)
  /\ Dispatched(events - 1)
  /\ UNCHANGED monitorVars
-----------------------------------------------------------------------------
(* The network monitor *)

\* setOnline: the banner's listener is called only when the value changes
SetOnline(v) ==
  /\ isOnline' = v
  /\ banner' = IF v = isOnline THEN banner ELSE ~v

GoesOffline ==
  /\ online /\ troubles < MaxTroubles
  /\ online' = FALSE /\ troubles' = troubles + 1 /\ banner' = TRUE
  /\ UNCHANGED <<isOnline, routerVars>>

\* the banner is hidden and the page mounted again; isOnline stays as it is
GoesOnline ==
  /\ ~online /\ MayNavigate
  /\ online' = TRUE /\ banner' = FALSE
  /\ Dispatched(events)
  /\ UNCHANGED <<isOnline, troubles>>

\* How a fetch ends: with its body, without a response, with an HTTP error, or
\* with a response whose body cannot be read.
Endings == {"ok", "network", "http", "body"}

\* the endings of a request before and after the server has read the data
MayEnd(stage, ending) ==
  \/ stage = "sent" /\ ending \in {"network", "http"}
  \/ stage = "answered" /\ ending \in {"ok", "network", "body"}

Free(ending) == ending = "ok" \/ (ending = "network" /\ ~online)

\* what the monitor makes of it; an HTTP error by itself says nothing
Hears(ending) ==
  \/ ending \in {"ok", "body"}
  \/ ending = "http" /\ online /\ isOnline

Ends(ending) ==
  /\ Free(ending) \/ troubles < MaxTroubles
  /\ troubles' = IF Free(ending) THEN troubles ELSE troubles + 1
  /\ SetOnline(Hears(ending))
  /\ UNCHANGED online

\* only a fetch that rejects is tried again, as often as the caller allows
Retried(ending, left) == ending = "network" /\ left > 0
-----------------------------------------------------------------------------
BrowserTypeOK ==
  /\ online \in BOOLEAN /\ isOnline \in BOOLEAN /\ banner \in BOOLEAN
  /\ troubles \in 0..MaxTroubles
  /\ hash \in Hash /\ route \in Hash
  /\ events \in Nat /\ mount \in 0..MaxMounts
=============================================================================
