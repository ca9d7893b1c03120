----------------------------- MODULE EventPush -----------------------------
(***************************************************************************)
(* Events on their way to one browser tab: Redis pub/sub, the subscriber   *)
(* task of the API process (websocket/subscriber.py), the connection       *)
(* manager and the endpoint (websocket/manager.py, router.py), and the     *)
(* hook of the browser (frontend/lib/websocket.ts).                        *)
(*                                                                         *)
(* A socket is known to both ends by the same number; each call of         *)
(* connect() in the browser takes the next one.                            *)
(***************************************************************************)
EXTENDS Integers, FiniteSets

CONSTANTS
  MaxSockets,  \* bound: sockets a tab opens
  MaxPending   \* bound: messages in the subscriber's buffer

ASSUME EventAssumption == MaxSockets \in Nat /\ MaxPending \in Nat

VARIABLES
  mounted,     \* the hook is mounted
  timer,       \* a reconnect is scheduled
  ref,         \* wsRef.current, 0 for null
  made,        \* sockets made so far
  ready,       \* readyState of each socket in the browser
  armed,       \* the sockets whose onclose handler is set
  link,        \* the sockets whose connection stands
  handler,     \* the endpoint coroutine of each socket
  tracked,     \* ConnectionManager._connections
  gauge,       \* WS_CONNECTIONS_ACTIVE
  subscriber,  \* redis_subscriber: "off", "down" or "listening"
  pending,     \* messages it has not taken yet
  todo,        \* the sockets broadcast() still has to send to
  dead,        \* those it failed to send to
  target,      \* history: those that were tracked when it began
  sent,        \* history: those it sent to
  casting      \* broadcast() runs

browser == <<mounted, timer, ref, made, ready, armed>>
server == <<handler, tracked, gauge>>
caster == <<todo, dead, target, sent, casting>>
eventVars == <<browser, server, caster, link, subscriber, pending>>

Sockets == 1..MaxSockets

EventTypeOK ==
  /\ mounted \in BOOLEAN /\ timer \in BOOLEAN /\ casting \in BOOLEAN
  /\ ref \in 0..made /\ made \in 0..MaxSockets
  /\ ready \in [Sockets -> {"new", "connecting", "open", "closed"}]
  /\ handler \in [Sockets -> {"none", "receiving", "done"}]
  /\ armed \subseteq Sockets /\ link \subseteq Sockets /\ tracked \subseteq Sockets
  /\ todo \subseteq Sockets /\ dead \subseteq Sockets /\ target \subseteq Sockets /\ sent \subseteq Sockets
  /\ gauge \in (-MaxSockets)..MaxSockets
  /\ pending \in 0..MaxPending
  /\ subscriber \in {"off", "down", "listening"}

EventInit ==
  /\ mounted = FALSE /\ timer = FALSE /\ ref = 0 /\ made = 0
  /\ ready = [k \in Sockets |-> "new"] /\ armed = {} /\ link = {}
  /\ handler = [k \in Sockets |-> "none"] /\ tracked = {} /\ gauge = 0
  /\ subscriber = "off" /\ pending = 0
  /\ todo = {} /\ dead = {} /\ target = {} /\ sent = {} /\ casting = FALSE

-----------------------------------------------------------------------------
(* The browser: useWebSocket().                                            *)

\* connect(), called with mountedRef true and no open socket.
OpenSocket ==
  /\ made < MaxSockets
  /\ made' = made + 1 /\ ref' = made'
  /\ ready' = [ready EXCEPT ![made'] = "connecting"]
  /\ armed' = armed \union {made'}
  /\ link' = link \union {made'}

Mount ==
  /\ ~mounted /\ mounted' = TRUE
  /\ OpenSocket
  /\ UNCHANGED <<timer, server, caster, subscriber, pending>>

\* Mutant: the socket is closed with its onclose handler in place.
UnmountArmed ==
  /\ mounted /\ mounted' = FALSE
  /\ timer' = FALSE
  /\ IF ref = 0 THEN UNCHANGED <<ready, link>>
     ELSE ready' = [ready EXCEPT ![ref] = "closed"] /\ link' = link \ {ref}
  /\ ref' = 0
  /\ UNCHANGED <<armed, made, server, caster, subscriber, pending>>

\* The clean-up of the effect: no timer, no handler, no socket.
Unmount ==
  /\ mounted /\ mounted' = FALSE
  /\ timer' = FALSE
  /\ armed' = armed \ {ref}
  /\ IF ref = 0 THEN UNCHANGED <<ready, link>>
     ELSE ready' = [ready EXCEPT ![ref] = "closed"] /\ link' = link \ {ref}
  /\ ref' = 0
  /\ UNCHANGED <<made, server, caster, subscriber, pending>>

OnOpen(k) ==
  /\ ready[k] = "connecting" /\ handler[k] = "receiving" /\ k \in link
  /\ ready' = [ready EXCEPT ![k] = "open"]
  /\ UNCHANGED <<mounted, timer, ref, made, armed, server, caster, link, subscriber, pending>>

\* The close event of a socket, whoever closed it.
OnClose(k) ==
  /\ k \in armed /\ k \notin link
  /\ armed' = armed \ {k}
  /\ ready' = [ready EXCEPT ![k] = "closed"]
  /\ IF mounted THEN ref' = 0 /\ timer' = TRUE ELSE UNCHANGED <<ref, timer>>
  /\ UNCHANGED <<mounted, made, server, caster, link, subscriber, pending>>

\* The scheduled connect().
RetryTimer ==
  /\ timer /\ timer' = FALSE
  /\ IF mounted /\ (ref = 0 \/ ready[ref] # "open")
     THEN OpenSocket ELSE UNCHANGED <<made, ref, ready, armed, link>>
  /\ UNCHANGED <<mounted, server, caster, subscriber, pending>>

\* The connection breaks, or the proxy between drops it; both ends notice later.
Lose(k) ==
  /\ k \in link
  /\ link' = link \ {k}
  /\ UNCHANGED <<browser, server, caster, subscriber, pending>>

-----------------------------------------------------------------------------
(* The server: endpoint and manager.                                       *)

\* websocket_endpoint: manager.connect accepts, tracks and counts.
Accept(k) ==
  /\ handler[k] = "none" /\ k \in link
  /\ handler' = [handler EXCEPT ![k] = "receiving"]
  /\ tracked' = tracked \union {k}
  /\ gauge' = gauge + 1
  /\ UNCHANGED <<browser, caster, link, subscriber, pending>>

\* manager.disconnect: discards the sockets, which may be gone already, and counts each.
Disconnected(gone) ==
  /\ tracked' = tracked \ gone
  /\ gauge' = gauge - Cardinality(gone)

\* Mutant: a disconnect is left to the next failing broadcast.
EndpointForgets(k) ==
  /\ handler[k] = "receiving" /\ k \notin link
  /\ handler' = [handler EXCEPT ![k] = "done"]
  /\ UNCHANGED <<tracked, gauge, browser, caster, link, subscriber, pending>>

\* receive_text raises WebSocketDisconnect.
EndpointDisconnect(k) ==
  /\ handler[k] = "receiving" /\ k \notin link
  /\ handler' = [handler EXCEPT ![k] = "done"]
  /\ Disconnected({k})
  /\ UNCHANGED <<browser, caster, link, subscriber, pending>>

\* Mutant: a failed send ends the broadcast.
SendOrStop(k) ==
  /\ casting /\ k \in todo
  /\ \/ todo' = todo \ {k} /\ sent' = sent \union {k} /\ UNCHANGED dead
     \/ k \notin link /\ todo' = {} /\ dead' = dead \union {k} /\ UNCHANGED sent
  /\ UNCHANGED <<target, casting, browser, server, link, subscriber, pending>>

\* One send of broadcast(): to a connection that is gone it fails, or is lost unnoticed.
Send(k) ==
  /\ casting /\ k \in todo
  /\ todo' = todo \ {k}
  /\ \/ sent' = sent \union {k} /\ UNCHANGED dead
     \/ k \notin link /\ dead' = dead \union {k} /\ UNCHANGED sent
  /\ UNCHANGED <<target, casting, browser, server, link, subscriber, pending>>

\* ... and its end: the dead ones are disconnected, whatever their endpoint did meanwhile.
EndBroadcast ==
  /\ casting /\ todo = {}
  /\ casting' = FALSE /\ dead' = {} /\ target' = {} /\ sent' = {}
  /\ Disconnected(dead)
  /\ UNCHANGED <<todo, handler, browser, link, subscriber, pending>>

-----------------------------------------------------------------------------
(* Redis and the subscriber.                                               *)

\* The lifespan starts the task; it subscribes, or waits and tries again.
StartSubscriber ==
  /\ subscriber = "off" /\ subscriber' = "down"
  /\ UNCHANGED <<browser, server, caster, link, pending>>

Subscribe ==
  /\ subscriber = "down" /\ subscriber' = "listening"
  /\ UNCHANGED <<browser, server, caster, link, pending>>

\* The connection to Redis fails, and with it goes what was not taken yet.
SubscriberFails ==
  /\ subscriber = "listening" /\ ~casting
  /\ subscriber' = "down" /\ pending' = 0
  /\ UNCHANGED <<browser, server, caster, link>>

\* publish_event: lost when nobody listens, and when Redis is down (publish_event_safe).
PublishEvent ==
  /\ subscriber = "listening" /\ pending < MaxPending
  /\ pending' = pending + 1
  /\ UNCHANGED <<browser, server, caster, link, subscriber>>

\* The loop takes a message and broadcasts to a copy of the set.
StartBroadcast ==
  /\ subscriber = "listening" /\ ~casting /\ pending > 0
  /\ pending' = pending - 1
  /\ casting' = TRUE /\ todo' = tracked /\ target' = tracked
  /\ UNCHANGED <<dead, sent, browser, server, link, subscriber>>

-----------------------------------------------------------------------------
BrowserEvent == \E k \in Sockets : OnOpen(k) \/ OnClose(k)
ServerStep ==
  \/ \E k \in Sockets : Accept(k) \/ EndpointDisconnect(k) \/ Send(k)
  \/ EndBroadcast
  \/ StartBroadcast

EventNext ==
  \/ Mount \/ Unmount \/ RetryTimer
  \/ BrowserEvent
  \/ \E k \in Sockets : Lose(k)
  \/ ServerStep
  \/ StartSubscriber \/ Subscribe \/ SubscriberFails \/ PublishEvent

EventSpec == EventInit /\ [][EventNext]_eventVars

\* The event loop of the API process runs.
EventFairness ==
  /\ \A k \in Sockets : WF_eventVars(Send(k)) /\ WF_eventVars(EndpointDisconnect(k))
  /\ WF_eventVars(EndBroadcast)

-----------------------------------------------------------------------------
(***************************************************************************)
(* A tab has one socket at a time, none when the hook is unmounted, and    *)
(* never a socket and a timer that would make a second one, also when it   *)
(* is unmounted and mounted again before the old socket's close event.     *)
(***************************************************************************)
OneSocket ==
  /\ \A k \in Sockets : ready[k] \in {"connecting", "open"} => k = ref
  /\ timer => mounted /\ ref = 0

(***************************************************************************)
(* A dead client takes no message from the others: broadcast() sends to    *)
(* all that were tracked when it began and whose connection stands.        *)
(***************************************************************************)
BroadcastReachesAll == casting /\ todo = {} => target \intersect link \subseteq sent

(***************************************************************************)
(* A connection that is gone does not stay in the manager's set, whether   *)
(* its endpoint or a broadcast sees it first, or both do.                  *)
(***************************************************************************)
ClosedIsUntracked ==
  EventFairness => \A k \in Sockets : []<>(k \in tracked => k \in link)
=============================================================================
