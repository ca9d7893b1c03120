----------------------------- MODULE MarketFeed -----------------------------
(***************************************************************************)
(* The market feed of one city: MarketFeedConsumer (kalshi/market_feed.py) *)
(* and its socket KalshiWebSocket (kalshi/websocket.py).                   *)
(*                                                                         *)
(* A ticker is a date and a bracket's label; the markets of today and      *)
(* tomorrow are active.  What the socket is subscribed to at Kalshi        *)
(* ("live") dies with it; the consumer keeps a set of its own              *)
(* ("subscribed"), and the socket object the list it sends again when it   *)
(* reconnects ("resend").                                                  *)
(***************************************************************************)
EXTENDS Naturals

CONSTANTS
  Labels,      \* the brackets of an event
  MaxDay,      \* bound: days that pass
  MaxRetries   \* MAX_RECONNECT_RETRIES

ASSUME FeedAssumption == MaxDay \in Nat /\ MaxRetries \in Nat \ {0}

VARIABLES
  phase,       \* where start() is
  wanted,      \* tickers still to be subscribed
  attempt,     \* failed attempts of _reconnect
  up,          \* the socket is open
  live,        \* what Kalshi holds for the socket
  resend,      \* KalshiWebSocket._subscriptions
  subscribed,  \* MarketFeedConsumer._subscribed_tickers
  mapped,      \* the keys of _ticker_to_bracket
  due,         \* the refresh interval has passed
  today,
  renewed      \* history: a socket object with subscriptions was replaced

socket == <<up, live, resend>>
consumer == <<phase, wanted, attempt, subscribed, mapped, due, renewed>>
feedVars == <<socket, consumer, today>>

Dates == 0..(MaxDay + 1)
Tickers == Dates \X Labels

\* The markets of the events that build_event_ticker names: today's and tomorrow's.
Active == {today, today + 1} \X Labels

FeedTypeOK ==
  /\ phase \in {"off", "down", "connected", "subscribing", "listening"}
  /\ attempt \in 0..MaxRetries
  /\ up \in BOOLEAN /\ due \in BOOLEAN /\ renewed \in BOOLEAN
  /\ wanted \subseteq Tickers /\ live \subseteq Tickers /\ resend \subseteq Tickers
  /\ subscribed \subseteq Tickers /\ mapped \subseteq Tickers
  /\ today \in 0..MaxDay

FeedInit ==
  /\ phase = "off" /\ wanted = {} /\ attempt = 0
  /\ up = FALSE /\ live = {} /\ resend = {}
  /\ subscribed = {} /\ mapped = {}
  /\ due = FALSE /\ renewed = FALSE
  /\ today = 0

-----------------------------------------------------------------------------
(* KalshiWebSocket.                                                        *)

\* A new object and its connect().
NewSocket == up' = TRUE /\ live' = {} /\ resend' = {}

\* close(), after which the object is dropped.
CloseSocket == up' = FALSE /\ live' = {} /\ resend' = {}

\* subscribe_ticker: sent, and remembered for a reconnect.
SendSubscription(t) == live' = live \union {t} /\ resend' = resend \union {t}

\* What listen() may yield: a message of a live subscription.
Yielded(t) == up /\ t \in live

-----------------------------------------------------------------------------
(* The consumer: start().                                                  *)

\* The lifespan of the API process starts and cancels the task.
StartFeed ==
  /\ phase = "off"
  /\ phase' = "down"
  /\ UNCHANGED <<socket, wanted, attempt, subscribed, mapped, due, renewed, today>>

StopFeed ==
  /\ phase # "off"
  /\ phase' = "off" /\ wanted' = {} /\ attempt' = 0
  /\ CloseSocket
  /\ subscribed' = {} /\ mapped' = {} /\ due' = FALSE /\ renewed' = FALSE
  /\ UNCHANGED today

\* A turn of the loop of start().  Without credentials or an answer, start() sleeps and tries
\* again, and nothing changes.
Connect ==
  /\ phase = "down"
  /\ phase' = "connected" /\ attempt' = 0 /\ due' = FALSE
  /\ NewSocket
  /\ renewed' = (renewed \/ subscribed # {})
  /\ UNCHANGED <<wanted, subscribed, mapped, today>>

\* Mutant: the markets of today only.
DiscoveredToday(dates) == Active \cap ((dates \cap {today}) \X Labels)

\* _get_active_tickers: one REST call for each date, some of which fail.
Discovered(dates) == Active \cap (dates \X Labels)

\* The dates it may get an answer for.  _get_auth reads the credentials each time: without
\* them, or without the database, there is none.
Answerable == SUBSET {today, today + 1}

\* Each ticker is mapped to its date and the label that parse_bracket_from_market gives its
\* strikes, one label to a bracket.
MapTickers(found) == mapped \union found

\* _subscribe_active_markets, after connecting.
SubscribeActiveMarkets(dates) ==
  /\ phase = "connected"
  /\ mapped' = MapTickers(Discovered(dates))
  /\ wanted' = Discovered(dates) \ subscribed
  /\ phase' = "subscribing"
  /\ UNCHANGED <<socket, attempt, subscribed, due, renewed, today>>

SubscribeTicker(t) ==
  /\ phase = "subscribing" /\ t \in wanted /\ up
  /\ wanted' = wanted \ {t}
  /\ subscribed' = subscribed \union {t}
  /\ SendSubscription(t)
  /\ UNCHANGED <<up, phase, attempt, mapped, due, renewed, today>>

\* Sending to a closed socket raises: start() drops the socket and sleeps.
SubscribeFails ==
  /\ phase = "subscribing" /\ wanted # {} /\ ~up
  /\ phase' = "down" /\ wanted' = {}
  /\ UNCHANGED <<socket, attempt, subscribed, mapped, due, renewed, today>>

Subscribed ==
  /\ phase = "subscribing" /\ wanted = {}
  /\ phase' = "listening"
  /\ UNCHANGED <<socket, wanted, attempt, subscribed, mapped, due, renewed, today>>

\* _refresh_subscriptions.  Nothing is unsubscribed at Kalshi.
Refresh(dates) ==
  LET desired == Discovered(dates)
      expired == subscribed \ desired
  IN
  /\ mapped' = MapTickers(desired) \ expired
  /\ subscribed' = subscribed \ expired
  /\ wanted' = desired \ subscribed
  /\ phase' = "subscribing" /\ due' = FALSE

-----------------------------------------------------------------------------
(* Messages and the connection.                                            *)

\* A price of a subscribed ticker (what becomes of it: PriceCache).  The refresh waits for
\* a message.
Receive(t, dates) ==
  /\ phase = "listening" /\ Yielded(t)
  /\ IF due THEN Refresh(dates) ELSE UNCHANGED <<mapped, subscribed, wanted, phase, due>>
  /\ UNCHANGED <<socket, attempt, renewed, today>>

Disconnect ==
  /\ up
  /\ up' = FALSE /\ live' = {}
  /\ UNCHANGED <<resend, consumer, today>>

\* Mutant: the new connection is left without its subscriptions.
ReconnectBare ==
  /\ phase = "listening" /\ ~up
  /\ up' = TRUE /\ live' = {}
  /\ attempt' = 0
  /\ UNCHANGED <<resend, phase, wanted, subscribed, mapped, due, renewed, today>>

\* _reconnect: the same socket object sends all it ever subscribed to again.
Reconnect ==
  /\ phase = "listening" /\ ~up
  /\ up' = TRUE /\ live' = resend
  /\ attempt' = 0
  /\ UNCHANGED <<resend, phase, wanted, subscribed, mapped, due, renewed, today>>

\* After the last attempt listen() raises, and start() will make a new socket.
ReconnectFails ==
  /\ phase = "listening" /\ ~up
  /\ attempt' = attempt + 1
  /\ phase' = IF attempt' = MaxRetries THEN "down" ELSE phase
  /\ UNCHANGED <<socket, wanted, subscribed, mapped, due, renewed, today>>

\* Time for a refresh; it is measured from the last one.
IntervalPasses ==
  /\ phase = "listening" /\ ~due
  /\ due' = TRUE
  /\ UNCHANGED <<socket, phase, wanted, attempt, subscribed, mapped, renewed, today>>

NextDay ==
  /\ today < MaxDay
  /\ today' = today + 1
  /\ UNCHANGED <<socket, consumer>>

-----------------------------------------------------------------------------
Deliver == \E t \in live, dates \in Answerable : Receive(t, dates)

FeedStep ==
  \/ \E t \in wanted : SubscribeTicker(t)
  \/ SubscribeFails
  \/ Subscribed

FeedNext ==
  \/ StartFeed
  \/ StopFeed
  \/ Connect
  \/ \E dates \in Answerable : SubscribeActiveMarkets(dates)
  \/ FeedStep
  \/ Deliver
  \/ Disconnect
  \/ Reconnect
  \/ ReconnectFails
  \/ IntervalPasses
  \/ NextDay

FeedSpec == FeedInit /\ [][FeedNext]_feedVars

\* Kalshi's REST answers, now and then, for all dates; a subscribed market's price keeps
\* moving; and a connection stays long enough for the consumer to take its steps.
FeedFairness ==
  /\ WF_feedVars(FeedStep)
  /\ WF_feedVars(IntervalPasses)
  /\ SF_feedVars(due /\ \E t \in live : Receive(t, {today, today + 1}))

-----------------------------------------------------------------------------
(***************************************************************************)
(* A reconnect by the socket itself loses no subscription: what the        *)
(* consumer believes to be subscribed is live (websocket.py, "Automatic    *)
(* re-subscription on reconnect"), as long as start() did not have to      *)
(* replace the socket.                                                     *)
(***************************************************************************)
ReconnectResubscribes ==
  phase \in {"subscribing", "listening"} /\ up /\ ~renewed => subscribed \subseteq live

(***************************************************************************)
(* A feed that stays connected and has anything to listen to comes to have *)
(* every active market, tomorrow's that appear at midnight among them,     *)
(* subscribed and mapped to its bracket, again and again as days pass.     *)
(***************************************************************************)
FeedFollowsMarkets ==
  FeedFairness =>
    []<>(\/ phase \notin {"subscribing", "listening"} \/ live = {} \/ renewed
         \/ Active \subseteq live \cap mapped)
=============================================================================
