-------------------------- MODULE ConnectionProofs --------------------------
(***************************************************************************)
(* Theorems about what is connected to what: the market feed, the price    *)
(* cache it fills, the limiters of calls to Kalshi and the push of events  *)
(* to browsers; for any brackets, days, retries, time to live, callers,    *)
(* rate, burst, sockets and messages.                                      *)
(*                                                                         *)
(* A reconnect loses nothing because the socket's list is what Kalshi      *)
(* holds as long as the socket is open (ResendIsLive), and the consumer    *)
(* believes in nothing else while start() has not replaced the socket      *)
(* (BelievedIsResent).  A cache that is read holds a price younger than    *)
(* its time to live because each write renews both together (SomeIsYoung). *)
(*                                                                         *)
(* What bounds the calls of the token bucket is a sum: a call takes from   *)
(* the bucket what it adds to the vessel, and a tick takes more from the   *)
(* vessel than it adds to the bucket (LevelIsBounded).  While a caller     *)
(* sleeps the sum is replaced by what the sleep still owes (SleepIsOwed):  *)
(* its end wipes the tokens, and the time slept is credited once more.     *)
(*                                                                         *)
(* The browser keeps one socket because the handler that makes another is  *)
(* set on wsRef.current alone (BrowserOK).  A broadcast misses nobody      *)
(* because each of its targets is still to be sent to, was sent to, or     *)
(* failed, and one that failed is gone (CastOK).  The gauge is too low by  *)
(* the clients that broadcasts disconnected, each of them once             *)
(* (GaugeCounts): it may fall below zero, and not without bound.           *)
(***************************************************************************)
EXTENDS MarketFeed, PriceCache, RateLimiters, EventPush, FiniteSetTheorems, TLAPS

-----------------------------------------------------------------------------
(* The market feed.                                                        *)

ResendIsLive == up => live = resend

BelievedIsResent ==
  phase \in {"connected", "subscribing", "listening"} /\ ~renewed => subscribed \subseteq resend

TriesAreLeft == phase \in {"connected", "subscribing", "listening"} => attempt < MaxRetries

FeedIInv == FeedTypeOK /\ TriesAreLeft /\ ResendIsLive /\ BelievedIsResent

LEMMA ActiveType ==
  ASSUME today \in 0..MaxDay
  PROVE  Active \subseteq Tickers
<1>1. {today, today + 1} \subseteq Dates
  BY FeedAssumption DEF Dates
<1> QED
  BY <1>1 DEF Active, Tickers

LEMMA FeedInitIInv == FeedInit => FeedIInv
<1> SUFFICES ASSUME FeedInit PROVE FeedIInv
  OBVIOUS
<1>1. FeedTypeOK
  <2>1. up \in BOOLEAN /\ due \in BOOLEAN /\ renewed \in BOOLEAN
    BY DEF FeedInit
  <2>2. attempt \in 0..MaxRetries /\ today \in 0..MaxDay
    BY FeedAssumption DEF FeedInit
  <2> QED
    BY <2>1, <2>2 DEF FeedInit, FeedTypeOK
<1>2. TriesAreLeft /\ ResendIsLive /\ BelievedIsResent
  BY DEF FeedInit, TriesAreLeft, ResendIsLive, BelievedIsResent
<1> QED
  BY <1>1, <1>2 DEF FeedIInv

LEMMA FeedNextType ==
  ASSUME FeedTypeOK, TriesAreLeft, [FeedNext]_feedVars
  PROVE  FeedTypeOK' /\ TriesAreLeft'
<1> USE FeedAssumption DEF FeedTypeOK, TriesAreLeft
<1>1. CASE StartFeed
  BY <1>1 DEF StartFeed, socket
<1>2. CASE StopFeed
  <2>1. up' \in BOOLEAN /\ due' \in BOOLEAN /\ renewed' \in BOOLEAN
    BY <1>2 DEF StopFeed, CloseSocket
  <2>2. attempt' \in 0..MaxRetries /\ today' = today /\ phase' = "off"
    BY <1>2 DEF StopFeed
  <2> QED
    BY <1>2, <2>1, <2>2 DEF StopFeed, CloseSocket
<1>3. CASE Connect
  <2>1. up' \in BOOLEAN /\ due' \in BOOLEAN /\ renewed' \in BOOLEAN
    BY <1>3 DEF Connect, NewSocket
  <2>2. attempt' \in 0..MaxRetries /\ attempt' < MaxRetries /\ phase' = "connected"
    BY <1>3 DEF Connect
  <2> QED
    BY <1>3, <2>1, <2>2 DEF Connect, NewSocket
<1>4. ASSUME NEW dates \in Answerable, SubscribeActiveMarkets(dates) PROVE FeedTypeOK' /\ TriesAreLeft'
  BY <1>4, ActiveType DEF SubscribeActiveMarkets, MapTickers, Discovered, socket
<1>5. CASE FeedStep
  BY <1>5 DEF FeedStep, SubscribeTicker, SendSubscription, SubscribeFails, Subscribed, socket
<1>6. ASSUME NEW t \in live, NEW dates \in Answerable, Receive(t, dates) PROVE FeedTypeOK' /\ TriesAreLeft'
  BY <1>6, ActiveType DEF Receive, Refresh, MapTickers, Discovered, socket
<1>7. CASE Disconnect
  BY <1>7 DEF Disconnect, consumer
<1>8. CASE Reconnect
  BY <1>8 DEF Reconnect
<1>9. CASE ReconnectFails
  BY <1>9 DEF ReconnectFails, socket
<1>10. CASE IntervalPasses
  BY <1>10 DEF IntervalPasses, socket
<1>11. CASE NextDay
  BY <1>11 DEF NextDay, socket, consumer
<1>12. CASE UNCHANGED feedVars
  BY <1>12 DEF feedVars, socket, consumer
<1> QED
  BY <1>1, <1>2, <1>3, <1>4, <1>5, <1>6, <1>7, <1>8, <1>9, <1>10, <1>11, <1>12 DEF FeedNext, Deliver

LEMMA FeedNextBelief ==
  ASSUME FeedIInv, [FeedNext]_feedVars
  PROVE  ResendIsLive' /\ BelievedIsResent'
<1> USE DEF FeedIInv, ResendIsLive, BelievedIsResent
<1>1. CASE StartFeed
  BY <1>1 DEF StartFeed, socket
<1>2. CASE StopFeed
  BY <1>2 DEF StopFeed, CloseSocket
<1>3. CASE Connect
  BY <1>3 DEF Connect, NewSocket
<1>4. ASSUME NEW dates \in Answerable, SubscribeActiveMarkets(dates)
      PROVE  ResendIsLive' /\ BelievedIsResent'
  BY <1>4 DEF SubscribeActiveMarkets, socket
<1>5. CASE FeedStep
  BY <1>5 DEF FeedStep, SubscribeTicker, SendSubscription, SubscribeFails, Subscribed, socket
<1>6. ASSUME NEW t \in live, NEW dates \in Answerable, Receive(t, dates)
      PROVE  ResendIsLive' /\ BelievedIsResent'
  BY <1>6 DEF Receive, Refresh, socket
<1>7. CASE Disconnect
  BY <1>7 DEF Disconnect, consumer
<1>8. CASE Reconnect
  BY <1>8 DEF Reconnect
<1>9. CASE ReconnectFails
  BY <1>9 DEF ReconnectFails, socket
<1>10. CASE IntervalPasses
  BY <1>10 DEF IntervalPasses, socket
<1>11. CASE NextDay
  BY <1>11 DEF NextDay, socket, consumer
<1>12. CASE UNCHANGED feedVars
  BY <1>12 DEF feedVars, socket, consumer
<1> QED
  BY <1>1, <1>2, <1>3, <1>4, <1>5, <1>6, <1>7, <1>8, <1>9, <1>10, <1>11, <1>12 DEF FeedNext, Deliver

LEMMA FeedNextIInv == FeedIInv /\ [FeedNext]_feedVars => FeedIInv'
BY FeedNextType, FeedNextBelief DEF FeedIInv

(***************************************************************************)
(* The feed's state is of its type: what the consumer and the socket list  *)
(* are tickers of days there are, and the attempts end at the limit of     *)
(* _reconnect.                                                             *)
(***************************************************************************)
THEOREM FeedTypeCorrect == FeedSpec => []FeedTypeOK
<1>1. FeedIInv => FeedTypeOK
  BY DEF FeedIInv
<1> QED
  BY <1>1, FeedInitIInv, FeedNextIInv, PTL DEF FeedSpec

(***************************************************************************)
(* A reconnect by the socket itself loses no subscription the consumer     *)
(* believes in (KalshiWebSocket._reconnect).                               *)
(***************************************************************************)
THEOREM ReconnectLosesNothing == FeedSpec => []ReconnectResubscribes
<1>1. FeedIInv => ReconnectResubscribes
  BY DEF FeedIInv, ResendIsLive, BelievedIsResent, ReconnectResubscribes
<1> QED
  BY <1>1, FeedInitIInv, FeedNextIInv, PTL DEF FeedSpec

-----------------------------------------------------------------------------
(* The price cache.                                                        *)

\* Of the prices in Redis one is at least as young as the key is.
SomeIsYoung ==
  prices.left > 0 => \E b \in DOMAIN prices.quote : prices.quote[b].age + prices.left <= Ttl

CacheIInv == CacheTypeOK /\ SomeIsYoung /\ ServedIsAlive

LEMMA QuoteOf ==
  ASSUME NEW quotes \in QuoteMaps, NEW b \in DOMAIN quotes
  PROVE  quotes[b] \in Quote
BY DEF QuoteMaps

LEMMA MapType ==
  ASSUME NEW quotes, quotes = [b \in DOMAIN quotes |-> quotes[b]], DOMAIN quotes \subseteq Brackets,
         \A b \in DOMAIN quotes : quotes[b] \in Quote
  PROVE  quotes \in QuoteMaps
<1>1. quotes \in [DOMAIN quotes -> Quote]
  OBVIOUS
<1> QED
  BY <1>1 DEF QuoteMaps

LEMMA NoQuotesType == NoQuotes \in QuoteMaps
BY MapType DEF NoQuotes

LEMMA DomainType ==
  ASSUME NEW quotes \in QuoteMaps
  PROVE  DOMAIN quotes \subseteq Brackets
BY DEF QuoteMaps

LEMMA CacheInitIInv == CacheInit => CacheIInv
<1> SUFFICES ASSUME CacheInit PROVE CacheIInv
  OBVIOUS
<1>1. CacheTypeOK
  BY NoQuotesType, CacheAssumption DEF CacheInit, CacheTypeOK, Starting, TickerTtl
<1>2. SomeIsYoung /\ ServedIsAlive
  BY DEF CacheInit, SomeIsYoung, ServedIsAlive, Starting
<1> QED
  BY <1>1, <1>2 DEF CacheIInv

\* A step that leaves Redis alone: what it owes.
LEMMA ReaderStep ==
  ASSUME CacheIInv, UNCHANGED <<prices, tickers>>,
         reader' \in [at : {"starts", "priced", "ready"}, quote : QuoteMaps,
                      source : {"none", "cache", "rest"}, markets : SUBSET Brackets],
         ServedIsAlive'
  PROVE  CacheIInv'
BY DEF CacheIInv, CacheTypeOK, SomeIsYoung

LEMMA HandleTickerUpdateIInv ==
  ASSUME CacheIInv, NEW b \in Brackets, HandleTickerUpdate(b)
  PROVE  CacheIInv'
<1> DEFINE old == IF GetCityPrices THEN prices.quote ELSE NoQuotes
           known == IF GetCityPrices THEN tickers.of ELSE {}
           quotes(paid) == [k \in DOMAIN old \union {b} |->
                              IF k = b THEN [age |-> 0, paid |-> paid] ELSE old[k]]
<1>1. PICK paid \in BOOLEAN : SetCityPrices(quotes(paid), known \union {b})
  BY DEF HandleTickerUpdate
<1>2. old \in QuoteMaps /\ known \subseteq Brackets
  BY NoQuotesType DEF CacheIInv, CacheTypeOK
<1> HIDE DEF old, known
<1>3. [age |-> 0, paid |-> paid] \in Quote
  BY CacheAssumption DEF Quote
<1>4. quotes(paid) \in QuoteMaps
  <2>1. DOMAIN quotes(paid) = DOMAIN old \union {b}
    OBVIOUS
  <2>2. \A k \in DOMAIN quotes(paid) : quotes(paid)[k] \in Quote
    BY <1>2, <1>3, QuoteOf
  <2> QED
    BY <1>2, <2>1, <2>2, DomainType, MapType
<1>5. b \in DOMAIN quotes(paid) /\ quotes(paid)[b].age = 0
  OBVIOUS
<1> HIDE DEF quotes
<1>6. prices' = [left |-> Ttl, quote |-> quotes(paid)] /\ tickers' = [left |-> TickerTtl, of |-> known \union {b}]
  BY <1>1 DEF SetCityPrices
<1>7. reader' = reader
  BY DEF HandleTickerUpdate
<1>8. CacheTypeOK'
  BY <1>2, <1>4, <1>6, <1>7, CacheAssumption DEF CacheIInv, CacheTypeOK, TickerTtl
<1>9. SomeIsYoung' /\ ServedIsAlive'
  BY <1>5, <1>6, <1>7, CacheAssumption DEF CacheIInv, SomeIsYoung, ServedIsAlive
<1> QED
  BY <1>8, <1>9 DEF CacheIInv

LEMMA OlderType ==
  ASSUME NEW q \in Quote
  PROVE  Older(q) \in Quote /\ Older(q).age <= q.age + 1
BY CacheAssumption DEF Older, Quote

LEMMA CacheTickIInv ==
  ASSUME CacheIInv, CacheTick
  PROVE  CacheIInv'
<1>1. tickers' \in [left : 0..TickerTtl, of : SUBSET Brackets]
  <2>1. tickers.left \in 1..TickerTtl /\ tickers.of \subseteq Brackets
    BY CacheAssumption DEF CacheTick, CacheIInv, CacheTypeOK, TickerTtl
  <2>2. tickers' = [left |-> 0, of |-> {}] \/ tickers' = [left |-> tickers.left - 1, of |-> tickers.of]
    BY DEF CacheTick, CacheIInv, CacheTypeOK
  <2> QED
    BY <2>1, <2>2, CacheAssumption DEF TickerTtl
<1>2. reader' = reader
  BY DEF CacheTick
<1>3. prices.left \in 0..Ttl /\ prices.quote \in QuoteMaps
  BY DEF CacheIInv, CacheTypeOK
<1>4. CASE prices.left <= 1
  <2>1. prices' = [left |-> 0, quote |-> NoQuotes]
    BY <1>4 DEF CacheTick
  <2>2. prices' \in [left : 0..Ttl, quote : QuoteMaps] /\ prices'.left = 0
    BY <2>1, NoQuotesType, CacheAssumption
  <2> QED
    BY <1>1, <1>2, <2>2 DEF CacheIInv, CacheTypeOK, SomeIsYoung, ServedIsAlive
<1>5. CASE ~(prices.left <= 1)
  <2> DEFINE older == [b \in DOMAIN prices.quote |-> Older(prices.quote[b])]
  <2>1. prices' = [left |-> prices.left - 1, quote |-> older]
    BY <1>5 DEF CacheTick
  <2>2. older \in QuoteMaps
    <3>1. \A b \in DOMAIN older : older[b] \in Quote
      BY <1>3, QuoteOf, OlderType
    <3>2. DOMAIN older \subseteq Brackets
      BY <1>3, DomainType
    <3> QED
      BY <3>1, <3>2, MapType
  <2>3. PICK b \in DOMAIN prices.quote : prices.quote[b].age + prices.left <= Ttl
    BY <1>3, <1>5 DEF CacheIInv, SomeIsYoung
  <2>4. /\ older[b].age <= prices.quote[b].age + 1
        /\ older[b].age \in Nat /\ prices.quote[b].age \in Nat
    <3>1. prices.quote[b] \in Quote
      BY <1>3, QuoteOf
    <3>2. older[b] \in Quote /\ older[b].age <= prices.quote[b].age + 1
      BY <3>1, OlderType
    <3> QED
      BY <3>1, <3>2, CacheAssumption DEF Quote
  <2>5. b \in DOMAIN older /\ older[b].age + (prices.left - 1) <= Ttl
    BY <1>3, <2>3, <2>4, CacheAssumption
  <2> HIDE DEF older
  <2>6. prices' \in [left : 0..Ttl, quote : QuoteMaps]
    BY <1>3, <1>5, <2>1, <2>2, CacheAssumption
  <2>7. SomeIsYoung'
    BY <2>1, <2>5 DEF SomeIsYoung
  <2> QED
    BY <1>1, <1>2, <2>6, <2>7 DEF CacheIInv, CacheTypeOK, ServedIsAlive
<1> QED
  BY <1>4, <1>5

LEMMA FetchMarketPricesIInv ==
  ASSUME CacheIInv, FetchMarketPrices
  PROVE  CacheIInv'
<1> DEFINE Readers == [at : {"starts", "priced", "ready"}, quote : QuoteMaps,
                       source : {"none", "cache", "rest"}, markets : SUBSET Brackets]
<1>1. reader \in Readers
  BY DEF CacheIInv, CacheTypeOK
<1>2. CASE GetCityPrices /\ UseCache
  <2>1. reader' = [reader EXCEPT !.at = "priced", !.source = "cache", !.quote = prices.quote]
    BY <1>2 DEF UseCache
  <2>2. prices.quote \in QuoteMaps /\ prices.left \in 1..Ttl
    BY <1>2, CacheAssumption DEF GetCityPrices, CacheIInv, CacheTypeOK
  <2>3. reader' \in Readers /\ reader'.quote = prices.quote
    BY <1>1, <2>1, <2>2
  <2>4. PICK b \in DOMAIN prices.quote : prices.quote[b].age + prices.left <= Ttl
    BY <2>2 DEF CacheIInv, SomeIsYoung
  <2>5. prices.quote[b].age \in Nat
    BY <2>2, QuoteOf, CacheAssumption DEF Quote
  <2>6. prices.quote[b].age < Ttl
    BY <2>2, <2>4, <2>5, CacheAssumption
  <2>7. ServedIsAlive'
    BY <2>3, <2>4, <2>6 DEF ServedIsAlive
  <2> QED
    BY <2>3, <2>7, ReaderStep DEF FetchMarketPrices
<1>3. ASSUME NEW listing \in Listing, NEW book \in [Brackets -> Orderbook], UseRest(listing, book)
      PROVE  CacheIInv'
  <2>1. RestQuotes(listing, book) \in QuoteMaps
    <3>1. DOMAIN RestQuotes(listing, book) \subseteq Brackets
      BY DEF RestQuotes
    <3>2. \A b \in DOMAIN RestQuotes(listing, book) : RestQuotes(listing, book)[b] \in Quote
      BY CacheAssumption DEF RestQuotes, Quote
    <3>3. RestQuotes(listing, book) = [b \in DOMAIN RestQuotes(listing, book) |-> RestQuotes(listing, book)[b]]
      BY DEF RestQuotes
    <3> QED
      BY <3>1, <3>2, <3>3, MapType
  <2>2. reader' = [reader EXCEPT !.at = "priced", !.source = "rest", !.quote = RestQuotes(listing, book)]
    BY <1>3 DEF UseRest
  <2>3. reader' \in Readers /\ reader'.source = "rest"
    BY <1>1, <2>1, <2>2
  <2> QED
    BY <2>3, ReaderStep DEF FetchMarketPrices, ServedIsAlive
<1>4. CASE reader' = [reader EXCEPT !.at = "priced"]
  <2>1. reader' \in Readers /\ reader'.source = reader.source /\ reader'.quote = reader.quote
    BY <1>1, <1>4
  <2>2. ServedIsAlive'
    BY <2>1 DEF CacheIInv, ServedIsAlive
  <2> QED
    BY <2>1, <2>2, ReaderStep DEF FetchMarketPrices
<1> QED
  BY <1>2, <1>3, <1>4 DEF FetchMarketPrices

LEMMA RestOfCycleIInv ==
  ASSUME CacheIInv, FetchMarketTickers \/ NextCycle
  PROVE  CacheIInv'
<1> DEFINE Readers == [at : {"starts", "priced", "ready"}, quote : QuoteMaps,
                       source : {"none", "cache", "rest"}, markets : SUBSET Brackets]
<1>1. reader \in Readers
  BY DEF CacheIInv, CacheTypeOK
<1>2. CASE FetchMarketTickers
  <2>1. PICK of \in {Brackets, {}} \union {known \in {tickers.of} : GetCityPrices /\ known # {}} :
          reader' = [reader EXCEPT !.at = "ready", !.markets = of \intersect DOMAIN reader.quote]
    BY <1>2 DEF FetchMarketTickers
  <2>2. of \subseteq Brackets
    BY DEF CacheIInv, CacheTypeOK
  <2>3. reader' \in Readers /\ reader'.source = reader.source /\ reader'.quote = reader.quote
    BY <1>1, <2>1, <2>2
  <2>4. ServedIsAlive'
    BY <2>3 DEF CacheIInv, ServedIsAlive
  <2> QED
    BY <1>2, <2>3, <2>4, ReaderStep DEF FetchMarketTickers
<1>3. CASE NextCycle
  <2>1. Starting \in Readers /\ Starting.source = "none"
    BY NoQuotesType DEF Starting
  <2> QED
    BY <1>3, <2>1, ReaderStep DEF NextCycle, ServedIsAlive
<1> QED
  BY <1>2, <1>3

LEMMA CacheNextIInv == CacheIInv /\ [CacheNext]_cacheVars => CacheIInv'
<1>1. ASSUME CacheIInv, UNCHANGED cacheVars PROVE CacheIInv'
  BY <1>1 DEF cacheVars, CacheIInv, CacheTypeOK, SomeIsYoung, ServedIsAlive
<1> QED
  BY <1>1, HandleTickerUpdateIInv, CacheTickIInv, FetchMarketPricesIInv, RestOfCycleIInv DEF CacheNext

(***************************************************************************)
(* The two keys in Redis and what a cycle has read of them are of their    *)
(* type.                                                                   *)
(***************************************************************************)
THEOREM CacheTypeCorrect == CacheSpec => []CacheTypeOK
<1>1. CacheIInv => CacheTypeOK
  BY DEF CacheIInv
<1> QED
  BY <1>1, CacheInitIInv, CacheNextIInv, PTL DEF CacheSpec

(***************************************************************************)
(* No cycle trades on cached prices none of which was updated within the   *)
(* time to live (kalshi/cache.py; _fetch_market_prices).                   *)
(***************************************************************************)
THEOREM ServedPricesAreAlive == CacheSpec => []ServedIsAlive
<1>1. CacheIInv => ServedIsAlive
  BY DEF CacheIInv
<1> QED
  BY <1>1, CacheInitIInv, CacheNextIInv, PTL DEF CacheSpec

-----------------------------------------------------------------------------
(* The rate limiters.                                                       *)

\* The lock.
OneSleeper == \A c, d \in Callers : caller[c] = "asleep" /\ caller[d] = "asleep" => c = d

NothingYet ==
  using = "none" => /\ \A c \in Callers : caller[c] = "idle"
                    /\ tokens = Full /\ sinceRefill = 0 /\ load = 0

\* The vessel drains at twice the rate or faster.
TwiceTheRate == Drain >= 2

\* No caller sleeps: the level and the tokens there will be at the next refill.
LevelIsBounded ==
  TwiceTheRate /\ using = "bucket" /\ ~Locked => load + Refilled <= Full + Interval

\* One does: it has not slept enough for a token as long as remaining says, and the vessel
\* has drained for as long as it slept.
SleepIsOwed ==
  using = "bucket" /\ Locked =>
    /\ tokens < Interval
    /\ remaining + tokens + sinceRefill >= Interval
    /\ TwiceTheRate => load = 0 \/ load + tokens + 2 * sinceRefill <= Full + Interval

\* A sleep lasts until the interval is over.
SleepSpansInterval == using = "spacing" /\ Locked => remaining + sinceCall >= Interval

LimiterIInv ==
  /\ LimiterTypeOK
  /\ OneSleeper
  /\ NothingYet
  /\ LevelIsBounded
  /\ SleepIsOwed
  /\ SleepSpansInterval

-----------------------------------------------------------------------------
\* The bucket holds a token or more.
LEMMA FullIsNat == Full \in Nat /\ Full >= Interval /\ Interval \in Nat \ {0}
<1> USE LimiterAssumption
<1>1. Full \in Nat
  BY DEF Full
<1>2. PICK n \in Nat : Burst = n + 1
  <2>1. Burst - 1 \in Nat /\ Burst = (Burst - 1) + 1
    OBVIOUS
  <2> QED
    BY <2>1
<1>3. Full = n * Interval + Interval /\ n * Interval \in Nat
  BY <1>2 DEF Full
<1> QED
  BY <1>1, <1>3

LEMMA LimiterInitIInv == LimiterInit => LimiterIInv
BY FullIsNat DEF LimiterInit, LimiterIInv, LimiterTypeOK, OneSleeper, NothingYet, LevelIsBounded,
   SleepIsOwed, SleepSpansInterval, Locked, Refilled, Least, Overflow

\* A caller leaves the sleep of which there is one at most: nobody sleeps any more.
LEMMA Awake ==
  ASSUME LimiterTypeOK, OneSleeper, NEW c \in Callers, caller[c] = "asleep",
         NEW s, s # "asleep", caller' = [caller EXCEPT ![c] = s]
  PROVE  ~Locked'
BY DEF LimiterTypeOK, OneSleeper, Locked

\* Nobody sleeps and a caller does not begin to.
LEMMA StillAwake ==
  ASSUME LimiterTypeOK, NEW c \in Callers, ~Locked,
         NEW s, s # "asleep", caller' = [caller EXCEPT ![c] = s]
  PROVE  ~Locked'
BY DEF LimiterTypeOK, Locked

LEMMA LimiterNextIInv == LimiterIInv /\ [LimiterNext]_limiterVars => LimiterIInv'
<1> SUFFICES ASSUME LimiterIInv, [LimiterNext]_limiterVars PROVE LimiterIInv'
  OBVIOUS
<1> USE FullIsNat, LimiterAssumption DEF LimiterIInv
<1>1. CASE Choose
  <2>1. Refilled' = Full /\ ~Locked'
    BY <1>1 DEF Choose, NothingYet, Locked, Refilled, Least, LimiterTypeOK
  <2> QED
    BY <1>1, <2>1 DEF Choose, LimiterTypeOK, OneSleeper, NothingYet, LevelIsBounded, SleepIsOwed,
       SleepSpansInterval
<1>2. ASSUME NEW c \in Callers, AcquireToken(c) PROVE LimiterIInv'
  <2> USE <1>2 DEF AcquireToken
  <2>1. (TwiceTheRate => load + Refilled <= Full + Interval) /\ Refilled \in 0..Full
    BY DEF LevelIsBounded, LimiterTypeOK, Refilled, Least
  <2>2. CASE Refilled >= Interval
    <3>1. /\ tokens' = Refilled - Interval /\ Granted /\ sinceRefill' = 0
          /\ UNCHANGED <<using, remaining>> /\ caller' = [caller EXCEPT ![c] = "calls"]
      BY <2>2, <2>1 DEF LimiterTypeOK
    <3>2. ~Locked'
      BY <3>1, StillAwake
    <3>3. load' \in 0..Overflow /\ (TwiceTheRate => load' = load + Interval)
      BY <3>1, <2>1, <2>2 DEF Granted, Least, Overflow, LimiterTypeOK
    <3>4. Refilled' = Refilled - Interval
      BY <3>1, <2>1, <2>2 DEF LimiterTypeOK, Refilled, Least
    <3>5. LimiterTypeOK'
      BY <3>1, <3>3, <2>1, <2>2 DEF LimiterTypeOK, Granted, Overflow
    <3>6. TwiceTheRate => load' + Refilled' <= Full + Interval
      BY <3>3, <3>4, <2>1, <2>2 DEF LimiterTypeOK
    <3>7. LevelIsBounded' /\ SleepIsOwed'
      BY <3>1, <3>2, <3>6 DEF LevelIsBounded, SleepIsOwed
    <3> QED
      BY <3>1, <3>2, <3>5, <3>7 DEF OneSleeper, NothingYet, SleepSpansInterval, Locked
  <2>3. CASE Refilled < Interval
    <3>1. /\ tokens' = Refilled /\ remaining' = Interval - Refilled /\ sinceRefill' = 0
          /\ UNCHANGED <<using, sinceCall, load>> /\ caller' = [caller EXCEPT ![c] = "asleep"]
      BY <2>3, <2>1 DEF LimiterTypeOK
    <3>2. LimiterTypeOK'
      BY <3>1, <2>1, <2>3 DEF LimiterTypeOK
    <3>3. OneSleeper' /\ Locked'
      BY <3>1 DEF OneSleeper, Locked, LimiterTypeOK
    <3>4. SleepIsOwed'
      BY <3>1, <2>1, <2>3 DEF SleepIsOwed, LimiterTypeOK
    <3> QED
      BY <3>1, <3>2, <3>3, <3>4 DEF NothingYet, LevelIsBounded, SleepSpansInterval
  <2> QED
    BY <2>1, <2>2, <2>3 DEF LimiterTypeOK
<1>3. ASSUME NEW c \in Callers, TokenSlept(c) PROVE LimiterIInv'
  <2> USE <1>3 DEF TokenSlept
  <2>1. /\ tokens + sinceRefill >= Interval
        /\ TwiceTheRate => load = 0 \/ load + tokens + 2 * sinceRefill <= Full + Interval
    BY DEF SleepIsOwed, Locked, LimiterTypeOK
  <2>2. ~Locked'
    BY Awake
  <2>3. Refilled' = sinceRefill
    BY DEF Refilled, Least, LimiterTypeOK
  <2>4. TwiceTheRate => load + Interval + sinceRefill <= Full + Interval
    BY <2>1 DEF LimiterTypeOK
  <2>5. load' \in 0..Overflow /\ (TwiceTheRate => load' = load + Interval)
    BY <2>4 DEF Granted, Least, Overflow, LimiterTypeOK
  <2>6. LimiterTypeOK'
    BY <2>4, <2>5 DEF LimiterTypeOK, Granted, Overflow
  <2>7. TwiceTheRate => load' + Refilled' <= Full + Interval
    BY <2>3, <2>4, <2>5 DEF LimiterTypeOK
  <2>8. LevelIsBounded' /\ SleepIsOwed'
    BY <2>2, <2>7 DEF LevelIsBounded, SleepIsOwed
  <2> QED
    BY <2>2, <2>6, <2>8 DEF OneSleeper, NothingYet, SleepSpansInterval, Locked
<1>4. ASSUME NEW c \in Callers, AcquireSlot(c) PROVE LimiterIInv'
  <2> USE <1>4 DEF AcquireSlot
  <2>1. CASE sinceCall >= Interval
    <3>1. Granted /\ UNCHANGED remaining /\ caller' = [caller EXCEPT ![c] = "calls"]
      BY <2>1
    <3>2. ~Locked'
      BY <3>1, StillAwake
    <3>3. LimiterTypeOK'
      BY <3>1 DEF LimiterTypeOK, Granted, Least, Overflow
    <3> QED
      BY <3>2, <3>3 DEF OneSleeper, NothingYet, LevelIsBounded, SleepIsOwed, SleepSpansInterval, Locked
  <2>2. CASE ~(sinceCall >= Interval)
    <3>1. /\ remaining' = Interval - sinceCall /\ UNCHANGED <<sinceCall, load>>
          /\ caller' = [caller EXCEPT ![c] = "asleep"]
      BY <2>2
    <3>2. LimiterTypeOK'
      BY <3>1, <2>2 DEF LimiterTypeOK
    <3>3. OneSleeper'
      BY <3>1 DEF OneSleeper, Locked, LimiterTypeOK
    <3>4. SleepSpansInterval'
      BY <3>1 DEF SleepSpansInterval, LimiterTypeOK
    <3> QED
      BY <3>1, <3>2, <3>3, <3>4 DEF NothingYet, LevelIsBounded, SleepIsOwed
  <2> QED
    BY <2>1, <2>2
<1>5. ASSUME NEW c \in Callers, SlotSlept(c) PROVE LimiterIInv'
  <2> USE <1>5 DEF SlotSlept
  <2>1. ~Locked'
    BY Awake
  <2>2. LimiterTypeOK'
    BY DEF LimiterTypeOK, Granted, Least, Overflow
  <2> QED
    BY <2>1, <2>2 DEF OneSleeper, NothingYet, LevelIsBounded, SleepIsOwed, SleepSpansInterval, Locked
<1>6. ASSUME NEW c \in Callers, Called(c) PROVE LimiterIInv'
  <2> USE <1>6 DEF Called
  <2>1. LimiterTypeOK'
    BY DEF LimiterTypeOK
  <2>2. \A d \in Callers : caller'[d] = "asleep" <=> caller[d] = "asleep"
    BY DEF LimiterTypeOK
  <2>3. Locked' = Locked /\ OneSleeper'
    BY <2>2 DEF Locked, OneSleeper
  <2>4. using # "none"
    BY DEF NothingYet
  <2> QED
    BY <2>1, <2>3, <2>4
    DEF NothingYet, LevelIsBounded, SleepIsOwed, SleepSpansInterval, Refilled
<1>7. CASE LimiterTick
  <2> USE <1>7 DEF LimiterTick
  <2>1. LimiterTypeOK'
    BY DEF LimiterTypeOK, Least, Most, Overflow
  <2>2. Locked' = Locked /\ OneSleeper'
    BY DEF Locked, OneSleeper
  <2>3. NothingYet'
    BY DEF NothingYet
  <2>4. LevelIsBounded'
    BY <2>2 DEF LevelIsBounded, TwiceTheRate, LimiterTypeOK, Refilled, Least, Most
  <2>5. SleepIsOwed'
    BY <2>2 DEF SleepIsOwed, TwiceTheRate, LimiterTypeOK, Least, Most
  <2>6. SleepSpansInterval'
    BY <2>2 DEF SleepSpansInterval, LimiterTypeOK, Least, Most
  <2> QED
    BY <2>1, <2>2, <2>3, <2>4, <2>5, <2>6
<1>8. CASE UNCHANGED limiterVars
  BY <1>8 DEF limiterVars, LimiterTypeOK, OneSleeper, NothingYet, LevelIsBounded, SleepIsOwed,
     SleepSpansInterval, Locked, Refilled
<1> QED
  BY <1>1, <1>2, <1>3, <1>4, <1>5, <1>6, <1>7, <1>8 DEF LimiterNext

\* The state that LevelIsBounded and SleepIsOwed speak of never overflows.
LEMMA LimiterIInvBounds == LimiterIInv => (TwiceTheRate => RateIsSustained)
<1> SUFFICES ASSUME LimiterIInv, TwiceTheRate, using = "bucket" PROVE load < Overflow
  BY DEF RateIsSustained
<1> USE FullIsNat DEF LimiterIInv, LimiterTypeOK, Overflow
<1>1. CASE Locked
  BY <1>1 DEF SleepIsOwed
<1>2. CASE ~Locked
  <2>1. Refilled \in Nat
    BY DEF Refilled, Least
  <2> QED
    BY <1>2, <2>1 DEF LevelIsBounded
<1> QED
  BY <1>1, <1>2

\* Only the two ends of acquire() grant a call.
LEMMA StepIsSpaced ==
  LimiterIInv /\ LimiterNext /\ using = "spacing"
    /\ (\E c \in Callers : caller'[c] = "calls" /\ caller[c] # "calls")
  => sinceCall = Interval
<1> SUFFICES ASSUME LimiterIInv, LimiterNext, using = "spacing",
                    NEW c \in Callers, caller'[c] = "calls", caller[c] # "calls"
             PROVE  sinceCall = Interval
  OBVIOUS
<1> USE FullIsNat DEF LimiterIInv, LimiterTypeOK
<1>1. ASSUME NEW d \in Callers, AcquireSlot(d) PROVE sinceCall = Interval
  BY <1>1 DEF AcquireSlot
<1>2. ASSUME NEW d \in Callers, SlotSlept(d) PROVE sinceCall = Interval
  BY <1>2 DEF SlotSlept, SleepSpansInterval, Locked
<1>3. ASSUME NEW d \in Callers, Called(d) PROVE FALSE
  BY <1>3 DEF Called
<1> QED
  BY <1>1, <1>2, <1>3 DEF LimiterNext, Choose, AcquireToken, TokenSlept, LimiterTick

LEMMA LimiterInvariance == LimiterSpec => []LimiterIInv
<1> QED
  BY LimiterInitIInv, LimiterNextIInv, PTL DEF LimiterSpec

-----------------------------------------------------------------------------
\* Both limiters stay within their types: no bucket above its burst, no sleep longer than a
\* token's time.
THEOREM LimiterTypeCorrect == LimiterSpec => []LimiterTypeOK
<1>1. LimiterIInv => LimiterTypeOK
  BY DEF LimiterIInv
<1> QED
  BY <1>1, LimiterInvariance, PTL

\* The token bucket does not sustain the rate, but never lets through more than the burst, one
\* call and twice the rate: slept time is credited twice and not again, and idle time saves up
\* no more than the burst.
THEOREM BurstIsBounded == LimiterSpec => [](TwiceTheRate => RateIsSustained)
BY LimiterInvariance, LimiterIInvBounds, PTL

\* The weather limiter keeps any two calls an interval apart.
THEOREM CallsKeepApart == LimiterSpec => CallsAreSpaced
<1>1. LimiterIInv /\ [LimiterNext]_limiterVars =>
        [ using = "spacing" /\ (\E c \in Callers : caller'[c] = "calls" /\ caller[c] # "calls")
          => sinceCall = Interval ]_limiterVars
  BY StepIsSpaced
<1> QED
  BY <1>1, LimiterInvariance, PTL DEF LimiterSpec, CallsAreSpaced

-----------------------------------------------------------------------------
(* The push of events.                                                     *)

Made == 1..made
TakenOn == {k \in Sockets : handler[k] # "none"}
Receiving == {k \in Sockets : handler[k] = "receiving"}

BrowserOK ==
  /\ mounted \in BOOLEAN /\ timer \in BOOLEAN
  /\ made \in 0..MaxSockets /\ ref \in 0..made
  /\ ready \in [Sockets -> {"new", "connecting", "open", "closed"}]
  /\ armed \subseteq Sockets \intersect {ref} /\ link \subseteq Made
  /\ ~mounted => ref = 0
  /\ OneSocket

CastOK ==
  /\ casting \in BOOLEAN
  /\ subscriber \in {"off", "down", "listening"} /\ pending \in 0..MaxPending
  /\ handler \in [Sockets -> {"none", "receiving", "done"}]
  /\ sent \subseteq Sockets
  /\ tracked \union todo \union dead \union target \subseteq Made \intersect TakenOn
  /\ dead \intersect link = {}
  /\ IF casting THEN target \subseteq todo \union sent \union dead ELSE todo = {} /\ dead = {}

\* Which sockets a broadcast has disconnected, that were counted down for it.
GaugeCounts ==
  \E gone \in SUBSET TakenOn :
    /\ gone \intersect (tracked \union todo \union dead) = {}
    /\ gauge = Cardinality(Receiving) - Cardinality(gone)

PushIInv == BrowserOK /\ CastOK /\ GaugeCounts

-----------------------------------------------------------------------------
LEMMA SocketsAreFinite ==
  /\ IsFiniteSet(Sockets) /\ Cardinality(Sockets) = MaxSockets
  /\ \A S \in SUBSET Sockets : IsFiniteSet(S) /\ Cardinality(S) \in 0..MaxSockets
<1>1. IsFiniteSet(Sockets) /\ Cardinality(Sockets) = MaxSockets
  BY EventAssumption, FS_Interval DEF Sockets
<1>2. ASSUME NEW S \in SUBSET Sockets PROVE IsFiniteSet(S) /\ Cardinality(S) \in 0..MaxSockets
  <2>1. IsFiniteSet(S) /\ Cardinality(S) <= MaxSockets
    BY <1>1, FS_Subset
  <2>2. Cardinality(S) \in Nat
    BY <2>1, FS_CardinalityType
  <2> QED
    BY <2>1, <2>2, EventAssumption
<1> QED
  BY <1>1, <1>2

LEMMA PushIInvType == PushIInv => EventTypeOK
<1> SUFFICES ASSUME PushIInv PROVE EventTypeOK
  OBVIOUS
<1>1. made \in 0..MaxSockets /\ Made \subseteq Sockets
  BY EventAssumption DEF PushIInv, BrowserOK, Made, Sockets
<1>2. gauge \in (-MaxSockets)..MaxSockets
  <2>1. PICK gone \in SUBSET TakenOn : gauge = Cardinality(Receiving) - Cardinality(gone)
    BY DEF PushIInv, GaugeCounts
  <2>2. gone \subseteq Sockets /\ Receiving \subseteq Sockets
    BY DEF TakenOn, Receiving
  <2>3. Cardinality(Receiving) \in 0..MaxSockets /\ Cardinality(gone) \in 0..MaxSockets
    BY <2>2, SocketsAreFinite
  <2> QED
    BY <2>1, <2>3, EventAssumption
<1> QED
  BY <1>1, <1>2 DEF PushIInv, BrowserOK, CastOK, EventTypeOK

LEMMA PushInitIInv == EventInit => PushIInv
<1> SUFFICES ASSUME EventInit PROVE PushIInv
  OBVIOUS
<1>1. BrowserOK
  <2>1. mounted \in BOOLEAN /\ timer \in BOOLEAN /\ ~timer /\ ref = 0 /\ made = 0
    BY DEF EventInit
  <2>2. ready \in [Sockets -> {"new", "connecting", "open", "closed"}] /\ armed = {} /\ link = {}
    BY DEF EventInit
  <2>3. OneSocket
    BY <2>1 DEF EventInit, OneSocket
  <2> QED
    BY <2>1, <2>2, <2>3, EventAssumption DEF BrowserOK
<1>2. CastOK
  <2>1. casting \in BOOLEAN /\ ~casting
    BY DEF EventInit
  <2> QED
    BY <2>1, EventAssumption DEF EventInit, CastOK
<1>3. GaugeCounts
  <2>1. Receiving = {} /\ {} \subseteq TakenOn
    BY DEF EventInit, Receiving
  <2>2. gauge = Cardinality(Receiving) - Cardinality({})
    BY <2>1, FS_EmptySet DEF EventInit
  <2> QED
    BY <2>1, <2>2 DEF GaugeCounts
<1> QED
  BY <1>1, <1>2, <1>3 DEF PushIInv

-----------------------------------------------------------------------------
\* A new socket, where there was none.
LEMMA OpenSocketOK ==
  ASSUME BrowserOK, ref = 0, timer' = FALSE, mounted' = TRUE, OpenSocket
  PROVE  BrowserOK' /\ Made \subseteq Made' /\ link' \subseteq link \union {made + 1} /\ made + 1 \notin Made
<1>1. /\ made \in 0..MaxSockets /\ made' = made + 1 /\ made' \in 1..MaxSockets /\ ref' = made'
      /\ made' \in Sockets
  BY EventAssumption DEF BrowserOK, OpenSocket, Sockets
<1>2. Made \subseteq Made' /\ made + 1 \notin Made /\ made' \in Made'
  BY <1>1 DEF Made
<1>3. armed' = {made'} /\ link' = link \union {made'} /\ ready' = [ready EXCEPT ![made'] = "connecting"]
  <2>1. armed = {}
    BY DEF BrowserOK, OneSocket, Sockets
  <2>2. armed' = armed \union {made'} /\ link' = link \union {made'} /\ ready' = [ready EXCEPT ![made'] = "connecting"]
    BY DEF OpenSocket
  <2> QED
    BY <2>1, <2>2
<1>4. \A k \in Sockets : ready[k] \notin {"connecting", "open"}
  BY DEF BrowserOK, OneSocket, Sockets
<1>5. ready' \in [Sockets -> {"new", "connecting", "open", "closed"}]
  BY <1>1, <1>3 DEF BrowserOK
<1>6. OneSocket'
  BY <1>1, <1>3, <1>4 DEF OneSocket, BrowserOK
<1>7. mounted' \in BOOLEAN /\ timer' \in BOOLEAN
  OBVIOUS
<1> QED
  BY <1>1, <1>2, <1>3, <1>5, <1>6, <1>7 DEF BrowserOK

\* What the server owes when only the browser and the network have moved.
LEMMA CastStays ==
  ASSUME CastOK, GaugeCounts, UNCHANGED <<server, caster, subscriber, pending>>, Made \subseteq Made',
         link' \intersect Made \subseteq link
  PROVE  CastOK' /\ GaugeCounts'
<1> USE DEF server, caster
<1>1. TakenOn' = TakenOn /\ Receiving' = Receiving
  BY DEF TakenOn, Receiving
<1>2. GaugeCounts'
  BY <1>1 DEF GaugeCounts
<1>3. dead \intersect link' = {}
  BY DEF CastOK
<1> QED
  BY <1>1, <1>2, <1>3 DEF CastOK

LEMMA BrowserStep ==
  ASSUME PushIInv, Mount \/ Unmount \/ RetryTimer \/ BrowserEvent \/ \E k \in Sockets : Lose(k)
  PROVE  PushIInv'
<1> USE DEF PushIInv
<1>t. made \in Nat
  BY EventAssumption DEF BrowserOK
<1>1. CASE Mount
  <2>1. ref = 0 /\ timer' = FALSE /\ mounted' = TRUE /\ OpenSocket
    BY <1>1 DEF Mount, BrowserOK, OneSocket
  <2>2. BrowserOK' /\ Made \subseteq Made' /\ link' \intersect Made \subseteq link
    BY <2>1, OpenSocketOK
  <2> QED
    BY <1>1, <2>2, CastStays DEF Mount
<1>2. CASE Unmount
  <2>1. UNCHANGED made /\ ref' = 0 /\ armed' = {} /\ link' \subseteq link
    BY <1>2 DEF Unmount, BrowserOK
  <2>2. timer' \in BOOLEAN /\ mounted' \in BOOLEAN /\ ~timer' /\ ~mounted'
    BY <1>2 DEF Unmount
  <2>3. ready' \in [Sockets -> {"new", "connecting", "open", "closed"}]
    BY <1>2 DEF Unmount, BrowserOK
  <2>4. \A k \in Sockets : ready'[k] \notin {"connecting", "open"}
    <3>1. CASE ref = 0
      BY <1>2, <3>1 DEF Unmount, BrowserOK, OneSocket, Sockets
    <3>2. CASE ref # 0
      <4>1. ready' = [ready EXCEPT ![ref] = "closed"]
        BY <1>2, <3>2 DEF Unmount
      <4> QED
        BY <4>1 DEF BrowserOK, OneSocket
    <3> QED
      BY <3>1, <3>2
  <2>5. OneSocket'
    BY <2>2, <2>4 DEF OneSocket
  <2>6. BrowserOK' /\ Made' = Made
    BY <1>t, <2>1, <2>2, <2>3, <2>5 DEF BrowserOK, Made
  <2> QED
    BY <1>2, <2>1, <2>6, CastStays DEF Unmount
<1>3. CASE RetryTimer
  <2>1. mounted /\ ref = 0 /\ timer' = FALSE /\ mounted' = mounted /\ OpenSocket
    BY <1>3 DEF RetryTimer, BrowserOK, OneSocket
  <2>2. mounted' = TRUE
    BY <2>1 DEF BrowserOK
  <2>3. BrowserOK' /\ Made \subseteq Made' /\ link' \intersect Made \subseteq link
    BY <2>1, <2>2, OpenSocketOK
  <2> QED
    BY <1>3, <2>3, CastStays DEF RetryTimer
<1>4. ASSUME NEW k \in Sockets, OnOpen(k) PROVE PushIInv'
  <2>1. OneSocket'
    BY <1>4 DEF OnOpen, BrowserOK, OneSocket
  <2>2. BrowserOK' /\ Made' = Made
    BY <1>4, <2>1 DEF OnOpen, BrowserOK, Made
  <2> QED
    BY <1>4, <2>2, CastStays DEF OnOpen
<1>5. ASSUME NEW k \in Sockets, OnClose(k) PROVE PushIInv'
  <2>1. k = ref /\ ref # 0 /\ mounted
    BY <1>5 DEF OnClose, BrowserOK, Sockets
  <2>2. /\ ready' = [ready EXCEPT ![k] = "closed"] /\ ref' = 0 /\ timer' = TRUE /\ armed' = {}
        /\ UNCHANGED <<mounted, made, link>>
    BY <1>5, <2>1 DEF OnClose, BrowserOK
  <2>3. OneSocket'
    BY <2>1, <2>2 DEF BrowserOK, OneSocket
  <2>4. BrowserOK' /\ Made' = Made
    BY <1>t, <2>1, <2>2, <2>3 DEF BrowserOK, Made
  <2> QED
    BY <1>5, <2>2, <2>4, CastStays DEF OnClose
<1>6. ASSUME NEW k \in Sockets, Lose(k) PROVE PushIInv'
  <2>1. BrowserOK' /\ Made' = Made /\ link' \subseteq link
    BY <1>6 DEF Lose, browser, BrowserOK, OneSocket, Made
  <2> QED
    BY <1>6, <2>1, CastStays DEF Lose
<1> QED
  BY <1>1, <1>2, <1>3, <1>4, <1>5, <1>6 DEF BrowserEvent

-----------------------------------------------------------------------------
LEMMA BrowserStays ==
  ASSUME BrowserOK, UNCHANGED <<browser, link>>
  PROVE  BrowserOK' /\ Made' = Made
BY DEF BrowserOK, OneSocket, Made, browser

LEMMA AcceptIInv ==
  ASSUME PushIInv, NEW k \in Sockets, Accept(k)
  PROVE  PushIInv'
<1>1. BrowserOK' /\ Made' = Made
  BY BrowserStays DEF Accept, PushIInv
<1>2. /\ TakenOn' = TakenOn \union {k} /\ k \notin TakenOn
      /\ Receiving' = Receiving \union {k} /\ k \notin Receiving
  BY DEF Accept, TakenOn, Receiving, PushIInv, CastOK
<1>3. k \in Made
  BY DEF Accept, PushIInv, BrowserOK
<1>4. handler' \in [Sockets -> {"none", "receiving", "done"}]
  BY DEF Accept, PushIInv, CastOK
<1>5. CastOK'
  BY <1>1, <1>2, <1>3, <1>4 DEF Accept, caster, PushIInv, CastOK
<1>6. GaugeCounts'
  <2>1. PICK gone \in SUBSET TakenOn : /\ gone \intersect (tracked \union todo \union dead) = {}
                                        /\ gauge = Cardinality(Receiving) - Cardinality(gone)
    BY DEF PushIInv, GaugeCounts
  <2>2. gone \intersect (tracked \union todo \union dead)' = {}
    BY <1>2, <2>1 DEF Accept, caster
  <2>3. Cardinality(Receiving') = Cardinality(Receiving) + 1
    <3>1. IsFiniteSet(Receiving)
      BY SocketsAreFinite DEF Receiving
    <3> QED
      BY <1>2, <3>1, FS_AddElement
  <2>4. Receiving \subseteq Sockets /\ gone \subseteq Sockets
    BY DEF Receiving, TakenOn
  <2>5. Cardinality(Receiving) \in Nat /\ Cardinality(gone) \in Nat
    BY <2>4, SocketsAreFinite, FS_CardinalityType
  <2>6. gauge' = Cardinality(Receiving') - Cardinality(gone)
    BY <2>1, <2>3, <2>5 DEF Accept
  <2> QED
    BY <1>2, <2>2, <2>6 DEF GaugeCounts
<1> QED
  BY <1>1, <1>5, <1>6 DEF PushIInv

LEMMA EndpointDisconnectIInv ==
  ASSUME PushIInv, NEW k \in Sockets, EndpointDisconnect(k)
  PROVE  PushIInv'
<1>1. BrowserOK' /\ Made' = Made
  BY BrowserStays DEF EndpointDisconnect, PushIInv
<1>2. /\ TakenOn' = TakenOn
      /\ Receiving' = Receiving \ {k} /\ k \in Receiving
  BY DEF EndpointDisconnect, TakenOn, Receiving, PushIInv, CastOK
<1>3. handler' \in [Sockets -> {"none", "receiving", "done"}]
  BY DEF EndpointDisconnect, PushIInv, CastOK
<1>4. tracked' = tracked \ {k} /\ gauge' = gauge - 1
  BY FS_Singleton DEF EndpointDisconnect, Disconnected
<1>5. CastOK'
  BY <1>1, <1>2, <1>3, <1>4 DEF EndpointDisconnect, caster, PushIInv, CastOK
<1>6. GaugeCounts'
  <2>1. PICK gone \in SUBSET TakenOn : /\ gone \intersect (tracked \union todo \union dead) = {}
                                        /\ gauge = Cardinality(Receiving) - Cardinality(gone)
    BY DEF PushIInv, GaugeCounts
  <2>2. gone \intersect (tracked \union todo \union dead)' = {}
    BY <1>4, <2>1 DEF EndpointDisconnect, caster
  <2>3. Cardinality(Receiving') = Cardinality(Receiving) - 1
    <3>1. IsFiniteSet(Receiving)
      BY SocketsAreFinite DEF Receiving
    <3> QED
      BY <1>2, <3>1, FS_RemoveElement
  <2>4. Receiving \subseteq Sockets /\ gone \subseteq Sockets
    BY DEF Receiving, TakenOn
  <2>5. Cardinality(Receiving) \in Nat /\ Cardinality(gone) \in Nat
    BY <2>4, SocketsAreFinite, FS_CardinalityType
  <2>6. gauge' = Cardinality(Receiving') - Cardinality(gone)
    BY <1>4, <2>1, <2>3, <2>5
  <2> QED
    BY <1>2, <2>2, <2>6 DEF GaugeCounts
<1> QED
  BY <1>1, <1>5, <1>6 DEF PushIInv

LEMMA SendIInv ==
  ASSUME PushIInv, NEW k \in Sockets, Send(k)
  PROVE  PushIInv'
<1>1. BrowserOK' /\ Made' = Made
  BY BrowserStays DEF Send, PushIInv
<1>2. TakenOn' = TakenOn /\ Receiving' = Receiving /\ gauge' = gauge /\ tracked' = tracked
  BY DEF Send, server, TakenOn, Receiving
<1>3. CastOK'
  <2>1. UNCHANGED <<casting, subscriber, pending, handler, tracked, target, link>> /\ casting
    BY DEF Send, server
  <2>2. todo' = todo \ {k} /\ k \in todo
    BY DEF Send
  <2>3. \/ sent' = sent \union {k} /\ dead' = dead
        \/ k \notin link /\ dead' = dead \union {k} /\ sent' = sent
    BY DEF Send
  <2> QED
    BY <1>1, <1>2, <2>1, <2>2, <2>3 DEF PushIInv, CastOK
<1>4. GaugeCounts'
  <2>1. todo' \union dead' \subseteq todo \union dead
    BY DEF Send
  <2> QED
    BY <1>2, <2>1 DEF PushIInv, GaugeCounts
<1> QED
  BY <1>1, <1>3, <1>4 DEF PushIInv

LEMMA EndBroadcastIInv ==
  ASSUME PushIInv, EndBroadcast
  PROVE  PushIInv'
<1>1. BrowserOK' /\ Made' = Made
  BY BrowserStays DEF EndBroadcast, PushIInv
<1>2. TakenOn' = TakenOn /\ Receiving' = Receiving
  BY DEF EndBroadcast, TakenOn, Receiving
<1>3. /\ tracked' = tracked \ dead /\ gauge' = gauge - Cardinality(dead)
      /\ todo' = {} /\ dead' = {} /\ target' = {} /\ sent' = {}
  BY DEF EndBroadcast, Disconnected
<1>4. CastOK'
  <2>1. casting' = FALSE /\ casting' \in BOOLEAN
    BY DEF EndBroadcast
  <2> QED
    BY <1>1, <1>2, <1>3, <2>1 DEF EndBroadcast, PushIInv, CastOK
<1>5. GaugeCounts'
  <2>1. PICK gone \in SUBSET TakenOn : /\ gone \intersect (tracked \union todo \union dead) = {}
                                        /\ gauge = Cardinality(Receiving) - Cardinality(gone)
    BY DEF PushIInv, GaugeCounts
  <2>2. dead \subseteq TakenOn /\ dead \subseteq Sockets /\ gone \subseteq Sockets /\ Receiving \subseteq Sockets
    BY DEF PushIInv, CastOK, TakenOn, Receiving
  <2>3. Cardinality(gone \union dead) = Cardinality(gone) + Cardinality(dead)
    <3>1. IsFiniteSet(gone) /\ IsFiniteSet(dead) /\ gone \intersect dead = {}
      BY <2>1, <2>2, SocketsAreFinite
    <3>2. Cardinality(gone \union dead)
            = Cardinality(gone) + Cardinality(dead) - Cardinality(gone \intersect dead)
      BY <3>1, FS_Union
    <3>3. Cardinality(gone \intersect dead) = 0
      BY <3>1, FS_EmptySet
    <3>4. Cardinality(gone) \in Nat /\ Cardinality(dead) \in Nat
      BY <3>1, FS_CardinalityType
    <3> QED
      BY <3>2, <3>3, <3>4
  <2>4. Cardinality(Receiving) \in Nat /\ Cardinality(gone) \in Nat /\ Cardinality(dead) \in Nat
    BY <2>2, SocketsAreFinite, FS_CardinalityType
  <2>5. gauge' = Cardinality(Receiving') - Cardinality(gone \union dead)
    BY <1>2, <1>3, <2>1, <2>3, <2>4
  <2>6. (gone \union dead) \intersect (tracked \union todo \union dead)' = {}
    BY <1>3, <2>1
  <2>7. gone \union dead \in SUBSET TakenOn'
    BY <1>2, <2>2
  <2> QED
    BY <2>5, <2>6, <2>7 DEF GaugeCounts
<1> QED
  BY <1>1, <1>4, <1>5 DEF PushIInv

\* The subscriber: it takes a message, or gets one, or comes and goes.
LEMMA SubscriberIInv ==
  ASSUME PushIInv, \/ StartBroadcast \/ StartSubscriber \/ Subscribe \/ SubscriberFails \/ PublishEvent
               \/ UNCHANGED eventVars
  PROVE  PushIInv'
<1>1. UNCHANGED <<browser, link, server>>
  BY DEF StartBroadcast, StartSubscriber, Subscribe, SubscriberFails, PublishEvent, eventVars
<1>2. BrowserOK' /\ Made' = Made
  BY <1>1, BrowserStays DEF PushIInv
<1>3. TakenOn' = TakenOn /\ Receiving' = Receiving /\ gauge' = gauge /\ tracked' = tracked
  BY <1>1 DEF server, TakenOn, Receiving
<1>4. CASE StartBroadcast
  <2>1. casting' = TRUE /\ todo' = tracked /\ target' = tracked /\ dead' = {} /\ sent' = sent
    BY <1>4 DEF StartBroadcast, PushIInv, CastOK
  <2>2. casting' \in BOOLEAN /\ pending' \in 0..MaxPending
    BY <1>4, EventAssumption DEF StartBroadcast, PushIInv, CastOK
  <2>3. CastOK'
    BY <1>1, <1>2, <1>3, <1>4, <2>1, <2>2 DEF StartBroadcast, server, PushIInv, CastOK
  <2>4. GaugeCounts'
    BY <1>3, <2>1 DEF PushIInv, GaugeCounts
  <2> QED
    BY <1>2, <2>3, <2>4 DEF PushIInv
<1>5. CASE ~StartBroadcast
  <2>1. UNCHANGED caster
    BY <1>5 DEF StartSubscriber, Subscribe, SubscriberFails, PublishEvent, eventVars
  <2>2. pending' \in 0..MaxPending /\ subscriber' \in {"off", "down", "listening"}
    BY <1>5, EventAssumption DEF StartSubscriber, Subscribe, SubscriberFails, PublishEvent, eventVars,
                                 PushIInv, CastOK
  <2>3. CastOK'
    BY <1>1, <1>2, <1>3, <2>1, <2>2 DEF server, caster, PushIInv, CastOK
  <2>4. GaugeCounts'
    BY <1>3, <2>1 DEF caster, PushIInv, GaugeCounts
  <2> QED
    BY <1>2, <2>3, <2>4 DEF PushIInv
<1> QED
  BY <1>4, <1>5

LEMMA PushNextIInv == PushIInv /\ [EventNext]_eventVars => PushIInv'
BY BrowserStep, AcceptIInv, EndpointDisconnectIInv, SendIInv, EndBroadcastIInv, SubscriberIInv
   DEF EventNext, ServerStep

-----------------------------------------------------------------------------
(***************************************************************************)
(* Sockets, handlers and broadcasts are of their types, and the gauge of   *)
(* active connections stays within the number of sockets on both sides of  *)
(* zero (ConnectionManager.connect, disconnect, broadcast).                *)
(***************************************************************************)
THEOREM EventTypeCorrect == EventSpec => []EventTypeOK
BY PushInitIInv, PushNextIInv, PushIInvType, PTL DEF EventSpec

(***************************************************************************)
(* A tab has at most one socket, and never a socket and a timer that would *)
(* make another (useWebSocket).                                            *)
(***************************************************************************)
THEOREM TabHasOneSocket == EventSpec => []OneSocket
<1>1. PushIInv => OneSocket
  BY DEF PushIInv, BrowserOK
<1> QED
  BY <1>1, PushInitIInv, PushNextIInv, PTL DEF EventSpec

(***************************************************************************)
(* A broadcast reaches all that were tracked when it began and whose       *)
(* connection stands (ConnectionManager.broadcast).                        *)
(***************************************************************************)
THEOREM NobodyIsMissed == EventSpec => []BroadcastReachesAll
<1>1. PushIInv => BroadcastReachesAll
  BY DEF PushIInv, CastOK, BroadcastReachesAll
<1> QED
  BY <1>1, PushInitIInv, PushNextIInv, PTL DEF EventSpec
=============================================================================
