----------------------------- MODULE PriceCache -----------------------------
(***************************************************************************)
(* The prices of one event in Redis (kalshi/cache.py): written by the      *)
(* market feed one ticker message at a time, read by the trading cycle     *)
(* (trading/scheduler.py), which asks Kalshi's REST API when they are      *)
(* missing.  Time is in ticks.  A quote is known by its age and by whether *)
(* it is a price at all (Kalshi sends 0 for none).                         *)
(***************************************************************************)
EXTENDS Naturals

CONSTANTS
  Brackets,  \* the event's brackets
  Ttl        \* kalshi_ws_cache_ttl_seconds

ASSUME CacheAssumption == Ttl \in Nat \ {0}

VARIABLES
  prices,   \* kalshi:prices: its time to live (0: expired) and the quotes in it
  tickers,  \* kalshi:tickers: its time to live and the brackets in it
  reader     \* a trading cycle: how far it is, its quotes and where from, and its markets

cacheVars == <<prices, tickers, reader>>

Quote == [age : 0..Ttl, paid : BOOLEAN]   \* an age of Ttl stands for any older one too
QuoteMaps == UNION {[some -> Quote] : some \in SUBSET Brackets}
NoQuotes == [b \in {} |-> 0]
TickerTtl == Ttl + 1   \* max(ttl, 300) is more than the prices' 120 s

CacheTypeOK ==
  /\ prices \in [left : 0..Ttl, quote : QuoteMaps]
  /\ tickers \in [left : 0..TickerTtl, of : SUBSET Brackets]
  /\ reader \in [at : {"starts", "priced", "ready"}, quote : QuoteMaps,
                source : {"none", "cache", "rest"}, markets : SUBSET Brackets]

Starting == [at |-> "starts", quote |-> NoQuotes, source |-> "none", markets |-> {}]

CacheInit ==
  /\ prices = [left |-> 0, quote |-> NoQuotes]
  /\ tickers = [left |-> 0, of |-> {}]
  /\ reader = Starting

-----------------------------------------------------------------------------
(* Redis.                                                                  *)

\* set_city_prices: both keys, in one pipeline.
SetCityPrices(quotes, of) ==
  /\ prices' = [left |-> Ttl, quote |-> quotes]
  /\ tickers' = [left |-> TickerTtl, of |-> of]

\* get_city_prices: both keys or nothing.
GetCityPrices == prices.left > 0 /\ tickers.left > 0

\* _handle_ticker_update: read all prices, replace one, write all of them back.  yes_price
\* and last_price may both be missing.
HandleTickerUpdate(b) ==
  /\ \E paid \in BOOLEAN :
       LET old == IF GetCityPrices THEN prices.quote ELSE NoQuotes
           known == IF GetCityPrices THEN tickers.of ELSE {}
       IN SetCityPrices([k \in DOMAIN old \union {b} |->
                           IF k = b THEN [age |-> 0, paid |-> paid] ELSE old[k]],
                        known \union {b})
  /\ UNCHANGED reader

Older(q) == IF q.age = Ttl THEN q ELSE [q EXCEPT !.age = @ + 1]

\* A tick of the clock; Redis drops a key whose time is up.
CacheTick ==
  /\ tickers.left > 0
  /\ tickers' = IF tickers.left = 1 THEN [left |-> 0, of |-> {}]
                ELSE [tickers EXCEPT !.left = @ - 1]
  /\ prices' = IF prices.left <= 1 THEN [left |-> 0, quote |-> NoQuotes]
               ELSE [left |-> prices.left - 1,
                     quote |-> [b \in DOMAIN prices.quote |-> Older(prices.quote[b])]]
  /\ UNCHANGED reader

-----------------------------------------------------------------------------
(* Kalshi's REST API, as the trading cycle asks it.                        *)

\* get_event_markets: the markets of the event, by whether the listing has a price.
Listing == [Brackets -> {"priced", "unpriced"}]

\* get_orderbook: the sides of the book that have orders, or an error.
Orderbook == SUBSET {"yes", "no"} \union {{"error"}}

\* best_yes_price_from_orderbook: from YES orders, or else from NO orders.
HasYesPrice(book) == book \intersect {"yes", "no"} # {}

\* Each market's price, from the listing or, market by market, from its book.
RestQuotes(listing, book) ==
  [b \in {b \in Brackets : listing[b] = "priced" \/ HasYesPrice(book[b])} |->
     [age |-> 0, paid |-> TRUE]]

UseRest(listing, book) ==
  reader' = [reader EXCEPT !.at = "priced", !.source = "rest", !.quote = RestQuotes(listing, book)]

UseCache ==
  /\ \E b \in DOMAIN prices.quote : prices.quote[b].paid
  /\ reader' = [reader EXCEPT !.at = "priced", !.source = "cache", !.quote = prices.quote]

\* Mutant: reading the prices renews their time to live.
FetchTouches ==
  /\ reader.at = "starts"
  /\ GetCityPrices /\ UseCache
  /\ prices' = [prices EXCEPT !.left = Ttl] /\ UNCHANGED tickers

\* _fetch_market_prices: the cache, when it has any price; otherwise, and when Redis fails,
\* REST; and nothing when that fails as well.
FetchMarketPrices ==
  /\ reader.at = "starts"
  /\ \/ GetCityPrices /\ UseCache
     \/ \E listing \in Listing, book \in [Brackets -> Orderbook] : UseRest(listing, book)
     \/ reader' = [reader EXCEPT !.at = "priced"]
  /\ UNCHANGED <<prices, tickers>>

\* _fetch_market_tickers, a moment later: the same in its turn.  A bracket needs both.
FetchMarketTickers ==
  /\ reader.at = "priced"
  /\ \E of \in {Brackets, {}} \union {known \in {tickers.of} : GetCityPrices /\ known # {}} :
       reader' = [reader EXCEPT !.at = "ready", !.markets = of \intersect DOMAIN reader.quote]
  /\ UNCHANGED <<prices, tickers>>

NextCycle ==
  /\ reader.at = "ready" /\ reader' = Starting
  /\ UNCHANGED <<prices, tickers>>

CacheNext ==
  \/ \E b \in Brackets : HandleTickerUpdate(b)
  \/ CacheTick
  \/ FetchMarketPrices \/ FetchMarketTickers \/ NextCycle

CacheSpec == CacheInit /\ [][CacheNext]_cacheVars

(***************************************************************************)
(* "Falls back to the REST API if the cache is empty or stale": no cycle   *)
(* trades on cached prices none of which was updated within the TTL,       *)
(* however often prices are read and brackets rewritten.                   *)
(***************************************************************************)
ServedIsAlive ==
  reader.source = "cache" => \E b \in DOMAIN reader.quote : reader.quote[b].age < Ttl
=============================================================================
