------------------------------- MODULE Signals -------------------------------
(***************************************************************************)
(* From a prediction and market prices to trade signals: the guardrails    *)
(* and expected values of trading/ev_calculator.py, the sizing of          *)
(* trading/kelly.py, and the settings that scheduler._load_user_settings   *)
(* gives them.                                                             *)
(*                                                                         *)
(* Probabilities, thresholds and expected values are in Units of a         *)
(* ten-thousandth (of a dollar, where they are money); prices in cents.    *)
(***************************************************************************)
EXTENDS Integers, FiniteSetsExt, Functions

CONSTANTS
  NumBrackets,     \* the brackets of an event
  Probabilities,   \* the probabilities a prediction may give
  Quotes,          \* YES prices Kalshi may quote, illegal ones included
  SettingRows,     \* rows of settings
  Pnls             \* lifetime profits, in cents

Unit == 10000
HalfUnit == 5000

\* UserSettings, with the bounds of its fields: cents may be any number.
SettingRecords ==
  [weight : 0..10, divergence : 0..HalfUnit, marketFloor : 0..HalfUnit, minEvYes : 0..Unit,
   minEvNo : 0..Unit, kelly : BOOLEAN, fraction : 1..100, bankrollPct : 1..25,
   maxContracts : 1..100, tradeSize : Int, exposure : Int,
   feeMode : {"realistic", "conservative"}]

ASSUME SignalAssumption ==
  /\ NumBrackets \in Nat
  /\ Probabilities \subseteq 0..Unit /\ Quotes \subseteq Nat /\ Pnls \subseteq Int
  /\ SettingRows \subseteq SettingRecords

VARIABLES
  saved,     \* the user's row of settings
  scan,      \* the last scan: the probabilities and prices it was given, and the bankroll
  signals    \* ... and its answer

signalVars == <<saved, scan, signals>>

BracketSet == 1..NumBrackets
TradeSides == {"yes", "no"}
NoScan == [probability |-> <<>>, price |-> <<>>, bankroll |-> 0]

SignalTypeOK ==
  /\ saved \in SettingRecords
  /\ scan = NoScan \/ scan \in [probability : [BracketSet -> Probabilities],
                                price : [BracketSet -> Quotes], bankroll : Nat \ {0}]
  /\ Range(signals) \subseteq [bracket : BracketSet, side : TradeSides, ev : Int, quantity : Nat \ {0}]

SignalInit == saved \in SettingRows /\ scan = NoScan /\ signals = <<>>

-----------------------------------------------------------------------------
(* Settings.                                                               *)

\* _load_user_settings: zero cents mean the default, and the fee mode is not read.
Settings ==
  [saved EXCEPT !.tradeSize = IF @ = 0 THEN 100 ELSE @,
                !.exposure = IF @ = 0 THEN 2500 ELSE @,
                !.feeMode = "realistic"]

\* _get_bankroll_cents.
Bankroll(pnl) == Max({Settings.exposure + pnl, 100})

-----------------------------------------------------------------------------
(* Expected values.                                                        *)

CeilDiv(a, b) == (a + b - 1) \div b
Clamp(x, low, high) == Max({low, Min({x, high})})

\* Kalshi's taker fee for one contract, and estimate_fees.
TakerFee(price) == Max({1, CeilDiv(7 * price * (100 - price), 10000)})
EstimatedFee(price, mode) ==
  IF mode = "realistic" THEN Max({1, CeilDiv(3 * TakerFee(price), 10)}) ELSE TakerFee(price)

CostOf(price, side) == IF side = "yes" THEN price ELSE 100 - price
ChanceOf(probability, side) == IF side = "yes" THEN probability ELSE Unit - probability

\* apply_guardrails: cheap longshots are not bought; otherwise the model, held near the
\* market, is blended with it.  (weight is in tenths.)
Blocked(price, side, s) == side = "yes" /\ 100 * price < s.marketFloor

Blended(probability, price, s) ==
  LET market == 100 * price
      capped == Clamp(Max({market - s.divergence, Min({probability, market + s.divergence})}),
                      10, 9990)
  IN Clamp((s.weight * capped + (10 - s.weight) * market) \div 10, 10, 9990)

\* calculate_ev.
ExpectedValue(chance, price, side, mode) ==
  chance - 100 * CostOf(price, side) - 100 * EstimatedFee(price, mode)

Threshold(side, s) == IF side = "yes" THEN s.minEvYes ELSE s.minEvNo

-----------------------------------------------------------------------------
(* Sizing: kelly.py.                                                       *)

NetProfit(price, side) == 100 - CostOf(price, side) - TakerFee(price)

\* Mutant: the price of the YES side, whichever side is bought.
KellyYesCost(chance, price, side) ==
  chance * NetProfit(price, side) - (Unit - chance) * price

\* calculate_kelly_fraction, times the net profit.
KellyEdge(chance, price, side) ==
  chance * NetProfit(price, side) - (Unit - chance) * CostOf(price, side)

\* calculate_kelly_size.  (The bankroll is a number of dollars; fraction and bankrollPct
\* are percentages.)
KellySize(chance, price, side, bankroll, s) ==
  IF NetProfit(price, side) <= 0 \/ KellyEdge(chance, price, side) <= 0 THEN 0
  ELSE LET cost == CostOf(price, side)
           optimal == (KellyEdge(chance, price, side) * s.fraction * (bankroll \div 100))
                      \div (Unit * NetProfit(price, side) * cost)
       IN Max({1, Min({optimal, s.maxContracts, (bankroll * s.bankrollPct) \div (100 * cost),
                       s.tradeSize \div cost})})

-----------------------------------------------------------------------------
(* Scanning.                                                               *)

\* scan_bracket: the better side, if it is good enough and Kelly sizes it.
ScanBracket(b, probability, price, bankroll, s) ==
  LET blended == Blended(probability, price, s)
      ev == [side \in TradeSides |->
               IF Blocked(price, side, s) THEN -999 * Unit
               ELSE ExpectedValue(ChanceOf(blended, side), price, side, s.feeMode)]
      best == IF ev["yes"] >= ev["no"] THEN "yes" ELSE "no"
      quantity == IF s.kelly THEN KellySize(ChanceOf(blended, best), price, best, bankroll, s)
                  ELSE 1
  IN IF ev[best] >= Threshold(best, s) /\ quantity > 0
     THEN {[bracket |-> b, side |-> best, ev |-> ev[best], quantity |-> quantity]}
     ELSE {}

\* validate_market_prices.
ValidPrice(price) == price \in 1..99

\* The signals of the brackets with a valid price.
Found(probability, price, bankroll) ==
  UNION {ScanBracket(b, probability[b], price[b], bankroll, Settings) :
           b \in {b \in BracketSet : ValidPrice(price[b])}}

\* The sort: the best signal first, and equally good ones in the order of their brackets.
Precedes(x, y) == x.ev > y.ev \/ (x.ev = y.ev /\ x.bracket < y.bracket)

Sorted(found) ==
  {list \in [1..Cardinality(found) -> found] :
     /\ Range(list) = found
     /\ \A i, j \in DOMAIN list : i < j => Precedes(list[i], list[j])}

\* scan_all_brackets, of which there is one answer.
ScanAllBrackets(probability, price, bankroll) == Sorted(Found(probability, price, bankroll))

\* A city's turn in a trading cycle.
ScanCity(probability, price, pnl) ==
  /\ scan = NoScan
  /\ scan' = [probability |-> probability, price |-> price, bankroll |-> Bankroll(pnl)]
  /\ signals' \in ScanAllBrackets(probability, price, Bankroll(pnl))
  /\ UNCHANGED saved

\* SettingsUpdate has no field for the Kelly settings: they keep what the database has.
Edited(row) ==
  [row EXCEPT !.kelly = saved.kelly, !.fraction = saved.fraction,
              !.bankrollPct = saved.bankrollPct, !.maxContracts = saved.maxContracts]

\* The settings endpoint.  The next cycle loads what it saves.
UpdateSettings(row) ==
  /\ scan # NoScan
  /\ saved' = Edited(row)
  /\ scan' = NoScan /\ signals' = <<>>

SignalNext ==
  \/ \E probability \in [BracketSet -> Probabilities], price \in [BracketSet -> Quotes],
        pnl \in Pnls : ScanCity(probability, price, pnl)
  \/ \E row \in SettingRows : UpdateSettings(row)

SignalSpec == SignalInit /\ [][SignalNext]_signalVars

-----------------------------------------------------------------------------
\* The chance of a side, after the guardrails.
Chance(b, side) ==
  ChanceOf(Blended(scan.probability[b], scan.price[b], Settings), side)

\* A side worth buying: its expected value meets the threshold; and with Kelly sizing it is
\* worth its cost when the whole fee is taken from a win.
WorthBuying(b, side) ==
  LET price == scan.price[b] IN
  /\ ~Blocked(price, side, Settings)
  /\ ExpectedValue(Chance(b, side), price, side, "realistic") >= Threshold(side, Settings)
  /\ Settings.kelly =>
       Chance(b, side) * (100 - TakerFee(price)) > Unit * CostOf(price, side)

(***************************************************************************)
(* A bracket gets a signal if and only if a side of it is worth buying,    *)
(* and on that side: comparing the two sides first and sizing with another *)
(* fee than the expected value's loses none and adds none.  More than one  *)
(* contract stay within every cap of the settings.                         *)
(***************************************************************************)
EdgeIsTraded ==
  scan # NoScan =>
    /\ \A b \in BracketSet, side \in TradeSides : ValidPrice(scan.price[b]) =>
         (WorthBuying(b, side) <=>
            \E i \in DOMAIN signals : signals[i].bracket = b /\ signals[i].side = side)
    /\ \A i \in DOMAIN signals : signals[i].quantity > 1 =>
         LET cost == signals[i].quantity * CostOf(scan.price[signals[i].bracket], signals[i].side)
         IN /\ cost <= Settings.tradeSize
            /\ 100 * cost <= scan.bankroll * Settings.bankrollPct
            /\ signals[i].quantity <= Settings.maxContracts
==============================================================================
