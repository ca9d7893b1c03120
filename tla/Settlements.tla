----------------------------- MODULE Settlements -----------------------------
(***************************************************************************)
(* What trades settle on: Kalshi's results, and the temperatures of the    *)
(* NWS climate reports (CLI) of one city, for display.  The 8 AM task and  *)
(* the settle endpoint (api/trades.py) both store the reports; the 9 AM    *)
(* task, each trading cycle and the endpoint settle, each in one           *)
(* transaction.  (What sessions that settle at once do to each other and   *)
(* to the cooldown: RiskDay.)                                              *)
(***************************************************************************)
EXTENDS Naturals, Sequences, SequencesExt

CONSTANTS
  CliDays,       \* the days; there is one trade for each
  MaxProducts,   \* bound: reports the NWS publishes
  MaxResets      \* bound: resettlements

ASSUME SettlementAssumption == 0 \notin CliDays /\ MaxProducts \in Nat /\ MaxResets \in Nat

VARIABLES
  products,   \* the days of the CLI reports, the newest first
  settlements, \* how many Settlement rows each day has
  checked,    \* the 8 AM task: the day whose row it is about to insert
  call,       \* the settle endpoint's request
  outcome,    \* Kalshi's market_result for each day's trade
  bet,        \* the status of each day's trade
  resets      \* resettlements so far

settlementVars == <<products, settlements, checked, call, outcome, bet, resets>>

NoDate == 0   \* the day of a report whose header gives none
NoCall == [at |-> "none"]

\* A report: its day, and whether it gives the day's maximum or "M" in its place.
Products == [date : CliDays \union {NoDate}, maximum : {"degrees", "M"}]

SettlementTypeOK ==
  /\ products \in Seq(Products) /\ Len(products) <= MaxProducts
  /\ settlements \in [CliDays -> Nat]
  /\ checked \in SUBSET CliDays
  /\ \/ call = NoCall
     \/ call \in [at : {"fetches", "settles"}, known : SUBSET CliDays, added : SUBSET CliDays]
  /\ outcome \in [CliDays -> {"none", "yes", "no"}]
  /\ bet \in [CliDays -> {"OPEN", "WON", "LOST"}]
  /\ resets \in 0..MaxResets

SettlementInit ==
  /\ products = <<>> /\ settlements = [d \in CliDays |-> 0]
  /\ checked = {} /\ call = NoCall
  /\ outcome = [d \in CliDays |-> "none"]
  /\ bet = [d \in CliDays |-> "OPEN"] /\ resets = 0

-----------------------------------------------------------------------------
(* The NWS and Kalshi.                                                     *)

\* A day's report, of which there may be a later version.
PublishReport(product) ==
  /\ Len(products) < MaxProducts
  /\ products' = <<product>> \o products
  /\ UNCHANGED <<settlements, checked, call, outcome, bet, resets>>

Resolve(d, r) ==
  /\ outcome[d] = "none"
  /\ outcome' = [outcome EXCEPT ![d] = r]
  /\ UNCHANGED <<products, settlements, checked, call, bet, resets>>

-----------------------------------------------------------------------------
(* weather/cli_parser.py: the day that a report has a maximum for, if any. *)

ExtractReportDate(product) == {product.date} \ {NoDate}

ExtractTemperature(product) == {product.maximum} \ {"M"}

ParseCliText(product) == {d \in ExtractReportDate(product) : ExtractTemperature(product) # {}}

\* weather/nws.py: the report at the head of the listing; or those of the listing, of which
\* each may be left out because it cannot be fetched.
FetchNwsCli == {products[i] : i \in DOMAIN products \intersect {1}}

FetchAllNwsCli == {SelectSeq(products, LAMBDA p : p \in got) : got \in SUBSET Range(products)}

-----------------------------------------------------------------------------
(* _fetch_cli_reports_async: the newest report only.                       *)

\* An illegible report ends it, and so do two rows of the day: the check raises.
CheckReport ==
  /\ checked = {}
  /\ checked' = {d \in UNION {ParseCliText(p) : p \in FetchNwsCli} : settlements[d] = 0}
  /\ checked' # {}
  /\ UNCHANGED <<products, settlements, call, outcome, bet, resets>>

InsertReport ==
  /\ checked # {}
  /\ settlements' = [d \in CliDays |-> IF d \in checked THEN settlements[d] + 1 ELSE settlements[d]]
  /\ checked' = {}
  /\ UNCHANGED <<products, call, outcome, bet, resets>>

InsertFails ==
  /\ checked # {}
  /\ checked' = {}
  /\ UNCHANGED <<products, settlements, call, outcome, bet, resets>>

-----------------------------------------------------------------------------
(* Settling.                                                               *)

\* get_settlements, all pages.
Resolved == {d \in CliDays : outcome[d] # "none"}

\* settle_from_kalshi, for trades bought on the "yes" side.
FromKalshi(r) == IF r = "yes" THEN "WON" ELSE "LOST"

Matching(known) == {d \in known : bet[d] = "OPEN"}
Ambiguous(d) == settlements[d] > 1

SettledBets(known) ==
  [d \in CliDays |-> IF d \in Matching(known) THEN FromKalshi(outcome[d]) ELSE bet[d]]

\* Mutant: no trade is settled without its day's temperature.
SettleWithReport(known) ==
  /\ Matching(known) # {}
  /\ \A d \in Matching(known) : settlements[d] = 1
  /\ bet' = SettledBets(known)

\* All matching trades or none: the temperature is looked up for each, and where a day has
\* two rows scalar_one_or_none raises and the transaction is rolled back.
SettleMatching(known) ==
  /\ Matching(known) # {}
  /\ ~ \E d \in Matching(known) : Ambiguous(d)
  /\ bet' = SettledBets(known)

\* _settle_and_postmortem.  A failing request changes nothing.
SettleCycle ==
  /\ SettleMatching(Resolved)
  /\ UNCHANGED <<products, settlements, checked, call, outcome, resets>>

\* The endpoint; resettle commits the reset of all trades, before it asks Kalshi.
SettleNow(resettle) ==
  /\ call = NoCall
  /\ IF resettle
     THEN /\ resets < MaxResets /\ resets' = resets + 1
          /\ bet' = [d \in CliDays |-> "OPEN"]
     ELSE UNCHANGED <<resets, bet>>
  /\ call' = [at |-> "fetches", known |-> {}, added |-> {}]
  /\ UNCHANGED <<products, settlements, checked, outcome>>

\* The days of the legible reports that have no row yet, the newest first; at a day with two
\* the check raises, which ends the loop.
Missing(reports) ==
  {d \in CliDays : /\ settlements[d] = 0
                   /\ \E i \in DOMAIN reports :
                        /\ d \in ParseCliText(reports[i])
                        /\ \A j \in 1..i : ~ \E e \in ParseCliText(reports[j]) : Ambiguous(e)}

\* Kalshi's results, then the reports, each checked against the rows that it sees.
FetchForCall(reports) ==
  /\ call # NoCall /\ call.at = "fetches"
  /\ call' = [at |-> "settles", known |-> Resolved, added |-> Missing(reports)]
  /\ UNCHANGED <<products, settlements, checked, outcome, bet, resets>>

\* Commit the reports and go on to settle.
CommitReports ==
  /\ call # NoCall /\ call.added # {}
  /\ settlements' = [d \in CliDays |-> IF d \in call.added THEN settlements[d] + 1 ELSE settlements[d]]
  /\ call' = [call EXCEPT !.added = {}]
  /\ UNCHANGED <<products, checked, outcome, bet, resets>>

SettleCall ==
  /\ call # NoCall /\ call.at = "settles" /\ call.added = {}
  /\ SettleMatching(call.known)
  /\ call' = NoCall
  /\ UNCHANGED <<products, settlements, checked, outcome, resets>>

\* Nothing to settle, an error, or a lost request.
CallEnds ==
  /\ call # NoCall
  /\ call' = NoCall
  /\ UNCHANGED <<products, settlements, checked, outcome, bet, resets>>

-----------------------------------------------------------------------------
SettlementNext ==
  \/ \E product \in Products : PublishReport(product)
  \/ \E d \in CliDays, r \in {"yes", "no"} : Resolve(d, r)
  \/ CheckReport
  \/ InsertReport
  \/ InsertFails
  \/ SettleCycle
  \/ \E resettle \in BOOLEAN : SettleNow(resettle)
  \/ \E reports \in FetchAllNwsCli : FetchForCall(reports)
  \/ CommitReports
  \/ SettleCall
  \/ CallEnds

SettlementSpec == SettlementInit /\ [][SettlementNext]_settlementVars

\* The beat keeps settling, and Kalshi answers now and then.
SettlementFairness == WF_settlementVars(SettleCycle)

FairSettlementSpec == SettlementSpec /\ SettlementFairness

-----------------------------------------------------------------------------
(***************************************************************************)
(* A trade is settled once Kalshi has settled its market, whether or not   *)
(* the NWS publishes a report and in spite of resettlements that fail half *)
(* way; unless a day of a trade to settle got two reports stored.          *)
(***************************************************************************)
ResolvedIsSettled ==
  SettlementFairness => \A d \in CliDays :
    []<>(outcome[d] # "none" =>
           bet[d] # "OPEN" \/ \E e \in Matching(Resolved) : Ambiguous(e))

(***************************************************************************)
(* The same without the exception: "NWS settlement data is optional and    *)
(* used only for display fields".  (Violated: the task and the endpoint    *)
(* both store a report of one day, and no trade is settled any more.)      *)
(***************************************************************************)
TemperatureIsOptional ==
  \A d \in CliDays : outcome[d] # "none" ~> bet[d] # "OPEN"
================================================================================
