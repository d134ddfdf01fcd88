----------------------------- MODULE PullScripts -----------------------------
(***************************************************************************)
(* The scripts that fill the data lake, and DataManager.update, which the  *)
(* terminal and some of them use.  All have one shape: for each item (an   *)
(* instrument, a manager, a series) and each unit of it (a metric, a       *)
(* filing, a statement), ask a provider and save what it answers.  What    *)
(* tells them apart is a record:                                           *)
(*   store     where the units are kept                                    *)
(*   units     how many units an item has, told apart up to 2              *)
(*   editions  how often a run visits a unit: once, or once per published  *)
(*             dataset or poll of a stream                                 *)
(*   source    the provider, see Fewer                                     *)
(*   skips     a unit the store already has is not fetched                 *)
(*   ends      what an exception while fetching ends: the "unit", the      *)
(*             "item", the "script", or nothing ("call": it was caught by  *)
(*             the provider and came back as an empty answer)              *)
(*   mode      "replace" the stored rows, or load them and "extend" them   *)
(*   reports   when the script reads the result of update as a list of     *)
(*             reports, which it is not: "never", after "each" item, or at *)
(*             the "end"                                                   *)
(* Stores and providers that the public release left out, or replaced by   *)
(* placeholders, are taken from how the scripts use them; so are the two   *)
(* services of the terminal that the comments of the release describe.     *)
(***************************************************************************)
EXTENDS Naturals

Manager == [store |-> "market", units |-> 1, editions |-> 1, source |-> "daily",
            skips |-> FALSE, ends |-> {"call"}, mode |-> "extend",
            reports |-> "never"]

(* DataManager.get() updates an instrument only when it has no file.       *)
ManagerGet == [Manager EXCEPT !.skips = TRUE]

PullEquityPool == [Manager EXCEPT !.reports = "end"]
PullUniverse   == [Manager EXCEPT !.reports = "each"]

(* The daily pulls that save the whole span they fetched, not through the  *)
(* manager.                                                                *)
PullFx           == [Manager EXCEPT !.mode = "replace"]
PullCommodities  == PullFx
PullRatesFutures == PullFx
PullIndices      == [PullFx EXCEPT !.store = "index"]

(* These four end before their first item: they import or read what the    *)
(* modules of the release do not have (METRICS, EdgarClient._http).        *)
Unable                == [Manager EXCEPT !.editions = 0]
PullFundamentals      == Unable
PullEdgarFundamentals == Unable
PullFilings           == Unable
PullForm4             == Unable

PullStatements == [PullFx EXCEPT !.store = "statements", !.units = 2,
                                 !.source = "vendor", !.ends = {"unit"}]

(* The metrics a factor lacks, and the filings feed of a ticker.           *)
TerminalFactors == [ManagerGet EXCEPT !.store = "fundamentals", !.units = 2,
                                      !.source = "fundamentals", !.mode = "replace"]
TerminalFilings == [PullFx EXCEPT !.store = "filings", !.source = "edgar", !.ends = {"item"}]

(* A manager whose filings cannot be listed is left out; a filing that     *)
(* cannot be fetched is.                                                   *)
Pull13F == [PullStatements EXCEPT !.store = "holdings", !.skips = TRUE,
                                  !.ends = {"item", "unit"}]

(* Every dataset rewrites the quarters it holds, in the order published.   *)
Pull13FBulk == [PullStatements EXCEPT !.store = "holdings", !.editions = 2,
                                      !.source = "datasets", !.ends = {"script"}]

PullNews          == [PullStatements EXCEPT !.store = "news", !.units = 1, !.mode = "extend"]
PullEquityOptions == [PullNews EXCEPT !.store = "options"]
PullGeopolitics   == [PullStatements EXCEPT !.store = "georisk", !.ends = {"item", "unit"}]

PullOrderbook == [PullNews EXCEPT !.store = "orderbook", !.ends = {"script"}]

(* A poll brings the latest prints only; a failed one is followed by a     *)
(* longer pause.                                                           *)
PullTradesStream    == [PullNews EXCEPT !.store = "trades", !.editions = 2, !.source = "tape"]
PullOrderbookStream == [PullTradesStream EXCEPT !.store = "orderbook"]

(* CUSIPs that are known are left out; a batch is written at a time.       *)
BuildCusipCrosswalk == [PullNews EXCEPT !.store = "crosswalk", !.skips = TRUE,
                                        !.ends = {"script"}]

PullMacro == [PullFx EXCEPT !.store = "macro", !.source = "fred"]

(* The curve from FRED, or when that raises the four tenors of yfinance,   *)
(* whose own failure nobody catches.                                       *)
PullRates == [PullFx EXCEPT !.store = "rates", !.source = "curve", !.ends = {"call", "script"}]

(* Two passes over one file: the minutes before those stored, and those    *)
(* after; a page that fails too often ends a pass with what came before.   *)
PullCryptoMinute == [Manager EXCEPT !.store = "minutes", !.units = 2, !.source = "pages"]

Scripts == {PullEquityPool, PullUniverse, PullFx, PullCommodities, PullRatesFutures,
            PullIndices, PullFundamentals, PullStatements, PullEdgarFundamentals,
            PullFilings, PullForm4, Pull13F, Pull13FBulk, PullNews, PullEquityOptions,
            PullGeopolitics, PullOrderbook, PullTradesStream, PullOrderbookStream,
            BuildCusipCrosswalk, PullMacro, PullRates, PullCryptoMinute,
            TerminalFactors, TerminalFilings}

-----------------------------------------------------------------------------
(* What a provider answers to a request for Rows, numbers by age.  The     *)
(* whole, or fewer when the vendor has trouble.                            *)
Newest(Rows) == {r \in Rows : \A q \in Rows : q <= r}
Oldest(Rows) == {r \in Rows : \A q \in Rows : r <= q}

Whole(s, Rows, edition) == IF s.source \in {"datasets", "tape"} THEN {r \in Rows : r = edition}
                             ELSE Rows

(* YFinanceDataProvider.fetch_daily: any exception gives no bars.          *)
DailyBars(Rows) == SUBSET Rows

(* CcxtDataProvider.fetch_daily and _pull_range: pages are asked in order, *)
(* and an error ends the list with those that came before it.              *)
Pages(Rows) == {{r \in Rows : r < n} : n \in Rows}

(* YFinanceFundamentalsProvider: without statements the snapshot of today, *)
(* without that nothing.                                                   *)
Fundamentals(Rows) == {{}, Newest(Rows)}

(* treasury_curve(): the tenors FRED answered before it stopped; with none *)
(* of them the few tenors of yfinance, here the first row.                 *)
TreasuryCurve(Rows) == (Pages(Rows) \ {{}}) \cup {Oldest(Rows)}

Fewer(s, Rows) ==
  CASE s.source = "daily" -> DailyBars(Rows)
    [] s.source = "pages" -> Pages(Rows)
    [] s.source = "fundamentals" -> Fundamentals(Rows)
    [] s.source = "curve" -> TreasuryCurve(Rows)
    [] OTHER -> {{}}
=============================================================================
