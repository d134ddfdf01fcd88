------------------------------ MODULE Research ------------------------------
(***************************************************************************)
(* Out-of-sample research: walk-forward validation of the strategies       *)
(* (backtest/validation.py) and the monthly allocator study                *)
(* (scripts/portfolio_is_oos.py).  A study goes over its history once, a   *)
(* fold or a day per step, and leaves for every date of its track what the *)
(* position that earned that date's return was decided from.               *)
(***************************************************************************)
EXTENDS Strategies, Sequences

CONSTANTS
  Programs,     \* the strategies studied
  Bars,         \* lengths of history
  Configs,      \* WalkForwardConfig: train, test, step, purge
  ReportLag     \* bars from a figure's stamp to its publication

ASSUME ResearchAssumption ==
  /\ Bars \subseteq Nat /\ ReportLag \in Nat
  /\ \A c \in Configs : /\ c.train \in Nat \ {0} /\ c.test \in Nat \ {0}
                        /\ c.step \in Nat \ {0} /\ c.purge \in Nat

VARIABLES
  program, cfg, bars,
  pos,          \* bars before the next fold, or days gone by
  folds,        \* per fold: its test dates, its decisions, what it was fit on
  held,         \* the allocator's weights
  oos           \* the stitched track: date -> decision

vars == <<program, cfg, bars, pos, folds, held, oos>>
study == <<program, cfg, bars>>

Empty == [d \in {} |-> NaN]

Init ==
  /\ program \in Programs /\ cfg \in Configs /\ bars \in Bars
  /\ pos = IF program \in Allocators THEN 1 ELSE cfg.train
  /\ folds = << >> /\ held = NaN /\ oos = Empty

-----------------------------------------------------------------------------
(* The panels of the store run to the last bar, whatever a fold is shown.  *)
Store == Market(bars)

(* A quarter's figures, public some bars after its end: yfinance stamps    *)
(* them with the end of the quarter, EDGAR with the day of the filing.     *)
QuarterEnd(t) == t % MonthDays = 1

Reported ==
  [t \in 1..bars |-> [i \in Names |-> IF QuarterEnd(t) THEN {t + ReportLag} ELSE NaN]]

Filed ==
  [t \in 1..bars |-> [i \in Names |->
    IF t > ReportLag /\ QuarterEnd(t - ReportLag) THEN {t} ELSE NaN]]

Factors(prices) == PriceFactors(prices) \cup Alphas(Store, prices)

(* scripts/eval_alpha101.py and eval_value_factor.py: signals that are     *)
(* correlated with the returns that follow.  Earnings are carried forward  *)
(* from the date they were filed.                                          *)
AlphaStudy == {Neutralize(ZScore(a), Groups) : a \in Alphas(Store, Closes(bars))}

ValueStudy == Neutralize(ZScore(Winsorize(Zip(ForwardFill(Filed), Closes(bars)))), Groups)

(* scripts/factor_heatmap.py: the same alphas, at every horizon.           *)
FactorHeatmap ==
  IcScorecard(AlphaStudy, Closes(bars), Horizon)
    \cup IcDecayMatrix(AlphaStudy, Closes(bars), 1..(Horizon + 1))

(* scripts/build_rates_model.py: the yields ahead from the curve today,     *)
(* with what it prints beside the forecast.                                *)
RatesModel ==
  LET curve == Closes(bars)
  IN  {<<p, ForwardChange(curve)>> : p \in {CurveFeatures(curve), NelsonSiegel(curve)}}

(* scripts/demo_backtest.py walks a momentum book forward.                 *)
DemoBook(prices) == FactorStrategy({Momentum(prices)})

(* The scripts below prune the alphas on the whole grid first.             *)
KeptAlphas(prices) ==
  {ByRow(a, [t \in DOMAIN a |-> VifPrune(AlphaStudy)]) : a \in Alphas(Store, prices)}

(* scripts/build_multialpha.py: kept, then blended by the IC on the grid.  *)
MultiAlpha(prices) == Blended(KeptAlphas(prices), IcWeights(AlphaStudy, Closes(bars)))

(* ModelStrategy is given embargo = test_days + purge_days.                *)
PurgeForgotten == cfg.test                    \* mutant: the purge gap is trained on

Embargo == cfg.test + cfg.purge

(* scripts/build_ml_model.py walks a refitted model forward, on features   *)
(* that were kept beforehand.                                              *)
MLModel(prices, n) == ModelStrategy(KeptAlphas(prices), prices, n - Embargo)

(* scripts/build_barra_model.py compares two books.                        *)
BarraBook(prices, n, label) ==
  IF label = "barra" THEN BarraMinVar(Store, prices, n) ELSE RollingMinVar(prices, n)

Weights(n) ==
  LET prices == Closes(n)
  IN  CASE program = "demo"      -> DemoBook(prices)
        [] program = "factor"    -> FactorStrategy(Factors(prices))
        [] program = "book"      -> Construction(CompositeScore(Factors(prices)),
                                                 PctChange(prices, 1), TRUE)
        [] program = "pairs"     -> KalmanPairs(prices)
        [] program = "butterfly" -> KalmanButterfly(prices)
        [] program = "fixed"     -> FixedButterfly(prices)
        [] program = "model"     -> ModelStrategy(Factors(prices), prices, n - Embargo)
        [] program \in {"barra", "minvar"} -> BarraBook(prices, n, program)
        [] program = "mdp"       -> MDPStrategy(prices, "equal")
        [] program = "mdp_vol"   -> MDPStrategy(prices, "inverse_vol")
        [] program = "value"     -> FactorStrategy({FundamentalFactor(Reported, prices)})
        [] program = "multi"     -> MultiAlpha(prices)
        [] program = "ml"        -> MLModel(prices, n)

FittedOn(n) ==
  IF program = "model" THEN TrainedOn(Factors(Closes(n)), Closes(n), n - Embargo) ELSE NaN

(* The engine lags by one bar: the return of d is earned by the weights of *)
(* the day before.                                                         *)
DecidedFor(weights, d) == IF d - 1 \in DOMAIN weights THEN Known(weights, d - 1) ELSE NaN

-----------------------------------------------------------------------------
TestDates == (pos + cfg.purge + 1)..(pos + cfg.purge + cfg.test)

(* One fold: the strategy sees the prices up to the end of its test        *)
(* window, and only the window's slice is kept.                            *)
WalkFold ==
  /\ program \notin Allocators
  /\ pos + cfg.purge + cfg.test <= bars
  /\ LET end == pos + cfg.purge + cfg.test
         weights == Weights(end)
     IN  folds' = Append(folds, [decided |-> [d \in TestDates |-> DecidedFor(weights, d)],
                                 fit     |-> FittedOn(end)])
  /\ pos' = pos + cfg.step
  /\ UNCHANGED <<study, held, oos>>

(* concat_oos(): the earliest fold keeps a date that two folds cover.      *)
Covering(fs, d) == {k \in DOMAIN fs : d \in DOMAIN fs[k].decided}

ConcatOos(fs) ==
  [d \in UNION {DOMAIN fs[k].decided : k \in DOMAIN fs} |->
     fs[CHOOSE k \in Covering(fs, d) : \A j \in Covering(fs, d) : k <= j].decided[d]]

Stitch ==
  /\ program \notin Allocators
  /\ pos + cfg.purge + cfg.test > bars
  /\ oos = Empty /\ folds # << >>
  /\ oos' = ConcatOos(folds)
  /\ UNCHANGED <<study, pos, folds, held>>

(* run(): on a rebalance date the schedule's weights are taken up and earn *)
(* that very day; in between the weights drift with the day's returns.     *)
Day ==
  /\ program \in Allocators /\ pos < bars
  /\ LET day     == pos + 1
         returns == DropGaps([t \in 2..bars |-> PctChange(DropGaps(Closes(bars)), 1)[t]])
         due     == day \in MonthStarts(2..bars) /\ day - EstWindow >= 2
         weights == IF due THEN Allocated(program, TrailingHistory(returns, day)) ELSE held
     IN  /\ oos' = IF weights = NaN THEN oos
                   ELSE [d \in DOMAIN oos \cup {day} |-> IF d = day THEN weights ELSE oos[d]]
         /\ held' = IF weights = NaN THEN NaN ELSE weights \cup Known(returns, day)
         /\ pos' = day
  /\ UNCHANGED <<study, folds>>

Next == WalkFold \/ Stitch \/ Day

Spec == Init /\ [][Next]_vars

-----------------------------------------------------------------------------
Before(d) == 1..(d - 1)

(* No look-ahead out of sample: whatever the strategy, its windows and the *)
(* length of the fold, the position that earns a date's return was decided *)
(* from earlier bars only, in every fold and in the stitched track.        *)
OutOfSampleIsClean ==
  /\ \A k \in DOMAIN folds : \A d \in DOMAIN folds[k].decided :
       folds[k].decided[d] \subseteq Before(d)
  /\ \A d \in DOMAIN oos : oos[d] \subseteq Before(d)

(* A refitted model has seen neither a bar of its test window nor one of   *)
(* the purge gap before it, labels included.                               *)
PurgeGapIsUnseen ==
  \A k \in DOMAIN folds : \A d \in DOMAIN folds[k].decided :
    folds[k].fit \subseteq 1..(d - 1 - cfg.purge)

(* A date's decision does not depend on the fold it is taken from: a       *)
(* longer history restates nothing, so that overlapping folds agree.       *)
HistoryIsNotRestated ==
  program # "model" =>
    \A j, k \in DOMAIN folds : \A d \in DOMAIN folds[j].decided \cap DOMAIN folds[k].decided :
      folds[j].decided[d] = folds[k].decided[d]

(* Scores meet their future: a score knows nothing after its row, and the  *)
(* label that it is correlated with, or fit to, contains a later bar       *)
(* (evaluation.py, the studies, the curve's forecaster).                   *)
LabelsLieAhead ==
  LET prices == Closes(bars)
      scored == FactorHeatmap \cup RatesModel \cup
                  {<<f, ForwardReturns(prices, Horizon)>> : f \in Factors(prices) \cup {ValueStudy}}
  IN  \A s \in scored : \A t \in 1..bars : \A i \in Names :
        /\ s[1][t][i] \subseteq 1..t
        /\ s[1][t][i] # NaN /\ s[2][t][i] # NaN => \E b \in s[2][t][i] : b > t
=============================================================================
