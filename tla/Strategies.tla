----------------------------- MODULE Strategies -----------------------------
(***************************************************************************)
(* The weight library (strategy/library/) with the models under it: the    *)
(* Kalman regression, the regime MDP, the Barra risk model and portfolio   *)
(* construction.  A strategy maps the panel it is given to one row of      *)
(* target weights per bar; a row is decided by all that it names.          *)
(***************************************************************************)
EXTENDS Factors

CONSTANTS
  Legs,            \* the pair, or the belly and its wings
  Warmup,          \* bars before a spread is traded
  EstWindow,       \* bars of a covariance fit
  RebalanceDays,
  MonthDays        \* bars of a calendar month

ASSUME StrategyAssumption ==
  /\ Legs \subseteq Names /\ Warmup \in Nat
  /\ EstWindow \in Nat \ {0} /\ RebalanceDays \in Nat \ {0} /\ MonthDays \in Nat \ {0}

(* Ranks select the two legs: each weight of a row depends on every score. *)
LongShortWeights(score) == Column(RowStat(score))

-----------------------------------------------------------------------------
(* Factor strategies.                                                      *)
Hygiene(factors) == {Neutralize(ZScore(Winsorize(f)), Groups) : f \in factors}

CompositeScore(factors) == Combine(Hygiene(factors))

FactorStrategy(factors) == LongShortWeights(CompositeScore(factors))

(* A blend or a selection of factors that was computed beforehand.         *)
Blended(factors, chosen) ==
  LET score == CompositeScore(factors)
  IN  LongShortWeights(ByRow(score, [t \in DOMAIN score |-> chosen]))

(* portfolio/construction.py: smooth if asked to, demean, scale, cap, and   *)
(* aim at a volatility that is estimated up to the day before.             *)
Book(score, smooth) == Rank(IF smooth THEN Running(score) ELSE score)

LeverageShiftedBack(score, returns, smooth) ==  \* mutant: sign of the leverage's shift
  LET earned   == Filled(RowStat(Zip(Shift(Book(score, smooth), 1), returns)))
      realized == Rolling(Column(earned), Window)
  IN  Zip(Book(score, smooth), Shift(realized, -1))

Construction(score, returns, smooth) ==
  LET earned   == Filled(RowStat(Zip(Shift(Book(score, smooth), 1), returns)))
      realized == Rolling(Column(earned), Window)
  IN  Zip(Book(score, smooth), Shift(realized, 1))

-----------------------------------------------------------------------------
(* Spread strategies.                                                      *)
LegsAt(prices, t) == UNION {prices[t][i] : i \in Legs}

Aligned(prices) == {t \in DOMAIN prices : \A i \in Legs : prices[t][i] # NaN}

(* The filter's coefficients and its forecast error at t have seen every   *)
(* aligned row up to t.                                                    *)
KalmanRegression(prices) ==
  [t \in DOMAIN prices |->
    IF t \in Aligned(prices)
      THEN UNION {LegsAt(prices, s) : s \in {r \in Aligned(prices) : r <= t}}
      ELSE NaN]

(* A position is carried from bar to bar, so it depends on every z-score   *)
(* since the warm-up.                                                      *)
HysteresisPositions(z, warmup) ==
  [t \in DOMAIN z |-> UNION {z[s] : s \in {r \in DOMAIN z : warmup < r /\ r <= t}}]

(* Both legs of a row are scaled by the row's gross.                       *)
ScaleToGross(position, hedge, prices) ==
  [t \in DOMAIN prices |-> [i \in Names |->
    IF i \in Legs /\ position[t] # NaN THEN position[t] \cup hedge[t] \cup LegsAt(prices, t)
                                       ELSE NaN]]

KalmanPairs(prices) ==
  LET hedge == KalmanRegression(prices)
  IN  ScaleToGross(HysteresisPositions(hedge, Warmup), hedge, prices)

RollingZ(spread) == RowStat(Rolling(Column(spread), Window))

KalmanButterfly(prices) ==
  LET hedge == KalmanRegression(prices)
      delay == IF Warmup > Window THEN Warmup ELSE Window
  IN  ScaleToGross(HysteresisPositions(RollingZ(hedge), delay), hedge, prices)

FixedButterfly(prices) ==
  LET spread == [t \in DOMAIN prices |-> LegsAt(prices, t)]
  IN  ScaleToGross(HysteresisPositions(RollingZ(spread), Window), spread, prices)

-----------------------------------------------------------------------------
(* ModelStrategy with refit: the estimator is fit on the rows before the   *)
(* embargo, with labels from the same rows, and predicts every row.        *)
FeaturePanel(factors) == Combine(Hygiene(factors))

TrainedOn(factors, prices, cut) ==
  LET train == Upto(prices, cut)
  IN  FitOn(FeaturePanel(factors), ForwardReturns(train, Horizon))

ModelStrategy(factors, prices, cut) ==
  LET score == FeaturePanel(factors)
      fit   == [t \in DOMAIN score |-> TrainedOn(factors, prices, cut)]
  IN  LongShortWeights(ByRow(score, fit))

-----------------------------------------------------------------------------
(* The regime MDP (mdp/regime.py, mdp/allocation.py).                      *)
RegimeFeatures(book) ==
  Zip(Rolling(Column(book), Window), Running(Column(book)))

(* fit() clusters every row of the window and label() assigns each row a   *)
(* cluster; leading rows take the first label there is.                    *)
Everything(p) == UNION {Known(p, t) : t \in DOMAIN p}

RegimeLabels(features) ==
  LET clusters == [t \in DOMAIN features |-> Everything(features)]
  IN  BackFill(ForwardFill(ByRow(features, clusters)))

(* Transition counts, regime means and variances use the whole window, so  *)
(* the policy of every regime does.                                        *)
AllocationPolicy(book, labels) == Everything(labels) \cup Everything(Column(book))

InverseVol(returns) == Everything(returns)

BaseWeights(returns, base) == IF base = "inverse_vol" THEN InverseVol(returns) ELSE NaN

MDPStrategy(prices, base) ==
  LET returns == PctChange(prices, 1)
      share   == BaseWeights(returns, base)
      book    == Filled([t \in DOMAIN returns |-> Known(returns, t) \cup share])
      labels  == RegimeLabels(RegimeFeatures(book))
      policy  == AllocationPolicy(book, labels)
  IN  [t \in DOMAIN prices |-> [i \in Names |-> labels[t][i] \cup policy \cup share]]

-----------------------------------------------------------------------------
(* The Barra model is fit on a trailing window; a window without a single  *)
(* complete cross-section raises, and the strategy keeps what it holds.    *)
CrossSections(m, exposures, rows) ==
  {t \in rows : \E i \in Names :
     /\ Returns(m)[t][i] # NaN /\ CapProxy(m)[t][i] # NaN
     /\ \A x \in exposures : x[t][i] # NaN}

RiskModel(m, exposures, rows) ==
  UNION {Known(Returns(m), t) \cup Known(CapProxy(m), t)
           \cup UNION {Known(x, t) : x \in exposures} :
         t \in CrossSections(m, exposures, rows)}

EstimationRows(t) == (t - EstWindow)..t

(* Rebalances count from the first bar of the panel.                       *)
CountedFromTheEnd(n) ==                       \* mutant: anchored at the panel's end
  {t \in (EstWindow + 1)..n : (n - t) % RebalanceDays = 0}

Rebalances(n) == {t \in (EstWindow + 1)..n : (t - 1 - EstWindow) % RebalanceDays = 0}

HeldFrom(fits, t) == {r \in DOMAIN fits : r <= t /\ fits[r] # NaN}

Held(fits, rows) ==
  [t \in rows |-> [i \in Names |->
    UNION {fits[r] : r \in {s \in HeldFrom(fits, t) : \A q \in HeldFrom(fits, t) : q <= s}}]]

BarraMinVar(m, prices, n) ==
  LET sliced    == Sliced(m, n)
      exposures == StyleExposures(sliced)
      fits      == [t \in Rebalances(n) |-> RiskModel(sliced, exposures, EstimationRows(t))]
  IN  Held(fits, DOMAIN prices)

(* Without factors: portfolio/covariance.py, optimize.py, allocations.py.  *)
(* The covariance is estimated on the rows that have all the columns.      *)
LedoitWolf(returns) ==
  UNION {Known(returns, t) :
         t \in {r \in DOMAIN returns : \A i \in Columns(returns) : returns[r][i] # NaN}}

MinVarianceLongOnly(returns) == LedoitWolf(returns)

MaxSharpeLongOnly(returns) == Everything(returns) \cup LedoitWolf(returns)

(* Names with a gap in the window are left out; with fewer than two names  *)
(* the book stays.                                                         *)
RollingMinVar(prices, n) ==
  LET returns   == PctChange(prices, 1)
      window(t) == DropGaps([s \in {r \in EstimationRows(t) : Known(returns, r) # NaN} |->
                               returns[s]])
      fits      == [t \in Rebalances(n) |->
                      IF \E i, j \in Columns(window(t)) : i # j
                        THEN MinVarianceLongOnly(window(t)) ELSE NaN]
  IN  Held(fits, DOMAIN prices)

-----------------------------------------------------------------------------
(* scripts/portfolio_is_oos.py: at the first bar of a month an allocator   *)
(* is given the returns before that bar, once there are enough of them.    *)
MonthStarts(rows) ==
  {t \in rows : t - 1 \notin rows \/ (t - 1) \div MonthDays # (t - 2) \div MonthDays}

Allocators == {"inverse_vol", "min_variance", "max_sharpe"}

Allocated(allocator, returns) ==
  CASE allocator = "inverse_vol"  -> InverseVol(returns)
    [] allocator = "min_variance" -> MinVarianceLongOnly(returns)
    [] allocator = "max_sharpe"   -> MaxSharpeLongOnly(returns)

TrailingHistory(returns, t) == [s \in (t - EstWindow)..(t - 1) |-> returns[s]]
=============================================================================
