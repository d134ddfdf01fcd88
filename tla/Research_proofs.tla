--------------------------- MODULE Research_proofs ---------------------------
(***************************************************************************)
(* No look-ahead, for any names, listings, windows, lags and folds.        *)
(* Panels whose rows know nothing after them are closed under the          *)
(* vocabulary of factors and strategies.                                   *)
(***************************************************************************)
EXTENDS Research, WellFoundedInduction, TLAPS

(* Row t of n knows bars up to t only.                                     *)
Clean(p, n) ==
  /\ DOMAIN p = 1..n
  /\ \A t \in 1..n : \A i \in Names : p[t][i] \subseteq 1..t

CleanSeries(s, n) == DOMAIN s = 1..n /\ \A t \in 1..n : s[t] \subseteq 1..t

-----------------------------------------------------------------------------
(* The vocabulary of Panels.                                               *)
LEMMA ClosesClean == ASSUME NEW n \in Nat PROVE Clean(Closes(n), n)
  BY DEF Clean, Closes, NaN

LEMMA ZipClean ==
  ASSUME NEW n \in Nat, NEW p, NEW q, Clean(p, n), Clean(q, n)
  PROVE  Clean(Zip(p, q), n)
  BY DEF Clean, Zip, NaN

LEMMA ShiftClean ==
  ASSUME NEW n \in Nat, NEW p, Clean(p, n), NEW d \in Nat
  PROVE  Clean(Shift(p, d), n)
  BY DEF Clean, Shift, NaN

LEMMA RollingClean ==
  ASSUME NEW n \in Nat, NEW p, Clean(p, n), NEW d \in Nat
  PROVE  Clean(Rolling(p, d), n)
  BY DEF Clean, Rolling, NaN

LEMMA KnownClean ==
  ASSUME NEW n \in Nat, NEW p, Clean(p, n), NEW t \in 1..n
  PROVE  Known(p, t) \subseteq 1..t
  BY DEF Clean, Known

LEMMA RowStatClean ==
  ASSUME NEW n \in Nat, NEW p, Clean(p, n)
  PROVE  CleanSeries(RowStat(p), n)
  BY KnownClean DEF Clean, CleanSeries, RowStat

LEMMA ColumnClean ==
  ASSUME NEW n \in Nat, NEW s, CleanSeries(s, n)
  PROVE  Clean(Column(s), n)
  BY DEF Clean, CleanSeries, Column

LEMMA ByRowClean ==
  ASSUME NEW n \in Nat, NEW p, NEW s, Clean(p, n), CleanSeries(s, n)
  PROVE  Clean(ByRow(p, s), n)
  BY DEF Clean, CleanSeries, ByRow, NaN

LEMMA FilledClean ==
  ASSUME NEW n \in Nat, NEW s, CleanSeries(s, n)
  PROVE  CleanSeries(Filled(s), n)
  BY DEF CleanSeries, Filled, NaN

LEMMA RunningClean ==
  ASSUME NEW n \in Nat, NEW p, Clean(p, n)
  PROVE  Clean(Running(p), n)
  BY DEF Clean, Running

LEMMA RankClean ==
  ASSUME NEW n \in Nat, NEW p, Clean(p, n)
  PROVE  Clean(Rank(p), n)
  BY KnownClean DEF Clean, Rank, NaN

LEMMA NeutralizeClean ==
  ASSUME NEW n \in Nat, NEW p, NEW g, Clean(p, n)
  PROVE  Clean(Neutralize(p, g), n)
  BY DEF Clean, Neutralize, NaN

LEMMA CombineClean ==
  ASSUME NEW n \in Nat, NEW panels, panels # {}, \A p \in panels : Clean(p, n)
  PROVE  Clean(Combine(panels), n)
  <1>1. UNION {DOMAIN p : p \in panels} = 1..n
    BY DEF Clean
  <1>2. DOMAIN Combine(panels) = 1..n
    BY <1>1 DEF Combine
  <1>3. ASSUME NEW t \in 1..n, NEW i \in Names PROVE Combine(panels)[t][i] \subseteq 1..t
    <2>1. Combine(panels)[t][i] = UNION {p[t][i] : p \in panels}
      BY <1>1 DEF Combine
    <2>2. \A p \in panels : p[t][i] \subseteq 1..t
      BY DEF Clean
    <2>3. QED BY <2>1, <2>2
  <1>4. QED BY <1>2, <1>3 DEF Clean

LEMMA PctChangeClean ==
  ASSUME NEW n \in Nat, NEW p, Clean(p, n), NEW d \in Nat
  PROVE  Clean(PctChange(p, d), n) /\ Clean(Delta(p, d), n)
  BY ShiftClean, ZipClean DEF PctChange, Delta

LEMMA CovarianceClean ==
  ASSUME NEW n \in Nat, NEW x, NEW y, Clean(x, n), Clean(y, n), NEW d \in Nat
  PROVE  Clean(Covariance(x, y, d), n) /\ Clean(Correlation(x, y, d), n)
  <1>1. Clean(Covariance(x, y, d), n)
    BY ZipClean, RollingClean DEF Covariance
  <1>2. Clean(Zip(Rolling(x, d), Rolling(y, d)), n)
    BY ZipClean, RollingClean
  <1>3. QED BY <1>1, <1>2, ZipClean DEF Correlation

(* The first rows of a panel.                                              *)
LEMMA FirstRowsClean ==
  ASSUME NEW n \in Nat, NEW m \in Nat, n <= m, NEW p, Clean(p, m)
  PROVE  Clean([t \in 1..n |-> p[t]], n) /\ Clean(Upto(p, n), n)
  <1>1. DOMAIN p \cap (1..n) = 1..n
    BY DEF Clean
  <1>2. QED BY <1>1 DEF Clean, Upto

-----------------------------------------------------------------------------
(* The factor library.                                                     *)
LEMMA PriceFactorsClean ==
  ASSUME NEW n \in Nat, NEW prices, Clean(prices, n)
  PROVE  \A f \in PriceFactors(prices) : Clean(f, n)
  <1> USE WindowAssumption DEF WindowAssumption
  <1>1. Clean(Momentum(prices), n)
    BY ShiftClean, ZipClean DEF Momentum
  <1>2. Clean(Volatility(prices), n)
    BY PctChangeClean, RollingClean DEF Volatility
  <1>3. Clean(Reversal(prices), n)
    BY PctChangeClean DEF Reversal
  <1>4. QED BY <1>1, <1>2, <1>3 DEF PriceFactors

CleanMarket(m, n) == \A f \in Fields : Clean(m[f], n)

LEMMA MarketClean ==
  ASSUME NEW n \in Nat, NEW k \in Nat, n <= k
  PROVE  CleanMarket(Market(k), k) /\ CleanMarket(Sliced(Market(k), n), n)
  BY ClosesClean, FirstRowsClean DEF CleanMarket, Market, Sliced

LEMMA AlphasClean ==
  ASSUME NEW n \in Nat, NEW k \in Nat, n <= k, NEW m, CleanMarket(m, k),
         NEW prices, DOMAIN prices = 1..n
  PROVE  \A a \in Alphas(m, prices) : Clean(a, n)
  <1> USE WindowAssumption DEF WindowAssumption
  <1>1. /\ Clean(m.open, k) /\ Clean(m.high, k) /\ Clean(m.low, k)
        /\ Clean(m.close, k) /\ Clean(m.volume, k)
    BY DEF CleanMarket, Fields
  <1>2. Clean(Alpha101(m), k) /\ Clean(Alpha054(m), k)
    BY <1>1, ZipClean DEF Alpha101, Alpha054
  <1>3. Clean(Alpha006(m), k)
    BY <1>1, CovarianceClean DEF Alpha006
  <1>4. Clean(Alpha012(m), k)
    BY <1>1, PctChangeClean, ZipClean DEF Alpha012
  <1>5. Clean(Alpha041(m), k)
    BY <1>1, ZipClean DEF Alpha041, Vwap
  <1>6. Clean(Alpha004(m), k)
    BY <1>1, RankClean, RollingClean DEF Alpha004, TimeSeries
  <1>7. Clean(Alpha013(m), k)
    BY <1>1, RankClean, CovarianceClean DEF Alpha013
  <1>8. Clean(Alpha033(m), k)
    BY <1>1, RankClean, ZipClean DEF Alpha033
  <1> DEFINE kept == {Alpha101(m), Alpha006(m), Alpha012(m), Alpha041(m), Alpha054(m),
                      Alpha004(m), Alpha013(m), Alpha033(m)}
  <1>9. \A a \in kept : Clean(a, k)
    BY <1>2, <1>3, <1>4, <1>5, <1>6, <1>7, <1>8
  <1>10. \A a \in kept : Clean([t \in 1..n |-> a[t]], n)
    BY <1>9, FirstRowsClean
  <1>11. Alphas(m, prices) = {[t \in 1..n |-> a[t]] : a \in kept}
    BY DEF Alphas
  <1>12. QED BY <1>10, <1>11

LEMMA StandardizeClean ==
  ASSUME NEW n \in Nat, NEW p, Clean(p, n)
  PROVE  Clean(Standardize(p), n) /\ Clean(ZScore(Winsorize(p)), n)
  BY RankClean DEF Standardize, ZScore, Winsorize

LEMMA RollingBetaClean ==
  ASSUME NEW n \in Nat, NEW r, NEW s, Clean(r, n), CleanSeries(s, n)
  PROVE  Clean(RollingBeta(r, s), n) /\ Clean(Residual(r, s), n)
  <1> USE WindowAssumption DEF WindowAssumption
  <1>1. Clean(Rolling(ByRow(r, s), Window), n) /\ Clean(Rolling(r, Window), n)
    BY ByRowClean, RollingClean
  <1>2. Clean(Rolling(Column(s), Window), n)
    BY ColumnClean, RollingClean
  <1>3. Clean(RollingBeta(r, s), n)
    BY <1>1, <1>2, ZipClean DEF RollingBeta
  <1>4. QED BY <1>3, ByRowClean, ZipClean DEF Residual

LEMMA ExposuresClean ==
  ASSUME NEW n \in Nat, NEW m, CleanMarket(m, n)
  PROVE  /\ Clean(Returns(m), n) /\ Clean(CapProxy(m), n)
         /\ \A x \in StyleExposures(m) : Clean(x, n)
  <1> USE WindowAssumption DEF WindowAssumption
  <1>1. Clean(m.close, n) /\ Clean(m.volume, n)
    BY DEF CleanMarket, Fields
  <1>2. Clean(Returns(m), n)
    BY <1>1, PctChangeClean DEF Returns
  <1>3. Clean(CapProxy(m), n)
    BY <1>1, ZipClean, RollingClean DEF CapProxy, Adv
  <1> DEFINE market == RowStat(Returns(m))
  <1>4. CleanSeries(market, n)
    BY <1>2, RowStatClean
  <1> HIDE DEF market
  <1>5. Clean(RollingBeta(Returns(m), market), n)
        /\ Clean(Rolling(Residual(Returns(m), market), Window), n)
    BY <1>2, <1>4, RollingBetaClean, RollingClean
  <1>6. Clean(Momentum(m.close), n) /\ Clean(PctChange(m.close, Window), n)
    BY <1>1, PriceFactorsClean, PctChangeClean DEF PriceFactors
  <1> DEFINE raw == {CapProxy(m), RollingBeta(Returns(m), market), Momentum(m.close),
                     Rolling(Residual(Returns(m), market), Window), PctChange(m.close, Window)}
  <1>7. \A p \in raw : Clean(Standardize(p), n)
    BY <1>3, <1>5, <1>6, StandardizeClean
  <1>8. StyleExposures(m) = {Standardize(p) : p \in raw}
    BY DEF StyleExposures, market
  <1>9. QED BY <1>2, <1>3, <1>7, <1>8

-----------------------------------------------------------------------------
(* The weight library.                                                     *)
LEMMA ScoresClean ==
  ASSUME NEW n \in Nat, NEW factors, factors # {}, \A f \in factors : Clean(f, n)
  PROVE  /\ Clean(CompositeScore(factors), n) /\ Clean(FeaturePanel(factors), n)
         /\ Clean(FactorStrategy(factors), n)
  <1>1. \A f \in factors : Clean(Neutralize(ZScore(Winsorize(f)), Groups), n)
    BY StandardizeClean, NeutralizeClean
  <1>2. Hygiene(factors) # {} /\ \A h \in Hygiene(factors) : Clean(h, n)
    BY <1>1 DEF Hygiene
  <1>3. Clean(Combine(Hygiene(factors)), n)
    BY <1>2, CombineClean
  <1>4. QED BY <1>3, RowStatClean, ColumnClean
               DEF CompositeScore, FeaturePanel, FactorStrategy, LongShortWeights

LEMMA ConstructionClean ==
  ASSUME NEW n \in Nat, NEW score, NEW returns, Clean(score, n), Clean(returns, n),
         NEW smooth \in BOOLEAN
  PROVE  Clean(Construction(score, returns, smooth), n)
  <1> USE WindowAssumption DEF WindowAssumption
  <1>1. Clean(Book(score, smooth), n)
    BY RankClean, RunningClean DEF Book
  <1> DEFINE earned == Filled(RowStat(Zip(Shift(Book(score, smooth), 1), returns)))
  <1>2. CleanSeries(earned, n)
    BY <1>1, ShiftClean, ZipClean, RowStatClean, FilledClean
  <1> HIDE DEF earned
  <1>3. Clean(Shift(Rolling(Column(earned), Window), 1), n)
    BY <1>2, ColumnClean, RollingClean, ShiftClean
  <1>4. QED BY <1>1, <1>3, ZipClean DEF Construction, earned

LEMMA LegsClean ==
  ASSUME NEW n \in Nat, NEW prices, Clean(prices, n)
  PROVE  /\ \A t \in 1..n : LegsAt(prices, t) \subseteq 1..t
         /\ CleanSeries([t \in DOMAIN prices |-> LegsAt(prices, t)], n)
         /\ CleanSeries(KalmanRegression(prices), n)
  <1>1. \A t \in 1..n : LegsAt(prices, t) \subseteq 1..t
    BY StrategyAssumption DEF StrategyAssumption, LegsAt, Clean
  <1>2. DOMAIN prices = 1..n /\ Aligned(prices) \subseteq 1..n
    BY DEF Clean, Aligned
  <1>3. QED BY <1>1, <1>2 DEF CleanSeries, KalmanRegression, NaN

LEMMA SpreadClean ==
  ASSUME NEW n \in Nat, NEW prices, NEW z, NEW hedge, NEW warmup,
         Clean(prices, n), CleanSeries(z, n), CleanSeries(hedge, n)
  PROVE  Clean(ScaleToGross(HysteresisPositions(z, warmup), hedge, prices), n)
  <1>1. CleanSeries(HysteresisPositions(z, warmup), n)
    BY DEF CleanSeries, HysteresisPositions
  <1>2. \A t \in 1..n : LegsAt(prices, t) \subseteq 1..t
    BY LegsClean
  <1>3. QED BY <1>1, <1>2 DEF Clean, CleanSeries, ScaleToGross, NaN

LEMMA SpreadStrategiesClean ==
  ASSUME NEW n \in Nat, NEW prices, Clean(prices, n)
  PROVE  /\ Clean(KalmanPairs(prices), n) /\ Clean(KalmanButterfly(prices), n)
         /\ Clean(FixedButterfly(prices), n)
  <1>1. \A s : CleanSeries(s, n) => CleanSeries(RollingZ(s), n)
    BY ColumnClean, RollingClean, RowStatClean, WindowAssumption DEF RollingZ, WindowAssumption
  <1>2. QED BY <1>1, LegsClean, SpreadClean DEF KalmanPairs, KalmanButterfly, FixedButterfly

(* A model has seen nothing after its cut, and its features are clean.     *)
LEMMA FitUpto ==
  ASSUME NEW n \in Nat, NEW factors, factors # {}, \A f \in factors : Clean(f, n),
         NEW prices, Clean(prices, n), NEW cut \in Int
  PROVE  TrainedOn(factors, prices, cut) \subseteq 1..cut
  <1> DEFINE features == FeaturePanel(factors)
             train == Upto(prices, cut)
             labels == ForwardReturns(train, Horizon)
  <1>1. Horizon \in Nat
    BY WindowAssumption DEF WindowAssumption
  <1>2. Clean(features, n)
    BY ScoresClean
  <1>3. /\ DOMAIN train = (1..n) \cap (1..cut)
        /\ \A t \in DOMAIN train : \A i \in Names : train[t][i] \subseteq 1..t
    BY DEF Clean, Upto
  <1> HIDE DEF features, train
  <1>4. /\ DOMAIN labels = DOMAIN train
        /\ \A t \in DOMAIN labels : \A i \in Names : labels[t][i] \subseteq 1..cut
    BY <1>1, <1>3 DEF ForwardReturns, Zip, Shift, NaN
  <1> HIDE DEF labels
  <1>5. TrainingRows(features, labels) \subseteq (1..n) \cap (1..cut)
    BY <1>3, <1>4 DEF TrainingRows
  <1>6. \A t \in TrainingRows(features, labels) : Known(Zip(features, labels), t) \subseteq 1..cut
    <2> SUFFICES ASSUME NEW t \in (1..n) \cap (1..cut), NEW i \in Names
                 PROVE  Zip(features, labels)[t][i] \subseteq 1..cut
      BY <1>5 DEF Known
    <2>1. features[t][i] \subseteq 1..cut /\ labels[t][i] \subseteq 1..cut
      BY <1>2, <1>3, <1>4 DEF Clean
    <2>2. QED BY <2>1, <1>2 DEF Clean, Zip, NaN
  <1>7. TrainedOn(factors, prices, cut) = FitOn(features, labels)
    BY DEF TrainedOn, features, train, labels
  <1>8. QED BY <1>6, <1>7 DEF FitOn

LEMMA ModelCleanAfterCut ==
  ASSUME NEW n \in Nat, NEW factors, factors # {}, \A f \in factors : Clean(f, n),
         NEW prices, Clean(prices, n), NEW cut \in Int, NEW t \in 1..n, cut <= t
  PROVE  Known(ModelStrategy(factors, prices, cut), t) \subseteq 1..t
  <1> DEFINE score == FeaturePanel(factors)
             seen == TrainedOn(factors, prices, cut)
             fit == [r \in DOMAIN score |-> seen]
  <1>1. Clean(score, n) /\ seen \subseteq 1..t
    BY ScoresClean, FitUpto
  <1>2. ModelStrategy(factors, prices, cut) = Column(RowStat(ByRow(score, fit)))
    BY DEF ModelStrategy, LongShortWeights
  <1> HIDE DEF score, seen
  <1>3. \A i \in Names : ByRow(score, fit)[t][i] \subseteq 1..t
    BY <1>1 DEF Clean, ByRow, NaN
  <1>4. t \in DOMAIN ByRow(score, fit)
    BY <1>1 DEF Clean, ByRow
  <1>5. RowStat(ByRow(score, fit))[t] \subseteq 1..t
    BY <1>3, <1>4 DEF RowStat, Known
  <1>6. QED BY <1>2, <1>4, <1>5 DEF Column, RowStat, Known

(* Rows that are fit now and then, and held in between.                    *)
LEMMA HeldClean ==
  ASSUME NEW n \in Nat, NEW fits, DOMAIN fits \subseteq Int,
         \A r \in DOMAIN fits : fits[r] \subseteq 1..r
  PROVE  Clean(Held(fits, 1..n), n)
  BY DEF Clean, Held, HeldFrom

LEMMA RebalancesInside ==
  ASSUME NEW n \in Nat, NEW t \in Rebalances(n)
  PROVE  t \in 1..n /\ EstimationRows(t) \subseteq 1..t
  BY StrategyAssumption DEF StrategyAssumption, Rebalances, EstimationRows

LEMMA BarraClean ==
  ASSUME NEW n \in Nat, NEW k \in Nat, n <= k, NEW prices, DOMAIN prices = 1..n
  PROVE  Clean(BarraMinVar(Market(k), prices, n), n)
  <1> DEFINE m == Sliced(Market(k), n)
             fits == [t \in Rebalances(n) |-> RiskModel(m, StyleExposures(m), EstimationRows(t))]
  <1>1. /\ Clean(Returns(m), n) /\ Clean(CapProxy(m), n)
        /\ \A x \in StyleExposures(m) : Clean(x, n)
    BY MarketClean, ExposuresClean
  <1>2. BarraMinVar(Market(k), prices, n) = Held(fits, 1..n)
    BY DEF BarraMinVar
  <1> HIDE DEF m
  <1>3. ASSUME NEW t \in Rebalances(n)
        PROVE  RiskModel(m, StyleExposures(m), EstimationRows(t)) \subseteq 1..t
    <2>1. t \in 1..n /\ EstimationRows(t) \subseteq 1..t
      BY RebalancesInside
    <2>2. \A r \in EstimationRows(t) :
            /\ Known(Returns(m), r) \subseteq 1..t /\ Known(CapProxy(m), r) \subseteq 1..t
            /\ \A x \in StyleExposures(m) : Known(x, r) \subseteq 1..t
      <3> SUFFICES ASSUME NEW r \in EstimationRows(t)
                   PROVE  /\ Known(Returns(m), r) \subseteq 1..t /\ Known(CapProxy(m), r) \subseteq 1..t
                          /\ \A x \in StyleExposures(m) : Known(x, r) \subseteq 1..t
        OBVIOUS
      <3>1. r \in 1..n /\ 1..r \subseteq 1..t
        BY <2>1
      <3>2. QED BY <3>1, <1>1, KnownClean
    <2>3. CrossSections(m, StyleExposures(m), EstimationRows(t)) \subseteq EstimationRows(t)
      BY DEF CrossSections
    <2>4. QED BY <2>2, <2>3 DEF RiskModel
  <1>4. DOMAIN fits \subseteq Int /\ \A r \in DOMAIN fits : fits[r] \subseteq 1..r
    BY <1>3, RebalancesInside
  <1>5. QED BY <1>2, <1>4, HeldClean

(* What is estimated on rows up to c knows nothing after c.                *)
LEMMA EstimatesUpto ==
  ASSUME NEW c \in Int, NEW w, \A t \in DOMAIN w : \A i \in Names : w[t][i] \subseteq 1..c
  PROVE  /\ Everything(w) \subseteq 1..c /\ LedoitWolf(w) \subseteq 1..c
         /\ \A a \in Allocators : Allocated(a, w) \subseteq 1..c
  <1>1. \A t \in DOMAIN w : Known(w, t) \subseteq 1..c
    BY DEF Known
  <1>2. Everything(w) \subseteq 1..c /\ LedoitWolf(w) \subseteq 1..c
    BY <1>1 DEF Everything, LedoitWolf
  <1>3. /\ Allocated("inverse_vol", w) = Everything(w)
        /\ Allocated("min_variance", w) = LedoitWolf(w)
        /\ Allocated("max_sharpe", w) = Everything(w) \cup LedoitWolf(w)
    BY DEF Allocated, InverseVol, MinVarianceLongOnly, MaxSharpeLongOnly
  <1>4. QED BY <1>2, <1>3 DEF Allocators

LEMMA RollingMinVarClean ==
  ASSUME NEW n \in Nat, NEW prices, Clean(prices, n)
  PROVE  Clean(RollingMinVar(prices, n), n)
  <1> DEFINE returns == PctChange(prices, 1)
             rows(t) == {r \in EstimationRows(t) : Known(returns, r) # NaN}
             window(t) == DropGaps([s \in rows(t) |-> returns[s]])
             fits == [t \in Rebalances(n) |->
                       IF \E i, j \in Columns(window(t)) : i # j
                         THEN MinVarianceLongOnly(window(t)) ELSE NaN]
  <1>1. Clean(returns, n)
    BY PctChangeClean
  <1>2. RollingMinVar(prices, n) = Held(fits, 1..n)
    BY DEF RollingMinVar, Clean
  <1> HIDE DEF returns
  <1>3. ASSUME NEW t \in Rebalances(n) PROVE LedoitWolf(window(t)) \subseteq 1..t
    <2>1. t \in 1..n /\ EstimationRows(t) \subseteq 1..t
      BY RebalancesInside
    <2>2. \A s \in EstimationRows(t) : \A i \in Names : returns[s][i] \subseteq 1..t
      <3> SUFFICES ASSUME NEW s \in EstimationRows(t), NEW i \in Names
                   PROVE  returns[s][i] \subseteq 1..t
        OBVIOUS
      <3>1. s \in 1..n /\ 1..s \subseteq 1..t
        BY <2>1
      <3>2. QED BY <3>1, <1>1 DEF Clean
    <2>3. \A s \in DOMAIN window(t) : \A i \in Names : window(t)[s][i] \subseteq 1..t
      BY <2>2 DEF DropGaps, NaN
    <2> HIDE DEF window, fits
    <2>4. t \in Int
      BY <2>1
    <2>5. QED BY <2>3, <2>4, EstimatesUpto, Zenon
  <1> HIDE DEF window
  <1>4. DOMAIN fits \subseteq Int /\ \A r \in DOMAIN fits : fits[r] \subseteq 1..r
    BY <1>3, RebalancesInside DEF MinVarianceLongOnly, NaN
  <1>5. QED BY <1>2, <1>4, HeldClean

-----------------------------------------------------------------------------
(* The programs that the runs find clean; the others are the findings.     *)
CleanPrograms ==
  Allocators \cup {"demo", "factor", "book", "pairs", "butterfly", "fixed", "model", "barra", "minvar"}

LEMMA FactorsClean ==
  ASSUME NEW n \in Nat, bars \in Nat, n <= bars
  PROVE  /\ Clean(Closes(n), n)
         /\ Factors(Closes(n)) # {} /\ \A f \in Factors(Closes(n)) : Clean(f, n)
  <1>1. Clean(Closes(n), n) /\ DOMAIN Closes(n) = 1..n
    BY ClosesClean DEF Clean
  <1>2. \A f \in PriceFactors(Closes(n)) : Clean(f, n)
    BY <1>1, PriceFactorsClean
  <1>3. \A f \in Alphas(Store, Closes(n)) : Clean(f, n)
    BY <1>1, MarketClean, AlphasClean DEF Store
  <1>4. Factors(Closes(n)) # {}
    BY DEF Factors, PriceFactors
  <1>5. QED BY <1>1, <1>2, <1>3, <1>4 DEF Factors

LEMMA DecidedBefore ==
  ASSUME NEW n \in Nat, NEW w, NEW d \in Int, DOMAIN w = 1..n,
         d - 1 \in 1..n => Known(w, d - 1) \subseteq 1..(d - 1)
  PROVE  DecidedFor(w, d) \subseteq Before(d)
  BY DEF DecidedFor, Before, NaN

LEMMA CleanDecided ==
  ASSUME NEW n \in Nat, NEW w, Clean(w, n), NEW d \in Int
  PROVE  DecidedFor(w, d) \subseteq Before(d)
  BY KnownClean, DecidedBefore DEF Clean

LEMMA WeightsClean ==
  ASSUME NEW n \in Nat, bars \in Nat, n <= bars, program \in CleanPrograms \ Allocators,
         program # "model"
  PROVE  Clean(Weights(n), n)
  <1> DEFINE prices == Closes(n)
  <1>1. /\ Clean(prices, n) /\ DOMAIN prices = 1..n
        /\ Factors(prices) # {} /\ \A f \in Factors(prices) : Clean(f, n)
    BY FactorsClean DEF Clean
  <1>2. CASE program = "demo"
    <2>1. Clean(Momentum(prices), n)
      BY <1>1, PriceFactorsClean DEF PriceFactors
    <2>2. Clean(FactorStrategy({Momentum(prices)}), n)
      BY <2>1, ScoresClean
    <2>3. QED BY <1>2, <2>2 DEF Weights, DemoBook
  <1>3. CASE program = "factor"
    <2>1. Clean(FactorStrategy(Factors(prices)), n)
      BY <1>1, ScoresClean
    <2>2. QED BY <1>3, <2>1 DEF Weights
  <1>4. CASE program = "book"
    <2>1. Clean(Construction(CompositeScore(Factors(prices)), PctChange(prices, 1), TRUE), n)
      BY <1>1, ScoresClean, PctChangeClean, ConstructionClean
    <2>2. QED BY <1>4, <2>1 DEF Weights
  <1>5. CASE program = "pairs"
    BY <1>1, <1>5, SpreadStrategiesClean DEF Weights
  <1>6. CASE program = "butterfly"
    BY <1>1, <1>6, SpreadStrategiesClean DEF Weights
  <1>7. CASE program = "fixed"
    BY <1>1, <1>7, SpreadStrategiesClean DEF Weights
  <1>8. CASE program = "barra"
    <2>1. Clean(BarraMinVar(Store, prices, n), n)
      BY <1>1, BarraClean DEF Store
    <2>2. QED BY <1>8, <2>1 DEF Weights, BarraBook
  <1>9. CASE program = "minvar"
    <2>1. Clean(RollingMinVar(prices, n), n)
      BY <1>1, RollingMinVarClean
    <2>2. QED BY <1>9, <2>1 DEF Weights, BarraBook
  <1>10. QED BY <1>2, <1>3, <1>4, <1>5, <1>6, <1>7, <1>8, <1>9 DEF CleanPrograms

LEMMA WeightsDecide ==
  ASSUME NEW n \in Nat, bars \in Nat, n <= bars, program \in CleanPrograms \ Allocators,
         cfg \in Configs, NEW d \in Int, n - Embargo < d
  PROVE  DecidedFor(Weights(n), d) \subseteq Before(d)
  <1>1. CASE program # "model"
    BY <1>1, WeightsClean, CleanDecided
  <1>2. CASE program = "model"
    <2> DEFINE prices == Closes(n)
               cut == n - Embargo
               w == ModelStrategy(Factors(prices), prices, cut)
    <2>1. cut \in Int
      BY ResearchAssumption DEF ResearchAssumption, Embargo
    <2>2. /\ Clean(prices, n)
          /\ Factors(prices) # {} /\ \A f \in Factors(prices) : Clean(f, n)
      BY FactorsClean
    <2>3. Weights(n) = w
      BY <1>2 DEF Weights
    <2> HIDE DEF cut
    <2>4. DOMAIN w = 1..n
      BY <2>2, ScoresClean DEF ModelStrategy, LongShortWeights, Column, RowStat, ByRow, Clean
    <2>5. d - 1 \in 1..n => Known(w, d - 1) \subseteq 1..(d - 1)
      <3>1. d - 1 \in 1..n => cut <= d - 1
        BY <2>1 DEF cut
      <3>2. QED BY <2>1, <2>2, <3>1, ModelCleanAfterCut
    <2> HIDE DEF w
    <2>6. QED BY <2>3, <2>4, <2>5, DecidedBefore
  <1>3. QED BY <1>1, <1>2

LEMMA FittedUpto ==
  ASSUME NEW n \in Nat, bars \in Nat, n <= bars, cfg \in Configs
  PROVE  FittedOn(n) \subseteq 1..(n - Embargo)
  <1>1. n - Embargo \in Int
    BY ResearchAssumption DEF ResearchAssumption, Embargo
  <1>2. CASE program = "model"
    <2>1. TrainedOn(Factors(Closes(n)), Closes(n), n - Embargo) \subseteq 1..(n - Embargo)
      BY <1>1, FactorsClean, FitUpto
    <2>2. QED BY <1>2, <2>1 DEF FittedOn
  <1>3. QED BY <1>2 DEF FittedOn, NaN

LEMMA DropGapsClean ==
  ASSUME NEW p, \A t \in DOMAIN p : \A i \in Names : p[t][i] \subseteq 1..t
  PROVE  /\ DOMAIN DropGaps(p) = DOMAIN p
         /\ \A t \in DOMAIN p : \A i \in Names : DropGaps(p)[t][i] \subseteq 1..t
  BY DEF DropGaps, NaN

(* The returns of a day know nothing after it.                             *)
LEMMA ReturnsClean ==
  ASSUME NEW n \in Nat, NEW returns,
         returns = DropGaps([t \in 2..n |-> PctChange(DropGaps(Closes(n)), 1)[t]])
  PROVE  /\ DOMAIN returns = 2..n
         /\ \A t \in 2..n : \A i \in Names : returns[t][i] \subseteq 1..t
         /\ \A t \in 2..n : Known(returns, t) \subseteq 1..t
  <1>1. Clean(DropGaps(Closes(n)), n)
    BY ClosesClean DEF Clean, DropGaps, NaN
  <1>2. Clean(PctChange(DropGaps(Closes(n)), 1), n)
    BY <1>1, PctChangeClean
  <1>3. PICK p : p = PctChange(DropGaps(Closes(n)), 1)
    OBVIOUS
  <1>4. \A t \in 2..n : \A i \in Names : p[t][i] \subseteq 1..t
    BY <1>2, <1>3 DEF Clean
  <1>5. returns = DropGaps([t \in 2..n |-> p[t]])
    BY <1>3
  <1>6. PICK q : q = [t \in 2..n |-> p[t]]
    OBVIOUS
  <1>7. DOMAIN q = 2..n /\ \A t \in 2..n : \A i \in Names : q[t][i] \subseteq 1..t
    BY <1>4, <1>6
  <1>8. returns = DropGaps(q)
    BY <1>5, <1>6
  <1>9. DOMAIN returns = 2..n /\ \A t \in 2..n : \A i \in Names : returns[t][i] \subseteq 1..t
    BY <1>7, <1>8, DropGapsClean
  <1>10. QED BY <1>9 DEF Known

LEMMA Least ==
  ASSUME NEW S, S \subseteq Nat, S # {}
  PROVE  \E k \in S : \A j \in S : k <= j
  <1>1. PICK k \in S : \A j \in S : ~(<<j, k>> \in OpToRel(<, Nat))
    BY NatLessThanWellFounded, WFMin
  <1>2. \A j \in S : ~(j < k)
    BY <1>1 DEF OpToRel
  <1>3. QED BY <1>2

-----------------------------------------------------------------------------
Decisions == UNION {[D -> SUBSET Int] : D \in SUBSET Int}

(* A fold decides every date from earlier bars, and was fit before the     *)
(* purge gap of each.                                                      *)
Fold(purge) ==
  {f \in [decided : Decisions, fit : SUBSET Int] :
     \A d \in DOMAIN f.decided :
       f.decided[d] \subseteq Before(d) /\ f.fit \subseteq 1..(d - 1 - purge)}

CleanTrack(track) == \A d \in DOMAIN track : track[d] \subseteq Before(d)

Inv ==
  /\ program \in CleanPrograms /\ cfg \in Configs /\ bars \in Nat /\ pos \in Nat
  /\ folds \in Seq(Fold(cfg.purge))
  /\ CleanTrack(oos)
  /\ program \in Allocators => held \subseteq 1..pos

LEMMA WalkFoldInv == ASSUME Inv, WalkFold PROVE Inv'
  <1>1. PICK end : end = pos + cfg.purge + cfg.test
    OBVIOUS
  <1> DEFINE decided == [d \in TestDates |-> DecidedFor(Weights(end), d)]
             fold == [decided |-> decided, fit |-> FittedOn(end)]
  <1>2. /\ folds' = Append(folds, fold) /\ program \notin Allocators /\ end <= bars
        /\ UNCHANGED <<program, cfg, bars, held, oos>> /\ pos' = pos + cfg.step
    BY <1>1 DEF WalkFold, study
  <1>3. /\ cfg.purge \in Nat /\ cfg.test \in Nat /\ cfg.step \in Nat /\ end \in Nat
        /\ end - Embargo = pos
    BY <1>1, ResearchAssumption DEF Inv, ResearchAssumption, Embargo
  <1>4. \A d \in TestDates : d \in Int /\ pos < d /\ pos <= d - 1 - cfg.purge
    BY <1>3 DEF TestDates, Inv
  <1>5. \A d \in TestDates : DecidedFor(Weights(end), d) \subseteq Before(d)
    BY <1>2, <1>3, <1>4, WeightsDecide DEF Inv
  <1>6. FittedOn(end) \subseteq 1..pos
    BY <1>2, <1>3, FittedUpto DEF Inv
  <1>7. fold \in Fold(cfg.purge)
    <2>1. \A d \in TestDates : FittedOn(end) \subseteq 1..(d - 1 - cfg.purge)
      BY <1>3, <1>4, <1>6 DEF Inv
    <2>2. decided \in [TestDates -> SUBSET Int] /\ TestDates \in SUBSET Int
      BY <1>4, <1>5 DEF Before
    <2>3. decided \in Decisions /\ FittedOn(end) \in SUBSET Int
      BY <2>2, <1>6 DEF Decisions
    <2>4. QED BY <2>1, <2>3, <1>5 DEF Fold
  <1> HIDE DEF fold
  <1>8. folds' \in Seq(Fold(cfg.purge))
    BY <1>2, <1>7 DEF Inv
  <1>9. QED BY <1>2, <1>3, <1>8 DEF Inv, Fold, Before, CleanTrack

LEMMA StitchInv == ASSUME Inv, Stitch PROVE Inv'
  <1>1. UNCHANGED <<program, cfg, bars, pos, folds, held>> /\ oos' = ConcatOos(folds)
    BY DEF Stitch, study
  <1>2. ASSUME NEW d \in DOMAIN ConcatOos(folds) PROVE ConcatOos(folds)[d] \subseteq Before(d)
    <2>1. Covering(folds, d) # {} /\ Covering(folds, d) \subseteq Nat
      BY <1>2 DEF ConcatOos, Covering, Inv
    <2>2. PICK k \in Covering(folds, d) : ConcatOos(folds)[d] = folds[k].decided[d]
      BY <1>2, <2>1, Least DEF ConcatOos
    <2>3. folds[k] \in Fold(cfg.purge) /\ d \in DOMAIN folds[k].decided
      BY DEF Covering, Inv
    <2>4. QED BY <2>2, <2>3 DEF Fold
  <1>3. CleanTrack(oos')
    BY <1>1, <1>2 DEF CleanTrack
  <1>4. QED BY <1>1, <1>3 DEF Inv, Fold, Before, CleanTrack

LEMMA DayInv == ASSUME Inv, Day PROVE Inv'
  <1> DEFINE day == pos + 1
             returns == DropGaps([t \in 2..bars |-> PctChange(DropGaps(Closes(bars)), 1)[t]])
             due == day \in MonthStarts(2..bars) /\ day - EstWindow >= 2
             weights == IF due THEN Allocated(program, TrailingHistory(returns, day)) ELSE held
  <1>1. /\ oos' = IF weights = NaN THEN oos
                  ELSE [d \in DOMAIN oos \cup {day} |-> IF d = day THEN weights ELSE oos[d]]
        /\ held' = IF weights = NaN THEN NaN ELSE weights \cup Known(returns, day)
        /\ pos' = day /\ program \in Allocators /\ pos < bars
        /\ UNCHANGED <<program, cfg, bars, folds>>
    BY DEF Day, study
  <1>2. PICK r : r = returns
    OBVIOUS
  <1>3. /\ DOMAIN r = 2..bars
        /\ \A t \in 2..bars : \A i \in Names : r[t][i] \subseteq 1..t
        /\ \A t \in 2..bars : Known(r, t) \subseteq 1..t
    BY <1>2, ReturnsClean DEF Inv
  <1> HIDE DEF returns
  <1>4. weights \subseteq 1..pos
    <2>1. CASE ~due
      BY <2>1, <1>1 DEF Inv
    <2>2. CASE due
      <3>1. PICK w : w = TrailingHistory(r, day)
        OBVIOUS
      <3>2. \A t \in DOMAIN w : \A i \in Names : w[t][i] \subseteq 1..pos
        BY <2>2, <3>1, <1>1, <1>3, StrategyAssumption
           DEF Inv, TrailingHistory, StrategyAssumption
      <3>3. PICK c \in Int : c = pos
        BY DEF Inv
      <3>4. \A t \in DOMAIN w : \A i \in Names : w[t][i] \subseteq 1..c
        BY <3>2, <3>3
      <3>5. \A a \in Allocators : Allocated(a, w) \subseteq 1..c
        BY <3>4, EstimatesUpto
      <3>6. QED BY <2>2, <3>1, <3>3, <3>5, <1>1, <1>2
    <2>3. QED BY <2>1, <2>2
  <1> HIDE DEF weights
  <1>5. CleanTrack(oos')
    BY <1>1, <1>4 DEF Inv, CleanTrack, Before
  <1>6. held' \subseteq 1..day
    <2>1. weights # NaN => day \in 2..bars
      BY <1>1, <1>4 DEF Inv, NaN
    <2>2. QED BY <2>1, <1>1, <1>2, <1>3, <1>4 DEF Inv, NaN
  <1>7. folds' \in Seq(Fold(cfg.purge)') /\ CleanTrack(oos)'
    BY <1>1, <1>5 DEF Inv, Fold, Before, CleanTrack
  <1>8. pos' \in Nat /\ UNCHANGED <<program, cfg, bars>>
    BY <1>1 DEF Inv
  <1>9. QED BY <1>1, <1>6, <1>7, <1>8 DEF Inv

LEMMA InvStays ==
  ASSUME Programs \subseteq CleanPrograms
  PROVE  Spec => []Inv
  <1>1. Init => Inv
    <2> SUFFICES ASSUME Init PROVE Inv
      OBVIOUS
    <2>1. pos \in Nat /\ bars \in Nat
      BY ResearchAssumption DEF ResearchAssumption, Init
    <2>2. folds \in Seq(Fold(cfg.purge))
      BY DEF Init
    <2>3. CleanTrack(oos)
      BY DEF Init, CleanTrack, Empty
    <2>4. QED BY <2>1, <2>2, <2>3 DEF Init, Inv, NaN
  <1>2. Inv /\ [Next]_vars => Inv'
    <2>1. ASSUME Inv, UNCHANGED vars PROVE Inv'
      BY <2>1 DEF vars, Inv, Fold, Before, CleanTrack
    <2>2. QED BY <2>1, WalkFoldInv, StitchInv, DayInv DEF Next
  <1>3. QED BY <1>1, <1>2, PTL DEF Spec

(* No look-ahead out of sample: with the clean programs, any windows, lags *)
(* and folds, the position that earns a date's return was decided from     *)
(* earlier bars only, in every fold and in the stitched track              *)
(* (walk_forward, concat_oos, the strategy library, the allocator study).  *)
THEOREM NoLookAhead ==
  ASSUME Programs \subseteq CleanPrograms
  PROVE  Spec => []OutOfSampleIsClean
  <1>1. Inv => OutOfSampleIsClean
    <2> SUFFICES ASSUME Inv PROVE OutOfSampleIsClean
      OBVIOUS
    <2>1. \A k \in DOMAIN folds : folds[k] \in Fold(cfg.purge)
      BY DEF Inv
    <2>2. QED BY <2>1 DEF Inv, Fold, CleanTrack, OutOfSampleIsClean
  <1>2. QED BY <1>1, InvStays, PTL

(* A refitted model has seen neither a bar of its test window nor one of   *)
(* the purge gap before it, labels included, whatever the horizon of the   *)
(* labels (ModelStrategy with embargo = test_days + purge_days).           *)
THEOREM PurgeHolds ==
  ASSUME Programs \subseteq CleanPrograms
  PROVE  Spec => []PurgeGapIsUnseen
  <1>1. Inv => PurgeGapIsUnseen
    <2> SUFFICES ASSUME Inv PROVE PurgeGapIsUnseen
      OBVIOUS
    <2>1. \A k \in DOMAIN folds : folds[k] \in Fold(cfg.purge)
      BY DEF Inv
    <2>2. QED BY <2>1 DEF Fold, PurgeGapIsUnseen
  <1>2. QED BY <1>1, InvStays, PTL

-----------------------------------------------------------------------------
(* A longer history restates nothing: a panel made of the first rows is    *)
(* the first rows of the panel made of all.                                *)
Extends(m, n) == m \in Nat /\ n \in Nat /\ m <= n

Begins(p, q, m, n) ==
  /\ Extends(m, n) /\ DOMAIN p = 1..m /\ DOMAIN q = 1..n
  /\ \A t \in 1..m : \A i \in Names : p[t][i] = q[t][i]

SeriesBegins(s, r, m, n) ==
  /\ Extends(m, n) /\ DOMAIN s = 1..m /\ DOMAIN r = 1..n
  /\ \A t \in 1..m : s[t] = r[t]

LEMMA EarlierRows ==
  ASSUME NEW m, NEW n, Extends(m, n), NEW t \in 1..m
  PROVE  t \in 1..n /\ \A s \in Int : s <= t => (s \in 1..m <=> s \in 1..n)
  BY DEF Extends

LEMMA ClosesBegin ==
  ASSUME NEW m, NEW n, Extends(m, n)
  PROVE  Begins(Closes(m), Closes(n), m, n)
  <1>1. DOMAIN Closes(m) = 1..m /\ DOMAIN Closes(n) = 1..n
    BY DEF Closes
  <1>2. ASSUME NEW t \in 1..m, NEW i \in Names PROVE Closes(m)[t][i] = Closes(n)[t][i]
    BY EarlierRows DEF Closes
  <1>3. QED BY <1>1, <1>2 DEF Begins

LEMMA ZipBegins ==
  ASSUME NEW m, NEW n, NEW p, NEW q, NEW r, NEW s, Begins(p, q, m, n), Begins(r, s, m, n)
  PROVE  Begins(Zip(p, r), Zip(q, s), m, n)
  <1>1. DOMAIN Zip(p, r) = 1..m /\ DOMAIN Zip(q, s) = 1..n
    BY DEF Zip, Begins
  <1>2. ASSUME NEW t \in 1..m, NEW i \in Names PROVE Zip(p, r)[t][i] = Zip(q, s)[t][i]
    <2>1. t \in 1..n
      BY EarlierRows DEF Begins
    <2>2. QED BY <2>1 DEF Begins, Zip
  <1>3. QED BY <1>1, <1>2 DEF Begins

LEMMA ShiftBegins ==
  ASSUME NEW m, NEW n, NEW p, NEW q, Begins(p, q, m, n), NEW d \in Nat
  PROVE  Begins(Shift(p, d), Shift(q, d), m, n)
  <1>1. DOMAIN Shift(p, d) = 1..m /\ DOMAIN Shift(q, d) = 1..n
    BY DEF Shift, Begins
  <1>2. ASSUME NEW t \in 1..m, NEW i \in Names PROVE Shift(p, d)[t][i] = Shift(q, d)[t][i]
    <2>1. t \in 1..n /\ (t - d \in 1..m <=> t - d \in 1..n)
      BY EarlierRows DEF Begins
    <2>2. Shift(p, d)[t][i] = IF t - d \in 1..m THEN p[t - d][i] ELSE NaN
      BY DEF Begins, Shift
    <2>3. Shift(q, d)[t][i] = IF t - d \in 1..n THEN q[t - d][i] ELSE NaN
      BY <2>1 DEF Begins, Shift
    <2>4. QED BY <2>1, <2>2, <2>3 DEF Begins
  <1>3. QED BY <1>1, <1>2 DEF Begins

LEMMA RollingBegins ==
  ASSUME NEW m, NEW n, NEW p, NEW q, Begins(p, q, m, n), NEW d \in Nat
  PROVE  Begins(Rolling(p, d), Rolling(q, d), m, n)
  <1>1. DOMAIN Rolling(p, d) = 1..m /\ DOMAIN Rolling(q, d) = 1..n
    BY DEF Rolling, Begins
  <1>2. ASSUME NEW t \in 1..m, NEW i \in Names PROVE Rolling(p, d)[t][i] = Rolling(q, d)[t][i]
    <2> DEFINE rows == (t - d + 1)..t
               full(x) == \A s \in rows : s \in DOMAIN x /\ x[s][i] # NaN
    <2>1. t \in 1..n /\ \A s \in rows : /\ s \in DOMAIN p <=> s \in DOMAIN q
                                        /\ s \in DOMAIN p => p[s][i] = q[s][i]
      BY EarlierRows DEF Begins
    <2>2. Rolling(p, d)[t][i] = IF full(p) THEN UNION {p[s][i] : s \in rows} ELSE NaN
      BY DEF Begins, Rolling
    <2>3. Rolling(q, d)[t][i] = IF full(q) THEN UNION {q[s][i] : s \in rows} ELSE NaN
      BY <2>1 DEF Begins, Rolling
    <2> HIDE DEF rows
    <2>4. full(p) <=> full(q)
      BY <2>1
    <2>5. full(p) => UNION {p[s][i] : s \in rows} = UNION {q[s][i] : s \in rows}
      <3>1. full(p) => {p[s][i] : s \in rows} = {q[s][i] : s \in rows}
        BY <2>1
      <3>2. QED BY <3>1
    <2>6. QED BY <2>2, <2>3, <2>4, <2>5
  <1>3. QED BY <1>1, <1>2 DEF Begins

LEMMA KnownAlike ==
  ASSUME NEW p, NEW q, NEW t, NEW u, \A i \in Names : p[t][i] = q[u][i]
  PROVE  Known(p, t) = Known(q, u)
  <1>1. {p[t][i] : i \in Names} = {q[u][i] : i \in Names}
    OBVIOUS
  <1>2. QED BY <1>1 DEF Known

LEMMA RowStatBegins ==
  ASSUME NEW m, NEW n, NEW p, NEW q, Begins(p, q, m, n)
  PROVE  SeriesBegins(RowStat(p), RowStat(q), m, n)
  <1>1. DOMAIN RowStat(p) = 1..m /\ DOMAIN RowStat(q) = 1..n
    BY DEF RowStat, Begins
  <1>2. ASSUME NEW t \in 1..m PROVE RowStat(p)[t] = RowStat(q)[t]
    <2>1. Known(p, t) = Known(q, t)
      <3>1. \A i \in Names : p[t][i] = q[t][i]
        BY DEF Begins
      <3>2. QED BY <3>1, KnownAlike
    <2>2. t \in 1..n
      BY EarlierRows DEF Begins
    <2>3. QED BY <2>1, <2>2 DEF RowStat, Begins
  <1>3. QED BY <1>1, <1>2 DEF Begins, SeriesBegins

LEMMA ColumnBegins ==
  ASSUME NEW m, NEW n, NEW r, NEW s, SeriesBegins(r, s, m, n)
  PROVE  Begins(Column(r), Column(s), m, n)
  <1>1. DOMAIN Column(r) = 1..m /\ DOMAIN Column(s) = 1..n
    BY DEF Column, SeriesBegins
  <1>2. ASSUME NEW t \in 1..m, NEW i \in Names PROVE Column(r)[t][i] = Column(s)[t][i]
    BY EarlierRows DEF Column, SeriesBegins
  <1>3. QED BY <1>1, <1>2 DEF Begins, SeriesBegins

LEMMA ByRowBegins ==
  ASSUME NEW m, NEW n, NEW p, NEW q, NEW r, NEW s,
         Begins(p, q, m, n), SeriesBegins(r, s, m, n)
  PROVE  Begins(ByRow(p, r), ByRow(q, s), m, n)
  <1>1. DOMAIN ByRow(p, r) = 1..m /\ DOMAIN ByRow(q, s) = 1..n
    BY DEF ByRow, Begins
  <1>2. ASSUME NEW t \in 1..m, NEW i \in Names PROVE ByRow(p, r)[t][i] = ByRow(q, s)[t][i]
    <2>1. t \in 1..n
      BY EarlierRows DEF Begins
    <2>2. QED BY <2>1 DEF Begins, SeriesBegins, ByRow
  <1>3. QED BY <1>1, <1>2 DEF Begins

LEMMA FilledBegins ==
  ASSUME NEW m, NEW n, NEW r, NEW s, SeriesBegins(r, s, m, n)
  PROVE  SeriesBegins(Filled(r), Filled(s), m, n)
  <1>1. DOMAIN Filled(r) = 1..m /\ DOMAIN Filled(s) = 1..n
    BY DEF Filled, SeriesBegins
  <1>2. ASSUME NEW t \in 1..m PROVE Filled(r)[t] = Filled(s)[t]
    BY EarlierRows DEF Filled, SeriesBegins
  <1>3. QED BY <1>1, <1>2 DEF SeriesBegins

LEMMA RunningBegins ==
  ASSUME NEW m, NEW n, NEW p, NEW q, Begins(p, q, m, n)
  PROVE  Begins(Running(p), Running(q), m, n)
  <1>1. DOMAIN Running(p) = 1..m /\ DOMAIN Running(q) = 1..n
    BY DEF Running, Begins
  <1>2. ASSUME NEW t \in 1..m, NEW i \in Names PROVE Running(p)[t][i] = Running(q)[t][i]
    <2>1. t \in 1..n
      BY EarlierRows DEF Begins
    <2>2. {r \in DOMAIN p : r <= t} = {r \in DOMAIN q : r <= t}
      BY EarlierRows DEF Begins, Extends
    <2>3. {p[s][i] : s \in {r \in DOMAIN p : r <= t}} = {q[s][i] : s \in {r \in DOMAIN q : r <= t}}
      BY <2>2 DEF Begins
    <2>4. QED BY <2>1, <2>3 DEF Running, Begins
  <1>3. QED BY <1>1, <1>2 DEF Begins

LEMMA RankBegins ==
  ASSUME NEW m, NEW n, NEW p, NEW q, Begins(p, q, m, n)
  PROVE  Begins(Rank(p), Rank(q), m, n)
  <1>1. DOMAIN Rank(p) = 1..m /\ DOMAIN Rank(q) = 1..n
    BY DEF Rank, Begins
  <1>2. ASSUME NEW t \in 1..m, NEW i \in Names PROVE Rank(p)[t][i] = Rank(q)[t][i]
    <2>1. Known(p, t) = Known(q, t)
      <3>1. \A j \in Names : p[t][j] = q[t][j]
        BY DEF Begins
      <3>2. QED BY <3>1, KnownAlike
    <2>2. t \in 1..n
      BY EarlierRows DEF Begins
    <2>3. QED BY <2>1, <2>2 DEF Rank, Begins
  <1>3. QED BY <1>1, <1>2 DEF Begins

LEMMA NeutralizeBegins ==
  ASSUME NEW m, NEW n, NEW p, NEW q, Begins(p, q, m, n), NEW g
  PROVE  Begins(Neutralize(p, g), Neutralize(q, g), m, n)
  <1>1. DOMAIN Neutralize(p, g) = 1..m /\ DOMAIN Neutralize(q, g) = 1..n
    BY DEF Neutralize, Begins
  <1>2. ASSUME NEW t \in 1..m, NEW i \in Names PROVE Neutralize(p, g)[t][i] = Neutralize(q, g)[t][i]
    <2> DEFINE peers == {k \in Names : g[k] = g[i]}
    <2>1. {p[t][j] : j \in peers} = {q[t][j] : j \in peers}
      BY DEF Begins
    <2>2. t \in 1..n
      BY EarlierRows DEF Begins
    <2>3. QED BY <2>1, <2>2 DEF Neutralize, Begins
  <1>3. QED BY <1>1, <1>2 DEF Begins

LEMMA PctChangeBegins ==
  ASSUME NEW m, NEW n, NEW p, NEW q, Begins(p, q, m, n), NEW d \in Nat
  PROVE  Begins(PctChange(p, d), PctChange(q, d), m, n)
  BY ShiftBegins, ZipBegins DEF PctChange

(* Sets of panels, each the beginning of one of the other set.             *)
AllBegin(P, Q, m, n) ==
  /\ P # {} /\ Q # {}
  /\ \A p \in P : \E q \in Q : Begins(p, q, m, n)
  /\ \A q \in Q : \E p \in P : Begins(p, q, m, n)

LEMMA CombineBegins ==
  ASSUME NEW m, NEW n, NEW P, NEW Q, AllBegin(P, Q, m, n)
  PROVE  Begins(Combine(P), Combine(Q), m, n)
  <1>1. Extends(m, n) /\ \A p \in P : DOMAIN p = 1..m /\ \A q \in Q : DOMAIN q = 1..n
    BY DEF AllBegin, Begins
  <1>2. UNION {DOMAIN p : p \in P} = 1..m /\ UNION {DOMAIN q : q \in Q} = 1..n
    BY <1>1 DEF AllBegin
  <1>3. DOMAIN Combine(P) = 1..m /\ DOMAIN Combine(Q) = 1..n
    BY <1>2 DEF Combine
  <1>4. ASSUME NEW t \in 1..m, NEW i \in Names PROVE Combine(P)[t][i] = Combine(Q)[t][i]
    <2>1. t \in 1..n
      BY <1>1, EarlierRows
    <2>2. Combine(P)[t][i] = UNION {p[t][i] : p \in P} /\ Combine(Q)[t][i] = UNION {q[t][i] : q \in Q}
      BY <1>2, <2>1 DEF Combine
    <2>3. {p[t][i] : p \in P} = {q[t][i] : q \in Q}
      <3>1. ASSUME NEW p \in P PROVE p[t][i] \in {q[t][i] : q \in Q}
        BY DEF AllBegin, Begins
      <3>2. ASSUME NEW q \in Q PROVE q[t][i] \in {p[t][i] : p \in P}
        BY DEF AllBegin, Begins
      <3>3. QED BY <3>1, <3>2
    <2>4. QED BY <2>2, <2>3
  <1>5. QED BY <1>1, <1>3, <1>4 DEF Begins

-----------------------------------------------------------------------------
(* Factors and the strategies built on their scores.                       *)
LEMMA PriceFactorsBegin ==
  ASSUME NEW m, NEW n, NEW p, NEW q, Begins(p, q, m, n)
  PROVE  /\ Begins(Momentum(p), Momentum(q), m, n)
         /\ Begins(Volatility(p), Volatility(q), m, n)
         /\ Begins(Reversal(p), Reversal(q), m, n)
  <1> USE WindowAssumption DEF WindowAssumption
  <1>1. Begins(Momentum(p), Momentum(q), m, n)
    BY ShiftBegins, ZipBegins DEF Momentum
  <1>2. Begins(Volatility(p), Volatility(q), m, n)
    BY PctChangeBegins, RollingBegins DEF Volatility
  <1>3. Begins(Reversal(p), Reversal(q), m, n)
    BY PctChangeBegins DEF Reversal
  <1>4. QED BY <1>1, <1>2, <1>3

LEMMA RowsBegin ==
  ASSUME NEW m, NEW n, Extends(m, n), NEW a
  PROVE  Begins([t \in 1..m |-> a[t]], [t \in 1..n |-> a[t]], m, n)
  BY EarlierRows DEF Begins

LEMMA FactorsBegin ==
  ASSUME NEW m, NEW n, Extends(m, n)
  PROVE  AllBegin(Factors(Closes(m)), Factors(Closes(n)), m, n)
  <1> DEFINE shown(k) == Alphas(Store, Closes(k))
             read == {Alpha101(Store), Alpha006(Store), Alpha012(Store), Alpha041(Store),
                      Alpha054(Store), Alpha004(Store), Alpha013(Store), Alpha033(Store)}
  <1>1. \A k : shown(k) = {[t \in 1..k |-> a[t]] : a \in read}
    BY DEF Alphas, Closes
  <1> HIDE DEF read
  <1>2. \A a \in read : Begins([t \in 1..m |-> a[t]], [t \in 1..n |-> a[t]], m, n)
    BY RowsBegin
  <1>3. /\ \A p \in shown(m) : \E q \in shown(n) : Begins(p, q, m, n)
        /\ \A q \in shown(n) : \E p \in shown(m) : Begins(p, q, m, n)
    <2>1. ASSUME NEW p \in shown(m) PROVE \E q \in shown(n) : Begins(p, q, m, n)
      <3>1. PICK a \in read : p = [t \in 1..m |-> a[t]]
        BY <1>1
      <3>2. [t \in 1..n |-> a[t]] \in shown(n)
        BY <1>1
      <3>3. QED BY <3>1, <3>2, <1>2
    <2>2. ASSUME NEW q \in shown(n) PROVE \E p \in shown(m) : Begins(p, q, m, n)
      <3>1. PICK a \in read : q = [t \in 1..n |-> a[t]]
        BY <1>1
      <3>2. [t \in 1..m |-> a[t]] \in shown(m)
        BY <1>1
      <3>3. QED BY <3>1, <3>2, <1>2
    <2>3. QED BY <2>1, <2>2
  <1> HIDE DEF shown
  <1>4. Begins(Closes(m), Closes(n), m, n)
    BY ClosesBegin
  <1>5. /\ \A p \in PriceFactors(Closes(m)) : \E q \in PriceFactors(Closes(n)) : Begins(p, q, m, n)
        /\ \A q \in PriceFactors(Closes(n)) : \E p \in PriceFactors(Closes(m)) : Begins(p, q, m, n)
    BY <1>4, PriceFactorsBegin DEF PriceFactors
  <1>6. \A k : Factors(Closes(k)) = PriceFactors(Closes(k)) \cup shown(k)
    BY DEF Factors, shown
  <1>7. \A k : PriceFactors(Closes(k)) # {}
    BY DEF PriceFactors
  <1>8. QED BY <1>3, <1>5, <1>6, <1>7 DEF AllBegin

LEMMA ScoresBegin ==
  ASSUME NEW m, NEW n, NEW P, NEW Q, AllBegin(P, Q, m, n)
  PROVE  /\ Begins(CompositeScore(P), CompositeScore(Q), m, n)
         /\ Begins(FactorStrategy(P), FactorStrategy(Q), m, n)
  <1> DEFINE clean(f) == Neutralize(ZScore(Winsorize(f)), Groups)
  <1>1. \A p, q : Begins(p, q, m, n) => Begins(clean(p), clean(q), m, n)
    BY RankBegins, NeutralizeBegins DEF ZScore, Winsorize
  <1>2. Hygiene(P) = {clean(f) : f \in P} /\ Hygiene(Q) = {clean(f) : f \in Q}
    BY DEF Hygiene
  <1> HIDE DEF clean
  <1>3. AllBegin(Hygiene(P), Hygiene(Q), m, n)
    BY <1>1, <1>2 DEF AllBegin
  <1>4. QED BY <1>3, CombineBegins, RowStatBegins, ColumnBegins
            DEF CompositeScore, FactorStrategy, LongShortWeights

LEMMA ConstructionBegins ==
  ASSUME NEW m, NEW n, NEW p, NEW q, NEW r, NEW s, NEW smooth \in BOOLEAN,
         Begins(p, q, m, n), Begins(r, s, m, n)
  PROVE  Begins(Construction(p, r, smooth), Construction(q, s, smooth), m, n)
  <1> USE WindowAssumption DEF WindowAssumption
  <1> DEFINE earned(x, y) == Filled(RowStat(Zip(Shift(Book(x, smooth), 1), y)))
  <1>1. Begins(Book(p, smooth), Book(q, smooth), m, n)
    BY RankBegins, RunningBegins DEF Book
  <1>2. SeriesBegins(earned(p, r), earned(q, s), m, n)
    BY <1>1, ShiftBegins, ZipBegins, RowStatBegins, FilledBegins
  <1>3. \A x, y : Construction(x, y, smooth) =
                    Zip(Book(x, smooth), Shift(Rolling(Column(earned(x, y)), Window), 1))
    BY DEF Construction
  <1> HIDE DEF earned
  <1>4. Begins(Shift(Rolling(Column(earned(p, r)), Window), 1),
               Shift(Rolling(Column(earned(q, s)), Window), 1), m, n)
    BY <1>2, ColumnBegins, RollingBegins, ShiftBegins
  <1>5. QED BY <1>1, <1>3, <1>4, ZipBegins

-----------------------------------------------------------------------------
(* Spread strategies.                                                      *)
LEMMA LegsAlike ==
  ASSUME NEW m, NEW n, NEW p, NEW q, Begins(p, q, m, n), NEW t \in 1..m
  PROVE  LegsAt(p, t) = LegsAt(q, t)
  <1>1. {p[t][i] : i \in Legs} = {q[t][i] : i \in Legs}
    BY StrategyAssumption DEF StrategyAssumption, Begins
  <1>2. QED BY <1>1 DEF LegsAt

LEMMA LegsBegin ==
  ASSUME NEW m, NEW n, NEW p, NEW q, Begins(p, q, m, n)
  PROVE  /\ SeriesBegins([t \in DOMAIN p |-> LegsAt(p, t)], [t \in DOMAIN q |-> LegsAt(q, t)], m, n)
         /\ SeriesBegins(KalmanRegression(p), KalmanRegression(q), m, n)
  <1>1. Legs \subseteq Names
    BY StrategyAssumption DEF StrategyAssumption
  <1>2. \A t \in 1..m : LegsAt(p, t) = LegsAt(q, t)
    BY LegsAlike
  <1>3. \A t \in 1..m : t \in 1..n /\ (t \in Aligned(p) <=> t \in Aligned(q))
    BY <1>1, EarlierRows DEF Aligned, Begins
  <1>4. SeriesBegins([t \in DOMAIN p |-> LegsAt(p, t)], [t \in DOMAIN q |-> LegsAt(q, t)], m, n)
    BY <1>2, <1>3 DEF Begins, SeriesBegins
  <1>5. ASSUME NEW t \in 1..m PROVE KalmanRegression(p)[t] = KalmanRegression(q)[t]
    <2>1. {r \in Aligned(p) : r <= t} = {r \in Aligned(q) : r <= t}
      <3>1. Aligned(p) \subseteq 1..m /\ Aligned(q) \subseteq 1..n
        BY DEF Aligned, Begins
      <3>2. \A r \in 1..n : r <= t => r \in 1..m
        BY EarlierRows DEF Begins
      <3>3. QED BY <1>3, <3>1, <3>2
    <2>2. {r \in Aligned(p) : r <= t} \subseteq 1..m
      BY DEF Aligned, Begins
    <2>3. {LegsAt(p, s) : s \in {r \in Aligned(p) : r <= t}}
            = {LegsAt(q, s) : s \in {r \in Aligned(q) : r <= t}}
      BY <1>2, <2>1, <2>2
    <2>4. QED BY <1>3, <2>3 DEF KalmanRegression, Begins
  <1>6. DOMAIN KalmanRegression(p) = 1..m /\ DOMAIN KalmanRegression(q) = 1..n
    BY DEF KalmanRegression, Begins
  <1>7. QED BY <1>4, <1>5, <1>6 DEF Begins, SeriesBegins

LEMMA HysteresisBegins ==
  ASSUME NEW m, NEW n, NEW y, NEW z, SeriesBegins(y, z, m, n), NEW warmup
  PROVE  SeriesBegins(HysteresisPositions(y, warmup), HysteresisPositions(z, warmup), m, n)
  <1>1. DOMAIN HysteresisPositions(y, warmup) = 1..m /\ DOMAIN HysteresisPositions(z, warmup) = 1..n
    BY DEF HysteresisPositions, SeriesBegins
  <1>2. ASSUME NEW t \in 1..m
        PROVE  HysteresisPositions(y, warmup)[t] = HysteresisPositions(z, warmup)[t]
    <2> DEFINE since(x) == {r \in DOMAIN x : warmup < r /\ r <= t}
    <2>1. t \in 1..n /\ since(y) = since(z) /\ since(y) \subseteq 1..m
      BY EarlierRows DEF SeriesBegins, Extends
    <2>2. {y[s] : s \in since(y)} = {z[s] : s \in since(z)}
      BY <2>1 DEF SeriesBegins
    <2>3. QED BY <2>1, <2>2 DEF HysteresisPositions, SeriesBegins
  <1>3. QED BY <1>1, <1>2 DEF SeriesBegins

LEMMA ScaleBegins ==
  ASSUME NEW m, NEW n, NEW p, NEW q, NEW y, NEW z, NEW g, NEW h,
         Begins(p, q, m, n), SeriesBegins(y, z, m, n), SeriesBegins(g, h, m, n)
  PROVE  Begins(ScaleToGross(y, g, p), ScaleToGross(z, h, q), m, n)
  <1>0. \A t \in 1..m : LegsAt(p, t) = LegsAt(q, t)
    BY LegsAlike
  <1>1. DOMAIN ScaleToGross(y, g, p) = 1..m /\ DOMAIN ScaleToGross(z, h, q) = 1..n
    BY DEF ScaleToGross, Begins
  <1>2. ASSUME NEW t \in 1..m, NEW i \in Names
        PROVE  ScaleToGross(y, g, p)[t][i] = ScaleToGross(z, h, q)[t][i]
    <2>1. t \in 1..n /\ LegsAt(p, t) = LegsAt(q, t) /\ y[t] = z[t] /\ g[t] = h[t]
      BY <1>0, EarlierRows DEF Begins, SeriesBegins
    <2>2. QED BY <2>1 DEF ScaleToGross, Begins
  <1>3. QED BY <1>1, <1>2 DEF Begins

LEMMA SpreadStrategiesBegin ==
  ASSUME NEW m, NEW n, NEW p, NEW q, Begins(p, q, m, n)
  PROVE  /\ Begins(KalmanPairs(p), KalmanPairs(q), m, n)
         /\ Begins(KalmanButterfly(p), KalmanButterfly(q), m, n)
         /\ Begins(FixedButterfly(p), FixedButterfly(q), m, n)
  <1>1. ASSUME NEW y, NEW z, SeriesBegins(y, z, m, n)
        PROVE  SeriesBegins(RollingZ(y), RollingZ(z), m, n)
    BY <1>1, ColumnBegins, RollingBegins, RowStatBegins, WindowAssumption
       DEF RollingZ, WindowAssumption
  <1>2. SeriesBegins(KalmanRegression(p), KalmanRegression(q), m, n)
    BY LegsBegin
  <1>3. SeriesBegins([t \in DOMAIN p |-> LegsAt(p, t)], [t \in DOMAIN q |-> LegsAt(q, t)], m, n)
    BY LegsBegin
  <1>4. Begins(KalmanPairs(p), KalmanPairs(q), m, n)
    BY <1>2, HysteresisBegins, ScaleBegins DEF KalmanPairs
  <1>5. Begins(KalmanButterfly(p), KalmanButterfly(q), m, n)
    BY <1>1, <1>2, HysteresisBegins, ScaleBegins DEF KalmanButterfly
  <1>6. Begins(FixedButterfly(p), FixedButterfly(q), m, n)
    BY <1>1, <1>3, HysteresisBegins, ScaleBegins DEF FixedButterfly
  <1>7. QED BY <1>4, <1>5, <1>6

-----------------------------------------------------------------------------
(* Books that are fit now and then: the rebalances of a short history are  *)
(* those of the long one that fall into it.                                *)
LEMMA RebalancesBegin ==
  ASSUME NEW m, NEW n, Extends(m, n)
  PROVE  /\ Rebalances(m) \subseteq 1..m
         /\ \A t \in 1..m : t \in Rebalances(m) <=> t \in Rebalances(n)
         /\ \A t \in Rebalances(n) : t <= m => t \in Rebalances(m)
  BY StrategyAssumption DEF StrategyAssumption, Rebalances, Extends

LEMMA HeldBegins ==
  ASSUME NEW m, NEW n, Extends(m, n), NEW f, NEW g,
         DOMAIN f = Rebalances(m), DOMAIN g = Rebalances(n),
         \A t \in Rebalances(m) : f[t] = g[t]
  PROVE  Begins(Held(f, 1..m), Held(g, 1..n), m, n)
  <1>1. DOMAIN Held(f, 1..m) = 1..m /\ DOMAIN Held(g, 1..n) = 1..n
    BY DEF Held
  <1>2. ASSUME NEW t \in 1..m, NEW i \in Names PROVE Held(f, 1..m)[t][i] = Held(g, 1..n)[t][i]
    <2> DEFINE latest(x) == {s \in HeldFrom(x, t) : \A r \in HeldFrom(x, t) : r <= s}
    <2>1. HeldFrom(f, t) = HeldFrom(g, t)
      <3>1. \A r \in Rebalances(n) : r <= t => r <= m
        BY DEF Rebalances, Extends
      <3>2. \A r \in Rebalances(m) : r \in Rebalances(n)
        BY RebalancesBegin
      <3>3. QED BY <3>1, <3>2, RebalancesBegin DEF HeldFrom
    <2>2. latest(f) = latest(g) /\ latest(f) \subseteq Rebalances(m)
      BY <2>1 DEF HeldFrom
    <2>3. {f[r] : r \in latest(f)} = {g[r] : r \in latest(g)}
      BY <2>2
    <2>4. t \in 1..n
      BY EarlierRows
    <2>5. Held(f, 1..m)[t][i] = UNION {f[r] : r \in latest(f)}
      BY DEF Held
    <2>6. Held(g, 1..n)[t][i] = UNION {g[r] : r \in latest(g)}
      BY <2>4 DEF Held
    <2>7. QED BY <2>3, <2>5, <2>6
  <1>3. QED BY <1>1, <1>2 DEF Begins

LEMMA SlicedBegins ==
  ASSUME NEW m, NEW n, Extends(m, n), NEW k \in Nat, n <= k
  PROVE  \A f \in Fields : Begins(Sliced(Market(k), m)[f], Sliced(Market(k), n)[f], m, n)
  <1>1. \A f \in Fields : /\ Sliced(Market(k), m)[f] = [t \in 1..m |-> Closes(k)[t]]
                          /\ Sliced(Market(k), n)[f] = [t \in 1..n |-> Closes(k)[t]]
    <2>1. DOMAIN Closes(k) \cap (1..m) = 1..m /\ DOMAIN Closes(k) \cap (1..n) = 1..n
      BY DEF Closes, Extends
    <2>2. QED BY <2>1 DEF Sliced, Market, Upto
  <1>2. Begins([t \in 1..m |-> Closes(k)[t]], [t \in 1..n |-> Closes(k)[t]], m, n)
    BY RowsBegin
  <1>3. QED BY <1>1, <1>2

LEMMA ExposuresBegin ==
  ASSUME NEW m, NEW n, NEW a, NEW b, \A f \in Fields : Begins(a[f], b[f], m, n)
  PROVE  /\ Begins(Returns(a), Returns(b), m, n) /\ Begins(CapProxy(a), CapProxy(b), m, n)
         /\ AllBegin(StyleExposures(a), StyleExposures(b), m, n)
  <1> USE WindowAssumption DEF WindowAssumption
  <1>1. Begins(a.close, b.close, m, n) /\ Begins(a.volume, b.volume, m, n)
    BY DEF Fields
  <1>2. Begins(Returns(a), Returns(b), m, n)
    BY <1>1, PctChangeBegins DEF Returns
  <1>3. Begins(CapProxy(a), CapProxy(b), m, n)
    BY <1>1, ZipBegins, RollingBegins DEF CapProxy, Adv
  <1> DEFINE market(x) == RowStat(Returns(x))
             beta(x) == RollingBeta(Returns(x), market(x))
             risk(x) == Rolling(Residual(Returns(x), market(x)), Window)
             past(x) == PctChange(x.close, Window)
  <1>4. SeriesBegins(market(a), market(b), m, n)
    BY <1>2, RowStatBegins
  <1> HIDE DEF market
  <1>5. Begins(beta(a), beta(b), m, n)
    <2>1. Begins(ByRow(Returns(a), market(a)), ByRow(Returns(b), market(b)), m, n)
      BY <1>2, <1>4, ByRowBegins
    <2>2. Begins(Rolling(Column(market(a)), Window), Rolling(Column(market(b)), Window), m, n)
      BY <1>4, ColumnBegins, RollingBegins
    <2>3. QED BY <1>2, <2>1, <2>2, RollingBegins, ZipBegins DEF RollingBeta
  <1> HIDE DEF beta
  <1>6. Begins(risk(a), risk(b), m, n)
    <2>1. \A x : Residual(Returns(x), market(x)) = Zip(Returns(x), ByRow(beta(x), market(x)))
      BY DEF Residual, beta
    <2>2. QED BY <1>2, <1>4, <1>5, <2>1, ByRowBegins, ZipBegins, RollingBegins
  <1>7. Begins(Momentum(a.close), Momentum(b.close), m, n) /\ Begins(past(a), past(b), m, n)
    BY <1>1, PriceFactorsBegin, PctChangeBegins
  <1> HIDE DEF risk, past
  <1> DEFINE raw(x) == {CapProxy(x), beta(x), Momentum(x.close), risk(x), past(x)}
  <1>8. AllBegin(raw(a), raw(b), m, n)
    BY <1>3, <1>5, <1>6, <1>7 DEF AllBegin
  <1>9. \A x : StyleExposures(x) = {Standardize(p) : p \in raw(x)}
    BY DEF StyleExposures, market, beta, risk, past
  <1>10. \A p, q : Begins(p, q, m, n) => Begins(Standardize(p), Standardize(q), m, n)
    BY RankBegins DEF Standardize, ZScore, Winsorize
  <1> HIDE DEF raw
  <1>11. AllBegin(StyleExposures(a), StyleExposures(b), m, n)
    <2>1. /\ {Standardize(p) : p \in raw(a)} # {} /\ {Standardize(q) : q \in raw(b)} # {}
          /\ \A p \in raw(a) : \E q \in raw(b) : Begins(Standardize(p), Standardize(q), m, n)
          /\ \A q \in raw(b) : \E p \in raw(a) : Begins(Standardize(p), Standardize(q), m, n)
      BY <1>8, <1>10 DEF AllBegin
    <2>2. QED BY <1>9, <2>1 DEF AllBegin
  <1>12. QED BY <1>2, <1>3, <1>11

LEMMA RiskModelAlike ==
  ASSUME NEW m, NEW n, NEW a, NEW b, \A f \in Fields : Begins(a[f], b[f], m, n),
         NEW rows, rows \subseteq 1..m
  PROVE  RiskModel(a, StyleExposures(a), rows) = RiskModel(b, StyleExposures(b), rows)
  <1> DEFINE X == StyleExposures(a)
             Y == StyleExposures(b)
  <1>1. Begins(Returns(a), Returns(b), m, n) /\ Begins(CapProxy(a), CapProxy(b), m, n) /\ AllBegin(X, Y, m, n)
    BY ExposuresBegin
  <1> HIDE DEF X, Y
  <1>2. ASSUME NEW t \in rows, NEW i \in Names
        PROVE  /\ Returns(a)[t][i] = Returns(b)[t][i] /\ CapProxy(a)[t][i] = CapProxy(b)[t][i]
               /\ (\A x \in X : x[t][i] # NaN) <=> (\A y \in Y : y[t][i] # NaN)
    <2>1. t \in 1..m
      OBVIOUS
    <2>2. Returns(a)[t][i] = Returns(b)[t][i] /\ CapProxy(a)[t][i] = CapProxy(b)[t][i]
      BY <1>1, <2>1 DEF Begins
    <2>3. /\ \A x \in X : \E y \in Y : x[t][i] = y[t][i]
          /\ \A y \in Y : \E x \in X : x[t][i] = y[t][i]
      BY <1>1, <2>1 DEF AllBegin, Begins
    <2>4. QED BY <2>2, <2>3
  <1>3. CrossSections(a, X, rows) = CrossSections(b, Y, rows)
    BY <1>2 DEF CrossSections
  <1>4. ASSUME NEW t \in rows
        PROVE  /\ Known(Returns(a), t) = Known(Returns(b), t)
               /\ Known(CapProxy(a), t) = Known(CapProxy(b), t)
               /\ {Known(x, t) : x \in X} = {Known(y, t) : y \in Y}
    <2>1. Known(Returns(a), t) = Known(Returns(b), t)
      BY <1>2, KnownAlike
    <2>2. Known(CapProxy(a), t) = Known(CapProxy(b), t)
      BY <1>2, KnownAlike
    <2>3. \A x, y : Begins(x, y, m, n) => Known(x, t) = Known(y, t)
      <3> SUFFICES ASSUME NEW x, NEW y, Begins(x, y, m, n) PROVE Known(x, t) = Known(y, t)
        OBVIOUS
      <3>1. \A i \in Names : x[t][i] = y[t][i]
        BY DEF Begins
      <3>2. QED BY <3>1, KnownAlike
    <2>4. {Known(x, t) : x \in X} = {Known(y, t) : y \in Y}
      BY <1>1, <2>3 DEF AllBegin
    <2>5. QED BY <2>1, <2>2, <2>4
  <1> DEFINE seen(s, Z, t) == Known(Returns(s), t) \cup Known(CapProxy(s), t) \cup UNION {Known(z, t) : z \in Z}
  <1>5. \A t \in rows : seen(a, X, t) = seen(b, Y, t)
    BY <1>4
  <1>6. /\ RiskModel(a, X, rows) = UNION {seen(a, X, t) : t \in CrossSections(a, X, rows)}
        /\ RiskModel(b, Y, rows) = UNION {seen(b, Y, t) : t \in CrossSections(b, Y, rows)}
    BY DEF RiskModel
  <1> HIDE DEF seen
  <1>7. CrossSections(a, X, rows) \subseteq rows
    BY DEF CrossSections
  <1>8. {seen(a, X, t) : t \in CrossSections(a, X, rows)} = {seen(b, Y, t) : t \in CrossSections(b, Y, rows)}
    BY <1>3, <1>5, <1>7
  <1>9. QED BY <1>6, <1>8 DEF X, Y

LEMMA EstimatedInside ==
  ASSUME NEW m, NEW n, Extends(m, n), NEW t \in Rebalances(m)
  PROVE  EstimationRows(t) \subseteq 1..m
  BY StrategyAssumption DEF StrategyAssumption, Rebalances, EstimationRows, Extends

LEMMA BarraBegins ==
  ASSUME NEW m, NEW n, Extends(m, n), NEW k \in Nat, n <= k
  PROVE  Begins(BarraMinVar(Market(k), Closes(m), m), BarraMinVar(Market(k), Closes(n), n), m, n)
  <1> DEFINE part(j) == Sliced(Market(k), j)
             fit(j, t) == RiskModel(part(j), StyleExposures(part(j)), EstimationRows(t))
  <1>1. \A f \in Fields : Begins(part(m)[f], part(n)[f], m, n)
    BY SlicedBegins
  <1>2. \A j : BarraMinVar(Market(k), Closes(j), j) = Held([t \in Rebalances(j) |-> fit(j, t)], 1..j)
    BY DEF BarraMinVar, Closes
  <1> HIDE DEF part
  <1>3. \A t \in Rebalances(m) : fit(m, t) = fit(n, t)
    BY <1>1, EstimatedInside, RiskModelAlike
  <1> HIDE DEF fit
  <1>4. \A t \in Rebalances(m) : t \in Rebalances(n)
    BY RebalancesBegin
  <1>5. Begins(Held([t \in Rebalances(m) |-> fit(m, t)], 1..m),
               Held([t \in Rebalances(n) |-> fit(n, t)], 1..n), m, n)
    BY <1>3, <1>4, HeldBegins
  <1>6. QED BY <1>2, <1>5

(* Two panels with the same cells give the same estimates.                 *)
Alike(v, w) ==
  DOMAIN v = DOMAIN w /\ \A t \in DOMAIN v : \A i \in Names : v[t][i] = w[t][i]

LEMMA EstimatesAlike ==
  ASSUME NEW v, NEW w, Alike(v, w)
  PROVE  /\ Alike(DropGaps(v), DropGaps(w)) /\ Columns(v) = Columns(w)
         /\ MinVarianceLongOnly(v) = MinVarianceLongOnly(w)
  <1>1. Alike(DropGaps(v), DropGaps(w))
    BY DEF Alike, DropGaps
  <1>2. Columns(v) = Columns(w)
    BY DEF Alike, Columns
  <1> DEFINE full(x) == {r \in DOMAIN x : \A i \in Columns(x) : x[r][i] # NaN}
  <1>3. full(v) = full(w) /\ full(v) \subseteq DOMAIN v
    BY <1>2 DEF Alike, Columns
  <1>4. \A t \in DOMAIN v : Known(v, t) = Known(w, t)
    <2> SUFFICES ASSUME NEW t \in DOMAIN v PROVE Known(v, t) = Known(w, t)
      OBVIOUS
    <2>1. \A i \in Names : v[t][i] = w[t][i]
      BY DEF Alike
    <2>2. QED BY <2>1, KnownAlike
  <1> HIDE DEF full
  <1>5. {Known(v, t) : t \in full(v)} = {Known(w, t) : t \in full(w)}
    BY <1>3, <1>4
  <1>6. QED BY <1>1, <1>2, <1>5 DEF MinVarianceLongOnly, LedoitWolf, full

LEMMA RollingMinVarBegins ==
  ASSUME NEW m, NEW n, NEW p, NEW q, Begins(p, q, m, n)
  PROVE  Begins(RollingMinVar(p, m), RollingMinVar(q, n), m, n)
  <1> DEFINE returns(x) == PctChange(x, 1)
             rows(x, t) == {r \in EstimationRows(t) : Known(returns(x), r) # NaN}
             seen(x, t) == [s \in rows(x, t) |-> returns(x)[s]]
             fit(x, t) == IF \E i, j \in Columns(DropGaps(seen(x, t))) : i # j
                            THEN MinVarianceLongOnly(DropGaps(seen(x, t))) ELSE NaN
  <1>1. Extends(m, n) /\ Begins(returns(p), returns(q), m, n)
    <2>1. Begins(returns(p), returns(q), m, n)
      BY PctChangeBegins
    <2>2. QED BY <2>1 DEF Begins
  <1>2. /\ RollingMinVar(p, m) = Held([t \in Rebalances(m) |-> fit(p, t)], 1..m)
        /\ RollingMinVar(q, n) = Held([t \in Rebalances(n) |-> fit(q, t)], 1..n)
    BY DEF RollingMinVar, Begins
  <1> HIDE DEF returns
  <1>3. ASSUME NEW t \in Rebalances(m) PROVE fit(p, t) = fit(q, t)
    <2>1. \A r \in EstimationRows(t) : \A i \in Names : returns(p)[r][i] = returns(q)[r][i]
      BY <1>1, EstimatedInside DEF Begins
    <2>2. \A r \in EstimationRows(t) : Known(returns(p), r) = Known(returns(q), r)
      BY <2>1, KnownAlike
    <2>3. Alike(seen(p, t), seen(q, t))
      BY <2>1, <2>2 DEF Alike
    <2> HIDE DEF seen
    <2>4. Alike(DropGaps(seen(p, t)), DropGaps(seen(q, t)))
      BY <2>3, EstimatesAlike
    <2>5. /\ Columns(DropGaps(seen(p, t))) = Columns(DropGaps(seen(q, t)))
          /\ MinVarianceLongOnly(DropGaps(seen(p, t))) = MinVarianceLongOnly(DropGaps(seen(q, t)))
      BY <2>4, EstimatesAlike
    <2>6. QED BY <2>5
  <1> HIDE DEF fit
  <1>4. \A t \in Rebalances(m) : t \in Rebalances(n)
    BY <1>1, RebalancesBegin
  <1>5. Begins(Held([t \in Rebalances(m) |-> fit(p, t)], 1..m),
               Held([t \in Rebalances(n) |-> fit(q, t)], 1..n), m, n)
    BY <1>1, <1>3, <1>4, HeldBegins
  <1>6. QED BY <1>2, <1>5

-----------------------------------------------------------------------------
(* Whatever a program decides from a history, it decided from its beginning.*)
LEMMA WeightsBegin ==
  ASSUME program \in CleanPrograms \ Allocators, program # "model",
         NEW m, NEW n, Extends(m, n), bars \in Nat, n <= bars
  PROVE  Begins(Weights(m), Weights(n), m, n)
  <1>1. Begins(Closes(m), Closes(n), m, n)
    BY ClosesBegin
  <1>2. AllBegin(Factors(Closes(m)), Factors(Closes(n)), m, n)
    BY FactorsBegin
  <1>3. CASE program = "demo"
    <2>1. Begins(Momentum(Closes(m)), Momentum(Closes(n)), m, n)
      BY <1>1, PriceFactorsBegin
    <2>2. AllBegin({Momentum(Closes(m))}, {Momentum(Closes(n))}, m, n)
      BY <2>1 DEF AllBegin
    <2>3. Begins(FactorStrategy({Momentum(Closes(m))}), FactorStrategy({Momentum(Closes(n))}), m, n)
      BY <2>2, ScoresBegin
    <2>4. QED BY <1>3, <2>3 DEF Weights, DemoBook
  <1>4. CASE program = "factor"
    <2>1. Begins(FactorStrategy(Factors(Closes(m))), FactorStrategy(Factors(Closes(n))), m, n)
      BY <1>2, ScoresBegin
    <2>2. QED BY <1>4, <2>1 DEF Weights
  <1>5. CASE program = "book"
    <2> DEFINE score(k) == CompositeScore(Factors(Closes(k)))
               returns(k) == PctChange(Closes(k), 1)
    <2>1. Begins(score(m), score(n), m, n) /\ Begins(returns(m), returns(n), m, n)
      BY <1>1, <1>2, ScoresBegin, PctChangeBegins
    <2>2. \A k : Weights(k) = Construction(score(k), returns(k), TRUE)
      BY <1>5 DEF Weights
    <2> HIDE DEF score, returns
    <2>3. QED BY <2>1, <2>2, ConstructionBegins
  <1>6. CASE program = "pairs"
    BY <1>1, <1>6, SpreadStrategiesBegin DEF Weights
  <1>7. CASE program = "butterfly"
    BY <1>1, <1>7, SpreadStrategiesBegin DEF Weights
  <1>8. CASE program = "fixed"
    BY <1>1, <1>8, SpreadStrategiesBegin DEF Weights
  <1>9. CASE program = "barra"
    <2>1. Begins(BarraMinVar(Store, Closes(m), m), BarraMinVar(Store, Closes(n), n), m, n)
      BY BarraBegins DEF Store
    <2>2. QED BY <1>9, <2>1 DEF Weights, BarraBook
  <1>10. CASE program = "minvar"
    <2>1. Begins(RollingMinVar(Closes(m), m), RollingMinVar(Closes(n), n), m, n)
      BY <1>1, RollingMinVarBegins
    <2>2. QED BY <1>10, <2>1 DEF Weights, BarraBook
  <1>11. QED BY <1>3, <1>4, <1>5, <1>6, <1>7, <1>8, <1>9, <1>10 DEF CleanPrograms

LEMMA DecidedAlike ==
  ASSUME NEW m, NEW n, NEW v, NEW w, Begins(v, w, m, n), NEW d \in Int, d <= m
  PROVE  DecidedFor(v, d) = DecidedFor(w, d)
  <1>1. d - 1 \in DOMAIN v <=> d - 1 \in DOMAIN w
    BY DEF Begins, Extends
  <1>2. CASE d - 1 \in DOMAIN v
    <2>1. \A i \in Names : v[d - 1][i] = w[d - 1][i]
      BY <1>2 DEF Begins
    <2>2. Known(v, d - 1) = Known(w, d - 1)
      BY <2>1, KnownAlike
    <2>3. QED BY <1>1, <1>2, <2>2 DEF DecidedFor
  <1>3. QED BY <1>1, <1>2 DEF DecidedFor

(* Neither the store nor the program changes under a study.                *)
LEMMA WeightsStay ==
  ASSUME UNCHANGED study, NEW n
  PROVE  Weights(n)' = Weights(n)
  <1>1. Store' = Store /\ UNCHANGED <<program, cfg, bars>>
    BY DEF Store, study
  <1>2. \A p : Factors(p)' = Factors(p)
    BY <1>1 DEF Factors
  <1>3. QED BY <1>1, <1>2 DEF Weights, study, DemoBook, BarraBook, MultiAlpha, MLModel, KeptAlphas,
                       AlphaStudy, Embargo, Reported, QuarterEnd

(* What a fold holds is what the history up to its end decides.            *)
Faithful ==
  \A k \in DOMAIN folds :
    /\ program \notin Allocators
    /\ \E end \in Nat :
         /\ end <= bars
         /\ \A d \in DOMAIN folds[k].decided :
              d \in Int /\ d <= end /\ folds[k].decided[d] = DecidedFor(Weights(end), d)

LEMMA WalkFoldFaithful == ASSUME Inv, Faithful, WalkFold PROVE Faithful'
  <1>1. PICK end : end = pos + cfg.purge + cfg.test
    OBVIOUS
  <1> DEFINE decided == [d \in TestDates |-> DecidedFor(Weights(end), d)]
             fold == [decided |-> decided, fit |-> FittedOn(end)]
  <1>2. folds' = Append(folds, fold) /\ end <= bars /\ program \notin Allocators
        /\ UNCHANGED study /\ UNCHANGED <<program, bars>>
    BY <1>1 DEF WalkFold, study
  <1>3. end \in Nat /\ \A d \in TestDates : d \in Int /\ d <= end
    BY <1>1, ResearchAssumption DEF Inv, ResearchAssumption, TestDates
  <1>4. /\ DOMAIN fold.decided = TestDates
        /\ \A d \in TestDates : fold.decided[d] = DecidedFor(Weights(end), d)
    OBVIOUS
  <1>5. \A n, d : DecidedFor(Weights(n), d)' = DecidedFor(Weights(n), d)
    BY <1>2, WeightsStay DEF DecidedFor
  <1>6. folds \in Seq(Fold(cfg.purge))
    BY DEF Inv
  <1> HIDE DEF fold
  <1>7. /\ DOMAIN folds' = 1..(Len(folds) + 1) /\ DOMAIN folds = 1..Len(folds) /\ Len(folds) \in Nat
        /\ folds'[Len(folds) + 1] = fold /\ \A k \in DOMAIN folds : folds'[k] = folds[k]
    BY <1>2, <1>6
  <1>8. ASSUME NEW k \in DOMAIN folds'
        PROVE  \E e \in Nat :
                 /\ e <= bars
                 /\ \A d \in DOMAIN folds'[k].decided :
                      d \in Int /\ d <= e /\ folds'[k].decided[d] = DecidedFor(Weights(e), d)
    <2>1. CASE k = Len(folds) + 1
      BY <2>1, <1>2, <1>3, <1>4, <1>7
    <2>2. CASE k \in DOMAIN folds
      BY <2>2, <1>7 DEF Faithful
    <2>3. QED BY <2>1, <2>2, <1>7
  <1>9. QED BY <1>2, <1>5, <1>8 DEF Faithful

LEMMA FaithfulStays ==
  ASSUME Programs \subseteq CleanPrograms
  PROVE  Spec => [](Inv /\ Faithful)
  <1>1. Init => Faithful
    BY DEF Init, Faithful
  <1>2. Inv /\ Faithful /\ [Next]_vars => Faithful'
    <2>1. ASSUME Faithful, UNCHANGED <<study, folds>> PROVE Faithful'
      <3>1. \A n, d : DecidedFor(Weights(n), d)' = DecidedFor(Weights(n), d)
        BY <2>1, WeightsStay DEF DecidedFor
      <3>2. QED BY <2>1, <3>1 DEF Faithful, study
    <2>2. QED BY <2>1, WalkFoldFaithful DEF Next, Stitch, Day, vars, study
  <1>3. QED BY <1>1, <1>2, InvStays, PTL DEF Spec

(* A longer history restates nothing: whatever the windows, the legs, the  *)
(* rebalance days and the folds, two folds that cover one date decide it   *)
(* alike, so that concat_oos may keep either (walk_forward); only the      *)
(* refitted model, which knows more in the later fold, is excepted.        *)
THEOREM FoldsAgree ==
  ASSUME Programs \subseteq CleanPrograms
  PROVE  Spec => []HistoryIsNotRestated
  <1>1. Inv /\ Faithful => HistoryIsNotRestated
    <2> SUFFICES ASSUME Inv, Faithful, program # "model",
                        NEW j \in DOMAIN folds, NEW k \in DOMAIN folds,
                        NEW d \in DOMAIN folds[j].decided \cap DOMAIN folds[k].decided
                 PROVE  folds[j].decided[d] = folds[k].decided[d]
      BY DEF HistoryIsNotRestated
    <2>1. PICK m \in Nat : /\ m <= bars /\ d \in Int /\ d <= m
                           /\ folds[j].decided[d] = DecidedFor(Weights(m), d)
      BY DEF Faithful
    <2>2. PICK n \in Nat : /\ n <= bars /\ d <= n
                           /\ folds[k].decided[d] = DecidedFor(Weights(n), d)
      BY DEF Faithful
    <2>3. program \in CleanPrograms \ Allocators /\ bars \in Nat
      BY DEF Inv, Faithful
    <2>4. CASE m <= n
      <3>1. Begins(Weights(m), Weights(n), m, n)
        BY <2>2, <2>3, <2>4, WeightsBegin DEF Extends
      <3>2. QED BY <2>1, <2>2, <3>1, DecidedAlike
    <2>5. CASE n <= m
      <3>1. Begins(Weights(n), Weights(m), n, m)
        BY <2>1, <2>3, <2>5, WeightsBegin DEF Extends
      <3>2. QED BY <2>1, <2>2, <3>1, DecidedAlike
    <2>6. QED BY <2>4, <2>5
  <1>2. QED BY <1>1, FaithfulStays, PTL

-----------------------------------------------------------------------------
(* Scores and their labels.                                                *)
LEMMA ForwardFillClean ==
  ASSUME NEW n \in Nat, NEW p, Clean(p, n)
  PROVE  Clean(ForwardFill(p), n)
  <1>1. \A t \in 1..n : \A i \in Names : LastSeen(p, t, i) \subseteq 1..t
    BY DEF Clean, LastSeen
  <1>2. QED BY <1>1 DEF Clean, ForwardFill

(* A label that is a number contains the bar that lies h ahead.            *)
LEMMA LabelAhead ==
  ASSUME NEW n \in Nat, NEW h \in Nat \ {0}, NEW t \in 1..n, NEW i \in Names,
         ForwardReturns(Closes(n), h)[t][i] # NaN
  PROVE  \E b \in ForwardReturns(Closes(n), h)[t][i] : b > t
  <1>1. DOMAIN Closes(n) = 1..n /\ DOMAIN Shift(Closes(n), -h) = 1..n
    BY DEF Closes, Shift
  <1>2. Shift(Closes(n), -h)[t][i] = IF t + h \in 1..n THEN Closes(n)[t + h][i] ELSE NaN
    BY <1>1 DEF Shift
  <1>3. ForwardReturns(Closes(n), h)[t][i] =
          IF Shift(Closes(n), -h)[t][i] = NaN \/ Closes(n)[t][i] = NaN THEN NaN
          ELSE Shift(Closes(n), -h)[t][i] \cup Closes(n)[t][i]
    BY <1>1 DEF ForwardReturns, Zip
  <1>4. t + h \in 1..n /\ Closes(n)[t + h][i] # NaN
    BY <1>2, <1>3
  <1>5. Closes(n)[t + h][i] = {t + h}
    BY <1>4 DEF Closes
  <1>6. QED BY <1>2, <1>3, <1>4, <1>5

Meets(s, h) == Clean(s[1], bars) /\ s[2] = ForwardReturns(Closes(bars), h) /\ h \in Nat \ {0}

LEMMA StudiesClean ==
  ASSUME bars \in Nat
  PROVE  /\ \A a \in AlphaStudy : Clean(a, bars)
         /\ Clean(ValueStudy, bars)
  <1>1. /\ Clean(Closes(bars), bars)
        /\ \A a \in Alphas(Store, Closes(bars)) : Clean(a, bars)
    BY FactorsClean DEF Factors
  <1>2. \A a \in AlphaStudy : Clean(a, bars)
    BY <1>1, RankClean, NeutralizeClean DEF AlphaStudy, ZScore
  <1>3. Clean(Filed, bars)
    BY DEF Clean, Filed, NaN
  <1>4. Clean(Zip(ForwardFill(Filed), Closes(bars)), bars)
    BY <1>1, <1>3, ForwardFillClean, ZipClean
  <1>5. QED BY <1>2, <1>4, StandardizeClean, NeutralizeClean DEF ValueStudy

LEMMA HeatmapMeets ==
  ASSUME bars \in Nat, NEW s \in FactorHeatmap
  PROVE  \E h \in Nat : Meets(s, h)
  <1>1. Horizon \in Nat \ {0} /\ 1..(Horizon + 1) \subseteq Nat \ {0}
    BY WindowAssumption DEF WindowAssumption
  <1>2. CASE s \in IcScorecard(AlphaStudy, Closes(bars), Horizon)
    <2>1. PICK a \in AlphaStudy :
            \/ s = <<a, ForwardReturns(Closes(bars), Horizon)>>
            \/ s = <<Rank(a), ForwardReturns(Closes(bars), Horizon)>>
      BY <1>2 DEF IcScorecard, QuantileReturns
    <2>2. Clean(a, bars) /\ Clean(Rank(a), bars)
      BY StudiesClean, RankClean
    <2>3. QED BY <1>1, <2>1, <2>2 DEF Meets
  <1>3. CASE s \in IcDecayMatrix(AlphaStudy, Closes(bars), 1..(Horizon + 1))
    <2>1. PICK h \in 1..(Horizon + 1), a \in AlphaStudy : s = <<a, ForwardReturns(Closes(bars), h)>>
      BY <1>3 DEF IcDecayMatrix
    <2>2. QED BY <1>1, <2>1, StudiesClean DEF Meets
  <1>4. QED BY <1>2, <1>3 DEF FactorHeatmap

LEMMA RatesMeet ==
  ASSUME bars \in Nat, NEW s \in RatesModel
  PROVE  Meets(s, Horizon)
  <1> DEFINE curve == Closes(bars)
  <1>1. Clean(curve, bars) /\ Horizon \in Nat \ {0}
    BY ClosesClean, WindowAssumption DEF WindowAssumption
  <1> HIDE DEF curve
  <1>2. \A t \in 1..bars : Known(curve, t) \subseteq 1..t
    BY <1>1, KnownClean
  <1>3. Clean(CurveMetrics(curve), bars) /\ Clean(NelsonSiegel(curve), bars)
    BY <1>1, <1>2 DEF Clean, CurveMetrics, NelsonSiegel
  <1>4. Clean(Delta(CurveMetrics(curve), Horizon), bars) /\ Clean(CarryRolldown(curve), bars)
    BY <1>1, <1>3, ShiftClean, ZipClean, RankClean DEF Delta, CarryRolldown
  <1>5. Clean(CurveFeatures(curve), bars)
    BY <1>3, <1>4, ZipClean DEF CurveFeatures
  <1>6. s[1] \in {CurveFeatures(curve), NelsonSiegel(curve)} /\ s[2] = ForwardChange(curve)
    BY DEF RatesModel, curve
  <1>7. ForwardChange(curve) = ForwardReturns(curve, Horizon)
    BY DEF ForwardChange, ForwardReturns
  <1>8. QED BY <1>1, <1>3, <1>5, <1>6, <1>7 DEF Meets, curve

LEMMA ScoresMeetTheirFuture == bars \in Nat => LabelsLieAhead
  <1> SUFFICES ASSUME bars \in Nat,
                      NEW s \in FactorHeatmap \cup RatesModel \cup
                          {<<f, ForwardReturns(Closes(bars), Horizon)>> :
                             f \in Factors(Closes(bars)) \cup {ValueStudy}},
                      NEW t \in 1..bars, NEW i \in Names
               PROVE  /\ s[1][t][i] \subseteq 1..t
                      /\ s[1][t][i] # NaN /\ s[2][t][i] # NaN => \E b \in s[2][t][i] : b > t
    BY DEF LabelsLieAhead
  <1>1. PICK h \in Nat : Meets(s, h)
    <2>1. Horizon \in Nat \ {0}
      BY WindowAssumption DEF WindowAssumption
    <2>2. CASE s \in FactorHeatmap
      BY <2>2, HeatmapMeets
    <2>3. CASE s \in RatesModel
      BY <2>1, <2>3, RatesMeet
    <2>4. ASSUME NEW f \in Factors(Closes(bars)) \cup {ValueStudy},
                 s = <<f, ForwardReturns(Closes(bars), Horizon)>>
          PROVE  \E h \in Nat : Meets(s, h)
      <3>1. Clean(f, bars)
        BY FactorsClean, StudiesClean
      <3>2. QED BY <2>1, <2>4, <3>1 DEF Meets
    <2>5. QED BY <2>2, <2>3, <2>4
  <1>2. s[1][t][i] \subseteq 1..t
    BY <1>1 DEF Meets, Clean
  <1>3. QED BY <1>1, <1>2, LabelAhead DEF Meets

(* Scores meet their future: whatever the listings, the windows and the    *)
(* horizon, a score knows nothing after its row, and the label that it is  *)
(* correlated with, or fit to, contains a later bar (evaluation.py,        *)
(* heatmap.py, forecast.py and the studies).                               *)
THEOREM LabelsAreAhead == Spec => []LabelsLieAhead
  <1>1. Init => bars \in Nat
    BY ResearchAssumption DEF Init, ResearchAssumption
  <1>2. bars \in Nat /\ [Next]_vars => (bars \in Nat)'
    BY DEF Next, vars, WalkFold, Stitch, Day, study
  <1>3. QED BY <1>1, <1>2, ScoresMeetTheirFuture, PTL DEF Spec
=============================================================================
