------------------------------ MODULE Factors -------------------------------
(***************************************************************************)
(* The factor library: price factors, fundamental factors, the Alpha101    *)
(* set over market panels, the Barra style exposures and the treasury      *)
(* curve's features, with the labels that they are judged and trained      *)
(* against (factors/, barra/exposures.py, rates/).                         *)
(***************************************************************************)
EXTENDS Panels

CONSTANTS
  Groups,       \* instrument -> sector
  Lookback,     \* bars of a momentum
  Gap,          \* most recent bars that it skips
  Window,       \* bars of a volatility, a reversal, an alpha or a beta
  Horizon       \* bars ahead that a label looks

ASSUME WindowAssumption ==
  /\ Lookback \in Nat \ {0} /\ Gap \in Nat /\ Window \in Nat \ {0} /\ Horizon \in Nat \ {0}
  /\ Groups \in [Names -> STRING]

-----------------------------------------------------------------------------
(* Price factors; prices is the panel of closes.                           *)
Momentum(prices) == Zip(Shift(prices, Gap), Shift(prices, Gap + Lookback))

Volatility(prices) == Rolling(PctChange(prices, 1), Window)

Reversal(prices) == PctChange(prices, Window)

PriceFactors(prices) == {Momentum(prices), Volatility(prices), Reversal(prices)}

(* Value and quality carry a sparse panel of reported figures, reindexed   *)
(* onto the price grid and carried forward.                                *)
FundamentalFactor(reported, prices) ==
  ForwardFill([t \in DOMAIN prices |-> reported[t]])

-----------------------------------------------------------------------------
(* factors/market.py: one panel per field, over everything in the store.   *)
Fields == {"open", "high", "low", "close", "volume"}

Market(n) == [f \in Fields |-> Closes(n)]

Sliced(m, n) == [f \in Fields |-> Upto(m[f], n)]

Vwap(m) == Zip(m.high, Zip(m.low, m.close))

Returns(m) == PctChange(m.close, 1)

Adv(m, d) == Rolling(Zip(m.close, m.volume), d)

(* factors/alpha101.py                                                     *)
Alpha101(m) == Zip(Zip(m.close, m.open), Zip(m.high, m.low))

Alpha006(m) == Correlation(m.open, m.volume, Window)

Alpha012(m) == Zip(Delta(m.volume, 1), Delta(m.close, 1))

Alpha041(m) == Zip(Zip(m.high, m.low), Vwap(m))

Alpha054(m) == Zip(Zip(m.low, m.close), Zip(m.open, m.high))

Alpha004(m) == TimeSeries(Rank(m.low), Window)

Alpha013(m) == Rank(Covariance(Rank(m.close), Rank(m.volume), Window))

Alpha033(m) == Rank(Zip(m.open, m.close))

(* An alpha reads its own panels, whole, and keeps the rows of prices.     *)
Alphas(m, prices) ==
  {[t \in DOMAIN prices |-> a[t]] :
     a \in {Alpha101(m), Alpha006(m), Alpha012(m), Alpha041(m), Alpha054(m),
            Alpha004(m), Alpha013(m), Alpha033(m)}}

-----------------------------------------------------------------------------
(* barra/exposures.py                                                      *)
Standardize(p) == ZScore(Winsorize(p))

(* CAPM beta on the equal-weight market, and the residual it leaves.       *)
RollingBeta(returns, market) ==
  Zip(Zip(Rolling(ByRow(returns, market), Window), Rolling(returns, Window)),
      Rolling(Column(market), Window))

Residual(returns, market) == Zip(returns, ByRow(RollingBeta(returns, market), market))

CapProxy(m) == Adv(m, Window)

StyleExposures(m) ==
  LET market == RowStat(Returns(m))
      raw    == {CapProxy(m),
                 RollingBeta(Returns(m), market),
                 Momentum(m.close),
                 Rolling(Residual(Returns(m), market), Window),
                 PctChange(m.close, Window)}
  IN  {Standardize(p) : p \in raw}

-----------------------------------------------------------------------------
(* factors/evaluation.py: the label of row t is the return after t.        *)
BackwardReturns(prices, h) == Zip(Shift(prices, h), prices)      \* mutant: sign of the shift

ForwardReturns(prices, h) == Zip(Shift(prices, -h), prices)

(* The correlation of row t's scores with its labels, and its summary.     *)
InformationCoefficient(factor, prices, h) ==
  [t \in DOMAIN prices |-> Known(Zip(factor, ForwardReturns(prices, h)), t)]

IcSummary(ic) == UNION {ic[t] : t \in DOMAIN ic}

(* Buckets are cut by rank; and factors/heatmap.py judges several signals   *)
(* at once, over lengthening horizons.                                     *)
QuantileReturns(factor, prices, h) == <<Rank(factor), ForwardReturns(prices, h)>>

IcScorecard(signals, prices, h) ==
  {<<s, ForwardReturns(prices, h)>> : s \in signals}
    \cup {QuantileReturns(s, prices, h) : s \in signals}

IcDecayMatrix(signals, prices, horizons) ==
  UNION {{<<s, ForwardReturns(prices, h)>> : s \in signals} : h \in horizons}

(* factors/selection.py: every weight is divided by their common total.    *)
IcWeights(signals, prices) ==
  UNION {IcSummary(InformationCoefficient(s, prices, Horizon)) : s \in signals}

(* Which signals survive depends on every row they share.                  *)
VifPrune(signals) == UNION {UNION {Known(s, t) : t \in DOMAIN s} : s \in signals}

-----------------------------------------------------------------------------
(* rates/curve.py and rates/forecast.py; here a column is a tenor.         *)
CurveMetrics(curve) == [t \in DOMAIN curve |-> [i \in Names |-> Known(curve, t)]]

CarryRolldown(curve) == Rank(curve)

(* rates/nelson_siegel.py: the betas of a row are fitted to its yields.    *)
NelsonSiegel(curve) == [t \in DOMAIN curve |-> [i \in Names |-> Known(curve, t)]]

CurveFeatures(curve) ==
  Zip(Zip(CurveMetrics(curve), Delta(CurveMetrics(curve), Horizon)), CarryRolldown(curve))

ForwardChange(curve) == Zip(Shift(curve, -Horizon), curve)

(* What a supervised fit reads: the rows whose features and label are all  *)
(* defined.                                                                *)
TrainingRows(features, labels) ==
  {t \in DOMAIN labels : \E i \in Names : labels[t][i] # NaN /\ features[t][i] # NaN}

FitOn(features, labels) ==
  UNION {Known(Zip(features, labels), t) : t \in TrainingRows(features, labels)}
=============================================================================
