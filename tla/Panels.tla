------------------------------- MODULE Panels -------------------------------
(***************************************************************************)
(* Wide panels (dates x instruments) and the vocabulary that factors and   *)
(* strategies are written in: factors/operators.py, factors/transforms.py  *)
(* and the pandas idioms around them.                                      *)
(*                                                                         *)
(* The values are abstracted to their provenance: a cell is the set of     *)
(* bars that its number was computed from, and the empty set is NaN.  The  *)
(* bar of row t is known at the close of t, so a panel whose row t names a *)
(* bar after t has looked ahead.                                           *)
(***************************************************************************)
EXTENDS Integers

CONSTANTS
  Names,        \* the panel's columns
  Listed        \* instrument -> its first bar

ASSUME ListingAssumption == Listed \in [Names -> Nat]

NaN == {}

Known(p, t) == UNION {p[t][i] : i \in Names}

(* One field of n bars, instruments aligned on the dates of all of them    *)
(* (load_panel): a cell is known from its own row on.                      *)
Closes(n) == [t \in 1..n |-> [i \in Names |-> IF t < Listed[i] THEN NaN ELSE {t}]]

Upto(p, n) == [t \in DOMAIN p \cap (1..n) |-> p[t]]              \* iloc[:n]

(* A binary element-wise operation: NaN when either operand is.            *)
Zip(p, q) ==
  [t \in DOMAIN p |-> [i \in Names |->
    IF p[t][i] = NaN \/ q[t][i] = NaN THEN NaN ELSE p[t][i] \cup q[t][i]]]

(* A row statistic spread over a row's cells, column by column: what a     *)
(* series indexed by date brings to a panel (mul, sub, div with axis=0).   *)
ByRow(p, s) ==
  [t \in DOMAIN p |-> [i \in Names |->
    IF p[t][i] = NaN \/ s[t] = NaN THEN NaN ELSE p[t][i] \cup s[t]]]

RowStat(p) == [t \in DOMAIN p |-> Known(p, t)]                   \* mean(axis=1)

Column(s) == [t \in DOMAIN s |-> [i \in Names |-> s[t]]]

(* fillna(0): that a number was missing is known from the row itself.      *)
Filled(s) == [t \in DOMAIN s |-> IF s[t] = NaN THEN {t} ELSE s[t]]

Shift(p, d) ==
  [t \in DOMAIN p |-> [i \in Names |-> IF t - d \in DOMAIN p THEN p[t - d][i] ELSE NaN]]

(* A full window of d rows without a gap, else NaN.                        *)
Rolling(p, d) ==
  [t \in DOMAIN p |-> [i \in Names |->
    IF \A s \in (t - d + 1)..t : s \in DOMAIN p /\ p[s][i] # NaN
      THEN UNION {p[s][i] : s \in (t - d + 1)..t}
      ELSE NaN]]

(* Everything up to the row: ewm, cumprod, a recursive filter.             *)
Running(p) ==
  [t \in DOMAIN p |-> [i \in Names |-> UNION {p[s][i] : s \in {r \in DOMAIN p : r <= t}}]]

(* ffill(): the last number at or before the row.                          *)
LastSeen(p, t, i) == {s \in DOMAIN p : s <= t /\ p[s][i] # NaN}

ForwardFill(p) ==
  [t \in DOMAIN p |-> [i \in Names |->
    UNION {p[s][i] : s \in {r \in LastSeen(p, t, i) : \A q \in LastSeen(p, t, i) : q <= r}}]]

(* bfill(): rows before the first number take that number.                 *)
BackFill(p) ==
  [t \in DOMAIN p |-> [i \in Names |->
    UNION {p[s][i] : s \in {r \in DOMAIN p : /\ r >= t /\ p[r][i] # NaN
                                             /\ \A q \in t..(r - 1) : p[q][i] = NaN}}]]

(* dropna(axis=1, how="any"): a column with a gap goes; which columns have  *)
(* one is not counted as information.                                      *)
Columns(p) == {i \in Names : \E t \in DOMAIN p : p[t][i] # NaN}

DropGaps(p) ==
  [t \in DOMAIN p |-> [i \in Names |->
    IF \E s \in DOMAIN p : p[s][i] = NaN THEN NaN ELSE p[t][i]]]

PctChange(p, d) == Zip(p, Shift(p, d))

-----------------------------------------------------------------------------
(* factors/operators.py                                                    *)

(* rank() and scale() compare the instruments of one day.                  *)
Rank(p) ==
  [t \in DOMAIN p |-> [i \in Names |-> IF p[t][i] = NaN THEN NaN ELSE Known(p, t)]]

Delta(p, d) == Zip(p, Shift(p, d))

(* ts_sum, ts_mean, ts_std, ts_min, ts_max, ts_argmax, ts_argmin, ts_rank, *)
(* product and decay_linear differ in the number only.                     *)
TimeSeries(p, d) == Rolling(p, d)

Covariance(x, y, d) == Zip(Rolling(Zip(x, y), d), Zip(Rolling(x, d), Rolling(y, d)))

Correlation(x, y, d) == Zip(Covariance(x, y, d), Zip(Rolling(x, d), Rolling(y, d)))

-----------------------------------------------------------------------------
(* factors/transforms.py                                                   *)

Winsorize(p) == Rank(p)

ZScore(p) == Rank(p)

(* Every label's block is demeaned on its own; names without a group share *)
(* a bucket.                                                               *)
Neutralize(p, groups) ==
  [t \in DOMAIN p |-> [i \in Names |->
    IF p[t][i] = NaN THEN NaN
      ELSE UNION {p[t][j] : j \in {k \in Names : groups[k] = groups[i]}}]]

(* A weighted sum over a set of panels, each missing number counting zero. *)
Combine(panels) ==
  [t \in UNION {DOMAIN p : p \in panels} |-> [i \in Names |-> UNION {p[t][i] : p \in panels}]]
=============================================================================
