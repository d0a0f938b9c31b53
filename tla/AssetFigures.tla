---------------------------- MODULE AssetFigures ----------------------------
(***************************************************************************)
(* The figures a tab shows of the held assets.  context/AssetContext.tsx   *)
(* keeps value and profit in every row and has four places that write      *)
(* them; the asset page and its overview (PortfolioOverviewDashboard) add  *)
(* them up, each in its own way.                                           *)
(*                                                                         *)
(* Amounts and prices are small integers; a rate is in tenths of a percent,*)
(* rounded down.                                                           *)
(***************************************************************************)
EXTENDS Integers, FiniteSets, FiniteSetsExt

CONSTANTS
  Shares,    \* shares and coins
  Monies,    \* currencies
  MaxNum     \* bound on amounts and prices

ASSUME FiguresAssumption ==
  /\ IsFiniteSet(Shares) /\ IsFiniteSet(Monies) /\ Shares \cap Monies = {}
  /\ MaxNum \in Nat \ {0}

VARIABLES
  figures,      \* holdings: the row of an asset, or NoRow
  ownList    \* the mock user: changes stay in the tab

figureVars == <<figures, ownList>>

Symbols == Shares \cup Monies
Num     == 0 .. MaxNum

\* What applyPriceMap and the mock user's updateAsset compute.
RowAt(amount, avg, now) ==
  [amount |-> amount, avg |-> avg, price |-> now, change |-> now - avg,
   percent |-> IF avg > 0 THEN ((now - avg) * 1000) \div avg ELSE 0,
   value |-> amount * now, profit |-> (now - avg) * amount]

\* fetchHoldings and the mock user's addHoldings: the average price, until the
\* first price of the market.
RowFetched(amount, avg) ==
  [amount |-> amount, avg |-> avg, price |-> avg, change |-> 0, percent |-> 0,
   value |-> avg * amount, profit |-> 0]

NoRow == [RowFetched(0, 0) EXCEPT !.price = -1]
Rowed == {s \in Symbols : figures[s] # NoRow}

FiguresInit ==
  /\ ownList \in BOOLEAN
  /\ figures = [s \in Symbols |-> NoRow]

-----------------------------------------------------------------------------
(* Where figures are written *)

\* fetchHoldings: the API has positive quantities and prices.
RowsRead ==
  /\ ~ownList
  /\ \E s \in Symbols, n, p \in 1 .. MaxNum :
       figures' = [figures EXCEPT ![s] = RowFetched(n, p)]
  /\ UNCHANGED ownList

\* addHoldings of the mock user; the cart has positive ones, too.
MockAdd ==
  /\ ownList
  /\ \E s \in Symbols, n, p \in 1 .. MaxNum :
       figures[s] = NoRow /\ figures' = [figures EXCEPT ![s] = RowFetched(n, p)]
  /\ UNCHANGED ownList

\* updateAsset of the mock user: whatever number was typed, 0 for none.
MockUpdate ==
  /\ ownList
  /\ \E s \in Rowed, n, p \in Num :
       figures' = [figures EXCEPT ![s] = RowAt(n, p, IF @.price # 0 THEN @.price ELSE p)]
  /\ UNCHANGED ownList

\* deleteAsset of the mock user, or a read without the row.
RowGoes ==
  /\ \E s \in Rowed : figures' = [figures EXCEPT ![s] = NoRow]
  /\ UNCHANGED ownList

\* refreshPrices asks the service for coins, that for shares or that for
\* currencies; KRW is 1 without asking.
SourceOf(s) == IF s \in Monies THEN "rate" ELSE "price"

Priced(s, p) ==
  IF figures[s] # NoRow /\ p > 0 THEN RowAt(figures[s].amount, figures[s].avg, p) ELSE figures[s]

\* applyPriceMap, from REST or from the socket: prices for some of the symbols;
\* a price that is not positive is left out.  No two sources answer together
\* for one symbol.
PricesApplied ==
  /\ \E source \in {"rate", "price"}, p \in [Symbols -> 0 .. MaxNum] :
       figures' = [s \in Symbols |-> IF SourceOf(s) = source THEN Priced(s, p[s]) ELSE figures[s]]
  /\ UNCHANGED ownList

-----------------------------------------------------------------------------
(* The asset page *)

SumOf(f, S) == MapThenSumSet(LAMBDA s : f[s], S)
Rate(part, whole) == IF whole > 0 THEN (part * 1000) \div whole ELSE 0

PageTotals ==
  LET value    == [s \in Symbols |-> figures[s].value]
      paid     == [s \in Symbols |-> figures[s].amount * figures[s].avg]
      daily    == [s \in Symbols |-> figures[s].change * figures[s].amount]
      loss     == [s \in Symbols |-> IF value[s] < paid[s] THEN value[s] - paid[s] ELSE 0]
      invested == SumOf(paid, Rowed) IN
  [evaluation |-> SumOf(value, Rowed), invested |-> invested,
   cash       |-> SumOf(value, Rowed \cap Monies),
   profit     |-> SumOf(value, Rowed) - invested,
   daily      |-> SumOf(daily, Rowed),
   losses     |-> SumOf(loss, Rowed)]

ProfitRate == Rate(PageTotals.profit, PageTotals.invested)
DailyRate  == Rate(PageTotals.daily, PageTotals.invested)
LossRate   == Rate(PageTotals.losses, PageTotals.invested)

\* forecastScore.
ForecastScore(gain, daily, loss) ==
  LET one(c) == IF c THEN 1 ELSE 0
      score  == 2 + one(gain >= 180) + one(gain >= 280) - one(gain < 0) - one(gain < -80)
                  + one(daily >= 12) - one(daily <= -12) - one(loss < -100) IN
  Max({0, Min({4, score})})

\* benchmarkRows: above, about or below each index.
Benchmarks ==
  LET gaps == [b \in {52, 84, 118} |-> ProfitRate - b] IN
  [b \in DOMAIN gaps |-> IF gaps[b] >= 20 THEN "above" ELSE IF gaps[b] <= -20 THEN "below" ELSE "about"]

-----------------------------------------------------------------------------
(* The overview *)

\* investmentEvaluation, cashValue, totalProfit: cash has no profit here.
OverviewTotals ==
  LET value == [s \in Symbols |-> figures[s].value]
      paid  == [s \in Symbols |-> figures[s].avg * figures[s].amount]
      worth == SumOf(value, Rowed \cap Shares)
      cash  == SumOf(value, Rowed \cap Monies) IN
  [cash |-> cash, value |-> worth + cash, profit |-> worth - SumOf(paid, Rowed \cap Shares)]

OverviewRate ==
  LET paid == [s \in Symbols |-> figures[s].avg * figures[s].amount] IN
  Rate(OverviewTotals.profit, SumOf(paid, Rowed \cap Shares))

\* buildFallbackInsights, shown while the service has no forecast: its level.
FallbackLevel ==
  CASE Rowed \cap Shares = {} -> 2
    [] Rowed \cap Shares # {} /\ OverviewRate >= 180 -> 4
    [] Rowed \cap Shares # {} /\ OverviewRate \in 70 .. 179 -> 3
    [] Rowed \cap Shares # {} /\ OverviewRate \in 0 .. 69 -> 2
    [] Rowed \cap Shares # {} /\ OverviewRate \in -80 .. -1 -> 1
    [] OTHER -> 0

-----------------------------------------------------------------------------
(* Specification *)

FiguresNext == RowsRead \/ MockAdd \/ MockUpdate \/ RowGoes \/ PricesApplied

FiguresSpec == FiguresInit /\ [][FiguresNext]_figureVars

-----------------------------------------------------------------------------
(* Properties *)

\* What a row keeps was computed from what else it keeps, whoever wrote it last.
RowsAddUp ==
  \A s \in Rowed :
    LET r == figures[s] IN
    /\ r.value = r.amount * r.price
    /\ r.profit = r.value - r.amount * r.avg
    /\ r.change * r.amount = r.profit

\* The page and its overview show one total; their profits differ by that of the
\* cash and by nothing else.
PagesAgree ==
  LET profit == [s \in Symbols |-> figures[s].profit] IN
  /\ PageTotals.evaluation = OverviewTotals.value
  /\ PageTotals.cash = OverviewTotals.cash
  /\ PageTotals.profit - OverviewTotals.profit = SumOf(profit, Rowed \cap Monies)
  /\ PageTotals.losses <= 0 /\ PageTotals.losses <= PageTotals.profit

\* Prices that only rise darken neither forecast and take the page below no
\* index it was above of.
RisingPricesBrighten ==
  [][/\ Rowed = Rowed' /\ Rowed # {}
     /\ \A s \in Rowed : /\ figures'[s].amount = figures[s].amount /\ figures'[s].avg = figures[s].avg
                         /\ figures'[s].price >= figures[s].price
     => /\ ForecastScore(ProfitRate, DailyRate, LossRate)'
             >= ForecastScore(ProfitRate, DailyRate, LossRate)
        /\ FallbackLevel' >= FallbackLevel
        /\ \A b \in DOMAIN Benchmarks : Benchmarks[b] = "above" => Benchmarks'[b] = "above"]_figureVars

=============================================================================
