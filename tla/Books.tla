------------------------------- MODULE Books -------------------------------
(***************************************************************************)
(* The owner's reports (expense_service.go, owner_dashboard_service.go):   *)
(* profit and loss, cash flow, tax and the figures of the dashboard.  A    *)
(* report is several statements, each of which sees what is committed when *)
(* it starts; sales are uploaded and expenses are kept meanwhile, each by  *)
(* one statement.                                                          *)
(*                                                                         *)
(* Days are counted, day 0 is a Sunday and the first of a month.  A sale   *)
(* is one unit of money times its amount; there is one report at a time,   *)
(* as reports do not write.                                                *)
(***************************************************************************)
EXTENDS Integers, FiniteSetsExt

CONSTANTS
    SaleIds, ExpenseIds, Outlets,
    Amounts,       \* of sales
    Span,          \* the days there are sales and expenses on
    MonthLength,
    MaxPostings    \* bound on the writes

ASSUME RowsAssumption == IsFiniteSet(SaleIds) /\ IsFiniteSet(ExpenseIds) /\ IsFiniteSet(Outlets)
ASSUME SpanAssumption == Span \subseteq Nat /\ Amounts \subseteq Nat \ {0}
ASSUME MonthAssumption == MonthLength \in Nat \ {0} /\ MaxPostings \in Nat

VARIABLES
    today,
    sales,      \* sales[i]: a row of transactions, or NoSale
    spent,      \* spent[e]: a row of expenses, or NoExpense
    report,     \* the report being made
    stirred,    \* a row was written since the report's first statement
    postings

bookVars == <<today, sales, spent, report, stirred, postings>>

SaleRows == [outlet: Outlets, day: Span, amount: Amounts, completed: BOOLEAN]
NoSale == [amount |-> 0]
Expenses == [filed: BOOLEAN, day: Span, amount: {1, 2}]     \* filed under a category
NoExpense == [amount |-> 0]

\* "stage" is the statement to come, or "short" when the last of them was cut off;
\* the figures are 0 until they are read.
Figures == {"revenue", "expenses", "breakdown", "today", "week", "month",
            "last", "lastExpenses", "byOutlet", "shown"}
NoReport == [op |-> "none", stage |-> "none", from |-> 0, to |-> 0,
             is |-> [f \in Figures |-> 0]]

Stages == {"none", "revenue", "expenses", "breakdown", "outlets", "last", "lastExpenses", "done", "short"}
Reports == [op: {"none", "pnl", "cash", "tax", "summary", "range"}, stage: Stages,
            from: Int, to: Int, is: [Figures -> Nat]]

BooksTypeOK ==
    /\ today \in Span
    /\ sales \in [SaleIds -> SaleRows \cup {NoSale}]
    /\ spent \in [ExpenseIds -> Expenses \cup {NoExpense}]
    /\ report \in Reports
    /\ stirred \in BOOLEAN /\ postings \in 0 .. MaxPostings

BooksInit ==
    /\ today \in Span
    /\ sales = [i \in SaleIds |-> NoSale]
    /\ spent = [e \in ExpenseIds |-> NoExpense]
    /\ report = NoReport
    /\ stirred = FALSE
    /\ postings = 0

-----------------------------------------------------------------------------
\* SUM(total_amount) of the completed sales among ids, and SUM(amount).
Completed(ids) == {i \in ids : sales[i] # NoSale /\ sales[i].completed}
SumSales(ids) == MapThenSumSet(LAMBDA i : sales[i].amount, Completed(ids))
SumSpent(ids) == MapThenSumSet(LAMBDA e : spent[e].amount, ids)

SalesIn(from, to) == {i \in SaleIds : sales[i] # NoSale /\ sales[i].day \in from .. to}
SalesSince(from) == {i \in SaleIds : sales[i] # NoSale /\ sales[i].day >= from}
SpentIn(from, to) == {e \in ExpenseIds : spent[e] # NoExpense /\ spent[e].day \in from .. to}
SalesOf(o) == {i \in SaleIds : sales[i] # NoSale /\ sales[i].outlet = o}

\* Mutant of PPN: rounded to the nearest.
PPNRounded(net) == (11 * net + 50) \div 100

\* int64(float64(net) * 0.11), whose float is exact enough to be the floor.
PPN(net) == (11 * net) \div 100

\* Mutant of WeekStart: time.Sunday is 0, and is not taken for the seventh day.
WeekStartSunday(d) == d - ((d % 7) - 1)

\* Weeks begin on Monday.
WeekStart(d) == d - ((IF d % 7 = 0 THEN 7 ELSE d % 7) - 1)
MonthStart(d) == d - (d % MonthLength)

\* Mutant of PreviousTo: the period before ends on the day that this one begins.
PreviousToSame(from) == from

\* The period before, as long as from .. to, and its last day.
PreviousFrom(from, to) == from - (to - from + 1)
PreviousTo(from) == from - 1

-----------------------------------------------------------------------------
(***************************************************************************)
(* Writes: an upload inserts a sale or changes its status.                 *)
(***************************************************************************)
Post ==
    /\ postings < MaxPostings
    /\ postings' = postings + 1
    /\ stirred' = (report # NoReport)
    /\ UNCHANGED <<today, report>>

UploadSale(i, row) ==
    /\ sales[i] = NoSale
    /\ sales' = [sales EXCEPT ![i] = row]
    /\ Post /\ UNCHANGED spent

UploadStatus(i) ==
    /\ sales[i] # NoSale
    /\ sales' = [sales EXCEPT ![i].completed = ~@]
    /\ Post /\ UNCHANGED spent

CreateExpense(e, row) ==
    /\ spent[e] = NoExpense
    /\ spent' = [spent EXCEPT ![e] = row]
    /\ Post /\ UNCHANGED sales

\* Mutant of UpdateExpense: columns that are not given are cleared.
UpdateExpenseWhole(e, given) ==
    /\ spent[e] # NoExpense
    /\ spent' = [spent EXCEPT ![e].amount = IF "amount" \in DOMAIN given THEN given.amount ELSE 0]
    /\ Post /\ UNCHANGED sales

\* COALESCE: the columns that are given.
UpdateExpense(e, given) ==
    /\ spent[e] # NoExpense
    /\ spent' = [spent EXCEPT ![e] = [c \in DOMAIN @ |-> IF c \in DOMAIN given THEN given[c] ELSE @[c]]]
    /\ Post /\ UNCHANGED sales

DeleteExpense(e) ==
    /\ spent[e] # NoExpense
    /\ spent' = [spent EXCEPT ![e] = NoExpense]
    /\ Post /\ UNCHANGED sales

-----------------------------------------------------------------------------
(***************************************************************************)
(* Reports, statement by statement.                                        *)
(***************************************************************************)
Open(op, from, to) ==
    /\ report = NoReport
    /\ report' = [NoReport EXCEPT !.op = op, !.stage = "revenue", !.from = from, !.to = to]
    /\ stirred' = FALSE
    /\ UNCHANGED <<today, sales, spent, postings>>

GetPnLReport(from, to) == Open("pnl", from, to)
GetCashFlowReport(from, to) == Open("cash", from, to)
GetTaxReport(from, to) == Open("tax", from, to)
GetSummary == Open("summary", MonthStart(today), today)
GetSummaryByDateRange(from, to) == from <= to /\ Open("range", from, to)

Step(op, stage, next, figures) ==
    /\ report.op = op /\ report.stage = stage
    /\ report' = [report EXCEPT !.stage = next,
                     !.is = [f \in Figures |-> IF f \in DOMAIN figures THEN figures[f] ELSE @[f]]]
    /\ UNCHANGED <<today, sales, spent, stirred, postings>>

RevenueIn == SumSales(SalesIn(report.from, report.to))
ExpensesIn == SumSpent(SpentIn(report.from, report.to))

\* Mutant of Breakdown: an inner join loses the expenses without a category.
BreakdownFiled == SumSpent({e \in SpentIn(report.from, report.to) : spent[e].filed})

\* The sums by category, and that of the expenses without one, added up.
Breakdown ==
    SumSpent({e \in SpentIn(report.from, report.to) : spent[e].filed})
        + SumSpent({e \in SpentIn(report.from, report.to) : ~spent[e].filed})

\* The rows of the breakdown are read in a loop that takes a read that is cut
\* off midway for the end of them, so that a short breakdown is answered.
PnLStep ==
    \/ Step("pnl", "revenue", "expenses", [revenue |-> RevenueIn])
    \/ Step("pnl", "expenses", "breakdown", [expenses |-> ExpensesIn])
    \/ Step("pnl", "breakdown", "done", [breakdown |-> Breakdown])
    \/ \E ids \in SUBSET SpentIn(report.from, report.to) :
          Step("pnl", "breakdown", "short", [breakdown |-> SumSpent(ids)])

CashFlowStep ==
    \/ Step("cash", "revenue", "expenses", [revenue |-> RevenueIn])
    \/ Step("cash", "expenses", "done", [expenses |-> ExpensesIn])

SoldBy(o) == SalesOf(o) \cap SalesIn(report.from, report.to)
Shown == {o \in Outlets : Completed(SoldBy(o)) # {}}
Taxes == [o \in Outlets |-> PPN(SumSales(SoldBy(o)))]
SumTaxes(shown) == MapThenSumSet(LAMBDA o : Taxes[o], shown)

\* The tax of the whole, and those of the outlets that sold anything, or of some
\* of them when the loop is cut off.
TaxStep ==
    \/ Step("tax", "revenue", "outlets", [revenue |-> PPN(RevenueIn)])
    \/ Step("tax", "outlets", "done",
            [byOutlet |-> SumTaxes(Shown), shown |-> Cardinality(Shown)])
    \/ \E shown \in SUBSET Shown :
          Step("tax", "outlets", "short",
               [byOutlet |-> SumTaxes(shown), shown |-> Cardinality(shown)])

\* Today, this week and this month in one query; then the month before; then the
\* expenses, which are taken as none when they cannot be read.
SummaryStep ==
    \/ Step("summary", "revenue", "last",
            [today |-> SumSales(SalesSince(today)), week |-> SumSales(SalesSince(WeekStart(today))),
             month |-> SumSales(SalesSince(MonthStart(today)))])
    \/ Step("summary", "last", "expenses",
            [last |-> SumSales(SalesIn(MonthStart(today) - MonthLength, MonthStart(today) - 1))])
    \/ Step("summary", "expenses", "done", [expenses |-> ExpensesIn])
    \/ Step("summary", "expenses", "done", [expenses |-> 0])

RangeStep ==
    \/ Step("range", "revenue", "expenses", [revenue |-> RevenueIn])
    \/ Step("range", "expenses", "last", [expenses |-> ExpensesIn])
    \/ LET from == PreviousFrom(report.from, report.to)
           to == PreviousTo(report.from)
       IN \/ Step("range", "last", "lastExpenses", [last |-> SumSales(SalesIn(from, to))])
          \/ Step("range", "lastExpenses", "done", [lastExpenses |-> SumSpent(SpentIn(from, to))])
          \/ Step("range", "lastExpenses", "done", [lastExpenses |-> 0])

\* Answered, failed, or given up.
Close ==
    /\ report # NoReport
    /\ report' = NoReport
    /\ stirred' = FALSE
    /\ UNCHANGED <<today, sales, spent, postings>>

BooksNext ==
    \/ \E i \in SaleIds : UploadStatus(i) \/ \E row \in SaleRows : row.completed /\ UploadSale(i, row)
    \/ \E e \in ExpenseIds :
          \/ \E row \in Expenses : CreateExpense(e, row)
          \/ \E given \in [amount: {1, 2}] \cup [filed: BOOLEAN] : UpdateExpense(e, given)
          \/ DeleteExpense(e)
    \/ \E from, to \in Span :
          \/ GetPnLReport(from, to) \/ GetCashFlowReport(from, to)
          \/ GetTaxReport(from, to) \/ GetSummaryByDateRange(from, to)
    \/ GetSummary
    \/ PnLStep \/ CashFlowStep \/ TaxStep \/ SummaryStep \/ RangeStep
    \/ Close

BooksSpec == BooksInit /\ [][BooksNext]_bookVars

-----------------------------------------------------------------------------
(***************************************************************************)
(* Properties.                                                             *)
(***************************************************************************)
Made(op) == report.op = op /\ report.stage = "done"

\* The expenses by category add up to the expenses, with or without a category,
\* unless something was written while the report was made or the read of its last
\* statement was cut off (expense_service.go:268-312).
BreakdownComplete ==
    Made("pnl") /\ ~stirred => report.is["breakdown"] = report.is["expenses"]

\* Each outlet's tax is rounded down for itself: together they are less than the
\* tax of the whole by less than the number of outlets shown, with the same two
\* exceptions (expense_service.go:413-457).
TaxDriftBounded ==
    Made("tax") /\ ~stirred =>
        LET drift == report.is["revenue"] - report.is["byOutlet"]
        IN drift >= 0 /\ (drift = 0 \/ drift < report.is["shown"])

\* What was sold today counts for the week and for the month, on every day of
\* the week and of the month, and whatever is sold while the summary is made
\* (owner_dashboard_service.go:72-115).
TodayWithinWeekAndMonth ==
    Made("summary") =>
        report.is["today"] <= report.is["week"] /\ report.is["today"] <= report.is["month"]

\* The period of a comparison and the one before it share no sale and leave none
\* between them out (owner_dashboard_service.go:319-399).
PeriodsAbut ==
    Made("range") /\ ~stirred =>
        report.is["revenue"] + report.is["last"]
            = SumSales(SalesIn(PreviousFrom(report.from, report.to), report.to))

\* The figures of a report agree with one another, though each is read by a
\* statement of its own (expense_service.go:264-458, owner_dashboard_service.go:70-408).
FiguresAgree ==
    /\ BreakdownComplete
    /\ TaxDriftBounded
    /\ TodayWithinWeekAndMonth
    /\ PeriodsAbut
=============================================================================
