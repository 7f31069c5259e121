--------------------------- MODULE ProductionReports ---------------------------
(***************************************************************************)
(* What the reports of the production module, the progress of an order and *)
(* its summary say of the orders, their stage logs and their scrap.  They  *)
(* read several tables, and the same number from more than one of them.    *)
(*                                                                         *)
(* A report sums dozens and counts rows; those on work in progress,        *)
(* packing and finished goods, and the cutting into pages, are left out.   *)
(***************************************************************************)
EXTENDS OrderLifecycle

\* None is a filter that is not given.
ASSUME ReportConstants ==
    /\ IsFiniteSet(Orders)
    /\ None \notin Orders \union Stages

\* The rows of a table, and those a filter that is given lets through.
OrderRows == {o \in Orders : status[o] # "none"}
OrdersWith(statuses) == {o \in OrderRows : status[o] \in statuses}
LogRows == {k \in Orders \X Stages : log[k].status # "none"}
Filtered(keys, o, s) == {k \in keys : o \in {None, k[1]} /\ s \in {None, k[2]}}

ScrapOf(keys) == SumFunctionOnSet([k \in keys |-> log[k].scrap], keys)
IncompleteOf(keys) == SumFunctionOnSet([k \in keys |-> log[k].incomplete], keys)

-----------------------------------------------------------------------------
(* The repository.                                                         *)

DashboardData ==
    [ordersByStatus |-> [t \in {status[o] : o \in OrderRows} |-> Cardinality(OrdersWith({t}))],
     totalScrapDozens |-> ScrapOf(LogRows)]

OrderSummaryData(o) ==
    LET logs == Filtered(LogRows, o, None)
        count(t) == Cardinality({k \in logs : log[k].status = t})
    IN  [total |-> Cardinality(logs), completed |-> count("COMPLETE"), in_progress |-> count("IN_PROGRESS"),
         pending |-> Cardinality(logs) - count("COMPLETE") - count("IN_PROGRESS"),
         scrapDozens |-> ScrapOf(logs), incompleteDozens |-> IncompleteOf(logs), packing |-> packing[o]]

KPIData ==
    [totalOrders |-> Cardinality(OrderRows),
     activeOrders |-> Cardinality(OrdersWith({"IN_PRODUCTION"})),
     completedOrders |-> Cardinality(OrdersWith({"PRODUCTION_COMPLETE", "CLOSED"})),
     totalScrapDozens |-> ScrapOf(LogRows)]

OrdersReport(statuses) == OrdersWith(statuses)

StageReport(o, s, statuses) == {k \in Filtered(LogRows, o, s) : log[k].status \in statuses}

\* The only one that reads scrap_records.
ScrapReport(o, s) ==
    LET keys == Filtered(Orders \X Stages, o, s)
    IN  [total |-> SumFunctionOnSet([k \in keys |-> scrapped[k].records], keys),
         total_dozens |-> SumFunctionOnSet([k \in keys |-> scrapped[k].dozens], keys)]

-----------------------------------------------------------------------------
(* The service and the use case.                                           *)

Dashboard ==
    LET data == DashboardData
        statuses == DOMAIN data.ordersByStatus
    IN  [total_orders |-> SumFunctionOnSet(data.ordersByStatus, statuses),
         active_orders |-> IF "IN_PRODUCTION" \in statuses THEN data.ordersByStatus["IN_PRODUCTION"] ELSE 0,
         total_scrap_dozens |-> data.totalScrapDozens]

\* In hundredths of a percent, rounded half up; nothing of nothing is none.
Percent(part, whole) == IF whole = 0 THEN 0 ELSE (20000 * part + whole) \div (2 * whole)

KPIs ==
    [total_orders |-> KPIData.totalOrders, active_orders |-> KPIData.activeOrders,
     completed_orders |-> KPIData.completedOrders, total_scrap_dozens |-> KPIData.totalScrapDozens,
     completion_rate_pct |-> Percent(KPIData.completedOrders, KPIData.totalOrders)]

Progress(o) ==
    LET completed == LogsOf(o) \ NonComplete(o)
        active == {s \in NonComplete(o) : log[<<o, s>>].status = "IN_PROGRESS"}
    IN  [total_stages |-> Cardinality(LogsOf(o)), completed_stages |-> Cardinality(completed),
         progress_percent |-> Percent(Cardinality(completed), Cardinality(LogsOf(o))),
         may_be_current |-> active]

-----------------------------------------------------------------------------
(* Property.                                                               *)

\* The dozens of a scrap report, to half a unit for each of its records.
Reported(report, dozens) == Near([records |-> report.total, dozens |-> report.total_dozens], dozens)

\* The reports tell one story.  The scrap of an order, and of a stage of it, is
\* the same in the scrap report, which sums scrap_records, as in the summary,
\* the dashboard and the figures, which sum the stage logs, but for the
\* rounding of the records; the dashboard, the figures and the lists count the
\* same orders and the same scrap; and an order is past its production only at
\* a progress of 100 percent, with no more scrapped and left incomplete than
\* was released to it, but for a unit in the rounding of each stage.
ReportsAgree ==
    /\ ScrapRecordsAddUp
    /\ \A o \in Orders :
          LET summary  == OrderSummaryData(o)
              progress == Progress(o)
          IN  /\ Reported(ScrapReport(o, None), summary.scrapDozens)
              /\ summary.total = progress.total_stages /\ summary.completed = progress.completed_stages
              /\ summary.pending = Cardinality(StageReport(o, None, {"PENDING"}))
              /\ summary.in_progress = Cardinality(progress.may_be_current)
              /\ status[o] \in {"PRODUCTION_COMPLETE", "CLOSED"} =>
                    /\ progress.progress_percent = 10000
                    /\ summary.scrapDozens + summary.incompleteDozens <= released[o] + summary.completed
              /\ progress.progress_percent = 10000 => AllStagesComplete(o)
    /\ Reported(ScrapReport(None, None), Dashboard.total_scrap_dozens)
    /\ {Dashboard.total_scrap_dozens, KPIs.total_scrap_dozens}
          = {ScrapOf(StageReport(None, None, {"PENDING", "IN_PROGRESS", "COMPLETE"}))}
    /\ Dashboard.total_orders = KPIs.total_orders /\ Dashboard.active_orders = KPIs.active_orders
    /\ KPIs.completed_orders = Cardinality(OrdersReport({"PRODUCTION_COMPLETE", "CLOSED"}))
    /\ KPIs.completion_rate_pct = 10000 <=> (OrderRows # {} /\ OrderRows = OrdersReport({"PRODUCTION_COMPLETE", "CLOSED"}))
=============================================================================
