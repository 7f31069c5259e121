-------------------------------- MODULE Endpoints --------------------------------
(***************************************************************************)
(* The endpoints of the application: which handler of which controller a   *)
(* request reaches, and which roles the handler is open to.                *)
(*                                                                         *)
(* A controller states its handlers in an order, a prefix for their paths  *)
(* and roles for those that state none themselves; a request is handled by *)
(* the first handler registered whose method and path it matches.          *)
(***************************************************************************)
EXTENDS Naturals, Sequences

-----------------------------------------------------------------------------
(* Roles.                                                                  *)

Managers    == {"SYSTEM_ADMIN", "ADMIN", "MANAGER"}
Supervisors == Managers \union {"SUPERVISOR"}
Everyone    == Supervisors \union {"STAFF"}
Unstated    == {}

RoleCodes == <<"STAFF", "SUPERVISOR", "MANAGER", "ADMIN", "SYSTEM_ADMIN">>

-----------------------------------------------------------------------------
(* Handlers.  Id stands in a path for a parameter.                         *)

Id == ":id"

Handler(method, path, name, roles) ==
    [method |-> method, path |-> path, name |-> name, roles |-> roles, public |-> FALSE]
Get(path, name, roles)    == Handler("GET", path, name, roles)
Post(path, name, roles)   == Handler("POST", path, name, roles)
Patch(path, name, roles)  == Handler("PATCH", path, name, roles)
Delete(path, name, roles) == Handler("DELETE", path, name, roles)
Public(handler) == [handler EXCEPT !.public = TRUE]

\* A controller: getAllAndOverride takes the roles of the handler before those
\* of the class.
Under(prefix, classRoles, handlers) ==
    [i \in DOMAIN handlers |->
       [handlers[i] EXCEPT !.path  = prefix \o @,
                           !.roles = IF @ = Unstated THEN classRoles ELSE @]]

\* The controllers of the tables whose rows are deactivated, and of those whose
\* rows are deleted, state the same handlers.
DeactivatedTable(prefix) == Under(prefix, Everyone, <<
    Post(<<>>, "create", Managers),
    Get(<<>>, "list", Unstated),
    Get(<<Id>>, "getOne", Unstated),
    Patch(<<Id>>, "update", Managers),
    Delete(<<Id>>, "deactivate", Managers),
    Patch(<<Id, "reactivate">>, "reactivate", Managers)>>)

DeletedTable(prefix) == Under(prefix, Everyone, <<
    Post(<<>>, "create", Managers),
    Get(<<>>, "list", Unstated),
    Get(<<Id>>, "getOne", Unstated),
    Patch(<<Id>>, "update", Managers),
    Delete(<<Id>>, "delete", Managers)>>)

-----------------------------------------------------------------------------
(* The controllers.                                                        *)

AuthController == Under(<<"auth">>, Unstated, <<
    Public(Post(<<"login">>, "login", Unstated)),
    Public(Post(<<"refresh">>, "refresh", Unstated)),
    Post(<<"logout">>, "logout", Unstated)>>)

CustomersController == DeactivatedTable(<<"customers">>)
SuppliersController == DeactivatedTable(<<"suppliers">>)
WarehousesController == DeactivatedTable(<<"warehouses">>)
ProductionLinesController == DeactivatedTable(<<"production-setup", "lines">>)
DepartmentsController == DeactivatedTable(<<"organization", "departments">>)
WorkingShiftsController == DeactivatedTable(<<"organization", "working-shifts">>)
ModelsController == DeactivatedTable(<<"garment-models">>)
StageDefinitionsController == DeletedTable(<<"production-setup", "stages">>)
ColorsController == DeletedTable(<<"measurements", "colors">>)
SizesController == DeletedTable(<<"measurements", "sizes">>)

ModelPartsController == Under(<<"garment-models">>, Everyone, <<
    Get(<<Id, "parts">>, "list", Unstated),
    Post(<<Id, "parts">>, "add", Managers),
    Patch(<<Id, "parts", Id>>, "update", Managers),
    Delete(<<Id, "parts", Id>>, "remove", Managers)>>)

ModelColorsSizesController == Under(<<"garment-models">>, Managers, <<
    Post(<<Id, "colors">>, "assignColor", Unstated),
    Delete(<<Id, "colors", Id>>, "removeColor", Unstated),
    Post(<<Id, "sizes">>, "assignSize", Unstated),
    Delete(<<Id, "sizes", Id>>, "removeSize", Unstated)>>)

WarehouseLocationsController == Under(<<"warehouse-locations">>, Everyone, <<
    Post(<<>>, "create", Managers),
    Get(<<>>, "list", Unstated),
    Get(<<"warehouse", Id, "hierarchy">>, "hierarchy", Unstated),
    Get(<<Id>>, "getOne", Unstated),
    Get(<<Id, "validate">>, "validate", Unstated),
    Patch(<<Id, "status">>, "updateStatus", Managers)>>)

MovementHandlers == <<
    Post(<<"bags", Id, "transfer-warehouse">>, "transferBagToWarehouse", Unstated),
    Post(<<"bags", Id, "assign-order">>, "assignBagToOrder", Unstated),
    Post(<<"bags", Id, "return">>, "returnBagFromOrder", Unstated)>>

AvailabilityHandlers == <<
    Get(<<"availability", "bags", Id>>, "getBagAvailability", Unstated),
    Get(<<"availability", "warehouse", Id>>, "getWarehouseAvailability", Unstated),
    Get(<<"availability", "model", Id>>, "getModelAvailability", Unstated)>>

BalanceHandlers == <<
    Get(<<"balance", "warehouse", Id>>, "getWarehouseBalanceSummary", Unstated),
    Get(<<"balance", "model", Id>>, "getModelBalanceSummary", Unstated),
    Get(<<"balance", "snapshot">>, "getBalanceSnapshot", Unstated)>>

CountHandlers == <<
    Post(<<"adjustments">>, "applyAdjustment", Unstated),
    Post(<<"cycle-counts">>, "openCycleCount", Unstated),
    Get(<<"cycle-counts">>, "listCycleCounts", Unstated),
    Get(<<"cycle-counts", Id>>, "getCycleCount", Unstated),
    Post(<<"cycle-counts", Id, "actions">>, "addCycleCountAction", Unstated),
    Patch(<<"cycle-counts", Id, "close">>, "closeCycleCount", Unstated)>>

PerformanceHandlers == <<
    Get(<<"performance", "summary">>, "getPerformanceSummary", Unstated),
    Get(<<"performance", "bag-status">>, "getBagStatusDistribution", Unstated)>>

ReportHandlers == <<
    Get(<<"reports", "transaction-volume">>, "getTransactionVolumeReport", Unstated),
    Get(<<"reports", "stock-position">>, "getStockPositionReport", Unstated),
    Get(<<"reports", "variances">>, "getVarianceReport", Unstated)>>

IntegrationHandlers == <<
    Get(<<"integration", "orders", Id>>, "getOrderInventoryContext", Unstated),
    Get(<<"integration", "wip">>, "listWipPositions", Unstated)>>

TransactionHandlers == <<
    Post(<<"transactions">>, "createTransaction", Unstated),
    Post(<<"transactions", "receive">>, "receive", Unstated),
    Post(<<"transactions", "issue">>, "issue", Unstated),
    Post(<<"transactions", "transfer">>, "transfer", Unstated),
    Post(<<"transactions", "adjust">>, "adjust", Unstated),
    Get(<<"transactions">>, "listTransactions", Unstated),
    Get(<<"transactions", Id>>, "getTransaction", Unstated),
    Get(<<"bags", Id, "history">>, "getBagHistory", Unstated)>>

ReservationHandlers == <<
    Post(<<"reservations">>, "createReservation", Unstated),
    Post(<<"reservations", Id, "release">>, "releaseReservation", Unstated),
    Post(<<"reservations", Id, "cancel">>, "cancelReservation", Unstated),
    Post(<<"reservations", Id, "expire">>, "expireReservation", Unstated),
    Get(<<"reservations">>, "listReservations", Unstated),
    Get(<<"reservations", Id>>, "getReservation", Unstated),
    Get(<<"bags", Id, "reservations">>, "getBagReservations", Unstated),
    Get(<<"orders", Id, "reservations">>, "getOrderReservations", Unstated)>>

InventoryHandlers ==
    MovementHandlers \o AvailabilityHandlers \o BalanceHandlers \o CountHandlers
      \o PerformanceHandlers \o ReportHandlers \o IntegrationHandlers \o TransactionHandlers
      \o ReservationHandlers

InventoryController == Under(<<"inventory">>, Everyone, InventoryHandlers)

ProductionController == Under(<<"production", "orders">>, Everyone, <<
    Post(<<>>, "create", Managers),
    Get(<<>>, "list", Unstated),
    Get(<<Id>>, "getOne", Unstated),
    Patch(<<Id>>, "update", Managers),
    Patch(<<Id, "plan">>, "plan", Managers),
    Patch(<<Id, "start">>, "start", Supervisors),
    Patch(<<Id, "complete">>, "complete", Supervisors),
    Patch(<<Id, "close">>, "close", Managers)>>)

MaterialReleaseController == Under(<<"production">>, Everyone, <<
    Post(<<"orders", Id, "release-groups">>, "createReleaseGroup", Supervisors),
    Get(<<"orders", Id, "release-groups">>, "listReleaseGroups", Unstated),
    Get(<<"release-groups", Id>>, "getReleaseGroup", Unstated)>>)

ProductionOrderStagesController == Under(<<"production">>, Everyone, <<
    Get(<<"orders", Id, "stages">>, "listStageLogs", Unstated),
    Get(<<"orders", Id, "stages", Id>>, "getStageLog", Unstated),
    Patch(<<"orders", Id, "stages", Id, "start">>, "startStage", Supervisors),
    Post(<<"orders", Id, "stages", Id, "output">>, "recordStageOutput", Supervisors)>>)

ProductionWipIdFirst == Under(<<"production">>, Everyone, <<
    Get(<<"wip">>, "listWip", Unstated),
    Get(<<"wip", Id>>, "getWip", Unstated),
    Get(<<"wip", "history">>, "getWipHistory", Unstated),
    Get(<<"progress">>, "getProductionProgress", Unstated)>>)

ProductionWipController == Under(<<"production">>, Everyone, <<
    Get(<<"wip">>, "listWip", Unstated),
    Get(<<"wip", "history">>, "getWipHistory", Unstated),
    Get(<<"wip", Id>>, "getWip", Unstated),
    Get(<<"progress">>, "getProductionProgress", Unstated)>>)

ProductionQualityController == Under(<<"production">>, Unstated, <<
    Post(<<"quality">>, "recordQualityOutput", Supervisors),
    Get(<<"quality">>, "listQualityBoxes", Everyone),
    Get(<<"quality", "summary">>, "getQualitySummary", Everyone),
    Get(<<"quality", "history">>, "getQualityHistory", Everyone),
    Get(<<"quality", Id>>, "getQualityBox", Everyone)>>)

ProductionReturnsController == Under(<<"production">>, Unstated, <<
    Post(<<"returns">>, "createReturn", Supervisors),
    Get(<<"returns">>, "listReturns", Everyone),
    Get(<<"returns", "summary">>, "getReturnSummary", Everyone),
    Get(<<"returns", "history">>, "getReturnHistory", Everyone),
    Get(<<"returns", Id>>, "getReturn", Everyone)>>)

ProductionPackingController == Under(<<"production">>, Unstated, <<
    Post(<<"packing">>, "createPackingOrder", Supervisors),
    Post(<<"packing", Id, "assemblies">>, "addAssembly", Supervisors),
    Patch(<<"packing", Id, "verify">>, "verifyPacking", Supervisors),
    Patch(<<"packing", Id, "post">>, "postPackingOrder", Supervisors),
    Get(<<"packing", "summary">>, "getPackingSummary", Everyone),
    Get(<<"packing", "history">>, "getPackingHistory", Everyone),
    Get(<<"packing">>, "listPackingOrders", Everyone),
    Get(<<"packing", Id>>, "getPackingOrder", Everyone)>>)

ProductionFinishedGoodsController == Under(<<"production">>, Unstated, <<
    Post(<<"finished-goods">>, "create", Supervisors),
    Get(<<"finished-goods", "summary">>, "getSummary", Everyone),
    Get(<<"finished-goods", "history">>, "getHistory", Everyone),
    Get(<<"finished-goods", "dashboard">>, "getDashboard", Everyone),
    Get(<<"finished-goods">>, "list", Everyone),
    Get(<<"finished-goods", Id>>, "getOne", Everyone)>>)

ProductionSupplementaryController == Under(<<"production">>, Unstated, <<
    Post(<<"supplementary">>, "create", Supervisors),
    Get(<<"supplementary", "summary">>, "getSummary", Everyone),
    Get(<<"supplementary", "history">>, "getHistory", Everyone),
    Get(<<"supplementary", "dashboard">>, "getDashboard", Everyone),
    Get(<<"supplementary">>, "list", Everyone),
    Get(<<"supplementary", Id>>, "getOne", Everyone),
    Patch(<<"supplementary", Id, "approve">>, "approve", Managers),
    Patch(<<"supplementary", Id, "reject">>, "reject", Supervisors),
    Patch(<<"supplementary", Id, "transfer">>, "transfer", Supervisors),
    Patch(<<"supplementary", Id, "cancel">>, "cancel", Supervisors)>>)

ProductionReportingController == Under(<<"production", "reports">>, Unstated, <<
    Get(<<"dashboard">>, "getDashboard", Everyone),
    Get(<<"summary">>, "getSummary", Everyone),
    Get(<<"kpis">>, "getKPIs", Everyone),
    Get(<<"orders">>, "getOrdersReport", Everyone),
    Get(<<"stages">>, "getStageReport", Everyone),
    Get(<<"wip">>, "getWipReport", Everyone),
    Get(<<"scrap">>, "getScrapReport", Everyone),
    Get(<<"quality">>, "getQualityReport", Everyone),
    Get(<<"packing">>, "getPackingReport", Everyone),
    Get(<<"finished-goods">>, "getFGReport", Everyone),
    Get(<<"supplementary">>, "getSupplementaryReport", Everyone),
    Get(<<"historical">>, "getHistoricalReport", Everyone)>>)

-----------------------------------------------------------------------------
(* The application.                                                        *)

\* Controllers whose prefixes overlap stand in the order of their module.
GarmentModelsModule == ModelsController \o ModelPartsController \o ModelColorsSizesController

ProductionModule ==
    ProductionController \o MaterialReleaseController \o ProductionOrderStagesController
      \o ProductionWipController \o ProductionQualityController \o ProductionReturnsController
      \o ProductionPackingController \o ProductionFinishedGoodsController
      \o ProductionSupplementaryController \o ProductionReportingController

Handlers ==
    DepartmentsController \o WorkingShiftsController \o ColorsController \o SizesController
      \o WarehousesController \o ProductionLinesController \o StageDefinitionsController
      \o CustomersController \o SuppliersController \o GarmentModelsModule \o AuthController
      \o InventoryController \o WarehouseLocationsController \o ProductionModule

\* The router: the path of a request is that of handler h with ids in the
\* place of the parameters, and an id is none of the words of a path.
Matches(g, h) ==
    /\ Handlers[g].method = Handlers[h].method
    /\ Len(Handlers[g].path) = Len(Handlers[h].path)
    /\ \A i \in 1 .. Len(Handlers[g].path) : Handlers[g].path[i] \in {Id, Handlers[h].path[i]}

Reached(h) == CHOOSE g \in DOMAIN Handlers :
                  Matches(g, h) /\ \A f \in 1 .. g - 1 : ~ Matches(f, h)
=============================================================================
