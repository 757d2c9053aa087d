---------------------------- MODULE AdminScreens ----------------------------
(***************************************************************************)
(* The screens of stitch-admin over QueryCache: which queries each page    *)
(* and dialog observes, and for each button which data it needs, what it   *)
(* writes and how its success handler refreshes the cache.                 *)
(*                                                                         *)
(* The layout, the form fields and the wording of a screen are left out.   *)
(* Two screens read the server without react-query and are not here: the   *)
(* service orders and the MTRs.                                            *)
(***************************************************************************)
EXTENDS AdminApi, SequencesExt

-----------------------------------------------------------------------------
\* Pages and the dialogs that observe queries of their own

DashboardPage == {GetDashboardStats}
LeadsPage == {ListLeads}
PipelinePage == {ListOpportunities}
CustomersPage == {ListCompanies}
CustomerDetailsPage == {GetCompany, ListContacts, ListQuotations}
AtendimentoWizardPage == {ListLeads, ListOfferings, ListPriceTables}
QuotationsPage == {ListQuotations, ListCompanies}
AddQuotationModal == {ListCompanies, ListPriceTables, ListDestinations, ListMtrs}
QuotationDetailsPage == {GetQuotation}
AddQuotationItemModal == {ListOfferings, ListUoms}
ContractsPage == {ListContracts, ListLeads}
ContractDetailsPage == {ListContracts}
\* OfferingForm is rendered, closed, with the table.
OfferingForm == {ListUoms}
OfferingsTable == {ListOfferings} \cup OfferingForm
EditOfferingModal == {ListAttributes}
AttributesTable == {ListAttributes}
UOMTable == {ListUoms}
PriceTablesTable == {ListPriceTables}
PriceTableDetailsPage == {GetPriceTable, ListOfferings, ListUoms}
ServicePlansPage == {ListAllPlans}
ServicePlanDetailsPage == {GetPlan}
DestinationsPage == {ListAllDestinations}
RequirementsPage == {ListRequirements}
\* AddRouteModal is rendered, closed, with the routes and the planner pages.
AddRouteModal == {ListVehicles, ListDrivers}
RoutesPage == {ListRoutes} \cup AddRouteModal
PlannerPage == {ListRoutes, ListRequirements, ListVehicles, ListDrivers}
RouteMapModal == {ListLeads}
DispatchWizard == {ListServiceOrders("PENDING"), ListVehicles, ListDrivers}
FleetPage == {ListVehicles}
DriversPage == {ListDrivers}
BillingInvoicesTab == {ListInvoices}

\* Dialogs are written with the name of their page first.
Observes ==
    [Dashboard |-> DashboardPage, Leads |-> LeadsPage, LeadsNew |-> {},
     Pipeline |-> PipelinePage, Customers |-> CustomersPage,
     CustomersNew |-> {}, Customer |-> CustomerDetailsPage,
     CustomerEdit |-> {}, Atendimento |-> AtendimentoWizardPage,
     Quotations |-> QuotationsPage, QuotationsNew |-> AddQuotationModal,
     Quotation |-> QuotationDetailsPage, QuotationItem |-> AddQuotationItemModal,
     Contracts |-> ContractsPage, Contract |-> ContractDetailsPage,
     Offerings |-> OfferingsTable, OfferingsNew |-> {},
     OfferingsEdit |-> EditOfferingModal, Attributes |-> AttributesTable,
     AttributesNew |-> {}, Uoms |-> UOMTable, UomsNew |-> {},
     PriceTables |-> PriceTablesTable, PriceTablesForm |-> {},
     PriceTable |-> PriceTableDetailsPage, PriceTableEdit |-> {},
     Plans |-> ServicePlansPage, Plan |-> ServicePlanDetailsPage,
     Destinations |-> DestinationsPage, DestinationsForm |-> {},
     Requirements |-> RequirementsPage, Planner |-> PlannerPage,
     PlannerRoute |-> {}, Routes |-> RoutesPage, RoutesRoute |-> {},
     RoutesMap |-> RouteMapModal, RoutesDispatch |-> DispatchWizard,
     Fleet |-> FleetPage, FleetNew |-> {}, Drivers |-> DriversPage,
     DriversNew |-> {}, Billing |-> BillingInvoicesTab]

AllScreens == DOMAIN Observes

DialogOver ==
    [LeadsNew |-> "Leads", CustomersNew |-> "Customers",
     CustomerEdit |-> "Customer", QuotationsNew |-> "Quotations",
     QuotationItem |-> "Quotation", OfferingsNew |-> "Offerings",
     OfferingsEdit |-> "Offerings", AttributesNew |-> "Attributes",
     UomsNew |-> "Uoms", PriceTablesForm |-> "PriceTables",
     PriceTableEdit |-> "PriceTable", DestinationsForm |-> "Destinations",
     PlannerRoute |-> "Planner", RoutesRoute |-> "Routes",
     RoutesMap |-> "Routes", RoutesDispatch |-> "Routes",
     FleetNew |-> "Fleet", DriversNew |-> "Drivers"]

PageOf == [s \in AllScreens |->
             IF s \in DOMAIN DialogOver THEN DialogOver[s] ELSE s]

AllKeys == UNION {Observes[s] : s \in AllScreens}

-----------------------------------------------------------------------------
\* Commands

(* The queries an invalidation matches: those whose key it is a prefix of. *)
Matching(key) == {k \in AllKeys : IsPrefix(key, k)}

(* A handler that awaits the mutation runs wherever the user has gone.     *)
Awaited ==
    [at |-> {}, needs |-> {}, writes |-> {}, invalidates |-> {},
     refetches |-> {}, neglects |-> {}, alive |-> AllScreens, goto |-> "close"]

(* A handler given to mutate() runs only while its component is mounted.   *)
WhileMounted(screens) == [Awaited EXCEPT !.alive = screens]

\* LeadsPage, its form, and the pipeline
ConvertLead ==
    [Awaited EXCEPT !.at = {"Leads"}, !.needs = LeadsPage,
        !.writes = MatchLeadToCompany, !.refetches = {ListLeads}]

(* The handler of the form invalidates the name of the operation, which is *)
(* the key of no query; the refetch is the page's own, after it.           *)
CustomerForm ==
    [WhileMounted({"Leads", "LeadsNew"}) EXCEPT !.at = {"LeadsNew"},
        !.writes = RegisterLead,
        !.invalidates = Matching(<<"listLeadsApiV1CommercialLeadsGet">>),
        !.refetches = {ListLeads}]

(* A mutant: the name of the operation, as the other forms write it.        *)
MoveStageByName ==
    [Awaited EXCEPT !.at = {"Pipeline"}, !.needs = PipelinePage,
        !.writes = UpdateOpportunityStage,
        !.invalidates =
            Matching(<<"listOpportunitiesApiV1CommercialOpportunitiesGet">>)]

MoveStage ==
    [Awaited EXCEPT !.at = {"Pipeline"}, !.needs = PipelinePage,
        !.writes = UpdateOpportunityStage,
        !.invalidates = Matching(ListOpportunities)]

\* Customers
AddCompanyModal ==
    [Awaited EXCEPT !.at = {"CustomersNew"}, !.writes = CreateCompany,
        !.invalidates = Matching(ListCompanies)]

EditCompanyModal ==
    [Awaited EXCEPT !.at = {"CustomerEdit"}, !.needs = {GetCompany},
        !.writes = UpdateCompany,
        !.invalidates = Matching(GetCompany) \cup Matching(ListCompanies)]

\* Quotations and contracts
SubmitAddQuotation ==
    [Awaited EXCEPT !.at = {"QuotationsNew"},
        !.needs = {ListCompanies, ListPriceTables},
        !.writes = CreateQuotation,
        !.invalidates = Matching(ListQuotations), !.goto = "Quotation"]

SubmitAddItem ==
    [Awaited EXCEPT !.at = {"QuotationItem"},
        !.needs = {GetQuotation, ListOfferings, ListUoms},
        !.writes = AddQuotationItem,
        !.invalidates = Matching(GetQuotation)]

QuotationButton(writes) ==
    [Awaited EXCEPT !.at = {"Quotation"}, !.needs = {GetQuotation},
        !.writes = writes, !.invalidates = Matching(GetQuotation)]
CalculateButton == QuotationButton(CalculateQuotation)
SubmitButton == QuotationButton(SubmitQuotation)
ApproveButton == QuotationButton(ApproveQuotation)
RejectButton == QuotationButton(RejectQuotation)

\* One flag disables both buttons while either is at work.
ContractButtons ==
    [Awaited EXCEPT !.at = {"Contract"}, !.needs = {ListContracts},
        !.writes = SendContractForSignature \cup ActivateContract,
        !.refetches = {ListContracts}]

(* The wizard writes step after step and refreshes nothing: the list of    *)
(* leads on its own page lacks the lead it has just registered.            *)
WizardClient ==
    [Awaited EXCEPT !.at = {"Atendimento"}, !.needs = {ListPriceTables},
        !.writes = RegisterLead \cup CreateQuotation,
        !.neglects = {ListLeads}]
WizardServices ==
    [Awaited EXCEPT !.at = {"Atendimento"}, !.needs = {ListOfferings},
        !.writes = AddQuotationItem]
WizardCalculate ==
    [Awaited EXCEPT !.at = {"Atendimento"}, !.writes = CalculateQuotation]
WizardFinish ==
    [Awaited EXCEPT !.at = {"Atendimento"},
        !.writes = ApproveQuotation \cup CreateContract,
        !.goto = "Customers"]

\* Catalog and prices
SubmitOffering ==
    [WhileMounted({"Offerings", "OfferingsNew", "OfferingsEdit"}) EXCEPT
        !.at = {"OfferingsNew"}, !.needs = {ListUoms},
        !.writes = DraftOffering,
        !.invalidates = Matching(<<"listOfferingsApiV1CatalogOfferingsGet">>),
        !.refetches = {ListOfferings}]

(* This dialog is unmounted when it closes, and its close button works     *)
(* while the request is pending: the handler then never runs.              *)
AttachButton ==
    [WhileMounted({"OfferingsEdit"}) EXCEPT !.at = {"OfferingsEdit"},
        !.needs = {ListOfferings, ListAttributes},
        !.writes = AttachAttribute,
        !.invalidates = Matching(<<"listOfferingsApiV1CatalogOfferingsGet">>),
        !.refetches = {ListOfferings}, !.goto = "stay"]

AttributeForm ==
    [WhileMounted({"Attributes", "AttributesNew"}) EXCEPT
        !.at = {"AttributesNew"}, !.writes = DefineAttribute,
        !.invalidates = Matching(<<"listAttributesApiV1CatalogAttributesGet">>),
        !.refetches = {ListAttributes}]

UOMForm ==
    [WhileMounted({"Uoms", "UomsNew"}) EXCEPT !.at = {"UomsNew"},
        !.writes = RegisterUom,
        !.invalidates = Matching(<<"listUomsApiV1CatalogUomGet">>),
        !.refetches = {ListUoms}]

PriceTableForm(dialog, writes, page) ==
    [Awaited EXCEPT !.at = {dialog}, !.writes = writes, !.refetches = {page}]
CreateTable == PriceTableForm("PriceTablesForm", CreatePriceTable, ListPriceTables)
UpdateTable == PriceTableForm("PriceTablesForm", UpdatePriceTable, ListPriceTables)
UpdateShownTable == PriceTableForm("PriceTableEdit", UpdatePriceTable, GetPriceTable)
ToggleTable ==
    [Awaited EXCEPT !.at = {"PriceTables"}, !.needs = {ListPriceTables},
        !.writes = TogglePriceTableStatus, !.refetches = {ListPriceTables}]
AddTableItem ==
    [Awaited EXCEPT !.at = {"PriceTable"}, !.needs = PriceTableDetailsPage,
        !.writes = AddPriceTableItem, !.refetches = {GetPriceTable}]

\* Operation
ToggleButton ==
    [Awaited EXCEPT !.at = {"Destinations"}, !.needs = {ListAllDestinations},
        !.writes = ToggleDestination, !.refetches = {ListAllDestinations}]
DestinationModal ==
    [Awaited EXCEPT !.at = {"DestinationsForm"},
        !.writes = CreateDestination \cup UpdateDestination,
        !.refetches = {ListAllDestinations}]

(* Assigning marks the driver as taken, and the pages that offer this      *)
(* dialog keep observing the drivers: nobody refreshes them.               *)
SubmitAddRoute ==
    [Awaited EXCEPT !.at = {"RoutesRoute", "PlannerRoute"},
        !.needs = {ListDrivers},
        !.writes = CreateRoute \cup AssignRouteResources,
        !.invalidates = Matching(ListRoutes), !.neglects = {ListDrivers}]

FinishDispatch ==
    [Awaited EXCEPT !.at = {"RoutesDispatch"}, !.needs = DispatchWizard,
        !.writes = {ListServiceOrders("PENDING"), ListRoutes, ListDrivers},
        !.invalidates = Matching(<<"/api/v1/logistics/orders">>)
                            \cup Matching(<<"/api/v1/routing/routes">>),
        !.neglects = {ListDrivers}]

(* The server only queues the optimisation, a write of its own later on;   *)
(* the page looks again five seconds after the reply, by a timer.          *)
AutoRoute ==
    [Awaited EXCEPT !.at = {"Planner"}, !.needs = {ListRequirements},
        !.writes = {},
        !.invalidates = Matching(ListRoutes) \cup Matching(ListRequirements),
        !.goto = "stay"]

VehicleForm ==
    [WhileMounted({"Fleet", "FleetNew"}) EXCEPT !.at = {"FleetNew"},
        !.writes = RegisterVehicle,
        !.invalidates = Matching(<<"listVehiclesApiV1FleetVehiclesGet">>),
        !.refetches = {ListVehicles}]
DriverForm ==
    [WhileMounted({"Drivers", "DriversNew"}) EXCEPT !.at = {"DriversNew"},
        !.writes = RegisterDriver,
        !.invalidates = Matching(<<"listDriversApiV1FleetDriversGet">>),
        !.refetches = {ListDrivers}]

(* Three controls stay enabled while their request is pending; used again, *)
(* they start a second one, whose handler runs beside that of the first.   *)
(* Every other button is disabled until its reply arrives.                 *)
Handlers ==
    [convertLead |-> ConvertLead, convertAgain |-> ConvertLead,
     moveStage |-> MoveStage, moveAgain |-> MoveStage,
     toggleDestination |-> ToggleButton, toggleAgain |-> ToggleButton,
     newLead |-> CustomerForm, newCompany |-> AddCompanyModal,
     editCompany |-> EditCompanyModal, newQuotation |-> SubmitAddQuotation,
     addItem |-> SubmitAddItem, calculate |-> CalculateButton,
     submit |-> SubmitButton, approve |-> ApproveButton,
     reject |-> RejectButton, contract |-> ContractButtons,
     wizardClient |-> WizardClient, wizardServices |-> WizardServices,
     wizardCalculate |-> WizardCalculate, wizardFinish |-> WizardFinish,
     newOffering |-> SubmitOffering, attach |-> AttachButton,
     newAttribute |-> AttributeForm, newUom |-> UOMForm,
     createTable |-> CreateTable, updateTable |-> UpdateTable,
     updateShownTable |-> UpdateShownTable, toggleTable |-> ToggleTable,
     addTableItem |-> AddTableItem, saveDestination |-> DestinationModal,
     newRoute |-> SubmitAddRoute, dispatch |-> FinishDispatch,
     autoRoute |-> AutoRoute, newVehicle |-> VehicleForm, newDriver |-> DriverForm]

(* What changes without a button of these screens: operations of the API   *)
(* that no screen calls, other clients, and the jobs of the server.        *)
OtherWrites ==
    {QualifyLead, AddContact, UpdateUom, ActivateOffering, ArchiveOffering,
     UpdateOffering, UpdateSchedules, PublishPlan, SuspendPlan, ReactivatePlan,
     AddStopToRoute, TriggerRouteOptimization, GenerateDailyOrders,
     UpdateServiceOrder, GenerateMtr, GenerateInvoices}
=============================================================================
