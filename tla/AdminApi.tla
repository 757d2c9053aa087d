------------------------------ MODULE AdminApi ------------------------------
(***************************************************************************)
(* The generated client of stitch-admin (src/shared/api/generated), one    *)
(* definition per hook.                                                    *)
(*                                                                         *)
(* A query hook is its query key: react-query keeps one answer per key and *)
(* matches keys by prefix, element by element.  The first element is the   *)
(* whole URL, so the key of a list is not a prefix of the key of one of    *)
(* its members; a second element holds the query parameters, when given.   *)
(* One member stands for all members of a list.                            *)
(*                                                                         *)
(* A mutation hook refreshes nothing by itself; it is the set of queries   *)
(* the server answers differently once the request is committed.           *)
(***************************************************************************)
EXTENDS Sequences

\* Commercial
ListLeads == <<"/api/v1/commercial/leads">>
ListCompanies == <<"/api/v1/commercial/companies">>
GetCompany == <<"/api/v1/commercial/companies/c">>
ListContacts == <<"/api/v1/commercial/companies/c/contacts">>
ListOpportunities == <<"/api/v1/commercial/opportunities">>
RegisterLead == {ListLeads}
QualifyLead == {ListLeads}
MatchLeadToCompany == {ListLeads, ListCompanies, ListOpportunities}
CreateCompany == {ListCompanies}
UpdateCompany == {ListCompanies, GetCompany}
AddContact == {GetCompany, ListContacts}
UpdateOpportunityStage == {ListOpportunities}

\* Catalog
ListUoms == <<"/api/v1/catalog/uom">>
ListAttributes == <<"/api/v1/catalog/attributes">>
ListOfferings == <<"/api/v1/catalog/offerings">>
RegisterUom == {ListUoms}
UpdateUom == {ListUoms}
DefineAttribute == {ListAttributes}
DraftOffering == {ListOfferings}
AttachAttribute == {ListOfferings}
ActivateOffering == {ListOfferings}
ArchiveOffering == {ListOfferings}
UpdateOffering == {ListOfferings}

\* Pricing
ListPriceTables == <<"/api/v1/pricing/tables">>
GetPriceTable == <<"/api/v1/pricing/tables/t">>
CreatePriceTable == {ListPriceTables}
UpdatePriceTable == {ListPriceTables, GetPriceTable}
TogglePriceTableStatus == {ListPriceTables, GetPriceTable}
AddPriceTableItem == {ListPriceTables, GetPriceTable}

\* Quotations and contracts
ListQuotations == <<"/api/v1/quotations">>
GetQuotation == <<"/api/v1/quotations/q">>
CreateQuotation == {ListQuotations}
AddQuotationItem == {ListQuotations, GetQuotation}
CalculateQuotation == {ListQuotations, GetQuotation}
SubmitQuotation == {ListQuotations, GetQuotation}
ApproveQuotation == {ListQuotations, GetQuotation}
RejectQuotation == {ListQuotations, GetQuotation}
ListContracts == <<"/api/v1/contracts">>
CreateContract == {ListContracts}
SendContractForSignature == {ListContracts}
ActivateContract == {ListContracts}

\* Service plans
ListAllPlans == <<"/api/v1/service-plans">>
GetPlan == <<"/api/v1/service-plans/p">>
UpdateSchedules == {ListAllPlans, GetPlan}
PublishPlan == {ListAllPlans, GetPlan}
SuspendPlan == {ListAllPlans, GetPlan}
ReactivatePlan == {ListAllPlans, GetPlan}

\* Routing and fleet
ListRoutes == <<"/api/v1/routing/routes">>
ListRequirements == <<"/api/v1/routing/requirements">>
ListVehicles == <<"/api/v1/fleet/vehicles">>
ListDrivers == <<"/api/v1/fleet/drivers">>
CreateRoute == {ListRoutes}
AddStopToRoute == {ListRoutes}
AssignRouteResources == {ListRoutes, ListDrivers}
TriggerRouteOptimization == {ListRoutes, ListRequirements}
RegisterVehicle == {ListVehicles}
RegisterDriver == {ListDrivers}

\* Logistics, facilities, compliance, billing, dashboard
ListServiceOrders(status) == <<"/api/v1/logistics/orders", status>>
GenerateDailyOrders == {ListServiceOrders("PENDING")}
UpdateServiceOrder == {ListServiceOrders("PENDING")}
ListDestinations == <<"/api/v1/facilities/destinations">>
ListAllDestinations == <<"/api/v1/facilities/destinations", "active_only=false">>
CreateDestination == {ListDestinations, ListAllDestinations}
UpdateDestination == {ListDestinations, ListAllDestinations}
ToggleDestination == {ListDestinations, ListAllDestinations}
ListMtrs == <<"/api/v1/compliance/mtrs">>
GenerateMtr == {ListMtrs}
ListInvoices == <<"/api/v1/billing/invoices">>
GenerateInvoices == {ListInvoices}
GetDashboardStats == <<"/api/v1/dashboard/stats">>
=============================================================================
