----------------------------- MODULE Commercial -----------------------------
(***************************************************************************)
(* Leads, companies and opportunities, and the requests that work on them  *)
(* concurrently.                                                           *)
(*                                                                         *)
(* A request reads a row, decides on its copy, reads the row again in      *)
(* update() and commits what differs.  Nothing locks or versions a row and *)
(* no constraint keeps documents unique.  match_to_company() converts a    *)
(* lead in two transactions when it creates the company: create_company()  *)
(* commits the session that both services share.                           *)
(***************************************************************************)
EXTENDS Naturals

CONSTANTS
    Sessions,       \* database sessions, one per request in flight
    Leads,          \* ids of leads that may be registered
    Reachable,      \* the leads with an e-mail address or a phone number
    Companies,      \* ids of companies that may be created
    Opportunities,  \* ids of opportunities that may be opened
    Documents,      \* document numbers
    Stages,         \* stages of an opportunity
    None

ASSUME NoneAssumption ==
    /\ None \notin Leads \cup Companies \cup Opportunities \cup Documents
    /\ None \notin [lead : Leads, company : Companies, stage : Stages]
ASSUME StagesAssumption == "DISCOVERY" \in Stages

\* CONTACTED is left out: no code assigns it.
LeadStatus == {"NEW", "QUALIFIED", "LOST", "CONVERTED"}
Closed == {"CLOSED_WON", "CLOSED_LOST"}

VARIABLES
    lead,           \* status of each lead; "ABSENT" before it is registered
    company,        \* document of each company, None before it is created
    opportunity,    \* opportunity rows, None before they are opened; the lead
                    \* is recorded for the properties, the table lacks it
    origin,         \* the lead whose conversion created the company, or None
    pc,             \* where each session is in its request
    req,            \* what each session has in memory
    disturbed       \* sessions during whose request another one was committed

tables == <<lead, company, opportunity>>
vars == <<tables, origin, pc, req, disturbed>>

\* id is the row worked on; copy its status, document or stage in the
\* aggregate; row what update() found of it.
NoRequest == [id |-> None, copy |-> None, row |-> None,
              company |-> None, document |-> None]

Init ==
    /\ lead = [l \in Leads |-> "ABSENT"]
    /\ company = [c \in Companies |-> None]
    /\ opportunity = [o \in Opportunities |-> None]
    /\ origin = [c \in Companies |-> None]
    /\ pc = [s \in Sessions |-> "idle"]
    /\ req = [s \in Sessions |-> NoRequest]
    /\ disturbed = {}

-----------------------------------------------------------------------------
(* Requests. *)

RegisterLead(l) ==
    /\ lead[l] = "ABSENT"
    /\ lead' = [lead EXCEPT ![l] = "NEW"]
    /\ UNCHANGED <<company, opportunity, origin, pc, req, disturbed>>

\* The request goes on in memory.
Continue(s, to, new) ==
    /\ pc' = [pc EXCEPT ![s] = to]
    /\ req' = [req EXCEPT ![s] = new]
    /\ UNCHANGED <<tables, origin, disturbed>>

Load(s, to, id, value) ==
    /\ pc[s] = "idle"
    /\ Continue(s, to, [NoRequest EXCEPT !.id = id, !.copy = value])

\* update(): a second SELECT, answered from the identity map if the row first
\* loaded is still referenced and else from the table.
Update(s, to, new, stored) ==
    \E found \in {req[s].copy, stored} :
        Continue(s, to, [req[s] EXCEPT !.copy = new, !.row = found])

\* The flush writes the column only if it differs from the row found.
Flushed(s, stored) == IF req[s].copy # req[s].row THEN req[s].copy ELSE stored

Finish(s) ==
    /\ pc' = [pc EXCEPT ![s] = "idle"]
    /\ req' = [req EXCEPT ![s] = NoRequest]

\* A commit by s happens beside every other request in flight.
Disturb(s) == disturbed \cup {t \in Sessions \ {s} : pc[t] # "idle"}

EndOfCommit(s) == Finish(s) /\ disturbed' = Disturb(s) \ {s}

\* A domain error, a lost client or a crash: what is not committed is lost.
Fail(s) ==
    /\ pc[s] # "idle"
    /\ Finish(s)
    /\ disturbed' = disturbed \ {s}
    /\ UNCHANGED <<tables, origin>>

-----------------------------------------------------------------------------
(* Leads. *)

LoadLead(s, l) ==
    /\ lead[l] # "ABSENT"
    /\ Load(s, "lead", l, lead[l])

\* Mutant of Qualify: does not look at the status.
QualifyAny(s) ==
    /\ pc[s] = "lead"
    /\ req[s].id \in Reachable
    /\ Update(s, "leadUpdated", "QUALIFIED", lead[req[s].id])

Qualify(s) ==
    /\ pc[s] = "lead"
    /\ req[s].copy \notin {"LOST", "CONVERTED"}
    /\ req[s].id \in Reachable
    /\ Update(s, "leadUpdated", "QUALIFIED", lead[req[s].id])

\* A method of the aggregate that no service calls yet.
Disqualify(s) ==
    /\ pc[s] = "lead"
    /\ req[s].copy # "CONVERTED"
    /\ Update(s, "leadUpdated", "LOST", lead[req[s].id])

CommitLead(s) ==
    /\ pc[s] = "leadUpdated"
    /\ lead' = [lead EXCEPT ![req[s].id] = Flushed(s, @)]
    /\ EndOfCommit(s)
    /\ UNCHANGED <<company, opportunity, origin>>

-----------------------------------------------------------------------------
(* Companies. *)

\* Mutant of DocumentFree: the document is not looked up.
AnyDocument(d) == d \in Documents

DocumentFree(d) == \A c \in Companies : company[c] # d

\* create_company(), from the route or for the lead of a conversion.
CheckDocument(s, d) ==
    /\ pc[s] \in {"idle", "lead"}
    /\ DocumentFree(d)
    /\ Continue(s, "vacant", [req[s] EXCEPT !.document = d])

CommitCompany(s, c) ==
    /\ pc[s] = "vacant"
    /\ company[c] = None
    /\ company' = [company EXCEPT ![c] = req[s].document]
    /\ origin' = [origin EXCEPT ![c] = req[s].id]
    /\ IF req[s].id = None
       THEN EndOfCommit(s)
       ELSE /\ pc' = [pc EXCEPT ![s] = "matched"]
            /\ req' = [req EXCEPT ![s].company = c]
            /\ disturbed' = Disturb(s)
    /\ UNCHANGED <<lead, opportunity>>

\* update_company(): the document is replaced without looking it up.
LoadCompany(s, c) ==
    /\ company[c] # None
    /\ Load(s, "company", c, company[c])

EditCompany(s, d) ==
    /\ pc[s] = "company"
    /\ Update(s, "companyUpdated", d, company[req[s].id])

CommitEdit(s) ==
    /\ pc[s] = "companyUpdated"
    /\ company' = [company EXCEPT ![req[s].id] = Flushed(s, @)]
    /\ EndOfCommit(s)
    /\ UNCHANGED <<lead, opportunity, origin>>

-----------------------------------------------------------------------------
(* Conversion of a lead: match_to_company(). *)

FindCompany(s, c) ==
    /\ pc[s] = "lead"
    /\ company[c] # None
    /\ Continue(s, "matched", [req[s] EXCEPT !.company = c])

Convert(s) ==
    /\ pc[s] = "matched"
    /\ req[s].copy # "LOST"
    /\ Update(s, "converted", "CONVERTED", lead[req[s].id])

\* Mutant of CommitConversion: the opportunity is left to a later request.
CommitConversionAlone(s, o) ==
    /\ pc[s] = "converted"
    /\ opportunity[o] = None
    /\ lead' = [lead EXCEPT ![req[s].id] = Flushed(s, @)]
    /\ EndOfCommit(s)
    /\ UNCHANGED <<company, opportunity, origin>>

\* Mutant of CommitConversion: a stage that the enumeration does not have.
CommitConversionOpen(s, o) ==
    /\ pc[s] = "converted"
    /\ opportunity[o] = None
    /\ lead' = [lead EXCEPT ![req[s].id] = Flushed(s, @)]
    /\ opportunity' = [opportunity EXCEPT ![o] =
            [lead |-> req[s].id, company |-> req[s].company, stage |-> "OPEN"]]
    /\ EndOfCommit(s)
    /\ UNCHANGED <<company, origin>>

CommitConversion(s, o) ==
    /\ pc[s] = "converted"
    /\ opportunity[o] = None
    /\ lead' = [lead EXCEPT ![req[s].id] = Flushed(s, @)]
    /\ opportunity' = [opportunity EXCEPT ![o] =
            [lead |-> req[s].id, company |-> req[s].company,
             stage |-> "DISCOVERY"]]
    /\ EndOfCommit(s)
    /\ UNCHANGED <<company, origin>>

-----------------------------------------------------------------------------
(* Opportunities. *)

LoadOpportunity(s, o) ==
    /\ opportunity[o] # None
    /\ Load(s, "opportunity", o, opportunity[o].stage)

ChangeStage(s, stage) ==
    /\ pc[s] = "opportunity"
    /\ req[s].copy \notin Closed
    /\ Update(s, "stageUpdated", stage, opportunity[req[s].id].stage)

CommitStage(s) ==
    /\ pc[s] = "stageUpdated"
    /\ opportunity' = [opportunity EXCEPT ![req[s].id].stage = Flushed(s, @)]
    /\ EndOfCommit(s)
    /\ UNCHANGED <<lead, company, origin>>

Step(s) ==
    \/ \E l \in Leads : LoadLead(s, l)
    \/ Qualify(s)
    \/ Disqualify(s)
    \/ CommitLead(s)
    \/ \E d \in Documents : CheckDocument(s, d)
    \/ \E c \in Companies : CommitCompany(s, c)
    \/ \E c \in Companies : LoadCompany(s, c)
    \/ \E d \in Documents : EditCompany(s, d)
    \/ CommitEdit(s)
    \/ \E c \in Companies : FindCompany(s, c)
    \/ Convert(s)
    \/ \E o \in Opportunities : CommitConversion(s, o)
    \/ \E o \in Opportunities : LoadOpportunity(s, o)
    \/ \E stage \in Stages : ChangeStage(s, stage)
    \/ CommitStage(s)
    \/ Fail(s)

Next == (\E l \in Leads : RegisterLead(l)) \/ \E s \in Sessions : Step(s)

Spec == Init /\ [][Next]_vars

-----------------------------------------------------------------------------
(* Properties. *)

\* Tables and copies are well formed; a request that updates a row has one.
TypeOK ==
    /\ lead \in [Leads -> LeadStatus \cup {"ABSENT"}]
    /\ company \in [Companies -> Documents \cup {None}]
    /\ opportunity \in [Opportunities ->
          [lead : Leads, company : Companies, stage : Stages] \cup {None}]
    /\ origin \in [Companies -> Leads \cup {None}]
    /\ disturbed \subseteq Sessions
    /\ \A s \in Sessions :
          LET r == req[s] IN
          \/ pc[s] = "idle" /\ r = NoRequest
          \/ /\ pc[s] \in {"lead", "matched", "leadUpdated", "converted"}
             /\ r.id \in Leads
             /\ lead[r.id] # "ABSENT"
             /\ r.copy \in LeadStatus
          \/ pc[s] = "vacant" /\ r.document \in Documents
                              /\ r.id \in Leads \cup {None}
          \/ pc[s] \in {"company", "companyUpdated"} /\ r.id \in Companies
          \/ /\ pc[s] \in {"opportunity", "stageUpdated"}
             /\ r.id \in Opportunities
             /\ opportunity[r.id] # None

\* A converted lead has its opportunity, at a company that exists, however
\* requests race and wherever they fail.
ConvertedHasOpportunity ==
    \A l \in Leads : lead[l] = "CONVERTED" =>
        \E o \in Opportunities :
            /\ opportunity[o] # None
            /\ opportunity[o].lead = l
            /\ company[opportunity[o].company] # None

\* Session s ends its request with a commit, and nobody committed beside it.
EndsAlone(s) ==
    pc[s] # "idle" /\ pc'[s] = "idle" /\ s \notin disturbed

\* A request nobody committed beside moves a lead and an opportunity along their
\* state machines: what is lost or converted stays so, nothing returns to NEW,
\* a closed opportunity stays closed.
LoneRequestStep ==
    \A s \in Sessions : EndsAlone(s) =>
        /\ \A l \in Leads : lead'[l] # lead[l] =>
              /\ lead[l] # "CONVERTED"
              /\ lead[l] = "LOST" => lead'[l] = "LOST"
              /\ lead'[l] # "NEW"
        /\ \A o \in Opportunities :
              opportunity[o] # None /\ opportunity'[o] # opportunity[o]
                  => opportunity[o].stage \notin Closed

\* LoneRequestStep, of every step.
LoneRequestFollowsLifecycle == [][LoneRequestStep]_vars

\* A company is created under a document that is in use only if somebody
\* committed between the check and the commit.
CreationStep ==
    \A c \in Companies : company[c] = None /\ company'[c] # None =>
        \E s \in Sessions :
            /\ pc[s] = "vacant" /\ pc'[s] # "vacant"
            /\ \/ s \in disturbed
               \/ \A d \in Companies : company[d] # company'[c]

\* CreationStep, of every step.
LoneCreationIsNew == [][CreationStep]_vars

\* lead_service.py:77, "All operations execute atomically": once its request
\* has ended, a company created for a conversion has an opportunity.
ConversionIsAtomic ==
    \A c \in Companies :
        origin[c] # None /\ (\A s \in Sessions : req[s].company # c) =>
            \E o \in Opportunities :
                opportunity[o] # None /\ opportunity[o].company = c

=============================================================================
