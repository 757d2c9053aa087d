-------------------------- MODULE CommercialProofs --------------------------
(***************************************************************************)
(* Proofs about Commercial, for any number of sessions, leads, companies,  *)
(* opportunities and documents: a converted lead has its opportunity, and  *)
(* what holds of the requests beside which nobody committed.               *)
(***************************************************************************)
EXTENDS Commercial, TLAPS

Copies == LeadStatus \cup Documents \cup Stages \cup {None}

Request == [id : Leads \cup Companies \cup Opportunities \cup {None},
            copy : Copies, row : Copies \cup {"ABSENT"},
            company : Companies \cup {None},
            document : Documents \cup {None}]

RowsTyped ==
    /\ lead \in [Leads -> LeadStatus \cup {"ABSENT"}]
    /\ company \in [Companies -> Documents \cup {None}]
    /\ opportunity \in [Opportunities ->
          [lead : Leads, company : Companies, stage : Stages] \cup {None}]
    /\ origin \in [Companies -> Leads \cup {None}]

Points == {"idle", "lead", "leadUpdated", "vacant", "matched", "converted",
           "company", "companyUpdated", "opportunity", "stageUpdated"}

\* The request of s has a copy of a registered lead.
HoldsLead(s) ==
    /\ req[s].id \in Leads
    /\ lead[req[s].id] # "ABSENT"
    /\ req[s].copy \in LeadStatus

\* The request of s has matched a company that exists.
HoldsMatch(s) == req[s].company \in Companies /\ company[req[s].company] # None

\* What a request has in memory at each point, as far as the tables say that
\* it is there; a copy to be written over a lead is CONVERTED only where the
\* opportunity is about to be inserted with it.
RequestSound(s) ==
    \/ pc[s] = "idle" /\ req[s] = NoRequest
    \/ pc[s] = "lead" /\ HoldsLead(s)
    \/ pc[s] = "leadUpdated" /\ HoldsLead(s) /\ req[s].copy # "CONVERTED"
    \/ /\ pc[s] = "vacant"
       /\ req[s].document \in Documents
       /\ req[s].id = None \/ HoldsLead(s)
    \/ pc[s] = "matched" /\ HoldsLead(s) /\ HoldsMatch(s)
    \/ /\ pc[s] = "converted"
       /\ HoldsLead(s)
       /\ HoldsMatch(s)
       /\ req[s].copy = "CONVERTED"
    \/ /\ pc[s] \in {"company", "companyUpdated"}
       /\ req[s].id \in Companies
       /\ company[req[s].id] # None
       /\ req[s].copy \in Documents
    \/ /\ pc[s] \in {"opportunity", "stageUpdated"}
       /\ req[s].id \in Opportunities
       /\ opportunity[req[s].id] # None
       /\ req[s].copy \in Stages

\* What a request beside which nobody committed decided on is still so.
Accurate(s) ==
    s \notin disturbed =>
        /\ pc[s] \in {"lead", "matched"} => req[s].copy = lead[req[s].id]
        /\ pc[s] = "vacant" =>
              /\ DocumentFree(req[s].document)
              /\ req[s].id # None => req[s].copy = lead[req[s].id]
        /\ pc[s] = "leadUpdated" =>
              /\ lead[req[s].id] # "CONVERTED"
              /\ req[s].copy = "LOST" \/ lead[req[s].id] # "LOST"
              /\ req[s].copy # "NEW"
        /\ pc[s] = "converted" => lead[req[s].id] # "LOST"
        /\ pc[s] = "opportunity" => req[s].copy = opportunity[req[s].id].stage
        /\ pc[s] = "stageUpdated" =>
              opportunity[req[s].id].stage \notin Closed

IInv ==
    /\ RowsTyped
    /\ disturbed \subseteq Sessions
    /\ pc \in [Sessions -> Points]
    /\ req \in [Sessions -> Request]
    /\ \A s \in Sessions : RequestSound(s) /\ Accurate(s)
    /\ ConvertedHasOpportunity

\* Rows are never taken back.
TablesGrow ==
    /\ \A l \in Leads : lead[l] # "ABSENT" => lead'[l] # "ABSENT"
    /\ \A c \in Companies : company[c] # None => company'[c] # None
    /\ \A o \in Opportunities : opportunity[o] # None => opportunity'[o] # None

\* Initially nothing is stored and nobody is working.
LEMMA InitIInv == Init => IInv
  <1> SUFFICES ASSUME Init PROVE IInv
    OBVIOUS
  <1>1. NoRequest \in Request
    BY DEF NoRequest, Request, Copies
  <1>2. RowsTyped
    BY DEF Init, RowsTyped
  <1>3. \A s \in Sessions : RequestSound(s) /\ Accurate(s)
    BY DEF Init, RequestSound, Accurate
  <1>4. pc \in [Sessions -> Points] /\ req \in [Sessions -> Request]
    BY <1>1 DEF Init, Points
  <1>5. ConvertedHasOpportunity
    BY DEF Init, ConvertedHasOpportunity
  <1> QED
    BY <1>2, <1>3, <1>4, <1>5 DEF IInv, Init

\* A request that does nothing while the tables grow stays sound.
LEMMA SoundKept ==
  ASSUME NEW s \in Sessions, RequestSound(s), TablesGrow,
         pc'[s] = pc[s], req'[s] = req[s]
  PROVE  RequestSound(s)'
  <1>1. HoldsLead(s) => HoldsLead(s)'
    BY DEF HoldsLead, TablesGrow
  <1>2. HoldsMatch(s) => HoldsMatch(s)'
    BY DEF HoldsMatch, TablesGrow
  <1> QED
    BY <1>1, <1>2 DEF RequestSound, TablesGrow

\* A step in memory keeps the invariant if it leaves its own request sound
\* and accurate: the tables and the other requests are as before.
LEMMA ContinueKeeps ==
  ASSUME IInv, NEW s \in Sessions, NEW to \in Points, NEW new \in Request,
         Continue(s, to, new), RequestSound(s)', Accurate(s)'
  PROVE  IInv'
  <1> USE DEF IInv, Continue, tables
  <1>1. /\ pc' \in [Sessions -> Points]
        /\ req' \in [Sessions -> Request]
        /\ disturbed' \subseteq Sessions
    OBVIOUS
  <1>2. RowsTyped' /\ ConvertedHasOpportunity'
    BY DEF RowsTyped, ConvertedHasOpportunity
  <1>3. ASSUME NEW t \in Sessions, t # s
        PROVE  RequestSound(t)' /\ Accurate(t)'
    <2>1. pc'[t] = pc[t] /\ req'[t] = req[t]
      BY <1>3
    <2>2. RequestSound(t)'
      BY <2>1, SoundKept DEF TablesGrow
    <2>3. Accurate(t)'
      BY <2>1 DEF Accurate, DocumentFree
    <2> QED
      BY <2>2, <2>3
  <1> QED
    BY <1>1, <1>2, <1>3

\* The end of a request keeps the invariant if what it committed does: whoever
\* else is at work has been disturbed.
LEMMA CommitKeeps ==
  ASSUME IInv, NEW s \in Sessions, EndOfCommit(s),
         RowsTyped', TablesGrow, ConvertedHasOpportunity'
  PROVE  IInv'
  <1> USE DEF EndOfCommit, Finish, Disturb
  <1>1. NoRequest \in Request
    BY DEF NoRequest, Request, Copies
  <1>2. /\ pc' \in [Sessions -> Points]
        /\ req' \in [Sessions -> Request]
        /\ disturbed' \subseteq Sessions
    BY <1>1 DEF IInv, Points
  <1>3. ASSUME NEW t \in Sessions
        PROVE  RequestSound(t)' /\ Accurate(t)'
    <2>1. CASE t = s
      BY <2>1 DEF IInv, RequestSound, Accurate
    <2>2. CASE t # s
      <3>1. pc'[t] = pc[t] /\ req'[t] = req[t]
        BY <2>2 DEF IInv
      <3>2. RequestSound(t)'
        BY <3>1, SoundKept DEF IInv
      <3>3. pc[t] # "idle" => t \in disturbed'
        BY <2>2
      <3>4. Accurate(t)'
        BY <3>1, <3>3 DEF Accurate
      <3> QED
        BY <3>2, <3>4
    <2> QED
      BY <2>1, <2>2
  <1> QED
    BY <1>2, <1>3 DEF IInv

\* update() replaces the copy and leaves the rest of the request alone.
LEMMA UpdateStep ==
  ASSUME IInv, NEW s \in Sessions, NEW to, NEW new \in Copies,
         NEW stored \in Copies \cup {"ABSENT"}, Update(s, to, new, stored)
  PROVE  \E r \in Request :
            /\ Continue(s, to, r)
            /\ r.id = req[s].id
            /\ r.company = req[s].company
            /\ r.copy = new
  <1>1. PICK found \in {req[s].copy, stored} :
            Continue(s, to, [req[s] EXCEPT !.copy = new, !.row = found])
    BY DEF Update
  <1>2. req[s] \in Request /\ found \in Copies \cup {"ABSENT"}
    BY DEF IInv, Request
  <1> DEFINE r == [req[s] EXCEPT !.copy = new, !.row = found]
  <1>3. r \in Request /\ r.id = req[s].id /\ r.company = req[s].company
        /\ r.copy = new
    BY <1>2 DEF Request
  <1> QED
    BY <1>1, <1>3

-----------------------------------------------------------------------------
(* Leads. *)

\* A lead is registered beside whatever the requests do: nobody holds it yet.
LEMMA RegisterLeadKeeps ==
  ASSUME IInv, NEW l \in Leads, RegisterLead(l)
  PROVE  IInv'
  <1> USE DEF RegisterLead
  <1>1. RowsTyped' /\ TablesGrow
    BY DEF IInv, RowsTyped, LeadStatus, TablesGrow
  <1>2. ConvertedHasOpportunity'
    BY DEF IInv, RowsTyped, ConvertedHasOpportunity
  <1>3. ASSUME NEW s \in Sessions
        PROVE  RequestSound(s)' /\ Accurate(s)'
    <2>1. RequestSound(s)'
      BY <1>1, SoundKept DEF IInv
    <2>2. HoldsLead(s) => lead'[req[s].id] = lead[req[s].id]
      BY DEF HoldsLead, IInv, RowsTyped
    <2>3. Accurate(s)'
      BY <2>2 DEF IInv, RequestSound, Accurate, DocumentFree
    <2> QED
      BY <2>1, <2>3
  <1> QED
    BY <1>1, <1>2, <1>3 DEF IInv

\* A lead is loaded as it is.
LEMMA LoadLeadKeeps ==
  ASSUME IInv, NEW s \in Sessions, NEW l \in Leads, LoadLead(s, l)
  PROVE  IInv'
  <1> DEFINE r == [NoRequest EXCEPT !.id = l, !.copy = lead[l]]
  <1>1. pc[s] = "idle" /\ lead[l] \in LeadStatus /\ Continue(s, "lead", r)
    BY DEF LoadLead, Load, IInv, RowsTyped
  <1>2. r \in Request /\ r.id = l /\ r.copy = lead[l]
    BY <1>1 DEF NoRequest, Request, Copies
  <1>3. pc'[s] = "lead" /\ req'[s] = r /\ lead' = lead
    BY <1>1 DEF IInv, Continue, tables
  <1>4. RequestSound(s)' /\ Accurate(s)'
    BY <1>1, <1>2, <1>3 DEF RequestSound, HoldsLead, Accurate, LoadLead
  <1> QED
    BY <1>1, <1>2, <1>4, ContinueKeeps DEF Points

\* qualify() and disqualify() decide on the copy, which is the row if nobody
\* committed since.
LEMMA LeadUpdateKeeps ==
  ASSUME IInv, NEW s \in Sessions, Qualify(s) \/ Disqualify(s)
  PROVE  IInv'
  <1>1. pc[s] = "lead" /\ HoldsLead(s)
    BY DEF Qualify, Disqualify, IInv, RequestSound
  <1>2. lead[req[s].id] \in Copies \cup {"ABSENT"}
    BY <1>1 DEF Copies, IInv, RowsTyped, HoldsLead
  <1>3. {"QUALIFIED", "LOST"} \subseteq Copies
    BY DEF Copies, LeadStatus
  <1>4. PICK r \in Request :
            /\ Continue(s, "leadUpdated", r)
            /\ r.id = req[s].id
            /\ req[s].copy # "CONVERTED"
            /\ \/ r.copy = "LOST"
               \/ r.copy = "QUALIFIED" /\ req[s].copy # "LOST"
    <2>1. CASE Qualify(s)
      BY <2>1, <1>2, <1>3, UpdateStep DEF Qualify
    <2>2. CASE Disqualify(s)
      BY <2>2, <1>2, <1>3, UpdateStep DEF Disqualify
    <2> QED
      BY <2>1, <2>2
  <1>5. /\ pc'[s] = "leadUpdated"
        /\ req'[s] = r
        /\ lead' = lead
        /\ disturbed' = disturbed
    BY <1>4 DEF IInv, Continue, tables
  <1>6. RequestSound(s)'
    BY <1>1, <1>4, <1>5 DEF RequestSound, HoldsLead, LeadStatus
  <1>7. Accurate(s)'
    BY <1>1, <1>4, <1>5 DEF IInv, Accurate
  <1> QED
    BY <1>4, <1>6, <1>7, ContinueKeeps DEF Points

\* No other write makes a lead CONVERTED.
LEMMA CommitLeadKeeps ==
  ASSUME IInv, NEW s \in Sessions, CommitLead(s)
  PROVE  IInv'
  <1> DEFINE l == req[s].id
  <1>1. pc[s] = "leadUpdated" /\ HoldsLead(s) /\ req[s].copy # "CONVERTED"
    BY DEF CommitLead, IInv, RequestSound
  <1>2. /\ lead' = [lead EXCEPT ![l] = Flushed(s, lead[l])]
        /\ company' = company /\ opportunity' = opportunity /\ origin' = origin
        /\ EndOfCommit(s)
    BY DEF CommitLead
  <1>3. Flushed(s, lead[l]) \in {req[s].copy, lead[l]}
    BY DEF Flushed
  <1>4. RowsTyped' /\ TablesGrow
    BY <1>1, <1>2, <1>3 DEF IInv, RowsTyped, TablesGrow, HoldsLead, LeadStatus
  <1>5. \A k \in Leads : lead'[k] = "CONVERTED" => lead[k] = "CONVERTED"
    BY <1>1, <1>2, <1>3 DEF IInv, RowsTyped, HoldsLead
  <1>6. ConvertedHasOpportunity'
    BY <1>2, <1>5 DEF IInv, ConvertedHasOpportunity
  <1> QED
    BY <1>2, <1>4, <1>6, CommitKeeps

-----------------------------------------------------------------------------
(* Companies. *)

\* The document is free when it is looked up.
LEMMA CheckDocumentKeeps ==
  ASSUME IInv, NEW s \in Sessions, NEW d \in Documents, CheckDocument(s, d)
  PROVE  IInv'
  <1> DEFINE r == [req[s] EXCEPT !.document = d]
  <1>1. /\ req[s] \in Request
        /\ Continue(s, "vacant", r)
        /\ DocumentFree(d)
    BY DEF IInv, CheckDocument
  <1>2. /\ r \in Request
        /\ r.id = req[s].id
        /\ r.copy = req[s].copy
        /\ r.document = d
    BY <1>1 DEF Request
  <1>3. \/ pc[s] = "idle" /\ req[s].id = None
        \/ pc[s] = "lead" /\ HoldsLead(s)
    BY DEF CheckDocument, IInv, RequestSound, NoRequest
  <1>4. pc'[s] = "vacant" /\ req'[s] = r
    BY <1>1 DEF IInv, Continue
  <1>5. lead' = lead /\ company' = company /\ disturbed' = disturbed
    BY <1>1 DEF Continue, tables
  <1>6. RequestSound(s)'
    BY <1>2, <1>3, <1>4, <1>5 DEF RequestSound, HoldsLead
  <1>7. DocumentFree(d)'
    BY <1>1, <1>5 DEF DocumentFree
  <1>8. Accurate(s)'
    BY <1>2, <1>3, <1>4, <1>5, <1>7 DEF IInv, Accurate
  <1> QED
    BY <1>1, <1>2, <1>6, <1>8, ContinueKeeps DEF Points

\* A company edited is a company still.
LEMMA LoadCompanyKeeps ==
  ASSUME IInv, NEW s \in Sessions, NEW c \in Companies, LoadCompany(s, c)
  PROVE  IInv'
  <1> DEFINE r == [NoRequest EXCEPT !.id = c, !.copy = company[c]]
  <1>1. company[c] \in Documents /\ Continue(s, "company", r)
    BY DEF LoadCompany, Load, IInv, RowsTyped
  <1>2. r \in Request /\ r.id = c /\ r.copy = company[c]
    BY <1>1 DEF NoRequest, Request, Copies
  <1>3. pc'[s] = "company" /\ req'[s] = r /\ company' = company
    BY <1>1 DEF IInv, Continue, tables
  <1>4. RequestSound(s)' /\ Accurate(s)'
    BY <1>1, <1>2, <1>3 DEF RequestSound, Accurate, LoadCompany
  <1> QED
    BY <1>1, <1>2, <1>4, ContinueKeeps DEF Points

LEMMA EditCompanyKeeps ==
  ASSUME IInv, NEW s \in Sessions, NEW d \in Documents, EditCompany(s, d)
  PROVE  IInv'
  <1>1. /\ pc[s] = "company"
        /\ req[s].id \in Companies
        /\ company[req[s].id] # None
    BY DEF EditCompany, IInv, RequestSound
  <1>2. d \in Copies /\ company[req[s].id] \in Copies \cup {"ABSENT"}
    BY <1>1 DEF Copies, IInv, RowsTyped
  <1>3. PICK r \in Request : /\ Continue(s, "companyUpdated", r)
                             /\ r.id = req[s].id
                             /\ r.copy = d
    BY <1>2, UpdateStep DEF EditCompany
  <1>4. pc'[s] = "companyUpdated" /\ req'[s] = r /\ company' = company
    BY <1>3 DEF IInv, Continue, tables
  <1>5. RequestSound(s)' /\ Accurate(s)'
    BY <1>1, <1>3, <1>4 DEF RequestSound, Accurate
  <1> QED
    BY <1>3, <1>5, ContinueKeeps DEF Points

LEMMA CommitEditKeeps ==
  ASSUME IInv, NEW s \in Sessions, CommitEdit(s)
  PROVE  IInv'
  <1> DEFINE c == req[s].id
  <1>1. c \in Companies /\ company[c] # None /\ req[s].copy \in Documents
    BY DEF CommitEdit, IInv, RequestSound
  <1>2. /\ company' = [company EXCEPT ![c] = Flushed(s, company[c])]
        /\ lead' = lead /\ opportunity' = opportunity /\ origin' = origin
        /\ EndOfCommit(s)
    BY DEF CommitEdit
  <1>3. Flushed(s, company[c]) \in Documents
    BY <1>1 DEF Flushed, IInv, RowsTyped
  <1>4. RowsTyped' /\ TablesGrow
    BY <1>1, <1>2, <1>3, NoneAssumption DEF IInv, RowsTyped, TablesGrow
  <1>5. ConvertedHasOpportunity'
    BY <1>2, <1>4 DEF IInv, RowsTyped, ConvertedHasOpportunity, TablesGrow
  <1> QED
    BY <1>2, <1>4, <1>5, CommitKeeps

\* The company is inserted by a request of its own, which ends, or for a lead,
\* which the request goes on to convert.
LEMMA CommitCompanyKeeps ==
  ASSUME IInv, NEW s \in Sessions, NEW c \in Companies, CommitCompany(s, c)
  PROVE  IInv'
  <1> DEFINE d == req[s].document
  <1>1. /\ pc[s] = "vacant"
        /\ d \in Documents
        /\ req[s].id = None \/ HoldsLead(s)
    BY DEF CommitCompany, IInv, RequestSound
  <1>2. /\ company[c] = None
        /\ company' = [company EXCEPT ![c] = d]
        /\ origin' = [origin EXCEPT ![c] = req[s].id]
        /\ lead' = lead /\ opportunity' = opportunity
    BY DEF CommitCompany
  <1>3. RowsTyped' /\ TablesGrow /\ company'[c] # None
    BY <1>1, <1>2, NoneAssumption
    DEF IInv, RowsTyped, TablesGrow, HoldsLead
  <1>4. ConvertedHasOpportunity'
    BY <1>2, <1>3 DEF IInv, RowsTyped, ConvertedHasOpportunity, TablesGrow
  <1>5. CASE req[s].id = None
    BY <1>3, <1>4, <1>5, CommitKeeps DEF CommitCompany
  <1>6. CASE req[s].id # None
    <2> DEFINE r == [req[s] EXCEPT !.company = c]
    <2>1. /\ pc' = [pc EXCEPT ![s] = "matched"]
          /\ req' = [req EXCEPT ![s] = r]
          /\ disturbed' = Disturb(s)
      BY <1>6 DEF CommitCompany
    <2>2. /\ r \in Request
          /\ r.id = req[s].id
          /\ r.copy = req[s].copy
          /\ r.company = c
      BY DEF IInv, Request
    <2>3. /\ pc' \in [Sessions -> Points]
          /\ req' \in [Sessions -> Request]
          /\ disturbed' \subseteq Sessions
      BY <2>1, <2>2 DEF IInv, Disturb, Points
    <2>4. pc'[s] = "matched" /\ req'[s] = r
      BY <2>1 DEF IInv
    <2>5. RequestSound(s)'
      BY <1>1, <1>2, <1>3, <1>6, <2>2, <2>4
      DEF RequestSound, HoldsLead, HoldsMatch
    <2>6. Accurate(s)'
      BY <1>1, <1>2, <1>6, <2>1, <2>2, <2>4 DEF IInv, Accurate, Disturb
    <2>7. ASSUME NEW t \in Sessions, t # s
          PROVE  RequestSound(t)' /\ Accurate(t)'
      <3>1. pc'[t] = pc[t] /\ req'[t] = req[t]
        BY <2>1, <2>7 DEF IInv
      <3>2. RequestSound(t)'
        BY <1>3, <3>1, SoundKept DEF IInv
      <3>3. pc[t] # "idle" => t \in disturbed'
        BY <2>1, <2>7 DEF Disturb
      <3>4. Accurate(t)'
        BY <3>1, <3>3 DEF Accurate
      <3> QED
        BY <3>2, <3>4
    <2> QED
      BY <1>3, <1>4, <2>3, <2>5, <2>6, <2>7 DEF IInv
  <1> QED
    BY <1>5, <1>6

-----------------------------------------------------------------------------
(* Conversion of a lead. *)

\* The company found stays.
LEMMA FindCompanyKeeps ==
  ASSUME IInv, NEW s \in Sessions, NEW c \in Companies, FindCompany(s, c)
  PROVE  IInv'
  <1> DEFINE r == [req[s] EXCEPT !.company = c]
  <1>1. /\ pc[s] = "lead" /\ HoldsLead(s)
        /\ company[c] # None
        /\ Continue(s, "matched", r)
    BY DEF FindCompany, IInv, RequestSound
  <1>2. /\ r \in Request
        /\ r.id = req[s].id
        /\ r.copy = req[s].copy
        /\ r.company = c
    BY DEF IInv, Request
  <1>3. /\ pc'[s] = "matched"
        /\ req'[s] = r
        /\ lead' = lead /\ company' = company
        /\ disturbed' = disturbed
    BY <1>1 DEF IInv, Continue, tables
  <1>4. RequestSound(s)'
    BY <1>1, <1>2, <1>3 DEF RequestSound, HoldsLead, HoldsMatch
  <1>5. Accurate(s)'
    BY <1>1, <1>2, <1>3 DEF IInv, Accurate
  <1> QED
    BY <1>1, <1>2, <1>4, <1>5, ContinueKeeps DEF Points

\* convert() refuses a lost lead, as its copy has it.
LEMMA ConvertKeeps ==
  ASSUME IInv, NEW s \in Sessions, Convert(s)
  PROVE  IInv'
  <1>1. /\ pc[s] = "matched" /\ HoldsLead(s) /\ HoldsMatch(s)
        /\ req[s].copy # "LOST"
    BY DEF Convert, IInv, RequestSound
  <1>2. "CONVERTED" \in Copies /\ lead[req[s].id] \in Copies \cup {"ABSENT"}
    BY <1>1 DEF Copies, LeadStatus, IInv, RowsTyped, HoldsLead
  <1>3. PICK r \in Request : /\ Continue(s, "converted", r)
                             /\ r.id = req[s].id
                             /\ r.company = req[s].company
                             /\ r.copy = "CONVERTED"
    BY <1>2, UpdateStep DEF Convert
  <1>4. /\ pc'[s] = "converted"
        /\ req'[s] = r
        /\ lead' = lead /\ company' = company
        /\ disturbed' = disturbed
    BY <1>3 DEF IInv, Continue, tables
  <1>5. RequestSound(s)'
    BY <1>1, <1>3, <1>4 DEF RequestSound, HoldsLead, HoldsMatch, LeadStatus
  <1>6. Accurate(s)'
    BY <1>1, <1>3, <1>4 DEF IInv, Accurate
  <1> QED
    BY <1>3, <1>5, <1>6, ContinueKeeps DEF Points

\* The lead and its opportunity are written by one flush.
LEMMA CommitConversionKeeps ==
  ASSUME IInv, NEW s \in Sessions, NEW o \in Opportunities,
         CommitConversion(s, o)
  PROVE  IInv'
  <1> DEFINE l == req[s].id
             row == [lead |-> l, company |-> req[s].company,
                     stage |-> "DISCOVERY"]
  <1>1. HoldsLead(s) /\ HoldsMatch(s) /\ req[s].copy = "CONVERTED"
    BY DEF CommitConversion, IInv, RequestSound
  <1>2. /\ opportunity[o] = None
        /\ lead' = [lead EXCEPT ![l] = Flushed(s, lead[l])]
        /\ opportunity' = [opportunity EXCEPT ![o] = row]
        /\ company' = company /\ origin' = origin
        /\ EndOfCommit(s)
    BY DEF CommitConversion
  <1>3. Flushed(s, lead[l]) \in {"CONVERTED", lead[l]}
    BY <1>1 DEF Flushed
  <1>4. /\ row \in [lead : Leads, company : Companies, stage : Stages]
        /\ row # None
    BY <1>1, NoneAssumption, StagesAssumption DEF HoldsLead, HoldsMatch
  <1>5. lead' \in [Leads -> LeadStatus \cup {"ABSENT"}]
    BY <1>1, <1>2, <1>3 DEF IInv, RowsTyped, LeadStatus
  <1>6. RowsTyped'
    BY <1>2, <1>4, <1>5 DEF IInv, RowsTyped
  <1>7. TablesGrow
    BY <1>1, <1>2, <1>3, <1>4 DEF IInv, RowsTyped, TablesGrow
  <1>8. ASSUME NEW k \in Leads, lead'[k] = "CONVERTED"
        PROVE  \E p \in Opportunities :
                  /\ opportunity'[p] # None
                  /\ opportunity'[p].lead = k
                  /\ company'[opportunity'[p].company] # None
    <2>1. CASE k = l
      <3>1. /\ opportunity'[o] # None
            /\ opportunity'[o].lead = l
            /\ company'[opportunity'[o].company] # None
        BY <1>1, <1>2, <1>4 DEF IInv, RowsTyped, HoldsMatch
      <3> QED
        BY <2>1, <3>1
    <2>2. CASE k # l
      <3>1. lead[k] = "CONVERTED"
        BY <1>2, <1>8, <2>2 DEF IInv, RowsTyped
      <3>2. PICK p \in Opportunities :
                /\ opportunity[p] # None
                /\ opportunity[p].lead = k
                /\ company[opportunity[p].company] # None
        BY <3>1 DEF IInv, ConvertedHasOpportunity
      <3>3. opportunity'[p] = opportunity[p]
        BY <1>2, <3>2 DEF IInv, RowsTyped
      <3> QED
        BY <1>2, <3>2, <3>3
    <2> QED
      BY <2>1, <2>2
  <1>9. ConvertedHasOpportunity'
    BY <1>8 DEF ConvertedHasOpportunity
  <1> QED
    BY <1>2, <1>6, <1>7, <1>9, CommitKeeps

-----------------------------------------------------------------------------
(* Opportunities. *)

\* An opportunity is loaded as it is.
LEMMA LoadOpportunityKeeps ==
  ASSUME IInv, NEW s \in Sessions, NEW o \in Opportunities,
         LoadOpportunity(s, o)
  PROVE  IInv'
  <1> DEFINE r == [NoRequest EXCEPT !.id = o, !.copy = opportunity[o].stage]
  <1>1. /\ opportunity[o] # None
        /\ opportunity[o].stage \in Stages
        /\ Continue(s, "opportunity", r)
    BY DEF LoadOpportunity, Load, IInv, RowsTyped
  <1>2. r \in Request /\ r.id = o /\ r.copy = opportunity[o].stage
    BY <1>1 DEF NoRequest, Request, Copies
  <1>3. pc'[s] = "opportunity" /\ req'[s] = r /\ opportunity' = opportunity
    BY <1>1 DEF IInv, Continue, tables
  <1>4. RequestSound(s)' /\ Accurate(s)'
    BY <1>1, <1>2, <1>3 DEF RequestSound, Accurate
  <1> QED
    BY <1>1, <1>2, <1>4, ContinueKeeps DEF Points

\* change_stage() refuses a closed opportunity, as its copy has it.
LEMMA ChangeStageKeeps ==
  ASSUME IInv, NEW s \in Sessions, NEW stage \in Stages,
         ChangeStage(s, stage)
  PROVE  IInv'
  <1>1. /\ pc[s] = "opportunity"
        /\ req[s].id \in Opportunities
        /\ opportunity[req[s].id] # None
        /\ req[s].copy \notin Closed
    BY DEF ChangeStage, IInv, RequestSound
  <1>2. /\ stage \in Copies
        /\ opportunity[req[s].id].stage \in Copies \cup {"ABSENT"}
    BY <1>1 DEF Copies, IInv, RowsTyped
  <1>3. PICK r \in Request : /\ Continue(s, "stageUpdated", r)
                             /\ r.id = req[s].id
                             /\ r.copy = stage
    BY <1>2, UpdateStep DEF ChangeStage
  <1>4. /\ pc'[s] = "stageUpdated"
        /\ req'[s] = r
        /\ opportunity' = opportunity
        /\ disturbed' = disturbed
    BY <1>3 DEF IInv, Continue, tables
  <1>5. RequestSound(s)'
    BY <1>1, <1>3, <1>4 DEF RequestSound
  <1>6. Accurate(s)'
    BY <1>1, <1>3, <1>4 DEF IInv, Accurate
  <1> QED
    BY <1>3, <1>5, <1>6, ContinueKeeps DEF Points

\* The stage is written into the row as it then is.
LEMMA CommitStageKeeps ==
  ASSUME IInv, NEW s \in Sessions, CommitStage(s)
  PROVE  IInv'
  <1> DEFINE o == req[s].id
             stage == Flushed(s, opportunity[o].stage)
  <1>1. /\ o \in Opportunities
        /\ opportunity[o] # None
        /\ req[s].copy \in Stages
    BY DEF CommitStage, IInv, RequestSound
  <1>2. opportunity[o] \in [lead : Leads, company : Companies, stage : Stages]
    BY <1>1 DEF IInv, RowsTyped
  <1>3. /\ opportunity' = [opportunity EXCEPT ![o].stage = stage]
        /\ lead' = lead /\ company' = company /\ origin' = origin
        /\ EndOfCommit(s)
    BY DEF CommitStage
  <1>4. stage \in Stages
    BY <1>1, <1>2 DEF Flushed
  <1>5. /\ opportunity'[o] \in
              [lead : Leads, company : Companies, stage : Stages]
        /\ opportunity'[o].lead = opportunity[o].lead
        /\ opportunity'[o].company = opportunity[o].company
        /\ \A p \in Opportunities \ {o} : opportunity'[p] = opportunity[p]
    BY <1>1, <1>2, <1>3, <1>4 DEF IInv, RowsTyped
  <1>6. opportunity'[o] # None
    BY <1>5, NoneAssumption
  <1>7. RowsTyped'
    BY <1>1, <1>3, <1>5 DEF IInv, RowsTyped
  <1>8. TablesGrow
    BY <1>3, <1>5, <1>6 DEF TablesGrow
  <1>9. ConvertedHasOpportunity'
    BY <1>3, <1>5, <1>6 DEF IInv, ConvertedHasOpportunity
  <1> QED
    BY <1>3, <1>7, <1>8, <1>9, CommitKeeps

-----------------------------------------------------------------------------
(* The specification. *)

\* A request that fails leaves the tables as they are.
LEMMA FailKeeps ==
  ASSUME IInv, NEW s \in Sessions, Fail(s)
  PROVE  IInv'
  <1> USE DEF Fail, Finish, tables
  <1>1. NoRequest \in Request
    BY DEF NoRequest, Request, Copies
  <1>2. /\ pc' \in [Sessions -> Points]
        /\ req' \in [Sessions -> Request]
        /\ disturbed' \subseteq Sessions
    BY <1>1 DEF IInv, Points
  <1>3. RowsTyped' /\ ConvertedHasOpportunity'
    BY DEF IInv, RowsTyped, ConvertedHasOpportunity
  <1>4. ASSUME NEW t \in Sessions
        PROVE  RequestSound(t)' /\ Accurate(t)'
    <2>1. CASE t = s
      BY <2>1 DEF IInv, RequestSound, Accurate
    <2>2. CASE t # s
      <3>1. pc'[t] = pc[t] /\ req'[t] = req[t]
        BY <2>2 DEF IInv
      <3>2. RequestSound(t)'
        BY <3>1, SoundKept DEF IInv, TablesGrow
      <3>3. t \notin disturbed' => t \notin disturbed
        BY <2>2
      <3>4. Accurate(t)'
        BY <3>1, <3>3 DEF IInv, Accurate, DocumentFree
      <3> QED
        BY <3>2, <3>4
    <2> QED
      BY <2>1, <2>2
  <1> QED
    BY <1>2, <1>3, <1>4 DEF IInv

\* Every step keeps the invariant.
LEMMA NextKeeps == IInv /\ [Next]_vars => IInv'
  <1> SUFFICES ASSUME IInv, [Next]_vars PROVE IInv'
    OBVIOUS
  <1>1. ASSUME NEW l \in Leads, RegisterLead(l) PROVE IInv'
    BY <1>1, RegisterLeadKeeps
  <1>2. ASSUME NEW s \in Sessions, Step(s) PROVE IInv'
    BY <1>2, LoadLeadKeeps, LeadUpdateKeeps, CommitLeadKeeps,
       CheckDocumentKeeps, CommitCompanyKeeps, LoadCompanyKeeps,
       EditCompanyKeeps, CommitEditKeeps, FindCompanyKeeps, ConvertKeeps,
       CommitConversionKeeps, LoadOpportunityKeeps, ChangeStageKeeps,
       CommitStageKeeps, FailKeeps
    DEF Step
  <1>3. CASE UNCHANGED vars
    <2>1. RowsTyped' /\ ConvertedHasOpportunity'
      BY <1>3 DEF IInv, RowsTyped, ConvertedHasOpportunity, vars, tables
    <2>2. \A s \in Sessions : RequestSound(s)' /\ Accurate(s)'
      BY <1>3 DEF IInv, RequestSound, HoldsLead, HoldsMatch, Accurate,
                  DocumentFree, vars, tables
    <2> QED
      BY <1>3, <2>1, <2>2 DEF IInv, vars
  <1> QED
    BY <1>1, <1>2, <1>3 DEF Next

\* The tables and the requests are sound in every reachable state.
THEOREM InductiveInvariant == Spec => []IInv
  BY InitIInv, NextKeeps, PTL DEF Spec

-----------------------------------------------------------------------------
(* What single steps do. *)

\* A lone request moves leads and opportunities along their state machines.
LEMMA LoneRequest ==
  ASSUME IInv, [Next]_vars
  PROVE  [LoneRequestStep]_vars
  <1> SUFFICES ASSUME NEW t \in Sessions, EndsAlone(t)
               PROVE  /\ \A l \in Leads : lead'[l] # lead[l] =>
                            /\ lead[l] # "CONVERTED"
                            /\ lead[l] = "LOST" => lead'[l] = "LOST"
                            /\ lead'[l] # "NEW"
                      /\ \A o \in Opportunities :
                            opportunity[o] # None
                            /\ opportunity'[o] # opportunity[o]
                              => opportunity[o].stage \notin Closed
    BY DEF LoneRequestStep
  <1>1. PICK s \in Sessions : Step(s)
    <2>1. ~ UNCHANGED vars
      BY DEF EndsAlone, vars
    <2>2. \A l \in Leads : ~ RegisterLead(l)
      BY DEF EndsAlone, RegisterLead
    <2> QED
      BY <2>1, <2>2 DEF Next
  <1>2. CASE lead' = lead /\ opportunity' = opportunity
    BY <1>2
  <1>3. CASE CommitLead(s)
    <2>1. s = t
      BY <1>3 DEF CommitLead, EndOfCommit, Finish, EndsAlone, IInv
    <2>2. /\ RequestSound(s) /\ Accurate(s) /\ s \notin disturbed
          /\ pc[s] = "leadUpdated"
      BY <1>3, <2>1 DEF CommitLead, EndsAlone, IInv
    <2>3. /\ HoldsLead(s)
          /\ lead[req[s].id] # "CONVERTED"
          /\ req[s].copy = "LOST" \/ lead[req[s].id] # "LOST"
          /\ req[s].copy # "NEW"
      BY <2>2 DEF RequestSound, Accurate
    <2>4. /\ lead' = [lead EXCEPT ![req[s].id] = Flushed(s, lead[req[s].id])]
          /\ opportunity' = opportunity
      BY <1>3 DEF CommitLead
    <2>5. Flushed(s, lead[req[s].id]) \in {req[s].copy, lead[req[s].id]}
      BY DEF Flushed
    <2> QED
      BY <2>3, <2>4, <2>5 DEF IInv, RowsTyped, HoldsLead
  <1>4. ASSUME NEW o \in Opportunities, CommitConversion(s, o)
        PROVE  /\ \A l \in Leads : lead'[l] # lead[l] =>
                     /\ lead[l] # "CONVERTED"
                     /\ lead[l] = "LOST" => lead'[l] = "LOST"
                     /\ lead'[l] # "NEW"
               /\ \A p \in Opportunities : opportunity[p] # None =>
                     opportunity'[p] = opportunity[p]
    <2>1. s = t
      BY <1>4 DEF CommitConversion, EndOfCommit, Finish, EndsAlone, IInv
    <2>2. /\ RequestSound(s) /\ Accurate(s) /\ s \notin disturbed
          /\ pc[s] = "converted"
      BY <1>4, <2>1 DEF CommitConversion, EndsAlone, IInv
    <2>3. /\ HoldsLead(s)
          /\ lead[req[s].id] # "LOST"
          /\ req[s].copy = "CONVERTED"
      BY <2>2 DEF RequestSound, Accurate
    <2>4. /\ lead' = [lead EXCEPT ![req[s].id] = Flushed(s, lead[req[s].id])]
          /\ \A p \in Opportunities \ {o} : opportunity'[p] = opportunity[p]
          /\ opportunity[o] = None
      BY <1>4 DEF CommitConversion, IInv, RowsTyped
    <2>5. Flushed(s, lead[req[s].id]) \in {"CONVERTED", lead[req[s].id]}
      BY <2>3 DEF Flushed
    <2> QED
      BY <2>3, <2>4, <2>5 DEF IInv, RowsTyped, HoldsLead
  <1>5. CASE CommitStage(s)
    <2>1. s = t
      BY <1>5 DEF CommitStage, EndOfCommit, Finish, EndsAlone, IInv
    <2>2. Accurate(s) /\ s \notin disturbed /\ pc[s] = "stageUpdated"
      BY <1>5, <2>1 DEF CommitStage, EndsAlone, IInv
    <2>3. opportunity[req[s].id].stage \notin Closed
      BY <2>2 DEF Accurate
    <2>4. /\ lead' = lead
          /\ \A p \in Opportunities :
                p # req[s].id => opportunity'[p] = opportunity[p]
      BY <1>5 DEF CommitStage, IInv, RowsTyped
    <2> QED
      BY <2>3, <2>4
  <1>6. \/ lead' = lead /\ opportunity' = opportunity
        \/ CommitLead(s)
        \/ \E o \in Opportunities : CommitConversion(s, o)
        \/ CommitStage(s)
    BY <1>1
    DEF Step, Continue, Load, Update, tables, LoadLead, Qualify, Disqualify,
        CheckDocument, CommitCompany, LoadCompany, EditCompany, CommitEdit,
        FindCompany, Convert, LoadOpportunity, ChangeStage, Fail
  <1> QED
    BY <1>2, <1>3, <1>4, <1>5, <1>6

\* A company is created where the look-up found its document free.
LEMMA Creation ==
  ASSUME IInv, [Next]_vars
  PROVE  [CreationStep]_vars
  <1> SUFFICES ASSUME NEW c \in Companies, company[c] = None, company'[c] # None
               PROVE  \E s \in Sessions :
                        /\ pc[s] = "vacant" /\ pc'[s] # "vacant"
                        /\ \/ s \in disturbed
                           \/ \A d \in Companies : company[d] # company'[c]
    BY DEF CreationStep
  <1>1. PICK s \in Sessions : Step(s)
    <2>1. ~ UNCHANGED vars
      BY DEF vars, tables
    <2>2. \A l \in Leads : ~ RegisterLead(l)
      BY DEF RegisterLead
    <2> QED
      BY <2>1, <2>2 DEF Next
  <1>2. ~ CommitEdit(s)
    <2>1. CommitEdit(s) => req[s].id # c
      BY DEF CommitEdit, IInv, RequestSound
    <2> QED
      BY <2>1 DEF CommitEdit, IInv, RowsTyped
  <1>3. PICK b \in Companies : CommitCompany(s, b)
    BY <1>1, <1>2
    DEF Step, Continue, Load, Update, tables, LoadLead, Qualify, Disqualify,
        CommitLead, CheckDocument, LoadCompany, EditCompany, FindCompany,
        Convert, CommitConversion, LoadOpportunity, ChangeStage, CommitStage,
        Fail
  <1>4. pc[s] = "vacant" /\ pc'[s] # "vacant"
    BY <1>3 DEF CommitCompany, EndOfCommit, Finish, IInv
  <1>5. company'[c] = req[s].document
    BY <1>3 DEF CommitCompany, IInv, RowsTyped
  <1>6. s \notin disturbed => DocumentFree(req[s].document)
    BY <1>4 DEF IInv, Accurate
  <1> QED
    BY <1>4, <1>5, <1>6 DEF DocumentFree

-----------------------------------------------------------------------------
(* The theorems. *)

\* Type correctness of the tables and of every request's memory.
THEOREM TypeCorrect == Spec => []TypeOK
  <1>1. IInv => TypeOK
    BY DEF IInv, TypeOK, RowsTyped, RequestSound, HoldsLead
  <1> QED
    BY InductiveInvariant, <1>1, PTL

\* A converted lead has its opportunity at a company that exists, however
\* conversions, qualifications and edits race and wherever they fail.
THEOREM ConvertedAlwaysHasOpportunity == Spec => []ConvertedHasOpportunity
  <1>1. IInv => ConvertedHasOpportunity
    BY DEF IInv
  <1> QED
    BY InductiveInvariant, <1>1, PTL

\* Requests beside which nobody commits respect both life cycles.
THEOREM LoneRequestsFollowLifecycle == Spec => LoneRequestFollowsLifecycle
  <1>1. IInv /\ [Next]_vars => [LoneRequestStep]_vars
    BY LoneRequest
  <1> QED
    BY InductiveInvariant, <1>1, PTL DEF Spec, LoneRequestFollowsLifecycle

\* A document is used twice only if two requests overlapped.
THEOREM LoneCreationsAreNew == Spec => LoneCreationIsNew
  <1>1. IInv /\ [Next]_vars => [CreationStep]_vars
    BY Creation
  <1> QED
    BY InductiveInvariant, <1>1, PTL DEF Spec, LoneCreationIsNew

=============================================================================
