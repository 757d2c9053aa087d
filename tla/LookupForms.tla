---------------------------- MODULE LookupForms ----------------------------
(***************************************************************************)
(* The forms of stitch-admin that fill themselves in from public services: *)
(* the new customer, the new lead and the destination.                     *)
(*                                                                         *)
(* The CNPJ looks up the details of a company.  In the lead form the       *)
(* company brings its CEP, which looks up an address, which looks up a     *)
(* point on the map.  Nothing cancels a lookup, and all three dialogs stay *)
(* mounted while they are closed: an answer lands on whatever the form     *)
(* holds by then.                                                          *)
(*                                                                         *)
(* The content of a field is abstracted to the place it describes, or to   *)
(* Typed when the user wrote it by hand.  The details of a company are one *)
(* field, as every answer replaces them all; but in the destination form   *)
(* the phone is a field of its own, as an answer without one keeps it.     *)
(***************************************************************************)
EXTENDS Naturals, FiniteSets

CONSTANTS
    Forms,    \* the forms followed, some of "company", "lead", "destination"
    Places,   \* companies and addresses the public services know
    Records,  \* destinations already stored
    MaxActs   \* bound: steps the user takes

Blank == "blank"
Typed == "typed"
New == "new"        \* the form is open on something new
Closed == "closed"  \* the dialog is closed

ASSUME NamesAssumption ==
    /\ Forms \subseteq {"company", "lead", "destination"}
    /\ {Blank, Typed, New, Closed} \cap (Places \cup Records) = {}
    /\ Places \cap Records = {}
    /\ MaxActs \in Nat

Kinds == {"cnpj", "cep", "geocode"}
From == [cnpj |-> "key", cep |-> "cep", geocode |-> "address"]
Into == [cnpj |-> {"details", "phone"}, cep |-> {"address"}, geocode |-> {"point"}]
Fields == {"key", "details", "phone", "cep", "address", "point"}

VARIABLES
    form,      \* the form this behaviour is about
    subject,   \* what the dialog is open on
    fields,    \* what each field describes
    flights,   \* lookups under way
    fetching,  \* the "searching" flag of each kind of lookup
    stray,     \* fields that do not claim to follow their source
    sending,   \* the form is being stored
    acts       \* steps left to the user

formVars == <<form, subject, fields, flights, fetching, stray, sending, acts>>

FormInit ==
    /\ form \in Forms
    /\ subject = Closed
    /\ fields = [g \in Fields |-> Blank]
    /\ flights = {}
    /\ fetching = [k \in Kinds |-> FALSE]
    /\ stray = {}
    /\ sending = FALSE
    /\ acts = MaxActs

Act == acts > 0 /\ acts' = acts - 1

FieldsOf(f) ==
    {"key", "details"} \cup (CASE f = "company" -> {}
                               [] f = "lead" -> {"cep", "address", "point"}
                               [] f = "destination" -> {"phone"})

(* A lookup is clean as long as the form is what it was asked for: what it *)
(* reads was not touched and no other of its kind is under way.            *)
Unclean(f) == [f EXCEPT !.clean = FALSE]
Soiled(some, kinds) ==
    {IF f.kind \in kinds THEN Unclean(f) ELSE f : f \in some}

(* Lookups of a kind are numbered apart.                                   *)
FreeNumber(rivals) ==
    CHOOSE n \in 1..(Cardinality(rivals) + 1) : \A f \in rivals : f.no # n

(* The lookups under way once one more is asked.                           *)
With(others, k, p) ==
    LET rivals == {f \in others : f.kind = k}
    IN  Soiled(others, {k})
        \cup {[kind |-> k, of |-> p, no |-> FreeNumber(rivals),
               clean |-> rivals = {}]}

-----------------------------------------------------------------------------
\* The dialog

(* What a field shows of the destination a dialog is opened on.            *)
Stored(s) == IF s = New THEN Blank ELSE s

(* A mutant: the form is filled once, when it is first opened.              *)
OpenKeeping(s) ==
    /\ Act /\ subject = Closed
    /\ s \in IF form = "destination" THEN {New} \cup Records ELSE {New}
    /\ subject' = s
    /\ fields' = IF form = "destination" /\ fields["details"] = Blank
                 THEN [fields EXCEPT !["details"] = Stored(s)]
                 ELSE fields
    /\ flights' = IF form = "destination" THEN Soiled(flights, Kinds) ELSE flights
    /\ stray' = IF form = "destination" THEN {} ELSE stray
    /\ UNCHANGED <<form, fetching, sending>>

(* Opening the destination dialog fills it from its record, which may lack *)
(* a phone, or empties it; the CNPJ of the last search stays when a record *)
(* is edited.  The other two open on what they were closed with.           *)
OpenDialog(s) ==
    /\ Act /\ subject = Closed
    /\ s \in IF form = "destination" THEN {New} \cup Records ELSE {New}
    /\ subject' = s
    /\ IF form = "destination"
         THEN /\ \E phone \in {Blank, Stored(s)} :
                    fields' = [fields EXCEPT
                                 !["details"] = Stored(s), !["phone"] = phone,
                                 !["key"] = IF s = New THEN Blank ELSE @]
              /\ flights' = Soiled(flights, Kinds)
              /\ stray' = {}
         ELSE UNCHANGED <<fields, flights, stray>>
    /\ UNCHANGED <<form, fetching, sending>>

(* Escape, the backdrop and the cross work at any time.                    *)
CloseDialog ==
    /\ Act /\ subject # Closed
    /\ subject' = Closed
    /\ UNCHANGED <<form, fields, flights, fetching, stray, sending>>

(* A mutant: a field that is being looked up stays open for another code.   *)
DisabledNever(g) ==
    \/ form = "lead" /\ sending
    \/ g = "key" /\ subject \in Records

(* The inputs that a lookup or a pending save disables.                    *)
Disabled(g) ==
    \/ g = "key" /\ form # "destination" /\ (fetching["cnpj"] \/ sending)
    \/ g = "cep" /\ fetching["cep"]
    \/ form = "lead" /\ sending
    \/ g = "key" /\ subject \in Records

(* The lookups that read a field, and the fields they fill.                *)
AskedFrom(g) == {k \in Kinds : From[k] = g}
FilledFrom(g) == UNION {Into[k] : k \in AskedFrom(g)}

(* The user types a code, or words, into a field.                          *)
Type(g, v) ==
    /\ Act /\ subject # Closed
    /\ g \in FieldsOf(form) /\ ~Disabled(g)
    /\ v \in IF g \in {"key", "cep"} THEN Places \cup {Blank} ELSE {Typed}
    /\ v # fields[g]
    /\ fields' = [fields EXCEPT ![g] = v]
    /\ flights' = Soiled(flights, AskedFrom(g))
    /\ stray' = stray \cup FilledFrom(g) \cup {g}
    /\ UNCHANGED <<form, subject, fetching, sending>>

(* The user picks a suggestion of the address field: address and point.    *)
Select(p) ==
    /\ Act /\ subject # Closed
    /\ form = "lead" /\ ~sending
    /\ fields' = [fields EXCEPT !["address"] = p, !["point"] = p]
    /\ flights' = Soiled(flights, {"geocode"})
    /\ stray' = (stray \cup {"address"}) \ {"point"}
    /\ UNCHANGED <<form, subject, fetching, sending>>

-----------------------------------------------------------------------------
\* Lookups

(* The user leaves a complete code, or presses the search button.          *)
Ask(k) ==
    /\ Act /\ subject # Closed
    /\ From[k] \in FieldsOf(form) /\ k # "geocode"
    /\ fields[From[k]] \in Places
    /\ ~Disabled(From[k])
    /\ form = "destination" => ~fetching[k]
    /\ flights' = With(flights, k, fields[From[k]])
    /\ fetching' = [fetching EXCEPT ![k] = TRUE]
    /\ UNCHANGED <<form, subject, fields, stray, sending>>

Lands(f) == flights \ {f}
Follows(f) == IF f.clean THEN stray \ Into[f.kind] ELSE stray \cup Into[f.kind]

(* The company in the customer's form: all its details.                    *)
LandCustomer(f) ==
    /\ form = "company"
    /\ fields' = [fields EXCEPT !["details"] = f.of]
    /\ flights' = Lands(f)
    /\ fetching' = [fetching EXCEPT !["cnpj"] = FALSE]
    /\ stray' = Follows(f)

(* In the lead form its CEP too, whose address is looked up at once; when  *)
(* it has none, CEP and address stay what they were.                       *)
LandLead(f) ==
    /\ form = "lead"
    /\ stray' = Follows(f)
    /\ \/ /\ fields' = [fields EXCEPT !["details"] = f.of, !["cep"] = f.of]
          /\ flights' = With(Lands(f), "cep", f.of)
          /\ fetching' = [fetching EXCEPT !["cnpj"] = FALSE, !["cep"] = TRUE]
       \/ /\ fields' = [fields EXCEPT !["details"] = f.of]
          /\ flights' = Lands(f)
          /\ fetching' = [fetching EXCEPT !["cnpj"] = FALSE]

(* In the destination form a company without a phone leaves the phone that *)
(* stands there, be it the one of the company searched before.             *)
LandDestination(f) ==
    /\ form = "destination"
    /\ \/ /\ fields' = [fields EXCEPT !["details"] = f.of, !["phone"] = f.of]
          /\ stray' = Follows(f)
       \/ /\ fields' = [fields EXCEPT !["details"] = f.of]
          /\ stray' = Follows(f) \cup {"phone"}
    /\ flights' = Lands(f)
    /\ fetching' = [fetching EXCEPT !["cnpj"] = FALSE]

LandCompany(f) ==
    /\ f \in flights /\ f.kind = "cnpj"
    /\ LandCustomer(f) \/ LandLead(f) \/ LandDestination(f)
    /\ UNCHANGED <<form, subject, sending, acts>>

(* The address, whose point is looked up at once.                          *)
LandAddress(f) ==
    /\ f \in flights /\ f.kind = "cep"
    /\ fields' = [fields EXCEPT !["address"] = f.of]
    /\ flights' = With(Lands(f), "geocode", f.of)
    /\ fetching' = [fetching EXCEPT !["cep"] = FALSE, !["geocode"] = TRUE]
    /\ stray' = Follows(f)
    /\ UNCHANGED <<form, subject, sending, acts>>

LandPoint(f) ==
    /\ f \in flights /\ f.kind = "geocode"
    /\ fields' = [fields EXCEPT !["point"] = f.of]
    /\ flights' = Lands(f)
    /\ fetching' = [fetching EXCEPT !["geocode"] = FALSE]
    /\ stray' = Follows(f)
    /\ UNCHANGED <<form, subject, sending, acts>>

(* A mutant: geocodeAddress() lowers its flag on success only.              *)
FailGeocoding(f) ==
    /\ f \in flights
    /\ flights' = Lands(f)
    /\ fetching' = [fetching EXCEPT ![f.kind] = f.kind = "geocode"]
    /\ stray' = stray \cup Into[f.kind]
    /\ UNCHANGED <<form, subject, fields, sending, acts>>

(* The service fails or finds nothing: the user is told, the fields stay.  *)
LookupFails(f) ==
    /\ f \in flights
    /\ flights' = Lands(f)
    /\ fetching' = [fetching EXCEPT ![f.kind] = FALSE]
    /\ stray' = stray \cup Into[f.kind]
    /\ UNCHANGED <<form, subject, fields, sending, acts>>

-----------------------------------------------------------------------------
\* Storing

SubmitForm ==
    /\ Act /\ subject # Closed /\ ~sending
    /\ fields["details"] # Blank
    /\ form = "company" => fields["key"] # Blank
    /\ sending' = TRUE
    /\ UNCHANGED <<form, subject, fields, flights, fetching, stray>>

(* The handler of a stored form closes the dialog, whatever it is open on  *)
(* by now; the customer's form alone is emptied.                           *)
FormStored ==
    /\ sending
    /\ sending' = FALSE
    /\ subject' = Closed
    /\ IF form = "company"
         THEN /\ fields' = [g \in Fields |-> Blank]
              /\ flights' = Soiled(flights, Kinds)
              /\ stray' = {}
         ELSE UNCHANGED <<fields, flights, stray>>
    /\ UNCHANGED <<form, fetching, acts>>

FormRefused ==
    /\ sending
    /\ sending' = FALSE
    /\ UNCHANGED <<form, subject, fields, flights, fetching, stray, acts>>

Answered(f) == LandCompany(f) \/ LandAddress(f) \/ LandPoint(f) \/ LookupFails(f)

FormNext ==
    \/ \E s \in {New} \cup Records : OpenDialog(s)
    \/ CloseDialog
    \/ \E g \in Fields, v \in Places \cup {Blank, Typed} : Type(g, v)
    \/ \E p \in Places : Select(p)
    \/ \E k \in Kinds : Ask(k)
    \/ \E f \in flights : Answered(f)
    \/ SubmitForm \/ FormStored \/ FormRefused

(* Every lookup and every save is answered or fails.                       *)
FormFairness ==
    /\ WF_formVars(\E f \in flights : Answered(f))
    /\ WF_formVars(FormStored \/ FormRefused)

FormSpec == FormInit /\ [][FormNext]_formVars /\ FormFairness

-----------------------------------------------------------------------------
\* Properties

Lookups == [kind : Kinds, of : Places, no : Nat, clean : BOOLEAN]

(* The fields and the lookups under way are well formed.                   *)
FormTypeOK ==
    /\ form \in Forms
    /\ subject \in {New, Closed} \cup (IF form = "destination" THEN Records ELSE {})
    /\ fields \in [Fields -> Places \cup Records \cup {Blank, Typed}]
    /\ flights \subseteq Lookups /\ IsFiniteSet(flights)
    /\ fetching \in [Kinds -> BOOLEAN]
    /\ stray \subseteq Fields
    /\ sending \in BOOLEAN
    /\ acts \in Nat

(* The fields the answer to a lookup under way will overwrite.             *)
Landing == UNION {Into[f.kind] : f \in flights}

Follow(g, source) ==
    g \notin stray \cup Landing => fields[g] \in {Blank, source}

(* What stands in an open form is about one thing: an edited destination   *)
(* shows its own record, the details and the phone are those of the CNPJ,  *)
(* the address that of the CEP and the point that of the address, through  *)
(* any chain of lookups, failures, closings and openings.  Excepted is     *)
(* what the user typed, what a failed lookup left, what a lookup overtook  *)
(* that the form lets run beside another one or across an opening, and the *)
(* phone that the destination form keeps when a company has none: it may   *)
(* be the phone of the company searched before.                            *)
FilledFromSource ==
    subject # Closed =>
        LET source == IF subject \in Records THEN subject ELSE fields["key"]
        IN  /\ Follow("details", source) /\ Follow("phone", source)
            /\ Follow("address", fields["cep"])
            /\ Follow("point", fields["address"])

(* A form says that it is searching only while a lookup runs whose end     *)
(* will take the flag down, and while a CNPJ is looked up it does say so,  *)
(* which is what keeps a second one from being asked.                      *)
SearchShown ==
    /\ \A k \in Kinds : fetching[k] => \E f \in flights : f.kind = k
    /\ \A f \in flights : f.kind = "cnpj" => fetching["cnpj"]

(* When the user stops, no field stays locked and no spinner stays on.     *)
LookupsEnd == <>[](~sending /\ \A k \in Kinds : ~fetching[k])
=============================================================================
