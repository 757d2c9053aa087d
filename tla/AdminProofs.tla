---------------------------- MODULE AdminProofs ----------------------------
(***************************************************************************)
(* Proofs about stitch-admin, in three parts.                              *)
(*                                                                         *)
(* QueryCache, for any screens, queries and commands: no screen waits for  *)
(* a request nobody made, and writes are shown once they are reported if   *)
(* every handler refreshes what its screens observe.                       *)
(*                                                                         *)
(* AdminScreens: the handlers of stitch-admin do refresh what their        *)
(* screens observe, so its users are shown what they write.                *)
(*                                                                         *)
(* LookupForms, for any places: a field filled from another one belongs    *)
(* to what that one says, and a search is shown while it runs.             *)
(***************************************************************************)
EXTENDS AdminScreens, QueryCache, LookupForms, FiniteSetTheorems, TLAPS

-----------------------------------------------------------------------------
(* The query cache: its invariants. *)

\* On every screen where it runs, on the page of its button, a handler
\* refreshes each query the command writes and the screen observes, but those
\* it is known to neglect.
HandlersRefresh ==
    \A c \in Commands : \A s \in Effect[c].alive :
        Page[s] \in {Page[t] : t \in Effect[c].at} =>
            Effect[c].writes \cap (Own[Page[s]] \cup Own[s])
                \subseteq Effect[c].refetches \cup Effect[c].invalidates
                            \cup Effect[c].neglects

\* The server has an answer to everything, and kept what it promised.
ServerHolds ==
    \A k \in watched : server[k] > 0 /\ promised[k] <= server[k]

\* An answer on its way carries data.
AnswersReal == \A k \in watched : fetch[k] = "answered" => answer[k] > 0

IInv == TypeOK /\ ServerHolds /\ AnswersReal /\ NothingHangs

\* An answer on its way shows what was promised.
AnswersCurrent ==
    \A k \in watched \ excused : fetch[k] = "answered" => answer[k] >= promised[k]

RInv == AnswersCurrent /\ ReadYourWrites

Fetches == {"idle", "asked", "answered"}

-----------------------------------------------------------------------------
(* What changes of screen and refreshes do to the requests. *)

\* A query the new screen observes rests only if it rested on the old one.
LEMMA EnteringMounted ==
  ASSUME NEW f \in [watched -> Fetches], NEW t \in Screens, NEW k \in Mounts(t),
         Entering(f, t)[k] = "idle"
  PROVE  k \in Mounted /\ f[k] = "idle"
  BY DEF Entering, Mounts, Mounted, Fetches

\* Changing screen brings no answer.
LEMMA EnteringAnswers ==
  ASSUME NEW f \in [watched -> Fetches], NEW t \in Screens
  PROVE  /\ Entering(f, t) \in [watched -> Fetches]
         /\ \A k \in watched : Entering(f, t)[k] = "answered" => f[k] = "answered"
  BY DEF Entering, Fetches

\* A refresh lets no request rest and brings no answer.
LEMMA RefreshingAnswers ==
  ASSUME IInv, NEW c \in Commands
  PROVE  /\ Refreshing(c) \in [watched -> Fetches]
         /\ \A k \in watched :
              /\ Refreshing(c)[k] = "answered" => fetch[k] = "answered"
              /\ Refreshing(c)[k] = "idle" => fetch[k] = "idle"
  BY DEF Refreshing, Fetches, IInv, TypeOK

\* The handler of a command leads to a screen.
LEMMA LeadsToScreen ==
  ASSUME IInv, NEW c \in Commands
  PROVE  Leads(c) \in Screens
  BY TablesAssumption DEF Leads, IInv, TypeOK, CommandSpec

\* A screen's queries that the handler wrote, did not refresh and left running
\* or resting are among those it is excused for.
LEMMA Refreshes ==
  ASSUME IInv, HandlersRefresh, NEW c \in Commands, NEW k \in watched,
         k \in Effect[c].writes, k \notin Behind(c),
         Refreshing(c)[k] # "asked"
  PROVE  k \notin Mounted /\ Refreshing(c)[k] = "idle"
  <1>1. fetch[k] \in Fetches /\ shown[k] \in Nat
    BY DEF IInv, TypeOK, Fetches
  <1>2. k \notin Late(c)
    BY DEF Behind
  <1>3. Refreshing(c)[k] = fetch[k] /\ (k \in Refreshed(c) => fetch[k] = "answered")
    BY <1>1 DEF Refreshing, Fetches
  <1>4. k \in Refreshed(c) => k \in Mounted /\ shown[k] > 0 /\ fetch[k] = "answered"
    BY <1>1, <1>2, <1>3 DEF Late
  <1>5. k \notin Refreshed(c)
    BY <1>1, <1>3, <1>4 DEF Refreshing
  <1>6. AtHome(c) /\ k \notin Effect[c].neglects
    BY <1>5 DEF Behind
  <1>7. k \notin Mounted
    BY <1>5, <1>6
    DEF HandlersRefresh, AtHome, Refreshed, Mounted, Mounts, IInv, TypeOK
  <1>8. fetch[k] \in {"idle", "asked"}
    BY <1>1, <1>2, <1>7 DEF Late, Fetches
  <1>9. QED
    BY <1>3, <1>7, <1>8

-----------------------------------------------------------------------------
(* Types, and screens that do not hang. *)

\* The initial state satisfies the inductive invariant.
LEMMA InitIInv == Init => IInv
  <1> SUFFICES ASSUME Init PROVE IInv
    OBVIOUS
  <1>1. TypeOK
    BY TablesAssumption DEF Init, TypeOK
  <1>2. ServerHolds /\ AnswersReal
    BY DEF Init, ServerHolds, AnswersReal
  <1>3. NothingHangs
    BY DEF Init, NothingHangs, Mounted, Mounts
  <1>4. QED
    BY <1>1, <1>2, <1>3 DEF IInv

\* A change of the requests to f, on screen t from now on, keeps the invariant
\* if only queries the screen already waited for or had at rest rest in f.
LEMMA RequestsKeep ==
  ASSUME IInv, NEW t \in Screens, NEW f \in [watched -> Fetches],
         NEW lag \in SUBSET watched, Requests(f, lag), screen' = t,
         UNCHANGED <<watched, server, shown>>,
         \A k \in watched : f[k] = "answered" => fetch[k] = "answered",
         \A k \in Mounts(t) : f[k] = "idle" => k \in Mounted /\ fetch[k] = "idle",
         command' \in [Commands -> {"idle", "sent", "applied"}],
         promised' \in [watched -> Nat],
         \A k \in watched : promised'[k] <= server[k],
         budget' \in [commands : Nat, moves : Nat, elsewhere : Nat]
  PROVE  IInv'
  <1>1. TypeOK'
    BY DEF IInv, TypeOK, Requests, Fetches
  <1>2. ServerHolds'
    BY DEF IInv, ServerHolds
  <1>3. AnswersReal'
    BY DEF IInv, AnswersReal, Requests
  <1>4. Mounted' = Mounts(t)
    BY DEF Mounted, Mounts
  <1>5. NothingHangs'
    BY <1>4 DEF IInv, NothingHangs, Requests, Mounts
  <1>6. QED
    BY <1>1, <1>2, <1>3, <1>5 DEF IInv

\* The user's change of screen.
LEMMA MoveKeeps ==
  ASSUME IInv, NEW t \in Screens, Move(t)
  PROVE  IInv'
  <1> DEFINE f == Entering(fetch, t)
  <1>1. fetch \in [watched -> Fetches]
    BY DEF IInv, TypeOK, Fetches
  <1>2. /\ f \in [watched -> Fetches]
        /\ \A k \in watched : f[k] = "answered" => fetch[k] = "answered"
    BY <1>1, EnteringAnswers
  <1>3. \A k \in Mounts(t) : f[k] = "idle" => k \in Mounted /\ fetch[k] = "idle"
    BY <1>1, EnteringMounted
  <1>4. budget' \in [commands : Nat, moves : Nat, elsewhere : Nat]
    BY DEF Move, IInv, TypeOK
  <1>5. \A k \in watched : promised'[k] <= server[k]
    BY DEF Move, IInv, ServerHolds
  <1>6. Requests(f, {}) /\ screen' = t /\ UNCHANGED <<watched, server, shown, command, promised>>
    BY DEF Move
  <1>7. command' \in [Commands -> {"idle", "sent", "applied"}]
        /\ promised' \in [watched -> Nat]
    BY <1>6 DEF IInv, TypeOK
  <1>8. {} \in SUBSET watched
    OBVIOUS
  <1> HIDE DEF f
  <1>9. QED
    BY <1>2, <1>3, <1>4, <1>5, <1>6, <1>7, <1>8, RequestsKeep

\* The requests after a successful command, wherever its handler leads.
After(c) == IF Leads(c) = screen THEN Refreshing(c)
            ELSE Entering(Refreshing(c), Leads(c))

\* What the new screen observes rests only if it rested before, unrefreshed.
LEMMA AfterRequests ==
  ASSUME IInv, NEW c \in Commands
  PROVE  /\ After(c) \in [watched -> Fetches]
         /\ \A k \in watched :
              After(c)[k] = "answered" => Refreshing(c)[k] = "answered"
         /\ \A k \in Mounts(Leads(c)) : After(c)[k] = "idle" =>
              k \in Mounted /\ Refreshing(c)[k] = "idle"
  <1>1. Refreshing(c) \in [watched -> Fetches]
    BY RefreshingAnswers
  <1>2. Leads(c) \in Screens
    BY LeadsToScreen
  <1>3. CASE Leads(c) = screen
    BY <1>1, <1>3 DEF After, Mounted
  <1>4. CASE Leads(c) # screen
    <2>1. After(c) = Entering(Refreshing(c), Leads(c))
      BY <1>4 DEF After
    <2>2. QED
      BY <1>1, <1>2, <2>1, EnteringAnswers, EnteringMounted
  <1>5. QED
    BY <1>3, <1>4

\* A successful command.
LEMMA AcknowledgeKeeps ==
  ASSUME IInv, NEW c \in Commands, Acknowledge(c)
  PROVE  IInv'
  <1> DEFINE f == After(c)
             t == Leads(c)
             lag == Behind(c)
  <1>1. t \in Screens
    BY LeadsToScreen
  <1>2. /\ f \in [watched -> Fetches]
        /\ \A k \in watched : f[k] = "answered" => fetch[k] = "answered"
        /\ \A k \in Mounts(t) : f[k] = "idle" => k \in Mounted /\ fetch[k] = "idle"
    BY AfterRequests, RefreshingAnswers DEF Mounts
  <1>3. lag \in SUBSET watched
    BY DEF Behind, Late
  <1>4. Requests(f, lag) /\ screen' = t /\ UNCHANGED <<watched, server, shown, budget>>
    BY DEF Acknowledge, After
  <1>5. command' \in [Commands -> {"idle", "sent", "applied"}]
        /\ budget' \in [commands : Nat, moves : Nat, elsewhere : Nat]
    BY DEF Acknowledge, IInv, TypeOK
  <1>6. /\ promised' \in [watched -> Nat]
        /\ \A k \in watched : promised'[k] <= server[k]
    BY DEF Acknowledge, IInv, TypeOK, ServerHolds
  <1> HIDE DEF f, t, lag
  <1>7. QED
    BY <1>1, <1>2, <1>3, <1>4, <1>5, <1>6, RequestsKeep

\* What happens to one query's request or data.
LEMMA QueryKeeps ==
  ASSUME IInv, NEW k \in Keys, Answer(k) \/ Land(k) \/ Fail(k) \/ Collect(k)
  PROVE  IInv'
  <1>1. Mounted' = Mounted
    BY DEF Answer, Land, Fail, Collect, Mounted, Mounts
  <1>2. CASE Answer(k)
    BY <1>1, <1>2
    DEF Answer, IInv, TypeOK, ServerHolds, AnswersReal, NothingHangs
  <1>3. CASE Land(k)
    BY <1>1, <1>3
    DEF Land, IInv, TypeOK, ServerHolds, AnswersReal, NothingHangs
  <1>4. CASE Fail(k)
    BY <1>1, <1>4
    DEF Fail, IInv, TypeOK, ServerHolds, AnswersReal, NothingHangs
  <1>5. CASE Collect(k)
    BY <1>1, <1>5
    DEF Collect, IInv, TypeOK, ServerHolds, AnswersReal, NothingHangs
  <1>6. QED
    BY <1>2, <1>3, <1>4, <1>5

\* Whatever is written, here or elsewhere, the server's versions only grow.
LEMMA WrittenGrows ==
  ASSUME IInv, NEW ks
  PROVE  /\ Written(ks) \in [watched -> Nat]
         /\ \A k \in watched : Written(ks)[k] >= server[k]
  BY DEF Written, IInv, TypeOK

\* A command that is started, applied or refused, and a write elsewhere.
LEMMA ServerKeeps ==
  ASSUME IInv,
         \/ \E c \in Commands : Issue(c) \/ Apply(c) \/ Refused(c)
         \/ \E ks \in Elsewhere : WriteElsewhere(ks)
  PROVE  IInv'
  <1>1. /\ UNCHANGED <<watched, shown, fetch, answer, errored, screen, promised,
                        excused>>
        /\ server' = server \/ \E ks : server' = Written(ks)
    BY DEF Issue, Apply, Refused, WriteElsewhere
  <1>2. server' \in [watched -> Nat] /\ \A k \in watched : server'[k] >= server[k]
    BY <1>1, WrittenGrows DEF IInv, TypeOK
  <1>3. command' \in [Commands -> {"idle", "sent", "applied"}]
    BY DEF Issue, Apply, Refused, WriteElsewhere, IInv, TypeOK
  <1>4. budget' \in [commands : Nat, moves : Nat, elsewhere : Nat]
    BY DEF Issue, Apply, Refused, WriteElsewhere, IInv, TypeOK
  <1>5. TypeOK'
    BY <1>1, <1>2, <1>3, <1>4 DEF IInv, TypeOK
  <1>6. ServerHolds'
    BY <1>1, <1>2 DEF IInv, TypeOK, ServerHolds
  <1>7. AnswersReal' /\ NothingHangs'
    BY <1>1 DEF IInv, AnswersReal, NothingHangs, Mounted, Mounts
  <1>8. QED
    BY <1>5, <1>6, <1>7 DEF IInv

\* Every step keeps the inductive invariant.
LEMMA NextIInv == IInv /\ [Next]_vars => IInv'
  <1> SUFFICES ASSUME IInv, [Next]_vars PROVE IInv'
    OBVIOUS
  <1>1. CASE \E t \in Screens : Move(t)
    BY <1>1, MoveKeeps
  <1>2. CASE \E k \in Keys : Answer(k) \/ Land(k) \/ Fail(k) \/ Collect(k)
    BY <1>2, QueryKeeps
  <1>3. CASE \E c \in Commands : Acknowledge(c)
    BY <1>3, AcknowledgeKeeps
  <1>4. CASE \/ \E c \in Commands : Issue(c) \/ Apply(c) \/ Refused(c)
             \/ \E ks \in Elsewhere : WriteElsewhere(ks)
    BY <1>4, ServerKeeps
  <1>5. CASE UNCHANGED vars
    BY <1>5 DEF vars, IInv, TypeOK, ServerHolds, AnswersReal, NothingHangs,
       Mounted, Mounts
  <1>6. QED
    BY <1>1, <1>2, <1>3, <1>4, <1>5 DEF Next

-----------------------------------------------------------------------------
(* Reading one's writes. *)

\* In the initial state nothing was promised.
LEMMA InitRInv == Init => RInv
  BY TablesAssumption DEF Init, RInv, AnswersCurrent, ReadYourWrites, Mounted,
     Mounts

\* A change of the requests keeps what was promised shown if a query whose
\* promise changes is excused or asked for, or rests where nobody looks.
LEMMA RequestsShow ==
  ASSUME IInv, RInv, NEW t \in Screens, NEW f \in [watched -> Fetches],
         NEW lag \in SUBSET watched, Requests(f, lag), screen' = t,
         UNCHANGED <<watched, server, shown>>,
         \A k \in watched : f[k] = "answered" => fetch[k] = "answered",
         \A k \in Mounts(t) : f[k] = "idle" => k \in Mounted /\ fetch[k] = "idle",
         \A k \in watched \ lag : f[k] = "answered" => promised'[k] = promised[k],
         \A k \in Mounts(t) \ lag : f[k] = "idle" => promised'[k] = promised[k]
  PROVE  RInv'
  <1>1. Mounted' = Mounts(t) /\ Mounts(t) \subseteq watched
    BY DEF Mounted, Mounts
  <1>2. AnswersCurrent'
    BY DEF RInv, AnswersCurrent, Requests
  <1>3. ReadYourWrites'
    BY <1>1 DEF RInv, ReadYourWrites, Requests
  <1>4. QED
    BY <1>2, <1>3 DEF RInv

\* The user's change of screen.
LEMMA MoveShows ==
  ASSUME IInv, RInv, NEW t \in Screens, Move(t)
  PROVE  RInv'
  <1> DEFINE f == Entering(fetch, t)
  <1>1. fetch \in [watched -> Fetches]
    BY DEF IInv, TypeOK, Fetches
  <1>2. /\ f \in [watched -> Fetches]
        /\ \A k \in watched : f[k] = "answered" => fetch[k] = "answered"
    BY <1>1, EnteringAnswers
  <1>3. \A k \in Mounts(t) : f[k] = "idle" => k \in Mounted /\ fetch[k] = "idle"
    BY <1>1, EnteringMounted
  <1>4. Requests(f, {}) /\ screen' = t /\ UNCHANGED <<watched, server, shown, promised>>
    BY DEF Move
  <1>5. {} \in SUBSET watched
    OBVIOUS
  <1> HIDE DEF f
  <1>6. QED
    BY <1>2, <1>3, <1>4, <1>5, RequestsShow

\* The success of a command whose handler refreshes what it should.
LEMMA AcknowledgeShows ==
  ASSUME IInv, RInv, HandlersRefresh, NEW c \in Commands, Acknowledge(c)
  PROVE  RInv'
  <1> DEFINE f == After(c)
             t == Leads(c)
             lag == Behind(c)
  <1>1. t \in Screens
    BY LeadsToScreen
  <1>2. /\ f \in [watched -> Fetches]
        /\ \A k \in watched : f[k] = "answered" => fetch[k] = "answered"
        /\ \A k \in Mounts(t) : f[k] = "idle" => k \in Mounted /\ fetch[k] = "idle"
    BY AfterRequests, RefreshingAnswers DEF Mounts
  <1>3. lag \in SUBSET watched
    BY DEF Behind, Late
  <1>4. Requests(f, lag) /\ screen' = t /\ UNCHANGED <<watched, server, shown>>
    BY DEF Acknowledge, After
  <1>5. \A k \in watched \ Effect[c].writes : promised'[k] = promised[k]
    BY DEF Acknowledge
  <1>6. \A k \in watched \ lag : f[k] = "answered" => promised'[k] = promised[k]
    BY <1>5, Refreshes, AfterRequests
  <1>7. \A k \in Mounts(t) \ lag : f[k] = "idle" => promised'[k] = promised[k]
    BY <1>5, Refreshes, AfterRequests DEF Mounts
  <1> HIDE DEF f, t, lag
  <1>8. QED
    BY <1>1, <1>2, <1>3, <1>4, <1>6, <1>7, RequestsShow

\* What happens to one query's request or data.
LEMMA QueryShows ==
  ASSUME IInv, RInv, NEW k \in Keys, Answer(k) \/ Land(k) \/ Fail(k) \/ Collect(k)
  PROVE  RInv'
  <1>1. Mounted' = Mounted /\ Mounted \subseteq watched
    BY DEF Answer, Land, Fail, Collect, Mounted, Mounts
  <1>2. CASE Answer(k)
    BY <1>1, <1>2
    DEF Answer, IInv, TypeOK, ServerHolds, RInv, AnswersCurrent, ReadYourWrites
  <1>3. CASE Land(k)
    BY <1>1, <1>3
    DEF Land, IInv, TypeOK, RInv, AnswersCurrent, ReadYourWrites
  <1>4. CASE Fail(k)
    BY <1>1, <1>4
    DEF Fail, IInv, TypeOK, RInv, AnswersCurrent, ReadYourWrites
  <1>5. CASE Collect(k)
    BY <1>1, <1>5
    DEF Collect, IInv, TypeOK, RInv, AnswersCurrent, ReadYourWrites
  <1>6. QED
    BY <1>2, <1>3, <1>4, <1>5

\* Every step shows what was promised, under handlers that refresh.
LEMMA NextRInv == HandlersRefresh /\ IInv /\ RInv /\ [Next]_vars => RInv'
  <1> SUFFICES ASSUME HandlersRefresh, IInv, RInv, [Next]_vars PROVE RInv'
    OBVIOUS
  <1>1. CASE \E t \in Screens : Move(t)
    BY <1>1, MoveShows
  <1>2. CASE \E k \in Keys : Answer(k) \/ Land(k) \/ Fail(k) \/ Collect(k)
    BY <1>2, QueryShows
  <1>3. CASE \E c \in Commands : Acknowledge(c)
    BY <1>3, AcknowledgeShows
  <1>4. CASE UNCHANGED <<watched, shown, fetch, answer, errored, screen, promised,
                         excused>>
    BY <1>4 DEF RInv, AnswersCurrent, ReadYourWrites, Mounted, Mounts
  <1>5. QED
    BY <1>1, <1>2, <1>3, <1>4
    DEF Next, vars, Issue, Apply, Refused, WriteElsewhere

-----------------------------------------------------------------------------
(* The theorems. *)

\* Every reachable state satisfies the inductive invariant.
THEOREM InductiveInvariant == Spec => []IInv
  BY InitIInv, NextIInv, PTL DEF Spec

\* Type correctness of the cache, the requests and the commands.
THEOREM TypeCorrect == Spec => []TypeOK
  <1>1. IInv => TypeOK
    BY DEF IInv
  <1>2. QED
    BY InductiveInvariant, <1>1, PTL

\* A query on the screen has data, an error to show, or a request under way,
\* for any screens and commands, although changes of screen abort requests.
THEOREM NothingEverHangs == Spec => []NothingHangs
  <1>1. IInv => NothingHangs
    BY DEF IInv
  <1>2. QED
    BY InductiveInvariant, <1>1, PTL

\* Handlers that refresh what they write on every screen they run on show the
\* user's writes, for any screens, queries and commands.
THEOREM WritesAreRead == HandlersRefresh => (Spec => []ReadYourWrites)
  <1> SUFFICES ASSUME HandlersRefresh PROVE Spec => []ReadYourWrites
    OBVIOUS
  <1>1. IInv /\ RInv /\ [Next]_vars => RInv'
    BY NextRInv
  <1>2. RInv => ReadYourWrites
    BY DEF RInv
  <1>3. QED
    BY InductiveInvariant, InitRInv, <1>1, <1>2, PTL DEF Spec

-----------------------------------------------------------------------------
(* The screens and the handlers of stitch-admin. *)

\* The tables are those of stitch-admin.
AdminTables ==
    /\ Screens = AllScreens /\ Page = PageOf /\ Own = Observes
    /\ Commands = DOMAIN Handlers /\ Effect = Handlers

\* The queries that a page and its dialogs observe.
Sees(p) == UNION {Observes[s] : s \in {t \in AllScreens : PageOf[t] = p}}

\* Whatever dialog is open by then, the handler refreshes what the pages of
\* its button see of the command's writes, but for what it neglects.
RefreshesPages(e) ==
    \A s \in e.at : e.writes \cap Sees(PageOf[s])
                      \subseteq e.refetches \cup e.invalidates \cup e.neglects

\* The page of a screen is a page; the pages with a button, with their dialogs.
LEMMA PagesOfScreens ==
  \A s \in AllScreens :
    /\ PageOf[s] \in AllScreens /\ PageOf[PageOf[s]] = PageOf[s]
    /\ PageOf[s] = "Leads" => s \in {"Leads", "LeadsNew"}
    /\ PageOf[s] = "Pipeline" => s = "Pipeline"
    /\ PageOf[s] = "Customers" => s \in {"Customers", "CustomersNew"}
    /\ PageOf[s] = "Customer" => s \in {"Customer", "CustomerEdit"}
    /\ PageOf[s] = "Atendimento" => s = "Atendimento"
    /\ PageOf[s] = "Quotations" => s \in {"Quotations", "QuotationsNew"}
    /\ PageOf[s] = "Quotation" => s \in {"Quotation", "QuotationItem"}
    /\ PageOf[s] = "Contract" => s = "Contract"
    /\ PageOf[s] = "Offerings" => s \in {"Offerings", "OfferingsNew",
                        "OfferingsEdit"}
    /\ PageOf[s] = "Attributes" => s \in {"Attributes", "AttributesNew"}
    /\ PageOf[s] = "Uoms" => s \in {"Uoms", "UomsNew"}
    /\ PageOf[s] = "PriceTables" => s \in {"PriceTables", "PriceTablesForm"}
    /\ PageOf[s] = "PriceTable" => s \in {"PriceTable", "PriceTableEdit"}
    /\ PageOf[s] = "Destinations" => s \in {"Destinations",
                        "DestinationsForm"}
    /\ PageOf[s] = "Planner" => s \in {"Planner", "PlannerRoute"}
    /\ PageOf[s] = "Routes" => s \in {"Routes", "RoutesRoute", "RoutesMap",
                        "RoutesDispatch"}
    /\ PageOf[s] = "Fleet" => s \in {"Fleet", "FleetNew"}
    /\ PageOf[s] = "Drivers" => s \in {"Drivers", "DriversNew"}
  BY DEF PageOf, DialogOver, AllScreens, Observes

\* A screen and its page observe nothing that is not seen on that page.
LEMMA ScreensSee ==
  \A s \in AllScreens :
    Observes[PageOf[s]] \cup Observes[s] \subseteq Sees(PageOf[s])
  BY PagesOfScreens DEF Sees

\* What is seen on the pages with a button.
LEMMA PagesSee ==
  /\ Sees("Leads") \subseteq LeadsPage
  /\ Sees("Pipeline") \subseteq PipelinePage
  /\ Sees("Customers") \subseteq CustomersPage
  /\ Sees("Customer") \subseteq CustomerDetailsPage
  /\ Sees("Atendimento") \subseteq AtendimentoWizardPage
  /\ Sees("Quotations") \subseteq QuotationsPage \cup AddQuotationModal
  /\ Sees("Quotation") \subseteq
       QuotationDetailsPage \cup AddQuotationItemModal
  /\ Sees("Contract") \subseteq ContractDetailsPage
  /\ Sees("Offerings") \subseteq
       OfferingsTable \cup OfferingForm \cup EditOfferingModal
  /\ Sees("Attributes") \subseteq AttributesTable
  /\ Sees("Uoms") \subseteq UOMTable
  /\ Sees("PriceTables") \subseteq PriceTablesTable
  /\ Sees("PriceTable") \subseteq PriceTableDetailsPage
  /\ Sees("Destinations") \subseteq DestinationsPage
  /\ Sees("Planner") \subseteq PlannerPage
  /\ Sees("Routes") \subseteq RoutesPage \cup RouteMapModal \cup DispatchWizard
  /\ Sees("Fleet") \subseteq FleetPage
  /\ Sees("Drivers") \subseteq DriversPage
  BY PagesOfScreens DEF Sees, Observes

\* A query is among those that its own key matches.
LEMMA KeysMatch ==
  /\ ListOpportunities \in Matching(ListOpportunities)
  /\ ListCompanies \in Matching(ListCompanies)
  /\ GetCompany \in Matching(GetCompany)
  /\ ListQuotations \in Matching(ListQuotations)
  /\ GetQuotation \in Matching(GetQuotation)
  /\ ListRoutes \in Matching(ListRoutes)
  /\ ListServiceOrders("PENDING") \in Matching(<<"/api/v1/logistics/orders">>)
  /\ ListRoutes \in Matching(<<"/api/v1/routing/routes">>)
  /\ ListRequirements \in Matching(ListRequirements)
  BY DEF Matching, AllKeys, AllScreens, IsPrefix, Observes,
     ListOpportunities, ListCompanies, GetCompany, ListQuotations,
     GetQuotation, ListRoutes, ListServiceOrders, ListRequirements,
     PipelinePage, CustomersPage, CustomerDetailsPage, QuotationDetailsPage,
     RoutesPage, DispatchWizard, RequirementsPage

\* The pages of the buttons.
LEMMA ButtonsOnPages ==
  /\ PageOf["Atendimento"] = "Atendimento"
  /\ PageOf["AttributesNew"] = "Attributes"
  /\ PageOf["Contract"] = "Contract"
  /\ PageOf["CustomerEdit"] = "Customer"
  /\ PageOf["CustomersNew"] = "Customers"
  /\ PageOf["Destinations"] = "Destinations"
  /\ PageOf["DestinationsForm"] = "Destinations"
  /\ PageOf["DriversNew"] = "Drivers"
  /\ PageOf["FleetNew"] = "Fleet"
  /\ PageOf["Leads"] = "Leads"
  /\ PageOf["LeadsNew"] = "Leads"
  /\ PageOf["OfferingsEdit"] = "Offerings"
  /\ PageOf["OfferingsNew"] = "Offerings"
  /\ PageOf["Pipeline"] = "Pipeline"
  /\ PageOf["Planner"] = "Planner"
  /\ PageOf["PlannerRoute"] = "Planner"
  /\ PageOf["PriceTable"] = "PriceTable"
  /\ PageOf["PriceTableEdit"] = "PriceTable"
  /\ PageOf["PriceTables"] = "PriceTables"
  /\ PageOf["PriceTablesForm"] = "PriceTables"
  /\ PageOf["Quotation"] = "Quotation"
  /\ PageOf["QuotationItem"] = "Quotation"
  /\ PageOf["QuotationsNew"] = "Quotations"
  /\ PageOf["RoutesDispatch"] = "Routes"
  /\ PageOf["RoutesRoute"] = "Routes"
  /\ PageOf["UomsNew"] = "Uoms"
  BY DEF PageOf, DialogOver, AllScreens, Observes

\* The handlers of the leads, the pipeline and the customers refresh their
\* pages.
LEMMA CommercialHandlersRefresh ==
  \A e \in {ConvertLead, CustomerForm, MoveStage, AddCompanyModal,
            EditCompanyModal} :
    RefreshesPages(e)
  <1>1. RefreshesPages(ConvertLead)
    BY ButtonsOnPages, PagesSee
    DEF RefreshesPages, ConvertLead, Awaited, MatchLeadToCompany, LeadsPage,
        ListCompanies, ListLeads, ListOpportunities
  <1>2. RefreshesPages(CustomerForm)
    BY ButtonsOnPages, PagesSee
    DEF RefreshesPages, CustomerForm, WhileMounted, Awaited, RegisterLead,
        LeadsPage, ListLeads
  <1>3. RefreshesPages(MoveStage)
    BY ButtonsOnPages, PagesSee, KeysMatch
    DEF RefreshesPages, MoveStage, Awaited, UpdateOpportunityStage,
        PipelinePage, ListOpportunities
  <1>4. RefreshesPages(AddCompanyModal)
    BY ButtonsOnPages, PagesSee, KeysMatch
    DEF RefreshesPages, AddCompanyModal, Awaited, CreateCompany,
        CustomersPage, ListCompanies
  <1>5. RefreshesPages(EditCompanyModal)
    BY ButtonsOnPages, PagesSee, KeysMatch
    DEF RefreshesPages, EditCompanyModal, Awaited, UpdateCompany,
        CustomerDetailsPage, GetCompany, ListCompanies, ListContacts,
        ListQuotations
  <1>6. QED
    BY <1>1, <1>2, <1>3, <1>4, <1>5

\* The handlers of the quotations, the contracts and the wizard refresh their
\* pages.
LEMMA QuotationHandlersRefresh ==
  \A e \in {SubmitAddQuotation, SubmitAddItem, CalculateButton, SubmitButton,
            ApproveButton, RejectButton, ContractButtons, WizardClient,
            WizardServices, WizardCalculate, WizardFinish} :
    RefreshesPages(e)
  <1>1. RefreshesPages(SubmitAddQuotation)
    BY ButtonsOnPages, PagesSee, KeysMatch
    DEF RefreshesPages, SubmitAddQuotation, Awaited, CreateQuotation,
        QuotationsPage, AddQuotationModal, ListCompanies, ListDestinations,
        ListMtrs, ListPriceTables, ListQuotations
  <1>2. RefreshesPages(SubmitAddItem)
    BY ButtonsOnPages, PagesSee, KeysMatch
    DEF RefreshesPages, SubmitAddItem, Awaited, AddQuotationItem,
        QuotationDetailsPage, AddQuotationItemModal, GetQuotation,
        ListOfferings, ListQuotations, ListUoms
  <1>3. RefreshesPages(CalculateButton)
    BY ButtonsOnPages, PagesSee, KeysMatch
    DEF RefreshesPages, CalculateButton, QuotationButton, Awaited,
        CalculateQuotation, QuotationDetailsPage, AddQuotationItemModal,
        GetQuotation, ListOfferings, ListQuotations, ListUoms
  <1>4. RefreshesPages(SubmitButton)
    BY ButtonsOnPages, PagesSee, KeysMatch
    DEF RefreshesPages, SubmitButton, QuotationButton, Awaited,
        SubmitQuotation, QuotationDetailsPage, AddQuotationItemModal,
        GetQuotation, ListOfferings, ListQuotations, ListUoms
  <1>5. RefreshesPages(ApproveButton)
    BY ButtonsOnPages, PagesSee, KeysMatch
    DEF RefreshesPages, ApproveButton, QuotationButton, Awaited,
        ApproveQuotation, QuotationDetailsPage, AddQuotationItemModal,
        GetQuotation, ListOfferings, ListQuotations, ListUoms
  <1>6. RefreshesPages(RejectButton)
    BY ButtonsOnPages, PagesSee, KeysMatch
    DEF RefreshesPages, RejectButton, QuotationButton, Awaited,
        RejectQuotation, QuotationDetailsPage, AddQuotationItemModal,
        GetQuotation, ListOfferings, ListQuotations, ListUoms
  <1>7. RefreshesPages(ContractButtons)
    BY ButtonsOnPages, PagesSee
    DEF RefreshesPages, ContractButtons, Awaited, SendContractForSignature,
        ActivateContract, ContractDetailsPage, ListContracts
  <1>8. RefreshesPages(WizardClient)
    BY ButtonsOnPages, PagesSee
    DEF RefreshesPages, WizardClient, Awaited, RegisterLead, CreateQuotation,
        AtendimentoWizardPage, ListLeads, ListOfferings, ListPriceTables,
        ListQuotations
  <1>9. RefreshesPages(WizardServices)
    BY ButtonsOnPages, PagesSee
    DEF RefreshesPages, WizardServices, Awaited, AddQuotationItem,
        AtendimentoWizardPage, GetQuotation, ListLeads, ListOfferings,
        ListPriceTables, ListQuotations
  <1>10. RefreshesPages(WizardCalculate)
    BY ButtonsOnPages, PagesSee
    DEF RefreshesPages, WizardCalculate, Awaited, CalculateQuotation,
        AtendimentoWizardPage, GetQuotation, ListLeads, ListOfferings,
        ListPriceTables, ListQuotations
  <1>11. RefreshesPages(WizardFinish)
    BY ButtonsOnPages, PagesSee
    DEF RefreshesPages, WizardFinish, Awaited, ApproveQuotation,
        CreateContract, AtendimentoWizardPage, GetQuotation, ListContracts,
        ListLeads, ListOfferings, ListPriceTables, ListQuotations
  <1>12. QED
    BY <1>1, <1>2, <1>3, <1>4, <1>5, <1>6, <1>7, <1>8, <1>9, <1>10, <1>11

\* The handlers of the catalog and the prices refresh their pages.
LEMMA CatalogHandlersRefresh ==
  \A e \in {SubmitOffering, AttachButton, AttributeForm, UOMForm,
            CreateTable, UpdateTable, UpdateShownTable, ToggleTable,
            AddTableItem} :
    RefreshesPages(e)
  <1>1. RefreshesPages(SubmitOffering)
    BY ButtonsOnPages, PagesSee
    DEF RefreshesPages, SubmitOffering, WhileMounted, Awaited, DraftOffering,
        OfferingsTable, OfferingForm, EditOfferingModal, ListAttributes,
        ListOfferings, ListUoms
  <1>2. RefreshesPages(AttachButton)
    BY ButtonsOnPages, PagesSee
    DEF RefreshesPages, AttachButton, WhileMounted, Awaited, AttachAttribute,
        OfferingsTable, OfferingForm, EditOfferingModal, ListAttributes,
        ListOfferings, ListUoms
  <1>3. RefreshesPages(AttributeForm)
    BY ButtonsOnPages, PagesSee
    DEF RefreshesPages, AttributeForm, WhileMounted, Awaited,
        DefineAttribute, AttributesTable, ListAttributes
  <1>4. RefreshesPages(UOMForm)
    BY ButtonsOnPages, PagesSee
    DEF RefreshesPages, UOMForm, WhileMounted, Awaited, RegisterUom,
        UOMTable, ListUoms
  <1>5. RefreshesPages(CreateTable)
    BY ButtonsOnPages, PagesSee
    DEF RefreshesPages, CreateTable, PriceTableForm, Awaited,
        PriceTablesTable, ListPriceTables
  <1>6. RefreshesPages(UpdateTable)
    BY ButtonsOnPages, PagesSee
    DEF RefreshesPages, UpdateTable, PriceTableForm, Awaited,
        PriceTablesTable, ListPriceTables
  <1>7. RefreshesPages(UpdateShownTable)
    BY ButtonsOnPages, PagesSee
    DEF RefreshesPages, UpdateShownTable, PriceTableForm, Awaited,
        UpdatePriceTable, PriceTableDetailsPage, GetPriceTable,
        ListPriceTables, ListOfferings, ListUoms
  <1>8. RefreshesPages(ToggleTable)
    BY ButtonsOnPages, PagesSee
    DEF RefreshesPages, ToggleTable, Awaited, TogglePriceTableStatus,
        PriceTablesTable, GetPriceTable, ListPriceTables
  <1>9. RefreshesPages(AddTableItem)
    BY ButtonsOnPages, PagesSee
    DEF RefreshesPages, AddTableItem, Awaited, AddPriceTableItem,
        PriceTableDetailsPage, GetPriceTable, ListOfferings, ListPriceTables,
        ListUoms
  <1>10. QED
    BY <1>1, <1>2, <1>3, <1>4, <1>5, <1>6, <1>7, <1>8, <1>9

\* The handlers of the operation refresh their pages.
LEMMA OperationHandlersRefresh ==
  \A e \in {ToggleButton, DestinationModal, SubmitAddRoute, FinishDispatch,
            AutoRoute, VehicleForm, DriverForm} :
    RefreshesPages(e)
  <1>1. RefreshesPages(ToggleButton)
    BY ButtonsOnPages, PagesSee
    DEF RefreshesPages, ToggleButton, Awaited, ToggleDestination,
        DestinationsPage, ListAllDestinations, ListDestinations
  <1>2. RefreshesPages(DestinationModal)
    BY ButtonsOnPages, PagesSee
    DEF RefreshesPages, DestinationModal, Awaited, CreateDestination,
        UpdateDestination, DestinationsPage, ListAllDestinations,
        ListDestinations
  <1>3. RefreshesPages(SubmitAddRoute)
    BY ButtonsOnPages, PagesSee, KeysMatch
    DEF RefreshesPages, SubmitAddRoute, Awaited, CreateRoute,
        AssignRouteResources, PlannerPage, RoutesPage, RouteMapModal,
        DispatchWizard, AddRouteModal, ListDrivers, ListLeads,
        ListRequirements, ListRoutes, ListServiceOrders, ListVehicles
  <1>4. RefreshesPages(FinishDispatch)
    BY ButtonsOnPages, PagesSee, KeysMatch
    DEF RefreshesPages, FinishDispatch, Awaited, RoutesPage, RouteMapModal,
        DispatchWizard, AddRouteModal, ListDrivers, ListLeads, ListRoutes,
        ListServiceOrders, ListVehicles
  <1>5. RefreshesPages(AutoRoute)
    BY ButtonsOnPages, PagesSee, KeysMatch
    DEF RefreshesPages, AutoRoute, Awaited, PlannerPage, ListDrivers,
        ListRequirements, ListRoutes, ListVehicles
  <1>6. RefreshesPages(VehicleForm)
    BY ButtonsOnPages, PagesSee
    DEF RefreshesPages, VehicleForm, WhileMounted, Awaited, RegisterVehicle,
        FleetPage, ListVehicles
  <1>7. RefreshesPages(DriverForm)
    BY ButtonsOnPages, PagesSee
    DEF RefreshesPages, DriverForm, WhileMounted, Awaited, RegisterDriver,
        DriversPage, ListDrivers
  <1>8. QED
    BY <1>1, <1>2, <1>3, <1>4, <1>5, <1>6, <1>7

\* Every handler refreshes its pages.
LEMMA AllHandlersRefresh ==
  \A c \in DOMAIN Handlers : RefreshesPages(Handlers[c])
  BY CommercialHandlersRefresh, QuotationHandlersRefresh,
     CatalogHandlersRefresh, OperationHandlersRefresh DEF Handlers

\* The handlers of stitch-admin refresh what they write on every screen they
\* run on, but for what they neglect.
THEOREM AdminHandlersRefresh == AdminTables => HandlersRefresh
  <1> SUFFICES ASSUME AdminTables, NEW c \in Commands,
                      NEW s \in Effect[c].alive, NEW t \in Effect[c].at,
                      Page[s] = Page[t]
               PROVE  Effect[c].writes \cap (Own[Page[s]] \cup Own[s])
                        \subseteq Effect[c].refetches \cup Effect[c].invalidates
                                    \cup Effect[c].neglects
    BY DEF HandlersRefresh
  <1>1. Effect[c] = Handlers[c] /\ RefreshesPages(Handlers[c])
    BY AllHandlersRefresh DEF AdminTables
  <1>2. s \in AllScreens /\ PageOf[s] = PageOf[t]
    BY TablesAssumption DEF AdminTables, CommandSpec
  <1>3. Own[Page[s]] \cup Own[s] \subseteq Sees(PageOf[t])
    BY <1>2, ScreensSee DEF AdminTables
  <1>4. QED
    BY <1>1, <1>3 DEF RefreshesPages

\* The user of stitch-admin is shown what he wrote, however many commands,
\* moves and foreign writes there are.
THEOREM AdminShowsWrites == AdminTables => (Spec => []ReadYourWrites)
  BY AdminHandlersRefresh, WritesAreRead

-----------------------------------------------------------------------------
(* The forms that fill themselves: their invariant. *)

\* No two lookups of a kind have the same number: none is lost among them.
NumberedApart ==
    \A f, g \in flights : f.kind = g.kind /\ f.no = g.no => f = g

\* Only the lead form has a CEP, an address and a point, and looks them up, and
\* only the destination form has a phone of its own.
FieldsBelong ==
    /\ \A g \in Fields \ FieldsOf(form) : fields[g] = Blank
    /\ \A f \in flights : From[f.kind] \in FieldsOf(form)

\* At most one company is looked up.
LoneCompany == \A f, g \in flights : f.kind = "cnpj" /\ g.kind = "cnpj" => f = g

\* A clean lookup was asked for what its source still says, and not for a
\* stored destination.
CleanIsCurrent ==
    \A f \in flights : f.clean =>
        /\ fields[From[f.kind]] = f.of
        /\ f.kind = "cnpj" => subject \notin Records

\* What FilledFromSource says of an open form holds of a closed one too, but
\* for the destination, which is filled anew when it is opened.
FieldsFollow ==
    /\ form = "destination" /\ subject # Closed =>
         LET source == IF subject \in Records THEN subject ELSE fields["key"]
         IN  Follow("details", source) /\ Follow("phone", source)
    /\ form # "destination" => Follow("details", fields["key"])
    /\ Follow("address", fields["cep"])
    /\ Follow("point", fields["address"])

FormInv ==
    /\ FormTypeOK /\ SearchShown
    /\ NumberedApart /\ FieldsBelong /\ LoneCompany /\ CleanIsCurrent
    /\ FieldsFollow

\* The fields of each form.
LEMMA FieldsOfForms ==
  ASSUME FormInv
  PROVE  /\ form \in {"company", "lead", "destination"}
         /\ form = "company" => FieldsOf(form) = {"key", "details"}
         /\ form = "lead" => FieldsOf(form) = Fields \ {"phone"}
         /\ form = "destination" => FieldsOf(form) = {"key", "details", "phone"}
  <1>1. form \in {"company", "lead", "destination"}
    BY NamesAssumption DEF FormInv, FormTypeOK
  <1>2. QED
    BY <1>1 DEF FieldsOf, Fields

-----------------------------------------------------------------------------
(* Lookups under way. *)

\* A number is free, whatever numbers the rivals have.
LEMMA FreeNumberIsFree ==
  ASSUME NEW rivals \in SUBSET Lookups, IsFiniteSet(rivals)
  PROVE  FreeNumber(rivals) \in Nat /\ \A f \in rivals : f.no # FreeNumber(rivals)
  <1> DEFINE n == Cardinality(rivals)
             numbers == [f \in rivals |-> f.no]
             taken == {f.no : f \in rivals}
  <1>1. n \in Nat
    BY FS_CardinalityType
  <1>2. numbers \in Surjection(rivals, taken)
    BY DEF Surjection
  <1>3. IsFiniteSet(taken) /\ Cardinality(taken) <= n
    BY <1>2, FS_Surjection
  <1>4. \E m \in 1..(n + 1) : m \notin taken
    <2> SUFFICES ASSUME 1..(n + 1) \subseteq taken PROVE FALSE
      OBVIOUS
    <2>1. Cardinality(1..(n + 1)) <= Cardinality(taken)
      BY <1>3, FS_Subset
    <2>2. Cardinality(1..(n + 1)) = n + 1
      BY <1>1, FS_Interval
    <2>3. Cardinality(taken) \in Nat
      BY <1>3, FS_CardinalityType
    <2>4. QED
      BY <1>1, <1>3, <2>1, <2>2, <2>3
  <1>5. \E m \in 1..(n + 1) : \A f \in rivals : f.no # m
    BY <1>4
  <1>6. FreeNumber(rivals) \in 1..(n + 1) /\ \A f \in rivals : f.no # FreeNumber(rivals)
    BY <1>5 DEF FreeNumber
  <1>7. QED
    BY <1>1, <1>6

\* A lookup that is no longer clean is the same lookup otherwise.
LEMMA UncleanLookup ==
  ASSUME NEW f \in Lookups
  PROVE  /\ Unclean(f) \in Lookups /\ ~Unclean(f).clean
         /\ Unclean(f).kind = f.kind /\ Unclean(f).no = f.no
  BY DEF Unclean, Lookups

\* Lookups of which some are no longer clean are as many lookups, one for one.
LEMMA SoiledLookups ==
  ASSUME NEW some \in SUBSET Lookups, IsFiniteSet(some), NEW kinds
  PROVE  /\ Soiled(some, kinds) \in SUBSET Lookups
         /\ IsFiniteSet(Soiled(some, kinds))
         /\ \A f \in Soiled(some, kinds) : \E g \in some :
              /\ f.kind = g.kind /\ f.no = g.no
              /\ f = IF g.kind \in kinds THEN Unclean(g) ELSE g
         /\ \A f \in Soiled(some, kinds) : f.clean => f \in some /\ f.kind \notin kinds
         /\ \A g \in some : \E f \in Soiled(some, kinds) : f.kind = g.kind
         /\ \A g \in some : g.kind \notin kinds => g \in Soiled(some, kinds)
  <1> DEFINE each == [f \in some |-> IF f.kind \in kinds THEN Unclean(f) ELSE f]
             after == Soiled(some, kinds)
  <1>1. each \in Surjection(some, after)
    BY DEF Surjection, Soiled
  <1>2. IsFiniteSet(after)
    BY <1>1, FS_Surjection
  <1>3. after \in SUBSET Lookups
    BY UncleanLookup DEF Soiled
  <1>4. \A f \in after : \E g \in some :
           /\ f.kind = g.kind /\ f.no = g.no
           /\ f = IF g.kind \in kinds THEN Unclean(g) ELSE g
    BY UncleanLookup DEF Soiled
  <1>5. \A f \in after : f.clean => f \in some /\ f.kind \notin kinds
    BY UncleanLookup DEF Soiled
  <1>6. \A g \in some : \E f \in after : f.kind = g.kind
    BY UncleanLookup DEF Soiled
  <1>7. \A g \in some : g.kind \notin kinds => g \in after
    BY DEF Soiled
  <1>8. QED
    BY <1>2, <1>3, <1>4, <1>5, <1>6, <1>7

\* Asking for one more lookup: it is the only clean one of its kind, if any is.
LEMMA WithOneMore ==
  ASSUME NEW others \in SUBSET Lookups, IsFiniteSet(others),
         NEW k \in Kinds, NEW p \in Places
  PROVE  /\ With(others, k, p) \in SUBSET Lookups
         /\ IsFiniteSet(With(others, k, p))
         /\ \A f \in With(others, k, p) :
              \/ f \in others /\ f.kind # k
              \/ f.kind = k /\ (f.clean => f.of = p)
         /\ \A f \in others : f.kind # k => f \in With(others, k, p)
         /\ \E f \in With(others, k, p) : f.kind = k
         /\ (\A f \in others : f.kind # k)
              => \A f, g \in With(others, k, p) : f.kind = k /\ g.kind = k => f = g
         /\ (\A f, g \in others : f.kind = g.kind /\ f.no = g.no => f = g)
              => \A f, g \in With(others, k, p) :
                   f.kind = g.kind /\ f.no = g.no => f = g
  <1> DEFINE rivals == {f \in others : f.kind = k}
             before == Soiled(others, {k})
             new == [kind |-> k, of |-> p, no |-> FreeNumber(rivals),
                     clean |-> rivals = {}]
  <1>1. rivals \in SUBSET Lookups /\ IsFiniteSet(rivals)
    BY FS_Subset
  <1>2. FreeNumber(rivals) \in Nat /\ \A f \in rivals : f.no # FreeNumber(rivals)
    BY <1>1, FreeNumberIsFree
  <1>3. before \in SUBSET Lookups /\ IsFiniteSet(before)
    BY SoiledLookups
  <1>4. With(others, k, p) = before \cup {new}
    BY DEF With
  <1>5. new \in Lookups
    BY <1>2 DEF Lookups
  <1>7. \A f \in before : \E g \in others :
           /\ f.kind = g.kind /\ f.no = g.no
           /\ f = IF g.kind \in {k} THEN Unclean(g) ELSE g
    BY SoiledLookups
  <1>8. \A f \in before : f.kind = k => ~f.clean
    BY SoiledLookups
  <1>9. \A f \in others : f.kind # k => f \in before
    BY SoiledLookups
  <1>10. new.kind = k /\ new.of = p /\ new.no = FreeNumber(rivals)
    OBVIOUS
  <1> HIDE DEF new, before
  <1>6. IsFiniteSet(With(others, k, p))
    BY <1>3, <1>4, FS_AddElement
  <1>11. \A f \in before : f.kind = new.kind => f.no # new.no
    BY <1>2, <1>7, <1>10
  <1>12. (\A f \in others : f.kind # k)
           => \A f, g \in With(others, k, p) : f.kind = k /\ g.kind = k => f = g
    BY <1>4, <1>7, <1>10
  <1>13. ASSUME \A f, g \in others : f.kind = g.kind /\ f.no = g.no => f = g,
                NEW f \in With(others, k, p), NEW g \in With(others, k, p),
                f.kind = g.kind, f.no = g.no
         PROVE  f = g
    <2>1. CASE f = new \/ g = new
      BY <1>4, <1>11, <1>13, <2>1
    <2>2. CASE f \in before /\ g \in before
      BY <1>7, <1>13, <2>2
    <2>3. QED
      BY <1>4, <2>1, <2>2
  <1>14. \A f \in before : (f \in others /\ f.kind # k) \/ f.kind = k
    BY <1>7
  <1>15. QED
    BY <1>3, <1>4, <1>5, <1>6, <1>8, <1>9, <1>10, <1>12, <1>13, <1>14

-----------------------------------------------------------------------------
(* The steps of the dialog. *)

\* Touching the form: lookups of some kinds are no longer clean, the others
\* read and write what they did.
LEMMA Touching ==
  ASSUME FormInv, NEW kinds, flights' = Soiled(flights, kinds),
         fields' \in [Fields -> Places \cup Records \cup {Blank, Typed}],
         \A k \in Kinds \ kinds : fields'[From[k]] = fields[From[k]],
         \A g \in Fields \ FieldsOf(form) : fields'[g] \in {fields[g], Blank},
         "cnpj" \in kinds \/ subject' \notin Records \/ subject' = subject,
         UNCHANGED <<form, fetching>>
  PROVE  /\ SearchShown' /\ NumberedApart' /\ FieldsBelong' /\ LoneCompany'
         /\ CleanIsCurrent'
         /\ flights' \subseteq Lookups /\ IsFiniteSet(flights')
         /\ Landing' = Landing
  <1>1. flights \in SUBSET Lookups /\ IsFiniteSet(flights)
    BY DEF FormInv, FormTypeOK
  <1>2. flights' \in SUBSET Lookups /\ IsFiniteSet(flights')
    BY <1>1, SoiledLookups
  <1>3. /\ \A f \in flights' : \E g \in flights :
              /\ f.kind = g.kind /\ f.no = g.no
              /\ f = IF g.kind \in kinds THEN Unclean(g) ELSE g
        /\ \A f \in flights' : f.clean => f \in flights /\ f.kind \notin kinds
        /\ \A g \in flights : \E f \in flights' : f.kind = g.kind
    BY <1>1, SoiledLookups
  <1>4. SearchShown'
    BY <1>3 DEF FormInv, SearchShown
  <1>5. NumberedApart'
    BY <1>3 DEF FormInv, NumberedApart
  <1>6. LoneCompany'
    BY <1>3 DEF FormInv, LoneCompany
  <1>7. CleanIsCurrent'
    BY <1>1, <1>3 DEF FormInv, CleanIsCurrent, Lookups
  <1>8. Landing' = Landing
    BY <1>3 DEF Landing
  <1>9. FieldsBelong'
    BY <1>3 DEF FormInv, FieldsBelong
  <1>10. QED
    BY <1>2, <1>4, <1>5, <1>6, <1>7, <1>8, <1>9

\* Opening the dialog.
LEMMA OpenKeeps ==
  ASSUME FormInv, NEW s \in {New} \cup Records, OpenDialog(s)
  PROVE  FormInv'
  <1>1. /\ s \in {New} \cup (IF form = "destination" THEN Records ELSE {})
        /\ subject = Closed /\ subject' = s
        /\ acts' \in Nat
        /\ UNCHANGED <<form, fetching, sending>>
    BY DEF OpenDialog, Act, FormInv, FormTypeOK
  <1>2. CASE form = "destination"
    <2>1. PICK phone \in {Blank, Stored(s)} :
            fields' = [fields EXCEPT !["details"] = Stored(s), !["phone"] = phone,
                                     !["key"] = IF s = New THEN Blank ELSE @]
      BY <1>2 DEF OpenDialog
    <2>2. flights' = Soiled(flights, Kinds) /\ stray' = {}
      BY <1>2 DEF OpenDialog
    <2>3. fields' \in [Fields -> Places \cup Records \cup {Blank, Typed}]
      BY <1>1, <2>1 DEF FormInv, FormTypeOK, Fields, Stored
    <2>4. /\ fields'["details"] = IF s = New THEN Blank ELSE s
          /\ fields'["phone"] \in {Blank, IF s = New THEN Blank ELSE s}
          /\ fields'["key"] = IF s = New THEN Blank ELSE fields["key"]
          /\ \A g \in {"cep", "address", "point"} : fields'[g] = Blank
      BY <1>2, <2>1, FieldsOfForms
      DEF FormInv, FormTypeOK, FieldsBelong, Fields, Stored
    <2>5. \A g \in Fields \ FieldsOf(form) : fields'[g] \in {fields[g], Blank}
      BY <1>2, <2>4, FieldsOfForms DEF Fields
    <2>6. /\ SearchShown' /\ NumberedApart' /\ FieldsBelong' /\ LoneCompany'
          /\ CleanIsCurrent'
          /\ flights' \subseteq Lookups /\ IsFiniteSet(flights')
      BY <1>1, <2>3, <2>5, <2>2, Touching DEF Kinds
    <2>7. FormTypeOK'
      BY <1>1, <2>3, <2>6, <2>2 DEF FormInv, FormTypeOK
    <2>8. FieldsFollow'
      BY <1>1, <1>2, <2>4, NamesAssumption DEF FieldsFollow, Follow
    <2>9. QED
      BY <2>6, <2>7, <2>8 DEF FormInv
  <1>3. CASE form # "destination"
    <2>1. UNCHANGED <<fields, flights, stray>> /\ s = New
      BY <1>1, <1>3 DEF OpenDialog
    <2>2. FormTypeOK'
      BY <1>1, <2>1 DEF FormInv, FormTypeOK
    <2>3. SearchShown' /\ NumberedApart' /\ FieldsBelong' /\ LoneCompany'
      BY <1>1, <2>1
      DEF FormInv, SearchShown, NumberedApart, FieldsBelong, LoneCompany
    <2>4. CleanIsCurrent'
      BY <1>1, <2>1, NamesAssumption DEF FormInv, CleanIsCurrent
    <2>5. FieldsFollow'
      BY <1>1, <1>3, <2>1 DEF FormInv, FieldsFollow, Follow, Landing
    <2>6. QED
      BY <2>2, <2>3, <2>4, <2>5 DEF FormInv
  <1>4. QED
    BY <1>2, <1>3

\* Closing it.
LEMMA CloseKeeps ==
  ASSUME FormInv, CloseDialog
  PROVE  FormInv'
  <1>1. /\ subject' = Closed /\ acts' \in Nat
        /\ UNCHANGED <<form, fields, flights, fetching, stray, sending>>
    BY DEF CloseDialog, Act, FormInv, FormTypeOK
  <1>2. FormTypeOK'
    BY <1>1 DEF FormInv, FormTypeOK
  <1>3. SearchShown' /\ NumberedApart' /\ FieldsBelong' /\ LoneCompany'
    BY <1>1 DEF FormInv, SearchShown, NumberedApart, FieldsBelong, LoneCompany
  <1>4. CleanIsCurrent'
    BY <1>1, NamesAssumption DEF FormInv, CleanIsCurrent
  <1>5. FieldsFollow'
    BY <1>1 DEF FormInv, FieldsFollow, Follow, Landing
  <1>6. QED
    BY <1>2, <1>3, <1>4, <1>5 DEF FormInv

\* What the lookups that read a field fill.
LEMMA FilledByLookups ==
  ASSUME NEW g
  PROVE  /\ FilledFrom(g) \subseteq Fields
         /\ \A k \in Kinds : From[k] = g => Into[k] \subseteq FilledFrom(g)
  <1>1. \A k \in Kinds : Into[k] \subseteq Fields
    BY DEF Kinds, Into, Fields
  <1>2. \A h \in FilledFrom(g) : \E k \in Kinds : h \in Into[k]
    BY DEF FilledFrom, AskedFrom
  <1>3. \A k \in Kinds : From[k] = g => Into[k] \subseteq FilledFrom(g)
    BY DEF FilledFrom, AskedFrom
  <1>4. QED
    BY <1>1, <1>2, <1>3

\* Typing into a field.
LEMMA TypeKeeps ==
  ASSUME FormInv, NEW g \in Fields, NEW v \in Places \cup {Blank, Typed}, Type(g, v)
  PROVE  FormInv'
  <1>1. /\ g \in FieldsOf(form)
        /\ fields' = [fields EXCEPT ![g] = v]
        /\ flights' = Soiled(flights, AskedFrom(g))
        /\ stray' = stray \cup FilledFrom(g) \cup {g}
        /\ acts' \in Nat
        /\ UNCHANGED <<form, subject, fetching, sending>>
    BY DEF Type, Act, FormInv, FormTypeOK
  <1>2. /\ FilledFrom(g) \subseteq Fields
        /\ \A k \in Kinds : From[k] = g => Into[k] \subseteq FilledFrom(g)
    BY FilledByLookups
  <1>3. fields' \in [Fields -> Places \cup Records \cup {Blank, Typed}]
    BY <1>1 DEF FormInv, FormTypeOK
  <1>4. \A h \in Fields \ {g} : fields'[h] = fields[h]
    BY <1>1 DEF FormInv, FormTypeOK
  <1>5. \A k \in Kinds \ AskedFrom(g) : fields'[From[k]] = fields[From[k]]
    BY <1>4 DEF Kinds, From, Fields, AskedFrom
  <1>6. /\ SearchShown' /\ NumberedApart' /\ FieldsBelong' /\ LoneCompany'
        /\ CleanIsCurrent'
        /\ flights' \subseteq Lookups /\ IsFiniteSet(flights')
        /\ Landing' = Landing
    BY <1>1, <1>3, <1>4, <1>5, Touching
  <1>7. stray' \subseteq Fields
    BY <1>1, <1>2 DEF FormInv, FormTypeOK
  <1>8. FormTypeOK'
    BY <1>1, <1>3, <1>6, <1>7 DEF FormInv, FormTypeOK
  <1>9. /\ stray \subseteq stray' /\ g \in stray'
        /\ g = "key" => "details" \in stray' /\ "phone" \in stray'
        /\ g = "cep" => "address" \in stray'
        /\ g = "address" => "point" \in stray'
    BY <1>1, <1>2 DEF Kinds, From, Into
  <1>10. FieldsFollow'
    BY <1>1, <1>4, <1>6, <1>9 DEF FormInv, FieldsFollow, Follow, Fields
  <1>11. QED
    BY <1>6, <1>8, <1>10 DEF FormInv

\* Picking a suggestion.
LEMMA SelectKeeps ==
  ASSUME FormInv, NEW p \in Places, Select(p)
  PROVE  FormInv'
  <1>1. /\ form = "lead"
        /\ fields' = [fields EXCEPT !["address"] = p, !["point"] = p]
        /\ flights' = Soiled(flights, {"geocode"})
        /\ stray' = (stray \cup {"address"}) \ {"point"}
        /\ acts' \in Nat
        /\ UNCHANGED <<form, subject, fetching, sending>>
    BY DEF Select, Act, FormInv, FormTypeOK
  <1>2. /\ fields' \in [Fields -> Places \cup Records \cup {Blank, Typed}]
        /\ fields'["address"] = p /\ fields'["point"] = p
        /\ \A g \in {"key", "details", "phone", "cep"} : fields'[g] = fields[g]
    BY <1>1 DEF FormInv, FormTypeOK, Fields
  <1>3. \A k \in Kinds \ {"geocode"} : fields'[From[k]] = fields[From[k]]
    BY <1>2 DEF Kinds, From
  <1>4. \A g \in Fields \ FieldsOf(form) : fields'[g] = fields[g]
    BY <1>1, <1>2, FieldsOfForms
  <1>5. /\ SearchShown' /\ NumberedApart' /\ FieldsBelong' /\ LoneCompany'
        /\ CleanIsCurrent'
        /\ flights' \subseteq Lookups /\ IsFiniteSet(flights')
        /\ Landing' = Landing
    BY <1>1, <1>2, <1>3, <1>4, Touching
  <1>6. FormTypeOK'
    BY <1>1, <1>2, <1>5 DEF FormInv, FormTypeOK, Fields
  <1>7. FieldsFollow'
    BY <1>1, <1>2, <1>5 DEF FormInv, FieldsFollow, Follow
  <1>8. QED
    BY <1>5, <1>6, <1>7 DEF FormInv

-----------------------------------------------------------------------------
(* The steps of the lookups. *)

\* Asking by hand: a second company is not looked up.
LEMMA AskKeeps ==
  ASSUME FormInv, NEW k \in Kinds, Ask(k)
  PROVE  FormInv'
  <1> DEFINE p == fields[From[k]]
  <1>1. /\ From[k] \in FieldsOf(form) /\ k # "geocode"
        /\ p \in Places
        /\ ~Disabled(From[k]) /\ (form = "destination" => ~fetching[k])
        /\ flights' = With(flights, k, p)
        /\ fetching' = [fetching EXCEPT ![k] = TRUE]
        /\ acts' \in Nat
        /\ UNCHANGED <<form, subject, fields, stray, sending>>
    BY DEF Ask, Act, FormInv, FormTypeOK
  <1>2. flights \in SUBSET Lookups /\ IsFiniteSet(flights)
    BY DEF FormInv, FormTypeOK
  <1> HIDE DEF p
  <1>3. /\ flights' \in SUBSET Lookups /\ IsFiniteSet(flights')
        /\ \A f \in flights' : \/ f \in flights /\ f.kind # k
                               \/ f.kind = k /\ (f.clean => f.of = p)
        /\ \A f \in flights : f.kind # k => f \in flights'
        /\ \E f \in flights' : f.kind = k
        /\ (\A f \in flights : f.kind # k)
             => \A f, g \in flights' : f.kind = k /\ g.kind = k => f = g
        /\ (\A f, g \in flights : f.kind = g.kind /\ f.no = g.no => f = g)
             => \A f, g \in flights' : f.kind = g.kind /\ f.no = g.no => f = g
    BY <1>1, <1>2, WithOneMore
  <1>4. k = "cnpj" => /\ \A f \in flights : f.kind # k
                      /\ subject \notin Records
    BY <1>1 DEF Disabled, From, FormInv, SearchShown
  <1>5. fetching' \in [Kinds -> BOOLEAN] /\ fetching'[k]
          /\ \A j \in Kinds \ {k} : fetching'[j] = fetching[j]
    BY <1>1 DEF FormInv, FormTypeOK
  <1>6. FormTypeOK'
    BY <1>1, <1>3, <1>5 DEF FormInv, FormTypeOK
  <1>7. SearchShown'
    BY <1>2, <1>3, <1>5 DEF FormInv, SearchShown, Kinds
  <1>8. NumberedApart'
    BY <1>3 DEF FormInv, NumberedApart
  <1>9. LoneCompany'
    BY <1>3, <1>4 DEF FormInv, LoneCompany
  <1>10. CleanIsCurrent'
    BY <1>1, <1>3, <1>4 DEF FormInv, CleanIsCurrent, p
  <1>11. FieldsBelong'
    BY <1>1, <1>3 DEF FormInv, FieldsBelong
  <1>12. Landing \subseteq Landing'
    BY <1>3 DEF Landing
  <1>13. FieldsFollow'
    BY <1>1, <1>12 DEF FormInv, FieldsFollow, Follow
  <1>14. QED
    BY <1>6, <1>7, <1>8, <1>9, <1>10, <1>11, <1>13 DEF FormInv

\* The fields a lookup wrote follow their source only if the lookup was clean.
LEMMA FollowsClean ==
  ASSUME FormInv, NEW f \in flights
  PROVE  /\ Follows(f) \subseteq Fields
         /\ \A g \in Into[f.kind] : g \notin Follows(f) => f.clean
         /\ \A g \in stray : g \notin Into[f.kind] => g \in Follows(f)
  <1>1. stray \subseteq Fields /\ Into[f.kind] \subseteq Fields
    BY DEF FormInv, FormTypeOK, Lookups, Kinds, Into, Fields
  <1>2. QED
    BY <1>1 DEF Follows

\* The lookups that are left when one ends.
LEMMA LandsLookups ==
  ASSUME FormInv, NEW f \in flights
  PROVE  /\ Lands(f) \in SUBSET Lookups /\ IsFiniteSet(Lands(f))
         /\ f.kind \in Kinds /\ f.of \in Places
         /\ f.kind = "cnpj" => \A g \in Lands(f) : g.kind # "cnpj"
         /\ \A g \in flights : g.kind # f.kind => g \in Lands(f)
         /\ \A g, h \in Lands(f) : g.kind = h.kind /\ g.no = h.no => g = h
         /\ Landing \ Into[f.kind] \subseteq UNION {Into[g.kind] : g \in Lands(f)}
  <1>1. flights \in SUBSET Lookups /\ IsFiniteSet(flights)
    BY DEF FormInv, FormTypeOK
  <1>2. Lands(f) \in SUBSET Lookups /\ IsFiniteSet(Lands(f))
    BY <1>1, FS_Subset DEF Lands
  <1>3. QED
    BY <1>1, <1>2
    DEF Lands, FormInv, NumberedApart, LoneCompany, Lookups, Landing

\* A lookup ends, its kind is no longer fetched, and no other starts.
LEMMA LandingAlone ==
  ASSUME FormInv, NEW f \in flights, flights' = Lands(f),
         fetching' = [fetching EXCEPT ![f.kind] = FALSE],
         UNCHANGED form
  PROVE  /\ SearchShown' /\ NumberedApart' /\ LoneCompany'
         /\ flights' \subseteq Lookups /\ IsFiniteSet(flights')
         /\ fetching' \in [Kinds -> BOOLEAN]
         /\ Landing \ Into[f.kind] \subseteq Landing'
         /\ \A g \in flights' : From[g.kind] \in FieldsOf(form)
  <1>1. /\ flights' \in SUBSET Lookups /\ IsFiniteSet(flights')
        /\ f.kind \in Kinds
        /\ f.kind = "cnpj" => \A g \in flights' : g.kind # "cnpj"
        /\ \A g \in flights : g.kind # f.kind => g \in flights'
        /\ \A g, h \in flights' : g.kind = h.kind /\ g.no = h.no => g = h
        /\ Landing \ Into[f.kind] \subseteq Landing'
    BY LandsLookups DEF Landing
  <1>2. flights' \subseteq flights
    BY DEF Lands
  <1>3. /\ fetching' \in [Kinds -> BOOLEAN] /\ ~fetching'[f.kind]
        /\ \A k \in Kinds \ {f.kind} : fetching'[k] = fetching[k]
    BY <1>1 DEF FormInv, FormTypeOK
  <1>4. SearchShown'
    BY <1>1, <1>2, <1>3 DEF FormInv, SearchShown, Kinds
  <1>5. LoneCompany'
    BY <1>2 DEF FormInv, LoneCompany
  <1>6. NumberedApart'
    BY <1>1 DEF NumberedApart
  <1>7. \A g \in flights' : From[g.kind] \in FieldsOf(form)
    BY <1>2 DEF FormInv, FieldsBelong
  <1>8. QED
    BY <1>1, <1>3, <1>4, <1>5, <1>6, <1>7

\* A lookup ends and the next of its chain starts.
LEMMA LandingChained ==
  ASSUME FormInv, NEW f \in flights, NEW k \in {"cep", "geocode"}, f.kind # k,
         form = "lead",
         flights' = With(Lands(f), k, f.of),
         fetching' = [fetching EXCEPT ![f.kind] = FALSE, ![k] = TRUE],
         UNCHANGED form
  PROVE  /\ SearchShown' /\ NumberedApart' /\ LoneCompany'
         /\ flights' \subseteq Lookups /\ IsFiniteSet(flights')
         /\ fetching' \in [Kinds -> BOOLEAN]
         /\ Landing \ Into[f.kind] \subseteq Landing' /\ Into[k] \subseteq Landing'
         /\ \A g \in flights' : From[g.kind] \in FieldsOf(form)
         /\ \A g \in flights' : g.clean => \/ g \in flights /\ g.kind # k
                                           \/ g.kind = k /\ g.of = f.of
  <1> DEFINE others == Lands(f)
  <1>1. /\ others \in SUBSET Lookups /\ IsFiniteSet(others)
        /\ f.kind \in Kinds /\ f.of \in Places /\ k \in Kinds
        /\ f.kind = "cnpj" => \A g \in others : g.kind # "cnpj"
        /\ \A g \in flights : g.kind # f.kind => g \in others
        /\ \A g, h \in others : g.kind = h.kind /\ g.no = h.no => g = h
        /\ Landing \ Into[f.kind] \subseteq UNION {Into[g.kind] : g \in others}
    BY LandsLookups DEF Kinds
  <1>2. others \subseteq flights
    BY DEF Lands
  <1> HIDE DEF others
  <1>3. /\ flights' \in SUBSET Lookups /\ IsFiniteSet(flights')
        /\ \A g \in flights' : \/ g \in others /\ g.kind # k
                               \/ g.kind = k /\ (g.clean => g.of = f.of)
        /\ \A g \in others : g.kind # k => g \in flights'
        /\ \E g \in flights' : g.kind = k
        /\ \A g, h \in flights' : g.kind = h.kind /\ g.no = h.no => g = h
    BY <1>1, WithOneMore DEF others
  <1>4. /\ fetching' \in [Kinds -> BOOLEAN] /\ fetching'[k] /\ ~fetching'[f.kind]
        /\ \A j \in Kinds \ {f.kind, k} : fetching'[j] = fetching[j]
    BY <1>1 DEF FormInv, FormTypeOK
  <1>5. SearchShown'
    BY <1>1, <1>2, <1>3, <1>4 DEF FormInv, SearchShown, Kinds
  <1>6. LoneCompany'
    BY <1>2, <1>3 DEF FormInv, LoneCompany
  <1>7. Landing \ Into[f.kind] \subseteq Landing' /\ Into[k] \subseteq Landing'
    BY <1>1, <1>3 DEF Landing
  <1>8. \A g \in flights' : From[g.kind] \in FieldsOf(form)
    BY <1>1, <1>3, FieldsOfForms DEF Lookups, Kinds, From, Fields
  <1>9. QED
    BY <1>2, <1>3, <1>4, <1>5, <1>6, <1>7, <1>8 DEF NumberedApart

\* What the three forms share when a company lands: which of its details
\* follow the CNPJ.
LEMMA CompanyFollows ==
  ASSUME FormInv, NEW f \in flights, f.kind = "cnpj"
  PROVE  /\ f.of \in Places /\ f \in Lookups
         /\ Into[f.kind] = {"details", "phone"}
         /\ Follows(f) \subseteq Fields
         /\ "details" \notin Follows(f) => f.clean
         /\ "phone" \notin Follows(f) => f.clean
         /\ \A g \in stray : g \notin {"details", "phone"} => g \in Follows(f)
         /\ f.clean => fields["key"] = f.of /\ subject \notin Records
  <1>1. f.of \in Places /\ f \in Lookups
    BY LandsLookups DEF FormInv, FormTypeOK
  <1>2. Into[f.kind] = {"details", "phone"} /\ From[f.kind] = "key"
    BY DEF Into, From
  <1>3. QED
    BY <1>1, <1>2, FollowsClean DEF FormInv, CleanIsCurrent

\* The company, when nothing is looked up after it.
LEMMA CompanyAloneKeeps ==
  ASSUME FormInv, NEW f \in flights, f.kind = "cnpj",
         flights' = Lands(f),
         fetching' = [fetching EXCEPT !["cnpj"] = FALSE],
         UNCHANGED <<form, subject, sending, acts>>,
         NEW phone \in {fields["phone"], f.of},
         phone # fields["phone"] => form = "destination",
         fields' = [fields EXCEPT !["details"] = f.of, !["phone"] = phone],
         stray' \subseteq Fields, Follows(f) \subseteq stray',
         form = "destination" => phone = f.of \/ "phone" \in stray'
  PROVE  FormInv'
  <1> DEFINE p == f.of
  <1>1. /\ p \in Places
        /\ Into[f.kind] = {"details", "phone"}
        /\ "details" \notin stray' => f.clean
        /\ "phone" \notin stray' => f.clean
        /\ \A g \in stray : g \notin {"details", "phone"} => g \in stray'
        /\ f.clean => fields["key"] = p /\ subject \notin Records
    BY CompanyFollows
  <1>2. /\ SearchShown' /\ NumberedApart' /\ LoneCompany'
        /\ flights' \subseteq Lookups /\ IsFiniteSet(flights')
        /\ fetching' \in [Kinds -> BOOLEAN]
        /\ Landing \ {"details", "phone"} \subseteq Landing'
        /\ \A g \in flights' : From[g.kind] \in FieldsOf(form)
    BY <1>1, LandingAlone
  <1>3. flights' \subseteq flights
    BY DEF Lands
  <1>4. /\ fields' \in [Fields -> Places \cup Records \cup {Blank, Typed}]
        /\ fields'["details"] = p /\ fields'["phone"] = phone
        /\ \A g \in {"key", "cep", "address", "point"} : fields'[g] = fields[g]
    BY <1>1 DEF FormInv, FormTypeOK, Fields
  <1>5. FormTypeOK'
    BY <1>2, <1>4 DEF FormInv, FormTypeOK
  <1>6. FieldsBelong'
    BY <1>2, <1>4, FieldsOfForms DEF FormInv, FieldsBelong, Fields
  <1>7. CleanIsCurrent'
    BY <1>3, <1>4 DEF FormInv, FormTypeOK, CleanIsCurrent, Lookups, Kinds, From
  <1>8. FieldsFollow'
    BY <1>1, <1>2, <1>4 DEF FormInv, FieldsFollow, Follow
  <1>9. QED
    BY <1>2, <1>5, <1>6, <1>7, <1>8 DEF FormInv

\* The company of a lead, whose CEP is looked up next.
LEMMA CompanyChainedKeeps ==
  ASSUME FormInv, NEW f \in flights, f.kind = "cnpj", form = "lead",
         fields' = [fields EXCEPT !["details"] = f.of, !["cep"] = f.of],
         flights' = With(Lands(f), "cep", f.of),
         fetching' = [fetching EXCEPT !["cnpj"] = FALSE, !["cep"] = TRUE],
         stray' = Follows(f),
         UNCHANGED <<form, subject, sending, acts>>
  PROVE  FormInv'
  <1> DEFINE p == f.of
  <1>1. /\ p \in Places
        /\ Into[f.kind] = {"details", "phone"}
        /\ stray' \subseteq Fields
        /\ "details" \notin stray' => f.clean
        /\ \A g \in stray : g \notin {"details", "phone"} => g \in stray'
        /\ f.clean => fields["key"] = p /\ subject \notin Records
    BY CompanyFollows
  <1>2. /\ SearchShown' /\ NumberedApart' /\ LoneCompany'
        /\ flights' \subseteq Lookups /\ IsFiniteSet(flights')
        /\ fetching' \in [Kinds -> BOOLEAN]
        /\ Landing \ {"details", "phone"} \subseteq Landing' /\ "address" \in Landing'
        /\ \A g \in flights' : From[g.kind] \in FieldsOf(form)
        /\ \A g \in flights' : g.clean => \/ g \in flights /\ g.kind # "cep"
                                          \/ g.kind = "cep" /\ g.of = p
    <2>1. /\ Into["cep"] = {"address"}
          /\ fetching' = [fetching EXCEPT ![f.kind] = FALSE, !["cep"] = TRUE]
      BY DEF Into
    <2>2. f.kind # "cep" /\ "cep" \in {"cep", "geocode"} /\ form' = form
      OBVIOUS
    <2> HIDE DEF p
    <2>3. QED
      BY <1>1, <2>1, <2>2, LandingChained DEF p
  <1>3. /\ fields' \in [Fields -> Places \cup Records \cup {Blank, Typed}]
        /\ fields'["details"] = p /\ fields'["cep"] = p
        /\ \A g \in {"key", "phone", "address", "point"} : fields'[g] = fields[g]
    BY <1>1 DEF FormInv, FormTypeOK, Fields
  <1>4. FormTypeOK'
    BY <1>1, <1>2, <1>3 DEF FormInv, FormTypeOK
  <1>5. FieldsBelong'
    BY <1>2, <1>3, FieldsOfForms DEF FormInv, FieldsBelong, Fields
  <1>6. CleanIsCurrent'
    BY <1>2, <1>3 DEF FormInv, FormTypeOK, CleanIsCurrent, Lookups, Kinds, From
  <1>7. FieldsFollow'
    BY <1>1, <1>2, <1>3 DEF FormInv, FieldsFollow, Follow
  <1>8. QED
    BY <1>2, <1>4, <1>5, <1>6, <1>7 DEF FormInv

\* The company, in each of the forms.
LEMMA LandCompanyKeeps ==
  ASSUME FormInv, NEW f \in flights, LandCompany(f)
  PROVE  FormInv'
  <1>1. f.kind = "cnpj" /\ UNCHANGED <<form, subject, sending, acts>>
    BY DEF LandCompany
  <1>2. Follows(f) \subseteq Fields
    BY <1>1, CompanyFollows
  <1>3. [fields EXCEPT !["details"] = f.of]
          = [fields EXCEPT !["details"] = f.of, !["phone"] = fields["phone"]]
    BY DEF FormInv, FormTypeOK, Fields
  <1>4. CASE LandCustomer(f)
    BY <1>1, <1>2, <1>3, <1>4, CompanyAloneKeeps DEF LandCustomer
  <1>5. CASE LandLead(f)
    <2>1. form = "lead" /\ stray' = Follows(f)
      BY <1>5 DEF LandLead
    <2>2. CASE /\ fields' = [fields EXCEPT !["details"] = f.of, !["cep"] = f.of]
               /\ flights' = With(Lands(f), "cep", f.of)
               /\ fetching' = [fetching EXCEPT !["cnpj"] = FALSE, !["cep"] = TRUE]
      BY <1>1, <2>1, <2>2, CompanyChainedKeeps
    <2>3. CASE /\ fields' = [fields EXCEPT !["details"] = f.of]
               /\ flights' = Lands(f)
               /\ fetching' = [fetching EXCEPT !["cnpj"] = FALSE]
      BY <1>1, <1>2, <1>3, <2>1, <2>3, CompanyAloneKeeps
    <2>4. QED
      BY <1>5, <2>2, <2>3 DEF LandLead
  <1>6. CASE LandDestination(f)
    <2>1. /\ form = "destination" /\ flights' = Lands(f)
          /\ fetching' = [fetching EXCEPT !["cnpj"] = FALSE]
      BY <1>6 DEF LandDestination
    <2>2. CASE /\ fields' = [fields EXCEPT !["details"] = f.of, !["phone"] = f.of]
               /\ stray' = Follows(f)
      BY <1>1, <1>2, <2>1, <2>2, CompanyAloneKeeps
    <2>3. CASE /\ fields' = [fields EXCEPT !["details"] = f.of]
               /\ stray' = Follows(f) \cup {"phone"}
      <3>1. stray' \subseteq Fields /\ Follows(f) \subseteq stray'
        BY <1>2, <2>3 DEF Fields
      <3>2. QED
        BY <1>1, <1>3, <2>1, <2>3, <3>1, CompanyAloneKeeps
    <2>4. QED
      BY <1>6, <2>2, <2>3 DEF LandDestination
  <1>7. QED
    BY <1>4, <1>5, <1>6 DEF LandCompany

\* The address, whose point is looked up next.
LEMMA LandAddressKeeps ==
  ASSUME FormInv, NEW f \in flights, LandAddress(f)
  PROVE  FormInv'
  <1> DEFINE p == f.of
  <1>1. /\ f.kind = "cep" /\ stray' = Follows(f)
        /\ fields' = [fields EXCEPT !["address"] = p]
        /\ flights' = With(Lands(f), "geocode", p)
        /\ fetching' = [fetching EXCEPT !["cep"] = FALSE, !["geocode"] = TRUE]
        /\ UNCHANGED <<form, subject, sending, acts>>
    BY DEF LandAddress
  <1>2. p \in Places
    BY LandsLookups
  <1>3. Into[f.kind] = {"address"} /\ Into["geocode"] = {"point"} /\ From[f.kind] = "cep"
    BY <1>1 DEF Into, From
  <1>4. form = "lead"
    BY <1>3, FieldsOfForms DEF FormInv, FieldsBelong
  <1>5. /\ stray' \subseteq Fields
        /\ "address" \notin stray' => f.clean
        /\ \A g \in stray : g # "address" => g \in stray'
    BY <1>1, <1>3, FollowsClean
  <1>6. f.clean => fields["cep"] = p
    BY <1>3 DEF FormInv, CleanIsCurrent
  <1>7. /\ fields' \in [Fields -> Places \cup Records \cup {Blank, Typed}]
        /\ fields'["address"] = p
        /\ \A g \in {"key", "details", "phone", "cep", "point"} : fields'[g] = fields[g]
    BY <1>1, <1>2 DEF FormInv, FormTypeOK, Fields
  <1>8. /\ SearchShown' /\ NumberedApart' /\ LoneCompany'
        /\ flights' \subseteq Lookups /\ IsFiniteSet(flights')
        /\ fetching' \in [Kinds -> BOOLEAN]
        /\ Landing \ {"address"} \subseteq Landing' /\ "point" \in Landing'
        /\ \A g \in flights' : From[g.kind] \in FieldsOf(form)
        /\ \A g \in flights' : g.clean => \/ g \in flights /\ g.kind # "geocode"
                                          \/ g.kind = "geocode" /\ g.of = p
    <2>1. /\ f.kind # "geocode" /\ "geocode" \in {"cep", "geocode"} /\ form' = form
          /\ fetching' = [fetching EXCEPT ![f.kind] = FALSE, !["geocode"] = TRUE]
      BY <1>1
    <2> HIDE DEF p
    <2>2. QED
      BY <1>1, <1>3, <1>4, <2>1, LandingChained DEF p
  <1>9. FormTypeOK'
    BY <1>1, <1>5, <1>7, <1>8 DEF FormInv, FormTypeOK
  <1>10. FieldsBelong'
    BY <1>1, <1>4, <1>7, <1>8, FieldsOfForms DEF FormInv, FieldsBelong, Fields
  <1>11. CleanIsCurrent'
    BY <1>1, <1>7, <1>8
    DEF FormInv, FormTypeOK, CleanIsCurrent, Lookups, Kinds, From
  <1>12. FieldsFollow'
    BY <1>1, <1>4, <1>5, <1>6, <1>7, <1>8 DEF FormInv, FieldsFollow, Follow
  <1>13. QED
    BY <1>8, <1>9, <1>10, <1>11, <1>12 DEF FormInv

\* The point.
LEMMA LandPointKeeps ==
  ASSUME FormInv, NEW f \in flights, LandPoint(f)
  PROVE  FormInv'
  <1> DEFINE p == f.of
  <1>1. /\ f.kind = "geocode" /\ stray' = Follows(f)
        /\ fields' = [fields EXCEPT !["point"] = p]
        /\ flights' = Lands(f)
        /\ fetching' = [fetching EXCEPT ![f.kind] = FALSE]
        /\ UNCHANGED <<form, subject, sending, acts>>
    BY DEF LandPoint
  <1>2. p \in Places
    BY LandsLookups
  <1>3. Into[f.kind] = {"point"} /\ From[f.kind] = "address"
    BY <1>1 DEF Into, From
  <1>4. form = "lead"
    BY <1>3, FieldsOfForms DEF FormInv, FieldsBelong
  <1>5. /\ stray' \subseteq Fields
        /\ "point" \notin stray' => f.clean
        /\ \A g \in stray : g # "point" => g \in stray'
    BY <1>1, <1>3, FollowsClean
  <1>6. f.clean => fields["address"] = p
    BY <1>3 DEF FormInv, CleanIsCurrent
  <1>7. /\ fields' \in [Fields -> Places \cup Records \cup {Blank, Typed}]
        /\ fields'["point"] = p
        /\ \A g \in {"key", "details", "phone", "cep", "address"} : fields'[g] = fields[g]
    BY <1>1, <1>2 DEF FormInv, FormTypeOK, Fields
  <1>8. /\ SearchShown' /\ NumberedApart' /\ LoneCompany'
        /\ flights' \subseteq Lookups /\ IsFiniteSet(flights')
        /\ fetching' \in [Kinds -> BOOLEAN]
        /\ Landing \ {"point"} \subseteq Landing'
        /\ \A g \in flights' : From[g.kind] \in FieldsOf(form)
    BY <1>1, <1>3, LandingAlone
  <1>9. flights' \subseteq flights
    BY <1>1 DEF Lands
  <1>10. FormTypeOK'
    BY <1>1, <1>5, <1>7, <1>8 DEF FormInv, FormTypeOK
  <1>11. FieldsBelong'
    BY <1>1, <1>4, <1>7, <1>8, FieldsOfForms DEF FormInv, FieldsBelong, Fields
  <1>12. CleanIsCurrent'
    BY <1>1, <1>7, <1>9
    DEF FormInv, FormTypeOK, CleanIsCurrent, Lookups, Kinds, From
  <1>13. FieldsFollow'
    BY <1>1, <1>4, <1>5, <1>6, <1>7, <1>8 DEF FormInv, FieldsFollow, Follow
  <1>14. QED
    BY <1>8, <1>10, <1>11, <1>12, <1>13 DEF FormInv

\* A lookup that fails or finds nothing.
LEMMA LookupFailsKeeps ==
  ASSUME FormInv, NEW f \in flights, LookupFails(f)
  PROVE  FormInv'
  <1>1. /\ flights' = Lands(f)
        /\ fetching' = [fetching EXCEPT ![f.kind] = FALSE]
        /\ stray' = stray \cup Into[f.kind]
        /\ UNCHANGED <<form, subject, fields, sending, acts>>
    BY DEF LookupFails
  <1>2. /\ SearchShown' /\ NumberedApart' /\ LoneCompany'
        /\ flights' \subseteq Lookups /\ IsFiniteSet(flights')
        /\ fetching' \in [Kinds -> BOOLEAN]
        /\ Landing \ Into[f.kind] \subseteq Landing'
        /\ \A g \in flights' : From[g.kind] \in FieldsOf(form)
    BY <1>1, LandingAlone
  <1>3. flights' \subseteq flights /\ Into[f.kind] \subseteq Fields
    BY <1>1 DEF Lands, FormInv, FormTypeOK, Lookups, Kinds, Into, Fields
  <1>4. FormTypeOK'
    BY <1>1, <1>2, <1>3 DEF FormInv, FormTypeOK
  <1>5. FieldsBelong'
    BY <1>1, <1>2 DEF FormInv, FieldsBelong
  <1>6. CleanIsCurrent'
    BY <1>1, <1>3 DEF FormInv, CleanIsCurrent
  <1>7. stray \cup Landing \subseteq stray' \cup Landing'
    BY <1>1, <1>2
  <1>8. FieldsFollow'
    BY <1>1, <1>7 DEF FormInv, FieldsFollow, Follow
  <1>9. QED
    BY <1>2, <1>4, <1>5, <1>6, <1>8 DEF FormInv

-----------------------------------------------------------------------------
(* Storing the form, and all steps together. *)

\* Sending it, and the server's refusal.
LEMMA SendingKeeps ==
  ASSUME FormInv, SubmitForm \/ FormRefused
  PROVE  FormInv'
  <1>1. /\ sending' \in BOOLEAN /\ acts' \in Nat
        /\ UNCHANGED <<form, subject, fields, flights, fetching, stray>>
    <2>1. acts \in Nat
      BY DEF FormInv, FormTypeOK
    <2>2. CASE SubmitForm
      BY <2>1, <2>2 DEF SubmitForm, Act
    <2>3. CASE FormRefused
      BY <2>1, <2>3 DEF FormRefused
    <2>4. QED
      BY <2>2, <2>3
  <1>2. QED
    BY <1>1
    DEF FormInv, FormTypeOK, SearchShown, NumberedApart, FieldsBelong, LoneCompany,
        CleanIsCurrent, FieldsFollow, Follow, Landing

\* The success of what was sent.
LEMMA StoredKeeps ==
  ASSUME FormInv, FormStored
  PROVE  FormInv'
  <1>1. /\ sending' = FALSE /\ subject' = Closed
        /\ UNCHANGED <<form, fetching, acts>>
    BY DEF FormStored
  <1>2. CASE form = "company"
    <2>1. /\ fields' = [g \in Fields |-> Blank]
          /\ flights' = Soiled(flights, Kinds)
          /\ stray' = {}
      BY <1>2 DEF FormStored
    <2>2. fields' \in [Fields -> Places \cup Records \cup {Blank, Typed}]
      BY <2>1
    <2>3. \A g \in Fields \ FieldsOf(form) : fields'[g] \in {fields[g], Blank}
      BY <2>1
    <2>4. /\ SearchShown' /\ NumberedApart' /\ FieldsBelong' /\ LoneCompany'
          /\ CleanIsCurrent'
          /\ flights' \subseteq Lookups /\ IsFiniteSet(flights')
      BY <1>1, <2>1, <2>2, <2>3, Touching DEF Kinds
    <2>5. FormTypeOK'
      BY <1>1, <2>1, <2>2, <2>4 DEF FormInv, FormTypeOK
    <2>6. FieldsFollow'
      BY <1>1, <2>1 DEF FieldsFollow, Follow, Fields
    <2>7. QED
      BY <2>4, <2>5, <2>6 DEF FormInv
  <1>3. CASE form # "company"
    <2>1. UNCHANGED <<fields, flights, stray>>
      BY <1>3 DEF FormStored
    <2>2. FormTypeOK'
      BY <1>1, <2>1 DEF FormInv, FormTypeOK
    <2>3. SearchShown' /\ NumberedApart' /\ FieldsBelong' /\ LoneCompany'
      BY <1>1, <2>1
      DEF FormInv, SearchShown, NumberedApart, FieldsBelong, LoneCompany
    <2>4. CleanIsCurrent'
      BY <1>1, <2>1, NamesAssumption DEF FormInv, CleanIsCurrent
    <2>5. FieldsFollow'
      BY <1>1, <2>1 DEF FormInv, FieldsFollow, Follow, Landing
    <2>6. QED
      BY <2>2, <2>3, <2>4, <2>5 DEF FormInv
  <1>4. QED
    BY <1>2, <1>3

\* A form starts closed and empty.
LEMMA InitFormInv == FormInit => FormInv
  <1> SUFFICES ASSUME FormInit PROVE FormInv
    OBVIOUS
  <1>1. FormTypeOK
    BY NamesAssumption, FS_EmptySet DEF FormInit, FormTypeOK
  <1>2. SearchShown /\ NumberedApart /\ FieldsBelong /\ LoneCompany /\ CleanIsCurrent
    BY DEF FormInit, SearchShown, NumberedApart, FieldsBelong, LoneCompany,
           CleanIsCurrent
  <1>3. FieldsFollow
    BY DEF FormInit, FieldsFollow, Follow, Fields
  <1>4. QED
    BY <1>1, <1>2, <1>3 DEF FormInv

\* Every step of the user, of the services and of the server keeps the invariant.
LEMMA NextFormInv == FormInv /\ [FormNext]_formVars => FormInv'
  <1> SUFFICES ASSUME FormInv, [FormNext]_formVars PROVE FormInv'
    OBVIOUS
  <1>1. CASE \E s \in {New} \cup Records : OpenDialog(s)
    BY <1>1, OpenKeeps
  <1>2. CASE CloseDialog
    BY <1>2, CloseKeeps
  <1>3. CASE \E g \in Fields, v \in Places \cup {Blank, Typed} : Type(g, v)
    BY <1>3, TypeKeeps
  <1>4. CASE \E p \in Places : Select(p)
    BY <1>4, SelectKeeps
  <1>5. CASE \E k \in Kinds : Ask(k)
    BY <1>5, AskKeeps
  <1>6. CASE \E f \in flights : Answered(f)
    BY <1>6, LandCompanyKeeps, LandAddressKeeps, LandPointKeeps, LookupFailsKeeps
    DEF Answered
  <1>7. CASE SubmitForm \/ FormRefused
    BY <1>7, SendingKeeps
  <1>8. CASE FormStored
    BY <1>8, StoredKeeps
  <1>9. CASE UNCHANGED formVars
    BY <1>9
    DEF formVars, FormInv, FormTypeOK, SearchShown, NumberedApart, FieldsBelong,
        LoneCompany, CleanIsCurrent, FieldsFollow, Follow, Landing
  <1>10. QED
    BY <1>1, <1>2, <1>3, <1>4, <1>5, <1>6, <1>7, <1>8, <1>9 DEF FormNext

\* Every reachable state of a form satisfies the inductive invariant.
THEOREM FormInvariant == FormSpec => []FormInv
  BY InitFormInv, NextFormInv, PTL DEF FormSpec

\* Type correctness of the fields and the lookups of a form.
THEOREM FormTypeCorrect == FormSpec => []FormTypeOK
  <1>1. FormInv => FormTypeOK
    BY DEF FormInv
  <1>2. QED
    BY FormInvariant, <1>1, PTL

\* No field of an open form stands for something else than its source, but for
\* the stated exceptions: for any places, records and number of steps.
THEOREM FieldsComeFromSource == FormSpec => []FilledFromSource
  <1>1. FormInv => FilledFromSource
    <2> SUFFICES ASSUME FormInv PROVE FilledFromSource
      OBVIOUS
    <2>1. form # "destination" =>
            subject \notin Records /\ fields["phone"] = Blank
      BY FieldsOfForms, NamesAssumption
      DEF FormInv, FormTypeOK, FieldsBelong, Fields
    <2>2. QED
      BY <2>1 DEF FormInv, FieldsFollow, FilledFromSource, Follow
  <1>2. QED
    BY FormInvariant, <1>1, PTL

\* A flag is up only while a lookup runs that takes it down.
THEOREM SearchesAreShown == FormSpec => []SearchShown
  <1>1. FormInv => SearchShown
    BY DEF FormInv
  <1>2. QED
    BY FormInvariant, <1>1, PTL

=============================================================================
