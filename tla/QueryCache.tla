----------------------------- MODULE QueryCache -----------------------------
(***************************************************************************)
(* The query cache behind the screens of stitch-admin.                     *)
(*                                                                         *)
(* Every screen reads the server through generated react-query hooks and   *)
(* writes to it through generated mutation hooks; nothing but the cache    *)
(* connects the two.  A screen shows the last answer that landed, and a    *)
(* write reaches the screen only when its success handler invalidates or   *)
(* refetches the right query, and only if the handler still runs.  The     *)
(* generated hooks hand react-query's abort signal to the request, so      *)
(* leaving a screen aborts the requests only that screen was waiting for.  *)
(*                                                                         *)
(* The server's answer to a query is abstracted to a version, which each   *)
(* write that changes the answer increments; version 0 is "no data yet".   *)
(* The client is configured in main.tsx: answers are stale at once, so     *)
(* every mount asks again, and no refetch happens on window focus.         *)
(***************************************************************************)
EXTENDS Naturals, FiniteSets

CONSTANTS
    Keys,          \* query keys
    Screens,       \* pages, and dialogs opened over a page
    Page,          \* the page a screen belongs to; Page[p] = p for a page
    Own,           \* the queries a page, or a dialog on top of it, observes
    Commands,      \* the writes a user can start
    Effect,        \* what each command needs, writes and refreshes
    Elsewhere,     \* the sets of answers a write of another client changes
    MaxCommands,   \* bound: commands the user starts
    MaxMoves,      \* bound: times the user changes screen by himself
    MaxElsewhere,  \* bound: writes of other clients
    Watches        \* the sets of queries one behaviour follows

Stay == "stay"     \* the handler leaves the screen as it is
Close == "close"   \* the handler closes the dialog of the button

CommandSpec ==
    [at : SUBSET Screens,         \* the screens with the button
     needs : SUBSET Keys,         \* queries whose data the button acts on
     writes : SUBSET Keys,        \* queries the server answers anew after it
     invalidates : SUBSET Keys,   \* keys the handler's invalidations match
     refetches : SUBSET Keys,     \* keys the handler refetches by name
     neglects : SUBSET Keys,      \* writes the handler does not refresh
     alive : SUBSET Screens,      \* screens on which the handler still runs
     goto : Screens \cup {Stay, Close}]  \* where the handler leads

ASSUME TablesAssumption ==
    /\ Page \in [Screens -> Screens]
    /\ \A s \in Screens : Page[Page[s]] = Page[s]
    /\ Own \in [Screens -> SUBSET Keys]
    /\ Effect \in [Commands -> CommandSpec]
    /\ Elsewhere \subseteq SUBSET Keys
    /\ {Stay, Close} \cap Screens = {}
    /\ MaxCommands \in Nat /\ MaxMoves \in Nat /\ MaxElsewhere \in Nat
    /\ Watches \subseteq SUBSET Keys

(* Queries meet nowhere but in the screen and in the buttons, and every     *)
(* property speaks of one query at a time: a behaviour follows the queries *)
(* of one set of Watches and leaves the others out.  With Watches = {Keys} *)
(* it follows them all.                                                    *)
VARIABLES
    watched,   \* the queries this behaviour follows
    server,    \* the version of the server's answer to each query
    shown,     \* the version the cache holds, 0 when it holds none
    fetch,     \* each query's request: idle, asked, or answered on its way
    answer,    \* the version an answered request carries
    errored,   \* queries whose last request failed
    screen,    \* the screen the user is on
    command,   \* each command: idle, sent, or applied by the server
    promised,  \* what the server held when a write was last reported done
    excused,   \* queries the code leaves behind what was promised
    budget     \* commands, moves and foreign writes still allowed

vars == <<watched, server, shown, fetch, answer, errored, screen, command,
          promised, excused, budget>>

Mounts(s) == (Own[Page[s]] \cup Own[s]) \cap watched
Mounted == Mounts(screen)

Init ==
    /\ watched \in Watches
    /\ server = [k \in watched |-> 1]
    /\ shown = [k \in watched |-> 0]
    /\ screen \in {s \in Screens : Page[s] = s}
    /\ fetch = [k \in watched |-> IF k \in Mounts(screen) THEN "asked" ELSE "idle"]
    /\ answer = [k \in watched |-> 0]
    /\ errored = {}
    /\ command = [c \in Commands |-> "idle"]
    /\ promised = [k \in watched |-> 0]
    /\ excused = {}
    /\ budget = [commands |-> MaxCommands, moves |-> MaxMoves,
                 elsewhere |-> MaxElsewhere]

-----------------------------------------------------------------------------
\* Queries

(* A mutant: leaving aborts a request the new screen is waiting for, too.   *)
EnteringAborted(f, t) ==
    [k \in watched |->
        IF k \in Mounted /\ Page[t] # Page[screen] THEN "idle"
        ELSE IF k \in Mounts(t) /\ f[k] = "idle" THEN "asked" ELSE f[k]]

(* The requests after going to screen t with the requests f under way: what *)
(* only the old screen observed is aborted; what the new page, or the       *)
(* dialog that opens, observes is asked for unless a request survives.      *)
Entering(f, t) ==
    LET samePage == Page[t] = Page[screen]
        lost     == {k \in Mounted : ~samePage \/ k \notin Mounts(t)}
        asks     == IF ~samePage THEN Mounts(t)
                    ELSE IF Page[t] = t THEN {} ELSE Own[t] \cap watched
    IN  [k \in watched |->
            IF k \in asks /\ (k \in lost \/ f[k] = "idle") THEN "asked"
            ELSE IF k \in lost THEN "idle" ELSE f[k]]

(* What an in-flight answer, an error and an excuse become when the        *)
(* requests change to f: a request asked anew drops the answer on its way, *)
(* clears the error of a query without data, and will read everything      *)
(* promised so far.                                                        *)
Requests(f, lag) ==
    /\ fetch' = f
    /\ answer' = [k \in watched |-> IF f[k] = "answered" THEN answer[k] ELSE 0]
    /\ errored' = {k \in errored : f[k] # "asked" \/ shown[k] > 0}
    /\ excused' = {k \in excused \cup lag : f[k] # "asked"}

(* The user changes screen: another page, a dialog of this page, or back.  *)
Move(t) ==
    /\ budget.moves > 0
    /\ t # screen
    /\ Page[t] = t \/ Page[t] = Page[screen]
    /\ budget' = [budget EXCEPT !.moves = @ - 1]
    /\ screen' = t
    /\ Requests(Entering(fetch, t), {})
    /\ UNCHANGED <<watched, server, shown, command, promised>>

(* The server answers a request with what it holds at that moment.         *)
Answer(k) ==
    /\ k \in watched /\ fetch[k] = "asked"
    /\ fetch' = [fetch EXCEPT ![k] = "answered"]
    /\ answer' = [answer EXCEPT ![k] = server[k]]
    /\ UNCHANGED <<watched, server, shown, errored, screen, command,
                   promised, excused, budget>>

(* A mutant: a refetch interval asks again after every answer.              *)
LandPolling(k) ==
    /\ k \in watched /\ fetch[k] = "answered"
    /\ shown' = [shown EXCEPT ![k] = answer[k]]
    /\ fetch' = [fetch EXCEPT ![k] = "asked"]
    /\ answer' = [answer EXCEPT ![k] = 0]
    /\ errored' = errored \ {k}
    /\ UNCHANGED <<watched, server, screen, command, promised, excused, budget>>

(* The answer reaches the cache.                                           *)
Land(k) ==
    /\ k \in watched /\ fetch[k] = "answered"
    /\ shown' = [shown EXCEPT ![k] = answer[k]]
    /\ fetch' = [fetch EXCEPT ![k] = "idle"]
    /\ answer' = [answer EXCEPT ![k] = 0]
    /\ errored' = errored \ {k}
    /\ UNCHANGED <<watched, server, screen, command, promised, excused,
                   budget>>

(* A mutant: a request that fails off line is paused, a fourth state.       *)
FailPaused(k) ==
    /\ k \in watched /\ fetch[k] = "asked"
    /\ fetch' = [fetch EXCEPT ![k] = "paused"]
    /\ errored' = errored \cup {k}
    /\ UNCHANGED <<watched, server, shown, answer, screen, command, promised,
                   excused, budget>>

(* The request and its one retry fail.                                     *)
Fail(k) ==
    /\ k \in watched /\ fetch[k] = "asked"
    /\ fetch' = [fetch EXCEPT ![k] = "idle"]
    /\ errored' = errored \cup {k}
    /\ UNCHANGED <<watched, server, shown, answer, screen, command,
                   promised, excused, budget>>

(* The data of a query nobody observes is thrown away after a while.       *)
Collect(k) ==
    /\ k \in watched \ Mounted /\ fetch[k] = "idle" /\ shown[k] > 0
    /\ shown' = [shown EXCEPT ![k] = 0]
    /\ UNCHANGED <<watched, server, fetch, answer, errored, screen, command,
                   promised, excused, budget>>

-----------------------------------------------------------------------------
\* Commands

(* A command without a followed query can but move the user, as Move does. *)
Followed(c) ==
    (Effect[c].writes \cup Effect[c].invalidates \cup Effect[c].refetches)
        \cap watched # {}

(* The user presses the button of a command that is not pending.  A button *)
(* that stays enabled meanwhile stands for as many commands as it starts.  *)
Issue(c) ==
    /\ budget.commands > 0
    /\ Followed(c)
    /\ command[c] = "idle"
    /\ screen \in Effect[c].at
    /\ \A k \in Effect[c].needs \cap watched : shown[k] > 0
    /\ budget' = [budget EXCEPT !.commands = @ - 1]
    /\ command' = [command EXCEPT ![c] = "sent"]
    /\ UNCHANGED <<watched, server, shown, fetch, answer, errored, screen,
                   promised, excused>>

Written(ks) ==
    [k \in watched |-> IF k \in ks THEN server[k] + 1 ELSE server[k]]

(* The server commits it.                                                  *)
Apply(c) ==
    /\ command[c] = "sent"
    /\ server' = Written(Effect[c].writes)
    /\ command' = [command EXCEPT ![c] = "applied"]
    /\ UNCHANGED <<watched, shown, fetch, answer, errored, screen, promised,
                   excused, budget>>

(* The client hears of an error: the server refused, or its reply was      *)
(* lost.  The handlers report it and refresh nothing.                      *)
Refused(c) ==
    /\ command[c] \in {"sent", "applied"}
    /\ command' = [command EXCEPT ![c] = "idle"]
    /\ UNCHANGED <<watched, server, shown, fetch, answer, errored, screen,
                   promised, excused, budget>>

(* What the success handler makes react-query fetch again: a refetch by    *)
(* name always, an invalidation only for the queries a screen observes.    *)
Refreshed(c) ==
    IF screen \in Effect[c].alive
      THEN Effect[c].refetches \cup (Effect[c].invalidates \cap Mounted)
      ELSE {}

(* A refresh cancels a request in flight and asks again, but joins the     *)
(* first load of a query that has no data yet.                             *)
Refreshing(c) ==
    [k \in watched |->
        IF k \in Refreshed(c) /\ (fetch[k] = "idle" \/ shown[k] > 0)
        THEN "asked" ELSE fetch[k]]

(* The queries a handler leaves behind its own write: an answer read       *)
(* before is still on its way and the refresh joined it or had no observer *)
(* to work for; the user has left the page of the button; the handler died *)
(* with its dialog; or it never refreshes them.                            *)
Late(c) ==
    {k \in Effect[c].writes \cap watched :
        fetch[k] = "answered" /\ (shown[k] = 0 \/ k \notin Mounted)}
AtHome(c) ==
    /\ Page[screen] \in {Page[s] : s \in Effect[c].at}
    /\ screen \in Effect[c].alive
Behind(c) ==
    Late(c) \cup (IF AtHome(c) THEN Effect[c].neglects \cap watched
                  ELSE (Effect[c].writes \cap watched) \ Refreshed(c))

(* Where the success handler leaves the user: the page it navigates to, or *)
(* the page under the dialog it closes.                                    *)
Leads(c) ==
    IF screen \notin Effect[c].alive \/ Effect[c].goto = Stay THEN screen
    ELSE IF Effect[c].goto # Close THEN Effect[c].goto
    ELSE IF screen \in Effect[c].at THEN Page[screen] ELSE screen

(* The reply of a successful command reaches the client.                   *)
Acknowledge(c) ==
    /\ command[c] = "applied"
    /\ command' = [command EXCEPT ![c] = "idle"]
    /\ promised' = [k \in watched |->
                      IF k \in Effect[c].writes THEN server[k] ELSE promised[k]]
    /\ screen' = Leads(c)
    /\ Requests(IF Leads(c) = screen THEN Refreshing(c)
                ELSE Entering(Refreshing(c), Leads(c)), Behind(c))
    /\ UNCHANGED <<watched, server, shown, budget>>

(* Another client, or a job of the server, changes some answers.           *)
WriteElsewhere(ks) ==
    /\ budget.elsewhere > 0
    /\ budget' = [budget EXCEPT !.elsewhere = @ - 1]
    /\ server' = Written(ks)
    /\ UNCHANGED <<watched, shown, fetch, answer, errored, screen, command,
                   promised, excused>>

Next ==
    \/ \E t \in Screens : Move(t)
    \/ \E k \in Keys : Answer(k) \/ Land(k) \/ Fail(k) \/ Collect(k)
    \/ \E c \in Commands : Issue(c) \/ Apply(c) \/ Refused(c) \/ Acknowledge(c)
    \/ \E ks \in Elsewhere : WriteElsewhere(ks)

(* Every request is answered or fails, and every answer is delivered.      *)
Fairness ==
    /\ \A k \in Keys : WF_vars(Answer(k) \/ Fail(k)) /\ WF_vars(Land(k))
    /\ \A c \in Commands : WF_vars(Apply(c) \/ Refused(c) \/ Acknowledge(c))

Spec == Init /\ [][Next]_vars /\ Fairness

-----------------------------------------------------------------------------
\* Properties

TypeOK ==
    /\ server \in [watched -> Nat] /\ shown \in [watched -> Nat]
    /\ fetch \in [watched -> {"idle", "asked", "answered"}]
    /\ answer \in [watched -> Nat]
    /\ errored \subseteq watched
    /\ screen \in Screens
    /\ command \in [Commands -> {"idle", "sent", "applied"}]
    /\ promised \in [watched -> Nat]
    /\ excused \subseteq watched
    /\ watched \subseteq Keys
    /\ budget \in [commands : Nat, moves : Nat, elsewhere : Nat]

(* Once the user has been told that a write succeeded, every query on his  *)
(* screen that has come to rest shows that write, whatever requests were   *)
(* under way when it was made: the refresh of the handlers reaches every   *)
(* query the write changed, except where the code is known to fall behind. *)
ReadYourWrites ==
    \A k \in Mounted \ (excused \cup errored) :
        fetch[k] = "idle" => shown[k] >= promised[k]

(* No screen is left waiting for a query nobody is asking for: a query on  *)
(* the screen has data, or an error to show, or a request under way.       *)
NothingHangs ==
    \A k \in Mounted : fetch[k] = "idle" /\ shown[k] = 0 => k \in errored

(* When the user and the others stop, every query on the screen comes to   *)
(* rest.                                                                   *)
Settles == <>[](\A k \in Mounted : fetch[k] = "idle")
=============================================================================
