------------------------------ MODULE Dashboard ------------------------------
(***************************************************************************)
(* A browser tab with the dashboard (app/static/js/dashboard.js) in front  *)
(* of the core and the agent (CoreProxy).  Its two asynchronous functions, *)
(* poll and runAction, run between each other at every await: polls are    *)
(* started by a timer that does not wait for the last one, so their        *)
(* answers come back in any order, also while an action is in flight.      *)
(***************************************************************************)
EXTENDS CoreProxy

CONSTANT Polls      \* the timer's polls that can be under way at a time

ASSUME DashboardConstants == "own" \notin Polls

AllPolls == Polls \cup {"own"}     \* "own" is the poll that ends an action

VARIABLES
    allows,     \* serverAllowsControl
    inFlight,   \* actionInFlight
    controls,   \* which controls are enabled
    poll,       \* each poll: its stage, and the page it brings
    action,     \* the request whose fetch runAction awaits, or None
    report      \* the line under the controls

tabVars == <<allows, inFlight, controls, poll, action, report>>
vars == <<proxyVars, tabVars>>

NoPoll == [stage |-> "idle", page |-> Unavailable]

(* The template's controls are enabled until the first poll is drawn.      *)
DashboardInit ==
    /\ ProxyInit
    /\ allows = FALSE
    /\ inFlight = FALSE
    /\ controls = [emergency |-> TRUE, others |-> TRUE]
    /\ poll = [p \in AllPolls |-> NoPoll]
    /\ action = None
    /\ report = [says |-> "nothing", of |-> None]

-----------------------------------------------------------------------------
(* updateControlAvailability(enabled, reason, safetyState).                *)

HotLockAnyTime(enabled, state, busy) == ~enabled /\ state = "hot"

HotLock(enabled, state, busy) == ~enabled /\ state = "hot" /\ ~busy

ControlsFor(enabled, state, busy) ==
    LET others == enabled /\ ~busy
    IN  [others    |-> others,
         emergency |-> others \/ HotLock(enabled, state, busy)]

Update(enabled, state) ==
    /\ allows' = enabled
    /\ controls' = ControlsFor(enabled, state, inFlight')

-----------------------------------------------------------------------------
(* poll().                                                                 *)

Brought(p, page) ==
    poll' = [poll EXCEPT ![p] = [stage |-> "answered", page |-> page]]

StartPoll(p) ==
    /\ poll[p] = NoPoll
    /\ poll' = [poll EXCEPT ![p].stage = "waiting"]
    /\ UNCHANGED <<proxyVars, allows, inFlight, controls, action, report>>

(* The core builds the payload. *)
AnswerPoll(p) ==
    /\ poll[p].stage = "waiting"
    /\ Brought(p, StatusPayload)
    /\ UNCHANGED <<proxyVars, allows, inFlight, controls, action, report>>

(* The core cannot be reached: the page draws a status of its own.         *)
PollFails(p) ==
    /\ poll[p].stage = "waiting" /\ Failure
    /\ Brought(p, Page("sensor-failure", FALSE))
    /\ UNCHANGED <<interfaceVars, up, answer, weather, allows, inFlight, controls,
                   action, report>>

HasAnswer(p) == poll[p].stage = "answered"

(* render() at the end of a poll of the timer.                             *)
Draw(p) ==
    /\ HasAnswer(p)
    /\ UNCHANGED inFlight
    /\ Update(poll[p].page.enabled, poll[p].page.state)
    /\ poll' = [poll EXCEPT ![p] = NoPoll]
    /\ UNCHANGED <<proxyVars, action, report>>

-----------------------------------------------------------------------------
(* runAction().                                                            *)

Enabled(order) ==
    IF order.duty = FullDuty THEN controls.emergency ELSE controls.others

(* A click on Apply or on a profile: at most one action is under way.      *)
Click(c, order) ==
    /\ ~inFlight /\ Enabled(order)
    /\ inFlight' = TRUE
    /\ Update(allows, "none")
    /\ action' = c
    /\ report' = [says |-> "busy", of |-> c]
    /\ Forward(c, order) \/ Reject(c)
    /\ UNCHANGED <<up, budgets, poll>>

FinallyStillInFlight(message) ==
    /\ UNCHANGED inFlight
    /\ Update(allows, "none")
    /\ action' = None
    /\ report' = [says |-> message, of |-> action]

(* The finally block.                                                      *)
Finally(message) ==
    /\ inFlight' = FALSE
    /\ Update(allows, "none")
    /\ action' = None
    /\ report' = [says |-> message, of |-> action]

(* No token has been entered: post throws before it sends anything.        *)
ClickWithoutToken(order) ==
    /\ ~inFlight /\ Enabled(order)
    /\ Finally("error")
    /\ UNCHANGED <<proxyVars, poll>>

Fetching(c) == action = c /\ poll["own"] = NoPoll

(* The fetch fails in the network; the core has the request all the same.  *)
FetchFails(c) ==
    /\ Fetching(c) /\ Failure
    /\ Finally("error")
    /\ UNCHANGED <<interfaceVars, up, answer, weather, poll>>

HasReply(c) == Fetching(c) /\ ~Waits(c)

Succeed(c) ==
    /\ HasReply(c) /\ answer[c] = "success"
    /\ report' = [says |-> "success", of |-> c]
    /\ poll' = [poll EXCEPT !["own"].stage = "waiting"]
    /\ UNCHANGED <<proxyVars, allows, inFlight, controls, action>>

ReportError(c) ==
    /\ HasReply(c) /\ answer[c] # "success"
    /\ Finally(answer[c])
    /\ UNCHANGED <<proxyVars, poll>>

(* The action's own poll is drawn with actionInFlight still set; the       *)
(* finally block follows before any other task of the page, and redraws    *)
(* the controls without that poll's safety state.                          *)
DrawOwn ==
    /\ HasAnswer("own")
    /\ inFlight' = FALSE
    /\ Update(poll["own"].page.enabled, "none")
    /\ action' = None
    /\ poll' = [poll EXCEPT !["own"] = NoPoll]
    /\ UNCHANGED <<proxyVars, report>>

-----------------------------------------------------------------------------

User ==
    \E order \in Orders :
        ClickWithoutToken(order) \/ \E c \in Callers : Click(c, order)

Timer == \E p \in Polls : StartPoll(p)

PollStep(p) == AnswerPoll(p) \/ PollFails(p) \/ (p # "own" /\ Draw(p))

ActionStep(c) == FetchFails(c) \/ Succeed(c) \/ ReportError(c)

DashboardNext ==
    \/ User \/ Timer \/ DrawOwn
    \/ \E p \in AllPolls : PollStep(p)
    \/ \E c \in Callers : ActionStep(c)
    \/ (AgentStep \/ CoreStep) /\ UNCHANGED tabVars

DashboardSpec == DashboardInit /\ [][DashboardNext]_vars

(* The timer fires for ever, every fetch ends, the core answers within its *)
(* timeout, a running agent ticks, and a page does what is due.            *)
FairDashboardSpec ==
    /\ DashboardSpec
    /\ \A p \in Polls : WF_vars(StartPoll(p))
    /\ \A p \in AllPolls : WF_vars(PollStep(p))
    /\ WF_vars(DrawOwn)
    /\ \A c \in Callers :
          /\ WF_vars(ActionStep(c))
          /\ WF_vars(AnswerCall(c) /\ UNCHANGED tabVars)
    /\ WF_vars(AgentTicks /\ UNCHANGED tabVars)

-----------------------------------------------------------------------------

Pages == [state : SafetyStates \cup {"unknown"}, enabled : BOOLEAN]

(* The variables of page, core and agent have their types; "nothing",      *)
(* "busy" and "error" are lines the page writes of its own.                *)
DashboardTypeOK ==
    /\ ProxyTypeOK
    /\ allows \in BOOLEAN /\ inFlight \in BOOLEAN
    /\ controls \in [emergency : BOOLEAN, others : BOOLEAN]
    /\ poll \in [AllPolls -> [stage : {"idle", "waiting", "answered"},
                             page : Pages]]
    /\ action \in Callers \cup {None}
    /\ report \in [says : Says \cup {"nothing", "busy", "error"},
                   of : Callers \cup {None}]

NoControl == [emergency |-> FALSE, others |-> FALSE]

(***************************************************************************)
(* Properties.                                                             *)
(***************************************************************************)

(* README.md, "Every accepted mutation reports ... verified read-back",    *)
(* and "409 safety_locked without a low-duty write": a request the page    *)
(* reports as successful has been carried out, one it reports as refused   *)
(* or that the core answers so never is, though core and agent part ways   *)
(* after the timeout.                                                      *)
ReportIsTrue ==
    /\ report.says = "success" => request[report.of].fate = "applied"
    /\ report.says = "refused" => request[report.of].fate \in {"none", "refused"}
    /\ \A c \in Callers :
         answer[c] = "refused" => request[c].fate \in {"none", "refused"}

(* "A control request is in flight - waiting for the write and read-back   *)
(* verification" (dashboard.js): until then no control is usable, whatever *)
(* the timer's polls draw meanwhile.                                       *)
InFlightLocksAll == inFlight => controls = NoControl

(* README.md, "honest monitoring-only mode", and the spec's "Controls      *)
(* visibly lock": when the agent stays away every control ends up locked;  *)
(* when the machine stays hot every control but Emergency does, once no    *)
(* more requests are accepted.                                             *)
LocksFollowAgent ==
    /\ <>[]~up => <>[](controls = NoControl)
    /\ <>[](up /\ safety = "hot") => <>[]~controls.others

(* "During a hot lock the policy still accepts 100%" (dashboard.js): no    *)
(* order of polls, failures and actions takes the controls away for good.  *)
ControlsComeBack ==
    /\ <>[](up /\ safety = "hot") => []<>controls.emergency
    /\ <>[](up /\ safety \in {"normal", "cooling"}) => []<>controls.others

=============================================================================
