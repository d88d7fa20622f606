--------------------------- MODULE DashboardProofs ---------------------------
(***************************************************************************)
(* What holds of the page whatever the number of polls and requests, the   *)
(* duties they ask for, the failures and the order in which answers come.  *)
(***************************************************************************)
EXTENDS Dashboard, TLAPS

(* The steps of a behaviour, taken apart.                                  *)
Outside == (AgentStep \/ CoreStep) /\ UNCHANGED tabVars

PageStep ==
    \/ User \/ Timer \/ DrawOwn
    \/ \E p \in AllPolls : PollStep(p)
    \/ \E c \in Callers : ActionStep(c)

LEMMA NextIs == DashboardNext = (PageStep \/ Outside)
BY DEF DashboardNext, PageStep, Outside

-----------------------------------------------------------------------------
(* The controls.                                                           *)

LEMMA BusyLocks ==
  ASSUME NEW enabled, NEW state
  PROVE  ControlsFor(enabled, state, TRUE) = NoControl
BY DEF ControlsFor, NoControl, HotLock

(* Whatever the page draws, it locks while an action is in flight.         *)
LEMMA UpdateLocks ==
  ASSUME NEW enabled, NEW state, Update(enabled, state)
  PROVE  inFlight' = TRUE => controls' = NoControl
BY BusyLocks DEF Update

(* "A control request is in flight": no poll, failure or answer that comes *)
(* meanwhile makes a control usable.                                       *)
THEOREM InFlightLocks == DashboardSpec => []InFlightLocksAll
<1> DEFINE Locked == inFlight \in BOOLEAN /\ InFlightLocksAll
<1>1. DashboardInit => Locked
  BY DEF DashboardInit, InFlightLocksAll
<1>2. ASSUME Locked, [DashboardNext]_vars PROVE Locked'
  <2> USE <1>2 DEF InFlightLocksAll
  <2>1. ASSUME NEW order \in Orders, ClickWithoutToken(order) PROVE Locked'
    BY <2>1 DEF ClickWithoutToken, Finally
  <2>2. ASSUME NEW order \in Orders, NEW c \in Callers, Click(c, order) PROVE Locked'
    <3>1. inFlight' = TRUE /\ Update(allows, "none")
      BY <2>2 DEF Click
    <3>2. controls' = NoControl
      BY <3>1, UpdateLocks
    <3>3. QED
      BY <3>1, <3>2 DEF NoControl
  <2>3. ASSUME NEW p, StartPoll(p) \/ AnswerPoll(p) \/ PollFails(p) PROVE Locked'
    <3>1. UNCHANGED <<inFlight, controls>>
      BY <2>3 DEF StartPoll, AnswerPoll, PollFails
    <3>2. QED
      BY <3>1, Zenon
  <2>4. ASSUME NEW p, Draw(p) PROVE Locked'
    <3>1. inFlight' = inFlight /\ Update(poll[p].page.enabled, poll[p].page.state)
      BY <2>4 DEF Draw
    <3>2. inFlight' = TRUE => controls' = NoControl
      BY <3>1, UpdateLocks
    <3>3. QED
      BY <3>1, <3>2 DEF NoControl
  <2>5. ASSUME NEW c \in Callers, ActionStep(c) PROVE Locked'
    <3>1. inFlight' = FALSE \/ UNCHANGED <<inFlight, controls>>
      BY <2>5 DEF ActionStep, FetchFails, Finally, Succeed, ReportError
    <3>2. CASE inFlight' = FALSE
      BY <3>2
    <3>3. CASE UNCHANGED <<inFlight, controls>>
      BY <3>3, Zenon
    <3>4. QED
      BY <3>1, <3>2, <3>3
  <2>6. CASE DrawOwn
    BY <2>6 DEF DrawOwn
  <2>7. CASE Outside \/ UNCHANGED vars
    BY <2>7 DEF Outside, vars, tabVars
  <2>8. QED
    BY <2>1, <2>2, <2>3, <2>4, <2>5, <2>6, <2>7, NextIs
       DEF PageStep, User, Timer, PollStep
<1>3. Locked => InFlightLocksAll
  OBVIOUS
<1>4. QED
  BY <1>1, <1>2, <1>3, PTL DEF DashboardSpec

-----------------------------------------------------------------------------
(* The two fates of a request.                                             *)

(* The core's answer is final once it is a success or a refusal, and it    *)
(* agrees with what the agent did.                                         *)
Consistent(says, fate) ==
    /\ says = "success" => fate = "applied"
    /\ says = "refused" => fate \in {"none", "refused"}
    /\ says = "unsent" => fate = "none"
    /\ says = "awaited" => fate # "none"

AllConsistent == \A c \in Callers : Consistent(answer[c], request[c].fate)

ReportAnswered ==
    report.says \in {"success", "refused"} =>
        report.of \in Callers /\ answer[report.of] = report.says

ProxyInv == ProxyTypeOK /\ AllConsistent

(* What a call of the agent does to a request, and to no other.            *)
LEMMA DecidedTyped ==
  ASSUME InterfaceTypeOK, NEW c \in Callers, NEW fate \in Fates, Decided(c, fate)
  PROVE  /\ request' \in [Callers -> [fate : Fates, order : Orders \cup {None}]]
         /\ request'[c].fate = fate
         /\ \A d \in Callers \ {c} : request'[d] = request[d]
BY DEF InterfaceTypeOK, Decided

LEMMA SendTyped ==
  ASSUME InterfaceTypeOK, NEW c \in Callers, NEW order \in Orders, Send(c, order)
  PROVE  /\ InterfaceTypeOK'
         /\ request'[c].fate = "queued"
         /\ \A d \in Callers \ {c} : request'[d] = request[d]
BY DEF InterfaceTypeOK, Send, Fates

LEMMA CrashTyped ==
  ASSUME InterfaceTypeOK, Crash
  PROVE  /\ InterfaceTypeOK'
         /\ \A c \in Callers :
              request'[c].fate = IF Queued(c) THEN "lost" ELSE request[c].fate
<1>1. ASSUME NEW c \in Callers
      PROVE  /\ request'[c] \in [fate : Fates, order : Orders \cup {None}]
             /\ request'[c].fate = IF Queued(c) THEN "lost" ELSE request[c].fate
  <2>1. request[c] \in [fate : Fates, order : Orders \cup {None}]
    BY DEF InterfaceTypeOK
  <2>2. request'[c] = IF Queued(c) THEN [request[c] EXCEPT !.fate = "lost"]
                                   ELSE request[c]
    BY DEF Crash
  <2>3. QED
    BY <2>1, <2>2 DEF Fates
<1>2. request' \in [Callers -> [fate : Fates, order : Orders \cup {None}]]
  BY <1>1 DEF Crash
<1>3. QED
  BY <1>1, <1>2 DEF Crash, InterfaceTypeOK

LEMMA AgentKeepsConsistent == ProxyInv /\ AgentStep => ProxyInv'
<1> SUFFICES ASSUME ProxyInv, AgentStep PROVE ProxyInv'
  OBVIOUS
<1>0. InterfaceTypeOK /\ failures \in 0..MaxFailures /\ weather \in 0..MaxWeather
      /\ MaxFailures \in Nat /\ MaxWeather \in Nat
  BY ProxyConstants DEF ProxyInv, ProxyTypeOK
<1>1. /\ up' \in BOOLEAN /\ UNCHANGED answer
      /\ failures' \in 0..MaxFailures /\ weather' \in 0..MaxWeather
  <2>1. Failure => failures' \in 0..MaxFailures
    BY <1>0 DEF Failure
  <2>2. up \in BOOLEAN
    BY DEF ProxyInv, ProxyTypeOK
  <2>3. CASE AgentTicks \/ AgentDecides \/ Restart
    BY <1>0, <2>2, <2>3 DEF AgentTicks, AgentDecides, Restart, budgets
  <2>4. CASE AgentFails
    BY <1>0, <2>1, <2>2, <2>4 DEF AgentFails
  <2>5. CASE Stop
    BY <1>0, <2>1, <2>5 DEF Stop
  <2>6. CASE Change
    BY <1>0, <2>2, <2>6 DEF Change
  <2>7. QED
    BY <2>3, <2>4, <2>5, <2>6 DEF AgentStep
<1>2. InterfaceTypeOK' /\ AllConsistent' => ProxyInv'
  BY <1>1 DEF ProxyInv, ProxyTypeOK
<1>3. ASSUME NEW c \in Callers, Queued(c),
             NEW fate \in {"applied", "refused", "failed"}, Decided(c, fate),
             safety' \in SafetyStates,
             published' \in [state : SafetyStates, locked : BOOLEAN] \cup {None}
      PROVE  InterfaceTypeOK' /\ AllConsistent'
  <2>1. fate \in Fates
    BY DEF Fates
  <2>2. /\ request' \in [Callers -> [fate : Fates, order : Orders \cup {None}]]
        /\ request'[c].fate = fate
        /\ \A d \in Callers \ {c} : request'[d] = request[d]
    BY <1>0, <1>3, <2>1, DecidedTyped
  <2>3. Consistent(answer[c], request[c].fate) /\ request[c].fate = "queued"
    BY <1>3 DEF ProxyInv, AllConsistent, Queued
  <2>4. Consistent(answer'[c], request'[c].fate)
    BY <1>1, <2>2, <2>3 DEF Consistent
  <2>5. QED
    BY <1>1, <1>3, <2>2, <2>4 DEF ProxyInv, AllConsistent, InterfaceTypeOK
<1>4. ASSUME UNCHANGED request, safety' \in SafetyStates,
             published' \in [state : SafetyStates, locked : BOOLEAN] \cup {None}
      PROVE  InterfaceTypeOK' /\ AllConsistent'
  BY <1>0, <1>1, <1>4 DEF ProxyInv, AllConsistent, InterfaceTypeOK
<1>5. CASE AgentTicks \/ Change \/ Restart \/ TickFails
  <2>0. /\ safety \in SafetyStates
        /\ published \in [state : SafetyStates, locked : BOOLEAN] \cup {None}
    BY <1>0 DEF InterfaceTypeOK
  <2>1. CASE AgentTicks
    <3>1. TickPage \in [state : SafetyStates, locked : BOOLEAN]
      BY <2>0 DEF TickPage
    <3>2. QED
      BY <1>2, <1>4, <2>0, <2>1, <3>1 DEF AgentTicks, Tick
  <2>2. CASE Change
    BY <1>2, <1>4, <2>0, <2>2 DEF Change, Sense
  <2>3. CASE Restart
    BY <1>2, <1>4, <2>0, <2>3 DEF Restart, interfaceVars
  <2>4. CASE TickFails
    BY <1>2, <1>4, <2>0, <2>4 DEF TickFails
  <2>5. QED
    BY <1>5, <2>1, <2>2, <2>3, <2>4
<1>6. ASSUME NEW c \in Callers, Apply(c) \/ Refuse(c) \/ Fail(c) PROVE ProxyInv'
  <2>0. /\ safety \in SafetyStates
        /\ published \in [state : SafetyStates, locked : BOOLEAN] \cup {None}
    BY <1>0 DEF InterfaceTypeOK
  <2>1. CASE Apply(c)
    <3>1. [state |-> safety, locked |-> FALSE] \in [state : SafetyStates, locked : BOOLEAN]
      BY <2>0
    <3>2. QED
      BY <1>2, <1>3, <2>0, <2>1, <3>1 DEF Apply
  <2>2. CASE Refuse(c)
    BY <1>2, <1>3, <2>0, <2>2 DEF Refuse
  <2>3. CASE Fail(c)
    BY <1>2, <1>3, <2>0, <2>3 DEF Fail
  <2>4. QED
    BY <1>6, <2>1, <2>2, <2>3
<1>7. CASE Stop
  <2>1. Crash
    BY <1>7 DEF Stop
  <2>2. ASSUME NEW c \in Callers PROVE Consistent(answer'[c], request'[c].fate)
    <3>1. Consistent(answer[c], request[c].fate)
      BY DEF ProxyInv, AllConsistent
    <3>2. request'[c].fate = IF Queued(c) THEN "lost" ELSE request[c].fate
      BY <1>0, <2>1, CrashTyped
    <3>3. QED
      BY <1>1, <3>1, <3>2 DEF Consistent, Queued
  <2>3. QED
    BY <1>0, <1>2, <2>1, <2>2, CrashTyped DEF AllConsistent
<1>8. QED
  BY <1>5, <1>6, <1>7 DEF AgentStep, AgentDecides, AgentFails

(* The core answers only a request that waits.                             *)
LEMMA CoreKeepsConsistent ==
  ProxyInv /\ CoreStep =>
    /\ ProxyInv'
    /\ \A c \in Callers : answer[c] \in {"success", "refused"} => answer'[c] = answer[c]
<1> SUFFICES ASSUME ProxyInv, NEW c \in Callers, AnswerCall(c)
             PROVE  /\ ProxyInv'
                    /\ \A d \in Callers : answer[d] \in {"success", "refused"} =>
                                             answer'[d] = answer[d]
  BY DEF CoreStep
<1>1. PICK says \in {"success", "refused", "failed", "unavailable"} :
        /\ Answered(c, says) /\ Consistent(says, request[c].fate)
  <2>1. CASE Relay(c)
    <3>1. request[c].fate \in {"applied", "refused", "failed", "lost"}
      BY <2>1 DEF ProxyInv, ProxyTypeOK, InterfaceTypeOK, AllConsistent, Consistent, Relay,
                  Waits, Queued, Fates
    <3>2. QED
      BY <2>1, <3>1 DEF Relay, ProxyAnswer, Consistent
  <2>2. CASE GiveUp(c)
    BY <2>2 DEF GiveUp, Consistent
  <2>3. QED
    BY <2>1, <2>2 DEF AnswerCall
<1>2. answer[c] = "awaited" /\ UNCHANGED <<interfaceVars, up, budgets>>
  BY DEF AnswerCall, Relay, GiveUp, Waits
<1>3. /\ answer' \in [Callers -> Says] /\ answer'[c] = says
      /\ \A d \in Callers \ {c} : answer'[d] = answer[d]
  BY <1>1 DEF ProxyInv, ProxyTypeOK, Answered, Says
<1>4. ProxyTypeOK'
  BY <1>2, <1>3 DEF ProxyInv, ProxyTypeOK, InterfaceTypeOK, interfaceVars, budgets
<1>5. AllConsistent'
  BY <1>1, <1>2, <1>3 DEF ProxyInv, AllConsistent, interfaceVars
<1>6. QED
  BY <1>2, <1>3, <1>4, <1>5 DEF ProxyInv

LEMMA ClickKeepsConsistent ==
  ASSUME ProxyInv, NEW order \in Orders, NEW c \in Callers, Click(c, order)
  PROVE  ProxyInv'
<1>1. UNCHANGED <<up, budgets>>
  BY DEF Click
<1>2. Consistent(answer[c], request[c].fate) /\ answer[c] = "unsent"
  BY DEF Click, Forward, Reject, ProxyInv, AllConsistent
<1>3. ASSUME NEW says \in Says, Answered(c, says), InterfaceTypeOK',
             Consistent(says, request'[c].fate),
             \A d \in Callers \ {c} : request'[d] = request[d]
      PROVE  ProxyInv'
  <2>1. /\ answer' \in [Callers -> Says] /\ answer'[c] = says
        /\ \A d \in Callers \ {c} : answer'[d] = answer[d]
    BY <1>3 DEF ProxyInv, ProxyTypeOK, Answered
  <2>2. AllConsistent'
    BY <1>3, <2>1 DEF ProxyInv, AllConsistent
  <2>3. QED
    BY <1>1, <1>3, <2>1, <2>2 DEF ProxyInv, ProxyTypeOK, budgets
<1>4. CASE Send(c, order) /\ Answered(c, "awaited")
  <2>1. /\ InterfaceTypeOK' /\ request'[c].fate = "queued"
        /\ \A d \in Callers \ {c} : request'[d] = request[d]
    BY <1>4, SendTyped DEF ProxyInv, ProxyTypeOK
  <2>2. QED
    BY <1>3, <1>4, <2>1 DEF Consistent, Says
<1>5. ASSUME UNCHANGED interfaceVars, NEW says \in {"refused", "unavailable"},
             Answered(c, says)
      PROVE  ProxyInv'
  <2>1. InterfaceTypeOK' /\ UNCHANGED request
    BY <1>5 DEF ProxyInv, ProxyTypeOK, InterfaceTypeOK, interfaceVars
  <2>2. QED
    BY <1>2, <1>3, <1>5, <2>1 DEF Consistent, Says
<1>6. QED
  BY <1>4, <1>5 DEF Click, Forward, Reject

LEMMA ProxyInductive == ProxyInv /\ [DashboardNext]_vars => ProxyInv'
<1> SUFFICES ASSUME ProxyInv, [DashboardNext]_vars PROVE ProxyInv'
  OBVIOUS
<1>1. ASSUME UNCHANGED proxyVars PROVE ProxyInv'
  BY <1>1 DEF proxyVars, interfaceVars, budgets, ProxyInv, AllConsistent, ProxyTypeOK,
              InterfaceTypeOK
<1>2. ASSUME UNCHANGED <<interfaceVars, up, answer, weather>>, Failure PROVE ProxyInv'
  BY <1>2, ProxyConstants
     DEF Failure, interfaceVars, ProxyInv, AllConsistent, ProxyTypeOK, InterfaceTypeOK
<1>3. ASSUME NEW p, PollStep(p) \/ StartPoll(p) \/ DrawOwn PROVE ProxyInv'
  BY <1>1, <1>2, <1>3 DEF PollStep, AnswerPoll, PollFails, Draw, StartPoll, DrawOwn
<1>4. ASSUME NEW c \in Callers, ActionStep(c) PROVE ProxyInv'
  BY <1>1, <1>2, <1>4 DEF ActionStep, FetchFails, Succeed, ReportError
<1>5. CASE User
  BY <1>1, <1>5, ClickKeepsConsistent DEF User, ClickWithoutToken
<1>6. CASE Outside
  BY <1>6, AgentKeepsConsistent, CoreKeepsConsistent DEF Outside
<1>7. QED
  BY <1>1, <1>3, <1>4, <1>5, <1>6, NextIs DEF PageStep, Timer, vars

(* An answer that a report repeats stays as it is.                         *)
LEMMA FinalAnswers ==
  ASSUME ProxyInv, [DashboardNext]_vars, NEW c \in Callers,
         answer[c] \in {"success", "refused"}
  PROVE  answer'[c] = answer[c]
<1>1. ASSUME NEW order \in Orders, NEW d \in Callers, Click(d, order)
      PROVE  answer'[c] = answer[c]
  <2>1. c # d
    BY <1>1 DEF Click, Forward, Reject
  <2>2. QED
    BY <1>1, <2>1 DEF Click, Forward, Reject, Answered, ProxyInv, ProxyTypeOK
<1>2. CASE UNCHANGED answer
  BY <1>2
<1>3. AgentStep => UNCHANGED answer
  BY DEF AgentStep, AgentTicks, AgentDecides, AgentFails, Change, Stop, Restart
<1>4. ASSUME NEW p, PollStep(p) \/ StartPoll(p) \/ DrawOwn PROVE UNCHANGED answer
  BY <1>4 DEF PollStep, AnswerPoll, PollFails, Draw, StartPoll, DrawOwn, proxyVars
<1>5. ASSUME NEW d, ActionStep(d) \/ \E order : ClickWithoutToken(order)
      PROVE  UNCHANGED answer
  BY <1>5 DEF ActionStep, FetchFails, Succeed, ReportError, ClickWithoutToken, proxyVars
<1>6. UNCHANGED vars => UNCHANGED answer
  BY DEF vars, proxyVars
<1>7. QED
  BY <1>1, <1>2, <1>3, <1>4, <1>5, <1>6, NextIs, CoreKeepsConsistent
     DEF PageStep, User, Timer, Outside

LEMMA ReportInductive ==
  ProxyInv /\ ReportAnswered /\ [DashboardNext]_vars => ReportAnswered'
<1> SUFFICES ASSUME ProxyInv, ReportAnswered, [DashboardNext]_vars,
                    report'.says \in {"success", "refused"}
             PROVE  report'.of \in Callers /\ answer'[report'.of] = report'.says
  BY DEF ReportAnswered
<1>1. CASE UNCHANGED report
  BY <1>1, FinalAnswers DEF ReportAnswered
<1>2. ASSUME NEW c \in Callers, ActionStep(c)
      PROVE  \/ UNCHANGED report
             \/ report'.of = c /\ answer[c] = report'.says
  BY <1>2 DEF ActionStep, FetchFails, Succeed, ReportError, HasReply, Fetching, Finally
<1>3. ~User
  BY DEF User, ClickWithoutToken, Click, Finally
<1>4. ASSUME NEW p, PollStep(p) \/ StartPoll(p) \/ DrawOwn PROVE UNCHANGED report
  BY <1>4 DEF PollStep, AnswerPoll, PollFails, Draw, StartPoll, DrawOwn
<1>5. Outside \/ UNCHANGED vars => UNCHANGED report
  BY DEF Outside, tabVars, vars
<1>6. QED
  BY <1>1, <1>2, <1>3, <1>4, <1>5, NextIs, FinalAnswers DEF PageStep, Timer

LEMMA ProxyStarts == DashboardInit => ProxyInv
<1> SUFFICES ASSUME DashboardInit PROVE ProxyInv
  OBVIOUS
<1>1. InterfaceTypeOK /\ \A c \in Callers : request[c].fate = "none"
  BY DEF DashboardInit, ProxyInit, InterfaceInit, InterfaceTypeOK, NotSent, Fates
<1>2. QED
  BY <1>1, ProxyConstants
     DEF DashboardInit, ProxyInit, ProxyInv, ProxyTypeOK, AllConsistent, Consistent, Says

(* The page and the core tell the truth about every request, although the  *)
(* core gives up on requests the agent later carries out, answers overtake *)
(* one another and the agent dies with requests in its queue.              *)
THEOREM ReportsAreTrue == DashboardSpec => []ReportIsTrue
<1>1. DashboardInit => ProxyInv /\ ReportAnswered
  BY ProxyStarts DEF DashboardInit, ReportAnswered
<1>2. ProxyInv /\ ReportAnswered => ReportIsTrue
  BY DEF ProxyInv, AllConsistent, ReportAnswered, ReportIsTrue, Consistent
<1>3. QED
  BY <1>1, <1>2, ProxyInductive, ReportInductive, PTL DEF DashboardSpec

-----------------------------------------------------------------------------
(* Types.                                                                  *)

PageTyped ==
    /\ allows \in BOOLEAN /\ inFlight \in BOOLEAN
    /\ controls \in [emergency : BOOLEAN, others : BOOLEAN]
    /\ poll \in [AllPolls -> [stage : {"idle", "waiting", "answered"}, page : Pages]]
    /\ action \in Callers \cup {None}
    /\ report \in [says : Says \cup {"nothing", "busy", "error"}, of : Callers \cup {None}]

(* What the page draws of a status has the type of the controls.           *)
LEMMA UpdateTyped ==
  ASSUME NEW enabled \in BOOLEAN, NEW state, inFlight' \in BOOLEAN,
         Update(enabled, state)
  PROVE  allows' \in BOOLEAN /\ controls' \in [emergency : BOOLEAN, others : BOOLEAN]
BY DEF Update, ControlsFor, HotLock

LEMMA PageKeepsTypes ==
  ASSUME PageTyped, ProxyInv, PageStep PROVE PageTyped'
<1> USE DEF PageTyped
<1> DEFINE Controls == [emergency : BOOLEAN, others : BOOLEAN]
           Polled == [AllPolls -> [stage : {"idle", "waiting", "answered"}, page : Pages]]
           Reports == [says : Says \cup {"nothing", "busy", "error"},
                       of : Callers \cup {None}]
<1>1. ASSUME NEW message \in Says \cup {"error"}, Finally(message)
      PROVE  /\ inFlight' \in BOOLEAN /\ allows' \in BOOLEAN /\ controls' \in Controls
             /\ action' \in Callers \cup {None} /\ report' \in Reports
  <2>1. inFlight' \in BOOLEAN /\ Update(allows, "none")
    BY <1>1 DEF Finally
  <2>2. allows' \in BOOLEAN /\ controls' \in Controls
    BY <2>1, UpdateTyped
  <2>3. QED
    BY <1>1, <2>1, <2>2 DEF Finally
<1>2. ASSUME NEW order \in Orders, ClickWithoutToken(order) PROVE PageTyped'
  BY <1>1, <1>2 DEF ClickWithoutToken
<1>3. ASSUME NEW order \in Orders, NEW c \in Callers, Click(c, order) PROVE PageTyped'
  <2>1. inFlight' \in BOOLEAN /\ Update(allows, "none")
    BY <1>3 DEF Click
  <2>2. allows' \in BOOLEAN /\ controls' \in Controls
    BY <2>1, UpdateTyped
  <2>3. report' \in Reports /\ action' \in Callers \cup {None} /\ UNCHANGED poll
    BY <1>3 DEF Click
  <2>4. QED
    BY <2>1, <2>2, <2>3
<1>4. ASSUME NEW p \in AllPolls, StartPoll(p) PROVE PageTyped'
  <2>1. poll' \in Polled
    BY <1>4 DEF StartPoll
  <2>2. QED
    BY <1>4, <2>1 DEF StartPoll
<1>5. ASSUME NEW p \in AllPolls, NEW page \in Pages, Brought(p, page)
      PROVE  poll' \in Polled
  BY <1>5 DEF Brought
<1>6. ASSUME NEW p \in AllPolls, AnswerPoll(p) PROVE PageTyped'
  <2>1. StatusPayload \in Pages
    BY DEF StatusPayload, Unavailable, Page, Pages, ProxyInv, ProxyTypeOK, InterfaceTypeOK
  <2>2. poll' \in Polled
    BY <1>5, <1>6, <2>1 DEF AnswerPoll
  <2>3. QED
    BY <1>6, <2>2 DEF AnswerPoll
<1>7. ASSUME NEW p \in AllPolls, PollFails(p) PROVE PageTyped'
  <2>1. Page("sensor-failure", FALSE) \in Pages
    BY DEF Page, Pages, SafetyStates
  <2>2. poll' \in Polled
    BY <1>5, <1>7, <2>1 DEF PollFails
  <2>3. QED
    BY <1>7, <2>2 DEF PollFails
<1>8. NoPoll \in [stage : {"idle", "waiting", "answered"}, page : Pages]
  BY DEF NoPoll, Unavailable, Page, Pages
<1>9. ASSUME NEW p \in AllPolls, Draw(p) PROVE PageTyped'
  <2>1. poll[p].page.enabled \in BOOLEAN
    BY DEF Pages
  <2>2. inFlight' \in BOOLEAN /\ Update(poll[p].page.enabled, poll[p].page.state)
    BY <1>9 DEF Draw
  <2>3. allows' \in BOOLEAN /\ controls' \in Controls
    BY <2>1, <2>2, UpdateTyped
  <2>4. poll' \in Polled
    BY <1>8, <1>9 DEF Draw
  <2>5. QED
    BY <1>9, <2>2, <2>3, <2>4 DEF Draw
<1>10. CASE DrawOwn
  <2>1. "own" \in AllPolls
    BY DEF AllPolls
  <2>2. poll["own"].page.enabled \in BOOLEAN
    BY <2>1 DEF Pages
  <2>3. inFlight' \in BOOLEAN /\ Update(poll["own"].page.enabled, "none")
    BY <1>10 DEF DrawOwn
  <2>4. allows' \in BOOLEAN /\ controls' \in Controls
    BY <2>2, <2>3, UpdateTyped
  <2>5. poll' \in Polled
    BY <1>8, <1>10 DEF DrawOwn
  <2>6. QED
    BY <1>10, <2>3, <2>4, <2>5 DEF DrawOwn
<1>11. ASSUME NEW c \in Callers, FetchFails(c) PROVE PageTyped'
  BY <1>1, <1>11 DEF FetchFails
<1>12. ASSUME NEW c \in Callers, Succeed(c) PROVE PageTyped'
  <2>1. poll' \in Polled
    BY <1>12 DEF Succeed
  <2>2. report' \in Reports
    BY <1>12 DEF Succeed, Says
  <2>3. QED
    BY <1>12, <2>1, <2>2 DEF Succeed
<1>13. ASSUME NEW c \in Callers, ReportError(c) PROVE PageTyped'
  <2>1. answer[c] \in Says
    BY DEF ProxyInv, ProxyTypeOK
  <2>2. QED
    BY <1>1, <1>13, <2>1 DEF ReportError
<1>14. QED
  BY <1>2, <1>3, <1>4, <1>6, <1>7, <1>9, <1>10, <1>11, <1>12, <1>13
     DEF PageStep, User, Timer, PollStep, ActionStep, AllPolls

(* Page, core and agent keep their types, whichever requests were given    *)
(* up, queued or lost.                                                     *)
THEOREM DashboardTypeCorrect == DashboardSpec => []DashboardTypeOK
<1>1. DashboardInit => ProxyInv /\ PageTyped
  <2> SUFFICES ASSUME DashboardInit PROVE PageTyped
    BY ProxyStarts
  <2>1. NoPoll \in [stage : {"idle", "waiting", "answered"}, page : Pages]
    BY DEF NoPoll, Unavailable, Page, Pages
  <2>2. QED
    BY <2>1 DEF DashboardInit, PageTyped
<1>2. ProxyInv /\ PageTyped /\ [DashboardNext]_vars => PageTyped'
  <2>1. PageTyped /\ UNCHANGED tabVars => PageTyped'
    BY DEF tabVars, PageTyped
  <2>2. QED
    BY <2>1, NextIs, PageKeepsTypes DEF Outside, vars
<1>3. ProxyInv /\ PageTyped => DashboardTypeOK
  BY DEF ProxyInv, PageTyped, DashboardTypeOK
<1>4. QED
  BY <1>1, <1>2, <1>3, ProxyInductive, PTL DEF DashboardSpec

=============================================================================
