----------------------------- MODULE CoreSensors -----------------------------
(***************************************************************************)
(* What the core's /status shows while the agent does not answer: it then  *)
(* reads the machine's sensors itself, one device for each of three        *)
(* sources (app/temperature_sources.py), first through the kernel's files  *)
(* (app/hwmon.py), then with smartctl (app/sensors.py).                    *)
(*                                                                         *)
(* The core's reading and the agent's, of SensorSources, share nothing but *)
(* the temperatures and change nothing, so one is on at a time.            *)
(***************************************************************************)
EXTENDS SensorSources

CONSTANT Rank   \* Rank[n]: the first of its source's keywords in its chip's name

ASSUME RankAssumption == Rank \in [Sensor -> Nat]

Sources == {"cpu", "nvme", "hdd"}
Measures == [s \in Sources |-> IF s = "hdd" THEN "drive" ELSE s]
NextSourceOnToBoard == [cpu |-> "nvme", nvme |-> "hdd", hdd |-> "board"]

NextSource == [cpu |-> "nvme", nvme |-> "hdd", hdd |-> "none"]

(* The core goes by the names of the chips alone.                          *)
Devices(s) == {n \in Sensor : Bare[n].kind = Measures[s]}

VARIABLES
    source,     \* the source that is read, "none" once all are
    labelled,   \* cpu: only a temperature labelled "package" is looked for
    device,     \* the device found for it
    shown,      \* the sources that gave a number
    raised,     \* get_temperature_sources ended with an exception
    page        \* the sensors of the answer

request == <<source, labelled, device, shown, raised, page>>
readersVars == <<vars, request>>

NothingShown == [s \in Sources |-> None]
Placeholder == [s \in Sources |-> 0]

NoRequest ==
    /\ source = "none" /\ labelled = FALSE /\ device = None
    /\ shown = NothingShown /\ raised = FALSE /\ page = None

ReadersInit == SourcesInit /\ NoRequest

(* What a step of the core leaves to the agent's.                          *)
AgentRests == UNCHANGED <<backend, truth, locals, socket, answer, during, odd>>

(* The agent has been asked in vain.                                       *)
BeginStatus ==
    /\ pc = "idle" /\ pc' = "find"
    /\ source' = "cpu" /\ labelled' = TRUE
    /\ AgentRests
    /\ UNCHANGED <<device, shown, raised, page, lost>>

(* get_temperature_sources: a value, or None, and on to the next source.   *)
Show(value) ==
    /\ shown' = [shown EXCEPT ![source] = value]
    /\ source' = NextSource[source]
    /\ pc' = IF source = "hdd" THEN "page" ELSE "find"
    /\ labelled' = FALSE

MissedWithoutRetry ==
    IF source # "cpu" THEN pc' = "smart" /\ UNCHANGED <<source, labelled, shown>>
    ELSE Show(None)

(* No temperature from hwmon: the CPU is looked for again without a label, *)
(* the disks are left to smartctl.                                         *)
Missed ==
    IF source # "cpu" THEN pc' = "smart" /\ UNCHANGED <<source, labelled, shown>>
    ELSE IF labelled
         THEN labelled' = FALSE /\ pc' = "find" /\ UNCHANGED <<source, shown>>
         ELSE Show(None)

(* find_best_sensor: the earliest keyword, then the first path.  That      *)
(* get_hwmon_map keeps the first of two equal names changes nothing.       *)
(* A chip without a name is not found; none is when a name file cannot be  *)
(* read.                                                                   *)
Best(devices) ==
    CHOOSE n \in devices :
        \A m \in devices : Rank[n] < Rank[m] \/ (Rank[n] = Rank[m] /\ n <= m)

FindDevice ==
    /\ pc = "find"
    /\ \E unseen \in SUBSET Devices(source) :
          LET seen == Devices(source) \ unseen
          IN  /\ lost' = lost \cup unseen
              /\ IF seen = {} THEN Missed /\ UNCHANGED device
                 ELSE /\ device' = Best(seen) /\ pc' = "get"
                      /\ UNCHANGED <<source, labelled, shown>>
    /\ AgentRests
    /\ UNCHANGED <<raised, page>>

(* get_temp: the device may be gone by now, or have no such label.         *)
GetTemp ==
    /\ pc = "get"
    /\ \/ Missed /\ lost' = lost \cup {device}
       \/ Missed /\ labelled /\ UNCHANGED lost
       \/ Show(Scanned(truth[device])) /\ UNCHANGED lost
    /\ device' = None
    /\ AgentRests
    /\ UNCHANGED <<raised, page>>

(* read_smartctl_temperature: /dev/nvme0 or /dev/sda, whichever that is;   *)
(* None when smartctl is missing, slow, refused or knows no temperature.   *)
(* JSON of another shape raises, and no further source is read.            *)
Smartctl ==
    /\ pc = "smart"
    /\ \/ Show(None) /\ UNCHANGED raised
       \/ \E n \in Of(Measures[source]) : Show(truth[n]) /\ UNCHANGED raised
       \/ /\ raised' = TRUE /\ pc' = "page" /\ source' = "none"
          /\ UNCHANGED <<labelled, shown>>
    /\ AgentRests
    /\ UNCHANGED <<device, page, lost>>

PageOfEachSource(numbers, exception) ==
    [s \in Sources |-> IF exception \/ numbers[s] = None THEN 0 ELSE numbers[s]]

(* get_sensors_data: what was read, or zeros when nothing was or something *)
(* raised.                                                                 *)
PageOf(numbers, exception) ==
    IF exception \/ numbers = NothingShown THEN Placeholder ELSE numbers

BuildPage ==
    /\ pc = "page" /\ pc' = "shown"
    /\ page' = PageOf(shown, raised)
    /\ AgentRests
    /\ UNCHANGED <<source, labelled, device, shown, raised, lost>>

TakePage ==
    /\ pc = "shown" /\ pc' = "idle"
    /\ shown' = NothingShown /\ raised' = FALSE /\ page' = None
    /\ during' = [n \in Sensor |-> {truth[n]}] /\ lost' = {}
    /\ UNCHANGED <<backend, truth, locals, socket, answer, odd, source,
                   labelled, device>>

ReadersNext ==
    \/ Next /\ UNCHANGED request
    \/ BeginStatus \/ FindDevice \/ GetTemp \/ Smartctl \/ BuildPage \/ TakePage

ReadersSpec == ReadersInit /\ [][ReadersNext]_readersVars

-----------------------------------------------------------------------------
(* Properties.                                                             *)

ReadersTypeOK ==
    /\ LocalsOK
    /\ pc \in AgentSteps \cup {"find", "get", "smart", "page", "shown"}
    /\ source \in Sources \cup {"none"} /\ labelled \in BOOLEAN
    /\ device \in Sensor \cup {None}
    /\ shown \in [Sources -> Int \cup {None}] /\ raised \in BOOLEAN
    /\ page \in [Sources -> Int \cup {None}] \cup {None}

(* Monitoring without the agent is honest: a number shown for a source is  *)
(* one that a sensor of its kind had during the request (half a degree and *)
(* less being taken for whole degrees).  Only when no source gave a number *)
(* or the reading of one raised does /status show its zeros instead, and   *)
(* then for all sources: a placeholder never stands beside a measurement.  *)
ShownIsMeasured ==
    page # None =>
        \/ page = Placeholder /\ (shown = NothingShown \/ raised)
        \/ \A s \in Sources : page[s] # None =>
              \E n \in CountsAs(Measures[s]) : \E t \in during[n] :
                  page[s] \in {t, Scanned(t)}

(* A source whose devices were all readable whenever they were looked at   *)
(* is shown with the number it gave, even when the CPU has no label and    *)
(* whatever became of the other sources, as long as none of them raised.   *)
ReadableIsShown ==
    page # None /\ ~raised =>
        \A s \in Sources :
            Devices(s) # {} /\ Devices(s) \cap lost = {} =>
                page[s] = shown[s] /\ shown[s] # None

=============================================================================
