------------------------- MODULE CoreSensorsProofs -------------------------
(***************************************************************************)
(* What one reading of the sensors says, for any number of sensors, any    *)
(* temperatures and any number of changes while it is on.                  *)
(***************************************************************************)
EXTENDS CoreSensors, FiniteSetTheorems, TLAPS

-----------------------------------------------------------------------------
(* Largest and smallest elements, by the shortest counterexample.          *)

(* Of finitely many numbers one is the largest.                            *)
LEMMA LargestExists ==
  ASSUME NEW G, IsFiniteSet(G), G # {}, NEW f, \A n \in G : f[n] \in Int
  PROVE  \E m \in G : \A n \in G : f[n] <= f[m]
<1> DEFINE Has(T) == \E m \in T : \A n \in T : f[n] <= f[m]
           Bad == {T \in FiniteSubsetsOf(G) : T # {} /\ ~Has(T)}
<1>1. SUFFICES ASSUME Bad # {} PROVE FALSE
  BY DEF FiniteSubsetsOf
<1>2. PICK T \in Bad : \A U \in Bad : <<U, T>> \notin StrictSubsetOrdering(G)
  BY <1>1, FS_StrictSubsetOrderingWellFounded, FS_FiniteSubsetsOfFinite, WFMin
<1>3. PICK x \in T : TRUE
  OBVIOUS
<1>4. /\ T \subseteq G /\ x \in G
      /\ T \ {x} \in FiniteSubsetsOf(G)
      /\ <<T \ {x}, T>> \in StrictSubsetOrdering(G)
  BY <1>2, <1>3, FS_Subset DEF FiniteSubsetsOf, StrictSubsetOrdering
<1>5. T \ {x} = {} \/ Has(T \ {x})
  BY <1>2, <1>4
<1>6. Has(T)
  <2>1. CASE T \ {x} = {}
    <3>1. \A n \in T : n = x
      BY <2>1
    <3>2. QED
      BY <1>3, <1>4, <3>1
  <2>2. CASE Has(T \ {x})
    <3>1. PICK m \in T \ {x} : \A n \in T \ {x} : f[n] <= f[m]
      BY <2>2
    <3>2. \A n \in T : f[n] \in Int
      BY <1>4
    <3>3. CASE f[x] <= f[m]
      BY <3>1, <3>2, <3>3
    <3>4. CASE ~(f[x] <= f[m])
      <4>1. \A n \in T : f[n] <= f[x]
        BY <1>3, <3>1, <3>2, <3>4
      <4>2. QED
        BY <1>3, <4>1
    <3>5. QED
      BY <3>3, <3>4
  <2>3. QED
    BY <1>5, <2>1, <2>2
<1>7. QED
  BY <1>2, <1>6

LEMMA MaxIsLargest ==
  ASSUME NEW G, IsFiniteSet(G), G # {}, NEW f, \A n \in G : f[n] \in Int
  PROVE  LET S == {f[n] : n \in G}
         IN  Max(S) \in S /\ \A v \in S : v <= Max(S)
<1> DEFINE S == {f[n] : n \in G}
<1>1. \E m \in S : \A v \in S : m >= v
  <2>1. PICK n \in G : \A m \in G : f[m] <= f[n]
    BY LargestExists
  <2>2. QED
    BY <2>1
<1>2. Max(S) \in S /\ \A v \in S : Max(S) >= v
  BY <1>1 DEF Max
<1>3. QED
  BY <1>2

LEMMA MinIsSmallest ==
  ASSUME NEW S, IsFiniteSet(S), S # {}, S \subseteq Int
  PROVE  Min(S) \in S /\ \A n \in S : Min(S) <= n
<1> DEFINE f == [n \in S |-> -n]
<1>1. PICK m \in S : \A n \in S : f[n] <= f[m]
  <2>1. \A n \in S : f[n] \in Int
    OBVIOUS
  <2> HIDE DEF f
  <2>2. QED
    BY <2>1, LargestExists
<1>2. \A n \in S : m <= n
  BY <1>1
<1>3. QED
  BY <1>2 DEF Min

-----------------------------------------------------------------------------
(* The constants.                                                          *)

LEMMA SensorConstants ==
  /\ None \notin Int /\ NonFinite \notin Int /\ None # NonFinite
  /\ Sensor \subseteq Nat /\ IsFiniteSet(Sensor)
  /\ Temps \subseteq Int
  /\ RecoverCpu \in Int /\ HotCpu \in Int /\ RecoverDrive \in Int /\ HotDrive \in Int
  /\ LargestDegrees <= RecoverCpu /\ RecoverCpu <= HotCpu
  /\ LargestDegrees <= RecoverDrive /\ RecoverDrive <= HotDrive
BY ReadingsDiffer, SensorAssumption, ThresholdsOrdered, ThresholdsAboveDegrees
   DEF ThresholdAssumption

LEMMA KindsAreSensors ==
  \A kind : Of(kind) \subseteq Sensor /\ IsFiniteSet(Of(kind))
BY SensorConstants, FS_Subset DEF Of

LEMMA ImageFinite ==
  ASSUME NEW S, IsFiniteSet(S), NEW f PROVE IsFiniteSet({f[x] : x \in S})
<1> DEFINE T == {f[x] : x \in S}
           g == [x \in S |-> f[x]]
<1>1. g \in Surjection(S, T)
  BY DEF Surjection
<1>2. QED
  BY <1>1, FS_Surjection

(* What a sensor counts as, and under which key, by either of its names.   *)
LEMMA NamesOfSensor ==
  ASSUME NEW n \in Sensor, NEW name \in Names(n)
  PROVE  /\ n \in CountsAs(name.kind)
         /\ name.kind = "drive" => name.key \in DriveKeys(n) /\ name.key \in Keys
<1>1. n \in CountsAs(name.kind)
  BY DEF CountsAs, Names
<1>2. name.kind = "drive" => name.key \in DriveKeys(n)
  BY DEF DriveKeys
<1>3. QED
  BY <1>1, <1>2 DEF Keys

LEMMA CountsAsSensors ==
  \A kind : Of(kind) \subseteq CountsAs(kind) /\ CountsAs(kind) \subseteq Sensor
BY DEF Of, CountsAs

LEMMA DevicesCount ==
  \A s : Devices(s) \subseteq CountsAs(Measures[s]) /\ Devices(s) \subseteq Sensor
BY DEF Devices, CountsAs

LEMMA KeysFinite == IsFiniteSet(Keys)
<1> DEFINE bare == [n \in Sensor |-> Bare[n].key]
           A == {Key[n] : n \in Sensor}
           B == {bare[n] : n \in Sensor}
<1>1. IsFiniteSet(A)
  BY ImageFinite, SensorConstants
<1>2. IsFiniteSet(B)
  <2> HIDE DEF bare
  <2>1. QED
    BY ImageFinite, SensorConstants
<1>3. Keys \subseteq A \cup B
  <2>1. SUFFICES ASSUME NEW n \in Sensor, NEW k \in DriveKeys(n)
                 PROVE  k = Key[n] \/ k = bare[n]
    BY DEF Keys
  <2>2. QED
    BY DEF DriveKeys, Names
<1> HIDE DEF A, B
<1>4. QED
  BY <1>1, <1>2, <1>3, FS_Union, FS_Subset

(* The largest of some readings, whatever is missing among them.           *)
LEMMA LargestReading ==
  ASSUME NEW sensors \in SUBSET Sensor, NEW values,
         \A n \in sensors : values[n] \in Number
  PROVE  /\ Largest(values, sensors) \in Number
         /\ Largest(values, sensors) \in Int =>
              \E n \in sensors : values[n] = Largest(values, sensors)
         /\ (\A n \in sensors : values[n] # NonFinite) =>
              \A n \in sensors : values[n] # None =>
                  /\ Largest(values, sensors) \in Int
                  /\ values[n] <= Largest(values, sensors)
<1> DEFINE given == {n \in sensors : values[n] # None}
           G == {m \in given : values[m] \in Int}
           finite == {values[n] : n \in G}
<1>1. Largest(values, sensors) =
        IF given = {} THEN None
        ELSE IF values[Min(given)] = NonFinite THEN NonFinite
        ELSE Max(finite)
  BY DEF Largest
<1>2. IsFiniteSet(given) /\ IsFiniteSet(G) /\ given \subseteq Int
  <2>1. IsFiniteSet(sensors)
    BY SensorConstants, FS_Subset
  <2>2. given \in SUBSET sensors /\ G \in SUBSET sensors
    OBVIOUS
  <2> HIDE DEF given, G
  <2>3. given \subseteq Int
    <3>1. Sensor \subseteq Int
      BY SensorConstants
    <3>2. QED
      BY <2>2, <3>1
  <2>4. QED
    BY <2>1, <2>2, <2>3, FS_Subset
<1>3. given # {} => Min(given) \in given
  BY <1>2, MinIsSmallest
<1>4. G # {} => Max(finite) \in finite /\ \A v \in finite : v <= Max(finite)
  <2>1. \A n \in G : values[n] \in Int
    OBVIOUS
  <2> HIDE DEF G
  <2>2. QED
    BY <1>2, <2>1, MaxIsLargest
<1>5. CASE given = {}
  BY <1>1, <1>5, SensorConstants DEF Number
<1>6. CASE given # {} /\ values[Min(given)] = NonFinite
  BY <1>1, <1>3, <1>6, SensorConstants DEF Number
<1>7. CASE given # {} /\ values[Min(given)] # NonFinite
  <2>1. Min(given) \in G
    BY <1>3, <1>7 DEF Number
  <2>2. /\ Largest(values, sensors) = Max(finite)
        /\ Max(finite) \in finite /\ \A v \in finite : v <= Max(finite)
    BY <1>1, <1>4, <1>7, <2>1
  <2>3. \A n \in sensors : values[n] # None /\ values[n] # NonFinite => n \in G
    BY DEF Number
  <2>4. PICK n \in G : values[n] = Max(finite)
    BY <2>2
  <2>5. Max(finite) \in Int /\ n \in sensors
    BY <2>4
  <2>6. \A m \in G : values[m] <= Max(finite)
    BY <2>2
  <2> HIDE DEF given, finite, G
  <2>7. QED
    BY <2>2, <2>3, <2>4, <2>5, <2>6 DEF Number
<1>8. QED
  BY <1>5, <1>6, <1>7

-----------------------------------------------------------------------------
(* Types.                                                                  *)

(* A core that looks for a device knows for which source, one that has     *)
(* found a device knows which.                                             *)
RequestInv ==
    /\ pc \in {"find", "get", "smart"} => source \in Sources
    /\ pc = "get" => device \in Devices(source)
    /\ labelled => source = "cpu"
    /\ pc = "smart" => ~labelled

TypeInv == ReadersTypeOK /\ RequestInv

LEMMA ScannedTyped == ASSUME NEW t \in Int PROVE Scanned(t) \in Int
BY DEF Scanned

LEMMA RunningMaxTyped ==
  ASSUME NEW old \in Int \cup {None}, NEW value \in Int
  PROVE  /\ RunningMax(old, value) \in {old, value} \cap Int
         /\ value <= RunningMax(old, value) \/ old = 0
BY SensorConstants DEF RunningMax

LEMMA LargestDriveTyped ==
  ASSUME drives \in [Keys -> Int \cup {None}]
  PROVE  /\ LargestDrive \in Int \cup {None}
         /\ LargestDrive \in Int => \E k \in Keys : drives[k] = LargestDrive
         /\ \A k \in Keys : drives[k] # None =>
               LargestDrive \in Int /\ drives[k] <= LargestDrive
<1> DEFINE G == {k \in Keys : drives[k] # None}
           f == [k \in G |-> drives[k]]
           kept == {drives[k] : k \in Keys} \ {None}
<1>1. IsFiniteSet(G)
  BY KeysFinite, FS_Subset
<1>2. kept = {f[n] : n \in G} /\ (kept = {} <=> G = {})
  <2>1. ASSUME NEW v \in kept PROVE \E n \in G : f[n] = v
    <3>1. PICK k \in Keys : drives[k] = v
      OBVIOUS
    <3>2. QED
      BY <3>1
  <2>2. ASSUME NEW n \in G PROVE f[n] \in kept
    OBVIOUS
  <2> HIDE DEF G, f, kept
  <2>3. QED
    BY <2>1, <2>2
<1>3. \A n \in G : f[n] \in Int
  OBVIOUS
<1>4. G # {} => Max(kept) \in kept /\ \A v \in kept : v <= Max(kept)
  <2> HIDE DEF G, f, kept
  <2> DEFINE S == {f[n] : n \in G}
  <2>1. G # {} => Max(S) \in S /\ \A v \in S : v <= Max(S)
    BY <1>1, <1>3, MaxIsLargest
  <2>2. QED
    BY <1>2, <2>1
<1>5. LargestDrive = IF kept = {} THEN None ELSE Max(kept)
  BY DEF LargestDrive
<1>6. CASE kept = {}
  BY <1>5, <1>6, SensorConstants
<1>7. CASE kept # {}
  <2>1. LargestDrive \in kept /\ \A v \in kept : v <= LargestDrive
    BY <1>2, <1>4, <1>5, <1>7
  <2>2. kept \subseteq Int
    OBVIOUS
  <2>3. QED
    BY <2>1, <2>2
<1>8. QED
  BY <1>6, <1>7

LEMMA BestIsSeen ==
  ASSUME NEW devices \in SUBSET Sensor, devices # {}
  PROVE  Best(devices) \in devices
<1> DEFINE f == [n \in devices |-> -Rank[n]]
           firsts == {n \in devices : \A m \in devices : Rank[n] <= Rank[m]}
<1>1. /\ IsFiniteSet(devices) /\ IsFiniteSet(firsts)
      /\ devices \subseteq Int
      /\ \A n \in devices : Rank[n] \in Int
  <2>1. firsts \in SUBSET devices /\ IsFiniteSet(devices)
    BY SensorConstants, FS_Subset
  <2>2. \A n \in devices : n \in Int /\ Rank[n] \in Int
    BY SensorConstants, RankAssumption
  <2> HIDE DEF firsts
  <2>3. QED
    BY <2>1, <2>2, FS_Subset
<1>2. firsts # {}
  <2>1. \A n \in devices : f[n] \in Int
    BY <1>1
  <2>2. PICK n \in devices : \A m \in devices : f[m] <= f[n]
    <3> HIDE DEF f
    <3>1. QED
      BY <1>1, <2>1, LargestExists
  <2>3. n \in firsts
    BY <1>1, <2>2
  <2>4. QED
    BY <2>3
<1>3. PICK n \in firsts : \A m \in firsts : n <= m
  BY <1>1, <1>2, MinIsSmallest
<1>4. \A m \in devices : Rank[n] < Rank[m] \/ (Rank[n] = Rank[m] /\ n <= m)
  BY <1>1, <1>3
<1>5. QED
  BY <1>3, <1>4 DEF Best

LEMMA InitTypes == ReadersInit => TypeInv
<1> SUFFICES ASSUME ReadersInit PROVE TypeInv
  OBVIOUS
<1>1. LocalsOK
  BY DEF ReadersInit, SourcesInit, LocalsOK, Number, NoDrives
<1>2. shown \in [Sources -> Int \cup {None}]
  BY DEF ReadersInit, NoRequest, NothingShown
<1>3. QED
  BY <1>1, <1>2 DEF ReadersInit, SourcesInit, NoRequest, TypeInv, ReadersTypeOK, RequestInv,
                    AgentSteps

(* Silent or strange, every sensor has an answer.                          *)
LEMMA AnsweredTyped ==
  ASSUME LocalsOK, NEW kind, NEW silent, NEW strange
  PROVE  Answered(Of(kind), silent, strange) \in [Of(kind) -> Number]
BY SensorConstants, KindsAreSensors DEF Answered, LocalsOK, Number

(* The next file of the scan.                                              *)
LEMMA FirstUnread ==
  ASSUME Unread # {}
  PROVE  /\ Min(Unread) \in Sensor
         /\ \A n \in Sensor : n >= file => n >= Min(Unread)
<1>1. Unread \in SUBSET Sensor
  BY DEF Unread
<1>2. IsFiniteSet(Unread)
  BY <1>1, SensorConstants, FS_Subset
<1>3. Unread \subseteq Int
  BY <1>1, SensorConstants
<1>4. Min(Unread) \in Unread /\ \A n \in Unread : Min(Unread) <= n
  BY <1>2, <1>3, MinIsSmallest
<1>5. QED
  BY <1>1, <1>4, SensorConstants DEF Unread

LEMMA AgentTypes == TypeInv /\ Next /\ UNCHANGED request => TypeInv'
<1> SUFFICES ASSUME TypeInv, Next, UNCHANGED request PROVE TypeInv'
  OBVIOUS
<1> USE DEF TypeInv, ReadersTypeOK, RequestInv
<1>0. LocalsOK /\ RequestInv /\ Temps \subseteq Int /\ Sensor \subseteq Nat
  BY SensorConstants
<1>1. CASE BeginRead
  BY <1>0, <1>1 DEF BeginRead, LocalsOK, locals, history, request, AgentSteps
<1>2. CASE Drift
  BY <1>0, <1>2 DEF Drift, LocalsOK, locals, history, request
<1>3. CASE ReadRedfish
  <2>1. CASE failed' = TRUE /\ UNCHANGED <<cpu, lost, odd>>
    BY <1>0, <1>3, <2>1 DEF ReadRedfish, LocalsOK, request, AgentSteps
  <2>2. ASSUME NEW silent \in SUBSET Of("cpu"), NEW strange \in SUBSET (Of("cpu") \ silent),
               cpu' = Largest(Answered(Of("cpu"), silent, strange), Of("cpu")),
               Remember(silent, strange), UNCHANGED failed
        PROVE  TypeInv'
    <3>1. cpu' \in Number
      BY <1>0, <2>2, AnsweredTyped, LargestReading, KindsAreSensors
    <3>2. QED
      BY <1>0, <1>3, <2>2, <3>1, KindsAreSensors
         DEF ReadRedfish, Remember, LocalsOK, request, AgentSteps
  <2>3. QED
    BY <1>3, <2>1, <2>2 DEF ReadRedfish
<1>4. CASE ConnectTrueNas \/ Login
  <2>1. CASE ConnectTrueNas
    BY <1>0, <2>1 DEF ConnectTrueNas, LocalsOK, history, request, AgentSteps
  <2>2. CASE Login
    BY <1>0, <2>2 DEF Login, LocalsOK, locals, history, request, AgentSteps
  <2>3. QED
    BY <1>4, <2>1, <2>2
<1>5. CASE AskTemperatures
  <2>1. CASE UNCHANGED <<reply, lost, odd>>
    BY <1>0, <1>5, <2>1 DEF AskTemperatures, LocalsOK, request, AgentSteps
  <2>2. ASSUME NEW silent \in SUBSET Of("drive"), NEW strange \in SUBSET (Of("drive") \ silent),
               reply' = Answered(Of("drive"), silent, strange), Remember(silent, strange)
        PROVE  TypeInv'
    <3>1. reply' \in [Of("drive") -> Number]
      BY <1>0, <2>2, AnsweredTyped
    <3>2. QED
      BY <1>0, <1>5, <2>2, <3>1, KindsAreSensors
         DEF AskTemperatures, Remember, LocalsOK, request, AgentSteps
  <2>3. QED
    BY <1>5, <2>1, <2>2 DEF AskTemperatures
<1>6. CASE CloseTrueNas
  <2>1. reply # None => Largest(reply, Of("drive")) \in Number
    BY <1>0, LargestReading, KindsAreSensors DEF LocalsOK
  <2>2. QED
    BY <1>0, <1>6, <2>1 DEF CloseTrueNas, LocalsOK, history, request, AgentSteps
<1>7. CASE SkipFile \/ ReadFile
  <2> DEFINE n == Min(Unread)
             value == Scanned(truth[n])
  <2>1. n \in Sensor
    BY <1>7, FirstUnread DEF SkipFile, ReadFile
  <2>2. value \in Int /\ n \in Nat
    BY <1>0, <2>1, ScannedTyped DEF LocalsOK
  <2> HIDE DEF n, value
  <2>3. CASE SkipFile
    <3>1. lost' = lost \cup {n} /\ file' = n + 1
      BY <2>3 DEF SkipFile, n
    <3>2. lost' \subseteq Sensor /\ file' \in Nat
      BY <1>0, <2>1, <2>2, <3>1 DEF LocalsOK
    <3>3. QED
      BY <1>0, <2>3, <3>2 DEF SkipFile, LocalsOK, request
  <2>4. CASE ReadFile
    <3>1. cpu' \in Number
      <4>1. cpu \in Int \cup {None} => RunningMax(cpu, value) \in Int
        BY <2>2, RunningMaxTyped
      <4>2. cpu = NonFinite => RunningMax(cpu, value) \in {cpu, value}
        BY DEF RunningMax
      <4>3. QED
        BY <1>0, <2>2, <2>4, <4>1, <4>2 DEF ReadFile, LocalsOK, Number, n, value
    <3>2. drives' \in [Keys -> Int \cup {None}]
      <4>1. PICK name \in Names(n) : IF name.kind = "drive" THEN KeepDrive(name.key, value)
                                      ELSE UNCHANGED drives
        BY <2>4 DEF ReadFile, n, value
      <4>2. drives \in [Keys -> Int \cup {None}]
        BY <1>0 DEF LocalsOK
      <4>3. QED
        BY <2>1, <2>2, <4>1, <4>2, NamesOfSensor DEF KeepDrive
    <3>3. QED
      BY <1>0, <2>2, <2>4, <3>1, <3>2 DEF ReadFile, LocalsOK, history, request, n
  <2>5. QED
    BY <1>7, <2>3, <2>4
<1>8. CASE EndScan
  <2>1. LargestDrive \in Number
    BY <1>0, LargestDriveTyped DEF LocalsOK, Number
  <2>2. QED
    BY <1>0, <1>8, <2>1 DEF EndScan, LocalsOK, history, request, AgentSteps
<1>9. CASE FinishRead
  <2>1. SensorOk \in BOOLEAN
    BY DEF SensorOk
  <2>2. QED
    BY <1>0, <1>9, <2>1 DEF FinishRead, LocalsOK, locals, history, request, AgentSteps
<1>10. CASE TakeAnswer
  BY <1>0, <1>10 DEF TakeAnswer, LocalsOK, Number, NoDrives, request, AgentSteps
<1>11. QED
  BY <1>1, <1>2, <1>3, <1>4, <1>5, <1>6, <1>7, <1>8, <1>9, <1>10 DEF Next

LEMMA ShowTyped ==
  ASSUME shown \in [Sources -> Int \cup {None}], source \in Sources,
         NEW value \in Int \cup {None}, Show(value)
  PROVE  /\ shown' \in [Sources -> Int \cup {None}]
         /\ source' \in Sources \cup {"none"} /\ labelled' = FALSE
         /\ \/ pc' = "find" /\ source' \in Sources
            \/ pc' = "page"
BY DEF Show, Sources, NextSource

LEMMA MissedTyped ==
  ASSUME shown \in [Sources -> Int \cup {None}], source \in Sources,
         labelled \in BOOLEAN, RequestInv, Missed
  PROVE  /\ shown' \in [Sources -> Int \cup {None}]
         /\ source' \in Sources \cup {"none"} /\ labelled' \in BOOLEAN
         /\ labelled' => source' = "cpu"
         /\ pc' = "smart" => ~labelled'
         /\ \/ pc' \in {"find", "smart"} /\ source' \in Sources
            \/ pc' = "page"
<1>1. CASE source # "cpu"
  BY <1>1 DEF Missed, RequestInv
<1>2. CASE source = "cpu" /\ labelled
  BY <1>2 DEF Missed, RequestInv
<1>3. CASE source = "cpu" /\ ~labelled
  BY <1>3, ShowTyped DEF Missed
<1>4. QED
  BY <1>1, <1>2, <1>3

LEMMA CoreTypes ==
  TypeInv /\ (BeginStatus \/ FindDevice \/ GetTemp \/ Smartctl \/ BuildPage \/ TakePage)
    => TypeInv'
<1> SUFFICES ASSUME TypeInv,
                    BeginStatus \/ FindDevice \/ GetTemp \/ Smartctl \/ BuildPage \/ TakePage
             PROVE  TypeInv'
  OBVIOUS
<1>0. /\ LocalsOK /\ RequestInv /\ Temps \subseteq Int
      /\ shown \in [Sources -> Int \cup {None}] /\ page \in [Sources -> Int \cup {None}] \cup {None}
      /\ labelled \in BOOLEAN /\ raised \in BOOLEAN /\ device \in Sensor \cup {None}
      /\ source \in Sources \cup {"none"}
      /\ pc \in AgentSteps \cup {"find", "get", "smart", "page", "shown"}
  BY SensorConstants DEF TypeInv, ReadersTypeOK
<1>1. CASE BeginStatus
  BY <1>0, <1>1 DEF BeginStatus, AgentRests, locals, LocalsOK, TypeInv, ReadersTypeOK,
                    RequestInv, Sources
<1>2. CASE FindDevice
  <2>1. PICK unseen \in SUBSET Devices(source) :
          LET seen == Devices(source) \ unseen
          IN  /\ lost' = lost \cup unseen
              /\ IF seen = {} THEN Missed /\ UNCHANGED device
                 ELSE /\ device' = Best(seen) /\ pc' = "get"
                      /\ UNCHANGED <<source, labelled, shown>>
    BY <1>2 DEF FindDevice
  <2> DEFINE seen == Devices(source) \ unseen
  <2>2. /\ source \in Sources /\ seen \subseteq Sensor /\ LocalsOK'
        /\ UNCHANGED <<raised, page>>
    BY <1>0, <1>2, <2>1, DevicesCount DEF FindDevice, AgentRests, locals, RequestInv, LocalsOK
  <2>3. CASE seen = {}
    BY <1>0, <2>1, <2>2, <2>3, MissedTyped DEF TypeInv, ReadersTypeOK, RequestInv
  <2>4. CASE seen # {}
    <3>1. Best(seen) \in seen
      BY <2>2, <2>4, BestIsSeen
    <3>2. device' \in Devices(source') /\ device' \in Sensor
      BY <2>1, <2>2, <2>4, <3>1
    <3>3. QED
      BY <1>0, <2>1, <2>2, <2>4, <3>2 DEF TypeInv, ReadersTypeOK, RequestInv
  <2>5. QED
    BY <2>3, <2>4
<1>3. CASE GetTemp
  <2>1. source \in Sources /\ device \in Sensor /\ device' = None
        /\ UNCHANGED <<raised, page>>
    BY <1>0, <1>3, DevicesCount DEF GetTemp, RequestInv
  <2>2. LocalsOK'
    BY <1>0, <1>3, <2>1 DEF GetTemp, AgentRests, locals, LocalsOK
  <2>3. Scanned(truth[device]) \in Int
    BY <1>0, <2>1, ScannedTyped DEF LocalsOK
  <2>4. CASE Missed
    BY <1>0, <2>1, <2>2, <2>4, MissedTyped DEF TypeInv, ReadersTypeOK, RequestInv
  <2>5. CASE Show(Scanned(truth[device]))
    BY <1>0, <2>1, <2>2, <2>3, <2>5, ShowTyped DEF TypeInv, ReadersTypeOK, RequestInv
  <2>6. QED
    BY <1>3, <2>4, <2>5 DEF GetTemp
<1>4. CASE Smartctl
  <2>1. source \in Sources /\ LocalsOK' /\ UNCHANGED <<page, device>>
        /\ ~labelled
    BY <1>0, <1>4 DEF Smartctl, AgentRests, locals, LocalsOK, RequestInv
  <2>2. CASE /\ raised' = TRUE /\ pc' = "page" /\ source' = "none"
             /\ UNCHANGED <<labelled, shown>>
    BY <1>0, <2>1, <2>2 DEF TypeInv, ReadersTypeOK, RequestInv
  <2>3. ASSUME NEW value \in Int \cup {None}, Show(value), UNCHANGED raised
        PROVE  TypeInv'
    BY <1>0, <2>1, <2>3, ShowTyped DEF TypeInv, ReadersTypeOK, RequestInv
  <2>4. QED
    BY <1>0, <1>4, <2>2, <2>3, KindsAreSensors DEF Smartctl, LocalsOK
<1>5. CASE BuildPage
  <2>1. page' \in [Sources -> Int \cup {None}]
    BY <1>0, <1>5 DEF BuildPage, PageOf, Placeholder
  <2>2. QED
    BY <1>0, <1>5, <2>1 DEF BuildPage, AgentRests, locals, LocalsOK, TypeInv, ReadersTypeOK,
                            RequestInv
<1>6. CASE TakePage
  <2>1. shown' \in [Sources -> Int \cup {None}]
    BY <1>6 DEF TakePage, NothingShown
  <2>2. QED
    BY <1>0, <1>6, <2>1 DEF TakePage, locals, LocalsOK, TypeInv, ReadersTypeOK,
                            RequestInv, AgentSteps
<1>7. QED
  BY <1>1, <1>2, <1>3, <1>4, <1>5, <1>6

LEMMA TypeInductive == TypeInv /\ [ReadersNext]_readersVars => TypeInv'
<1>1. CASE UNCHANGED readersVars
  BY <1>1 DEF readersVars, vars, locals, history, request, TypeInv, ReadersTypeOK, LocalsOK,
              RequestInv
<1>2. QED
  BY <1>1, AgentTypes, CoreTypes DEF ReadersNext

(* Types of both readings, with the device that is read in hand.           *)
THEOREM SensorsTypeCorrect == ReadersSpec => []ReadersTypeOK
<1>1. TypeInv => ReadersTypeOK
  BY DEF TypeInv
<1>2. QED
  BY <1>1, InitTypes, TypeInductive, PTL DEF ReadersSpec

-----------------------------------------------------------------------------
(* A status that is not complete lacks a reading.                          *)

CoreSteps == {"find", "get", "smart", "page", "shown"}

(* How far a read has come tells what is still empty.                      *)
ReadInv ==
    /\ pc \in {"idle", "redfish"} \cup CoreSteps =>
          cpu = None /\ drives = NoDrives /\ drive = None /\ reply = None
          /\ failed = FALSE /\ file = 0
    /\ pc \in {"redfish", "connect", "login", "temperatures", "close"} =>
          backend = "ast2600" /\ drive = None
    /\ pc \in {"connect", "login", "temperatures"} => reply = None
    /\ pc = "scan" => /\ backend = "hwmon" /\ failed = FALSE /\ drive = None
                      /\ cpu \in Int \cup {None}
    /\ failed => cpu = None \/ (pc \in {"finish", "answered"} /\ drive = None)
    /\ socket = "open" => pc \in {"login", "temperatures", "close"}
    /\ pc # "answered" => answer = None
    /\ answer # None => answer = [cpu |-> cpu, drive |-> drive, sensor_ok |-> SensorOk]

LEMMA InitRead == ReadersInit => ReadInv
BY DEF ReadersInit, SourcesInit, NoRequest, ReadInv

LEMMA CoreMoves ==
  ASSUME TypeInv,
         BeginStatus \/ FindDevice \/ GetTemp \/ Smartctl \/ BuildPage \/ TakePage
  PROVE  /\ pc \in {"idle"} \cup CoreSteps /\ pc' \in {"idle"} \cup CoreSteps
         /\ UNCHANGED <<backend, truth, locals, socket, answer, odd>>
         /\ UNCHANGED during \/ pc' = "idle"
         /\ lost \subseteq lost' \/ pc' = "idle"
BY DEF TypeInv, ReadersTypeOK, RequestInv, CoreSteps, BeginStatus, FindDevice, GetTemp,
       Smartctl, BuildPage, TakePage, AgentRests, Missed, Show

LEMMA ReadInductive == TypeInv /\ ReadInv /\ [ReadersNext]_readersVars => ReadInv'
<1> SUFFICES ASSUME TypeInv, ReadInv, [ReadersNext]_readersVars PROVE ReadInv'
  OBVIOUS
<1>0. LocalsOK
  BY DEF TypeInv, ReadersTypeOK
<1> USE DEF ReadInv, CoreSteps
<1>1. CASE UNCHANGED readersVars
  BY <1>1 DEF readersVars, vars, locals, SensorOk
<1>2. CASE BeginStatus \/ FindDevice \/ GetTemp \/ Smartctl \/ BuildPage \/ TakePage
  BY <1>2, CoreMoves DEF locals
<1>3. CASE BeginRead
  BY <1>0, <1>3 DEF BeginRead, locals, LocalsOK
<1>4. CASE Drift
  BY <1>4 DEF Drift, locals, SensorOk
<1>5. CASE ReadRedfish
  BY <1>5 DEF ReadRedfish
<1>6. CASE ConnectTrueNas
  BY <1>0, <1>6 DEF ConnectTrueNas, LocalsOK
<1>7. CASE Login \/ AskTemperatures
  BY <1>7 DEF Login, AskTemperatures, locals
<1>8. CASE CloseTrueNas
  BY <1>0, <1>8 DEF CloseTrueNas, LocalsOK
<1>9. CASE SkipFile \/ ReadFile \/ EndScan
  <2>1. CASE ReadFile
    <3>1. PICK value \in Int : value = Scanned(truth[Min(Unread)])
      BY <1>0, <2>1, FirstUnread, ScannedTyped, SensorConstants DEF ReadFile, LocalsOK
    <3>2. cpu' \in {cpu, RunningMax(cpu, value)}
      BY <2>1, <3>1 DEF ReadFile
    <3>3. cpu' \in Int \cup {None}
      BY <2>1, <3>1, <3>2, RunningMaxTyped DEF ReadFile
    <3>4. QED
      BY <1>0, <2>1, <3>3 DEF ReadFile, LocalsOK
  <2>2. CASE SkipFile
    BY <1>0, <2>2 DEF SkipFile, LocalsOK
  <2>3. CASE EndScan
    BY <1>0, <2>3 DEF EndScan, LocalsOK
  <2>4. QED
    BY <1>9, <2>1, <2>2, <2>3
<1>10. CASE FinishRead
  BY <1>0, <1>10 DEF FinishRead, locals, SensorOk
<1>11. CASE TakeAnswer
  BY <1>11 DEF TakeAnswer
<1>12. QED
  BY <1>1, <1>2, <1>3, <1>4, <1>5, <1>6, <1>7, <1>8, <1>9, <1>10, <1>11
     DEF ReadersNext, Next

(* A read that failed at whatever exchange, or lost whatever file, gives a *)
(* status that lacks a required reading, and leaves no websocket open.     *)
THEOREM FailuresShow == ReadersSpec => []FailureIsMissingReading
<1>1. TypeInv /\ ReadInv => FailureIsMissingReading
  <2> SUFFICES ASSUME TypeInv, ReadInv, answer # None
               PROVE  /\ answer.sensor_ok <=> ~SensorFailure(answer)
                      /\ failed => SensorFailure(answer)
                      /\ socket = "closed"
    BY DEF FailureIsMissingReading
  <2>1. pc = "answered" /\ socket = "closed"
    BY DEF ReadInv, TypeInv, ReadersTypeOK, LocalsOK
  <2>2. answer.cpu = cpu /\ answer.drive = drive /\ answer.sensor_ok = SensorOk
    BY DEF ReadInv
  <2>3. failed => cpu = None \/ drive = None
    BY DEF ReadInv
  <2>4. QED
    BY <2>1, <2>2, <2>3 DEF SensorOk, SensorFailure
<1>2. QED
  BY <1>1, InitTypes, TypeInductive, InitRead, ReadInductive, PTL DEF ReadersSpec

-----------------------------------------------------------------------------
(* A hot status comes from a hot sensor.                                   *)

(* A sensor of this kind had this temperature during the read.             *)
Backed(kind, number) ==
    \E n \in CountsAs(kind) : \E t \in during[n] :
        number = t \/ (backend = "hwmon" /\ number = Scanned(t))

BackedInv ==
    /\ \A n \in Sensor : truth[n] \in during[n]
    /\ cpu \in Int => Backed("cpu", cpu)
    /\ drive \in Int => Backed("drive", drive)
    /\ \A k \in Keys : drives[k] \in Int => Backed("drive", drives[k])
    /\ reply # None => \A n \in Of("drive") : reply[n] \in Int => reply[n] \in during[n]

(* What a status without readings says.                                    *)
LEMMA NothingRead ==
  ASSUME cpu = None, drive = None, drives = NoDrives, reply = None,
         \A n \in Sensor : truth[n] \in during[n]
  PROVE  BackedInv
BY SensorConstants DEF BackedInv, NoDrives

(* The same of a number at the end of a step.                              *)
BackedNext(kind, number) ==
    \E n \in CountsAs(kind) : \E t \in during'[n] :
        number = t \/ (backend' = "hwmon" /\ number = Scanned(t))

LEMMA NextBacked ==
  ASSUME \A n \in Sensor : truth'[n] \in during'[n],
         cpu' \in Int => BackedNext("cpu", cpu'),
         drive' \in Int => BackedNext("drive", drive'),
         \A k \in Keys : drives'[k] \in Int => BackedNext("drive", drives'[k]),
         reply' # None =>
            \A n \in Of("drive") : reply'[n] \in Int => reply'[n] \in during'[n]
  PROVE  BackedInv'
BY DEF BackedInv, Backed, BackedNext

(* A number stays backed while the read goes on.                           *)
LEMMA BackedStays ==
  ASSUME UNCHANGED backend, \A n \in Sensor : during[n] \subseteq during'[n]
  PROVE  \A kind, number : Backed(kind, number) => BackedNext(kind, number)
BY CountsAsSensors DEF Backed, BackedNext

LEMMA InitBacked == ReadersInit => BackedInv
<1> SUFFICES ASSUME ReadersInit PROVE BackedInv
  OBVIOUS
<1>1. \A n \in Sensor : truth[n] \in during[n]
  BY DEF ReadersInit, SourcesInit
<1>2. QED
  BY <1>1, NothingRead DEF ReadersInit, SourcesInit

(* The temperatures of the moment are among those of the read.             *)
LEMMA TruthDuring ==
  TypeInv /\ BackedInv /\ [ReadersNext]_readersVars
    => (\A n \in Sensor : truth[n] \in during[n])'
<1> SUFFICES ASSUME TypeInv, BackedInv, [ReadersNext]_readersVars
             PROVE  \A n \in Sensor : truth'[n] \in during'[n]
  OBVIOUS
<1>0. LocalsOK /\ \A n \in Sensor : truth[n] \in during[n]
  BY DEF TypeInv, ReadersTypeOK, BackedInv
<1>1. CASE Drift
  BY <1>0, <1>1 DEF Drift, LocalsOK
<1>2. CASE TakeAnswer \/ TakePage
  BY <1>0, <1>2 DEF TakeAnswer, TakePage
<1>3. CASE UNCHANGED <<truth, during>>
  BY <1>0, <1>3
<1>4. QED
  BY <1>1, <1>2, <1>3
     DEF ReadersNext, Next, readersVars, vars, history, BeginRead, ReadRedfish, ConnectTrueNas,
         Login, AskTemperatures, CloseTrueNas, SkipFile, ReadFile, EndScan, FinishRead,
         BeginStatus, FindDevice, GetTemp, Smartctl, BuildPage, AgentRests

(* Until it is over, a read only adds to what it has seen.                 *)
LEMMA ReadingOn ==
  TypeInv /\ [ReadersNext]_readersVars =>
    \/ pc' = "idle"
    \/ /\ UNCHANGED backend
       /\ \A n \in Sensor : during[n] \subseteq during'[n]
       /\ lost \subseteq lost' /\ odd \subseteq odd'
<1> SUFFICES ASSUME TypeInv, [ReadersNext]_readersVars, pc' # "idle"
             PROVE  /\ UNCHANGED backend
                    /\ \A n \in Sensor : during[n] \subseteq during'[n]
                    /\ lost \subseteq lost' /\ odd \subseteq odd'
  OBVIOUS
<1>0. LocalsOK
  BY DEF TypeInv, ReadersTypeOK
<1>1. CASE Drift
  BY <1>0, <1>1 DEF Drift, LocalsOK
<1>2. CASE BeginStatus \/ FindDevice \/ GetTemp \/ Smartctl \/ BuildPage \/ TakePage
  BY <1>2, CoreMoves
<1>3. CASE ReadRedfish \/ AskTemperatures \/ SkipFile
  BY <1>3 DEF ReadRedfish, AskTemperatures, SkipFile, Remember
<1>4. CASE UNCHANGED <<backend, history>>
  BY <1>4 DEF history
<1>5. QED
  BY <1>1, <1>2, <1>3, <1>4
     DEF ReadersNext, Next, readersVars, vars, history, BeginRead, ConnectTrueNas, Login,
         CloseTrueNas, ReadFile, EndScan, FinishRead, TakeAnswer

LEMMA BackedInductive ==
  TypeInv /\ ReadInv /\ BackedInv /\ [ReadersNext]_readersVars => BackedInv'
<1> SUFFICES ASSUME TypeInv, ReadInv, BackedInv, [ReadersNext]_readersVars
             PROVE  BackedInv'
  OBVIOUS
<1>0. /\ LocalsOK /\ Temps \subseteq Int
      /\ \A n \in Sensor : truth[n] \in during[n] /\ truth[n] \in Int
  BY SensorConstants DEF TypeInv, ReadersTypeOK, LocalsOK, BackedInv
<1>1. (\A n \in Sensor : truth[n] \in during[n])'
  BY TruthDuring
<1>2. CASE pc' = "idle"
  <2>1. ReadInv' /\ (cpu = None /\ drive = None /\ drives = NoDrives /\ reply = None)'
    BY <1>2, ReadInductive DEF ReadInv
  <2>2. QED
    BY <1>1, <2>1, SensorConstants DEF BackedInv, NoDrives
<1>3. CASE pc' # "idle"
  <2>0. /\ UNCHANGED backend
        /\ \A n \in Sensor : during[n] \subseteq during'[n]
        /\ \A kind, number : Backed(kind, number) => BackedNext(kind, number)
    BY <1>3, ReadingOn, BackedStays
  <2>1. CASE UNCHANGED <<cpu, drive, drives, reply>>
    BY <1>1, <2>0, <2>1, KindsAreSensors, NextBacked DEF BackedInv
  <2>2. CASE ReadRedfish
    <3>1. cpu' \in Int => BackedNext("cpu", cpu')
      <4>1. CASE UNCHANGED cpu
        BY <2>0, <4>1 DEF BackedInv
      <4>2. ASSUME NEW silent \in SUBSET Of("cpu"),
                   NEW strange \in SUBSET (Of("cpu") \ silent),
                   cpu' = Largest(Answered(Of("cpu"), silent, strange), Of("cpu")),
                   cpu' \in Int
            PROVE  BackedNext("cpu", cpu')
        <5> DEFINE values == Answered(Of("cpu"), silent, strange)
        <5>1. values \in [Of("cpu") -> Number]
          BY <1>0, AnsweredTyped
        <5>2. PICK n \in Of("cpu") : values[n] = cpu'
          <6> HIDE DEF values
          <6>1. QED
            BY <4>2, <5>1, LargestReading, KindsAreSensors DEF values
        <5>3. cpu' = truth[n]
          BY <4>2, <5>2, SensorConstants DEF Answered
        <5>4. truth[n] \in during'[n]
          BY <1>0, <2>0, KindsAreSensors
        <5>5. QED
          BY <5>3, <5>4, CountsAsSensors DEF BackedNext
      <4>3. QED
        BY <2>2, <4>1, <4>2 DEF ReadRedfish
    <3>2. UNCHANGED <<drive, drives, reply>>
      BY <2>2 DEF ReadRedfish
    <3>3. QED
      BY <1>1, <2>0, <3>1, <3>2, KindsAreSensors, NextBacked DEF BackedInv
  <2>3. CASE AskTemperatures
    <3>1. reply' # None => \A n \in Of("drive") : reply'[n] \in Int => reply'[n] \in during'[n]
      BY <1>0, <2>0, <2>3, KindsAreSensors, SensorConstants
         DEF AskTemperatures, Answered, BackedInv
    <3>2. UNCHANGED <<cpu, drive, drives>>
      BY <2>3 DEF AskTemperatures
    <3>3. QED
      BY <1>1, <2>0, <3>1, <3>2, KindsAreSensors, NextBacked DEF BackedInv
  <2>4. CASE CloseTrueNas
    <3>1. drive' \in Int => BackedNext("drive", drive')
      <4>1. CASE UNCHANGED drive
        BY <2>0, <4>1 DEF BackedInv
      <4>2. ASSUME reply # None, drive' = Largest(reply, Of("drive")), drive' \in Int
            PROVE  BackedNext("drive", drive')
        <5>1. PICK n \in Of("drive") : reply[n] = drive'
          BY <1>0, <4>2, LargestReading, KindsAreSensors DEF LocalsOK
        <5>2. drive' \in during'[n]
          BY <2>0, <4>2, <5>1, KindsAreSensors DEF BackedInv
        <5>3. QED
          BY <5>2, CountsAsSensors DEF BackedNext
      <4>3. QED
        BY <2>4, <4>1, <4>2 DEF CloseTrueNas
    <3>2. UNCHANGED <<cpu, drives, reply>>
      BY <2>4 DEF CloseTrueNas
    <3>3. QED
      BY <1>1, <2>0, <3>1, <3>2, KindsAreSensors, NextBacked DEF BackedInv
  <2>5. CASE ReadFile
    <3> DEFINE n == Min(Unread)
               value == Scanned(truth[n])
    <3>1. n \in Sensor /\ value \in Int /\ backend = "hwmon"
      BY <1>0, <2>5, FirstUnread, ScannedTyped DEF ReadFile, ReadInv
    <3>2. PICK name \in Names(n) :
            /\ cpu' = IF name.kind = "cpu" THEN RunningMax(cpu, value) ELSE cpu
            /\ IF name.kind = "drive" THEN KeepDrive(name.key, value) ELSE UNCHANGED drives
      BY <2>5 DEF ReadFile
    <3>3. UNCHANGED <<drive, reply>> /\ BackedNext(name.kind, value)
      <4>1. UNCHANGED <<drive, reply>>
        BY <2>5 DEF ReadFile
      <4>2. truth[n] \in during'[n] /\ n \in CountsAs(name.kind)
        BY <1>0, <2>0, <3>1, NamesOfSensor
      <4>3. QED
        BY <2>0, <3>1, <4>1, <4>2 DEF BackedNext
    <3> HIDE DEF n, value
    <3>4. cpu' \in Int => BackedNext("cpu", cpu')
      <4>2. RunningMax(cpu, value) \in {cpu, value}
        BY DEF RunningMax
      <4>3. QED
        BY <2>0, <3>2, <3>3, <4>2 DEF BackedInv
    <3>5. \A k \in Keys : drives'[k] \in Int => BackedNext("drive", drives'[k])
      <4>1. CASE name.kind = "drive"
        <5>1. drives' = [drives EXCEPT ![name.key] = value]
          BY <3>2, <4>1 DEF KeepDrive
        <5>2. \A k \in Keys : drives'[k] \in {drives[k], value}
          BY <1>0, <5>1 DEF LocalsOK
        <5>3. QED
          BY <2>0, <3>3, <4>1, <5>2 DEF BackedInv
      <4>2. CASE name.kind # "drive"
        BY <2>0, <3>2, <4>2 DEF BackedInv
      <4>3. QED
        BY <4>1, <4>2
    <3>6. QED
      BY <1>1, <2>0, <3>3, <3>4, <3>5, KindsAreSensors, NextBacked DEF BackedInv
  <2>6. CASE EndScan
    <3>1. drive' \in Int => \E k \in Keys : drives[k] = drive'
      BY <1>0, <2>6, LargestDriveTyped DEF EndScan, LocalsOK
    <3>2. UNCHANGED <<cpu, drives, reply>>
      BY <2>6 DEF EndScan
    <3>3. QED
      BY <1>1, <2>0, <3>1, <3>2, KindsAreSensors, NextBacked DEF BackedInv
  <2>7. QED
    BY <1>3, <2>1, <2>2, <2>3, <2>4, <2>5, <2>6, CoreMoves
       DEF ReadersNext, Next, readersVars, vars, locals, BeginRead, Drift, ConnectTrueNas,
           Login, SkipFile, FinishRead, TakeAnswer
<1>4. QED
  BY <1>2, <1>3

LEMMA AnswerIsRead ==
  ASSUME ReadInv, answer # None
  PROVE  /\ pc = "answered"
         /\ answer.cpu = cpu /\ answer.drive = drive
         /\ failed => SensorFailure(answer)
BY DEF ReadInv, SensorFailure

(* No false alarm: a status is hot only when a CPU sensor or a drive was,  *)
(* or what its chip's name makes one.                                      *)
THEOREM AlarmsAreReal == ReadersSpec => []NoFalseAlarm
<1>1. TypeInv /\ ReadInv /\ BackedInv => NoFalseAlarm
  <2> SUFFICES ASSUME TypeInv, ReadInv, BackedInv, answer # None, Hot(answer)
               PROVE  \/ \E n \in CountsAs("cpu") : MeasuredAbove(n, HotCpu)
                      \/ \E n \in CountsAs("drive") : MeasuredAbove(n, HotDrive)
    BY DEF NoFalseAlarm
  <2>1. ASSUME NEW kind, NEW number \in Int, NEW threshold \in Int,
               LargestDegrees <= threshold, number > threshold, Backed(kind, number)
        PROVE  \E n \in CountsAs(kind) : MeasuredAbove(n, threshold)
    <3>0. PICK n \in CountsAs(kind) : \E t \in during[n] :
             number = t \/ (backend = "hwmon" /\ number = Scanned(t))
      BY <2>1 DEF Backed
    <3>1. PICK t \in during[n] : number = t \/ (backend = "hwmon" /\ number = Scanned(t))
      BY <3>0
    <3>2. t \in Int
      BY <3>1, CountsAsSensors, SensorConstants DEF TypeInv, ReadersTypeOK, LocalsOK
    <3>3. t > threshold \/ (backend = "hwmon" /\ t \in 1..LargestDegrees)
      BY <2>1, <3>1, <3>2 DEF Scanned, LargestDegrees
    <3>4. QED
      BY <3>1, <3>3 DEF MeasuredAbove
  <2>2. \/ cpu \in Int /\ cpu > HotCpu
        \/ drive \in Int /\ drive > HotDrive
    BY AnswerIsRead DEF Hot, IsHot
  <2>3. /\ LargestDegrees <= HotCpu /\ LargestDegrees <= HotDrive
        /\ HotCpu \in Int /\ HotDrive \in Int
    BY SensorConstants DEF LargestDegrees
  <2>4. QED
    BY <2>1, <2>2, <2>3 DEF BackedInv
<1>2. QED
  BY <1>1, InitTypes, TypeInductive, InitRead, ReadInductive, InitBacked, BackedInductive,
     PTL DEF ReadersSpec

-----------------------------------------------------------------------------
(* No sensor hides another.                                                *)

(* No two drives are kept under one key, with or without their labels.     *)
DrivesAreNamed == \A m, n \in Sensor : m # n => DriveKeys(m) \cap DriveKeys(n) = {}

(* A CPU sensor or a drive is known for one by its chip's name.            *)
ChipsTellKinds == \A n \in Of("cpu") \cup Of("drive") : Bare[n].kind = Kind[n]

(* Then it is taken for what it is whichever names can be read.            *)
LEMMA KindIsKnown ==
  ASSUME ChipsTellKinds, NEW n \in Of("cpu") \cup Of("drive"), NEW name \in Names(n)
  PROVE  name.kind = Kind[n]
BY DEF ChipsTellKinds, Names

(* The number is no less than what sensor n had at some step of the read.  *)
Counted(n, number) ==
    number \in Int /\ \E t \in during[n] : t <= number

(* The same, when nothing excuses it: n was not lost, no number was odd,   *)
(* no temperature is taken for whole degrees.                              *)
Due(n) == odd = {} /\ n \notin lost /\ \A t \in during[n] : t > LargestDegrees

CpuAnswered == {"connect", "login", "temperatures", "close", "finish", "answered"}

CountedInv ==
    /\ \A n \in Of("cpu") :
          pc \in CpuAnswered \/ (pc = "scan" /\ n < file) =>
             failed \/ (Due(n) => Counted(n, cpu))
    /\ reply # None => \A n \in Of("drive") :
          odd = {} => /\ reply[n] # NonFinite
                      /\ n \in lost \/ (reply[n] \in Int /\ reply[n] \in during[n])
    /\ \A n \in Of("drive") :
          /\ pc = "scan" /\ n < file /\ Due(n) =>
                \E k \in DriveKeys(n) : Counted(n, drives[k])
          /\ pc \in {"finish", "answered"} => failed \/ (Due(n) => Counted(n, drive))

(* The same at the end of a step, of a number known before it.             *)
CountedNext(n, number) ==
    number \in Int /\ \E t \in during'[n] : t <= number

LEMMA NextCounted ==
  ASSUME \A n \in Of("cpu") :
            pc' \in CpuAnswered \/ (pc' = "scan" /\ n < file') =>
               failed' \/ (Due(n)' => CountedNext(n, cpu')),
         reply' # None => \A n \in Of("drive") :
            odd' = {} => /\ reply'[n] # NonFinite
                         /\ n \in lost' \/ (reply'[n] \in Int /\ reply'[n] \in during'[n]),
         \A n \in Of("drive") :
            /\ pc' = "scan" /\ n < file' /\ Due(n)' =>
                  \E k \in DriveKeys(n) : CountedNext(n, drives'[k])
            /\ pc' \in {"finish", "answered"} => failed' \/ (Due(n)' => CountedNext(n, drive'))
  PROVE  CountedInv'
BY DEF CountedInv, Counted, CountedNext

LEMMA CountedStays ==
  ASSUME \A n \in Sensor : during[n] \subseteq during'[n],
         lost \subseteq lost', odd \subseteq odd'
  PROVE  \A n \in Sensor :
            /\ Due(n)' => Due(n)
            /\ \A number : Counted(n, number) => CountedNext(n, number)
BY DEF Due, Counted, CountedNext

LEMMA InitCounted == ReadersInit => CountedInv
BY DEF ReadersInit, SourcesInit, CountedInv, CpuAnswered

LEMMA ScannedAbove ==
  ASSUME NEW t \in Int, t > LargestDegrees PROVE Scanned(t) = t
BY DEF Scanned

LEMMA RunningMaxCounts ==
  ASSUME NEW old \in Int \cup {None}, NEW value \in Int, NEW t \in Int, t > LargestDegrees,
         (old \in Int /\ t <= old) \/ t <= value
  PROVE  RunningMax(old, value) \in Int /\ t <= RunningMax(old, value)
BY SensorConstants DEF RunningMax, LargestDegrees

LEMMA CountedInductive ==
  ASSUME DrivesAreNamed, ChipsTellKinds
  PROVE  TypeInv /\ ReadInv /\ BackedInv /\ CountedInv /\ [ReadersNext]_readersVars
           => CountedInv'
<1> SUFFICES ASSUME TypeInv, ReadInv, BackedInv, CountedInv, [ReadersNext]_readersVars
             PROVE  CountedInv'
  OBVIOUS
<1>0. /\ LocalsOK /\ Temps \subseteq Int
      /\ \A n \in Sensor : truth[n] \in during[n] /\ truth[n] \in Int
  BY SensorConstants DEF TypeInv, ReadersTypeOK, LocalsOK, BackedInv
<1>2. CASE pc' = "idle"
  <2>1. reply' = None
    BY <1>2, ReadInductive DEF ReadInv
  <2>2. QED
    BY <1>2, <2>1 DEF CountedInv, CpuAnswered
<1>3. CASE pc' # "idle"
  <2>0. /\ \A n \in Sensor : during[n] \subseteq during'[n]
        /\ lost \subseteq lost' /\ odd \subseteq odd'
        /\ \A n \in Sensor : /\ Due(n)' => Due(n)
                             /\ \A number : Counted(n, number) => CountedNext(n, number)
    BY <1>3, ReadingOn, CountedStays
  <2>00. /\ Of("cpu") \subseteq Sensor /\ Of("drive") \subseteq Sensor /\ Sensor \subseteq Nat
    BY KindsAreSensors, SensorConstants
  <2>R. ASSUME UNCHANGED reply
        PROVE  reply' # None => \A n \in Of("drive") :
                 odd' = {} => /\ reply'[n] # NonFinite
                              /\ n \in lost' \/ (reply'[n] \in Int /\ reply'[n] \in during'[n])
    <3>1. odd' = {} => odd = {}
      BY <2>0
    <3>2. QED
      BY <2>0, <2>00, <2>R, <3>1 DEF CountedInv
  <2>C. ASSUME UNCHANGED <<cpu, failed>> \/ (UNCHANGED cpu /\ failed' = TRUE),
               \/ pc' \in CpuAnswered => pc \in CpuAnswered
               \/ pc = "scan" /\ Unread = {},
               pc' = "scan" => pc = "scan" /\ UNCHANGED file
        PROVE  \A n \in Of("cpu") :
                 pc' \in CpuAnswered \/ (pc' = "scan" /\ n < file') =>
                    failed' \/ (Due(n)' => CountedNext(n, cpu'))
    <3> SUFFICES ASSUME NEW n \in Of("cpu"),
                        pc' \in CpuAnswered \/ (pc' = "scan" /\ n < file'),
                        ~failed', Due(n)'
                 PROVE  CountedNext(n, cpu')
      OBVIOUS
    <3>1. Unread = {} => n < file
      <4>1. file \in Nat /\ n \in Nat /\ n \in Sensor
        BY <1>0, <2>00 DEF LocalsOK
      <4>2. QED
        BY <4>1 DEF Unread
    <3>2. pc \in CpuAnswered \/ (pc = "scan" /\ n < file)
      BY <2>C, <3>1
    <3>3. ~failed /\ UNCHANGED cpu
      BY <2>C
    <3>4. QED
      BY <2>0, <2>00, <3>2, <3>3 DEF CountedInv
  <2>D. ASSUME UNCHANGED <<drives, drive>>, UNCHANGED failed \/ failed' = TRUE,
               pc' \in {"finish", "answered"} =>
                  pc \in {"finish", "answered"} \/ failed' = TRUE,
               pc' = "scan" => pc = "scan" /\ UNCHANGED file
        PROVE  \A n \in Of("drive") :
            /\ pc' = "scan" /\ n < file' /\ Due(n)' =>
                  \E k \in DriveKeys(n) : CountedNext(n, drives'[k])
            /\ pc' \in {"finish", "answered"} => failed' \/ (Due(n)' => CountedNext(n, drive'))
    <3> SUFFICES ASSUME NEW n \in Of("drive"), Due(n)'
                 PROVE  /\ pc' = "scan" /\ n < file' =>
                              \E k \in DriveKeys(n) : CountedNext(n, drives'[k])
                        /\ pc' \in {"finish", "answered"} => failed' \/ CountedNext(n, drive')
      OBVIOUS
    <3>1. Due(n) /\ (\A number : Counted(n, number) => CountedNext(n, number))
      BY <2>0, <2>00
    <3>2. ASSUME pc' = "scan", n < file'
          PROVE  \E k \in DriveKeys(n) : CountedNext(n, drives'[k])
      BY <2>D, <3>1, <3>2 DEF CountedInv
    <3>3. ASSUME pc' \in {"finish", "answered"}, ~failed' PROVE CountedNext(n, drive')
      <4>1. pc \in {"finish", "answered"} /\ ~failed
        BY <2>D, <3>3
      <4>2. QED
        BY <2>D, <3>1, <4>1 DEF CountedInv
    <3>4. QED
      BY <3>2, <3>3
  <2>1. CASE BeginRead \/ BeginStatus \/ FindDevice \/ GetTemp \/ Smartctl \/ BuildPage
    <3>1. pc' \notin CpuAnswered \/ FALSE
      BY <2>1, CoreMoves DEF BeginRead, CpuAnswered, CoreSteps
    <3>2. pc' = "scan" => file' = 0
      BY <2>1, CoreMoves DEF BeginRead, locals, ReadInv, CoreSteps
    <3>3. UNCHANGED reply
      BY <2>1, CoreMoves DEF BeginRead, locals
    <3>4. \A n \in Sensor : ~(n < 0)
      BY <2>00
    <3>5. QED
      BY <2>00, <2>R, <3>1, <3>2, <3>3, <3>4, NextCounted DEF CpuAnswered
  <2>2. CASE Drift \/ ConnectTrueNas \/ Login \/ FinishRead \/ UNCHANGED readersVars
    <3>1. /\ UNCHANGED <<reply, cpu, drives, drive>>
          /\ UNCHANGED failed \/ failed' = TRUE
          /\ pc' = "scan" => pc = "scan" /\ UNCHANGED file
          /\ pc' \in CpuAnswered => pc \in CpuAnswered
          /\ pc' \in {"finish", "answered"} => pc \in {"finish", "answered"} \/ failed' = TRUE
      BY <2>2 DEF Drift, ConnectTrueNas, Login, FinishRead, readersVars, vars, locals,
                  CpuAnswered
    <3>2. QED
      BY <2>R, <2>C, <2>D, <3>1, NextCounted
  <2>3. CASE ReadRedfish
    <3>1. \A n \in Of("cpu") : failed' \/ (Due(n)' => CountedNext(n, cpu'))
      <4>1. SUFFICES ASSUME ~failed', NEW n \in Of("cpu"), Due(n)'
                     PROVE  CountedNext(n, cpu')
        OBVIOUS
      <4>8. PICK silent \in SUBSET Of("cpu") : \E strange \in SUBSET (Of("cpu") \ silent) :
              /\ cpu' = Largest(Answered(Of("cpu"), silent, strange), Of("cpu"))
              /\ Remember(silent, strange)
        BY <2>3, <4>1 DEF ReadRedfish
      <4>2. PICK strange \in SUBSET (Of("cpu") \ silent) :
              /\ cpu' = Largest(Answered(Of("cpu"), silent, strange), Of("cpu"))
              /\ Remember(silent, strange)
        BY <4>8
      <4> DEFINE values == Answered(Of("cpu"), silent, strange)
      <4>3. strange = {} /\ n \notin silent
        BY <4>1, <4>2 DEF Due, Remember
      <4>4. /\ values[n] = truth[n] /\ truth[n] \in Int
            /\ \A m \in Of("cpu") : values[m] # NonFinite
        BY <1>0, <2>00, <4>3, SensorConstants DEF Answered
      <4>5. values \in [Of("cpu") -> Number]
        BY <1>0, AnsweredTyped
      <4>6. cpu' \in Int /\ truth[n] <= cpu'
        <5>1. cpu' = Largest(values, Of("cpu")) /\ truth[n] # None
          BY <4>2, <4>4, SensorConstants
        <5> HIDE DEF values
        <5>2. QED
          BY <4>4, <4>5, <5>1, KindsAreSensors, LargestReading
      <4>7. QED
        BY <1>0, <2>0, <2>00, <4>6 DEF CountedNext
    <3>2. pc' = "connect" /\ UNCHANGED reply
      BY <2>3 DEF ReadRedfish
    <3>3. QED
      BY <2>R, <3>1, <3>2, NextCounted
  <2>4. CASE AskTemperatures
    <3>1. /\ UNCHANGED <<cpu, failed, drives, drive>> /\ pc = "temperatures" /\ pc' = "close"
      BY <2>4 DEF AskTemperatures
    <3>2. reply' # None => \A n \in Of("drive") :
             odd' = {} => /\ reply'[n] # NonFinite
                          /\ n \in lost' \/ (reply'[n] \in Int /\ reply'[n] \in during'[n])
      <4>1. CASE UNCHANGED reply
        BY <2>R, <4>1
      <4>2. ASSUME NEW silent \in SUBSET Of("drive"),
                   NEW strange \in SUBSET (Of("drive") \ silent),
                   reply' = Answered(Of("drive"), silent, strange),
                   Remember(silent, strange), odd' = {}, NEW n \in Of("drive")
            PROVE  /\ reply'[n] # NonFinite
                   /\ n \in lost' \/ (reply'[n] \in Int /\ reply'[n] \in during'[n])
        <5>1. strange = {} /\ (n \in silent => n \in lost')
          BY <4>2 DEF Remember
        <5>2. reply'[n] = IF n \in silent THEN None ELSE truth[n]
          BY <4>2, <5>1 DEF Answered
        <5>3. truth[n] \in Int /\ truth[n] \in during'[n]
          BY <1>0, <2>0, <2>00
        <5>4. QED
          BY <5>1, <5>2, <5>3, SensorConstants
      <4>3. QED
        BY <2>4, <4>1, <4>2 DEF AskTemperatures
    <3>3. QED
      BY <2>C, <2>D, <3>1, <3>2, NextCounted DEF CpuAnswered
  <2>5. CASE CloseTrueNas
    <3>1. /\ UNCHANGED <<cpu, drives, reply>> /\ pc = "close" /\ pc' = "finish"
          /\ UNCHANGED failed \/ failed' = TRUE
      BY <2>5 DEF CloseTrueNas
    <3>2. ASSUME NEW n \in Of("drive"), ~failed', Due(n)'
          PROVE  CountedNext(n, drive')
      <4>1. reply # None /\ drive' = Largest(reply, Of("drive")) /\ UNCHANGED history
        BY <2>5, <3>2 DEF CloseTrueNas
      <4>2. odd = {} /\ n \notin lost
        BY <3>2, <4>1 DEF Due, history
      <4>3. /\ \A m \in Of("drive") : reply[m] # NonFinite
            /\ reply[n] \in Int /\ reply[n] \in during[n]
        BY <4>1, <4>2 DEF CountedInv
      <4>4. \A m \in Of("drive") : reply[m] \in Number
        BY <1>0, <4>1 DEF LocalsOK
      <4>5. drive' \in Int /\ reply[n] <= drive'
        BY <4>1, <4>3, <4>4, KindsAreSensors, LargestReading, SensorConstants
      <4>6. QED
        BY <2>0, <2>00, <4>3, <4>5 DEF CountedNext
    <3>3. QED
      BY <2>R, <2>C, <3>1, <3>2, NextCounted DEF CpuAnswered
  <2>6. CASE SkipFile \/ ReadFile
    <3>0. PICK next \in Sensor : next = Min(Unread)
      BY <2>6, FirstUnread DEF SkipFile, ReadFile
    <3>1. /\ \A n \in Sensor : n >= file => n >= next
          /\ file' = next + 1 /\ pc = "scan" /\ pc' = "scan"
          /\ UNCHANGED <<reply, failed, drive>> /\ file \in Nat
      BY <1>0, <2>6, <3>0, FirstUnread DEF SkipFile, ReadFile, LocalsOK
    <3>2. PICK value \in Int : value = Scanned(truth[next])
      BY <1>0, ScannedTyped
    <3>3. \A n \in Sensor : n < file' => n < file \/ n = next
      <4>1. next \in Nat /\ \A n \in Sensor : n \in Nat
        BY <2>00
      <4>2. QED
        BY <3>1, <4>1
    <3>4. CASE SkipFile
      <4>1. \A n \in Sensor : n < file' /\ Due(n)' => n < file
        BY <3>0, <3>3, <3>4 DEF SkipFile, Due
      <4>2. UNCHANGED <<cpu, drives>>
        BY <3>4 DEF SkipFile
      <4>3. \A n \in Of("cpu") : n < file' => failed' \/ (Due(n)' => CountedNext(n, cpu'))
        BY <2>0, <2>00, <3>1, <4>1, <4>2 DEF CountedInv
      <4>4. \A n \in Of("drive") : n < file' /\ Due(n)' =>
              \E k \in DriveKeys(n) : CountedNext(n, drives'[k])
        BY <2>0, <2>00, <3>1, <4>1, <4>2 DEF CountedInv
      <4>5. QED
        BY <2>R, <3>1, <4>3, <4>4, NextCounted DEF CpuAnswered
    <3>5. CASE ReadFile
      <4>0. PICK name \in Names(next) :
              /\ cpu' = IF name.kind = "cpu" THEN RunningMax(cpu, value) ELSE cpu
              /\ IF name.kind = "drive" THEN KeepDrive(name.key, value) ELSE UNCHANGED drives
        BY <3>0, <3>2, <3>5 DEF ReadFile
      <4>1. /\ cpu' = IF name.kind = "cpu" THEN RunningMax(cpu, value) ELSE cpu
            /\ IF name.kind = "drive" THEN drives' = [drives EXCEPT ![name.key] = value]
                                      ELSE UNCHANGED drives
            /\ name.kind = "drive" => name.key \in DriveKeys(next) /\ name.key \in Keys
        BY <4>0, NamesOfSensor DEF KeepDrive
      <4>2. ASSUME Due(next)'
            PROVE  \E t \in during'[next] : t \in Int /\ t > LargestDegrees /\ t <= value
        <5>1. truth[next] \in during'[next] /\ truth[next] \in Int
          BY <1>0, <2>0
        <5>2. truth[next] > LargestDegrees
          BY <4>2, <5>1 DEF Due
        <5>3. QED
          BY <3>2, <5>1, <5>2, ScannedAbove
      <4>3. ASSUME NEW n \in Of("cpu"), n < file', Due(n)', ~failed
            PROVE  CountedNext(n, cpu')
        <5>1. n < file => Counted(n, cpu)
          BY <2>0, <2>00, <3>1, <4>3 DEF CountedInv
        <5>2. CASE name.kind # "cpu"
          <6>1. n < file
            <7>1. n = next => name.kind = "cpu"
              BY <4>3, KindIsKnown DEF Of
            <7>2. QED
              BY <2>00, <3>3, <4>3, <5>2, <7>1
          <6>2. QED
            BY <2>0, <2>00, <4>1, <5>1, <5>2, <6>1
        <5>3. CASE name.kind = "cpu"
          <6>1. PICK t \in during'[n] : /\ t \in Int /\ t > LargestDegrees
                                        /\ (cpu \in Int /\ t <= cpu) \/ t <= value
            <7>1. CASE n < file
              <8>1. cpu \in Int /\ \E t \in during[n] : t <= cpu
                BY <5>1, <7>1 DEF Counted
              <8>2. PICK t \in during[n] : t <= cpu
                BY <8>1
              <8>3. t \in during'[n] /\ t \in Int
                BY <1>0, <2>0, <2>00, <8>2 DEF LocalsOK
              <8>4. QED
                BY <4>3, <8>1, <8>2, <8>3 DEF Due
            <7>2. CASE n = next
              BY <4>2, <4>3, <7>2
            <7>3. QED
              BY <2>00, <3>3, <4>3, <7>1, <7>2
          <6>2. cpu' = RunningMax(cpu, value)
            BY <4>1, <5>3
          <6>3. cpu \in Int \cup {None}
            BY <3>1 DEF ReadInv
          <6>4. cpu' \in Int /\ t <= cpu'
            BY <3>2, <6>1, <6>2, <6>3, RunningMaxCounts
          <6>5. QED
            BY <6>1, <6>4 DEF CountedNext
        <5>4. QED
          BY <5>2, <5>3
      <4>4. ASSUME NEW n \in Of("drive"), n < file', Due(n)'
            PROVE  \E k \in DriveKeys(n) : CountedNext(n, drives'[k])
        <5>0. drives \in [Keys -> Int \cup {None}] /\ DriveKeys(n) \subseteq Keys
          BY <1>0, <2>00 DEF Keys, LocalsOK
        <5>1. n < file => \E k \in DriveKeys(n) : Counted(n, drives[k])
          BY <2>0, <2>00, <3>1, <4>4 DEF CountedInv
        <5>2. CASE n = next
          <6>1. name.kind = "drive"
            BY <4>4, <5>2, KindIsKnown DEF Of
          <6>2. drives'[name.key] = value /\ name.key \in DriveKeys(n)
            BY <4>1, <5>0, <5>2, <6>1
          <6>3. QED
            BY <3>2, <4>2, <4>4, <5>2, <6>2 DEF CountedNext
        <5>3. CASE n # next
          <6>1. PICK k \in DriveKeys(n) : Counted(n, drives[k])
            BY <2>00, <3>3, <4>4, <5>1, <5>3
          <6>2. drives'[k] = drives[k]
            <7>1. CASE name.kind = "drive"
              <8>1. name.key # k
                BY <2>00, <4>1, <5>3, <6>1, <7>1 DEF DrivesAreNamed
              <8>2. QED
                BY <4>1, <5>0, <6>1, <7>1, <8>1
            <7>2. QED
              BY <4>1, <7>1
          <6>3. QED
            BY <2>0, <2>00, <6>1, <6>2
        <5>4. QED
          BY <5>2, <5>3
      <4>5. QED
        BY <2>R, <3>1, <4>1, <4>3, <4>4, NextCounted DEF CpuAnswered
    <3>6. QED
      BY <2>6, <3>4, <3>5
  <2>7. CASE EndScan
    <3>1. /\ UNCHANGED <<cpu, failed, reply>> /\ pc = "scan" /\ pc' = "finish"
          /\ Unread = {} /\ drive' = LargestDrive
      BY <2>7 DEF EndScan
    <3>2. ASSUME NEW n \in Of("drive"), Due(n)'
          PROVE  CountedNext(n, drive')
      <4>1. n < file
        <5>1. file \in Nat /\ n \in Nat /\ n \in Sensor
          BY <1>0, <2>00 DEF LocalsOK
        <5>2. QED
          BY <3>1, <5>1 DEF Unread
      <4>2. PICK k \in DriveKeys(n) : Counted(n, drives[k])
        BY <2>0, <2>00, <3>1, <3>2, <4>1 DEF CountedInv
      <4>3. PICK t \in during[n] : t <= drives[k]
        BY <4>2 DEF Counted
      <4>4. drives[k] \in Int /\ t \in Int /\ t \in during'[n]
        BY <1>0, <2>0, <2>00, <4>2, <4>3 DEF Counted, LocalsOK
      <4>5. drive' \in Int /\ drives[k] <= drive'
        <5>1. k \in Keys
          BY <2>00 DEF Keys
        <5>2. QED
          BY <1>0, <3>1, <4>4, <5>1, LargestDriveTyped, SensorConstants DEF LocalsOK
      <4>6. QED
        BY <4>3, <4>4, <4>5 DEF CountedNext
    <3>3. QED
      BY <2>R, <2>C, <3>1, <3>2, NextCounted
  <2>8. QED
    BY <1>3, <2>1, <2>2, <2>3, <2>4, <2>5, <2>6, <2>7
       DEF ReadersNext, Next, TakeAnswer, TakePage
<1>4. QED
  BY <1>2, <1>3

(* No sensor hides another, for any number of sensors: while every number  *)
(* is finite, every drive has keys of its own and every required sensor is *)
(* on a chip whose name tells its kind, a sensor that is too hot           *)
(* throughout the read makes the status hot or incomplete, and one above   *)
(* its recovery threshold keeps an incident open, whichever labels could   *)
(* be read.                                                                *)
THEOREM HotSensorsCount ==
  ASSUME DrivesAreNamed, ChipsTellKinds
  PROVE  ReadersSpec => []NoSensorHidden
<1>1. TypeInv /\ ReadInv /\ CountedInv => NoSensorHidden
  <2> SUFFICES ASSUME TypeInv, ReadInv, CountedInv, answer # None, odd = {}
               PROVE  /\ \A n \in Of("cpu") :
                          /\ HeldAbove(n, HotCpu) => Hot(answer) \/ SensorFailure(answer)
                          /\ HeldAbove(n, RecoverCpu) => ~Recovered(answer)
                      /\ \A n \in Of("drive") :
                          /\ HeldAbove(n, HotDrive) => Hot(answer) \/ SensorFailure(answer)
                          /\ HeldAbove(n, RecoverDrive) => ~Recovered(answer)
    BY DEF NoSensorHidden
  <2>1. /\ pc = "answered" /\ answer.cpu = cpu /\ answer.drive = drive
        /\ failed => SensorFailure(answer)
    BY AnswerIsRead
  <2>2. SensorFailure(answer) => ~Recovered(answer)
    BY SensorConstants DEF SensorFailure, Recovered, AtMost
  <2>3. ASSUME NEW n \in Sensor, NEW number, NEW threshold \in Int,
               LargestDegrees <= threshold, HeldAbove(n, threshold),
               Due(n) => Counted(n, number)
        PROVE  number \in Int /\ number > threshold
    <3>1. /\ n \notin lost
          /\ \A t \in during[n] : t \in Int /\ t > threshold /\ t > LargestDegrees
      BY <2>3, SensorConstants
         DEF HeldAbove, TypeInv, ReadersTypeOK, LocalsOK, LargestDegrees
    <3>2. Counted(n, number)
      BY <2>3, <3>1 DEF Due
    <3>3. QED
      BY <2>3, <3>1, <3>2 DEF Counted
  <2>4. /\ LargestDegrees <= HotCpu /\ LargestDegrees <= HotDrive
        /\ LargestDegrees <= RecoverCpu /\ LargestDegrees <= RecoverDrive
        /\ HotCpu \in Int /\ HotDrive \in Int /\ RecoverCpu \in Int /\ RecoverDrive \in Int
    BY SensorConstants DEF LargestDegrees
  <2>5. ASSUME NEW n \in Of("cpu"), ~failed
        PROVE  /\ HeldAbove(n, HotCpu) => Hot(answer)
               /\ HeldAbove(n, RecoverCpu) => ~Recovered(answer)
    <3>1. n \in Sensor /\ (Due(n) => Counted(n, cpu))
      BY <2>1, <2>5, KindsAreSensors DEF CountedInv, CpuAnswered
    <3>2. HeldAbove(n, HotCpu) => cpu \in Int /\ cpu > HotCpu
      BY <2>3, <2>4, <3>1
    <3>3. HeldAbove(n, RecoverCpu) => cpu \in Int /\ cpu > RecoverCpu
      BY <2>3, <2>4, <3>1
    <3>4. QED
      BY <2>1, <2>4, <3>2, <3>3 DEF Hot, IsHot, Recovered, AtMost
  <2>6. ASSUME NEW n \in Of("drive"), ~failed
        PROVE  /\ HeldAbove(n, HotDrive) => Hot(answer)
               /\ HeldAbove(n, RecoverDrive) => ~Recovered(answer)
    <3>1. n \in Sensor /\ (Due(n) => Counted(n, drive))
      BY <2>1, <2>6, KindsAreSensors DEF CountedInv
    <3>2. HeldAbove(n, HotDrive) => drive \in Int /\ drive > HotDrive
      BY <2>3, <2>4, <3>1
    <3>3. HeldAbove(n, RecoverDrive) => drive \in Int /\ drive > RecoverDrive
      BY <2>3, <2>4, <3>1
    <3>4. QED
      BY <2>1, <2>4, <3>2, <3>3 DEF Hot, IsHot, Recovered, AtMost
  <2>7. QED
    BY <2>1, <2>2, <2>5, <2>6
<1>2. DrivesAreNamed /\ ChipsTellKinds
  OBVIOUS
<1>3. TypeInv /\ ReadInv /\ BackedInv /\ CountedInv /\ [ReadersNext]_readersVars
        => CountedInv'
  BY <1>2, CountedInductive
<1>4. QED
  BY <1>1, <1>3, InitTypes, TypeInductive, InitRead, ReadInductive, InitBacked,
     BackedInductive, InitCounted, PTL DEF ReadersSpec

-----------------------------------------------------------------------------
(* What the core shows without the agent.                                  *)

Measured(s, number) ==
    \E n \in CountsAs(Measures[s]) : \E t \in during[n] : number \in {t, Scanned(t)}

MeasuredNext(s, number) ==
    \E n \in CountsAs(Measures[s]) : \E t \in during'[n] : number \in {t, Scanned(t)}

(* Nothing is to be expected of source s: it has no device, or lost one.   *)
Excused(s) == Devices(s) = {} \/ Devices(s) \cap lost # {}

ExcusedNext(s) == Devices(s) = {} \/ Devices(s) \cap lost' # {}

(* Source s has been read.                                                 *)
Passed(s) ==
    \/ pc \in {"page", "shown"} /\ ~raised
    \/ pc \in {"find", "get", "smart"} /\ source = "nvme" /\ s = "cpu"
    \/ pc \in {"find", "get", "smart"} /\ source = "hdd" /\ s \in {"cpu", "nvme"}

ShownInv ==
    /\ pc \in AgentSteps => shown = NothingShown
    /\ pc # "shown" => page = None
    /\ page # None => page = PageOf(shown, raised)
    /\ \A s \in Sources : shown[s] # None => Measured(s, shown[s])
    /\ \A s \in Sources : Passed(s) => Excused(s) \/ shown[s] # None
    /\ pc = "smart" => Excused(source)

LEMMA NextShown ==
  ASSUME pc' \in AgentSteps => shown' = NothingShown,
         pc' # "shown" => page' = None,
         page' # None => page' = PageOf(shown', raised'),
         \A s \in Sources : shown'[s] # None => MeasuredNext(s, shown'[s]),
         \A s \in Sources : Passed(s)' => ExcusedNext(s) \/ shown'[s] # None,
         pc' = "smart" => ExcusedNext(source')
  PROVE  ShownInv'
BY DEF ShownInv, Measured, MeasuredNext, Excused, ExcusedNext, PageOf

LEMMA NothingIsShown ==
  ASSUME pc' \in AgentSteps, shown' = NothingShown, page' = None PROVE ShownInv'
<1>1. pc' \notin CoreSteps
  BY DEF AgentSteps, CoreSteps
<1>2. QED
  BY <1>1, NextShown DEF NothingShown, Passed, CoreSteps

LEMMA InitShown == ReadersInit => ShownInv
BY DEF ReadersInit, SourcesInit, NoRequest, ShownInv, NothingShown, Passed

(* While the core reads, the agent rests, and temperatures drift.          *)
LEMMA AgentKeepsShown ==
  TypeInv /\ ShownInv /\ Next /\ UNCHANGED request => ShownInv'
<1> SUFFICES ASSUME TypeInv, ShownInv, Next, UNCHANGED request PROVE ShownInv'
  OBVIOUS
<1>1. CASE pc' \in AgentSteps
  <2>1. pc \in AgentSteps
    BY <1>1 DEF Next, BeginRead, Drift, ReadRedfish, ConnectTrueNas, Login, AskTemperatures,
                CloseTrueNas, SkipFile, ReadFile, EndScan, FinishRead, TakeAnswer, AgentSteps
  <2>2. QED
    BY <1>1, <2>1, NothingIsShown DEF ShownInv, request, AgentSteps
<1>2. CASE pc' \notin AgentSteps
  <2>1. Drift
    BY <1>2 DEF Next, BeginRead, ReadRedfish, ConnectTrueNas, Login, AskTemperatures,
                CloseTrueNas, SkipFile, ReadFile, EndScan, FinishRead, TakeAnswer, AgentSteps
  <2>2. UNCHANGED <<pc, lost, request>> /\ \A n \in Sensor : during[n] \subseteq during'[n]
    BY <1>2, <2>1 DEF Drift, AgentSteps, TypeInv, ReadersTypeOK, LocalsOK
  <2>3. \A s \in Sources : shown'[s] # None => MeasuredNext(s, shown'[s])
    BY <2>2, CountsAsSensors DEF ShownInv, Measured, MeasuredNext, request
  <2>4. \A s : (Passed(s)' <=> Passed(s)) /\ (ExcusedNext(s) <=> Excused(s))
    BY <2>2 DEF Passed, Excused, ExcusedNext, request
  <2>5. \A s \in Sources : Passed(s)' => ExcusedNext(s) \/ shown'[s] # None
    BY <2>2, <2>4 DEF ShownInv, request
  <2>6. pc' = "smart" => ExcusedNext(source')
    BY <2>2, <2>4 DEF ShownInv, request
  <2>7. QED
    BY <1>2, <2>2, <2>3, <2>5, <2>6, NextShown DEF ShownInv, request
<1>3. QED
  BY <1>1, <1>2

(* A step of the core in the midst of its reading.                         *)
CoreReads ==
    /\ pc \in {"find", "get", "smart"}
    /\ UNCHANGED <<during, page>> /\ lost \subseteq lost'

LEMMA ExcusesStay ==
  ASSUME lost \subseteq lost' PROVE \A s : Excused(s) => ExcusedNext(s)
BY DEF Excused, ExcusedNext

LEMMA ShowKeeps ==
  ASSUME TypeInv, ShownInv, CoreReads, NEW value \in Int \cup {None}, Show(value),
         IF value = None THEN ExcusedNext(source) ELSE MeasuredNext(source, value)
  PROVE  ShownInv'
<1>1. /\ source \in Sources /\ shown \in [Sources -> Int \cup {None}]
      /\ page = None /\ page' = None /\ pc' \in {"find", "page"}
      /\ pc' \notin AgentSteps
      /\ shown' = [shown EXCEPT ![source] = value]
  BY DEF TypeInv, ReadersTypeOK, RequestInv, ShownInv, CoreReads, Show, AgentSteps
<1>2. \A s \in Sources : shown'[s] = IF s = source THEN value ELSE shown[s]
  BY <1>1
<1>3. \A s \in Sources : shown'[s] # None => MeasuredNext(s, shown'[s])
  BY <1>2 DEF ShownInv, CoreReads, Measured, MeasuredNext
<1>4. \A s \in Sources : Passed(s)' => s = source \/ Passed(s)
  BY <1>1 DEF Show, Passed, CoreReads, NextSource, Sources
<1>5. \A s \in Sources : Passed(s)' => ExcusedNext(s) \/ shown'[s] # None
  BY <1>2, <1>4, ExcusesStay DEF ShownInv, CoreReads
<1>6. QED
  BY <1>1, <1>3, <1>5, NextShown

LEMMA MissedKeeps ==
  ASSUME TypeInv, ShownInv, CoreReads, Missed, labelled \/ ExcusedNext(source)
  PROVE  ShownInv'
<1>1. /\ source \in Sources /\ labelled \in BOOLEAN /\ page = None /\ page' = None
      /\ labelled => source = "cpu"
  BY DEF TypeInv, ReadersTypeOK, RequestInv, ShownInv, CoreReads
<1>2. CASE source = "cpu" /\ ~labelled
  BY <1>2, ShowKeeps DEF Missed
<1>3. CASE ~(source = "cpu" /\ ~labelled)
  <2>1. /\ UNCHANGED <<source, shown>> /\ pc' \in {"find", "smart"}
        /\ pc' = "smart" => ExcusedNext(source)
    BY <1>1, <1>3 DEF Missed
  <2>2. pc' \notin AgentSteps
    BY <2>1 DEF AgentSteps
  <2>3. \A s \in Sources : shown'[s] # None => MeasuredNext(s, shown'[s])
    BY <2>1 DEF ShownInv, CoreReads, Measured, MeasuredNext
  <2>4. \A s \in Sources : Passed(s)' => Passed(s)
    BY <2>1 DEF Passed, CoreReads
  <2>5. \A s \in Sources : Passed(s)' => ExcusedNext(s) \/ shown'[s] # None
    BY <2>1, <2>4, ExcusesStay DEF ShownInv, CoreReads
  <2>6. QED
    BY <1>1, <2>1, <2>2, <2>3, <2>5, NextShown
<1>4. QED
  BY <1>2, <1>3

LEMMA CoreKeepsShown ==
  TypeInv /\ BackedInv /\ ShownInv
    /\ (BeginStatus \/ FindDevice \/ GetTemp \/ Smartctl \/ BuildPage \/ TakePage)
    => ShownInv'
<1> SUFFICES ASSUME TypeInv, BackedInv, ShownInv,
                    BeginStatus \/ FindDevice \/ GetTemp \/ Smartctl \/ BuildPage \/ TakePage
             PROVE  ShownInv'
  OBVIOUS
<1>0. /\ \A n \in Sensor : truth[n] \in Int /\ truth[n] \in during[n]
      /\ \A s : /\ Devices(s) \subseteq Sensor
                /\ Devices(s) \subseteq CountsAs(Measures[s])
                /\ Of(Measures[s]) \subseteq Sensor
                /\ Of(Measures[s]) \subseteq CountsAs(Measures[s])
  BY SensorConstants, KindsAreSensors, CountsAsSensors, DevicesCount
     DEF TypeInv, ReadersTypeOK, LocalsOK, BackedInv
<1>1. CASE BeginStatus
  <2>1. /\ shown' = NothingShown /\ page' = None /\ pc' = "find" /\ source' = "cpu"
    BY <1>1 DEF BeginStatus, ShownInv, AgentSteps
  <2>2. pc' \notin AgentSteps
    BY <2>1 DEF AgentSteps
  <2>3. \A s \in Sources : shown'[s] = None /\ ~Passed(s)'
    BY <2>1 DEF NothingShown, Passed
  <2>4. QED
    BY <2>1, <2>2, <2>3, NextShown
<1>2. CASE FindDevice
  <2>1. PICK unseen \in SUBSET Devices(source) :
          LET seen == Devices(source) \ unseen
          IN  /\ lost' = lost \cup unseen
              /\ IF seen = {} THEN Missed /\ UNCHANGED device
                 ELSE /\ device' = Best(seen) /\ pc' = "get"
                      /\ UNCHANGED <<source, labelled, shown>>
    BY <1>2 DEF FindDevice
  <2>2. CoreReads /\ page = None /\ page' = None
    BY <1>2, <2>1 DEF FindDevice, CoreReads, AgentRests, ShownInv
  <2>3. CASE Devices(source) \ unseen = {}
    <3>1. ExcusedNext(source)
      BY <2>1, <2>3 DEF ExcusedNext
    <3>2. QED
      BY <2>1, <2>2, <2>3, <3>1, MissedKeeps
  <2>4. CASE Devices(source) \ unseen # {}
    <3>1. UNCHANGED <<source, shown>> /\ pc' = "get" /\ pc' \notin AgentSteps
      BY <2>1, <2>4 DEF AgentSteps
    <3>2. \A s \in Sources : shown'[s] # None => MeasuredNext(s, shown'[s])
      BY <2>2, <3>1 DEF ShownInv, CoreReads, Measured, MeasuredNext
    <3>3. \A s \in Sources : Passed(s)' => Passed(s)
      BY <2>2, <3>1 DEF Passed, CoreReads
    <3>4. \A s \in Sources : Passed(s)' => ExcusedNext(s) \/ shown'[s] # None
      BY <2>2, <3>1, <3>3, ExcusesStay DEF ShownInv, CoreReads
    <3>5. QED
      BY <2>2, <3>1, <3>2, <3>4, NextShown
  <2>5. QED
    BY <2>3, <2>4
<1>3. CASE GetTemp
  <2>1. /\ device \in Devices(source) /\ device \in Sensor
        /\ UNCHANGED <<during, page>> /\ pc = "get"
    BY <1>0, <1>3 DEF GetTemp, AgentRests, TypeInv, RequestInv
  <2>2. CASE Missed /\ lost' = lost \cup {device}
    <3>1. ExcusedNext(source) /\ CoreReads
      BY <2>1, <2>2 DEF ExcusedNext, CoreReads
    <3>2. QED
      BY <2>2, <3>1, MissedKeeps
  <2>3. CASE Missed /\ labelled /\ UNCHANGED lost
    BY <2>1, <2>3, MissedKeeps DEF CoreReads
  <2>4. CASE Show(Scanned(truth[device])) /\ UNCHANGED lost
    <3>1. PICK value \in Int : value = Scanned(truth[device])
      BY <1>0, <2>1, ScannedTyped
    <3>2. MeasuredNext(source, value)
      BY <1>0, <2>1, <3>1 DEF MeasuredNext
    <3>3. value # None /\ CoreReads
      BY <2>1, <2>4, SensorConstants DEF CoreReads
    <3>4. QED
      BY <2>4, <3>1, <3>2, <3>3, ShowKeeps
  <2>5. QED
    BY <1>3, <2>2, <2>3, <2>4 DEF GetTemp
<1>4. CASE Smartctl
  <2>1. CoreReads /\ ExcusedNext(source)
    BY <1>4, ExcusesStay DEF Smartctl, CoreReads, AgentRests, ShownInv
  <2>2. CASE Show(None)
    BY <2>1, <2>2, ShowKeeps
  <2>3. ASSUME NEW n \in Of(Measures[source]), Show(truth[n])
        PROVE  ShownInv'
    <3>1. PICK value \in Int : value = truth[n]
      BY <1>0
    <3>2. MeasuredNext(source, value) /\ value # None
      BY <1>0, <2>1, <3>1, SensorConstants DEF MeasuredNext, CoreReads
    <3>3. QED
      BY <2>1, <2>3, <3>1, <3>2, ShowKeeps
  <2>4. CASE raised' = TRUE /\ pc' = "page" /\ source' = "none" /\ UNCHANGED shown
    <3>1. pc' \notin AgentSteps /\ page' = None
      BY <1>4, <2>1, <2>4 DEF AgentSteps, CoreReads, ShownInv
    <3>2. \A s \in Sources : shown'[s] # None => MeasuredNext(s, shown'[s])
      BY <2>1, <2>4 DEF ShownInv, CoreReads, Measured, MeasuredNext
    <3>3. \A s \in Sources : ~Passed(s)'
      BY <2>4 DEF Passed
    <3>4. QED
      BY <2>4, <3>1, <3>2, <3>3, NextShown
  <2>5. QED
    BY <1>4, <2>2, <2>3, <2>4 DEF Smartctl
<1>5. CASE BuildPage
  <2>1. /\ pc = "page" /\ pc' = "shown" /\ pc' \notin AgentSteps
        /\ page' = PageOf(shown', raised')
        /\ UNCHANGED <<during, shown, raised, lost, source>>
    BY <1>5 DEF BuildPage, AgentRests, AgentSteps, PageOf
  <2>2. \A s \in Sources : shown'[s] # None => MeasuredNext(s, shown'[s])
    BY <2>1 DEF ShownInv, Measured, MeasuredNext
  <2>3. \A s \in Sources : Passed(s)' => ExcusedNext(s) \/ shown'[s] # None
    BY <2>1, ExcusesStay DEF ShownInv, Passed
  <2>4. QED
    BY <2>1, <2>2, <2>3, NextShown
<1>6. CASE TakePage
  BY <1>6, NothingIsShown DEF TakePage, AgentSteps
<1>7. QED
  BY <1>1, <1>2, <1>3, <1>4, <1>5, <1>6

LEMMA ShownInductive ==
  TypeInv /\ BackedInv /\ ShownInv /\ [ReadersNext]_readersVars => ShownInv'
<1>1. CASE UNCHANGED readersVars
  BY <1>1 DEF readersVars, vars, history, request, ShownInv, Measured, Passed, Excused, PageOf
<1>2. QED
  BY <1>1, AgentKeepsShown, CoreKeepsShown DEF ReadersNext

LEMMA ShownHolds == ReadersSpec => [](TypeInv /\ ShownInv)
BY InitTypes, TypeInductive, InitRead, ReadInductive, InitBacked, BackedInductive,
   InitShown, ShownInductive, PTL DEF ReadersSpec

(* Without the agent the core shows numbers that a sensor of their kind    *)
(* had during the request, or only zeros, and those only when no source    *)
(* gave a number or the reading of one raised.                             *)
THEOREM ShowsWhatWasMeasured == ReadersSpec => []ShownIsMeasured
<1>1. ShownInv => ShownIsMeasured
  <2> SUFFICES ASSUME ShownInv, page # None
               PROVE  \/ page = Placeholder /\ (shown = NothingShown \/ raised)
                      \/ \A s \in Sources : page[s] # None => Measured(s, page[s])
    BY DEF ShownIsMeasured, Measured
  <2>1. page = PageOf(shown, raised) /\ \A s \in Sources : shown[s] # None => Measured(s, shown[s])
    BY DEF ShownInv
  <2>2. QED
    BY <2>1 DEF PageOf
<1>2. QED
  BY <1>1, ShownHolds, PTL

(* And unless the reading of one raised, it misses no source whose devices *)
(* were all readable, and shows the number that source gave.               *)
THEOREM ShowsWhatIsReadable == ReadersSpec => []ReadableIsShown
<1>1. ShownInv => ReadableIsShown
  <2> SUFFICES ASSUME ShownInv, page # None, ~raised,
                      NEW s \in Sources, ~Excused(s)
               PROVE  page[s] = shown[s] /\ shown[s] # None
    BY DEF ReadableIsShown, Excused
  <2>1. page = PageOf(shown, raised) /\ shown[s] # None
    BY DEF ShownInv, Passed
  <2>2. shown # NothingShown
    BY <2>1 DEF NothingShown
  <2>3. QED
    BY <2>1, <2>2 DEF PageOf
<1>2. QED
  BY <1>1, ShownHolds, PTL

=============================================================================
