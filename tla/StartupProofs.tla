--------------------------- MODULE StartupProofs ---------------------------
(***************************************************************************)
(* Theorems about Startup, for every environment and every set of calls    *)
(* that may fail: the order of main's calls sets each package variable     *)
(* before main or a pipeline uses it.                                      *)
(***************************************************************************)
EXTENDS Startup, SequenceTheorems, TLAPS

\* What LoadConfig may make of the environment.
Readings ==
  {getEnv(Variables[n], raw) : n \in DOMAIN Variables,
                               raw \in UNION {Environment[Variables[k]] : k \in DOMAIN Variables}}

TypeInv ==
  /\ settings \in Seq(Readings)
  /\ Len(settings) \in 0..Len(Variables)
  /\ \A n \in DOMAIN settings : settings[n] # "bad"
  /\ pc \in 1..13
  /\ defined \subseteq UNION {Sets(s) : s \in ToSet(Steps)}
  /\ address \in {"zero", "contract"}
  /\ routine \in [AllRoutines -> {"off", "starting", "running"}]
  /\ process \in {"alive", "exited", "panicked"}

\* The steps that main has passed have set their variables.
DefinedInv == \A i \in 1..12 : i < pc => Sets(Steps[i]) \subseteq defined

\* No pipeline is started before main's last step.
RoutineInv == \A r \in AllRoutines : routine[r] # "off" => pc = 13

Inv == TypeInv /\ DefinedInv /\ RoutineInv
-----------------------------------------------------------------------------
(***************************************************************************)
(* The order of main's calls.                                              *)
(***************************************************************************)
LEMMA StepsType == Len(Steps) = 12 /\ DOMAIN Steps = 1..12 /\ Len(Variables) = 15
                   /\ DOMAIN Variables = 1..15
BY DEF Steps, Variables

LEMMA StepNames ==
  /\ Steps[1] = "LoadConfig"                /\ Steps[2] = "RPCHelper"
  /\ Steps[3] = "Client"                    /\ Steps[4] = "Instance"
  /\ Steps[5] = "SnapshotterStateAddress"   /\ Steps[6] = "SnapshotterStateInstance"
  /\ Steps[7] = "ContractABI"               /\ Steps[8] = "SnapshotterStateContractABI"
  /\ Steps[9] = "RedisClient"               /\ Steps[10] = "StaticStateVariables"
  /\ Steps[11] = "EventProcessor"           /\ Steps[12] = "Routines"
BY DEF Steps

LEMMA RoutineNames ==
  AllRoutines = {"MonitorEvents", "DynamicStateSync", "StaticStateSync", "SyncAllSlots"}
BY DEF AllRoutines, Intervals

LEMMA SetsAt ==
  /\ Sets(Steps[1]) = {"SettingsObj"}
  /\ Sets(Steps[3]) = {"Client", "ContractBackend"}
  /\ \A i \in {2, 4, 5, 6, 7, 8, 9, 10, 11, 12} : Sets(Steps[i]) = {Steps[i]}
BY StepNames DEF Sets

\* What the steps before k set is enough for step k ...
LEMMA StepsInOrder ==
  ASSUME NEW D, NEW k \in 1..12, \A i \in 1..12 : i < k => Sets(Steps[i]) \subseteq D
  PROVE  Needs(Steps[k]) \subseteq D
<1>1. k > 1 => "SettingsObj" \in D
  BY SetsAt
<1>2. k > 2 => "RPCHelper" \in D
  BY SetsAt, StepNames
<1>3. k > 3 => "ContractBackend" \in D
  BY SetsAt
<1>4. k > 4 => "Instance" \in D
  BY SetsAt, StepNames
<1>5. k > 5 => "SnapshotterStateAddress" \in D
  BY SetsAt, StepNames
<1>6. k > 9 => "RedisClient" \in D
  BY SetsAt, StepNames
<1>7. k > 11 => "EventProcessor" \in D
  BY SetsAt, StepNames
<1>8. CASE k \in {1, 7, 8, 11}
  <2>1. Needs(Steps[k]) = {}
    BY <1>8, StepNames DEF Needs
  <2> QED  BY <2>1
<1>9. CASE k \in {2, 3, 9}
  BY <1>1, <1>2, <1>9, StepNames DEF Needs
<1>10. CASE k \in {4, 5, 6}
  BY <1>1, <1>3, <1>4, <1>5, <1>10, StepNames DEF Needs
<1>11. CASE k = 10
  BY <1>1, <1>4, <1>6, <1>11, StepNames DEF Needs
<1>12. CASE k = 12
  BY <1>1, <1>7, <1>12, StepNames DEF Needs
<1> QED  BY <1>8, <1>9, <1>10, <1>11, <1>12

\* ... and what all steps set is enough for the pipelines.
LEMMA RoutinesAfterAll ==
  ASSUME NEW D, \A i \in 1..12 : Sets(Steps[i]) \subseteq D, NEW r \in AllRoutines
  PROVE  Needs(r) \subseteq D
<1>1. {"SettingsObj", "RPCHelper", "Instance", "SnapshotterStateInstance", "ContractABI",
       "RedisClient"} \subseteq D
  BY SetsAt, StepNames
<1>2. CASE r = "MonitorEvents"
  BY <1>1, <1>2 DEF Needs
<1>3. CASE r = "DynamicStateSync" \/ r = "StaticStateSync"
  BY <1>1, <1>3 DEF Needs
<1>4. CASE r = "SyncAllSlots"
  BY <1>1, <1>4 DEF Needs
<1> QED  BY <1>2, <1>3, <1>4, RoutineNames
-----------------------------------------------------------------------------
LEMMA InitInv == Init => Inv
<1> SUFFICES ASSUME Init PROVE Inv
  OBVIOUS
<1>1. settings \in Seq(Readings) /\ Len(settings) = 0 /\ DOMAIN settings = {}
  BY EmptySeq DEF Init
<1>2. 0 \in 0..Len(Variables) /\ 1 \in 1..13
  BY StepsType
<1>3. TypeInv
  BY <1>1, <1>2 DEF Init, TypeInv
<1>4. DefinedInv /\ RoutineInv
  BY DEF Init, DefinedInv, RoutineInv
<1> QED  BY <1>3, <1>4 DEF Inv

\* A step of main that completes has set its variables and passes on.
LEMMA CompleteStep ==
  ASSUME Inv, NEW step, At(step), Complete(step), UNCHANGED <<settings, process>>,
         address' \in {"zero", "contract"},
         routine' \in [AllRoutines -> {"off", "starting", "running"}],
         step # "Routines" => routine' = routine
  PROVE  Inv'
<1>1. pc \in 1..12 /\ Steps[pc] = step /\ pc' = pc + 1 /\ defined' = defined \union Sets(step)
  BY StepsType DEF At, Complete
<1>2. Sets(step) \subseteq UNION {Sets(s) : s \in ToSet(Steps)}
  BY <1>1, StepsType DEF ToSet
<1>3. TypeInv'
  <2>1. pc' \in 1..13
    BY <1>1
  <2> QED  BY <1>1, <1>2, <2>1 DEF Inv, TypeInv, Readings
<1>4. DefinedInv'
  <2> SUFFICES ASSUME NEW i \in 1..12, i < pc' PROVE Sets(Steps[i]) \subseteq defined'
    BY DEF DefinedInv
  <2>1. CASE i = pc
    BY <1>1, <2>1
  <2>2. CASE i # pc
    <3>1. i < pc
      BY <1>1, <2>2
    <3> QED  BY <1>1, <3>1 DEF Inv, DefinedInv
  <2> QED  BY <2>1, <2>2
<1>5. RoutineInv'
  <2>1. CASE step = "Routines"
    <3>1. pc = 12
      BY <1>1, <2>1, StepNames
    <3> QED  BY <1>1, <3>1 DEF RoutineInv
  <2>2. CASE step # "Routines"
    <3>1. pc # 13
      BY <1>1
    <3> QED  BY <2>2, <3>1 DEF Inv, RoutineInv
  <2> QED  BY <2>1, <2>2
<1> QED  BY <1>3, <1>4, <1>5 DEF Inv

LEMMA FatalStep ==
  ASSUME Inv, Fatal
  PROVE  Inv'
<1>1. process' = "exited" /\ UNCHANGED <<settings, pc, defined, address, routine>>
  BY DEF Fatal
<1>2. TypeInv'
  BY <1>1 DEF Inv, TypeInv, Readings
<1>3. DefinedInv' /\ RoutineInv'
  BY <1>1 DEF Inv, DefinedInv, RoutineInv
<1> QED  BY <1>2, <1>3 DEF Inv

LEMMA ReadVariableStep ==
  ASSUME Inv, ReadVariable
  PROVE  Inv'
<1> DEFINE k == Len(settings) + 1
<1>1. Len(settings) < Len(Variables) /\ Len(settings) \in Nat /\ k \in DOMAIN Variables
  BY StepsType DEF ReadVariable, Inv, TypeInv
<1>2. PICK raw \in Environment[Variables[k]] :
        \/ /\ Accepted(Variables[k], getEnv(Variables[k], raw))
           /\ settings' = Append(settings, getEnv(Variables[k], raw))
           /\ UNCHANGED <<pc, defined, address, routine, process>>
        \/ Fatal
  BY DEF ReadVariable
<1> DEFINE value == getEnv(Variables[k], raw)
<1>3. CASE Fatal
  BY <1>3, FatalStep
<1>4. CASE /\ Accepted(Variables[k], value)
           /\ settings' = Append(settings, value)
           /\ UNCHANGED <<pc, defined, address, routine, process>>
  <2>1. value \in Readings
    BY <1>1 DEF Readings
  <2>2. value # "bad"
    BY <1>4 DEF Accepted
  <2> HIDE DEF value
  <2>3. /\ settings' \in Seq(Readings) /\ Len(settings') = k
        /\ \A n \in 1..Len(settings) : settings'[n] = settings[n]
        /\ settings'[k] = value
    BY <1>4, <2>1, AppendProperties DEF Inv, TypeInv
  <2>4. DOMAIN settings' = 1..k /\ DOMAIN settings = 1..Len(settings)
    BY <2>3, LenProperties DEF Inv, TypeInv
  <2>5. \A n \in DOMAIN settings' : settings'[n] # "bad"
    <3>1. \A n \in 1..k : n \in 1..Len(settings) \/ n = k
      BY <1>1
    <3> QED  BY <2>2, <2>3, <2>4, <3>1 DEF Inv, TypeInv
  <2>6. Len(settings') \in 0..Len(Variables)
    BY <1>1, <2>3, StepsType
  <2>7. TypeInv'
    BY <1>4, <2>3, <2>5, <2>6 DEF Inv, TypeInv, Readings
  <2> QED  BY <1>4, <2>7 DEF Inv, DefinedInv, RoutineInv
<1> QED  BY <1>2, <1>3, <1>4

LEMMA NextInv == Inv /\ [Next]_vars => Inv'
<1> SUFFICES ASSUME Inv, [Next]_vars PROVE Inv'
  OBVIOUS
<1>0. /\ address \in {"zero", "contract"}
      /\ routine \in [AllRoutines -> {"off", "starting", "running"}]
  BY DEF Inv, TypeInv
<1>1. CASE LoadConfigReturns
  BY <1>0, <1>1, CompleteStep DEF LoadConfigReturns
<1>2. ASSUME NEW step, Step(step) PROVE Inv'
  <2>1. CASE Complete(step) /\ UNCHANGED <<settings, address, routine, process>>
    BY <1>0, <1>2, <2>1, CompleteStep DEF Step
  <2>2. CASE Fatal
    BY <2>2, FatalStep
  <2> QED  BY <1>2, <2>1, <2>2 DEF Step
<1>3. CASE FetchSnapshotterState
  BY <1>0, <1>3, CompleteStep DEF FetchSnapshotterState
<1>4. CASE StartRoutines
  <2>1. routine' \in [AllRoutines -> {"off", "starting", "running"}]
    BY <1>4 DEF StartRoutines
  <2> QED  BY <1>0, <1>4, <2>1, CompleteStep DEF StartRoutines
<1>5. ASSUME NEW r \in AllRoutines, NewTicker(r) PROVE Inv'
  <2>1. \/ routine' = [routine EXCEPT ![r] = "running"] /\ process' = process
        \/ routine' = routine /\ process' = "panicked"
    BY <1>5, Zenon DEF NewTicker
  <2>2. routine[r] = "starting" /\ UNCHANGED <<settings, pc, defined, address>>
    BY <1>5 DEF NewTicker
  <2>3. pc = 13
    BY <2>2 DEF Inv, RoutineInv
  <2>4. routine' \in [AllRoutines -> {"off", "starting", "running"}]
    BY <1>0, <2>1
  <2>5. TypeInv'
    BY <2>1, <2>2, <2>4 DEF Inv, TypeInv, Readings
  <2> QED  BY <2>2, <2>3, <2>5 DEF Inv, DefinedInv, RoutineInv
<1>6. CASE UNCHANGED vars
  BY <1>6 DEF vars, Inv, TypeInv, DefinedInv, RoutineInv, Readings
<1> QED  BY <1>1, <1>2, <1>3, <1>4, <1>5, <1>6, ReadVariableStep DEF Next, Main
-----------------------------------------------------------------------------
\* Every variable keeps its type: no setting that could not be parsed gets
\* past LoadConfig.
THEOREM TypeCorrect == Spec => []TypeOK
<1>1. Inv => TypeOK
  BY StepsType DEF Inv, TypeInv, TypeOK
<1> QED  BY <1>1, InitInv, NextInv, PTL DEF Spec

\* Whatever the environment holds and whichever calls fail, nothing that main
\* or a pipeline uses is used before it is set.
THEOREM SetBeforeUse == Spec => []NothingUsedBeforeSet
<1>1. Inv => NothingUsedBeforeSet
  <2> SUFFICES ASSUME Inv PROVE NothingUsedBeforeSet
    OBVIOUS
  <2>1. ASSUME pc \in DOMAIN Steps PROVE Needs(Steps[pc]) \subseteq defined
    BY <2>1, StepsType, StepsInOrder DEF Inv, DefinedInv
  <2>2. ASSUME NEW r \in AllRoutines, routine[r] # "off" PROVE Needs(r) \subseteq defined
    <3>1. pc = 13
      BY <2>2 DEF Inv, RoutineInv
    <3>2. \A i \in 1..12 : Sets(Steps[i]) \subseteq defined
      BY <3>1 DEF Inv, DefinedInv
    <3> QED  BY <3>2, RoutinesAfterAll
  <2> QED  BY <2>1, <2>2 DEF NothingUsedBeforeSet
<1> QED  BY <1>1, InitInv, NextInv, PTL DEF Spec
=============================================================================
