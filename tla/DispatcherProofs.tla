-------------------------- MODULE DispatcherProofs --------------------------
(***************************************************************************)
(* The dispatcher's safety for every set of tasks and every chain          *)
(* (TaskService), and that of the LEDs, the buzzer and the expander        *)
(* register they share with the supply, for every chain of tasks, set of   *)
(* lamps and timing (FrontPanel).  Both add to the same steps of           *)
(* SystemTask: TaskService a history of requests (Spec), FrontPanel what   *)
(* the lamps' handlers do (PanelSpec).                                     *)
(***************************************************************************)
EXTENDS TaskService, FrontPanel, TLAPS

(***************************************************************************)
(* Two facts about a call of TaskCheck make the invariants inductive:      *)
(* until the call has cleared a flag, whatever was pending when it began   *)
(* still is (only ClearFlag lowers a flag), and the branches it has passed *)
(* were not pending when it began.                                         *)
(***************************************************************************)
SeenStillPending ==
    pc \in {"scan", "take"} => \A t \in Task : seen[t] => flag[t]

PassedNotSeen ==
    pc # "eth" => \A i \in 1 .. pos - 1 : ~seen[Chain[i]]

ServiceInv ==
    /\ TypeOK
    /\ NoLostRequest
    /\ SeenStillPending
    /\ PassedNotSeen

(***************************************************************************)
(* A chain position names a task.                                          *)
(***************************************************************************)
LEMMA ChainTask == \A i \in 1 .. Len(Chain) : Chain[i] \in Task
BY ChainAssumption

LEMMA ChainLen == Len(Chain) \in Nat
BY ChainAssumption

LEMMA InitServiceInv == Init => ServiceInv
BY ChainLen DEF Init, TaskInit, ServiceInv, TypeOK,
   TaskTypeOK, NoLostRequest, SeenStillPending, PassedNotSeen

(***************************************************************************)
(* A request, from whatever source, keeps the invariant: it only raises a  *)
(* flag together with its history bit.                                     *)
(***************************************************************************)
LEMMA RaiseKeepsService ==
    ASSUME ServiceInv, NEW t \in Task, TaskSetNew({t}), Note(t),
           UNCHANGED <<pc, pos>>
    PROVE  ServiceInv'
BY DEF ServiceInv, TypeOK, TaskTypeOK, NoLostRequest,
   SeenStillPending, PassedNotSeen, TaskSetNew, Note

LEMMA NextServiceInv == ServiceInv /\ [Next]_vars => ServiceInv'
<1> SUFFICES ASSUME ServiceInv, [Next]_vars
             PROVE  ServiceInv'
  OBVIOUS
<1> USE ChainTask, ChainLen
<1>1. CASE CallTaskCheck /\ seen' = flag /\ UNCHANGED due
  BY <1>1 DEF CallTaskCheck, ServiceInv, TypeOK, TaskTypeOK,
     NoLostRequest, SeenStillPending, PassedNotSeen
<1>2. CASE TestFlag /\ UNCHANGED <<due, seen>>
  <2>1. CASE pos > Len(Chain)
    BY <1>2, <2>1 DEF TestFlag, ServiceInv, TypeOK,
       TaskTypeOK, NoLostRequest, SeenStillPending, PassedNotSeen
  <2>2. CASE ~(pos > Len(Chain)) /\ flag[Chain[pos]]
    BY <1>2, <2>2 DEF TestFlag, ServiceInv, TypeOK,
       TaskTypeOK, NoLostRequest, SeenStillPending, PassedNotSeen
  <2>3. CASE ~(pos > Len(Chain)) /\ ~flag[Chain[pos]]
    <3>1. /\ pos \in 1 .. Len(Chain)
          /\ pc = "scan" /\ pc' = "scan" /\ pos' = pos + 1
          /\ UNCHANGED <<flag, due, seen>>
      BY <1>2, <2>3 DEF TestFlag, ServiceInv, TypeOK, TaskTypeOK
    <3>2. ~seen[Chain[pos]]
      BY <2>3, <3>1 DEF ServiceInv, SeenStillPending
    <3>3. PassedNotSeen'
      BY <3>1, <3>2 DEF ServiceInv, TypeOK, TaskTypeOK, PassedNotSeen
    <3>4. TypeOK' /\ NoLostRequest' /\ SeenStillPending'
      BY <3>1 DEF ServiceInv, TypeOK, TaskTypeOK,
         NoLostRequest, SeenStillPending
    <3> QED BY <3>3, <3>4 DEF ServiceInv
  <2> QED BY <2>1, <2>2, <2>3
<1>3. CASE ClearFlag /\ UNCHANGED <<due, seen>>
  BY <1>3 DEF ClearFlag, ServiceInv, TypeOK, TaskTypeOK,
     NoLostRequest, SeenStillPending, PassedNotSeen
<1>4. CASE CallHandler /\ due' = [due EXCEPT ![Chain[pos]] = FALSE]
           /\ UNCHANGED seen
  BY <1>4 DEF CallHandler, ServiceInv, TypeOK, TaskTypeOK,
     NoLostRequest, SeenStillPending, PassedNotSeen
<1>5. CASE HandlerReturn /\ UNCHANGED <<due, seen>>
  BY <1>5 DEF HandlerReturn, ServiceInv, TypeOK, TaskTypeOK,
     NoLostRequest, SeenStillPending, PassedNotSeen
<1>6. CASE \E t \in IsrTask : Interrupt({t}) /\ Note(t)
  BY <1>6, SourceAssumption, RaiseKeepsService DEF Interrupt
<1>7. CASE \E t \in BsmpTask : \/ EthernetCommand({t}) /\ Note(t)
                               \/ HandlerCommand({t}) /\ Note(t)
  BY <1>7, SourceAssumption, RaiseKeepsService DEF EthernetCommand,
     HandlerCommand
<1>8. CASE UNCHANGED vars
  BY <1>8 DEF vars, ServiceInv, TypeOK, TaskTypeOK,
     NoLostRequest, SeenStillPending, PassedNotSeen
<1> QED
  BY <1>1, <1>2, <1>3, <1>4, <1>5, <1>6, <1>7, <1>8 DEF Next, MainLoop

LEMMA SpecServiceInv == Spec => []ServiceInv
BY InitServiceInv, NextServiceInv, PTL DEF Spec

(***************************************************************************)
(* The variables of the dispatcher keep their types.                       *)
(***************************************************************************)
THEOREM TypeCorrect == Spec => []TypeOK
BY SpecServiceInv, PTL DEF ServiceInv

(***************************************************************************)
(* No TaskSetNew is lost, for any set of tasks, any chain and any sources  *)
(* of requests.                                                            *)
(***************************************************************************)
THEOREM RequestsKept == Spec => []NoLostRequest
BY SpecServiceInv, PTL DEF ServiceInv

(***************************************************************************)
(* TaskCheck never passes a task that was pending when it was called.      *)
(***************************************************************************)
THEOREM PriorityRespected == Spec => []HigherPendingFirst
<1>1. ServiceInv => HigherPendingFirst
  BY DEF ServiceInv, PassedNotSeen, HigherPendingFirst
<1> QED
  BY <1>1, SpecServiceInv, PTL

-----------------------------------------------------------------------------
(***************************************************************************)
(* The register is behind its shadow only while a lamp handler runs: any   *)
(* other handler, though it runs at the same place, must find them equal,  *)
(* or its end would freeze the difference.                                 *)
(***************************************************************************)
WrittenUnlessSwitching ==
    ~(pc = "run" /\ Chain[pos] \in LampTask) => out = StsExpIO2

(***************************************************************************)
(* What a lamp handler is about to write leaves the other outputs alone.   *)
(***************************************************************************)
ShadowUndisturbed == StsExpIO2 \ {Bit(l) : l \in Lamp} = {BUFFER_ENABLE}

PanelInv ==
    /\ PanelTypeOK
    /\ BoardMatchesModes
    /\ SupplyUndisturbed
    /\ WrittenUnlessSwitching
    /\ ShadowUndisturbed

Lamps == {Bit(l) : l \in Lamp}

-----------------------------------------------------------------------------
(***************************************************************************)
(* Each lamp has a bit of its own, none of them that of the buffers.       *)
(***************************************************************************)
LEMMA Bits ==
    /\ \A l \in Lamp : Bit(l) \in 3 .. 5
    /\ \A k, l \in Lamp : Bit(k) = Bit(l) => k = l
BY PanelAssumption DEF Bit

LEMMA InitPanelInv == PanelInit => PanelInv
BY Bits, ChainLen, PanelAssumption DEF PanelInit, TaskInit, PanelInv, PanelTypeOK, TaskTypeOK,
   BoardMatchesModes, SupplyUndisturbed, WrittenUnlessSwitching, ShadowUndisturbed,
   BUFFER_ENABLE

-----------------------------------------------------------------------------
(***************************************************************************)
(* A step of the chain before its handler keeps the invariant.             *)
(***************************************************************************)
LEMMA ScanKeepsPanel ==
    ASSUME PanelInv, CallTaskCheck \/ TestFlag \/ ClearFlag, UNCHANGED lampVars
    PROVE  PanelInv'
<1>1. pc # "run" /\ pc' # "run"
  BY DEF CallTaskCheck, TestFlag, ClearFlag
<1>2. TaskTypeOK'
  <2>1. CASE CallTaskCheck
    BY <2>1, ChainLen DEF PanelInv, PanelTypeOK, TaskTypeOK, CallTaskCheck
  <2>2. CASE TestFlag
    <3>1. Len(Chain) \in Nat /\ pos \in 1 .. Len(Chain) + 1 /\ flag' = flag
      BY <2>2, ChainLen DEF PanelInv, PanelTypeOK, TaskTypeOK, TestFlag
    <3>2. CASE pos > Len(Chain)
      BY <2>2, <3>1, <3>2 DEF PanelInv, PanelTypeOK, TaskTypeOK, TestFlag
    <3>3. CASE ~(pos > Len(Chain)) /\ flag[Chain[pos]]
      BY <2>2, <3>1, <3>3 DEF PanelInv, PanelTypeOK, TaskTypeOK, TestFlag
    <3>4. CASE ~(pos > Len(Chain)) /\ ~flag[Chain[pos]]
      BY <2>2, <3>1, <3>4 DEF PanelInv, PanelTypeOK, TaskTypeOK, TestFlag
    <3> QED BY <3>2, <3>3, <3>4
  <2>3. CASE ClearFlag
    BY <2>3, ChainLen DEF PanelInv, PanelTypeOK, TaskTypeOK, ClearFlag
  <2> QED BY <2>1, <2>2, <2>3
<1> QED
  BY <1>1, <1>2 DEF PanelInv, PanelTypeOK, BoardMatchesModes, SupplyUndisturbed,
     WrittenUnlessSwitching, ShadowUndisturbed, lampVars

(***************************************************************************)
(* So does whatever raises tasks only.                                     *)
(***************************************************************************)
LEMMA RaiseKeepsPanel ==
    ASSUME PanelInv, NEW T, TaskSetNew(T), UNCHANGED <<pc, pos, mode, StsExpIO2, out>>,
           lampTime' \in [Lamp -> 0 .. OnLimit + 1],
           time' \in 0 .. SecondMs - 1, iib_sample' \in 0 .. SampleMs - 1
    PROVE  PanelInv'
<1>1. TaskTypeOK'
  BY DEF PanelInv, PanelTypeOK, TaskTypeOK, TaskSetNew
<1> QED
  BY <1>1 DEF PanelInv, PanelTypeOK, BoardMatchesModes, SupplyUndisturbed,
     WrittenUnlessSwitching, ShadowUndisturbed

(***************************************************************************)
(* The timer interrupt keeps its counters within their limits.             *)
(***************************************************************************)
LEMMA TimerKeepsPanel == ASSUME PanelInv, GlobalTimerIntHandler PROVE PanelInv'
<1> DEFINE second == time + 1 >= SecondMs
           sample == iib_sample + 1 >= SampleMs
           expired == {l \in Lamp : second /\ mode[l] /\ lampTime[l] > OnLimit}
<1>1. time' \in 0 .. SecondMs - 1 /\ iib_sample' \in 0 .. SampleMs - 1
  BY PanelAssumption DEF GlobalTimerIntHandler, PanelInv, PanelTypeOK
<1>2. lampTime' \in [Lamp -> 0 .. OnLimit + 1]
  <2>1. lampTime' = [l \in Lamp |-> IF ~(second /\ mode[l]) THEN lampTime[l]
                                    ELSE IF l \in expired THEN 0
                                    ELSE lampTime[l] + 1]
    BY DEF GlobalTimerIntHandler
  <2>2. ASSUME NEW l \in Lamp, second, mode[l], l \notin expired
        PROVE  lampTime[l] + 1 \in 0 .. OnLimit + 1
    BY <2>2, PanelAssumption DEF PanelInv, PanelTypeOK
  <2> HIDE DEF second, expired
  <2> QED
    BY <2>1, <2>2, PanelAssumption DEF PanelInv, PanelTypeOK
<1>3. PICK T : TaskSetNew(T) /\ UNCHANGED <<pc, pos, mode, StsExpIO2, out>>
  BY DEF GlobalTimerIntHandler, Interrupt
<1> QED
  BY <1>1, <1>2, <1>3, RaiseKeepsPanel

(***************************************************************************)
(* Switching one lamp moves its own bit of the shadow and its own mode.    *)
(***************************************************************************)
LEMMA LampCtrlKeeps ==
    ASSUME PanelInv, NEW l \in Lamp, NEW sts \in BOOLEAN, LampCtrl(l, sts)
    PROVE  /\ mode' \in [Lamp -> BOOLEAN]
           /\ StsExpIO2' \subseteq 0 .. 7
           /\ \A k \in Lamp : mode'[k] <=> Bit(k) \in StsExpIO2'
           /\ StsExpIO2' \ Lamps = {BUFFER_ENABLE}
<1>1. /\ mode' = [mode EXCEPT ![l] = sts]
      /\ StsExpIO2' = IF sts THEN StsExpIO2 \cup {Bit(l)} ELSE StsExpIO2 \ {Bit(l)}
  BY DEF LampCtrl
<1>2. /\ mode \in [Lamp -> BOOLEAN] /\ StsExpIO2 \subseteq 0 .. 7
      /\ \A k \in Lamp : mode[k] <=> Bit(k) \in StsExpIO2
      /\ StsExpIO2 \ Lamps = {BUFFER_ENABLE}
  BY DEF PanelInv, PanelTypeOK, BoardMatchesModes, ShadowUndisturbed, Lamps
<1>3. Bit(l) \in Lamps /\ Bit(l) \in 3 .. 5
  BY Bits DEF Lamps
<1>4. \A k \in Lamp : mode'[k] <=> Bit(k) \in StsExpIO2'
  <2> TAKE k \in Lamp
  <2>1. CASE k = l
    BY <2>1, <1>1, <1>2
  <2>2. CASE k # l
    <3>1. mode'[k] = mode[k] /\ Bit(k) # Bit(l)
      BY <2>2, <1>1, <1>2, Bits
    <3> QED BY <3>1, <1>1, <1>2
  <2> QED BY <2>1, <2>2
<1>5. StsExpIO2' \ Lamps = {BUFFER_ENABLE} /\ mode' \in [Lamp -> BOOLEAN]
  BY <1>1, <1>2, <1>3
<1>6. StsExpIO2' \subseteq 0 .. 7
  <2>1. Bit(l) \in 0 .. 7
    BY Bits
  <2> QED BY <1>1, <1>2, <2>1
<1> QED BY <1>4, <1>5, <1>6

LEMMA StartKeepsPanel == ASSUME PanelInv, StartHandler PROVE PanelInv'
<1>1. /\ pc = "call" /\ pc' = "run" /\ pos' = pos /\ flag' = flag
      /\ UNCHANGED <<lampTime, out, time, iib_sample>>
  BY DEF StartHandler, CallHandler
<1>2. TaskTypeOK'
  BY <1>1 DEF PanelInv, PanelTypeOK, TaskTypeOK
<1>3. out = StsExpIO2
  BY <1>1 DEF PanelInv, BoardMatchesModes
<1>4. CASE \E l \in Lamp : /\ Chain[pos] \in {OnTask(l), OffTask(l)}
                           /\ LampCtrl(l, Chain[pos] = OnTask(l))
  <2>1. Chain[pos'] \in LampTask
    BY <1>1, <1>4 DEF LampTask
  <2>2. /\ mode' \in [Lamp -> BOOLEAN] /\ StsExpIO2' \subseteq 0 .. 7
        /\ \A k \in Lamp : mode'[k] <=> Bit(k) \in StsExpIO2'
        /\ StsExpIO2' \ Lamps = {BUFFER_ENABLE}
    BY <1>4, LampCtrlKeeps
  <2> QED
    BY <1>1, <1>2, <2>1, <2>2 DEF PanelInv, PanelTypeOK, BoardMatchesModes,
       SupplyUndisturbed, WrittenUnlessSwitching, ShadowUndisturbed, Lamps
<1>5. CASE UNCHANGED <<mode, StsExpIO2>>
  BY <1>1, <1>2, <1>3, <1>5 DEF PanelInv, PanelTypeOK, BoardMatchesModes, SupplyUndisturbed,
     WrittenUnlessSwitching, ShadowUndisturbed
<1> QED
  BY <1>4, <1>5 DEF StartHandler

LEMMA EndKeepsPanel == ASSUME PanelInv, EndHandler PROVE PanelInv'
<1>1. /\ pc = "run" /\ pc' = "eth" /\ pos' = 1 /\ flag' = flag
      /\ UNCHANGED <<mode, lampTime, StsExpIO2, time, iib_sample>>
      /\ out' = IF Chain[pos] \in LampTask THEN StsExpIO2 ELSE out
  BY DEF EndHandler, HandlerReturn
<1>2. out' = StsExpIO2
  BY <1>1 DEF PanelInv, WrittenUnlessSwitching
<1>3. TaskTypeOK'
  BY <1>1, ChainLen DEF PanelInv, PanelTypeOK, TaskTypeOK
<1> QED
  BY <1>1, <1>2, <1>3 DEF PanelInv, PanelTypeOK, BoardMatchesModes, SupplyUndisturbed,
     WrittenUnlessSwitching, ShadowUndisturbed

LEMMA NextPanelInv == PanelInv /\ [PanelNext]_panelVars => PanelInv'
<1> SUFFICES ASSUME PanelInv, [PanelNext]_panelVars
             PROVE  PanelInv'
  OBVIOUS
<1>1. CASE (CallTaskCheck \/ TestFlag \/ ClearFlag) /\ UNCHANGED lampVars
  BY <1>1, ScanKeepsPanel
<1>2. CASE StartHandler
  BY <1>2, StartKeepsPanel
<1>3. CASE EndHandler
  BY <1>3, EndKeepsPanel
<1>4. CASE GlobalTimerIntHandler
  BY <1>4, TimerKeepsPanel
<1>5. CASE SerialMessage \/ Command
  <2>1. PICK T : TaskSetNew(T) /\ UNCHANGED <<pc, pos, lampVars>>
    BY <1>5 DEF SerialMessage, Command, Interrupt, EthernetCommand, HandlerCommand
  <2>2. /\ UNCHANGED <<mode, StsExpIO2, out>>
        /\ lampTime' \in [Lamp -> 0 .. OnLimit + 1]
        /\ time' \in 0 .. SecondMs - 1 /\ iib_sample' \in 0 .. SampleMs - 1
    BY <2>1 DEF lampVars, PanelInv, PanelTypeOK
  <2> QED
    BY <2>1, <2>2, RaiseKeepsPanel
<1>6. CASE UNCHANGED panelVars
  BY <1>6 DEF panelVars, taskVars, lampVars, PanelInv, PanelTypeOK, TaskTypeOK,
     BoardMatchesModes, SupplyUndisturbed, WrittenUnlessSwitching, ShadowUndisturbed
<1> QED
  BY <1>1, <1>2, <1>3, <1>4, <1>5, <1>6 DEF PanelNext, PanelMainLoop

LEMMA SpecPanelInv == PanelSpec => []PanelInv
BY InitPanelInv, NextPanelInv, PTL DEF PanelSpec

-----------------------------------------------------------------------------
(***************************************************************************)
(* The counters of the timer interrupt stay within their limits, the       *)
(* register within its byte.                                               *)
(***************************************************************************)
THEOREM PanelTypeCorrect == PanelSpec => []PanelTypeOK
BY SpecPanelInv, PTL DEF PanelInv

(***************************************************************************)
(* Outside the switching of a lamp the board, the shadow of its register   *)
(* and the modes the timer interrupt goes by agree.                        *)
(***************************************************************************)
THEOREM PanelShown == PanelSpec => []BoardMatchesModes
BY SpecPanelInv, PTL DEF PanelInv

(***************************************************************************)
(* No lamp command or timeout disturbs the supply and the buffers.         *)
(***************************************************************************)
THEOREM PanelSparesSupply == PanelSpec => []SupplyUndisturbed
BY SpecPanelInv, PTL DEF PanelInv
=============================================================================
