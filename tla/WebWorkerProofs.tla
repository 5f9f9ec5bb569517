--------------------------- MODULE WebWorkerProofs ---------------------------
(***************************************************************************)
(* What WebWorker promises for any number of messages in either direction: *)
(* its types, that the isolate is stopped once, that the event loop never  *)
(* runs dry, and that a worker that leaves the host's table on its own has *)
(* been heard to the end.                                                  *)
(***************************************************************************)
EXTENDS WebWorker, TLAPS

USE BoundsAssumption
    DEF hostVars, tableVars, handleVars, termVars, portVars, ctrlVars, jsVars,
        workerVars, WorkerOnly, goto, at

\* The conjuncts of TypeOK, by component.
HostTypes ==
  /\ status \in {"RUNNING", "CLOSED", "TERMINATED"}
  /\ ctrl_poll \in {"call", "await", "resolved", "done"}
  /\ msg_poll \in {"call", "await", "resolved", "done", "error"}
  /\ ctrl_event \in {"none", "TerminalError", "Close"}
  /\ host \in {"idle", "disentangle", "schedule"}
  /\ killer \in {"none", "sleeping", "done"}
FlagTypes ==
  /\ saw_error \in BOOLEAN /\ failed \in BOOLEAN
  /\ in_table \in BOOLEAN /\ ctrl_closed \in BOOLEAN /\ message_closed \in BOOLEAN
  /\ schedule \in BOOLEAN /\ host_down \in BOOLEAN
  /\ termination_signal \in BOOLEAN /\ has_terminated \in BOOLEAN
  /\ waker \in BOOLEAN /\ notified \in BOOLEAN
  /\ host_tx \in BOOLEAN /\ ctrl_open \in BOOLEAN
  /\ close_on_idle \in BOOLEAN /\ has_executed_main_module \in BOOLEAN
  /\ listener \in BOOLEAN
PortTypes ==
  /\ msg_data \in 0..MaxPosts /\ received \in 0..MaxPosts
  /\ to_host \in Seq(1..MaxPosts) /\ to_worker \in Seq(1..MaxHostPosts)
  /\ posted \in 0..MaxPosts /\ host_posted \in 0..MaxHostPosts
  /\ ctrl \in Seq({"TerminalError"})
  /\ executions \in Nat
WorkerTypes ==
  /\ worker \in {"loading", "check", "terminating", "closing", "register", "js",
                 "spinning", "ready_ok", "ready_err", "parked", "executed",
                 "post_check", "post_send", "leaving"} \cup Gone
  /\ stage \in {"main", "loop"}
  /\ evaluated \in {"no", "ok", "error"}
  /\ recv \in {"off", "waiting", "ended", "threw"} /\ op \in {"none", "pending", "ready"}

\* TypeOK is the conjunction of its parts.
LEMMA TypeParts == TypeOK <=> HostTypes /\ FlagTypes /\ PortTypes /\ WorkerTypes
BY Zenon DEF TypeOK, HostTypes, FlagTypes, PortTypes, WorkerTypes

\* Channels of messages of some type stay so when one is taken or put.
LEMMA ChannelTypes ==
  ASSUME NEW S, NEW c \in Seq(S)
  PROVE  /\ c # <<>> => Head(c) \in S /\ Tail(c) \in Seq(S)
         /\ \A m \in S : Append(c, m) \in Seq(S)
OBVIOUS

\* Every step keeps the types of the host's state.
LEMMA HostTypesStep == TypeOK /\ [Next]_vars => HostTypes'
<1> SUFFICES ASSUME TypeOK, [Next]_vars PROVE HostTypes' OBVIOUS
<1> USE DEF TypeOK, HostTypes, SwapSignal, RemoveEntry, KeepEntry, CloseChannel,
      TerminateSelf, Gone
<1>1. CASE HandleStep
  <2>1. CASE Disentangle BY <2>1 DEF Disentangle
  <2>2. CASE ScheduleTermination BY <2>2 DEF ScheduleTermination
  <2> QED BY <1>1, <2>1, <2>2 DEF HandleStep
<1>2. CASE Kill BY <1>2 DEF Kill
<1>3. CASE HostLoop
  <2>1. CASE CtrlCall BY <2>1 DEF CtrlCall
  <2>2. CASE CtrlResolve BY <2>2 DEF CtrlResolve
  <2>3. CASE CtrlHandle BY <2>3 DEF CtrlHandle
  <2>4. CASE MsgCall BY <2>4 DEF MsgCall
  <2>5. CASE MsgResolve BY <2>5 DEF MsgResolve
  <2>6. CASE MsgHandle BY <2>6 DEF MsgHandle
  <2> QED BY <1>3, <2>1, <2>2, <2>3, <2>4, <2>5, <2>6 DEF HostLoop
<1>4. CASE Terminate BY <1>4 DEF Terminate
<1>5. CASE HostExit BY <1>5 DEF HostExit
<1>6. CASE HostPost BY <1>6 DEF HostPost
<1>7. CASE WorkerSystem
  <2>1. CASE Load BY <2>1 DEF Load
  <2>2. CASE PollCheck BY <2>2 DEF PollCheck
  <2>3. CASE Terminating BY <2>3 DEF Terminating
  <2>4. CASE CloseCtrl BY <2>4 DEF CloseCtrl
  <2>5. CASE PollRegister BY <2>5 DEF PollRegister
  <2>6. CASE Interrupt BY <2>6 DEF Interrupt
  <2>7. CASE PollReady BY <2>7 DEF PollReady
  <2>8. CASE LeaveMain BY <2>8 DEF LeaveMain
  <2>9. CASE Executed BY <2>9 DEF Executed
  <2>10. CASE Wake BY <2>10 DEF Wake
  <2>11. CASE PostCheck BY <2>11 DEF PostCheck
  <2>12. CASE PostSend BY <2>12 DEF PostSend
  <2>13. CASE Exit BY <2>13 DEF Exit
  <2> QED
    BY <1>7, <2>1, <2>2, <2>3, <2>4, <2>5, <2>6, <2>7, <2>8, <2>9, <2>10, <2>11, <2>12,
       <2>13 DEF WorkerSystem
<1>8. CASE Js
  <2>1. CASE JsPost BY <2>1 DEF JsPost
  <2>2. CASE JsRecv BY <2>2 DEF JsRecv
  <2>3. CASE JsStep BY <2>3 DEF JsStep
  <2>4. CASE JsThrowOrSpin BY <2>4 DEF JsThrowOrSpin
  <2>5. CASE JsClose BY <2>5 DEF JsClose
  <2>6. CASE JsYield BY <2>6 DEF JsYield
  <2> QED BY <1>8, <2>1, <2>2, <2>3, <2>4, <2>5, <2>6 DEF Js
<1>9. CASE OpCompletes BY <1>9 DEF OpCompletes
<1>10. CASE UNCHANGED vars BY <1>10 DEF vars
<1> QED BY <1>1, <1>2, <1>3, <1>4, <1>5, <1>6, <1>7, <1>8, <1>9, <1>10 DEF Next

\* Every step keeps the flags Boolean.
LEMMA FlagTypesStep == FlagTypes /\ [Next]_vars => FlagTypes'
<1> SUFFICES ASSUME FlagTypes, [Next]_vars PROVE FlagTypes' OBVIOUS
<1> USE DEF FlagTypes, SwapSignal, RemoveEntry, KeepEntry, CloseChannel, TerminateSelf, Gone
<1>1. CASE HandleStep
  <2>1. CASE Disentangle
    <3>1. host_tx' \in BOOLEAN BY <2>1, Zenon DEF Disentangle
    <3>2. UNCHANGED <<saw_error, failed, in_table, ctrl_closed, message_closed, schedule,
            host_down, termination_signal, has_terminated, waker, notified, ctrl_open,
            close_on_idle, has_executed_main_module, listener>>
      BY <2>1 DEF Disentangle
    <3> QED BY <3>1, <3>2
  <2>2. CASE ScheduleTermination
    <3>1. schedule' \in BOOLEAN BY <2>2, Zenon DEF ScheduleTermination
    <3>2. notified' \in BOOLEAN BY <2>2, Zenon DEF ScheduleTermination
    <3>3. waker' \in BOOLEAN BY <2>2, Zenon DEF ScheduleTermination
    <3>4. UNCHANGED <<saw_error, failed, in_table, ctrl_closed, message_closed, host_down,
            termination_signal, has_terminated, host_tx, ctrl_open, close_on_idle,
            has_executed_main_module, listener>>
      BY <2>2 DEF ScheduleTermination
    <3> QED BY <3>1, <3>2, <3>3, <3>4
  <2> QED BY <1>1, <2>1, <2>2 DEF HandleStep
<1>2. CASE Kill BY <1>2 DEF Kill
<1>3. CASE HostLoop
  <2>1. CASE CtrlCall BY <2>1 DEF CtrlCall
  <2>2. CASE CtrlResolve
    <3>1. in_table' \in BOOLEAN BY <2>2, Zenon DEF CtrlResolve
    <3>2. ctrl_closed' \in BOOLEAN BY <2>2, Zenon DEF CtrlResolve
    <3>3. message_closed' \in BOOLEAN BY <2>2, Zenon DEF CtrlResolve
    <3>4. schedule' \in BOOLEAN BY <2>2, Zenon DEF CtrlResolve
    <3>5. termination_signal' \in BOOLEAN BY <2>2, Zenon DEF CtrlResolve
    <3>6. UNCHANGED <<saw_error, failed, host_down, has_terminated, waker, notified,
            host_tx, ctrl_open, close_on_idle, has_executed_main_module, listener>>
      BY <2>2 DEF CtrlResolve
    <3> QED BY <3>1, <3>2, <3>3, <3>4, <3>5, <3>6
  <2>3. CASE CtrlHandle
    <3>1. saw_error' \in BOOLEAN BY <2>3, Zenon DEF CtrlHandle
    <3>2. UNCHANGED <<failed, in_table, ctrl_closed, message_closed, schedule, host_down,
            termination_signal, has_terminated, waker, notified, host_tx, ctrl_open,
            close_on_idle, has_executed_main_module, listener>>
      BY <2>3 DEF CtrlHandle
    <3> QED BY <3>1, <3>2
  <2>4. CASE MsgCall BY <2>4 DEF MsgCall
  <2>5. CASE MsgResolve
    <3>1. in_table' \in BOOLEAN BY <2>5, Zenon DEF MsgResolve
    <3>2. ctrl_closed' \in BOOLEAN BY <2>5, Zenon DEF MsgResolve
    <3>3. message_closed' \in BOOLEAN BY <2>5, Zenon DEF MsgResolve
    <3>4. schedule' \in BOOLEAN BY <2>5, Zenon DEF MsgResolve
    <3>5. termination_signal' \in BOOLEAN BY <2>5, Zenon DEF MsgResolve
    <3>6. UNCHANGED <<saw_error, failed, host_down, has_terminated, waker, notified,
            host_tx, ctrl_open, close_on_idle, has_executed_main_module, listener>>
      BY <2>5 DEF MsgResolve
    <3> QED BY <3>1, <3>2, <3>3, <3>4, <3>5, <3>6
  <2>6. CASE MsgHandle BY <2>6 DEF MsgHandle
  <2> QED BY <1>3, <2>1, <2>2, <2>3, <2>4, <2>5, <2>6 DEF HostLoop
<1>4. CASE Terminate
  <2>1. in_table' \in BOOLEAN BY <1>4, Zenon DEF Terminate
  <2>2. ctrl_closed' \in BOOLEAN BY <1>4, Zenon DEF Terminate
  <2>3. message_closed' \in BOOLEAN BY <1>4, Zenon DEF Terminate
  <2>4. schedule' \in BOOLEAN BY <1>4, Zenon DEF Terminate
  <2>5. termination_signal' \in BOOLEAN BY <1>4, Zenon DEF Terminate
  <2>6. UNCHANGED <<saw_error, failed, host_down, has_terminated, waker, notified, host_tx,
          ctrl_open, close_on_idle, has_executed_main_module, listener>>
    BY <1>4 DEF Terminate
  <2> QED BY <2>1, <2>2, <2>3, <2>4, <2>5, <2>6
<1>5. CASE HostExit
  <2>1. in_table' \in BOOLEAN BY <1>5, Zenon DEF HostExit
  <2>2. ctrl_closed' \in BOOLEAN BY <1>5, Zenon DEF HostExit
  <2>3. message_closed' \in BOOLEAN BY <1>5, Zenon DEF HostExit
  <2>4. schedule' \in BOOLEAN BY <1>5, Zenon DEF HostExit
  <2>5. termination_signal' \in BOOLEAN BY <1>5, Zenon DEF HostExit
  <2>6. host_down' \in BOOLEAN BY <1>5, Zenon DEF HostExit
  <2>7. UNCHANGED <<saw_error, failed, has_terminated, waker, notified, host_tx, ctrl_open,
          close_on_idle, has_executed_main_module, listener>>
    BY <1>5 DEF HostExit
  <2> QED BY <2>1, <2>2, <2>3, <2>4, <2>5, <2>6, <2>7
<1>6. CASE HostPost BY <1>6 DEF HostPost
<1>7. CASE WorkerSystem
  <2>1. CASE Load BY <2>1 DEF Load
  <2>2. CASE PollCheck
    <3>1. notified' \in BOOLEAN BY <2>2, Zenon DEF PollCheck
    <3>2. UNCHANGED <<saw_error, failed, in_table, ctrl_closed, message_closed, schedule,
            host_down, termination_signal, has_terminated, waker, host_tx, ctrl_open,
            close_on_idle, has_executed_main_module, listener>>
      BY <2>2 DEF PollCheck
    <3> QED BY <3>1, <3>2
  <2>3. CASE Terminating
    <3>1. has_terminated' \in BOOLEAN BY <2>3, Zenon DEF Terminating
    <3>2. waker' \in BOOLEAN BY <2>3, Zenon DEF Terminating
    <3>3. UNCHANGED <<saw_error, failed, in_table, ctrl_closed, message_closed, schedule,
            host_down, termination_signal, notified, host_tx, ctrl_open, close_on_idle,
            has_executed_main_module, listener>>
      BY <2>3 DEF Terminating
    <3> QED BY <3>1, <3>2, <3>3
  <2>4. CASE CloseCtrl
    <3>1. ctrl_open' \in BOOLEAN BY <2>4, Zenon DEF CloseCtrl
    <3>2. UNCHANGED <<saw_error, failed, in_table, ctrl_closed, message_closed, schedule,
            host_down, termination_signal, has_terminated, waker, notified, host_tx,
            close_on_idle, has_executed_main_module, listener>>
      BY <2>4 DEF CloseCtrl
    <3> QED BY <3>1, <3>2
  <2>5. CASE PollRegister BY <2>5 DEF PollRegister
  <2>6. CASE Interrupt BY <2>6 DEF Interrupt
  <2>7. CASE PollReady BY <2>7 DEF PollReady
  <2>8. CASE LeaveMain BY <2>8 DEF LeaveMain
  <2>9. CASE Executed BY <2>9 DEF Executed
  <2>10. CASE Wake BY <2>10 DEF Wake
  <2>11. CASE PostCheck
    <3>1. has_terminated' \in BOOLEAN BY <2>11, Zenon DEF PostCheck
    <3>2. UNCHANGED <<saw_error, failed, in_table, ctrl_closed, message_closed, schedule,
            host_down, termination_signal, waker, notified, host_tx, ctrl_open,
            close_on_idle, has_executed_main_module, listener>>
      BY <2>11 DEF PostCheck
    <3> QED BY <3>1, <3>2
  <2>12. CASE PostSend BY <2>12 DEF PostSend
  <2>13. CASE Exit BY <2>13, ZenonT(60) DEF Exit
  <2> QED
    BY <1>7, <2>1, <2>2, <2>3, <2>4, <2>5, <2>6, <2>7, <2>8, <2>9, <2>10, <2>11, <2>12,
       <2>13 DEF WorkerSystem
<1>8. CASE Js
  <2>1. CASE JsPost BY <2>1 DEF JsPost
  <2>2. CASE JsRecv BY <2>2 DEF JsRecv
  <2>3. CASE JsStep
    <3>1. listener' \in BOOLEAN BY <2>3, Zenon DEF JsStep
    <3>2. UNCHANGED <<saw_error, failed, in_table, ctrl_closed, message_closed, schedule,
            host_down, termination_signal, has_terminated, waker, notified, host_tx,
            ctrl_open, close_on_idle, has_executed_main_module>>
      BY <2>3 DEF JsStep
    <3> QED BY <3>1, <3>2
  <2>4. CASE JsThrowOrSpin BY <2>4 DEF JsThrowOrSpin
  <2>5. CASE JsClose
    <3>1. has_terminated' \in BOOLEAN BY <2>5, Zenon DEF JsClose
    <3>2. waker' \in BOOLEAN BY <2>5, Zenon DEF JsClose
    <3>3. UNCHANGED <<saw_error, failed, in_table, ctrl_closed, message_closed, schedule,
            host_down, termination_signal, notified, host_tx, ctrl_open, close_on_idle,
            has_executed_main_module, listener>>
      BY <2>5 DEF JsClose
    <3> QED BY <3>1, <3>2, <3>3
  <2>6. CASE JsYield BY <2>6 DEF JsYield
  <2> QED BY <1>8, <2>1, <2>2, <2>3, <2>4, <2>5, <2>6 DEF Js
<1>9. CASE OpCompletes BY <1>9 DEF OpCompletes
<1>10. CASE UNCHANGED vars BY <1>10 DEF vars
<1> QED BY <1>1, <1>2, <1>3, <1>4, <1>5, <1>6, <1>7, <1>8, <1>9, <1>10 DEF Next

\* Every step keeps the types of the channels.
LEMMA PortTypesStep == PortTypes /\ [Next]_vars => PortTypes'
<1> SUFFICES ASSUME PortTypes, [Next]_vars PROVE PortTypes' OBVIOUS
<1> USE DEF PortTypes, TerminateSelf
<1>1. CASE HandleStep
  <2>1. CASE Disentangle BY <2>1 DEF Disentangle
  <2>2. CASE ScheduleTermination BY <2>2 DEF ScheduleTermination
  <2> QED BY <1>1, <2>1, <2>2 DEF HandleStep
<1>2. CASE Kill BY <1>2 DEF Kill
<1>3. CASE HostLoop
  <2>1. CASE CtrlCall BY <2>1 DEF CtrlCall
  <2>2. CASE CtrlResolve
    <3>0. ctrl' = ctrl \/ (ctrl # <<>> /\ ctrl' = Tail(ctrl)) BY <2>2 DEF CtrlResolve
    <3>1. ctrl' \in Seq({"TerminalError"}) BY <3>0, ChannelTypes
    <3>2. UNCHANGED <<msg_data, received, to_host, to_worker, posted, host_posted, executions>>
      BY <2>2 DEF CtrlResolve
    <3> QED BY <3>1, <3>2
  <2>3. CASE CtrlHandle BY <2>3 DEF CtrlHandle
  <2>4. CASE MsgCall BY <2>4 DEF MsgCall
  <2>5. CASE MsgResolve
    <3>0. \/ to_host' = to_host /\ msg_data' = 0
          \/ to_host # <<>> /\ to_host' = Tail(to_host) /\ msg_data' = Head(to_host)
      BY <2>5 DEF MsgResolve
    <3>1. to_host' \in Seq(1..MaxPosts) BY <3>0, ChannelTypes
    <3>3. msg_data' = 0 \/ msg_data' \in 1..MaxPosts BY <3>0, ChannelTypes
    <3>2. UNCHANGED <<ctrl, received, to_worker, posted, host_posted, executions>>
      BY <2>5 DEF MsgResolve
    <3> QED BY <3>1, <3>2, <3>3
  <2>6. CASE MsgHandle BY <2>6 DEF MsgHandle
  <2> QED BY <1>3, <2>1, <2>2, <2>3, <2>4, <2>5, <2>6 DEF HostLoop
<1>4. CASE Terminate BY <1>4 DEF Terminate
<1>5. CASE HostExit BY <1>5 DEF HostExit
<1>6. CASE HostPost
  <2>1. host_posted' \in 1..MaxHostPosts BY <1>6 DEF HostPost
  <2>0. to_worker' \in {to_worker, Append(to_worker, host_posted')} BY <1>6 DEF HostPost
  <2>2. to_worker' \in Seq(1..MaxHostPosts) BY <2>0, <2>1, ChannelTypes
  <2>3. UNCHANGED <<ctrl, msg_data, received, to_host, posted, executions>>
    BY <1>6 DEF HostPost
  <2> QED BY <2>1, <2>2, <2>3
<1>7. CASE WorkerSystem
  <2>1. CASE Load BY <2>1 DEF Load
  <2>2. CASE PollCheck BY <2>2 DEF PollCheck
  <2>3. CASE Terminating BY <2>3 DEF Terminating
  <2>4. CASE CloseCtrl BY <2>4 DEF CloseCtrl
  <2>5. CASE PollRegister BY <2>5 DEF PollRegister
  <2>6. CASE Interrupt BY <2>6 DEF Interrupt
  <2>7. CASE PollReady BY <2>7 DEF PollReady
  <2>8. CASE LeaveMain BY <2>8 DEF LeaveMain
  <2>9. CASE Executed BY <2>9 DEF Executed
  <2>10. CASE Wake BY <2>10 DEF Wake
  <2>11. CASE PostCheck BY <2>11 DEF PostCheck
  <2>12. CASE PostSend
    <3>0. ctrl' \in {ctrl, Append(ctrl, "TerminalError")} BY <2>12 DEF PostSend
    <3>1. ctrl' \in Seq({"TerminalError"}) BY <3>0, ChannelTypes
    <3>2. UNCHANGED <<msg_data, received, to_host, to_worker, posted, host_posted, executions>>
      BY <2>12 DEF PostSend
    <3> QED BY <3>1, <3>2
  <2>13. CASE Exit BY <2>13 DEF Exit
  <2> QED
    BY <1>7, <2>1, <2>2, <2>3, <2>4, <2>5, <2>6, <2>7, <2>8, <2>9, <2>10, <2>11, <2>12,
       <2>13 DEF WorkerSystem
<1>8. CASE Js
  <2>1. CASE JsPost
    <3>1. posted' \in 1..MaxPosts BY <2>1 DEF JsPost
    <3>0. to_host' \in {to_host, Append(to_host, posted')} BY <2>1 DEF JsPost
    <3>2. to_host' \in Seq(1..MaxPosts) BY <3>0, <3>1, ChannelTypes
    <3>3. UNCHANGED <<ctrl, msg_data, received, to_worker, host_posted, executions>>
      BY <2>1 DEF JsPost
    <3> QED BY <3>1, <3>2, <3>3
  <2>2. CASE JsRecv
    <3>0. to_worker' = to_worker \/ (to_worker # <<>> /\ to_worker' = Tail(to_worker))
      BY <2>2 DEF JsRecv
    <3>1. to_worker' \in Seq(1..MaxHostPosts) BY <3>0, ChannelTypes
    <3>2. UNCHANGED <<ctrl, msg_data, received, to_host, posted, host_posted, executions>>
      BY <2>2 DEF JsRecv
    <3> QED BY <3>1, <3>2
  <2>3. CASE JsStep BY <2>3 DEF JsStep
  <2>4. CASE JsThrowOrSpin BY <2>4 DEF JsThrowOrSpin
  <2>5. CASE JsClose BY <2>5 DEF JsClose
  <2>6. CASE JsYield BY <2>6 DEF JsYield
  <2> QED BY <1>8, <2>1, <2>2, <2>3, <2>4, <2>5, <2>6 DEF Js
<1>9. CASE OpCompletes BY <1>9 DEF OpCompletes
<1>10. CASE UNCHANGED vars BY <1>10 DEF vars
<1> QED BY <1>1, <1>2, <1>3, <1>4, <1>5, <1>6, <1>7, <1>8, <1>9, <1>10 DEF Next

\* Every step keeps the types of the worker's state.
LEMMA WorkerTypesStep == TypeOK /\ [Next]_vars => WorkerTypes'
<1> SUFFICES ASSUME TypeOK, [Next]_vars PROVE WorkerTypes' OBVIOUS
<1> USE DEF TypeOK, WorkerTypes, SwapSignal, RemoveEntry, KeepEntry, CloseChannel,
      TerminateSelf, Gone
<1>1. CASE HandleStep
  <2>1. CASE Disentangle BY <2>1 DEF Disentangle
  <2>2. CASE ScheduleTermination BY <2>2 DEF ScheduleTermination
  <2> QED BY <1>1, <2>1, <2>2 DEF HandleStep
<1>2. CASE Kill BY <1>2 DEF Kill
<1>3. CASE HostLoop
  <2>1. CASE CtrlCall BY <2>1 DEF CtrlCall
  <2>2. CASE CtrlResolve BY <2>2 DEF CtrlResolve
  <2>3. CASE CtrlHandle BY <2>3 DEF CtrlHandle
  <2>4. CASE MsgCall BY <2>4 DEF MsgCall
  <2>5. CASE MsgResolve BY <2>5 DEF MsgResolve
  <2>6. CASE MsgHandle BY <2>6 DEF MsgHandle
  <2> QED BY <1>3, <2>1, <2>2, <2>3, <2>4, <2>5, <2>6 DEF HostLoop
<1>4. CASE Terminate BY <1>4 DEF Terminate
<1>5. CASE HostExit BY <1>5 DEF HostExit
<1>6. CASE HostPost BY <1>6 DEF HostPost
<1>7. CASE WorkerSystem
  <2>1. CASE Load BY <2>1 DEF Load
  <2>2. CASE PollCheck BY <2>2 DEF PollCheck
  <2>3. CASE Terminating BY <2>3 DEF Terminating
  <2>4. CASE CloseCtrl BY <2>4 DEF CloseCtrl
  <2>5. CASE PollRegister BY <2>5 DEF PollRegister
  <2>6. CASE Interrupt BY <2>6 DEF Interrupt
  <2>7. CASE PollReady BY <2>7 DEF PollReady
  <2>8. CASE LeaveMain BY <2>8 DEF LeaveMain
  <2>9. CASE Executed BY <2>9 DEF Executed
  <2>10. CASE Wake BY <2>10 DEF Wake
  <2>11. CASE PostCheck BY <2>11 DEF PostCheck
  <2>12. CASE PostSend BY <2>12 DEF PostSend
  <2>13. CASE Exit BY <2>13 DEF Exit
  <2> QED
    BY <1>7, <2>1, <2>2, <2>3, <2>4, <2>5, <2>6, <2>7, <2>8, <2>9, <2>10, <2>11, <2>12,
       <2>13 DEF WorkerSystem
<1>8. CASE Js
  <2>1. CASE JsPost BY <2>1 DEF JsPost
  <2>2. CASE JsRecv BY <2>2 DEF JsRecv
  <2>3. CASE JsStep BY <2>3 DEF JsStep
  <2>4. CASE JsThrowOrSpin BY <2>4 DEF JsThrowOrSpin
  <2>5. CASE JsClose BY <2>5 DEF JsClose
  <2>6. CASE JsYield BY <2>6 DEF JsYield
  <2> QED BY <1>8, <2>1, <2>2, <2>3, <2>4, <2>5, <2>6 DEF Js
<1>9. CASE OpCompletes BY <1>9 DEF OpCompletes
<1>10. CASE UNCHANGED vars BY <1>10 DEF vars
<1> QED BY <1>1, <1>2, <1>3, <1>4, <1>5, <1>6, <1>7, <1>8, <1>9, <1>10 DEF Next

\* Every variable keeps its type, whatever the bounds on messages are.
THEOREM TypeCorrect == Spec => []TypeOK
<1>1. Init => TypeOK
  <2> SUFFICES ASSUME Init PROVE TypeOK OBVIOUS
  <2>1. HostTypes BY DEF Init, HostTypes
  <2>2. FlagTypes BY Zenon DEF Init, FlagTypes
  <2>3. PortTypes BY DEF Init, PortTypes
  <2>4. WorkerTypes BY DEF Init, WorkerTypes
  <2> QED BY <2>1, <2>2, <2>3, <2>4, TypeParts
<1>2. TypeOK /\ [Next]_vars => TypeOK'
  <2> SUFFICES ASSUME TypeOK, [Next]_vars PROVE TypeOK' OBVIOUS
  <2>1. HostTypes' BY HostTypesStep
  <2>2. FlagTypes' BY FlagTypesStep, TypeParts
  <2>3. PortTypes' BY PortTypesStep, TypeParts
  <2>4. WorkerTypes' BY WorkerTypesStep
  <2> QED BY <2>1, <2>2, <2>3, <2>4 DEF TypeOK, HostTypes, FlagTypes, PortTypes, WorkerTypes
<1> QED BY <1>1, <1>2, PTL DEF Spec

-----------------------------------------------------------------------------
(* The isolate. *)

\* TerminatedOnce, and what keeps it: whoever stopped the isolate had swapped
\* has_terminated first.
StopInv ==
  /\ executions \in {0, 1}
  /\ executions = 1 => has_terminated

\* Every step keeps StopInv.
LEMMA StopStep == TypeOK /\ StopInv /\ [Next]_vars => StopInv'
<1> SUFFICES ASSUME TypeOK, StopInv, [Next]_vars PROVE StopInv' OBVIOUS
<1> USE DEF TypeOK, StopInv, SwapSignal, RemoveEntry, KeepEntry, CloseChannel, TerminateSelf
<1>1. CASE HandleStep
  <2>1. CASE Disentangle BY <2>1 DEF Disentangle
  <2>2. CASE ScheduleTermination BY <2>2 DEF ScheduleTermination
  <2> QED BY <1>1, <2>1, <2>2 DEF HandleStep
<1>2. CASE Kill BY <1>2 DEF Kill
<1>3. CASE HostLoop
  <2>1. CASE CtrlCall BY <2>1 DEF CtrlCall
  <2>2. CASE CtrlResolve BY <2>2 DEF CtrlResolve
  <2>3. CASE CtrlHandle BY <2>3 DEF CtrlHandle
  <2>4. CASE MsgCall BY <2>4 DEF MsgCall
  <2>5. CASE MsgResolve BY <2>5 DEF MsgResolve
  <2>6. CASE MsgHandle BY <2>6 DEF MsgHandle
  <2> QED BY <1>3, <2>1, <2>2, <2>3, <2>4, <2>5, <2>6 DEF HostLoop
<1>4. CASE Terminate BY <1>4 DEF Terminate
<1>5. CASE HostExit BY <1>5 DEF HostExit
<1>6. CASE HostPost BY <1>6 DEF HostPost
<1>7. CASE WorkerSystem
  <2>1. CASE Load BY <2>1 DEF Load
  <2>2. CASE PollCheck BY <2>2 DEF PollCheck
  <2>3. CASE Terminating BY <2>3 DEF Terminating
  <2>4. CASE CloseCtrl BY <2>4 DEF CloseCtrl
  <2>5. CASE PollRegister BY <2>5 DEF PollRegister
  <2>6. CASE Interrupt BY <2>6 DEF Interrupt
  <2>7. CASE PollReady BY <2>7 DEF PollReady
  <2>8. CASE LeaveMain BY <2>8 DEF LeaveMain
  <2>9. CASE Executed BY <2>9 DEF Executed
  <2>10. CASE Wake BY <2>10 DEF Wake
  <2>11. CASE PostCheck BY <2>11 DEF PostCheck
  <2>12. CASE PostSend BY <2>12 DEF PostSend
  <2>13. CASE Exit BY <2>13 DEF Exit
  <2> QED
    BY <1>7, <2>1, <2>2, <2>3, <2>4, <2>5, <2>6, <2>7, <2>8, <2>9, <2>10, <2>11, <2>12,
       <2>13 DEF WorkerSystem
<1>8. CASE Js
  <2>1. CASE JsPost BY <2>1 DEF JsPost
  <2>2. CASE JsRecv BY <2>2 DEF JsRecv
  <2>3. CASE JsStep BY <2>3 DEF JsStep
  <2>4. CASE JsThrowOrSpin BY <2>4 DEF JsThrowOrSpin
  <2>5. CASE JsClose BY <2>5 DEF JsClose
  <2>6. CASE JsYield BY <2>6 DEF JsYield
  <2> QED BY <1>8, <2>1, <2>2, <2>3, <2>4, <2>5, <2>6 DEF Js
<1>9. CASE OpCompletes BY <1>9 DEF OpCompletes
<1>10. CASE UNCHANGED vars BY <1>10 DEF vars
<1> QED BY <1>1, <1>2, <1>3, <1>4, <1>5, <1>6, <1>7, <1>8, <1>9, <1>10 DEF Next


\* The isolate of a worker is stopped at most once, by the worker, by close() or by
\* the delayed kill, however they race.
THEOREM TerminatedOnceCorrect == Spec => []TerminatedOnce
<1>1. Init => StopInv BY DEF Init, StopInv
<1>2. StopInv => TerminatedOnce BY DEF StopInv, TerminatedOnce
<1> QED BY <1>1, <1>2, StopStep, TypeCorrect, PTL DEF Spec

-----------------------------------------------------------------------------
(* The event loop. *)

\* Where the worker is between starting pollForMessages and the end of the loop.
Polling == {"check", "terminating", "closing", "register", "js", "spinning",
            "ready_ok", "ready_err", "parked"}

\* NeverRunsDry, and what keeps it: the port is disentangled after the signal is
\* set, recv ends with the port unless pollForMessages threw, and it is off in a
\* running event loop only if the isolate was stopped before the loop began.
DryInv ==
  /\ host # "idle" => termination_signal
  /\ ~host_tx => termination_signal
  /\ recv = "ended" => ~host_tx
  /\ recv = "off" /\ worker \in Polling => executions > 0
  /\ recv = "off" /\ worker = "executed" => executions > 0 \/ evaluated = "error"
  /\ worker = "ready_ok" => recv # "waiting"
  /\ worker = "panic_idle" => recv = "threw"

\* Every step keeps DryInv.
LEMMA DryStep == TypeOK /\ StopInv /\ DryInv /\ [Next]_vars => DryInv'
<1> SUFFICES ASSUME TypeOK, StopInv, DryInv, [Next]_vars PROVE DryInv' OBVIOUS
<1> USE DEF TypeOK, StopInv, DryInv, Polling, Gone, InJs, SwapSignal, RemoveEntry,
      KeepEntry, CloseChannel, TerminateSelf
<1>1. CASE HandleStep
  <2>1. CASE Disentangle BY <2>1 DEF Disentangle
  <2>2. CASE ScheduleTermination BY <2>2 DEF ScheduleTermination
  <2> QED BY <1>1, <2>1, <2>2 DEF HandleStep
<1>2. CASE Kill BY <1>2 DEF Kill
<1>3. CASE HostLoop
  <2>1. CASE CtrlCall BY <2>1 DEF CtrlCall
  <2>2. CASE CtrlResolve BY <2>2 DEF CtrlResolve
  <2>3. CASE CtrlHandle BY <2>3 DEF CtrlHandle
  <2>4. CASE MsgCall BY <2>4 DEF MsgCall
  <2>5. CASE MsgResolve BY <2>5 DEF MsgResolve
  <2>6. CASE MsgHandle BY <2>6 DEF MsgHandle
  <2> QED BY <1>3, <2>1, <2>2, <2>3, <2>4, <2>5, <2>6 DEF HostLoop
<1>4. CASE Terminate BY <1>4 DEF Terminate
<1>5. CASE HostExit BY <1>5 DEF HostExit
<1>6. CASE HostPost BY <1>6 DEF HostPost
<1>7. CASE WorkerSystem
  <2>1. CASE Load BY <2>1 DEF Load
  <2>2. CASE PollCheck BY <2>2 DEF PollCheck
  <2>3. CASE Terminating BY <2>3 DEF Terminating
  <2>4. CASE CloseCtrl BY <2>4 DEF CloseCtrl
  <2>5. CASE PollRegister BY <2>5 DEF PollRegister
  <2>6. CASE Interrupt BY <2>6 DEF Interrupt
  <2>7. CASE PollReady BY <2>7 DEF PollReady
  <2>8. CASE LeaveMain BY <2>8 DEF LeaveMain
  <2>9. CASE Executed BY <2>9 DEF Executed
  <2>10. CASE Wake BY <2>10 DEF Wake
  <2>11. CASE PostCheck BY <2>11 DEF PostCheck
  <2>12. CASE PostSend BY <2>12 DEF PostSend
  <2>13. CASE Exit BY <2>13 DEF Exit
  <2> QED
    BY <1>7, <2>1, <2>2, <2>3, <2>4, <2>5, <2>6, <2>7, <2>8, <2>9, <2>10, <2>11, <2>12,
       <2>13 DEF WorkerSystem
<1>8. CASE Js
  <2>1. CASE JsPost BY <2>1 DEF JsPost
  <2>2. CASE JsRecv BY <2>2 DEF JsRecv
  <2>3. CASE JsStep BY <2>3 DEF JsStep
  <2>4. CASE JsThrowOrSpin BY <2>4 DEF JsThrowOrSpin
  <2>5. CASE JsClose BY <2>5 DEF JsClose
  <2>6. CASE JsYield BY <2>6 DEF JsYield
  <2> QED BY <1>8, <2>1, <2>2, <2>3, <2>4, <2>5, <2>6 DEF Js
<1>9. CASE OpCompletes BY <1>9 DEF OpCompletes
<1>10. CASE UNCHANGED vars BY <1>10 DEF vars
<1> QED BY <1>1, <1>2, <1>3, <1>4, <1>5, <1>6, <1>7, <1>8, <1>9, <1>10 DEF Next


\* While nobody asked the worker to end, its event loop ends without an error, and
\* poll_event_loop panics, only after pollForMessages ended by a rejection that the
\* worker prevented: neither the end of the port nor a stopped isolate gets there.
THEOREM NeverRunsDryCorrect == Spec => []NeverRunsDry
<1>1. Init => StopInv /\ DryInv BY DEF Init, StopInv, DryInv, Polling
<1>2. DryInv => NeverRunsDry BY DEF DryInv, NeverRunsDry
<1> QED BY <1>1, <1>2, StopStep, DryStep, TypeCorrect, PTL DEF Spec

-----------------------------------------------------------------------------
(* The host's table. *)

\* Where the worker sends nothing any more.
Late == {"leaving"} \cup Gone

\* The control channel: the worker's last act on it is to close it or to send its
\* one terminal error, and the host has seen its end only after that.
CtrlInv ==
  /\ ~ctrl_open \/ ctrl # <<>> => worker \in Late
  /\ Len(ctrl) <= 1
  /\ ctrl_closed => in_table /\ ctrl = <<>> /\ worker \in Late

\* Every step keeps CtrlInv.
LEMMA CtrlStep == TypeOK /\ CtrlInv /\ [Next]_vars => CtrlInv'
<1> SUFFICES ASSUME TypeOK, CtrlInv, [Next]_vars PROVE CtrlInv' OBVIOUS
<1> USE DEF TypeOK, CtrlInv, Late, Gone, InJs, SwapSignal, RemoveEntry, KeepEntry,
      CloseChannel, TerminateSelf
<1>1. CASE HandleStep
  <2>1. CASE Disentangle BY <2>1 DEF Disentangle
  <2>2. CASE ScheduleTermination BY <2>2 DEF ScheduleTermination
  <2> QED BY <1>1, <2>1, <2>2 DEF HandleStep
<1>2. CASE Kill BY <1>2 DEF Kill
<1>3. CASE HostLoop
  <2>1. CASE CtrlCall BY <2>1 DEF CtrlCall
  <2>2. CASE CtrlResolve BY <2>2 DEF CtrlResolve
  <2>3. CASE CtrlHandle BY <2>3 DEF CtrlHandle
  <2>4. CASE MsgCall BY <2>4 DEF MsgCall
  <2>5. CASE MsgResolve BY <2>5 DEF MsgResolve
  <2>6. CASE MsgHandle BY <2>6 DEF MsgHandle
  <2> QED BY <1>3, <2>1, <2>2, <2>3, <2>4, <2>5, <2>6 DEF HostLoop
<1>4. CASE Terminate BY <1>4 DEF Terminate
<1>5. CASE HostExit BY <1>5 DEF HostExit
<1>6. CASE HostPost BY <1>6 DEF HostPost
<1>7. CASE WorkerSystem
  <2>1. CASE Load BY <2>1 DEF Load
  <2>2. CASE PollCheck BY <2>2 DEF PollCheck
  <2>3. CASE Terminating BY <2>3 DEF Terminating
  <2>4. CASE CloseCtrl BY <2>4 DEF CloseCtrl
  <2>5. CASE PollRegister BY <2>5 DEF PollRegister
  <2>6. CASE Interrupt BY <2>6 DEF Interrupt
  <2>7. CASE PollReady BY <2>7 DEF PollReady
  <2>8. CASE LeaveMain BY <2>8 DEF LeaveMain
  <2>9. CASE Executed BY <2>9 DEF Executed
  <2>10. CASE Wake BY <2>10 DEF Wake
  <2>11. CASE PostCheck BY <2>11 DEF PostCheck
  <2>12. CASE PostSend BY <2>12 DEF PostSend
  <2>13. CASE Exit BY <2>13 DEF Exit
  <2> QED
    BY <1>7, <2>1, <2>2, <2>3, <2>4, <2>5, <2>6, <2>7, <2>8, <2>9, <2>10, <2>11, <2>12,
       <2>13 DEF WorkerSystem
<1>8. CASE Js
  <2>1. CASE JsPost BY <2>1 DEF JsPost
  <2>2. CASE JsRecv BY <2>2 DEF JsRecv
  <2>3. CASE JsStep BY <2>3 DEF JsStep
  <2>4. CASE JsThrowOrSpin BY <2>4 DEF JsThrowOrSpin
  <2>5. CASE JsClose BY <2>5 DEF JsClose
  <2>6. CASE JsYield BY <2>6 DEF JsYield
  <2> QED BY <1>8, <2>1, <2>2, <2>3, <2>4, <2>5, <2>6 DEF Js
<1>9. CASE OpCompletes BY <1>9 DEF OpCompletes
<1>10. CASE UNCHANGED vars BY <1>10 DEF vars
<1> QED BY <1>1, <1>2, <1>3, <1>4, <1>5, <1>6, <1>7, <1>8, <1>9, <1>10 DEF Next


\* Messages that op_host_recv_message has returned and the host has not dispatched.
InFlight == IF msg_data = 0 THEN 0 ELSE 1

\* Every message is dispatched, in flight or in the port, in the order of posting.
Flow ==
  /\ received + InFlight + Len(to_host) = posted
  /\ msg_data # 0 => msg_data = received + 1
  /\ \A i \in 1..Len(to_host) : to_host[i] = received + InFlight + i

\* A message that the worker posts comes last.
LEMMA FlowPost ==
  ASSUME TypeOK, Flow, UNCHANGED <<msg_data, received>>, posted' = posted + 1,
         to_host' = Append(to_host, posted + 1)
  PROVE  Flow'
<1>1. /\ received \in Nat /\ posted \in Nat /\ to_host \in Seq(1..MaxPosts)
      /\ InFlight \in Nat /\ InFlight' = InFlight
  BY DEF TypeOK, InFlight
<1>2. Len(to_host) \in Nat /\ Len(to_host') = Len(to_host) + 1 BY <1>1
<1>3. posted = received + InFlight + Len(to_host) BY <1>1, <1>2 DEF Flow
<1>4. ASSUME NEW i \in 1..Len(to_host')
      PROVE  to_host'[i] = received + InFlight + i
  <2>1. CASE i \in 1..Len(to_host) BY <1>1, <2>1 DEF Flow
  <2>2. CASE i = Len(to_host) + 1 BY <1>1, <1>2, <1>3, <2>2
  <2> QED BY <1>2, <2>1, <2>2
<1> QED BY <1>1, <1>2, <1>3, <1>4 DEF Flow

\* The worker is gone and the host has dispatched all that it posted.
Drained == worker \in Gone /\ to_host = <<>> /\ received = posted /\ msg_data = 0

\* RemovedWhenDrained, and what keeps it: nothing is lost while the worker is in
\* the table, and the end of the message channel is seen only when it is drained.
DrainInv ==
  /\ status = "TERMINATED" \/ host_down => ~in_table
  /\ msg_data # 0 => msg_poll = "resolved"
  /\ in_table /\ msg_poll # "error" => Flow
  /\ message_closed => Drained /\ in_table
  /\ ~in_table /\ status # "TERMINATED" /\ ~host_down /\ msg_poll # "error" =>
       Drained /\ ctrl = <<>>

\* Every step keeps DrainInv.
LEMMA DrainStep == TypeOK /\ CtrlInv /\ DrainInv /\ [Next]_vars => DrainInv'
<1> SUFFICES ASSUME TypeOK, CtrlInv, DrainInv, [Next]_vars PROVE DrainInv' OBVIOUS
<1> USE DEF TypeOK, CtrlInv, DrainInv, Drained, Flow, InFlight, HandleAlive, Late, Gone,
      InJs, HostRuns, SwapSignal, RemoveEntry, KeepEntry, CloseChannel, TerminateSelf
<1>1. CASE HandleStep
  <2>1. CASE Disentangle BY <2>1 DEF Disentangle
  <2>2. CASE ScheduleTermination BY <2>2 DEF ScheduleTermination
  <2> QED BY <1>1, <2>1, <2>2 DEF HandleStep
<1>2. CASE Kill BY <1>2 DEF Kill
<1>3. CASE HostLoop
  <2>1. CASE CtrlCall BY <2>1 DEF CtrlCall
  <2>2. CASE CtrlResolve BY <2>2 DEF CtrlResolve
  <2>3. CASE CtrlHandle BY <2>3 DEF CtrlHandle
  <2>4. CASE MsgCall BY <2>4 DEF MsgCall
  <2>5. CASE MsgResolve
    <3>0. msg_poll = "await" /\ msg_data = 0 BY <2>5 DEF MsgResolve
    <3>1. CASE ~in_table BY <2>5, <3>0, <3>1 DEF MsgResolve
    <3>2. CASE in_table /\ to_host # <<>>
      <4>1. /\ to_host' = Tail(to_host) /\ msg_data' = Head(to_host)
            /\ msg_poll' = "resolved"
            /\ UNCHANGED <<tableVars, status, host_down, worker, received, posted, ctrl>>
        BY <2>5, <3>2 DEF MsgResolve
      <4>2. Len(to_host) >= 1 /\ msg_data' = received + 1
        BY <3>0, <3>2, <4>1
      <4>3. Len(to_host') = Len(to_host) - 1 BY <4>1, <4>2
      <4>4. ASSUME NEW i \in 1..Len(to_host') PROVE to_host'[i] = received + 1 + i
        <5>1. to_host'[i] = to_host[i + 1] /\ i + 1 \in 1..Len(to_host)
          BY <4>1, <4>2, <4>3, <4>4
        <5> QED BY <3>0, <3>2, <5>1
      <4>5. Flow' BY <3>0, <3>2, <4>1, <4>2, <4>3, <4>4
      <4> QED BY <3>2, <4>1, <4>2, <4>5
    <3>3. CASE in_table /\ to_host = <<>>
      <4>1. /\ worker \in Gone /\ msg_data' = 0 /\ msg_poll' = "resolved"
            /\ CloseChannel(FALSE, TRUE)
            /\ UNCHANGED <<status, host_down, worker, to_host, received, posted, ctrl>>
        BY <2>5, <3>3 DEF MsgResolve
      <4>2. Drained' BY <3>0, <3>3, <4>1
      <4>3. Flow' BY <3>3, <4>1, <4>2
      <4>4. message_closed' => in_table' BY <3>3, <4>1
      <4>5. ~in_table' => ctrl_closed BY <3>3, <4>1
      <4> QED BY <3>3, <4>1, <4>2, <4>3, <4>4, <4>5
    <3> QED BY <3>1, <3>2, <3>3
  <2>6. CASE MsgHandle
    <3>0. UNCHANGED <<tableVars, status, host_down, worker, to_host, posted, ctrl>>
          /\ msg_data' = 0
      BY <2>6 DEF MsgHandle
    <3>1. CASE status = "TERMINATED" \/ msg_data = 0 BY <2>6, <3>0, <3>1 DEF MsgHandle
    <3>2. CASE status # "TERMINATED" /\ msg_data # 0
      <4>1. \/ msg_poll' = "call" /\ received' = msg_data
            \/ msg_poll' = "error" /\ received' = received
        BY <2>6, <3>2 DEF MsgHandle
      <4>2. CASE msg_poll' = "call" /\ received' = msg_data
        <5>1. Flow => Flow' BY <3>0, <3>2, <4>2
        <5> QED BY <2>6, <3>0, <3>2, <4>2, <5>1 DEF MsgHandle
      <4>3. CASE msg_poll' = "error" BY <2>6, <3>0, <3>2, <4>1, <4>3 DEF MsgHandle
      <4> QED BY <4>1, <4>2, <4>3
    <3> QED BY <3>1, <3>2
  <2> QED BY <1>3, <2>1, <2>2, <2>3, <2>4, <2>5, <2>6 DEF HostLoop
<1>4. CASE Terminate BY <1>4 DEF Terminate
<1>5. CASE HostExit BY <1>5 DEF HostExit
<1>6. CASE HostPost BY <1>6 DEF HostPost
<1>7. CASE WorkerSystem
  <2>1. CASE Load BY <2>1 DEF Load
  <2>2. CASE PollCheck BY <2>2 DEF PollCheck
  <2>3. CASE Terminating BY <2>3 DEF Terminating
  <2>4. CASE CloseCtrl BY <2>4 DEF CloseCtrl
  <2>5. CASE PollRegister BY <2>5 DEF PollRegister
  <2>6. CASE Interrupt BY <2>6 DEF Interrupt
  <2>7. CASE PollReady BY <2>7 DEF PollReady
  <2>8. CASE LeaveMain BY <2>8 DEF LeaveMain
  <2>9. CASE Executed BY <2>9 DEF Executed
  <2>10. CASE Wake BY <2>10 DEF Wake
  <2>11. CASE PostCheck BY <2>11 DEF PostCheck
  <2>12. CASE PostSend BY <2>12 DEF PostSend
  <2>13. CASE Exit BY <2>13 DEF Exit
  <2> QED
    BY <1>7, <2>1, <2>2, <2>3, <2>4, <2>5, <2>6, <2>7, <2>8, <2>9, <2>10, <2>11, <2>12,
       <2>13 DEF WorkerSystem
<1>8. CASE Js
  <2>1. CASE JsPost
    <3>0. /\ worker = "js" /\ posted' = posted + 1
          /\ UNCHANGED <<tableVars, status, host_down, msg_poll, msg_data, received,
                         worker, ctrl>>
      BY <2>1 DEF JsPost
    <3>1. ASSUME in_table, msg_poll # "error" PROVE Flow'
      <4>1. to_host' = Append(to_host, posted + 1) BY <2>1, <3>1 DEF JsPost
      <4>2. Flow BY <3>1
      <4> QED BY <3>0, <4>1, <4>2, FlowPost
    <3> QED BY <3>0, <3>1
  <2>2. CASE JsRecv BY <2>2 DEF JsRecv
  <2>3. CASE JsStep BY <2>3 DEF JsStep
  <2>4. CASE JsThrowOrSpin BY <2>4 DEF JsThrowOrSpin
  <2>5. CASE JsClose BY <2>5 DEF JsClose
  <2>6. CASE JsYield BY <2>6 DEF JsYield
  <2> QED BY <1>8, <2>1, <2>2, <2>3, <2>4, <2>5, <2>6 DEF Js
<1>9. CASE OpCompletes BY <1>9 DEF OpCompletes
<1>10. CASE UNCHANGED vars BY <1>10 DEF vars
<1> QED BY <1>1, <1>2, <1>3, <1>4, <1>5, <1>6, <1>7, <1>8, <1>9, <1>10 DEF Next


\* A worker leaves the host's table on its own only when its thread is gone and the
\* host has received every message it posted and its terminal error.
THEOREM RemovedWhenDrainedCorrect == Spec => []RemovedWhenDrained
<1>1. Init => CtrlInv /\ DrainInv
  BY DEF Init, CtrlInv, DrainInv, Flow, InFlight
<1>2. DrainInv => RemovedWhenDrained BY DEF DrainInv, Drained, RemovedWhenDrained
<1> QED BY <1>1, <1>2, CtrlStep, DrainStep, TypeCorrect, PTL DEF Spec

\* The host dispatches the messages of the worker one by one in the order of
\* posting: none is skipped, repeated or overtaken, also when the worker closes,
\* fails or is terminated in between.
DispatchedInOrder == [][received' = received + 1]_received

\* A step of #pollMessages is the only one that dispatches, and what is in flight
\* is the message after the last one dispatched.
THEOREM DispatchedInOrderCorrect == Spec => DispatchedInOrder
<1>1. Init => CtrlInv /\ DrainInv
  BY DEF Init, CtrlInv, DrainInv, Flow, InFlight
<1>2. TypeOK /\ DrainInv /\ [Next]_vars => [received' = received + 1]_received
  <2> SUFFICES ASSUME TypeOK, DrainInv, [Next]_vars, received' # received
               PROVE  received' = received + 1
    OBVIOUS
  <2>1. MsgHandle
    <3>1. CASE HostLoop
      BY <3>1 DEF HostLoop, CtrlCall, CtrlResolve, CtrlHandle, MsgCall, MsgResolve
    <3>2. CASE HandleStep BY <3>2 DEF HandleStep, Disentangle, ScheduleTermination
    <3>3. CASE WorkerSystem
      BY <3>3 DEF WorkerSystem, Load, PollCheck, Terminating, CloseCtrl, PollRegister,
           Interrupt, PollReady, LeaveMain, Executed, Wake, PostCheck, PostSend, Exit
    <3>4. CASE Js
      BY <3>4 DEF Js, JsPost, JsRecv, JsStep, JsThrowOrSpin, JsClose, JsYield
    <3> QED BY <3>1, <3>2, <3>3, <3>4
          DEF Next, vars, Kill, Terminate, HostExit, HostPost, OpCompletes
  <2>2. /\ status # "TERMINATED" /\ ~host_down /\ msg_poll = "resolved"
        /\ msg_data # 0 /\ received' = msg_data
    BY <2>1 DEF MsgHandle, HostRuns
  <2>3. in_table BY <2>2 DEF DrainInv, Drained
  <2> QED BY <2>2, <2>3 DEF DrainInv, Flow
<1> QED BY <1>1, <1>2, CtrlStep, DrainStep, TypeCorrect, PTL DEF Spec, DispatchedInOrder
=============================================================================
