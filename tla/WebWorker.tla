------------------------------ MODULE WebWorker ------------------------------
(***************************************************************************)
(* A web worker and its host: runtime/web_worker.rs, ops/worker_host.rs,   *)
(* ops/web_worker.rs, js/11_workers.js, js/99_main.js and the message      *)
(* ports of ext/web/message_port.rs that join them.                        *)
(*                                                                         *)
(* Three threads share the state: the host (its JavaScript and the ops it  *)
(* awaits), the worker, and the thread that kills the worker two seconds   *)
(* after terminate().  A thread's step holds at most one access to what    *)
(* the others can see.  Messages are numbered in the order they are posted.*)
(***************************************************************************)
EXTENDS Naturals, Sequences

CONSTANTS
  MaxPosts,       \* bound: messages the worker posts
  MaxHostPosts    \* bound: messages the host posts

ASSUME BoundsAssumption == MaxPosts \in Nat /\ MaxHostPosts \in Nat

VARIABLES
  \* host: the Worker object
  status,         \* Worker.#status
  ctrl_poll,      \* where #pollControl is: at its op call, awaiting it, resolved, done
  msg_poll,       \* where #pollMessages is; "error": ended by a messageerror
  ctrl_event,     \* what op_host_recv_ctrl resolved to
  msg_data,       \* what op_host_recv_message resolved to (0: null)
  received,       \* messages dispatched to the host so far
  saw_error,      \* the host dispatched the worker's terminal error
  \* host: WorkersTable
  in_table, ctrl_closed, message_closed,
  host,           \* the host thread: "idle", or where it is in WebWorkerHandle::terminate
  host_down,      \* the host's runtime is gone
  schedule,       \* schedule_termination in WebWorkerHandle::terminate
  \* shared
  termination_signal, has_terminated,
  waker,          \* terminate_waker holds a waker
  killer,         \* the delayed kill: "none", "sleeping", "done"
  executions,     \* calls of IsolateHandle::terminate_execution
  host_tx,        \* the host's end of the message port can send
  to_host, to_worker,   \* messages in the two directions of the port
  ctrl,           \* control events in the channel
  ctrl_open,      \* the worker has not closed the control channel
  \* worker
  close_on_idle,  \* a worker of node:worker_threads
  worker,         \* where the worker thread is
  stage,          \* "main": in execute_main_module, "loop": in run_event_loop
  evaluated,      \* the main module: "no" (not evaluated yet), "ok" or "error"
  has_executed_main_module,
  listener,       \* JavaScript keeps an idle worker alive: a listener or a child
  recv,           \* pollForMessages: "off", "waiting", "ended", "threw"
  op,             \* another op of the worker: "none", "pending", "ready"
  notified,       \* the worker's task has been woken
  posted,         \* messages the worker has posted
  host_posted,    \* messages the host has posted
  failed          \* the worker ended with an error it must report

hostVars == <<status, ctrl_poll, msg_poll, ctrl_event, msg_data, received, saw_error>>
tableVars == <<in_table, ctrl_closed, message_closed>>
handleVars == <<host, schedule, host_down>>
termVars == <<termination_signal, has_terminated, waker, killer, executions>>
portVars == <<host_tx, to_host, to_worker, posted, host_posted>>
ctrlVars == <<ctrl, ctrl_open>>
jsVars == <<close_on_idle, stage, evaluated, has_executed_main_module, listener, recv, op>>
workerVars == <<worker, jsVars, notified, failed>>
vars == <<hostVars, tableVars, handleVars, termVars, portVars, ctrlVars, workerVars>>

Init ==
  /\ status = "RUNNING" /\ ctrl_poll = "call" /\ msg_poll = "call"
  /\ ctrl_event = "none" /\ msg_data = 0 /\ received = 0 /\ saw_error = FALSE
  /\ in_table = TRUE /\ ctrl_closed = FALSE /\ message_closed = FALSE
  /\ host = "idle" /\ schedule = FALSE /\ host_down = FALSE
  /\ termination_signal = FALSE /\ has_terminated = FALSE /\ waker = FALSE
  /\ killer = "none" /\ executions = 0
  /\ host_tx = TRUE /\ to_host = <<>> /\ to_worker = <<>>
  /\ posted = 0 /\ host_posted = 0
  /\ ctrl = <<>> /\ ctrl_open = TRUE
  /\ close_on_idle \in BOOLEAN
  /\ worker = "loading" /\ stage = "main" /\ evaluated = "no"
  /\ has_executed_main_module = FALSE /\ listener = FALSE
  /\ recv = "off" /\ op = "none" /\ notified = TRUE /\ failed = FALSE

-----------------------------------------------------------------------------
(* The host thread. *)

Gone == {"exited", "panic_idle", "panic_post"}

\* A WebWorkerHandle exists: in the table, in an op that awaits, or in terminate().
HandleAlive ==
  in_table \/ host # "idle" \/ ctrl_poll = "await" \/ msg_poll = "await"

HostRuns == host = "idle" /\ ~host_down

\* Mutant: the signal is read where it should be swapped.
SignalRead ==
  /\ host' = "disentangle"
  /\ schedule' = ~termination_signal
  /\ UNCHANGED termination_signal

\* The first step of WebWorkerHandle::terminate: swap the termination signal.
SwapSignal ==
  /\ host' = "disentangle"
  /\ schedule' = ~termination_signal
  /\ termination_signal' = TRUE

\* The port's sender is dropped, and the worker's recv sees the end.
Disentangle ==
  /\ host = "disentangle"
  /\ host' = "schedule"
  /\ host_tx' = FALSE
  /\ UNCHANGED <<hostVars, tableVars, schedule, host_down, termVars, to_host,
                 to_worker, posted, host_posted, ctrlVars, workerVars>>


\* Wake the worker's event loop and spawn the thread that stops the isolate.
ScheduleTermination ==
  /\ host = "schedule"
  /\ host' = "idle"
  /\ IF schedule /\ ~has_terminated
     THEN /\ notified' = (notified \/ waker)
          /\ waker' = FALSE
          /\ killer' = "sleeping"
     ELSE UNCHANGED <<notified, waker, killer>>
  /\ schedule' = FALSE
  /\ UNCHANGED <<hostVars, tableVars, host_down, termination_signal,
                 has_terminated, executions, portVars, ctrlVars, worker, jsVars,
                 failed>>

\* After two seconds, unless the worker has terminated itself by then.
Kill ==
  /\ killer = "sleeping"
  /\ killer' = "done"
  /\ has_terminated' = TRUE
  /\ executions' = IF has_terminated THEN executions ELSE executions + 1
  /\ UNCHANGED <<hostVars, tableVars, handleVars, termination_signal, waker,
                 portVars, ctrlVars, workerVars>>

\* A WorkerThread leaves the table: its drop terminates the worker.
RemoveEntry ==
  /\ in_table' = FALSE /\ ctrl_closed' = FALSE /\ message_closed' = FALSE
  /\ SwapSignal

KeepEntry == UNCHANGED <<in_table, host, schedule, termination_signal>>

\* Mutant: either end of a channel is enough to remove the worker.
CloseEither(ctrlEnd, msgEnd) ==
  IF in_table /\ (ctrlEnd \/ msgEnd) THEN RemoveEntry
  ELSE KeepEntry /\ UNCHANGED <<ctrl_closed, message_closed>>

\* Mutant: the end of one channel forgets the end of the other.
CloseForgets(ctrlEnd, msgEnd) ==
  /\ KeepEntry
  /\ ctrl_closed' = (in_table /\ ctrlEnd)
  /\ message_closed' = (in_table /\ msgEnd)

\* close_channel: the second end of a channel removes the worker, which
\* terminates it.
CloseChannel(ctrlEnd, msgEnd) ==
  LET ctrlDone == ctrl_closed \/ ctrlEnd
      msgDone == message_closed \/ msgEnd
  IN IF in_table /\ ctrlDone /\ msgDone THEN RemoveEntry
     ELSE /\ KeepEntry
          /\ ctrl_closed' = (in_table /\ ctrlDone)
          /\ message_closed' = (in_table /\ msgDone)

\* Worker.terminate() and op_host_terminate_worker
Terminate ==
  /\ HostRuns
  /\ status # "TERMINATED"
  /\ status' = "TERMINATED"
  /\ IF in_table THEN RemoveEntry ELSE KeepEntry /\ UNCHANGED tableVars
  /\ UNCHANGED <<ctrl_poll, msg_poll, ctrl_event, msg_data, received, saw_error,
                 host_down, has_terminated, waker, killer, executions, portVars,
                 ctrlVars, workerVars>>

\* The host's runtime is dropped, its ops and its table with it.
HostExit ==
  /\ HostRuns
  /\ host_down' = TRUE
  /\ ctrl_poll' = "done" /\ msg_poll' = "done"
  /\ ctrl_event' = "none" /\ msg_data' = 0
  /\ IF in_table THEN RemoveEntry ELSE KeepEntry /\ UNCHANGED tableVars
  /\ UNCHANGED <<status, received, saw_error, has_terminated, waker, killer,
                 executions, portVars, ctrlVars, workerVars>>

\* Worker.postMessage() and op_host_post_message
HostPost ==
  /\ HostRuns
  /\ host_posted < MaxHostPosts
  /\ status = "RUNNING"
  /\ host_posted' = host_posted + 1
  /\ to_worker' = IF in_table /\ host_tx /\ worker \notin Gone
                  THEN Append(to_worker, host_posted') ELSE to_worker
  /\ UNCHANGED <<hostVars, tableVars, handleVars, termVars, host_tx, to_host,
                 posted, ctrlVars, workerVars>>

\* #pollControl calls op_host_recv_ctrl while the worker is running.
CtrlCall ==
  /\ HostRuns
  /\ ctrl_poll = "call"
  /\ IF status # "RUNNING" THEN ctrl_poll' = "done" /\ UNCHANGED ctrl_event
     ELSE IF in_table THEN ctrl_poll' = "await" /\ UNCHANGED ctrl_event
     ELSE ctrl_poll' = "resolved" /\ ctrl_event' = "Close"
  /\ UNCHANGED <<status, msg_poll, msg_data, received, saw_error, tableVars,
                 handleVars, termVars, portVars, ctrlVars, workerVars>>

\* op_host_recv_ctrl resolves: cancelled by the removal of the worker, with an
\* event, or with the end of the channel.
CtrlResolve ==
  /\ HostRuns
  /\ ctrl_poll = "await"
  /\ ctrl_poll' = "resolved"
  /\ \/ /\ ~in_table
        /\ ctrl_event' = "Close"
        /\ UNCHANGED <<ctrl, tableVars, host, schedule, termination_signal>>
     \/ /\ in_table /\ ctrl # <<>>
        /\ ctrl_event' = Head(ctrl)
        /\ ctrl' = Tail(ctrl)
        /\ CloseChannel(Head(ctrl) = "TerminalError", FALSE)
     \/ /\ in_table /\ ctrl = <<>> /\ (~ctrl_open \/ worker \in Gone)
        /\ ctrl_event' = "Close"
        /\ CloseChannel(TRUE, FALSE)
        /\ UNCHANGED ctrl
  /\ UNCHANGED <<status, msg_poll, msg_data, received, saw_error, host_down,
                 has_terminated, waker, killer, executions, portVars, ctrl_open,
                 workerVars>>

\* #pollControl goes on with the event.  A terminal error that no handler
\* prevents is thrown, which ends the loop too.
CtrlHandle ==
  /\ HostRuns
  /\ ctrl_poll = "resolved"
  /\ ctrl_poll' = "done"
  /\ IF status = "TERMINATED" THEN UNCHANGED <<status, saw_error>>
     ELSE /\ status' = "CLOSED"
          /\ saw_error' = (saw_error \/ ctrl_event = "TerminalError")
  /\ ctrl_event' = "none"
  /\ UNCHANGED <<msg_poll, msg_data, received, tableVars, handleVars, termVars,
                 portVars, ctrlVars, workerVars>>

\* Mutant: #pollMessages stops when the worker is closed.
MsgCallRunning ==
  /\ HostRuns
  /\ msg_poll = "call"
  /\ IF status # "RUNNING" THEN msg_poll' = "done"
     ELSE IF in_table THEN msg_poll' = "await"
     ELSE msg_poll' = "resolved"
  /\ msg_data' = 0
  /\ UNCHANGED <<status, ctrl_poll, ctrl_event, received, saw_error, tableVars,
                 handleVars, termVars, portVars, ctrlVars, workerVars>>

\* #pollMessages calls op_host_recv_message until the worker is terminated.
MsgCall ==
  /\ HostRuns
  /\ msg_poll = "call"
  /\ IF status = "TERMINATED" THEN msg_poll' = "done"
     ELSE IF in_table THEN msg_poll' = "await"
     ELSE msg_poll' = "resolved"
  /\ msg_data' = 0
  /\ UNCHANGED <<status, ctrl_poll, ctrl_event, received, saw_error, tableVars,
                 handleVars, termVars, portVars, ctrlVars, workerVars>>

\* op_host_recv_message resolves: cancelled, with a message, or with the end of
\* the port once the worker's end is dropped and the queue is drained.
MsgResolve ==
  /\ HostRuns
  /\ msg_poll = "await"
  /\ msg_poll' = "resolved"
  /\ \/ /\ ~in_table
        /\ msg_data' = 0
        /\ UNCHANGED <<to_host, tableVars, host, schedule, termination_signal>>
     \/ /\ in_table /\ to_host # <<>>
        /\ msg_data' = Head(to_host)
        /\ to_host' = Tail(to_host)
        /\ UNCHANGED <<tableVars, host, schedule, termination_signal>>
     \/ /\ in_table /\ to_host = <<>> /\ worker \in Gone
        /\ msg_data' = 0
        /\ CloseChannel(FALSE, TRUE)
        /\ UNCHANGED to_host
  /\ UNCHANGED <<status, ctrl_poll, ctrl_event, received, saw_error, host_down,
                 has_terminated, waker, killer, executions, host_tx, to_worker,
                 posted, host_posted, ctrlVars, workerVars>>

\* #pollMessages goes on: dispatch the message, or give up on one that cannot
\* be deserialized.
MsgHandle ==
  /\ HostRuns
  /\ msg_poll = "resolved"
  /\ \/ /\ status = "TERMINATED" \/ msg_data = 0
        /\ msg_poll' = "done"
        /\ UNCHANGED received
     \/ /\ status # "TERMINATED" /\ msg_data # 0
        /\ \/ msg_poll' = "call" /\ received' = msg_data
           \/ msg_poll' = "error" /\ UNCHANGED received
  /\ msg_data' = 0
  /\ UNCHANGED <<status, ctrl_poll, ctrl_event, saw_error, tableVars,
                 handleVars, termVars, portVars, ctrlVars, workerVars>>

-----------------------------------------------------------------------------
(* The worker thread: run_web_worker. *)

\* Steps that leave everything but the worker's own state alone.
WorkerOnly == UNCHANGED <<hostVars, tableVars, handleVars, portVars, ctrlVars>>

at(l) == worker = l
goto(l) == worker' = l

\* preload_main_module is done: pollForMessages starts, unless the isolate has
\* been stopped, and the module's evaluation begins.
Load ==
  /\ at("loading")
  /\ \/ /\ goto("check")
        /\ recv' = IF executions > 0 THEN "off" ELSE "waiting"
        /\ UNCHANGED evaluated
     \/ goto("executed") /\ evaluated' = "error" /\ UNCHANGED recv
  /\ WorkerOnly
  /\ UNCHANGED <<termVars, close_on_idle, stage, has_executed_main_module,
                 listener, op, notified, failed>>

\* poll_event_loop first asks terminate_if_needed.
PollCheck ==
  /\ at("check")
  /\ goto(CASE has_terminated -> "leaving"
             [] ~has_terminated /\ termination_signal -> "terminating"
             [] OTHER -> "register")
  /\ notified' = FALSE
  /\ WorkerOnly
  /\ UNCHANGED <<termVars, jsVars, failed>>

\* Mutant: terminate() stops the isolate without looking who was first.
TerminateAgain ==
  /\ has_terminated' = TRUE
  /\ executions' = executions + 1
  /\ waker' = FALSE
  /\ goto("closing")
  /\ UNCHANGED <<termination_signal, killer>>

\* WebWorkerInternalHandle::terminate: only the first to swap has_terminated
\* stops the isolate.
TerminateSelf ==
  /\ has_terminated' = TRUE
  /\ executions' = IF has_terminated THEN executions ELSE executions + 1
  /\ waker' = FALSE
  /\ goto("closing")
  /\ UNCHANGED <<termination_signal, killer>>

\* terminate_if_needed found the signal.
Terminating ==
  /\ at("terminating")
  /\ TerminateSelf
  /\ UNCHANGED <<hostVars, tableVars, handleVars, portVars, ctrlVars, jsVars,
                 notified, failed>>

\* The end of terminate(): the parent is woken by closing the control channel.
\* With has_terminated set, every way on from here leaves run_web_worker.
CloseCtrl ==
  /\ at("closing")
  /\ ctrl_open' = FALSE
  /\ goto("leaving")
  /\ UNCHANGED <<hostVars, tableVars, handleVars, termVars, portVars, ctrl, jsVars,
                 notified, failed>>

PollRegister ==
  /\ at("register")
  /\ waker' = TRUE
  /\ goto("js")
  /\ WorkerOnly
  /\ UNCHANGED <<termination_signal, has_terminated, killer, executions, jsVars,
                 notified, failed>>

-----------------------------------------------------------------------------
(* JavaScript in one turn of the event loop, as long as it is not stopped. *)

InJs == at("js") /\ executions = 0

JsPost ==
  /\ InJs
  /\ posted < MaxPosts
  /\ posted' = posted + 1
  /\ to_host' = IF HandleAlive THEN Append(to_host, posted') ELSE to_host
  /\ UNCHANGED <<hostVars, tableVars, handleVars, termVars, host_tx, to_worker,
                 host_posted, ctrlVars, workerVars>>

\* op_worker_recv_message resolves, with a message or with the end of the port.
\* A message that cannot be deserialized, or whose listener throws, ends
\* pollForMessages with a rejection: the event loop fails, unless an
\* unhandledrejection listener prevents it, and nothing is received any more.
JsRecv ==
  /\ InJs
  /\ recv = "waiting"
  /\ \/ /\ to_worker # <<>>
        /\ to_worker' = Tail(to_worker)
        /\ \/ UNCHANGED <<recv, worker>>
           \/ recv' = "threw" /\ (goto("ready_err") \/ UNCHANGED worker)
     \/ /\ to_worker = <<>> /\ ~host_tx
        /\ recv' = "ended"
        /\ UNCHANGED <<to_worker, worker>>
  /\ UNCHANGED <<hostVars, tableVars, handleVars, termVars, host_tx, to_host,
                 posted, host_posted, ctrlVars, close_on_idle, stage, evaluated,
                 has_executed_main_module, listener, op, notified, failed>>

JsStep ==
  /\ InJs
  /\ \/ /\ evaluated = "no" /\ evaluated' \in {"ok", "error"}
        /\ UNCHANGED <<listener, op>>
     \/ close_on_idle /\ listener' = ~listener /\ UNCHANGED <<evaluated, op>>
     \/ op = "none" /\ op' = "pending" /\ UNCHANGED <<evaluated, listener>>
     \/ op = "ready" /\ op' = "none" /\ UNCHANGED <<evaluated, listener>>
  /\ WorkerOnly
  /\ UNCHANGED <<termVars, worker, close_on_idle, stage, has_executed_main_module, recv,
                 notified, failed>>

\* An error that nothing prevents, or an endless loop.  A rejection that an
\* unhandledrejection listener prevents leaves the turn to go on; JsRecv has the
\* one of pollForMessages.
JsThrowOrSpin ==
  /\ InJs
  /\ goto("ready_err") \/ goto("spinning")
  /\ WorkerOnly
  /\ UNCHANGED <<termVars, jsVars, notified, failed>>

\* close(): op_worker_close terminates the worker from within.
JsClose ==
  /\ InJs
  /\ TerminateSelf
  /\ UNCHANGED <<hostVars, tableVars, handleVars, portVars, ctrlVars, jsVars,
                 notified, failed>>

\* The stopped isolate ends whatever JavaScript runs.
Interrupt ==
  /\ worker \in {"js", "spinning"}
  /\ executions > 0
  /\ goto("ready_err")
  /\ WorkerOnly
  /\ UNCHANGED <<termVars, jsVars, notified, failed>>

\* What ends an idle worker of node:worker_threads.
Idle == close_on_idle /\ has_executed_main_module /\ ~listener

\* The turn ends.  While an op is pending so is the event loop, and
\* poll_event_loop parks the task or ends an idle worker.  With nothing left to
\* wait for, the loop is ready: with an error if the main module still waits,
\* without one otherwise.
JsYield ==
  /\ InJs
  /\ LET pending == recv = "waiting" \/ op # "none" IN
     goto(CASE pending /\ Idle -> "leaving"
            [] pending /\ ~Idle -> "parked"
            [] ~pending /\ evaluated = "no" -> "ready_err"
            [] OTHER -> "ready_ok")
  /\ WorkerOnly
  /\ UNCHANGED <<termVars, jsVars, notified, failed>>

-----------------------------------------------------------------------------
(* poll_event_loop after the turn. *)

\* The event loop ended: terminate_if_needed again, then the error, then
\* close_on_idle; nothing else should make an event loop end.
PollReady ==
  /\ worker \in {"ready_ok", "ready_err"}
  /\ LET err == at("ready_err") IN
     /\ IF has_terminated THEN goto("leaving")
        ELSE IF termination_signal THEN goto("terminating")
        ELSE IF ~err /\ ~close_on_idle THEN goto("panic_idle")
        ELSE IF stage = "main" THEN goto("executed")
        ELSE IF err THEN goto("post_check")
        ELSE goto("leaving")
     /\ failed' = (failed \/ worker' = "post_check")
     /\ evaluated' = IF err /\ worker' = "executed" THEN "error" ELSE evaluated
  /\ WorkerOnly
  /\ UNCHANGED <<termVars, close_on_idle, stage, has_executed_main_module, listener,
                 recv, op, notified>>

\* execute_main_module returns once the module is evaluated: its select! polls
\* the module's result before the event loop.
LeaveMain ==
  /\ at("parked") /\ stage = "main" /\ evaluated # "no"
  /\ has_executed_main_module' = TRUE
  /\ goto("executed")
  /\ WorkerOnly
  /\ UNCHANGED <<termVars, close_on_idle, stage, evaluated, listener, recv, op,
                 notified, failed>>

\* run_web_worker leaves if the worker is terminated, reports an error of the
\* main module, and runs the event loop otherwise.
Executed ==
  /\ at("executed")
  /\ goto(CASE has_terminated -> "leaving"
             [] ~has_terminated /\ evaluated = "error" -> "post_check"
             [] OTHER -> "check")
  /\ failed' = (worker' = "post_check")
  /\ stage' = "loop"
  /\ WorkerOnly
  /\ UNCHANGED <<termVars, close_on_idle, evaluated, has_executed_main_module,
                 listener, recv, op, notified>>

\* The parked task is polled again when something it waits for wakes it.
Wake ==
  /\ at("parked") /\ (stage = "loop" \/ evaluated = "no")
  /\ \/ notified
     \/ recv = "waiting" /\ (to_worker # <<>> \/ ~host_tx)
     \/ op = "ready"
  /\ goto("check")
  /\ WorkerOnly
  /\ UNCHANGED <<termVars, jsVars, notified, failed>>

OpCompletes ==
  /\ op = "pending"
  /\ worker \notin Gone
  /\ op' = "ready"
  /\ WorkerOnly
  /\ UNCHANGED <<termVars, worker, close_on_idle, stage, evaluated, has_executed_main_module,
                 listener, recv, notified, failed>>

-----------------------------------------------------------------------------
(* post_event: the check whether the channel is closed, then the send. *)

PostCheck ==
  /\ at("post_check")
  /\ IF HandleAlive /\ ctrl_open
     THEN goto("post_send") /\ UNCHANGED has_terminated
     ELSE goto("leaving") /\ has_terminated' = TRUE
  /\ WorkerOnly
  /\ UNCHANGED <<termination_signal, waker, killer, executions, jsVars, notified,
                 failed>>

\* Mutant: the thread ends without telling the host.
PostNothing ==
  /\ at("post_send")
  /\ goto("leaving")
  /\ WorkerOnly
  /\ UNCHANGED <<termVars, jsVars, notified, failed>>

\* Mutant: the error is sent as a Close event.
PostClose ==
  /\ at("post_send")
  /\ goto("leaving")
  /\ ctrl' = IF HandleAlive THEN Append(ctrl, "Close") ELSE ctrl
  /\ UNCHANGED <<hostVars, tableVars, handleVars, termVars, portVars, ctrl_open,
                 jsVars, notified, failed>>

\* The send fails if the host dropped the receiver since, and expect() panics.
PostSend ==
  /\ at("post_send")
  /\ IF HandleAlive
     THEN goto("leaving") /\ ctrl' = Append(ctrl, "TerminalError")
     ELSE goto("panic_post") /\ UNCHANGED ctrl
  /\ UNCHANGED <<hostVars, tableVars, handleVars, termVars, portVars, ctrl_open,
                 jsVars, notified, failed>>

\* The thread ends: its runtime, with the ops it awaits, and its ends of the
\* channels are dropped.
Exit ==
  /\ at("leaving")
  /\ goto("exited")
  /\ recv' = "off" /\ op' = "none" /\ listener' = FALSE
  /\ evaluated' = "no" /\ has_executed_main_module' = FALSE /\ stage' = "main"
  /\ waker' = FALSE /\ notified' = FALSE
  /\ WorkerOnly
  /\ UNCHANGED <<termination_signal, has_terminated, killer, executions,
                 close_on_idle, failed>>

HandleStep == Disentangle \/ ScheduleTermination
HostLoop == CtrlCall \/ CtrlResolve \/ CtrlHandle \/ MsgCall \/ MsgResolve \/ MsgHandle
Js == JsPost \/ JsRecv \/ JsStep \/ JsThrowOrSpin \/ JsClose \/ JsYield
WorkerSystem ==
  \/ Load \/ PollCheck \/ Terminating \/ CloseCtrl \/ PollRegister \/ Interrupt
  \/ PollReady \/ LeaveMain \/ Executed \/ Wake
  \/ PostCheck \/ PostSend \/ Exit

Next ==
  \/ HandleStep \/ Kill \/ HostLoop \/ Terminate \/ HostExit \/ HostPost
  \/ WorkerSystem \/ Js \/ OpCompletes

\* The threads run, the sleep ends, and the host's event loop polls its ops.
\* What JavaScript does is not assumed: it may run forever, and so may the ops it
\* awaits, an accept() or a read of stdin.
Fairness ==
  /\ WF_vars(HandleStep) /\ WF_vars(Kill) /\ WF_vars(WorkerSystem)
  /\ WF_vars(CtrlCall \/ CtrlResolve \/ CtrlHandle)
  /\ WF_vars(MsgCall \/ MsgResolve \/ MsgHandle)

Spec == Init /\ [][Next]_vars
FairSpec == Spec /\ Fairness
-----------------------------------------------------------------------------
TypeOK ==
  /\ status \in {"RUNNING", "CLOSED", "TERMINATED"}
  /\ ctrl_poll \in {"call", "await", "resolved", "done"}
  /\ msg_poll \in {"call", "await", "resolved", "done", "error"}
  /\ ctrl_event \in {"none", "TerminalError", "Close"}
  /\ msg_data \in 0..MaxPosts /\ received \in 0..MaxPosts
  /\ saw_error \in BOOLEAN /\ failed \in BOOLEAN
  /\ in_table \in BOOLEAN /\ ctrl_closed \in BOOLEAN /\ message_closed \in BOOLEAN
  /\ host \in {"idle", "disentangle", "schedule"}
  /\ schedule \in BOOLEAN /\ host_down \in BOOLEAN
  /\ termination_signal \in BOOLEAN /\ has_terminated \in BOOLEAN
  /\ waker \in BOOLEAN /\ notified \in BOOLEAN
  /\ killer \in {"none", "sleeping", "done"}
  /\ executions \in Nat
  /\ host_tx \in BOOLEAN
  /\ to_host \in Seq(1..MaxPosts) /\ to_worker \in Seq(1..MaxHostPosts)
  /\ posted \in 0..MaxPosts /\ host_posted \in 0..MaxHostPosts
  /\ ctrl \in Seq({"TerminalError"}) /\ ctrl_open \in BOOLEAN
  /\ worker \in {"loading", "check", "terminating", "closing", "register", "js", "spinning",
                 "ready_ok", "ready_err", "parked", "executed", "post_check",
                 "post_send", "leaving"} \cup Gone
  /\ close_on_idle \in BOOLEAN /\ stage \in {"main", "loop"}
  /\ evaluated \in {"no", "ok", "error"} /\ has_executed_main_module \in BOOLEAN
  /\ listener \in BOOLEAN
  /\ recv \in {"off", "waiting", "ended", "threw"} /\ op \in {"none", "pending", "ready"}

\* "either js is polling or the worker is terminated" (web_worker.rs:810): while
\* nobody asked the worker to end, the event loop runs dry without an error, and
\* the thread panics, in one case only: pollForMessages ended by a rejection
\* (99_main.js:298, :328) that the worker itself prevented (:505).  A port closed
\* by the host never does it, because the signal is set before the port is
\* disentangled.
NeverRunsDry == worker = "panic_idle" => recv = "threw"

\* "A worker's isolate can only be terminated once" (web_worker.rs:292): the
\* worker and the delayed kill never both stop the isolate.
TerminatedOnce == executions <= 1

\* "A WorkerThread that hasn't been explicitly terminated can only be removed
\* from the WorkersTable once close messages have been received for both the
\* control and message channels" (worker_host.rs:62-64): when a worker leaves the
\* table on its own, its thread is gone and the host has received everything the
\* worker posted, its terminal error included.
RemovedWhenDrained ==
  ~in_table /\ status # "TERMINATED" /\ ~host_down /\ msg_poll # "error" =>
    /\ worker \in Gone
    /\ to_host = <<>> /\ received = posted
    /\ ctrl = <<>>

\* The wake-up of terminate() is lost: it came between the worker's first check
\* of the signal (web_worker.rs:785) and the waker it registers (:789), the same
\* turn saw the port's end, and the worker is parked on an op of its own.
Stranded ==
  /\ at("parked") /\ termination_signal /\ killer # "none"
  /\ ~notified /\ recv # "waiting" /\ op = "pending"


\* "CLOSED means [...] there might still be messages left to receive"
\* (11_workers.js:89-91): every message the worker posts reaches the host, also
\* after the worker closed, unless the host terminates it, cannot read a
\* message, or goes away.
MessagesDelivered ==
  \A k \in 1..MaxPosts :
    posted >= k ~> \/ received >= k
                   \/ status = "TERMINATED" \/ msg_poll = "error" \/ host_down

\* A worker that fails reports its terminal error to a host that still listens.
ErrorReported ==
  failed ~> saw_error \/ status = "TERMINATED" \/ host_down

\* A worker whose thread is gone leaves the host's table.
EntryRemoved ==
  worker \in Gone ~> ~in_table \/ msg_poll = "error"
=============================================================================
