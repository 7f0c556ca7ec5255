---------------------------- MODULE ServiceControl ----------------------------
(***************************************************************************)
(* The Windows service (MZ_VisionServerApp, release build). Three actors:  *)
(* the service control manager, which is external; the main thread, which  *)
(* runs _tmain, waits in the dispatcher and runs ServiceStrl there for     *)
(* every control; and the thread the dispatcher starts for ServiceMain.    *)
(***************************************************************************)
VARIABLES installed,  \* the service is known to the manager
          reported,   \* the state last told it with SetServiceStatus
          status,     \* status.dwCurrentState, which both threads write
          main,       \* where the main thread is
          svc,        \* where the thread of ServiceMain is
          running,    \* g_bServicRunning
          kernel,     \* g_msvKernelMng is not NULL
          exitEvent,  \* g_hExitEvent: null, unset or set
          libs        \* Winsock, COM and the camera library are initialised

svcVars == <<installed, reported, status, main, svc, running, kernel, exitEvent, libs>>

States == {"none", "startPending", "running", "stopped", "noChange"}

SvcInit ==
    /\ installed = FALSE
    /\ reported = "none" /\ status = "none"
    /\ main = "ended" /\ svc = "none"
    /\ running = FALSE /\ kernel = FALSE
    /\ exitEvent = "null" /\ libs = FALSE

-----------------------------------------------------------------------------
(* The manager: nobody of the repository calls Install and Uninstall *)

Install ==
    /\ ~installed
    /\ installed' = TRUE
    /\ UNCHANGED <<reported, status, main, svc, running, kernel, exitEvent, libs>>

(* dwControlsAccepted asks for SERVICE_ACCEPT_STOP from the first report on, so
   the manager passes on a stop while the start is pending; INTERROGATE and user
   controls when the service has reported itself running. *)
Accepts(op) ==
    /\ main = "dispatch"
    /\ reported = "running" \/ (op = "stop" /\ reported = "startPending")

(* The manager hands a control to the dispatcher, which calls ServiceStrl *)
Control ==
    /\ \E op \in {"stop", "interrogate", "bad"} : Accepts(op) /\ main' = op
    /\ UNCHANGED <<installed, reported, status, svc, running, kernel, exitEvent, libs>>

(* Uninstall asks for a stop before it deletes the service *)
Uninstall ==
    /\ installed
    /\ installed' = FALSE
    /\ main' = IF Accepts("stop") THEN "stop" ELSE main
    /\ UNCHANGED <<reported, status, svc, running, kernel, exitEvent, libs>>

-----------------------------------------------------------------------------
(* The main thread *)

(* Slip: the event is created before the dispatcher is entered *)
EventOfStart == "unset"
(* It is created when the dispatcher has returned; a handler finds NULL *)
EventBeforeDispatcher == "null"

(* _tmain: the libraries, then the dispatcher, which starts ServiceMain unless
   it finds no manager *)
StartProcess ==
    /\ installed /\ main = "ended"
    /\ libs' = TRUE
    /\ exitEvent' = EventBeforeDispatcher
    /\ running' = FALSE /\ kernel' = FALSE
    /\ status' = "startPending" /\ reported' = "none"
    /\ \/ main' = "dispatch" /\ svc' = "start"
       \/ main' = "close" /\ svc' = "none"
    /\ UNCHANGED installed

(* ServiceStrl, SERVICE_CONTROL_STOP *)
StopFlag ==
    /\ main = "stop"
    /\ running' = FALSE
    /\ main' = "stopWork"
    /\ UNCHANGED <<installed, reported, status, svc, kernel, exitEvent, libs>>

StopWorkMoudle ==
    /\ main = "stopWork"
    /\ kernel' = FALSE
    /\ main' = "wait"
    /\ UNCHANGED <<installed, reported, status, svc, running, exitEvent, libs>>

(* A wait for NULL fails at once; the event resets itself *)
WaitForExit ==
    /\ main = "wait" /\ exitEvent # "unset"
    /\ exitEvent' = IF exitEvent = "set" THEN "unset" ELSE exitEvent
    /\ status' = "stopped"
    /\ main' = "report"
    /\ UNCHANGED <<installed, reported, svc, running, kernel, libs>>

(* SERVICE_CONTROL_INTERROGATE is 4, as SERVICE_RUNNING is *)
OtherControl ==
    /\ main \in {"interrogate", "bad"}
    /\ status' = IF main = "interrogate" THEN "running" ELSE "noChange"
    /\ main' = "report"
    /\ UNCHANGED <<installed, reported, svc, running, kernel, exitEvent, libs>>

(* SetServiceStatus: no service reports "no change", and none is heard of again
   once it has stopped *)
Heard == IF status = "noChange" \/ reported = "stopped" THEN reported ELSE status

ReportControl ==
    /\ main = "report"
    /\ reported' = Heard
    /\ main' = "dispatch"
    /\ UNCHANGED <<installed, status, svc, running, kernel, exitEvent, libs>>

(* InitService and _tmain after the dispatcher: the event, the libraries, and
   the end of the process, which ends the other thread wherever it is *)
DispatcherReturns ==
    /\ main = "dispatch" /\ reported = "stopped"
    /\ exitEvent' = "unset"
    /\ main' = "close"
    /\ UNCHANGED <<installed, reported, status, svc, running, kernel, libs>>

EndProcess ==
    /\ main = "close"
    /\ libs' = FALSE
    /\ main' = "ended" /\ svc' = "none"
    /\ UNCHANGED <<installed, reported, status, running, kernel, exitEvent>>

-----------------------------------------------------------------------------
(* The thread of ServiceMain *)

RegisterHandler ==
    /\ svc = "start"
    /\ status' = "startPending"
    /\ \/ reported' = "startPending" /\ svc' = "registered"
       \/ UNCHANGED reported /\ svc' = "done"     \* the handler is not installed
    /\ UNCHANGED <<installed, main, running, kernel, exitEvent, libs>>

SetRunning ==
    /\ svc = "registered"
    /\ status' = "running"
    /\ svc' = "reporting"
    /\ UNCHANGED <<installed, reported, main, running, kernel, exitEvent, libs>>

ReportRunning ==
    /\ svc = "reporting"
    /\ reported' = Heard
    /\ svc' = "starting"
    /\ UNCHANGED <<installed, status, main, running, kernel, exitEvent, libs>>

(* StartWorkMoudle: the kernel manager, then the flag, whatever it holds *)
MakeKernel ==
    /\ svc = "starting"
    /\ kernel' = TRUE
    /\ svc' = "made"
    /\ UNCHANGED <<installed, reported, status, main, running, exitEvent, libs>>

SetFlag ==
    /\ svc = "made"
    /\ running' = TRUE
    /\ svc' = "loop"
    /\ UNCHANGED <<installed, reported, status, main, kernel, exitEvent, libs>>

LeaveLoop ==
    /\ svc = "loop" /\ ~running
    /\ exitEvent' = IF exitEvent = "null" THEN "null" ELSE "set"
    /\ svc' = "done"
    /\ UNCHANGED <<installed, reported, status, main, running, kernel, libs>>

MainThread ==
    \/ StopFlag \/ StopWorkMoudle \/ WaitForExit \/ OtherControl
    \/ ReportControl \/ DispatcherReturns \/ EndProcess
ServiceThread ==
    \/ RegisterHandler \/ SetRunning \/ ReportRunning
    \/ MakeKernel \/ SetFlag \/ LeaveLoop

SvcNext == Install \/ Control \/ Uninstall \/ StartProcess \/ MainThread \/ ServiceThread

SvcSpec == SvcInit /\ [][SvcNext]_svcVars /\ WF_svcVars(MainThread) /\ WF_svcVars(ServiceThread)

-----------------------------------------------------------------------------
(* Types; a thread of the service runs in its process only *)
SvcTypeOK ==
    /\ installed \in BOOLEAN /\ running \in BOOLEAN /\ kernel \in BOOLEAN /\ libs \in BOOLEAN
    /\ reported \in States \ {"noChange"} /\ status \in States
    /\ main \in {"ended", "dispatch", "stop", "stopWork", "wait",
                 "interrogate", "bad", "report", "close"}
    /\ svc \in {"none", "start", "registered", "reporting", "starting", "made", "loop", "done"}
    /\ exitEvent \in {"null", "unset", "set"}
    /\ main = "ended" => svc = "none"
    /\ libs = (main # "ended")

(* A handler of a stop returns to the dispatcher, whichever point of its start
   the service has reached: the flag that StartWorkMoudle sets after ServiceStrl
   has cleared it keeps the loop going, but nothing waits for the loop. *)
StopHandled == main = "stop" ~> main = "dispatch"

(* "When the service is stopped in the service manager, the code here runs"
   (MZ_VisionServerApp.cpp:198): a service that was asked to stop stops. *)
StopEnds == main = "stop" ~> main = "ended"
=============================================================================
