------------------------------ MODULE Daemon ------------------------------
(***************************************************************************)
(* The life of the daemon (main.rs, and attach and detach of bpf.rs): the  *)
(* start in encap or decap mode, the tasks it spawns, graceful_shutdown,   *)
(* and the end of the process. The programs it attaches outlive it: a      *)
(* crash leaves them on the interface, with the maps of the dead process.  *)
(***************************************************************************)
EXTENDS Integers, FiniteSets

CONSTANTS
  Mode,       \* "encap" or "decap"
  MaxStarts   \* bound on the starts of the daemon

ASSUME DaemonAssumption == Mode \in {"encap", "decap"} /\ MaxStarts \in Nat

(* The hook the daemon of this mode uses, and the tasks of its JoinSet. *)
Hooks == {"tc", "xdp"}
Hook == IF Mode = "encap" THEN "tc" ELSE "xdp"
Tasks == IF Mode = "encap" THEN {"metrics", "rtt", "speaker", "controller"} ELSE {"metrics"}

VARIABLES
  starts,     \* the incarnations of the daemon so far
  main,       \* where main is
  programs,   \* per hook, the incarnation whose program is attached, or 0
  signal,     \* SIGINT or SIGTERM has arrived
  running,    \* the tasks that have not ended
  polling,    \* the blocking thread of TcpRttEvents::poll
  token,      \* the cancellation token
  failed      \* hooks whose detachment failed

daemonVars == <<starts, main, programs, signal, running, polling, token, failed>>

DaemonInit ==
  /\ starts = 0 /\ main = "down" /\ programs = [h \in Hooks |-> 0]
  /\ signal = FALSE /\ running = {} /\ polling = FALSE /\ token = FALSE /\ failed = {}

---------------------------------------------------------------------------
Start ==
  /\ main = "down"
  /\ starts < MaxStarts
  /\ starts' = starts + 1
  /\ main' = "attach"
  /\ signal' = FALSE /\ token' = FALSE /\ failed' = {}
  /\ UNCHANGED <<programs, running, polling>>

Spawned ==
  /\ main' = "select"
  /\ running' = Tasks
  /\ polling' = (Mode = "encap")

AttachKeepsOld ==
  /\ main = "attach"
  /\ programs' = [programs EXCEPT ![Hook] = IF @ = 0 THEN starts ELSE @]
  /\ Spawned
  /\ UNCHANGED <<starts, signal, token, failed>>

(* attach_encap or attach_decap, which replaces a program it finds, and the *)
(* tasks of main.                                                           *)
Attach ==
  /\ main = "attach"
  /\ programs' = [programs EXCEPT ![Hook] = starts]
  /\ Spawned
  /\ UNCHANGED <<starts, signal, token, failed>>

(* The attachment fails: before the program is on the interface, or after,  *)
(* when the cgroup, erez_sockops or a map's descriptor is refused. main     *)
(* returns without a detachment.                                            *)
AttachFails ==
  /\ main = "attach"
  /\ \/ UNCHANGED programs
     \/ programs' = [programs EXCEPT ![Hook] = starts]
  /\ main' = "down"
  /\ UNCHANGED <<starts, signal, running, polling, token, failed>>

(* A task ends by itself: an error, or for the controller a closed channel. *)
(* The task rtt ends with its thread.                                       *)
TaskEnds(t) ==
  /\ main # "down" /\ t \in running
  /\ running' = running \ {t}
  /\ polling' = (polling /\ t # "rtt")
  /\ UNCHANGED <<starts, main, programs, signal, token, failed>>

(* SIGINT or SIGTERM while shutdown_signal listens. Earlier it kills the    *)
(* process (Crash), later nobody looks at it.                               *)
Signal ==
  /\ main = "select" /\ ~signal
  /\ signal' = TRUE
  /\ UNCHANGED <<starts, main, programs, running, polling, token, failed>>

(* The process is killed. The link of erez_sockops goes with it, the        *)
(* programs on the interface stay.                                          *)
Crash ==
  /\ main # "down"
  /\ main' = "down"
  /\ running' = {} /\ polling' = FALSE
  /\ UNCHANGED <<starts, programs, signal, token, failed>>

---------------------------------------------------------------------------
(* graceful_shutdown *)

(* The first select!: a signal, or the end of any task. *)
Wake ==
  /\ main = "select"
  /\ signal \/ running # Tasks
  /\ main' = "detach"
  /\ UNCHANGED <<starts, programs, signal, running, polling, token, failed>>

EINVAL == 22
ENOENT == 2
EPERM == 1

(* nix: Errno::from_raw knows positive numbers. *)
from_raw(ret) == IF ret > 0 THEN ret ELSE 0

is_not_attached(ret) == from_raw(ret) \in {EINVAL, ENOENT}

(* What the kernel returns for a hook: with a program on it, success or     *)
(* another error; without one, as the comment of is_not_attached has it for *)
(* TC, while the request to remove an absent XDP program succeeds.          *)
DetachReturns(h) ==
  IF programs[h] # 0 THEN {0, -EPERM}
  ELSE IF h = "tc" THEN {-EINVAL, -ENOENT} ELSE {0}

Failed(ret) == {h \in Hooks : ret[h] # 0 /\ ~is_not_attached(ret[h])}

(* detach tries both hooks before it looks at the results. An error returns *)
(* from graceful_shutdown, and so from main.                                *)
Detach ==
  /\ main = "detach"
  /\ \E ret \in [Hooks -> {0, -EPERM, -EINVAL, -ENOENT}] :
       /\ \A h \in Hooks : ret[h] \in DetachReturns(h)
       /\ programs' = [h \in Hooks |-> IF ret[h] = 0 THEN 0 ELSE programs[h]]
       /\ failed' = Failed(ret)
       /\ main' = IF Failed(ret) = {} THEN "cancel" ELSE "return"
  /\ UNCHANGED <<starts, signal, running, polling, token>>

CancelFirst ==
  /\ main \in {"detach", "cancel"}
  /\ token' = TRUE
  /\ main' = IF main = "detach" THEN "detach" ELSE "drain"
  /\ UNCHANGED <<starts, programs, signal, running, polling, failed>>

Cancel ==
  /\ main = "cancel"
  /\ token' = TRUE
  /\ main' = "drain"
  /\ UNCHANGED <<starts, programs, signal, running, polling, failed>>

(* The tasks watch the token; metrics also waits for open connections. *)
TaskStops(t) ==
  /\ token /\ t \in running
  /\ t = "rtt" => ~polling
  /\ running' = running \ {t}
  /\ UNCHANGED <<starts, main, programs, signal, polling, token, failed>>

ThreadNeverStops ==
  /\ main = "none" /\ polling
  /\ polling' = FALSE
  /\ UNCHANGED <<starts, main, programs, signal, running, token, failed>>

(* The polling thread looks at the token every 100 ms. *)
ThreadStops ==
  /\ token /\ polling
  /\ polling' = FALSE
  /\ UNCHANGED <<starts, main, programs, signal, running, token, failed>>

Drained ==
  /\ main = "drain"
  /\ running = {}
  /\ main' = "return"
  /\ UNCHANGED <<starts, programs, signal, running, polling, token, failed>>

(* 30 seconds have passed. *)
DrainTimesOut ==
  /\ main = "drain"
  /\ main' = "return"
  /\ UNCHANGED <<starts, programs, signal, running, polling, token, failed>>

(* main returns. The runtime drops its tasks and waits for the threads it   *)
(* cannot interrupt.                                                        *)
Exit ==
  /\ main = "return"
  /\ ~polling
  /\ main' = "down"
  /\ running' = {}
  /\ UNCHANGED <<starts, programs, signal, polling, token, failed>>

DaemonNext ==
  \/ Start \/ Attach \/ AttachFails \/ Signal \/ Crash
  \/ \E t \in Tasks : TaskEnds(t)
  \/ Wake \/ Detach \/ Cancel
  \/ \E t \in Tasks : TaskStops(t)
  \/ ThreadStops \/ Drained \/ DrainTimesOut \/ Exit

DaemonSpec == DaemonInit /\ [][DaemonNext]_daemonVars

(* main and the polling thread run, and time passes. The tasks need no      *)
(* fairness: a connection may stay open as long as its client likes.        *)
Fairness ==
  /\ WF_daemonVars(Wake) /\ WF_daemonVars(Detach) /\ WF_daemonVars(Cancel)
  /\ WF_daemonVars(DrainTimesOut) /\ WF_daemonVars(ThreadStops) /\ WF_daemonVars(Exit)

FairSpec == DaemonSpec /\ Fairness

---------------------------------------------------------------------------
(* Properties. *)

(* While the daemon serves, the program on its hook uses this process's     *)
(* maps, whatever an earlier one left behind when it crashed or failed to   *)
(* attach or detach (TcHook's replace, XDP without UPDATE_IF_NOEXIST).      *)
LiveProgramIsOurs == main = "select" => programs[Hook] = starts

(* The tasks that keep e_fib in step with the routes are told to stop only  *)
(* when no packet can be steered by it any more.                            *)
DetachedBeforeCancel == token /\ main # "down" => programs[Hook] = 0

(* A signal, or the end of any one task, ends the process, however long     *)
(* the other tasks take: unless the program cannot be detached.             *)
ShutdownCompletes ==
  (main = "select" /\ (signal \/ running # Tasks)) ~> (main = "down" \/ failed # {})
============================================================================
