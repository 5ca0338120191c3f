----------------------------- MODULE UdpClient -----------------------------
(***************************************************************************)
(* am::UDPClient and its AsyncUDPClient: the same two threads as in        *)
(* TcpClient, with one socket that is open from the start, no connection   *)
(* and no retransmission.  The differences are in the code: DoSend sets    *)
(* write_in_progress_ from the deque as it was BEFORE the push, and a send *)
(* error closes the socket for good.                                       *)
(*                                                                         *)
(* Datagrams are the numbers of the Send calls.  What happens to one once  *)
(* the kernel has it is not modelled: wire is what left the host.          *)
(***************************************************************************)
EXTENDS Naturals, Sequences

CONSTANTS
    MaxMsgs,   \* bound on the number of Send calls
    Faults     \* which failures the environment may produce

AllFaults == {"spawn", "resolve", "send", "wakeup"}

ASSUME ConstantsOK == MaxMsgs \in Nat /\ Faults \subseteq AllFaults

VARIABLES
    apc,                 \* where the application thread is
    nsent,               \* Send calls so far
    thread_is_running_, service_is_ready_,
    ipc,                 \* where the I/O thread is
    stopped,             \* io_service::stop() has been called
    posts,               \* DoSend handlers posted and not yet run
    write_in_progress_, msg_to_send_,
    write_msgs_,         \* the datagram deque
    sendOps,             \* datagrams of the outstanding async_send_tos
    open,                \* socket_ is open
    wire                 \* datagrams sent, oldest first

appVars == <<apc, nsent>>
runVars == <<thread_is_running_, service_is_ready_, ipc, stopped>>
flagVars == <<write_in_progress_, msg_to_send_>>
sockVars == <<write_msgs_, sendOps, open, wire>>
vars == <<appVars, runVars, posts, flagVars, sockVars>>

-----------------------------------------------------------------------------
(* Types                                                                   *)

Msgs == 1..MaxMsgs

Sending == {"flag", "post"}
Blocking == {"spin", "check_w", "check_m", "wait", "waiting"}
Destroying == {"destroy", "join", "gone"}

ScalarTypes ==
    /\ apc \in {"idle"} \cup Sending \cup Blocking \cup Destroying
    /\ nsent \in 0..MaxMsgs
    /\ thread_is_running_ \in BOOLEAN /\ service_is_ready_ \in BOOLEAN
    /\ ipc \in {"none", "resolve", "run", "exit"}
    /\ stopped \in BOOLEAN /\ open \in BOOLEAN
    /\ write_in_progress_ \in BOOLEAN /\ msg_to_send_ \in BOOLEAN

QueueTypes ==
    /\ posts \in Seq(Msgs) /\ write_msgs_ \in Seq(Msgs)
    /\ sendOps \in Seq(Msgs) /\ wire \in Seq(Msgs)

TypeOK == ScalarTypes /\ QueueTypes

Init ==
    /\ apc = "idle" /\ nsent = 0
    /\ thread_is_running_ = FALSE /\ service_is_ready_ = FALSE
    /\ ipc = "none" /\ stopped = FALSE
    /\ posts = <<>>
    /\ write_in_progress_ = FALSE /\ msg_to_send_ = FALSE
    /\ write_msgs_ = <<>> /\ sendOps = <<>> /\ open = TRUE
    /\ wire = <<>>

-----------------------------------------------------------------------------
(* Shared by the actions.  Next to a definition stand the variants of it   *)
(* that a slip in the code would give; no action uses them.                *)

MutexForgotten == TRUE
MutexFree == apc \notin {"check_m", "wait"}

NotifyForgotten == UNCHANGED appVars

\* notify_all: a waiting application locks again and looks at the flags.
NotifyAll == apc' = (IF apc = "waiting" THEN "check_w" ELSE apc) /\ UNCHANGED nsent

\* The io_service is running and picks a handler that is ready.
Handling == ipc = "run" /\ ~stopped /\ apc # "gone"

\* The message bound into the DoSend handler.
Bound == nsent

\* DoSend's flag: were there datagrams before this one?
MustWaitIfFlagged == write_in_progress_
MustWait == write_msgs_ # <<>>

\* The deque with one more datagram.
QueuedInFront(m) == <<m>> \o write_msgs_
Queued(m) == Append(write_msgs_, m)

-----------------------------------------------------------------------------
(* The application thread                                                  *)

RunThread ==
    \/ /\ thread_is_running_' = TRUE
       /\ ipc' = "resolve"
       /\ apc' = "flag"
    \/ /\ "spawn" \in Faults
       /\ apc' = "idle"
       /\ UNCHANGED <<thread_is_running_, ipc>>

\* UDPClient::Send, up to the call of AsyncUDPClient::Send.
Send ==
    /\ apc = "idle" /\ nsent < MaxMsgs
    /\ nsent' = nsent + 1
    /\ IF thread_is_running_
       THEN apc' = "flag" /\ UNCHANGED <<thread_is_running_, ipc>>
       ELSE RunThread
    /\ UNCHANGED <<service_is_ready_, stopped, posts, flagVars, sockVars>>

\* AsyncUDPClient::Send raises the flag, then posts.
RaiseMsgToSend ==
    /\ apc = "flag"
    /\ msg_to_send_' = TRUE
    /\ apc' = "post"
    /\ UNCHANGED <<nsent, runVars, posts, write_in_progress_, sockVars>>

PostDoSend ==
    /\ apc = "post"
    /\ posts' = Append(posts, Bound)
    /\ apc' = "idle"
    /\ UNCHANGED <<nsent, runVars, flagVars, sockVars>>

\* A step of the application that only goes from one place to the next.
Goto(from, to) ==
    /\ apc = from /\ apc' = to
    /\ UNCHANGED <<nsent, runVars, posts, flagVars, sockVars>>

BlockUntilQueueIsEmpty == Goto("idle", "spin")

SpinUntilReady ==
    ~(thread_is_running_ /\ ~service_is_ready_) /\ Goto("spin", "check_w")

\* The loop condition reads one flag at a time, ...
CheckFlags ==
    \/ Goto("check_w", IF write_in_progress_ THEN "wait" ELSE "check_m")
    \/ Goto("check_m", IF msg_to_send_ THEN "wait" ELSE "idle")

\* ... and wait() releases the mutex.
EnterWait == Goto("wait", "waiting")

SpuriousWakeup == "wakeup" \in Faults /\ Goto("waiting", "check_w")

\* The members are destroyed, with the socket and every handler not yet run.
Destroy ==
    /\ apc' = "gone"
    /\ posts' = <<>> /\ sendOps' = <<>> /\ open' = FALSE
    /\ UNCHANGED <<nsent, runVars, flagVars, write_msgs_, wire>>

\* ~UDPClient reads thread_is_running_, ...
Destructor ==
    IF thread_is_running_ THEN Goto("idle", "destroy") ELSE apc = "idle" /\ Destroy

\* ... then service_is_ready_: stop() if it is set, else timed_join(0).
StopOrTimedJoin ==
    /\ apc = "destroy"
    /\ IF service_is_ready_
       THEN /\ stopped' = TRUE
            /\ apc' = "join"
            /\ UNCHANGED <<nsent, thread_is_running_, service_is_ready_, ipc, posts,
                           flagVars, sockVars>>
       ELSE Destroy

Join == apc = "join" /\ ipc = "none" /\ Destroy

-----------------------------------------------------------------------------
(* The I/O thread: UDPClient::Run                                          *)

ResolveOk ==
    /\ ipc = "resolve" /\ apc # "gone"
    /\ service_is_ready_' = TRUE
    /\ ipc' = "run"
    /\ UNCHANGED <<appVars, thread_is_running_, stopped, posts, flagVars, sockVars>>

\* run() is left, by stop() or because resolve() threw: reset() and the
\* first flag ...
LeaveRun ==
    /\ apc # "gone"
    /\ \/ ipc = "resolve" /\ "resolve" \in Faults
       \/ ipc = "run" /\ stopped
    /\ ipc' = "exit"
    /\ stopped' = FALSE
    /\ service_is_ready_' = FALSE
    /\ UNCHANGED <<appVars, thread_is_running_, posts, flagVars, sockVars>>

\* ... and the second.
ThreadExit ==
    /\ ipc = "exit" /\ apc # "gone"
    /\ ipc' = "none"
    /\ thread_is_running_' = FALSE
    /\ UNCHANGED <<appVars, service_is_ready_, stopped, posts, flagVars, sockVars>>

-----------------------------------------------------------------------------
(* The I/O thread: completion handlers of AsyncUDPClient                   *)

DoSend ==
    /\ Handling /\ posts # <<>>
    /\ write_in_progress_' = MustWait
    /\ write_msgs_' = Queued(Head(posts))
    /\ sendOps' = IF MustWait THEN sendOps ELSE Append(sendOps, Head(Queued(Head(posts))))
    /\ posts' = Tail(posts)
    /\ msg_to_send_' = FALSE
    /\ UNCHANGED <<appVars, runVars, open, wire>>

\* The datagram left the host; the next one follows.
SendNextForgotten == sendOps' = Tail(sendOps)
SendNext == sendOps' = Append(Tail(sendOps), Head(Tail(write_msgs_)))

HandlerWriteOk ==
    /\ Handling /\ sendOps # <<>> /\ open
    /\ wire' = Append(wire, Head(sendOps))
    /\ write_msgs_' = Tail(write_msgs_)
    /\ IF Tail(write_msgs_) # <<>>
       THEN SendNext /\ UNCHANGED <<appVars, write_in_progress_>>
       ELSE /\ MutexFree
            /\ sendOps' = Tail(sendOps)
            /\ write_in_progress_' = FALSE
            /\ NotifyAll
    /\ UNCHANGED <<runVars, posts, msg_to_send_, open>>

\* The datagram stays at the front of the deque and the socket is closed;
\* a send on a closed socket could only fail.
HandlerWriteError ==
    /\ Handling /\ sendOps # <<>> /\ ("send" \in Faults \/ ~open) /\ MutexFree
    /\ write_in_progress_' = FALSE
    /\ sendOps' = Tail(sendOps)
    /\ open' = FALSE
    /\ NotifyAll
    /\ UNCHANGED <<runVars, posts, msg_to_send_, write_msgs_, wire>>

\* The program has exited.
Terminated == apc = "gone" /\ UNCHANGED vars

-----------------------------------------------------------------------------

\* What the application does once it has called one of the operations.
AppContinues ==
    \/ RaiseMsgToSend \/ PostDoSend \/ SpinUntilReady \/ CheckFlags \/ EnterWait
    \/ StopOrTimedJoin \/ Join

Application ==
    \/ Send \/ BlockUntilQueueIsEmpty \/ Destructor \/ SpuriousWakeup \/ AppContinues

IoThread ==
    \/ ResolveOk \/ LeaveRun \/ ThreadExit
    \/ DoSend \/ HandlerWriteOk \/ HandlerWriteError

Next == Application \/ IoThread \/ Terminated

Spec == Init /\ [][Next]_vars

\* Both threads keep being scheduled and every send completes; nobody has
\* to call.
FairSpec == Spec /\ WF_vars(AppContinues) /\ WF_vars(IoThread)
=============================================================================
