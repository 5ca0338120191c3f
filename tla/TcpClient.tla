----------------------------- MODULE TcpClient -----------------------------
(***************************************************************************)
(* am::TCPClient and its AsyncTCPClient: the application thread, which     *)
(* calls Send, BlockUntilQueueIsEmpty and the destructor, and the I/O      *)
(* thread, which resolves the host and then runs the completion handlers.  *)
(* They share plain (unsynchronised) flags, the io_service queue of posted *)
(* handlers, a mutex and a condition variable.                             *)
(*                                                                         *)
(* Frames are the numbers of the Send calls that made them.  A handler is  *)
(* one step unless the application can see its middle; the outcome of an   *)
(* asynchronous operation is chosen in the step that runs its handler.     *)
(* The peer's connection drops at a point of the byte stream: whatever is  *)
(* written behind that point is not received.                              *)
(***************************************************************************)
EXTENDS Naturals, Sequences

CONSTANTS
    MaxMsgs,          \* bound on the number of Send calls
    MaxDrops,         \* bound on the number of times the server drops us
    MaxAge,           \* bound on the seconds counted since the last write
    NEndpoints,       \* addresses the resolver returns for the host
    TIMEOUT_SECONDS,  \* a frame older than this is not retransmitted
    MINUTE,           \* seconds per minute, 60 in the library
    Faults            \* which failures the environment may produce

AllFaults == {"spawn", "resolve", "connect", "short", "wakeup"}

ASSUME ConstantsOK ==
    /\ MaxMsgs \in Nat /\ MaxDrops \in Nat /\ MaxAge \in Nat
    /\ NEndpoints \in Nat \ {0}
    /\ TIMEOUT_SECONDS \in Nat /\ MINUTE \in Nat \ {0}
    /\ Faults \subseteq AllFaults

VARIABLES
    apc,                 \* where the application thread is
    nsent,               \* Send calls so far
    thread_is_running_, service_is_ready_,
    ipc,                 \* where the I/O thread is
    stopped,             \* io_service::stop() has been called
    posts,               \* DoSend handlers posted and not yet run
    closePosted,         \* the DoClose handler is posted behind them
    connected_, connecting_, write_in_progress_, msg_to_send_,
    write_msgs_,         \* the frame deque
    prev_,               \* last frame written, and the seconds since
    connectOps,          \* endpoints of the outstanding async_connects
    writeOps,            \* frames of the outstanding async_write_somes
    link,                \* the socket and the server's end of it; "broken" is closed
                         \* over a write that the server's drop may have failed
    drops, delivered     \* drops so far; frames the server has received

appVars == <<apc, nsent>>
runVars == <<thread_is_running_, service_is_ready_, ipc, stopped>>
postVars == <<posts, closePosted>>
flagVars == <<connected_, connecting_, write_in_progress_>>
queueVars == <<write_msgs_, prev_>>
netVars == <<connectOps, writeOps, link, drops, delivered>>
vars == <<appVars, runVars, postVars, flagVars, msg_to_send_, queueVars, netVars>>

-----------------------------------------------------------------------------
(* Types                                                                   *)

Msgs == 1..MaxMsgs
NoPrev == [msg |-> 0, age |-> 0]

Sending == {"flag", "post"}
Blocking == {"spin", "check_w", "check_m", "check_c", "wait", "waiting"}
Destroying == {"destroy", "stop", "join", "gone"}

ScalarTypes ==
    /\ apc \in {"idle"} \cup Sending \cup Blocking \cup Destroying
    /\ nsent \in 0..MaxMsgs
    /\ thread_is_running_ \in BOOLEAN /\ service_is_ready_ \in BOOLEAN
    /\ ipc \in {"none", "resolve", "run", "epipe", "exit", "undefined"}
    /\ stopped \in BOOLEAN /\ closePosted \in BOOLEAN
    /\ connected_ \in BOOLEAN /\ connecting_ \in BOOLEAN
    /\ write_in_progress_ \in BOOLEAN /\ msg_to_send_ \in BOOLEAN
    /\ prev_ \in [msg : 0..MaxMsgs, age : 0..MaxAge]
    /\ link \in {"closed", "opening", "up", "garbled", "gone", "broken"}
    /\ drops \in 0..MaxDrops

QueueTypes ==
    /\ posts \in Seq(Msgs) /\ write_msgs_ \in Seq(Msgs)
    /\ connectOps \in Seq(1..NEndpoints) /\ writeOps \in Seq(Msgs)
    /\ delivered \in Seq(Msgs)

TypeOK == ScalarTypes /\ QueueTypes

Init ==
    /\ apc = "idle" /\ nsent = 0
    /\ thread_is_running_ = FALSE /\ service_is_ready_ = FALSE
    /\ ipc = "none" /\ stopped = FALSE
    /\ posts = <<>> /\ closePosted = FALSE
    /\ connected_ = FALSE /\ connecting_ = FALSE
    /\ write_in_progress_ = FALSE /\ msg_to_send_ = FALSE
    /\ write_msgs_ = <<>> /\ prev_ = NoPrev
    /\ connectOps = <<>> /\ writeOps = <<>> /\ link = "closed"
    /\ drops = 0 /\ delivered = <<>>

-----------------------------------------------------------------------------
(* Shared by the actions.  Next to a definition stand the variants of it   *)
(* that a slip in the code would give: no action uses them, each shows     *)
(* that some property notices the slip.                                    *)

\* The application holds write_progress_mut_ from its first look at the
\* flags until it waits or returns; handlers that lock wait for it.
MutexForgotten == TRUE
MutexFree == apc \notin {"check_m", "check_c", "wait"}

NotifyForgotten == UNCHANGED appVars

\* notify_all: a waiting application locks again and looks at the flags.
NotifyAll == apc' = (IF apc = "waiting" THEN "check_w" ELSE apc) /\ UNCHANGED nsent

\* The io_service is running and picks a handler that is ready.
Handling == ipc = "run" /\ ~stopped /\ apc # "gone"

\* async_connect to the first endpoint.
DoConnect ==
    /\ connecting_' = TRUE
    /\ connectOps' = Append(connectOps, 1)
    /\ link' = "opening"

\* async_write_some over the front of the deque.
AsyncWrite(queue) ==
    write_in_progress_' = TRUE /\ writeOps' = Append(writeOps, Head(queue))

\* time_duration::seconds() is the seconds field, not the whole duration.
FreshSwapped == TIMEOUT_SECONDS < prev_.age % MINUTE
Fresh == prev_.age % MINUTE < TIMEOUT_SECONDS

\* The deque a new connection starts from: the last frame written goes
\* first, unless it is too old.
RequeuedAtBack ==
    IF prev_.msg # 0 /\ Fresh THEN Append(write_msgs_, prev_.msg) ELSE write_msgs_
Requeued ==
    IF prev_.msg # 0 /\ Fresh THEN <<prev_.msg>> \o write_msgs_ ELSE write_msgs_

\* DoSend opens a connection where there is none and none is coming, ...
ReconnectTwice == ~connected_
Reconnect == ~connected_ /\ ~connecting_

\* ... and otherwise writes at once, unless a handler will.
MayWriteTwice == ~connecting_ /\ ~Reconnect
MayWrite == ~write_in_progress_ /\ ~connecting_ /\ ~Reconnect

\* A new connection has something to write.
BackloggedIfWritten == ~write_in_progress_ /\ prev_.msg # 0
Backlogged == ~write_in_progress_ /\ (write_msgs_ # <<>> \/ prev_.msg # 0)

-----------------------------------------------------------------------------
(* The application thread                                                  *)

RunThread ==
    \/ /\ thread_is_running_' = TRUE
       /\ ipc' = "resolve"
       /\ apc' = "flag"
    \/ /\ "spawn" \in Faults
       /\ apc' = "idle"
       /\ UNCHANGED <<thread_is_running_, ipc>>

\* TCPClient::Send, up to the call of AsyncTCPClient::Send.
Send ==
    /\ apc = "idle" /\ nsent < MaxMsgs
    /\ nsent' = nsent + 1
    /\ IF thread_is_running_
       THEN apc' = "flag" /\ UNCHANGED <<thread_is_running_, ipc>>
       ELSE RunThread
    /\ UNCHANGED <<service_is_ready_, stopped, postVars, flagVars, msg_to_send_,
                   queueVars, netVars>>

\* AsyncTCPClient::Send raises the flag, then posts.
RaiseMsgToSend ==
    /\ apc = "flag"
    /\ msg_to_send_' = TRUE
    /\ apc' = "post"
    /\ UNCHANGED <<nsent, runVars, postVars, flagVars, queueVars, netVars>>

PostDoSend ==
    /\ apc = "post"
    /\ posts' = Append(posts, nsent)
    /\ apc' = "idle"
    /\ UNCHANGED <<nsent, runVars, closePosted, flagVars, msg_to_send_, queueVars, netVars>>

BlockUntilQueueIsEmpty ==
    /\ apc = "idle"
    /\ apc' = "spin"
    /\ UNCHANGED <<nsent, runVars, postVars, flagVars, msg_to_send_, queueVars, netVars>>

SpinUntilReady ==
    /\ apc = "spin"
    /\ ~(thread_is_running_ /\ ~service_is_ready_)
    /\ apc' = "check_w"
    /\ UNCHANGED <<nsent, runVars, postVars, flagVars, msg_to_send_, queueVars, netVars>>

\* The loop condition reads one flag at a time and stops at the first that
\* is set, ...
CheckFlag(at, flag, next) ==
    /\ apc = at
    /\ apc' = (IF flag THEN "wait" ELSE next)
    /\ UNCHANGED <<nsent, runVars, postVars, flagVars, msg_to_send_, queueVars, netVars>>

CheckFlags ==
    \/ CheckFlag("check_w", write_in_progress_, "check_m")
    \/ CheckFlag("check_m", msg_to_send_, "check_c")
    \/ CheckFlag("check_c", connecting_, "idle")

\* ... and wait() releases the mutex.
EnterWait ==
    /\ apc = "wait"
    /\ apc' = "waiting"
    /\ UNCHANGED <<nsent, runVars, postVars, flagVars, msg_to_send_, queueVars, netVars>>

SpuriousWakeup ==
    /\ "wakeup" \in Faults
    /\ apc = "waiting"
    /\ apc' = "check_w"
    /\ UNCHANGED <<nsent, runVars, postVars, flagVars, msg_to_send_, queueVars, netVars>>

\* The members are destroyed, with the socket and every handler not yet run.
Destroy ==
    /\ apc' = "gone"
    /\ posts' = <<>> /\ closePosted' = FALSE
    /\ connectOps' = <<>> /\ writeOps' = <<>> /\ link' = "closed"
    /\ UNCHANGED <<nsent, runVars, flagVars, msg_to_send_, queueVars, drops, delivered>>

\* ~TCPClient reads thread_is_running_, ...
Destructor ==
    /\ apc = "idle"
    /\ IF thread_is_running_
       THEN /\ apc' = "destroy"
            /\ UNCHANGED <<nsent, runVars, postVars, flagVars, msg_to_send_,
                           queueVars, netVars>>
       ELSE Destroy

\* ... then service_is_ready_: Close() if it is set, else timed_join(0).
CloseOrTimedJoin ==
    /\ apc = "destroy"
    /\ IF service_is_ready_
       THEN /\ closePosted' = TRUE
            /\ apc' = "stop"
            /\ UNCHANGED <<nsent, runVars, posts, flagVars, msg_to_send_,
                           queueVars, netVars>>
       ELSE Destroy

StopService ==
    /\ apc = "stop"
    /\ stopped' = TRUE
    /\ apc' = "join"
    /\ UNCHANGED <<nsent, thread_is_running_, service_is_ready_, ipc, postVars, flagVars,
                   msg_to_send_, queueVars, netVars>>

Join == apc = "join" /\ ipc = "none" /\ Destroy

-----------------------------------------------------------------------------
(* The I/O thread: TCPClient::Run                                          *)

\* resolve() succeeds, Connect() starts connecting, the service is ready.
ResolveOk ==
    /\ ipc = "resolve" /\ apc # "gone"
    /\ IF connecting_ THEN UNCHANGED <<connecting_, connectOps, link>> ELSE DoConnect
    /\ service_is_ready_' = TRUE
    /\ ipc' = "run"
    /\ UNCHANGED <<appVars, thread_is_running_, stopped, postVars, connected_,
                   write_in_progress_, msg_to_send_, queueVars, writeOps, drops, delivered>>

\* run() is left, by stop() or because resolve() threw: reset() and the
\* first flag ...
LeaveRun ==
    /\ apc # "gone"
    /\ \/ ipc = "resolve" /\ "resolve" \in Faults
       \/ ipc = "run" /\ stopped
    /\ ipc' = "exit"
    /\ stopped' = FALSE
    /\ service_is_ready_' = FALSE
    /\ UNCHANGED <<appVars, thread_is_running_, postVars, flagVars, msg_to_send_,
                   queueVars, netVars>>

\* ... and the second.
ThreadExit ==
    /\ ipc = "exit" /\ apc # "gone"
    /\ ipc' = "none"
    /\ thread_is_running_' = FALSE
    /\ UNCHANGED <<appVars, service_is_ready_, stopped, postVars, flagVars, msg_to_send_,
                   queueVars, netVars>>

-----------------------------------------------------------------------------
(* The I/O thread: completion handlers of AsyncTCPClient                   *)

DoSend ==
    /\ Handling /\ posts # <<>>
    /\ IF Reconnect THEN DoConnect ELSE UNCHANGED <<connecting_, connectOps, link>>
    /\ write_msgs_' = Append(write_msgs_, Head(posts))
    /\ IF MayWrite
       THEN AsyncWrite(Append(write_msgs_, Head(posts)))
       ELSE UNCHANGED <<write_in_progress_, writeOps>>
    /\ posts' = Tail(posts)
    /\ msg_to_send_' = FALSE
    /\ UNCHANGED <<appVars, runVars, closePosted, connected_, prev_, drops, delivered>>

\* The handler of a connect that was outstanding when the socket was closed
\* runs all the same, aborted or with the success it already had.
HandleConnectOk ==
    /\ Handling /\ connectOps # <<>> /\ connecting_
    /\ connected_' = TRUE /\ connecting_' = FALSE
    /\ connectOps' = Tail(connectOps)
    /\ link' = "up"
    /\ IF Backlogged
       THEN /\ write_msgs_' = Requeued
            /\ IF Requeued # <<>> THEN AsyncWrite(Requeued)
               ELSE UNCHANGED <<write_in_progress_, writeOps>>
       ELSE UNCHANGED <<write_msgs_, write_in_progress_, writeOps>>
    /\ UNCHANGED <<appVars, runVars, postVars, msg_to_send_, prev_, drops, delivered>>

\* DoClose ran between the start of the connect and its success.
HandleConnectStale ==
    /\ Handling /\ connectOps # <<>> /\ ~connecting_ /\ MutexFree
    /\ connecting_' = FALSE
    /\ connectOps' = Tail(connectOps)
    /\ link' = IF link = "opening" THEN "up" ELSE link
    /\ NotifyAll
    /\ UNCHANGED <<runVars, postVars, connected_, write_in_progress_, msg_to_send_,
                   queueVars, writeOps, drops, delivered>>

ConnectFails == connectOps # <<>> /\ (link = "closed" \/ "connect" \in Faults)

HandleConnectNextEndpoint ==
    /\ Handling /\ ConnectFails /\ Head(connectOps) < NEndpoints
    /\ connectOps' = Append(Tail(connectOps), Head(connectOps) + 1)
    /\ link' = "opening"
    /\ UNCHANGED <<appVars, runVars, postVars, flagVars, msg_to_send_, queueVars, writeOps,
                   drops, delivered>>

HandleConnectFailed ==
    /\ Handling /\ ConnectFails /\ Head(connectOps) = NEndpoints /\ MutexFree
    /\ connected_' = FALSE /\ connecting_' = FALSE
    /\ connectOps' = Tail(connectOps) /\ link' = "closed"
    /\ write_msgs_' = <<>>
    /\ NotifyAll
    /\ UNCHANGED <<runVars, postVars, write_in_progress_, msg_to_send_, prev_, writeOps,
                   drops, delivered>>

\* What HandleWrite does without an error; the count of bytes written is
\* not looked at.
FrameWritten ==
    /\ write_msgs_ # <<>>
    /\ prev_' = [msg |-> Head(write_msgs_), age |-> 0]
    /\ write_msgs_' = Tail(write_msgs_)
    /\ IF Tail(write_msgs_) # <<>>
       THEN /\ writeOps' = Append(Tail(writeOps), Head(Tail(write_msgs_)))
            /\ UNCHANGED <<write_in_progress_, appVars>>
       ELSE /\ MutexFree
            /\ writeOps' = Tail(writeOps)
            /\ write_in_progress_' = FALSE
            /\ NotifyAll
    /\ UNCHANGED <<runVars, postVars, connected_, connecting_, msg_to_send_, connectOps, drops>>

\* The kernel took the whole frame; behind a drop it goes nowhere.
HandleWriteOk ==
    /\ Handling /\ writeOps # <<>> /\ link \in {"up", "garbled", "gone"}
    /\ delivered' = IF link = "up" THEN Append(delivered, Head(writeOps)) ELSE delivered
    /\ UNCHANGED link
    /\ FrameWritten

\* The kernel took part of the frame: the server's framing is lost.
HandleWriteShort ==
    /\ Handling /\ writeOps # <<>> /\ link = "up" /\ "short" \in Faults
    /\ link' = "garbled"
    /\ UNCHANGED delivered
    /\ FrameWritten

\* Broken pipe: the flags are cleared without the mutex, ...  The handler does
\* not ask whether DoClose has run since the write failed: the destructor's
\* DoClose may have closed the socket in between, and it is opened again.
HandleWriteBrokenPipe ==
    /\ Handling /\ writeOps # <<>> /\ link \in {"gone", "broken"}
    /\ connected_' = FALSE /\ connecting_' = FALSE /\ write_in_progress_' = FALSE
    /\ writeOps' = Tail(writeOps) /\ link' = "closed"
    /\ ipc' = "epipe"
    /\ UNCHANGED <<appVars, thread_is_running_, service_is_ready_, stopped, postVars,
                   msg_to_send_, queueVars, connectOps, drops, delivered>>

\* ... then DoConnect() raises connecting_.
ReconnectAfterBrokenPipe ==
    /\ ipc = "epipe" /\ apc # "gone"
    /\ DoConnect
    /\ ipc' = "run"
    /\ UNCHANGED <<appVars, thread_is_running_, service_is_ready_, stopped, postVars,
                   connected_, write_in_progress_, msg_to_send_, queueVars, writeOps,
                   drops, delivered>>

\* socket_.close().  A write that is still outstanding has its handler run all
\* the same: aborted, or with the outcome it already had.
CloseSocket == link' = IF link = "gone" /\ writeOps' # <<>> THEN "broken" ELSE "closed"

DoCloseKeepsConnected ==
    /\ connecting_' = FALSE /\ write_in_progress_' = FALSE /\ UNCHANGED connected_
    /\ CloseSocket
    /\ prev_' = NoPrev
    /\ write_msgs_' = <<>>

DoCloseKeepsQueue ==
    /\ connected_' = FALSE /\ connecting_' = FALSE /\ write_in_progress_' = FALSE
    /\ CloseSocket
    /\ prev_' = NoPrev
    /\ UNCHANGED write_msgs_

DoClose ==
    /\ connected_' = FALSE /\ connecting_' = FALSE /\ write_in_progress_' = FALSE
    /\ CloseSocket
    /\ prev_' = NoPrev
    /\ write_msgs_' = <<>>

\* Any other error, and the abort of a write whose socket was closed.
HandleWriteError ==
    /\ Handling /\ writeOps # <<>> /\ link \in {"gone", "closed", "broken"} /\ MutexFree
    /\ writeOps' = Tail(writeOps)
    /\ NotifyAll
    /\ DoClose
    /\ UNCHANGED <<runVars, postVars, msg_to_send_, connectOps, drops, delivered>>

\* The write had succeeded when DoClose cleared the deque: front() and
\* pop_front() of an empty deque.
HandleWriteAfterClear ==
    /\ Handling /\ writeOps # <<>> /\ write_msgs_ = <<>>
    /\ ipc' = "undefined"
    /\ UNCHANGED <<appVars, thread_is_running_, service_is_ready_, stopped, postVars,
                   flagVars, msg_to_send_, queueVars, netVars>>

HandleClose ==
    /\ Handling /\ closePosted /\ posts = <<>>
    /\ closePosted' = FALSE
    /\ UNCHANGED <<appVars, runVars, posts, msg_to_send_, connectOps, writeOps, drops,
                   delivered>>
    /\ DoClose

-----------------------------------------------------------------------------
(* The environment                                                         *)

ServerDrops ==
    /\ link \in {"up", "garbled"} /\ drops < MaxDrops
    /\ link' = "gone"
    /\ drops' = drops + 1
    /\ UNCHANGED <<appVars, runVars, postVars, flagVars, msg_to_send_, queueVars, connectOps,
                   writeOps, delivered>>

Tick ==
    /\ prev_.msg # 0 /\ prev_.age < MaxAge
    /\ prev_' = [msg |-> prev_.msg, age |-> prev_.age + 1]
    /\ UNCHANGED <<appVars, runVars, postVars, flagVars, msg_to_send_, write_msgs_, netVars>>

\* The program has exited, or is undefined.
Terminated == (apc = "gone" \/ ipc = "undefined") /\ UNCHANGED vars

-----------------------------------------------------------------------------

\* What the application does once it has called one of the operations.
AppContinues ==
    \/ RaiseMsgToSend \/ PostDoSend \/ SpinUntilReady \/ CheckFlags \/ EnterWait
    \/ CloseOrTimedJoin \/ StopService \/ Join

Application ==
    \/ Send \/ BlockUntilQueueIsEmpty \/ Destructor \/ SpuriousWakeup \/ AppContinues

HandleConnect ==
    \/ HandleConnectOk \/ HandleConnectStale
    \/ HandleConnectNextEndpoint \/ HandleConnectFailed

HandleWrite ==
    \/ HandleWriteOk \/ HandleWriteShort \/ HandleWriteBrokenPipe
    \/ ReconnectAfterBrokenPipe \/ HandleWriteError \/ HandleWriteAfterClear

IoThread ==
    \/ ResolveOk \/ LeaveRun \/ ThreadExit
    \/ DoSend \/ HandleConnect \/ HandleWrite \/ HandleClose

Environment == ServerDrops \/ Tick

Next == Application \/ IoThread \/ Environment \/ Terminated

Spec == Init /\ [][Next]_vars

\* Both threads keep being scheduled and every operation on the socket
\* completes (the kernel's own timeouts see to it); nobody has to call.
FairSpec == Spec /\ WF_vars(AppContinues) /\ WF_vars(IoThread)
=============================================================================
