--------------------------- MODULE UdpProperties ---------------------------
(***************************************************************************)
(* What is checked of UdpClient: the safety invariants, the refinement of  *)
(* OrderedLink, the liveness properties, and at the end the statement that *)
(* the code does not keep.                                                 *)
(***************************************************************************)
EXTENDS UdpClient

\* One async_send_to at a time, over the front of the deque, which stays
\* there until the handler pops it.  DoSend does not look at the flag it
\* is named after but at the deque, and only that makes this true: the flag
\* is FALSE while the first datagram is on its way.
BufferStable ==
    \/ sendOps = <<>>
    \/ Len(sendOps) = 1 /\ write_msgs_ # <<>> /\ sendOps[1] = Head(write_msgs_)

\* While the socket is open no datagram sits in the deque unattended.
NoIdleDatagram ==
    write_msgs_ # <<>> /\ open => sendOps # <<>>

\* An error is final: the datagram that failed stays at the front for good,
\* so DoSend never starts another operation on the closed socket.
ErrorIsFinal ==
    ~open /\ apc # "gone" => sendOps = <<>> /\ write_msgs_ # <<>>

\* No lost wakeup: while the service runs and the socket is open, whoever
\* waits has a datagram under way whose chain of handlers ends in
\* notify_all.
WaiterHasWaker ==
    apc = "waiting" /\ ipc = "run" /\ open => posts # <<>> \/ write_msgs_ # <<>>

\* What has been accepted, in its order: sent, queued, posted.
Pipeline == wire \o write_msgs_ \o posts

\* Whatever fails, no step of either thread loses or reorders a datagram
\* that was accepted; only the destructor does.
Extends(q, p) ==
    Len(p) <= Len(q) /\ \A i \in DOMAIN p : q[i] = p[i]
NothingLost == [][Extends(Pipeline', Pipeline) \/ apc' = "gone"]_vars

\* Datagrams leave in the order of the Send calls, none of them twice.
Link == INSTANCE OrderedLink
    WITH MayRepeat <- FALSE, sent <- nsent, received <- wire
RefinesOrderedLink == Link!Spec

-----------------------------------------------------------------------------
(* The inductive invariant the safety properties follow from               *)

\* Which thread is where.
ThreadInv ==
    /\ apc \in Sending => nsent > 0
    /\ ~thread_is_running_ => ipc = "none"
    /\ service_is_ready_ => ipc = "run"
    /\ stopped => apc \in {"join", "gone"}
    /\ apc = "join" => ipc # "resolve"

\* The deque, the outstanding send and the socket agree.
SocketInv ==
    IF apc = "gone" THEN sendOps = <<>> /\ ~open
    ELSE /\ write_msgs_ = <<>> => sendOps = <<>> /\ open /\ ~write_in_progress_
         /\ write_msgs_ # <<>> =>
               sendOps = IF open THEN <<Head(write_msgs_)>> ELSE <<>>

\* Whoever waits, or is about to, waits for a datagram.
WakerInv ==
    apc # "gone" =>
        /\ apc \in {"wait", "waiting"} /\ open => posts # <<>> \/ write_msgs_ # <<>>
        /\ msg_to_send_ => posts # <<>> \/ apc \in {"post"} \cup Destroying

Ascending(q) == \A i, j \in DOMAIN q : i < j => q[i] < q[j]
From(m, q) == \A i \in DOMAIN q : m <= q[i]
UpTo(m, q) == \A i \in DOMAIN q : q[i] <= m
Before(p, q) == \A i \in DOMAIN p, j \in DOMAIN q : p[i] < q[j]

\* The last Send call whose datagram may have been posted.
LastPosted == IF apc \in Sending THEN nsent - 1 ELSE nsent

\* Sent, queued, posted, being posted: in this order, each once.
OrderInv ==
    /\ Ascending(write_msgs_) /\ Ascending(posts) /\ Before(write_msgs_, posts)
    /\ From(Link!Floor, write_msgs_) /\ From(Link!Floor, posts)
    /\ UpTo(LastPosted, write_msgs_) /\ UpTo(LastPosted, posts)
    /\ Link!Floor <= LastPosted + 1

IndInv == TypeOK /\ ThreadInv /\ SocketInv /\ WakerInv /\ OrderInv

-----------------------------------------------------------------------------
(* Liveness                                                                *)

\* What the promises below except: the socket was closed after an error, or
\* the I/O thread is gone because the host did not resolve, ...
Failed == ~open \/ ipc \in {"exit", "none"}

\* ... or the application takes the mutex for ever again: a mutex is not
\* fair to the handler that needs it.
MutexHogged == []<><<BlockUntilQueueIsEmpty \/ SpuriousWakeup>>_vars

\* BlockUntilQueueIsEmpty returns, unless something failed.
BlockEnds ==
    MutexHogged \/ (apc \in Blocking ~> apc \notin Blocking \/ Failed)

\* Every datagram accepted by Send leaves the host, unless something failed.
DatagramsLeave ==
    \/ MutexHogged
    \/ \A m \in Msgs :
          apc = "post" /\ nsent = m ~>
              \/ \E i \in DOMAIN wire : wire[i] = m
              \/ Failed \/ apc \in Destroying

-----------------------------------------------------------------------------
(* A statement of a test and the headers that the code does not keep       *)

\* BlockUntilQueueIsEmpty returns, whatever the network does.
BlockReturns == apc \in Blocking ~> apc \notin Blocking
=============================================================================
