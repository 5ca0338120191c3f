--------------------------- MODULE TcpProperties ---------------------------
(***************************************************************************)
(* What is checked of TcpClient: the safety invariants, the refinement of  *)
(* OrderedLink, the liveness properties, and at the end the statements of  *)
(* the headers and tests that the code does not keep.                      *)
(***************************************************************************)
EXTENDS TcpClient

\* At most one asynchronous operation is outstanding on the socket: two
\* async_write_somes would interleave their frames, and a connect and a
\* write together would write on a socket that is being opened.
OneOperation == Len(connectOps) + Len(writeOps) <= 1

\* The destructor's DoClose has run, or everything is gone.
Closed == apc = "gone" \/ (apc \in {"stop", "join"} /\ ~closePosted)

\* The buffer handed to async_write_some is the front of the deque and
\* stays there until its handler has run; the handler pops that frame and
\* no other.  Only the destructor's DoClose may empty the deque under it.
BufferStable ==
    \A i \in DOMAIN writeOps :
        IF write_msgs_ = <<>> THEN Closed ELSE writeOps[i] = Head(write_msgs_)

\* The flags BlockUntilQueueIsEmpty reads tell the truth about the socket,
\* whatever order connects, writes, broken pipes and errors come in.
FlagsTellTheTruth ==
    ~Closed =>
        /\ connecting_ <=> connectOps # <<>>
        /\ write_in_progress_ <=> writeOps # <<>>
        /\ connected_ <=> link \in {"up", "garbled", "gone"}

\* Frames never sit in the deque with nothing under way that would write
\* or discard them: every path that ends an operation starts the next one,
\* reconnects, or empties the deque.
NoIdleBacklog ==
    write_msgs_ # <<>> /\ apc # "gone" =>
        connectOps # <<>> \/ writeOps # <<>> \/ ipc = "epipe"

\* No lost wakeup: while the service runs, whoever waits for the queue has
\* a handler coming whose chain ends in notify_all.  An outstanding connect
\* is not enough: with an empty deque its success notifies nobody.
WaiterHasWaker ==
    apc = "waiting" /\ ipc \in {"run", "epipe"} =>
        posts # <<>> \/ write_msgs_ # <<>>

\* The server receives frames in the order of the Send calls, with nothing
\* but the latest frame repeated, across reconnects and retransmissions.
Link == INSTANCE OrderedLink
    WITH MayRepeat <- TRUE, sent <- nsent, received <- delivered
RefinesOrderedLink == Link!Spec

-----------------------------------------------------------------------------
(* The inductive invariant the safety properties follow from               *)

\* Which thread is where.
ThreadInv ==
    /\ apc \in Sending => nsent > 0
    /\ ~thread_is_running_ => ipc = "none"
    /\ service_is_ready_ => ipc \in {"run", "epipe", "undefined"}
    /\ stopped => apc \in {"join", "gone"}
    /\ closePosted => apc \in {"stop", "join"}
    /\ apc \in {"stop", "join"} => ipc # "resolve"

\* The I/O thread has not started anything, ...
Dormant == ipc \in {"none", "resolve", "exit"} /\ apc \notin {"stop", "join"}

\* ... owns the socket, ...
OpenInv ==
    /\ connecting_ <=> connectOps # <<>>
    /\ connecting_ <=> link = "opening"
    /\ write_in_progress_ <=> writeOps # <<>>
    /\ connected_ <=> link \in {"up", "garbled", "gone"}
    /\ Len(connectOps) <= 1
    /\ write_in_progress_ =>
          connected_ /\ write_msgs_ # <<>> /\ writeOps = <<Head(write_msgs_)>>
    /\ write_msgs_ # <<>> => connecting_ \/ write_in_progress_ \/ ipc = "epipe"
    /\ ipc = "epipe" => write_msgs_ # <<>> /\ link = "closed"
    /\ Dormant => link = "closed"

\* ... or finds it closed by the destructor, with nothing left to write: not
\* even on the connection that a late broken pipe opens behind DoClose.
ClosedInv ==
    /\ posts = <<>>
    /\ IF apc = "gone" THEN writeOps = <<>>
       ELSE /\ write_msgs_ = <<>> /\ prev_.msg = 0
            /\ ipc = "epipe" => connectOps = <<>> /\ writeOps = <<>>
    /\ Len(connectOps) <= 1 /\ Len(writeOps) <= 1
    /\ writeOps # <<>> => connectOps = <<>> /\ link \in {"closed", "broken"}

LinkInv == IF Closed THEN ClosedInv ELSE OpenInv

\* Whoever waits, or is about to, waits for a frame.
WakerInv ==
    apc # "gone" =>
        /\ apc \in {"wait", "waiting"} => posts # <<>> \/ write_msgs_ # <<>>
        /\ msg_to_send_ => posts # <<>> \/ apc \in {"post"} \cup Destroying
        /\ ipc = "resolve" => posts # <<>> \/ apc \in Sending
        /\ connecting_ => posts # <<>> \/ write_msgs_ # <<>> \/ apc \in Sending \/ Closed

Sorted(q) == \A i, j \in DOMAIN q : i <= j => q[i] <= q[j]
Above(m, q) == \A i \in DOMAIN q : m <= q[i]
Below(m, q) == \A i \in DOMAIN q : q[i] <= m
Before(p, q) == \A i \in DOMAIN p, j \in DOMAIN q : p[i] <= q[j]

\* Last received, last written, queued, posted, sent: in this order.
OrderInv ==
    /\ Sorted(write_msgs_) /\ Sorted(posts)
    /\ prev_.msg # 0 => Link!Floor <= prev_.msg
    /\ Link!Floor <= nsent \/ delivered = <<>>
    /\ Above(Link!Floor, write_msgs_) /\ Above(Link!Floor, posts)
    /\ Above(prev_.msg, write_msgs_) /\ Above(prev_.msg, posts)
    /\ Before(write_msgs_, posts)
    /\ prev_.msg <= nsent /\ Below(nsent, write_msgs_) /\ Below(nsent, posts)

IndInv == TypeOK /\ ThreadInv /\ LinkInv /\ WakerInv /\ OrderInv

-----------------------------------------------------------------------------
(* Liveness                                                                *)

\* BlockUntilQueueIsEmpty returns.
BlockReturns == apc \in Blocking ~> apc \notin Blocking

\* Every frame accepted by Send is eventually written or given up.
QueueDrains == posts # <<>> \/ write_msgs_ # <<>> ~>
    (posts = <<>> /\ write_msgs_ = <<>>) \/ apc \in Destroying

Received(m) == \E i \in DOMAIN delivered : delivered[i] = m

\* No server can be reached: there is no connection, and none is tried for.
Unreachable == ipc = "run" /\ link = "closed"

\* The comment on TIMEOUT_SECONDS: when a write breaks the pipe, the frame
\* written before it, which may have been lost, is delivered after all if it is
\* not too old by then (unless the server drops us yet again, or cannot be
\* reached), and so is the frame that broke, however long that takes.
Retransmitted(m) == write_msgs_ # <<>> /\ m \in {prev_.msg, Head(write_msgs_)}
TooOld(m) == m = prev_.msg /\ prev_.age >= TIMEOUT_SECONDS
RetransmissionDelivers ==
    \A m \in Msgs :
        ipc = "epipe" /\ drops = MaxDrops /\ Retransmitted(m) ~>
            Received(m) \/ TooOld(m) \/ Unreachable \/ apc \in Destroying

\* "TCP guarantees delivery (if a connection is valid)": every frame is
\* received, unless the server drops us or cannot be reached.
ValidConnectionDelivers ==
    \A m \in Msgs :
        apc = "post" /\ nsent = m ~>
            Received(m) \/ link = "gone" \/ Unreachable \/ apc \in Destroying

-----------------------------------------------------------------------------
(* Statements of the headers and tests that the code does not keep         *)

\* BlockUntilQueueIsEmpty returns only when the queue is empty.
BlockDrains ==
    [][apc = "check_c" /\ apc' = "idle" => posts = <<>> /\ write_msgs_ = <<>>]_vars

\* A frame written TIMEOUT_SECONDS ago or earlier is not retransmitted.
NoStaleRetransmission ==
    [][Len(write_msgs_') > Len(write_msgs_) /\ posts' = posts =>
        prev_.age < TIMEOUT_SECONDS]_vars
=============================================================================
