----------------------------- MODULE UdpProofs -----------------------------
(***************************************************************************)
(* Machine-checked proofs about UdpClient, for every value of its          *)
(* constants: any number of Send calls, any faults.  As in TcpProofs the   *)
(* safety properties follow from IndInv, whose parts are kept one after    *)
(* the other: types, threads, socket, who waits for what, order.  Every    *)
(* datagram is another number, so the order here is strict: what leaves    *)
(* the deque is below all that stays.                                      *)
(***************************************************************************)
EXTENDS UdpProperties, SequenceTheorems, TLAPS

USE DEF appVars, runVars, flagVars, sockVars

-----------------------------------------------------------------------------
(* Types and threads                                                       *)

\* The program starts in a well-typed state.
LEMMA TypeInit == Init => TypeOK /\ ThreadInv
<1> SUFFICES ASSUME Init PROVE TypeOK /\ ThreadInv
  OBVIOUS
<1>1. nsent \in 0..MaxMsgs
  BY ConstantsOK DEF Init
<1>2. ScalarTypes
  BY <1>1 DEF Init, ScalarTypes
<1>3. QueueTypes
  BY DEF Init, QueueTypes
<1>4. ThreadInv
  BY DEF Init, ThreadInv, Sending
<1> QED
  BY <1>2, <1>3, <1>4 DEF TypeOK

\* Send, with the thread it may have to start.
LEMMA SendScalars ==
    ASSUME ScalarTypes, Send
    PROVE  ScalarTypes'
<1>1. nsent' \in 0..MaxMsgs
  BY ConstantsOK DEF ScalarTypes, Send
<1>2. /\ apc' \in {"idle", "flag"} /\ ipc' \in {ipc, "resolve"}
      /\ thread_is_running_' \in BOOLEAN
  BY DEF ScalarTypes, Send, RunThread
<1> QED
  BY <1>1, <1>2 DEF ScalarTypes, Send, Sending

\* The destruction of the members.
LEMMA DestroyTypes ==
    ASSUME ScalarTypes, QueueTypes, Destroy
    PROVE  ScalarTypes' /\ QueueTypes'
<1>1. ScalarTypes'
  BY DEF ScalarTypes, Destroy, Destroying
<1>2. QueueTypes'
  BY DEF QueueTypes, Destroy
<1> QED
  BY <1>1, <1>2

\* Program counters, flags and counters keep their types.
LEMMA ScalarStep ==
    ASSUME ScalarTypes, [Next]_vars
    PROVE  ScalarTypes'
<1> USE ConstantsOK DEF ScalarTypes, Sending, Blocking, Destroying
<1>1. CASE Send
  BY <1>1, SendScalars
<1>2. CASE RaiseMsgToSend
  BY <1>2 DEF RaiseMsgToSend
<1>3. CASE PostDoSend
  BY <1>3 DEF PostDoSend, Bound
<1>4. CASE BlockUntilQueueIsEmpty
  BY <1>4 DEF BlockUntilQueueIsEmpty, Goto
<1>5. CASE SpinUntilReady
  BY <1>5 DEF SpinUntilReady, Goto
<1>6. CASE CheckFlags
  BY <1>6 DEF CheckFlags, Goto
<1>7. CASE EnterWait
  BY <1>7 DEF EnterWait, Goto
<1>8. CASE SpuriousWakeup
  BY <1>8 DEF SpuriousWakeup, Goto
<1>9. CASE Destructor
  BY <1>9 DEF Destructor, Destroy, Goto
<1>10. CASE StopOrTimedJoin
  BY <1>10 DEF StopOrTimedJoin, Destroy
<1>11. CASE Join
  BY <1>11 DEF Join, Destroy
<1>12. CASE ResolveOk
  BY <1>12 DEF ResolveOk
<1>13. CASE LeaveRun
  BY <1>13 DEF LeaveRun
<1>14. CASE ThreadExit
  BY <1>14 DEF ThreadExit
<1>15. CASE DoSend
  BY <1>15 DEF DoSend, Handling, MustWait
<1>16. CASE HandlerWriteOk
  BY <1>16 DEF HandlerWriteOk, Handling, NotifyAll
<1>17. CASE HandlerWriteError
  BY <1>17 DEF HandlerWriteError, Handling, NotifyAll
<1>18. CASE UNCHANGED vars
  BY <1>18 DEF vars
<1> QED
  BY <1>1, <1>2, <1>3, <1>4, <1>5, <1>6, <1>7, <1>8, <1>9,
     <1>10, <1>11, <1>12, <1>13, <1>14, <1>15, <1>16, <1>17, <1>18
  DEF Next, Application, AppContinues, IoThread, Terminated

\* The threads stay where the flags they share say they are.
LEMMA ThreadStep ==
    ASSUME ScalarTypes, ThreadInv, [Next]_vars
    PROVE  ThreadInv'
<1> USE DEF ScalarTypes, ThreadInv, Sending, Blocking, Destroying
<1>1. CASE Send
  BY <1>1 DEF Send, RunThread
<1>2. CASE RaiseMsgToSend
  BY <1>2 DEF RaiseMsgToSend
<1>3. CASE PostDoSend
  BY <1>3 DEF PostDoSend, Bound
<1>4. CASE BlockUntilQueueIsEmpty
  BY <1>4 DEF BlockUntilQueueIsEmpty, Goto
<1>5. CASE SpinUntilReady
  BY <1>5 DEF SpinUntilReady, Goto
<1>6. CASE CheckFlags
  BY <1>6 DEF CheckFlags, Goto
<1>7. CASE EnterWait
  BY <1>7 DEF EnterWait, Goto
<1>8. CASE SpuriousWakeup
  BY <1>8 DEF SpuriousWakeup, Goto
<1>9. CASE Destructor
  BY <1>9 DEF Destructor, Destroy, Goto
<1>10. CASE StopOrTimedJoin
  BY <1>10 DEF StopOrTimedJoin, Destroy
<1>11. CASE Join
  BY <1>11 DEF Join, Destroy
<1>12. CASE ResolveOk
  BY <1>12 DEF ResolveOk
<1>13. CASE LeaveRun
  BY <1>13 DEF LeaveRun
<1>14. CASE ThreadExit
  BY <1>14 DEF ThreadExit
<1>15. CASE DoSend
  BY <1>15 DEF DoSend, Handling
<1>16. CASE HandlerWriteOk
  BY <1>16 DEF HandlerWriteOk, Handling, NotifyAll
<1>17. CASE HandlerWriteError
  BY <1>17 DEF HandlerWriteError, Handling, NotifyAll
<1>18. CASE UNCHANGED vars
  BY <1>18 DEF vars
<1> QED
  BY <1>1, <1>2, <1>3, <1>4, <1>5, <1>6, <1>7, <1>8, <1>9,
     <1>10, <1>11, <1>12, <1>13, <1>14, <1>15, <1>16, <1>17, <1>18
  DEF Next, Application, AppContinues, IoThread, Terminated

\* DoSend moves a posted datagram to the deque and may send its front.
LEMMA DoSendQueues ==
    ASSUME QueueTypes, DoSend
    PROVE  QueueTypes'
<1> DEFINE queue == Append(write_msgs_, Head(posts))
<1>1. Head(posts) \in Msgs /\ Tail(posts) \in Seq(Msgs)
  BY DEF DoSend, QueueTypes
<1>2. queue \in Seq(Msgs) /\ queue # <<>>
  BY <1>1, AppendProperties DEF QueueTypes
<1>3. sendOps' = sendOps \/ sendOps' = Append(sendOps, Head(queue))
  BY DEF DoSend, Queued
<1>4. sendOps' \in Seq(Msgs)
  <2>1. Head(queue) \in Msgs /\ sendOps \in Seq(Msgs)
    BY <1>2 DEF QueueTypes
  <2> HIDE DEF queue
  <2> QED
    BY <2>1, <1>3
<1>5. posts' = Tail(posts) /\ write_msgs_' = queue /\ wire' = wire
  BY DEF DoSend, Queued
<1> QED
  BY <1>1, <1>2, <1>4, <1>5 DEF QueueTypes

\* HandlerWrite pops the front of the deque and may send the next.
LEMMA WriteOkQueues ==
    ASSUME QueueTypes, HandlerWriteOk, write_msgs_ # <<>>
    PROVE  QueueTypes'
<1>1. Head(sendOps) \in Msgs /\ Tail(sendOps) \in Seq(Msgs)
  BY DEF HandlerWriteOk, QueueTypes
<1>2. Tail(write_msgs_) \in Seq(Msgs)
  BY DEF QueueTypes
<1>3. wire' \in Seq(Msgs)
  BY <1>1 DEF HandlerWriteOk, QueueTypes
<1>4. \/ sendOps' = Tail(sendOps)
      \/ /\ Tail(write_msgs_) # <<>>
         /\ sendOps' = Append(Tail(sendOps), Head(Tail(write_msgs_)))
  BY DEF HandlerWriteOk, SendNext
<1>5. sendOps' \in Seq(Msgs)
  <2>1. Tail(write_msgs_) # <<>> => Head(Tail(write_msgs_)) \in Msgs
    BY <1>2
  <2> QED
    BY <1>1, <1>4, <2>1
<1>6. write_msgs_' = Tail(write_msgs_) /\ posts' = posts
  BY DEF HandlerWriteOk
<1> QED
  BY <1>2, <1>3, <1>5, <1>6 DEF QueueTypes

\* The queues, and what leaves, hold datagrams.
LEMMA QueueStep ==
    ASSUME ScalarTypes, QueueTypes, ThreadInv, SocketInv, [Next]_vars
    PROVE  QueueTypes'
<1> USE ConstantsOK DEF QueueTypes, ScalarTypes, ThreadInv, Sending, Msgs
<1>1. CASE Send
  BY <1>1 DEF Send, RunThread
<1>2. CASE RaiseMsgToSend
  BY <1>2 DEF RaiseMsgToSend
<1>3. CASE PostDoSend
  BY <1>3 DEF PostDoSend, Bound
<1>4. CASE BlockUntilQueueIsEmpty
  BY <1>4 DEF BlockUntilQueueIsEmpty, Goto
<1>5. CASE SpinUntilReady
  BY <1>5 DEF SpinUntilReady, Goto
<1>6. CASE CheckFlags
  BY <1>6 DEF CheckFlags, Goto
<1>7. CASE EnterWait
  BY <1>7 DEF EnterWait, Goto
<1>8. CASE SpuriousWakeup
  BY <1>8 DEF SpuriousWakeup, Goto
<1>9. CASE Destructor
  BY <1>9, DestroyTypes DEF Destructor, Goto
<1>10. CASE StopOrTimedJoin
  BY <1>10, DestroyTypes DEF StopOrTimedJoin
<1>11. CASE Join
  BY <1>11, DestroyTypes DEF Join
<1>12. CASE ResolveOk
  BY <1>12 DEF ResolveOk
<1>13. CASE LeaveRun
  BY <1>13 DEF LeaveRun
<1>14. CASE ThreadExit
  BY <1>14 DEF ThreadExit
<1>15. CASE DoSend
  BY <1>15, DoSendQueues
<1>16. CASE HandlerWriteOk
  BY <1>16, WriteOkQueues DEF HandlerWriteOk, Handling, SocketInv
<1>17. CASE HandlerWriteError
  BY <1>17 DEF HandlerWriteError
<1>18. CASE UNCHANGED vars
  BY <1>18 DEF vars
<1> QED
  BY <1>1, <1>2, <1>3, <1>4, <1>5, <1>6, <1>7, <1>8, <1>9,
     <1>10, <1>11, <1>12, <1>13, <1>14, <1>15, <1>16, <1>17, <1>18
  DEF Next, Application, AppContinues, IoThread, Terminated

-----------------------------------------------------------------------------
(* The socket                                                              *)

\* Nothing is under way at first.
LEMMA SocketInit == Init => SocketInv
  BY DEF Init, SocketInv

\* DoSend sends the front of the deque only where it has just put it.
LEMMA DoSendSocket ==
    ASSUME QueueTypes, SocketInv, DoSend
    PROVE  SocketInv'
<1>1. apc # "gone" /\ apc' = apc /\ Head(posts) \in Msgs /\ write_msgs_ \in Seq(Msgs)
  BY DEF DoSend, Handling, QueueTypes
<1>2. write_msgs_' = Append(write_msgs_, Head(posts)) /\ open' = open
  BY DEF DoSend, Queued
<1>3. write_msgs_' # <<>>
  BY <1>1, <1>2
<1>4. CASE write_msgs_ = <<>>
  <2>1. sendOps' = Append(<<>>, Head(write_msgs_')) /\ open
    BY <1>1, <1>2, <1>4 DEF DoSend, MustWait, Queued, SocketInv
  <2>2. sendOps' = <<Head(write_msgs_')>>
    BY <2>1
  <2> QED
    BY <1>1, <1>2, <1>3, <2>1, <2>2 DEF SocketInv
<1>5. CASE write_msgs_ # <<>>
  <2>1. sendOps' = sendOps /\ Head(write_msgs_') = Head(write_msgs_)
    BY <1>1, <1>2, <1>5 DEF DoSend, MustWait
  <2>2. sendOps = IF open THEN <<Head(write_msgs_)>> ELSE <<>>
    BY <1>1, <1>5 DEF SocketInv
  <2> QED
    BY <1>1, <1>2, <1>3, <2>1, <2>2 DEF SocketInv
<1> QED
  BY <1>4, <1>5

\* HandlerWrite sends the next datagram, if there is one.
LEMMA WriteOkSocket ==
    ASSUME QueueTypes, SocketInv, HandlerWriteOk
    PROVE  SocketInv'
<1>1. apc # "gone" /\ apc' # "gone" /\ sendOps # <<>> /\ open /\ open' = open
  BY DEF HandlerWriteOk, Handling, NotifyAll
<1>2. write_msgs_ # <<>> /\ sendOps = <<Head(write_msgs_)>>
  BY <1>1 DEF SocketInv
<1>3. Tail(sendOps) = <<>>
  BY <1>2
<1>4. CASE Tail(write_msgs_) # <<>>
  <2>1. sendOps' = Append(<<>>, Head(write_msgs_')) /\ write_msgs_' # <<>>
    BY <1>3, <1>4 DEF HandlerWriteOk, SendNext
  <2>2. sendOps' = <<Head(write_msgs_')>>
    BY <2>1
  <2> QED
    BY <1>1, <2>1, <2>2 DEF SocketInv
<1>5. CASE Tail(write_msgs_) = <<>>
  <2>1. write_msgs_' = <<>> /\ sendOps' = <<>> /\ ~write_in_progress_'
    BY <1>3, <1>5 DEF HandlerWriteOk
  <2> QED
    BY <1>1, <2>1 DEF SocketInv
<1> QED
  BY <1>4, <1>5

\* An error leaves the datagram in the deque, and no operation.
LEMMA WriteErrorSocket ==
    ASSUME SocketInv, HandlerWriteError
    PROVE  SocketInv'
<1>1. apc # "gone" /\ apc' # "gone" /\ sendOps # <<>>
  BY DEF HandlerWriteError, Handling, NotifyAll
<1>2. write_msgs_ # <<>> /\ sendOps = <<Head(write_msgs_)>>
  BY <1>1 DEF SocketInv
<1>3. Tail(sendOps) = <<>>
  BY <1>2
<1> QED
  BY <1>1, <1>2, <1>3 DEF HandlerWriteError, SocketInv

\* The deque, the outstanding send and the socket stay in agreement.
LEMMA SocketStep ==
    ASSUME QueueTypes, SocketInv, [Next]_vars
    PROVE  SocketInv'
<1> USE DEF SocketInv
<1>1. CASE Send
  BY <1>1 DEF Send, RunThread
<1>2. CASE RaiseMsgToSend
  BY <1>2 DEF RaiseMsgToSend
<1>3. CASE PostDoSend
  BY <1>3 DEF PostDoSend, Bound
<1>4. CASE BlockUntilQueueIsEmpty
  BY <1>4 DEF BlockUntilQueueIsEmpty, Goto
<1>5. CASE SpinUntilReady
  BY <1>5 DEF SpinUntilReady, Goto
<1>6. CASE CheckFlags
  BY <1>6 DEF CheckFlags, Goto
<1>7. CASE EnterWait
  BY <1>7 DEF EnterWait, Goto
<1>8. CASE SpuriousWakeup
  BY <1>8 DEF SpuriousWakeup, Goto
<1>9. CASE Destructor
  BY <1>9 DEF Destructor, Destroy, Goto
<1>10. CASE StopOrTimedJoin
  BY <1>10 DEF StopOrTimedJoin, Destroy
<1>11. CASE Join
  BY <1>11 DEF Join, Destroy
<1>12. CASE ResolveOk
  BY <1>12 DEF ResolveOk
<1>13. CASE LeaveRun
  BY <1>13 DEF LeaveRun
<1>14. CASE ThreadExit
  BY <1>14 DEF ThreadExit
<1>15. CASE DoSend
  BY <1>15, DoSendSocket
<1>16. CASE HandlerWriteOk
  BY <1>16, WriteOkSocket
<1>17. CASE HandlerWriteError
  BY <1>17, WriteErrorSocket
<1>18. CASE UNCHANGED vars
  BY <1>18 DEF vars
<1> QED
  BY <1>1, <1>2, <1>3, <1>4, <1>5, <1>6, <1>7, <1>8, <1>9,
     <1>10, <1>11, <1>12, <1>13, <1>14, <1>15, <1>16, <1>17, <1>18
  DEF Next, Application, AppContinues, IoThread, Terminated

-----------------------------------------------------------------------------
(* Waiting                                                                 *)

\* Nobody waits at first.
LEMMA WakerInit == Init => WakerInv
  BY DEF Init, WakerInv

\* Whoever waits keeps a datagram to wait for, or is notified.
LEMMA WakerStep ==
    ASSUME ScalarTypes, QueueTypes, ThreadInv, SocketInv, WakerInv, [Next]_vars
    PROVE  WakerInv'
<1> USE DEF ScalarTypes, ThreadInv, SocketInv, WakerInv, Sending, Destroying
<1>1. CASE Send
  BY <1>1 DEF Send, RunThread
<1>2. CASE RaiseMsgToSend
  BY <1>2 DEF RaiseMsgToSend
<1>3. CASE PostDoSend
  BY <1>3 DEF PostDoSend, Bound
<1>4. CASE BlockUntilQueueIsEmpty
  BY <1>4 DEF BlockUntilQueueIsEmpty, Goto
<1>5. CASE SpinUntilReady
  BY <1>5 DEF SpinUntilReady, Goto
<1>6. CASE CheckFlags
  BY <1>6 DEF CheckFlags, Goto
<1>7. CASE EnterWait
  BY <1>7 DEF EnterWait, Goto
<1>8. CASE SpuriousWakeup
  BY <1>8 DEF SpuriousWakeup, Goto
<1>9. CASE Destructor
  BY <1>9 DEF Destructor, Destroy, Goto
<1>10. CASE StopOrTimedJoin
  BY <1>10 DEF StopOrTimedJoin, Destroy
<1>11. CASE Join
  BY <1>11 DEF Join, Destroy
<1>12. CASE ResolveOk
  BY <1>12 DEF ResolveOk
<1>13. CASE LeaveRun
  BY <1>13 DEF LeaveRun
<1>14. CASE ThreadExit
  BY <1>14 DEF ThreadExit
<1>15. CASE DoSend
  BY <1>15, AppendProperties DEF DoSend, Handling, Queued, QueueTypes
<1>16. CASE HandlerWriteOk
  BY <1>16 DEF HandlerWriteOk, Handling, NotifyAll, MutexFree
<1>17. CASE HandlerWriteError
  BY <1>17 DEF HandlerWriteError, Handling, NotifyAll, MutexFree
<1>18. CASE UNCHANGED vars
  BY <1>18 DEF vars
<1> QED
  BY <1>1, <1>2, <1>3, <1>4, <1>5, <1>6, <1>7, <1>8, <1>9,
     <1>10, <1>11, <1>12, <1>13, <1>14, <1>15, <1>16, <1>17, <1>18
  DEF Next, Application, AppContinues, IoThread, Terminated
-----------------------------------------------------------------------------
(* Order                                                                   *)

\* Appending an element that is above the others.
LEMMA OrderAppend ==
    ASSUME NEW q \in Seq(Nat), NEW e \in Nat
    PROVE  /\ Ascending(q) /\ UpTo(e - 1, q) => Ascending(Append(q, e))
           /\ \A m \in Nat : From(m, q) /\ m <= e => From(m, Append(q, e))
           /\ \A m \in Nat : UpTo(m, q) /\ e <= m => UpTo(m, Append(q, e))
           /\ \A p \in Seq(Nat) :
                /\ Before(p, q) /\ UpTo(e - 1, p) => Before(p, Append(q, e))
                /\ Before(q, p) /\ From(e + 1, p) => Before(Append(q, e), p)
<1> DEFINE a == Append(q, e)
           n == Len(q)
<1>1. /\ n \in Nat /\ DOMAIN q = 1..n /\ DOMAIN a = 1..(n + 1)
      /\ \A i \in 1..n : a[i] = q[i] /\ q[i] \in Nat
      /\ a[n + 1] = e
  <2>1. a \in Seq(Nat) /\ Len(a) = n + 1
    BY AppendProperties
  <2> QED
    BY <2>1, AppendProperties, LenProperties, ElementOfSeq
<1> HIDE DEF a, n
<1>2. Ascending(q) /\ UpTo(e - 1, q) => Ascending(a)
  BY <1>1 DEF Ascending, UpTo
<1>3. \A m \in Nat : From(m, q) /\ m <= e => From(m, a)
  BY <1>1 DEF From
<1>4. \A m \in Nat : UpTo(m, q) /\ e <= m => UpTo(m, a)
  BY <1>1 DEF UpTo
<1>5. ASSUME NEW p \in Seq(Nat)
      PROVE  /\ Before(p, q) /\ UpTo(e - 1, p) => Before(p, a)
             /\ Before(q, p) /\ From(e + 1, p) => Before(a, p)
  <2>1. \A i \in DOMAIN p : p[i] \in Nat
    BY LenProperties, ElementOfSeq
  <2>2. Before(p, q) /\ UpTo(e - 1, p) => Before(p, a)
    <3> SUFFICES ASSUME Before(p, q), UpTo(e - 1, p), NEW i \in DOMAIN p, NEW j \in 1..(n + 1)
                 PROVE  p[i] < a[j]
      BY <1>1 DEF Before
    <3>1. CASE j \in 1..n
      BY <3>1, <1>1 DEF Before
    <3>2. CASE j = n + 1
      BY <3>2, <1>1, <2>1 DEF UpTo
    <3> QED
      BY <3>1, <3>2, <1>1
  <2>3. Before(q, p) /\ From(e + 1, p) => Before(a, p)
    <3> SUFFICES ASSUME Before(q, p), From(e + 1, p), NEW i \in 1..(n + 1), NEW j \in DOMAIN p
                 PROVE  a[i] < p[j]
      BY <1>1 DEF Before
    <3>1. CASE i \in 1..n
      BY <3>1, <1>1 DEF Before
    <3>2. CASE i = n + 1
      BY <3>2, <1>1, <2>1 DEF From
    <3> QED
      BY <3>1, <3>2, <1>1
  <2> QED
    BY <2>2, <2>3
<1> QED
  BY <1>2, <1>3, <1>4, <1>5 DEF a

\* Taking the head off.
LEMMA OrderTail ==
    ASSUME NEW q \in Seq(Nat), q # <<>>
    PROVE  /\ Head(q) \in Nat /\ Tail(q) \in Seq(Nat)
           /\ Ascending(q) => Ascending(Tail(q)) /\ From(Head(q) + 1, Tail(q))
           /\ \A m \in Nat : From(m, q) => m <= Head(q) /\ From(m, Tail(q))
           /\ \A m \in Int : UpTo(m, q) => Head(q) <= m /\ UpTo(m, Tail(q))
           /\ \A p \in Seq(Nat) :
                /\ Before(q, p) => From(Head(q) + 1, p) /\ Before(Tail(q), p)
                /\ Before(p, q) => UpTo(Head(q) - 1, p) /\ Before(p, Tail(q))
<1> DEFINE t == Tail(q)
           n == Len(q)
<1>1. /\ Head(q) \in Nat /\ t \in Seq(Nat) /\ Len(t) = n - 1
      /\ \A i \in 1..Len(t) : t[i] = q[i + 1]
  BY HeadTailProperties
<1>2. Head(q) = q[1]
  OBVIOUS
<1>3. n \in Nat \ {0} /\ DOMAIN q = 1..n /\ DOMAIN t = 1..(n - 1)
  BY <1>1, LenProperties, EmptySeq
<1>4. \A i \in 1..n : q[i] \in Nat
  BY <1>3, ElementOfSeq
<1>5. 1 \in 1..n /\ \A i \in 1..(n - 1) : i + 1 \in 1..n /\ t[i] = q[i + 1]
  BY <1>1, <1>3
<1> HIDE DEF t, n
<1>6. Ascending(q) => Ascending(t) /\ From(Head(q) + 1, t)
  <2>1. ASSUME Ascending(q), NEW i \in DOMAIN t, NEW j \in DOMAIN t, i < j
        PROVE  t[i] < t[j]
    <3>1. i + 1 \in DOMAIN q /\ j + 1 \in DOMAIN q /\ i + 1 < j + 1
      BY <2>1, <1>3, <1>5
    <3>2. t[i] = q[i + 1] /\ t[j] = q[j + 1]
      BY <1>3, <1>5
    <3> QED
      BY <2>1, <3>1, <3>2 DEF Ascending
  <2>2. ASSUME Ascending(q), NEW i \in DOMAIN t
        PROVE  Head(q) + 1 <= t[i]
    <3>1. 1 \in DOMAIN q /\ i + 1 \in DOMAIN q /\ 1 < i + 1
      BY <1>3, <1>5
    <3>2. q[1] < q[i + 1] /\ q[1] \in Nat /\ q[i + 1] \in Nat
      BY <2>2, <3>1, <1>3, <1>4 DEF Ascending
    <3> QED
      BY <3>2, <1>2, <1>3, <1>5
  <2> QED
    BY <2>1, <2>2 DEF Ascending, From
<1>7. \A m \in Nat : From(m, q) => m <= Head(q) /\ From(m, t)
  BY <1>2, <1>3, <1>5 DEF From
<1>8. \A m \in Int : UpTo(m, q) => Head(q) <= m /\ UpTo(m, t)
  BY <1>2, <1>3, <1>5 DEF UpTo
<1>9. ASSUME NEW p \in Seq(Nat)
      PROVE  /\ Before(q, p) => From(Head(q) + 1, p) /\ Before(t, p)
             /\ Before(p, q) => UpTo(Head(q) - 1, p) /\ Before(p, t)
  <2>1. \A i \in DOMAIN p : p[i] \in Nat
    BY LenProperties, ElementOfSeq
  <2>2. Before(q, p) => From(Head(q) + 1, p) /\ Before(t, p)
    <3> SUFFICES ASSUME Before(q, p), NEW j \in DOMAIN p
                 PROVE  Head(q) + 1 <= p[j] /\ \A i \in DOMAIN t : t[i] < p[j]
      BY DEF Before, From
    <3>1. q[1] < p[j] /\ \A i \in 1..(n - 1) : q[i + 1] < p[j]
      BY <1>3, <1>5 DEF Before
    <3> QED
      BY <3>1, <2>1, <1>1, <1>2, <1>3, <1>5
  <2>3. Before(p, q) => UpTo(Head(q) - 1, p) /\ Before(p, t)
    <3> SUFFICES ASSUME Before(p, q), NEW i \in DOMAIN p
                 PROVE  p[i] <= Head(q) - 1 /\ \A j \in DOMAIN t : p[i] < t[j]
      BY DEF Before, UpTo
    <3>1. p[i] < q[1] /\ \A j \in 1..(n - 1) : p[i] < q[j + 1]
      BY <1>3, <1>5 DEF Before
    <3> QED
      BY <3>1, <2>1, <1>1, <1>2, <1>3, <1>5
  <2> QED
    BY <2>2, <2>3
<1> QED
  BY <1>1, <1>6, <1>7, <1>8, <1>9 DEF t

\* The last element of what has been appended to.
LEMMA LastOfAppend ==
    ASSUME NEW S, NEW q \in Seq(S), NEW e \in S
    PROVE  Append(q, e) # <<>> /\ Append(q, e)[Len(Append(q, e))] = e
<1>1. Len(Append(q, e)) = Len(q) + 1 /\ Append(q, e)[Len(q) + 1] = e
  BY AppendProperties
<1> QED
  BY <1>1, AppendProperties

\* Datagrams are numbers.
LEMMA Numbers ==
    ASSUME TypeOK, ThreadInv
    PROVE  /\ write_msgs_ \in Seq(Nat) /\ posts \in Seq(Nat) /\ Msgs \subseteq Nat
           /\ wire \in Seq(Nat)
           /\ nsent \in Nat /\ LastPosted \in Nat /\ Link!Floor \in Nat
<1>1. Msgs \subseteq Nat /\ 0..MaxMsgs \subseteq Nat
  BY ConstantsOK DEF Msgs
<1>2. write_msgs_ \in Seq(Nat) /\ posts \in Seq(Nat) /\ wire \in Seq(Nat)
  BY <1>1, SeqMonotonic DEF TypeOK, QueueTypes
<1>3. nsent \in Nat /\ LastPosted \in Nat
  BY <1>1 DEF TypeOK, ScalarTypes, ThreadInv, LastPosted
<1>4. wire # <<>> => wire[Len(wire)] \in Nat
  <2>1. wire # <<>> => Len(wire) \in 1..Len(wire)
    BY <1>2, EmptySeq, LenProperties
  <2> QED
    BY <1>2, <2>1, ElementOfSeq
<1>5. Link!Floor \in Nat
  BY <1>4 DEF Link!Floor
<1> QED
  BY <1>1, <1>2, <1>3, <1>5

\* The empty sequence is in every order.
LEMMA EmptyOrder ==
    ASSUME NEW m
    PROVE  /\ Ascending(<<>>) /\ From(m, <<>>) /\ UpTo(m, <<>>)
           /\ \A q : Before(<<>>, q) /\ Before(q, <<>>)
  BY DEF Ascending, From, UpTo, Before

\* Nothing is out of order at first.
LEMMA OrderInit == Init => OrderInv
<1> SUFFICES ASSUME Init PROVE OrderInv
  OBVIOUS
<1>1. Link!Floor = 1 /\ LastPosted = 0
  BY DEF Init, Link!Floor, LastPosted, Sending
<1> QED
  BY <1>1, EmptyOrder DEF Init, OrderInv

\* The order is kept where no datagram moves.
LEMMA SameOrder ==
    ASSUME TypeOK, ThreadInv, OrderInv, UNCHANGED <<posts, write_msgs_, wire>>,
           LastPosted' \in {LastPosted, LastPosted + 1}
    PROVE  OrderInv'
<1>1. Link!Floor' = Link!Floor
  BY DEF Link!Floor
<1>2. LastPosted \in Nat /\ Link!Floor \in Nat
  BY Numbers
<1>3. \A q \in Seq(Nat) : UpTo(LastPosted, q) => UpTo(LastPosted', q)
  BY <1>2, ElementOfSeq, LenProperties DEF UpTo
<1>4. UpTo(LastPosted', write_msgs_) /\ UpTo(LastPosted', posts)
  BY <1>3, Numbers DEF OrderInv
<1>5. Link!Floor' <= LastPosted' + 1
  <2>1. Link!Floor <= LastPosted + 1
    BY DEF OrderInv
  <2>2. LastPosted' = LastPosted \/ LastPosted' = LastPosted + 1
    OBVIOUS
  <2>3. \A f, p, q \in Nat : f <= p + 1 /\ (q = p \/ q = p + 1) => q \in Nat /\ f <= q + 1
    OBVIOUS
  <2>4. LastPosted' \in Nat
    BY <1>2, <2>2
  <2>5. Link!Floor <= LastPosted' + 1
    BY <1>2, <2>1, <2>2, <2>3, <2>4
  <2> QED
    BY <1>1, <2>5
<1> QED
  BY <1>1, <1>4, <1>5 DEF OrderInv

\* A datagram is posted behind all others, ...
LEMMA PostOrder ==
    ASSUME TypeOK, ThreadInv, OrderInv, PostDoSend
    PROVE  OrderInv'
<1>1. /\ posts' = Append(posts, nsent) /\ UNCHANGED <<write_msgs_, wire>>
      /\ LastPosted = nsent - 1 /\ LastPosted' = nsent
  BY DEF PostDoSend, Bound, LastPosted, Sending
<1>2. /\ nsent \in Nat /\ LastPosted \in Nat /\ Link!Floor \in Nat
      /\ posts \in Seq(Nat) /\ write_msgs_ \in Seq(Nat)
  BY Numbers
<1>3. /\ UpTo(nsent - 1, posts) /\ UpTo(nsent - 1, write_msgs_)
      /\ Link!Floor <= nsent
  BY <1>1, <1>2 DEF OrderInv
<1>4. \A q \in Seq(Nat) : UpTo(nsent - 1, q) => UpTo(nsent, q)
  BY <1>2, ElementOfSeq, LenProperties DEF UpTo
<1>5. /\ Ascending(posts') /\ From(Link!Floor, posts') /\ UpTo(nsent, posts')
      /\ Before(write_msgs_, posts')
  BY <1>1, <1>2, <1>3, <1>4, OrderAppend DEF OrderInv
<1>6. Link!Floor' = Link!Floor
  BY <1>1 DEF Link!Floor
<1> QED
  BY <1>1, <1>2, <1>3, <1>4, <1>5, <1>6 DEF OrderInv

\* ... moves to the end of the deque, ...
LEMMA DoSendOrder ==
    ASSUME TypeOK, ThreadInv, OrderInv, DoSend
    PROVE  OrderInv'
<1>1. /\ posts # <<>> /\ posts' = Tail(posts) /\ write_msgs_' = Append(write_msgs_, Head(posts))
      /\ wire' = wire /\ LastPosted' = LastPosted
  BY DEF DoSend, Queued, LastPosted
<1>2. /\ LastPosted \in Nat /\ Link!Floor \in Nat
      /\ posts \in Seq(Nat) /\ write_msgs_ \in Seq(Nat)
  BY Numbers
<1>3. /\ Head(posts) \in Nat /\ posts' \in Seq(Nat) /\ Ascending(posts')
      /\ From(Head(posts) + 1, posts')
      /\ Link!Floor <= Head(posts) /\ From(Link!Floor, posts')
      /\ Head(posts) <= LastPosted /\ UpTo(LastPosted, posts')
      /\ UpTo(Head(posts) - 1, write_msgs_) /\ Before(write_msgs_, posts')
  BY <1>1, <1>2, OrderTail DEF OrderInv
<1>4. /\ Ascending(write_msgs_') /\ From(Link!Floor, write_msgs_')
      /\ UpTo(LastPosted, write_msgs_') /\ Before(write_msgs_', posts')
  BY <1>1, <1>2, <1>3, OrderAppend DEF OrderInv
<1>5. Link!Floor' = Link!Floor
  BY <1>1 DEF Link!Floor
<1> QED
  BY <1>1, <1>3, <1>4, <1>5 DEF OrderInv

\* ... and leaves.
LEMMA WriteOkOrder ==
    ASSUME TypeOK, ThreadInv, SocketInv, OrderInv, HandlerWriteOk
    PROVE  /\ OrderInv'
           /\ wire' = Append(wire, Head(write_msgs_))
           /\ Head(write_msgs_) \in Nat /\ Link!Floor <= Head(write_msgs_)
           /\ Head(write_msgs_) <= nsent
<1>1. /\ write_msgs_ # <<>> /\ sendOps = <<Head(write_msgs_)>>
      /\ write_msgs_' = Tail(write_msgs_) /\ posts' = posts
  BY DEF HandlerWriteOk, Handling, SocketInv
<1>2. wire' = Append(wire, Head(write_msgs_)) /\ LastPosted' = LastPosted
  <2>1. Head(sendOps) = Head(write_msgs_)
    BY <1>1
  <2> QED
    BY <2>1 DEF HandlerWriteOk, NotifyAll, LastPosted, Sending
<1>3. /\ LastPosted \in Nat /\ Link!Floor \in Nat /\ nsent \in Nat
      /\ posts \in Seq(Nat) /\ write_msgs_ \in Seq(Nat) /\ wire \in Seq(Nat)
  BY Numbers
<1>4. /\ Head(write_msgs_) \in Nat /\ write_msgs_' \in Seq(Nat) /\ Ascending(write_msgs_')
      /\ From(Head(write_msgs_) + 1, write_msgs_')
      /\ Link!Floor <= Head(write_msgs_)
      /\ Head(write_msgs_) <= LastPosted /\ UpTo(LastPosted, write_msgs_')
      /\ From(Head(write_msgs_) + 1, posts) /\ Before(write_msgs_', posts)
  BY <1>1, <1>3, OrderTail DEF OrderInv
<1>5. Link!Floor' = Head(write_msgs_) + 1
  <2>1. wire' # <<>> /\ wire'[Len(wire')] = Head(write_msgs_)
    BY <1>2, <1>3, <1>4, LastOfAppend
  <2> QED
    BY <2>1 DEF Link!Floor
<1>6. Head(write_msgs_) <= nsent
  BY <1>3, <1>4 DEF LastPosted
<1>7. OrderInv'
  BY <1>1, <1>2, <1>3, <1>4, <1>5 DEF OrderInv
<1> QED
  BY <1>2, <1>4, <1>6, <1>7

\* The destructor drops what is posted.
LEMMA DestroyOrder ==
    ASSUME TypeOK, ThreadInv, OrderInv, apc \notin Sending, Destroy
    PROVE  OrderInv'
<1>1. /\ posts' = <<>> /\ UNCHANGED <<write_msgs_, wire>> /\ LastPosted' = LastPosted
  BY DEF Destroy, LastPosted, Sending
<1>2. Link!Floor' = Link!Floor
  BY <1>1 DEF Link!Floor
<1> QED
  BY <1>1, <1>2, EmptyOrder DEF OrderInv

\* Send only takes the next number.
LEMMA SendPosted ==
    ASSUME TypeOK, Send
    PROVE  LastPosted' \in {LastPosted, LastPosted + 1}
<1>1. apc = "idle" /\ apc' \in {"idle", "flag"} /\ nsent' = nsent + 1 /\ nsent \in Nat
  BY ConstantsOK DEF Send, RunThread, TypeOK, ScalarTypes
<1> QED
  BY <1>1 DEF LastPosted, Sending

\* Every step keeps the order.
LEMMA OrderStep ==
    ASSUME TypeOK, ThreadInv, SocketInv, OrderInv, [Next]_vars
    PROVE  OrderInv'
<1>1. CASE Send
  BY <1>1, SameOrder, SendPosted DEF Send
<1>2. CASE RaiseMsgToSend
  BY <1>2, SameOrder DEF RaiseMsgToSend, LastPosted, Sending
<1>3. CASE PostDoSend
  BY <1>3, PostOrder
<1>4. CASE BlockUntilQueueIsEmpty
  BY <1>4, SameOrder DEF BlockUntilQueueIsEmpty, Goto, LastPosted, Sending
<1>5. CASE SpinUntilReady
  BY <1>5, SameOrder DEF SpinUntilReady, Goto, LastPosted, Sending
<1>6. CASE CheckFlags
  BY <1>6, SameOrder DEF CheckFlags, Goto, LastPosted, Sending
<1>7. CASE EnterWait
  BY <1>7, SameOrder DEF EnterWait, Goto, LastPosted, Sending
<1>8. CASE SpuriousWakeup
  BY <1>8, SameOrder DEF SpuriousWakeup, Goto, LastPosted, Sending
<1>9. CASE Destructor
  BY <1>9, SameOrder, DestroyOrder DEF Destructor, Goto, LastPosted, Sending
<1>10. CASE StopOrTimedJoin
  BY <1>10, SameOrder, DestroyOrder DEF StopOrTimedJoin, LastPosted, Sending
<1>11. CASE Join
  BY <1>11, DestroyOrder DEF Join, Sending
<1>12. CASE ResolveOk
  BY <1>12, SameOrder DEF ResolveOk, LastPosted, Sending
<1>13. CASE LeaveRun
  BY <1>13, SameOrder DEF LeaveRun, LastPosted, Sending
<1>14. CASE ThreadExit
  BY <1>14, SameOrder DEF ThreadExit, LastPosted, Sending
<1>15. CASE DoSend
  BY <1>15, DoSendOrder
<1>16. CASE HandlerWriteOk
  BY <1>16, WriteOkOrder
<1>17. CASE HandlerWriteError
  BY <1>17, SameOrder DEF HandlerWriteError, Handling, NotifyAll, LastPosted, Sending
<1>18. CASE UNCHANGED vars
  BY <1>18, SameOrder DEF vars, LastPosted
<1> QED
  BY <1>1, <1>2, <1>3, <1>4, <1>5, <1>6, <1>7, <1>8, <1>9,
     <1>10, <1>11, <1>12, <1>13, <1>14, <1>15, <1>16, <1>17, <1>18
  DEF Next, Application, AppContinues, IoThread, Terminated

-----------------------------------------------------------------------------
(* Theorems                                                                *)

\* The invariant behind the safety theorems holds at first and is kept by
\* every step.
LEMMA IndInit == Init => IndInv
  BY TypeInit, SocketInit, WakerInit, OrderInit DEF IndInv

LEMMA IndStep ==
    ASSUME IndInv, [Next]_vars
    PROVE  IndInv'
<1>1. TypeOK'
  BY ScalarStep, QueueStep DEF IndInv, TypeOK
<1>2. ThreadInv'
  BY ThreadStep DEF IndInv, TypeOK
<1>3. SocketInv'
  BY SocketStep DEF IndInv, TypeOK
<1>4. WakerInv'
  BY WakerStep DEF IndInv, TypeOK
<1>5. OrderInv'
  BY OrderStep DEF IndInv
<1> QED
  BY <1>1, <1>2, <1>3, <1>4, <1>5 DEF IndInv

\* The inductive invariant of the client: threads, socket, waiting, order.
THEOREM Invariant == Spec => []IndInv
<1>1. IndInv /\ [Next]_vars => IndInv'
  BY IndStep
<1> QED
  BY IndInit, <1>1, PTL DEF Spec

\* One async_send_to at a time, and its buffer is the front of the deque.
THEOREM BufferStaysStable == Spec => []BufferStable
<1>1. IndInv => BufferStable
  <2> SUFFICES ASSUME IndInv, sendOps # <<>> PROVE BufferStable
    BY DEF BufferStable
  <2>1. write_msgs_ # <<>> /\ sendOps = <<Head(write_msgs_)>>
    BY DEF IndInv, SocketInv
  <2> QED
    BY <2>1 DEF BufferStable
<1> QED
  BY Invariant, <1>1, PTL

\* While the socket is open every datagram in the deque is attended to.
THEOREM NoDatagramForgotten == Spec => []NoIdleDatagram
<1>1. IndInv => NoIdleDatagram
  BY DEF IndInv, SocketInv, NoIdleDatagram
<1> QED
  BY Invariant, <1>1, PTL

\* After a send error no operation is ever started on the closed socket.
THEOREM ErrorsAreFinal == Spec => []ErrorIsFinal
<1>1. IndInv => ErrorIsFinal
  BY DEF IndInv, SocketInv, ErrorIsFinal
<1> QED
  BY Invariant, <1>1, PTL

\* BlockUntilQueueIsEmpty waits only while a handler that will notify is due.
THEOREM NoLostWakeup == Spec => []WaiterHasWaker
<1>1. IndInv => WaiterHasWaker
  BY DEF IndInv, WakerInv, WaiterHasWaker
<1> QED
  BY Invariant, <1>1, PTL

\* A sequence is its head in front of its tail.
LEMMA HeadAndTail ==
    ASSUME NEW S, NEW q \in Seq(S), q # <<>>
    PROVE  Head(q) \in S /\ Tail(q) \in Seq(S) /\ <<Head(q)>> \o Tail(q) = q
<1>1. Head(q) \in S /\ Tail(q) \in Seq(S) /\ Len(Tail(q)) = Len(q) - 1
      /\ \A i \in 1..Len(Tail(q)) : Tail(q)[i] = q[i + 1]
  BY HeadTailProperties
<1>2. <<Head(q)>> \in Seq(S) /\ Len(<<Head(q)>>) = 1 /\ <<Head(q)>>[1] = q[1]
  BY <1>1
<1>3. Len(q) \in Nat \ {0}
  BY EmptySeq
<1> DEFINE r == <<Head(q)>> \o Tail(q)
<1>4. r \in Seq(S) /\ Len(r) = Len(q)
      /\ \A i \in 1..Len(q) : r[i] = IF i <= 1 THEN q[1] ELSE Tail(q)[i - 1]
  BY <1>1, <1>2, <1>3, ConcatProperties
<1> HIDE DEF r
<1>5. \A i \in 1..Len(q) : r[i] = q[i]
  BY <1>1, <1>3, <1>4
<1>6. r = q
  BY <1>4, <1>5, SeqEqual
<1> QED
  BY <1>1, <1>6 DEF r

\* A sequence extends itself, and so does what is appended to it.
LEMMA Extending ==
    ASSUME NEW S, NEW q \in Seq(S), NEW e \in S
    PROVE  Extends(q, q) /\ Extends(Append(q, e), q)
<1>1. Len(q) \in Nat /\ DOMAIN q = 1..Len(q)
  BY LenProperties
<1> QED
  BY <1>1, AppendProperties DEF Extends

\* A sequence in three parts, one of which grows.
Joined(a, b, c) == a \o b \o c

LEMMA AppendToLast ==
    ASSUME NEW S, NEW a \in Seq(S), NEW b \in Seq(S), NEW c \in Seq(S), NEW e \in S
    PROVE  Extends(Joined(a, b, Append(c, e)), Joined(a, b, c))
<1>1. <<e>> \in Seq(S) /\ a \o b \in Seq(S) /\ a \o b \o c \in Seq(S)
  BY ConcatProperties
<1>2. a \o b \o (c \o <<e>>) = (a \o b \o c) \o <<e>>
  BY <1>1, ConcatAssociative
<1>3. Joined(a, b, Append(c, e)) = Append(Joined(a, b, c), e)
  BY <1>1, <1>2, AppendIsConcat DEF Joined
<1>4. Joined(a, b, c) \in Seq(S)
  BY <1>1 DEF Joined
<1> QED
  BY <1>3, <1>4, Extending

\* One part gives its head to the part before it.
LEMMA AppendToMiddle ==
    ASSUME NEW S, NEW a \in Seq(S), NEW b \in Seq(S), NEW c \in Seq(S), c # <<>>
    PROVE  Joined(a, Append(b, Head(c)), Tail(c)) = Joined(a, b, c)
<1>1. /\ Head(c) \in S /\ Tail(c) \in Seq(S) /\ <<Head(c)>> \o Tail(c) = c
  BY HeadAndTail
<1>2. <<Head(c)>> \in Seq(S) /\ a \o b \in Seq(S)
  BY <1>1, ConcatProperties
<1>3. (a \o b) \o (<<Head(c)>> \o Tail(c)) = ((a \o b) \o <<Head(c)>>) \o Tail(c)
  BY <1>1, <1>2, ConcatAssociative
<1>4. (a \o b) \o <<Head(c)>> = a \o (b \o <<Head(c)>>)
  BY <1>2, ConcatAssociative
<1>5. Append(b, Head(c)) = b \o <<Head(c)>>
  BY <1>1, AppendIsConcat
<1> QED
  BY <1>1, <1>3, <1>4, <1>5 DEF Joined

\* The first part takes the head of the second.
LEMMA AppendToFirst ==
    ASSUME NEW S, NEW a \in Seq(S), NEW b \in Seq(S), NEW c \in Seq(S), b # <<>>
    PROVE  Joined(Append(a, Head(b)), Tail(b), c) = Joined(a, b, c)
<1>1. /\ Head(b) \in S /\ Tail(b) \in Seq(S) /\ <<Head(b)>> \o Tail(b) = b
  BY HeadAndTail
<1>2. <<Head(b)>> \in Seq(S)
  BY <1>1
<1>3. (a \o <<Head(b)>>) \o Tail(b) = a \o (<<Head(b)>> \o Tail(b))
  BY <1>1, <1>2, ConcatAssociative
<1>4. Append(a, Head(b)) = a \o <<Head(b)>>
  BY <1>1, AppendIsConcat
<1> QED
  BY <1>1, <1>3, <1>4 DEF Joined

\* What one step does to the pipeline.
LEMMA PipelineStep ==
    ASSUME IndInv, [Next]_vars, apc' # "gone"
    PROVE  Extends(Pipeline', Pipeline)
<1>0. /\ Pipeline = Joined(wire, write_msgs_, posts)
      /\ Pipeline' = Joined(wire', write_msgs_', posts')
  BY DEF Pipeline, Joined
<1>1. /\ wire \in Seq(Msgs) /\ write_msgs_ \in Seq(Msgs) /\ posts \in Seq(Msgs)
      /\ Pipeline \in Seq(Msgs) /\ Extends(Pipeline, Pipeline)
  <2>1. wire \in Seq(Msgs) /\ write_msgs_ \in Seq(Msgs) /\ posts \in Seq(Msgs)
    BY DEF IndInv, TypeOK, QueueTypes
  <2>2. wire \o write_msgs_ \in Seq(Msgs)
    BY <2>1, ConcatProperties
  <2>3. Pipeline \in Seq(Msgs)
    BY <2>1, <2>2, ConcatProperties DEF Pipeline
  <2>4. Extends(Pipeline, Pipeline)
    <3>1. Len(Pipeline) \in Nat
      BY <2>3, LenProperties
    <3> QED
      BY <3>1 DEF Extends
  <2> QED
    BY <2>1, <2>3, <2>4
<1>2. CASE PostDoSend
  <2>1. nsent \in Msgs /\ posts' = Append(posts, nsent) /\ UNCHANGED <<wire, write_msgs_>>
    BY <1>2, ConstantsOK DEF PostDoSend, Bound, IndInv, TypeOK, ScalarTypes, ThreadInv, Sending, Msgs
  <2> QED
    BY <1>0, <1>1, <2>1, AppendToLast
<1>3. CASE DoSend
  <2>1. /\ posts # <<>> /\ posts' = Tail(posts) /\ write_msgs_' = Append(write_msgs_, Head(posts))
        /\ wire' = wire
    BY <1>3 DEF DoSend, Queued
  <2>2. Pipeline' = Pipeline
    BY <1>0, <1>1, <2>1, AppendToMiddle
  <2> QED
    BY <1>1, <2>2
<1>4. CASE HandlerWriteOk
  <2>1. /\ write_msgs_ # <<>> /\ write_msgs_' = Tail(write_msgs_) /\ posts' = posts
        /\ wire' = Append(wire, Head(write_msgs_))
    BY <1>4, WriteOkOrder DEF HandlerWriteOk, Handling, IndInv, SocketInv
  <2>2. Pipeline' = Pipeline
    BY <1>0, <1>1, <2>1, AppendToFirst
  <2> QED
    BY <1>1, <2>2
<1>5. CASE Next /\ ~PostDoSend /\ ~DoSend /\ ~HandlerWriteOk
  <2>1. UNCHANGED <<wire, write_msgs_, posts>>
    BY <1>5 DEF Next, Application, AppContinues, IoThread, Terminated, vars, Send,
         RaiseMsgToSend, BlockUntilQueueIsEmpty, SpinUntilReady, CheckFlags, EnterWait,
         SpuriousWakeup, Destructor, StopOrTimedJoin, Join, Destroy, Goto, ResolveOk,
         LeaveRun, ThreadExit, HandlerWriteError
  <2>2. Pipeline' = Pipeline
    BY <2>1 DEF Pipeline
  <2> QED
    BY <1>1, <2>2
<1>6. CASE UNCHANGED vars
  <2>1. Pipeline' = Pipeline
    BY <1>6 DEF vars, Pipeline
  <2> QED
    BY <1>1, <2>1
<1> QED
  BY <1>2, <1>3, <1>4, <1>5, <1>6

\* Whatever fails, no datagram that was accepted is lost or reordered, except
\* by the destructor.
THEOREM NothingIsLost == Spec => NothingLost
<1>1. IndInv /\ [Next]_vars => [Extends(Pipeline', Pipeline) \/ apc' = "gone"]_vars
  BY PipelineStep
<1> QED
  BY Invariant, <1>1, PTL DEF Spec, NothingLost

\* A step of the client is a Send, a datagram that leaves in order, or nothing
\* to OrderedLink.
LEMMA LinkNext ==
    ASSUME IndInv, [Next]_vars
    PROVE  [Link!Next]_(Link!vars)
<1> USE DEF Link!vars
<1>1. CASE Send
  BY <1>1 DEF Send, Link!Next, Link!Submit
<1>2. CASE HandlerWriteOk
  <2>1. /\ wire' = Append(wire, Head(write_msgs_)) /\ nsent' = nsent
        /\ Head(write_msgs_) \in Nat /\ Link!Floor <= Head(write_msgs_)
        /\ Head(write_msgs_) <= nsent
    BY <1>2, WriteOkOrder DEF IndInv, HandlerWriteOk, NotifyAll
  <2>2. Link!Floor \in Nat /\ nsent \in Nat
    BY Numbers DEF IndInv
  <2> QED
    BY <2>1, <2>2 DEF Link!Next, Link!Receive
<1>3. CASE Next /\ ~Send /\ ~HandlerWriteOk
  <2>1. UNCHANGED <<nsent, wire>>
    BY <1>3 DEF Next, Application, AppContinues, IoThread, Terminated, vars,
         RaiseMsgToSend, PostDoSend, BlockUntilQueueIsEmpty, SpinUntilReady, CheckFlags,
         EnterWait, SpuriousWakeup, Destructor, StopOrTimedJoin, Join, Destroy, Goto,
         ResolveOk, LeaveRun, ThreadExit, DoSend, HandlerWriteError, NotifyAll
  <2> QED
    BY <2>1
<1>4. CASE UNCHANGED vars
  BY <1>4 DEF vars
<1> QED
  BY <1>1, <1>2, <1>3, <1>4

\* Datagrams leave in the order of the Send calls, none of them twice:
\* UdpClient implements OrderedLink.
THEOREM DatagramsInOrder == Spec => RefinesOrderedLink
<1>1. Init => Link!Init
  BY DEF Init, Link!Init
<1>2. IndInv /\ [Next]_vars => [Link!Next]_(Link!vars)
  BY LinkNext
<1> QED
  BY Invariant, <1>1, <1>2, PTL DEF Spec, RefinesOrderedLink, Link!Spec
=============================================================================
