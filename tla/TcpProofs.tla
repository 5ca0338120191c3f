----------------------------- MODULE TcpProofs -----------------------------
(***************************************************************************)
(* Machine-checked proofs about TcpClient, for every value of its          *)
(* constants: any number of Send calls, server drops and endpoints, any    *)
(* faults.  The safety properties of TcpProperties follow from IndInv,     *)
(* whose parts are shown to be kept one after the other: the types, where  *)
(* the threads are, the state of the socket, who waits for what, and the   *)
(* order of the frames.  The steps are numbered in the order of Next.      *)
(***************************************************************************)
EXTENDS TcpProperties, SequenceTheorems, TLAPS

USE DEF appVars, runVars, postVars, flagVars, queueVars, netVars

-----------------------------------------------------------------------------
(* Sequences                                                               *)

\* A sequence of one element has no tail.
LEMMA Single ==
    ASSUME NEW S, NEW s \in Seq(S), Len(s) <= 1, s # <<>>
    PROVE  Len(s) = 1 /\ Tail(s) = <<>>
<1>1. Len(s) \in Nat \ {0}
  BY EmptySeq
<1>2. Tail(s) \in Seq(S) /\ Len(Tail(s)) = 0
  BY <1>1, HeadTailProperties
<1> QED
  BY <1>1, <1>2, EmptySeq

\* The sequence of one element.
LEMMA One ==
    ASSUME NEW e
    PROVE  /\ Tail(<<e>>) = <<>> /\ Append(<<>>, e) = <<e>>
           /\ <<e>> # <<>> /\ Len(<<e>>) = 1
  OBVIOUS

\* Where there is at most one element the length is at most one.
LEMMA AtMostOne ==
    ASSUME NEW s, s = <<>> \/ \E e : s = <<e>>
    PROVE  Len(s) <= 1
<1>1. CASE s = <<>>
  BY <1>1
<1>2. CASE \E e : s = <<e>>
  <2>1. PICK e : s = <<e>>
    BY <1>2
  <2> QED
    BY <2>1
<1> QED
  BY <1>1, <1>2

\* An element put in front of a sequence is its head.
LEMMA PutInFront ==
    ASSUME NEW S, NEW s \in Seq(S), NEW e \in S
    PROVE  <<e>> \o s \in Seq(S) /\ Head(<<e>> \o s) = e /\ <<e>> \o s # <<>>
<1>1. <<e>> \in Seq(S) /\ Len(<<e>>) = 1 /\ <<e>>[1] = e
  OBVIOUS
<1>2. /\ <<e>> \o s \in Seq(S) /\ Len(<<e>> \o s) = 1 + Len(s)
      /\ (<<e>> \o s)[1] = e
  BY <1>1, ConcatProperties, LenProperties
<1> QED
  BY <1>2, EmptySeq, LenProperties

\* The head of one sequence may be appended to another.
LEMMA AppendHead ==
    ASSUME NEW S, NEW s \in Seq(S), NEW q \in Seq(S), q # <<>>
    PROVE  Append(s, Head(q)) \in Seq(S)
  OBVIOUS

-----------------------------------------------------------------------------
(* Types                                                                   *)

\* The program starts in a well-typed state.
LEMMA TypeInit == Init => TypeOK /\ ThreadInv
<1> SUFFICES ASSUME Init PROVE TypeOK /\ ThreadInv
  OBVIOUS
<1>1. prev_ \in [msg : 0..MaxMsgs, age : 0..MaxAge] /\ nsent \in 0..MaxMsgs
  BY ConstantsOK DEF Init, NoPrev
<1>2. drops \in 0..MaxDrops
  BY ConstantsOK DEF Init
<1>3. ScalarTypes
  BY <1>1, <1>2 DEF Init, ScalarTypes
<1>4. QueueTypes
  BY DEF Init, QueueTypes
<1>5. ThreadInv
  BY DEF Init, ThreadInv, Sending
<1> QED
  BY <1>3, <1>4, <1>5 DEF TypeOK

\* Send, with the thread it may have to start.
LEMMA SendScalars ==
    ASSUME ScalarTypes, Send
    PROVE  ScalarTypes'
<1>1. nsent' \in 0..MaxMsgs
  BY ConstantsOK DEF ScalarTypes, Send
<1>2. /\ apc' \in {"idle", "flag"} /\ ipc' \in {ipc, "resolve"}
      /\ thread_is_running_' \in BOOLEAN
  BY DEF ScalarTypes, Send, RunThread
<1> QED
  BY <1>1, <1>2 DEF ScalarTypes, Send, Sending

\* Run(), once the host is resolved.
LEMMA ResolveScalars ==
    ASSUME ScalarTypes, ResolveOk
    PROVE  ScalarTypes'
<1>1. connecting_' \in BOOLEAN /\ link' \in {link, "opening"}
  BY DEF ScalarTypes, ResolveOk, DoConnect
<1> QED
  BY <1>1 DEF ScalarTypes, ResolveOk

\* The end of Run().
LEMMA ExitScalars ==
    ASSUME ScalarTypes, ThreadExit
    PROVE  ScalarTypes'
  BY DEF ScalarTypes, ThreadExit

\* The destruction of the members.
LEMMA DestroyScalars ==
    ASSUME ScalarTypes, Destroy
    PROVE  ScalarTypes'
  BY DEF ScalarTypes, Destroy, Destroying

\* HandleWrite's branch without an error.
LEMMA FrameScalars ==
    ASSUME TypeOK, FrameWritten, link' \in {link, "garbled"}
    PROVE  ScalarTypes'
<1>1. prev_' = [msg |-> Head(write_msgs_), age |-> 0] /\ Head(write_msgs_) \in Msgs
  BY DEF FrameWritten, TypeOK, QueueTypes
<1>2. prev_' \in [msg : 0..MaxMsgs, age : 0..MaxAge]
  BY <1>1, ConstantsOK DEF Msgs
<1>3. apc' \in {apc, "check_w"} /\ nsent' = nsent /\ write_in_progress_' \in BOOLEAN
  BY DEF FrameWritten, NotifyAll, TypeOK, ScalarTypes
<1> QED
  BY <1>2, <1>3 DEF TypeOK, ScalarTypes, Blocking, FrameWritten

\* HandleWrite's branch for an error that is not a broken pipe.
LEMMA WriteErrorScalars ==
    ASSUME ScalarTypes, HandleWriteError
    PROVE  ScalarTypes'
<1>1. prev_' \in [msg : 0..MaxMsgs, age : 0..MaxAge]
  BY ConstantsOK DEF HandleWriteError, DoClose, CloseSocket, NoPrev
<1>2. apc' \in {apc, "check_w"} /\ nsent' = nsent
  BY DEF HandleWriteError, NotifyAll
<1> QED
  BY <1>1, <1>2 DEF ScalarTypes, Blocking, HandleWriteError, DoClose, CloseSocket

\* The DoClose posted by the destructor.
LEMMA CloseScalars ==
    ASSUME ScalarTypes, HandleClose
    PROVE  ScalarTypes'
<1>1. prev_' \in [msg : 0..MaxMsgs, age : 0..MaxAge]
  BY ConstantsOK DEF HandleClose, DoClose, CloseSocket, NoPrev
<1> QED
  BY <1>1 DEF ScalarTypes, HandleClose, DoClose, CloseSocket

\* Program counters, flags and counters keep their types.
LEMMA ScalarStep ==
    ASSUME TypeOK, ScalarTypes, [Next]_vars
    PROVE  ScalarTypes'
<1> USE DEF ScalarTypes, Sending, Blocking, Destroying
<1>1. CASE Send
  BY <1>1, SendScalars
<1>2. CASE RaiseMsgToSend
  BY <1>2 DEF RaiseMsgToSend
<1>3. CASE PostDoSend
  BY <1>3 DEF PostDoSend
<1>4. CASE BlockUntilQueueIsEmpty
  BY <1>4 DEF BlockUntilQueueIsEmpty
<1>5. CASE SpinUntilReady
  BY <1>5 DEF SpinUntilReady
<1>6. CASE CheckFlags
  BY <1>6 DEF CheckFlags, CheckFlag
<1>7. CASE EnterWait
  BY <1>7 DEF EnterWait
<1>8. CASE SpuriousWakeup
  BY <1>8 DEF SpuriousWakeup
<1>9. CASE Destructor
  BY <1>9, DestroyScalars DEF Destructor
<1>10. CASE CloseOrTimedJoin
  BY <1>10, DestroyScalars DEF CloseOrTimedJoin
<1>11. CASE StopService
  BY <1>11 DEF StopService
<1>12. CASE Join
  BY <1>12, DestroyScalars DEF Join
<1>13. CASE ResolveOk
  BY <1>13, ResolveScalars
<1>14. CASE LeaveRun
  BY <1>14 DEF LeaveRun
<1>15. CASE ThreadExit
  BY <1>15, ExitScalars
<1>16. CASE DoSend
  BY <1>16 DEF DoSend, Handling, DoConnect, AsyncWrite, MayWrite, Reconnect
<1>17. CASE HandleConnectOk
  BY <1>17 DEF HandleConnectOk, Handling, AsyncWrite, Backlogged
<1>18. CASE HandleConnectStale
  BY <1>18 DEF HandleConnectStale, Handling, NotifyAll
<1>19. CASE HandleConnectNextEndpoint
  BY <1>19 DEF HandleConnectNextEndpoint, Handling, ConnectFails
<1>20. CASE HandleConnectFailed
  BY <1>20 DEF HandleConnectFailed, Handling, ConnectFails, NotifyAll
<1>21. CASE HandleWriteOk
  BY <1>21, FrameScalars DEF HandleWriteOk
<1>22. CASE HandleWriteShort
  BY <1>22, FrameScalars DEF HandleWriteShort
<1>23. CASE HandleWriteBrokenPipe
  BY <1>23 DEF HandleWriteBrokenPipe, Handling
<1>24. CASE ReconnectAfterBrokenPipe
  BY <1>24 DEF ReconnectAfterBrokenPipe, DoConnect
<1>25. CASE HandleWriteError
  BY <1>25, WriteErrorScalars
<1>26. CASE HandleWriteAfterClear
  BY <1>26 DEF HandleWriteAfterClear, Handling
<1>27. CASE HandleClose
  BY <1>27, CloseScalars
<1>28. CASE ServerDrops
  BY <1>28, ConstantsOK DEF ServerDrops
<1>29. CASE Tick
  BY <1>29, ConstantsOK DEF Tick
<1>30. CASE UNCHANGED vars
  BY <1>30 DEF vars
<1> QED
  BY <1>1, <1>2, <1>3, <1>4, <1>5, <1>6, <1>7, <1>8, <1>9, <1>10,
     <1>11, <1>12, <1>13, <1>14, <1>15, <1>16, <1>17, <1>18, <1>19, <1>20,
     <1>21, <1>22, <1>23, <1>24, <1>25, <1>26, <1>27, <1>28, <1>29, <1>30
  DEF Next, Application, AppContinues, IoThread, HandleConnect, HandleWrite,
      Environment, Terminated

\* The threads stay where the flags they share say they are.
LEMMA ThreadStep ==
    ASSUME ScalarTypes, ThreadInv, [Next]_vars
    PROVE  ThreadInv'
<1> USE DEF ScalarTypes, ThreadInv, Sending, Blocking, Destroying
<1>1. CASE Send
  BY <1>1 DEF Send, RunThread
<1>2. CASE RaiseMsgToSend
  BY <1>2 DEF RaiseMsgToSend
<1>3. CASE PostDoSend
  BY <1>3 DEF PostDoSend
<1>4. CASE BlockUntilQueueIsEmpty
  BY <1>4 DEF BlockUntilQueueIsEmpty
<1>5. CASE SpinUntilReady
  BY <1>5 DEF SpinUntilReady
<1>6. CASE CheckFlags
  BY <1>6 DEF CheckFlags, CheckFlag
<1>7. CASE EnterWait
  BY <1>7 DEF EnterWait
<1>8. CASE SpuriousWakeup
  BY <1>8 DEF SpuriousWakeup
<1>9. CASE Destructor
  BY <1>9 DEF Destructor, Destroy
<1>10. CASE CloseOrTimedJoin
  BY <1>10 DEF CloseOrTimedJoin, Destroy
<1>11. CASE StopService
  BY <1>11 DEF StopService
<1>12. CASE Join
  BY <1>12 DEF Join, Destroy
<1>13. CASE ResolveOk
  BY <1>13 DEF ResolveOk, DoConnect
<1>14. CASE LeaveRun
  BY <1>14 DEF LeaveRun
<1>15. CASE ThreadExit
  BY <1>15 DEF ThreadExit
<1>16. CASE DoSend
  BY <1>16 DEF DoSend, Handling, DoConnect, AsyncWrite, MayWrite, Reconnect
<1>17. CASE HandleConnectOk
  BY <1>17 DEF HandleConnectOk, Handling, AsyncWrite, Backlogged
<1>18. CASE HandleConnectStale
  BY <1>18 DEF HandleConnectStale, Handling, NotifyAll
<1>19. CASE HandleConnectNextEndpoint
  BY <1>19 DEF HandleConnectNextEndpoint, Handling, ConnectFails
<1>20. CASE HandleConnectFailed
  BY <1>20 DEF HandleConnectFailed, Handling, ConnectFails, NotifyAll
<1>21. CASE HandleWriteOk
  BY <1>21 DEF HandleWriteOk, Handling, FrameWritten, NotifyAll
<1>22. CASE HandleWriteShort
  BY <1>22 DEF HandleWriteShort, Handling, FrameWritten, NotifyAll
<1>23. CASE HandleWriteBrokenPipe
  BY <1>23 DEF HandleWriteBrokenPipe, Handling
<1>24. CASE ReconnectAfterBrokenPipe
  BY <1>24 DEF ReconnectAfterBrokenPipe, DoConnect
<1>25. CASE HandleWriteError
  BY <1>25 DEF HandleWriteError, Handling, NotifyAll, DoClose, CloseSocket, NoPrev
<1>26. CASE HandleWriteAfterClear
  BY <1>26 DEF HandleWriteAfterClear, Handling
<1>27. CASE HandleClose
  BY <1>27 DEF HandleClose, Handling, DoClose, CloseSocket, NoPrev
<1>28. CASE ServerDrops
  BY <1>28 DEF ServerDrops
<1>29. CASE Tick
  BY <1>29 DEF Tick
<1>30. CASE UNCHANGED vars
  BY <1>30 DEF vars
<1> QED
  BY <1>1, <1>2, <1>3, <1>4, <1>5, <1>6, <1>7, <1>8, <1>9, <1>10,
     <1>11, <1>12, <1>13, <1>14, <1>15, <1>16, <1>17, <1>18, <1>19, <1>20,
     <1>21, <1>22, <1>23, <1>24, <1>25, <1>26, <1>27, <1>28, <1>29, <1>30
  DEF Next, Application, AppContinues, IoThread, HandleConnect, HandleWrite,
      Environment, Terminated

\* The destruction of the members.
LEMMA DestroyQueues ==
    ASSUME QueueTypes, Destroy
    PROVE  QueueTypes'
  BY DEF QueueTypes, Destroy

\* The start of a connect.
LEMMA ConnectQueues ==
    ASSUME QueueTypes, DoConnect
    PROVE  connectOps' \in Seq(1..NEndpoints)
<1>1. 1 \in 1..NEndpoints
  BY ConstantsOK
<1> QED
  BY <1>1 DEF QueueTypes, DoConnect

\* Run(), once the host is resolved.
LEMMA ResolveQueues ==
    ASSUME QueueTypes, ResolveOk
    PROVE  QueueTypes'
<1>1. connectOps' \in Seq(1..NEndpoints)
  BY ConnectQueues DEF ResolveOk, QueueTypes
<1> QED
  BY <1>1 DEF ResolveOk, QueueTypes

\* DoSend moves a posted frame to the deque and may write its front.
LEMMA DoSendQueues ==
    ASSUME QueueTypes, DoSend
    PROVE  QueueTypes'
<1> DEFINE queue == Append(write_msgs_, Head(posts))
<1>1. Head(posts) \in Msgs /\ Tail(posts) \in Seq(Msgs)
  BY DEF DoSend, QueueTypes
<1>2. queue \in Seq(Msgs) /\ queue # <<>>
  BY <1>1, AppendProperties DEF QueueTypes
<1>3. connectOps' \in Seq(1..NEndpoints)
  BY ConnectQueues DEF DoSend, QueueTypes
<1>4. writeOps' = writeOps \/ writeOps' = Append(writeOps, Head(queue))
  BY DEF DoSend, AsyncWrite
<1>5. writeOps' \in Seq(Msgs)
  <2>1. Head(queue) \in Msgs /\ writeOps \in Seq(Msgs)
    BY <1>2 DEF QueueTypes
  <2> HIDE DEF queue
  <2> QED
    BY <2>1, <1>4
<1>6. posts' = Tail(posts) /\ write_msgs_' = queue /\ delivered' = delivered
  BY DEF DoSend
<1> QED
  BY <1>1, <1>2, <1>3, <1>5, <1>6 DEF QueueTypes

\* The deque a new connection starts from.
LEMMA RequeuedType ==
    ASSUME TypeOK
    PROVE  Requeued \in Seq(Msgs) /\ (write_msgs_ # <<>> => Requeued # <<>>)
<1>1. prev_.msg # 0 => prev_.msg \in Msgs
  BY ConstantsOK DEF TypeOK, ScalarTypes, Msgs
<1>2. prev_.msg # 0 =>
          /\ <<prev_.msg>> \o write_msgs_ \in Seq(Msgs)
          /\ <<prev_.msg>> \o write_msgs_ # <<>>
  BY <1>1, PutInFront DEF TypeOK, QueueTypes
<1> QED
  BY <1>2 DEF Requeued, TypeOK, QueueTypes

\* HandleConnect without an error.
LEMMA ConnectOkQueues ==
    ASSUME TypeOK, HandleConnectOk
    PROVE  QueueTypes'
<1>1. Tail(connectOps) \in Seq(1..NEndpoints)
  BY DEF HandleConnectOk, TypeOK, QueueTypes
<1>2. write_msgs_' \in {write_msgs_, Requeued}
  BY DEF HandleConnectOk
<1>3. Requeued \in Seq(Msgs) /\ write_msgs_' \in Seq(Msgs)
  BY <1>2, RequeuedType DEF TypeOK, QueueTypes
<1>4. \/ writeOps' = writeOps
      \/ Requeued # <<>> /\ writeOps' = Append(writeOps, Head(Requeued))
  BY DEF HandleConnectOk, AsyncWrite
<1>5. writeOps' \in Seq(Msgs)
  <2>1. writeOps \in Seq(Msgs)
    BY DEF TypeOK, QueueTypes
  <2> QED
    BY <2>1, <1>3, <1>4, AppendHead
<1>6. connectOps' = Tail(connectOps) /\ posts' = posts /\ delivered' = delivered
  BY DEF HandleConnectOk
<1> QED
  BY <1>1, <1>3, <1>5, <1>6 DEF TypeOK, QueueTypes

\* HandleConnect at the last endpoint.
LEMMA ConnectFailedQueues ==
    ASSUME QueueTypes, HandleConnectFailed
    PROVE  QueueTypes'
<1>1. Tail(connectOps) \in Seq(1..NEndpoints)
  BY DEF HandleConnectFailed, ConnectFails, QueueTypes
<1>2. write_msgs_' \in Seq(Msgs)
  BY DEF HandleConnectFailed
<1> QED
  BY <1>1, <1>2 DEF QueueTypes, HandleConnectFailed

\* HandleWrite's branch without an error.
LEMMA FrameQueues ==
    ASSUME TypeOK, FrameWritten, writeOps # <<>>
    PROVE  write_msgs_' \in Seq(Msgs) /\ writeOps' \in Seq(Msgs)
<1>1. Tail(write_msgs_) \in Seq(Msgs) /\ write_msgs_' = Tail(write_msgs_)
  BY DEF FrameWritten, TypeOK, QueueTypes
<1>2. Tail(writeOps) \in Seq(Msgs)
  BY DEF TypeOK, QueueTypes
<1>3. \/ writeOps' = Tail(writeOps)
      \/ /\ Tail(write_msgs_) # <<>>
         /\ writeOps' = Append(Tail(writeOps), Head(Tail(write_msgs_)))
  BY DEF FrameWritten
<1> QED
  BY <1>1, <1>2, <1>3, AppendHead

\* The queues hold frames, the outstanding operations frames and endpoints.
LEMMA QueueStep ==
    ASSUME TypeOK, ThreadInv, [Next]_vars
    PROVE  QueueTypes'
<1> USE ConstantsOK DEF TypeOK, QueueTypes, ScalarTypes, ThreadInv, Sending, Msgs
<1>1. CASE Send
  BY <1>1 DEF Send, RunThread
<1>2. CASE RaiseMsgToSend
  BY <1>2 DEF RaiseMsgToSend
<1>3. CASE PostDoSend
  BY <1>3 DEF PostDoSend
<1>4. CASE BlockUntilQueueIsEmpty
  BY <1>4 DEF BlockUntilQueueIsEmpty
<1>5. CASE SpinUntilReady
  BY <1>5 DEF SpinUntilReady
<1>6. CASE CheckFlags
  BY <1>6 DEF CheckFlags, CheckFlag
<1>7. CASE EnterWait
  BY <1>7 DEF EnterWait
<1>8. CASE SpuriousWakeup
  BY <1>8 DEF SpuriousWakeup
<1>9. CASE Destructor
  BY <1>9, DestroyQueues DEF Destructor
<1>10. CASE CloseOrTimedJoin
  BY <1>10, DestroyQueues DEF CloseOrTimedJoin
<1>11. CASE StopService
  BY <1>11 DEF StopService
<1>12. CASE Join
  BY <1>12, DestroyQueues DEF Join
<1>13. CASE ResolveOk
  BY <1>13, ResolveQueues
<1>14. CASE LeaveRun
  BY <1>14 DEF LeaveRun
<1>15. CASE ThreadExit
  BY <1>15 DEF ThreadExit
<1>16. CASE DoSend
  BY <1>16, DoSendQueues
<1>17. CASE HandleConnectOk
  BY <1>17, ConnectOkQueues
<1>18. CASE HandleConnectStale
  BY <1>18 DEF HandleConnectStale, Handling, NotifyAll
<1>19. CASE HandleConnectNextEndpoint
  BY <1>19 DEF HandleConnectNextEndpoint, Handling, ConnectFails
<1>20. CASE HandleConnectFailed
  BY <1>20, ConnectFailedQueues
<1>21. CASE HandleWriteOk
  BY <1>21, FrameQueues, AppendHead DEF HandleWriteOk, FrameWritten
<1>22. CASE HandleWriteShort
  BY <1>22, FrameQueues DEF HandleWriteShort, FrameWritten
<1>23. CASE HandleWriteBrokenPipe
  BY <1>23 DEF HandleWriteBrokenPipe, Handling
<1>24. CASE ReconnectAfterBrokenPipe
  BY <1>24 DEF ReconnectAfterBrokenPipe, DoConnect
<1>25. CASE HandleWriteError
  BY <1>25 DEF HandleWriteError, Handling, NotifyAll, DoClose, CloseSocket, NoPrev
<1>26. CASE HandleWriteAfterClear
  BY <1>26 DEF HandleWriteAfterClear, Handling
<1>27. CASE HandleClose
  BY <1>27 DEF HandleClose, Handling, DoClose, CloseSocket, NoPrev
<1>28. CASE ServerDrops
  BY <1>28 DEF ServerDrops
<1>29. CASE Tick
  BY <1>29 DEF Tick
<1>30. CASE UNCHANGED vars
  BY <1>30 DEF vars
<1> QED
  BY <1>1, <1>2, <1>3, <1>4, <1>5, <1>6, <1>7, <1>8, <1>9, <1>10,
     <1>11, <1>12, <1>13, <1>14, <1>15, <1>16, <1>17, <1>18, <1>19, <1>20,
     <1>21, <1>22, <1>23, <1>24, <1>25, <1>26, <1>27, <1>28, <1>29, <1>30
  DEF Next, Application, AppContinues, IoThread, HandleConnect, HandleWrite,
      Environment, Terminated

-----------------------------------------------------------------------------
(* The socket                                                              *)

\* Nothing is open before the thread runs.
LEMMA LinkInit == Init => LinkInv
  BY DEF Init, LinkInv, Closed, OpenInv, Dormant

\* DoSend connects, writes, or leaves the frame to a handler.
LEMMA DoSendOpen ==
    ASSUME ScalarTypes, QueueTypes, ThreadInv, ~Closed, OpenInv, DoSend
    PROVE  OpenInv'
<1> DEFINE queue == Append(write_msgs_, Head(posts))
<1>1. /\ queue \in Seq(Msgs) /\ queue # <<>>
      /\ write_msgs_ # <<>> => Head(queue) = Head(write_msgs_)
  BY AppendProperties, HeadTailAppend DEF DoSend, QueueTypes
<1>2. /\ write_msgs_' = queue /\ ipc' = ipc /\ ipc = "run"
      /\ connected_' = connected_ /\ apc' = apc
  BY DEF DoSend, Handling
<1> HIDE DEF queue
<1>3. CASE Reconnect
  <2>1. /\ connecting_' = TRUE /\ connectOps' = Append(connectOps, 1) /\ link' = "opening"
        /\ UNCHANGED <<write_in_progress_, writeOps>>
    BY <1>3 DEF DoSend, DoConnect, MayWrite
  <2>2. connectOps' = <<1>> /\ writeOps = <<>> /\ write_in_progress_ = FALSE
    BY <1>3, <2>1, One DEF Reconnect, OpenInv, ScalarTypes
  <2> QED
    BY <1>1, <1>2, <1>3, <2>1, <2>2, One DEF OpenInv, Reconnect, Dormant
<1>4. CASE ~Reconnect /\ MayWrite
  <2>1. /\ UNCHANGED <<connecting_, connectOps, link>>
        /\ write_in_progress_' = TRUE /\ writeOps' = Append(writeOps, Head(queue))
    BY <1>4 DEF DoSend, AsyncWrite, queue
  <2>2. writeOps' = <<Head(queue)>>
    BY <1>4, <2>1, One DEF MayWrite, OpenInv
  <2> QED
    BY <1>1, <1>2, <1>4, <2>1, <2>2, One DEF OpenInv, Reconnect, MayWrite, Dormant
<1>5. CASE ~Reconnect /\ ~MayWrite
  <2>1. UNCHANGED <<connecting_, connectOps, link, write_in_progress_, writeOps>>
    BY <1>5 DEF DoSend
  <2> QED
    BY <1>1, <1>2, <1>5, <2>1, One DEF OpenInv, Reconnect, MayWrite, Dormant
<1> QED
  BY <1>3, <1>4, <1>5

\* A connection that succeeds writes the front of the deque, or finds it empty.
LEMMA ConnectOkOpen ==
    ASSUME ScalarTypes, QueueTypes, ThreadInv, ~Closed, OpenInv, HandleConnectOk
    PROVE  OpenInv'
<1>1. connectOps' = <<>>
  BY Single DEF HandleConnectOk, QueueTypes, OpenInv
<1>2. /\ connected_' = TRUE /\ connecting_' = FALSE /\ link' = "up"
      /\ ipc' = "run" /\ ipc = "run" /\ connecting_
  BY DEF HandleConnectOk, Handling
<1>3. writeOps = <<>> /\ write_in_progress_ = FALSE
  BY <1>2 DEF OpenInv, ScalarTypes
<1>4. CASE Backlogged /\ Requeued # <<>>
  <2>1. /\ write_msgs_' = Requeued /\ write_in_progress_' = TRUE
        /\ writeOps' = Append(writeOps, Head(Requeued))
    BY <1>4 DEF HandleConnectOk, AsyncWrite
  <2>2. writeOps' = <<Head(write_msgs_')>> /\ writeOps' # <<>> /\ write_msgs_' # <<>>
    BY <1>3, <1>4, <2>1, One
  <2> QED
    <3>1. Len(connectOps') <= 1
      BY <1>1
    <3> QED
      BY <1>1, <1>2, <2>1, <2>2, <3>1 DEF OpenInv, Dormant
<1>5. CASE ~(Backlogged /\ Requeued # <<>>)
  <2>1. write_msgs_' = <<>>
    BY <1>3, <1>5 DEF HandleConnectOk, Backlogged
  <2>2. UNCHANGED <<write_in_progress_, writeOps>>
    BY <1>5 DEF HandleConnectOk
  <2> QED
    BY <1>1, <1>2, <1>3, <2>1, <2>2, One DEF OpenInv, Dormant
<1> QED
  BY <1>4, <1>5

\* A write that succeeds starts the next one, or leaves an empty deque.
LEMMA WriteOkOpen ==
    ASSUME ScalarTypes, QueueTypes, ThreadInv, ~Closed, OpenInv, HandleWriteOk
    PROVE  OpenInv'
<1>1. Tail(writeOps) = <<>> /\ write_in_progress_ /\ connected_
  BY One DEF HandleWriteOk, OpenInv
<1>2. /\ UNCHANGED <<link, ipc, connected_, connecting_, connectOps>> /\ ipc = "run"
      /\ write_msgs_' = Tail(write_msgs_)
  BY DEF HandleWriteOk, Handling, FrameWritten
<1>3. CASE Tail(write_msgs_) # <<>>
  <2>1. writeOps' = <<Head(write_msgs_')>> /\ write_in_progress_' = write_in_progress_
    BY <1>1, <1>2, <1>3, One DEF HandleWriteOk, FrameWritten
  <2> QED
    BY <1>1, <1>2, <1>3, <2>1, One DEF OpenInv, Dormant
<1>4. CASE Tail(write_msgs_) = <<>>
  <2>1. writeOps' = <<>> /\ write_in_progress_' = FALSE
    BY <1>1, <1>4 DEF HandleWriteOk, FrameWritten
  <2> QED
    BY <1>1, <1>2, <1>4, <2>1 DEF OpenInv, Dormant
<1> QED
  BY <1>3, <1>4

\* Until the destructor closes it, the socket does one thing at a time and the
\* flags say which.
LEMMA OpenStep ==
    ASSUME ScalarTypes, QueueTypes, ThreadInv, ~Closed, OpenInv, [Next]_vars
    PROVE  ~Closed' => OpenInv'
<1> USE DEF Closed, ScalarTypes, ThreadInv, OpenInv, Dormant
<1>a. connectOps # <<>> => Tail(connectOps) = <<>>
  BY Single DEF QueueTypes
<1>b. writeOps # <<>> => Tail(writeOps) = <<>>
  BY One
<1> USE <1>a, <1>b
<1>1. CASE Send
  BY <1>1 DEF Send, RunThread
<1>2. CASE RaiseMsgToSend
  BY <1>2 DEF RaiseMsgToSend
<1>3. CASE PostDoSend
  BY <1>3 DEF PostDoSend
<1>4. CASE BlockUntilQueueIsEmpty
  BY <1>4 DEF BlockUntilQueueIsEmpty
<1>5. CASE SpinUntilReady
  BY <1>5 DEF SpinUntilReady
<1>6. CASE CheckFlags
  BY <1>6 DEF CheckFlags, CheckFlag
<1>7. CASE EnterWait
  BY <1>7 DEF EnterWait
<1>8. CASE SpuriousWakeup
  BY <1>8 DEF SpuriousWakeup
<1>9. CASE Destructor
  BY <1>9 DEF Destructor, Destroy
<1>10. CASE CloseOrTimedJoin
  BY <1>10 DEF CloseOrTimedJoin, Destroy
<1>11. CASE StopService
  BY <1>11 DEF StopService
<1>12. CASE Join
  BY <1>12 DEF Join, Destroy
<1>13. CASE ResolveOk
  BY <1>13 DEF ResolveOk, DoConnect
<1>14. CASE LeaveRun
  BY <1>14 DEF LeaveRun
<1>15. CASE ThreadExit
  BY <1>15 DEF ThreadExit
<1>16. CASE DoSend
  BY <1>16, DoSendOpen
<1>17. CASE HandleConnectOk
  BY <1>17, ConnectOkOpen
<1>18. CASE HandleConnectStale
  BY <1>18 DEF HandleConnectStale, Handling, NotifyAll
<1>19. CASE HandleConnectNextEndpoint
  BY <1>19 DEF HandleConnectNextEndpoint, Handling, ConnectFails
<1>20. CASE HandleConnectFailed
  BY <1>20 DEF HandleConnectFailed, Handling, ConnectFails, NotifyAll
<1>21. CASE HandleWriteOk
  BY <1>21, WriteOkOpen
<1>22. CASE HandleWriteShort
  BY <1>22 DEF HandleWriteShort, Handling, FrameWritten, NotifyAll
<1>23. CASE HandleWriteBrokenPipe
  BY <1>23 DEF HandleWriteBrokenPipe, Handling
<1>24. CASE ReconnectAfterBrokenPipe
  BY <1>24 DEF ReconnectAfterBrokenPipe, DoConnect
<1>25. CASE HandleWriteError
  BY <1>25 DEF HandleWriteError, Handling, NotifyAll, DoClose, CloseSocket, NoPrev
<1>26. CASE HandleWriteAfterClear
  BY <1>26 DEF HandleWriteAfterClear, Handling
<1>27. CASE HandleClose
  BY <1>27 DEF HandleClose, Handling, DoClose, CloseSocket, NoPrev
<1>28. CASE ServerDrops
  BY <1>28 DEF ServerDrops
<1>29. CASE Tick
  BY <1>29 DEF Tick
<1>30. CASE UNCHANGED vars
  BY <1>30 DEF vars
<1> QED
  BY <1>1, <1>2, <1>3, <1>4, <1>5, <1>6, <1>7, <1>8, <1>9, <1>10,
     <1>11, <1>12, <1>13, <1>14, <1>15, <1>16, <1>17, <1>18, <1>19, <1>20,
     <1>21, <1>22, <1>23, <1>24, <1>25, <1>26, <1>27, <1>28, <1>29, <1>30
  DEF Next, Application, AppContinues, IoThread, HandleConnect, HandleWrite,
      Environment, Terminated

\* The DoClose posted by the destructor may leave one operation to abort.
LEMMA CloseClosed ==
    ASSUME ScalarTypes, QueueTypes, ThreadInv, ~Closed, OpenInv, HandleClose
    PROVE  ClosedInv'
<1>1. writeOps # <<>> => connectOps = <<>>
  BY DEF OpenInv
<1>2. writeOps = <<>> \/ writeOps = <<Head(write_msgs_)>>
  BY DEF OpenInv
<1>3. /\ posts' = <<>> /\ write_msgs_' = <<>> /\ prev_'.msg = 0
      /\ link' \in {"closed", "broken"}
      /\ apc' # "gone" /\ ipc' = "run" /\ UNCHANGED <<connectOps, writeOps>>
  BY DEF HandleClose, Handling, DoClose, CloseSocket, NoPrev
<1>4. Len(connectOps) <= 1
  BY DEF OpenInv
<1>5. Len(writeOps) <= 1
  BY <1>2, AtMostOne
<1> QED
  BY <1>1, <1>3, <1>4, <1>5 DEF ClosedInv

\* The destructor closes a socket that is in order.
LEMMA ClosingStep ==
    ASSUME ScalarTypes, QueueTypes, ThreadInv, ~Closed, OpenInv, Closed', [Next]_vars
    PROVE  ClosedInv'
<1> USE DEF Closed, ScalarTypes, ThreadInv, OpenInv, ClosedInv, Destroying, Sending
<1>1. CASE Send
  BY <1>1 DEF Send, RunThread
<1>2. CASE RaiseMsgToSend
  BY <1>2 DEF RaiseMsgToSend
<1>3. CASE PostDoSend
  BY <1>3 DEF PostDoSend
<1>4. CASE BlockUntilQueueIsEmpty
  BY <1>4 DEF BlockUntilQueueIsEmpty
<1>5. CASE SpinUntilReady
  BY <1>5 DEF SpinUntilReady
<1>6. CASE CheckFlags
  BY <1>6 DEF CheckFlags, CheckFlag
<1>7. CASE EnterWait
  BY <1>7 DEF EnterWait
<1>8. CASE SpuriousWakeup
  BY <1>8 DEF SpuriousWakeup
<1>9. CASE Destructor
  BY <1>9 DEF Destructor, Destroy
<1>10. CASE CloseOrTimedJoin
  BY <1>10 DEF CloseOrTimedJoin, Destroy
<1>11. CASE StopService
  BY <1>11 DEF StopService
<1>12. CASE Join
  BY <1>12 DEF Join, Destroy
<1>13. CASE ResolveOk
  BY <1>13 DEF ResolveOk, DoConnect
<1>14. CASE LeaveRun
  BY <1>14 DEF LeaveRun
<1>15. CASE ThreadExit
  BY <1>15 DEF ThreadExit
<1>16. CASE DoSend
  BY <1>16 DEF DoSend, Handling, DoConnect, AsyncWrite, MayWrite, Reconnect
<1>17. CASE HandleConnectOk
  BY <1>17 DEF HandleConnectOk, Handling, AsyncWrite, Backlogged
<1>18. CASE HandleConnectStale
  BY <1>18 DEF HandleConnectStale, Handling, NotifyAll
<1>19. CASE HandleConnectNextEndpoint
  BY <1>19 DEF HandleConnectNextEndpoint, Handling, ConnectFails
<1>20. CASE HandleConnectFailed
  BY <1>20 DEF HandleConnectFailed, Handling, ConnectFails, NotifyAll
<1>21. CASE HandleWriteOk
  BY <1>21 DEF HandleWriteOk, Handling, FrameWritten, NotifyAll
<1>22. CASE HandleWriteShort
  BY <1>22 DEF HandleWriteShort, Handling, FrameWritten, NotifyAll
<1>23. CASE HandleWriteBrokenPipe
  BY <1>23 DEF HandleWriteBrokenPipe, Handling
<1>24. CASE ReconnectAfterBrokenPipe
  BY <1>24 DEF ReconnectAfterBrokenPipe, DoConnect
<1>25. CASE HandleWriteError
  BY <1>25 DEF HandleWriteError, Handling, NotifyAll, DoClose, CloseSocket, NoPrev
<1>26. CASE HandleWriteAfterClear
  BY <1>26 DEF HandleWriteAfterClear, Handling
<1>27. CASE HandleClose
  BY <1>27, CloseClosed
<1>28. CASE ServerDrops
  BY <1>28 DEF ServerDrops
<1>29. CASE Tick
  BY <1>29 DEF Tick
<1>30. CASE UNCHANGED vars
  BY <1>30 DEF vars
<1> QED
  BY <1>1, <1>2, <1>3, <1>4, <1>5, <1>6, <1>7, <1>8, <1>9, <1>10,
     <1>11, <1>12, <1>13, <1>14, <1>15, <1>16, <1>17, <1>18, <1>19, <1>20,
     <1>21, <1>22, <1>23, <1>24, <1>25, <1>26, <1>27, <1>28, <1>29, <1>30
  DEF Next, Application, AppContinues, IoThread, HandleConnect, HandleWrite,
      Environment, Terminated

\* A connect that a late broken pipe started behind DoClose has nothing to write.
LEMMA ConnectOkClosed ==
    ASSUME QueueTypes, Closed, ClosedInv, HandleConnectOk
    PROVE  Closed' /\ ClosedInv'
<1>1. apc # "gone" /\ ipc = "run" /\ UNCHANGED <<apc, ipc, closePosted, posts, prev_>>
  BY DEF HandleConnectOk, Handling
<1>2. write_msgs_ = <<>> /\ prev_.msg = 0 /\ writeOps = <<>>
  BY <1>1 DEF ClosedInv, HandleConnectOk
<1>3. Requeued = <<>>
  BY <1>2 DEF Requeued
<1>4. write_msgs_' = <<>> /\ writeOps' = <<>>
  BY <1>2, <1>3 DEF HandleConnectOk
<1>5. connectOps' = <<>>
  BY Single DEF HandleConnectOk, QueueTypes, ClosedInv
<1>6. Len(connectOps') <= 1 /\ Len(writeOps') <= 1
  BY <1>4, <1>5
<1> QED
  BY <1>1, <1>2, <1>4, <1>5, <1>6 DEF Closed, ClosedInv

\* A socket the destructor has closed stays closed to frames: nothing is written
\* on it any more, though a late broken pipe may open it again.
LEMMA ClosedStep ==
    ASSUME ScalarTypes, QueueTypes, ThreadInv, Closed, ClosedInv, [Next]_vars
    PROVE  Closed' /\ ClosedInv'
<1> USE DEF Closed, ScalarTypes, ThreadInv, ClosedInv, Destroying, Sending
<1>1. CASE Send
  BY <1>1 DEF Send, RunThread
<1>2. CASE RaiseMsgToSend
  BY <1>2 DEF RaiseMsgToSend
<1>3. CASE PostDoSend
  BY <1>3 DEF PostDoSend
<1>4. CASE BlockUntilQueueIsEmpty
  BY <1>4 DEF BlockUntilQueueIsEmpty
<1>5. CASE SpinUntilReady
  BY <1>5 DEF SpinUntilReady
<1>6. CASE CheckFlags
  BY <1>6 DEF CheckFlags, CheckFlag
<1>7. CASE EnterWait
  BY <1>7 DEF EnterWait
<1>8. CASE SpuriousWakeup
  BY <1>8 DEF SpuriousWakeup
<1>9. CASE Destructor
  BY <1>9 DEF Destructor, Destroy
<1>10. CASE CloseOrTimedJoin
  BY <1>10 DEF CloseOrTimedJoin, Destroy
<1>11. CASE StopService
  BY <1>11 DEF StopService
<1>12. CASE Join
  BY <1>12 DEF Join, Destroy
<1>13. CASE ResolveOk
  BY <1>13 DEF ResolveOk, DoConnect
<1>14. CASE LeaveRun
  BY <1>14 DEF LeaveRun
<1>15. CASE ThreadExit
  BY <1>15 DEF ThreadExit
<1>16. CASE DoSend
  BY <1>16 DEF DoSend, Handling, DoConnect, AsyncWrite, MayWrite, Reconnect
<1>17. CASE HandleConnectOk
  BY <1>17, ConnectOkClosed
<1>18. CASE HandleConnectStale
  BY <1>18 DEF HandleConnectStale, Handling, NotifyAll
<1>19. CASE HandleConnectNextEndpoint
  BY <1>19 DEF HandleConnectNextEndpoint, Handling, ConnectFails
<1>20. CASE HandleConnectFailed
  BY <1>20 DEF HandleConnectFailed, Handling, ConnectFails, NotifyAll
<1>21. CASE HandleWriteOk
  BY <1>21 DEF HandleWriteOk, Handling, FrameWritten, NotifyAll
<1>22. CASE HandleWriteShort
  BY <1>22 DEF HandleWriteShort, Handling, FrameWritten, NotifyAll
<1>23. CASE HandleWriteBrokenPipe
  BY <1>23 DEF HandleWriteBrokenPipe, Handling
<1>24. CASE ReconnectAfterBrokenPipe
  BY <1>24, One DEF ReconnectAfterBrokenPipe, DoConnect
<1>25. CASE HandleWriteError
  BY <1>25 DEF HandleWriteError, Handling, NotifyAll, DoClose, CloseSocket, NoPrev
<1>26. CASE HandleWriteAfterClear
  BY <1>26 DEF HandleWriteAfterClear, Handling
<1>27. CASE HandleClose
  BY <1>27 DEF HandleClose, Handling, DoClose, CloseSocket, NoPrev
<1>28. CASE ServerDrops
  BY <1>28 DEF ServerDrops
<1>29. CASE Tick
  BY <1>29 DEF Tick
<1>30. CASE UNCHANGED vars
  BY <1>30 DEF vars
<1> QED
  BY <1>1, <1>2, <1>3, <1>4, <1>5, <1>6, <1>7, <1>8, <1>9, <1>10,
     <1>11, <1>12, <1>13, <1>14, <1>15, <1>16, <1>17, <1>18, <1>19, <1>20,
     <1>21, <1>22, <1>23, <1>24, <1>25, <1>26, <1>27, <1>28, <1>29, <1>30
  DEF Next, Application, AppContinues, IoThread, HandleConnect, HandleWrite,
      Environment, Terminated

\* The socket is in order at every step.
LEMMA LinkStep ==
    ASSUME TypeOK, ThreadInv, LinkInv, [Next]_vars
    PROVE  LinkInv'
<1>1. CASE Closed
  BY <1>1, ClosedStep DEF LinkInv, TypeOK
<1>2. CASE ~Closed /\ Closed'
  BY <1>2, ClosingStep DEF LinkInv, TypeOK
<1>3. CASE ~Closed /\ ~Closed'
  BY <1>3, OpenStep DEF LinkInv, TypeOK
<1> QED
  BY <1>1, <1>2, <1>3

-----------------------------------------------------------------------------
(* Waiting                                                                 *)

\* Nobody waits at first.
LEMMA WakerInit == Init => WakerInv
  BY DEF Init, WakerInv

\* A connection that succeeds drops no frame.
LEMMA ConnectOkWaker ==
    ASSUME ScalarTypes, QueueTypes, ThreadInv, LinkInv, WakerInv, HandleConnectOk
    PROVE  WakerInv'
<1>1. write_msgs_ # <<>> => write_msgs_' # <<>>
  BY RequeuedType DEF HandleConnectOk, TypeOK
<1> QED
  BY <1>1 DEF HandleConnectOk, Handling, WakerInv

\* Whoever waits keeps a frame to wait for, or is notified.
LEMMA WakerStep ==
    ASSUME ScalarTypes, QueueTypes, ThreadInv, LinkInv, WakerInv, [Next]_vars
    PROVE  WakerInv'
<1> USE DEF Closed, ScalarTypes, ThreadInv, WakerInv, OpenInv, ClosedInv, LinkInv,
    Sending, Destroying, MutexFree
<1>1. CASE Send
  BY <1>1 DEF Send, RunThread
<1>2. CASE RaiseMsgToSend
  BY <1>2 DEF RaiseMsgToSend
<1>3. CASE PostDoSend
  BY <1>3 DEF PostDoSend
<1>4. CASE BlockUntilQueueIsEmpty
  BY <1>4 DEF BlockUntilQueueIsEmpty
<1>5. CASE SpinUntilReady
  BY <1>5 DEF SpinUntilReady
<1>6. CASE CheckFlags
  BY <1>6 DEF CheckFlags, CheckFlag
<1>7. CASE EnterWait
  BY <1>7 DEF EnterWait
<1>8. CASE SpuriousWakeup
  BY <1>8 DEF SpuriousWakeup
<1>9. CASE Destructor
  BY <1>9 DEF Destructor, Destroy
<1>10. CASE CloseOrTimedJoin
  BY <1>10 DEF CloseOrTimedJoin, Destroy
<1>11. CASE StopService
  BY <1>11 DEF StopService
<1>12. CASE Join
  BY <1>12 DEF Join, Destroy
<1>13. CASE ResolveOk
  BY <1>13 DEF ResolveOk, DoConnect
<1>14. CASE LeaveRun
  BY <1>14 DEF LeaveRun
<1>15. CASE ThreadExit
  BY <1>15 DEF ThreadExit
<1>16. CASE DoSend
  BY <1>16 DEF DoSend, Handling, DoConnect, AsyncWrite, MayWrite, Reconnect
<1>17. CASE HandleConnectOk
  BY <1>17, ConnectOkWaker
<1>18. CASE HandleConnectStale
  BY <1>18 DEF HandleConnectStale, Handling, NotifyAll
<1>19. CASE HandleConnectNextEndpoint
  BY <1>19 DEF HandleConnectNextEndpoint, Handling, ConnectFails
<1>20. CASE HandleConnectFailed
  BY <1>20 DEF HandleConnectFailed, Handling, ConnectFails, NotifyAll
<1>21. CASE HandleWriteOk
  BY <1>21 DEF HandleWriteOk, Handling, FrameWritten, NotifyAll
<1>22. CASE HandleWriteShort
  BY <1>22 DEF HandleWriteShort, Handling, FrameWritten, NotifyAll
<1>23. CASE HandleWriteBrokenPipe
  BY <1>23 DEF HandleWriteBrokenPipe, Handling
<1>24. CASE ReconnectAfterBrokenPipe
  BY <1>24 DEF ReconnectAfterBrokenPipe, DoConnect
<1>25. CASE HandleWriteError
  BY <1>25 DEF HandleWriteError, Handling, NotifyAll, DoClose, CloseSocket, NoPrev
<1>26. CASE HandleWriteAfterClear
  BY <1>26 DEF HandleWriteAfterClear, Handling
<1>27. CASE HandleClose
  BY <1>27 DEF HandleClose, Handling, DoClose, CloseSocket, NoPrev
<1>28. CASE ServerDrops
  BY <1>28 DEF ServerDrops
<1>29. CASE Tick
  BY <1>29 DEF Tick
<1>30. CASE UNCHANGED vars
  BY <1>30 DEF vars
<1> QED
  BY <1>1, <1>2, <1>3, <1>4, <1>5, <1>6, <1>7, <1>8, <1>9, <1>10,
     <1>11, <1>12, <1>13, <1>14, <1>15, <1>16, <1>17, <1>18, <1>19, <1>20,
     <1>21, <1>22, <1>23, <1>24, <1>25, <1>26, <1>27, <1>28, <1>29, <1>30
  DEF Next, Application, AppContinues, IoThread, HandleConnect, HandleWrite,
      Environment, Terminated

-----------------------------------------------------------------------------
(* Order                                                                   *)

\* Appending an element that is not below the others.
LEMMA OrderAppend ==
    ASSUME NEW q \in Seq(Nat), NEW e \in Nat
    PROVE  /\ Sorted(q) /\ Below(e, q) => Sorted(Append(q, e))
           /\ \A m \in Nat : Above(m, q) /\ m <= e => Above(m, Append(q, e))
           /\ \A m \in Nat : Below(m, q) /\ e <= m => Below(m, Append(q, e))
<1>1. /\ Append(q, e) \in Seq(Nat) /\ Len(Append(q, e)) = Len(q) + 1
      /\ \A i \in 1..Len(q) : Append(q, e)[i] = q[i]
      /\ Append(q, e)[Len(q) + 1] = e
  BY AppendProperties
<1>2. Len(q) \in Nat /\ DOMAIN q = 1..Len(q) /\ DOMAIN Append(q, e) = 1..(Len(q) + 1)
  BY <1>1, LenProperties
<1>2a. \A i \in 1..Len(q) : q[i] \in Nat
  BY <1>2, ElementOfSeq
<1> DEFINE a == Append(q, e)
<1> HIDE DEF a
<1>3. Sorted(q) /\ Below(e, q) => Sorted(a)
  BY <1>1, <1>2, <1>2a DEF Sorted, Below, a
<1>4. \A m \in Nat : Above(m, q) /\ m <= e => Above(m, a)
  BY <1>1, <1>2, <1>2a DEF Above, a
<1>5. \A m \in Nat : Below(m, q) /\ e <= m => Below(m, a)
  BY <1>1, <1>2, <1>2a DEF Below, a
<1> QED
  BY <1>3, <1>4, <1>5 DEF a

\* Taking the head off.
LEMMA OrderTail ==
    ASSUME NEW q \in Seq(Nat), q # <<>>
    PROVE  /\ Head(q) \in Nat /\ Tail(q) \in Seq(Nat)
           /\ Sorted(q) => Sorted(Tail(q)) /\ Above(Head(q), Tail(q))
           /\ \A m \in Nat : Above(m, q) => m <= Head(q) /\ Above(m, Tail(q))
           /\ \A m \in Nat : Below(m, q) => Head(q) <= m /\ Below(m, Tail(q))
           /\ \A p \in Seq(Nat) :
                /\ Before(q, p) => Above(Head(q), p) /\ Before(Tail(q), p)
                /\ Before(p, q) => Below(Head(q), p) /\ Before(p, Tail(q))
<1> DEFINE t == Tail(q)
<1>1. /\ Head(q) \in Nat /\ t \in Seq(Nat) /\ Len(t) = Len(q) - 1
      /\ \A i \in 1..Len(t) : t[i] = q[i + 1]
  BY HeadTailProperties
<1>2. Head(q) = q[1]
  OBVIOUS
<1>3. Len(q) \in Nat \ {0} /\ DOMAIN q = 1..Len(q) /\ DOMAIN t = 1..(Len(q) - 1)
  BY <1>1, LenProperties, EmptySeq
<1>4. \A i \in 1..Len(q) : q[i] \in Nat
  BY <1>3, ElementOfSeq
<1> DEFINE n == Len(q)
<1>4a. n \in Nat \ {0} /\ 1 \in 1..n /\ \A i \in 1..(n - 1) : i + 1 \in 1..n
  BY <1>3
<1>4b. \A i \in 1..(n - 1) : t[i] = q[i + 1]
  BY <1>1, <1>3
<1>4c. DOMAIN q = 1..n /\ DOMAIN t = 1..(n - 1)
  BY <1>3
<1> HIDE DEF t, n
<1>5. Sorted(q) => Sorted(t) /\ Above(Head(q), t)
  <2>1. ASSUME Sorted(q), NEW i \in DOMAIN t, NEW j \in DOMAIN t, i <= j
        PROVE  t[i] <= t[j]
    <3>1. i + 1 \in DOMAIN q /\ j + 1 \in DOMAIN q /\ i + 1 <= j + 1
      BY <2>1, <1>4a, <1>4c
    <3>2. t[i] = q[i + 1] /\ t[j] = q[j + 1]
      BY <1>4b, <1>4c
    <3> QED
      BY <2>1, <3>1, <3>2 DEF Sorted
  <2>2. ASSUME Sorted(q), NEW i \in DOMAIN t
        PROVE  Head(q) <= t[i]
    <3>1. 1 \in DOMAIN q /\ i + 1 \in DOMAIN q /\ 1 <= i + 1
      BY <1>4a, <1>4c
    <3> QED
      BY <2>2, <3>1, <1>2, <1>4b, <1>4c DEF Sorted
  <2> QED
    BY <2>1, <2>2 DEF Sorted, Above
<1>6. \A m \in Nat : Above(m, q) => m <= Head(q) /\ Above(m, t)
  BY <1>2, <1>4a, <1>4b, <1>4c DEF Above
<1>7. \A m \in Nat : Below(m, q) => Head(q) <= m /\ Below(m, t)
  BY <1>2, <1>4a, <1>4b, <1>4c DEF Below
<1>8. ASSUME NEW p \in Seq(Nat)
      PROVE  /\ Before(q, p) => Above(Head(q), p) /\ Before(t, p)
             /\ Before(p, q) => Below(Head(q), p) /\ Before(p, t)
  BY <1>2, <1>4a, <1>4b, <1>4c DEF Before, Above, Below
<1> QED
  BY <1>1, <1>5, <1>6, <1>7, <1>8 DEF t

\* Putting an element in front that is not above the others.
LEMMA OrderFront ==
    ASSUME NEW q \in Seq(Nat), NEW e \in Nat
    PROVE  /\ Sorted(q) /\ Above(e, q) => Sorted(<<e>> \o q)
           /\ \A m \in Nat : Above(m, q) /\ m <= e => Above(m, <<e>> \o q)
           /\ \A m \in Nat : Below(m, q) /\ e <= m => Below(m, <<e>> \o q)
           /\ \A p \in Seq(Nat) : Before(q, p) /\ Above(e, p) => Before(<<e>> \o q, p)
<1> DEFINE r == <<e>> \o q
<1>1. <<e>> \in Seq(Nat) /\ Len(<<e>>) = 1 /\ <<e>>[1] = e
  OBVIOUS
<1>2. /\ r \in Seq(Nat) /\ Len(r) = 1 + Len(q)
      /\ \A i \in 1..(1 + Len(q)) : r[i] = IF i <= 1 THEN e ELSE q[i - 1]
  BY <1>1, ConcatProperties, LenProperties
<1>3. Len(q) \in Nat /\ DOMAIN q = 1..Len(q) /\ DOMAIN r = 1..(1 + Len(q))
  BY <1>2, LenProperties
<1>4. \A i \in 1..Len(q) : q[i] \in Nat
  BY <1>3, ElementOfSeq
<1> DEFINE n == Len(q)
<1>4a. n \in Nat /\ DOMAIN q = 1..n /\ DOMAIN r = 1..(n + 1)
  BY <1>3
<1>4b. r[1] = e /\ \A i \in 1..(n + 1) : i # 1 => i - 1 \in 1..n /\ r[i] = q[i - 1]
  BY <1>2, <1>3
<1> HIDE DEF r, n
<1>5. Sorted(q) /\ Above(e, q) => Sorted(r)
  <2> SUFFICES ASSUME Sorted(q), Above(e, q), NEW i \in 1..(n + 1), NEW j \in 1..(n + 1), i <= j
               PROVE  r[i] <= r[j]
    BY <1>4a DEF Sorted
  <2>1. CASE i = 1 /\ j = 1
    BY <2>1, <1>4b
  <2>2. CASE i = 1 /\ j # 1
    BY <2>2, <1>4a, <1>4b DEF Above
  <2>3. CASE i # 1
    <3>1. /\ i - 1 \in DOMAIN q /\ j - 1 \in DOMAIN q /\ i - 1 <= j - 1
          /\ r[i] = q[i - 1] /\ r[j] = q[j - 1]
      BY <2>3, <1>4a, <1>4b
    <3> QED
      BY <3>1 DEF Sorted
  <2> QED
    BY <2>1, <2>2, <2>3
<1>6. \A m \in Nat : Above(m, q) /\ m <= e => Above(m, r)
  BY <1>4a, <1>4b DEF Above
<1>7. \A m \in Nat : Below(m, q) /\ e <= m => Below(m, r)
  BY <1>4a, <1>4b DEF Below
<1>8. ASSUME NEW p \in Seq(Nat) PROVE Before(q, p) /\ Above(e, p) => Before(r, p)
  BY <1>4a, <1>4b DEF Before, Above
<1> QED
  BY <1>5, <1>6, <1>7, <1>8 DEF r

\* Moving an element from the front of one queue to the end of another.
LEMMA BeforeAppend ==
    ASSUME NEW p \in Seq(Nat), NEW q \in Seq(Nat), NEW e \in Nat
    PROVE  /\ Before(p, q) /\ Below(e, p) => Before(p, Append(q, e))
           /\ Before(p, q) /\ Above(e, q) => Before(Append(p, e), q)
<1>1. /\ Len(Append(q, e)) = Len(q) + 1 /\ DOMAIN Append(q, e) = 1..(Len(q) + 1)
      /\ \A i \in 1..Len(q) : Append(q, e)[i] = q[i]
      /\ Append(q, e)[Len(q) + 1] = e
  BY AppendProperties, LenProperties
<1>2. /\ Len(Append(p, e)) = Len(p) + 1 /\ DOMAIN Append(p, e) = 1..(Len(p) + 1)
      /\ \A i \in 1..Len(p) : Append(p, e)[i] = p[i]
      /\ Append(p, e)[Len(p) + 1] = e
  BY AppendProperties, LenProperties
<1>3. /\ Len(q) \in Nat /\ DOMAIN q = 1..Len(q)
      /\ Len(p) \in Nat /\ DOMAIN p = 1..Len(p)
  BY LenProperties
<1> DEFINE pe == Append(p, e)
           qe == Append(q, e)
<1> HIDE DEF pe, qe
<1>4. Before(p, q) /\ Below(e, p) => Before(p, qe)
  BY <1>1, <1>3 DEF Before, Below, qe
<1>5. Before(p, q) /\ Above(e, q) => Before(pe, q)
  BY <1>2, <1>3 DEF Before, Above, pe
<1> QED
  BY <1>4, <1>5 DEF pe, qe

\* The empty sequence is in every order.
LEMMA EmptyOrder ==
    ASSUME NEW m
    PROVE  /\ Sorted(<<>>) /\ Above(m, <<>>) /\ Below(m, <<>>)
           /\ \A q : Before(<<>>, q) /\ Before(q, <<>>)
  BY DEF Sorted, Above, Below, Before

\* Frames are numbers.
LEMMA Numbers ==
    ASSUME TypeOK
    PROVE  /\ write_msgs_ \in Seq(Nat) /\ posts \in Seq(Nat) /\ Msgs \subseteq Nat
           /\ prev_.msg \in Nat /\ nsent \in Nat /\ Link!Floor \in Nat
<1>1. Msgs \subseteq Nat /\ 0..MaxMsgs \subseteq Nat
  BY ConstantsOK DEF Msgs
<1>2. write_msgs_ \in Seq(Nat) /\ posts \in Seq(Nat) /\ delivered \in Seq(Nat)
  BY <1>1, SeqMonotonic DEF TypeOK, QueueTypes
<1>3. prev_.msg \in Nat /\ nsent \in Nat
  BY <1>1 DEF TypeOK, ScalarTypes
<1>4. delivered # <<>> => delivered[Len(delivered)] \in Nat
  <2>1. delivered # <<>> => Len(delivered) \in 1..Len(delivered)
    BY <1>2, EmptySeq, LenProperties
  <2> QED
    BY <1>2, <2>1, ElementOfSeq
<1>5. Link!Floor \in Nat
  BY <1>4 DEF Link!Floor
<1> QED
  BY <1>1, <1>2, <1>3, <1>5

\* Nothing is out of order at first.
LEMMA OrderInit == Init => OrderInv
  BY EmptyOrder DEF Init, OrderInv, NoPrev, Link!Floor

\* The floor moves only with a delivery.
LEMMA SameFloor == delivered' = delivered => Link!Floor' = Link!Floor
  BY DEF Link!Floor

\* A new frame comes after all others, ...
LEMMA SendOrder ==
    ASSUME TypeOK, OrderInv, Send
    PROVE  OrderInv'
<1>1. nsent' = nsent + 1 /\ UNCHANGED <<posts, write_msgs_, prev_, delivered>>
  BY DEF Send
<1>2. nsent \in Nat /\ prev_.msg \in Nat /\ Link!Floor \in Nat
  BY Numbers
<1>3. Below(nsent', write_msgs_) /\ Below(nsent', posts)
  <2>1. \A q \in Seq(Nat) : Below(nsent, q) => Below(nsent', q)
    BY <1>1, <1>2, ElementOfSeq, LenProperties DEF Below
  <2> QED
    BY <2>1, Numbers DEF OrderInv
<1> QED
  BY <1>1, <1>2, <1>3, SameFloor DEF OrderInv

\* ... is posted behind them, ...
LEMMA PostOrder ==
    ASSUME TypeOK, OrderInv, PostDoSend, nsent > 0
    PROVE  OrderInv'
<1>1. posts' = Append(posts, nsent) /\ UNCHANGED <<nsent, write_msgs_, prev_, delivered>>
  BY DEF PostDoSend
<1>2. /\ nsent \in Nat /\ prev_.msg \in Nat /\ Link!Floor \in Nat
      /\ posts \in Seq(Nat) /\ write_msgs_ \in Seq(Nat)
  BY Numbers
<1>3. Link!Floor <= nsent
  BY <1>2, Z3 DEF OrderInv, Link!Floor, TypeOK, ScalarTypes
<1>4. /\ Sorted(posts') /\ Below(nsent, posts')
      /\ Above(Link!Floor, posts') /\ Above(prev_.msg, posts')
  BY <1>1, <1>2, <1>3, OrderAppend DEF OrderInv
<1>5. Before(write_msgs_, posts')
  BY <1>1, <1>2, BeforeAppend DEF OrderInv
<1> QED
  BY <1>1, <1>4, <1>5, SameFloor DEF OrderInv

\* ... moves to the end of the deque, ...
LEMMA DoSendOrder ==
    ASSUME TypeOK, OrderInv, DoSend
    PROVE  OrderInv'
<1>1. /\ posts # <<>> /\ posts' = Tail(posts) /\ write_msgs_' = Append(write_msgs_, Head(posts))
      /\ UNCHANGED <<nsent, prev_, delivered>>
  BY DEF DoSend
<1>2. /\ nsent \in Nat /\ prev_.msg \in Nat /\ Link!Floor \in Nat
      /\ posts \in Seq(Nat) /\ write_msgs_ \in Seq(Nat)
  BY Numbers
<1>3. /\ Head(posts) \in Nat /\ posts' \in Seq(Nat) /\ Sorted(posts')
      /\ Above(Head(posts), posts')
      /\ Link!Floor <= Head(posts) /\ Above(Link!Floor, posts')
      /\ prev_.msg <= Head(posts) /\ Above(prev_.msg, posts')
      /\ Head(posts) <= nsent /\ Below(nsent, posts')
      /\ Below(Head(posts), write_msgs_) /\ Before(write_msgs_, posts')
  BY <1>1, <1>2, OrderTail DEF OrderInv
<1>4. /\ Sorted(write_msgs_') /\ Below(nsent, write_msgs_')
      /\ Above(Link!Floor, write_msgs_') /\ Above(prev_.msg, write_msgs_')
  BY <1>1, <1>2, <1>3, OrderAppend DEF OrderInv
<1>5. Before(write_msgs_', posts')
  BY <1>1, <1>2, <1>3, BeforeAppend
<1> QED
  BY <1>1, <1>3, <1>4, <1>5, SameFloor DEF OrderInv

\* ... may wait behind the last frame written, ...
LEMMA ConnectOkOrder ==
    ASSUME TypeOK, OrderInv, HandleConnectOk
    PROVE  OrderInv'
<1>1. UNCHANGED <<nsent, prev_, posts, delivered>> /\ write_msgs_' \in {write_msgs_, Requeued}
  BY DEF HandleConnectOk
<1>2. /\ nsent \in Nat /\ prev_.msg \in Nat /\ Link!Floor \in Nat
      /\ posts \in Seq(Nat) /\ write_msgs_ \in Seq(Nat)
  BY Numbers
<1>3. CASE write_msgs_' = write_msgs_
  BY <1>1, <1>3, SameFloor DEF OrderInv
<1>4. CASE write_msgs_' = <<prev_.msg>> \o write_msgs_ /\ prev_.msg # 0
  <2>1. /\ Sorted(write_msgs_') /\ Below(nsent, write_msgs_')
        /\ Above(Link!Floor, write_msgs_') /\ Above(prev_.msg, write_msgs_')
        /\ Before(write_msgs_', posts)
    BY <1>2, <1>4, OrderFront DEF OrderInv
  <2> QED
    BY <1>1, <2>1, SameFloor DEF OrderInv
<1> QED
  BY <1>1, <1>3, <1>4 DEF Requeued

\* ... and is written, received or not, ...
LEMMA FrameOrder ==
    ASSUME TypeOK, OrderInv, FrameWritten, nsent' = nsent,
           delivered' = delivered \/ delivered' = Append(delivered, Head(write_msgs_))
    PROVE  OrderInv'
<1>1. /\ write_msgs_ # <<>> /\ write_msgs_' = Tail(write_msgs_)
      /\ prev_'.msg = Head(write_msgs_) /\ UNCHANGED <<posts, nsent>>
  BY DEF FrameWritten
<1>2. /\ nsent \in Nat /\ prev_.msg \in Nat /\ Link!Floor \in Nat
      /\ posts \in Seq(Nat) /\ write_msgs_ \in Seq(Nat)
  BY Numbers
<1>3. /\ Head(write_msgs_) \in Nat /\ Sorted(write_msgs_')
      /\ Above(Head(write_msgs_), write_msgs_')
      /\ Link!Floor <= Head(write_msgs_) /\ Above(Link!Floor, write_msgs_')
      /\ Head(write_msgs_) <= nsent /\ Below(nsent, write_msgs_')
      /\ Above(Head(write_msgs_), posts) /\ Before(write_msgs_', posts)
  BY <1>1, <1>2, OrderTail DEF OrderInv
<1>4. CASE delivered' = delivered
  BY <1>1, <1>3, <1>4, SameFloor DEF OrderInv
<1>5. CASE delivered' = Append(delivered, Head(write_msgs_))
  <2>1. Link!Floor' = Head(write_msgs_)
    <3>1. Head(write_msgs_) \in Msgs /\ delivered \in Seq(Msgs)
      BY <1>1 DEF TypeOK, QueueTypes
    <3>2. delivered' # <<>> /\ delivered'[Len(delivered')] = Head(write_msgs_)
      BY <3>1, <1>5, AppendProperties
    <3> QED
      BY <3>2, <1>3 DEF Link!Floor
  <2> QED
    BY <1>1, <1>3, <2>1 DEF OrderInv
<1> QED
  BY <1>4, <1>5

\* ... or given up.
LEMMA ClearOrder ==
    ASSUME TypeOK, OrderInv, nsent' = nsent, delivered' = delivered,
           write_msgs_' = <<>>, posts' = posts \/ posts' = <<>>,
           prev_' = prev_ \/ prev_' = NoPrev
    PROVE  OrderInv'
<1>2. nsent \in Nat /\ prev_.msg \in Nat /\ Link!Floor \in Nat
  BY Numbers
<1>3. /\ Sorted(posts') /\ Above(Link!Floor, posts') /\ Above(prev_.msg, posts')
      /\ Below(nsent, posts')
  BY EmptyOrder DEF OrderInv
<1>4. Above(0, posts')
  <2>1. CASE posts' = <<>>
    BY <2>1, EmptyOrder
  <2>2. CASE posts' = posts
    BY <2>2, Numbers, ElementOfSeq, LenProperties DEF Above
  <2> QED
    BY <2>1, <2>2
<1>5. CASE prev_' = prev_
  BY <1>2, <1>3, <1>5, EmptyOrder, SameFloor DEF OrderInv
<1>6. CASE prev_' = NoPrev
  BY <1>2, <1>3, <1>4, <1>6, EmptyOrder, SameFloor DEF OrderInv, NoPrev
<1> QED
  BY <1>5, <1>6

\* The destructor drops what is posted.
LEMMA DestroyOrder ==
    ASSUME TypeOK, OrderInv, Destroy
    PROVE  OrderInv'
<1>1. posts' = <<>> /\ UNCHANGED <<nsent, write_msgs_, prev_, delivered>>
  BY DEF Destroy
<1>2. nsent \in Nat /\ prev_.msg \in Nat /\ Link!Floor \in Nat
  BY Numbers
<1> QED
  BY <1>1, <1>2, EmptyOrder, SameFloor DEF OrderInv

\* The frame whose write is outstanding is the front of the deque.
LEMMA WritesHead ==
    ASSUME TypeOK, LinkInv, Handling, writeOps # <<>>, write_msgs_ # <<>>
    PROVE  Head(writeOps) = Head(write_msgs_)
<1>1. ~Closed
  BY DEF LinkInv, ClosedInv, Handling
<1>2. writeOps = <<Head(write_msgs_)>>
  BY <1>1 DEF LinkInv, OpenInv
<1> QED
  BY <1>2, One

\* Every step keeps the order.
LEMMA OrderStep ==
    ASSUME TypeOK, ThreadInv, LinkInv, OrderInv, [Next]_vars
    PROVE  OrderInv'
<1>1. CASE Send
  BY <1>1, SendOrder
<1>2. CASE RaiseMsgToSend
  BY <1>2, SameFloor DEF RaiseMsgToSend, OrderInv
<1>3. CASE PostDoSend
  BY <1>3, PostOrder DEF ThreadInv, Sending, PostDoSend
<1>4. CASE BlockUntilQueueIsEmpty
  BY <1>4, SameFloor DEF BlockUntilQueueIsEmpty, OrderInv
<1>5. CASE SpinUntilReady
  BY <1>5, SameFloor DEF SpinUntilReady, OrderInv
<1>6. CASE CheckFlags
  BY <1>6, SameFloor DEF CheckFlags, OrderInv, CheckFlag
<1>7. CASE EnterWait
  BY <1>7, SameFloor DEF EnterWait, OrderInv
<1>8. CASE SpuriousWakeup
  BY <1>8, SameFloor DEF SpuriousWakeup, OrderInv
<1>9. CASE Destructor
  BY <1>9, DestroyOrder, SameFloor DEF Destructor, OrderInv
<1>10. CASE CloseOrTimedJoin
  BY <1>10, DestroyOrder, SameFloor DEF CloseOrTimedJoin, OrderInv
<1>11. CASE StopService
  BY <1>11, SameFloor DEF StopService, OrderInv
<1>12. CASE Join
  BY <1>12, DestroyOrder DEF Join
<1>13. CASE ResolveOk
  BY <1>13, SameFloor DEF ResolveOk, OrderInv, DoConnect
<1>14. CASE LeaveRun
  BY <1>14, SameFloor DEF LeaveRun, OrderInv
<1>15. CASE ThreadExit
  BY <1>15, SameFloor DEF ThreadExit, OrderInv
<1>16. CASE DoSend
  BY <1>16, DoSendOrder
<1>17. CASE HandleConnectOk
  BY <1>17, ConnectOkOrder
<1>18. CASE HandleConnectStale
  BY <1>18, SameFloor DEF HandleConnectStale, OrderInv, Handling, NotifyAll
<1>19. CASE HandleConnectNextEndpoint
  BY <1>19, SameFloor DEF HandleConnectNextEndpoint, OrderInv, Handling, ConnectFails
<1>20. CASE HandleConnectFailed
  BY <1>20, ClearOrder DEF HandleConnectFailed, NotifyAll
<1>21. CASE HandleWriteOk
  BY <1>21, FrameOrder, WritesHead DEF HandleWriteOk, FrameWritten, NotifyAll
<1>22. CASE HandleWriteShort
  BY <1>22, FrameOrder DEF HandleWriteShort, FrameWritten, NotifyAll
<1>23. CASE HandleWriteBrokenPipe
  BY <1>23, SameFloor DEF HandleWriteBrokenPipe, OrderInv, Handling
<1>24. CASE ReconnectAfterBrokenPipe
  BY <1>24, SameFloor DEF ReconnectAfterBrokenPipe, OrderInv, DoConnect
<1>25. CASE HandleWriteError
  BY <1>25, ClearOrder DEF HandleWriteError, NotifyAll, DoClose, CloseSocket
<1>26. CASE HandleWriteAfterClear
  BY <1>26, SameFloor DEF HandleWriteAfterClear, OrderInv, Handling
<1>27. CASE HandleClose
  BY <1>27, ClearOrder DEF HandleClose, DoClose, CloseSocket
<1>28. CASE ServerDrops
  BY <1>28, SameFloor DEF ServerDrops, OrderInv
<1>29. CASE Tick
  BY <1>29, SameFloor DEF Tick, OrderInv
<1>30. CASE UNCHANGED vars
  BY <1>30, SameFloor DEF vars, OrderInv
<1> QED
  BY <1>1, <1>2, <1>3, <1>4, <1>5, <1>6, <1>7, <1>8, <1>9, <1>10,
     <1>11, <1>12, <1>13, <1>14, <1>15, <1>16, <1>17, <1>18, <1>19, <1>20,
     <1>21, <1>22, <1>23, <1>24, <1>25, <1>26, <1>27, <1>28, <1>29, <1>30
  DEF Next, Application, AppContinues, IoThread, HandleConnect, HandleWrite,
      Environment, Terminated

-----------------------------------------------------------------------------
(* Theorems                                                                *)

\* The invariant behind the safety theorems holds at first, is kept by every
\* step, and so always holds.
LEMMA IndInit == Init => IndInv
  BY TypeInit, LinkInit, WakerInit, OrderInit DEF IndInv

LEMMA IndStep ==
    ASSUME IndInv, [Next]_vars
    PROVE  IndInv'
<1>1. TypeOK'
  BY ScalarStep, QueueStep DEF IndInv, TypeOK
<1>2. ThreadInv'
  BY ThreadStep DEF IndInv, TypeOK
<1>3. LinkInv'
  BY LinkStep DEF IndInv
<1>4. WakerInv'
  BY WakerStep DEF IndInv, TypeOK
<1>5. OrderInv'
  BY OrderStep DEF IndInv
<1> QED
  BY <1>1, <1>2, <1>3, <1>4, <1>5 DEF IndInv

\* The inductive invariant of the client: threads, socket, waiting and order.
THEOREM Invariant == Spec => []IndInv
<1>1. IndInv /\ [Next]_vars => IndInv'
  BY IndStep
<1> QED
  BY IndInit, <1>1, PTL DEF Spec

\* Every variable keeps its type: handlers leave only frames in the deque and
\* only endpoints of the resolver's list are tried.
THEOREM TypeCorrect == Spec => []TypeOK
<1>1. IndInv => TypeOK
  BY DEF IndInv
<1> QED
  BY Invariant, <1>1, PTL

\* AsyncTCPClient has one asynchronous operation on its socket at a time.
THEOREM OneOperationAtATime == Spec => []OneOperation
<1>1. IndInv => OneOperation
  <2> SUFFICES ASSUME IndInv PROVE OneOperation
    OBVIOUS
  <2>1. connectOps = <<>> \/ writeOps = <<>>
    BY DEF IndInv, LinkInv, OpenInv, ClosedInv
  <2>2. Len(connectOps) <= 1
    BY DEF IndInv, LinkInv, OpenInv, ClosedInv
  <2>3. writeOps = <<>> \/ writeOps = <<Head(write_msgs_)>> \/ Len(writeOps) <= 1
    BY DEF IndInv, LinkInv, OpenInv, ClosedInv
  <2>4. Len(writeOps) <= 1
    BY <2>3, AtMostOne
  <2>5. Len(connectOps) \in Nat /\ Len(writeOps) \in Nat
    BY LenProperties DEF IndInv, TypeOK, QueueTypes
  <2>6. connectOps = <<>> => Len(connectOps) = 0
    BY EmptySeq
  <2>7. writeOps = <<>> => Len(writeOps) = 0
    BY EmptySeq
  <2> QED
    BY <2>1, <2>2, <2>4, <2>5, <2>6, <2>7 DEF OneOperation
<1> QED
  BY Invariant, <1>1, PTL

\* The buffer of an outstanding async_write_some stays the front of the deque
\* until its handler has run.
THEOREM BufferStaysStable == Spec => []BufferStable
<1>1. IndInv => BufferStable
  <2> SUFFICES ASSUME IndInv, NEW i \in DOMAIN writeOps, ~Closed
               PROVE  write_msgs_ # <<>> /\ writeOps[i] = Head(write_msgs_)
    <3>1. CASE Closed
      BY <3>1 DEF BufferStable, IndInv, LinkInv, ClosedInv
    <3>2. CASE ~Closed
      BY <3>2 DEF BufferStable
    <3> QED
      BY <3>1, <3>2
  <2>1. writeOps # <<>>
    OBVIOUS
  <2>2. write_msgs_ # <<>> /\ writeOps = <<Head(write_msgs_)>>
    BY <2>1 DEF IndInv, LinkInv, OpenInv
  <2> QED
    BY <2>2
<1> QED
  BY Invariant, <1>1, PTL

\* connecting_, write_in_progress_ and connected_ tell the truth.
THEOREM TruthfulFlags == Spec => []FlagsTellTheTruth
<1>1. IndInv => FlagsTellTheTruth
  BY DEF IndInv, LinkInv, OpenInv, FlagsTellTheTruth
<1> QED
  BY Invariant, <1>1, PTL

\* No frame sits in the deque with nothing under way for it.
THEOREM NoFrameForgotten == Spec => []NoIdleBacklog
<1>1. IndInv => NoIdleBacklog
  BY DEF IndInv, LinkInv, OpenInv, ClosedInv, NoIdleBacklog
<1> QED
  BY Invariant, <1>1, PTL

\* BlockUntilQueueIsEmpty waits only while a handler that will notify is due.
THEOREM NoLostWakeup == Spec => []WaiterHasWaker
<1>1. IndInv => WaiterHasWaker
  BY DEF IndInv, WakerInv, WaiterHasWaker
<1> QED
  BY Invariant, <1>1, PTL

\* A step of the client is a Send, a delivery that keeps the order, or
\* nothing to OrderedLink.
LEMMA LinkNext ==
    ASSUME IndInv, [Next]_vars
    PROVE  [Link!Next]_(Link!vars)
<1> USE DEF Link!vars
<1>1. CASE Send
  BY <1>1 DEF Send, Link!Next, Link!Submit
<1>2. CASE HandleWriteOk
  <2>1. CASE delivered' = delivered
    BY <1>2, <2>1 DEF HandleWriteOk, FrameWritten, NotifyAll
  <2>2. CASE delivered' = Append(delivered, Head(writeOps))
    <3>1. Head(writeOps) = Head(write_msgs_) /\ nsent' = nsent /\ write_msgs_ # <<>>
      BY <1>2, WritesHead DEF HandleWriteOk, FrameWritten, NotifyAll, IndInv
    <3>2. /\ write_msgs_ \in Seq(Nat) /\ Head(write_msgs_) \in Nat
          /\ nsent \in Nat /\ Link!Floor \in Nat
      BY <3>1, Numbers, OrderTail DEF IndInv
    <3>3. Link!Floor <= Head(write_msgs_) /\ Head(write_msgs_) <= nsent
      BY <3>1, <3>2, OrderTail DEF IndInv, OrderInv
    <3> QED
      BY <2>2, <3>1, <3>2, <3>3 DEF Link!Next, Link!Receive
  <2> QED
    BY <1>2, <2>1, <2>2 DEF HandleWriteOk
<1>3. CASE Next /\ ~Send /\ ~HandleWriteOk
  <2>1. UNCHANGED <<nsent, delivered>>
    BY <1>3 DEF Next, Application, AppContinues, IoThread, HandleConnect, HandleWrite,
         Environment, Terminated, vars, RaiseMsgToSend, PostDoSend, BlockUntilQueueIsEmpty,
         SpinUntilReady, CheckFlags, CheckFlag, EnterWait, SpuriousWakeup, Destructor,
         CloseOrTimedJoin, StopService, Join, Destroy, ResolveOk, LeaveRun, ThreadExit,
         DoSend, HandleConnectOk, HandleConnectStale, HandleConnectNextEndpoint,
         HandleConnectFailed, NotifyAll, HandleWriteShort, FrameWritten,
         HandleWriteBrokenPipe, ReconnectAfterBrokenPipe, HandleWriteError,
         HandleWriteAfterClear, HandleClose, ServerDrops, Tick
  <2> QED
    BY <2>1
<1>4. CASE UNCHANGED vars
  BY <1>4 DEF vars
<1> QED
  BY <1>1, <1>2, <1>3, <1>4

\* The server receives frames in the order of the Send calls, with nothing but
\* the latest frame repeated: TcpClient implements OrderedLink.
THEOREM FramesInOrder == Spec => RefinesOrderedLink
<1>1. Init => Link!Init
  BY DEF Init, Link!Init
<1>2. IndInv /\ [Next]_vars => [Link!Next]_(Link!vars)
  BY LinkNext
<1> QED
  BY Invariant, <1>1, <1>2, PTL DEF Spec, RefinesOrderedLink, Link!Spec
=============================================================================
