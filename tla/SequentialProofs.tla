-------------------------- MODULE SequentialProofs --------------------------
(***************************************************************************)
(* Machine-checked proofs about the parts that run on one thread, for all  *)
(* values of the constants: what the facade hands to the clients, and what *)
(* a reader of a tnyosc::Message is given.  The invariants of voscpack and *)
(* am_client are in OscPackProofs and AmClientProofs; the theorems about   *)
(* all four are at the end.                                                *)
(***************************************************************************)
EXTENDS OscPackProofs, AmClientProofs

-----------------------------------------------------------------------------
(* Sequences of messages and of packets                                    *)

Packet == [bytes : Nat, msgs : MsgSeq]

\* A message behind a sequence of messages.
LEMMA MessageBehind ==
    ASSUME NEW q \in Seq(Nat), NEW n \in Nat
    PROVE  /\ Range(Append(q, n)) = Range(q) \cup {n}
           /\ Increasing(Append(q, n)) <=> Increasing(q) /\ \A m \in Range(q) : m < n
<1>1. /\ Len(Append(q, n)) = Len(q) + 1 /\ DOMAIN Append(q, n) = 1..(Len(q) + 1)
      /\ \A x \in 1..Len(q) : Append(q, n)[x] = q[x]
      /\ Append(q, n)[Len(q) + 1] = n
      /\ DOMAIN q = 1..Len(q) /\ Len(q) \in Nat
  OBVIOUS
<1> DEFINE r == Append(q, n)
<1> HIDE DEF r
<1>2. Range(r) = Range(q) \cup {n}
  BY <1>1 DEF Range, r
<1>3. ASSUME Increasing(r)
      PROVE  Increasing(q) /\ \A m \in Range(q) : m < n
  BY <1>1, <1>3 DEF Range, Increasing, r
<1>4. ASSUME Increasing(q), \A m \in Range(q) : m < n
      PROVE  Increasing(r)
  BY <1>1, <1>4 DEF Range, Increasing, r
<1> QED
  BY <1>2, <1>3, <1>4 DEF r

\* No message, and one.
LEMMA FewMessages ==
    /\ Range(<<>>) = {} /\ Increasing(<<>>)
    /\ \A n \in Nat : Range(<<n>>) = {n} /\ Increasing(<<n>>)
  BY DEF Range, Increasing

\* A packet behind a sequence of packets.
LEMMA PacketBehind ==
    ASSUME NEW q \in Seq(Packet), NEW p \in Packet
    PROVE  /\ Messages(Append(q, p)) = Messages(q) \cup Range(p.msgs)
           /\ InOrder(Append(q, p)) <=>
                /\ InOrder(q) /\ Increasing(p.msgs)
                /\ \A m \in Messages(q), n \in Range(p.msgs) : m < n
<1>1. /\ DOMAIN Append(q, p) = 1..(Len(q) + 1)
      /\ \A x \in 1..Len(q) : Append(q, p)[x] = q[x]
      /\ Append(q, p)[Len(q) + 1] = p
      /\ DOMAIN q = 1..Len(q) /\ Len(q) \in Nat
  OBVIOUS
<1> DEFINE r == Append(q, p)
<1> HIDE DEF r
<1>2. Messages(r) = Messages(q) \cup Range(p.msgs)
  BY <1>1 DEF Messages, r
<1>3. ASSUME InOrder(r)
      PROVE  /\ InOrder(q) /\ Increasing(p.msgs)
             /\ \A m \in Messages(q), n \in Range(p.msgs) : m < n
  BY <1>1, <1>3 DEF Messages, InOrder, r
<1>4. ASSUME InOrder(q), Increasing(p.msgs),
             \A m \in Messages(q), n \in Range(p.msgs) : m < n
      PROVE  InOrder(r)
  BY <1>1, <1>4 DEF Messages, InOrder, r
<1> QED
  BY <1>2, <1>3, <1>4 DEF r

-----------------------------------------------------------------------------
(* The invariant of the facade                                             *)

\* The bundle holds its header and the messages, or nothing.
BundleInv ==
    /\ udp_bundle_.bytes <= Header <=> udp_bundle_.msgs = <<>>
    /\ start_bundle_ => udp_bundle_.bytes >= Header
    /\ ~start_bundle_ => udp_bundle_.msgs = <<>>

\* EveryMessageOnce in terms of what was sent and what the bundle holds.
Apart ==
    /\ Increasing(tcp) /\ InOrder(udp) /\ Increasing(udp_bundle_.msgs)
    /\ \A m \in Messages(udp), n \in Range(udp_bundle_.msgs) : m < n
    /\ Range(tcp) \cap (Messages(udp) \cup Range(udp_bundle_.msgs)) = {}
    /\ Range(tcp) \cup Messages(udp) \cup Range(udp_bundle_.msgs) = 1..nmsgs

\* If the packet sent last is empty, the bundle has become long meanwhile.
Long(packet) == packet.bytes > MAX_MESSAGE_SIZE + Prefix
EmptyInv ==
    \A x \in DOMAIN udp : udp[x].msgs = <<>> =>
        IF x < Len(udp) THEN Long(udp[x + 1])
        ELSE start_bundle_ /\ Long(udp_bundle_) /\ udp_bundle_.bytes > Header

FitInv ==
    \A packet \in Range(udp) \cup {udp_bundle_} :
        Len(packet.msgs) > 1 => packet.bytes <= MAX_MESSAGE_SIZE + Prefix

FacadeInv == TypeOK /\ BundleInv /\ Apart /\ EmptyInv /\ FitInv

LEMMA Apartness == ASSUME TypeOK PROVE EveryMessageOnce <=> Apart
<1>1. udp \in Seq(Packet) /\ udp_bundle_ \in Packet
  BY DEF TypeOK, Packet
<1> QED
  BY <1>1, PacketBehind DEF EveryMessageOnce, Apart, Queue

LEMMA FacadeInit == Init => FacadeInv
<1> SUFFICES ASSUME Init PROVE FacadeInv
  OBVIOUS
<1>1. <<>> \in MsgSeq /\ <<>> \in Seq(Packet) /\ NoBundle \in Packet /\ 0 \in 0..MaxMsgs
  BY ConstantsOK DEF NoBundle, Packet, MsgSeq
<1>2. TypeOK
  BY <1>1 DEF Init, TypeOK, Packet
<1>3. BundleInv
  BY DEF Init, BundleInv, NoBundle, Header
<1>4. Apart
  <2>1. Messages(<<>>) = {} /\ InOrder(<<>>)
    BY DEF Messages, InOrder
  <2>2. tcp = <<>> /\ udp = <<>> /\ udp_bundle_.msgs = <<>> /\ nmsgs = 0
    BY DEF Init, NoBundle
  <2> QED
    BY <2>1, <2>2, FewMessages DEF Apart
<1>5. EmptyInv
  BY DEF Init, EmptyInv
<1>6. FitInv
  BY DEF Init, FitInv, NoBundle, Range
<1> QED
  BY <1>2, <1>3, <1>4, <1>5, <1>6 DEF FacadeInv

\* A message handed to a client takes the next number.
LEMMA NextNumber ==
    ASSUME TypeOK, NewMsg
    PROVE  /\ nmsgs + 1 \in 1..MaxMsgs /\ nmsgs' = nmsgs + 1
           /\ \A m \in 1..nmsgs : m < nmsgs + 1
  BY ConstantsOK DEF TypeOK, NewMsg

\* What the operations do to the packets.
Handed(width) == NewMsg /\ SendUDP(width) /\ UNCHANGED start_bundle_
LEMMA Effects ==
    ASSUME FacadeInv, [Next]_vars
    PROVE  \/ UNCHANGED <<start_bundle_, udp_bundle_, nmsgs, tcp, udp>>
           \/ NewMsg /\ SendTCP /\ UNCHANGED start_bundle_
           \/ \E width \in Sizes : Handed(width)
           \/ StartBundle \/ EndBundle
<1>1. ASSUME NEW width \in Sizes, SendCoreMessage(width)
      PROVE  (NewMsg /\ SendTCP /\ UNCHANGED start_bundle_) \/ Handed(width)
  BY <1>1 DEF SendCoreMessage, Handed
<1>2. ASSUME NEW width \in Sizes \cup {-1}, SendCustomTCP(width)
      PROVE  NewMsg /\ SendTCP /\ UNCHANGED start_bundle_
  BY <1>2 DEF SendCustomTCP
<1>3. ASSUME NEW width \in Sizes \cup {-1}, SendCustomUDP(width)
      PROVE  width \in Sizes /\ Handed(width)
  BY <1>3 DEF SendCustomUDP, Handed, Packed
<1> QED
  BY <1>1, <1>2, <1>3 DEF Next, SetOption, Destructor, Terminated, vars

\* Numbers of messages are natural numbers.
LEMMA Naturals ==
    ASSUME TypeOK
    PROVE  tcp \in Seq(Nat) /\ udp_bundle_.msgs \in Seq(Nat) /\ nmsgs \in Nat
<1>1. tcp \in MsgSeq /\ udp_bundle_.msgs \in MsgSeq /\ nmsgs \in Nat
  BY ConstantsOK DEF TypeOK
<1>2. 1..MaxMsgs \subseteq Nat
  BY ConstantsOK
<1> QED
  BY <1>1, <1>2, SeqMonotonic DEF MsgSeq

-----------------------------------------------------------------------------
(* One lemma per effect                                                    *)

\* The parts of the invariant that speak of messages.
Handover == BundleInv /\ Apart /\ EmptyInv /\ FitInv

LEMMA TcpEffect ==
    ASSUME FacadeInv, NewMsg, SendTCP, UNCHANGED start_bundle_
    PROVE  Handover'
<1>1. tcp' = Append(tcp, nmsgs + 1) /\ UNCHANGED <<udp, udp_bundle_, start_bundle_>>
  BY DEF SendTCP
<1>2. tcp \in Seq(Nat) /\ nmsgs \in Nat
  BY Naturals DEF FacadeInv
<1>3. Range(tcp') = Range(tcp) \cup {nmsgs'}
  BY <1>1, <1>2, MessageBehind, NextNumber DEF FacadeInv
<1>4. Increasing(tcp')
  <2>1. \A m \in Range(tcp) : m \in 1..nmsgs
    BY DEF FacadeInv, Apart
  <2> QED
    BY <1>1, <1>2, <2>1, MessageBehind, NextNumber DEF FacadeInv, Apart
<1>5. 1..nmsgs' = 1..nmsgs \cup {nmsgs'} /\ nmsgs' \notin 1..nmsgs
  BY <1>2, NextNumber DEF FacadeInv
<1>6. Apart'
  BY <1>1, <1>3, <1>4, <1>5 DEF FacadeInv, Apart
<1> QED
  BY <1>1, <1>6 DEF Handover, FacadeInv, BundleInv, EmptyInv, FitInv

\* The next number is behind every message there is.
LEMMA NumbersBelow ==
    ASSUME FacadeInv, NewMsg
    PROVE  /\ nmsgs + 1 \in Nat /\ nmsgs' = nmsgs + 1
           /\ 1..nmsgs' = 1..nmsgs \cup {nmsgs + 1}
           /\ \A m \in Range(tcp) \cup Messages(udp) \cup Range(udp_bundle_.msgs) :
                m \in Nat /\ m < nmsgs + 1
<1>1. nmsgs \in Nat
  BY DEF FacadeInv, TypeOK
<1> QED
  BY <1>1, NextNumber DEF FacadeInv, Apart

\* A packet behind those that were sent.
LEMMA PacketSent ==
    ASSUME FacadeInv, NEW packet \in Packet, udp' = Append(udp, packet)
    PROVE  /\ Len(udp) \in Nat /\ Len(udp') = Len(udp) + 1 /\ DOMAIN udp' = 1..(Len(udp) + 1)
           /\ DOMAIN udp = 1..Len(udp)
           /\ \A x \in 1..Len(udp) : udp'[x] = udp[x]
           /\ udp'[Len(udp) + 1] = packet
           /\ Range(udp') = Range(udp) \cup {packet}
<1>1. udp \in Seq(Packet)
  BY DEF FacadeInv, TypeOK, Packet
<1>2. /\ Len(udp) \in Nat /\ Len(udp') = Len(udp) + 1 /\ DOMAIN udp' = 1..(Len(udp) + 1)
      /\ DOMAIN udp = 1..Len(udp)
      /\ \A x \in 1..Len(udp) : udp'[x] = udp[x]
      /\ udp'[Len(udp) + 1] = packet
  BY <1>1
<1> QED
  BY <1>2 DEF Range

\* There is room in the bundle.
LEMMA AppendEffect ==
    ASSUME FacadeInv, NewMsg, NEW width \in Sizes, start_bundle_, ~Full(width),
           AppendBundle(width), UNCHANGED <<start_bundle_, tcp>>
    PROVE  Handover'
<1> DEFINE n == nmsgs + 1
<1>1. /\ udp' = udp /\ udp_bundle_'.bytes = udp_bundle_.bytes + Prefix + width
      /\ udp_bundle_'.msgs = Append(udp_bundle_.msgs, n)
  BY DEF AppendBundle, Room
<1>2. /\ udp_bundle_.bytes \in Nat /\ udp_bundle_.msgs \in Seq(Nat)
      /\ width \in 1..MAX_MESSAGE_SIZE /\ MAX_MESSAGE_SIZE \in Nat
  BY Naturals, ConstantsOK DEF FacadeInv, TypeOK
<1>3. /\ n \in Nat /\ nmsgs' = n /\ 1..nmsgs' = 1..nmsgs \cup {n}
      /\ \A m \in Range(tcp) \cup Messages(udp) \cup Range(udp_bundle_.msgs) :
           m \in Nat /\ m < n
  BY NumbersBelow
<1> HIDE DEF n
<1>4. BundleInv'
  <2>1. udp_bundle_'.msgs # <<>>
    BY <1>1, <1>2
  <2>2. udp_bundle_'.bytes > Header
    BY <1>1, <1>2 DEF FacadeInv, BundleInv, Header, Prefix
  <2> QED
    BY <2>1, <2>2, <1>1, <1>2 DEF BundleInv, Header, Prefix
<1>5. Apart'
  <2>1. /\ Range(udp_bundle_'.msgs) = Range(udp_bundle_.msgs) \cup {n}
        /\ Increasing(udp_bundle_'.msgs) <=>
             Increasing(udp_bundle_.msgs) /\ \A m \in Range(udp_bundle_.msgs) : m < n
    BY <1>1, <1>2, <1>3, MessageBehind
  <2>2. n \notin Range(tcp)
    BY <1>3
  <2> QED
    BY <1>1, <1>3, <2>1, <2>2 DEF FacadeInv, Apart
<1>6. EmptyInv'
  <2>1. Long(udp_bundle_) => Long(udp_bundle_')
    BY <1>1, <1>2 DEF Long, Prefix
  <2>2. udp_bundle_.bytes > Header => udp_bundle_'.bytes > Header
    BY <1>1, <1>2 DEF Header, Prefix
  <2> QED
    BY <1>1, <2>1, <2>2 DEF FacadeInv, EmptyInv, Long
<1>7. FitInv'
  <2>1. udp_bundle_'.bytes <= MAX_MESSAGE_SIZE + Prefix
    BY <1>1, <1>2 DEF Full, Prefix
  <2> QED
    BY <1>1, <2>1 DEF FacadeInv, FitInv
<1> QED
  BY <1>4, <1>5, <1>6, <1>7 DEF Handover

\* The bundle is full: it is sent, and the message begins the next.
LEMMA OverflowEffect ==
    ASSUME FacadeInv, NewMsg, NEW width \in Sizes, start_bundle_, Full(width),
           AppendBundle(width), UNCHANGED <<start_bundle_, tcp>>
    PROVE  Handover'
<1> DEFINE n == nmsgs + 1
<1>1. /\ udp' = Append(udp, udp_bundle_) /\ udp_bundle_'.bytes = Header + Prefix + width
      /\ udp_bundle_'.msgs = <<n>>
  BY DEF AppendBundle, Room, EmptyBundle
<1>2. /\ udp_bundle_.bytes \in Nat /\ udp_bundle_ \in Packet /\ udp \in Seq(Packet)
      /\ width \in 1..MAX_MESSAGE_SIZE /\ MAX_MESSAGE_SIZE \in Nat
  BY ConstantsOK DEF FacadeInv, TypeOK, Packet
<1>3. /\ n \in Nat /\ nmsgs' = n /\ 1..nmsgs' = 1..nmsgs \cup {n}
      /\ \A m \in Range(tcp) \cup Messages(udp) \cup Range(udp_bundle_.msgs) :
           m \in Nat /\ m < n
  BY NumbersBelow
<1> HIDE DEF n
<1>4. BundleInv'
  <2>1. udp_bundle_'.bytes > Header
    BY <1>1, <1>2 DEF Header, Prefix
  <2>2. udp_bundle_'.msgs # <<>>
    BY <1>1
  <2>3. udp_bundle_'.bytes \in Nat
    BY <1>1, <1>2 DEF Header, Prefix
  <2> QED
    BY <2>1, <2>2, <2>3 DEF BundleInv, Header
<1>5. Apart'
  <2>1. Range(udp_bundle_'.msgs) = {n} /\ Increasing(udp_bundle_'.msgs)
    BY <1>1, <1>3, FewMessages
  <2>2. /\ Messages(udp') = Messages(udp) \cup Range(udp_bundle_.msgs)
        /\ InOrder(udp')
    BY <1>1, <1>2, PacketBehind DEF FacadeInv, Apart
  <2>3. n \notin Range(tcp)
    BY <1>3
  <2> QED
    BY <1>3, <2>1, <2>2, <2>3 DEF FacadeInv, Apart
<1>6. EmptyInv'
  <2>1. (Long(udp_bundle_') /\ udp_bundle_'.bytes > Header) \/ udp_bundle_.msgs # <<>>
    BY <1>1, <1>2 DEF FacadeInv, BundleInv, Full, Long, Header, Prefix
  <2> QED
    BY <1>1, <1>2, <2>1, PacketSent DEF FacadeInv, EmptyInv, Long
<1>7. FitInv'
  <2>1. Len(udp_bundle_'.msgs) = 1
    BY <1>1
  <2>2. Range(udp') = Range(udp) \cup {udp_bundle_}
    BY <1>1, <1>2, PacketSent
  <2>3. ~(Len(udp_bundle_'.msgs) > 1)
    BY <2>1
  <2> QED
    BY <2>2, <2>3 DEF FacadeInv, FitInv
<1> QED
  BY <1>4, <1>5, <1>6, <1>7 DEF Handover

\* No bundle is open: the message is a packet of its own.
LEMMA DirectEffect ==
    ASSUME FacadeInv, NewMsg, NEW width \in Sizes, ~start_bundle_,
           udp' = Append(udp, [bytes |-> width, msgs |-> <<nmsgs + 1>>]),
           UNCHANGED <<start_bundle_, udp_bundle_, tcp>>
    PROVE  Handover'
<1> DEFINE n == nmsgs + 1
           packet == [bytes |-> width, msgs |-> <<n>>]
<1>1. packet.msgs = <<n>> /\ udp' = Append(udp, packet)
  OBVIOUS
<1>2. packet \in Packet /\ udp \in Seq(Packet)
  <2>1. n \in 1..MaxMsgs
    BY NextNumber DEF FacadeInv
  <2>2. width \in 1..MAX_MESSAGE_SIZE /\ MAX_MESSAGE_SIZE \in Nat
    BY ConstantsOK
  <2>3. width \in Nat
    BY <2>2
  <2> QED
    BY <2>1, <2>3 DEF FacadeInv, TypeOK, Packet, MsgSeq
<1>3. /\ n \in Nat /\ nmsgs' = n /\ 1..nmsgs' = 1..nmsgs \cup {n}
      /\ \A m \in Range(tcp) \cup Messages(udp) \cup Range(udp_bundle_.msgs) :
           m \in Nat /\ m < n
  BY NumbersBelow
<1> HIDE DEF n, packet
<1>4. BundleInv'
  BY DEF FacadeInv, BundleInv
<1>5. Apart'
  <2>1. Range(packet.msgs) = {n} /\ Increasing(packet.msgs)
    BY <1>1, <1>3, FewMessages
  <2>2. Messages(udp') = Messages(udp) \cup {n} /\ InOrder(udp')
    BY <1>1, <1>2, <1>3, <2>1, PacketBehind DEF FacadeInv, Apart
  <2>3. n \notin Range(tcp) /\ Range(udp_bundle_.msgs) = {}
    BY <1>3, FewMessages DEF FacadeInv, BundleInv
  <2> QED
    BY <1>3, <2>2, <2>3 DEF FacadeInv, Apart
<1>6. EmptyInv'
  BY <1>1, <1>2, PacketSent DEF FacadeInv, EmptyInv, Long
<1>7. FitInv'
  <2>1. Len(packet.msgs) = 1
    BY <1>1
  <2>2. Range(udp') = Range(udp) \cup {packet}
    BY <1>1, <1>2, PacketSent
  <2>3. ~(Len(packet.msgs) > 1)
    BY <2>1
  <2> QED
    BY <2>2, <2>3 DEF FacadeInv, FitInv
<1> QED
  BY <1>4, <1>5, <1>6, <1>7 DEF Handover

\* A bundle with messages is sent, and an empty one takes its place.
LEMMA SentEffect ==
    ASSUME FacadeInv, udp_bundle_.bytes > Header,
           udp' = Append(udp, udp_bundle_), udp_bundle_'.msgs = <<>>,
           UNCHANGED <<nmsgs, tcp>>
    PROVE  Apart' /\ EmptyInv' /\ FitInv'
<1>1. udp_bundle_ \in Packet /\ udp \in Seq(Packet)
  BY DEF FacadeInv, TypeOK, Packet
<1>2. udp_bundle_.msgs # <<>>
  BY <1>1 DEF FacadeInv, BundleInv, Packet, Header
<1>3. Apart'
  <2>1. /\ Messages(udp') = Messages(udp) \cup Range(udp_bundle_.msgs)
        /\ InOrder(udp')
    BY <1>1, PacketBehind DEF FacadeInv, Apart
  <2> QED
    BY <2>1, FewMessages DEF FacadeInv, Apart
<1>4. EmptyInv'
  BY <1>1, <1>2, PacketSent DEF FacadeInv, EmptyInv, Long
<1>5. FitInv'
  <2>1. Range(udp') = Range(udp) \cup {udp_bundle_}
    BY <1>1, PacketSent
  <2>2. Len(udp_bundle_'.msgs) = 0
    OBVIOUS
  <2> QED
    BY <2>1, <2>2 DEF FacadeInv, FitInv
<1> QED
  BY <1>3, <1>4, <1>5

\* A bundle without messages is not sent; nothing gets lost with it.
LEMMA KeptEffect ==
    ASSUME FacadeInv, udp_bundle_.msgs = <<>>, udp_bundle_'.msgs = <<>>,
           UNCHANGED <<nmsgs, tcp, udp>>
    PROVE  Apart' /\ EmptyInv' /\ FitInv'
<1>1. udp_bundle_.bytes <= Header /\ udp_bundle_.bytes \in Nat
  BY DEF FacadeInv, TypeOK, BundleInv
<1>2. Apart'
  BY DEF FacadeInv, Apart
<1>3. EmptyInv'
  BY <1>1 DEF FacadeInv, EmptyInv, Long, Header
<1>4. FitInv'
  BY DEF FacadeInv, FitInv
<1> QED
  BY <1>2, <1>3, <1>4

-----------------------------------------------------------------------------
(* Steps of the facade                                                     *)

LEMMA TypeStep ==
    ASSUME TypeOK, [Next]_vars
    PROVE  TypeOK'
<1>1. udp_bundle_ \in Packet /\ udp \in Seq(Packet) /\ udp_bundle_.bytes \in Nat
  BY DEF TypeOK, Packet
<1>2. NoBundle \in Packet /\ EmptyBundle \in Packet
  BY DEF NoBundle, EmptyBundle, Header, Packet, MsgSeq
<1>3. ASSUME NewMsg, SendTCP
      PROVE  nmsgs' \in 0..MaxMsgs /\ tcp' \in MsgSeq /\ UNCHANGED <<udp, udp_bundle_>>
  BY <1>3, NextNumber, ConstantsOK DEF SendTCP, TypeOK, MsgSeq
<1>4. ASSUME NEW width \in Sizes, NewMsg, SendUDP(width)
      PROVE  /\ nmsgs' \in 0..MaxMsgs /\ udp_bundle_' \in Packet /\ udp' \in Seq(Packet)
             /\ UNCHANGED tcp
  <2>1. nmsgs + 1 \in 1..MaxMsgs /\ nmsgs' \in 0..MaxMsgs
    BY <1>4, NextNumber, ConstantsOK
  <2>2. width \in 1..MAX_MESSAGE_SIZE /\ MAX_MESSAGE_SIZE \in Nat
    BY ConstantsOK
  <2>3. Room(width) \in Packet
    BY <1>1, <1>2 DEF Room
  <2>4. [bytes |-> width, msgs |-> <<nmsgs + 1>>] \in Packet
    BY <2>1, <2>2 DEF Packet, MsgSeq
  <2>5. Append(Room(width).msgs, nmsgs + 1) \in MsgSeq
    BY <2>1, <2>3 DEF Packet, MsgSeq
  <2>6. Room(width).bytes + Prefix + width \in Nat
    BY <2>2, <2>3 DEF Packet, Prefix
  <2>7. [bytes |-> Room(width).bytes + Prefix + width,
         msgs |-> Append(Room(width).msgs, nmsgs + 1)] \in Packet
    BY <2>5, <2>6 DEF Packet
  <2>8. CASE start_bundle_
    <3>1. udp_bundle_' \in Packet /\ udp' = IF Full(width) THEN Append(udp, udp_bundle_) ELSE udp
      BY <1>4, <2>7, <2>8 DEF SendUDP, AppendBundle
    <3>2. udp' \in Seq(Packet)
      BY <1>1, <3>1
    <3> QED
      BY <1>4, <2>1, <3>1, <3>2 DEF SendUDP
  <2>9. CASE ~start_bundle_
    <3> DEFINE packet == [bytes |-> width, msgs |-> <<nmsgs + 1>>]
    <3>1. udp' = Append(udp, packet) /\ udp_bundle_' = udp_bundle_
      BY <1>4, <2>9 DEF SendUDP
    <3> HIDE DEF packet
    <3>2. packet \in Packet
      BY <2>4 DEF packet
    <3>3. udp' \in Seq(Packet)
      BY <1>1, <3>1, <3>2
    <3> QED
      BY <1>1, <1>4, <2>1, <3>1, <3>3 DEF SendUDP
  <2> QED
    BY <2>8, <2>9
<1>5. ASSUME NEW width \in Sizes, SendCoreMessage(width) PROVE TypeOK'
  BY <1>3, <1>4, <1>5 DEF SendCoreMessage, TypeOK, Packet
<1>6. ASSUME NEW width \in Sizes \cup {-1}, SendCustomTCP(width) PROVE TypeOK'
  BY <1>3, <1>6 DEF SendCustomTCP, TypeOK
<1>7. ASSUME NEW width \in Sizes \cup {-1}, SendCustomUDP(width) PROVE TypeOK'
  <2>1. width \in Sizes
    BY <1>7 DEF SendCustomUDP, Packed
  <2> QED
    BY <1>4, <1>7, <2>1 DEF SendCustomUDP, TypeOK, Packet
<1>8. CASE StartBundle
  <2>1. udp' \in Seq(Packet)
    BY <1>1, <1>8 DEF StartBundle, StartBundleSends, SentByEnd
  <2> QED
    BY <1>2, <1>8, <2>1 DEF StartBundle, TypeOK, Packet
<1>9. CASE EndBundle
  <2>1. udp' \in Seq(Packet) /\ udp_bundle_' \in Packet
    BY <1>1, <1>2, <1>9 DEF EndBundle, SentByEnd, Ended
  <2> QED
    BY <1>9, <2>1 DEF EndBundle, TypeOK, Packet
<1>10. ASSUME NEW option \in Option, SetOption(option) PROVE TypeOK'
  BY <1>10 DEF SetOption, TypeOK, Packet
<1>11. CASE Destructor
  BY <1>11 DEF Destructor, TypeOK
<1>12. CASE UNCHANGED vars
  BY <1>12 DEF vars, TypeOK
<1> QED
  BY <1>5, <1>6, <1>7, <1>8, <1>9, <1>10, <1>11, <1>12 DEF Next, Terminated

LEMMA EndEffect == ASSUME FacadeInv, EndBundle PROVE Handover'
<1>1. /\ udp' = SentByEnd /\ udp_bundle_' = Ended /\ ~start_bundle_'
      /\ UNCHANGED <<nmsgs, tcp>>
  BY DEF EndBundle
<1>2. udp_bundle_.bytes \in Nat
  BY DEF FacadeInv, TypeOK
<1>3. CASE udp_bundle_.bytes > Header
  <2>1. udp' = Append(udp, udp_bundle_) /\ udp_bundle_' = NoBundle
    BY <1>1, <1>3 DEF SentByEnd, Ended
  <2>2. udp_bundle_'.msgs = <<>> /\ udp_bundle_'.bytes = 0
    BY <2>1 DEF NoBundle
  <2>3. BundleInv'
    BY <1>1, <2>2 DEF BundleInv, Header
  <2> QED
    BY <1>1, <1>3, <2>1, <2>2, <2>3, SentEffect DEF Handover
<1>4. CASE ~(udp_bundle_.bytes > Header)
  <2>1. udp' = udp /\ udp_bundle_' = udp_bundle_
    BY <1>1, <1>4 DEF SentByEnd, Ended
  <2>2. udp_bundle_.msgs = <<>>
    BY <1>2, <1>4 DEF FacadeInv, BundleInv, Header
  <2>3. BundleInv'
    BY <1>1, <2>1, <2>2 DEF FacadeInv, BundleInv
  <2> QED
    BY <1>1, <2>1, <2>2, <2>3, KeptEffect DEF Handover
<1> QED
  BY <1>3, <1>4

LEMMA StartEffect == ASSUME FacadeInv, StartBundle PROVE Handover'
<1>1. /\ udp' = IF start_bundle_ THEN SentByEnd ELSE udp
      /\ udp_bundle_' = EmptyBundle /\ start_bundle_'
      /\ UNCHANGED <<nmsgs, tcp>>
  BY DEF StartBundle, StartBundleSends
<1>2. udp_bundle_'.msgs = <<>> /\ udp_bundle_'.bytes = Header
  BY <1>1 DEF EmptyBundle
<1>3. BundleInv'
  BY <1>1, <1>2 DEF BundleInv, Header
<1>4. udp_bundle_.bytes \in Nat
  BY DEF FacadeInv, TypeOK
<1>5. CASE start_bundle_ /\ udp_bundle_.bytes > Header
  <2>1. udp' = Append(udp, udp_bundle_)
    BY <1>1, <1>5 DEF SentByEnd
  <2> QED
    BY <1>1, <1>2, <1>3, <1>5, <2>1, SentEffect DEF Handover
<1>6. CASE ~(start_bundle_ /\ udp_bundle_.bytes > Header)
  <2>1. udp' = udp
    BY <1>1, <1>6 DEF SentByEnd
  <2>2. udp_bundle_.msgs = <<>>
    BY <1>4, <1>6 DEF FacadeInv, BundleInv, Header
  <2> QED
    BY <1>1, <1>2, <1>3, <2>1, <2>2, KeptEffect DEF Handover
<1> QED
  BY <1>5, <1>6

LEMMA FacadeStep ==
    ASSUME FacadeInv, [Next]_vars
    PROVE  FacadeInv' /\ (EndBundle => start_bundle_ \/ UNCHANGED <<udp, udp_bundle_>>)
<1>1. TypeOK'
  BY TypeStep DEF FacadeInv
<1>2. ASSUME UNCHANGED <<start_bundle_, udp_bundle_, nmsgs, tcp, udp>> PROVE Handover'
  BY <1>2 DEF Handover, FacadeInv, BundleInv, Apart, EmptyInv, Long, FitInv
<1>3. ASSUME NewMsg, SendTCP, UNCHANGED start_bundle_ PROVE Handover'
  BY <1>3, TcpEffect
<1>4. ASSUME NEW width \in Sizes, Handed(width) PROVE Handover'
  <2>1. NewMsg /\ SendUDP(width) /\ UNCHANGED <<start_bundle_, tcp>>
    BY <1>4 DEF Handed, SendUDP
  <2>2. CASE start_bundle_ /\ Full(width)
    BY <2>1, <2>2, OverflowEffect DEF SendUDP
  <2>3. CASE start_bundle_ /\ ~Full(width)
    BY <2>1, <2>3, AppendEffect DEF SendUDP
  <2>4. CASE ~start_bundle_
    BY <2>1, <2>4, DirectEffect DEF SendUDP
  <2> QED
    BY <2>2, <2>3, <2>4
<1>5. Handover'
  BY <1>2, <1>3, <1>4, Effects, EndEffect, StartEffect
<1>6. ASSUME EndBundle, ~start_bundle_ PROVE UNCHANGED <<udp, udp_bundle_>>
  <2>1. udp_bundle_.bytes <= Header /\ udp_bundle_.bytes \in Nat
    BY <1>6 DEF FacadeInv, TypeOK, BundleInv
  <2>2. ~(udp_bundle_.bytes > Header)
    BY <2>1 DEF Header
  <2> QED
    BY <1>6, <2>2 DEF EndBundle, SentByEnd, Ended
<1> QED
  BY <1>1, <1>5, <1>6 DEF FacadeInv, Handover

LEMMA FacadeInvariant == Spec => []FacadeInv
  BY FacadeInit, FacadeStep, PTL DEF Spec

-----------------------------------------------------------------------------
(* tnyosc::Message                                                         *)

MessageByte ==
    {M!Zero, "comma", "tag", "stack", "data"} \cup {address.byte : address \in Addresses}
Tag == {"comma", "tag", "stack"}

\* The cache belongs to the message, or there has never been one, unless the
\* message was changed after it was made.
CacheInv == ~reused => cache_ = <<>> \/ is_cached_
MessageInv == M!TypeOK /\ M!ReadersSeeTheMessage /\ CacheInv

LEMMA BytesAre ==
    ASSUME NEW S, NEW byte \in S, NEW n \in Nat
    PROVE  M!Bytes(byte, n) \in Seq(S) /\ Len(M!Bytes(byte, n)) = n
  BY DEF M!Bytes

\* One sequence behind another, which has the length n.
IsBehind(both, q, n, r) ==
    /\ Len(both) = n + Len(r)
    /\ \A x \in 1..(n + Len(r)) : both[x] = IF x <= n THEN q[x] ELSE r[x - n]

LEMMA Behind ==
    ASSUME NEW S, NEW q \in Seq(S), NEW r \in Seq(S), NEW n \in Nat, Len(q) = n
    PROVE  q \o r \in Seq(S) /\ IsBehind(q \o r, q, n, r)
  BY DEF IsBehind

\* Both forms of the padding: the code adds what is missing, OSC rounds up.
LEMMA PaddingIs ==
    ASSUME NEW n \in Nat
    PROVE  /\ M!Pad(n) \in 1..4 /\ M!Pad(n) % 4 \in Nat
           /\ n + M!Pad(n) = 4 * (n \div 4 + 1)
           /\ 4 * (n \div 4 + 1) - n \in Nat
<1>1. n = 4 * (n \div 4) + (n % 4) /\ n % 4 \in 0..3 /\ n \div 4 \in Nat
  OBVIOUS
<1>2. M!Pad(n) \in 1..4 /\ n + M!Pad(n) = 4 * (n \div 4 + 1)
  BY <1>1 DEF M!Pad
<1>3. \A p \in 1..4 : p % 4 \in Nat
  OBVIOUS
<1> QED
  BY <1>1, <1>2, <1>3

\* An OSC-string: the bytes, and zeros behind them.
LEMMA OscStringIs ==
    ASSUME NEW q \in Seq(MessageByte)
    PROVE  /\ M!OscString(q) \in Seq(MessageByte)
           /\ Len(M!OscString(q)) = Len(q) + M!Pad(Len(q))
           /\ \A x \in 1..Len(M!OscString(q)) :
                M!OscString(q)[x] = IF x <= Len(q) THEN q[x] ELSE M!Zero
<1> DEFINE n == 4 * (Len(q) \div 4 + 1) - Len(q)
           zeros == M!Bytes(M!Zero, n)
<1>1. n \in Nat /\ n = M!Pad(Len(q)) /\ Len(q) \in Nat
  <2>1. Len(q) \in Nat
    OBVIOUS
  <2>2. /\ M!Pad(Len(q)) \in 1..4 /\ n \in Nat
        /\ Len(q) + M!Pad(Len(q)) = 4 * (Len(q) \div 4 + 1)
    BY <2>1, PaddingIs
  <2>3. \A total \in Int : Len(q) + M!Pad(Len(q)) = total => total - Len(q) = M!Pad(Len(q))
    BY <2>1, <2>2
  <2>4. Len(q) + M!Pad(Len(q)) \in Int
    BY <2>1, <2>2
  <2> QED
    BY <2>1, <2>2, <2>3, <2>4
<1>2. M!OscString(q) = q \o zeros
  BY DEF M!OscString
<1> HIDE DEF n
<1>3. M!Zero \in MessageByte
  BY DEF MessageByte
<1>4. zeros \in Seq(MessageByte) /\ Len(zeros) = n
  BY <1>1, <1>3, BytesAre
<1>5. \A x \in 1..n : zeros[x] = M!Zero
  BY DEF M!Bytes
<1> HIDE DEF zeros
<1>6. /\ q \o zeros \in Seq(MessageByte) /\ Len(q \o zeros) = Len(q) + n
      /\ \A x \in 1..(Len(q) + n) :
           (q \o zeros)[x] = IF x <= Len(q) THEN q[x] ELSE zeros[x - Len(q)]
  BY <1>1, <1>4
<1>7. \A x \in 1..(Len(q) + n) : x <= Len(q) \/ x - Len(q) \in 1..n
  BY <1>1
<1> QED
  BY <1>1, <1>2, <1>5, <1>6, <1>7

\* The room for the address and for the tags.
LEMMA RoomIs ==
    ASSUME M!TypeOK
    PROVE  /\ M!addr_len \in Nat /\ M!types_len \in Nat
           /\ M!AddressBytes \in Seq(MessageByte) /\ types_ \in Seq(MessageByte)
           /\ Len(types_) \in Nat /\ M!types_len = Len(types_) + M!Pad(Len(types_))
           /\ address_ # M!NoAddress =>
                M!addr_len = Len(M!AddressBytes) + M!Pad(Len(M!AddressBytes))
<1>1. address_.byte \in MessageByte /\ address_.len \in Nat
  BY SequentialOK DEF M!TypeOK, M!TnyOscOK, M!NoAddress, MessageByte
<1>2. M!AddressBytes \in Seq(MessageByte) /\ Len(M!AddressBytes) = address_.len
  BY <1>1, BytesAre DEF M!AddressBytes
<1>3. M!addr_len \in Nat
  <2>1. \A m \in Nat : m + M!Pad(m) \in Nat
    <3> TAKE m \in Nat
    <3>1. M!Pad(m) \in 1..4
      BY PaddingIs
    <3> QED
      BY <3>1
  <2> QED
    BY <1>1, <2>1 DEF M!addr_len
<1>4. types_ \in Seq(MessageByte) /\ Len(types_) \in Nat
  <2>1. Tag \subseteq MessageByte
    BY DEF MessageByte, Tag
  <2> QED
    BY <2>1, SeqMonotonic DEF M!TypeOK, Tag
<1>5. M!types_len \in Nat
  <2>1. M!Pad(Len(types_)) \in 1..4
    BY <1>4, PaddingIs
  <2> QED
    BY <1>4, <2>1 DEF M!types_len
<1> QED
  BY <1>2, <1>3, <1>4, <1>5 DEF M!addr_len, M!types_len

\* A message with an address, in OSC's words, byte for byte.
LEMMA OscMessageIs ==
    ASSUME M!TypeOK, address_ # M!NoAddress
    PROVE  LET head == M!addr_len
               tags == M!types_len
               Shown == M!AddressBytes
           IN  /\ Shown \in Seq(MessageByte) /\ head = Len(Shown) + M!Pad(Len(Shown))
               /\ Len(M!OscString(Shown)) = head /\ Len(M!OscString(types_)) = tags
               /\ head \in Nat /\ tags \in Nat /\ Len(Shown) < head /\ Len(types_) < tags
               /\ Len(M!OscMessage) = head + tags + Len(data_)
               /\ \A x \in 1..Len(M!OscMessage) :
                    M!OscMessage[x] =
                      IF x <= head THEN (IF x <= Len(Shown) THEN Shown[x] ELSE M!Zero)
                      ELSE IF x <= head + tags
                      THEN (IF x - head <= Len(types_) THEN types_[x - head] ELSE M!Zero)
                      ELSE data_[x - head - tags]
<1> DEFINE head == M!addr_len
           tags == M!types_len
           Shown == M!AddressBytes
<1>1. types_ \in Seq(MessageByte) /\ data_ \in Seq(MessageByte)
  <2>1. {M!Zero, "data"} \subseteq MessageByte
    BY DEF MessageByte
  <2> QED
    BY <2>1, RoomIs, SeqMonotonic DEF M!TypeOK
<1>2. Shown \in Seq(MessageByte) /\ head = Len(Shown) + M!Pad(Len(Shown))
  BY RoomIs
<1>3. tags = Len(types_) + M!Pad(Len(types_))
  BY DEF M!types_len
<1>4. M!OscMessage = M!OscString(Shown) \o M!OscString(types_) \o data_
  BY DEF M!OscMessage
<1> DEFINE p == M!OscString(Shown)
           q == M!OscString(types_)
<1>5. /\ p \in Seq(MessageByte) /\ Len(p) = head /\ q \in Seq(MessageByte) /\ Len(q) = tags
      /\ \A x \in 1..head : p[x] = IF x <= Len(Shown) THEN Shown[x] ELSE M!Zero
      /\ \A x \in 1..tags : q[x] = IF x <= Len(types_) THEN types_[x] ELSE M!Zero
  BY <1>1, <1>2, <1>3, OscStringIs
<1>6. /\ head \in Nat /\ tags \in Nat /\ Len(Shown) < head /\ Len(types_) < tags
      /\ Len(data_) \in Nat
  <2>1. Len(Shown) \in Nat /\ Len(types_) \in Nat /\ Len(data_) \in Nat
    BY <1>1, <1>2
  <2>2. M!Pad(Len(Shown)) \in 1..4 /\ M!Pad(Len(types_)) \in 1..4
    BY <2>1, PaddingIs
  <2> QED
    BY <1>2, <1>3, <2>1, <2>2
<1> HIDE DEF p, q, head, tags, Shown
<1>7. /\ Len(p \o q \o data_) = head + tags + Len(data_)
      /\ \A x \in 1..(head + tags + Len(data_)) :
           (p \o q \o data_)[x] = IF x <= head THEN p[x]
                                  ELSE IF x <= head + tags THEN q[x - head]
                                  ELSE data_[x - head - tags]
  <2> DEFINE r == p \o q
  <2>1. /\ r \in Seq(MessageByte) /\ Len(r) = head + tags
        /\ \A x \in 1..(head + tags) : r[x] = IF x <= head THEN p[x] ELSE q[x - head]
    <3>1. p \in Seq(MessageByte) /\ q \in Seq(MessageByte) /\ head \in Nat
          /\ Len(p) = head /\ Len(q) = tags
      BY <1>5, <1>6
    <3>2. r \in Seq(MessageByte) /\ IsBehind(r, p, head, q)
      BY <3>1, Behind
    <3> HIDE DEF r
    <3> QED
      BY <3>1, <3>2 DEF IsBehind
  <2> HIDE DEF r
  <2>2. /\ Len(r \o data_) = head + tags + Len(data_)
        /\ \A x \in 1..(head + tags + Len(data_)) :
             (r \o data_)[x] = IF x <= head + tags THEN r[x] ELSE data_[x - (head + tags)]
    <3>1. head + tags \in Nat
      BY <1>6
    <3>2. IsBehind(r \o data_, r, head + tags, data_)
      BY <1>1, <2>1, <3>1, Behind
    <3> QED
      BY <3>2 DEF IsBehind
  <2>3. \A x \in Int : x - (head + tags) = x - head - tags
    BY <1>6
  <2>4. \A x \in 1..(head + tags + Len(data_)) :
          /\ x <= head + tags => x \in 1..(head + tags)
          /\ x <= head => x <= head + tags
          /\ x \in Int
    BY <1>6
  <2> QED
    BY <2>1, <2>2, <2>3, <2>4 DEF r
<1>8. \A x \in 1..(head + tags + Len(data_)) :
        /\ x <= head => x \in 1..head
        /\ ~(x <= head) /\ x <= head + tags => x - head \in 1..tags
  BY <1>6
<1>9. M!OscMessage = p \o q \o data_
  BY <1>4 DEF p, q
<1>10. \A x \in 1..Len(M!OscMessage) :
         M!OscMessage[x] =
           IF x <= head THEN (IF x <= Len(Shown) THEN Shown[x] ELSE M!Zero)
           ELSE IF x <= head + tags
           THEN (IF x - head <= Len(types_) THEN types_[x - head] ELSE M!Zero)
           ELSE data_[x - head - tags]
  BY <1>5, <1>7, <1>8, <1>9
<1> QED
  BY <1>2, <1>5, <1>6, <1>7, <1>9, <1>10 DEF head, tags, p, q, Shown

\* Copying into a vector that is long enough.
IsCopied(copy, source, bytes, at, n) ==
    /\ copy \in [1..n -> MessageByte]
    /\ \A x \in 1..n :
         copy[x] = IF at < x /\ x - at <= Len(source) THEN source[x - at] ELSE bytes[x]

LEMMA CopiedIs ==
    ASSUME NEW n \in Nat, NEW bytes \in [1..n -> MessageByte],
           NEW source \in Seq(MessageByte), NEW at \in Nat
    PROVE  IsCopied(M!Copied(source, bytes, at), source, bytes, at, n)
<1>1. \A x \in 1..n : x - at \in DOMAIN source <=> at < x /\ x - at <= Len(source)
  OBVIOUS
<1>2. \A x \in 1..n : at < x /\ x - at <= Len(source) => source[x - at] \in MessageByte
  OBVIOUS
<1> QED
  BY <1>1, <1>2 DEF M!Copied, IsCopied

\* The bytes that create_cache makes.
LEMMA CacheIs ==
    ASSUME M!TypeOK, NEW head, NEW tags, head = M!addr_len, tags = M!types_len
    PROVE  LET n == head + tags + Len(data_)
           IN  /\ M!create_cache \in [1..n -> MessageByte]
               /\ \A x \in 1..n :
                    M!create_cache[x] =
                      IF head + tags < x THEN data_[x - head - tags]
                      ELSE IF head < x /\ x - head <= Len(types_) THEN types_[x - head]
                      ELSE IF x <= Len(M!AddressBytes) THEN M!AddressBytes[x]
                      ELSE IF x <= Len(cache_) THEN cache_[x] ELSE M!Zero
<1> DEFINE n == head + tags + Len(data_)
           room == M!Resized(cache_, n)
           one == M!Copied(M!AddressBytes, room, 0)
           two == M!Copied(types_, one, head)
<1>1. /\ types_ \in Seq(MessageByte) /\ data_ \in Seq(MessageByte)
      /\ cache_ \in Seq(MessageByte) /\ M!Zero \in MessageByte
  <2>1. Tag \subseteq MessageByte /\ {M!Zero, "data"} \subseteq MessageByte
    BY DEF MessageByte, Tag
  <2> QED
    BY <2>1, SeqMonotonic DEF M!TypeOK, Tag, MessageByte
<1>2. M!AddressBytes \in Seq(MessageByte)
  BY RoomIs
<1>3. head \in Nat /\ tags \in Nat /\ n \in Nat /\ head + tags \in Nat
  <2>1. head \in Nat /\ tags \in Nat
    BY RoomIs
  <2> QED
    BY <1>1, <2>1
<1>4. M!create_cache = M!Copied(data_, two, head + tags)
  BY DEF M!create_cache
<1> HIDE DEF n
<1>5. /\ room \in [1..n -> MessageByte]
      /\ \A x \in 1..n : room[x] = IF x <= Len(cache_) THEN cache_[x] ELSE M!Zero
  <2>1. \A x \in 1..n : x <= Len(cache_) => cache_[x] \in MessageByte
    BY <1>1, <1>3
  <2> QED
    BY <1>1, <1>3, <2>1 DEF M!Resized
<1> HIDE DEF room
<1>6. /\ one \in [1..n -> MessageByte]
      /\ \A x \in 1..n :
           one[x] = IF 0 < x /\ x - 0 <= Len(M!AddressBytes) THEN M!AddressBytes[x - 0]
                    ELSE room[x]
  <2>1. M!AddressBytes \in Seq(MessageByte) /\ n \in Nat /\ room \in [1..n -> MessageByte]
    BY <1>2, <1>3, <1>5
  <2>2. IsCopied(one, M!AddressBytes, room, 0, n)
    BY <2>1, CopiedIs
  <2> HIDE DEF one
  <2> QED
    BY <2>2 DEF IsCopied
<1> HIDE DEF one
<1>7. /\ two \in [1..n -> MessageByte]
      /\ \A x \in 1..n :
           two[x] = IF head < x /\ x - head <= Len(types_) THEN types_[x - head] ELSE one[x]
  <2>1. types_ \in Seq(MessageByte) /\ head \in Nat /\ n \in Nat /\ one \in [1..n -> MessageByte]
    BY <1>1, <1>3, <1>6
  <2>2. IsCopied(two, types_, one, head, n)
    BY <2>1, CopiedIs
  <2> HIDE DEF two
  <2> QED
    BY <2>2 DEF IsCopied
<1> HIDE DEF two
<1>8. /\ M!create_cache \in [1..n -> MessageByte]
      /\ \A x \in 1..n :
           M!create_cache[x] =
             IF head + tags < x /\ x - (head + tags) <= Len(data_) THEN data_[x - (head + tags)]
             ELSE two[x]
  <2>1. /\ data_ \in Seq(MessageByte) /\ head + tags \in Nat /\ n \in Nat
        /\ two \in [1..n -> MessageByte]
    BY <1>1, <1>3, <1>7
  <2>2. IsCopied(M!create_cache, data_, two, head + tags, n)
    BY <1>4, <2>1, CopiedIs
  <2> QED
    BY <2>2 DEF IsCopied
<1>9. \A x \in 1..n :
        /\ 0 < x /\ x - 0 = x
        /\ head + tags < x => x - (head + tags) <= Len(data_)
        /\ x - (head + tags) = x - head - tags
  BY <1>1, <1>3 DEF n
<1>10. \A x \in 1..n :
         M!create_cache[x] =
           IF head + tags < x THEN data_[x - head - tags]
           ELSE IF head < x /\ x - head <= Len(types_) THEN types_[x - head]
           ELSE IF x <= Len(M!AddressBytes) THEN M!AddressBytes[x]
           ELSE IF x <= Len(cache_) THEN cache_[x] ELSE M!Zero
  BY <1>5, <1>6, <1>7, <1>8, <1>9
<1> QED
  BY <1>8, <1>10 DEF n

LEMMA MessageInit == M!Init => MessageInv
<1> SUFFICES ASSUME M!Init PROVE MessageInv
  OBVIOUS
<1>1. <<"comma">> \in Seq(Tag) /\ <<>> \in Seq({M!Zero, "data"}) /\ <<>> \in Seq(MessageByte)
  BY DEF Tag
<1> QED
  BY <1>1 DEF M!Init, MessageInv, M!TypeOK, M!ReadersSeeTheMessage, CacheInv, MessageByte, Tag

\* Tags and their bytes.
LEMMA TypedStep ==
    ASSUME MessageInv, NEW tags \in Seq(Tag), NEW bytes \in Seq({M!Zero, "data"}),
           M!Typed(tags, bytes)
    PROVE  MessageInv'
<1>1. types_' \in Seq(Tag) /\ data_' \in Seq({M!Zero, "data"})
  BY DEF M!Typed, MessageInv, M!TypeOK, Tag
<1> QED
  BY <1>1 DEF M!Typed, M!Changed, M!Outdated, MessageInv, M!TypeOK,
              M!ReadersSeeTheMessage, CacheInv, Tag

\* The bytes of the appended argument.
LEMMA AppendStep ==
    ASSUME MessageInv, NEW n \in Nat,
           \/ M!append(n) \/ M!append_string(n) \/ M!append_cstring(n)
           \/ M!append_blob(n) \/ M!append_array(n)
    PROVE  MessageInv'
<1> DEFINE Data == {M!Zero, "data"}
<1>1. M!Pad(n) \in Nat /\ M!Pad(n) % 4 \in Nat /\ 4 + n \in Nat
  BY PaddingIs
<1>2. /\ M!Bytes("data", n) \in Seq(Data) /\ M!Bytes("data", 4 + n) \in Seq(Data)
      /\ M!Bytes(M!Zero, M!Pad(n)) \in Seq(Data) /\ M!Bytes(M!Zero, M!Pad(n) % 4) \in Seq(Data)
  BY <1>1, BytesAre
<1>3. /\ M!Bytes("data", n) \o M!Bytes(M!Zero, M!Pad(n)) \in Seq(Data)
      /\ M!Bytes("data", 4 + n) \o M!Bytes(M!Zero, M!Pad(n) % 4) \in Seq(Data)
      /\ <<>> \in Seq(Data)
  BY <1>2
<1>4. <<"tag">> \in Seq(Tag) /\ <<"tag">> \o M!Bytes("stack", n) \o <<"tag">> \in Seq(Tag)
  <2>1. <<"tag">> \in Seq(Tag)
    BY DEF Tag
  <2>2. M!Bytes("stack", n) \in Seq(Tag)
    BY BytesAre DEF Tag
  <2> QED
    BY <2>1, <2>2
<1>5. CASE M!append(n)
  BY <1>2, <1>4, <1>5, TypedStep DEF M!append
<1>6. CASE M!append_string(n) \/ M!append_cstring(n)
  BY <1>3, <1>4, <1>6, TypedStep DEF M!append_string, M!append_cstring
<1>7. CASE M!append_blob(n)
  BY <1>3, <1>4, <1>7, TypedStep DEF M!append_blob
<1>8. CASE M!append_array(n)
  BY <1>3, <1>4, <1>8, TypedStep DEF M!append_array
<1> QED
  BY <1>5, <1>6, <1>7, <1>8

\* A reader that finds the cache outdated.
LEMMA ReadStep == ASSUME MessageInv, M!byte_array, ~is_cached_ PROVE MessageInv'
<1> DEFINE head == M!addr_len
           tags == M!types_len
           Shown == M!AddressBytes
           n == head + tags + Len(data_)
<1>1. M!TypeOK /\ cache_' = M!create_cache /\ is_cached_' /\ UNCHANGED <<address_, types_, data_, reused>>
  BY DEF MessageInv, M!byte_array
<1>2. /\ cache_' \in [1..n -> MessageByte]
      /\ \A x \in 1..n :
           cache_'[x] =
             IF head + tags < x THEN data_[x - head - tags]
             ELSE IF head < x /\ x - head <= Len(types_) THEN types_[x - head]
             ELSE IF x <= Len(Shown) THEN Shown[x]
             ELSE IF x <= Len(cache_) THEN cache_[x] ELSE M!Zero
  BY <1>1, CacheIs
<1>3. n \in Nat /\ Len(data_) \in Nat /\ Len(types_) \in Nat /\ Len(Shown) \in Nat
  <2>1. head \in Nat /\ tags \in Nat /\ Shown \in Seq(MessageByte)
    BY <1>1, RoomIs
  <2> QED
    BY <1>1, <2>1 DEF M!TypeOK
<1>4. cache_' \in Seq(MessageByte) /\ Len(cache_') = n /\ DOMAIN cache_' = 1..n
  <2> HIDE DEF n
  <2> QED
    BY <1>2, <1>3
<1>5. M!TypeOK'
  BY <1>1, <1>4 DEF M!TypeOK, MessageByte
<1>6. ~reused => cache_ = <<>>
  BY DEF MessageInv, CacheInv
<1>7. ASSUME M!IsMessage
      PROVE  /\ Len(M!OscMessage) = n
             /\ \A x \in 1..n : cache_'[x] # M!OscMessage[x] => reused /\ x \in M!Ends
  <2>1. /\ head \in Nat /\ tags \in Nat /\ Len(Shown) < head /\ Len(types_) < tags
        /\ Len(M!OscString(Shown)) = head /\ Len(M!OscString(types_)) = tags
        /\ Len(M!OscMessage) = n
        /\ \A x \in 1..Len(M!OscMessage) :
             M!OscMessage[x] =
               IF x <= head THEN (IF x <= Len(Shown) THEN Shown[x] ELSE M!Zero)
               ELSE IF x <= head + tags
               THEN (IF x - head <= Len(types_) THEN types_[x - head] ELSE M!Zero)
               ELSE data_[x - head - tags]
    BY <1>1, <1>7, OscMessageIs DEF M!IsMessage
  <2>2. M!Ends = ((Len(Shown) + 1)..head) \cup ((head + Len(types_) + 1)..(head + tags))
    BY <2>1 DEF M!Ends
  <2>3. ASSUME NEW x \in 1..n
        PROVE  cache_'[x] # M!OscMessage[x] => reused /\ x \in M!Ends
    <3> HIDE DEF head, tags, Shown
    <3>1. x \in Nat /\ x > 0 /\ x \in 1..Len(M!OscMessage)
      BY <1>3, <2>1
    <3>2. ~reused => ~(x <= Len(cache_))
      BY <1>6, <3>1
    <3>3. CASE head + tags < x
      <4>1. ~(x <= head) /\ ~(x <= head + tags)
        BY <2>1, <3>1, <3>3
      <4> QED
        BY <1>2, <2>1, <3>1, <3>3, <4>1
    <3>4. CASE head < x /\ ~(head + tags < x)
      <4>1. ~(x <= head) /\ x <= head + tags /\ ~(x <= Len(Shown))
        BY <1>3, <2>1, <3>1, <3>4
      <4>2. ~(x - head <= Len(types_)) => x \in (head + Len(types_) + 1)..(head + tags)
        BY <1>3, <2>1, <3>1, <4>1
      <4> HIDE DEF n
      <4>3. M!OscMessage[x] = IF x - head <= Len(types_) THEN types_[x - head] ELSE M!Zero
        BY <2>1, <3>1, <4>1
      <4>4. cache_'[x] = IF x - head <= Len(types_) THEN types_[x - head]
                         ELSE IF x <= Len(cache_) THEN cache_[x] ELSE M!Zero
        BY <1>2, <3>4, <4>1
      <4> QED
        BY <2>2, <3>2, <4>2, <4>3, <4>4
    <3>5. CASE x <= head
      <4>1. ~(head + tags < x) /\ ~(head < x)
        BY <2>1, <3>1, <3>5
      <4>2. ~(x <= Len(Shown)) => x \in (Len(Shown) + 1)..head
        BY <1>3, <2>1, <3>1, <3>5
      <4> HIDE DEF n
      <4>3. M!OscMessage[x] = IF x <= Len(Shown) THEN Shown[x] ELSE M!Zero
        BY <2>1, <3>1, <3>5
      <4>4. cache_'[x] = IF x <= Len(Shown) THEN Shown[x]
                         ELSE IF x <= Len(cache_) THEN cache_[x] ELSE M!Zero
        BY <1>2, <4>1
      <4> QED
        BY <2>2, <3>2, <4>2, <4>3, <4>4
    <3> QED
      BY <2>1, <3>1, <3>3, <3>4, <3>5
  <2> QED
    BY <2>1, <2>3
<1>8. M!OscMessage' = M!OscMessage /\ M!Ends' = M!Ends /\ M!IsMessage' = M!IsMessage
  BY <1>1 DEF M!OscMessage, M!AddressBytes, M!Ends, M!IsMessage
<1>9. M!ReadersSeeTheMessage'
  <2> HIDE DEF n
  <2> QED
    BY <1>1, <1>4, <1>7, <1>8 DEF M!ReadersSeeTheMessage
<1> QED
  BY <1>1, <1>5, <1>9 DEF MessageInv, CacheInv

LEMMA MessageStep ==
    ASSUME MessageInv, [M!Next]_(M!vars)
    PROVE  MessageInv'
<1>1. ASSUME NEW n \in {0, 4, 8} \cup Strings,
             \/ M!append(n) \/ M!append_string(n) \/ M!append_cstring(n)
             \/ M!append_blob(n) \/ M!append_array(n)
      PROVE  MessageInv'
  <2>1. n \in Nat
    BY SequentialOK DEF M!TnyOscOK
  <2> QED
    BY <1>1, <2>1, AppendStep
<1>2. ASSUME NEW address \in Addresses \cup {M!NoAddress}, M!set_address(address)
      PROVE  MessageInv'
  BY <1>2 DEF M!set_address, M!Changed, M!Outdated, MessageInv, M!TypeOK,
              M!ReadersSeeTheMessage, CacheInv
<1>3. CASE M!clear
  <2>1. <<>> \in Seq({"comma", "tag", "stack"}) /\ <<>> \in Seq({M!Zero, "data"})
    OBVIOUS
  <2> QED
    BY <1>3, <2>1 DEF M!clear, M!Changed, M!Outdated, MessageInv, M!TypeOK,
                      M!ReadersSeeTheMessage, CacheInv
<1>4. CASE M!byte_array /\ is_cached_
  BY <1>4 DEF M!byte_array, MessageInv, M!TypeOK, M!ReadersSeeTheMessage, CacheInv,
              M!OscMessage, M!AddressBytes, M!IsMessage, M!Ends
<1>5. CASE M!byte_array /\ ~is_cached_
  BY <1>5, ReadStep
<1>6. CASE UNCHANGED M!vars
  BY <1>6 DEF M!vars, MessageInv, M!TypeOK, M!ReadersSeeTheMessage, CacheInv,
              M!OscMessage, M!AddressBytes, M!IsMessage, M!Ends
<1> QED
  BY <1>1, <1>2, <1>3, <1>4, <1>5, <1>6 DEF M!Next

LEMMA MessageInvariant == M!Spec => []MessageInv
  BY MessageInit, MessageStep, PTL DEF M!Spec

-----------------------------------------------------------------------------
(* All parts                                                               *)

\* Each part runs as if it were alone.
THEOREM PartsAreApart == SequentialSpec => Spec /\ O!Spec /\ M!Spec /\ C!Spec
<1>1. SequentialInit => Init /\ O!Init /\ M!Init /\ C!Init
  BY DEF SequentialInit
<1>2. [SequentialNext]_sequentialVars =>
        [Next]_vars /\ [O!Next]_(O!vars) /\ [M!Next]_(M!vars) /\ [C!Next]_(C!vars)
  BY DEF SequentialNext, sequentialVars, oscVars, messageVars, toolVars,
         O!vars, O!input, M!vars, C!vars, C!global
<1> QED
  BY <1>1, <1>2, PTL DEF SequentialSpec, Spec, O!Spec, M!Spec, C!Spec

\* Whatever is called in whatever order, with bundles that are full, not
\* ended or started twice: no message is lost, doubled or overtaken.
THEOREM MessagesOnceInOrder == SequentialSpec => []EveryMessageOnce
<1>1. FacadeInv => EveryMessageOnce
  BY Apartness DEF FacadeInv
<1> QED
  BY PartsAreApart, FacadeInvariant, <1>1, PTL

\* For any limit and any sizes, a packet of several messages is at most four
\* bytes too long.
THEOREM OverrunStaysBounded == SequentialSpec => []OverrunBounded
<1>1. FacadeInv => OverrunBounded
  <2> SUFFICES ASSUME FacadeInv PROVE OverrunBounded
    OBVIOUS
  <2>1. udp \in Seq(Packet) /\ udp_bundle_ \in Packet
    BY DEF FacadeInv, TypeOK, Packet
  <2>2. Range(Queue) = Range(udp) \cup {udp_bundle_}
    <3>1. /\ DOMAIN Queue = 1..(Len(udp) + 1) /\ DOMAIN udp = 1..Len(udp) /\ Len(udp) \in Nat
          /\ \A x \in 1..Len(udp) : Queue[x] = udp[x]
          /\ Queue[Len(udp) + 1] = udp_bundle_
      BY <2>1 DEF Queue
    <3> QED
      BY <3>1 DEF Range
  <2> QED
    BY <2>2 DEF FacadeInv, FitInv, OverrunBounded
<1> QED
  BY PartsAreApart, FacadeInvariant, <1>1, PTL

\* An empty bundle is sent in front of a message that is too long, only.
THEOREM EmptyBundlesAreRare == SequentialSpec => []EmptyOnlyBeforeLarge
<1>1. FacadeInv => EmptyOnlyBeforeLarge
  <2> SUFFICES ASSUME FacadeInv, NEW x \in DOMAIN udp, udp[x].msgs = <<>>
               PROVE  Long(Queue[x + 1])
    BY DEF EmptyOnlyBeforeLarge, Long
  <2>1. udp \in Seq(Packet) /\ udp_bundle_ \in Packet
    BY DEF FacadeInv, TypeOK, Packet
  <2>2. /\ x \in 1..Len(udp) /\ Len(udp) \in Nat
        /\ Queue[x + 1] = IF x < Len(udp) THEN udp[x + 1] ELSE udp_bundle_
    BY <2>1 DEF Queue
  <2> QED
    BY <2>2 DEF FacadeInv, EmptyInv
<1> QED
  BY PartsAreApart, FacadeInvariant, <1>1, PTL

\* EndBundle without a StartBundle does nothing.
THEOREM StrayEndsAreIgnored == SequentialSpec => StrayEndIsIgnored
<1>1. FacadeInv /\ [Next]_vars => [EndBundle => start_bundle_]_<<udp, udp_bundle_>>
  BY FacadeStep
<1> QED
  BY PartsAreApart, FacadeInvariant, <1>1, PTL DEF Spec, StrayEndIsIgnored

\* voscpack counts as many bytes as it writes, whatever it packs.
THEOREM SizeStaysWritten == SequentialSpec => []SizeIsWritten
<1>1. PackInv => SizeIsWritten
  BY DEF PackInv, SizeIsWritten
<1> QED
  BY PartsAreApart, PackInvariant, <1>1, PTL

\* For any lengths and any number of arguments: voscpack returns the size of
\* the OSC message, and refuses it exactly if the address or any tag is not
\* supported.
THEOREM ReturnedSizeIsOsc == SequentialSpec => []ReturnsOscSize
<1>1. PackInv => ReturnsOscSize
  BY DEF PackInv, ReturnsOscSize
<1> QED
  BY PartsAreApart, PackInvariant, <1>1, PTL

\* voscpack's assertion never fails: the size it is about to return is a
\* multiple of four.
THEOREM SizeStaysAligned == SequentialSpec => []O!AssertionHolds
  BY PartsAreApart, PackInvariant, SizeIsAligned, PTL

\* For a message that is packed: by how much the size of oscsize is wrong.
THEOREM SizersApart == SequentialSpec => []O!SizersDiffer
  BY PartsAreApart, PackInvariant, SizersAre, PTL

\* So a buffer of oscsize's bytes is too small for every message that has no
\* number of four bytes in it.
THEOREM OscSizeIsTooSmall ==
    SequentialSpec =>
        [](/\ step = "done" /\ result # -1
           /\ \A x \in DOMAIN args : args[x].tag \notin {"i", "f", "c"}
           => O!OscSize < result)
  BY PartsAreApart, PackInvariant, EstimateIsSmall, PTL

\* oscsize refuses what voscpack refuses, wherever in the format it is.
THEOREM SizersAgree == SequentialSpec => []SizersRefuseAlike
<1>1. PackInv => SizersRefuseAlike
  BY RefuseAlike DEF SizersRefuseAlike
<1> QED
  BY PartsAreApart, PackInvariant, <1>1, PTL

\* For any arguments: the tool starts with the address, the host and the
\* protocol that were given last, and crashes only if an option is at the end.
THEOREM ArgumentsAreTakenInOrder == SequentialSpec => []ArgumentsAreTaken
<1>1. ToolInv => ArgumentsAreTaken
  BY TakenIsEnough DEF ToolInv, ArgumentsAreTaken
<1> QED
  BY PartsAreApart, ToolInvariant, <1>1, PTL

\* For lines of any length: the commands in front of the first mistake are
\* sent, once and in order, and no other.
THEOREM CommandsAreSentOnce == SequentialSpec => []CommandsAreSent
<1>1. ToolInv => CommandsAreSent
  BY DEF ToolInv, SentInv, CommandsAreSent
<1> QED
  BY PartsAreApart, ToolInvariant, <1>1, PTL

\* For any addresses and any lengths of strings, blobs and arrays: whoever
\* reads a Message that has an address and a comma is given its size and its
\* address, tags and arguments as they are now, each in its place; zeros as
\* well until it is changed after it was read, and then all but those which end
\* its address and its tags.
THEOREM MessageIsInPlace == SequentialSpec => []ReadersSeeTheMessage
<1>1. MessageInv => ReadersSeeTheMessage
  BY DEF MessageInv, ReadersSeeTheMessage
<1> QED
  BY PartsAreApart, MessageInvariant, <1>1, PTL

\* All state stays of its type, for any constants.
THEOREM SequentialTypeCorrect == SequentialSpec => []SequentialTypeOK
<1>1. FacadeInv /\ PackInv /\ MessageInv /\ ToolInv => SequentialTypeOK
  BY DEF FacadeInv, PackInv, MessageInv, ToolInv, SequentialTypeOK
<1> QED
  BY PartsAreApart, FacadeInvariant, PackInvariant, MessageInvariant, ToolInvariant, <1>1, PTL
=============================================================================
