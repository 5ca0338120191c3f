------------------------- MODULE AssetManagerClient -------------------------
(***************************************************************************)
(* am::AssetManagerClient: which of the two clients a message is handed    *)
(* to, and how UDP messages are gathered into bundles.  One thread calls   *)
(* it, so an operation is one step.  Messages are numbered by the calls    *)
(* that made them, and only their size in bytes is kept; the same calls    *)
(* are made to TCPClient::Send and UDPClient::Send as in the code, and     *)
(* what those do is in TcpClient and UdpClient.                            *)
(***************************************************************************)
EXTENDS Integers, Sequences, Functions

CONSTANTS
    MaxMsgs,           \* bound on the number of messages
    MAX_MESSAGE_SIZE,  \* bytes of the largest packet, 1500 in the library
    Sizes              \* sizes that messages come in

ASSUME ConstantsOK ==
    /\ MaxMsgs \in Nat /\ MAX_MESSAGE_SIZE \in Nat \ {0}
    /\ Sizes \subseteq 1..MAX_MESSAGE_SIZE

CORE_USE_UDP == "CORE_USE_UDP"
Option == {CORE_USE_UDP}

VARIABLES
    options_,        \* the options that are set
    start_bundle_,   \* between StartBundle and EndBundle
    udp_bundle_,     \* the bundle being filled
    nmsgs,           \* messages made so far
    tcp, udp,        \* what the two clients were given, oldest first
    alive            \* not yet destroyed

vars == <<options_, start_bundle_, udp_bundle_, nmsgs, tcp, udp, alive>>

Header == 16   \* "#bundle" and a time tag
Prefix == 4    \* the size in front of every message of a bundle

\* A packet: its length and the messages in it.
NoBundle == [bytes |-> 0, msgs |-> <<>>]
EmptyBundle == [bytes |-> Header, msgs |-> <<>>]

MsgSeq == Seq(1..MaxMsgs)

TypeOK ==
    /\ options_ \subseteq Option /\ start_bundle_ \in BOOLEAN
    /\ udp_bundle_ \in [bytes : Nat, msgs : MsgSeq]
    /\ nmsgs \in 0..MaxMsgs
    /\ tcp \in MsgSeq /\ udp \in Seq([bytes : Nat, msgs : MsgSeq])
    /\ alive \in BOOLEAN

Init ==
    /\ options_ = {} /\ start_bundle_ = FALSE /\ udp_bundle_ = NoBundle
    /\ nmsgs = 0 /\ tcp = <<>> /\ udp = <<>> /\ alive = TRUE

-----------------------------------------------------------------------------
(* Bundles                                                                 *)

NewMsg == nmsgs < MaxMsgs /\ nmsgs' = nmsgs + 1

\* EndBundle sends what is in the bundle and empties it; an empty bundle
\* stays as it is.
EndedKept == udp_bundle_
Ended == IF udp_bundle_.bytes > Header THEN NoBundle ELSE udp_bundle_
SentByEndAlways == IF start_bundle_ THEN Append(udp, udp_bundle_) ELSE udp
SentByEnd == IF udp_bundle_.bytes > Header THEN Append(udp, udp_bundle_) ELSE udp

\* A message that would not fit sends the bundle first.  The four bytes of
\* its own size are not counted.
FullByMessage(size) == size + Header > MAX_MESSAGE_SIZE
Full(size) == udp_bundle_.bytes + size > MAX_MESSAGE_SIZE

\* The bundle that the next message is appended to.
Room(size) == IF Full(size) THEN EmptyBundle ELSE udp_bundle_

AppendBundle(size) ==
    /\ udp' = IF Full(size) THEN Append(udp, udp_bundle_) ELSE udp
    /\ udp_bundle_' = [bytes |-> Room(size).bytes + Prefix + size,
                       msgs |-> Append(Room(size).msgs, nmsgs + 1)]

SendUDP(size) ==
    /\ IF start_bundle_
       THEN AppendBundle(size)
       ELSE /\ udp' = Append(udp, [bytes |-> size, msgs |-> <<nmsgs + 1>>])
            /\ UNCHANGED udp_bundle_
    /\ UNCHANGED tcp

SendTCP ==
    /\ tcp' = Append(tcp, nmsgs + 1)
    /\ UNCHANGED <<udp, udp_bundle_>>

-----------------------------------------------------------------------------
(* Operations                                                              *)

\* options_ ^= option
SetOption(option) ==
    /\ alive
    /\ options_' = IF option \in options_ THEN options_ \ {option}
                   ELSE options_ \cup {option}
    /\ UNCHANGED <<start_bundle_, udp_bundle_, nmsgs, tcp, udp, alive>>

\* Load, Unload and the mute and volume setters, each of which makes one
\* message; a volume out of range makes none and so is no step at all.
SendCoreMessage(size) ==
    /\ alive /\ NewMsg
    /\ IF CORE_USE_UDP \in options_ THEN SendUDP(size) ELSE SendTCP
    /\ UNCHANGED <<options_, start_bundle_, alive>>

\* The size voscpack returned: negative when it refuses the address or the
\* format.
PackedAlways(size) == TRUE
Packed(size) == size > 0

SendCustomTCP(size) ==
    /\ alive /\ Packed(size) /\ NewMsg
    /\ SendTCP
    /\ UNCHANGED <<options_, start_bundle_, alive>>

SendCustomUDP(size) ==
    /\ alive /\ Packed(size) /\ NewMsg
    /\ SendUDP(size)
    /\ UNCHANGED <<options_, start_bundle_, alive>>

EndBundle ==
    /\ alive
    /\ udp' = SentByEnd /\ udp_bundle_' = Ended
    /\ start_bundle_' = FALSE
    /\ UNCHANGED <<options_, nmsgs, tcp, alive>>

\* A bundle that was started and not ended is ended first.
StartBundleForgets == UNCHANGED udp
StartBundleSends == udp' = IF start_bundle_ THEN SentByEnd ELSE udp

StartBundle ==
    /\ alive
    /\ StartBundleSends
    /\ udp_bundle_' = EmptyBundle
    /\ start_bundle_' = TRUE
    /\ UNCHANGED <<options_, nmsgs, tcp, alive>>

\* The clients are deleted; a bundle that was not ended goes with them.
Destructor ==
    /\ alive
    /\ alive' = FALSE
    /\ UNCHANGED <<options_, start_bundle_, udp_bundle_, nmsgs, tcp, udp>>

Terminated == ~alive /\ UNCHANGED vars

Next ==
    \/ \E option \in Option : SetOption(option)
    \/ \E size \in Sizes : SendCoreMessage(size)
    \/ \E size \in Sizes \cup {-1} : SendCustomTCP(size) \/ SendCustomUDP(size)
    \/ StartBundle \/ EndBundle \/ Destructor \/ Terminated

Spec == Init /\ [][Next]_vars

-----------------------------------------------------------------------------
(* Properties                                                              *)

Increasing(q) == \A i, j \in DOMAIN q : i < j => q[i] < q[j]

\* The packets sent, and the bundle still open.
Queue == Append(udp, udp_bundle_)
Messages(packets) == UNION {Range(packets[i].msgs) : i \in DOMAIN packets}

InOrder(packets) ==
    /\ \A i \in DOMAIN packets : Increasing(packets[i].msgs)
    /\ \A i, j \in DOMAIN packets :
         i < j => \A m \in Range(packets[i].msgs), n \in Range(packets[j].msgs) : m < n

\* Every message has been handed over exactly once, or waits in the bundle,
\* in the order of the calls: no full bundle, forgotten EndBundle or second
\* StartBundle loses, repeats or overtakes one; and bundles leave TCP alone.
EveryMessageOnce ==
    /\ Increasing(tcp) /\ InOrder(Queue)
    /\ Range(tcp) \cap Messages(Queue) = {}
    /\ Range(tcp) \cup Messages(Queue) = 1..nmsgs

\* A packet of several messages exceeds the limit by at most the four bytes
\* AppendBundle forgets; only a message that leaves no room for the header
\* makes a longer one, alone.
OverrunBounded ==
    \A packet \in Range(Queue) :
        Len(packet.msgs) > 1 => packet.bytes <= MAX_MESSAGE_SIZE + Prefix

\* A bundle without messages is sent only in front of such a message.
EmptyOnlyBeforeLarge ==
    \A i \in DOMAIN udp :
        udp[i].msgs = <<>> =>
            Queue[i + 1].bytes > MAX_MESSAGE_SIZE + Prefix

\* "Consecutive call to EndBundle without a call to StartBundle has no
\* effect": neither does the first such call.
StrayEndIsIgnored == [][EndBundle => start_bundle_]_<<udp, udp_bundle_>>
=============================================================================
