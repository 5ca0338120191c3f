------------------------------ MODULE Sequential ------------------------------
(***************************************************************************)
(* The parts of the library and its tool that run on one thread: the       *)
(* facade, the two ways in which a message is packed (voscpack for custom  *)
(* messages, tnyosc::Message for the others) and am_client.  They share no *)
(* state but what they hand to each other, so a behaviour runs one of them *)
(* and the others rest in a state of their Init.                           *)
(***************************************************************************)
EXTENDS AssetManagerClient, TLC

CONSTANTS
    AddrLens, StrLens, MaxArgs,         \* OscPack
    Addresses, Strings, MaxTypes,       \* TnyOsc
    MaxArguments, MaxWords              \* AmClient

VARIABLES
    part,                                                            \* which one runs
    slash, addr, args, step, k, length, written, size, result,       \* OscPack
    address_, types_, data_, is_cached_, cache_, reused,             \* TnyOsc
    argv, i, g_base_address, g_use_udp, g_host_address, pc, input, it, calls \* AmClient

O == INSTANCE OscPack WITH pc <- step, len <- length
M == INSTANCE TnyOsc
C == INSTANCE AmClient WITH MaxArgs <- MaxArguments

ASSUME SequentialOK == O!ConstantsOK /\ M!TnyOscOK /\ C!AmClientOK

oscVars == <<slash, addr, args, step, k, length, written, size, result>>
messageVars == <<address_, types_, data_, is_cached_, cache_, reused>>
toolVars == <<argv, i, g_base_address, g_use_udp, g_host_address, pc, input, it, calls>>
sequentialVars == <<part, vars, oscVars, messageVars, toolVars>>

SequentialTypeOK == TypeOK /\ O!TypeOK /\ M!TypeOK /\ C!TypeOK

\* A part that rests has the least input.
Resting ==
    /\ \/ part = "voscpack"
       \/ /\ slash = TRUE /\ args = <<>>
          /\ addr \in AddrLens /\ \A len \in AddrLens : addr <= len
    /\ \/ part = "Message"
       \/ /\ address_ \in Addresses
          /\ \A address \in Addresses : address_.len <= address.len
    /\ part = "am_client" \/ argv = <<>>

SequentialInit ==
    /\ part \in {"facade", "voscpack", "Message", "am_client"}
    /\ Resting
    /\ Init /\ O!Init /\ M!Init /\ C!Init

SequentialNext ==
    \/ part = "facade" /\ Next /\ UNCHANGED <<part, oscVars, messageVars, toolVars>>
    \/ part = "voscpack" /\ O!Next /\ UNCHANGED <<part, vars, messageVars, toolVars>>
    \/ part = "Message" /\ M!Next /\ UNCHANGED <<part, vars, oscVars, toolVars>>
    \/ part = "am_client" /\ C!Next /\ UNCHANGED <<part, vars, oscVars, messageVars>>

SequentialSpec == SequentialInit /\ [][SequentialNext]_sequentialVars

\* See OscPack, TnyOsc and AmClient.
SizeIsWritten == O!SizeIsWritten
ReturnsOscSize == O!ReturnsOscSize
SizersRefuseAlike == O!SizersRefuseAlike
ReadersSeeTheMessage == M!ReadersSeeTheMessage
MessageIsComplete == M!MessageIsComplete
ArgumentsAreTaken == C!ArgumentsAreTaken
CommandsAreSent == C!CommandsAreSent

-----------------------------------------------------------------------------
(* The instance: an address that ends in one zero and one that ends in four *)

TwoAddresses == {[byte |-> "a", len |-> 3], [byte |-> "b", len |-> 4]}
=============================================================================
