------------------------------- MODULE AmClient -------------------------------
(***************************************************************************)
(* am_client, the command line tool: ProcessArguments walks along the      *)
(* arguments, and ProcessInput along the words of each line, an option or  *)
(* a command and its value at a time.  The calls of one line to the        *)
(* AssetManagerClient are recorded; what they do is in that module.        *)
(***************************************************************************)
EXTENDS Naturals, Sequences

CONSTANTS
    MaxArgs,     \* bound on the number of arguments
    MaxWords     \* bound on the number of words in a line

\* Assumed of the constants.
AmClientOK ==
    MaxArgs \in Nat /\ MaxWords \in Nat

\* Arguments, and words of a line; "name" and "what" are any others, and the
\* first three words stand for unload, system_mute and system_volume as well.
Argument == {"-h", "-p", "-i", "tcp", "udp", "name"}
Word == {"load", "mute", "volume", "help", "true", "0", "2", "what"}
Options == {"-p", "-i"}
Booleans == {"true", "0"}
Numbers == {"0", "2"}

VARIABLES
    argv, i,         \* without the name of the program
    g_base_address, g_use_udp, g_host_address,
    pc,              \* "arguments", "prompt", "input", or how the tool ended
    input, it,
    calls            \* made for this line: position in it, and the command

global == <<g_base_address, g_use_udp, g_host_address>>
vars == <<argv, i, global, pc, input, it, calls>>

Nothing == ""
Localhost == "127.0.0.1"
UpTo(n, S) == UNION {[1..len -> S] : len \in 0..n}

TypeOK ==
    /\ argv \in Seq(Argument) /\ i \in 1..(Len(argv) + 1)
    /\ g_base_address \in Argument \cup {Nothing} /\ g_use_udp \in BOOLEAN
    /\ g_host_address \in Argument \cup {Localhost}
    /\ pc \in {"arguments", "prompt", "input", "usage", "crashed", "ended"}
    /\ input \in Seq(Word) /\ it \in 1..(Len(input) + 1)
    /\ calls \in Seq(Nat \X Word)

Init ==
    /\ argv \in UpTo(MaxArgs, Argument) /\ i = 1
    /\ g_base_address = Nothing /\ g_use_udp = FALSE /\ g_host_address = Localhost
    /\ pc = "arguments" /\ input = <<>> /\ it = 1 /\ calls = <<>>

-----------------------------------------------------------------------------
(* ProcessArguments                                                        *)

argc == Len(argv) + 1
AtArgument(S) == pc = "arguments" /\ i < argc /\ argv[i] \in S
Value == argv[i + 1]

AfterOption == i + 1
AfterValue == i + 2

Usage == pc' = "usage" /\ UNCHANGED <<argv, i, global, input, it, calls>>

\* i++ < argc holds for the last argument as well, so argv[argc] is read,
\* which is a null pointer.
MissingValue ==
    /\ AtArgument(Options) /\ i + 1 = argc
    /\ pc' = "crashed"
    /\ UNCHANGED <<argv, i, global, input, it, calls>>

PrintUsage == AtArgument({"-h"}) /\ Usage

Protocol ==
    /\ AtArgument({"-p"}) /\ i + 1 < argc
    /\ \/ Value \notin {"tcp", "udp"} /\ Usage
       \/ /\ Value \in {"tcp", "udp"}
          /\ g_use_udp' = (Value = "udp")
          /\ i' = AfterValue
          /\ UNCHANGED <<argv, g_base_address, g_host_address, pc, input, it, calls>>

Ip ==
    /\ AtArgument({"-i"}) /\ i + 1 < argc
    /\ g_host_address' = Value
    /\ i' = AfterValue
    /\ UNCHANGED <<argv, g_base_address, g_use_udp, pc, input, it, calls>>

\* Only the last argument is an address, others are passed over.
Address ==
    /\ AtArgument(Argument \ (Options \cup {"-h"}))
    /\ g_base_address' = IF i = argc - 1 THEN argv[i] ELSE g_base_address
    /\ i' = i + 1
    /\ UNCHANGED <<argv, g_use_udp, g_host_address, pc, input, it, calls>>

ArgumentsEnd ==
    /\ pc = "arguments" /\ i = argc
    /\ IF g_base_address = Nothing THEN Usage
       ELSE pc' = "prompt" /\ UNCHANGED <<argv, i, global, input, it, calls>>

-----------------------------------------------------------------------------
(* main, ProcessInput                                                      *)

\* A line is read; or the input ends, by itself or because Signal closed it.
ReadLine ==
    /\ pc = "prompt"
    /\ input' \in UpTo(MaxWords, Word) /\ it' = 1 /\ calls' = <<>>
    /\ pc' = "input"
    /\ UNCHANGED <<argv, i, global>>

EndOfInput ==
    /\ pc = "prompt"
    /\ pc' = "ended"
    /\ UNCHANGED <<argv, i, global, input, it, calls>>

AtWord(word) == pc = "input" /\ it <= Len(input) /\ input[it] = word

Call(width) ==
    /\ calls' = Append(calls, <<it, input[it]>>)
    /\ it' = it + width
    /\ UNCHANGED <<argv, i, global, pc, input>>

Understood(S) == it < Len(input) /\ input[it + 1] \in S

\* The rest of the line is given up.
PassOver == it' = it + 1 /\ UNCHANGED <<argv, i, global, pc, input, calls>>
GiveUp == pc' = "prompt" /\ UNCHANGED <<argv, i, global, input, it, calls>>

Load == AtWord("load") /\ Call(1)
Mute == AtWord("mute") /\ IF Understood(Booleans) THEN Call(2) ELSE GiveUp
Volume == AtWord("volume") /\ IF Understood(Numbers) THEN Call(2) ELSE GiveUp
Help == AtWord("help") /\ PassOver
Unknown == (\E word \in {"true", "0", "2", "what"} : AtWord(word)) /\ GiveUp

LineEnds ==
    /\ pc = "input" /\ it > Len(input)
    /\ pc' = "prompt"
    /\ UNCHANGED <<argv, i, global, input, it, calls>>

Ended == pc \in {"usage", "crashed", "ended"} /\ UNCHANGED vars

Next ==
    \/ PrintUsage \/ Protocol \/ Ip \/ MissingValue \/ Address \/ ArgumentsEnd
    \/ ReadLine \/ EndOfInput
    \/ Load \/ Mute \/ Volume \/ Help \/ Unknown \/ LineEnds
    \/ Ended

Spec == Init /\ [][Next]_vars

-----------------------------------------------------------------------------
(* Properties                                                              *)

\* Is there a step at position p, if those at a word of S take two?
StepsAt(words, S) ==
    LET at[p \in Nat] ==
            \/ p = 1
            \/ p > 1 /\ at[p - 1] /\ words[p - 1] \notin S
            \/ p > 2 /\ at[p - 2] /\ words[p - 2] \in S
    IN  at

Reached(p) == StepsAt(argv, Options)[p]
Given(option, default) ==
    LET at == {p \in 1..Len(argv) : Reached(p) /\ argv[p] = option}
    IN  IF at = {} THEN default ELSE argv[1 + CHOOSE p \in at : \A q \in at : q <= p]

\* The tool starts with the base address that is the last argument, the host
\* and the protocol given last; a value is never taken for an option or an
\* address.  Only an option at the very end makes it crash.
ArgumentsAreTaken ==
    /\ pc \in {"prompt", "input", "ended"} =>
         /\ Reached(Len(argv)) /\ g_base_address = argv[Len(argv)]
         /\ g_host_address = Given("-i", Localhost)
         /\ g_use_udp <=> Given("-p", "tcp") = "udp"
    /\ pc = "crashed" => Reached(Len(argv)) /\ argv[Len(argv)] \in Options

\* The commands up to the first mistake in the line have been sent, once and
\* in order, none behind it, and no value was taken for a command.
Mistaken(p) ==
    \/ input[p] \notin {"load", "mute", "volume", "help"}
    \/ input[p] = "mute" /\ (p = Len(input) \/ input[p + 1] \notin Booleans)
    \/ input[p] = "volume" /\ (p = Len(input) \/ input[p + 1] \notin Numbers)

CommandsAreSent ==
    LET command(p) == StepsAt(input, {"mute", "volume"})[p]
        good == {p \in 1..Len(input) : \A q \in 1..p : command(q) => ~Mistaken(q)}
        sent == {calls[c][1] : c \in DOMAIN calls}
    IN  /\ \A c \in 1..(Len(calls) - 1) : calls[c][1] < calls[c + 1][1]
        /\ pc = "prompt" => sent = {p \in good : command(p) /\ input[p] # "help"}
=============================================================================
