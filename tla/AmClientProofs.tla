---------------------------- MODULE AmClientProofs ----------------------------
(***************************************************************************)
(* Machine-checked proofs about am_client, for any number of arguments and *)
(* of words in a line.  Where an option or a command begins depends on all *)
(* those in front of it, so what is taken and what is sent follows by      *)
(* induction over positions (Recursion).                                   *)
(***************************************************************************)
EXTENDS Sequential, Recursion, SequenceTheorems

-----------------------------------------------------------------------------
(* Where steps begin                                                       *)

\* The recursive definition of StepsAt has a solution, and so defines it.
LEMMA StepsAre ==
    ASSUME NEW words, NEW S
    PROVE  /\ C!StepsAt(words, S)[1] /\ ~C!StepsAt(words, S)[0]
           /\ \A p \in Nat \ {0} :
                C!StepsAt(words, S)[p + 1] <=>
                    \/ C!StepsAt(words, S)[p] /\ words[p] \notin S
                    \/ p > 1 /\ C!StepsAt(words, S)[p - 1] /\ words[p - 1] \in S
<1> DEFINE Ok(p, one, two) ==
               \/ p = 1
               \/ p > 1 /\ one /\ words[p - 1] \notin S
               \/ p > 2 /\ two /\ words[p - 2] \in S
           F(at) == [p \in Nat |->
                        \/ p = 1
                        \/ p > 1 /\ at[p - 1] /\ words[p - 1] \notin S
                        \/ p > 2 /\ at[p - 2] /\ words[p - 2] \in S]
           Bits == 0..1
           T == Bits \X Bits
           add == [e \in Nat \X T |->
                      <<IF Ok(e[1] + 1, e[2][1] = 1, e[2][2] = 1) THEN 1 ELSE 0, e[2][1]>>]
<1>1. Steps(T, <<0, 0>>, add)
  BY DEF Steps
<1>2. PICK g : Goes(g, T, <<0, 0>>, add)
  <2> HIDE DEF T, add
  <2> QED
    BY <1>1, RecursionExists
<1> DEFINE f == [p \in Nat |-> g[p][1] = 1]
<1>3. ASSUME NEW n \in Nat
      PROVE  /\ g[n] \in T /\ g[n + 1][2] = g[n][1]
             /\ g[n + 1][1] = 1 <=> Ok(n + 1, g[n][1] = 1, g[n][2] = 1)
  <2>1. g[n] \in T /\ g[n + 1] = add[<<n, g[n]>>]
    BY <1>2 DEF Goes
  <2> QED
    BY <2>1
<1>4. ASSUME NEW p \in Nat
      PROVE  f[p] <=> Ok(p, p > 0 /\ f[p - 1], p > 1 /\ f[p - 2])
  <2>1. CASE p = 0
    <3>1. g[0] = <<0, 0>>
      BY <1>2 DEF Goes
    <3>2. g[0][1] # 1
      BY <3>1
    <3>3. f[0] <=> g[0][1] = 1
      OBVIOUS
    <3> HIDE DEF f
    <3> QED
      BY <2>1, <3>2, <3>3
  <2>2. CASE p = 1
    <3>1. 0 \in Nat /\ 0 + 1 = 1
      OBVIOUS
    <3> QED
      BY <1>3, <2>2, <3>1
  <2>3. CASE p > 1
    <3>1. p - 1 \in Nat /\ p - 2 \in Nat /\ (p - 1) + 1 = p /\ (p - 2) + 1 = p - 1
      BY <2>3
    <3>2. /\ g[p][1] = 1 <=> Ok(p, g[p - 1][1] = 1, g[p - 1][2] = 1)
          /\ g[p - 1][2] = g[p - 2][1]
      BY <1>3, <3>1
    <3>3. /\ f[p] <=> g[p][1] = 1
          /\ f[p - 1] <=> g[p - 1][1] = 1
          /\ f[p - 2] <=> g[p - 2][1] = 1
      BY <3>1
    <3>4. f[p] <=> Ok(p, f[p - 1], g[p - 1][2] = 1)
      <4> HIDE DEF f
      <4> QED
        BY <3>2, <3>3
    <3> HIDE DEF f
    <3> QED
      BY <2>3, <3>2, <3>3, <3>4
  <2> QED
    BY <2>1, <2>2, <2>3
<1>5. f = F(f)
  <2> DEFINE E(p) == \/ p = 1
                     \/ p > 1 /\ f[p - 1] /\ words[p - 1] \notin S
                     \/ p > 2 /\ f[p - 2] /\ words[p - 2] \in S
  <2>1. ASSUME NEW p \in Nat
        PROVE  (g[p][1] = 1) <=> E(p)
    <3>1. f[p] <=> g[p][1] = 1
      OBVIOUS
    <3> HIDE DEF f
    <3> QED
      BY <1>4, <3>1
  <2>2. F(f) = [p \in Nat |-> E(p)]
    OBVIOUS
  <2> HIDE DEF E
  <2> QED
    BY <2>1, <2>2
<1>6. C!StepsAt(words, S) = F(C!StepsAt(words, S))
  <2>1. \E h : h = F(h)
    <3> HIDE DEF f, F
    <3> QED
      BY <1>5
  <2>2. C!StepsAt(words, S) = CHOOSE h : h = F(h)
    BY DEF C!StepsAt
  <2> HIDE DEF F
  <2> QED
    BY <2>1, <2>2
<1> DEFINE s == C!StepsAt(words, S)
           r == F(s)
<1>7. s = r
  BY <1>6
<1>8. /\ r[1] /\ ~r[0]
      /\ \A p \in Nat \ {0} :
           r[p + 1] <=> \/ s[p] /\ words[p] \notin S
                        \/ p > 1 /\ s[p - 1] /\ words[p - 1] \in S
  <2> HIDE DEF s
  <2>1. r[1] /\ ~r[0]
    OBVIOUS
  <2>2. ASSUME NEW p \in Nat \ {0}
        PROVE  r[p + 1] <=> \/ s[p] /\ words[p] \notin S
                            \/ p > 1 /\ s[p - 1] /\ words[p - 1] \in S
    <3>1. (p + 1) - 1 = p /\ (p + 1) - 2 = p - 1 /\ p + 1 \in Nat
      OBVIOUS
    <3> QED
      BY <3>1
  <2> QED
    BY <2>1, <2>2
<1> HIDE DEF r, s
<1> QED
  BY <1>7, <1>8 DEF s

\* The word behind one that takes a value is not a step, the one behind that is.
LEMMA ValueIsNoStep ==
    ASSUME NEW words, NEW S
    PROVE  \A p \in Nat \ {0} :
             C!StepsAt(words, S)[p] /\ words[p] \in S => ~C!StepsAt(words, S)[p + 1]
<1> DEFINE at == C!StepsAt(words, S)
           U == {n \in Nat : n > 0 /\ at[n] /\ words[n] \in S => ~at[n + 1]}
<1>1. /\ at[1] /\ ~at[0]
      /\ \A p \in Nat \ {0} :
           at[p + 1] <=> \/ at[p] /\ words[p] \notin S
                         \/ p > 1 /\ at[p - 1] /\ words[p - 1] \in S
  BY StepsAre
<1> HIDE DEF at
<1>2. 0 \in U
  OBVIOUS
<1>3. ASSUME NEW n \in Nat, n \in U
      PROVE  n + 1 \in U
  <2> SUFFICES ASSUME at[n + 1], words[n + 1] \in S PROVE ~at[(n + 1) + 1]
    OBVIOUS
  <2>1. n + 1 \in Nat \ {0} /\ (n + 1) - 1 = n /\ (n + 1 > 1 <=> n > 0)
    OBVIOUS
  <2>2. at[(n + 1) + 1] <=> n > 0 /\ at[n] /\ words[n] \in S
    BY <1>1, <2>1
  <2> QED
    BY <1>3, <2>2
<1>4. Nat \subseteq U
  <2> HIDE DEF U
  <2> QED
    BY <1>2, <1>3, SetInduction
<1> QED
  BY <1>4 DEF at

LEMMA NextStep ==
    ASSUME NEW words, NEW S, NEW p \in Nat \ {0}, C!StepsAt(words, S)[p]
    PROVE  /\ words[p] \notin S => C!StepsAt(words, S)[p + 1]
           /\ words[p] \in S => ~C!StepsAt(words, S)[p + 1] /\ C!StepsAt(words, S)[p + 2]
<1>1. words[p] \notin S => C!StepsAt(words, S)[p + 1]
  BY StepsAre
<1>2. ASSUME words[p] \in S
      PROVE  ~C!StepsAt(words, S)[p + 1] /\ C!StepsAt(words, S)[p + 2]
  <2>1. ~C!StepsAt(words, S)[p + 1]
    BY <1>2, ValueIsNoStep
  <2>2. p + 1 \in Nat \ {0} /\ (p + 1) + 1 = p + 2 /\ (p + 1) - 1 = p /\ p + 1 > 1
    OBVIOUS
  <2>3. C!StepsAt(words, S)[(p + 1) + 1] <=>
            \/ C!StepsAt(words, S)[p + 1] /\ words[p + 1] \notin S
            \/ p + 1 > 1 /\ C!StepsAt(words, S)[(p + 1) - 1] /\ words[(p + 1) - 1] \in S
    BY <2>2, StepsAre
  <2> QED
    BY <1>2, <2>1, <2>2, <2>3
<1> QED
  BY <1>1, <1>2

-----------------------------------------------------------------------------
(* ProcessArguments                                                        *)

\* Where the option was given in front of position n, and its last value.
GivenAt(option, n) == {p \in 1..(n - 1) : C!Reached(p) /\ argv[p] = option}
LastOf(at) == CHOOSE p \in at : \A q \in at : q <= p
GivenUpTo(option, default, n) ==
    IF GivenAt(option, n) = {} THEN default ELSE argv[1 + LastOf(GivenAt(option, n))]

\* The position behind that of the step at i.
Position == IF argv[i] \in C!Options THEN i + 2 ELSE i + 1

\* A step gives its own option a value, and leaves the others theirs.
LEMMA GivenBehind ==
    ASSUME C!TypeOK, i <= Len(argv), C!Reached(i), NEW option \in C!Options, NEW default
    PROVE  GivenUpTo(option, default, Position) =
             IF argv[i] = option THEN argv[i + 1] ELSE GivenUpTo(option, default, i)
<1>1. i \in Nat \ {0}
  BY DEF C!TypeOK
<1>2. GivenAt(option, Position) = GivenAt(option, i) \cup (IF argv[i] = option THEN {i} ELSE {})
  <2>1. CASE argv[i] \in C!Options
    <3>1. ~C!Reached(i + 1)
      BY <1>1, <2>1, NextStep DEF C!Reached
    <3>2. 1..(Position - 1) = (1..(i - 1)) \cup {i, i + 1}
      BY <1>1, <2>1 DEF Position
    <3> QED
      BY <3>1, <3>2 DEF GivenAt
  <2>2. CASE argv[i] \notin C!Options
    <3>1. 1..(Position - 1) = (1..(i - 1)) \cup {i}
      BY <1>1, <2>2 DEF Position
    <3> QED
      BY <2>2, <3>1 DEF GivenAt
  <2> QED
    BY <2>1, <2>2
<1>3. CASE argv[i] # option
  BY <1>2, <1>3 DEF GivenUpTo
<1>4. CASE argv[i] = option
  <2> DEFINE at == GivenAt(option, Position)
  <2>1. i \in at /\ \A q \in at : q \in Nat /\ q <= i
    BY <1>1, <1>2, <1>4 DEF GivenAt
  <2>2. LastOf(at) = i
    <3> HIDE DEF at
    <3>1. LastOf(at) \in at /\ \A q \in at : q <= LastOf(at)
      <4>1. \E p \in at : \A q \in at : q <= p
        BY <2>1
      <4> QED
        BY <4>1 DEF LastOf
    <3>2. LastOf(at) \in Nat /\ LastOf(at) <= i /\ i <= LastOf(at)
      BY <2>1, <3>1
    <3> HIDE DEF LastOf
    <3> QED
      BY <1>1, <3>2
  <2>3. at # {} /\ 1 + i = i + 1
    BY <1>1, <2>1
  <2> QED
    BY <1>4, <2>2, <2>3 DEF GivenUpTo
<1> QED
  BY <1>3, <1>4

\* What has been taken from the arguments in front of i.
TakenInv ==
    /\ C!Reached(i)
    /\ g_host_address = GivenUpTo("-i", C!Localhost, i)
    /\ g_use_udp <=> GivenUpTo("-p", "tcp", i) = "udp"
    /\ g_base_address # C!Nothing =>
         /\ i = Len(argv) + 1
         /\ C!Reached(Len(argv)) /\ g_base_address = argv[Len(argv)]
    /\ pc \in {"prompt", "input", "ended"} => g_base_address # C!Nothing
    /\ pc = "crashed" => C!Reached(Len(argv)) /\ argv[Len(argv)] \in C!Options

LEMMA TakenIsEnough ==
    ASSUME C!TypeOK, TakenInv
    PROVE  C!ArgumentsAreTaken
<1>1. CASE pc \in {"prompt", "input", "ended"}
  <2>1. /\ i = Len(argv) + 1 /\ (Len(argv) + 1) - 1 = Len(argv)
        /\ C!Reached(Len(argv)) /\ g_base_address = argv[Len(argv)]
    BY <1>1 DEF TakenInv, C!TypeOK
  <2>2. \A option, default : GivenUpTo(option, default, i) = C!Given(option, default)
    BY <2>1 DEF GivenUpTo, GivenAt, LastOf, C!Given
  <2> QED
    BY <1>1, <2>1, <2>2 DEF TakenInv, C!ArgumentsAreTaken
<1>2. CASE pc \notin {"prompt", "input", "ended"}
  BY <1>2 DEF TakenInv, C!ArgumentsAreTaken
<1> QED
  BY <1>1, <1>2

\* Every option gives its value, and the walk goes on behind it.
LEMMA OptionStep ==
    ASSUME C!TypeOK, TakenInv, C!Protocol \/ C!Ip
    PROVE  C!TypeOK' /\ TakenInv'
<1>1. /\ pc = "arguments" /\ i \in Nat \ {0} /\ i + 1 <= Len(argv) /\ Len(argv) \in Nat
      /\ argv[i] \in C!Options /\ argv[i + 1] \in C!Argument
  BY DEF C!Protocol, C!Ip, C!AtArgument, C!argc, C!TypeOK, C!Options
<1>2. C!Options = {"-p", "-i"} /\ "-p" # "-i"
  BY DEF C!Options
<1>3. g_base_address = C!Nothing
  BY <1>1 DEF TakenInv
<1>4. CASE C!Usage
  BY <1>1, <1>3, <1>4 DEF C!Usage, C!global, TakenInv, C!TypeOK, C!Reached,
                          GivenUpTo, GivenAt
<1>5. CASE ~C!Usage
  <2>1. /\ i' = i + 2 /\ UNCHANGED <<argv, g_base_address, pc, input, it, calls>>
        /\ g_use_udp' = IF argv[i] = "-p" THEN argv[i + 1] = "udp" ELSE g_use_udp
        /\ g_host_address' = IF argv[i] = "-i" THEN argv[i + 1] ELSE g_host_address
    BY <1>2, <1>5 DEF C!Protocol, C!Ip, C!AtArgument, C!AfterValue, C!Value
  <2>2. Position = i'
    BY <1>1, <2>1 DEF Position
  <2>3. C!Reached(i)' /\ (\A n : C!Reached(n)' <=> C!Reached(n))
    BY <1>1, <2>1, NextStep DEF C!Reached, TakenInv
  <2>4. \A option \in C!Options : \A default :
          GivenUpTo(option, default, i)' =
             IF argv[i] = option THEN argv[i + 1] ELSE GivenUpTo(option, default, i)
    <3>1. \A option, default : GivenUpTo(option, default, i)' = GivenUpTo(option, default, i')
      BY <2>1 DEF GivenUpTo, GivenAt, C!Reached
    <3> QED
      BY <1>1, <2>2, <3>1, GivenBehind DEF TakenInv
  <2>5. C!TypeOK'
    <3>1. g_use_udp' \in BOOLEAN
      <4>1. g_use_udp \in BOOLEAN
        BY DEF C!TypeOK
      <4>2. CASE argv[i] = "-p"
        BY <2>1, <4>2
      <4>3. CASE argv[i] # "-p"
        BY <2>1, <4>1, <4>3
      <4> QED
        BY <4>2, <4>3
    <3>2. i' \in 1..(Len(argv') + 1)
      BY <1>1, <2>1
    <3>3. g_host_address' \in C!Argument \cup {C!Localhost}
      BY <1>1, <2>1 DEF C!TypeOK
    <3> QED
      BY <2>1, <3>1, <3>2, <3>3 DEF C!TypeOK
  <2>6. g_host_address' = GivenUpTo("-i", C!Localhost, i)'
    BY <1>2, <2>1, <2>4 DEF TakenInv
  <2>7. g_use_udp' <=> GivenUpTo("-p", "tcp", i)' = "udp"
    BY <1>2, <2>1, <2>4 DEF TakenInv
  <2> QED
    BY <1>1, <1>3, <2>1, <2>3, <2>5, <2>6, <2>7 DEF TakenInv
<1> QED
  BY <1>4, <1>5

\* Any other argument is passed over, unless it is the last.
LEMMA AddressStep ==
    ASSUME C!TypeOK, TakenInv, C!Address
    PROVE  C!TypeOK' /\ TakenInv'
<1>1. /\ pc = "arguments" /\ i \in Nat \ {0} /\ i <= Len(argv) /\ Len(argv) \in Nat
      /\ argv[i] \notin C!Options /\ argv[i] \in C!Argument
  BY DEF C!Address, C!AtArgument, C!argc, C!TypeOK
<1>2. C!Options = {"-p", "-i"}
  BY DEF C!Options
<1>3. g_base_address = C!Nothing
  BY <1>1 DEF TakenInv
<1>4. /\ i' = i + 1
      /\ g_base_address' = IF i = Len(argv) THEN argv[i] ELSE C!Nothing
      /\ UNCHANGED <<argv, g_use_udp, g_host_address, pc, input, it, calls>>
  BY <1>1, <1>3 DEF C!Address, C!argc
<1>5. Position = i'
  BY <1>1, <1>4 DEF Position
<1>6. C!Reached(i)' /\ (\A n : C!Reached(n)' <=> C!Reached(n))
  BY <1>1, <1>4, NextStep DEF C!Reached, TakenInv
<1>7. \A option \in C!Options : \A default :
        GivenUpTo(option, default, i)' = GivenUpTo(option, default, i)
  <2>1. \A option, default : GivenUpTo(option, default, i)' = GivenUpTo(option, default, i')
    BY <1>4 DEF GivenUpTo, GivenAt, C!Reached
  <2> QED
    BY <1>1, <1>2, <1>5, <2>1, GivenBehind DEF TakenInv
<1>8. C!TypeOK'
  BY <1>1, <1>4 DEF C!TypeOK
<1>9. g_base_address' # C!Nothing =>
        /\ i' = Len(argv') + 1
        /\ C!Reached(Len(argv))' /\ g_base_address' = argv'[Len(argv')]
  BY <1>1, <1>4, <1>6 DEF TakenInv
<1> QED
  BY <1>1, <1>2, <1>4, <1>6, <1>7, <1>8, <1>9 DEF TakenInv

\* Nothing else touches what has been taken.
LEMMA TakenStays ==
    ASSUME TakenInv, UNCHANGED <<argv, i, g_base_address, g_use_udp, g_host_address>>,
           \/ pc' \in {"arguments", "usage"}
           \/ pc' \in {"prompt", "input", "ended"} /\ g_base_address # C!Nothing
           \/ pc' = "crashed" /\ C!Reached(Len(argv)) /\ argv[Len(argv)] \in C!Options
    PROVE  TakenInv'
<1>1. \A n : C!Reached(n)' <=> C!Reached(n)
  BY DEF C!Reached
<1>2. \A option, default : GivenUpTo(option, default, i)' = GivenUpTo(option, default, i)
  BY DEF GivenUpTo, GivenAt, C!Reached
<1> QED
  BY <1>1, <1>2 DEF TakenInv

-----------------------------------------------------------------------------
(* ProcessInput                                                            *)

WithValue == {"mute", "volume"}
Command(p) == C!StepsAt(input, WithValue)[p]
Sent == {calls[c][1] : c \in DOMAIN calls}
InSequence == \A c \in 1..(Len(calls) - 1) : calls[c][1] < calls[c + 1][1]

\* What has been sent of the line in front of it.
SentInv ==
    /\ InSequence
    /\ pc = "arguments" => input = <<>> /\ calls = <<>>
    /\ pc = "input" =>
         /\ Command(it)
         /\ \A p \in 1..(it - 1) : Command(p) => ~C!Mistaken(p)
         /\ Sent = {p \in 1..(it - 1) : Command(p) /\ input[p] # "help"}
    /\ C!CommandsAreSent

\* One more call.
LEMMA OneMoreCall ==
    ASSUME C!TypeOK, InSequence, \A p \in Sent : p < it, it <= Len(input),
           calls' = Append(calls, <<it, input[it]>>)
    PROVE  InSequence' /\ Sent' = Sent \cup {it} /\ calls' \in Seq(Nat \X C!Word)
<1> DEFINE call == <<it, input[it]>>
<1>1. calls \in Seq(Nat \X C!Word) /\ it \in Nat /\ input[it] \in C!Word /\ Len(calls) \in Nat
  BY DEF C!TypeOK
<1>2. call \in Nat \X C!Word /\ call[1] = it
  BY <1>1
<1> HIDE DEF call
<1>3. /\ calls' \in Seq(Nat \X C!Word) /\ Len(calls') = Len(calls) + 1
      /\ \A c \in 1..Len(calls) : calls'[c] = calls[c]
      /\ calls'[Len(calls) + 1] = call
      /\ DOMAIN calls = 1..Len(calls) /\ DOMAIN calls' = 1..(Len(calls) + 1)
  BY <1>1, <1>2 DEF call
<1>4. Sent' = Sent \cup {it}
  BY <1>1, <1>2, <1>3 DEF Sent
<1>5. ASSUME NEW c \in 1..Len(calls)
      PROVE  calls'[c][1] < calls'[c + 1][1]
  <2>1. CASE c = Len(calls)
    <3>1. calls[c][1] \in Sent
      BY <1>3, <1>5 DEF Sent
    <3> QED
      BY <1>1, <1>2, <1>3, <2>1, <3>1
  <2>2. CASE c # Len(calls)
    <3>1. c \in 1..(Len(calls) - 1) /\ c + 1 \in 1..Len(calls)
      BY <1>1, <2>2
    <3> QED
      BY <1>3, <3>1 DEF InSequence
  <2> QED
    BY <2>1, <2>2
<1>6. InSequence'
  BY <1>1, <1>3, <1>5 DEF InSequence
<1> QED
  BY <1>3, <1>4, <1>6

\* A command is understood and sent, or a word that sends nothing passed over.
Understands(w) ==
    /\ pc = "input" /\ it <= Len(input) /\ ~C!Mistaken(it)
    /\ w = (IF input[it] \in WithValue THEN 2 ELSE 1)
    /\ it' = it + w /\ it' <= Len(input) + 1
    /\ UNCHANGED <<argv, i, g_base_address, g_use_udp, g_host_address, pc, input>>
    /\ calls' = IF input[it] = "help" THEN calls ELSE Append(calls, <<it, input[it]>>)

LEMMA UnderstandStep ==
    ASSUME C!TypeOK, SentInv, NEW w, Understands(w)
    PROVE  C!TypeOK' /\ SentInv'
<1>1. /\ it \in Nat \ {0} /\ Len(input) \in Nat /\ it <= Len(input) /\ Command(it)
      /\ w \in {1, 2} /\ it' = it + w /\ input' = input /\ pc' = "input"
  BY DEF Understands, SentInv, C!TypeOK
<1>2. \A p : Command(p)' <=> Command(p)
  BY <1>1 DEF Command
<1>3. \A p : C!Mistaken(p)' <=> C!Mistaken(p)
  BY <1>1 DEF C!Mistaken
<1>4. Command(it)' /\ (w = 2 => ~Command(it + 1))
  BY <1>1, NextStep DEF Understands, Command
<1>5. 1..(it' - 1) = IF w = 2 THEN (1..(it - 1)) \cup {it, it + 1} ELSE (1..(it - 1)) \cup {it}
  <2>1. CASE w = 1
    BY <1>1, <2>1
  <2>2. CASE w = 2
    BY <1>1, <2>2
  <2> QED
    BY <1>1, <2>1, <2>2
<1>6. \A p \in 1..(it' - 1) : Command(p)' => ~C!Mistaken(p)'
  BY <1>2, <1>3, <1>4, <1>5 DEF Understands, SentInv
<1>7. /\ InSequence' /\ calls' \in Seq(Nat \X C!Word)
      /\ Sent' = Sent \cup (IF input[it] = "help" THEN {} ELSE {it})
  <2>1. CASE input[it] = "help"
    BY <2>1 DEF Understands, SentInv, InSequence, Sent, C!TypeOK
  <2>2. CASE input[it] # "help"
    <3>1. \A p \in Sent : p < it
      BY <1>1 DEF Understands, SentInv
    <3> QED
      BY <2>2, <3>1, OneMoreCall DEF Understands, SentInv
  <2> QED
    BY <2>1, <2>2
<1>8. Sent' = {p \in 1..(it' - 1) : Command(p)' /\ input'[p] # "help"}
  BY <1>1, <1>2, <1>4, <1>5, <1>7 DEF Understands, SentInv
<1>9. C!TypeOK'
  BY <1>1, <1>7 DEF Understands, C!TypeOK
<1> QED
  BY <1>1, <1>4, <1>6, <1>7, <1>8, <1>9 DEF SentInv, C!CommandsAreSent, InSequence

\* The line ends, or is given up: what is behind it is not sent.
LEMMA PromptStep ==
    ASSUME C!TypeOK, SentInv, pc = "input", pc' = "prompt", UNCHANGED <<input, it, calls>>,
           it > Len(input) \/ C!Mistaken(it)
    PROVE  SentInv'
<1>1. /\ it \in Nat \ {0} /\ Len(input) \in Nat /\ it <= Len(input) + 1 /\ Command(it)
      /\ \A p \in 1..(it - 1) : Command(p) => ~C!Mistaken(p)
      /\ Sent = {p \in 1..(it - 1) : Command(p) /\ input[p] # "help"}
  BY DEF SentInv, C!TypeOK
<1> DEFINE good == {p \in 1..Len(input) : \A q \in 1..p : Command(q) => ~C!Mistaken(q)}
<1>2. good = 1..(it - 1)
  <2>1. ASSUME NEW p \in 1..(it - 1)
        PROVE  p \in good
    BY <1>1
  <2>2. ASSUME NEW p \in good
        PROVE  p \in 1..(it - 1)
    <3>1. CASE it > Len(input)
      BY <1>1, <3>1
    <3>2. CASE C!Mistaken(it)
      <4>1. p \in 1..Len(input) /\ (it \in 1..p /\ Command(it) => ~C!Mistaken(it))
        OBVIOUS
      <4> QED
        BY <1>1, <3>2, <4>1
    <3> QED
      BY <3>1, <3>2
  <2> QED
    BY <2>1, <2>2
<1>3. Sent = {p \in good : Command(p) /\ input[p] # "help"}
  BY <1>1, <1>2
<1>4. C!CommandsAreSent'
  <2>1. C!CommandsAreSent' <=>
          /\ InSequence
          /\ Sent = {p \in good : Command(p) /\ input[p] # "help"}
    BY DEF C!CommandsAreSent, InSequence, Sent, Command, C!Mistaken, WithValue
  <2> QED
    BY <1>3, <2>1 DEF SentInv
<1> QED
  BY <1>4 DEF SentInv, InSequence

\* A line is read, and nothing sent of it.
LEMMA LineStep ==
    ASSUME C!TypeOK, SentInv, C!ReadLine
    PROVE  C!TypeOK' /\ SentInv'
<1>1. /\ pc' = "input" /\ it' = 1 /\ calls' = <<>> /\ input' \in Seq(C!Word)
      /\ UNCHANGED <<argv, i, g_base_address, g_use_udp, g_host_address>>
  <2>1. PICK n \in 0..MaxWords : input' \in [1..n -> C!Word]
    BY DEF C!ReadLine, C!UpTo
  <2>2. n \in Nat
    BY SequentialOK DEF C!AmClientOK
  <2> QED
    BY <2>1, <2>2 DEF C!ReadLine, C!global
<1>2. Command(it)'
  BY <1>1, StepsAre DEF Command
<1>3. Sent' = {} /\ InSequence'
  BY <1>1 DEF Sent, InSequence
<1>4. C!TypeOK'
  BY <1>1 DEF C!TypeOK
<1> QED
  BY <1>1, <1>2, <1>3, <1>4 DEF SentInv, C!CommandsAreSent, InSequence

\* What does not touch the line leaves what was sent of it.
LEMMA SentStays ==
    ASSUME SentInv, UNCHANGED <<input, it, calls>>,
           \/ pc' \in {"usage", "crashed", "ended"} \/ pc' = pc
           \/ pc = "arguments" /\ pc' = "prompt"
    PROVE  SentInv'
<1>1. /\ InSequence' <=> InSequence /\ Sent' = Sent
      /\ \A p : (Command(p)' <=> Command(p)) /\ (C!Mistaken(p)' <=> C!Mistaken(p))
  BY DEF InSequence, Sent, Command, C!Mistaken
<1>2. CASE pc' = pc
  <2>1. C!CommandsAreSent' <=> C!CommandsAreSent
    BY <1>2 DEF C!CommandsAreSent, C!Mistaken
  <2> QED
    BY <1>2, <2>1 DEF SentInv, InSequence, Sent, Command, C!Mistaken
<1>3. CASE pc' \in {"usage", "crashed", "ended"}
  BY <1>1, <1>3 DEF SentInv, C!CommandsAreSent, InSequence
<1>4. CASE pc = "arguments" /\ pc' = "prompt"
  <2>1. input' = <<>> /\ calls' = <<>>
    BY <1>4 DEF SentInv
  <2> QED
    BY <1>1, <1>4, <2>1 DEF SentInv, C!CommandsAreSent, InSequence
<1> QED
  BY <1>2, <1>3, <1>4

-----------------------------------------------------------------------------
(* am_client                                                               *)

ToolInv == C!TypeOK /\ TakenInv /\ SentInv

LEMMA ToolInit == C!Init => ToolInv
<1> SUFFICES ASSUME C!Init PROVE ToolInv
  OBVIOUS
<1>1. argv \in Seq(C!Argument)
  <2>1. PICK n \in 0..MaxArguments : argv \in [1..n -> C!Argument]
    BY DEF C!Init, C!UpTo
  <2>2. n \in Nat
    BY SequentialOK DEF C!AmClientOK
  <2> QED
    BY <2>1, <2>2
<1>2. C!TypeOK
  <2>1. <<>> \in Seq(C!Word) /\ <<>> \in Seq(Nat \X C!Word) /\ Len(<<>>) = 0
    OBVIOUS
  <2>2. Len(argv) \in Nat
    BY <1>1
  <2>3. i \in 1..(Len(argv) + 1) /\ it \in 1..(Len(input) + 1)
    BY <2>1, <2>2 DEF C!Init
  <2> QED
    BY <1>1, <2>1, <2>3 DEF C!Init, C!TypeOK
<1>3. TakenInv
  <2>1. C!Reached(i)
    BY StepsAre DEF C!Init, C!Reached
  <2>2. \A option, default : GivenUpTo(option, default, i) = default
    BY DEF C!Init, GivenUpTo, GivenAt
  <2> QED
    BY <2>1, <2>2 DEF C!Init, TakenInv
<1>4. SentInv
  BY DEF C!Init, SentInv, InSequence, C!CommandsAreSent
<1> QED
  BY <1>2, <1>3, <1>4 DEF ToolInv

\* A command or help is understood, or the line is given up.
LEMMA WordStep ==
    ASSUME C!TypeOK, C!Load \/ C!Mute \/ C!Volume \/ C!Help \/ C!Unknown
    PROVE  \/ \E w : Understands(w)
           \/ C!GiveUp /\ pc = "input" /\ it <= Len(input) /\ C!Mistaken(it)
<1>1. it \in Nat \ {0} /\ Len(input) \in Nat /\ calls \in Seq(Nat \X C!Word)
  BY DEF C!TypeOK
<1>2. CASE C!Load
  <2>1. Understands(1)
    BY <1>1, <1>2 DEF C!Load, C!AtWord, C!Call, Understands, C!Mistaken, WithValue, C!global
  <2> QED
    BY <2>1
<1>3. CASE C!Help
  <2>1. Understands(1)
    BY <1>1, <1>3 DEF C!Help, C!AtWord, C!PassOver, Understands, C!Mistaken, WithValue, C!global
  <2> QED
    BY <2>1
<1>4. CASE C!Mute
  <2>1. CASE C!Understood(C!Booleans)
    <3>1. Understands(2)
      BY <1>1, <1>4, <2>1 DEF C!Mute, C!AtWord, C!Call, C!Understood, Understands,
                              C!Mistaken, WithValue, C!global
    <3> QED
      BY <3>1
  <2>2. CASE ~C!Understood(C!Booleans)
    BY <1>1, <1>4, <2>2 DEF C!Mute, C!AtWord, C!Understood, C!Mistaken
  <2> QED
    BY <2>1, <2>2
<1>5. CASE C!Volume
  <2>1. CASE C!Understood(C!Numbers)
    <3>1. Understands(2)
      BY <1>1, <1>5, <2>1 DEF C!Volume, C!AtWord, C!Call, C!Understood, Understands,
                              C!Mistaken, WithValue, C!global
    <3> QED
      BY <3>1
  <2>2. CASE ~C!Understood(C!Numbers)
    BY <1>1, <1>5, <2>2 DEF C!Volume, C!AtWord, C!Understood, C!Mistaken
  <2> QED
    BY <2>1, <2>2
<1>6. CASE C!Unknown
  BY <1>6 DEF C!Unknown, C!AtWord, C!Mistaken
<1> QED
  BY <1>2, <1>3, <1>4, <1>5, <1>6

LEMMA ToolStep ==
    ASSUME ToolInv, [C!Next]_(C!vars)
    PROVE  ToolInv'
<1> USE DEF ToolInv
<1>1. CASE C!Protocol \/ C!Ip
  <2>1. UNCHANGED <<input, it, calls>> /\ pc' \in {pc, "usage"}
    BY <1>1 DEF C!Protocol, C!Ip, C!Usage
  <2> QED
    BY <1>1, <2>1, OptionStep, SentStays
<1>2. CASE C!Address
  <2>1. UNCHANGED <<input, it, calls, pc>>
    BY <1>2 DEF C!Address
  <2> QED
    BY <1>2, <2>1, AddressStep, SentStays
<1>3. CASE C!PrintUsage \/ C!MissingValue \/ C!ArgumentsEnd \/ C!EndOfInput
           \/ UNCHANGED C!vars \/ C!Ended
  <2>1. UNCHANGED <<argv, i, g_base_address, g_use_udp, g_host_address, input, it, calls>>
    BY <1>3 DEF C!PrintUsage, C!MissingValue, C!ArgumentsEnd, C!EndOfInput, C!Ended,
                C!Usage, C!vars, C!global
  <2>2. \/ pc' = "usage" \/ pc' = pc
        \/ pc = "arguments" /\ pc' = "prompt" /\ g_base_address # C!Nothing
        \/ pc = "prompt" /\ pc' = "ended"
        \/ pc' = "crashed" /\ i = Len(argv) /\ argv[Len(argv)] \in C!Options
    <3>1. CASE C!MissingValue
      <4>1. i = Len(argv)
        BY <3>1 DEF C!MissingValue, C!argc, C!TypeOK
      <4> QED
        BY <3>1, <4>1 DEF C!MissingValue, C!AtArgument
    <3> QED
      BY <1>3, <3>1 DEF C!PrintUsage, C!ArgumentsEnd, C!EndOfInput, C!Ended, C!Usage, C!vars
  <2>3. C!TypeOK'
    BY <2>1, <2>2 DEF C!TypeOK
  <2>4. TakenInv'
    BY <2>1, <2>2, TakenStays DEF TakenInv, C!TypeOK
  <2>5. SentInv'
    BY <2>1, <2>2, SentStays
  <2> QED
    BY <2>3, <2>4, <2>5
<1>4. CASE C!ReadLine
  <2>1. /\ UNCHANGED <<argv, i, g_base_address, g_use_udp, g_host_address>>
        /\ pc = "prompt" /\ pc' = "input"
    BY <1>4 DEF C!ReadLine, C!global
  <2>2. TakenInv'
    BY <2>1, TakenStays DEF TakenInv
  <2> QED
    BY <1>4, <2>2, LineStep
<1>5. ASSUME NEW w, Understands(w)
      PROVE  ToolInv'
  <2>1. TakenInv'
    BY <1>5, TakenStays DEF Understands, TakenInv
  <2> QED
    BY <1>5, <2>1, UnderstandStep
<1>6. CASE \/ C!LineEnds
           \/ C!GiveUp /\ pc = "input" /\ it <= Len(input) /\ C!Mistaken(it)
  <2>1. /\ UNCHANGED <<argv, i, g_base_address, g_use_udp, g_host_address, input, it, calls>>
        /\ pc = "input" /\ pc' = "prompt" /\ (it > Len(input) \/ C!Mistaken(it))
    BY <1>6 DEF C!LineEnds, C!GiveUp, C!global
  <2>2. TakenInv'
    BY <2>1, TakenStays DEF TakenInv
  <2>3. C!TypeOK'
    BY <2>1 DEF C!TypeOK
  <2> QED
    BY <2>1, <2>2, <2>3, PromptStep
<1>7. CASE C!Load \/ C!Mute \/ C!Volume \/ C!Help \/ C!Unknown
  BY <1>5, <1>6, <1>7, WordStep
<1> HIDE DEF ToolInv
<1> QED
  BY <1>1, <1>2, <1>3, <1>4, <1>6, <1>7 DEF C!Next

LEMMA ToolInvariant == C!Spec => []ToolInv
  BY ToolInit, ToolStep, PTL DEF C!Spec
=============================================================================
