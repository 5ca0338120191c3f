---------------------------- MODULE OscPackProofs ----------------------------
(***************************************************************************)
(* Machine-checked proofs about voscpack and oscsize, for any lengths of   *)
(* addresses and strings and any number of arguments.  Sizes are sums over *)
(* the arguments, and what a sum is follows by induction (Recursion).      *)
(***************************************************************************)
EXTENDS Sequential, Recursion, SequenceTheorems

-----------------------------------------------------------------------------
(* Sums                                                                    *)

\* The recursive definition of the sums has a solution, and so defines them.
LEMMA SumsAre ==
    ASSUME NEW base \in Nat, NEW numbers \in Seq(Nat)
    PROVE  /\ O!Sums(base, numbers) \in [0..Len(numbers) -> Nat]
           /\ O!Sums(base, numbers)[0] = base
           /\ \A n \in 1..Len(numbers) :
                O!Sums(base, numbers)[n] = O!Sums(base, numbers)[n - 1] + numbers[n]
<1> DEFINE N == Len(numbers)
           F(g) == [n \in 0..N |-> IF n = 0 THEN base ELSE g[n - 1] + numbers[n]]
           add == [p \in Nat \X Nat |->
                      IF p[1] + 1 \in 1..N THEN p[2] + numbers[p[1] + 1] ELSE p[2]]
<1>1. N \in Nat /\ \A n \in 1..N : numbers[n] \in Nat
  OBVIOUS
<1> HIDE DEF N
<1>2. Steps(Nat, base, add)
  BY <1>1 DEF Steps
<1>3. PICK g : Goes(g, Nat, base, add)
  BY <1>2, RecursionExists
<1>4. ASSUME NEW n \in 1..N
      PROVE  g[n] = g[n - 1] + numbers[n]
  <2>1. n - 1 \in Nat /\ (n - 1) + 1 = n /\ g[n - 1] \in Nat
    BY <1>1, <1>3, <1>4 DEF Goes
  <2>2. g[n] = add[<<n - 1, g[n - 1]>>]
    BY <1>3, <2>1 DEF Goes
  <2> QED
    BY <2>1, <2>2, <1>4
<1> DEFINE f == [n \in 0..N |-> g[n]]
<1>5. f = F(f)
  BY <1>1, <1>3, <1>4 DEF Goes
<1>6. O!Sums(base, numbers) = F(O!Sums(base, numbers))
  <2>1. \E h : h = F(h)
    <3> HIDE DEF f
    <3> QED
      BY <1>5
  <2>2. O!Sums(base, numbers) = CHOOSE h : h = F(h)
    BY DEF O!Sums, N
  <2> HIDE DEF F
  <2> QED
    BY <2>1, <2>2
<1> DEFINE s == O!Sums(base, numbers)
           U == {n \in Nat : n <= N => s[n] \in Nat}
<1>7. /\ DOMAIN s = 0..N /\ s[0] = base
      /\ \A n \in 1..N : s[n] = s[n - 1] + numbers[n]
  <2> DEFINE r == F(s)
  <2>1. s = r
    BY <1>6 DEF s
  <2>2. DOMAIN r = 0..N /\ r[0] = base
    BY <1>1
  <2>3. ASSUME NEW n \in 1..N
        PROVE  r[n] = s[n - 1] + numbers[n]
    BY <1>1
  <2> HIDE DEF s, r
  <2> QED
    BY <2>1, <2>2, <2>3
<1> HIDE DEF s
<1>8. Nat \subseteq U
  <2>1. 0 \in U
    BY <1>7
  <2>2. ASSUME NEW n \in Nat, n \in U
        PROVE  n + 1 \in U
    <3> SUFFICES ASSUME n + 1 <= N PROVE s[n + 1] \in Nat
      OBVIOUS
    <3>1. n + 1 \in 1..N /\ s[n] \in Nat /\ (n + 1) - 1 = n
      BY <1>1, <2>2
    <3>2. s[n + 1] = s[n] + numbers[n + 1] /\ numbers[n + 1] \in Nat
      BY <1>1, <1>7, <3>1
    <3>3. \A x, y \in Nat : x + y \in Nat
      OBVIOUS
    <3> HIDE DEF F, add, f, U
    <3> QED
      BY <3>1, <3>2, <3>3
  <2> HIDE DEF U
  <2> QED
    BY <2>1, <2>2, SetInduction
<1>9. s \in [0..N -> Nat]
  <2>1. \A n \in 0..N : s[n] \in Nat
    BY <1>1, <1>8
  <2>2. s = [n \in DOMAIN s |-> s[n]]
    BY <1>6 DEF s
  <2> QED
    BY <1>7, <2>1, <2>2
<1> QED
  BY <1>7, <1>9 DEF s, N

\* The same, for a sequence of N numbers.
Adds(s, base, numbers, N) ==
    /\ s \in [0..N -> Nat] /\ s[0] = base
    /\ \A n \in 1..N : numbers[n] \in Nat /\ s[n] = s[n - 1] + numbers[n]

LEMMA SumsAdd ==
    ASSUME NEW base \in Nat, NEW numbers \in Seq(Nat), NEW N \in Nat, Len(numbers) = N
    PROVE  /\ Adds(O!Sums(base, numbers), base, numbers, N)
           /\ O!Total(base, numbers) = O!Sums(base, numbers)[N]
<1>1. /\ O!Sums(base, numbers) \in [0..N -> Nat]
      /\ O!Sums(base, numbers)[0] = base
      /\ \A n \in 1..N : O!Sums(base, numbers)[n] = O!Sums(base, numbers)[n - 1] + numbers[n]
  <2>1. Len(numbers) = N
    OBVIOUS
  <2>2. /\ O!Sums(base, numbers) \in [0..Len(numbers) -> Nat]
        /\ O!Sums(base, numbers)[0] = base
        /\ \A n \in 1..Len(numbers) :
             O!Sums(base, numbers)[n] = O!Sums(base, numbers)[n - 1] + numbers[n]
    BY SumsAre
  <2> QED
    BY <2>1, <2>2
<1>2. \A n \in 1..N : numbers[n] \in Nat
  OBVIOUS
<1> QED
  BY <1>1, <1>2 DEF Adds, O!Total

LEMMA TotalIsNat ==
    ASSUME NEW base \in Nat, NEW numbers \in Seq(Nat)
    PROVE  O!Total(base, numbers) \in Nat
<1>1. O!Sums(base, numbers) \in [0..Len(numbers) -> Nat] /\ Len(numbers) \in 0..Len(numbers)
  BY SumsAre
<1> QED
  BY <1>1 DEF O!Total

\* A sum is its base at least, and its base if there are only zeros to add.
LEMMA SumsGrow ==
    ASSUME NEW N \in Nat, NEW base \in Nat, NEW numbers, NEW s, Adds(s, base, numbers, N)
    PROVE  base <= s[N] /\ ((\A n \in 1..N : numbers[n] = 0) => s[N] = base)
<1> DEFINE Zeros == \A n \in 1..N : numbers[n] = 0
           U == {n \in Nat : n <= N => base <= s[n] /\ (Zeros => s[n] = base)}
<1>1. 0 \in U
  BY DEF Adds
<1>2. ASSUME NEW n \in Nat, n \in U
      PROVE  n + 1 \in U
  <2> SUFFICES ASSUME n + 1 <= N
               PROVE  base <= s[n + 1] /\ (Zeros => s[n + 1] = base)
    OBVIOUS
  <2>1. n + 1 \in 1..N /\ n \in 0..N /\ (n + 1) - 1 = n
    OBVIOUS
  <2>2. base <= s[n] /\ (Zeros => s[n] = base)
    BY <1>2, <2>1
  <2>3. s[n] \in Nat /\ numbers[n + 1] \in Nat /\ s[n + 1] = s[n] + numbers[n + 1]
    BY <2>1 DEF Adds
  <2>4. Zeros => numbers[n + 1] = 0
    BY <2>1
  <2> HIDE DEF U, Zeros
  <2> QED
    BY <2>2, <2>3, <2>4
<1>3. Nat \subseteq U
  <2> HIDE DEF U
  <2> QED
    BY <1>1, <1>2, SetInduction
<1> QED
  BY <1>3

LEMMA PairsAdd ==
    ASSUME NEW a \in Nat, NEW b \in Nat, NEW c \in Nat, NEW d \in Nat,
           NEW x, NEW y, x = a + b, y = c + d
    PROVE  x + y = (a + c) + (b + d)
  OBVIOUS

\* Two sequences against two others: behind by one at each position, ahead by
\* as many at the base, they are even in total.
LEMMA SumsInBalance ==
    ASSUME NEW N \in Nat,
           NEW b1, NEW q1, NEW s1, Adds(s1, b1, q1, N),
           NEW b2, NEW q2, NEW s2, Adds(s2, b2, q2, N),
           NEW b3, NEW q3, NEW s3, Adds(s3, b3, q3, N),
           NEW b4, NEW q4, NEW s4, Adds(s4, b4, q4, N),
           b1 + b2 = b3 + b4 + N,
           \A n \in 1..N : q1[n] + q2[n] + 1 = q3[n] + q4[n]
    PROVE  s1[N] + s2[N] = s3[N] + s4[N]
<1> DEFINE U == {n \in Nat : n <= N => s1[n] + s2[n] + n = s3[n] + s4[n] + N}
<1>1. 0 \in U
  BY DEF Adds
<1>2. ASSUME NEW n \in Nat, n \in U
      PROVE  n + 1 \in U
  <2> SUFFICES ASSUME n + 1 <= N PROVE s1[n + 1] + s2[n + 1] + (n + 1) = s3[n + 1] + s4[n + 1] + N
    OBVIOUS
  <2>1. n + 1 \in 1..N /\ n \in 0..N /\ (n + 1) - 1 = n
    OBVIOUS
  <2>2. /\ s1[n] + s2[n] + n = s3[n] + s4[n] + N
        /\ q1[n + 1] + q2[n + 1] + 1 = q3[n + 1] + q4[n + 1]
    BY <1>2, <2>1
  <2>3. s1[n] \in Nat /\ q1[n + 1] \in Nat /\ s1[n + 1] = s1[n] + q1[n + 1]
    BY <2>1 DEF Adds
  <2>4. s2[n] \in Nat /\ q2[n + 1] \in Nat /\ s2[n + 1] = s2[n] + q2[n + 1]
    BY <2>1 DEF Adds
  <2>5. s3[n] \in Nat /\ q3[n + 1] \in Nat /\ s3[n + 1] = s3[n] + q3[n + 1]
    BY <2>1 DEF Adds
  <2>6. s4[n] \in Nat /\ q4[n + 1] \in Nat /\ s4[n + 1] = s4[n] + q4[n + 1]
    BY <2>1 DEF Adds
  <2>7. s1[n + 1] + s2[n + 1] = (s1[n] + s2[n]) + (q1[n + 1] + q2[n + 1])
    BY <2>3, <2>4, PairsAdd
  <2>8. s3[n + 1] + s4[n + 1] = (s3[n] + s4[n]) + (q3[n + 1] + q4[n + 1])
    BY <2>5, <2>6, PairsAdd
  <2>9. /\ s1[n] + s2[n] \in Nat /\ s3[n] + s4[n] \in Nat
        /\ q1[n + 1] + q2[n + 1] \in Nat /\ q3[n + 1] + q4[n + 1] \in Nat
    BY <2>3, <2>4, <2>5, <2>6
  <2>10. \A a, b, c, d \in Nat :
            a + n = b + N /\ c + 1 = d => (a + c) + (n + 1) = (b + d) + N
    OBVIOUS
  <2> HIDE DEF U
  <2> QED
    BY <2>2, <2>7, <2>8, <2>9, <2>10
<1>3. Nat \subseteq U
  <2> HIDE DEF U
  <2> QED
    BY <1>1, <1>2, SetInduction
<1>4. s1[N] + s2[N] + N = s3[N] + s4[N] + N
  BY <1>3
<1>5. s1[N] \in Nat /\ s2[N] \in Nat /\ s3[N] \in Nat /\ s4[N] \in Nat
  BY DEF Adds
<1>6. s1[N] + s2[N] \in Nat /\ s3[N] + s4[N] \in Nat
  BY <1>5
<1> HIDE DEF U
<1> QED
  BY <1>4, <1>6

\* Multiples of four add up to multiples of four.
LEMMA SumsOfFours ==
    ASSUME NEW base \in Nat, NEW numbers \in Seq(Nat), base % 4 = 0,
           \A n \in 1..Len(numbers) : numbers[n] % 4 = 0
    PROVE  \A n \in 0..Len(numbers) : O!Sums(base, numbers)[n] % 4 = 0
<1> DEFINE N == Len(numbers)
           s == O!Sums(base, numbers)
           U == {n \in Nat : n <= N => s[n] % 4 = 0}
<1>1. /\ s \in [0..N -> Nat] /\ s[0] = base
      /\ \A n \in 1..N : s[n] = s[n - 1] + numbers[n]
  BY SumsAre
<1>2. N \in Nat /\ \A n \in 1..N : numbers[n] \in Nat
  OBVIOUS
<1> HIDE DEF s, N
<1>3. 0 \in U
  BY <1>1
<1>4. ASSUME NEW n \in Nat, n \in U
      PROVE  n + 1 \in U
  <2> SUFFICES ASSUME n + 1 <= N PROVE s[n + 1] % 4 = 0
    OBVIOUS
  <2>1. n + 1 \in 1..N /\ n \in 0..N /\ (n + 1) - 1 = n
    BY <1>2
  <2>2. s[n] % 4 = 0 /\ s[n] \in Nat
    BY <1>1, <1>4, <2>1
  <2>3. numbers[n + 1] % 4 = 0 /\ numbers[n + 1] \in Nat
    BY <1>2, <2>1 DEF N
  <2>4. s[n + 1] = s[n] + numbers[n + 1]
    BY <1>1, <2>1
  <2>5. \A a, b \in Nat : a % 4 = 0 /\ b % 4 = 0 => (a + b) % 4 = 0
    OBVIOUS
  <2> HIDE DEF U
  <2> QED
    BY <2>2, <2>3, <2>4, <2>5
<1>5. Nat \subseteq U
  <2> HIDE DEF U
  <2> QED
    BY <1>3, <1>4, SetInduction
<1> QED
  BY <1>2, <1>5 DEF N, s

-----------------------------------------------------------------------------
(* Sizes                                                                   *)

\* A string and the zeros behind it are an OSC string.
LEMMA PaddedString ==
    ASSUME NEW n \in Nat
    PROVE  /\ O!Pad(n) \in 1..4 /\ n + O!Pad(n) \in Nat
           /\ n + O!Pad(n) = O!OscString(n)
<1>1. n % 4 \in 0..3 /\ n = 4 * (n \div 4) + (n % 4) /\ n \div 4 \in Nat
  OBVIOUS
<1> QED
  BY <1>1 DEF O!Pad, O!OscString

LEMMA LengthIsNat ==
    ASSUME NEW arg \in O!Args
    PROVE  arg.len \in Nat
<1>1. StrLens \subseteq Nat
  BY SequentialOK DEF O!ConstantsOK
<1>2. CASE arg \in [tag : (O!Supported \ {"s"}) \cup O!Unsupported, len : {0}]
  BY <1>2
<1>3. CASE arg \in [tag : {"s"}, len : StrLens]
  BY <1>1, <1>3
<1> QED
  BY <1>2, <1>3 DEF O!Args

\* OSC gives an argument a number of bytes.
LEMMA OscArgumentIsNat ==
    ASSUME NEW arg \in O!Args
    PROVE  O!OscArgument(arg) \in Nat
<1>1. arg.len \in Nat
  BY LengthIsNat
<1>2. O!OscString(arg.len) \in Nat
  BY <1>1 DEF O!OscString
<1> QED
  BY <1>2 DEF O!OscArgument

\* The numbers which OscMessage adds up.
Base == O!OscString(addr) + O!OscString(Len(args) + 1)
Bytes == [x \in DOMAIN args |-> O!OscArgument(args[x])]
AllSupported == \A x \in DOMAIN args : args[x].tag \in O!Supported

LEMMA BaseAndBytes ==
    ASSUME O!TypeOK
    PROVE  /\ Base \in Nat
           /\ Base = addr + O!Pad(addr) + 1 + Len(args) + O!Pad(O!Tags)
           /\ Bytes \in Seq(Nat) /\ Len(Bytes) = Len(args)
           /\ \A x \in 1..Len(args) :
                Bytes[x] = O!OscArgument(args[x]) /\ Bytes[x] \in Nat
           /\ O!OscMessage = O!Sums(Base, Bytes)[Len(args)]
<1>1. addr \in Nat /\ args \in Seq(O!Args) /\ Len(args) \in Nat /\ DOMAIN args = 1..Len(args)
  BY SequentialOK DEF O!TypeOK, O!ConstantsOK
<1>2. /\ Base \in Nat
      /\ Base = addr + O!Pad(addr) + 1 + Len(args) + O!Pad(O!Tags)
  <2>1. /\ O!Pad(addr) \in Nat /\ addr + O!Pad(addr) = O!OscString(addr)
        /\ addr + O!Pad(addr) \in Nat
    <3>1. addr \in Nat
      BY <1>1
    <3> QED
      BY <3>1, PaddedString
  <2>2. /\ O!Tags \in Nat /\ O!Tags = Len(args) + 1
    BY <1>1 DEF O!Tags
  <2>3. /\ O!Pad(O!Tags) \in Nat /\ O!Tags + O!Pad(O!Tags) = O!OscString(O!Tags)
        /\ O!Tags + O!Pad(O!Tags) \in Nat
    <3>1. O!Tags \in Nat
      BY <2>2
    <3> QED
      BY <3>1, PaddedString
  <2>4. Base = O!OscString(addr) + O!OscString(O!Tags)
    BY DEF Base, O!Tags
  <2>5. Base = (addr + O!Pad(addr)) + (O!Tags + O!Pad(O!Tags))
    BY <2>1, <2>3, <2>4
  <2>6. \A a, b, c, d \in Nat : (a + b) + ((c + 1) + d) = a + b + 1 + c + d
    OBVIOUS
  <2>7. Base = addr + O!Pad(addr) + 1 + Len(args) + O!Pad(O!Tags)
    BY <1>1, <2>1, <2>2, <2>3, <2>5, <2>6
  <2>8. Base \in Nat
    BY <2>1, <2>3, <2>5
  <2> QED
    BY <2>7, <2>8
<1>3. \A x \in 1..Len(args) : Bytes[x] = O!OscArgument(args[x]) /\ Bytes[x] \in Nat
  BY <1>1, OscArgumentIsNat DEF Bytes
<1>4. Bytes \in Seq(Nat) /\ Len(Bytes) = Len(args)
  BY <1>1, <1>3 DEF Bytes
<1>5. O!OscMessage = O!Sums(Base, Bytes)[Len(args)]
  BY <1>4 DEF O!OscMessage, O!Total, Base, Bytes
<1> QED
  BY <1>2, <1>3, <1>4, <1>5

-----------------------------------------------------------------------------
(* voscpack                                                                *)

\* What has been counted is the size of what has been packed so far.
PackInv ==
    /\ O!TypeOK /\ Len(args) <= MaxArgs /\ k <= Len(args) + 1
    /\ O!SizeIsWritten
    /\ step \notin {"addr", "done"} => slash
    /\ step \in {"addr", "pad_addr", "comma"} => k = 1
    /\ step = "addr" => size = 0
    /\ step = "pad_addr" => length = addr /\ size = addr
    /\ step = "comma" => size = addr + O!Pad(addr)
    /\ step = "tags" =>
         /\ length = O!Tags /\ size = addr + O!Pad(addr) + k
         /\ \A x \in 1..(k - 1) : args[x].tag \in O!Supported
    /\ step \in {"args", "pad_str"} => AllSupported
    /\ step = "args" => size = O!Sums(Base, Bytes)[k - 1]
    /\ step = "pad_str" =>
         /\ k \in 1..Len(args) /\ args[k].tag = "s" /\ length = args[k].len
         /\ size = O!Sums(Base, Bytes)[k - 1] + length
    /\ O!ReturnsOscSize

LEMMA PackInit == O!Init => PackInv
<1> SUFFICES ASSUME O!Init PROVE PackInv
  OBVIOUS
<1>1. PICK n \in 0..MaxArgs : args \in [1..n -> O!Args]
  BY DEF O!Init
<1>2. n \in Nat /\ MaxArgs \in Nat
  BY SequentialOK DEF O!ConstantsOK
<1>3. args \in Seq(O!Args) /\ Len(args) = n
  BY <1>1, <1>2
<1> QED
  BY <1>1, <1>2, <1>3 DEF O!Init, PackInv, O!TypeOK, O!SizeIsWritten, O!ReturnsOscSize

\* The sums of a message which stays the same stay the same.
LEMMA SameMessage ==
    ASSUME UNCHANGED O!input
    PROVE  /\ Base' = Base /\ Bytes' = Bytes /\ O!OscMessage' = O!OscMessage
           /\ AllSupported' = AllSupported /\ O!Tags' = O!Tags
  BY DEF O!input, Base, Bytes, AllSupported, O!OscMessage, O!Tags

\* The lengths that are packed are numbers.
LEMMA LengthsAre ==
    ASSUME O!TypeOK
    PROVE  /\ addr \in Nat /\ O!Pad(addr) \in Nat /\ MaxArgs \in Nat
           /\ length \in Nat /\ O!Pad(length) \in Nat
           /\ args \in Seq(O!Args) /\ Len(args) \in Nat /\ DOMAIN args = 1..Len(args)
           /\ size \in Nat /\ written \in Nat
           /\ O!Tags \in Nat /\ O!Tags = Len(args) + 1
<1>1. /\ addr \in Nat /\ MaxArgs \in Nat /\ length \in Nat
      /\ args \in Seq(O!Args) /\ Len(args) \in Nat /\ DOMAIN args = 1..Len(args)
      /\ size \in Nat /\ written \in Nat
  BY SequentialOK DEF O!TypeOK, O!ConstantsOK
<1>2. O!Pad(addr) \in Nat
  <2>1. addr \in Nat
    BY <1>1
  <2> QED
    BY <2>1, PaddedString
<1>3. O!Pad(length) \in Nat
  <2>1. length \in Nat
    BY <1>1
  <2> QED
    BY <2>1, PaddedString
<1> QED
  BY <1>1, <1>2, <1>3 DEF O!Tags

\* The address is copied, or refused.
LEMMA PackAddressStep ==
    ASSUME PackInv, O!PackAddress
    PROVE  PackInv'
<1>1. UNCHANGED O!input
  BY DEF O!PackAddress, O!Fail
<1>2. CASE ~slash
  <2>1. /\ result' = -1 /\ step' = "done"
        /\ UNCHANGED <<slash, addr, args, k, length, written, size>>
    BY <1>2 DEF O!PackAddress, O!Fail, O!input
  <2>2. O!TypeOK'
    BY <2>1 DEF PackInv, O!TypeOK
  <2> QED
    BY <1>2, <2>1, <2>2 DEF PackInv, O!SizeIsWritten, O!ReturnsOscSize
<1>3. CASE slash
  <2>1. /\ length' = addr /\ written' = written + addr /\ size' = size + addr
        /\ step' = "pad_addr" /\ UNCHANGED <<slash, addr, args, k, result>>
    BY <1>3 DEF O!PackAddress, O!Advance, O!input
  <2>2. addr \in Nat /\ k = 1 /\ size = 0 /\ written = 0
    BY LengthsAre DEF PackInv, O!PackAddress, O!SizeIsWritten
  <2>3. size' = addr /\ written' = addr
    BY <2>1, <2>2
  <2>4. O!TypeOK'
    BY <2>1, <2>2, <2>3 DEF PackInv, O!TypeOK
  <2> QED
    BY <1>3, <2>1, <2>2, <2>3, <2>4 DEF PackInv, O!SizeIsWritten, O!ReturnsOscSize
<1> QED
  BY <1>2, <1>3

\* The address is padded by its own length.
LEMMA PadAddressStep ==
    ASSUME PackInv, O!PadAddress
    PROVE  PackInv'
<1>1. /\ length' = O!Pad(length)
      /\ written' = written + O!Pad(length) /\ size' = size + O!Pad(length)
      /\ step' = "comma" /\ UNCHANGED <<slash, addr, args, k, result>>
  BY DEF O!PadAddress, O!PadLen, O!Advance, O!input
<1>2. /\ step = "pad_addr" /\ slash /\ k = 1 /\ length = addr
      /\ size = addr /\ written = addr
  BY DEF PackInv, O!PadAddress, O!SizeIsWritten
<1>3. addr \in Nat /\ O!Pad(addr) \in Nat
  BY LengthsAre DEF PackInv
<1>4. /\ length' \in Nat /\ size' \in Nat /\ written' = size'
      /\ size' = addr + O!Pad(addr)
  BY <1>1, <1>2, <1>3
<1>5. O!TypeOK'
  BY <1>1, <1>4 DEF PackInv, O!TypeOK
<1> QED
  BY <1>1, <1>2, <1>4, <1>5 DEF PackInv, O!SizeIsWritten, O!ReturnsOscSize

\* The comma is packed, and the number of tags remembered.
LEMMA CommaStep ==
    ASSUME PackInv, O!PackComma
    PROVE  PackInv'
<1>1. /\ length' = O!Tags /\ written' = written + 1 /\ size' = size + 1
      /\ step' = "tags" /\ UNCHANGED <<slash, addr, args, k, result>>
      /\ UNCHANGED O!input
  BY DEF O!PackComma, O!input
<1>2. /\ step = "comma" /\ slash /\ k = 1
      /\ size = addr + O!Pad(addr) /\ written = size
  BY DEF PackInv, O!PackComma, O!SizeIsWritten
<1>3. addr \in Nat /\ O!Pad(addr) \in Nat /\ O!Tags \in Nat
  BY LengthsAre DEF PackInv
<1>4. /\ length' \in Nat /\ size' \in Nat /\ written' = size' /\ length' = O!Tags'
      /\ size' = addr + O!Pad(addr) + k
  BY <1>1, <1>2, <1>3, SameMessage
<1>5. O!TypeOK'
  BY <1>1, <1>4 DEF PackInv, O!TypeOK
<1> QED
  BY <1>1, <1>2, <1>4, <1>5 DEF PackInv, O!SizeIsWritten, O!ReturnsOscSize

\* A tag is packed, or refused.
LEMMA TagStep ==
    ASSUME PackInv, O!PackTag
    PROVE  PackInv'
<1>1. /\ step = "tags" /\ slash /\ k \in 1..Len(args) /\ UNCHANGED O!input
      /\ Len(args) \in Nat /\ DOMAIN args = 1..Len(args) /\ MaxArgs \in Nat
  BY SequentialOK DEF PackInv, O!PackTag, O!Fail, O!TypeOK, O!ConstantsOK
<1>2. CASE args[k].tag \notin O!Supported
  <2>1. /\ result' = -1 /\ step' = "done"
        /\ UNCHANGED <<slash, addr, args, k, length, written, size>>
    BY <1>2 DEF O!PackTag, O!Fail, O!input, O!Known
  <2>2. O!TypeOK'
    BY <2>1 DEF PackInv, O!TypeOK
  <2> QED
    BY <1>1, <1>2, <2>1, <2>2 DEF PackInv, O!SizeIsWritten, O!ReturnsOscSize
<1>3. CASE args[k].tag \in O!Supported
  <2>1. /\ written' = written + 1 /\ size' = size + 1 /\ k' = k + 1
        /\ UNCHANGED <<slash, addr, args, step, length, result>>
    BY <1>3 DEF O!PackTag, O!input, O!Known
  <2>2. written' \in Nat /\ size' \in Nat /\ k' \in 1..(Len(args) + 1) /\ k' \in 1..(MaxArgs + 1)
    BY <1>1, <2>1 DEF PackInv, O!TypeOK
  <2>3. O!TypeOK'
    BY <2>1, <2>2 DEF PackInv, O!TypeOK
  <2>6. length' = O!Tags'
    BY <1>1, <2>1, SameMessage DEF PackInv
  <2>4. \A x \in 1..(k' - 1) : args[x].tag \in O!Supported
    BY <1>1, <1>3, <2>1 DEF PackInv
  <2>5. size' = addr + O!Pad(addr) + k' /\ size' = written'
    <3>1. addr \in Nat /\ O!Pad(addr) \in Nat
      BY LengthsAre DEF PackInv
    <3>2. size = addr + O!Pad(addr) + k /\ size = written /\ k \in Nat
      BY <1>1 DEF PackInv, O!SizeIsWritten
    <3> QED
      BY <2>1, <3>1, <3>2
  <2> QED
    BY <1>1, <2>1, <2>2, <2>3, <2>4, <2>5, <2>6 DEF PackInv, O!SizeIsWritten, O!ReturnsOscSize
<1> QED
  BY <1>2, <1>3

\* The tags and the comma are padded, and no argument is packed yet.
LEMMA PadStep ==
    ASSUME PackInv, O!PadTags
    PROVE  PackInv'
<1>1. /\ step = "tags" /\ slash /\ k = Len(args) + 1 /\ UNCHANGED O!input
      /\ length = O!Tags /\ size = addr + O!Pad(addr) + k /\ written = size
  BY LengthsAre DEF PackInv, O!PadTags, O!TypeOK, O!SizeIsWritten
<1>2. /\ length' = O!Pad(length)
      /\ written' = written + O!Pad(length) /\ size' = size + O!Pad(length)
      /\ step' = "args" /\ k' = 1 /\ UNCHANGED <<slash, addr, args, result>>
  BY DEF O!PadTags, O!PadLen, O!Advance, O!input
<1>3. /\ Base \in Nat /\ Bytes \in Seq(Nat)
      /\ Base = addr + O!Pad(addr) + 1 + Len(args) + O!Pad(O!Tags)
  BY BaseAndBytes DEF PackInv
<1>4. O!Sums(Base, Bytes)[0] = Base
  BY <1>3, SumsAre
<1>5. /\ addr \in Nat /\ O!Pad(addr) \in Nat /\ O!Pad(length) \in Nat
      /\ Len(args) \in Nat /\ DOMAIN args = 1..Len(args) /\ MaxArgs \in Nat
  BY LengthsAre DEF PackInv
<1>6. size' = Base /\ size' = written' /\ length' \in Nat
  BY <1>1, <1>2, <1>3, <1>5
<1>7. size' = O!Sums(Base', Bytes')[k' - 1]
  BY <1>1, <1>2, <1>4, <1>6, SameMessage
<1>8. AllSupported'
  BY <1>1, <1>2, <1>5 DEF PackInv, AllSupported
<1>9. O!TypeOK'
  BY <1>1, <1>2, <1>3, <1>5, <1>6 DEF PackInv, O!TypeOK
<1> QED
  BY <1>1, <1>2, <1>5, <1>6, <1>7, <1>8, <1>9
     DEF PackInv, O!SizeIsWritten, O!ReturnsOscSize

\* A branch which has advanced by what OSC gives the argument keeps the sums.
LEMMA ArgumentDone ==
    ASSUME PackInv, step \notin {"addr", "done"}, AllSupported, k \in 1..Len(args),
           size' = O!Sums(Base, Bytes)[k - 1] + O!OscArgument(args[k]),
           written' = size', length' \in Nat, O!NextArgument
    PROVE  PackInv'
<1>1. /\ step' = "args" /\ k' = k + 1 /\ UNCHANGED <<slash, addr, args, result>>
      /\ UNCHANGED O!input
  BY DEF O!NextArgument, O!input
<1>2. Len(args) \in Nat /\ MaxArgs \in Nat
  BY LengthsAre DEF PackInv
<1>3. /\ Base \in Nat /\ Bytes \in Seq(Nat) /\ Len(Bytes) = Len(args)
      /\ Bytes[k] = O!OscArgument(args[k]) /\ Bytes[k] \in Nat
  BY BaseAndBytes DEF PackInv
<1>4. /\ O!Sums(Base, Bytes)[k] = O!Sums(Base, Bytes)[k - 1] + Bytes[k]
      /\ O!Sums(Base, Bytes)[k] \in Nat
  BY <1>2, <1>3, SumsAre
<1>5. k' - 1 = k /\ k' \in 1..(Len(args) + 1) /\ k' \in 1..(MaxArgs + 1)
  BY <1>1, <1>2 DEF PackInv
<1>6. size' = O!Sums(Base', Bytes')[k' - 1] /\ size' \in Nat
  BY <1>1, <1>3, <1>4, <1>5, SameMessage
<1>7. O!TypeOK'
  BY <1>1, <1>5, <1>6 DEF PackInv, O!TypeOK
<1>8. AllSupported'
  BY <1>1, SameMessage
<1> QED
  BY <1>1, <1>5, <1>6, <1>7, <1>8 DEF PackInv, O!SizeIsWritten, O!ReturnsOscSize

\* Where a branch for an argument starts.
LEMMA ArgumentStarts ==
    ASSUME PackInv, NEW tags, O!Argument(tags)
    PROVE  /\ step = "args" /\ slash /\ AllSupported /\ k \in 1..Len(args)
           /\ args[k] \in O!Args /\ args[k].tag \in tags /\ k - 1 \in 0..Len(args)
           /\ size = O!Sums(Base, Bytes)[k - 1] /\ written = size /\ size \in Nat
<1>1. Len(args) \in Nat /\ args \in Seq(O!Args) /\ size \in Nat
  BY LengthsAre DEF PackInv
<1>2. step = "args" /\ k \in 1..Len(args) /\ args[k].tag \in tags
  BY <1>1 DEF PackInv, O!Argument, O!TypeOK
<1> QED
  BY <1>1, <1>2 DEF PackInv, O!SizeIsWritten

LEMMA NumberStep ==
    ASSUME PackInv,
           NEW tags, NEW bytes \in Nat, O!PackNumber(tags, bytes),
           \A arg \in O!Args : arg.tag \in tags => O!OscArgument(arg) = bytes
    PROVE  PackInv'
<1>1. O!Argument(tags) /\ O!NextArgument
  BY DEF O!PackNumber
<1>2. length' = bytes /\ written' = written + bytes /\ size' = size + bytes
  BY DEF O!PackNumber, O!Advance
<1>3. O!OscArgument(args[k]) = bytes
  BY <1>1, ArgumentStarts
<1> QED
  BY <1>1, <1>2, <1>3, ArgumentStarts, ArgumentDone

LEMMA CharStep ==
    ASSUME PackInv, O!PackChar
    PROVE  PackInv'
<1>1. O!Argument({"c"}) /\ O!NextArgument
  BY DEF O!PackChar
<1>2. written' = written + 1 + 3 /\ size' = size + 4 /\ length' = length
  BY DEF O!PackChar
<1>3. O!OscArgument(args[k]) = 4
  BY <1>1, ArgumentStarts DEF O!OscArgument
<1>4. /\ step = "args" /\ AllSupported /\ k \in 1..Len(args)
      /\ size = O!Sums(Base, Bytes)[k - 1] /\ written = size /\ size \in Nat
  BY <1>1, ArgumentStarts
<1>5. size' = O!Sums(Base, Bytes)[k - 1] + O!OscArgument(args[k]) /\ written' = size'
  BY <1>2, <1>3, <1>4
<1>6. length' \in Nat
  BY <1>2, LengthsAre DEF PackInv
<1> QED
  BY <1>1, <1>4, <1>5, <1>6, ArgumentDone

LEMMA NothingStep ==
    ASSUME PackInv, O!PackNothing
    PROVE  PackInv'
<1>1. O!Argument({"T", "F", "N", "I"} \cup O!Unsupported) /\ O!NextArgument
  BY DEF O!PackNothing
<1>2. written' = written /\ size' = size /\ length' = length
  BY DEF O!PackNothing
<1>3. O!OscArgument(args[k]) = 0
  BY <1>1, ArgumentStarts DEF O!OscArgument, O!Unsupported
<1>4. /\ step = "args" /\ AllSupported /\ k \in 1..Len(args)
      /\ size = O!Sums(Base, Bytes)[k - 1] /\ written = size /\ size \in Nat
  BY <1>1, ArgumentStarts
<1>5. size' = O!Sums(Base, Bytes)[k - 1] + O!OscArgument(args[k]) /\ written' = size'
  BY <1>2, <1>3, <1>4
<1>6. length' \in Nat
  BY <1>2, LengthsAre DEF PackInv
<1> QED
  BY <1>1, <1>4, <1>5, <1>6, ArgumentDone

\* A string is copied, ...
LEMMA StringStep ==
    ASSUME PackInv, O!PackString
    PROVE  PackInv'
<1>1. O!Argument({"s"})
  BY DEF O!PackString
<1>2. /\ length' = args[k].len /\ written' = written + args[k].len
      /\ size' = size + args[k].len
      /\ step' = "pad_str" /\ UNCHANGED <<slash, addr, args, k, result>>
      /\ UNCHANGED O!input
  BY DEF O!PackString, O!Advance, O!input
<1>3. /\ step = "args" /\ slash /\ AllSupported /\ k \in 1..Len(args)
      /\ args[k] \in O!Args /\ args[k].tag = "s"
      /\ size = O!Sums(Base, Bytes)[k - 1] /\ written = size /\ size \in Nat
  BY <1>1, ArgumentStarts
<1>4. args[k].len \in Nat
  BY <1>3, LengthIsNat
<1>5. /\ length' \in Nat /\ size' \in Nat /\ written' = size'
      /\ size' = O!Sums(Base', Bytes')[k' - 1] + length'
  BY <1>2, <1>3, <1>4, SameMessage
<1>6. O!TypeOK'
  BY <1>2, <1>5 DEF PackInv, O!TypeOK
<1>7. AllSupported'
  BY <1>2, <1>3, SameMessage
<1> QED
  BY <1>2, <1>3, <1>5, <1>6, <1>7 DEF PackInv, O!SizeIsWritten, O!ReturnsOscSize

\* ... and padded by its own length.
LEMMA PadStringStep ==
    ASSUME PackInv, O!PadString
    PROVE  PackInv'
<1>1. step = "pad_str" /\ O!NextArgument
  BY DEF O!PadString
<1>2. /\ length' = O!Pad(length)
      /\ written' = written + O!Pad(length) /\ size' = size + O!Pad(length)
  BY DEF O!PadString, O!PadLen, O!Advance
<1>3. /\ AllSupported /\ k \in 1..Len(args) /\ args[k].tag = "s"
      /\ length = args[k].len /\ size = O!Sums(Base, Bytes)[k - 1] + length
      /\ written = size
  BY <1>1 DEF PackInv, O!SizeIsWritten
<1>4. length \in Nat /\ O!Pad(length) \in Nat /\ size \in Nat /\ Len(args) \in Nat
  BY LengthsAre DEF PackInv
<1>5. length + O!Pad(length) = O!OscArgument(args[k])
  <2>1. length + O!Pad(length) = O!OscString(length)
    BY <1>4, PaddedString
  <2>2. O!OscArgument(args[k]) = O!OscString(length)
    BY <1>3 DEF O!OscArgument
  <2> QED
    BY <2>1, <2>2
<1>6. O!Sums(Base, Bytes)[k - 1] \in Nat
  <2>1. Base \in Nat /\ Bytes \in Seq(Nat) /\ Len(Bytes) = Len(args)
    BY BaseAndBytes DEF PackInv
  <2>2. O!Sums(Base, Bytes) \in [0..Len(args) -> Nat]
    BY <2>1, SumsAre
  <2> QED
    BY <1>3, <1>4, <2>2
<1>7. \A a, b, c \in Nat : (a + b) + c = a + (b + c)
  OBVIOUS
<1>8. size' = O!Sums(Base, Bytes)[k - 1] + O!OscArgument(args[k]) /\ written' = size'
  BY <1>2, <1>3, <1>4, <1>5, <1>6, <1>7
<1>9. length' \in Nat
  BY <1>2, <1>4
<1> QED
  BY <1>1, <1>3, <1>8, <1>9, ArgumentDone

\* An argument is packed, and counted.
LEMMA ArgumentStep ==
    ASSUME PackInv, O!PackArgument
    PROVE  PackInv'
<1>1. /\ \A arg \in O!Args : arg.tag \in {"i", "f"} => O!OscArgument(arg) = 4
      /\ \A arg \in O!Args : arg.tag \in {"h", "d"} => O!OscArgument(arg) = 8
  BY DEF O!OscArgument
<1>2. CASE O!PackNumber({"i", "f"}, 4)
  BY <1>1, <1>2, NumberStep
<1>3. CASE O!PackNumber({"h", "d"}, 8)
  BY <1>1, <1>3, NumberStep
<1> QED
  BY <1>2, <1>3, StringStep, PadStringStep, CharStep, NothingStep DEF O!PackArgument

\* All arguments are packed: their sum is returned.
LEMMA ReturnStep ==
    ASSUME PackInv, O!Return
    PROVE  PackInv'
<1>1. /\ step = "args" /\ slash /\ AllSupported /\ UNCHANGED O!input
      /\ size = O!Sums(Base, Bytes)[k - 1] /\ k - 1 = Len(args)
  BY DEF PackInv, O!Return, O!TypeOK
<1>2. /\ result' = size /\ step' = "done"
      /\ UNCHANGED <<slash, addr, args, k, length, written, size>>
  BY DEF O!Return, O!input
<1>3. size = O!OscMessage
  BY <1>1, BaseAndBytes DEF PackInv
<1>4. O!TypeOK'
  BY <1>2 DEF PackInv, O!TypeOK
<1>5. O!ReturnsOscSize'
  BY <1>1, <1>2, <1>3, SameMessage DEF O!ReturnsOscSize, AllSupported
<1> QED
  BY <1>2, <1>4, <1>5 DEF PackInv, O!SizeIsWritten

LEMMA PackStep ==
    ASSUME PackInv, [O!Next]_(O!vars)
    PROVE  PackInv'
<1>1. CASE UNCHANGED O!vars
  <2>1. /\ UNCHANGED <<slash, addr, args, step, k, length, written, size, result>>
        /\ UNCHANGED O!input
    BY <1>1 DEF O!vars, O!input
  <2> QED
    BY <2>1, SameMessage DEF PackInv, O!TypeOK, O!SizeIsWritten, O!ReturnsOscSize
<1> QED
  BY <1>1, PackAddressStep, PadAddressStep, CommaStep, TagStep, PadStep, ArgumentStep,
     ReturnStep
     DEF O!Next, O!Returned

LEMMA PackInvariant == O!Spec => []PackInv
  BY PackInit, PackStep, PTL DEF O!Spec

-----------------------------------------------------------------------------
(* oscsize                                                                 *)

\* A tag is supported, or it is not.
LEMMA TwoKinds ==
    ASSUME NEW arg \in O!Args
    PROVE  arg.tag \in O!Supported <=> arg.tag \notin O!Unsupported
<1>1. arg.tag \in O!Supported \cup O!Unsupported
  <2>1. CASE arg \in [tag : (O!Supported \ {"s"}) \cup O!Unsupported, len : {0}]
    BY <2>1
  <2>2. CASE arg \in [tag : {"s"}, len : StrLens]
    BY <2>2 DEF O!Supported
  <2> QED
    BY <2>1, <2>2 DEF O!Args
<1>2. O!Supported \cap O!Unsupported = {}
  BY DEF O!Supported, O!Unsupported
<1> QED
  BY <1>1, <1>2

\* The numbers which OscSize adds up.
First == addr + O!Pad(addr) + 1
Estimates == [x \in DOMAIN args |-> O!Estimate(args[x])]

LEMMA EstimatesAre ==
    ASSUME O!TypeOK
    PROVE  First \in Nat /\ Estimates \in Seq(Nat) /\ Len(Estimates) = Len(args)
<1>1. addr \in Nat /\ args \in Seq(O!Args) /\ Len(args) \in Nat /\ DOMAIN args = 1..Len(args)
  BY SequentialOK DEF O!TypeOK, O!ConstantsOK
<1>2. First \in Nat
  <2>1. addr \in Nat
    BY <1>1
  <2>2. addr + O!Pad(addr) \in Nat
    BY <2>1, PaddedString
  <2> QED
    BY <2>2 DEF First
<1>3. ASSUME NEW x \in 1..Len(args)
      PROVE  O!Estimate(args[x]) \in Nat
  <2>1. args[x] \in O!Args
    BY <1>1
  <2>2. args[x].len \in Nat
    BY <2>1, LengthIsNat
  <2>3. args[x].len + O!Pad(args[x].len) \in Nat
    BY <2>2, PaddedString
  <2> QED
    BY <2>3 DEF O!Estimate
<1>4. Estimates \in Seq(Nat) /\ Len(Estimates) = Len(args)
  BY <1>1, <1>3 DEF Estimates
<1> QED
  BY <1>2, <1>4

\* oscsize returns a size exactly if the address and all tags are supported.
LEMMA OscSizeIs ==
    ASSUME O!TypeOK
    PROVE  /\ O!OscSize = IF slash /\ AllSupported THEN O!Total(First, Estimates) ELSE -1
           /\ O!OscSize = -1 <=> ~(slash /\ AllSupported)
<1>1. args \in Seq(O!Args) /\ DOMAIN args = 1..Len(args)
  BY DEF O!TypeOK
<1>2. AllSupported <=> ~\E x \in DOMAIN args : args[x].tag \in O!Unsupported
  BY <1>1, TwoKinds DEF AllSupported
<1>3. O!Total(First, Estimates) \in Nat
  BY EstimatesAre, TotalIsNat
<1>4. O!OscSize = IF ~slash \/ \E x \in DOMAIN args : args[x].tag \in O!Unsupported
                  THEN -1 ELSE O!Total(First, Estimates)
  BY DEF O!OscSize, First, Estimates
<1> QED
  BY <1>2, <1>3, <1>4

\* What OSC counts is a natural number, so -1 is the only refusal.
LEMMA RefuseAlike ==
    ASSUME PackInv
    PROVE  O!SizersRefuseAlike
<1>1. O!OscMessage \in Nat
  <2>1. Base \in Nat /\ Bytes \in Seq(Nat)
    BY BaseAndBytes DEF PackInv
  <2>2. O!Total(Base, Bytes) \in Nat
    BY <2>1, TotalIsNat
  <2> QED
    BY <2>2 DEF O!OscMessage, Base, Bytes
<1>2. O!OscSize = -1 <=> ~(slash /\ AllSupported)
  BY OscSizeIs DEF PackInv
<1> QED
  BY <1>1, <1>2 DEF PackInv, O!ReturnsOscSize, O!SizersRefuseAlike, AllSupported

\* For one argument: what OSC takes for it and its tag, and what oscsize does.
LEMMA EstimateIs ==
    ASSUME NEW arg \in O!Args, arg.tag \in O!Supported
    PROVE  O!OscArgument(arg) + (IF arg.tag \in {"i", "f", "c"} THEN 1 ELSE 0) + 1
             = O!Estimate(arg) + (IF arg.tag \in {"h", "d"} THEN 3 ELSE 0)
<1>1. CASE arg.tag = "s"
  <2>1. arg.len \in Nat
    BY LengthIsNat
  <2>2. arg.len + O!Pad(arg.len) = O!OscString(arg.len) /\ arg.len + O!Pad(arg.len) \in Nat
    BY <2>1, PaddedString
  <2> QED
    BY <1>1, <2>2 DEF O!OscArgument, O!Estimate
<1>2. CASE arg.tag # "s"
  BY <1>2 DEF O!OscArgument, O!Estimate, O!Supported
<1> QED
  BY <1>1, <1>2

LEMMA SizersAre ==
    ASSUME PackInv
    PROVE  O!SizersDiffer
<1> SUFFICES ASSUME step = "done", result # -1
             PROVE  result + O!Total(0, O!Fours) = O!OscSize + O!Total(O!Pad(O!Tags), O!Eights)
  BY DEF O!SizersDiffer
<1>1. slash /\ AllSupported /\ result = O!OscMessage
  BY DEF PackInv, O!ReturnsOscSize, AllSupported
<1>2. /\ O!OscMessage = O!Total(Base, Bytes) /\ O!OscSize = O!Total(First, Estimates)
  BY <1>1, OscSizeIs DEF PackInv, O!OscMessage, Base, Bytes
<1>3. args \in Seq(O!Args) /\ Len(args) \in Nat /\ DOMAIN args = 1..Len(args) /\ addr \in Nat
  BY SequentialOK DEF PackInv, O!TypeOK, O!ConstantsOK
<1> DEFINE N == Len(args)
<1>4. Adds(O!Sums(Base, Bytes), Base, Bytes, N) /\ O!Total(Base, Bytes) = O!Sums(Base, Bytes)[N]
  <2>1. Base \in Nat /\ Bytes \in Seq(Nat) /\ Len(Bytes) = N
    BY BaseAndBytes DEF PackInv
  <2> QED
    BY <1>3, <2>1, SumsAdd
<1>5. /\ Adds(O!Sums(First, Estimates), First, Estimates, N)
      /\ O!Total(First, Estimates) = O!Sums(First, Estimates)[N]
  <2>1. First \in Nat /\ Estimates \in Seq(Nat) /\ Len(Estimates) = N
    BY EstimatesAre DEF PackInv
  <2> QED
    BY <1>3, <2>1, SumsAdd
<1>6. Adds(O!Sums(0, O!Fours), 0, O!Fours, N) /\ O!Total(0, O!Fours) = O!Sums(0, O!Fours)[N]
  <2>1. O!Fours \in Seq(Nat) /\ Len(O!Fours) = N
    BY <1>3 DEF O!Fours
  <2> QED
    BY <1>3, <2>1, SumsAdd
<1> DEFINE P == O!Pad(O!Tags)
<1>7. P \in Nat
  <2>1. O!Tags \in Nat
    BY <1>3 DEF O!Tags
  <2> QED
    BY <2>1, PaddedString
<1>8. Adds(O!Sums(P, O!Eights), P, O!Eights, N) /\ O!Total(P, O!Eights) = O!Sums(P, O!Eights)[N]
  <2>1. O!Eights \in Seq(Nat) /\ Len(O!Eights) = N
    BY <1>3 DEF O!Eights
  <2> HIDE DEF P
  <2> QED
    BY <1>3, <1>7, <2>1, SumsAdd
<1>9. Base + 0 = First + P + N
  <2>1. Base = addr + O!Pad(addr) + 1 + N + P /\ Base \in Nat
    BY BaseAndBytes DEF PackInv
  <2>2. First \in Nat /\ First = addr + O!Pad(addr) + 1
    BY EstimatesAre DEF PackInv, First
  <2> HIDE DEF P
  <2> QED
    BY <1>3, <1>7, <2>1, <2>2
<1>10. \A n \in 1..N : Bytes[n] + O!Fours[n] + 1 = Estimates[n] + O!Eights[n]
  <2> TAKE n \in 1..N
  <2>1. args[n] \in O!Args /\ args[n].tag \in O!Supported
    BY <1>1, <1>3 DEF AllSupported
  <2>2. /\ Bytes[n] = O!OscArgument(args[n]) /\ Estimates[n] = O!Estimate(args[n])
        /\ O!Fours[n] = IF args[n].tag \in {"i", "f", "c"} THEN 1 ELSE 0
        /\ O!Eights[n] = IF args[n].tag \in {"h", "d"} THEN 3 ELSE 0
    BY <1>3 DEF Bytes, Estimates, O!Fours, O!Eights
  <2> QED
    BY <2>1, <2>2, EstimateIs
<1> HIDE DEF N, P
<1>11. N \in Nat
  BY <1>3 DEF N
<1>12. O!Sums(Base, Bytes)[N] + O!Sums(0, O!Fours)[N]
         = O!Sums(First, Estimates)[N] + O!Sums(P, O!Eights)[N]
  BY <1>4, <1>5, <1>6, <1>8, <1>9, <1>10, <1>11, SumsInBalance
<1> QED
  BY <1>1, <1>2, <1>4, <1>5, <1>6, <1>8, <1>12 DEF P

\* Without numbers of four bytes there is nothing to make up for the padding.
LEMMA EstimateIsSmall ==
    ASSUME PackInv, step = "done", result # -1,
           \A x \in DOMAIN args : args[x].tag \notin {"i", "f", "c"}
    PROVE  O!OscSize < result
<1>1. args \in Seq(O!Args) /\ Len(args) \in Nat /\ DOMAIN args = 1..Len(args)
  BY DEF PackInv, O!TypeOK
<1> DEFINE N == Len(args)
           P == O!Pad(O!Tags)
<1>2. result \in Nat /\ O!OscSize \in Nat
  <2>1. result \in Nat /\ slash /\ AllSupported
    BY DEF PackInv, O!TypeOK, O!ReturnsOscSize, AllSupported
  <2>2. O!Total(First, Estimates) \in Nat
    BY EstimatesAre, TotalIsNat DEF PackInv
  <2> QED
    BY <2>1, <2>2, OscSizeIs DEF PackInv
<1>3. O!Total(0, O!Fours) = 0
  <2>1. O!Fours \in Seq(Nat) /\ Len(O!Fours) = N /\ \A n \in 1..N : O!Fours[n] = 0
    BY <1>1 DEF O!Fours
  <2>2. Adds(O!Sums(0, O!Fours), 0, O!Fours, N) /\ O!Total(0, O!Fours) = O!Sums(0, O!Fours)[N]
    BY <1>1, <2>1, SumsAdd
  <2> HIDE DEF N
  <2>3. N \in Nat
    BY <1>1 DEF N
  <2>4. O!Sums(0, O!Fours)[N] = 0
    BY <2>1, <2>2, <2>3, SumsGrow
  <2> QED
    BY <2>2, <2>4
<1>4. O!Total(P, O!Eights) \in Nat /\ O!Total(P, O!Eights) >= 1
  <2>1. P \in Nat /\ P >= 1
    <3>1. O!Tags \in Nat
      BY <1>1 DEF O!Tags
    <3> QED
      BY <3>1, PaddedString
  <2>2. O!Eights \in Seq(Nat) /\ Len(O!Eights) = N /\ N \in Nat
    BY <1>1 DEF O!Eights
  <2> HIDE DEF P, N
  <2>3. Adds(O!Sums(P, O!Eights), P, O!Eights, N) /\ O!Total(P, O!Eights) = O!Sums(P, O!Eights)[N]
    BY <2>1, <2>2, SumsAdd
  <2>4. P <= O!Sums(P, O!Eights)[N] /\ O!Sums(P, O!Eights)[N] \in Nat
    <3>1. P <= O!Sums(P, O!Eights)[N]
      BY <2>1, <2>2, <2>3, SumsGrow
    <3>2. O!Sums(P, O!Eights)[N] \in Nat
      BY <2>2, <2>3 DEF Adds
    <3> QED
      BY <3>1, <3>2
  <2> QED
    BY <2>1, <2>3, <2>4
<1>5. result + O!Total(0, O!Fours) = O!OscSize + O!Total(P, O!Eights)
  BY SizersAre DEF O!SizersDiffer
<1> QED
  BY <1>2, <1>3, <1>4, <1>5

\* Everything packed so far is a multiple of four, and so is what is returned.
LEMMA SizeIsAligned ==
    ASSUME PackInv
    PROVE  O!AssertionHolds
<1> SUFFICES ASSUME step = "args" PROVE size % 4 = 0
  BY DEF O!AssertionHolds
<1>1. args \in Seq(O!Args) /\ Len(args) \in Nat /\ addr \in Nat
  BY SequentialOK DEF PackInv, O!TypeOK, O!ConstantsOK
<1>2. /\ Base \in Nat /\ Bytes \in Seq(Nat) /\ Len(Bytes) = Len(args)
      /\ size = O!Sums(Base, Bytes)[k - 1] /\ k - 1 \in 0..Len(args)
  BY BaseAndBytes DEF PackInv, O!TypeOK
<1>3. \A n \in Nat : O!OscString(n) \in Nat /\ O!OscString(n) % 4 = 0
  BY DEF O!OscString
<1>4. Base % 4 = 0
  <2>1. /\ O!OscString(addr) \in Nat /\ O!OscString(addr) % 4 = 0
        /\ O!OscString(Len(args) + 1) \in Nat /\ O!OscString(Len(args) + 1) % 4 = 0
    <3>1. Len(args) + 1 \in Nat
      BY <1>1
    <3> QED
      BY <1>1, <1>3, <3>1
  <2>2. \A a, b \in Nat : a % 4 = 0 /\ b % 4 = 0 => (a + b) % 4 = 0
    OBVIOUS
  <2> QED
    BY <2>1, <2>2 DEF Base
<1>5. \A n \in 1..Len(Bytes) : Bytes[n] % 4 = 0
  <2> TAKE n \in 1..Len(Bytes)
  <2>1. args[n] \in O!Args /\ Bytes[n] = O!OscArgument(args[n])
    BY <1>1, <1>2 DEF Bytes
  <2>2. args[n].len \in Nat
    BY <2>1, LengthIsNat
  <2>3. O!OscString(args[n].len) % 4 = 0
    BY <1>3, <2>2
  <2> QED
    BY <2>1, <2>3 DEF O!OscArgument
<1>6. \A n \in 0..Len(Bytes) : O!Sums(Base, Bytes)[n] % 4 = 0
  BY <1>2, <1>4, <1>5, SumsOfFours
<1> QED
  BY <1>2, <1>6
=============================================================================
