------------------------------ MODULE OscPack ------------------------------
(***************************************************************************)
(* voscpack: packs an OSC message into a buffer, in the order of the code: *)
(* the address, the type tags (which it checks), the arguments.  Bytes are *)
(* not modelled, only how far each branch advances buf and by how much it  *)
(* raises size, which the code does apart, and the variable len that the   *)
(* branches share.  Also oscsize, which promises the same number without   *)
(* packing.                                                                *)
(***************************************************************************)
EXTENDS Integers, Sequences

CONSTANTS
    AddrLens,   \* lengths of addresses
    StrLens,    \* lengths of string arguments
    MaxArgs     \* bound on the number of arguments

\* Assumed of the constants.
ConstantsOK ==
    /\ AddrLens \subseteq Nat \ {0} /\ StrLens \subseteq Nat
    /\ MaxArgs \in Nat

Supported == {"i", "h", "f", "d", "s", "c", "T", "F", "N", "I"}
Unsupported == {"b", "t", "r", "m"}

\* An argument: its type tag, and its length if it is a string.
Args == [tag : (Supported \ {"s"}) \cup Unsupported, len : {0}]
            \cup [tag : {"s"}, len : StrLens]

VARIABLES
    slash, addr,   \* does the address start with '/'; its length
    args,          \* what format and ap stand for
    pc, k,         \* where voscpack is; the tag or argument it is at
    len,           \* the one length, set and used again by every part
    written,       \* how far buf has advanced
    size,          \* the bytes counted
    result         \* what is returned

input == <<slash, addr, args>>
vars == <<input, pc, k, len, written, size, result>>

TypeOK ==
    /\ slash \in BOOLEAN /\ addr \in AddrLens /\ args \in Seq(Args)
    /\ pc \in {"addr", "pad_addr", "comma", "tags", "args", "pad_str", "done"}
    /\ k \in 1..(MaxArgs + 1) /\ len \in Nat
    /\ written \in Nat /\ size \in Nat /\ result \in Nat \cup {-1}

\* len is not initialized; it is assigned before it is read.
Init ==
    /\ slash \in BOOLEAN /\ addr \in AddrLens
    /\ args \in UNION {[1..n -> Args] : n \in 0..MaxArgs}
    /\ pc = "addr" /\ k = 1 /\ len = 0
    /\ written = 0 /\ size = 0 /\ result = 0

-----------------------------------------------------------------------------

\* Zeros behind n bytes, one at least: they end the string as well.
PadIfNeeded(n) == (4 - (n % 4)) % 4
Pad(n) == 4 - (n % 4)

\* size += len and buf += len, for the len just assigned.
Advance == written' = written + len' /\ size' = size + len'

PadLen == len' = Pad(len) /\ Advance

KnownAlways(arg) == TRUE
Known(arg) == arg.tag \in Supported

\* return -1, for the address or for a tag.
Fail ==
    /\ result' = -1
    /\ pc' = "done"
    /\ UNCHANGED <<input, k, len, written, size>>

PackAddress ==
    /\ pc = "addr"
    /\ IF ~slash THEN Fail
       ELSE /\ len' = addr /\ Advance
            /\ pc' = "pad_addr"
            /\ UNCHANGED <<input, k, result>>

PadAddress ==
    /\ pc = "pad_addr"
    /\ PadLen
    /\ pc' = "comma"
    /\ UNCHANGED <<input, k, result>>

\* The padding behind the tags is for the comma as well: len keeps their
\* number until then.
Tags == Len(args) + 1
PackComma ==
    /\ pc = "comma"
    /\ len' = Tags
    /\ written' = written + 1
    /\ size' = size + 1
    /\ pc' = "tags"
    /\ UNCHANGED <<input, k, result>>

PackTag ==
    /\ pc = "tags" /\ k <= Len(args)
    /\ IF ~Known(args[k]) THEN Fail
       ELSE /\ written' = written + 1
            /\ size' = size + 1
            /\ k' = k + 1
            /\ UNCHANGED <<input, pc, len, result>>

PadTags ==
    /\ pc = "tags" /\ k > Len(args)
    /\ PadLen
    /\ pc' = "args" /\ k' = 1
    /\ UNCHANGED <<input, result>>

\* The branches for an argument: numbers of four and of eight bytes, ...
Argument(tags) == pc = "args" /\ k <= Len(args) /\ args[k].tag \in tags
NextArgument == pc' = "args" /\ k' = k + 1 /\ UNCHANGED <<input, result>>

PackNumber(tags, bytes) ==
    /\ Argument(tags)
    /\ len' = bytes /\ Advance
    /\ NextArgument

\* ... a string and its padding, ...
PackString ==
    /\ Argument({"s"})
    /\ len' = args[k].len /\ Advance
    /\ pc' = "pad_str"
    /\ UNCHANGED <<input, k, result>>

PadString ==
    /\ pc = "pad_str"
    /\ PadLen
    /\ NextArgument

\* ... a character, which leaves len alone, and three zeros, ...
PackCharCountingOne ==
    /\ Argument({"c"})
    /\ written' = written + 1 + 3
    /\ size' = size + 1
    /\ NextArgument /\ UNCHANGED len
PackChar ==
    /\ Argument({"c"})
    /\ written' = written + 1 + 3
    /\ size' = size + 4
    /\ NextArgument /\ UNCHANGED len

\* ... and nothing for a tag that says it all, or that was refused before.
PackNothing ==
    /\ Argument({"T", "F", "N", "I"} \cup Unsupported)
    /\ NextArgument /\ UNCHANGED <<len, written, size>>

PackArgument ==
    \/ PackNumber({"i", "f"}, 4) \/ PackNumber({"h", "d"}, 8)
    \/ PackString \/ PadString \/ PackChar \/ PackNothing

Return ==
    /\ pc = "args" /\ k > Len(args)
    /\ result' = size
    /\ pc' = "done"
    /\ UNCHANGED <<input, k, len, written, size>>

Returned == pc = "done" /\ UNCHANGED vars

Next ==
    \/ PackAddress \/ PadAddress \/ PackComma \/ PackTag \/ PadTags
    \/ PackArgument \/ Return \/ Returned

Spec == Init /\ [][Next]_vars

\* A number with the first of a sequence added to it, from none to all.
Sums(base, numbers) ==
    LET sum[n \in 0..Len(numbers)] ==
            IF n = 0 THEN base ELSE sum[n - 1] + numbers[n]
    IN  sum
Total(base, numbers) == Sums(base, numbers)[Len(numbers)]

\* oscsize, for the same address and arguments; what it takes for an argument
\* and its tag.
Estimate(arg) ==
    CASE arg.tag \in {"i", "h", "f", "d", "c"} -> 6
      [] arg.tag = "s" -> arg.len + Pad(arg.len) + 1
      [] OTHER -> 1
OscSize ==
    IF ~slash \/ \E i \in DOMAIN args : args[i].tag \in Unsupported
    THEN -1
    ELSE Total(addr + Pad(addr) + 1, [i \in DOMAIN args |-> Estimate(args[i])])

-----------------------------------------------------------------------------
(* Properties                                                              *)

\* size, which becomes the length of the message, counts what buf advanced by,
\* though each branch raises the one and advances the other by itself: no byte
\* is cut off and no stale one is sent.
SizeIsWritten == size = written

\* The size OSC 1.0 gives the message: strings are followed by one to four
\* zeros, up to a multiple of four.
OscString(n) == 4 * (n \div 4 + 1)
OscArgument(arg) ==
    CASE arg.tag \in {"i", "f", "c"} -> 4
      [] arg.tag \in {"h", "d"} -> 8
      [] arg.tag = "s" -> OscString(arg.len)
      [] OTHER -> 0
OscMessage ==
    Total(OscString(addr) + OscString(Len(args) + 1),
          [i \in DOMAIN args |-> OscArgument(args[i])])

\* What is returned is the size of an OSC message, and -1 if and only if
\* the address or a tag is not supported, wherever in the format it is.
ReturnsOscSize ==
    pc = "done" =>
        result = IF slash /\ \A i \in DOMAIN args : args[i].tag \in Supported
                 THEN OscMessage ELSE -1

\* The assertion in front of the return: the size is a multiple of four.
AssertionHolds == pc = "args" /\ k > Len(args) => size % 4 = 0

\* oscsize refuses what voscpack refuses.  Its sizes are other sizes: it
\* leaves out the padding of the tags and takes six bytes for any number.
SizersRefuseAlike == pc = "done" => (OscSize = -1 <=> result = -1)

\* How far the size of oscsize is from the one voscpack returns: too small by
\* the padding of the tags and by three bytes for each number of eight, too
\* large by one byte for each number of four.
Eights == [i \in DOMAIN args |-> IF args[i].tag \in {"h", "d"} THEN 3 ELSE 0]
Fours == [i \in DOMAIN args |-> IF args[i].tag \in {"i", "f", "c"} THEN 1 ELSE 0]
SizersDiffer ==
    pc = "done" /\ result # -1 =>
        result + Total(0, Fours) = OscSize + Total(Pad(Tags), Eights)
=============================================================================
