------------------------------- MODULE TnyOsc -------------------------------
(***************************************************************************)
(* tnyosc::Message, of which the core messages are made: an address, type  *)
(* tags and the bytes of the arguments, and the byte array made of them    *)
(* when somebody asks for it.  It is kept until the message changes, and   *)
(* made again in the same vector.  A byte is zero or stands for what it is *)
(* part of.                                                                *)
(***************************************************************************)
EXTENDS Integers, Sequences

CONSTANTS
    Addresses,   \* what the bytes of an address are called, and their number
    Strings,     \* lengths of strings, blobs and arrays
    MaxTypes     \* bound on the number of type tags

\* Assumed of the constants.
TnyOscOK ==
    /\ Addresses \subseteq [byte : STRING, len : Nat \ {0}]
    /\ \A address \in Addresses : 
          address.byte \notin {"zero", "comma", "tag", "stack", "data"}
    /\ Strings \subseteq Nat /\ MaxTypes \in Nat

VARIABLES
    address_, types_, data_,
    is_cached_, cache_,
    reused         \* history: changed after its bytes were read

vars == <<address_, types_, data_, is_cached_, cache_, reused>>

Zero == "zero"
Bytes(byte, n) == [i \in 1..n |-> byte]
NoAddress == [byte |-> Zero, len |-> 0]
AddressBytes == Bytes(address_.byte, address_.len)

TypeOK ==
    /\ address_ \in Addresses \cup {NoAddress}
    /\ types_ \in Seq({"comma", "tag", "stack"}) /\ data_ \in Seq({Zero, "data"})
    /\ is_cached_ \in BOOLEAN /\ reused \in BOOLEAN
    /\ cache_ \in Seq({Zero, "comma", "tag", "stack", "data"}
                         \cup {address.byte : address \in Addresses})

Init ==
    /\ address_ \in Addresses \cup {NoAddress} /\ types_ = <<"comma">> /\ data_ = <<>>
    /\ is_cached_ = FALSE /\ cache_ = <<>> /\ reused = FALSE

-----------------------------------------------------------------------------

\* Zeros that take len to a multiple of four; four if it is one.
Pad(len) == 4 - (len % 4)

\* The bytes must be made again, at the next read.
OutdatedIfRead == is_cached_' = (is_cached_ /\ Len(cache_) < 16)
Outdated == is_cached_' = FALSE

Changed ==
    /\ Outdated
    /\ reused' = (reused \/ cache_ # <<>>)
    /\ UNCHANGED cache_

Typed(tags, bytes) ==
    /\ Len(types_) + Len(tags) <= MaxTypes
    /\ types_' = types_ \o tags
    /\ data_' = data_ \o bytes
    /\ Changed
    /\ UNCHANGED address_

\* Tags without bytes (true, false, null, impulse), with four (int32, float,
\* char, midi) and with eight (int64, double, time).
append(n) == Typed(<<"tag">>, Bytes("data", n))

append_string(n) == Typed(<<"tag">>, Bytes("data", n) \o Bytes(Zero, Pad(n)))
append_cstring(n) == n > 0 /\ append_string(n)

\* The length comes first, and a blob that fills its last word needs no zeros.
append_blob(n) == Typed(<<"tag">>, Bytes("data", 4 + n) \o Bytes(Zero, Pad(n) % 4))

\* What goes between brackets into the tags is not the array: the bytes are
\* taken from where its pointer is kept.
append_array(n) == n > 0 /\ Typed(<<"tag">> \o Bytes("stack", n) \o <<"tag">>, <<>>)

set_address(address) ==
    /\ address_' = address
    /\ Changed
    /\ UNCHANGED <<types_, data_>>

\* The comma goes, too.
clear ==
    /\ address_' = NoAddress /\ types_' = <<>> /\ data_' = <<>>
    /\ Changed

\* std::vector::resize: bytes that are kept keep their value.
Resized(bytes, n) == [i \in 1..n |-> IF i <= Len(bytes) THEN bytes[i] ELSE Zero]

Copied(source, bytes, at) ==
    [i \in DOMAIN bytes |-> IF i - at \in DOMAIN source THEN source[i - at] ELSE bytes[i]]

\* The length of "/tnyosc" stands for that of an empty address, but nothing
\* is copied for it.
addr_len == LET len == IF address_ = NoAddress THEN 7 ELSE address_.len IN len + Pad(len)
types_len == Len(types_) + Pad(Len(types_))

create_cache ==
    LET room == Resized(cache_, addr_len + types_len + Len(data_))
    IN  Copied(data_, Copied(types_, Copied(AddressBytes, room, 0), addr_len),
               addr_len + types_len)

\* byte_array, and data and size by way of it.
byte_array ==
    /\ cache_' = IF is_cached_ THEN cache_ ELSE create_cache
    /\ is_cached_' = TRUE
    /\ UNCHANGED <<address_, types_, data_, reused>>

Next ==
    \/ \E n \in {0, 4, 8} : append(n)
    \/ \E n \in Strings : append_string(n) \/ append_cstring(n) \/ append_blob(n) \/ append_array(n)
    \/ \E address \in Addresses \cup {NoAddress} : set_address(address)
    \/ clear \/ byte_array

Spec == Init /\ [][Next]_vars

-----------------------------------------------------------------------------
(* Properties                                                              *)

\* An OSC-string: zeros up to a multiple of four, one at least.
OscString(bytes) == bytes \o Bytes(Zero, 4 * (Len(bytes) \div 4 + 1) - Len(bytes))
OscMessage == OscString(AddressBytes) \o OscString(types_) \o data_

\* An OSC message has an address, and tags that start with a comma.  What is
\* read after clear, or with an empty address, is none: the bytes have neither
\* the comma nor the "/tnyosc" that create_cache makes room for.
IsMessage == address_ # NoAddress /\ types_ # <<>> /\ types_[1] = "comma"

\* Where its address and its tags are ended and padded.
Ends ==
    LET head == Len(OscString(AddressBytes))
    IN  (Len(AddressBytes) + 1)..head
            \cup (head + Len(types_) + 1)..(head + Len(OscString(types_)))

\* What a reader is given is the message as it is now: of its size, with its
\* address, its tags and its arguments in their places, however often it was
\* read, changed and read again; and byte for byte, zeros included, until it is
\* changed after it was read.
ReadersSeeTheMessage ==
    is_cached_ /\ IsMessage =>
        /\ Len(cache_) = Len(OscMessage)
        /\ \A i \in DOMAIN cache_ :
              cache_[i] # OscMessage[i] => reused /\ i \in Ends

\* "Returns a complete byte array of this OSC message", also of one that was
\* read before: with the zeros that end its address and its tags.
MessageIsComplete == is_cached_ /\ IsMessage => cache_ = OscMessage
=============================================================================
