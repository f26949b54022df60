----------------------------- MODULE FrameCodec -----------------------------
(***************************************************************************)
(* The frame format of src/channel/io_stream/frame_codec.go and the        *)
(* variable-length integers of src/buffer/buffer_algorithm.go, over bytes  *)
(* of two digits' width: a byte is a number below 2 * VintBase, its upper  *)
(* half marking a continued integer (VintBase is 128 in the code).  The    *)
(* hash is any function to one byte.                                       *)
(***************************************************************************)
EXTENDS Naturals, Sequences, FiniteSetsExt

CONSTANTS VintBase,   \* values of the digit a byte of an integer carries
          Sum32(_)    \* murmur3

ASSUME VintBaseAssumption == VintBase \in Nat /\ VintBase > 1

Byte == 0..(2 * VintBase - 1)

HashSize == 1

\* How many values k digits can have.
Power[k \in Nat] == IF k = 0 THEN 1 ELSE VintBase * Power[k - 1]

\* The number of digits of value.
VintEncodedSize(value) ==
  Min({s \in 1..(value + 1) : value < Power[s]})

\* The digits of value, most significant first, all but the last continued.
WriteVint(value) ==
  LET size == VintEncodedSize(value)
  IN  [i \in 1..size |-> ((value \div Power[size - i]) % VintBase)
                           + (IF i < size THEN VintBase ELSE 0)]

\* The length of the integer data starts with, 0 when it is cut off.
VintSize(data) ==
  LET ends == {i \in 1..Len(data) : data[i] < VintBase}
  IN  IF ends = {} THEN 0 ELSE Min(ends)

\* The integer data starts with.
ReadVint(data) ==
  LET value[i \in 0..VintSize(data)] ==
        IF i = 0 THEN 0 ELSE (value[i - 1] * VintBase) + (data[i] % VintBase)
  IN  value[VintSize(data)]

\* The hash of a payload.
CalculateHash(payload) == Sum32(payload)

\* Hash, length, payload.
PackFrame(payload) == <<CalculateHash(payload)>> \o WriteVint(Len(payload)) \o payload

PackFrameSize(size) == HashSize + VintEncodedSize(size) + size
=============================================================================
