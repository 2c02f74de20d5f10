-------------------------------- MODULE Wire --------------------------------
(***************************************************************************)
(* Frames on the wire, <size><type><data>, size counting type and data.    *)
(* The four bytes of size and of type are Width digits to base Base, and   *)
(* every data byte is one digit too, because a reader that has lost its    *)
(* place reads data as sizes.                                              *)
(***************************************************************************)
EXTENDS Integers, Sequences, SequencesExt

CONSTANTS
    Width,         \* bytes in a size and in a frame type (4)
    Base,          \* values of a byte (256)
    MemoryLimit    \* largest size emalloc() grants

ASSUME WireAssumption ==
    /\ Width \in Nat \ {0} /\ Base \in Nat \ {0, 1}
    /\ MemoryLimit \in Nat
    /\ MemoryLimit < Base^Width \div 2     \* an int32_t below 0 is beyond it

Byte == 0..(Base - 1)
Least(m, n) == IF m <= n THEN m ELSE n
Zeros(n) == [i \in 1..n |-> 0]

(* A number without its last i digits; Width digits are enough for one.    *)
Shifted(n) == LET shifted[i \in 0..Width] == IF i = 0 THEN n ELSE shifted[i - 1] \div Base
              IN shifted
Fits(n) == n \in Nat /\ Shifted(n)[Width] = 0
Digits(n) == LET shifted == Shifted(n) IN [i \in 1..Width |-> shifted[Width - i] % Base]

FrameSize(f) == Width + Len(f.data)
IsFrame(f) ==
    /\ f.type \in 0..2 /\ f.data \in Seq(Byte)
    /\ Fits(f.type) /\ Fits(FrameSize(f))
Encode(f) == Digits(FrameSize(f)) \o Digits(f.type) \o f.data

readI32(bytes) == LET value[i \in 0..Len(bytes)] == IF i = 0 THEN 0 ELSE value[i - 1] * Base + bytes[i]
                  IN value[Len(bytes)]

(* The sizes the readers take from what read() left of Width zeroed bytes. *)
SizeIn(bytes) == readI32(bytes \o Zeros(Width - Len(bytes)))
=============================================================================
