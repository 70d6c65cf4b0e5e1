------------------------------ MODULE StatusLists ------------------------------
(***************************************************************************)
(* The two packed encodings of credential status: the StatusList2021       *)
(* bitstring (one bit per credential, most significant bit first) and the  *)
(* IETF Token Status List (1, 2, 4 or 8 bits per credential, least         *)
(* significant first).  Both are arrays of bytes; the shifts and masks of  *)
(* the code are divisions and remainders by powers of two.  Compression    *)
(* and base64 of the finished array are left to their libraries.           *)
(***************************************************************************)
EXTENDS Integers

CONSTANTS
    Size,               \* entries of the StatusList2021 list
    Capacity,           \* entries of the Token Status List
    BitsPerStatus,      \* its bits per entry
    Indices,            \* indices callers pass, in range or not
    Statuses            \* values callers pass, small enough or not

ASSUME ListAssumption ==
    /\ Size \in Nat /\ Capacity \in Nat
    /\ BitsPerStatus \in {1, 2, 4, 8}
    /\ Indices \subseteq Nat /\ Statuses \subseteq Nat

VARIABLES bits,         \* StatusList.bits
          data          \* TokenStatusListImpl.data

vars == <<bits, data>>

DivCeil(a, b) == (a + b - 1) \div b

ZeroBytes(n) == [k \in 0..n-1 |-> 0]

\* 1 << n.
Bit(n) == 2^n

\* The `width` bits of a byte that start `offset` bits above the lowest one.
Field(byte, offset, width) == (byte \div Bit(offset)) % Bit(width)

\* Mutant of WithField: the old bits are not cleared.
WithFieldAdded(byte, offset, width, value) == byte + value * Bit(offset)

\* The byte with those bits cleared and replaced by `value`.
WithField(byte, offset, width, value) ==
    byte + (value - Field(byte, offset, width)) * Bit(offset)

-------------------------------------------------------------------------------
\* StatusList2021.

\* Mutant of BitOffset: the other bit order, for reading and writing alike.
BitOffsetFromLowest(index) == index % 8

\* 1 << (7 - index % 8): index 0 is the most significant bit.
BitOffset(index) == 7 - (index % 8)

Get(list, index) == Field(list[index \div 8], BitOffset(index), 1) = 1

Set(index, value) ==
    /\ index < Size
    /\ bits' = [bits EXCEPT ![index \div 8] =
                    WithField(@, BitOffset(index), 1, IF value THEN 1 ELSE 0)]
    /\ UNCHANGED data

-------------------------------------------------------------------------------
\* Token Status List.

EntriesPerByte == 8 \div BitsPerStatus

EntryOffset(index) == (index % EntriesPerByte) * BitsPerStatus

GetStatus(list, index) ==
    Field(list[index \div EntriesPerByte], EntryOffset(index), BitsPerStatus)

\* Mutant of TokenSet: the old bits are not cleared first, so the new value is
\* or-ed onto them.
TokenSetWithoutClear(index, value) ==
    /\ index < Capacity
    /\ value < Bit(BitsPerStatus)
    /\ LET old == GetStatus(data, index)
           ored == IF old = 0 THEN value ELSE IF value = 0 THEN old ELSE Bit(BitsPerStatus) - 1
       IN  data' = [data EXCEPT ![index \div EntriesPerByte] =
                        WithField(@, EntryOffset(index), BitsPerStatus, ored)]
    /\ UNCHANGED bits

\* Mutant of TokenSet: the bound is off by one.
TokenSetPastEnd(index, value) ==
    /\ index <= Capacity
    /\ value < Bit(BitsPerStatus)
    /\ data' = [data EXCEPT ![index \div EntriesPerByte] =
                    WithField(@, EntryOffset(index), BitsPerStatus, value)]
    /\ UNCHANGED bits

\* An index past the end or a value too large for an entry is refused.
TokenSet(index, value) ==
    /\ index < Capacity
    /\ value < Bit(BitsPerStatus)
    /\ data' = [data EXCEPT ![index \div EntriesPerByte] =
                    WithField(@, EntryOffset(index), BitsPerStatus, value)]
    /\ UNCHANGED bits

-------------------------------------------------------------------------------
Init ==
    /\ bits = ZeroBytes(DivCeil(Size, 8))
    /\ data = ZeroBytes(DivCeil(Capacity, EntriesPerByte))

Next ==
    \/ \E i \in Indices, v \in BOOLEAN : Set(i, v)
    \/ \E i \in Indices, v \in Statuses : TokenSet(i, v)

Spec == Init /\ [][Next]_vars

-------------------------------------------------------------------------------
\* Properties.

TypeOK ==
    /\ bits \in [0..DivCeil(Size, 8)-1 -> 0..255]
    /\ data \in [0..DivCeil(Capacity, EntriesPerByte)-1 -> 0..255]

\* How a relying party reads the published bytes, told from the two formats and not
\* from get: a bitstring is read from its left end, the digits of a byte of the
\* token list, to the base of an entry, from the lowest.
PublishedBit(list, i) == [p \in 0..7 |-> (list[i \div 8] \div 2^(7 - p)) % 2][i % 8]

PublishedStatus(list, i) ==
    LET base == 2^BitsPerStatus
        digits == 8 \div BitsPerStatus
    IN  (list[i \div digits] \div base^(i % digits)) % base

BitArray == INSTANCE StatusArray WITH
    Capacity <- Size, Values <- {0, 1},
    entries <- [i \in 0..Size-1 |-> PublishedBit(bits, i)]

TokenArray == INSTANCE StatusArray WITH
    Capacity <- Capacity, Values <- 0..(Bit(BitsPerStatus) - 1),
    entries <- [i \in 0..Capacity-1 |-> PublishedStatus(data, i)]

\* To whoever reads it from the left, the bitstring is an array of independent bits:
\* set(i, v) writes v at i and touches no neighbour in the same byte, and get agrees
\* with that reader (status_list_2021.rs, set and get).
BitstringIsAnArray ==
    /\ BitArray!Spec
    /\ [][\A i \in Indices, v \in BOOLEAN :
             Set(i, v) => BitArray!Set(i, IF v THEN 1 ELSE 0)]_vars
    /\ [](\A i \in 0..Size-1 : Get(bits, i) <=> PublishedBit(bits, i) = 1)

\* The same for the packed entries of the Token Status List, whatever value the
\* entry had before (token_status_list.rs, set and get).
TokenListIsAnArray ==
    /\ TokenArray!Spec
    /\ [][\A i \in Indices, v \in Statuses : TokenSet(i, v) => TokenArray!Set(i, v)]_vars
    /\ [](\A i \in 0..Capacity-1 : GetStatus(data, i) = PublishedStatus(data, i))

\* What one byte of the token list publishes is exactly its entries: no stray
\* bits, and those past the last entry stay zero.
NoStrayBits ==
    \A i \in Capacity..(DivCeil(Capacity, EntriesPerByte) * EntriesPerByte - 1) :
        GetStatus(data, i) = 0

===============================================================================
