--------------------------- MODULE StatusLists_proofs ---------------------------
(***************************************************************************)
(* Proofs about the packed status lists, for lists of any size and every   *)
(* width of an entry: both are arrays of independent entries.              *)
(***************************************************************************)
EXTENDS StatusLists, TLAPS

-------------------------------------------------------------------------------
\* Quotients and remainders, which stand for shifts and masks.

LEMMA DivMod ==
    ASSUME NEW n \in Nat, NEW p \in Nat \ {0}
    PROVE  /\ n \div p \in Nat /\ n % p \in Nat /\ n % p < p
           /\ n = (n \div p) * p + (n % p)
<1> DEFINE q == n \div p
           r == n % p
<1>1. p \in Nat /\ p > 0
  OBVIOUS
<1>2. q \in Nat /\ n = p * q + r /\ r \in 0..p-1
  BY <1>1
<1> HIDE DEF q, r
<1>3. p * q = q * p
  BY <1>2
<1>4. q \in Nat /\ r \in Nat /\ r < p /\ n = q * p + r
  BY <1>1, <1>2, <1>3
<1> QED
  BY <1>4 DEF q, r

LEMMA DivModUnique ==
    ASSUME NEW p \in Nat \ {0}, NEW q \in Nat, NEW r \in Nat, r < p, NEW n, n = q * p + r
    PROVE  n \in Nat /\ n \div p = q /\ n % p = r
<1>1. q * p \in Nat /\ n \in Nat
  OBVIOUS
<1> DEFINE d == n \div p
           s == n % p
<1>2. d \in Nat /\ s \in Nat /\ s < p /\ n = d * p + s
  BY <1>1, DivMod
<1> HIDE DEF d, s
<1>3. d * p \in Nat
  BY <1>2
<1>4. ~(d < q)
  <2>1. SUFFICES ASSUME d + 1 <= q PROVE FALSE
    BY <1>2
  <2>2. (d + 1) * p <= q * p
    BY <1>2, <2>1
  <2>3. (d + 1) * p = d * p + p
    BY <1>2
  <2> QED
    BY <1>1, <1>2, <1>3, <2>2, <2>3
<1>5. ~(q < d)
  <2>1. SUFFICES ASSUME q + 1 <= d PROVE FALSE
    BY <1>2
  <2>2. (q + 1) * p <= d * p
    BY <1>2, <2>1
  <2>3. (q + 1) * p = q * p + p
    OBVIOUS
  <2> QED
    BY <1>1, <1>2, <1>3, <2>2, <2>3
<1>6. d = q
  BY <1>2, <1>4, <1>5
<1>7. s = r
  BY <1>1, <1>2, <1>6
<1> QED
  BY <1>1, <1>6, <1>7 DEF d, s

\* A shift by the sum of two is one shift after the other.
LEMMA DivDiv ==
    ASSUME NEW n \in Nat, NEW x \in Nat \ {0}, NEW y \in Nat \ {0}
    PROVE  n \div (x * y) = (n \div x) \div y
<1> DEFINE a == n \div x
           r == n % x
           q == a \div y
           s == a % y
<1>1. a \in Nat /\ r \in Nat /\ r < x /\ n = a * x + r
  BY DivMod
<1> HIDE DEF a, r
<1>2. q \in Nat /\ s \in Nat /\ s < y /\ a = q * y + s
  BY <1>1, DivMod
<1> HIDE DEF q, s
<1>3. x * y \in Nat \ {0} /\ s * x \in Nat /\ s * x + r \in Nat
  BY <1>1, <1>2
<1>4. s * x + r < x * y
  <2>1. (s + 1) * x <= y * x
    BY <1>2
  <2>2. (s + 1) * x = s * x + x /\ y * x = x * y
    BY <1>2
  <2> QED
    BY <1>1, <1>3, <2>1, <2>2
<1>5. n = q * (x * y) + (s * x + r)
  <2>1. a * x = (q * y) * x + s * x
    BY <1>1, <1>2
  <2>2. (q * y) * x = q * (x * y)
    BY <1>2
  <2> QED
    BY <1>1, <1>2, <1>3, <2>1, <2>2
<1>6. n \div (x * y) = q
  BY <1>2, <1>3, <1>4, <1>5, DivModUnique
<1> QED
  BY <1>6 DEF q, a

\* Masking after a shift is shifting after a wider mask.
LEMMA DivThenMod ==
    ASSUME NEW n \in Nat, NEW x \in Nat \ {0}, NEW y \in Nat \ {0}
    PROVE  (n \div x) % y = (n % (x * y)) \div x
<1> DEFINE a == n \div x
           r == n % x
           q == a \div y
           s == a % y
<1>1. a \in Nat /\ r \in Nat /\ r < x /\ n = a * x + r
  BY DivMod
<1> HIDE DEF a, r
<1>2. q \in Nat /\ s \in Nat /\ s < y /\ a = q * y + s
  BY <1>1, DivMod
<1> HIDE DEF q, s
<1>3. x * y \in Nat \ {0} /\ s * x \in Nat /\ s * x + r \in Nat
  BY <1>1, <1>2
<1>4. s * x + r < x * y
  <2>1. (s + 1) * x <= y * x
    BY <1>2
  <2>2. (s + 1) * x = s * x + x /\ y * x = x * y
    BY <1>2
  <2> QED
    BY <1>1, <1>3, <2>1, <2>2
<1>5. n = q * (x * y) + (s * x + r)
  <2>1. a * x = (q * y) * x + s * x
    BY <1>1, <1>2
  <2>2. (q * y) * x = q * (x * y)
    BY <1>2
  <2> QED
    BY <1>1, <1>2, <1>3, <2>1, <2>2
<1>6. n % (x * y) = s * x + r
  <2> DEFINE p == x * y
             t == s * x + r
  <2>1. p \in Nat \ {0} /\ t \in Nat /\ t < p /\ n = q * p + t
    BY <1>3, <1>4, <1>5
  <2> HIDE DEF p, t
  <2>2. n % p = t
    BY <1>2, <2>1, DivModUnique
  <2> QED
    BY <2>2 DEF p, t
<1>7. (s * x + r) \div x = s
  BY <1>1, <1>2, DivModUnique
<1> QED
  BY <1>6, <1>7 DEF s, a

\* A mask under a wider one.
LEMMA ModMod ==
    ASSUME NEW n \in Nat, NEW x \in Nat \ {0}, NEW y \in Nat \ {0}
    PROVE  (n % (x * y)) % x = n % x
<1> DEFINE q == n \div (x * y)
           m == n % (x * y)
           d == m \div x
           r == m % x
<1>1. x * y \in Nat \ {0}
  OBVIOUS
<1>2. q \in Nat /\ m \in Nat /\ n = q * (x * y) + m
  BY <1>1, DivMod
<1> HIDE DEF q, m
<1>3. d \in Nat /\ r \in Nat /\ r < x /\ m = d * x + r
  BY <1>2, DivMod
<1> HIDE DEF d, r
<1>4. q * y + d \in Nat
  BY <1>2, <1>3
<1>5. n = (q * y + d) * x + r
  <2>1. (q * y + d) * x = (q * y) * x + d * x
    BY <1>2, <1>3
  <2>2. (q * y) * x = q * (x * y)
    BY <1>2
  <2>3. d * x \in Nat /\ q * (x * y) \in Nat
    BY <1>2, <1>3
  <2> QED
    BY <1>2, <1>3, <2>1, <2>2, <2>3
<1>6. n % x = r
  BY <1>3, <1>4, <1>5, DivModUnique
<1> QED
  BY <1>6 DEF r, m

-------------------------------------------------------------------------------
\* Bytes.

LEMMA Bits ==
    /\ Bit(0) = 1 /\ Bit(1) = 2 /\ Bit(2) = 4 /\ Bit(3) = 8 /\ Bit(4) = 16
    /\ Bit(5) = 32 /\ Bit(6) = 64 /\ Bit(7) = 128 /\ Bit(8) = 256
BY DEF Bit

LEMMA BitOf ==
    ASSUME NEW a \in 0..8
    PROVE  Bit(a) \in Nat \ {0}
<1>1. a \in {0, 1, 2, 3, 4, 5, 6, 7, 8}
  OBVIOUS
<1> QED
  BY <1>1, Bits

LEMMA BitOfSum ==
    ASSUME NEW a \in 0..8, NEW b \in 0..8, NEW s \in 0..8, s = a + b
    PROVE  Bit(s) = Bit(a) * Bit(b)
<1>1. a \in {0, 1, 2, 3, 4, 5, 6, 7, 8} /\ b \in {0, 1, 2, 3, 4, 5, 6, 7, 8}
  OBVIOUS
<1>2. CASE a = 0
  BY <1>1, <1>2, Bits
<1>3. CASE a = 1
  BY <1>1, <1>3, Bits
<1>4. CASE a = 2
  BY <1>1, <1>4, Bits
<1>5. CASE a = 3
  BY <1>1, <1>5, Bits
<1>6. CASE a = 4
  BY <1>1, <1>6, Bits
<1>7. CASE a = 5
  BY <1>1, <1>7, Bits
<1>8. CASE a = 6
  BY <1>1, <1>8, Bits
<1>9. CASE a = 7
  BY <1>1, <1>9, Bits
<1>10. CASE a = 8
  BY <1>1, <1>10, Bits
<1> QED
  BY <1>1, <1>2, <1>3, <1>4, <1>5, <1>6, <1>7, <1>8, <1>9, <1>10

\* Writing the m values above the p lowest ones of a number below k * (p * m): the
\* part below and the part above stay.
Overwrites(c, byte, p, m, value) == c = byte + (value - ((byte \div p) % m)) * p
Below(byte, k, p, m) == byte < k * (p * m)

LEMMA Written ==
    ASSUME NEW byte \in Nat, NEW p \in Nat \ {0}, NEW m \in Nat \ {0}, NEW k \in Nat,
           Below(byte, k, p, m), NEW value \in 0..m-1,
           NEW c, Overwrites(c, byte, p, m, value)
    PROVE  /\ c \in Nat /\ c < k * (p * m)
           /\ (c \div p) % m = value
           /\ c % p = byte % p
           /\ c \div (p * m) = byte \div (p * m)
<1> DEFINE q == byte \div p
           l == byte % p
           h == q \div m
           f == q % m
<1>1. q \in Nat /\ l \in Nat /\ l < p /\ byte = q * p + l
  BY DivMod
<1> HIDE DEF q, l
<1>2. h \in Nat /\ f \in Nat /\ f < m /\ q = h * m + f
  BY <1>1, DivMod
<1>3. c = byte + (value - f) * p
  BY DEF q, Overwrites
<1> HIDE DEF h, f
<1> DEFINE d == h * m + value
<1>4. d \in Nat /\ value \in Nat /\ value < m
  BY <1>2
<1>5. c = d * p + l
  <2>1. q * p = (h * m) * p + f * p
    BY <1>2
  <2>2. (value - f) * p = value * p - f * p
    BY <1>2, <1>4
  <2>3. d * p = (h * m) * p + value * p
    BY <1>2, <1>4
  <2> DEFINE hp == (h * m) * p
             fp == f * p
             vp == value * p
  <2>4. hp \in Nat /\ fp \in Nat /\ vp \in Nat
    BY <1>2, <1>4
  <2> HIDE DEF d, hp, fp, vp
  <2>5. byte = (hp + fp) + l /\ c = byte + (vp - fp) /\ d * p = hp + vp
    BY <1>1, <1>3, <2>1, <2>2, <2>3 DEF hp, fp, vp
  <2>6. c = (hp + vp) + l
    BY <1>1, <2>4, <2>5
  <2> QED
    BY <2>5, <2>6
<1>6. d \div m = h /\ d % m = value
  BY <1>2, <1>4, DivModUnique
<1> HIDE DEF d
<1>7. c \in Nat /\ c \div p = d /\ c % p = l
  <2>1. d \in Nat /\ l \in Nat /\ l < p
    BY <1>1, <1>4
  <2> QED
    BY <1>5, <2>1, DivModUnique
<1>8. c \div (p * m) = h /\ byte \div (p * m) = h
  <2>1. c \div (p * m) = (c \div p) \div m
    BY <1>7, DivDiv
  <2>2. byte \div (p * m) = (byte \div p) \div m
    BY DivDiv
  <2> QED
    BY <1>6, <1>7, <2>1, <2>2 DEF h, q
<1>9. c < k * (p * m)
  <2> DEFINE w == p * m
  <2>1. w \in Nat \ {0}
    OBVIOUS
  <2>2. c \div w = h /\ byte \div w = h /\ byte < k * w
    BY <1>8 DEF Below
  <2> HIDE DEF w
  <2>3. c = h * w + (c % w) /\ c % w < w /\ c % w \in Nat
    BY <1>7, <2>1, <2>2, DivMod
  <2>4. byte = h * w + (byte % w) /\ byte % w \in Nat
    BY <2>1, <2>2, DivMod
  <2>5. h < k
    <3>1. SUFFICES ASSUME k <= h PROVE FALSE
      BY <1>2
    <3>2. k * w <= h * w
      BY <1>2, <2>1, <3>1
    <3>3. k * w \in Nat /\ h * w \in Nat
      BY <1>2, <2>1
    <3> QED
      BY <2>2, <2>4, <3>2, <3>3
  <2>6. (h + 1) * w <= k * w
    BY <1>2, <2>1, <2>5
  <2>7. (h + 1) * w = h * w + w /\ h * w \in Nat /\ k * w \in Nat
    BY <1>2, <2>1
  <2> DEFINE hw == h * w
             kw == k * w
             r == c % w
  <2>8. /\ c = hw + r /\ r < w /\ r \in Nat /\ hw \in Nat /\ kw \in Nat /\ w \in Nat
        /\ hw + w <= kw
    BY <2>1, <2>3, <2>6, <2>7
  <2> HIDE DEF hw, kw, r
  <2>9. c < kw
    BY <2>8
  <2> QED
    BY <2>9 DEF w, kw
<1> QED
  BY <1>6, <1>7, <1>8, <1>9 DEF l

\* A field of a byte, at a place and of a width that fit into it.
Fits(offset, width) == offset \in 0..8 /\ width \in 0..8 /\ offset + width <= 8

\* A value that such a field of a byte can hold.
Writable(byte, offset, width, value) ==
    byte \in 0..255 /\ Fits(offset, width) /\ value \in 0..(Bit(width) - 1)

\* set: the field has the new value and the byte is still a byte.
LEMMA FieldWritten ==
    ASSUME NEW byte, NEW offset, NEW width, NEW value, Writable(byte, offset, width, value)
    PROVE  LET c == WithField(byte, offset, width, value)
           IN  /\ c \in 0..255
               /\ Field(c, offset, width) = value
               /\ c % Bit(offset) = byte % Bit(offset)
               /\ c \div Bit(offset + width) = byte \div Bit(offset + width)
<1> DEFINE p == Bit(offset)
           m == Bit(width)
           rest == 8 - (offset + width)
           k == Bit(rest)
           c == WithField(byte, offset, width, value)
<1>1. /\ offset \in 0..8 /\ width \in 0..8 /\ offset + width <= 8 /\ offset + width \in 0..8
      /\ rest \in 0..8 /\ rest + (offset + width) = 8
      /\ byte \in 0..255 /\ value \in 0..(Bit(width) - 1)
  BY DEF Fits, Writable
<1>2. p \in Nat \ {0} /\ m \in Nat \ {0} /\ k \in Nat \ {0}
  BY <1>1, BitOf
<1>3. Bit(offset + width) = p * m
  BY <1>1, BitOfSum
<1>4. k * (p * m) = 256
  <2>1. Bit(8) = k * Bit(offset + width)
    BY <1>1, BitOfSum
  <2> QED
    BY <1>3, <2>1, Bits
<1>5. c = byte + (value - ((byte \div p) % m)) * p /\ Field(c, offset, width) = (c \div p) % m
  BY DEF WithField, Field
<1> HIDE DEF p, m, k, c
<1>6. value \in 0..m-1 /\ byte \in Nat /\ byte < k * (p * m)
  BY <1>1, <1>4 DEF m
<1>7. /\ c \in Nat /\ c < k * (p * m)
      /\ (c \div p) % m = value
      /\ c % p = byte % p
      /\ c \div (p * m) = byte \div (p * m)
  <2>1. Overwrites(c, byte, p, m, value) /\ Below(byte, k, p, m)
    BY <1>5, <1>6 DEF Overwrites, Below
  <2> QED
    BY <1>2, <1>6, <2>1, Written
<1>8. c \in 0..255
  BY <1>4, <1>7
<1> QED
  BY <1>3, <1>5, <1>7, <1>8 DEF p, c

\* A field is a function of the bits below its end, and of those from its start.
LEMMA FieldBelow ==
    ASSUME NEW x \in Nat, NEW y \in Nat, NEW offset, NEW width, Fits(offset, width),
           NEW end \in 0..8, offset + width <= end, x % Bit(end) = y % Bit(end)
    PROVE  Field(x, offset, width) = Field(y, offset, width)
<1> DEFINE p == Bit(offset)
           m == Bit(width)
           w == Bit(offset + width)
           k == Bit(end - (offset + width))
<1>1. /\ offset \in 0..8 /\ width \in 0..8 /\ offset + width \in 0..8
      /\ end - (offset + width) \in 0..8 /\ end = (offset + width) + (end - (offset + width))
  BY DEF Fits
<1>2. p \in Nat \ {0} /\ m \in Nat \ {0} /\ w \in Nat \ {0} /\ k \in Nat \ {0}
  BY <1>1, BitOf
<1>3. w = p * m
  BY <1>1, BitOfSum
<1>4. Bit(end) = w * k
  BY <1>1, BitOfSum
<1> HIDE DEF p, m, w, k
<1>5. ASSUME NEW z \in Nat PROVE (z \div p) % m = ((z % Bit(end)) % w) \div p
  <2>1. (z \div p) % m = (z % (p * m)) \div p
    BY <1>2, DivThenMod
  <2>2. (z % (w * k)) % w = z % w
    BY <1>2, ModMod
  <2> QED
    BY <1>3, <1>4, <2>1, <2>2
<1>6. (x \div p) % m = (y \div p) % m
  BY <1>5
<1> QED
  BY <1>6 DEF Field, p, m

LEMMA FieldAbove ==
    ASSUME NEW x \in Nat, NEW y \in Nat, NEW offset \in 0..8, NEW width,
           NEW start \in 0..8, start <= offset, x \div Bit(start) = y \div Bit(start)
    PROVE  Field(x, offset, width) = Field(y, offset, width)
<1> DEFINE s == Bit(start)
           k == Bit(offset - start)
<1>1. offset - start \in 0..8 /\ offset = start + (offset - start)
  OBVIOUS
<1>2. s \in Nat \ {0} /\ k \in Nat \ {0}
  BY <1>1, BitOf
<1>3. Bit(offset) = s * k
  BY <1>1, BitOfSum
<1> HIDE DEF s, k
<1>4. x \div (s * k) = (x \div s) \div k /\ y \div (s * k) = (y \div s) \div k
  BY <1>2, DivDiv
<1>5. x \div Bit(offset) = y \div Bit(offset)
  BY <1>3, <1>4 DEF s
<1> QED
  BY <1>5 DEF Field

Apart(offset, other, width) == other + width <= offset \/ offset + width <= other

\* set: the other fields of the byte stay.
LEMMA FieldKept ==
    ASSUME NEW byte, NEW offset, NEW width, NEW value, Writable(byte, offset, width, value),
           NEW other, Fits(other, width), Apart(offset, other, width)
    PROVE  Field(WithField(byte, offset, width, value), other, width) = Field(byte, other, width)
<1> DEFINE c == WithField(byte, offset, width, value)
<1>1. /\ c \in 0..255
      /\ c % Bit(offset) = byte % Bit(offset)
      /\ c \div Bit(offset + width) = byte \div Bit(offset + width)
  BY FieldWritten
<1> HIDE DEF c
<1>2. c \in Nat /\ byte \in Nat
  BY <1>1 DEF Writable
<1>3. offset \in 0..8 /\ other \in 0..8 /\ width \in 0..8 /\ offset + width \in 0..8
  BY DEF Fits, Writable
<1>4. CASE other + width <= offset
  BY <1>1, <1>2, <1>3, <1>4, FieldBelow DEF c
<1>5. CASE offset + width <= other
  BY <1>1, <1>2, <1>3, <1>5, FieldAbove DEF c
<1> QED
  BY <1>4, <1>5 DEF Apart

-------------------------------------------------------------------------------
\* Where an entry lies.

LEMMA Widths ==
    \/ BitsPerStatus = 1 /\ EntriesPerByte = 8
    \/ BitsPerStatus = 2 /\ EntriesPerByte = 4
    \/ BitsPerStatus = 4 /\ EntriesPerByte = 2
    \/ BitsPerStatus = 8 /\ EntriesPerByte = 1
<1>1. BitsPerStatus \in {1, 2, 4, 8}
  BY ListAssumption
<1> QED
  BY <1>1 DEF EntriesPerByte

LEMMA EntryFits ==
    ASSUME NEW i \in Nat
    PROVE  Fits(EntryOffset(i), BitsPerStatus)
BY Widths DEF EntryOffset, Fits

LEMMA EntriesApart ==
    ASSUME NEW i \in Nat, NEW j \in Nat, i # j,
           i \div EntriesPerByte = j \div EntriesPerByte
    PROVE  Apart(EntryOffset(i), EntryOffset(j), BitsPerStatus)
<1>1. CASE BitsPerStatus = 1 /\ EntriesPerByte = 8
  BY <1>1 DEF EntryOffset, Apart
<1>2. CASE BitsPerStatus = 2 /\ EntriesPerByte = 4
  BY <1>2 DEF EntryOffset, Apart
<1>3. CASE BitsPerStatus = 4 /\ EntriesPerByte = 2
  BY <1>3 DEF EntryOffset, Apart
<1>4. CASE BitsPerStatus = 8 /\ EntriesPerByte = 1
  BY <1>4 DEF EntryOffset, Apart
<1> QED
  BY <1>1, <1>2, <1>3, <1>4, Widths

LEMMA Rounded ==
    ASSUME NEW n \in Nat, NEW e \in {1, 2, 4, 8}
    PROVE  DivCeil(n, e) \in Nat /\ n <= DivCeil(n, e) * e
BY DEF DivCeil

LEMMA ByteOf ==
    ASSUME NEW n \in Nat, NEW e \in {1, 2, 4, 8}, NEW i \in Nat, i < n * e
    PROVE  i \div e \in 0..n-1
OBVIOUS

LEMMA BitFits ==
    ASSUME NEW i \in Nat
    PROVE  Fits(BitOffset(i), 1)
BY DEF BitOffset, Fits

LEMMA BitsApart ==
    ASSUME NEW i \in Nat, NEW j \in Nat, i # j, i \div 8 = j \div 8
    PROVE  Apart(BitOffset(i), BitOffset(j), 1)
BY DEF BitOffset, Apart

LEMMA ZeroField ==
    ASSUME NEW offset, NEW width, Fits(offset, width)
    PROVE  Field(0, offset, width) = 0
<1>1. Bit(offset) \in Nat \ {0} /\ Bit(width) \in Nat \ {0}
  BY BitOf DEF Fits
<1>2. ASSUME NEW p \in Nat \ {0} PROVE 0 \div p = 0 /\ 0 % p = 0
  <2>1. 0 = 0 * p + 0 /\ 0 < p
    OBVIOUS
  <2> QED
    BY <2>1, DivModUnique
<1>3. 0 \div Bit(offset) = 0 /\ 0 % Bit(width) = 0
  BY <1>1, <1>2
<1> QED
  BY <1>3 DEF Field

-------------------------------------------------------------------------------
\* The lists.

Bytes(n) == [0..n-1 -> 0..255]
TokenBytes == DivCeil(Capacity, EntriesPerByte)
BitBytes == DivCeil(Size, 8)

TokenWrite(list, i, v, new) ==
    new = [list EXCEPT ![i \div EntriesPerByte] = WithField(@, EntryOffset(i), BitsPerStatus, v)]
BitWrite(list, i, v, new) ==
    new = [list EXCEPT ![i \div 8] = WithField(@, BitOffset(i), 1, v)]

\* TokenStatusListImpl::set writes its entry and no other, among those of all
\* the bytes of the list.
LEMMA TokenSetWrites ==
    ASSUME NEW list \in Bytes(TokenBytes), NEW i \in Nat, i < Capacity,
           NEW v \in 0..(Bit(BitsPerStatus) - 1), NEW new,
           TokenWrite(list, i, v, new)
    PROVE  /\ new \in Bytes(TokenBytes)
           /\ GetStatus(new, i) = v
           /\ \A j \in Nat : j < TokenBytes * EntriesPerByte /\ j # i
                  => GetStatus(new, j) = GetStatus(list, j)
<1> DEFINE b == i \div EntriesPerByte
           c == WithField(list[b], EntryOffset(i), BitsPerStatus, v)
<1>1. EntriesPerByte \in {1, 2, 4, 8} /\ Capacity \in Nat
  BY Widths, ListAssumption
<1>2. TokenBytes \in Nat /\ Capacity <= TokenBytes * EntriesPerByte
  BY <1>1, Rounded DEF TokenBytes
<1>3. i < TokenBytes * EntriesPerByte
  <2> DEFINE top == TokenBytes * EntriesPerByte
  <2>1. top \in Nat /\ Capacity <= top
    BY <1>1, <1>2
  <2> HIDE DEF top
  <2>2. i < top
    BY <1>1, <2>1
  <2> QED
    BY <2>2 DEF top
<1>4. b \in 0..TokenBytes-1
  BY <1>1, <1>2, <1>3, ByteOf
<1>5. list[b] \in 0..255
  BY <1>4 DEF Bytes
<1>6. c \in 0..255 /\ Field(c, EntryOffset(i), BitsPerStatus) = v
  <2>1. Writable(list[b], EntryOffset(i), BitsPerStatus, v)
    BY <1>5, EntryFits DEF Writable
  <2> QED
    BY <2>1, FieldWritten
<1>7. new = [list EXCEPT ![b] = c]
  BY DEF TokenWrite
<1>8. \A j \in Nat : j # i /\ j \div EntriesPerByte = b
          => Field(c, EntryOffset(j), BitsPerStatus) = Field(list[b], EntryOffset(j), BitsPerStatus)
  <2>1. SUFFICES ASSUME NEW j \in Nat, j # i, j \div EntriesPerByte = b
                 PROVE  Field(c, EntryOffset(j), BitsPerStatus)
                            = Field(list[b], EntryOffset(j), BitsPerStatus)
    OBVIOUS
  <2>2. Writable(list[b], EntryOffset(i), BitsPerStatus, v) /\ Fits(EntryOffset(j), BitsPerStatus)
    BY <1>5, EntryFits DEF Writable
  <2>3. Apart(EntryOffset(i), EntryOffset(j), BitsPerStatus)
    BY <2>1, EntriesApart
  <2> QED
    BY <2>2, <2>3, FieldKept
<1> HIDE DEF c
<1>9. new \in Bytes(TokenBytes) /\ new[b] = c
  BY <1>4, <1>6, <1>7 DEF Bytes
<1>10. ASSUME NEW j \in Nat, j < TokenBytes * EntriesPerByte, j # i
       PROVE  GetStatus(new, j) = GetStatus(list, j)
  <2> DEFINE d == j \div EntriesPerByte
  <2>1. d \in 0..TokenBytes-1
    BY <1>1, <1>2, <1>10, ByteOf
  <2>2. CASE d = b
    BY <1>8, <1>9, <1>10, <2>2 DEF GetStatus
  <2>3. CASE d # b
    <3>1. new[d] = list[d]
      BY <1>7, <2>1, <2>3 DEF Bytes
    <3> QED
      BY <3>1 DEF GetStatus
  <2> QED
    BY <2>2, <2>3
<1> QED
  BY <1>6, <1>9, <1>10 DEF GetStatus

\* StatusList::set writes its bit and no other.
LEMMA BitSetWrites ==
    ASSUME NEW list \in Bytes(BitBytes), NEW i \in Nat, i < Size, NEW v \in 0..1, NEW new,
           BitWrite(list, i, v, new)
    PROVE  /\ new \in Bytes(BitBytes)
           /\ Get(new, i) <=> v = 1
           /\ \A j \in Nat : j < Size /\ j # i => (Get(new, j) <=> Get(list, j))
<1> DEFINE b == i \div 8
           c == WithField(list[b], BitOffset(i), 1, v)
<1>1. BitBytes \in Nat /\ Size \in Nat /\ Size <= BitBytes * 8
  BY ListAssumption, Rounded DEF BitBytes
<1>2. ASSUME NEW j \in Nat, j < Size PROVE j \div 8 \in 0..BitBytes-1
  BY <1>1, <1>2, ByteOf
<1>3. b \in 0..BitBytes-1
  BY <1>2
<1>4. list[b] \in 0..255
  BY <1>3 DEF Bytes
<1>5. v \in 0..(Bit(1) - 1)
  BY Bits
<1>6. c \in 0..255 /\ Field(c, BitOffset(i), 1) = v
  <2>1. Writable(list[b], BitOffset(i), 1, v)
    BY <1>4, <1>5, BitFits DEF Writable
  <2> QED
    BY <2>1, FieldWritten
<1>7. new = [list EXCEPT ![b] = c]
  BY DEF BitWrite
<1>8. \A j \in Nat : j # i /\ j \div 8 = b
          => Field(c, BitOffset(j), 1) = Field(list[b], BitOffset(j), 1)
  <2>1. SUFFICES ASSUME NEW j \in Nat, j # i, j \div 8 = b
                 PROVE  Field(c, BitOffset(j), 1) = Field(list[b], BitOffset(j), 1)
    OBVIOUS
  <2>2. Writable(list[b], BitOffset(i), 1, v) /\ Fits(BitOffset(j), 1)
    BY <1>4, <1>5, BitFits DEF Writable
  <2>3. Apart(BitOffset(i), BitOffset(j), 1)
    BY <2>1, BitsApart
  <2> QED
    BY <2>2, <2>3, FieldKept
<1> HIDE DEF c
<1>9. new \in Bytes(BitBytes) /\ new[b] = c
  BY <1>3, <1>6, <1>7 DEF Bytes
<1>10. ASSUME NEW j \in Nat, j < Size, j # i
       PROVE  Get(new, j) <=> Get(list, j)
  <2> DEFINE d == j \div 8
  <2>1. d \in 0..BitBytes-1
    BY <1>2, <1>10
  <2>2. CASE d = b
    BY <1>8, <1>9, <1>10, <2>2 DEF Get
  <2>3. CASE d # b
    <3>1. new[d] = list[d]
      BY <1>7, <2>1, <2>3 DEF Bytes
    <3> QED
      BY <3>1 DEF Get
  <2> QED
    BY <2>2, <2>3
<1> QED
  BY <1>6, <1>9, <1>10 DEF Get

-------------------------------------------------------------------------------
\* The specification.

LEMMA TypeIsBytes == TypeOK <=> bits \in Bytes(BitBytes) /\ data \in Bytes(TokenBytes)
BY DEF TypeOK, Bytes, BitBytes, TokenBytes

LEMMA InitType == Init => TypeOK
BY DEF Init, TypeOK, ZeroBytes

LEMMA SetStep ==
    ASSUME TypeOK, NEW i \in Indices, NEW v \in BOOLEAN, Set(i, v)
    PROVE  /\ i \in Nat /\ i < Size
           /\ bits' \in Bytes(BitBytes)
           /\ Get(bits, i)' <=> v
           /\ \A j \in Nat : j < Size /\ j # i => (Get(bits, j)' <=> Get(bits, j))
           /\ data' = data
<1> DEFINE n == IF v THEN 1 ELSE 0
<1>1. i \in Nat /\ i < Size /\ bits \in Bytes(BitBytes) /\ n \in 0..1 /\ (n = 1 <=> v)
  BY ListAssumption, TypeIsBytes DEF Set
<1>2. BitWrite(bits, i, n, bits') /\ data' = data
  BY DEF Set, BitWrite
<1> HIDE DEF n
<1>3. /\ bits' \in Bytes(BitBytes)
      /\ Get(bits', i) <=> n = 1
      /\ \A j \in Nat : j < Size /\ j # i => (Get(bits', j) <=> Get(bits, j))
  BY <1>1, <1>2, BitSetWrites
<1>4. ASSUME NEW j PROVE Get(bits, j)' <=> Get(bits', j)
  BY DEF Get, Field, BitOffset, Bit
<1> QED
  BY <1>1, <1>2, <1>3, <1>4

LEMMA TokenSetStep ==
    ASSUME TypeOK, NEW i \in Indices, NEW v \in Statuses, TokenSet(i, v)
    PROVE  /\ i \in Nat /\ i < Capacity /\ v \in 0..(Bit(BitsPerStatus) - 1)
           /\ data' \in Bytes(TokenBytes)
           /\ GetStatus(data, i)' = v
           /\ \A j \in Nat : j < TokenBytes * EntriesPerByte /\ j # i
                  => GetStatus(data, j)' = GetStatus(data, j)
           /\ bits' = bits
<1>1. i \in Nat /\ i < Capacity /\ data \in Bytes(TokenBytes) /\ v \in 0..(Bit(BitsPerStatus) - 1)
  <2>1. v \in Nat /\ v < Bit(BitsPerStatus)
    BY ListAssumption DEF TokenSet
  <2>2. Bit(BitsPerStatus) \in Nat
    BY Widths, Bits
  <2>3. v \in 0..(Bit(BitsPerStatus) - 1)
    BY <2>1, <2>2
  <2> QED
    BY <2>3, ListAssumption, TypeIsBytes DEF TokenSet
<1>2. TokenWrite(data, i, v, data') /\ bits' = bits
  BY DEF TokenSet, TokenWrite
<1>3. /\ data' \in Bytes(TokenBytes)
      /\ GetStatus(data', i) = v
      /\ \A j \in Nat : j < TokenBytes * EntriesPerByte /\ j # i
             => GetStatus(data', j) = GetStatus(data, j)
  BY <1>1, <1>2, TokenSetWrites
<1>4. ASSUME NEW j PROVE GetStatus(data, j)' = GetStatus(data', j)
  BY DEF GetStatus, Field, EntryOffset, EntriesPerByte, Bit
<1> QED
  BY <1>1, <1>2, <1>3, <1>4

LEMMA StepType == TypeOK /\ [Next]_vars => TypeOK'
<1>1. SUFFICES ASSUME TypeOK, [Next]_vars PROVE TypeOK'
  OBVIOUS
<1>2. TypeOK' <=> bits' \in Bytes(BitBytes) /\ data' \in Bytes(TokenBytes)
  BY DEF TypeOK, Bytes, BitBytes, TokenBytes
<1>3. CASE UNCHANGED vars
  BY <1>1, <1>2, <1>3, TypeIsBytes DEF vars
<1>4. ASSUME NEW i \in Indices, NEW v \in BOOLEAN, Set(i, v) PROVE TypeOK'
  BY <1>1, <1>2, <1>4, SetStep, TypeIsBytes
<1>5. ASSUME NEW i \in Indices, NEW v \in Statuses, TokenSet(i, v) PROVE TypeOK'
  BY <1>1, <1>2, <1>5, TokenSetStep, TypeIsBytes
<1> QED
  BY <1>1, <1>3, <1>4, <1>5 DEF Next

\* Type correctness: set keeps every element of both lists a byte, whatever the
\* index and the value (status_list_2021.rs and token_status_list.rs, set).
THEOREM ListTypes == Spec => []TypeOK
BY InitType, StepType, PTL DEF Spec

LEMMA InitEntries ==
    ASSUME Init, NEW i \in Nat, i < TokenBytes * EntriesPerByte
    PROVE  GetStatus(data, i) = 0
<1>1. EntriesPerByte \in {1, 2, 4, 8} /\ Capacity \in Nat
  BY Widths, ListAssumption
<1>2. TokenBytes \in Nat
  BY <1>1, Rounded DEF TokenBytes
<1>3. i \div EntriesPerByte \in 0..TokenBytes-1
  BY <1>1, <1>2, ByteOf
<1>4. data[i \div EntriesPerByte] = 0
  BY <1>3 DEF Init, ZeroBytes, TokenBytes
<1> QED
  BY <1>4, EntryFits, ZeroField DEF GetStatus

LEMMA Padding ==
    ASSUME NEW i \in Capacity..(TokenBytes * EntriesPerByte - 1)
    PROVE  i \in Nat /\ i >= Capacity /\ i < TokenBytes * EntriesPerByte /\ Capacity \in Nat
<1>1. EntriesPerByte \in {1, 2, 4, 8} /\ Capacity \in Nat
  BY Widths, ListAssumption
<1>2. TokenBytes \in Nat
  BY <1>1, Rounded DEF TokenBytes
<1> DEFINE top == TokenBytes * EntriesPerByte
<1>3. top \in Nat
  BY <1>1, <1>2
<1> HIDE DEF top
<1>4. ASSUME NEW k \in Capacity..(top - 1)
      PROVE  k \in Nat /\ k >= Capacity /\ k < top
  BY <1>1, <1>3
<1> QED
  BY <1>1, <1>4 DEF top

LEMMA StrayIsPadding ==
    NoStrayBits <=> \A i \in Capacity..(TokenBytes * EntriesPerByte - 1) : GetStatus(data, i) = 0
BY DEF NoStrayBits, TokenBytes

\* The bits of the last byte past the last entry are never written: a write is
\* refused unless its index is below the capacity, and it touches no entry but
\* its own (token_status_list.rs, set).
THEOREM PaddingStaysZero == Spec => []NoStrayBits
<1>1. Init => NoStrayBits
  BY InitEntries, Padding, StrayIsPadding
<1>2. TypeOK /\ NoStrayBits /\ [Next]_vars => NoStrayBits'
  <2>1. SUFFICES ASSUME TypeOK, NoStrayBits, [Next]_vars,
                        NEW j \in Capacity..(TokenBytes * EntriesPerByte - 1)
                 PROVE  GetStatus(data, j)' = 0
    BY DEF NoStrayBits, TokenBytes
  <2>2. /\ j \in Nat /\ j >= Capacity /\ j < TokenBytes * EntriesPerByte /\ Capacity \in Nat
        /\ GetStatus(data, j) = 0
    BY <2>1, Padding, StrayIsPadding
  <2>3. CASE data' = data
    BY <2>2, <2>3 DEF GetStatus
  <2>4. ASSUME NEW i \in Indices, NEW v \in BOOLEAN, Set(i, v) PROVE data' = data
    BY <2>4 DEF Set
  <2>5. ASSUME NEW i \in Indices, NEW v \in Statuses, TokenSet(i, v) PROVE GetStatus(data, j)' = 0
    <3>1. /\ i \in Nat /\ i < Capacity
          /\ \A k \in Nat : k < TokenBytes * EntriesPerByte /\ k # i
                 => GetStatus(data, k)' = GetStatus(data, k)
      BY <2>1, <2>5, TokenSetStep
    <3>2. j # i
      BY <2>2, <3>1
    <3> QED
      BY <2>2, <3>1, <3>2
  <2> QED
    BY <2>1, <2>3, <2>4, <2>5 DEF Next, vars
<1> QED
  BY <1>1, <1>2, ListTypes, PTL DEF Spec

-------------------------------------------------------------------------------
\* The lists implement arrays of independent entries.

TokenEntries == [i \in 0..Capacity-1 |-> PublishedStatus(data, i)]
BitEntries == [i \in 0..Size-1 |-> PublishedBit(bits, i)]

\* get reads what a relying party reads, from the left of the bitstring ...
LEMMA GetIsPublished ==
    ASSUME NEW list, NEW i \in Nat
    PROVE  Get(list, i) <=> PublishedBit(list, i) = 1
<1>1. i % 8 \in 0..7
  OBVIOUS
<1>2. PublishedBit(list, i) = (list[i \div 8] \div 2^(7 - (i % 8))) % 2
  BY <1>1 DEF PublishedBit
<1>3. Field(list[i \div 8], BitOffset(i), 1) = (list[i \div 8] \div 2^(7 - (i % 8))) % 2
  BY Bits DEF Field, BitOffset, Bit
<1> QED
  BY <1>2, <1>3 DEF Get

LEMMA PublishedIsBit ==
    ASSUME NEW list \in Bytes(BitBytes), NEW i \in 0..Size-1
    PROVE  PublishedBit(list, i) = IF Get(list, i) THEN 1 ELSE 0
<1>1. BitBytes \in Nat /\ Size \in Nat /\ Size <= BitBytes * 8 /\ i \in Nat
  BY ListAssumption, Rounded DEF BitBytes
<1>2. i \div 8 \in 0..BitBytes-1
  BY <1>1, ByteOf
<1>3. list[i \div 8] \in Nat
  <2>1. list[i \div 8] \in 0..255
    BY <1>2 DEF Bytes
  <2> QED
    BY <2>1
<1>4. i % 8 \in 0..7 /\ 7 - (i % 8) \in 0..8
  BY <1>1
<1>5. Bit(7 - (i % 8)) \in Nat \ {0}
  BY <1>4, BitOf
<1> DEFINE n == list[i \div 8] \div Bit(7 - (i % 8))
<1>6. n \in Nat
  BY <1>3, <1>5, DivMod
<1>7. PublishedBit(list, i) = n % 2
  BY <1>4 DEF PublishedBit, Bit
<1> HIDE DEF n
<1>8. n % 2 \in {0, 1}
  BY <1>6
<1> QED
  BY <1>1, <1>7, <1>8, GetIsPublished

\* ... and from the low end of a byte of the token list.
LEMMA StatusIsPublished ==
    ASSUME NEW list, NEW i \in Nat
    PROVE  PublishedStatus(list, i) = GetStatus(list, i)
<1>1. 8 \div BitsPerStatus = EntriesPerByte
  BY DEF EntriesPerByte
<1>2. (2^BitsPerStatus)^(i % EntriesPerByte) = Bit(EntryOffset(i))
  <2>1. CASE BitsPerStatus = 1 /\ EntriesPerByte = 8
    <3>1. 2^1 = 2 /\ EntryOffset(i) = i % 8
      BY <2>1 DEF EntryOffset
    <3> QED
      BY <2>1, <3>1 DEF Bit
  <2>2. CASE BitsPerStatus = 2 /\ EntriesPerByte = 4
    <3>1. i % 4 \in {0, 1, 2, 3} /\ EntryOffset(i) = (i % 4) * 2
      BY <2>2 DEF EntryOffset
    <3>2. 2^2 = 4 /\ 4^0 = 1 /\ 4^1 = 4 /\ 4^2 = 16 /\ 4^3 = 64
      OBVIOUS
    <3>3. ASSUME NEW r \in {0, 1, 2, 3} PROVE 4^r = Bit(r * 2)
      <4>1. CASE r = 0
        BY <4>1, <3>2, Bits
      <4>2. CASE r = 1
        BY <4>2, <3>2, Bits
      <4>3. CASE r = 2
        BY <4>3, <3>2, Bits
      <4>4. CASE r = 3
        BY <4>4, <3>2, Bits
      <4> QED
        BY <4>1, <4>2, <4>3, <4>4
    <3>4. 4^(i % 4) = Bit((i % 4) * 2)
      BY <3>1, <3>3
    <3> QED
      BY <2>2, <3>1, <3>2, <3>4
  <2>3. CASE BitsPerStatus = 4 /\ EntriesPerByte = 2
    <3>1. i % 2 \in {0, 1} /\ EntryOffset(i) = (i % 2) * 4
      BY <2>3 DEF EntryOffset
    <3>2. 2^4 = 16 /\ 16^0 = 1 /\ 16^1 = 16
      OBVIOUS
    <3>3. ASSUME NEW r \in {0, 1} PROVE 16^r = Bit(r * 4)
      <4>1. CASE r = 0
        BY <4>1, <3>2, Bits
      <4>2. CASE r = 1
        BY <4>2, <3>2, Bits
      <4> QED
        BY <4>1, <4>2
    <3>4. 16^(i % 2) = Bit((i % 2) * 4)
      BY <3>1, <3>3
    <3> QED
      BY <2>3, <3>1, <3>2, <3>4
  <2>4. CASE BitsPerStatus = 8 /\ EntriesPerByte = 1
    <3>1. i % 1 = 0 /\ EntryOffset(i) = 0
      BY <2>4 DEF EntryOffset
    <3>2. 2^8 = 256 /\ 256^0 = 1
      OBVIOUS
    <3> QED
      BY <2>4, <3>1, <3>2, Bits
  <2> QED
    BY <2>1, <2>2, <2>3, <2>4, Widths
<1> QED
  BY <1>1, <1>2 DEF PublishedStatus, GetStatus, Field, Bit

LEMMA Inside ==
    ASSUME NEW i \in 0..Capacity-1
    PROVE  i \in Nat /\ i < TokenBytes * EntriesPerByte
<1>1. EntriesPerByte \in {1, 2, 4, 8} /\ Capacity \in Nat
  BY Widths, ListAssumption
<1>2. TokenBytes \in Nat /\ Capacity <= TokenBytes * EntriesPerByte
  BY <1>1, Rounded DEF TokenBytes
<1> DEFINE top == TokenBytes * EntriesPerByte
<1>3. top \in Nat /\ Capacity <= top
  BY <1>1, <1>2
<1> HIDE DEF top
<1>4. i \in Nat /\ i < top
  BY <1>1, <1>3
<1> QED
  BY <1>4 DEF top

LEMMA TokenEntriesAre ==
    /\ TokenEntries = [j \in 0..Capacity-1 |-> GetStatus(data, j)]
    /\ TokenEntries' = [j \in 0..Capacity-1 |-> GetStatus(data, j)']
<1>1. \A j \in 0..Capacity-1 : PublishedStatus(data, j) = GetStatus(data, j)
  BY Inside, StatusIsPublished
<1>2. \A j \in 0..Capacity-1 : PublishedStatus(data', j) = GetStatus(data', j)
  BY Inside, StatusIsPublished
<1>3. ASSUME NEW j
      PROVE  PublishedStatus(data, j)' = PublishedStatus(data', j) /\ GetStatus(data, j)' = GetStatus(data', j)
  BY DEF PublishedStatus, GetStatus, Field, EntryOffset, EntriesPerByte, Bit
<1>4. TokenEntries' = [j \in 0..Capacity-1 |-> PublishedStatus(data, j)']
  BY DEF TokenEntries
<1> QED
  BY <1>1, <1>2, <1>3, <1>4 DEF TokenEntries

\* TokenStatusListImpl::set is a write of the array.
LEMMA TokenSetRefines ==
    ASSUME TypeOK, NEW i \in Indices, NEW v \in Statuses, TokenSet(i, v)
    PROVE  TokenArray!Set(i, v) /\ i \in 0..Capacity-1 /\ v \in 0..(Bit(BitsPerStatus) - 1)
<1>1. /\ i \in Nat /\ i < Capacity /\ v \in 0..(Bit(BitsPerStatus) - 1)
      /\ GetStatus(data, i)' = v
      /\ \A j \in Nat : j < TokenBytes * EntriesPerByte /\ j # i
             => GetStatus(data, j)' = GetStatus(data, j)
  BY TokenSetStep
<1>2. i \in 0..Capacity-1
  BY <1>1, ListAssumption
<1>3. \A j \in 0..Capacity-1 : GetStatus(data, j)' = IF j = i THEN v ELSE GetStatus(data, j)
  BY <1>1, Inside
<1>4. TokenEntries' = [j \in 0..Capacity-1 |-> GetStatus(data, j)']
  BY TokenEntriesAre
<1>5. TokenEntries = [j \in 0..Capacity-1 |-> GetStatus(data, j)]
  BY TokenEntriesAre
<1>6. TokenEntries' = [TokenEntries EXCEPT ![i] = v]
  BY <1>2, <1>3, <1>4, <1>5
<1> QED
  BY <1>1, <1>2, <1>6 DEF TokenArray!Set, TokenEntries

\* Setting an entry of the token list writes that entry and leaves every other
\* as it was, whatever its old value, for every width and capacity: the packed
\* bytes implement StatusArray (token_status_list.rs, set and get).
THEOREM TokenListIsArray == Spec => TokenListIsAnArray
<1>1. Init => TokenArray!Init
  <2>1. SUFFICES ASSUME Init PROVE TokenArray!Init
    OBVIOUS
  <2>2. \A i \in 0..Capacity-1 : GetStatus(data, i) = 0
    BY <2>1, Inside, InitEntries
  <2> QED
    BY <2>2, TokenEntriesAre DEF TokenArray!Init, TokenEntries
<1>2. TypeOK /\ [Next]_vars => [TokenArray!Next]_TokenEntries
  <2>1. SUFFICES ASSUME TypeOK, [Next]_vars, TokenEntries' # TokenEntries PROVE TokenArray!Next
    OBVIOUS
  <2>2. data' = data => TokenEntries' = TokenEntries
    BY DEF TokenEntries, PublishedStatus
  <2>3. ASSUME NEW i \in Indices, NEW v \in BOOLEAN, Set(i, v) PROVE data' = data
    BY <2>3 DEF Set
  <2>4. ASSUME NEW i \in Indices, NEW v \in Statuses, TokenSet(i, v) PROVE TokenArray!Next
    BY <2>1, <2>4, TokenSetRefines DEF TokenArray!Next
  <2> QED
    BY <2>1, <2>2, <2>3, <2>4 DEF Next, vars
<1>3. TypeOK => \A i \in Indices, v \in Statuses : TokenSet(i, v) => TokenArray!Set(i, v)
  BY TokenSetRefines
<1>4. \A i \in 0..Capacity-1 : GetStatus(data, i) = PublishedStatus(data, i)
  BY Inside, StatusIsPublished
<1> QED
  BY <1>1, <1>2, <1>3, <1>4, ListTypes, PTL DEF Spec, TokenListIsAnArray, TokenArray!Spec, TokenEntries

LEMMA BitEntriesAre ==
    ASSUME TypeOK
    PROVE  BitEntries = [j \in 0..Size-1 |-> IF Get(bits, j) THEN 1 ELSE 0]
BY TypeIsBytes, PublishedIsBit DEF BitEntries

LEMMA NextBitEntriesAre ==
    ASSUME bits' \in Bytes(BitBytes)
    PROVE  BitEntries' = [j \in 0..Size-1 |-> IF Get(bits, j)' THEN 1 ELSE 0]
<1>1. \A j \in 0..Size-1 : PublishedBit(bits', j) = IF Get(bits', j) THEN 1 ELSE 0
  BY PublishedIsBit
<1>2. ASSUME NEW j
      PROVE  PublishedBit(bits, j)' = PublishedBit(bits', j) /\ (Get(bits, j)' <=> Get(bits', j))
  BY DEF PublishedBit, Get, Field, BitOffset, Bit
<1>3. BitEntries' = [j \in 0..Size-1 |-> PublishedBit(bits, j)']
  BY DEF BitEntries
<1> QED
  BY <1>1, <1>2, <1>3

\* StatusList::set is a write of the array.
LEMMA SetRefines ==
    ASSUME TypeOK, NEW i \in Indices, NEW v \in BOOLEAN, Set(i, v)
    PROVE  BitArray!Set(i, IF v THEN 1 ELSE 0) /\ i \in 0..Size-1
<1>1. /\ i \in Nat /\ i < Size
      /\ Get(bits, i)' <=> v
      /\ \A j \in Nat : j < Size /\ j # i => (Get(bits, j)' <=> Get(bits, j))
  BY SetStep
<1>2. Size \in Nat /\ i \in 0..Size-1
  BY <1>1, ListAssumption
<1> DEFINE n == IF v THEN 1 ELSE 0
<1>3. \A j \in 0..Size-1 : (IF Get(bits, j)' THEN 1 ELSE 0) =
          IF j = i THEN n ELSE IF Get(bits, j) THEN 1 ELSE 0
  BY <1>1, <1>2
<1>4. BitEntries' = [j \in 0..Size-1 |-> IF Get(bits, j)' THEN 1 ELSE 0]
  <2>1. bits' \in Bytes(BitBytes)
    BY SetStep
  <2> QED
    BY <2>1, NextBitEntriesAre
<1>5. BitEntries = [j \in 0..Size-1 |-> IF Get(bits, j) THEN 1 ELSE 0]
  BY BitEntriesAre
<1> HIDE DEF n
<1>6. BitEntries' = [BitEntries EXCEPT ![i] = n]
  BY <1>2, <1>3, <1>4, <1>5
<1> QED
  BY <1>2, <1>6 DEF BitArray!Set, BitEntries, n

\* The same for the bits of the StatusList2021 bitstring of any size, most
\* significant first (status_list_2021.rs, set and get).
THEOREM BitstringIsArray == Spec => BitstringIsAnArray
<1>1. Init => BitArray!Init
  <2>1. SUFFICES ASSUME Init PROVE BitArray!Init
    OBVIOUS
  <2>2. ASSUME NEW i \in 0..Size-1 PROVE ~Get(bits, i)
    <3>1. BitBytes \in Nat /\ i \in Nat /\ i < BitBytes * 8
      BY ListAssumption, Rounded DEF BitBytes
    <3>2. i \div 8 \in 0..BitBytes-1
      BY <3>1, ByteOf
    <3>3. bits[i \div 8] = 0
      BY <2>1, <3>2 DEF Init, ZeroBytes, BitBytes
    <3>4. Field(0, BitOffset(i), 1) = 0
      BY <3>1, BitFits, ZeroField
    <3> QED
      BY <3>3, <3>4 DEF Get
  <2> QED
    BY <2>1, <2>2, InitType, BitEntriesAre DEF BitArray!Init, BitEntries
<1>2. TypeOK /\ [Next]_vars => [BitArray!Next]_BitEntries
  <2>1. SUFFICES ASSUME TypeOK, [Next]_vars, BitEntries' # BitEntries PROVE BitArray!Next
    OBVIOUS
  <2>2. bits' = bits => BitEntries' = BitEntries
    BY DEF BitEntries, PublishedBit
  <2>3. ASSUME NEW i \in Indices, NEW v \in Statuses, TokenSet(i, v) PROVE bits' = bits
    BY <2>3 DEF TokenSet
  <2>4. ASSUME NEW i \in Indices, NEW v \in BOOLEAN, Set(i, v) PROVE BitArray!Next
    <3>1. BitArray!Set(i, IF v THEN 1 ELSE 0) /\ i \in 0..Size-1
      BY <2>1, <2>4, SetRefines
    <3>2. (IF v THEN 1 ELSE 0) \in {0, 1}
      OBVIOUS
    <3> QED
      BY <3>1, <3>2 DEF BitArray!Next
  <2> QED
    BY <2>1, <2>2, <2>3, <2>4 DEF Next, vars
<1>3. TypeOK => \A i \in Indices, v \in BOOLEAN :
                    Set(i, v) => BitArray!Set(i, IF v THEN 1 ELSE 0)
  BY SetRefines
<1>4. \A i \in 0..Size-1 : Get(bits, i) <=> PublishedBit(bits, i) = 1
  BY GetIsPublished, ListAssumption
<1> QED
  BY <1>1, <1>2, <1>3, <1>4, ListTypes, PTL DEF Spec, BitstringIsAnArray, BitArray!Spec, BitEntries

===============================================================================
