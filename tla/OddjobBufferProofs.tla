--------------------------- MODULE OddjobBufferProofs ---------------------------
(***************************************************************************)
(* Theorems about OddjobBuffer, for texts of any length, any size of a     *)
(* block and any bound.                                                    *)
(***************************************************************************)
EXTENDS Integers, OddjobBuffer, SequenceTheorems, TLAPS

Cells == Bytes \cup {NUL, Junk}

\* Nothing is in use without an allocation, and what is in use was put there:
\* nothing that malloc left behind.
Shape == TypeOK /\ (~live => used = 0)
BufferInvariant == Shape /\ Contents \in Seq(Bytes)

InMemory ==
  /\ Contents \in Seq(Cells) /\ Len(Contents) = used
  /\ \A i \in 1 .. used : Contents[i] = data[spare + i - 1]

(***************************************************************************)
(* The allocation.                                                         *)
(***************************************************************************)
LEMMA RoundedUp ==
  ASSUME NEW n \in Nat, NEW b \in Nat \ {0}
  PROVE  /\ ((n + b - 1) \div b + 1) * b \in Nat
         /\ n <= ((n + b - 1) \div b + 1) * b
<1>1. \A k \in Nat : k < (k \div b + 1) * b /\ k \div b \in Nat OBVIOUS
<1>2. n + b - 1 \in Nat /\ n <= n + b - 1 OBVIOUS
<1>3. \A q \in Nat : (q + 1) * b \in Nat OBVIOUS
<1>. QED BY <1>1, <1>2, <1>3

LEMMA RoomEnough ==
  ASSUME TypeOK, NEW n \in Nat
  PROVE  /\ Assured(n) \in Nat /\ spare + used + n <= Assured(n)
         /\ size <= Assured(n)
<1> DEFINE need == spare + used + n
<1>1. need \in Nat /\ size \in Nat BY DEF TypeOK
<1>2. Block \in Nat \ {0} BY BufferAssumption
<1>3. /\ (Blocks(need) + 1) * Block \in Nat
      /\ need <= (Blocks(need) + 1) * Block
  BY <1>1, <1>2, RoundedUp DEF Blocks
<1>4. Assured(n) = IF need > size THEN (Blocks(need) + 1) * Block ELSE size BY DEF Assured
<1>. HIDE DEF need
<1>5. need <= Assured(n) /\ size <= Assured(n) /\ Assured(n) \in Nat BY <1>1, <1>3, <1>4
<1>. QED BY <1>5 DEF need

LEMMA AssuredMemory ==
  ASSUME TypeOK, live, NEW n \in Nat
  PROVE  /\ AssuredData(n) \in [0 .. Assured(n) - 1 -> Cells]
         /\ \A i \in 0 .. spare + used - 1 : AssuredData(n)[i] = data[i]
<1>1. /\ data \in [0 .. size - 1 -> Cells] /\ size \in Nat /\ spare \in Nat /\ used \in Nat
      /\ spare + used < size
  BY DEF TypeOK, Memory, Cells
<1>2. Assured(n) \in Nat /\ size <= Assured(n) BY <1>1, RoomEnough
<1>3. CASE Assured(n) = size BY <1>1, <1>3 DEF AssuredData
<1>4. CASE Assured(n) # size
  <2>1. AssuredData(n) =
          [i \in 0 .. Assured(n) - 1 |-> IF i < spare + used THEN data[i] ELSE Junk]
    BY <1>4 DEF AssuredData
  <2>2. \A i \in 0 .. Assured(n) - 1 : i < spare + used => i \in 0 .. size - 1 BY <1>1, <1>2
  <2>3. \A i \in 0 .. spare + used - 1 : i \in 0 .. Assured(n) - 1 /\ i < spare + used
    BY <1>1, <1>2
  <2>. QED BY <1>1, <2>1, <2>2, <2>3 DEF Cells
<1>. QED BY <1>3, <1>4

LEMMA CopiedMemory ==
  ASSUME NEW S, NEW n \in Nat, NEW m \in [0 .. n - 1 -> S],
         NEW at \in Nat, NEW bs \in Seq(S), at + Len(bs) <= n
  PROVE  /\ Copied(m, at, bs) \in [0 .. n - 1 -> S]
         /\ \A i \in 0 .. n - 1 : i \notin at .. at + Len(bs) - 1 => Copied(m, at, bs)[i] = m[i]
         /\ \A i \in 1 .. Len(bs) : Copied(m, at, bs)[at + i - 1] = bs[i]
<1>1. Len(bs) \in Nat /\ \A i \in 1 .. Len(bs) : bs[i] \in S OBVIOUS
<1>2. Copied(m, at, bs) =
        [i \in 0 .. n - 1 |-> IF i \in at .. at + Len(bs) - 1 THEN bs[i - at + 1] ELSE m[i]]
  BY DEF Copied
<1>3. \A i \in at .. at + Len(bs) - 1 : i - at + 1 \in 1 .. Len(bs) BY <1>1
<1>4. \A i \in 1 .. Len(bs) : /\ at + i - 1 \in at .. at + Len(bs) - 1
                              /\ at + i - 1 \in 0 .. n - 1
                              /\ (at + i - 1) - at + 1 = i
  BY <1>1
<1>5. Copied(m, at, bs) \in [0 .. n - 1 -> S] BY <1>1, <1>2, <1>3
<1>6. \A i \in 1 .. Len(bs) : Copied(m, at, bs)[at + i - 1] = bs[i]
  <2>1. \A i \in 1 .. Len(bs) : Copied(m, at, bs)[at + i - 1] = bs[(at + i - 1) - at + 1]
    BY <1>2, <1>4
  <2>. QED BY <1>4, <2>1
<1>. QED BY <1>2, <1>5, <1>6

LEMMA ContentsType == Shape => InMemory
<1>. SUFFICES ASSUME Shape PROVE InMemory OBVIOUS
<1>1. /\ data \in [0 .. size - 1 -> Cells] /\ size \in Nat /\ spare \in Nat /\ used \in Nat
      /\ (live => spare + used < size) /\ (~live => used = 0)
  BY DEF Shape, TypeOK, Memory, Cells
<1>2. \A i \in 1 .. used : spare + i - 1 \in 0 .. size - 1
  <2>1. CASE live BY <1>1, <2>1
  <2>2. CASE ~live BY <1>1, <2>2
  <2>. QED BY <2>1, <2>2
<1>3. \A i \in 1 .. used : data[spare + i - 1] \in Cells BY <1>1, <1>2
<1>4. Contents \in [1 .. used -> Cells] BY <1>3 DEF Contents
<1>5. Contents \in Seq(Cells) /\ Len(Contents) = used BY <1>1, <1>4
<1>. QED BY <1>5 DEF Contents, InMemory

LEMMA NextContentsType == Shape' => InMemory'
BY ContentsType, PTL

\* Two texts are the same when their bytes are.
LEMMA TextIs ==
  ASSUME Shape', NEW s \in Seq(Cells), Len(s) = used',
         \A i \in 1 .. used' : data'[spare' + i - 1] = s[i]
  PROVE  Contents' = s
<1>1. /\ Contents' \in Seq(Cells) /\ Len(Contents') = used'
      /\ \A i \in 1 .. used' : Contents'[i] = data'[spare' + i - 1]
  BY NextContentsType DEF InMemory
<1>. QED BY <1>1, SeqEqual

(***************************************************************************)
(* The operations: what becomes of the shape, of the text and of the byte  *)
(* behind it.                                                              *)
(***************************************************************************)
LEMMA ShapeParts ==
  ASSUME Shape
  PROVE  /\ data \in [0 .. size - 1 -> Cells] /\ size \in Nat /\ spare \in Nat /\ used \in Nat
         /\ (live => spare + used < size) /\ (~live => used = 0)
         /\ Contents \in Seq(Cells) /\ Len(Contents) = used
         /\ \A i \in 1 .. used : Contents[i] = data[spare + i - 1]
BY ContentsType DEF Shape, TypeOK, Memory, Cells, InMemory

LEMMA ShapeMade ==
  ASSUME data' \in [0 .. size' - 1 -> Cells], size' \in Nat, spare' \in Nat, used' \in Nat,
         live' \in BOOLEAN, live' => spare' + used' < size', ~live' => used' = 0
  PROVE  Shape'
BY DEF Shape, TypeOK, Memory, Cells

LEMMA StringBytes ==
  ASSUME NEW bs \in Strings
  PROVE  bs \in Seq(Bytes) /\ bs \in Seq(Cells) /\ Len(bs) \in Nat
<1>1. bs \in Seq(Bytes) BY BufferAssumption
<1>. QED BY <1>1, SeqMonotonic DEF Cells

LEMMA NewStep ==
  ASSUME Shape, NEW n \in Sizes, New(n)
  PROVE  Shape' /\ Contents' = <<>> /\ data'[spare' + used'] = NUL
<1>1. Block \in Nat \ {0} /\ n \in Nat BY BufferAssumption
<1>2. size' \in Nat \ {0} /\ spare' = 0 /\ used' = 0 /\ live' = TRUE BY <1>1 DEF New
<1>3. data' = [[i \in 0 .. size' - 1 |-> Junk] EXCEPT ![0] = NUL] BY DEF New
<1>4. data' \in [0 .. size' - 1 -> Cells] /\ data'[0] = NUL
  <2>0. \A k \in Nat \ {0} : 0 \in 0 .. k - 1 OBVIOUS
  <2>1. 0 \in 0 .. size' - 1 BY <1>2, <2>0
  <2>2. [i \in 0 .. size' - 1 |-> Junk] \in [0 .. size' - 1 -> Cells] BY DEF Cells
  <2>. QED BY <1>3, <2>1, <2>2 DEF Cells
<1>5. Shape'
  <2>1. spare' + used' < size' /\ live' /\ live' \in BOOLEAN /\ spare' \in Nat /\ used' \in Nat
    BY <1>2
  <2>. QED BY <1>2, <1>4, <2>1, ShapeMade
<1>6. Contents' = <<>>
  <2>1. <<>> \in Seq(Cells) /\ Len(<<>>) = used' /\ 1 .. used' = {} BY <1>2, EmptySeq
  <2>. QED BY <1>5, <2>1, TextIs
<1>7. spare' + used' = 0 BY <1>2
<1>. QED BY <1>4, <1>5, <1>6, <1>7

LEMMA AppendStep ==
  ASSUME Shape, NEW bs \in Strings, AppendBytes(bs)
  PROVE  Shape' /\ Contents' = Contents \o bs /\ data'[spare' + used'] = NUL
<1> DEFINE n == Len(bs) + 1
           m == Copied(AssuredData(n), spare + used, bs)
<1>1. /\ data \in [0 .. size - 1 -> Cells] /\ size \in Nat /\ spare \in Nat /\ used \in Nat
      /\ spare + used < size /\ live /\ TypeOK
      /\ Contents \in Seq(Cells) /\ Len(Contents) = used
      /\ \A i \in 1 .. used : Contents[i] = data[spare + i - 1]
  BY ShapeParts DEF AppendBytes, Shape
<1>2. bs \in Seq(Cells) /\ Len(bs) \in Nat /\ n \in Nat BY StringBytes
<1>3. /\ Assured(n) \in Nat /\ spare + used + n <= Assured(n)
      /\ AssuredData(n) \in [0 .. Assured(n) - 1 -> Cells]
      /\ \A i \in 0 .. spare + used - 1 : AssuredData(n)[i] = data[i]
  BY <1>1, <1>2, RoomEnough, AssuredMemory
<1>4. /\ size' = Assured(n) /\ used' = used + Len(bs) /\ UNCHANGED <<live, spare>>
      /\ data' = [m EXCEPT ![spare + used + Len(bs)] = NUL]
  BY DEF AppendBytes
<1>5. /\ m \in [0 .. Assured(n) - 1 -> Cells]
      /\ \A i \in 0 .. Assured(n) - 1 :
           i \notin spare + used .. spare + used + Len(bs) - 1 => m[i] = AssuredData(n)[i]
      /\ \A i \in 1 .. Len(bs) : m[spare + used + i - 1] = bs[i]
  <2> DEFINE k == Assured(n)
             from == AssuredData(n)
             at == spare + used
  <2>1. at \in Nat /\ at + Len(bs) <= k /\ k \in Nat BY <1>1, <1>2, <1>3
  <2>2. from \in [0 .. k - 1 -> Cells] /\ m = Copied(from, at, bs) BY <1>3
  <2>. HIDE DEF k, from, at, m
  <2>5. from \in [0 .. k - 1 -> Cells] BY <2>2
  <2>4. /\ Copied(from, at, bs) \in [0 .. k - 1 -> Cells]
        /\ \A i \in 0 .. k - 1 : i \notin at .. at + Len(bs) - 1 => Copied(from, at, bs)[i] = from[i]
        /\ \A i \in 1 .. Len(bs) : Copied(from, at, bs)[at + i - 1] = bs[i]
    BY <1>2, <2>1, <2>5, CopiedMemory
  <2>3. /\ m \in [0 .. k - 1 -> Cells]
        /\ \A i \in 0 .. k - 1 : i \notin at .. at + Len(bs) - 1 => m[i] = from[i]
        /\ \A i \in 1 .. Len(bs) : m[at + i - 1] = bs[i]
    BY <2>2, <2>4
  <2>. QED BY <2>3 DEF k, from, at
<1>. HIDE DEF m
<1>6. spare + used + Len(bs) \in 0 .. Assured(n) - 1 BY <1>1, <1>2, <1>3
<1>7. /\ data' \in [0 .. size' - 1 -> Cells] /\ data'[spare + used + Len(bs)] = NUL
      /\ \A i \in 0 .. Assured(n) - 1 : i # spare + used + Len(bs) => data'[i] = m[i]
  BY <1>4, <1>5, <1>6 DEF Cells
<1>8. Shape'
  <2>1. size' \in Nat /\ spare' \in Nat /\ used' \in Nat /\ live' \in BOOLEAN /\ live'
        /\ spare' + used' < size'
    BY <1>1, <1>2, <1>3, <1>4
  <2>. QED BY <1>7, <2>1, ShapeMade
<1>9. Contents' = Contents \o bs
  <2>1. /\ Contents \o bs \in Seq(Cells) /\ Len(Contents \o bs) = used + Len(bs)
        /\ \A i \in 1 .. used + Len(bs) :
             (Contents \o bs)[i] = IF i <= used THEN Contents[i] ELSE bs[i - used]
    BY <1>1, <1>2, ConcatProperties
  <2>2. ASSUME NEW i \in 1 .. used' PROVE data'[spare' + i - 1] = (Contents \o bs)[i]
    <3>1. CASE i <= used
      <4>1. /\ spare + i - 1 \in 0 .. spare + used - 1 /\ spare + i - 1 \in 0 .. Assured(n) - 1
            /\ spare + i - 1 \notin spare + used .. spare + used + Len(bs) - 1
            /\ spare + i - 1 # spare + used + Len(bs)
        BY <1>1, <1>2, <1>3, <3>1
      <4>2. data'[spare + i - 1] = data[spare + i - 1] BY <1>3, <1>5, <1>7, <4>1
      <4>. QED BY <1>1, <1>4, <2>1, <3>1, <4>2
    <3>2. CASE used < i
      <4>1. i - used \in 1 .. Len(bs) /\ spare + used + (i - used) - 1 = spare + i - 1
        BY <1>1, <1>2, <1>4, <3>2
      <4>2. m[spare + i - 1] = bs[i - used]
        <5>1. m[spare + used + (i - used) - 1] = bs[i - used] BY <1>5, <4>1
        <5>. QED BY <4>1, <5>1
      <4>3. spare + i - 1 \in 0 .. Assured(n) - 1 /\ spare + i - 1 # spare + used + Len(bs)
        BY <1>1, <1>2, <1>3, <1>4, <3>2
      <4>4. data'[spare + i - 1] = bs[i - used] BY <1>7, <4>2, <4>3
      <4>. QED BY <1>1, <1>4, <2>1, <3>2, <4>4
    <3>. QED BY <1>1, <1>2, <1>4, <3>1, <3>2
  <2>. QED BY <1>4, <1>8, <2>1, <2>2, TextIs
<1>. QED BY <1>1, <1>2, <1>4, <1>7, <1>8, <1>9

LEMMA PrependSpareStep ==
  ASSUME Shape, NEW bs \in Strings, PrependSpare(bs)
  PROVE  Shape' /\ Contents' = SubSeq(bs \o Contents, 1, Len(Contents))
<1> DEFINE at == spare - Len(bs)
<1>1. /\ data \in [0 .. size - 1 -> Cells] /\ size \in Nat /\ spare \in Nat /\ used \in Nat
      /\ spare + used < size /\ live
      /\ Contents \in Seq(Cells) /\ Len(Contents) = used
      /\ \A i \in 1 .. used : Contents[i] = data[spare + i - 1]
  BY ShapeParts DEF PrependSpare
<1>2. bs \in Seq(Cells) /\ Len(bs) \in Nat BY StringBytes
<1>3. Len(bs) < spare /\ at \in Nat /\ at + Len(bs) = spare /\ at + Len(bs) <= size
  BY <1>1, <1>2 DEF PrependSpare
<1>4. data' = Copied(data, at, bs) /\ spare' = at /\ UNCHANGED <<live, size, used>>
  BY DEF PrependSpare
<1>. HIDE DEF at
<1>5. /\ Copied(data, at, bs) \in [0 .. size - 1 -> Cells]
      /\ \A i \in 0 .. size - 1 : i \notin at .. at + Len(bs) - 1 => Copied(data, at, bs)[i] = data[i]
      /\ \A i \in 1 .. Len(bs) : Copied(data, at, bs)[at + i - 1] = bs[i]
  BY <1>1, <1>2, <1>3, CopiedMemory
<1>6. Shape'
  <2>1. spare' + used' < size' /\ live' /\ live' \in BOOLEAN BY <1>1, <1>2, <1>3, <1>4
  <2>. QED BY <1>1, <1>3, <1>4, <1>5, <2>1, ShapeMade
<1>7. /\ bs \o Contents \in Seq(Cells) /\ Len(bs \o Contents) = Len(bs) + used
      /\ \A i \in 1 .. Len(bs) + used :
           (bs \o Contents)[i] = IF i <= Len(bs) THEN bs[i] ELSE Contents[i - Len(bs)]
  BY <1>1, <1>2, ConcatProperties
<1> DEFINE s == SubSeq(bs \o Contents, 1, used)
<1>8. s \in Seq(Cells) /\ Len(s) = used /\ \A i \in 1 .. used : s[i] = (bs \o Contents)[i]
  <2> DEFINE c == bs \o Contents
  <2>1. c \in Seq(Cells) /\ used \in Nat /\ used <= Len(c) BY <1>1, <1>2, <1>7
  <2>. HIDE DEF c
  <2>2. SubSeq(c, 1, used) \in Seq(Cells) /\ Len(SubSeq(c, 1, used)) = used
        /\ \A i \in 1 .. used : SubSeq(c, 1, used)[i] = c[i]
    BY <2>1
  <2>. QED BY <2>2 DEF c
<1>. HIDE DEF s
<1>9. ASSUME NEW i \in 1 .. used' PROVE data'[spare' + i - 1] = s[i]
  <2>1. CASE i <= Len(bs)
    <3>1. i \in 1 .. Len(bs) /\ i \in 1 .. used /\ i \in 1 .. Len(bs) + used
      BY <1>1, <1>2, <1>4, <2>1
    <3>. QED BY <1>4, <1>5, <1>7, <1>8, <2>1, <3>1
  <2>2. CASE Len(bs) < i
    <3>1. /\ i - Len(bs) \in 1 .. used /\ i \in 1 .. used /\ i \in 1 .. Len(bs) + used
          /\ spare + (i - Len(bs)) - 1 = at + i - 1
          /\ at + i - 1 \in 0 .. size - 1 /\ at + i - 1 \notin at .. at + Len(bs) - 1
          /\ ~(i <= Len(bs))
      <4>1. i \in 1 .. used BY <1>4
      <4>2. i - Len(bs) \in 1 .. used /\ i \in 1 .. Len(bs) + used /\ ~(i <= Len(bs))
        BY <1>1, <1>2, <2>2, <4>1
      <4>3. spare + (i - Len(bs)) - 1 = at + i - 1 BY <1>1, <1>2, <1>3, <4>1
      <4>4. at + i - 1 \in 0 .. size - 1 BY <1>1, <1>2, <1>3, <4>1
      <4>5. at + i - 1 \notin at .. at + Len(bs) - 1 BY <1>2, <1>3, <2>2, <4>1
      <4>. QED BY <4>1, <4>2, <4>3, <4>4, <4>5
    <3>2. data'[at + i - 1] = data[at + i - 1] BY <1>4, <1>5, <3>1
    <3>3. Contents[i - Len(bs)] = data[at + i - 1]
      <4>1. Contents[i - Len(bs)] = data[spare + (i - Len(bs)) - 1] BY <1>1, <3>1
      <4>. QED BY <3>1, <4>1
    <3>4. s[i] = Contents[i - Len(bs)] BY <1>7, <1>8, <3>1
    <3>. QED BY <1>4, <3>2, <3>3, <3>4
  <2>. QED BY <1>1, <1>2, <1>4, <2>1, <2>2
<1>10. Contents' = s BY <1>4, <1>6, <1>8, <1>9, TextIs
<1>. QED BY <1>1, <1>6, <1>10 DEF s

LEMMA PrependMoveStep ==
  ASSUME Shape, NEW bs \in Strings, PrependMove(bs)
  PROVE  Shape' /\ Contents' = bs \o Contents
<1> DEFINE k == Assured(Len(bs) + 1)
           from == AssuredData(Len(bs) + 1)
           c == bs \o Contents
<1>1. /\ size \in Nat /\ spare \in Nat /\ used \in Nat
      /\ spare + used < size /\ live /\ TypeOK
      /\ Contents \in Seq(Cells) /\ Len(Contents) = used
  BY ShapeParts DEF PrependMove, Shape
<1>2. bs \in Seq(Cells) /\ Len(bs) \in Nat /\ Len(bs) + 1 \in Nat BY StringBytes
<1>3. k \in Nat /\ spare + used + (Len(bs) + 1) <= k /\ from \in [0 .. k - 1 -> Cells]
  BY <1>1, <1>2, RoomEnough, AssuredMemory
<1>4. /\ size' = k /\ data' = Copied(from, spare, c) /\ used' = used + Len(bs)
      /\ UNCHANGED <<live, spare>>
  BY DEF PrependMove
<1>5. c \in Seq(Cells) /\ Len(c) = Len(bs) + used BY <1>1, <1>2, ConcatProperties
<1>. HIDE DEF k, from, c
<1>6. spare + Len(c) <= k BY <1>1, <1>2, <1>3, <1>5
<1>7. /\ Copied(from, spare, c) \in [0 .. k - 1 -> Cells]
      /\ \A i \in 0 .. k - 1 : i \notin spare .. spare + Len(c) - 1 => Copied(from, spare, c)[i] = from[i]
      /\ \A i \in 1 .. Len(c) : Copied(from, spare, c)[spare + i - 1] = c[i]
  <2>1. spare \in Nat /\ k \in Nat /\ from \in [0 .. k - 1 -> Cells] /\ c \in Seq(Cells)
    BY <1>1, <1>3, <1>5
  <2>. QED BY <1>6, <2>1, CopiedMemory
<1>8. Shape'
  <2>1. /\ spare' + used' < size' /\ live' /\ live' \in BOOLEAN
        /\ used' \in Nat /\ spare' \in Nat /\ size' \in Nat
    BY <1>1, <1>2, <1>3, <1>4
  <2>. QED BY <1>4, <1>7, <2>1, ShapeMade
<1>9. Len(c) = used' BY <1>1, <1>2, <1>4, <1>5
<1>10. \A i \in 1 .. used' : data'[spare' + i - 1] = c[i] BY <1>4, <1>7, <1>9
<1>11. Contents' = c BY <1>5, <1>8, <1>9, <1>10, TextIs
<1>. QED BY <1>8, <1>11 DEF c

LEMMA ConsumeStep ==
  ASSUME Shape, NEW n \in Counts, Consume(n)
  PROVE  /\ Shape'
         /\ Contents' = IF n < Len(Contents) THEN SubSeq(Contents, n + 1, Len(Contents)) ELSE <<>>
         /\ n < used => spare' + used' = spare + used
<1>1. /\ data \in [0 .. size - 1 -> Cells] /\ size \in Nat /\ spare \in Nat /\ used \in Nat
      /\ spare + used < size /\ live
      /\ Contents \in Seq(Cells) /\ Len(Contents) = used
      /\ \A i \in 1 .. used : Contents[i] = data[spare + i - 1]
  BY ShapeParts DEF Consume
<1>2. n \in Nat BY BufferAssumption
<1>3. CASE n < used
  <2>1. spare' = spare + n /\ used' = used - n /\ UNCHANGED <<live, size, data>>
    BY <1>3 DEF Consume
  <2>2. spare' + used' = spare + used /\ spare' \in Nat /\ used' \in Nat BY <1>1, <1>2, <1>3, <2>1
  <2>3. Shape'
    <3>1. spare' + used' < size' /\ live' /\ live' \in BOOLEAN BY <1>1, <2>1, <2>2
    <3>. QED BY <1>1, <2>1, <2>2, <3>1, ShapeMade
  <2> DEFINE c == Contents
             s == SubSeq(c, n + 1, used)
  <2>4. c \in Seq(Cells) /\ Len(c) = used BY <1>1
  <2>. HIDE DEF c
  <2>5. s \in Seq(Cells) /\ Len(s) = used - n /\ \A i \in 1 .. used - n : s[i] = c[n + i]
    <3>1. n + 1 \in 1 .. Len(c) + 1 /\ used \in n .. Len(c) BY <1>1, <1>2, <1>3, <2>4
    <3>2. Len(s) = used - n BY <1>1, <1>2, <1>3, <2>4
    <3>3. \A i \in 1 .. used - n : s[i] = c[n + i] /\ n + i \in 1 .. Len(c)
      <4>1. \A i \in 1 .. used - n : s[i] = c[(n + 1) + i - 1]
        BY <1>1, <1>2, <1>3, <2>4
      <4>2. \A i \in 1 .. used - n : (n + 1) + i - 1 = n + i /\ n + i \in 1 .. Len(c)
        BY <1>1, <1>2, <1>3, <2>4
      <4>. QED BY <4>1, <4>2
    <3>4. s \in Seq(Cells) BY <1>1, <1>2, <1>3, <2>4
    <3>. QED BY <3>2, <3>3, <3>4
  <2>. HIDE DEF s
  <2>6. ASSUME NEW i \in 1 .. used' PROVE data'[spare' + i - 1] = s[i]
    <3>1. i \in 1 .. used - n /\ n + i \in 1 .. used /\ spare' + i - 1 = spare + (n + i) - 1
      BY <1>1, <1>2, <1>3, <2>1
    <3>2. data[spare + (n + i) - 1] = c[n + i] BY <1>1, <3>1 DEF c
    <3>3. data'[spare' + i - 1] = data[spare + (n + i) - 1] BY <2>1, <3>1
    <3>. QED BY <2>5, <3>1, <3>2, <3>3
  <2>7. Contents' = s BY <2>1, <2>3, <2>5, <2>6, TextIs
  <2>. QED BY <1>1, <1>3, <2>2, <2>3, <2>7 DEF s, c
<1>4. CASE ~(n < used)
  <2>1. used' = 0 /\ UNCHANGED <<live, size, data, spare>> BY <1>4 DEF Consume
  <2>2. Shape'
    <3>1. spare' + used' < size' /\ live' /\ live' \in BOOLEAN /\ used' \in Nat BY <1>1, <2>1
    <3>. QED BY <1>1, <2>1, <3>1, ShapeMade
  <2>3. Contents' = <<>>
    <3>1. <<>> \in Seq(Cells) /\ Len(<<>>) = used' /\ 1 .. used' = {} BY <2>1, EmptySeq
    <3>. QED BY <2>2, <3>1, TextIs
  <2>. QED BY <1>1, <1>4, <2>2, <2>3
<1>. QED BY <1>3, <1>4

LEMMA EmptiedStep ==
  ASSUME Shape, Clear \/ Free
  PROVE  Shape' /\ Contents' = <<>>
<1>1. CASE Clear
  <2>1. /\ data \in [0 .. size - 1 -> Cells] /\ size \in Nat /\ spare \in Nat /\ used \in Nat
        /\ spare + used < size /\ live
    BY <1>1, ShapeParts DEF Clear
  <2>2. used' = 0 /\ UNCHANGED <<live, size, data, spare>> BY <1>1 DEF Clear
  <2>3. Shape'
    <3>1. spare' + used' < size' /\ live' /\ live' \in BOOLEAN /\ used' \in Nat BY <2>1, <2>2
    <3>. QED BY <2>1, <2>2, <3>1, ShapeMade
  <2>4. <<>> \in Seq(Cells) /\ Len(<<>>) = used' /\ 1 .. used' = {} BY <2>2, EmptySeq
  <2>. QED BY <2>3, <2>4, TextIs
<1>2. CASE Free
  <2>1. /\ ~live' /\ size' = 0 /\ spare' = 0 /\ used' = 0 /\ data' = [i \in {} |-> NUL]
    BY <1>2 DEF Free
  <2>2. Shape'
    <3>1. 0 .. size' - 1 = {} BY <2>1
    <3>2. data' \in [0 .. size' - 1 -> Cells] BY <2>1, <3>1
    <3>3. live' \in BOOLEAN BY <1>2 DEF Free
    <3>. QED BY <2>1, <3>2, <3>3, ShapeMade
  <2>3. <<>> \in Seq(Cells) /\ Len(<<>>) = used' /\ 1 .. used' = {} BY <2>1, EmptySeq
  <2>. QED BY <2>2, <2>3, TextIs
<1>. QED BY <1>1, <1>2

(***************************************************************************)
(* The theorems.                                                           *)
(***************************************************************************)
LEMMA InitShape == Init => BufferInvariant /\ Text!Init
<1>. SUFFICES ASSUME Init PROVE BufferInvariant /\ Text!Init OBVIOUS
<1>1. live = FALSE /\ size = 0 /\ spare = 0 /\ used = 0 /\ data = [i \in {} |-> NUL]
  BY DEF Init
<1>2. 0 .. size - 1 = {} /\ 1 .. used = {} BY <1>1
<1>3. data \in Memory(size)
  <2>1. data \in [{} -> Bytes \cup {NUL, Junk}] BY <1>1
  <2>. QED BY <1>2, <2>1 DEF Memory
<1>4. Shape BY <1>1, <1>3 DEF Shape, TypeOK
<1>5. Contents = <<>> BY <1>2 DEF Contents
<1>. QED BY <1>1, <1>4, <1>5 DEF BufferInvariant, Text!Init

\* Every step of the buffer is one of the text, or none.
LEMMA BufferStep ==
  ASSUME BufferInvariant, [Next]_vars
  PROVE  BufferInvariant' /\ [Text!Next]_<<Contents, live>>
<1>. USE DEF BufferInvariant
<1>a. Contents \in Seq(Bytes) /\ Shape OBVIOUS
<1>1. CASE UNCHANGED vars
  <2>1. Shape' BY <1>1 DEF vars, Shape, TypeOK, Memory
  <2>2. Contents' = Contents BY <1>1 DEF vars, Contents
  <2>. QED BY <1>1, <2>1, <2>2 DEF vars
<1>2. CASE Clear
  <2>1. Shape' /\ Contents' = <<>> BY <1>2, EmptiedStep
  <2>2. Text!Clear BY <1>2, <2>1 DEF Clear, Text!Clear
  <2>. QED BY <2>1, <2>2 DEF Text!Next
<1>3. CASE Free
  <2>1. Shape' /\ Contents' = <<>> BY <1>3, EmptiedStep
  <2>2. Text!Free BY <1>3, <2>1 DEF Free, Text!Free
  <2>. QED BY <2>1, <2>2 DEF Text!Next
<1>4. ASSUME NEW n \in Sizes, New(n) PROVE BufferInvariant' /\ [Text!Next]_<<Contents, live>>
  <2>1. Shape' /\ Contents' = <<>> BY <1>4, NewStep
  <2>2. Text!New BY <1>4, <2>1 DEF New, Text!New
  <2>. QED BY <2>1, <2>2 DEF Text!Next
<1>5. ASSUME NEW bs \in Strings, AppendBytes(bs)
      PROVE  BufferInvariant' /\ [Text!Next]_<<Contents, live>>
  <2>1. Shape' /\ Contents' = Contents \o bs BY <1>5, AppendStep
  <2>2. Text!Add(bs) BY <1>5, <2>1 DEF AppendBytes, Text!Add
  <2>3. Contents' \in Seq(Bytes) BY <1>a, <2>1, StringBytes
  <2>. QED BY <2>1, <2>2, <2>3 DEF Text!Next
<1>6. ASSUME NEW bs \in Strings, PrependSpare(bs)
      PROVE  BufferInvariant' /\ [Text!Next]_<<Contents, live>>
  <2>1. Shape' /\ Contents' = SubSeq(bs \o Contents, 1, Len(Contents)) BY <1>6, PrependSpareStep
  <2>2. Text!Put(bs) BY <1>6, <2>1 DEF PrependSpare, Text!Put
  <2>3. Contents' \in Seq(Bytes)
    <3>1. bs \o Contents \in Seq(Bytes) /\ Len(bs \o Contents) = Len(bs) + Len(Contents)
          /\ Len(bs) \in Nat /\ Len(Contents) \in Nat
      BY <1>a, StringBytes
    <3>2. \A s \in Seq(Bytes) : \A k \in 0 .. Len(s) : SubSeq(s, 1, k) \in Seq(Bytes) OBVIOUS
    <3>. QED BY <2>1, <3>1, <3>2
  <2>. QED BY <2>1, <2>2, <2>3 DEF Text!Next
<1>7. ASSUME NEW bs \in Strings, PrependMove(bs)
      PROVE  BufferInvariant' /\ [Text!Next]_<<Contents, live>>
  <2>1. Shape' /\ Contents' = bs \o Contents BY <1>7, PrependMoveStep
  <2>2. Text!Put(bs) BY <1>7, <2>1 DEF PrependMove, Text!Put
  <2>3. Contents' \in Seq(Bytes) BY <1>a, <2>1, StringBytes
  <2>. QED BY <2>1, <2>2, <2>3 DEF Text!Next
<1>8. ASSUME NEW n \in Counts, Consume(n)
      PROVE  BufferInvariant' /\ [Text!Next]_<<Contents, live>>
  <2>1. /\ Shape'
        /\ Contents' = IF n < Len(Contents) THEN SubSeq(Contents, n + 1, Len(Contents)) ELSE <<>>
    BY <1>8, ConsumeStep
  <2>2. Text!Take(n) BY <1>8, <2>1 DEF Consume, Text!Take
  <2>3. Contents' \in Seq(Bytes)
    <3>1. n \in Nat BY BufferAssumption
    <3>2. \A s \in Seq(Bytes), k \in Nat : k < Len(s) => SubSeq(s, k + 1, Len(s)) \in Seq(Bytes) OBVIOUS
    <3>. QED BY <1>a, <2>1, <3>1, <3>2
  <2>. QED BY <2>1, <2>2, <2>3 DEF Text!Next
<1>. QED BY <1>1, <1>2, <1>3, <1>4, <1>5, <1>6, <1>7, <1>8 DEF Next, Prepend

\* What is in use is inside the allocation, with the byte behind it, and is
\* made of bytes that were put there.
THEOREM BufferInvariantHolds == Spec => []BufferInvariant
<1>1. Init => BufferInvariant BY InitShape
<1>2. BufferInvariant /\ [Next]_vars => BufferInvariant' BY BufferStep
<1>. QED BY <1>1, <1>2, PTL DEF Spec

\* The byte behind the contents, which oddjob_dbus.c reads, is inside the
\* allocation after any sequence of growing, using up and moving.
THEOREM BufferTypeCorrect == Spec => []TypeOK
<1>1. BufferInvariant => TypeOK BY DEF BufferInvariant, Shape
<1>. QED BY <1>1, BufferInvariantHolds, PTL

\* Whatever the memory goes through, growing, moving and using up change the
\* contents as they change the text of TextBuffer.
THEOREM BufferIsText == Spec => ImplementsText
<1>1. Init => Text!Init BY InitShape
<1>2. BufferInvariant /\ [Next]_vars => [Text!Next]_<<Contents, live>> BY BufferStep
<1>. QED BY <1>1, <1>2, BufferInvariantHolds, PTL DEF Spec, ImplementsText, Text!Spec
=============================================================================
