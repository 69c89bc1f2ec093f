------------------------------ MODULE ReplyProofs ------------------------------
(***************************************************************************)
(* Theorems about Reply: the buffer that answers are made of works as      *)
(* OddjobBuffer does, and what its caller reads back.                      *)
(***************************************************************************)
EXTENDS Reply, OddjobBufferProofs, WellFoundedInduction

\* What append left is still in order: the contents end in a NUL.
Ended == live /\ clean => Behind = NUL

\* Nothing is sent before there is an answer.
Silent == answer = None => reply = None /\ signal = None

ReplyInvariant ==
  /\ BufferInvariant /\ Ended /\ Silent /\ ReadsBack /\ AbortsKnown

(***************************************************************************)
(* The string at an address.                                               *)
(***************************************************************************)
LEMMA MinOfNats ==
  ASSUME NEW S \in SUBSET Nat, S # {}
  PROVE  Min(S) \in S /\ \A y \in S : Min(S) <= y
<1>1. PICK x \in S : \A y \in S : ~(<<y, x>> \in OpToRel(<, Nat))
  BY NatLessThanWellFounded, WFMin
<1>2. ASSUME NEW y \in S PROVE x <= y
  <2>1. x \in Nat /\ y \in Nat BY <1>1
  <2>2. ~(y < x) BY <1>1, <2>1 DEF OpToRel
  <2>. QED BY <2>1, <2>2
<1>. QED BY <1>1, <1>2 DEF Min

\* Of a text that lies at an address, with a NUL behind it, the string there is
\* what is in front of its first NUL, or all of it.
LEMMA StringIsSpoken ==
  ASSUME NEW m, DOMAIN m \subseteq Nat, NEW at \in Nat, NEW text \in Seq(Bytes),
         at .. at + Len(text) \subseteq DOMAIN m,
         \A i \in 1 .. Len(text) : m[at + i - 1] = text[i],
         m[at + Len(text)] = NUL
  PROVE  CStringAt(m, at) \in Seq(Bytes) /\ Spoken(CStringAt(m, at), text)
<1> DEFINE nuls == {i \in DOMAIN m : i >= at /\ m[i] = NUL}
           e == Min(nuls)
           n == e - at
<1>1. Len(text) \in Nat /\ \A i \in 1 .. Len(text) : text[i] \in Bytes OBVIOUS
<1>2. at + Len(text) \in nuls /\ nuls \in SUBSET Nat BY <1>1
<1>3. e \in nuls /\ \A i \in nuls : e <= i BY <1>2, MinOfNats
<1>. HIDE DEF e
<1>4. e \in Nat /\ at <= e /\ e <= at + Len(text) /\ m[e] = NUL BY <1>1, <1>2, <1>3
<1>5. n \in 0 .. Len(text) /\ e = at + n BY <1>1, <1>4
<1>. HIDE DEF n
<1>6. ASSUME NEW i \in 1 .. n
      PROVE  i \in 1 .. Len(text) /\ m[at + i - 1] = text[i] /\ text[i] # NUL
  <2>1. i \in 1 .. Len(text) BY <1>1, <1>5
  <2>2. m[at + i - 1] = text[i] BY <2>1
  <2>3. at + i - 1 \in DOMAIN m /\ at + i - 1 >= at /\ at + i - 1 < e
    <3>1. at + i - 1 \in at .. at + Len(text) BY <1>1, <2>1
    <3>2. at + i - 1 \in DOMAIN m BY <3>1
    <3>3. at + i - 1 >= at /\ at + i - 1 < e BY <1>5
    <3>. QED BY <3>2, <3>3
  <2>4. at + i - 1 \notin nuls BY <1>3, <1>4, <2>3
  <2>. QED BY <2>1, <2>2, <2>3, <2>4
<1>7. ASSUME NEW i \in at .. e - 1 PROVE m[i] # Junk
  <2>1. i - at + 1 \in 1 .. n /\ at + (i - at + 1) - 1 = i BY <1>4, <1>5
  <2>2. m[i] = text[i - at + 1] /\ i - at + 1 \in 1 .. Len(text)
    <3>1. m[at + (i - at + 1) - 1] = text[i - at + 1] /\ i - at + 1 \in 1 .. Len(text)
      BY <1>6, <2>1
    <3>. QED BY <2>1, <3>1
  <2>. QED BY <1>1, <2>2, BufferAssumption
<1>8. CStringAt(m, at) = [i \in 1 .. n |-> m[at + i - 1]]
  <2>1. nuls # {} BY <1>2
  <2>. QED BY <1>7, <2>1 DEF CStringAt, e, n
<1>9. CStringAt(m, at) = [i \in 1 .. n |-> text[i]] BY <1>6, <1>8
<1>10. SubSeq(text, 1, n) = [i \in 1 .. n |-> text[i]]
  <2>1. n \in Nat /\ n <= Len(text) BY <1>1, <1>5
  <2>2. SubSeq(text, 1, n) \in Seq(Bytes) /\ Len(SubSeq(text, 1, n)) = n
        /\ \A i \in 1 .. n : SubSeq(text, 1, n)[i] = text[i]
    BY <1>1, <2>1
  <2>. QED BY <2>2
<1>11. n < Len(text) => text[n + 1] = NUL
  <2>. SUFFICES ASSUME n < Len(text) PROVE text[n + 1] = NUL OBVIOUS
  <2>1. n + 1 \in 1 .. Len(text) /\ at + (n + 1) - 1 = e BY <1>1, <1>4, <1>5
  <2>2. m[at + (n + 1) - 1] = text[n + 1] BY <2>1
  <2>. QED BY <1>4, <2>1, <2>2
<1>12. CStringAt(m, at) \in Seq(Bytes)
  <2>1. \A i \in 1 .. n : text[i] \in Bytes BY <1>1, <1>6
  <2>2. n \in Nat BY <1>5
  <2>. QED BY <1>9, <2>1, <2>2
<1>. QED BY <1>5, <1>6, <1>9, <1>10, <1>11, <1>12 DEF Spoken

\* The buffer that ends in a NUL says its contents so far.
LEMMA CStringIsSpoken ==
  ASSUME BufferInvariant, live, Behind = NUL
  PROVE  CString \in Seq(Bytes) /\ Spoken(CString, Contents)
<1>1. /\ data \in [0 .. size - 1 -> Cells] /\ size \in Nat /\ spare \in Nat /\ used \in Nat
      /\ spare + used < size
      /\ Contents \in Seq(Bytes) /\ Len(Contents) = used
      /\ \A i \in 1 .. used : Contents[i] = data[spare + i - 1]
  BY ShapeParts DEF BufferInvariant
<1>2. DOMAIN data = 0 .. size - 1 BY <1>1
<1>3. DOMAIN data \subseteq Nat /\ spare .. spare + used \subseteq DOMAIN data BY <1>1, <1>2
<1>4. data[spare + used] = NUL BY DEF Behind
<1>. QED BY <1>1, <1>3, <1>4, StringIsSpoken DEF CString

LEMMA PointedIsSpoken ==
  ASSUME NEW text \in Seq(Bytes)
  PROVE  Pointed(text) \in Seq(Bytes) /\ Spoken(Pointed(text), text)
<1> DEFINE m == Append(text, NUL)
           S == Bytes \cup {NUL}
<1>1. text \in Seq(S) /\ NUL \in S /\ Len(text) \in Nat BY SeqMonotonic
<1>2. /\ DOMAIN m = 1 .. Len(text) + 1 /\ m[Len(text) + 1] = NUL
      /\ \A i \in 1 .. Len(text) : m[i] = text[i]
  BY <1>1, AppendProperties
<1>. HIDE DEF m, S
<1>3. DOMAIN m \subseteq Nat /\ 1 .. 1 + Len(text) \subseteq DOMAIN m BY <1>1, <1>2
<1>4. \A i \in 1 .. Len(text) : m[1 + i - 1] = text[i]
  <2>. SUFFICES ASSUME NEW i \in 1 .. Len(text) PROVE m[1 + i - 1] = text[i] OBVIOUS
  <2>1. 1 + i - 1 = i OBVIOUS
  <2>. QED BY <1>2, <2>1
<1>5. m[1 + Len(text)] = NUL
  <2>1. 1 + Len(text) = Len(text) + 1 BY <1>1
  <2>. QED BY <1>2, <2>1
<1>6. CStringAt(m, 1) \in Seq(Bytes) /\ Spoken(CStringAt(m, 1), text)
  BY <1>3, <1>4, <1>5, StringIsSpoken
<1>. QED BY <1>6 DEF Pointed, m

\* libdbus takes what is heard of a text that can be said.
LEMMA SpeakablePasses ==
  ASSUME NEW text \in Seq(Bytes), Speakable(text), NEW s \in Seq(Bytes), Spoken(s, text)
  PROVE  ~MayFail(s)
<1>1. PICK n \in 0 .. Len(text) : s = SubSeq(text, 1, n) /\ \A i \in 1 .. n : text[i] # NUL
  BY DEF Spoken
<1>2. Len(text) \in Nat /\ n \in Nat /\ n <= Len(text) BY <1>1
<1>3. Len(s) = n /\ \A i \in 1 .. n : s[i] = text[i] BY <1>1, <1>2
<1>4. ASSUME NEW i \in DOMAIN s PROVE s[i] \notin NotUTF8
  <2>1. i \in 1 .. n BY <1>2, <1>3
  <2>2. i \in DOMAIN text BY <1>2, <2>1
  <2>3. \A j \in 1 .. i - 1 : j \in 1 .. n BY <1>2, <2>1
  <2>4. text[i] \notin NotUTF8 BY <1>1, <2>2, <2>3 DEF Speakable
  <2>. QED BY <1>3, <2>1, <2>4
<1>5. s # Garbage BY ReplyAssumption
<1>. QED BY <1>4, <1>5 DEF MayFail, Valid

(***************************************************************************)
(* What the caller takes out of a message.                                 *)
(***************************************************************************)
LEMMA Pair ==
  ASSUME NEW x, NEW y
  PROVE  /\ Append(<<>>, x) = <<x>> /\ Append(<<x>>, y) = <<x, y>>
         /\ ArgumentOr(<<x, y>>, 1) = x /\ ArgumentOr(<<x, y>>, 2) = y
<1> DEFINE S == {x, y}
<1>1. /\ <<x>> \in Seq(S) /\ <<>> \in Seq(S) /\ <<x, y>> \in Seq(S) /\ x \in S /\ y \in S
  OBVIOUS
<1>2. /\ Len(<<>>) = 0 /\ Len(<<x>>) = 1 /\ Len(<<x, y>>) = 2
      /\ <<x>>[1] = x /\ <<x, y>>[1] = x /\ <<x, y>>[2] = y
  OBVIOUS
<1>3. Append(<<>>, x) = <<x>>
  <2>1. /\ Append(<<>>, x) \in Seq(S) /\ Len(Append(<<>>, x)) = 1 /\ Append(<<>>, x)[1] = x
    BY <1>1, <1>2, AppendProperties
  <2>2. \A i \in 1 .. 1 : Append(<<>>, x)[i] = <<x>>[i] BY <1>2, <2>1
  <2>. QED BY <1>1, <1>2, <2>1, <2>2, SeqEqual
<1>4. Append(<<x>>, y) = <<x, y>>
  <2>1. /\ Append(<<x>>, y) \in Seq(S) /\ Len(Append(<<x>>, y)) = 2
        /\ Append(<<x>>, y)[1] = x /\ Append(<<x>>, y)[2] = y
    BY <1>1, <1>2, AppendProperties
  <2>2. \A i \in 1 .. 2 : Append(<<x>>, y)[i] = <<x, y>>[i] BY <1>2, <2>1
  <2>. QED BY <1>1, <1>2, <2>1, <2>2, SeqEqual
<1>5. ArgumentOr(<<x, y>>, 1) = x /\ ArgumentOr(<<x, y>>, 2) = y BY <1>2 DEF ArgumentOr
<1>. QED BY <1>3, <1>4, <1>5

LEMMA Single ==
  ASSUME NEW x
  PROVE  ArgumentOr(<<x>>, 1) = x /\ ArgumentOr(<<x>>, 2) = None
<1>1. Len(<<x>>) = 1 /\ <<x>>[1] = x OBVIOUS
<1>. QED BY <1>1 DEF ArgumentOr

LEMMA Triple ==
  ASSUME NEW x, NEW y, NEW z
  PROVE  <<x>> \o <<y>> \o <<z>> = <<x, y, z>>
<1> DEFINE S == {x, y, z}
           p == <<x>> \o <<y>>
           q == p \o <<z>>
<1>1. /\ <<x>> \in Seq(S) /\ <<y>> \in Seq(S) /\ <<z>> \in Seq(S) /\ <<x, y, z>> \in Seq(S)
      /\ Len(<<x>>) = 1 /\ Len(<<y>>) = 1 /\ Len(<<z>>) = 1 /\ Len(<<x, y, z>>) = 3
      /\ <<x>>[1] = x /\ <<y>>[1] = y /\ <<z>>[1] = z
      /\ <<x, y, z>>[1] = x /\ <<x, y, z>>[2] = y /\ <<x, y, z>>[3] = z
  OBVIOUS
<1>2. p \in Seq(S) /\ Len(p) = 2 /\ p[1] = x /\ p[2] = y BY <1>1, ConcatProperties
<1>. HIDE DEF p
<1>3. q \in Seq(S) /\ Len(q) = 3 /\ q[1] = x /\ q[2] = y /\ q[3] = z
  BY <1>1, <1>2, ConcatProperties
<1>. HIDE DEF q, S
<1>4. \A i \in 1 .. 3 : q[i] = <<x, y, z>>[i] BY <1>1, <1>3
<1>5. q = <<x, y, z>> BY <1>1, <1>3, <1>4, SeqEqual
<1>. QED BY <1>5 DEF q, p

\* A number and two strings, or one string.
LEMMA HeardOfReturn ==
  ASSUME NEW r, NEW s, NEW t, NEW kept, kept = {1, 2}
  PROVE  /\ Result(Body(r, <<s, t>>, kept)) = r
         /\ ArgumentOr(ArgumentsOf(Body(r, <<s, t>>, kept)), 1) = s
         /\ ArgumentOr(ArgumentsOf(Body(r, <<s, t>>, kept)), 2) = t
<1> DEFINE body == <<IntArg(r), StringArg(s), StringArg(t)>>
           E(f) == [n \in 0 .. Len(body) |->
                      CASE n = 0 -> <<>>
                        [] n > 0 /\ body[n].type = "string" -> Append(f[n - 1], body[n].val)
                        [] OTHER -> f[n - 1]]
           f == CHOOSE g : g = E(g)
           h == [n \in 0 .. 3 |-> IF n <= 1 THEN <<>> ELSE IF n = 2 THEN <<s>> ELSE <<s, t>>]
<1>1. Body(r, <<s, t>>, kept) = body
  <2>1. 1 \in kept /\ 2 \in kept OBVIOUS
  <2>2. <<s, t>>[1] = s /\ <<s, t>>[2] = t OBVIOUS
  <2>3. Body(r, <<s, t>>, kept) = <<IntArg(r)>> \o <<StringArg(s)>> \o <<StringArg(t)>>
    BY <2>1, <2>2 DEF Body
  <2>. QED BY <2>3, Triple
<1>2. /\ body[1].type = "int32" /\ body[1].val = r
      /\ body[2].type = "string" /\ body[2].val = s
      /\ body[3].type = "string" /\ body[3].val = t
      /\ Len(body) = 3 /\ body # <<>>
  BY DEF IntArg, StringArg
<1>. HIDE DEF body
<1>3. \A n \in 0 .. 3 : n = 0 \/ n = 1 \/ n = 2 \/ n = 3 OBVIOUS
<1>4. h = E(h)
  <2>1. h[0] = <<>> /\ h[1] = <<>> /\ h[2] = <<s>> /\ h[3] = <<s, t>> OBVIOUS
  <2>2. Append(<<>>, s) = <<s>> /\ Append(<<s>>, t) = <<s, t>> BY Pair
  <2>3. /\ E(h)[0] = <<>> /\ E(h)[1] = h[0]
        /\ E(h)[2] = Append(h[1], s) /\ E(h)[3] = Append(h[2], t)
    BY <1>2
  <2>4. \A n \in 0 .. 3 : h[n] = E(h)[n] BY <1>3, <2>1, <2>2, <2>3
  <2>5. DOMAIN E(h) = 0 .. 3 /\ DOMAIN h = 0 .. 3 BY <1>2
  <2>. QED BY <1>2, <2>4, <2>5
<1>5. f = E(f) BY <1>4
<1>6. f[3] = <<s, t>>
  <2>. HIDE DEF f
  <2>1. /\ f[0] = <<>> /\ f[1] = f[0] /\ f[2] = Append(f[1], s) /\ f[3] = Append(f[2], t)
    <3>1. /\ E(f)[0] = <<>> /\ E(f)[1] = f[0]
          /\ E(f)[2] = Append(f[1], s) /\ E(f)[3] = Append(f[2], t)
      BY <1>2
    <3>. QED BY <1>5, <3>1
  <2>2. Append(<<>>, s) = <<s>> /\ Append(<<s>>, t) = <<s, t>> BY Pair
  <2>. QED BY <2>1, <2>2
<1>7. ArgumentsOf(body) = f[3] BY <1>2 DEF ArgumentsOf
<1>8. ArgumentOr(ArgumentsOf(body), 1) = s /\ ArgumentOr(ArgumentsOf(body), 2) = t
  <2>1. ArgumentsOf(body) = <<s, t>> BY <1>6, <1>7
  <2>. HIDE DEF f
  <2>. QED BY <2>1, Pair, ZenonT(30)
<1>9. Result(body) = r BY <1>2 DEF Result
<1>. QED BY <1>1, <1>8, <1>9

LEMMA HeardOfText ==
  ASSUME NEW s
  PROVE  /\ Result(<<StringArg(s)>>) = -1
         /\ ArgumentOr(ArgumentsOf(<<StringArg(s)>>), 1) = s
         /\ ArgumentOr(ArgumentsOf(<<StringArg(s)>>), 2) = None
<1> DEFINE body == <<StringArg(s)>>
           E(f) == [n \in 0 .. Len(body) |->
                      CASE n = 0 -> <<>>
                        [] n > 0 /\ body[n].type = "string" -> Append(f[n - 1], body[n].val)
                        [] OTHER -> f[n - 1]]
           f == CHOOSE g : g = E(g)
           h == [n \in 0 .. 1 |-> IF n = 0 THEN <<>> ELSE <<s>>]
<1>1. body[1].type = "string" /\ body[1].val = s /\ Len(body) = 1 /\ body # <<>>
  BY DEF StringArg
<1>. HIDE DEF body
<1>2. \A n \in 0 .. 1 : n = 0 \/ n = 1 OBVIOUS
<1>3. Append(<<>>, s) = <<s>> OBVIOUS
<1>4. h = E(h)
  <2>1. h[0] = <<>> /\ h[1] = <<s>> OBVIOUS
  <2>2. E(h)[0] = <<>> /\ E(h)[1] = Append(h[0], s) BY <1>1
  <2>3. \A n \in 0 .. 1 : h[n] = E(h)[n] BY <1>2, <1>3, <2>1, <2>2
  <2>4. DOMAIN E(h) = 0 .. 1 /\ DOMAIN h = 0 .. 1 BY <1>1
  <2>. QED BY <1>1, <2>3, <2>4
<1>5. f = E(f) BY <1>4
<1>6. f[1] = <<s>>
  <2>. HIDE DEF f
  <2>1. E(f)[0] = <<>> /\ E(f)[1] = Append(f[0], s) BY <1>1
  <2>2. f[0] = <<>> /\ f[1] = Append(f[0], s) BY <1>5, <2>1
  <2>. QED BY <1>3, <2>2
<1>7. ArgumentsOf(body) = f[1] BY <1>1 DEF ArgumentsOf
<1>8. ArgumentOr(ArgumentsOf(body), 1) = s /\ ArgumentOr(ArgumentsOf(body), 2) = None
  BY <1>6, <1>7, Single
<1>9. Result(body) = -1
  <2>1. body[1].type # "int32" BY <1>1
  <2>. QED BY <1>1, <2>1 DEF Result
<1>. QED BY <1>8, <1>9 DEF body

(***************************************************************************)
(* The steps.                                                              *)
(***************************************************************************)
LEMMA AtLeastTheText ==
  ASSUME NEW r \in Results \cup {0, -1}, NEW s \in Seq(Bytes), NEW t \in Seq(Bytes) \cup {None},
         NEW kind \in {"return", "error", "introspection"}, NEW interface \in BOOLEAN
  PROVE  Meant(kind, r, s, t, interface) # None /\ s # None /\ s # Garbage /\ (t # None => t # Garbage)
BY ReplyAssumption DEF Meant

LEMMA BufferKept ==
  ASSUME BufferInvariant, UNCHANGED <<buffer, clean>>
  PROVE  BufferInvariant' /\ (Ended => Ended')
<1>1. UNCHANGED vars BY DEF buffer, vars
<1>2. BufferInvariant' BY <1>1, BufferStep
<1>. QED BY <1>2 DEF buffer, Ended, Behind

LEMMA FillStep ==
  ASSUME ReplyInvariant, Fill
  PROVE  [Next]_vars /\ ReplyInvariant'
<1>1. daemon = "running" /\ answer = None /\ UNCHANGED messages BY DEF Fill
<1>2. Silent' /\ ReadsBack' /\ AbortsKnown'
  BY <1>1 DEF messages, Silent, ReadsBack, AbortsKnown, ReplyInvariant
<1>3. BufferInvariant /\ Shape /\ Ended BY DEF ReplyInvariant, BufferInvariant
<1>4. Next /\ Ended'
  <2>1. ASSUME NEW n \in Sizes, New(n) PROVE Next /\ Ended'
    BY <1>3, <2>1, NewStep DEF Next, Ended, Behind
  <2>2. ASSUME NEW bs \in Strings, AppendBytes(bs) PROVE Next /\ Ended'
    BY <1>3, <2>2, AppendStep DEF Next, Ended, Behind
  <2>3. ASSUME NEW bs \in Strings, Prepend(bs), clean' = FALSE PROVE Next /\ Ended'
    BY <2>3 DEF Next, Ended
  <2>4. ASSUME NEW n \in Counts, Consume(n), clean' = (clean /\ (n < used \/ used = 0))
        PROVE  Next /\ Ended'
    <3>1. live /\ UNCHANGED data BY <2>4 DEF Consume
    <3>2. n \in Nat /\ used \in Nat /\ spare \in Nat BY <1>3, BufferAssumption DEF Shape, TypeOK
    <3>3. CASE n < used
      <4>1. spare' + used' = spare + used BY <1>3, <2>4, <3>3, ConsumeStep
      <4>. QED BY <1>3, <2>4, <3>1, <3>3, <4>1 DEF Next, Ended, Behind
    <3>4. CASE used = 0
      <4>1. used' = used /\ spare' = spare BY <2>4, <3>2, <3>4 DEF Consume
      <4>. QED BY <1>3, <2>4, <3>1, <3>4, <4>1 DEF Next, Ended, Behind
    <3>5. CASE ~(n < used) /\ used # 0 BY <2>4, <3>5 DEF Next, Ended
    <3>. QED BY <3>3, <3>4, <3>5
  <2>5. ASSUME Clear, clean' = (clean /\ used = 0) PROVE Next /\ Ended'
    BY <1>3, <2>5 DEF Next, Ended, Behind, Clear
  <2>6. CASE Free BY <2>6 DEF Next, Ended, Free
  <2>. QED BY <2>1, <2>2, <2>3, <2>4, <2>5, <2>6 DEF Fill
<1>5. BufferInvariant' BY <1>3, <1>4, BufferStep
<1>. QED BY <1>2, <1>4, <1>5 DEF ReplyInvariant

\* libdbus takes both strings, or the daemon goes on without an interface.
LEMMA SendBoth ==
  ASSUME NEW r, NEW s, NEW t, NEW interface \in BOOLEAN, NEW also \in BOOLEAN,
         Send(r, <<s, t>>, interface, also), ~MayFail(s), ~MayFail(t)
  PROVE  /\ daemon' = "aborted" => daemon = "aborted" \/ ~interface
         /\ reply' = Return(Body(r, <<s, t>>, {1, 2}))
         /\ signal' # None => signal' = reply'.body
<1> DEFINE strings == <<s, t>>
<1>1. DOMAIN strings = {1, 2} /\ strings[1] = s /\ strings[2] = t OBVIOUS
<1>. HIDE DEF strings
<1>2. PICK kept \in SUBSET DOMAIN strings :
        /\ \A i \in DOMAIN strings : IF i \in kept THEN MayPass(strings[i]) ELSE MayFail(strings[i])
        /\ reply' = Return(Body(r, strings, kept))
        /\ IF interface
             THEN /\ signal' = IF also THEN Body(r, strings, kept) ELSE None
                  /\ UNCHANGED daemon
             ELSE signal' = None /\ daemon' \in {"running", "aborted"}
  BY <1>1 DEF Send, strings
<1>3. kept = {1, 2} BY <1>1, <1>2
<1>4. reply'.body = Body(r, strings, {1, 2}) BY <1>2, <1>3 DEF Return
<1>. QED BY <1>2, <1>3, <1>4 DEF strings

\* What is sent for a text says it, as far as it can be said.
Says(c, s) == c \in Seq(Bytes) /\ Spoken(c, s)

LEMMA NothingSaid == Says(<<>>, <<>>)
<1>1. Len(<<>>) = 0 /\ <<>> = SubSeq(<<>>, 1, 0) /\ <<>> \in Seq(Bytes) OBVIOUS
<1>2. 0 \in 0 .. Len(<<>>) /\ \A i \in 1 .. 0 : <<>>[i] # NUL BY <1>1
<1>. QED BY <1>1, <1>2 DEF Says, Spoken

\* c and d are sent for s and t.
LEMMA RespondStep ==
  ASSUME ReplyInvariant, Answering, NEW r \in Results, NEW s \in Seq(Bytes), NEW t \in Seq(Bytes),
         NEW interface \in BOOLEAN, NEW also \in BOOLEAN,
         answer' = Meant("return", r, s, t, interface),
         NEW c, NEW d, clean => Says(c, s) /\ Says(d, t),
         Send(r, <<c, d>>, interface, also) \/ (~clean /\ Abort)
  PROVE  ReplyInvariant'
<1>1. daemon = "running" /\ reply = None /\ signal = None /\ UNCHANGED <<buffer, clean>>
  BY DEF Answering, ReplyInvariant, Silent
<1>2. BufferInvariant' /\ Ended' BY <1>1, BufferKept DEF ReplyInvariant
<1>3. answer' # None /\ s # None /\ s # Garbage /\ t # None /\ t # Garbage
  <2>1. t \in Seq(Bytes) \cup {None} /\ t # None /\ r \in Results \cup {0, -1}
    BY ReplyAssumption
  <2>. QED BY <2>1, AtLeastTheText
<1>4. /\ answer'.kind = "return" /\ answer'.result = r /\ answer'.out = s /\ answer'.err = t
      /\ answer'.interface = interface
  BY DEF Meant
<1>5. Sound' <=> clean /\ Speakable(s) /\ Speakable(t) BY <1>1, <1>3, <1>4 DEF Sound
<1>6. ASSUME clean, Speakable(s), Speakable(t)
      PROVE  /\ daemon' = "aborted" => ~interface
             /\ reply' = Return(Body(r, <<c, d>>, {1, 2}))
             /\ signal' # None => signal' = reply'.body
             /\ Spoken(c, s) /\ Spoken(d, t)
  <2>1. Says(c, s) /\ Says(d, t) BY <1>6
  <2>2. ~MayFail(c) /\ ~MayFail(d) BY <1>6, <2>1, SpeakablePasses DEF Says
  <2>3. Send(r, <<c, d>>, interface, also) BY <1>6
  <2>4. /\ daemon' = "aborted" => daemon = "aborted" \/ ~interface
        /\ reply' = Return(Body(r, <<c, d>>, {1, 2}))
        /\ signal' # None => signal' = reply'.body
    BY <2>2, <2>3, SendBoth
  <2>. QED BY <1>1, <2>1, <2>4 DEF Says
<1>7. AbortsKnown' BY <1>4, <1>5, <1>6 DEF AbortsKnown
<1>8. ReadsBack'
  <2>. SUFFICES ASSUME Sound'
                PROVE  /\ Heard'.ret = 0 /\ Heard'.result = r
                       /\ Spoken(Heard'.output, s) /\ Spoken(Heard'.error, t)
                       /\ signal' # None => signal' = reply'.body
    BY <1>3, <1>4 DEF ReadsBack
  <2>1. reply'.error = FALSE /\ reply'.body = Body(r, <<c, d>>, {1, 2}) BY <1>5, <1>6 DEF Return
  <2>2. /\ Result(reply'.body) = r
        /\ ArgumentOr(ArgumentsOf(reply'.body), 1) = c
        /\ ArgumentOr(ArgumentsOf(reply'.body), 2) = d
    BY <2>1, HeardOfReturn
  <2>3. Heard'.ret = 0 /\ Heard'.result = r /\ Heard'.output = c /\ Heard'.error = d
    BY <2>1, <2>2 DEF Heard
  <2>. QED BY <1>5, <1>6, <2>3
<1>9. Silent' BY <1>3 DEF Silent
<1>. QED BY <1>2, <1>7, <1>8, <1>9 DEF ReplyInvariant

LEMMA TextStep ==
  ASSUME ReplyInvariant, NEW text \in Texts, RespondError(text) \/ RespondIntrospection(text)
  PROVE  ReplyInvariant'
<1> DEFINE said == Pointed(text)
<1>1. daemon = "running" /\ UNCHANGED <<buffer, clean, signal, daemon>> /\ signal = None
  BY DEF RespondError, RespondIntrospection, Answering, ReplyInvariant, Silent
<1>2. BufferInvariant' /\ Ended' BY <1>1, BufferKept DEF ReplyInvariant
<1>3. text \in Seq(Bytes) /\ text # None /\ Spoken(said, text)
  BY ReplyAssumption, PointedIsSpoken
<1>. HIDE DEF said
<1>4. answer' # None
  <2>1. answer' = Meant("error", 0, text, text, TRUE) \/ answer' = Meant("introspection", -1, text, None, TRUE)
    BY DEF RespondError, RespondIntrospection
  <2>. QED BY <1>3, <2>1, AtLeastTheText
<1>5. Silent' /\ AbortsKnown' BY <1>1, <1>4 DEF Silent, AbortsKnown
<1>6. /\ Result(<<StringArg(said)>>) = -1
      /\ ArgumentOr(ArgumentsOf(<<StringArg(said)>>), 1) = said
      /\ ArgumentOr(ArgumentsOf(<<StringArg(said)>>), 2) = None
  BY HeardOfText
<1>7. CASE RespondError(text)
  <2>1. /\ answer'.kind = "error" /\ answer'.result = 0 /\ answer'.out = text /\ answer'.err = text
        /\ reply'.error = TRUE /\ reply'.body = <<StringArg(said)>>
    BY <1>7 DEF RespondError, Meant, said
  <2>2. Heard'.ret = -1 /\ Heard'.result = 0 /\ Heard'.output = said /\ Heard'.error = said
    BY <1>6, <2>1 DEF Heard
  <2>3. ReadsBack' BY <1>1, <1>3, <2>1, <2>2 DEF ReadsBack
  <2>. QED BY <1>2, <1>5, <2>3 DEF ReplyInvariant
<1>8. CASE RespondIntrospection(text)
  <2>1. /\ answer'.kind = "introspection" /\ answer'.result = -1 /\ answer'.out = text
        /\ answer'.err = None /\ reply'.error = FALSE /\ reply'.body = <<StringArg(said)>>
    BY <1>8 DEF RespondIntrospection, Meant, Return, said
  <2>2. Heard'.ret = 0 /\ Heard'.result = -1 /\ Heard'.output = said /\ Heard'.error = None
    BY <1>6, <2>1 DEF Heard
  <2>3. ReadsBack' BY <1>1, <1>3, <2>1, <2>2 DEF ReadsBack
  <2>. QED BY <1>2, <1>5, <2>3 DEF ReplyInvariant
<1>. QED BY <1>7, <1>8

LEMMA ReplyStep ==
  ASSUME ReplyInvariant, [ReplyNext]_replyVars
  PROVE  [Next]_vars /\ ReplyInvariant'
<1>a. BufferInvariant /\ Ended BY DEF ReplyInvariant
<1>b. ASSUME UNCHANGED buffer PROVE [Next]_vars BY <1>b DEF buffer, vars
<1>1. CASE UNCHANGED replyVars
  <2>1. UNCHANGED <<buffer, clean, answer, reply, signal, daemon>> BY <1>1 DEF replyVars, messages
  <2>2. BufferInvariant' /\ Ended' BY <1>a, <2>1, BufferKept
  <2>3. Silent' /\ AbortsKnown' BY <2>1 DEF ReplyInvariant, Silent, AbortsKnown, Sound
  <2>4. ReadsBack' BY <2>1 DEF ReplyInvariant, ReadsBack, Sound, Heard
  <2>. QED BY <1>b, <2>1, <2>2, <2>3, <2>4 DEF ReplyInvariant
<1>2. CASE Fill BY <1>2, FillStep
<1>3. CASE NextCall
  <2>1. /\ daemon = "running" /\ UNCHANGED <<buffer, clean, daemon>>
        /\ answer' = None /\ reply' = None /\ signal' = None
    BY <1>3 DEF NextCall
  <2>2. BufferInvariant' /\ Ended' BY <1>a, <2>1, BufferKept
  <2>3. Silent' /\ AbortsKnown' /\ ReadsBack' BY <2>1 DEF Silent, AbortsKnown, ReadsBack
  <2>. QED BY <1>b, <2>1, <2>2, <2>3 DEF ReplyInvariant
<1>4. ASSUME NEW text \in Texts, RespondError(text) \/ RespondIntrospection(text)
      PROVE  [Next]_vars /\ ReplyInvariant'
  <2>1. UNCHANGED buffer BY <1>4 DEF RespondError, RespondIntrospection, Answering
  <2>. QED BY <1>b, <1>4, <2>1, TextStep
<1>5. ASSUME NEW r \in Results, NEW text \in Texts, NEW interface \in BOOLEAN, NEW also \in BOOLEAN,
             RespondOutput(r, text, interface, also) \/ RespondErrors(r, text, interface, also)
      PROVE  [Next]_vars /\ ReplyInvariant'
  <2>1. UNCHANGED buffer /\ Answering /\ live BY <1>5 DEF RespondOutput, RespondErrors, Answering
  <2>2. text \in Seq(Bytes) /\ Contents \in Seq(Bytes)
    BY <1>a, ReplyAssumption DEF BufferInvariant
  <2>3. /\ clean => Behind = NUL /\ Says(CString, Contents)
        /\ Says(Pointed(text), text)
    BY <1>a, <2>1, <2>2, CStringIsSpoken, PointedIsSpoken DEF Ended, Says
  <2>4. CASE RespondOutput(r, text, interface, also)
    <3>1. answer' = Meant("return", r, Contents, text, interface) BY <2>4 DEF RespondOutput
    <3>2. Send(r, <<CString, Pointed(text)>>, interface, also) \/ (~clean /\ Abort)
      BY <2>3, <2>4 DEF RespondOutput, MayAbort
    <3>. QED BY <1>b, <2>1, <2>2, <2>3, <3>1, <3>2, RespondStep
  <2>5. CASE RespondErrors(r, text, interface, also)
    <3>1. answer' = Meant("return", r, text, Contents, interface) BY <2>5 DEF RespondErrors
    <3>2. Send(r, <<Pointed(text), CString>>, interface, also) BY <2>5 DEF RespondErrors
    <3>. QED BY <1>b, <2>1, <2>2, <2>3, <3>1, <3>2, RespondStep
  <2>. QED BY <1>5, <2>4, <2>5
<1>6. ASSUME NEW r \in Results, NEW text \in Texts, NEW interface \in BOOLEAN, NEW also \in BOOLEAN,
             RespondText(r, text, interface, also)
      PROVE  [Next]_vars /\ ReplyInvariant'
  <2>1. UNCHANGED buffer /\ Answering BY <1>6 DEF RespondText, Answering
  <2>2. text \in Seq(Bytes) /\ <<>> \in Seq(Bytes) BY ReplyAssumption
  <2>3. /\ answer' = Meant("return", r, text, <<>>, interface)
        /\ Send(r, <<Pointed(text), <<>>>>, interface, also)
    BY <1>6 DEF RespondText
  <2>4. Says(Pointed(text), text) /\ Says(<<>>, <<>>)
    BY <2>2, PointedIsSpoken, NothingSaid DEF Says
  <2>. QED BY <1>b, <2>1, <2>2, <2>3, <2>4, RespondStep
<1>. QED BY <1>1, <1>2, <1>3, <1>4, <1>5, <1>6 DEF ReplyNext, Respond

LEMMA ReplyStart == ReplyInit => Init /\ ReplyInvariant
<1>. SUFFICES ASSUME ReplyInit PROVE Init /\ ReplyInvariant OBVIOUS
<1>1. Init /\ answer = None /\ reply = None /\ signal = None /\ daemon = "running" BY DEF ReplyInit
<1>2. BufferInvariant BY <1>1, InitShape
<1>3. Ended BY <1>1 DEF Init, Ended
<1>. QED BY <1>1, <1>2, <1>3 DEF ReplyInvariant, Silent, ReadsBack, AbortsKnown

(***************************************************************************)
(* The theorems.                                                           *)
(***************************************************************************)
\* The buffer, the answer and the messages stay as the invariant says, for
\* texts of any length and any bytes.
THEOREM ReplyInvariantHolds == ReplySpec => []ReplyInvariant
<1>1. ReplyInit => ReplyInvariant BY ReplyStart
<1>2. ReplyInvariant /\ [ReplyNext]_replyVars => ReplyInvariant' BY ReplyStep
<1>. QED BY <1>1, <1>2, PTL DEF ReplySpec

\* A handler does to its buffer what OddjobBuffer allows, and nothing while it
\* answers: what holds of OddjobBuffer holds of the buffer of a reply.
THEOREM ReplyUsesBuffer == ReplySpec => Spec
<1>1. ReplyInit => Init BY ReplyStart
<1>2. ReplyInvariant /\ [ReplyNext]_replyVars => [Next]_vars BY ReplyStep
<1>. QED BY <1>1, <1>2, ReplyInvariantHolds, PTL DEF ReplySpec, Spec

\* The byte behind the contents, which an answer reads, is in the allocation.
THEOREM ReplyReadsInside == ReplySpec => []TypeOK
BY ReplyUsesBuffer, BufferTypeCorrect, PTL

\* Of a buffer that was appended to last, or used up in part since, and of
\* texts that are UTF-8 up to their first NUL, oddjob_dbus_call_bus_methodv
\* reads back the number and each text up to its first NUL, whole if it has
\* none, and a signal repeats them.
THEOREM CallerReadsBack == ReplySpec => []ReadsBack
<1>1. ReplyInvariant => ReadsBack BY DEF ReplyInvariant
<1>. QED BY <1>1, ReplyInvariantHolds, PTL

\* Answering from such a buffer ends the daemon only if the call named no
\* interface.
THEOREM NoOtherAborts == ReplySpec => []AbortsKnown
<1>1. ReplyInvariant => AbortsKnown BY DEF ReplyInvariant
<1>. QED BY <1>1, ReplyInvariantHolds, PTL
================================================================================
