-------------------------- MODULE MethodRegistryProofs --------------------------
(***************************************************************************)
(* Theorems about MethodRegistry, for any paths, interfaces, methods and   *)
(* messages: the nested arrays stay in order and are the table that        *)
(* MethodTable promises.                                                   *)
(***************************************************************************)
EXTENDS MethodRegistry, FiniteSetTheorems, SequenceTheorems, WellFoundedInduction, TLAPS

(***************************************************************************)
(* Arrays.                                                                 *)
(***************************************************************************)
LEMMA LeastPlace ==
  ASSUME NEW I \in SUBSET Nat, I # {}
  PROVE  Min(I) \in I /\ \A n \in I : Min(I) <= n
<1>1. PICK m \in I : \A n \in I : ~(<<n, m>> \in OpToRel(<, Nat))
  BY NatLessThanWellFounded, WFMin
<1>2. ASSUME NEW n \in I PROVE m <= n
  <2>1. ~(n < m) BY <1>1 DEF OpToRel
  <2>. QED BY <2>1
<1>. QED BY <1>2 DEF Min

LEMMA RemovedAt ==
  ASSUME NEW S, NEW l \in Seq(S), NEW j \in 1 .. Len(l)
  PROVE  /\ RemoveAt(l, j) \in Seq(S) /\ Len(RemoveAt(l, j)) = Len(l) - 1
         /\ \A k \in 1 .. Len(l) - 1 : RemoveAt(l, j)[k] = IF k < j THEN l[k] ELSE l[k + 1]
<1> DEFINE s == SubSeq(l, 1, j - 1)
           t == SubSeq(l, j + 1, Len(l))
<1>1. Len(l) \in Nat /\ \A i \in 1 .. Len(l) : l[i] \in S OBVIOUS
<1>2. /\ s \in Seq(S) /\ Len(s) = j - 1
      /\ \A i \in 1 .. j - 1 : s[i] = l[i]
  <2>1. \A i \in 1 .. j - 1 : l[i] \in S BY <1>1
  <2>2. /\ s \in Seq(S) /\ Len(s) = IF 1 <= j - 1 THEN j - 1 - 1 + 1 ELSE 0
        /\ \A i \in 1 .. j - 1 - 1 + 1 : s[i] = l[1 + i - 1]
    BY <2>1, SubSeqProperties
  <2>. QED BY <2>2
<1>3. /\ t \in Seq(S) /\ Len(t) = Len(l) - j
      /\ \A i \in 1 .. Len(l) - j : t[i] = l[j + i]
  <2>1. \A i \in j + 1 .. Len(l) : l[i] \in S BY <1>1
  <2>2. /\ t \in Seq(S) /\ Len(t) = IF j + 1 <= Len(l) THEN Len(l) - (j + 1) + 1 ELSE 0
        /\ \A i \in 1 .. Len(l) - (j + 1) + 1 : t[i] = l[(j + 1) + i - 1]
    BY <1>1, <2>1, SubSeqProperties
  <2>3. \A i \in 1 .. Len(l) - j : (j + 1) + i - 1 = j + i /\ i \in 1 .. Len(l) - (j + 1) + 1
    BY <1>1
  <2>4. Len(t) = Len(l) - j BY <1>1, <2>2
  <2>. QED BY <2>2, <2>3, <2>4
<1>. HIDE DEF s, t
<1>4. /\ s \o t \in Seq(S) /\ Len(s \o t) = Len(l) - 1
      /\ \A i \in 1 .. Len(l) - 1 : (s \o t)[i] = IF i <= j - 1 THEN s[i] ELSE t[i - (j - 1)]
  <2>1. /\ s \o t \in Seq(S) /\ Len(s \o t) = Len(s) + Len(t)
        /\ \A i \in 1 .. Len(s) + Len(t) :
             (s \o t)[i] = IF i <= Len(s) THEN s[i] ELSE t[i - Len(s)]
    BY <1>2, <1>3, ConcatProperties
  <2>2. Len(s) = j - 1 /\ Len(s) + Len(t) = Len(l) - 1 BY <1>1, <1>2, <1>3
  <2>. QED BY <2>1, <2>2
<1>5. ASSUME NEW i \in 1 .. Len(l) - 1 PROVE (s \o t)[i] = IF i < j THEN l[i] ELSE l[i + 1]
  <2>1. CASE i < j BY <1>1, <1>2, <1>4, <2>1
  <2>2. CASE j <= i
    <3>1. i - (j - 1) \in 1 .. Len(l) - j /\ j + (i - (j - 1)) = i + 1 BY <1>1, <2>2
    <3>2. t[i - (j - 1)] = l[j + (i - (j - 1))] BY <1>3, <3>1
    <3>3. ~(i <= j - 1) /\ ~(i < j) BY <1>1, <2>2
    <3>4. (s \o t)[i] = t[i - (j - 1)] BY <1>4, <3>3
    <3>. QED BY <3>1, <3>2, <3>3, <3>4
  <2>3. i < j \/ j <= i BY <1>1
  <2>. QED BY <2>1, <2>2, <2>3
<1>. QED BY <1>4, <1>5 DEF RemoveAt, s, t

\* What a removal leaves, and where.
Shifted(j, d) == IF d < j THEN d ELSE d - 1

LEMMA RemovedPlaces ==
  ASSUME NEW S, NEW l \in Seq(S), NEW j \in 1 .. Len(l)
  PROVE  /\ RemoveAt(l, j) \in Seq(S)
         /\ \A k \in 1 .. Len(RemoveAt(l, j)) : \E d \in 1 .. Len(l) :
              /\ d # j /\ RemoveAt(l, j)[k] = l[d] /\ k = Shifted(j, d)
         /\ \A d \in 1 .. Len(l) : d # j =>
              /\ Shifted(j, d) \in 1 .. Len(RemoveAt(l, j))
              /\ RemoveAt(l, j)[Shifted(j, d)] = l[d]
<1> DEFINE r == RemoveAt(l, j)
<1>1. /\ r \in Seq(S) /\ Len(r) = Len(l) - 1 /\ Len(l) \in Nat
      /\ \A k \in 1 .. Len(l) - 1 : r[k] = IF k < j THEN l[k] ELSE l[k + 1]
  BY RemovedAt
<1>. HIDE DEF r
<1>2. ASSUME NEW k \in 1 .. Len(r)
      PROVE  \E d \in 1 .. Len(l) : d # j /\ r[k] = l[d] /\ k = Shifted(j, d)
  <2>1. CASE k < j BY <1>1, <2>1 DEF Shifted
  <2>2. CASE j <= k
    <3>1. k + 1 \in 1 .. Len(l) /\ k + 1 # j /\ ~(k + 1 < j) /\ (k + 1) - 1 = k BY <1>1, <2>2
    <3>2. r[k] = l[k + 1] BY <1>1, <2>2
    <3>. QED BY <3>1, <3>2 DEF Shifted
  <2>. QED BY <2>1, <2>2
<1>3. ASSUME NEW d \in 1 .. Len(l), d # j
      PROVE  /\ Shifted(j, d) \in 1 .. Len(r)
             /\ r[Shifted(j, d)] = l[d]
  <2>1. CASE d < j BY <1>1, <2>1 DEF Shifted
  <2>2. CASE j < d
    <3>1. d - 1 \in 1 .. Len(r) /\ ~(d - 1 < j) /\ (d - 1) + 1 = d /\ ~(d < j) BY <1>1, <2>2
    <3>2. r[d - 1] = l[(d - 1) + 1] BY <1>1, <3>1
    <3>. QED BY <3>1, <3>2 DEF Shifted
  <2>. QED BY <1>3, <2>1, <2>2
<1>. QED BY <1>1, <1>2, <1>3 DEF r

(***************************************************************************)
(* The methods of an interface.                                            *)
(***************************************************************************)
HasMethod(ms, e) == \E d \in 1 .. Len(ms) : ms[d] = e

MethodsOK(ms) ==
  /\ ms \in Seq(MethodEntries)
  /\ \A d, e \in 1 .. Len(ms) : ms[d].method = ms[e].method => d = e

LEMMA MethodPlace ==
  ASSUME NEW ms, Len(ms) \in Nat, NEW m
  PROVE  /\ MethodAt(ms, m) \in 0 .. Len(ms)
         /\ MethodAt(ms, m) # 0 => ms[MethodAt(ms, m)].method = m
         /\ MethodAt(ms, m) = 0 => \A d \in 1 .. Len(ms) : ms[d].method # m
<1> DEFINE I == {d \in 1 .. Len(ms) : ms[d].method = m}
<1>1. MethodAt(ms, m) = IF I # {} THEN Min(I) ELSE 0 BY DEF MethodAt, SelectInSeq
<1>2. I \in SUBSET Nat OBVIOUS
<1>3. I # {} => Min(I) \in I BY <1>2, LeastPlace
<1>. QED BY <1>1, <1>3

LEMMA PutMethodIs ==
  ASSUME NEW ms, MethodsOK(ms), NEW e \in MethodEntries
  PROVE  /\ MethodsOK(PutMethod(ms, e)) /\ PutMethod(ms, e) # <<>>
         /\ \A x : HasMethod(PutMethod(ms, e), x)
                     <=> x = e \/ (HasMethod(ms, x) /\ x.method # e.method)
<1> DEFINE j == MethodAt(ms, e.method)
           r == PutMethod(ms, e)
<1>1. /\ ms \in Seq(MethodEntries) /\ Len(ms) \in Nat
      /\ \A d, f \in 1 .. Len(ms) : ms[d].method = ms[f].method => d = f
  BY DEF MethodsOK
<1>2. /\ j \in 0 .. Len(ms) /\ (j # 0 => ms[j].method = e.method)
      /\ (j = 0 => \A d \in 1 .. Len(ms) : ms[d].method # e.method)
  BY <1>1, MethodPlace
<1>3. CASE j = 0
  <2>1. r = Append(ms, e) BY <1>3 DEF PutMethod
  <2>2. /\ r \in Seq(MethodEntries) /\ Len(r) = Len(ms) + 1 /\ r[Len(ms) + 1] = e
        /\ \A d \in 1 .. Len(ms) : r[d] = ms[d]
    BY <1>1, <2>1, AppendProperties
  <2>. HIDE DEF r, j
  <2>3. \A d \in 1 .. Len(r) : d = Len(ms) + 1 \/ d \in 1 .. Len(ms) BY <1>1, <2>2
  <2>4. MethodsOK(r) BY <1>1, <1>2, <1>3, <2>2, <2>3 DEF MethodsOK
  <2>5. Len(ms) + 1 \in 1 .. Len(r) /\ r # <<>> BY <1>1, <2>2, EmptySeq
  <2>6. \A d \in 1 .. Len(ms) : d \in 1 .. Len(r) BY <1>1, <2>2
  <2>7. ASSUME NEW x
        PROVE  HasMethod(r, x) <=> x = e \/ (HasMethod(ms, x) /\ x.method # e.method)
    BY <1>2, <1>3, <2>2, <2>3, <2>5, <2>6 DEF HasMethod
  <2>. QED BY <2>4, <2>5, <2>7 DEF r
<1>4. CASE j # 0
  <2>1. r = [ms EXCEPT ![j] = e] /\ j \in 1 .. Len(ms) BY <1>2, <1>4 DEF PutMethod
  <2>2. r \in Seq(MethodEntries) /\ Len(r) = Len(ms) BY <1>1, <2>1, ExceptSeq
  <2>3. r[j] = e /\ \A d \in 1 .. Len(ms) : d # j => r[d] = ms[d] BY <1>1, <2>1, ExceptSeq
  <2>. HIDE DEF r, j
  <2>4. \A d \in 1 .. Len(r) : r[d].method = ms[d].method BY <1>2, <1>4, <2>2, <2>3
  <2>5. MethodsOK(r) BY <1>1, <2>2, <2>4 DEF MethodsOK
  <2>6. r # <<>> BY <1>1, <2>1, <2>2, EmptySeq
  <2>7. \A d \in 1 .. Len(ms) : ms[d].method = e.method <=> d = j BY <1>1, <1>2, <1>4, <2>1
  <2>8. ASSUME NEW x
        PROVE  HasMethod(r, x) <=> x = e \/ (HasMethod(ms, x) /\ x.method # e.method)
    BY <2>1, <2>2, <2>3, <2>7 DEF HasMethod
  <2>. QED BY <2>5, <2>6, <2>8 DEF r
<1>. QED BY <1>3, <1>4

LEMMA CutMethodIs ==
  ASSUME NEW ms, MethodsOK(ms), NEW m
  PROVE  /\ MethodsOK(CutMethod(ms, m))
         /\ \A x : HasMethod(CutMethod(ms, m), x) <=> HasMethod(ms, x) /\ x.method # m
<1> DEFINE j == MethodAt(ms, m)
           r == CutMethod(ms, m)
<1>1. /\ ms \in Seq(MethodEntries) /\ Len(ms) \in Nat
      /\ \A d, f \in 1 .. Len(ms) : ms[d].method = ms[f].method => d = f
  BY DEF MethodsOK
<1>2. /\ j \in 0 .. Len(ms) /\ (j # 0 => ms[j].method = m)
      /\ (j = 0 => \A d \in 1 .. Len(ms) : ms[d].method # m)
  BY <1>1, MethodPlace
<1>3. CASE j = 0
  <2>1. r = ms BY <1>3 DEF CutMethod
  <2>. QED BY <1>2, <1>3, <2>1 DEF HasMethod
<1>4. CASE j # 0
  <2>1. r = RemoveAt(ms, j) /\ j \in 1 .. Len(ms) BY <1>2, <1>4 DEF CutMethod
  <2>. HIDE DEF j
  <2>2. /\ r \in Seq(MethodEntries)
        /\ \A k \in 1 .. Len(r) : \E d \in 1 .. Len(ms) : d # j /\ r[k] = ms[d] /\ k = Shifted(j, d)
        /\ \A d \in 1 .. Len(ms) : d # j => Shifted(j, d) \in 1 .. Len(r) /\ r[Shifted(j, d)] = ms[d]
    BY <1>1, <2>1, RemovedPlaces
  <2>. HIDE DEF r
  <2>3. MethodsOK(r) BY <1>1, <2>2 DEF MethodsOK
  <2>4. \A d \in 1 .. Len(ms) : ms[d].method = m <=> d = j BY <1>1, <1>2, <1>4, <2>1
  <2>5. ASSUME NEW x PROVE HasMethod(r, x) <=> HasMethod(ms, x) /\ x.method # m
    BY <2>2, <2>4, SMTT(20) DEF HasMethod
  <2>. QED BY <2>3, <2>5 DEF r
<1>. QED BY <1>3, <1>4

(***************************************************************************)
(* The interfaces of an object.                                            *)
(***************************************************************************)
HasEntry(fs, i, e) == \E b \in 1 .. Len(fs) : fs[b].interface = i /\ HasMethod(fs[b].methods, e)

InterfaceOK(f) == f \in InterfaceItems /\ MethodsOK(f.methods) /\ f.methods # <<>>

InterfacesOK(fs) ==
  /\ fs \in Seq(InterfaceItems)
  /\ \A b \in 1 .. Len(fs) : InterfaceOK(fs[b])
  /\ \A b, c \in 1 .. Len(fs) : fs[b].interface = fs[c].interface => b = c

LEMMA InterfacePlace ==
  ASSUME NEW fs, Len(fs) \in Nat, NEW i
  PROVE  /\ InterfaceAt(fs, i) \in 0 .. Len(fs)
         /\ InterfaceAt(fs, i) # 0 => fs[InterfaceAt(fs, i)].interface = i
         /\ InterfaceAt(fs, i) = 0 => \A b \in 1 .. Len(fs) : fs[b].interface # i
<1> DEFINE I == {b \in 1 .. Len(fs) : fs[b].interface = i}
<1>1. InterfaceAt(fs, i) = IF I # {} THEN Min(I) ELSE 0 BY DEF InterfaceAt, SelectInSeq
<1>2. I \in SUBSET Nat OBVIOUS
<1>3. I # {} => Min(I) \in I BY <1>2, LeastPlace
<1>. QED BY <1>1, <1>3

LEMMA InterfaceAdded ==
  ASSUME NEW fs, InterfacesOK(fs), NEW f, InterfaceOK(f),
         \A b \in 1 .. Len(fs) : fs[b].interface # f.interface
  PROVE  /\ InterfacesOK(Append(fs, f)) /\ Append(fs, f) # <<>>
         /\ \A k, x : HasEntry(Append(fs, f), k, x)
                        <=> HasEntry(fs, k, x) \/ (k = f.interface /\ HasMethod(f.methods, x))
<1> DEFINE r == Append(fs, f)
<1>1. fs \in Seq(InterfaceItems) /\ Len(fs) \in Nat /\ f \in InterfaceItems
  BY DEF InterfacesOK, InterfaceOK
<1>2. /\ r \in Seq(InterfaceItems) /\ Len(r) = Len(fs) + 1 /\ r[Len(fs) + 1] = f
      /\ \A b \in 1 .. Len(fs) : r[b] = fs[b]
  BY <1>1, AppendProperties
<1>. HIDE DEF r
<1>3. /\ Len(fs) + 1 \in 1 .. Len(r)
      /\ \A b \in 1 .. Len(r) : b = Len(fs) + 1 \/ b \in 1 .. Len(fs)
      /\ \A b \in 1 .. Len(fs) : b \in 1 .. Len(r)
  BY <1>1, <1>2
<1>4. InterfacesOK(r) BY <1>2, <1>3 DEF InterfacesOK
<1>5. r # <<>> BY <1>1, <1>2, EmptySeq
<1>6. ASSUME NEW k, NEW x
      PROVE  HasEntry(r, k, x)
               <=> HasEntry(fs, k, x) \/ (k = f.interface /\ HasMethod(f.methods, x))
  BY <1>2, <1>3 DEF HasEntry
<1>. QED BY <1>4, <1>5, <1>6 DEF r

LEMMA InterfaceSet ==
  ASSUME NEW fs, InterfacesOK(fs), NEW j \in 1 .. Len(fs), NEW f, InterfaceOK(f),
         f.interface = fs[j].interface
  PROVE  /\ InterfacesOK([fs EXCEPT ![j] = f]) /\ [fs EXCEPT ![j] = f] # <<>>
         /\ \A k, x : HasEntry([fs EXCEPT ![j] = f], k, x)
                        <=> IF k = f.interface THEN HasMethod(f.methods, x)
                                               ELSE HasEntry(fs, k, x)
<1> DEFINE r == [fs EXCEPT ![j] = f]
<1>1. fs \in Seq(InterfaceItems) /\ Len(fs) \in Nat /\ f \in InterfaceItems
  BY DEF InterfacesOK, InterfaceOK
<1>2. /\ r \in Seq(InterfaceItems) /\ Len(r) = Len(fs) /\ r[j] = f
      /\ \A b \in 1 .. Len(fs) : b # j => r[b] = fs[b]
  BY <1>1, ExceptSeq
<1>. HIDE DEF r
<1>3. \A b \in 1 .. Len(fs) : /\ r[b].interface = fs[b].interface
                              /\ fs[b].interface = f.interface <=> b = j
  BY <1>2 DEF InterfacesOK
<1>4. InterfacesOK(r) BY <1>2, <1>3 DEF InterfacesOK
<1>5. r # <<>> BY <1>1, <1>2, EmptySeq
<1>6. ASSUME NEW k, NEW x
      PROVE  HasEntry(r, k, x)
               <=> IF k = f.interface THEN HasMethod(f.methods, x) ELSE HasEntry(fs, k, x)
  BY <1>2, <1>3 DEF HasEntry
<1>. QED BY <1>4, <1>5, <1>6 DEF r

LEMMA InterfaceRemoved ==
  ASSUME NEW fs, InterfacesOK(fs), NEW j \in 1 .. Len(fs)
  PROVE  /\ InterfacesOK(RemoveAt(fs, j))
         /\ \A k, x : HasEntry(RemoveAt(fs, j), k, x)
                        <=> HasEntry(fs, k, x) /\ k # fs[j].interface
<1> DEFINE r == RemoveAt(fs, j)
<1>1. fs \in Seq(InterfaceItems) /\ Len(fs) \in Nat BY DEF InterfacesOK
<1>2. /\ r \in Seq(InterfaceItems)
      /\ \A k \in 1 .. Len(r) : \E b \in 1 .. Len(fs) : b # j /\ r[k] = fs[b] /\ k = Shifted(j, b)
      /\ \A b \in 1 .. Len(fs) : b # j => Shifted(j, b) \in 1 .. Len(r) /\ r[Shifted(j, b)] = fs[b]
  BY <1>1, RemovedPlaces
<1>. HIDE DEF r
<1>3. \A b \in 1 .. Len(fs) : fs[b].interface = fs[j].interface <=> b = j BY DEF InterfacesOK
<1>4. InterfacesOK(r)
  <2>1. \A b \in 1 .. Len(fs) : InterfaceOK(fs[b]) BY DEF InterfacesOK
  <2>2. \A b, c \in 1 .. Len(fs) : fs[b].interface = fs[c].interface => b = c
    BY DEF InterfacesOK
  <2>3. \A k \in 1 .. Len(r) : InterfaceOK(r[k]) BY <1>2, <2>1
  <2>4. ASSUME NEW k \in 1 .. Len(r), NEW n \in 1 .. Len(r), r[k].interface = r[n].interface
        PROVE  k = n
    <3>1. PICK b \in 1 .. Len(fs) : r[k] = fs[b] /\ k = Shifted(j, b) BY <1>2
    <3>2. PICK c \in 1 .. Len(fs) : r[n] = fs[c] /\ n = Shifted(j, c) BY <1>2
    <3>3. b = c BY <2>2, <2>4, <3>1, <3>2
    <3>. QED BY <3>1, <3>2, <3>3
  <2>. QED BY <1>2, <2>3, <2>4 DEF InterfacesOK
<1>5. ASSUME NEW k, NEW x
      PROVE  HasEntry(r, k, x) <=> HasEntry(fs, k, x) /\ k # fs[j].interface
  <2>1. ASSUME HasEntry(r, k, x) PROVE HasEntry(fs, k, x) /\ k # fs[j].interface
    BY <1>2, <1>3, <2>1 DEF HasEntry
  <2>2. ASSUME HasEntry(fs, k, x), k # fs[j].interface PROVE HasEntry(r, k, x)
    BY <1>2, <1>3, <2>2 DEF HasEntry
  <2>. QED BY <2>1, <2>2
<1>. QED BY <1>4, <1>5 DEF r

\* What is in an interface, looked up by its name.
LEMMA EntryAt ==
  ASSUME NEW fs, InterfacesOK(fs), NEW j \in 1 .. Len(fs)
  PROVE  \A x : HasEntry(fs, fs[j].interface, x) <=> HasMethod(fs[j].methods, x)
BY DEF InterfacesOK, HasEntry

LEMMA PutInterfaceIs ==
  ASSUME NEW fs, InterfacesOK(fs), NEW i \in Interfaces, NEW e \in MethodEntries
  PROVE  /\ InterfacesOK(PutInterface(fs, i, e)) /\ PutInterface(fs, i, e) # <<>>
         /\ \A k, x : HasEntry(PutInterface(fs, i, e), k, x)
              <=> (k = i /\ x = e) \/ (HasEntry(fs, k, x) /\ ~(k = i /\ x.method = e.method))
<1> DEFINE j == InterfaceAt(fs, i)
           r == PutInterface(fs, i, e)
<1>1. fs \in Seq(InterfaceItems) /\ Len(fs) \in Nat BY DEF InterfacesOK
<1>2. /\ j \in 0 .. Len(fs) /\ (j # 0 => fs[j].interface = i)
      /\ (j = 0 => \A b \in 1 .. Len(fs) : fs[b].interface # i)
  BY <1>1, InterfacePlace
<1>3. CASE j = 0
  <2> DEFINE f == [interface |-> i, methods |-> PutMethod(<<>>, e)]
  <2>1. MethodsOK(<<>>) /\ \A x : ~HasMethod(<<>>, x)
    BY EmptySeq DEF MethodsOK, HasMethod
  <2>2. /\ MethodsOK(f.methods) /\ f.methods # <<>> /\ f.interface = i
        /\ \A x : HasMethod(f.methods, x) <=> x = e
    BY <2>1, PutMethodIs
  <2>3. f \in InterfaceItems BY <2>2 DEF InterfaceItems, MethodsOK
  <2>4. r = Append(fs, f) BY <1>3 DEF PutInterface
  <2>5. InterfaceOK(f) BY <2>2, <2>3 DEF InterfaceOK
  <2>. HIDE DEF f, r, j
  <2>6. \A b \in 1 .. Len(fs) : fs[b].interface # f.interface BY <1>2, <1>3, <2>2
  <2>7. /\ InterfacesOK(r) /\ r # <<>>
        /\ \A k, x : HasEntry(r, k, x)
                       <=> HasEntry(fs, k, x) \/ (k = f.interface /\ HasMethod(f.methods, x))
    BY <2>4, <2>5, <2>6, InterfaceAdded
  <2>8. \A x : ~HasEntry(fs, i, x) BY <1>2, <1>3 DEF HasEntry
  <2>. QED BY <2>2, <2>7, <2>8 DEF r
<1>4. CASE j # 0
  <2> DEFINE f == [fs[j] EXCEPT !.methods = PutMethod(@, e)]
  <2>1. j \in 1 .. Len(fs) BY <1>2, <1>4
  <2>2. fs[j] \in InterfaceItems /\ MethodsOK(fs[j].methods) BY <2>1 DEF InterfacesOK, InterfaceOK
  <2>3. f.interface = i /\ f.methods = PutMethod(fs[j].methods, e)
    BY <1>2, <1>4, <2>2 DEF InterfaceItems
  <2>4. /\ MethodsOK(f.methods) /\ f.methods # <<>>
        /\ \A x : HasMethod(f.methods, x)
                    <=> x = e \/ (HasMethod(fs[j].methods, x) /\ x.method # e.method)
    BY <2>2, <2>3, PutMethodIs
  <2>5. InterfaceOK(f) BY <2>2, <2>4 DEF InterfaceItems, InterfaceOK, MethodsOK
  <2>6. r = [fs EXCEPT ![j] = f] BY <1>4 DEF PutInterface
  <2>. HIDE DEF f, r, j
  <2>7. /\ InterfacesOK(r) /\ r # <<>>
        /\ \A k, x : HasEntry(r, k, x)
             <=> IF k = f.interface THEN HasMethod(f.methods, x) ELSE HasEntry(fs, k, x)
    BY <1>2, <1>4, <2>1, <2>3, <2>5, <2>6, InterfaceSet
  <2>8. \A x : HasEntry(fs, i, x) <=> HasMethod(fs[j].methods, x)
    BY <1>2, <1>4, <2>1, EntryAt
  <2>. QED BY <2>3, <2>4, <2>7, <2>8 DEF r
<1>. QED BY <1>3, <1>4

LEMMA CutInterfaceIs ==
  ASSUME NEW fs, InterfacesOK(fs), NEW i, NEW m
  PROVE  /\ InterfacesOK(CutInterface(fs, i, m))
         /\ \A k, x : HasEntry(CutInterface(fs, i, m), k, x)
              <=> HasEntry(fs, k, x) /\ ~(k = i /\ x.method = m)
<1> DEFINE j == InterfaceAt(fs, i)
           ms == CutMethod(fs[j].methods, m)
           r == CutInterface(fs, i, m)
<1>1. fs \in Seq(InterfaceItems) /\ Len(fs) \in Nat BY DEF InterfacesOK
<1>2. /\ j \in 0 .. Len(fs) /\ (j # 0 => fs[j].interface = i)
      /\ (j = 0 => \A b \in 1 .. Len(fs) : fs[b].interface # i)
  BY <1>1, InterfacePlace
<1>3. CASE j = 0
  <2>1. r = fs BY <1>3 DEF CutInterface
  <2>2. \A x : ~HasEntry(fs, i, x) BY <1>2, <1>3 DEF HasEntry
  <2>. QED BY <2>1, <2>2
<1>4. CASE j # 0
  <2>1. j \in 1 .. Len(fs) /\ fs[j].interface = i BY <1>2, <1>4
  <2>2. fs[j] \in InterfaceItems /\ MethodsOK(fs[j].methods) BY <2>1 DEF InterfacesOK, InterfaceOK
  <2>3. /\ MethodsOK(ms)
        /\ \A x : HasMethod(ms, x) <=> HasMethod(fs[j].methods, x) /\ x.method # m
    BY <2>2, CutMethodIs
  <2>4. \A x : HasEntry(fs, i, x) <=> HasMethod(fs[j].methods, x) BY <2>1, EntryAt
  <2>5. CASE ms = <<>>
    <3>1. r = RemoveAt(fs, j) BY <1>4, <2>5 DEF CutInterface
    <3>. HIDE DEF r, j, ms
    <3>2. \A x : ~HasMethod(ms, x) BY <2>5, EmptySeq DEF HasMethod
    <3>3. /\ InterfacesOK(r)
          /\ \A k, x : HasEntry(r, k, x) <=> HasEntry(fs, k, x) /\ k # fs[j].interface
      BY <2>1, <3>1, InterfaceRemoved
    <3>. QED BY <2>1, <2>3, <2>4, <3>2, <3>3 DEF r
  <2>6. CASE ms # <<>>
    <3> DEFINE f == [fs[j] EXCEPT !.methods = ms]
    <3>1. r = [fs EXCEPT ![j] = f] BY <1>4, <2>6 DEF CutInterface
    <3>. HIDE DEF r, j, ms
    <3>2. f.interface = i /\ f.methods = ms BY <2>1, <2>2 DEF InterfaceItems
    <3>3. InterfaceOK(f) BY <2>2, <2>3, <2>6, <3>2 DEF InterfaceItems, InterfaceOK, MethodsOK
    <3>. HIDE DEF f
    <3>4. /\ InterfacesOK(r)
          /\ \A k, x : HasEntry(r, k, x)
               <=> IF k = f.interface THEN HasMethod(f.methods, x) ELSE HasEntry(fs, k, x)
      BY <2>1, <3>1, <3>2, <3>3, InterfaceSet
    <3>. QED BY <2>3, <2>4, <3>2, <3>4 DEF r
  <2>. QED BY <2>5, <2>6
<1>. QED BY <1>3, <1>4

(***************************************************************************)
(* The objects of the service, and the paths they are found by.            *)
(***************************************************************************)
HasRow(os, p, i, e) == \E b \in 1 .. Len(os) : os[b].path = p /\ HasEntry(os[b].interfaces, i, e)

ObjectOK(o) == o \in ObjectItems /\ InterfacesOK(o.interfaces) /\ o.interfaces # <<>>

ObjectsOK(os) ==
  /\ os \in Seq(ObjectItems)
  /\ \A b \in 1 .. Len(os) : ObjectOK(os[b])
  /\ \A b, c \in 1 .. Len(os) : os[b].path = os[c].path => b = c

LEMMA ObjectPlace ==
  ASSUME NEW os, Len(os) \in Nat, NEW p
  PROVE  /\ ObjectAt(os, p) \in 0 .. Len(os)
         /\ ObjectAt(os, p) # 0 => os[ObjectAt(os, p)].path = p
         /\ ObjectAt(os, p) = 0 => \A b \in 1 .. Len(os) : os[b].path # p
<1> DEFINE I == {b \in 1 .. Len(os) : os[b].path = p}
<1>1. ObjectAt(os, p) = IF I # {} THEN Min(I) ELSE 0 BY DEF ObjectAt, SelectInSeq
<1>2. I \in SUBSET Nat OBVIOUS
<1>3. I # {} => Min(I) \in I BY <1>2, LeastPlace
<1>. QED BY <1>1, <1>3

LEMMA ObjectAdded ==
  ASSUME NEW os, ObjectsOK(os), NEW o, ObjectOK(o),
         \A b \in 1 .. Len(os) : os[b].path # o.path
  PROVE  /\ ObjectsOK(Append(os, o))
         /\ \A k, n, x : HasRow(Append(os, o), k, n, x)
                        <=> HasRow(os, k, n, x) \/ (k = o.path /\ HasEntry(o.interfaces, n, x))
<1> DEFINE r == Append(os, o)
<1>1. os \in Seq(ObjectItems) /\ Len(os) \in Nat /\ o \in ObjectItems
  BY DEF ObjectsOK, ObjectOK
<1>2. /\ r \in Seq(ObjectItems) /\ Len(r) = Len(os) + 1 /\ r[Len(os) + 1] = o
      /\ \A b \in 1 .. Len(os) : r[b] = os[b]
  BY <1>1, AppendProperties
<1>. HIDE DEF r
<1>3. /\ Len(os) + 1 \in 1 .. Len(r)
      /\ \A b \in 1 .. Len(r) : b = Len(os) + 1 \/ b \in 1 .. Len(os)
      /\ \A b \in 1 .. Len(os) : b \in 1 .. Len(r)
  BY <1>1, <1>2
<1>4. ObjectsOK(r) BY <1>2, <1>3 DEF ObjectsOK
<1>5. ASSUME NEW k, NEW n, NEW x
      PROVE  HasRow(r, k, n, x)
               <=> HasRow(os, k, n, x) \/ (k = o.path /\ HasEntry(o.interfaces, n, x))
  BY <1>2, <1>3 DEF HasRow
<1>. QED BY <1>4, <1>5 DEF r

LEMMA ObjectSet ==
  ASSUME NEW os, ObjectsOK(os), NEW j \in 1 .. Len(os), NEW o, ObjectOK(o),
         o.path = os[j].path
  PROVE  /\ ObjectsOK([os EXCEPT ![j] = o])
         /\ \A k, n, x : HasRow([os EXCEPT ![j] = o], k, n, x)
                        <=> IF k = o.path THEN HasEntry(o.interfaces, n, x)
                                               ELSE HasRow(os, k, n, x)
<1> DEFINE r == [os EXCEPT ![j] = o]
<1>1. os \in Seq(ObjectItems) /\ Len(os) \in Nat /\ o \in ObjectItems
  BY DEF ObjectsOK, ObjectOK
<1>2. /\ r \in Seq(ObjectItems) /\ Len(r) = Len(os) /\ r[j] = o
      /\ \A b \in 1 .. Len(os) : b # j => r[b] = os[b]
  BY <1>1, ExceptSeq
<1>. HIDE DEF r
<1>3. \A b \in 1 .. Len(os) : /\ r[b].path = os[b].path
                              /\ os[b].path = o.path <=> b = j
  BY <1>2 DEF ObjectsOK
<1>4. ObjectsOK(r) BY <1>2, <1>3 DEF ObjectsOK
<1>5. ASSUME NEW k, NEW n, NEW x
      PROVE  HasRow(r, k, n, x)
               <=> IF k = o.path THEN HasEntry(o.interfaces, n, x) ELSE HasRow(os, k, n, x)
  BY <1>2, <1>3 DEF HasRow
<1>. QED BY <1>4, <1>5 DEF r

LEMMA ObjectRemoved ==
  ASSUME NEW os, ObjectsOK(os), NEW j \in 1 .. Len(os)
  PROVE  /\ ObjectsOK(RemoveAt(os, j))
         /\ \A k, n, x : HasRow(RemoveAt(os, j), k, n, x)
                        <=> HasRow(os, k, n, x) /\ k # os[j].path
<1> DEFINE r == RemoveAt(os, j)
<1>1. os \in Seq(ObjectItems) /\ Len(os) \in Nat BY DEF ObjectsOK
<1>2. /\ r \in Seq(ObjectItems)
      /\ \A k \in 1 .. Len(r) : \E b \in 1 .. Len(os) : b # j /\ r[k] = os[b] /\ k = Shifted(j, b)
      /\ \A b \in 1 .. Len(os) : b # j => Shifted(j, b) \in 1 .. Len(r) /\ r[Shifted(j, b)] = os[b]
  BY <1>1, RemovedPlaces
<1>. HIDE DEF r
<1>3. \A b \in 1 .. Len(os) : os[b].path = os[j].path <=> b = j BY DEF ObjectsOK
<1>4. ObjectsOK(r)
  <2>1. \A b \in 1 .. Len(os) : ObjectOK(os[b]) BY DEF ObjectsOK
  <2>2. \A b, c \in 1 .. Len(os) : os[b].path = os[c].path => b = c
    BY DEF ObjectsOK
  <2>3. \A k \in 1 .. Len(r) : ObjectOK(r[k]) BY <1>2, <2>1
  <2>4. ASSUME NEW k \in 1 .. Len(r), NEW h \in 1 .. Len(r), r[k].path = r[h].path
        PROVE  k = h
    <3>1. PICK b \in 1 .. Len(os) : r[k] = os[b] /\ k = Shifted(j, b) BY <1>2
    <3>2. PICK c \in 1 .. Len(os) : r[h] = os[c] /\ h = Shifted(j, c) BY <1>2
    <3>3. b = c BY <2>2, <2>4, <3>1, <3>2
    <3>. QED BY <3>1, <3>2, <3>3
  <2>. QED BY <1>2, <2>3, <2>4 DEF ObjectsOK
<1>5. ASSUME NEW k, NEW n, NEW x
      PROVE  HasRow(r, k, n, x) <=> HasRow(os, k, n, x) /\ k # os[j].path
  <2>1. ASSUME HasRow(r, k, n, x) PROVE HasRow(os, k, n, x) /\ k # os[j].path
    BY <1>2, <1>3, <2>1 DEF HasRow
  <2>2. ASSUME HasRow(os, k, n, x), k # os[j].path PROVE HasRow(r, k, n, x)
    BY <1>2, <1>3, <2>2 DEF HasRow
  <2>. QED BY <2>1, <2>2
<1>. QED BY <1>4, <1>5 DEF r

\* What is in an object, looked up by its path.
LEMMA RowAt ==
  ASSUME NEW os, ObjectsOK(os), NEW j \in 1 .. Len(os)
  PROVE  \A n, x : HasRow(os, os[j].path, n, x) <=> HasEntry(os[j].interfaces, n, x)
BY DEF ObjectsOK, HasRow

PathsOf(os) == [a \in DOMAIN os |-> os[a].path]

LEMMA PathsAre ==
  ASSUME NEW os \in Seq(ObjectItems)
  PROVE  /\ PathsOf(os) \in Seq(Paths) /\ Len(PathsOf(os)) = Len(os)
         /\ \A a \in 1 .. Len(os) : PathsOf(os)[a] = os[a].path
<1>1. DOMAIN os = 1 .. Len(os) /\ Len(os) \in Nat OBVIOUS
<1>2. \A a \in 1 .. Len(os) : os[a].path \in Paths
  <2>1. \A a \in 1 .. Len(os) : os[a] \in ObjectItems OBVIOUS
  <2>2. \A o \in ObjectItems : o.path \in Paths BY DEF ObjectItems
  <2>. QED BY <2>1, <2>2
<1>3. PathsOf(os) \in [1 .. Len(os) -> Paths] BY <1>1, <1>2 DEF PathsOf
<1>4. PathsOf(os) \in Seq(Paths) /\ Len(PathsOf(os)) = Len(os) BY <1>1, <1>3
<1>. QED BY <1>1, <1>4 DEF PathsOf

LEMMA PathAdded ==
  ASSUME NEW os \in Seq(ObjectItems), NEW o \in ObjectItems
  PROVE  PathsOf(Append(os, o)) = Append(PathsOf(os), o.path)
<1> DEFINE r == Append(os, o)
           l == Append(PathsOf(os), o.path)
<1>1. o.path \in Paths BY DEF ObjectItems
<1>2. /\ PathsOf(os) \in Seq(Paths) /\ Len(PathsOf(os)) = Len(os) /\ Len(os) \in Nat
      /\ \A a \in 1 .. Len(os) : PathsOf(os)[a] = os[a].path
  BY PathsAre
<1>3. /\ r \in Seq(ObjectItems) /\ Len(r) = Len(os) + 1 /\ r[Len(os) + 1] = o
      /\ \A a \in 1 .. Len(os) : r[a] = os[a]
  BY AppendProperties
<1>4. /\ l \in Seq(Paths) /\ Len(l) = Len(os) + 1 /\ l[Len(os) + 1] = o.path
      /\ \A a \in 1 .. Len(os) : l[a] = PathsOf(os)[a]
  BY <1>1, <1>2, AppendProperties
<1>. HIDE DEF r, l
<1>5. /\ PathsOf(r) \in Seq(Paths) /\ Len(PathsOf(r)) = Len(r)
      /\ \A a \in 1 .. Len(r) : PathsOf(r)[a] = r[a].path
  BY <1>3, PathsAre
<1>6. \A a \in 1 .. Len(r) : a = Len(os) + 1 \/ a \in 1 .. Len(os) BY <1>2, <1>3
<1>7. \A a \in 1 .. Len(r) : PathsOf(r)[a] = l[a] BY <1>2, <1>3, <1>4, <1>5, <1>6
<1>8. PathsOf(r) = l BY <1>3, <1>4, <1>5, <1>7, SeqEqual
<1>. QED BY <1>8 DEF r, l

LEMMA PathSet ==
  ASSUME NEW os \in Seq(ObjectItems), NEW j \in 1 .. Len(os), NEW o \in ObjectItems,
         o.path = os[j].path
  PROVE  PathsOf([os EXCEPT ![j] = o]) = PathsOf(os)
<1> DEFINE r == [os EXCEPT ![j] = o]
<1>1. /\ r \in Seq(ObjectItems) /\ Len(r) = Len(os) /\ r[j] = o
      /\ \A a \in 1 .. Len(os) : a # j => r[a] = os[a]
  BY ExceptSeq
<1>. HIDE DEF r
<1>2. /\ PathsOf(os) \in Seq(Paths) /\ Len(PathsOf(os)) = Len(os)
      /\ \A a \in 1 .. Len(os) : PathsOf(os)[a] = os[a].path
  BY PathsAre
<1>3. /\ PathsOf(r) \in Seq(Paths) /\ Len(PathsOf(r)) = Len(r)
      /\ \A a \in 1 .. Len(r) : PathsOf(r)[a] = r[a].path
  BY <1>1, PathsAre
<1>4. \A a \in 1 .. Len(os) : PathsOf(r)[a] = PathsOf(os)[a] BY <1>1, <1>2, <1>3
<1>5. PathsOf(r) = PathsOf(os) BY <1>1, <1>2, <1>3, <1>4, SeqEqual
<1>. QED BY <1>5 DEF r

LEMMA PathRemoved ==
  ASSUME NEW os \in Seq(ObjectItems), NEW j \in 1 .. Len(os)
  PROVE  PathsOf(RemoveAt(os, j)) = RemoveAt(PathsOf(os), j)
<1> DEFINE r == RemoveAt(os, j)
           l == RemoveAt(PathsOf(os), j)
<1>1. /\ PathsOf(os) \in Seq(Paths) /\ Len(PathsOf(os)) = Len(os) /\ Len(os) \in Nat
      /\ \A a \in 1 .. Len(os) : PathsOf(os)[a] = os[a].path
  BY PathsAre
<1>2. /\ r \in Seq(ObjectItems) /\ Len(r) = Len(os) - 1
      /\ \A k \in 1 .. Len(os) - 1 : r[k] = IF k < j THEN os[k] ELSE os[k + 1]
  BY RemovedAt
<1>3. /\ l \in Seq(Paths) /\ Len(l) = Len(os) - 1
      /\ \A k \in 1 .. Len(os) - 1 :
           l[k] = IF k < j THEN PathsOf(os)[k] ELSE PathsOf(os)[k + 1]
  BY <1>1, RemovedAt
<1>. HIDE DEF r, l
<1>4. /\ PathsOf(r) \in Seq(Paths) /\ Len(PathsOf(r)) = Len(r)
      /\ \A a \in 1 .. Len(r) : PathsOf(r)[a] = r[a].path
  BY <1>2, PathsAre
<1>5. \A k \in 1 .. Len(os) - 1 : k \in 1 .. Len(os) /\ k + 1 \in 1 .. Len(os)
  BY <1>1
<1>6. \A k \in 1 .. Len(os) - 1 : PathsOf(r)[k] = l[k] BY <1>1, <1>2, <1>3, <1>4, <1>5
<1>7. PathsOf(r) = l BY <1>2, <1>3, <1>4, <1>6, SeqEqual
<1>. QED BY <1>7 DEF r, l

\* A path is known by its rows: no object is empty.
LEMMA PathKnown ==
  ASSUME NEW os, ObjectsOK(os), NEW p
  PROVE  ObjectAt(os, p) # 0 <=> \E n, x : HasRow(os, p, n, x)
<1>1. os \in Seq(ObjectItems) /\ Len(os) \in Nat BY DEF ObjectsOK
<1>2. /\ ObjectAt(os, p) \in 0 .. Len(os)
      /\ ObjectAt(os, p) # 0 => os[ObjectAt(os, p)].path = p
      /\ ObjectAt(os, p) = 0 => \A b \in 1 .. Len(os) : os[b].path # p
  BY <1>1, ObjectPlace
<1>3. ASSUME ObjectAt(os, p) # 0 PROVE \E n, x : HasRow(os, p, n, x)
  <2> DEFINE fs == os[ObjectAt(os, p)].interfaces
             ms == fs[1].methods
  <2>1. ObjectAt(os, p) \in 1 .. Len(os) BY <1>1, <1>2, <1>3
  <2>2. InterfacesOK(fs) /\ fs # <<>> BY <2>1 DEF ObjectsOK, ObjectOK
  <2>3. fs \in Seq(InterfaceItems) /\ 1 \in 1 .. Len(fs) BY <2>2, EmptySeq DEF InterfacesOK
  <2>. HIDE DEF fs
  <2>4. MethodsOK(ms) /\ ms # <<>> BY <2>2, <2>3 DEF InterfacesOK, InterfaceOK
  <2>. HIDE DEF ms
  <2>5. ms \in Seq(MethodEntries) /\ 1 \in 1 .. Len(ms) BY <2>4, EmptySeq DEF MethodsOK
  <2>6. HasMethod(ms, ms[1]) BY <2>5 DEF HasMethod
  <2>7. HasEntry(fs, fs[1].interface, ms[1]) BY <2>3, <2>6 DEF HasEntry, ms
  <2>8. HasRow(os, p, fs[1].interface, ms[1]) BY <1>2, <1>3, <2>1, <2>7 DEF HasRow, fs
  <2>. QED BY <2>8
<1>. QED BY <1>2, <1>3 DEF HasRow

LEMMA PutObjectIs ==
  ASSUME NEW os, ObjectsOK(os), NEW p \in Paths, NEW i \in Interfaces, NEW e \in MethodEntries
  PROVE  /\ ObjectsOK(PutObject(os, p, i, e))
         /\ \A k, n, x : HasRow(PutObject(os, p, i, e), k, n, x)
              <=> \/ k = p /\ n = i /\ x = e
                  \/ HasRow(os, k, n, x) /\ ~(k = p /\ n = i /\ x.method = e.method)
         /\ PathsOf(PutObject(os, p, i, e)) =
              IF ObjectAt(os, p) = 0 THEN Append(PathsOf(os), p) ELSE PathsOf(os)
<1> DEFINE j == ObjectAt(os, p)
           r == PutObject(os, p, i, e)
<1>1. os \in Seq(ObjectItems) /\ Len(os) \in Nat BY DEF ObjectsOK
<1>2. /\ j \in 0 .. Len(os) /\ (j # 0 => os[j].path = p)
      /\ (j = 0 => \A b \in 1 .. Len(os) : os[b].path # p)
  BY <1>1, ObjectPlace
<1>3. CASE j = 0
  <2> DEFINE o == [path |-> p, interfaces |-> PutInterface(<<>>, i, e)]
  <2>1. InterfacesOK(<<>>) /\ \A n, x : ~HasEntry(<<>>, n, x)
    BY EmptySeq DEF InterfacesOK, HasEntry
  <2>2. /\ InterfacesOK(o.interfaces) /\ o.interfaces # <<>> /\ o.path = p
        /\ \A n, x : HasEntry(o.interfaces, n, x) <=> n = i /\ x = e
    BY <2>1, PutInterfaceIs
  <2>3. o \in ObjectItems BY <2>2 DEF ObjectItems, InterfacesOK
  <2>4. r = Append(os, o) BY <1>3 DEF PutObject
  <2>5. ObjectOK(o) BY <2>2, <2>3 DEF ObjectOK
  <2>. HIDE DEF o, r, j
  <2>6. \A b \in 1 .. Len(os) : os[b].path # o.path BY <1>2, <1>3, <2>2
  <2>7. /\ ObjectsOK(r)
        /\ \A k, n, x : HasRow(r, k, n, x)
             <=> HasRow(os, k, n, x) \/ (k = o.path /\ HasEntry(o.interfaces, n, x))
    BY <2>4, <2>5, <2>6, ObjectAdded
  <2>8. \A n, x : ~HasRow(os, p, n, x) BY <1>2, <1>3 DEF HasRow
  <2>9. PathsOf(r) = Append(PathsOf(os), p) BY <1>1, <2>2, <2>3, <2>4, PathAdded
  <2>10. \A k, n, x : HasRow(r, k, n, x)
           <=> \/ k = p /\ n = i /\ x = e
               \/ HasRow(os, k, n, x) /\ ~(k = p /\ n = i /\ x.method = e.method)
    BY <2>2, <2>7, <2>8
  <2>. QED BY <1>3, <2>7, <2>9, <2>10 DEF r, j
<1>4. CASE j # 0
  <2> DEFINE o == [os[j] EXCEPT !.interfaces = PutInterface(@, i, e)]
  <2>1. j \in 1 .. Len(os) BY <1>2, <1>4
  <2>2. os[j] \in ObjectItems /\ InterfacesOK(os[j].interfaces) BY <2>1 DEF ObjectsOK, ObjectOK
  <2>3. o.path = p /\ o.interfaces = PutInterface(os[j].interfaces, i, e)
    BY <1>2, <1>4, <2>2 DEF ObjectItems
  <2>4. /\ InterfacesOK(o.interfaces) /\ o.interfaces # <<>>
        /\ \A n, x : HasEntry(o.interfaces, n, x)
             <=> \/ n = i /\ x = e
                 \/ HasEntry(os[j].interfaces, n, x) /\ ~(n = i /\ x.method = e.method)
    BY <2>2, <2>3, PutInterfaceIs
  <2>5. ObjectOK(o) BY <2>2, <2>4 DEF ObjectItems, ObjectOK, InterfacesOK
  <2>6. r = [os EXCEPT ![j] = o] BY <1>4 DEF PutObject
  <2>11. o.path = os[j].path BY <1>2, <1>4, <2>3
  <2>. HIDE DEF o, r, j
  <2>7. /\ ObjectsOK(r)
        /\ \A k, n, x : HasRow(r, k, n, x)
             <=> IF k = o.path THEN HasEntry(o.interfaces, n, x) ELSE HasRow(os, k, n, x)
    BY <2>1, <2>5, <2>6, <2>11, ObjectSet
  <2>8. \A n, x : HasRow(os, p, n, x) <=> HasEntry(os[j].interfaces, n, x)
    BY <1>2, <1>4, <2>1, RowAt
  <2>9. PathsOf(r) = PathsOf(os) BY <1>1, <2>1, <2>5, <2>6, <2>11, PathSet DEF ObjectOK
  <2>10. \A k, n, x : HasRow(r, k, n, x)
           <=> \/ k = p /\ n = i /\ x = e
               \/ HasRow(os, k, n, x) /\ ~(k = p /\ n = i /\ x.method = e.method)
    BY <2>3, <2>4, <2>7, <2>8
  <2>. QED BY <1>4, <2>7, <2>9, <2>10 DEF r, j
<1>. QED BY <1>3, <1>4

LEMMA CutObjectIs ==
  ASSUME NEW os, ObjectsOK(os), NEW p, NEW i, NEW m
  PROVE  /\ ObjectsOK(CutObject(os, p, i, m))
         /\ \A k, n, x : HasRow(CutObject(os, p, i, m), k, n, x)
              <=> HasRow(os, k, n, x) /\ ~(k = p /\ n = i /\ x.method = m)
         /\ PathsOf(CutObject(os, p, i, m)) =
              IF ObjectAt(os, p) # 0 /\ ObjectAt(CutObject(os, p, i, m), p) = 0
                THEN RemoveAt(PathsOf(os), ObjectAt(os, p)) ELSE PathsOf(os)
<1> DEFINE j == ObjectAt(os, p)
           fs == CutInterface(os[j].interfaces, i, m)
           r == CutObject(os, p, i, m)
<1>1. os \in Seq(ObjectItems) /\ Len(os) \in Nat BY DEF ObjectsOK
<1>2. /\ j \in 0 .. Len(os) /\ (j # 0 => os[j].path = p)
      /\ (j = 0 => \A b \in 1 .. Len(os) : os[b].path # p)
  BY <1>1, ObjectPlace
<1>3. CASE j = 0
  <2>1. r = os BY <1>3 DEF CutObject
  <2>2. \A n, x : ~HasRow(os, p, n, x) BY <1>2, <1>3 DEF HasRow
  <2>. HIDE DEF r, j
  <2>. QED BY <1>3, <2>1, <2>2 DEF r, j
<1>4. CASE j # 0
  <2>1. j \in 1 .. Len(os) /\ os[j].path = p BY <1>2, <1>4
  <2>2. os[j] \in ObjectItems /\ InterfacesOK(os[j].interfaces) BY <2>1 DEF ObjectsOK, ObjectOK
  <2>3. /\ InterfacesOK(fs)
        /\ \A n, x : HasEntry(fs, n, x)
             <=> HasEntry(os[j].interfaces, n, x) /\ ~(n = i /\ x.method = m)
    BY <2>2, CutInterfaceIs
  <2>4. \A n, x : HasRow(os, p, n, x) <=> HasEntry(os[j].interfaces, n, x) BY <2>1, RowAt
  <2>5. CASE fs = <<>>
    <3>1. r = RemoveAt(os, j) BY <1>4, <2>5 DEF CutObject
    <3>. HIDE DEF r, j, fs
    <3>2. \A n, x : ~HasEntry(fs, n, x) BY <2>5, EmptySeq DEF HasEntry
    <3>3. /\ ObjectsOK(r)
          /\ \A k, n, x : HasRow(r, k, n, x) <=> HasRow(os, k, n, x) /\ k # os[j].path
      BY <2>1, <3>1, ObjectRemoved
    <3>4. PathsOf(r) = RemoveAt(PathsOf(os), j) BY <1>1, <2>1, <3>1, PathRemoved
    <3>5. ObjectAt(r, p) = 0 BY <2>1, <3>3, PathKnown
    <3>6. \A k, n, x : HasRow(r, k, n, x)
            <=> HasRow(os, k, n, x) /\ ~(k = p /\ n = i /\ x.method = m)
      BY <2>1, <2>3, <2>4, <3>2, <3>3
    <3>. QED BY <1>4, <3>3, <3>4, <3>5, <3>6 DEF r, j
  <2>6. CASE fs # <<>>
    <3> DEFINE o == [os[j] EXCEPT !.interfaces = fs]
    <3>1. r = [os EXCEPT ![j] = o] BY <1>4, <2>6 DEF CutObject
    <3>. HIDE DEF r, j, fs
    <3>2. o.path = p /\ o.interfaces = fs BY <2>1, <2>2 DEF ObjectItems
    <3>3. ObjectOK(o) BY <2>2, <2>3, <2>6, <3>2 DEF ObjectItems, ObjectOK, InterfacesOK
    <3>. HIDE DEF o
    <3>4. /\ ObjectsOK(r)
          /\ \A k, n, x : HasRow(r, k, n, x)
               <=> IF k = o.path THEN HasEntry(o.interfaces, n, x) ELSE HasRow(os, k, n, x)
      BY <2>1, <3>1, <3>2, <3>3, ObjectSet
    <3>5. PathsOf(r) = PathsOf(os) BY <1>1, <2>1, <3>1, <3>2, <3>3, PathSet DEF ObjectOK
    <3>6. \A k, n, x : HasRow(r, k, n, x)
            <=> HasRow(os, k, n, x) /\ ~(k = p /\ n = i /\ x.method = m)
      BY <2>1, <2>3, <2>4, <3>2, <3>4
    <3>7. r \in Seq(ObjectItems) /\ Len(r) = Len(os) /\ r[j] = o
      BY <1>1, <2>1, <3>1, <3>3, ExceptSeq DEF ObjectOK
    <3>8. ObjectAt(r, p) # 0
      <4>1. Len(r) \in Nat BY <1>1, <3>7
      <4>2. ObjectAt(r, p) = 0 => \A b \in 1 .. Len(r) : r[b].path # p BY <4>1, ObjectPlace
      <4>. QED BY <2>1, <3>2, <3>7, <4>2
    <3>. QED BY <1>4, <3>4, <3>5, <3>6, <3>8 DEF r, j
  <2>. QED BY <2>5, <2>6
<1>. QED BY <1>3, <1>4

(***************************************************************************)
(* The inductive invariant, and the table it makes of the arrays.          *)
(***************************************************************************)
Verdicts ==
  {"done", "NotYetHandled", "UnknownSender", "NoObject", "NoInterface",
   "NoMethod", "UnimplementedMethod", "UnknownUser", "InvalidCall"}

RegistryInvariant ==
  /\ ObjectsOK(objects)
  /\ last # <<>> => last[3] \in Handlers \cup Verdicts

LEMMA RowTypes ==
  ASSUME NEW os, ObjectsOK(os), NEW p, NEW i, NEW e, HasRow(os, p, i, e)
  PROVE  p \in Paths /\ i \in Interfaces /\ e \in MethodEntries
<1>1. PICK a \in 1 .. Len(os) : os[a].path = p /\ HasEntry(os[a].interfaces, i, e) BY DEF HasRow
<1>2. os[a] \in ObjectItems /\ InterfacesOK(os[a].interfaces) BY DEF ObjectsOK, ObjectOK
<1>3. PICK b \in 1 .. Len(os[a].interfaces) :
        os[a].interfaces[b].interface = i /\ HasMethod(os[a].interfaces[b].methods, e)
  BY <1>1 DEF HasEntry
<1>4. os[a].interfaces[b] \in InterfaceItems /\ MethodsOK(os[a].interfaces[b].methods)
  BY <1>2 DEF InterfacesOK, InterfaceOK
<1>5. e \in MethodEntries
  <2> DEFINE ms == os[a].interfaces[b].methods
  <2>1. ms \in Seq(MethodEntries) BY <1>4 DEF MethodsOK
  <2>2. HasMethod(ms, e) BY <1>3
  <2>. HIDE DEF ms
  <2>. QED BY <2>1, <2>2 DEF HasMethod
<1>. QED BY <1>1, <1>2, <1>3, <1>4, <1>5 DEF ObjectItems, InterfaceItems

LEMMA EntriesAre ==
  ASSUME ObjectsOK(objects), NEW y
  PROVE  y \in Entries <=> \E p, i, e : HasRow(objects, p, i, e) /\ y = <<p, i, e>>
<1>1. DOMAIN objects = 1 .. Len(objects) BY DEF ObjectsOK
<1>2. ASSUME NEW a \in 1 .. Len(objects)
      PROVE  /\ DOMAIN objects[a].interfaces = 1 .. Len(objects[a].interfaces)
             /\ \A b \in 1 .. Len(objects[a].interfaces) :
                  DOMAIN objects[a].interfaces[b].methods
                    = 1 .. Len(objects[a].interfaces[b].methods)
  <2> DEFINE fs == objects[a].interfaces
  <2>1. InterfacesOK(fs) BY DEF ObjectsOK, ObjectOK
  <2>. HIDE DEF fs
  <2>2. DOMAIN fs = 1 .. Len(fs) BY <2>1 DEF InterfacesOK
  <2>3. \A b \in 1 .. Len(fs) : MethodsOK(fs[b].methods) BY <2>1 DEF InterfacesOK, InterfaceOK
  <2>4. \A b \in 1 .. Len(fs) : DOMAIN fs[b].methods = 1 .. Len(fs[b].methods)
    BY <2>3 DEF MethodsOK
  <2>. QED BY <2>2, <2>4 DEF fs
<1>3. y \in Entries <=>
        \E a \in DOMAIN objects : \E b \in DOMAIN objects[a].interfaces :
          \E e \in ToSet(objects[a].interfaces[b].methods) :
            y = <<objects[a].path, objects[a].interfaces[b].interface, e>>
  BY DEF Entries
<1>4. \A ms, e : e \in ToSet(ms) <=> \E d \in DOMAIN ms : ms[d] = e BY DEF ToSet
<1>5. ASSUME y \in Entries
      PROVE  \E p, i, e : HasRow(objects, p, i, e) /\ y = <<p, i, e>>
  <2>1. PICK a \in DOMAIN objects : \E b \in DOMAIN objects[a].interfaces :
          \E e \in ToSet(objects[a].interfaces[b].methods) :
            y = <<objects[a].path, objects[a].interfaces[b].interface, e>>
    BY <1>3, <1>5
  <2>2. PICK b \in DOMAIN objects[a].interfaces :
          \E e \in ToSet(objects[a].interfaces[b].methods) :
            y = <<objects[a].path, objects[a].interfaces[b].interface, e>>
    BY <2>1
  <2>3. PICK e \in ToSet(objects[a].interfaces[b].methods) :
          y = <<objects[a].path, objects[a].interfaces[b].interface, e>>
    BY <2>2
  <2>4. PICK d \in DOMAIN objects[a].interfaces[b].methods :
          objects[a].interfaces[b].methods[d] = e
    BY <1>4, <2>3
  <2>5. HasMethod(objects[a].interfaces[b].methods, e) BY <1>1, <1>2, <2>4 DEF HasMethod
  <2>6. HasEntry(objects[a].interfaces, objects[a].interfaces[b].interface, e)
    BY <1>1, <1>2, <2>5 DEF HasEntry
  <2>7. HasRow(objects, objects[a].path, objects[a].interfaces[b].interface, e)
    BY <1>1, <2>6 DEF HasRow
  <2>. QED BY <2>3, <2>7
<1>6. ASSUME NEW p, NEW i, NEW e, HasRow(objects, p, i, e), y = <<p, i, e>>
      PROVE  y \in Entries
  <2>1. PICK a \in 1 .. Len(objects) :
          objects[a].path = p /\ HasEntry(objects[a].interfaces, i, e)
    BY <1>6 DEF HasRow
  <2>2. PICK b \in 1 .. Len(objects[a].interfaces) :
          /\ objects[a].interfaces[b].interface = i
          /\ HasMethod(objects[a].interfaces[b].methods, e)
    BY <2>1 DEF HasEntry
  <2>3. PICK d \in 1 .. Len(objects[a].interfaces[b].methods) :
          objects[a].interfaces[b].methods[d] = e
    BY <2>2 DEF HasMethod
  <2>4. e \in ToSet(objects[a].interfaces[b].methods) BY <1>2, <1>4, <2>3
  <2>. QED BY <1>1, <1>2, <1>3, <1>6, <2>1, <2>2, <2>4
<1>. QED BY <1>5, <1>6

LEMMA RowsAre ==
  ASSUME ObjectsOK(objects), NEW r
  PROVE  r \in Rows <=> \E p, i, e : HasRow(objects, p, i, e) /\ r = RowOf(p, i, e)
<1>1. \A y : y \in Entries <=> \E p, i, e : HasRow(objects, p, i, e) /\ y = <<p, i, e>>
  BY EntriesAre
<1>2. r \in Rows <=> \E y \in Entries : r = RowOf(y[1], y[2], y[3]) BY DEF Rows
<1>3. ASSUME NEW p, NEW i, NEW e PROVE <<p, i, e>>[1] = p /\ <<p, i, e>>[2] = i /\ <<p, i, e>>[3] = e
  OBVIOUS
<1>4. ASSUME r \in Rows PROVE \E p, i, e : HasRow(objects, p, i, e) /\ r = RowOf(p, i, e)
  <2>1. PICK y \in Entries : r = RowOf(y[1], y[2], y[3]) BY <1>2, <1>4
  <2>2. PICK p, i, e : HasRow(objects, p, i, e) /\ y = <<p, i, e>> BY <1>1
  <2>. QED BY <1>3, <2>1, <2>2
<1>5. ASSUME NEW p, NEW i, NEW e, HasRow(objects, p, i, e), r = RowOf(p, i, e) PROVE r \in Rows
  <2>1. <<p, i, e>> \in Entries BY <1>1, <1>5
  <2>. QED BY <1>2, <1>3, <1>5, <2>1
<1>. QED BY <1>4, <1>5

LEMMA RowFields ==
  ASSUME NEW p, NEW i, NEW e
  PROVE  /\ RowOf(p, i, e).path = p /\ RowOf(p, i, e).interface = i
         /\ RowOf(p, i, e).method = e.method /\ RowOf(p, i, e).arity = e.n_arguments
         /\ RowOf(p, i, e).handler = e.handler
BY DEF RowOf

LEMMA RowOnce ==
  ASSUME NEW p, NEW i, NEW e \in MethodEntries, NEW q, NEW k, NEW x \in MethodEntries,
         RowOf(p, i, e) = RowOf(q, k, x)
  PROVE  p = q /\ i = k /\ e = x
<1>1. p = q /\ i = k /\ e.method = x.method /\ e.n_arguments = x.n_arguments
      /\ e.handler = x.handler
  BY RowFields
<1>. QED BY <1>1 DEF MethodEntries

(***************************************************************************)
(* Adding and removing.                                                    *)
(***************************************************************************)
ArraysAreRows ==
  \A r : r \in Rows <=> \E p, i, e : HasRow(objects, p, i, e) /\ r = RowOf(p, i, e)

LEMMA NextRowsAre == ObjectsOK(objects)' => ArraysAreRows'
<1>1. ObjectsOK(objects) => ArraysAreRows BY RowsAre DEF ArraysAreRows
<1>. QED BY <1>1, PTL

\* A path has a row just when the arrays have an object of that path.
LEMMA PathHasRow ==
  ASSUME ObjectsOK(objects), NEW p
  PROVE  (\E r \in Rows : r.path = p) <=> ObjectAt(objects, p) # 0
<1>1. ASSUME NEW r \in Rows, r.path = p PROVE ObjectAt(objects, p) # 0
  <2>1. PICK q, i, e : HasRow(objects, q, i, e) /\ r = RowOf(q, i, e) BY RowsAre
  <2>2. q = p BY <1>1, <2>1, RowFields
  <2>. QED BY <2>1, <2>2, PathKnown
<1>2. ASSUME ObjectAt(objects, p) # 0 PROVE \E r \in Rows : r.path = p
  <2>1. PICK i, e : HasRow(objects, p, i, e) BY <1>2, PathKnown
  <2>2. RowOf(p, i, e) \in Rows BY <2>1, RowsAre
  <2>. QED BY <2>2, RowFields
<1>. QED BY <1>1, <1>2

PathsHaveRows == \A p : (\E r \in Rows : r.path = p) <=> ObjectAt(objects, p) # 0

LEMMA NextPathHasRow == ObjectsOK(objects)' => PathsHaveRows'
<1>1. ObjectsOK(objects) => PathsHaveRows BY PathHasRow DEF PathsHaveRows
<1>. QED BY <1>1, PTL

LEMMA AddStep ==
  ASSUME ObjectsOK(objects),
         NEW p \in Paths, NEW i \in Interfaces, NEW m \in Methods, NEW n \in Arities,
         NEW h \in Handlers \cup {None}, AddMethod(p, i, m, n, h)
  PROVE  ObjectsOK(objects') /\ Table!Register(p, i, m, n, h)
<1> DEFINE e == [method |-> m, n_arguments |-> n, handler |-> h]
<1>1. /\ e \in MethodEntries /\ e.method = m
      /\ RowOf(p, i, e) = Table!Row(p, i, m, n, h)
  BY DEF MethodEntries, RowOf, Table!Row
<1>2. objects' = PutObject(objects, p, i, e) BY DEF AddMethod
<1>3. last' = <<"add", Table!Row(p, i, m, n, h), "done">> BY DEF AddMethod, Table!Row
<1>. HIDE DEF e
<1>4. /\ ObjectsOK(objects')
      /\ \A k, f, x : HasRow(objects', k, f, x)
           <=> \/ k = p /\ f = i /\ x = e
               \/ HasRow(objects, k, f, x) /\ ~(k = p /\ f = i /\ x.method = e.method)
      /\ PathsOf(objects') =
           IF ObjectAt(objects, p) = 0 THEN Append(PathsOf(objects), p) ELSE PathsOf(objects)
  BY <1>1, <1>2, PutObjectIs
<1>5. Rows' = {r \in Rows : ~Table!IsFor(r, p, i, m)} \cup {Table!Row(p, i, m, n, h)}
  <2>1. ASSUME NEW r \in Rows'
        PROVE  r \in {s \in Rows : ~Table!IsFor(s, p, i, m)} \cup {Table!Row(p, i, m, n, h)}
    <3>1. PICK k, f, x : HasRow(objects', k, f, x) /\ r = RowOf(k, f, x)
      BY <1>4, NextRowsAre DEF ArraysAreRows
    <3>2. CASE k = p /\ f = i /\ x = e BY <1>1, <3>1, <3>2
    <3>3. CASE HasRow(objects, k, f, x) /\ ~(k = p /\ f = i /\ x.method = e.method)
      <4>1. r \in Rows BY <3>1, <3>3, RowsAre
      <4>2. ~Table!IsFor(r, p, i, m) BY <1>1, <3>1, <3>3, RowFields DEF Table!IsFor
      <4>. QED BY <4>1, <4>2
    <3>. QED BY <1>4, <3>1, <3>2, <3>3
  <2>2. ASSUME NEW r \in Rows, ~Table!IsFor(r, p, i, m) PROVE r \in Rows'
    <3>1. PICK k, f, x : HasRow(objects, k, f, x) /\ r = RowOf(k, f, x) BY RowsAre
    <3>2. ~(k = p /\ f = i /\ x.method = e.method)
      BY <1>1, <2>2, <3>1, RowFields DEF Table!IsFor
    <3>3. HasRow(objects', k, f, x) BY <1>4, <3>1, <3>2
    <3>. QED BY <1>4, <3>1, <3>3, NextRowsAre DEF ArraysAreRows
  <2>3. Table!Row(p, i, m, n, h) \in Rows'
    <3>1. HasRow(objects', p, i, e) BY <1>4
    <3>. QED BY <1>1, <1>4, <3>1, NextRowsAre DEF ArraysAreRows
  <2>. QED BY <2>1, <2>2, <2>3
<1>6. Order' = IF \E r \in Rows : r.path = p THEN Order ELSE Append(Order, p)
  <2>1. (\E r \in Rows : r.path = p) <=> ObjectAt(objects, p) # 0 BY PathHasRow
  <2>2. Order = PathsOf(objects) /\ Order' = PathsOf(objects') BY DEF Order, PathsOf
  <2>. QED BY <1>4, <2>1, <2>2
<1>. QED BY <1>3, <1>4, <1>5, <1>6 DEF Table!Register

LEMMA RemoveStep ==
  ASSUME ObjectsOK(objects), NEW p, NEW i, NEW m, RemoveMethod(p, i, m)
  PROVE  ObjectsOK(objects') /\ Table!Unregister(p, i, m)
<1>1. objects' = CutObject(objects, p, i, m) /\ last' = <<"remove", <<p, i, m>>, "done">>
  BY DEF RemoveMethod
<1>2. /\ ObjectsOK(objects')
      /\ \A k, f, x : HasRow(objects', k, f, x)
           <=> HasRow(objects, k, f, x) /\ ~(k = p /\ f = i /\ x.method = m)
      /\ PathsOf(objects') =
           IF ObjectAt(objects, p) # 0 /\ ObjectAt(objects', p) = 0
             THEN RemoveAt(PathsOf(objects), ObjectAt(objects, p)) ELSE PathsOf(objects)
  BY <1>1, CutObjectIs
<1>3. Rows' = {r \in Rows : ~Table!IsFor(r, p, i, m)}
  <2>1. ASSUME NEW r \in Rows' PROVE r \in Rows /\ ~Table!IsFor(r, p, i, m)
    <3>1. PICK k, f, x : HasRow(objects', k, f, x) /\ r = RowOf(k, f, x)
      BY <1>2, NextRowsAre DEF ArraysAreRows
    <3>2. HasRow(objects, k, f, x) /\ ~(k = p /\ f = i /\ x.method = m) BY <1>2, <3>1
    <3>. QED BY <3>1, <3>2, RowsAre, RowFields DEF Table!IsFor
  <2>2. ASSUME NEW r \in Rows, ~Table!IsFor(r, p, i, m) PROVE r \in Rows'
    <3>1. PICK k, f, x : HasRow(objects, k, f, x) /\ r = RowOf(k, f, x) BY RowsAre
    <3>2. ~(k = p /\ f = i /\ x.method = m) BY <2>2, <3>1, RowFields DEF Table!IsFor
    <3>3. HasRow(objects', k, f, x) BY <1>2, <3>1, <3>2
    <3>. QED BY <1>2, <3>1, <3>3, NextRowsAre DEF ArraysAreRows
  <2>. QED BY <2>1, <2>2
<1>4. Order' = IF \E r \in Rows' : r.path = p THEN Order ELSE Table!RemoveFirst(Order, p)
  <2> DEFINE I == {a \in 1 .. Len(objects) : objects[a].path = p}
             J == {a \in 1 .. Len(Order) : Order[a] = p}
  <2>1. (\E r \in Rows' : r.path = p) <=> ObjectAt(objects', p) # 0
    BY <1>2, NextPathHasRow DEF PathsHaveRows
  <2>2. Order = PathsOf(objects) /\ Order' = PathsOf(objects') BY DEF Order, PathsOf
  <2>3. /\ Len(Order) = Len(objects)
        /\ \A a \in 1 .. Len(objects) : Order[a] = objects[a].path
    BY <2>2, PathsAre DEF ObjectsOK
  <2>4. I = J BY <2>3
  <2>5. ObjectAt(objects, p) = IF I # {} THEN Min(I) ELSE 0 BY DEF ObjectAt, SelectInSeq
  <2>7. I \in SUBSET Nat OBVIOUS
  <2>6. I # {} => Min(I) \in I BY <2>7, LeastPlace
  <2>8. (\E a \in 1 .. Len(Order) : Order[a] = p) <=> J # {} OBVIOUS
  <2>9. Table!RemoveFirst(Order, p) =
          IF ObjectAt(objects, p) # 0 THEN RemoveAt(Order, ObjectAt(objects, p)) ELSE Order
    <3>1. Table!RemoveFirst(Order, p) = IF J # {} THEN RemoveAt(Order, Min(J)) ELSE Order
      <4>1. \A s, k : Table!RemoveAt(s, k) = RemoveAt(s, k) BY DEF Table!RemoveAt, RemoveAt
      <4>2. \A K : Table!Min(K) = Min(K) BY DEF Table!Min, Min
      <4>. QED BY <2>8, <4>1, <4>2 DEF Table!RemoveFirst, Table!SelectInSeq
    <3>2. I # {} => Min(I) # 0 BY <2>6
    <3>. QED BY <2>4, <2>5, <3>1, <3>2
  <2>10. ObjectAt(objects, p) = 0 => ObjectAt(objects', p) = 0
    BY <1>2, PathKnown
  <2>. QED BY <1>2, <2>1, <2>2, <2>9, <2>10
<1>. QED BY <1>1, <1>2, <1>3, <1>4 DEF Table!Unregister

(***************************************************************************)
(* The walk of a message.                                                  *)
(***************************************************************************)
Offers(fs, b, m) == \E d \in 1 .. Len(fs[b].methods) : fs[b].methods[d].method = m

LEMMA GuessIs ==
  ASSUME NEW fs, InterfacesOK(fs), NEW m
  PROVE  /\ GuessInterface(fs, m) \in 0 .. Len(fs)
         /\ GuessInterface(fs, m) # 0 =>
              /\ Offers(fs, GuessInterface(fs, m), m)
              /\ \A b \in 1 .. Len(fs) : Offers(fs, b, m) => b = GuessInterface(fs, m)
         /\ \A b \in 1 .. Len(fs) :
              /\ Offers(fs, b, m)
              /\ \A a \in 1 .. Len(fs) : Offers(fs, a, m) => a = b
              => GuessInterface(fs, m) # 0
<1> DEFINE named(a) == {d \in DOMAIN fs[a].methods : fs[a].methods[d].method = m}
           places == {{a} \X named(a) : a \in DOMAIN fs}
           found == UNION places
           g == GuessInterface(fs, m)
<1>1. DOMAIN fs = 1 .. Len(fs) /\ Len(fs) \in Nat BY DEF InterfacesOK
<1>2. ASSUME NEW a \in 1 .. Len(fs)
      PROVE  /\ DOMAIN fs[a].methods = 1 .. Len(fs[a].methods) /\ Len(fs[a].methods) \in Nat
             /\ \A d, e \in 1 .. Len(fs[a].methods) :
                  fs[a].methods[d].method = fs[a].methods[e].method => d = e
  <2> DEFINE ms == fs[a].methods
  <2>1. MethodsOK(ms) BY DEF InterfacesOK, InterfaceOK
  <2>. HIDE DEF ms
  <2>2. /\ DOMAIN ms = 1 .. Len(ms) /\ Len(ms) \in Nat
        /\ \A d, e \in 1 .. Len(ms) : ms[d].method = ms[e].method => d = e
    BY <2>1 DEF MethodsOK
  <2>. QED BY <2>2 DEF ms
<1>3. \A a, d : <<a, d>> \in found <=> a \in DOMAIN fs /\ d \in named(a)
  <2>. HIDE DEF named
  <2>. QED OBVIOUS
<1>4. \A x \in found : \E a \in DOMAIN fs : \E d \in named(a) : x = <<a, d>>
  <2>. HIDE DEF named
  <2>. QED OBVIOUS
<1>5. \A a \in DOMAIN fs : Offers(fs, a, m) <=> named(a) # {} BY <1>1, <1>2 DEF Offers
<1>6. IsFiniteSet(found)
  <2>1. \A a \in DOMAIN fs : IsFiniteSet(named(a))
    <3>. SUFFICES ASSUME NEW a \in DOMAIN fs PROVE IsFiniteSet(named(a)) OBVIOUS
    <3>3. Len(fs[a].methods) \in Nat BY <1>1, <1>2
    <3>1. IsFiniteSet(1 .. Len(fs[a].methods)) BY <3>3, FS_Interval
    <3>2. named(a) \in SUBSET (1 .. Len(fs[a].methods)) BY <1>1, <1>2
    <3>. QED BY <3>1, <3>2, FS_Subset
  <2>2. \A T \in places : IsFiniteSet(T)
    <3>. HIDE DEF named
    <3>. SUFFICES ASSUME NEW a \in DOMAIN fs PROVE IsFiniteSet({a} \X named(a)) OBVIOUS
    <3>1. IsFiniteSet({a}) BY FS_Singleton
    <3>. QED BY <2>1, <3>1, FS_Product
  <2>3. IsFiniteSet(places)
    <3> DEFINE f == [a \in DOMAIN fs |-> {a} \X named(a)]
    <3>. HIDE DEF named
    <3>1. f \in Surjection(DOMAIN fs, places) BY DEF Surjection
    <3>2. IsFiniteSet(DOMAIN fs) BY <1>1, FS_Interval
    <3>. QED BY <3>1, <3>2, FS_Surjection
  <2>. HIDE DEF places
  <2>. QED BY <2>2, <2>3, FS_UNION
<1>7. g = IF Cardinality(found) = 1 THEN (CHOOSE ab \in found : TRUE)[1] ELSE 0
  BY DEF GuessInterface
<1>8. Cardinality(found) = 1 <=> \E x : found = {x} BY <1>6, FS_Singleton
<1>. HIDE DEF named, found, g
<1>9. ASSUME NEW x, found = {x} PROVE g = x[1] /\ g \in 1 .. Len(fs) /\ Offers(fs, g, m)
                                      /\ \A b \in 1 .. Len(fs) : Offers(fs, b, m) => b = g
  <2>7. PICK a \in DOMAIN fs : \E d \in named(a) : x = <<a, d>> BY <1>4, <1>9
  <2>1. PICK d \in named(a) : x = <<a, d>> BY <2>7
  <2>2. (CHOOSE ab \in found : TRUE) = x BY <1>9
  <2>3. g = x[1] BY <1>7, <1>8, <1>9, <2>2
  <2>4. g = a BY <2>1, <2>3
  <2>5. ASSUME NEW b \in 1 .. Len(fs), Offers(fs, b, m) PROVE b = a
    <3>1. PICK k \in named(b) : TRUE BY <1>1, <1>5, <2>5
    <3>2. <<b, k>> \in found BY <1>1, <1>3, <3>1
    <3>3. <<b, k>> = <<a, d>> BY <1>9, <2>1, <3>2
    <3>. QED BY <3>3
  <2>6. Offers(fs, a, m) BY <1>5, <2>1
  <2>. QED BY <1>1, <2>1, <2>3, <2>4, <2>5, <2>6
<1>10. ASSUME NEW b \in 1 .. Len(fs), Offers(fs, b, m),
              \A a \in 1 .. Len(fs) : Offers(fs, a, m) => a = b
       PROVE  g # 0
  <2>1. PICK d \in named(b) : TRUE BY <1>1, <1>5, <1>10
  <2>2. \A k \in named(b) : k = d BY <1>1, <1>2 DEF named
  <2>3. \A x \in found : x = <<b, d>>
    <3>. SUFFICES ASSUME NEW x \in found PROVE x = <<b, d>> OBVIOUS
    <3>3. PICK a \in DOMAIN fs : \E k \in named(a) : x = <<a, k>> BY <1>4
    <3>1. PICK k \in named(a) : x = <<a, k>> BY <3>3
    <3>2. a = b BY <1>1, <1>5, <1>10, <3>1
    <3>. QED BY <2>2, <3>1, <3>2
  <2>4. <<b, d>> \in found BY <1>1, <1>3, <2>1
  <2>5. found = {<<b, d>>} BY <2>3, <2>4
  <2>6. g \in 1 .. Len(fs) BY <1>9, <2>5
  <2>. QED BY <1>1, <2>6
<1>11. g # 0 => \E x : found = {x} BY <1>7, <1>8
<1>. QED BY <1>1, <1>9, <1>10, <1>11 DEF g

\* The object of a call: the earliest registered of the paths that match.
LEMMA ObjectRowsAre ==
  ASSUME ObjectsOK(objects), NEW c
  PROVE  /\ FirstMatch(objects, c.path) \in 0 .. Len(objects)
         /\ \A r : r \in Table!ObjectRows(c) <=>
              /\ FirstMatch(objects, c.path) # 0
              /\ \E i, e :
                   /\ HasEntry(objects[FirstMatch(objects, c.path)].interfaces, i, e)
                   /\ r = RowOf(objects[FirstMatch(objects, c.path)].path, i, e)
<1> DEFINE o == FirstMatch(objects, c.path)
           I == {a \in 1 .. Len(objects) : <<objects[a].path, c.path>> \in Matches}
           J == {a \in 1 .. Len(Order) : <<Order[a], c.path>> \in Matches}
<1>1. objects \in Seq(ObjectItems) /\ Len(objects) \in Nat BY DEF ObjectsOK
<1>2. /\ Len(Order) = Len(objects)
      /\ \A a \in 1 .. Len(objects) : Order[a] = objects[a].path
  BY <1>1, PathsAre DEF Order, PathsOf
<1>3. I = J BY <1>2
<1>4. o = IF I # {} THEN Min(I) ELSE 0 BY DEF FirstMatch, SelectInSeq
<1>10. I \in SUBSET Nat OBVIOUS
<1>5. I # {} => Min(I) \in I BY <1>10, LeastPlace
<1>6. Table!ObjectRows(c) = {r \in Rows : o # 0 /\ r.path = Order[o]}
  <2>1. \A K : Table!Min(K) = Min(K) BY DEF Table!Min, Min
  <2>2. Table!ObjectRows(c) =
          {r \in Rows : (IF J # {} THEN Min(J) ELSE 0) # 0
                        /\ r.path = Order[IF J # {} THEN Min(J) ELSE 0]}
    BY <2>1 DEF Table!ObjectRows, Table!SelectInSeq
  <2>. QED BY <1>3, <1>4, <2>2
<1>7. o \in 0 .. Len(objects) BY <1>1, <1>4, <1>5
<1>. HIDE DEF o, I, J
<1>8. o # 0 => o \in 1 .. Len(objects) /\ Order[o] = objects[o].path BY <1>1, <1>2, <1>7
<1>9. ASSUME NEW r, o # 0
      PROVE  r \in Rows /\ r.path = Order[o] <=>
               \E i, e : HasEntry(objects[o].interfaces, i, e) /\ r = RowOf(objects[o].path, i, e)
  <2>1. \A i, e : HasRow(objects, objects[o].path, i, e) <=> HasEntry(objects[o].interfaces, i, e)
    BY <1>8, <1>9, RowAt
  <2>2. ASSUME r \in Rows, r.path = Order[o]
        PROVE  \E i, e : HasEntry(objects[o].interfaces, i, e) /\ r = RowOf(objects[o].path, i, e)
    <3>1. PICK q, i, e : HasRow(objects, q, i, e) /\ r = RowOf(q, i, e) BY <2>2, RowsAre
    <3>2. q = objects[o].path BY <1>8, <1>9, <2>2, <3>1, RowFields
    <3>. QED BY <2>1, <3>1, <3>2
  <2>3. ASSUME NEW i, NEW e, HasEntry(objects[o].interfaces, i, e),
               r = RowOf(objects[o].path, i, e)
        PROVE  r \in Rows /\ r.path = Order[o]
    BY <1>8, <1>9, <2>1, <2>3, RowsAre, RowFields
  <2>. QED BY <2>2, <2>3
<1>. QED BY <1>6, <1>7, <1>9 DEF o

\* The interface of a call, of the rows R of an object: the one it names, or
\* the one that its method is in.
AreRowsOf(R, p, fs) ==
  \A r : r \in R <=> \E i, e : HasEntry(fs, i, e) /\ r = RowOf(p, i, e)

ChosenRows(R, p, fs, c) ==
  /\ ChosenInterface(fs, c) \in 0 .. Len(fs)
  /\ \A r : r \in Table!InterfaceRows(R, c) <=>
       /\ ChosenInterface(fs, c) # 0
       /\ \E e : /\ HasMethod(fs[ChosenInterface(fs, c)].methods, e)
                 /\ r = RowOf(p, fs[ChosenInterface(fs, c)].interface, e)

LEMMA InterfaceRowsAre ==
  ASSUME NEW fs, InterfacesOK(fs), NEW p, NEW R, AreRowsOf(R, p, fs), NEW c
  PROVE  ChosenRows(R, p, fs, c)
<1> DEFINE f == ChosenInterface(fs, c)
           m == c.member
           offering == {r.interface : r \in {r \in R : r.method = m}}
           T == Table!InterfaceRows(R, c)
<1>. USE DEF AreRowsOf
<1>1. fs \in Seq(InterfaceItems) /\ Len(fs) \in Nat BY DEF InterfacesOK
<1>2. \A b \in 1 .. Len(fs) : \A x : HasEntry(fs, fs[b].interface, x) <=> HasMethod(fs[b].methods, x)
  BY EntryAt
<1>3. T = {r \in R : IF c.interface = None THEN offering = {r.interface}
                                           ELSE r.interface = c.interface}
  BY DEF Table!InterfaceRows
<1>4. \A k : k \in offering <=> \E b \in 1 .. Len(fs) : fs[b].interface = k /\ Offers(fs, b, m)
  <2>1. ASSUME NEW k \in offering
        PROVE  \E b \in 1 .. Len(fs) : fs[b].interface = k /\ Offers(fs, b, m)
    <3>1. PICK r \in R : r.method = m /\ k = r.interface OBVIOUS
    <3>2. PICK i, e : HasEntry(fs, i, e) /\ r = RowOf(p, i, e) OBVIOUS
    <3>3. k = i /\ e.method = m BY <3>1, <3>2, RowFields
    <3>4. PICK b \in 1 .. Len(fs) : fs[b].interface = i /\ HasMethod(fs[b].methods, e)
      BY <3>2 DEF HasEntry
    <3>. QED BY <3>3, <3>4 DEF HasMethod, Offers
  <2>2. ASSUME NEW b \in 1 .. Len(fs), Offers(fs, b, m) PROVE fs[b].interface \in offering
    <3>1. PICK d \in 1 .. Len(fs[b].methods) : fs[b].methods[d].method = m BY <2>2 DEF Offers
    <3> DEFINE e == fs[b].methods[d]
               r == RowOf(p, fs[b].interface, e)
    <3>2. HasEntry(fs, fs[b].interface, e) BY <1>2 DEF HasMethod
    <3>3. r \in R BY <3>2
    <3>4. r.method = m /\ r.interface = fs[b].interface BY <3>1, RowFields
    <3>. HIDE DEF r, e
    <3>. QED BY <3>3, <3>4
  <2>. HIDE DEF offering
  <2>. QED BY <2>1, <2>2
<1>. HIDE DEF offering, T
<1>5. ASSUME c.interface # None
      PROVE  /\ f \in 0 .. Len(fs)
             /\ \A r : r \in T <=> f # 0 /\ \E e : /\ HasMethod(fs[f].methods, e)
                                                  /\ r = RowOf(p, fs[f].interface, e)
  <2>1. f = InterfaceAt(fs, c.interface) BY <1>5 DEF ChosenInterface
  <2>. HIDE DEF f
  <2>2. /\ f \in 0 .. Len(fs) /\ (f # 0 => fs[f].interface = c.interface)
        /\ (f = 0 => \A b \in 1 .. Len(fs) : fs[b].interface # c.interface)
    BY <1>1, <2>1, InterfacePlace
  <2>3. ASSUME NEW r \in T
        PROVE  f # 0 /\ \E e : /\ HasMethod(fs[f].methods, e)
                               /\ r = RowOf(p, fs[f].interface, e)
    <3>1. r \in R /\ r.interface = c.interface BY <1>3, <1>5
    <3>2. PICK i, e : HasEntry(fs, i, e) /\ r = RowOf(p, i, e) BY <3>1
    <3>3. i = c.interface BY <3>1, <3>2, RowFields
    <3>4. f # 0 BY <2>2, <3>2, <3>3 DEF HasEntry
    <3>5. f \in 1 .. Len(fs) /\ fs[f].interface = i BY <1>1, <2>2, <3>3, <3>4
    <3>6. HasMethod(fs[f].methods, e) BY <1>2, <3>2, <3>5
    <3>. QED BY <3>2, <3>4, <3>5, <3>6
  <2>4. ASSUME NEW r, f # 0, NEW e, HasMethod(fs[f].methods, e),
               r = RowOf(p, fs[f].interface, e)
        PROVE  r \in T
    <3>1. f \in 1 .. Len(fs) /\ fs[f].interface = c.interface BY <1>1, <2>2, <2>4
    <3>2. HasEntry(fs, fs[f].interface, e) BY <1>2, <2>4, <3>1
    <3>3. r \in R /\ r.interface = c.interface BY <2>4, <3>1, <3>2, RowFields
    <3>. QED BY <1>3, <1>5, <3>3
  <2>. QED BY <2>2, <2>3, <2>4
<1>6. ASSUME c.interface = None
      PROVE  /\ f \in 0 .. Len(fs)
             /\ \A r : r \in T <=> f # 0 /\ \E e : /\ HasMethod(fs[f].methods, e)
                                                  /\ r = RowOf(p, fs[f].interface, e)
  <2>1. f = GuessInterface(fs, m) BY <1>6 DEF ChosenInterface
  <2>. HIDE DEF f, m
  <2>2. /\ f \in 0 .. Len(fs)
        /\ f # 0 => /\ Offers(fs, f, m)
                    /\ \A b \in 1 .. Len(fs) : Offers(fs, b, m) => b = f
        /\ \A b \in 1 .. Len(fs) :
             Offers(fs, b, m) /\ (\A a \in 1 .. Len(fs) : Offers(fs, a, m) => a = b) => f # 0
    BY <2>1, GuessIs
  <2>5. \A a, b \in 1 .. Len(fs) : fs[a].interface = fs[b].interface => a = b BY DEF InterfacesOK
  <2>3. ASSUME NEW r \in T
        PROVE  f # 0 /\ \E e : /\ HasMethod(fs[f].methods, e)
                               /\ r = RowOf(p, fs[f].interface, e)
    <3>1. r \in R /\ offering = {r.interface} BY <1>3, <1>6
    <3>2. PICK i, e : HasEntry(fs, i, e) /\ r = RowOf(p, i, e) BY <3>1
    <3>3. r.interface = i /\ i \in offering BY <3>1, <3>2, RowFields
    <3>4. PICK b \in 1 .. Len(fs) : fs[b].interface = i /\ Offers(fs, b, m) BY <1>4, <3>3
    <3>5. \A a \in 1 .. Len(fs) : Offers(fs, a, m) => a = b
      BY <1>4, <2>5, <3>1, <3>3, <3>4
    <3>6. f # 0 BY <2>2, <3>4, <3>5
    <3>7. f = b BY <2>2, <3>4, <3>6
    <3>8. HasMethod(fs[f].methods, e) BY <1>2, <3>2, <3>4, <3>7
    <3>. QED BY <3>2, <3>4, <3>6, <3>7, <3>8
  <2>4. ASSUME NEW r, f # 0, NEW e, HasMethod(fs[f].methods, e),
               r = RowOf(p, fs[f].interface, e)
        PROVE  r \in T
    <3>1. f \in 1 .. Len(fs) BY <1>1, <2>2, <2>4
    <3>2. HasEntry(fs, fs[f].interface, e) BY <1>2, <2>4, <3>1
    <3>3. r \in R /\ r.interface = fs[f].interface BY <2>4, <3>2, RowFields
    <3>4. \A k : k \in offering <=> k = fs[f].interface BY <1>4, <2>2, <2>4, <3>1
    <3>5. offering = {r.interface} BY <3>3, <3>4
    <3>. QED BY <1>3, <1>6, <3>3, <3>5
  <2>. QED BY <2>2, <2>3, <2>4
<1>. QED BY <1>5, <1>6 DEF T, ChosenRows

\* Where the walk of the message c gets to.
ObjectOf(c)     == FirstMatch(objects, c.path)
InterfacesOf(c) == objects[ObjectOf(c)].interfaces
InterfaceOf(c)  == ChosenInterface(InterfacesOf(c), c)
MethodsOf(c)    == InterfacesOf(c)[InterfaceOf(c)].methods
MethodOf(c)     == MethodAt(MethodsOf(c), c.member)
RowReached(c)   == RowOf(objects[ObjectOf(c)].path, InterfacesOf(c)[InterfaceOf(c)].interface,
                         MethodsOf(c)[MethodOf(c)])

LEMMA NoObjectIs ==
  ASSUME ObjectsOK(objects), NEW c
  PROVE  /\ ObjectOf(c) \in 0 .. Len(objects)
         /\ ObjectOf(c) = 0 <=> Table!ObjectRows(c) = {}
<1>1. /\ ObjectOf(c) \in 0 .. Len(objects)
      /\ \A r : r \in Table!ObjectRows(c) <=>
           /\ ObjectOf(c) # 0
           /\ \E i, e : HasEntry(InterfacesOf(c), i, e) /\ r = RowOf(objects[ObjectOf(c)].path, i, e)
  BY ObjectRowsAre DEF ObjectOf, InterfacesOf
<1>2. ASSUME ObjectOf(c) # 0 PROVE \E i, e : HasEntry(InterfacesOf(c), i, e)
  <2> DEFINE fs == InterfacesOf(c)
             ms == fs[1].methods
  <2>1. Len(objects) \in Nat BY DEF ObjectsOK
  <2>2. ObjectOf(c) \in 1 .. Len(objects) BY <1>1, <1>2, <2>1
  <2>3. InterfacesOK(fs) /\ fs # <<>> BY <2>2 DEF ObjectsOK, ObjectOK, InterfacesOf
  <2>. HIDE DEF fs
  <2>4. fs \in Seq(InterfaceItems) /\ 1 \in 1 .. Len(fs) BY <2>3, EmptySeq DEF InterfacesOK
  <2>5. MethodsOK(ms) /\ ms # <<>> BY <2>3, <2>4 DEF InterfacesOK, InterfaceOK
  <2>. HIDE DEF ms
  <2>6. ms \in Seq(MethodEntries) /\ 1 \in 1 .. Len(ms) BY <2>5, EmptySeq DEF MethodsOK
  <2>7. HasMethod(ms, ms[1]) BY <2>6 DEF HasMethod
  <2>8. HasEntry(fs, fs[1].interface, ms[1]) BY <2>4, <2>7 DEF HasEntry, ms
  <2>. QED BY <2>8 DEF fs
<1>. QED BY <1>1, <1>2

LEMMA NoInterfaceIs ==
  ASSUME ObjectsOK(objects), NEW c, ObjectOf(c) # 0
  PROVE  /\ InterfacesOK(InterfacesOf(c))
         /\ InterfaceOf(c) \in 0 .. Len(InterfacesOf(c))
         /\ InterfaceOf(c) = 0 <=> Table!InterfaceRows(Table!ObjectRows(c), c) = {}
         /\ \A r : r \in Table!InterfaceRows(Table!ObjectRows(c), c) <=>
              /\ InterfaceOf(c) # 0
              /\ \E e : /\ HasMethod(MethodsOf(c), e)
                        /\ r = RowOf(objects[ObjectOf(c)].path,
                                     InterfacesOf(c)[InterfaceOf(c)].interface, e)
<1> DEFINE fs == InterfacesOf(c)
           p == objects[ObjectOf(c)].path
           R == Table!ObjectRows(c)
           f == InterfaceOf(c)
<1>1. ObjectOf(c) \in 0 .. Len(objects) /\ Len(objects) \in Nat BY NoObjectIs DEF ObjectsOK
<1>2. InterfacesOK(fs) BY <1>1 DEF ObjectsOK, ObjectOK, InterfacesOf
<1>3. AreRowsOf(R, p, fs) BY ObjectRowsAre DEF AreRowsOf, ObjectOf, InterfacesOf
<1>. HIDE DEF fs, p, R
<1>4. /\ ChosenInterface(fs, c) \in 0 .. Len(fs)
      /\ \A r : r \in Table!InterfaceRows(R, c) <=>
           /\ ChosenInterface(fs, c) # 0
           /\ \E e : /\ HasMethod(fs[ChosenInterface(fs, c)].methods, e)
                     /\ r = RowOf(p, fs[ChosenInterface(fs, c)].interface, e)
  <2>1. ChosenRows(R, p, fs, c) BY <1>2, <1>3, InterfaceRowsAre, Zenon
  <2>. QED BY <2>1, Zenon DEF ChosenRows
<1>5. f = ChosenInterface(fs, c) BY DEF InterfaceOf, fs
<1>. HIDE DEF f
<1>6. ASSUME f # 0 PROVE \E e : HasMethod(fs[f].methods, e)
  <2> DEFINE ms == fs[f].methods
  <2>1. Len(fs) \in Nat BY <1>2 DEF InterfacesOK
  <2>2. f \in 1 .. Len(fs) BY <1>4, <1>5, <1>6, <2>1
  <2>3. MethodsOK(ms) /\ ms # <<>> BY <1>2, <2>2 DEF InterfacesOK, InterfaceOK
  <2>. HIDE DEF ms
  <2>4. ms \in Seq(MethodEntries) /\ 1 \in 1 .. Len(ms) BY <2>3, EmptySeq DEF MethodsOK
  <2>5. HasMethod(ms, ms[1]) BY <2>4 DEF HasMethod
  <2>. QED BY <2>5 DEF ms
<1>7. f = 0 <=> Table!InterfaceRows(R, c) = {} BY <1>4, <1>5, <1>6
<1>. QED BY <1>2, <1>4, <1>5, <1>7 DEF fs, p, R, f, MethodsOf

LEMMA NoMethodIs ==
  ASSUME ObjectsOK(objects), NEW c, ObjectOf(c) # 0, InterfaceOf(c) # 0
  PROVE  /\ MethodOf(c) = 0 <=> Table!MethodRows(c) = {}
         /\ MethodOf(c) # 0 => /\ MethodsOf(c)[MethodOf(c)] \in MethodEntries
                               /\ Table!MethodRows(c) = {RowReached(c)}
<1> DEFINE ms == MethodsOf(c)
           m == c.member
           j == MethodOf(c)
           p == objects[ObjectOf(c)].path
           i == InterfacesOf(c)[InterfaceOf(c)].interface
           T == Table!InterfaceRows(Table!ObjectRows(c), c)
<1>1. /\ InterfacesOK(InterfacesOf(c)) /\ InterfaceOf(c) \in 0 .. Len(InterfacesOf(c))
      /\ \A r : r \in T <=> \E e : HasMethod(ms, e) /\ r = RowOf(p, i, e)
  BY NoInterfaceIs
<1>2. Len(InterfacesOf(c)) \in Nat BY <1>1 DEF InterfacesOK
<1>3. InterfaceOf(c) \in 1 .. Len(InterfacesOf(c)) BY <1>1, <1>2
<1>4. MethodsOK(ms) BY <1>1, <1>3 DEF InterfacesOK, InterfaceOK, MethodsOf
<1>5. Table!MethodRows(c) = {r \in T : r.method = m} BY DEF Table!MethodRows
<1>6. j = MethodAt(ms, m) BY DEF MethodOf
<1>7. RowReached(c) = RowOf(p, i, ms[j]) BY DEF RowReached
<1>. HIDE DEF ms, m, j, p, i, T
<1>8. /\ ms \in Seq(MethodEntries) /\ Len(ms) \in Nat
      /\ \A d, e \in 1 .. Len(ms) : ms[d].method = ms[e].method => d = e
  BY <1>4 DEF MethodsOK
<1>9. /\ j \in 0 .. Len(ms) /\ (j # 0 => ms[j].method = m)
      /\ (j = 0 => \A d \in 1 .. Len(ms) : ms[d].method # m)
  BY <1>6, <1>8, MethodPlace
<1>10. \A r : r \in Table!MethodRows(c)
               <=> \E d \in 1 .. Len(ms) : ms[d].method = m /\ r = RowOf(p, i, ms[d])
  BY <1>1, <1>5, RowFields DEF HasMethod
<1>11. CASE j = 0
  <2>1. Table!MethodRows(c) = {} BY <1>9, <1>10, <1>11
  <2>. QED BY <1>11, <2>1 DEF j
<1>12. CASE j # 0
  <2>1. j \in 1 .. Len(ms) /\ ms[j].method = m BY <1>8, <1>9, <1>12
  <2>2. \A d \in 1 .. Len(ms) : ms[d].method = m <=> d = j BY <1>8, <2>1
  <2>3. \A r : r \in Table!MethodRows(c) <=> r = RowOf(p, i, ms[j]) BY <1>10, <2>1, <2>2
  <2>4. Table!MethodRows(c) = {RowOf(p, i, ms[j])} BY <2>3
  <2>5. ms[j] \in MethodEntries BY <1>8, <2>1
  <2>. QED BY <1>7, <1>12, <2>4, <2>5 DEF j, ms
<1>. QED BY <1>11, <1>12

(***************************************************************************)
(* The verdict on a message.                                               *)
(***************************************************************************)
LEMMA ComplaintsAre ==
  /\ DOMAIN Table!Complaints = 1 .. 8
  /\ Table!Complaints[1] = "NotYetHandled" /\ Table!Complaints[2] = "UnknownSender"
  /\ Table!Complaints[3] = "NoObject"      /\ Table!Complaints[4] = "NoInterface"
  /\ Table!Complaints[5] = "NoMethod"      /\ Table!Complaints[6] = "UnimplementedMethod"
  /\ Table!Complaints[7] = "UnknownUser"   /\ Table!Complaints[8] = "InvalidCall"
BY DEF Table!Complaints

LEMMA AppliesWhen ==
  ASSUME NEW c
  PROVE  /\ Table!Applies("NotYetHandled", c) <=> c.kind # "call"
         /\ Table!Applies("UnknownSender", c) <=> ~c.sender
         /\ Table!Applies("NoObject", c) <=> Table!ObjectRows(c) = {}
         /\ Table!Applies("NoInterface", c)
              <=> Table!InterfaceRows(Table!ObjectRows(c), c) = {}
         /\ Table!Applies("NoMethod", c) <=> Table!MethodRows(c) = {}
         /\ Table!Applies("UnimplementedMethod", c)
              <=> \A r \in Table!MethodRows(c) : r.handler = None
         /\ Table!Applies("UnknownUser", c) <=> ~c.user
         /\ Table!Applies("InvalidCall", c)
              <=> \A r \in Table!MethodRows(c) : ~Table!MayRun(r, c)
BY DEF Table!Applies

LEMMA TableStays ==
  ASSUME UNCHANGED objects
  PROVE  UNCHANGED <<Rows, Order>>
BY DEF Rows, Entries, Order, RowOf

\* The k-th complaint is made when it applies and none before it does.
LEMMA ComplainStep ==
  ASSUME NEW c, UNCHANGED objects, NEW k \in 1 .. 8,
         last' = <<"filter", c, Table!Complaints[k]>>,
         Table!Applies(Table!Complaints[k], c),
         \A j \in 1 .. k - 1 : ~Table!Applies(Table!Complaints[j], c)
  PROVE  Table!Complain(c)
BY TableStays, ComplaintsAre DEF Table!Complain

LEMMA FilterStep ==
  ASSUME ObjectsOK(objects), NEW c \in Messages, Filter(c)
  PROVE  /\ last' # <<>> /\ last'[3] \in Handlers \cup Verdicts
         /\ Table!Complain(c) \/ \E h \in Handlers : Table!Run(h, c)
<1> DEFINE v == last'[3]
           e == MethodsOf(c)[MethodOf(c)]
           s(k) == Table!Complaints[k]
           a(k) == Table!Applies(Table!Complaints[k], c)
<1>1. UNCHANGED objects BY DEF Filter
<1>2. last' = <<"filter", c, v>> BY DEF Filter
<1>3. v = IF c.kind # "call" THEN "NotYetHandled"
          ELSE IF ~c.sender THEN "UnknownSender"
          ELSE IF ObjectOf(c) = 0 THEN "NoObject"
          ELSE IF InterfaceOf(c) = 0 THEN "NoInterface"
          ELSE IF MethodOf(c) = 0 THEN "NoMethod"
          ELSE Checked(e, c)
  BY DEF Filter, Routed, ObjectOf, InterfacesOf, InterfaceOf, MethodsOf, MethodOf
<1>4. /\ s(1) = "NotYetHandled" /\ s(2) = "UnknownSender" /\ s(3) = "NoObject"
      /\ s(4) = "NoInterface" /\ s(5) = "NoMethod" /\ s(6) = "UnimplementedMethod"
      /\ s(7) = "UnknownUser" /\ s(8) = "InvalidCall"
  BY ComplaintsAre
<1>5. /\ a(1) <=> c.kind # "call"
      /\ a(2) <=> ~c.sender
      /\ a(3) <=> ObjectOf(c) = 0
      /\ ~a(3) => (a(4) <=> InterfaceOf(c) = 0)
      /\ ~a(3) /\ ~a(4) => (a(5) <=> MethodOf(c) = 0)
      /\ ~a(3) /\ ~a(4) /\ ~a(5) => (a(6) <=> e.handler = None)
      /\ a(7) <=> ~c.user
      /\ ~a(3) /\ ~a(4) /\ ~a(5) => (a(8) <=> ~Table!MayRun(RowReached(c), c))
  <2>1. ObjectOf(c) = 0 <=> Table!ObjectRows(c) = {} BY NoObjectIs
  <2>2. ObjectOf(c) # 0 =>
          (InterfaceOf(c) = 0 <=> Table!InterfaceRows(Table!ObjectRows(c), c) = {})
    BY NoInterfaceIs
  <2>3. ObjectOf(c) # 0 /\ InterfaceOf(c) # 0 =>
          /\ MethodOf(c) = 0 <=> Table!MethodRows(c) = {}
          /\ MethodOf(c) # 0 => Table!MethodRows(c) = {RowReached(c)}
    BY NoMethodIs
  <2>4. RowReached(c).handler = e.handler BY RowFields DEF RowReached
  <2>5. /\ Table!Applies("NotYetHandled", c) <=> c.kind # "call"
        /\ Table!Applies("UnknownSender", c) <=> ~c.sender
        /\ Table!Applies("NoObject", c) <=> Table!ObjectRows(c) = {}
        /\ Table!Applies("NoInterface", c)
             <=> Table!InterfaceRows(Table!ObjectRows(c), c) = {}
        /\ Table!Applies("NoMethod", c) <=> Table!MethodRows(c) = {}
        /\ Table!Applies("UnimplementedMethod", c)
             <=> \A r \in Table!MethodRows(c) : r.handler = None
        /\ Table!Applies("UnknownUser", c) <=> ~c.user
        /\ Table!Applies("InvalidCall", c)
             <=> \A r \in Table!MethodRows(c) : ~Table!MayRun(r, c)
    BY AppliesWhen
  <2>. HIDE DEF e
  <2>. QED BY <1>4, <2>1, <2>2, <2>3, <2>4, <2>5
<1>6. ~a(3) /\ ~a(4) /\ ~a(5) =>
        /\ e.handler \in Handlers \cup {None}
        /\ RowReached(c) \in Table!MethodRows(c)
        /\ RowReached(c).handler = e.handler /\ RowReached(c).arity = e.n_arguments
  <2>1. ObjectOf(c) # 0 /\ InterfaceOf(c) # 0 /\ MethodOf(c) # 0 =>
          e \in MethodEntries /\ Table!MethodRows(c) = {RowReached(c)}
    BY NoMethodIs
  <2>2. RowReached(c).handler = e.handler /\ RowReached(c).arity = e.n_arguments
    BY RowFields DEF RowReached
  <2>. QED BY <1>5, <2>1, <2>2 DEF MethodEntries
<1>7. ASSUME ~a(1), ~a(2), ~a(3), ~a(4), ~a(5), ~a(6), ~a(7)
      PROVE  /\ a(8) => v = s(8)
             /\ ~a(8) => v = e.handler /\ v \in Handlers
  <2>1. Table!MayRun(RowReached(c), c) <=> c.clean /\ c.strings = e.n_arguments
    BY <1>5, <1>6, <1>7 DEF Table!MayRun
  <2>2. v = IF ~c.clean \/ c.strings # e.n_arguments THEN "InvalidCall" ELSE e.handler
    BY <1>3, <1>5, <1>7 DEF Checked
  <2>. QED BY <1>4, <1>5, <1>6, <1>7, <2>1, <2>2
<1>8. /\ a(1) => v = s(1)
      /\ ~a(1) /\ a(2) => v = s(2)
      /\ ~a(1) /\ ~a(2) /\ a(3) => v = s(3)
      /\ ~a(1) /\ ~a(2) /\ ~a(3) /\ a(4) => v = s(4)
      /\ ~a(1) /\ ~a(2) /\ ~a(3) /\ ~a(4) /\ a(5) => v = s(5)
      /\ ~a(1) /\ ~a(2) /\ ~a(3) /\ ~a(4) /\ ~a(5) /\ a(6) => v = s(6)
      /\ ~a(1) /\ ~a(2) /\ ~a(3) /\ ~a(4) /\ ~a(5) /\ ~a(6) /\ a(7) => v = s(7)
  <2>. HIDE DEF v, e, s, a
  <2>. QED BY <1>3, <1>4, <1>5 DEF Checked
<1>9. \A k \in 1 .. 8 : s(k) \in Verdicts BY <1>4 DEF Verdicts
<1>10. \A k \in 1 .. 8 : v = s(k) /\ a(k) /\ (\A j \in 1 .. k - 1 : ~a(j)) => Table!Complain(c)
  BY <1>1, <1>2, ComplainStep
<1>11. ASSUME ~a(1), ~a(2), ~a(3), ~a(4), ~a(5), ~a(6), ~a(7), ~a(8) PROVE Table!Run(v, c)
  <2>1. RowReached(c) \in Table!MethodRows(c) /\ RowReached(c).handler = v
    BY <1>6, <1>7, <1>11
  <2>2. Table!MayRun(RowReached(c), c) BY <1>5, <1>11
  <2>. HIDE DEF v
  <2>. QED BY <1>1, <1>2, <2>1, <2>2, TableStays DEF Table!Run
<1>12. last' # <<>>
  <2>. HIDE DEF v
  <2>. QED BY <1>2
<1>. HIDE DEF v, e, s, a
<1>13. /\ \A j \in 1 .. 1 - 1 : ~a(j)
       /\ ~a(1) => \A j \in 1 .. 2 - 1 : ~a(j)
       /\ ~a(1) /\ ~a(2) => \A j \in 1 .. 3 - 1 : ~a(j)
       /\ ~a(1) /\ ~a(2) /\ ~a(3) => \A j \in 1 .. 4 - 1 : ~a(j)
       /\ ~a(1) /\ ~a(2) /\ ~a(3) /\ ~a(4) => \A j \in 1 .. 5 - 1 : ~a(j)
       /\ ~a(1) /\ ~a(2) /\ ~a(3) /\ ~a(4) /\ ~a(5) => \A j \in 1 .. 6 - 1 : ~a(j)
       /\ ~a(1) /\ ~a(2) /\ ~a(3) /\ ~a(4) /\ ~a(5) /\ ~a(6) => \A j \in 1 .. 7 - 1 : ~a(j)
       /\ ~a(1) /\ ~a(2) /\ ~a(3) /\ ~a(4) /\ ~a(5) /\ ~a(6) /\ ~a(7)
            => \A j \in 1 .. 8 - 1 : ~a(j)
  OBVIOUS
<1>14. 1 \in 1 .. 8 /\ 2 \in 1 .. 8 /\ 3 \in 1 .. 8 /\ 4 \in 1 .. 8
       /\ 5 \in 1 .. 8 /\ 6 \in 1 .. 8 /\ 7 \in 1 .. 8 /\ 8 \in 1 .. 8
  OBVIOUS
<1>15. \/ v \in Handlers /\ Table!Run(v, c)
       \/ v \in Verdicts /\ Table!Complain(c)
  BY <1>7, <1>8, <1>9, <1>10, <1>11, <1>13, <1>14
<1>. QED BY <1>12, <1>15 DEF v

(***************************************************************************)
(* The invariant holds, and each step is one of the table.                 *)
(***************************************************************************)
LEMMA InitRegistry == Init => RegistryInvariant /\ Table!Init
<1>. SUFFICES ASSUME Init PROVE RegistryInvariant /\ Table!Init OBVIOUS
<1>1. objects = <<>> /\ last = <<>> BY DEF Init
<1>2. ObjectsOK(objects) BY <1>1, EmptySeq DEF ObjectsOK
<1>3. Rows = {}
  <2>1. \A p, i, e : ~HasRow(objects, p, i, e) BY <1>1, EmptySeq DEF HasRow
  <2>2. \A r : r \notin Rows BY <1>2, <2>1, RowsAre
  <2>. QED BY <2>2
<1>4. Order = <<>>
  <2>1. Order \in Seq(Paths) /\ Len(Order) = 0
    BY <1>1, <1>2, PathsAre, EmptySeq DEF ObjectsOK, Order, PathsOf
  <2>. QED BY <2>1, EmptySeq
<1>. QED BY <1>1, <1>2, <1>3, <1>4 DEF RegistryInvariant, Table!Init

LEMMA RegistryStep ==
  RegistryInvariant /\ [Next]_vars => RegistryInvariant' /\ [Table!Next]_<<Rows, Order, last>>
<1>. SUFFICES ASSUME RegistryInvariant, [Next]_vars
              PROVE  RegistryInvariant' /\ [Table!Next]_<<Rows, Order, last>>
  OBVIOUS
<1>1. ObjectsOK(objects) BY DEF RegistryInvariant
<1>2. ASSUME NEW p \in Paths, NEW i \in Interfaces, NEW m \in Methods, NEW n \in Arities,
             NEW h \in Handlers \cup {None}, AddMethod(p, i, m, n, h)
      PROVE  RegistryInvariant' /\ Table!Next
  <2>1. ObjectsOK(objects') /\ Table!Register(p, i, m, n, h) BY <1>1, <1>2, AddStep
  <2>2. last'[3] = "done" BY <1>2 DEF AddMethod
  <2>. QED BY <2>1, <2>2 DEF RegistryInvariant, Verdicts, Table!Next
<1>3. ASSUME NEW p \in Paths, NEW i \in Interfaces, NEW m \in Methods, RemoveMethod(p, i, m)
      PROVE  RegistryInvariant' /\ Table!Next
  <2>1. ObjectsOK(objects') /\ Table!Unregister(p, i, m) BY <1>1, <1>3, RemoveStep
  <2>2. last'[3] = "done" BY <1>3 DEF RemoveMethod
  <2>. QED BY <2>1, <2>2 DEF RegistryInvariant, Verdicts, Table!Next
<1>4. ASSUME NEW c \in Messages, Filter(c) PROVE RegistryInvariant' /\ Table!Next
  <2>1. /\ last'[3] \in Handlers \cup Verdicts
        /\ Table!Complain(c) \/ \E h \in Handlers : Table!Run(h, c)
    BY <1>1, <1>4, FilterStep
  <2>2. objects' = objects BY <1>4 DEF Filter
  <2>. QED BY <1>1, <2>1, <2>2 DEF RegistryInvariant, Table!Next
<1>5. CASE UNCHANGED vars
  <2>1. UNCHANGED <<Rows, Order, last>> BY <1>5, TableStays DEF vars
  <2>2. RegistryInvariant' BY <1>5 DEF RegistryInvariant, vars
  <2>. QED BY <2>1, <2>2
<1>. QED BY <1>2, <1>3, <1>4, <1>5 DEF Next

\* Whatever is added and removed, the arrays stay in order: of the right types,
\* no name twice in one, and none empty but that of the objects.
THEOREM RegistryInvariantHolds == Spec => []RegistryInvariant
<1>1. Init => RegistryInvariant BY InitRegistry
<1>2. RegistryInvariant /\ [Next]_vars => RegistryInvariant' BY RegistryStep
<1>. QED BY <1>1, <1>2, PTL DEF Spec

\* What oddjob_dbus_filter answers is a handler that was registered or one of
\* the errors it knows; a NULL handler is never called.
THEOREM RegistryTypeCorrect == Spec => []TypeOK
<1>1. RegistryInvariant => TypeOK BY DEF RegistryInvariant, ObjectsOK, TypeOK, Verdicts
<1>. QED BY <1>1, RegistryInvariantHolds, PTL

LEMMA LevelsOf ==
  ASSUME NEW os, ObjectsOK(os)
  PROVE  /\ DOMAIN os = 1 .. Len(os)
         /\ \A a \in 1 .. Len(os) :
              /\ InterfacesOK(os[a].interfaces) /\ os[a].interfaces # <<>>
              /\ DOMAIN os[a].interfaces = 1 .. Len(os[a].interfaces)
              /\ \A b \in 1 .. Len(os[a].interfaces) :
                   /\ MethodsOK(os[a].interfaces[b].methods)
                   /\ os[a].interfaces[b].methods # <<>>
                   /\ DOMAIN os[a].interfaces[b].methods
                        = 1 .. Len(os[a].interfaces[b].methods)
<1>1. ASSUME NEW ms, MethodsOK(ms) PROVE DOMAIN ms = 1 .. Len(ms) BY <1>1 DEF MethodsOK
<1>2. ASSUME NEW fs, InterfacesOK(fs)
      PROVE  /\ DOMAIN fs = 1 .. Len(fs)
             /\ \A b \in 1 .. Len(fs) : MethodsOK(fs[b].methods) /\ fs[b].methods # <<>>
  BY <1>2 DEF InterfacesOK, InterfaceOK
<1>3. /\ DOMAIN os = 1 .. Len(os)
      /\ \A a \in 1 .. Len(os) : InterfacesOK(os[a].interfaces) /\ os[a].interfaces # <<>>
  BY DEF ObjectsOK, ObjectOK
<1>. QED BY <1>1, <1>2, <1>3

\* No array of a service ever holds a name twice, so that guess_interface sees
\* an ambiguity only where there is one and remove_method leaves nothing behind.
THEOREM RegistryNamesUnique == Spec => []NamesUnique
<1>1. RegistryInvariant => NamesUnique
  <2>. SUFFICES ASSUME RegistryInvariant PROVE NamesUnique OBVIOUS
  <2>1. ObjectsOK(objects) BY DEF RegistryInvariant
  <2>2. \A a, b \in 1 .. Len(objects) : objects[a].path = objects[b].path => a = b
    BY <2>1 DEF ObjectsOK
  <2>3. \A fs : InterfacesOK(fs) =>
          \A b, c \in 1 .. Len(fs) : fs[b].interface = fs[c].interface => b = c
    BY DEF InterfacesOK
  <2>4. \A ms : MethodsOK(ms) =>
          \A d, e \in 1 .. Len(ms) : ms[d].method = ms[e].method => d = e
    BY DEF MethodsOK
  <2>5. ASSUME NEW a \in DOMAIN objects
        PROVE  LET fs == objects[a].interfaces
               IN  /\ \A b, c \in DOMAIN fs : fs[b].interface = fs[c].interface => b = c
                   /\ \A b \in DOMAIN fs : \A d, e \in DOMAIN fs[b].methods :
                        fs[b].methods[d].method = fs[b].methods[e].method => d = e
    <3> DEFINE fs == objects[a].interfaces
    <3>1. /\ InterfacesOK(fs) /\ DOMAIN fs = 1 .. Len(fs)
          /\ \A b \in 1 .. Len(fs) : /\ MethodsOK(fs[b].methods)
                                     /\ DOMAIN fs[b].methods = 1 .. Len(fs[b].methods)
      BY <2>1, LevelsOf
    <3>. HIDE DEF fs
    <3>2. \A b, c \in DOMAIN fs : fs[b].interface = fs[c].interface => b = c BY <2>3, <3>1
    <3>3. ASSUME NEW b \in DOMAIN fs
          PROVE  \A d, e \in DOMAIN fs[b].methods :
                   fs[b].methods[d].method = fs[b].methods[e].method => d = e
      <4> DEFINE ms == fs[b].methods
      <4>1. MethodsOK(ms) /\ DOMAIN ms = 1 .. Len(ms) BY <3>1
      <4>. HIDE DEF ms
      <4>2. \A d, e \in DOMAIN ms : ms[d].method = ms[e].method => d = e BY <2>4, <4>1
      <4>. QED BY <4>2 DEF ms
    <3>. QED BY <3>2, <3>3 DEF fs
  <2>6. \A a, b \in DOMAIN objects : objects[a].path = objects[b].path => a = b
    BY <2>1, <2>2, LevelsOf
  <2>. QED BY <2>5, <2>6 DEF NamesUnique
<1>. QED BY <1>1, RegistryInvariantHolds, PTL

\* remove_method never leaves an object or an interface without a method, which
\* would go on taking the calls of later objects whose pattern matches.
THEOREM RegistryNoEmptyLevels == Spec => []NoEmptyLevels
<1>1. RegistryInvariant => NoEmptyLevels BY LevelsOf DEF RegistryInvariant, NoEmptyLevels
<1>. QED BY <1>1, RegistryInvariantHolds, PTL

\* The nested arrays and the walk of oddjob_dbus_filter are the table and the
\* verdicts of MethodTable, whatever was added, replaced and removed before.
THEOREM ArraysAreTable == Spec => ImplementsTable
<1>1. Init => Table!Init BY InitRegistry
<1>2. RegistryInvariant /\ [Next]_vars => [Table!Next]_<<Rows, Order, last>> BY RegistryStep
<1>. QED BY <1>1, <1>2, RegistryInvariantHolds, PTL DEF Spec, ImplementsTable, Table!Spec
=============================================================================
