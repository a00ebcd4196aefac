---------------------------- MODULE CodingProofs ----------------------------
(***************************************************************************)
(* base64_encode and base64_decode, for all data and all places where the  *)
(* text may end; Log4cplus_logger::log, for all pieces and whatever lies   *)
(* around them in memory; signing, for every set of keys, every signature  *)
(* length and any number of updates and failures.                          *)
(***************************************************************************)
EXTENDS Base64, CurlLogger, Signing, SequenceTheorems, FiniteSetTheorems, TLAPS

(***************************************************************************)
(* Base64.                                                                 *)
(***************************************************************************)
LEMMA BytesAreNumbers == \A x \in Bytes : x \in Nat /\ 0 <= x /\ x <= 255
  BY Base64Assumption

(* Where a group of a text begins and ends. *)
LEMMA GroupElements ==
    ASSUME NEW S, NEW s \in Seq(S), NEW w \in {3, 4}, NEW k \in Nat, k >= 1, w * (k - 1) < Len(s)
    PROVE  /\ Group(s, w, k) \in Seq(S)
           /\ Len(Group(s, w, k)) = IF w * k < Len(s) THEN w ELSE Len(s) - w * (k - 1)
           /\ \A j \in 1..Len(Group(s, w, k)) : Group(s, w, k)[j] = s[w * (k - 1) + j]
  <1>1. Len(s) \in Nat /\ \A i \in 1..Len(s) : s[i] \in S
    OBVIOUS
  <1> DEFINE done == w * (k - 1)
             from == done + 1
             to == IF w * k < Len(s) THEN w * k ELSE Len(s)
  <1>2. done \in Nat /\ w * k = done + w /\ w \in Nat /\ w >= 1 /\ done < Len(s)
    BY SMT
  <1>3. Group(s, w, k) = SubSeq(s, from, to)
    BY Zenon DEF Group
  <1> HIDE DEF done
  <1>4. /\ from \in Int /\ to \in Int /\ from >= 1 /\ from <= to /\ to <= Len(s)
        /\ to - from + 1 = IF w * k < Len(s) THEN w ELSE Len(s) - done
        /\ \A j \in Int : from + j - 1 = done + j
    <2> DEFINE stop == w * k
    <2>1. stop = done + w
      BY <1>2
    <2> HIDE DEF stop
    <2>2. /\ from \in Int /\ (IF stop < Len(s) THEN stop ELSE Len(s)) \in Int
          /\ from >= 1 /\ from <= (IF stop < Len(s) THEN stop ELSE Len(s))
          /\ (IF stop < Len(s) THEN stop ELSE Len(s)) <= Len(s)
          /\ (IF stop < Len(s) THEN stop ELSE Len(s)) - from + 1
                = IF stop < Len(s) THEN w ELSE Len(s) - done
          /\ \A j \in Int : from + j - 1 = done + j
      BY <1>1, <1>2, <2>1
    <2> QED BY <2>2, Zenon DEF stop
  <1> HIDE DEF from, to
  <1>5. \A i \in from..to : s[i] \in S
    BY <1>1, <1>4
  <1>6. /\ Group(s, w, k) \in Seq(S)
        /\ Len(Group(s, w, k)) = to - from + 1
        /\ \A j \in 1..(to - from + 1) : Group(s, w, k)[j] = s[from + j - 1]
    <2>1. from \in Int /\ to \in Int /\ from <= to
      BY <1>4
    <2> QED BY <1>3, <1>5, <2>1, SubSeqProperties
  <1>7. Len(Group(s, w, k)) = IF w * k < Len(s) THEN w ELSE Len(s) - done
    BY <1>4, <1>6, Zenon
  <1>8. ASSUME NEW j \in 1..Len(Group(s, w, k)) PROVE Group(s, w, k)[j] = s[done + j]
    <2>1. j \in 1..(to - from + 1) /\ j \in Int
      BY <1>6
    <2> QED BY <1>4, <1>6, <2>1, Zenon
  <1> QED
    BY <1>6, <1>7, <1>8, Zenon DEF done

(* A group of three bytes or fewer is four characters, padded where a byte *)
(* is missing, and decoding gives its bytes back.                          *)
LEMMA GroupBack ==
    ASSUME NEW g \in Seq(Bytes), Len(g) \in 1..3
    PROVE  /\ EncodeGroup(g)[3] = Pad <=> Len(g) = 1
           /\ EncodeGroup(g)[4] = Pad <=> Len(g) <= 2
           /\ \A j \in 1..Len(g) : DecodeGroup(EncodeGroup(g))[j] = g[j]
  <1>0. Len(g) = 1 \/ Len(g) = 2 \/ Len(g) = 3
    OBVIOUS
  <1> DEFINE b(k) == IF k <= Len(g) THEN g[k] ELSE 0
             x == b(1)
             y == b(2)
             z == b(3)
             c1 == x \div 4
             c2 == (x % 4) * 16 + (y \div 16)
             c3 == (y % 16) * 4 + (z \div 64)
             c4 == z % 64
             e3 == IF Len(g) > 1 THEN c3 ELSE Pad
             e4 == IF Len(g) > 2 THEN c4 ELSE Pad
  <1>1. Len(g) \in Nat /\ \A k \in 1..Len(g) : g[k] \in Bytes
    OBVIOUS
  <1>2. /\ x \in Nat /\ y \in Nat /\ z \in Nat /\ x <= 255 /\ y <= 255 /\ z <= 255
        /\ x = g[1] /\ (Len(g) >= 2 => y = g[2]) /\ (Len(g) >= 3 => z = g[3])
        /\ (Len(g) < 2 => y = 0) /\ (Len(g) < 3 => z = 0)
    BY <1>1, BytesAreNumbers
  <1>3. EncodeGroup(g) = <<c1, c2, e3, e4>>
    BY Zenon DEF EncodeGroup
  <1> HIDE DEF x, y, z
  <1>4. /\ c1 \in Nat /\ c2 \in Nat /\ c3 \in Nat /\ c4 \in Nat
        /\ c1 < 64 /\ c2 < 64 /\ c3 < 64 /\ c4 < 64
        /\ c1 * 4 + (c2 \div 16) = x
        /\ (c2 % 16) * 16 + (c3 \div 4) = y
        /\ (c3 % 4) * 64 + c4 = z
    <2>1. x \in Nat /\ y \in Nat /\ z \in Nat /\ x <= 255 /\ y <= 255 /\ z <= 255
      BY <1>2
    <2> QED BY <2>1, SMT
  <1>5. /\ Len(g) < 2 => c3 = 0
        /\ Len(g) < 3 => c4 = 0
    BY <1>2
  <1> HIDE DEF c1, c2, c3, c4
  <1>6. /\ EncodeGroup(g)[1] = c1 /\ EncodeGroup(g)[2] = c2
        /\ EncodeGroup(g)[3] = e3 /\ EncodeGroup(g)[4] = e4
    BY <1>3
  <1>7. /\ e3 = Pad <=> Len(g) = 1
        /\ e4 = Pad <=> Len(g) <= 2
        /\ (IF c1 = Pad THEN 0 ELSE c1) = c1 /\ (IF c2 = Pad THEN 0 ELSE c2) = c2
        /\ (IF e3 = Pad THEN 0 ELSE e3) = c3 /\ (IF e4 = Pad THEN 0 ELSE e4) = c4
    <2>1. c1 # Pad /\ c2 # Pad /\ c3 # Pad /\ c4 # Pad /\ Pad # 0
      BY <1>4, SMT DEF Pad
    <2>2. CASE Len(g) = 1
      BY <1>5, <2>1, <2>2
    <2>3. CASE Len(g) = 2
      BY <1>5, <2>1, <2>3
    <2>4. CASE Len(g) = 3
      BY <2>1, <2>4
    <2> HIDE DEF e3, e4
    <2> QED BY <1>0, <2>2, <2>3, <2>4, Zenon
  <1>8. DecodeGroup(EncodeGroup(g)) =
            <<c1 * 4 + (c2 \div 16), (c2 % 16) * 16 + (c3 \div 4), (c3 % 4) * 64 + c4>>
    BY <1>6, <1>7, Zenon DEF DecodeGroup
  <1>9. DecodeGroup(EncodeGroup(g)) = <<x, y, z>>
    BY <1>4, <1>8, Zenon
  <1>10. ASSUME NEW j \in 1..Len(g) PROVE <<x, y, z>>[j] = g[j]
    <2>1. j = 1 \/ (j = 2 /\ Len(g) >= 2) \/ (j = 3 /\ Len(g) >= 3)
      BY <1>1
    <2> QED BY <1>2, <2>1
  <1> QED
    BY <1>6, <1>7, <1>9, <1>10, Zenon

(* Three bytes of the data to each group, but for the last.                *)
LEMMA GroupsOfData ==
    ASSUME NEW bin \in Seq(Bytes)
    PROVE  /\ Groups(bin) \in Nat /\ Len(bin) \in Nat
           /\ Len(bin) <= 3 * Groups(bin)
           /\ \A k \in 1..Groups(bin) :
                  /\ 3 * (k - 1) < Len(bin)
                  /\ k < Groups(bin) => 3 * k < Len(bin)
                  /\ k = Groups(bin) => ~(3 * k < Len(bin))
  BY SMT DEF Groups

LEMMA DataGroup ==
    ASSUME NEW bin \in Seq(Bytes), NEW k \in 1..Groups(bin)
    PROVE  /\ Group(bin, 3, k) \in Seq(Bytes)
           /\ Len(Group(bin, 3, k)) \in 1..3
           /\ Len(Group(bin, 3, k)) = IF k < Groups(bin) THEN 3 ELSE Len(bin) - 3 * (k - 1)
           /\ \A j \in 1..Len(Group(bin, 3, k)) : Group(bin, 3, k)[j] = bin[3 * (k - 1) + j]
  <1>1. /\ Groups(bin) \in Nat /\ Len(bin) \in Nat /\ k \in Nat /\ k >= 1 /\ k <= Groups(bin)
        /\ 3 * (k - 1) < Len(bin) /\ Len(bin) <= 3 * Groups(bin)
        /\ k < Groups(bin) => 3 * k < Len(bin)
        /\ k = Groups(bin) => ~(3 * k < Len(bin))
    BY GroupsOfData
  <1>2. /\ Group(bin, 3, k) \in Seq(Bytes)
        /\ Len(Group(bin, 3, k)) = IF 3 * k < Len(bin) THEN 3 ELSE Len(bin) - 3 * (k - 1)
        /\ \A j \in 1..Len(Group(bin, 3, k)) : Group(bin, 3, k)[j] = bin[3 * (k - 1) + j]
    BY <1>1, GroupElements
  <1>3. Len(Group(bin, 3, k)) = IF k < Groups(bin) THEN 3 ELSE Len(bin) - 3 * (k - 1)
    BY <1>1, <1>2
  <1>4. Len(Group(bin, 3, k)) \in 1..3
    <2> DEFINE len == Len(Group(bin, 3, k))
               whole == 3 * k
    <2>1. len = IF whole < Len(bin) THEN 3 ELSE Len(bin) - (whole - 3)
      BY <1>1, <1>2
    <2>2. whole \in Nat /\ whole - 3 < Len(bin)
      BY <1>1
    <2> HIDE DEF len, whole
    <2>3. len \in 1..3
      BY <1>1, <2>1, <2>2
    <2> QED BY <2>3, Zenon DEF len
  <1> QED BY <1>2, <1>3, <1>4

(* Four characters of the text to each group.                              *)
LEMMA TextOfData ==
    ASSUME NEW bin \in Seq(Bytes)
    PROVE  /\ DOMAIN Encoded(bin) = 1..4 * Groups(bin)
           /\ \A k \in 1..Groups(bin), j \in 1..4 :
                  Encoded(bin)[4 * (k - 1) + j] = EncodeGroup(Group(bin, 3, k))[j]
  <1>1. Groups(bin) \in Nat
    BY GroupsOfData
  <1>2. ASSUME NEW k \in 1..Groups(bin), NEW j \in 1..4
        PROVE  Encoded(bin)[4 * (k - 1) + j] = EncodeGroup(Group(bin, 3, k))[j]
    <2> DEFINE i == 4 * (k - 1) + j
    <2>1. i \in 1..4 * Groups(bin) /\ (i + 3) \div 4 = k /\ ((i - 1) % 4) + 1 = j
      BY <1>1
    <2> HIDE DEF i
    <2>2. Encoded(bin)[i] = EncodeGroup(Group(bin, 3, (i + 3) \div 4))[((i - 1) % 4) + 1]
      BY <2>1 DEF Encoded
    <2> QED BY <2>1, <2>2, Zenon DEF i
  <1> QED BY <1>2 DEF Encoded

(* DecodeGroup looks at four characters. *)
LEMMA SameCharacters ==
    ASSUME NEW g, NEW h, \A j \in 1..4 : g[j] = h[j]
    PROVE  DecodeGroup(g) = DecodeGroup(h)
  <1>1. g[1] = h[1] /\ g[2] = h[2] /\ g[3] = h[3] /\ g[4] = h[4]
    OBVIOUS
  <1> QED BY <1>1, Zenon DEF DecodeGroup

(* What BIO_read makes of a text of which n characters are left: the bytes *)
(* of its whole groups, which are at most what maxlen has room for.        *)
Left(bin, n) == SubSeq(Encoded(bin), 1, n)

Whole(bin, n) == IF 3 * (n \div 4) < Len(bin) THEN 3 * (n \div 4) ELSE Len(bin)

LEMMA LeftText ==
    ASSUME NEW bin \in Seq(Bytes), NEW n \in 0..4 * Groups(bin)
    PROVE  /\ Left(bin, n) = [i \in 1..n |-> Encoded(bin)[i]]
           /\ Len(Left(bin, n)) = n
           /\ n \in Nat /\ n \div 4 \in 0..Groups(bin)
  <1>1. Groups(bin) \in Nat
    BY GroupsOfData
  <1>2. n \in Nat /\ n \div 4 \in 0..Groups(bin)
    BY <1>1
  <1>3. Left(bin, n) = [i \in 1..n |-> Encoded(bin)[i]]
    BY <1>2 DEF Left
  <1> QED BY <1>2, <1>3

LEMMA LeftGroup ==
    ASSUME NEW bin \in Seq(Bytes), NEW n \in 0..4 * Groups(bin), NEW k \in 1..(n \div 4)
    PROVE  \A j \in 1..4 : /\ 4 * (k - 1) + j \in 1..n
                           /\ Left(bin, n)[4 * (k - 1) + j] = EncodeGroup(Group(bin, 3, k))[j]
                           /\ Group(Left(bin, n), 4, k)[j] = EncodeGroup(Group(bin, 3, k))[j]
  <1> DEFINE t == Left(bin, n)
  <1>1. /\ t = [i \in 1..n |-> Encoded(bin)[i]] /\ Len(t) = n
        /\ n \in Nat /\ n \div 4 \in 0..Groups(bin) /\ Groups(bin) \in Nat
    BY LeftText, GroupsOfData
  <1> HIDE DEF t
  <1>2. k \in 1..Groups(bin) /\ k \in Nat /\ k >= 1 /\ 4 * k <= n /\ 4 * (k - 1) < n
    BY <1>1
  <1>3. ASSUME NEW j \in 1..4
        PROVE  /\ 4 * (k - 1) + j \in 1..n
               /\ t[4 * (k - 1) + j] = EncodeGroup(Group(bin, 3, k))[j]
    <2>1. 4 * (k - 1) + j \in 1..n
      BY <1>1, <1>2
    <2>2. Encoded(bin)[4 * (k - 1) + j] = EncodeGroup(Group(bin, 3, k))[j]
      BY <1>2, TextOfData
    <2>3. t[4 * (k - 1) + j] = Encoded(bin)[4 * (k - 1) + j]
      BY <1>1, <2>1
    <2> QED BY <2>1, <2>2, <2>3
  <1> DEFINE S == {t[i] : i \in 1..n}
  <1>4. t \in Seq(S)
    BY <1>1
  <1> HIDE DEF S
  <1>5. /\ Len(Group(t, 4, k)) = IF 4 * k < n THEN 4 ELSE n - 4 * (k - 1)
        /\ \A j \in 1..Len(Group(t, 4, k)) : Group(t, 4, k)[j] = t[4 * (k - 1) + j]
    <2>1. 4 * (k - 1) < Len(t) /\ 4 \in {3, 4}
      BY <1>1, <1>2
    <2> QED BY <1>1, <1>2, <1>4, <2>1, GroupElements, Zenon
  <1>6. Len(Group(t, 4, k)) = 4
    <2>1. ~(4 * k < n) => n - 4 * (k - 1) = 4
      BY <1>1, <1>2
    <2> QED BY <1>5, <2>1, Zenon
  <1> QED BY <1>3, <1>5, <1>6, Zenon DEF t

LEMMA LeftPadding ==
    ASSUME NEW bin \in Seq(Bytes), NEW n \in 0..4 * Groups(bin)
    PROVE  3 * (n \div 4) - Padding(Left(bin, n), n \div 4) = Whole(bin, n)
  <1> DEFINE k == n \div 4
             t == Left(bin, n)
  <1>1. /\ n \in Nat /\ k \in Nat /\ k <= Groups(bin) /\ Groups(bin) \in Nat /\ Len(bin) \in Nat
    BY LeftText, GroupsOfData
  <1>2. CASE k = 0
    BY <1>1, <1>2 DEF Padding, Whole
  <1>3. CASE k # 0
    <2> DEFINE len == Len(Group(bin, 3, k))
    <2>1. k \in 1..k /\ k \in 1..Groups(bin)
      BY <1>1, <1>3
    <2>2. /\ Group(bin, 3, k) \in Seq(Bytes) /\ len \in 1..3
          /\ len = IF k < Groups(bin) THEN 3 ELSE Len(bin) - 3 * (k - 1)
      BY <2>1, DataGroup, Zenon
    <2>3. /\ t[4 * (k - 1) + 3] = EncodeGroup(Group(bin, 3, k))[3]
          /\ t[4 * (k - 1) + 4] = EncodeGroup(Group(bin, 3, k))[4]
      <3>1. 3 \in 1..4 /\ 4 \in 1..4
        OBVIOUS
      <3> QED BY <2>1, <3>1, LeftGroup, Zenon
    <2>4. /\ EncodeGroup(Group(bin, 3, k))[3] = Pad <=> len = 1
          /\ EncodeGroup(Group(bin, 3, k))[4] = Pad <=> len <= 2
      BY <2>2, GroupBack, Zenon
    <2>5. /\ k < Groups(bin) => 3 * k < Len(bin)
          /\ k = Groups(bin) => ~(3 * k < Len(bin))
      BY <2>1, GroupsOfData
    <2> HIDE DEF k, t, len
    <2>6. 4 * (k - 1) + 3 = 4 * k - 1 /\ 4 * (k - 1) + 4 = 4 * k
      BY <1>1
    <2>7. Padding(t, k) = IF len = 1 THEN 2 ELSE IF len <= 2 THEN 1 ELSE 0
      BY <1>3, <2>3, <2>4, <2>6, Zenon DEF Padding
    <2>8. Padding(t, k) = 3 - len
      BY <2>2, <2>7
    <2>9. 3 * k - (3 - len) = IF 3 * k < Len(bin) THEN 3 * k ELSE Len(bin)
      <3>1. CASE k < Groups(bin)
        BY <1>1, <2>2, <2>5, <3>1
      <3>2. CASE k = Groups(bin)
        <4>1. len = Len(bin) - 3 * (k - 1) /\ ~(3 * k < Len(bin))
          BY <1>1, <2>2, <2>5, <3>2
        <4> QED BY <1>1, <4>1
      <3> QED BY <1>1, <3>1, <3>2
    <2> QED BY <2>8, <2>9, Zenon DEF Whole, k, t
  <1> QED BY <1>2, <1>3

LEMMA ReadBack ==
    ASSUME NEW bin \in Seq(Bytes), NEW n \in 0..4 * Groups(bin)
    PROVE  BIO_read(Left(bin, n), maxlen(Left(bin, n))) = SubSeq(bin, 1, Whole(bin, n))
  <1> DEFINE t == Left(bin, n)
             k == n \div 4
             w == Whole(bin, n)
             byte(i) == DecodeGroup(Group(t, 4, (i + 2) \div 3))[((i - 1) % 3) + 1]
  <1>1. /\ Len(t) = n /\ n \in Nat /\ k \in Nat /\ k <= Groups(bin)
        /\ Groups(bin) \in Nat /\ Len(bin) \in Nat /\ Len(bin) <= 3 * Groups(bin)
    BY LeftText, GroupsOfData
  <1>2. /\ w \in Nat /\ w <= Len(bin) /\ w <= 3 * k
    BY <1>1 DEF Whole
  <1>3. maxlen(t) = k * 3 + 1
    BY <1>1, Zenon DEF maxlen
  <1>4. 3 * k - Padding(t, k) = w
    BY LeftPadding, Zenon
  <1>5. BIO_read(t, maxlen(t)) = [i \in 1..(IF maxlen(t) < w THEN maxlen(t) ELSE w) |-> byte(i)]
    BY <1>1, <1>4, Zenon DEF BIO_read
  <1> HIDE DEF t, k, w, byte
  <1>6. ~(maxlen(t) < w)
    BY <1>1, <1>2, <1>3
  <1>7. BIO_read(t, maxlen(t)) = [i \in 1..w |-> byte(i)]
    BY <1>5, <1>6, Zenon
  <1>8. ASSUME NEW i \in 1..w PROVE byte(i) = bin[i]
    <2> DEFINE m == (i + 2) \div 3
               j == ((i - 1) % 3) + 1
    <2>1. i \in Nat /\ i >= 1 /\ i <= Len(bin) /\ i <= 3 * k
      BY <1>1, <1>2
    <2>2. /\ m \in 1..k /\ j \in 1..3 /\ i = 3 * (m - 1) + j /\ m \in Nat /\ j \in Nat
      BY <1>1, <2>1
    <2> HIDE DEF m, j
    <2>3. m \in 1..Groups(bin)
      BY <1>1, <2>2
    <2> DEFINE g == Group(bin, 3, m)
    <2>4. /\ g \in Seq(Bytes) /\ Len(g) \in 1..3
          /\ Len(g) = IF m < Groups(bin) THEN 3 ELSE Len(bin) - 3 * (m - 1)
          /\ \A l \in 1..Len(g) : g[l] = bin[3 * (m - 1) + l]
      BY <2>3, DataGroup, Zenon
    <2>5. DecodeGroup(Group(t, 4, m)) = DecodeGroup(EncodeGroup(g))
      <3>1. m \in 1..(n \div 4)
        BY <2>2, Zenon DEF k
      <3>2. \A l \in 1..4 : Group(t, 4, m)[l] = EncodeGroup(g)[l]
        BY <3>1, LeftGroup, Zenon DEF t
      <3> QED BY <3>2, SameCharacters, Zenon
    <2> HIDE DEF g
    <2>6. j \in 1..Len(g)
      BY <1>1, <2>1, <2>2, <2>3, <2>4
    <2>7. DecodeGroup(EncodeGroup(g))[j] = g[j]
      BY <2>4, <2>6, GroupBack, Zenon
    <2>8. byte(i) = DecodeGroup(Group(t, 4, m))[j]
      BY Zenon DEF byte, m, j
    <2> QED BY <2>2, <2>4, <2>5, <2>6, <2>7, <2>8, Zenon
  <1>9. SubSeq(bin, 1, w) = [i \in 1..w |-> bin[i]]
    BY <1>1, <1>2
  <1>10. [i \in 1..w |-> byte(i)] = [i \in 1..w |-> bin[i]]
    BY <1>8, Zenon
  <1> QED BY <1>7, <1>9, <1>10, Zenon DEF t, w

(* The invariant: the text is the first characters of the data's, all of   *)
(* them unless it was cut short, and what was decoded is what BIO_read     *)
(* makes of it.                                                            *)
TextLeft == \E n \in 0..4 * Groups(binary) :
    /\ encoded = Left(binary, n)
    /\ cutShort <=> n < 4 * Groups(binary)

Base64Inv ==
    /\ coding \in {"idle", "encoded", "decoded"}
    /\ binary \in Seq(Bytes)
    /\ coding # "idle" => TextLeft
    /\ coding = "decoded" => decoded = BIO_read(encoded, maxlen(encoded))

LEMMA InitBase64Inv == Base64Init => Base64Inv
  BY DEF Base64Init, Base64Inv

LEMMA EncodeBase64Inv ==
    ASSUME Base64Inv, base64_encode
    PROVE  Base64Inv'
  <1>0. PICK bin \in BoundedSeq(Bytes, MaxBinary) : \E groups \in 0..Groups(bin) :
            /\ binary' = bin
            /\ encoded' = SubSeq(Encoded(bin), 1, 4 * groups)
            /\ cutShort' = (4 * groups < Len(Encoded(bin)))
            /\ coding' = "encoded"
    BY Zenon DEF base64_encode
  <1>1. PICK groups \in 0..Groups(bin) :
            /\ binary' = bin
            /\ encoded' = SubSeq(Encoded(bin), 1, 4 * groups)
            /\ cutShort' = (4 * groups < Len(Encoded(bin)))
            /\ coding' = "encoded"
    BY <1>0, Zenon
  <1>2. bin \in Seq(Bytes)
    BY SeqDef, Base64Assumption DEF BoundedSeq, SeqOf
  <1>3. Groups(bin) \in Nat
    BY <1>2, GroupsOfData
  <1>4. Len(Encoded(bin)) = 4 * Groups(bin)
    BY <1>2, <1>3, TextOfData DEF Encoded
  <1>5. 4 * groups \in 0..4 * Groups(bin)
    BY <1>3
  <1>6. TextLeft'
    BY <1>1, <1>4, <1>5, Zenon DEF TextLeft, Left
  <1> QED BY <1>1, <1>2, <1>6 DEF Base64Inv

LEMMA CutBase64Inv ==
    ASSUME Base64Inv, PeerCuts
    PROVE  Base64Inv'
  <1>1. PICK gone \in 1..3 :
            /\ coding = "encoded" /\ gone <= Len(encoded)
            /\ encoded' = SubSeq(encoded, 1, Len(encoded) - gone)
            /\ cutShort' = TRUE /\ coding' = coding /\ binary' = binary
    BY DEF PeerCuts
  <1>2. PICK n \in 0..4 * Groups(binary) : encoded = Left(binary, n)
    BY <1>1, Zenon DEF Base64Inv, TextLeft
  <1>3. binary \in Seq(Bytes) /\ Groups(binary) \in Nat
    BY GroupsOfData DEF Base64Inv
  <1>4. encoded = [i \in 1..n |-> Encoded(binary)[i]] /\ Len(encoded) = n
    BY <1>2, <1>3, LeftText
  <1> DEFINE m == n - gone
  <1>5. m \in 0..4 * Groups(binary) /\ m < 4 * Groups(binary) /\ m \in Nat /\ m <= n
    BY <1>1, <1>3, <1>4
  <1> HIDE DEF m
  <1>6. encoded' = SubSeq(encoded, 1, m)
    BY <1>1, <1>4, Zenon DEF m
  <1>7. SubSeq(encoded, 1, m) = [i \in 1..m |-> Encoded(binary)[i]]
    BY <1>4, <1>5
  <1>8. Left(binary, m) = [i \in 1..m |-> Encoded(binary)[i]]
    BY <1>3, <1>5, LeftText
  <1>9. encoded' = Left(binary', m) /\ m \in 0..4 * Groups(binary')
        /\ (cutShort' <=> m < 4 * Groups(binary'))
    BY <1>1, <1>5, <1>6, <1>7, <1>8, Zenon
  <1>10. TextLeft'
    BY <1>9, Zenon DEF TextLeft
  <1> QED BY <1>1, <1>3, <1>10 DEF Base64Inv

LEMMA NextBase64Inv ==
    ASSUME Base64Inv, [Base64Next]_base64Vars
    PROVE  Base64Inv'
  <1>1. CASE base64_decode
    <2>1. /\ coding = "encoded" /\ coding' = "decoded"
          /\ decoded' = BIO_read(encoded, maxlen(encoded))
          /\ binary' = binary /\ encoded' = encoded /\ cutShort' = cutShort
      BY <1>1 DEF base64_decode
    <2>2. TextLeft'
      BY <2>1 DEF Base64Inv, TextLeft
    <2> QED BY <2>1, <2>2 DEF Base64Inv
  <1>2. CASE UNCHANGED base64Vars
    BY <1>2 DEF base64Vars, Base64Inv, TextLeft
  <1> QED
    BY <1>1, <1>2, EncodeBase64Inv, CutBase64Inv DEF Base64Next

LEMMA InvWholeGroups == Base64Inv => WholeGroupsComeBack /\ DecodeUndoesEncode
  <1> SUFFICES ASSUME Base64Inv, coding = "decoded"
               PROVE  WholeGroupsComeBack /\ DecodeUndoesEncode
    BY DEF WholeGroupsComeBack, DecodeUndoesEncode
  <1>1. binary \in Seq(Bytes) /\ decoded = BIO_read(encoded, maxlen(encoded))
    BY DEF Base64Inv
  <1>2. PICK n \in 0..4 * Groups(binary) :
            encoded = Left(binary, n) /\ (cutShort <=> n < 4 * Groups(binary))
    BY Zenon DEF Base64Inv, TextLeft
  <1>3. decoded = SubSeq(binary, 1, Whole(binary, n))
    BY <1>1, <1>2, ReadBack
  <1>4. /\ Len(encoded) = n /\ n \in Nat /\ Groups(binary) \in Nat /\ Len(binary) \in Nat
        /\ Len(binary) <= 3 * Groups(binary)
    BY <1>1, <1>2, LeftText, GroupsOfData
  <1> DEFINE g == n \div 4
             got == IF 3 * g < Len(binary) THEN 3 * g ELSE Len(binary)
  <1>5. Whole(binary, n) = got
    BY Zenon DEF Whole
  <1>6. g \in Nat /\ (n < 4 * Groups(binary) <=> g < Groups(binary)) /\ g <= Groups(binary)
    BY <1>4
  <1> HIDE DEF g
  <1>7. g < Groups(binary) => 3 * g < Len(binary)
    <2> SUFFICES ASSUME g < Groups(binary) PROVE 3 * g < Len(binary)
      OBVIOUS
    <2>1. CASE g = 0
      <3>1. 1 \in 1..Groups(binary) /\ 3 * (1 - 1) < Len(binary)
        BY <1>1, <1>4, <1>6, <2>1, GroupsOfData
      <3> QED BY <2>1, <3>1
    <2>2. CASE g # 0
      <3>1. g \in 1..Groups(binary)
        BY <1>4, <1>6, <2>2
      <3> QED BY <1>1, <3>1, GroupsOfData
    <2> QED BY <2>1, <2>2
  <1>8. Len(SubSeq(binary, 1, got)) = got /\ got = IF g * 3 < Len(binary) THEN g * 3 ELSE Len(binary)
    BY <1>1, <1>4, <1>6
  <1>9. cutShort => Len(decoded) < Len(binary)
    BY <1>2, <1>3, <1>4, <1>5, <1>6, <1>7, <1>8
  <1>10. ~cutShort => decoded = binary
    <2> SUFFICES ASSUME ~cutShort PROVE decoded = binary
      OBVIOUS
    <2>1. g = Groups(binary)
      BY <1>2, <1>4, <1>6
    <2>2. got = Len(binary)
      BY <1>4, <2>1
    <2> QED BY <1>1, <1>3, <1>5, <2>2, SubSeqFull
  <1>11. DecodeUndoesEncode
    BY <1>10 DEF DecodeUndoesEncode
  <1>12. WholeGroupsComeBack
    BY <1>3, <1>4, <1>5, <1>8, <1>9, Zenon DEF WholeGroupsComeBack, g
  <1> QED BY <1>11, <1>12

(* Whatever the bytes are and however many, and whatever padding they take,*)
(* base64_decode gives back what base64_encode was given: maxlen has room  *)
(* for all of it.                                                          *)
THEOREM DecodedAsEncoded == Base64Spec => []DecodeUndoesEncode
  BY InitBase64Inv, NextBase64Inv, InvWholeGroups, PTL DEF Base64Spec

(* Wherever a text was cut - by the memory it was written to, or on its    *)
(* way -, the bytes of the groups that are left come back, no other byte   *)
(* and nothing of a padding that is gone.                                  *)
THEOREM CutTextDecoded == Base64Spec => []WholeGroupsComeBack
  BY InitBase64Inv, NextBase64Inv, InvWholeGroups, PTL DEF Base64Spec

(***************************************************************************)
(* The curl debug logger.                                                  *)
(***************************************************************************)
(* Of the first n of the pieces ps, those that are printed.                *)
PrintedOf(ps, n) == {k \in 1..n : ps[k].type \in Printed}

(* ls are the lines of the first n of the pieces ps. *)
LoggedAs(ps, ls, n) ==
    /\ Len(ls) = Cardinality(PrintedOf(ps, n))
    /\ \A k \in PrintedOf(ps, n) : IsTrimmed(ls[Cardinality(PrintedOf(ps, k))], ps[k].data)

LEMMA LinesByLogged == LinesAreThePieces <=> LoggedAs(pieces, lines, Done)
  BY Zenon DEF LinesAreThePieces, LoggedAs, PrintedUpTo, PrintedOf

LEMMA PrintedCount ==
    ASSUME NEW ps, NEW n \in Nat
    PROVE  /\ Cardinality(PrintedOf(ps, n)) \in Nat
           /\ \A k \in PrintedOf(ps, n) :
                  Cardinality(PrintedOf(ps, k)) \in 1..Cardinality(PrintedOf(ps, n))
  <1>1. ASSUME NEW m \in Nat
        PROVE  IsFiniteSet(PrintedOf(ps, m)) /\ Cardinality(PrintedOf(ps, m)) \in Nat
    <2>1. IsFiniteSet(1..m)
      BY FS_Interval
    <2>2. PrintedOf(ps, m) \in SUBSET (1..m)
      BY DEF PrintedOf
    <2>3. IsFiniteSet(PrintedOf(ps, m))
      BY <2>1, <2>2, FS_Subset
    <2> QED BY <2>3, FS_CardinalityType
  <1>2. ASSUME NEW k \in PrintedOf(ps, n)
        PROVE  Cardinality(PrintedOf(ps, k)) \in 1..Cardinality(PrintedOf(ps, n))
    <2>1. k \in Nat /\ k >= 1 /\ k <= n /\ k \in PrintedOf(ps, k)
      BY DEF PrintedOf
    <2>2. PrintedOf(ps, k) \in SUBSET PrintedOf(ps, n)
      BY <2>1 DEF PrintedOf
    <2>3. Cardinality(PrintedOf(ps, k)) <= Cardinality(PrintedOf(ps, n))
      BY <1>1, <2>2, FS_Subset
    <2>4. Cardinality(PrintedOf(ps, k)) # 0
      BY <1>1, <2>1, FS_EmptySet
    <2> QED BY <1>1, <2>1, <2>3, <2>4
  <1> QED BY <1>1, <1>2

(* One more piece is counted if it is printed. *)
LEMMA OneMorePrinted ==
    ASSUME NEW ps, NEW n \in Nat
    PROVE  /\ ps[n + 1].type \in Printed =>
                  /\ PrintedOf(ps, n + 1) = PrintedOf(ps, n) \cup {n + 1}
                  /\ Cardinality(PrintedOf(ps, n + 1)) = Cardinality(PrintedOf(ps, n)) + 1
           /\ ps[n + 1].type \notin Printed => PrintedOf(ps, n + 1) = PrintedOf(ps, n)
  <1>1. \A k : k \in 1..(n + 1) <=> (k \in 1..n \/ k = n + 1)
    OBVIOUS
  <1>2. ps[n + 1].type \notin Printed => PrintedOf(ps, n + 1) = PrintedOf(ps, n)
    BY <1>1, Zenon DEF PrintedOf
  <1>3. ASSUME ps[n + 1].type \in Printed
        PROVE  PrintedOf(ps, n + 1) = PrintedOf(ps, n) \cup {n + 1}
    BY <1>1, <1>3 DEF PrintedOf
  <1>4. IsFiniteSet(PrintedOf(ps, n)) /\ n + 1 \notin PrintedOf(ps, n)
    <2>1. IsFiniteSet(1..n) /\ PrintedOf(ps, n) \in SUBSET (1..n)
      BY FS_Interval DEF PrintedOf
    <2> QED BY <2>1, FS_Subset
  <1>5. Cardinality(PrintedOf(ps, n) \cup {n + 1}) = Cardinality(PrintedOf(ps, n)) + 1
    BY <1>4, FS_AddElement
  <1> QED BY <1>2, <1>3, <1>5

LEMMA PassedOver ==
    ASSUME NEW ps, NEW ls, NEW n \in Nat, LoggedAs(ps, ls, n), ps[n + 1].type \notin Printed
    PROVE  LoggedAs(ps, ls, n + 1)
  BY OneMorePrinted DEF LoggedAs

LEMMA LineWritten ==
    ASSUME NEW S, NEW ps, NEW ls \in Seq(S), NEW n \in Nat, LoggedAs(ps, ls, n),
           ps[n + 1].type \in Printed, NEW line \in S, IsTrimmed(line, ps[n + 1].data)
    PROVE  LoggedAs(ps, Append(ls, line), n + 1)
  <1> DEFINE new == Append(ls, line)
  <1>1. /\ new \in Seq(S) /\ Len(new) = Len(ls) + 1 /\ Len(ls) \in Nat
        /\ \A i \in 1..Len(ls) : new[i] = ls[i]
        /\ new[Len(ls) + 1] = line
    BY AppendProperties
  <1> HIDE DEF new
  <1>2. /\ PrintedOf(ps, n + 1) = PrintedOf(ps, n) \cup {n + 1}
        /\ Cardinality(PrintedOf(ps, n + 1)) = Cardinality(PrintedOf(ps, n)) + 1
        /\ Len(ls) = Cardinality(PrintedOf(ps, n))
    BY OneMorePrinted DEF LoggedAs
  <1>3. ASSUME NEW k \in PrintedOf(ps, n)
        PROVE  IsTrimmed(new[Cardinality(PrintedOf(ps, k))], ps[k].data)
    <2>1. Cardinality(PrintedOf(ps, k)) \in 1..Len(ls)
      BY <1>2, PrintedCount
    <2>2. new[Cardinality(PrintedOf(ps, k))] = ls[Cardinality(PrintedOf(ps, k))]
      BY <1>1, <2>1
    <2> QED BY <2>2, Zenon DEF LoggedAs
  <1>4. IsTrimmed(new[Cardinality(PrintedOf(ps, n + 1))], ps[n + 1].data)
    BY <1>1, <1>2, Zenon
  <1>5. Len(new) = Cardinality(PrintedOf(ps, n + 1))
    BY <1>1, <1>2
  <1> QED BY <1>2, <1>3, <1>4, <1>5, Zenon DEF LoggedAs, new

LEMMA PieceAdded ==
    ASSUME NEW S, NEW ps \in Seq(S), NEW p \in S, NEW ls, LoggedAs(ps, ls, Len(ps))
    PROVE  LoggedAs(Append(ps, p), ls, Len(ps))
  <1> DEFINE new == Append(ps, p)
  <1>1. Len(ps) \in Nat /\ \A i \in 1..Len(ps) : new[i] = ps[i]
    BY AppendProperties
  <1> HIDE DEF new
  <1>2. \A n \in 0..Len(ps) : PrintedOf(new, n) = PrintedOf(ps, n)
    BY <1>1 DEF PrintedOf
  <1>3. \A k \in PrintedOf(ps, Len(ps)) : k \in 1..Len(ps) /\ k \in 0..Len(ps)
    BY DEF PrintedOf
  <1>4. PrintedOf(new, Len(ps)) = PrintedOf(ps, Len(ps))
    BY <1>1, <1>2
  <1>5. ASSUME NEW k \in PrintedOf(ps, Len(ps))
        PROVE  PrintedOf(new, k) = PrintedOf(ps, k) /\ new[k] = ps[k]
    BY <1>1, <1>2, <1>3
  <1> QED BY <1>4, <1>5, Zenon DEF LoggedAs, new

(* While log runs, what it has taken off its piece are newlines.           *)
PieceType == [type : Infotype, data : Seq(Byte)]

OnlyNewlinesOff ==
    /\ pieces # <<>>
    /\ size \in 0..Len(Piece.data)
    /\ \A k \in (size + 1)..Len(Piece.data) : Piece.data[k] = Newline

LoggerInv ==
    /\ logging \in BOOLEAN
    /\ pieces \in Seq(PieceType)
    /\ \A k \in 1..Len(pieces) : Len(pieces[k].data) <= MaxPiece
    /\ lines \in Seq(Seq(Byte))
    /\ logging => OnlyNewlinesOff
    /\ LoggedAs(pieces, lines, Done)

LEMMA InitLoggerInv == LoggerInit => LoggerInv
  <1> SUFFICES ASSUME LoggerInit PROVE LoggerInv
    OBVIOUS
  <1>1. pieces = <<>> /\ lines = <<>> /\ logging = FALSE
    BY DEF LoggerInit
  <1>2. Done = 0
    BY <1>1 DEF Done
  <1>3. PrintedOf(pieces, 0) = {}
    BY DEF PrintedOf
  <1>4. LoggedAs(pieces, lines, Done)
    BY <1>1, <1>2, <1>3, FS_EmptySet DEF LoggedAs
  <1>5. /\ pieces \in Seq(PieceType) /\ lines \in Seq(Seq(Byte))
        /\ \A k \in 1..Len(pieces) : Len(pieces[k].data) <= MaxPiece
    BY <1>1
  <1> QED BY <1>1, <1>4, <1>5, Zenon DEF LoggerInv

LEMMA CallLoggerInv ==
    ASSUME LoggerInv, CurlCalls
    PROVE  LoggerInv'
  <1>1. PICK type \in Infotype, data \in BoundedSeq(Byte, MaxPiece) :
            /\ ~logging
            /\ pieces' = Append(pieces, [type |-> type, data |-> data])
            /\ size' = Len(data) /\ logging' = TRUE /\ lines' = lines
    BY Zenon DEF CurlCalls
  <1> DEFINE p == [type |-> type, data |-> data]
  <1>2. data \in Seq(Byte) /\ Len(data) \in Nat /\ Len(data) <= MaxPiece
    BY SeqDef, CurlLoggerAssumption DEF BoundedSeq, SeqOf
  <1>3. p \in PieceType /\ p.data = data
    BY <1>2 DEF PieceType
  <1> HIDE DEF p
  <1>4. /\ pieces' \in Seq(PieceType) /\ Len(pieces') = Len(pieces) + 1 /\ Len(pieces) \in Nat
        /\ \A k \in 1..Len(pieces) : pieces'[k] = pieces[k]
        /\ pieces'[Len(pieces) + 1] = p /\ pieces' # <<>>
    BY <1>1, <1>3, AppendProperties DEF LoggerInv, p
  <1>5. Piece' = p
    BY <1>4 DEF Piece, Last
  <1>6. ASSUME NEW k \in 1..Len(pieces') PROVE Len(pieces'[k].data) <= MaxPiece
    <2>1. k \in 1..Len(pieces) \/ k = Len(pieces) + 1
      BY <1>4
    <2> QED BY <1>2, <1>3, <1>4, <2>1 DEF LoggerInv
  <1>7. OnlyNewlinesOff'
    <2>1. size' = Len(data) /\ Piece'.data = data
      BY <1>1, <1>3, <1>5
    <2>2. size' \in 0..Len(data) /\ (size' + 1)..Len(data) = {}
      BY <1>2, <2>1
    <2> QED BY <1>4, <2>1, <2>2, Zenon DEF OnlyNewlinesOff
  <1>8. Done = Len(pieces) /\ Done' = Len(pieces)
    BY <1>1, <1>4 DEF Done
  <1>9. LoggedAs(pieces, lines, Done)'
    <2>1. LoggedAs(pieces, lines, Len(pieces)) /\ pieces \in Seq(PieceType)
      BY <1>8, Zenon DEF LoggerInv
    <2>2. LoggedAs(Append(pieces, p), lines, Len(pieces))
      BY <1>3, <2>1, PieceAdded
    <2> QED BY <1>1, <1>8, <2>2, Zenon DEF p
  <1> QED BY <1>1, <1>4, <1>6, <1>7, <1>9 DEF LoggerInv

(* The piece that is being logged.                                         *)
LEMMA PieceLogged ==
    ASSUME LoggerInv, logging
    PROVE  /\ Piece = pieces[Done + 1] /\ Piece \in PieceType /\ Piece.data \in Seq(Byte)
           /\ Done \in Nat /\ Len(pieces) = Done + 1
           /\ Len(Piece.data) \in Nat /\ Len(Piece.data) <= MaxPiece
           /\ size \in Nat /\ size <= Len(Piece.data)
           /\ \A k \in (size + 1)..Len(Piece.data) : Piece.data[k] = Newline
  <1>1. pieces \in Seq(PieceType) /\ pieces # <<>>
    BY DEF LoggerInv, OnlyNewlinesOff
  <1>2. Len(pieces) \in Nat /\ Len(pieces) >= 1
    BY <1>1
  <1>3. Done = Len(pieces) - 1
    BY DEF Done
  <1>4. Done \in Nat /\ Len(pieces) = Done + 1 /\ Len(pieces) \in 1..Len(pieces)
    BY <1>2, <1>3
  <1>5. Piece = pieces[Len(pieces)]
    BY DEF Piece, Last
  <1>6. Piece \in PieceType
    BY <1>1, <1>4, <1>5, ElementOfSeq
  <1>7. Piece.data \in Seq(Byte) /\ Len(Piece.data) \in Nat
    BY <1>6 DEF PieceType
  <1>8. Len(Piece.data) <= MaxPiece
    BY <1>4, <1>5 DEF LoggerInv
  <1>9. /\ size \in 0..Len(Piece.data)
        /\ \A k \in (size + 1)..Len(Piece.data) : Piece.data[k] = Newline
    BY DEF LoggerInv, OnlyNewlinesOff
  <1>10. size \in Nat /\ size <= Len(Piece.data)
    BY <1>7, <1>9
  <1> QED BY <1>4, <1>5, <1>6, <1>7, <1>8, <1>9, <1>10, Zenon

LEMMA BelowModulus ==
    ASSUME NEW n \in Nat, NEW m \in Nat, n < m
    PROVE  n % m = n
  BY SMT

LEMMA TrimLoggerInv ==
    ASSUME LoggerInv, TrimNewline
    PROVE  LoggerInv'
  <1>1. /\ logging /\ size > 0 /\ ByteAt(size) = Newline
        /\ size' = (size - 1) % SizeModulus
        /\ pieces' = pieces /\ logging' = logging /\ lines' = lines
    BY DEF TrimNewline, EndsInNewline
  <1>2. /\ size \in Nat /\ Len(Piece.data) \in Nat /\ size <= Len(Piece.data)
        /\ Len(Piece.data) <= MaxPiece
        /\ \A k \in (size + 1)..Len(Piece.data) : Piece.data[k] = Newline
    BY <1>1, PieceLogged
  <1>3. MaxPiece \in Nat /\ SizeModulus \in Nat /\ MaxPiece < SizeModulus
    BY CurlLoggerAssumption
  <1>4. size - 1 \in Nat /\ size - 1 < SizeModulus
    BY <1>1, <1>2, <1>3
  <1>5. size' = size - 1
    BY <1>1, <1>3, <1>4, BelowModulus
  <1>6. Piece.data[size] = Newline
    BY <1>1, <1>2 DEF ByteAt
  <1>7. ASSUME NEW k \in (size' + 1)..Len(Piece.data) PROVE Piece.data[k] = Newline
    <2>1. k = size \/ k \in (size + 1)..Len(Piece.data)
      BY <1>2, <1>5
    <2> QED BY <1>2, <1>6, <2>1
  <1>8. size' \in 0..Len(Piece.data)
    BY <1>1, <1>2, <1>5
  <1>9. Piece' = Piece /\ Done' = Done /\ pieces # <<>>
    BY <1>1 DEF Piece, Done, LoggerInv, OnlyNewlinesOff
  <1>10. OnlyNewlinesOff'
    BY <1>1, <1>7, <1>8, <1>9, Zenon DEF OnlyNewlinesOff
  <1> QED BY <1>1, <1>9, <1>10, Zenon DEF LoggerInv

LEMMA WriteLoggerInv ==
    ASSUME LoggerInv, WriteLine
    PROVE  LoggerInv'
  <1> DEFINE line == [k \in 1..size |-> ByteAt(k)]
  <1>1. /\ logging /\ Piece.type \in Printed /\ ~(ByteAt(size) = Newline /\ size > 0)
        /\ lines' = Append(lines, line) /\ logging' = FALSE
        /\ pieces' = pieces
    BY DEF WriteLine, EndsInNewline
  <1>2. /\ Piece = pieces[Done + 1] /\ Piece.data \in Seq(Byte)
        /\ Done \in Nat /\ Len(pieces) = Done + 1
        /\ size \in Nat /\ Len(Piece.data) \in Nat /\ size <= Len(Piece.data)
        /\ \A k \in (size + 1)..Len(Piece.data) : Piece.data[k] = Newline
    BY <1>1, PieceLogged
  <1>3. ASSUME NEW k \in 1..size PROVE ByteAt(k) = Piece.data[k] /\ Piece.data[k] \in Byte
    BY <1>2 DEF ByteAt
  <1>4. line \in Seq(Byte)
    BY <1>2, <1>3
  <1>5. line = SubSeq(Piece.data, 1, size)
    <2>1. SubSeq(Piece.data, 1, size) = [k \in 1..size |-> Piece.data[k]]
      BY <1>2
    <2>2. line = [k \in 1..size |-> Piece.data[k]]
      BY <1>3
    <2> QED BY <2>1, <2>2, Zenon
  <1> HIDE DEF line
  <1>6. size > 0 => Piece.data[size] # Newline
    BY <1>1, <1>2, <1>3
  <1>7. IsTrimmed(line, Piece.data)
    <2>1. size \in 0..Len(Piece.data)
      BY <1>2
    <2> QED BY <1>2, <1>5, <1>6, <2>1, Zenon DEF IsTrimmed
  <1>8. LoggedAs(pieces, Append(lines, line), Done + 1)
    <2>1. lines \in Seq(Seq(Byte)) /\ LoggedAs(pieces, lines, Done)
      BY DEF LoggerInv
    <2> QED BY <1>1, <1>2, <1>4, <1>7, <2>1, LineWritten
  <1>9. Done' = Done + 1
    BY <1>1, <1>2 DEF Done
  <1>10. LoggedAs(pieces, lines, Done)'
    BY <1>1, <1>8, <1>9, Zenon
  <1>11. lines' \in Seq(Seq(Byte))
    BY <1>1, <1>4, AppendProperties DEF LoggerInv
  <1> QED BY <1>1, <1>10, <1>11, Zenon DEF LoggerInv

LEMMA PassLoggerInv ==
    ASSUME LoggerInv, PassOver
    PROVE  LoggerInv'
  <1>1. /\ logging /\ Piece.type \notin Printed /\ logging' = FALSE
        /\ pieces' = pieces /\ lines' = lines
    BY DEF PassOver
  <1>2. Piece = pieces[Done + 1] /\ Done \in Nat /\ Len(pieces) = Done + 1
    BY <1>1, PieceLogged
  <1>3. LoggedAs(pieces, lines, Done + 1)
    BY <1>1, <1>2, PassedOver DEF LoggerInv
  <1>4. Done' = Done + 1
    BY <1>1, <1>2 DEF Done
  <1>5. LoggedAs(pieces, lines, Done)'
    BY <1>1, <1>3, <1>4, Zenon
  <1> QED BY <1>1, <1>5, Zenon DEF LoggerInv

LEMMA NextLoggerInv ==
    ASSUME LoggerInv, [LoggerNext]_loggerVars
    PROVE  LoggerInv'
  <1>1. CASE UNCHANGED loggerVars
    BY <1>1 DEF loggerVars, LoggerInv, OnlyNewlinesOff, Piece, Done
  <1> QED
    BY <1>1, CallLoggerInv, TrimLoggerInv, WriteLoggerInv, PassLoggerInv DEF LoggerNext

(* Whatever lies before and behind a piece in memory, and however many     *)
(* pieces of whatever kinds libcurl hands over: the lines of the log are   *)
(* the printed pieces, in order, without the newlines at their ends.       *)
THEOREM LoggedLines == LoggerSpec => []LinesAreThePieces
  <1>1. LoggerInv => LinesAreThePieces
    BY LinesByLogged DEF LoggerInv
  <1> QED
    BY <1>1, InitLoggerInv, NextLoggerInv, PTL DEF LoggerSpec

(***************************************************************************)
(* Signing: the inductive invariant.  Memory: a context per open signer    *)
(* and per failure that lost one, a buffer as long as a signer has one.    *)
(* The signature: what an open signer has hashed is what it was given, and *)
(* once it is finished nothing of that changes until the next one.         *)
(***************************************************************************)
Typed ==
    /\ state \in {"none", "open", "unwinding", "aborted"}
    /\ key \in Key
    /\ given \in Seq(Chunk) /\ fed \in Seq(Chunk)
    /\ finished \in BOOLEAN
    /\ length \in Nat
    /\ contexts \in Nat /\ buffers \in Nat /\ lost \in Nat
    /\ files \in Nat /\ keys \in Nat
    /\ held \in Key \cup {None}
    /\ loading \in {"no", "open", "read", "failed"}

Memory ==
    /\ contexts = lost + (IF state = "none" THEN 0 ELSE 1)
    /\ buffers = IF state # "none" /\ signature # None THEN 1 ELSE 0

Covers(signed) == signed = [data |-> given, length |-> length]

Signature ==
    /\ state = "open" => fed = given
    /\ (state = "open" /\ finished) => signature # None /\ Covers(signature.signed)
    /\ (state = "open" /\ ~finished) => signature = None
    /\ obtained # None =>
          /\ finished
          /\ obtained.bytes = length
          /\ Covers(obtained.signed)

KeyFile ==
    /\ files = IF loading = "no" THEN 0 ELSE 1
    /\ keys = IF held = None THEN 0 ELSE 1
    /\ loading \in {"open", "failed"} => held = None

IInv == Typed /\ Memory /\ Signature /\ KeyFile

(* A result with bytes, and a buffer, are never taken for None. *)
LEMMA BufferIsSomething ==
    ASSUME NEW n \in Nat, NEW signed \in Signed \cup {None}
    PROVE  [size |-> n, signed |-> signed] # None
  BY NoneAssumption

LEMMA SignedIsSomething ==
    ASSUME NEW data \in Seq(Chunk), NEW n \in Nat
    PROVE  [data |-> data, length |-> n] # None
  BY NoneAssumption DEF Signed

LEMMA LengthsAreNat ==
    ASSUME NEW k \in Key
    PROVE  MaxLength[k] \in Nat /\ MinLength[k] \in Nat
  BY SigningAssumption

LEMMA InitIInv == Init => IInv
  <1> SUFFICES ASSUME Init PROVE IInv
    OBVIOUS
  <1>1. Typed
    <2>1. <<>> \in Seq(Chunk) OBVIOUS
    <2>2. QED BY <2>1 DEF Init, Typed
  <1>2. Memory /\ KeyFile BY DEF Init, Memory, KeyFile
  <1>3. Signature BY DEF Init, Signature
  <1>4. QED BY <1>1, <1>2, <1>3 DEF IInv

(***************************************************************************)
(* The steps of pkey_from_file leave the signer alone, and the other way   *)
(* round.                                                                  *)
(***************************************************************************)
LEMMA KeyStep ==
    ASSUME IInv,
           OpenKeyFile \/ ReadKey \/ ReadKeyFails \/ LeaveLoading \/ ReleaseKey
    PROVE  IInv'
  <1>1. Memory' /\ Signature'
    BY DEF IInv, Memory, Signature, Covers, signerVars,
           OpenKeyFile, ReadKey, ReadKeyFails, LeaveLoading, ReleaseKey
  <1>2. Typed' /\ KeyFile'
    <2> USE DEF IInv, Typed, KeyFile, signerVars
    <2>1. CASE OpenKeyFile BY <2>1 DEF OpenKeyFile
    <2>2. CASE ReadKey BY <2>2, NoneAssumption DEF ReadKey
    <2>3. CASE ReadKeyFails BY <2>3 DEF ReadKeyFails
    <2>4. CASE LeaveLoading BY <2>4 DEF LeaveLoading
    <2>5. CASE ReleaseKey BY <2>5 DEF ReleaseKey
    <2>6. QED BY <2>1, <2>2, <2>3, <2>4, <2>5
  <1>3. QED BY <1>1, <1>2 DEF IInv

LEMMA SignerStep ==
    ASSUME IInv,
           Construct \/ Update \/ FinishFails \/ Finish \/ GetResult \/ Destroy \/ Digest
    PROVE  IInv'
  <1>1. KeyFile'
    BY DEF IInv, KeyFile, keyVars,
           Construct, Update, FinishFails, Finish, GetResult, Destroy, Digest
  <1> USE DEF IInv, Typed, Memory, Signature, Covers, keyVars
  <1>2. CASE Construct
    <2>1. <<>> \in Seq(Chunk) OBVIOUS
    <2>2. Typed'
      <3>1. contexts' \in Nat /\ lost' \in Nat BY <1>2 DEF Construct
      <3>2. state' \in {"none", "open", "unwinding", "aborted"} BY <1>2 DEF Construct
      <3>3. QED BY <2>1, <3>1, <3>2, <1>2 DEF Construct
    <2>3. Memory' BY <2>2, <1>2 DEF Construct
    <2>4. Signature' BY <1>2 DEF Construct
    <2>5. QED BY <1>1, <2>2, <2>3, <2>4
  <1>3. CASE Update
    BY <1>1, <1>3 DEF Update
  <1>4. CASE FinishFails
    <2>1. MaxLength[key] \in Nat BY LengthsAreNat
    <2>2. [size |-> MaxLength[key], signed |-> None] # None BY <2>1, BufferIsSomething
    <2>3. signature = None BY <1>4 DEF FinishFails
    <2>4. QED BY <1>1, <1>4, <2>1, <2>2, <2>3 DEF FinishFails
  <1>5. CASE Finish
    <2>1. PICK n \in MinLength[key]..MaxLength[key] :
              /\ length' = n
              /\ signature' = [size |-> MaxLength[key],
                               signed |-> [data |-> fed, length |-> n]]
      BY <1>5 DEF Finish, ResultLength
    <2>2. n \in Nat /\ MaxLength[key] \in Nat BY LengthsAreNat
    <2>3. signature' # None BY <2>1, <2>2, BufferIsSomething DEF Signed
    <2>4. signature = None /\ fed = given /\ obtained = None BY <1>5 DEF Finish
    <2>5. signature'.signed = [data |-> given, length |-> n] BY <2>1, <2>4
    <2>6. QED BY <1>1, <1>5, <2>1, <2>2, <2>3, <2>4, <2>5 DEF Finish
  <1>6. CASE GetResult
    BY <1>1, <1>6 DEF GetResult
  <1>7. CASE Destroy
    BY <1>1, <1>7 DEF Destroy
  <1>8. CASE Digest
    <2>1. Typed' /\ Memory' BY <1>8 DEF Digest
    <2>2. Signature' BY <1>8 DEF Digest
    <2>3. QED BY <1>1, <2>1, <2>2
  <1>9. QED BY <1>2, <1>3, <1>4, <1>5, <1>6, <1>7, <1>8

(* The invariant holds in every reachable state. *)
THEOREM Invariance == Spec => []IInv
  <1>1. IInv /\ [Next]_vars => IInv'
    <2>1. CASE UNCHANGED vars
      BY <2>1 DEF vars, signerVars, keyVars, IInv, Typed, Memory, Signature, KeyFile, Covers
    <2>2. QED BY <2>1, KeyStep, SignerStep DEF Next
  <1>2. QED BY InitIInv, <1>1, PTL DEF Spec

(* A signature handed out covers everything that was given to update, once *)
(* and in order, and no byte of the buffer beyond it.                      *)
THEOREM SignatureSafety == Spec => []SignatureOfAllGiven
  <1>1. IInv => SignatureOfAllGiven
    BY SignedIsSomething DEF IInv, Typed, Signature, Covers, SignatureOfAllGiven
  <1>2. QED BY <1>1, Invariance, PTL

(* Contexts and buffers are those of the signer at work and of the failures *)
(* that lose one, and of nothing else.                                      *)
THEOREM MemorySafety == Spec => []MemoryAccountedFor
  <1>1. IInv => MemoryAccountedFor
    BY DEF IInv, Memory, MemoryAccountedFor
  <1>2. QED BY <1>1, Invariance, PTL

(* The key file is closed and the key is the caller's, whatever went wrong. *)
THEOREM KeySafety == Spec => []KeyAccountedFor
  <1>1. IInv => KeyAccountedFor
    BY DEF IInv, KeyFile, KeyAccountedFor
  <1>2. QED BY <1>1, Invariance, PTL
=============================================================================
