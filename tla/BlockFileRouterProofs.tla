----------------------- MODULE BlockFileRouterProofs -----------------------
(***************************************************************************)
(* Proofs about BlockFile, for any size of a part, any options and any     *)
(* bytes written, and about Router, for any connections, routes and        *)
(* requests and every size of the channels.  The two share no variable;    *)
(* what both have is named for the router in its part.                     *)
(*                                                                         *)
(* BlockFile: the parts of a ring are laid out so that a byte of the       *)
(* window has a place of its own, hence a write changes the bytes it is    *)
(* given and no other, hence the cached parts over the rows are the file   *)
(* that FileContent describes.                                             *)
(***************************************************************************)
EXTENDS BlockFile, Router, SequenceTheorems, WellFoundedInduction, TLAPS

-----------------------------------------------------------------------------
(* BlockFile.                                                              *)

(* Division, remainder and maximum                                         *)

LEMMA DivMod ==
    ASSUME NEW n \in Nat \ {0}, NEW a \in Nat
    PROVE  \E q \in Nat, r \in 0 .. n - 1 : q = a \div n /\ r = a % n /\ a = n * q + r
<1>1. PICK q : q = a \div n
  OBVIOUS
<1>2. PICK r : r = a % n
  OBVIOUS
<1>3. q \in Int /\ r \in 0 .. n - 1
  BY <1>1, <1>2
<1>4. a = n * q + r
  BY <1>1, <1>2, <1>3
<1>5. q >= 0
  BY <1>3, <1>4
<1>6. q \in Nat
  BY <1>3, <1>5
<1> QED  BY <1>1, <1>2, <1>3, <1>4, <1>6, Zenon

LEMMA Quotient ==
    ASSUME NEW n \in Nat \ {0}, NEW q \in Nat, NEW r \in 0 .. n - 1
    PROVE  (n * q + r) \div n = q /\ (n * q + r) % n = r
OBVIOUS

LEMMA NearMultiples ==
    ASSUME NEW n \in Nat \ {0}, NEW x \in Int, NEW y \in Int, n * x < n * y + n
    PROVE  x <= y
OBVIOUS

\* Numbers with one remainder are equal or at least the divisor apart.
LEMMA NearEqual ==
    ASSUME NEW n \in Nat \ {0}, NEW x \in Nat, NEW y \in Nat,
           x % n = y % n, x < y + n, y < x + n
    PROVE  x = y
<1>1. PICK dx \in Nat, r \in 0 .. n - 1 : r = x % n /\ x = n * dx + r
  BY DivMod, Zenon
<1>2. PICK dy \in Nat, s \in 0 .. n - 1 : s = y % n /\ y = n * dy + s
  BY DivMod, Zenon
<1>3. r = s
  BY <1>1, <1>2, Zenon
<1>4. n * dx < n * dy + n /\ n * dy < n * dx + n
  <2> n * dx \in Nat /\ n * dy \in Nat
    OBVIOUS
  <2> QED  BY <1>1, <1>2, <1>3
<1>5. dx <= dy
  BY <1>4, NearMultiples
<1>6. dy <= dx
  BY <1>4, NearMultiples
<1> QED  BY <1>1, <1>2, <1>3, <1>5, <1>6

LEMMA SmallestNat ==
    ASSUME NEW S, S \subseteq Nat, S # {}
    PROVE  \E m \in S : \A y \in S : m <= y
<1>1. PICK m \in S : \A y \in S : ~ (<<y, m>> \in OpToRel(<, Nat))
  BY NatLessThanWellFounded, WFMin
<1>2. \A y \in S : ~(y < m)
  BY <1>1 DEF OpToRel
<1> QED  BY <1>2

LEMMA LargestNat ==
    ASSUME NEW S, NEW n \in Nat, S \subseteq 0 .. n, S # {}
    PROVE  Max(S) \in S /\ \A y \in S : Max(S) >= y
<1> DEFINE T == {k \in Nat : n - k \in S}
<1>1. T # {}
  <2>1. PICK y \in S : TRUE
    OBVIOUS
  <2>2. n - y \in Nat /\ n - (n - y) = y
    BY <2>1
  <2> QED  BY <2>2
<1>2. PICK m \in T : \A y \in T : m <= y
  <2> HIDE DEF T
  <2> QED  BY <1>1, SmallestNat DEF T
<1>3. ASSUME NEW y \in S PROVE n - m >= y
  <2>1. n - y \in Nat /\ n - (n - y) = y
    OBVIOUS
  <2>2. n - y \in T
    BY <2>1
  <2> QED  BY <1>2, <2>2
<1>4. n - m \in S
  BY <1>2
<1> QED  BY <1>3, <1>4 DEF Max

-----------------------------------------------------------------------------
(* Options                                                                 *)

\* A ring is a whole number of parts.
OptionType == [Circular : BOOLEAN, MaxSize : Nat, IJson : BOOLEAN]
WholeOpts(opts) ==
    /\ opts \in OptionType
    /\ opts.Circular => /\ opts.MaxSize \div PartSize \in Nat \ {0}
                        /\ opts.MaxSize = PartSize * (opts.MaxSize \div PartSize)
                        /\ ~opts.IJson

LEMMA RoundedIsWhole ==
    ASSUME NEW opts \in MakeOpts, ValidOpts(opts)
    PROVE  WholeOpts(RoundedOpts(opts)) /\ ValidOpts(RoundedOpts(opts))
<1>1. opts \in [Circular : BOOLEAN, MaxSize : Int, IJson : BOOLEAN] /\ opts.MaxSize \in Nat
      /\ PartSize \in Nat \ {0}
  BY OptsAssumption, PartSizeAssumption DEF ValidOpts
<1>2. PICK q \in Nat, r \in 0 .. PartSize - 1 :
         q = opts.MaxSize \div PartSize /\ r = opts.MaxSize % PartSize /\ opts.MaxSize = PartSize * q + r
  BY <1>1, DivMod, Zenon
<1>3. CASE ~opts.Circular
  BY <1>1, <1>3 DEF WholeOpts, RoundedOpts, OptionType, ValidOpts
<1>4. CASE opts.Circular /\ r = 0
  <2>1. RoundedOpts(opts) = opts
    BY <1>2, <1>4 DEF RoundedOpts
  <2>2. q # 0
    BY <1>1, <1>2, <1>4 DEF ValidOpts
  <2>3. opts.MaxSize = PartSize * q /\ q \in Nat \ {0}
    <3> PartSize * q \in Nat
      BY <1>1
    <3> QED  BY <1>2, <1>4, <2>2
  <2>4. opts.MaxSize = PartSize * (opts.MaxSize \div PartSize) /\ opts.MaxSize \div PartSize \in Nat \ {0}
    BY <1>2, <2>3, Zenon
  <2> QED  BY <1>1, <1>4, <2>1, <2>4 DEF WholeOpts, OptionType, ValidOpts
<1>5. CASE opts.Circular /\ r # 0
  <2>1. PICK m : m = (q + 1) * PartSize
    OBVIOUS
  <2>2. RoundedOpts(opts) = [opts EXCEPT !.MaxSize = m]
    BY <1>2, <1>5, <2>1 DEF RoundedOpts
  <2>3. PICK s \in Nat \ {0} : s = q + 1
    BY <1>2
  <2>a. m = PartSize * s /\ m \in Nat /\ m > 0
    <3>1. m = s * PartSize
      BY <2>1, <2>3
    <3> QED  BY <1>1, <2>3, <3>1
  <2>4. m \div PartSize = s
    <3>1. 0 \in 0 .. PartSize - 1
      BY <1>1
    <3>2. (PartSize * s + 0) \div PartSize = s
      BY <1>1, <2>3, <3>1, Quotient
    <3>3. PartSize * s + 0 = m
      BY <2>a
    <3> QED  BY <3>2, <3>3, Zenon
  <2>5. m = PartSize * (m \div PartSize) /\ m \div PartSize \in Nat \ {0}
    BY <2>3, <2>a, <2>4, Zenon
  <2>6. RoundedOpts(opts) \in OptionType /\ RoundedOpts(opts).MaxSize = m
        /\ RoundedOpts(opts).IJson = opts.IJson /\ RoundedOpts(opts).Circular
    BY <1>1, <1>5, <2>2, <2>a DEF OptionType
  <2> QED  BY <1>1, <1>5, <2>a, <2>5, <2>6 DEF WholeOpts, ValidOpts
<1> QED  BY <1>3, <1>4, <1>5, <1>1

LEMMA StoredFacts ==
    ASSUME NEW opts \in StoredOpts
    PROVE  /\ WholeOpts(opts) /\ ValidOpts(opts)
           /\ Uses(opts).size \in Nat
           /\ Uses(opts).payloads \subseteq Seq(Int)
           /\ opts.IJson => <<>> \notin Uses(opts).payloads
           /\ \A patch \in Uses(opts).patches, meta \in Uses(opts).metas :
                 Lay(patch, meta) \in Uses(opts).metas
           /\ \E o \in MakeOpts : Uses(opts) = Uses(o)
<1>1. PICK o \in MakeOpts : ValidOpts(o) /\ opts = RoundedOpts(o)
  BY DEF StoredOpts
<1>2. opts.IJson => o.IJson
  BY <1>1 DEF RoundedOpts
<1>3. Uses(opts) = Uses(o)
  BY <1>1, UsesAssumption
<1> QED  BY <1>1, <1>2, <1>3, UsesAssumption, RoundedIsWhole

-----------------------------------------------------------------------------
(* Places                                                                  *)

\* Bytes of one window never share a place.
LEMMA PlacesDiffer ==
    ASSUME NEW f, WholeOpts(f.Opts), NEW a \in Nat, NEW b \in Nat,
           partIdxAtOffset(f, a) = partIdxAtOffset(f, b), a % PartSize = b % PartSize,
           f.Opts.Circular => a < b + f.Opts.MaxSize /\ b < a + f.Opts.MaxSize
    PROVE  a = b
<1>0. PartSize \in Nat \ {0}
  BY PartSizeAssumption
<1>1. PICK qa \in Nat, ra \in 0 .. PartSize - 1 :
         qa = a \div PartSize /\ ra = a % PartSize /\ a = PartSize * qa + ra
  BY <1>0, DivMod, Zenon
<1>2. PICK qb \in Nat, rb \in 0 .. PartSize - 1 :
         qb = b \div PartSize /\ rb = b % PartSize /\ b = PartSize * qb + rb
  BY <1>0, DivMod, Zenon
<1>3. ra = rb
  BY <1>1, <1>2, Zenon
<1>4. qa = qb
  <2>1. CASE ~f.Opts.Circular
    BY <1>1, <1>2, <2>1, Zenon DEF partIdxAtOffset
  <2>2. CASE f.Opts.Circular
    <3>1. PICK R \in Nat \ {0} : R = f.Opts.MaxSize \div PartSize /\ f.Opts.MaxSize = PartSize * R
      BY <2>2 DEF WholeOpts
    <3>2. qa % R = qb % R
      BY <1>1, <1>2, <2>2, <3>1, Zenon DEF partIdxAtOffset
    <3>3. PartSize * qa \in Nat /\ PartSize * qb \in Nat /\ PartSize * R \in Nat
      BY <1>0
    <3>4. PartSize * qa < PartSize * qb + PartSize * R /\ PartSize * qb < PartSize * qa + PartSize * R
      BY <1>1, <1>2, <1>3, <2>2, <3>1, <3>3
    <3>5. /\ PartSize * qb + PartSize * R = PartSize * (qb + R - 1) + PartSize
          /\ PartSize * qa + PartSize * R = PartSize * (qa + R - 1) + PartSize
      BY <1>0
    <3>6. qa <= qb + R - 1
      BY <1>0, <3>4, <3>5, NearMultiples
    <3>7. qb <= qa + R - 1
      BY <1>0, <3>4, <3>5, NearMultiples
    <3>8. qa < qb + R /\ qb < qa + R
      BY <3>6, <3>7
    <3> QED  BY <3>2, <3>8, NearEqual
  <2> QED  BY <2>1, <2>2
<1> QED  BY <1>1, <1>2, <1>3, <1>4

\* The bytes of one part, and the same part a lap later.
LEMMA PartPlaces ==
    ASSUME NEW f, WholeOpts(f.Opts), NEW k \in Nat, NEW i \in 0 .. PartSize - 1
    PROVE  /\ (PartSize * k + i) % PartSize = i
           /\ partIdxAtOffset(f, PartSize * k + i) = partIdxAtOffset(f, PartSize * k)
<1>0. PartSize \in Nat \ {0} /\ 0 \in 0 .. PartSize - 1
  BY PartSizeAssumption
<1>1. (PartSize * k + i) \div PartSize = k /\ (PartSize * k + i) % PartSize = i
  BY <1>0, Quotient
<1>2. (PartSize * k + 0) \div PartSize = k
  BY <1>0, Quotient
<1>3. PartSize * k + 0 = PartSize * k
  BY <1>0
<1>4. (PartSize * k) \div PartSize = k
  BY <1>2, <1>3, Zenon
<1> QED  BY <1>1, <1>4, Zenon DEF partIdxAtOffset

LEMMA NextLap ==
    ASSUME NEW f, WholeOpts(f.Opts), f.Opts.Circular, NEW k \in Nat
    PROVE  \E l \in Nat : /\ PartSize * l = PartSize * k + f.Opts.MaxSize
                          /\ partIdxAtOffset(f, PartSize * l) = partIdxAtOffset(f, PartSize * k)
<1>0. PartSize \in Nat \ {0} /\ 0 \in 0 .. PartSize - 1
  BY PartSizeAssumption
<1>1. PICK R \in Nat \ {0} : R = f.Opts.MaxSize \div PartSize /\ f.Opts.MaxSize = PartSize * R
  BY DEF WholeOpts
<1>2. PICK l \in Nat : l = k + R
  BY <1>1
<1>3. \A n \in Nat : (PartSize * n) \div PartSize = n
  <2>1. ASSUME NEW n \in Nat PROVE (PartSize * n) \div PartSize = n
    <3>1. (PartSize * n + 0) \div PartSize = n
      BY <1>0, Quotient
    <3>2. PartSize * n + 0 = PartSize * n
      BY <1>0
    <3> QED  BY <3>1, <3>2, Zenon
  <2> QED  BY <2>1
<1>4. PICK d \in Nat, m \in 0 .. R - 1 : m = k % R /\ k = R * d + m
  <2>1. \E d \in Nat, m \in 0 .. R - 1 : d = k \div R /\ m = k % R /\ k = R * d + m
    BY DivMod
  <2> QED  BY <2>1, Zenon
<1>5. PICK e \in Nat : e = d + 1
  OBVIOUS
<1>6. l = R * e + m
  <2>1. R * e = R * d + R /\ R * d \in Nat
    BY <1>5
  <2> QED  BY <1>2, <1>4, <2>1
<1>7. l % R = m
  BY <1>6, Quotient
<1>8. partIdxAtOffset(f, PartSize * l) = l % R /\ partIdxAtOffset(f, PartSize * k) = k % R
  BY <1>1, <1>3, Zenon DEF partIdxAtOffset
<1>9. PartSize * l = PartSize * k + PartSize * R
  BY <1>0, <1>2
<1> QED  BY <1>1, <1>4, <1>7, <1>8, <1>9, Zenon

\* The parts that a range touches.
LEMMA StartIn ==
    ASSUME NEW start \in Nat, NEW size \in Nat, NEW k \in Nat,
           PartSize * k < start + size, start < PartSize * k + PartSize
    PROVE  PartSize * k \in PartStarts(start, size)
<1>0. PartSize \in Nat \ {0} /\ start + size \in Nat
  BY PartSizeAssumption
<1>1. PICK q \in Nat, r \in 0 .. PartSize - 1 : q = start \div PartSize /\ start = PartSize * q + r
  BY <1>0, DivMod, ZenonT(40)
<1>2. PICK u \in Nat, v \in 0 .. PartSize - 1 :
         u = (start + size) \div PartSize /\ start + size = PartSize * u + v
  BY <1>0, DivMod, ZenonT(40)
<1>3. PartSize * q \in Nat /\ PartSize * u \in Nat /\ PartSize * k \in Nat
  BY <1>0
<1>4. PartSize * q < PartSize * k + PartSize /\ PartSize * k < PartSize * u + PartSize
  BY <1>0, <1>1, <1>2, <1>3
<1>5. q <= k
  BY <1>0, <1>4, NearMultiples
<1>6. k <= u
  BY <1>0, <1>4, NearMultiples
<1>7. k \in start \div PartSize .. (start + size) \div PartSize
  BY <1>1, <1>2, <1>5, <1>6
<1>8. k * PartSize = PartSize * k
  BY <1>0
<1> QED  BY <1>7, <1>8 DEF PartStarts

LEMMA StartOut ==
    ASSUME NEW start \in Nat, NEW size \in Nat, NEW s \in PartStarts(start, size)
    PROVE  \E k \in Nat : s = PartSize * k /\ s \in Nat /\ s < start + size
<1>0. PartSize \in Nat \ {0} /\ start + size \in Nat
  BY PartSizeAssumption
<1>1. PICK q \in Nat, r \in 0 .. PartSize - 1 : q = start \div PartSize /\ start = PartSize * q + r
  BY <1>0, DivMod, ZenonT(40)
<1>2. PICK u \in Nat, v \in 0 .. PartSize - 1 :
         u = (start + size) \div PartSize /\ start + size = PartSize * u + v
  BY <1>0, DivMod, ZenonT(40)
<1>3. PICK k \in q .. u : s = k * PartSize /\ k * PartSize < start + size
  BY <1>1, <1>2 DEF PartStarts
<1>4. k \in Nat /\ k * PartSize = PartSize * k /\ k * PartSize \in Nat
  BY <1>0, <1>3
<1> QED  BY <1>3, <1>4

LEMMA PartMapDomain ==
    ASSUME NEW f, WholeOpts(f.Opts), NEW start \in Nat, NEW size \in Nat
    PROVE  /\ DOMAIN computePartMap(f, start, size) = {partIdxAtOffset(f, o) : o \in PartStarts(start, size)}
           /\ \A o \in start .. start + size - 1 :
                 partIdxAtOffset(f, o) \in DOMAIN computePartMap(f, start, size)
<1>0. PartSize \in Nat \ {0}
  BY PartSizeAssumption
<1>1. DOMAIN computePartMap(f, start, size) = {partIdxAtOffset(f, o) : o \in PartStarts(start, size)}
  BY Zenon DEF computePartMap
<1>2. ASSUME NEW o \in start .. start + size - 1
      PROVE  partIdxAtOffset(f, o) \in {partIdxAtOffset(f, x) : x \in PartStarts(start, size)}
  <2>0. o \in Nat
    OBVIOUS
  <2>1. PICK k \in Nat, i \in 0 .. PartSize - 1 : o = PartSize * k + i
    BY <1>0, <2>0, DivMod, ZenonT(40)
  <2>2. PartSize * k \in Nat
    BY <1>0
  <2>3. PartSize * k \in PartStarts(start, size)
    BY <1>0, <2>1, <2>2, StartIn
  <2>4. partIdxAtOffset(f, o) = partIdxAtOffset(f, PartSize * k)
    BY <2>1, PartPlaces
  <2> QED  BY <2>3, <2>4
<1> QED  BY <1>1, <1>2

\* A part that computePartMap calls whole is written at each place, and by
\* the last lap of the range.
LEMMA CompletePart ==
    ASSUME NEW f, WholeOpts(f.Opts), NEW start \in Nat, NEW size \in Nat,
           NEW p \in DOMAIN computePartMap(f, start, size),
           computePartMap(f, start, size)[p] = PartSize, NEW i \in 0 .. PartSize - 1
    PROVE  \E o \in start .. start + size - 1 :
              /\ partIdxAtOffset(f, o) = p /\ o % PartSize = i
              /\ f.Opts.Circular => o + f.Opts.MaxSize >= start + size
<1>0. PartSize \in Nat \ {0} /\ start + size \in Nat
  BY PartSizeAssumption
<1> DEFINE S == {o \in PartStarts(start, size) : partIdxAtOffset(f, o) = p}
<1>1. S # {} /\ S \subseteq 0 .. start + size
  <2>1. S # {}
    <3>1. DOMAIN computePartMap(f, start, size) = {partIdxAtOffset(f, o) : o \in PartStarts(start, size)}
      BY Zenon DEF computePartMap
    <3>2. p \in {partIdxAtOffset(f, o) : o \in PartStarts(start, size)}
      BY <3>1, Zenon
    <3> QED  BY <3>2
  <2>2. ASSUME NEW s \in S PROVE s \in 0 .. start + size
    BY <1>0, StartOut
  <2> QED  BY <2>1, <2>2
<1>2. PICK L : L = Max(S)
  OBVIOUS
<1>3. L \in S /\ \A s \in S : L >= s
  <2> HIDE DEF S
  <2> QED  BY <1>0, <1>1, <1>2, LargestNat
<1>4. PICK k \in Nat : L = PartSize * k /\ L \in Nat /\ L < start + size
  BY <1>3, StartOut
<1>5. (IF start + size < L + PartSize THEN start + size - L ELSE PartSize)
         - (IF start > L THEN start - L ELSE 0) = PartSize
  BY <1>2 DEF computePartMap
<1>6. L >= start /\ L + PartSize <= start + size
  BY <1>0, <1>4, <1>5
<1>7. L + i \in start .. start + size - 1
  BY <1>0, <1>4, <1>6
<1>8. partIdxAtOffset(f, L + i) = p /\ (L + i) % PartSize = i
  <2>1. /\ (PartSize * k + i) % PartSize = i
        /\ partIdxAtOffset(f, PartSize * k + i) = partIdxAtOffset(f, PartSize * k)
    BY PartPlaces
  <2> QED  BY <1>3, <1>4, <2>1, Zenon
<1>9. ASSUME f.Opts.Circular PROVE L + f.Opts.MaxSize >= start + size
  <2>1. PICK l \in Nat : /\ PartSize * l = PartSize * k + f.Opts.MaxSize
                         /\ partIdxAtOffset(f, PartSize * l) = partIdxAtOffset(f, PartSize * k)
    BY <1>9, NextLap
  <2>2. f.Opts.MaxSize \in Nat
    BY DEF WholeOpts, OptionType
  <2>3. f.Opts.MaxSize > 0
    BY <1>0, <1>9 DEF WholeOpts
  <2>4. ASSUME L + f.Opts.MaxSize < start + size PROVE FALSE
    <3>1. PartSize * l < start + size /\ start < PartSize * l + PartSize
      BY <1>0, <1>4, <1>6, <2>1, <2>2, <2>4
    <3>2. PartSize * l \in PartStarts(start, size)
      BY <3>1, StartIn
    <3>3. PartSize * l \in S
      BY <1>3, <1>4, <2>1, <3>2
    <3>4. L >= PartSize * l
      BY <1>3, <3>3
    <3> QED  BY <1>4, <2>1, <2>2, <2>3, <3>4
  <2> QED  BY <1>0, <1>4, <2>2, <2>4
<1>10. f.Opts.Circular => (L + i) + f.Opts.MaxSize >= start + size
  BY <1>0, <1>4, <1>9 DEF WholeOpts, OptionType
<1> QED  BY <1>7, <1>8, <1>10

-----------------------------------------------------------------------------
(* writeAt                                                                 *)

IsParts(ps) == ps \in [DOMAIN ps -> [0 .. PartSize - 1 -> Int]]

IsShaped(f) ==
    /\ f = [Opts |-> f.Opts, Size |-> f.Size, Meta |-> f.Meta]
    /\ WholeOpts(f.Opts) /\ f.Size \in Nat

\* The byte of the offset "o" of a file that is in the parts "ps".
Byte(f, ps, o) == PartOr(ps, partIdxAtOffset(f, o))[o % PartSize]

\* The write is before the window of a circular file.
Drops(f, size, off, len) == f.Opts.Circular /\ off + len <= size - f.Opts.MaxSize
WriteOver(f, es, off, data) == writeAt(f, es, off, data, FALSE)
Rewrite(f, es, data) == writeAt(f, es, 0, data, TRUE)
Touched(f, from, last) == {partIdxAtOffset(f, o) : o \in from .. last}
Sized(f, size) == [f EXCEPT !.Size = size]
NewSize(size, off, n) == IF off + n > size THEN off + n ELSE size

LEMMA KeptIsNat ==
    ASSUME NEW f, IsShaped(f), NEW size \in Nat, NEW off \in Nat, NEW n \in Nat
    PROVE  KeptFrom(f, size, off, n) \in Nat
<1>1. PICK M \in Nat : M = f.Opts.MaxSize
  BY DEF IsShaped, WholeOpts, OptionType
<1>2. CASE ~f.Opts.Circular
  <2>1. KeptFrom(f, size, off, n) = off + 0 + 0
    BY <1>2, Zenon DEF KeptFrom
  <2> QED  BY <2>1
<1>3. CASE f.Opts.Circular
  <2>1. PICK c \in Nat : c = IF off < size - M THEN size - M - off ELSE 0
    BY <1>1
  <2>2. KeptFrom(f, size, off, n) = off + c + (IF n - c > M THEN n - c - M ELSE 0)
    BY <1>1, <1>3, <2>1 DEF KeptFrom
  <2> QED  BY <1>1, <2>1, <2>2
<1> QED  BY <1>2, <1>3

LEMMA KeptFacts ==
    ASSUME NEW f, IsShaped(f), NEW M \in Nat, M = f.Opts.MaxSize,
           NEW size \in Nat, NEW off \in Nat, NEW n \in Nat,
           NEW from \in Nat, from = KeptFrom(f, size, off, n)
    PROVE  /\ from >= off
           /\ f.Opts.Circular => off + n - from <= M
           /\ ~f.Opts.Circular => from = off
           /\ f.Opts.Circular /\ off >= size - M => from <= off \/ from + M <= off + n
<1>1. CASE ~f.Opts.Circular
  <2>1. from = off
    BY <1>1 DEF KeptFrom
  <2> QED  BY <1>1, <2>1
<1>2. CASE f.Opts.Circular
  <2>1. PICK c \in Nat : c = IF off < size - M THEN size - M - off ELSE 0
    OBVIOUS
  <2>2. from = off + c + (IF n - c > M THEN n - c - M ELSE 0)
    BY <1>2, <2>1 DEF KeptFrom
  <2>3. from >= off /\ off + n - from <= M
    BY <2>1, <2>2
  <2>4. off >= size - M => from <= off \/ from + M <= off + n
    BY <2>1, <2>2
  <2> QED  BY <1>2, <2>3, <2>4
<1> QED  BY <1>1, <1>2

\* The part "p" of "old" with the bytes of "data" from "from" to "last" whose place is in it.
PartFits(f, old, from, last, off, data, p, part) ==
    /\ part \in [0 .. PartSize - 1 -> Int]
    /\ \A o \in from .. last : partIdxAtOffset(f, o) = p => part[o % PartSize] = data[o - off + 1]
    /\ \A i \in 0 .. PartSize - 1 :
          (\A o \in from .. last : ~(partIdxAtOffset(f, o) = p /\ o % PartSize = i)) => part[i] = PartOr(old, p)[i]

LEMMA PartWrittenIs ==
    ASSUME NEW f, IsShaped(f), NEW off \in Nat, NEW size \in Nat, NEW data \in Seq(Int),
           NEW from \in Nat, from = KeptFrom(f, size, off, Len(data)),
           NEW old, IsParts(old), NEW p, NEW part, part = PartWritten(f, old, from, off, data, p)
    PROVE  PartFits(f, old, from, off + Len(data) - 1, off, data, p, part)
<1>0. PartSize \in Nat \ {0}
  BY PartSizeAssumption
<1>1. PICK n \in Nat : n = Len(data) /\ \A i \in 1 .. n : data[i] \in Int
  BY LenProperties
<1>a. PICK M \in Nat : M = f.Opts.MaxSize
  BY DEF IsShaped, WholeOpts, OptionType
<1>b. from >= off /\ (f.Opts.Circular => off + n - from <= M)
  BY <1>1, <1>a, KeptFacts
<1>2. from \in Nat /\ from >= off /\ (f.Opts.Circular => off + n - from <= f.Opts.MaxSize)
  BY <1>a, <1>b
<1>3. PICK B : B = BytesOf(f, from, off + Len(data) - 1, p)
  OBVIOUS
<1>4. B = {o \in from .. off + n - 1 : partIdxAtOffset(f, o) = p}
  BY <1>1, <1>3 DEF BytesOf
<1>5. part = [i \in 0 .. PartSize - 1 |->
                IF \E o \in B : o % PartSize = i
                THEN data[(CHOOSE o \in B : o % PartSize = i) - off + 1] ELSE PartOr(old, p)[i]]
  BY <1>3, Zenon DEF PartWritten
<1>6. \A o \in B : o \in Nat /\ o >= off /\ o - off + 1 \in 1 .. n /\ partIdxAtOffset(f, o) = p
  BY <1>1, <1>2, <1>4
<1>7. ASSUME NEW a \in B, NEW b \in B, a % PartSize = b % PartSize PROVE a = b
  <2>0. f.Opts.MaxSize \in Nat
    BY DEF IsShaped, WholeOpts, OptionType
  <2>a. a \in from .. off + n - 1 /\ b \in from .. off + n - 1 /\ n \in Nat
    BY <1>1, <1>4
  <2>1. f.Opts.Circular => a < b + f.Opts.MaxSize /\ b < a + f.Opts.MaxSize
    BY SMTT(30), <1>a, <1>b, <2>0, <2>a
  <2> QED  BY <1>6, <1>7, <2>1, PlacesDiffer DEF IsShaped
<1>8. \A i : (\E o \in B : o % PartSize = i) =>
            LET c == CHOOSE o \in B : o % PartSize = i IN c \in B /\ c % PartSize = i
  BY Zenon
<1>9. PartOr(old, p) \in [0 .. PartSize - 1 -> Int]
  BY DEF PartOr, EmptyPart, Zero, IsParts
<1>10. part \in [0 .. PartSize - 1 -> Int]
  <2>1. ASSUME NEW i \in 0 .. PartSize - 1 PROVE part[i] \in Int
    <3>1. CASE \E o \in B : o % PartSize = i
      <4>1. PICK c \in B : c = CHOOSE o \in B : o % PartSize = i
        BY <1>8, <3>1
      <4> QED  BY <1>1, <1>5, <1>6, <3>1, <4>1
    <3>2. CASE ~\E o \in B : o % PartSize = i
      BY <1>5, <1>9, <3>2
    <3> QED  BY <3>1, <3>2
  <2> QED  BY <1>5, <2>1
<1>11. ASSUME NEW o \in from .. off + Len(data) - 1, partIdxAtOffset(f, o) = p
       PROVE  part[o % PartSize] = data[o - off + 1]
  <2>1. o \in B
    BY <1>1, <1>4, <1>11
  <2>2. o % PartSize \in 0 .. PartSize - 1
    BY <1>0, <1>6, <2>1
  <2>3. PICK c \in B : c = CHOOSE x \in B : x % PartSize = o % PartSize
    BY <1>8, <2>1
  <2>4. c % PartSize = o % PartSize
    BY <1>8, <2>1, <2>3
  <2>5. c = o
    BY <1>7, <2>1, <2>4
  <2> QED  BY <1>5, <2>1, <2>2, <2>3, <2>5
<1>12. ASSUME NEW i \in 0 .. PartSize - 1,
              \A o \in from .. off + Len(data) - 1 : ~(partIdxAtOffset(f, o) = p /\ o % PartSize = i)
       PROVE  part[i] = PartOr(old, p)[i]
  BY <1>1, <1>4, <1>5, <1>12
<1> QED  BY <1>10, <1>11, <1>12, Zenon DEF PartFits

LEMMA WriteOverIs ==
    ASSUME NEW f, NEW es, NEW off, NEW data, ~Drops(f, f.Size, off, Len(data))
    PROVE  WriteOver(f, es, off, data) =
             [file    |-> Sized(f, NewSize(f.Size, off, Len(data))),
              entries |-> Written(f, es, KeptFrom(f, f.Size, off, Len(data)), off, data)]
BY Zenon DEF WriteOver, writeAt, Drops, Sized, NewSize

LEMMA RewriteIs ==
    ASSUME NEW f, NEW es, NEW data, ~Drops(f, 0, 0, Len(data))
    PROVE  Rewrite(f, es, data) =
             [file    |-> Sized(f, 0 + Len(data)),
              entries |-> Written(f, NoParts, KeptFrom(f, 0, 0, Len(data)), 0, data)]
BY Zenon DEF Rewrite, writeAt, Drops, Sized

\* The parts "es" are the parts "old" with the bytes from "from" to "last" of
\* "data", whose first is at "off", each at its place.
AreWritten(f, old, from, last, off, data, es) ==
    /\ IsParts(es)
    /\ DOMAIN es = Touched(f, from, last) \cup DOMAIN old
    /\ \A o \in from .. last : es[partIdxAtOffset(f, o)][o % PartSize] = data[o - off + 1]
    /\ \A p \in DOMAIN es, i \in 0 .. PartSize - 1 :
          (\A o \in from .. last : ~(partIdxAtOffset(f, o) = p /\ o % PartSize = i))
          => es[p][i] = PartOr(old, p)[i]

LEMMA WrittenParts ==
    ASSUME NEW f, IsShaped(f), NEW size \in Nat, NEW off \in Nat, NEW data \in Seq(Int),
           NEW n \in Nat, n = Len(data), NEW last \in Int, last = off + n - 1,
           NEW old, IsParts(old), NEW from \in Nat, from = KeptFrom(f, size, off, n),
           NEW es, es = Written(f, old, from, off, data)
    PROVE  AreWritten(f, old, from, last, off, data, es)
<1>0. PartSize \in Nat \ {0}
  BY PartSizeAssumption
<1>1. PICK T : T = Touched(f, from, last)
  OBVIOUS
<1>a. last = off + Len(data) - 1 /\ from = KeptFrom(f, size, off, Len(data))
  OBVIOUS
<1>2. PICK N : N = [p \in T |-> PartWritten(f, old, from, off, data, p)]
  OBVIOUS
<1>4. es = Lay(N, old)
  BY <1>1, <1>2, <1>a, Zenon DEF Written, Touched
<1>5. IsParts(old)
  OBVIOUS
<1>6. DOMAIN N = T /\ DOMAIN es = T \cup DOMAIN old
  BY <1>2, <1>4 DEF Lay
<1>7. \A p \in T : es[p] = PartWritten(f, old, from, off, data, p)
  BY <1>2, <1>4, <1>6 DEF Lay
<1>8. \A p \in DOMAIN old : p \notin T => es[p] = old[p]
  BY <1>4, <1>6 DEF Lay
<1>9. es = [p \in T \cup DOMAIN old |-> es[p]]
  BY <1>4, <1>6 DEF Lay
<1>b. ASSUME NEW p \in T PROVE PartFits(f, old, from, last, off, data, p, es[p])
  <2>1. PICK part : part = es[p] /\ part = PartWritten(f, old, from, off, data, p)
    BY <1>7
  <2>2. PartFits(f, old, from, off + Len(data) - 1, off, data, p, part)
    BY <1>5, <1>a, <2>1, PartWrittenIs
  <2> QED  BY <1>a, <2>1, <2>2
<1>10. \A p \in T : es[p] \in [0 .. PartSize - 1 -> Int]
  BY <1>b DEF PartFits
<1>11. IsParts(es)
  BY <1>5, <1>6, <1>8, <1>9, <1>10 DEF IsParts
<1>12. ASSUME NEW o \in from .. last
       PROVE  es[partIdxAtOffset(f, o)][o % PartSize] = data[o - off + 1]
  <2>1. PICK p \in T : p = partIdxAtOffset(f, o)
    BY <1>1 DEF Touched
  <2> QED  BY <1>b, <2>1, Zenon DEF PartFits
<1>13. ASSUME NEW p \in DOMAIN es, NEW i \in 0 .. PartSize - 1,
              \A o \in from .. last : ~(partIdxAtOffset(f, o) = p /\ o % PartSize = i)
       PROVE  es[p][i] = PartOr(old, p)[i]
  <2>1. CASE p \in T
    BY <1>b, <1>13, <2>1, Zenon DEF PartFits
  <2>2. CASE p \notin T
    BY <1>6, <1>8, <2>2 DEF PartOr
  <2> QED  BY <2>1, <2>2
<1> QED  BY <1>1, <1>6, <1>11, <1>12, <1>13 DEF AreWritten

\* The window of a file after a write that starts in it.
LEMMA NewWindow ==
    ASSUME NEW f, IsShaped(f), NEW M \in Nat, M = f.Opts.MaxSize, NEW s \in Nat, s = f.Size,
           NEW off \in Nat, off <= s, off >= DataStartIdx(f), NEW n \in Nat,
           NEW t \in Nat, t = NewSize(s, off, n), NEW g, g = Sized(f, t)
    PROVE  /\ IsShaped(g) /\ g.Opts = f.Opts /\ g.Meta = f.Meta /\ g.Size = t
           /\ t >= off + n /\ t >= s
           /\ DataStartIdx(f) \in Nat /\ DataStartIdx(g) \in Nat
           /\ \A x \in DataStartIdx(g) .. t - 1 :
                 /\ x \notin off .. off + n - 1 => x \in DataStartIdx(f) .. s - 1
                 /\ x \in off .. off + n - 1 => x >= KeptFrom(f, s, off, n)
                 /\ f.Opts.Circular => \A y \in off .. off + n - 1 :
                                          y + M >= off + n => x < y + M /\ y < x + M
<1>1. M = f.Opts.MaxSize
  OBVIOUS
<1>2. s = f.Size
  OBVIOUS
<1>3. t = IF off + n > s THEN off + n ELSE s
  BY DEF NewSize
<1>4. g = [Opts |-> f.Opts, Size |-> t, Meta |-> f.Meta]
  <2>1. g = [f EXCEPT !.Size = t]
    BY Zenon DEF Sized
  <2>2. f = [Opts |-> f.Opts, Size |-> f.Size, Meta |-> f.Meta]
    BY Zenon DEF IsShaped
  <2> QED  BY <2>1, <2>2
<1>5. g.Opts = f.Opts /\ g.Size = t /\ g.Meta = f.Meta
  BY <1>4
<1>6. IsShaped(g)
  BY <1>4, <1>5 DEF IsShaped
<1>7. PICK a \in Nat : a = DataStartIdx(f) /\ a = IF f.Opts.Circular /\ s > M THEN s - M ELSE 0
  BY <1>1, <1>2 DEF DataStartIdx
<1>8. PICK b \in Nat : b = DataStartIdx(g) /\ b = IF f.Opts.Circular /\ t > M THEN t - M ELSE 0
  BY <1>1, <1>5 DEF DataStartIdx
<1>9. t >= off + n /\ t >= s
  BY <1>3
<1>10. ASSUME NEW x \in b .. t - 1
       PROVE  /\ x \notin off .. off + n - 1 => x \in a .. s - 1
              /\ x \in off .. off + n - 1 => x >= KeptFrom(f, s, off, n)
              /\ f.Opts.Circular => \A y \in off .. off + n - 1 : y + M >= off + n => x < y + M /\ y < x + M
  <2>1. CASE f.Opts.Circular
    <3>1. b >= t - M /\ a >= s - M /\ b >= a /\ off >= a /\ off <= s
      BY <1>2, <1>3, <1>7, <1>8, <2>1
    <3>2. x \notin off .. off + n - 1 => x \in a .. s - 1
      BY <1>3, <3>1
    <3>3. PICK k \in Nat : k = KeptFrom(f, s, off, n)
      BY KeptIsNat
    <3>a. k <= off \/ k + M <= off + n
      <4>1. off >= s - M
        BY <3>1
      <4> QED  BY <1>1, <2>1, <3>3, <4>1, KeptFacts
    <3>4. x \in off .. off + n - 1 => x >= KeptFrom(f, s, off, n)
      <4>1. x \in off .. off + n - 1 => x >= k
        BY <1>9, <3>1, <3>a
      <4> QED  BY <1>2, <3>3, <4>1
    <3>5. ASSUME NEW y \in off .. off + n - 1, y + M >= off + n PROVE x < y + M /\ y < x + M
      BY <1>3, <1>9, <3>1, <3>5
    <3> QED  BY <3>2, <3>4, <3>5
  <2>2. CASE ~f.Opts.Circular
    <3>1. a = 0 /\ b = 0
      BY <1>7, <1>8, <2>2
    <3>2. KeptFrom(f, s, off, n) = off
      BY <2>2 DEF KeptFrom
    <3> QED  BY <1>2, <1>3, <2>2, <3>1, <3>2
  <2> QED  BY <2>1, <2>2
<1> QED  BY <1>1, <1>2, <1>5, <1>6, <1>7, <1>8, <1>9, <1>10

\* Each part of which the write keeps a byte is cached, or there is no such part.
KeptAreCached(f, g, es, under, off, n) ==
    \A x \in DataStartIdx(g) .. g.Size - 1, b \in off .. off + n - 1 :
       x \notin off .. off + n - 1 /\ partIdxAtOffset(f, x) = partIdxAtOffset(f, b) =>
          partIdxAtOffset(f, x) \in DOMAIN es \/ partIdxAtOffset(f, x) \notin DOMAIN under

\* The file "g" in the parts "new" is the file "f" in the parts "es" with "data"
\* laid over it from "off"; the other parts of both are in "under".
IsOverlay(f, g, es, new, under, off, n, data) ==
    /\ IsParts(new) /\ DOMAIN es \subseteq DOMAIN new
    /\ ~f.Opts.Circular => \A o \in off .. off + n - 1 : partIdxAtOffset(f, o) \in DOMAIN new
    /\ \A o \in DataStartIdx(g) .. g.Size - 1 :
          /\ o \notin off .. off + n - 1 => o \in DataStartIdx(f) .. f.Size - 1
          /\ Byte(g, Lay(new, under), o) =
                IF o \in off .. off + n - 1 THEN data[o - off + 1] ELSE Byte(f, Lay(es, under), o)

\* A write from inside the window changes the bytes it is given and no other.
LEMMA OverlayBytes ==
    ASSUME NEW f, IsShaped(f), NEW M \in Nat, M = f.Opts.MaxSize, NEW s \in Nat, s = f.Size,
           NEW es, IsParts(es), NEW under, IsParts(under),
           NEW off \in Nat, off <= s, off >= DataStartIdx(f),
           NEW data \in Seq(Int), NEW n \in Nat, n = Len(data),
           NEW t \in Nat, t = NewSize(s, off, n), NEW g, g = Sized(f, t),
           NEW w, w = WriteOver(f, es, off, data),
           KeptAreCached(f, g, es, under, off, n)
    PROVE  w.file = g /\ IsOverlay(f, g, es, w.entries, under, off, n, data)
<1>1. IsShaped(g) /\ g.Opts = f.Opts /\ g.Size = t
  BY NewWindow
<1>a. t >= off + n /\ t >= s /\ DataStartIdx(f) \in Nat /\ DataStartIdx(g) \in Nat
  BY NewWindow
<1>b. ASSUME NEW x \in DataStartIdx(g) .. t - 1
      PROVE  /\ x \notin off .. off + n - 1 => x \in DataStartIdx(f) .. s - 1
             /\ x \in off .. off + n - 1 => x >= KeptFrom(f, s, off, n)
  BY ZenonT(60), <1>b, NewWindow
<1>c. ASSUME NEW x \in DataStartIdx(g) .. t - 1, f.Opts.Circular,
             NEW y \in off .. off + n - 1, y + M >= off + n
      PROVE  x < y + M /\ y < x + M
  BY ZenonT(60), <1>c, NewWindow
<1>2. g.Opts = f.Opts
  BY <1>1
<1>3. \A o : partIdxAtOffset(g, o) = partIdxAtOffset(f, o)
  BY <1>2 DEF partIdxAtOffset
<1>4. \A ps, o : Byte(g, ps, o) = Byte(f, ps, o)
  BY <1>3, Zenon DEF Byte
<1>5. PartSize \in Nat \ {0}
  BY PartSizeAssumption
<1>6. PICK from \in Nat : from = KeptFrom(f, s, off, n)
  BY KeptIsNat
<1>d. from >= off
  BY <1>6, KeptFacts
<1>e. ASSUME f.Opts.Circular PROVE off + n - from <= M
  BY SMTT(30), <1>6, <1>e, KeptFacts
<1>7. from >= off /\ (f.Opts.Circular => off + n - from <= M)
  BY <1>d, <1>e
<1>8. CASE Drops(f, s, off, n)
  <2>1. PICK a \in Nat : a = DataStartIdx(f) /\ a = IF s > M THEN s - M ELSE 0
    BY <1>a, <1>8 DEF Drops, DataStartIdx
  <2>2. off + n <= s - M
    BY <1>8 DEF Drops
  <2>3. n = 0
    BY <2>1, <2>2
  <2>4. NewSize(s, off, n) = s
    BY <2>3 DEF NewSize
  <2>5. w = [file |-> Sized(f, s), entries |-> es]
    <3>1. f.Opts.Circular /\ off + Len(data) <= f.Size - f.Opts.MaxSize
      BY <1>8, Zenon DEF Drops
    <3>2. w = [file |-> Sized(f, f.Size), entries |-> es]
      BY <3>1, Zenon DEF WriteOver, writeAt, Sized
    <3> QED  BY <3>2, Zenon
  <2>6. w.file = g /\ w.entries = es
    BY <2>4, <2>5
  <2>7. \A o : o \notin off .. off + n - 1
    BY <2>3
  <2>8. ASSUME NEW o \in DataStartIdx(g) .. t - 1
        PROVE  /\ o \in DataStartIdx(f) .. s - 1
               /\ Byte(g, Lay(w.entries, under), o) = Byte(f, Lay(es, under), o)
    BY <1>4, <1>b, <2>6, <2>7
  <2> QED  BY <1>1, <1>8, <2>6, <2>7, <2>8 DEF IsOverlay, Drops
<1>9. CASE ~Drops(f, s, off, n)
  <2>1. w = [file |-> g, entries |-> Written(f, es, from, off, data)]
    <3>1. w = [file    |-> Sized(f, NewSize(f.Size, off, Len(data))),
               entries |-> Written(f, es, KeptFrom(f, f.Size, off, Len(data)), off, data)]
      BY <1>9, WriteOverIs, Zenon
    <3> QED  BY <1>6, <3>1, Zenon
  <2>2. w.file = g /\ w.entries = Written(f, es, from, off, data)
    BY <2>1
  <2>3. PICK N : N = w.entries
    OBVIOUS
  <2>a. PICK last \in Int : last = off + n - 1
    <3> off + n - 1 \in Int
      OBVIOUS
    <3> QED  BY Zenon
  <2>b. AreWritten(f, es, from, last, off, data, N)
    BY <1>6, <2>2, <2>3, <2>a, WrittenParts
  <2>4. /\ IsParts(N)
        /\ \A p : p \in DOMAIN N <=> p \in DOMAIN es \/ \E o \in from .. off + n - 1 : p = partIdxAtOffset(f, o)
        /\ \A o \in from .. off + n - 1 : N[partIdxAtOffset(f, o)][o % PartSize] = data[o - off + 1]
        /\ \A p \in DOMAIN N, i \in 0 .. PartSize - 1 :
              (\A o \in from .. off + n - 1 : ~(partIdxAtOffset(f, o) = p /\ o % PartSize = i))
              => N[p][i] = PartOr(es, p)[i]
    BY <2>a, <2>b DEF AreWritten, Touched
  <2>5. ASSUME NEW o \in DataStartIdx(g) .. t - 1, o \in off .. off + n - 1
        PROVE  Byte(f, Lay(N, under), o) = data[o - off + 1]
    <3>1. o \in from .. off + n - 1
      BY <1>a, <1>b, <1>6, <1>7, <2>5
    <3> QED  BY <2>4, <3>1 DEF Byte, PartOr, Lay
  <2>6. ASSUME NEW o \in DataStartIdx(g) .. t - 1, o \notin off .. off + n - 1
        PROVE  Byte(f, Lay(N, under), o) = Byte(f, Lay(es, under), o)
    <3>0. o \in Nat /\ o % PartSize \in 0 .. PartSize - 1
      BY SMTT(30), <1>a, <1>5
    <3>1. PICK p : p = partIdxAtOffset(f, o)
      OBVIOUS
    <3>2. ASSUME NEW b \in from .. off + n - 1, partIdxAtOffset(f, b) = p, b % PartSize = o % PartSize
          PROVE  FALSE
      <4>1. b \in Nat /\ b \in off .. off + n - 1
        BY <1>7
      <4>2. ASSUME f.Opts.Circular PROVE o < b + M /\ b < o + M
        <5>1. b + M >= off + n
          BY <1>e, <4>2
        <5> QED  BY <1>c, <4>1, <4>2, <5>1
      <4>3. f.Opts.Circular => o < b + f.Opts.MaxSize /\ b < o + f.Opts.MaxSize
        BY <4>2
      <4>4. b = o
        BY <3>0, <3>1, <3>2, <4>1, <4>3, PlacesDiffer DEF IsShaped
      <4> QED  BY <2>6, <4>1, <4>4
    <3>3. p \in DOMAIN N => N[p][o % PartSize] = PartOr(es, p)[o % PartSize]
      BY <2>4, <3>0, <3>2
    <3>4. p \in DOMAIN N /\ p \notin DOMAIN es => p \notin DOMAIN under
      <4>1. ASSUME NEW b \in from .. off + n - 1, p = partIdxAtOffset(f, b), p \notin DOMAIN es
            PROVE  p \notin DOMAIN under
        <5>1. b \in off .. off + n - 1
          BY <1>7
        <5> QED  BY <1>1, <2>6, <3>1, <4>1, <5>1 DEF KeptAreCached
      <4> QED  BY <2>4, <3>1, <4>1
    <3>5. DOMAIN es \subseteq DOMAIN N
      BY <2>4
    <3> QED  BY <3>1, <3>3, <3>4, <3>5 DEF Byte, PartOr, Lay
  <2>7. ASSUME NEW o \in DataStartIdx(g) .. t - 1
        PROVE  /\ o \notin off .. off + n - 1 => o \in DataStartIdx(f) .. s - 1
               /\ Byte(g, Lay(w.entries, under), o) =
                     IF o \in off .. off + n - 1 THEN data[o - off + 1] ELSE Byte(f, Lay(es, under), o)
    BY <1>4, <1>b, <2>3, <2>5, <2>6
  <2>8. ASSUME ~f.Opts.Circular, NEW o \in off .. off + n - 1
        PROVE  partIdxAtOffset(f, o) \in DOMAIN w.entries
    <3>1. from = off
      BY <1>6, <2>8 DEF KeptFrom
    <3> QED  BY <2>3, <2>4, <3>1
  <2>9. DOMAIN es \subseteq DOMAIN w.entries
    BY <2>3, <2>4
  <2> QED  BY <1>1, <2>2, <2>3, <2>4, <2>7, <2>8, <2>9 DEF IsOverlay
<1> QED  BY <1>8, <1>9

\* WriteAt and AppendData load each part that they do not write whole.
LEMMA LoadsWhatItKeeps ==
    ASSUME NEW f, IsShaped(f), NEW M \in Nat, M = f.Opts.MaxSize, NEW s \in Nat, s = f.Size,
           NEW es, IsParts(es), IsParts(dbParts),
           NEW off \in Nat, off <= s, off >= DataStartIdx(f), NEW n \in Nat,
           NEW t \in Nat, t = NewSize(s, off, n), NEW g, g = Sized(f, t),
           NEW new, new = WithParts(es, incompleteParts(computePartMap(f, off, n)))
    PROVE  /\ IsParts(new) /\ Lay(new, dbParts) = Lay(es, dbParts)
           /\ KeptAreCached(f, g, new, dbParts, off, n)
<1>1. PICK m : m = computePartMap(f, off, n)
  OBVIOUS
<1>2. PICK wanted : wanted = incompleteParts(m)
  OBVIOUS
<1>3. PICK from : from = (wanted \ DOMAIN es) \cap DOMAIN dbParts
  OBVIOUS
<1>4. new = Lay(es, Restrict(dbParts, from))
  BY <1>1, <1>2, <1>3, Zenon DEF WithParts
<1>5. DOMAIN new = DOMAIN es \cup from /\ \A p \in DOMAIN new : new[p] = IF p \in DOMAIN es THEN es[p] ELSE dbParts[p]
  BY <1>4 DEF Lay, Restrict
<1>6. new = [p \in DOMAIN es \cup from |-> IF p \in DOMAIN es THEN es[p] ELSE dbParts[p]]
  BY <1>4 DEF Lay, Restrict
<1>7. IsParts(new)
  <2>1. ASSUME NEW p \in DOMAIN new PROVE new[p] \in [0 .. PartSize - 1 -> Int]
    BY <1>3, <1>5, <2>1 DEF IsParts
  <2> QED  BY <1>5, <1>6, <2>1 DEF IsParts
<1>8. Lay(new, dbParts) = Lay(es, dbParts)
  <2>1. DOMAIN new \cup DOMAIN dbParts = DOMAIN es \cup DOMAIN dbParts
    BY <1>3, <1>5
  <2>2. ASSUME NEW p \in DOMAIN es \cup DOMAIN dbParts
        PROVE  (IF p \in DOMAIN new THEN new[p] ELSE dbParts[p]) = IF p \in DOMAIN es THEN es[p] ELSE dbParts[p]
    BY <1>3, <1>5
  <2> QED  BY <2>1, <2>2 DEF Lay
<1>9. IsShaped(g) /\ g.Opts = f.Opts /\ g.Size = t
  BY NewWindow
<1>10. t >= off + n /\ DataStartIdx(f) \in Nat /\ DataStartIdx(g) \in Nat
  BY NewWindow
<1>11. ASSUME NEW x \in DataStartIdx(g) .. t - 1, NEW b \in off .. off + n - 1, x \notin off .. off + n - 1,
              NEW p, p = partIdxAtOffset(f, x), p = partIdxAtOffset(f, b), p \notin DOMAIN new
       PROVE  p \notin DOMAIN dbParts
  <2>1. PartSize \in Nat \ {0} /\ x \in Nat
    BY <1>10, PartSizeAssumption
  <2>2. p \in DOMAIN m
    <3>1. partIdxAtOffset(f, b) \in DOMAIN computePartMap(f, off, n)
      BY PartMapDomain DEF IsShaped
    <3> QED  BY <1>1, <1>11, <3>1
  <2>3. CASE m[p] # PartSize
    <3>1. p \in wanted
      BY <1>2, <2>2, <2>3 DEF incompleteParts
    <3> QED  BY <1>3, <1>5, <1>11, <3>1
  <2>4. CASE m[p] = PartSize
    <3>1. x % PartSize \in 0 .. PartSize - 1
      BY <2>1
    <3>2. PICK o \in off .. off + n - 1 : /\ partIdxAtOffset(f, o) = p /\ o % PartSize = x % PartSize
                                          /\ f.Opts.Circular => o + f.Opts.MaxSize >= off + n
      BY <1>1, <2>2, <2>4, <3>1, CompletePart DEF IsShaped
    <3>3. ASSUME f.Opts.Circular PROVE x < o + f.Opts.MaxSize /\ o < x + f.Opts.MaxSize
      <4>1. o + M >= off + n
        BY <3>2, <3>3
      <4>2. x < o + M /\ o < x + M
        BY SMTT(30), <3>3, <4>1, NewWindow
      <4> QED  BY <4>2
    <3>4. o \in Nat
      OBVIOUS
    <3>5. o = x
      BY <1>11, <2>1, <3>2, <3>3, <3>4, PlacesDiffer DEF IsShaped
    <3> QED  BY <1>11, <3>5
  <2> QED  BY <2>3, <2>4
<1> QED  BY <1>7, <1>8, <1>9, <1>11 DEF KeptAreCached

\* What a write makes of the entry has the shape of an entry, wherever it starts.
LEMMA WriteOverShape ==
    ASSUME NEW f, IsShaped(f), NEW s \in Nat, s = f.Size, NEW es, IsParts(es),
           NEW off \in Nat, NEW data \in Seq(Int), NEW n \in Nat, n = Len(data),
           NEW w, w = WriteOver(f, es, off, data)
    PROVE  IsParts(w.entries) /\ \E t \in Nat : w.file = Sized(f, t)
<1>1. PICK from \in Nat : from = KeptFrom(f, s, off, n)
  BY KeptIsNat
<1>2. PICK t \in Nat : t = NewSize(s, off, n)
  BY DEF NewSize
<1>3. CASE Drops(f, s, off, n)
  <2>1. f.Opts.Circular /\ off + Len(data) <= f.Size - f.Opts.MaxSize
    BY <1>3, Zenon DEF Drops
  <2>2. w = [file |-> Sized(f, f.Size), entries |-> es]
    BY <2>1, Zenon DEF WriteOver, writeAt, Sized
  <2> QED  BY <2>2
<1>4. CASE ~Drops(f, s, off, n)
  <2>1. w = [file    |-> Sized(f, NewSize(f.Size, off, Len(data))),
             entries |-> Written(f, es, KeptFrom(f, f.Size, off, Len(data)), off, data)]
    BY <1>4, WriteOverIs, Zenon
  <2>2. w = [file |-> Sized(f, t), entries |-> Written(f, es, from, off, data)]
    BY <1>1, <1>2, <2>1, Zenon
  <2>3. PICK N : N = Written(f, es, from, off, data)
    OBVIOUS
  <2>4. PICK last \in Int : last = off + n - 1
    <3> off + n - 1 \in Int
      OBVIOUS
    <3> QED  BY Zenon
  <2>5. AreWritten(f, es, from, last, off, data, N)
    BY <1>1, <2>3, <2>4, WrittenParts
  <2> QED  BY <2>2, <2>3, <2>5 DEF AreWritten
<1> QED  BY <1>3, <1>4

\* The file "g" in the parts "new" is "data", whatever other parts there are.
IsRewritten(g, new, data) ==
    /\ IsParts(new)
    /\ \A under : \A o \in DataStartIdx(g) .. g.Size - 1 : Byte(g, Lay(new, under), o) = data[o + 1]

LEMMA BeforeWindow ==
    ASSUME NEW M \in Nat, NEW n \in Nat, NEW from \in Nat, from <= 0 \/ from + M <= 0 + n,
           NEW b \in Nat, b = IF n > M THEN n - M ELSE 0
    PROVE  from <= b
OBVIOUS

LEMMA RewriteBytes ==
    ASSUME NEW f, IsShaped(f), NEW M \in Nat, M = f.Opts.MaxSize, NEW es,
           NEW data \in Seq(Int), NEW n \in Nat, n = Len(data),
           NEW g, g = Sized(f, n), NEW w, w = Rewrite(f, es, data)
    PROVE  w.file = g /\ IsShaped(g) /\ g.Opts = f.Opts /\ IsRewritten(g, w.entries, data)
<1>0. PartSize \in Nat \ {0}
  BY PartSizeAssumption
<1>1. f.Opts.Circular => M > 0
  BY <1>0 DEF IsShaped, WholeOpts
<1>2. PICK from \in Nat : from = KeptFrom(f, 0, 0, n)
  BY KeptIsNat
<1>3. w = [file |-> Sized(f, n), entries |-> Written(f, NoParts, from, 0, data)]
  <2>1. ~Drops(f, 0, 0, Len(data))
    BY <1>1 DEF Drops
  <2>2. 0 + Len(data) = n
    OBVIOUS
  <2>3. w = [file |-> Sized(f, 0 + Len(data)), entries |-> Written(f, NoParts, KeptFrom(f, 0, 0, Len(data)), 0, data)]
    BY <2>1, RewriteIs, Zenon
  <2> QED  BY <1>2, <2>2, <2>3, Zenon
<1>4. g = [Opts |-> f.Opts, Size |-> n, Meta |-> f.Meta]
  <2>1. f = [Opts |-> f.Opts, Size |-> f.Size, Meta |-> f.Meta]
    BY Zenon DEF IsShaped
  <2> QED  BY <2>1 DEF Sized
<1>5. g.Opts = f.Opts /\ g.Size = n
  BY <1>4
<1>6. IsShaped(g)
  BY <1>4, <1>5 DEF IsShaped
<1>7. PICK N : N = Written(f, NoParts, from, 0, data)
  OBVIOUS
<1>8. PICK last \in Int : last = 0 + n - 1
  OBVIOUS
<1>9. IsParts(NoParts)
  BY DEF IsParts, NoParts
<1>10. AreWritten(f, NoParts, from, last, 0, data, N)
  BY <1>2, <1>7, <1>8, <1>9, WrittenParts
<1>11. ASSUME NEW under, NEW o \in DataStartIdx(g) .. n - 1 PROVE Byte(g, Lay(N, under), o) = data[o + 1]
  <2>1. PICK b \in Nat : b = DataStartIdx(g) /\ b = IF f.Opts.Circular /\ n > M THEN n - M ELSE 0
    BY <1>5 DEF DataStartIdx
  <2>2. o >= from
    <3>1. CASE f.Opts.Circular
      <4>1. 0 >= 0 - M
        OBVIOUS
      <4>2. from <= 0 \/ from + M <= 0 + n
        BY <1>2, <3>1, <4>1, KeptFacts
      <4>3. b = IF n > M THEN n - M ELSE 0
        BY <2>1, <3>1, Zenon
      <4>4. from <= b
        BY <4>2, <4>3, BeforeWindow
      <4> QED  BY <2>1, <4>4
    <3>2. CASE ~f.Opts.Circular
      <4>1. from = 0
        BY <1>2, <3>2 DEF KeptFrom
      <4> QED  BY <2>1, <3>2, <4>1
    <3> QED  BY <3>1, <3>2
  <2>3. o \in from .. last
    BY <1>8, <2>1, <2>2
  <2>4. partIdxAtOffset(g, o) = partIdxAtOffset(f, o)
    BY <1>5 DEF partIdxAtOffset
  <2>5. partIdxAtOffset(f, o) \in DOMAIN N /\ N[partIdxAtOffset(f, o)][o % PartSize] = data[o - 0 + 1]
    BY <1>10, <2>3 DEF AreWritten, Touched
  <2>6. o - 0 + 1 = o + 1
    BY <2>1
  <2> QED  BY <2>4, <2>5, <2>6 DEF Byte, PartOr, Lay
<1>12. IsParts(N)
  BY <1>10 DEF AreWritten
<1>13. IsRewritten(g, N, data)
  BY <1>5, <1>11, <1>12 DEF IsRewritten
<1> QED  BY <1>3, <1>5, <1>6, <1>7, <1>13

LEMMA SizedIs ==
    ASSUME NEW f, IsShaped(f), NEW t \in Nat, NEW g, g = Sized(f, t)
    PROVE  IsShaped(g) /\ g.Opts = f.Opts /\ g.Size = t /\ g.Meta = f.Meta
           /\ g = [Opts |-> f.Opts, Size |-> t, Meta |-> f.Meta]
<1>1. f = [Opts |-> f.Opts, Size |-> f.Size, Meta |-> f.Meta]
  BY Zenon DEF IsShaped
<1>2. g = [Opts |-> f.Opts, Size |-> t, Meta |-> f.Meta]
  BY <1>1 DEF Sized
<1>3. g.Opts = f.Opts /\ g.Size = t /\ g.Meta = f.Meta
  BY <1>2
<1> QED  BY <1>2, <1>3 DEF IsShaped

LEMMA PartBetween ==
    ASSUME NEW n \in Nat \ {0}, NEW x \in Nat, NEW t \in Nat, x < t, x \div n = t \div n
    PROVE  (t - 1) \div n = t \div n
<1>1. PICK q \in Nat, r \in 0 .. n - 1 : q = x \div n /\ x = n * q + r
  BY DivMod, Zenon
<1>2. PICK d \in Nat, u \in 0 .. n - 1 : d = t \div n /\ t = n * d + u
  BY DivMod, Zenon
<1>3. q = d
  BY <1>1, <1>2, Zenon
<1>4. PICK y \in Nat : y = n * d
  OBVIOUS
<1>5. r < u /\ u - 1 \in 0 .. n - 1 /\ t - 1 = y + (u - 1)
  BY <1>1, <1>2, <1>3, <1>4
<1>6. (n * d + (u - 1)) \div n = d
  BY <1>5, Quotient
<1> QED  BY <1>2, <1>4, <1>5, <1>6, Zenon

\* The offset "n" bytes after "o", and an ijson command with its newline.
After(o, n) == o + n
IsOne(n) == n = 1
Joined(data, n, line, one, both) ==
    (\A i \in 1 .. n : both[i] = data[i]) /\ both[n + 1] = line[one]

\* The newline after an ijson command needs no part that the command did not
\* leave in the cache.
LEMMA CommandIsCached ==
    ASSUME NEW f, IsShaped(f), ~f.Opts.Circular, NEW s \in Nat, s = f.Size,
           NEW es, NEW under, NEW new, NEW data, NEW n \in Nat \ {0}, NEW one \in Nat, IsOne(one),
           NEW t \in Nat, t = After(s, n), NEW g, g = Sized(f, t),
           NEW u \in Nat, u = After(t, one), NEW h, h = Sized(g, u),
           IsOverlay(f, g, es, new, under, s, n, data)
    PROVE  KeptAreCached(g, h, new, under, t, one)
<1> USE DEF After, IsOne
<1>1. IsShaped(g) /\ g.Opts = f.Opts /\ g.Size = t
  BY SizedIs
<1>2. h.Opts = f.Opts /\ h.Size = u
  BY <1>1, SizedIs
<1>3. DataStartIdx(h) = 0
  BY <1>2 DEF DataStartIdx
<1>4. \A o : partIdxAtOffset(g, o) = o \div PartSize /\ partIdxAtOffset(f, o) = o \div PartSize
  BY <1>1 DEF partIdxAtOffset
<1>5. PartSize \in Nat \ {0}
  BY PartSizeAssumption
<1>6. ASSUME NEW x \in 0 .. u - 1, x \notin t .. t, partIdxAtOffset(g, x) = partIdxAtOffset(g, t)
      PROVE  partIdxAtOffset(g, x) \in DOMAIN new
  <2>1. x \in Nat /\ x < t
    BY <1>6
  <2>2. x \div PartSize = t \div PartSize
    BY <1>4, <1>6, Zenon
  <2>3. (t - 1) \div PartSize = t \div PartSize
    BY <1>5, <2>1, <2>2, PartBetween
  <2>4. t - 1 \in s .. s + n - 1
    OBVIOUS
  <2>5. partIdxAtOffset(f, t - 1) \in DOMAIN new
    BY <2>4 DEF IsOverlay
  <2>6. partIdxAtOffset(f, t - 1) = partIdxAtOffset(g, x)
    BY <1>4, <1>6, <2>3, Zenon
  <2> QED  BY <2>5, <2>6, Zenon
<1>7. t + 1 - 1 = t
  OBVIOUS
<1>8. KeptAreCached(g, h, new, under, t, 1)
  BY SMTT(30), <1>2, <1>3, <1>6, <1>7 DEF KeptAreCached
<1> QED  BY <1>8

LEMMA TwoWrites ==
    ASSUME NEW f, IsShaped(f), ~f.Opts.Circular, NEW s \in Nat, s = f.Size,
           NEW es, NEW under, NEW mid, NEW new,
           NEW n \in Nat, NEW data, NEW one \in Nat, IsOne(one), NEW line,
           NEW t \in Nat, t = After(s, n), NEW g, g = Sized(f, t),
           NEW u \in Nat, u = After(t, one), NEW h, h = Sized(g, u),
           IsOverlay(f, g, es, mid, under, s, n, data), IsOverlay(g, h, mid, new, under, t, one, line),
           NEW m \in Nat, m = After(n, one), NEW both, Joined(data, n, line, one, both)
    PROVE  IsOverlay(f, h, es, new, under, s, m, both)
<1> USE DEF After, IsOne, Joined
<1>1. IsShaped(g) /\ g.Opts = f.Opts /\ g.Size = t
  BY SizedIs
<1>2. h.Opts = f.Opts /\ h.Size = u
  BY <1>1, SizedIs
<1>3. DataStartIdx(h) = 0 /\ DataStartIdx(g) = 0 /\ DataStartIdx(f) = 0
  BY <1>1, <1>2 DEF DataStartIdx
<1>4. ASSUME NEW o \in 0 .. u - 1
      PROVE  /\ o \notin s .. s + m - 1 => o \in 0 .. s - 1
             /\ Byte(h, Lay(new, under), o) =
                   IF o \in s .. s + m - 1 THEN both[o - s + 1] ELSE Byte(f, Lay(es, under), o)
  <2>1. CASE o = t
    <3>1. o \in t .. t + one - 1 /\ o - t + 1 = one /\ o \in s .. s + m - 1 /\ o - s + 1 = m
      BY <2>1
    <3>2. Byte(h, Lay(new, under), o) = line[o - t + 1]
      BY <1>2, <1>3, <3>1 DEF IsOverlay
    <3> QED  BY <2>1, <3>1, <3>2
  <2>2. CASE o # t
    <3>1. o \notin t .. t + one - 1 /\ o \in 0 .. t - 1
      BY <2>2
    <3>2. Byte(h, Lay(new, under), o) = Byte(g, Lay(mid, under), o)
      BY <1>2, <1>3, <3>1 DEF IsOverlay
    <3>3. CASE o \in s .. s + n - 1
      <4>1. Byte(g, Lay(mid, under), o) = data[o - s + 1]
        BY <1>1, <1>3, <3>1, <3>3 DEF IsOverlay
      <4>2. o - s + 1 \in 1 .. n /\ o \in s .. s + m - 1
        BY <3>3
      <4> QED  BY <3>2, <4>1, <4>2
    <3>4. CASE o \notin s .. s + n - 1
      <4>1. Byte(g, Lay(mid, under), o) = Byte(f, Lay(es, under), o)
        BY <1>1, <1>3, <3>1, <3>4 DEF IsOverlay
      <4>2. o \notin s .. s + m - 1 /\ o \in 0 .. s - 1
        BY <3>1, <3>4
      <4> QED  BY <3>2, <4>1, <4>2
    <3> QED  BY <3>3, <3>4
  <2> QED  BY <2>1, <2>2
<1>5. ASSUME NEW o \in s .. s + m - 1 PROVE partIdxAtOffset(f, o) \in DOMAIN new
  <2>1. CASE o = t
    <3>1. partIdxAtOffset(g, t) \in DOMAIN new
      <4>1. t \in t .. t + one - 1
        OBVIOUS
      <4> QED  BY <1>1, <4>1 DEF IsOverlay
    <3>2. partIdxAtOffset(g, t) = partIdxAtOffset(f, t)
      BY <1>1 DEF partIdxAtOffset
    <3> QED  BY <2>1, <3>1, <3>2
  <2>2. CASE o # t
    <3>1. o \in s .. s + n - 1
      BY <1>5, <2>2
    <3>2. partIdxAtOffset(f, o) \in DOMAIN mid
      BY <3>1 DEF IsOverlay
    <3> QED  BY <3>2 DEF IsOverlay
  <2> QED  BY <2>1, <2>2
<1>6. IsParts(new) /\ DOMAIN es \subseteq DOMAIN new
  BY DEF IsOverlay
<1> QED  BY <1>1, <1>2, <1>3, <1>4, <1>5, <1>6 DEF IsOverlay

-----------------------------------------------------------------------------
(* What a write does to the file of FileContent                            *)

Bytes(f, ps) == [o \in DataStartIdx(f) .. f.Size - 1 |-> Byte(f, ps, o)]

LEMMA ViewIs ==
    ASSUME NEW f, f # NoFile, NEW ps
    PROVE  View(f, ps) = [Opts |-> f.Opts, Size |-> f.Size, Meta |-> f.Meta, data |-> Bytes(f, ps)]
BY Zenon DEF View, Bytes, Byte

\* The bytes of a file "c" of size "t" with "data" laid over it, or of "data" alone.
LaidByte(d, off, end, data, o) == IF o \in off .. end - 1 THEN data[o - off + 1] ELSE d[o]
LaidOver(c, t, off, data) ==
    [o \in Promise!Window(c.Opts, t) |-> LaidByte(c.data, off, off + Len(data), data, o)]

Contents(c, size, bytes) == [c EXCEPT !.Size = size, !.data = bytes]

LEMMA OverlayIs ==
    ASSUME NEW c, NEW off, NEW data
    PROVE  Promise!Overlay(c, off, data) =
             Contents(c, NewSize(c.Size, off, Len(data)), LaidOver(c, NewSize(c.Size, off, Len(data)), off, data))
<1>1. PICK end : end = off + Len(data)
  OBVIOUS
<1>2. PICK size : size = IF end > c.Size THEN end ELSE c.Size
  OBVIOUS
<1>3. Promise!Overlay(c, off, data) =
        [c EXCEPT !.Size = size,
                  !.data = [o \in Promise!Window(c.Opts, size) |->
                              IF o \in off .. end - 1 THEN data[o - off + 1] ELSE c.data[o]]]
  BY <1>1, <1>2, Zenon DEF Promise!Overlay
<1>4. NewSize(c.Size, off, Len(data)) = size
  BY <1>1, <1>2, Zenon DEF NewSize
<1>5. LaidOver(c, size, off, data) =
        [o \in Promise!Window(c.Opts, size) |->
           IF o \in off .. end - 1 THEN data[o - off + 1] ELSE c.data[o]]
  BY <1>1, Zenon DEF LaidOver, LaidByte
<1> QED  BY <1>3, <1>4, <1>5, Zenon DEF Contents

LEMMA ReplacedIs ==
    ASSUME NEW c, NEW data
    PROVE  Promise!Replaced(c, data) =
             Contents(c, Len(data), [o \in Promise!Window(c.Opts, Len(data)) |-> data[o + 1]])
BY Zenon DEF Promise!Replaced, Contents

LEMMA ContentsIs ==
    ASSUME NEW opts, NEW s, NEW meta, NEW d, NEW c, c = [Opts |-> opts, Size |-> s, Meta |-> meta, data |-> d],
           NEW t, NEW e
    PROVE  Contents(c, t, e) = [Opts |-> opts, Size |-> t, Meta |-> meta, data |-> e]
<1>1. PICK b : b = [c EXCEPT !.Size = t]
  OBVIOUS
<1>2. b = [Opts |-> opts, Size |-> t, Meta |-> meta, data |-> d]
  BY <1>1
<1>3. Contents(c, t, e) = [b EXCEPT !.data = e]
  BY <1>1, Zenon DEF Contents
<1> QED  BY <1>2, <1>3

LEMMA WindowIs ==
    ASSUME NEW f, NEW t, f.Size = t
    PROVE  Promise!Window(f.Opts, t) = DataStartIdx(f) .. t - 1
BY Zenon DEF Promise!Window, Promise!WindowStart, DataStartIdx

LEMMA OverlayView ==
    ASSUME NEW f, IsShaped(f), NEW s \in Nat, s = f.Size, NEW off \in Nat,
           NEW data, NEW n \in Nat, n = Len(data),
           NEW t \in Nat, t = NewSize(s, off, n), NEW g, g = Sized(f, t), f # NoFile, g # NoFile,
           NEW es, NEW new, NEW under, IsOverlay(f, g, es, new, under, off, n, data),
           NEW before, before = Lay(es, under), NEW after, after = Lay(new, under)
    PROVE  View(g, after) = Promise!Overlay(View(f, before), off, data)
<1>1. IsShaped(g) /\ g.Opts = f.Opts /\ g.Size = t /\ g.Meta = f.Meta
  BY SizedIs
<1>2. PICK d : d = Bytes(f, before)
  OBVIOUS
<1>3. PICK c : c = View(f, before)
  OBVIOUS
<1>4. c = [Opts |-> f.Opts, Size |-> s, Meta |-> f.Meta, data |-> d]
  BY <1>2, <1>3, ViewIs, Zenon
<1>5. c.Size = s /\ c.Opts = f.Opts /\ c.data = d
  BY <1>4
<1>6. PICK e : e = LaidOver(c, t, off, data)
  OBVIOUS
<1>7. Promise!Overlay(c, off, data) = Contents(c, t, e)
  BY <1>5, <1>6, OverlayIs, Zenon
<1>8. Contents(c, t, e) = [Opts |-> f.Opts, Size |-> t, Meta |-> f.Meta, data |-> e]
  BY <1>4, ContentsIs
<1>9. View(g, after) = [Opts |-> f.Opts, Size |-> t, Meta |-> f.Meta, data |-> Bytes(g, after)]
  BY <1>1, ViewIs, Zenon
<1>10. Promise!Window(c.Opts, t) = DataStartIdx(g) .. t - 1
  BY <1>1, <1>5, WindowIs, ZenonT(40)
<1>11. e = [o \in DataStartIdx(g) .. t - 1 |-> LaidByte(d, off, off + n, data, o)]
  BY <1>5, <1>6, <1>10, Zenon DEF LaidOver
<1>12. Bytes(g, after) = [o \in DataStartIdx(g) .. t - 1 |-> Byte(g, after, o)]
  BY <1>1, Zenon DEF Bytes
<1>13. ASSUME NEW o \in DataStartIdx(g) .. t - 1
       PROVE  Byte(g, after, o) = LaidByte(d, off, off + n, data, o)
  <2>1. /\ o \notin off .. off + n - 1 => o \in DataStartIdx(f) .. s - 1
        /\ Byte(g, after, o) = IF o \in off .. off + n - 1 THEN data[o - off + 1] ELSE Byte(f, before, o)
    BY <1>1 DEF IsOverlay
  <2>2. o \in DataStartIdx(f) .. s - 1 => d[o] = Byte(f, before, o)
    BY <1>2 DEF Bytes
  <2> QED  BY <2>1, <2>2 DEF LaidByte
<1>14. e = Bytes(g, after)
  BY <1>11, <1>12, <1>13, ZenonT(40)
<1> QED  BY <1>3, <1>7, <1>8, <1>9, <1>14, Zenon

LEMMA RewriteView ==
    ASSUME NEW f, IsShaped(f), NEW data, NEW n \in Nat, n = Len(data), NEW g, g = Sized(f, n), f # NoFile, g # NoFile,
           NEW new, IsRewritten(g, new, data), NEW old, NEW under, NEW after, after = Lay(new, under)
    PROVE  View(g, after) = Promise!Replaced(View(f, old), data)
<1>1. IsShaped(g) /\ g.Opts = f.Opts /\ g.Size = n /\ g.Meta = f.Meta
  BY SizedIs
<1>2. PICK c : c = View(f, old)
  OBVIOUS
<1>3. c = [Opts |-> f.Opts, Size |-> f.Size, Meta |-> f.Meta, data |-> Bytes(f, old)]
  BY <1>2, ViewIs, Zenon
<1>4. c.Opts = f.Opts
  BY <1>3
<1>5. PICK e : e = [o \in Promise!Window(c.Opts, n) |-> data[o + 1]]
  OBVIOUS
<1>6. Promise!Replaced(c, data) = Contents(c, n, e)
  BY <1>5, ReplacedIs, Zenon
<1>7. Contents(c, n, e) = [Opts |-> f.Opts, Size |-> n, Meta |-> f.Meta, data |-> e]
  BY <1>3, ContentsIs
<1>8. View(g, after) = [Opts |-> f.Opts, Size |-> n, Meta |-> f.Meta, data |-> Bytes(g, after)]
  BY <1>1, ViewIs, Zenon
<1>9. e = [o \in DataStartIdx(g) .. n - 1 |-> data[o + 1]]
  BY <1>1, <1>4, <1>5, WindowIs, ZenonT(40)
<1>10. Bytes(g, after) = [o \in DataStartIdx(g) .. n - 1 |-> Byte(g, after, o)]
  BY <1>1, Zenon DEF Bytes
<1>11. ASSUME NEW o \in DataStartIdx(g) .. n - 1 PROVE Byte(g, after, o) = data[o + 1]
  BY <1>1 DEF IsRewritten
<1>12. e = Bytes(g, after)
  BY <1>9, <1>10, <1>11, Zenon
<1> QED  BY <1>2, <1>6, <1>7, <1>8, <1>12, Zenon

-----------------------------------------------------------------------------
(* The inductive invariant                                                 *)

IsFile(f) ==
    /\ f = [Opts |-> f.Opts, Size |-> f.Size, Meta |-> f.Meta]
    /\ f.Opts \in StoredOpts
    /\ f.Size \in Nat
    /\ f.Meta \in Uses(f.Opts).metas

IsRow(f) == IsFile(f) /\ f.Size <= Uses(f.Opts).size

RowsInv ==
    /\ IsParts(dbParts)
    /\ dbFile # NoFile => IsRow(dbFile)
    /\ dbFile = NoFile => dbParts = NoParts

CacheInv ==
    /\ IsParts(entries)
    /\ file # NoFile => IsRow(file) /\ dbFile # NoFile /\ file.Opts = dbFile.Opts
    /\ file = NoFile => entries = NoParts /\ flushErrors = 0 /\ ijson = NoCounters
    /\ flushErrors \in 0 .. MaxFlushErrors

IInv == RowsInv /\ CacheInv

LEMMA FileIsShaped ==
    ASSUME NEW f, IsFile(f)
    PROVE  IsShaped(f)
<1>1. WholeOpts(f.Opts)
  BY StoredFacts DEF IsFile
<1> QED  BY <1>1 DEF IsShaped, IsFile

LEMMA RowIsShaped ==
    ASSUME NEW f, IsRow(f)
    PROVE  IsShaped(f) /\ f # NoFile
<1>1. PICK opts \in StoredOpts : opts = f.Opts
  BY DEF IsRow, IsFile
<1>2. f = [Opts |-> opts, Size |-> f.Size, Meta |-> f.Meta]
  BY <1>1 DEF IsRow, IsFile
<1>3. Uses(opts).size \in Nat
  BY StoredFacts
<1>4. f \in [Opts : {opts}, Size : 0 .. Uses(opts).size, Meta : Uses(opts).metas]
  <2>1. f.Size \in 0 .. Uses(opts).size /\ f.Meta \in Uses(opts).metas /\ opts \in {opts}
    BY <1>1, <1>3 DEF IsRow, IsFile
  <2> QED  BY <1>2, <2>1
<1>5. f # NoFile
  BY <1>4, NoFileAssumption
<1> QED  BY <1>5, FileIsShaped DEF IsRow

LEMMA LayIsParts ==
    ASSUME NEW over, IsParts(over), NEW under, IsParts(under)
    PROVE  IsParts(Lay(over, under))
<1>1. ASSUME NEW p \in DOMAIN over \cup DOMAIN under
      PROVE  (IF p \in DOMAIN over THEN over[p] ELSE under[p]) \in [0 .. PartSize - 1 -> Int]
  BY DEF IsParts
<1> QED  BY <1>1 DEF IsParts, Lay

LEMMA NoPartsAreParts == IsParts(NoParts)
BY DEF IsParts, NoParts

LEMMA WithPartsAreParts ==
    ASSUME NEW es, IsParts(es), IsParts(dbParts), NEW wanted
    PROVE  IsParts(WithParts(es, wanted))
<1>1. PICK from : from = (wanted \ DOMAIN es) \cap DOMAIN dbParts
  OBVIOUS
<1>2. IsParts(Restrict(dbParts, from))
  BY <1>1 DEF IsParts, Restrict
<1>3. WithParts(es, wanted) = Lay(es, Restrict(dbParts, from))
  BY <1>1, Zenon DEF WithParts
<1> QED  BY <1>2, <1>3, LayIsParts

\* Which file there is, and what is done with it.
LEMMA LoadedFacts ==
    ASSUME IInv, Loaded # NoFile
    PROVE  /\ IsRow(Loaded) /\ IsShaped(Loaded)
           /\ dbFile # NoFile /\ IsRow(dbFile) /\ Loaded.Opts = dbFile.Opts
           /\ IsParts(entries) /\ IsParts(dbParts)
           /\ Loaded.Size \in Nat
           /\ Uses(Loaded.Opts).payloads \subseteq Seq(Int)
<1>1. IsRow(Loaded) /\ dbFile # NoFile /\ IsRow(dbFile) /\ Loaded.Opts = dbFile.Opts
  BY DEF IInv, RowsInv, CacheInv, Loaded
<1>2. IsShaped(Loaded)
  BY <1>1, RowIsShaped
<1>3. Uses(Loaded.Opts).payloads \subseteq Seq(Int)
  BY <1>1, StoredFacts DEF IsRow, IsFile
<1> QED  BY <1>1, <1>2, <1>3 DEF IInv, RowsInv, CacheInv, IsShaped

\* A step in the cache only.
LEMMA CachedInv ==
    ASSUME IInv, Loaded # NoFile, dbFile' = dbFile, dbParts' = dbParts,
           IsRow(file'), file'.Opts = Loaded.Opts, IsParts(entries'), flushErrors' \in 0 .. MaxFlushErrors
    PROVE  IInv'
<1>1. dbFile # NoFile /\ Loaded.Opts = dbFile.Opts
  BY LoadedFacts
<1>2. file' # NoFile
  BY RowIsShaped
<1> QED  BY <1>1, <1>2 DEF IInv, RowsInv, CacheInv, IsRow, IsFile, IsParts

LEMMA ClearedInv ==
    ASSUME Clear, RowsInv'
    PROVE  IInv'
BY NoPartsAreParts DEF IInv, CacheInv, Clear, IsParts, NoParts, MaxFlushErrors

LEMMA WriteOverRow ==
    ASSUME NEW f, IsFile(f), NEW es, IsParts(es), NEW off \in Nat, NEW data \in Seq(Int),
           NEW w, w = WriteOver(f, es, off, data)
    PROVE  /\ IsParts(w.entries) /\ IsFile(w.file) /\ w.file.Opts = f.Opts
           /\ w.file.Size <= Uses(w.file.Opts).size => IsRow(w.file)
<1>1. IsShaped(f)
  BY FileIsShaped
<1>2. PICK n \in Nat : n = Len(data)
  BY LenProperties
<1>3. PICK s \in Nat : s = f.Size
  BY <1>1 DEF IsShaped
<1>4. IsParts(w.entries) /\ \E t \in Nat : w.file = Sized(f, t)
  BY <1>1, <1>2, <1>3, WriteOverShape
<1>5. PICK t \in Nat : w.file = Sized(f, t)
  BY <1>4
<1>6. PICK g : g = w.file
  OBVIOUS
<1>7. g = [Opts |-> f.Opts, Size |-> t, Meta |-> f.Meta] /\ g.Opts = f.Opts /\ g.Meta = f.Meta /\ g.Size = t
  BY <1>1, <1>5, <1>6, SizedIs
<1>8. IsFile(g)
  BY <1>7 DEF IsFile
<1> QED  BY <1>4, <1>6, <1>7, <1>8 DEF IsRow

LEMMA RewriteRow ==
    ASSUME NEW f, IsFile(f), NEW es, NEW data \in Seq(Int), NEW w, w = Rewrite(f, es, data)
    PROVE  /\ IsParts(w.entries) /\ IsFile(w.file) /\ w.file.Opts = f.Opts
           /\ w.file.Size <= Uses(w.file.Opts).size => IsRow(w.file)
<1>1. IsShaped(f)
  BY FileIsShaped
<1>2. PICK n \in Nat : n = Len(data)
  BY LenProperties
<1>3. PICK M \in Nat : M = f.Opts.MaxSize
  BY <1>1 DEF IsShaped, WholeOpts, OptionType
<1>4. PICK g : g = Sized(f, n)
  OBVIOUS
<1>5. w.file = g /\ IsRewritten(g, w.entries, data)
  BY <1>1, <1>2, <1>3, <1>4, RewriteBytes
<1>6. g = [Opts |-> f.Opts, Size |-> n, Meta |-> f.Meta] /\ g.Opts = f.Opts /\ g.Meta = f.Meta /\ g.Size = n
  BY <1>1, <1>4, SizedIs
<1>7. IsFile(g)
  BY <1>6 DEF IsFile
<1> QED  BY <1>5, <1>6, <1>7 DEF IsRewritten, IsRow

\* What a cached write does, with the parts that it loads.
LEMMA CacheWriteIs ==
    ASSUME NEW f, NEW es, NEW off, NEW data, CacheWrite(f, es, off, data, FALSE)
    PROVE  \E w : /\ w = WriteOver(f, es, off, data) /\ w.file.Size <= Uses(w.file.Opts).size
                  /\ file' = w.file /\ entries' = w.entries
BY Zenon DEF CacheWrite, WriteOver

LEMMA CompactIs ==
    ASSUME NEW f, NEW es, Compact(f, es)
    PROVE  \E data, w :
              /\ data \in Uses(f.Opts).payloads
              /\ w = Rewrite(f, es, data) /\ w.file.Size <= Uses(w.file.Opts).size
              /\ file' = w.file /\ entries' = w.entries
BY Zenon DEF Compact, CacheWrite, Rewrite

LEMMA WriteFileIs ==
    ASSUME NEW data, WriteFile(data)
    PROVE  \E w : /\ w = Rewrite(Loaded, entries, data) /\ w.file.Size <= Uses(w.file.Opts).size
                  /\ FlushToDB(w.file, w.entries, LoadedIJson, TRUE)
BY Zenon DEF WriteFile, Rewrite

\* The flush of the entry [f, es], onto the parts "base".
Commits(f, es, counters, base) ==
    /\ dbFile'  = [dbFile EXCEPT !.Size = f.Size, !.Meta = f.Meta]
    /\ dbParts' = Lay(es, base)
    /\ \/ Clear
       \/ Keep(f, es, counters) /\ flushErrors' = flushErrors

Fails(f, es, counters) ==
    /\ dbFile' = dbFile /\ dbParts' = dbParts
    /\ \/ Keep(f, es, counters) /\ flushErrors' = flushErrors
       \/ flushErrors + 1 > MaxFlushErrors /\ Clear
       \/ flushErrors + 1 <= MaxFlushErrors /\ flushErrors' = flushErrors + 1 /\ Keep(f, es, counters)

LEMMA FlushIs ==
    ASSUME NEW f, NEW es, NEW counters, NEW replace, FlushToDB(f, es, counters, replace)
    PROVE  Commits(f, es, counters, IF replace THEN NoParts ELSE dbParts) \/ Fails(f, es, counters)
BY Zenon DEF FlushToDB, Commits, Fails, dbVars

LEMMA FlushOntoRows ==
    ASSUME NEW f, NEW es, NEW counters, FlushToDB(f, es, counters, FALSE)
    PROVE  Commits(f, es, counters, dbParts) \/ Fails(f, es, counters)
BY FlushIs, Zenon

LEMMA FlushReplaces ==
    ASSUME NEW f, NEW es, NEW counters, FlushToDB(f, es, counters, TRUE)
    PROVE  Commits(f, es, counters, NoParts) \/ Fails(f, es, counters)
BY FlushIs, Zenon

\* A flush that commits makes the row what the entry is.
LEMMA FlushedRow ==
    ASSUME NEW f, IsRow(f), IsRow(dbFile), f.Opts = dbFile.Opts,
           NEW row, row = [dbFile EXCEPT !.Size = f.Size, !.Meta = f.Meta]
    PROVE  row = f
<1>1. PICK s : s = f.Size
  OBVIOUS
<1>2. PICK m : m = f.Meta
  OBVIOUS
<1>3. PICK opts : opts = f.Opts
  OBVIOUS
<1>4. PICK d : d = dbFile
  OBVIOUS
<1>5. d = [Opts |-> opts, Size |-> d.Size, Meta |-> d.Meta]
  BY <1>3, <1>4 DEF IsRow, IsFile
<1>6. PICK b : b = [d EXCEPT !.Size = s]
  OBVIOUS
<1>7. b = [Opts |-> opts, Size |-> s, Meta |-> d.Meta]
  BY <1>5, <1>6
<1>8. row = [b EXCEPT !.Meta = m]
  BY <1>1, <1>2, <1>4, <1>6, Zenon
<1>9. row = [Opts |-> opts, Size |-> s, Meta |-> m]
  BY <1>7, <1>8
<1> QED  BY <1>1, <1>2, <1>3, <1>9, Zenon DEF IsRow, IsFile

LEMMA FlushedInv ==
    ASSUME IInv, Loaded # NoFile, NEW f, IsRow(f), f.Opts = Loaded.Opts, NEW es, IsParts(es),
           NEW base, IsParts(base), NEW counters,
           Commits(f, es, counters, base) \/ Fails(f, es, counters)
    PROVE  IInv'
<1>1. /\ dbFile # NoFile /\ IsRow(dbFile) /\ f.Opts = dbFile.Opts /\ IsParts(dbParts)
      /\ flushErrors \in 0 .. MaxFlushErrors
  BY LoadedFacts DEF IInv, CacheInv
<1>2. f # NoFile
  BY RowIsShaped
<1>3. CASE Commits(f, es, counters, base)
  <2>1. dbFile' = f
    BY <1>1, <1>3, FlushedRow DEF Commits
  <2>2. IsParts(dbParts')
    BY <1>3, LayIsParts DEF Commits
  <2>3. RowsInv'
    BY <1>2, <2>1, <2>2 DEF RowsInv, IsRow, IsFile, IsParts
  <2>4. CASE Clear
    BY <2>3, <2>4, ClearedInv
  <2>5. CASE file' = f /\ entries' = es /\ flushErrors' = flushErrors
    BY <1>1, <1>2, <2>1, <2>3, <2>5 DEF IInv, CacheInv, IsRow, IsFile, IsParts
  <2> QED  BY <1>3, <2>4, <2>5 DEF Commits, Keep
<1>4. CASE dbFile' = dbFile /\ dbParts' = dbParts /\ Clear
  <2>1. RowsInv'
    BY <1>4 DEF IInv, RowsInv, IsRow, IsFile, IsParts
  <2> QED  BY <1>4, <2>1, ClearedInv
<1>5. CASE /\ dbFile' = dbFile /\ dbParts' = dbParts /\ file' = f /\ entries' = es
           /\ flushErrors' \in 0 .. MaxFlushErrors
  <2>1. IsRow(file') /\ file'.Opts = Loaded.Opts /\ IsParts(entries')
    BY <1>5
  <2> QED  BY <1>5, <2>1, CachedInv
<1>6. flushErrors + 1 <= MaxFlushErrors => flushErrors + 1 \in 0 .. MaxFlushErrors
  BY <1>1 DEF MaxFlushErrors
<1> QED  BY <1>1, <1>3, <1>4, <1>5, <1>6 DEF Fails, Keep

LEMMA InitInv == Init => IInv
BY NoPartsAreParts DEF Init, IInv, RowsInv, CacheInv, MaxFlushErrors

LEMMA MakeInv ==
    ASSUME IInv, NEW opts \in MakeOpts, NEW meta \in Uses(opts).metas, MakeFile(opts, meta)
    PROVE  IInv'
<1>1. PICK stored \in StoredOpts : stored = RoundedOpts(opts)
  BY DEF MakeFile, StoredOpts
<1>2. Uses(stored) = Uses(opts) /\ Uses(stored).size \in Nat
  BY <1>1, UsesAssumption
<1>3. dbFile' = [Opts |-> stored, Size |-> 0, Meta |-> meta]
  BY <1>1, Zenon DEF MakeFile
<1>4. IsRow(dbFile')
  BY <1>2, <1>3 DEF IsRow, IsFile
<1>5. dbFile' # NoFile
  BY <1>4, RowIsShaped
<1>6. UNCHANGED <<dbParts, file, entries, flushErrors, ijson>> /\ file = NoFile
  BY Zenon DEF MakeFile, cacheVars
<1> QED  BY <1>4, <1>5, <1>6 DEF IInv, RowsInv, CacheInv, IsRow, IsFile, IsParts

LEMMA DeleteInv ==
    ASSUME DeleteFile PROVE IInv'
<1>1. RowsInv'
  BY NoPartsAreParts DEF DeleteFile, RowsInv, IsParts, NoParts
<1> QED  BY <1>1, ClearedInv DEF DeleteFile

LEMMA CrashInv ==
    ASSUME IInv, Crash PROVE IInv'
<1>1. RowsInv'
  BY DEF Crash, dbVars, IInv, RowsInv, IsRow, IsFile, IsParts
<1> QED  BY <1>1, ClearedInv DEF Crash

LEMMA FailInv ==
    ASSUME IInv, FailAfterLoad PROVE IInv'
<1>1. Loaded = dbFile /\ Loaded # NoFile
  BY DEF FailAfterLoad, Loaded
<1>2. IsRow(dbFile)
  BY <1>1, LoadedFacts
<1>3. /\ file' = dbFile /\ entries' = entries /\ flushErrors' = flushErrors
      /\ dbFile' = dbFile /\ dbParts' = dbParts
  BY DEF FailAfterLoad, dbVars
<1>4. IsRow(file') /\ file'.Opts = Loaded.Opts /\ IsParts(entries') /\ flushErrors' \in 0 .. MaxFlushErrors
  BY <1>1, <1>2, <1>3 DEF IInv, CacheInv
<1> QED  BY <1>1, <1>3, <1>4, CachedInv

LEMMA MetaRow ==
    ASSUME NEW f, IsRow(f), NEW meta \in Uses(f.Opts).metas, NEW g, g = [f EXCEPT !.Meta = meta]
    PROVE  IsRow(g) /\ g.Opts = f.Opts /\ g.Size = f.Size /\ g = [Opts |-> f.Opts, Size |-> f.Size, Meta |-> meta]
<1>1. PICK s, opts, old : f = [Opts |-> opts, Size |-> s, Meta |-> old]
  BY DEF IsRow, IsFile
<1>2. g = [Opts |-> opts, Size |-> s, Meta |-> meta]
  BY <1>1
<1> QED  BY <1>1, <1>2 DEF IsRow, IsFile

LEMMA WriteMetaIs ==
    ASSUME IInv, Loaded # NoFile, NEW meta, NEW merge \in BOOLEAN, WriteMeta(meta, merge),
           IF merge THEN meta \in Uses(Loaded.Opts).patches ELSE meta \in Uses(Loaded.Opts).metas
    PROVE  \E m \in Uses(Loaded.Opts).metas :
              /\ file' = [Loaded EXCEPT !.Meta = m] /\ entries' = entries /\ flushErrors' = flushErrors
              /\ dbFile' = dbFile /\ dbParts' = dbParts
<1>1. entries' = entries /\ flushErrors' = flushErrors /\ dbFile' = dbFile /\ dbParts' = dbParts
  BY Zenon DEF WriteMeta, dbVars
<1>2. PICK m : m = IF merge THEN Lay(meta, Loaded.Meta) ELSE meta
  OBVIOUS
<1>3. file' = [Loaded EXCEPT !.Meta = m]
  BY <1>2, Zenon DEF WriteMeta
<1>4. IsRow(Loaded)
  BY LoadedFacts
<1>5. m \in Uses(Loaded.Opts).metas
  BY <1>2, <1>4, StoredFacts DEF IsRow, IsFile
<1> QED  BY <1>1, <1>3, <1>5, Zenon

LEMMA WriteMetaInv ==
    ASSUME IInv, Loaded # NoFile, NEW meta, NEW merge \in BOOLEAN, WriteMeta(meta, merge),
           IF merge THEN meta \in Uses(Loaded.Opts).patches ELSE meta \in Uses(Loaded.Opts).metas
    PROVE  IInv'
<1>1. PICK m \in Uses(Loaded.Opts).metas :
         /\ file' = [Loaded EXCEPT !.Meta = m] /\ entries' = entries /\ flushErrors' = flushErrors
         /\ dbFile' = dbFile /\ dbParts' = dbParts
  BY WriteMetaIs, Zenon
<1>2. IsRow(Loaded) /\ IsParts(entries)
  BY LoadedFacts
<1>3. IsRow(file') /\ file'.Opts = Loaded.Opts
  BY <1>1, <1>2, MetaRow, Zenon
<1>4. IsParts(entries') /\ flushErrors' \in 0 .. MaxFlushErrors
  BY <1>1, <1>2 DEF IInv, CacheInv
<1> QED  BY <1>1, <1>3, <1>4, CachedInv

LEMMA WriteAtIs ==
    ASSUME NEW off, NEW data, WriteAt(off, data)
    PROVE  /\ Loaded # NoFile /\ (StaleOffsets \/ off >= DataStartIdx(Loaded))
           /\ dbFile' = dbFile /\ dbParts' = dbParts /\ flushErrors' = flushErrors
           /\ \E es, w :
                 /\ es = WithParts(entries, incompleteParts(computePartMap(Loaded, off, Len(data))))
                 /\ w = WriteOver(Loaded, es, off, data)
                 /\ w.file.Size <= Uses(w.file.Opts).size /\ file' = w.file /\ entries' = w.entries
<1>1. /\ Loaded # NoFile /\ (StaleOffsets \/ off >= DataStartIdx(Loaded))
      /\ dbFile' = dbFile /\ dbParts' = dbParts /\ flushErrors' = flushErrors
  BY Zenon DEF WriteAt, dbVars
<1>2. PICK es : /\ es = WithParts(entries, incompleteParts(computePartMap(Loaded, off, Len(data))))
                /\ CacheWrite(Loaded, es, off, data, FALSE)
  BY Zenon DEF WriteAt
<1>3. PICK w : /\ w = WriteOver(Loaded, es, off, data) /\ w.file.Size <= Uses(w.file.Opts).size
               /\ file' = w.file /\ entries' = w.entries
  BY <1>2, CacheWriteIs, Zenon
<1> QED  BY <1>1, <1>2, <1>3, Zenon

LEMMA AppendDataIs ==
    ASSUME NEW data, AppendData(data)
    PROVE  /\ Loaded # NoFile
           /\ dbFile' = dbFile /\ dbParts' = dbParts /\ flushErrors' = flushErrors
           /\ \E es, w :
                 /\ es = WithParts(entries, incompleteParts(computePartMap(Loaded, Loaded.Size, Len(data))))
                 /\ w = WriteOver(Loaded, es, Loaded.Size, data)
                 /\ w.file.Size <= Uses(w.file.Opts).size /\ file' = w.file /\ entries' = w.entries
<1>1. Loaded # NoFile /\ dbFile' = dbFile /\ dbParts' = dbParts /\ flushErrors' = flushErrors
  BY Zenon DEF AppendData, dbVars
<1>2. PICK es : /\ es = WithParts(entries, incompleteParts(computePartMap(Loaded, Loaded.Size, Len(data))))
                /\ CacheWrite(Loaded, es, Loaded.Size, data, FALSE)
  BY Zenon DEF AppendData
<1>3. PICK w : /\ w = WriteOver(Loaded, es, Loaded.Size, data) /\ w.file.Size <= Uses(w.file.Opts).size
               /\ file' = w.file /\ entries' = w.entries
  BY <1>2, CacheWriteIs, Zenon
<1> QED  BY <1>1, <1>2, <1>3, Zenon

LEMMA AppendIJsonIs ==
    ASSUME NEW data, AppendIJson(data)
    PROVE  /\ Loaded # NoFile /\ Loaded.Opts.IJson
           /\ dbFile' = dbFile /\ dbParts' = dbParts /\ flushErrors' = flushErrors
           /\ \E es, cmd, line :
                 /\ es = WithParts(entries, incompleteParts(computePartMap(Loaded, Loaded.Size, Len(data))))
                 /\ cmd = WriteOver(Loaded, es, Loaded.Size, data)
                 /\ line = WriteOver(cmd.file, cmd.entries, cmd.file.Size, <<Newline>>)
                 /\ line.file.Size <= Uses(line.file.Opts).size
                 /\ (file' = line.file /\ entries' = line.entries) \/ Compact(line.file, line.entries)
BY Zenon DEF AppendIJson, WriteOver, dbVars

LEMMA PutInv ==
    ASSUME IInv, Loaded # NoFile, NEW off \in Nat, NEW data \in Seq(Int), NEW wanted,
           NEW w, w = WriteOver(Loaded, WithParts(entries, wanted), off, data),
           w.file.Size <= Uses(w.file.Opts).size, file' = w.file, entries' = w.entries,
           dbFile' = dbFile, dbParts' = dbParts, flushErrors' = flushErrors
    PROVE  IInv'
<1>1. IsRow(Loaded) /\ IsParts(entries) /\ IsParts(dbParts)
  BY LoadedFacts
<1>2. IsParts(WithParts(entries, wanted))
  BY <1>1, WithPartsAreParts
<1>3. IsParts(w.entries) /\ w.file.Opts = Loaded.Opts /\ IsRow(w.file)
  BY <1>1, <1>2, WriteOverRow DEF IsRow
<1>4. flushErrors' \in 0 .. MaxFlushErrors
  BY DEF IInv, CacheInv
<1>5. IsRow(file') /\ file'.Opts = Loaded.Opts /\ IsParts(entries')
  BY <1>3
<1> QED  BY <1>4, <1>5, CachedInv

LEMMA CompactInv ==
    ASSUME IInv, Loaded # NoFile, NEW f, IsFile(f), f.Opts = Loaded.Opts, NEW es, Compact(f, es),
           dbFile' = dbFile, dbParts' = dbParts, flushErrors' = flushErrors
    PROVE  IInv'
<1>1. PICK data, w :
         /\ data \in Uses(f.Opts).payloads
         /\ w = Rewrite(f, es, data) /\ w.file.Size <= Uses(w.file.Opts).size
         /\ file' = w.file /\ entries' = w.entries
  BY CompactIs, Zenon
<1>2. data \in Seq(Int)
  BY <1>1, LoadedFacts
<1>3. IsParts(w.entries) /\ w.file.Opts = Loaded.Opts /\ IsRow(w.file)
  BY <1>1, <1>2, RewriteRow
<1>4. flushErrors' \in 0 .. MaxFlushErrors
  BY DEF IInv, CacheInv
<1>5. IsRow(file') /\ file'.Opts = Loaded.Opts /\ IsParts(entries')
  BY <1>1, <1>3
<1> QED  BY <1>4, <1>5, CachedInv

LEMMA AppendIJsonInv ==
    ASSUME IInv, NEW data \in Uses(Loaded.Opts).payloads, AppendIJson(data)
    PROVE  IInv'
<1>1. Loaded # NoFile /\ dbFile' = dbFile /\ dbParts' = dbParts /\ flushErrors' = flushErrors
  BY AppendIJsonIs, Zenon
<1>2. PICK es, cmd, line :
         /\ es = WithParts(entries, incompleteParts(computePartMap(Loaded, Loaded.Size, Len(data))))
         /\ cmd = WriteOver(Loaded, es, Loaded.Size, data)
         /\ line = WriteOver(cmd.file, cmd.entries, cmd.file.Size, <<Newline>>)
         /\ line.file.Size <= Uses(line.file.Opts).size
         /\ (file' = line.file /\ entries' = line.entries) \/ Compact(line.file, line.entries)
  BY AppendIJsonIs, Zenon
<1>3. IsRow(Loaded) /\ IsParts(entries) /\ IsParts(dbParts) /\ data \in Seq(Int) /\ Loaded.Size \in Nat
  BY <1>1, LoadedFacts
<1>4. IsParts(es)
  BY <1>2, <1>3, WithPartsAreParts
<1>5. IsParts(cmd.entries) /\ IsFile(cmd.file) /\ cmd.file.Opts = Loaded.Opts
  <2>0. PICK f : f = Loaded
    OBVIOUS
  <2>1. PICK s \in Nat : f = Loaded /\ s = Loaded.Size
    BY <1>3, <2>0
  <2>2. cmd = WriteOver(f, es, s, data) /\ IsFile(f)
    BY <1>2, <1>3, <2>1 DEF IsRow
  <2>3. IsParts(cmd.entries) /\ IsFile(cmd.file)
    BY <1>3, <1>4, <2>2, WriteOverRow
  <2>4. cmd.file.Opts = f.Opts
    BY <1>3, <1>4, <2>2, <2>3, WriteOverRow
  <2> QED  BY <2>1, <2>3, <2>4
<1>6. PICK newline : newline = <<Newline>>
  OBVIOUS
<1>7. newline \in Seq(Int)
  BY <1>6, OptsAssumption
<1>8. cmd.file.Size \in Nat /\ line = WriteOver(cmd.file, cmd.entries, cmd.file.Size, newline)
  BY <1>2, <1>5, <1>6, Zenon DEF IsFile
<1>9. IsParts(line.entries) /\ IsFile(line.file) /\ line.file.Opts = cmd.file.Opts
  <2>0. PICK f, ces : f = cmd.file /\ ces = cmd.entries
    OBVIOUS
  <2>1. PICK s \in Nat : f = cmd.file /\ ces = cmd.entries /\ s = cmd.file.Size
    BY <1>8, <2>0
  <2>2. line = WriteOver(f, ces, s, newline) /\ IsFile(f) /\ IsParts(ces)
    BY <1>5, <1>8, <2>1
  <2>3. IsParts(line.entries) /\ IsFile(line.file)
    BY <1>7, <2>2, WriteOverRow
  <2>4. line.file.Opts = f.Opts
    BY <1>7, <2>2, <2>3, WriteOverRow
  <2> QED  BY <2>1, <2>3, <2>4
<1>10. IsRow(line.file) /\ line.file.Opts = Loaded.Opts
  BY <1>2, <1>5, <1>9 DEF IsRow
<1>11. CASE Compact(line.file, line.entries)
  BY <1>1, <1>9, <1>10, <1>11, CompactInv
<1>12. CASE file' = line.file /\ entries' = line.entries
  <2>1. IsRow(file') /\ file'.Opts = Loaded.Opts /\ IsParts(entries') /\ flushErrors' \in 0 .. MaxFlushErrors
    BY <1>1, <1>9, <1>10, <1>12 DEF IInv, CacheInv
  <2> QED  BY <1>1, <2>1, CachedInv
<1> QED  BY <1>2, <1>11, <1>12

LEMMA WriteFileInv ==
    ASSUME IInv, NEW data \in Uses(Loaded.Opts).payloads, WriteFile(data)
    PROVE  IInv'
<1>1. Loaded # NoFile
  BY Zenon DEF WriteFile
<1>2. PICK w : /\ w = Rewrite(Loaded, entries, data) /\ w.file.Size <= Uses(w.file.Opts).size
               /\ FlushToDB(w.file, w.entries, LoadedIJson, TRUE)
  BY WriteFileIs, Zenon
<1>3. IsRow(Loaded) /\ data \in Seq(Int)
  BY <1>1, LoadedFacts
<1>4. IsParts(w.entries) /\ w.file.Opts = Loaded.Opts /\ IsRow(w.file)
  BY <1>2, <1>3, RewriteRow DEF IsRow
<1>5. \/ Commits(w.file, w.entries, LoadedIJson, NoParts)
      \/ Fails(w.file, w.entries, LoadedIJson)
  BY <1>2, FlushReplaces, Zenon
<1> QED  BY <1>1, <1>4, <1>5, NoPartsAreParts, FlushedInv

LEMMA FlushInv ==
    ASSUME IInv, FlushEntry
    PROVE  IInv'
<1>1. file # NoFile /\ FlushToDB(file, entries, ijson, FALSE)
  BY DEF FlushEntry
<1>2. Loaded = file /\ Loaded # NoFile
  BY <1>1 DEF Loaded
<1>3. IsRow(file) /\ IsParts(entries) /\ IsParts(dbParts)
  BY <1>1 DEF IInv, CacheInv, RowsInv
<1>4. Commits(file, entries, ijson, dbParts) \/ Fails(file, entries, ijson)
  BY <1>1, FlushOntoRows, Zenon
<1> QED  BY <1>2, <1>3, <1>4, FlushedInv

LEMMA OperationInv ==
    ASSUME IInv, Loaded # NoFile, NEW use, use = Uses(Loaded.Opts), Operation(use)
    PROVE  IInv'
<1>0. Loaded.Size \in Nat /\ use.payloads \subseteq Seq(Int) /\ IsRow(Loaded)
  BY LoadedFacts
<1>1. ASSUME NEW meta \in use.metas, WriteMeta(meta, FALSE) PROVE IInv'
  <2>1. IF FALSE THEN meta \in Uses(Loaded.Opts).patches ELSE meta \in Uses(Loaded.Opts).metas
    OBVIOUS
  <2> QED  BY <1>1, <2>1, WriteMetaInv, Zenon
<1>2. ASSUME NEW patch \in use.patches, WriteMeta(patch, TRUE) PROVE IInv'
  <2>1. IF TRUE THEN patch \in Uses(Loaded.Opts).patches ELSE patch \in Uses(Loaded.Opts).metas
    OBVIOUS
  <2> QED  BY <1>2, <2>1, WriteMetaInv, Zenon
<1>3. ASSUME NEW data \in use.payloads, NEW off \in 0 .. Loaded.Size, WriteAt(off, data) PROVE IInv'
  <2>1. data \in Seq(Int) /\ off \in Nat
    BY <1>0
  <2>2. /\ dbFile' = dbFile /\ dbParts' = dbParts /\ flushErrors' = flushErrors
        /\ \E es, w :
              /\ es = WithParts(entries, incompleteParts(computePartMap(Loaded, off, Len(data))))
              /\ w = WriteOver(Loaded, es, off, data)
              /\ w.file.Size <= Uses(w.file.Opts).size /\ file' = w.file /\ entries' = w.entries
    BY <1>3, WriteAtIs, Zenon
  <2> QED  BY <2>1, <2>2, PutInv
<1>4. ASSUME NEW data \in use.payloads, AppendData(data) PROVE IInv'
  <2>1. data \in Seq(Int) /\ Loaded.Size \in Nat
    BY <1>0
  <2>2. /\ dbFile' = dbFile /\ dbParts' = dbParts /\ flushErrors' = flushErrors
        /\ \E es, w :
              /\ es = WithParts(entries, incompleteParts(computePartMap(Loaded, Loaded.Size, Len(data))))
              /\ w = WriteOver(Loaded, es, Loaded.Size, data)
              /\ w.file.Size <= Uses(w.file.Opts).size /\ file' = w.file /\ entries' = w.entries
    BY <1>4, AppendDataIs, Zenon
  <2> QED  BY <2>1, <2>2, PutInv
<1>5. ASSUME NEW data \in use.payloads, WriteFile(data) PROVE IInv'
  BY <1>5, WriteFileInv, Zenon
<1>6. ASSUME NEW data \in use.payloads, AppendIJson(data) PROVE IInv'
  BY <1>6, AppendIJsonInv, Zenon
<1>7. ASSUME CompactIJson PROVE IInv'
  <2>1. Compact(Loaded, entries) /\ dbFile' = dbFile /\ dbParts' = dbParts /\ flushErrors' = flushErrors
    BY <1>7, Zenon DEF CompactIJson, dbVars
  <2>2. IsFile(Loaded) /\ Loaded.Opts = Loaded.Opts
    BY <1>0 DEF IsRow
  <2> QED  BY <2>1, <2>2, CompactInv, Zenon
<1>8. ASSUME FlushEntry PROVE IInv'
  BY <1>8, FlushInv
<1> QED  BY <1>1, <1>2, <1>3, <1>4, <1>5, <1>6, <1>7, <1>8, Zenon DEF Operation

LEMMA StepInv ==
    ASSUME IInv, [Next]_vars
    PROVE  IInv'
<1>1. ASSUME NEW opts \in MakeOpts, NEW meta \in Uses(opts).metas, MakeFile(opts, meta) PROVE IInv'
  BY <1>1, MakeInv
<1>2. ASSUME DeleteFile PROVE IInv'
  BY <1>2, DeleteInv
<1>3. ASSUME FailAfterLoad PROVE IInv'
  BY <1>3, FailInv
<1>4. ASSUME Loaded # NoFile, Operation(Uses(Loaded.Opts)) PROVE IInv'
  BY <1>4, OperationInv, Zenon
<1>5. ASSUME Crash PROVE IInv'
  BY <1>5, CrashInv
<1>6. ASSUME UNCHANGED vars PROVE IInv'
  BY <1>6 DEF vars, IInv, RowsInv, CacheInv, IsRow, IsFile, IsParts
<1> QED  BY <1>1, <1>2, <1>3, <1>4, <1>5, <1>6, Zenon DEF Next

THEOREM Inductive == Spec => []IInv
BY InitInv, StepInv, PTL DEF Spec

\* The row and the entry keep the shape the code gives them: a cached entry has
\* a row to be flushed to, and a row has the size its options allow.
THEOREM TypeCorrect == Spec => []TypeOK
<1>1. IInv => TypeOK
  <2>1. ASSUME IInv, dbFile # NoFile PROVE ValidOpts(dbFile.Opts) /\ dbFile.Size \in 0 .. Uses(dbFile.Opts).size
    BY <2>1, StoredFacts DEF IInv, RowsInv, IsRow, IsFile
  <2>2. ASSUME IInv, file # NoFile
        PROVE  dbFile # NoFile /\ file.Opts = dbFile.Opts /\ file.Size \in 0 .. Uses(file.Opts).size
    BY <2>2, StoredFacts DEF IInv, CacheInv, IsRow, IsFile
  <2> QED  BY <2>1, <2>2 DEF IInv, RowsInv, CacheInv, TypeOK
<1> QED  BY <1>1, Inductive, PTL

-----------------------------------------------------------------------------
(* Reads                                                                   *)

ReadBytes(f, from, n) ==
    [i \in 1 .. n |->
        PartOr(Restrict(Lay(entries, dbParts),
                        DOMAIN computePartMap(f, from, n) \cap (DOMAIN entries \cup DOMAIN dbParts)),
               partIdxAtOffset(f, from + i - 1))[(from + i - 1) % PartSize]]

LEMMA ReadAtIs ==
    ASSUME NEW f, NEW off, NEW size, NEW n0, n0 = IF off + size > f.Size THEN f.Size - off ELSE size,
           NEW from, from = IF f.Opts.Circular /\ off < DataStartIdx(f) THEN DataStartIdx(f) ELSE off,
           NEW n, n = n0 - (from - off)
    PROVE  readAt(f, off, size) =
             IF f.Opts.Circular /\ n <= 0 THEN <<DataStartIdx(f), <<>>>> ELSE <<from, ReadBytes(f, from, n)>>
BY Zenon DEF readAt, ReadBytes

LEMMA ByteIsInt ==
    ASSUME NEW f, NEW ps, IsParts(ps), NEW o \in Nat
    PROVE  Byte(f, ps, o) \in Int
<1>1. o % PartSize \in 0 .. PartSize - 1
  BY PartSizeAssumption
<1>2. PICK part : part = PartOr(ps, partIdxAtOffset(f, o))
  OBVIOUS
<1>3. part \in [0 .. PartSize - 1 -> Int]
  BY <1>2 DEF PartOr, IsParts, EmptyPart, Zero
<1> QED  BY <1>1, <1>2, <1>3, Zenon DEF Byte

LEMMA LengthIs ==
    ASSUME NEW n \in Nat, NEW q \in [1 .. n -> Int]
    PROVE  Len(q) = n /\ DOMAIN q = 1 .. n /\ (q = <<>> <=> n = 0)
<1>1. q \in Seq(Int)
  BY SeqDef
<1>2. Len(q) \in Nat /\ DOMAIN q = 1 .. Len(q)
  BY <1>1, LenProperties
<1>3. Len(q) = n
  BY <1>2
<1>4. q = <<>> <=> Len(q) = 0
  BY <1>1, EmptySeq
<1> QED  BY <1>3, <1>4

LEMMA BytesAreRead ==
    ASSUME NEW f, WholeOpts(f.Opts), NEW from \in Nat, NEW n \in Nat, NEW i \in 1 .. n,
           NEW o \in Nat, o = from + i - 1
    PROVE  ReadBytes(f, from, n)[i] = Byte(f, Lay(entries, dbParts), o)
<1>1. PICK p : p = partIdxAtOffset(f, o)
  OBVIOUS
<1>2. p \in DOMAIN computePartMap(f, from, n)
  <2>1. o \in from .. from + n - 1
    OBVIOUS
  <2> QED  BY <1>1, <2>1, PartMapDomain
<1>3. PICK ps : ps = Lay(entries, dbParts)
  OBVIOUS
<1>4. PICK read : read = DOMAIN computePartMap(f, from, n) \cap (DOMAIN entries \cup DOMAIN dbParts)
  OBVIOUS
<1>5. PICK loaded : loaded = Restrict(ps, read)
  OBVIOUS
<1>6. ReadBytes(f, from, n)[i] = PartOr(loaded, p)[o % PartSize]
  BY <1>1, <1>3, <1>4, <1>5, Zenon DEF ReadBytes
<1>7. DOMAIN ps = DOMAIN entries \cup DOMAIN dbParts
  BY <1>3 DEF Lay
<1>8. p \in DOMAIN loaded <=> p \in DOMAIN ps
  BY <1>2, <1>4, <1>5, <1>7 DEF Restrict
<1>9. p \in DOMAIN loaded => loaded[p] = ps[p]
  BY <1>5 DEF Restrict
<1>10. PartOr(loaded, p) = PartOr(ps, p)
  BY <1>8, <1>9 DEF PartOr
<1> QED  BY <1>1, <1>3, <1>6, <1>10, Zenon DEF Byte

\* Every ReadAt inside the file returns the bytes of the window, at the offset
\* that it reports.
THEOREM ReadsMatch == Spec => []ReadsMatchContent
<1>1. IInv => ReadsMatchContent
  <2> SUFFICES ASSUME IInv, Loaded # NoFile, NEW off \in 0 .. Loaded.Size, NEW size \in 0 .. Loaded.Size + 1
               PROVE  LET r    == readAt(Loaded, off, size)
                          end  == IF off + size > Loaded.Size THEN Loaded.Size ELSE off + size
                          from == IF off < DataStartIdx(Loaded) THEN DataStartIdx(Loaded) ELSE off
                      IN  /\ Len(r[2]) = IF end > from THEN end - from ELSE 0
                          /\ r[2] # <<>> => r[1] = from
                          /\ \A i \in DOMAIN r[2] : r[2][i] = Content.data[r[1] + i - 1]
    BY Zenon DEF ReadsMatchContent
  <2>1. PICK f : f = Loaded
    OBVIOUS
  <2>2. IsShaped(f) /\ f # NoFile /\ f.Size \in Nat /\ f.Opts.MaxSize \in Nat
    BY <2>1, LoadedFacts DEF IsShaped, WholeOpts, OptionType
  <2>3. PICK s \in Nat : s = f.Size
    BY <2>2
  <2>4. PICK a \in Nat : a = DataStartIdx(f) /\ a <= s /\ (~f.Opts.Circular => a = 0)
    BY <2>2, <2>3 DEF DataStartIdx
  <2>5. PICK end \in Nat : end = IF off + size > s THEN s ELSE off + size
    BY <2>1, <2>3
  <2>6. PICK from \in Nat : from = IF off < a THEN a ELSE off
    BY <2>1, <2>3
  <2>7. PICK n \in Int : n = end - from
    OBVIOUS
  <2>8. PICK n0 \in Nat : n0 = IF off + size > f.Size THEN f.Size - off ELSE size
    BY <2>1, <2>2
  <2>9. from = IF f.Opts.Circular /\ off < DataStartIdx(f) THEN DataStartIdx(f) ELSE off
    BY <2>4, <2>6
  <2>10. n = n0 - (from - off)
    BY <2>3, <2>5, <2>7, <2>8
  <2>11. PICK bytes : bytes = ReadBytes(f, from, n)
    OBVIOUS
  <2>12. PICK r : r = readAt(f, off, size)
    OBVIOUS
  <2>13. r = IF f.Opts.Circular /\ n <= 0 THEN <<DataStartIdx(f), <<>>>> ELSE <<from, bytes>>
    BY <2>8, <2>9, <2>10, <2>11, <2>12, ReadAtIs
  <2>14. ASSUME NEW i \in 1 .. n PROVE bytes[i] = Content.data[from + i - 1]
    <3>1. n \in Nat
      BY <2>14
    <3>2. PICK o \in Nat : o = from + i - 1
      BY <2>14
    <3>3. bytes[i] = Byte(f, Lay(entries, dbParts), o)
      BY <2>2, <2>11, <2>14, <3>1, <3>2, BytesAreRead DEF IsShaped
    <3>4. Content = View(f, Lay(entries, dbParts))
      BY <2>1 DEF Content
    <3>5. Content.data = Bytes(f, Lay(entries, dbParts))
      <4>1. Content = [Opts |-> f.Opts, Size |-> f.Size, Meta |-> f.Meta, data |-> Bytes(f, Lay(entries, dbParts))]
        BY <2>2, <3>4, ViewIs, Zenon
      <4> QED  BY <4>1
    <3>6. o \in DataStartIdx(f) .. f.Size - 1
      BY <2>3, <2>4, <2>5, <2>6, <2>7, <2>14, <3>2
    <3> QED  BY <3>2, <3>3, <3>5, <3>6 DEF Bytes
  <2>15. ASSUME n >= 0
         PROVE  Len(bytes) = n /\ DOMAIN bytes = 1 .. n /\ (bytes = <<>> <=> n = 0)
    <3>1. IsParts(Lay(entries, dbParts))
      BY LoadedFacts, LayIsParts
    <3>2. ASSUME NEW i \in 1 .. n PROVE bytes[i] \in Int
      <4>1. PICK o \in Nat : o = from + i - 1
        BY <3>2
      <4>2. n \in Nat
        BY <2>15
      <4>3. bytes[i] = Byte(f, Lay(entries, dbParts), o)
        BY <2>2, <2>11, <3>2, <4>1, <4>2, BytesAreRead DEF IsShaped
      <4> QED  BY <3>1, <4>1, <4>3, ByteIsInt
    <3>3. bytes \in [1 .. n -> Int]
      BY <2>11, <3>2 DEF ReadBytes
    <3> QED  BY <2>15, <3>3, LengthIs
  <2>16. CASE f.Opts.Circular /\ n <= 0
    <3>1. r = <<DataStartIdx(f), <<>>>>
      BY <2>13, <2>16
    <3>2. r[2] = <<>> /\ Len(r[2]) = 0 /\ DOMAIN r[2] = {}
      BY <3>1
    <3>3. ~(end > from)
      BY <2>7, <2>16
    <3> QED  BY <2>1, <2>3, <2>4, <2>5, <2>6, <2>12, <3>2, <3>3
  <2>17. CASE ~(f.Opts.Circular /\ n <= 0)
    <3>1. n >= 0
      <4>1. off <= s /\ off <= end
        BY <2>1, <2>3, <2>5
      <4>2. CASE ~f.Opts.Circular
        BY <2>4, <2>6, <2>7, <4>1, <4>2
      <4> QED  BY <2>17, <4>2
    <3>2. r[1] = from /\ r[2] = bytes
      BY <2>13, <2>17
    <3>3. n = IF end > from THEN end - from ELSE 0
      BY <2>7, <3>1
    <3> QED  BY <2>1, <2>3, <2>4, <2>5, <2>6, <2>12, <2>15, <2>14, <3>1, <3>2, <3>3
  <2> QED  BY <2>16, <2>17
<1> QED  BY <1>1, Inductive, PTL

-----------------------------------------------------------------------------
(* The refinement of FileContent                                           *)

Payloads ==
    LET written == UNION {Uses(o).payloads : o \in MakeOpts}
    IN  written \cup {d \o <<Newline>> : d \in written}
Metas == UNION {Uses(o).metas : o \in MakeOpts}

LEMMA UseIsKnown ==
    ASSUME NEW opts \in StoredOpts
    PROVE  /\ Uses(opts).payloads \subseteq Payloads
           /\ \A data \in Uses(opts).payloads : data \o <<Newline>> \in Payloads
           /\ Uses(opts).metas \subseteq Metas
<1>1. PICK o \in MakeOpts : Uses(opts) = Uses(o)
  BY StoredFacts
<1>2. PICK written : written = UNION {Uses(x).payloads : x \in MakeOpts}
  OBVIOUS
<1>3. Uses(opts).payloads \subseteq written /\ Uses(opts).metas \subseteq Metas
  BY <1>1, <1>2 DEF Metas
<1>4. Payloads = written \cup {d \o <<Newline>> : d \in written}
  BY <1>2, Zenon DEF Payloads
<1> QED  BY <1>3, <1>4

LEMMA LayOnce ==
    ASSUME NEW over, NEW under, NEW ps, ps = Lay(over, under)
    PROVE  Lay(over, ps) = ps
BY DEF Lay

LEMMA LayNothing ==
    ASSUME NEW ps, IsParts(ps)
    PROVE  Lay(NoParts, ps) = ps
BY DEF Lay, NoParts, IsParts

\* A file is something.
LEMMA ViewIsFile ==
    ASSUME NEW f, IsRow(f), NEW ps, IsParts(ps)
    PROVE  View(f, ps) # NoFile
<1>1. PICK opts \in StoredOpts : opts = f.Opts
  BY DEF IsRow, IsFile
<1>2. f # NoFile /\ IsShaped(f)
  BY RowIsShaped
<1>3. PICK d : d = Bytes(f, ps)
  OBVIOUS
<1>4. View(f, ps) = [Opts |-> opts, Size |-> f.Size, Meta |-> f.Meta, data |-> d]
  BY <1>1, <1>2, <1>3, ViewIs, Zenon
<1>5. Uses(opts).size \in Nat
  BY StoredFacts
<1>6. PICK a \in Nat : a = DataStartIdx(f)
  <2>1. f.Size \in Nat /\ f.Opts.MaxSize \in Nat
    BY <1>2 DEF IsShaped, WholeOpts, OptionType
  <2> QED  BY <2>1 DEF DataStartIdx
<1>7. PICK w : w = a .. f.Size - 1
  OBVIOUS
<1>8. w \in SUBSET (0 .. Uses(opts).size)
  BY <1>1, <1>5, <1>6, <1>7 DEF IsRow, IsFile
<1>9. d \in [w -> Int]
  <2>1. ASSUME NEW o \in w PROVE Byte(f, ps, o) \in Int
    BY <1>6, <1>7, ByteIsInt
  <2> QED  BY <1>3, <1>6, <1>7, <2>1 DEF Bytes
<1>10. PICK D : D = UNION {[x -> Int] : x \in SUBSET (0 .. Uses(opts).size)}
  OBVIOUS
<1>11. d \in D
  BY <1>8, <1>9, <1>10
<1>12. View(f, ps) \in [Opts : {opts}, Size : 0 .. Uses(opts).size, Meta : Uses(opts).metas, data : D]
  <2>1. f.Size \in 0 .. Uses(opts).size /\ f.Meta \in Uses(opts).metas
    BY <1>1, <1>5 DEF IsRow, IsFile
  <2> QED  BY <1>4, <1>11, <2>1
<1> QED  BY <1>10, <1>12, NoFileAssumption

\* What readers see, while there is a file.
LEMMA ContentIs ==
    ASSUME IInv, Loaded # NoFile
    PROVE  /\ Content # NoFile /\ Content = View(Loaded, Lay(entries, dbParts))
           /\ Content.Opts = Loaded.Opts /\ Content.Size = Loaded.Size /\ Content.Meta = Loaded.Meta
<1>1. IsRow(Loaded) /\ IsParts(Lay(entries, dbParts))
  BY LoadedFacts, LayIsParts
<1>2. PICK ps : ps = Lay(entries, dbParts)
  OBVIOUS
<1>3. PICK f : f = Loaded
  OBVIOUS
<1>4. Content = View(f, ps)
  BY <1>2, <1>3 DEF Content
<1>5. Content # NoFile
  BY <1>1, <1>2, <1>3, <1>4, ViewIsFile
<1>6. Content = [Opts |-> f.Opts, Size |-> f.Size, Meta |-> f.Meta, data |-> Bytes(f, ps)]
  BY <1>3, <1>4, ViewIs, Zenon
<1>7. Content.Opts = f.Opts /\ Content.Size = f.Size /\ Content.Meta = f.Meta
  BY <1>6
<1> QED  BY <1>2, <1>3, <1>4, <1>5, <1>7

\* There is content exactly while there is a file.
LEMMA NoContent ==
    ASSUME IInv, Loaded = NoFile
    PROVE  Content = NoFile /\ Durable = NoFile /\ dbFile = NoFile /\ file = NoFile /\ flushErrors = 0
<1>1. dbFile = NoFile /\ file = NoFile /\ flushErrors = 0
  BY DEF IInv, CacheInv, Loaded
<1> QED  BY <1>1 DEF Content, Durable, View, Loaded

\* A step in the cache leaves the rows to the next flush.
LEMMA CachedView ==
    ASSUME NEW g, g # NoFile, file' = g, dbFile' = dbFile, dbParts' = dbParts
    PROVE  Content' = View(g, Lay(entries', dbParts)) /\ Durable' = Durable
<1>1. Loaded' = g
  BY DEF Loaded
<1> QED  BY <1>1 DEF Content, Durable

LEMMA ClearedView ==
    ASSUME Clear, IsParts(dbParts')
    PROVE  Content' = View(dbFile', dbParts') /\ Durable' = View(dbFile', dbParts') /\ flushErrors' = 0
<1>1. Loaded' = dbFile' /\ entries' = NoParts /\ flushErrors' = 0
  BY DEF Clear, Loaded
<1>2. Lay(entries', dbParts') = dbParts'
  BY <1>1, LayNothing DEF IsParts
<1> QED  BY <1>1, <1>2 DEF Content, Durable

LEMMA CrashRefines ==
    ASSUME IInv, Crash
    PROVE  [Promise!Next]_Promise!vars
<1>1. Clear /\ dbFile' = dbFile /\ dbParts' = dbParts
  BY DEF Crash, dbVars
<1>2. IsParts(dbParts') /\ IsParts(dbParts)
  BY <1>1 DEF IInv, RowsInv, IsParts
<1>3. Content' = View(dbFile', dbParts') /\ Durable' = View(dbFile', dbParts') /\ flushErrors' = 0
  BY <1>1, <1>2, ClearedView
<1>4. View(dbFile', dbParts') = Durable
  BY <1>1 DEF Durable
<1>5. Promise!Crash
  BY <1>3, <1>4, Zenon DEF Promise!Crash
<1> QED  BY <1>5, Zenon DEF Promise!Next

LEMMA DeleteRefines ==
    ASSUME IInv, DeleteFile
    PROVE  [Promise!Next]_Promise!vars
<1>1. Clear /\ dbFile' = NoFile /\ dbParts' = NoParts
  BY DEF DeleteFile
<1>2. IsParts(dbParts')
  BY <1>1, NoPartsAreParts DEF IsParts, NoParts
<1>3. Content' = NoFile /\ Durable' = NoFile /\ flushErrors' = 0
  BY <1>1, <1>2, ClearedView DEF View
<1>4. CASE Loaded = NoFile
  <2>1. UNCHANGED Promise!vars
    BY <1>3, <1>4, NoContent DEF Promise!vars
  <2> QED  BY <2>1, Zenon
<1>5. CASE Loaded # NoFile
  <2>1. Promise!Remove
    BY <1>3, Zenon DEF Promise!Remove
  <2>2. Content # NoFile
    BY <1>5, ContentIs
  <2> QED  BY <2>1, <2>2, Zenon DEF Promise!Next
<1> QED  BY <1>4, <1>5

LEMMA FailRefines ==
    ASSUME IInv, FailAfterLoad
    PROVE  UNCHANGED Promise!vars
<1>1. /\ Loaded = dbFile /\ dbFile # NoFile /\ file' = dbFile /\ entries' = entries /\ flushErrors' = flushErrors
      /\ dbFile' = dbFile /\ dbParts' = dbParts
  BY DEF FailAfterLoad, Loaded, dbVars
<1>2. Content' = View(dbFile, Lay(entries', dbParts)) /\ Durable' = Durable
  BY <1>1, CachedView
<1>3. Content' = Content
  BY <1>1, <1>2 DEF Content
<1> QED  BY <1>1, <1>2, <1>3 DEF Promise!vars

LEMMA MakeRefines ==
    ASSUME IInv, NEW opts \in MakeOpts, NEW meta \in Uses(opts).metas, MakeFile(opts, meta)
    PROVE  [Promise!Next]_Promise!vars
<1>1. PICK stored \in StoredOpts : stored = RoundedOpts(opts)
  BY DEF MakeFile, StoredOpts
<1>2. PICK g : g = [Opts |-> stored, Size |-> 0, Meta |-> meta]
  OBVIOUS
<1>3. dbFile' = g
  BY <1>1, <1>2, Zenon DEF MakeFile
<1>4. /\ file = NoFile /\ dbFile = NoFile /\ file' = NoFile /\ entries' = NoParts /\ dbParts' = NoParts
      /\ flushErrors' = 0
  BY Zenon DEF MakeFile, cacheVars, IInv, RowsInv, CacheInv
<1>5. IInv'
  BY MakeInv
<1>6. IsRow(g) /\ IsParts(NoParts)
  <2>1. Uses(stored) = Uses(opts) /\ Uses(stored).size \in Nat
    BY <1>1, UsesAssumption
  <2> QED  BY <1>2, <2>1, NoPartsAreParts DEF IsRow, IsFile
<1>7. g # NoFile
  BY <1>6, RowIsShaped
<1>8. Lay(NoParts, NoParts) = NoParts
  BY <1>6, LayNothing
<1>9. Content' = View(g, NoParts) /\ Durable' = View(g, NoParts)
  BY <1>3, <1>4, <1>7, <1>8 DEF Content, Durable, Loaded
<1>10. Bytes(g, NoParts) = <<>>
  <2>1. DataStartIdx(g) \in Nat /\ g.Size = 0
    BY <1>2, StoredFacts DEF DataStartIdx, WholeOpts, OptionType
  <2>2. DataStartIdx(g) .. g.Size - 1 = {}
    BY <2>1
  <2> QED  BY <2>2 DEF Bytes
<1>11. View(g, NoParts) = [Opts |-> stored, Size |-> 0, Meta |-> meta, data |-> <<>>]
  <2>1. View(g, NoParts) = [Opts |-> g.Opts, Size |-> g.Size, Meta |-> g.Meta, data |-> Bytes(g, NoParts)]
    BY <1>7, ViewIs, Zenon
  <2> QED  BY <1>2, <1>10, <2>1
<1>12. Content = NoFile
  BY <1>4 DEF Content, Loaded, View
<1>13. meta \in Metas
  BY DEF Metas
<1>14. Promise!Create
  <2>1. Content' = Promise!Empty(stored, meta)
    BY <1>9, <1>11, Zenon DEF Promise!Empty
  <2>2. Durable' = Content'
    BY <1>9
  <2> QED  BY <1>4, <1>12, <1>13, <2>1, <2>2, Zenon DEF Promise!Create, Metas
<1> QED  BY <1>14, Zenon DEF Promise!Next

LEMMA WriteMetaRefines ==
    ASSUME IInv, Loaded # NoFile, NEW m \in Uses(Loaded.Opts).metas,
           file' = [Loaded EXCEPT !.Meta = m], entries' = entries, flushErrors' = flushErrors,
           dbFile' = dbFile, dbParts' = dbParts
    PROVE  [Promise!Next]_Promise!vars
<1>1. PICK f : f = Loaded
  OBVIOUS
<1>2. PICK g : g = [f EXCEPT !.Meta = m]
  OBVIOUS
<1>3. IsRow(f) /\ f # NoFile
  BY <1>1, LoadedFacts
<1>4. IsRow(g) /\ g = [Opts |-> f.Opts, Size |-> f.Size, Meta |-> m]
  BY <1>1, <1>2, <1>3, MetaRow, Zenon
<1>5. g # NoFile /\ g.Opts = f.Opts /\ g.Size = f.Size /\ g.Meta = m
  BY <1>4, RowIsShaped
<1>6. PICK ps : ps = Lay(entries, dbParts)
  OBVIOUS
<1>7. Bytes(g, ps) = Bytes(f, ps)
  BY <1>5, Zenon DEF Bytes, Byte, DataStartIdx, partIdxAtOffset
<1>8. Content' = View(g, ps) /\ Durable' = Durable
  <2>1. file' = g
    BY <1>1, <1>2, Zenon
  <2>2. Content' = View(g, Lay(entries', dbParts)) /\ Durable' = Durable
    BY <1>5, <2>1, CachedView, Zenon
  <2> QED  BY <1>6, <2>2, Zenon
<1>9. View(g, ps) = [Opts |-> f.Opts, Size |-> f.Size, Meta |-> m, data |-> Bytes(f, ps)]
  BY <1>5, <1>7, ViewIs, Zenon
<1>10. PICK c : c = Content
  OBVIOUS
<1>11. c = [Opts |-> f.Opts, Size |-> f.Size, Meta |-> f.Meta, data |-> Bytes(f, ps)]
  BY <1>1, <1>3, <1>6, <1>10, ViewIs, Zenon DEF Content
<1>12. [c EXCEPT !.Meta = m] = [Opts |-> f.Opts, Size |-> f.Size, Meta |-> m, data |-> Bytes(f, ps)]
  BY <1>11
<1>13. Promise!SetMeta(m)
  BY <1>8, <1>9, <1>10, <1>12, Zenon DEF Promise!SetMeta
<1>14. Content # NoFile
  BY ContentIs
<1>15. m \in Metas
  BY <1>1, <1>3, UseIsKnown DEF IsRow, IsFile
<1> QED  BY <1>13, <1>14, <1>15, Zenon DEF Promise!Next, Metas

\* A flush attempt on the entry [f, es], whose content is "c".
LEMMA FlushRefines ==
    ASSUME IInv, Loaded # NoFile, NEW f, IsRow(f), f.Opts = Loaded.Opts, NEW es, IsParts(es),
           NEW base, IsParts(base), NEW counters,
           Commits(f, es, counters, base) \/ Fails(f, es, counters),
           NEW c, c = View(f, Lay(es, base)), c = View(f, Lay(es, dbParts))
    PROVE  Promise!FlushOf(c)
<1>1. IsRow(dbFile) /\ f.Opts = dbFile.Opts /\ IsParts(dbParts) /\ flushErrors \in 0 .. MaxFlushErrors
  BY LoadedFacts DEF IInv, CacheInv
<1>2. f # NoFile
  BY RowIsShaped
<1>3. CASE Commits(f, es, counters, base)
  <2>1. dbFile' = f
    BY <1>1, <1>3, FlushedRow DEF Commits
  <2>2. dbParts' = Lay(es, base) /\ IsParts(dbParts')
    BY <1>3, LayIsParts DEF Commits
  <2>3. Durable' = c
    BY <2>1, <2>2 DEF Durable
  <2>4. CASE Clear
    <3>1. Content' = Durable' /\ flushErrors' = 0
      BY <2>2, <2>4, ClearedView
    <3> QED  BY <2>3, <3>1 DEF Promise!FlushOf
  <2>5. CASE Keep(f, es, counters) /\ flushErrors' = flushErrors
    <3>1. Loaded' = f /\ entries' = es
      BY <1>2, <2>5 DEF Keep, Loaded
    <3>2. Lay(es, dbParts') = dbParts'
      BY <2>2, LayOnce
    <3>3. Content' = c
      BY <2>2, <3>1, <3>2 DEF Content
    <3> QED  BY <2>3, <2>5, <3>3 DEF Promise!FlushOf
  <2> QED  BY <1>3, <2>4, <2>5 DEF Commits
<1>4. CASE Fails(f, es, counters)
  <2>1. dbFile' = dbFile /\ dbParts' = dbParts
    BY <1>4 DEF Fails
  <2>2. CASE Keep(f, es, counters)
    <3>1. file' = f /\ entries' = es
      BY <2>2 DEF Keep
    <3>2. Content' = c /\ Durable' = Durable
      BY <1>2, <2>1, <3>1, CachedView
    <3>3. CASE flushErrors' = flushErrors
      BY <3>2, <3>3 DEF Promise!FlushOf
    <3>4. CASE flushErrors + 1 <= MaxFlushErrors /\ flushErrors' = flushErrors + 1
      <4>1. flushErrors < Promise!MaxFlushErrors
        BY <1>1, <3>4 DEF MaxFlushErrors, Promise!MaxFlushErrors
      <4> QED  BY <3>2, <3>4, <4>1 DEF Promise!FlushOf
    <3>5. CASE flushErrors + 1 > MaxFlushErrors /\ Clear
      <4>1. file' = NoFile
        BY <3>5 DEF Clear
      <4> QED  BY <1>2, <3>1, <4>1
    <3> QED  BY <1>4, <3>3, <3>4, <3>5 DEF Fails
  <2>3. CASE flushErrors + 1 > MaxFlushErrors /\ Clear
    <3>1. IsParts(dbParts')
      BY <1>1, <2>1 DEF IsParts
    <3>2. Content' = View(dbFile', dbParts') /\ Durable' = View(dbFile', dbParts') /\ flushErrors' = 0
      BY <2>3, <3>1, ClearedView
    <3>3. View(dbFile', dbParts') = Durable
      BY <2>1 DEF Durable
    <3>4. flushErrors = Promise!MaxFlushErrors
      BY <1>1, <2>3 DEF MaxFlushErrors, Promise!MaxFlushErrors
    <3> QED  BY <3>2, <3>3, <3>4 DEF Promise!FlushOf
  <2> QED  BY <1>4, <2>2, <2>3 DEF Fails
<1> QED  BY <1>3, <1>4

LEMMA FlushEntryRefines ==
    ASSUME IInv, FlushEntry
    PROVE  [Promise!Next]_Promise!vars
<1>1. file # NoFile /\ FlushToDB(file, entries, ijson, FALSE)
  BY DEF FlushEntry
<1>2. Loaded = file /\ Loaded # NoFile
  BY <1>1 DEF Loaded
<1>3. IsRow(file) /\ IsParts(entries) /\ IsParts(dbParts)
  BY <1>1 DEF IInv, CacheInv, RowsInv
<1>4. Commits(file, entries, ijson, dbParts) \/ Fails(file, entries, ijson)
  BY <1>1, FlushOntoRows, Zenon
<1>5. Content = View(file, Lay(entries, dbParts)) /\ Content # NoFile
  BY <1>2, ContentIs
<1>6. PICK c : c = Content
  OBVIOUS
<1>7. Promise!FlushOf(c)
  BY <1>2, <1>3, <1>4, <1>5, <1>6, FlushRefines
<1> QED  BY <1>5, <1>6, <1>7, Zenon DEF Promise!Next

\* What readers see after a rewrite, with and without the rows below it.
LEMMA RewrittenView ==
    ASSUME NEW f, IsFile(f), NEW es, NEW data \in Uses(f.Opts).payloads,
           NEW w, w = Rewrite(f, es, data), w.file.Size <= Uses(w.file.Opts).size,
           NEW under, NEW after, after = Lay(w.entries, under), NEW old, f # NoFile,
           NEW c, c = View(f, old)
    PROVE  View(w.file, after) = Promise!Replaced(c, data)
<1>1. IsShaped(f) /\ data \in Seq(Int)
  BY FileIsShaped, StoredFacts DEF IsFile
<1>2. PICK n \in Nat : n = Len(data)
  BY <1>1, LenProperties
<1>3. PICK M \in Nat : M = f.Opts.MaxSize
  BY <1>1 DEF IsShaped, WholeOpts, OptionType
<1>4. PICK g : g = Sized(f, n)
  OBVIOUS
<1>5. w.file = g /\ IsRewritten(g, w.entries, data)
  BY <1>1, <1>2, <1>3, <1>4, RewriteBytes
<1>6. IsRow(w.file)
  BY <1>1, RewriteRow
<1>7. g # NoFile
  BY <1>5, <1>6, RowIsShaped
<1>8. View(g, after) = Promise!Replaced(View(f, old), data)
  BY <1>1, <1>2, <1>4, <1>5, <1>7, RewriteView
<1> QED  BY <1>5, <1>8

LEMMA WriteFileRefines ==
    ASSUME IInv, NEW data \in Uses(Loaded.Opts).payloads, WriteFile(data)
    PROVE  [Promise!Next]_Promise!vars
<1>1. Loaded # NoFile
  BY Zenon DEF WriteFile
<1>2. PICK w : /\ w = Rewrite(Loaded, entries, data) /\ w.file.Size <= Uses(w.file.Opts).size
               /\ FlushToDB(w.file, w.entries, LoadedIJson, TRUE)
  BY WriteFileIs, Zenon
<1>3. IsRow(Loaded) /\ IsFile(Loaded) /\ data \in Seq(Int) /\ IsParts(dbParts)
  BY <1>1, LoadedFacts DEF IsRow
<1>4. IsParts(w.entries) /\ w.file.Opts = Loaded.Opts /\ IsRow(w.file)
  BY <1>2, <1>3, RewriteRow
<1>5. Commits(w.file, w.entries, LoadedIJson, NoParts) \/ Fails(w.file, w.entries, LoadedIJson)
  BY <1>2, FlushReplaces, Zenon
<1>6. Content = View(Loaded, Lay(entries, dbParts)) /\ Content # NoFile
  BY <1>1, ContentIs
<1>7. PICK c : c = Promise!Replaced(Content, data)
  OBVIOUS
<1>8. ASSUME NEW under PROVE c = View(w.file, Lay(w.entries, under))
  <2>1. PICK f, after, old, content : f = Loaded /\ after = Lay(w.entries, under)
                                       /\ old = Lay(entries, dbParts) /\ content = Content
    OBVIOUS
  <2>2. content = View(f, old) /\ f # NoFile /\ IsFile(f) /\ data \in Uses(f.Opts).payloads
        /\ w = Rewrite(f, entries, data)
    BY <1>1, <1>2, <1>3, <1>6, <2>1
  <2>3. View(w.file, after) = Promise!Replaced(content, data)
    BY <1>1, <1>2, <2>1, <2>2, RewrittenView
  <2> QED  BY <1>7, <2>1, <2>3, Zenon
<1>9. c = View(w.file, Lay(w.entries, NoParts)) /\ c = View(w.file, Lay(w.entries, dbParts))
  BY <1>8
<1>10. Promise!FlushOf(c)
  BY <1>1, <1>4, <1>5, <1>9, NoPartsAreParts, FlushRefines
<1>11. data \in Payloads
  BY <1>3, UseIsKnown DEF IsFile
<1> QED  BY <1>6, <1>7, <1>10, <1>11, Zenon DEF Promise!Next, Payloads

LEMMA CompactRefines ==
    ASSUME IInv, CompactIJson
    PROVE  [Promise!Next]_Promise!vars
<1>1. /\ Loaded # NoFile /\ Compact(Loaded, entries)
      /\ dbFile' = dbFile /\ dbParts' = dbParts /\ flushErrors' = flushErrors
  BY Zenon DEF CompactIJson, dbVars
<1>2. PICK data, w :
         /\ data \in Uses(Loaded.Opts).payloads
         /\ w = Rewrite(Loaded, entries, data) /\ w.file.Size <= Uses(w.file.Opts).size
         /\ file' = w.file /\ entries' = w.entries
  BY <1>1, CompactIs, Zenon
<1>3. IsRow(Loaded) /\ IsFile(Loaded) /\ data \in Seq(Int)
  BY <1>1, <1>2, LoadedFacts DEF IsRow
<1>4. IsRow(w.file) /\ w.file # NoFile
  BY <1>2, <1>3, RewriteRow, RowIsShaped
<1>5. Content = View(Loaded, Lay(entries, dbParts)) /\ Content # NoFile
  BY <1>1, ContentIs
<1>6. Content' = View(w.file, Lay(w.entries, dbParts)) /\ Durable' = Durable
  BY <1>1, <1>2, <1>4, CachedView
<1>7. View(w.file, Lay(w.entries, dbParts)) = Promise!Replaced(Content, data)
  <2>1. PICK f, after, old, content : f = Loaded /\ after = Lay(w.entries, dbParts)
                                       /\ old = Lay(entries, dbParts) /\ content = Content
    OBVIOUS
  <2>2. content = View(f, old) /\ f # NoFile /\ IsFile(f) /\ data \in Uses(f.Opts).payloads
        /\ w = Rewrite(f, entries, data)
    BY <1>1, <1>2, <1>3, <1>5, <2>1
  <2>3. View(w.file, after) = Promise!Replaced(content, data)
    BY <1>1, <1>2, <2>1, <2>2, RewrittenView
  <2> QED  BY <2>1, <2>3, Zenon
<1>8. Promise!Replace(data)
  BY <1>1, <1>6, <1>7, Zenon DEF Promise!Replace
<1>9. data \in Payloads
  BY <1>2, <1>3, UseIsKnown DEF IsFile
<1> QED  BY <1>5, <1>8, <1>9, Zenon DEF Promise!Next, Payloads

\* A write into the cache from inside the window.
LEMMA PutIsOverlay ==
    ASSUME NEW f, IsFile(f), NEW s \in Nat, s = f.Size, IsParts(entries), IsParts(dbParts),
           NEW off \in Nat, off <= s, off >= DataStartIdx(f), NEW data \in Seq(Int), NEW n \in Nat, n = Len(data),
           NEW es, es = WithParts(entries, incompleteParts(computePartMap(f, off, n))),
           NEW w, w = WriteOver(f, es, off, data),
           NEW t \in Nat, t = NewSize(s, off, n), NEW g, g = Sized(f, t)
    PROVE  /\ IsParts(es) /\ Lay(es, dbParts) = Lay(entries, dbParts)
           /\ w.file = g /\ IsOverlay(f, g, es, w.entries, dbParts, off, n, data)
<1>1. IsShaped(f)
  BY FileIsShaped
<1>2. PICK M \in Nat : M = f.Opts.MaxSize
  BY <1>1 DEF IsShaped, WholeOpts, OptionType
<1>3. IsParts(es)
  BY <1>1, <1>2, LoadsWhatItKeeps
<1>4. Lay(es, dbParts) = Lay(entries, dbParts)
  BY <1>1, <1>2, LoadsWhatItKeeps
<1>5. KeptAreCached(f, g, es, dbParts, off, n)
  BY <1>1, <1>2, LoadsWhatItKeeps
<1>6. w.file = g /\ IsOverlay(f, g, es, w.entries, dbParts, off, n, data)
  BY <1>1, <1>2, <1>3, <1>5, OverlayBytes
<1> QED  BY <1>3, <1>4, <1>6

LEMMA PutRefines ==
    ASSUME IInv, Loaded # NoFile, NEW f, f = Loaded, NEW s \in Nat, s = f.Size,
           NEW off \in Nat, off <= s, off >= DataStartIdx(f),
           NEW data \in Uses(f.Opts).payloads, NEW n \in Nat, n = Len(data),
           NEW es, es = WithParts(entries, incompleteParts(computePartMap(f, off, n))),
           NEW w, w = WriteOver(f, es, off, data), w.file.Size <= Uses(w.file.Opts).size,
           file' = w.file, entries' = w.entries, dbFile' = dbFile, dbParts' = dbParts, flushErrors' = flushErrors
    PROVE  [Promise!Next]_Promise!vars
<1>1. IsRow(f) /\ IsFile(f) /\ IsParts(entries) /\ IsParts(dbParts) /\ data \in Seq(Int)
  BY LoadedFacts DEF IsRow
<1>2. PICK t \in Nat : t = NewSize(s, off, n)
  BY DEF NewSize
<1>3. PICK g : g = Sized(f, t)
  OBVIOUS
<1>4. IsParts(es) /\ Lay(es, dbParts) = Lay(entries, dbParts)
  BY <1>1, <1>2, <1>3, PutIsOverlay
<1>5. w.file = g /\ IsOverlay(f, g, es, w.entries, dbParts, off, n, data)
  BY <1>1, <1>2, <1>3, PutIsOverlay
<1>6. IsRow(w.file)
  BY <1>1, <1>4, WriteOverRow
<1>7. g # NoFile /\ f # NoFile /\ IsShaped(f)
  BY <1>1, <1>5, <1>6, RowIsShaped
<1>8. PICK before, after : before = Lay(es, dbParts) /\ after = Lay(w.entries, dbParts)
  OBVIOUS
<1>9. View(g, after) = Promise!Overlay(View(f, before), off, data)
  BY <1>2, <1>3, <1>5, <1>7, <1>8, OverlayView
<1>10. Content = View(f, before) /\ Content # NoFile /\ Content.Size = s
  BY <1>4, <1>8, ContentIs
<1>11. Content' = View(g, after) /\ Durable' = Durable
  BY <1>5, <1>7, <1>8, CachedView
<1>12. Promise!Put(off, data)
  BY <1>9, <1>10, <1>11, Zenon DEF Promise!Put
<1>13. data \in Payloads /\ off \in 0 .. Content.Size
  BY <1>1, <1>10, UseIsKnown DEF IsFile
<1> QED  BY <1>10, <1>12, <1>13, Zenon DEF Promise!Next, Payloads

LEMMA WriteAtRefines ==
    ASSUME IInv, ~StaleOffsets, NEW data \in Uses(Loaded.Opts).payloads, NEW off \in 0 .. Loaded.Size,
           WriteAt(off, data)
    PROVE  [Promise!Next]_Promise!vars
<1>1. /\ Loaded # NoFile /\ off >= DataStartIdx(Loaded)
      /\ dbFile' = dbFile /\ dbParts' = dbParts /\ flushErrors' = flushErrors
  BY WriteAtIs, Zenon
<1>2. PICK es, w :
         /\ es = WithParts(entries, incompleteParts(computePartMap(Loaded, off, Len(data))))
         /\ w = WriteOver(Loaded, es, off, data)
         /\ w.file.Size <= Uses(w.file.Opts).size /\ file' = w.file /\ entries' = w.entries
  BY WriteAtIs, Zenon
<1>3. Loaded.Size \in Nat /\ data \in Seq(Int) /\ off \in Nat /\ off <= Loaded.Size
  BY <1>1, LoadedFacts
<1>4. PICK n \in Nat : n = Len(data)
  BY <1>3, LenProperties
<1> QED  BY <1>1, <1>2, <1>3, <1>4, PutRefines

LEMMA AppendDataRefines ==
    ASSUME IInv, NEW data \in Uses(Loaded.Opts).payloads, AppendData(data)
    PROVE  [Promise!Next]_Promise!vars
<1>1. /\ Loaded # NoFile
      /\ dbFile' = dbFile /\ dbParts' = dbParts /\ flushErrors' = flushErrors
  BY AppendDataIs, Zenon
<1>2. PICK es, w :
         /\ es = WithParts(entries, incompleteParts(computePartMap(Loaded, Loaded.Size, Len(data))))
         /\ w = WriteOver(Loaded, es, Loaded.Size, data)
         /\ w.file.Size <= Uses(w.file.Opts).size /\ file' = w.file /\ entries' = w.entries
  BY AppendDataIs, Zenon
<1>3. Loaded.Size \in Nat /\ data \in Seq(Int) /\ IsShaped(Loaded)
  BY <1>1, LoadedFacts
<1>4. PICK n \in Nat : n = Len(data)
  BY <1>3, LenProperties
<1>5. DataStartIdx(Loaded) <= Loaded.Size
  BY <1>3 DEF DataStartIdx, IsShaped, WholeOpts, OptionType
<1> QED  BY <1>1, <1>2, <1>3, <1>4, <1>5, PutRefines

\* The size of a replaced file, and its bytes, do not depend on the old ones.
LEMMA ReplacedSame ==
    ASSUME NEW f, f # NoFile, NEW h, h # NoFile, h.Opts = f.Opts, h.Meta = f.Meta,
           NEW old, NEW other, NEW data
    PROVE  Promise!Replaced(View(h, other), data) = Promise!Replaced(View(f, old), data)
<1>1. PICK c, d : c = View(f, old) /\ d = View(h, other)
  OBVIOUS
<1>2. c = [Opts |-> f.Opts, Size |-> f.Size, Meta |-> f.Meta, data |-> Bytes(f, old)]
  BY <1>1, ViewIs, Zenon
<1>3. d = [Opts |-> f.Opts, Size |-> h.Size, Meta |-> f.Meta, data |-> Bytes(h, other)]
  BY <1>1, ViewIs, Zenon
<1>4. c.Opts = d.Opts
  BY <1>2, <1>3
<1>5. PICK e : e = [o \in Promise!Window(c.Opts, Len(data)) |-> data[o + 1]]
  OBVIOUS
<1>6. PICK n : n = Len(data)
  OBVIOUS
<1>7. Promise!Replaced(c, data) = Contents(c, n, e) /\ Promise!Replaced(d, data) = Contents(d, n, e)
  BY <1>4, <1>5, <1>6, ReplacedIs, Zenon
<1>8. Contents(c, n, e) = [Opts |-> f.Opts, Size |-> n, Meta |-> f.Meta, data |-> e]
  BY <1>2, ContentsIs
<1>9. Contents(d, n, e) = [Opts |-> f.Opts, Size |-> n, Meta |-> f.Meta, data |-> e]
  BY <1>3, ContentsIs
<1> QED  BY <1>1, <1>7, <1>8, <1>9, Zenon

\* A write at the end of a file that has no ring, or has not filled it.
LEMMA AtTheEnd ==
    ASSUME NEW g, IsShaped(g), DataStartIdx(g) = 0, NEW t \in Nat, t = g.Size, NEW off \in Nat, off = t,
           NEW es, IsParts(es), NEW under, IsParts(under),
           NEW data \in Seq(Int), NEW one \in Nat, one = Len(data),
           NEW u \in Nat, u = NewSize(t, off, one), NEW h, h = Sized(g, u), KeptAreCached(g, h, es, under, off, one),
           NEW line, line = WriteOver(g, es, off, data)
    PROVE  line.file = h /\ IsOverlay(g, h, es, line.entries, under, off, one, data)
<1>1. PICK M \in Nat : M = g.Opts.MaxSize
  BY DEF IsShaped, WholeOpts, OptionType
<1>2. off <= t /\ off >= DataStartIdx(g)
  OBVIOUS
<1>3. line.file = h
  BY <1>1, <1>2, OverlayBytes
<1>4. IsOverlay(g, h, es, line.entries, under, off, one, data)
  BY <1>1, <1>2, OverlayBytes
<1> QED  BY <1>3, <1>4

\* A command that ends where its newline begins.
\* The file "g" in the parts "ces" is "f" in the parts "es" with a command at its end.
IsAppended(f, g, s, t, es, ces, under, n, data) ==
    /\ IsShaped(f) /\ ~f.Opts.Circular /\ s \in Nat /\ s = f.Size /\ n \in Nat \ {0}
    /\ t \in Nat /\ t = After(s, n) /\ g = Sized(f, t)
    /\ IsParts(under) /\ IsOverlay(f, g, es, ces, under, s, n, data)

LEMMA CommandAndLine ==
    ASSUME NEW f, NEW g, NEW s, NEW t, NEW es, NEW ces, NEW under, NEW n, NEW data,
           IsAppended(f, g, s, t, es, ces, under, n, data),
           NEW newline \in Seq(Int), NEW one \in Nat, IsOne(one), one = Len(newline),
           NEW line, line = WriteOver(g, ces, t, newline),
           NEW u \in Nat, u = After(t, one), NEW h, h = Sized(g, u)
    PROVE  line.file = h /\ IsOverlay(g, h, ces, line.entries, under, t, one, newline)
<1>0. /\ IsShaped(f) /\ ~f.Opts.Circular /\ s \in Nat /\ s = f.Size /\ n \in Nat \ {0}
      /\ t \in Nat /\ t = After(s, n) /\ g = Sized(f, t)
  BY Zenon DEF IsAppended
<1>a. IsParts(under) /\ IsOverlay(f, g, es, ces, under, s, n, data)
  BY Zenon DEF IsAppended
<1>1. IsShaped(g) /\ g.Opts = f.Opts /\ g.Size = t
  BY <1>0, SizedIs
<1>2. KeptAreCached(g, h, ces, under, t, one)
  BY <1>0, <1>a, CommandIsCached
<1>3. IsParts(ces)
  BY <1>a DEF IsOverlay
<1>4. DataStartIdx(g) = 0
  BY <1>0, <1>1 DEF DataStartIdx
<1>5. PICK off \in Nat : off = t
  BY <1>0
<1>6. u = NewSize(t, off, one)
  BY <1>0, <1>5 DEF NewSize, After
<1>7. KeptAreCached(g, h, ces, under, off, one) /\ line = WriteOver(g, ces, off, newline)
  BY <1>2, <1>5
<1>8. t = g.Size
  BY <1>1
<1>9. line.file = h
  BY <1>0, <1>a, <1>1, <1>3, <1>4, <1>5, <1>6, <1>7, <1>8, AtTheEnd
<1>10. IsOverlay(g, h, ces, line.entries, under, off, one, newline)
  BY <1>0, <1>a, <1>1, <1>3, <1>4, <1>5, <1>6, <1>7, <1>8, AtTheEnd
<1> QED  BY <1>5, <1>9, <1>10

\* What ends a command, and a command with its end.
Line == <<Newline>>
WithLine(data) == data \o Line

LEMMA LineBytes ==
    ASSUME NEW data \in Seq(Int), NEW n \in Nat, n = Len(data), NEW one \in Nat, IsOne(one),
           NEW m \in Nat, m = After(n, one), NEW both, both = WithLine(data),
           NEW newline, newline = Line
    PROVE  newline \in Seq(Int) /\ Len(newline) = one /\ Len(both) = m /\ Joined(data, n, newline, one, both)
<1> USE DEF IsOne, After, Line, WithLine
<1>1. newline \in Seq(Int) /\ Len(newline) = 1 /\ newline[1] = Newline
  BY OptsAssumption
<1>2. both \in Seq(Int) /\ Len(both) = m
  BY <1>1, ConcatProperties
<1>3. ASSUME NEW i \in 1 .. n PROVE both[i] = data[i]
  BY <1>1, ConcatProperties
<1>4. both[n + 1] = Newline
  BY <1>1, ConcatProperties
<1>5. Joined(data, n, newline, one, both)
  BY <1>1, <1>3, <1>4 DEF Joined
<1> QED  BY <1>1, <1>2, <1>5

\* An ijson command and its newline, put one after the other at the end of the file.
PutsLine(f, s, data, n, es, cmd, line, one, m, both, u, h) ==
    /\ IsRow(f) /\ f.Opts.IJson /\ s = f.Size /\ s \in Nat /\ IsParts(entries) /\ IsParts(dbParts)
    /\ data \in Uses(f.Opts).payloads /\ n \in Nat /\ n = Len(data)
    /\ es = WithParts(entries, incompleteParts(computePartMap(f, s, n)))
    /\ cmd = WriteOver(f, es, s, data)
    /\ line = WriteOver(cmd.file, cmd.entries, cmd.file.Size, Line)
    /\ line.file.Size <= Uses(line.file.Opts).size
    /\ one \in Nat /\ IsOne(one) /\ m \in Nat /\ m = After(n, one) /\ both = WithLine(data)
    /\ u \in Nat /\ u = NewSize(s, s, m) /\ h = Sized(f, u)

LEMMA AfterTwo ==
    ASSUME NEW s \in Nat, NEW n \in Nat, NEW one \in Nat, IsOne(one), NEW m \in Nat, m = After(n, one),
           NEW u \in Nat, u = NewSize(s, s, m), NEW t \in Nat, t = After(s, n)
    PROVE  u = After(t, one) /\ t = NewSize(s, s, n)
BY DEF After, NewSize, IsOne

LEMMA SizedTwice ==
    ASSUME NEW f, IsShaped(f), NEW t \in Nat, NEW g, g = Sized(f, t),
           NEW u \in Nat, NEW h, h = Sized(f, u)
    PROVE  h = Sized(g, u)
<1>1. h = [Opts |-> f.Opts, Size |-> u, Meta |-> f.Meta]
  BY SizedIs
<1>2. IsShaped(g) /\ g.Opts = f.Opts /\ g.Meta = f.Meta
  BY SizedIs
<1>3. PICK k : k = Sized(g, u)
  OBVIOUS
<1>4. k = [Opts |-> g.Opts, Size |-> u, Meta |-> g.Meta]
  BY <1>2, <1>3, SizedIs
<1> QED  BY <1>1, <1>2, <1>3, <1>4

\* What is in the cache once they are there.
LEMMA LineIs ==
    ASSUME NEW f, NEW s, NEW data, NEW n, NEW es, NEW cmd, NEW line, NEW one, NEW m, NEW both, NEW u, NEW h,
           PutsLine(f, s, data, n, es, cmd, line, one, m, both, u, h)
    PROVE  /\ Len(both) = m /\ Lay(es, dbParts) = Lay(entries, dbParts)
           /\ line.file = h /\ IsRow(h) /\ h.Opts = f.Opts /\ h.Meta = f.Meta
           /\ IsOverlay(f, h, es, line.entries, dbParts, s, m, both)
<1>0. /\ s \in Nat /\ n \in Nat /\ one \in Nat /\ m \in Nat /\ u \in Nat
      /\ s = f.Size /\ n = Len(data) /\ IsOne(one) /\ m = After(n, one) /\ u = NewSize(s, s, m)
  BY Zenon DEF PutsLine
<1>a. IsRow(f) /\ f.Opts.IJson /\ data \in Uses(f.Opts).payloads /\ IsParts(entries) /\ IsParts(dbParts)
  BY Zenon DEF PutsLine
<1>b. h = Sized(f, u) /\ both = WithLine(data)
  BY Zenon DEF PutsLine
<1>c. es = WithParts(entries, incompleteParts(computePartMap(f, s, n))) /\ cmd = WriteOver(f, es, s, data)
  BY Zenon DEF PutsLine
<1>d. line = WriteOver(cmd.file, cmd.entries, cmd.file.Size, Line) /\ line.file.Size <= Uses(line.file.Opts).size
  BY Zenon DEF PutsLine
<1>1. IsFile(f) /\ IsShaped(f) /\ data \in Seq(Int) /\ ~f.Opts.Circular
  <2>1. IsFile(f) /\ IsShaped(f)
    BY <1>a, FileIsShaped DEF IsRow
  <2>2. PICK opts \in StoredOpts : opts = f.Opts
    BY <2>1 DEF IsFile
  <2>3. data \in Seq(Int) /\ ~opts.Circular
    BY <1>a, <2>2, StoredFacts DEF WholeOpts
  <2> QED  BY <2>1, <2>2, <2>3
<1>2. n \in Nat \ {0}
  <2>1. <<>> \notin Uses(f.Opts).payloads
    BY <1>a, StoredFacts DEF IsRow, IsFile
  <2> QED  BY <1>0, <1>a, <1>1, <2>1, EmptySeq
<1>3. PICK newline : newline = Line
  OBVIOUS
<1>4. /\ newline \in Seq(Int) /\ Len(newline) = one
      /\ Len(both) = m /\ Joined(data, n, newline, one, both)
  BY <1>0, <1>b, <1>1, <1>3, LineBytes
<1>5. PICK t \in Nat : t = After(s, n)
  BY <1>0 DEF After
<1>6. u = After(t, one) /\ t = NewSize(s, s, n)
  BY <1>0, <1>5, AfterTwo
<1>7. PICK g, ces : g = cmd.file /\ ces = cmd.entries
  OBVIOUS
<1>8. s <= s /\ s >= DataStartIdx(f)
  BY <1>0, <1>1 DEF DataStartIdx
<1>9. IsParts(es) /\ Lay(es, dbParts) = Lay(entries, dbParts) /\ g = Sized(f, t)
  BY <1>0, <1>a, <1>c, <1>1, <1>6, <1>7, <1>8, PutIsOverlay
<1>10. IsOverlay(f, g, es, ces, dbParts, s, n, data)
  BY <1>0, <1>a, <1>c, <1>1, <1>6, <1>7, <1>8, <1>9, PutIsOverlay
<1>11. g.Size = t
  BY <1>1, <1>5, <1>9, SizedIs
<1>12. h = Sized(g, u)
  BY <1>0, <1>b, <1>1, <1>5, <1>9, SizedTwice
<1>13. line.file = h /\ IsOverlay(f, h, es, line.entries, dbParts, s, m, both)
  <2>1. line = WriteOver(g, ces, t, newline)
    BY <1>d, <1>3, <1>7, <1>11
  <2>2. line.file = h /\ IsOverlay(g, h, ces, line.entries, dbParts, t, one, newline)
    <3>1. IsAppended(f, g, s, t, es, ces, dbParts, n, data)
      BY <1>0, <1>a, <1>1, <1>2, <1>5, <1>9, <1>10 DEF IsAppended
    <3> QED  BY <1>0, <1>4, <1>6, <1>12, <2>1, <3>1, CommandAndLine
  <2>3. IsOverlay(f, h, es, line.entries, dbParts, s, m, both)
    BY <1>0, <1>1, <1>4, <1>5, <1>6, <1>9, <1>10, <1>12, <2>2, TwoWrites
  <2> QED  BY <2>2, <2>3
<1>14. h.Opts = f.Opts /\ h.Size = u /\ h.Meta = f.Meta
  BY <1>0, <1>b, <1>1, SizedIs
<1>15. IsRow(h)
  <2>1. h.Size <= Uses(h.Opts).size
    BY <1>d, <1>13
  <2>2. h = [Opts |-> f.Opts, Size |-> u, Meta |-> f.Meta]
    BY <1>0, <1>b, <1>1, SizedIs
  <2>3. IsFile(h)
    BY <1>0, <1>1, <1>14, <2>2, Zenon DEF IsFile
  <2> QED  BY <2>1, <2>3 DEF IsRow
<1> QED  BY <1>4, <1>9, <1>13, <1>14, <1>15

LEMMA AppendIJsonRefines ==
    ASSUME IInv, NEW data \in Uses(Loaded.Opts).payloads, AppendIJson(data)
    PROVE  [Promise!Next]_Promise!vars
<1>1. /\ Loaded # NoFile /\ Loaded.Opts.IJson
      /\ dbFile' = dbFile /\ dbParts' = dbParts /\ flushErrors' = flushErrors
  BY AppendIJsonIs, Zenon
<1>2. PICK es, cmd, line :
         /\ es = WithParts(entries, incompleteParts(computePartMap(Loaded, Loaded.Size, Len(data))))
         /\ cmd = WriteOver(Loaded, es, Loaded.Size, data)
         /\ line = WriteOver(cmd.file, cmd.entries, cmd.file.Size, Line)
         /\ line.file.Size <= Uses(line.file.Opts).size
         /\ (file' = line.file /\ entries' = line.entries) \/ Compact(line.file, line.entries)
  BY AppendIJsonIs, Zenon DEF Line
<1>3. IsRow(Loaded) /\ IsParts(entries) /\ IsParts(dbParts) /\ Loaded.Size \in Nat /\ data \in Seq(Int)
  BY <1>1, LoadedFacts
<1>4. PICK f, both : f = Loaded /\ both = WithLine(data)
  OBVIOUS
<1>5. PICK s, n, one \in Nat : s = f.Size /\ n = Len(data) /\ IsOne(one)
  BY <1>3, <1>4, LenProperties DEF IsOne
<1>6. PICK m \in Nat : m = After(n, one)
  BY DEF After
<1>7. PICK u \in Nat : u = NewSize(s, s, m)
  BY DEF NewSize
<1>8. PICK h, new : h = Sized(f, u) /\ new = line.entries
  OBVIOUS
<1>9. IsRow(f) /\ f.Opts.IJson /\ data \in Uses(f.Opts).payloads
  BY <1>1, <1>3, <1>4
<1>10. es = WithParts(entries, incompleteParts(computePartMap(f, s, n)))
  BY <1>2, <1>4, <1>5
<1>11. cmd = WriteOver(f, es, s, data)
  BY <1>2, <1>4, <1>5
<1>12. PutsLine(f, s, data, n, es, cmd, line, one, m, both, u, h)
  BY <1>2, <1>3, <1>4, <1>5, <1>6, <1>7, <1>8, <1>9, <1>10, <1>11, Zenon DEF PutsLine
<1>13. /\ Len(both) = m /\ Lay(es, dbParts) = Lay(entries, dbParts)
       /\ line.file = h /\ IsRow(h)
  BY <1>12, LineIs
<1>14. h.Opts = f.Opts /\ h.Meta = f.Meta
  BY <1>12, LineIs
<1>15. IsOverlay(f, h, es, line.entries, dbParts, s, m, both)
  BY <1>12, LineIs
<1>16. IsOverlay(f, h, es, new, dbParts, s, m, both)
  BY <1>8, <1>15
<1>17. h # NoFile /\ f # NoFile /\ IsShaped(f) /\ IsFile(h)
  BY <1>9, <1>13, RowIsShaped DEF IsRow
<1>18. PICK before : before = Lay(es, dbParts) /\ before = Lay(entries, dbParts)
  BY <1>13
<1>19. Content = View(f, before) /\ Content # NoFile /\ Content.Size = s
  BY <1>1, <1>4, <1>5, <1>18, ContentIs
<1>20. CASE file' = line.file /\ entries' = line.entries
  <2>1. PICK after : after = Lay(new, dbParts)
    OBVIOUS
  <2>2. View(h, after) = Promise!Overlay(View(f, before), s, both)
    BY <1>5, <1>6, <1>7, <1>8, <1>13, <1>16, <1>17, <1>18, <2>1, OverlayView
  <2>3. Content' = View(h, after) /\ Durable' = Durable
    BY <1>1, <1>8, <1>13, <1>17, <1>20, <2>1, CachedView
  <2>4. s <= Content.Size /\ s \in 0 .. Content.Size
    BY <1>5, <1>19
  <2>5. Promise!Put(s, both)
    BY <1>1, <1>19, <2>2, <2>3, <2>4, Zenon DEF Promise!Put
  <2>6. both \in Payloads
    BY <1>4, <1>9, UseIsKnown DEF IsRow, IsFile, WithLine, Line
  <2> QED  BY <1>19, <2>4, <2>5, <2>6, Zenon DEF Promise!Next, Payloads
<1>21. CASE Compact(line.file, line.entries)
  <2>1. Compact(h, new)
    BY <1>8, <1>13, <1>21
  <2>2. PICK doc, w :
           /\ doc \in Uses(h.Opts).payloads
           /\ w = Rewrite(h, new, doc) /\ w.file.Size <= Uses(w.file.Opts).size
           /\ file' = w.file /\ entries' = w.entries
    BY <2>1, CompactIs, Zenon
  <2>3. doc \in Payloads /\ doc \in Seq(Int)
    BY <1>13, <2>2, UseIsKnown, StoredFacts DEF IsRow, IsFile
  <2>4. IsRow(w.file) /\ w.file # NoFile
    BY <1>17, <2>2, <2>3, RewriteRow, RowIsShaped
  <2>5. PICK after, content, other : after = Lay(w.entries, dbParts) /\ content = Content /\ other = View(h, before)
    OBVIOUS
  <2>6. View(w.file, after) = Promise!Replaced(other, doc)
    BY <1>17, <2>2, <2>5, RewrittenView
  <2>7. Promise!Replaced(other, doc) = Promise!Replaced(content, doc)
    <3>1. Promise!Replaced(View(h, before), doc) = Promise!Replaced(View(f, before), doc)
      BY <1>14, <1>17, ReplacedSame
    <3> QED  BY <1>19, <2>5, <3>1
  <2>8. Content' = View(w.file, after) /\ Durable' = Durable
    BY <1>1, <2>2, <2>4, <2>5, CachedView
  <2>9. Promise!Replace(doc)
    BY <1>1, <2>5, <2>6, <2>7, <2>8, Zenon DEF Promise!Replace
  <2> QED  BY <1>19, <2>3, <2>9, Zenon DEF Promise!Next, Payloads
<1> QED  BY <1>2, <1>20, <1>21

\* Every operation on a file is one step of FileContent, or none that a reader sees.
LEMMA OperationRefines ==
    ASSUME IInv, ~StaleOffsets, Loaded # NoFile, NEW use, use = Uses(Loaded.Opts), Operation(use)
    PROVE  [Promise!Next]_Promise!vars
<1>1. ASSUME NEW meta \in use.metas, WriteMeta(meta, FALSE) PROVE [Promise!Next]_Promise!vars
  <2>1. IF FALSE THEN meta \in Uses(Loaded.Opts).patches ELSE meta \in Uses(Loaded.Opts).metas
    OBVIOUS
  <2> QED  BY <1>1, <2>1, WriteMetaIs, WriteMetaRefines, Zenon
<1>2. ASSUME NEW patch \in use.patches, WriteMeta(patch, TRUE) PROVE [Promise!Next]_Promise!vars
  <2>1. IF TRUE THEN patch \in Uses(Loaded.Opts).patches ELSE patch \in Uses(Loaded.Opts).metas
    OBVIOUS
  <2> QED  BY <1>2, <2>1, WriteMetaIs, WriteMetaRefines, Zenon
<1>3. ASSUME NEW data \in use.payloads, NEW off \in 0 .. Loaded.Size, WriteAt(off, data)
      PROVE  [Promise!Next]_Promise!vars
  BY <1>3, WriteAtRefines, Zenon
<1>4. ASSUME NEW data \in use.payloads, AppendData(data) PROVE [Promise!Next]_Promise!vars
  BY <1>4, AppendDataRefines, Zenon
<1>5. ASSUME NEW data \in use.payloads, WriteFile(data) PROVE [Promise!Next]_Promise!vars
  BY <1>5, WriteFileRefines, Zenon
<1>6. ASSUME NEW data \in use.payloads, AppendIJson(data) PROVE [Promise!Next]_Promise!vars
  BY <1>6, AppendIJsonRefines, Zenon
<1>7. ASSUME CompactIJson PROVE [Promise!Next]_Promise!vars
  BY <1>7, CompactRefines, Zenon
<1>8. ASSUME FlushEntry PROVE [Promise!Next]_Promise!vars
  BY <1>8, FlushEntryRefines, Zenon
<1> QED  BY <1>1, <1>2, <1>3, <1>4, <1>5, <1>6, <1>7, <1>8, Zenon DEF Operation

LEMMA StepRefines ==
    ASSUME IInv, ~StaleOffsets, [Next]_vars
    PROVE  [Promise!Next]_Promise!vars
<1>1. ASSUME NEW opts \in MakeOpts, NEW meta \in Uses(opts).metas, MakeFile(opts, meta)
      PROVE  [Promise!Next]_Promise!vars
  BY <1>1, MakeRefines, Zenon
<1>2. ASSUME DeleteFile PROVE [Promise!Next]_Promise!vars
  BY <1>2, DeleteRefines, Zenon
<1>3. ASSUME FailAfterLoad PROVE [Promise!Next]_Promise!vars
  BY <1>3, FailRefines, Zenon
<1>4. ASSUME Loaded # NoFile, Operation(Uses(Loaded.Opts)) PROVE [Promise!Next]_Promise!vars
  BY <1>4, OperationRefines, Zenon
<1>5. ASSUME Crash PROVE [Promise!Next]_Promise!vars
  BY <1>5, CrashRefines, Zenon
<1>6. ASSUME UNCHANGED vars PROVE [Promise!Next]_Promise!vars
  <2>1. dbFile' = dbFile /\ dbParts' = dbParts /\ file' = file /\ entries' = entries /\ flushErrors' = flushErrors
    BY <1>6 DEF vars, dbVars, cacheVars
  <2>2. Content' = Content /\ Durable' = Durable
    BY <2>1 DEF Content, Durable, Loaded
  <2> QED  BY <2>1, <2>2 DEF Promise!vars
<1> QED  BY <1>1, <1>2, <1>3, <1>4, <1>5, <1>6, Zenon DEF Next

\* Whatever the size of a part and the bytes written, a writer whose offset is
\* inside the window gets what FileContent promises: every read sees exactly
\* the writes made, a flush makes all of them durable at once, and a write is
\* lost only to a crash or to the failure after MaxFlushErrors others.
THEOREM Implements ==
    ASSUME ~StaleOffsets
    PROVE  Spec => ImplementsFileContent
<1>1. Init => Promise!Init
  BY DEF Init, Promise!Init, Content, Durable, Loaded, View
<1>2. IInv /\ [Next]_vars => [Promise!Next]_Promise!vars
  BY StepRefines
<1> QED  BY <1>1, <1>2, Inductive, PTL DEF Spec, ImplementsFileContent, Promise!Spec

-----------------------------------------------------------------------------
(* Router.                                                                 *)

WsRoutes == {RouteOf[c] : c \in WsConns}

-----------------------------------------------------------------------------
(* The invariant of the routes.                                            *)

\* What a route of a websocket leads to is a websocket of that route that is registered and has not closed.
Live(r, c) ==
    c # None => c \in WsConns /\ RouteOf[c] = r /\ setup[c] = "open" /\ reader[c] \in {"reading", "ended"}

\* The lock is held between the two halves of a registration; until then a websocket does not end, and its
\* channel is open until its last step.
WsOrder(c) ==
    /\ setup[c] # "stored"
    /\ setup[c] = "replacing" <=> GlobalLock = c
    /\ setup[c] # "open" => reader[c] = "reading"
    /\ reader[c] # "over" => toRemoteOpen[c]

\* The two tables agree, but that a route is free while a connection of it is being registered.
Free(r) == \E c \in WsConns : GlobalLock = c /\ RouteOf[c] = r
WsRouteInv(r) ==
    /\ Live(r, RouteMap[r]) /\ Live(r, RouteToConnMap[r])
    /\ Free(r) => RouteMap[r] = None
    /\ ~Free(r) => RouteMap[r] = RouteToConnMap[r]

RouteInv ==
    /\ \A c \in WsConns : WsOrder(c)
    /\ \A r \in WsRoutes : WsRouteInv(r)

-----------------------------------------------------------------------------
(* The invariant of the requests.                                          *)

IsCommand(m, id) == m.kind = "command" /\ m.id = id
IsAnswer(m, id)  == m.kind \in {"response", "error"} /\ m.id = id
IsFinal(m, id)   == IsAnswer(m, id) /\ ~m.cont

\* Where a command may be before it is sent on, and answers.
CommandInLoop(c, id)  == loop[c] # None /\ IsCommand(loop[c], id)
CommandInQueue(i, id) == IsCommand(InputCh[i].msg, id)
CommandAtRouter(id)   == router.pc # "receive" /\ IsCommand(router.msg, id)
AnswerInLoop(c, id)   == loop[c] # None /\ IsAnswer(loop[c], id)
AnswerInQueue(i, id)  == IsAnswer(InputCh[i].msg, id)
AnswerAtRouter(id)    == router.pc # "receive" /\ IsAnswer(router.msg, id)

Queue == 1 .. Len(InputCh)
Sent(c) == 1 .. Len(ToRemoteCh[c])

\* Nobody has been asked yet, and nobody has answered.
Unasked(id) ==
    /\ \A c \in Conns : \A i \in Sent(c) : ~IsCommand(ToRemoteCh[c][i], id) /\ ~IsAnswer(ToRemoteCh[c][i], id)
    /\ \A c \in Conns, n \in 0 .. 1 : <<c, id, n>> \notin owes
    /\ \A c \in Conns : ~AnswerInLoop(c, id)
    /\ \A i \in Queue : ~AnswerInQueue(i, id)
    /\ ~AnswerAtRouter(id)
    /\ req[id].state # "answered"

\* The command of a request is in one place.
Once(id) ==
    /\ \A c \in Conns : CommandInLoop(c, id) =>
          /\ ~CommandAtRouter(id) /\ \A i \in Queue : ~CommandInQueue(i, id)
          /\ \A d \in Conns : CommandInLoop(d, id) => d = c
    /\ \A i \in Queue : CommandInQueue(i, id) =>
          /\ ~CommandAtRouter(id)
          /\ \A j \in Queue : CommandInQueue(j, id) => j = i

\* The last answer is on its way to the client, or has arrived.
Finished(id) ==
    \/ \E c \in Conns : \E i \in Sent(c) : IsFinal(ToRemoteCh[c][i], id)
    \/ req[id].state = "answered"

\* As long as the router has not sent the command on, nobody is asked; and when the last answer is sent, the
\* request is forgotten before anything else happens in the router.
RequestInv(id) ==
    /\ Once(id)
    /\ req[id].state = "new" =>
          /\ \A c \in Conns : ~CommandInLoop(c, id)
          /\ \A i \in Queue : ~CommandInQueue(i, id)
          /\ ~CommandAtRouter(id)
          /\ Unasked(id)
    /\ (\E c \in Conns : CommandInLoop(c, id)) => Unasked(id)
    /\ (\E i \in Queue : CommandInQueue(i, id)) => Unasked(id)
    /\ CommandAtRouter(id) /\ router.pc # "sent" => Unasked(id)
    /\ CommandAtRouter(id) => ~Finished(id)
    /\ Finished(id) => RpcMap[id] = None \/ (router.pc = "sent" /\ IsFinal(router.msg, id))

\* What the router has in hand, by where it is.
RouterTypes ==
    /\ router.pc # "receive" => router.msg \in Messages
    /\ router.pc \in {"lookup", "announced", "local"} => router.dest \in Routes
    /\ router.pc \in {"send", "sent"} => router.to \in Conns
    /\ router.pc = "inject" => router.msg.kind = "command"

Types == RouterTypeOK /\ RouterTypes
RequestsInv == \A id \in Requests : RequestInv(id)
RouterInv == Types /\ RouteInv /\ RequestsInv

-----------------------------------------------------------------------------
(* Types.                                                                  *)

LEMMA RouteFacts ==
    /\ \A c \in Conns : RouteOf[c] \in Routes /\ Behind[c] \subseteq Routes
    /\ WsConns \subseteq Conns /\ Sockets \subseteq Conns /\ ServerConn \in Conns
    /\ \A c \in WsConns : RouteOf[c] \in WsRoutes
    /\ WsRoutes \subseteq Routes
    /\ \A c \in Conns \ WsConns : RouteOf[c] \notin WsRoutes
    /\ \A c \in Sockets : c \notin WsConns
    /\ ServerConn \notin WsConns
    /\ None \notin Conns /\ None \notin Routes
<1>1. /\ WsConns \subseteq Conns /\ Sockets \subseteq Conns /\ ServerConn \in Conns
  BY DEF Conns
<1>2. \A c \in Conns : RouteOf[c] \in Routes /\ Behind[c] \subseteq Routes
  BY DEF Routes
<1> QED  BY <1>1, <1>2, RouterAssumption DEF WsRoutes

Kinds == {"command", "message", "cancel", "response", "error", "announce", "unannounce"}

LEMMA MessageFacts ==
    /\ \A m \in Messages :
          /\ m.kind \in Kinds /\ m.id \in Requests \cup {NoId} /\ m.cont \in BOOLEAN
          /\ m.kind = "command" => m.source \in Routes /\ m.route \in Routes
          /\ m.kind = "message" => m.route \in Routes
          /\ m.kind \in {"cancel", "response", "error"} => m.id \in Requests
          /\ m.kind \in {"announce", "unannounce"} => m.source \in Routes
    /\ \A id \in Requests \cup {NoId}, s \in Routes, r \in Routes : Message("command", id, s, r, FALSE) \in Messages
    /\ \A r \in Routes : Message("message", NoId, None, r, FALSE) \in Messages
    /\ \A id \in Requests : Message("cancel", id, None, None, FALSE) \in Messages
    /\ \A id \in Requests, cont \in BOOLEAN :
          Response(id, cont) \in Messages /\ Message("error", id, None, None, cont) \in Messages
    /\ \A r \in Routes : /\ Message("announce", NoId, r, None, FALSE) \in Messages
                        /\ Message("unannounce", NoId, r, None, FALSE) \in Messages
  BY DEF Messages, Message, Response, Kinds

LEMMA MessageFields ==
    \A kind, id, source, route, cont :
        LET m == Message(kind, id, source, route, cont) IN
        m.kind = kind /\ m.id = id /\ m.source = source /\ m.route = route /\ m.cont = cont
  BY DEF Message

RouterStates == [pc : {"receive", "lookup", "announced", "local", "noroute", "inject", "send", "sent"},
                 msg : Messages \cup {None}, dest : Routes \cup {None}, to : Conns \cup {None}]
Queued == [msg : Messages, from : Routes \cup {None}]

LEMMA RouterFacts == Idle \in RouterStates /\ Idle.pc = "receive"
  BY DEF Idle, RouterStates

Looking(m, d) == [Idle EXCEPT !.pc = "lookup", !.msg = m, !.dest = d]

LEMMA LookForFacts ==
    \A m \in Messages : \A d \in Routes :
        /\ Looking(m, d) \in RouterStates
        /\ Looking(m, d).pc = "lookup" /\ Looking(m, d).msg = m /\ Looking(m, d).dest = d
  BY DEF Idle, RouterStates, Looking

\* A step of a connection touches the routes and the connections only, and keeps their types.
connVarsTyped ==
    /\ RouteMap \in [Routes -> Conns \cup {None}]
    /\ AnnouncedRoutes \in [Routes -> Routes \cup {None}]
    /\ RouteToConnMap \in [WsRoutes -> WsConns \cup {None}]
    /\ GlobalLock \in WsConns \cup {None}
    /\ setup \in [Conns -> {"new", "replacing", "stored", "open"}]
    /\ reader \in [Conns -> {"reading", "ended", "closed", "over"}]
    /\ toRemoteOpen \in [Conns -> BOOLEAN]

LEMMA ConnTypes ==
    ASSUME connVarsTyped, NEW c \in Conns, ConnStep(c) \/ RemoteCloses(c)
    PROVE  connVarsTyped' /\ UNCHANGED connUnchanged
<1> USE RouteFacts DEF connVarsTyped, connUnchanged
<1>1. ASSUME NEW r \in Routes, RegisterRoute(r, c) \/ UnregisterRoute(r)
      PROVE  RouteMap' \in [Routes -> Conns \cup {None}] /\ AnnouncedRoutes' \in [Routes -> Routes \cup {None}]
  BY <1>1 DEF RegisterRoute, UnregisterRoute
<1>2. RouteOf[c] \in Routes
  OBVIOUS
<1>3. CASE c \in WsConns /\ RegisterConn(c)
  <2>1. RouteMap' \in [Routes -> Conns \cup {None}] /\ AnnouncedRoutes' \in [Routes -> Routes \cup {None}]
    BY <1>1, <1>2, <1>3 DEF RegisterConn, routeVars
  <2> QED  BY <1>3, <2>1 DEF RegisterConn
<1>4. CASE c \in WsConns /\ RegisterConnRoute(c)
  <2>1. RouteMap' \in [Routes -> Conns \cup {None}] /\ AnnouncedRoutes' \in [Routes -> Routes \cup {None}]
    BY <1>1, <1>2, <1>4 DEF RegisterConnRoute
  <2> QED  BY <1>4, <2>1 DEF RegisterConnRoute
<1>5. CASE c \in WsConns /\ unregisterConn(c)
  <2>1. RouteMap' \in [Routes -> Conns \cup {None}] /\ AnnouncedRoutes' \in [Routes -> Routes \cup {None}]
    BY <1>1, <1>2, <1>5 DEF unregisterConn, routeVars
  <2> QED  BY <1>5, <2>1 DEF unregisterConn
<1>6. CASE CloseToRemote(c) \/ StoreRouteId(c) \/ CloseSocket(c) \/ RemoteCloses(c)
  BY <1>6 DEF CloseToRemote, StoreRouteId, CloseSocket, RemoteCloses, routeVars
<1>7. CASE RegisterSocket(c)
  <2>1. RouteMap' \in [Routes -> Conns \cup {None}] /\ AnnouncedRoutes' \in [Routes -> Routes \cup {None}]
    BY <1>1, <1>2, <1>7 DEF RegisterSocket
  <2> QED  BY <1>7, <2>1 DEF RegisterSocket
<1>8. CASE UnregisterSocket(c)
  <2>1. RouteMap' \in [Routes -> Conns \cup {None}] /\ AnnouncedRoutes' \in [Routes -> Routes \cup {None}]
    BY <1>1, <1>2, <1>8 DEF UnregisterSocket, routeVars
  <2> QED  BY <1>8, <2>1 DEF UnregisterSocket
<1> QED  BY <1>3, <1>4, <1>5, <1>6, <1>7, <1>8 DEF ConnStep

LEMMA TypeInit == RouterInit => Types
<1> SUFFICES ASSUME RouterInit PROVE Types
  OBVIOUS
<1>1. <<>> \in Seq(Queued) /\ <<>> \in Seq(Messages) /\ Len(<<>>) = 0
  BY EmptySeq
<1>2. connVarsTyped
  BY RouteFacts DEF RouterInit, connVarsTyped, WsRoutes
<1>3. router \in RouterStates /\ router.pc = "receive"
  BY RouterFacts DEF RouterInit
<1>4. ToRemoteCh \in [Conns -> Seq(Messages)] /\ \A c \in Conns : Len(ToRemoteCh[c]) <= ToRemoteChSize
  BY <1>1, RouterAssumption DEF RouterInit
<1>5. InputCh \in Seq(Queued) /\ Len(InputCh) <= InputChSize /\ says \in 0 .. MaxSays
  BY <1>1, RouterAssumption DEF RouterInit
<1> QED  BY <1>2, <1>3, <1>4, <1>5 DEF RouterInit, Types, RouterTypeOK, RouterTypes, connVarsTyped, WsRoutes, RouterStates, Queued

\* The elements of a queue that is longer by one, or shorter.
LEMMA Appended ==
    ASSUME NEW S, NEW q \in Seq(S), NEW m \in S
    PROVE  /\ Append(q, m) \in Seq(S) /\ Len(Append(q, m)) = Len(q) + 1 /\ Len(q) \in Nat
           /\ \A i \in 1 .. Len(q) : i \in 1 .. Len(Append(q, m)) /\ Append(q, m)[i] = q[i]
           /\ Len(q) + 1 \in 1 .. Len(Append(q, m)) /\ Append(q, m)[Len(q) + 1] = m
           /\ \A i \in 1 .. Len(Append(q, m)) : i \in 1 .. Len(q) \/ i = Len(q) + 1
<1>1. PICK a, n : a = Append(q, m) /\ n = Len(q)
  OBVIOUS
<1>2. /\ Append(q, m) \in Seq(S) /\ Len(Append(q, m)) = Len(q) + 1 /\ Len(q) \in Nat
      /\ \A i \in 1 .. Len(q) : Append(q, m)[i] = q[i]
      /\ Append(q, m)[Len(q) + 1] = m
  BY AppendProperties, LenProperties
<1>3. a \in Seq(S) /\ Len(a) = n + 1 /\ n \in Nat /\ (\A i \in 1 .. n : a[i] = q[i]) /\ a[n + 1] = m
  BY <1>1, <1>2
<1>4. (\A i \in 1 .. n : i \in 1 .. Len(a)) /\ n + 1 \in 1 .. Len(a) /\ \A i \in 1 .. Len(a) : i \in 1 .. n \/ i = n + 1
  BY <1>3
<1> QED  BY <1>1, <1>3, <1>4

LEMMA Shortened ==
    ASSUME NEW S, NEW q \in Seq(S), q # <<>>
    PROVE  /\ Tail(q) \in Seq(S) /\ Len(Tail(q)) = Len(q) - 1 /\ Head(q) \in S /\ Head(q) = q[1] /\ 1 \in 1 .. Len(q)
           /\ Len(q) \in Nat /\ \A i \in 1 .. Len(Tail(q)) : i \in Nat /\ i # 0 /\ i + 1 \in 1 .. Len(q) /\ Tail(q)[i] = q[i + 1]
<1>1. PICK t, n, k : t = Tail(q) /\ n = Len(q) /\ k = Len(t)
  OBVIOUS
<1>2. /\ Head(q) \in S /\ Tail(q) \in Seq(S) /\ Len(Tail(q)) = Len(q) - 1
      /\ \A i \in 1 .. Len(Tail(q)) : Tail(q)[i] = q[i + 1]
  BY HeadTailProperties
<1>3. n \in Nat /\ n # 0 /\ Head(q) = q[1]
  BY <1>1, EmptySeq, LenProperties
<1>4. k = n - 1 /\ \A i \in 1 .. k : t[i] = q[i + 1]
  BY <1>1, <1>2
<1>5. 1 \in 1 .. n /\ \A i \in 1 .. k : i \in Nat /\ i # 0 /\ i + 1 \in 1 .. n
  BY <1>3, <1>4
<1> QED  BY <1>1, <1>2, <1>3, <1>4, <1>5

\* The router takes a message: it looks for a route for it, or drops what is no command.
LEMMA ReceiveEffect ==
    ASSUME Types, RouterReceive
    PROVE  /\ InputCh # <<>> /\ Head(InputCh).msg \in Messages /\ InputCh' = Tail(InputCh)
           /\ router' \in RouterStates
           /\ \/ router'.pc = "receive" /\ Head(InputCh).msg.kind # "command"
              \/ router'.pc = "lookup" /\ router'.msg = Head(InputCh).msg /\ router'.dest \in Routes
           /\ AnnouncedRoutes' \in [Routes -> Routes \cup {None}]
<1>1. InputCh # <<>> /\ InputCh \in Seq(Queued) /\ InputCh' = Tail(InputCh)
  BY DEF Types, RouterTypeOK, RouterReceive, Queued
<1>2. PICK x \in Queued : x = Head(InputCh)
  BY <1>1, Shortened
<1>3. PICK m \in Messages : m = x.msg
  BY DEF Queued
<1>4. PICK from \in Routes \cup {None} : from = x.from
  BY DEF Queued
<1>5. \A id \in Requests : RpcMap[id] # None => RpcMap[id].dest \in Routes /\ RpcMap[id].source \in Routes
  BY DEF Types, RouterTypeOK
<1>6. \/ router' = Idle /\ m.kind # "command"
      \/ \E d \in Routes : router' = [Idle EXCEPT !.pc = "lookup", !.msg = m, !.dest = d]
  <2>1. \/ m.kind \in {"command", "message"} /\ LookFor(m, m.route)
        \/ m.kind = "cancel" /\ RpcMap[m.id] # None /\ LookFor(m, RpcMap[m.id].dest)
        \/ m.kind \in {"response", "error"} /\ RpcMap[m.id] # None /\ LookFor(m, RpcMap[m.id].source)
        \/ m.kind \in {"cancel", "response", "error"} /\ RpcMap[m.id] = None /\ Receive
        \/ m.kind \in {"announce", "unannounce"} /\ Receive
    BY <1>2, <1>3 DEF RouterReceive
  <2> QED  BY <1>5, <2>1, MessageFacts DEF LookFor, Receive
<1>7. AnnouncedRoutes' \in [Routes -> Routes \cup {None}]
  <2>1. AnnouncedRoutes' = AnnouncedRoutes \/ \E r \in Routes \cup {None} : AnnouncedRoutes' = [AnnouncedRoutes EXCEPT ![m.source] = r]
    BY <1>2, <1>3, <1>4 DEF RouterReceive
  <2> QED  BY <2>1 DEF Types, RouterTypeOK
<1>8. /\ router' \in RouterStates
      /\ \/ router'.pc = "receive" /\ m.kind # "command"
         \/ router'.pc = "lookup" /\ router'.msg = m /\ router'.dest \in Routes
  <2>1. CASE router' = Idle /\ m.kind # "command"
    BY <2>1, RouterFacts
  <2>2. ASSUME NEW d \in Routes, router' = [Idle EXCEPT !.pc = "lookup", !.msg = m, !.dest = d]
        PROVE  router' \in RouterStates /\ router'.pc = "lookup" /\ router'.msg = m /\ router'.dest = d
    <3>1. PICK g : g = router' /\ g = Looking(m, d)
      BY <2>2 DEF Looking
    <3>2. g \in RouterStates /\ g.pc = "lookup" /\ g.msg = m /\ g.dest = d
      BY <3>1, LookForFacts
    <3> QED  BY <3>1, <3>2
  <2> QED  BY <1>6, <2>1, <2>2
<1> QED  BY <1>1, <1>2, <1>3, <1>7, <1>8

\* What a command leaves in the map, and what a last answer.
LEMMA RpcMapFacts ==
    ASSUME RouterTypeOK, NEW m \in Messages
    PROVE  /\ RpcMapAfter(m) \in [Requests -> {None} \cup [source : Routes, dest : Routes]]
           /\ \A id \in Requests :
                 /\ IsFinal(m, id) => RpcMapAfter(m)[id] = None
                 /\ ~IsFinal(m, id) /\ ~IsCommand(m, id) => RpcMapAfter(m)[id] = RpcMap[id]
<1>1. RpcMap \in [Requests -> {None} \cup [source : Routes, dest : Routes]]
  BY DEF RouterTypeOK
<1>2. CASE m.kind = "command" /\ m.id # NoId
  <2>1. RpcMapAfter(m) = [RpcMap EXCEPT ![m.id] = [source |-> m.source, dest |-> m.route]]
    BY <1>2 DEF RpcMapAfter
  <2>2. [source |-> m.source, dest |-> m.route] \in [source : Routes, dest : Routes]
    BY <1>2, MessageFacts
  <2> QED  BY <1>1, <1>2, <2>1, <2>2 DEF IsFinal, IsAnswer, IsCommand
<1>3. CASE m.kind \in {"response", "error"} /\ ~m.cont
  <2>1. RpcMapAfter(m) = [RpcMap EXCEPT ![m.id] = None]
    BY <1>3 DEF RpcMapAfter
  <2> QED  BY <1>1, <1>3, <2>1, MessageFacts DEF IsFinal, IsAnswer, IsCommand
<1>4. CASE ~(m.kind = "command" /\ m.id # NoId) /\ ~(m.kind \in {"response", "error"} /\ ~m.cont)
  <2>1. RpcMapAfter(m) = RpcMap
    BY <1>4 DEF RpcMapAfter
  <2> QED  BY <1>1, <1>4, <2>1 DEF IsFinal, IsAnswer, IsCommand
<1> QED  BY <1>2, <1>3, <1>4

LEMMA RouterStepTypes ==
    ASSUME Types, RouterStep
    PROVE  Types'
<1> USE DEF aroundUnchanged, connVars, clientVars, routeVars
<1>0. RouterTypeOK /\ RouterTypes /\ router \in RouterStates
  BY DEF Types, RouterTypeOK, RouterStates
<1>a. ASSUME router' \in RouterStates, RouterTypes', UNCHANGED <<RouteMap, AnnouncedRoutes, InputCh, ToRemoteCh, RpcMap, aroundUnchanged>>
      PROVE  Types'
  BY <1>0, <1>a DEF Types, RouterTypeOK, RouterStates
<1>1. CASE RouterReceive
  <2>1. /\ InputCh # <<>> /\ InputCh' = Tail(InputCh) /\ router' \in RouterStates /\ Head(InputCh).msg \in Messages
        /\ \/ router'.pc = "receive"
           \/ router'.pc = "lookup" /\ router'.msg = Head(InputCh).msg /\ router'.dest \in Routes
        /\ AnnouncedRoutes' \in [Routes -> Routes \cup {None}]
    BY <1>1, ReceiveEffect
  <2>2. RouterTypes'
    BY <2>1 DEF RouterTypes
  <2>3. InputCh' \in Seq(Queued) /\ Len(InputCh') <= InputChSize
    <3>1. InputCh \in Seq(Queued) /\ Len(InputCh) <= InputChSize
      BY <1>0 DEF RouterTypeOK, Queued
    <3>2. Tail(InputCh) \in Seq(Queued) /\ Len(Tail(InputCh)) = Len(InputCh) - 1 /\ Len(InputCh) \in Nat
      BY <2>1, <3>1, Shortened
    <3> QED  BY <2>1, <3>1, <3>2, RouterAssumption
  <2> QED  BY <1>0, <1>1, <2>1, <2>2, <2>3 DEF RouterReceive, Types, RouterTypeOK, RouterStates, Queued
<1>2. CASE RouterLookup
  <2>1. ASSUME NEW c \in Conns \cup {None}, NEW p \in {"announced", "noroute"}, FoundConn(c, p), router.pc # "receive",
               router.pc \in {"lookup", "announced", "local"}
        PROVE  router' \in RouterStates /\ RouterTypes'
    <3>1. router.msg \in Messages /\ router.dest \in Routes
      BY <1>0, <2>1 DEF RouterTypes
    <3> QED  BY <1>0, <2>1, <3>1 DEF FoundConn, RouterStates, RouterTypes
  <2>2. RouteMap[router.dest] \in Conns \cup {None} \/ router.pc \notin {"lookup", "local"}
    BY <1>0 DEF RouterTypeOK, RouterTypes
  <2>3. CASE router.pc = "announced"
    <3>1. router.msg \in Messages /\ router.dest \in Routes
      BY <1>0, <2>3 DEF RouterTypes
    <3>2. AnnouncedRoutes[router.dest] \in Routes \cup {None}
      BY <1>0, <3>1 DEF RouterTypeOK
    <3>3. router' \in RouterStates /\ RouterTypes'
      BY <1>0, <1>2, <2>3, <3>1, <3>2 DEF RouterLookup, RouterStates, RouterTypes
    <3> QED  BY <1>a, <1>2, <3>3 DEF RouterLookup
  <2>4. CASE router.pc \in {"lookup", "local"}
    BY <1>a, <1>2, <2>1, <2>2, <2>4 DEF RouterLookup
  <2> QED  BY <1>2, <2>3, <2>4 DEF RouterLookup
<1>3. CASE RouterSend
  <2>1. router.pc = "send" /\ router.msg \in Messages /\ router.to \in Conns
    BY <1>0, <1>3 DEF RouterSend, RouterTypes
  <2>2. router' \in RouterStates /\ RouterTypes'
    BY <1>0, <1>3, <2>1 DEF RouterSend, RouterStates, RouterTypes
  <2>3. PICK c \in Conns, m \in Messages : c = router.to /\ m = router.msg
    BY <2>1
  <2>4. ToRemoteCh[c] \in Seq(Messages)
    BY <1>0 DEF RouterTypeOK
  <2>5. Append(ToRemoteCh[c], m) \in Seq(Messages) /\ Len(Append(ToRemoteCh[c], m)) = Len(ToRemoteCh[c]) + 1 /\ Len(ToRemoteCh[c]) \in Nat
    BY <2>4, Appended
  <2>6. \/ ToRemoteCh' = ToRemoteCh
        \/ Len(ToRemoteCh[c]) < ToRemoteChSize /\ ToRemoteCh' = [ToRemoteCh EXCEPT ![c] = Append(ToRemoteCh[c], m)]
    BY <1>3, <2>3 DEF RouterSend
  <2>7. ToRemoteCh' \in [Conns -> Seq(Messages)] /\ \A d \in Conns : Len(ToRemoteCh'[d]) <= ToRemoteChSize
    <3>1. ToRemoteCh \in [Conns -> Seq(Messages)] /\ \A d \in Conns : Len(ToRemoteCh[d]) <= ToRemoteChSize
      BY <1>0 DEF RouterTypeOK
    <3>2. ASSUME NEW q \in Seq(Messages), NEW n \in Nat, n = Len(ToRemoteCh[c]), n < ToRemoteChSize, Len(q) = n + 1,
                 ToRemoteCh' = [ToRemoteCh EXCEPT ![c] = q]
          PROVE  ToRemoteCh' \in [Conns -> Seq(Messages)] /\ \A d \in Conns : Len(ToRemoteCh'[d]) <= ToRemoteChSize
      <4>1. Len(q) <= ToRemoteChSize
        BY <3>2, RouterAssumption
      <4> QED  BY <3>1, <3>2, <4>1
    <3> QED  BY <2>5, <2>6, <3>1, <3>2
  <2> QED  BY <1>0, <1>3, <2>2, <2>7 DEF RouterSend, Types, RouterTypeOK, RouterStates
<1>4. CASE RouterSent
  <2>1. router.msg \in Messages
    BY <1>0, <1>4 DEF RouterSent, RouterTypes
  <2>2. RpcMap' \in [Requests -> {None} \cup [source : Routes, dest : Routes]]
    BY <1>0, <1>4, <2>1, RpcMapFacts DEF RouterSent
  <2>3. router' \in RouterStates /\ RouterTypes'
    BY <1>4, RouterFacts DEF RouterSent, Receive, RouterTypes
  <2> QED  BY <1>0, <1>4, <2>2, <2>3 DEF RouterSent, Types, RouterTypeOK, RouterStates
<1>5. CASE RouterNoRoute
  <2>1. router.msg \in Messages /\ router.pc = "noroute"
    BY <1>0, <1>5 DEF RouterNoRoute, RouterTypes
  <2>2. RpcMap' \in [Requests -> {None} \cup [source : Routes, dest : Routes]]
    <3>1. RpcMap' = RpcMap \/ RpcMap' = RpcMapAfter(router.msg)
      BY <1>5 DEF RouterNoRoute
    <3>2. RpcMapAfter(router.msg) \in [Requests -> {None} \cup [source : Routes, dest : Routes]]
      BY <1>0, <2>1, RpcMapFacts
    <3> QED  BY <1>0, <3>1, <3>2 DEF RouterTypeOK
  <2>3. router' \in RouterStates /\ RouterTypes'
    <3>1. CASE router.msg.kind = "command" /\ router.msg.id # NoId
      <4>1. PICK m \in Messages, d \in Routes : router' = [Idle EXCEPT !.pc = "lookup", !.msg = m, !.dest = d]
        BY <1>5, <2>1, <3>1, MessageFacts DEF RouterNoRoute, LookFor
      <4>2. router' \in RouterStates /\ router'.pc = "lookup" /\ router'.msg = m /\ router'.dest = d
        <5>1. PICK g : g = router' /\ g = Looking(m, d)
          BY <4>1 DEF Looking
        <5>2. g \in RouterStates /\ g.pc = "lookup" /\ g.msg = m /\ g.dest = d
          BY <5>1, LookForFacts
        <5> QED  BY <5>1, <5>2
      <4> QED  BY <4>2 DEF RouterTypes
    <3>2. CASE router.msg.kind = "command" /\ router.msg.id = NoId
      BY <1>0, <1>5, <2>1, <3>2 DEF RouterNoRoute, RouterTypes, RouterStates
    <3>3. CASE router.msg.kind # "command"
      BY <1>5, <3>3, RouterFacts DEF RouterNoRoute, Receive, RouterTypes
    <3> QED  BY <3>1, <3>2, <3>3
  <2> QED  BY <1>0, <1>5, <2>2, <2>3 DEF RouterNoRoute, Types, RouterTypeOK, RouterStates
<1>6. CASE RouterInject
  <2>1. PICK x \in Queued : InputCh' = Append(InputCh, x)
    <3>1. router.msg \in Messages /\ router.msg.source \in Routes
      BY <1>0, <1>6, MessageFacts DEF RouterInject, RouterTypes
    <3>2. [msg |-> Message("message", NoId, None, router.msg.source, FALSE), from |-> None] \in Queued
      BY <3>1, MessageFacts DEF Queued
    <3> QED  BY <1>6, <3>2 DEF RouterInject
  <2>2. InputCh' \in Seq(Queued) /\ Len(InputCh') <= InputChSize
    <3>1. InputCh \in Seq(Queued) /\ Len(InputCh) < InputChSize
      BY <1>0, <1>6 DEF RouterTypeOK, Queued, RouterInject
    <3>2. Append(InputCh, x) \in Seq(Queued) /\ Len(Append(InputCh, x)) = Len(InputCh) + 1 /\ Len(InputCh) \in Nat
      BY <3>1, Appended
    <3> QED  BY <2>1, <3>1, <3>2, RouterAssumption
  <2>3. router' \in RouterStates /\ RouterTypes'
    BY <1>6, RouterFacts DEF RouterInject, Receive, RouterTypes
  <2> QED  BY <1>0, <1>6, <2>2, <2>3 DEF RouterInject, Types, RouterTypeOK, RouterStates, Queued
<1> QED  BY <1>1, <1>2, <1>3, <1>4, <1>5, <1>6 DEF RouterStep

ClientStep(c) ==
    \/ Forward(c) \/ ReadMessage(c) \/ Answers(c) \/ SendOneWay(c)
    \/ \E id \in Requests : SendRequest(c, id) \/ SendCancel(c, id)
    \/ \E a \in Behind[c] : Announce(c, a)

\* What a client says of its own accord or in answer is a message, and its loop was empty.
LEMMA SayTypes ==
    ASSUME RouterTypeOK, NEW c \in Conns, NEW m \in Messages, Say(c, m)
    PROVE  /\ loop' = [loop EXCEPT ![c] = m] /\ loop[c] = None
           /\ loop' \in [Conns -> Messages \cup {None}]
           /\ UNCHANGED <<routeVars, serverVars, connVars, InputCh, ToRemoteCh>>
  BY DEF Say, RouterTypeOK

\* A message goes from the hand of a receive loop to the queue.
LEMMA ForwardEffect ==
    ASSUME RouterTypeOK, NEW c \in Conns, Forward(c)
    PROVE  \E x \in Queued :
             /\ x.msg = loop[c] /\ loop[c] # None /\ loop[c] \in Messages /\ InputCh \in Seq(Queued)
             /\ InputCh' = Append(InputCh, x) /\ Len(InputCh') <= InputChSize
             /\ loop' = [loop EXCEPT ![c] = None]
<1>1. loop[c] # None /\ loop[c] \in Messages /\ RouteOf[c] \in Routes
  BY RouteFacts DEF Forward, RouterTypeOK
<1>2. PICK x : x = [msg |-> loop[c], from |-> RouteOf[c]]
  OBVIOUS
<1>3. x \in Queued /\ x.msg = loop[c]
  BY <1>1, <1>2 DEF Queued
<1>4. InputCh \in Seq(Queued) /\ Len(InputCh) < InputChSize /\ InputCh' = Append(InputCh, x) /\ loop' = [loop EXCEPT ![c] = None]
  BY <1>2 DEF Forward, RouterTypeOK, Queued
<1>5. Len(Append(InputCh, x)) = Len(InputCh) + 1 /\ Len(InputCh) \in Nat
  BY <1>3, <1>4, Appended
<1> QED  BY <1>1, <1>3, <1>4, <1>5, RouterAssumption

LEMMA ClientStepTypes ==
    ASSUME RouterTypeOK, NEW c \in Conns, ClientStep(c)
    PROVE  RouterTypeOK' /\ UNCHANGED <<router, routeVars, connVars>>
<1> USE DEF routeVars, serverVars, connVars, clientVars
<1>0. c \in Conns /\ RouteOf[c] \in Routes /\ Behind[c] \subseteq Routes /\ (\A r \in Routes \ {RouteOf[c]} : r \in Routes)
  BY RouteFacts
<1>1. CASE Forward(c)
  <2>1. PICK x \in Queued : /\ x.msg = loop[c] /\ InputCh \in Seq(Queued) /\ InputCh' = Append(InputCh, x)
                           /\ Len(InputCh') <= InputChSize /\ loop' = [loop EXCEPT ![c] = None]
    BY <1>1, ForwardEffect
  <2>2. InputCh' \in Seq(Queued)
    BY <2>1, Appended
  <2>3. loop' \in [Conns -> Messages \cup {None}]
    BY <2>1 DEF RouterTypeOK
  <2> QED  BY <1>1, <2>1, <2>2, <2>3 DEF Forward, RouterTypeOK, Queued
<1>2. CASE ReadMessage(c)
  <2>1. ToRemoteCh[c] \in Seq(Messages) /\ ToRemoteCh[c] # <<>>
    BY <1>2 DEF ReadMessage, RouterTypeOK
  <2>2. PICK q \in Seq(Messages), m \in Messages :
          /\ q = Tail(ToRemoteCh[c]) /\ m = Head(ToRemoteCh[c]) /\ Len(q) = Len(ToRemoteCh[c]) - 1 /\ Len(ToRemoteCh[c]) \in Nat
    BY <2>1, Shortened
  <2>3. ToRemoteCh' = [ToRemoteCh EXCEPT ![c] = q]
    BY <1>2, <2>2 DEF ReadMessage
  <2>4. ToRemoteCh' \in [Conns -> Seq(Messages)] /\ \A d \in Conns : Len(ToRemoteCh'[d]) <= ToRemoteChSize
    <3>1. ToRemoteCh \in [Conns -> Seq(Messages)] /\ \A d \in Conns : Len(ToRemoteCh[d]) <= ToRemoteChSize
      BY DEF RouterTypeOK
    <3>2. Len(q) <= ToRemoteChSize
      BY <2>2, <3>1, RouterAssumption
    <3> QED  BY <2>3, <3>1, <3>2
  <2>5. owes' = owes \/ (m.kind = "command" /\ m.id # NoId /\ owes' = owes \cup {<<c, m.id, 0>>})
    BY <1>2, <2>2 DEF ReadMessage
  <2>6. owes' \subseteq Conns \X Requests \X (0 .. 1)
    BY <2>5, MessageFacts DEF RouterTypeOK
  <2>7. req' = req \/ (m.id \in Requests /\ req' = [req EXCEPT ![m.id].state = "answered"])
    BY <1>2, <2>2, MessageFacts DEF ReadMessage
  <2>8. req' \in [Requests -> [state : {"new", "sent", "canceled", "answered"}, by : Conns \cup {None}, source : Routes \cup {None}]]
    <3>1. req \in [Requests -> [state : {"new", "sent", "canceled", "answered"}, by : Conns \cup {None}, source : Routes \cup {None}]]
      BY DEF RouterTypeOK
    <3>2. ASSUME NEW id \in Requests, req' = [req EXCEPT ![id].state = "answered"]
          PROVE  req' \in [Requests -> [state : {"new", "sent", "canceled", "answered"}, by : Conns \cup {None}, source : Routes \cup {None}]]
      BY <3>1, <3>2
    <3> QED  BY <2>7, <3>1, <3>2
  <2> QED  BY <1>2, <2>4, <2>6, <2>8 DEF ReadMessage, RouterTypeOK
<1>3. CASE Answers(c)
  <2>1. PICK id \in Requests, n \in 0 .. 1 : Answer(c, id, n)
    BY <1>3 DEF Answers
  <2>2. PICK cont \in BOOLEAN : /\ Say(c, Response(id, cont))
                               /\ owes' = (owes \ {<<c, id, n>>}) \cup (IF cont THEN {<<c, id, 1>>} ELSE {})
    BY <2>1 DEF Answer
  <2>3. Response(id, cont) \in Messages
    BY MessageFacts
  <2>4. owes' \subseteq Conns \X Requests \X (0 .. 1)
    BY <2>2 DEF RouterTypeOK
  <2>5. loop' \in [Conns -> Messages \cup {None}] /\ UNCHANGED <<routeVars, serverVars, connVars, InputCh, ToRemoteCh>>
    BY <2>2, <2>3, SayTypes
  <2> QED  BY <2>1, <2>4, <2>5 DEF Answer, RouterTypeOK
<1>4. ASSUME NEW m \in Messages, SayUnasked(c, m)
      PROVE  /\ says' \in 0 .. MaxSays
             /\ loop' \in [Conns -> Messages \cup {None}] /\ UNCHANGED <<routeVars, serverVars, connVars, InputCh, ToRemoteCh>>
  <2>1. says' \in 0 .. MaxSays
    BY <1>4, RouterAssumption DEF SayUnasked, RouterTypeOK
  <2> QED  BY <1>4, <2>1, SayTypes DEF SayUnasked
<1>5. CASE SendOneWay(c)
  <2>1. PICK d \in Routes : SayUnasked(c, Message("command", NoId, RouteOf[c], d, FALSE))
    BY <1>5 DEF SendOneWay
  <2>2. Message("command", NoId, RouteOf[c], d, FALSE) \in Messages
    BY <1>0, MessageFacts
  <2>3. /\ says' \in 0 .. MaxSays
        /\ loop' \in [Conns -> Messages \cup {None}] /\ UNCHANGED <<routeVars, serverVars, connVars, InputCh, ToRemoteCh>>
    BY <1>4, <2>1, <2>2
  <2> QED  BY <1>5, <2>3 DEF SendOneWay, RouterTypeOK
<1>6. ASSUME NEW id \in Requests, SendRequest(c, id) PROVE RouterTypeOK' /\ UNCHANGED <<router, routeVars, connVars>>
  <2>1. PICK source \in Sources(c), d \in Routes :
          /\ SayUnasked(c, Message("command", id, source, d, FALSE))
          /\ req' = [req EXCEPT ![id] = [state |-> "sent", by |-> c, source |-> source]]
    BY <1>6 DEF SendRequest
  <2>2. source \in Routes
    BY <1>0 DEF Sources
  <2>3. Message("command", id, source, d, FALSE) \in Messages
    BY <2>2, MessageFacts
  <2>4. /\ says' \in 0 .. MaxSays
        /\ loop' \in [Conns -> Messages \cup {None}] /\ UNCHANGED <<routeVars, serverVars, connVars, InputCh, ToRemoteCh>>
    BY <1>4, <2>1, <2>3
  <2>5. req' \in [Requests -> [state : {"new", "sent", "canceled", "answered"}, by : Conns \cup {None}, source : Routes \cup {None}]]
    BY <2>1, <2>2 DEF RouterTypeOK
  <2> QED  BY <1>6, <2>4, <2>5 DEF SendRequest, RouterTypeOK
<1>7. ASSUME NEW id \in Requests, SendCancel(c, id) PROVE RouterTypeOK' /\ UNCHANGED <<router, routeVars, connVars>>
  <2>1. /\ says' \in 0 .. MaxSays
        /\ loop' \in [Conns -> Messages \cup {None}] /\ UNCHANGED <<routeVars, serverVars, connVars, InputCh, ToRemoteCh>>
    <3>1. PICK m \in Messages : m = Message("cancel", id, None, None, FALSE)
      BY MessageFacts
    <3>2. SayUnasked(c, m)
      BY <1>7, <3>1 DEF SendCancel
    <3> QED  BY <1>4, <3>2
  <2>2. req' \in [Requests -> [state : {"new", "sent", "canceled", "answered"}, by : Conns \cup {None}, source : Routes \cup {None}]]
    <3>1. req \in [Requests -> [state : {"new", "sent", "canceled", "answered"}, by : Conns \cup {None}, source : Routes \cup {None}]]
      BY DEF RouterTypeOK
    <3>2. req' = [req EXCEPT ![id].state = "canceled"]
      BY <1>7 DEF SendCancel
    <3> QED  BY <3>1, <3>2
  <2> QED  BY <1>7, <2>1, <2>2 DEF SendCancel, RouterTypeOK
<1>8. ASSUME NEW a \in Behind[c], Announce(c, a) PROVE RouterTypeOK' /\ UNCHANGED <<router, routeVars, connVars>>
  <2>1. a \in Routes
    BY <1>0
  <2>2. /\ says' \in 0 .. MaxSays
        /\ loop' \in [Conns -> Messages \cup {None}] /\ UNCHANGED <<routeVars, serverVars, connVars, InputCh, ToRemoteCh>>
    <3>1. PICK m \in Messages : SayUnasked(c, m)
      <4>1. /\ Message("announce", NoId, a, None, FALSE) \in Messages
            /\ Message("unannounce", NoId, a, None, FALSE) \in Messages
        BY <2>1, MessageFacts
      <4>2. \/ SayUnasked(c, Message("announce", NoId, a, None, FALSE))
            \/ SayUnasked(c, Message("unannounce", NoId, a, None, FALSE))
        BY <1>8 DEF Announce
      <4> QED  BY <4>1, <4>2
    <3> QED  BY <1>4, <3>1
  <2>3. said' \subseteq Conns \X Routes
    <3>1. said \subseteq Conns \X Routes
      BY DEF RouterTypeOK
    <3>2. said' = said \cup {<<c, a>>} \/ said' = said \ {<<c, a>>}
      BY <1>8 DEF Announce
    <3> QED  BY <2>1, <3>1, <3>2
  <2> QED  BY <1>8, <2>2, <2>3 DEF Announce, RouterTypeOK
<1> QED  BY <1>1, <1>2, <1>3, <1>5, <1>6, <1>7, <1>8 DEF ClientStep

\* The steps there are.
LEMMA NextCases ==
    ASSUME [RouterNext]_routerVars
    PROVE  \/ RouterStep
           \/ \E c \in Conns : ConnStep(c) \/ RemoteCloses(c) \/ ClientStep(c)
           \/ UNCHANGED routerVars
  BY DEF RouterNext, ClientStep

LEMMA TypeStep == Types /\ [RouterNext]_routerVars => Types'
<1> SUFFICES ASSUME Types, [RouterNext]_routerVars PROVE Types'
  OBVIOUS
<1>0. RouterTypeOK /\ RouterTypes /\ connVarsTyped
  BY DEF Types, RouterTypeOK, connVarsTyped, WsRoutes
<1>1. CASE RouterStep
  BY <1>1, RouterStepTypes
<1>2. ASSUME NEW c \in Conns, ConnStep(c) \/ RemoteCloses(c) PROVE Types'
  <2>1. connVarsTyped' /\ UNCHANGED connUnchanged
    BY <1>0, <1>2, ConnTypes
  <2> QED  BY <1>0, <2>1 DEF connUnchanged, serverVars, clientVars, Types, RouterTypeOK, RouterTypes, connVarsTyped, WsRoutes
<1>3. ASSUME NEW c \in Conns, ClientStep(c) PROVE Types'
  <2>1. RouterTypeOK' /\ UNCHANGED <<router, routeVars, connVars>>
    BY <1>0, <1>3, ClientStepTypes
  <2> QED  BY <1>0, <2>1 DEF Types, RouterTypes
<1>4. CASE UNCHANGED routerVars
  BY <1>0, <1>4 DEF routerVars, routeVars, serverVars, connVars, clientVars, Types, RouterTypeOK, RouterTypes
<1> QED  BY <1>1, <1>2, <1>3, <1>4, NextCases

LEMMA TypesHold == RouterSpec => []Types
<1> QED  BY TypeInit, TypeStep, PTL DEF RouterSpec

\* Types of all the state of the router, its connections and their clients, and the bounds of the channels.
THEOREM RouterTypeCorrect == RouterSpec => []RouterTypeOK
<1>1. Types => RouterTypeOK
  BY DEF Types
<1> QED  BY <1>1, TypesHold, PTL

-----------------------------------------------------------------------------
(* The routes.                                                             *)

LEMMA InitRoutes == RouterInit => RouteInv
<1> SUFFICES ASSUME RouterInit PROVE RouteInv
  OBVIOUS
<1>1. \A c \in WsConns : WsOrder(c)
  BY RouteFacts DEF RouterInit, WsOrder
<1>2. ASSUME NEW r \in WsRoutes PROVE WsRouteInv(r)
  <2>1. r \in Routes /\ r # RouteOf[ServerConn]
    BY RouteFacts
  <2>2. RouteMap[r] = None /\ RouteToConnMap[r] = None
    BY <2>1 DEF RouterInit, WsRoutes
  <2> QED  BY <2>2 DEF WsRouteInv, Live
<1> QED  BY <1>1, <1>2 DEF RouteInv

\* A step of another kind of connection changes nothing that the invariant speaks of.
LEMMA RoutesFrame ==
    ASSUME RouteInv, UNCHANGED <<RouteToConnMap, GlobalLock>>,
           \A r \in WsRoutes : RouteMap'[r] = RouteMap[r],
           \A c \in WsConns : setup'[c] = setup[c] /\ reader'[c] = reader[c] /\ toRemoteOpen'[c] = toRemoteOpen[c]
    PROVE  RouteInv'
<1>1. ASSUME NEW c \in WsConns PROVE WsOrder(c)'
  BY <1>1 DEF RouteInv, WsOrder
<1>2. ASSUME NEW r \in WsRoutes PROVE WsRouteInv(r)'
  <2>1. WsRouteInv(r) /\ RouteMap'[r] = RouteMap[r]
    BY <1>2 DEF RouteInv
  <2>2. Free(r)' <=> Free(r)
    BY DEF Free
  <2>3. Live(r, RouteMap[r])'
    BY <2>1 DEF WsRouteInv, Live
  <2>4. Live(r, RouteToConnMap[r])'
    BY <2>1 DEF WsRouteInv, Live
  <2> QED  BY <2>1, <2>2, <2>3, <2>4 DEF WsRouteInv
<1> QED  BY <1>1, <1>2 DEF RouteInv

LEMMA SocketKeepsRoutes ==
    ASSUME Types, RouteInv, NEW c \in Sockets,
           StoreRouteId(c) \/ RegisterSocket(c) \/ CloseSocket(c) \/ UnregisterSocket(c)
    PROVE  RouteInv'
<1>0. c \notin WsConns /\ c \in Conns /\ RouteOf[c] \notin WsRoutes /\ WsRoutes \subseteq Routes /\ WsConns \subseteq Conns
  BY RouteFacts
<1>1. UNCHANGED <<RouteToConnMap, GlobalLock>>
  BY DEF StoreRouteId, RegisterSocket, CloseSocket, UnregisterSocket
<1>2. \A d \in WsConns : setup'[d] = setup[d] /\ reader'[d] = reader[d] /\ toRemoteOpen'[d] = toRemoteOpen[d]
  BY <1>0 DEF StoreRouteId, RegisterSocket, CloseSocket, UnregisterSocket, Types, RouterTypeOK
<1>3. \A r \in WsRoutes : RouteMap'[r] = RouteMap[r]
  BY <1>0 DEF StoreRouteId, RegisterSocket, CloseSocket, UnregisterSocket, RegisterRoute, UnregisterRoute,
              routeVars, Types, RouterTypeOK
<1> QED  BY <1>1, <1>2, <1>3, RoutesFrame

LEMMA WsKeepsRoutes ==
    ASSUME Types, RouteInv, NEW c \in WsConns,
           RegisterConn(c) \/ RegisterConnRoute(c) \/ unregisterConn(c) \/ CloseToRemote(c) \/ RemoteCloses(c)
    PROVE  RouteInv'
<1>0. /\ RouteOf[c] \in WsRoutes /\ WsRoutes \subseteq Routes /\ WsConns \subseteq Conns /\ None \notin WsConns
      /\ (\A d \in WsConns : WsOrder(d)) /\ \A r \in WsRoutes : WsRouteInv(r)
  BY RouteFacts DEF RouteInv
<1> DEFINE route == RouteOf[c]
<1>a. /\ RouteMap \in [Routes -> Conns \cup {None}] /\ RouteToConnMap \in [WsRoutes -> WsConns \cup {None}]
      /\ setup \in [Conns -> {"new", "replacing", "stored", "open"}]
      /\ reader \in [Conns -> {"reading", "ended", "closed", "over"}] /\ toRemoteOpen \in [Conns -> BOOLEAN]
  BY DEF Types, RouterTypeOK, WsRoutes
<1>1. CASE RegisterConn(c)
  <2>1. /\ setup[c] = "new" /\ GlobalLock = None /\ GlobalLock' = c
        /\ setup' = [setup EXCEPT ![c] = "replacing"] /\ UNCHANGED <<RouteToConnMap, reader, toRemoteOpen>>
    BY <1>1 DEF RegisterConn, MayBegin
  <2>2. \A r \in WsRoutes : ~Free(r) /\ RouteMap[r] = RouteToConnMap[r]
    BY <1>0, <2>1 DEF Free, WsRouteInv
  <2>3. RouteMap'[route] = None /\ \A r \in WsRoutes \ {route} : RouteMap'[r] = RouteMap[r]
    BY <1>0, <1>1, <1>a, <2>2 DEF RegisterConn, UnregisterRoute, routeVars
  <2>4. ASSUME NEW d \in WsConns PROVE WsOrder(d)'
    BY <1>0, <1>a, <2>1, <2>4 DEF WsOrder
  <2>5. ASSUME NEW r \in WsRoutes PROVE WsRouteInv(r)'
    <3>1. \A x : Live(r, x) => Live(r, x)'
      BY <1>0, <1>a, <2>1 DEF Live
    <3>2. Live(r, RouteToConnMap[r])'
      BY <1>0, <2>1, <3>1 DEF WsRouteInv, Live
    <3>3. Live(r, RouteMap[r])'
      <4>1. RouteMap'[r] = None \/ RouteMap'[r] = RouteMap[r]
        BY <2>3
      <4> QED  BY <1>0, <3>1, <4>1 DEF WsRouteInv, Live
    <3>4. Free(r)' <=> r = route
      BY <1>0, <2>1 DEF Free
    <3> QED  BY <2>1, <2>2, <2>3, <3>2, <3>3, <3>4 DEF WsRouteInv
  <2> QED  BY <2>4, <2>5 DEF RouteInv
<1>2. CASE RegisterConnRoute(c)
  <2>1. /\ setup[c] = "replacing" /\ GlobalLock = c /\ GlobalLock' = None /\ reader[c] = "reading"
        /\ setup' = [setup EXCEPT ![c] = "open"] /\ UNCHANGED <<reader, toRemoteOpen>>
        /\ RouteToConnMap' = [RouteToConnMap EXCEPT ![route] = c] /\ RouteMap' = [RouteMap EXCEPT ![route] = c]
    BY <1>0, <1>2 DEF RegisterConnRoute, RegisterRoute, WsOrder
  <2>2. ASSUME NEW d \in WsConns PROVE WsOrder(d)'
    BY <1>0, <1>a, <2>1, <2>2 DEF WsOrder
  <2>3. ASSUME NEW r \in WsRoutes PROVE WsRouteInv(r)'
    <3>1. \A x : Live(r, x) => Live(r, x)'
      BY <1>0, <1>a, <2>1 DEF Live
    <3>2. ~Free(r)'
      BY <1>0, <2>1 DEF Free
    <3>3. CASE r = route
      <4>1. RouteMap'[r] = c /\ RouteToConnMap'[r] = c
        BY <1>0, <1>a, <2>1, <3>3
      <4>2. Live(r, c)'
        BY <1>0, <1>a, <2>1, <3>3 DEF Live
      <4> QED  BY <3>2, <4>1, <4>2 DEF WsRouteInv, Live
    <3>4. CASE r # route
      <4>1. RouteMap'[r] = RouteMap[r] /\ RouteToConnMap'[r] = RouteToConnMap[r]
        BY <1>a, <2>1, <3>4
      <4>2. ~Free(r)
        BY <2>1, <3>4 DEF Free
      <4> QED  BY <1>0, <3>1, <3>2, <4>1, <4>2 DEF WsRouteInv, Live
    <3> QED  BY <3>3, <3>4
  <2> QED  BY <2>2, <2>3 DEF RouteInv
<1>3. CASE unregisterConn(c)
  <2>1. /\ reader[c] = "ended" /\ GlobalLock = None /\ reader' = [reader EXCEPT ![c] = "closed"]
        /\ UNCHANGED <<GlobalLock, setup, toRemoteOpen>>
    BY <1>3 DEF unregisterConn
  <2>2. \A r \in WsRoutes : ~Free(r) /\ ~Free(r)' /\ RouteMap[r] = RouteToConnMap[r]
    BY <1>0, <2>1 DEF Free, WsRouteInv
  <2>3. /\ RouteMap'[route] # c /\ RouteToConnMap'[route] = RouteMap'[route]
        /\ RouteMap'[route] \in {None, RouteMap[route]}
        /\ \A r \in WsRoutes \ {route} : RouteMap'[r] = RouteMap[r] /\ RouteToConnMap'[r] = RouteToConnMap[r]
    <3>1. CASE RouteToConnMap[route] = c
      BY <1>0, <1>3, <1>a, <3>1 DEF unregisterConn, UnregisterRoute
    <3>2. CASE RouteToConnMap[route] # c
      BY <1>0, <1>3, <2>2, <3>2 DEF unregisterConn, routeVars
    <3> QED  BY <3>1, <3>2
  <2>4. ASSUME NEW d \in WsConns PROVE WsOrder(d)'
    BY <1>0, <1>a, <2>1, <2>4 DEF WsOrder
  <2>5. ASSUME NEW r \in WsRoutes PROVE WsRouteInv(r)'
    <3>1. \A x : Live(r, x) /\ x # c => Live(r, x)'
      BY <1>0, <1>a, <2>1 DEF Live
    <3>2. CASE r = route
      <4>1. Live(r, RouteMap[r])
        BY <1>0 DEF WsRouteInv
      <4>2. PICK x : x = RouteMap'[r]
        OBVIOUS
      <4>3. x = RouteToConnMap'[r] /\ x # c /\ (x = None \/ x = RouteMap[r])
        BY <2>3, <3>2, <4>2
      <4>4. Live(r, x)'
        BY <3>1, <4>1, <4>3 DEF Live
      <4> QED  BY <2>2, <4>2, <4>3, <4>4 DEF WsRouteInv, Live
    <3>3. CASE r # route
      <4>1. RouteMap'[r] = RouteMap[r] /\ RouteToConnMap'[r] = RouteToConnMap[r] /\ RouteMap[r] = RouteToConnMap[r]
        BY <2>2, <2>3, <3>3
      <4>2. Live(r, RouteMap[r])
        BY <1>0 DEF WsRouteInv
      <4>3. PICK x : x = RouteMap[r]
        OBVIOUS
      <4>4. Live(r, x) /\ x # c
        BY <1>0, <3>3, <4>2, <4>3 DEF Live
      <4>5. Live(r, x)'
        BY <3>1, <4>4
      <4> QED  BY <2>2, <4>1, <4>3, <4>5 DEF WsRouteInv, Live
    <3> QED  BY <3>2, <3>3
  <2> QED  BY <2>4, <2>5 DEF RouteInv
<1>4. CASE CloseToRemote(c) \/ RemoteCloses(c)
  <2>1. /\ UNCHANGED <<RouteMap, RouteToConnMap, GlobalLock, setup>>
        /\ \/ reader[c] = "closed" /\ reader' = [reader EXCEPT ![c] = "over"] /\ toRemoteOpen' = [toRemoteOpen EXCEPT ![c] = FALSE]
           \/ reader[c] = "reading" /\ setup[c] = "open" /\ reader' = [reader EXCEPT ![c] = "ended"] /\ UNCHANGED toRemoteOpen
    BY <1>4 DEF CloseToRemote, RemoteCloses, routeVars
  <2>2. ASSUME NEW d \in WsConns PROVE WsOrder(d)'
    BY <1>0, <1>a, <2>1, <2>2 DEF WsOrder
  <2>3. ASSUME NEW r \in WsRoutes PROVE WsRouteInv(r)'
    <3>1. \A x : Live(r, x) => Live(r, x)'
      BY <1>0, <1>a, <2>1 DEF Live
    <3>2. Free(r)' <=> Free(r)
      BY <2>1 DEF Free
    <3> QED  BY <1>0, <2>1, <3>1, <3>2 DEF WsRouteInv, Live
  <2> QED  BY <2>2, <2>3 DEF RouteInv
<1> QED  BY <1>1, <1>2, <1>3, <1>4

LEMMA RouteStep == Types /\ RouteInv /\ [RouterNext]_routerVars => RouteInv'
<1> SUFFICES ASSUME Types, RouteInv, [RouterNext]_routerVars PROVE RouteInv'
  OBVIOUS
<1>0. RouterTypeOK
  BY DEF Types
<1>1. CASE UNCHANGED <<RouteMap, RouteToConnMap, GlobalLock, setup, reader, toRemoteOpen>>
  BY <1>1, RoutesFrame
<1>2. CASE RouterStep
  BY <1>1, <1>2 DEF RouterStep, RouterReceive, RouterLookup, RouterSend, RouterSent, RouterNoRoute, RouterInject,
                    aroundUnchanged, connVars, routeVars
<1>3. ASSUME NEW c \in Conns, ClientStep(c) PROVE RouteInv'
  BY <1>0, <1>1, <1>3, ClientStepTypes DEF connVars, routeVars
<1>4. ASSUME NEW c \in Conns, ConnStep(c) PROVE RouteInv'
  BY <1>4, SocketKeepsRoutes, WsKeepsRoutes DEF ConnStep
<1>5. ASSUME NEW c \in Conns, RemoteCloses(c) PROVE RouteInv'
  <2>1. CASE c \in WsConns
    BY <1>5, <2>1, WsKeepsRoutes
  <2>2. CASE c \notin WsConns
    <3>1. \A d \in WsConns : d # c /\ d \in Conns
      BY <2>2, RouteFacts
    <3>2. /\ UNCHANGED <<RouteMap, RouteToConnMap, GlobalLock, setup, toRemoteOpen>> /\ reader' = [reader EXCEPT ![c] = "ended"]
      BY <1>5 DEF RemoteCloses, routeVars
    <3>3. \A d \in WsConns : reader'[d] = reader[d]
      BY <1>0, <3>1, <3>2 DEF RouterTypeOK
    <3> QED  BY <3>2, <3>3, RoutesFrame
  <2> QED  BY <2>1, <2>2
<1>6. CASE UNCHANGED routerVars
  BY <1>1, <1>6 DEF routerVars, routeVars, connVars
<1> QED  BY <1>2, <1>3, <1>4, <1>5, <1>6, NextCases

LEMMA RoutesHold == RouterSpec => [](Types /\ RouteInv)
<1> QED  BY TypeInit, TypeStep, InitRoutes, RouteStep, PTL DEF RouterSpec

\* "only unregister if we are the current connection": in every behaviour a websocket that is open keeps its route
\* until another one is being registered for it, whatever older connections of the route do meanwhile.
THEOREM RoutesKept == RouterSpec => RouteIsKept
<1> DEFINE Kept == \A c \in WsConns : RouteMap[RouteOf[c]] = c /\ reader[c] = "reading" =>
                      RouteMap'[RouteOf[c]] = c \/ GlobalLock' # None
<1>1. ASSUME Types, RouteInv, [RouterNext]_routerVars PROVE Kept
  <2> SUFFICES ASSUME NEW c \in WsConns, RouteMap[RouteOf[c]] = c, reader[c] = "reading"
               PROVE  RouteMap'[RouteOf[c]] = c \/ GlobalLock' # None
    OBVIOUS
  <2>0. /\ RouterTypeOK /\ RouteOf[c] \in WsRoutes /\ RouteOf[c] \in Routes /\ c # None
        /\ WsRouteInv(RouteOf[c]) /\ (\A d \in WsConns : WsOrder(d)) /\ \A d \in WsConns : d # None
    BY <1>1, RouteFacts DEF Types, RouteInv
  <2>1. CASE RouteMap'[RouteOf[c]] = RouteMap[RouteOf[c]]
    BY <2>1
  <2>2. CASE RouterStep \/ UNCHANGED routerVars
    BY <2>1, <2>2 DEF RouterStep, RouterReceive, RouterLookup, RouterSend, RouterSent, RouterNoRoute, RouterInject,
                      routerVars, routeVars
  <2>3. ASSUME NEW d \in Conns, ClientStep(d) \/ RemoteCloses(d) PROVE RouteMap' = RouteMap
    BY <2>0, <2>3, ClientStepTypes DEF RemoteCloses, routeVars
  <2>4. ASSUME NEW d \in WsConns, RegisterConn(d) \/ RegisterConnRoute(d) \/ unregisterConn(d) \/ CloseToRemote(d)
        PROVE  RouteMap'[RouteOf[c]] = c \/ GlobalLock' # None
    <3>1. CASE RegisterConn(d)
      BY <2>0, <3>1 DEF RegisterConn
    <3>2. CASE RegisterConnRoute(d)
      <4>1. GlobalLock = d /\ RouteMap' = [RouteMap EXCEPT ![RouteOf[d]] = d]
        BY <2>0, <3>2 DEF RegisterConnRoute, RegisterRoute, WsOrder
      <4>2. RouteOf[d] # RouteOf[c]
        BY <2>0, <4>1 DEF WsRouteInv, Free
      <4> QED  BY <2>0, <2>1, <4>1, <4>2 DEF RouterTypeOK
    <3>3. CASE unregisterConn(d)
      <4>1. d # c /\ GlobalLock = None
        BY <3>3 DEF unregisterConn
      <4>2. RouteToConnMap[RouteOf[c]] = c
        BY <2>0, <4>1 DEF WsRouteInv, Free
      <4>3. RouteOf[d] # RouteOf[c] \/ RouteToConnMap[RouteOf[d]] # d
        BY <4>1, <4>2
      <4>4. RouteMap' = RouteMap \/ (RouteOf[d] # RouteOf[c] /\ RouteMap' = [RouteMap EXCEPT ![RouteOf[d]] = None])
        BY <3>3, <4>3 DEF unregisterConn, UnregisterRoute, routeVars
      <4> QED  BY <2>0, <2>1, <4>4 DEF RouterTypeOK
    <3>4. CASE CloseToRemote(d)
      BY <2>1, <3>4 DEF CloseToRemote, routeVars
    <3> QED  BY <2>4, <3>1, <3>2, <3>3, <3>4
  <2>5. ASSUME NEW d \in Sockets, StoreRouteId(d) \/ RegisterSocket(d) \/ CloseSocket(d) \/ UnregisterSocket(d)
        PROVE  RouteMap'[RouteOf[c]] = RouteMap[RouteOf[c]]
    <3>1. RouteOf[d] # RouteOf[c]
      BY <2>0, RouteFacts
    <3> QED  BY <2>0, <2>5, <3>1 DEF StoreRouteId, RegisterSocket, CloseSocket, UnregisterSocket, RegisterRoute,
                                     UnregisterRoute, routeVars, RouterTypeOK
  <2> QED  BY <1>1, <2>1, <2>2, <2>3, <2>4, <2>5, NextCases DEF ConnStep
<1>2. Types /\ RouteInv /\ [RouterNext]_routerVars => [Kept]_routerVars
  BY <1>1
<1>3. RouteIsKept <=> [][Kept]_routerVars
  BY DEF RouteIsKept
<1> QED  BY <1>2, <1>3, RoutesHold, PTL DEF RouterSpec

-----------------------------------------------------------------------------
(* The requests.                                                           *)

LEMMA InitRequests == RouterInit => RequestsInv
<1> SUFFICES ASSUME RouterInit, NEW id \in Requests PROVE RequestInv(id)
  BY DEF RequestsInv
<1>1. /\ \A c \in Conns : ~CommandInLoop(c, id) /\ ~AnswerInLoop(c, id) /\ ToRemoteCh[c] = <<>>
      /\ InputCh = <<>> /\ router.pc = "receive" /\ owes = {} /\ req[id].state = "new"
  BY RouterFacts DEF RouterInit, CommandInLoop, AnswerInLoop
<1>2. \A i \in 1 .. Len(<<>>) : FALSE
  BY EmptySeq
<1>3. (\A i \in Queue : FALSE) /\ \A c \in Conns : \A i \in Sent(c) : FALSE
  BY <1>1, <1>2 DEF Queue, Sent
<1>4. ~CommandAtRouter(id) /\ ~AnswerAtRouter(id)
  BY <1>1 DEF CommandAtRouter, AnswerAtRouter
<1>5. Unasked(id) /\ Once(id)
  BY <1>1, <1>3, <1>4 DEF Unasked, Once
<1>6. ~Finished(id)
  BY <1>1, <1>3 DEF Finished
<1> QED  BY <1>1, <1>3, <1>4, <1>5, <1>6 DEF RequestInv

\* A step in which nothing moves that belongs to the request.
LEMMA RequestFrame ==
    ASSUME NEW id \in Requests, RequestInv(id), UNCHANGED <<InputCh, ToRemoteCh, RpcMap, router>>,
           \A c \in Conns : (CommandInLoop(c, id)' <=> CommandInLoop(c, id)) /\ (AnswerInLoop(c, id)' => AnswerInLoop(c, id)),
           \A c \in Conns, n \in 0 .. 1 : <<c, id, n>> \in owes' => <<c, id, n>> \in owes,
           \A s \in {"new", "answered"} : req'[id].state = s => req[id].state = s
    PROVE  RequestInv(id)'
<1>1. /\ Queue' = Queue /\ (\A c \in Conns : Sent(c)' = Sent(c))
      /\ (CommandAtRouter(id)' <=> CommandAtRouter(id)) /\ (AnswerAtRouter(id)' <=> AnswerAtRouter(id))
      /\ \A i \in Queue : (CommandInQueue(i, id)' <=> CommandInQueue(i, id)) /\ (AnswerInQueue(i, id)' <=> AnswerInQueue(i, id))
  BY DEF Queue, Sent, CommandAtRouter, AnswerAtRouter, CommandInQueue, AnswerInQueue
<1>2. (req'[id].state = "new" => req[id].state = "new") /\ (req'[id].state = "answered" => req[id].state = "answered")
  OBVIOUS
<1>3. Unasked(id) => Unasked(id)'
  BY <1>1, <1>2 DEF Unasked
<1>4. Once(id)'
  BY <1>1 DEF Once, RequestInv
<1>5. Finished(id)' => Finished(id)
  BY <1>1, <1>2 DEF Finished
<1> QED  BY <1>1, <1>2, <1>3, <1>4, <1>5 DEF RequestInv

\* A message that a client says and that does not belong to the request.
LEMMA SayOther ==
    ASSUME RouterTypeOK, NEW id \in Requests, RequestInv(id), NEW c \in Conns, NEW m \in Messages, Say(c, m),
           ~IsCommand(m, id), ~IsAnswer(m, id),
           \A d \in Conns, n \in 0 .. 1 : <<d, id, n>> \in owes' => <<d, id, n>> \in owes,
           \A s \in {"new", "answered"} : req'[id].state = s => req[id].state = s
    PROVE  RequestInv(id)'
<1>1. loop \in [Conns -> Messages \cup {None}] /\ loop[c] = None /\ loop' = [loop EXCEPT ![c] = m]
      /\ UNCHANGED <<InputCh, ToRemoteCh, RpcMap, router>>
  BY DEF RouterTypeOK, Say, serverVars
<1>2. \A d \in Conns : (CommandInLoop(d, id)' <=> CommandInLoop(d, id)) /\ (AnswerInLoop(d, id)' => AnswerInLoop(d, id))
  BY <1>1 DEF CommandInLoop, AnswerInLoop
<1> QED  BY <1>1, <1>2, RequestFrame

\* The client sends the request: its command is in one loop, and nobody has seen it.
LEMMA RequestSent ==
    ASSUME RouterTypeOK, NEW id \in Requests, RequestInv(id), NEW c \in Conns, SendRequest(c, id)
    PROVE  RequestInv(id)'
<1>1. PICK source, dest :
        /\ SayUnasked(c, Message("command", id, source, dest, FALSE))
        /\ req' = [req EXCEPT ![id] = [state |-> "sent", by |-> c, source |-> source]]
  BY DEF SendRequest
<1>2. PICK m : m = Message("command", id, source, dest, FALSE)
  OBVIOUS
<1>3. /\ req[id].state = "new" /\ req'[id].state = "sent" /\ IsCommand(m, id) /\ ~IsAnswer(m, id)
      /\ loop \in [Conns -> Messages \cup {None}] /\ loop[c] = None /\ loop' = [loop EXCEPT ![c] = m]
      /\ UNCHANGED <<InputCh, ToRemoteCh, RpcMap, router, owes>>
  BY <1>1, <1>2 DEF RouterTypeOK, SendRequest, SayUnasked, Say, serverVars, Message, IsCommand, IsAnswer
<1>4. /\ \A d \in Conns : ~CommandInLoop(d, id)
      /\ (\A i \in Queue : ~CommandInQueue(i, id)) /\ ~CommandAtRouter(id) /\ Unasked(id)
  BY <1>3 DEF RequestInv
<1>5. /\ Queue' = Queue /\ (\A d \in Conns : Sent(d)' = Sent(d))
      /\ ~CommandAtRouter(id)' /\ (AnswerAtRouter(id)' <=> AnswerAtRouter(id))
      /\ \A i \in Queue : ~CommandInQueue(i, id)' /\ (AnswerInQueue(i, id)' <=> AnswerInQueue(i, id))
  BY <1>3, <1>4 DEF Queue, Sent, CommandAtRouter, AnswerAtRouter, CommandInQueue, AnswerInQueue
<1>6. \A d \in Conns : (CommandInLoop(d, id)' => d = c) /\ (AnswerInLoop(d, id)' => AnswerInLoop(d, id))
  BY <1>3, <1>4 DEF CommandInLoop, AnswerInLoop
<1>7. Unasked(id)'
  BY <1>3, <1>4, <1>5, <1>6 DEF Unasked
<1>8. Once(id)'
  BY <1>5, <1>6 DEF Once
<1>9. ~Finished(id)'
  BY <1>7 DEF Unasked, Finished, IsFinal
<1> QED  BY <1>3, <1>5, <1>7, <1>8, <1>9 DEF RequestInv

\* Whoever answers has been asked, so that the command is no longer on its way.
LEMMA RequestAnswered ==
    ASSUME RouterTypeOK, NEW id \in Requests, RequestInv(id), NEW c \in Conns, NEW n \in 0 .. 1, Answer(c, id, n)
    PROVE  RequestInv(id)'
<1>1. PICK cont : Say(c, Response(id, cont))
  BY DEF Answer
<1>2. ~Unasked(id)
  BY DEF Answer, Unasked
<1>3. /\ \A d \in Conns : ~CommandInLoop(d, id)
      /\ (\A i \in Queue : ~CommandInQueue(i, id)) /\ (CommandAtRouter(id) => router.pc = "sent")
      /\ req[id].state # "new"
  BY <1>2 DEF RequestInv
<1>4. /\ loop \in [Conns -> Messages \cup {None}] /\ loop' = [loop EXCEPT ![c] = Response(id, cont)]
      /\ UNCHANGED <<InputCh, ToRemoteCh, RpcMap, router, req>>
  BY <1>1 DEF RouterTypeOK, Answer, Say, serverVars
<1>5. \A d \in Conns : ~CommandInLoop(d, id)'
  BY <1>3, <1>4 DEF CommandInLoop, IsCommand, Response, Message
<1>6. /\ Queue' = Queue /\ (CommandAtRouter(id)' <=> CommandAtRouter(id))
      /\ \A i \in Queue : ~CommandInQueue(i, id)'
  BY <1>3, <1>4 DEF Queue, CommandAtRouter, CommandInQueue
<1>7. Finished(id)' <=> Finished(id)
  BY <1>4 DEF Finished, Sent
<1>8. Once(id)'
  BY <1>5, <1>6 DEF Once
<1> QED  BY <1>3, <1>4, <1>5, <1>6, <1>7, <1>8 DEF RequestInv

\* A receive loop puts its message on the queue.
LEMMA RequestForwarded ==
    ASSUME RouterTypeOK, NEW id \in Requests, RequestInv(id), NEW c \in Conns, Forward(c)
    PROVE  RequestInv(id)'
<1>1. PICK x \in Queued :
        /\ x.msg = loop[c] /\ loop[c] # None /\ InputCh \in Seq(Queued)
        /\ InputCh' = Append(InputCh, x) /\ loop' = [loop EXCEPT ![c] = None]
  BY ForwardEffect
<1>2. UNCHANGED <<ToRemoteCh, RpcMap, router, owes, req>> /\ loop \in [Conns -> Messages \cup {None}]
  BY DEF Forward, serverVars, clientVars, RouterTypeOK
<1>3. PICK n : n = Len(InputCh) + 1
  OBVIOUS
<1>4. /\ n \in Queue' /\ InputCh'[n] = x
      /\ \A i \in Queue : i \in Queue' /\ InputCh'[i] = InputCh[i]
      /\ \A i \in Queue' : i \in Queue \/ i = n
  BY <1>1, <1>3, Appended DEF Queue
<1>5. /\ CommandInQueue(n, id)' <=> CommandInLoop(c, id)
      /\ AnswerInQueue(n, id)' <=> AnswerInLoop(c, id)
      /\ \A i \in Queue : (CommandInQueue(i, id)' <=> CommandInQueue(i, id)) /\ (AnswerInQueue(i, id)' <=> AnswerInQueue(i, id))
  BY <1>1, <1>4 DEF CommandInQueue, AnswerInQueue, CommandInLoop, AnswerInLoop
<1>6. \A d \in Conns : /\ CommandInLoop(d, id)' <=> d # c /\ CommandInLoop(d, id)
                       /\ AnswerInLoop(d, id)' => AnswerInLoop(d, id)
  BY <1>1, <1>2 DEF CommandInLoop, AnswerInLoop
<1>7. /\ (CommandAtRouter(id)' <=> CommandAtRouter(id)) /\ (AnswerAtRouter(id)' <=> AnswerAtRouter(id))
      /\ \A d \in Conns : Sent(d)' = Sent(d)
  BY <1>2 DEF CommandAtRouter, AnswerAtRouter, Sent
<1>8. Unasked(id) => Unasked(id)'
  BY <1>2, <1>4, <1>5, <1>6, <1>7 DEF Unasked
<1>9. Finished(id)' <=> Finished(id)
  BY <1>2, <1>7 DEF Finished
<1>10. Once(id)'
  <2>1. Once(id)
    BY DEF RequestInv
  <2>2. ASSUME NEW d \in Conns, CommandInLoop(d, id)'
        PROVE  /\ ~CommandAtRouter(id)' /\ \A i \in Queue' : ~CommandInQueue(i, id)'
               /\ \A e \in Conns : CommandInLoop(e, id)' => e = d
    <3>1. d # c /\ CommandInLoop(d, id) /\ ~CommandInLoop(c, id)
      BY <1>6, <2>1, <2>2 DEF Once
    <3> QED  BY <1>4, <1>5, <1>6, <1>7, <2>1, <3>1 DEF Once
  <2>3. ASSUME NEW i \in Queue', CommandInQueue(i, id)'
        PROVE  ~CommandAtRouter(id)' /\ \A j \in Queue' : CommandInQueue(j, id)' => j = i
    <3>1. CASE CommandInLoop(c, id)
      <4>1. ~CommandAtRouter(id) /\ \A j \in Queue : ~CommandInQueue(j, id)
        BY <2>1, <3>1 DEF Once
      <4> QED  BY <1>4, <1>5, <1>7, <2>3, <4>1
    <3>2. CASE ~CommandInLoop(c, id)
      <4>1. i \in Queue /\ CommandInQueue(i, id)
        BY <1>4, <1>5, <2>3, <3>2
      <4> QED  BY <1>4, <1>5, <1>7, <2>1, <3>2, <4>1 DEF Once
    <3> QED  BY <3>1, <3>2
  <2> QED  BY <2>2, <2>3 DEF Once
<1>11. (\E i \in Queue' : CommandInQueue(i, id)') =>
          (\E d \in Conns : CommandInLoop(d, id)) \/ (\E i \in Queue : CommandInQueue(i, id))
  BY <1>4, <1>5
<1>12. (\E d \in Conns : CommandInLoop(d, id)') => \E d \in Conns : CommandInLoop(d, id)
  BY <1>6
<1> QED  BY <1>2, <1>7, <1>8, <1>9, <1>10, <1>11, <1>12 DEF RequestInv

\* A client reads what the router has sent: as long as the command is on its way, nothing of the request.
LEMMA RequestRead ==
    ASSUME RouterTypeOK, NEW id \in Requests, RequestInv(id), NEW c \in Conns, ReadMessage(c)
    PROVE  RequestInv(id)'
<1>1. ToRemoteCh[c] \in Seq(Messages) /\ ToRemoteCh[c] # <<>> /\ ToRemoteCh \in [Conns -> Seq(Messages)]
  BY DEF ReadMessage, RouterTypeOK
<1>2. PICK q \in Seq(Messages), m \in Messages : q = Tail(ToRemoteCh[c]) /\ m = Head(ToRemoteCh[c])
  BY <1>1, Shortened
<1>3. /\ ToRemoteCh' = [ToRemoteCh EXCEPT ![c] = q] /\ UNCHANGED <<InputCh, RpcMap, router, loop>>
      /\ owes' = owes \/ (m.kind = "command" /\ owes' = owes \cup {<<c, m.id, 0>>})
      /\ req' = req \/ (m.kind \in {"response", "error"} /\ ~m.cont /\ m.id \in Requests /\ req' = [req EXCEPT ![m.id].state = "answered"])
  BY <1>2, MessageFacts DEF ReadMessage, serverVars
<1>4. m = ToRemoteCh[c][1] /\ 1 \in Sent(c)
  BY <1>1, <1>2, Shortened DEF Sent
<1>5. \A d \in Conns : \A i \in Sent(d)' : \E j \in Sent(d) : ToRemoteCh'[d][i] = ToRemoteCh[d][j]
  <2>1. ASSUME NEW i \in 1 .. Len(q) PROVE \E j \in 1 .. Len(ToRemoteCh[c]) : q[i] = ToRemoteCh[c][j]
    BY <1>1, <1>2, <2>1, Shortened
  <2>2. ToRemoteCh'[c] = q /\ \A d \in Conns \ {c} : ToRemoteCh'[d] = ToRemoteCh[d]
    BY <1>1, <1>3
  <2> QED  BY <2>1, <2>2 DEF Sent
<1>6. /\ Queue' = Queue /\ (CommandAtRouter(id)' <=> CommandAtRouter(id)) /\ (AnswerAtRouter(id)' <=> AnswerAtRouter(id))
      /\ \A i \in Queue : (CommandInQueue(i, id)' <=> CommandInQueue(i, id)) /\ (AnswerInQueue(i, id)' <=> AnswerInQueue(i, id))
      /\ \A d \in Conns : (CommandInLoop(d, id)' <=> CommandInLoop(d, id)) /\ (AnswerInLoop(d, id)' <=> AnswerInLoop(d, id))
  BY <1>3 DEF Queue, CommandAtRouter, AnswerAtRouter, CommandInQueue, AnswerInQueue, CommandInLoop, AnswerInLoop
<1>7. req'[id].state = req[id].state \/ (IsFinal(m, id) /\ req'[id].state = "answered")
  <2>1. req \in [Requests -> [state : {"new", "sent", "canceled", "answered"}, by : Conns \cup {None}, source : Routes \cup {None}]]
    BY DEF RouterTypeOK
  <2> QED  BY <1>3, <2>1 DEF IsFinal, IsAnswer
<1>8. Finished(id)' => Finished(id)
  <2>1. CASE req'[id].state = "answered"
    BY <1>4, <1>7, <2>1 DEF Finished
  <2>2. ASSUME NEW d \in Conns, NEW i \in Sent(d)', IsFinal(ToRemoteCh'[d][i], id) PROVE Finished(id)
    BY <1>5, <2>2 DEF Finished
  <2> QED  BY <2>1, <2>2 DEF Finished
<1>9. Unasked(id) => Unasked(id)'
  <2> SUFFICES ASSUME Unasked(id) PROVE Unasked(id)'
    OBVIOUS
  <2>1. ~IsCommand(m, id) /\ ~IsAnswer(m, id)
    BY <1>4 DEF Unasked
  <2>2. req'[id].state # "answered"
    BY <1>7, <2>1 DEF Unasked, IsFinal
  <2>3. \A d \in Conns, n \in 0 .. 1 : <<d, id, n>> \notin owes'
    <3>1. \A d \in Conns, n \in 0 .. 1 : <<d, id, n>> \notin owes
      BY DEF Unasked
    <3>2. owes' = owes \/ (m.id # id /\ owes' = owes \cup {<<c, m.id, 0>>})
      BY <1>3, <2>1 DEF IsCommand
    <3>3. ASSUME NEW x, x # id, owes' = owes \cup {<<c, x, 0>>}, NEW d \in Conns, NEW n \in 0 .. 1
          PROVE  <<d, id, n>> \notin owes'
      <4>1. <<d, id, n>> # <<c, x, 0>>
        BY <3>3
      <4> QED  BY <3>1, <3>3, <4>1
    <3> QED  BY <3>1, <3>2, <3>3
  <2>4. \A d \in Conns : \A i \in Sent(d)' : ~IsCommand(ToRemoteCh'[d][i], id) /\ ~IsAnswer(ToRemoteCh'[d][i], id)
    BY <1>5 DEF Unasked
  <2> QED  BY <1>6, <2>2, <2>3, <2>4 DEF Unasked
<1>10. Once(id)'
  BY <1>6 DEF Once, RequestInv
<1>11. req'[id].state = "new" => req[id].state = "new"
  BY <1>7
<1> QED  BY <1>3, <1>6, <1>8, <1>9, <1>10, <1>11 DEF RequestInv

\* The router leaves the clients and their loops alone.
LEMMA RouterFrame ==
    ASSUME NEW id \in Requests, RouterStep
    PROVE  /\ UNCHANGED <<loop, owes, req>>
           /\ \A c \in Conns : (CommandInLoop(c, id)' <=> CommandInLoop(c, id)) /\ (AnswerInLoop(c, id)' <=> AnswerInLoop(c, id))
<1>1. UNCHANGED <<loop, owes, req>>
  BY DEF RouterStep, RouterReceive, RouterLookup, RouterSend, RouterSent, RouterNoRoute, RouterInject, aroundUnchanged, clientVars
<1> QED  BY <1>1 DEF CommandInLoop, AnswerInLoop

\* The router takes the first message of its queue.
LEMMA RequestReceived ==
    ASSUME Types, NEW id \in Requests, RequestInv(id), RouterReceive
    PROVE  RequestInv(id)'
<1>0. RouterTypeOK /\ RouterStep
  BY DEF Types, RouterStep
<1>1. UNCHANGED <<loop, owes, req, ToRemoteCh, RpcMap>> /\ router.pc = "receive"
  BY <1>0, RouterFrame DEF RouterReceive
<1>2. InputCh \in Seq(Queued) /\ InputCh # <<>> /\ InputCh' = Tail(InputCh)
  BY <1>0, ReceiveEffect DEF RouterTypeOK, Queued
<1>3. PICK m \in Messages : m = Head(InputCh).msg
  BY ReceiveEffect
<1>4. \/ router'.pc = "receive" /\ m.kind # "command"
      \/ router'.pc = "lookup" /\ router'.msg = m
  BY <1>3, ReceiveEffect
<1>5. /\ 1 \in Queue /\ (CommandInQueue(1, id) <=> IsCommand(m, id)) /\ (AnswerInQueue(1, id) <=> IsAnswer(m, id))
  BY <1>2, <1>3, Shortened DEF Queue, CommandInQueue, AnswerInQueue
<1>6. \A i \in Queue' : /\ i \in Nat /\ i # 0 /\ i + 1 \in Queue
                        /\ (CommandInQueue(i, id)' <=> CommandInQueue(i + 1, id)) /\ (AnswerInQueue(i, id)' <=> AnswerInQueue(i + 1, id))
  BY <1>2, Shortened DEF Queue, CommandInQueue, AnswerInQueue
<1>7. /\ ~CommandAtRouter(id) /\ (CommandAtRouter(id)' <=> IsCommand(m, id)) /\ (AnswerAtRouter(id)' => IsAnswer(m, id))
  BY <1>1, <1>4 DEF CommandAtRouter, AnswerAtRouter, IsCommand
<1>8. \A c \in Conns : /\ (CommandInLoop(c, id)' <=> CommandInLoop(c, id)) /\ (AnswerInLoop(c, id)' <=> AnswerInLoop(c, id))
                       /\ Sent(c)' = Sent(c)
  BY <1>0, <1>1, RouterFrame DEF Sent
<1>9. Unasked(id) => Unasked(id)'
  BY <1>1, <1>5, <1>6, <1>7, <1>8 DEF Unasked
<1>10. Finished(id)' <=> Finished(id)
  BY <1>1, <1>8 DEF Finished
<1>11. Once(id)'
  <2>1. Once(id)
    BY DEF RequestInv
  <2>2. ASSUME NEW i \in Queue', CommandInQueue(i, id)'
        PROVE  ~CommandAtRouter(id)' /\ \A j \in Queue' : CommandInQueue(j, id)' => j = i
    <3>1. i \in Nat /\ i # 0 /\ i + 1 \in Queue /\ CommandInQueue(i + 1, id) /\ i + 1 # 1
      BY <1>6, <2>2
    <3>2. \A j \in Queue : CommandInQueue(j, id) => j = i + 1
      BY <2>1, <3>1 DEF Once
    <3>3. ~IsCommand(m, id)
      BY <1>5, <3>1, <3>2
    <3>4. ASSUME NEW j \in Queue', CommandInQueue(j, id)' PROVE j = i
      <4>1. j \in Nat /\ j + 1 = i + 1
        BY <1>6, <3>2, <3>4
      <4> QED  BY <3>1, <4>1
    <3> QED  BY <1>7, <3>3, <3>4
  <2>3. ASSUME NEW c \in Conns, CommandInLoop(c, id)'
        PROVE  /\ ~CommandAtRouter(id)' /\ \A i \in Queue' : ~CommandInQueue(i, id)'
               /\ \A d \in Conns : CommandInLoop(d, id)' => d = c
    <3>1. CommandInLoop(c, id)
      BY <1>8, <2>3
    <3>2. (\A i \in Queue : ~CommandInQueue(i, id)) /\ \A d \in Conns : CommandInLoop(d, id) => d = c
      BY <2>1, <3>1 DEF Once
    <3> QED  BY <1>5, <1>6, <1>7, <1>8, <3>2
  <2> QED  BY <2>2, <2>3 DEF Once
<1>12. (\E i \in Queue' : CommandInQueue(i, id)') => \E i \in Queue : CommandInQueue(i, id)
  BY <1>6
<1>13. IsCommand(m, id) => Unasked(id)
  BY <1>5 DEF RequestInv
<1>14. Unasked(id) => ~Finished(id)
  BY DEF Unasked, Finished, IsFinal
<1>15. req'[id].state = "new" => ~IsCommand(m, id)
  BY <1>1, <1>5 DEF RequestInv
<1> QED  BY <1>1, <1>7, <1>8, <1>9, <1>10, <1>11, <1>12, <1>13, <1>14, <1>15 DEF RequestInv

\* The router looks for a route, and has the message in hand.
LEMMA RequestLookedUp ==
    ASSUME Types, NEW id \in Requests, RequestInv(id), RouterLookup
    PROVE  RequestInv(id)'
<1>1. RouterStep /\ UNCHANGED <<RpcMap, InputCh, ToRemoteCh>>
  BY DEF RouterStep, RouterLookup
<1>2. /\ router.pc \in {"lookup", "announced", "local"} /\ router'.msg = router.msg
      /\ router'.pc \in {"announced", "local", "noroute", "send"}
  BY DEF RouterLookup, FoundConn, Types, RouterTypeOK
<1>3. (CommandAtRouter(id)' <=> CommandAtRouter(id)) /\ (AnswerAtRouter(id)' <=> AnswerAtRouter(id))
  BY <1>2 DEF CommandAtRouter, AnswerAtRouter
<1>4. UNCHANGED <<loop, owes, req>> /\ Queue' = Queue /\ (\A c \in Conns : Sent(c)' = Sent(c))
      /\ (\A i \in Queue : (CommandInQueue(i, id)' <=> CommandInQueue(i, id)) /\ (AnswerInQueue(i, id)' <=> AnswerInQueue(i, id)))
      /\ \A c \in Conns : (CommandInLoop(c, id)' <=> CommandInLoop(c, id)) /\ (AnswerInLoop(c, id)' <=> AnswerInLoop(c, id))
  BY <1>1, RouterFrame DEF Queue, Sent, CommandInQueue, AnswerInQueue
<1>5. Unasked(id)' <=> Unasked(id)
  BY <1>1, <1>3, <1>4 DEF Unasked
<1>6. Finished(id)' <=> Finished(id)
  BY <1>1, <1>4 DEF Finished
<1>7. Once(id)'
  BY <1>3, <1>4 DEF Once, RequestInv
<1> QED  BY <1>1, <1>2, <1>3, <1>4, <1>5, <1>6, <1>7 DEF RequestInv

\* The router puts the message on a channel; of the request only what it holds itself gets there.
LEMMA RequestRouted ==
    ASSUME Types, NEW id \in Requests, RequestInv(id), RouterSend
    PROVE  RequestInv(id)'
<1>1. RouterStep /\ UNCHANGED <<RpcMap, InputCh>> /\ router.pc = "send"
  BY DEF RouterStep, RouterSend
<1>2. router'.pc = "sent" /\ router'.msg = router.msg
  BY DEF RouterSend, Types, RouterTypeOK
<1>3. PICK m \in Messages, c \in Conns : m = router.msg /\ c = router.to
  BY <1>1 DEF Types, RouterTypes
<1>4. (CommandAtRouter(id)' <=> IsCommand(m, id)) /\ (CommandAtRouter(id) <=> IsCommand(m, id))
      /\ (AnswerAtRouter(id)' <=> IsAnswer(m, id)) /\ (AnswerAtRouter(id) <=> IsAnswer(m, id))
  BY <1>1, <1>2, <1>3 DEF CommandAtRouter, AnswerAtRouter
<1>5. UNCHANGED <<loop, owes, req>> /\ Queue' = Queue
      /\ (\A i \in Queue : (CommandInQueue(i, id)' <=> CommandInQueue(i, id)) /\ (AnswerInQueue(i, id)' <=> AnswerInQueue(i, id)))
      /\ \A d \in Conns : (CommandInLoop(d, id)' <=> CommandInLoop(d, id)) /\ (AnswerInLoop(d, id)' <=> AnswerInLoop(d, id))
  BY <1>1, RouterFrame DEF Queue, CommandInQueue, AnswerInQueue
<1>6. \A d \in Conns : \A i \in Sent(d)' : (\E j \in Sent(d) : ToRemoteCh'[d][i] = ToRemoteCh[d][j]) \/ ToRemoteCh'[d][i] = m
  <2>1. ToRemoteCh \in [Conns -> Seq(Messages)]
    BY DEF Types, RouterTypeOK
  <2>2. ToRemoteCh' = ToRemoteCh \/ ToRemoteCh' = [ToRemoteCh EXCEPT ![c] = Append(ToRemoteCh[c], m)]
    BY <1>3 DEF RouterSend
  <2>3. CASE ToRemoteCh' = ToRemoteCh
    BY <2>3 DEF Sent
  <2>4. ASSUME NEW q \in Seq(Messages), q = Append(ToRemoteCh[c], m), ToRemoteCh' = [ToRemoteCh EXCEPT ![c] = q]
        PROVE  \A d \in Conns : \A i \in Sent(d)' : (\E j \in Sent(d) : ToRemoteCh'[d][i] = ToRemoteCh[d][j]) \/ ToRemoteCh'[d][i] = m
    <3>1. ASSUME NEW i \in 1 .. Len(q) PROVE (\E j \in 1 .. Len(ToRemoteCh[c]) : q[i] = ToRemoteCh[c][j]) \/ q[i] = m
      BY <2>1, <2>4, Appended
    <3>2. ToRemoteCh'[c] = q /\ \A d \in Conns \ {c} : ToRemoteCh'[d] = ToRemoteCh[d]
      BY <2>1, <2>4
    <3> QED  BY <3>1, <3>2 DEF Sent
  <2>5. PICK q \in Seq(Messages) : q = Append(ToRemoteCh[c], m)
    BY <2>1, Appended
  <2> QED  BY <2>2, <2>3, <2>4, <2>5
<1>7. ~IsCommand(m, id) /\ ~IsAnswer(m, id) => (Unasked(id) => Unasked(id)')
  BY <1>4, <1>5, <1>6 DEF Unasked
<1>8. Finished(id)' => Finished(id) \/ IsFinal(m, id)
  BY <1>5, <1>6 DEF Finished
<1>9. Once(id)'
  BY <1>4, <1>5 DEF Once, RequestInv
<1>10. IsCommand(m, id) => ~IsFinal(m, id) /\ ~IsAnswer(m, id)
  BY DEF IsCommand, IsFinal, IsAnswer
<1>11. Unasked(id) => ~IsAnswer(m, id) /\ ~Finished(id)
  BY <1>4 DEF Unasked, Finished, IsFinal
<1>12. IsCommand(m, id) => /\ req[id].state # "new" /\ (\A d \in Conns : ~CommandInLoop(d, id))
                           /\ \A i \in Queue : ~CommandInQueue(i, id)
  BY <1>4 DEF RequestInv, Once
<1> QED  BY <1>1, <1>2, <1>3, <1>4, <1>5, <1>7, <1>8, <1>9, <1>10, <1>11, <1>12 DEF RequestInv

\* The message has been sent: the last answer makes the router forget the request.
LEMMA RequestRemembered ==
    ASSUME Types, NEW id \in Requests, RequestInv(id), RouterSent
    PROVE  RequestInv(id)'
<1>1. RouterStep /\ UNCHANGED <<InputCh, ToRemoteCh>> /\ router.pc = "sent" /\ router'.pc = "receive"
  BY RouterFacts DEF RouterStep, RouterSent, Receive
<1>2. PICK m \in Messages : m = router.msg
  BY <1>1 DEF Types, RouterTypes
<1>3. RpcMap' = RpcMapAfter(m)
  BY <1>2 DEF RouterSent
<1>4. ~CommandAtRouter(id)' /\ ~AnswerAtRouter(id)' /\ (CommandAtRouter(id) <=> IsCommand(m, id))
  BY <1>1, <1>2 DEF CommandAtRouter, AnswerAtRouter
<1>5. UNCHANGED <<loop, owes, req>> /\ Queue' = Queue /\ (\A c \in Conns : Sent(c)' = Sent(c))
      /\ (\A i \in Queue : (CommandInQueue(i, id)' <=> CommandInQueue(i, id)) /\ (AnswerInQueue(i, id)' <=> AnswerInQueue(i, id)))
      /\ \A c \in Conns : (CommandInLoop(c, id)' <=> CommandInLoop(c, id)) /\ (AnswerInLoop(c, id)' <=> AnswerInLoop(c, id))
  BY <1>1, RouterFrame DEF Queue, Sent, CommandInQueue, AnswerInQueue
<1>6. Unasked(id) => Unasked(id)'
  BY <1>1, <1>4, <1>5 DEF Unasked
<1>7. Finished(id)' <=> Finished(id)
  BY <1>1, <1>5 DEF Finished
<1>8. Once(id)'
  BY <1>4, <1>5 DEF Once, RequestInv
<1>9. Finished(id) => RpcMap'[id] = None
  <2> SUFFICES ASSUME Finished(id) PROVE RpcMap'[id] = None
    OBVIOUS
  <2>1. ~IsCommand(m, id) /\ (RpcMap[id] = None \/ IsFinal(m, id))
    BY <1>2, <1>4 DEF RequestInv
  <2>2. /\ IsFinal(m, id) => RpcMapAfter(m)[id] = None
        /\ ~IsFinal(m, id) /\ ~IsCommand(m, id) => RpcMapAfter(m)[id] = RpcMap[id]
    BY RpcMapFacts DEF Types
  <2> QED  BY <1>3, <2>1, <2>2
<1> QED  BY <1>4, <1>5, <1>6, <1>7, <1>8, <1>9 DEF RequestInv

\* There is no route: the command becomes an error, and an answer is dropped.
LEMMA RequestUnrouted ==
    ASSUME Types, NEW id \in Requests, RequestInv(id), RouterNoRoute
    PROVE  RequestInv(id)'
<1>1. RouterStep /\ UNCHANGED <<InputCh, ToRemoteCh>> /\ router.pc = "noroute"
  BY DEF RouterStep, RouterNoRoute
<1>2. PICK m \in Messages : m = router.msg
  BY <1>1 DEF Types, RouterTypes
<1>3. /\ CommandAtRouter(id) <=> IsCommand(m, id)
      /\ AnswerAtRouter(id) <=> IsAnswer(m, id)
  BY <1>1, <1>2 DEF CommandAtRouter, AnswerAtRouter
<1>4. /\ ~CommandAtRouter(id)' /\ (AnswerAtRouter(id)' => IsCommand(m, id))
      /\ IsCommand(m, id) => RpcMap' = RpcMap
      /\ RpcMap' = RpcMap \/ (~IsCommand(m, id) /\ RpcMap' = RpcMapAfter(m))
  <2>1. CASE m.kind = "command" /\ m.id # NoId
    <3>1. PICK e, d : e = Message("error", m.id, None, None, FALSE) /\ d = m.source
      OBVIOUS
    <3>2. e \in Messages /\ e.kind = "error" /\ e.id = m.id /\ d \in Routes
      BY <2>1, <3>1, MessageFacts DEF Message
    <3>3. RpcMap' = RpcMap /\ router' = Looking(e, d)
      BY <1>2, <2>1, <3>1 DEF RouterNoRoute, LookFor, Looking
    <3>4. router'.pc = "lookup" /\ router'.msg = e
      <4>1. PICK g : g = Looking(e, d)
        OBVIOUS
      <4>2. g.pc = "lookup" /\ g.msg = e
        BY <3>2, <4>1, LookForFacts
      <4> QED  BY <3>3, <4>1, <4>2
    <3> QED  BY <2>1, <3>2, <3>3, <3>4 DEF CommandAtRouter, AnswerAtRouter, IsCommand, IsAnswer
  <2>2. CASE m.kind = "command" /\ m.id = NoId
    <3>1. RpcMap' = RpcMap /\ router'.msg = m /\ id # NoId
      BY <1>2, <2>2, RouterAssumption DEF RouterNoRoute, Types, RouterTypeOK
    <3> QED  BY <2>2, <3>1 DEF CommandAtRouter, AnswerAtRouter, IsCommand, IsAnswer
  <2>3. CASE m.kind # "command"
    <3>1. RpcMap' = RpcMapAfter(m) /\ router'.pc = "receive"
      BY <1>2, <2>3, RouterFacts DEF RouterNoRoute, Receive
    <3> QED  BY <2>3, <3>1 DEF CommandAtRouter, AnswerAtRouter, IsCommand
  <2> QED  BY <2>1, <2>2, <2>3
<1>5. UNCHANGED <<loop, owes, req>> /\ Queue' = Queue /\ (\A c \in Conns : Sent(c)' = Sent(c))
      /\ (\A i \in Queue : (CommandInQueue(i, id)' <=> CommandInQueue(i, id)) /\ (AnswerInQueue(i, id)' <=> AnswerInQueue(i, id)))
      /\ \A c \in Conns : (CommandInLoop(c, id)' <=> CommandInLoop(c, id)) /\ (AnswerInLoop(c, id)' <=> AnswerInLoop(c, id))
  BY <1>1, RouterFrame DEF Queue, Sent, CommandInQueue, AnswerInQueue
<1>6. ~IsCommand(m, id) => (Unasked(id) => Unasked(id)')
  BY <1>1, <1>4, <1>5 DEF Unasked
<1>7. IsCommand(m, id) => /\ req[id].state # "new" /\ (\A c \in Conns : ~CommandInLoop(c, id))
                          /\ \A i \in Queue : ~CommandInQueue(i, id)
  BY <1>3 DEF RequestInv, Once
<1>8. Finished(id)' <=> Finished(id)
  BY <1>1, <1>5 DEF Finished
<1>9. Once(id)'
  BY <1>4, <1>5 DEF Once, RequestInv
<1>10. Finished(id) => RpcMap'[id] = None
  <2> SUFFICES ASSUME Finished(id) PROVE RpcMap'[id] = None
    OBVIOUS
  <2>1. RpcMap[id] = None
    BY <1>1 DEF RequestInv
  <2>2. /\ IsFinal(m, id) => RpcMapAfter(m)[id] = None
        /\ ~IsFinal(m, id) /\ ~IsCommand(m, id) => RpcMapAfter(m)[id] = RpcMap[id]
    BY RpcMapFacts DEF Types
  <2> QED  BY <1>4, <2>1, <2>2
<1> QED  BY <1>4, <1>5, <1>6, <1>7, <1>8, <1>9, <1>10 DEF RequestInv

\* The router tells the source of a command without id, on its own queue.
LEMMA RequestInjected ==
    ASSUME Types, NEW id \in Requests, RequestInv(id), RouterInject
    PROVE  RequestInv(id)'
<1>1. RouterStep /\ UNCHANGED <<RpcMap, ToRemoteCh>> /\ router.pc = "inject" /\ router'.pc = "receive"
  BY RouterFacts DEF RouterStep, RouterInject, Receive
<1>2. PICK x \in Queued : x.msg.kind = "message" /\ InputCh' = Append(InputCh, x)
  <2>1. router.msg \in Messages /\ router.msg.source \in Routes
    BY <1>1, MessageFacts DEF Types, RouterTypes
  <2>2. PICK g \in Messages : g = Message("message", NoId, None, router.msg.source, FALSE)
    BY <2>1, MessageFacts
  <2>3. g.kind = "message" /\ [msg |-> g, from |-> None] \in Queued
    BY <2>2 DEF Queued, Message
  <2> QED  BY <2>2, <2>3 DEF RouterInject
<1>3. PICK n : n = Len(InputCh) + 1
  OBVIOUS
<1>4. /\ InputCh'[n] = x
      /\ \A i \in Queue : i \in Queue' /\ InputCh'[i] = InputCh[i]
      /\ \A i \in Queue' : i \in Queue \/ i = n
  BY <1>2, <1>3, Appended DEF Queue, Types, RouterTypeOK, Queued
<1>5. /\ ~CommandInQueue(n, id)' /\ ~AnswerInQueue(n, id)'
      /\ \A i \in Queue : (CommandInQueue(i, id)' <=> CommandInQueue(i, id)) /\ (AnswerInQueue(i, id)' <=> AnswerInQueue(i, id))
  BY <1>2, <1>4 DEF CommandInQueue, AnswerInQueue, IsCommand, IsAnswer
<1>6. /\ ~CommandAtRouter(id)' /\ ~AnswerAtRouter(id)' /\ UNCHANGED <<loop, owes, req>> /\ (\A c \in Conns : Sent(c)' = Sent(c))
      /\ \A c \in Conns : (CommandInLoop(c, id)' <=> CommandInLoop(c, id)) /\ (AnswerInLoop(c, id)' <=> AnswerInLoop(c, id))
  BY <1>1, RouterFrame DEF Sent, CommandAtRouter, AnswerAtRouter
<1>7. Unasked(id) => Unasked(id)'
  BY <1>1, <1>4, <1>5, <1>6 DEF Unasked
<1>8. Finished(id)' <=> Finished(id)
  BY <1>1, <1>6 DEF Finished
<1>9. Once(id)'
  BY <1>4, <1>5, <1>6 DEF Once, RequestInv
<1>10. (\E i \in Queue' : CommandInQueue(i, id)') => \E i \in Queue : CommandInQueue(i, id)
  BY <1>4, <1>5
<1> QED  BY <1>1, <1>4, <1>5, <1>6, <1>7, <1>8, <1>9, <1>10 DEF RequestInv

LEMMA RequestStep == Types /\ RequestsInv /\ [RouterNext]_routerVars => RequestsInv'
<1> SUFFICES ASSUME Types, RequestsInv, [RouterNext]_routerVars, NEW id \in Requests
             PROVE  RequestInv(id)'
  BY DEF RequestsInv
<1>0. RouterTypeOK /\ RequestInv(id)
  BY DEF Types, RequestsInv
<1>1. CASE RouterStep
  BY <1>0, <1>1, RequestReceived, RequestLookedUp, RequestRouted, RequestRemembered, RequestUnrouted, RequestInjected
     DEF RouterStep
<1>2. CASE UNCHANGED <<InputCh, ToRemoteCh, RpcMap, router, loop, owes, req>>
  <2>1. \A c \in Conns : (CommandInLoop(c, id)' <=> CommandInLoop(c, id)) /\ (AnswerInLoop(c, id)' => AnswerInLoop(c, id))
    BY <1>2 DEF CommandInLoop, AnswerInLoop
  <2> QED  BY <1>0, <1>2, <2>1, RequestFrame
<1>3. ASSUME NEW c \in Conns, ConnStep(c) \/ RemoteCloses(c) PROVE RequestInv(id)'
  <2>1. UNCHANGED connUnchanged
    BY <1>3 DEF ConnStep, RemoteCloses, RegisterConn, RegisterConnRoute, unregisterConn, CloseToRemote, StoreRouteId,
                RegisterSocket, CloseSocket, UnregisterSocket
  <2> QED  BY <1>2, <2>1 DEF connUnchanged, serverVars, clientVars
<1>4. CASE UNCHANGED routerVars
  BY <1>2, <1>4 DEF routerVars, serverVars, clientVars
<1>5. ASSUME NEW c \in Conns, ClientStep(c) PROVE RequestInv(id)'
  <2>0. req \in [Requests -> [state : {"new", "sent", "canceled", "answered"}, by : Conns \cup {None}, source : Routes \cup {None}]]
        /\ id # NoId /\ Behind[c] \subseteq Routes
    BY <1>0, RouterAssumption, RouteFacts DEF RouterTypeOK
  <2>1. CASE Forward(c) \/ ReadMessage(c)
    BY <1>0, <2>1, RequestForwarded, RequestRead
  <2>2. ASSUME NEW i \in Requests, NEW n \in 0 .. 1, Answer(c, i, n) PROVE RequestInv(id)'
    <3>1. CASE i = id
      BY <1>0, <2>2, <3>1, RequestAnswered
    <3>2. CASE i # id
      <4>1. PICK cont \in BOOLEAN : /\ Say(c, Response(i, cont)) /\ req' = req
                                   /\ owes' = (owes \ {<<c, i, n>>}) \cup (IF cont THEN {<<c, i, 1>>} ELSE {})
        BY <2>2 DEF Answer
      <4>2. PICK m \in Messages : m = Response(i, cont)
        BY MessageFacts
      <4>3. ~IsCommand(m, id) /\ ~IsAnswer(m, id)
        BY <3>2, <4>2 DEF IsCommand, IsAnswer, Response, Message
      <4>4. \A d \in Conns, k \in 0 .. 1 : <<d, id, k>> \in owes' => <<d, id, k>> \in owes
        BY <3>2, <4>1
      <4> QED  BY <1>0, <4>1, <4>2, <4>3, <4>4, SayOther
    <3> QED  BY <3>1, <3>2
  <2>3. CASE SendOneWay(c)
    <3>1. PICK d \in Routes : SayUnasked(c, Message("command", NoId, RouteOf[c], d, FALSE))
      BY <2>3 DEF SendOneWay
    <3>2. PICK m \in Messages : m = Message("command", NoId, RouteOf[c], d, FALSE)
      BY RouteFacts, MessageFacts
    <3>3. Say(c, m) /\ owes' = owes /\ req' = req /\ ~IsCommand(m, id) /\ ~IsAnswer(m, id)
      BY <2>0, <2>3, <3>1, <3>2 DEF SendOneWay, SayUnasked, IsCommand, IsAnswer, Message
    <3> QED  BY <1>0, <3>3, SayOther
  <2>4. ASSUME NEW i \in Requests, SendRequest(c, i) PROVE RequestInv(id)'
    <3>1. CASE i = id
      BY <1>0, <2>4, <3>1, RequestSent
    <3>2. CASE i # id
      <4>1. PICK source \in Sources(c), d \in Routes :
              /\ SayUnasked(c, Message("command", i, source, d, FALSE))
              /\ req' = [req EXCEPT ![i] = [state |-> "sent", by |-> c, source |-> source]]
        BY <2>4 DEF SendRequest
      <4>2. PICK m \in Messages : m = Message("command", i, source, d, FALSE)
        BY <2>0, <4>1, RouteFacts, MessageFacts DEF Sources
      <4>3. Say(c, m) /\ owes' = owes /\ req'[id] = req[id] /\ ~IsCommand(m, id) /\ ~IsAnswer(m, id)
        BY <2>0, <2>4, <3>2, <4>1, <4>2 DEF SendRequest, SayUnasked, IsCommand, IsAnswer, Message
      <4> QED  BY <1>0, <4>3, SayOther
    <3> QED  BY <3>1, <3>2
  <2>5. ASSUME NEW i \in Requests, SendCancel(c, i) PROVE RequestInv(id)'
    <3>1. PICK m \in Messages : m = Message("cancel", i, None, None, FALSE)
      BY MessageFacts
    <3>2. Say(c, m) /\ owes' = owes /\ req' = [req EXCEPT ![i].state = "canceled"] /\ ~IsCommand(m, id) /\ ~IsAnswer(m, id)
      BY <2>5, <3>1 DEF SendCancel, SayUnasked, IsCommand, IsAnswer, Message
    <3>3. req'[id].state = req[id].state \/ req'[id].state = "canceled"
      BY <2>0, <3>2
    <3> QED  BY <1>0, <3>2, <3>3, SayOther
  <2>6. ASSUME NEW a \in Behind[c], Announce(c, a) PROVE RequestInv(id)'
    <3>1. PICK m \in Messages : SayUnasked(c, m) /\ m.kind \in {"announce", "unannounce"}
      <4>1. /\ Message("announce", NoId, a, None, FALSE) \in Messages
            /\ Message("unannounce", NoId, a, None, FALSE) \in Messages
            /\ Message("announce", NoId, a, None, FALSE).kind = "announce"
            /\ Message("unannounce", NoId, a, None, FALSE).kind = "unannounce"
        BY <2>0, MessageFacts DEF Message
      <4>2. \/ SayUnasked(c, Message("announce", NoId, a, None, FALSE))
            \/ SayUnasked(c, Message("unannounce", NoId, a, None, FALSE))
        BY <2>6 DEF Announce
      <4> QED  BY <4>1, <4>2
    <3>2. Say(c, m) /\ owes' = owes /\ req' = req /\ ~IsCommand(m, id) /\ ~IsAnswer(m, id)
      BY <2>6, <3>1 DEF Announce, SayUnasked, IsCommand, IsAnswer
    <3> QED  BY <1>0, <3>2, SayOther
  <2> QED  BY <1>5, <2>1, <2>2, <2>3, <2>4, <2>5, <2>6 DEF ClientStep, Answers
<1> QED  BY <1>1, <1>3, <1>4, <1>5, NextCases

LEMMA InvariantHolds == RouterSpec => []RouterInv
<1>1. RouterInit => RouterInv
  BY TypeInit, InitRoutes, InitRequests DEF RouterInv
<1>2. RouterInv /\ [RouterNext]_routerVars => RouterInv'
  BY TypeStep, RouteStep, RequestStep DEF RouterInv
<1> QED  BY <1>1, <1>2, PTL DEF RouterSpec

\* The router's tables keep nothing that is over: its routes lead to websockets that have not closed, as those of the
\* connections do, and a request whose last answer has arrived is forgotten, whatever the order in which
\* connections come and go and clients read.
THEOREM TablesCurrent == RouterSpec => []TablesAreCurrent
<1>1. ASSUME RouterInv PROVE TablesAreCurrent
  <2>1. ASSUME NEW r \in WsRoutes
        PROVE  /\ RouteMap[r] # None => toRemoteOpen[RouteMap[r]] /\ reader[RouteMap[r]] \in {"reading", "ended"}
               /\ GlobalLock = None => RouteMap[r] = RouteToConnMap[r]
    <3>1. WsRouteInv(r) /\ \A c \in WsConns : WsOrder(c)
      BY <1>1 DEF RouterInv, RouteInv
    <3>2. RouteMap[r] # None => toRemoteOpen[RouteMap[r]] /\ reader[RouteMap[r]] \in {"reading", "ended"}
      BY <3>1 DEF WsRouteInv, Live, WsOrder
    <3>3. GlobalLock = None => ~Free(r)
      BY RouteFacts DEF Free
    <3> QED  BY <3>1, <3>2, <3>3 DEF WsRouteInv
  <2>2. RoutesAreCurrent
    <3>1. DOMAIN RouteToConnMap = WsRoutes
      BY <1>1 DEF RouterInv, Types, RouterTypeOK, WsRoutes
    <3> QED  BY <2>1, <3>1, Zenon DEF RoutesAreCurrent
  <2>3. AnsweredIsForgotten
    BY <1>1 DEF RouterInv, RequestsInv, RequestInv, Finished, IsFinal, IsAnswer, AnsweredIsForgotten
  <2> QED  BY <2>2, <2>3 DEF TablesAreCurrent
<1> QED  BY <1>1, InvariantHolds, PTL

=============================================================================
