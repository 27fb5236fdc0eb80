-------------------------- MODULE ModifiersProofs --------------------------
(***************************************************************************)
(* The modifier string refines a board of independent settings, for all    *)
(* words that people type and every str.lower.                             *)
(*                                                                         *)
(* What the reading of a string returns is computed by recursion over the  *)
(* positions of its words.  The library's induction theorems take an       *)
(* operator and cannot be used; the proofs by induction below pick the     *)
(* least element of the set of counterexamples instead.                    *)
(***************************************************************************)
EXTENDS Modifiers, Integers, SequenceTheorems, WellFoundedInduction, TLAPS

-----------------------------------------------------------------------------
(* Induction over the naturals, for sets.                                  *)

(* A set of naturals with a member has a least one.                        *)
LEMMA LeastNat ==
    ASSUME NEW T, T \subseteq Nat, T # {}
    PROVE  \E x \in T : \A y \in T : x <= y
<1> DEFINE R == OpToRel(<, Nat)
<1>1. IsWellFoundedOn(R, Nat)
  BY NatLessThanWellFounded
<1>2. \A x, y \in Nat : x < y => <<x, y>> \in R
  BY DEF OpToRel
<1> HIDE DEF R
<1>3. PICK x \in T : \A y \in T : ~ (<<y, x>> \in R)
  BY <1>1, WFMin
<1>4. ASSUME NEW y \in T PROVE x <= y
  <2>1. x \in Nat /\ y \in Nat
    BY <1>3
  <2>2. ~(y < x)
    BY <1>2, <1>3, <2>1
  <2> QED BY <2>1, <2>2
<1> QED BY <1>4

(* What holds of 0 and with n of n + 1 holds of every natural.             *)
LEMMA SetInduction ==
    ASSUME NEW S, 0 \in S, \A n \in Nat : n \in S => n + 1 \in S
    PROVE  Nat \subseteq S
<1> SUFFICES ASSUME Nat \ S # {} PROVE FALSE
  OBVIOUS
<1>1. PICK x \in Nat \ S : \A y \in Nat \ S : x <= y
  BY LeastNat
<1>2. x # 0 /\ x - 1 \in Nat
  BY <1>1
<1>3. x - 1 \in S
  BY <1>1, <1>2
<1> QED BY <1>1, <1>2, <1>3

-----------------------------------------------------------------------------
(* The reading of a string.                                                *)

LEMMA FlagsAreTokens == {"-modifier", "-preset", "-setkey"} \subseteq Tokens
BY DEF Tokens, Lowered, Flags

(* A concatenation starts with its first part.                             *)
LEMMA ConcatFront ==
    ASSUME NEW S, NEW p \in Seq(S), NEW s \in Seq(S)
    PROVE  /\ p \o s \in Seq(S) /\ Len(p \o s) = Len(p) + Len(s) /\ Len(s) \in Nat
           /\ \A i \in 1 .. Len(p) : (p \o s)[i] = p[i]
BY ConcatProperties, LenProperties

Reads(s, f) == f = [i \in 1 .. Len(s) + 1 |-> ReadFrom(s, i, f)]

(* What is read from a position on depends on what follows it only.        *)
LEMMA ReadFromLater ==
    ASSUME NEW s \in Seq(Tokens), NEW i \in 1 .. Len(s) + 1, NEW f, NEW g,
           \A j \in 1 .. Len(s) + 1 : i < j => f[j] = g[j]
    PROVE  ReadFrom(s, i, f) = ReadFrom(s, i, g)
<1>1. CASE i > Len(s)
  BY <1>1 DEF ReadFrom, Enough
<1>2. CASE ~ (i > Len(s))
  <2>1. f[i + 1] = g[i + 1]
    BY <1>2
  <2>2. Enough(s, i, 2) => f[i + 3] = g[i + 3]
    BY <1>2 DEF Enough
  <2>3. Enough(s, i, 1) => f[i + 2] = g[i + 2]
    BY <1>2 DEF Enough
  <2> QED BY <1>2, <2>1, <2>2, <2>3 DEF ReadFrom
<1> QED BY <1>1, <1>2
(* Every string is read: the reading is built from its end.                *)
LEMMA ReadingExists ==
    ASSUME NEW s \in Seq(Tokens)
    PROVE  \E f : Reads(s, f)
<1> DEFINE N == Len(s) + 1
           Read(d, f) == \A i \in 1 .. N : N - i < d => f[i] = ReadFrom(s, i, f)
           S == {d \in Nat : d <= N => \E f : f = [i \in 1 .. N |-> f[i]] /\ Read(d, f)}
<1>1. N \in Nat \ {0}
  OBVIOUS
<1>2. 0 \in S
  <2> DEFINE f == [i \in 1 .. N |-> Unmodified]
  <2>1. f = [i \in 1 .. N |-> f[i]]
    OBVIOUS
  <2>2. Read(0, f)
    BY <1>1
  <2> HIDE DEF f, N
  <2> QED BY <2>1, <2>2
<1>3. ASSUME NEW d \in Nat, d \in S PROVE d + 1 \in S
  <2> SUFFICES ASSUME d + 1 <= N
               PROVE  \E f : f = [i \in 1 .. N |-> f[i]] /\ Read(d + 1, f)
    OBVIOUS
  <2>1. PICK f : f = [i \in 1 .. N |-> f[i]] /\ Read(d, f)
    BY <1>1, <1>3
  <2> DEFINE j == N - d
             g == [f EXCEPT ![j] = ReadFrom(s, j, f)]
  <2>2. j \in 1 .. N
    BY <1>1
  <2>3. g = [i \in 1 .. N |-> g[i]]
    BY <2>1, <2>2
  <2>4. \A i \in 1 .. N : i # j => g[i] = f[i]
    BY <2>1, <2>2
  <2>5. g[j] = ReadFrom(s, j, f)
    BY <2>1, <2>2
  <2> HIDE DEF g
  <2>6. ASSUME NEW i \in 1 .. N, N - i < d + 1 PROVE g[i] = ReadFrom(s, i, g)
    <3>1. i >= j
      BY <1>1, <2>6
    <3>2. \A k \in 1 .. N : i < k => f[k] = g[k]
      BY <1>1, <2>2, <2>4, <3>1
    <3>3. ReadFrom(s, i, f) = ReadFrom(s, i, g)
      BY <3>2, ReadFromLater
    <3>4. i # j => N - i < d
      BY <1>1, <3>1
    <3> QED BY <2>1, <2>4, <2>5, <3>3, <3>4
  <2> QED BY <2>3, <2>6
<1>4. N \in S
  <2> HIDE DEF S
  <2> QED BY <1>1, <1>2, <1>3, SetInduction
<1>5. PICK f : f = [i \in 1 .. N |-> f[i]] /\ Read(N, f)
  BY <1>1, <1>4
<1>6. \A i \in 1 .. N : f[i] = ReadFrom(s, i, f)
  BY <1>1, <1>5
<1>7. f = [i \in 1 .. N |-> ReadFrom(s, i, f)]
  BY <1>5, <1>6
<1> QED BY <1>7 DEF Reads

(* The reading of the end of a string is the end of its reading.           *)
LEMMA ReadingOfTheEnd ==
    ASSUME NEW p \in Seq(Tokens), NEW s \in Seq(Tokens), NEW f, NEW g,
           Reads(s, f), Reads(p \o s, g)
    PROVE  \A i \in 1 .. Len(s) + 1 : g[Len(p) + i] = f[i]
<1> DEFINE u == p \o s
           N == Len(s) + 1
           T == {d \in Nat : d < N /\ g[Len(p) + N - d] # f[N - d]}
<1>1. /\ u \in Seq(Tokens) /\ Len(u) = Len(p) + Len(s)
      /\ \A i \in 1 .. Len(s) : u[Len(p) + i] = s[i]
  OBVIOUS
<1>2. N \in Nat /\ Len(p) \in Nat
  OBVIOUS
<1> SUFFICES ASSUME T # {} PROVE FALSE
  <2> TAKE i \in 1 .. N
  <2>1. N - i \in Nat /\ N - i < N /\ N - (N - i) = i /\ Len(p) + N - (N - i) = Len(p) + i
    BY <1>2
  <2> QED BY <2>1
<1>3. PICK d \in T : \A e \in T : d <= e
  BY LeastNat
<1> DEFINE j == N - d
<1>4. /\ j \in 1 .. N
      /\ Len(p) + j \in 1 .. Len(u) + 1
      /\ g[Len(p) + j] # f[j]
  <2>1. Len(p) + N - d = Len(p) + j
    BY <1>2, <1>3
  <2> QED BY <1>1, <1>2, <1>3, <2>1
<1>5. ASSUME NEW i \in 1 .. N, j < i PROVE g[Len(p) + i] = f[i]
  <2>1. N - i \in Nat /\ N - i < N /\ N - i < d
    BY <1>2, <1>3, <1>5
  <2>2. N - i \notin T
    BY <1>3, <2>1
  <2>3. N - (N - i) = i /\ Len(p) + N - (N - i) = Len(p) + i
    BY <1>2
  <2> QED BY <2>1, <2>2, <2>3
<1>6. ReadFrom(u, Len(p) + j, g) = ReadFrom(s, j, f)
  <2> DEFINE k == Len(p) + j
  <2>0. j \in Nat /\ k \in Nat
    BY <1>2, <1>4
  <2>1. \A n \in {1, 2} : Enough(u, k, n) <=> Enough(s, j, n)
    BY <1>1, <1>2, <1>4 DEF Enough
  <2>2. CASE j > Len(s)
    <3>1. k > Len(u) /\ ~ Enough(s, j, 1) /\ ~ Enough(s, j, 2)
      BY <1>1, <1>2, <1>4, <2>2 DEF Enough
    <3> HIDE DEF u, j
    <3> QED BY <2>1, <2>2, <3>1 DEF ReadFrom
  <2>3. CASE ~ (j > Len(s))
    <3> HIDE DEF u, j, T
    <3>1. ~ (k > Len(u)) /\ u[k] = s[j] /\ g[k + 1] = f[j + 1]
      <4>1. j \in 1 .. Len(s) /\ j + 1 \in 1 .. N
        BY <1>2, <1>4, <2>3
      <4>2. u[k] = s[j] /\ g[Len(p) + (j + 1)] = f[j + 1]
        BY <1>1, <1>4, <1>5, <4>1
      <4> QED BY <1>1, <1>2, <2>0, <4>1, <4>2
    <3>2. ASSUME Enough(s, j, 2)
          PROVE  u[k + 2] = s[j + 2] /\ g[k + 3] = f[j + 3]
      <4>1. j + 2 \in 1 .. Len(s) /\ j + 3 \in 1 .. N
        BY <1>2, <2>0, <3>2 DEF Enough
      <4>2. u[Len(p) + (j + 2)] = s[j + 2] /\ g[Len(p) + (j + 3)] = f[j + 3]
        BY <1>1, <1>4, <1>5, <4>1
      <4> QED BY <1>2, <2>0, <4>2
    <3>3. ASSUME Enough(s, j, 1)
          PROVE  u[k + 1] = s[j + 1] /\ g[k + 2] = f[j + 2]
      <4>1. j + 1 \in 1 .. Len(s) /\ j + 2 \in 1 .. N
        BY <1>2, <2>0, <3>3 DEF Enough
      <4>2. u[Len(p) + (j + 1)] = s[j + 1] /\ g[Len(p) + (j + 2)] = f[j + 2]
        BY <1>1, <1>4, <1>5, <4>1
      <4> QED BY <1>2, <2>0, <4>2
    <3>4. Enough(s, j, 2) => Enough(s, j, 1)
      BY <1>2, <1>4 DEF Enough
    <3> QED BY <2>1, <2>3, <3>1, <3>2, <3>3, <3>4 DEF ReadFrom
  <2> QED BY <2>2, <2>3
<1>7. g[Len(p) + j] = ReadFrom(u, Len(p) + j, g) /\ f[j] = ReadFrom(s, j, f)
  BY <1>4 DEF Reads
<1> QED BY <1>4, <1>6, <1>7

(* A string has one reading, and ParseArgs returns its first value.        *)
LEMMA ParseArgsReads ==
    ASSUME NEW s \in Seq(Tokens)
    PROVE  \E f : Reads(s, f) /\ ParseArgs(s) = f[1]
<1> DEFINE f == CHOOSE f : f = [i \in 1 .. Len(s) + 1 |-> ReadFrom(s, i, f)]
<1>1. \E h : h = [i \in 1 .. Len(s) + 1 |-> ReadFrom(s, i, h)]
  BY ReadingExists DEF Reads
<1>2. f = [i \in 1 .. Len(s) + 1 |-> ReadFrom(s, i, f)]
  <2> HIDE DEF f
  <2> QED BY <1>1, Zenon DEF f
<1>3. ParseArgs(s) = f[1]
  BY Zenon DEF ParseArgs
<1> QED BY <1>2, <1>3, Zenon DEF Reads

(* The value at a position is what is read from the words that follow.     *)
LEMMA ParseArgsOfTheEnd ==
    ASSUME NEW p \in Seq(Tokens), NEW s \in Seq(Tokens), NEW g, Reads(p \o s, g)
    PROVE  g[Len(p) + 1] = ParseArgs(s)
<1>1. PICK f : Reads(s, f) /\ ParseArgs(s) = f[1]
  BY ParseArgsReads
<1>2. 1 \in 1 .. Len(s) + 1
  OBVIOUS
<1> QED BY <1>1, <1>2, ReadingOfTheEnd

(* Nothing is read from the empty string.                                  *)
LEMMA ReadNothing == ParseArgs(<<>>) = Unmodified
<1>1. <<>> \in Seq(Tokens) /\ Len(<<>>) = 0
  OBVIOUS
<1>2. PICK f : Reads(<<>>, f) /\ ParseArgs(<<>>) = f[1]
  BY <1>1, ParseArgsReads
<1>3. f[1] = ReadFrom(<<>>, 1, f)
  BY <1>1, <1>2 DEF Reads
<1>4. ~ Enough(<<>>, 1, 1) /\ ~ Enough(<<>>, 1, 2) /\ 1 > Len(<<>>)
  BY <1>1 DEF Enough
<1>5. ReadFrom(<<>>, 1, f) = Unmodified
  BY <1>4 DEF ReadFrom
<1> QED BY <1>2, <1>3, <1>5

(* A flag at the front is read before the rest, with the words it takes.   *)
LEMMA ReadDial ==
    ASSUME NEW k \in Tokens, NEW v \in Tokens, NEW s \in Seq(Tokens)
    PROVE  ParseArgs(<<"-modifier", k, v>> \o s) = DialBefore(Lower(k), Lower(v), ParseArgs(s))
<1> DEFINE p == <<"-modifier", k, v>>
           u == p \o s
<1>1. p \in Seq(Tokens) /\ Len(p) = 3 /\ p[1] = "-modifier" /\ p[2] = k /\ p[3] = v
  <2>1. p \in Seq(Tokens)
    BY FlagsAreTokens
  <2> QED BY <2>1
<1>2. /\ u \in Seq(Tokens) /\ Len(u) = 3 + Len(s) /\ Len(s) \in Nat
      /\ u[1] = "-modifier" /\ u[2] = k /\ u[3] = v
  <2> HIDE DEF p
  <2>1. /\ u \in Seq(Tokens) /\ Len(u) = Len(p) + Len(s) /\ Len(s) \in Nat
        /\ \A i \in 1 .. Len(p) : u[i] = p[i]
    BY <1>1, ConcatFront
  <2>2. \A i \in 1 .. Len(p) : u[i] = p[i]
    BY <2>1
  <2> QED BY <1>1, <2>1, <2>2
<1> HIDE DEF p, u
<1>3. PICK g : Reads(u, g) /\ ParseArgs(u) = g[1]
  BY <1>2, ParseArgsReads
<1>4. g[3 + 1] = ParseArgs(s)
  BY <1>1, <1>3, ParseArgsOfTheEnd DEF u
<1>5. g[1] = ReadFrom(u, 1, g)
  <2>1. 1 \in 1 .. Len(u) + 1
    BY <1>2
  <2> QED BY <1>3, <2>1 DEF Reads
<1>6. Enough(u, 1, 2) /\ ~ (1 > Len(u))
  BY <1>2 DEF Enough
<1>7. ReadFrom(u, 1, g) = DialBefore(Lower(k), Lower(v), g[4])
  BY <1>2, <1>6 DEF ReadFrom
<1> QED BY <1>3, <1>4, <1>5, <1>7 DEF u, p

(* A preset in front of a string counts unless the string has one.         *)
LEMMA ReadPreset ==
    ASSUME NEW v \in Tokens, NEW s \in Seq(Tokens)
    PROVE  ParseArgs(<<"-preset", v>> \o s) = PresetBefore(Lower(v), ParseArgs(s))
<1> DEFINE p == <<"-preset", v>>
           u == p \o s
<1>1. p \in Seq(Tokens) /\ Len(p) = 2 /\ p[1] = "-preset" /\ p[2] = v
  <2>1. p \in Seq(Tokens)
    BY FlagsAreTokens
  <2> QED BY <2>1
<1>2. /\ u \in Seq(Tokens) /\ Len(u) = 2 + Len(s) /\ Len(s) \in Nat
      /\ u[1] = "-preset" /\ u[2] = v
  <2> HIDE DEF p
  <2>1. /\ u \in Seq(Tokens) /\ Len(u) = Len(p) + Len(s) /\ Len(s) \in Nat
        /\ \A i \in 1 .. Len(p) : u[i] = p[i]
    BY <1>1, ConcatFront
  <2>2. \A i \in 1 .. Len(p) : u[i] = p[i]
    BY <2>1
  <2> QED BY <1>1, <2>1, <2>2
<1> HIDE DEF p, u
<1>3. PICK g : Reads(u, g) /\ ParseArgs(u) = g[1]
  BY <1>2, ParseArgsReads
<1>4. g[2 + 1] = ParseArgs(s)
  BY <1>1, <1>3, ParseArgsOfTheEnd DEF u
<1>5. g[1] = ReadFrom(u, 1, g)
  <2>1. 1 \in 1 .. Len(u) + 1
    BY <1>2
  <2> QED BY <1>3, <2>1 DEF Reads
<1>6. Enough(u, 1, 1) /\ ~ (1 > Len(u))
  BY <1>2 DEF Enough
<1>7. ReadFrom(u, 1, g) = PresetBefore(Lower(v), g[3])
  BY <1>2, <1>6 DEF ReadFrom
<1> QED BY <1>3, <1>4, <1>5, <1>7 DEF u, p

(* A toggle in front of a string is added to its toggles.                  *)
LEMMA ReadKey ==
    ASSUME NEW k \in Tokens, NEW s \in Seq(Tokens)
    PROVE  ParseArgs(<<"-setkey", k>> \o s) = KeyBefore(Lower(k), ParseArgs(s))
<1> DEFINE p == <<"-setkey", k>>
           u == p \o s
<1>1. p \in Seq(Tokens) /\ Len(p) = 2 /\ p[1] = "-setkey" /\ p[2] = k
  <2>1. p \in Seq(Tokens)
    BY FlagsAreTokens
  <2> QED BY <2>1
<1>2. /\ u \in Seq(Tokens) /\ Len(u) = 2 + Len(s) /\ Len(s) \in Nat
      /\ u[1] = "-setkey" /\ u[2] = k
  <2> HIDE DEF p
  <2>1. /\ u \in Seq(Tokens) /\ Len(u) = Len(p) + Len(s) /\ Len(s) \in Nat
        /\ \A i \in 1 .. Len(p) : u[i] = p[i]
    BY <1>1, ConcatFront
  <2>2. \A i \in 1 .. Len(p) : u[i] = p[i]
    BY <2>1
  <2> QED BY <1>1, <2>1, <2>2
<1> HIDE DEF p, u
<1>3. PICK g : Reads(u, g) /\ ParseArgs(u) = g[1]
  BY <1>2, ParseArgsReads
<1>4. g[2 + 1] = ParseArgs(s)
  BY <1>1, <1>3, ParseArgsOfTheEnd DEF u
<1>5. g[1] = ReadFrom(u, 1, g)
  <2>1. 1 \in 1 .. Len(u) + 1
    BY <1>2
  <2> QED BY <1>3, <2>1 DEF Reads
<1>6. Enough(u, 1, 1) /\ ~ (1 > Len(u))
  BY <1>2 DEF Enough
<1>7. ReadFrom(u, 1, g) = KeyBefore(Lower(k), g[3])
  BY <1>2, <1>6 DEF ReadFrom
<1> QED BY <1>3, <1>4, <1>5, <1>7 DEF u, p

-----------------------------------------------------------------------------
(* What is read is a setting of the menu's dials, a preset and keys.       *)

(* Parsed, taken apart.                                                    *)
Parts(m) ==
    /\ m = [modifiers |-> m.modifiers, preset |-> m.preset, keys |-> m.keys]
    /\ DOMAIN m.modifiers \subseteq DOMAIN MODIFIERS
    /\ m.modifiers \in [DOMAIN m.modifiers -> Lowered]
    /\ m.preset \in Lowered \cup {""}
    /\ m.keys \subseteq Lowered

(* Parsed, field by field.                                                 *)
LEMMA ParsedParts ==
    ASSUME NEW m
    PROVE  m \in Parsed <=> Parts(m)
<1> HIDE DEF MODIFIERS, Lowered
<1> QED BY DEF Parsed, Parts

LEMMA UnmodifiedParsed == Unmodified \in Parsed
<1>1. DOMAIN <<>> = {} /\ <<>> \in [DOMAIN <<>> -> Lowered]
  OBVIOUS
<1>2. Parts(Unmodified)
  BY <1>1 DEF Unmodified, Parts
<1> QED BY <1>2, ParsedParts

(* What keeps a value among the parsed ones.                               *)
LEMMA PutDial ==
    ASSUME NEW D, NEW d \in [D -> Lowered], NEW k, NEW v \in Lowered
    PROVE  Put(d, k, v) \in [D \cup {k} -> Lowered]
<1> HIDE DEF Lowered
<1> QED BY DEF Put

LEMMA DialParsed ==
    ASSUME NEW k, NEW v \in Lowered, NEW m \in Parsed
    PROVE  DialBefore(k, v, m) \in Parsed
<1>1. CASE k \notin DOMAIN MODIFIERS \ DOMAIN m.modifiers
  BY <1>1 DEF DialBefore
<1>2. CASE k \in DOMAIN MODIFIERS \ DOMAIN m.modifiers
  <2> DEFINE d == Put(m.modifiers, k, v)
             r == [m EXCEPT !.modifiers = d]
  <2>1. DialBefore(k, v, m) = r
    BY <1>2 DEF DialBefore
  <2>2. Parts(m)
    BY ParsedParts
  <2>3. DOMAIN d = DOMAIN m.modifiers \cup {k} /\ d \in [DOMAIN m.modifiers \cup {k} -> Lowered]
    BY <2>2, PutDial DEF Parts, Put
  <2> HIDE DEF d
  <2>4. m = [modifiers |-> m.modifiers, preset |-> m.preset, keys |-> m.keys]
    BY <2>2 DEF Parts
  <2>5. r = [modifiers |-> d, preset |-> m.preset, keys |-> m.keys]
    BY <2>4
  <2> HIDE DEF r
  <2>6. Parts(r)
    BY <1>2, <2>2, <2>3, <2>5 DEF Parts
  <2> QED BY <2>1, <2>6, ParsedParts
<1> QED BY <1>1, <1>2

LEMMA PresetParsed ==
    ASSUME NEW v \in Lowered, NEW m \in Parsed
    PROVE  PresetBefore(v, m) \in Parsed
<1>1. Parts(m)
  BY ParsedParts
<1>2. Parts(PresetBefore(v, m))
  BY <1>1 DEF PresetBefore, Parts
<1> QED BY <1>2, ParsedParts

LEMMA KeyParsed ==
    ASSUME NEW k \in Lowered, NEW m \in Parsed
    PROVE  KeyBefore(k, m) \in Parsed
<1>1. Parts(m)
  BY ParsedParts
<1>2. m = [modifiers |-> m.modifiers, preset |-> m.preset, keys |-> m.keys]
  BY <1>1 DEF Parts
<1> DEFINE K == m.keys \cup {k}
           r == KeyBefore(k, m)
<1>3. r = [modifiers |-> m.modifiers, preset |-> m.preset, keys |-> K]
  BY <1>2 DEF KeyBefore
<1>4. K \subseteq Lowered
  BY <1>1 DEF Parts
<1> HIDE DEF r, K
<1>5. Parts(r)
  BY <1>1, <1>3, <1>4 DEF Parts
<1> QED BY <1>5, ParsedParts DEF r

(* Whatever was typed, what is read of it is of that type.                 *)
LEMMA ReadIsParsed ==
    ASSUME NEW s \in Seq(Words \cup Flags)
    PROVE  ParseArgs(s) \in Parsed
<1>1. s \in Seq(Tokens) /\ Len(s) \in Nat
  BY DEF Tokens, Lowered
<1>2. PICK f : Reads(s, f) /\ ParseArgs(s) = f[1]
  BY <1>1, ParseArgsReads
<1> DEFINE N == Len(s) + 1
           T == {d \in Nat : d < N /\ f[N - d] \notin Parsed}
<1>3. T = {}
  <2> SUFFICES ASSUME T # {} PROVE FALSE
    OBVIOUS
  <2>1. PICK d \in T : \A e \in T : d <= e
    BY LeastNat
  <2> DEFINE j == N - d
  <2>2. j \in 1 .. N /\ j \in Nat /\ f[j] \notin Parsed
    BY <1>1, <2>1
  <2>3. ASSUME NEW i \in 1 .. N, j < i PROVE f[i] \in Parsed
    <3>1. N - i \in Nat /\ N - i < N /\ N - i < d /\ N - (N - i) = i
      BY <1>1, <2>1, <2>3
    <3> QED BY <2>1, <3>1
  <2> HIDE DEF T, j
  <2>4. \A i \in 1 .. Len(s) : Lower(s[i]) \in Lowered
    BY WordsAssumption DEF Lowered
  <2>5. CASE j > Len(s)
    <3>1. ~ Enough(s, j, 1) /\ ~ Enough(s, j, 2)
      BY <1>1, <2>2, <2>5 DEF Enough
    <3>2. ReadFrom(s, j, f) = Unmodified
      BY <2>5, <3>1 DEF ReadFrom
    <3> QED BY <1>2, <2>2, <3>2, UnmodifiedParsed DEF Reads
  <2>6. CASE ~ (j > Len(s))
    <3>1. f[j + 1] \in Parsed
      BY <1>1, <2>2, <2>3, <2>6
    <3>2. ASSUME Enough(s, j, 2)
          PROVE  Lower(s[j + 2]) \in Lowered /\ f[j + 3] \in Parsed
      BY <1>1, <2>2, <2>3, <2>4, <3>2 DEF Enough
    <3>3. ASSUME Enough(s, j, 1)
          PROVE  Lower(s[j + 1]) \in Lowered /\ f[j + 2] \in Parsed
      BY <1>1, <2>2, <2>3, <2>4, <3>3 DEF Enough
    <3>4. ReadFrom(s, j, f) \in Parsed
      BY <2>6, <3>1, <3>2, <3>3, DialParsed, PresetParsed, KeyParsed DEF ReadFrom
    <3> QED BY <1>2, <2>2, <3>4 DEF Reads
  <2> QED BY <2>5, <2>6
<1>4. N - 1 \in Nat /\ N - 1 < N /\ N - (N - 1) = 1
  BY <1>1
<1> QED BY <1>2, <1>3, <1>4
-----------------------------------------------------------------------------
(* What FlattenSeq returns.                                                *)

Flattens(seqs, f) ==
    f = [i \in 1 .. Len(seqs) |-> IF i = 1 THEN seqs[i] ELSE f[i - 1] \o seqs[i]]

(* FlattenSeq is a recursive function: it exists, and is what it says.     *)
LEMMA FlatteningExists ==
    ASSUME NEW seqs, Len(seqs) \in Nat
    PROVE  \E f : Flattens(seqs, f)
<1> DEFINE N == Len(seqs)
           Piece(i, f) == IF i = 1 THEN seqs[i] ELSE f[i - 1] \o seqs[i]
           Flat(d, f) == \A i \in 1 .. N : i <= d => f[i] = Piece(i, f)
           S == {d \in Nat : d <= N => \E f : f = [i \in 1 .. N |-> f[i]] /\ Flat(d, f)}
<1>1. N \in Nat
  OBVIOUS
<1> HIDE DEF N
<1>2. 0 \in S
  <2> DEFINE f == [i \in 1 .. N |-> <<>>]
  <2>1. f = [i \in 1 .. N |-> f[i]]
    OBVIOUS
  <2>2. Flat(0, f)
    BY <1>1
  <2> HIDE DEF f
  <2> QED BY <2>1, <2>2
<1>3. ASSUME NEW d \in Nat, d \in S PROVE d + 1 \in S
  <2> SUFFICES ASSUME d + 1 <= N
               PROVE  \E f : f = [i \in 1 .. N |-> f[i]] /\ Flat(d + 1, f)
    OBVIOUS
  <2>1. PICK f : f = [i \in 1 .. N |-> f[i]] /\ Flat(d, f)
    BY <1>1, <1>3
  <2> DEFINE g == [f EXCEPT ![d + 1] = Piece(d + 1, f)]
  <2>2. d + 1 \in 1 .. N
    BY <1>1
  <2>3. g = [i \in 1 .. N |-> g[i]]
    BY <2>1, <2>2
  <2>4. \A i \in 1 .. N : i # d + 1 => g[i] = f[i]
    BY <2>1, <2>2
  <2>5. g[d + 1] = Piece(d + 1, f)
    BY <2>1, <2>2
  <2> HIDE DEF g
  <2>6. ASSUME NEW i \in 1 .. N, i <= d + 1 PROVE g[i] = Piece(i, g)
    <3>1. i # 1 => i - 1 \in 1 .. N /\ i - 1 # d + 1
      BY <1>1, <2>6
    <3>2. Piece(i, g) = Piece(i, f)
      BY <2>4, <3>1
    <3>3. i # d + 1 => i <= d
      BY <1>1, <2>6
    <3> QED BY <2>1, <2>4, <2>5, <3>2, <3>3
  <2> QED BY <2>3, <2>6
<1>4. N \in S
  <2> HIDE DEF S
  <2> QED BY <1>1, <1>2, <1>3, SetInduction
<1>5. PICK f : f = [i \in 1 .. N |-> f[i]] /\ Flat(N, f)
  BY <1>1, <1>4
<1>6. \A i \in 1 .. N : f[i] = Piece(i, f)
  <2> TAKE i \in 1 .. N
  <2>1. i <= N
    BY <1>1
  <2> HIDE DEF Piece
  <2> QED BY <1>5, <2>1
<1>7. f = [i \in 1 .. N |-> Piece(i, f)]
  BY <1>5, <1>6
<1> QED BY <1>7 DEF Flattens, N

LEMMA FlattenSeqFlattens ==
    ASSUME NEW seqs, Len(seqs) \in Nat, Len(seqs) # 0
    PROVE  \E f : Flattens(seqs, f) /\ FlattenSeq(seqs) = f[Len(seqs)]
<1> DEFINE f == CHOOSE f : f = [i \in 1 .. Len(seqs) |->
                                  IF i = 1 THEN seqs[i] ELSE f[i - 1] \o seqs[i]]
<1>1. \E h : h = [i \in 1 .. Len(seqs) |-> IF i = 1 THEN seqs[i] ELSE h[i - 1] \o seqs[i]]
  BY FlatteningExists DEF Flattens
<1>2. f = [i \in 1 .. Len(seqs) |-> IF i = 1 THEN seqs[i] ELSE f[i - 1] \o seqs[i]]
  <2> HIDE DEF f
  <2> QED BY <1>1, Zenon DEF f
<1>3. FlattenSeq(seqs) = f[Len(seqs)]
  BY Zenon DEF FlattenSeq
<1> QED BY <1>2, <1>3, Zenon DEF Flattens

(* Sequences of words are flattened into a sequence of words.              *)
LEMMA FlattenSeqType ==
    ASSUME NEW S, NEW seqs \in Seq(Seq(S))
    PROVE  FlattenSeq(seqs) \in Seq(S)
<1>1. Len(seqs) \in Nat /\ \A i \in 1 .. Len(seqs) : seqs[i] \in Seq(S)
  OBVIOUS
<1>2. CASE Len(seqs) = 0
  <2>1. seqs = <<>>
    BY <1>2
  <2> QED BY <1>2, <2>1 DEF FlattenSeq
<1>3. CASE Len(seqs) # 0
  <2>1. PICK f : Flattens(seqs, f) /\ FlattenSeq(seqs) = f[Len(seqs)]
    BY <1>1, <1>3, FlattenSeqFlattens
  <2> DEFINE T == {d \in Nat : d < Len(seqs) => f[d + 1] \in Seq(S)}
  <2>2. 0 \in T
    BY <1>1, <1>3, <2>1 DEF Flattens
  <2>3. ASSUME NEW d \in Nat, d \in T PROVE d + 1 \in T
    <3> SUFFICES ASSUME d + 1 < Len(seqs) PROVE f[(d + 1) + 1] \in Seq(S)
      OBVIOUS
    <3>1. f[d + 1] \in Seq(S)
      BY <1>1, <2>3
    <3>2. (d + 1) + 1 \in 1 .. Len(seqs) /\ (d + 1) + 1 # 1 /\ ((d + 1) + 1) - 1 = d + 1
      BY <1>1
    <3>3. f[(d + 1) + 1] = f[d + 1] \o seqs[(d + 1) + 1]
      BY <2>1, <3>2 DEF Flattens
    <3>4. seqs[(d + 1) + 1] \in Seq(S)
      BY <1>1, <3>2
    <3> QED BY <3>1, <3>3, <3>4, ConcatProperties
  <2> DEFINE n == Len(seqs) - 1
  <2>4. n \in Nat /\ n < Len(seqs) /\ n + 1 = Len(seqs)
    BY <1>1, <1>3
  <2>5. n \in T
    <3> HIDE DEF T, n
    <3> QED BY <2>2, <2>3, <2>4, SetInduction
  <2> QED BY <2>1, <2>4, <2>5
<1> QED BY <1>2, <1>3

(* Concatenation, of any sequences: it is associative.                     *)
LEMMA ConcatIsAssociative ==
    ASSUME NEW T, \E S : T = Seq(S)
    PROVE  /\ \A x, y \in T : x \o y \in T
           /\ \A x, y, z \in T : (x \o y) \o z = x \o (y \o z)
<1>1. \A x, y \in T : x \o y \in T
  BY ConcatProperties
<1>2. \A x, y, z \in T : (x \o y) \o z = x \o (y \o z)
  BY ConcatAssociative
<1> QED BY <1>1, <1>2

(* The menu has five dials and five keys.                                  *)
FiveOf(seqs, S) == Len(seqs) = 5 /\ \A i \in 1 .. 5 : seqs[i] \in Seq(S)

FiveThen(seqs, t) == seqs[1] \o (seqs[2] \o (seqs[3] \o (seqs[4] \o (seqs[5] \o t))))

(* Five sequences are flattened by appending them one after the other.     *)
LEMMA FlattenFive ==
    ASSUME NEW S, NEW seqs, FiveOf(seqs, S), NEW t, t \in Seq(S)
    PROVE  FlattenSeq(seqs) \in Seq(S) /\ FlattenSeq(seqs) \o t = FiveThen(seqs, t)
<1>0. Len(seqs) = 5 /\ \A i \in 1 .. 5 : seqs[i] \in Seq(S)
  BY DEF FiveOf
<1>1. Len(seqs) \in Nat /\ Len(seqs) # 0
  BY <1>0
<1>2. PICK f : Flattens(seqs, f) /\ FlattenSeq(seqs) = f[Len(seqs)]
  BY <1>1, FlattenSeqFlattens
<1>3. \A i \in 1 .. 5 : f[i] = IF i = 1 THEN seqs[i] ELSE f[i - 1] \o seqs[i]
  BY <1>0, <1>2 DEF Flattens
<1>4. /\ 1 \in 1 .. 5 /\ 2 \in 1 .. 5 /\ 3 \in 1 .. 5 /\ 4 \in 1 .. 5 /\ 5 \in 1 .. 5
      /\ 2 - 1 = 1 /\ 3 - 1 = 2 /\ 4 - 1 = 3 /\ 5 - 1 = 4
      /\ 2 # 1 /\ 3 # 1 /\ 4 # 1 /\ 5 # 1
  OBVIOUS
<1>5. PICK T : T = Seq(S)
  OBVIOUS
<1>6. \A x, y \in T : x \o y \in T
  BY <1>5, ConcatIsAssociative
<1>7. \A x, y, z \in T : (x \o y) \o z = x \o (y \o z)
  <2>1. \E X : T = Seq(X)
    BY <1>5
  <2> QED BY ONLY <2>1, ConcatIsAssociative
<1>8. PICK a, b, c, d, e : /\ a = seqs[1] /\ b = seqs[2] /\ c = seqs[3]
                           /\ d = seqs[4] /\ e = seqs[5]
  OBVIOUS
<1>9. a \in T /\ b \in T
  BY <1>0, <1>4, <1>5, <1>8
<1>10. c \in T
  BY <1>0, <1>4, <1>5, <1>8
<1>11. d \in T
  BY <1>0, <1>4, <1>5, <1>8
<1>12. e \in T /\ t \in T
  BY <1>0, <1>4, <1>5, <1>8
<1>13. PICK ab : ab = a \o b /\ f[2] = ab /\ ab \in T
  BY <1>3, <1>4, <1>6, <1>8, <1>9
<1>14. PICK abc : abc = ab \o c /\ f[3] = abc /\ abc \in T
  BY <1>3, <1>4, <1>6, <1>8, <1>10, <1>13
<1>15. PICK abcd : abcd = abc \o d /\ f[4] = abcd /\ abcd \in T
  BY <1>3, <1>4, <1>6, <1>8, <1>11, <1>14
<1>16. f[5] = abcd \o e /\ f[5] \in T
  <2>1. f[5] = abcd \o e
    BY <1>3, <1>4, <1>8, <1>15
  <2>2. abcd \in T /\ e \in T
    BY <1>12, <1>15
  <2> QED BY ONLY <1>6, <2>1, <2>2
<1>17. PICK et : et = e \o t /\ et \in T
  BY <1>6, <1>12
<1>18. PICK det : det = d \o et /\ det \in T
  BY <1>6, <1>11, <1>17
<1>19. PICK cdet : cdet = c \o det /\ cdet \in T
  BY <1>6, <1>10, <1>18
<1>20. f[5] \o t = abcd \o et
  <2>1. abcd \in T
    BY <1>15
  <2>2. (abcd \o e) \o t = abcd \o (e \o t)
    BY ONLY <1>7, <1>12, <2>1
  <2> QED BY ONLY <1>16, <1>17, <2>2
<1>21. abcd \o et = abc \o det
  <2>1. abc \in T /\ et \in T
    BY <1>14, <1>17
  <2>2. (abc \o d) \o et = abc \o (d \o et)
    BY ONLY <1>7, <1>11, <2>1
  <2> QED BY ONLY <1>15, <1>18, <2>2
<1>22. abc \o det = ab \o cdet
  <2>1. ab \in T /\ det \in T
    BY <1>13, <1>18
  <2>2. (ab \o c) \o det = ab \o (c \o det)
    BY ONLY <1>7, <1>10, <2>1
  <2> QED BY ONLY <1>14, <1>19, <2>2
<1>23. ab \o cdet = a \o (b \o cdet)
  <2>1. cdet \in T
    BY <1>19
  <2>2. (a \o b) \o cdet = a \o (b \o cdet)
    BY ONLY <1>7, <1>9, <2>1
  <2> QED BY ONLY <1>13, <2>2
<1>24. f[5] \o t = a \o (b \o (c \o (d \o (e \o t))))
  BY ONLY <1>17, <1>18, <1>19, <1>20, <1>21, <1>22, <1>23
<1> QED BY <1>0, <1>2, <1>5, <1>8, <1>16, <1>24 DEF FiveThen
-----------------------------------------------------------------------------
(* What to_args writes of settings that were read, parse_args reads back.  *)

(* What was read is in lower case already.                                 *)
LEMMA LoweredStays == \A w \in Lowered : Lower(w) = w
BY WordsAssumption DEF Lowered

(* A string typed by hand is a sequence of words.                          *)
LEMMA HandWrittenIsWords == HandWritten \subseteq Seq(Words \cup Flags)
<1> SUFFICES ASSUME NEW n \in 0 .. MaxPhrases, NEW p \in [1 .. n -> Phrases]
             PROVE  FlattenSeq(p) \in Seq(Words \cup Flags)
  BY DEF HandWritten
<1>1. n \in Nat
  BY WordsAssumption
<1>2. Phrases \subseteq Seq(Words \cup Flags)
  <2> DEFINE S == Words \cup Flags
  <2>1. {"-modifier", "-preset", "-setkey"} \subseteq S /\ Words \subseteq S
    BY DEF Flags
  <2> HIDE DEF S
  <2>2. \A k, v \in Words : <<"-modifier", k, v>> \in Seq(S)
    BY <2>1
  <2>3. \A flag \in {"-preset", "-setkey"}, w \in Words : <<flag, w>> \in Seq(S)
    BY <2>1
  <2>4. \A w \in S : <<w>> \in Seq(S)
    OBVIOUS
  <2> SUFFICES ASSUME NEW q \in Phrases PROVE q \in Seq(S)
    BY DEF S
  <2>5. CASE \E k, v \in Words : q = <<"-modifier", k, v>>
    BY <2>2, <2>5
  <2>6. CASE \E flag \in {"-preset", "-setkey"}, w \in Words : q = <<flag, w>>
    BY <2>3, <2>6
  <2>7. CASE \E w \in Words \cup Flags : q = <<w>>
    BY <2>4, <2>7 DEF S
  <2> HIDE DEF S
  <2>8. \/ q \in {<<"-modifier", k, v>> : k, v \in Words}
        \/ q \in {<<flag, w>> : flag \in {"-preset", "-setkey"}, w \in Words}
        \/ q \in {<<w>> : w \in Words \cup Flags}
    BY DEF Phrases
  <2> QED BY <2>5, <2>6, <2>7, <2>8
<1>3. p \in Seq(Seq(Words \cup Flags))
  <2>1. p \in [1 .. n -> Seq(Words \cup Flags)]
    BY <1>2
  <2> QED BY <1>1, <2>1
<1> QED BY <1>3, FlattenSeqType

LEMMA NothingWritten ==
    ASSUME NEW s \in Seq(Tokens)
    PROVE  <<>> \in Seq(Tokens) /\ <<>> \o s = s
BY ConcatEmptySeq

LEMMA TokenPair ==
    ASSUME NEW f \in Tokens, NEW w \in Tokens
    PROVE  <<f, w>> \in Seq(Tokens)
OBVIOUS

(* The dials of m that are in D.                                           *)
DialsIn(m, D) == [k \in DOMAIN m.modifiers \cap D |-> m.modifiers[k]]

ReadAs(s, d, p, K) ==
    /\ s \in Seq(Tokens)
    /\ ParseArgs(s) = [modifiers |-> d, preset |-> p, keys |-> K]

(* What a segment in front of s adds to what s reads as.                   *)
LEMMA WrittenDialRead ==
    ASSUME NEW m \in Parsed, NEW k \in DOMAIN MODIFIERS, NEW D, k \notin D,
           NEW s, NEW p, NEW K, ReadAs(s, DialsIn(m, D), p, K)
    PROVE  /\ WrittenDial(m, k) \in Seq(Tokens)
           /\ ReadAs(WrittenDial(m, k) \o s, DialsIn(m, D \cup {k}), p, K)
<1>0. s \in Seq(Tokens) /\ ParseArgs(s) = [modifiers |-> DialsIn(m, D), preset |-> p, keys |-> K]
  BY DEF ReadAs
<1> SUFFICES
       /\ WrittenDial(m, k) \in Seq(Tokens)
       /\ WrittenDial(m, k) \o s \in Seq(Tokens)
       /\ ParseArgs(WrittenDial(m, k) \o s) =
             [modifiers |-> DialsIn(m, D \cup {k}), preset |-> p, keys |-> K]
  BY DEF ReadAs
<1>1. CASE k \notin DOMAIN m.modifiers
  <2>1. WrittenDial(m, k) = <<>>
    BY <1>1 DEF WrittenDial
  <2>2. <<>> \in Seq(Tokens) /\ <<>> \o s = s
    BY <1>0, NothingWritten
  <2>3. DialsIn(m, D \cup {k}) = DialsIn(m, D)
    BY <1>1 DEF DialsIn
  <2> QED BY <1>0, <2>1, <2>2, <2>3
<1>2. CASE k \in DOMAIN m.modifiers
  <2> DEFINE v == m.modifiers[k]
  <2>1. v \in Lowered
    BY <1>2, ParsedParts DEF Parts
  <2>2. k \in Tokens /\ v \in Tokens /\ Lower(k) = k /\ Lower(v) = v
    BY <2>1, LoweredStays, WordsAssumption DEF Tokens
  <2>3. WrittenDial(m, k) = <<"-modifier", k, v>>
    BY <1>2 DEF WrittenDial
  <2> HIDE DEF v
  <2>4. <<"-modifier", k, v>> \in Seq(Tokens)
    BY <2>2, FlagsAreTokens
  <2>5. <<"-modifier", k, v>> \o s \in Seq(Tokens)
    BY <1>0, <2>4, ConcatProperties
  <2>6. ParseArgs(<<"-modifier", k, v>> \o s) = DialBefore(k, v, ParseArgs(s))
    BY <1>0, <2>2, ReadDial
  <2> DEFINE r == ParseArgs(s)
             d == DialsIn(m, D)
  <2>7. k \notin DOMAIN d /\ r.modifiers = d
    BY <1>0 DEF DialsIn
  <2>8. Put(d, k, v) = DialsIn(m, D \cup {k})
    BY <1>2 DEF Put, DialsIn, v
  <2> HIDE DEF d
  <2>9. r = [modifiers |-> d, preset |-> p, keys |-> K]
    BY <1>0 DEF d
  <2> HIDE DEF r
  <2>10. DialBefore(k, v, r) = [modifiers |-> Put(d, k, v), preset |-> p, keys |-> K]
    <3> DEFINE e == Put(d, k, v)
    <3>1. DialBefore(k, v, r) = [r EXCEPT !.modifiers = e]
      BY <2>7 DEF DialBefore
    <3> HIDE DEF e
    <3>2. [r EXCEPT !.modifiers = e] = [modifiers |-> e, preset |-> p, keys |-> K]
      BY <2>9
    <3> QED BY <3>1, <3>2 DEF e
  <2> QED BY <2>3, <2>4, <2>5, <2>6, <2>8, <2>10 DEF r
<1> QED BY <1>1, <1>2

(* A toggle written in front of a string is read as one more toggle.       *)
LEMMA WrittenKeyRead ==
    ASSUME NEW m \in Parsed, NEW k \in Toggles, NEW K,
           NEW s, NEW d, NEW p, ReadAs(s, d, p, m.keys \cap K)
    PROVE  /\ WrittenKey(m, k) \in Seq(Tokens)
           /\ ReadAs(WrittenKey(m, k) \o s, d, p, m.keys \cap (K \cup {k}))
<1>0. s \in Seq(Tokens) /\ ParseArgs(s) = [modifiers |-> d, preset |-> p, keys |-> m.keys \cap K]
  BY DEF ReadAs
<1> SUFFICES
       /\ WrittenKey(m, k) \in Seq(Tokens)
       /\ WrittenKey(m, k) \o s \in Seq(Tokens)
       /\ ParseArgs(WrittenKey(m, k) \o s) =
             [modifiers |-> d, preset |-> p, keys |-> m.keys \cap (K \cup {k})]
  BY DEF ReadAs
<1>1. CASE k \notin m.keys
  <2>1. WrittenKey(m, k) = <<>>
    BY <1>1 DEF WrittenKey
  <2>2. <<>> \in Seq(Tokens) /\ <<>> \o s = s
    BY <1>0, NothingWritten
  <2>3. m.keys \cap (K \cup {k}) = m.keys \cap K
    BY <1>1
  <2> QED BY <1>0, <2>1, <2>2, <2>3
<1>2. CASE k \in m.keys
  <2>1. k \in Tokens /\ Lower(k) = k
    BY WordsAssumption DEF Tokens
  <2>2. WrittenKey(m, k) = <<"-setkey", k>>
    BY <1>2 DEF WrittenKey
  <2>3. <<"-setkey", k>> \in Seq(Tokens)
    BY <2>1, TokenPair, FlagsAreTokens
  <2>4. <<"-setkey", k>> \o s \in Seq(Tokens)
    BY <1>0, <2>3, ConcatProperties
  <2>5. ParseArgs(<<"-setkey", k>> \o s) = KeyBefore(k, ParseArgs(s))
    BY <1>0, <2>1, ReadKey
  <2> DEFINE r == ParseArgs(s)
             J == m.keys \cap K
             L == m.keys \cap (K \cup {k})
  <2>6. J \cup {k} = L
    BY <1>2
  <2>7. r = [modifiers |-> d, preset |-> p, keys |-> J]
    BY <1>0
  <2> HIDE DEF r, J, L
  <2>8. KeyBefore(k, r) = [modifiers |-> d, preset |-> p, keys |-> L]
    <3>1. KeyBefore(k, r) = [r EXCEPT !.keys = L]
      BY <2>6, <2>7 DEF KeyBefore
    <3> QED BY <2>7, <3>1
  <2> QED BY <2>2, <2>3, <2>4, <2>5, <2>8 DEF r, L
<1> QED BY <1>1, <1>2

NormalPreset(m) == IF m.preset = "normal" THEN "" ELSE m.preset

(* A preset written in front of a string without one is read as its        *)
(* preset.                                                                 *)
LEMMA WrittenPresetRead ==
    ASSUME NEW m \in Parsed, NEW s, NEW d, NEW K, ReadAs(s, d, "", K)
    PROVE  /\ WrittenPreset(m) \in Seq(Tokens)
           /\ ReadAs(WrittenPreset(m) \o s, d, NormalPreset(m), K)
<1>0. s \in Seq(Tokens) /\ ParseArgs(s) = [modifiers |-> d, preset |-> "", keys |-> K]
  BY DEF ReadAs
<1> SUFFICES
       /\ WrittenPreset(m) \in Seq(Tokens)
       /\ WrittenPreset(m) \o s \in Seq(Tokens)
       /\ ParseArgs(WrittenPreset(m) \o s) =
             [modifiers |-> d, preset |-> NormalPreset(m), keys |-> K]
  BY DEF ReadAs
<1>1. CASE m.preset \in {"", "normal"}
  <2>1. WrittenPreset(m) = <<>>
    BY <1>1 DEF WrittenPreset
  <2>2. <<>> \in Seq(Tokens) /\ <<>> \o s = s
    BY <1>0, NothingWritten
  <2>3. NormalPreset(m) = ""
    BY <1>1 DEF NormalPreset
  <2> QED BY <1>0, <2>1, <2>2, <2>3
<1>2. CASE m.preset \notin {"", "normal"}
  <2> DEFINE v == m.preset
  <2>1. v \in Lowered
    BY <1>2, ParsedParts DEF Parts
  <2>2. v \in Tokens /\ Lower(v) = v
    BY <2>1, LoweredStays DEF Tokens
  <2>3. WrittenPreset(m) = <<"-preset", v>> /\ NormalPreset(m) = v
    BY <1>2 DEF WrittenPreset, NormalPreset
  <2> HIDE DEF v
  <2>4. <<"-preset", v>> \in Seq(Tokens)
    BY <2>2, TokenPair, FlagsAreTokens
  <2>5. <<"-preset", v>> \o s \in Seq(Tokens)
    BY <1>0, <2>4, ConcatProperties
  <2>6. ParseArgs(<<"-preset", v>> \o s) = PresetBefore(v, ParseArgs(s))
    BY <1>0, <2>2, ReadPreset
  <2> DEFINE r == ParseArgs(s)
  <2>7. r = [modifiers |-> d, preset |-> "", keys |-> K]
    BY <1>0
  <2> HIDE DEF r
  <2>8. PresetBefore(v, r) = [modifiers |-> d, preset |-> v, keys |-> K]
    BY <2>7 DEF PresetBefore
  <2> QED BY <2>3, <2>4, <2>5, <2>6, <2>8 DEF r
<1> QED BY <1>1, <1>2

(* What is written of the keys is read back as the keys of the menu.        *)
LEMMA KeysRead ==
    ASSUME NEW m \in Parsed, NEW seqs,
           seqs = [i \in DOMAIN GLOBAL_KEYS |-> WrittenKey(m, GLOBAL_KEYS[i])]
    PROVE  ReadAs(FlattenSeq(seqs), <<>>, "", m.keys \cap Toggles)
<1>1. PICK key, nothing, none : key = GLOBAL_KEYS /\ nothing = <<>> /\ none = ""
  OBVIOUS
<1>2. /\ Toggles = {key[1], key[2], key[3], key[4], key[5]}
      /\ Len(seqs) = 5
      /\ \A i \in 1 .. 5 : seqs[i] = WrittenKey(m, key[i])
  <2>1. DOMAIN GLOBAL_KEYS = 1 .. 5
    BY DEF GLOBAL_KEYS
  <2>2. Toggles = {key[i] : i \in 1 .. 5}
    BY <1>1, <2>1 DEF Toggles, Range
  <2>3. {key[i] : i \in 1 .. 5} = {key[1], key[2], key[3], key[4], key[5]}
    OBVIOUS
  <2>4. seqs = [i \in 1 .. 5 |-> WrittenKey(m, key[i])]
    BY <1>1, <2>1
  <2>5. Len(seqs) = 5 /\ \A i \in 1 .. 5 : seqs[i] = WrittenKey(m, key[i])
    BY ONLY <2>4
  <2> QED BY <2>2, <2>3, <2>5
<1>3. ReadAs(nothing, nothing, none, m.keys \cap {}) /\ nothing \in Seq(Tokens)
  <2>1. m.keys \cap {} = {} /\ <<>> \in Seq(Tokens)
    OBVIOUS
  <2> QED BY <1>1, <2>1, ReadNothing DEF Unmodified, ReadAs
<1>4. \A k, K, s : k \in Toggles /\ ReadAs(s, nothing, none, m.keys \cap K) =>
          /\ WrittenKey(m, k) \in Seq(Tokens)
          /\ ReadAs(WrittenKey(m, k) \o s, nothing, none, m.keys \cap (K \cup {k}))
  BY WrittenKeyRead
<1>5. /\ seqs[1] = WrittenKey(m, key[1]) /\ seqs[2] = WrittenKey(m, key[2])
      /\ seqs[3] = WrittenKey(m, key[3]) /\ seqs[4] = WrittenKey(m, key[4])
      /\ seqs[5] = WrittenKey(m, key[5])
  BY <1>2
<1>6. PICK t5 : t5 = seqs[5] \o nothing /\ ReadAs(t5, nothing, none, m.keys \cap ({} \cup {key[5]}))
  BY <1>2, <1>3, <1>4, <1>5
<1>7. PICK t4 : t4 = seqs[4] \o t5 /\ ReadAs(t4, nothing, none, m.keys \cap (({} \cup {key[5]}) \cup {key[4]}))
  BY <1>2, <1>4, <1>5, <1>6
<1>8. PICK t3 : /\ t3 = seqs[3] \o t4
                /\ ReadAs(t3, nothing, none, m.keys \cap ((({} \cup {key[5]}) \cup {key[4]}) \cup {key[3]}))
  BY <1>2, <1>4, <1>5, <1>7
<1>9. PICK t2 : /\ t2 = seqs[2] \o t3
                /\ ReadAs(t2, nothing, none,
                      m.keys \cap (((({} \cup {key[5]}) \cup {key[4]}) \cup {key[3]}) \cup {key[2]}))
  BY <1>2, <1>4, <1>5, <1>8
<1>10. PICK t1 : /\ t1 = seqs[1] \o t2
                 /\ ReadAs(t1, nothing, none,
                      m.keys \cap ((((({} \cup {key[5]}) \cup {key[4]}) \cup {key[3]}) \cup {key[2]}) \cup {key[1]}))
  BY <1>2, <1>4, <1>5, <1>9
<1>11. ReadAs(t1, nothing, none, m.keys \cap Toggles)
  <2>1. (((({} \cup {key[5]}) \cup {key[4]}) \cup {key[3]}) \cup {key[2]}) \cup {key[1]} = Toggles
    BY <1>2
  <2> QED BY ONLY <1>10, <2>1
<1>12. \A i \in 1 .. 5 : seqs[i] \in Seq(Tokens)
  <2>1. \A i \in 1 .. 5 : key[i] \in Toggles
    BY <1>2
  <2> QED BY <1>2, <1>3, <1>4, <2>1
<1>13. /\ FlattenSeq(seqs) \in Seq(Tokens)
       /\ FlattenSeq(seqs) \o nothing = FiveThen(seqs, nothing)
  <2>1. FiveOf(seqs, Tokens) /\ nothing \in Seq(Tokens)
    BY <1>2, <1>3, <1>12 DEF FiveOf
  <2> QED BY ONLY <2>1, FlattenFive
<1>14. FlattenSeq(seqs) \o nothing = FlattenSeq(seqs)
  BY <1>1, <1>13, ConcatEmptySeq
<1>15. t1 = FlattenSeq(seqs)
  BY ONLY <1>6, <1>7, <1>8, <1>9, <1>10, <1>13, <1>14 DEF FiveThen
<1> QED BY ONLY <1>1, <1>11, <1>15

(* What is written of the dials, in front of a string without dials, is     *)
(* read back as the dials, and as that string's preset and keys.            *)
LEMMA DialsRead ==
    ASSUME NEW m \in Parsed, NEW seqs,
           seqs = [i \in DOMAIN Menu |-> WrittenDial(m, Menu[i])],
           NEW t, NEW p, NEW K, ReadAs(t, <<>>, p, K)
    PROVE  /\ FlattenSeq(seqs) \in Seq(Tokens)
           /\ ReadAs(FlattenSeq(seqs) \o t, m.modifiers, p, K)
<1>1. PICK dial : dial = Menu
  OBVIOUS
<1>2. /\ dial[1] = "combat" /\ dial[2] = "deathpenalty" /\ dial[3] = "resources"
      /\ dial[4] = "raids" /\ dial[5] = "portals" /\ DOMAIN dial = 1 .. 5
  BY <1>1 DEF Menu
<1>3. DOMAIN MODIFIERS = {dial[1], dial[2], dial[3], dial[4], dial[5]}
  BY <1>2 DEF MODIFIERS
<1>4. /\ Len(seqs) = 5
      /\ seqs[1] = WrittenDial(m, dial[1]) /\ seqs[2] = WrittenDial(m, dial[2])
      /\ seqs[3] = WrittenDial(m, dial[3]) /\ seqs[4] = WrittenDial(m, dial[4])
      /\ seqs[5] = WrittenDial(m, dial[5])
  <2>1. seqs = [i \in 1 .. 5 |-> WrittenDial(m, dial[i])]
    BY <1>1, <1>2
  <2> QED BY ONLY <2>1
<1>5. \A k, D, s : k \in DOMAIN MODIFIERS \ D /\ ReadAs(s, DialsIn(m, D), p, K) =>
          /\ WrittenDial(m, k) \in Seq(Tokens)
          /\ ReadAs(WrittenDial(m, k) \o s, DialsIn(m, D \cup {k}), p, K)
  BY WrittenDialRead
<1>6. DialsIn(m, {}) = <<>>
  BY DEF DialsIn
<1>7. /\ WrittenDial(m, dial[5]) \in Seq(Tokens)
      /\ ReadAs(seqs[5] \o t, DialsIn(m, {} \cup {dial[5]}), p, K)
  <2>1. dial[5] \in DOMAIN MODIFIERS /\ dial[5] \notin {}
    BY <1>3
  <2>2. ReadAs(t, DialsIn(m, {}), p, K)
    BY <1>6
  <2> QED BY <1>4, <1>5, <2>1, <2>2
<1>8. PICK t5 : t5 = seqs[5] \o t /\ ReadAs(t5, DialsIn(m, {dial[5]}), p, K)
  <2>1. {} \cup {dial[5]} = {dial[5]}
    OBVIOUS
  <2> QED BY <1>7, <2>1
<1>9. /\ WrittenDial(m, dial[4]) \in Seq(Tokens)
      /\ ReadAs(seqs[4] \o t5, DialsIn(m, {dial[5]} \cup {dial[4]}), p, K)
  <2>1. dial[4] \in DOMAIN MODIFIERS /\ dial[4] \notin {dial[5]}
    BY <1>2, <1>3
  <2> QED BY <1>4, <1>5, <1>8, <2>1
<1>10. PICK t4 : t4 = seqs[4] \o t5 /\ ReadAs(t4, DialsIn(m, {dial[5], dial[4]}), p, K)
  <2>1. {dial[5]} \cup {dial[4]} = {dial[5], dial[4]}
    OBVIOUS
  <2> QED BY <1>9, <2>1
<1>11. /\ WrittenDial(m, dial[3]) \in Seq(Tokens)
       /\ ReadAs(seqs[3] \o t4, DialsIn(m, {dial[5], dial[4]} \cup {dial[3]}), p, K)
  <2>1. dial[3] \in DOMAIN MODIFIERS /\ dial[3] \notin {dial[5], dial[4]}
    BY <1>2, <1>3
  <2> QED BY <1>4, <1>5, <1>10, <2>1
<1>12. PICK t3 : t3 = seqs[3] \o t4 /\ ReadAs(t3, DialsIn(m, {dial[5], dial[4], dial[3]}), p, K)
  <2>1. {dial[5], dial[4]} \cup {dial[3]} = {dial[5], dial[4], dial[3]}
    OBVIOUS
  <2> QED BY <1>11, <2>1
<1>13. /\ WrittenDial(m, dial[2]) \in Seq(Tokens)
       /\ ReadAs(seqs[2] \o t3, DialsIn(m, {dial[5], dial[4], dial[3]} \cup {dial[2]}), p, K)
  <2>1. dial[2] \in DOMAIN MODIFIERS /\ dial[2] \notin {dial[5], dial[4], dial[3]}
    BY <1>2, <1>3
  <2> QED BY <1>4, <1>5, <1>12, <2>1
<1>14. PICK t2 : /\ t2 = seqs[2] \o t3
                 /\ ReadAs(t2, DialsIn(m, {dial[5], dial[4], dial[3], dial[2]}), p, K)
  <2>1. {dial[5], dial[4], dial[3]} \cup {dial[2]} = {dial[5], dial[4], dial[3], dial[2]}
    OBVIOUS
  <2> QED BY <1>13, <2>1
<1>15. /\ WrittenDial(m, dial[1]) \in Seq(Tokens)
       /\ ReadAs(seqs[1] \o t2, DialsIn(m, {dial[5], dial[4], dial[3], dial[2]} \cup {dial[1]}), p, K)
  <2>1. dial[1] \in DOMAIN MODIFIERS /\ dial[1] \notin {dial[5], dial[4], dial[3], dial[2]}
    BY <1>2, <1>3
  <2> QED BY <1>4, <1>5, <1>14, <2>1
<1>16. DialsIn(m, {dial[5], dial[4], dial[3], dial[2]} \cup {dial[1]}) = m.modifiers
  <2>1. DOMAIN m.modifiers \subseteq DOMAIN MODIFIERS /\ m.modifiers \in [DOMAIN m.modifiers -> Lowered]
    BY ParsedParts DEF Parts
  <2>2. {dial[5], dial[4], dial[3], dial[2]} \cup {dial[1]} = DOMAIN MODIFIERS
    BY <1>3
  <2>3. DialsIn(m, DOMAIN MODIFIERS) = m.modifiers
    <3> HIDE DEF MODIFIERS
    <3> QED BY <2>1 DEF DialsIn
  <2> QED BY <2>2, <2>3
<1>17. FiveOf(seqs, Tokens) /\ t \in Seq(Tokens)
  <2>1. Len(seqs) = 5 /\ t \in Seq(Tokens)
    BY <1>4 DEF ReadAs
  <2>2. /\ seqs[1] \in Seq(Tokens) /\ seqs[2] \in Seq(Tokens) /\ seqs[3] \in Seq(Tokens)
        /\ seqs[4] \in Seq(Tokens) /\ seqs[5] \in Seq(Tokens)
    BY <1>4, <1>7, <1>9, <1>11, <1>13, <1>15
  <2>3. \A i \in 1 .. 5 : i = 1 \/ i = 2 \/ i = 3 \/ i = 4 \/ i = 5
    OBVIOUS
  <2> QED BY ONLY <2>1, <2>2, <2>3 DEF FiveOf
<1>18. FlattenSeq(seqs) \in Seq(Tokens) /\ FlattenSeq(seqs) \o t = FiveThen(seqs, t)
  BY ONLY <1>17, FlattenFive
<1>19. FiveThen(seqs, t) = seqs[1] \o t2
  BY ONLY <1>8, <1>10, <1>12, <1>14 DEF FiveThen
<1> QED BY ONLY <1>15, <1>16, <1>18, <1>19

(* What to_args writes is read as what it was written from, but for a      *)
(* preset called normal and keys that are not on the menu.                 *)
Normal(m) ==
    [modifiers |-> m.modifiers, preset |-> NormalPreset(m), keys |-> m.keys \cap Toggles]

(* What was written is read back, in its normal form.                      *)
LEMMA RoundTrip ==
    ASSUME NEW m \in Parsed
    PROVE  ToArgs(m) \in Seq(Tokens) /\ ParseArgs(ToArgs(m)) = Normal(m)
<1>1. PICK dials : dials = [i \in DOMAIN Menu |-> WrittenDial(m, Menu[i])]
  OBVIOUS
<1>2. PICK keys : keys = [i \in DOMAIN GLOBAL_KEYS |-> WrittenKey(m, GLOBAL_KEYS[i])]
  OBVIOUS
<1>3. PICK e, f, g : f = FlattenSeq(dials) /\ g = FlattenSeq(keys) /\ e = WrittenPreset(m)
  OBVIOUS
<1>4. ReadAs(g, <<>>, "", m.keys \cap Toggles)
  BY <1>2, <1>3, KeysRead
<1>5. f \in Seq(Tokens) /\ ReadAs(f \o g, m.modifiers, "", m.keys \cap Toggles)
  BY <1>1, <1>3, <1>4, DialsRead
<1>6. e \in Seq(Tokens) /\ ReadAs(e \o (f \o g), m.modifiers, NormalPreset(m), m.keys \cap Toggles)
  BY <1>3, <1>5, WrittenPresetRead
<1>7. ToArgs(m) = (e \o f) \o g
  BY <1>1, <1>2, <1>3 DEF ToArgs
<1>8. e \in Seq(Tokens) /\ f \in Seq(Tokens) /\ g \in Seq(Tokens)
  BY <1>4, <1>5, <1>6 DEF ReadAs
<1>9. (e \o f) \o g = e \o (f \o g)
  BY ONLY <1>8, ConcatAssociative
<1> QED BY <1>6, <1>7, <1>9 DEF ReadAs, Normal

(* The normal form is among the values read, and is written and shown      *)
(* like what it is the normal form of.                                     *)
LEMMA NormalParsed ==
    ASSUME NEW m \in Parsed
    PROVE  Normal(m) \in Parsed
<1>1. Parts(m)
  BY ParsedParts
<1>2. NormalPreset(m) \in Lowered \cup {""}
  BY <1>1 DEF Parts, NormalPreset
<1>3. m.keys \cap Toggles \subseteq Lowered
  BY <1>1 DEF Parts
<1>4. PICK p, K : p = NormalPreset(m) /\ K = m.keys \cap Toggles
  OBVIOUS
<1>5. PICK n : n = Normal(m) /\ n = [modifiers |-> m.modifiers, preset |-> p, keys |-> K]
  BY <1>4 DEF Normal
<1>6. Parts(n)
  <2>1. p \in Lowered \cup {""} /\ K \subseteq Lowered
    BY <1>2, <1>3, <1>4
  <2>2. PICK d : d = m.modifiers /\ DOMAIN d \subseteq DOMAIN MODIFIERS /\ d \in [DOMAIN d -> Lowered]
    BY <1>1 DEF Parts
  <2>3. n = [modifiers |-> d, preset |-> p, keys |-> K]
    BY <1>5, <2>2
  <2> QED BY ONLY <2>1, <2>2, <2>3 DEF Parts
<1> QED BY <1>5, <1>6, ParsedParts

LEMMA TogglesAre ==
    /\ Toggles = {"nobuildcost", "nomap", "noportals", "passivemobs", "playerevents"}
    /\ \A i \in DOMAIN GLOBAL_KEYS : GLOBAL_KEYS[i] \in Toggles
<1>1. DOMAIN GLOBAL_KEYS = 1 .. 5
  BY DEF GLOBAL_KEYS
<1>2. Toggles = {GLOBAL_KEYS[i] : i \in 1 .. 5}
  BY <1>1 DEF Toggles, Range
<1>3. \A i \in 1 .. 5 : i = 1 \/ i = 2 \/ i = 3 \/ i = 4 \/ i = 5
  OBVIOUS
<1>4. Toggles = {GLOBAL_KEYS[1], GLOBAL_KEYS[2], GLOBAL_KEYS[3], GLOBAL_KEYS[4], GLOBAL_KEYS[5]}
  BY <1>2, <1>3
<1> QED BY <1>1, <1>2, <1>4 DEF GLOBAL_KEYS

LEMMA WrittenAsNormal ==
    ASSUME NEW m
    PROVE  ToArgs(Normal(m)) = ToArgs(m)
<1>1. PICK n : n = Normal(m)
  OBVIOUS
<1>2. n.modifiers = m.modifiers /\ n.preset = NormalPreset(m) /\ n.keys = m.keys \cap Toggles
  BY <1>1 DEF Normal
<1>3. WrittenPreset(n) = WrittenPreset(m)
  BY <1>2 DEF WrittenPreset, NormalPreset
<1>4. [i \in DOMAIN Menu |-> WrittenDial(n, Menu[i])] = [i \in DOMAIN Menu |-> WrittenDial(m, Menu[i])]
  BY <1>2 DEF WrittenDial
<1>5. \A i \in DOMAIN GLOBAL_KEYS : WrittenKey(n, GLOBAL_KEYS[i]) = WrittenKey(m, GLOBAL_KEYS[i])
  BY <1>2, TogglesAre DEF WrittenKey
<1>6. [i \in DOMAIN GLOBAL_KEYS |-> WrittenKey(n, GLOBAL_KEYS[i])] =
          [i \in DOMAIN GLOBAL_KEYS |-> WrittenKey(m, GLOBAL_KEYS[i])]
  BY <1>5
<1> QED BY <1>1, <1>3, <1>4, <1>6 DEF ToArgs

-----------------------------------------------------------------------------
(* An edit changes its own setting, in what is listed, and no other.       *)

(* The three kinds of slots are apart.                                     *)
LEMMA SlotsApart ==
    /\ "preset" \notin DOMAIN MODIFIERS /\ "preset" \notin Toggles
    /\ DOMAIN MODIFIERS \cap Toggles = {}
<1>1. DOMAIN MODIFIERS = {"combat", "deathpenalty", "resources", "raids", "portals"}
  BY DEF MODIFIERS
<1> QED BY <1>1, TogglesAre

Cell(m, slot) ==
    IF slot \in DOMAIN MODIFIERS
    THEN IF slot \in DOMAIN m.modifiers THEN m.modifiers[slot] ELSE CLEAR_VALUE
    ELSE IF slot = "preset"
    THEN IF m.preset \notin {"", "normal"} THEN m.preset ELSE CLEAR_VALUE
    ELSE IF slot \in m.keys THEN "on" ELSE CLEAR_VALUE

(* The list, cell by cell.                                                 *)
LEMMA ListedCells ==
    ASSUME NEW m \in Parsed
    PROVE  Listed(m) = [slot \in Slots |-> Cell(m, slot)]
<1>1. DOMAIN m.modifiers \subseteq DOMAIN MODIFIERS
  BY ParsedParts DEF Parts
<1> SUFFICES ASSUME NEW slot \in Slots PROVE Listed(m)[slot] = Cell(m, slot)
  BY DEF Listed
<1>2. CASE slot \in DOMAIN MODIFIERS
  <2>1. slot # "preset" /\ slot \notin Toggles
    BY <1>2, SlotsApart
  <2> HIDE DEF MODIFIERS
  <2> QED BY <1>2, <2>1 DEF Listed, Cell
<1>3. CASE slot = "preset"
  <2>1. slot \notin DOMAIN MODIFIERS /\ slot \notin Toggles
    BY <1>3, SlotsApart
  <2>2. slot \notin DOMAIN m.modifiers
    BY <1>1, <2>1
  <2> HIDE DEF MODIFIERS
  <2> QED BY <1>3, <2>1, <2>2 DEF Listed, Cell
<1>4. CASE slot \in Toggles
  <2>1. slot \notin DOMAIN MODIFIERS /\ slot # "preset"
    BY <1>4, SlotsApart
  <2>2. slot \notin DOMAIN m.modifiers
    BY <1>1, <2>1
  <2> HIDE DEF MODIFIERS
  <2> QED BY <1>4, <2>1, <2>2 DEF Listed, Cell
<1> QED BY <1>2, <1>3, <1>4 DEF Slots

LEMMA ListedAsNormal ==
    ASSUME NEW m \in Parsed
    PROVE  Listed(Normal(m)) = Listed(m)
<1>1. PICK n : n = Normal(m)
  OBVIOUS
<1>2. n.modifiers = m.modifiers /\ n.preset = NormalPreset(m) /\ n.keys = m.keys \cap Toggles
  BY <1>1 DEF Normal
<1>3. \A slot \in Slots : Cell(n, slot) = Cell(m, slot)
  <2> HIDE DEF MODIFIERS
  <2> QED BY <1>2 DEF Cell, NormalPreset, Slots
<1>4. n \in Parsed
  BY <1>1, NormalParsed
<1> QED BY <1>1, <1>3, <1>4, ListedCells

(* An edit changes the cell it is about and no other.                      *)
LEMMA SetModifierListed ==
    ASSUME NEW m \in Parsed, NEW k \in DOMAIN MODIFIERS, NEW v \in Lowered \cup {CLEAR_VALUE}
    PROVE  /\ SetModifier(m, k, v) \in Parsed
           /\ Listed(SetModifier(m, k, v)) = [Listed(m) EXCEPT ![k] = v]
<1>1. Parts(m)
  BY ParsedParts
<1>2. m = [modifiers |-> m.modifiers, preset |-> m.preset, keys |-> m.keys]
  BY <1>1 DEF Parts
<1>3. PICK d : d = IF v = CLEAR_VALUE THEN [x \in DOMAIN m.modifiers \ {k} |-> m.modifiers[x]]
                   ELSE Put(m.modifiers, k, v)
  OBVIOUS
<1>4. PICK n : n = SetModifier(m, k, v)
  OBVIOUS
<1>5. n = [modifiers |-> d, preset |-> m.preset, keys |-> m.keys]
  <2>1. n = [m EXCEPT !.modifiers = d]
    BY <1>3, <1>4 DEF SetModifier
  <2> QED BY <1>2, <2>1
<1>6. DOMAIN d \subseteq DOMAIN MODIFIERS /\ d \in [DOMAIN d -> Lowered]
  <2>1. m.modifiers \in [DOMAIN m.modifiers -> Lowered]
    BY <1>1 DEF Parts
  <2>2. CASE v = CLEAR_VALUE
    BY <1>1, <1>3, <2>1, <2>2 DEF Parts
  <2>3. CASE v # CLEAR_VALUE
    <3>1. d = Put(m.modifiers, k, v) /\ v \in Lowered
      BY <1>3, <2>3
    <3>2. d \in [DOMAIN m.modifiers \cup {k} -> Lowered]
      BY <2>1, <3>1, PutDial
    <3> QED BY <1>1, <3>2 DEF Parts
  <2> QED BY <2>2, <2>3
<1>7. n \in Parsed
  <2>1. Parts(n)
    BY <1>1, <1>5, <1>6 DEF Parts
  <2> QED BY <2>1, ParsedParts
<1>8. \A slot \in Slots : Cell(n, slot) = IF slot = k THEN v ELSE Cell(m, slot)
  <2> HIDE DEF MODIFIERS
  <2>1. /\ k \in DOMAIN d <=> v # CLEAR_VALUE
        /\ v # CLEAR_VALUE => d[k] = v
        /\ \A x : x # k => (x \in DOMAIN d <=> x \in DOMAIN m.modifiers)
        /\ \A x \in DOMAIN m.modifiers : x # k => d[x] = m.modifiers[x]
    BY <1>3 DEF Put
  <2>2. n.modifiers = d /\ n.preset = m.preset /\ n.keys = m.keys
    BY <1>5
  <2> QED BY <2>1, <2>2 DEF Cell
<1>9. Listed(m) = [slot \in Slots |-> Cell(m, slot)] /\ Listed(n) = [slot \in Slots |-> Cell(n, slot)]
  BY <1>7, ListedCells
<1> QED BY <1>4, <1>7, <1>8, <1>9

LEMMA SetPresetListed ==
    ASSUME NEW m \in Parsed, NEW p \in PRESETS, p \in Lowered
    PROVE  /\ SetPreset(m, p) \in Parsed
           /\ Listed(SetPreset(m, p)) =
                 [Listed(m) EXCEPT !["preset"] = IF p = "normal" THEN CLEAR_VALUE ELSE p]
<1>1. Parts(m)
  BY ParsedParts
<1>2. m = [modifiers |-> m.modifiers, preset |-> m.preset, keys |-> m.keys]
  BY <1>1 DEF Parts
<1>3. PICK q : q = IF p = "normal" THEN "" ELSE p
  OBVIOUS
<1>4. PICK n : n = SetPreset(m, p)
  OBVIOUS
<1>5. n = [modifiers |-> m.modifiers, preset |-> q, keys |-> m.keys]
  <2>1. n = [m EXCEPT !.preset = q]
    BY <1>3, <1>4 DEF SetPreset
  <2> QED BY <1>2, <2>1
<1>6. n \in Parsed
  <2>1. q \in Lowered \cup {""}
    BY <1>3
  <2>2. Parts(n)
    BY <1>1, <1>5, <2>1 DEF Parts
  <2> QED BY <2>2, ParsedParts
<1>7. \A slot \in Slots :
         Cell(n, slot) = IF slot = "preset" THEN IF p = "normal" THEN CLEAR_VALUE ELSE p
                         ELSE Cell(m, slot)
  <2>1. n.modifiers = m.modifiers /\ n.preset = q /\ n.keys = m.keys
    BY <1>5
  <2>2. p # ""
    BY DEF PRESETS
  <2>3. "preset" \notin DOMAIN MODIFIERS
    BY SlotsApart
  <2> HIDE DEF MODIFIERS
  <2> QED BY <1>3, <2>1, <2>2, <2>3 DEF Cell
<1>8. Listed(m) = [slot \in Slots |-> Cell(m, slot)] /\ Listed(n) = [slot \in Slots |-> Cell(n, slot)]
  BY <1>6, ListedCells
<1> QED BY <1>4, <1>6, <1>7, <1>8

LEMMA SetKeyListed ==
    ASSUME NEW m \in Parsed, NEW k \in Toggles, k \in Lowered, NEW enabled \in BOOLEAN
    PROVE  /\ SetKey(m, k, enabled) \in Parsed
           /\ Listed(SetKey(m, k, enabled)) =
                 [Listed(m) EXCEPT ![k] = IF enabled THEN "on" ELSE CLEAR_VALUE]
<1>1. Parts(m)
  BY ParsedParts
<1>2. m = [modifiers |-> m.modifiers, preset |-> m.preset, keys |-> m.keys]
  BY <1>1 DEF Parts
<1>3. PICK K : K = IF enabled THEN m.keys \cup {k} ELSE m.keys \ {k}
  OBVIOUS
<1>4. PICK n : n = SetKey(m, k, enabled)
  OBVIOUS
<1>5. n = [modifiers |-> m.modifiers, preset |-> m.preset, keys |-> K]
  <2>1. n = [m EXCEPT !.keys = K]
    BY <1>3, <1>4 DEF SetKey
  <2> QED BY <1>2, <2>1
<1>6. n \in Parsed
  <2>1. K \subseteq Lowered
    BY <1>1, <1>3 DEF Parts
  <2>2. Parts(n)
    BY <1>1, <1>5, <2>1 DEF Parts
  <2> QED BY <2>2, ParsedParts
<1>7. \A slot \in Slots :
         Cell(n, slot) = IF slot = k THEN IF enabled THEN "on" ELSE CLEAR_VALUE
                         ELSE Cell(m, slot)
  <2>1. n.modifiers = m.modifiers /\ n.preset = m.preset /\ n.keys = K
    BY <1>5
  <2>2. k \notin DOMAIN MODIFIERS /\ k # "preset"
    BY SlotsApart
  <2> HIDE DEF MODIFIERS
  <2> QED BY <1>3, <2>1, <2>2 DEF Cell
<1>8. Listed(m) = [slot \in Slots |-> Cell(m, slot)] /\ Listed(n) = [slot \in Slots |-> Cell(n, slot)]
  BY <1>6, ListedCells
<1> QED BY <1>4, <1>6, <1>7, <1>8
-----------------------------------------------------------------------------
(* The theorems.                                                           *)

(* What a command does: one slot of the list is set, and the settings are  *)
(* written.                                                                *)
Edits(m, slot, value) ==
    /\ m \in Parsed /\ slot \in Slots /\ value \in Values
    /\ Listed(m) = [Listed(ParseArgs(text)) EXCEPT ![slot] = value]
    /\ Applies(m, slot, value)

(* Every command is an edit of one slot of what it read.                   *)
LEMMA NextEdits ==
    ASSUME TypeOK, Next
    PROVE  \E m, slot, value : Edits(m, slot, value)
<1> USE DEF TypeOK
<1>1. CASE ModifierSet
  <2>1. PICK key, value \in {Lower(w) : w \in Words} :
           /\ key \in DOMAIN MODIFIERS
           /\ Applies(SetModifier(ParseArgs(text), key, value), key, value)
    BY <1>1 DEF ModifierSet
  <2>2. value \in Lowered \cup {CLEAR_VALUE} /\ key \in Slots /\ value \in Values
    BY <2>1 DEF Lowered, Slots, Values
  <2>3. Edits(SetModifier(ParseArgs(text), key, value), key, value)
    BY <2>1, <2>2, SetModifierListed DEF Edits
  <2> QED BY <2>3
<1>2. CASE ModifierPreset
  <2>1. PICK name \in {Lower(w) : w \in Words} :
           /\ name \in PRESETS
           /\ Applies(SetPreset(ParseArgs(text), name), "preset",
                      IF name = "normal" THEN CLEAR_VALUE ELSE name)
    BY <1>2 DEF ModifierPreset
  <2>2. PICK value : value = IF name = "normal" THEN CLEAR_VALUE ELSE name
    OBVIOUS
  <2>3. name \in Lowered /\ "preset" \in Slots /\ value \in Values
    BY <2>1, <2>2 DEF Lowered, Slots, Values
  <2>4. Edits(SetPreset(ParseArgs(text), name), "preset", value)
    BY <2>1, <2>2, <2>3, SetPresetListed DEF Edits
  <2> QED BY <2>4
<1>3. CASE ModifierKey
  <2>1. PICK name \in {Lower(w) : w \in Words}, enabled \in BOOLEAN :
           /\ name \in Toggles
           /\ Applies(SetKey(ParseArgs(text), name, enabled), name,
                      IF enabled THEN "on" ELSE CLEAR_VALUE)
    BY <1>3 DEF ModifierKey
  <2>2. PICK value : value = IF enabled THEN "on" ELSE CLEAR_VALUE
    OBVIOUS
  <2>3. name \in Lowered /\ name \in Slots /\ value \in Values
    BY <2>1, <2>2 DEF Lowered, Slots, Values
  <2>4. Edits(SetKey(ParseArgs(text), name, enabled), name, value)
    BY <2>1, <2>2, <2>3, SetKeyListed DEF Edits
  <2> QED BY <2>4
<1> QED BY <1>1, <1>2, <1>3 DEF Next

LEMMA InitTypeOK == Init => TypeOK
<1> SUFFICES ASSUME Init PROVE TypeOK
  OBVIOUS
<1>1. text \in Seq(Words \cup Flags)
  BY HandWrittenIsWords DEF Init
<1>2. text \in Seq(Tokens)
  BY <1>1 DEF Tokens, Lowered
<1> QED BY <1>1, <1>2, ReadIsParsed DEF TypeOK

(* What every command leaves: the string of settings, which reads as them. *)
LEMMA WhatIsWritten ==
    ASSUME NEW m, NEW slot, NEW value, Edits(m, slot, value)
    PROVE  /\ TypeOK'
           /\ (ToArgs(ParseArgs(text)) = text)'
           /\ Shown(text') = Listed(m)
<1>1. m \in Parsed /\ text' = ToArgs(m)
  BY DEF Edits, Applies
<1>2. text' \in Seq(Tokens) /\ ParseArgs(text') = Normal(m)
  BY <1>1, RoundTrip
<1>3. ParseArgs(text') \in Parsed
  BY <1>1, <1>2, NormalParsed
<1>4. ToArgs(ParseArgs(text')) = text'
  BY <1>1, <1>2, WrittenAsNormal
<1>5. Shown(text') = Listed(m)
  BY <1>1, <1>2, ListedAsNormal DEF Shown
<1> QED BY <1>2, <1>3, <1>4, <1>5 DEF TypeOK

(* Every string is words, and is read as settings of the menu.             *)
THEOREM TypeCorrect == Spec => []TypeOK
<1>1. TypeOK /\ [Next]_vars => TypeOK'
  <2> SUFFICES ASSUME TypeOK, [Next]_vars PROVE TypeOK'
    OBVIOUS
  <2>1. CASE Next
    BY <2>1, NextEdits, WhatIsWritten
  <2>2. CASE UNCHANGED vars
    BY <2>2 DEF TypeOK, vars
  <2> QED BY <2>1, <2>2
<1> QED BY <1>1, InitTypeOK, PTL DEF Spec

(* What a command wrote is read back as what was written: parsing and      *)
(* formatting it again changes nothing.                                    *)
THEOREM ReadBack == Spec => []WrittenIsReadBack
<1>1. Init => WrittenIsReadBack
  BY DEF Init, WrittenIsReadBack
<1>2. TypeOK /\ WrittenIsReadBack /\ [Next]_vars => WrittenIsReadBack'
  <2> SUFFICES ASSUME TypeOK, WrittenIsReadBack, [Next]_vars PROVE WrittenIsReadBack'
    OBVIOUS
  <2>1. CASE Next
    <3>1. PICK m, slot, value : Edits(m, slot, value)
      BY <2>1, NextEdits
    <3>2. (ToArgs(ParseArgs(text)) = text)'
      BY <3>1, WhatIsWritten
    <3> QED BY <3>2 DEF WrittenIsReadBack
  <2>2. CASE UNCHANGED vars
    BY <2>2 DEF WrittenIsReadBack, vars
  <2> QED BY <2>1, <2>2
<1> QED BY <1>1, <1>2, TypeCorrect, PTL DEF Spec

(* The cells hold values; the cells of the empty string are blank.         *)
LEMMA ListedType ==
    ASSUME NEW m \in Parsed
    PROVE  Listed(m) \in [Slots -> Values]
<1>1. Parts(m)
  BY ParsedParts
<1>2. \A slot \in Slots : Cell(m, slot) \in Values
  <2>1. \A slot \in DOMAIN m.modifiers : m.modifiers[slot] \in Lowered
    BY <1>1 DEF Parts
  <2>2. m.preset \in Lowered \/ m.preset = ""
    BY <1>1 DEF Parts
  <2> HIDE DEF MODIFIERS, Lowered, CLEAR_VALUE
  <2> QED BY <2>1, <2>2 DEF Cell, Values
<1> QED BY <1>2, ListedCells

LEMMA NothingListed == Shown(<<>>) = Board!Blank
<1>1. Listed(Unmodified) = [slot \in Slots |-> Cell(Unmodified, slot)]
  BY UnmodifiedParsed, ListedCells
<1>2. \A slot \in Slots : Cell(Unmodified, slot) = CLEAR_VALUE
  <2>1. DOMAIN Unmodified.modifiers = {} /\ Unmodified.preset = "" /\ Unmodified.keys = {}
    BY DEF Unmodified
  <2> QED BY <2>1 DEF Cell
<1> QED BY <1>1, <1>2, ReadNothing DEF Shown, Board!Blank

(* What a boot makes of a string is its board, or the deployment's if      *)
(* there is nothing on it.                                                 *)
LEMMA BootEffect == Shown(SERVER_ARGS) \in Board!Effects(Shown(text))
<1>1. CASE text = <<>>
  BY <1>1, NothingListed DEF SERVER_ARGS, Board!Effects
<1>2. CASE text # <<>>
  BY <1>2 DEF SERVER_ARGS, Board!Effects
<1> QED BY <1>1, <1>2

(* Whatever string it starts from, every command changes the one setting   *)
(* it announces and no other, in the list and at the next boot: the string *)
(* implements the board.                                                   *)
THEOREM BoardImplemented == Spec => ImplementsBoard
<1>1. Init => Board!BoardInit
  <2> SUFFICES ASSUME Init PROVE Board!BoardInit
    OBVIOUS
  <2>1. Shown(text) \in [Slots -> Values]
    BY InitTypeOK, ListedType DEF TypeOK, Shown
  <2> QED BY <2>1, BootEffect DEF Init, Board!BoardInit
<1>2. TypeOK /\ [Next]_vars => [Board!BoardNext]_(Board!boardVars)
  <2> SUFFICES ASSUME TypeOK, [Next]_vars PROVE [Board!BoardNext]_(Board!boardVars)
    OBVIOUS
  <2>1. CASE Next
    <3>1. PICK m, slot, value : Edits(m, slot, value)
      BY <2>1, NextEdits
    <3>2. said' = {<<slot, value>>} /\ slot \in Slots /\ value \in Values
      BY <3>1 DEF Edits, Applies
    <3>3. Shown(text)' = [Shown(text) EXCEPT ![slot] = value]
      BY <3>1, WhatIsWritten DEF Edits, Shown
    <3>4. (Shown(SERVER_ARGS) \in Board!Effects(Shown(text)))'
      BY BootEffect, PTL
    <3>5. Board!Change(slot, value)
      BY <3>2, <3>3, <3>4 DEF Board!Change
    <3> QED BY <3>2, <3>5 DEF Board!BoardNext
  <2>2. CASE UNCHANGED vars
    BY <2>2 DEF vars, Board!boardVars, SERVER_ARGS, Shown
  <2> QED BY <2>1, <2>2
<1> QED BY <1>1, <1>2, TypeCorrect, PTL DEF Spec, ImplementsBoard, Board!BoardSpec

==============================================================================
