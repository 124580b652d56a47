----------------------------- MODULE LoopProofs -----------------------------
(***************************************************************************)
(* What there is to know of a loop: each turn is what Turn makes of the    *)
(* one before.  What holds of all of its turns then follows by induction   *)
(* over their numbers, which is stated here for sets, for the numbers a    *)
(* property holds of are one.                                              *)
(***************************************************************************)
EXTENDS Loop, WellFoundedInduction, TLAPS

\* A set of numbers that is not empty has a least one.
LEMMA LeastNumber ==
  ASSUME NEW T \in SUBSET Nat, T # {}
  PROVE  \E x \in T : \A y \in T : ~(y < x)
<1> DEFINE R == OpToRel(<, Nat)
<1>1. IsWellFoundedOn(R, Nat)
  BY NatLessThanWellFounded
<1>2. \E x \in T : \A y \in T : ~(<<y, x>> \in R)
  <2> HIDE DEF R
  <2> QED
    BY <1>1, WFMin
<1>3. \A x, y \in Nat : y < x => <<y, x>> \in R
  BY DEF OpToRel
<1> HIDE DEF R
<1> QED
  BY <1>2, <1>3

\* Induction: a set that has 0 and the successor of each of its numbers has them
\* all, ...
LEMMA Induction ==
  ASSUME NEW S, 0 \in S, \A n \in Nat : n \in S => n + 1 \in S
  PROVE  Nat \subseteq S
<1> SUFFICES ASSUME Nat \ S # {} PROVE FALSE
  OBVIOUS
<1>1. PICK x \in Nat \ S : \A y \in Nat \ S : ~(y < x)
  BY LeastNumber
<1>2. x # 0 /\ x - 1 \in Nat /\ x - 1 < x
  BY <1>1
<1>3. x - 1 \in S
  BY <1>1, <1>2
<1> QED
  BY <1>1, <1>2, <1>3

\* ... all up to last if it is closed below last.
LEMMA IndexInduction ==
  ASSUME NEW last \in Nat, NEW S, 0 \in S,
         \A n \in 1 .. last : n - 1 \in S => n \in S
  PROVE  0 .. last \subseteq S
<1> DEFINE T == S \cup {n \in Nat : n > last}
<1>1. 0 \in T
  OBVIOUS
<1>2. ASSUME NEW n \in Nat, n \in T PROVE n + 1 \in T
  <2>1. CASE n + 1 > last
    BY <2>1
  <2>2. CASE ~(n + 1 > last)
    <3>1. n + 1 \in 1 .. last /\ (n + 1) - 1 = n /\ n \in S
      BY <1>2, <2>2
    <3> QED
      BY <3>1
  <2> QED
    BY <2>1, <2>2
<1>3. Nat \subseteq T
  <2> HIDE DEF T
  <2> QED
    BY <1>1, <1>2, Induction
<1> QED
  BY <1>3

-----------------------------------------------------------------------------
\* f has the first turns of the loop over s.
AreTurns(begin, f, s, last) ==
  f = [n \in 0 .. last |-> IF n = 0 THEN begin ELSE Turn(f[n - 1], s[n])]

\* A further turn can always be taken, so there are turns to choose.
LEMMA TurnsExist ==
  ASSUME NEW begin, NEW s, NEW last \in Nat
  PROVE  \E f : AreTurns(begin, f, s, last)
<1> DEFINE S == {k \in Nat : \E f : AreTurns(begin, f, s, k)}
<1>1. 0 \in S
  <2>1. AreTurns(begin, [n \in 0 .. 0 |-> begin], s, 0)
    BY DEF AreTurns
  <2> QED
    BY <2>1
<1>2. ASSUME NEW k \in Nat, k \in S PROVE k + 1 \in S
  <2>1. PICK f : AreTurns(begin, f, s, k)
    BY <1>2
  <2> DEFINE g == [n \in 0 .. k + 1 |-> IF n = k + 1 THEN Turn(f[k], s[k + 1]) ELSE f[n]]
  <2>2. ASSUME NEW n \in 0 .. k + 1
        PROVE  g[n] = IF n = 0 THEN begin ELSE Turn(g[n - 1], s[n])
    <3>1. CASE n = k + 1
      <4>1. n # 0 /\ n - 1 = k /\ g[n - 1] = f[k]
        BY <3>1
      <4> QED
        BY <3>1, <4>1
    <3>2. CASE n # k + 1
      <4>1. n \in 0 .. k /\ (n # 0 => n - 1 \in 0 .. k /\ n - 1 # k + 1)
        BY <3>2
      <4>2. f[n] = IF n = 0 THEN begin ELSE Turn(f[n - 1], s[n])
        BY <2>1, <4>1 DEF AreTurns
      <4>3. g[n] = f[n] /\ (n # 0 => g[n - 1] = f[n - 1])
        BY <3>2, <4>1
      <4> QED
        BY <4>2, <4>3
    <3> QED
      BY <3>1, <3>2
  <2>3. g = [n \in 0 .. k + 1 |-> g[n]]
    OBVIOUS
  <2> HIDE DEF g
  <2>4. AreTurns(begin, g, s, k + 1)
    BY <2>2, <2>3 DEF AreTurns
  <2> QED
    BY <2>4
<1>3. Nat \subseteq S
  <2> HIDE DEF S
  <2> QED
    BY <1>1, <1>2, Induction
<1> QED
  BY <1>3

\* Each turn of a loop is what Turn makes of the one before it.
LEMMA TurnsFollow ==
  ASSUME NEW begin, NEW s, Len(s) \in Nat
  PROVE  /\ Turns(begin, s)[0] = begin
         /\ \A n \in 1 .. Len(s) : Turns(begin, s)[n] = Turn(Turns(begin, s)[n - 1], s[n])
         /\ Result(begin, s) = Turns(begin, s)[Len(s)]
<1>1. AreTurns(begin, Turns(begin, s), s, Len(s))
  <2>1. PICK f : AreTurns(begin, f, s, Len(s))
    BY TurnsExist
  <2>2. Turns(begin, s) = CHOOSE g : AreTurns(begin, g, s, Len(s))
    BY DEF Turns, AreTurns
  <2> QED
    BY <2>1, <2>2
<1>2. \A n \in 0 .. Len(s) : Turns(begin, s)[n] = IF n = 0 THEN begin ELSE Turn(Turns(begin, s)[n - 1], s[n])
  BY <1>1 DEF AreTurns
<1>3. 0 \in 0 .. Len(s) /\ \A n \in 1 .. Len(s) : n \in 0 .. Len(s) /\ n # 0
  OBVIOUS
<1> QED
  BY <1>2, <1>3 DEF Result

\* What every turn keeps holds of the result.
LEMMA TurnsKeep ==
  ASSUME NEW begin, NEW s, Len(s) \in Nat, NEW A, begin \in A,
         \A a \in A : \A n \in 1 .. Len(s) : Turn(a, s[n]) \in A
  PROVE  /\ \A n \in 0 .. Len(s) : Turns(begin, s)[n] \in A
         /\ Result(begin, s) \in A
<1> DEFINE S == {n \in 0 .. Len(s) : Turns(begin, s)[n] \in A}
<1>1. 0 \in S
  BY TurnsFollow
<1>2. ASSUME NEW n \in 1 .. Len(s), n - 1 \in S PROVE n \in S
  BY <1>2, TurnsFollow
<1>3. 0 .. Len(s) \subseteq S
  <2> HIDE DEF S
  <2> QED
    BY <1>1, <1>2, IndexInduction
<1> QED
  BY <1>3, TurnsFollow

\* What a turn has left, and every further turn keeps, is so ever after.
LEMMA TurnsKeepOn ==
  ASSUME NEW begin, NEW s, Len(s) \in Nat, NEW k \in 0 .. Len(s), NEW A, Turns(begin, s)[k] \in A,
         \A a \in A : \A n \in k + 1 .. Len(s) : Turn(a, s[n]) \in A
  PROVE  \A n \in k .. Len(s) : Turns(begin, s)[n] \in A
<1> DEFINE S == {n \in 0 .. Len(s) : n >= k => Turns(begin, s)[n] \in A}
<1>1. 0 \in S
  OBVIOUS
<1>2. ASSUME NEW n \in 1 .. Len(s), n - 1 \in S PROVE n \in S
  <2>1. CASE n > k
    <3>1. n - 1 >= k /\ n \in k + 1 .. Len(s)
      BY <2>1
    <3>2. Turns(begin, s)[n - 1] \in A
      BY <1>2, <3>1
    <3> QED
      BY <3>1, <3>2, TurnsFollow
  <2>2. CASE n <= k
    BY <2>2
  <2> QED
    BY <2>1, <2>2
<1>3. 0 .. Len(s) \subseteq S
  <2> HIDE DEF S
  <2> QED
    BY <1>1, <1>2, IndexInduction
<1>4. \A n \in k .. Len(s) : n \in 0 .. Len(s) /\ n >= k
  OBVIOUS
<1> QED
  BY <1>3, <1>4

\* Two loops are one as far as their sequences are.
LEMMA TurnsAgree ==
  ASSUME NEW begin, NEW s, Len(s) \in Nat, NEW u, Len(u) \in Nat, NEW last \in Nat,
         last <= Len(s), last <= Len(u), \A i \in 1 .. last : s[i] = u[i]
  PROVE  \A n \in 0 .. last : Turns(begin, s)[n] = Turns(begin, u)[n]
<1> DEFINE S == {n \in 0 .. last : Turns(begin, s)[n] = Turns(begin, u)[n]}
<1>1. 0 \in S
  BY TurnsFollow
<1>2. ASSUME NEW n \in 1 .. last, n - 1 \in S PROVE n \in S
  <2>1. n \in 1 .. Len(s) /\ n \in 1 .. Len(u)
    OBVIOUS
  <2> QED
    BY <1>2, <2>1, TurnsFollow
<1>3. 0 .. last \subseteq S
  <2> HIDE DEF S
  <2> QED
    BY <1>1, <1>2, IndexInduction
<1> QED
  BY <1>3

\* One more element is one more turn.
LEMMA TurnsAppend ==
  ASSUME NEW begin, NEW S, NEW s \in Seq(S), NEW x \in S
  PROVE  Result(begin, Append(s, x)) = Turn(Result(begin, s), x)
<1> DEFINE u == Append(s, x)
           last == Len(s)
<1>1. /\ last \in Nat /\ Len(s) \in Nat /\ Len(u) \in Nat /\ Len(u) = last + 1
      /\ last <= Len(u) /\ last <= Len(s) /\ \A i \in 1 .. last : s[i] = u[i]
      /\ u[last + 1] = x
  OBVIOUS
<1>2. Result(begin, s) = Turns(begin, s)[last]
  BY DEF Result
<1> HIDE DEF u, last
<1>3. \A n \in 0 .. last : Turns(begin, s)[n] = Turns(begin, u)[n]
  BY <1>1, TurnsAgree
<1>4. last \in 0 .. last /\ Len(u) \in 1 .. Len(u) /\ Len(u) - 1 = last
  BY <1>1
<1>5. Turns(begin, u)[Len(u)] = Turn(Turns(begin, u)[last], x)
  BY <1>1, <1>4, TurnsFollow
<1>6. Result(begin, u) = Turns(begin, u)[Len(u)]
  BY DEF Result
<1> QED
  BY <1>2, <1>3, <1>4, <1>5, <1>6 DEF u
=============================================================================
