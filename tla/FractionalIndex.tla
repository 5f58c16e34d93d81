---------------------------- MODULE FractionalIndex ----------------------------
(***************************************************************************)
(* Positions among siblings (util/fractional-index.ts): keys that compare  *)
(* as strings, and keyBetween, which finds one between two others.         *)
(*                                                                         *)
(* A key is a sequence of digits 0 .. Base-1; the code has 62 of them.     *)
(* NoKey stands for null: as a lower bound it is the empty key, and as an  *)
(* upper one Unbounded, whose only digit is above all others.              *)
(***************************************************************************)
EXTENDS Integers, Sequences

CONSTANT Base   \* DIGITS.length

ASSUME BaseAssumption == Base \in Nat \ {0, 1}

NoKey     == << >>
Unbounded == <<Base>>
StartKey  == <<Base \div 2>>

\* a < b as strings.
Less(a, b) ==
  \E n \in 0 .. Len(a) :
    /\ n < Len(b) /\ SubSeq(a, 1, n) = SubSeq(b, 1, n)
    /\ n = Len(a) \/ a[n + 1] < b[n + 1]

\* keyBetween throws.
NoRoom(lo, hi) == lo # NoKey /\ hi # NoKey /\ ~Less(lo, hi)

\* Mutant: the key ends in a zero.
BelowOneBare == <<0>>

\* The key below a first digit of 1.
BelowOne     == <<0>> \o StartKey

(***************************************************************************)
(* The loop of keyBetween on what is left of the two keys; a key that has  *)
(* ended has digit -1.  With lo < hi, hi ends only if lo has, which takes  *)
(* a hi that ends in zero: the bound is then lost.                         *)
(***************************************************************************)
RECURSIVE Between(_, _)
Between(lo, hi) ==
  LET l == IF lo = << >> THEN -1 ELSE Head(lo)
      h == IF hi = << >> THEN -1 ELSE Head(hi)
  IN  CASE l = -1 /\ h = -1    -> StartKey
        [] l = -1 /\ h > 1     -> <<h \div 2>>
        [] l = -1 /\ h = 1     -> BelowOne
        [] l = -1 /\ h = 0     -> <<0>> \o Between(<< >>, Tail(hi))
        [] l > -1 /\ h > l + 1 -> <<l + (h - l) \div 2>>
        [] l > -1 /\ h = l + 1 -> <<l>> \o Between(Tail(lo), Unbounded)
        [] l > -1 /\ h = l     -> <<l>> \o Between(Tail(lo), Tail(hi))

KeyBetween(lo, hi) == Between(lo, IF hi = NoKey THEN Unbounded ELSE hi)
===============================================================================
