------------------------------ MODULE Counting ------------------------------
(***************************************************************************)
(* How many elements of a sequence belong to a set, and how that number     *)
(* changes when the sequence grows at its end and shrinks at its front, as  *)
(* mailboxes and traces do.                                                *)
(***************************************************************************)
EXTENDS Naturals, Sequences, SequenceTheorems, FiniteSetTheorems, TLAPS

\* How many elements of a sequence belong to a set.
Hits(seq, S) == Cardinality({i \in DOMAIN seq : seq[i] \in S})

LEMMA HitsFinite ==
  ASSUME NEW T, NEW seq \in Seq(T), NEW S
  PROVE  /\ IsFiniteSet({i \in DOMAIN seq : seq[i] \in S})
         /\ Hits(seq, S) \in Nat
<1>1. Len(seq) \in Nat /\ DOMAIN seq = 1..Len(seq)
  BY LenProperties
<1>2. IsFiniteSet(1..Len(seq))
  BY <1>1, FS_Interval
<1>3. IsFiniteSet({i \in DOMAIN seq : seq[i] \in S})
  BY <1>1, <1>2, FS_Subset
<1> QED BY <1>3, FS_CardinalityType DEF Hits

LEMMA HitsEmpty ==
  ASSUME NEW S
  PROVE  Hits(<<>>, S) = 0
<1>1. {i \in DOMAIN <<>> : <<>>[i] \in S} = {}
  BY EmptySeq
<1> QED BY <1>1, FS_EmptySet DEF Hits

LEMMA AppendShape ==
  ASSUME NEW T, NEW seq \in Seq(T), NEW e \in T
  PROVE  /\ Len(Append(seq, e)) = Len(seq) + 1
         /\ DOMAIN Append(seq, e) = 1..(Len(seq) + 1)
         /\ \A i \in DOMAIN seq : Append(seq, e)[i] = seq[i]
         /\ Append(seq, e)[Len(seq) + 1] = e
BY LenProperties, AppendProperties

LEMMA HitsAppend ==
  ASSUME NEW T, NEW seq \in Seq(T), NEW e \in T, NEW S
  PROVE  Hits(Append(seq, e), S) = Hits(seq, S) + (IF e \in S THEN 1 ELSE 0)
<1> DEFINE n == Len(seq)
           long == Append(seq, e)
           Old == {i \in DOMAIN seq : seq[i] \in S}
           New == {i \in DOMAIN long : long[i] \in S}
<1>1. /\ n \in Nat /\ DOMAIN seq = 1..n /\ DOMAIN long = 1..(n + 1)
      /\ \A i \in 1..n : long[i] = seq[i]
      /\ long[n + 1] = e
  BY LenProperties, AppendProperties
<1>2. New = IF e \in S THEN Old \cup {n + 1} ELSE Old
  <2> HIDE DEF n, long
  <2> QED BY <1>1
<1>3. n + 1 \notin Old
  BY <1>1
<1>4. IsFiniteSet(Old)
  BY HitsFinite
<1>5. Cardinality(Old) \in Nat
  BY <1>4, FS_CardinalityType
<1>6. Hits(seq, S) = Cardinality(Old) /\ Hits(long, S) = Cardinality(New)
  BY DEF Hits
<1>7. Cardinality(Old \cup {n + 1}) = Cardinality(Old) + 1
  BY <1>3, <1>4, FS_AddElement
<1> HIDE DEF n, long, Old, New
<1>8. Cardinality(New) = Cardinality(Old) + (IF e \in S THEN 1 ELSE 0)
  BY <1>2, <1>5, <1>7
<1> QED BY <1>6, <1>8 DEF long

LEMMA HitsTail ==
  ASSUME NEW T, NEW seq \in Seq(T), seq # <<>>, NEW S
  PROVE  Hits(seq, S) = Hits(Tail(seq), S) + (IF Head(seq) \in S THEN 1 ELSE 0)
<1> DEFINE n == Len(seq)
           short == Tail(seq)
           Whole == {i \in DOMAIN seq : seq[i] \in S}
           Rest == {i \in DOMAIN short : short[i] \in S}
           f == [i \in Rest |-> i + 1]
<1>1. /\ n \in Nat /\ n > 0 /\ DOMAIN seq = 1..n /\ short \in Seq(T)
      /\ DOMAIN short = 1..(n - 1) /\ Head(seq) = seq[1]
      /\ \A i \in 1..(n - 1) : short[i] = seq[i + 1]
  BY EmptySeq, LenProperties, HeadTailProperties
<1>2. IsFiniteSet(Rest) /\ IsFiniteSet(Whole)
  BY <1>1, HitsFinite
<1>3. f \in Bijection(Rest, Whole \ {1})
  <2> HIDE DEF n, short
  <2>1. f \in [Rest -> Whole \ {1}]
    BY <1>1
  <2>2. \A i, j \in Rest : f[i] = f[j] => i = j
    BY <1>1
  <2>3. \A j \in Whole \ {1} : j - 1 \in Rest /\ f[j - 1] = j
    BY <1>1
  <2> QED BY <2>1, <2>2, <2>3 DEF Bijection, Injection, Surjection, IsInjective
<1>4. Cardinality(Whole \ {1}) = Cardinality(Rest)
  BY ZenonT(40), <1>2, <1>3, FS_Bijection DEF ExistsBijection
<1>5. 1 \in Whole <=> Head(seq) \in S
  BY <1>1
<1>6. Cardinality(Whole) \in Nat /\ Cardinality(Rest) \in Nat
  BY <1>2, FS_CardinalityType
<1>7. Cardinality(Whole \ {1}) = IF 1 \in Whole THEN Cardinality(Whole) - 1 ELSE Cardinality(Whole)
  BY <1>2, FS_RemoveElement
<1>8. Hits(seq, S) = Cardinality(Whole) /\ Hits(short, S) = Cardinality(Rest)
  BY DEF Hits
<1> HIDE DEF n, short, Whole, Rest, f
<1>9. Cardinality(Whole) = Cardinality(Rest) + (IF Head(seq) \in S THEN 1 ELSE 0)
  BY <1>4, <1>5, <1>6, <1>7
<1> QED BY <1>8, <1>9 DEF short
=============================================================================
