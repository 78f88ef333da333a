---------------------------- MODULE ImaAdpcmProofs -----------------------------
(***************************************************************************)
(* Theorems about the codec, for every predictor and all samples.          *)
(*                                                                         *)
(* CodecFollows and CodecNear are about one sample.  CodecInStep and       *)
(* CodecCutFree are about whole calls: encode()'s predictors, Trail, are   *)
(* shown to be what their recursive definition says (TrailDefined) and the *)
(* only ones that are (TrailIs), and what is claimed follows by induction  *)
(* along them.  The induction is about a set of numbers, and is itself a   *)
(* consequence of < being well-founded.                                    *)
(***************************************************************************)
EXTENDS ImaAdpcm, WellFoundedInduction, SequenceTheorems, TLAPS

LEMMA StepNat ==
  ASSUME NEW p \in Predictors
  PROVE  Step(p) \in Nat /\ Step(p) >= 7
<1>1. p.index \in 0..88
  BY DEF Predictors, Indexes
<1>2. Len(STEP_TABLE) = 89 /\ p.index + 1 \in 1..89
  BY <1>1 DEF STEP_TABLE
<1>3. \A i \in 1..89 : STEP_TABLE[i] \in Nat /\ STEP_TABLE[i] >= 7
  BY DEF STEP_TABLE
<1>4. QED BY <1>2, <1>3 DEF Step

\* What the three comparisons of _nibble() put into the code, decode() reads out of it.
LEMMA CodeBits ==
  ASSUME NEW s \in BOOLEAN, NEW b4 \in BOOLEAN, NEW b2 \in BOOLEAN, NEW b1 \in BOOLEAN,
         NEW size, size = When(b4, 4) + When(b2, 2) + When(b1, 1),
         NEW code, code = When(s, 8) + size
  PROVE  /\ code \in Nat
         /\ (code % 2 = 1) <=> b1
         /\ ((code \div 2) % 2 = 1) <=> b2
         /\ ((code \div 4) % 2 = 1) <=> b4
         /\ (code >= 8) <=> s
         /\ code % 8 = size
<1>1. CASE b4 /\ b2 /\ b1
  <2>1. size = 7 /\ code = When(s, 8) + 7
    BY <1>1 DEF When
  <2>2. QED BY <1>1, <2>1 DEF When
<1>2. CASE b4 /\ b2 /\ ~b1
  <2>1. size = 6 /\ code = When(s, 8) + 6
    BY <1>2 DEF When
  <2>2. QED BY <1>2, <2>1 DEF When
<1>3. CASE b4 /\ ~b2 /\ b1
  <2>1. size = 5 /\ code = When(s, 8) + 5
    BY <1>3 DEF When
  <2>2. QED BY <1>3, <2>1 DEF When
<1>4. CASE b4 /\ ~b2 /\ ~b1
  <2>1. size = 4 /\ code = When(s, 8) + 4
    BY <1>4 DEF When
  <2>2. QED BY <1>4, <2>1 DEF When
<1>5. CASE ~b4 /\ b2 /\ b1
  <2>1. size = 3 /\ code = When(s, 8) + 3
    BY <1>5 DEF When
  <2>2. QED BY <1>5, <2>1 DEF When
<1>6. CASE ~b4 /\ b2 /\ ~b1
  <2>1. size = 2 /\ code = When(s, 8) + 2
    BY <1>6 DEF When
  <2>2. QED BY <1>6, <2>1 DEF When
<1>7. CASE ~b4 /\ ~b2 /\ b1
  <2>1. size = 1 /\ code = When(s, 8) + 1
    BY <1>7 DEF When
  <2>2. QED BY <1>7, <2>1 DEF When
<1>8. CASE ~b4 /\ ~b2 /\ ~b1
  <2>1. size = 0 /\ code = When(s, 8) + 0
    BY <1>8 DEF When
  <2>2. QED BY <1>8, <2>1 DEF When
<1>9. QED BY <1>1, <1>2, <1>3, <1>4, <1>5, <1>6, <1>7, <1>8

\* The camera's decoder, in step with the encoder, is in step after every sample, at every
\* predictor, where it is clamped as well (_nibble() and decode()).
THEOREM CodecFollows ==
  ASSUME NEW p \in Predictors, NEW sample \in Samples
  PROVE  Follows(p, sample)
<1> DEFINE step == Step(p)
           down == sample < p.pred
           diff == IF down THEN p.pred - sample ELSE sample - p.pred
           b4   == diff >= step
           d2   == diff - When(b4, step)
           b2   == d2 >= step \div 2
           d1   == d2 - When(b2, step \div 2)
           b1   == d1 >= step \div 4
           size == When(b4, 4) + When(b2, 2) + When(b1, 1)
           vp   == (step \div 8) + When(b4, step) + When(b2, step \div 2)
                     + When(b1, step \div 4)
           code == When(down, 8) + size
<1>1. Nibble(p, sample) = [code |-> code, p |-> Moved(p, down, vp, size)]
  BY DEF Nibble
<1>2. down \in BOOLEAN /\ b4 \in BOOLEAN /\ b2 \in BOOLEAN /\ b1 \in BOOLEAN
  OBVIOUS
<1>3. step \in Nat
  BY StepNat
<1> HIDE DEF step, down, b4, b2, b1
<1>4. /\ (code % 2 = 1) <=> b1
      /\ ((code \div 2) % 2 = 1) <=> b2
      /\ ((code \div 4) % 2 = 1) <=> b4
      /\ (code >= 8) <=> down
      /\ code % 8 = size
  BY <1>2, CodeBits
<1> DEFINE read == (step \div 8) + When(code % 2 = 1, step \div 4)
                     + When((code \div 2) % 2 = 1, step \div 2)
                     + When((code \div 4) % 2 = 1, step)
<1> HIDE DEF code, size
<1>5. DecodeNibble(p, code) = Moved(p, code >= 8, read, code % 8)
  BY DEF DecodeNibble, step
<1>6. read = (step \div 8) + When(b1, step \div 4) + When(b2, step \div 2) + When(b4, step)
  BY <1>4 DEF When
<1>7. /\ step \div 8 \in Int /\ When(b1, step \div 4) \in Int
      /\ When(b2, step \div 2) \in Int /\ When(b4, step) \in Int
  BY <1>3 DEF When
<1>8. read = vp
  BY <1>6, <1>7
<1>9. DecodeNibble(p, code) = Moved(p, down, vp, size)
  BY <1>4, <1>5, <1>8 DEF Moved
<1>10. QED BY <1>1, <1>9 DEF Follows

\* What the three comparisons leave out is an eighth of a step and what is rounded off.
LEMMA Quantised ==
  ASSUME NEW step \in Nat, NEW diff \in Nat, diff < 2 * step,
         NEW b4 \in BOOLEAN, NEW b2 \in BOOLEAN, NEW b1 \in BOOLEAN,
         b4 <=> diff >= step,
         b2 <=> diff - When(b4, step) >= step \div 2,
         b1 <=> diff - When(b4, step) - When(b2, step \div 2) >= step \div 4,
         NEW vp, vp = (step \div 8) + When(b4, step) + When(b2, step \div 2)
                        + When(b1, step \div 4)
  PROVE  vp \in Nat /\ Distance(diff, vp) <= (step \div 8) + 2
<1>1. CASE b4
  <2>1. CASE b2
    BY <1>1, <2>1 DEF When, Distance
  <2>2. CASE ~b2
    BY <1>1, <2>2 DEF When, Distance
  <2>3. QED BY <2>1, <2>2
<1>2. CASE ~b4
  <2>1. CASE b2
    BY <1>2, <2>1 DEF When, Distance
  <2>2. CASE ~b2
    BY <1>2, <2>2 DEF When, Distance
  <2>3. QED BY <2>1, <2>2
<1>3. QED BY <1>1, <1>2

LEMMA SampleInt ==
  ASSUME NEW x \in Samples
  PROVE  x \in Int /\ -32768 <= x /\ x <= 32767
  BY SMTT(30) DEF Samples

LEMMA DistanceInt ==
  ASSUME NEW a \in Int, NEW b \in Int
  PROVE  Distance(a, b) \in Int
  BY DEF Distance

\* Clamping brings a value nearer to everything in between.
LEMMA Clamped ==
  ASSUME NEW low \in Int, NEW high \in Int, NEW a \in Int, low <= a, a <= high, NEW x \in Int
  PROVE  /\ Clamp(low, high, x) \in Int
         /\ Distance(a, Clamp(low, high, x)) <= Distance(a, x)
  BY DEF Distance, Clamp

\* What a sample is encoded to is near it, if it was in reach of the predictor.
THEOREM CodecNear ==
  ASSUME NEW p \in Predictors, NEW sample \in Samples
  PROVE  Near(p, sample)
<1> DEFINE step == Step(p)
           down == sample < p.pred
           diff == IF down THEN p.pred - sample ELSE sample - p.pred
           b4   == diff >= step
           d2   == diff - When(b4, step)
           b2   == d2 >= step \div 2
           d1   == d2 - When(b2, step \div 2)
           b1   == d1 >= step \div 4
           vp   == (step \div 8) + When(b4, step) + When(b2, step \div 2)
                     + When(b1, step \div 4)
           moved == IF down THEN p.pred - vp ELSE p.pred + vp
           reach == Distance(sample, p.pred)
<1>1. SUFFICES ASSUME reach < 2 * step
               PROVE  Distance(sample, Nibble(p, sample).p.pred) <= (step \div 8) + 2
  BY DEF Near
<1>2. Nibble(p, sample).p.pred = Clamp(-32768, 32767, moved)
  BY DEF Nibble, Moved, Reset
<1>3. step \in Nat
  BY StepNat
<1>4. p.pred \in Int /\ sample \in Int /\ -32768 <= sample /\ sample <= 32767
  <2>1. p.pred \in Samples
    BY DEF Predictors
  <2>2. QED BY <2>1, SampleInt
<1>5. diff \in Nat /\ diff = reach
  BY <1>4 DEF Distance
<1>6. vp \in Nat /\ Distance(diff, vp) <= (step \div 8) + 2
  <2> HIDE DEF step, diff, reach
  <2>1. b4 \in BOOLEAN /\ b2 \in BOOLEAN /\ b1 \in BOOLEAN
    OBVIOUS
  <2>2. /\ b4 <=> diff >= step
        /\ b2 <=> diff - When(b4, step) >= step \div 2
        /\ b1 <=> diff - When(b4, step) - When(b2, step \div 2) >= step \div 4
    OBVIOUS
  <2>3. diff < 2 * step
    BY <1>1, <1>5
  <2> HIDE DEF b4, b2, b1
  <2>4. QED BY <1>3, <1>5, <2>1, <2>2, <2>3, Quantised
<1> HIDE DEF step, reach
<1> HIDE DEF vp
<1>7. moved \in Int /\ Distance(sample, moved) = Distance(diff, vp)
  BY <1>4, <1>6 DEF Distance
<1> HIDE DEF moved
<1>8. Distance(sample, Clamp(-32768, 32767, moved)) <= Distance(sample, moved)
  BY <1>4, <1>7, Clamped
<1>9. /\ Clamp(-32768, 32767, moved) \in Int
      /\ Distance(sample, Clamp(-32768, 32767, moved)) \in Int
      /\ Distance(sample, moved) \in Int /\ step \div 8 \in Int
  <2>1. Clamp(-32768, 32767, moved) \in Int
    BY <1>7 DEF Clamp
  <2>2. QED BY <1>3, <1>4, <1>7, <2>1, DistanceInt
<1>10. QED BY <1>2, <1>6, <1>7, <1>8, <1>9

-----------------------------------------------------------------------------
(* Induction. *)

\* Induction over the numbers, for a set instead of a predicate: the smallest number that
\* is not in it would follow one that is.
LEMMA Induction ==
  ASSUME NEW S, 0 \in S, \A n \in Nat : n \in S => n + 1 \in S
  PROVE  \A n \in Nat : n \in S
<1> SUFFICES ASSUME Nat \ S # {} PROVE FALSE
  OBVIOUS
<1> DEFINE R == {p \in Nat \X Nat : p[1] < p[2]}
<1>1. IsWellFoundedOn(R, Nat)
  BY NatLessThanWellFounded DEF OpToRel
<1>2. PICK m \in Nat \ S : \A k \in Nat \ S : <<k, m>> \notin R
  BY <1>1, WFMin
<1>3. m - 1 \in Nat /\ m - 1 \in Nat \ S
  <2>1. m # 0
    OBVIOUS
  <2>2. m - 1 \in Nat /\ (m - 1) + 1 = m
    BY <2>1
  <2>3. QED BY <2>2
<1>4. <<m - 1, m>> \in Nat \X Nat /\ <<m - 1, m>>[1] < <<m - 1, m>>[2]
  BY <1>3
<1>5. QED BY <1>2, <1>3, <1>4

-----------------------------------------------------------------------------
(* What the encoder puts out. *)

LEMMA InSamples ==
  ASSUME NEW c \in Int, -32768 <= c, c <= 32767
  PROVE  c \in Samples
<1>1. SUFFICES ASSUME ~(c \in Samples) PROVE FALSE
  OBVIOUS
<1>2. QED BY <1>1, SMTT(30) DEF Samples

LEMMA ClampSample ==
  ASSUME NEW x \in Int
  PROVE  Clamp(-32768, 32767, x) \in Samples
<1>1. PICK c : c = Clamp(-32768, 32767, x)
  OBVIOUS
<1>2. c \in Int /\ -32768 <= c /\ c <= 32767
  BY <1>1 DEF Clamp
<1>3. QED BY <1>1, <1>2, InSamples

LEMMA ResetType ==
  ASSUME NEW pred \in Int, NEW index \in Int
  PROVE  Reset(pred, index) \in Predictors
<1>1. Clamp(-32768, 32767, pred) \in Samples
  BY ClampSample
<1>2. Clamp(0, 88, index) \in Indexes
  BY DEF Clamp, Indexes
<1>3. QED BY <1>1, <1>2 DEF Reset, Predictors

\* The encoder's predictor stays one, and its code has four bits.
LEMMA NibbleType ==
  ASSUME NEW p \in Predictors, NEW sample \in Samples
  PROVE  Nibble(p, sample).code \in Codes /\ Nibble(p, sample).p \in Predictors
<1> DEFINE step == Step(p)
           down == sample < p.pred
           diff == IF down THEN p.pred - sample ELSE sample - p.pred
           b4   == diff >= step
           d2   == diff - When(b4, step)
           b2   == d2 >= step \div 2
           d1   == d2 - When(b2, step \div 2)
           b1   == d1 >= step \div 4
           size == When(b4, 4) + When(b2, 2) + When(b1, 1)
           vp   == (step \div 8) + When(b4, step) + When(b2, step \div 2)
                     + When(b1, step \div 4)
<1>1. Nibble(p, sample) = [code |-> When(down, 8) + size, p |-> Moved(p, down, vp, size)]
  BY DEF Nibble
<1>2. step \in Nat /\ p.pred \in Int /\ p.index \in Int
  BY StepNat, SampleInt DEF Predictors, Indexes
<1> HIDE DEF step, down, b4, b2, b1
<1>3. vp \in Int
  BY <1>2 DEF When
<1>4. size \in 0..7 /\ When(down, 8) + size \in Codes
  BY DEF When, Codes
<1> HIDE DEF vp, size
<1>5. INDEX_TABLE[size + 1] \in Int
  BY <1>4 DEF INDEX_TABLE
<1>6. Moved(p, down, vp, size) \in Predictors
  <2>1. (IF down THEN p.pred - vp ELSE p.pred + vp) \in Int
    BY <1>2, <1>3
  <2>2. p.index + INDEX_TABLE[size + 1] \in Int
    BY <1>2, <1>5
  <2>3. QED BY <2>1, <2>2, ResetType DEF Moved
<1>7. QED BY <1>1, <1>4, <1>6

\* What the recursive definition of trail says of its value at i.
Trailed(g, p, samples, i) == IF i = 1 THEN p ELSE Nibble(g[i - 1], samples[i - 1]).p

\* The recursive definition in Trail defines it.
LEMMA TrailDefined ==
  ASSUME NEW p \in Predictors, NEW samples \in Seq(Samples)
  PROVE  \A i \in 1..(Len(samples) + 1) :
           Trail(p, samples)[i] = Trailed(Trail(p, samples), p, samples, i)
<1> DEFINE N == Len(samples) + 1
           S == {k \in Nat : k <= N => \E g \in [1..k -> Predictors] :
                               \A i \in 1..k : g[i] = Trailed(g, p, samples, i)}
<1>1. N \in Nat /\ \A i \in 1..(N - 1) : samples[i] \in Samples
  BY LenProperties, ElementOfSeq
<1> HIDE DEF N
<1>2. 0 \in S
  <2>1. [i \in 1..0 |-> p] \in [1..0 -> Predictors] /\ 1..0 = {}
    OBVIOUS
  <2>2. \A i \in 1..0 : [x \in 1..0 |-> p][i] = Trailed([x \in 1..0 |-> p], p, samples, i)
    BY <2>1
  <2>3. QED BY <2>1, <2>2
<1>3. ASSUME NEW k \in Nat, k \in S PROVE k + 1 \in S
  <2>1. SUFFICES ASSUME k + 1 <= N
                 PROVE  \E g \in [1..(k + 1) -> Predictors] :
                          \A i \in 1..(k + 1) : g[i] = Trailed(g, p, samples, i)
    OBVIOUS
  <2>2. PICK g \in [1..k -> Predictors] : \A i \in 1..k : g[i] = Trailed(g, p, samples, i)
    BY <1>1, <1>3, <2>1
  <2> DEFINE h == [i \in 1..(k + 1) |-> IF i <= k THEN g[i] ELSE Trailed(g, p, samples, i)]
  <2>3. Trailed(g, p, samples, k + 1) \in Predictors
    <3>1. CASE k = 0
      BY <3>1 DEF Trailed
    <3>2. CASE k # 0
      <4>1. k \in 1..(N - 1) /\ k \in 1..k /\ (k + 1) - 1 = k /\ k + 1 # 1
        BY <1>1, <2>1, <3>2
      <4>2. g[k] \in Predictors /\ samples[k] \in Samples
        BY <1>1, <2>2, <4>1
      <4>3. QED BY <4>1, <4>2, NibbleType DEF Trailed
    <3>3. QED BY <3>1, <3>2
  <2>4. h \in [1..(k + 1) -> Predictors]
    BY <2>2, <2>3
  <2>5. \A i \in 1..(k + 1) : h[i] = Trailed(h, p, samples, i)
    BY <2>2 DEF Trailed
  <2>6. QED BY <2>4, <2>5
<1>4. N \in S
  <2> HIDE DEF S
  <2>1. QED BY <1>1, <1>2, <1>3, Induction
<1>5. PICK g \in [1..N -> Predictors] : \A i \in 1..N : g[i] = Trailed(g, p, samples, i)
  BY <1>1, <1>4
<1>6. g = [i \in 1..N |-> IF i = 1 THEN p ELSE Nibble(g[i - 1], samples[i - 1]).p]
  BY <1>5 DEF Trailed
<1>7. Trail(p, samples)
        = [i \in 1..N |-> IF i = 1 THEN p
                          ELSE Nibble(Trail(p, samples)[i - 1], samples[i - 1]).p]
  BY <1>6 DEF Trail, N
<1>8. QED BY <1>7 DEF Trailed, N

\* It is the only one that does as the encoder.
LEMMA TrailIs ==
  ASSUME NEW p \in Predictors, NEW samples \in Seq(Samples), NEW g, g[1] = p,
         \A i \in 1..Len(samples) : g[i + 1] = Nibble(g[i], samples[i]).p
  PROVE  \A i \in 1..(Len(samples) + 1) : Trail(p, samples)[i] = g[i]
<1> DEFINE N == Len(samples)
           S == {k \in Nat : k <= N => Trail(p, samples)[k + 1] = g[k + 1]}
<1>1. N \in Nat
  BY LenProperties
<1>2. 0 \in S
  BY <1>1, TrailDefined DEF Trailed
<1>3. ASSUME NEW k \in Nat, k \in S PROVE k + 1 \in S
  <2>1. SUFFICES ASSUME k + 1 <= N PROVE Trail(p, samples)[(k + 1) + 1] = g[(k + 1) + 1]
    OBVIOUS
  <2>2. /\ (k + 1) + 1 \in 1..(Len(samples) + 1) /\ (k + 1) + 1 # 1
        /\ ((k + 1) + 1) - 1 = k + 1 /\ k + 1 \in 1..Len(samples) /\ k <= N
    BY <1>1, <2>1
  <2>3. Trail(p, samples)[(k + 1) + 1] = Nibble(Trail(p, samples)[k + 1], samples[k + 1]).p
    BY <2>2, TrailDefined DEF Trailed
  <2>4. Trail(p, samples)[k + 1] = g[k + 1]
    BY <1>3, <2>2
  <2>5. QED BY <2>2, <2>3, <2>4
<1>4. \A k \in Nat : k \in S
  <2> HIDE DEF S
  <2>1. QED BY <1>2, <1>3, Induction
<1>5. TAKE i \in 1..(Len(samples) + 1)
<1>6. i - 1 \in Nat /\ (i - 1) + 1 = i /\ i - 1 <= N
  BY <1>1
<1>7. i - 1 <= N => Trail(p, samples)[(i - 1) + 1] = g[(i - 1) + 1]
  <2>1. i - 1 \in S
    BY <1>4, <1>6
  <2>2. QED BY <2>1, Zenon
<1>8. QED BY <1>6, <1>7

LEMMA TrailType ==
  ASSUME NEW p \in Predictors, NEW samples \in Seq(Samples)
  PROVE  \A i \in 1..(Len(samples) + 1) : Trail(p, samples)[i] \in Predictors
<1> DEFINE N == Len(samples)
           S == {k \in Nat : k <= N => Trail(p, samples)[k + 1] \in Predictors}
<1>1. N \in Nat
  BY LenProperties
<1>2. 0 \in S
  BY <1>1, TrailDefined DEF Trailed
<1>3. ASSUME NEW k \in Nat, k \in S PROVE k + 1 \in S
  <2>1. SUFFICES ASSUME k + 1 <= N PROVE Trail(p, samples)[(k + 1) + 1] \in Predictors
    OBVIOUS
  <2>2. /\ (k + 1) + 1 \in 1..(Len(samples) + 1) /\ (k + 1) + 1 # 1
        /\ ((k + 1) + 1) - 1 = k + 1 /\ k + 1 \in 1..Len(samples) /\ k <= N
    BY <1>1, <2>1
  <2>3. Trail(p, samples)[(k + 1) + 1] = Nibble(Trail(p, samples)[k + 1], samples[k + 1]).p
    BY <2>2, TrailDefined DEF Trailed
  <2>4. Trail(p, samples)[k + 1] \in Predictors /\ samples[k + 1] \in Samples
    BY <1>3, <2>2, ElementOfSeq
  <2>5. QED BY <2>3, <2>4, NibbleType
<1>4. \A k \in Nat : k \in S
  <2> HIDE DEF S
  <2>1. QED BY <1>2, <1>3, Induction
<1>5. TAKE i \in 1..(Len(samples) + 1)
<1>6. i - 1 \in Nat /\ (i - 1) + 1 = i /\ i - 1 <= N
  BY <1>1
<1>7. i - 1 <= N => Trail(p, samples)[(i - 1) + 1] \in Predictors
  <2>1. i - 1 \in S
    BY <1>4, <1>6
  <2>2. QED BY <2>1, Zenon
<1>8. QED BY <1>6, <1>7

-----------------------------------------------------------------------------
(* encode(). *)

Encoders == [p : Predictors, pending : Seq(Samples)]

Bytes == Codes \X Codes

\* The samples that a call has, how many pairs they are, and the encoder's trail over them.
All(e, pcm) == e.pending \o pcm

Pairs(e, pcm) == Len(All(e, pcm)) \div 2

TrailOf(e, pcm) == Trail(e.p, SubSeq(All(e, pcm), 1, 2 * Pairs(e, pcm)))

LEMMA Half ==
  ASSUME NEW n \in Nat
  PROVE  n \div 2 \in Nat /\ n \in {2 * (n \div 2), 2 * (n \div 2) + 1}
  OBVIOUS

LEMMA Begun ==
  ASSUME NEW s \in Seq(Samples), NEW n \in Nat, Len(s) \in {n, n + 1}
  PROVE  /\ SubSeq(s, 1, n) \in Seq(Samples) /\ Len(SubSeq(s, 1, n)) = n
         /\ \A i \in 1..n : SubSeq(s, 1, n)[i] = s[i]
<1>1. \A i \in 1..n : s[i] \in Samples
  BY ElementOfSeq
<1>2. QED BY <1>1, SubSeqProperties

\* What one call takes, what it puts out and what it keeps.
LEMMA EncodeParts ==
  ASSUME NEW e \in Encoders, NEW pcm \in Seq(Samples)
  PROVE  LET all == All(e, pcm)
             m   == Pairs(e, pcm)
             t   == TrailOf(e, pcm)
         IN
         /\ all \in Seq(Samples) /\ m \in Nat /\ Len(all) \in {2 * m, 2 * m + 1}
         /\ t[1] = e.p
         /\ \A i \in 1..(2 * m + 1) : t[i] \in Predictors
         /\ \A i \in 1..(2 * m) : t[i + 1] = Nibble(t[i], all[i]).p
         /\ Encode(e, pcm).bytes \in Seq(Bytes) /\ Len(Encode(e, pcm).bytes) = m
         /\ \A i \in 1..m :
              Encode(e, pcm).bytes[i] = <<Nibble(t[2 * i - 1], all[2 * i - 1]).code,
                                          Nibble(t[2 * i], all[2 * i]).code>>
         /\ Encode(e, pcm).e.p = t[2 * m + 1]
         /\ Encode(e, pcm).e.pending = SubSeq(all, 2 * m + 1, Len(all))
         /\ Encode(e, pcm).e \in Encoders
<1> DEFINE all == All(e, pcm)
           m   == Pairs(e, pcm)
           t   == TrailOf(e, pcm)
<1>1. e.p \in Predictors /\ e.pending \in Seq(Samples)
  BY DEF Encoders
<1>2. all \in Seq(Samples) /\ Len(all) \in Nat
  BY <1>1, ConcatProperties, LenProperties DEF All
<1>3. m \in Nat /\ Len(all) \in {2 * m, 2 * m + 1}
  BY <1>2, Half DEF Pairs
<1> HIDE DEF all, m, t
<1> DEFINE s == SubSeq(all, 1, 2 * m)
<1>4. s \in Seq(Samples) /\ Len(s) = 2 * m /\ \A i \in 1..(2 * m) : s[i] = all[i]
  BY <1>2, <1>3, Begun
<1> HIDE DEF s
<1>5. t = Trail(e.p, s)
  BY DEF s, t, all, m, TrailOf
<1>6. \A i \in 1..(2 * m + 1) : t[i] \in Predictors
  BY <1>1, <1>4, <1>5, TrailType
<1>7. \A i \in 1..(2 * m + 1) : t[i] = Trailed(t, e.p, s, i)
  BY <1>1, <1>4, <1>5, TrailDefined
<1>8. t[1] = e.p
  BY <1>3, <1>7 DEF Trailed
<1>9. \A i \in 1..(2 * m) : t[i + 1] = Nibble(t[i], all[i]).p
  <2>1. TAKE i \in 1..(2 * m)
  <2>2. i + 1 \in 1..(2 * m + 1) /\ i + 1 # 1 /\ (i + 1) - 1 = i
    BY <1>3
  <2>3. QED BY <1>4, <1>7, <2>2 DEF Trailed
<1> DEFINE byte(i) == <<Nibble(t[2 * i - 1], all[2 * i - 1]).code,
                        Nibble(t[2 * i], all[2 * i]).code>>
           rest == SubSeq(all, 2 * m + 1, Len(all))
<1> HIDE DEF byte, rest
<1>10. Encode(e, pcm) = [bytes |-> [i \in 1..((2 * m) \div 2) |-> byte(i)],
                         e |-> [p |-> t[2 * m + 1], pending |-> rest]]
  BY DEF Encode, byte, rest, t, all, m, TrailOf, Pairs, All
<1>11. (2 * m) \div 2 = m
  BY <1>3
<1>12. \A i \in 1..m : byte(i) \in Bytes
  <2>1. TAKE i \in 1..m
  <2>2. 2 * i - 1 \in 1..(2 * m + 1) /\ 2 * i \in 1..(2 * m + 1)
    BY <1>3
  <2>3. all[2 * i - 1] \in Samples /\ all[2 * i] \in Samples
    BY <1>2, <1>3, ElementOfSeq
  <2>4. QED BY <1>6, <2>2, <2>3, NibbleType DEF Bytes, byte
<1>13. rest \in Seq(Samples)
  <2>1. \A i \in (2 * m + 1)..Len(all) : all[i] \in Samples
    BY <1>2, <1>3, ElementOfSeq
  <2>2. 2 * m + 1 \in Int /\ Len(all) \in Int
    BY <1>2, <1>3
  <2>3. QED BY <2>1, <2>2, SubSeqProperties DEF rest
<1>14. [i \in 1..m |-> byte(i)] \in Seq(Bytes) /\ Len([i \in 1..m |-> byte(i)]) = m
  BY <1>3, <1>12
<1>15. t[2 * m + 1] \in Predictors
  BY <1>3, <1>6
<1>16. [p |-> t[2 * m + 1], pending |-> rest] \in Encoders
  BY <1>13, <1>15 DEF Encoders
<1>17. /\ Encode(e, pcm).bytes = [i \in 1..m |-> byte(i)]
       /\ Encode(e, pcm).e = [p |-> t[2 * m + 1], pending |-> rest]
  BY <1>10, <1>11
<1>18. \A i \in 1..m : Encode(e, pcm).bytes[i] = byte(i)
  BY <1>17
<1>19. Encode(e, pcm).bytes \in Seq(Bytes) /\ Len(Encode(e, pcm).bytes) = m
  BY <1>14, <1>17
<1>20. Encode(e, pcm).e.p = t[2 * m + 1] /\ Encode(e, pcm).e.pending = rest
  BY <1>17
<1>21. Encode(e, pcm).e \in Encoders
  BY <1>16, <1>17
<1>22. QED BY <1>2, <1>3, <1>6, <1>8, <1>9, <1>18, <1>19, <1>20, <1>21 DEF byte, rest, all, m, t

LEMMA FreshEncoderType == FreshEncoder \in Encoders
<1>1. Reset(0, 0) \in Predictors
  BY ResetType
<1>2. <<>> \in Seq(Samples)
  OBVIOUS
<1>3. QED BY <1>1, <1>2 DEF FreshEncoder, Encoders

-----------------------------------------------------------------------------
(* decode() of what encode() has put out. *)

\* The decoder, begun where the encoder began, is after every byte where it was.
LEMMA DecodedFollows ==
  ASSUME NEW e \in Encoders, NEW pcm \in Seq(Samples)
  PROVE  LET out == Encode(e, pcm) IN Decoded(e.p, out.bytes)[Len(out.bytes)] = out.e.p
<1> DEFINE all == All(e, pcm)
           m   == Pairs(e, pcm)
           t   == TrailOf(e, pcm)
           out == Encode(e, pcm)
           bytes == out.bytes
<1>1. /\ all \in Seq(Samples) /\ m \in Nat /\ Len(all) \in {2 * m, 2 * m + 1}
      /\ t[1] = e.p
      /\ \A i \in 1..(2 * m + 1) : t[i] \in Predictors
      /\ \A i \in 1..(2 * m) : t[i + 1] = Nibble(t[i], all[i]).p
      /\ Len(bytes) = m
      /\ \A i \in 1..m : bytes[i] = <<Nibble(t[2 * i - 1], all[2 * i - 1]).code,
                                      Nibble(t[2 * i], all[2 * i]).code>>
      /\ out.e.p = t[2 * m + 1]
  BY EncodeParts
<1> HIDE DEF all, m, t, out
\* Two codes take the decoder from where the encoder was to where it went.
<1>2. \A k \in Nat : k < m =>
        DecodeNibble(DecodeNibble(t[2 * k + 1], bytes[k + 1][1]), bytes[k + 1][2])
          = t[2 * (k + 1) + 1]
  <2>1. SUFFICES ASSUME NEW k \in Nat, k < m
                 PROVE  DecodeNibble(DecodeNibble(t[2 * k + 1], bytes[k + 1][1]),
                                     bytes[k + 1][2]) = t[2 * (k + 1) + 1]
    OBVIOUS
  <2> DEFINE i == 2 * k + 1
  <2>2. /\ i \in 1..(2 * m) /\ i + 1 \in 1..(2 * m) /\ i + 2 = 2 * (k + 1) + 1
        /\ k + 1 \in 1..m /\ 2 * (k + 1) - 1 = i /\ 2 * (k + 1) = i + 1 /\ (i + 1) + 1 = i + 2
        /\ i \in 1..(2 * m + 1) /\ i + 1 \in 1..(2 * m + 1)
        /\ i \in 1..Len(all) /\ i + 1 \in 1..Len(all)
    BY <1>1, <2>1
  <2>3. bytes[k + 1] = <<Nibble(t[i], all[i]).code, Nibble(t[i + 1], all[i + 1]).code>>
    BY <1>1, <2>2
  <2> HIDE DEF i
  <2>4. /\ t[i] \in Predictors /\ t[i + 1] \in Predictors
        /\ all[i] \in Samples /\ all[i + 1] \in Samples
    BY <1>1, <2>2, ElementOfSeq
  <2>5. DecodeNibble(t[i], Nibble(t[i], all[i]).code) = t[i + 1]
    BY <1>1, <2>2, <2>4, CodecFollows DEF Follows
  <2>6. DecodeNibble(t[i + 1], Nibble(t[i + 1], all[i + 1]).code) = t[i + 2]
    BY <1>1, <2>2, <2>4, CodecFollows DEF Follows
  <2>7. DecodeNibble(DecodeNibble(t[i], bytes[k + 1][1]), bytes[k + 1][2]) = t[i + 2]
    BY <2>3, <2>5, <2>6
  <2>8. QED BY <2>2, <2>7 DEF i
\* So its recursive definition defines it.
<1> DEFINE g == [n \in 0..m |-> t[2 * n + 1]]
           d == Decoded(e.p, bytes)
<1>3. g = [n \in 0..m |-> IF n = 0 THEN e.p
                          ELSE DecodeNibble(DecodeNibble(g[n - 1], bytes[n][1]), bytes[n][2])]
  <2>1. SUFFICES ASSUME NEW n \in 0..m
                 PROVE  g[n] = IF n = 0 THEN e.p
                               ELSE DecodeNibble(DecodeNibble(g[n - 1], bytes[n][1]), bytes[n][2])
    BY Zenon
  <2>2. CASE n = 0
    BY <1>1, <2>2
  <2>3. CASE n # 0
    <3>1. n - 1 \in Nat /\ n - 1 < m /\ n - 1 \in 0..m /\ (n - 1) + 1 = n
      BY <1>1, <2>3
    <3>2. g[n] = t[2 * n + 1] /\ g[n - 1] = t[2 * (n - 1) + 1]
      BY <3>1
    <3>3. QED BY <1>2, <2>3, <3>1, <3>2
  <2>4. QED BY <2>2, <2>3
<1> HIDE DEF g
<1>4. d = [n \in 0..m |-> IF n = 0 THEN e.p
                          ELSE DecodeNibble(DecodeNibble(d[n - 1], bytes[n][1]), bytes[n][2])]
  BY <1>1, <1>3 DEF Decoded
<1> HIDE DEF d, bytes
\* And it is the encoder's trail at every second place.
<1> DEFINE S == {n \in Nat : n <= m => d[n] = t[2 * n + 1]}
<1>5. 0 \in S
  BY <1>1, <1>4
<1>6. ASSUME NEW k \in Nat, k \in S PROVE k + 1 \in S
  <2>1. SUFFICES ASSUME k + 1 <= m PROVE d[k + 1] = t[2 * (k + 1) + 1]
    OBVIOUS
  <2>2. k < m /\ k <= m /\ k + 1 \in 0..m /\ (k + 1) - 1 = k /\ k + 1 # 0
    BY <1>1, <2>1
  <2>3. d[k + 1] = DecodeNibble(DecodeNibble(d[k], bytes[k + 1][1]), bytes[k + 1][2])
    BY <1>4, <2>2
  <2>4. d[k] = t[2 * k + 1]
    BY <1>6, <2>2
  <2>5. QED BY <1>2, <2>2, <2>3, <2>4
<1>7. m \in S
  <2> HIDE DEF S
  <2>1. QED BY <1>1, <1>5, <1>6, Induction
<1>8. d[m] = t[2 * m + 1]
  BY <1>1, <1>7
<1>9. QED BY <1>1, <1>8 DEF d, bytes, out

\* The camera's decoder and the talkback's encoder stay in step over a whole call, whatever
\* the samples (encode() and decode()).
THEOREM CodecInStep ==
  ASSUME NEW pcm \in Seq(Samples)
  PROVE  InStep(pcm)
  BY FreshEncoderType, DecodedFollows DEF InStep

-----------------------------------------------------------------------------
(* encode() of samples that are cut into calls. *)

\* What a call keeps comes first in the next, whose samples are the rest of both calls'.
LEMMA AllOfBoth ==
  ASSUME NEW e \in Encoders, NEW a \in Seq(Samples), NEW b \in Seq(Samples)
  PROVE  LET first == Encode(e, a).e
             x  == All(e, a)
             y  == All(first, b)
             z  == All(e, a \o b)
             n  == 2 * Pairs(e, a)
         IN  /\ Len(z) = n + Len(y)
             /\ \A i \in 1..n : z[i] = x[i]
             /\ \A i \in 1..Len(y) : z[n + i] = y[i]
<1> DEFINE first == Encode(e, a).e
           x == All(e, a)
           y == All(first, b)
           z == All(e, a \o b)
           n == 2 * Pairs(e, a)
<1>1. e.pending \in Seq(Samples)
  BY DEF Encoders
<1>2. z = x \o b
  <2>1. \A p \in Seq(Samples) : (p \o a) \o b = p \o (a \o b)
    BY ConcatAssociative
  <2>2. QED BY <1>1, <2>1 DEF All
<1>3. x \in Seq(Samples) /\ Len(x) \in Nat /\ n \in Nat /\ Len(x) \in {n, n + 1}
  <2>1. x \in Seq(Samples) /\ Len(x) \in Nat
    BY <1>1, ConcatProperties, LenProperties DEF All
  <2> HIDE DEF x
  <2>2. Pairs(e, a) \in Nat /\ Len(x) \in {2 * Pairs(e, a), 2 * Pairs(e, a) + 1}
    BY <2>1, Half DEF Pairs, x
  <2>3. QED BY <2>1, <2>2
<1>4. first.pending = SubSeq(x, n + 1, Len(x))
  BY EncodeParts
<1> HIDE DEF x, n, first, z
<1>5. /\ first.pending \in Seq(Samples) /\ Len(first.pending) = Len(x) - n
      /\ \A i \in 1..(Len(x) - n) : first.pending[i] = x[n + i]
  <2>1. \A i \in (n + 1)..Len(x) : x[i] \in Samples
    BY <1>3, ElementOfSeq
  <2>2. n + 1 \in Int /\ Len(x) \in Int
    BY <1>3
  <2> DEFINE r == SubSeq(x, n + 1, Len(x))
  <2>3. /\ r \in Seq(Samples) /\ Len(r) = IF n + 1 <= Len(x) THEN Len(x) - (n + 1) + 1 ELSE 0
        /\ \A i \in 1..(Len(x) - (n + 1) + 1) : r[i] = x[(n + 1) + i - 1]
    BY <2>1, <2>2, SubSeqProperties
  <2>4. r = first.pending
    BY <1>4
  <2> HIDE DEF r
  <2>5. Len(r) = Len(x) - n
    BY <1>3, <2>3
  <2>6. ASSUME NEW i \in 1..(Len(x) - n) PROVE r[i] = x[n + i]
    <3>1. i \in 1..(Len(x) - (n + 1) + 1) /\ (n + 1) + i - 1 = n + i
      BY <1>3
    <3>2. QED BY <2>3, <3>1
  <2>7. QED BY <2>3, <2>4, <2>5, <2>6
<1>6. /\ Len(y) = Len(first.pending) + Len(b) /\ Len(b) \in Nat
      /\ \A i \in 1..(Len(first.pending) + Len(b)) :
           y[i] = IF i <= Len(first.pending) THEN first.pending[i] ELSE b[i - Len(first.pending)]
  BY <1>5, ConcatProperties, LenProperties DEF All
<1>7. /\ Len(z) = Len(x) + Len(b)
      /\ \A i \in 1..(Len(x) + Len(b)) : z[i] = IF i <= Len(x) THEN x[i] ELSE b[i - Len(x)]
  BY <1>2, <1>3, ConcatProperties
<1> HIDE DEF y
<1>8. Len(z) = n + Len(y)
  BY <1>3, <1>5, <1>6, <1>7
<1>9. \A i \in 1..n : z[i] = x[i]
  BY <1>3, <1>6, <1>7
<1>10. ASSUME NEW i \in 1..Len(y) PROVE z[n + i] = y[i]
  <2>1. n + i \in 1..(Len(x) + Len(b)) /\ i \in 1..(Len(first.pending) + Len(b))
    BY <1>3, <1>5, <1>6
  <2>2. CASE i <= Len(x) - n
    <3>1. n + i <= Len(x) /\ i \in 1..(Len(x) - n) /\ i <= Len(first.pending)
      BY <1>3, <1>5, <2>1, <2>2
    <3>2. z[n + i] = x[n + i]
      BY <1>7, <2>1, <3>1
    <3>3. y[i] = first.pending[i]
      BY <1>6, <2>1, <3>1
    <3>4. QED BY <1>5, <3>1, <3>2, <3>3
  <2>3. CASE ~(i <= Len(x) - n)
    <3>1. z[n + i] = b[n + i - Len(x)]
      BY <1>3, <1>6, <1>7, <2>1, <2>3
    <3>2. y[i] = b[i - (Len(x) - n)]
      BY <1>3, <1>5, <1>6, <2>1, <2>3
    <3>3. n + i - Len(x) = i - (Len(x) - n)
      BY <1>3, <1>6
    <3>4. QED BY <3>1, <3>2, <3>3
  <2>4. QED BY <2>2, <2>3
<1>11. QED BY <1>8, <1>9, <1>10 DEF x, y, z, n, first

\* The trail over all the samples is the first call's, and then the second's.
LEMMA TrailOfBoth ==
  ASSUME NEW e \in Encoders, NEW a \in Seq(Samples), NEW b \in Seq(Samples)
  PROVE  LET first == Encode(e, a).e
             n == 2 * Pairs(e, a)
             m == 2 * Pairs(first, b)
         IN  /\ \A i \in 1..(n + 1) : TrailOf(e, a)[i] = TrailOf(e, a \o b)[i]
             /\ \A i \in 1..(m + 1) : TrailOf(first, b)[i] = TrailOf(e, a \o b)[n + i]
             /\ Pairs(e, a \o b) = Pairs(e, a) + Pairs(first, b)
<1> DEFINE first == Encode(e, a).e
           x == All(e, a)
           y == All(first, b)
           z == All(e, a \o b)
           j == Pairs(e, a)
           k == Pairs(first, b)
           l == Pairs(e, a \o b)
           u == TrailOf(e, a)
           v == TrailOf(first, b)
           w == TrailOf(e, a \o b)
<1>1. /\ x \in Seq(Samples) /\ j \in Nat /\ Len(x) \in {2 * j, 2 * j + 1}
      /\ u[1] = e.p /\ u[2 * j + 1] = first.p
      /\ \A i \in 1..(2 * j) : u[i + 1] = Nibble(u[i], x[i]).p
      /\ first \in Encoders
  BY EncodeParts
<1> HIDE DEF first
<1>2. a \o b \in Seq(Samples)
  BY ConcatProperties
<1>3. /\ y \in Seq(Samples) /\ k \in Nat /\ Len(y) \in {2 * k, 2 * k + 1}
      /\ v[1] = first.p
      /\ \A i \in 1..(2 * k) : v[i + 1] = Nibble(v[i], y[i]).p
  BY <1>1, EncodeParts
<1> DEFINE c == a \o b
<1> HIDE DEF c
<1>4. /\ z \in Seq(Samples) /\ l \in Nat /\ Len(z) \in {2 * l, 2 * l + 1}
      /\ w[1] = e.p
      /\ \A i \in 1..(2 * l) : w[i + 1] = Nibble(w[i], z[i]).p
  <2>1. c \in Seq(Samples)
    BY <1>2 DEF c
  <2> DEFINE zz == All(e, c)
             ll == Pairs(e, c)
             ww == TrailOf(e, c)
  <2>2. /\ zz \in Seq(Samples) /\ ll \in Nat /\ Len(zz) \in {2 * ll, 2 * ll + 1}
        /\ ww[1] = e.p
        /\ \A i \in 1..(2 * ll) : ww[i + 1] = Nibble(ww[i], zz[i]).p
    BY <2>1, EncodeParts
  <2>3. QED BY <2>2 DEF c
<1>5. /\ Len(z) = 2 * j + Len(y)
      /\ \A i \in 1..(2 * j) : z[i] = x[i]
      /\ \A i \in 1..Len(y) : z[2 * j + i] = y[i]
  BY AllOfBoth DEF first
<1> HIDE DEF x, y, z, j, k, l, u, v, w
<1>6. l = j + k
  <2>1. Len(y) \in Nat
    BY <1>3, LenProperties
  <2>2. QED BY <1>1, <1>3, <1>4, <1>5, <2>1
<1>7. \A i \in 1..(2 * j + 1) : u[i] = w[i]
  <2> DEFINE s == SubSeq(x, 1, 2 * j)
  <2>1. s \in Seq(Samples) /\ Len(s) = 2 * j /\ \A i \in 1..(2 * j) : s[i] = x[i]
    BY <1>1, Begun
  <2>2. u = Trail(e.p, s)
    BY DEF u, x, j, TrailOf
  <2> HIDE DEF s
  <2>3. ASSUME NEW i \in 1..Len(s) PROVE w[i + 1] = Nibble(w[i], s[i]).p
    <3>1. i \in 1..(2 * j) /\ i \in 1..(2 * l)
      BY <1>1, <1>3, <1>6, <2>1
    <3>2. QED BY <1>4, <1>5, <2>1, <3>1
  <2>4. e.p \in Predictors
    BY DEF Encoders
  <2>5. \A i \in 1..(Len(s) + 1) : Trail(e.p, s)[i] = w[i]
    BY <1>4, <2>1, <2>3, <2>4, TrailIs
  <2>6. QED BY <2>1, <2>2, <2>5
<1>8. \A i \in 1..(2 * k + 1) : v[i] = w[2 * j + i]
  <2> DEFINE s == SubSeq(y, 1, 2 * k)
             g == [i \in 1..(2 * k + 1) |-> w[2 * j + i]]
  <2>1. s \in Seq(Samples) /\ Len(s) = 2 * k /\ \A i \in 1..(2 * k) : s[i] = y[i]
    BY <1>3, Begun
  <2>2. v = Trail(first.p, s)
    BY DEF v, y, k, TrailOf
  <2> HIDE DEF s
  <2>3. ASSUME NEW i \in 1..Len(s) PROVE g[i + 1] = Nibble(g[i], s[i]).p
    <3>1. /\ i \in 1..(2 * k) /\ i \in 1..Len(y) /\ 2 * j + i \in 1..(2 * l)
          /\ (2 * j + i) + 1 = 2 * j + (i + 1)
          /\ i \in 1..(2 * k + 1) /\ i + 1 \in 1..(2 * k + 1)
      BY <1>1, <1>3, <1>6, <2>1
    <3>2. w[(2 * j + i) + 1] = Nibble(w[2 * j + i], z[2 * j + i]).p
      BY <1>4, <3>1
    <3>3. z[2 * j + i] = s[i]
      BY <1>5, <2>1, <3>1
    <3>4. g[i] = w[2 * j + i] /\ g[i + 1] = w[(2 * j + i) + 1]
      BY <3>1
    <3>5. QED BY <3>2, <3>3, <3>4
  <2>4. first.p \in Predictors
    BY <1>1 DEF Encoders
  <2>5. g[1] = first.p
    <3>1. g[1] = w[2 * j + 1] /\ 2 * j + 1 \in 1..(2 * j + 1)
      BY <1>1, <1>3
    <3>2. QED BY <1>1, <1>7, <3>1
  <2> HIDE DEF g
  <2>6. \A i \in 1..(Len(s) + 1) : Trail(first.p, s)[i] = g[i]
    BY <2>1, <2>3, <2>4, <2>5, TrailIs
  <2>7. QED BY <2>1, <2>2, <2>6 DEF g
<1>9. QED BY <1>6, <1>7, <1>8 DEF j, k, l, u, v, w, first

LEMMA OneOf ==
  ASSUME NEW s \in Seq(Samples), NEW n \in Nat \ {0}, n = Len(s)
  PROVE  SubSeq(s, n, n) = <<s[n]>>
<1> DEFINE r == SubSeq(s, n, n)
           o == <<s[n]>>
<1>1. s[n] \in Samples
  BY ElementOfSeq
<1>2. r \in Seq(Samples) /\ Len(r) = 1 /\ \A i \in 1..1 : r[i] = s[n + i - 1]
  BY <1>1, SubSeqProperties
<1>3. o \in Seq(Samples) /\ Len(o) = 1 /\ o[1] = s[n]
  BY <1>1
<1> HIDE DEF r, o
<1>4. r[1] = s[n]
  BY <1>2
<1>5. \A i \in 1..Len(r) : r[i] = o[i]
  BY <1>2, <1>3, <1>4
<1>6. r = o
  BY <1>2, <1>3, <1>5, SeqEqual
<1>7. QED BY <1>6 DEF r, o

LEMMA EncoderEqual ==
  ASSUME NEW d \in Encoders, NEW e \in Encoders, d.p = e.p, d.pending = e.pending
  PROVE  d = e
  BY DEF Encoders

\* Two calls put out what one does, and leave the encoder as it does.
LEMMA EncodedBoth ==
  ASSUME NEW e \in Encoders, NEW a \in Seq(Samples), NEW b \in Seq(Samples)
  PROVE  LET first  == Encode(e, a)
             second == Encode(first.e, b)
             whole  == Encode(e, a \o b)
         IN  first.bytes \o second.bytes = whole.bytes /\ second.e = whole.e
<1> DEFINE c == a \o b
           first == Encode(e, a)
           second == Encode(first.e, b)
           whole == Encode(e, c)
           x == All(e, a)
           y == All(first.e, b)
           z == All(e, c)
           j == Pairs(e, a)
           k == Pairs(first.e, b)
           l == Pairs(e, c)
           u == TrailOf(e, a)
           v == TrailOf(first.e, b)
           w == TrailOf(e, c)
<1>1. c \in Seq(Samples)
  BY ConcatProperties
<1>2. /\ Len(z) = 2 * j + Len(y)
      /\ \A i \in 1..(2 * j) : z[i] = x[i]
      /\ \A i \in 1..Len(y) : z[2 * j + i] = y[i]
  BY AllOfBoth
<1>3. /\ \A i \in 1..(2 * j + 1) : u[i] = w[i]
      /\ \A i \in 1..(2 * k + 1) : v[i] = w[2 * j + i]
      /\ l = j + k
  BY TrailOfBoth
<1> HIDE DEF c
<1>4. /\ j \in Nat
      /\ first.bytes \in Seq(Bytes) /\ Len(first.bytes) = j
      /\ \A i \in 1..j : first.bytes[i] = <<Nibble(u[2 * i - 1], x[2 * i - 1]).code,
                                            Nibble(u[2 * i], x[2 * i]).code>>
      /\ first.e \in Encoders
  BY EncodeParts
<1> HIDE DEF first
<1>5. /\ y \in Seq(Samples) /\ k \in Nat /\ Len(y) \in {2 * k, 2 * k + 1}
      /\ second.bytes \in Seq(Bytes) /\ Len(second.bytes) = k
      /\ \A i \in 1..k : second.bytes[i] = <<Nibble(v[2 * i - 1], y[2 * i - 1]).code,
                                             Nibble(v[2 * i], y[2 * i]).code>>
      /\ second.e.p = v[2 * k + 1]
      /\ second.e.pending = SubSeq(y, 2 * k + 1, Len(y))
      /\ second.e \in Encoders
  BY <1>4, EncodeParts
<1>6. /\ z \in Seq(Samples) /\ l \in Nat
      /\ whole.bytes \in Seq(Bytes) /\ Len(whole.bytes) = l
      /\ \A i \in 1..l : whole.bytes[i] = <<Nibble(w[2 * i - 1], z[2 * i - 1]).code,
                                            Nibble(w[2 * i], z[2 * i]).code>>
      /\ whole.e.p = w[2 * l + 1]
      /\ whole.e.pending = SubSeq(z, 2 * l + 1, Len(z))
      /\ whole.e \in Encoders
  BY <1>1, EncodeParts
<1> HIDE DEF second, whole, x, y, z, j, k, l, u, v, w
<1>7. /\ j \in Nat /\ k \in Nat /\ l = j + k
       /\ Len(y) \in {2 * k, 2 * k + 1} /\ Len(z) = 2 * j + Len(y)
  BY <1>2, <1>3, <1>4, <1>5
<1>8. first.bytes \o second.bytes = whole.bytes
  <2> DEFINE f == first.bytes
             s == second.bytes
             h == whole.bytes
  <2>1. f \in Seq(Bytes) /\ s \in Seq(Bytes) /\ h \in Seq(Bytes)
    BY <1>4, <1>5, <1>6
  <2>2. Len(f) = j /\ Len(s) = k /\ Len(h) = j + k
    BY <1>3, <1>4, <1>5, <1>6
  <2>3. ASSUME NEW i \in 1..(j + k) PROVE h[i] = IF i <= j THEN f[i] ELSE s[i - j]
    <3>1. h[i] = <<Nibble(w[2 * i - 1], z[2 * i - 1]).code, Nibble(w[2 * i], z[2 * i]).code>>
      BY <1>3, <1>6
    <3>2. CASE i <= j
      <4>1. i \in 1..j /\ 2 * i - 1 \in 1..(2 * j) /\ 2 * i \in 1..(2 * j)
        BY <1>4, <3>2
      <4>2. 2 * i - 1 \in 1..(2 * j + 1) /\ 2 * i \in 1..(2 * j + 1)
        BY <1>4, <4>1
      <4>3. f[i] = <<Nibble(u[2 * i - 1], x[2 * i - 1]).code, Nibble(u[2 * i], x[2 * i]).code>>
        BY <1>4, <4>1
      <4>4. /\ u[2 * i - 1] = w[2 * i - 1] /\ u[2 * i] = w[2 * i]
            /\ z[2 * i - 1] = x[2 * i - 1] /\ z[2 * i] = x[2 * i]
        BY <1>2, <1>3, <4>1, <4>2
      <4>5. QED BY <3>1, <3>2, <4>3, <4>4
    <3>3. CASE ~(i <= j)
      <4> DEFINE n == i - j
      <4>1. /\ n \in 1..k /\ 2 * n - 1 \in 1..(2 * k + 1) /\ 2 * n \in 1..(2 * k + 1)
            /\ 2 * n - 1 \in 1..Len(y) /\ 2 * n \in 1..Len(y)
            /\ 2 * j + (2 * n - 1) = 2 * i - 1 /\ 2 * j + 2 * n = 2 * i
        BY <1>7, <3>3
      <4> HIDE DEF n
      <4>2. s[n] = <<Nibble(v[2 * n - 1], y[2 * n - 1]).code, Nibble(v[2 * n], y[2 * n]).code>>
        BY <1>5, <4>1
      <4>3. /\ v[2 * n - 1] = w[2 * i - 1] /\ v[2 * n] = w[2 * i]
            /\ z[2 * i - 1] = y[2 * n - 1] /\ z[2 * i] = y[2 * n]
        BY <1>2, <1>3, <4>1
      <4>4. QED BY <3>1, <3>3, <4>2, <4>3 DEF n
    <3>4. QED BY <3>2, <3>3
  <2> HIDE DEF f, s, h
  <2>4. f \o s = h
    <3> DEFINE r == f \o s
    <3>1. /\ r \in Seq(Bytes) /\ Len(r) = j + k
          /\ \A i \in 1..(j + k) : r[i] = IF i <= j THEN f[i] ELSE s[i - j]
      BY <2>1, <2>2, ConcatProperties
    <3> HIDE DEF r
    <3>2. \A i \in 1..Len(r) : r[i] = h[i]
      BY <2>3, <3>1
    <3>3. r = h
      BY <2>1, <2>2, <3>1, <3>2, SeqEqual
    <3>4. QED BY <3>3 DEF r
  <2>5. QED BY <2>4 DEF f, s, h
<1>9. second.e = whole.e
  <2>1. second.e.p = whole.e.p
    <3>1. 2 * k + 1 \in 1..(2 * k + 1) /\ 2 * j + (2 * k + 1) = 2 * l + 1
      BY <1>7
    <3>2. QED BY <1>3, <1>5, <1>6, <3>1
  <2>2. second.e.pending = whole.e.pending
    <3>1. Len(z) \in {2 * l, 2 * l + 1} /\ Len(z) - 2 * l = Len(y) - 2 * k
      BY <1>7
    <3>2. CASE Len(y) = 2 * k
      BY <1>4, <1>5, <1>6, <3>1, <3>2, SubSeqEmpty
    <3>3. CASE Len(y) = 2 * k + 1
      <4>1. Len(z) = 2 * l + 1 /\ 2 * j + (2 * k + 1) = 2 * l + 1 /\ 2 * k + 1 \in 1..Len(y)
        BY <1>3, <1>4, <1>5, <1>6, <3>1, <3>3
      <4>2. z[2 * l + 1] = y[2 * k + 1]
        BY <1>2, <4>1
      <4>3. SubSeq(y, 2 * k + 1, 2 * k + 1) = <<y[2 * k + 1]>>
        BY <1>5, <3>3, OneOf
      <4>4. SubSeq(z, 2 * l + 1, 2 * l + 1) = <<z[2 * l + 1]>>
        BY <1>6, <4>1, OneOf
      <4>5. QED BY <1>5, <1>6, <3>3, <4>1, <4>2, <4>3, <4>4
    <3>4. QED BY <1>5, <3>2, <3>3
  <2>3. QED BY <1>5, <1>6, <2>1, <2>2, EncoderEqual
<1>10. QED BY <1>8, <1>9 DEF first, second, whole, c

\* How the samples are cut into calls makes no difference to the bytes, nor to what is
\* encoded next, whatever the samples and wherever the cut (encode()).
THEOREM CodecCutFree ==
  ASSUME NEW a \in Seq(Samples), NEW b \in Seq(Samples)
  PROVE  CutFree(a, b)
  BY FreshEncoderType, EncodedBoth DEF CutFree
================================================================================
