-------------------------------- MODULE ImaAdpcm -------------------------------
(***************************************************************************)
(* The ADPCM codec of ima_adpcm.py: the talkback's encoder and the decoder *)
(* of the camera's audio.  Either keeps a predictor, and no header says    *)
(* where it stands: they agree only while each moves exactly as the other  *)
(* does.                                                                   *)
(*                                                                         *)
(* A sample is a number of 16 bits, a byte is a pair of codes of 4 bits,   *)
(* the low one first.                                                      *)
(***************************************************************************)
EXTENDS Integers, Sequences

STEP_TABLE ==
  <<7, 8, 9, 10, 11, 12, 13, 14, 16, 17, 19, 21, 23, 25, 28, 31, 34, 37, 41, 45, 50, 55, 60,
    66, 73, 80, 88, 97, 107, 118, 130, 143, 157, 173, 190, 209, 230, 253, 279, 307, 337, 371,
    408, 449, 494, 544, 598, 658, 724, 796, 876, 963, 1060, 1166, 1282, 1411, 1552, 1707,
    1878, 2066, 2272, 2499, 2749, 3024, 3327, 3660, 4026, 4428, 4871, 5358, 5894, 6484, 7132,
    7845, 8630, 9493, 10442, 11487, 12635, 13899, 15289, 16818, 18500, 20350, 22385, 24623,
    27086, 29794, 32767>>

INDEX_TABLE == <<-1, -1, -1, -1, 2, 4, 6, 8>>

Samples == (-32768)..32767
Indexes == 0..88
Codes   == 0..15

Predictors == [pred : Samples, index : Indexes]

\* min and max around a value.
Clamp(low, high, x) == IF x < low THEN low ELSE IF x > high THEN high ELSE x

\* reset(): what a header says is clamped.
Reset(pred, index) == [pred |-> Clamp(-32768, 32767, pred), index |-> Clamp(0, 88, index)]

Step(p) == STEP_TABLE[p.index + 1]

\* The predictor moves by diff, down or up, and its index as the code's size says.
Moved(p, down, diff, size) ==
  Reset(IF down THEN p.pred - diff ELSE p.pred + diff, p.index + INDEX_TABLE[size + 1])

When(b, x) == IF b THEN x ELSE 0

\* ImaAdpcmDecoder.decode() of one code.
DecodeNibble(p, code) ==
  LET step == Step(p)
      diff == (step \div 8) + When(code % 2 = 1, step \div 4)
                + When((code \div 2) % 2 = 1, step \div 2) + When((code \div 4) % 2 = 1, step)
  IN  Moved(p, code >= 8, diff, code % 8)

\* ImaAdpcmEncoder._nibble(): what the sample differs by is measured in steps, half steps
\* and quarters of a step.
Nibble(p, sample) ==
  LET step == Step(p)
      down == sample < p.pred
      diff == IF down THEN p.pred - sample ELSE sample - p.pred
      b4   == diff >= step
      d2   == diff - When(b4, step)
      b2   == d2 >= step \div 2
      d1   == d2 - When(b2, step \div 2)
      b1   == d1 >= step \div 4
      size == When(b4, 4) + When(b2, 2) + When(b1, 1)
      vp   == (step \div 8) + When(b4, step) + When(b2, step \div 2) + When(b1, step \div 4)
  IN  [code |-> When(down, 8) + size, p |-> Moved(p, down, vp, size)]

\* The encoder's predictor before each of the samples, and after the last.
Trail(p, samples) ==
  LET trail[i \in 1..(Len(samples) + 1)] ==
        IF i = 1 THEN p ELSE Nibble(trail[i - 1], samples[i - 1]).p
  IN  trail

\* encode(): as many bytes as there are pairs; an odd sample waits for the next call.
Encode(e, pcm) ==
  LET all   == e.pending \o pcm
      n     == 2 * (Len(all) \div 2)
      trail == Trail(e.p, SubSeq(all, 1, n))
  IN  [bytes |-> [i \in 1..(n \div 2) |->
                    <<Nibble(trail[2 * i - 1], all[2 * i - 1]).code,
                      Nibble(trail[2 * i], all[2 * i]).code>>],
       e |-> [p |-> trail[n + 1], pending |-> SubSeq(all, n + 1, Len(all))]]

FreshEncoder == [p |-> Reset(0, 0), pending |-> <<>>]

\* The decoder's predictor after n bytes.
Decoded(p, bytes) ==
  LET after[n \in 0..Len(bytes)] ==
        IF n = 0 THEN p
        ELSE DecodeNibble(DecodeNibble(after[n - 1], bytes[n][1]), bytes[n][2])
  IN  after

-----------------------------------------------------------------------------
(* What the codec is for. *)

\* The decoder that is told the encoder's code moves as the encoder has moved.
Follows(p, sample) == DecodeNibble(p, Nibble(p, sample).code) = Nibble(p, sample).p

Distance(a, b) == IF a < b THEN b - a ELSE a - b

\* A sample that is less than two steps away is met up to an eighth of a step, and what the
\* divisions round off.
Near(p, sample) ==
  Distance(sample, p.pred) < 2 * Step(p) =>
    Distance(sample, Nibble(p, sample).p.pred) <= (Step(p) \div 8) + 2

\* How the samples are cut into calls makes no difference to the bytes.
CutFree(a, b) ==
  LET first  == Encode(FreshEncoder, a)
      second == Encode(first.e, b)
      whole  == Encode(FreshEncoder, a \o b)
  IN  first.bytes \o second.bytes = whole.bytes /\ second.e = whole.e

\* After every byte the decoder stands where the encoder stood.
InStep(pcm) ==
  LET out == Encode(FreshEncoder, pcm) IN
  Decoded(FreshEncoder.p, out.bytes)[Len(out.bytes)] = out.e.p
================================================================================
