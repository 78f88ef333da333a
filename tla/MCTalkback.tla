------------------------------ MODULE MCTalkback ------------------------------
(* A small instance of Talkback: a file of several chunks that does not fill what is  *)
(* sent at once, and pieces of talk that leave something in the buffers.  With it, the *)
(* codec whose bytes are talked, at all steps and at predictors and samples that clamp. *)
EXTENDS Talkback, ImaAdpcm

MCPreds   == {-32768, -32767, -900, 0, 1, 5000, 32767}
MCSamples == {-32768, -1000, -3, -1, 0, 1, 2, 6, 7, 8, 100, 4096, 32767}
MCPcm     == UNION {[1..n -> {-32768, -5, 0, 3000}] : n \in 0..3}

\* The codec's two halves agree, and samples in reach are met.
ASSUME CodecAgrees ==
  \A pred \in MCPreds, index \in Indexes, sample \in MCSamples :
    Follows(Reset(pred, index), sample) /\ Near(Reset(pred, index), sample)

\* The bytes do not depend on how the samples are cut, and the decoder follows them.
ASSUME CodecCuts ==
  \A a, b \in MCPcm : CutFree(a, b) /\ InStep(a \o b)
=============================================================================
