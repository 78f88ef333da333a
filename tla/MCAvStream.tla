------------------------------- MODULE MCAvStream ------------------------------
(* A small instance of AvStream: the encoder is stuck after two identical pictures;      *)
(* between and behind them are three ADPCM frames, the last two of less than a unit.  A  *)
(* payload of an old session is as long as a header, and as what the first of the three  *)
(* can lack, or longer.                                                                  *)
EXTENDS AvStream

Frame(k, n, p) == [kind |-> k, size |-> n, picture |-> p]

MCScript == <<Frame("video", 1, 1), Frame("adpcm", 2, 0), Frame("video", 1, 1),
              Frame("adpcm", 1, 0), Frame("adpcm", 1, 0)>>
================================================================================
