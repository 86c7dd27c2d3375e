----------------------------- MODULE Timestamps -----------------------------
(***************************************************************************)
(* The key of the processing map on its way through the decoder.  A frame  *)
(* goes in with a timestamp in microseconds, computed in floating point    *)
(* from its presentation time and cut to an integer by EncodedVideoChunk;  *)
(* the output callback computes the presentation time back from it and     *)
(* looks the frame up (Player.decodeFrames).                               *)
(***************************************************************************)
EXTENDS Integers

CONSTANTS
  Timescale,     \* units of presentation time in a second
  Second         \* units of the decoder's timestamps in a second: 1000000

\* Two units of the decoder's clock in one of the track's.
ASSUME TimestampsAssumption ==
  /\ Timescale \in Nat \ {0} /\ Second \in Nat
  /\ 2 * Timescale < Second

\* (pts / timescale) * Second, cut to an integer: when the exact value is an
\* integer, the floating point one may fall just short of it.
Truncations(pts) ==
  {q \in (pts * Second) \div Timescale - 1 .. (pts * Second) \div Timescale :
     q * Timescale <= pts * Second /\ pts * Second <= (q + 1) * Timescale}

\* A mistake: the fraction is cut off.
RoundDown(n, d) == n \div d

\* Math.round(n / d).
Round(n, d) == (2 * n + d) \div (2 * d)

\* What the output callback looks up.
Key(timestamp) == Round(timestamp * Timescale, Second)
=============================================================================
