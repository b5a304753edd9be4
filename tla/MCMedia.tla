------------------------------- MODULE MCMedia -------------------------------
\* The leaves of the media path, one at a time, for they share nothing: a sample or a stream
\* of packets through the codec, or the tracks and closers of a call on one scorer.
EXTENDS NativeScorer, MCCodec

CONSTANTS t1, t2, k1, k2

Tracks == {t1, t2}
Streams == {k1, k2}

VARIABLE leaf

MediaInit ==
    /\ Init /\ CodecInit
    /\ leaf \in {"codec", "scorer"}
    /\ leaf = "scorer" => path = "packets"

MediaNext ==
    \/ leaf = "codec" /\ CodecNext /\ UNCHANGED <<vars, leaf>>
    \/ leaf = "scorer" /\ Next /\ UNCHANGED <<codecVars, leaf>>

MediaSpec == MediaInit /\ [][MediaNext]_<<vars, codecVars, leaf>>
=============================================================================
