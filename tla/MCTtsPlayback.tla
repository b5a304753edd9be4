---------------------------- MODULE MCTtsPlayback ----------------------------
\* Two syntheses: one that outgrows its buffer after a chunk was taken, and a short one.
EXTENDS TtsPlayback

ThreeAndOne == <<3, 1>>
=============================================================================
