--------------------------- MODULE MCPlaybackClient ---------------------------
\* One synthesis of two chunks, the second of which the client does not want to hear.
EXTENDS PlaybackClient

TwoChunks == <<2>>
=============================================================================
