------------------------------- MODULE MCCodec -------------------------------
EXTENDS Codec

EverySample == -32768..32767
=============================================================================
