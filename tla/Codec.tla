-------------------------------- MODULE Codec --------------------------------
(***************************************************************************)
(* The G.711 codecs of a WebRTC call: a sample on its way out, encoded to a  *)
(* byte and decoded again by a peer that uses the same tables, and packets    *)
(* on their way in, resampled one by one. Bytes and samples are their         *)
(* numbers, the shifts and masks of the code are \div and %.                  *)
(***************************************************************************)
EXTENDS Integers, Sequences

CONSTANTS
    Samples,    \* the 16-bit samples to send
    MaxPackets, \* bound: packets of a stream
    MaxSize     \* bound: samples of a packet

ASSUME CodecAssumption ==
    Samples \subseteq -32768..32767 /\ MaxPackets \in Nat /\ MaxSize \in Nat

VARIABLES
    path,     \* the sample's place on its way, or "packets"
    law,      \* the codec: "PCMU" or "PCMA"
    sample, byte, back,   \* the sample, its code and what the peer hears
    packets,  \* sizes of the packets received so far
    out       \* what the resampler made of them

codecVars == <<path, law, sample, byte, back, packets, out>>

Least(a, b) == IF a < b THEN a ELSE b
Magnitude(x) == IF x < 0 THEN -x ELSE x

-----------------------------------------------------------------------------
(* u-law *)

Bias == 132
Clip == 32635

\* The place of the highest bit of a biased sample, which has 15 bits.
Exponent(pcm) == CHOOSE e \in 0..7 : 2^(e + 7) <= pcm /\ pcm < 2^(e + 8)

\* A faulty variant: the mantissa is taken without the bias.
linearToMuLawUnbiased(x) ==
    LET pcm == Least(Magnitude(x), Clip)
        e   == Exponent(pcm + Bias)
        m   == (pcm \div 2^(e + 3)) % 16
    IN  255 - ((IF x < 0 THEN 128 ELSE 0) + (e * 16) + m)

linearToMuLaw(x) ==
    LET pcm == Least(Magnitude(x), Clip) + Bias
        e   == Exponent(pcm)
        m   == (pcm \div 2^(e + 3)) % 16
    IN  255 - ((IF x < 0 THEN 128 ELSE 0) + (e * 16) + m)

muLawToLinear(b) ==
    LET v   == 255 - b
        e   == (v \div 16) % 8
        pcm == ((v % 16) * 8 + Bias) * 2^e - Bias
    IN  IF v >= 128 THEN -pcm ELSE pcm

-----------------------------------------------------------------------------
(* A-law *)

\* XOR with 0x55, which inverts the bits 0, 2, 4 and 6.
Toggle(v) ==
    LET Flip(k) == (1 - 2 * ((v \div 2^k) % 2)) * 2^k
    IN  v + Flip(0) + Flip(2) + Flip(4) + Flip(6)

aLawSegment(pcm) ==
    IF pcm <= 31 * 2^7 THEN CHOOSE s \in 0..7 : /\ pcm <= 31 * 2^s
                                                /\ \A r \in 0..(s - 1) : pcm > 31 * 2^r
    ELSE 8

\* A faulty variant: the negative samples next to zero are not raised to it.
linearToALawUnraised(x) ==
    LET pcm == IF x >= 0 THEN x ELSE -x - 8
        s   == aLawSegment(pcm)
        low == IF s = 8 THEN 127
               ELSE s * 16 + ((pcm \div 2^(IF s < 2 THEN 4 ELSE s + 3)) % 16)
    IN  Toggle(low + (IF x < 0 THEN 0 ELSE 128))

linearToALaw(x) ==
    LET pcm == IF x >= 0 THEN x ELSE IF x > -8 THEN 0 ELSE -x - 8
        s   == aLawSegment(pcm)
        low == IF s = 8 THEN 127
               ELSE s * 16 + ((pcm \div 2^(IF s < 2 THEN 4 ELSE s + 3)) % 16)
    IN  Toggle(low + (IF x < 0 THEN 0 ELSE 128))

aLawToLinear(b) ==
    LET v == Toggle(b)
        t == (v % 16) * 16
        s == (v \div 16) % 8
        pcm == IF s = 0 THEN t + 8 ELSE (t + 264) * 2^(s - 1)
    IN  IF v < 128 THEN -pcm ELSE pcm

-----------------------------------------------------------------------------
(* Resampling *)

SourceRate == 8000
TargetRate == 16000

\* A faulty variant: the source index counts the sample that is being made.
ResampleAhead(in) ==
    LET n == Len(in)
        made == (n * TargetRate) \div SourceRate
    IN  [i \in 1..made |-> in[Least((i * SourceRate) \div TargetRate, n - 1) + 1]]

\* ResamplePCM16LE at the rates of a call: the nearest earlier sample, repeated.
Resample(in) ==
    LET n == Len(in)
        made == (n * TargetRate) \div SourceRate
    IN  [i \in 1..(IF made > 0 THEN made ELSE n) |->
            in[Least(((i - 1) * SourceRate) \div TargetRate, n - 1) + 1]]

-----------------------------------------------------------------------------
CodecInit ==
    /\ \/ path = "pcm" /\ law \in {"PCMU", "PCMA"} /\ sample \in Samples
       \/ path = "packets" /\ law = "PCMU" /\ sample = 0
    /\ byte = 0 /\ back = 0
    /\ packets = <<>> /\ out = <<>>

Encode ==
    /\ path = "pcm" /\ path' = "byte"
    /\ byte' = IF law = "PCMU" THEN linearToMuLaw(sample) ELSE linearToALaw(sample)
    /\ UNCHANGED <<law, sample, back, packets, out>>

Decode ==
    /\ path = "byte" /\ path' = "heard"
    /\ back' = IF law = "PCMU" THEN muLawToLinear(byte) ELSE aLawToLinear(byte)
    /\ UNCHANGED <<law, sample, byte, packets, out>>

\* The samples a stream has brought are numbered.
Received == IF packets = <<>> THEN 0 ELSE packets[Len(packets)].last

Normalize ==
    /\ path = "packets" /\ Len(packets) < MaxPackets
    /\ \E size \in 1..MaxSize :
           /\ packets' = Append(packets, [first |-> Received + 1, last |-> Received + size])
           /\ out' = out \o Resample([i \in 1..size |-> Received + i])
    /\ UNCHANGED <<path, law, sample, byte, back>>

CodecNext == Encode \/ Decode \/ Normalize

CodecSpec == CodecInit /\ [][CodecNext]_codecVars

-----------------------------------------------------------------------------
(* Properties *)

\* What a PCMU peer hears is within half a quantisation step of the sample, for every
\* 16-bit sample; only the loudest are clipped (G.711, pcmu.go:1).
MuLawWithinHalfStep ==
    path = "heard" /\ law = "PCMU" =>
        LET clipped == IF Magnitude(sample) <= Clip THEN sample
                       ELSE IF sample < 0 THEN -Clip ELSE Clip
            e == ((255 - byte) \div 16) % 8
        IN  /\ byte \in 0..255
            /\ Magnitude(back - clipped) <= 2^(e + 2)

\* Neither codec changes the order of samples: of two neighbours the greater is not heard
\* as the lesser, across segments and across zero.
OrderIsKept ==
    path = "heard" /\ sample < 32767 =>
        IF law = "PCMU" THEN back <= muLawToLinear(linearToMuLaw(sample + 1))
        ELSE back <= aLawToLinear(linearToALaw(sample + 1))

\* Packets leave no seam: resampled one by one, every sample is heard twice and in order,
\* with none skipped, repeated more or read past the end of its packet.
Seamless == out = [i \in 1..(2 * Received) |-> (i + 1) \div 2]

\* pcma.go:1 promises a real conversion between linear PCM and G.711 A-law: what a peer
\* hears is within a quantisation step of the sample.
ALawWithinStep ==
    path = "heard" /\ law = "PCMA" =>
        LET s == (Toggle(byte) \div 16) % 8
        IN  Magnitude(back - sample) <= IF s < 2 THEN 16 ELSE 16 * 2^(s - 1)
=============================================================================
