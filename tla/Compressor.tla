----------------------------- MODULE Compressor -----------------------------
(***************************************************************************)
(* internal/compression/adaptive.go: an adaptiveWriter that holds back     *)
(* what is written until the threshold is reached, then compresses, and    *)
(* the Decompress that reads its output.  A message is its number of       *)
(* bytes.  The header is four digits of base Base (256 in the code): 1     *)
(* first for a compressed body, else the size with its first digit         *)
(* overwritten.  The branch for shouldCompress = false is never taken: no  *)
(* code sets it.                                                           *)
(***************************************************************************)
EXTENDS Integers, Sequences

CONSTANTS
    Base,
    Thresholds,     \* the values of thresholdBytes
    Writes,         \* the sizes given to Write
    MaxMessage      \* bound: bytes of a message

ASSUME CompressorAssumption ==
    Base \in Nat \ {0, 1} /\ Thresholds \subseteq Nat /\ Writes \subseteq Nat /\ MaxMessage \in Nat

VARIABLES
    threshold, algorithm,   \* of the writer
    setting,                \* underlyingAlgorithm of the compressor
    buffer,                 \* the bytes held back
    header, body,           \* what is on the wire
    compressing, closed,
    message                 \* history: the bytes written

compressorVars == <<threshold, algorithm, setting, buffer, header, body, compressing, closed, message>>

Algorithms == {"gzip", "other"}
TwoDigits == Base * Base
ThreeDigits == Base * TwoDigits
Digits(n) == <<n \div ThreeDigits, (n \div TwoDigits) % Base, (n \div Base) % Base, n % Base>>
Value(h) == h[1] * ThreeDigits + h[2] * TwoDigits + h[3] * Base + h[4]

CompressorTypeOK ==
    /\ threshold \in Thresholds /\ {algorithm, setting} \subseteq Algorithms
    /\ buffer \in 0 .. MaxMessage /\ body \in 0 .. MaxMessage /\ message \in 0 .. MaxMessage
    /\ header \in Seq(0 .. Base - 1) /\ Len(header) \in {0, 4}
    /\ compressing \in BOOLEAN /\ closed \in BOOLEAN

Compress(t) ==
    /\ threshold = t /\ algorithm = "gzip" /\ setting = "gzip"
    /\ buffer = 0 /\ header = <<>> /\ body = 0 /\ compressing = FALSE /\ closed = FALSE /\ message = 0

FitsLate(n) == buffer + n <= threshold
Fits(n) == buffer + n < threshold
Write(n) ==
    /\ ~closed /\ message + n <= MaxMessage
    /\ message' = message + n
    /\ IF compressing THEN body' = body + n /\ UNCHANGED <<buffer, header, compressing>>
       ELSE IF Fits(n) THEN buffer' = buffer + n /\ UNCHANGED <<header, body, compressing>>
       ELSE /\ header' = <<1, 0, 0, 0>> /\ compressing' = TRUE /\ body' = buffer + n
            /\ UNCHANGED buffer
    /\ UNCHANGED <<threshold, algorithm, setting, closed>>
CloseWriter ==
    /\ ~closed /\ closed' = TRUE
    /\ IF compressing THEN UNCHANGED <<header, body>>
       ELSE header' = [Digits(buffer) EXCEPT ![1] = 0] /\ body' = buffer
    /\ UNCHANGED <<threshold, algorithm, setting, buffer, compressing, message>>
SetUnderlyingAlgorithm(a) ==
    /\ setting # a /\ setting' = a
    /\ UNCHANGED <<threshold, algorithm, buffer, header, body, compressing, closed, message>>

CompressorInit == \E t \in Thresholds : Compress(t)
CompressorNext ==
    \/ \E n \in Writes : Write(n)
    \/ CloseWriter \/ \E a \in Algorithms : SetUnderlyingAlgorithm(a)
CompressorSpec == CompressorInit /\ [][CompressorNext]_compressorVars

Lesser(a, b) == IF a <= b THEN a ELSE b
(* Decompress reads nothing sensible with another algorithm (-1).          *)
Decompress ==
    IF header[1] # 1 THEN Lesser(Value(header), body)
    ELSE IF setting = algorithm THEN body ELSE -1

(* What was compressed is decompressed whole, however it was cut into      *)
(* writes, for every threshold whose sizes fit the three digits the header *)
(* keeps, unless the algorithm was changed in between.                     *)
RoundTrip == closed /\ threshold <= ThreeDigits /\ setting = algorithm => Decompress = message

(* Messages below the threshold survive a change of the algorithm: they    *)
(* are never compressed.                                                   *)
SmallSurvives == closed /\ message < threshold /\ message < ThreeDigits => Decompress = message

(* What was written is read back, compressed or not, as long as a          *)
(* threshold fits the three bytes left for the size (Write, Close,         *)
(* Decompress).                                                            *)
WrittenIsRead == CompressorTypeOK /\ RoundTrip /\ SmallSurvives
=============================================================================
