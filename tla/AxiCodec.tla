------------------------------ MODULE AxiCodec ------------------------------
(***************************************************************************)
(* Messages of the AXi dongle: a header symbol, two symbols per payload    *)
(* byte, low half first, and a zero.  A symbol has four of its eight bits  *)
(* set.  Register values are PMBus LINEAR11 words.                         *)
(***************************************************************************)
EXTENDS Integers, Sequences, SequencesExt

(* axiEncodeTable: each two bits of a half, 0..3, as 5, 6, 9, 10.          *)
axiEncodeTable(half) == <<5, 6, 9, 10>>[(half \div 4) + 1] * 16 + <<5, 6, 9, 10>>[(half % 4) + 1]

Halves == 0..15
HeaderSymbol(half) == axiEncodeTable(half) - (axiEncodeTable(half) % 4)

(* axiDecodeTable: data symbols carry a half, header symbols an even one.  *)
DataSymbols == {axiEncodeTable(h) : h \in Halves}
HalfOf(symbol) ==
  IF \E h \in Halves : symbol \in {axiEncodeTable(h), HeaderSymbol(h)}
  THEN CHOOSE h \in Halves :
         IF symbol \in DataSymbols THEN axiEncodeTable(h) = symbol
         ELSE HeaderSymbol(h) = symbol /\ h % 2 = 0
  ELSE 0

Body(payload) ==
  FlattenSeq([i \in 1..Len(payload) |->
                <<axiEncodeTable(payload[i] % 16), axiEncodeTable(payload[i] \div 16)>>])

axiEncode(payload) == <<HeaderSymbol(0)>> \o Body(payload) \o <<0>>

(* The dongle answers under another header.                                *)
ReplyFrame(payload) == <<HeaderSymbol(14)>> \o Body(payload) \o <<0>>

Error == <<"error">>

IsData_AnyHalf(symbol) == \E h \in Halves : symbol \in {axiEncodeTable(h), HeaderSymbol(h)}

IsData(symbol) == symbol \in DataSymbols

axiDecode(data) ==
  LET n == Len(data)
  IN  IF \/ n < 2 \/ data[n] # 0
         \/ HalfOf(data[1]) \div 2 # 7
         \/ n % 2 # 0
         \/ \E i \in 2..(n - 1) : ~IsData(data[i])
      THEN Error
      ELSE [i \in 1..((n - 2) \div 2) |-> HalfOf(data[2 * i]) + 16 * HalfOf(data[2 * i + 1])]

(* int16 and the arithmetic shifts of linear11: an exponent and a mantissa *)
(* instead of their product.                                               *)
Int16(v) == IF v % 65536 < 32768 THEN v % 65536 ELSE (v % 65536) - 65536

linear11(b) ==
  LET v == b[1] + 256 * b[2]
  IN  [exponent |-> Int16(v) \div 2048, mantissa |-> Int16(v * 32) \div 32]

-----------------------------------------------------------------------------
Bits == {1, 2, 4, 8, 16, 32, 64, 128}
Flipped(frame, i, bit) ==
  [frame EXCEPT ![i] = IF (@ \div bit) % 2 = 1 THEN @ - bit ELSE @ + bit]

(* A register's word comes out of the dongle's reply as the number the     *)
(* PMBus format says, two's complement in 5 and in 11 bits; and a reply in *)
(* which one bit is wrong, or which is cut short, is refused or gives the  *)
(* same word, never another one.                                           *)
WordSurvives(w) ==
  LET payload == <<w % 256, w \div 256>>
      frame == ReplyFrame(payload)
      value == linear11(axiDecode(frame))
  IN  /\ axiDecode(frame) = payload
      /\ value.exponent \in -16..15 /\ value.mantissa \in -1024..1023
      /\ (value.exponent % 32) * 2048 + (value.mantissa % 2048) = w
      /\ \A i \in 1..Len(frame), bit \in Bits :
           axiDecode(Flipped(frame, i, bit)) \in {payload, Error}
      /\ \A k \in 0..(Len(frame) - 1) : axiDecode(SubSeq(frame, 1, k)) = Error
=============================================================================
