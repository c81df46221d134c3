---------------------------- MODULE RegisterCodec ----------------------------
(***************************************************************************)
(* Byte and word order (modpoll/register_decode.py).  A byte is a function *)
(* from bit numbers, 0 the least significant; a word is <<high, low>>; a   *)
(* payload is a sequence of words.  What a bit is, a Boolean or the name   *)
(* of the cell it comes from, does not matter here.                        *)
(***************************************************************************)
EXTENDS Integers, Sequences

CONSTANT ByteBits   \* bits of a byte: 8

ASSUME ByteAssumption == ByteBits \in Nat \ {0}

\* <byte order>_<word order>, the keys of ENDIAN_MAP.
Endians == {"BE_BE", "LE_BE", "LE_LE", "BE_LE"}
LittleBytes(endian) == endian \in {"LE_BE", "LE_LE"}
LittleWords(endian) == endian \in {"LE_LE", "BE_LE"}

\* array.byteswap() and array.reverse().
SwapBytes(words) == [k \in DOMAIN words |-> <<words[k][2], words[k][1]>>]
ReverseWords(words) == [k \in DOMAIN words |-> words[Len(words) - k + 1]]

\* RegisterDecoder._unpack_words, and for one word also decode_16bit_uint.
UnpackWords(endian, words) ==
  LET bytes == IF LittleBytes(endian) THEN SwapBytes(words) ELSE words
  IN IF LittleWords(endian) THEN ReverseWords(bytes) ELSE bytes

\* RegisterEncoder._pack_words, and for one word also encode_16bit_uint.
PackWords(endian, words) ==
  LET ordered == IF LittleWords(endian) THEN ReverseWords(words) ELSE words
  IN IF LittleBytes(endian) THEN SwapBytes(ordered) ELSE ordered

\* skip_bytes and a decode_* of `width` registers: a value's bytes, the most
\* significant first.
BytesOf(words) == [k \in 1..(2 * Len(words)) |-> words[(k + 1) \div 2][2 - (k % 2)]]
WordsOf(bytes) ==
  [k \in 1..(Len(bytes) \div 2) |-> <<bytes[2 * k - 1], bytes[2 * k]>>]

Decode(endian, registers, offset, width) ==
  UnpackWords(endian, SubSeq(registers, offset + 1, offset + width))

\* Bit b of a word, and the word with the bits in `set` taken from another.
BitOf(word, b) == IF b < ByteBits THEN word[2][b] ELSE word[1][b - ByteBits]
Merge(word, other, set) ==
  << [b \in 0..(ByteBits - 1) |->
        IF b + ByteBits \in set THEN other[1][b] ELSE word[1][b]],
     [b \in 0..(ByteBits - 1) |->
        IF b \in set THEN other[2][b] ELSE word[2][b]] >>
=============================================================================
