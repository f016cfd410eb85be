---------------------------- MODULE TransformCode ----------------------------
(***************************************************************************)
(* The cipher of the driver, SwTransformCode.cpp.  A buffer is encoded in  *)
(* blocks of the size of a SWID, with two keys that are SWIDs too.  The    *)
(* private key turns by one bit with every block, the public key with      *)
(* every KEYBYTESOFFSET blocks.                                            *)
(*                                                                         *)
(* A byte is the set of its one bits, a SWID a function that gives each of *)
(* its four words the set of its one bits; bytes lie in words as on a      *)
(* little-endian machine.  The widths are constants: 8 bits to the byte    *)
(* and 4 bytes to the word in the code, fewer in an instance for TLC.      *)
(***************************************************************************)
EXTENDS Integers, Sequences, FiniteSets

CONSTANTS
  ByteBits,      \* 8
  WordBytes,     \* 4
  KeyBytes,      \* KEYBYTESOFFSET, 128: the bits of a SWID
  HeadBit,       \* 28, the bit Enhead and Dehead carry the lowest bit to
  AutoKey        \* SAFEWALLAUTOKEY

WordBits == ByteBits * WordBytes
SwidBytes == 4 * WordBytes
SwidBits == 4 * WordBits
Period == KeyBytes * SwidBytes

Word == 0..3
Byte == SUBSET (0..ByteBits - 1)
Swid == [Word -> SUBSET (0..WordBits - 1)]

ASSUME CodeAssumption ==
  /\ ByteBits \in Nat \ {0} /\ ByteBits % 2 = 0
  /\ WordBytes \in Nat \ {0}
  /\ KeyBytes \in Nat \ {0}
  /\ HeadBit \in 0..WordBits - 1
  /\ AutoKey \in Swid

Xor(a, b) == (a \ b) \union (b \ a)
XorSwid(s, t) == [w \in Word |-> Xor(s[w], t[w])]
NotSwid(s) == [w \in Word |-> (0..WordBits - 1) \ s[w]]

-----------------------------------------------------------------------------
(* Turning a key.                                                          *)

\* By one bit to the left: what leaves a word comes into the word before it.
TurnLeft(s) ==
  [w \in Word |->
     {b + 1 : b \in s[w] \ {WordBits - 1}}
       \union IF WordBits - 1 \in s[(w + 1) % 4] THEN {0} ELSE {}]

\* By one bit to the right.
TurnRight(s) ==
  [w \in Word |->
     {b - 1 : b \in s[w] \ {0}}
       \union IF 0 \in s[(w + 3) % 4] THEN {WordBits - 1} ELSE {}]

\* By n bits, one after the other.
LeftTurns(s, n) ==
  LET turned[k \in 0..n] == IF k = 0 THEN s ELSE TurnLeft(turned[k - 1])
  IN turned[n]

RightTurns(s, n) ==
  LET turned[k \in 0..n] == IF k = 0 THEN s ELSE TurnRight(turned[k - 1])
  IN turned[n]

WordsLeft(s, n) == [w \in Word |-> s[(w + n) % 4]]

\* What is left to turn once whole halves, or whole words, have been moved.
\* The code tests "more than", so that the last bits of an exact half or word
\* are turned one by one.
AfterHalf(n) == IF n > 2 * WordBits THEN n - 2 * WordBits ELSE n
AfterWord(n) == IF AfterHalf(n) > WordBits THEN AfterHalf(n) - WordBits
                                          ELSE AfterHalf(n)

\* Mutant of InlineLeftCircleSwid: the bits moved with a half are turned again.
InlineLeftTwice(s, more) ==
  LET n == more % SwidBits
      half == IF n > 2 * WordBits THEN WordsLeft(s, 2) ELSE s
  IN LeftTurns(half, n)

\* InlineLeftCircleSwid: by halves and words first.
InlineLeftCircleSwid(s, more) ==
  LET n == more % SwidBits
      half == IF n > 2 * WordBits THEN WordsLeft(s, 2) ELSE s
      word == IF AfterHalf(n) > WordBits THEN WordsLeft(half, 1) ELSE half
  IN LeftTurns(word, AfterWord(n))

InlineRightCircleSwid(s, more) ==
  LET n == more % SwidBits
      half == IF n > 2 * WordBits THEN WordsLeft(s, 2) ELSE s
      word == IF AfterHalf(n) > WordBits THEN WordsLeft(half, 3) ELSE half
  IN RightTurns(word, AfterWord(n))

-----------------------------------------------------------------------------
(* Which keys a byte of a buffer meets.  The buffer has len bytes and lies *)
(* at offset off of the file.                                              *)

\* Mutant of PublicLoop: a period that has begun is not counted.
PublicLoopFloor(off) == (off \div Period) % KeyBytes

PublicLoop(off) ==
  ((off \div Period) % KeyBytes) + (IF off % Period = 0 THEN 0 ELSE 1)

PrivateLoop(off) ==
  ((off \div SwidBytes) % KeyBytes) + (IF off % SwidBytes = 0 THEN 0 ELSE 1)

\* The bytes before the first whole block.  The loop starts at fraction - 1, so
\* it takes one byte more than the block has left.
HeadBytes(len, off) ==
  LET fraction == off % SwidBytes
      left == (SwidBytes - fraction) + 1
  IN IF fraction = 0 THEN 0 ELSE IF left < len THEN left ELSE len

\* The block that byte q of the buffer is in, counted from the end of the head.
Block(len, off, q) == (q - HeadBytes(len, off)) \div SwidBytes

\* How often the public key is turned at the start of blocks 0 .. n.
Crossings(len, off, n) ==
  Cardinality({j \in 0..n : (off + HeadBytes(len, off) + (j * SwidBytes)) % Period = 0})

\* The byte of the keys that byte q meets.
KeyIndex(len, off, q) ==
  IF q < HeadBytes(len, off) THEN (off % SwidBytes) - 1 + q
                        ELSE (q - HeadBytes(len, off)) % SwidBytes

PublicTurns(len, off, q) ==
  IF q < HeadBytes(len, off) THEN 0 ELSE Crossings(len, off, Block(len, off, q))

\* Mutant of PublicKeyAt: every buffer starts with the public key as it was given.
PublicKeyRestarts(key, len, off, q) == LeftTurns(key, PublicTurns(len, off, q))

PublicKeyAt(key, len, off, q) ==
  LeftTurns(InlineLeftCircleSwid(key, PublicLoop(off)), PublicTurns(len, off, q))

PrivateKeyAt(key, len, off, q) ==
  LeftTurns(InlineLeftCircleSwid(key, PrivateLoop(off)),
            IF q < HeadBytes(len, off) THEN 0 ELSE Block(len, off, q) + 1)

\* Byte i of a SWID.
KeyByte(s, i) ==
  {b \in 0..ByteBits - 1 :
     ((i % WordBytes) * ByteBits) + b \in s[i \div WordBytes]}

-----------------------------------------------------------------------------
(* Encoding and decoding.                                                  *)

\* Neighbouring bits change places, in whole blocks only: for single bytes the
\* shift in "buffer[point]&0x55<<1" is of the mask, and nothing moves.
Mate(b) == IF b % 2 = 0 THEN b + 1 ELSE b - 1
Swap(byte) == {Mate(b) : b \in byte}

InBlock(len, off, q) ==
  /\ HeadBytes(len, off) <= q
  /\ Block(len, off, q) < (len - HeadBytes(len, off)) \div SwidBytes

Swapped(byte, len, off, q) == IF InBlock(len, off, q) THEN Swap(byte) ELSE byte

PublicByte(key, len, off, q) ==
  KeyByte(PublicKeyAt(key, len, off, q), KeyIndex(len, off, q))
PrivateByte(key, len, off, q) ==
  KeyByte(PrivateKeyAt(key, len, off, q), KeyIndex(len, off, q))

encode1(buffer, off, private, public) ==
  LET len == Len(buffer) IN
  [p \in 1..len |->
     Xor(Swapped(Xor(buffer[p], PublicByte(public, len, off, p - 1)),
                 len, off, p - 1),
         PrivateByte(private, len, off, p - 1))]

\* Mutant of decode1: the keys in the order encode1 has them.
decode1SameOrder(buffer, off, private, public) ==
  encode1(buffer, off, private, public)

decode1(buffer, off, private, public) ==
  LET len == Len(buffer) IN
  [p \in 1..len |->
     Xor(Swapped(Xor(buffer[p], PrivateByte(private, len, off, p - 1)),
                 len, off, p - 1),
         PublicByte(public, len, off, p - 1))]

-----------------------------------------------------------------------------
(* The header of an encrypted file: its private key, and the other SWIDs   *)
(* it is made of.                                                          *)

\* The key moves on by one bit with each SWID.  Of the bits that leave the four
\* words the masks keep only that of word 0.
HeadTurn(s) ==
  [w \in Word |->
     {b - 1 : b \in s[w] \ {0}}
       \union IF w = 0 /\ 0 \in s[0] THEN {HeadBit} ELSE {}]

HeadKey(key, i) ==
  LET turned[k \in 0..i] == IF k = 0 THEN HeadTurn(key) ELSE HeadTurn(turned[k - 1])
  IN turned[i]

Enhead(object) ==
  [code |-> [i \in DOMAIN object.code |->
               XorSwid(NotSwid(XorSwid(object.code[i], AutoKey)),
                       HeadKey(object.privateKey, i))],
   privateKey |-> XorSwid(AutoKey, object.privateKey)]

\* Mutant of Dehead: the header is decoded with the key as it is in the file.
DeheadRawKey(object) ==
  [code |-> [i \in DOMAIN object.code |->
               XorSwid(NotSwid(XorSwid(object.code[i],
                                       HeadKey(object.privateKey, i))), AutoKey)],
   privateKey |-> XorSwid(object.privateKey, AutoKey)]

Dehead(object) ==
  LET key == XorSwid(object.privateKey, AutoKey) IN
  [code |-> [i \in DOMAIN object.code |->
               XorSwid(NotSwid(XorSwid(object.code[i], HeadKey(key, i))), AutoKey)],
   privateKey |-> key]

=============================================================================
