------------------------------ MODULE MCFileCode ------------------------------
(* Instances of FileCode for TLC: bytes of two bits, words of one byte, so that *)
(* a SWID has 8 bits and the public key turns every 8 blocks of 4 bytes.        *)
EXTENDS FileCode

KeyOf(a, b, c, d) == [w \in Word |-> CASE w = 0 -> a [] w = 1 -> b [] w = 2 -> c [] w = 3 -> d]

Auto == KeyOf({0}, {0, 1}, {}, {1})

\* Two keys that no turn of less than a circle maps to themselves.
KeyA == KeyOf({1}, {0, 1}, {}, {0})
KeyB == KeyOf({0, 1}, {}, {0}, {})
TwoKeys == {KeyA, KeyB}
AllKeys == Swid

Home == KeyOf({0}, {1}, {0, 1}, {})
Abroad == KeyOf({1}, {}, {}, {0, 1})

\* A document of n bytes that are not all the same.
Pattern(n) ==
  [p \in 1..n |-> {b \in 0..1 : (b = 0 /\ p % 3 = 0) \/ (b = 1 /\ p % 5 > 1)}]

\* Lengths around the ends of a byte, a block, a page and a period.
SomeDocuments == {Pattern(n) : n \in {0, 1, 3, 4, 5, 7, 8, 9, 16, 31, 32, 33, 37, 72}}

BothCompanies == {Home, Abroad}
AllCases == (SomeDocuments \X TwoKeys) \union ({Pattern(3)} \X AllKeys)
=============================================================================
