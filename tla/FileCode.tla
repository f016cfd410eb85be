------------------------------- MODULE FileCode -------------------------------
(***************************************************************************)
(* What the driver makes of the bytes of a document: SafeWallEncryptFile   *)
(* writes a header and then the document, encoded one buffer at a time;    *)
(* SafeWallDecryptFile reads the header back, asks CheckSafeWallFlags      *)
(* whether the file is one of its group, and decodes buffer by buffer.     *)
(* Files, handles, failures and concurrent requests are the matter of      *)
(* module FileTransform; here every call succeeds and the bytes count.     *)
(***************************************************************************)
EXTENDS TransformCode

CONSTANTS
  Cases,         \* documents, sequences of bytes, each with a private key that
                 \* ExGuidCreate may draw for it
  Companies,     \* COMPANYGUIDs of the installations a file may come from
  OwnCompany,    \* that of the installation that decrypts
  Page           \* PAGE_BUFFER_SIZE

ASSUME FileCodeAssumption ==
  /\ Cases \subseteq Seq(Byte) \X Swid
  /\ Companies \subseteq Swid /\ OwnCompany \in Swid
  /\ Page \in Nat \ {0}

\* KEYBYTESOFFSET counts the bits of a SWID, and a buffer takes whole blocks.
ASSUME WidthAssumption ==
  /\ KeyBytes = SwidBits
  /\ Page % SwidBytes = 0

VARIABLES
  document,      \* the plain file
  key, company,  \* the header before it is encoded
  head, cipher,  \* the encrypted file
  plain,         \* the decrypted file
  offset,        \* how far the copy has come
  phase

vars == <<document, key, company, head, cipher, plain, offset, phase>>

-----------------------------------------------------------------------------

\* The SWIDs of the header that matter here.
CompanyId == 0
FileGroupId == 1

\* InlineIsEqualSWID compares the words of its first argument with themselves.
InlineIsEqualSWID(s, t) == \A w \in Word : s[w] = s[w]

\* CheckSafeWallFlags of a header that has the driver's name in it.
CheckSafeWallFlags(object) ==
  {"object"} \union
  IF InlineIsEqualSWID(object.code[FileGroupId], OwnCompany)
    THEN {"management", "filegroup"} ELSE {}

\* The next bytes of a file, as many as the buffer takes.
Read(file) ==
  SubSeq(file, offset + 1,
         IF offset + Page < Len(file) THEN offset + Page ELSE Len(file))

\* InitSafeWallObject, SetSafeWallToFileHead.  A file is of the file group of the
\* company that encrypts it.
WriteHead ==
  /\ phase = "new"
  /\ head' = Enhead([code |-> [i \in {CompanyId, FileGroupId} |-> company],
                     privateKey |-> key])
  /\ phase' = "encrypt"
  /\ UNCHANGED <<document, key, company, cipher, plain, offset>>

\* One round of the loop of SafeWallEncryptFile.
EncryptPage ==
  /\ phase = "encrypt"
  /\ offset < Len(document)
  /\ cipher' = cipher \o encode1(Read(document), offset, key, company)
  /\ offset' = offset + Len(Read(document))
  /\ UNCHANGED <<document, key, company, head, plain, phase>>

\* STATUS_END_OF_FILE.
EncryptEnd ==
  /\ phase = "encrypt"
  /\ offset = Len(document)
  /\ offset' = 0
  /\ phase' = "encrypted"
  /\ UNCHANGED <<document, key, company, head, cipher, plain>>

\* GetSafeWallByFileHandle, CheckSafeWallFlags.
ReadHead ==
  /\ phase = "encrypted"
  /\ phase' = IF "filegroup" \in CheckSafeWallFlags(Dehead(head))
                THEN "decrypt" ELSE "refused"
  /\ UNCHANGED <<document, key, company, head, cipher, plain, offset>>

\* Mutant of DecryptPage: the offset is that of the source, header included.
DecryptPageShifted ==
  /\ phase = "decrypt"
  /\ offset < Len(cipher)
  /\ plain' = plain \o decode1(Read(cipher), offset + 3 * SwidBytes,
                               Dehead(head).privateKey, Dehead(head).code[CompanyId])
  /\ offset' = offset + Len(Read(cipher))
  /\ UNCHANGED <<document, key, company, head, cipher, phase>>

\* One round of the loop of SafeWallDecryptFile, with the keys of the header.
DecryptPage ==
  /\ phase = "decrypt"
  /\ offset < Len(cipher)
  /\ plain' = plain \o decode1(Read(cipher), offset,
                               Dehead(head).privateKey, Dehead(head).code[CompanyId])
  /\ offset' = offset + Len(Read(cipher))
  /\ UNCHANGED <<document, key, company, head, cipher, phase>>

DecryptEnd ==
  /\ phase = "decrypt"
  /\ offset = Len(cipher)
  /\ phase' = "decrypted"
  /\ UNCHANGED <<document, key, company, head, cipher, plain, offset>>

Init ==
  /\ \E c \in Cases : document = c[1] /\ key = c[2]
  /\ company \in Companies
  /\ head = [code |-> <<>>, privateKey |-> AutoKey]
  /\ cipher = <<>>
  /\ plain = <<>>
  /\ offset = 0
  /\ phase = "new"

Next ==
  \/ WriteHead \/ EncryptPage \/ EncryptEnd
  \/ ReadHead \/ DecryptPage \/ DecryptEnd

Spec == Init /\ [][Next]_vars

-----------------------------------------------------------------------------

\* Decrypting gives back the document, whatever its length, its bytes and the key
\* that was drawn for it (SafeWallEncryptFile, then SafeWallDecryptFile).
RoundTrip ==
  /\ phase = "decrypted" => plain = document
  /\ phase = "decrypt" => plain = SubSeq(document, 1, offset)

\* The encrypted bytes do not depend on how they were cut into buffers: a driver
\* built with the larger FILEPAGE_BUFFER_SIZE (SafeWall.h) reads the same files.
PageIndependent ==
  phase = "encrypted" => cipher = encode1(document, 0, key, company)

\* The keys block b of the file is encoded with.
KeysOf(b) ==
  LET off == ((b * SwidBytes) \div Page) * Page
      q == (b * SwidBytes) % Page
  IN <<PublicKeyAt(company, Page, off, q), PrivateKeyAt(key, Page, off, q)>>

\* A key that no turn of less than a circle maps to itself.
Aperiodic(s) == \A n \in 1..SwidBits - 1 : LeftTurns(s, n) # s

\* "Does not repeat within KEYBYTESOFFSET * KEYBYTESOFFSET * sizeof(SWID) bytes"
\* (encode1): of keys that have no period themselves, no two blocks in that range
\* meet the same pair, across all the buffers it is cut into.
NoKeyTwice ==
  phase = "new" /\ Aperiodic(key) /\ Aperiodic(company) =>
    Cardinality({KeysOf(b) : b \in 0..(KeyBytes * KeyBytes) - 1}) = KeyBytes * KeyBytes

\* InlineLeftCircleSwid and InlineRightCircleSwid move halves and words first to
\* be quick; they do what as many turns by one bit would do, and undo each other.
TurnsAgree ==
  \A n \in 0..SwidBits :
    /\ InlineLeftCircleSwid(key, n) = LeftTurns(key, n)
    /\ InlineLeftCircleSwid(key, SwidBits + n) = InlineLeftCircleSwid(key, n)
    /\ InlineRightCircleSwid(InlineLeftCircleSwid(key, n), n) = key
-----------------------------------------------------------------------------
(* Why decryption gives the document back, as an inductive invariant: both   *)
(* loops cut a file at the same offsets.                                     *)

\* What Read takes at offset o.
Piece(file, o) ==
  SubSeq(file, o + 1, IF o + Page < Len(file) THEN o + Page ELSE Len(file))

\* Up to offset n the encrypted file is the encoded document, buffer by buffer.
Encoded(n) ==
  \A o \in 0..(n - 1) : o % Page = 0 =>
    Piece(cipher, o) = encode1(Piece(document, o), o, key, company)

Header == [code |-> [i \in {CompanyId, FileGroupId} |-> company], privateKey |-> key]

CopyInv ==
  /\ document \in Seq(Byte) /\ cipher \in Seq(Byte) /\ key \in Swid /\ company \in Swid
  /\ offset \in 0..Len(document) /\ (offset % Page = 0 \/ offset = Len(document))
  /\ phase \in {"new", "encrypt", "encrypted", "refused", "decrypt", "decrypted"}
  /\ phase # "new" => head = Enhead(Header)
  /\ phase \in {"new", "encrypt"} => Len(cipher) = offset /\ Encoded(offset)
  /\ phase \notin {"new", "encrypt"} => Len(cipher) = Len(document) /\ Encoded(Len(document))
  /\ phase \in {"new", "encrypted"} => offset = 0
  /\ phase \in {"new", "encrypt", "encrypted"} => plain = <<>>
  /\ RoundTrip

=============================================================================
