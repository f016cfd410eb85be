------------------------------ MODULE IniFile ------------------------------
(***************************************************************************)
(* The reader and writer of config.ini (include/inirw.c).  The tray client *)
(* keeps the server's address and the logon in it, and whoever administers *)
(* the machine edits it by hand.  A file is read line by line, by its      *)
(* meaning; one setting is written by putting together the text before it, *)
(* its new line and the text after it, with the file open for writing.     *)
(*                                                                         *)
(* A text is a sequence of tokens: a name or a value is a single token,    *)
(* and so is each character that means something to GetLine.  Files are    *)
(* opened in text mode, so a line ends with Lf alone.  Names compare equal *)
(* here when StriCmp says they do.                                         *)
(***************************************************************************)
EXTENDS Naturals, FiniteSets, Sequences, SequencesExt

CONSTANTS
  Sections, Names,      \* of settings
  Values,               \* that are set: no token below, and no blank
  Texts,                \* what the file may hold at first
  Default,              \* iniGetString's defvalue
  MaxSets               \* bound on how often a setting is written

Lf == "lf"
Blank == " "
Equals == "="
Opening == "["
Closing == "]"
Remark == ";"           \* or '#'
Quote == "\""           \* or '\''

\* What a text is made of.
Token == STRING

\* The characters GetLine has a case of its own for, and blanks.
Special == {Lf, Blank, Remark, Quote}

VARIABLES
  disk,                 \* the text in the file
  buffer,               \* pobj->buffer
  pending,              \* what fwrite and fprintf leave to fclose, or NoText
  sets,                 \* how many settings were written
  promised              \* history: what each setting was last set to

vars == <<disk, buffer, pending, sets, promised>>

Setting == Sections \X Names
NoText == <<"no text">>

TypeOK ==
  /\ disk \in Seq(Token)
  /\ buffer \in Seq(Token)
  /\ pending \in Seq(Token)
  /\ sets \in 0..MaxSets
  /\ DOMAIN promised = Setting

-----------------------------------------------------------------------------
(* Reading.                                                                *)

\* StrStrip.
Strip(s) ==
  LET first == SelectInSeq(s, LAMBDA c : c # Blank)
      last == SelectLastInSeq(s, LAMBDA c : c # Blank)
  IN IF first = 0 THEN <<>> ELSE SubSeq(s, first, last)

\* cntblank at position p of the line that starts at i: how many blanks came
\* since the last ordinary character.  Neither quotes nor remarks reset it.
Blanks(b, i, p) ==
  Cardinality({q \in i..(p - 1) : b[q] = Blank /\ \A r \in q..(p - 1) : b[r] \in Special})

\* The two kinds of quotes are one here: no text of the run mixes them.
InQuotes(b, i, p) == Cardinality({q \in i..(p - 1) : b[q] = Quote}) % 2 = 1

\* What kind of line a content makes.
Kind(content) ==
  CASE content = <<>> -> "empty"
    [] content # <<>> /\ Head(content) = Opening /\ Last(content) = Closing -> "section"
    [] Contains(content, Equals) /\ ~(Head(content) = Opening /\ Last(content) = Closing) -> "value"
    [] OTHER -> "error"

\* Where the line of text b that starts at i ends: at a line feed or behind the text.
LineEnd(b, i) == Min({p \in i..Len(b) : b[p] = Lf} \union {Len(b) + 1})

\* The sign of its remark, or its end.
RemarkSign(b, i, end) ==
  Min({p \in i..(end - 1) : b[p] = Remark /\ ~InQuotes(b, i, p)} \union {end})

\* Its content stands between blanks, its remark starts at rem with the blanks
\* before it, and the next line starts at next, after one line feed or two.
\* Where more blanks are counted than there is content its length is negative in the
\* code; here the content is empty.
Parts(b, i, end, sign) ==
  LET rem == IF sign = end THEN end ELSE sign - Blanks(b, i, sign)
      first == Min({p \in i..(sign - 1) : b[p] \notin Special} \union {sign})
      content == SubSeq(b, first, rem - Blanks(b, i, end) - 1)
  IN [start |-> i,
      rem |-> rem,
      next |-> end + (IF end > Len(b) THEN 0 ELSE IF end < Len(b) /\ b[end + 1] = Lf THEN 2 ELSE 1),
      content |-> content,
      kind |-> Kind(content)]

PartsTo(b, i, end) == Parts(b, i, end, RemarkSign(b, i, end))

\* GetLine: the line that starts at i.
Line(b, i) == PartsTo(b, i, LineEnd(b, i))

Lines(b) ==
  LET from[i \in 1..(Len(b) + 1)] ==
        IF i > Len(b) THEN <<>> ELSE LET l == Line(b, i) IN <<l>> \o from[l.next]
  IN from[1]

\* The name of a section line, and the key and the value of a value line
\* (GetKeyValue).
SectionName(l) == Strip(SubSeq(l.content, 2, Len(l.content) - 1))
KeyOf(l) == Strip(SubSeq(l.content, 1, SelectInSeq(l.content, LAMBDA c : c = Equals) - 1))
ValueOf(l) ==
  Strip(SubSeq(l.content, SelectInSeq(l.content, LAMBDA c : c = Equals) + 1, Len(l.content)))

\* Where section s starts among the lines ls, or 0.
SectionAt(ls, s) ==
  SelectInSeq(ls, LAMBDA l : l.kind = "section" /\ SectionName(l) = <<s>>)

\* The lines of the section that starts at line at: those before another section.
Within(ls, at) ==
  LET other == SelectInSubSeq(ls, at + 1, Len(ls), LAMBDA l : l.kind = "section")
  IN (at + 1)..(IF other = 0 THEN Len(ls) ELSE other - 1)

\* The lines of the section that give key k a value.
KeyLines(ls, at, k) ==
  {j \in Within(ls, at) : ls[j].kind = "value" /\ KeyOf(ls[j]) = <<k>>}

First(S) == CHOOSE j \in S : \A i \in S : j <= i

\* iniGetString without its quotes.
Unquoted(v) ==
  IF v[1] = Quote /\ Last(v) = Quote THEN SubSeq(v, 2, Len(v) - 1) ELSE v

\* iniGetValue and iniGetString on the lines ls of a text.  An empty value counts
\* as none.
Get(ls, s, k) ==
  LET at == SectionAt(ls, s)
      found == IF at = 0 THEN {} ELSE KeyLines(ls, at, k)
  IN IF found = {} \/ ValueOf(ls[First(found)]) = <<>>
       THEN <<Default>>
       ELSE Unquoted(ValueOf(ls[First(found)]))

\* Where a line begins that is not empty.
Starts(b) == {p \in 1..Len(b) : b[p] # Lf /\ (p = 1 \/ b[p - 1] = Lf)}

\* If the line that starts at i has a remark, nothing but blanks is kept in front of
\* its sign, and the remark holds an ordinary character and no blank behind its last.
TidyRemark(b, i) ==
  LET end == LineEnd(b, i)
      sign == RemarkSign(b, i, end)
  IN sign # end =>
       /\ \A q \in (sign - Blanks(b, i, sign))..(sign - 1) : b[q] = Blank
       /\ \E q \in (sign + 1)..(end - 1) :
            b[q] \notin Special /\ \A r \in q..(end - 1) : b[r] # Blank

\* A text that is read and written as inirw.h has it: its last line is ended, and the
\* remarks behind values are tidy.
Tidy(b) ==
  /\ b \in Seq(Token)
  /\ b # <<>> => Last(b) = Lf
  /\ \A p \in Starts(b) : Line(b, p).kind = "value" => TidyRemark(b, p)

\* Names and values are words, with no meaning to GetLine.
ASSUME IniFileAssumption ==
  /\ \A w \in Sections \union Names \union Values :
       w \in Token /\ w \notin Special \union {Equals, Opening, Closing}
  /\ Special \union {Equals, Opening, Closing} \subseteq Token
  /\ \A b \in Texts : Tidy(b)

-----------------------------------------------------------------------------
(* Writing.                                                                *)

\* Mutant of KeptAfter: what follows the value is dropped to the end of the line.
KeptAfterBare(b, l) == SubSeq(b, l.next - 1, Len(b))

\* What is kept after a value that is written anew: its remark and all that
\* follows.
KeptAfter(b, l) == SubSeq(b, l.rem, Len(b))

\* Mutant of AddedAt: a new key goes to the end of the file.
AddedAtEnd(ls, at) == ls[Len(ls)].next

\* FindSection's cont2, where a new key of the section goes: behind its last
\* line that gives a value.
AddedAt(ls, at) ==
  LET used == {j \in Within(ls, at) : ls[j].kind = "value"} \union {at}
  IN ls[CHOOSE j \in used : \A i \in used : i <= j].next

\* fprintf "%s = %s".
Entry(k, v) == <<k, Blank, Equals, Blank>> \o v

\* iniSetString on a section that is there; ls are the lines of b.
Rewritten(b, ls, s, k, v) ==
  LET at == SectionAt(ls, s)
      found == KeyLines(ls, at, k)
      l == ls[First(found)]
  IN IF found # {}
       THEN SubSeq(b, 1, l.start - 1) \o Entry(k, v) \o KeptAfter(b, l)
       ELSE SubSeq(b, 1, AddedAt(ls, at) - 1) \o Entry(k, v) \o <<Lf>>
              \o SubSeq(b, AddedAt(ls, at), Len(b))

-----------------------------------------------------------------------------

\* The handlers of the dialogs set a value: a text without a meaning to
\* GetLine, or none.
Inputs == {<<>>} \union {<<v>> : v \in Values}

\* CreateIniObject: the file is there and is read.
Init ==
  /\ disk \in Texts
  /\ buffer = disk
  /\ pending = NoText
  /\ sets = 0
  /\ promised = [x \in Setting |-> Get(Lines(disk), x[1], x[2])]

\* A value that is written is promised; an empty one will read as the default.
Promise(s, k, v) ==
  /\ sets < MaxSets
  /\ sets' = sets + 1
  /\ promised' = [promised EXCEPT ![<<s, k>>] = IF v = <<>> THEN <<Default>> ELSE v]

\* A section that is not there is added at the end of the file, which keeps
\* all it holds meanwhile, and the file is read again.
AppendSection(s, k, v) ==
  /\ pending = NoText
  /\ SectionAt(Lines(buffer), s) = 0
  /\ disk' = disk \o <<Lf, Opening, s, Closing, Lf>> \o Entry(k, v) \o <<Lf>>
  /\ buffer' = disk'
  /\ Promise(s, k, v)
  /\ UNCHANGED pending

\* fopen(.., "w") leaves an empty file; the text is put together from buffer.
BeginSet(s, k, v) ==
  /\ pending = NoText
  /\ SectionAt(Lines(buffer), s) # 0
  /\ disk' = <<>>
  /\ pending' = Rewritten(buffer, Lines(buffer), s, k, v)
  /\ Promise(s, k, v)
  /\ UNCHANGED buffer

\* fclose, and iniFileLoad.
EndSet ==
  /\ pending # NoText
  /\ disk' = pending
  /\ buffer' = pending
  /\ pending' = NoText
  /\ UNCHANGED <<sets, promised>>

Next ==
  \/ \E s \in Sections, k \in Names, v \in Inputs :
       AppendSection(s, k, v) \/ BeginSet(s, k, v)
  \/ EndSet

Spec == Init /\ [][Next]_vars

-----------------------------------------------------------------------------
(* Properties.                                                             *)

\* Once it is set, a setting reads as what it was set to, and no other setting
\* of the file reads differently than before: neither one beside it, nor one of
\* the same name in another section, nor one that stands in quotes or has a
\* remark behind it (iniSetString and iniGetString against inirw.h:14).
KeepsSettings ==
  pending = NoText =>
    LET ls == Lines(disk) IN \A x \in Setting : Get(ls, x[1], x[2]) = promised[x]

\* Of a line: its remark, or all of it when it is malformed, but for blanks (writing
\* an empty value adds a blank before the remark behind it).
RemarkOf(b, l, end) ==
  LET Ink(c) == c # Blank
  IN SelectSeq(SubSeq(b, IF l.kind = "error" THEN l.start ELSE l.rem, end), Ink)

RemarksOf(b, ls) ==
  FlattenSeq([j \in 1..Len(ls) |-> RemarkOf(b, ls[j], LineEnd(b, ls[j].start) - 1)])

\* All the remarks of a text and its malformed lines, in order.
Remarks(b) == RemarksOf(b, Lines(b))

EmptyLines(b) == Cardinality({p \in 2..Len(b) : b[p] = Lf /\ b[p - 1] = Lf})

\* Whatever is set, the file keeps every remark, at the end of a line or on a
\* line of its own, every malformed line and every empty line ("all three to keep
\* the original form", inirw.h:17-19).
KeepsForm ==
  [][pending # NoText /\ pending' = NoText =>
       /\ Remarks(disk') = Remarks(buffer)
       /\ EmptyLines(disk') >= EmptyLines(buffer)]_vars

=============================================================================
