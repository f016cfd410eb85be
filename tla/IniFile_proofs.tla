-------------------------- MODULE IniFile_proofs ---------------------------
(***************************************************************************)
(* Proof that a setting reads as it was last set and that setting one      *)
(* changes no other, for any names, values and tidy texts, however often   *)
(* settings are written.                                                   *)
(*                                                                         *)
(* A text is looked at by places: where its lines begin (Starts), where    *)
(* each ends, and where its remark and its content are.  What a line says  *)
(* depends on its own characters only (LineMoved), so that a text with one *)
(* piece replaced (Spliced) has the lines it had, moved, but for one.      *)
(* When a map from the old lines to the new keeps their order and what     *)
(* they mean for a setting (Maps), the setting reads the same (SameGet).   *)
(***************************************************************************)
EXTENDS IniFile, Integers, SequenceTheorems, FiniteSetTheorems, TLAPS

-----------------------------------------------------------------------------
(* Induction over the natural numbers, for a set.                          *)

\* The library's statement about < with its set of pairs written out.
LEMMA NatWF == IsWellFoundedOn({ss \in Nat \X Nat : ss[1] < ss[2]}, Nat)
BY NatLessThanWellFounded DEF OpToRel

\* A set of numbers that is not empty has a least one.
LEMMA Least ==
  ASSUME NEW T, T \subseteq Nat, T # {}
  PROVE  \E x \in T : \A y \in T : x <= y
<1> DEFINE R == {ss \in Nat \X Nat : ss[1] < ss[2]}
<1>1. PICK x \in T : \A y \in T : ~(<<y, x>> \in R)
  <2>1. IsWellFoundedOn(R, Nat)
    BY NatWF
  <2> HIDE DEF R
  <2> QED BY <2>1, WFMin
<1>2. ASSUME NEW y \in T PROVE x <= y
  <2>1. x \in Nat /\ y \in Nat
    OBVIOUS
  <2>2. ~(y < x)
    BY <1>1, <2>1
  <2> QED BY <2>1, <2>2
<1> QED BY <1>2

\* What holds 0 and, with a number, the next one, holds all numbers.
LEMMA SetInduction ==
  ASSUME NEW S, 0 \in S, \A n \in Nat : n \in S => n + 1 \in S
  PROVE  Nat \subseteq S
<1> SUFFICES ASSUME Nat \ S # {} PROVE FALSE
  OBVIOUS
<1>1. PICK x \in Nat \ S : \A y \in Nat \ S : x <= y
  <2>1. Nat \ S \subseteq Nat
    OBVIOUS
  <2> QED BY <2>1, Least
<1>2. x \in Nat /\ x # 0 /\ x - 1 \in Nat
  OBVIOUS
<1>3. x - 1 \in S
  BY <1>1, <1>2
<1> QED
  BY <1>2, <1>3

\* Nor does one within bounds lack a greatest.
LEMMA Greatest ==
  ASSUME NEW n \in Nat, NEW T, T \subseteq 0..n, T # {}
  PROVE  \E x \in T : \A y \in T : x >= y
<1> DEFINE U == {n - x : x \in T}
<1>1. U \subseteq Nat /\ U # {}
  <2>1. PICK x \in T : TRUE
    OBVIOUS
  <2>2. n - x \in U
    BY <2>1
  <2> QED BY <2>2
<1>2. PICK u \in U : \A y \in U : u <= y
  <2> HIDE DEF U
  <2> QED BY <1>1, Least
<1>3. PICK x \in T : u = n - x
  BY <1>2
<1>4. ASSUME NEW y \in T PROVE x >= y
  <2>1. n - y \in U
    OBVIOUS
  <2>2. u <= n - y
    BY <1>2, <2>1
  <2>3. x \in 0..n /\ y \in 0..n
    OBVIOUS
  <2> QED BY <1>3, <2>2, <2>3
<1> QED BY <1>4

\* A least element is the minimum.
LEMMA MinIs ==
  ASSUME NEW S, S \subseteq Int, NEW m \in S, \A x \in S : m <= x
  PROVE  Min(S) = m
<1>1. ASSUME NEW x \in S, \A y \in S : x =< y PROVE x = m
  <2>1. x \in Int /\ m \in Int /\ x =< m /\ m <= x
    BY <1>1
  <2> QED BY <2>1
<1>2. \E x \in S : \A y \in S : x =< y
  OBVIOUS
<1> QED BY <1>1, <1>2 DEF Min

\* A greatest element is the maximum.
LEMMA MaxIs ==
  ASSUME NEW S, S \subseteq Int, NEW m \in S, \A x \in S : m >= x
  PROVE  Max(S) = m
<1>1. ASSUME NEW x \in S, \A y \in S : x >= y PROVE x = m
  <2>1. x \in Int /\ m \in Int /\ x >= m /\ m >= x
    BY <1>1
  <2> QED BY <2>1
<1>2. \E x \in S : \A y \in S : x >= y
  OBVIOUS
<1> QED BY <1>1, <1>2 DEF Max

-----------------------------------------------------------------------------
(* Where the parts of a line are.                                          *)

\* e is where the line ends that starts at i.
Ends(b, i, e) ==
  /\ e \in i..(Len(b) + 1)
  /\ e = Len(b) + 1 \/ b[e] = Lf
  /\ \A q \in i..(e - 1) : b[q] # Lf

\* Such a place is the end that LineEnd finds.
LEMMA LineEndIs ==
  ASSUME NEW b \in Seq(Token), NEW i \in 1..(Len(b) + 1), NEW e, Ends(b, i, e)
  PROVE  LineEnd(b, i) = e
<1> DEFINE S == {p \in i..Len(b) : b[p] = Lf} \union {Len(b) + 1}
<1>1. Len(b) \in Nat /\ e \in Int
  BY DEF Ends
<1>2. S \subseteq Int /\ e \in S
  BY <1>1 DEF Ends
<1>3. ASSUME NEW x \in S PROVE e <= x
  BY <1>1 DEF Ends
<1> HIDE DEF S
<1>4. Min(S) = e
  BY <1>2, <1>3, MinIs
<1> QED BY <1>4 DEF LineEnd, S

\* There is such a place in every line.
LEMMA LineEnds ==
  ASSUME NEW b \in Seq(Token), NEW i \in 1..(Len(b) + 1)
  PROVE  Ends(b, i, LineEnd(b, i))
<1> DEFINE S == {p \in i..Len(b) : b[p] = Lf} \union {Len(b) + 1}
<1>1. Len(b) \in Nat
  OBVIOUS
<1>2. S \subseteq Nat /\ S # {}
  BY <1>1
<1>3. PICK e \in S : \A x \in S : e <= x
  <2> HIDE DEF S
  <2> QED BY <1>2, Least
<1>4. e \in i..(Len(b) + 1) /\ (e = Len(b) + 1 \/ b[e] = Lf)
  BY <1>1
<1>5. ASSUME NEW q \in i..(e - 1) PROVE b[q] # Lf
  <2>1. q \in i..Len(b) /\ q < e
    BY <1>1, <1>4
  <2>2. q \notin S
    BY <1>1, <1>3, <1>4, <2>1
  <2> QED BY <2>1, <2>2
<1> QED BY <1>4, <1>5, LineEndIs DEF Ends

\* n is where the remark of the line from i to e starts, or e.
Signs(b, i, e, n) ==
  /\ n \in i..e
  /\ n = e \/ (b[n] = Remark /\ ~InQuotes(b, i, n))
  /\ \A q \in i..(n - 1) : ~(b[q] = Remark /\ ~InQuotes(b, i, q))

\* Such a place is the sign that RemarkSign finds.
LEMMA RemarkSignIs ==
  ASSUME NEW b, NEW i \in Nat, NEW e \in Nat, i <= e, NEW n, Signs(b, i, e, n)
  PROVE  RemarkSign(b, i, e) = n
<1> DEFINE S == {p \in i..(e - 1) : b[p] = Remark /\ ~InQuotes(b, i, p)} \union {e}
<1>1. S \subseteq Int /\ n \in S
  BY DEF Signs
<1>2. ASSUME NEW x \in S PROVE n <= x
  BY DEF Signs
<1> HIDE DEF S
<1>3. Min(S) = n
  BY <1>1, <1>2, MinIs
<1> QED BY <1>3 DEF RemarkSign, S

\* There is such a place in every line.
LEMMA RemarkSigns ==
  ASSUME NEW b, NEW i \in Nat, NEW e \in Nat, i <= e
  PROVE  Signs(b, i, e, RemarkSign(b, i, e))
<1> DEFINE S == {p \in i..(e - 1) : b[p] = Remark /\ ~InQuotes(b, i, p)} \union {e}
<1>1. S \subseteq Nat /\ S # {}
  OBVIOUS
<1>2. PICK n \in S : \A x \in S : n <= x
  <2> HIDE DEF S
  <2> QED BY <1>1, Least
<1>3. n \in i..e /\ (n = e \/ (b[n] = Remark /\ ~InQuotes(b, i, n)))
  OBVIOUS
<1>4. ASSUME NEW q \in i..(n - 1), b[q] = Remark, ~InQuotes(b, i, q) PROVE FALSE
  <2>1. q \in S /\ q < n
    BY <1>3, <1>4
  <2> QED BY <1>2, <1>3, <2>1
<1> QED BY <1>3, <1>4, RemarkSignIs DEF Signs

\* The first character of the line from i with its remark at n that is content is at f.
Leads(b, i, n, f) ==
  /\ f \in i..n
  /\ f = n \/ b[f] \notin Special
  /\ \A q \in i..(f - 1) : b[q] \in Special

\* Such a place is where the content starts.
LEMMA LeadIs ==
  ASSUME NEW b, NEW i \in Nat, NEW n \in Nat, NEW f, Leads(b, i, n, f)
  PROVE  Min({p \in i..(n - 1) : b[p] \notin Special} \union {n}) = f
<1> DEFINE S == {p \in i..(n - 1) : b[p] \notin Special} \union {n}
<1>1. S \subseteq Int /\ f \in S
  BY DEF Leads
<1>2. ASSUME NEW x \in S PROVE f <= x
  BY DEF Leads
<1> HIDE DEF S
<1>3. Min(S) = f
  BY <1>1, <1>2, MinIs
<1> QED BY <1>3 DEF S

\* There is such a place in every line.
LEMMA LeadExists ==
  ASSUME NEW b, NEW i \in Nat, NEW n \in Nat, i <= n
  PROVE  \E f : Leads(b, i, n, f)
<1> DEFINE S == {p \in i..(n - 1) : b[p] \notin Special} \union {n}
<1>1. S \subseteq Nat /\ S # {}
  OBVIOUS
<1>2. PICK f \in S : \A x \in S : f <= x
  <2> HIDE DEF S
  <2> QED BY <1>1, Least
<1>3. f \in i..n /\ (f = n \/ b[f] \notin Special)
  OBVIOUS
<1>4. ASSUME NEW q \in i..(f - 1), b[q] \notin Special PROVE FALSE
  <2>1. q \in S /\ q < f
    BY <1>3, <1>4
  <2> QED BY <1>2, <1>3, <2>1
<1> QED BY <1>3, <1>4 DEF Leads

\* Where its remark starts with the blanks before it, where the content ends, and
\* where the next line starts.
RemAt(b, i, e, n) == IF n = e THEN e ELSE n - Blanks(b, i, n)
ContentEnd(b, i, e, n) == RemAt(b, i, e, n) - Blanks(b, i, e) - 1
NextAt(b, e) == e + (IF e > Len(b) THEN 0 ELSE IF e < Len(b) /\ b[e + 1] = Lf THEN 2 ELSE 1)

ContentOf(b, i, e, n, f) == SubSeq(b, f, ContentEnd(b, i, e, n))
LineOf(b, i, e, n, f) ==
  [start |-> i, rem |-> RemAt(b, i, e, n), next |-> NextAt(b, e),
   content |-> ContentOf(b, i, e, n, f), kind |-> Kind(ContentOf(b, i, e, n, f))]

\* The line that starts at i, put together from where its parts are.
LEMMA LineIs ==
  ASSUME NEW b \in Seq(Token), NEW i \in 1..Len(b), NEW e, NEW n, NEW f,
         Ends(b, i, e), Signs(b, i, e, n), Leads(b, i, n, f)
  PROVE  /\ Line(b, i).start = i /\ Line(b, i).rem = RemAt(b, i, e, n)
         /\ Line(b, i).next = NextAt(b, e)
         /\ Line(b, i).content = ContentOf(b, i, e, n, f)
         /\ Line(b, i).kind = Kind(ContentOf(b, i, e, n, f))
<1>1. LineEnd(b, i) = e
  <2>1. i \in 1..(Len(b) + 1)
    OBVIOUS
  <2> QED BY <2>1, LineEndIs
<1>2. e \in Nat /\ n \in Nat /\ i <= e
  BY DEF Ends, Signs
<1>3. RemarkSign(b, i, e) = n
  BY <1>2, RemarkSignIs
<1>4. Min({p \in i..(n - 1) : b[p] \notin Special} \union {n}) = f
  BY <1>2, LeadIs
<1>5. Line(b, i) = Parts(b, i, e, n)
  BY <1>1, <1>3 DEF Line, PartsTo
<1>6. Parts(b, i, e, n) = LineOf(b, i, e, n, f)
  BY <1>4 DEF Parts, RemAt, NextAt, ContentEnd, ContentOf, LineOf
<1> QED BY <1>5, <1>6 DEF LineOf

-----------------------------------------------------------------------------
(* How many blanks and quotes there are.                                   *)

\* Sets of which one is the other moved by d.
LEMMA CardinalityMoved ==
  ASSUME NEW d \in Int, NEW S, S \subseteq Int, IsFiniteSet(S),
         NEW T, T = {x + d : x \in S}
  PROVE  Cardinality(T) = Cardinality(S)
<1> DEFINE f == [x \in S |-> x + d]
<1>1. f \in [S -> T] /\ \A t \in T : \E x \in S : f[x] = t
  OBVIOUS
<1>2. ASSUME NEW x \in S, NEW y \in S, f[x] = f[y] PROVE x = y
  <2>1. x \in Int /\ y \in Int /\ x + d = y + d
    BY <1>2
  <2> QED BY <2>1
<1>3. f \in Bijection(S, T)
  <2> HIDE DEF f
  <2> QED BY <1>1, <1>2 DEF Bijection, Injection, Surjection, IsInjective
<1>4. ExistsBijection(S, T)
  BY <1>3 DEF ExistsBijection
<1> HIDE DEF f
<1> QED BY <1>4, FS_Bijection

\* A set within an interval has as many elements as fit.
LEMMA PartOfInterval ==
  ASSUME NEW i \in Int, NEW p \in Int, i <= p, NEW S, S \subseteq i..(p - 1)
  PROVE  IsFiniteSet(S) /\ Cardinality(S) \in 0..(p - i)
<1>1. IsFiniteSet(i..(p - 1)) /\ Cardinality(i..(p - 1)) = p - i
  <2>1. p - 1 \in Int
    OBVIOUS
  <2>2. Cardinality(i..(p - 1)) = IF i > p - 1 THEN 0 ELSE (p - 1) - i + 1
    BY <2>1, FS_Interval
  <2>3. IsFiniteSet(i..(p - 1))
    BY <2>1, FS_Interval
  <2> QED BY <2>2, <2>3
<1>2. IsFiniteSet(S) /\ Cardinality(S) <= p - i
  <2> DEFINE T == i..(p - 1)
  <2>1. IsFiniteSet(T) /\ Cardinality(T) = p - i /\ S \in SUBSET T
    BY <1>1
  <2> HIDE DEF T
  <2>2. IsFiniteSet(S) /\ Cardinality(S) <= Cardinality(T)
    BY <2>1, FS_Subset
  <2> QED BY <2>1, <2>2
<1>3. Cardinality(S) \in Nat
  BY <1>2, FS_CardinalityType
<1> QED BY <1>2, <1>3

\* No more blanks are counted than there are characters.
LEMMA BlanksType ==
  ASSUME NEW b, NEW i \in Int, NEW p \in Int, i <= p
  PROVE  Blanks(b, i, p) \in 0..(p - i)
<1> DEFINE S == {q \in i..(p - 1) : b[q] = Blank /\ \A r \in q..(p - 1) : b[r] \in Special}
<1>1. S \subseteq i..(p - 1)
  OBVIOUS
<1> HIDE DEF S
<1>2. Cardinality(S) \in 0..(p - i)
  BY <1>1, PartOfInterval
<1> QED BY <1>2 DEF Blanks, S

\* The same characters d further on.
LEMMA CountsMoved ==
  ASSUME NEW b, NEW c, NEW d \in Int, NEW i \in Int, NEW p \in Int, i <= p,
         \A q \in i..(p - 1) : c[q + d] = b[q]
  PROVE  /\ Blanks(c, i + d, p + d) = Blanks(b, i, p)
         /\ InQuotes(c, i + d, p + d) <=> InQuotes(b, i, p)
<1> DEFINE B(t, j, k) == {q \in j..(k - 1) : t[q] = Blank /\ \A r \in q..(k - 1) : t[r] \in Special}
           Q(t, j, k) == {q \in j..(k - 1) : t[q] = Quote}
<1>1. \A q \in (i + d)..(p + d - 1) : q - d \in i..(p - 1) /\ c[q] = b[q - d] /\ (q - d) + d = q
  OBVIOUS
<1>2. B(c, i + d, p + d) = {x + d : x \in B(b, i, p)}
  <2>1. ASSUME NEW q \in B(c, i + d, p + d) PROVE q - d \in B(b, i, p) /\ q = (q - d) + d
    <3>1. q - d \in i..(p - 1) /\ b[q - d] = Blank /\ q = (q - d) + d
      BY <1>1
    <3>2. ASSUME NEW r \in (q - d)..(p - 1) PROVE b[r] \in Special
      <4>1. r + d \in q..(p + d - 1) /\ r \in i..(p - 1)
        BY <3>1
      <4> QED BY <4>1
    <3> QED BY <3>1, <3>2
  <2>2. ASSUME NEW x \in B(b, i, p) PROVE x + d \in B(c, i + d, p + d)
    <3>1. x + d \in (i + d)..(p + d - 1) /\ c[x + d] = Blank
      OBVIOUS
    <3>2. ASSUME NEW r \in (x + d)..(p + d - 1) PROVE c[r] \in Special
      <4>1. r - d \in x..(p - 1) /\ r \in (i + d)..(p + d - 1)
        BY <3>1
      <4> QED BY <1>1, <4>1
    <3> QED BY <3>1, <3>2
  <2> HIDE DEF B
  <2> QED BY <2>1, <2>2
<1>3. Q(c, i + d, p + d) = {x + d : x \in Q(b, i, p)}
  <2>1. ASSUME NEW q \in Q(c, i + d, p + d) PROVE q - d \in Q(b, i, p) /\ q = (q - d) + d
    BY <1>1
  <2>2. ASSUME NEW x \in Q(b, i, p) PROVE x + d \in Q(c, i + d, p + d)
    OBVIOUS
  <2> HIDE DEF Q
  <2> QED BY <2>1, <2>2
<1>4. B(b, i, p) \subseteq i..(p - 1) /\ Q(b, i, p) \subseteq i..(p - 1)
  OBVIOUS
<1> HIDE DEF B, Q
<1>5. Cardinality(B(c, i + d, p + d)) = Cardinality(B(b, i, p))
  <2>1. IsFiniteSet(B(b, i, p)) /\ B(b, i, p) \subseteq Int
    BY <1>4, PartOfInterval
  <2> QED BY <1>2, <2>1, CardinalityMoved
<1>6. Cardinality(Q(c, i + d, p + d)) = Cardinality(Q(b, i, p))
  <2>1. IsFiniteSet(Q(b, i, p)) /\ Q(b, i, p) \subseteq Int
    BY <1>4, PartOfInterval
  <2> QED BY <1>3, <2>1, CardinalityMoved
<1> QED BY <1>5, <1>6 DEF Blanks, InQuotes, B, Q

-----------------------------------------------------------------------------
(* A line depends on its own characters only.                              *)

\* The line that starts at i and the line feed behind it are in c as well, d further on.
Copied(b, i, c, d) ==
  /\ i + d \in 1..Len(c)
  /\ LineEnd(b, i) <= Len(b) /\ LineEnd(b, i) + d <= Len(c)
  /\ \A q \in i..LineEnd(b, i) : c[q + d] = b[q]

\* The places in a line move with it.
LEMMA PartsMoved ==
  ASSUME NEW b \in Seq(Token), NEW c \in Seq(Token), NEW d \in Int,
         NEW i \in 1..Len(b), Copied(b, i, c, d),
         NEW e, Ends(b, i, e), NEW n, Signs(b, i, e, n), NEW f, Leads(b, i, n, f)
  PROVE  /\ Ends(c, i + d, e + d) /\ Signs(c, i + d, e + d, n + d)
         /\ Leads(c, i + d, n + d, f + d)
         /\ \A p \in i..e : Blanks(c, i + d, p + d) = Blanks(b, i, p)
<1>1. /\ e = LineEnd(b, i) /\ e \in i..Len(b) /\ e + d <= Len(c) /\ i + d \in 1..Len(c)
      /\ n \in i..e /\ f \in i..n /\ \A q \in i..e : c[q + d] = b[q]
  <2>1. e = LineEnd(b, i)
    <3>1. i \in 1..(Len(b) + 1)
      OBVIOUS
    <3> QED BY <3>1, LineEndIs
  <2>2. e <= Len(b) /\ e + d <= Len(c) /\ i + d \in 1..Len(c) /\ \A q \in i..e : c[q + d] = b[q]
    BY <2>1 DEF Copied
  <2>3. e \in i..(Len(b) + 1) /\ n \in i..e /\ f \in i..n
    BY DEF Ends, Signs, Leads
  <2>4. e \in i..Len(b)
    BY <2>2, <2>3
  <2> QED BY <2>1, <2>2, <2>3, <2>4
<1>2. ASSUME NEW j \in Int, NEW q \in (i + d)..(j + d - 1), j <= e
      PROVE  q - d \in i..(j - 1) /\ (q - d) + d = q /\ q - d \in i..e /\ c[q] = b[q - d]
  <2>1. q - d \in i..(j - 1) /\ (q - d) + d = q /\ q - d \in i..e
    BY <1>1, <1>2
  <2> QED BY <1>1, <2>1
<1>3. Ends(c, i + d, e + d)
  <2>1. e + d \in (i + d)..(Len(c) + 1) /\ c[e + d] = Lf
    <3>1. e + d \in (i + d)..(Len(c) + 1)
      BY <1>1
    <3>2. c[e + d] = b[e] /\ e # Len(b) + 1
      BY <1>1
    <3>3. b[e] = Lf
      BY <3>2 DEF Ends
    <3> QED BY <3>1, <3>2, <3>3
  <2>2. ASSUME NEW q \in (i + d)..(e + d - 1) PROVE c[q] # Lf
    <3>1. q - d \in i..(e - 1) /\ c[q] = b[q - d]
      BY <1>1, <1>2, SMTT(30)
    <3> QED BY <3>1 DEF Ends
  <2> QED BY <2>1, <2>2 DEF Ends
<1>4. \A p \in i..e : /\ Blanks(c, i + d, p + d) = Blanks(b, i, p)
                      /\ InQuotes(c, i + d, p + d) <=> InQuotes(b, i, p)
  <2> TAKE p \in i..e
  <2>1. p \in Int /\ i \in Int /\ i <= p /\ \A q \in i..(p - 1) : c[q + d] = b[q]
    BY <1>1
  <2> QED BY <2>1, CountsMoved
<1>5. Signs(c, i + d, e + d, n + d)
  <2>1. n + d \in (i + d)..(e + d)
    BY <1>1
  <2>2. n + d = e + d \/ (c[n + d] = Remark /\ ~InQuotes(c, i + d, n + d))
    BY <1>1, <1>4 DEF Signs
  <2>3. ASSUME NEW q \in (i + d)..(n + d - 1)
        PROVE  ~(c[q] = Remark /\ ~InQuotes(c, i + d, q))
    <3>1. q - d \in i..(n - 1) /\ (q - d) + d = q /\ q - d \in i..e /\ c[q] = b[q - d]
      BY <1>1, <1>2
    <3>2. InQuotes(c, i + d, q) <=> InQuotes(b, i, q - d)
      BY <1>4, <3>1
    <3> QED BY <3>1, <3>2 DEF Signs
  <2> QED BY <2>1, <2>2, <2>3 DEF Signs
<1>6. Leads(c, i + d, n + d, f + d)
  <2>1. f + d \in (i + d)..(n + d)
    BY <1>1
  <2>2. f + d = n + d \/ c[f + d] \notin Special
    BY <1>1, SMTT(30) DEF Leads
  <2>3. ASSUME NEW q \in (i + d)..(f + d - 1) PROVE c[q] \in Special
    <3>1. q - d \in i..(f - 1) /\ c[q] = b[q - d]
      BY <1>1, <1>2, SMTT(30)
    <3> QED BY <3>1 DEF Leads
  <2> QED BY <2>1, <2>2, <2>3 DEF Leads
<1> QED BY <1>3, <1>4, <1>5, <1>6

\* The characters of a piece of text.
LEMMA SubSeqIs ==
  ASSUME NEW b \in Seq(Token), NEW m \in Int, NEW n \in Int, 1 <= m, n <= Len(b)
  PROVE  /\ SubSeq(b, m, n) \in Seq(Token)
         /\ Len(SubSeq(b, m, n)) = IF m <= n THEN n - m + 1 ELSE 0
         /\ \A k \in 1..(n - m + 1) : SubSeq(b, m, n)[k] = b[m + k - 1]
<1>1. \A k \in m..n : b[k] \in Token
  OBVIOUS
<1> QED BY <1>1, SubSeqProperties

\* A piece of a copy is a copy of the piece.
LEMMA SubSeqMoved ==
  ASSUME NEW b \in Seq(Token), NEW c \in Seq(Token), NEW d \in Int,
         NEW m \in 1..(Len(b) + 1), NEW n \in Int, n <= Len(b), m + d \in 1..(Len(c) + 1),
         n + d <= Len(c), \A q \in m..n : c[q + d] = b[q]
  PROVE  SubSeq(c, m + d, n + d) = SubSeq(b, m, n)
<1> DEFINE x == SubSeq(b, m, n)
           y == SubSeq(c, m + d, n + d)
<1>1. /\ x \in Seq(Token) /\ Len(x) = (IF m <= n THEN n - m + 1 ELSE 0)
      /\ \A k \in 1..(n - m + 1) : x[k] = b[m + k - 1]
  <2>1. m \in Int /\ 1 <= m
    OBVIOUS
  <2> QED BY <2>1, SubSeqIs, SMTT(60)
<1>2. /\ y \in Seq(Token) /\ Len(y) = (IF m + d <= n + d THEN (n + d) - (m + d) + 1 ELSE 0)
      /\ \A k \in 1..((n + d) - (m + d) + 1) : y[k] = c[(m + d) + k - 1]
  <2>1. m + d \in Int /\ n + d \in Int /\ 1 <= m + d
    OBVIOUS
  <2> QED BY <2>1, SubSeqIs
<1>3. (n + d) - (m + d) + 1 = n - m + 1 /\ (m + d <= n + d <=> m <= n)
  OBVIOUS
<1> HIDE DEF x, y
<1>4. Len(x) = Len(y)
  BY <1>1, <1>2, <1>3
<1>5. ASSUME NEW k \in 1..Len(x) PROVE x[k] = y[k]
  <2>1. k \in 1..(n - m + 1) /\ m + k - 1 \in m..n /\ (m + d) + k - 1 = (m + k - 1) + d
    BY <1>1
  <2> QED BY <1>1, <1>2, <1>3, <2>1
<1>6. x = y
  BY <1>1, <1>2, <1>4, <1>5, SeqEqual
<1> QED BY <1>6 DEF x, y

\* The line reads the same in c.
LEMMA LineMoved ==
  ASSUME NEW b \in Seq(Token), NEW c \in Seq(Token), NEW d \in Int,
         NEW i \in 1..Len(b), Copied(b, i, c, d)
  PROVE  /\ Line(c, i + d).content = Line(b, i).content
         /\ Line(c, i + d).kind = Line(b, i).kind
         /\ TidyRemark(b, i) => TidyRemark(c, i + d)
<1> DEFINE e == LineEnd(b, i)
           n == RemarkSign(b, i, e)
<1>1. Ends(b, i, e)
  BY LineEnds
<1>2. e \in i..Len(b) /\ e + d <= Len(c) /\ i + d \in 1..Len(c)
      /\ \A q \in i..e : c[q + d] = b[q]
  BY <1>1 DEF Copied, Ends
<1>3. Signs(b, i, e, n)
  <2>1. e \in Nat /\ i <= e
    BY <1>2
  <2> HIDE DEF e
  <2> QED BY <2>1, RemarkSigns
<1> HIDE DEF e, n
<1>4. n \in i..e
  BY <1>3 DEF Signs
<1>5. PICK f : Leads(b, i, n, f)
  <2>1. i \in Nat /\ n \in Nat /\ i <= n
    BY <1>2, <1>4
  <2> QED BY <2>1, LeadExists
<1>6. f \in i..n
  BY <1>5 DEF Leads
<1>7. /\ Ends(c, i + d, e + d) /\ Signs(c, i + d, e + d, n + d)
      /\ Leads(c, i + d, n + d, f + d)
      /\ \A p \in i..e : Blanks(c, i + d, p + d) = Blanks(b, i, p)
  BY <1>1, <1>3, <1>5, PartsMoved
<1> DEFINE rem == RemAt(b, i, e, n)
           last == ContentEnd(b, i, e, n)
           j == i + d
           g == f + d
           m == n + d
           h == e + d
<1>8. Blanks(b, i, n) \in 0..(n - i) /\ Blanks(b, i, e) \in 0..(e - i)
  <2>1. i \in Int /\ n \in Int /\ e \in Int /\ i <= n /\ i <= e
    BY <1>2, <1>4
  <2> QED BY <2>1, BlanksType
<1>9. Blanks(c, j, m) = Blanks(b, i, n) /\ Blanks(c, j, h) = Blanks(b, i, e)
  BY <1>2, <1>4, <1>7
<1>10. rem \in i..e /\ last \in Int /\ last <= e - 1
  <2> DEFINE x == Blanks(b, i, n)
             y == Blanks(b, i, e)
  <2>1. rem = IF n = e THEN e ELSE n - x
    BY DEF RemAt
  <2>2. last = rem - y - 1
    BY DEF ContentEnd
  <2>3. x \in 0..(n - i) /\ y \in 0..(e - i) /\ n \in i..e /\ e \in Int /\ i \in Int
    BY <1>2, <1>4, <1>8
  <2> HIDE DEF x, y, rem, last
  <2>4. rem \in i..e
    BY <2>1, <2>3
  <2> QED BY <2>2, <2>3, <2>4
<1>11. ContentEnd(c, j, h, m) = last + d
  <2> DEFINE x == Blanks(b, i, n)
             y == Blanks(b, i, e)
  <2>1. x \in Int /\ y \in Int /\ n \in Int /\ e \in Int
    BY <1>2, <1>4, <1>8
  <2>2. /\ ContentEnd(c, j, h, m) = (IF m = h THEN h ELSE m - x) - y - 1
        /\ last = (IF n = e THEN e ELSE n - x) - y - 1
    BY <1>9 DEF ContentEnd, RemAt
  <2> HIDE DEF x, y, last
  <2> QED BY <2>1, <2>2
<1>13. /\ Line(b, i).content = ContentOf(b, i, e, n, f)
       /\ Line(b, i).kind = Kind(ContentOf(b, i, e, n, f))
  BY <1>1, <1>3, <1>5, LineIs
<1>14. /\ Line(c, j).content = ContentOf(c, j, h, m, g)
       /\ Line(c, j).kind = Kind(ContentOf(c, j, h, m, g))
  <2>1. j \in 1..Len(c) /\ Ends(c, j, h) /\ Signs(c, j, h, m) /\ Leads(c, j, m, g)
    BY <1>2, <1>7
  <2> HIDE DEF j, g, m, h, last
  <2> QED BY <2>1, LineIs
<1>15. ContentOf(c, j, h, m, g) = ContentOf(b, i, e, n, f)
  <2>2. /\ ContentOf(c, j, h, m, g) = SubSeq(c, f + d, last + d)
        /\ ContentOf(b, i, e, n, f) = SubSeq(b, f, last)
    BY <1>11 DEF ContentOf
  <2> HIDE DEF last
  <2>1. f \in 1..(Len(b) + 1) /\ last <= Len(b) /\ f + d \in 1..(Len(c) + 1) /\ last + d <= Len(c)
        /\ \A q \in f..last : c[q + d] = b[q]
    BY <1>2, <1>4, <1>6, <1>10
  <2>3. SubSeq(c, f + d, last + d) = SubSeq(b, f, last)
    BY <1>10, <2>1, SubSeqMoved
  <2> QED BY <2>2, <2>3
<1>16. ASSUME TidyRemark(b, i) PROVE TidyRemark(c, i + d)
  <2>1. LineEnd(c, i + d) = e + d /\ RemarkSign(c, i + d, e + d) = n + d
    <3>1. LineEnd(c, i + d) = e + d
      <4>1. c \in Seq(Token) /\ i + d \in 1..(Len(c) + 1)
        BY <1>2
      <4> QED BY <1>7, <4>1, LineEndIs
    <3>2. i + d \in Nat /\ e + d \in Nat /\ i + d <= e + d
      BY <1>2
    <3> QED BY <1>7, <3>1, <3>2, RemarkSignIs
  <2>2. SUFFICES ASSUME n # e
        PROVE /\ \A q \in ((n + d) - Blanks(b, i, n))..((n + d) - 1) : c[q] = Blank
              /\ \E q \in ((n + d) + 1)..((e + d) - 1) :
                   c[q] \notin Special /\ \A r \in q..((e + d) - 1) : c[r] # Blank
    BY <1>9, <2>1 DEF TidyRemark
  <2>3. /\ \A q \in (n - Blanks(b, i, n))..(n - 1) : b[q] = Blank
        /\ \E q \in (n + 1)..(e - 1) :
              b[q] \notin Special /\ \A r \in q..(e - 1) : b[r] # Blank
    BY <1>16, <2>2 DEF TidyRemark, e, n
  <2>4. ASSUME NEW q \in ((n + d) - Blanks(b, i, n))..((n + d) - 1) PROVE c[q] = Blank
    <3>1. q - d \in (n - Blanks(b, i, n))..(n - 1) /\ q - d \in i..e /\ (q - d) + d = q
      BY <1>2, <1>4, <1>8, SMTT(30)
    <3> QED BY <1>2, <2>3, <3>1
  <2>5. PICK q \in (n + 1)..(e - 1) : b[q] \notin Special /\ \A r \in q..(e - 1) : b[r] # Blank
    BY <2>3
  <2>6. /\ q + d \in ((n + d) + 1)..((e + d) - 1) /\ c[q + d] \notin Special
    BY <1>2, <1>4, <2>5, SMTT(30)
  <2>7. ASSUME NEW r \in (q + d)..((e + d) - 1) PROVE c[r] # Blank
    <3>1. r - d \in q..(e - 1) /\ r - d \in i..e /\ (r - d) + d = r
      BY <1>2, <1>4, <2>5
    <3> QED BY <1>2, <2>5, <3>1
  <2> QED BY <2>4, <2>6, <2>7
<1> QED BY <1>13, <1>14, <1>15, <1>16

-----------------------------------------------------------------------------
(* The lines of a text.                                                    *)

\* The last line is ended.
Ended(b) == b \in Seq(Token) /\ (b # <<>> => Last(b) = Lf)

\* Every line of a text whose last line is ended has such places.
LEMMA PartsExist ==
  ASSUME NEW b, Ended(b), NEW i \in 1..Len(b)
  PROVE  \E e, n, f :
           /\ e \in i..Len(b) /\ n \in i..e /\ f \in i..n
           /\ e = LineEnd(b, i) /\ n = RemarkSign(b, i, e)
           /\ Ends(b, i, e) /\ Signs(b, i, e, n) /\ Leads(b, i, n, f)
<1> DEFINE e == LineEnd(b, i)
           n == RemarkSign(b, i, e)
<1>1. Ends(b, i, e)
  <2>1. i \in 1..(Len(b) + 1) /\ b \in Seq(Token)
    BY DEF Ended
  <2> QED BY <2>1, LineEnds
<1>2. e \in i..Len(b)
  <2>1. Len(b) \in Nat /\ b # <<>> /\ b[Len(b)] = Lf
    BY DEF Ended, Last
  <2> HIDE DEF e
  <2>2. e \in i..(Len(b) + 1) /\ \A q \in i..(e - 1) : b[q] # Lf
    BY <1>1 DEF Ends
  <2>3. e # Len(b) + 1
    BY <2>1, <2>2
  <2> QED BY <2>1, <2>2, <2>3
<1>3. Signs(b, i, e, n)
  <2>1. e \in Nat /\ i \in Nat /\ i <= e
    BY <1>2
  <2> HIDE DEF e
  <2> QED BY <2>1, RemarkSigns
<1>4. n \in i..e
  BY <1>3 DEF Signs
<1> HIDE DEF e, n
<1>5. PICK f : Leads(b, i, n, f)
  <2>1. i \in Nat /\ n \in Nat /\ i <= n
    BY <1>2, <1>4
  <2> QED BY <2>1, LeadExists
<1>6. f \in i..n
  BY <1>5 DEF Leads
<1> QED BY <1>1, <1>2, <1>3, <1>4, <1>5, <1>6 DEF e, n

\* After a line comes the next one, and nothing begins between them.
LEMMA NextLine ==
  ASSUME NEW b, Ended(b), NEW i \in 1..Len(b)
  PROVE  /\ Line(b, i).start = i
         /\ Line(b, i).next \in (i + 1)..(Len(b) + 1) /\ b[Line(b, i).next - 1] = Lf
         /\ \A p \in Starts(b) : p > i => p >= Line(b, i).next
         /\ b[i] = Lf => Line(b, i).kind = "empty"
<1>1. PICK e, n, f :
        /\ e \in i..Len(b) /\ n \in i..e /\ f \in i..n
        /\ Ends(b, i, e) /\ Signs(b, i, e, n) /\ Leads(b, i, n, f)
  BY PartsExist
<1>2. b \in Seq(Token) /\ Len(b) \in Nat
  BY DEF Ended
<1>3. /\ Line(b, i).start = i /\ Line(b, i).next = NextAt(b, e)
      /\ Line(b, i).kind = Kind(ContentOf(b, i, e, n, f))
  BY <1>1, <1>2, LineIs
<1>4. /\ NextAt(b, e) \in (i + 1)..(Len(b) + 1) /\ b[NextAt(b, e) - 1] = Lf
      /\ NextAt(b, e) = e + 1 \/ (NextAt(b, e) = e + 2 /\ b[e + 1] = Lf)
      /\ b[e] = Lf
  <2>1. b[e] = Lf
    BY <1>1, <1>2 DEF Ends
  <2>2. CASE e < Len(b) /\ b[e + 1] = Lf
    <3>1. NextAt(b, e) = e + 2
      BY <1>1, <1>2, <2>2 DEF NextAt
    <3>2. (e + 2) - 1 = e + 1 /\ e + 2 \in (i + 1)..(Len(b) + 1)
      BY <1>1, <1>2, <2>2
    <3> QED BY <2>1, <2>2, <3>1, <3>2
  <2>3. CASE ~(e < Len(b) /\ b[e + 1] = Lf)
    <3>1. NextAt(b, e) = e + 1
      BY <1>1, <1>2, <2>3 DEF NextAt
    <3>2. (e + 1) - 1 = e /\ e + 1 \in (i + 1)..(Len(b) + 1)
      BY <1>1, <1>2
    <3> QED BY <2>1, <3>1, <3>2
  <2> QED BY <2>2, <2>3
<1>5. ASSUME NEW p \in Starts(b), p > i PROVE p >= NextAt(b, e)
  <2>1. p \in 1..Len(b) /\ b[p] # Lf /\ b[p - 1] = Lf /\ p # 1
    BY <1>5 DEF Starts
  <2>2. ~(p - 1 \in i..(e - 1))
    BY <1>1, <2>1 DEF Ends
  <2>3. p >= e + 1
    BY <1>1, <1>5, <2>1, <2>2
  <2>4. p = e + 1 => b[e + 1] # Lf
    BY <2>1
  <2> QED BY <1>1, <1>4, <2>1, <2>3, <2>4
<1>6. ASSUME b[i] = Lf PROVE Kind(ContentOf(b, i, e, n, f)) = "empty"
  <2>1. e = i
    BY <1>1, <1>6 DEF Ends
  <2>2. n = i /\ f = i
    BY <1>1, <2>1
  <2>3. Blanks(b, i, i) = 0
    BY BlanksType
  <2>4. ContentEnd(b, i, e, n) = i - 1
    BY <2>1, <2>2, <2>3 DEF ContentEnd, RemAt
  <2>5. SubSeq(b, i, i - 1) = <<>>
    <3>1. i \in Int /\ i - 1 \in Int /\ i - 1 < i
      OBVIOUS
    <3> QED BY <3>1, SubSeqEmpty
  <2>6. ContentOf(b, i, e, n, f) = <<>>
    BY <2>2, <2>4, <2>5 DEF ContentOf
  <2> QED BY <2>6 DEF Kind, Contains
<1> QED BY <1>3, <1>4, <1>5, <1>6

\* f gives the lines from the last n characters of b on, as Lines defines it.
IsFrom(b, f, n) ==
  f = [i \in (Len(b) + 1 - n)..(Len(b) + 1) |->
         IF i > Len(b) THEN <<>> ELSE LET l == Line(b, i) IN <<l>> \o f[l.next]]

\* The recursive function that Lines reads a text with exists.
LEMMA FromExists ==
  ASSUME NEW b, Ended(b)
  PROVE  \E f : IsFrom(b, f, Len(b))
<1> DEFINE L == Len(b)
           S == {n \in Nat : n <= L => \E f : IsFrom(b, f, n)}
<1>1. L \in Nat
  BY DEF Ended
<1> HIDE DEF L
<1>2. 0 \in S
  <2> DEFINE f == [i \in (L + 1 - 0)..(L + 1) |-> <<>>]
  <2>1. \A i \in (L + 1 - 0)..(L + 1) : i > L
    BY <1>1
  <2>2. IsFrom(b, f, 0)
    BY <2>1 DEF IsFrom, L
  <2> QED BY <2>2
<1>3. ASSUME NEW n \in Nat, n \in S PROVE n + 1 \in S
  <2> SUFFICES ASSUME n + 1 <= L PROVE \E g : IsFrom(b, g, n + 1)
    OBVIOUS
  <2> DEFINE k == L + 1 - (n + 1)
  <2>1. /\ k \in 1..L /\ n <= L /\ k..(L + 1) = {k} \union ((L + 1 - n)..(L + 1))
        /\ k \notin (L + 1 - n)..(L + 1) /\ k + 1 = L + 1 - n
    BY <1>1
  <2>2. PICK f : IsFrom(b, f, n)
    BY <1>3, <2>1
  <2> DEFINE w == <<Line(b, k)>> \o f[Line(b, k).next]
             g == [i \in k..(L + 1) |-> IF i = k THEN w ELSE f[i]]
  <2>3. Line(b, k).next \in (L + 1 - n)..(L + 1)
    <3> HIDE DEF k
    <3>1. Line(b, k).next \in (k + 1)..(L + 1)
      BY <2>1, NextLine DEF L
    <3> QED BY <2>1, <3>1
  <2> HIDE DEF k
  <2>4. ASSUME NEW i \in k..(L + 1)
        PROVE  g[i] = IF i > L THEN <<>> ELSE <<Line(b, i)>> \o g[Line(b, i).next]
    <3>1. CASE i = k
      <4>1. g[i] = w /\ ~(i > L)
        <5> HIDE DEF w
        <5> QED BY <1>1, <2>1, <3>1
      <4>2. g[Line(b, k).next] = f[Line(b, k).next]
        <5> HIDE DEF w
        <5> QED BY <2>1, <2>3
      <4> QED BY <3>1, <4>1, <4>2
    <3>2. CASE i \in (L + 1 - n)..(L + 1)
      <4>1. g[i] = f[i]
        BY <2>1, <3>2
      <4>2. f[i] = IF i > L THEN <<>> ELSE <<Line(b, i)>> \o f[Line(b, i).next]
        BY <2>2, <3>2 DEF IsFrom, L
      <4>3. ASSUME ~(i > L) PROVE g[Line(b, i).next] = f[Line(b, i).next]
        <5>1. i \in 1..L
          BY <1>1, <2>1, <4>3
        <5>2. Line(b, i).next \in (i + 1)..(L + 1)
          BY <5>1, NextLine DEF L
        <5>3. Line(b, i).next \in (L + 1 - n)..(L + 1)
          BY <1>1, <2>1, <3>2, <5>1, <5>2
        <5> QED BY <2>1, <5>3
      <4> QED BY <4>1, <4>2, <4>3
    <3> QED BY <2>1, <3>1, <3>2
  <2>5. IsFrom(b, g, n + 1)
    <3>1. g = [i \in k..(L + 1) |-> g[i]]
      OBVIOUS
    <3> HIDE DEF g
    <3>2. g = [i \in k..(L + 1) |-> IF i > L THEN <<>> ELSE <<Line(b, i)>> \o g[Line(b, i).next]]
      BY <2>4, <3>1
    <3> QED BY <3>2 DEF IsFrom, L, k
  <2> QED BY <2>5
<1>4. L \in S
  <2> HIDE DEF S
  <2> QED BY <1>1, <1>2, <1>3, SetInduction
<1> QED BY <1>1, <1>4 DEF L

\* Lines is what that function makes of the first line.
LEMMA LinesFrom ==
  ASSUME NEW b, Ended(b)
  PROVE  \E f : IsFrom(b, f, Len(b)) /\ Lines(b) = f[1]
<1>1. Len(b) + 1 - Len(b) = 1
  BY DEF Ended
<1> DEFINE f == CHOOSE f : f = [i \in 1..(Len(b) + 1) |->
                  IF i > Len(b) THEN <<>> ELSE LET l == Line(b, i) IN <<l>> \o f[l.next]]
<1>2. f = [i \in 1..(Len(b) + 1) |->
             IF i > Len(b) THEN <<>> ELSE LET l == Line(b, i) IN <<l>> \o f[l.next]]
  <2>1. \E g : g = [i \in 1..(Len(b) + 1) |->
             IF i > Len(b) THEN <<>> ELSE LET l == Line(b, i) IN <<l>> \o g[l.next]]
    <3>1. PICK g : IsFrom(b, g, Len(b))
      BY FromExists
    <3> QED BY <1>1, <3>1 DEF IsFrom
  <2> QED BY <2>1
<1>3. Lines(b) = f[1]
  BY DEF Lines
<1> HIDE DEF f
<1> QED BY <1>1, <1>2, <1>3 DEF IsFrom

\* ls are the lines from i on: in order, none left out that is not empty.
InOrder(b, i, ls) ==
  /\ ls \in Seq({Line(b, p) : p \in 1..Len(b)})
  /\ \A j \in 1..Len(ls) :
       /\ ls[j].start \in i..Len(b) /\ ls[j] = Line(b, ls[j].start)
       /\ ls[j].start \in Starts(b) \/ ls[j].kind = "empty"
  /\ \A j, k \in 1..Len(ls) : j < k => ls[j].start < ls[k].start
  /\ \A p \in Starts(b) : p >= i => \E j \in 1..Len(ls) : ls[j].start = p

\* A line in front of lines in order makes lines in order.
LEMMA InOrderFrom ==
  ASSUME NEW b, Ended(b), NEW i \in 1..Len(b), i = 1 \/ b[i - 1] = Lf,
         NEW rest, InOrder(b, Line(b, i).next, rest)
  PROVE  InOrder(b, i, <<Line(b, i)>> \o rest)
<1> DEFINE X == {Line(b, p) : p \in 1..Len(b)}
           l == Line(b, i)
           m == Line(b, i).next
           ls == <<l>> \o rest
<1>1. /\ l.start = i /\ m \in (i + 1)..(Len(b) + 1)
      /\ \A p \in Starts(b) : p > i => p >= m
      /\ b[i] = Lf => l.kind = "empty"
  BY NextLine
<1>2. i \in Starts(b) \/ l.kind = "empty"
  BY <1>1 DEF Starts
<1>3. l \in X
  OBVIOUS
<1>4. /\ rest \in Seq(X) /\ Len(b) \in Nat
      /\ \A j \in 1..Len(rest) :
           /\ rest[j].start \in m..Len(b) /\ rest[j] = Line(b, rest[j].start)
           /\ rest[j].start \in Starts(b) \/ rest[j].kind = "empty"
      /\ \A j, k \in 1..Len(rest) : j < k => rest[j].start < rest[k].start
      /\ \A p \in Starts(b) : p >= m => \E j \in 1..Len(rest) : rest[j].start = p
  BY DEF InOrder, Ended
<1> HIDE DEF X, l, m
<1>5. /\ ls \in Seq(X) /\ Len(ls) = Len(rest) + 1 /\ ls[1] = l
      /\ \A j \in 1..Len(rest) : ls[j + 1] = rest[j]
  <2>1. <<l>> \in Seq(X) /\ Len(<<l>>) = 1 /\ <<l>>[1] = l
    BY <1>3
  <2>2. /\ ls \in Seq(X) /\ Len(ls) = 1 + Len(rest)
        /\ \A j \in 1..(1 + Len(rest)) : ls[j] = IF j <= 1 THEN <<l>>[1] ELSE rest[j - 1]
    <3>1. /\ ls \in Seq(X) /\ Len(ls) = Len(<<l>>) + Len(rest)
          /\ \A j \in 1..(Len(<<l>>) + Len(rest)) :
               ls[j] = IF j <= Len(<<l>>) THEN <<l>>[j] ELSE rest[j - Len(<<l>>)]
      BY <1>4, <2>1, ConcatProperties
    <3> HIDE DEF ls
    <3> QED BY <2>1, <3>1
  <2> HIDE DEF ls
  <2>3. Len(rest) \in Nat
    BY <1>4
  <2>4. ls[1] = l
    BY <2>1, <2>2, <2>3
  <2>5. ASSUME NEW j \in 1..Len(rest) PROVE ls[j + 1] = rest[j]
    <3>1. j + 1 \in 1..(1 + Len(rest)) /\ ~(j + 1 <= 1) /\ (j + 1) - 1 = j
      BY <2>3
    <3> QED BY <2>2, <3>1
  <2> QED BY <2>2, <2>3, <2>4, <2>5
<1> HIDE DEF ls
<1>6. Len(rest) \in Nat /\ Len(ls) \in Nat
  BY <1>4, <1>5
<1>7. ASSUME NEW j \in 1..Len(ls)
      PROVE  \/ j = 1 /\ ls[j] = l
             \/ j - 1 \in 1..Len(rest) /\ ls[j] = rest[j - 1]
  <2>1. j = 1 \/ (j - 1 \in 1..Len(rest) /\ (j - 1) + 1 = j)
    BY <1>5, <1>6
  <2> QED BY <1>5, <2>1
<1>8. ASSUME NEW j \in 1..Len(ls)
      PROVE  /\ ls[j].start \in i..Len(b) /\ ls[j] = Line(b, ls[j].start)
             /\ ls[j].start \in Starts(b) \/ ls[j].kind = "empty"
  <2>1. CASE j = 1 /\ ls[j] = l
    BY <1>1, <1>2, <2>1 DEF l
  <2>2. CASE j - 1 \in 1..Len(rest) /\ ls[j] = rest[j - 1]
    <3>1. ls[j].start \in m..Len(b) /\ m \in Int /\ i < m
      BY <1>1, <1>4, <2>2
    <3>2. ls[j].start \in i..Len(b)
      BY <1>4, <3>1
    <3> QED BY <1>4, <2>2, <3>2
  <2> QED BY <1>7, <2>1, <2>2
<1>9. ASSUME NEW j \in 1..Len(ls), NEW k \in 1..Len(ls), j < k
      PROVE  ls[j].start < ls[k].start
  <2>1. k - 1 \in 1..Len(rest) /\ ls[k] = rest[k - 1]
    BY <1>6, <1>7, <1>9
  <2>2. ls[k].start \in m..Len(b)
    BY <1>4, <2>1
  <2>3. CASE j = 1 /\ ls[j] = l
    <3>1. ls[j].start = i
      BY <1>1, <2>3
    <3> QED BY <1>1, <1>4, <2>2, <3>1
  <2>4. CASE j - 1 \in 1..Len(rest) /\ ls[j] = rest[j - 1]
    <3>1. j - 1 < k - 1
      BY <1>6, <1>9
    <3> QED BY <1>4, <2>1, <2>4, <3>1
  <2> QED BY <1>7, <2>3, <2>4
<1>10. ASSUME NEW p \in Starts(b), p >= i
       PROVE  \E j \in 1..Len(ls) : ls[j].start = p
  <2>1. CASE p = i
    <3>1. 1 \in 1..Len(ls) /\ ls[1].start = p
      BY <1>1, <1>5, <1>6, <2>1
    <3> QED BY <3>1
  <2>2. CASE p # i
    <3>1. p \in Int
      BY <1>4 DEF Starts
    <3>2. p >= m
      BY <1>1, <1>10, <2>2, <3>1
    <3>3. PICK j \in 1..Len(rest) : rest[j].start = p
      BY <1>4, <3>2
    <3>4. j + 1 \in 1..Len(ls) /\ ls[j + 1] = rest[j]
      BY <1>5, <1>6
    <3> QED BY <3>3, <3>4
  <2> QED BY <2>1, <2>2
<1>11. InOrder(b, i, ls)
  BY <1>5, <1>8, <1>9, <1>10 DEF InOrder, X
<1> QED BY <1>11 DEF ls, l

\* Lines gives all the lines.
LEMMA AllLines ==
  ASSUME NEW b, Ended(b)
  PROVE  InOrder(b, 1, Lines(b))
<1> DEFINE L == Len(b)
           Begins(i) == i = 1 \/ i = L + 1 \/ b[i - 1] = Lf
<1>1. L \in Nat /\ b \in Seq(Token)
  BY DEF Ended
<1>2. PICK f : IsFrom(b, f, L) /\ Lines(b) = f[1]
  BY LinesFrom
<1> HIDE DEF L
<1>3. ASSUME NEW i \in 1..(L + 1)
      PROVE  f[i] = IF i > L THEN <<>> ELSE <<Line(b, i)>> \o f[Line(b, i).next]
  <2>1. L + 1 - L = 1
    BY <1>1
  <2> QED BY <1>2, <2>1 DEF IsFrom, L
<1> DEFINE S == {n \in Nat : n <= L => \A i \in (L + 1 - n)..(L + 1) :
                                          Begins(i) => InOrder(b, i, f[i])}
<1>4. 0 \in S
  <2> SUFFICES ASSUME NEW i \in (L + 1 - 0)..(L + 1) PROVE InOrder(b, i, f[i])
    OBVIOUS
  <2>1. i = L + 1 /\ i \in 1..(L + 1) /\ i > L
    BY <1>1
  <2>2. f[i] = <<>>
    BY <1>3, <2>1
  <2>3. <<>> \in Seq({Line(b, p) : p \in 1..Len(b)}) /\ Len(<<>>) = 0
    OBVIOUS
  <2>4. \A p \in Starts(b) : ~(p >= i)
    BY <1>1, <2>1 DEF Starts, L
  <2> QED BY <2>2, <2>3, <2>4 DEF InOrder
<1>5. ASSUME NEW n \in Nat, n \in S PROVE n + 1 \in S
  <2> SUFFICES ASSUME n + 1 <= L, NEW i \in (L + 1 - (n + 1))..(L + 1), Begins(i)
               PROVE  InOrder(b, i, f[i])
    OBVIOUS
  <2>1. n <= L /\ (i \in (L + 1 - n)..(L + 1) \/ i = L - n)
    BY <1>1
  <2>2. CASE i \in (L + 1 - n)..(L + 1)
    BY <1>5, <2>1, <2>2
  <2>3. CASE i = L - n
    <3> DEFINE m == Line(b, i).next
    <3>1. i \in 1..L /\ i \in 1..(L + 1) /\ ~(i > L) /\ i # L + 1
      BY <1>1, <2>3
    <3>2. m \in (i + 1)..(L + 1) /\ b[m - 1] = Lf
      BY <3>1, NextLine DEF L
    <3> HIDE DEF m
    <3>3. m \in (L + 1 - n)..(L + 1) /\ Begins(m)
      BY <1>1, <2>3, <3>1, <3>2
    <3>4. InOrder(b, m, f[m])
      BY <1>5, <2>1, <3>3
    <3>5. f[i] = <<Line(b, i)>> \o f[m]
      BY <1>3, <3>1 DEF m
    <3>6. i = 1 \/ b[i - 1] = Lf
      BY <3>1
    <3> QED BY <3>1, <3>4, <3>5, <3>6, InOrderFrom DEF m, L
  <2> QED BY <2>1, <2>2, <2>3
<1>6. L \in S
  <2> HIDE DEF S
  <2> QED BY <1>1, <1>4, <1>5, SetInduction
<1>7. 1 \in (L + 1 - L)..(L + 1) /\ Begins(1)
  BY <1>1
<1>8. InOrder(b, 1, f[1])
  BY <1>1, <1>6, <1>7
<1> QED BY <1>2, <1>8

-----------------------------------------------------------------------------
(* Get, said with the places of lines in the text.                         *)

IsSection(b, p) == p \in Starts(b) /\ Line(b, p).kind = "section"
Opens(b, s, p) == IsSection(b, p) /\ SectionName(Line(b, p)) = <<s>>
Gives(b, k, p) == p \in Starts(b) /\ Line(b, p).kind = "value" /\ KeyOf(Line(b, p)) = <<k>>

\* Section s of text b is the one that opens at a.
SectionStart(b, s, a) == Opens(b, s, a) /\ \A p : Opens(b, s, p) => a <= p

\* Place q is in the section that opens at a.
Among(b, a, q) == a < q /\ \A p \in (a + 1)..q : ~IsSection(b, p)

\* The line at q is the one that gives key k of section s its value.
KeyAt(b, s, k, q) ==
  /\ Gives(b, k, q)
  /\ \E a : /\ SectionStart(b, s, a) /\ Among(b, a, q)
            /\ \A r : Gives(b, k, r) /\ Among(b, a, r) => q <= r

\* What a line says a key's value is.
Reads(l) == IF ValueOf(l) = <<>> THEN <<Default>> ELSE Unquoted(ValueOf(l))

\* Every line that begins in the text and is not empty is among its lines.
LEMMA PlaceOf ==
  ASSUME NEW b, Ended(b), NEW p \in Starts(b)
  PROVE  \E j \in 1..Len(Lines(b)) : Lines(b)[j].start = p /\ Lines(b)[j] = Line(b, p)
<1>1. p >= 1
  BY DEF Starts
<1>2. InOrder(b, 1, Lines(b))
  BY AllLines
<1>3. PICK j \in 1..Len(Lines(b)) : Lines(b)[j].start = p
  BY <1>1, <1>2 DEF InOrder
<1>4. Lines(b)[j] = Line(b, Lines(b)[j].start)
  BY <1>2 DEF InOrder
<1> QED BY <1>3, <1>4

\* SectionAt finds the first line that opens the section.
LEMMA SectionAtIs ==
  ASSUME NEW b, Ended(b), NEW s
  PROVE  LET ls == Lines(b)
             at == SectionAt(ls, s)
         IN /\ at \in 0..Len(ls)
            /\ at = 0 => \A p : ~Opens(b, s, p)
            /\ at # 0 => SectionStart(b, s, ls[at].start)
<1> DEFINE ls == Lines(b)
           I == {j \in 1..Len(ls) : ls[j].kind = "section" /\ SectionName(ls[j]) = <<s>>}
<1>1. InOrder(b, 1, ls)
  BY AllLines
<1>2. Len(ls) \in Nat
  BY <1>1 DEF InOrder
<1>3. SectionAt(ls, s) = IF I # {} THEN Min(I) ELSE 0
  BY DEF SectionAt, SelectInSeq
<1>4. ASSUME NEW p, Opens(b, s, p) PROVE \E j \in I : ls[j].start = p
  <2>1. PICK j \in 1..Len(ls) : ls[j].start = p /\ ls[j] = Line(b, p)
    BY <1>4, PlaceOf DEF Opens, IsSection
  <2> QED BY <1>4, <2>1 DEF Opens, IsSection
<1>5. CASE I = {}
  BY <1>2, <1>3, <1>4, <1>5
<1>6. CASE I # {}
  <2>1. PICK m \in I : \A x \in I : m <= x
    <3>1. I \subseteq Nat
      OBVIOUS
    <3> HIDE DEF I
    <3> QED BY <1>6, <3>1, Least
  <2>2. Min(I) = m
    <3>1. I \subseteq Int
      OBVIOUS
    <3> HIDE DEF I
    <3> QED BY <2>1, <3>1, MinIs
  <2>3. /\ m \in 1..Len(ls) /\ ls[m].kind = "section" /\ SectionName(ls[m]) = <<s>>
        /\ ls[m] = Line(b, ls[m].start)
        /\ ls[m].start \in Starts(b) \/ ls[m].kind = "empty"
    BY <1>1, <2>1 DEF InOrder
  <2>4. Opens(b, s, ls[m].start)
    BY <2>3 DEF Opens, IsSection
  <2>5. ASSUME NEW p, Opens(b, s, p) PROVE ls[m].start <= p
    <3>1. PICK j \in I : ls[j].start = p
      BY <1>4, <2>5
    <3>2. m <= j /\ j \in 1..Len(ls)
      BY <2>1, <3>1
    <3>3. m < j => ls[m].start < ls[j].start
      BY <1>1, <2>3, <3>2 DEF InOrder
    <3>4. ls[m].start \in Int /\ ls[j].start \in Int
      BY <1>1, <2>3, <3>2 DEF InOrder, Ended
    <3>5. m = j \/ m < j
      BY <2>3, <3>2
    <3> QED BY <3>1, <3>3, <3>4, <3>5
  <2> HIDE DEF ls, I
  <2>6. SectionAt(ls, s) = m /\ m # 0 /\ m \in 0..Len(ls)
    BY <1>2, <1>3, <1>6, <2>2, <2>3
  <2>7. SectionStart(b, s, ls[m].start)
    BY <2>4, <2>5 DEF SectionStart
  <2> QED BY <2>6, <2>7 DEF ls
<1> QED BY <1>5, <1>6

\* Within is the lines that stand behind the opening and before another section.
LEMMA WithinIs ==
  ASSUME NEW b, Ended(b), NEW at \in 1..Len(Lines(b))
  PROVE  LET ls == Lines(b)
         IN \A j \in 1..Len(ls) : j \in Within(ls, at) <=> Among(b, ls[at].start, ls[j].start)
<1> DEFINE ls == Lines(b)
           I == {j \in (at + 1)..Len(ls) : ls[j].kind = "section"}
           other == IF I # {} THEN Min(I) ELSE 0
           a == ls[at].start
<1>1. InOrder(b, 1, ls)
  BY AllLines
<1>2. Len(ls) \in Nat /\ Len(b) \in Nat
  BY <1>1 DEF InOrder, Ended
<1>3. Within(ls, at) = (at + 1)..(IF other = 0 THEN Len(ls) ELSE other - 1)
  BY DEF Within, SelectInSubSeq
<1>4. \A j \in 1..Len(ls) : ls[j].start \in Int
  BY <1>1, <1>2 DEF InOrder
<1>5. \A j, k \in 1..Len(ls) : j < k => ls[j].start < ls[k].start
  BY <1>1 DEF InOrder
<1>6. I = {} => other = 0
  OBVIOUS
<1>7. I # {} => other \in I /\ \A x \in I : other <= x
  <2> SUFFICES ASSUME I # {} PROVE other \in I /\ \A x \in I : other <= x
    OBVIOUS
  <2>1. I \subseteq Nat /\ I \subseteq Int
    OBVIOUS
  <2> HIDE DEF I
  <2>2. PICK m \in I : \A x \in I : m <= x
    BY <2>1, Least
  <2>3. Min(I) = m
    BY <2>1, <2>2, MinIs
  <2> QED BY <2>2, <2>3
<1>8. ASSUME NEW p, IsSection(b, p), p > a PROVE \E i \in I : ls[i].start = p
  <2>1. PICK i \in 1..Len(ls) : ls[i].start = p /\ ls[i] = Line(b, p)
    BY <1>8, PlaceOf DEF IsSection
  <2>2. i \in (at + 1)..Len(ls)
    <3>1. ~(i < at) /\ i # at
      BY <1>4, <1>5, <1>8, <2>1
    <3> QED BY <1>2, <3>1
  <2> QED BY <1>8, <2>1, <2>2 DEF IsSection
<1>9. ASSUME NEW i \in I PROVE IsSection(b, ls[i].start) /\ i \in (at + 1)..Len(ls)
  <2>1. i \in 1..Len(ls) /\ i \in (at + 1)..Len(ls) /\ ls[i].kind = "section"
    OBVIOUS
  <2>2. ls[i] = Line(b, ls[i].start) /\ (ls[i].start \in Starts(b) \/ ls[i].kind = "empty")
    BY <1>1, <2>1 DEF InOrder
  <2> QED BY <2>1, <2>2 DEF IsSection
<1> HIDE DEF I, ls
<1>10. ASSUME NEW j \in 1..Len(ls), j \in Within(ls, at) PROVE Among(b, a, ls[j].start)
  <2>1. j \in (at + 1)..(IF other = 0 THEN Len(ls) ELSE other - 1)
    BY <1>3, <1>10
  <2>2. at \in 1..Len(ls) /\ at < j
    BY <1>2, <2>1 DEF ls
  <2>3. a < ls[j].start
    BY <1>5, <2>2
  <2>4. ASSUME NEW p \in (a + 1)..ls[j].start, IsSection(b, p) PROVE FALSE
    <3>1. p > a /\ p <= ls[j].start
      BY <1>4, <2>2, <2>4
    <3>2. PICK i \in I : ls[i].start = p
      BY <1>8, <2>4, <3>1
    <3>3. i \in (at + 1)..Len(ls) /\ other <= i /\ other \in (at + 1)..Len(ls)
      BY <1>7, <1>9, <3>2
    <3>4. j < i
      BY <1>2, <2>1, <2>2, <3>3
    <3>5. ls[j].start < ls[i].start
      BY <1>2, <1>5, <2>2, <3>3, <3>4
    <3> QED BY <1>4, <2>4, <3>1, <3>2, <3>3, <3>5
  <2> QED BY <2>3, <2>4 DEF Among
<1>11. ASSUME NEW j \in 1..Len(ls), Among(b, a, ls[j].start) PROVE j \in Within(ls, at)
  <2>1. at \in 1..Len(ls)
    BY DEF ls
  <2>2. a < ls[j].start /\ \A p \in (a + 1)..ls[j].start : ~IsSection(b, p)
    BY <1>11 DEF Among
  <2>3. at < j
    <3>1. ~(j < at) /\ j # at
      BY <1>4, <1>5, <2>1, <2>2
    <3> QED BY <1>2, <2>1, <3>1
  <2>4. ASSUME other # 0 PROVE j < other
    <3>1. other \in I
      BY <1>6, <1>7, <2>4
    <3>2. IsSection(b, ls[other].start) /\ other \in (at + 1)..Len(ls)
      BY <1>9, <3>1
    <3> HIDE DEF other
    <3>3. other \in 1..Len(ls) /\ a < ls[other].start
      <4>1. other \in 1..Len(ls) /\ at < other
        BY <1>2, <2>1, <3>2
      <4> QED BY <1>5, <2>1, <4>1
    <3>4. ~(ls[other].start <= ls[j].start)
      BY <1>4, <2>1, <2>2, <3>2, <3>3
    <3>5. other # j /\ ~(other < j)
      BY <1>4, <1>5, <3>3, <3>4
    <3> QED BY <1>2, <3>3, <3>5
  <2>5. other = 0 \/ other \in Nat
    BY <1>2, <1>6, <1>7, <1>9
  <2> HIDE DEF other
  <2>6. j \in (at + 1)..(IF other = 0 THEN Len(ls) ELSE other - 1)
    BY <1>2, <2>1, <2>3, <2>4, <2>5
  <2> QED BY <1>3, <2>6
<1> QED BY <1>10, <1>11 DEF ls

\* The lines that Get and iniSetString find.
LEMMA FoundIs ==
  ASSUME NEW b, Ended(b), NEW s, NEW k, SectionAt(Lines(b), s) # 0
  PROVE  LET ls == Lines(b)
             found == KeyLines(ls, SectionAt(ls, s), k)
         IN /\ found = {} => \A q : ~KeyAt(b, s, k, q)
            /\ found # {} => /\ KeyAt(b, s, k, ls[First(found)].start)
                             /\ ls[First(found)] = Line(b, ls[First(found)].start)
<1> DEFINE ls == Lines(b)
           at == SectionAt(ls, s)
           a == ls[at].start
           found == KeyLines(ls, at, k)
<1>1. InOrder(b, 1, ls)
  BY AllLines
<1>2. Len(ls) \in Nat /\ Len(b) \in Nat
  BY <1>1 DEF InOrder, Ended
<1>3. at \in 1..Len(ls) /\ SectionStart(b, s, a)
  <2>1. at \in 0..Len(ls) /\ at # 0 /\ SectionStart(b, s, a)
    BY SectionAtIs
  <2> HIDE DEF at, ls, a
  <2> QED BY <1>2, <2>1
<1>4. \A j \in 1..Len(ls) : j \in Within(ls, at) <=> Among(b, a, ls[j].start)
  <2> HIDE DEF at
  <2> QED BY <1>3, WithinIs
<1>5. found \subseteq 1..Len(ls)
  <2>1. Within(ls, at) \subseteq 1..Len(ls)
    <3> DEFINE I == {j \in (at + 1)..Len(ls) : ls[j].kind = "section"}
               other == IF I # {} THEN Min(I) ELSE 0
    <3>1. Within(ls, at) = (at + 1)..(IF other = 0 THEN Len(ls) ELSE other - 1)
      BY DEF Within, SelectInSubSeq
    <3>2. other = 0 \/ (other \in (at + 1)..Len(ls))
      <4> SUFFICES ASSUME I # {} PROVE Min(I) \in I
        OBVIOUS
      <4>1. I \subseteq Nat /\ I \subseteq Int
        BY <1>2, <1>3
      <4> HIDE DEF I
      <4>2. PICK m \in I : \A x \in I : m <= x
        BY <4>1, Least
      <4> QED BY <4>1, <4>2, MinIs
    <3> HIDE DEF I, other, at, ls
    <3> QED BY <1>2, <1>3, <3>1, <3>2
  <2> QED BY <2>1 DEF KeyLines
<1>6. ASSUME NEW j \in found
      PROVE  /\ j \in 1..Len(ls) /\ Gives(b, k, ls[j].start) /\ Among(b, a, ls[j].start)
             /\ ls[j] = Line(b, ls[j].start)
  <2>1. j \in 1..Len(ls) /\ j \in Within(ls, at) /\ ls[j].kind = "value" /\ KeyOf(ls[j]) = <<k>>
    BY <1>5 DEF KeyLines
  <2>2. ls[j] = Line(b, ls[j].start) /\ (ls[j].start \in Starts(b) \/ ls[j].kind = "empty")
    BY <1>1, <2>1 DEF InOrder
  <2> QED BY <1>4, <2>1, <2>2 DEF Gives
<1>7. ASSUME NEW r, Gives(b, k, r), Among(b, a, r) PROVE \E j \in found : ls[j].start = r
  <2>1. PICK j \in 1..Len(ls) : ls[j].start = r /\ ls[j] = Line(b, r)
    BY <1>7, PlaceOf DEF Gives
  <2>2. j \in Within(ls, at)
    BY <1>4, <1>7, <2>1
  <2>3. j \in found
    BY <1>7, <2>1, <2>2 DEF Gives, KeyLines
  <2> QED BY <2>1, <2>3
<1> HIDE DEF found, at, a, ls
<1>8. ASSUME found = {}, NEW q, KeyAt(b, s, k, q) PROVE FALSE
  <2>1. PICK c : SectionStart(b, s, c) /\ Among(b, c, q)
    BY <1>8 DEF KeyAt
  <2>2. c <= a /\ a <= c /\ a \in Int /\ c \in Int
    BY <1>2, <1>3, <2>1, SMTT(30) DEF SectionStart, Opens, IsSection, Starts
  <2>3. c = a
    BY <2>2
  <2> QED BY <1>7, <1>8, <2>1, <2>3 DEF KeyAt
<1>9. ASSUME found # {}
      PROVE  First(found) \in found /\ KeyAt(b, s, k, ls[First(found)].start)
  <2> DEFINE i == First(found)
  <2>1. i \in found /\ \A j \in found : i <= j
    <3>1. PICK m \in found : \A j \in found : m <= j
      <4>1. found \subseteq Nat
        BY <1>5
      <4> QED BY <1>9, <4>1, Least
    <3> QED BY <3>1 DEF First
  <2> HIDE DEF i
  <2>2. ASSUME NEW r, Gives(b, k, r), Among(b, a, r) PROVE ls[i].start <= r
    <3>1. PICK j \in found : ls[j].start = r
      BY <1>7, <2>2
    <3>2. i <= j /\ i \in 1..Len(ls) /\ j \in 1..Len(ls)
      BY <1>5, <2>1, <3>1
    <3>3. i < j => ls[i].start < ls[j].start
      BY <1>1, <3>2 DEF InOrder
    <3>4. ls[i].start \in Int /\ ls[j].start \in Int
      BY <1>1, <1>2, <3>2 DEF InOrder
    <3>5. i = j \/ i < j
      BY <3>2
    <3> QED BY <3>1, <3>3, <3>4, <3>5
  <2>3. KeyAt(b, s, k, ls[i].start)
    BY <1>3, <1>6, <2>1, <2>2 DEF KeyAt
  <2> QED BY <2>1, <2>3 DEF i
<1> QED BY <1>6, <1>8, <1>9 DEF found, at, ls

\* A setting has one line that counts.
LEMMA KeyUnique ==
  ASSUME NEW b, NEW s, NEW k, NEW q, NEW r, KeyAt(b, s, k, q), KeyAt(b, s, k, r)
  PROVE  q = r
<1>1. PICK a : /\ SectionStart(b, s, a) /\ Among(b, a, q)
               /\ \A p : Gives(b, k, p) /\ Among(b, a, p) => q <= p
  BY DEF KeyAt
<1>2. PICK c : /\ SectionStart(b, s, c) /\ Among(b, c, r)
               /\ \A p : Gives(b, k, p) /\ Among(b, c, p) => r <= p
  BY DEF KeyAt
<1>3. a \in Int /\ c \in Int /\ q \in Int /\ r \in Int /\ Gives(b, k, q) /\ Gives(b, k, r)
  BY <1>1, <1>2 DEF KeyAt, Gives, SectionStart, Opens, IsSection, Starts
<1>4. a <= c /\ c <= a
  BY <1>1, <1>2 DEF SectionStart
<1>5. a = c
  BY <1>3, <1>4
<1>6. q <= r /\ r <= q
  BY <1>1, <1>2, <1>3, <1>5
<1> QED BY <1>3, <1>6

\* What Get reads.
LEMMA GetIs ==
  ASSUME NEW b, Ended(b), NEW s, NEW k
  PROVE  /\ \A q : KeyAt(b, s, k, q) => Get(Lines(b), s, k) = Reads(Line(b, q))
         /\ (\A q : ~KeyAt(b, s, k, q)) => Get(Lines(b), s, k) = <<Default>>
<1> DEFINE ls == Lines(b)
           at == SectionAt(ls, s)
           found == IF at = 0 THEN {} ELSE KeyLines(ls, at, k)
<1>1. CASE at = 0
  <2>1. ASSUME NEW q PROVE ~KeyAt(b, s, k, q)
    <3>1. \A p : ~Opens(b, s, p)
      BY <1>1, SectionAtIs
    <3> QED BY <3>1 DEF KeyAt, SectionStart
  <2>2. Get(ls, s, k) = <<Default>>
    BY <1>1 DEF Get
  <2> QED BY <2>1, <2>2
<1>2. CASE at # 0
  <2>1. found = KeyLines(ls, at, k)
    BY <1>2
  <2>2. /\ found = {} => \A q : ~KeyAt(b, s, k, q)
        /\ found # {} => /\ KeyAt(b, s, k, ls[First(found)].start)
                         /\ ls[First(found)] = Line(b, ls[First(found)].start)
    BY <1>2, <2>1, FoundIs
  <2>3. Get(ls, s, k) = IF found = {} THEN <<Default>> ELSE Reads(ls[First(found)])
    BY DEF Get, Reads
  <2> HIDE DEF found, at, ls
  <2>4. CASE found = {}
    BY <2>2, <2>3, <2>4 DEF ls
  <2>5. CASE found # {}
    <3> DEFINE p == ls[First(found)].start
    <3>1. KeyAt(b, s, k, p) /\ Get(ls, s, k) = Reads(Line(b, p))
      BY <2>2, <2>3, <2>5
    <3>2. \A q : KeyAt(b, s, k, q) => q = p
      <4> HIDE DEF p
      <4> QED BY <3>1, KeyUnique
    <3> QED BY <3>1, <3>2 DEF ls
  <2> QED BY <2>4, <2>5
<1> QED BY <1>1, <1>2

-----------------------------------------------------------------------------
(* When a setting reads the same in another text.                          *)

\* phi takes the lines of b to lines of c with the same meaning for key k of section s,
\* in order; what else c has means nothing to it.
Maps(b, c, s, k, phi) ==
  /\ \A p \in Starts(b) : phi[p] \in Starts(c)
  /\ \A p, q \in Starts(b) : p < q => phi[p] < phi[q]
  /\ \A p \in Starts(b) :
       /\ IsSection(b, p) <=> IsSection(c, phi[p])
       /\ Opens(b, s, p) <=> Opens(c, s, phi[p])
       /\ Gives(b, k, p) <=> Gives(c, k, phi[p])
  /\ \A r \in Starts(c) : (\A p \in Starts(b) : r # phi[p]) =>
       /\ ~Opens(c, s, r)
       /\ IsSection(c, r) => \A p \in Starts(b) : phi[p] < r
       /\ \A a : SectionStart(c, s, a) /\ Among(c, a, r) => ~Gives(c, k, r)

\* The line that gives a setting is mapped to the line that gives it.
LEMMA KeyMoved ==
  ASSUME NEW b, NEW c, NEW s, NEW k, NEW phi, Maps(b, c, s, k, phi)
  PROVE  /\ \A q \in Starts(b) : KeyAt(b, s, k, q) <=> KeyAt(c, s, k, phi[q])
         /\ \A r : KeyAt(c, s, k, r) => \E q \in Starts(b) : r = phi[q]
<1>1. /\ \A p \in Starts(b) : p \in Int /\ phi[p] \in Starts(c) /\ phi[p] \in Int
      /\ \A r \in Starts(c) : r \in Int
  BY DEF Maps, Starts
<1>2. ASSUME NEW p \in Starts(b), NEW q \in Starts(b)
      PROVE  (p < q <=> phi[p] < phi[q]) /\ (p <= q <=> phi[p] <= phi[q])
  <2>1. /\ p < q => phi[p] < phi[q]
        /\ q < p => phi[q] < phi[p]
    BY DEF Maps
  <2>2. p = q => phi[p] = phi[q]
    OBVIOUS
  <2> QED BY <1>1, <2>1, <2>2
<1>3. ASSUME NEW p \in Starts(b)
      PROVE  /\ IsSection(b, p) <=> IsSection(c, phi[p])
             /\ Opens(b, s, p) <=> Opens(c, s, phi[p])
             /\ Gives(b, k, p) <=> Gives(c, k, phi[p])
  BY DEF Maps
<1>4. ASSUME NEW r, Opens(c, s, r) PROVE \E p \in Starts(b) : r = phi[p]
  <2>1. r \in Starts(c)
    BY <1>4 DEF Opens, IsSection
  <2> QED BY <1>4, <2>1 DEF Maps
<1>5. ASSUME NEW a \in Starts(b) PROVE SectionStart(b, s, a) <=> SectionStart(c, s, phi[a])
  <2>1. ASSUME SectionStart(b, s, a), NEW r, Opens(c, s, r) PROVE phi[a] <= r
    <3>1. PICK p \in Starts(b) : r = phi[p]
      BY <1>4, <2>1
    <3>2. Opens(b, s, p)
      BY <1>3, <2>1, <3>1
    <3>3. a <= p
      BY <2>1, <3>2 DEF SectionStart
    <3> QED BY <1>2, <3>1, <3>3
  <2>2. ASSUME SectionStart(c, s, phi[a]), NEW p, Opens(b, s, p) PROVE a <= p
    <3>1. p \in Starts(b)
      BY <2>2 DEF Opens, IsSection
    <3>2. phi[a] <= phi[p]
      BY <1>3, <2>2, <3>1 DEF SectionStart
    <3> QED BY <1>2, <3>1, <3>2
  <2> QED BY <1>3, <2>1, <2>2 DEF SectionStart
<1>6. ASSUME NEW a \in Starts(b), NEW q \in Starts(b)
      PROVE  Among(b, a, q) <=> Among(c, phi[a], phi[q])
  <2>1. ASSUME Among(b, a, q), NEW r \in (phi[a] + 1)..phi[q], IsSection(c, r) PROVE FALSE
    <3>1. r \in Starts(c) /\ phi[a] < r /\ r <= phi[q]
      BY <1>1, <2>1 DEF IsSection
    <3>2. PICK p \in Starts(b) : r = phi[p]
      <4>1. ~(phi[q] < r)
        BY <1>1, <3>1
      <4> QED BY <2>1, <3>1, <4>1 DEF Maps
    <3>3. a < p /\ p <= q /\ IsSection(b, p)
      BY <1>2, <1>3, <2>1, <3>1, <3>2
    <3>4. p \in (a + 1)..q
      BY <1>1, <3>3
    <3> QED BY <2>1, <3>3, <3>4 DEF Among
  <2>2. ASSUME Among(c, phi[a], phi[q]), NEW p \in (a + 1)..q, IsSection(b, p) PROVE FALSE
    <3>1. p \in Starts(b) /\ a < p /\ p <= q
      BY <1>1, <2>2 DEF IsSection
    <3>2. phi[a] < phi[p] /\ phi[p] <= phi[q] /\ IsSection(c, phi[p])
      BY <1>2, <1>3, <2>2, <3>1
    <3>3. phi[p] \in (phi[a] + 1)..phi[q]
      BY <1>1, <3>1, <3>2
    <3> QED BY <2>2, <3>2, <3>3 DEF Among
  <2> QED BY <1>2, <2>1, <2>2 DEF Among
<1>7. ASSUME NEW q \in Starts(b), KeyAt(b, s, k, q) PROVE KeyAt(c, s, k, phi[q])
  <2>1. PICK a : /\ SectionStart(b, s, a) /\ Among(b, a, q)
                 /\ \A r : Gives(b, k, r) /\ Among(b, a, r) => q <= r
    BY <1>7 DEF KeyAt
  <2>2. a \in Starts(b)
    BY <2>1 DEF SectionStart, Opens, IsSection
  <2>3. SectionStart(c, s, phi[a]) /\ Among(c, phi[a], phi[q]) /\ Gives(c, k, phi[q])
    BY <1>3, <1>5, <1>6, <1>7, <2>1, <2>2 DEF KeyAt
  <2>4. ASSUME NEW r, Gives(c, k, r), Among(c, phi[a], r) PROVE phi[q] <= r
    <3>1. r \in Starts(c)
      BY <2>4 DEF Gives
    <3>2. PICK p \in Starts(b) : r = phi[p]
      BY <2>3, <2>4, <3>1 DEF Maps
    <3>3. Gives(b, k, p) /\ Among(b, a, p)
      BY <1>3, <1>6, <2>2, <2>4, <3>2
    <3> QED BY <1>2, <2>1, <3>2, <3>3
  <2> QED BY <2>3, <2>4 DEF KeyAt
<1>8. ASSUME NEW r, KeyAt(c, s, k, r) PROVE \E q \in Starts(b) : r = phi[q] /\ KeyAt(b, s, k, q)
  <2>1. PICK x : /\ SectionStart(c, s, x) /\ Among(c, x, r)
                 /\ \A t : Gives(c, k, t) /\ Among(c, x, t) => r <= t
    BY <1>8 DEF KeyAt
  <2>2. PICK a \in Starts(b) : x = phi[a]
    BY <1>4, <2>1 DEF SectionStart
  <2>3. r \in Starts(c) /\ Gives(c, k, r)
    BY <1>8 DEF KeyAt, Gives
  <2>4. PICK q \in Starts(b) : r = phi[q]
    BY <2>1, <2>3 DEF Maps
  <2>5. SectionStart(b, s, a) /\ Among(b, a, q) /\ Gives(b, k, q)
    BY <1>3, <1>5, <1>6, <2>1, <2>2, <2>3, <2>4
  <2>6. ASSUME NEW t, Gives(b, k, t), Among(b, a, t) PROVE q <= t
    <3>1. t \in Starts(b)
      BY <2>6 DEF Gives
    <3>2. Gives(c, k, phi[t]) /\ Among(c, x, phi[t])
      BY <1>3, <1>6, <2>2, <2>6, <3>1
    <3> QED BY <1>2, <2>1, <2>4, <3>1, <3>2
  <2> QED BY <2>4, <2>5, <2>6 DEF KeyAt
<1>9. ASSUME NEW q \in Starts(b), KeyAt(c, s, k, phi[q]) PROVE KeyAt(b, s, k, q)
  <2>1. PICK p \in Starts(b) : phi[q] = phi[p] /\ KeyAt(b, s, k, p)
    BY <1>8, <1>9
  <2>2. ~(p < q) /\ ~(q < p)
    BY <1>1, <1>2, <2>1
  <2> QED BY <1>1, <2>1, <2>2
<1> QED BY <1>7, <1>8, <1>9

\* A setting whose line keeps its content reads the same.
LEMMA SameGet ==
  ASSUME NEW b, NEW c, Ended(b), Ended(c), NEW s, NEW k, NEW phi, Maps(b, c, s, k, phi),
         \A q \in Starts(b) : KeyAt(b, s, k, q) => Line(c, phi[q]).content = Line(b, q).content
  PROVE  Get(Lines(c), s, k) = Get(Lines(b), s, k)
<1>1. CASE \E q : KeyAt(b, s, k, q)
  <2>1. PICK q : KeyAt(b, s, k, q)
    BY <1>1
  <2>2. q \in Starts(b)
    BY <2>1 DEF KeyAt, Gives
  <2>3. KeyAt(c, s, k, phi[q])
    BY <2>1, <2>2, KeyMoved
  <2>4. Reads(Line(c, phi[q])) = Reads(Line(b, q))
    BY <2>1, <2>2 DEF Reads, ValueOf
  <2> QED BY <2>1, <2>3, <2>4, GetIs
<1>2. CASE \A q : ~KeyAt(b, s, k, q)
  <2>1. \A r : ~KeyAt(c, s, k, r)
    BY <1>2, KeyMoved
  <2> QED BY <1>2, <2>1, GetIs
<1> QED BY <1>1, <1>2

-----------------------------------------------------------------------------
(* The line that is written.                                               *)

Word(w) == w \in Token /\ w \notin Special \union {Equals, Opening, Closing}

\* What a setting is set to.
Input(v) == v = <<>> \/ \E w : Word(w) /\ v = <<w>>

\* Nothing is left of blanks.
LEMMA StripNone ==
  ASSUME NEW t \in Seq(Token), \A q \in 1..Len(t) : t[q] = Blank
  PROVE  Strip(t) = <<>>
<1>1. SelectInSeq(t, LAMBDA c : c # Blank) = 0
  BY DEF SelectInSeq
<1> QED BY <1>1 DEF Strip

\* One character is left when all the others are blanks.
LEMMA StripIs ==
  ASSUME NEW t \in Seq(Token), NEW i \in 1..Len(t), t[i] # Blank,
         \A q \in 1..Len(t) : q # i => t[q] = Blank
  PROVE  Strip(t) = <<t[i]>>
<1> DEFINE I == {q \in 1..Len(t) : t[q] # Blank}
<1>1. I = {i}
  OBVIOUS
<1>2. Min(I) = i /\ Max(I) = i
  <2>1. I \subseteq Int /\ i \in I /\ \A x \in I : i <= x /\ i >= x
    BY <1>1
  <2> HIDE DEF I
  <2>2. Min(I) = i
    BY <2>1, MinIs
  <2>3. Max(I) = i
    BY <2>1, MaxIs
  <2> QED BY <2>2, <2>3
<1>3. /\ SelectInSeq(t, LAMBDA c : c # Blank) = i
      /\ SelectLastInSeq(t, LAMBDA c : c # Blank) = i
  BY <1>1, <1>2 DEF SelectInSeq, SelectLastInSeq
<1>4. Strip(t) = SubSeq(t, i, i)
  <2> DEFINE first == SelectInSeq(t, LAMBDA c : c # Blank)
             last == SelectLastInSeq(t, LAMBDA c : c # Blank)
  <2>1. Strip(t) = IF first = 0 THEN <<>> ELSE SubSeq(t, first, last)
    BY DEF Strip
  <2>2. first = i /\ last = i /\ i # 0
    BY <1>3
  <2> HIDE DEF first, last
  <2> QED BY <2>1, <2>2
<1>5. SubSeq(t, i, i) = <<t[i]>>
  <2> DEFINE u == SubSeq(t, i, i)
  <2>1. i \in Int /\ 1 <= i /\ i <= Len(t) /\ t[i] \in Token
    OBVIOUS
  <2>2. u \in Seq(Token) /\ Len(u) = i - i + 1 /\ \A j \in 1..(i - i + 1) : u[j] = t[i + j - 1]
    BY <2>1, SubSeqIs
  <2> HIDE DEF u
  <2>3. Len(u) = 1 /\ u[1] = t[i]
    BY <2>1, <2>2
  <2>4. <<t[i]>> \in Seq(Token) /\ Len(<<t[i]>>) = 1 /\ <<t[i]>>[1] = t[i]
    BY <2>1
  <2>5. u = <<t[i]>>
    BY <2>2, <2>3, <2>4, SeqEqual
  <2> QED BY <2>5 DEF u
<1> QED BY <1>4, <1>5

\* t is what is left of an entry when the blanks behind it are taken off.
IsEntry(t, k, v) ==
  /\ t \in Seq(Token) /\ Len(t) = IF v = <<>> THEN 3 ELSE 5
  /\ t[1] = k /\ t[2] = Blank /\ t[3] = Equals
  /\ v # <<>> => t[4] = Blank /\ t[5] = v[1]

\* A line that says so gives the key the value.
LEMMA EntryRead ==
  ASSUME NEW k, Word(k), NEW v, Input(v), NEW l, IsEntry(l.content, k, v)
  PROVE  Kind(l.content) = "value" /\ KeyOf(l) = <<k>> /\ ValueOf(l) = v
<1> DEFINE t == l.content
<1>1. /\ t \in Seq(Token) /\ Len(t) \in 3..5 /\ (v = <<>> => Len(t) = 3)
      /\ (v # <<>> => Len(t) = 5)
      /\ t[1] = k /\ t[2] = Blank /\ t[3] = Equals
      /\ (v # <<>> => t[4] = Blank /\ t[5] = v[1])
  BY DEF IsEntry
<1>2. k \in Token /\ k # Opening /\ k # Equals /\ k # Blank /\ Blank # Equals
  BY DEF Word, Special, Opening, Equals, Blank
<1> HIDE DEF t
<1>3. Kind(t) = "value"
  <2>1. t # <<>> /\ Head(t) # Opening
    BY <1>1, <1>2
  <2>2. Contains(t, Equals)
    <3>1. 3 \in 1..Len(t)
      BY <1>1
    <3> QED BY <1>1, <3>1 DEF Contains
  <2> QED BY <2>1, <2>2 DEF Kind
<1>4. SelectInSeq(t, LAMBDA c : c = Equals) = 3
  <2> DEFINE I == {q \in 1..Len(t) : t[q] = Equals}
  <2>1. 3 \in I /\ I \subseteq Int
    BY <1>1
  <2>2. ASSUME NEW q \in I PROVE 3 <= q
    <3>1. q \in 1..Len(t) /\ q # 1 /\ q # 2
      BY <1>1, <1>2
    <3> QED BY <1>1, <3>1
  <2> HIDE DEF I
  <2>3. Min(I) = 3
    BY <2>1, <2>2, MinIs
  <2> QED BY <2>1, <2>3 DEF SelectInSeq, I
<1>5. KeyOf(l) = <<k>>
  <2> DEFINE u == SubSeq(t, 1, 2)
  <2>1. KeyOf(l) = Strip(u)
    BY <1>4 DEF KeyOf, t
  <2>2. u \in Seq(Token) /\ Len(u) = 2 /\ u[1] = k /\ u[2] = Blank
    <3>1. u \in Seq(Token) /\ Len(u) = 2 - 1 + 1 /\ \A j \in 1..(2 - 1 + 1) : u[j] = t[1 + j - 1]
      BY <1>1, SubSeqIs
    <3> HIDE DEF u
    <3>2. u[1] = t[1 + 1 - 1] /\ u[2] = t[1 + 2 - 1]
      BY <3>1
    <3> QED BY <1>1, <3>1, <3>2
  <2> HIDE DEF u
  <2>3. 1 \in 1..Len(u) /\ u[1] # Blank /\ \A q \in 1..Len(u) : q # 1 => u[q] = Blank
    BY <1>2, <2>2
  <2>4. Strip(u) = <<u[1]>>
    BY <2>2, <2>3, StripIs
  <2> QED BY <2>1, <2>2, <2>4
<1>6. ValueOf(l) = v
  <2> DEFINE u == SubSeq(t, 4, Len(t))
  <2>1. ValueOf(l) = Strip(u)
    BY <1>4 DEF ValueOf, t
  <2>2. /\ u \in Seq(Token) /\ Len(u) = IF 4 <= Len(t) THEN Len(t) - 4 + 1 ELSE 0
        /\ \A j \in 1..(Len(t) - 4 + 1) : u[j] = t[4 + j - 1]
    BY <1>1, SubSeqIs
  <2> HIDE DEF u
  <2>3. CASE v = <<>>
    <3>1. Len(u) = 0
      BY <1>1, <2>2, <2>3
    <3>2. \A q \in 1..Len(u) : u[q] = Blank
      BY <3>1
    <3>3. Strip(u) = <<>>
      BY <2>2, <3>2, StripNone
    <3> QED BY <2>1, <2>3, <3>3
  <2>4. CASE v # <<>>
    <3>1. PICK w : Word(w) /\ v = <<w>>
      BY <2>4 DEF Input
    <3>2. w # Blank
      BY <3>1 DEF Word, Special
    <3>3. Len(u) = 2 /\ u[1] = Blank /\ u[2] = w
      <4>1. Len(t) = 5 /\ t[4] = Blank /\ t[5] = w
        BY <1>1, <2>4, <3>1
      <4>2. u[1] = t[4 + 1 - 1] /\ u[2] = t[4 + 2 - 1]
        BY <2>2, <4>1
      <4> QED BY <2>2, <4>1, <4>2
    <3>4. 2 \in 1..Len(u) /\ u[2] # Blank /\ \A q \in 1..Len(u) : q # 2 => u[q] = Blank
      BY <3>2, <3>3
    <3>5. Strip(u) = <<u[2]>>
      BY <2>2, <3>4, StripIs
    <3> QED BY <2>1, <3>1, <3>3, <3>5
  <2> QED BY <2>3, <2>4
<1> QED BY <1>3, <1>5, <1>6 DEF t

\* The blanks behind an ordinary character are counted.
LEMMA BlanksAfter ==
  ASSUME NEW b, NEW i \in Int, NEW p \in Int, NEW m \in i..(p - 1), b[m] \notin Special,
         \A q \in (m + 1)..(p - 1) : b[q] = Blank
  PROVE  Blanks(b, i, p) = p - m - 1
<1> DEFINE S == {q \in i..(p - 1) : b[q] = Blank /\ \A r \in q..(p - 1) : b[r] \in Special}
<1>1. S = (m + 1)..(p - 1)
  <2>1. ASSUME NEW q \in S PROVE q \in (m + 1)..(p - 1)
    <3>1. q \in i..(p - 1) /\ ~(m \in q..(p - 1))
      BY <2>1
    <3> QED BY <3>1
  <2>2. ASSUME NEW q \in (m + 1)..(p - 1) PROVE q \in S
    <3>1. q \in i..(p - 1) /\ b[q] = Blank
      OBVIOUS
    <3>2. \A r \in q..(p - 1) : r \in (m + 1)..(p - 1)
      OBVIOUS
    <3> QED BY <3>1, <3>2 DEF Special
  <2> HIDE DEF S
  <2> QED BY <2>1, <2>2
<1>2. Cardinality((m + 1)..(p - 1)) = p - m - 1
  <2>1. m + 1 \in Int /\ p - 1 \in Int
    OBVIOUS
  <2>2. Cardinality((m + 1)..(p - 1)) = IF m + 1 > p - 1 THEN 0 ELSE (p - 1) - (m + 1) + 1
    BY <2>1, FS_Interval
  <2> QED BY <2>2
<1> QED BY <1>1, <1>2 DEF Blanks

\* Behind an ordinary character without blanks none is counted.
LEMMA BlanksNone ==
  ASSUME NEW b, NEW i \in Int, NEW p \in Int, NEW m \in i..(p - 1), b[m] \notin Special,
         \A q \in m..(p - 1) : b[q] # Blank
  PROVE  Blanks(b, i, p) = 0
<1> DEFINE S == {q \in i..(p - 1) : b[q] = Blank /\ \A r \in q..(p - 1) : b[r] \in Special}
<1>1. S = {}
  <2> SUFFICES ASSUME NEW q \in S PROVE FALSE
    OBVIOUS
  <2>1. q \in i..(p - 1) /\ ~(m \in q..(p - 1)) /\ ~(q \in m..(p - 1))
    OBVIOUS
  <2> QED BY <2>1
<1>2. Cardinality({}) = 0
  BY FS_EmptySet
<1> QED BY <1>1, <1>2 DEF Blanks

\* An entry is at x of c.
EntryAt(c, x, k, v) ==
  /\ c[x] = k /\ c[x + 1] = Blank /\ c[x + 2] = Equals /\ c[x + 3] = Blank
  /\ v # <<>> => c[x + 4] = v[1]

\* What follows an entry on its line, from g on: nothing, or blanks and a tidy remark at n.
Follows(c, g, n, e) ==
  /\ g \in Nat /\ n \in Nat /\ e \in Nat /\ g <= n /\ n <= e
  /\ \A q \in g..(n - 1) : c[q] = Blank
  /\ n = e => n = g
  /\ n # e => /\ c[n] = Remark
              /\ \E q \in (n + 1)..(e - 1) :
                   c[q] \notin Special /\ \A r \in q..(e - 1) : c[r] # Blank

\* What is written in place of a setting is read as that setting, and its remark is tidy.
LEMMA NewLine ==
  ASSUME NEW c \in Seq(Token), NEW x \in 1..Len(c), NEW k, Word(k), NEW v, Input(v),
         EntryAt(c, x, k, v), NEW e, Ends(c, x, e),
         NEW n, Follows(c, x + 4 + Len(v), n, e)
  PROVE  /\ Line(c, x).kind = "value" /\ KeyOf(Line(c, x)) = <<k>> /\ ValueOf(Line(c, x)) = v
         /\ TidyRemark(c, x)
<1> DEFINE m == IF v = <<>> THEN x + 2 ELSE x + 4
<1>1. /\ k \in Token /\ k \notin Special /\ Equals \notin Special
      /\ Blank # Remark /\ Blank # Quote
  BY DEF Word, Special, Equals, Blank, Remark, Quote, Lf
<1>2. v = <<>> \/ (Len(v) = 1 /\ v[1] \in Token /\ v[1] \notin Special /\ v # <<>>)
  BY DEF Input, Word
<1>3. Len(v) = (IF v = <<>> THEN 0 ELSE 1)
  BY <1>2
<1>4. /\ x \in Nat /\ 1 <= x /\ e \in Nat /\ n \in Nat /\ m \in (x + 2)..(n - 1) /\ n <= e
      /\ e <= Len(c) + 1 /\ Len(c) \in Nat
  BY <1>3 DEF Follows, Ends
<1>5. \A q \in (m + 1)..(n - 1) : c[q] = Blank
  <2> SUFFICES ASSUME NEW q \in (m + 1)..(n - 1) PROVE c[q] = Blank
    OBVIOUS
  <2>1. CASE q >= x + 4 + Len(v)
    BY <1>4, <2>1 DEF Follows
  <2>2. CASE q < x + 4 + Len(v)
    <3>1. v = <<>> /\ q = x + 3
      BY <1>3, <1>4, <2>2
    <3> QED BY <3>1 DEF EntryAt
  <2> QED BY <1>3, <1>4, <2>1, <2>2
<1>6. c[m] \notin Special
  BY <1>1, <1>2 DEF EntryAt
<1>7. ASSUME NEW q \in x..(n - 1) PROVE c[q] # Remark /\ c[q] # Quote
  <2>1. q = x \/ q = x + 1 \/ q = x + 2 \/ q = x + 3 \/ q = m \/ q \in (m + 1)..(n - 1)
    BY <1>4
  <2>2. c[x] \notin Special /\ c[x + 1] = Blank /\ c[x + 2] \notin Special /\ c[x + 3] = Blank
    BY <1>1 DEF EntryAt
  <2>3. c[q] = Blank \/ c[q] \notin Special
    BY <1>5, <1>6, <2>1, <2>2
  <2> QED BY <1>1, <2>3 DEF Special
<1>8. Signs(c, x, e, n)
  <2>1. n = e \/ c[n] = Remark
    BY DEF Follows
  <2>2. ~InQuotes(c, x, n)
    <3>1. {q \in x..(n - 1) : c[q] = Quote} = {}
      BY <1>7
    <3>2. Cardinality({}) = 0 /\ 0 % 2 # 1
      BY FS_EmptySet
    <3> QED BY <3>1, <3>2 DEF InQuotes
  <2> QED BY <1>4, <1>7, <2>1, <2>2 DEF Signs
<1>9. Leads(c, x, n, x)
  <2>1. c[x] \notin Special
    BY <1>1 DEF EntryAt
  <2>2. x \in x..n /\ \A q \in x..(x - 1) : c[q] \in Special
    BY <1>4
  <2> QED BY <2>1, <2>2 DEF Leads
<1>10. Blanks(c, x, n) = n - m - 1
  BY <1>4, <1>5, <1>6, BlanksAfter, SMTT(30)
<1>11. n # e => Blanks(c, x, e) = 0
  <2> SUFFICES ASSUME n # e PROVE Blanks(c, x, e) = 0
    OBVIOUS
  <2>1. PICK q \in (n + 1)..(e - 1) : c[q] \notin Special /\ \A r \in q..(e - 1) : c[r] # Blank
    BY DEF Follows
  <2>2. q \in x..(e - 1) /\ x \in Int /\ e \in Int
    BY <1>4
  <2> QED BY <2>1, <2>2, BlanksNone
<1> HIDE DEF m
<1>12. ContentEnd(c, x, e, n) = m
  <2>1. m \in Int
    BY <1>4
  <2>2. CASE n = e
    <3>1. ContentEnd(c, x, e, n) = e - Blanks(c, x, e) - 1
      BY <2>2 DEF ContentEnd, RemAt
    <3> QED BY <1>4, <1>10, <2>1, <2>2, <3>1
  <2>3. CASE n # e
    <3>1. ContentEnd(c, x, e, n) = n - Blanks(c, x, n) - Blanks(c, x, e) - 1
      BY <2>3 DEF ContentEnd, RemAt
    <3> QED BY <1>4, <1>10, <1>11, <2>1, <2>3, <3>1
  <2> QED BY <2>2, <2>3
<1>13. IsEntry(ContentOf(c, x, e, n, x), k, v)
  <2> DEFINE t == SubSeq(c, x, m)
  <2>1. ContentOf(c, x, e, n, x) = t
    BY <1>12 DEF ContentOf
  <2>2. x \in Int /\ m \in Int /\ 1 <= x /\ m <= Len(c) /\ x <= m /\ m - x + 1 = (IF v = <<>> THEN 3 ELSE 5)
    BY <1>4 DEF m
  <2>3. t \in Seq(Token) /\ Len(t) = m - x + 1 /\ \A j \in 1..(m - x + 1) : t[j] = c[x + j - 1]
    BY <2>2, SubSeqIs
  <2> HIDE DEF t
  <2>4. t[1] = c[x + 1 - 1] /\ t[2] = c[x + 2 - 1] /\ t[3] = c[x + 3 - 1]
    BY <2>2, <2>3
  <2>5. v # <<>> => t[4] = c[x + 4 - 1] /\ t[5] = c[x + 5 - 1]
    BY <2>2, <2>3
  <2>6. x + 1 - 1 = x /\ x + 2 - 1 = x + 1 /\ x + 3 - 1 = x + 2 /\ x + 4 - 1 = x + 3 /\ x + 5 - 1 = x + 4
    OBVIOUS
  <2>7. /\ t[1] = c[x] /\ t[2] = c[x + 1] /\ t[3] = c[x + 2]
        /\ v # <<>> => t[4] = c[x + 3] /\ t[5] = c[x + 4]
    BY <2>4, <2>5, <2>6
  <2>8. IsEntry(t, k, v)
    BY <2>2, <2>3, <2>7 DEF IsEntry, EntryAt
  <2> QED BY <2>1, <2>8
<1>14. /\ Line(c, x).content = ContentOf(c, x, e, n, x)
       /\ Line(c, x).kind = Kind(ContentOf(c, x, e, n, x))
  BY <1>8, <1>9, LineIs
<1>15. /\ Kind(Line(c, x).content) = "value"
       /\ KeyOf(Line(c, x)) = <<k>> /\ ValueOf(Line(c, x)) = v
  <2>1. IsEntry(Line(c, x).content, k, v)
    BY <1>13, <1>14
  <2> QED BY <2>1, EntryRead
<1>16. TidyRemark(c, x)
  <2>1. LineEnd(c, x) = e
    BY <1>4, LineEndIs
  <2>2. RemarkSign(c, x, e) = n
    BY <1>4, <1>8, RemarkSignIs
  <2>3. n - Blanks(c, x, n) = m + 1
    BY <1>4, <1>10
  <2> QED BY <1>5, <2>1, <2>2, <2>3 DEF TidyRemark, Follows
<1> QED BY <1>14, <1>15, <1>16

\* The characters of what fprintf writes.
LEMMA EntryIs ==
  ASSUME NEW k, Word(k), NEW v, Input(v)
  PROVE  /\ Entry(k, v) \in Seq(Token) /\ Len(Entry(k, v)) = 4 + Len(v) /\ Len(v) \in 0..1
         /\ EntryAt(Entry(k, v), 1, k, v)
         /\ \A j \in 1..(4 + Len(v)) : Entry(k, v)[j] # Lf
<1> DEFINE h == <<k, Blank, Equals, Blank>>
<1>1. k \in Token /\ k # Lf /\ Blank \in Token /\ Equals \in Token /\ Blank # Lf /\ Equals # Lf
  <2>1. k \in Token /\ k # Lf
    BY DEF Word, Special
  <2>2. Blank \in Token /\ Equals \in Token
    BY IniFileAssumption DEF Special
  <2>3. Blank # Lf /\ Equals # Lf
    BY DEF Equals, Blank, Lf
  <2> QED BY <2>1, <2>2, <2>3
<1>2. h \in Seq(Token) /\ Len(h) = 4 /\ h[1] = k /\ h[2] = Blank /\ h[3] = Equals /\ h[4] = Blank
  <2>1. Blank \in Token /\ Equals \in Token /\ k \in Token
    BY <1>1
  <2>2. h \in Seq(Token)
    BY <2>1
  <2> QED BY <2>2
<1>3. /\ v \in Seq(Token) /\ Len(v) \in 0..1 /\ (v # <<>> => Len(v) = 1 /\ v[1] # Lf)
      /\ (v = <<>> => Len(v) = 0)
  <2>1. CASE v = <<>>
    BY <2>1
  <2>2. CASE v # <<>>
    <3>1. PICK w : Word(w) /\ v = <<w>>
      BY <2>2 DEF Input
    <3>2. w \in Token /\ w # Lf
      BY <3>1 DEF Word, Special
    <3> QED BY <3>1, <3>2
  <2> QED BY <2>1, <2>2
<1>4. Entry(k, v) = h \o v
  BY DEF Entry
<1> HIDE DEF h
<1> DEFINE t == h \o v
<1>5. /\ t \in Seq(Token) /\ Len(t) = Len(h) + Len(v)
      /\ \A j \in 1..(Len(h) + Len(v)) : t[j] = IF j <= Len(h) THEN h[j] ELSE v[j - Len(h)]
  BY <1>2, <1>3, ConcatProperties
<1> HIDE DEF t
<1>6. t[1] = k /\ t[2] = Blank /\ t[3] = Equals /\ t[4] = Blank
  BY <1>2, <1>3, <1>5
<1>7. v # <<>> => t[5] = v[1]
  BY <1>2, <1>3, <1>5
<1>8. EntryAt(t, 1, k, v)
  <2>1. 1 + 1 = 2 /\ 1 + 2 = 3 /\ 1 + 3 = 4 /\ 1 + 4 = 5
    OBVIOUS
  <2> QED BY <1>6, <1>7, <2>1 DEF EntryAt
<1>9. ASSUME NEW j \in 1..(4 + Len(v)) PROVE t[j] # Lf
  <2>1. j = 1 \/ j = 2 \/ j = 3 \/ j = 4 \/ (j = 5 /\ v # <<>>)
    <3> DEFINE n == Len(v)
    <3>1. n \in 0..1 /\ (v = <<>> => n = 0) /\ j \in 1..(4 + n)
      BY <1>3
    <3> HIDE DEF n
    <3> QED BY <3>1
  <2> QED BY <1>1, <1>3, <1>6, <1>7, <2>1
<1> QED BY <1>2, <1>3, <1>4, <1>5, <1>8, <1>9 DEF t

-----------------------------------------------------------------------------
(* A text of which one piece is replaced.                                  *)

\* b with t from x on, instead of what is in front of y.
Patched(b, t, x, y) == SubSeq(b, 1, x - 1) \o t \o SubSeq(b, y, Len(b))

\* What c has for characters then, d being how much further along the last ones are.
IsPatched(b, t, x, y, c, d) ==
  /\ c \in Seq(Token) /\ d \in Int /\ Len(c) = Len(b) + d
  /\ \A q \in 1..(x - 1) : c[q] = b[q]
  /\ \A j \in 1..Len(t) : c[x - 1 + j] = t[j]
  /\ \A q \in y..Len(b) : c[q + d] = b[q]

\* Which characters a text has after a piece of it was replaced.
LEMMA Replaced ==
  ASSUME NEW b \in Seq(Token), NEW t \in Seq(Token), NEW x \in 1..(Len(b) + 1),
         NEW y \in 1..(Len(b) + 1)
  PROVE  IsPatched(b, t, x, y, Patched(b, t, x, y), x + Len(t) - y)
<1> DEFINE c == Patched(b, t, x, y)
           d == x + Len(t) - y
           u == SubSeq(b, 1, x - 1)
           w == SubSeq(b, y, Len(b))
           ut == u \o t
<1>1. Len(b) \in Nat /\ Len(t) \in Nat /\ x \in Nat /\ y \in Nat /\ d \in Int
  OBVIOUS
<1>2. u \in Seq(Token) /\ Len(u) = x - 1 /\ \A q \in 1..(x - 1) : u[q] = b[q]
  <2>1. x - 1 \in Int /\ 1 \in Int /\ x - 1 <= Len(b)
    BY <1>1
  <2>2. /\ u \in Seq(Token) /\ Len(u) = (IF 1 <= x - 1 THEN x - 1 - 1 + 1 ELSE 0)
        /\ \A q \in 1..(x - 1 - 1 + 1) : u[q] = b[1 + q - 1]
    BY <2>1, SubSeqIs
  <2> HIDE DEF u
  <2>3. Len(u) = x - 1
    BY <1>1, <2>2
  <2>4. ASSUME NEW q \in 1..(x - 1) PROVE u[q] = b[q]
    <3>1. q \in 1..(x - 1 - 1 + 1) /\ 1 + q - 1 = q
      BY <1>1
    <3>2. u[q] = b[1 + q - 1]
      BY <2>2, <3>1
    <3> QED BY <3>1, <3>2
  <2> QED BY <2>2, <2>3, <2>4
<1>3. /\ w \in Seq(Token) /\ Len(w) = Len(b) - y + 1
      /\ \A q \in 1..(Len(b) - y + 1) : w[q] = b[y + q - 1]
  <2>1. y \in Int /\ Len(b) \in Int /\ 1 <= y /\ Len(b) <= Len(b)
    BY <1>1
  <2>2. /\ w \in Seq(Token) /\ Len(w) = (IF y <= Len(b) THEN Len(b) - y + 1 ELSE 0)
        /\ \A q \in 1..(Len(b) - y + 1) : w[q] = b[y + q - 1]
    BY <2>1, SubSeqIs
  <2> HIDE DEF w
  <2>3. Len(w) = Len(b) - y + 1
    BY <1>1, <2>2
  <2> QED BY <2>2, <2>3
<1> HIDE DEF u, w
<1>4. /\ ut \in Seq(Token) /\ Len(ut) = Len(u) + Len(t)
      /\ \A q \in 1..(Len(u) + Len(t)) : ut[q] = IF q <= Len(u) THEN u[q] ELSE t[q - Len(u)]
  BY <1>2, ConcatProperties
<1>5. c = ut \o w
  BY DEF Patched, u, w
<1> HIDE DEF ut, c
<1>6. /\ c \in Seq(Token) /\ Len(c) = Len(ut) + Len(w)
      /\ \A q \in 1..(Len(ut) + Len(w)) : c[q] = IF q <= Len(ut) THEN ut[q] ELSE w[q - Len(ut)]
  <2> DEFINE z == ut \o w
  <2>1. /\ z \in Seq(Token) /\ Len(z) = Len(ut) + Len(w)
        /\ \A q \in 1..(Len(ut) + Len(w)) : z[q] = IF q <= Len(ut) THEN ut[q] ELSE w[q - Len(ut)]
    <3>1. ut \in Seq(Token) /\ w \in Seq(Token)
      BY <1>3, <1>4
    <3> QED BY <3>1, ConcatProperties
  <2>2. c = z
    BY <1>5
  <2> HIDE DEF z
  <2> QED BY <2>1, <2>2
<1>7. Len(c) = Len(b) + d
  <2>1. Len(c) = Len(ut) + Len(w)
    BY <1>6
  <2>2. Len(ut) = Len(u) + Len(t) /\ Len(u) = x - 1
    BY <1>2, <1>4
  <2>3. Len(w) = Len(b) - y + 1
    BY <1>3
  <2>4. Len(c) = (x - 1 + Len(t)) + (Len(b) - y + 1)
    BY <2>1, <2>2, <2>3
  <2>5. (x - 1 + Len(t)) + (Len(b) - y + 1) = Len(b) + (x + Len(t) - y)
    BY <1>1
  <2> QED BY <2>4, <2>5
<1>8. ASSUME NEW q \in 1..(x - 1) PROVE c[q] = b[q]
  <2>1. q \in 1..(Len(u) + Len(t)) /\ q <= Len(ut) /\ q \in 1..(Len(ut) + Len(w)) /\ q <= Len(u)
    BY <1>1, <1>2, <1>3, <1>4
  <2> QED BY <1>2, <1>4, <1>6, <2>1
<1>9. ASSUME NEW j \in 1..Len(t) PROVE c[x - 1 + j] = t[j]
  <2> DEFINE q == x - 1 + j
  <2>1. /\ q \in 1..(Len(u) + Len(t)) /\ q <= Len(ut) /\ q \in 1..(Len(ut) + Len(w)) /\ ~(q <= Len(u))
        /\ q - Len(u) = j
    BY <1>1, <1>2, <1>3, <1>4
  <2> HIDE DEF q
  <2>2. c[q] = t[j]
    BY <1>4, <1>6, <2>1
  <2> QED BY <2>2 DEF q
<1>10. ASSUME NEW q \in y..Len(b) PROVE c[q + d] = b[q]
  <2>1. /\ q + d \in 1..(Len(ut) + Len(w)) /\ ~(q + d <= Len(ut))
        /\ (q + d) - Len(ut) = q - y + 1
    BY <1>1, <1>2, <1>3, <1>4
  <2>2. c[q + d] = w[q - y + 1]
    BY <1>6, <2>1
  <2>3. q - y + 1 \in 1..(Len(b) - y + 1) /\ y + (q - y + 1) - 1 = q
    BY <1>1
  <2>4. w[q - y + 1] = b[y + (q - y + 1) - 1]
    BY <1>3, <2>3
  <2> QED BY <2>2, <2>3, <2>4
<1>11. IsPatched(b, t, x, y, c, d)
  <2> HIDE DEF d
  <2> QED BY <1>1, <1>6, <1>7, <1>8, <1>9, <1>10 DEF IsPatched
<1> QED BY <1>11 DEF c, d

\* c is b with another line at x: up to x it is b, and from y on, d further along.  The
\* new line takes the place of the one at x, or y is the line feed in front of x.
Spliced(b, c, x, y, d) ==
  /\ Ended(b) /\ c \in Seq(Token) /\ d \in Int
  /\ x \in 1..(Len(b) + 1) /\ y \in (x - 1)..Len(b) /\ y >= 1
  /\ x = 1 \/ b[x - 1] = Lf
  /\ \A q \in x..(y - 1) : b[q] # Lf
  /\ x < y + d /\ Len(c) = Len(b) + d
  /\ \A q \in 1..(x - 1) : c[q] = b[q]
  /\ \A q \in y..Len(b) : c[q + d] = b[q]
  /\ \A q \in x..(y + d - 1) : c[q] # Lf

\* Where the lines of b are in c.
Moved(b, y, d) == [p \in Starts(b) |-> IF p <= y THEN p ELSE p + d]

\* The lines begin where they began, moved, but for the one that is new.
LEMMA SplicedStarts ==
  ASSUME NEW b, NEW c, NEW x, NEW y, NEW d, Spliced(b, c, x, y, d)
  PROVE  /\ Ended(c) /\ x \in Starts(c)
         /\ \A p \in Starts(b) : p < x \/ (p = x /\ x <= y) \/ p > y
         /\ \A p \in Starts(b) : p < x => p \in Starts(c) /\ Copied(b, p, c, 0)
         /\ \A p \in Starts(b) : p > y => p + d \in Starts(c) /\ Copied(b, p, c, d)
         /\ \A r \in Starts(c) : \/ r = x
                                 \/ r < x /\ r \in Starts(b)
                                 \/ r - d > y /\ r - d \in Starts(b)
<1>1. /\ b \in Seq(Token) /\ c \in Seq(Token) /\ d \in Int /\ Len(b) \in Nat
      /\ x \in 1..(Len(b) + 1) /\ y \in (x - 1)..Len(b) /\ y >= 1
      /\ x < y + d /\ Len(c) = Len(b) + d
  BY DEF Spliced, Ended
<1>2. /\ x = 1 \/ b[x - 1] = Lf
      /\ \A q \in x..(y - 1) : b[q] # Lf
      /\ \A q \in 1..(x - 1) : c[q] = b[q]
      /\ \A q \in y..Len(b) : c[q + d] = b[q]
      /\ \A q \in x..(y + d - 1) : c[q] # Lf
  BY DEF Spliced
<1>3. b[Len(b)] = Lf
  BY <1>1 DEF Spliced, Ended, Last
<1>4. Ended(c)
  <2>1. Len(b) \in y..Len(b)
    BY <1>1
  <2>2. c[Len(c)] = Lf
    BY <1>1, <1>2, <1>3, <2>1
  <2> QED BY <1>1, <2>2 DEF Ended, Last
<1>5. x \in Starts(c)
  <2>1. x \in 1..Len(c) /\ x \in x..(y + d - 1) /\ (x # 1 => x - 1 \in 1..(x - 1))
    BY <1>1
  <2>2. c[x] # Lf /\ (x = 1 \/ c[x - 1] = Lf)
    BY <1>2, <2>1
  <2> QED BY <2>1, <2>2 DEF Starts
<1>6. ASSUME NEW p \in Starts(b) PROVE p < x \/ (p = x /\ x <= y) \/ p > y
  <2>1. p \in 1..Len(b) /\ b[p] # Lf /\ (p = 1 \/ b[p - 1] = Lf)
    BY DEF Starts
  <2>2. ASSUME x < p, p <= y PROVE FALSE
    <3>1. p - 1 \in x..(y - 1) /\ p # 1
      BY <1>1, <2>1, <2>2
    <3> QED BY <1>2, <2>1, <3>1
  <2> QED BY <1>1, <2>1, <2>2
<1>7. ASSUME NEW p \in Starts(b), p < x PROVE p \in Starts(c) /\ Copied(b, p, c, 0)
  <2>1. p \in 1..Len(b) /\ b[p] # Lf /\ (p = 1 \/ b[p - 1] = Lf)
    BY DEF Starts
  <2>2. p \in 1..(x - 1) /\ (p # 1 => p - 1 \in 1..(x - 1)) /\ p \in 1..Len(c) /\ x # 1
    BY <1>1, <1>7, <2>1
  <2>3. p \in Starts(c)
    BY <1>2, <2>1, <2>2 DEF Starts
  <2> DEFINE e == LineEnd(b, p)
  <2>4. Ends(b, p, e)
    BY <1>1, <2>1, LineEnds
  <2> HIDE DEF e
  <2>5. e \in p..(x - 1)
    <3>1. e \in p..(Len(b) + 1) /\ \A q \in p..(e - 1) : b[q] # Lf
      BY <2>4 DEF Ends
    <3>2. ~(x - 1 \in p..(e - 1))
      BY <1>2, <2>2, <3>1
    <3> QED BY <1>1, <2>2, <3>1, <3>2
  <2>6. \A q \in p..e : c[q + 0] = b[q]
    <3> SUFFICES ASSUME NEW q \in p..e PROVE c[q + 0] = b[q]
      OBVIOUS
    <3>1. q \in 1..(x - 1) /\ q + 0 = q
      BY <1>1, <2>2, <2>5
    <3> QED BY <1>2, <3>1
  <2>7. p + 0 \in 1..Len(c) /\ e <= Len(b) /\ e + 0 <= Len(c)
    BY <1>1, <2>2, <2>5
  <2> QED BY <2>3, <2>6, <2>7 DEF Copied, e
<1>8. ASSUME NEW p \in Starts(b), p > y PROVE p + d \in Starts(c) /\ Copied(b, p, c, d)
  <2>1. p \in 1..Len(b) /\ b[p] # Lf /\ (p = 1 \/ b[p - 1] = Lf)
    BY DEF Starts
  <2>2. p \in y..Len(b) /\ p - 1 \in y..Len(b) /\ p # 1 /\ p + d \in 1..Len(c) /\ p + d - 1 = (p - 1) + d
    BY <1>1, <1>8, <2>1
  <2>3. p + d \in Starts(c)
    <3>1. c[p + d] = b[p] /\ c[(p - 1) + d] = b[p - 1]
      BY <1>2, <2>2
    <3>3. b[p - 1] = Lf
      BY <2>1, <2>2
    <3>4. (p + d) - 1 = (p - 1) + d
      BY <1>1, <2>1
    <3>2. c[p + d] # Lf /\ c[(p + d) - 1] = Lf
      BY <2>1, <3>1, <3>3, <3>4
    <3> QED BY <2>2, <3>2 DEF Starts
  <2> DEFINE e == LineEnd(b, p)
  <2>4. Ends(b, p, e)
    BY <1>1, <2>1, LineEnds
  <2> HIDE DEF e
  <2>5. e \in p..Len(b)
    <3>1. e \in p..(Len(b) + 1) /\ \A q \in p..(e - 1) : b[q] # Lf
      BY <2>4 DEF Ends
    <3>2. ~(Len(b) \in p..(e - 1))
      BY <1>3, <3>1
    <3> QED BY <1>1, <2>1, <3>1, <3>2
  <2>6. \A q \in p..e : c[q + d] = b[q]
    <3>1. \A q \in p..e : q \in y..Len(b)
      BY <1>1, <2>2, <2>5
    <3> QED BY <1>2, <3>1
  <2>7. e <= Len(b) /\ e + d <= Len(c)
    BY <1>1, <2>5
  <2> QED BY <2>2, <2>3, <2>6, <2>7 DEF Copied, e
<1>9. ASSUME NEW r \in Starts(c), r # x, ~(r < x)
      PROVE  r - d > y /\ r - d \in Starts(b)
  <2>1. r \in 1..Len(c) /\ c[r] # Lf /\ (r = 1 \/ c[r - 1] = Lf)
    BY DEF Starts
  <2>2. r > x /\ r # 1 /\ c[r - 1] = Lf
    BY <1>1, <1>9, <2>1
  <2>3. ~(r - 1 \in x..(y + d - 1))
    BY <1>2, <2>2
  <2>4. r - 1 >= y + d
    BY <1>1, <2>1, <2>2, <2>3
  <2>5. /\ r - d \in y..Len(b) /\ (r - d) - 1 \in y..Len(b) /\ r - d > y
        /\ (r - d) + d = r /\ ((r - d) - 1) + d = r - 1 /\ r - d \in 1..Len(b)
    BY <1>1, <2>1, <2>4
  <2>6. b[r - d] = c[r] /\ b[(r - d) - 1] = c[r - 1]
    BY <1>2, <2>5
  <2> QED BY <2>1, <2>2, <2>5, <2>6 DEF Starts
<1>10. ASSUME NEW r \in Starts(c), r < x PROVE r \in Starts(b)
  <2>1. r \in 1..Len(c) /\ c[r] # Lf /\ (r = 1 \/ c[r - 1] = Lf)
    BY DEF Starts
  <2>2. r \in 1..(x - 1) /\ (r # 1 => r - 1 \in 1..(x - 1)) /\ r \in 1..Len(b)
    BY <1>1, <1>10, <2>1
  <2> QED BY <1>2, <2>1, <2>2 DEF Starts
<1> QED BY <1>4, <1>5, <1>6, <1>7, <1>8, <1>9, <1>10

\* All lines but the one at x say the same in c.
LEMMA SplicedLines ==
  ASSUME NEW b, NEW c, NEW x, NEW y, NEW d, Spliced(b, c, x, y, d),
         NEW p \in Starts(b), p < x \/ p > y
  PROVE  LET q == Moved(b, y, d)[p]
         IN /\ q = IF p < x THEN p ELSE p + d
            /\ q \in Starts(c)
            /\ Line(c, q).content = Line(b, p).content
            /\ Line(c, q).kind = Line(b, p).kind
            /\ TidyRemark(b, p) => TidyRemark(c, q)
<1>1. /\ b \in Seq(Token) /\ c \in Seq(Token) /\ d \in Int /\ p \in 1..Len(b) /\ p \in Int
      /\ x \in Int /\ y \in Int /\ x <= y + 1 /\ 0 \in Int
  BY DEF Spliced, Ended, Starts
<1>2. CASE p < x
  <2>1. Moved(b, y, d)[p] = p
    BY <1>1, <1>2 DEF Moved
  <2>2. p \in Starts(c) /\ Copied(b, p, c, 0)
    BY <1>2, SplicedStarts
  <2>3. /\ Line(c, p + 0).content = Line(b, p).content
        /\ Line(c, p + 0).kind = Line(b, p).kind
        /\ TidyRemark(b, p) => TidyRemark(c, p + 0)
    BY <1>1, <2>2, LineMoved
  <2>4. p + 0 = p
    BY <1>1
  <2> QED BY <1>2, <2>1, <2>2, <2>3, <2>4
<1>3. CASE ~(p < x)
  <2>1. Moved(b, y, d)[p] = p + d /\ p > y
    BY <1>1, <1>3 DEF Moved
  <2>2. p + d \in Starts(c) /\ Copied(b, p, c, d)
    BY <2>1, SplicedStarts
  <2>3. /\ Line(c, p + d).content = Line(b, p).content
        /\ Line(c, p + d).kind = Line(b, p).kind
        /\ TidyRemark(b, p) => TidyRemark(c, p + d)
    BY <1>1, <2>2, LineMoved
  <2> QED BY <1>3, <2>1, <2>2, <2>3
<1> QED BY <1>2, <1>3

\* Sequences of one element are equal when the elements are.
LEMMA Single ==
  ASSUME NEW s, NEW t, <<s>> = <<t>>
  PROVE  s = t
<1>1. <<s>>[1] = <<t>>[1]
  OBVIOUS
<1> QED BY <1>1

\* The line at x of c gives key k of section s of b, as the one it replaces does.
GivesIn(b, c, x, y, s, k, a) ==
  /\ Line(c, x).kind = "value" /\ KeyOf(Line(c, x)) = <<k>>
  /\ SectionStart(b, s, a) /\ a < x /\ \A p \in (a + 1)..(x - 1) : ~IsSection(b, p)
  /\ x <= y => x \in Starts(b) /\ Line(b, x).kind = "value" /\ KeyOf(Line(b, x)) = <<k>>

\* What a line of b means to a setting it means to another as well, once it is moved.
LEMMA MovedMeaning ==
  ASSUME NEW b, NEW c, NEW x, NEW y, NEW d, Spliced(b, c, x, y, d),
         NEW s, NEW k, NEW a, GivesIn(b, c, x, y, s, k, a), NEW p \in Starts(b)
  PROVE  LET q == Moved(b, y, d)[p]
         IN /\ q \in Starts(c)
            /\ IsSection(b, p) <=> IsSection(c, q)
            /\ \A t : Opens(b, t, p) <=> Opens(c, t, q)
            /\ \A t : Gives(b, t, p) <=> Gives(c, t, q)
            /\ p < x => q = p
            /\ p = x /\ x <= y => q = x
            /\ p > y => q = p + d
            /\ p < x \/ (p = x /\ x <= y) \/ p > y
<1> DEFINE q == Moved(b, y, d)[p]
<1>1. p < x \/ (p = x /\ x <= y) \/ p > y
  BY SplicedStarts
<1>2. p \in Int /\ x \in Int /\ y \in Int /\ x <= y + 1
  BY DEF Spliced, Starts
<1>3. CASE p < x \/ p > y
  <2>1. /\ q = (IF p < x THEN p ELSE p + d) /\ q \in Starts(c)
        /\ Line(c, q).content = Line(b, p).content /\ Line(c, q).kind = Line(b, p).kind
    BY <1>3, SplicedLines
  <2> HIDE DEF q
  <2>2. KeyOf(Line(c, q)) = KeyOf(Line(b, p)) /\ SectionName(Line(c, q)) = SectionName(Line(b, p))
    BY <2>1 DEF KeyOf, SectionName
  <2>3. IsSection(b, p) <=> IsSection(c, q)
    BY <2>1 DEF IsSection
  <2>4. /\ \A t : Opens(b, t, p) <=> Opens(c, t, q)
        /\ \A t : Gives(b, t, p) <=> Gives(c, t, q)
    BY <2>1, <2>2, <2>3 DEF Opens, Gives
  <2>5. (p < x => q = p) /\ (p = x /\ x <= y => q = x) /\ (p > y => q = p + d)
    BY <1>2, <1>3, <2>1
  <2> QED BY <1>1, <2>1, <2>3, <2>4, <2>5 DEF q
<1>4. CASE p = x /\ x <= y
  <2>1. q = x
    BY <1>2, <1>4 DEF Moved
  <2>2. x \in Starts(c)
    BY SplicedStarts
  <2> HIDE DEF q
  <2>3. /\ Line(c, x).kind = "value" /\ Line(b, x).kind = "value"
        /\ KeyOf(Line(c, x)) = KeyOf(Line(b, x)) /\ "value" # "section"
    BY <1>4 DEF GivesIn
  <2>4. ~IsSection(b, p) /\ ~IsSection(c, q)
    BY <1>4, <2>1, <2>3 DEF IsSection
  <2>5. /\ \A t : Opens(b, t, p) <=> Opens(c, t, q)
        /\ \A t : Gives(b, t, p) <=> Gives(c, t, q)
    BY <1>4, <2>1, <2>2, <2>3, <2>4 DEF Opens, Gives
  <2> QED BY <1>1, <1>2, <1>4, <2>1, <2>2, <2>4, <2>5 DEF q
<1> QED BY <1>1, <1>3, <1>4

\* All lines of c but a new one at x come from b.
LEMMA MovedOnto ==
  ASSUME NEW b, NEW c, NEW x, NEW y, NEW d, Spliced(b, c, x, y, d),
         NEW s, NEW k, NEW a, GivesIn(b, c, x, y, s, k, a), NEW r \in Starts(c), r # x \/ x <= y
  PROVE  \E p \in Starts(b) : r = Moved(b, y, d)[p]
<1>1. x \in Int /\ y \in Int /\ d \in Int /\ r \in Int
  BY DEF Spliced, Starts
<1>2. \/ r = x /\ x <= y
      \/ r < x /\ r \in Starts(b)
      \/ r - d > y /\ r - d \in Starts(b)
  BY SplicedStarts
<1>3. CASE r = x /\ x <= y
  <2>1. x \in Starts(b)
    BY <1>3 DEF GivesIn
  <2>2. Moved(b, y, d)[x] = x
    BY <1>3, <2>1, MovedMeaning
  <2> QED BY <1>3, <2>1, <2>2
<1>4. CASE r < x /\ r \in Starts(b)
  <2>1. Moved(b, y, d)[r] = r
    BY <1>4, MovedMeaning
  <2> QED BY <1>4, <2>1
<1>5. CASE r - d > y /\ r - d \in Starts(b)
  <2>1. Moved(b, y, d)[r - d] = (r - d) + d
    BY <1>5, MovedMeaning
  <2>2. (r - d) + d = r
    BY <1>1
  <2> QED BY <1>5, <2>1, <2>2
<1> QED BY <1>2, <1>3, <1>4, <1>5

\* Where section s starts in c, and which sections a place up to x is in.
LEMMA SplicedSection ==
  ASSUME NEW b, NEW c, NEW x, NEW y, NEW d, Spliced(b, c, x, y, d),
         NEW s, NEW k, NEW a, GivesIn(b, c, x, y, s, k, a)
  PROVE  /\ SectionStart(c, s, a) /\ Among(c, a, x)
         /\ \A p : IsSection(c, p) /\ p < x => IsSection(b, p) /\ p <= a
         /\ \A t, p : SectionStart(c, t, p) /\ Among(c, p, x) => t = s
<1>1. /\ x \in Int /\ y \in Int /\ d \in Int /\ x <= y + 1 /\ x < y + d
      /\ a \in Starts(b) /\ a \in Int /\ a < x
      /\ Opens(b, s, a) /\ \A p : Opens(b, s, p) => a <= p
      /\ \A p \in (a + 1)..(x - 1) : ~IsSection(b, p)
      /\ ~IsSection(c, x)
  BY DEF Spliced, Starts, GivesIn, SectionStart, Opens, IsSection
<1>2. Opens(c, s, a) /\ IsSection(c, a)
  <2>1. Moved(b, y, d)[a] = a
    BY <1>1, MovedMeaning
  <2>2. Opens(c, s, a)
    BY <1>1, <2>1, MovedMeaning
  <2> QED BY <2>2 DEF Opens
<1>3. ASSUME NEW p, IsSection(c, p), p < x PROVE IsSection(b, p) /\ p <= a
  <2>1. p \in Starts(c) /\ p \in Int /\ p # x
    BY <1>1, <1>3 DEF IsSection, Starts
  <2>2. PICK q \in Starts(b) : p = Moved(b, y, d)[q]
    BY <2>1, MovedOnto
  <2>3. /\ IsSection(b, q) /\ q \in Int
        /\ q < x => p = q
        /\ q = x /\ x <= y => p = x
        /\ q > y => p = q + d
        /\ q < x \/ (q = x /\ x <= y) \/ q > y
    <3>1. q \in Int
      BY DEF Starts
    <3> QED BY <1>3, <2>2, <3>1, MovedMeaning
  <2>4. p = q
    BY <1>1, <1>3, <2>1, <2>3
  <2>5. ~(p \in (a + 1)..(x - 1))
    BY <1>1, <2>3, <2>4
  <2> QED BY <1>1, <1>3, <2>1, <2>3, <2>4, <2>5
<1>4. ASSUME NEW p, Opens(c, s, p) PROVE a <= p
  <2>1. p \in Starts(c) /\ p \in Int /\ IsSection(c, p)
    BY <1>4 DEF Opens, IsSection, Starts
  <2>2. CASE p < x
    <3>1. PICK q \in Starts(b) : p = Moved(b, y, d)[q]
      BY <1>1, <2>1, <2>2, MovedOnto
    <3>2. Opens(b, s, q) /\ q \in Int
      <4>1. q \in Int
        BY DEF Starts
      <4> QED BY <1>4, <3>1, <4>1, MovedMeaning
    <3>3. /\ q < x => p = q
          /\ q = x /\ x <= y => p = x
          /\ q > y => p = q + d
          /\ q < x \/ (q = x /\ x <= y) \/ q > y
      BY <3>1, MovedMeaning
    <3>4. p = q
      BY <1>1, <2>1, <2>2, <3>2, <3>3
    <3> QED BY <1>1, <3>2, <3>4
  <2>3. CASE ~(p < x)
    BY <1>1, <2>1, <2>3
  <2> QED BY <2>2, <2>3
<1>5. Among(c, a, x)
  <2>1. ASSUME NEW p \in (a + 1)..x, IsSection(c, p) PROVE FALSE
    <3>1. p < x
      BY <1>1, <2>1
    <3>2. p <= a
      BY <1>3, <2>1, <3>1
    <3> QED BY <1>1, <2>1, <3>2
  <2> QED BY <1>1, <2>1 DEF Among
<1>6. ASSUME NEW t, NEW p, SectionStart(c, t, p), Among(c, p, x) PROVE t = s
  <2>1. Opens(c, t, p) /\ IsSection(c, p) /\ p \in Int /\ p < x
    BY <1>6 DEF SectionStart, Opens, IsSection, Starts, Among
  <2>2. p <= a
    BY <1>3, <2>1
  <2>3. ~(a \in (p + 1)..x)
    BY <1>2, <1>6 DEF Among
  <2>4. p = a
    BY <1>1, <2>1, <2>2, <2>3
  <2>5. SectionName(Line(c, a)) = <<t>> /\ SectionName(Line(c, a)) = <<s>>
    BY <1>2, <2>1, <2>4 DEF Opens
  <2>6. <<t>> = <<s>>
    BY <2>5
  <2> QED BY <2>6, Single
<1> QED BY <1>2, <1>3, <1>4, <1>5, <1>6 DEF SectionStart

\* Every setting is found on the line it was on, but for a new one.
LEMMA SplicedMaps ==
  ASSUME NEW b, NEW c, NEW x, NEW y, NEW d, Spliced(b, c, x, y, d),
         NEW s, NEW k, NEW a, GivesIn(b, c, x, y, s, k, a),
         NEW t, NEW h, t # s \/ h # k \/ x <= y
  PROVE  Maps(b, c, t, h, Moved(b, y, d))
<1> DEFINE phi == Moved(b, y, d)
<1>1. x \in Int /\ y \in Int /\ d \in Int /\ x <= y + 1 /\ x < y + d
  BY DEF Spliced
<1>2. ASSUME NEW p \in Starts(b)
      PROVE  /\ p \in Int /\ phi[p] \in Starts(c)
             /\ IsSection(b, p) <=> IsSection(c, phi[p])
             /\ Opens(b, t, p) <=> Opens(c, t, phi[p])
             /\ Gives(b, h, p) <=> Gives(c, h, phi[p])
             /\ p < x => phi[p] = p
             /\ p = x /\ x <= y => phi[p] = x
             /\ p > y => phi[p] = p + d
             /\ p < x \/ (p = x /\ x <= y) \/ p > y
  <2>1. p \in Int
    BY DEF Starts
  <2> QED BY <2>1, MovedMeaning
<1> HIDE DEF phi
<1>3. ASSUME NEW p \in Starts(b), NEW q \in Starts(b), p < q PROVE phi[p] < phi[q]
  <2>1. /\ p \in Int
        /\ p < x => phi[p] = p
        /\ p = x /\ x <= y => phi[p] = x
        /\ p > y => phi[p] = p + d
        /\ p < x \/ (p = x /\ x <= y) \/ p > y
    BY <1>2
  <2>2. /\ q \in Int
        /\ q < x => phi[q] = q
        /\ q = x /\ x <= y => phi[q] = x
        /\ q > y => phi[q] = q + d
        /\ q < x \/ (q = x /\ x <= y) \/ q > y
    BY <1>2
  <2>3. CASE q < x
    BY <1>1, <1>3, <2>1, <2>2, <2>3
  <2>4. CASE q = x /\ x <= y
    BY <1>1, <1>3, <2>1, <2>2, <2>4
  <2>5. CASE q > y
    BY <1>1, <1>3, <2>1, <2>2, <2>5
  <2> QED BY <2>2, <2>3, <2>4, <2>5
<1>4. ASSUME NEW r \in Starts(c), \A p \in Starts(b) : r # phi[p]
      PROVE  /\ ~Opens(c, t, r)
             /\ IsSection(c, r) => \A p \in Starts(b) : phi[p] < r
             /\ \A e : SectionStart(c, t, e) /\ Among(c, e, r) => ~Gives(c, h, r)
  <2>1. r = x /\ ~(x <= y)
    BY <1>4, MovedOnto DEF phi
  <2>2. ~IsSection(c, r)
    BY <2>1 DEF IsSection, GivesIn
  <2>3. ASSUME NEW e, SectionStart(c, t, e), Among(c, e, r), Gives(c, h, r) PROVE FALSE
    <3>1. t = s
      BY <2>1, <2>3, SplicedSection
    <3>2. <<h>> = <<k>>
      BY <2>1, <2>3 DEF Gives, GivesIn
    <3>3. h = k
      BY <3>2, Single
    <3> QED BY <2>1, <3>1, <3>3
  <2> QED BY <2>2, <2>3 DEF Opens
<1>5. Maps(b, c, t, h, phi)
  BY <1>2, <1>3, <1>4 DEF Maps
<1> QED BY <1>5 DEF phi

\* Every setting but the one that is written reads as before.
LEMMA SplicedOthers ==
  ASSUME NEW b, NEW c, NEW x, NEW y, NEW d, Spliced(b, c, x, y, d),
         NEW s, NEW k, NEW a, GivesIn(b, c, x, y, s, k, a),
         NEW t, NEW h, t # s \/ h # k
  PROVE  Get(Lines(c), t, h) = Get(Lines(b), t, h)
<1> DEFINE phi == Moved(b, y, d)
<1>1. Maps(b, c, t, h, phi)
  BY SplicedMaps
<1>2. Ended(b) /\ Ended(c)
  BY SplicedStarts DEF Spliced
<1>3. ASSUME NEW q \in Starts(b), KeyAt(b, t, h, q)
      PROVE  Line(c, phi[q]).content = Line(b, q).content
  <2>1. q < x \/ (q = x /\ x <= y) \/ q > y
    BY SplicedStarts
  <2>2. ~(q = x /\ x <= y)
    <3> SUFFICES ASSUME q = x, x <= y PROVE FALSE
      OBVIOUS
    <3>1. KeyOf(Line(b, x)) = <<k>> /\ KeyOf(Line(b, x)) = <<h>>
      BY <1>3 DEF GivesIn, KeyAt, Gives
    <3>2. h = k
      <4>1. <<h>> = <<k>>
        BY <3>1
      <4> QED BY <4>1, Single
    <3>3. PICK e : SectionStart(b, t, e) /\ Among(b, e, x)
      BY <1>3 DEF KeyAt
    <3>4. /\ IsSection(b, e) /\ e \in Int /\ e < x /\ SectionName(Line(b, e)) = <<t>>
          /\ IsSection(b, a) /\ a \in Int /\ a < x /\ SectionName(Line(b, a)) = <<s>>
          /\ x \in Int
      BY <3>3 DEF SectionStart, Opens, IsSection, Among, GivesIn, Starts, Spliced
    <3>5. ~(e \in (a + 1)..(x - 1)) /\ ~(a \in (e + 1)..x)
      BY <3>3, <3>4 DEF Among, GivesIn
    <3>6. e = a
      BY <3>4, <3>5
    <3>7. <<t>> = <<s>>
      BY <3>4, <3>6
    <3> QED BY <3>2, <3>7, Single
  <2> QED BY <2>1, <2>2, SplicedLines
<1> HIDE DEF phi
<1> QED BY <1>1, <1>2, <1>3, SameGet

\* A key that some line of its section gives is found.
LEMMA KeyLeast ==
  ASSUME NEW b, NEW s, NEW k, NEW a, SectionStart(b, s, a), NEW r, Gives(b, k, r), Among(b, a, r)
  PROVE  \E q : KeyAt(b, s, k, q)
<1> DEFINE T == {q \in Starts(b) : Gives(b, k, q) /\ Among(b, a, q)}
<1>1. T \subseteq Nat /\ r \in T
  BY DEF Starts, Gives
<1>2. PICK q \in T : \A p \in T : q <= p
  <2> HIDE DEF T
  <2> QED BY <1>1, Least
<1>3. ASSUME NEW p, Gives(b, k, p), Among(b, a, p) PROVE q <= p
  <2>1. p \in T
    BY <1>3 DEF Gives
  <2> QED BY <1>2, <2>1
<1> QED BY <1>2, <1>3 DEF KeyAt

\* The line at x is the one that gives key k of section s in c.
LEMMA SplicedKey ==
  ASSUME NEW b, NEW c, NEW x, NEW y, NEW d, Spliced(b, c, x, y, d),
         NEW s, NEW k, NEW a, GivesIn(b, c, x, y, s, k, a),
         x <= y => KeyAt(b, s, k, x), ~(x <= y) => \A q : ~KeyAt(b, s, k, q)
  PROVE  KeyAt(c, s, k, x)
<1>1. CASE x <= y
  <2>1. x \in Starts(b) /\ KeyAt(b, s, k, x)
    BY <1>1 DEF GivesIn
  <2>2. Maps(b, c, s, k, Moved(b, y, d))
    BY <1>1, SplicedMaps
  <2>3. Moved(b, y, d)[x] = x
    BY <1>1, <2>1, MovedMeaning
  <2> QED BY <2>1, <2>2, <2>3, KeyMoved
<1>2. CASE ~(x <= y)
  <2>1. SectionStart(c, s, a) /\ Among(c, a, x)
    BY SplicedSection
  <2>2. Gives(c, k, x)
    BY SplicedStarts DEF Gives, GivesIn
  <2>3. x \in Int /\ y \in Int /\ d \in Int /\ x <= y + 1 /\ x < y + d /\ a \in Int
    BY <2>1 DEF Spliced, SectionStart, Opens, IsSection, Starts
  <2>4. ASSUME NEW r, Gives(c, k, r), Among(c, a, r) PROVE x <= r
    <3>1. SUFFICES ASSUME r < x PROVE FALSE
      <4>1. r \in Int
        BY <2>4 DEF Gives, Starts
      <4> QED BY <2>3, <4>1
    <3>2. r \in Starts(c) /\ r \in Int /\ r # x
      BY <2>3, <2>4, <3>1 DEF Gives, Starts
    <3>3. PICK p \in Starts(b) : r = Moved(b, y, d)[p]
      BY <3>2, MovedOnto
    <3>4. /\ p \in Int /\ Gives(b, k, p)
          /\ p < x => r = p
          /\ p > y => r = p + d
          /\ p < x \/ (p = x /\ x <= y) \/ p > y
      <4>1. p \in Int
        BY DEF Starts
      <4> QED BY <2>4, <3>3, <4>1, MovedMeaning
    <3>5. r = p
      BY <1>2, <2>3, <3>1, <3>2, <3>4
    <3>6. Among(b, a, p)
      <4>1. ASSUME NEW q \in (a + 1)..p, IsSection(b, q) PROVE FALSE
        <5>1. q \in (a + 1)..(x - 1)
          BY <2>3, <3>1, <3>2, <3>5
        <5> QED BY <4>1, <5>1 DEF GivesIn
      <4> QED BY <2>4, <3>5, <4>1 DEF Among
    <3>7. SectionStart(b, s, a)
      BY DEF GivesIn
    <3> QED BY <1>2, <3>4, <3>6, <3>7, KeyLeast
  <2> QED BY <2>1, <2>2, <2>4 DEF KeyAt
<1> QED BY <1>1, <1>2

\* How what is set is read.
SetTo(v) == IF v = <<>> THEN <<Default>> ELSE v

\* A value that is written is what iniGetString returns for it.
LEMMA ReadsIs ==
  ASSUME NEW v, Input(v), NEW l, ValueOf(l) = v
  PROVE  Reads(l) = SetTo(v)
<1>1. CASE v = <<>>
  BY <1>1 DEF Reads, SetTo
<1>2. CASE v # <<>>
  <2>1. PICK w : Word(w) /\ v = <<w>>
    BY <1>2 DEF Input
  <2>2. v[1] # Quote
    BY <2>1 DEF Word, Special
  <2>3. Unquoted(v) = v
    BY <2>2 DEF Unquoted
  <2> QED BY <1>2, <2>3 DEF Reads, SetTo
<1> QED BY <1>1, <1>2

\* The text stays tidy.
LEMMA SplicedTidy ==
  ASSUME NEW b, NEW c, NEW x, NEW y, NEW d, Spliced(b, c, x, y, d), Tidy(b), TidyRemark(c, x)
  PROVE  Tidy(c)
<1>1. c \in Seq(Token) /\ (c # <<>> => Last(c) = Lf)
  BY SplicedStarts DEF Ended
<1>2. ASSUME NEW r \in Starts(c), Line(c, r).kind = "value" PROVE TidyRemark(c, r)
  <2>1. x \in Int /\ y \in Int /\ d \in Int /\ r \in Int /\ x <= y + 1
    BY DEF Spliced, Starts
  <2>2. \/ r = x
        \/ r < x /\ r \in Starts(b)
        \/ r - d > y /\ r - d \in Starts(b)
    BY SplicedStarts
  <2>3. ASSUME NEW p \in Starts(b), p < x \/ p > y, r = IF p < x THEN p ELSE p + d
        PROVE  TidyRemark(c, r)
    <3>1. Line(c, r).kind = Line(b, p).kind /\ (TidyRemark(b, p) => TidyRemark(c, r))
      BY <2>3, SplicedLines
    <3> QED BY <1>2, <3>1 DEF Tidy
  <2>4. CASE r < x /\ r \in Starts(b)
    BY <2>3, <2>4
  <2>5. CASE r - d > y /\ r - d \in Starts(b) /\ ~(r = x)
    <3>1. ~(r - d < x) /\ (r - d) + d = r
      BY <2>1, <2>2, <2>5
    <3> QED BY <2>3, <2>5, <3>1
  <2> QED BY <2>2, <2>4, <2>5
<1> QED BY <1>1, <1>2 DEF Tidy

-----------------------------------------------------------------------------
(* What iniSetString writes.                                               *)

\* A setting in place of a piece of one line, or of none, makes such a text.
LEMMA EntrySpliced ==
  ASSUME NEW b, Ended(b), NEW k, Word(k), NEW v, Input(v),
         NEW x \in 1..(Len(b) + 1), NEW y \in (x - 1)..Len(b), y >= 1, x = 1 \/ b[x - 1] = Lf,
         \A q \in x..(y - 1) : b[q] # Lf,
         NEW e \in y..Len(b), b[e] = Lf, \A q \in y..(e - 1) : b[q] # Lf,
         NEW n, Follows(b, y, n, e)
  PROVE  LET c == Patched(b, Entry(k, v), x, y)
         IN /\ Spliced(b, c, x, y, x + 4 + Len(v) - y)
            /\ Line(c, x).kind = "value" /\ KeyOf(Line(c, x)) = <<k>> /\ ValueOf(Line(c, x)) = v
            /\ TidyRemark(c, x)
<1> DEFINE c == Patched(b, Entry(k, v), x, y)
           t == Entry(k, v)
           d == x + 4 + Len(v) - y
<1>1. b \in Seq(Token) /\ Len(b) \in Nat /\ x \in Nat /\ y \in Nat /\ e \in Nat /\ 1 <= x
  BY DEF Ended
<1>2. /\ t \in Seq(Token) /\ Len(t) = 4 + Len(v) /\ Len(v) \in 0..1
      /\ EntryAt(t, 1, k, v)
      /\ \A j \in 1..(4 + Len(v)) : t[j] # Lf
  BY EntryIs
<1> HIDE DEF t
<1>4. d \in Int /\ d = x + Len(t) - y /\ y + d = x + 4 + Len(v)
  BY <1>1, <1>2
<1> HIDE DEF d
<1>3. /\ c \in Seq(Token) /\ Len(c) = Len(b) + d
      /\ \A q \in 1..(x - 1) : c[q] = b[q]
      /\ \A j \in 1..Len(t) : c[x - 1 + j] = t[j]
      /\ \A q \in y..Len(b) : c[q + d] = b[q]
  <2>1. c = Patched(b, t, x, y) /\ d = x + Len(t) - y
    BY <1>4 DEF t
  <2>2. y \in 1..(Len(b) + 1)
    BY <1>1
  <2>3. b \in Seq(Token) /\ t \in Seq(Token)
    BY <1>1, <1>2
  <2>4. IsPatched(b, t, x, y, Patched(b, t, x, y), x + Len(t) - y)
    BY <2>2, <2>3, Replaced
  <2> HIDE DEF c
  <2>5. IsPatched(b, t, x, y, c, d)
    BY <2>1, <2>4
  <2> QED BY <2>5 DEF IsPatched
<1> HIDE DEF c
<1>5. /\ Len(c) = Len(b) + d
      /\ \A q \in y..Len(b) : c[q + d] = b[q]
  BY <1>3
<1>6. ASSUME NEW q \in x..(y + d - 1) PROVE c[q] # Lf
  <2>1. q - x + 1 \in 1..(4 + Len(v)) /\ x - 1 + (q - x + 1) = q /\ q - x + 1 \in 1..Len(t)
    BY <1>1, <1>2, <1>4
  <2>2. c[x - 1 + (q - x + 1)] = t[q - x + 1]
    BY <1>3, <2>1
  <2> QED BY <1>2, <2>1, <2>2
<1>7. Spliced(b, c, x, y, d)
  <2>1. x < y + d
    BY <1>1, <1>2, <1>4
  <2> QED BY <1>3, <1>4, <1>5, <1>6, <2>1 DEF Spliced
<1>8. EntryAt(c, x, k, v)
  <2>1. /\ t[1] = k /\ t[2] = Blank /\ t[3] = Equals /\ t[4] = Blank
        /\ v # <<>> => t[5] = v[1]
    <3>1. 1 + 1 = 2 /\ 1 + 2 = 3 /\ 1 + 3 = 4 /\ 1 + 4 = 5
      OBVIOUS
    <3> QED BY <1>2, <3>1 DEF EntryAt
  <2>2. 1 \in 1..Len(t) /\ 2 \in 1..Len(t) /\ 3 \in 1..Len(t) /\ 4 \in 1..Len(t)
    BY <1>2
  <2>3. v # <<>> => 5 \in 1..Len(t)
    <3>1. v # <<>> => Len(v) = 1
      BY DEF Input
    <3> QED BY <1>2, <3>1
  <2>4. /\ c[x - 1 + 1] = t[1] /\ c[x - 1 + 2] = t[2] /\ c[x - 1 + 3] = t[3] /\ c[x - 1 + 4] = t[4]
        /\ v # <<>> => c[x - 1 + 5] = t[5]
    BY <1>3, <2>2, <2>3
  <2>5. /\ x - 1 + 1 = x /\ x - 1 + 2 = x + 1 /\ x - 1 + 3 = x + 2 /\ x - 1 + 4 = x + 3
        /\ x - 1 + 5 = x + 4
    BY <1>1
  <2>6. /\ c[x] = t[1] /\ c[x + 1] = t[2] /\ c[x + 2] = t[3] /\ c[x + 3] = t[4]
        /\ v # <<>> => c[x + 4] = t[5]
    BY <2>4, <2>5
  <2> QED BY <2>1, <2>6 DEF EntryAt
<1>9. Ends(c, x, e + d)
  <2>1. e \in y..Len(b) /\ e + d \in x..Len(c) /\ c[e + d] = Lf
    <3>1. c[e + d] = b[e] /\ Len(c) = Len(b) + d
      BY <1>5
    <3>2. e + d >= x /\ e + d <= Len(b) + d
      BY <1>1, <1>2, <1>4
    <3> QED BY <1>1, <1>4, <3>1, <3>2
  <2>2. ASSUME NEW q \in x..(e + d - 1) PROVE c[q] # Lf
    <3>1. CASE q <= y + d - 1
      BY <1>1, <1>4, <1>6, <3>1
    <3>2. CASE ~(q <= y + d - 1)
      <4>1. q - d \in y..(e - 1) /\ q - d \in y..Len(b) /\ (q - d) + d = q
        BY <1>1, <1>4, <3>2
      <4>2. c[(q - d) + d] = b[q - d]
        BY <1>5, <4>1
      <4> QED BY <4>1, <4>2
    <3> QED BY <3>1, <3>2
  <2> QED BY <1>1, <1>3, <1>4, <1>5, <2>1, <2>2 DEF Ends
<1>10. Follows(c, y + d, n + d, e + d)
  <2>1. /\ n \in Nat /\ y <= n /\ n <= e
        /\ \A q \in y..(n - 1) : b[q] = Blank
        /\ n = e => n = y
        /\ n # e => b[n] = Remark
    BY DEF Follows
  <2>2. /\ y + d \in Nat /\ n + d \in Nat /\ e + d \in Nat /\ y + d <= n + d /\ n + d <= e + d
        /\ n + d = e + d => n + d = y + d
        /\ n + d # e + d => n # e
    BY <1>1, <1>2, <1>4, <2>1, SMTT(30)
  <2>3. ASSUME NEW q \in (y + d)..((n + d) - 1) PROVE c[q] = Blank
    <3>1. q - d \in y..(n - 1) /\ q - d \in y..Len(b) /\ (q - d) + d = q
      BY <1>1, <1>4, <2>1
    <3>2. c[(q - d) + d] = b[q - d]
      BY <1>5, <3>1
    <3> QED BY <2>1, <3>1, <3>2
  <2>4. ASSUME n + d # e + d
        PROVE  /\ c[n + d] = Remark
               /\ \E q \in (n + d + 1)..(e + d - 1) :
                    c[q] \notin Special /\ \A r \in q..(e + d - 1) : c[r] # Blank
    <3>1. n \in y..Len(b) /\ c[n + d] = b[n] /\ b[n] = Remark
      BY <1>1, <1>5, <2>1, <2>2, <2>4
    <3>2. PICK q \in (n + 1)..(e - 1) : b[q] \notin Special /\ \A r \in q..(e - 1) : b[r] # Blank
      BY <2>2, <2>4 DEF Follows
    <3>3. q + d \in (n + d + 1)..(e + d - 1) /\ q \in y..Len(b)
      BY <1>1, <1>4, <2>1, <3>2
    <3>4. c[q + d] \notin Special
      <4>1. c[q + d] = b[q]
        BY <1>5, <3>3
      <4> QED BY <3>2, <4>1
    <3>5. ASSUME NEW r \in (q + d)..(e + d - 1) PROVE c[r] # Blank
      <4>1. r - d \in q..(e - 1) /\ r - d \in y..Len(b) /\ (r - d) + d = r
        BY <1>1, <1>4, <2>1, <3>2, <3>3, SMTT(30)
      <4>2. c[(r - d) + d] = b[r - d]
        BY <1>5, <4>1
      <4> QED BY <3>2, <4>1, <4>2
    <3> QED BY <3>1, <3>3, <3>4, <3>5
  <2> DEFINE g == y + d
             m == n + d
             h == e + d
  <2>5. /\ g \in Nat /\ m \in Nat /\ h \in Nat /\ g <= m /\ m <= h
        /\ \A q \in g..(m - 1) : c[q] = Blank
        /\ m = h => m = g
        /\ m # h => /\ c[m] = Remark
                    /\ \E q \in (m + 1)..(h - 1) :
                         c[q] \notin Special /\ \A r \in q..(h - 1) : c[r] # Blank
    <3>1. /\ g \in Nat /\ m \in Nat /\ h \in Nat /\ g <= m /\ m <= h
          /\ m = h => m = g
      BY <2>2
    <3>2. \A q \in g..(m - 1) : c[q] = Blank
      BY <2>3
    <3>3. m # h => /\ c[m] = Remark
                   /\ \E q \in (m + 1)..(h - 1) :
                         c[q] \notin Special /\ \A r \in q..(h - 1) : c[r] # Blank
      BY <1>1, <1>4, <2>1, <2>4
    <3> HIDE DEF g, m, h
    <3> QED BY <3>1, <3>2, <3>3
  <2> HIDE DEF g, m, h
  <2>6. Follows(c, g, m, h)
    BY <2>5 DEF Follows
  <2> QED BY <2>6 DEF g, m, h
<1>11. /\ Line(c, x).kind = "value" /\ KeyOf(Line(c, x)) = <<k>> /\ ValueOf(Line(c, x)) = v
       /\ TidyRemark(c, x)
  <2>1. x \in 1..Len(c)
    <3>1. Len(c) = Len(b) + d /\ Len(b) >= y /\ y + d = x + 4 + Len(v)
      BY <1>1, <1>4, <1>5
    <3> QED BY <1>1, <1>2, <1>4, <3>1, SMTT(30)
  <2>2. Follows(c, x + 4 + Len(v), n + d, e + d)
    BY <1>4, <1>10
  <2> QED BY <1>3, <1>8, <1>9, <2>1, <2>2, NewLine
<1> QED BY <1>7, <1>11 DEF c, d

\* The lines of a section are lines of the text.
LEMMA WithinWhere ==
  ASSUME NEW ls, Len(ls) \in Nat, NEW at \in 1..Len(ls)
  PROVE  Within(ls, at) \subseteq 1..Len(ls)
<1> DEFINE I == {j \in (at + 1)..Len(ls) : ls[j].kind = "section"}
           other == IF I # {} THEN Min(I) ELSE 0
<1>1. Within(ls, at) = (at + 1)..(IF other = 0 THEN Len(ls) ELSE other - 1)
  BY DEF Within, SelectInSubSeq
<1>2. other = 0 \/ other \in (at + 1)..Len(ls)
  <2>1. I \subseteq (at + 1)..Len(ls) /\ I \subseteq Nat
    OBVIOUS
  <2>2. CASE I # {}
    <3>1. PICK m \in I : \A i \in I : m <= i
      <4> HIDE DEF I
      <4> QED BY <2>1, <2>2, Least
    <3>2. Min(I) = m
      <4>1. I \subseteq Int
        BY <2>1
      <4> HIDE DEF I
      <4> QED BY <3>1, <4>1, MinIs
    <3> HIDE DEF I
    <3> QED BY <2>1, <2>2, <3>1, <3>2
  <2> QED BY <2>2
<1> HIDE DEF other
<1> QED BY <1>1, <1>2

\* Where a new key of section s goes: behind a line feed, with no section between.
LEMMA AddedIs ==
  ASSUME NEW b, Ended(b), NEW s, SectionAt(Lines(b), s) # 0
  PROVE  LET added == AddedAt(Lines(b), SectionAt(Lines(b), s))
         IN \E a : /\ SectionStart(b, s, a) /\ a < added
                   /\ added \in 2..(Len(b) + 1) /\ b[added - 1] = Lf
                   /\ \A p \in (a + 1)..(added - 1) : ~IsSection(b, p)
<1> DEFINE ls == Lines(b)
           at == SectionAt(ls, s)
           a == ls[at].start
           used == {j \in Within(ls, at) : ls[j].kind = "value"} \union {at}
<1>1. InOrder(b, 1, ls)
  BY AllLines
<1>2. Len(ls) \in Nat /\ Len(b) \in Nat
  BY <1>1 DEF InOrder, Ended
<1>3. at \in 1..Len(ls) /\ SectionStart(b, s, a)
  BY <1>2, SectionAtIs
<1>4. \A j \in 1..Len(ls) : j \in Within(ls, at) <=> Among(b, a, ls[j].start)
  BY <1>3, WithinIs
<1>5. Within(ls, at) \subseteq 1..Len(ls)
  BY <1>2, <1>3, WithinWhere
<1>6. used \subseteq 1..Len(ls) /\ used # {}
  BY <1>3, <1>5
<1> HIDE DEF used
<1> DEFINE j == CHOOSE j \in used : \A i \in used : i <= j
<1>7. j \in used /\ \A i \in used : i <= j
  <2>1. used \subseteq 0..Len(ls)
    BY <1>2, <1>6
  <2>2. \E m \in used : \A i \in used : m >= i
    BY <1>2, <1>6, <2>1, Greatest
  <2>3. \E m \in used : \A i \in used : i <= m
    BY <1>6, <2>2
  <2> QED BY <2>3
<1> DEFINE added == AddedAt(ls, at)
           l == ls[j]
<1>8. added = l.next
  BY DEF AddedAt, used
<1> HIDE DEF j, added, at, ls
<1>9. /\ j \in 1..Len(ls) /\ l.start \in 1..Len(b) /\ l = Line(b, l.start)
  BY <1>1, <1>6, <1>7 DEF InOrder
<1> HIDE DEF l
<1>10. /\ added \in (l.start + 1)..(Len(b) + 1) /\ b[added - 1] = Lf
       /\ \A p \in Starts(b) : p > l.start => p >= added
  <2>1. /\ Line(b, l.start).next \in (l.start + 1)..(Len(b) + 1)
        /\ b[Line(b, l.start).next - 1] = Lf
        /\ \A p \in Starts(b) : p > l.start => p >= Line(b, l.start).next
    BY <1>9, NextLine
  <2>2. Line(b, l.start).next = added
    BY <1>8, <1>9
  <2> QED BY <2>1, <2>2
<1>11. a <= l.start /\ \A p \in (a + 1)..l.start : ~IsSection(b, p)
  <2>0. a \in Int
    BY <1>3 DEF SectionStart, Opens, IsSection, Starts
  <2>1. CASE j = at
    BY <1>9, <2>0, <2>1 DEF l
  <2>2. CASE j # at
    <3>1. j \in Within(ls, at)
      BY <1>7, <2>2 DEF used
    <3>2. Among(b, a, l.start)
      BY <1>4, <1>9, <3>1 DEF l
    <3> QED BY <1>9, <2>0, <3>2 DEF Among
  <2> QED BY <2>1, <2>2
<1>12. ASSUME NEW p \in (a + 1)..(added - 1), IsSection(b, p) PROVE FALSE
  <2>1. p \in Starts(b) /\ a \in Int
    BY <1>3, <1>12 DEF IsSection, SectionStart, Opens, Starts
  <2>2. p <= l.start
    BY <1>9, <1>10, <1>12, <2>1, SMTT(30)
  <2>3. p \in (a + 1)..l.start
    BY <1>9, <1>12, <2>1, <2>2
  <2> QED BY <1>11, <1>12, <2>3
<1>13. a < added /\ added \in 2..(Len(b) + 1)
  <2>1. a \in Int
    BY <1>3 DEF SectionStart, Opens, IsSection, Starts
  <2> QED BY <1>2, <1>9, <1>10, <1>11, <2>1
<1> HIDE DEF a
<1> QED BY <1>3, <1>10, <1>12, <1>13 DEF added, at, ls

\* All there is to know of a text in which a setting is written anew.
Written(b, c, s, k, v) ==
  \E x, y, d, a :
    /\ Spliced(b, c, x, y, d) /\ GivesIn(b, c, x, y, s, k, a)
    /\ ValueOf(Line(c, x)) = v /\ TidyRemark(c, x)
    /\ x <= y => KeyAt(b, s, k, x)
    /\ ~(x <= y) => \A q : ~KeyAt(b, s, k, q)

\* The value of a key that is there is replaced, and its remark is kept.
LEMMA ValueReplaced ==
  ASSUME NEW b, Tidy(b), NEW s, NEW k, Word(k), NEW v, Input(v), NEW x, KeyAt(b, s, k, x)
  PROVE  Written(b, Patched(b, Entry(k, v), x, Line(b, x).rem), s, k, v)
<1>1. Ended(b) /\ b \in Seq(Token) /\ Len(b) \in Nat
  BY DEF Tidy, Ended
<1>2. /\ x \in Starts(b) /\ Line(b, x).kind = "value" /\ KeyOf(Line(b, x)) = <<k>>
      /\ x \in 1..Len(b) /\ (x = 1 \/ b[x - 1] = Lf)
  BY DEF KeyAt, Gives, Starts
<1>3. PICK e, n, f :
        /\ e \in x..Len(b) /\ n \in x..e /\ f \in x..n
        /\ e = LineEnd(b, x) /\ n = RemarkSign(b, x, e)
        /\ Ends(b, x, e) /\ Signs(b, x, e, n) /\ Leads(b, x, n, f)
  BY <1>1, <1>2, PartsExist
<1> DEFINE y == Line(b, x).rem
           c == Patched(b, Entry(k, v), x, y)
           d == x + 4 + Len(v) - y
<1>4. y = RemAt(b, x, e, n)
  BY <1>1, <1>2, <1>3, LineIs
<1>5. Blanks(b, x, n) \in 0..(n - x)
  <2>1. x \in Int /\ n \in Int /\ x <= n
    BY <1>2, <1>3
  <2> QED BY <2>1, BlanksType
<1> HIDE DEF y
<1>6. y \in x..n /\ (n = e => y = e) /\ (n # e => y = n - Blanks(b, x, n))
  <2>1. CASE n = e
    BY <1>2, <1>3, <1>4, <2>1 DEF RemAt
  <2>2. CASE n # e
    <3>1. y = n - Blanks(b, x, n)
      BY <1>4, <2>2 DEF RemAt
    <3> QED BY <1>2, <1>3, <1>5, <2>2, <3>1
  <2> QED BY <2>1, <2>2
<1>7. Follows(b, y, n, e)
  <2>1. TidyRemark(b, x)
    BY <1>2 DEF Tidy
  <2>2. n # e => /\ \A q \in (n - Blanks(b, x, n))..(n - 1) : b[q] = Blank
                 /\ \E q \in (n + 1)..(e - 1) :
                      b[q] \notin Special /\ \A r \in q..(e - 1) : b[r] # Blank
    BY <1>3, <2>1 DEF TidyRemark
  <2>3. n # e => b[n] = Remark
    BY <1>3 DEF Signs
  <2>4. y \in Nat /\ n \in Nat /\ e \in Nat /\ y <= n /\ n <= e
    BY <1>2, <1>3, <1>6
  <2>5. \A q \in y..(n - 1) : b[q] = Blank
    <3>1. CASE n = e
      BY <1>6, <2>4, <3>1
    <3>2. CASE n # e
      BY <1>6, <2>2, <3>2
    <3> QED BY <3>1, <3>2
  <2> QED BY <1>6, <2>2, <2>3, <2>4, <2>5 DEF Follows
<1>8. /\ y \in (x - 1)..Len(b) /\ y >= 1 /\ x \in 1..(Len(b) + 1)
      /\ \A q \in x..(y - 1) : b[q] # Lf
      /\ e \in y..Len(b) /\ b[e] = Lf /\ \A q \in y..(e - 1) : b[q] # Lf
  <2>1. b[e] = Lf /\ \A q \in x..(e - 1) : b[q] # Lf
    BY <1>1, <1>3 DEF Ends
  <2>2. /\ y \in (x - 1)..Len(b) /\ y >= 1 /\ x \in 1..(Len(b) + 1) /\ e \in y..Len(b)
        /\ \A q \in x..(y - 1) : q \in x..(e - 1)
        /\ \A q \in y..(e - 1) : q \in x..(e - 1)
    BY <1>1, <1>2, <1>3, <1>6
  <2> QED BY <2>1, <2>2
<1>9. /\ Spliced(b, c, x, y, d)
      /\ Line(c, x).kind = "value" /\ KeyOf(Line(c, x)) = <<k>> /\ ValueOf(Line(c, x)) = v
      /\ TidyRemark(c, x)
  BY <1>1, <1>2, <1>7, <1>8, EntrySpliced
<1>10. PICK a : SectionStart(b, s, a) /\ Among(b, a, x)
  BY DEF KeyAt
<1> HIDE DEF c, d
<1>11. a < x /\ \A p \in (a + 1)..(x - 1) : ~IsSection(b, p)
  <2>1. a \in Int /\ x \in Int
    BY <1>2, <1>10 DEF SectionStart, Opens, IsSection, Starts
  <2> QED BY <1>10, <2>1 DEF Among
<1>12. GivesIn(b, c, x, y, s, k, a)
  BY <1>2, <1>9, <1>10, <1>11 DEF GivesIn
<1>13. x <= y
  BY <1>2, <1>3, <1>6
<1>14. Written(b, c, s, k, v)
  BY <1>9, <1>12, <1>13 DEF Written
<1> QED BY <1>14 DEF c, y

\* A key that is not there gets a line of its own.
LEMMA KeyAdded ==
  ASSUME NEW b, Tidy(b), NEW s, NEW k, Word(k), NEW v, Input(v),
         SectionAt(Lines(b), s) # 0, \A q : ~KeyAt(b, s, k, q)
  PROVE  LET x == AddedAt(Lines(b), SectionAt(Lines(b), s))
         IN Written(b, Patched(b, Entry(k, v), x, x - 1), s, k, v)
<1> DEFINE x == AddedAt(Lines(b), SectionAt(Lines(b), s))
           y == x - 1
           c == Patched(b, Entry(k, v), x, y)
           d == x + 4 + Len(v) - y
<1>1. Ended(b) /\ b \in Seq(Token) /\ Len(b) \in Nat
  BY DEF Tidy, Ended
<1>2. PICK a : /\ SectionStart(b, s, a) /\ a < x
               /\ x \in 2..(Len(b) + 1) /\ b[x - 1] = Lf
               /\ \A p \in (a + 1)..(x - 1) : ~IsSection(b, p)
  BY <1>1, AddedIs
<1> HIDE DEF x
<1>3. y \in Nat /\ y >= 1 /\ y \in (x - 1)..Len(b) /\ x \in 1..(Len(b) + 1) /\ y \in y..Len(b)
  BY <1>1, <1>2
<1>4. /\ \A q \in x..(y - 1) : b[q] # Lf
      /\ \A q \in y..(y - 1) : b[q] # Lf
      /\ b[y] = Lf
  BY <1>2
<1>5. Follows(b, y, y, y)
  BY <1>3 DEF Follows
<1> HIDE DEF y
<1>6. x = 1 \/ b[x - 1] = Lf
  BY <1>2
<1>7. /\ Spliced(b, c, x, y, d)
      /\ Line(c, x).kind = "value" /\ KeyOf(Line(c, x)) = <<k>> /\ ValueOf(Line(c, x)) = v
      /\ TidyRemark(c, x)
  BY <1>1, <1>3, <1>4, <1>5, <1>6, EntrySpliced
<1> HIDE DEF c, d
<1>8. ~(x <= y)
  BY <1>2, <1>3 DEF y
<1>9. GivesIn(b, c, x, y, s, k, a)
  BY <1>2, <1>7, <1>8 DEF GivesIn
<1>10. Written(b, c, s, k, v)
  BY <1>7, <1>8, <1>9 DEF Written
<1> QED BY <1>10 DEF c, y, x

\* The line feed behind a new line is the one that was in front of it.
LEMMA LineFeed ==
  ASSUME NEW b \in Seq(Token), NEW t \in Seq(Token), NEW x \in 2..(Len(b) + 1), b[x - 1] = Lf
  PROVE  SubSeq(b, 1, x - 1) \o t \o <<Lf>> \o SubSeq(b, x, Len(b)) = Patched(b, t, x, x - 1)
<1> DEFINE u == SubSeq(b, 1, x - 1)
           w == SubSeq(b, x, Len(b))
<1>1. u \in Seq(Token) /\ w \in Seq(Token) /\ <<Lf>> \in Seq(Token) /\ u \o t \in Seq(Token)
  <2>1. x - 1 \in Int /\ x - 1 <= Len(b) /\ 1 <= x /\ Len(b) \in Int /\ x \in Int
    OBVIOUS
  <2>2. u \in Seq(Token)
    BY <2>1, SubSeqIs
  <2>3. w \in Seq(Token)
    BY <2>1, SubSeqIs
  <2>4. <<Lf>> \in Seq(Token)
    <3>1. Lf \in Token
      BY IniFileAssumption DEF Special
    <3> QED BY <3>1
  <2> HIDE DEF u, w
  <2>5. u \o t \in Seq(Token)
    BY <2>2, ConcatProperties
  <2> QED BY <2>2, <2>3, <2>4, <2>5
<1>2. <<Lf>> \o w = SubSeq(b, x - 1, Len(b))
  <2>1. SubSeq(b, x - 1, x - 1) = <<Lf>>
    <3> DEFINE z == SubSeq(b, x - 1, x - 1)
    <3>1. x - 1 \in Int /\ 1 <= x - 1 /\ x - 1 <= Len(b)
      OBVIOUS
    <3>2. /\ z \in Seq(Token) /\ Len(z) = (IF x - 1 <= x - 1 THEN x - 1 - (x - 1) + 1 ELSE 0)
          /\ \A j \in 1..(x - 1 - (x - 1) + 1) : z[j] = b[x - 1 + j - 1]
      BY <3>1, SubSeqIs
    <3> HIDE DEF z
    <3>3. x - 1 - (x - 1) + 1 = 1 /\ x - 1 + 1 - 1 = x - 1
      BY <3>1
    <3>4. Len(z) = 1 /\ z[1] = b[x - 1 + 1 - 1]
      BY <3>1, <3>2, <3>3
    <3>5. z[1] = Lf
      BY <3>3, <3>4
    <3>6. <<Lf>> \in Seq(Token) /\ Len(<<Lf>>) = 1 /\ <<Lf>>[1] = Lf
      BY <1>1
    <3>7. z = <<Lf>>
      BY <3>2, <3>4, <3>5, <3>6, SeqEqual
    <3> QED BY <3>7 DEF z
  <2>2. SubSeq(b, x - 1, x - 1) \o SubSeq(b, (x - 1) + 1, Len(b)) = SubSeq(b, x - 1, Len(b))
    <3>1. x - 1 \in 1..(Len(b) + 1) /\ x - 1 \in ((x - 1) - 1)..Len(b) /\ Len(b) \in (x - 1)..Len(b)
      OBVIOUS
    <3> QED BY <3>1, ConcatAdjacentSubSeq
  <2>3. (x - 1) + 1 = x
    OBVIOUS
  <2> QED BY <2>1, <2>2, <2>3
<1> HIDE DEF u, w
<1>3. ((u \o t) \o <<Lf>>) \o w = (u \o t) \o (<<Lf>> \o w)
  BY <1>1, ConcatAssociative, SMTT(30)
<1> QED BY <1>2, <1>3 DEF Patched, u, w

\* What BeginSet leaves to fclose is the text with the setting in it.
LEMMA RewrittenIs ==
  ASSUME NEW b, Tidy(b), NEW s, NEW k, Word(k), NEW v, Input(v), SectionAt(Lines(b), s) # 0
  PROVE  Written(b, Rewritten(b, Lines(b), s, k, v), s, k, v)
<1> DEFINE ls == Lines(b)
           at == SectionAt(ls, s)
           found == KeyLines(ls, at, k)
           l == ls[First(found)]
           x == AddedAt(ls, at)
<1>1. Ended(b) /\ b \in Seq(Token)
  BY DEF Tidy, Ended
<1>2. /\ found = {} => \A q : ~KeyAt(b, s, k, q)
      /\ found # {} => /\ KeyAt(b, s, k, l.start)
                       /\ l = Line(b, l.start)
  BY <1>1, FoundIs
<1>3. Rewritten(b, ls, s, k, v) =
        IF found # {}
          THEN Patched(b, Entry(k, v), l.start, l.rem)
          ELSE SubSeq(b, 1, x - 1) \o Entry(k, v) \o <<Lf>> \o SubSeq(b, x, Len(b))
  BY DEF Rewritten, KeptAfter, Patched
<1>4. CASE found # {}
  <2>1. KeyAt(b, s, k, l.start) /\ Line(b, l.start).rem = l.rem
    BY <1>2, <1>4
  <2>2. Rewritten(b, ls, s, k, v) = Patched(b, Entry(k, v), l.start, l.rem)
    BY <1>3, <1>4
  <2> HIDE DEF l, found, at
  <2>3. Written(b, Patched(b, Entry(k, v), l.start, Line(b, l.start).rem), s, k, v)
    BY <2>1, ValueReplaced
  <2> QED BY <2>1, <2>2, <2>3 DEF ls
<1>5. CASE found = {}
  <2>1. Written(b, Patched(b, Entry(k, v), x, x - 1), s, k, v)
    BY <1>2, <1>5, KeyAdded
  <2>2. x \in 2..(Len(b) + 1) /\ b[x - 1] = Lf
    BY <1>1, AddedIs
  <2>3. Entry(k, v) \in Seq(Token)
    BY EntryIs
  <2> HIDE DEF x, found
  <2>4. SubSeq(b, 1, x - 1) \o Entry(k, v) \o <<Lf>> \o SubSeq(b, x, Len(b))
          = Patched(b, Entry(k, v), x, x - 1)
    BY <1>1, <2>2, <2>3, LineFeed
  <2> QED BY <1>3, <1>5, <2>1, <2>4
<1> QED BY <1>4, <1>5

-----------------------------------------------------------------------------
(* A new section at the end.                                               *)

\* c is b with a section for s and the entry for k and v behind it.
Appended(b, c, s, k, v) ==
  LET n == Len(b)
  IN /\ c \in Seq(Token) /\ Len(c) = n + 10 + Len(v)
     /\ \A q \in 1..n : c[q] = b[q]
     /\ c[n + 1] = Lf /\ c[n + 2] = Opening /\ c[n + 3] = s /\ c[n + 4] = Closing /\ c[n + 5] = Lf
     /\ EntryAt(c, n + 6, k, v)
     /\ \A q \in (n + 6)..(n + 9 + Len(v)) : c[q] # Lf
     /\ c[n + 10 + Len(v)] = Lf

\* What AppendSection writes is such a text.
LEMMA AppendedIs ==
  ASSUME NEW b \in Seq(Token), NEW s, Word(s), NEW k, Word(k), NEW v, Input(v),
         NEW c, c = b \o <<Lf, Opening, s, Closing, Lf>> \o Entry(k, v) \o <<Lf>>
  PROVE  Appended(b, c, s, k, v)
<1> DEFINE h == <<Lf, Opening, s, Closing, Lf>>
           t == Entry(k, v)
           w == <<Lf>>
           bh == b \o h
           bt == bh \o t
           n == Len(b)
           g == Len(v)
<1>1. /\ t \in Seq(Token) /\ Len(t) = 4 + g /\ g \in 0..1
      /\ EntryAt(t, 1, k, v) /\ \A j \in 1..(4 + g) : t[j] # Lf
  BY EntryIs
<1>2. Lf \in Token /\ Opening \in Token /\ Closing \in Token /\ s \in Token
  BY IniFileAssumption DEF Special, Word
<1>3. /\ h \in Seq(Token) /\ Len(h) = 5
      /\ h[1] = Lf /\ h[2] = Opening /\ h[3] = s /\ h[4] = Closing /\ h[5] = Lf
  BY <1>2
<1>4. w \in Seq(Token) /\ Len(w) = 1 /\ w[1] = Lf
  BY <1>2
<1> HIDE DEF h, t, w
<1>5. /\ bh \in Seq(Token) /\ Len(bh) = n + Len(h)
      /\ \A i \in 1..(n + Len(h)) : bh[i] = IF i <= n THEN b[i] ELSE h[i - n]
  BY <1>3, ConcatProperties
<1> HIDE DEF bh
<1>6. /\ bt \in Seq(Token) /\ Len(bt) = Len(bh) + Len(t)
      /\ \A i \in 1..(Len(bh) + Len(t)) : bt[i] = IF i <= Len(bh) THEN bh[i] ELSE t[i - Len(bh)]
  <2>1. bh \in Seq(Token) /\ t \in Seq(Token)
    BY <1>1, <1>5
  <2> QED BY <2>1, ConcatProperties
<1>7. c = bt \o w
  BY DEF bh, h, t, w
<1> HIDE DEF bt
<1> DEFINE z == bt \o w
<1>8. /\ z \in Seq(Token) /\ Len(z) = Len(bt) + Len(w)
      /\ \A i \in 1..(Len(bt) + Len(w)) : z[i] = IF i <= Len(bt) THEN bt[i] ELSE w[i - Len(bt)]
  <2>1. bt \in Seq(Token) /\ w \in Seq(Token)
    BY <1>4, <1>6
  <2> QED BY <2>1, ConcatProperties
<1> HIDE DEF z
<1>9. n \in Nat /\ Len(bh) = n + 5 /\ Len(bt) = n + 9 + g /\ Len(z) = n + 10 + g
  <2>1. n \in Nat
    OBVIOUS
  <2>2. Len(bh) = n + 5
    BY <1>3, <1>5
  <2> HIDE DEF n, g
  <2>3. Len(bt) = n + 9 + g
    BY <1>1, <1>6, <2>1, <2>2
  <2> QED BY <1>1, <1>4, <1>8, <2>1, <2>2, <2>3
<1> HIDE DEF n, g
<1>10. \A i \in 1..(n + 9 + g) : z[i] = bt[i]
  BY <1>1, <1>4, <1>8, <1>9
<1>11. \A i \in 1..(n + 5) : z[i] = bh[i]
  BY <1>1, <1>6, <1>9, <1>10
<1>12. \A j \in 1..(4 + g) : z[n + 5 + j] = t[j]
  <2> SUFFICES ASSUME NEW j \in 1..(4 + g) PROVE z[n + 5 + j] = t[j]
    OBVIOUS
  <2> DEFINE i == n + 5 + j
  <2>1. /\ i \in 1..(n + 9 + g) /\ i \in 1..(Len(bh) + Len(t))
        /\ ~(i <= Len(bh)) /\ i - Len(bh) = j
    BY <1>1, <1>9
  <2> HIDE DEF i
  <2>2. z[i] = bt[i] /\ bt[i] = t[i - Len(bh)]
    BY <1>6, <1>10, <2>1
  <2>3. z[i] = t[j]
    BY <2>1, <2>2
  <2> QED BY <2>3 DEF i
<1>13. \A i \in 1..n : z[i] = b[i]
  BY <1>3, <1>5, <1>9, <1>11
<1>14. \A j \in 1..5 : z[n + j] = h[j]
  <2> SUFFICES ASSUME NEW j \in 1..5 PROVE z[n + j] = h[j]
    OBVIOUS
  <2> DEFINE i == n + j
  <2>1. /\ i \in 1..(n + 5) /\ i \in 1..(n + Len(h))
        /\ ~(i <= n) /\ i - n = j
    BY <1>3, <1>9
  <2> HIDE DEF i
  <2>2. z[i] = bh[i] /\ bh[i] = h[i - n]
    BY <1>5, <1>11, <2>1
  <2>3. z[i] = h[j]
    BY <2>1, <2>2
  <2> QED BY <2>3 DEF i
<1>15. /\ z[n + 1] = Lf /\ z[n + 2] = Opening /\ z[n + 3] = s /\ z[n + 4] = Closing /\ z[n + 5] = Lf
  BY <1>3, <1>14
<1>16. z[n + 10 + g] = Lf
  <2>1. n + 10 + g \in 1..(Len(bt) + Len(w)) /\ ~(n + 10 + g <= Len(bt)) /\ n + 10 + g - Len(bt) = 1
    BY <1>1, <1>4, <1>9
  <2> QED BY <1>4, <1>8, <2>1
<1>17. EntryAt(z, n + 6, k, v)
  <2>1. /\ t[1] = k /\ t[2] = Blank /\ t[3] = Equals /\ t[4] = Blank
        /\ v # <<>> => t[5] = v[1]
    <3>1. 1 + 1 = 2 /\ 1 + 2 = 3 /\ 1 + 3 = 4 /\ 1 + 4 = 5
      OBVIOUS
    <3> QED BY <1>1, <3>1 DEF EntryAt
  <2>2. v # <<>> => g = 1
    BY DEF Input, g
  <2>3. /\ z[n + 5 + 1] = t[1] /\ z[n + 5 + 2] = t[2] /\ z[n + 5 + 3] = t[3] /\ z[n + 5 + 4] = t[4]
        /\ v # <<>> => z[n + 5 + 5] = t[5]
    BY <1>1, <1>12, <2>2
  <2>4. /\ n + 5 + 1 = n + 6 /\ n + 5 + 2 = n + 6 + 1 /\ n + 5 + 3 = n + 6 + 2
        /\ n + 5 + 4 = n + 6 + 3 /\ n + 5 + 5 = n + 6 + 4
    BY <1>9
  <2>5. /\ z[n + 6] = k /\ z[n + 6 + 1] = Blank /\ z[n + 6 + 2] = Equals /\ z[n + 6 + 3] = Blank
        /\ v # <<>> => z[n + 6 + 4] = v[1]
    BY <2>1, <2>3, <2>4
  <2> QED BY <2>5 DEF EntryAt
<1>18. \A q \in (n + 6)..(n + 9 + g) : z[q] # Lf
  <2> SUFFICES ASSUME NEW q \in (n + 6)..(n + 9 + g) PROVE z[q] # Lf
    OBVIOUS
  <2>1. q - n - 5 \in 1..(4 + g) /\ n + 5 + (q - n - 5) = q
    BY <1>1, <1>9
  <2>2. z[n + 5 + (q - n - 5)] = t[q - n - 5]
    BY <1>12, <2>1
  <2> QED BY <1>1, <2>1, <2>2
<1>19. c = z
  BY <1>7 DEF z
<1>20. Appended(b, z, s, k, v)
  BY <1>8, <1>9, <1>13, <1>15, <1>16, <1>17, <1>18 DEF Appended, n, g
<1> QED BY <1>19, <1>20

\* The line of a section.
LEMMA SectionLine ==
  ASSUME NEW c \in Seq(Token), NEW x \in 1..Len(c), NEW s, Word(s), x + 3 \in 1..Len(c),
         c[x] = Opening, c[x + 1] = s, c[x + 2] = Closing, c[x + 3] = Lf
  PROVE  Line(c, x).kind = "section" /\ SectionName(Line(c, x)) = <<s>>
<1> DEFINE e == x + 3
<1>1. /\ s \notin Special /\ Opening \notin Special /\ Closing \notin Special
      /\ Lf \in Special /\ Remark \in Special /\ Quote \in Special /\ Blank \in Special
      /\ x \in Nat /\ 1 <= x /\ Len(c) \in Nat /\ e \in Nat /\ x <= e
  <2>1. s \notin Special
    BY DEF Word
  <2>2. Opening \notin Special /\ Closing \notin Special
    BY DEF Special, Opening, Closing, Lf, Blank, Remark, Quote
  <2>3. Lf \in Special /\ Remark \in Special /\ Quote \in Special /\ Blank \in Special
    BY DEF Special
  <2> QED BY <2>1, <2>2, <2>3
<1>2. \A q \in x..(e - 1) : c[q] \notin Special
  <2>1. \A q \in x..(e - 1) : q = x \/ q = x + 1 \/ q = x + 2
    BY <1>1
  <2> QED BY <1>1, <2>1
<1>3. Ends(c, x, e)
  <2>1. e \in x..(Len(c) + 1)
    BY <1>1
  <2> QED BY <1>1, <1>2, <2>1 DEF Ends
<1>4. Signs(c, x, e, e)
  BY <1>1, <1>2 DEF Signs
<1>5. Leads(c, x, e, x)
  <2>1. x \in x..e /\ x \in x..(e - 1) /\ \A q \in x..(x - 1) : c[q] \in Special
    BY <1>1
  <2> QED BY <1>2, <2>1 DEF Leads
<1>6. Blanks(c, x, e) = 0
  <2>1. x + 2 \in x..(e - 1) /\ x \in Int /\ e \in Int /\ e - (x + 2) - 1 = 0
    BY <1>1
  <2>2. \A q \in ((x + 2) + 1)..(e - 1) : c[q] = Blank
    BY <1>1
  <2>3. Blanks(c, x, e) = e - (x + 2) - 1
    BY <1>2, <2>1, <2>2, BlanksAfter
  <2> QED BY <2>1, <2>3
<1>7. ContentEnd(c, x, e, e) = x + 2
  <2>1. ContentEnd(c, x, e, e) = e - 0 - 1
    BY <1>6 DEF ContentEnd, RemAt
  <2> QED BY <1>1, <2>1
<1> DEFINE t == SubSeq(c, x, x + 2)
<1>8. /\ Line(c, x).kind = Kind(t)
      /\ Line(c, x).content = t
  <2>1. ContentOf(c, x, e, e, x) = t
    BY <1>7 DEF ContentOf
  <2>2. /\ Line(c, x).content = ContentOf(c, x, e, e, x)
        /\ Line(c, x).kind = Kind(ContentOf(c, x, e, e, x))
    BY <1>3, <1>4, <1>5, LineIs
  <2> QED BY <2>1, <2>2
<1>9. t \in Seq(Token) /\ Len(t) = 3 /\ t[1] = Opening /\ t[2] = s /\ t[3] = Closing
  <2>1. x \in Int /\ x + 2 \in Int /\ 1 <= x /\ x + 2 <= Len(c)
    BY <1>1
  <2>2. /\ t \in Seq(Token) /\ Len(t) = (IF x <= x + 2 THEN x + 2 - x + 1 ELSE 0)
        /\ \A j \in 1..(x + 2 - x + 1) : t[j] = c[x + j - 1]
    BY <2>1, SubSeqIs
  <2> HIDE DEF t
  <2>3. x + 2 - x + 1 = 3 /\ x + 1 - 1 = x /\ x + 2 - 1 = x + 1 /\ x + 3 - 1 = x + 2 /\ x <= x + 2
    BY <1>1
  <2>4. Len(t) = 3 /\ \A j \in 1..3 : t[j] = c[x + j - 1]
    BY <2>2, <2>3
  <2>5. t[1] = c[x + 1 - 1] /\ t[2] = c[x + 2 - 1] /\ t[3] = c[x + 3 - 1]
    BY <2>4
  <2> QED BY <2>2, <2>3, <2>4, <2>5
<1> HIDE DEF t
<1>10. Kind(t) = "section"
  <2>1. t # <<>> /\ Head(t) = Opening
    <3>1. t # <<>>
      <4>1. Len(<<>>) # 3
        OBVIOUS
      <4>2. Len(t) = 3
        BY <1>9
      <4> QED BY <4>1, <4>2
    <3>2. Head(t) = t[1]
      BY <1>9, <3>1, HeadTailProperties
    <3> QED BY <1>9, <3>1, <3>2
  <2>2. Last(t) = Closing
    BY <1>9 DEF Last
  <2> QED BY <2>1, <2>2 DEF Kind
<1>11. SectionName(Line(c, x)) = <<s>>
  <2> DEFINE u == SubSeq(t, 2, 2)
  <2>1. SectionName(Line(c, x)) = Strip(u)
    BY <1>8, <1>9 DEF SectionName
  <2>2. u \in Seq(Token) /\ Len(u) = 1 /\ u[1] = s
    <3>1. u \in Seq(Token) /\ Len(u) = 2 - 2 + 1 /\ \A j \in 1..(2 - 2 + 1) : u[j] = t[2 + j - 1]
      BY <1>9, SubSeqIs
    <3> HIDE DEF u
    <3>2. u[1] = t[2 + 1 - 1]
      BY <3>1
    <3> QED BY <1>9, <3>1, <3>2
  <2> HIDE DEF u
  <2>3. 1 \in 1..Len(u) /\ u[1] # Blank /\ \A q \in 1..Len(u) : q # 1 => u[q] = Blank
    BY <1>1, <2>2
  <2>4. Strip(u) = <<u[1]>>
    BY <2>2, <2>3, StripIs
  <2> QED BY <2>1, <2>2, <2>4
<1> QED BY <1>8, <1>10, <1>11

\* It has the lines it had, the new section and the new setting.
LEMMA AppendedLines ==
  ASSUME NEW b, Ended(b), NEW s, Word(s), NEW k, Word(k), NEW v, Input(v),
         NEW c, Appended(b, c, s, k, v)
  PROVE  LET x == Len(b) + 2
             z == Len(b) + 6
         IN /\ Ended(c) /\ x \in Starts(c) /\ z \in Starts(c)
            /\ Line(c, x).kind = "section" /\ SectionName(Line(c, x)) = <<s>>
            /\ Line(c, z).kind = "value" /\ KeyOf(Line(c, z)) = <<k>> /\ ValueOf(Line(c, z)) = v
            /\ TidyRemark(c, z)
            /\ \A p \in Starts(b) : p \in Starts(c) /\ Copied(b, p, c, 0) /\ p < x
            /\ \A r \in Starts(c) : r \in Starts(b) \/ r = x \/ r = z
<1> DEFINE n == Len(b)
           g == Len(v)
           x == n + 2
           z == n + 6
<1>1. b \in Seq(Token) /\ c \in Seq(Token) /\ n \in Nat /\ g \in 0..1 /\ Len(c) = n + 10 + g
  BY EntryIs DEF Appended, Ended
<1>2. /\ \A q \in 1..n : c[q] = b[q]
      /\ c[n + 1] = Lf /\ c[n + 2] = Opening /\ c[n + 3] = s /\ c[n + 4] = Closing /\ c[n + 5] = Lf
      /\ EntryAt(c, n + 6, k, v)
      /\ \A q \in (n + 6)..(n + 9 + g) : c[q] # Lf
      /\ c[n + 10 + g] = Lf
  BY DEF Appended
<1>3. b # <<>> => b[n] = Lf
  BY DEF Ended, Last
<1> HIDE DEF n, g
<1>4. Opening # Lf /\ Closing # Lf /\ s # Lf /\ Opening # Closing
  BY DEF Opening, Closing, Lf, Word, Special
<1>5. Ended(c)
  <2>1. c[Len(c)] = Lf
    BY <1>1, <1>2
  <2> QED BY <1>1, <2>1 DEF Ended, Last
<1>6. x \in Starts(c) /\ z \in Starts(c)
  <2>1. x \in 1..Len(c) /\ z \in 1..Len(c) /\ x - 1 = n + 1 /\ z - 1 = n + 5 /\ z \in (n + 6)..(n + 9 + g)
    BY <1>1
  <2>2. c[x] # Lf /\ c[x - 1] = Lf /\ c[z] # Lf /\ c[z - 1] = Lf
    BY <1>2, <1>4, <2>1
  <2> QED BY <2>1, <2>2 DEF Starts
<1>7. Line(c, x).kind = "section" /\ SectionName(Line(c, x)) = <<s>>
  <2>1. x \in 1..Len(c) /\ x + 3 \in 1..Len(c) /\ x + 1 = n + 3 /\ x + 2 = n + 4 /\ x + 3 = n + 5
    BY <1>1
  <2>2. c[x] = Opening /\ c[x + 1] = s /\ c[x + 2] = Closing /\ c[x + 3] = Lf
    BY <1>2, <2>1
  <2> HIDE DEF x
  <2> QED BY <1>1, <2>1, <2>2, SectionLine
<1>8. /\ Line(c, z).kind = "value" /\ KeyOf(Line(c, z)) = <<k>> /\ ValueOf(Line(c, z)) = v
      /\ TidyRemark(c, z)
  <2> DEFINE e == n + 10 + g
  <2>1. /\ z \in 1..Len(c) /\ e = z + 4 + g /\ e \in Nat /\ z <= e /\ e <= Len(c)
        /\ e - 1 = n + 9 + g
    BY <1>1
  <2>2. Ends(c, z, e)
    <3>1. e \in z..(Len(c) + 1) /\ c[e] = Lf
      BY <1>1, <1>2
    <3>2. \A q \in z..(e - 1) : c[q] # Lf
      BY <1>2, <2>1
    <3> QED BY <3>1, <3>2 DEF Ends
  <2>3. EntryAt(c, z, k, v)
    BY <1>2
  <2> HIDE DEF e, z
  <2>4. Follows(c, e, e, e)
    BY <2>1 DEF Follows
  <2>5. Follows(c, z + 4 + Len(v), e, e)
    BY <2>1, <2>4 DEF g
  <2> QED BY <1>1, <2>1, <2>2, <2>3, <2>5, NewLine
<1>9. ASSUME NEW p \in Starts(b) PROVE p \in Starts(c) /\ Copied(b, p, c, 0) /\ p < x
  <2>1. p \in 1..n /\ b[p] # Lf /\ (p = 1 \/ b[p - 1] = Lf)
    BY DEF Starts, n
  <2>2. p \in 1..Len(c) /\ (p # 1 => p - 1 \in 1..n) /\ p < x
    BY <1>1, <2>1
  <2>3. p \in Starts(c)
    BY <1>2, <2>1, <2>2 DEF Starts
  <2> DEFINE e == LineEnd(b, p)
  <2>4. Ends(b, p, e)
    <3>1. p \in 1..(Len(b) + 1)
      BY <1>1, <2>1 DEF n
    <3> QED BY <1>1, <3>1, LineEnds
  <2> HIDE DEF e
  <2>5. e \in p..n
    <3>1. e \in p..(n + 1) /\ \A q \in p..(e - 1) : b[q] # Lf
      BY <2>4 DEF Ends, n
    <3>2. b # <<>>
      BY <1>1, <2>1 DEF n
    <3>3. ~(n \in p..(e - 1))
      BY <1>3, <3>1, <3>2
    <3> QED BY <1>1, <2>1, <3>1, <3>3
  <2>6. \A q \in p..e : c[q + 0] = b[q]
    <3> SUFFICES ASSUME NEW q \in p..e PROVE c[q + 0] = b[q]
      OBVIOUS
    <3>1. q \in 1..n /\ q + 0 = q
      BY <1>1, <2>1, <2>5
    <3> QED BY <1>2, <3>1
  <2>7. p + 0 \in 1..Len(c) /\ e <= Len(b) /\ e + 0 <= Len(c)
    BY <1>1, <2>1, <2>2, <2>5 DEF n
  <2> QED BY <2>2, <2>3, <2>6, <2>7 DEF Copied, e
<1>10. ASSUME NEW r \in Starts(c) PROVE r \in Starts(b) \/ r = x \/ r = z
  <2>1. r \in 1..Len(c) /\ c[r] # Lf /\ (r = 1 \/ c[r - 1] = Lf)
    BY DEF Starts
  <2>2. CASE r <= n
    <3>1. r \in 1..n /\ (r # 1 => r - 1 \in 1..n)
      BY <1>1, <2>1, <2>2
    <3>2. b[r] # Lf /\ (r = 1 \/ b[r - 1] = Lf)
      BY <1>2, <2>1, <3>1
    <3> QED BY <3>1, <3>2 DEF Starts, n
  <2>3. CASE ~(r <= n)
    <3>1. r # n + 1 /\ r # n + 5 /\ r # n + 10 + g
      BY <1>2, <2>1
    <3>2. r # n + 3 /\ r # n + 4
      <4>1. (n + 3) - 1 = n + 2 /\ (n + 4) - 1 = n + 3 /\ n + 3 # 1 /\ n + 4 # 1
        BY <1>1
      <4>2. c[(n + 3) - 1] # Lf /\ c[(n + 4) - 1] # Lf
        BY <1>2, <1>4, <4>1
      <4> QED BY <2>1, <4>1, <4>2
    <3>3. ~(r - 1 \in (n + 6)..(n + 9 + g))
      <4>1. r # 1 \/ ~(r - 1 \in (n + 6)..(n + 9 + g))
        BY <1>1
      <4> QED BY <1>2, <2>1, <4>1
    <3> QED BY <1>1, <2>1, <2>3, <3>1, <3>2, <3>3
  <2> QED BY <2>2, <2>3
<1> QED BY <1>5, <1>6, <1>7, <1>8, <1>9, <1>10 DEF n

\* The other settings read as before, and the new one as it was set.
LEMMA AppendedGets ==
  ASSUME NEW b, Ended(b), NEW s, Word(s), NEW k, Word(k), NEW v, Input(v),
         NEW c, Appended(b, c, s, k, v), \A p : ~Opens(b, s, p)
  PROVE  /\ Get(Lines(c), s, k) = SetTo(v)
         /\ \A t, h : t # s \/ h # k => Get(Lines(c), t, h) = Get(Lines(b), t, h)
<1> DEFINE x == Len(b) + 2
           z == Len(b) + 6
           phi == [p \in Starts(b) |-> p]
<1>1. /\ Ended(c) /\ x \in Starts(c) /\ z \in Starts(c)
      /\ Line(c, x).kind = "section" /\ SectionName(Line(c, x)) = <<s>>
      /\ Line(c, z).kind = "value" /\ KeyOf(Line(c, z)) = <<k>> /\ ValueOf(Line(c, z)) = v
      /\ \A p \in Starts(b) : p \in Starts(c) /\ Copied(b, p, c, 0) /\ p < x
      /\ \A r \in Starts(c) : r \in Starts(b) \/ r = x \/ r = z
  BY AppendedLines
<1>2. x \in Int /\ z \in Int /\ x < z
  BY DEF Ended
<1> HIDE DEF x, z
<1>3. ASSUME NEW p \in Starts(b)
      PROVE  /\ p \in Int /\ p \in Starts(c) /\ p < x /\ phi[p] = p
             /\ Line(c, p).content = Line(b, p).content
             /\ IsSection(b, p) <=> IsSection(c, p)
             /\ \A t : Opens(b, t, p) <=> Opens(c, t, p)
             /\ \A t : Gives(b, t, p) <=> Gives(c, t, p)
  <2>1. p \in Starts(c) /\ Copied(b, p, c, 0) /\ p < x /\ phi[p] = p
    BY <1>1
  <2>2. b \in Seq(Token) /\ c \in Seq(Token) /\ p \in 1..Len(b) /\ p \in Int /\ p + 0 = p
    BY <1>1 DEF Ended, Starts
  <2>3. Line(c, p + 0).content = Line(b, p).content /\ Line(c, p + 0).kind = Line(b, p).kind
    BY <2>1, <2>2, LineMoved
  <2>4. Line(c, p).content = Line(b, p).content /\ Line(c, p).kind = Line(b, p).kind
    BY <2>2, <2>3
  <2>5. KeyOf(Line(c, p)) = KeyOf(Line(b, p)) /\ SectionName(Line(c, p)) = SectionName(Line(b, p))
    BY <2>4 DEF KeyOf, SectionName
  <2>6. IsSection(b, p) <=> IsSection(c, p)
    BY <2>1, <2>4 DEF IsSection
  <2>7. /\ \A t : Opens(b, t, p) <=> Opens(c, t, p)
        /\ \A t : Gives(b, t, p) <=> Gives(c, t, p)
    BY <2>1, <2>4, <2>5, <2>6 DEF Opens, Gives
  <2> QED BY <2>1, <2>2, <2>4, <2>6, <2>7
<1> HIDE DEF phi
<1>4. /\ IsSection(c, x) /\ Opens(c, s, x) /\ ~IsSection(c, z) /\ Gives(c, k, z)
      /\ \A h : ~Gives(c, h, x)
      /\ \A h : Gives(c, h, z) => h = k
      /\ \A t : Opens(c, t, x) => t = s
  <2>1. /\ IsSection(c, x) /\ Opens(c, s, x) /\ ~IsSection(c, z) /\ Gives(c, k, z)
        /\ \A h : ~Gives(c, h, x)
    BY <1>1 DEF IsSection, Opens, Gives
  <2>2. ASSUME NEW h, Gives(c, h, z) PROVE h = k
    <3>1. <<h>> = <<k>>
      BY <1>1, <2>2 DEF Gives
    <3> QED BY <3>1, Single
  <2>3. ASSUME NEW t, Opens(c, t, x) PROVE t = s
    <3>1. <<t>> = <<s>>
      BY <1>1, <2>3 DEF Opens
    <3> QED BY <3>1, Single
  <2> QED BY <2>1, <2>2, <2>3
<1>5. SectionStart(c, s, x) /\ Among(c, x, z)
  <2>1. ASSUME NEW p, Opens(c, s, p) PROVE x <= p
    <3>1. p \in Starts(c) /\ IsSection(c, p)
      BY <2>1 DEF Opens, IsSection
    <3>2. p \in Starts(b) => FALSE
      BY <1>3, <2>1
    <3> QED BY <1>1, <1>2, <1>4, <3>1, <3>2
  <2>2. ASSUME NEW p \in (x + 1)..z, IsSection(c, p) PROVE FALSE
    <3>1. p \in Starts(c) /\ p # z /\ p # x /\ ~(p < x)
      BY <1>2, <1>4, <2>2 DEF IsSection
    <3> QED BY <1>1, <3>1
  <2> QED BY <1>2, <1>4, <2>1, <2>2 DEF SectionStart, Among
<1>6. \A t, a : SectionStart(c, t, a) /\ Among(c, a, z) => t = s
  <2> SUFFICES ASSUME NEW t, NEW a, SectionStart(c, t, a), Among(c, a, z) PROVE t = s
    OBVIOUS
  <2>1. Opens(c, t, a) /\ IsSection(c, a) /\ a \in Starts(c) /\ a \in Int /\ a < z
    BY DEF SectionStart, Opens, IsSection, Among, Starts
  <2>2. ~(x \in (a + 1)..z)
    BY <1>4 DEF Among
  <2>3. ~(a < x)
    BY <1>2, <2>1, <2>2
  <2>4. a = x
    BY <1>1, <1>2, <2>1, <2>3
  <2> QED BY <1>4, <2>1, <2>4
<1>7. Get(Lines(c), s, k) = SetTo(v)
  <2>1. ASSUME NEW r, Gives(c, k, r), Among(c, x, r) PROVE z <= r
    <3>1. r \in Starts(c) /\ x < r
      BY <2>1 DEF Gives, Among
    <3>2. r # x /\ ~(r \in Starts(b))
      BY <1>1, <1>2, <3>1, <1>3
    <3> QED BY <1>1, <1>2, <3>1, <3>2
  <2>2. KeyAt(c, s, k, z)
    BY <1>4, <1>5, <2>1 DEF KeyAt
  <2>3. Get(Lines(c), s, k) = Reads(Line(c, z))
    BY <1>1, <2>2, GetIs
  <2> QED BY <1>1, <2>3, ReadsIs
<1>8. ASSUME NEW h, h # k PROVE Get(Lines(c), s, h) = Get(Lines(b), s, h)
  <2>1. \A q : ~KeyAt(b, s, h, q)
    BY DEF KeyAt, SectionStart
  <2>2. ASSUME NEW q, KeyAt(c, s, h, q) PROVE FALSE
    <3>1. PICK a : SectionStart(c, s, a) /\ Among(c, a, q)
      BY <2>2 DEF KeyAt
    <3>2. q \in Starts(c) /\ Gives(c, h, q)
      BY <2>2 DEF KeyAt, Gives
    <3>3. q # x /\ q # z
      BY <1>4, <1>8, <3>2
    <3>4. q \in Starts(b) /\ q \in Int /\ q < x
      BY <1>1, <1>3, <3>2, <3>3
    <3>5. a < q /\ Opens(c, s, a) /\ a \in Starts(c) /\ a \in Int
      BY <3>1 DEF Among, SectionStart, Opens, IsSection, Starts
    <3>6. a \in Starts(b)
      BY <1>1, <1>2, <3>4, <3>5
    <3> QED BY <1>3, <3>5, <3>6
  <2>3. Get(Lines(b), s, h) = <<Default>>
    BY <2>1, GetIs
  <2>4. Get(Lines(c), s, h) = <<Default>>
    BY <1>1, <2>2, GetIs
  <2> QED BY <2>3, <2>4
<1>9. ASSUME NEW t, NEW h, t # s PROVE Get(Lines(c), t, h) = Get(Lines(b), t, h)
  <2>1. ASSUME NEW r \in Starts(c), \A p \in Starts(b) : r # phi[p]
        PROVE  /\ ~Opens(c, t, r)
               /\ IsSection(c, r) => \A p \in Starts(b) : phi[p] < r
               /\ \A e : SectionStart(c, t, e) /\ Among(c, e, r) => ~Gives(c, h, r)
    <3>1. r = x \/ r = z
      BY <1>1, <1>3, <2>1
    <3>2. CASE r = x
      BY <1>3, <1>4, <1>9, <3>2
    <3>3. CASE r = z
      <4>1. ~IsSection(c, r)
        BY <1>4, <3>3
      <4>2. \A e : ~(SectionStart(c, t, e) /\ Among(c, e, r))
        BY <1>6, <1>9, <3>3
      <4> QED BY <4>1, <4>2 DEF Opens
    <3> QED BY <3>1, <3>2, <3>3
  <2>2. Maps(b, c, t, h, phi)
    BY <1>3, <2>1 DEF Maps
  <2>3. \A q \in Starts(b) : KeyAt(b, t, h, q) => Line(c, phi[q]).content = Line(b, q).content
    BY <1>3
  <2> QED BY <1>1, <2>2, <2>3, SameGet
<1> QED BY <1>7, <1>8, <1>9

\* It stays tidy.
LEMMA AppendedTidy ==
  ASSUME NEW b, Tidy(b), NEW s, Word(s), NEW k, Word(k), NEW v, Input(v),
         NEW c, Appended(b, c, s, k, v)
  PROVE  Tidy(c)
<1> DEFINE x == Len(b) + 2
           z == Len(b) + 6
<1>1. Ended(b) /\ b \in Seq(Token)
  BY DEF Tidy, Ended
<1>2. /\ Ended(c) /\ Line(c, x).kind = "section" /\ TidyRemark(c, z)
      /\ \A p \in Starts(b) : p \in Starts(c) /\ Copied(b, p, c, 0)
      /\ \A r \in Starts(c) : r \in Starts(b) \/ r = x \/ r = z
  BY <1>1, AppendedLines
<1> HIDE DEF x, z
<1>3. ASSUME NEW r \in Starts(b), Line(c, r).kind = "value" PROVE TidyRemark(c, r)
  <2>1. c \in Seq(Token) /\ r \in 1..Len(b) /\ r + 0 = r /\ Copied(b, r, c, 0)
    BY <1>2 DEF Ended, Starts
  <2>2. Line(c, r + 0).kind = Line(b, r).kind /\ (TidyRemark(b, r) => TidyRemark(c, r + 0))
    BY <1>1, <2>1, LineMoved
  <2>3. Line(b, r).kind = "value" /\ (TidyRemark(b, r) => TidyRemark(c, r))
    BY <1>3, <2>1, <2>2
  <2> QED BY <2>3 DEF Tidy
<1>4. ASSUME NEW r \in Starts(c), Line(c, r).kind = "value" PROVE TidyRemark(c, r)
  BY <1>2, <1>3, <1>4
<1> QED BY <1>2, <1>4 DEF Tidy, Ended

-----------------------------------------------------------------------------
(* The settings that are kept.                                             *)

\* The text that the file has, or will have when it is closed.
Latest == IF pending = NoText THEN buffer ELSE pending

\* It is tidy, and every setting in it reads as what it was last set to.
IniInv ==
  /\ Tidy(buffer)
  /\ pending = NoText \/ Tidy(pending)
  /\ pending = NoText => disk = buffer
  /\ promised = [x \in Setting |-> Get(Lines(Latest), x[1], x[2])]

\* The names and values of the model are words.
LEMMA WordsAre ==
  /\ \A w \in Sections \union Names : Word(w)
  /\ \A v \in Inputs : Input(v)
<1>1. \A w \in Sections \union Names \union Values : Word(w)
  BY IniFileAssumption DEF Word
<1> QED BY <1>1 DEF Inputs, Input

\* What says that nothing is to be written is not a text that is written.
LEMMA NoTextIsNone ==
  ~Tidy(NoText)
<1>1. NoText # <<>> /\ Last(NoText) = "no text" /\ "no text" # Lf
  BY DEF NoText, Last, Lf
<1> QED BY <1>1 DEF Tidy

\* A setting that is written reads as written, and no other changes.
LEMMA WrittenGets ==
  ASSUME NEW b, Tidy(b), NEW s, NEW k, NEW v, Input(v), NEW c, Written(b, c, s, k, v)
  PROVE  /\ Tidy(c)
         /\ Get(Lines(c), s, k) = SetTo(v)
         /\ \A t, h : t # s \/ h # k => Get(Lines(c), t, h) = Get(Lines(b), t, h)
<1>1. PICK x, y, d, a :
        /\ Spliced(b, c, x, y, d) /\ GivesIn(b, c, x, y, s, k, a)
        /\ ValueOf(Line(c, x)) = v /\ TidyRemark(c, x)
        /\ x <= y => KeyAt(b, s, k, x)
        /\ ~(x <= y) => \A q : ~KeyAt(b, s, k, q)
  BY DEF Written
<1>2. Tidy(c)
  BY <1>1, SplicedTidy
<1>3. Get(Lines(c), s, k) = SetTo(v)
  <2>1. KeyAt(c, s, k, x)
    BY <1>1, SplicedKey
  <2>2. Ended(c)
    BY <1>2 DEF Tidy, Ended
  <2>3. Get(Lines(c), s, k) = Reads(Line(c, x))
    BY <2>1, <2>2, GetIs
  <2> QED BY <1>1, <2>3, ReadsIs
<1>4. ASSUME NEW t, NEW h, t # s \/ h # k PROVE Get(Lines(c), t, h) = Get(Lines(b), t, h)
  BY <1>1, <1>4, SplicedOthers
<1> QED BY <1>2, <1>3, <1>4

\* What is promised when b becomes c.
LEMMA PromiseKept ==
  ASSUME NEW b, NEW c, NEW s \in Sections, NEW k \in Names, NEW v,
         promised = [x \in Setting |-> Get(Lines(b), x[1], x[2])], Promise(s, k, v),
         Get(Lines(c), s, k) = SetTo(v),
         \A t, h : t # s \/ h # k => Get(Lines(c), t, h) = Get(Lines(b), t, h)
  PROVE  promised' = [x \in Setting |-> Get(Lines(c), x[1], x[2])]
<1>1. promised' = [promised EXCEPT ![<<s, k>>] = SetTo(v)]
  BY DEF Promise, SetTo
<1>2. ASSUME NEW x \in Setting
      PROVE  Get(Lines(c), x[1], x[2]) = IF x = <<s, k>> THEN SetTo(v) ELSE Get(Lines(b), x[1], x[2])
  <2>1. PICK t \in Sections, h \in Names : x = <<t, h>>
    BY DEF Setting
  <2>2. x[1] = t /\ x[2] = h
    BY <2>1
  <2>3. CASE x = <<s, k>>
    <3>1. t = s /\ h = k
      BY <2>1, <2>3
    <3> QED BY <2>2, <2>3, <3>1
  <2>4. CASE x # <<s, k>>
    <3>1. t # s \/ h # k
      BY <2>1, <2>4
    <3> QED BY <2>2, <2>4, <3>1
  <2> QED BY <2>3, <2>4
<1>3. promised' = [x \in Setting |-> IF x = <<s, k>> THEN SetTo(v) ELSE Get(Lines(b), x[1], x[2])]
  BY <1>1
<1> QED BY <1>2, <1>3

\* The invariant holds of a file that is tidy (CreateIniObject).
LEMMA IniInvInit == Init => IniInv
<1> SUFFICES ASSUME Init PROVE IniInv
  OBVIOUS
<1>1. Tidy(buffer) /\ disk = buffer /\ pending = NoText
  BY IniFileAssumption DEF Init
<1>2. Latest = disk
  BY <1>1 DEF Latest
<1>3. promised = [x \in Setting |-> Get(Lines(disk), x[1], x[2])]
  BY DEF Init
<1> QED BY <1>1, <1>2, <1>3 DEF IniInv

\* Setting a value, in a section that is there or in a new one, keeps it.
LEMMA IniInvNext == IniInv /\ [Next]_vars => IniInv'
<1> SUFFICES ASSUME IniInv, [Next]_vars PROVE IniInv'
  OBVIOUS
<1>1. ASSUME NEW s \in Sections, NEW k \in Names, NEW v \in Inputs, AppendSection(s, k, v)
      PROVE  IniInv'
  <2>1. Word(s) /\ Word(k) /\ Input(v)
    BY WordsAre
  <2>2. /\ pending = NoText /\ pending' = NoText /\ disk = buffer /\ buffer' = disk'
        /\ Tidy(buffer) /\ SectionAt(Lines(buffer), s) = 0 /\ Promise(s, k, v)
        /\ promised = [x \in Setting |-> Get(Lines(buffer), x[1], x[2])]
    BY <1>1 DEF AppendSection, IniInv, Latest
  <2>3. buffer' = buffer \o <<Lf, Opening, s, Closing, Lf>> \o Entry(k, v) \o <<Lf>>
    BY <1>1, <2>2 DEF AppendSection
  <2>4. Ended(buffer) /\ buffer \in Seq(Token)
    BY <2>2 DEF Tidy, Ended
  <2>5. Appended(buffer, buffer', s, k, v)
    BY <2>1, <2>3, <2>4, AppendedIs
  <2>6. \A p : ~Opens(buffer, s, p)
    BY <2>2, <2>4, SectionAtIs
  <2>7. Tidy(buffer')
    BY <2>1, <2>2, <2>5, AppendedTidy
  <2>8. /\ Get(Lines(buffer'), s, k) = SetTo(v)
        /\ \A t, h : t # s \/ h # k => Get(Lines(buffer'), t, h) = Get(Lines(buffer), t, h)
    BY <2>1, <2>4, <2>5, <2>6, AppendedGets
  <2>9. promised' = [x \in Setting |-> Get(Lines(buffer'), x[1], x[2])]
    BY <2>2, <2>8, PromiseKept
  <2>10. Latest' = buffer'
    BY <2>2 DEF Latest
  <2> QED BY <2>2, <2>7, <2>9, <2>10 DEF IniInv, NoText
<1>2. ASSUME NEW s \in Sections, NEW k \in Names, NEW v \in Inputs, BeginSet(s, k, v)
      PROVE  IniInv'
  <2>1. Word(s) /\ Word(k) /\ Input(v)
    BY WordsAre
  <2>2. /\ pending = NoText /\ buffer' = buffer /\ Tidy(buffer)
        /\ SectionAt(Lines(buffer), s) # 0 /\ Promise(s, k, v)
        /\ pending' = Rewritten(buffer, Lines(buffer), s, k, v)
        /\ promised = [x \in Setting |-> Get(Lines(buffer), x[1], x[2])]
    BY <1>2 DEF BeginSet, IniInv, Latest
  <2>3. Written(buffer, pending', s, k, v)
    BY <2>1, <2>2, RewrittenIs
  <2>4. /\ Tidy(pending')
        /\ Get(Lines(pending'), s, k) = SetTo(v)
        /\ \A t, h : t # s \/ h # k => Get(Lines(pending'), t, h) = Get(Lines(buffer), t, h)
    BY <2>1, <2>2, <2>3, WrittenGets
  <2>5. pending' # NoText
    BY <2>4, NoTextIsNone
  <2>6. promised' = [x \in Setting |-> Get(Lines(pending'), x[1], x[2])]
    BY <2>2, <2>4, PromiseKept
  <2>7. Latest' = pending'
    BY <2>5 DEF Latest, NoText
  <2> QED BY <2>2, <2>4, <2>5, <2>6, <2>7 DEF IniInv, NoText
<1>3. CASE EndSet
  <2>1. /\ pending # NoText /\ disk' = pending /\ buffer' = pending /\ pending' = NoText
        /\ promised' = promised /\ Tidy(pending)
        /\ promised = [x \in Setting |-> Get(Lines(pending), x[1], x[2])]
    BY <1>3 DEF EndSet, IniInv, Latest
  <2>2. Latest' = pending
    BY <2>1 DEF Latest, NoText
  <2> QED BY <2>1, <2>2 DEF IniInv, NoText
<1>4. CASE UNCHANGED vars
  <2>1. UNCHANGED <<disk, buffer, pending, promised>>
    BY <1>4 DEF vars
  <2> QED BY <2>1 DEF IniInv, Latest
<1> QED BY <1>1, <1>2, <1>3, <1>4 DEF Next

\* Whatever is set, and however often, a setting reads as what it was last set to and no
\* other setting reads differently than before.
THEOREM SettingsKept == Spec => []KeepsSettings
<1>1. IniInv => KeepsSettings
  <2> SUFFICES ASSUME IniInv, pending = NoText, NEW x \in Setting
               PROVE  Get(Lines(disk), x[1], x[2]) = promised[x]
    BY DEF KeepsSettings
  <2>1. disk = Latest
    BY DEF IniInv, Latest
  <2> QED BY <2>1 DEF IniInv
<1> QED BY <1>1, IniInvInit, IniInvNext, PTL DEF Spec

\* A text that is read as written keeps being one: every line that gives a value ends in
\* a remark that is tidy, or in none, and the last line is ended.
THEOREM StaysTidy == Spec => [](pending = NoText => Tidy(disk))
<1>1. IniInv => (pending = NoText => Tidy(disk))
  BY DEF IniInv
<1> QED BY <1>1, IniInvInit, IniInvNext, PTL DEF Spec

=============================================================================
