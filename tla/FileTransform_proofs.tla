------------------------- MODULE FileTransform_proofs -------------------------
(***************************************************************************)
(* TLAPS proofs about FileTransform: as long as no read of the payload      *)
(* fails and no failed write is reported as done, no interleaving of any    *)
(* number of requests with any of the other faults and crashes loses the    *)
(* last whole copy of the document.  The last part holds whatever fails, and *)
(* nothing in it depends on what a file holds: a .wall file belongs to one   *)
(* worker until it is renamed, and nobody encrypts a file a second time.     *)
(***************************************************************************)
EXTENDS FileTransform, TLAPS

-----------------------------------------------------------------------------
(* The payload as it is copied buffer by buffer.                           *)

LEMMA UpToType ==
  ASSUME NEW k \in 0..N
  PROVE  UpTo(k) \in Seq(1..N) /\ Len(UpTo(k)) = k
  BY FileAssumption DEF UpTo

LEMMA UpToAppend ==
  ASSUME NEW k \in 0..N, k < N
  PROVE  Append(UpTo(k), Whole[k + 1]) = UpTo(k + 1)
<1>1. Whole[k + 1] = k + 1
  BY FileAssumption DEF Whole, UpTo
<1>2. UpTo(k) \in Seq(1..N) /\ Len(UpTo(k)) = k
  BY UpToType
<1>3. UpTo(k + 1) \in Seq(1..N) /\ Len(UpTo(k + 1)) = k + 1
  <2>1. k + 1 \in 0..N
    BY FileAssumption
  <2> QED
    BY <2>1, UpToType
<1>4. \A i \in 1..(k + 1) : Append(UpTo(k), k + 1)[i] = UpTo(k + 1)[i]
  BY <1>2, FileAssumption DEF UpTo
<1>5. Append(UpTo(k), k + 1) \in Seq(1..N) /\ Len(Append(UpTo(k), k + 1)) = k + 1
  BY <1>2, FileAssumption
<1> QED
  BY <1>1, <1>3, <1>4, <1>5

LEMMA BlankType == Blank \in Content /\ Blank.data = UpTo(0)
  BY FileAssumption DEF Blank, Content, UpTo

LEMMA WholeType == Whole \in Seq(1..N) /\ Len(Whole) = N /\ Whole # <<>>
  BY UpToType, FileAssumption DEF Whole

-----------------------------------------------------------------------------

LEMMA InitInv == Init => IInv
<1> SUFFICES ASSUME Init PROVE IInv
  OBVIOUS
<1> USE FileAssumption
<1>0. PICK f \in Files, depth \in 0..(IF MaxLayers > 0 THEN 1 ELSE 0) :
       /\ names = [n \in Names |-> IF n = Src THEN f ELSE NoFile]
       /\ file = [g \in Files |->
                   IF g = f THEN [head |-> depth, code |-> depth, data |-> Whole]
                            ELSE Blank]
  BY DEF Init
<1>a. [head |-> depth, code |-> depth, data |-> Whole] \in Content
  BY WholeType DEF Content
<1>1. TypeOK
  BY <1>0, <1>a, BlankType DEF Init, TypeOK, PCs, Names
<1>2. HomeIsWhole
  BY <1>0 DEF HomeIsWhole, Complete, IsWhole, Names
<1>3. \A w \in Workers : HandlesOK(w) /\ CopyOK(w)
  BY DEF Init, HandlesOK, CopyOK, Owns
<1>4. DistinctTemps
  BY DEF Init, DistinctTemps, Owns
<1>5. OneNamePerFile
  BY <1>0 DEF OneNamePerFile
<1>6. DoomedAtHome
  BY DEF Init, DoomedAtHome
<1>7. CopyKept
  BY <1>0 DEF Init, CopyKept, Names
<1> QED
  BY <1>1, <1>2, <1>3, <1>4, <1>5, <1>6, <1>7 DEF IInv

-----------------------------------------------------------------------------
(* One lemma per action.                                                   *)

\* A worker whose own variables, handles and files stay put keeps its part of
\* the invariant.
LEMMA Undisturbed ==
  ASSUME NEW v \in Workers, HandlesOK(v), CopyOK(v),
         pc'[v] = pc[v], op'[v] = op[v], src'[v] = src[v], new'[v] = new[v],
         tmp'[v] = tmp[v], pos'[v] = pos[v],
         src[v] \in Files =>
           file'[src[v]] = file[src[v]] /\ names'[Src] = names[Src],
         Owns(v) =>
           file'[new[v]] = file[new[v]] /\ names'[tmp[v]] = names[tmp[v]]
  PROVE  HandlesOK(v)' /\ CopyOK(v)'
<1>1. HandlesOK(v)'
  BY FileAssumption DEF HandlesOK, Owns
<1>2. CopyOK(v)'
  <2>1. CASE Owns(v)
    <3>1. file'[new'[v]] = file[new[v]]
      BY <2>1
    <3>2. pc[v] \in {"sethead", "read", "write", "close"} => file'[src'[v]] = file[src[v]]
      BY DEF HandlesOK
    <3> QED
      BY <2>1, <3>1, <3>2 DEF CopyOK, Owns, Written, HeadOf, CodeOf
  <2>2. CASE pc[v] \in {"head", "create"}
    <3>1. file'[src'[v]] = file[src[v]]
      BY <2>2 DEF HandlesOK
    <3> QED
      BY <2>2, <3>1 DEF CopyOK
  <2>3. CASE ~Owns(v) /\ pc[v] \notin {"head", "create"}
    BY <2>3 DEF CopyOK, Owns
  <2> QED
    BY <2>1, <2>2, <2>3
<1> QED
  BY <1>1, <1>2

LEMMA OpenInv ==
  ASSUME IInv, NEW w \in Workers, NEW o \in {"encrypt", "decrypt"}, Open(w, o)
  PROVE  IInv'
<1> USE FileAssumption DEF IInv, Open, disk, Go
<1>1. TypeOK'
  BY DEF TypeOK, PCs, Names
<1>2. HomeIsWhole'
  BY DEF HomeIsWhole, Complete, IsWhole
<1>3. ASSUME NEW v \in Workers PROVE HandlesOK(v)' /\ CopyOK(v)'
  <2>1. CASE v # w
    BY <2>1, Undisturbed DEF TypeOK
  <2>2. CASE v = w /\ pc'[w] = "idle"
    BY <2>2 DEF TypeOK, HandlesOK, CopyOK, Owns
  <2>3. CASE v = w /\ pc'[w] = "head"
    <3>1. HandlesOK(w) /\ CopyOK(w) /\ pc[w] = "idle"
      OBVIOUS
    <3>2. src'[w] \in Files /\ src'[w] = names[Src] /\ pos'[w] = 0
      BY <2>3, <3>1 DEF TypeOK, Names, CopyOK
    <3> QED
      BY <2>3, <3>1, <3>2 DEF TypeOK, HandlesOK, CopyOK, Owns
  <2> QED
    BY <2>1, <2>2, <2>3 DEF TypeOK
<1>4. DistinctTemps'
  BY DEF DistinctTemps, Owns, TypeOK
<1>5. OneNamePerFile'
  BY DEF OneNamePerFile
<1>6. DoomedAtHome'
  BY DEF DoomedAtHome, Holds, TypeOK, HandlesOK
<1>7. CopyKept'
  BY DEF CopyKept, Kept, Complete, IsWhole, MayRemove, Owns, TypeOK
<1> QED
  BY <1>1, <1>2, <1>3, <1>4, <1>5, <1>6, <1>7


\* A worker that returns before it has a copy, or that gives its copy up, with
\* or without removing the .wall file, keeps the invariant.
LEMMA QuitInv ==
  ASSUME IInv, NEW w \in Workers, NEW st \in {"success", "error"},
         pc[w] \in {"head", "create", "sethead", "write", "delete"},
         NEW dir, dir = Released(w, src[w]),
         \/ names' = dir
         \/ Owns(w) /\ names' = [dir EXCEPT ![tmp[w]] = NoFile],
         doomed' = StillDoomed(w, src[w]), file' = file, Return(w, st)
  PROVE  IInv'
<1> USE FileAssumption DEF Return, Go
<1>0. TypeOK /\ HandlesOK(w)
  BY DEF IInv
<1>1. /\ dir \in [Names -> Files \union {NoFile}]
      /\ \A n \in Temps : dir[n] = names[n]
      /\ dir[Src] \in {names[Src], NoFile}
      /\ \A n \in Names : dir[n] # NoFile => dir[n] = names[n]
      /\ \A v \in Workers \ {w} : src[v] \in Files => dir[Src] = names[Src]
      /\ dir[Src] = NoFile => names[Src] \in doomed \union {NoFile}
      /\ doomed' \subseteq doomed
      /\ names[Src] \in doomed =>
           \/ dir[Src] = NoFile /\ doomed' = {}
           \/ dir[Src] = names[Src] /\ \E v \in Workers \ {w} : Holds(v, names[Src])
  <2>1. CASE src[w] \in Files
    <3>1. names[Src] = src[w] /\ src[w] # NoFile
      BY <2>1 DEF HandlesOK, TypeOK, PCs, IInv
    <3>2. \A n \in Temps : names[n] # src[w]
      BY <3>1 DEF OneNamePerFile, Names, IInv
    <3>3. \A v \in Workers \ {w} : src[v] \in Files => Holds(v, src[w])
      BY <3>1 DEF HandlesOK, TypeOK, PCs, Holds, IInv
    <3>4. doomed \subseteq {src[w]}
      BY <3>1 DEF DoomedAtHome, IInv
    <3> QED
      BY <1>0, <3>1, <3>2, <3>3, <3>4 DEF Released, StillDoomed, TypeOK, Names
  <2>2. CASE src[w] = NoFile
    <3>1. dir = names /\ doomed' = doomed
      BY <1>0, <2>2 DEF Released, StillDoomed, TypeOK
    <3>2. pc[w] = "delete"
      BY <1>0, <2>2 DEF HandlesOK
    <3>3. ~Holds(w, names[Src]) \/ names[Src] = NoFile
      BY <1>0, <2>2, <3>2 DEF Holds, HandlesOK, Owns, IInv, OneNamePerFile, Names
    <3>4. names[Src] \in doomed => \E v \in Workers \ {w} : Holds(v, names[Src])
      BY <1>0, <3>3 DEF IInv, DoomedAtHome, TypeOK
    <3> QED
      BY <1>0, <3>1, <3>4 DEF TypeOK, Names
  <2> QED
    BY <1>0, <2>1, <2>2 DEF TypeOK
<1>2. /\ names' \in [Names -> Files \union {NoFile}]
      /\ names'[Src] = dir[Src]
      /\ \A n \in Temps : names'[n] = names[n] \/ (Owns(w) /\ n = tmp[w] /\ names'[n] = NoFile)
      /\ \A n \in Names : names'[n] # NoFile => names'[n] = names[n]
  BY <1>0, <1>1 DEF HandlesOK, Names
<1>3. TypeOK'
  BY <1>0, <1>1, <1>2 DEF TypeOK, PCs
<1>4. HomeIsWhole'
  BY <1>1, <1>2 DEF HomeIsWhole, Complete, IsWhole, IInv
<1>5. ASSUME NEW v \in Workers PROVE HandlesOK(v)' /\ CopyOK(v)'
  <2>1. CASE v # w
    <3>1. Owns(v) => names'[tmp[v]] = names[tmp[v]]
      BY <1>2, <2>1 DEF IInv, DistinctTemps, HandlesOK
    <3> QED
      BY <1>0, <1>1, <1>2, <2>1, <3>1, Undisturbed DEF IInv, TypeOK
  <2>2. CASE v = w
    BY <1>0, <2>2 DEF TypeOK, HandlesOK, CopyOK, Owns
  <2> QED
    BY <2>1, <2>2
<1>6. DistinctTemps'
  BY <1>0 DEF DistinctTemps, Owns, TypeOK, IInv
<1>7. OneNamePerFile'
  BY <1>2 DEF OneNamePerFile, IInv
<1>8. DoomedAtHome'
  <2> SUFFICES ASSUME NEW f \in doomed'
               PROVE  f = names'[Src] /\ \E v \in Workers : Holds(v, f)'
    BY DEF DoomedAtHome
  <2>1. f = names[Src] /\ f \in doomed
    BY <1>1 DEF IInv, DoomedAtHome
  <2>2. names'[Src] = names[Src] /\ \E v \in Workers \ {w} : Holds(v, names[Src])
    BY <1>1, <1>2, <2>1
  <2> QED
    BY <1>0, <2>1, <2>2 DEF Holds, TypeOK
<1>9. CopyKept'
  <2>1. CASE names[Src] # NoFile /\ names[Src] \notin doomed
    BY <1>1, <1>2, <2>1 DEF CopyKept
  <2>2. ASSUME NEW t \in Temps, Kept(t) PROVE Kept(t)'
    <3>1. names'[t] = names[t]
      BY <1>2, <2>2 DEF Kept, MayRemove, Owns
    <3> QED
      BY <1>0, <2>2, <3>1 DEF Kept, Complete, IsWhole, MayRemove, Owns, TypeOK
  <2> QED
    BY <2>1, <2>2 DEF IInv, CopyKept
<1> QED
  BY <1>3, <1>4, <1>5, <1>6, <1>7, <1>8, <1>9 DEF IInv

LEMMA CheckHeadInv ==
  ASSUME IInv, NEW w \in Workers, CheckHead(w)
  PROVE  IInv'
<1> USE FileAssumption
<1>0. pc[w] = "head" /\ src[w] \in Files /\ names[Src] = src[w] /\ TypeOK
  BY DEF CheckHead, HandlesOK, IInv
<1>1. CASE /\ Go(w, "create")
           /\ UNCHANGED <<disk, op, src, new, tmp, pos, status>>
           /\ op[w] = "decrypt" => file[src[w]].code > 0
  <2> USE <1>0, <1>1 DEF IInv, disk, Go
  <2>1. TypeOK'
    BY DEF TypeOK, PCs, Names
  <2>2. HomeIsWhole'
    BY DEF HomeIsWhole, Complete, IsWhole
  <2>3. ASSUME NEW v \in Workers PROVE HandlesOK(v)' /\ CopyOK(v)'
    <3>1. CASE v # w
      BY <3>1, Undisturbed DEF TypeOK
    <3>2. CASE v = w
      BY <3>2 DEF TypeOK, HandlesOK, CopyOK, Owns
    <3> QED
      BY <3>1, <3>2
  <2>4. DistinctTemps' /\ OneNamePerFile' /\ DoomedAtHome' /\ CopyKept'
    BY DEF DistinctTemps, Owns, TypeOK, OneNamePerFile, DoomedAtHome, Holds,
           CopyKept, Kept, Complete, IsWhole, MayRemove
  <2> QED
    BY <2>1, <2>2, <2>3, <2>4
<1>2. CASE CloseSrc(w) /\ Return(w, "success")
  BY <1>0, <1>2, QuitInv DEF CloseSrc
<1>3. file[src[w]].head = file[src[w]].code /\ file[src[w]].code \in Nat
  BY <1>0 DEF IInv, HomeIsWhole, Complete, IsWhole, TypeOK, Content
<1>4. op[w] \in {"encrypt", "decrypt"}
  BY <1>0 DEF TypeOK
<1> QED
  BY <1>0, <1>1, <1>2, <1>3, <1>4 DEF CheckHead, Flagged

LEMMA CreateTempInv ==
  ASSUME IInv, NEW w \in Workers, CreateTemp(w)
  PROVE  IInv'
<1> USE FileAssumption
<1>0. pc[w] = "create" /\ src[w] \in Files /\ names[Src] = src[w] /\ TypeOK
  BY DEF CreateTemp, HandlesOK, IInv
<1>1. CASE CloseSrc(w) /\ Return(w, "error")
  BY <1>0, <1>1, QuitInv DEF CloseSrc
<1>2. ASSUME NEW t \in Temps, NEW f \in Files,
             names[t] = NoFile,
             Unused(f),
             names' = [names EXCEPT ![t] = f],
             file' = [file EXCEPT ![f] = Blank],
             tmp' = [tmp EXCEPT ![w] = t],
             new' = [new EXCEPT ![w] = f],
             Go(w, IF op[w] = "encrypt" THEN "sethead" ELSE "read"),
             UNCHANGED <<doomed, op, src, pos, status>>
      PROVE  IInv'
  <2> USE <1>0, <1>2 DEF IInv, Go
  <2>0. /\ pc'[w] = IF op[w] = "encrypt" THEN "sethead" ELSE "read"
        /\ \A v \in Workers \ {w} : pc'[v] = pc[v]
    BY DEF TypeOK
  <2>a. \A n \in Names : names[n] # f /\ f # NoFile
    BY DEF Unused
  <2>1. TypeOK'
    BY BlankType DEF TypeOK, PCs, Names
  <2>2. HomeIsWhole'
    BY <2>a DEF HomeIsWhole, Complete, IsWhole, Names, TypeOK
  <2>b. \A v \in Workers : Owns(v) => tmp[v] # t
    BY DEF HandlesOK, TypeOK
  <2>3. ASSUME NEW v \in Workers PROVE HandlesOK(v)' /\ CopyOK(v)'
    <3>1. CASE v # w
      <4>1. src[v] \in Files => file'[src[v]] = file[src[v]] /\ names'[Src] = names[Src]
        BY <2>a, <3>1 DEF HandlesOK, TypeOK, PCs, Names
      <4>2. Owns(v) => file'[new[v]] = file[new[v]] /\ names'[tmp[v]] = names[tmp[v]]
        BY <2>a, <2>b, <3>1 DEF HandlesOK, TypeOK, Names
      <4> QED
        BY <2>0, <3>1, <4>1, <4>2, Undisturbed DEF TypeOK
    <3>2. CASE v = w
      <4>1. names'[Src] = src[w] /\ file'[src[w]] = file[src[w]] /\ file'[f] = Blank
        BY <2>a DEF TypeOK, Names
      <4>2. names'[t] = f /\ new'[w] = f /\ tmp'[w] = t /\ pos'[w] = 0
        BY DEF TypeOK, Names, CopyOK
      <4>3. HandlesOK(w)'
        BY <2>0, <4>1, <4>2 DEF TypeOK, HandlesOK, Owns
      <4>4. CopyOK(w)'
        BY <2>0, <4>1, <4>2, BlankType DEF TypeOK, CopyOK, Owns, Written
      <4> QED
        BY <3>2, <4>3, <4>4
    <3> QED
      BY <3>1, <3>2
  <2>4. DistinctTemps'
    BY <2>0, <2>b DEF DistinctTemps, Owns, TypeOK
  <2>5. OneNamePerFile'
    BY <2>a DEF OneNamePerFile, TypeOK, Names
  <2>6. DoomedAtHome'
    BY <2>a DEF DoomedAtHome, Holds, TypeOK, Names, HandlesOK
  <2>7. CopyKept'
    <3>1. CASE names[Src] # NoFile /\ names[Src] \notin doomed
      BY <3>1 DEF CopyKept, TypeOK, Names
    <3>2. ASSUME NEW u \in Temps, Kept(u) PROVE Kept(u)'
      <4>1. names'[u] = names[u] /\ file'[names[u]] = file[names[u]] /\ u # t
        BY <2>a, <3>2 DEF Kept, TypeOK, Names
      <4> QED
        BY <2>0, <3>2, <4>1 DEF Kept, Complete, IsWhole, MayRemove, Owns, TypeOK
    <3> QED
      BY <3>1, <3>2 DEF CopyKept
  <2> QED
    BY <2>1, <2>2, <2>3, <2>4, <2>5, <2>6, <2>7
<1> QED
  BY <1>1, <1>2 DEF CreateTemp

\* A worker that writes to its own .wall file disturbs nothing else.
LEMMA WriteOwn ==
  ASSUME IInv, NEW w \in Workers, pc[w] \in {"sethead", "write"},
         NEW c \in Content, file' = [file EXCEPT ![new[w]] = c],
         Go(w, "read"), UNCHANGED <<names, doomed, op, src, new, tmp, pos, status>>,
         c.data = UpTo(pos[w]),
         op[w] = "encrypt" => c.head = file[src[w]].head + 1,
         pos[w] > 0 => /\ c.code = CodeOf(w)
                       /\ c.head = IF op[w] = "encrypt" THEN c.head ELSE HeadOf(w)
  PROVE  IInv'
<1> USE FileAssumption DEF IInv, Go
<1>0. /\ TypeOK /\ src[w] \in Files /\ names[Src] = src[w]
      /\ tmp[w] \in Temps /\ new[w] \in Files /\ names[tmp[w]] = new[w]
      /\ src[w] # new[w] /\ Owns(w)
  BY DEF HandlesOK, Owns, OneNamePerFile, Names, TypeOK
<1>a. \A n \in Names : names[n] = new[w] => n = tmp[w]
  BY <1>0 DEF OneNamePerFile, Names
<1>b. pc'[w] = "read" /\ \A v \in Workers \ {w} : pc'[v] = pc[v]
  BY <1>0 DEF TypeOK
<1>1. TypeOK'
  BY <1>0 DEF TypeOK, PCs
<1>2. HomeIsWhole'
  BY <1>0, <1>a DEF HomeIsWhole, Complete, IsWhole, TypeOK, Names
<1>3. ASSUME NEW v \in Workers PROVE HandlesOK(v)' /\ CopyOK(v)'
  <2>1. CASE v # w
    <3>1. src[v] \in Files => file'[src[v]] = file[src[v]]
      BY <1>0, <1>a, <2>1 DEF HandlesOK, TypeOK, PCs, Names
    <3>2. Owns(v) => new[v] # new[w]
      BY <1>0, <1>a, <2>1 DEF HandlesOK, DistinctTemps, Names
    <3> QED
      BY <1>0, <1>b, <2>1, <3>1, <3>2, Undisturbed DEF TypeOK
  <2>2. CASE v = w
    <3>1. file'[src[w]] = file[src[w]] /\ file'[new[w]] = c
      BY <1>0 DEF TypeOK
    <3>2. HandlesOK(w)'
      BY <1>0, <1>b DEF HandlesOK, Owns
    <3>3. CopyOK(w)'
      BY <1>0, <1>b, <3>1 DEF CopyOK, Written, HeadOf, CodeOf, Owns
    <3> QED
      BY <2>2, <3>2, <3>3
  <2> QED
    BY <2>1, <2>2
<1>4. DistinctTemps' /\ OneNamePerFile' /\ DoomedAtHome'
  BY <1>0, <1>b DEF DistinctTemps, Owns, TypeOK, OneNamePerFile, DoomedAtHome, Holds
<1>5. CopyKept'
  <2>1. ASSUME NEW t \in Temps, Kept(t) PROVE Kept(t)'
    <3>1. t # tmp[w]
      BY <2>1 DEF Kept, MayRemove, Owns
    <3>2. file'[names[t]] = file[names[t]]
      BY <1>0, <1>a, <2>1, <3>1 DEF Kept, TypeOK, Names
    <3> QED
      BY <1>0, <1>b, <2>1, <3>2 DEF Kept, Complete, IsWhole, MayRemove, Owns
  <2> QED
    BY <2>1 DEF CopyKept
<1> QED
  BY <1>1, <1>2, <1>3, <1>4, <1>5


LEMMA SetHeadInv ==
  ASSUME ReliableTransfer, IInv, NEW w \in Workers, SetHead(w)
  PROVE  IInv'
<1> USE FileAssumption
<1>0. /\ pc[w] = "sethead" /\ TypeOK /\ src[w] \in Files /\ names[Src] = src[w]
      /\ new[w] \in Files /\ op[w] = "encrypt" /\ pos[w] = 0
      /\ file[new[w]] = Blank /\ file[src[w]].code < MaxLayers
  BY DEF SetHead, IInv, HandlesOK, CopyOK, Owns
<1>1. file[src[w]].head = file[src[w]].code /\ file[src[w]] \in Content
  BY <1>0 DEF IInv, HomeIsWhole, Complete, IsWhole, TypeOK
<1>2. CASE /\ file' = [file EXCEPT ![new[w]].head = file[src[w]].head + 1]
           /\ Go(w, "read")
           /\ UNCHANGED <<names, doomed, op, src, new, tmp, pos, status>>
  <2> DEFINE c == [head |-> file[src[w]].head + 1, code |-> 0, data |-> <<>>]
  <2>1. c \in Content
    BY <1>0, <1>1 DEF Content
  <2>2. file' = [file EXCEPT ![new[w]] = c]
    <3>1. [file[new[w]] EXCEPT !.head = file[src[w]].head + 1] = c
      BY <1>0 DEF Blank
    <3> QED
      BY <1>0, <1>2, <3>1 DEF TypeOK
  <2>3. c.data = UpTo(pos[w]) /\ c.head = file[src[w]].head + 1
    BY <1>0, BlankType DEF Blank
  <2> HIDE DEF c
  <2>4. ~(pos[w] > 0)
    BY <1>0
  <2> QED
    BY <1>0, <1>2, <2>1, <2>2, <2>3, <2>4, WriteOwn
<1>3. CASE GiveUp(w, TRUE)
  BY <1>0, <1>3, QuitInv DEF GiveUp, Owns
<1> QED
  BY <1>2, <1>3 DEF SetHead, ReliableTransfer

LEMMA ReadChunkInv ==
  ASSUME ReliableTransfer, IInv, NEW w \in Workers, ReadChunk(w)
  PROVE  IInv'
<1> USE FileAssumption DEF IInv, disk, Go
<1>0. /\ pc[w] = "read" /\ TypeOK /\ src[w] \in Files /\ Owns(w)
      /\ Len(file[src[w]].data) = N /\ pos[w] \in 0..N
  BY WholeType
     DEF ReadChunk, HandlesOK, Owns, HomeIsWhole, Complete, IsWhole, TypeOK
<1>a. "read" \notin Faults
  BY DEF ReliableTransfer
<1>1. /\ \/ pc'[w] = "write" /\ pos[w] < N /\ pos'[w] = pos[w] + 1
         \/ pc'[w] = "close" /\ pos[w] = N /\ pos'[w] = pos[w]
      /\ pos' \in [Workers -> 0..N] /\ pc' \in [Workers -> PCs]
      /\ status' \in [Workers -> {"none", "success", "error"}]
      /\ \A v \in Workers \ {w} : pc'[v] = pc[v] /\ pos'[v] = pos[v]
      /\ UNCHANGED <<names, file, doomed, op, src, new, tmp>>
  <2>1. CASE /\ pos[w] < N
             /\ pos' = [pos EXCEPT ![w] = @ + 1]
             /\ pc' = [pc EXCEPT ![w] = "write"]
             /\ UNCHANGED status
    BY <1>0, <2>1 DEF ReadChunk, TypeOK, PCs
  <2>2. CASE /\ pos[w] = N
             /\ status' = [status EXCEPT ![w] = "success"]
             /\ pc' = [pc EXCEPT ![w] = "close"]
             /\ UNCHANGED pos
    BY <1>0, <2>2 DEF ReadChunk, TypeOK, PCs
  <2> QED
    BY <1>0, <1>a, <2>1, <2>2 DEF ReadChunk
<1>2. TypeOK'
  BY <1>1 DEF TypeOK, PCs
<1>3. ASSUME NEW v \in Workers PROVE HandlesOK(v)' /\ CopyOK(v)'
  <2>1. CASE v # w
    BY <1>1, <2>1, Undisturbed
  <2>2. CASE v = w
    <3>1. HandlesOK(w)'
      BY <1>0, <1>1 DEF HandlesOK, Owns
    <3>2. CopyOK(w)'
      BY <1>0, <1>1 DEF CopyOK, Written, HeadOf, CodeOf
    <3> QED
      BY <2>2, <3>1, <3>2
  <2> QED
    BY <2>1, <2>2
<1>4. HomeIsWhole' /\ DistinctTemps' /\ OneNamePerFile' /\ DoomedAtHome'
  BY <1>0, <1>1 DEF HomeIsWhole, Complete, IsWhole, DistinctTemps, Owns,
     OneNamePerFile, DoomedAtHome, Holds
<1>5. CopyKept'
  BY <1>0, <1>1 DEF CopyKept, Kept, Complete, IsWhole, MayRemove, Owns
<1> QED
  BY <1>2, <1>3, <1>4, <1>5

LEMMA WriteChunkInv ==
  ASSUME ReliableTransfer, IInv, NEW w \in Workers, WriteChunk(w)
  PROVE  IInv'
<1> USE FileAssumption
<1>0. /\ pc[w] = "write" /\ TypeOK /\ src[w] \in Files /\ names[Src] = src[w]
      /\ new[w] \in Files /\ pos[w] \in 1..N /\ Owns(w)
      /\ file[new[w]].data = UpTo(pos[w] - 1)
      /\ op[w] = "encrypt" => file[new[w]].head = file[src[w]].head + 1
      /\ IF op[w] = "encrypt" THEN file[src[w]].code < MaxLayers
                              ELSE file[src[w]].code > 0
  BY DEF WriteChunk, IInv, HandlesOK, CopyOK, Owns, Written, TypeOK
<1>1. /\ file[src[w]].head = file[src[w]].code /\ file[src[w]] \in Content
      /\ file[src[w]].data = Whole
  BY <1>0 DEF IInv, HomeIsWhole, Complete, IsWhole, TypeOK
<1>2. CASE /\ file' = [file EXCEPT ![new[w]] =
                [head |-> HeadOf(w), code |-> CodeOf(w),
                 data |-> Append(@.data, file[src[w]].data[pos[w]])]]
           /\ Go(w, "read")
           /\ UNCHANGED <<names, doomed, op, src, new, tmp, pos, status>>
  <2> DEFINE d == Append(file[new[w]].data, file[src[w]].data[pos[w]])
             c == [head |-> HeadOf(w), code |-> CodeOf(w), data |-> d]
  <2>1. d = UpTo(pos[w])
    <3>1. pos[w] - 1 \in 0..N /\ pos[w] - 1 < N /\ (pos[w] - 1) + 1 = pos[w]
      BY <1>0
    <3> QED
      BY <1>0, <1>1, <3>1, UpToAppend
  <2>2. HeadOf(w) \in 0..MaxLayers /\ CodeOf(w) \in 0..MaxLayers
    BY <1>0, <1>1 DEF HeadOf, CodeOf, Content
  <2>3. c \in Content
    <3>1. pos[w] \in 0..N
      BY <1>0
    <3> QED
      BY <2>1, <2>2, <3>1, UpToType DEF Content
  <2>4. file' = [file EXCEPT ![new[w]] = c]
    BY <1>0, <1>2 DEF TypeOK
  <2>5. op[w] = "encrypt" => c.head = file[src[w]].head + 1
    BY <1>0 DEF HeadOf
  <2> HIDE DEF c
  <2>6. c.data = UpTo(pos[w]) /\ c.code = CodeOf(w) /\ c.head = HeadOf(w)
    BY <2>1 DEF c
  <2> QED
    BY <1>0, <1>2, <2>3, <2>4, <2>5, <2>6, WriteOwn
<1>3. ASSUME NEW del \in BOOLEAN, GiveUp(w, del) PROVE IInv'
  BY <1>0, <1>3, QuitInv DEF GiveUp
<1> QED
  BY <1>2, <1>3 DEF WriteChunk, ReliableTransfer


LEMMA CloseSourceInv ==
  ASSUME IInv, NEW w \in Workers, CloseSource(w)
  PROVE  IInv'
<1> USE FileAssumption
<1>0. /\ pc[w] = "close" /\ TypeOK /\ src[w] \in Files /\ names[Src] = src[w]
      /\ new[w] \in Files /\ tmp[w] \in Temps /\ names[tmp[w]] = new[w]
      /\ pos[w] = N /\ Owns(w) /\ Complete(src[w])
  BY DEF CloseSource, IInv, HandlesOK, CopyOK, Owns, HomeIsWhole
<1>1. IsWhole(file[new[w]])
  <2>1. Written(w) = N /\ N > 0
    BY <1>0 DEF Written
  <2>2. /\ file[new[w]].data = UpTo(N) /\ file[new[w]].head = HeadOf(w)
        /\ file[new[w]].code = CodeOf(w)
        /\ op[w] = "encrypt" => file[new[w]].head = file[src[w]].head + 1
    BY <1>0, <2>1 DEF IInv, CopyOK
  <2>3. file[src[w]].head = file[src[w]].code
    BY <1>0 DEF Complete, IsWhole
  <2> QED
    BY <2>2, <2>3 DEF IsWhole, Whole, HeadOf, CodeOf
<1>2. /\ names' \in [Names -> Files \union {NoFile}]
      /\ \A n \in Temps : names'[n] = names[n]
      /\ \A n \in Names : names'[n] # NoFile => names'[n] = names[n]
      /\ \A v \in Workers \ {w} : src[v] \in Files => names'[Src] = names[Src]
      /\ names'[Src] = names[Src] \/ names[Src] \in doomed
      /\ doomed' \subseteq doomed
      /\ names[Src] \in doomed =>
           \/ doomed' = {}
           \/ names'[Src] = names[Src] /\ \E v \in Workers \ {w} : Holds(v, names[Src])
  <2>1. \A n \in Temps : names[n] # src[w]
    BY <1>0 DEF OneNamePerFile, Names, IInv, TypeOK
  <2>2. \A v \in Workers \ {w} : src[v] \in Files => Holds(v, src[w])
    BY <1>0 DEF HandlesOK, TypeOK, PCs, Holds, IInv
  <2>3. doomed \subseteq {src[w]}
    BY <1>0 DEF DoomedAtHome, IInv
  <2> QED
    BY <1>0, <2>1, <2>2, <2>3
       DEF CloseSource, CloseSrc, Released, StillDoomed, TypeOK, Names
<1>3. /\ pc' = [pc EXCEPT ![w] = "delete"]
      /\ src' = [src EXCEPT ![w] = NoFile]
      /\ UNCHANGED <<file, op, new, tmp, pos, status>>
  BY DEF CloseSource, CloseSrc, Go
<1>4. TypeOK'
  BY <1>0, <1>2, <1>3 DEF TypeOK, PCs
<1>5. HomeIsWhole'
  BY <1>2, <1>3 DEF HomeIsWhole, Complete, IsWhole, IInv, Names
<1>6. ASSUME NEW v \in Workers PROVE HandlesOK(v)' /\ CopyOK(v)'
  <2>1. CASE v # w
    BY <1>0, <1>2, <1>3, <2>1, Undisturbed DEF TypeOK, IInv, HandlesOK
  <2>2. CASE v = w
    <3>1. HandlesOK(w)'
      BY <1>0, <1>2, <1>3 DEF HandlesOK, Owns, TypeOK
    <3>2. CopyOK(w)'
      BY <1>0, <1>1, <1>3 DEF CopyOK, IsWhole, TypeOK
    <3> QED
      BY <2>2, <3>1, <3>2
  <2> QED
    BY <2>1, <2>2
<1>7. DistinctTemps' /\ OneNamePerFile'
  BY <1>0, <1>2, <1>3 DEF DistinctTemps, Owns, OneNamePerFile, TypeOK, IInv
<1>8. DoomedAtHome'
  BY <1>0, <1>2, <1>3 DEF DoomedAtHome, Holds, TypeOK, IInv
<1>9. CopyKept'
  <2>1. CASE names[Src] # NoFile /\ names[Src] \notin doomed
    BY <1>2, <2>1 DEF CopyKept
  <2>2. ASSUME NEW t \in Temps, Kept(t) PROVE Kept(t)'
    BY <1>0, <1>2, <1>3, <2>2 DEF Kept, Complete, IsWhole, MayRemove, Owns, TypeOK
  <2> QED
    BY <2>1, <2>2 DEF IInv, CopyKept
<1> QED
  BY <1>4, <1>5, <1>6, <1>7, <1>8, <1>9 DEF IInv

LEMMA DeleteSourceInv ==
  ASSUME IInv, NEW w \in Workers, DeleteSource(w)
  PROVE  IInv'
<1> USE FileAssumption
<1>0. /\ pc[w] = "delete" /\ TypeOK /\ src[w] = NoFile /\ Owns(w)
      /\ new[w] \in Files /\ tmp[w] \in Temps /\ names[tmp[w]] = new[w]
      /\ IsWhole(file[new[w]])
  BY DEF DeleteSource, IInv, HandlesOK, CopyOK, Owns
<1>1. CASE GiveUp(w, TRUE)
  BY <1>0, <1>1, QuitInv DEF GiveUp
<1>2. CASE /\ names[Src] # NoFile
           /\ names[Src] \notin doomed
           /\ IF \E v \in Workers : Holds(v, names[Src])
                THEN doomed' = doomed \union {names[Src]} /\ UNCHANGED names
                ELSE names' = [names EXCEPT ![Src] = NoFile] /\ UNCHANGED doomed
           /\ status' = [status EXCEPT ![w] = "success"]
           /\ Go(w, "rename")
           /\ UNCHANGED <<file, op, src, new, tmp, pos>>
  <2>1. /\ names' \in [Names -> Files \union {NoFile}]
        /\ \A n \in Temps : names'[n] = names[n]
        /\ \A n \in Names : names'[n] # NoFile => names'[n] = names[n]
        /\ \A v \in Workers : src[v] \in Files => names'[Src] = names[Src]
        /\ \A f \in doomed' : f = names'[Src] /\ \E v \in Workers : Holds(v, f)
        /\ doomed' \subseteq Files
    <3>1. \A v \in Workers : src[v] \in Files => Holds(v, names[Src])
      BY <1>0 DEF HandlesOK, TypeOK, PCs, Holds, IInv
    <3>2. doomed = {}
      BY <1>2 DEF IInv, DoomedAtHome
    <3> QED
      BY <1>0, <1>2, <3>1, <3>2 DEF TypeOK, Names
  <2>2. /\ pc' = [pc EXCEPT ![w] = "rename"]
        /\ UNCHANGED <<file, op, src, new, tmp, pos>>
        /\ status' = [status EXCEPT ![w] = "success"]
    BY <1>2 DEF Go
  <2>3. TypeOK'
    BY <1>0, <2>1, <2>2 DEF TypeOK, PCs
  <2>4. HomeIsWhole'
    BY <2>1, <2>2 DEF HomeIsWhole, Complete, IsWhole, IInv, Names
  <2>5. ASSUME NEW v \in Workers PROVE HandlesOK(v)' /\ CopyOK(v)'
    <3>1. CASE v # w
      BY <1>0, <2>1, <2>2, <3>1, Undisturbed DEF TypeOK, IInv, HandlesOK
    <3>2. CASE v = w
      <4>1. HandlesOK(w)'
        BY <1>0, <2>1, <2>2 DEF HandlesOK, Owns, TypeOK
      <4>2. CopyOK(w)'
        BY <1>0, <2>2 DEF CopyOK, IsWhole, TypeOK
      <4> QED
        BY <3>2, <4>1, <4>2
    <3> QED
      BY <3>1, <3>2
  <2>6. DistinctTemps' /\ OneNamePerFile'
    BY <1>0, <2>1, <2>2 DEF DistinctTemps, Owns, OneNamePerFile, TypeOK, IInv
  <2>7. DoomedAtHome'
    BY <2>1, <2>2 DEF DoomedAtHome, Holds
  <2>8. Kept(tmp[w])'
    <3>1. \A v \in Workers \ {w} : MayRemove(v)' => tmp[v] # tmp[w]
      BY <1>0, <2>2 DEF MayRemove, Owns, IInv, DistinctTemps, TypeOK
    <3> QED
      BY <1>0, <2>1, <2>2, <3>1 DEF Kept, Complete, MayRemove, TypeOK, IsWhole
  <2> QED
    BY <1>0, <2>2, <2>3, <2>4, <2>5, <2>6, <2>7, <2>8 DEF IInv, CopyKept
<1> QED
  BY <1>1, <1>2 DEF DeleteSource


LEMMA RenameNewInv ==
  ASSUME IInv, NEW w \in Workers, RenameNew(w)
  PROVE  IInv'
<1> USE FileAssumption
<1>0. /\ pc[w] = "rename" /\ TypeOK /\ src[w] = NoFile /\ Owns(w)
      /\ new[w] \in Files /\ tmp[w] \in Temps /\ names[tmp[w]] = new[w]
      /\ IsWhole(file[new[w]])
  BY DEF RenameNew, IInv, HandlesOK, CopyOK, Owns
<1>1. /\ pc' = [pc EXCEPT ![w] = "closenew"]
      /\ UNCHANGED <<file, doomed, op, src, new, tmp, pos>>
      /\ status' \in [Workers -> {"none", "success", "error"}]
  BY <1>0 DEF RenameNew, Go, TypeOK
<1>2. \/ UNCHANGED names
      \/ names[Src] = NoFile /\ names' = [names EXCEPT ![Src] = new[w], ![tmp[w]] = NoFile]
  BY DEF RenameNew
<1>3. /\ names' \in [Names -> Files \union {NoFile}]
      /\ \A n \in Temps : n # tmp[w] => names'[n] = names[n]
      /\ \A v \in Workers : src[v] \in Files => names'[Src] = names[Src]
      /\ names'[Src] = names[Src] \/ (names[Src] = NoFile /\ names'[Src] = new[w])
  BY <1>0, <1>2 DEF TypeOK, Names, IInv, HandlesOK, PCs
<1>4. TypeOK'
  BY <1>0, <1>1, <1>3 DEF TypeOK, PCs
<1>5. HomeIsWhole'
  BY <1>0, <1>1, <1>3 DEF HomeIsWhole, Complete, IsWhole, IInv
<1>6. ASSUME NEW v \in Workers PROVE HandlesOK(v)' /\ CopyOK(v)'
  <2>1. CASE v # w
    <3>1. Owns(v) => names'[tmp[v]] = names[tmp[v]]
      BY <1>0, <1>3, <2>1 DEF IInv, DistinctTemps, HandlesOK
    <3> QED
      BY <1>0, <1>1, <1>3, <2>1, <3>1, Undisturbed DEF TypeOK, IInv
  <2>2. CASE v = w
    BY <1>0, <1>1, <2>2 DEF HandlesOK, CopyOK, Owns, TypeOK
  <2> QED
    BY <2>1, <2>2
<1>7. DistinctTemps'
  BY <1>0, <1>1 DEF DistinctTemps, Owns, TypeOK, IInv
<1>8. OneNamePerFile'
  BY <1>0, <1>2 DEF OneNamePerFile, IInv, TypeOK, Names
<1>9. DoomedAtHome'
  BY <1>0, <1>1, <1>3 DEF DoomedAtHome, Holds, TypeOK, IInv
<1>10. CopyKept'
  <2>1. CASE names' # names
    <3>1. names[Src] = NoFile /\ names'[Src] = new[w]
      BY <1>0, <1>2, <2>1 DEF TypeOK, Names
    <3>2. doomed = {}
      BY <1>0, <3>1 DEF IInv, DoomedAtHome, TypeOK
    <3> QED
      BY <1>0, <1>1, <3>1, <3>2 DEF CopyKept
  <2>2. CASE names' = names
    BY <1>0, <1>1, <2>2
       DEF IInv, CopyKept, Kept, Complete, IsWhole, MayRemove, Owns, TypeOK
  <2> QED
    BY <2>1, <2>2
<1> QED
  BY <1>4, <1>5, <1>6, <1>7, <1>8, <1>9, <1>10 DEF IInv

LEMMA CloseNewInv ==
  ASSUME IInv, NEW w \in Workers, CloseNew(w)
  PROVE  IInv'
<1> USE FileAssumption
<1>0. pc[w] = "closenew" /\ TypeOK /\ src[w] = NoFile /\ new[w] \in Files
  BY DEF CloseNew, IInv, HandlesOK
<1>1. /\ pc' = [pc EXCEPT ![w] = "idle"]
      /\ src' = [src EXCEPT ![w] = NoFile]
      /\ new' = [new EXCEPT ![w] = NoFile]
      /\ tmp' = [tmp EXCEPT ![w] = NoName]
      /\ pos' = [pos EXCEPT ![w] = 0]
      /\ status' = [status EXCEPT ![w] = status[w]]
      /\ UNCHANGED <<op, file>>
  BY DEF CloseNew, Return, Go
<1>2. /\ names' \in [Names -> Files \union {NoFile}]
      /\ \A n \in Temps : names'[n] = names[n]
      /\ \A n \in Names : names'[n] # NoFile => names'[n] = names[n]
      /\ \A v \in Workers \ {w} : src[v] \in Files => names'[Src] = names[Src]
      /\ names'[Src] = names[Src] \/ names[Src] \in doomed
      /\ doomed' \subseteq doomed
      /\ names[Src] \in doomed =>
           \/ doomed' = {}
           \/ names'[Src] = names[Src] /\ \E v \in Workers \ {w} : Holds(v, names[Src])
  <2>1. CASE new[w] \in doomed
    <3>1. names[Src] = new[w] /\ doomed = {new[w]}
      BY <2>1 DEF IInv, DoomedAtHome
    <3>2. \A n \in Temps : names[n] # new[w]
      BY <1>0, <3>1 DEF OneNamePerFile, Names, IInv, TypeOK
    <3>3. \A v \in Workers \ {w} : src[v] \in Files => Holds(v, new[w])
      BY <3>1 DEF HandlesOK, TypeOK, PCs, Holds, IInv
    <3> QED
      BY <1>0, <3>1, <3>2, <3>3 DEF CloseNew, Released, StillDoomed, TypeOK, Names
  <2>2. CASE new[w] \notin doomed
    <3>1. names' = names /\ doomed' = doomed
      BY <2>2 DEF CloseNew, Released, StillDoomed
    <3>2. \A f \in doomed : f = names[Src] /\ ~Holds(w, f)
      BY <1>0, <2>2 DEF IInv, DoomedAtHome, Holds, TypeOK
    <3>3. names[Src] \in doomed => \E v \in Workers \ {w} : Holds(v, names[Src])
      BY <3>2 DEF IInv, DoomedAtHome
    <3> QED
      BY <1>0, <3>1, <3>3 DEF TypeOK
  <2> QED
    BY <2>1, <2>2
<1>3. TypeOK'
  BY <1>0, <1>1, <1>2 DEF TypeOK, PCs
<1>4. HomeIsWhole'
  BY <1>1, <1>2 DEF HomeIsWhole, Complete, IsWhole, IInv, Names
<1>5. ASSUME NEW v \in Workers PROVE HandlesOK(v)' /\ CopyOK(v)'
  <2>1. CASE v # w
    BY <1>0, <1>1, <1>2, <2>1, Undisturbed DEF TypeOK, IInv, HandlesOK
  <2>2. CASE v = w
    BY <1>0, <1>1, <2>2 DEF TypeOK, HandlesOK, CopyOK, Owns
  <2> QED
    BY <2>1, <2>2
<1>6. DistinctTemps' /\ OneNamePerFile'
  BY <1>0, <1>1, <1>2 DEF DistinctTemps, Owns, OneNamePerFile, TypeOK, IInv
<1>7. DoomedAtHome'
  BY <1>0, <1>1, <1>2 DEF DoomedAtHome, Holds, TypeOK, IInv
<1>8. CopyKept'
  <2>1. CASE names[Src] # NoFile /\ names[Src] \notin doomed
    BY <1>2, <2>1 DEF CopyKept
  <2>2. ASSUME NEW t \in Temps, Kept(t) PROVE Kept(t)'
    BY <1>0, <1>1, <1>2, <2>2 DEF Kept, Complete, IsWhole, MayRemove, Owns, TypeOK
  <2> QED
    BY <2>1, <2>2 DEF IInv, CopyKept
<1> QED
  BY <1>3, <1>4, <1>5, <1>6, <1>7, <1>8 DEF IInv

LEMMA CrashInv == IInv /\ Crash => IInv'
<1> SUFFICES ASSUME IInv, Crash PROVE IInv'
  OBVIOUS
<1> USE FileAssumption DEF IInv, Crash
<1>1. TypeOK'
  BY DEF TypeOK, PCs
<1>2. HomeIsWhole' /\ OneNamePerFile' /\ DoomedAtHome'
  BY DEF HomeIsWhole, Complete, IsWhole, OneNamePerFile, DoomedAtHome
<1>3. ASSUME NEW v \in Workers PROVE HandlesOK(v)' /\ CopyOK(v)'
  BY DEF HandlesOK, CopyOK, Owns
<1>4. DistinctTemps'
  BY DEF DistinctTemps, Owns
<1>5. CopyKept'
  BY DEF CopyKept, Kept, Complete, IsWhole, MayRemove, Owns
<1> QED
  BY <1>1, <1>2, <1>3, <1>4, <1>5

-----------------------------------------------------------------------------

LEMMA StutterInv == IInv /\ UNCHANGED vars => IInv'
  BY DEF IInv, vars, TypeOK, HomeIsWhole, HandlesOK, CopyOK, DistinctTemps,
     OneNamePerFile, DoomedAtHome, CopyKept, Kept, Complete, IsWhole, Owns,
     MayRemove, Holds, Written, HeadOf, CodeOf

\* The invariant of the whole protocol: what each worker has done so far, who
\* owns which .wall file, and where the kept copy is.
THEOREM Invariance ==
  ASSUME ReliableTransfer
  PROVE  Spec => []IInv
<1>1. ASSUME IInv, [Next]_vars PROVE IInv'
  <2>1. ASSUME NEW w \in Workers, NEW o \in {"encrypt", "decrypt"}, Open(w, o)
        PROVE  IInv'
    BY <1>1, <2>1, OpenInv
  <2>2. ASSUME NEW w \in Workers, Work(w)
        PROVE  IInv'
    BY <1>1, <2>2, CheckHeadInv, CreateTempInv, SetHeadInv, ReadChunkInv,
       WriteChunkInv, CloseSourceInv, DeleteSourceInv, RenameNewInv, CloseNewInv
       DEF Work
  <2> QED
    BY <1>1, <2>1, <2>2, CrashInv, StutterInv DEF Next
<1> QED
  BY <1>1, InitInv, PTL DEF Spec

\* A complete copy of the document exists under some name at every moment,
\* for any number of concurrent requests, .wall names and buffers, under
\* every fault but a failed or misreported transfer of payload.
THEOREM PayloadIsSafe ==
  ASSUME ReliableTransfer
  PROVE  Spec => []PayloadSafe
<1>1. IInv => PayloadSafe
  BY DEF IInv, PayloadSafe, HomeIsWhole, CopyKept, Kept, Names
<1> QED
  BY <1>1, Invariance, PTL

\* The path of the document never leads to a file that is half transformed.
THEOREM HomeStaysWhole ==
  ASSUME ReliableTransfer
  PROVE  Spec => []HomeIsWhole
<1>1. IInv => HomeIsWhole
  BY DEF IInv
<1> QED
  BY <1>1, Invariance, PTL

\* Only a worker with a whole copy of its own takes the source off its name.
THEOREM ReplacedOnlyByWhole ==
  ASSUME ReliableTransfer
  PROVE  Spec => ReplacedByWhole
<1>1. ASSUME IInv, NEW w \in Workers, pc[w] = "delete"
      PROVE  Complete(new[w])
  BY <1>1 DEF IInv, CopyOK, Complete
<1>2. IInv => [\A w \in Workers :
                 pc[w] = "delete" /\ pc'[w] = "rename" => Complete(new[w])]_vars
  BY <1>1
<1> QED
  BY <1>2, Invariance, PTL DEF ReplacedByWhole

-----------------------------------------------------------------------------
(* FileTransform implements Document: under the invariant every step of    *)
(* every worker, a crash included, is a step of the abstract document or    *)
(* leaves it alone.                                                         *)


HomeDepth == IF names[Src] # NoFile THEN file[names[Src]].code ELSE None

Copies == {u \in Temps : names[u] # NoFile /\ Complete(names[u])}

WallDepths == {file[names[t]].code : t \in Copies}

\* The steps of the document, said of the two values it is mapped to.
Copied == \E d \in 0..MaxLayers :
  /\ HomeDepth # None
  /\ d = HomeDepth + 1 \/ d + 1 = HomeDepth
  /\ WallDepths' = WallDepths \union {d}
  /\ UNCHANGED HomeDepth

GivenUp == HomeDepth # None /\ WallDepths # {} /\ HomeDepth' = None /\ UNCHANGED WallDepths

Returned == \E d \in 0..MaxLayers :
  /\ HomeDepth = None
  /\ d \in WallDepths
  /\ HomeDepth' = d
  /\ WallDepths' \in {WallDepths, WallDepths \ {d}}

Forgotten == \E d \in 0..MaxLayers :
  /\ d \in WallDepths
  /\ HomeDepth # None \/ WallDepths # {d}
  /\ WallDepths' = WallDepths \ {d}
  /\ UNCHANGED HomeDepth

Alone == UNCHANGED HomeDepth /\ UNCHANGED WallDepths

DocStep == Copied \/ GivenUp \/ Returned \/ Forgotten \/ Alone

LEMMA Mapped == DocStep => [Doc!Next]_(Doc!vars)
<1> USE DEF HomeDepth, WallDepths, Copies, Doc!Depth
<1>1. Copied => Doc!Next
  BY DEF Copied, Doc!Next, Doc!Copy
<1>2. GivenUp => Doc!Next
  BY DEF GivenUp, Doc!Next, Doc!GiveUp
<1>3. Returned => Doc!Next
  BY DEF Returned, Doc!Next, Doc!Return
<1>4. Forgotten => Doc!Next
  BY DEF Forgotten, Doc!Next, Doc!Forget
<1>5. Alone => UNCHANGED Doc!vars
  BY DEF Alone, Doc!vars
<1> QED
  BY <1>1, <1>2, <1>3, <1>4, <1>5 DEF DocStep

-----------------------------------------------------------------------------
(* What a step does to the two values.                                      *)

LEMMA Depths ==
  ASSUME TypeOK
  PROVE  /\ HomeDepth = None <=> names[Src] = NoFile
         /\ names[Src] # NoFile => HomeDepth = file[names[Src]].code
         /\ HomeDepth \in 0..MaxLayers \union {None}
         /\ WallDepths \subseteq 0..MaxLayers
<1> USE FileAssumption
<1>1. None \notin 0..MaxLayers
  BY DEF None
<1>2. \A n \in Names : names[n] # NoFile => file[names[n]].code \in 0..MaxLayers
  BY DEF TypeOK, Content
<1> QED
  BY <1>1, <1>2 DEF HomeDepth, WallDepths, Copies, Names

\* The .wall files that are whole are the same and hold the same.
LEMMA SameWall ==
  ASSUME \A t \in Temps :
           \/ names'[t] = names[t] /\ (t \in Copies => file'[names[t]] = file[names[t]])
                                   /\ (t \notin Copies => t \notin Copies')
           \/ t \notin Copies /\ t \notin Copies'
  PROVE  WallDepths' = WallDepths
<1>1. \A t \in Temps : t \in Copies <=> t \in Copies'
  BY DEF Copies, Complete, IsWhole
<1>2. \A t \in Copies : names'[t] = names[t] /\ file'[names[t]] = file[names[t]]
  BY DEF Copies
<1>3. Copies' = Copies /\ Copies \subseteq Temps
  BY <1>1 DEF Copies
<1> QED
  BY <1>2, <1>3 DEF WallDepths

\* A step that touches neither a name nor a file that has one.
LEMMA Untouched ==
  ASSUME TypeOK, UNCHANGED names, \A n \in Names : names[n] # NoFile =>
           file'[names[n]] = file[names[n]]
  PROVE  DocStep
<1>1. HomeDepth' = HomeDepth
  BY DEF HomeDepth, Names
<1>2. \A t \in Temps : t \in Copies <=> t \in Copies'
  BY DEF Copies, Complete, IsWhole, Names
<1>3. WallDepths' = WallDepths
  BY <1>2, SameWall DEF Copies, Names
<1> QED
  BY <1>1, <1>3 DEF DocStep, Alone

\* Without the document under its name there is a copy in a .wall file.
LEMMA CopyThere ==
  ASSUME IInv', names'[Src] = NoFile
  PROVE  WallDepths' # {}
<1>1. PICK u \in Temps : Kept(u)'
  BY DEF IInv, CopyKept
<1>2. u \in Copies'
  BY <1>1 DEF Kept, Copies
<1> QED
  BY <1>2 DEF WallDepths

\* The document may lose its name as long as the copies stay.
LEMMA HomeLost ==
  ASSUME IInv, IInv', UNCHANGED file, names'[Src] \in {names[Src], NoFile},
         WallDepths' = WallDepths
  PROVE  DocStep
<1>0. TypeOK /\ TypeOK'
  BY DEF IInv
<1>1. CASE names'[Src] = names[Src]
  <2>1. HomeDepth' = HomeDepth
    BY <1>1 DEF HomeDepth
  <2> QED
    BY <2>1 DEF DocStep, Alone
<1>2. CASE names'[Src] = NoFile /\ names[Src] # NoFile
  <2>1. HomeDepth # None /\ HomeDepth' = None
    BY <1>0, <1>2, Depths DEF HomeDepth
  <2>2. names'[Src] = NoFile => WallDepths' # {}
    BY CopyThere
  <2> QED
    BY <1>2, <2>1, <2>2 DEF DocStep, GivenUp
<1> QED
  BY <1>1, <1>2

LEMMA SameNames ==
  ASSUME IInv, IInv', UNCHANGED file, names'[Src] \in {names[Src], NoFile},
         \A n \in Temps : names'[n] = names[n]
  PROVE  DocStep
<1>1. \A u \in Temps : u \in Copies <=> u \in Copies'
  BY DEF Copies, Complete, IsWhole
<1>2. WallDepths' = WallDepths
  BY <1>1, SameWall
<1> QED
  BY <1>2, HomeLost

\* Of the names only that of the document and one .wall name t may be lost, and t
\* only when it was no copy or the document keeps its name.
LEMMA Lost ==
  ASSUME IInv, IInv', UNCHANGED file, NEW t \in Temps,
         names'[Src] \in {names[Src], NoFile},
         names'[t] \in {names[t], NoFile},
         \A n \in Temps \ {t} : names'[n] = names[n],
         names'[t] = names[t] \/ t \notin Copies \/ names'[Src] = names[Src]
  PROVE  DocStep
<1> USE FileAssumption
<1>0. TypeOK /\ TypeOK'
  BY DEF IInv
<1>1. \A u \in Temps \ {t} : u \in Copies <=> u \in Copies'
  BY DEF Copies, Complete, IsWhole
<1>2. names'[Src] = NoFile => WallDepths' # {}
  BY CopyThere
<1>3. CASE names'[t] = names[t] \/ t \notin Copies
  <2>1. ASSUME names'[t] = names[t]
        PROVE  t \in Copies <=> t \in Copies'
    BY <2>1 DEF Copies, Complete, IsWhole
  <2>2. ASSUME names'[t] # names[t]
        PROVE  t \notin Copies /\ t \notin Copies'
    BY <1>3, <2>2 DEF Copies
  <2>3. WallDepths' = WallDepths
    BY <1>1, <2>1, <2>2, SameWall
  <2> QED
    BY <2>3, HomeLost
<1>4. CASE names'[t] = NoFile /\ t \in Copies /\ names'[Src] = names[Src]
  <2> DEFINE d == file[names[t]].code
  <2>1. HomeDepth' = HomeDepth
    BY <1>4 DEF HomeDepth
  <2>2. d \in WallDepths /\ d \in 0..MaxLayers
    BY <1>0, <1>4, Depths DEF WallDepths
  <2>3. WallDepths' \subseteq WallDepths /\ WallDepths \ {d} \subseteq WallDepths'
    <3>1. t \notin Copies'
      BY <1>4 DEF Copies
    <3>2. ASSUME NEW u \in Copies'
          PROVE  u \in Copies /\ file'[names'[u]].code = file[names[u]].code
      BY <1>1, <3>1, <3>2 DEF Copies
    <3>3. ASSUME NEW u \in Copies, u # t
          PROVE  u \in Copies' /\ file'[names'[u]].code = file[names[u]].code
      BY <1>1, <3>3 DEF Copies
    <3> QED
      BY <3>2, <3>3 DEF WallDepths
  <2>4. WallDepths' = WallDepths \/ WallDepths' = WallDepths \ {d}
    BY <2>2, <2>3
  <2>5. HomeDepth # None \/ WallDepths' # {}
    BY <1>0, <1>2, <1>4, Depths
  <2>6. CASE WallDepths' = WallDepths
    BY <2>1, <2>6 DEF DocStep, Alone
  <2>7. CASE WallDepths' = WallDepths \ {d}
    <3>1. HomeDepth # None \/ WallDepths # {d}
      BY <2>5, <2>7
    <3>2. Forgotten
      BY <2>1, <2>2, <2>7, <3>1 DEF Forgotten
    <3> QED
      BY <3>2 DEF DocStep
  <2> QED
    BY <2>4, <2>6, <2>7
<1> QED
  BY <1>3, <1>4

\* A handle that is closed takes no .wall name along.
LEMMA ReleasedNames ==
  ASSUME IInv, NEW w \in Workers, NEW f
  PROVE  /\ Released(w, f)[Src] \in {names[Src], NoFile}
         /\ \A n \in Temps : Released(w, f)[n] = names[n]
         /\ Released(w, f) \in [Names -> Files \union {NoFile}]
<1>1. names \in [Names -> Files \union {NoFile}] /\ doomed \subseteq Files
  BY DEF IInv, TypeOK
<1>2. f \in doomed => \A n \in Temps : names[n] # f
  BY <1>1, FileAssumption DEF IInv, DoomedAtHome, OneNamePerFile, Names
<1> QED
  BY <1>1, <1>2 DEF Released, Names

\* A worker that gives up removes its own copy only while the document keeps its name.
LEMMA GiveUpDoc ==
  ASSUME IInv, IInv', NEW w \in Workers, NEW del \in BOOLEAN, GiveUp(w, del),
         pc[w] \in {"sethead", "write", "delete"}
  PROVE  DocStep
<1> USE FileAssumption
<1>1. PICK removed \in BOOLEAN :
        names' = IF removed THEN [Released(w, src[w]) EXCEPT ![tmp[w]] = NoFile]
                            ELSE Released(w, src[w])
  BY DEF GiveUp
<1>2. TypeOK /\ HandlesOK(w) /\ CopyOK(w)
  BY DEF IInv
<1>3. tmp[w] \in Temps /\ names[tmp[w]] = new[w] /\ new[w] \in Files
  BY <1>2 DEF HandlesOK, Owns
<1>4. /\ names'[Src] \in {names[Src], NoFile}
      /\ names'[tmp[w]] \in {names[tmp[w]], NoFile}
      /\ \A n \in Temps \ {tmp[w]} : names'[n] = names[n]
  BY <1>1, <1>3, ReleasedNames DEF Names
<1>5. CASE pc[w] = "delete"
  <2>1. src[w] = NoFile
    BY <1>2, <1>5 DEF HandlesOK
  <2>2. Released(w, src[w]) = names
    BY <1>2, <2>1 DEF Released, TypeOK
  <2>3. names'[Src] = names[Src]
    BY <1>1, <1>2, <1>3, <2>2 DEF TypeOK, Names
  <2> QED
    BY <1>3, <1>4, <2>3, Lost DEF GiveUp
<1>6. CASE pc[w] \in {"sethead", "write"}
  <2>1. file[new[w]].data = UpTo(Written(w)) /\ Written(w) \in 0..N /\ Written(w) < N
    <3>1. CASE pc[w] = "sethead"
      BY <1>2, <3>1, BlankType DEF CopyOK, Written
    <3>2. CASE pc[w] = "write"
      BY <1>2, <3>2 DEF CopyOK, Written, TypeOK
    <3> QED
      BY <1>6, <3>1, <3>2
  <2>2. Len(file[new[w]].data) # N
    BY <2>1, UpToType
  <2>3. tmp[w] \notin Copies
    BY <1>3, <2>2, WholeType DEF Copies, Complete, IsWhole
  <2> QED
    BY <1>3, <1>4, <2>3, Lost DEF GiveUp
<1> QED
  BY <1>5, <1>6

LEMMA CloseDoc ==
  ASSUME IInv, IInv', NEW w \in Workers, NEW f, names' = Released(w, f), UNCHANGED file
  PROVE  DocStep
<1>1. names'[Src] \in {names[Src], NoFile} /\ \A n \in Temps : names'[n] = names[n]
  BY ReleasedNames
<1> QED
  BY <1>1, SameNames

\* Nothing leads to the file a copy is begun in.
LEMMA CreateTempDoc ==
  ASSUME IInv, IInv', NEW w \in Workers, CreateTemp(w)
  PROVE  DocStep
<1> USE FileAssumption
<1>1. CASE CloseSrc(w)
  BY <1>1, CloseDoc DEF CloseSrc
<1>2. CASE ~CloseSrc(w)
  <2>1. PICK t \in Temps, f \in Files :
          /\ names[t] = NoFile /\ Unused(f)
          /\ names' = [names EXCEPT ![t] = f]
          /\ file' = [file EXCEPT ![f] = Blank]
    BY <1>2 DEF CreateTemp
  <2>2. TypeOK
    BY DEF IInv
  <2>3. /\ names'[t] = f /\ file'[f] = Blank
        /\ \A n \in Names \ {t} : names'[n] = names[n]
        /\ \A n \in Names \ {t} : names[n] # NoFile => file'[names[n]] = file[names[n]]
    BY <2>1, <2>2 DEF TypeOK, Names, Unused
  <2>4. HomeDepth' = HomeDepth
    BY <2>3 DEF HomeDepth, Names
  <2>5. t \notin Copies /\ t \notin Copies'
    BY <2>1, <2>3, WholeType DEF Copies, Complete, IsWhole, Blank
  <2>6. \A u \in Temps \ {t} :
          /\ u \in Copies <=> u \in Copies'
          /\ u \in Copies => file'[names[u]] = file[names[u]]
    BY <2>3 DEF Copies, Complete, IsWhole, Names
  <2>7. WallDepths' = WallDepths
    BY <2>3, <2>5, <2>6, SameWall DEF Names
  <2> QED
    BY <2>4, <2>7 DEF DocStep, Alone
<1> QED
  BY <1>1, <1>2

\* A worker writes c to its copy, which is not whole before.
LEMMA WriteDoc ==
  ASSUME IInv, NEW w \in Workers, pc[w] \in {"sethead", "write"}, NEW c \in Content,
         file' = [file EXCEPT ![new[w]] = c], UNCHANGED names,
         IsWhole(c) => c.code + 1 = file[src[w]].code \/ c.code = file[src[w]].code + 1
  PROVE  DocStep
<1> USE FileAssumption
<1>1. TypeOK /\ HandlesOK(w) /\ CopyOK(w)
  BY DEF IInv
<1>2. /\ tmp[w] \in Temps /\ names[tmp[w]] = new[w] /\ new[w] \in Files
      /\ src[w] \in Files /\ names[Src] = src[w]
  BY <1>1 DEF HandlesOK, Owns
<1>3. \A n \in Names \ {tmp[w]} : names[n] # NoFile => file'[names[n]] = file[names[n]]
  BY <1>1, <1>2 DEF IInv, OneNamePerFile, TypeOK, Names
<1>4. file'[new[w]] = c
  BY <1>1, <1>2 DEF TypeOK
<1>5. HomeDepth' = HomeDepth /\ HomeDepth = file[src[w]].code /\ HomeDepth # None
  <2>1. src[w] # NoFile /\ Src # tmp[w] /\ Src \in Names
    BY <1>2 DEF Names
  <2>2. HomeDepth = file[src[w]].code /\ HomeDepth # None
    BY <1>1, <1>2, <2>1, Depths
  <2>3. file'[src[w]] = file[src[w]]
    BY <1>2, <1>3, <2>1
  <2>4. HomeDepth' = file'[src[w]].code
    BY <1>2, <2>1 DEF HomeDepth
  <2> QED
    BY <2>2, <2>3, <2>4
<1>6. tmp[w] \notin Copies
  <2>1. file[new[w]].data = UpTo(Written(w)) /\ Written(w) \in 0..N /\ Written(w) < N
    <3>1. CASE pc[w] = "sethead"
      BY <1>1, <3>1, BlankType DEF CopyOK, Written
    <3>2. CASE pc[w] = "write"
      BY <1>1, <3>2 DEF CopyOK, Written, TypeOK
    <3> QED
      BY <3>1, <3>2
  <2>2. Len(file[new[w]].data) # N
    BY <2>1, UpToType
  <2> QED
    BY <1>2, <2>2, WholeType DEF Copies, Complete, IsWhole
<1>7. \A u \in Temps \ {tmp[w]} :
        /\ u \in Copies <=> u \in Copies'
        /\ u \in Copies => file'[names[u]] = file[names[u]]
  BY <1>3 DEF Copies, Complete, IsWhole, Names
<1>8. CASE ~IsWhole(c)
  <2>1. tmp[w] \notin Copies'
    BY <1>2, <1>4, <1>8 DEF Copies, Complete, IsWhole
  <2>2. WallDepths' = WallDepths
    BY <1>6, <1>7, <2>1, SameWall
  <2> QED
    BY <1>5, <2>2 DEF DocStep, Alone
<1>9. CASE IsWhole(c)
  <2>1. Copies' = Copies \union {tmp[w]}
    <3>1. tmp[w] \in Copies'
      BY <1>2, <1>4, <1>9 DEF Copies, Complete, IsWhole
    <3>2. Copies \subseteq Temps /\ Copies' \subseteq Temps
      BY DEF Copies
    <3> QED
      BY <1>2, <1>7, <3>1, <3>2
  <2>2. \A u \in Copies : u # tmp[w] /\ u \in Temps
    BY <1>6 DEF Copies
  <2>3. WallDepths' = {file'[names[u]].code : u \in Copies \union {tmp[w]}}
    BY <2>1 DEF WallDepths
  <2>4. {file'[names[u]].code : u \in Copies \union {tmp[w]}} = WallDepths \union {c.code}
    BY <1>2, <1>4, <1>7, <2>2 DEF WallDepths
  <2>5. c.code \in 0..MaxLayers
    BY DEF Content
  <2>6. Copied
    BY <1>5, <1>9, <2>3, <2>4, <2>5 DEF Copied
  <2> QED
    BY <2>6 DEF DocStep
<1> QED
  BY <1>8, <1>9

LEMMA SetHeadDoc ==
  ASSUME ReliableTransfer, IInv, IInv', NEW w \in Workers, SetHead(w)
  PROVE  DocStep
<1> USE FileAssumption
<1>1. CASE GiveUp(w, TRUE)
  BY <1>1, GiveUpDoc DEF SetHead
<1>2. CASE /\ file' = [file EXCEPT ![new[w]].head = file[src[w]].head + 1]
           /\ UNCHANGED names
  <2> DEFINE c == [head |-> file[src[w]].head + 1, code |-> 0, data |-> <<>>]
  <2>1. pc[w] = "sethead" /\ TypeOK /\ HandlesOK(w) /\ CopyOK(w) /\ HomeIsWhole
    BY DEF SetHead, IInv
  <2>2. new[w] \in Files /\ src[w] \in Files /\ names[Src] = src[w]
        /\ file[new[w]] = Blank /\ file[src[w]].code < MaxLayers
    BY <2>1 DEF HandlesOK, CopyOK, Owns
  <2>3. file[src[w]].head = file[src[w]].code /\ file[src[w]] \in Content
    BY <2>1, <2>2 DEF HomeIsWhole, Complete, IsWhole, TypeOK
  <2>4. c \in Content
    BY <2>2, <2>3 DEF Content
  <2>5. file' = [file EXCEPT ![new[w]] = c]
    <3>1. [file[new[w]] EXCEPT !.head = file[src[w]].head + 1] = c
      BY <2>2 DEF Blank
    <3> QED
      BY <1>2, <2>1, <2>2, <3>1 DEF TypeOK
  <2>6. ~IsWhole(c)
    BY WholeType DEF IsWhole
  <2> HIDE DEF c
  <2> QED
    BY <1>2, <2>1, <2>4, <2>5, <2>6, WriteDoc
<1> QED
  BY <1>1, <1>2 DEF SetHead, ReliableTransfer

\* The last buffer makes the copy whole.
LEMMA WriteChunkDoc ==
  ASSUME ReliableTransfer, IInv, IInv', NEW w \in Workers, WriteChunk(w)
  PROVE  DocStep
<1> USE FileAssumption
<1>1. ASSUME NEW del \in BOOLEAN, GiveUp(w, del)
      PROVE  DocStep
  BY <1>1, GiveUpDoc DEF WriteChunk
<1>2. CASE /\ file' = [file EXCEPT ![new[w]] =
                [head |-> HeadOf(w), code |-> CodeOf(w),
                 data |-> Append(@.data, file[src[w]].data[pos[w]])]]
           /\ UNCHANGED names
  <2> DEFINE d == Append(file[new[w]].data, file[src[w]].data[pos[w]])
             c == [head |-> HeadOf(w), code |-> CodeOf(w), data |-> d]
  <2>1. pc[w] = "write" /\ TypeOK /\ TypeOK' /\ HandlesOK(w) /\ CopyOK(w)
    BY DEF WriteChunk, IInv
  <2>2. new[w] \in Files /\ src[w] \in Files
        /\ IF op[w] = "encrypt" THEN file[src[w]].code < MaxLayers ELSE file[src[w]].code > 0
    BY <2>1 DEF HandlesOK, CopyOK, Owns
  <2>3. file' = [file EXCEPT ![new[w]] = c] /\ file'[new[w]] = c
    BY <1>2, <2>1, <2>2 DEF TypeOK
  <2>4. c \in Content
    BY <2>1, <2>2, <2>3 DEF TypeOK
  <2>5. file[src[w]].code \in Nat
    BY <2>1, <2>2 DEF TypeOK, Content
  <2>6. CodeOf(w) + 1 = file[src[w]].code \/ CodeOf(w) = file[src[w]].code + 1
    BY <2>5 DEF CodeOf
  <2>7. c.code = CodeOf(w)
    OBVIOUS
  <2> HIDE DEF c
  <2> QED
    BY <1>2, <2>1, <2>3, <2>4, <2>6, <2>7, WriteDoc
<1> QED
  BY <1>1, <1>2 DEF WriteChunk, ReliableTransfer

\* A source that nobody else holds is gone; the copy of the worker is whole.
LEMMA DeleteSourceDoc ==
  ASSUME IInv, IInv', NEW w \in Workers, DeleteSource(w)
  PROVE  DocStep
<1> USE FileAssumption
<1>1. CASE GiveUp(w, TRUE)
  BY <1>1, GiveUpDoc DEF DeleteSource
<1>2. CASE ~GiveUp(w, TRUE)
  <2>1. names' \in {names, [names EXCEPT ![Src] = NoFile]} /\ UNCHANGED file
    BY <1>2 DEF DeleteSource
  <2>2. names'[Src] \in {names[Src], NoFile} /\ \A n \in Temps : names'[n] = names[n]
    BY <2>1 DEF IInv, TypeOK, Names
  <2> QED
    BY <2>1, <2>2, SameNames
<1> QED
  BY <1>1, <1>2

\* The copy takes the name of the document.
LEMMA RenameNewDoc ==
  ASSUME IInv, IInv', NEW w \in Workers, RenameNew(w)
  PROVE  DocStep
<1> USE FileAssumption
<1>1. /\ pc[w] = "rename" /\ TypeOK /\ TypeOK' /\ UNCHANGED file
      /\ new[w] \in Files /\ tmp[w] \in Temps /\ names[tmp[w]] = new[w]
      /\ IsWhole(file[new[w]])
  BY DEF RenameNew, IInv, HandlesOK, CopyOK, Owns
<1>2. CASE UNCHANGED names
  BY <1>1, <1>2, Untouched
<1>3. CASE names[Src] = NoFile /\ names' = [names EXCEPT ![Src] = new[w], ![tmp[w]] = NoFile]
  <2> DEFINE d == file[new[w]].code
  <2>1. names'[Src] = new[w] /\ names'[tmp[w]] = NoFile
        /\ \A n \in Temps \ {tmp[w]} : names'[n] = names[n]
    BY <1>1, <1>3 DEF TypeOK, Names
  <2>2. HomeDepth = None /\ HomeDepth' = d
    BY <1>1, <1>3, <2>1, Depths DEF HomeDepth
  <2>3. tmp[w] \in Copies
    BY <1>1 DEF Copies, Complete
  <2>4. d \in WallDepths /\ d \in 0..MaxLayers
    BY <1>1, <2>3, Depths DEF WallDepths
  <2>5. WallDepths' \subseteq WallDepths /\ WallDepths \ {d} \subseteq WallDepths'
    <3>1. tmp[w] \notin Copies'
      BY <2>1 DEF Copies
    <3>2. \A u \in Temps \ {tmp[w]} : u \in Copies <=> u \in Copies'
      BY <1>1, <2>1 DEF Copies, Complete, IsWhole
    <3>3. ASSUME NEW u \in Copies'
          PROVE  u \in Copies /\ file'[names'[u]].code = file[names[u]].code
      BY <1>1, <2>1, <3>1, <3>2, <3>3 DEF Copies
    <3>4. ASSUME NEW u \in Copies, u # tmp[w]
          PROVE  u \in Copies' /\ file'[names'[u]].code = file[names[u]].code
      BY <1>1, <2>1, <3>2, <3>4 DEF Copies
    <3> QED
      BY <1>1, <3>3, <3>4 DEF WallDepths
  <2>6. WallDepths' \in {WallDepths, WallDepths \ {d}}
    BY <2>4, <2>5
  <2>7. Returned
    BY <2>2, <2>4, <2>6 DEF Returned
  <2> QED
    BY <2>7 DEF DocStep
<1> QED
  BY <1>2, <1>3 DEF RenameNew

LEMMA StepDoc ==
  ASSUME ReliableTransfer, IInv, IInv', [Next]_vars
  PROVE  DocStep
<1>1. CASE UNCHANGED <<names, file>>
  BY <1>1, Untouched DEF IInv
<1>2. ASSUME NEW w \in Workers, NEW o \in {"encrypt", "decrypt"}, Open(w, o)
      PROVE  DocStep
  BY <1>1, <1>2 DEF Open, disk
<1>3. ASSUME NEW w \in Workers, Work(w)
      PROVE  DocStep
  <2>1. CASE CheckHead(w)
    BY <1>1, <2>1, CloseDoc DEF CheckHead, CloseSrc, disk
  <2>2. CASE ReadChunk(w)
    BY <1>1, <2>2 DEF ReadChunk, disk
  <2>3. CASE CloseSource(w)
    BY <2>3, CloseDoc DEF CloseSource, CloseSrc
  <2>4. CASE CloseNew(w)
    BY <2>4, CloseDoc DEF CloseNew
  <2> QED
    BY <1>3, <2>1, <2>2, <2>3, <2>4, CreateTempDoc, SetHeadDoc, WriteChunkDoc,
       DeleteSourceDoc, RenameNewDoc DEF Work
<1> QED
  BY <1>1, <1>2, <1>3 DEF Next, Crash, vars

\* The last readable copy of a document is never given up: what the driver does for any
\* number of requests at once is what Document allows (SafeWallEncryptFile,
\* SafeWallDecryptFile, SafeWallReplaceFile).
THEOREM DocumentIsKept ==
  ASSUME ReliableTransfer
  PROVE  Spec => KeepsDocument
<1>1. Init => Doc!Init
  <2> SUFFICES ASSUME Init
               PROVE  Doc!Init
    OBVIOUS
  <2>1. PICK f \in Files, depth \in 0..(IF MaxLayers > 0 THEN 1 ELSE 0) :
          /\ names = [n \in Names |-> IF n = Src THEN f ELSE NoFile]
          /\ file[f].code = depth
    BY DEF Init
  <2>2. names[Src] = f /\ f # NoFile /\ \A t \in Temps : names[t] = NoFile
    BY <2>1, FileAssumption DEF Names
  <2>3. HomeDepth \in 0..MaxLayers /\ Copies = {}
    BY <2>1, <2>2, FileAssumption DEF HomeDepth, Copies
  <2>4. WallDepths = {}
    BY <2>3 DEF WallDepths
  <2> QED
    BY <2>3, <2>4 DEF Doc!Init, Doc!Depth, HomeDepth, WallDepths, Copies
<1>2. IInv /\ IInv' /\ [Next]_vars => [Doc!Next]_(Doc!vars)
  BY StepDoc, Mapped
<1> QED
  BY <1>1, <1>2, Invariance, PTL DEF Spec, KeepsDocument, Doc!Spec
-----------------------------------------------------------------------------
(* What is left behind is whole, as long as no transfer is cut short.      *)

\* A step of worker w keeps WholeOrOwned when every .wall file is whole afterwards, or
\* its own, or is what it was and was not its own.
LEMMA StaysWhole ==
  ASSUME WholeOrOwned, NEW w \in Workers,
         \A v \in Workers \ {w} : pc'[v] = pc[v] /\ tmp'[v] = tmp[v],
         \A t \in Temps : names'[t] # NoFile =>
           \/ Complete(names[t])'
           \/ Owns(w)' /\ tmp'[w] = t
           \/ /\ names'[t] = names[t] /\ file'[names[t]] = file[names[t]]
              /\ Owns(w) => tmp[w] # t
  PROVE  WholeOrOwned'
<1> SUFFICES ASSUME NEW t \in Temps, names'[t] # NoFile,
                    names'[t] = names[t], file'[names[t]] = file[names[t]],
                    Owns(w) => tmp[w] # t
             PROVE  Complete(names[t])' \/ \E v \in Workers : Owns(v)' /\ tmp'[v] = t
  BY DEF WholeOrOwned
<1>1. CASE Complete(names[t])
  BY <1>1 DEF Complete, IsWhole
<1>2. ASSUME NEW v \in Workers, Owns(v), tmp[v] = t PROVE Owns(v)' /\ tmp'[v] = t
  BY <1>2 DEF Owns
<1> QED
  BY <1>1, <1>2 DEF WholeOrOwned

\* A worker that has no copy, or keeps the one it has, leaves the .wall names alone.
LEMMA TempsStay ==
  ASSUME IInv, WholeOrOwned, NEW w \in Workers, UNCHANGED file,
         \A v \in Workers \ {w} : pc'[v] = pc[v] /\ tmp'[v] = tmp[v],
         \A t \in Temps : names'[t] = names[t],
         Owns(w) => Owns(w)' /\ tmp'[w] = tmp[w]
  PROVE  WholeOrOwned'
BY StaysWhole

LEMMA WholeBegin ==
  ASSUME IInv, WholeOrOwned, NEW w \in Workers,
         \/ \E o \in {"encrypt", "decrypt"} : Open(w, o)
         \/ CheckHead(w)
         \/ CloseSource(w)
         \/ CloseNew(w)
         \/ ReadChunk(w)
  PROVE  WholeOrOwned'
<1>0. TypeOK
  BY DEF IInv
<1>1. \A v \in Workers \ {w} : pc'[v] = pc[v] /\ tmp'[v] = tmp[v]
  BY <1>0 DEF TypeOK, Open, CheckHead, CloseSource, CloseNew, ReadChunk, Return, Go
<1>2. UNCHANGED file
  BY DEF Open, CheckHead, CloseSource, CloseNew, ReadChunk, CloseSrc, disk
<1>3. \A t \in Temps : names'[t] = names[t]
  BY ReleasedNames DEF Open, CheckHead, CloseSource, CloseNew, ReadChunk, CloseSrc, disk
<1>4. Owns(w) => Owns(w)' /\ tmp'[w] = tmp[w]
  BY <1>0 DEF TypeOK, Owns, Open, CheckHead, CloseSource, CloseNew, ReadChunk, Go
<1> QED
  BY <1>1, <1>2, <1>3, <1>4, TempsStay

LEMMA WholeCreate ==
  ASSUME IInv, WholeOrOwned, NEW w \in Workers, CreateTemp(w)
  PROVE  WholeOrOwned'
<1>0. TypeOK /\ pc[w] = "create" /\ ~Owns(w)
  BY DEF IInv, CreateTemp, Owns
<1>1. CASE CloseSrc(w) /\ Return(w, "error")
  <2>1. \A t \in Temps : names'[t] = names[t]
    BY <1>1, ReleasedNames DEF CloseSrc
  <2>2. UNCHANGED file /\ \A v \in Workers \ {w} : pc'[v] = pc[v] /\ tmp'[v] = tmp[v]
    BY <1>0, <1>1 DEF CloseSrc, Return, Go, TypeOK
  <2> QED
    BY <1>0, <2>1, <2>2, TempsStay
<1>2. ASSUME NEW t \in Temps, NEW f \in Files, Unused(f),
             names' = [names EXCEPT ![t] = f], file' = [file EXCEPT ![f] = Blank],
             tmp' = [tmp EXCEPT ![w] = t],
             Go(w, IF op[w] = "encrypt" THEN "sethead" ELSE "read")
      PROVE  WholeOrOwned'
  <2>1. \A v \in Workers \ {w} : pc'[v] = pc[v] /\ tmp'[v] = tmp[v]
    BY <1>0, <1>2 DEF Go, TypeOK
  <2>2. Owns(w)' /\ tmp'[w] = t
    BY <1>0, <1>2 DEF Go, TypeOK, Owns
  <2>3. ASSUME NEW u \in Temps, u # t
        PROVE  names'[u] = names[u] /\ file'[names[u]] = file[names[u]]
    BY <1>0, <1>2, <2>3 DEF TypeOK, Unused, Names
  <2> QED
    BY <1>0, <2>1, <2>2, <2>3, StaysWhole
<1> QED
  BY <1>1, <1>2 DEF CreateTemp

\* Writing into its own copy.
LEMMA WholeWrite ==
  ASSUME TransferCompletes, IInv, WholeOrOwned, NEW w \in Workers, SetHead(w) \/ WriteChunk(w)
  PROVE  WholeOrOwned'
<1>0. /\ TypeOK /\ pc[w] \in {"sethead", "write"} /\ Owns(w) /\ tmp[w] \in Temps
      /\ names[tmp[w]] = new[w]
  BY DEF IInv, HandlesOK, SetHead, WriteChunk, Owns
<1>1. /\ Go(w, "read") /\ UNCHANGED <<names, tmp>>
      /\ \E c : file' = [file EXCEPT ![new[w]] = c]
  BY DEF TransferCompletes, SetHead, WriteChunk
<1>2. /\ \A v \in Workers \ {w} : pc'[v] = pc[v] /\ tmp'[v] = tmp[v]
      /\ Owns(w)' /\ tmp'[w] = tmp[w]
  BY <1>0, <1>1 DEF Go, TypeOK, Owns
<1>3. ASSUME NEW t \in Temps, t # tmp[w], names[t] # NoFile
      PROVE  names'[t] = names[t] /\ file'[names[t]] = file[names[t]]
  <2>1. names[t] # new[w] /\ names[t] \in Files
    BY <1>0, <1>3 DEF IInv, OneNamePerFile, TypeOK, Names
  <2> QED
    BY <1>0, <1>1, <2>1 DEF TypeOK
<1> QED
  BY <1>1, <1>2, <1>3, StaysWhole

\* The copy is whole when the source is deleted, and so it may stay behind.
LEMMA WholeReplace ==
  ASSUME IInv, WholeOrOwned, NEW w \in Workers, DeleteSource(w) \/ RenameNew(w)
  PROVE  WholeOrOwned'
<1> USE FileAssumption
<1>0. /\ TypeOK /\ pc[w] \in {"delete", "rename"} /\ Owns(w) /\ tmp[w] \in Temps
      /\ names[tmp[w]] = new[w] /\ Complete(new[w])
  BY DEF IInv, HandlesOK, CopyOK, Complete, DeleteSource, RenameNew, Owns
<1>1. UNCHANGED file
  BY DEF DeleteSource, RenameNew, GiveUp
<1>2. \A v \in Workers \ {w} : pc'[v] = pc[v] /\ tmp'[v] = tmp[v]
  BY <1>0 DEF DeleteSource, RenameNew, GiveUp, Return, Go, TypeOK
<1>3. /\ \A t \in Temps \ {tmp[w]} : names'[t] = names[t]
      /\ names'[tmp[w]] \in {names[tmp[w]], NoFile}
  <2>1. CASE DeleteSource(w) /\ GiveUp(w, TRUE)
    <3>1. PICK removed \in BOOLEAN :
            names' = IF removed THEN [Released(w, src[w]) EXCEPT ![tmp[w]] = NoFile]
                                ELSE Released(w, src[w])
      BY <2>1 DEF GiveUp
    <3> QED
      BY <1>0, <3>1, ReleasedNames DEF Names
  <2>2. CASE DeleteSource(w) /\ ~GiveUp(w, TRUE)
    BY <1>0, <2>2 DEF DeleteSource, TypeOK, Names
  <2>3. CASE RenameNew(w)
    BY <1>0, <2>3 DEF RenameNew, TypeOK, Names
  <2> QED
    BY <2>1, <2>2, <2>3
<1>4. ASSUME NEW t \in Temps, t = tmp[w], names'[t] # NoFile
      PROVE  Complete(names[t])'
  BY <1>0, <1>1, <1>3, <1>4 DEF Complete, IsWhole
<1>5. ASSUME NEW t \in Temps, names'[t] # NoFile
      PROVE  \/ Complete(names[t])'
             \/ Owns(w)' /\ tmp'[w] = t
             \/ /\ names'[t] = names[t] /\ file'[names[t]] = file[names[t]]
                /\ Owns(w) => tmp[w] # t
  <2>1. CASE t = tmp[w]
    BY <1>4, <1>5, <2>1
  <2>2. CASE t # tmp[w]
    BY <1>1, <1>3, <2>2
  <2> QED
    BY <2>1, <2>2
<1> QED
  BY <1>2, <1>5, StaysWhole

\* Unless a transfer is cut short, a .wall file that no worker is busy with is whole:
\* a refused deletion or renaming leaves a copy that can be recovered by hand.
THEOREM OrphansAreWhole ==
  ASSUME TransferCompletes
  PROVE  Spec => []OrphanIsWhole
<1>1. Init => WholeOrOwned
  BY FileAssumption DEF Init, WholeOrOwned, Names
<1>2. ASSUME IInv, WholeOrOwned, [Next]_vars PROVE WholeOrOwned'
  <2>1. CASE UNCHANGED vars
    BY <1>2, <2>1 DEF vars, WholeOrOwned, Complete, IsWhole, Owns
  <2>2. CASE Crash
    BY <2>2 DEF Crash, TransferCompletes
  <2>3. ASSUME NEW w \in Workers, Work(w) \/ \E o \in {"encrypt", "decrypt"} : Open(w, o)
        PROVE  WholeOrOwned'
    BY <1>2, <2>3, WholeBegin, WholeCreate, WholeWrite, WholeReplace DEF Work
  <2> QED
    BY <1>2, <2>1, <2>2, <2>3 DEF Next
<1>3. IInv /\ WholeOrOwned => OrphanIsWhole
  BY FileAssumption DEF WholeOrOwned, OrphanIsWhole, Owns
<1>4. Spec => []IInv
  BY Invariance DEF TransferCompletes, ReliableTransfer
<1> QED
  BY <1>1, <1>2, <1>3, <1>4, PTL DEF Spec

-----------------------------------------------------------------------------
(* Whose handles and names are whose, whatever fails.                      *)

LEMMA InitOwn == Init => OwnInv
<1> SUFFICES ASSUME Init PROVE OwnInv
  OBVIOUS
<1> USE FileAssumption
<1>1. PICK f \in Files : names = [n \in Names |-> IF n = Src THEN f ELSE NoFile]
  BY DEF Init
<1>2. HandleTypes
  BY <1>1 DEF Init, HandleTypes, PCs
<1>3. (\A w \in Workers : HandlesOK(w)) /\ DistinctTemps /\ DistinctCopies /\ ClosingNamed
  BY DEF Init, HandlesOK, Owns, DistinctTemps, DistinctCopies, ClosingNamed
<1>4. OneNamePerFile
  BY <1>1 DEF OneNamePerFile
<1>5. DoomedAtHome
  BY DEF Init, DoomedAtHome
<1> QED
  BY <1>2, <1>3, <1>4, <1>5 DEF OwnInv

\* The steps by which a worker goes from pc to pc and leaves the directory and all
\* handles alone.
Along == ({"head", "create"} \X {"create"})
           \union ({"sethead", "read", "write"} \X {"read", "write", "close"})

LEMMA StayOwn ==
  ASSUME OwnInv, NEW w \in Workers, NEW to, Go(w, to), <<pc[w], to>> \in Along,
         UNCHANGED <<names, doomed, src, new, tmp>>
  PROVE  OwnInv'
<1> USE FileAssumption DEF OwnInv, Go, Along
<1>0. /\ pc'[w] = to /\ \A v \in Workers \ {w} : pc'[v] = pc[v]
      /\ pc[w] \notin {"idle", "closenew"} /\ to \notin {"idle", "closenew"}
  BY DEF HandleTypes
<1>1. HandleTypes'
  BY DEF HandleTypes, PCs
<1>2. ASSUME NEW v \in Workers PROVE HandlesOK(v)'
  BY <1>0 DEF HandlesOK, Owns
<1>3. DistinctTemps'
  BY <1>0 DEF DistinctTemps, Owns
<1>4. DistinctCopies' /\ OneNamePerFile' /\ DoomedAtHome'
  BY DEF DistinctCopies, OneNamePerFile, DoomedAtHome, Holds
<1>5. ClosingNamed'
  BY <1>0 DEF ClosingNamed
<1> QED
  BY <1>1, <1>2, <1>3, <1>4, <1>5

LEMMA OpenOwn ==
  ASSUME OwnInv, NEW w \in Workers, NEW o \in {"encrypt", "decrypt"}, Open(w, o)
  PROVE  OwnInv'
<1> USE FileAssumption DEF OwnInv, Open, disk, Go
<1>1. HandleTypes'
  BY DEF HandleTypes, PCs, Names
<1>2. ASSUME NEW v \in Workers PROVE HandlesOK(v)'
  BY DEF HandlesOK, Owns, HandleTypes, Names
<1>3. DistinctTemps'
  BY DEF DistinctTemps, Owns, HandleTypes
<1>4. DistinctCopies' /\ OneNamePerFile'
  BY DEF DistinctCopies, OneNamePerFile
<1>5. DoomedAtHome'
  BY DEF DoomedAtHome, Holds, HandleTypes, HandlesOK
<1>6. ClosingNamed'
  BY DEF ClosingNamed, HandleTypes
<1> QED
  BY <1>1, <1>2, <1>3, <1>4, <1>5, <1>6

\* A worker that returns before its copy takes the place of the source, with or
\* without removing the .wall file.
LEMMA QuitOwn ==
  ASSUME OwnInv, NEW w \in Workers, NEW st \in {"success", "error"},
         pc[w] \in {"head", "create", "sethead", "write", "delete"},
         NEW dir, dir = Released(w, src[w]),
         \/ names' = dir
         \/ Owns(w) /\ names' = [dir EXCEPT ![tmp[w]] = NoFile],
         doomed' = StillDoomed(w, src[w]), Return(w, st)
  PROVE  OwnInv'
<1> USE FileAssumption DEF Return, Go
<1>0. /\ HandleTypes /\ HandlesOK(w)
      /\ pc'[w] = "idle" /\ new'[w] = NoFile /\ src'[w] = NoFile /\ tmp'[w] = NoName
      /\ \A v \in Workers \ {w} : /\ pc'[v] = pc[v] /\ src'[v] = src[v]
                                  /\ new'[v] = new[v] /\ tmp'[v] = tmp[v]
  BY DEF OwnInv, HandleTypes
<1>1. /\ dir \in [Names -> Files \union {NoFile}]
      /\ \A n \in Temps : dir[n] = names[n]
      /\ dir[Src] \in {names[Src], NoFile}
      /\ dir[Src] = NoFile => \A v \in Workers \ {w} : ~Holds(v, names[Src]) \/ names[Src] = NoFile
      /\ doomed' \subseteq doomed
      /\ names[Src] \in doomed =>
           \/ doomed' = {}
           \/ dir[Src] = names[Src] /\ \E v \in Workers \ {w} : Holds(v, names[Src])
  <2>1. CASE src[w] \in Files
    <3>1. names[Src] = src[w] /\ src[w] # NoFile
      BY <2>1 DEF HandlesOK, HandleTypes, PCs, OwnInv
    <3>2. \A n \in Temps : names[n] # src[w]
      BY <3>1 DEF OneNamePerFile, Names, OwnInv
    <3>3. doomed \subseteq {src[w]}
      BY <3>1 DEF DoomedAtHome, OwnInv
    <3> QED
      BY <1>0, <3>1, <3>2, <3>3 DEF Released, StillDoomed, HandleTypes, Names
  <2>2. CASE src[w] = NoFile
    <3>1. dir = names /\ doomed' = doomed
      BY <1>0, <2>2 DEF Released, StillDoomed, HandleTypes
    <3>2. pc[w] = "delete"
      BY <1>0, <2>2 DEF HandlesOK
    <3>3. ~Holds(w, names[Src]) \/ names[Src] = NoFile
      BY <1>0, <2>2, <3>2 DEF Holds, HandlesOK, Owns, OwnInv, OneNamePerFile, Names
    <3>4. names[Src] \in doomed => \E v \in Workers \ {w} : Holds(v, names[Src])
      BY <1>0, <3>3 DEF OwnInv, DoomedAtHome, HandleTypes
    <3> QED
      BY <1>0, <3>1, <3>4 DEF HandleTypes, Names
  <2> QED
    BY <1>0, <2>1, <2>2 DEF HandleTypes
<1>2. /\ names' \in [Names -> Files \union {NoFile}]
      /\ names'[Src] = dir[Src]
      /\ \A n \in Temps : names'[n] = names[n] \/ (Owns(w) /\ n = tmp[w] /\ names'[n] = NoFile)
      /\ \A n \in Names : names'[n] # NoFile => names'[n] = names[n]
  BY <1>0, <1>1 DEF HandlesOK, Names
<1>3. HandleTypes'
  BY <1>0, <1>1, <1>2 DEF HandleTypes, PCs
<1>4. ASSUME NEW v \in Workers, v # w, new[v] # NoFile, NEW n \in Names, names[n] = new[v]
      PROVE  names'[n] = new[v]
  <2>1. CASE n = Src
    BY <1>0, <1>1, <1>2, <1>4, <2>1 DEF Holds
  <2>2. CASE n \in Temps
    <3>1. Owns(w) => names[tmp[w]] = new[w] /\ new[w] # new[v]
      BY <1>0, <1>4 DEF HandlesOK, OwnInv, DistinctCopies
    <3> QED
      BY <1>2, <1>4, <2>2, <3>1
  <2> QED
    BY <2>1, <2>2 DEF Names
<1>5. ASSUME NEW v \in Workers PROVE HandlesOK(v)'
  <2>1. CASE v # w
    <3>1. HandlesOK(v)
      BY DEF OwnInv
    <3>2. src[v] \in Files /\ names[Src] = src[v] => names'[Src] = src[v]
      BY <1>1, <1>2, <2>1 DEF Holds
    <3>3. Owns(v) => names'[tmp[v]] = new[v]
      BY <1>4, <2>1, <3>1 DEF HandlesOK, Names
    <3> QED
      BY <1>0, <2>1, <3>1, <3>2, <3>3 DEF HandlesOK, Owns
  <2>2. HandlesOK(w)'
    BY <1>0 DEF HandlesOK, Owns
  <2> QED
    BY <2>1, <2>2
<1>6. DistinctTemps'
  BY <1>0 DEF DistinctTemps, Owns, OwnInv
<1>7. DistinctCopies'
  BY <1>0 DEF DistinctCopies, OwnInv
<1>8. OneNamePerFile'
  BY <1>2 DEF OneNamePerFile, OwnInv
<1>9. DoomedAtHome'
  <2> SUFFICES ASSUME NEW f \in doomed'
               PROVE  f = names'[Src] /\ \E v \in Workers : Holds(v, f)'
    BY DEF DoomedAtHome
  <2>1. f = names[Src] /\ f \in doomed
    BY <1>1 DEF OwnInv, DoomedAtHome
  <2>2. names'[Src] = names[Src] /\ \E v \in Workers \ {w} : Holds(v, names[Src])
    BY <1>1, <1>2, <2>1
  <2> QED
    BY <1>0, <2>1, <2>2 DEF Holds
<1>10. ClosingNamed'
  <2> SUFFICES ASSUME NEW v \in Workers, pc'[v] = "closenew"
               PROVE  \E n \in Names : names'[n] = new'[v]
    BY DEF ClosingNamed
  <2>1. v # w /\ pc[v] = "closenew" /\ new'[v] = new[v] /\ new[v] # NoFile
    BY <1>0 DEF OwnInv, HandlesOK
  <2>2. PICK n \in Names : names[n] = new[v]
    BY <2>1 DEF OwnInv, ClosingNamed
  <2> QED
    BY <1>4, <2>1, <2>2
<1> QED
  BY <1>3, <1>5, <1>6, <1>7, <1>8, <1>9, <1>10 DEF OwnInv

LEMMA CheckHeadOwn ==
  ASSUME OwnInv, NEW w \in Workers, CheckHead(w)
  PROVE  OwnInv'
<1>1. CASE Go(w, "create") /\ UNCHANGED <<disk, op, src, new, tmp, pos, status>>
  BY <1>1, StayOwn DEF CheckHead, Along, disk
<1>2. CASE CloseSrc(w) /\ Return(w, "success")
  BY <1>2, QuitOwn DEF CheckHead, CloseSrc
<1> QED
  BY <1>1, <1>2 DEF CheckHead

LEMMA CreateTempOwn ==
  ASSUME OwnInv, NEW w \in Workers, CreateTemp(w)
  PROVE  OwnInv'
<1> USE FileAssumption
<1>0. pc[w] = "create" /\ src[w] \in Files /\ names[Src] = src[w] /\ HandleTypes
  BY DEF CreateTemp, HandlesOK, OwnInv
<1>1. CASE CloseSrc(w) /\ Return(w, "error")
  BY <1>0, <1>1, QuitOwn DEF CloseSrc
<1>2. ASSUME NEW t \in Temps, NEW f \in Files,
             names[t] = NoFile, Unused(f),
             names' = [names EXCEPT ![t] = f],
             tmp' = [tmp EXCEPT ![w] = t],
             new' = [new EXCEPT ![w] = f],
             Go(w, IF op[w] = "encrypt" THEN "sethead" ELSE "read"),
             UNCHANGED <<doomed, src>>
      PROVE  OwnInv'
  <2> USE <1>0, <1>2 DEF Go
  <2>0. /\ pc'[w] \in {"sethead", "read"}
        /\ \A v \in Workers \ {w} : pc'[v] = pc[v] /\ new'[v] = new[v] /\ tmp'[v] = tmp[v]
        /\ new'[w] = f /\ tmp'[w] = t /\ f # NoFile
        /\ \A n \in Names : names[n] # f
        /\ names'[t] = f /\ \A n \in Names \ {t} : names'[n] = names[n]
    BY DEF HandleTypes, Unused, Names
  <2>1. HandleTypes'
    BY DEF HandleTypes, PCs, Names
  <2>2. \A v \in Workers \ {w} :
          /\ Owns(v) => tmp[v] # t /\ new[v] # f
          /\ new[v] # NoFile => new[v] # f
    BY <2>0 DEF OwnInv, HandlesOK, HandleTypes, ClosingNamed, Names, PCs, Owns
  <2>3. ASSUME NEW v \in Workers PROVE HandlesOK(v)'
    <3>1. CASE v # w
      <4>1. HandlesOK(v)
        BY DEF OwnInv
      <4>2. names'[Src] = names[Src] /\ (Owns(v) => names'[tmp[v]] = names[tmp[v]])
        BY <2>0, <2>2, <3>1, <4>1 DEF HandlesOK, Names
      <4> QED
        BY <2>0, <3>1, <4>1, <4>2 DEF HandlesOK, Owns
    <3>2. HandlesOK(w)'
      BY <2>0 DEF HandlesOK, Owns, Names
    <3> QED
      BY <3>1, <3>2
  <2>4. DistinctTemps'
    BY <2>0, <2>2 DEF OwnInv, DistinctTemps, Owns
  <2>5. DistinctCopies'
    BY <2>0, <2>2 DEF OwnInv, DistinctCopies
  <2>6. OneNamePerFile'
    BY <2>0 DEF OwnInv, OneNamePerFile
  <2>7. DoomedAtHome'
    BY <2>0 DEF OwnInv, DoomedAtHome, Holds, Names, HandlesOK
  <2>8. ClosingNamed'
    BY <2>0 DEF OwnInv, ClosingNamed, HandlesOK
  <2> QED
    BY <2>1, <2>3, <2>4, <2>5, <2>6, <2>7, <2>8 DEF OwnInv
<1> QED
  BY <1>1, <1>2 DEF CreateTemp

\* A worker gives up, be it that ZwDeleteFile fails as well.
LEMMA GiveUpOwn ==
  ASSUME OwnInv, NEW w \in Workers, NEW del \in BOOLEAN, GiveUp(w, del),
         pc[w] \in {"sethead", "write", "delete"}
  PROVE  OwnInv'
<1>1. Owns(w)
  BY DEF Owns
<1> QED
  BY <1>1, QuitOwn DEF GiveUp

LEMMA SetHeadOwn ==
  ASSUME OwnInv, NEW w \in Workers, SetHead(w)
  PROVE  OwnInv'
BY StayOwn, GiveUpOwn DEF SetHead, Along, disk

LEMMA ReadChunkOwn ==
  ASSUME OwnInv, NEW w \in Workers, ReadChunk(w)
  PROVE  OwnInv'
BY StayOwn DEF ReadChunk, Along, disk

LEMMA WriteChunkOwn ==
  ASSUME OwnInv, NEW w \in Workers, WriteChunk(w)
  PROVE  OwnInv'
BY StayOwn, GiveUpOwn DEF WriteChunk, Along, disk

LEMMA CloseSourceOwn ==
  ASSUME OwnInv, NEW w \in Workers, CloseSource(w)
  PROVE  OwnInv'
<1> USE FileAssumption DEF CloseSource, CloseSrc, Go
<1>0. /\ pc[w] = "close" /\ src[w] \in Files /\ names[Src] = src[w] /\ HandleTypes
      /\ Owns(w) /\ new[w] \in Files /\ tmp[w] \in Temps /\ names[tmp[w]] = new[w]
  BY DEF HandlesOK, OwnInv, Owns
<1>1. /\ pc'[w] = "delete" /\ src'[w] = NoFile
      /\ \A v \in Workers \ {w} : pc'[v] = pc[v] /\ src'[v] = src[v]
  BY <1>0 DEF HandleTypes
<1>2. doomed \subseteq {src[w]} /\ \A n \in Temps : names[n] # src[w]
  BY <1>0 DEF DoomedAtHome, OneNamePerFile, Names, OwnInv
<1>3. /\ names' \in [Names -> Files \union {NoFile}]
      /\ \A n \in Temps : names'[n] = names[n]
      /\ \/ names' = names
         \/ names'[Src] = NoFile /\ doomed' = {} /\ \A v \in Workers \ {w} : ~Holds(v, src[w])
      /\ doomed' \subseteq doomed
      /\ doomed' # {} => \E v \in Workers \ {w} : Holds(v, src[w])
  BY <1>0, <1>2 DEF Released, StillDoomed, HandleTypes, Names
<1>4. HandleTypes'
  BY <1>0, <1>3 DEF HandleTypes, PCs
<1>5. ASSUME NEW v \in Workers PROVE HandlesOK(v)'
  <2>1. CASE v # w
    <3>1. HandlesOK(v)
      BY DEF OwnInv
    <3>2. src[v] \in Files /\ names[Src] = src[v] => names'[Src] = src[v]
      BY <1>0, <1>3, <2>1 DEF Holds
    <3> QED
      BY <1>1, <1>3, <2>1, <3>1, <3>2 DEF HandlesOK, Owns
  <2>2. HandlesOK(w)'
    BY <1>0, <1>1, <1>3 DEF HandlesOK, Owns
  <2> QED
    BY <2>1, <2>2
<1>6. DistinctTemps'
  BY <1>0, <1>1 DEF DistinctTemps, Owns, OwnInv
<1>7. DistinctCopies'
  BY DEF DistinctCopies, OwnInv
<1>8. OneNamePerFile'
  BY <1>0, <1>3 DEF OneNamePerFile, OwnInv, Names, HandleTypes
<1>9. DoomedAtHome'
  <2> SUFFICES ASSUME NEW f \in doomed'
               PROVE  f = names'[Src] /\ \E v \in Workers : Holds(v, f)'
    BY DEF DoomedAtHome
  <2>1. f = src[w] /\ names' = names /\ \E v \in Workers \ {w} : Holds(v, src[w])
    BY <1>2, <1>3
  <2> QED
    BY <1>0, <1>1, <2>1 DEF Holds
<1>10. ClosingNamed'
  <2> SUFFICES ASSUME NEW v \in Workers, pc'[v] = "closenew"
               PROVE  \E n \in Names : names'[n] = new'[v]
    BY DEF ClosingNamed
  <2>1. v # w /\ pc[v] = "closenew" /\ new'[v] = new[v] /\ new[v] \in Files
    BY <1>1 DEF OwnInv, HandlesOK
  <2>2. PICK n \in Names : names[n] = new[v]
    BY <2>1 DEF OwnInv, ClosingNamed
  <2>3. names'[n] = new[v]
    BY <1>0, <1>3, <2>1, <2>2 DEF Names, Holds
  <2> QED
    BY <2>1, <2>3
<1> QED
  BY <1>4, <1>5, <1>6, <1>7, <1>8, <1>9, <1>10 DEF OwnInv

LEMMA DeleteSourceOwn ==
  ASSUME OwnInv, NEW w \in Workers, DeleteSource(w)
  PROVE  OwnInv'
<1> USE FileAssumption
<1>0. pc[w] = "delete" /\ HandleTypes /\ HandlesOK(w)
  BY DEF DeleteSource, OwnInv
<1>1. CASE GiveUp(w, TRUE)
  BY <1>0, <1>1, GiveUpOwn
<1>2. ASSUME names[Src] # NoFile, names[Src] \notin doomed,
             \/ /\ \E v \in Workers : Holds(v, names[Src])
                /\ doomed' = doomed \union {names[Src]} /\ names' = names
             \/ /\ \A v \in Workers : ~Holds(v, names[Src])
                /\ names' = [names EXCEPT ![Src] = NoFile] /\ doomed' = doomed,
             Go(w, "rename"), UNCHANGED <<src, new, tmp>>
      PROVE  OwnInv'
  <2> USE <1>0, <1>2 DEF Go
  <2>0. /\ pc'[w] = "rename" /\ \A v \in Workers \ {w} : pc'[v] = pc[v]
        /\ names[Src] \in Files /\ doomed = {}
        /\ \A n \in Names \ {Src} : names'[n] = names[n]
        /\ names'[Src] \in {names[Src], NoFile}
        /\ names'[Src] = NoFile => doomed' = {} /\ \A v \in Workers : ~Holds(v, names[Src])
    BY DEF HandleTypes, Names, OwnInv, DoomedAtHome
  <2>1. HandleTypes'
    BY <2>0 DEF HandleTypes, PCs, Names
  <2>2. ASSUME NEW v \in Workers PROVE HandlesOK(v)'
    <3>1. HandlesOK(v)
      BY DEF OwnInv
    <3>2. src[v] \in Files /\ names[Src] = src[v] => names'[Src] = src[v]
      BY <2>0 DEF Holds
    <3>3. Owns(v) => names'[tmp[v]] = new[v]
      BY <2>0, <3>1 DEF HandlesOK, Names
    <3> QED
      BY <2>0, <3>1, <3>2, <3>3 DEF HandlesOK, Owns
  <2>3. DistinctTemps' /\ DistinctCopies'
    BY <2>0 DEF DistinctTemps, Owns, DistinctCopies, OwnInv
  <2>4. OneNamePerFile'
    BY <2>0 DEF OneNamePerFile, OwnInv
  <2>5. DoomedAtHome'
    BY <2>0 DEF DoomedAtHome, Holds
  <2>6. ClosingNamed'
    <3> SUFFICES ASSUME NEW v \in Workers, pc'[v] = "closenew"
                 PROVE  \E n \in Names : names'[n] = new'[v]
      BY DEF ClosingNamed
    <3>1. v # w /\ pc[v] = "closenew"
      BY <2>0
    <3>2. PICK n \in Names : names[n] = new[v]
      BY <3>1 DEF OwnInv, ClosingNamed
    <3> QED
      BY <2>0, <3>2 DEF Holds
  <2> QED
    BY <2>1, <2>2, <2>3, <2>4, <2>5, <2>6 DEF OwnInv
<1> QED
  BY <1>1, <1>2 DEF DeleteSource

LEMMA RenameNewOwn ==
  ASSUME OwnInv, NEW w \in Workers, RenameNew(w)
  PROVE  OwnInv'
<1> USE FileAssumption DEF RenameNew, Go
<1>0. /\ pc[w] = "rename" /\ HandleTypes /\ HandlesOK(w) /\ Owns(w)
      /\ new[w] \in Files /\ tmp[w] \in Temps /\ names[tmp[w]] = new[w] /\ src[w] = NoFile
  BY DEF OwnInv, HandlesOK, Owns
<1>1. /\ pc'[w] = "closenew" /\ \A v \in Workers \ {w} : pc'[v] = pc[v]
      /\ \A n \in Names \ {Src, tmp[w]} : names'[n] = names[n]
      /\ \/ names' = names
         \/ /\ names[Src] = NoFile /\ doomed = {}
            /\ names'[Src] = new[w] /\ names'[tmp[w]] = NoFile
  BY <1>0 DEF HandleTypes, Names, OwnInv, DoomedAtHome
<1>2. HandleTypes'
  BY <1>0 DEF HandleTypes, PCs, Names
<1>3. ASSUME NEW v \in Workers PROVE HandlesOK(v)'
  <2>1. CASE v # w
    <3>1. HandlesOK(v)
      BY DEF OwnInv
    <3>2. src[v] \in Files /\ names[Src] = src[v] => names'[Src] = src[v]
      BY <1>1
    <3>3. Owns(v) => names'[tmp[v]] = new[v]
      BY <1>0, <1>1, <2>1, <3>1 DEF HandlesOK, DistinctTemps, OwnInv, Names
    <3> QED
      BY <1>1, <2>1, <3>1, <3>2, <3>3 DEF HandlesOK, Owns
  <2>2. HandlesOK(w)'
    BY <1>0, <1>1 DEF HandlesOK, Owns
  <2> QED
    BY <2>1, <2>2
<1>4. DistinctTemps' /\ DistinctCopies'
  BY <1>1 DEF DistinctTemps, Owns, DistinctCopies, OwnInv
<1>5. OneNamePerFile'
  BY <1>0, <1>1 DEF OneNamePerFile, OwnInv, Names
<1>6. DoomedAtHome'
  BY <1>1 DEF DoomedAtHome, Holds, OwnInv
<1>7. ClosingNamed'
  <2> SUFFICES ASSUME NEW v \in Workers, pc'[v] = "closenew"
               PROVE  \E n \in Names : names'[n] = new'[v]
    BY DEF ClosingNamed
  <2>1. CASE v = w
    BY <1>0, <1>1, <2>1 DEF Names
  <2>2. CASE v # w
    <3>1. pc[v] = "closenew" /\ new[v] \in Files /\ new[v] # new[w]
      BY <1>1, <2>2 DEF OwnInv, HandlesOK, DistinctCopies
    <3>2. PICK n \in Names : names[n] = new[v]
      BY <3>1 DEF OwnInv, ClosingNamed
    <3> QED
      BY <1>0, <1>1, <3>1, <3>2
  <2> QED
    BY <2>1, <2>2
<1> QED
  BY <1>2, <1>3, <1>4, <1>5, <1>6, <1>7 DEF OwnInv

LEMMA CloseNewOwn ==
  ASSUME OwnInv, NEW w \in Workers, CloseNew(w)
  PROVE  OwnInv'
<1> USE FileAssumption DEF CloseNew, Return, Go
<1>0. /\ pc[w] = "closenew" /\ HandleTypes /\ HandlesOK(w)
      /\ new[w] \in Files /\ new[w] # NoFile
  BY DEF OwnInv, HandlesOK
<1>1. /\ pc'[w] = "idle" /\ new'[w] = NoFile /\ src'[w] = NoFile /\ tmp'[w] = NoName
      /\ \A v \in Workers \ {w} : /\ pc'[v] = pc[v] /\ src'[v] = src[v]
                                  /\ new'[v] = new[v] /\ tmp'[v] = tmp[v]
  BY <1>0 DEF HandleTypes
<1>2. /\ names' \in [Names -> Files \union {NoFile}]
      /\ \/ names' = names
         \/ /\ names[Src] = new[w] /\ names'[Src] = NoFile
            /\ \A n \in Names \ {Src} : names'[n] = names[n]
            /\ \A v \in Workers \ {w} : ~Holds(v, new[w])
            /\ doomed' = {}
      /\ doomed' \subseteq doomed
      /\ \A f \in doomed' : \E v \in Workers \ {w} : Holds(v, f)
  <2>1. \A f \in doomed : f = names[Src] /\ \E v \in Workers : Holds(v, f)
    BY DEF OwnInv, DoomedAtHome
  <2>2. new[w] \in doomed => doomed = {new[w]} /\ \A n \in Names \ {Src} : names[n] # new[w]
    BY <1>0, <2>1 DEF OwnInv, OneNamePerFile, Names
  <2>3. src[w] = NoFile /\ NoFile \notin doomed
    BY <1>0 DEF HandlesOK, HandleTypes
  <2> QED
    BY <1>0, <2>1, <2>2, <2>3 DEF Released, StillDoomed, HandleTypes, Names, Holds
<1>3. HandleTypes'
  BY <1>0, <1>1, <1>2 DEF HandleTypes, PCs
<1>4. ASSUME NEW v \in Workers PROVE HandlesOK(v)'
  <2>1. CASE v # w
    <3>1. HandlesOK(v)
      BY DEF OwnInv
    <3>2. src[v] \in Files /\ names[Src] = src[v] => names'[Src] = src[v]
      BY <1>2, <2>1 DEF Holds
    <3>3. Owns(v) => names'[tmp[v]] = new[v]
      BY <1>2, <3>1 DEF HandlesOK, Names
    <3> QED
      BY <1>1, <2>1, <3>1, <3>2, <3>3 DEF HandlesOK, Owns
  <2>2. HandlesOK(w)'
    BY <1>1 DEF HandlesOK, Owns
  <2> QED
    BY <2>1, <2>2
<1>5. DistinctTemps' /\ DistinctCopies'
  BY <1>1 DEF DistinctTemps, Owns, DistinctCopies, OwnInv
<1>6. OneNamePerFile'
  BY <1>2 DEF OneNamePerFile, OwnInv
<1>7. DoomedAtHome'
  BY <1>1, <1>2 DEF DoomedAtHome, Holds, OwnInv
<1>8. ClosingNamed'
  <2> SUFFICES ASSUME NEW v \in Workers, pc'[v] = "closenew"
               PROVE  \E n \in Names : names'[n] = new'[v]
    BY DEF ClosingNamed
  <2>1. v # w /\ pc[v] = "closenew" /\ new'[v] = new[v]
    BY <1>1
  <2>2. PICK n \in Names : names[n] = new[v]
    BY <2>1 DEF OwnInv, ClosingNamed
  <2>3. names'[n] = new[v]
    BY <1>2, <2>1, <2>2 DEF Holds
  <2> QED
    BY <2>1, <2>3
<1> QED
  BY <1>3, <1>4, <1>5, <1>6, <1>7, <1>8 DEF OwnInv

LEMMA CrashOwn ==
  ASSUME OwnInv, Crash
  PROVE  OwnInv'
<1> USE FileAssumption DEF OwnInv, Crash
<1>1. HandleTypes'
  BY DEF HandleTypes, PCs
<1>2. (\A w \in Workers : HandlesOK(w)') /\ DistinctTemps' /\ DistinctCopies' /\ ClosingNamed'
  BY DEF HandlesOK, Owns, DistinctTemps, DistinctCopies, ClosingNamed
<1>3. OneNamePerFile' /\ DoomedAtHome'
  BY DEF OneNamePerFile, DoomedAtHome
<1> QED
  BY <1>1, <1>2, <1>3

-----------------------------------------------------------------------------

LEMMA NextOwn == OwnInv /\ [Next]_vars => OwnInv'
<1> SUFFICES ASSUME OwnInv, [Next]_vars PROVE OwnInv'
  OBVIOUS
<1>1. CASE UNCHANGED vars
  <2> USE <1>1 DEF vars
  <2>1. HandleTypes' /\ DistinctTemps' /\ DistinctCopies' /\ OneNamePerFile'
    BY DEF OwnInv, HandleTypes, DistinctTemps, Owns, DistinctCopies, OneNamePerFile
  <2>2. DoomedAtHome' /\ ClosingNamed' /\ \A w \in Workers : HandlesOK(w)'
    BY DEF OwnInv, DoomedAtHome, Holds, ClosingNamed, HandlesOK, Owns
  <2> QED
    BY <2>1, <2>2 DEF OwnInv
<1>2. CASE Crash
  BY <1>2, CrashOwn
<1>3. ASSUME NEW w \in Workers, NEW o \in {"encrypt", "decrypt"}, Open(w, o) PROVE OwnInv'
  BY <1>3, OpenOwn
<1>4. ASSUME NEW w \in Workers, Work(w) PROVE OwnInv'
  BY <1>4, CheckHeadOwn, CreateTempOwn, SetHeadOwn, ReadChunkOwn, WriteChunkOwn,
     CloseSourceOwn, DeleteSourceOwn, RenameNewOwn, CloseNewOwn DEF Work
<1> QED
  BY <1>1, <1>2, <1>3, <1>4 DEF Next

\* Whatever fails, who holds which file and under which name stays consistent
\* (CreateSafeWallFilePath, SafeWallReplaceFile, the handles of the two routines).
THEOREM Ownership == Spec => []OwnInv
BY InitOwn, NextOwn, PTL DEF Spec

\* Until it is renamed a .wall file belongs to one worker, even when reads fail and
\* failed writes are taken for good ones: no other worker has its name or the file.
THEOREM OneOwner == Spec => []OwnTemp
<1>1. OwnInv => OwnTemp
  <2> SUFFICES ASSUME OwnInv, NEW w \in Workers, new[w] # NoFile, pc[w] # "closenew"
               PROVE  /\ names[tmp[w]] = new[w]
                      /\ \A v \in Workers \ {w} : new[v] # new[w]
                      /\ \A v \in Workers \ {w} : pc[v] # "closenew" => tmp[v] # tmp[w]
    BY DEF OwnTemp
  <2>1. Owns(w) /\ tmp[w] \in Temps /\ names[tmp[w]] = new[w]
    BY DEF OwnInv, HandlesOK, HandleTypes, PCs, Owns
  <2>2. \A v \in Workers \ {w} : new[v] # new[w]
    BY DEF OwnInv, DistinctCopies
  <2>3. ASSUME NEW v \in Workers \ {w}, pc[v] # "closenew" PROVE tmp[v] # tmp[w]
    <3>1. CASE Owns(v)
      BY <2>1, <3>1 DEF OwnInv, DistinctTemps
    <3>2. CASE ~Owns(v)
      BY <2>1, <2>3, <3>2, FileAssumption DEF OwnInv, HandlesOK, HandleTypes, PCs, Owns, Names
    <3> QED
      BY <3>1, <3>2
  <2> QED
    BY <2>1, <2>2, <2>3
<1> QED
  BY <1>1, Ownership, PTL

-----------------------------------------------------------------------------
(* No document is encrypted twice, as long as headers can be read.         *)

\* Init: one document, at most encrypted, and files nobody has written.
LEMMA InitHead == Init => HeadInv
<1> SUFFICES ASSUME Init PROVE HeadInv
  OBVIOUS
<1>1. OwnInv
  BY InitOwn
<1>2. PICK f \in Files, depth \in 0..(IF MaxLayers > 0 THEN 1 ELSE 0) :
        file = [g \in Files |-> IF g = f THEN [head |-> depth, code |-> depth, data |-> Whole]
                                         ELSE Blank]
  BY DEF Init
<1>3. depth \in {0, 1}
  BY FileAssumption
<1>4. FilesAreRecords /\ \A g \in Files : file[g].head \in {0, 1}
  BY <1>2, <1>3 DEF FilesAreRecords, Blank
<1>5. op \in [Workers -> {"encrypt", "decrypt"}] /\ \A w \in Workers : HeadKnown(w)
  BY DEF Init, HeadKnown
<1> QED
  BY <1>1, <1>4, <1>5 DEF HeadInv

\* A step of one worker that changes the header of no source.
LEMMA HeadStep ==
  ASSUME HeadInv, OwnInv', NEW w \in Workers,
         FilesAreRecords', \A f \in Files : file'[f].head \in {0, 1},
         \A v \in Workers : pc[v] \in {"head", "create", "sethead", "read", "write"} =>
           file'[src[v]].head = file[src[v]].head,
         op' \in [Workers -> {"encrypt", "decrypt"}],
         \A v \in Workers \ {w} : pc'[v] = pc[v] /\ op'[v] = op[v] /\ src'[v] = src[v],
         HeadKnown(w)'
  PROVE  HeadInv'
<1>1. ASSUME NEW v \in Workers PROVE HeadKnown(v)'
  BY DEF HeadInv, HeadKnown
<1> QED
  BY <1>1 DEF HeadInv

\* A worker that returns or goes on past the transfer.
LEMMA HeadDone ==
  ASSUME HeadInv, OwnInv', NEW w \in Workers, UNCHANGED <<file, op>>,
         NEW to \in PCs \ {"create", "sethead", "read", "write"}, pc' = [pc EXCEPT ![w] = to],
         src' = [src EXCEPT ![w] = NoFile] \/ src' = src
  PROVE  HeadInv'
<1>1. pc'[w] = to /\ \A v \in Workers \ {w} : pc'[v] = pc[v] /\ src'[v] = src[v]
  BY DEF HeadInv, OwnInv, HandleTypes
<1>2. HeadKnown(w)' /\ op' \in [Workers -> {"encrypt", "decrypt"}]
  BY <1>1 DEF HeadInv, HeadKnown
<1>3. FilesAreRecords' /\ \A f \in Files : file'[f].head \in {0, 1}
  BY DEF HeadInv, FilesAreRecords
<1> QED
  BY <1>1, <1>2, <1>3, HeadStep

LEMMA OpenHead ==
  ASSUME HeadInv, OwnInv', NEW w \in Workers, NEW o \in {"encrypt", "decrypt"}, Open(w, o)
  PROVE  HeadInv'
<1>1. /\ pc[w] = "idle" /\ pc'[w] \in {"idle", "head"} /\ UNCHANGED file
      /\ \A v \in Workers \ {w} : pc'[v] = pc[v] /\ src'[v] = src[v]
  BY DEF HeadInv, OwnInv, HandleTypes, Open, Go, disk
<1>2. /\ op' \in [Workers -> {"encrypt", "decrypt"}]
      /\ \A v \in Workers \ {w} : op'[v] = op[v]
  BY DEF Open, HeadInv
<1>3. HeadKnown(w)'
  BY <1>1 DEF HeadKnown
<1>4. FilesAreRecords' /\ \A f \in Files : file'[f].head \in {0, 1}
  BY <1>1 DEF HeadInv, FilesAreRecords
<1> QED
  BY <1>1, <1>2, <1>3, <1>4, HeadStep

\* The header says what it says, when it can be read.
LEMMA CheckHeadHead ==
  ASSUME HeadInv, OwnInv', "head" \notin Faults, NEW w \in Workers, CheckHead(w)
  PROVE  HeadInv'
<1>0. src[w] \in Files /\ pc[w] = "head"
  BY DEF CheckHead, HeadInv, OwnInv, HandlesOK
<1>1. CASE CloseSrc(w) /\ Return(w, "success")
  BY <1>1, HeadDone DEF CloseSrc, Return, Go, PCs
<1>2. CASE /\ IF op[w] = "encrypt" THEN Unflagged(w) ELSE Flagged(w)
           /\ Go(w, "create")
           /\ UNCHANGED <<disk, op, src, new, tmp, pos, status>>
  <2>1. /\ pc'[w] = "create" /\ \A v \in Workers \ {w} : pc'[v] = pc[v]
        /\ UNCHANGED <<file, op, src>>
    BY <1>2 DEF HeadInv, OwnInv, HandleTypes, Go, disk
  <2>2. file[src[w]].head \in {0, 1} /\ op[w] \in {"encrypt", "decrypt"}
    BY <1>0 DEF HeadInv
  <2>3. HeadKnown(w)'
    BY <1>2, <2>1, <2>2 DEF HeadKnown, Flagged, Unflagged
  <2>4. FilesAreRecords' /\ op' \in [Workers -> {"encrypt", "decrypt"}]
        /\ \A f \in Files : file'[f].head \in {0, 1}
    BY <2>1 DEF HeadInv, FilesAreRecords
  <2> QED
    BY <2>1, <2>3, <2>4, HeadStep
<1> QED
  BY <1>1, <1>2 DEF CheckHead

\* Writing a file that is nobody's source.
LEMMA HeadWritten ==
  ASSUME HeadInv, OwnInv', NEW w \in Workers, NEW f \in Files, NEW c,
         c = [head |-> c.head, code |-> c.code, data |-> c.data], c.head \in {0, 1},
         file' = [file EXCEPT ![f] = c],
         \A v \in Workers : pc[v] \in {"head", "create", "sethead", "read", "write"} =>
           src[v] # f,
         NEW to \in PCs, pc' = [pc EXCEPT ![w] = to],
         pc[w] \in {"create", "sethead", "read", "write"},
         to \in {"create", "sethead", "read", "write"},
         to = "sethead" => op[w] = "encrypt",
         UNCHANGED <<op, src>>
  PROVE  HeadInv'
<1>1. pc'[w] = to /\ \A v \in Workers \ {w} : pc'[v] = pc[v]
  BY DEF HeadInv, OwnInv, HandleTypes
<1>2. \A g \in Files : file'[g] = IF g = f THEN c ELSE file[g]
  BY DEF HeadInv, FilesAreRecords
<1>3. FilesAreRecords'
  <2>1. \A g \in Files : file'[g] = [head |-> file'[g].head, code |-> file'[g].code,
                                     data |-> file'[g].data]
    BY <1>2 DEF HeadInv, FilesAreRecords
  <2>2. file' = [g \in Files |-> file'[g]]
    BY DEF HeadInv, FilesAreRecords
  <2> QED
    BY <2>1, <2>2 DEF FilesAreRecords
<1>4. \A g \in Files : file'[g].head \in {0, 1}
  BY <1>2 DEF HeadInv
<1>5. ASSUME NEW v \in Workers, pc[v] \in {"head", "create", "sethead", "read", "write"}
      PROVE  file'[src[v]].head = file[src[v]].head
  <2>1. src[v] \in Files /\ src[v] # f
    BY <1>5 DEF HeadInv, OwnInv, HandlesOK
  <2> QED
    BY <1>2, <2>1
<1>6. HeadKnown(w)'
  BY <1>1, <1>5 DEF HeadInv, HeadKnown
<1>7. op' \in [Workers -> {"encrypt", "decrypt"}]
  BY DEF HeadInv
<1> QED
  BY <1>1, <1>3, <1>4, <1>5, <1>6, <1>7, HeadStep

\* A step of the transfer that leaves the files as they are.
LEMMA HeadAlong ==
  ASSUME HeadInv, OwnInv', NEW w \in Workers,
         NEW to \in {"create", "sethead", "read", "write"}, pc' = [pc EXCEPT ![w] = to],
         pc[w] \in {"create", "sethead", "read", "write"}, to # "sethead",
         UNCHANGED <<file, op, src>>
  PROVE  HeadInv'
<1>1. pc'[w] = to /\ \A v \in Workers \ {w} : pc'[v] = pc[v]
  BY DEF HeadInv, OwnInv, HandleTypes
<1>2. HeadKnown(w)' /\ op' \in [Workers -> {"encrypt", "decrypt"}]
  BY <1>1 DEF HeadInv, HeadKnown
<1>3. FilesAreRecords' /\ \A f \in Files : file'[f].head \in {0, 1}
  BY DEF HeadInv, FilesAreRecords
<1> QED
  BY <1>1, <1>2, <1>3, HeadStep

\* The copy a worker writes is nobody's source.
LEMMA CopyIsNoSource ==
  ASSUME OwnInv, NEW w \in Workers, Owns(w), NEW v \in Workers,
         pc[v] \in {"head", "create", "sethead", "read", "write"}
  PROVE  src[v] # new[w]
BY FileAssumption DEF OwnInv, HandlesOK, OneNamePerFile, Names

LEMMA CreateTempHead ==
  ASSUME HeadInv, OwnInv', NEW w \in Workers, CreateTemp(w)
  PROVE  HeadInv'
<1>0. pc[w] = "create"
  BY DEF CreateTemp
<1>1. CASE CloseSrc(w) /\ Return(w, "error")
  BY <1>1, HeadDone DEF CloseSrc, Return, Go, PCs
<1>2. ASSUME NEW f \in Files, Unused(f), file' = [file EXCEPT ![f] = Blank],
             Go(w, IF op[w] = "encrypt" THEN "sethead" ELSE "read"),
             UNCHANGED <<op, src>>
      PROVE  HeadInv'
  <2>1. \A v \in Workers : pc[v] \in {"head", "create", "sethead", "read", "write"} =>
          src[v] # f
    BY <1>2 DEF HeadInv, OwnInv, HandlesOK, Unused, Names
  <2>2. Blank = [head |-> Blank.head, code |-> Blank.code, data |-> Blank.data]
        /\ Blank.head \in {0, 1}
    BY DEF Blank
  <2>3. CASE op[w] = "encrypt"
    BY <1>0, <1>2, <2>1, <2>2, <2>3, HeadWritten DEF Go, PCs
  <2>4. CASE op[w] # "encrypt"
    BY <1>0, <1>2, <2>1, <2>2, <2>4, HeadWritten DEF Go, PCs
  <2> QED
    BY <2>3, <2>4
<1> QED
  BY <1>1, <1>2 DEF CreateTemp

LEMMA GiveUpHead ==
  ASSUME HeadInv, OwnInv', NEW w \in Workers, NEW del \in BOOLEAN, GiveUp(w, del)
  PROVE  HeadInv'
BY HeadDone DEF GiveUp, Return, Go, PCs

LEMMA SetHeadHead ==
  ASSUME HeadInv, OwnInv', NEW w \in Workers, SetHead(w)
  PROVE  HeadInv'
<1>0. pc[w] = "sethead" /\ Owns(w) /\ new[w] \in Files
      /\ file[src[w]].head = 0
  BY DEF SetHead, Owns, HeadInv, OwnInv, HandlesOK, HeadKnown
<1>1. CASE /\ file' = [file EXCEPT ![new[w]].head = file[src[w]].head + 1]
           /\ Go(w, "read")
           /\ UNCHANGED <<names, doomed, op, src, new, tmp, pos, status>>
  <2> DEFINE c == [head |-> 1, code |-> file[new[w]].code, data |-> file[new[w]].data]
  <2>1. file[new[w]] = [head |-> file[new[w]].head, code |-> file[new[w]].code,
                        data |-> file[new[w]].data]
    BY <1>0 DEF HeadInv, FilesAreRecords
  <2>2. [file[new[w]] EXCEPT !.head = file[src[w]].head + 1] = c
    BY <1>0, <2>1
  <2>3. file' = [file EXCEPT ![new[w]] = c]
    BY <1>1, <2>2
  <2>4. c = [head |-> c.head, code |-> c.code, data |-> c.data] /\ c.head \in {0, 1}
    OBVIOUS
  <2>5. \A v \in Workers : pc[v] \in {"head", "create", "sethead", "read", "write"} =>
          src[v] # new[w]
    BY <1>0, CopyIsNoSource DEF HeadInv
  <2>6. pc' = [pc EXCEPT ![w] = "read"] /\ UNCHANGED <<op, src>>
    BY <1>1 DEF Go
  <2> HIDE DEF c
  <2> QED
    BY <1>0, <2>3, <2>4, <2>5, <2>6, HeadWritten DEF PCs
<1>2. CASE Go(w, "read") /\ UNCHANGED <<disk, op, src, new, tmp, pos, status>>
  BY <1>0, <1>2, HeadAlong DEF Go, disk
<1>3. CASE GiveUp(w, TRUE)
  BY <1>3, GiveUpHead
<1> QED
  BY <1>1, <1>2, <1>3 DEF SetHead

LEMMA ReadChunkHead ==
  ASSUME HeadInv, OwnInv', NEW w \in Workers, ReadChunk(w)
  PROVE  HeadInv'
<1>1. pc[w] = "read" /\ UNCHANGED <<file, op, src>>
  BY DEF ReadChunk, disk
<1>2. CASE Go(w, "write")
  BY <1>1, <1>2, HeadAlong DEF Go
<1>3. CASE Go(w, "close")
  BY <1>1, <1>3, HeadDone DEF Go, PCs
<1> QED
  BY <1>2, <1>3 DEF ReadChunk

\* The copy gets the header of an encryption of a plain file, or loses the only one.
LEMMA WriteChunkHead ==
  ASSUME HeadInv, OwnInv', NEW w \in Workers, WriteChunk(w)
  PROVE  HeadInv'
<1>0. /\ pc[w] = "write" /\ Owns(w) /\ new[w] \in Files /\ op[w] \in {"encrypt", "decrypt"}
      /\ file[src[w]].head = (IF op[w] = "encrypt" THEN 0 ELSE 1)
      /\ file[new[w]].head \in {0, 1}
  BY DEF WriteChunk, Owns, HeadInv, OwnInv, HandlesOK, HeadKnown
<1>1. ASSUME NEW d, file' = [file EXCEPT ![new[w]] =
                              [head |-> HeadOf(w), code |-> CodeOf(w), data |-> d]],
             Go(w, "read"), UNCHANGED <<op, src>>
      PROVE  HeadInv'
  <2> DEFINE c == [head |-> HeadOf(w), code |-> CodeOf(w), data |-> d]
  <2>1. HeadOf(w) \in {0, 1}
    BY <1>0 DEF HeadOf
  <2>2. c = [head |-> c.head, code |-> c.code, data |-> c.data] /\ c.head \in {0, 1}
    BY <2>1
  <2>3. file' = [file EXCEPT ![new[w]] = c]
    BY <1>1
  <2>5. \A v \in Workers : pc[v] \in {"head", "create", "sethead", "read", "write"} =>
          src[v] # new[w]
    BY <1>0, CopyIsNoSource DEF HeadInv
  <2>6. pc' = [pc EXCEPT ![w] = "read"] /\ UNCHANGED <<op, src>>
    BY <1>1 DEF Go
  <2> HIDE DEF c
  <2> QED
    BY <1>0, <2>2, <2>3, <2>5, <2>6, HeadWritten DEF PCs
<1>2. CASE Go(w, "read") /\ UNCHANGED <<disk, op, src, new, tmp, pos, status>>
  BY <1>0, <1>2, HeadAlong DEF Go, disk
<1>3. CASE GiveUp(w, op[w] = "decrypt")
  BY <1>3, GiveUpHead
<1> QED
  BY <1>1, <1>2, <1>3 DEF WriteChunk

LEMMA ReplaceHead ==
  ASSUME HeadInv, OwnInv', NEW w \in Workers,
         CloseSource(w) \/ DeleteSource(w) \/ RenameNew(w) \/ CloseNew(w)
  PROVE  HeadInv'
<1>1. CASE CloseSource(w)
  BY <1>1, HeadDone DEF CloseSource, CloseSrc, Go, PCs
<1>2. CASE DeleteSource(w)
  <2>1. CASE GiveUp(w, TRUE)
    BY <2>1, GiveUpHead
  <2>2. CASE Go(w, "rename") /\ UNCHANGED <<file, op, src, new, tmp, pos>>
    BY <2>2, HeadDone DEF Go, PCs
  <2> QED
    BY <1>2, <2>1, <2>2 DEF DeleteSource
<1>3. CASE RenameNew(w)
  BY <1>3, HeadDone DEF RenameNew, Go, PCs
<1>4. CASE CloseNew(w)
  BY <1>4, HeadDone DEF CloseNew, Return, Go, PCs
<1> QED
  BY <1>1, <1>2, <1>3, <1>4

LEMMA NextHead ==
  ASSUME "head" \notin Faults
  PROVE  HeadInv /\ [Next]_vars => HeadInv'
<1> SUFFICES ASSUME HeadInv, [Next]_vars PROVE HeadInv'
  OBVIOUS
<1>0. OwnInv'
  BY NextOwn DEF HeadInv
<1>1. CASE UNCHANGED vars
  BY <1>0, <1>1 DEF vars, HeadInv, FilesAreRecords, HeadKnown
<1>2. CASE Crash
  BY <1>0, <1>2 DEF Crash, HeadInv, FilesAreRecords, HeadKnown
<1>3. ASSUME NEW w \in Workers, NEW o \in {"encrypt", "decrypt"}, Open(w, o) PROVE HeadInv'
  BY <1>0, <1>3, OpenHead
<1>4. ASSUME NEW w \in Workers, Work(w) PROVE HeadInv'
  BY <1>0, <1>4, CheckHeadHead, CreateTempHead, SetHeadHead, ReadChunkHead, WriteChunkHead,
     ReplaceHead DEF Work
<1> QED
  BY <1>1, <1>2, <1>3, <1>4 DEF Next

\* A document never gets a second header, whatever else fails, as long as the header
\* it has can be read (CheckSafeWallFlags in SafeWallEncryptFile).
THEOREM NeverEncryptedTwice ==
  ASSUME "head" \notin Faults
  PROVE  Spec => []EncryptedOnce
<1>1. HeadInv => EncryptedOnce
  BY DEF HeadInv, OwnInv, HandleTypes, EncryptedOnce, Names
<1> QED
  BY <1>1, InitHead, NextHead, PTL DEF Spec
=============================================================================
