---------------------------- MODULE FileTransform ----------------------------
(***************************************************************************)
(* SafeWallEncryptFile, SafeWallDecryptFile and SafeWallReplaceFile         *)
(* (SafeWall/SwTransformFile.cpp): the driver encrypts or decrypts a file   *)
(* by writing a transformed copy into a fresh "<8 hex>.wall" file beside    *)
(* it, deleting the original and renaming the copy.  Several requests       *)
(* (IOCTL_ENCRYPT, IOCTL_DECRYPT) may run on the same path at once: sources *)
(* are opened with IO_IGNORE_SHARE_ACCESS_CHECK and no lock is taken.       *)
(*                                                                          *)
(* The file system is external.  It is modelled as the driver relies on     *)
(* it: a name leads to a file, a deleted file that somebody still holds     *)
(* keeps its name until the last handle on it is closed, and a rename or a  *)
(* FILE_CREATE on a name in use fails.                                      *)
(***************************************************************************)
EXTENDS Naturals, Sequences

CONSTANTS
  Workers,     \* threads that carry an IOCTL_ENCRYPT or IOCTL_DECRYPT
  Src,         \* the path the requests name
  Temps,       \* the .wall names CreateSafeWallFilePath may come up with
  Files,       \* identities of files on the volume
  NoFile,      \* no file
  NoName,      \* no name
  N,           \* length of the document, in buffers of PAGE_BUFFER_SIZE
  MaxLayers,   \* bound on how often a document gets encrypted
  Faults       \* what may go wrong, a subset of FaultKinds

Names == {Src} \union Temps

\* "open": no device or no such file.  "head": the header cannot be read.
\* "create", "write", "read", "delete", "rename": that call fails.  "lost": a
\* write fails, but the status devWriteFile takes out of the IRP the I/O
\* manager has already freed says success.  "crash": the machine stops.
FaultKinds == {"open", "head", "create", "write", "lost", "read", "delete",
               "rename", "crash"}

ASSUME FileAssumption ==
  /\ Src \notin Temps
  /\ NoName \notin Names
  /\ NoFile \notin Files
  /\ N \in Nat \ {0}
  /\ MaxLayers \in Nat
  /\ Faults \subseteq FaultKinds

VARIABLES
  names,       \* the directory: the file each name leads to, or NoFile
  file,        \* what each file holds
  doomed,      \* deleted files that somebody still holds open
  pc,          \* where each worker is
  op,          \* what it was asked to do: "encrypt" or "decrypt"
  src,         \* srcFile: the source it holds open, or NoFile
  new,         \* newFile: the .wall file it holds open, or NoFile
  tmp,         \* newFilePath: the name of that file
  pos,         \* srcOffset, in buffers
  status       \* the NTSTATUS of its last call that matters

disk == <<names, file, doomed>>
vars == <<names, file, doomed, pc, op, src, new, tmp, pos, status>>

\* A file is described by the headers in front of its payload, the number of
\* times the payload is encoded, and the buffers written to it, in order.
Content == [head : 0..MaxLayers, code : 0..MaxLayers, data : Seq(1..N)]

UpTo(k) == [i \in 1..k |-> i]
Whole == UpTo(N)
Blank == [head |-> 0, code |-> 0, data |-> <<>>]

\* The payload is all there, and the headers match how it is encoded.
IsWhole(c) == c.data = Whole /\ c.head = c.code
Complete(f) == IsWhole(file[f])

PCs == {"idle", "head", "create", "sethead", "read", "write", "close",
        "delete", "rename", "closenew"}

TypeOK ==
  /\ names \in [Names -> Files \union {NoFile}]
  /\ file \in [Files -> Content]
  /\ doomed \subseteq Files
  /\ pc \in [Workers -> PCs]
  /\ op \in [Workers -> {"encrypt", "decrypt"}]
  /\ src \in [Workers -> Files \union {NoFile}]
  /\ new \in [Workers -> Files \union {NoFile}]
  /\ tmp \in [Workers -> Temps \union {NoName}]
  /\ pos \in [Workers -> 0..N]
  /\ status \in [Workers -> {"none", "success", "error"}]

-----------------------------------------------------------------------------
(* The file system.                                                        *)

Holds(w, f) == src[w] = f \/ new[w] = f

Unused(f) == \A n \in Names : names[n] # f

\* The directory once w lets go of file f: a doomed file whose last holder
\* that was goes away with its name.
Released(w, f) ==
  IF f \in doomed /\ \A v \in Workers \ {w} : ~Holds(v, f)
    THEN [n \in Names |-> IF names[n] = f THEN NoFile ELSE names[n]]
    ELSE names

\* The files still doomed after that.
StillDoomed(w, f) ==
  IF \A v \in Workers \ {w} : ~Holds(v, f) THEN doomed \ {f} ELSE doomed

\* w closes its source (CallNextCloseFile), and nothing else touches the disk.
CloseSrc(w) ==
  /\ names' = Released(w, src[w])
  /\ doomed' = StillDoomed(w, src[w])
  /\ UNCHANGED file

Go(w, to) == pc' = [pc EXCEPT ![w] = to]

\* The routine returns st; its handles are closed.
Return(w, st) ==
  /\ Go(w, "idle")
  /\ status' = [status EXCEPT ![w] = st]
  /\ src' = [src EXCEPT ![w] = NoFile]
  /\ new' = [new EXCEPT ![w] = NoFile]
  /\ tmp' = [tmp EXCEPT ![w] = NoName]
  /\ pos' = [pos EXCEPT ![w] = 0]
  /\ UNCHANGED op

-----------------------------------------------------------------------------
(* The steps of a worker.                                                  *)

\* The source is opened for reading; when that fails the routine returns.
Open(w, o) ==
  /\ pc[w] = "idle"
  /\ op' = [op EXCEPT ![w] = o]
  /\ \/ /\ names[Src] # NoFile
        /\ names[Src] \notin doomed
        /\ o = "encrypt" => /\ file[names[Src]].code < MaxLayers
                            /\ file[names[Src]].head < MaxLayers
        /\ src' = [src EXCEPT ![w] = names[Src]]
        /\ status' = [status EXCEPT ![w] = "none"]
        /\ Go(w, "head")
     \/ /\ names[Src] = NoFile \/ names[Src] \in doomed \/ "open" \in Faults
        /\ status' = [status EXCEPT ![w] = "error"]
        /\ UNCHANGED <<src, pc>>
  /\ UNCHANGED <<disk, new, tmp, pos>>

\* Mutant of Unflagged: the header is never found to mark the file.
UnflaggedAlways(w) == TRUE

\* GetSafeWallByFileHandle and CheckSafeWallFlags.  A header that cannot be
\* read counts as no header.
Flagged(w) == file[src[w]].head > 0
Unflagged(w) == file[src[w]].head = 0 \/ "head" \in Faults

\* A file already in the wanted form is left alone.
CheckHead(w) ==
  /\ pc[w] = "head"
  /\ \/ /\ IF op[w] = "encrypt" THEN Flagged(w) ELSE Unflagged(w)
        /\ CloseSrc(w)
        /\ Return(w, "success")
     \/ /\ IF op[w] = "encrypt" THEN Unflagged(w) ELSE Flagged(w)
        /\ Go(w, "create")
        /\ UNCHANGED <<disk, op, src, new, tmp, pos, status>>

\* Mutant of CreateTemp: FILE_OVERWRITE_IF, which takes over a name in use.
CreateTempOverwrites(w) ==
  /\ pc[w] = "create"
  /\ \E t \in Temps, f \in Files :
       /\ names[t] = f \/ (names[t] = NoFile /\ Unused(f))
       /\ names' = [names EXCEPT ![t] = f]
       /\ file' = [file EXCEPT ![f] = Blank]
       /\ tmp' = [tmp EXCEPT ![w] = t]
       /\ new' = [new EXCEPT ![w] = f]
       /\ Go(w, IF op[w] = "encrypt" THEN "sethead" ELSE "read")
       /\ UNCHANGED <<doomed, op, src, pos, status>>

\* A .wall file is created with FILE_CREATE, which refuses a name in use.
CreateTemp(w) ==
  /\ pc[w] = "create"
  /\ \/ /\ "create" \in Faults \/ \E t \in Temps : names[t] # NoFile
        /\ CloseSrc(w)
        /\ Return(w, "error")
     \/ \E t \in Temps, f \in Files :
          /\ names[t] = NoFile
          /\ Unused(f)
          /\ names' = [names EXCEPT ![t] = f]
          /\ file' = [file EXCEPT ![f] = Blank]
          /\ tmp' = [tmp EXCEPT ![w] = t]
          /\ new' = [new EXCEPT ![w] = f]
          /\ Go(w, IF op[w] = "encrypt" THEN "sethead" ELSE "read")
          /\ UNCHANGED <<doomed, op, src, pos, status>>

\* The routine gives up: both handles are closed and, when del holds, the
\* .wall file is removed, if ZwDeleteFile does not fail as well.
GiveUp(w, del) ==
  /\ \E removed \in {del} \union (IF "delete" \in Faults THEN {FALSE} ELSE {}) :
       LET released == Released(w, src[w]) IN
         names' = IF removed THEN [released EXCEPT ![tmp[w]] = NoFile] ELSE released
  /\ doomed' = StillDoomed(w, src[w])
  /\ UNCHANGED file
  /\ Return(w, "error")

\* Mutant of SetHead: the header of the source is taken over as it is.
SetHeadCopied(w) ==
  /\ pc[w] = "sethead"
  /\ file' = [file EXCEPT ![new[w]].head = file[src[w]].head]
  /\ Go(w, "read")
  /\ UNCHANGED <<names, doomed, op, src, new, tmp, pos, status>>

\* SetSafeWallToFileHead: only SafeWallEncryptFile writes a header.
SetHead(w) ==
  /\ pc[w] = "sethead"
  /\ \/ /\ file' = [file EXCEPT ![new[w]].head = file[src[w]].head + 1]
        /\ Go(w, "read")
        /\ UNCHANGED <<names, doomed, op, src, new, tmp, pos, status>>
     \/ /\ "lost" \in Faults
        /\ Go(w, "read")
        /\ UNCHANGED <<disk, op, src, new, tmp, pos, status>>
     \/ /\ "write" \in Faults
        /\ GiveUp(w, TRUE)

\* Mutant of ReadChunk: the loop ends one buffer early.
ReadChunkShort(w) ==
  /\ pc[w] = "read"
  /\ IF pos[w] + 1 < Len(file[src[w]].data)
       THEN pos' = [pos EXCEPT ![w] = @ + 1] /\ Go(w, "write")
       ELSE UNCHANGED pos /\ Go(w, "close")
  /\ UNCHANGED <<disk, op, src, new, tmp, status>>

\* Mutant of ReadChunk: the end of the file does not end the loop.
ReadChunkForever(w) ==
  /\ pc[w] = "read"
  /\ pos[w] < Len(file[src[w]].data)
  /\ pos' = [pos EXCEPT ![w] = @ + 1]
  /\ Go(w, "write")
  /\ UNCHANGED <<disk, op, src, new, tmp, status>>

\* devReadFile.  End of file ends the loop, and so does any other error.
ReadChunk(w) ==
  /\ pc[w] = "read"
  /\ \/ /\ pos[w] < Len(file[src[w]].data)
        /\ pos' = [pos EXCEPT ![w] = @ + 1]
        /\ Go(w, "write")
        /\ UNCHANGED status
     \/ /\ pos[w] = Len(file[src[w]].data)
        /\ status' = [status EXCEPT ![w] = "success"]
        /\ Go(w, "close")
        /\ UNCHANGED pos
     \/ /\ "read" \in Faults
        /\ status' = [status EXCEPT ![w] = "error"]
        /\ Go(w, "close")
        /\ UNCHANGED pos
  /\ UNCHANGED <<disk, op, src, new, tmp>>

\* Mutant of HeadOf: SafeWallDecryptFile copies the header along.
HeadOfKept(w) == IF op[w] = "encrypt" THEN file[new[w]].head ELSE file[src[w]].head

\* How the payload of the copy is encoded: SafeWallEncryptFile encodes what
\* it read once more, SafeWallDecryptFile strips a header and decodes.
CodeOf(w) == IF op[w] = "encrypt" THEN file[src[w]].code + 1 ELSE file[src[w]].code - 1
HeadOf(w) == IF op[w] = "encrypt" THEN file[new[w]].head ELSE file[src[w]].head - 1

\* Mutant of WriteChunk: a failed write leaves the loop as a failed read does.
WriteChunkBreaks(w) ==
  /\ pc[w] = "write"
  /\ \/ /\ file' = [file EXCEPT ![new[w]] =
             [head |-> HeadOf(w), code |-> CodeOf(w),
              data |-> Append(@.data, file[src[w]].data[pos[w]])]]
        /\ Go(w, "read")
     \/ /\ "write" \in Faults
        /\ Go(w, "close")
        /\ UNCHANGED file
  /\ UNCHANGED <<names, doomed, op, src, new, tmp, pos, status>>

\* Encode or Decode, and devWriteFile.  When the write fails,
\* SafeWallDecryptFile removes the .wall file and SafeWallEncryptFile leaves it.
WriteChunk(w) ==
  /\ pc[w] = "write"
  /\ \/ /\ file' = [file EXCEPT ![new[w]] =
             [head |-> HeadOf(w), code |-> CodeOf(w),
              data |-> Append(@.data, file[src[w]].data[pos[w]])]]
        /\ Go(w, "read")
        /\ UNCHANGED <<names, doomed, op, src, new, tmp, pos, status>>
     \/ /\ "lost" \in Faults
        /\ Go(w, "read")
        /\ UNCHANGED <<disk, op, src, new, tmp, pos, status>>
     \/ /\ "write" \in Faults
        /\ GiveUp(w, op[w] = "decrypt")

\* CallNextCloseFile(srcFile), whatever ended the loop.
CloseSource(w) ==
  /\ pc[w] = "close"
  /\ CloseSrc(w)
  /\ src' = [src EXCEPT ![w] = NoFile]
  /\ Go(w, "delete")
  /\ UNCHANGED <<op, new, tmp, pos, status>>

\* ZwDeleteFile(srcFileAttributes).  When it fails the copy is removed.
DeleteSource(w) ==
  /\ pc[w] = "delete"
  /\ \/ /\ names[Src] # NoFile
        /\ names[Src] \notin doomed
        /\ IF \E v \in Workers : Holds(v, names[Src])
             THEN doomed' = doomed \union {names[Src]} /\ UNCHANGED names
             ELSE names' = [names EXCEPT ![Src] = NoFile] /\ UNCHANGED doomed
        /\ status' = [status EXCEPT ![w] = "success"]
        /\ Go(w, "rename")
        /\ UNCHANGED <<file, op, src, new, tmp, pos>>
     \/ /\ names[Src] = NoFile \/ names[Src] \in doomed \/ "delete" \in Faults
        /\ GiveUp(w, TRUE)

\* Mutant of RenameNew: when the rename fails the copy is removed.
RenameNewCleansUp(w) ==
  /\ pc[w] = "rename"
  /\ names' = [names EXCEPT ![tmp[w]] = NoFile,
                            ![Src] = IF @ = NoFile THEN new[w] ELSE @]
  /\ Go(w, "closenew")
  /\ UNCHANGED <<file, doomed, op, src, new, tmp, pos, status>>

\* The copy is renamed, with ReplaceIfExists = 0.
RenameNew(w) ==
  /\ pc[w] = "rename"
  /\ \/ /\ names[Src] = NoFile
        /\ names' = [names EXCEPT ![Src] = new[w], ![tmp[w]] = NoFile]
        /\ UNCHANGED status
     \/ /\ names[Src] # NoFile \/ "rename" \in Faults
        /\ status' = [status EXCEPT ![w] = "error"]
        /\ UNCHANGED names
  /\ Go(w, "closenew")
  /\ UNCHANGED <<file, doomed, op, src, new, tmp, pos>>

\* CallNextCloseFile(newFile) after the rename, and the return.
CloseNew(w) ==
  /\ pc[w] = "closenew"
  /\ names' = Released(w, new[w])
  /\ doomed' = StillDoomed(w, new[w])
  /\ UNCHANGED file
  /\ Return(w, status[w])

\* The machine stops and comes up again: every worker is gone, and so are the
\* handles; a file that was only doomed is still there.
Crash ==
  /\ "crash" \in Faults
  /\ doomed' = {}
  /\ pc' = [w \in Workers |-> "idle"]
  /\ src' = [w \in Workers |-> NoFile]
  /\ new' = [w \in Workers |-> NoFile]
  /\ tmp' = [w \in Workers |-> NoName]
  /\ pos' = [w \in Workers |-> 0]
  /\ status' = [w \in Workers |-> "none"]
  /\ UNCHANGED <<names, file, op>>

-----------------------------------------------------------------------------

\* One document, plain or encrypted, under its own name.
Init ==
  /\ \E f \in Files, depth \in 0..(IF MaxLayers > 0 THEN 1 ELSE 0) :
       /\ names = [n \in Names |-> IF n = Src THEN f ELSE NoFile]
       /\ file = [g \in Files |->
                   IF g = f THEN [head |-> depth, code |-> depth, data |-> Whole]
                            ELSE Blank]
  /\ doomed = {}
  /\ pc = [w \in Workers |-> "idle"]
  /\ op = [w \in Workers |-> "encrypt"]
  /\ src = [w \in Workers |-> NoFile]
  /\ new = [w \in Workers |-> NoFile]
  /\ tmp = [w \in Workers |-> NoName]
  /\ pos = [w \in Workers |-> 0]
  /\ status = [w \in Workers |-> "none"]

\* Everything a worker does once it was asked to.
Work(w) ==
  \/ CheckHead(w)
  \/ CreateTemp(w)
  \/ SetHead(w)
  \/ ReadChunk(w)
  \/ WriteChunk(w)
  \/ CloseSource(w)
  \/ DeleteSource(w)
  \/ RenameNew(w)
  \/ CloseNew(w)

Next ==
  \/ \E w \in Workers, o \in {"encrypt", "decrypt"} : Open(w, o)
  \/ \E w \in Workers : Work(w)
  \/ Crash

\* A thread inside the driver is scheduled again; nobody has to make a request.
Fairness == \A w \in Workers : WF_vars(Work(w))

Spec == Init /\ [][Next]_vars /\ Fairness

-----------------------------------------------------------------------------
(* Properties.                                                             *)

\* Whatever the requests and wherever they are interrupted, some name leads to
\* a complete copy of the document: the original is not given up before its
\* replacement is whole, and no worker removes the replacement of another
\* (SafeWallEncryptFile, SafeWallReplaceFile).
PayloadSafe == \E n \in Names : names[n] # NoFile /\ Complete(names[n])

\* A reader of the user's path never meets a file that is half transformed.
HomeIsWhole == names[Src] # NoFile => Complete(names[Src])

\* A document is never encrypted on top of an encryption ("if it has the file
\* group flag, it has been encrypted already", SafeWallEncryptFile).
EncryptedOnce == names[Src] # NoFile => file[names[Src]].head <= 1

\* A .wall file no worker is busy with any more holds a whole copy: what a
\* failed rename leaves behind can be recovered by hand.
OrphanIsWhole ==
  \A t \in Temps :
    names[t] # NoFile /\ (\A w \in Workers : tmp[w] # t) => Complete(names[t])

\* "The new file replaces the old one" (SafeWallReplaceFile): once no request is
\* running, the path leads to a file.
PathSurvives == (\A w \in Workers : pc[w] = "idle") => names[Src] # NoFile

\* Until it is renamed, a .wall file belongs to one worker: its name leads to
\* the file the worker holds open, and no other worker has the name or the file.
OwnTemp ==
  \A w \in Workers : new[w] # NoFile /\ pc[w] # "closenew" =>
    /\ names[tmp[w]] = new[w]
    /\ \A v \in Workers \ {w} : new[v] # new[w]
    /\ \A v \in Workers \ {w} : pc[v] # "closenew" => tmp[v] # tmp[w]

\* A source is taken off its name only by a worker whose own copy is whole.
ReplacedByWhole ==
  [][\A w \in Workers :
       pc[w] = "delete" /\ pc'[w] = "rename" => Complete(new[w])]_vars

\* Every request that was accepted is answered.
RequestsReturn == \A w \in Workers : pc[w] # "idle" ~> pc[w] = "idle"

-----------------------------------------------------------------------------
(* Why no copy is lost, as an inductive invariant.  It holds as long as no  *)
(* read fails and no failed write is reported as done.                      *)

ReliableTransfer == Faults \intersect {"read", "lost"} = {}

\* A worker writes to or still may remove the file called tmp[w].
Owns(w) == pc[w] \in {"sethead", "read", "write", "close", "delete", "rename"}
MayRemove(w) == Owns(w) /\ pc[w] # "rename"

\* The handles a worker has at each step.
HandlesOK(w) ==
  /\ pc[w] \in {"idle", "delete", "rename", "closenew"} => src[w] = NoFile
  /\ pc[w] \in {"idle", "head", "create"} => new[w] = NoFile /\ tmp[w] = NoName
  /\ pc[w] \in {"head", "create", "sethead", "read", "write", "close"} =>
       src[w] \in Files /\ names[Src] = src[w]
  /\ Owns(w) => tmp[w] \in Temps /\ new[w] \in Files /\ names[tmp[w]] = new[w]
  /\ pc[w] = "closenew" => new[w] \in Files

\* How many buffers the copy of w should hold.
Written(w) == IF pc[w] = "write" THEN pos[w] - 1 ELSE pos[w]

\* How far the copy of worker w is.
CopyOK(w) ==
  LET c == file[new[w]]
      s == file[src[w]]
  IN /\ pc[w] \in {"idle", "head", "create"} => pos[w] = 0
     /\ pc[w] \in {"head", "create"} => (op[w] = "encrypt" => s.code < MaxLayers)
     /\ pc[w] = "create" /\ op[w] = "decrypt" => s.code > 0
     /\ pc[w] \in {"sethead", "read", "write", "close"} =>
          IF op[w] = "encrypt" THEN s.code < MaxLayers ELSE s.code > 0
     /\ pc[w] = "sethead" =>
          op[w] = "encrypt" /\ pos[w] = 0 /\ c = Blank
     /\ pc[w] = "write" => pos[w] > 0
     /\ pc[w] \in {"read", "write", "close"} =>
          /\ c.data = UpTo(Written(w))
          /\ op[w] = "encrypt" => c.head = s.head + 1
          /\ Written(w) > 0 => c.head = HeadOf(w) /\ c.code = CodeOf(w)
     /\ pc[w] = "close" => pos[w] = N
     /\ pc[w] \in {"delete", "rename"} => IsWhole(c)

\* A .wall file that is whole and that no worker may still remove.
Kept(t) ==
  /\ names[t] # NoFile
  /\ Complete(names[t])
  /\ \A w \in Workers : MayRemove(w) => tmp[w] # t

DistinctTemps ==
  \A v, w \in Workers : v # w /\ Owns(v) /\ Owns(w) => tmp[v] # tmp[w]

OneNamePerFile ==
  \A m, n \in Names : names[m] = names[n] /\ names[m] # NoFile => m = n

\* Only the file under the path gets doomed, and then somebody holds it.
DoomedAtHome ==
  \A f \in doomed : f = names[Src] /\ \E w \in Workers : Holds(w, f)

CopyKept ==
  \/ names[Src] # NoFile /\ names[Src] \notin doomed
  \/ \E t \in Temps : Kept(t)

IInv ==
  /\ TypeOK
  /\ HomeIsWhole
  /\ \A w \in Workers : HandlesOK(w) /\ CopyOK(w)
  /\ DistinctTemps
  /\ OneNamePerFile
  /\ DoomedAtHome
  /\ CopyKept

-----------------------------------------------------------------------------
(* Why a .wall file has one owner, as an inductive invariant.  It says     *)
(* nothing about what files hold, and so it holds whatever fails.           *)

HandleTypes ==
  /\ names \in [Names -> Files \union {NoFile}]
  /\ doomed \subseteq Files
  /\ pc \in [Workers -> PCs]
  /\ src \in [Workers -> Files \union {NoFile}]
  /\ new \in [Workers -> Files \union {NoFile}]
  /\ tmp \in [Workers -> Temps \union {NoName}]

\* No two workers hold the same new file.
DistinctCopies ==
  \A v, w \in Workers : v # w /\ new[v] # NoFile => new[v] # new[w]

\* A copy that is renamed, or failed to be, still has a name.
ClosingNamed ==
  \A w \in Workers : pc[w] = "closenew" => \E n \in Names : names[n] = new[w]

OwnInv ==
  /\ HandleTypes
  /\ \A w \in Workers : HandlesOK(w)
  /\ DistinctTemps
  /\ DistinctCopies
  /\ OneNamePerFile
  /\ DoomedAtHome
  /\ ClosingNamed

-----------------------------------------------------------------------------
(* Why a document is encrypted once, as an inductive invariant on top of the *)
(* one above.  It holds as long as headers can be read.                      *)

\* Files are records; nothing is said of what they hold.
FilesAreRecords ==
  file = [f \in Files |-> [head |-> file[f].head, code |-> file[f].code,
                           data |-> file[f].data]]

\* A worker that got past the header works on a plain file, or on an encrypted one,
\* as it was asked to.
HeadKnown(w) ==
  /\ pc[w] = "sethead" => op[w] = "encrypt"
  /\ pc[w] \in {"create", "sethead", "read", "write"} =>
       file[src[w]].head = IF op[w] = "encrypt" THEN 0 ELSE 1

HeadInv ==
  /\ OwnInv
  /\ op \in [Workers -> {"encrypt", "decrypt"}]
  /\ FilesAreRecords
  /\ \A f \in Files : file[f].head \in {0, 1}
  /\ \A w \in Workers : HeadKnown(w)

-----------------------------------------------------------------------------
(* Why what is left behind is whole: added to IInv it is inductive as long   *)
(* as, besides, no write fails and the machine does not stop.                *)

TransferCompletes == Faults \intersect {"read", "lost", "write", "crash"} = {}

\* A .wall file is whole, or a worker has still to finish or to remove it.
WholeOrOwned ==
  \A t \in Temps : names[t] # NoFile =>
    Complete(names[t]) \/ \E w \in Workers : Owns(w) /\ tmp[w] = t

-----------------------------------------------------------------------------
(* What the steps mean for the document.                                   *)

None == MaxLayers + 1

Doc == INSTANCE Document WITH
  MaxLayers <- MaxLayers,
  Gone <- None,
  home <- IF names[Src] # NoFile THEN file[names[Src]].code ELSE None,
  wall <- {file[names[t]].code : t \in {u \in Temps : names[u] # NoFile /\ Complete(names[u])}}

\* The driver's steps are steps of the abstract document, for which the last
\* readable copy is never given up.
KeepsDocument == Doc!Spec

=============================================================================
