-------------------------- MODULE PolicyFile_proofs --------------------------
(***************************************************************************)
(* Proof that, until a call fails or the service is killed, the file        *)
(* follows what is in memory and no successful request is lost, for any     *)
(* number of threads, fields and values.                                    *)
(***************************************************************************)
EXTENDS PolicyFile, TLAPS

USE PolicyAssumption DEF Kinds, Request, Roots, PCs

\* The service starts with what the file says (ServiceMain, ReadPolicy).
LEMMA InitInv == Init => SaveInv
BY DEF Init, SaveInv, TypeOK, SectionInv, Settled, Saving, Readable, Stored,
       SuccessIsSaved

\* A request that stores new in field f of the value and goes on to save it.
LEMMA StoreStep ==
  ASSUME SaveInv, NEW t \in Threads, NEW r \in Request,
         pc[t] = "idle", section = NoThread,
         request' = [request EXCEPT ![t] = r],
         root' = [root EXCEPT ![r.field] = r.new],
         Go(t, "save"),
         UNCHANGED <<disk, section, answer, failed>>
  PROVE  SaveInv'
<1> USE DEF SaveInv, Go
<1>1. TypeOK'
  BY DEF TypeOK
<1>2. SectionInv'
  BY DEF TypeOK, SectionInv
<1>3. Settled'
  BY DEF TypeOK, Settled, Saving
<1>4. Readable'
  BY DEF Readable
<1>5. Stored'
  BY DEF TypeOK, Stored
<1>6. SuccessIsSaved'
  BY DEF TypeOK, SuccessIsSaved, Stored
<1> QED BY <1>1, <1>2, <1>3, <1>4, <1>5, <1>6

\* A request that is refused.
LEMMA RefuseStep ==
  ASSUME SaveInv, NEW t \in Threads, NEW r \in Request,
         pc[t] = "idle",
         request' = [request EXCEPT ![t] = r],
         Reply(t, "failed"),
         UNCHANGED <<root, disk, section, failed>>
  PROVE  SaveInv'
<1> USE DEF SaveInv, Go, Reply
<1>1. TypeOK'
  BY DEF TypeOK
<1>2. SectionInv'
  BY DEF TypeOK, SectionInv
<1>3. Settled'
  BY DEF TypeOK, Settled, Saving
<1>4. Readable'
  BY DEF Readable
<1>5. Stored'
  BY DEF TypeOK, Stored
<1>6. SuccessIsSaved'
  BY DEF TypeOK, SuccessIsSaved, Stored
<1> QED BY <1>1, <1>2, <1>3, <1>4, <1>5, <1>6

\* A handler that changes a setting keeps the invariant.
LEMMA SetFieldStep ==
  ASSUME SaveInv, NEW t \in Threads, NEW f \in Fields, NEW new \in Values,
         SetField(t, f, new)
  PROVE  SaveInv'
<1> DEFINE r == [kind |-> "set", field |-> f, old |-> new, new |-> new]
<1>1. r \in Request /\ r.field = f /\ r.new = new
  OBVIOUS
<1> QED BY <1>1, StoreStep DEF SetField

\* So does one that changes a password, and one that refuses to.
LEMMA ChangePasswordStep ==
  ASSUME SaveInv, NEW t \in Threads, NEW f \in Fields,
         NEW old \in Values, NEW new \in Values,
         ChangePassword(t, f, old, new)
  PROVE  SaveInv'
<1> DEFINE r == [kind |-> "change", field |-> f, old |-> old, new |-> new]
<1>1. r \in Request /\ r.field = f /\ r.new = new
  OBVIOUS
<1>2. CASE root[f] = old
  BY <1>1, <1>2, StoreStep DEF ChangePassword
<1>3. CASE root[f] # old
  BY <1>1, <1>3, RefuseStep DEF ChangePassword
<1> QED BY <1>2, <1>3

\* Once a call has failed, only the types and the section are claimed.
LEMMA AfterFailure ==
  ASSUME TypeOK', SectionInv', failed'
  PROVE  SaveInv'
BY DEF SaveInv, Settled, Readable, Stored, SuccessIsSaved

\* A handler that replies and is done with the section keeps types in order.
LEMMA ReplyType ==
  ASSUME SaveInv, NEW t \in Threads, pc[t] \in {"save", "write"},
         NEW a \in {"success", "failed"}, Reply(t, a),
         disk' \in Roots \union {Torn},
         section' = IF pc[t] = "write" THEN NoThread ELSE section,
         failed' \in BOOLEAN,
         UNCHANGED <<root, request>>
  PROVE  TypeOK' /\ SectionInv'
<1> USE DEF SaveInv, Reply, Go
<1>1. TypeOK'
  BY DEF TypeOK, SectionInv
<1>2. SectionInv'
  BY DEF TypeOK, SectionInv
<1> QED BY <1>1, <1>2

\* Who opens the file holds the section until it is written.
LEMMA OpenFileStep ==
  ASSUME SaveInv, NEW t \in Threads, OpenFile(t)
  PROVE  SaveInv'
<1>1. CASE /\ disk' = Torn
           /\ section' = t
           /\ Go(t, "write")
           /\ UNCHANGED <<answer, failed>>
  <2> USE <1>1 DEF SaveInv, Go, OpenFile
  <2>1. TypeOK'
    BY DEF TypeOK
  <2>2. SectionInv'
    BY DEF TypeOK, SectionInv
  <2>3. Settled'
    BY DEF TypeOK, Settled, Saving
  <2>4. Readable'
    BY DEF Readable
  <2>5. Stored'
    BY DEF TypeOK, Stored
  <2>6. SuccessIsSaved'
    BY DEF TypeOK, SuccessIsSaved
  <2> QED BY <2>1, <2>2, <2>3, <2>4, <2>5, <2>6
<1>2. CASE Answer(t, FALSE) /\ failed' /\ UNCHANGED <<disk, section>>
  <2>1. \E a \in {"success", "failed"} : Reply(t, a)
    BY <1>2 DEF Answer
  <2>2. TypeOK' /\ SectionInv'
    BY <1>2, <2>1, ReplyType DEF OpenFile, SaveInv, TypeOK
  <2> QED BY <1>2, <2>2, AfterFailure
<1> QED BY <1>1, <1>2 DEF OpenFile

\* What is written is all that is in memory, so that it serves every request
\* that has been carried out.
LEMMA WriteFileStep ==
  ASSUME SaveInv, NEW t \in Threads, WriteFile(t)
  PROVE  SaveInv'
<1>1. CASE disk' = root /\ Reply(t, "success") /\ UNCHANGED failed
  <2> USE <1>1 DEF SaveInv, WriteFile
  <2>1. TypeOK' /\ SectionInv'
    BY ReplyType DEF TypeOK
  <2>2. Settled'
    BY DEF Settled
  <2>3. Readable'
    BY DEF TypeOK, Readable
  <2>4. Stored'
    BY DEF TypeOK, Stored, Reply, Go
  <2>5. SuccessIsSaved'
    BY DEF TypeOK, SuccessIsSaved, Stored, Reply, Go
  <2> QED BY <2>1, <2>2, <2>3, <2>4, <2>5
<1>2. CASE failed' /\ UNCHANGED disk /\ (Answer(t, FALSE) \/ Answer(t, TRUE))
  <2>1. \E a \in {"success", "failed"} : Reply(t, a)
    BY <1>2 DEF Answer
  <2>2. TypeOK' /\ SectionInv'
    BY <1>2, <2>1, ReplyType DEF WriteFile, SaveInv, TypeOK
  <2> QED BY <1>2, <2>2, AfterFailure
<1> QED BY <1>1, <1>2 DEF WriteFile, Answer

\* A restart starts from the file; nothing is claimed of what it lost.
LEMMA RestartStep ==
  ASSUME SaveInv, Restart
  PROVE  SaveInv'
<1> USE DEF SaveInv, Restart
<1>1. TypeOK'
  BY DEF TypeOK
<1>2. SectionInv'
  BY DEF TypeOK, SectionInv
<1>3. failed'
  OBVIOUS
<1> QED BY <1>1, <1>2, <1>3, AfterFailure

\* SaveInv is inductive (SavePolicy and the handlers that use it).
THEOREM Invariance == Spec => []SaveInv
<1>1. SaveInv /\ [Next]_vars => SaveInv'
  <2> SUFFICES ASSUME SaveInv, [Next]_vars PROVE SaveInv'
    OBVIOUS
  <2>1. CASE UNCHANGED vars
    BY <2>1 DEF vars, SaveInv, TypeOK, SectionInv, Settled, Saving, Readable, Stored,
                SuccessIsSaved
  <2>2. CASE Next
    BY <2>2, ChangePasswordStep, SetFieldStep, OpenFileStep, WriteFileStep,
       RestartStep DEF Next, Save
  <2> QED BY <2>1, <2>2
<1> QED BY InitInv, <1>1, PTL DEF Spec

\* When no save is on its way, the file is what is in memory.
THEOREM FileFollowsMemory == Spec => []Settled
<1>1. SaveInv => Settled
  BY DEF SaveInv
<1> QED BY <1>1, Invariance, PTL

\* No request that was answered with success is lost: the save of any thread
\* carries the changes of all.
THEOREM NoSuccessLost == Spec => []SuccessIsSaved
<1>1. SaveInv => SuccessIsSaved
  BY DEF SaveInv
<1> QED BY <1>1, Invariance, PTL
-----------------------------------------------------------------------------
(* Of two changes of a password that start from the same one, only one is   *)
(* successful, whatever calls fail and however often the service is killed. *)

\* A request stays what it is, and so does what was set by it.
LEMMA SetAgainStays ==
  ASSUME request \in [Threads -> Request \union {NoRequest}],
         NEW f \in Fields, NEW v \in Values, SetAgain(f, v),
         \/ UNCHANGED request
         \/ \E t \in Threads, r \in Request :
              request[t] = NoRequest /\ request' = [request EXCEPT ![t] = r]
  PROVE  SetAgain(f, v)'
BY DEF SetAgain

\* A request that stores new in field f of the value and goes on to save it.
LEMMA StoreWin ==
  ASSUME WinInv, TypeOK', SectionInv', NEW t \in Threads, NEW r \in Request,
         pc[t] = "idle", section = NoThread,
         r.kind = "change" => root[r.field] = r.old,
         request' = [request EXCEPT ![t] = r],
         root' = [root EXCEPT ![r.field] = r.new],
         Go(t, "save"),
         UNCHANGED <<disk, section, answer, failed>>
  PROVE  WinInv'
<1> USE DEF WinInv
<1>1. request[t] = NoRequest /\ answer[t] = "none" /\ request'[t] = r
  BY DEF TypeOK
<1>2. \A s \in Threads \ {t} : request'[s] = request[s] /\ (Changed(s)' <=> Changed(s))
  BY DEF TypeOK, Changed, Go
<1>3. WriterEmptied'
  BY DEF TypeOK, WriterEmptied, Go
<1>4. \A f \in Fields, v \in Values : SetAgain(f, v) => SetAgain(f, v)'
  BY <1>1, SetAgainStays DEF TypeOK
<1>5. r.field \in Fields /\ SetAgain(r.field, r.new)'
  BY <1>1 DEF SetAgain
<1>6. OldIsGone'
  <2> SUFFICES ASSUME NEW s \in Threads, Changed(s)'
               PROVE  OldGone(s)'
    BY DEF OldIsGone
  <2>1. CASE s = t
    BY <1>1, <1>5, <2>1 DEF TypeOK, OldGone, SetAgain
  <2>2. CASE s # t
    <3>1. Changed(s) /\ request'[s] = request[s] /\ request[s] \in Request
      BY <1>2, <2>2 DEF Changed, TypeOK
    <3>2. /\ root[request[s].field] # request[s].old
              \/ SetAgain(request[s].field, request[s].old)
          /\ answer[s] = "success" =>
               \/ disk = Torn
               \/ disk[request[s].field] # request[s].old
               \/ SetAgain(request[s].field, request[s].old)
      BY <3>1 DEF OldIsGone, OldGone
    <3>3. root'[request[s].field] \in {root[request[s].field], r.new}
          /\ (root'[request[s].field] # root[request[s].field] => r.field = request[s].field)
      BY <3>1 DEF TypeOK
    <3>4. request[s].field \in Fields /\ request[s].old \in Values
      BY <3>1
    <3> QED
      BY <1>4, <1>5, <3>1, <3>2, <3>3, <3>4 DEF OldGone, SetAgain
  <2> QED BY <2>1, <2>2
<1>7. OneChanged'
  <2> SUFFICES ASSUME NEW s \in Threads, NEW u \in Threads, s # u,
                      Changed(s)', Changed(u)', Same(s, u)'
               PROVE  SetAgain(request[u].field, request[u].old)'
    BY DEF OneChanged
  <2>1. CASE s # t /\ u # t
    <3>1. Changed(s) /\ Changed(u) /\ Same(s, u)
      BY <1>2, <2>1 DEF Same
    <3>2. request'[u] = request[u] /\ request[u] \in Request
      BY <1>2, <2>1, <3>1 DEF Changed, TypeOK
    <3>3. request[u].field \in Fields /\ request[u].old \in Values
      BY <3>2
    <3> QED BY <1>4, <3>1, <3>2, <3>3 DEF OneChanged, SetAgain
  <2>2. ASSUME NEW w \in Threads, w # t, Changed(w)', r.kind = "change",
               request'[w].field = r.field, request'[w].old = r.old
        PROVE  SetAgain(r.field, r.old)'
    <3>1. Changed(w) /\ request'[w] = request[w]
      BY <1>2, <2>2
    <3>2. SetAgain(r.field, r.old)
      BY <2>2, <3>1 DEF OldIsGone, OldGone
    <3> QED BY <1>4, <3>2
  <2>3. r.kind = "change" \/ (s # t /\ u # t)
    BY <1>1 DEF Changed
  <2> QED BY <1>1, <2>1, <2>2, <2>3 DEF Same, SetAgain
<1> QED BY <1>3, <1>6, <1>7

\* A request that is refused has stored nothing.
LEMMA RefuseWin ==
  ASSUME WinInv, TypeOK', SectionInv', NEW t \in Threads, NEW r \in Request,
         pc[t] = "idle",
         request' = [request EXCEPT ![t] = r],
         Reply(t, "failed"),
         UNCHANGED <<root, disk, section, failed>>
  PROVE  WinInv'
<1> USE DEF WinInv
<1>1. request[t] = NoRequest
  BY DEF TypeOK
<1>2. ~Changed(t)'
  BY DEF TypeOK, Changed, Go, Reply
<1>3. \A s \in Threads \ {t} :
        request'[s] = request[s] /\ answer'[s] = answer[s] /\ (Changed(s)' <=> Changed(s))
  BY DEF TypeOK, Changed, Go, Reply
<1>4. \A f \in Fields, v \in Values : SetAgain(f, v) => SetAgain(f, v)'
  BY <1>1, SetAgainStays DEF TypeOK
<1>5. \A s \in Threads : Changed(s) =>
        request[s].field \in Fields /\ request[s].old \in Values
  BY DEF TypeOK, Changed
<1>6. WriterEmptied'
  BY DEF TypeOK, WriterEmptied, Go, Reply
<1>7. OldIsGone'
  BY <1>2, <1>3, <1>4, <1>5 DEF OldIsGone, OldGone, SetAgain
<1>8. OneChanged'
  BY <1>2, <1>3, <1>4, <1>5 DEF OneChanged, Same, SetAgain
<1> QED BY <1>6, <1>7, <1>8

\* The steps of a save, and a restart, store nothing new.  The value in memory
\* stays or comes from the file, and the file stays, is empty or comes from memory.
LEMMA SaveWin ==
  ASSUME WinInv, TypeOK', SectionInv', WriterEmptied', UNCHANGED request,
         \A t \in Threads : Changed(t)' => Changed(t),
         \/ UNCHANGED root
         \/ /\ root' \in {disk, [f \in Fields |-> Unset]}
            /\ disk # Torn \/ root' # disk
            /\ \A t \in Threads : Changed(t)' => answer[t] = "success",
         \/ disk' \in {disk, Torn} /\ \A t \in Threads :
              Changed(t)' /\ answer'[t] = "success" => answer[t] = "success" \/ disk = Torn
         \/ disk' = root
  PROVE  WinInv'
<1> USE DEF WinInv
<1>1. \A f \in Fields, v \in Values : SetAgain(f, v) => SetAgain(f, v)'
  BY SetAgainStays DEF TypeOK
<1>2. OldIsGone'
  <2> SUFFICES ASSUME NEW s \in Threads, Changed(s)'
               PROVE  OldGone(s)'
    BY DEF OldIsGone
  <2> DEFINE f == request[s].field
             old == request[s].old
  <2>1. Changed(s) /\ request[s] \in Request /\ f \in Fields /\ old \in Values
    BY DEF Changed, TypeOK
  <2>2. /\ root[f] # old \/ SetAgain(f, old)
        /\ answer[s] = "success" => disk = Torn \/ disk[f] # old \/ SetAgain(f, old)
    BY <2>1 DEF OldIsGone, OldGone
  <2>3. root'[f] # old \/ SetAgain(f, old)
    BY <2>1, <2>2 DEF TypeOK
  <2>4. answer'[s] = "success" => disk' = Torn \/ disk'[f] # old \/ SetAgain(f, old)
    BY <2>1, <2>2
  <2> QED BY <1>1, <2>1, <2>3, <2>4 DEF OldGone, SetAgain
<1>3. OneChanged'
  <2> SUFFICES ASSUME NEW s \in Threads, NEW u \in Threads, s # u,
                      Changed(s)', Changed(u)', Same(s, u)'
               PROVE  SetAgain(request[u].field, request[u].old)'
    BY DEF OneChanged
  <2>1. Changed(s) /\ Changed(u) /\ Same(s, u) /\ request[u] \in Request
    BY DEF Same, Changed, TypeOK
  <2>2. request[u].field \in Fields /\ request[u].old \in Values
    BY <2>1
  <2> QED BY <1>1, <2>1, <2>2 DEF OneChanged, SetAgain
<1> QED BY <1>2, <1>3

\* What a reply may make of a change: one that has failed is none any more.
LEMMA ReplyWin ==
  ASSUME WinInv, NEW t \in Threads, NEW a \in {"success", "failed"},
         pc[t] \in {"save", "write"}, Reply(t, a), UNCHANGED request
  PROVE  /\ \A s \in Threads : Changed(s)' => Changed(s)
         /\ \A s \in Threads \ {t} : answer'[s] = answer[s] /\ pc'[s] = pc[s]
         /\ answer'[t] = a /\ pc'[t] = "done"
BY DEF WinInv, TypeOK, Changed, Reply, Go

LEMMA OpenFileWin ==
  ASSUME WinInv, TypeOK', SectionInv', NEW t \in Threads, OpenFile(t)
  PROVE  WinInv'
<1>1. CASE disk' = Torn /\ Go(t, "write") /\ UNCHANGED answer
  <2>1. WriterEmptied'
    BY <1>1 DEF WriterEmptied
  <2>2. \A s \in Threads : Changed(s)' => Changed(s)
    BY <1>1 DEF OpenFile, Changed, WinInv, TypeOK, Go
  <2> QED BY <1>1, <2>1, <2>2, SaveWin DEF OpenFile
<1>2. CASE Answer(t, FALSE) /\ UNCHANGED <<disk, section>>
  <2>0. WinInv /\ pc[t] = "save" /\ UNCHANGED <<root, request>>
    BY DEF OpenFile
  <2>1. CASE request[t].kind = "set"
    <3>1. Reply(t, "success")
      BY <1>2, <2>1 DEF Answer
    <3>2. (\A s \in Threads : Changed(s)' => Changed(s)) /\ ~Changed(t)'
          /\ (\A s \in Threads \ {t} : answer'[s] = answer[s] /\ pc'[s] = pc[s])
          /\ pc'[t] = "done"
      BY <2>0, <2>1, <3>1, ReplyWin DEF Changed
    <3>3. WriterEmptied'
      BY <1>2, <2>0, <3>2 DEF WinInv, WriterEmptied
    <3>4. \A s \in Threads :
            Changed(s)' /\ answer'[s] = "success" => answer[s] = "success"
      BY <3>2
    <3> QED BY <1>2, <2>0, <3>2, <3>3, <3>4, SaveWin
  <2>2. CASE request[t].kind # "set"
    <3>1. Reply(t, "failed")
      BY <1>2, <2>2 DEF Answer
    <3>2. (\A s \in Threads : Changed(s)' => Changed(s))
          /\ (\A s \in Threads \ {t} : answer'[s] = answer[s] /\ pc'[s] = pc[s])
          /\ pc'[t] = "done" /\ answer'[t] = "failed"
      BY <2>0, <3>1, ReplyWin
    <3>3. WriterEmptied'
      BY <1>2, <2>0, <3>2 DEF WinInv, WriterEmptied
    <3>4. \A s \in Threads :
            Changed(s)' /\ answer'[s] = "success" => answer[s] = "success"
      BY <3>2
    <3> QED BY <1>2, <2>0, <3>2, <3>3, <3>4, SaveWin
  <2> QED BY <2>1, <2>2
<1> QED BY <1>1, <1>2 DEF OpenFile

LEMMA WriteFileWin ==
  ASSUME WinInv, TypeOK', SectionInv', NEW t \in Threads, WriteFile(t)
  PROVE  WinInv'
<1>1. WinInv /\ pc[t] = "write" /\ UNCHANGED <<root, request>> /\ disk = Torn
      /\ (disk' = root \/ disk' = disk)
  BY DEF WriteFile, WinInv, WriterEmptied
<1>2. PICK a \in {"success", "failed"} : Reply(t, a)
  BY DEF WriteFile, Answer
<1>3. (\A s \in Threads : Changed(s)' => Changed(s))
      /\ (\A s \in Threads \ {t} : answer'[s] = answer[s] /\ pc'[s] = pc[s])
      /\ pc'[t] = "done"
  BY <1>1, <1>2, ReplyWin
<1>4. section = t /\ \A s \in Threads \ {t} : pc[s] # "write"
  BY <1>1 DEF WinInv, SectionInv
<1>5. WriterEmptied'
  BY <1>3, <1>4 DEF WriterEmptied
<1> QED BY <1>1, <1>3, <1>5, SaveWin

LEMMA RestartWin ==
  ASSUME WinInv, TypeOK', SectionInv', Restart
  PROVE  WinInv'
<1>1. \A s \in Threads : Changed(s)' => Changed(s) /\ answer[s] = "success"
  BY DEF Restart, Changed, WinInv, TypeOK
<1>2. WriterEmptied'
  BY DEF Restart, WinInv, WriterEmptied, TypeOK
<1> QED BY <1>1, <1>2, SaveWin DEF Restart

LEMMA NextWin ==
  ASSUME WinInv, TypeOK', SectionInv', [Next]_vars
  PROVE  WinInv'
<1>1. CASE UNCHANGED vars
  BY <1>1 DEF vars, WinInv, TypeOK, SectionInv, WriterEmptied, OldIsGone, OldGone,
              OneChanged, Changed, Same, SetAgain
<1>2. ASSUME NEW t \in Threads, NEW f \in Fields, NEW old \in Values,
             NEW new \in Values, ChangePassword(t, f, old, new)
      PROVE  WinInv'
  <2> DEFINE r == [kind |-> "change", field |-> f, old |-> old, new |-> new]
  <2>1. r \in Request /\ r.field = f /\ r.new = new /\ r.old = old
    OBVIOUS
  <2>2. CASE root[f] = old
    BY <1>2, <2>1, <2>2, StoreWin DEF ChangePassword
  <2>3. CASE root[f] # old
    BY <1>2, <2>1, <2>3, RefuseWin DEF ChangePassword
  <2> QED BY <2>2, <2>3
<1>3. ASSUME NEW t \in Threads, NEW f \in Fields, NEW new \in Values,
             SetField(t, f, new)
      PROVE  WinInv'
  <2> DEFINE r == [kind |-> "set", field |-> f, old |-> new, new |-> new]
  <2>1. r \in Request /\ r.field = f /\ r.new = new /\ r.kind # "change"
    OBVIOUS
  <2> QED BY <1>3, <2>1, StoreWin DEF SetField
<1> QED BY <1>1, <1>2, <1>3, OpenFileWin, WriteFileWin, RestartWin DEF Next, Save

\* A password is changed once by those who know it (OnClientChangePwd compares and
\* replaces in one critical section), with every fault of the model.
THEOREM OneChangeWins == Spec => []OneWinner
<1>1. Init => WinInv
  BY DEF Init, WinInv, TypeOK, SectionInv, WriterEmptied, OldIsGone, OneChanged, Changed
<1>2. SaveInv' /\ WinInv /\ [Next]_vars => WinInv'
  BY NextWin DEF SaveInv
<1>3. WinInv => OneWinner
  <2> SUFFICES ASSUME WinInv, NEW s \in Threads, NEW t \in Threads, s # t,
                      \A r \in {s, t} : answer[r] = "success" /\ request[r].kind = "change",
                      request[s].field = request[t].field,
                      request[s].old = request[t].old
               PROVE  SetAgain(request[t].field, request[t].old)
    BY DEF OneWinner, SetAgain
  <2>1. \A r \in {s, t} : request[r] # NoRequest
    BY DEF WinInv, TypeOK
  <2> QED BY <2>1 DEF WinInv, OneChanged, Changed, Same
<1> QED BY <1>1, <1>2, <1>3, Invariance, PTL DEF Spec
=============================================================================
