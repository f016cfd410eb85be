----------------------------- MODULE PolicyFile -----------------------------
(***************************************************************************)
(* A policy file of the server service (FILEEVENT: safewall.pli, user.pli  *)
(* or icuser.pli): a JSON value in memory, a file that holds it, and a     *)
(* critical section.  The threads of the completion port answer requests   *)
(* that change a value and save the file, each in two critical sections:   *)
(* one for the change, one for the save (OnClientChangePwd,                *)
(* OnServerSetFileAccessInfo, SavePolicy).                                 *)
(* The service may be killed at any time and is started again.             *)
(***************************************************************************)
EXTENDS Naturals, FiniteSets

CONSTANTS
  Threads,     \* one for each request that is made
  Fields,      \* of the JSON value: passwords, suffix, isolation
  Values,
  Unset,       \* what a field reads as in an empty JSON value
  NoThread,
  NoRequest,
  Torn,        \* a file that is empty or cut off
  Faults       \* a subset of FaultKinds

\* "open": fopen fails.  "write": fwrite fails.  "flush": fwrite only fills the
\* buffer of the FILE, and the write at fclose fails.  "kill": the service stops
\* between two steps.
FaultKinds == {"open", "write", "flush", "kill"}

Kinds == {"change", "set"}
Request == [kind : Kinds, field : Fields, old : Values, new : Values]
Roots == [Fields -> Values \union {Unset}]

ASSUME PolicyAssumption ==
  /\ NoThread \notin Threads
  /\ Unset \notin Values
  /\ Torn \notin Roots
  /\ NoRequest \notin Request
  /\ Faults \subseteq FaultKinds

VARIABLES
  root,        \* the JSON value in memory
  disk,        \* the file
  section,     \* who is in the critical section for longer than one step
  pc,
  request,     \* what each thread was asked
  answer,      \* what it replied
  failed       \* history: a call has failed or the service has been killed

vars == <<root, disk, section, pc, request, answer, failed>>

PCs == {"idle", "save", "write", "done", "lost"}

TypeOK ==
  /\ root \in Roots
  /\ disk \in Roots \union {Torn}
  /\ section \in Threads \union {NoThread}
  /\ pc \in [Threads -> PCs]
  /\ request \in [Threads -> Request \union {NoRequest}]
  /\ answer \in [Threads -> {"none", "success", "failed"}]
  /\ failed \in BOOLEAN
  /\ \A t \in Threads : pc[t] \in {"idle", "save", "write"} => answer[t] = "none"
  /\ \A t \in Threads : pc[t] = "idle" <=> request[t] = NoRequest

-----------------------------------------------------------------------------

Go(t, to) == pc' = [pc EXCEPT ![t] = to]

\* The reply goes out and the request is done.
Reply(t, a) ==
  /\ answer' = [answer EXCEPT ![t] = a]
  /\ Go(t, "done")

\* OnServerSetFileAccessInfo, which worker calls for every setting: it is stored.
SetField(t, f, new) ==
  /\ pc[t] = "idle"
  /\ section = NoThread
  /\ request' = [request EXCEPT ![t] =
                   [kind |-> "set", field |-> f, old |-> new, new |-> new]]
  /\ root' = [root EXCEPT ![f] = new]
  /\ Go(t, "save")
  /\ UNCHANGED <<disk, section, answer, failed>>

\* Mutant of ChangePassword: the passwords are compared before the section is
\* entered, by a thread that another may overtake.
ChangePasswordUnlocked(t, f, old, new) ==
  /\ pc[t] = "idle"
  /\ section = NoThread
  /\ request' = [request EXCEPT ![t] =
                   [kind |-> "change", field |-> f, old |-> old, new |-> new]]
  /\ root' = [root EXCEPT ![f] = new]
  /\ Go(t, "save")
  /\ UNCHANGED <<disk, section, answer, failed>>

\* OnClientChangePwd: the old password is compared and replaced in one critical
\* section.
ChangePassword(t, f, old, new) ==
  /\ pc[t] = "idle"
  /\ section = NoThread
  /\ request' = [request EXCEPT ![t] =
                   [kind |-> "change", field |-> f, old |-> old, new |-> new]]
  /\ \/ /\ root[f] = old
        /\ root' = [root EXCEPT ![f] = new]
        /\ Go(t, "save")
        /\ UNCHANGED answer
     \/ /\ root[f] # old
        /\ Reply(t, "failed")
        /\ UNCHANGED root
  /\ UNCHANGED <<disk, section, failed>>

\* What a handler replies once SavePolicy has returned.  Only the change of a
\* password looks at its result.
Answer(t, saved) ==
  Reply(t, IF saved \/ request[t].kind = "set" THEN "success" ELSE "failed")

\* Mutant of OpenFile: the section is left out of SavePolicy.
OpenFileUnlocked(t) ==
  /\ pc[t] = "save"
  /\ disk' = Torn
  /\ Go(t, "write")
  /\ UNCHANGED <<root, section, request, answer, failed>>

\* SavePolicy: EnterCriticalSection, and fopen with "wb", which empties the file.
OpenFile(t) ==
  /\ pc[t] = "save"
  /\ section = NoThread
  /\ \/ /\ disk' = Torn
        /\ section' = t
        /\ Go(t, "write")
        /\ UNCHANGED <<answer, failed>>
     \/ /\ "open" \in Faults
        /\ Answer(t, FALSE)
        /\ failed' = TRUE
        /\ UNCHANGED <<disk, section>>
  /\ UNCHANGED <<root, request>>

\* Mutant of WriteFile: the section is not left on the path that fails.
WriteFileKeepsSection(t) ==
  /\ pc[t] = "write"
  /\ \/ disk' = root /\ section' = NoThread /\ Answer(t, TRUE) /\ UNCHANGED failed
     \/ /\ "write" \in Faults
        /\ Answer(t, FALSE)
        /\ failed' = TRUE
        /\ UNCHANGED <<disk, section>>
  /\ UNCHANGED <<root, request>>

\* Mutant of WriteFile: only the field of the request is written.
WriteFileOneField(t) ==
  /\ pc[t] = "write"
  /\ disk' = [f \in Fields |-> IF f = request[t].field THEN root[f] ELSE Unset]
  /\ section' = NoThread
  /\ Answer(t, TRUE)
  /\ UNCHANGED <<root, request, failed>>

\* SavePolicy: fwrite, fclose, LeaveCriticalSection.
WriteFile(t) ==
  /\ pc[t] = "write"
  /\ section' = NoThread
  /\ \/ /\ disk' = root
        /\ Answer(t, TRUE)
        /\ UNCHANGED failed
     \/ /\ \/ "write" \in Faults /\ Answer(t, FALSE)
           \/ "flush" \in Faults /\ Answer(t, TRUE)
        /\ failed' = TRUE
        /\ UNCHANGED disk
  /\ UNCHANGED <<root, request>>

\* The service is killed and started again.  ServiceMain drops the result of
\* ReadPolicy: a file that cannot be parsed leaves the value empty.
Restart ==
  /\ "kill" \in Faults
  /\ root' = IF disk = Torn THEN [f \in Fields |-> Unset] ELSE disk
  /\ section' = NoThread
  /\ failed' = TRUE
  /\ pc' = [t \in Threads |-> IF pc[t] \in {"save", "write"} THEN "lost" ELSE pc[t]]
  /\ UNCHANGED <<disk, request, answer>>

Init ==
  /\ root \in [Fields -> Values]
  /\ disk = root
  /\ section = NoThread
  /\ pc = [t \in Threads |-> "idle"]
  /\ request = [t \in Threads |-> NoRequest]
  /\ answer = [t \in Threads |-> "none"]
  /\ failed = FALSE

Save(t) == OpenFile(t) \/ WriteFile(t)

Next ==
  \/ \E t \in Threads, f \in Fields, old, new \in Values :
       ChangePassword(t, f, old, new)
  \/ \E t \in Threads, f \in Fields, new \in Values : SetField(t, f, new)
  \/ \E t \in Threads : Save(t)
  \/ Restart

\* A thread that is in a handler goes on; who waits for the section gets it in
\* the end.
Fairness == \A t \in Threads : SF_vars(OpenFile(t)) /\ WF_vars(WriteFile(t))

Spec == Init /\ [][Next]_vars /\ Fairness

-----------------------------------------------------------------------------
(* Properties.                                                             *)

Saving == \E t \in Threads : pc[t] \in {"save", "write"}

\* When no save is on its way the file is what is in memory, however the changes
\* of several threads fell between each other's changes and saves, until a call fails
\* or the service is killed.
Settled == ~failed /\ ~Saving => disk = root

\* A password is changed once by those who know the old one: of two requests
\* that give the same old password and both succeed, one must have had it set
\* back in between.
OneWinner ==
  \A s, t \in Threads :
    /\ s # t
    /\ \A r \in {s, t} : answer[r] = "success" /\ request[r].kind = "change"
    /\ request[s].field = request[t].field
    /\ request[s].old = request[t].old
    => \E r \in Threads :
         /\ request[r] # NoRequest
         /\ request[r].field = request[t].field
         /\ request[r].new = request[t].old

\* What was answered with success is in the file, or is being written to it
\* again, or has been replaced by another request for the same field, until a call
\* fails or the service is killed.
SuccessIsSaved ==
  \A t \in Threads : ~failed /\ answer[t] = "success" =>
    \/ disk = Torn /\ section # NoThread
    \/ disk # Torn /\ disk[request[t].field] = request[t].new
    \/ \E s \in Threads \ {t} :
         request[s] # NoRequest /\ request[s].field = request[t].field

\* The file can be read whenever the service has to read it again ("this function
\* is not allowed to fail", ReadPolicy).
Readable == failed \/ disk # Torn \/ section # NoThread

\* Every request that was taken up is answered, unless the service is killed.
Answered == \A t \in Threads : pc[t] = "save" ~> pc[t] \in {"done", "lost"}

-----------------------------------------------------------------------------
(* The inductive invariant.                                                *)

\* The section belongs to the one thread that writes, and what is not in the
\* file yet has somebody who will write it.
SectionInv == \A t \in Threads : pc[t] = "write" <=> section = t

\* What a request stored is in memory until a later one replaces it.
Stored ==
  \A t \in Threads :
    ~failed /\ (pc[t] \in {"save", "write"} \/ answer[t] = "success") =>
      /\ request[t] # NoRequest
      /\ \/ root[request[t].field] = request[t].new
         \/ \E s \in Threads \ {t} :
              request[s] # NoRequest /\ request[s].field = request[t].field

SaveInv == TypeOK /\ SectionInv /\ Settled /\ Readable /\ Stored /\ SuccessIsSaved

(***************************************************************************)
(* Why OneWinner holds, whatever fails: once a change is stored, neither   *)
(* the value in memory nor, once it is answered, the file has the old      *)
(* password, unless a request has set it again.                            *)
(***************************************************************************)

\* A request has made v the value of field f.
SetAgain(f, v) ==
  \E r \in Threads : request[r] # NoRequest /\ request[r].field = f /\ request[r].new = v

\* The change of a password by t is stored, and not lost by a restart.
Changed(t) ==
  /\ request[t] # NoRequest
  /\ request[t].kind = "change"
  /\ pc[t] \in {"save", "write"} \/ answer[t] = "success"

Same(s, t) ==
  request[s].field = request[t].field /\ request[s].old = request[t].old

OldGone(t) ==
  /\ \/ root[request[t].field] # request[t].old
     \/ SetAgain(request[t].field, request[t].old)
  /\ answer[t] = "success" =>
       \/ disk = Torn
       \/ disk[request[t].field] # request[t].old
       \/ SetAgain(request[t].field, request[t].old)

OldIsGone == \A t \in Threads : Changed(t) => OldGone(t)

OneChanged ==
  \A s, t \in Threads :
    s # t /\ Changed(s) /\ Changed(t) /\ Same(s, t) =>
      SetAgain(request[t].field, request[t].old)

WriterEmptied == \A t \in Threads : pc[t] = "write" => disk = Torn

WinInv == TypeOK /\ SectionInv /\ WriterEmptied /\ OldIsGone /\ OneChanged
=============================================================================
