------------------------------ MODULE Sessions ------------------------------
(***************************************************************************)
(* The connections of the server service.  ServiceProc accepts them, the   *)
(* threads of the completion port (ServerThread) carry them on: RecvProc   *)
(* gathers a message, worker calls its handler, SendProc sends the reply   *)
(* and asks for the next message.  A connection has at most one I/O        *)
(* outstanding; one that has none is never heard of again.  Users who      *)
(* logged on are kept in gUserList, linked by the memory of their handles. *)
(* The model ends where the service uses memory that is not allocated.     *)
(*                                                                         *)
(* External: the peers, Winsock (WSARecv fails at once after a shutdown    *)
(* for reading) and the heap, which gives out freed memory again.          *)
(***************************************************************************)
EXTENDS AddressList

CONSTANTS
  Roles,       \* who may log on: a subset of AllRoles
  Resets       \* whether a send or a receive may fail at once

AllRoles == {"client", "ic", "server"}
UserRoles == {"client", "ic"}
NoRole == "none"

ASSUME SessionsAssumption == Roles \subseteq AllRoles /\ Resets \in BOOLEAN

VARIABLES
  io,          \* what each connection waits for, or its thread is about to do
  role,        \* dwUser
  stale        \* history: handles whose memory was freed while they were listed

vars == <<list, io, role, stale>>

Waits == {"reading", "replying", "refused"}   \* "refused": shut down for reading

TypeOK ==
  /\ ListTypeOK
  /\ io \in [Handles -> Waits \union {"free", "listing", "leaving", "closing", "none"}]
  /\ role \in [Handles -> AllRoles \union {NoRole}]
  /\ stale \subseteq Handles

-----------------------------------------------------------------------------

Await(h, what) == io' = [io EXCEPT ![h] = what]

\* A send or a receive is asked for.  One that fails at once completes nowhere:
\* neither RecvProc nor SendProc looks at the result.
Ask(h, what) ==
  \/ Await(h, what)
  \/ Resets /\ Await(h, "none")

\* ServiceProc: a connection is accepted, in zeroed memory, and its first message
\* asked for.
Accept(h) ==
  /\ io[h] = "free"
  /\ Ask(h, "reading")
  /\ Allocate(h)
  /\ UNCHANGED <<inside, at, broken, role, stale>>

\* A message gets the reply "failed", and the socket is shut down for reading.
Refuse(h) == Ask(h, "refused") /\ UNCHANGED role

\* Mutant of Logon: it need not be the first message.
LogonAgain(h, r, ok) ==
  /\ io[h] = "reading"
  /\ \/ /\ ok
        /\ role' = [role EXCEPT ![h] = r]
        /\ \/ r \in UserRoles /\ Await(h, "listing")
           \/ r \notin UserRoles /\ Ask(h, "replying")
     \/ ~ok /\ Refuse(h)
  /\ UNCHANGED <<list, stale>>

\* OnClientLogon, OnIcLogon, OnServerLogon.  ok: name and password are right.
Logon(h, r, ok) ==
  /\ io[h] = "reading"
  /\ \/ /\ ok /\ role[h] = NoRole
        /\ role' = [role EXCEPT ![h] = r]
        /\ \/ r \in UserRoles /\ Await(h, "listing")
           \/ r \notin UserRoles /\ Ask(h, "replying")
     \/ ~(ok /\ role[h] = NoRole) /\ Refuse(h)
  /\ UNCHANGED <<list, stale>>

\* ... users are put on the list before the reply is sent.
EnlistOn(h) ==
  /\ io[h] = "listing"
  /\ \/ (BeginSearch(h) \/ PassToInsert(h)) /\ UNCHANGED io
     \/ (LinkAtEnd(h) \/ LinkFound(h)) /\ Ask(h, "replying")
  /\ UNCHANGED <<role, stale>>

\* A command for those who logged on as r, answered, or refused when what it asks for
\* is not there (OnClientLoadAccess without a policy); without the role, refused, or
\* dropped: the socket is closed, and no I/O is left to tell
\* (OnServerGetFileAccessInfo and others).
Command(h, r) ==
  /\ io[h] = "reading"
  /\ \/ role[h] = r /\ Ask(h, "replying") /\ UNCHANGED role
     \/ (role[h] # r \/ r = "client") /\ Refuse(h)
     \/ role[h] # r /\ r = "server" /\ Await(h, "none") /\ UNCHANGED role
  /\ UNCHANGED <<list, stale>>

\* OnClientCancelLogon, OnIcCancelLogon, OnServerCancelLogon: the socket is closed.
CancelLogon(h) ==
  /\ io[h] = "reading"
  /\ Await(h, "none")
  /\ UNCHANGED <<list, role, stale>>

\* A command worker does not know or whose handler sends nothing
\* (OnServerStopService, OnIcGetAccess), or no memory for the message.
Ignore(h) ==
  /\ io[h] = "reading"
  /\ Await(h, "none")
  /\ UNCHANGED <<list, role, stale>>

\* SendProc: the reply is through and the next message asked for, which fails at once
\* on a socket that was shut down.
Sent(h) ==
  /\ \/ io[h] = "replying" /\ Ask(h, "reading")
     \/ io[h] = "refused" /\ Await(h, "none")
  /\ UNCHANGED <<list, role, stale>>

\* ServerThread: the outstanding I/O fails.  Only clients are taken off the list.
Lost(h) ==
  /\ io[h] \in Waits
  /\ \/ role[h] = "client" /\ Await(h, "leaving")
     \/ role[h] # "client" /\ Await(h, "closing")
  /\ UNCHANGED <<list, role, stale>>

Strike(h) ==
  /\ io[h] = "leaving"
  /\ \/ (BeginSearch(h) \/ PassToDelete(h)) /\ UNCHANGED io
     \/ (NothingToUnlink(h) \/ UnlinkFound(h)) /\ Await(h, "closing")
  /\ UNCHANGED <<role, stale>>

\* ... and the memory of its handle is freed.
Free(h) ==
  /\ io[h] = "closing"
  /\ Await(h, "free")
  /\ Deallocate(h)
  /\ role' = [role EXCEPT ![h] = NoRole]
  /\ stale' = stale \union ({h} \intersect Listed)
  /\ UNCHANGED <<inside, at, broken>>

Init ==
  /\ ListInit
  /\ io = [h \in Handles |-> "free"]
  /\ role = [h \in Handles |-> NoRole]
  /\ stale = {}

Handle(h) ==
  \/ \E r \in Roles, ok \in BOOLEAN : Logon(h, r, ok)
  \/ \E r \in AllRoles : Command(h, r)
  \/ CancelLogon(h)
  \/ Ignore(h)

\* A thread of the completion port in gUserList.section or waiting for it.
Enlisting(h) == EnlistOn(h) \/ Strike(h)

Next ==
  /\ ~broken
  /\ \E h \in Handles :
       Accept(h) \/ Handle(h) \/ Enlisting(h) \/ Sent(h) \/ Lost(h) \/ Free(h)

InSection == ~broken /\ \E h \in Handles : Enlisting(h)

\* A thread that can go on in the section, or into it, does.
Fairness == WF_vars(InSection)

Spec == Init /\ [][Next]_vars /\ Fairness

-----------------------------------------------------------------------------
(* Properties.                                                             *)

\* As long as no handle has been freed while it was linked (which NothingStale is about),
\* a user who is logged on and whose connection waits for I/O is on the list: whatever
\* the order in which others came and went, and although the list is not in order and
\* searches stop early (worker, ServerThread, UserList.cpp).
OnlineListed ==
  stale = {} =>
    \A h \in Handles : io[h] \in Waits /\ role[h] \in UserRoles => h \in Listed

\* ... and every node's successor leads back to it: nobody is linked twice ("by the
\* logic of the program no insertion happens twice", InserUserListNode).
LinksAgree ==
  stale = {} => \A q \in Listed \union {Header} : blink[flink[q]] = q

\* Nobody uses the memory of a node that is not allocated before a handle has been
\* freed while it was linked: no handle is freed under a search that has come to it
\* (ServerThread frees outside the section).
FreedUnused == broken => stale # {}

\* A search ends, and its thread leaves the section, unless a handle was freed while it
\* was linked (what makes rings the header is not on).
SearchEnds == inside # {} ~> inside = {} \/ stale # {}

\* A handle whose search finds nothing is not on the list when it is freed
\* ("greater than the node means that it does not exist", DeleteUserListNode).
NothingStale == stale = {}

-----------------------------------------------------------------------------
(* Why OnlineListed, LinksAgree and FreedUnused hold.  Until a handle is   *)
(* freed while it is listed, the links lead from one listed node to the    *)
(* next and back, and a search is at one of them; who is on the list is    *)
(* logged on and not about to be put on it.                                *)

PhaseOK ==
  /\ live = {h \in Handles : io[h] # "free"}
  /\ \A h \in Handles :
       /\ io[h] = "free" => role[h] = NoRole
       /\ io[h] = "listing" => role[h] \in UserRoles
       /\ io[h] = "leaving" => role[h] = "client"
  /\ \A h \in inside : io[h] \in {"listing", "leaving"} /\ inside = {h}

RingOK ==
  /\ \A q \in Listed \union {Header} :
       /\ flink[q] \in Listed \union {Header} /\ blink[flink[q]] = q
       /\ blink[q] \in Listed \union {Header} /\ flink[blink[q]] = q
  /\ \A h \in inside : at[h] \in Listed \union {Header}
  /\ ~broken

MembersOK ==
  \A h \in Handles :
    /\ h \in Listed => role[h] \in UserRoles /\ io[h] \notin {"free", "listing"}
    /\ io[h] \in Waits /\ role[h] \in UserRoles => h \in Listed

ListInv ==
  /\ TypeOK
  /\ PhaseOK
  /\ stale = {} => RingOK /\ MembersOK
=============================================================================
