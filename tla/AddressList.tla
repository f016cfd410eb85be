---------------------------- MODULE AddressList ----------------------------
(***************************************************************************)
(* The list of users of the server service (UserList.cpp): a ring of       *)
(* LIST_ENTRYs through the memory of the connections' handles and the      *)
(* list's header, changed and searched in its critical section.  Handles   *)
(* are compared by their addresses; the code means the ring to be in       *)
(* ascending order and stops a search early.  Memory is given out and      *)
(* freed outside the section.  SwFileList.cpp has the same routines.       *)
(***************************************************************************)
EXTENDS Naturals

CONSTANTS
  Handles,     \* addresses a PER_HANDLE_DATA may have
  Header       \* the address of gUserList.header

Null == 0
Nodes == Handles \union {Header}

ASSUME AddressAssumption ==
  /\ Handles \subseteq Nat \ {Null}
  /\ Header \in Nat \ (Handles \union {Null})

VARIABLES
  flink, blink, \* the links of each node; those of freed memory do not matter
  live,         \* handles whose memory is allocated
  inside,       \* handles whose threads are in the section
  at,           \* the node the search for each handle has come to
  broken        \* a thread has used the memory of a node that is not allocated

list == <<flink, blink, live, inside, at, broken>>

ListTypeOK ==
  /\ flink \in [Nodes -> Nodes \union {Null}]
  /\ blink \in [Nodes -> Nodes \union {Null}]
  /\ live \subseteq Handles
  /\ inside \subseteq Handles
  /\ at \in [Handles -> Nodes \union {Null}]
  /\ broken \in BOOLEAN

\* InitUserList.
ListInit ==
  /\ flink = [q \in Nodes |-> IF q = Header THEN Header ELSE Null]
  /\ blink = flink
  /\ live = {}
  /\ inside = {}
  /\ at = [h \in Handles |-> Null]
  /\ broken = FALSE

-----------------------------------------------------------------------------
(* Memory.                                                                 *)

Present(q) == q \in live \union {Header}

Fault == broken' = TRUE /\ UNCHANGED <<flink, blink>>

Allocate(h) ==
  /\ live' = live \union {h}
  /\ flink' = [flink EXCEPT ![h] = Null]
  /\ blink' = [blink EXCEPT ![h] = Null]

Deallocate(h) ==
  /\ live' = live \ {h}
  /\ flink' = [flink EXCEPT ![h] = Null]
  /\ blink' = [blink EXCEPT ![h] = Null]

-----------------------------------------------------------------------------
(* The section, and what is done in it.                                    *)

\* Mutant of Enter: it does not wait.
EnterAtOnce(h) == inside' = inside \union {h}

Enter(h) == inside = {} /\ inside' = {h}

Leave(h) == inside' = inside \ {h} /\ at' = [at EXCEPT ![h] = Null]

First == flink[Header]
Last == blink[Header]

\* The test insertion and deletion begin with.  It looks at the header only.
Outside(h) == First = Header \/ First > h \/ h > Last

\* The search goes on to the next node.
GoOn(h) ==
  /\ \/ Present(at[h]) /\ at' = [at EXCEPT ![h] = flink[at[h]]] /\ UNCHANGED broken
     \/ ~Present(at[h]) /\ broken' = TRUE /\ UNCHANGED at
  /\ UNCHANGED <<flink, blink, inside>>

BeginSearch(h) ==
  /\ Enter(h)
  /\ ~Outside(h)
  /\ at' = [at EXCEPT ![h] = First]
  /\ UNCHANGED <<flink, blink, live, broken>>

\* h is linked after p.
Link(h, p) ==
  \/ /\ Present(p) /\ Present(flink[p])
     /\ flink' = [flink EXCEPT ![h] = flink[p], ![p] = h]
     /\ blink' = [blink EXCEPT ![h] = p, ![flink[p]] = h]
     /\ UNCHANGED broken
  \/ ~(Present(p) /\ Present(flink[p])) /\ Fault

Unlink(h) ==
  \/ /\ Present(blink[h]) /\ Present(flink[h])
     /\ flink' = [flink EXCEPT ![blink[h]] = flink[h]]
     /\ blink' = [blink EXCEPT ![flink[h]] = blink[h]]
     /\ UNCHANGED broken
  \/ ~(Present(blink[h]) /\ Present(flink[h])) /\ Fault

(* InserUserListNode: begin, pass nodes that are less, link after the one  *)
(* that is not, and leave.                                                 *)

PassToInsert(h) ==
  /\ h \in inside /\ at[h] # Header /\ at[h] < h
  /\ GoOn(h)
  /\ UNCHANGED live

LinkAtEnd(h) ==
  /\ inside = {} /\ Outside(h)
  /\ Link(h, IF First = Header \/ First > h THEN Header ELSE Last)
  /\ UNCHANGED <<live, inside, at>>

LinkFound(h) ==
  /\ h \in inside
  /\ \/ (at[h] = Header \/ at[h] > h) /\ Link(h, at[h])
     \/ at[h] = h /\ UNCHANGED <<flink, blink, broken>>
  /\ Leave(h)
  /\ UNCHANGED live

(* DeleteUserListNode: begin, pass nodes that are greater, and leave at    *)
(* the handle, at a node that is less or at the end.                       *)

PassToDelete(h) ==
  /\ h \in inside /\ at[h] # Header /\ at[h] > h
  /\ GoOn(h)
  /\ UNCHANGED live

\* Mutant of NothingToUnlink: the section is not left.
StayInside(h) ==
  /\ Outside(h)
  /\ Enter(h)
  /\ UNCHANGED <<flink, blink, live, at, broken>>

NothingToUnlink(h) ==
  /\ inside = {} /\ Outside(h)
  /\ UNCHANGED list

\* Mutant of UnlinkFound: the node the search stopped at is unlinked, whichever it is.
UnlinkAny(h) ==
  /\ h \in inside
  /\ \/ at[h] \in Handles /\ at[h] <= h /\ Unlink(at[h])
     \/ at[h] \notin Handles /\ UNCHANGED <<flink, blink, broken>>
  /\ Leave(h)
  /\ UNCHANGED live

UnlinkFound(h) ==
  /\ h \in inside
  /\ \/ at[h] = h /\ Unlink(h)
     \/ (at[h] = Header \/ h > at[h]) /\ UNCHANGED <<flink, blink, broken>>
  /\ Leave(h)
  /\ UNCHANGED live

-----------------------------------------------------------------------------
(* What is on the list: what following the links from the header comes to. *)

Closed(S) == Header \in S /\ \A q \in S : flink[q] \in S \union {Null}

Listed == {h \in Handles : \A S \in SUBSET Nodes : Closed(S) => h \in S}
=============================================================================
