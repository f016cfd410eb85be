--------------------------- MODULE Sessions_proofs ---------------------------
(***************************************************************************)
(* Proofs about Sessions and the list it keeps, for any number of          *)
(* connections at any addresses: although the searches of the list stop    *)
(* too early and its nodes are in no order, until a handle is freed while  *)
(* it is linked the list is one ring, every user who is connected is on    *)
(* it, and no thread uses freed memory.                                    *)
(***************************************************************************)
EXTENDS Sessions, TLAPS

-----------------------------------------------------------------------------
(* What following links from the header comes to.                           *)

ClosedUnder(f, S) == Header \in S /\ \A q \in S : f[q] \in S \union {Null}

Reached(f) == {q \in Nodes : \A S \in SUBSET Nodes : ClosedUnder(f, S) => q \in S}

Links == [Nodes -> Nodes \union {Null}]

LEMMA HeaderIsNoHandle == Header \notin Handles /\ Null \notin Nodes /\ Header \in Nodes
BY AddressAssumption DEF Nodes, Null

LEMMA ReachedIsListed == Reached(flink) = Listed \union {Header}
BY HeaderIsNoHandle DEF Reached, Listed, Closed, ClosedUnder, Nodes

LEMMA ReachedIsClosed ==
  ASSUME NEW f \in Links
  PROVE  ClosedUnder(f, Reached(f)) /\ Reached(f) \in SUBSET Nodes
<1>1. Header \in Reached(f)
  BY HeaderIsNoHandle DEF Reached, ClosedUnder
<1>2. ASSUME NEW q \in Reached(f), f[q] # Null
      PROVE  f[q] \in Reached(f)
  <2>1. f[q] \in Nodes
    BY <1>2 DEF Links, Reached
  <2>2. ASSUME NEW S \in SUBSET Nodes, ClosedUnder(f, S)
        PROVE  f[q] \in S
    BY <1>2, <2>2 DEF Reached, ClosedUnder
  <2> QED
    BY <2>1, <2>2 DEF Reached
<1> QED
  BY <1>1, <1>2 DEF ClosedUnder, Reached

LEMMA ReachedIsLeast ==
  ASSUME NEW f, NEW S \in SUBSET Nodes, ClosedUnder(f, S)
  PROVE  Reached(f) \subseteq S
BY DEF Reached

\* Links of nodes that are not reached do not matter.
LEMMA ReachedOnlyMatters ==
  ASSUME NEW f \in Links, NEW g \in Links, \A q \in Reached(f) : g[q] = f[q]
  PROVE  Reached(g) = Reached(f)
<1>1. ClosedUnder(f, Reached(f)) /\ Reached(f) \in SUBSET Nodes
  BY ReachedIsClosed
<1>2. ClosedUnder(g, Reached(f))
  BY <1>1 DEF ClosedUnder
<1>3. Reached(g) \subseteq Reached(f)
  BY <1>1, <1>2, ReachedIsLeast
<1>4. ClosedUnder(g, Reached(g)) /\ Reached(g) \in SUBSET Nodes
  BY ReachedIsClosed
<1>5. ClosedUnder(f, Reached(g))
  BY <1>3, <1>4 DEF ClosedUnder
<1>6. Reached(f) \subseteq Reached(g)
  BY <1>4, <1>5, ReachedIsLeast
<1> QED
  BY <1>3, <1>6

\* A ring: every reached node leads to reached nodes, and they back to it.
Ring(f, b) ==
  \A q \in Reached(f) :
    /\ f[q] \in Reached(f) /\ b[f[q]] = q
    /\ b[q] \in Reached(f) /\ f[b[q]] = q

\* The links after h has been linked after p.
Forth(f, h, p) == [f EXCEPT ![h] = f[p], ![p] = h]
Back(f, b, h, p) == [b EXCEPT ![h] = p, ![f[p]] = h]

\* Linking a node that is not in the ring after one that is.
LEMMA LinkedRing ==
  ASSUME NEW f \in Links, NEW b \in Links, Ring(f, b),
         NEW p \in Reached(f), NEW h \in Handles, h \notin Reached(f),
         NEW g, g = Forth(f, h, p), NEW c, c = Back(f, b, h, p)
  PROVE  /\ g \in Links /\ c \in Links
         /\ Reached(g) = Reached(f) \union {h}
         /\ Ring(g, c)
<1> DEFINE R == Reached(f)
           T == Reached(g)
<1>1. ClosedUnder(f, R) /\ R \in SUBSET Nodes /\ f[p] \in R /\ p \in Nodes /\ h \in Nodes
      /\ h # p /\ f[p] # h /\ h # Null
  BY ReachedIsClosed, HeaderIsNoHandle DEF Ring, Nodes
<1>2. g \in Links /\ c \in Links
  BY <1>1 DEF Links, Forth, Back
<1>3. g[h] = f[p] /\ g[p] = h /\ \A q \in Nodes \ {h, p} : g[q] = f[q]
  BY <1>1 DEF Links, Forth
<1>4. c[h] = p /\ c[f[p]] = h /\ \A q \in Nodes \ {h, f[p]} : c[q] = b[q]
  BY <1>1 DEF Links, Back
<1> HIDE DEF R, T
<1>5. ClosedUnder(g, R \union {h})
  BY <1>1, <1>3 DEF ClosedUnder
<1>6. T \subseteq R \union {h}
  BY <1>1, <1>5, ReachedIsLeast DEF T
<1>7. ClosedUnder(g, T) /\ T \in SUBSET Nodes
  BY <1>2, ReachedIsClosed DEF T
<1>8. ClosedUnder(f, T \intersect R)
  <2>1. ASSUME NEW q \in T \intersect R, f[q] # Null
        PROVE  f[q] \in T \intersect R
    <3>1. f[q] \in R
      BY <1>1, <2>1 DEF ClosedUnder
    <3>2. CASE q = p
      <4>1. h \in T
        BY <1>1, <1>3, <1>7, <2>1, <3>2 DEF ClosedUnder
      <4>2. f[p] \in T
        BY <1>3, <1>7, <2>1, <3>2, <4>1 DEF ClosedUnder
      <4> QED
        BY <3>1, <3>2, <4>2
    <3>3. CASE q # p
      <4>1. q # h /\ q \in Nodes
        BY <1>1, <2>1 DEF R
      <4>2. g[q] = f[q]
        BY <1>3, <3>3, <4>1
      <4> QED
        BY <1>7, <2>1, <3>1, <4>2 DEF ClosedUnder
    <3> QED
      BY <3>2, <3>3
  <2> QED
    BY <1>1, <1>7, <2>1 DEF ClosedUnder
<1>9. R \subseteq T
  BY <1>1, <1>8, ReachedIsLeast DEF R
<1>10. h \in T
  BY <1>1, <1>3, <1>7, <1>9 DEF ClosedUnder, R
<1>11. T = R \union {h}
  BY <1>6, <1>9, <1>10
<1>12. ASSUME NEW q \in R \union {h}
       PROVE  g[q] \in R \union {h} /\ c[g[q]] = q
  <2>1. CASE q = p
    BY <1>1, <1>3, <1>4, <2>1
  <2>2. CASE q = h
    BY <1>1, <1>3, <1>4, <2>2 DEF R
  <2>3. CASE q # p /\ q # h
    <3>1. q \in R /\ q \in Nodes /\ g[q] = f[q]
      BY <1>1, <1>3, <1>12, <2>3
    <3>2. f[q] \in R /\ b[f[q]] = q /\ b[f[p]] = p
      BY <3>1 DEF Ring, R
    <3>3. f[q] # f[p] /\ f[q] # h /\ f[q] \in Nodes
      BY <1>1, <2>3, <3>2 DEF R
    <3> QED
      BY <1>4, <3>1, <3>2, <3>3
  <2> QED
    BY <2>1, <2>2, <2>3
<1>13. ASSUME NEW q \in R \union {h}
       PROVE  c[q] \in R \union {h} /\ g[c[q]] = q
  <2>1. CASE q = f[p]
    BY <1>3, <1>4, <2>1
  <2>2. CASE q = h
    BY <1>3, <1>4, <2>2 DEF R
  <2>3. CASE q # f[p] /\ q # h
    <3>1. q \in R /\ q \in Nodes /\ c[q] = b[q]
      BY <1>1, <1>4, <1>13, <2>3
    <3>2. b[q] \in R /\ f[b[q]] = q
      BY <3>1 DEF Ring, R
    <3>3. b[q] # p /\ b[q] # h /\ b[q] \in Nodes
      BY <1>1, <2>3, <3>2 DEF R
    <3> QED
      BY <1>3, <3>1, <3>2, <3>3
  <2> QED
    BY <2>1, <2>2, <2>3
<1> QED
  BY <1>2, <1>11, <1>12, <1>13 DEF Ring, T, R

\* The links after h has been unlinked.
CutForth(f, b, h) == [f EXCEPT ![b[h]] = f[h]]
CutBack(f, b, h) == [b EXCEPT ![f[h]] = b[h]]

\* Unlinking a node of the ring, from where its links say.
LEMMA UnlinkedRing ==
  ASSUME NEW f \in Links, NEW b \in Links, Ring(f, b),
         NEW h \in Handles, h \in Reached(f),
         NEW g, g = CutForth(f, b, h), NEW c, c = CutBack(f, b, h)
  PROVE  /\ b[h] \in Reached(f) /\ f[h] \in Reached(f)
         /\ g \in Links /\ c \in Links
         /\ Reached(g) = Reached(f) \ {h}
         /\ Ring(g, c)
<1> DEFINE R == Reached(f)
           T == Reached(g)
           p == b[h]
<1>1. ClosedUnder(f, R) /\ R \in SUBSET Nodes /\ h # Header /\ f[h] \in R
  BY ReachedIsClosed, HeaderIsNoHandle DEF Ring
<1>2. PICK q \in R \ {h} : f[q] = h
  <2>1. SUFFICES ASSUME \A q \in R \ {h} : f[q] # h
                 PROVE  FALSE
    OBVIOUS
  <2>2. ClosedUnder(f, R \ {h})
    BY <1>1, <2>1 DEF ClosedUnder
  <2>3. R \subseteq R \ {h}
    BY <1>1, <2>2, ReachedIsLeast
  <2> QED
    BY <2>3
<1>3. p = q /\ p \in R /\ p # h /\ f[p] = h
  BY <1>2 DEF Ring
<1>4. f[h] # h
  BY <1>1, <1>3 DEF Ring
<1>5. g \in Links /\ c \in Links
  BY <1>1, <1>3 DEF Links, CutForth, CutBack
<1>6. g[p] = f[h] /\ (\A r \in Nodes \ {p} : g[r] = f[r])
      /\ c[f[h]] = p /\ (\A r \in Nodes \ {f[h]} : c[r] = b[r])
  BY <1>1, <1>3 DEF Links, CutForth, CutBack
<1>7. \A r \in R \ {p} : f[r] # h
  BY <1>3 DEF Ring
<1> HIDE DEF R, T, p
<1>8. ClosedUnder(g, R \ {h})
  BY <1>1, <1>4, <1>6, <1>7 DEF ClosedUnder
<1>9. T \subseteq R \ {h}
  BY <1>1, <1>8, ReachedIsLeast DEF T
<1>10. ClosedUnder(g, T) /\ T \in SUBSET Nodes
  BY <1>5, ReachedIsClosed DEF T
<1>11. p \in T
  <2>1. SUFFICES ASSUME p \notin T
                 PROVE  FALSE
    OBVIOUS
  <2>2. ClosedUnder(f, T)
    BY <1>6, <1>10, <2>1 DEF ClosedUnder
  <2>3. R \subseteq T
    BY <1>10, <2>2, ReachedIsLeast DEF R
  <2> QED
    BY <1>3, <2>1, <2>3
<1>12. ClosedUnder(f, T \union {h})
  BY <1>3, <1>6, <1>10, <1>11 DEF ClosedUnder
<1>13. R \subseteq T \union {h}
  BY <1>1, <1>10, <1>12, ReachedIsLeast DEF R, Nodes
<1>14. T = R \ {h}
  BY <1>9, <1>13
<1>15. ASSUME NEW r \in R \ {h}
       PROVE  g[r] \in R \ {h} /\ c[g[r]] = r
  <2>1. CASE r = p
    BY <1>1, <1>4, <1>6, <2>1
  <2>2. CASE r # p
    <3>1. g[r] = f[r] /\ f[r] \in R /\ f[r] # h /\ f[r] \in Nodes
      BY <1>1, <1>6, <1>7, <1>15, <2>2 DEF Ring, R
    <3>2. f[r] # f[h] /\ b[f[r]] = r
      BY <1>1, <1>15 DEF Ring, R
    <3> QED
      BY <1>6, <3>1, <3>2
  <2> QED
    BY <2>1, <2>2
<1>16. ASSUME NEW r \in R \ {h}
       PROVE  c[r] \in R \ {h} /\ g[c[r]] = r
  <2>1. CASE r = f[h]
    BY <1>3, <1>6, <2>1
  <2>2. CASE r # f[h]
    <3>1. c[r] = b[r] /\ b[r] \in R /\ b[r] \in Nodes /\ f[b[r]] = r
      BY <1>1, <1>6, <1>16, <2>2 DEF Ring, R
    <3>2. b[r] # h /\ b[r] # p
      BY <1>3, <1>16, <2>2, <3>1
    <3> QED
      BY <1>6, <3>1, <3>2
  <2> QED
    BY <2>1, <2>2
<1> QED
  BY <1>1, <1>3, <1>5, <1>14, <1>15, <1>16 DEF Ring, T, R, p

\* RingOK in these terms.
LEMMA RingOKIsRing ==
  RingOK <=> /\ Ring(flink, blink)
             /\ \A h \in inside : at[h] \in Reached(flink)
             /\ ~broken
BY ReachedIsListed DEF RingOK, Ring

-----------------------------------------------------------------------------
(* What the steps of a search and its end do to the list.                   *)

Alone == \A g \in inside : inside = {g}

InsertStep(h) == BeginSearch(h) \/ PassToInsert(h) \/ LinkAtEnd(h) \/ LinkFound(h)
DeleteStep(h) == BeginSearch(h) \/ PassToDelete(h) \/ NothingToUnlink(h) \/ UnlinkFound(h)

\* Whatever the links have become, they stay links.
LEMMA ListStepTypes ==
  ASSUME ListTypeOK, Alone, NEW h \in Handles, InsertStep(h) \/ DeleteStep(h)
  PROVE  /\ ListTypeOK' /\ live' = live
         /\ inside \in {{}, {h}} /\ inside' \in {{}, {h}}
<1> USE DEF ListTypeOK, Alone
<1>0. h \in Nodes /\ Null \notin Handles /\ (\A q : Present(q) => q \in Nodes)
  BY AddressAssumption DEF Nodes, Present
<1>1. CASE BeginSearch(h)
  <2>1. First \in Nodes \union {Null}
    BY DEF First, Nodes
  <2> QED
    BY <1>0, <1>1, <2>1 DEF BeginSearch, Enter
<1>2. CASE PassToInsert(h) \/ PassToDelete(h)
  <2>1. h \in inside /\ UNCHANGED <<flink, blink, inside, live>> /\ GoOn(h)
    BY <1>2 DEF PassToInsert, PassToDelete, GoOn
  <2> QED
    BY <1>0, <2>1 DEF GoOn
<1>3. ASSUME NEW p, Link(h, p)
      PROVE  /\ flink' \in [Nodes -> Nodes \union {Null}] /\ broken' \in BOOLEAN
             /\ blink' \in [Nodes -> Nodes \union {Null}]
  <2>1. CASE Present(p) /\ Present(flink[p])
    <3>1. p \in Nodes /\ flink[p] \in Nodes
      BY <1>0, <2>1
    <3>2. /\ flink' = [flink EXCEPT ![h] = flink[p], ![p] = h]
          /\ blink' = [blink EXCEPT ![h] = p, ![flink[p]] = h]
          /\ UNCHANGED broken
      BY <1>3, <2>1 DEF Link
    <3> QED
      BY <1>0, <3>1, <3>2
  <2>2. CASE ~(Present(p) /\ Present(flink[p]))
    BY <1>3, <2>2 DEF Link, Fault
  <2> QED
    BY <2>1, <2>2
<1>4. CASE LinkAtEnd(h)
  BY <1>3, <1>4 DEF LinkAtEnd
<1>5. CASE LinkFound(h)
  BY <1>3, <1>5 DEF LinkFound, Leave
<1>6. CASE NothingToUnlink(h)
  BY <1>6 DEF NothingToUnlink, list
<1>7. CASE UnlinkFound(h)
  <2>1. /\ flink' \in [Nodes -> Nodes \union {Null}] /\ broken' \in BOOLEAN
        /\ blink' \in [Nodes -> Nodes \union {Null}]
    BY <1>0, <1>7 DEF UnlinkFound, Unlink, Fault
  <2> QED
    BY <1>7, <2>1 DEF UnlinkFound, Leave
<1> QED
  BY <1>1, <1>2, <1>4, <1>5, <1>6, <1>7 DEF InsertStep, DeleteStep

LEMMA ListedReached ==
  ASSUME NEW h \in Handles
  PROVE  (h \in Listed <=> h \in Reached(flink)) /\ (h \in Listed' <=> h \in Reached(flink'))
<1>1. Reached(flink') = Listed' \union {Header}
  BY HeaderIsNoHandle DEF Reached, Listed, Closed, ClosedUnder, Nodes
<1> QED
  BY <1>1, ReachedIsListed, HeaderIsNoHandle

\* A thread that begins to search, or goes on, comes to a node of the ring.
LEMMA SearchStaysInRing ==
  ASSUME ListTypeOK, Alone, RingOK, Listed \subseteq live, NEW h \in Handles,
         BeginSearch(h) \/ PassToInsert(h) \/ PassToDelete(h)
  PROVE  RingOK' /\ Listed' = Listed
<1>1. UNCHANGED <<flink, blink>>
  BY DEF BeginSearch, PassToInsert, PassToDelete, GoOn
<1>2. Listed' = Listed
  BY <1>1 DEF Listed, Closed
<1>3. CASE BeginSearch(h)
  <2>1. First \in Listed \union {Header} /\ h # Null
    BY AddressAssumption DEF RingOK, First
  <2> QED
    BY <1>1, <1>2, <1>3, <2>1 DEF BeginSearch, Enter, RingOK, ListTypeOK
<1>4. CASE PassToInsert(h) \/ PassToDelete(h)
  <2>1. inside = {h} /\ inside' = {h} /\ GoOn(h) /\ h # Null
    BY <1>4, AddressAssumption DEF PassToInsert, PassToDelete, GoOn, Alone
  <2>2. at[h] \in Listed \union {Header} /\ Present(at[h])
    BY <2>1 DEF RingOK, Present
  <2>3. at'[h] = flink[at[h]] /\ UNCHANGED broken
    BY <2>1, <2>2 DEF GoOn, ListTypeOK
  <2> QED
    BY <1>1, <1>2, <2>1, <2>2, <2>3 DEF RingOK
<1> QED
  BY <1>3, <1>4

\* An insertion that ends has put one more node into the ring, next to one of it.
LEMMA InsertionKeepsRing ==
  ASSUME ListTypeOK, Alone, RingOK, Listed \subseteq live, NEW h \in Handles, h \notin Listed,
         LinkAtEnd(h) \/ LinkFound(h)
  PROVE  RingOK' /\ Listed' = Listed \union {h}
<1>0. flink \in Links /\ blink \in Links /\ h # Null /\ Header \notin Handles
  BY AddressAssumption DEF ListTypeOK, Links
<1>1. Ring(flink, blink) /\ ~broken /\ h \notin Reached(flink)
      /\ \A q \in Reached(flink) : Present(q)
  BY <1>0, RingOKIsRing, ReachedIsListed, ListedReached DEF Present
<1>2. PICK p \in Reached(flink) : Link(h, p)
  <2>1. CASE LinkAtEnd(h)
    <3>1. First \in Reached(flink) /\ Header \in Reached(flink)
      BY ReachedIsListed DEF RingOK, First
    <3>2. Last \in Reached(flink)
      BY <1>1, <3>1 DEF Ring, Last
    <3> QED
      BY <2>1, <3>1, <3>2 DEF LinkAtEnd
  <2>2. CASE LinkFound(h)
    BY <1>0, <1>1, <2>2, RingOKIsRing DEF LinkFound
  <2> QED
    BY <2>1, <2>2
<1>3. Present(p) /\ Present(flink[p]) /\ flink[p] \in Reached(flink)
  BY <1>1, <1>2 DEF Ring
<1>4. /\ flink' = [flink EXCEPT ![h] = flink[p], ![p] = h]
      /\ blink' = [blink EXCEPT ![h] = p, ![flink[p]] = h]
      /\ ~broken'
  BY <1>1, <1>2, <1>3 DEF Link
<1>5. Reached(flink') = Reached(flink) \union {h} /\ Ring(flink', blink')
  <2>1. flink' = Forth(flink, h, p) /\ blink' = Back(flink, blink, h, p)
    BY <1>4 DEF Forth, Back
  <2> QED
    BY <1>0, <1>1, <2>1, LinkedRing
<1>6. Reached(flink') = Listed' \union {Header} /\ Listed' \subseteq Handles
      /\ Listed \subseteq Handles
  BY ReachedIsListed, HeaderIsNoHandle DEF Reached, Listed, Closed, ClosedUnder, Nodes
<1>7. Listed' = Listed \union {h}
  BY <1>0, <1>5, <1>6, ReachedIsListed
<1>8. inside' = {}
  BY DEF LinkAtEnd, LinkFound, Leave, Alone
<1> QED
  BY <1>4, <1>5, <1>6, <1>7, <1>8 DEF RingOK, Ring

\* A deletion that ends has taken at most its own node out of the ring.
LEMMA DeletionKeepsRing ==
  ASSUME ListTypeOK, Alone, RingOK, Listed \subseteq live, NEW h \in Handles,
         NothingToUnlink(h) \/ UnlinkFound(h)
  PROVE  /\ RingOK' /\ (Listed' = Listed \/ Listed' = Listed \ {h})
<1>0. flink \in Links /\ blink \in Links /\ h # Null /\ Header \notin Handles
  BY AddressAssumption DEF ListTypeOK, Links
<1>1. CASE UNCHANGED <<flink, blink, broken>>
  <2>1. Listed' = Listed
    BY <1>1 DEF Listed, Closed
  <2>2. inside' = {} \/ UNCHANGED <<inside, at>>
    BY DEF NothingToUnlink, UnlinkFound, Leave, list, Alone
  <2> QED
    BY <1>1, <2>1, <2>2 DEF RingOK
<1>2. CASE ~UNCHANGED <<flink, blink, broken>>
  <2>1. h \in inside /\ at[h] = h /\ Unlink(h) /\ Leave(h)
    BY <1>2 DEF NothingToUnlink, UnlinkFound, list
  <2>2. Ring(flink, blink) /\ ~broken /\ h \in Reached(flink)
        /\ \A q \in Reached(flink) : Present(q)
    BY <1>0, <2>1, RingOKIsRing, ReachedIsListed DEF Present
  <2>3. Present(blink[h]) /\ Present(flink[h])
    BY <2>2 DEF Ring
  <2>4. flink' = CutForth(flink, blink, h) /\ blink' = CutBack(flink, blink, h) /\ ~broken'
    BY <2>1, <2>2, <2>3 DEF Unlink, CutForth, CutBack
  <2>5. Reached(flink') = Reached(flink) \ {h} /\ Ring(flink', blink')
    BY <1>0, <2>2, <2>4, UnlinkedRing
  <2>6. Reached(flink') = Listed' \union {Header} /\ Listed' \subseteq Handles
        /\ Listed \subseteq Handles
    BY ReachedIsListed, HeaderIsNoHandle DEF Reached, Listed, Closed, ClosedUnder, Nodes
  <2>7. Listed' = Listed \ {h}
    BY <1>0, <2>5, <2>6, ReachedIsListed
  <2> QED
    BY <2>1, <2>4, <2>5, <2>6, <2>7 DEF RingOK, Ring, Leave, Alone
<1> QED
  BY <1>1, <1>2

\* Memory given out or freed outside the ring leaves the ring as it is.
LEMMA MemoryKeepsRing ==
  ASSUME ListTypeOK, RingOK, NEW h \in Handles, h \notin Listed,
         Allocate(h) \/ Deallocate(h), UNCHANGED <<inside, at, broken>>
  PROVE  RingOK' /\ Listed' = Listed
<1>0. flink \in Links /\ blink \in Links /\ h # Header /\ h \notin Reached(flink)
      /\ h \in Nodes
  BY ListedReached, HeaderIsNoHandle DEF ListTypeOK, Links, Nodes
<1>1. /\ flink' = [flink EXCEPT ![h] = Null] /\ blink' = [blink EXCEPT ![h] = Null]
  BY DEF Allocate, Deallocate
<1>2. flink' \in Links /\ \A q \in Reached(flink) : flink'[q] = flink[q] /\ blink'[q] = blink[q]
  BY <1>0, <1>1 DEF Links, Reached
<1>3. Reached(flink') = Reached(flink)
  BY <1>0, <1>2, ReachedOnlyMatters
<1>4. Reached(flink') = Listed' \union {Header} /\ Listed' \subseteq Handles
      /\ Listed \subseteq Handles
  BY ReachedIsListed, HeaderIsNoHandle DEF Reached, Listed, Closed, ClosedUnder, Nodes
<1>5. Listed' = Listed
  BY <1>3, <1>4, ReachedIsListed, HeaderIsNoHandle
<1>6. Ring(flink, blink)
  BY RingOKIsRing
<1>7. Ring(flink', blink')
  BY <1>2, <1>3, <1>6 DEF Ring
<1> QED
  BY <1>3, <1>4, <1>5, <1>7 DEF RingOK, Ring

-----------------------------------------------------------------------------
(* The connections.  ListInv is inductive.                                  *)

LEMMA InitListInv == Init => ListInv
<1> SUFFICES ASSUME Init
             PROVE  ListInv
  OBVIOUS
<1>1. flink[Header] = Header /\ blink = flink /\ inside = {} /\ live = {} /\ ~broken
  BY HeaderIsNoHandle DEF Init, ListInit
<1>2. Listed = {}
  <2>1. Closed({Header}) /\ {Header} \in SUBSET Nodes
    BY <1>1, HeaderIsNoHandle DEF Closed
  <2> QED
    BY <2>1, HeaderIsNoHandle DEF Listed
<1>3. TypeOK
  BY HeaderIsNoHandle DEF Init, ListInit, TypeOK, ListTypeOK
<1>4. PhaseOK
  BY <1>1 DEF Init, PhaseOK
<1>5. RingOK
  BY <1>1, <1>2 DEF RingOK
<1>6. MembersOK
  BY <1>2 DEF Init, MembersOK, Waits
<1> QED
  BY <1>3, <1>4, <1>5, <1>6 DEF ListInv

\* The steps that leave the list alone: those of a connection that waits for I/O.
LEMMA QuietListInv ==
  ASSUME ListInv, NEW h \in Handles, io[h] \in Waits, UNCHANGED <<list, stale>>,
         NEW what, Await(h, what), NEW r, role' = [role EXCEPT ![h] = r],
         \/ /\ r = role[h] /\ what \in Waits \union {"leaving", "closing", "none"}
            /\ what = "leaving" => r = "client"
         \/ /\ role[h] = NoRole /\ r \in UserRoles /\ what = "listing"
         \/ /\ role[h] = NoRole /\ r \in AllRoles \ UserRoles
            /\ what \in Waits \union {"none"}
  PROVE  ListInv'
<1>1. UNCHANGED <<flink, blink, live, inside, at, broken, stale>> /\ Listed' = Listed
  BY DEF list, Listed, Closed
<1>2. /\ io' \in [Handles -> Waits \union {"free", "listing", "leaving", "closing", "none"}]
      /\ role' \in [Handles -> AllRoles \union {NoRole}]
      /\ io'[h] = what /\ role'[h] = r
      /\ \A g \in Handles \ {h} : io'[g] = io[g] /\ role'[g] = role[g]
  BY DEF ListInv, TypeOK, Await, UserRoles, AllRoles
<1>3. h \notin inside /\ what # "free" /\ io[h] # "free"
  BY AddressAssumption DEF ListInv, PhaseOK, Waits
<1>4. TypeOK'
  BY <1>1, <1>2 DEF ListInv, TypeOK, ListTypeOK
<1>5. PhaseOK'
  <2>1. inside \subseteq Handles
    BY DEF ListInv, TypeOK, ListTypeOK
  <2> QED
    BY <1>1, <1>2, <1>3, <2>1 DEF ListInv, PhaseOK, Waits
<1>6. ASSUME stale' = {}
      PROVE  RingOK' /\ MembersOK'
  <2>1. RingOK /\ MembersOK
    BY <1>1, <1>6 DEF ListInv
  <2>2. RingOK'
    BY <1>1, <2>1 DEF RingOK
  <2>3. h \in Listed => role[h] \in UserRoles
    BY <2>1 DEF MembersOK
  <2>4. role[h] \in UserRoles => h \in Listed
    BY <2>1 DEF MembersOK
  <2>5. NoRole \notin UserRoles
    BY DEF NoRole, UserRoles
  <2>6. MembersOK'
    BY <1>1, <1>2, <2>1, <2>3, <2>4, <2>5 DEF MembersOK, Waits
  <2> QED
    BY <2>2, <2>6
<1> QED
  BY <1>4, <1>5, <1>6 DEF ListInv

LEMMA HandleListInv ==
  ASSUME ListInv, NEW h \in Handles, Handle(h) \/ Sent(h) \/ Lost(h)
  PROVE  ListInv'
<1>0. role \in [Handles -> AllRoles \union {NoRole}] /\ role = [role EXCEPT ![h] = role[h]]
  BY DEF ListInv, TypeOK
<1>1. ASSUME NEW what, Ask(h, what)
      PROVE  \E w \in {what, "none"} : Await(h, w)
  BY <1>1 DEF Ask
<1>2. ASSUME NEW r \in Roles, NEW ok \in BOOLEAN, Logon(h, r, ok)
      PROVE  ListInv'
  <2>1. io[h] \in Waits /\ UNCHANGED <<list, stale>> /\ r \in AllRoles
    BY <1>2, SessionsAssumption DEF Logon, Waits
  <2>2. CASE Refuse(h)
    <3>1. PICK w \in {"refused", "none"} : Await(h, w)
      BY <1>1, <2>2 DEF Refuse
    <3> QED
      BY <1>0, <2>1, <2>2, <3>1, QuietListInv DEF Refuse, Waits
  <2>3. CASE ~Refuse(h)
    <3>1. role[h] = NoRole /\ role' = [role EXCEPT ![h] = r]
      BY <1>2, <2>3 DEF Logon
    <3>2. CASE r \in UserRoles /\ Await(h, "listing")
      BY <2>1, <3>1, <3>2, QuietListInv
    <3>3. CASE r \notin UserRoles /\ Ask(h, "replying")
      <4>1. PICK w \in {"replying", "none"} : Await(h, w)
        BY <1>1, <3>3
      <4> QED
        BY <2>1, <3>1, <3>3, <4>1, QuietListInv DEF Waits
    <3> QED
      BY <1>2, <2>3, <3>2, <3>3 DEF Logon
  <2> QED
    BY <2>2, <2>3
<1>3. ASSUME NEW what \in Waits \union {"leaving", "closing", "none"}, io[h] \in Waits,
             Ask(h, what) \/ Await(h, what), what = "leaving" => role[h] = "client",
             UNCHANGED <<list, stale, role>>
      PROVE  ListInv'
  <2>1. PICK w \in {what, "none"} : Await(h, w)
    BY <1>1, <1>3
  <2> QED
    BY <1>0, <1>3, <2>1, QuietListInv
<1>4. ASSUME NEW r \in AllRoles, Command(h, r)
      PROVE  ListInv'
  <2>1. \/ Ask(h, "replying") \/ Ask(h, "refused") \/ Await(h, "none")
    BY <1>4 DEF Command, Refuse
  <2>2. io[h] \in Waits /\ UNCHANGED <<list, stale, role>>
    BY <1>4 DEF Command, Refuse, Waits
  <2> QED
    BY <1>3, <2>1, <2>2 DEF Waits
<1>5. CASE CancelLogon(h) \/ Ignore(h)
  <2>1. io[h] \in Waits /\ Await(h, "none") /\ UNCHANGED <<list, stale, role>>
    BY <1>5 DEF CancelLogon, Ignore, Waits
  <2> QED
    BY <1>3, <2>1
<1>6. CASE Sent(h)
  <2>1. io[h] \in Waits /\ (Ask(h, "reading") \/ Await(h, "none"))
        /\ UNCHANGED <<list, stale, role>>
    BY <1>6 DEF Sent, Waits
  <2> QED
    BY <1>3, <2>1 DEF Waits
<1>7. CASE Lost(h)
  <2>1. io[h] \in Waits /\ UNCHANGED <<list, stale, role>>
        /\ ((role[h] = "client" /\ Await(h, "leaving")) \/ Await(h, "closing"))
    BY <1>7 DEF Lost
  <2> QED
    BY <1>3, <2>1
<1> QED
  BY <1>2, <1>4, <1>5, <1>6, <1>7 DEF Handle

\* A thread in the section: only its own connection comes onto the list or off it.
LEMMA EnlistingListInv ==
  ASSUME ListInv, NEW h \in Handles, Enlisting(h)
  PROVE  ListInv'
<1>1. /\ UNCHANGED <<role, stale>> /\ ListTypeOK /\ Alone
      /\ \/ (io[h] = "listing" /\ InsertStep(h))
         \/ (io[h] = "leaving" /\ DeleteStep(h))
  BY DEF Enlisting, EnlistOn, Strike, InsertStep, DeleteStep, ListInv, TypeOK, PhaseOK,
     Alone
<1>2. /\ ListTypeOK' /\ live' = live
      /\ inside \in {{}, {h}} /\ inside' \in {{}, {h}}
  BY <1>1, ListStepTypes
<1>3. PICK w \in {"listing", "leaving", "replying", "closing", "none"} : Await(h, w)
  <2>1. io = [io EXCEPT ![h] = io[h]]
    BY DEF ListInv, TypeOK
  <2> QED
    BY <2>1 DEF Enlisting, EnlistOn, Strike, Ask, Await
<1>4. /\ io' \in [Handles -> Waits \union {"free", "listing", "leaving", "closing", "none"}]
      /\ io'[h] = w /\ \A g \in Handles \ {h} : io'[g] = io[g]
  BY <1>3 DEF ListInv, TypeOK, Await, Waits
<1>5. \/ /\ io[h] = "listing"
         /\ \/ w = "listing" /\ (BeginSearch(h) \/ PassToInsert(h))
            \/ w \in {"replying", "none"} /\ (LinkAtEnd(h) \/ LinkFound(h))
      \/ /\ io[h] = "leaving"
         /\ \/ w = "leaving" /\ (BeginSearch(h) \/ PassToDelete(h))
            \/ w = "closing" /\ (NothingToUnlink(h) \/ UnlinkFound(h))
  <2>1. io' = io => w = io[h]
    BY <1>4
  <2>2. \A v : Await(h, v) => w = v
    BY <1>4 DEF ListInv, TypeOK, Await
  <2> QED
    BY <2>1, <2>2 DEF Enlisting, EnlistOn, Strike, Ask
<1>6. TypeOK'
  BY <1>1, <1>2, <1>4 DEF ListInv, TypeOK
<1>7. PhaseOK'
  <2>1. inside' # {} => inside' = {h} /\ w \in {"listing", "leaving"}
    <3>1. LinkAtEnd(h) \/ LinkFound(h) \/ NothingToUnlink(h) \/ UnlinkFound(h) => inside' = {}
      BY <1>1 DEF LinkAtEnd, LinkFound, NothingToUnlink, UnlinkFound, Leave, list, Alone
    <3> QED
      BY <1>2, <1>5, <3>1
  <2> QED
    BY <1>1, <1>2, <1>4, <1>5, <2>1 DEF ListInv, PhaseOK
<1>8. ASSUME stale' = {}
      PROVE  RingOK' /\ MembersOK'
  <2>1. RingOK /\ MembersOK
    BY <1>1, <1>8 DEF ListInv
  <2>2. Listed \subseteq live
    BY <2>1 DEF ListInv, PhaseOK, MembersOK, Listed
  <2>3. CASE w = io[h]
    <3>1. BeginSearch(h) \/ PassToInsert(h) \/ PassToDelete(h)
      BY <1>5, <2>3
    <3>2. RingOK' /\ Listed' = Listed
      BY <1>1, <2>1, <2>2, <3>1, SearchStaysInRing
    <3> QED
      BY <1>1, <1>4, <2>1, <2>3, <3>2 DEF MembersOK
  <2>4. CASE io[h] = "listing" /\ w # "listing"
    <3>1. h \notin Listed /\ (LinkAtEnd(h) \/ LinkFound(h)) /\ w \in {"replying", "none"}
      BY <1>5, <2>1, <2>4 DEF MembersOK
    <3>2. RingOK' /\ Listed' = Listed \union {h}
      BY <1>1, <2>1, <2>2, <3>1, InsertionKeepsRing
    <3>3. role[h] \in UserRoles
      BY <2>4 DEF ListInv, PhaseOK
    <3> QED
      BY <1>1, <1>4, <2>1, <3>1, <3>2, <3>3 DEF MembersOK
  <2>5. CASE io[h] = "leaving" /\ w # "leaving"
    <3>1. (NothingToUnlink(h) \/ UnlinkFound(h)) /\ w = "closing"
      BY <1>5, <2>5
    <3>2. RingOK' /\ (Listed' = Listed \/ Listed' = Listed \ {h})
      BY <1>1, <2>1, <2>2, <3>1, DeletionKeepsRing
    <3> QED
      BY <1>1, <1>4, <2>1, <3>1, <3>2 DEF MembersOK, Waits
  <2> QED
    BY <1>5, <2>3, <2>4, <2>5
<1> QED
  BY <1>6, <1>7, <1>8 DEF ListInv

\* A connection comes in memory that is not on the list, or it has been freed before.
LEMMA AcceptListInv ==
  ASSUME ListInv, NEW h \in Handles, Accept(h)
  PROVE  ListInv'
<1>1. PICK w \in {"reading", "none"} : Await(h, w)
  BY DEF Accept, Ask
<1>2. /\ io' \in [Handles -> Waits \union {"free", "listing", "leaving", "closing", "none"}]
      /\ io'[h] = w /\ (\A g \in Handles \ {h} : io'[g] = io[g])
      /\ io[h] = "free" /\ role[h] = NoRole /\ Allocate(h)
      /\ UNCHANGED <<inside, at, broken, role, stale>>
  BY <1>1 DEF ListInv, TypeOK, PhaseOK, Await, Accept, Waits
<1>3. TypeOK'
  BY <1>2, HeaderIsNoHandle DEF ListInv, TypeOK, ListTypeOK, Allocate
<1>4. h \notin inside /\ inside \subseteq Handles
  BY <1>2 DEF ListInv, TypeOK, ListTypeOK, PhaseOK
<1>5. PhaseOK'
  BY <1>2, <1>4 DEF ListInv, PhaseOK, Allocate
<1>6. ASSUME stale' = {}
      PROVE  RingOK' /\ MembersOK'
  <2>1. RingOK /\ MembersOK /\ h \notin Listed
    BY <1>2, <1>6 DEF ListInv, MembersOK
  <2>2. RingOK' /\ Listed' = Listed
    BY <1>2, <2>1, MemoryKeepsRing DEF ListInv, TypeOK
  <2> QED
    BY <1>2, <2>1, <2>2 DEF MembersOK, NoRole, UserRoles
<1> QED
  BY <1>3, <1>5, <1>6 DEF ListInv

\* What is freed while it is listed is stale.
LEMMA FreeListInv ==
  ASSUME ListInv, NEW h \in Handles, Free(h)
  PROVE  ListInv'
<1>1. /\ io' \in [Handles -> Waits \union {"free", "listing", "leaving", "closing", "none"}]
      /\ role' \in [Handles -> AllRoles \union {NoRole}]
      /\ io'[h] = "free" /\ role'[h] = NoRole
      /\ (\A g \in Handles \ {h} : io'[g] = io[g] /\ role'[g] = role[g])
      /\ io[h] = "closing" /\ Deallocate(h) /\ UNCHANGED <<inside, at, broken>>
      /\ stale' = stale \union ({h} \intersect Listed)
  BY DEF ListInv, TypeOK, Await, Free, Waits
<1>2. TypeOK'
  BY <1>1, HeaderIsNoHandle DEF ListInv, TypeOK, ListTypeOK, Deallocate
<1>3. h \notin inside /\ inside \subseteq Handles
  BY <1>1 DEF ListInv, TypeOK, ListTypeOK, PhaseOK
<1>4. PhaseOK'
  BY <1>1, <1>3 DEF ListInv, PhaseOK, Deallocate
<1>5. ASSUME stale' = {}
      PROVE  RingOK' /\ MembersOK'
  <2>1. RingOK /\ MembersOK /\ h \notin Listed
    BY <1>1, <1>5 DEF ListInv
  <2>2. RingOK' /\ Listed' = Listed
    BY <1>1, <2>1, MemoryKeepsRing DEF ListInv, TypeOK
  <2> QED
    BY <1>1, <2>1, <2>2 DEF MembersOK, Waits
<1> QED
  BY <1>2, <1>4, <1>5 DEF ListInv

LEMMA StepListInv == ListInv /\ [Next]_vars => ListInv'
<1> SUFFICES ASSUME ListInv, [Next]_vars
             PROVE  ListInv'
  OBVIOUS
<1>1. CASE UNCHANGED vars
  <2>1. UNCHANGED <<flink, blink, live, inside, at, broken, io, role, stale>>
        /\ Listed' = Listed
    BY <1>1 DEF vars, list, Listed, Closed
  <2> QED
    BY <2>1 DEF ListInv, TypeOK, ListTypeOK, PhaseOK, RingOK, MembersOK
<1>2. ASSUME NEW h \in Handles,
             Accept(h) \/ Handle(h) \/ Enlisting(h) \/ Sent(h) \/ Lost(h) \/ Free(h)
      PROVE  ListInv'
  BY <1>2, AcceptListInv, HandleListInv, EnlistingListInv, FreeListInv
<1> QED
  BY <1>1, <1>2 DEF Next

\* The invariant holds in every state of the service.
THEOREM Invariance == Spec => []ListInv
BY InitListInv, StepListInv, PTL DEF Spec

\* A user who is logged on and whose connection waits for I/O is on the list, until a
\* handle is freed while it is linked (InserUserListNode, DeleteUserListNode,
\* ServerThread): for any number of connections, whatever their addresses and the
\* order of their coming and going.
THEOREM OnlineUsersListed == Spec => []OnlineListed
<1>1. ListInv => OnlineListed
  BY DEF ListInv, MembersOK, OnlineListed
<1> QED
  BY <1>1, Invariance, PTL

\* "By the logic of the program no insertion happens twice" (InserUserListNode): the
\* list is one ring, on which every node's successor leads back to it, until a handle
\* is freed while it is linked.
THEOREM NoneListedTwice == Spec => []LinksAgree
<1>1. ListInv => LinksAgree
  BY DEF ListInv, RingOK, LinksAgree
<1> QED
  BY <1>1, Invariance, PTL

\* No thread uses the memory of a node that is not allocated (the searches and links of
\* UserList.cpp, the HeapFree of ServerThread), until a handle is freed while it is
\* linked.
THEOREM FreedMemoryUnused == Spec => []FreedUnused
<1>1. ListInv => FreedUnused
  BY DEF ListInv, RingOK, FreedUnused
<1> QED
  BY <1>1, Invariance, PTL
=============================================================================
