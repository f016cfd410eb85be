------------------------- MODULE ClientService_proofs -------------------------
(***************************************************************************)
(* TLAPS proofs about ClientService: as long as the two threads have not   *)
(* been at work on the connection at the same time, client and server agree *)
(* on who is logged on, which password is right and what every reply        *)
(* answers, for any number of users, passwords, sockets and lost            *)
(* connections.  Agreement is the inductive invariant: one lemma per step   *)
(* of a thread, of the server and of the network shows that it is kept.     *)
(***************************************************************************)
EXTENDS ClientService, SequenceTheorems, TLAPS

-----------------------------------------------------------------------------
(* What is under way.                                                      *)

\* A command says at which step its sender waits for the reply.
LEMMA MessageShape ==
  ASSUME NEW m \in Messages
  PROVE  /\ m.for \in Waits \union {"none"}
         /\ m.command \in {"logon", "change", "access", "cancel", "heartbeat"}
         /\ m.command = "logon" =>
              m.for = "welcome" /\ m.user \in Users \union {None}
                /\ m.password \in Passwords \union {None}
         /\ m.command = "change" =>
              m.for = "changed" /\ m.password \in Passwords /\ m.new \in Passwords
         /\ m.command = "access" => m.for = "policy"
         /\ m.command \in {"cancel", "heartbeat"} => m.for = "none"
  BY DEF Messages, Waits

LEMMA MessagesSent ==
  ASSUME TypeOK, NEW s \in Sockets
  PROVE  /\ sent[s] \in Seq(Messages) /\ back[s] \in Seq(Replies)
         /\ Len(sent[s]) \in Nat /\ Len(back[s]) \in Nat
         /\ \A i \in 1..Len(sent[s]) : sent[s][i] \in Messages
         /\ back[s] # <<>> => back[s][1] \in Replies
  BY DEF TypeOK

\* Nothing but cancellations and heartbeats is under way while nobody waits.
LEMMA Quiet ==
  ASSUME TypeOK, RequestsAwaited, RepliesAwaited, \A t \in Threads : pc[t] \notin Waits
  PROVE  \A s \in Sockets :
           back[s] = <<>> /\ \A i \in 1..Len(sent[s]) : sent[s][i].for = "none"
<1>1. ASSUME NEW s \in Sockets PROVE back[s] = <<>>
  BY MessagesSent DEF RepliesAwaited, Replies
<1>2. ASSUME NEW s \in Sockets, NEW i \in 1..Len(sent[s]) PROVE sent[s][i].for = "none"
  BY MessagesSent, MessageShape DEF RequestsAwaited
<1> QED
  BY <1>1, <1>2

LEMMA InitInv == Init => IInv
<1> SUFFICES ASSUME Init PROVE IInv
  OBVIOUS
<1> USE ClientAssumption DEF Init
<1>0. NoArgs \in Args
  BY DEF NoArgs, Args
<1>1. TypeOK
  <2>1. pc \in [Threads -> PCs] /\ args \in [Threads -> Args]
    BY <1>0 DEF PCs
  <2>2. sent \in [Sockets -> Seq(Messages)] /\ back \in [Sockets -> Seq(Replies)]
    OBVIOUS
  <2>3. account \in [Users -> Passwords] /\ role \in [Sockets -> Users \union {None}]
    OBVIOUS
  <2>4. /\ on \in [Threads -> Sockets \union {NoSocket}]
        /\ link \in [Sockets -> {"unused", "made", "up", "lost", "closed"}]
        /\ served \in [Sockets -> {"reading", "deaf", "closed"}]
        /\ drops \in 0..MaxDrops
    OBVIOUS
  <2> QED
    BY <2>1, <2>2, <2>3, <2>4 DEF TypeOK
<1>2. Places
  BY DEF Places, Threads
<1>3. SocketsOK /\ RequestsAwaited /\ RepliesAwaited /\ CancelsClose
  BY DEF SocketsOK, RequestsAwaited, RepliesAwaited, CancelsClose, Connected, Threads
<1>4. ConnectionsOK /\ PasswordRight /\ PasswordKnown /\ Listening
  BY DEF ConnectionsOK, PasswordRight, PasswordKnown, Listening, Connected
<1> QED
  BY <1>1, <1>2, <1>3, <1>4 DEF IInv, Agreement

-----------------------------------------------------------------------------
(* The threads.                                                            *)

\* A control begins.
LEMMA AskInv ==
  ASSUME IInv, ~overlapped, overlapped' = AtOnce,
         NEW to \in {"socket", "access", "change", "cancel"}, NEW a \in Args,
         pc["control"] = "idle", Go("control", to),
         args' = [args EXCEPT !["control"] = a],
         to = "socket" => ~(server # NoSocket /\ user # None),
         to = "change" => a.password \in Passwords /\ a.new \in Passwords,
         UNCHANGED <<globals, on, network, seen>>
  PROVE  IInv'
<1> USE ClientAssumption DEF IInv, globals, network, seen, Go
<1>1. TypeOK'
  <2>1. pc' \in [Threads -> PCs] /\ args' \in [Threads -> Args]
    BY DEF TypeOK, PCs
  <2> QED
    BY <2>1 DEF TypeOK, AtOnce
<1>a. /\ pc'["control"] = to /\ pc'["keeper"] = pc["keeper"]
      /\ args'["control"] = a /\ args'["keeper"] = args["keeper"]
  BY DEF TypeOK, Threads
<1>2. Places'
  BY <1>a DEF Places, TypeOK, AtOnce
<1> SUFFICES ASSUME ~overlapped' PROVE Agreement'
  BY <1>1, <1>2
<1> USE DEF Agreement
<1>b. pc["keeper"] \in {"idle", "beat"}
  BY <1>a DEF AtOnce
<1>c. \A s \in Sockets : back[s] = <<>> /\ \A i \in 1..Len(sent[s]) : sent[s][i].for = "none"
  BY <1>b, Quiet DEF Waits, Threads
<1>3. SocketsOK'
  BY <1>a, <1>b DEF SocketsOK, TypeOK, ConnectionsOK, Connected, LoggingOn, Waits, Threads
<1>4. RequestsAwaited' /\ RepliesAwaited'
  BY <1>c DEF RequestsAwaited, RepliesAwaited
<1>5. CancelsClose'
  BY <1>a DEF CancelsClose
<1>6. ConnectionsOK'
  BY <1>a, <1>b DEF ConnectionsOK, LoggingOn, Threads
<1>7. PasswordRight'
  BY <1>a, <1>b DEF PasswordRight, LoggingOn, Connected, Threads
<1>8. PasswordKnown' /\ Listening'
  BY <1>a DEF PasswordKnown, Listening
<1> QED
  BY <1>3, <1>4, <1>5, <1>6, <1>7, <1>8

LEMMA AsksInv ==
  ASSUME IInv, ~overlapped, overlapped' = AtOnce, Ask
  PROVE  IInv'
<1>0. args["control"] \in Args
  BY DEF IInv, TypeOK, Threads
<1>1. ASSUME NEW u \in Users, NEW p \in Passwords, AskLogon(u, p) PROVE IInv'
  <2>1. [user |-> u, password |-> p, new |-> None] \in Args
    BY DEF Args
  <2> QED
    BY <1>1, <2>1, AskInv DEF AskLogon
<1>2. ASSUME NEW p \in Passwords, NEW n \in Passwords, AskChange(p, n) PROVE IInv'
  <2> DEFINE a == [user |-> None, password |-> p, new |-> n]
  <2>1. a \in Args /\ a.password = p /\ a.new = n
    BY DEF Args
  <2>2. /\ pc["control"] = "idle" /\ Go("control", "change")
        /\ args' = [args EXCEPT !["control"] = a]
        /\ UNCHANGED <<globals, on, network, seen>>
    BY <1>2 DEF AskChange
  <2> HIDE DEF a
  <2> QED
    BY <2>1, <2>2, AskInv
<1>3. CASE AskAccess
  <2>1. args' = [args EXCEPT !["control"] = args["control"]]
    BY <1>3 DEF AskAccess, IInv, TypeOK
  <2> QED
    BY <1>0, <1>3, <2>1, AskInv DEF AskAccess
<1>4. CASE AskCancel
  <2>1. args' = [args EXCEPT !["control"] = args["control"]]
    BY <1>4 DEF AskCancel, IInv, TypeOK
  <2> QED
    BY <1>0, <1>4, <2>1, AskInv DEF AskCancel
<1> QED
  BY <1>1, <1>2, <1>3, <1>4 DEF Ask

\* A thread that is at work is the only one.
LEMMA Alone ==
  ASSUME Places, ~overlapped, NEW t \in Threads, pc[t] \notin {"idle", "beat"}
  PROVE  \A r \in Threads \ {t} : pc[r] \in {"idle", "beat"}
  BY DEF Places, Threads

\* A thread without a connection gives up and returns.
LEMMA GiveUpInv ==
  ASSUME IInv, ~overlapped, overlapped' = AtOnce,
         NEW t \in Threads, pc[t] \notin {"idle", "beat", "close"}, ~Usable(server),
         Return(t), drops' \in 0..MaxDrops,
         UNCHANGED <<globals, link, sent, back, served, role, account, seen>>
  PROVE  IInv'
<1> USE ClientAssumption DEF IInv, globals, seen, Go, Return
<1>0. NoArgs \in Args
  BY DEF NoArgs, Args
<1>1. TypeOK'
  <2>1. pc' \in [Threads -> PCs] /\ args' \in [Threads -> Args]
        /\ on' \in [Threads -> Sockets \union {NoSocket}]
    BY <1>0 DEF TypeOK, PCs
  <2> QED
    BY <2>1 DEF TypeOK, AtOnce
<1>a. /\ pc'[t] = "idle" /\ on'[t] = NoSocket
      /\ \A r \in Threads \ {t} :
           pc'[r] = pc[r] /\ pc[r] \in {"idle", "beat"} /\ on'[r] = on[r] /\ args'[r] = args[r]
  BY Alone DEF TypeOK
<1>2. Places'
  BY <1>a DEF Places, TypeOK, AtOnce, Threads
<1> SUFFICES ASSUME ~overlapped' PROVE Agreement'
  BY <1>1, <1>2
<1> USE DEF Agreement, Usable
<1>b. \A s \in Sockets : back[s] = <<>> /\ \A i \in 1..Len(sent[s]) : sent[s][i].for = "none"
  BY MessagesSent DEF RequestsAwaited, RepliesAwaited, TypeOK
<1>3. SocketsOK'
  BY <1>a DEF SocketsOK, Connected, Waits
<1>4. RequestsAwaited' /\ RepliesAwaited'
  BY <1>b DEF RequestsAwaited, RepliesAwaited
<1>6. CancelsClose'
  BY <1>a DEF CancelsClose
<1>7. ConnectionsOK'
  BY <1>a DEF ConnectionsOK, TypeOK
<1>8. PasswordRight'
  BY <1>a DEF PasswordRight, Connected
<1>9. PasswordKnown' /\ Listening'
  BY <1>a DEF PasswordKnown, Listening
<1> QED
  BY <1>3, <1>4, <1>6, <1>7, <1>8, <1>9

LEMMA StartReceiveInv ==
  ASSUME IInv, ~overlapped, overlapped' = AtOnce, NEW t \in Threads, StartReceive(t)
  PROVE  IInv'
<1> USE ClientAssumption DEF StartReceive, globals, network, seen
<1>1. CASE ~Usable(server)
  BY <1>1, GiveUpInv DEF Waits, IInv, TypeOK
<1>2. CASE Usable(server)
  <2> USE <1>2 DEF IInv
  <2>0. server \in Sockets /\ on' = [on EXCEPT ![t] = server] /\ UNCHANGED <<pc, args>>
    BY DEF TypeOK, Usable
  <2>1. TypeOK'
    BY <2>0 DEF TypeOK, AtOnce
  <2>2. Places'
    BY <2>0 DEF Places, AtOnce
  <2> SUFFICES ASSUME ~overlapped' PROVE Agreement'
    BY <2>1, <2>2
  <2> USE <2>0 DEF Agreement
  <2>3. SocketsOK'
    BY DEF SocketsOK, Connected, Waits, TypeOK
  <2>4. RequestsAwaited' /\ RepliesAwaited' /\ CancelsClose'
    BY SMTT(30) DEF RequestsAwaited, RepliesAwaited, CancelsClose
  <2>5. ConnectionsOK' /\ PasswordRight' /\ PasswordKnown' /\ Listening'
    BY DEF ConnectionsOK, PasswordRight, PasswordKnown, Listening, Connected, LoggingOn, Accepted
  <2> QED
    BY <2>3, <2>4, <2>5
<1> QED
  BY <1>1, <1>2

LEMMA ReceiveFailsInv ==
  ASSUME IInv, ~overlapped, overlapped' = AtOnce, NEW t \in Threads, ReceiveFails(t)
  PROVE  IInv'
<1>1. pc[t] \in Waits /\ on[t] = server
  BY DEF ReceiveFails, IInv, Agreement, SocketsOK
<1> QED
  BY <1>1, GiveUpInv DEF ReceiveFails, Waits, globals, network, seen, IInv, TypeOK

\* A thread sends a request and goes on to wait for the reply.
LEMMA SendRequestInv ==
  ASSUME IInv, ~overlapped, overlapped' = AtOnce,
         NEW t \in Threads, NEW m \in Messages, NEW to,
         \/ /\ pc[t] = "hello" /\ m.command = "logon" /\ to = "welcome"
            /\ m.user = args[t].user /\ m.password = args[t].password
         \/ pc[t] = "access" /\ m.command = "access" /\ to = "policy"
         \/ /\ pc[t] = "change" /\ m.command = "change" /\ to = "changed"
            /\ t = "control" /\ m.new = args[t].new,
         wanted' = IF to = "changed" THEN args[t].new ELSE wanted,
         Send(server, m), Continue(t, to),
         UNCHANGED <<globals, link, back, served, role, account, drops, silenced>>
  PROVE  IInv'
<1> USE ClientAssumption DEF IInv, globals, Go, Continue
<1>0. /\ server \in Sockets /\ link[server] = "up" /\ m.for = to /\ to \in Waits
      /\ sent[server] \in Seq(Messages)
      /\ to = "changed" => args[t].new \in Passwords
  BY MessageShape DEF Send, Usable, TypeOK, Waits, Places
<1>1. TypeOK'
  <2>1. pc' \in [Threads -> PCs] /\ on' \in [Threads -> Sockets \union {NoSocket}]
    BY <1>0 DEF TypeOK, PCs
  <2>2. sent' \in [Sockets -> Seq(Messages)] /\ ignored' \subseteq Sockets
    <3>1. \/ sent' = sent
          \/ sent' = [sent EXCEPT ![server] = Append(sent[server], m)]
      BY DEF Send
    <3>2. Append(sent[server], m) \in Seq(Messages)
      BY <1>0
    <3>3. sent' \in [Sockets -> Seq(Messages)]
      BY <1>0, <3>1, <3>2 DEF TypeOK
    <3>4. ignored' \in {ignored, ignored \union {server}} /\ ignored \subseteq Sockets
      BY DEF Send, TypeOK
    <3> QED
      BY <1>0, <3>3, <3>4
  <2> QED
    BY <1>0, <2>1, <2>2 DEF TypeOK, AtOnce
<1>a. /\ pc'[t] = to /\ on'[t] = NoSocket
      /\ \A r \in Threads \ {t} :
           pc'[r] = pc[r] /\ pc[r] \in {"idle", "beat"} /\ on'[r] = on[r]
  BY Alone DEF TypeOK
<1>2. Places'
  BY <1>0, <1>a DEF Places, TypeOK, AtOnce, Threads, Waits
<1> SUFFICES ASSUME ~overlapped' PROVE Agreement'
  BY <1>1, <1>2
<1> USE <1>0 DEF Agreement
<1>b. \A s \in Sockets : back[s] = <<>> /\ \A i \in 1..Len(sent[s]) : sent[s][i].for = "none"
  BY <1>a, Quiet DEF Waits
<1>c. /\ \A s \in Sockets \ {server} : sent'[s] = sent[s]
      /\ \/ sent'[server] = sent[server]
         \/ /\ Len(sent'[server]) = Len(sent[server]) + 1
            /\ sent'[server][Len(sent[server]) + 1] = m
            /\ \A i \in 1..Len(sent[server]) : sent'[server][i] = sent[server][i]
      /\ Len(sent[server]) \in Nat
  BY DEF Send, TypeOK
<1>d. /\ pc[t] = "hello" => role[server] = None
      /\ pc[t] # "hello" => user # None /\ role[server] = user /\ account[user] = password
  <2>1. pc["control"] # "changed" /\ server # NoSocket
    BY <1>a DEF Threads, TypeOK
  <2>2. pc[t] = "hello" => role[server] = None
    BY <1>a DEF ConnectionsOK, LoggingOn
  <2>3. pc[t] # "hello" =>
          user # None /\ role[server] = user /\ \A r \in Threads : ~LoggingOn(r)
    BY <1>a DEF ConnectionsOK, LoggingOn
  <2> QED
    BY <2>1, <2>2, <2>3 DEF PasswordRight, Connected
<1>3. SocketsOK'
  BY <1>a DEF SocketsOK, Connected, Waits
<1>4. RequestsAwaited'
  <2>1. ASSUME NEW s \in Sockets, NEW i \in 1..Len(sent'[s]), sent'[s][i].for # "none"
        PROVE  s = server /\ i = Len(sent[server]) + 1 /\ sent'[s][i] = m
    BY <1>b, <1>c, <2>1, SMTT(30)
  <2> QED
    BY <1>a, <1>b, <1>d, <2>1 DEF RequestsAwaited
<1>5. RepliesAwaited'
  BY <1>b DEF RepliesAwaited
<1>6. CancelsClose'
  <2>1. ASSUME NEW s \in Sockets, NEW i \in 1..Len(sent'[s]), sent'[s][i].command = "cancel"
        PROVE  i \in 1..Len(sent[s]) /\ sent[s][i].command = "cancel"
    BY <1>c, <2>1, SMTT(30)
  <2> QED
    BY <1>a, <2>1 DEF CancelsClose
<1>7. ConnectionsOK'
  BY <1>a, <1>b, <1>d DEF ConnectionsOK, LoggingOn, Accepted
<1>8. PasswordRight' /\ PasswordKnown'
  BY <1>a, <1>b, <1>d DEF PasswordRight, PasswordKnown, LoggingOn, Accepted, Connected
<1>9. Listening'
  BY <1>a DEF Listening
<1> QED
  BY <1>3, <1>4, <1>5, <1>6, <1>7, <1>8, <1>9

LEMMA SendLogonInv ==
  ASSUME IInv, ~overlapped, overlapped' = AtOnce, NEW t \in Threads, SendLogon(t)
  PROVE  IInv'
<1> DEFINE m == [command |-> "logon", for |-> "welcome", user |-> args[t].user,
                 password |-> args[t].password]
<1>1. m \in Messages
  BY DEF Messages, IInv, TypeOK, Args
<1>2. CASE Send(server, m) /\ Continue(t, "welcome")
  <2>1. m.command = "logon" /\ m.user = args[t].user /\ m.password = args[t].password
    OBVIOUS
  <2> QED
    BY <1>1, <1>2, <2>1, SendRequestInv DEF SendLogon, SendOrGiveUp
<1>3. CASE ~Usable(server) /\ Return(t) /\ UNCHANGED <<sent, ignored>>
  BY <1>3, GiveUpInv DEF SendLogon, SendOrGiveUp, IInv, TypeOK, seen
<1> QED
  BY <1>2, <1>3 DEF SendLogon, SendOrGiveUp

LEMMA SendAccessInv ==
  ASSUME IInv, ~overlapped, overlapped' = AtOnce, NEW t \in Threads, SendAccess(t)
  PROVE  IInv'
<1> DEFINE m == [command |-> "access", for |-> "policy"]
<1>1. m \in Messages
  BY DEF Messages
<1>2. CASE Send(server, m) /\ Continue(t, "policy")
  <2>1. m.command = "access"
    OBVIOUS
  <2> QED
    BY <1>1, <1>2, <2>1, SendRequestInv DEF SendAccess, SendOrGiveUp
<1>3. CASE ~Usable(server) /\ Return(t) /\ UNCHANGED <<sent, ignored>>
  BY <1>3, GiveUpInv DEF SendAccess, SendOrGiveUp, IInv, TypeOK, seen
<1> QED
  BY <1>2, <1>3 DEF SendAccess, SendOrGiveUp

LEMMA SendChangeInv ==
  ASSUME IInv, ~overlapped, overlapped' = AtOnce, SendChange
  PROVE  IInv'
<1> DEFINE t == "control"
           m == [command |-> "change", for |-> "changed",
                 password |-> args[t].password, new |-> args[t].new]
<1>0. t \in Threads
  BY DEF Threads
<1>1. m \in Messages
  BY DEF Messages, IInv, Places, SendChange
<1>2. CASE Send(server, m) /\ Continue(t, "changed")
  <2>1. m.command = "change" /\ m.new = args[t].new
    OBVIOUS
  <2>2. wanted' = args[t].new
    BY <1>2 DEF SendChange, Send
  <2> HIDE DEF m, t
  <2> QED
    BY <1>0, <1>1, <1>2, <2>1, <2>2, SendRequestInv DEF SendChange, SendOrGiveUp, m, t
<1>3. CASE ~Usable(server) /\ Return(t) /\ UNCHANGED <<sent, ignored>>
  BY <1>0, <1>3, GiveUpInv DEF SendChange, SendOrGiveUp, IInv, TypeOK, seen
<1> QED
  BY <1>2, <1>3 DEF SendChange, SendOrGiveUp

-----------------------------------------------------------------------------

LEMMA CreateSocketInv ==
  ASSUME IInv, ~overlapped, overlapped' = AtOnce, NEW t \in Threads, CreateSocket(t)
  PROVE  IInv'
<1> USE ClientAssumption DEF IInv, Go
<1>0. PICK s \in Sockets :
        /\ Fresh(s)
        /\ server' = s
        /\ link' = [link EXCEPT ![s] = "made"]
        /\ back' = [back EXCEPT ![s] = <<>>]
        /\ served' = [served EXCEPT ![s] = "reading"]
        /\ role' = [role EXCEPT ![s] = None]
        /\ silenced' = silenced \ {s} /\ ignored' = ignored \ {s}
  BY DEF CreateSocket
<1>c. /\ pc[t] = "socket" /\ Go(t, "connect")
      /\ UNCHANGED <<user, password, args, on, sent, account, drops, wanted>>
  BY DEF CreateSocket
<1> USE <1>0, <1>c
<1>1. TypeOK'
  <2>1. pc' \in [Threads -> PCs]
    BY DEF TypeOK, PCs
  <2>2. back' \in [Sockets -> Seq(Replies)]
    BY DEF TypeOK
  <2> QED
    BY <2>1, <2>2 DEF TypeOK, AtOnce
<1>a. /\ pc'[t] = "connect"
      /\ \A r \in Threads \ {t} : pc'[r] = pc[r] /\ pc[r] \in {"idle", "beat"}
  BY Alone DEF TypeOK
<1>2. Places'
  BY <1>a DEF Places, TypeOK, AtOnce, Threads, Waits
<1> SUFFICES ASSUME ~overlapped' PROVE Agreement'
  BY <1>1, <1>2
<1> USE DEF Agreement
<1>b. \A x \in Sockets : back[x] = <<>> /\ \A i \in 1..Len(sent[x]) : sent[x][i].for = "none"
  BY <1>a, Quiet DEF Waits
<1>d. ~Connected /\ s # server /\ s # NoSocket /\ sent[s] = <<>>
  BY DEF SocketsOK, Fresh, NoSocket
<1>e. \A x \in Sockets \ {s} : link'[x] = link[x] /\ role'[x] = role[x] /\ served'[x] = served[x]
  BY DEF TypeOK
<1>f. link'[s] = "made" /\ role'[s] = None /\ served'[s] = "reading"
      /\ \A x \in Sockets : back'[x] = <<>>
  BY <1>b DEF TypeOK
<1>3. SocketsOK'
  BY <1>a, <1>d, <1>e, <1>f DEF SocketsOK, Connected, Waits
<1>4. RequestsAwaited' /\ RepliesAwaited'
  BY <1>b, <1>f DEF RequestsAwaited, RepliesAwaited
<1>6. CancelsClose'
  <2>1. pc["control"] # "close"
    BY <1>a DEF Threads
  <2> QED
    BY <1>d, <1>e, <2>1 DEF CancelsClose
<1>7. ConnectionsOK'
  <2>1. ASSUME NEW x \in Sockets, link'[x] = "up"
        PROVE  x # server' /\ role'[x] = None /\ served'[x] # "reading"
    <3>1. x # s /\ link[x] = "up" /\ x # server
      BY <1>d, <1>e, <1>f, <2>1 DEF Connected, TypeOK, NoSocket
    <3> QED
      BY <1>e, <3>1 DEF ConnectionsOK
  <2> QED
    BY <2>1 DEF ConnectionsOK
<1>8. PasswordRight' /\ PasswordKnown'
  BY <1>f DEF PasswordRight, PasswordKnown, Connected
<1>9. Listening'
  BY <1>a, <1>d, <1>e, <1>f DEF Listening, ConnectionsOK, Connected, NoSocket
<1> QED
  BY <1>3, <1>4, <1>6, <1>7, <1>8, <1>9

LEMMA ConnectInv ==
  ASSUME IInv, ~overlapped, overlapped' = AtOnce, NEW t \in Threads, Connect(t)
  PROVE  IInv'
<1> USE ClientAssumption DEF IInv, Go, globals, seen
<1>0. pc[t] = "connect" /\ server \in Sockets /\ server # NoSocket /\ link[server] = "made"
      /\ UNCHANGED <<globals, sent, back, served, role, account, seen>>
  BY DEF Connect, Agreement, SocketsOK, TypeOK
<1>1. CASE Return(t) /\ UNCHANGED link
  <2>1. drops' \in 0..MaxDrops
    BY <1>0, <1>1 DEF Connect, TypeOK
  <2>2. ~Usable(server)
    BY <1>0 DEF Usable
  <2> QED
    BY <1>0, <1>1, <2>1, <2>2, GiveUpInv
<1>2. CASE link' = [link EXCEPT ![server] = "up"] /\ Continue(t, "hello") /\ UNCHANGED drops
  <2> USE <1>0, <1>2 DEF Continue
  <2>1. TypeOK'
    <3>1. pc' \in [Threads -> PCs] /\ on' \in [Threads -> Sockets \union {NoSocket}]
      BY DEF TypeOK, PCs
    <3> QED
      BY <3>1 DEF TypeOK, AtOnce
  <2>a. /\ pc'[t] = "hello" /\ on'[t] = NoSocket
        /\ \A r \in Threads \ {t} :
             pc'[r] = pc[r] /\ pc[r] \in {"idle", "beat"} /\ on'[r] = on[r]
    BY Alone DEF TypeOK
  <2>2. Places'
    BY <2>a DEF Places, TypeOK, AtOnce, Threads, Waits
  <2> SUFFICES ASSUME ~overlapped' PROVE Agreement'
    BY <2>1, <2>2
  <2> USE DEF Agreement
  <2>b. \A x \in Sockets : back[x] = <<>> /\ \A i \in 1..Len(sent[x]) : sent[x][i].for = "none"
    BY <2>a, Quiet DEF Waits
  <2>c. /\ link'[server] = "up" /\ role[server] = None
        /\ \A x \in Sockets \ {server} : link'[x] = link[x]
    BY DEF TypeOK, SocketsOK
  <2>3. SocketsOK'
    BY <2>a, <2>c DEF SocketsOK, Connected, Waits
  <2>4. RequestsAwaited' /\ RepliesAwaited'
    BY <2>b DEF RequestsAwaited, RepliesAwaited
  <2>6. CancelsClose'
    BY <2>a, <2>c DEF CancelsClose
  <2>7. ConnectionsOK'
    BY <2>a, <2>c DEF ConnectionsOK
  <2>8. PasswordRight' /\ PasswordKnown'
    BY <2>a DEF PasswordRight, PasswordKnown, LoggingOn
  <2>9. Listening'
    BY <2>a, <2>c DEF Listening
  <2> QED
    BY <2>3, <2>4, <2>6, <2>7, <2>8, <2>9
<1> QED
  BY <1>0, <1>1, <1>2 DEF Connect
-----------------------------------------------------------------------------

\* A thread that receives a reply receives the only one, and nothing is under way then.
LEMMA ReceivesOne ==
  ASSUME IInv, ~overlapped, NEW t \in Threads, pc[t] \in Waits,
         NEW ok \in BOOLEAN, Receives(t, ok)
  PROVE  /\ on[t] = server /\ server \in Sockets /\ server # NoSocket /\ link[server] = "up"
         /\ back[server] # <<>> /\ back[server][1].success = ok
         /\ back[server][1].to = pc[t]
         /\ back' \in [Sockets -> Seq(Replies)]
         /\ \A s \in Sockets :
              back'[s] = <<>> /\ \A i \in 1..Len(sent[s]) : sent[s][i].for = "none"
<1> USE ClientAssumption DEF IInv, Agreement
<1>1. on[t] = server /\ server # NoSocket /\ link[server] = "up" /\ server \in Sockets
  BY DEF Receives, SocketsOK, TypeOK, Usable
<1>2. back[server] # <<>> /\ back' = [back EXCEPT ![server] = Tail(@)]
      /\ Len(back[server]) = 1 /\ ok = Head(back[server]).success
  BY <1>1 DEF Receives, RepliesAwaited
<1>3. back[server] \in Seq(Replies) /\ \A s \in Sockets \ {server} : back[s] = <<>>
  BY <1>1 DEF TypeOK, RepliesAwaited
<1>4. Tail(back[server]) = <<>> /\ Head(back[server]) = back[server][1]
  <2>1. Tail(back[server]) \in Seq(Replies) /\ Len(Tail(back[server])) = 0
    BY <1>2, <1>3
  <2>2. Head(back[server]) = back[server][1]
    BY <1>2, <1>3
  <2> QED
    BY <2>1, <2>2, EmptySeq
<1>5. back' \in [Sockets -> Seq(Replies)] /\ \A s \in Sockets : back'[s] = <<>>
  BY <1>1, <1>2, <1>3, <1>4 DEF TypeOK
<1>6. ASSUME NEW s \in Sockets, NEW i \in 1..Len(sent[s]) PROVE sent[s][i].for = "none"
  BY <1>1, <1>2 DEF RequestsAwaited
<1>7. back[server][1].to = pc[t]
  <2>1. \A r \in Threads \ {t} : pc[r] \in {"idle", "beat"}
    BY Alone DEF Waits
  <2>2. back[server][1] \in Replies
    BY <1>2, <1>3
  <2>3. back[server][1].to \in Waits
    BY <2>2 DEF Replies
  <2> QED
    BY <1>1, <1>2, <2>1, <2>3 DEF RepliesAwaited, Waits
<1> QED
  BY <1>1, <1>2, <1>4, <1>5, <1>6, <1>7

LEMMA WelcomeInv ==
  ASSUME IInv, ~overlapped, overlapped' = AtOnce, NEW t \in Threads, Welcome(t)
  PROVE  IInv'
<1> USE ClientAssumption DEF IInv, Go, seen, Continue, Return
<1>0. PICK ok \in BOOLEAN :
        /\ Receives(t, ok)
        /\ IF ok THEN /\ user' = args[t].user /\ password' = args[t].password
                      /\ Continue(t, "access") /\ UNCHANGED server
                 ELSE /\ server' = NoSocket /\ user' = None
                      /\ Return(t) /\ UNCHANGED password
  BY DEF Welcome
<1>a. /\ pc[t] = "welcome"
      /\ \A r \in Threads \ {t} : pc[r] \in {"idle", "beat"}
  BY Alone DEF Welcome
<1>b. /\ on[t] = server /\ server \in Sockets /\ server # NoSocket /\ link[server] = "up"
      /\ back[server] # <<>> /\ back[server][1].success = ok
      /\ back' \in [Sockets -> Seq(Replies)]
      /\ \A s \in Sockets :
           back'[s] = <<>> /\ \A i \in 1..Len(sent[s]) : sent[s][i].for = "none"
  BY <1>0, <1>a, ReceivesOne DEF Waits
<1>c. UNCHANGED <<link, sent, served, role, account, drops, seen>>
  BY <1>0 DEF Receives
<1>d. Agreement /\ TypeOK
  OBVIOUS
<1>e. IF ok THEN /\ args[t].user \in Users /\ args[t].password \in Passwords
                 /\ role[server] = args[t].user
                 /\ account[args[t].user] = args[t].password
            ELSE role[server] = None /\ served[server] # "reading"
  BY <1>a, <1>b, <1>d DEF Agreement, ConnectionsOK, LoggingOn, Accepted
<1>f. NoArgs \in Args
  BY DEF NoArgs, Args
<1>g. \A s \in Sockets \ {server} : link[s] = "up" => role[s] = None /\ served[s] # "reading"
  BY <1>d DEF Agreement, ConnectionsOK
<1>h. pc["control"] \notin {"close", "changed"}
  BY <1>a DEF Threads
<1>1. CASE ok
  <2> USE <1>0, <1>1, <1>c
  <2>1. TypeOK'
    <3>1. pc' \in [Threads -> PCs] /\ on' \in [Threads -> Sockets \union {NoSocket}]
      BY DEF TypeOK, PCs
    <3> QED
      BY <1>b, <1>e, <3>1 DEF TypeOK, AtOnce
  <2>a. /\ pc'[t] = "access" /\ on'[t] = NoSocket
        /\ \A r \in Threads \ {t} : pc'[r] = pc[r] /\ on'[r] = on[r]
    BY DEF TypeOK
  <2>2. Places'
    BY <1>a, <2>a DEF Places, TypeOK, AtOnce, Threads, Waits
  <2>3. SocketsOK'
    BY <1>a, <1>d, <2>a DEF Agreement, SocketsOK, Connected, Waits
  <2>4. RequestsAwaited' /\ RepliesAwaited'
    BY <1>b DEF RequestsAwaited, RepliesAwaited
  <2>5. CancelsClose'
    BY <1>d, <1>h DEF Agreement, CancelsClose
  <2>6. ConnectionsOK'
    BY <1>a, <1>e, <1>g, <2>a DEF ConnectionsOK, LoggingOn
  <2>7. PasswordRight' /\ PasswordKnown'
    BY <1>a, <1>e, <1>h, <2>a DEF PasswordRight, PasswordKnown, Threads
  <2>8. Listening'
    BY <1>d, <1>h, <2>a DEF Agreement, Listening
  <2> QED
    BY <2>1, <2>2, <2>3, <2>4, <2>5, <2>6, <2>7, <2>8 DEF Agreement
<1>2. CASE ~ok
  <2> USE <1>0, <1>2, <1>c
  <2>1. TypeOK'
    <3>0. /\ pc' = [pc EXCEPT ![t] = "idle"] /\ on' = [on EXCEPT ![t] = NoSocket]
          /\ args' = [args EXCEPT ![t] = NoArgs]
      OBVIOUS
    <3>1. /\ pc' \in [Threads -> PCs] /\ on' \in [Threads -> Sockets \union {NoSocket}]
          /\ args' \in [Threads -> Args]
      BY ONLY <1>d, <1>f, <3>0 DEF TypeOK, PCs
    <3> QED
      BY <1>b, <3>1 DEF TypeOK, AtOnce
  <2>a. /\ pc'[t] = "idle" /\ on'[t] = NoSocket
        /\ \A r \in Threads \ {t} : pc'[r] = pc[r] /\ on'[r] = on[r] /\ args'[r] = args[r]
    BY DEF TypeOK
  <2>2. Places'
    BY <1>a, <2>a DEF Places, TypeOK, AtOnce, Threads, Waits
  <2>3. SocketsOK'
    BY <1>a, <1>d, <2>a DEF Agreement, SocketsOK, Connected, Waits
  <2>4. RequestsAwaited' /\ RepliesAwaited'
    BY <1>b DEF RequestsAwaited, RepliesAwaited
  <2>5. CancelsClose'
    BY <1>d, <1>h DEF Agreement, CancelsClose
  <2>6. ConnectionsOK'
    BY <1>e, <1>g, <1>b DEF ConnectionsOK
  <2>7. PasswordRight' /\ PasswordKnown'
    BY DEF PasswordRight, PasswordKnown
  <2>8. Listening'
    BY <1>e, <1>g DEF Listening
  <2> QED
    BY <2>1, <2>2, <2>3, <2>4, <2>5, <2>6, <2>7, <2>8 DEF Agreement
<1> QED
  BY <1>1, <1>2

\* A thread receives the reply it has waited for, and its routine returns.
LEMMA AnsweredInv ==
  ASSUME IInv, ~overlapped, overlapped' = AtOnce,
         NEW t \in Threads, pc[t] \in {"policy", "changed"}, NEW ok \in BOOLEAN,
         Receives(t, ok), Return(t), UNCHANGED <<server, user>>,
         password' = IF pc[t] = "changed" /\ ok THEN args[t].new ELSE password
  PROVE  IInv'
<1> USE ClientAssumption DEF IInv, Go, seen, Return
<1>0. NoArgs \in Args
  BY DEF NoArgs, Args
<1>a. /\ pc'[t] = "idle" /\ on'[t] = NoSocket
      /\ \A r \in Threads \ {t} :
           /\ pc'[r] = pc[r] /\ pc[r] \in {"idle", "beat"}
           /\ on'[r] = on[r] /\ args'[r] = args[r]
  BY Alone DEF TypeOK
<1>b. /\ on[t] = server /\ server \in Sockets /\ server # NoSocket /\ link[server] = "up"
      /\ back[server] # <<>> /\ back[server][1].success = ok
      /\ back' \in [Sockets -> Seq(Replies)]
      /\ \A s \in Sockets :
           back'[s] = <<>> /\ \A i \in 1..Len(sent[s]) : sent[s][i].for = "none"
  BY ReceivesOne DEF Waits
<1>c. UNCHANGED <<link, sent, served, role, account, drops, seen>>
  BY DEF Receives
<1>d. Agreement /\ TypeOK /\ Places
  OBVIOUS
<1>e. pc[t] = "changed" =>
        t = "control" /\ args[t].new \in Passwords /\ args[t].new = wanted
  BY <1>d DEF Places, Threads
<1>f. pc["control"] # "close" /\ (pc["control"] = "changed" => t = "control")
  BY <1>a DEF Threads
<1>g. user # None /\ role[server] = user /\ \A r \in Threads : ~LoggingOn(r)
  BY <1>a, <1>b, <1>d DEF Agreement, ConnectionsOK, LoggingOn
<1>h. account[user] = password'
  BY <1>b, <1>d, <1>e, <1>f, <1>g DEF Agreement, PasswordRight, Connected, Accepted
<1>1. TypeOK'
  <2>1. pc' \in [Threads -> PCs] /\ on' \in [Threads -> Sockets \union {NoSocket}]
        /\ args' \in [Threads -> Args]
    BY <1>0 DEF TypeOK, PCs
  <2>2. password' \in Passwords \union {None}
    BY <1>e DEF TypeOK
  <2> QED
    BY <1>b, <1>c, <2>1, <2>2 DEF TypeOK, AtOnce
<1>2. Places'
  BY <1>a, <1>c DEF Places, TypeOK, AtOnce, Threads
<1>3. SocketsOK'
  BY <1>a, <1>c, <1>d DEF Agreement, SocketsOK, Connected, Waits
<1>4. RequestsAwaited' /\ RepliesAwaited'
  BY <1>b, <1>c DEF RequestsAwaited, RepliesAwaited
<1>5. CancelsClose'
  BY <1>c, <1>d, <1>f DEF Agreement, CancelsClose
<1>6. ConnectionsOK'
  BY <1>a, <1>c, <1>d, <1>g DEF Agreement, ConnectionsOK, LoggingOn
<1>7. PasswordRight' /\ PasswordKnown'
  BY <1>a, <1>c, <1>h, <1>f DEF PasswordRight, PasswordKnown, Threads
<1>8. Listening'
  BY <1>c, <1>d, <1>f DEF Agreement, Listening
<1> QED
  BY <1>1, <1>2, <1>3, <1>4, <1>5, <1>6, <1>7, <1>8 DEF Agreement

LEMMA PolicyInv ==
  ASSUME IInv, ~overlapped, overlapped' = AtOnce, NEW t \in Threads, Policy(t)
  PROVE  IInv'
  BY AnsweredInv DEF Policy, globals

LEMMA ChangedInv ==
  ASSUME IInv, ~overlapped, overlapped' = AtOnce, Changed
  PROVE  IInv'
<1>1. "control" \in Threads
  BY DEF Threads
<1> QED
  BY <1>1, AnsweredInv DEF Changed
-----------------------------------------------------------------------------

\* A message that nobody answers comes behind the others, or is lost.
LEMMA NoteSent ==
  ASSUME TypeOK, NEW m \in Messages, m.for = "none", Send(server, m)
  PROVE  /\ server \in Sockets /\ server # NoSocket /\ link[server] = "up"
         /\ sent' \in [Sockets -> Seq(Messages)] /\ ignored' = ignored
         /\ \A s \in Sockets : \A i \in 1..Len(sent'[s]) :
              \/ i \in 1..Len(sent[s]) /\ sent'[s][i] = sent[s][i]
              \/ s = server /\ sent'[s][i] = m
<1>0. server \in Sockets /\ server # NoSocket /\ link[server] = "up"
  BY DEF Send, Usable, TypeOK
<1>1. CASE sent' = sent
  BY <1>0, <1>1 DEF Send, TypeOK
<1>2. CASE sent' = [sent EXCEPT ![server] = Append(@, m)]
  <2>1. sent[server] \in Seq(Messages)
    BY <1>0 DEF TypeOK
  <2>2. sent'[server] = Append(sent[server], m) /\ \A s \in Sockets \ {server} : sent'[s] = sent[s]
    BY <1>0, <1>2 DEF TypeOK
  <2>3. sent' \in [Sockets -> Seq(Messages)]
    BY <1>0, <1>2, <2>1 DEF TypeOK
  <2>4. ignored' = ignored
    BY <1>2 DEF Send
  <2>5. ASSUME NEW i \in 1..Len(sent'[server])
        PROVE  \/ i \in 1..Len(sent[server]) /\ sent'[server][i] = sent[server][i]
               \/ sent'[server][i] = m
    BY <2>1, <2>2
  <2> QED
    BY <1>0, <2>2, <2>3, <2>4, <2>5
<1> QED
  BY <1>1, <1>2 DEF Send

\* A step that puts no request and no reply on its way, and leaves every thread
\* that waits for a reply where it is, keeps requests and replies awaited.
LEMMA StillAwaited ==
  ASSUME TypeOK, RequestsAwaited, RepliesAwaited, UNCHANGED <<server, link, back, role>>,
         \A t \in Threads : pc[t] \in Waits => pc'[t] = pc[t] /\ args'[t] = args[t],
         \A s \in Sockets : \A i \in 1..Len(sent'[s]) :
           \/ i \in 1..Len(sent[s]) /\ sent'[s][i] = sent[s][i]
           \/ sent'[s][i].for = "none"
  PROVE  RequestsAwaited' /\ RepliesAwaited'
<1>1. ASSUME NEW s \in Sockets, NEW i \in 1..Len(sent'[s]), sent'[s][i].for # "none"
      PROVE  /\ i \in 1..Len(sent[s]) /\ sent'[s][i] = sent[s][i]
             /\ sent[s][i].for \in Waits
  BY <1>1, MessagesSent, MessageShape
<1>2. RequestsAwaited'
  BY <1>1, SMTT(30) DEF RequestsAwaited
<1>3. RepliesAwaited'
  BY MessagesSent DEF RepliesAwaited, Replies
<1> QED
  BY <1>2, <1>3

LEMMA SendCancelInv ==
  ASSUME IInv, ~overlapped, overlapped' = AtOnce, SendCancel
  PROVE  IInv'
<1> USE ClientAssumption DEF IInv, Go, globals
<1> DEFINE m == [command |-> "cancel", for |-> "none"]
<1>0. m \in Messages /\ m.for = "none" /\ m.command = "cancel"
  BY DEF Messages
<1> HIDE DEF m
<1>a. /\ sent' \in [Sockets -> Seq(Messages)] /\ ignored' = ignored
      /\ \A s \in Sockets : \A i \in 1..Len(sent'[s]) :
           \/ i \in 1..Len(sent[s]) /\ sent'[s][i] = sent[s][i]
           \/ s = server /\ sent'[s][i] = m
  BY <1>0, NoteSent DEF SendCancel, TypeOK, m
<1>b. /\ pc["control"] = "cancel" /\ pc'["control"] = "close" /\ pc'["keeper"] = pc["keeper"]
      /\ UNCHANGED <<globals, args, on, link, back, served, role, account, drops, wanted, silenced>>
  BY DEF SendCancel, TypeOK, Threads
<1>1. TypeOK'
  <2>1. pc' \in [Threads -> PCs]
    BY DEF SendCancel, TypeOK, PCs
  <2> QED
    BY <1>a, <1>b, <2>1 DEF TypeOK, AtOnce
<1>2. Places'
  BY <1>b DEF Places, TypeOK, AtOnce
<1> SUFFICES ASSUME ~overlapped' PROVE Agreement'
  BY <1>1, <1>2
<1> USE <1>b DEF Agreement
<1>3. SocketsOK'
  BY DEF SocketsOK, Connected, Waits, Threads
<1>4. RequestsAwaited' /\ RepliesAwaited'
  BY <1>0, <1>a, StillAwaited DEF Waits, Threads
<1>5. CancelsClose'
  BY <1>a DEF CancelsClose
<1>6. ConnectionsOK' /\ PasswordRight' /\ PasswordKnown'
  BY DEF ConnectionsOK, PasswordRight, PasswordKnown, LoggingOn, Accepted, Connected, Threads
<1>7. Listening'
  BY DEF Listening
<1> QED
  BY <1>3, <1>4, <1>5, <1>6, <1>7

LEMMA LogOffInv ==
  ASSUME IInv, ~overlapped, overlapped' = AtOnce, LogOff
  PROVE  IInv'
<1> USE ClientAssumption DEF IInv, Go, seen
<1>a. /\ pc["control"] = "close" /\ pc'["control"] = "idle" /\ pc'["keeper"] = pc["keeper"]
      /\ server' = NoSocket /\ user' = None /\ password' = None
      /\ UNCHANGED <<args, on, sent, back, served, role, account, drops, seen>>
      /\ \A s \in Sockets : link'[s] = IF s = server THEN "closed" ELSE link[s]
  BY DEF LogOff, Close, TypeOK, Threads
<1>1. TypeOK'
  <2>1. pc' \in [Threads -> PCs]
    BY DEF LogOff, TypeOK, PCs
  <2>2. link' \in [Sockets -> {"unused", "made", "up", "lost", "closed"}]
    BY DEF LogOff, Close, TypeOK
  <2> QED
    BY <1>a, <2>1, <2>2 DEF TypeOK, AtOnce
<1>2. Places'
  BY <1>a DEF Places, TypeOK, AtOnce
<1> SUFFICES ASSUME ~overlapped' PROVE Agreement'
  BY <1>1, <1>2
<1> USE DEF Agreement
<1>b. pc["keeper"] \in {"idle", "beat"}
  BY <1>a DEF Places
<1>c. \A s \in Sockets : back[s] = <<>> /\ \A i \in 1..Len(sent[s]) : sent[s][i].for = "none"
  BY <1>a, <1>b, Quiet DEF Waits, Threads
<1>3. SocketsOK'
  BY <1>a, <1>b DEF SocketsOK, Connected, Waits, Threads
<1>4. RequestsAwaited' /\ RepliesAwaited'
  BY <1>a, <1>c DEF RequestsAwaited, RepliesAwaited
<1>5. CancelsClose'
  BY <1>a DEF CancelsClose
<1>6. ConnectionsOK'
  BY <1>a, <1>b DEF ConnectionsOK, Threads
<1>7. PasswordRight' /\ PasswordKnown'
  BY <1>a DEF PasswordRight, PasswordKnown
<1>8. Listening'
  BY <1>a DEF Listening
<1> QED
  BY <1>3, <1>4, <1>5, <1>6, <1>7, <1>8

LEMMA WakeUpInv ==
  ASSUME IInv, ~overlapped, overlapped' = AtOnce, WakeUp
  PROVE  IInv'
<1> USE ClientAssumption DEF IInv, Go, globals, network, seen
<1>a. /\ pc["keeper"] = "idle" /\ pc'["keeper"] = "beat" /\ pc'["control"] = pc["control"]
      /\ UNCHANGED <<globals, args, on, network, seen>>
  BY DEF WakeUp, TypeOK, Threads
<1>1. TypeOK'
  <2>1. pc' \in [Threads -> PCs]
    BY DEF WakeUp, TypeOK, PCs
  <2> QED
    BY <1>a, <2>1 DEF TypeOK, AtOnce
<1>2. Places'
  BY <1>a DEF Places, TypeOK, AtOnce
<1> SUFFICES ASSUME ~overlapped' PROVE Agreement'
  BY <1>1, <1>2
<1> USE <1>a DEF Agreement
<1>3. SocketsOK' /\ CancelsClose' /\ Listening'
  BY DEF SocketsOK, CancelsClose, Listening, Connected, Waits, Threads
<1>4. RequestsAwaited' /\ RepliesAwaited'
  <2>1. \A s \in Sockets : \A i \in 1..Len(sent'[s]) :
          i \in 1..Len(sent[s]) /\ sent'[s][i] = sent[s][i]
    OBVIOUS
  <2> QED
    BY <2>1, StillAwaited DEF Waits, Threads
<1>5. ConnectionsOK' /\ PasswordRight' /\ PasswordKnown'
  BY DEF ConnectionsOK, PasswordRight, PasswordKnown, LoggingOn, Accepted, Connected, Threads
<1> QED
  BY <1>3, <1>4, <1>5

LEMMA SendHeartbeatInv ==
  ASSUME IInv, ~overlapped, overlapped' = AtOnce, SendHeartbeat
  PROVE  IInv'
<1> USE ClientAssumption DEF IInv, Go
<1>0. /\ pc["keeper"] = "beat"
      /\ UNCHANGED <<user, password, on, back, served, role, account, drops, wanted, silenced>>
  BY DEF SendHeartbeat
<1>1. CASE /\ Send(server, [command |-> "heartbeat", for |-> "none"])
           /\ Go("keeper", "idle")
           /\ UNCHANGED <<server, args, link>>
  <2> DEFINE m == [command |-> "heartbeat", for |-> "none"]
  <2>0. m \in Messages /\ m.for = "none" /\ m.command = "heartbeat"
    BY DEF Messages
  <2> HIDE DEF m
  <2>a. /\ sent' \in [Sockets -> Seq(Messages)] /\ ignored' = ignored
        /\ \A s \in Sockets : \A i \in 1..Len(sent'[s]) :
             \/ i \in 1..Len(sent[s]) /\ sent'[s][i] = sent[s][i]
             \/ s = server /\ sent'[s][i] = m
    BY <1>1, <2>0, NoteSent DEF m
  <2>b. /\ pc'["keeper"] = "idle" /\ pc'["control"] = pc["control"]
        /\ UNCHANGED <<server, args, link>>
    BY <1>1 DEF TypeOK, Threads
  <2>1. TypeOK'
    <3>1. pc' \in [Threads -> PCs]
      BY <1>1 DEF TypeOK, PCs
    <3> QED
      BY <1>0, <2>a, <2>b, <3>1 DEF TypeOK, AtOnce
  <2>2. Places'
    BY <1>0, <2>b DEF Places, TypeOK, AtOnce
  <2> SUFFICES ASSUME ~overlapped' PROVE Agreement'
    BY <2>1, <2>2
  <2> USE <1>0, <2>b DEF Agreement
  <2>3. SocketsOK' /\ Listening'
    BY DEF SocketsOK, Listening, Connected, Waits, Threads
  <2>4. RequestsAwaited' /\ RepliesAwaited'
    BY <2>0, <2>a, StillAwaited DEF Waits, Threads
  <2>5. CancelsClose'
    BY <2>0, <2>a DEF CancelsClose
  <2>6. ConnectionsOK' /\ PasswordRight' /\ PasswordKnown'
    BY DEF ConnectionsOK, PasswordRight, PasswordKnown, LoggingOn, Accepted, Connected, Threads
  <2> QED
    BY <2>3, <2>4, <2>5, <2>6
<1>2. CASE /\ ~Usable(server)
           /\ Close(server)
           /\ server' = NoSocket
           /\ args' = [args EXCEPT !["keeper"] = [user |-> user, password |-> password, new |-> None]]
           /\ Go("keeper", "socket")
           /\ UNCHANGED <<sent, ignored>>
  <2>0. [user |-> user, password |-> password, new |-> None] \in Args
    BY DEF Args, TypeOK
  <2>a. /\ pc'["keeper"] = "socket" /\ pc'["control"] = pc["control"]
        /\ args'["control"] = args["control"]
        /\ \A s \in Sockets : link'[s] = IF s = server THEN "closed" ELSE link[s]
    BY <1>2 DEF TypeOK, Threads, Close
  <2>1. TypeOK'
    <3>1. pc' \in [Threads -> PCs] /\ args' \in [Threads -> Args]
      BY <1>2, <2>0 DEF TypeOK, PCs
    <3>2. link' \in [Sockets -> {"unused", "made", "up", "lost", "closed"}]
      BY <1>2 DEF Close, TypeOK
    <3> QED
      BY <1>0, <1>2, <3>1, <3>2 DEF TypeOK, AtOnce
  <2>2. Places'
    BY <1>0, <2>a DEF Places, TypeOK, AtOnce
  <2> SUFFICES ASSUME ~overlapped' PROVE Agreement'
    BY <2>1, <2>2
  <2> USE <1>0, <1>2, <2>a DEF Agreement
  <2>b. pc["control"] = "idle"
    BY DEF AtOnce
  <2>c. \A s \in Sockets : back[s] = <<>> /\ \A i \in 1..Len(sent[s]) : sent[s][i].for = "none"
    BY <2>b, Quiet DEF Waits, Threads
  <2>3. SocketsOK'
    BY <2>b DEF SocketsOK, Connected, Waits, Threads
  <2>4. RequestsAwaited' /\ RepliesAwaited'
    BY <2>c DEF RequestsAwaited, RepliesAwaited
  <2>5. CancelsClose'
    BY <2>b DEF CancelsClose
  <2>6. ConnectionsOK' /\ Listening'
    BY <2>b DEF ConnectionsOK, Listening, Threads
  <2>7. PasswordRight' /\ PasswordKnown'
    BY DEF PasswordRight, PasswordKnown, Connected
  <2> QED
    BY <2>3, <2>4, <2>5, <2>6, <2>7
<1> QED
  BY <1>1, <1>2 DEF SendHeartbeat
-----------------------------------------------------------------------------
(* The server.                                                             *)

\* What a step of the server leaves alone, and what it takes from the queue.
LEMMA Taken ==
  ASSUME TypeOK, NEW s \in Sockets, Serve(s)
  PROVE  /\ Incoming(s) \in Messages /\ 1 \in 1..Len(sent[s]) /\ Incoming(s) = sent[s][1]
         /\ served[s] = "reading" /\ link[s] \in {"up", "closed"}
         /\ sent' \in [Sockets -> Seq(Messages)] /\ ignored' \subseteq Sockets
         /\ \A x \in Sockets \ {s} : sent'[x] = sent[x]
         /\ \A i \in 1..Len(sent'[s]) : i + 1 \in 1..Len(sent[s]) /\ sent'[s][i] = sent[s][i + 1]
         /\ UNCHANGED <<globals, pc, args, on, link, drops, wanted>>
<1>1. sent[s] \in Seq(Messages) /\ sent[s] # <<>>
  BY DEF TypeOK, Serve
<1>2. Incoming(s) \in Messages /\ 1 \in 1..Len(sent[s]) /\ Incoming(s) = sent[s][1]
  BY <1>1 DEF Incoming
<1>3. CASE sent' = [sent EXCEPT ![s] = Tail(@)] /\ UNCHANGED ignored
  <2>1. Tail(sent[s]) \in Seq(Messages) /\ sent'[s] = Tail(sent[s])
    BY <1>1, <1>3 DEF TypeOK
  <2>2. \A i \in 1..Len(sent'[s]) : i + 1 \in 1..Len(sent[s]) /\ sent'[s][i] = sent[s][i + 1]
    BY <1>1, <2>1
  <2>3. sent' \in [Sockets -> Seq(Messages)] /\ \A x \in Sockets \ {s} : sent'[x] = sent[x]
    BY <1>3, <2>1 DEF TypeOK
  <2> QED
    BY <1>2, <1>3, <2>2, <2>3 DEF Serve, TypeOK
<1>4. CASE sent' = [sent EXCEPT ![s] = <<>>] /\ ignored' \in {ignored, ignored \union {s}}
  <2>1. sent' \in [Sockets -> Seq(Messages)] /\ sent'[s] = <<>>
        /\ \A x \in Sockets \ {s} : sent'[x] = sent[x]
    BY <1>4 DEF TypeOK
  <2> QED
    BY <1>2, <1>4, <2>1 DEF Serve, TypeOK
<1> QED
  BY <1>3, <1>4 DEF Serve

\* The server comes to a request: it answers the thread that waits for the reply.
LEMMA RequestTaken ==
  ASSUME IInv, ~overlapped, NEW s \in Sockets, Serve(s), Incoming(s).for # "none"
  PROVE  /\ s = server /\ server # NoSocket /\ link[s] = "up" /\ back[s] = <<>>
         /\ \A x \in Sockets : \A i \in 1..Len(sent'[x]) : sent'[x][i].for = "none"
         /\ \A x \in Sockets \ {s} : back[x] = <<>>
         /\ \E t \in Threads :
              /\ pc[t] = Incoming(s).for /\ pc[t] \in Waits
              /\ \A r \in Threads \ {t} : pc[r] \in {"idle", "beat"}
              /\ Incoming(s).command = "logon" =>
                   /\ role[s] = None
                   /\ Incoming(s).user = args[t].user /\ Incoming(s).password = args[t].password
              /\ Incoming(s).command = "change" => Incoming(s).new = args[t].new
<1> USE ClientAssumption DEF IInv, Agreement
<1>1. /\ Incoming(s) \in Messages /\ 1 \in 1..Len(sent[s]) /\ Incoming(s) = sent[s][1]
      /\ \A x \in Sockets \ {s} : sent'[x] = sent[x]
      /\ \A i \in 1..Len(sent'[s]) : i + 1 \in 1..Len(sent[s]) /\ sent'[s][i] = sent[s][i + 1]
      /\ \A x \in Sockets : Len(sent'[x]) \in Nat
  BY Taken
<1>2. /\ s = server /\ link[s] = "up" /\ back[s] = <<>>
      /\ \A j \in 1..Len(sent[s]) : sent[s][j].for # "none" => 1 = j
  BY <1>1 DEF RequestsAwaited
<1>3. PICK t \in Threads :
        /\ pc[t] = Incoming(s).for
        /\ Incoming(s).command = "logon" =>
             /\ role[s] = None
             /\ Incoming(s).user = args[t].user /\ Incoming(s).password = args[t].password
        /\ Incoming(s).command = "change" => Incoming(s).new = args[t].new
  BY <1>1 DEF RequestsAwaited
<1>4. pc[t] \in Waits
  BY <1>1, <1>3, MessageShape
<1>5. \A r \in Threads \ {t} : pc[r] \in {"idle", "beat"}
  BY <1>4, Alone DEF Waits
<1>6. ASSUME NEW x \in Sockets, NEW i \in 1..Len(sent'[x]) PROVE sent'[x][i].for = "none"
  <2>1. CASE x = s
    <3>1. i + 1 \in 1..Len(sent[s]) /\ sent'[s][i] = sent[s][i + 1] /\ i + 1 # 1
      BY <1>1, <2>1
    <3> QED
      BY <1>2, <2>1, <3>1
  <2>2. CASE x # s
    BY <1>1, <1>2, <2>2 DEF RequestsAwaited
  <2> QED
    BY <2>1, <2>2
<1>7. \A x \in Sockets \ {s} : back[x] = <<>>
  BY <1>2 DEF RepliesAwaited
<1>8. server # NoSocket
  BY <1>2
<1> QED
  BY <1>2, <1>3, <1>4, <1>5, <1>6, <1>7, <1>8

\* The requests to log off that are left were there before.
LEMMA StillCancels ==
  ASSUME TypeOK, CancelsClose, NEW s \in Sockets, Serve(s)
  PROVE  CancelsClose'
<1>1. /\ \A x \in Sockets \ {s} : sent'[x] = sent[x]
      /\ \A i \in 1..Len(sent'[s]) : i + 1 \in 1..Len(sent[s]) /\ sent'[s][i] = sent[s][i + 1]
      /\ UNCHANGED <<globals, pc, link>>
  BY Taken
<1> SUFFICES ASSUME NEW x \in Sockets, NEW i \in 1..Len(sent'[x]),
                    sent'[x][i].command = "cancel"
             PROVE  link'[x] = "closed" \/ (x = server' /\ pc'["control"] = "close")
  BY DEF CancelsClose
<1>2. CASE x = s
  BY <1>1, <1>2 DEF CancelsClose, globals
<1>3. CASE x # s
  BY <1>1, <1>3 DEF CancelsClose, globals
<1> QED
  BY <1>2, <1>3

\* Answering a request keeps the invariant when the server and the thread agree on
\* what the answer means.
LEMMA AnswerInv ==
  ASSUME IInv, ~overlapped, overlapped' = AtOnce,
         NEW s \in Sockets, Serve(s), Incoming(s).for # "none",
         NEW ok \in BOOLEAN, Replied(s, ok),
         silenced' \in {silenced, silenced \union {s}},
         role' \in [Sockets -> Users \union {None}],
         account' \in [Users -> Passwords],
         served' \in [Sockets -> {"reading", "deaf", "closed"}],
         \A x \in Sockets \ {s} : role'[x] = role[x] /\ served'[x] = served[x],
         \/ /\ Incoming(s).command = "logon" /\ account' = account
            /\ IF ok THEN /\ role'[s] = Incoming(s).user /\ role'[s] \in Users
                          /\ account[role'[s]] = Incoming(s).password
                          /\ served'[s] = "reading"
                     ELSE role'[s] = None /\ served'[s] # "reading"
         \/ /\ Incoming(s).command = "change" /\ role'[s] = role[s] /\ served'[s] = "reading"
            /\ account' = IF ok THEN [account EXCEPT ![role[s]] = Incoming(s).new] ELSE account
         \/ /\ Incoming(s).command = "access" /\ role'[s] = role[s] /\ account' = account
            /\ served'[s] = "reading" \/ s \in silenced'
  PROVE  IInv'
<1> USE ClientAssumption DEF IInv, globals
<1>a. /\ Incoming(s) \in Messages
      /\ sent' \in [Sockets -> Seq(Messages)] /\ ignored' \subseteq Sockets
      /\ \A x \in Sockets \ {s} : sent'[x] = sent[x]
      /\ \A i \in 1..Len(sent'[s]) : i + 1 \in 1..Len(sent[s]) /\ sent'[s][i] = sent[s][i + 1]
      /\ UNCHANGED <<globals, pc, args, on, link, drops, wanted>>
  BY Taken
<1>b. /\ s = server /\ server # NoSocket /\ link[s] = "up" /\ back[s] = <<>>
      /\ \A x \in Sockets : \A i \in 1..Len(sent'[x]) : sent'[x][i].for = "none"
      /\ \A x \in Sockets \ {s} : back[x] = <<>>
  BY RequestTaken
<1>c. PICK t \in Threads :
        /\ pc[t] = Incoming(s).for /\ pc[t] \in Waits
        /\ \A r \in Threads \ {t} : pc[r] \in {"idle", "beat"}
        /\ Incoming(s).command = "logon" =>
             /\ role[s] = None
             /\ Incoming(s).user = args[t].user /\ Incoming(s).password = args[t].password
        /\ Incoming(s).command = "change" => Incoming(s).new = args[t].new
  BY RequestTaken
<1>d. /\ Incoming(s).command = "logon" <=> pc[t] = "welcome"
      /\ Incoming(s).command = "change" <=> pc[t] = "changed"
      /\ Incoming(s).command = "logon" =>
           args[t].password \in Passwords \union {None}
      /\ Incoming(s).command = "change" => Incoming(s).new \in Passwords
  BY <1>a, <1>c, MessageShape
<1>e. [to |-> Incoming(s).for, success |-> ok] \in Replies
  BY <1>c DEF Replies
<1>f. /\ back' \in [Sockets -> Seq(Replies)]
      /\ back'[s] # <<>> /\ Len(back'[s]) = 1
      /\ back'[s][1].to = pc[t] /\ back'[s][1].success = ok
      /\ \A x \in Sockets \ {s} : back'[x] = <<>>
  BY <1>b, <1>c, <1>e DEF Replied, TypeOK
<1>g. pc["control"] # "close" /\ (pc["control"] = "changed" => t = "control")
  BY <1>c DEF Threads, Waits
<1>h. pc[t] # "welcome" =>
        /\ user # None /\ role[s] = user
        /\ \A r \in Threads : ~LoggingOn(r)
        /\ account[user] = password
  <2>1. SUFFICES ASSUME pc[t] # "welcome"
                 PROVE  /\ user # None /\ role[s] = user
                        /\ \A r \in Threads : ~LoggingOn(r)
                        /\ account[user] = password
    OBVIOUS
  <2>2. \A r \in Threads : ~LoggingOn(r)
    BY <1>c, <2>1 DEF LoggingOn, Waits
  <2>3. user # None /\ role[s] = user
    BY <1>b, <2>2 DEF Agreement, ConnectionsOK, LoggingOn
  <2>4. ~Accepted(server)
    BY <1>b DEF Accepted
  <2> QED
    BY <1>b, <2>2, <2>3, <2>4 DEF Agreement, PasswordRight, Connected
<1>1. TypeOK'
  <2>1. silenced' \subseteq Sockets
    BY DEF TypeOK
  <2> QED
    BY <1>a, <1>f, <2>1 DEF TypeOK, AtOnce
<1>2. Places'
  BY <1>a DEF Places, AtOnce
<1> SUFFICES ASSUME ~overlapped' PROVE Agreement'
  BY <1>1, <1>2
<1>i. Agreement
  OBVIOUS
<1> USE <1>a
<1>3. SocketsOK'
  BY <1>b, <1>i DEF Agreement, SocketsOK, Connected
<1>4. RequestsAwaited' /\ RepliesAwaited'
  BY <1>b, <1>f DEF RequestsAwaited, RepliesAwaited
<1>5. CancelsClose'
  BY <1>i, StillCancels DEF Agreement
<1>6. ConnectionsOK'
  <2>1. ASSUME NEW x \in Sockets \ {s}, link[x] = "up"
        PROVE  x # server /\ role'[x] = None /\ served'[x] # "reading"
    BY <1>b, <1>i, <2>1 DEF Agreement, ConnectionsOK
  <2>2. CASE pc[t] # "welcome"
    <3>1. user # None /\ role'[s] = user /\ \A r \in Threads : ~LoggingOn(r)'
      BY <1>d, <1>h, <2>2 DEF LoggingOn
    <3> QED
      BY <1>b, <2>1, <3>1 DEF ConnectionsOK
  <2>3. CASE pc[t] = "welcome"
    <3>1. Accepted(s)' <=> ok
      BY <1>f DEF Accepted
    <3>2. IF ok THEN /\ args[t].user \in Users /\ args[t].password \in Passwords
                     /\ role'[s] = args[t].user
                     /\ account'[args[t].user] = args[t].password
                ELSE role'[s] = None /\ served'[s] # "reading"
      BY <1>c, <1>d, <2>3 DEF TypeOK
    <3> QED
      BY <1>b, <2>1, <2>3, <3>1, <3>2 DEF ConnectionsOK
  <2> QED
    BY <2>2, <2>3
<1>7. PasswordRight' /\ PasswordKnown'
  <2>1. CASE pc[t] = "welcome"
    BY <1>d, <1>i, <2>1 DEF Agreement, PasswordRight, PasswordKnown, LoggingOn
  <2>2. CASE pc[t] = "changed"
    <3>1. t = "control" /\ Incoming(s).new = wanted
      BY <1>c, <1>d, <2>2 DEF Places, Threads
    <3>2. Accepted(server)' <=> ok
      BY <1>b, <1>f DEF Accepted
    <3>3. account'[user] = IF ok THEN wanted ELSE password
      BY <1>d, <1>h, <2>2, <3>1 DEF TypeOK
    <3> QED
      BY <2>2, <3>1, <3>2, <3>3 DEF PasswordRight, PasswordKnown
  <2>3. CASE pc[t] \notin {"welcome", "changed"}
    BY <1>d, <1>g, <1>h, <2>3 DEF PasswordRight, PasswordKnown
  <2> QED
    BY <2>1, <2>2, <2>3
<1>8. Listening'
  <2>1. ASSUME NEW x \in Sockets, role'[x] # None, link[x] = "up"
        PROVE  served'[x] = "reading" \/ x \in silenced'
    BY <1>b, <1>i, <2>1 DEF Agreement, ConnectionsOK
  <2> QED
    BY <2>1 DEF Listening
<1> QED
  BY <1>3, <1>4, <1>5, <1>6, <1>7, <1>8 DEF Agreement

LEMMA OnClientLogonInv ==
  ASSUME IInv, ~overlapped, overlapped' = AtOnce,
         NEW s \in Sockets, Serve(s), OnClientLogon(s)
  PROVE  IInv'
<1> DEFINE m == Incoming(s)
           ok == role[s] = None /\ m.user \in Users /\ account[m.user] = m.password
<1>1. m \in Messages /\ m.command = "logon" /\ m.for = "welcome" /\ m.user \in Users \union {None}
  BY Taken, MessageShape DEF OnClientLogon, IInv
<1>2. role[s] = None
  BY <1>1, RequestTaken
<1>3. /\ Replied(s, ok) /\ UNCHANGED <<account, silenced>>
      /\ IF ok THEN role' = [role EXCEPT ![s] = m.user] /\ UNCHANGED served
               ELSE Deaf(s) /\ UNCHANGED role
  BY DEF OnClientLogon
<1>4. served[s] = "reading"
  BY DEF Serve
<1>5. ok \in BOOLEAN
  OBVIOUS
<1>6. role \in [Sockets -> Users \union {None}] /\ account \in [Users -> Passwords]
      /\ served \in [Sockets -> {"reading", "deaf", "closed"}]
  BY DEF IInv, TypeOK
<1>7. CASE ok
  <2>1. /\ role' \in [Sockets -> Users \union {None}]
        /\ served' \in [Sockets -> {"reading", "deaf", "closed"}]
        /\ \A x \in Sockets \ {s} : role'[x] = role[x] /\ served'[x] = served[x]
        /\ role'[s] = m.user /\ m.user \in Users /\ account[m.user] = m.password
        /\ served'[s] = "reading" /\ account' = account
    BY <1>3, <1>4, <1>6, <1>7
  <2>2. Replied(s, TRUE)
    BY <1>3, <1>7
  <2> HIDE DEF ok
  <2> QED
    BY <1>1, <1>3, <1>6, <2>1, <2>2, AnswerInv
<1>8. CASE ~ok
  <2>1. /\ role' \in [Sockets -> Users \union {None}]
        /\ served' \in [Sockets -> {"reading", "deaf", "closed"}]
        /\ \A x \in Sockets \ {s} : role'[x] = role[x] /\ served'[x] = served[x]
        /\ role'[s] = None /\ served'[s] = "deaf" /\ account' = account
    BY <1>2, <1>3, <1>6, <1>8 DEF Deaf
  <2>2. Replied(s, FALSE)
    BY <1>3, <1>8
  <2> HIDE DEF ok
  <2> QED
    BY <1>1, <1>3, <1>6, <2>1, <2>2, AnswerInv
<1> QED
  BY <1>7, <1>8

\* Only whom the server has accepted asks for anything but to be logged on.
LEMMA RoleKnown ==
  ASSUME IInv, ~overlapped, NEW s \in Sockets, Serve(s),
         Incoming(s).for \in {"policy", "changed"}
  PROVE  role[s] # None /\ role[s] \in Users
<1>1. PICK t \in Threads :
        /\ pc[t] = Incoming(s).for
        /\ \A r \in Threads \ {t} : pc[r] \in {"idle", "beat"}
  BY RequestTaken
<1>2. s = server /\ link[s] = "up"
  BY RequestTaken
<1>3. \A r \in Threads : pc[r] \notin {"hello", "welcome"}
  BY <1>1
<1> QED
  BY <1>2, <1>3 DEF IInv, Agreement, ConnectionsOK, TypeOK

LEMMA OnClientChangePwdInv ==
  ASSUME IInv, ~overlapped, overlapped' = AtOnce,
         NEW s \in Sockets, Serve(s), OnClientChangePwd(s)
  PROVE  IInv'
<1> DEFINE m == Incoming(s)
           ok == role[s] # None /\ account[role[s]] = m.password
<1>1. m \in Messages /\ m.command = "change" /\ m.for = "changed" /\ m.new \in Passwords
  BY Taken, MessageShape DEF OnClientChangePwd, IInv
<1>2. role[s] # None /\ role[s] \in Users
  BY <1>1, RoleKnown
<1>3. /\ Replied(s, ok) /\ UNCHANGED <<role, served, silenced>>
      /\ account' = IF ok THEN [account EXCEPT ![role[s]] = m.new] ELSE account
  BY <1>2 DEF OnClientChangePwd
<1>4. served[s] = "reading"
  BY DEF Serve
<1>5. ok \in BOOLEAN
  OBVIOUS
<1>6. role \in [Sockets -> Users \union {None}] /\ account \in [Users -> Passwords]
      /\ served \in [Sockets -> {"reading", "deaf", "closed"}]
  BY DEF IInv, TypeOK
<1>7. account' \in [Users -> Passwords]
  BY <1>1, <1>2, <1>3, <1>6
<1> HIDE DEF ok
<1> QED
  BY <1>1, <1>3, <1>4, <1>5, <1>6, <1>7, AnswerInv

LEMMA OnClientLoadAccessInv ==
  ASSUME IInv, ~overlapped, overlapped' = AtOnce,
         NEW s \in Sockets, Serve(s), OnClientLoadAccess(s)
  PROVE  IInv'
<1>1. Incoming(s).command = "access" /\ Incoming(s).for = "policy"
  BY Taken, MessageShape DEF OnClientLoadAccess, IInv
<1>2. role[s] # None
  BY <1>1, RoleKnown
<1>3. PICK ok \in BOOLEAN :
        /\ Replied(s, ok) /\ UNCHANGED <<role, account>>
        /\ IF ok THEN UNCHANGED served ELSE Deaf(s)
        /\ silenced' = IF ok THEN silenced ELSE silenced \union {s}
  BY <1>2 DEF OnClientLoadAccess
<1>4. served[s] = "reading"
  BY DEF Serve
<1>5. role \in [Sockets -> Users \union {None}] /\ account \in [Users -> Passwords]
      /\ served \in [Sockets -> {"reading", "deaf", "closed"}]
  BY DEF IInv, TypeOK
<1>6. /\ served' \in [Sockets -> {"reading", "deaf", "closed"}]
      /\ \A x \in Sockets \ {s} : served'[x] = served[x]
      /\ served'[s] = "reading" \/ s \in silenced'
      /\ silenced' \in {silenced, silenced \union {s}}
  BY <1>3, <1>4, <1>5 DEF Deaf
<1> QED
  BY <1>1, <1>3, <1>5, <1>6, AnswerInv

\* The server comes to a message it does not answer, and stops listening.
LEMMA UnansweredInv ==
  ASSUME IInv, ~overlapped, overlapped' = AtOnce, NEW s \in Sockets, Serve(s),
         NEW v \in {"deaf", "closed"}, served' = [served EXCEPT ![s] = v],
         UNCHANGED <<back, role, account>>,
         \/ Incoming(s).command = "cancel" /\ UNCHANGED silenced
         \/ silenced' = silenced \union {s}
  PROVE  IInv'
<1> USE ClientAssumption DEF IInv
<1>a. /\ 1 \in 1..Len(sent[s]) /\ Incoming(s) = sent[s][1] /\ ignored' \subseteq Sockets
      /\ UNCHANGED <<server, user, password, pc, args, on, link, drops, wanted>>
  BY Taken DEF globals
<1>b. /\ served' \in [Sockets -> {"reading", "deaf", "closed"}]
      /\ served'[s] \in {"deaf", "closed"}
      /\ \A x \in Sockets \ {s} : served'[x] = served[x]
  BY DEF TypeOK
<1>c. /\ sent' = [sent EXCEPT ![s] = <<>>] /\ sent' \in [Sockets -> Seq(Messages)]
      /\ sent'[s] = <<>> /\ \A x \in Sockets \ {s} : sent'[x] = sent[x]
  <2>1. served'[s] # "reading"
    BY <1>b
  <2>2. sent' = [sent EXCEPT ![s] = <<>>]
    BY <2>1 DEF Serve
  <2> QED
    BY <2>2 DEF TypeOK
<1>1. TypeOK'
  <2>1. silenced' \subseteq Sockets
    BY DEF TypeOK
  <2>2. back' = back /\ role' = role /\ account' = account
    OBVIOUS
  <2> QED
    BY <1>a, <1>b, <1>c, <2>1, <2>2 DEF TypeOK, AtOnce
<1>2. Places'
  BY <1>a DEF Places, AtOnce
<1> SUFFICES ASSUME ~overlapped' PROVE Agreement'
  BY <1>1, <1>2
<1>i. Agreement
  OBVIOUS
<1> USE <1>a
<1>3. SocketsOK'
  BY <1>i DEF Agreement, SocketsOK, Connected
<1>4. RequestsAwaited'
  <2> SUFFICES ASSUME NEW x \in Sockets, NEW k \in 1..Len(sent'[x]), sent'[x][k].for # "none"
               PROVE  /\ x = server /\ link[x] = "up" /\ back[x] = <<>>
                      /\ \A j \in 1..Len(sent'[x]) : sent'[x][j].for # "none" => k = j
                      /\ \E t \in Threads :
                           /\ pc[t] = sent'[x][k].for
                           /\ sent'[x][k].command = "logon" =>
                                /\ role[x] = None
                                /\ sent'[x][k].user = args[t].user
                                /\ sent'[x][k].password = args[t].password
                           /\ sent'[x][k].command = "change" => sent'[x][k].new = args[t].new
    BY DEF RequestsAwaited
  <2>1. x # s /\ sent'[x] = sent[x]
    BY <1>c
  <2> QED
    BY <1>i, <2>1 DEF Agreement, RequestsAwaited
<1>5. RepliesAwaited'
  BY <1>i DEF Agreement, RepliesAwaited
<1>6. CancelsClose'
  BY <1>i, StillCancels DEF Agreement
<1>7. ConnectionsOK'
  <2> SUFFICES ASSUME NEW x \in Sockets, link[x] = "up"
               PROVE  (\/ /\ x = server /\ user # None /\ role[x] = user
                          /\ \A t \in Threads : ~LoggingOn(t)
                       \/ x = server /\ role[x] = None /\ \E t \in Threads : pc[t] = "hello"
                       \/ /\ x = server
                          /\ \E t \in Threads :
                               /\ pc[t] = "welcome"
                               /\ IF Accepted(x)
                                    THEN /\ args[t].user \in Users
                                         /\ args[t].password \in Passwords
                                         /\ role[x] = args[t].user
                                         /\ account[args[t].user] = args[t].password
                                    ELSE role[x] = None
                                           /\ (back[x] # <<>> => served'[x] # "reading")
                       \/ x # server /\ role[x] = None /\ served'[x] # "reading")
    BY DEF ConnectionsOK, LoggingOn, Accepted
  <2>1. served[x] # "reading" => served'[x] # "reading"
    BY <1>b
  <2> QED
    BY <1>i, <2>1 DEF Agreement, ConnectionsOK
<1>8. PasswordRight' /\ PasswordKnown'
  BY <1>i DEF Agreement, PasswordRight, PasswordKnown, Connected, LoggingOn, Accepted
<1>9. Listening'
  <2> SUFFICES ASSUME NEW x \in Sockets, role[x] # None, link[x] = "up"
               PROVE  served'[x] = "reading" \/ x \in silenced'
                        \/ (x = server /\ pc["control"] = "close")
    BY DEF Listening
  <2>1. CASE x = s
    BY <1>i, <2>1 DEF Agreement, CancelsClose
  <2>2. CASE x # s
    BY <1>b, <1>i, <2>2 DEF Agreement, Listening
  <2> QED
    BY <2>1, <2>2
<1> QED
  BY <1>3, <1>4, <1>5, <1>6, <1>7, <1>8, <1>9 DEF Agreement

LEMMA ServeInv ==
  ASSUME IInv, ~overlapped, overlapped' = AtOnce, NEW s \in Sockets, Serve(s)
  PROVE  IInv'
<1>1. CASE OnClientCancelLogon(s)
  BY <1>1, UnansweredInv DEF OnClientCancelLogon
<1>2. CASE Heartbeat(s)
  BY <1>2, UnansweredInv DEF Heartbeat, Deaf
<1> QED
  BY <1>1, <1>2, OnClientLogonInv, OnClientChangePwdInv, OnClientLoadAccessInv DEF Serve

\* A connection that breaks takes with it all that was under way on it.
LEMMA DropInv ==
  ASSUME IInv, ~overlapped, overlapped' = AtOnce, NEW s \in Sockets, Drop(s)
  PROVE  IInv'
<1> USE ClientAssumption DEF IInv
<1>a. UNCHANGED <<server, user, password, pc, args, on, account, wanted, silenced, ignored>>
  BY DEF Drop, globals, seen
<1>b. /\ link[s] = "up" /\ drops' \in 0..MaxDrops
      /\ link' \in [Sockets -> {"unused", "made", "up", "lost", "closed"}]
      /\ sent' \in [Sockets -> Seq(Messages)] /\ back' \in [Sockets -> Seq(Replies)]
      /\ served' \in [Sockets -> {"reading", "deaf", "closed"}]
      /\ role' \in [Sockets -> Users \union {None}]
  BY DEF Drop, TypeOK
<1>c. /\ link'[s] = "lost" /\ sent'[s] = <<>> /\ back'[s] = <<>> /\ role'[s] = None
      /\ \A x \in Sockets \ {s} : link'[x] = link[x] /\ sent'[x] = sent[x] /\ back'[x] = back[x]
                                    /\ role'[x] = role[x] /\ served'[x] = served[x]
  BY DEF Drop, TypeOK
<1>1. TypeOK'
  BY <1>a, <1>b DEF TypeOK, AtOnce
<1>2. Places'
  BY <1>a DEF Places, AtOnce
<1> SUFFICES ASSUME ~overlapped' PROVE Agreement'
  BY <1>1, <1>2
<1>i. Agreement
  OBVIOUS
<1> USE <1>a
<1>d. Connected' => Connected /\ server \in Sockets \ {s}
  BY <1>c DEF Connected, TypeOK
<1>3. SocketsOK'
  <2>1. \A t \in Threads : pc[t] = "connect" => server \in Sockets \ {s}
    BY <1>b, <1>i DEF Agreement, SocketsOK, TypeOK
  <2>2. \A x \in Sockets : link'[x] = "made" => role'[x] = None
    BY <1>c, <1>i DEF Agreement, SocketsOK
  <2> QED
    BY <1>c, <1>d, <1>i, <2>1, <2>2 DEF Agreement, SocketsOK
<1>4. RequestsAwaited'
  <2> SUFFICES ASSUME NEW x \in Sockets, NEW k \in 1..Len(sent'[x]), sent'[x][k].for # "none"
               PROVE  /\ x = server /\ link'[x] = "up" /\ back'[x] = <<>>
                      /\ \A j \in 1..Len(sent'[x]) : sent'[x][j].for # "none" => k = j
                      /\ \E t \in Threads :
                           /\ pc[t] = sent'[x][k].for
                           /\ sent'[x][k].command = "logon" =>
                                /\ role'[x] = None
                                /\ sent'[x][k].user = args[t].user
                                /\ sent'[x][k].password = args[t].password
                           /\ sent'[x][k].command = "change" => sent'[x][k].new = args[t].new
    BY DEF RequestsAwaited
  <2>1. x # s
    BY <1>c
  <2> QED
    BY <1>c, <1>i, <2>1, SMTT(30) DEF Agreement, RequestsAwaited
<1>5. RepliesAwaited'
  <2> SUFFICES ASSUME NEW x \in Sockets, back'[x] # <<>>
               PROVE  /\ x = server /\ link'[x] = "up" /\ Len(back'[x]) = 1
                      /\ \E t \in Threads : pc[t] = back'[x][1].to
    BY DEF RepliesAwaited
  <2>1. x # s
    BY <1>c
  <2> QED
    BY <1>c, <1>i, <2>1 DEF Agreement, RepliesAwaited
<1>6. CancelsClose'
  <2> SUFFICES ASSUME NEW x \in Sockets, NEW k \in 1..Len(sent'[x]),
                      sent'[x][k].command = "cancel"
               PROVE  link'[x] = "closed" \/ (x = server /\ pc["control"] = "close")
    BY DEF CancelsClose
  <2>1. x # s
    BY <1>c
  <2> QED
    BY <1>c, <1>i, <2>1 DEF Agreement, CancelsClose
<1>7. ConnectionsOK'
  <2> SUFFICES ASSUME NEW x \in Sockets, link'[x] = "up"
               PROVE  (\/ /\ x = server /\ user # None /\ role'[x] = user
                          /\ \A t \in Threads : ~LoggingOn(t)
                       \/ x = server /\ role'[x] = None /\ \E t \in Threads : pc[t] = "hello"
                       \/ /\ x = server
                          /\ \E t \in Threads :
                               /\ pc[t] = "welcome"
                               /\ IF Accepted(x)'
                                    THEN /\ args[t].user \in Users
                                         /\ args[t].password \in Passwords
                                         /\ role'[x] = args[t].user
                                         /\ account[args[t].user] = args[t].password
                                    ELSE role'[x] = None
                                           /\ (back'[x] # <<>> => served'[x] # "reading")
                       \/ x # server /\ role'[x] = None /\ served'[x] # "reading")
    BY DEF ConnectionsOK, LoggingOn
  <2>1. x # s
    BY <1>c
  <2>2. Accepted(x)' = Accepted(x)
    BY <1>c, <2>1 DEF Accepted
  <2> QED
    BY <1>c, <1>i, <2>1, <2>2 DEF Agreement, ConnectionsOK
<1>8. PasswordRight' /\ PasswordKnown'
  <2>1. Connected' => (Accepted(server)' <=> Accepted(server))
    BY <1>c, <1>d DEF Accepted
  <2> QED
    BY <1>d, <1>i, <2>1 DEF Agreement, PasswordRight, PasswordKnown, LoggingOn
<1>9. Listening'
  BY <1>c, <1>i DEF Agreement, Listening
<1> QED
  BY <1>3, <1>4, <1>5, <1>6, <1>7, <1>8, <1>9 DEF Agreement

-----------------------------------------------------------------------------
(* The specification.                                                      *)

LEMMA WorkInv ==
  ASSUME IInv, ~overlapped, overlapped' = AtOnce, NEW t \in Threads, Work(t)
  PROVE  IInv'
BY StartReceiveInv, ReceiveFailsInv, CreateSocketInv, ConnectInv, SendLogonInv, WelcomeInv,
   SendAccessInv, PolicyInv, SendChangeInv, ChangedInv, SendCancelInv, LogOffInv, WakeUpInv,
   SendHeartbeatInv DEF Work

LEMMA NextInv == IInv /\ [Next]_vars => IInv'
<1> SUFFICES ASSUME IInv, [Next]_vars PROVE IInv'
  OBVIOUS
<1>1. CASE Next
  BY <1>1, AsksInv, WorkInv, ServeInv, DropInv DEF Next
<1>2. CASE UNCHANGED vars
  <2>1. UNCHANGED <<server, user, password, pc, args, on, link, sent, back, served, role,
                    account, drops, wanted, silenced, ignored, overlapped>>
    BY <1>2 DEF vars, globals, network, seen
  <2> QED
    BY <2>1 DEF IInv, TypeOK, Places, Agreement, SocketsOK, RequestsAwaited, RepliesAwaited,
         CancelsClose, ConnectionsOK, PasswordRight, PasswordKnown, Listening, Connected,
         LoggingOn, Accepted
<1> QED
  BY <1>1, <1>2

\* Until both threads are at work at once, client and server agree on every
\* connection, request and reply, whatever is lost, refused or logged on again.
THEOREM AgreementKept == Spec => []IInv
BY InitInv, NextInv, PTL DEF Spec

\* The server takes the other end of the service's connection to be the user the
\* service takes to be logged on (OnLogon, OnCancelLogon, KeepActivityThread).
THEOREM SameUserHolds == Spec => []SameUser
<1>1. IInv => SameUser
  <2> SUFFICES ASSUME IInv, ~overlapped, Connected, user # None,
                      pc["control"] = "idle", pc["keeper"] = "idle"
               PROVE  role[server] = user
    BY DEF SameUser
  <2>1. server \in Sockets /\ link[server] = "up"
    BY DEF Connected, IInv, TypeOK
  <2>2. \A t \in Threads : pc[t] \notin {"hello", "welcome"}
    BY DEF Threads
  <2> QED
    BY <2>1, <2>2 DEF IInv, Agreement, ConnectionsOK
<1> QED
  BY <1>1, AgreementKept, PTL

\* The user's password is the one in memory or the last one the service asked for:
\* the server changes an account only on the word of this client (OnChangePassword).
THEOREM PasswordKnownHolds == Spec => []PasswordKnown
<1>1. IInv => PasswordKnown
  BY DEF IInv, Agreement, PasswordKnown
<1> QED
  BY <1>1, AgreementKept, PTL

\* No thread takes a reply to another request for the reply to its own (myRecv).
THEOREM AnswersMatchHolds == Spec => []AnswersMatch
<1>1. IInv => AnswersMatch
  <2> SUFFICES ASSUME IInv, ~overlapped, NEW t \in Threads, on[t] # NoSocket,
                      NEW i \in 1..Len(back[on[t]])
               PROVE  i = 1 /\ back[on[t]][i].to = pc[t]
    BY DEF AnswersMatch
  <2>1. on[t] \in Sockets /\ pc[t] \in Waits
    BY DEF IInv, TypeOK, Agreement, SocketsOK
  <2>2. back[on[t]] # <<>>
    BY <2>1, MessagesSent DEF IInv
  <2>3. i = 1 /\ \E r \in Threads : pc[r] = back[on[t]][1].to
    BY <2>1, <2>2, SMTT(30) DEF IInv, Agreement, RepliesAwaited
  <2>4. back[on[t]][1].to \in Waits
    BY <2>1, <2>2, MessagesSent DEF IInv, Replies
  <2>5. \A r \in Threads \ {t} : pc[r] \notin Waits
    BY <2>1, Alone DEF IInv, Waits
  <2> QED
    BY <2>3, <2>4, <2>5
<1> QED
  BY <1>1, AgreementKept, PTL

\* A logged-on user's connection is read until he logs off or a heartbeat is taken
\* (worker, RecvProc).
THEOREM ListeningHolds == Spec => []Listening
<1>1. IInv => Listening
  BY DEF IInv, Agreement, Listening
<1> QED
  BY <1>1, AgreementKept, PTL

===============================================================================
