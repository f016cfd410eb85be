---------------------------- MODULE ClientService ----------------------------
(***************************************************************************)
(* The client service (swcsvc) and what the server service makes of the    *)
(* connections it opens.  Two threads share the globals server, userid and  *)
(* password without a lock: the one that carries out service controls       *)
(* (OnLogon, OnCancelLogon, OnChangePassword, OnGetAccess), and             *)
(* KeepActivityThread, which sends a heartbeat every 28 seconds and logs    *)
(* the user on again when it cannot be sent.                                *)
(*                                                                         *)
(* A message is whole here (module Framing takes it apart), statements with *)
(* no call between them that can block are one step, and a call takes       *)
(* effect when it looks up its socket, except for a receive, which waits.   *)
(* A connection that is lost loses what was under way on it.                *)
(***************************************************************************)
EXTENDS Naturals, Sequences

CONSTANTS
  Users,       \* names of users
  Passwords,   \* passwords
  First,       \* the password every user has to begin with
  None,        \* the empty string
  Sockets,     \* handles of sockets, numbers from 1
  MaxDrops,    \* bound on how often a connection is lost or refused
  MaxQueue     \* bound on messages the server has not come to when a heartbeat is due

NoSocket == 0   \* server == NULL
Threads == {"control", "keeper"}

ASSUME ClientAssumption ==
  /\ First \in Passwords
  /\ None \notin Users \union Passwords
  /\ Sockets \subseteq Nat \ {NoSocket}
  /\ MaxDrops \in Nat /\ MaxQueue \in Nat \ {0}

VARIABLES
  server,      \* the global socket
  user,        \* userid
  password,    \* password
  pc,          \* where each thread is
  args,        \* what it was called with
  on,          \* the socket it is receiving on
  link,        \* each socket: "unused", "made", "up", "lost" or "closed" by the client
  sent,        \* messages on their way to the server
  back,        \* replies on their way to the client
  served,      \* the server is "reading" the connection, or is "deaf", or "closed" it
  role,        \* whom the server takes to be at the other end
  account,     \* the passwords the server knows
  drops,       \* connections lost or refused so far
  wanted,      \* the new password in the last request that was sent
  silenced,    \* connections on which the server came to a heartbeat, or had no policy
               \* to give to a user who was logged on
  ignored,     \* connections with a request the server will never receive
  overlapped   \* both threads have been at work at the same time

globals == <<server, user, password>>
network == <<link, sent, back, served, role, account, drops>>
seen == <<wanted, silenced, ignored>>
vars == <<globals, pc, args, on, network, seen, overlapped>>

\* The steps at which a thread waits for a reply.
Waits == {"welcome", "policy", "changed"}
PCs == {"idle", "beat", "socket", "connect", "hello", "access", "cancel", "close", "change"}
         \union Waits

Args == [user : Users \union {None}, password : Passwords \union {None},
         new : Passwords \union {None}]

NoArgs == [user |-> None, password |-> None, new |-> None]

\* "for" is the step at which the sender waits for the reply.
Messages ==
  [command : {"logon"}, for : {"welcome"}, user : Users \union {None},
    password : Passwords \union {None}] \union
  [command : {"change"}, for : {"changed"}, password : Passwords, new : Passwords] \union
  [command : {"access"}, for : {"policy"}] \union
  [command : {"cancel", "heartbeat"}, for : {"none"}]

Replies == [to : Waits, success : BOOLEAN]

TypeOK ==
  /\ server \in Sockets \union {NoSocket}
  /\ user \in Users \union {None} /\ password \in Passwords \union {None}
  /\ pc \in [Threads -> PCs] /\ args \in [Threads -> Args]
  /\ on \in [Threads -> Sockets \union {NoSocket}]
  /\ link \in [Sockets -> {"unused", "made", "up", "lost", "closed"}]
  /\ sent \in [Sockets -> Seq(Messages)] /\ back \in [Sockets -> Seq(Replies)]
  /\ served \in [Sockets -> {"reading", "deaf", "closed"}]
  /\ role \in [Sockets -> Users \union {None}]
  /\ account \in [Users -> Passwords]
  /\ drops \in 0..MaxDrops
  /\ wanted \in Passwords \union {None}
  /\ silenced \subseteq Sockets /\ ignored \subseteq Sockets
  /\ overlapped \in BOOLEAN

-----------------------------------------------------------------------------
(* The server service: RecvProc, worker and the handler of the next message. *)

Incoming(s) == Head(sent[s])

\* The handler replies and, once the reply is out, asks for the next message.
Replied(s, ok) == back' = [back EXCEPT ![s] = Append(@, [to |-> Incoming(s).for, success |-> ok])]

\* The connection is shut down for reading: nothing is received on it any more.
Deaf(s) == served' = [served EXCEPT ![s] = "deaf"]

OnClientLogon(s) ==
  LET m == Incoming(s)
      ok == role[s] = None /\ m.user \in Users /\ account[m.user] = m.password
  IN /\ m.command = "logon"
     /\ Replied(s, ok)
     /\ IF ok THEN role' = [role EXCEPT ![s] = m.user] /\ UNCHANGED served
              ELSE Deaf(s) /\ UNCHANGED role
     /\ UNCHANGED <<account, silenced>>

\* Mutant of OnClientChangePwd: the failure is not answered.
OnClientChangePwdSilent(s) ==
  LET m == Incoming(s)
      ok == role[s] # None /\ account[role[s]] = m.password
  IN /\ m.command = "change"
     /\ IF ok THEN Replied(s, ok) ELSE UNCHANGED back
     /\ account' = IF ok THEN [account EXCEPT ![role[s]] = m.new] ELSE account
     /\ UNCHANGED <<served, role, silenced>>

\* Mutant of OnClientChangePwd: every failure shuts the connection down, as in
\* OnClientLoadAccess.
OnClientChangePwdDeafens(s) ==
  LET m == Incoming(s)
      ok == role[s] # None /\ account[role[s]] = m.password
  IN /\ m.command = "change"
     /\ Replied(s, ok)
     /\ account' = IF ok THEN [account EXCEPT ![role[s]] = m.new] ELSE account
     /\ IF ok THEN UNCHANGED served ELSE Deaf(s)
     /\ UNCHANGED <<role, silenced>>

OnClientChangePwd(s) ==
  LET m == Incoming(s)
      ok == role[s] # None /\ account[role[s]] = m.password
  IN /\ m.command = "change"
     /\ Replied(s, ok)
     /\ account' = IF ok THEN [account EXCEPT ![role[s]] = m.new] ELSE account
     /\ IF role[s] = None THEN Deaf(s) ELSE UNCHANGED served
     /\ UNCHANGED <<role, silenced>>

\* policy: the administrator has set a policy for all users and one for this user.
OnClientLoadAccess(s) ==
  \E policy \in BOOLEAN :
    LET ok == role[s] # None /\ policy
    IN /\ Incoming(s).command = "access"
       /\ Replied(s, ok)
       /\ IF ok THEN UNCHANGED served ELSE Deaf(s)
       /\ silenced' = IF ok \/ role[s] = None THEN silenced ELSE silenced \union {s}
       /\ UNCHANGED <<role, account>>

OnClientCancelLogon(s) ==
  /\ Incoming(s).command = "cancel"
  /\ served' = [served EXCEPT ![s] = "closed"]
  /\ UNCHANGED <<back, role, account, silenced>>

\* A heartbeat arrives as a message of four zero bytes.  No handler is called for
\* it, and so nobody asks for the message after it.
Heartbeat(s) ==
  /\ Incoming(s).command = "heartbeat"
  /\ Deaf(s)
  /\ silenced' = silenced \union {s}
  /\ UNCHANGED <<back, role, account>>

Serve(s) ==
  /\ link[s] \in {"up", "closed"} /\ served[s] = "reading" /\ sent[s] # <<>>
  /\ \/ OnClientLogon(s)
     \/ OnClientChangePwd(s)
     \/ OnClientLoadAccess(s)
     \/ OnClientCancelLogon(s)
     \/ Heartbeat(s)
  /\ IF served'[s] = "reading"
       THEN sent' = [sent EXCEPT ![s] = Tail(@)] /\ UNCHANGED ignored
       ELSE /\ sent' = [sent EXCEPT ![s] = <<>>]
            /\ ignored' = IF \E i \in 2..Len(sent[s]) : sent[s][i].for # "none"
                            THEN ignored \union {s} ELSE ignored
  /\ UNCHANGED <<globals, pc, args, on, link, drops, wanted>>

\* A connection breaks; one that the server has closed may do so at any time.  The
\* server forgets the connection (ServerThread).
Drop(s) ==
  /\ link[s] = "up"
  /\ \/ served[s] # "closed" /\ drops < MaxDrops /\ drops' = drops + 1
     \/ served[s] = "closed" /\ UNCHANGED drops
  /\ link' = [link EXCEPT ![s] = "lost"]
  /\ sent' = [sent EXCEPT ![s] = <<>>]
  /\ back' = [back EXCEPT ![s] = <<>>]
  /\ role' = [role EXCEPT ![s] = None]
  /\ served' = [served EXCEPT ![s] = "closed"]
  /\ UNCHANGED <<globals, pc, args, on, account, seen>>

-----------------------------------------------------------------------------
(* What both threads do.                                                   *)

Go(t, to) == pc' = [pc EXCEPT ![t] = to]

\* The routine goes on without a receive under way, or returns.
Continue(t, to) == Go(t, to) /\ on' = [on EXCEPT ![t] = NoSocket] /\ UNCHANGED args
Return(t) ==
  /\ Go(t, "idle")
  /\ on' = [on EXCEPT ![t] = NoSocket]
  /\ args' = [args EXCEPT ![t] = NoArgs]

Usable(s) == s # NoSocket /\ link[s] = "up"

\* mySend.  A message the server will never receive is not kept.
Send(s, m) ==
  /\ Usable(s)
  /\ IF served[s] = "reading"
       THEN sent' = [sent EXCEPT ![s] = Append(@, m)] /\ UNCHANGED ignored
       ELSE /\ ignored' = IF m.for # "none" THEN ignored \union {s} ELSE ignored
            /\ UNCHANGED sent

\* Thread t sends m on the global socket and goes on to "to", or gives up.
SendOrGiveUp(t, m, to) ==
  /\ \/ Send(server, m) /\ Continue(t, to)
     \/ ~Usable(server) /\ Return(t) /\ UNCHANGED <<sent, ignored>>
  /\ UNCHANGED <<globals, link, back, served, role, account, drops, silenced>>

\* closesocket.
Close(s) == link' = [x \in Sockets |-> IF x = s THEN "closed" ELSE link[x]]

\* myRecv looks up the socket it waits on.
StartReceive(t) ==
  /\ pc[t] \in Waits /\ on[t] = NoSocket
  /\ \/ Usable(server) /\ on' = [on EXCEPT ![t] = server] /\ UNCHANGED <<pc, args>>
     \/ ~Usable(server) /\ Return(t)
  /\ UNCHANGED <<globals, network, seen>>

\* myRecv fails: the connection is lost, or the other thread has closed the
\* socket.  (Where the server has closed it, myRecv never returns.)
ReceiveFails(t) ==
  /\ on[t] # NoSocket /\ ~Usable(on[t])
  /\ Return(t)
  /\ UNCHANGED <<globals, network, seen>>

\* myRecv gives thread t a reply, which says whether its request succeeded.
Receives(t, ok) ==
  /\ on[t] # NoSocket /\ Usable(on[t]) /\ back[on[t]] # <<>>
  /\ ok = Head(back[on[t]]).success
  /\ back' = [back EXCEPT ![on[t]] = Tail(@)]
  /\ UNCHANGED <<link, sent, served, role, account, drops, seen>>

-----------------------------------------------------------------------------
(* OnLogon.                                                                *)

\* A socket nobody refers to any more.
Fresh(s) == s # server /\ (\A t \in Threads : on[t] # s) /\ sent[s] = <<>>

\* server = myTcpSocket().
CreateSocket(t) ==
  /\ pc[t] = "socket"
  /\ \E s \in Sockets :
       /\ Fresh(s) /\ \A r \in Sockets : Fresh(r) => s <= r
       /\ server' = s
       /\ link' = [link EXCEPT ![s] = "made"]
       /\ back' = [back EXCEPT ![s] = <<>>]
       /\ served' = [served EXCEPT ![s] = "reading"]
       /\ role' = [role EXCEPT ![s] = None]
       /\ silenced' = silenced \ {s} /\ ignored' = ignored \ {s}
  /\ Go(t, "connect")
  /\ UNCHANGED <<user, password, args, on, sent, account, drops, wanted>>

\* myConnect.  When it fails the socket stays in the global server.
Connect(t) ==
  /\ pc[t] = "connect"
  /\ \/ /\ server # NoSocket /\ link[server] = "made"
        /\ link' = [link EXCEPT ![server] = "up"]
        /\ Continue(t, "hello")
        /\ UNCHANGED drops
     \/ /\ IF server # NoSocket /\ link[server] = "made"
             THEN drops < MaxDrops /\ drops' = drops + 1
             ELSE UNCHANGED drops
        /\ Return(t)
        /\ UNCHANGED link
  /\ UNCHANGED <<globals, sent, back, served, role, account, seen>>

SendLogon(t) ==
  /\ pc[t] = "hello"
  /\ SendOrGiveUp(t, [command |-> "logon", for |-> "welcome", user |-> args[t].user,
                      password |-> args[t].password], "welcome")
  /\ UNCHANGED wanted

\* Mutant of Welcome: a refusal leaves the user as he was.
WelcomeKeepsUser(t) ==
  /\ pc[t] = "welcome"
  /\ \E ok \in BOOLEAN :
       /\ Receives(t, ok)
       /\ IF ok THEN /\ user' = args[t].user /\ password' = args[t].password
                     /\ Continue(t, "access") /\ UNCHANGED server
                ELSE Return(t) /\ UNCHANGED globals

\* The user is logged on, or else is nobody and the socket is forgotten.
Welcome(t) ==
  /\ pc[t] = "welcome"
  /\ \E ok \in BOOLEAN :
       /\ Receives(t, ok)
       /\ IF ok THEN /\ user' = args[t].user /\ password' = args[t].password
                     /\ Continue(t, "access") /\ UNCHANGED server
                ELSE /\ server' = NoSocket /\ user' = None
                     /\ Return(t) /\ UNCHANGED password

\* OnGetAccess, which OnLogon calls too.
SendAccess(t) ==
  /\ pc[t] = "access"
  /\ SendOrGiveUp(t, [command |-> "access", for |-> "policy"], "policy")
  /\ UNCHANGED wanted

Policy(t) ==
  /\ pc[t] = "policy"
  /\ \E ok \in BOOLEAN : Receives(t, ok)
  /\ Return(t)
  /\ UNCHANGED globals

-----------------------------------------------------------------------------
(* Service controls, which come one after the other.                       *)

\* OnLogon does nothing when a user is logged on.
AskLogon(u, p) ==
  /\ pc["control"] = "idle"
  /\ ~(server # NoSocket /\ user # None)
  /\ args' = [args EXCEPT !["control"] = [user |-> u, password |-> p, new |-> None]]
  /\ Go("control", "socket")
  /\ UNCHANGED <<globals, on, network, seen>>

AskAccess ==
  /\ pc["control"] = "idle"
  /\ Go("control", "access")
  /\ UNCHANGED <<globals, args, on, network, seen>>

AskChange(p, n) ==
  /\ pc["control"] = "idle"
  /\ args' = [args EXCEPT !["control"] = [user |-> None, password |-> p, new |-> n]]
  /\ Go("control", "change")
  /\ UNCHANGED <<globals, on, network, seen>>

\* Mutant of SendChange: the reply is not waited for.
SendChangeAndReturn ==
  LET a == args["control"]
  IN /\ pc["control"] = "change"
     /\ Send(server, [command |-> "change", for |-> "changed",
                      password |-> a.password, new |-> a.new])
     /\ Return("control")
     /\ wanted' = a.new
     /\ UNCHANGED <<globals, link, back, served, role, account, drops, silenced>>

\* OnChangePassword.
SendChange ==
  LET a == args["control"]
  IN /\ pc["control"] = "change"
     /\ SendOrGiveUp("control", [command |-> "change", for |-> "changed",
                       password |-> a.password, new |-> a.new], "changed")
     /\ wanted' = IF Usable(server) THEN a.new ELSE wanted

\* Mutant of Changed: the new password is remembered whatever the reply.
ChangedRegardless ==
  /\ pc["control"] = "changed"
  /\ \E ok \in BOOLEAN : Receives("control", ok)
  /\ password' = args["control"].new
  /\ Return("control")
  /\ UNCHANGED <<server, user>>

Changed ==
  /\ pc["control"] = "changed"
  /\ \E ok \in BOOLEAN :
       /\ Receives("control", ok)
       /\ password' = IF ok THEN args["control"].new ELSE password
  /\ Return("control")
  /\ UNCHANGED <<server, user>>

\* OnCancelLogon.  The request is sent when there is a socket.
AskCancel ==
  /\ pc["control"] = "idle"
  /\ Go("control", "cancel")
  /\ UNCHANGED <<globals, args, on, network, seen>>

SendCancel ==
  /\ pc["control"] = "cancel"
  /\ Go("control", "close")
  /\ \/ Send(server, [command |-> "cancel", for |-> "none"])
     \/ ~Usable(server) /\ UNCHANGED <<sent, ignored>>
  /\ UNCHANGED <<globals, args, on, link, back, served, role, account, drops, wanted, silenced>>

\* Whatever became of it the user is logged off.
LogOff ==
  /\ pc["control"] = "close"
  /\ Close(server)
  /\ server' = NoSocket /\ user' = None /\ password' = None
  /\ Go("control", "idle")
  /\ UNCHANGED <<args, on, sent, back, served, role, account, drops, seen>>

-----------------------------------------------------------------------------
(* KeepActivityThread.                                                     *)

\* It is time for a heartbeat, and a user is logged on.
WakeUp ==
  /\ pc["keeper"] = "idle" /\ user # None
  /\ server # NoSocket => Len(sent[server]) < MaxQueue
  /\ Go("keeper", "beat")
  /\ UNCHANGED <<globals, args, on, network, seen>>

\* Mutant of SendHeartbeat: the socket is closed but stays in server.
SendHeartbeatKeepsSocket ==
  /\ pc["keeper"] = "beat"
  /\ \/ /\ Send(server, [command |-> "heartbeat", for |-> "none"])
        /\ Go("keeper", "idle")
        /\ UNCHANGED <<server, args, link>>
     \/ /\ ~Usable(server)
        /\ Close(server)
        /\ args' = [args EXCEPT !["keeper"] = [user |-> user, password |-> password, new |-> None]]
        /\ Go("keeper", IF server # NoSocket /\ user # None THEN "idle" ELSE "socket")
        /\ UNCHANGED <<server, sent, ignored>>
  /\ UNCHANGED <<user, password, on, back, served, role, account, drops, wanted, silenced>>

\* When it cannot be sent the socket is closed and the user logged on again.  From the
\* failure on the keeper is at work: a control that got in before it has closed the
\* socket would make both be (overlapped).
SendHeartbeat ==
  /\ pc["keeper"] = "beat"
  /\ \/ /\ Send(server, [command |-> "heartbeat", for |-> "none"])
        /\ Go("keeper", "idle")
        /\ UNCHANGED <<server, args, link>>
     \/ /\ ~Usable(server)
        /\ Close(server)
        /\ server' = NoSocket
        /\ args' = [args EXCEPT !["keeper"] = [user |-> user, password |-> password, new |-> None]]
        /\ Go("keeper", "socket")
        /\ UNCHANGED <<sent, ignored>>
  /\ UNCHANGED <<user, password, on, back, served, role, account, drops, wanted, silenced>>

-----------------------------------------------------------------------------

Init ==
  /\ server = NoSocket /\ user = None /\ password = None
  /\ pc = [t \in Threads |-> "idle"]
  /\ args = [t \in Threads |-> NoArgs]
  /\ on = [t \in Threads |-> NoSocket]
  /\ link = [s \in Sockets |-> "unused"]
  /\ sent = [s \in Sockets |-> <<>>] /\ back = [s \in Sockets |-> <<>>]
  /\ served = [s \in Sockets |-> "reading"]
  /\ role = [s \in Sockets |-> None]
  /\ account = [u \in Users |-> First]
  /\ drops = 0
  /\ wanted = None /\ silenced = {} /\ ignored = {} /\ overlapped = FALSE

\* What the tray client may ask for.
Ask ==
  \/ \E u \in Users, p \in Passwords : AskLogon(u, p)
  \/ \E p, n \in Passwords : AskChange(p, n)
  \/ AskAccess
  \/ AskCancel

\* The next step of a thread inside the service.
Work(t) ==
  \/ StartReceive(t)
  \/ ReceiveFails(t)
  \/ CreateSocket(t)
  \/ Connect(t)
  \/ SendLogon(t)
  \/ Welcome(t)
  \/ SendAccess(t)
  \/ Policy(t)
  \/ t = "control" /\ (SendChange \/ Changed \/ SendCancel \/ LogOff)
  \/ t = "keeper" /\ (WakeUp \/ SendHeartbeat)

\* Both threads are inside a routine that uses the globals.
AtOnce == pc'["control"] # "idle" /\ pc'["keeper"] \notin {"idle", "beat"}

\* Both threads on one socket take each other's replies: one may wait for ever, and the
\* user may be logged on again after he logged off.  The specification ends there.
Next ==
  /\ ~overlapped
  /\ \/ Ask
     \/ \E t \in Threads : Work(t)
     \/ \E s \in Sockets : Serve(s) \/ Drop(s)
  /\ overlapped' = AtOnce

\* Threads and the server go on; nobody has to ask, and no connection has to break.
Fairness ==
  /\ \A t \in Threads : WF_vars(~overlapped /\ Work(t) /\ overlapped' = AtOnce)
  /\ \A s \in Sockets : WF_vars(~overlapped /\ Serve(s) /\ overlapped' = AtOnce)

Spec == Init /\ [][Next]_vars /\ Fairness

-----------------------------------------------------------------------------
(* Properties.  Most hold as long as the two threads have not been in the    *)
(* routines above at the same time: nothing keeps them apart.                *)

\* The socket of the service leads to the server.
Connected == server # NoSocket /\ link[server] = "up"

\* Whom the service takes to be logged on is whom the server takes to be at the
\* other end of the connection, whatever was lost, refused or logged on again
\* (OnLogon, OnCancelLogon, KeepActivityThread).
SameUser ==
  ~overlapped /\ Connected /\ user # None /\ pc["control"] = "idle" /\ pc["keeper"] = "idle"
    => role[server] = user

\* The password in the service's memory is the user's, or else the last change it
\* asked for was made and the answer is outstanding or lost: there is no third
\* password that somebody would have to guess (OnChangePassword).
PasswordKnown ==
  ~overlapped /\ user # None => account[user] \in {password, wanted}

\* A thread that takes a reply off the connection takes the reply to what it has
\* asked for itself, though nothing in a reply says so: none is left over from an
\* earlier request or an earlier connection (myRecv in OnLogon, OnChangePassword,
\* OnGetAccess).
AnswersMatch ==
  ~overlapped =>
    \A t \in Threads : on[t] # NoSocket /\ link[on[t]] = "up" =>
      \A i \in 1..Len(back[on[t]]) : i = 1 /\ back[on[t]][i].to = pc[t]

\* The server goes on listening to a user who is logged on, until he logs off, it
\* comes to a heartbeat or it has no policy to give him (worker, RecvProc,
\* OnClientLoadAccess, KeepActivityThread): no other request, refused or not, makes
\* it deaf to him.
Listening ==
  ~overlapped =>
    \A s \in Sockets : role[s] # None /\ link[s] = "up" =>
      served[s] = "reading" \/ s \in silenced \/ (s = server /\ pc["control"] = "close")

\* A service control returns to the tray client, unless its request came behind a
\* heartbeat or a request for a policy that is not there, which have made the server
\* deaf (ServiceCtrlHandler, worker, OnClientLoadAccess).
ControlReturns ==
  (pc["control"] # "idle") ~>
    (pc["control"] = "idle" \/ overlapped \/ on["control"] \in ignored \intersect silenced)

\* A user whose connection was lost is logged on again, or is told that he is not.
LoggedOnAgain ==
  (user # None /\ ~Connected) ~>
    (user = None \/ overlapped \/ (Connected /\ role[server] = user))


-----------------------------------------------------------------------------
(* Why client and server agree, as an inductive invariant.                  *)

\* A thread that logs on, from the connection of its socket to the reply.
LoggingOn(t) == pc[t] \in {"connect", "hello", "welcome"}

\* Which steps a thread takes, and on which socket it waits for a reply.
Places ==
  /\ overlapped <=> (pc["control"] # "idle" /\ pc["keeper"] \notin {"idle", "beat"})
  /\ pc["control"] # "beat"
  /\ pc["keeper"] \notin {"cancel", "close", "change", "changed"}
  /\ pc["control"] = "change" =>
       args["control"].password \in Passwords /\ args["control"].new \in Passwords
  /\ pc["control"] = "changed" =>
       args["control"].new \in Passwords /\ args["control"].new = wanted

\* Who is about to make a socket has no connection, and who is about to connect
\* one has it.
SocketsOK ==
  /\ \A t \in Threads : on[t] # NoSocket => pc[t] \in Waits /\ on[t] = server
  /\ \A t \in Threads : pc[t] = "socket" => ~Connected
  /\ \A t \in Threads : pc[t] = "connect" => server # NoSocket /\ link[server] = "made"
  /\ \A s \in Sockets : link[s] = "made" => role[s] = None

\* A request on its way is on the connection of the service, it is the only one and
\* nothing is on the way back, and the thread that sent it waits for the reply.
RequestsAwaited ==
  \A s \in Sockets : \A i \in 1..Len(sent[s]) :
    sent[s][i].for # "none" =>
      /\ s = server /\ link[s] = "up" /\ back[s] = <<>>
      /\ \A j \in 1..Len(sent[s]) : sent[s][j].for # "none" => i = j
      /\ \E t \in Threads :
           /\ pc[t] = sent[s][i].for
           /\ sent[s][i].command = "logon" =>
                /\ role[s] = None
                /\ sent[s][i].user = args[t].user /\ sent[s][i].password = args[t].password
           /\ sent[s][i].command = "change" => sent[s][i].new = args[t].new

\* So is a reply, and no other is behind it.
RepliesAwaited ==
  \A s \in Sockets : back[s] # <<>> =>
    /\ s = server /\ link[s] = "up" /\ Len(back[s]) = 1
    /\ \E t \in Threads : pc[t] = back[s][1].to

\* Only who logs off sends that he does.
CancelsClose ==
  \A s \in Sockets : \A i \in 1..Len(sent[s]) :
    sent[s][i].command = "cancel" =>
      link[s] = "closed" \/ (s = server /\ pc["control"] = "close")

\* The server has accepted what thread t asked for.
Accepted(s) == back[s] # <<>> /\ back[s][1].success

\* A connection is that of a user who is logged on, or of a thread that logs one
\* on and whom the server may have accepted, or one the server has refused.
ConnectionsOK ==
  \A s \in Sockets : link[s] = "up" =>
    \/ /\ s = server /\ user # None /\ role[s] = user
       /\ \A t \in Threads : ~LoggingOn(t)
    \/ s = server /\ role[s] = None /\ \E t \in Threads : pc[t] = "hello"
    \/ /\ s = server
       /\ \E t \in Threads :
            /\ pc[t] = "welcome"
            /\ IF Accepted(s)
                 THEN /\ args[t].user \in Users /\ args[t].password \in Passwords
                      /\ role[s] = args[t].user
                      /\ account[args[t].user] = args[t].password
                 ELSE role[s] = None /\ (back[s] # <<>> => served[s] # "reading")
    \/ s # server /\ role[s] = None /\ served[s] # "reading"

\* Whoever is logged on and connected has the right password in memory, except
\* between the answer to a change and its arrival.
PasswordRight ==
  user # None /\ Connected /\ (\A t \in Threads : ~LoggingOn(t)) =>
    account[user] = IF pc["control"] = "changed" /\ Accepted(server) THEN wanted ELSE password

Agreement ==
  /\ SocketsOK
  /\ RequestsAwaited
  /\ RepliesAwaited
  /\ CancelsClose
  /\ ConnectionsOK
  /\ PasswordRight
  /\ PasswordKnown
  /\ Listening

IInv == TypeOK /\ Places /\ (~overlapped => Agreement)

=============================================================================
