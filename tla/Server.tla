------------------------------- MODULE Server -------------------------------
(***************************************************************************)
(* Server of src/src/Socket/Server.cpp with the Socket::Poll it uses: the  *)
(* event loop run(), the user code its callbacks run (which may call any   *)
(* member function, on any object), the resolver threads, a thread that    *)
(* calls interrupt(), and the peers at the other end of the connections.   *)
(*                                                                         *)
(* A callback is a state of the loop in which user code acts; the timers,  *)
(* whose callbacks are one more place for user code, are in ServerTimers.  *)
(* The user's obligations: an object is not used after it was removed, a   *)
(* client removed in onAccepted() or onConnected() is answered with null,  *)
(* and clear() is not called from a callback.                              *)
(***************************************************************************)
EXTENDS Poll, FiniteSets, SequencesExt

CONSTANTS Clients,        \* addresses of ClientImpl objects; freed ones are reused
          Establishers,   \* addresses of EstablisherImpl objects
          Listener,       \* the address of the one ListenerImpl
          MaxRoom,        \* bound: what the kernel takes before it would block
          Budgets         \* bounds: how often the user and the peers do something

\* Objects of different kinds have different addresses, and none is the null pointer.
ASSUME ServerAssumption == /\ MaxRoom \in Nat \ {0}
                           /\ Clients \cap Establishers = {}
                           /\ Listener \notin Clients \cup Establishers
                           /\ "none" \notin Establishers

VARIABLES
  poll,         \* _sockets
  clients,      \* _clients: _callback, _suspended, _sendBuffer
  conn,         \* the kernel's side of each client
  listening,    \* _listeners is not empty
  backlog,      \* connections to accept
  ests,         \* _establishers: the resolver, and the state of the socket
  resolvers,    \* _resolvers: establisher, finished
  worker,       \* the thread of each resolver and its result
  closing,      \* _closingClients
  interrupted,  \* _interrupted
  eventFd,      \* the counter of the event descriptor is not zero
  notifying,    \* a call of interrupt() still has to write the descriptor
  loop,         \* where run() is
  budget        \* what is left of the bounds

netVars == <<conn, listening, backlog>>
resVars == <<resolvers, worker>>
sigVars == <<interrupted, eventFd, notifying>>
vars == <<poll, clients, netVars, ests, resVars, closing, sigVars, loop, budget>>

None == "none"   \* no establisher
End == 0         \* no resolver, _resolvers.end()

NewClient(callback) == [callback |-> callback, suspended |-> FALSE, sendBuffer |-> <<>>]

Idle == [at |-> "idle"]
At(pc) == loop.at = pc

\* run() calls back: which function, of which object, and where it goes on then.
Callback(fn, obj, then, iter) ==
  loop' = [at |-> "callback", fn |-> fn, obj |-> obj, then |-> then, iter |-> iter,
           gone |-> FALSE]

\* User code runs.
User == At("idle") \/ At("callback")

Spend(what) == /\ budget[what] > 0
               /\ budget' = [budget EXCEPT ![what] = @ - 1]

\* The clients the user may use.
Mine == {c \in DOMAIN clients : ~(At("callback") /\ loop.gone /\ loop.obj = c)}

AddToClosing(c) == closing' = IF Contains(closing, c) THEN closing ELSE Append(closing, c)

-----------------------------------------------------------------------------
(* What the user calls.                                                    *)

listen ==
  /\ User /\ ~listening /\ Spend("listen")
  /\ \/ UNCHANGED <<listening, poll>>   \* bind or listen fail
     \/ /\ listening' = TRUE
        /\ poll' = PollSet(poll, Listener, {"accept"})
  /\ UNCHANGED <<clients, conn, backlog, ests, resVars, closing, sigVars, loop>>

\* connect(addr): a connection is under way, or the call has failed.
connect ==
  /\ User /\ Spend("connect")
  /\ \/ UNCHANGED <<ests, poll>>
     \/ \E e \in Establishers \ DOMAIN ests :
          /\ ests' = With(ests, e, [resolver |-> End, sock |-> "connecting"])
          /\ poll' = PollSet(poll, e, {"connect"})
  /\ UNCHANGED <<clients, netVars, resVars, closing, sigVars, loop>>

\* connect(host) with a name: a job of the thread pool resolves it.
connectHost ==
  /\ User /\ Spend("host")
  /\ \E e \in Establishers \ DOMAIN ests :
       LET r == Cardinality(DOMAIN worker) + 1
       IN  /\ ests' = With(ests, e, [resolver |-> r, sock |-> "none"])
           /\ resolvers' = With(resolvers, r, [establisher |-> e, finished |-> FALSE])
           /\ worker' = With(worker, r, [at |-> "resolve", addr |-> FALSE])
  /\ UNCHANGED <<poll, clients, netVars, closing, sigVars, loop>>

pair ==
  /\ User /\ Spend("pair")
  /\ \/ UNCHANGED <<clients, conn, poll>>
     \/ \E c \in Clients \ DOMAIN clients :
          /\ clients' = With(clients, c, NewClient(TRUE))
          /\ conn' = With(conn, c, NewConn(MaxRoom))
          /\ poll' = PollSet(poll, c, {"read"})
  /\ UNCHANGED <<listening, backlog, ests, resVars, closing, sigVars, loop>>

deleteClient(c) ==
  /\ closing' = IF Contains(closing, c)
                THEN RemoveAt(closing, CHOOSE i \in DOMAIN closing : closing[i] = c)
                ELSE closing
  /\ poll' = PollRemove(poll, c)
  /\ clients' = Without(clients, c)
  /\ conn' = Without(conn, c)

\* remove(client): one whose callback is not known yet is deleted later.
removeClient(c) ==
  /\ User /\ c \in Mine
  /\ IF clients[c].callback
     THEN deleteClient(c) /\ UNCHANGED loop
     ELSE /\ AddToClosing(c)
          /\ loop' = [loop EXCEPT !.gone = TRUE]
          /\ UNCHANGED <<poll, clients, conn>>
  /\ UNCHANGED <<listening, backlog, ests, resVars, sigVars, budget>>

removeListener ==
  /\ User /\ listening
  /\ listening' = FALSE
  /\ backlog' = 0
  /\ poll' = PollRemove(poll, Listener)
  /\ UNCHANGED <<clients, conn, ests, resVars, closing, sigVars, loop, budget>>

\* Mutant: the resolver keeps the pointer to the establisher.
removeEstablisherOnly(e) ==
  /\ User /\ e \in DOMAIN ests
  /\ poll' = PollRemove(poll, e)
  /\ ests' = Without(ests, e)
  /\ UNCHANGED <<clients, netVars, resVars, closing, sigVars, loop, budget>>

removeEstablisher(e) ==
  /\ User /\ e \in DOMAIN ests
  /\ resolvers' = IF ests[e].resolver = End THEN resolvers
                  ELSE [resolvers EXCEPT ![ests[e].resolver].establisher = None]
  /\ poll' = PollRemove(poll, e)
  /\ ests' = Without(ests, e)
  /\ UNCHANGED <<clients, netVars, worker, closing, sigVars, loop, budget>>

\* Mutant: a write while data is waiting goes to the socket directly.
writeOvertakes(c, n) ==
  /\ User /\ c \in Mine /\ Spend("write")
  /\ LET data == [i \in 1 .. n |-> conn[c].written + i]
         s == Send([conn[c] EXCEPT !.written = @ + n], data)
         buffer == clients[c].sendBuffer \o SubSeq(data, s.sent + 1, n)
     IN  /\ s.res \in {"ok", "again"}
         /\ conn' = [conn EXCEPT ![c] = s.conn]
         /\ clients' = [clients EXCEPT ![c].sendBuffer = buffer]
         /\ poll' = IF buffer = <<>> THEN poll
                    ELSE PollSet(poll, c, IF clients[c].suspended THEN {"write"} ELSE {"read", "write"})
  /\ UNCHANGED <<listening, backlog, ests, resVars, closing, sigVars, loop>>

\* ClientImpl::write of n bytes.  Nothing can be sent: the client is closed; the call
\* returns false and its bytes are the user's again.
write(c, n) ==
  /\ User /\ c \in Mine /\ Spend("write")
  /\ LET data == [i \in 1 .. n |-> conn[c].written + i]
         k == [conn[c] EXCEPT !.written = @ + n]
         s == Send(k, data)
         Postpone(k2, rest) ==
           /\ conn' = [conn EXCEPT ![c] = k2]
           /\ clients' = [clients EXCEPT ![c].sendBuffer = @ \o rest]
           /\ UNCHANGED closing
     IN  IF clients[c].sendBuffer # <<>>
         THEN Postpone(k, data) /\ UNCHANGED poll
         ELSE IF s.res \in {"error", "zero"}
         THEN AddToClosing(c) /\ UNCHANGED <<clients, conn, poll>>
         ELSE /\ Postpone(s.conn, SubSeq(data, s.sent + 1, n))
              /\ poll' = IF s.sent = n THEN poll
                         ELSE PollSet(poll, c, IF clients[c].suspended THEN {"write"}
                                           ELSE {"read", "write"})
  /\ UNCHANGED <<listening, backlog, ests, resVars, sigVars, loop>>

\* ClientImpl::read.
read(c) ==
  /\ User /\ c \in Mine /\ Spend("read")
  /\ LET r == Recv(conn[c])
     IN  /\ conn' = [conn EXCEPT ![c] = r.conn]
         /\ IF r.res \in {"error", "zero"} THEN AddToClosing(c) ELSE UNCHANGED closing
  /\ UNCHANGED <<poll, clients, listening, backlog, ests, resVars, sigVars, loop>>

\* The flags a client has to wait for.
Wanted(cl) == (IF cl.suspended THEN {} ELSE {"read"})
                \cup (IF cl.sendBuffer = <<>> THEN {} ELSE {"write"})

\* Mutant: the send buffer is forgotten.
setSuspendedReadOnly(c, flag) ==
  /\ User /\ c \in Mine /\ clients[c].suspended # flag
  /\ clients' = [clients EXCEPT ![c].suspended = flag]
  /\ poll' = PollSet(poll, c, IF flag THEN {} ELSE {"read"})
  /\ UNCHANGED <<netVars, ests, resVars, closing, sigVars, loop, budget>>

\* ClientImpl::suspend and resume.
setSuspended(c, flag) ==
  /\ User /\ c \in Mine /\ clients[c].suspended # flag
  /\ clients' = [clients EXCEPT ![c].suspended = flag]
  /\ poll' = PollSet(poll, c, Wanted(clients'[c]))
  /\ UNCHANGED <<netVars, ests, resVars, closing, sigVars, loop, budget>>

\* clear(), outside run(): ~Future waits for the resolver threads.
clear ==
  /\ At("idle") /\ Spend("clear")
  /\ \A r \in DOMAIN resolvers : worker[r].at = "done"
  /\ poll' = NewPoll
  /\ clients' = <<>> /\ conn' = <<>>
  /\ listening' = FALSE /\ backlog' = 0
  /\ ests' = <<>> /\ resolvers' = <<>> /\ closing' = <<>>
  /\ interrupted' = FALSE
  /\ UNCHANGED <<worker, eventFd, notifying, loop>>

\* The user calls run().
startRun == /\ At("idle") /\ Spend("run")
            /\ loop' = [at |-> "closing"]
            /\ UNCHANGED <<poll, clients, netVars, ests, resVars, closing, sigVars>>

UserCall ==
  \/ listen \/ connect \/ connectHost \/ pair \/ removeListener \/ clear \/ startRun
  \/ \E c \in Clients : \/ removeClient(c) \/ read(c)
                        \/ \E n \in 0 .. 2 : write(c, n)
                        \/ \E f \in BOOLEAN : setSuspended(c, f)
  \/ \E e \in Establishers : removeEstablisher(e)

-----------------------------------------------------------------------------
(* The event loop.                                                         *)

\* A callback returns.  onAccepted and onConnected return the client's callback; null
\* deletes the client.
Return ==
  /\ At("callback")
  /\ loop' = [at |-> loop.then, iter |-> loop.iter]
  /\ IF loop.fn \in {"onAccepted", "onConnected"}
     THEN \/ deleteClient(loop.obj)
          \/ /\ ~loop.gone
             /\ clients' = [clients EXCEPT ![loop.obj].callback = TRUE]
             /\ UNCHANGED <<poll, conn, closing>>
     ELSE UNCHANGED <<poll, clients, conn, closing>>
  /\ UNCHANGED <<listening, backlog, ests, resVars, sigVars, budget>>

\* The loop over _closingClients; line 271 cannot be reached, see the README.
CloseClients ==
  /\ At("closing")
  /\ IF closing = <<>>
     THEN loop' = [at |-> "poll"] /\ UNCHANGED closing
     ELSE closing' = Tail(closing) /\ Callback("onClosed", Head(closing), "closing", End)
  /\ UNCHANGED <<poll, clients, netVars, ests, resVars, sigVars, budget>>

ReadyEst(e) == CASE e.sock = "connected" -> {"OUT"}
                 [] e.sock = "refused" -> Native
                 [] OTHER -> {}

Ready == [s \in DOMAIN poll.sockets |->
            IF s \in Clients THEN ReadyConn(conn[s])
            ELSE IF s \in Establishers THEN ReadyEst(ests[s])
            ELSE IF backlog > 0 THEN {"IN"} ELSE {}]

FirstResolver(S) == IF S = {} THEN End ELSE Min(S)

\* poll() without an event: a timeout, an interrupt or an event without flags.
NoEvent == loop' = [at |-> "resolvers", iter |-> FirstResolver(DOMAIN resolvers)]

\* Mutant: the descriptor is read after the event, whether it was reported or not.
WaitDrains ==
  /\ At("poll") /\ DOMAIN poll.selected = {}
  /\ poll' = Select(poll, Ready)
  /\ DOMAIN poll'.selected # {} \/ eventFd
  /\ eventFd' = FALSE
  /\ IF DOMAIN poll'.selected = {} THEN NoEvent ELSE loop' = [at |-> "poll"]
  /\ UNCHANGED <<clients, netVars, ests, resVars, closing, interrupted, notifying, budget>>

\* poll(), nothing is selected: epoll_wait returns with what is ready.
Wait ==
  /\ At("poll") /\ DOMAIN poll.selected = {}
  /\ poll' = Select(poll, Ready)
  /\ DOMAIN poll'.selected # {} \/ eventFd
  /\ eventFd' = FALSE
  /\ IF eventFd THEN NoEvent ELSE loop' = [at |-> "poll"]
  /\ UNCHANGED <<clients, netVars, ests, resVars, closing, interrupted, notifying, budget>>

\* epoll_wait returns because a timer is due.
Timeout ==
  /\ At("poll") /\ DOMAIN poll.selected = {}
  /\ DOMAIN Select(poll, Ready).selected = {} /\ ~eventFd
  /\ NoEvent
  /\ UNCHANGED <<poll, clients, netVars, ests, resVars, closing, sigVars, budget>>

\* poll() hands out a selected socket.
TakeEvent ==
  /\ At("poll")
  /\ \E s \in DOMAIN poll.selected :
       /\ poll' = Take(poll, s)
       /\ IF poll.selected[s] = {} THEN NoEvent
          ELSE loop' = [at |-> "dispatch", obj |-> s, flags |-> poll.selected[s]]
  /\ UNCHANGED <<clients, netVars, ests, resVars, closing, sigVars, budget>>

DispatchRead ==
  /\ At("dispatch") /\ "read" \in loop.flags
  /\ Callback("onRead", loop.obj, "closing", End)
  /\ UNCHANGED <<poll, clients, netVars, ests, resVars, closing, sigVars, budget>>

\* Mutant: after a part was sent the client waits for input only.
DispatchWriteOnce ==
  /\ At("dispatch") /\ "write" \in loop.flags /\ "read" \notin loop.flags
  /\ LET c == loop.obj
         s == Send(conn[c], clients[c].sendBuffer)
     IN  /\ conn' = [conn EXCEPT ![c] = s.conn]
         /\ clients' = [clients EXCEPT ![c].sendBuffer = SubSeq(@, s.sent + 1, Len(@))]
         /\ poll' = PollSet(poll, c, IF clients[c].suspended THEN {} ELSE {"read"})
         /\ Callback("onWrite", c, "closing", End)
  /\ UNCHANGED <<listening, backlog, ests, resVars, closing, sigVars, budget>>

\* The send buffer is flushed.
DispatchWrite ==
  /\ At("dispatch") /\ "write" \in loop.flags /\ "read" \notin loop.flags
  /\ LET c == loop.obj
         s == Send(conn[c], clients[c].sendBuffer)
         left == SubSeq(clients[c].sendBuffer, s.sent + 1, Len(clients[c].sendBuffer))
         empty == clients[c].sendBuffer = <<>>
         failed == ~empty /\ s.res = "error"
     IN  /\ conn' = IF empty THEN conn ELSE [conn EXCEPT ![c] = s.conn]
         /\ clients' = [clients EXCEPT ![c].sendBuffer = IF failed THEN <<>> ELSE left]
         /\ poll' = CASE failed -> PollRemove(poll, c)
                      [] ~failed /\ left = <<>> ->
                           PollSet(poll, c, IF clients[c].suspended THEN {} ELSE {"read"})
                      [] OTHER -> poll
         /\ CASE failed -> Callback("onClosed", c, "closing", End)
              [] ~failed /\ left = <<>> -> Callback("onWrite", c, "closing", End)
              [] OTHER -> loop' = [at |-> "closing"]
  /\ UNCHANGED <<listening, backlog, ests, resVars, closing, sigVars, budget>>

\* A connection is accepted; accept or an option of the new socket may fail.
DispatchAccept ==
  /\ At("dispatch") /\ "accept" \in loop.flags
  /\ \/ /\ backlog' \in {backlog, IF backlog = 0 THEN 0 ELSE backlog - 1}
        /\ loop' = [at |-> "closing"]
        /\ UNCHANGED <<clients, conn, poll>>
     \/ /\ backlog > 0
        /\ backlog' = backlog - 1
        /\ \E c \in Clients \ DOMAIN clients :
             /\ clients' = With(clients, c, NewClient(FALSE))
             /\ conn' = With(conn, c, NewConn(MaxRoom))
             /\ poll' = PollSet(poll, c, {"read"})
             /\ Callback("onAccepted", c, "closing", End)
  /\ UNCHANGED <<listening, ests, resVars, closing, sigVars, budget>>

\* A connection is established or refused; the client takes the socket over.
DispatchConnect ==
  /\ At("dispatch") /\ "connect" \in loop.flags
  /\ LET e == loop.obj
         removed == PollRemove(poll, e)
     IN  \/ /\ Callback("onAbolished", e, "closing", End)
            /\ poll' = removed
            /\ UNCHANGED <<clients, conn, ests>>
         \/ /\ ests[e].sock = "connected"
            /\ \E c \in Clients \ DOMAIN clients :
                 /\ clients' = With(clients, c, NewClient(FALSE))
                 /\ conn' = With(conn, c, NewConn(MaxRoom))
                 /\ ests' = [ests EXCEPT ![e].sock = "none"]
                 /\ poll' = PollSet(removed, c, {"read"})
                 /\ Callback("onConnected", c, "closing", End)
  /\ UNCHANGED <<listening, backlog, resVars, closing, sigVars, budget>>

\* The loop over _resolvers: the iterator has moved on before the callback.  The value
\* of the future, and its destructor, wait for the thread.  The code removes the resolver
\* after the callback, which cannot reach it any more.
VisitResolver ==
  /\ At("resolvers") /\ loop.iter # End
  /\ LET r == loop.iter
         e == resolvers[r].establisher
         next == FirstResolver({q \in DOMAIN resolvers : q > r})
         GoOn == loop' = [at |-> "resolvers", iter |-> next]
     IN  IF ~resolvers[r].finished
         THEN GoOn /\ UNCHANGED <<resolvers, ests, poll>>
         ELSE /\ worker[r].at = "done"
              /\ resolvers' = Without(resolvers, r)
              /\ IF e = None THEN GoOn /\ UNCHANGED <<ests, poll>>
                 ELSE \/ /\ ests' = [ests EXCEPT ![e].resolver = End]
                         /\ Callback("onAbolished", e, "resolvers", next)
                         /\ UNCHANGED poll
                      \/ /\ worker[r].addr
                         /\ ests' = [ests EXCEPT ![e] = [resolver |-> End, sock |-> "connecting"]]
                         /\ poll' = PollSet(poll, e, {"connect"})
                         /\ GoOn
  /\ UNCHANGED <<clients, netVars, worker, closing, sigVars, budget>>

\* After the loop over _resolvers: has interrupt() been called?
CheckInterrupted ==
  /\ At("resolvers") /\ loop.iter = End
  /\ loop' = IF interrupted THEN Idle ELSE [at |-> "closing"]
  /\ interrupted' = FALSE
  /\ UNCHANGED <<poll, clients, netVars, ests, resVars, closing, eventFd, notifying, budget>>

Run == \/ Return \/ CloseClients \/ Wait \/ TakeEvent \/ DispatchRead \/ DispatchWrite
       \/ DispatchAccept \/ DispatchConnect \/ VisitResolver \/ CheckInterrupted

-----------------------------------------------------------------------------
(* The other threads.                                                      *)

\* interrupt(): the flag under the mutex, then the descriptor.
interrupt ==
  /\ ~notifying /\ Spend("interrupt")
  /\ interrupted' = TRUE
  /\ notifying' = ~interrupted
  /\ UNCHANGED <<poll, clients, netVars, ests, resVars, closing, eventFd, loop>>

Notify ==
  /\ notifying
  /\ notifying' = FALSE
  /\ eventFd' = TRUE
  /\ UNCHANGED <<poll, clients, netVars, ests, resVars, closing, interrupted, loop, budget>>

\* Mutant: the loop is woken before `finished' is set.
resolveNotifiesFirst(r) ==
  /\ r \in DOMAIN worker
  /\ \/ /\ worker[r].at = "resolve"
        /\ worker' = [worker EXCEPT ![r].at = "finished"]
        /\ eventFd' = TRUE
        /\ UNCHANGED resolvers
     \/ /\ worker[r].at = "finished"
        /\ resolvers' = [resolvers EXCEPT ![r].finished = TRUE]
        /\ worker' = [worker EXCEPT ![r].at = "done"]
        /\ UNCHANGED eventFd
  /\ UNCHANGED <<poll, clients, netVars, ests, closing, interrupted, notifying, loop, budget>>

\* resolve(): the name is looked up, `finished' is set, the loop is woken.
resolve(r) ==
  /\ r \in DOMAIN worker
  /\ \/ /\ worker[r].at = "resolve"
        /\ \E addr \in BOOLEAN : worker' = [worker EXCEPT ![r] = [at |-> "finished", addr |-> addr]]
        /\ resolvers' = [resolvers EXCEPT ![r].finished = TRUE]
        /\ UNCHANGED eventFd
     \/ /\ worker[r].at = "finished"
        /\ eventFd' = TRUE
        /\ worker' = [worker EXCEPT ![r].at = "done"]
        /\ UNCHANGED resolvers
  /\ UNCHANGED <<poll, clients, netVars, ests, closing, interrupted, notifying, loop, budget>>

-----------------------------------------------------------------------------
(* The peers.                                                              *)

Arrive == /\ listening /\ Spend("arrive") /\ backlog' = backlog + 1
          /\ UNCHANGED <<poll, clients, conn, listening, ests, resVars, closing, sigVars, loop>>

\* Data, the end of the data, a reset.
PeerSends(c) ==
  /\ c \in DOMAIN conn /\ ~conn[c].err
  /\ \/ ~conn[c].fin /\ Spend("data") /\ conn' = [conn EXCEPT ![c].in = @ + 1]
     \/ ~conn[c].fin /\ Spend("fin") /\ conn' = [conn EXCEPT ![c].fin = TRUE]
     \/ Spend("reset") /\ conn' = [conn EXCEPT ![c].err = TRUE]
  /\ UNCHANGED <<poll, clients, listening, backlog, ests, resVars, closing, sigVars, loop>>

\* The peer receives what was sent.
PeerReceives(c) ==
  /\ c \in DOMAIN conn /\ conn[c].room < MaxRoom
  /\ conn' = [conn EXCEPT ![c].room = MaxRoom]
  /\ UNCHANGED <<poll, clients, listening, backlog, ests, resVars, closing, sigVars, loop, budget>>

Answer(e) ==
  /\ e \in DOMAIN ests /\ ests[e].sock = "connecting"
  /\ \E s \in {"connected", "refused"} : ests' = [ests EXCEPT ![e].sock = s]
  /\ UNCHANGED <<poll, clients, netVars, resVars, closing, sigVars, loop, budget>>

Peers == \/ Arrive
         \/ \E c \in Clients : PeerSends(c) \/ PeerReceives(c)
         \/ \E e \in Establishers : Answer(e)

-----------------------------------------------------------------------------
Init ==
  /\ poll = NewPoll
  /\ clients = <<>> /\ conn = <<>>
  /\ listening = FALSE /\ backlog = 0
  /\ ests = <<>>
  /\ resolvers = <<>> /\ worker = <<>>
  /\ closing = <<>>
  /\ interrupted = FALSE /\ eventFd = FALSE /\ notifying = FALSE
  /\ loop = Idle
  /\ budget \in Budgets

Next == \/ UserCall \/ Run \/ Timeout \/ Peers \/ interrupt \/ Notify
        \/ \E r \in DOMAIN worker : resolve(r)

\* The loop, the threads of the pool and interrupt() run; user code returns from its
\* callbacks; the peers receive what they are sent.  No timer is relied on.
Fairness == /\ WF_vars(Run)
            /\ WF_vars(Notify)
            /\ \A r \in 1 .. 2 : WF_vars(resolve(r))
            /\ \A c \in Clients : WF_vars(PeerReceives(c))

Spec == Init /\ [][Next]_vars /\ Fairness

-----------------------------------------------------------------------------
(* Properties.                                                             *)

\* The sockets of live objects, each with the flags its kind is polled for.
Pollable(s) ==
  CASE s \in Clients -> IF s \in DOMAIN clients THEN {"read", "write"} ELSE {}
    [] s \in Establishers -> IF s \in DOMAIN ests THEN {"connect"} ELSE {}
    [] OTHER -> IF listening THEN {"accept"} ELSE {}

\* run() never follows a dangling or a null pointer (Server.cpp 268-271, 321-402): what poll
\* hands out, and everything it may hand out later, is a live object of the kind the
\* flag stands for, and a client whose callback is known; the clients to be closed are
\* live, and their callbacks known by the time they are reported (so that line 271 is
\* never reached).
PointersLive ==
  /\ DOMAIN poll.selected \subseteq DOMAIN poll.sockets
  /\ \A s \in DOMAIN poll.sockets : s \notin {Listener} => s \in DOMAIN clients \cup DOMAIN ests
  /\ Listener \in DOMAIN poll.sockets => listening
  /\ ToSet(closing) \subseteq DOMAIN clients
  /\ At("closing") => \A c \in ToSet(closing) : clients[c].callback
  /\ At("dispatch") => /\ loop.flags # {} /\ loop.flags \subseteq Pollable(loop.obj)
                       /\ loop.obj \in Clients => clients[loop.obj].callback

\* A client waits for exactly what it needs (Server.cpp 323-352, 431-506): for input
\* unless suspended, for room while it has data to send; only one whose connection
\* failed in run() is not registered, and that one has no data.
PollInStep ==
  \A c \in DOMAIN clients :
    IF c \in DOMAIN poll.sockets THEN poll.sockets[c] = Wanted(clients[c])
    ELSE conn[c].err /\ clients[c].sendBuffer = <<>>

\* An event selected before the user suspended the client, or before its buffer was
\* emptied, is not delivered afterwards (Socket.cpp 1213-1220).
DispatchWanted ==
  At("dispatch") /\ loop.obj \in DOMAIN clients => loop.flags \subseteq Wanted(clients[loop.obj])

\* On a connection that has not failed the bytes sent and those in the buffer are the
\* bytes the user has written, in order and without a gap (Server.cpp 323-352, 433-466).
StreamIntact ==
  \A c \in DOMAIN clients :
    ~conn[c].err =>
      conn[c].out \o clients[c].sendBuffer = [i \in 1 .. conn[c].written |-> i]

\* A resolver and its establisher point at each other or not at all, and no resolver is
\* freed under its thread (Server.cpp 156-158, 221-227, 279-307).
ResolversLinked ==
  /\ \A e \in DOMAIN ests : ests[e].resolver # End =>
       /\ ests[e].resolver \in DOMAIN resolvers
       /\ resolvers[ests[e].resolver].establisher = e
  /\ \A r \in DOMAIN resolvers : resolvers[r].establisher # None =>
       /\ resolvers[r].establisher \in DOMAIN ests
       /\ ests[resolvers[r].establisher].resolver = r
  /\ \A r \in DOMAIN worker : worker[r].at # "done" => r \in DOMAIN resolvers

\* interrupt() makes run() return, whatever events, callbacks and resolvers come between,
\* and without the help of a timer (Server.cpp 309-317, 406-415).
InterruptReturns == interrupted ~> At("idle")

\* Every resolver is looked at after its thread has finished: no wakeup is lost while run()
\* runs (Server.cpp 164-171, 277-307).
ResolverReported ==
  \A r \in 1 .. 2 : (r \in DOMAIN resolvers) ~> (r \notin DOMAIN resolvers \/ At("idle"))

\* Nothing to receive and no end of the connection.
Quiet(c) == /\ c \in DOMAIN conn
            /\ conn[c].in = 0 /\ ~conn[c].fin /\ ~conn[c].err

\* What a client has to send is sent while run() runs, unless there is input that the user
\* leaves unread: input has precedence in the dispatch (Server.cpp 321-352).
Flushed ==
  \A c \in Clients :
    <>[]Quiet(c) => []<>(At("idle") \/ (c \in DOMAIN clients /\ clients[c].sendBuffer = <<>>))
=============================================================================
