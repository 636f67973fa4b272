-------------------------------- MODULE Poll --------------------------------
(***************************************************************************)
(* Socket::Poll of src/src/Socket/Socket.cpp, the epoll variant, and the   *)
(* calls of class Socket that the event loop makes.  A Poll object is a    *)
(* record, its member functions are operators on that record:              *)
(*   sockets   the flags each registered socket waits for                  *)
(*   selected  the sockets the last epoll_wait has reported and poll() has *)
(*             not yet handed out, with the flags to hand out              *)
(* The order of `selected' is the order in which epoll reports, which is   *)
(* arbitrary: handing out any of them is the same.  A batch is taken to    *)
(* fit into the 64 entries of the array events.                            *)
(***************************************************************************)
EXTENDS Naturals, Sequences, Functions

Flags == {"read", "write", "accept", "connect"}
Native == {"IN", "OUT", "RDHUP", "HUP"}

NewPoll == [sockets |-> <<>>, selected |-> <<>>]

Without(f, x) == Restrict(f, DOMAIN f \ {x})
With(f, x, y) == [z \in DOMAIN f \cup {x} |-> IF z = x THEN y ELSE f[z]]

\* mapEvents: what epoll is asked for.  EPOLLHUP is reported whether asked or not.
MapEvents(events) ==
  (IF events \cap {"read", "accept"} # {} THEN {"IN", "RDHUP"} ELSE {})
    \cup (IF events \cap {"write", "connect"} # {} THEN {"OUT", "RDHUP"} ELSE {})
    \cup {"HUP"}

\* unmapEvents: a hangup counts as readable, and as writable only for a socket
\* that does not wait for input.
UnmapEvents(native, events) ==
  LET in == IF native \cap {"IN", "RDHUP", "HUP"} # {}
            THEN events \cap {"read", "accept"} ELSE {}
      out == IF "OUT" \in native \/ (in = {} /\ native \cap {"RDHUP", "HUP"} # {})
             THEN events \cap {"write", "connect"} ELSE {}
  IN  in \cup out

\* Mutant: the flags that are no longer wanted stay in the selection.
SetKeepsSelected(p, s, events) == [p EXCEPT !.sockets = With(@, s, events)]

\* set(): no socket without a descriptor is registered here (line 1225).
PollSet(p, s, events) ==
  LET removed == p.sockets[s] \ events
      left == p.selected[s] \ removed
      known == s \in DOMAIN p.sockets /\ p.sockets[s] # events
  IN  [sockets  |-> With(p.sockets, s, events),
       selected |-> IF known /\ s \in DOMAIN p.selected
                    THEN IF left = {} THEN Without(p.selected, s)
                                      ELSE With(p.selected, s, left)
                    ELSE p.selected]

\* Mutant: the socket stays in the selection.
RemoveKeepsSelected(p, s) ==
  IF s \in DOMAIN p.sockets THEN [p EXCEPT !.sockets = Without(@, s)] ELSE p

\* remove().
PollRemove(p, s) ==
  IF s \in DOMAIN p.sockets
  THEN [sockets |-> Without(p.sockets, s), selected |-> Without(p.selected, s)]
  ELSE p

\* poll(), the call of epoll_wait: everything that is ready is selected, with no
\* flag at all when only an event nobody asked for is reported.
Select(p, ready) ==
  LET native(s) == ready[s] \cap MapEvents(p.sockets[s])
      S == {s \in DOMAIN p.sockets : native(s) # {}}
  IN  [p EXCEPT !.selected = [s \in S |-> UnmapEvents(native(s), p.sockets[s])]]

\* poll(), handing out a selected socket.
Take(p, s) == [p EXCEPT !.selected = Without(@, s)]

-----------------------------------------------------------------------------
(* A connected socket and its peer, as the kernel keeps them: the number   *)
(* of bytes to receive, whether the peer has closed or reset the           *)
(* connection, the room for sending, the bytes sent and the number of      *)
(* bytes the user has ever passed to write().                              *)

NewConn(room) ==
  [in |-> 0, fin |-> FALSE, err |-> FALSE, room |-> room, out |-> <<>>, written |-> 0]

\* What epoll can report of it.
ReadyConn(k) ==
  (IF k.in > 0 \/ k.fin \/ k.err THEN {"IN"} ELSE {})
    \cup (IF k.room > 0 \/ k.err THEN {"OUT"} ELSE {})
    \cup (IF k.fin \/ k.err THEN {"RDHUP"} ELSE {})
    \cup (IF k.err THEN {"HUP"} ELSE {})

\* send(): the kernel takes what it has room for and not more; -1 is an error, and
\* "again" the error that Socket::send reports as errno 0.
Send(k, data) ==
  LET n == IF Len(data) < k.room THEN Len(data) ELSE k.room
  IN  IF k.err THEN [res |-> "error", sent |-> 0, conn |-> k]
      ELSE IF data = <<>> THEN [res |-> "zero", sent |-> 0, conn |-> k]
      ELSE IF n = 0 THEN [res |-> "again", sent |-> 0, conn |-> k]
      ELSE [res |-> "ok", sent |-> n,
            conn |-> [k EXCEPT !.room = @ - n, !.out = @ \o SubSeq(data, 1, n)]]

\* recv() with minSize 0: all there is (the user's buffer is large enough).
Recv(k) ==
  IF k.err THEN [res |-> "error", conn |-> k]
  ELSE IF k.in > 0 THEN [res |-> "ok", conn |-> [k EXCEPT !.in = 0]]
  ELSE IF k.fin THEN [res |-> "zero", conn |-> k]
  ELSE [res |-> "again", conn |-> k]
=============================================================================
