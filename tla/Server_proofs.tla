---------------------------- MODULE Server_proofs ----------------------------
(***************************************************************************)
(* Proofs about Server, for any number of clients, establishers and bytes. *)
(* The invariant has two parts that are proved one after the other: what   *)
(* links establishers, resolvers and their threads (ResolverInv), and,     *)
(* with it, what ties the objects, the Poll, the loop and the streams to   *)
(* one another (ObjectInv).                                                *)
(***************************************************************************)
EXTENDS Server, FiniteSetTheorems, SequenceTheorems, WellFoundedInduction, TLAPS

\* A map with keys in D and values in R.
Map(f, D, R) == DOMAIN f \subseteq D /\ f \in [DOMAIN f -> R]

\* What can have a socket in the Poll.
Objects == Clients \cup Establishers \cup {Listener}

\* A ClientImpl, its connection, an EstablisherImpl, a Resolver and its thread.
ClientType == [callback : BOOLEAN, suspended : BOOLEAN, sendBuffer : Seq(Nat)]
ConnType == [in : Nat, fin : BOOLEAN, err : BOOLEAN, room : Nat, out : Seq(Nat),
             written : Nat]
EstType == [resolver : Nat, sock : {"none", "connecting", "connected", "refused"}]
ResolverType == [establisher : Establishers \cup {None}, finished : BOOLEAN]
WorkerType == [at : {"resolve", "finished", "done"}, addr : BOOLEAN]

\* The connection setup whose callback will be known when the call returns.
Introduces == At("callback") /\ loop.fn \in {"onAccepted", "onConnected"}

\* The types of the clients, of the establishers and resolvers, and of run()'s place in its loop.
ClientsTyped == /\ Map(clients, Clients, ClientType)
                /\ Map(conn, Clients, ConnType)
                /\ DOMAIN conn = DOMAIN clients
                /\ closing \in Seq(Clients)

\* An establisher and its resolver, and the thread of every resolver there was.
ResolversTyped == /\ Map(ests, Establishers, EstType)
                  /\ Map(resolvers, Nat \ {End}, ResolverType)
                  /\ Map(worker, Nat \ {End}, WorkerType)

\* What run() knows where it is, and in a callback also what called it.
LoopTyped == /\ loop.at \in {"idle", "callback", "closing", "poll", "dispatch", "resolvers"}
             /\ At("idle") => loop = Idle
             /\ At("callback") =>
                  /\ loop = [at |-> "callback", fn |-> loop.fn, obj |-> loop.obj,
                             then |-> loop.then, iter |-> loop.iter, gone |-> loop.gone]
                  /\ loop.then \in {"closing", "resolvers"}

\* Resolvers are numbered in the order of their creation.
Numbered == /\ IsFiniteSet(DOMAIN worker)
            /\ DOMAIN worker = 1 .. Cardinality(DOMAIN worker)
            /\ DOMAIN resolvers \subseteq DOMAIN worker

\* run() is in the loop over _resolvers.
Iterating == At("resolvers") \/ (At("callback") /\ loop.then = "resolvers")

\* The iterator of the loop over _resolvers.
IteratorValid ==
  Iterating => loop.iter \in DOMAIN resolvers \cup {End}

\* A socket is selected only if it is registered, and for flags it waits for.
PollSound(p) ==
  /\ p = [sockets |-> p.sockets, selected |-> p.selected]
  /\ Map(p.sockets, Objects, SUBSET Flags)
  /\ Map(p.selected, DOMAIN p.sockets, SUBSET Flags)
  /\ \A s \in DOMAIN p.selected : p.selected[s] \subseteq p.sockets[s]

\* A registered socket belongs to an object that is there, and waits for what that one needs.
Registered ==
  /\ \A c \in DOMAIN poll.sockets \cap Clients :
       c \in DOMAIN clients /\ poll.sockets[c] = Wanted(clients[c])
  /\ \A e \in DOMAIN poll.sockets \cap Establishers :
       e \in DOMAIN ests /\ poll.sockets[e] = {"connect"}
  /\ Listener \in DOMAIN poll.sockets => listening /\ poll.sockets[Listener] = {"accept"}

\* A client's socket is gone from the Poll only after an error, when nothing waits to be sent.
Unregistered ==
  \A c \in DOMAIN clients \ DOMAIN poll.sockets : conn[c].err /\ clients[c].sendBuffer = <<>>

\* run() dispatches an event that the socket waits for.
Dispatched ==
  At("dispatch") => /\ loop.obj \in DOMAIN poll.sockets
                    /\ loop.flags # {} /\ loop.flags \subseteq poll.sockets[loop.obj]

\* A client has no callback only while the setup that introduces it is being called.
CallbackKnown ==
  {c \in DOMAIN clients : ~clients[c].callback} = IF Introduces THEN {loop.obj} ELSE {}

\* _closingClients holds clients that are there, each once.
ClosingSound ==
  /\ \A i, j \in DOMAIN closing : closing[i] = closing[j] => i = j
  /\ \A i \in DOMAIN closing : closing[i] \in DOMAIN clients

\* What was sent, then what is in the buffer: 1, 2, ...
Stream(k, buffer) ==
  k.err \/ /\ Len(k.out) + Len(buffer) = k.written
           /\ \A i \in 1 .. Len(k.out) : k.out[i] = i
           /\ \A i \in 1 .. Len(buffer) : buffer[i] = Len(k.out) + i

\* So it is for every client.
Streams == \A c \in DOMAIN clients : Stream(conn[c], clients[c].sendBuffer)

\* What keeps the links between establishers, resolvers and threads.
ResolverInv == ResolversTyped /\ LoopTyped /\ Numbered /\ IteratorValid /\ ResolversLinked

\* What keeps the objects, their sockets and their streams.
ObjectInv == /\ LoopTyped /\ ClientsTyped /\ PollSound(poll)
             /\ Registered /\ Unregistered /\ Dispatched /\ CallbackKnown /\ ClosingSound
             /\ Streams

-----------------------------------------------------------------------------
(* The operators the model is built from.                                  *)

\* The first resolver of a set.
LEMMA FirstOf ==
  ASSUME NEW S \in SUBSET Nat PROVE FirstResolver(S) \in S \cup {End}
<1>1. CASE S = {}
  BY <1>1 DEF FirstResolver
<1>2. CASE S # {}
  <2>1. PICK x \in S : \A y \in S : ~(<<y, x>> \in OpToRel(<, Nat))
    BY <1>2, NatLessThanWellFounded, WFMin
  <2>2. ASSUME NEW y \in S PROVE x <= y
    <3>1. x \in Nat /\ y \in Nat
      OBVIOUS
    <3>2. ~(y < x)
      BY <2>1, <3>1 DEF OpToRel
    <3> QED BY <3>1, <3>2
  <2> QED BY <1>2, <2>1, <2>2 DEF FirstResolver, Min
<1> QED BY <1>1, <1>2

\* HashSet::remove of the closing clients, as the elements see it.
LEMMA RemoveAtElements ==
  ASSUME NEW T, NEW s \in Seq(T), NEW k \in DOMAIN s
  PROVE  /\ RemoveAt(s, k) \in Seq(T)
         /\ Len(RemoveAt(s, k)) = Len(s) - 1
         /\ \A i \in 1 .. Len(s) - 1 : RemoveAt(s, k)[i] = IF i < k THEN s[i] ELSE s[i + 1]
<1>1. Len(s) \in Nat /\ k \in 1 .. Len(s) /\ DOMAIN s = 1 .. Len(s)
  OBVIOUS
<1>2. SubSeq(s, 1, k - 1) \in Seq(T) /\ Len(SubSeq(s, 1, k - 1)) = k - 1
  BY <1>1
<1>3. SubSeq(s, k + 1, Len(s)) \in Seq(T) /\ Len(SubSeq(s, k + 1, Len(s))) = Len(s) - k
  BY <1>1
<1>4. \A i \in 1 .. k - 1 : SubSeq(s, 1, k - 1)[i] = s[i]
  BY <1>1
<1>5. \A i \in 1 .. Len(s) - k : SubSeq(s, k + 1, Len(s))[i] = s[i + k]
  BY <1>1
<1> DEFINE a == SubSeq(s, 1, k - 1)
           b == SubSeq(s, k + 1, Len(s))
<1>6. RemoveAt(s, k) = a \o b
  BY DEF RemoveAt
<1> HIDE DEF a, b
<1>7. a \in Seq(T) /\ b \in Seq(T) /\ Len(a) = k - 1 /\ Len(b) = Len(s) - k
  BY <1>2, <1>3 DEF a, b
<1>8. /\ a \o b \in Seq(T) /\ Len(a \o b) = Len(s) - 1
      /\ \A i \in 1 .. Len(s) - 1 : (a \o b)[i] = IF i < k THEN a[i] ELSE b[i - (k - 1)]
  <2>1. /\ a \o b \in Seq(T) /\ Len(a \o b) = Len(a) + Len(b)
        /\ \A i \in 1 .. Len(a) + Len(b) :
             (a \o b)[i] = IF i <= Len(a) THEN a[i] ELSE b[i - Len(a)]
    BY <1>7, ConcatProperties
  <2>2. Len(a) + Len(b) = Len(s) - 1
    BY <1>1, <1>7
  <2> QED BY <1>1, <1>7, <2>1, <2>2
<1>9. ASSUME NEW i \in 1 .. Len(s) - 1
      PROVE  (a \o b)[i] = IF i < k THEN s[i] ELSE s[i + 1]
  <2>1. CASE i < k
    <3>1. i \in 1 .. k - 1
      BY <1>1, <2>1
    <3> QED BY <1>4, <1>8, <2>1, <3>1 DEF a
  <2>2. CASE ~(i < k)
    <3>1. i - (k - 1) \in 1 .. Len(s) - k /\ (i - (k - 1)) + k = i + 1
      BY <1>1, <2>2
    <3> QED BY <1>5, <1>8, <2>2, <3>1 DEF b
  <2> QED BY <2>1, <2>2
<1> QED BY <1>6, <1>8, <1>9

\* Poll::set.
LEMMA PollSetSound ==
  ASSUME NEW p, PollSound(p), NEW s \in Objects, NEW F \in SUBSET Flags
  PROVE  /\ PollSound(PollSet(p, s, F))
         /\ DOMAIN PollSet(p, s, F).sockets = DOMAIN p.sockets \cup {s}
         /\ PollSet(p, s, F).sockets[s] = F
         /\ \A z \in DOMAIN p.sockets : z # s => PollSet(p, s, F).sockets[z] = p.sockets[z]
<1> DEFINE q == PollSet(p, s, F)
           left == p.selected[s] \ (p.sockets[s] \ F)
           known == s \in DOMAIN p.sockets /\ p.sockets[s] # F
<1>1. q = [sockets |-> q.sockets, selected |-> q.selected] /\ q.sockets = With(p.sockets, s, F)
  BY DEF PollSet
<1>2. q.selected = IF known /\ s \in DOMAIN p.selected
                   THEN IF left = {} THEN Without(p.selected, s) ELSE With(p.selected, s, left)
                   ELSE p.selected
  BY DEF PollSet
<1>3. /\ Map(p.sockets, Objects, SUBSET Flags)
      /\ Map(p.selected, DOMAIN p.sockets, SUBSET Flags)
      /\ \A z \in DOMAIN p.selected : z \in DOMAIN p.sockets /\ p.selected[z] \subseteq p.sockets[z]
  BY DEF PollSound, Map
<1> HIDE DEF q
<1>4. /\ Map(q.sockets, Objects, SUBSET Flags)
      /\ DOMAIN q.sockets = DOMAIN p.sockets \cup {s}
      /\ q.sockets[s] = F
      /\ \A z \in DOMAIN p.sockets : z # s => q.sockets[z] = p.sockets[z]
  BY <1>1, <1>3 DEF With, Map
<1>5. Map(p.selected, DOMAIN q.sockets, SUBSET Flags)
  BY <1>3, <1>4 DEF Map
<1>6. /\ Map(q.selected, DOMAIN q.sockets, SUBSET Flags)
      /\ \A z \in DOMAIN q.selected : q.selected[z] \subseteq q.sockets[z]
  <2>1. CASE known /\ s \in DOMAIN p.selected
    <3>1. left \subseteq F
      BY <1>3, <2>1
    <3>2. CASE left = {}
      <4>1. q.selected = Without(p.selected, s)
        BY <1>2, <2>1, <3>2
      <4> QED BY <1>3, <1>4, <4>1 DEF Without, Map, Restrict
    <3>3. CASE left # {}
      <4>1. q.selected = With(p.selected, s, left)
        BY <1>2, <2>1, <3>3
      <4>2. left \in SUBSET Flags
        BY <3>1
      <4> HIDE DEF left
      <4>3. /\ Map(q.selected, DOMAIN q.sockets, SUBSET Flags)
            /\ DOMAIN q.selected = DOMAIN p.selected \cup {s}
            /\ q.selected[s] = left
            /\ \A z \in DOMAIN p.selected : z # s => q.selected[z] = p.selected[z]
        BY <1>4, <1>5, <4>1, <4>2 DEF With, Map
      <4> QED BY <1>3, <1>4, <3>1, <4>3
    <3> QED BY <3>2, <3>3
  <2>2. CASE ~(known /\ s \in DOMAIN p.selected)
    BY <1>2, <1>3, <1>4, <1>5, <2>2
  <2> QED BY <2>1, <2>2
<1> QED BY <1>1, <1>4, <1>6 DEF PollSound, q

\* Poll::remove.
LEMMA PollRemoveSound ==
  ASSUME NEW p, PollSound(p), NEW s
  PROVE  /\ PollSound(PollRemove(p, s))
         /\ DOMAIN PollRemove(p, s).sockets = DOMAIN p.sockets \ {s}
         /\ \A z \in DOMAIN p.sockets : z # s => PollRemove(p, s).sockets[z] = p.sockets[z]
<1> DEFINE q == PollRemove(p, s)
<1>1. CASE s \in DOMAIN p.sockets
  <2>1. /\ q = [sockets |-> q.sockets, selected |-> q.selected]
        /\ q.sockets = Without(p.sockets, s) /\ q.selected = Without(p.selected, s)
    BY <1>1 DEF PollRemove
  <2>2. /\ Map(p.sockets, Objects, SUBSET Flags)
        /\ Map(p.selected, DOMAIN p.sockets, SUBSET Flags)
        /\ \A z \in DOMAIN p.selected : z \in DOMAIN p.sockets /\ p.selected[z] \subseteq p.sockets[z]
    BY DEF PollSound, Map
  <2> HIDE DEF q
  <2>3. /\ Map(q.sockets, Objects, SUBSET Flags) /\ DOMAIN q.sockets = DOMAIN p.sockets \ {s}
        /\ \A z \in DOMAIN p.sockets : z # s => q.sockets[z] = p.sockets[z]
    BY <2>1, <2>2 DEF Without, Map, Restrict
  <2>4. /\ Map(q.selected, DOMAIN p.sockets, SUBSET Flags) /\ DOMAIN q.selected = DOMAIN p.selected \ {s}
        /\ \A z \in DOMAIN p.selected : z # s => q.selected[z] = p.selected[z]
    BY <2>1, <2>2 DEF Without, Map, Restrict
  <2>5. Map(q.selected, DOMAIN q.sockets, SUBSET Flags)
    BY <2>2, <2>3, <2>4 DEF Map
  <2> QED BY <2>1, <2>2, <2>3, <2>4, <2>5 DEF PollSound, q
<1>2. CASE s \notin DOMAIN p.sockets
  BY <1>2 DEF PollRemove
<1> QED BY <1>1, <1>2

\* Poll::poll, waiting: only flags that are waited for are selected.
LEMMA SelectSound ==
  ASSUME NEW p, PollSound(p), NEW ready
  PROVE  PollSound(Select(p, ready)) /\ Select(p, ready).sockets = p.sockets
<1> DEFINE q == Select(p, ready)
           native(s) == ready[s] \cap MapEvents(p.sockets[s])
           S == {s \in DOMAIN p.sockets : native(s) # {}}
<1>1. q = [p EXCEPT !.selected = [s \in S |-> UnmapEvents(native(s), p.sockets[s])]]
  BY DEF Select
<1>2. p = [sockets |-> p.sockets, selected |-> p.selected] /\ Map(p.sockets, Objects, SUBSET Flags)
  BY DEF PollSound
<1>3. \A s \in DOMAIN p.sockets : UnmapEvents(native(s), p.sockets[s]) \subseteq p.sockets[s]
  BY DEF UnmapEvents
<1> HIDE DEF native, q
<1>4. /\ q = [sockets |-> q.sockets, selected |-> q.selected] /\ q.sockets = p.sockets
      /\ q.selected = [s \in S |-> UnmapEvents(native(s), p.sockets[s])]
  BY <1>1, <1>2
<1> HIDE DEF S
<1>5. S \subseteq DOMAIN p.sockets
  BY DEF S
<1>6. /\ Map(q.selected, DOMAIN q.sockets, SUBSET Flags)
      /\ \A s \in DOMAIN q.selected : q.selected[s] \subseteq q.sockets[s]
  BY <1>2, <1>3, <1>4, <1>5 DEF Map
<1> QED BY <1>2, <1>4, <1>6 DEF PollSound, q

\* Poll::poll, handing out a socket.
LEMMA TakeSound ==
  ASSUME NEW p, PollSound(p), NEW s
  PROVE  PollSound(Take(p, s)) /\ Take(p, s).sockets = p.sockets
<1> DEFINE q == Take(p, s)
<1>1. /\ q = [sockets |-> q.sockets, selected |-> q.selected]
      /\ q.sockets = p.sockets /\ q.selected = Without(p.selected, s)
  BY DEF Take, PollSound
<1> HIDE DEF q
<1>2. /\ Map(q.selected, DOMAIN p.sockets, SUBSET Flags) /\ DOMAIN q.selected = DOMAIN p.selected \ {s}
      /\ \A z \in DOMAIN p.selected : z # s => q.selected[z] = p.selected[z]
  BY <1>1 DEF PollSound, Without, Map, Restrict
<1> QED BY <1>1, <1>2 DEF PollSound, q

\* Arithmetic, on its own.
LEMMA SumOf == \A a, b, c, n \in Nat : a + b = c => a + (b + n) = c + n
OBVIOUS

\* The rest of a sequence after its first j elements.
LEMMA RestOf ==
  \A n \in Nat : \A j \in 0 .. n :
    /\ n - (j + 1) + 1 = n - j
    /\ (IF j + 1 <= n THEN n - (j + 1) + 1 ELSE 0) = n - j
    /\ \A i \in Nat : (j + 1) + i - 1 = j + i
OBVIOUS

\* Socket::send takes a prefix of the data and appends it to what was sent.
LEMMA SendSound ==
  ASSUME NEW k \in ConnType, NEW data \in Seq(Nat)
  PROVE  LET s == Send(k, data)
         IN  /\ s.conn \in ConnType /\ s.conn.err = k.err /\ s.conn.written = k.written
             /\ (s.res = "error") <=> k.err
             /\ s.sent \in 0 .. Len(data)
             /\ Len(s.conn.out) = Len(k.out) + s.sent
             /\ \A i \in 1 .. Len(k.out) : s.conn.out[i] = k.out[i]
             /\ \A i \in 1 .. s.sent : s.conn.out[Len(k.out) + i] = data[i]
<1> DEFINE n == IF Len(data) < k.room THEN Len(data) ELSE k.room
           s == Send(k, data)
<1>1. /\ Len(data) \in Nat /\ k.room \in Nat /\ k.out \in Seq(Nat) /\ Len(k.out) \in Nat
      /\ n \in 0 .. Len(data) /\ k.room - n \in Nat
  BY DEF ConnType
<1>2. CASE s.conn = k /\ s.sent = 0 /\ ((s.res = "error") <=> k.err)
  BY <1>1, <1>2
<1>3. CASE ~k.err /\ data # <<>> /\ n # 0
  <2> DEFINE part == SubSeq(data, 1, n)
             out == k.out \o part
  <2>1. /\ s.res = "ok" /\ s.sent = n
        /\ s.conn = [k EXCEPT !.room = k.room - n, !.out = out]
    BY <1>3 DEF Send
  <2>2. /\ part \in Seq(Nat) /\ Len(part) = n
        /\ \A i \in 1 .. n : part[i] = data[i]
    BY <1>1
  <2>3. /\ out \in Seq(Nat) /\ Len(out) = Len(k.out) + n
        /\ \A i \in 1 .. Len(k.out) + n : out[i] = IF i <= Len(k.out) THEN k.out[i]
                                                   ELSE part[i - Len(k.out)]
    <3> HIDE DEF part, n
    <3>1. /\ k.out \o part \in Seq(Nat) /\ Len(k.out \o part) = Len(k.out) + Len(part)
          /\ \A i \in 1 .. Len(k.out) + Len(part) :
               (k.out \o part)[i] = IF i <= Len(k.out) THEN k.out[i] ELSE part[i - Len(k.out)]
      BY <1>1, <2>2, ConcatProperties
    <3> QED BY <2>2, <3>1
  <2> HIDE DEF n, s, out
  <2>4. /\ s.conn \in ConnType /\ s.conn.err = k.err /\ s.conn.written = k.written
        /\ s.conn.out = out
    BY <1>1, <2>1, <2>3 DEF ConnType
  <2>5. \A i \in 1 .. n : out[Len(k.out) + i] = data[i]
    <3> SUFFICES ASSUME NEW i \in 1 .. n PROVE out[Len(k.out) + i] = data[i]
      OBVIOUS
    <3> HIDE DEF part
    <3>1. /\ Len(k.out) + i \in 1 .. Len(k.out) + n /\ ~(Len(k.out) + i <= Len(k.out))
          /\ (Len(k.out) + i) - Len(k.out) = i
      BY <1>1
    <3> QED BY <2>2, <2>3, <3>1
  <2>6. ASSUME NEW i \in 1 .. Len(k.out) PROVE out[i] = k.out[i]
    <3> HIDE DEF part
    <3>1. i \in 1 .. Len(k.out) + n /\ i <= Len(k.out)
      BY <1>1
    <3> QED BY <2>3, <3>1
  <2> QED BY <1>1, <1>3, <2>1, <2>3, <2>4, <2>5, <2>6 DEF s
<1>4. k.err \/ data = <<>> \/ n = 0 => s.conn = k /\ s.sent = 0 /\ ((s.res = "error") <=> k.err)
  BY DEF Send
<1> QED BY <1>2, <1>3, <1>4

\* A flush of the send buffer keeps the stream.
LEMMA FlushStream ==
  ASSUME NEW k \in ConnType, NEW data \in Seq(Nat), Stream(k, data)
  PROVE  LET s == Send(k, data)
             left == SubSeq(data, s.sent + 1, Len(data))
         IN  left \in Seq(Nat) /\ Len(left) = Len(data) - s.sent /\ Stream(s.conn, left)
<1> DEFINE s == Send(k, data)
           left == SubSeq(data, s.sent + 1, Len(data))
<1>1. /\ s.conn.err = k.err /\ s.conn.written = k.written
      /\ s.sent \in 0 .. Len(data) /\ s.conn.out \in Seq(Nat)
      /\ Len(s.conn.out) = Len(k.out) + s.sent
      /\ \A i \in 1 .. Len(k.out) : s.conn.out[i] = k.out[i]
      /\ \A i \in 1 .. s.sent : s.conn.out[Len(k.out) + i] = data[i]
  BY SendSound DEF ConnType
<1> HIDE DEF s
<1>2. Len(data) \in Nat /\ Len(k.out) \in Nat /\ k.written \in Nat
  BY DEF ConnType
<1>3. /\ left \in Seq(Nat) /\ Len(left) = Len(data) - s.sent
      /\ \A i \in 1 .. Len(left) : left[i] = data[s.sent + i]
  <2> DEFINE m == s.sent + 1
  <2>1. m \in Int /\ Len(data) \in Int /\ \A i \in m .. Len(data) : data[i] \in Nat
    BY <1>1, <1>2
  <2>a. s.sent \in 0 .. Len(data)
    BY <1>1
  <2>2. /\ Len(data) - m + 1 = Len(data) - s.sent
        /\ \A i \in Nat : m + i - 1 = s.sent + i
        /\ (IF m <= Len(data) THEN Len(data) - m + 1 ELSE 0) = Len(data) - s.sent
    BY <1>2, <2>a, RestOf
  <2>3. /\ left \in Seq(Nat)
        /\ Len(left) = IF m <= Len(data) THEN Len(data) - m + 1 ELSE 0
        /\ \A i \in 1 .. Len(data) - m + 1 : left[i] = data[m + i - 1]
    <3> HIDE DEF m
    <3> QED BY <2>1, SubSeqProperties DEF m
  <2> HIDE DEF left, m
  <2>4. left \in Seq(Nat) /\ Len(left) = Len(data) - s.sent
    BY <2>2, <2>3
  <2>5. ASSUME NEW i \in 1 .. Len(left) PROVE left[i] = data[s.sent + i]
    <3>1. i \in Nat /\ i \in 1 .. Len(data) - m + 1
      BY <1>2, <2>2, <2>4
    <3> QED BY <2>2, <2>3, <3>1
  <2> QED BY <2>4, <2>5
<1> HIDE DEF left
<1>4. ASSUME ~k.err PROVE Stream(s.conn, left)
  <2>1. /\ Len(k.out) + Len(data) = k.written
        /\ \A i \in 1 .. Len(k.out) : k.out[i] = i
        /\ \A i \in 1 .. Len(data) : data[i] = Len(k.out) + i
    BY <1>4 DEF Stream
  <2>2. Len(s.conn.out) + Len(left) = s.conn.written
    BY <1>1, <1>2, <1>3, <2>1
  <2>3. ASSUME NEW i \in 1 .. Len(left) PROVE left[i] = Len(s.conn.out) + i
    <3>1. s.sent + i \in 1 .. Len(data)
      <4>1. s.sent \in 0 .. Len(data) /\ i \in 1 .. Len(data) - s.sent
        BY <1>1, <1>3
      <4> QED BY <1>2, <4>1
    <3>2. left[i] = Len(k.out) + (s.sent + i)
      BY <1>3, <2>1, <3>1
    <3> QED BY <1>1, <1>2, <3>2
  <2>4. ASSUME NEW i \in 1 .. Len(s.conn.out) PROVE s.conn.out[i] = i
    <3>1. CASE i <= Len(k.out)
      <4>1. i \in 1 .. Len(k.out)
        BY <1>1, <1>2, <3>1
      <4> QED BY <1>1, <2>1, <4>1
    <3>2. CASE ~(i <= Len(k.out))
      <4>1. PICK j \in 1 .. s.sent : i = Len(k.out) + j
        <5>1. i - Len(k.out) \in 1 .. s.sent /\ i = Len(k.out) + (i - Len(k.out))
          BY <1>1, <1>2, <3>2
        <5> QED BY <5>1
      <4> QED BY <1>1, <1>2, <2>1, <4>1
    <3> QED BY <3>1, <3>2
  <2> QED BY <2>2, <2>3, <2>4 DEF Stream
<1> QED BY <1>1, <1>3, <1>4 DEF Stream, s, left

\* The bytes of a write continue the stream.
LEMMA WriteStream ==
  ASSUME NEW k \in ConnType, NEW buffer \in Seq(Nat), Stream(k, buffer), NEW n \in Nat
  PROVE  LET data == [i \in 1 .. n |-> k.written + i]
             k2 == [k EXCEPT !.written = @ + n]
         IN  /\ data \in Seq(Nat) /\ Len(data) = n /\ k2 \in ConnType /\ k2.err = k.err
             /\ Stream(k2, buffer \o data)
<1> DEFINE data == [i \in 1 .. n |-> k.written + i]
           k2 == [k EXCEPT !.written = @ + n]
<1>1. k.written \in Nat /\ Len(k.out) \in Nat /\ Len(buffer) \in Nat
  BY DEF ConnType
<1>2. data \in Seq(Nat) /\ Len(data) = n /\ \A i \in 1 .. n : data[i] = k.written + i
  BY <1>1
<1>3. k2 \in ConnType /\ k2.err = k.err /\ k2.out = k.out /\ k2.written = k.written + n
  <2>1. k.written + n \in Nat
    BY <1>1
  <2> QED BY <2>1 DEF ConnType
<1> HIDE DEF data, k2
<1>4. /\ Len(buffer \o data) = Len(buffer) + n
      /\ \A i \in 1 .. Len(buffer) + n :
           (buffer \o data)[i] = IF i <= Len(buffer) THEN buffer[i] ELSE data[i - Len(buffer)]
  BY <1>2, ConcatProperties
<1>5. ASSUME ~k.err PROVE Stream(k2, buffer \o data)
  <2>1. /\ Len(k.out) + Len(buffer) = k.written
        /\ \A i \in 1 .. Len(k.out) : k.out[i] = i
        /\ \A i \in 1 .. Len(buffer) : buffer[i] = Len(k.out) + i
    BY <1>5 DEF Stream
  <2>2. Len(k2.out) + Len(buffer \o data) = k2.written
    <3>1. Len(k.out) + (Len(buffer) + n) = k.written + n
      <4>1. Len(k.out) + Len(buffer) = k.written
        BY <2>1
      <4> QED BY <1>1, <4>1, SumOf
    <3> QED BY <1>3, <1>4, <3>1
  <2>3. ASSUME NEW i \in 1 .. Len(buffer) + n PROVE (buffer \o data)[i] = Len(k.out) + i
    <3>1. CASE i <= Len(buffer)
      BY <1>1, <1>4, <2>1, <3>1
    <3>2. CASE ~(i <= Len(buffer))
      <4>1. i - Len(buffer) \in 1 .. n
        BY <1>1, <3>2
      <4>2. (buffer \o data)[i] = k.written + (i - Len(buffer))
        BY <1>2, <1>4, <3>2, <4>1
      <4> QED BY <1>1, <2>1, <4>2
    <3> QED BY <3>1, <3>2
  <2> QED BY <1>3, <1>4, <2>1, <2>2, <2>3 DEF Stream
<1> QED BY <1>2, <1>3, <1>5 DEF Stream, data, k2

\* The pointwise form says that the two parts make up the stream.
LEMMA StreamEqual ==
  ASSUME NEW k \in ConnType, NEW buffer \in Seq(Nat), Stream(k, buffer), ~k.err
  PROVE  k.out \o buffer = [i \in 1 .. k.written |-> i]
<1> DEFINE a == k.out
<1>1. /\ a \in Seq(Nat) /\ Len(a) \in Nat /\ Len(buffer) \in Nat /\ k.written \in Nat
      /\ Len(a) + Len(buffer) = k.written
      /\ \A i \in 1 .. Len(a) : a[i] = i
      /\ \A i \in 1 .. Len(buffer) : buffer[i] = Len(a) + i
  BY DEF Stream, ConnType
<1> HIDE DEF a
<1>2. /\ a \o buffer \in Seq(Nat) /\ Len(a \o buffer) = k.written
      /\ \A i \in 1 .. k.written :
           (a \o buffer)[i] = IF i <= Len(a) THEN a[i] ELSE buffer[i - Len(a)]
  BY <1>1, ConcatProperties
<1>3. ASSUME NEW i \in 1 .. k.written PROVE (a \o buffer)[i] = i
  <2>1. CASE i <= Len(a)
    BY <1>1, <1>2, <2>1
  <2>2. CASE ~(i <= Len(a))
    <3>1. i - Len(a) \in 1 .. Len(buffer) /\ Len(a) + (i - Len(a)) = i
      BY <1>1, <2>2
    <3> QED BY <1>1, <1>2, <2>2, <3>1
  <2> QED BY <2>1, <2>2
<1> HIDE DEF a
<1> DEFINE b == a \o buffer
<1>4. b \in Seq(Nat) /\ Len(b) = k.written /\ \A i \in 1 .. k.written : b[i] = i
  BY <1>2, <1>3
<1> HIDE DEF b
<1>5. b = [i \in 1 .. k.written |-> b[i]]
  BY <1>1, <1>4
<1>6. b = [i \in 1 .. k.written |-> i]
  BY <1>4, <1>5
<1> QED BY <1>6 DEF b, a

-----------------------------------------------------------------------------
(* Where run() is.                                                         *)

\* The steps that may change more than the place of run().
LEMMA LoopStep == LoopTyped /\ [Next]_vars => LoopTyped'
<1> SUFFICES ASSUME LoopTyped, [Next]_vars PROVE LoopTyped'
  OBVIOUS
<1> USE DEF LoopTyped, At
<1>1. ASSUME UNCHANGED loop PROVE LoopTyped'
  BY <1>1
<1>2. ASSUME listen \/ connect \/ connectHost \/ pair \/ removeListener \/ clear \/ interrupt \/ Notify
      PROVE  LoopTyped'
  BY <1>1, <1>2 DEF listen, connect, connectHost, pair, removeListener, clear, interrupt, Notify
<1>3. CASE startRun
  BY <1>3 DEF startRun
<1>4. ASSUME NEW c \in Clients, removeClient(c) PROVE LoopTyped'
  <2>1. CASE UNCHANGED loop
    BY <1>1, <2>1
  <2>2. CASE ~UNCHANGED loop
    <3>1. At("idle") \/ At("callback")
      BY <1>4 DEF removeClient, User
    <3>2. loop' = [loop EXCEPT !.gone = TRUE]
      BY <1>4, <2>2 DEF removeClient
    <3>3. CASE At("callback")
      BY <3>2, <3>3
    <3>4. CASE At("idle")
      BY <3>2, <3>4 DEF Idle
    <3> QED BY <3>1, <3>3, <3>4
  <2> QED BY <2>1, <2>2
<1>5. CASE \/ \E c \in Clients : \/ read(c)
                                \/ \E n \in 0 .. 2 : write(c, n)
                                \/ \E f \in BOOLEAN : setSuspended(c, f)
           \/ \E e \in Establishers : removeEstablisher(e)
  BY <1>1, <1>5 DEF read, write, setSuspended, removeEstablisher
<1>6. CASE Return
  BY <1>6 DEF Return
<1>7. CASE CloseClients
  BY <1>7 DEF CloseClients, Callback
<1>8. CASE Wait \/ Timeout \/ TakeEvent
  BY <1>8 DEF Wait, Timeout, TakeEvent, NoEvent
<1>0. ASSUME NEW fn, NEW obj, Callback(fn, obj, "closing", End) PROVE LoopTyped'
  BY <1>0 DEF Callback
<1>19. loop' = [at |-> "closing"] => LoopTyped'
  OBVIOUS
<1>9. CASE DispatchRead \/ DispatchAccept
  <2> HIDE DEF LoopTyped
  <2> QED BY <1>0, <1>9, <1>19 DEF DispatchRead, DispatchAccept
<1>18. CASE DispatchConnect
  <2> HIDE DEF LoopTyped
  <2> QED BY <1>0, <1>18 DEF DispatchConnect
<1>10. CASE DispatchWrite
  BY <1>10 DEF DispatchWrite, Callback
<1>11. CASE VisitResolver
  BY <1>11 DEF VisitResolver, Callback
<1>12. CASE CheckInterrupted
  BY <1>12 DEF CheckInterrupted, Idle
<1>13. CASE Peers
  BY <1>1, <1>13 DEF Peers, Arrive, PeerSends, PeerReceives, Answer
<1>14. ASSUME NEW r \in DOMAIN worker, resolve(r) PROVE LoopTyped'
  BY <1>1, <1>14 DEF resolve
<1>15. CASE UNCHANGED vars
  BY <1>1, <1>15 DEF vars
<1>16. UserCall => LoopTyped'
  BY <1>2, <1>3, <1>4, <1>5 DEF UserCall
<1>17. Run => LoopTyped'
  BY <1>6, <1>7, <1>8, <1>9, <1>10, <1>11, <1>12, <1>18 DEF Run
<1> QED BY <1>2, <1>8, <1>13, <1>14, <1>15, <1>16, <1>17 DEF Next

-----------------------------------------------------------------------------
(* The resolvers.                                                          *)

\* A step of the loop over _resolvers that removes none of them.
IteratorMoves ==
  Iterating' => \/ Iterating /\ loop'.iter = loop.iter
                \/ loop'.iter = FirstResolver(DOMAIN resolvers)

\* A step that has nothing to do with the resolvers.
ResolversKept == UNCHANGED <<ests, resolvers, worker>> /\ IteratorMoves

\* The steps that change an establisher, a resolver or its thread.
ResolverSteps ==
  \/ connect \/ connectHost \/ clear \/ DispatchConnect \/ VisitResolver
  \/ \E e \in Establishers : removeEstablisher(e) \/ Answer(e)
  \/ \E r \in DOMAIN worker : resolve(r)

\* All others leave them alone.
LEMMA ResolverClasses == LoopTyped /\ [Next]_vars => ResolversKept \/ ResolverSteps
<1> SUFFICES ASSUME LoopTyped, [Next]_vars PROVE ResolversKept \/ ResolverSteps
  OBVIOUS
<1>0. UNCHANGED loop => IteratorMoves
  BY DEF IteratorMoves, Iterating, At
<1>1. CASE listen \/ pair \/ removeListener \/ interrupt \/ Notify \/ UNCHANGED vars
  BY <1>0, <1>1 DEF listen, pair, removeListener, interrupt, Notify, resVars, vars, ResolversKept
<1>2. CASE \E c \in Clients : \/ read(c)
                              \/ \E n \in 0 .. 2 : write(c, n)
                              \/ \E f \in BOOLEAN : setSuspended(c, f)
  BY <1>0, <1>2 DEF read, write, setSuspended, resVars, ResolversKept
<1>3. CASE Arrive \/ \E c \in Clients : PeerSends(c) \/ PeerReceives(c)
  BY <1>0, <1>3 DEF Arrive, PeerSends, PeerReceives, resVars, ResolversKept
<1>4. ASSUME NEW c \in Clients, removeClient(c) PROVE ResolversKept
  <2>1. UNCHANGED <<ests, resolvers, worker>>
    BY <1>4 DEF removeClient, resVars
  <2>2. CASE ~UNCHANGED loop
    <3>1. At("idle") \/ At("callback")
      BY <1>4 DEF removeClient, User
    <3>2. loop' = [loop EXCEPT !.gone = TRUE]
      BY <1>4, <2>2 DEF removeClient
    <3>3. CASE At("callback")
      BY <2>1, <3>2, <3>3 DEF LoopTyped, At, ResolversKept, IteratorMoves, Iterating
    <3>4. CASE At("idle")
      BY <2>1, <3>2, <3>4 DEF LoopTyped, At, Idle, ResolversKept, IteratorMoves, Iterating
    <3> QED BY <3>1, <3>3, <3>4
  <2> QED BY <1>0, <2>1, <2>2 DEF ResolversKept
<1> DEFINE Leaves == loop'.at \notin {"resolvers", "callback"}
<1>a. Leaves => IteratorMoves
  BY DEF IteratorMoves, Iterating, At
<1>b. ASSUME NEW fn, NEW obj, Callback(fn, obj, "closing", End) PROVE IteratorMoves
  BY <1>b DEF Callback, IteratorMoves, Iterating, At
<1>5. CASE startRun
  BY <1>5, <1>a DEF startRun, resVars, ResolversKept
<1>6. CASE Return
  <2>1. UNCHANGED <<ests, resolvers, worker>>
    BY <1>6 DEF Return, resVars
  <2>2. IteratorMoves
    BY <1>6 DEF Return, IteratorMoves, Iterating, At, LoopTyped
  <2> QED BY <2>1, <2>2 DEF ResolversKept
<1>7. CASE CloseClients \/ DispatchRead \/ DispatchAccept
  <2>1. UNCHANGED <<ests, resolvers, worker>>
    BY <1>7 DEF CloseClients, DispatchRead, DispatchAccept, resVars
  <2>2. loop' = [at |-> "poll"] \/ loop' = [at |-> "closing"] => Leaves
    OBVIOUS
  <2> HIDE DEF Leaves
  <2>3. IteratorMoves
    BY <1>7, <1>a, <1>b, <2>2 DEF CloseClients, DispatchRead, DispatchAccept
  <2> QED BY <2>1, <2>3 DEF ResolversKept
<1>8. CASE DispatchWrite
  <2>1. UNCHANGED <<ests, resolvers, worker>>
    BY <1>8 DEF DispatchWrite, resVars
  <2>2. loop' = [at |-> "closing"] => Leaves
    OBVIOUS
  <2> HIDE DEF Leaves
  <2>3. IteratorMoves
    BY <1>8, <1>a, <1>b, <2>2 DEF DispatchWrite
  <2> QED BY <2>1, <2>3 DEF ResolversKept
<1>9. CASE Wait \/ Timeout \/ TakeEvent
  <2>1. UNCHANGED <<ests, resolvers, worker>>
    BY <1>9 DEF Wait, Timeout, TakeEvent, resVars
  <2>2. NoEvent => IteratorMoves
    BY DEF NoEvent, IteratorMoves
  <2>3. IteratorMoves
    BY <1>9, <1>a, <2>2 DEF Wait, Timeout, TakeEvent
  <2> QED BY <2>1, <2>3 DEF ResolversKept
<1>10. CASE CheckInterrupted
  BY <1>10, <1>a DEF CheckInterrupted, Idle, resVars, ResolversKept
<1>11. UserCall => ResolversKept \/ ResolverSteps
  BY <1>1, <1>2, <1>4, <1>5 DEF UserCall, ResolverSteps
<1>12. Run => ResolversKept \/ ResolverSteps
  BY <1>6, <1>7, <1>8, <1>9, <1>10 DEF Run, ResolverSteps
<1>13. Peers => ResolversKept \/ ResolverSteps
  BY <1>3 DEF Peers, ResolverSteps
<1> QED BY <1>1, <1>9, <1>11, <1>12, <1>13 DEF Next, ResolverSteps

\* The links, as they are kept by the steps below.
LEMMA ResolverStep == ResolverInv /\ [Next]_vars => ResolverInv'
<1> SUFFICES ASSUME ResolverInv, [Next]_vars PROVE ResolverInv'
  OBVIOUS
<1>1. ResolversTyped /\ LoopTyped /\ Numbered /\ IteratorValid /\ ResolversLinked
  BY DEF ResolverInv
<1>2. LoopTyped'
  BY <1>1, LoopStep
<1>3. DOMAIN resolvers \subseteq Nat \ {End} /\ DOMAIN worker \subseteq Nat \ {End}
  BY <1>1 DEF ResolversTyped, Map
<1>4. CASE ResolversKept
  <2>1. FirstResolver(DOMAIN resolvers) \in DOMAIN resolvers \cup {End}
    BY <1>3, FirstOf
  <2>2. UNCHANGED <<ests, resolvers, worker>>
    BY <1>4 DEF ResolversKept
  <2>3. IteratorValid'
    BY <1>1, <1>4, <2>1, <2>2 DEF ResolversKept, IteratorMoves, IteratorValid
  <2> QED BY <1>1, <1>2, <2>2, <2>3 DEF ResolverInv, ResolversTyped, Numbered, ResolversLinked
<1>5. ASSUME UNCHANGED <<resolvers, worker>>, UNCHANGED loop \/ ~Iterating'
      PROVE  Numbered' /\ IteratorValid'
  BY <1>1, <1>5 DEF Numbered, IteratorValid, Iterating, At
<1>6. CASE connect
  <2>1. UNCHANGED <<resolvers, worker, loop>>
    BY <1>6 DEF connect, resVars
  <2>2. CASE UNCHANGED ests
    BY <1>1, <1>2, <1>5, <2>1, <2>2 DEF ResolverInv, ResolversTyped, ResolversLinked
  <2>3. CASE ~UNCHANGED ests
    <3>1. PICK e \in Establishers \ DOMAIN ests :
            ests' = With(ests, e, [resolver |-> End, sock |-> "connecting"])
      BY <1>6, <2>3 DEF connect
    <3>2. ResolversTyped'
      BY <1>1, <2>1, <3>1 DEF ResolversTyped, With, Map, EstType, End
    <3>3. ResolversLinked'
      BY <1>1, <2>1, <3>1 DEF ResolversLinked, With
    <3> QED BY <1>2, <1>5, <2>1, <3>2, <3>3 DEF ResolverInv
  <2> QED BY <2>2, <2>3
<1>7. CASE connectHost
  <2> DEFINE r == Cardinality(DOMAIN worker) + 1
  <2>1. PICK e \in Establishers \ DOMAIN ests :
          /\ ests' = With(ests, e, [resolver |-> r, sock |-> "none"])
          /\ resolvers' = With(resolvers, r, [establisher |-> e, finished |-> FALSE])
          /\ worker' = With(worker, r, [at |-> "resolve", addr |-> FALSE])
    BY <1>7 DEF connectHost
  <2>2. UNCHANGED loop
    BY <1>7 DEF connectHost
  <2>3. IsFiniteSet(DOMAIN worker) /\ Cardinality(DOMAIN worker) \in Nat
    BY <1>1, FS_CardinalityType DEF Numbered
  <2>4. r \in Nat \ {0} /\ r \notin DOMAIN worker /\ r \notin DOMAIN resolvers
    BY <1>1, <2>3 DEF Numbered
  <2>5. DOMAIN worker' = DOMAIN worker \cup {r}
    BY <2>1 DEF With
  <2>6. IsFiniteSet(DOMAIN worker') /\ Cardinality(DOMAIN worker') = r
    BY <2>3, <2>4, <2>5, FS_AddElement
  <2>7. DOMAIN worker' = 1 .. r
    <3>1. DOMAIN worker = 1 .. Cardinality(DOMAIN worker)
      BY <1>1 DEF Numbered
    <3>2. \A n \in Nat : 1 .. n + 1 = (1 .. n) \cup {n + 1}
      OBVIOUS
    <3> QED BY <2>3, <2>5, <3>1, <3>2
  <2>8. Numbered'
    BY <1>1, <2>1, <2>5, <2>6, <2>7 DEF Numbered, With
  <2> HIDE DEF r
  <2>9. ResolversTyped'
    BY <1>1, <2>1, <2>4 DEF ResolversTyped, With, Map, EstType, ResolverType, WorkerType, End
  <2>10. IteratorValid'
    BY <1>1, <2>1, <2>2 DEF IteratorValid, Iterating, At, With
  <2>11. e # None
    BY ServerAssumption DEF None
  <2>12. ResolversLinked'
    BY <1>1, <2>1, <2>4, <2>11 DEF ResolversLinked, With
  <2> QED BY <1>2, <2>8, <2>9, <2>10, <2>12 DEF ResolverInv
<1>8. CASE clear
  <2>1. /\ ests' = <<>> /\ resolvers' = <<>> /\ UNCHANGED <<worker, loop>> /\ At("idle")
        /\ \A r \in DOMAIN resolvers : worker[r].at = "done"
    BY <1>8 DEF clear
  <2>2. ~Iterating'
    BY <2>1 DEF Iterating, At
  <2>3. DOMAIN ests' = {} /\ DOMAIN resolvers' = {}
    BY <2>1
  <2>4. ResolversTyped'
    BY <1>1, <2>1 DEF ResolversTyped, Map
  <2>5. Numbered' /\ IteratorValid'
    BY <1>1, <2>1, <2>2, <2>3 DEF Numbered, IteratorValid
  <2>6. ResolversLinked'
    BY <1>1, <2>1, <2>3 DEF ResolversLinked
  <2> QED BY <1>2, <2>4, <2>5, <2>6 DEF ResolverInv
<1>9. ASSUME NEW e, NEW s \in {"none", "connecting", "connected", "refused"},
             ests' = [ests EXCEPT ![e].sock = s], UNCHANGED <<resolvers, worker>>
      PROVE  ResolversTyped' /\ ResolversLinked'
  <2>1. ResolversTyped'
    BY <1>1, <1>9 DEF ResolversTyped, Map, EstType
  <2>2. DOMAIN ests' = DOMAIN ests /\ \A x \in DOMAIN ests : ests'[x].resolver = ests[x].resolver
    BY <1>1, <1>9 DEF ResolversTyped, Map, EstType
  <2> QED BY <1>1, <1>9, <2>1, <2>2 DEF ResolversLinked
<1>10. CASE DispatchConnect
  <2>1. UNCHANGED <<resolvers, worker>>
    BY <1>10 DEF DispatchConnect, resVars
  <2>2. ~Iterating'
    <3>1. ASSUME NEW fn, NEW obj, Callback(fn, obj, "closing", End) PROVE ~Iterating'
      BY <3>1 DEF Callback, Iterating, At
    <3> QED BY <1>10, <3>1 DEF DispatchConnect
  <2>3. CASE UNCHANGED ests
    BY <1>1, <1>2, <1>5, <2>1, <2>2, <2>3 DEF ResolverInv, ResolversTyped, ResolversLinked
  <2>4. CASE ~UNCHANGED ests
    <3>1. ests' = [ests EXCEPT ![loop.obj].sock = "none"]
      BY <1>10, <2>4 DEF DispatchConnect
    <3> QED BY <1>2, <1>5, <1>9, <2>1, <2>2, <3>1 DEF ResolverInv
  <2> QED BY <2>3, <2>4
<1>11. ASSUME NEW e \in Establishers, Answer(e) PROVE ResolverInv'
  <2>1. UNCHANGED <<resolvers, worker, loop>>
    BY <1>11 DEF Answer, resVars
  <2>2. PICK s \in {"connected", "refused"} : ests' = [ests EXCEPT ![e].sock = s]
    BY <1>11 DEF Answer
  <2> QED BY <1>2, <1>5, <1>9, <2>1, <2>2 DEF ResolverInv
<1>12. ASSUME NEW e \in Establishers, removeEstablisher(e) PROVE ResolverInv'
  <2>1. /\ e \in DOMAIN ests /\ ests' = Without(ests, e) /\ UNCHANGED <<worker, loop>>
        /\ resolvers' = IF ests[e].resolver = End THEN resolvers
                        ELSE [resolvers EXCEPT ![ests[e].resolver].establisher = None]
    BY <1>12 DEF removeEstablisher
  <2>2. DOMAIN resolvers' = DOMAIN resolvers
    BY <2>1
  <2>3. Numbered' /\ IteratorValid'
    BY <1>1, <2>1, <2>2 DEF Numbered, IteratorValid, Iterating, At
  <2>4. ResolversTyped'
    BY <1>1, <2>1 DEF ResolversTyped, Without, Restrict, Map, ResolverType
  <2>5. \A r \in DOMAIN resolvers :
          resolvers'[r].establisher = IF ests[e].resolver = r THEN None ELSE resolvers[r].establisher
    BY <1>1, <1>3, <2>1 DEF ResolversTyped, Map, ResolverType
  <2>6. /\ DOMAIN ests' = DOMAIN ests \ {e}
        /\ \A x \in DOMAIN ests' : ests'[x] = ests[x]
    BY <2>1 DEF Without, Restrict
  <2>7. ResolversLinked'
    BY <1>1, <1>3, <2>1, <2>2, <2>5, <2>6 DEF ResolversLinked
  <2> QED BY <1>2, <2>3, <2>4, <2>7 DEF ResolverInv
<1>13. ASSUME NEW r \in DOMAIN worker, resolve(r) PROVE ResolverInv'
  <2>1. UNCHANGED <<ests, loop>>
    BY <1>13 DEF resolve
  <2>2. PICK w \in WorkerType : worker' = [worker EXCEPT ![r] = w] /\ worker[r].at # "done"
    <3>1. worker[r] \in WorkerType
      BY <1>1 DEF ResolversTyped, Map
    <3>2. CASE worker[r].at = "resolve"
      BY <1>13, <3>2 DEF resolve, WorkerType
    <3>3. CASE worker[r].at = "finished"
      <4>1. worker' = [worker EXCEPT ![r] = [worker[r] EXCEPT !.at = "done"]]
        BY <1>13, <3>3 DEF resolve
      <4>2. [worker[r] EXCEPT !.at = "done"] \in WorkerType
        BY <3>1 DEF WorkerType
      <4> QED BY <3>3, <4>1, <4>2
    <3> QED BY <1>13, <3>2, <3>3 DEF resolve
  <2>3. resolvers' = resolvers \/ resolvers' = [resolvers EXCEPT ![r].finished = TRUE]
    BY <1>13 DEF resolve
  <2>4. DOMAIN resolvers' = DOMAIN resolvers /\ DOMAIN worker' = DOMAIN worker
    BY <2>2, <2>3
  <2>5. Numbered' /\ IteratorValid'
    BY <1>1, <2>1, <2>4 DEF Numbered, IteratorValid, Iterating, At
  <2>6. ResolversTyped'
    <3>1. Map(worker', Nat \ {End}, WorkerType)
      BY <1>1, <2>2 DEF ResolversTyped, Map
    <3>2. Map(resolvers', Nat \ {End}, ResolverType)
      BY <1>1, <2>3 DEF ResolversTyped, Map, ResolverType
    <3> QED BY <1>1, <2>1, <3>1, <3>2 DEF ResolversTyped
  <2>7. \A q \in DOMAIN resolvers : resolvers'[q].establisher = resolvers[q].establisher
    BY <1>1, <2>3 DEF ResolversTyped, Map, ResolverType
  <2>8. r \in DOMAIN resolvers
    BY <1>1, <2>2 DEF ResolversLinked
  <2>9. \A q \in DOMAIN worker : worker'[q].at # "done" => q = r \/ worker[q].at # "done"
    BY <2>2
  <2>10. ResolversLinked'
    BY <1>1, <2>1, <2>4, <2>7, <2>8, <2>9 DEF ResolversLinked
  <2> QED BY <1>2, <2>5, <2>6, <2>10 DEF ResolverInv
<1>14. CASE VisitResolver
  <2> DEFINE r == loop.iter
             e == resolvers[r].establisher
             next == FirstResolver({q \in DOMAIN resolvers : q > r})
  <2>1. At("resolvers") /\ r # End /\ UNCHANGED worker
    BY <1>14 DEF VisitResolver
  <2>2. r \in DOMAIN resolvers
    BY <1>1, <2>1 DEF IteratorValid, Iterating
  <2>3. next \in (DOMAIN resolvers \ {r}) \cup {End}
    <3>1. {q \in DOMAIN resolvers : q > r} \in SUBSET Nat
      BY <1>3
    <3>2. next \in {q \in DOMAIN resolvers : q > r} \cup {End}
      BY <3>1, FirstOf
    <3>3. ~(r > r)
      BY <1>3, <2>2
    <3> HIDE DEF next
    <3> QED BY <3>2, <3>3
  <2>4. Iterating' => loop'.iter = next
    <3>1. Callback("onAbolished", e, "resolvers", next) => loop'.iter = next
      BY DEF Callback
    <3> QED BY <1>14, <3>1 DEF VisitResolver
  <2> HIDE DEF next
  <2>5. CASE UNCHANGED <<resolvers, ests>>
    <3>1. IteratorValid'
      BY <2>3, <2>4, <2>5 DEF IteratorValid
    <3> QED BY <1>1, <1>2, <2>1, <2>5, <3>1 DEF ResolverInv, ResolversTyped, Numbered, ResolversLinked
  <2>6. CASE ~UNCHANGED <<resolvers, ests>>
    <3>1. /\ worker[r].at = "done" /\ resolvers' = Without(resolvers, r)
          /\ \/ e = None /\ UNCHANGED ests
             \/ e # None /\ ests' = [ests EXCEPT ![e].resolver = End]
             \/ e # None /\ ests' = [ests EXCEPT ![e] = [resolver |-> End, sock |-> "connecting"]]
      BY <1>14, <2>6 DEF VisitResolver
    <3>2. /\ DOMAIN resolvers' = DOMAIN resolvers \ {r}
          /\ \A q \in DOMAIN resolvers' : resolvers'[q] = resolvers[q]
      BY <3>1 DEF Without, Restrict
    <3>3. /\ DOMAIN ests' = DOMAIN ests
          /\ \A x \in DOMAIN ests :
               ests'[x].resolver = IF x = e /\ e # None THEN End ELSE ests[x].resolver
      BY <1>1, <3>1 DEF ResolversTyped, Map, EstType
    <3>4. ResolversTyped'
      BY <1>1, <2>1, <3>1 DEF ResolversTyped, Map, EstType, Without, Restrict, End
    <3>5. Numbered' /\ IteratorValid'
      BY <1>1, <2>1, <2>3, <2>4, <3>2 DEF Numbered, IteratorValid
    <3>6. ResolversLinked'
      <4> HIDE DEF r, e
      <4>1. ASSUME NEW x \in DOMAIN ests', ests'[x].resolver # End
            PROVE  /\ ests'[x].resolver \in DOMAIN resolvers'
                   /\ resolvers'[ests'[x].resolver].establisher = x
        <5>1. ests'[x].resolver = ests[x].resolver /\ x \in DOMAIN ests /\ ~(x = e /\ e # None)
          BY <3>3, <4>1
        <5>2. ests[x].resolver \in DOMAIN resolvers /\ resolvers[ests[x].resolver].establisher = x
          BY <1>1, <4>1, <5>1 DEF ResolversLinked
        <5>3. x # None
          BY <1>1, <5>1, ServerAssumption DEF ResolversTyped, Map, None
        <5>4. ests[x].resolver # r
          BY <5>1, <5>2, <5>3 DEF e
        <5> QED BY <3>2, <5>1, <5>2, <5>4
      <4>2. ASSUME NEW q \in DOMAIN resolvers', resolvers'[q].establisher # None
            PROVE  /\ resolvers'[q].establisher \in DOMAIN ests'
                   /\ ests'[resolvers'[q].establisher].resolver = q
        <5> DEFINE x == resolvers[q].establisher
        <5>1. q \in DOMAIN resolvers /\ q # r /\ resolvers'[q] = resolvers[q] /\ x # None
          BY <3>2, <4>2
        <5>2. x \in DOMAIN ests /\ ests[x].resolver = q
          BY <1>1, <5>1 DEF ResolversLinked
        <5>3. ~(x = e /\ e # None)
          BY <1>1, <2>2, <5>1, <5>2 DEF ResolversLinked, e
        <5> QED BY <3>3, <5>1, <5>2, <5>3
      <4>3. \A q \in DOMAIN worker' : worker'[q].at # "done" => q \in DOMAIN resolvers'
        BY <1>1, <2>1, <3>1, <3>2 DEF ResolversLinked, r
      <4> QED BY <4>1, <4>2, <4>3 DEF ResolversLinked
    <3> QED BY <1>2, <3>4, <3>5, <3>6 DEF ResolverInv
  <2> QED BY <2>5, <2>6
<1> QED
  BY <1>1, <1>4, <1>6, <1>7, <1>8, <1>10, <1>11, <1>12, <1>13, <1>14, ResolverClasses
  DEF ResolverSteps

\* The resolvers at the start.
LEMMA ResolverInit == Init => ResolverInv
<1> SUFFICES ASSUME Init PROVE ResolverInv
  OBVIOUS
<1>1. ests = <<>> /\ resolvers = <<>> /\ worker = <<>> /\ loop = Idle
  BY DEF Init
<1>2. DOMAIN ests = {} /\ DOMAIN resolvers = {} /\ DOMAIN worker = {}
  BY <1>1
<1>3. ResolversTyped
  BY <1>1 DEF ResolversTyped, Map
<1>4. Numbered
  BY <1>2, FS_EmptySet DEF Numbered
<1>5. LoopTyped /\ IteratorValid
  BY <1>1 DEF LoopTyped, IteratorValid, Iterating, At, Idle
<1>6. ResolversLinked
  BY <1>2 DEF ResolversLinked
<1> QED BY <1>3, <1>4, <1>5, <1>6 DEF ResolverInv

\* The loop and the threads of the pool agree about the resolvers (Server.cpp 156-158,
\* 221-227, 279-307), for any number of host names and establishers: the links between a
\* resolver and its establisher are mutual, and no resolver is freed under its thread.
THEOREM ResolversAgree == Spec => []ResolversLinked
<1>2. ResolverInv => ResolversLinked
  BY DEF ResolverInv
<1> QED BY <1>2, ResolverInit, ResolverStep, PTL DEF Spec

-----------------------------------------------------------------------------
(* The objects and their sockets.  What a step does to them is one of six  *)
(* things.                                                                 *)

\* The list of clients to be closed stays, loses its first one or gets another.
ClosingMoves == \/ closing' = closing
                \/ closing # <<>> /\ closing' = Tail(closing)
                \/ \E c \in DOMAIN clients : AddToClosing(c)

\* No object and no socket changes; the selection may.
Keeps ==
  /\ UNCHANGED <<clients, conn, listening>> /\ DOMAIN ests \subseteq DOMAIN ests'
  /\ ClosingMoves
  /\ \/ poll' = poll
     \/ \E ready : poll' = Select(poll, ready)
     \/ \E s : poll' = Take(poll, s)

\* The socket of the listener or of an establisher is registered or removed.
ChangesOther ==
  /\ UNCHANGED <<clients, conn, closing>>
  /\ \/ \E e \in Establishers : /\ poll' = PollSet(poll, e, {"connect"})
                                /\ DOMAIN ests \cup {e} \subseteq DOMAIN ests'
                                /\ UNCHANGED listening
     \/ \E e \in Establishers : /\ poll' = PollRemove(poll, e)
                                /\ DOMAIN ests \ {e} \subseteq DOMAIN ests'
                                /\ UNCHANGED listening
     \/ /\ poll' = PollSet(poll, Listener, {"accept"})
        /\ listening' /\ UNCHANGED ests
     \/ /\ poll' = PollRemove(poll, Listener) /\ UNCHANGED ests

\* A client is made; one that was connected takes the establisher's place.
AddsClient ==
  /\ UNCHANGED <<listening, closing>> /\ DOMAIN ests \subseteq DOMAIN ests'
  /\ \E c \in Clients \ DOMAIN clients, cb \in BOOLEAN, p \in {poll} \cup {PollRemove(poll, e) : e \in Establishers} :
       /\ clients' = With(clients, c, NewClient(cb))
       /\ conn' = With(conn, c, NewConn(MaxRoom))
       /\ poll' = PollSet(p, c, {"read"})

\* A client is removed: its socket, its place in the list and itself.
DeletesClient ==
  /\ UNCHANGED <<listening, ests>>
  /\ \E c \in DOMAIN clients : deleteClient(c)

\* A client's buffer, flags or connection change: its socket follows, and what is sent
\* and what waits stay in order.
ChangesClient ==
  /\ UNCHANGED <<listening, ests>>
  /\ ClosingMoves
  /\ \E c \in DOMAIN clients, cl \in ClientType, k \in ConnType :
       /\ clients' = [clients EXCEPT ![c] = cl] /\ conn' = [conn EXCEPT ![c] = k]
       /\ conn[c].err => k.err
       /\ Stream(k, cl.sendBuffer)
       /\ \/ poll' = PollSet(poll, c, Wanted(cl))
          \/ poll' = PollRemove(poll, c) /\ k.err /\ cl.sendBuffer = <<>>
          \/ poll' = poll /\ Wanted(cl) = Wanted(clients[c])

\* What a step does: one of these, or all objects go.
ObjectStep == Keeps \/ ChangesOther \/ AddsClient \/ DeletesClient \/ ChangesClient \/ clear

\* What the type of the maps says of one client.
LEMMA OneClient ==
  ASSUME ClientsTyped, NEW c \in DOMAIN clients
  PROVE  /\ c \in Clients /\ c \in DOMAIN conn
         /\ clients[c] \in ClientType /\ conn[c] \in ConnType
BY DEF ClientsTyped, Map

\* The client whose socket is reported as readable or writable.
LEMMA DispatchedClient ==
  ASSUME ObjectInv, At("dispatch"), "write" \in loop.flags \/ "read" \in loop.flags
  PROVE  loop.obj \in DOMAIN clients /\ ("write" \in loop.flags => clients[loop.obj].sendBuffer # <<>>)
<1>1. loop.obj \in DOMAIN poll.sockets /\ loop.flags \subseteq poll.sockets[loop.obj]
  BY DEF ObjectInv, Dispatched
<1>2. loop.obj \in Objects
  BY <1>1 DEF ObjectInv, PollSound, Map
<1>3. loop.obj \notin Establishers \cup {Listener}
  BY <1>1 DEF ObjectInv, Registered
<1>4. loop.obj \in DOMAIN clients /\ poll.sockets[loop.obj] = Wanted(clients[loop.obj])
  BY <1>1, <1>2, <1>3 DEF ObjectInv, Registered, Objects
<1> QED BY <1>1, <1>4 DEF Wanted

\* ClientImpl::write.
LEMMA WriteStep ==
  ASSUME ObjectInv, NEW c \in Clients, NEW n \in 0 .. 2, write(c, n)
  PROVE  Keeps \/ ChangesClient
<1> DEFINE data == [i \in 1 .. n |-> conn[c].written + i]
           k == [conn[c] EXCEPT !.written = @ + n]
           s == Send(k, data)
           buffer == clients[c].sendBuffer
           rest == SubSeq(data, s.sent + 1, n)
<1>1. c \in DOMAIN clients /\ UNCHANGED <<listening, ests>>
  BY DEF write, Mine
<1>2. ClientsTyped /\ Stream(conn[c], buffer)
  BY <1>1 DEF ObjectInv, Streams
<1>3. /\ clients[c] \in ClientType /\ conn[c] \in ConnType /\ buffer \in Seq(Nat)
      /\ clients = [clients EXCEPT ![c] = clients[c]] /\ c \in DOMAIN conn
  BY <1>1, <1>2, OneClient DEF ClientType, ClientsTyped, Map
<1>4. /\ data \in Seq(Nat) /\ Len(data) = n /\ k \in ConnType /\ k.err = conn[c].err
      /\ Stream(k, buffer \o data)
  <2>1. n \in Nat
    OBVIOUS
  <2> QED BY <1>2, <1>3, <2>1, WriteStream
<1>5. CASE buffer # <<>>
  <2> DEFINE cl == [clients[c] EXCEPT !.sendBuffer = buffer \o data]
  <2>1. /\ clients' = [clients EXCEPT ![c] = cl] /\ conn' = [conn EXCEPT ![c] = k]
        /\ UNCHANGED <<poll, closing>>
    BY <1>5 DEF write
  <2> HIDE DEF data, k
  <2>2. cl \in ClientType /\ cl.sendBuffer = buffer \o data /\ cl.suspended = clients[c].suspended
    <3>1. buffer \o data \in Seq(Nat)
      BY <1>3, <1>4
    <3> QED BY <1>3, <3>1 DEF ClientType
  <2>3. cl.sendBuffer # <<>>
    BY <1>3, <1>4, <1>5, <2>2
  <2> HIDE DEF cl
  <2>4. Wanted(cl) = Wanted(clients[c])
    BY <1>5, <2>2, <2>3 DEF Wanted
  <2> QED BY <1>1, <1>4, <2>1, <2>2, <2>4 DEF ChangesClient, ClosingMoves
<1>6. CASE buffer = <<>> /\ s.res \in {"error", "zero"}
  <2>1. UNCHANGED <<clients, conn, poll>> /\ AddToClosing(c)
    BY <1>6 DEF write
  <2> QED BY <1>1, <2>1 DEF Keeps, ClosingMoves
<1>7. CASE buffer = <<>> /\ ~(s.res \in {"error", "zero"})
  <2> DEFINE cl == [clients[c] EXCEPT !.sendBuffer = buffer \o rest]
             wait == IF clients[c].suspended THEN {"write"} ELSE {"read", "write"}
  <2>1. /\ clients' = [clients EXCEPT ![c] = cl] /\ conn' = [conn EXCEPT ![c] = s.conn]
        /\ UNCHANGED closing
        /\ poll' = IF s.sent = n THEN poll ELSE PollSet(poll, c, wait)
    BY <1>7 DEF write
  <2>2. Stream(k, data)
    <3> HIDE DEF data, k
    <3> QED BY <1>3, <1>4, <1>7
  <2>3. rest \in Seq(Nat) /\ Len(rest) = n - s.sent /\ Stream(s.conn, rest)
    <3> HIDE DEF data, k
    <3> QED BY <1>4, <2>2, FlushStream
  <2>4. s.conn \in ConnType /\ s.conn.err = k.err /\ s.sent \in 0 .. n
    <3> HIDE DEF data, k
    <3> QED BY <1>4, SendSound
  <2> HIDE DEF data, k, s, rest
  <2>5. buffer \o rest = rest
    BY <1>7, <2>3
  <2>6. cl \in ClientType /\ cl.sendBuffer = rest /\ cl.suspended = clients[c].suspended
    BY <1>3, <2>3, <2>5 DEF ClientType
  <2> HIDE DEF cl
  <2>7. CASE s.sent = n
    <3>1. rest = <<>>
      BY <2>3, <2>7
    <3>2. Wanted(cl) = Wanted(clients[c])
      BY <1>7, <2>6, <3>1 DEF Wanted
    <3> QED BY <1>1, <1>4, <2>1, <2>3, <2>4, <2>6, <2>7, <3>2 DEF ChangesClient, ClosingMoves
  <2>8. CASE s.sent # n
    <3>1. rest # <<>>
      BY <2>3, <2>4, <2>8
    <3>2. Wanted(cl) = wait
      BY <2>6, <3>1 DEF Wanted
    <3> QED BY <1>1, <1>4, <2>1, <2>3, <2>4, <2>6, <2>8, <3>2 DEF ChangesClient, ClosingMoves
  <2> QED BY <2>7, <2>8
<1> QED BY <1>5, <1>6, <1>7

\* The flush of the send buffer.
LEMMA FlushStep == ASSUME ObjectInv, DispatchWrite PROVE ChangesClient
<1> DEFINE c == loop.obj
           buffer == clients[c].sendBuffer
           s == Send(conn[c], buffer)
           left == SubSeq(buffer, s.sent + 1, Len(buffer))
           failed == s.res = "error"
           cl == [clients[c] EXCEPT !.sendBuffer = IF failed THEN <<>> ELSE left]
           wait == IF clients[c].suspended THEN {} ELSE {"read"}
<1>1. At("dispatch") /\ "write" \in loop.flags /\ UNCHANGED <<listening, ests, closing>>
  BY DEF DispatchWrite
<1>2. c \in DOMAIN clients /\ buffer # <<>>
  BY <1>1, DispatchedClient
<1>3. /\ conn' = [conn EXCEPT ![c] = s.conn]
      /\ clients' = [clients EXCEPT ![c] = cl]
      /\ poll' = CASE failed -> PollRemove(poll, c)
                   [] ~failed /\ left = <<>> -> PollSet(poll, c, wait)
                   [] OTHER -> poll
  BY <1>2 DEF DispatchWrite
<1>4. clients[c] \in ClientType /\ conn[c] \in ConnType /\ buffer \in Seq(Nat) /\ Stream(conn[c], buffer)
  BY <1>2, OneClient DEF ObjectInv, Streams, ClientType
<1>5. left \in Seq(Nat) /\ Stream(s.conn, left)
  BY <1>4, FlushStream
<1>6. s.conn \in ConnType /\ s.conn.err = conn[c].err /\ (failed <=> conn[c].err)
  BY <1>4, SendSound
<1> HIDE DEF s, left, failed
<1>7. /\ cl \in ClientType /\ cl.sendBuffer = (IF failed THEN <<>> ELSE left)
      /\ cl.suspended = clients[c].suspended
  <2> DEFINE b == IF failed THEN <<>> ELSE left
  <2>1. b \in Seq(Nat) /\ cl = [clients[c] EXCEPT !.sendBuffer = b]
    BY <1>5
  <2> HIDE DEF b, cl
  <2>2. cl \in ClientType /\ cl.sendBuffer = b /\ cl.suspended = clients[c].suspended
    BY <1>4, <2>1 DEF ClientType
  <2> QED BY <2>2 DEF b
<1> HIDE DEF cl
<1>8. CASE failed
  <2>1. Stream(s.conn, <<>>) /\ cl.sendBuffer = <<>> /\ s.conn.err /\ poll' = PollRemove(poll, c)
    BY <1>3, <1>6, <1>7, <1>8 DEF Stream
  <2> QED BY <1>1, <1>2, <1>3, <1>6, <1>7, <2>1 DEF ChangesClient, ClosingMoves
<1>9. CASE ~failed /\ left = <<>>
  <2>1. cl.sendBuffer = left /\ poll' = PollSet(poll, c, wait)
    BY <1>3, <1>7, <1>9
  <2>2. Wanted(cl) = wait
    BY <1>7, <1>9, <2>1 DEF Wanted
  <2> QED BY <1>1, <1>2, <1>3, <1>5, <1>6, <1>7, <2>1, <2>2 DEF ChangesClient, ClosingMoves
<1>10. CASE ~failed /\ left # <<>>
  <2>1. cl.sendBuffer = left /\ poll' = poll
    BY <1>3, <1>7, <1>10
  <2>2. Wanted(cl) = Wanted(clients[c])
    BY <1>2, <1>7, <1>10, <2>1 DEF Wanted
  <2> QED BY <1>1, <1>2, <1>3, <1>5, <1>6, <1>7, <2>1, <2>2 DEF ChangesClient, ClosingMoves
<1> QED BY <1>8, <1>9, <1>10

\* The steps of the peers and of the user that change the connection only.
LEMMA ConnStep ==
  ASSUME ObjectInv, NEW c \in DOMAIN clients, NEW k \in ConnType,
         conn' = [conn EXCEPT ![c] = k], k.out = conn[c].out, k.written = conn[c].written,
         conn[c].err => k.err, ClosingMoves, UNCHANGED <<clients, poll, listening, ests>>
  PROVE  ChangesClient
<1>1. clients[c] \in ClientType /\ conn[c] \in ConnType /\ Stream(conn[c], clients[c].sendBuffer)
  BY OneClient DEF ObjectInv, Streams
<1>2. clients' = [clients EXCEPT ![c] = clients[c]]
  BY DEF ObjectInv, ClientsTyped, Map
<1>3. Stream(k, clients[c].sendBuffer)
  BY <1>1 DEF Stream
<1> QED BY <1>1, <1>2, <1>3 DEF ChangesClient

\* Every step is one of the six.
LEMMA ObjectClasses == ResolverInv /\ ObjectInv /\ [Next]_vars => ObjectStep
<1> SUFFICES ASSUME ResolverInv, ObjectInv, [Next]_vars PROVE ObjectStep
  OBVIOUS
<1>0. ClientsTyped /\ LoopTyped /\ CallbackKnown /\ DOMAIN conn = DOMAIN clients
  BY DEF ObjectInv, ClientsTyped
<1>a. ASSUME UNCHANGED <<poll, clients, conn, listening, ests>>, ClosingMoves PROVE Keeps
  BY <1>a DEF Keeps
<1>1. CASE interrupt \/ Notify \/ UNCHANGED vars \/ Timeout \/ Arrive \/ startRun \/ DispatchRead
           \/ CheckInterrupted \/ CloseClients
  <2>1. ClosingMoves
    BY <1>1 DEF interrupt, Notify, vars, Timeout, Arrive, startRun, DispatchRead, CheckInterrupted,
                CloseClients, ClosingMoves
  <2>2. UNCHANGED <<poll, clients, conn, listening, ests>>
    BY <1>1 DEF interrupt, Notify, vars, Timeout, Arrive, startRun, DispatchRead, CheckInterrupted,
                CloseClients, netVars
  <2> QED BY <1>a, <2>1, <2>2 DEF ObjectStep
<1>2. ASSUME NEW r \in DOMAIN worker, resolve(r) PROVE ObjectStep
  BY <1>2, <1>a DEF resolve, netVars, ClosingMoves, ObjectStep
<1>3. ASSUME NEW e \in Establishers, Answer(e) PROVE ObjectStep
  <2>1. DOMAIN ests' = DOMAIN ests
    BY <1>3 DEF Answer
  <2> QED BY <1>3, <2>1 DEF Answer, netVars, ClosingMoves, Keeps, ObjectStep
<1>4. CASE connectHost
  <2>1. DOMAIN ests \subseteq DOMAIN ests'
    BY <1>4 DEF connectHost, With
  <2> QED BY <1>4, <2>1 DEF connectHost, netVars, ClosingMoves, Keeps, ObjectStep
<1>5. CASE Wait
  <2>1. poll' = Select(poll, Ready) /\ UNCHANGED <<clients, conn, listening, ests, closing>>
    BY <1>5 DEF Wait, netVars
  <2> QED BY <2>1 DEF ClosingMoves, Keeps, ObjectStep
<1>6. CASE TakeEvent
  <2>1. (\E s : poll' = Take(poll, s)) /\ UNCHANGED <<clients, conn, listening, ests, closing>>
    BY <1>6 DEF TakeEvent, netVars
  <2> QED BY <2>1 DEF ClosingMoves, Keeps, ObjectStep
<1>7. CASE listen
  <2>1. UNCHANGED <<clients, conn, ests, closing>>
    BY <1>7 DEF listen
  <2>2. CASE UNCHANGED <<listening, poll>>
    BY <1>a, <2>1, <2>2 DEF ClosingMoves, ObjectStep
  <2>3. CASE ~UNCHANGED <<listening, poll>>
    BY <1>7, <2>1, <2>3 DEF listen, ChangesOther, ObjectStep
  <2> QED BY <2>2, <2>3
<1>8. CASE connect
  <2>1. UNCHANGED <<clients, conn, listening, closing>>
    BY <1>8 DEF connect, netVars
  <2>2. CASE UNCHANGED <<ests, poll>>
    BY <1>a, <2>1, <2>2 DEF ClosingMoves, ObjectStep
  <2>3. CASE ~UNCHANGED <<ests, poll>>
    <3>1. PICK e \in Establishers : /\ ests' = With(ests, e, [resolver |-> End, sock |-> "connecting"])
                                    /\ poll' = PollSet(poll, e, {"connect"})
      BY <1>8, <2>3 DEF connect
    <3>2. DOMAIN ests \cup {e} \subseteq DOMAIN ests'
      BY <3>1 DEF With
    <3> QED BY <2>1, <3>1, <3>2 DEF ChangesOther, ObjectStep
  <2> QED BY <2>2, <2>3
<1>9. CASE pair
  <2>1. UNCHANGED <<listening, ests, closing>>
    BY <1>9 DEF pair
  <2>2. CASE UNCHANGED <<clients, conn, poll>>
    BY <1>a, <2>1, <2>2 DEF ClosingMoves, ObjectStep
  <2>3. CASE ~UNCHANGED <<clients, conn, poll>>
    <3>1. PICK c \in Clients \ DOMAIN clients :
                 /\ clients' = With(clients, c, NewClient(TRUE))
                 /\ conn' = With(conn, c, NewConn(MaxRoom))
                 /\ poll' = PollSet(poll, c, {"read"})
      BY <1>9, <2>3 DEF pair
    <3> QED BY <2>1, <3>1 DEF AddsClient, ObjectStep
  <2> QED BY <2>2, <2>3
<1>10. ASSUME NEW c \in Clients, removeClient(c) PROVE ObjectStep
  <2>1. c \in DOMAIN clients /\ UNCHANGED <<listening, ests>>
    BY <1>10 DEF removeClient, Mine
  <2>2. CASE clients[c].callback
    BY <1>10, <2>1, <2>2 DEF removeClient, DeletesClient, ObjectStep
  <2>3. CASE ~clients[c].callback
    <3>1. AddToClosing(c) /\ UNCHANGED <<poll, clients, conn>>
      BY <1>10, <2>3 DEF removeClient
    <3> QED BY <1>a, <2>1, <3>1 DEF ClosingMoves, ObjectStep
  <2> QED BY <2>2, <2>3
<1>11. CASE removeListener
  BY <1>11 DEF removeListener, ChangesOther, ObjectStep
<1>12. ASSUME NEW e \in Establishers, removeEstablisher(e) PROVE ObjectStep
  <2>1. DOMAIN ests \ {e} \subseteq DOMAIN ests'
    BY <1>12 DEF removeEstablisher, Without, Restrict
  <2> QED BY <1>12, <2>1 DEF removeEstablisher, netVars, ChangesOther, ObjectStep
<1>13. ASSUME NEW c \in Clients, read(c) PROVE ObjectStep
  <2> DEFINE r == Recv(conn[c])
  <2>1. /\ c \in DOMAIN clients /\ UNCHANGED <<poll, clients, listening, ests>>
        /\ conn' = [conn EXCEPT ![c] = r.conn]
        /\ closing' = closing \/ AddToClosing(c)
    BY <1>13 DEF read, Mine
  <2>2. conn[c] \in ConnType
    BY <1>0, <2>1, OneClient
  <2>3. r.conn \in ConnType /\ r.conn.out = conn[c].out /\ r.conn.written = conn[c].written
    BY <2>2 DEF Recv, ConnType
  <2>4. conn[c].err => r.conn.err
    BY <2>2 DEF Recv, ConnType
  <2> HIDE DEF r
  <2>5. ClosingMoves
    BY <2>1 DEF ClosingMoves
  <2> QED BY <2>1, <2>3, <2>4, <2>5, ConnStep DEF ObjectStep
<1>14. ASSUME NEW c \in Clients, PeerSends(c) \/ PeerReceives(c) PROVE ObjectStep
  <2>1. c \in DOMAIN clients /\ UNCHANGED <<poll, clients, listening, ests, closing>>
    BY <1>0, <1>14 DEF PeerSends, PeerReceives
  <2>2. conn[c] \in ConnType
    BY <1>0, <2>1, OneClient
  <2>3. PICK k \in ConnType :
          /\ conn' = [conn EXCEPT ![c] = k] /\ k.out = conn[c].out /\ k.written = conn[c].written
          /\ conn[c].err => k.err
    <3>1. CASE PeerReceives(c)
      <4>1. conn' = [conn EXCEPT ![c] = [conn[c] EXCEPT !.room = MaxRoom]]
        BY <3>1 DEF PeerReceives
      <4>2. MaxRoom \in Nat
        BY ServerAssumption
      <4> DEFINE k == [conn[c] EXCEPT !.room = MaxRoom]
      <4>3. /\ k \in ConnType /\ k.out = conn[c].out /\ k.written = conn[c].written
            /\ k.err = conn[c].err
        BY <2>2, <4>2 DEF ConnType
      <4> QED BY <4>1, <4>3
    <3>2. CASE PeerSends(c)
      <4>1. ~conn[c].err
        BY <3>2 DEF PeerSends
      <4>2. \/ conn' = [conn EXCEPT ![c] = [conn[c] EXCEPT !.in = conn[c].in + 1]]
            \/ conn' = [conn EXCEPT ![c] = [conn[c] EXCEPT !.fin = TRUE]]
            \/ conn' = [conn EXCEPT ![c] = [conn[c] EXCEPT !.err = TRUE]]
        BY <3>2 DEF PeerSends
      <4>3. /\ [conn[c] EXCEPT !.in = conn[c].in + 1] \in ConnType
            /\ [conn[c] EXCEPT !.fin = TRUE] \in ConnType
            /\ [conn[c] EXCEPT !.err = TRUE] \in ConnType
        <5>1. conn[c].in + 1 \in Nat
          BY <2>2 DEF ConnType
        <5> QED BY <2>2, <5>1 DEF ConnType
      <4> QED BY <2>2, <4>1, <4>2, <4>3 DEF ConnType
    <3> QED BY <1>14, <3>1, <3>2
  <2> QED BY <2>1, <2>3, ConnStep DEF ClosingMoves, ObjectStep
<1>15. ASSUME NEW c \in Clients, NEW flag \in BOOLEAN, setSuspended(c, flag) PROVE ObjectStep
  <2> DEFINE cl == [clients[c] EXCEPT !.suspended = flag]
  <2>1. /\ c \in DOMAIN clients /\ UNCHANGED <<conn, listening, ests, closing>>
        /\ clients' = [clients EXCEPT ![c] = cl] /\ poll' = PollSet(poll, c, Wanted(clients'[c]))
    BY <1>15 DEF setSuspended, Mine, netVars
  <2>2. clients[c] \in ClientType /\ conn[c] \in ConnType /\ conn' = [conn EXCEPT ![c] = conn[c]]
    BY <1>0, <2>1, OneClient DEF ClientsTyped, Map
  <2>3. cl \in ClientType /\ cl.sendBuffer = clients[c].sendBuffer
    BY <2>2 DEF ClientType
  <2> HIDE DEF cl
  <2>4. clients'[c] = cl
    BY <2>1
  <2>5. Stream(conn[c], cl.sendBuffer)
    BY <2>1, <2>3 DEF ObjectInv, Streams
  <2>6. ChangesClient
    BY <2>1, <2>2, <2>3, <2>4, <2>5 DEF ChangesClient, ClosingMoves
  <2> QED BY <2>6 DEF ObjectStep
<1>16. CASE Return
  <2>1. UNCHANGED <<listening, ests>>
    BY <1>16 DEF Return
  <2>2. CASE loop.fn \notin {"onAccepted", "onConnected"}
    BY <1>16, <1>a, <2>1, <2>2 DEF Return, ClosingMoves, ObjectStep
  <2>3. CASE loop.fn \in {"onAccepted", "onConnected"}
    <3> DEFINE c == loop.obj
               cl == [clients[c] EXCEPT !.callback = TRUE]
    <3>1. Introduces
      BY <1>16, <2>3 DEF Return, Introduces
    <3>2. c \in DOMAIN clients
      BY <1>0, <3>1 DEF CallbackKnown
    <3>3. CASE deleteClient(c)
      BY <2>1, <3>2, <3>3 DEF DeletesClient, ObjectStep
    <3>4. CASE clients' = [clients EXCEPT ![c] = cl] /\ UNCHANGED <<poll, conn, closing>>
      <4>1. clients[c] \in ClientType /\ conn[c] \in ConnType /\ conn' = [conn EXCEPT ![c] = conn[c]]
        BY <1>0, <3>2, <3>4, OneClient DEF ClientsTyped, Map
      <4>2. /\ cl \in ClientType /\ cl.sendBuffer = clients[c].sendBuffer
            /\ cl.suspended = clients[c].suspended
        BY <4>1 DEF ClientType
      <4> HIDE DEF cl
      <4>3. Stream(conn[c], cl.sendBuffer) /\ Wanted(cl) = Wanted(clients[c])
        BY <3>2, <4>2 DEF ObjectInv, Streams, Wanted
      <4>4. ChangesClient
        BY <2>1, <3>2, <3>4, <4>1, <4>2, <4>3 DEF ChangesClient, ClosingMoves
      <4> QED BY <4>4 DEF ObjectStep
    <3> QED BY <1>16, <2>3, <3>3, <3>4 DEF Return
  <2> QED BY <2>2, <2>3
<1>17. CASE DispatchAccept
  <2>1. UNCHANGED <<listening, ests, closing>>
    BY <1>17 DEF DispatchAccept
  <2>2. CASE UNCHANGED <<clients, conn, poll>>
    BY <1>a, <2>1, <2>2 DEF ClosingMoves, ObjectStep
  <2>3. CASE ~UNCHANGED <<clients, conn, poll>>
    <3>1. PICK c \in Clients \ DOMAIN clients :
                 /\ clients' = With(clients, c, NewClient(FALSE))
                 /\ conn' = With(conn, c, NewConn(MaxRoom))
                 /\ poll' = PollSet(poll, c, {"read"})
      BY <1>17, <2>3 DEF DispatchAccept
    <3> QED BY <2>1, <3>1 DEF AddsClient, ObjectStep
  <2> QED BY <2>2, <2>3
<1>18. CASE DispatchConnect
  <2>1. At("dispatch") /\ "connect" \in loop.flags /\ UNCHANGED <<listening, closing>>
    BY <1>18 DEF DispatchConnect
  <2>2. loop.obj \in Establishers
    <3>1. loop.obj \in DOMAIN poll.sockets /\ "connect" \in poll.sockets[loop.obj]
      BY <2>1 DEF ObjectInv, Dispatched
    <3>2. loop.obj \in Objects
      BY <3>1 DEF ObjectInv, PollSound, Map
    <3>3. loop.obj \notin Clients /\ loop.obj # Listener
      BY <3>1 DEF ObjectInv, Registered, Wanted
    <3> QED BY <3>2, <3>3 DEF Objects
  <2>3. CASE poll' = PollRemove(poll, loop.obj) /\ UNCHANGED <<clients, conn, ests>>
    BY <2>1, <2>2, <2>3 DEF ChangesOther, ObjectStep
  <2>4. CASE /\ ests' = [ests EXCEPT ![loop.obj].sock = "none"]
             /\ \E c \in Clients \ DOMAIN clients :
                  /\ clients' = With(clients, c, NewClient(FALSE))
                  /\ conn' = With(conn, c, NewConn(MaxRoom))
                  /\ poll' = PollSet(PollRemove(poll, loop.obj), c, {"read"})
    <3>1. DOMAIN ests \subseteq DOMAIN ests'
      BY <2>4
    <3> QED BY <2>1, <2>2, <2>4, <3>1 DEF AddsClient, ObjectStep
  <2> QED BY <1>18, <2>3, <2>4 DEF DispatchConnect
<1>19. CASE VisitResolver
  <2> DEFINE r == loop.iter
             e == resolvers[r].establisher
  <2>1. UNCHANGED <<clients, conn, listening, closing>> /\ At("resolvers") /\ r # End
    BY <1>19 DEF VisitResolver, netVars
  <2>2. DOMAIN ests' = DOMAIN ests
    BY <1>19 DEF VisitResolver
  <2>3. CASE UNCHANGED poll
    BY <2>1, <2>2, <2>3 DEF Keeps, ClosingMoves, ObjectStep
  <2>4. CASE ~UNCHANGED poll
    <3>1. poll' = PollSet(poll, e, {"connect"}) /\ e # None
      BY <1>19, <2>4 DEF VisitResolver
    <3>2. r \in DOMAIN resolvers
      BY <2>1 DEF ResolverInv, IteratorValid, Iterating
    <3>3. e \in DOMAIN ests
      BY <3>1, <3>2 DEF ResolverInv, ResolversLinked
    <3>4. e \in Establishers
      BY <3>3 DEF ResolverInv, ResolversTyped, Map
    <3> QED BY <2>1, <2>2, <3>1, <3>3, <3>4 DEF ChangesOther, ObjectStep
  <2> QED BY <2>3, <2>4
<1>20. ASSUME NEW c \in Clients, NEW n \in 0 .. 2, write(c, n) PROVE ObjectStep
  BY <1>20, WriteStep DEF ObjectStep
<1>21. CASE DispatchWrite
  BY <1>21, FlushStep DEF ObjectStep
<1>22. UserCall => ObjectStep
  BY <1>1, <1>4, <1>7, <1>8, <1>9, <1>10, <1>11, <1>12, <1>13, <1>15, <1>20 DEF UserCall, ObjectStep
<1>23. Run => ObjectStep
  BY <1>1, <1>5, <1>6, <1>16, <1>17, <1>18, <1>19, <1>21 DEF Run
<1>24. Peers => ObjectStep
  BY <1>1, <1>3, <1>14 DEF Peers
<1> QED BY <1>1, <1>2, <1>22, <1>23, <1>24 DEF Next

\* _closingClients holds each client once, and live ones only, when one is added or the
\* first is taken.
LEMMA ClosingKept ==
  ASSUME ClientsTyped, ClosingSound, ClosingMoves, DOMAIN clients \subseteq DOMAIN clients'
  PROVE  closing' \in Seq(Clients) /\ ClosingSound'
<1>1. closing \in Seq(Clients) /\ Len(closing) \in Nat /\ DOMAIN closing = 1 .. Len(closing)
  BY DEF ClientsTyped
<1>2. CASE closing' = closing
  BY <1>1, <1>2 DEF ClosingSound
<1>3. CASE closing # <<>> /\ closing' = Tail(closing)
  <2>1. /\ closing' \in Seq(Clients) /\ Len(closing') = Len(closing) - 1
        /\ \A i \in 1 .. Len(closing') : closing'[i] = closing[i + 1]
    BY <1>1, <1>3, HeadTailProperties
  <2>2. \A i \in DOMAIN closing' : i + 1 \in DOMAIN closing /\ closing'[i] = closing[i + 1] /\ i \in Int
    BY <1>1, <2>1
  <2>3. ASSUME NEW i \in DOMAIN closing', NEW j \in DOMAIN closing', closing'[i] = closing'[j]
        PROVE  i = j
    <3>1. i + 1 = j + 1
      BY <2>2, <2>3 DEF ClosingSound
    <3> QED BY <2>2, <3>1
  <2> QED BY <2>1, <2>2, <2>3 DEF ClosingSound
<1>4. ASSUME NEW c \in DOMAIN clients, AddToClosing(c) PROVE closing' \in Seq(Clients) /\ ClosingSound'
  <2>1. CASE Contains(closing, c)
    BY <1>2, <1>4, <2>1 DEF AddToClosing
  <2>2. CASE ~Contains(closing, c)
    <3>1. closing' = Append(closing, c) /\ c \in Clients
      BY <1>4, <2>2, OneClient DEF AddToClosing
    <3>2. /\ closing' \in Seq(Clients) /\ Len(closing') = Len(closing) + 1
          /\ \A i \in 1 .. Len(closing) : closing'[i] = closing[i]
          /\ closing'[Len(closing) + 1] = c
      BY <1>1, <3>1, AppendProperties
    <3>3. \A i \in DOMAIN closing : closing[i] # c
      BY <1>1, <2>2 DEF Contains
    <3>4. DOMAIN closing' = DOMAIN closing \cup {Len(closing) + 1}
      BY <1>1, <3>2
    <3>5. ASSUME NEW i \in DOMAIN closing', NEW j \in DOMAIN closing', closing'[i] = closing'[j]
          PROVE  i = j
      BY <1>1, <3>2, <3>3, <3>4, <3>5 DEF ClosingSound
    <3>6. \A i \in DOMAIN closing' : closing'[i] \in DOMAIN clients'
      BY <1>1, <3>2, <3>4 DEF ClosingSound
    <3> QED BY <3>2, <3>5, <3>6 DEF ClosingSound
  <2> QED BY <2>1, <2>2
<1> QED BY <1>2, <1>3, <1>4 DEF ClosingMoves

\* deleteClient takes the client out of _closingClients.
LEMMA ClosingDeleted ==
  ASSUME ClientsTyped, ClosingSound, NEW c \in DOMAIN clients, deleteClient(c)
  PROVE  closing' \in Seq(Clients) /\ ClosingSound'
<1>1. closing \in Seq(Clients) /\ Len(closing) \in Nat /\ DOMAIN closing = 1 .. Len(closing)
  BY DEF ClientsTyped
<1>2. DOMAIN clients' = DOMAIN clients \ {c}
  BY DEF deleteClient, Without, Restrict
<1>3. CASE ~Contains(closing, c)
  <2>1. closing' = closing
    BY <1>3 DEF deleteClient
  <2>2. \A i \in DOMAIN closing : closing[i] # c
    BY <1>1, <1>3 DEF Contains
  <2> QED BY <1>1, <1>2, <2>1, <2>2 DEF ClosingSound
<1>4. CASE Contains(closing, c)
  <2> DEFINE n == CHOOSE i \in DOMAIN closing : closing[i] = c
  <2>1. n \in DOMAIN closing /\ closing[n] = c
    BY <1>1, <1>4 DEF Contains
  <2>2. closing' = RemoveAt(closing, n)
    BY <1>4 DEF deleteClient
  <2> HIDE DEF n
  <2>3. /\ closing' \in Seq(Clients) /\ Len(closing') = Len(closing) - 1
        /\ \A i \in 1 .. Len(closing) - 1 : closing'[i] = IF i < n THEN closing[i] ELSE closing[i + 1]
    BY <1>1, <2>1, <2>2, RemoveAtElements
  <2> DEFINE at(i) == IF i < n THEN i ELSE i + 1
  <2>4. ASSUME NEW i \in DOMAIN closing'
        PROVE  i \in Int /\ at(i) \in DOMAIN closing /\ closing'[i] = closing[at(i)] /\ at(i) # n
    BY <1>1, <2>1, <2>3
  <2>5. ASSUME NEW i \in DOMAIN closing', NEW j \in DOMAIN closing', closing'[i] = closing'[j]
        PROVE  i = j
    <3>1. at(i) = at(j)
      <4> HIDE DEF at
      <4> QED BY <2>4, <2>5 DEF ClosingSound
    <3> QED BY <1>1, <2>1, <2>4, <3>1
  <2>6. ASSUME NEW i \in DOMAIN closing' PROVE closing'[i] \in DOMAIN clients'
    <3> HIDE DEF at
    <3> QED BY <1>2, <2>1, <2>4 DEF ClosingSound
  <2> QED BY <2>3, <2>5, <2>6 DEF ClosingSound
<1> QED BY <1>3, <1>4

\* Clients, connections and the list of closing ones, through any step.
LEMMA ClientsKept ==
  ASSUME ObjectInv, ObjectStep PROVE ClientsTyped' /\ ClosingSound' /\ Streams'
<1>1. ClientsTyped /\ ClosingSound /\ Streams
  BY DEF ObjectInv
<1>2. CASE UNCHANGED <<clients, conn>> /\ ClosingMoves
  BY <1>1, <1>2, ClosingKept DEF ClientsTyped, Streams
<1>3. CASE Keeps \/ ChangesOther
  BY <1>2, <1>3 DEF Keeps, ChangesOther, ClosingMoves
<1>4. CASE AddsClient
  <2>1. PICK c \in Clients \ DOMAIN clients, cb \in BOOLEAN :
          clients' = With(clients, c, NewClient(cb)) /\ conn' = With(conn, c, NewConn(MaxRoom))
    BY <1>4 DEF AddsClient
  <2>2. NewClient(cb) \in ClientType /\ NewClient(cb).sendBuffer = <<>>
    BY DEF NewClient, ClientType
  <2>3. MaxRoom \in Nat
    BY ServerAssumption
  <2>4. /\ NewConn(MaxRoom) \in ConnType /\ NewConn(MaxRoom).out = <<>>
        /\ NewConn(MaxRoom).written = 0
    BY <2>3 DEF NewConn, ConnType
  <2>5. Stream(NewConn(MaxRoom), NewClient(cb).sendBuffer)
    BY <2>2, <2>4 DEF Stream
  <2>6. /\ Map(clients', Clients, ClientType) /\ Map(conn', Clients, ConnType)
        /\ DOMAIN conn' = DOMAIN clients' /\ DOMAIN clients' = DOMAIN clients \cup {c}
    BY <1>1, <2>1, <2>2, <2>4 DEF With, Map, ClientsTyped
  <2>7. Streams'
    BY <1>1, <2>1, <2>5, <2>6 DEF Streams, With, ClientsTyped
  <2>8. closing' \in Seq(Clients) /\ ClosingSound'
    BY <1>1, <1>4, <2>6, ClosingKept DEF AddsClient, ClosingMoves
  <2> QED BY <2>6, <2>7, <2>8 DEF ClientsTyped
<1>5. CASE DeletesClient
  <2>1. PICK c \in DOMAIN clients : deleteClient(c)
    BY <1>5 DEF DeletesClient
  <2>2. clients' = Without(clients, c) /\ conn' = Without(conn, c)
    BY <2>1 DEF deleteClient
  <2>3. /\ Map(clients', Clients, ClientType) /\ Map(conn', Clients, ConnType)
        /\ DOMAIN conn' = DOMAIN clients'
    BY <1>1, <2>2 DEF ClientsTyped, Map, Without, Restrict
  <2>4. Streams'
    BY <1>1, <2>2 DEF Streams, Without, Restrict, ClientsTyped
  <2>5. closing' \in Seq(Clients) /\ ClosingSound'
    BY <1>1, <2>1, ClosingDeleted
  <2> QED BY <2>3, <2>4, <2>5 DEF ClientsTyped
<1>6. CASE ChangesClient
  <2>1. PICK c \in DOMAIN clients, cl \in ClientType, k \in ConnType :
          /\ clients' = [clients EXCEPT ![c] = cl] /\ conn' = [conn EXCEPT ![c] = k]
          /\ Stream(k, cl.sendBuffer)
    BY <1>6 DEF ChangesClient
  <2>2. /\ Map(clients', Clients, ClientType) /\ Map(conn', Clients, ConnType)
        /\ DOMAIN conn' = DOMAIN clients' /\ DOMAIN clients' = DOMAIN clients
    BY <1>1, <2>1 DEF ClientsTyped, Map
  <2>3. Streams'
    BY <1>1, <2>1, <2>2 DEF Streams, ClientsTyped
  <2>4. closing' \in Seq(Clients) /\ ClosingSound'
    BY <1>1, <1>6, <2>2, ClosingKept DEF ChangesClient
  <2> QED BY <2>2, <2>3, <2>4 DEF ClientsTyped
<1>7. CASE clear
  <2>1. clients' = <<>> /\ conn' = <<>> /\ closing' = <<>>
    BY <1>7 DEF clear
  <2>2. DOMAIN clients' = {} /\ DOMAIN closing' = {}
    BY <2>1
  <2> QED BY <2>1, <2>2 DEF ClientsTyped, Map, Streams, ClosingSound
<1> QED BY <1>3, <1>4, <1>5, <1>6, <1>7 DEF ObjectStep

\* The sockets, through any step.
LEMMA SocketsKept ==
  ASSUME ObjectInv, ObjectStep PROVE PollSound(poll') /\ Registered' /\ Unregistered'
<1>0. /\ Clients \cap Establishers = {} /\ Listener \notin Clients \cup Establishers
      /\ Clients \subseteq Objects /\ Establishers \subseteq Objects /\ Listener \in Objects
  BY ServerAssumption DEF Objects
<1>1. PollSound(poll) /\ Registered /\ Unregistered /\ ClientsTyped
  BY DEF ObjectInv
<1>2. DOMAIN clients \subseteq Clients /\ DOMAIN conn = DOMAIN clients
  BY <1>1 DEF ClientsTyped, Map
<1>3. CASE Keeps
  <2>1. PollSound(poll') /\ poll'.sockets = poll.sockets
    BY <1>1, <1>3, SelectSound, TakeSound DEF Keeps
  <2>2. UNCHANGED <<clients, conn, listening>> /\ DOMAIN ests \subseteq DOMAIN ests'
    BY <1>3 DEF Keeps
  <2> QED BY <1>1, <2>1, <2>2 DEF Registered, Unregistered
<1>4. ASSUME NEW e \in Establishers, poll' = PollSet(poll, e, {"connect"}),
             DOMAIN ests \cup {e} \subseteq DOMAIN ests', UNCHANGED <<clients, conn, listening>>
      PROVE  PollSound(poll') /\ Registered' /\ Unregistered'
  <2>1. {"connect"} \in SUBSET Flags
    BY DEF Flags
  <2>2. /\ PollSound(poll') /\ DOMAIN poll'.sockets = DOMAIN poll.sockets \cup {e}
        /\ poll'.sockets[e] = {"connect"}
        /\ \A z \in DOMAIN poll.sockets : z # e => poll'.sockets[z] = poll.sockets[z]
    BY <1>0, <1>1, <1>4, <2>1, PollSetSound
  <2>3. Registered'
    BY <1>0, <1>1, <1>4, <2>2 DEF Registered
  <2>4. Unregistered'
    BY <1>1, <1>4, <2>2 DEF Unregistered
  <2> QED BY <2>2, <2>3, <2>4
<1>5. ASSUME NEW s \in Establishers \cup {Listener}, poll' = PollRemove(poll, s),
             DOMAIN ests \ {s} \subseteq DOMAIN ests', UNCHANGED <<clients, conn>>,
             s # Listener => UNCHANGED listening
      PROVE  PollSound(poll') /\ Registered' /\ Unregistered'
  <2>2. /\ PollSound(poll') /\ DOMAIN poll'.sockets = DOMAIN poll.sockets \ {s}
        /\ \A z \in DOMAIN poll.sockets : z # s => poll'.sockets[z] = poll.sockets[z]
    BY <1>1, <1>5, PollRemoveSound
  <2>3. Registered'
    BY <1>1, <1>5, <2>2 DEF Registered
  <2>4. Unregistered'
    BY <1>0, <1>1, <1>2, <1>5, <2>2 DEF Unregistered
  <2> QED BY <2>2, <2>3, <2>4
<1>6. ASSUME poll' = PollSet(poll, Listener, {"accept"}), listening', UNCHANGED <<clients, conn, ests>>
      PROVE  PollSound(poll') /\ Registered' /\ Unregistered'
  <2>1. {"accept"} \in SUBSET Flags
    BY DEF Flags
  <2>2. /\ PollSound(poll') /\ DOMAIN poll'.sockets = DOMAIN poll.sockets \cup {Listener}
        /\ poll'.sockets[Listener] = {"accept"}
        /\ \A z \in DOMAIN poll.sockets : z # Listener => poll'.sockets[z] = poll.sockets[z]
    BY <1>0, <1>1, <1>6, <2>1, PollSetSound
  <2>3. Registered'
    BY <1>0, <1>1, <1>6, <2>2 DEF Registered
  <2>4. Unregistered'
    BY <1>1, <1>6, <2>2 DEF Unregistered
  <2> QED BY <2>2, <2>3, <2>4
<1>7. CASE ChangesOther
  <2>1. UNCHANGED <<clients, conn>>
    BY <1>7 DEF ChangesOther
  <2>2. CASE \E e \in Establishers : /\ poll' = PollSet(poll, e, {"connect"})
                                     /\ DOMAIN ests \cup {e} \subseteq DOMAIN ests'
                                     /\ UNCHANGED listening
    BY <1>4, <2>1, <2>2
  <2>3. CASE \E e \in Establishers : /\ poll' = PollRemove(poll, e)
                                     /\ DOMAIN ests \ {e} \subseteq DOMAIN ests'
                                     /\ UNCHANGED listening
    BY <1>5, <2>1, <2>3
  <2>4. CASE poll' = PollSet(poll, Listener, {"accept"}) /\ listening' /\ UNCHANGED ests
    BY <1>6, <2>1, <2>4
  <2>5. CASE poll' = PollRemove(poll, Listener) /\ UNCHANGED ests
    BY <1>5, <2>1, <2>5
  <2> QED BY <1>7, <2>2, <2>3, <2>4, <2>5 DEF ChangesOther
<1>8. CASE AddsClient
  <2>1. PICK c \in Clients \ DOMAIN clients, cb \in BOOLEAN,
             p \in {poll} \cup {PollRemove(poll, e) : e \in Establishers} :
          /\ clients' = With(clients, c, NewClient(cb))
          /\ conn' = With(conn, c, NewConn(MaxRoom))
          /\ poll' = PollSet(p, c, {"read"})
    BY <1>8 DEF AddsClient
  <2>2. /\ PollSound(p) /\ DOMAIN p.sockets \subseteq DOMAIN poll.sockets
        /\ DOMAIN poll.sockets \subseteq DOMAIN p.sockets \cup Establishers
        /\ \A z \in DOMAIN p.sockets : p.sockets[z] = poll.sockets[z]
    BY <1>1, <2>1, PollRemoveSound
  <2>3. {"read"} \in SUBSET Flags
    BY DEF Flags
  <2>4. /\ PollSound(poll') /\ DOMAIN poll'.sockets = DOMAIN p.sockets \cup {c}
        /\ poll'.sockets[c] = {"read"}
        /\ \A z \in DOMAIN p.sockets : z # c => poll'.sockets[z] = p.sockets[z]
    BY <1>0, <2>1, <2>2, <2>3, PollSetSound
  <2>5. /\ DOMAIN clients' = DOMAIN clients \cup {c}
        /\ Wanted(clients'[c]) = {"read"}
        /\ \A z \in DOMAIN clients : clients'[z] = clients[z] /\ conn'[z] = conn[z]
    BY <1>2, <2>1 DEF With, NewClient, Wanted
  <2>6. UNCHANGED listening /\ DOMAIN ests \subseteq DOMAIN ests'
    BY <1>8 DEF AddsClient
  <2>7. Registered'
    <3>1. ASSUME NEW d \in DOMAIN poll'.sockets \cap Clients
          PROVE  d \in DOMAIN clients' /\ poll'.sockets[d] = Wanted(clients'[d])
      <4>1. CASE d = c
        BY <2>4, <2>5, <4>1
      <4>2. CASE d # c
        <5>1. d \in DOMAIN poll.sockets /\ poll'.sockets[d] = poll.sockets[d]
          BY <2>2, <2>4, <4>2
        <5>2. d \in DOMAIN clients /\ poll.sockets[d] = Wanted(clients[d])
          BY <1>1, <5>1 DEF Registered
        <5> QED BY <2>5, <5>1, <5>2
      <4> QED BY <4>1, <4>2
    <3>2. ASSUME NEW d \in DOMAIN poll'.sockets, d \notin Clients
          PROVE  d \in DOMAIN poll.sockets /\ poll'.sockets[d] = poll.sockets[d]
      BY <2>1, <2>2, <2>4, <3>2
    <3> QED BY <1>0, <1>1, <2>6, <3>1, <3>2 DEF Registered
  <2>8. Unregistered'
    <3>1. ASSUME NEW d \in DOMAIN clients' \ DOMAIN poll'.sockets
          PROVE  conn'[d].err /\ clients'[d].sendBuffer = <<>>
      <4>1. d \in DOMAIN clients /\ d \notin DOMAIN p.sockets
        BY <2>4, <2>5
      <4>2. d \notin DOMAIN poll.sockets
        BY <1>0, <1>2, <2>2, <4>1
      <4> QED BY <1>1, <2>5, <4>1, <4>2 DEF Unregistered
    <3> QED BY <3>1 DEF Unregistered
  <2> QED BY <2>4, <2>7, <2>8
<1>9. CASE DeletesClient
  <2>1. PICK c \in DOMAIN clients : deleteClient(c)
    BY <1>9 DEF DeletesClient
  <2>2. /\ DOMAIN clients' = DOMAIN clients \ {c} /\ UNCHANGED <<listening, ests>>
        /\ \A z \in DOMAIN clients' : clients'[z] = clients[z] /\ conn'[z] = conn[z]
    BY <1>2, <1>9, <2>1 DEF DeletesClient, deleteClient, Without, Restrict
  <2>3. /\ PollSound(poll') /\ DOMAIN poll'.sockets = DOMAIN poll.sockets \ {c}
        /\ \A z \in DOMAIN poll.sockets : z # c => poll'.sockets[z] = poll.sockets[z]
    BY <1>1, <2>1, PollRemoveSound DEF deleteClient
  <2>4. Registered'
    BY <1>1, <2>2, <2>3 DEF Registered
  <2>5. Unregistered'
    BY <1>1, <2>2, <2>3 DEF Unregistered
  <2> QED BY <2>3, <2>4, <2>5
<1>10. CASE ChangesClient
  <2>1. PICK c \in DOMAIN clients, cl \in ClientType, k \in ConnType :
          /\ clients' = [clients EXCEPT ![c] = cl] /\ conn' = [conn EXCEPT ![c] = k]
          /\ conn[c].err => k.err
          /\ \/ poll' = PollSet(poll, c, Wanted(cl))
             \/ poll' = PollRemove(poll, c) /\ k.err /\ cl.sendBuffer = <<>>
             \/ poll' = poll /\ Wanted(cl) = Wanted(clients[c])
    BY <1>10 DEF ChangesClient
  <2>2. /\ DOMAIN clients' = DOMAIN clients /\ clients'[c] = cl /\ conn'[c] = k
        /\ \A z \in DOMAIN clients : z # c => clients'[z] = clients[z] /\ conn'[z] = conn[z]
    BY <1>2, <2>1
  <2>3. c \in Clients /\ c \notin Establishers /\ c # Listener
    BY <1>0, <1>2
  <2>4. UNCHANGED <<listening, ests>>
    BY <1>10 DEF ChangesClient
  <2>5. CASE poll' = PollSet(poll, c, Wanted(cl))
    <3>1. Wanted(cl) \in SUBSET Flags
      BY DEF Wanted, Flags
    <3>2. /\ PollSound(poll') /\ DOMAIN poll'.sockets = DOMAIN poll.sockets \cup {c}
          /\ poll'.sockets[c] = Wanted(cl)
          /\ \A z \in DOMAIN poll.sockets : z # c => poll'.sockets[z] = poll.sockets[z]
      BY <1>0, <1>1, <2>3, <2>5, <3>1, PollSetSound
    <3>3. Registered'
      BY <1>1, <2>2, <2>3, <2>4, <3>2 DEF Registered
    <3>4. Unregistered'
      BY <1>1, <2>2, <3>2 DEF Unregistered
    <3> QED BY <3>2, <3>3, <3>4
  <2>6. CASE poll' = PollRemove(poll, c) /\ k.err /\ cl.sendBuffer = <<>>
    <3>2. /\ PollSound(poll') /\ DOMAIN poll'.sockets = DOMAIN poll.sockets \ {c}
          /\ \A z \in DOMAIN poll.sockets : z # c => poll'.sockets[z] = poll.sockets[z]
      BY <1>1, <2>6, PollRemoveSound
    <3>3. Registered'
      BY <1>1, <2>2, <2>3, <2>4, <3>2 DEF Registered
    <3>4. Unregistered'
      BY <1>1, <2>2, <2>6, <3>2 DEF Unregistered
    <3> QED BY <3>2, <3>3, <3>4
  <2>7. CASE poll' = poll /\ Wanted(cl) = Wanted(clients[c])
    <3>1. clients[c].sendBuffer = <<>> => cl.sendBuffer = <<>>
      BY <2>7 DEF Wanted
    <3>3. Registered'
      BY <1>1, <2>2, <2>3, <2>4, <2>7 DEF Registered
    <3>4. Unregistered'
      BY <1>1, <2>1, <2>2, <2>7, <3>1 DEF Unregistered
    <3> QED BY <1>1, <2>7, <3>3, <3>4
  <2> QED BY <2>1, <2>5, <2>6, <2>7
<1>11. CASE clear
  <2>1. poll' = [sockets |-> <<>>, selected |-> <<>>] /\ clients' = <<>>
    BY <1>11 DEF clear, NewPoll
  <2>2. /\ DOMAIN poll'.sockets = {} /\ DOMAIN poll'.selected = {} /\ DOMAIN clients' = {}
        /\ poll'.sockets = <<>> /\ poll'.selected = <<>>
    BY <2>1
  <2>3. PollSound(poll')
    BY <2>1, <2>2 DEF PollSound, Map
  <2> QED BY <2>2, <2>3 DEF Registered, Unregistered
<1> QED BY <1>3, <1>7, <1>8, <1>9, <1>10, <1>11 DEF ObjectStep

\* run() dispatches only what is selected and still registered.
LEMMA DispatchKept == ASSUME ObjectInv, [Next]_vars PROVE Dispatched'
<1>0. LoopTyped /\ Dispatched /\ PollSound(poll)
  BY DEF ObjectInv
<1>1. CASE UNCHANGED <<loop, poll>>
  BY <1>0, <1>1 DEF Dispatched, At
<1>2. CASE loop'.at # "dispatch"
  BY <1>2 DEF Dispatched, At
<1>3. CASE User /\ UNCHANGED loop
  BY <1>2, <1>3 DEF User, At
<1>4. CASE TakeEvent
  <2>1. PICK s \in DOMAIN poll.selected :
          /\ poll' = Take(poll, s)
          /\ IF poll.selected[s] = {} THEN NoEvent
             ELSE loop' = [at |-> "dispatch", obj |-> s, flags |-> poll.selected[s]]
    BY <1>4 DEF TakeEvent
  <2>2. poll'.sockets = poll.sockets
    BY <1>0, <2>1, TakeSound
  <2>3. s \in DOMAIN poll.sockets /\ poll.selected[s] \subseteq poll.sockets[s]
    BY <1>0 DEF PollSound, Map
  <2>4. CASE poll.selected[s] = {}
    BY <1>2, <2>1, <2>4 DEF NoEvent
  <2>5. CASE poll.selected[s] # {}
    BY <2>1, <2>2, <2>3, <2>5 DEF Dispatched, At
  <2> QED BY <2>4, <2>5
<1>5. CASE interrupt \/ Notify \/ UNCHANGED vars \/ Peers \/ \E r \in DOMAIN worker : resolve(r)
  BY <1>1, <1>5 DEF interrupt, Notify, vars, Peers, Arrive, PeerSends, PeerReceives, Answer, resolve
<1>6. CASE listen \/ connect \/ connectHost \/ pair \/ removeListener \/ clear
  BY <1>3, <1>6 DEF listen, connect, connectHost, pair, removeListener, clear, User
<1>7. CASE \/ \E c \in Clients : \/ read(c)
                                \/ \E n \in 0 .. 2 : write(c, n)
                                \/ \E f \in BOOLEAN : setSuspended(c, f)
           \/ \E e \in Establishers : removeEstablisher(e)
  BY <1>3, <1>7 DEF read, write, setSuspended, removeEstablisher
<1>8. ASSUME NEW c \in Clients, removeClient(c) PROVE Dispatched'
  <2>1. At("idle") \/ At("callback")
    BY <1>8 DEF removeClient, User
  <2>2. loop' = loop \/ loop' = [loop EXCEPT !.gone = TRUE]
    BY <1>8 DEF removeClient
  <2>3. loop'.at # "dispatch"
    BY <1>0, <2>1, <2>2 DEF LoopTyped, At, Idle
  <2> QED BY <1>2, <2>3
<1>9. CASE startRun \/ Timeout \/ Wait \/ CheckInterrupted
  BY <1>2, <1>9 DEF startRun, Timeout, Wait, CheckInterrupted, NoEvent, Idle
<1>10. CASE Return
  BY <1>0, <1>2, <1>10 DEF Return, LoopTyped
<1>11. ASSUME NEW fn, NEW obj, NEW then, NEW iter, Callback(fn, obj, then, iter) PROVE Dispatched'
  BY <1>2, <1>11 DEF Callback
<1>12. loop' = [at |-> "poll"] \/ loop' = [at |-> "closing"] => Dispatched'
  BY <1>2
<1>13. CASE CloseClients \/ DispatchRead \/ DispatchAccept \/ DispatchConnect
  BY <1>11, <1>12, <1>13 DEF CloseClients, DispatchRead, DispatchAccept, DispatchConnect
<1>14. CASE DispatchWrite
  BY <1>11, <1>12, <1>14 DEF DispatchWrite
<1>15. CASE VisitResolver
  <2>1. ASSUME NEW next, loop' = [at |-> "resolvers", iter |-> next] PROVE Dispatched'
    BY <1>2, <2>1
  <2> QED BY <1>11, <1>15, <2>1 DEF VisitResolver
<1>16. UserCall => Dispatched'
  BY <1>6, <1>7, <1>8, <1>9 DEF UserCall
<1>17. Run => Dispatched'
  BY <1>4, <1>9, <1>10, <1>13, <1>14, <1>15 DEF Run
<1> QED BY <1>5, <1>9, <1>16, <1>17 DEF Next

\* The clients whose callback is not known.
Unknown == {c \in DOMAIN clients : ~clients[c].callback}

\* Only the client that is being introduced has no callback.
LEMMA CallbackKept == ASSUME ObjectInv, [Next]_vars PROVE CallbackKnown'
<1>0. LoopTyped /\ ClientsTyped /\ Unknown = IF Introduces THEN {loop.obj} ELSE {}
  BY DEF ObjectInv, CallbackKnown, Unknown
<1> DEFINE Goal == Unknown' = IF Introduces' THEN {loop'.obj} ELSE {}
<1> SUFFICES Goal
  BY DEF CallbackKnown, Unknown
<1>1. CASE UNCHANGED loop /\ Unknown' = Unknown
  BY <1>0, <1>1 DEF Introduces, At
<1>2. CASE ~Introduces /\ ~Introduces' /\ Unknown' = Unknown
  BY <1>0, <1>2
<1>3. UNCHANGED clients => Unknown' = Unknown
  BY DEF Unknown
<1>4. \A pc : pc # "callback" /\ At(pc) => ~Introduces
  BY DEF Introduces, At
<1>5. CASE interrupt \/ Notify \/ UNCHANGED vars \/ Peers \/ \E r \in DOMAIN worker : resolve(r)
  BY <1>1, <1>3, <1>5
  DEF interrupt, Notify, vars, Peers, Arrive, PeerSends, PeerReceives, Answer, resolve
<1>6. CASE listen \/ connect \/ connectHost \/ removeListener \/ \E e \in Establishers : removeEstablisher(e)
  BY <1>1, <1>3, <1>6 DEF listen, connect, connectHost, removeListener, removeEstablisher
<1>7. CASE clear
  <2>1. ~Introduces /\ ~Introduces'
    BY <1>7 DEF clear, Introduces, At
  <2>2. Unknown' = {}
    BY <1>7 DEF clear, Unknown
  <2> QED BY <2>1, <2>2
<1>8. ASSUME NEW c \in DOMAIN clients, NEW b, clients' = [clients EXCEPT ![c].sendBuffer = b]
      PROVE  Unknown' = Unknown
  BY <1>0, <1>8 DEF Unknown, ClientsTyped, Map, ClientType
<1>9. ASSUME NEW c \in Clients, NEW n \in 0 .. 2, write(c, n) PROVE Goal
  <2>1. UNCHANGED loop /\ c \in DOMAIN clients
    BY <1>9 DEF write, Mine
  <2>2. UNCHANGED clients \/ \E b : clients' = [clients EXCEPT ![c].sendBuffer = b]
    BY <1>9 DEF write
  <2> QED BY <1>1, <1>3, <1>8, <2>1, <2>2
<1>10. ASSUME NEW c \in Clients, NEW f \in BOOLEAN, setSuspended(c, f) PROVE Goal
  <2>1. UNCHANGED loop /\ clients' = [clients EXCEPT ![c].suspended = f]
    BY <1>10 DEF setSuspended
  <2>2. Unknown' = Unknown
    BY <1>0, <2>1 DEF Unknown, ClientsTyped, Map, ClientType
  <2> QED BY <1>1, <2>1, <2>2
<1>11. ASSUME NEW c \in Clients, read(c) PROVE Goal
  BY <1>1, <1>3, <1>11 DEF read
<1>12. CASE pair
  <2>1. UNCHANGED loop
    BY <1>12 DEF pair
  <2>2. CASE UNCHANGED clients
    BY <1>1, <1>3, <2>1, <2>2
  <2>3. CASE ~UNCHANGED clients
    <3>1. PICK c \in Clients \ DOMAIN clients : clients' = With(clients, c, NewClient(TRUE))
      BY <1>12, <2>3 DEF pair
    <3>2. Unknown' = Unknown
      BY <3>1 DEF Unknown, With, NewClient
    <3> QED BY <1>1, <2>1, <3>2
  <2> QED BY <2>2, <2>3
<1>13. ASSUME NEW c \in DOMAIN clients, deleteClient(c) PROVE Unknown' = Unknown \ {c}
  BY <1>13 DEF deleteClient, Without, Restrict, Unknown
<1>14. ASSUME NEW c \in Clients, removeClient(c) PROVE Goal
  <2>1. c \in DOMAIN clients
    BY <1>14 DEF removeClient, Mine
  <2>2. CASE clients[c].callback
    <3>1. UNCHANGED loop /\ deleteClient(c)
      BY <1>14, <2>2 DEF removeClient
    <3>2. Unknown' = Unknown
      BY <1>13, <2>1, <2>2, <3>1 DEF Unknown
    <3> QED BY <1>1, <3>1, <3>2
  <2>3. CASE ~clients[c].callback
    <3>1. UNCHANGED clients /\ loop' = [loop EXCEPT !.gone = TRUE]
      BY <1>14, <2>3 DEF removeClient
    <3>2. Introduces
      BY <1>0, <2>1, <2>3 DEF Unknown
    <3>3. Introduces' /\ loop'.obj = loop.obj
      BY <1>0, <3>1, <3>2 DEF Introduces, LoopTyped, At
    <3> QED BY <1>0, <1>3, <3>1, <3>2, <3>3
  <2> QED BY <2>2, <2>3
<1>15. CASE startRun \/ Timeout \/ Wait \/ CheckInterrupted \/ TakeEvent
  <2>1. UNCHANGED clients
    BY <1>15 DEF startRun, Timeout, Wait, CheckInterrupted, TakeEvent
  <2>2. ~Introduces
    BY <1>4, <1>15 DEF startRun, Timeout, Wait, CheckInterrupted, TakeEvent
  <2>3. ~Introduces'
    BY <1>15 DEF startRun, Timeout, Wait, CheckInterrupted, TakeEvent, NoEvent, Idle, Introduces, At
  <2> QED BY <1>2, <1>3, <2>1, <2>2, <2>3
<1>16. ASSUME NEW fn, NEW obj, NEW then, NEW iter, Callback(fn, obj, then, iter)
       PROVE  loop'.obj = obj /\ (Introduces' <=> fn \in {"onAccepted", "onConnected"})
  BY <1>16 DEF Callback, Introduces, At
<1>17. ASSUME NEW pc, NEW iter, loop' = [at |-> pc] \/ loop' = [at |-> pc, iter |-> iter],
              pc # "callback"
       PROVE  ~Introduces'
  BY <1>17 DEF Introduces, At
<1>18. CASE CloseClients \/ DispatchRead
  <2>1. UNCHANGED clients
    BY <1>18 DEF CloseClients, DispatchRead
  <2>2. ~Introduces
    BY <1>4, <1>18 DEF CloseClients, DispatchRead
  <2>3. ~Introduces'
    BY <1>16, <1>17, <1>18 DEF CloseClients, DispatchRead
  <2> QED BY <1>2, <1>3, <2>1, <2>2, <2>3
<1>19. CASE DispatchWrite
  <2>1. ~Introduces
    BY <1>4, <1>19 DEF DispatchWrite
  <2>2. ~Introduces'
    BY <1>16, <1>17, <1>19 DEF DispatchWrite
  <2>3. loop.obj \in DOMAIN clients
    BY <1>19, DispatchedClient DEF DispatchWrite
  <2>4. \E b : clients' = [clients EXCEPT ![loop.obj].sendBuffer = b]
    BY <1>19 DEF DispatchWrite
  <2> QED BY <1>2, <1>8, <2>1, <2>2, <2>3, <2>4
<1>20. CASE VisitResolver
  <2>1. ~Introduces /\ UNCHANGED clients
    BY <1>4, <1>20 DEF VisitResolver
  <2>2. ~Introduces'
    BY <1>16, <1>17, <1>20 DEF VisitResolver
  <2> QED BY <1>2, <1>3, <2>1, <2>2
<1>21. ASSUME NEW c \in Clients \ DOMAIN clients, NEW fn \in {"onAccepted", "onConnected"}, ~Introduces,
              clients' = With(clients, c, NewClient(FALSE)), Callback(fn, c, "closing", End)
       PROVE  Goal
  <2>1. Unknown' = {c}
    BY <1>0, <1>21 DEF Unknown, With, NewClient
  <2>2. Introduces' /\ loop'.obj = c
    BY <1>16, <1>21
  <2> QED BY <2>1, <2>2
<1>22. CASE DispatchAccept
  <2>1. ~Introduces
    BY <1>4, <1>22 DEF DispatchAccept
  <2>2. CASE UNCHANGED clients /\ loop' = [at |-> "closing"]
    BY <1>2, <1>3, <1>17, <2>1, <2>2
  <2> QED BY <1>21, <1>22, <2>1, <2>2 DEF DispatchAccept
<1>23. CASE DispatchConnect
  <2>1. ~Introduces
    BY <1>4, <1>23 DEF DispatchConnect
  <2>2. CASE UNCHANGED clients /\ Callback("onAbolished", loop.obj, "closing", End)
    BY <1>2, <1>3, <1>16, <2>1, <2>2
  <2> QED BY <1>21, <1>23, <2>1, <2>2 DEF DispatchConnect
<1>24. CASE Return
  <2>1. ~Introduces'
    BY <1>0, <1>24 DEF Return, Introduces, At, LoopTyped
  <2>2. CASE ~Introduces
    <3>1. UNCHANGED clients
      BY <1>24, <2>2 DEF Return, Introduces
    <3> QED BY <1>2, <1>3, <2>1, <2>2, <3>1
  <2>3. CASE Introduces
    <3>1. Unknown = {loop.obj} /\ loop.obj \in DOMAIN clients
      BY <1>0, <2>3 DEF Unknown
    <3>2. Unknown' = {}
      <4>1. CASE deleteClient(loop.obj)
        BY <1>13, <3>1, <4>1
      <4>2. CASE clients' = [clients EXCEPT ![loop.obj].callback = TRUE]
        BY <1>0, <3>1, <4>2 DEF Unknown, ClientsTyped, Map, ClientType
      <4> QED BY <1>24, <2>3, <4>1, <4>2 DEF Return, Introduces
    <3> QED BY <2>1, <3>2
  <2> QED BY <2>2, <2>3
<1> HIDE DEF Goal
<1>25. UserCall => Goal
  BY <1>6, <1>7, <1>9, <1>10, <1>11, <1>12, <1>14, <1>15 DEF UserCall
<1>26. Run => Goal
  BY <1>15, <1>18, <1>19, <1>20, <1>22, <1>23, <1>24 DEF Run
<1> QED BY <1>5, <1>15, <1>25, <1>26 DEF Next

-----------------------------------------------------------------------------
\* What run() keeps true of its objects, their sockets and their streams.
ServerInv == ResolverInv /\ ObjectInv

\* The invariant holds at the start and through every step.
THEOREM Invariance == Spec => []ServerInv
<1>1. Init => ServerInv
  <2> SUFFICES ASSUME Init PROVE ServerInv
    OBVIOUS
  <2>1. /\ poll = [sockets |-> <<>>, selected |-> <<>>] /\ clients = <<>> /\ conn = <<>>
        /\ closing = <<>> /\ loop = Idle
    BY DEF Init, NewPoll
  <2>2. /\ DOMAIN poll.sockets = {} /\ DOMAIN poll.selected = {} /\ DOMAIN clients = {}
        /\ DOMAIN closing = {} /\ poll.sockets = <<>> /\ poll.selected = <<>>
    BY <2>1
  <2>3. PollSound(poll)
    BY <2>1, <2>2 DEF PollSound, Map
  <2>4. ClientsTyped
    BY <2>1 DEF ClientsTyped, Map
  <2>5. LoopTyped /\ Dispatched
    BY <2>1 DEF LoopTyped, Dispatched, At, Idle
  <2>6. CallbackKnown
    BY <2>1, <2>2 DEF CallbackKnown, Introduces, At, Idle
  <2>7. Registered /\ Unregistered /\ ClosingSound /\ Streams
    BY <2>2 DEF Registered, Unregistered, ClosingSound, Streams
  <2> QED BY <2>3, <2>4, <2>5, <2>6, <2>7, ResolverInit DEF ServerInv, ObjectInv
<1>2. ServerInv /\ [Next]_vars => ServerInv'
  <2> SUFFICES ASSUME ServerInv, [Next]_vars PROVE ServerInv'
    OBVIOUS
  <2>1. ResolverInv /\ ObjectInv
    BY DEF ServerInv
  <2>2. ResolverInv'
    BY <2>1, ResolverStep
  <2>3. ObjectStep
    BY <2>1, ObjectClasses
  <2>4. LoopTyped'
    BY <2>2 DEF ResolverInv
  <2>5. ClientsTyped' /\ ClosingSound' /\ Streams' /\ PollSound(poll') /\ Registered' /\ Unregistered'
    BY <2>1, <2>3, ClientsKept, SocketsKept
  <2>6. Dispatched' /\ CallbackKnown'
    BY <2>1, DispatchKept, CallbackKept
  <2> QED BY <2>2, <2>4, <2>5, <2>6 DEF ServerInv, ObjectInv
<1> QED BY <1>1, <1>2, PTL DEF Spec

\* run() never follows a dangling or a null pointer (Server.cpp 268-271, 321-402), whatever
\* the callbacks call and however many objects there are.
THEOREM NoDanglingPointer == Spec => []PointersLive
<1>1. ServerInv => PointersLive
  <2> SUFFICES ASSUME ServerInv PROVE PointersLive
    OBVIOUS
  <2>0. ObjectInv /\ PollSound(poll) /\ Registered /\ ClosingSound /\ CallbackKnown
    BY DEF ServerInv, ObjectInv
  <2>1. DOMAIN poll.sockets \subseteq Objects /\ DOMAIN poll.selected \subseteq DOMAIN poll.sockets
    BY <2>0 DEF PollSound, Map
  <2>2. \A s \in DOMAIN poll.sockets : s \notin {Listener} => s \in DOMAIN clients \cup DOMAIN ests
    BY <2>0, <2>1 DEF Registered, Objects
  <2>3. Listener \in DOMAIN poll.sockets => listening
    BY <2>0 DEF Registered
  <2>4. ToSet(closing) \subseteq DOMAIN clients
    BY <2>0 DEF ClosingSound, ToSet
  <2>5. ~At("callback") => \A c \in DOMAIN clients : clients[c].callback
    BY <2>0 DEF CallbackKnown, Introduces
  <2>6. At("closing") => \A c \in ToSet(closing) : clients[c].callback
    BY <2>4, <2>5 DEF At
  <2>7. ASSUME At("dispatch")
        PROVE  /\ loop.flags # {} /\ loop.flags \subseteq Pollable(loop.obj)
               /\ loop.obj \in Clients => clients[loop.obj].callback
    <3>1. /\ loop.obj \in DOMAIN poll.sockets
          /\ loop.flags # {} /\ loop.flags \subseteq poll.sockets[loop.obj]
      BY <2>0, <2>7 DEF ObjectInv, Dispatched
    <3>2. /\ Clients \cap Establishers = {} /\ Listener \notin Clients \cup Establishers
      BY ServerAssumption
    <3>3. CASE loop.obj \in Clients
      <4>1. loop.obj \in DOMAIN clients /\ poll.sockets[loop.obj] = Wanted(clients[loop.obj])
        BY <2>0, <3>1, <3>3 DEF Registered
      <4>2. Pollable(loop.obj) = {"read", "write"}
        BY <3>3, <4>1, <3>2 DEF Pollable
      <4>3. poll.sockets[loop.obj] \subseteq {"read", "write"}
        BY <4>1 DEF Wanted
      <4> QED BY <2>5, <2>7, <3>1, <4>1, <4>2, <4>3 DEF At
    <3>4. CASE loop.obj \in Establishers
      <4>1. Pollable(loop.obj) = {"connect"} /\ poll.sockets[loop.obj] = {"connect"}
        BY <2>0, <3>1, <3>2, <3>4 DEF Registered, Pollable
      <4> QED BY <3>1, <3>2, <3>4, <4>1
    <3>5. CASE loop.obj = Listener
      <4>1. Pollable(loop.obj) = {"accept"} /\ poll.sockets[loop.obj] = {"accept"}
        BY <2>0, <3>1, <3>2, <3>5 DEF Registered, Pollable
      <4> QED BY <3>1, <3>2, <3>5, <4>1
    <3> QED BY <2>1, <3>1, <3>3, <3>4, <3>5 DEF Objects
  <2> QED BY <2>1, <2>2, <2>3, <2>4, <2>6, <2>7 DEF PointersLive
<1> QED BY <1>1, Invariance, PTL

\* A client's socket waits for exactly what the client needs (Server.cpp 323-352, 431-506).
THEOREM SocketsInStep == Spec => []PollInStep
<1>1. ServerInv => PollInStep
  <2> SUFFICES ASSUME ServerInv, NEW c \in DOMAIN clients
               PROVE  IF c \in DOMAIN poll.sockets THEN poll.sockets[c] = Wanted(clients[c])
                      ELSE conn[c].err /\ clients[c].sendBuffer = <<>>
    BY DEF PollInStep
  <2>1. c \in Clients
    BY OneClient DEF ServerInv, ObjectInv
  <2> QED BY <2>1 DEF ServerInv, ObjectInv, Registered, Unregistered
<1> QED BY <1>1, Invariance, PTL

\* A selection that became stale while callbacks ran is not delivered (Socket.cpp 1213-1220).
THEOREM NoStaleEvent == Spec => []DispatchWanted
<1>1. ServerInv => DispatchWanted
  <2> SUFFICES ASSUME ServerInv, At("dispatch"), loop.obj \in DOMAIN clients
               PROVE  loop.flags \subseteq Wanted(clients[loop.obj])
    BY DEF DispatchWanted
  <2>1. loop.obj \in Clients
    BY OneClient DEF ServerInv, ObjectInv
  <2> QED BY <2>1 DEF ServerInv, ObjectInv, Registered, Dispatched
<1> QED BY <1>1, Invariance, PTL

\* No byte is lost, repeated or overtaken between write() and the socket (Server.cpp 323-352,
\* 433-466), however the kernel cuts the data into parts.
THEOREM StreamInOrder == Spec => []StreamIntact
<1>1. ServerInv => StreamIntact
  <2> SUFFICES ASSUME ServerInv, NEW c \in DOMAIN clients, ~conn[c].err
               PROVE  conn[c].out \o clients[c].sendBuffer = [i \in 1 .. conn[c].written |-> i]
    BY DEF StreamIntact
  <2>1. conn[c] \in ConnType /\ clients[c].sendBuffer \in Seq(Nat)
    BY OneClient DEF ServerInv, ObjectInv, ClientType
  <2>2. Stream(conn[c], clients[c].sendBuffer)
    BY DEF ServerInv, ObjectInv, Streams
  <2> QED BY <2>1, <2>2, StreamEqual
<1> QED BY <1>1, Invariance, PTL
=============================================================================
