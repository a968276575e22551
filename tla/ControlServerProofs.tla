------------------------ MODULE ControlServerProofs ------------------------
(***************************************************************************)
(* Theorems of ControlServer, for any number of peers, any limits and any  *)
(* size of the socket buffers.                                             *)
(***************************************************************************)
EXTENDS ControlServer, SequenceTheorems, FunctionTheorems, FiniteSetTheorems,
        WellFoundedInduction, TLAPS

(* The inductive invariant.                                                 *)

\* The listener holds each waiting client once, and nothing was sent to it.
BacklogInv ==
  /\ \A i \in DOMAIN backlog : socket[backlog[i]] = "backlog"
  /\ \A i, j \in DOMAIN backlog : backlog[i] = backlog[j] => i = j
  /\ \A p \in Peers : socket[p] \in {"none", "backlog"} => inbox[p] = 0

\* A descriptor belongs to one connection, which is open.
TableInv ==
  /\ \A fd \in Fds : IsOpen(fd) => socket[table[fd]] = "open"
  /\ \A fd, g \in Fds : IsOpen(fd) /\ table[fd] = table[g] => fd = g

\* An event of the batch is of a client that still is there, that has asked for
\* nothing in this drain and is not to be removed.
BatchInv ==
  /\ \A e, f \in batch : e.token = f.token => e = f
  /\ \A e \in batch : e.token # LISTENER_TOKEN =>
       /\ IsOpen(e.token) /\ e.token \notin remove
       /\ "HUP" \in e.flags => table[e.token] \in gone
       /\ \A i \in DOMAIN requests : requests[i].client # e.token

\* What is to be removed has a cause, unless its number has passed to another.
RemoveInv ==
  /\ \A fd \in remove : IF IsOpen(fd) THEN table[fd] \in faulty \cup heirs ELSE fd \in twice
  /\ \A i \in DOMAIN requests : requests[i].client \notin remove

\* What the steps leave behind.
StepInv ==
  /\ step \in {"idle", "serving"} => batch = {} /\ remove = {}
  /\ step = "idle" => requests = <<>>
  /\ step = "serving" => requests # <<>>

ServerInv ==
  /\ ServerTypeOK /\ gone \subseteq faulty
  /\ BacklogInv /\ TableInv /\ BatchInv /\ RemoveInv /\ StepInv
  /\ ClientsGetTheirDue

----------------------------------------------------------------------------
(* Numbers.                                                                 *)

LEMMA NumbersApart ==
  /\ NoPeer \notin Peers /\ LISTENER_TOKEN \notin Fds
  /\ IsFiniteSet(Fds) /\ Cardinality(Fds) = MaxControlClients + 1
<1>1. NoPeer \notin Peers /\ LISTENER_TOKEN \notin Fds
  BY ServerAssumption DEF NoPeer, Peers, LISTENER_TOKEN, Fds
<1> DEFINE n == MaxControlClients + 1
<1>2. 1 \in Int /\ n \in Int /\ ~(1 > n) /\ n - 1 + 1 = n
  BY ServerAssumption
<1>3. Fds = 1 .. n
  BY DEF Fds
<1> HIDE DEF n
<1>4. IsFiniteSet(1 .. n) /\ Cardinality(1 .. n) = IF 1 > n THEN 0 ELSE n - 1 + 1
  BY <1>2, FS_Interval
<1>5. IsFiniteSet(1 .. n) /\ Cardinality(1 .. n) = n
  BY <1>2, <1>4
<1> QED
  BY <1>1, <1>3, <1>5 DEF n

\* Below the limit there is a free descriptor, and a lowest one.
LEMMA FreeDescriptor ==
  ASSUME ~Full
  PROVE  Free \in Fds /\ ~IsOpen(Free)
<1> DEFINE Closed == {fd \in Fds : ~IsOpen(fd)}
<1>1. Closed # {}
  <2> SUFFICES ASSUME Closed = {} PROVE FALSE
    OBVIOUS
  <2>1. Registered = Fds
    BY DEF Registered
  <2>2. Cardinality(Registered) = MaxControlClients + 1
    BY <2>1, NumbersApart
  <2> QED
    BY <2>2, ServerAssumption DEF Full
<1>2. Closed \subseteq Fds /\ Fds \subseteq Nat
  BY ServerAssumption DEF Fds
<1> DEFINE Below(fd) == {g \in Fds : g \leq fd}
           Smaller == StrictSubsetOrdering(Fds)
           Bounds == {Below(fd) : fd \in Closed}
<1>3. IsWellFoundedOn(Smaller, SUBSET Fds)
  BY NumbersApart, FS_FiniteSubsetsOfFinite, FS_StrictSubsetOrderingWellFounded
<1>4. Bounds \subseteq SUBSET Fds /\ Bounds # {}
  BY <1>1
<1>5. \A X, Y \in SUBSET Fds : X \subseteq Y /\ X # Y => <<X, Y>> \in Smaller
  BY DEF StrictSubsetOrdering
<1>6. ASSUME NEW f \in Closed, NEW g \in Closed, ~(f \leq g)
      PROVE  Below(g) \subseteq Below(f) /\ Below(g) # Below(f)
  <2>1. f \in Nat /\ g \in Nat /\ g < f
    BY <1>2, <1>6
  <2>2. \A x \in Fds : x \leq g => x \leq f
    BY <1>2, <2>1
  <2>3. f \in Below(f) /\ f \notin Below(g)
    BY <1>2, <2>1
  <2> QED
    BY <2>2, <2>3
<1> HIDE DEF Smaller, Bounds, Closed
<1>7. PICK least \in Bounds : \A X \in Bounds : <<X, least>> \notin Smaller
  BY <1>3, <1>4, WFMin
<1>8. PICK fd \in Closed : least = Below(fd)
  BY DEF Bounds
<1>9. \A g \in Closed : fd \leq g
  <2> SUFFICES ASSUME NEW g \in Closed, ~(fd \leq g) PROVE FALSE
    OBVIOUS
  <2>1. Below(g) \subseteq least /\ Below(g) # least
    BY <1>6, <1>8
  <2>2. Below(g) \in Bounds
    BY DEF Bounds
  <2> QED
    BY <1>4, <1>5, <1>7, <2>1, <2>2
<1> QED
  BY <1>8, <1>9 DEF Closed, Free

----------------------------------------------------------------------------
(* Pieces of steps.                                                         *)

\* The kernel's part of the invariant, which only the clients and the replies
\* of the server move.
KernelInv ==
  /\ socket \in [Peers -> {"none", "backlog", "open", "closed", "ended"}]
  /\ table \in [Fds -> Peers \cup {NoPeer}]
  /\ inbox \in [Peers -> 0 .. InboxSize]
  /\ backlog \in Seq(Peers)
  /\ faulty \subseteq Peers /\ gone \subseteq faulty
  /\ BacklogInv /\ TableInv /\ DroppedForCause

LEMMA KernelFacts ==
  ServerInv => KernelInv
BY DEF ServerInv, ServerTypeOK, KernelInv, ClientsGetTheirDue

\* What is left to show of a step once the kernel's part is preserved.
DrainInv ==
  /\ outbox \in [Peers -> Seq(Requests)]
  /\ batch \subseteq [token : Tokens, flags : SUBSET {"IN", "HUP"}]
  /\ accepts \in 0 .. MaxAcceptsPerWake
  /\ requests \in Seq(PendingRequest)
  /\ Len(requests) \leq 1
  /\ remove \subseteq Fds
  /\ step \in {"idle", "draining", "accepting", "serving", "ended"}
  /\ owed \in [Peers -> 0 .. 1]
  /\ heirs \subseteq Peers /\ twice \subseteq Fds

LEMMA DrainFacts ==
  ServerInv => DrainInv /\ BatchInv /\ RemoveInv /\ StepInv /\ RequestsAreAnswered
BY DEF ServerInv, ServerTypeOK, DrainInv, ClientsGetTheirDue

LEMMA ServerParts ==
  KernelInv' /\ DrainInv' /\ BatchInv' /\ RemoveInv' /\ StepInv' /\ RequestsAreAnswered'
    => ServerInv'
BY DEF ServerInv, ServerTypeOK, KernelInv, DrainInv, ClientsGetTheirDue

\* Descriptors are closed and packets arrive at clients that are served.
LEMMA CloseStep ==
  ASSUME KernelInv, NEW fds \in SUBSET Fds, Close(fds), UNCHANGED <<gone, backlog>>,
         inbox' \in [Peers -> 0 .. InboxSize],
         \A p \in Peers : inbox'[p] # inbox[p] => socket[p] = "open",
         faulty \subseteq faulty', faulty' \subseteq Peers, heirs' = heirs,
         \A fd \in fds : IsOpen(fd) => table[fd] \in faulty' \cup heirs
  PROVE  /\ KernelInv'
         /\ \A fd \in Fds : table'[fd] = IF fd \in fds THEN NoPeer ELSE table[fd]
<1>1. \A fd \in Fds : table'[fd] = IF fd \in fds THEN NoPeer ELSE table[fd]
  BY DEF Close
<1>2. \A p \in Peers : socket'[p] = IF \E fd \in fds : table[fd] = p
                                    THEN "closed" ELSE socket[p]
  BY DEF Close
<1>3. table' \in [Fds -> Peers \cup {NoPeer}]
      /\ socket' \in [Peers -> {"none", "backlog", "open", "closed", "ended"}]
  BY DEF Close, KernelInv
<1>4. \A p \in Peers : socket[p] # "open" => socket'[p] = socket[p]
  BY <1>2, NumbersApart DEF KernelInv, TableInv, IsOpen
<1>5. TableInv'
  <2>1. ASSUME NEW fd \in Fds, table'[fd] # NoPeer PROVE socket'[table'[fd]] = "open"
    <3>1. fd \notin fds /\ table'[fd] = table[fd] /\ table[fd] \in Peers /\ IsOpen(fd)
      BY <1>1, <2>1 DEF KernelInv, IsOpen
    <3>2. \A g \in fds : table[g] # table[fd]
      BY <3>1 DEF KernelInv, TableInv
    <3> QED
      BY <1>2, <3>1, <3>2 DEF KernelInv, TableInv
  <2>2. ASSUME NEW fd \in Fds, NEW g \in Fds, table'[fd] # NoPeer, table'[fd] = table'[g]
        PROVE  fd = g
    BY <1>1, <2>2 DEF KernelInv, TableInv, IsOpen
  <2> QED
    BY <2>1, <2>2 DEF TableInv, IsOpen
<1>6. BacklogInv'
  <2>1. \A i \in DOMAIN backlog : backlog[i] \in Peers
    BY DEF KernelInv
  <2>2. \A i \in DOMAIN backlog : socket'[backlog[i]] = "backlog"
    BY <1>4, <2>1 DEF KernelInv, BacklogInv
  <2>3. \A p \in Peers : socket'[p] \in {"none", "backlog"} => socket[p] = socket'[p]
    BY <1>2
  <2>4. \A p \in Peers : socket'[p] \in {"none", "backlog"} => inbox'[p] = 0
    BY <2>3 DEF KernelInv, BacklogInv
  <2> QED
    BY <2>2, <2>4 DEF KernelInv, BacklogInv
<1>7. DroppedForCause'
  BY <1>2, NumbersApart DEF KernelInv, DroppedForCause, IsOpen
<1> QED
  BY <1>1, <1>3, <1>5, <1>6, <1>7 DEF KernelInv

\* A reply to the client of a descriptor, which drops it if it does not arrive.
LEMMA AnswerStep ==
  ASSUME KernelInv, NEW fd \in Fds, NEW p \in Peers, table[fd] = p, AnswerPending(fd, p),
         UNCHANGED <<gone, backlog, heirs>>
  PROVE  /\ KernelInv' /\ faulty \subseteq faulty'
         /\ \A g \in Fds : g # fd => table'[g] = table[g]
<1>1. socket[p] = "open"
  BY NumbersApart DEF KernelInv, TableInv, IsOpen
<1>2. CASE CanSend(p)
  <2>1. /\ inbox' = [inbox EXCEPT ![p] = @ + 1]
        /\ UNCHANGED <<faulty, table, socket>>
    BY <1>2 DEF AnswerPending
  <2>2. inbox[p] \in Nat /\ inbox[p] < InboxSize
    BY <1>2, ServerAssumption DEF CanSend, KernelInv
  <2>3. inbox[p] + 1 \in 0 .. InboxSize
    BY <2>2, ServerAssumption
  <2>4. inbox' \in [Peers -> 0 .. InboxSize]
    BY <2>1, <2>3 DEF KernelInv
  <2>5. BacklogInv'
    BY <1>1, <2>1 DEF KernelInv, BacklogInv
  <2> QED
    BY <2>1, <2>4, <2>5 DEF KernelInv, TableInv, IsOpen, DroppedForCause
<1>3. CASE ~CanSend(p)
  <2>1. Close({fd}) /\ faulty' = faulty \cup {p} /\ inbox' = inbox
    BY <1>3 DEF AnswerPending
  <2>2. /\ inbox' \in [Peers -> 0 .. InboxSize] /\ faulty' \subseteq Peers
        /\ \A g \in {fd} : IsOpen(g) => table[g] \in faulty' \cup heirs
    BY <2>1 DEF KernelInv
  <2>3. /\ KernelInv'
        /\ \A g \in Fds : table'[g] = IF g \in {fd} THEN NoPeer ELSE table[g]
    BY <2>1, <2>2, CloseStep
  <2> QED
    BY <2>1, <2>3
<1> QED
  BY <1>2, <1>3

\* What the invariant says of the event that the drain takes.
LEMMA EventFacts ==
  ASSUME ServerInv, NEW event \in batch, EventOfClient(event)
  PROVE  /\ step = "draining"
         /\ event.token \in Fds /\ table[event.token] \in Peers
         /\ IsOpen(event.token) /\ event.token \notin remove
         /\ "HUP" \in event.flags => table[event.token] \in gone
         /\ \A i \in DOMAIN requests : requests[i].client # event.token
         /\ batch' \subseteq batch
         /\ \A e \in batch' : e.token # event.token
<1>1. event.token \in Tokens /\ event.token # LISTENER_TOKEN
  BY DEF ServerInv, ServerTypeOK, EventOfClient
<1>2. event.token \in Fds
  BY <1>1 DEF Tokens
<1>3. batch' = batch \ {event} /\ step = "draining"
  BY DEF EventOfClient, Takes
<1>4. IsOpen(event.token) /\ table[event.token] \in Peers
  BY <1>1, <1>2 DEF ServerInv, ServerTypeOK, BatchInv, IsOpen
<1> QED
  BY <1>1, <1>2, <1>3, <1>4 DEF ServerInv, BatchInv

\* One request, of one client.
LEMMA OneRequest ==
  ASSUME NEW fd \in Fds, NEW p \in Peers
  PROVE  LET s == <<[client |-> fd, from |-> p]>>
         IN /\ s \in Seq(PendingRequest) /\ Len(s) = 1 /\ DOMAIN s = {1}
            /\ s[1].client = fd /\ s[1].from = p /\ s # <<>>
<1>1. [client |-> fd, from |-> p] \in PendingRequest
  BY DEF PendingRequest
<1> QED
  BY <1>1

LEMMA RequestFacts ==
  ASSUME DrainInv
  PROVE  /\ \A i \in DOMAIN requests : /\ requests[i] \in PendingRequest
                                      /\ requests[i].client \in Fds
                                      /\ requests[i].from \in Peers
         /\ requests # <<>> => /\ Len(requests) = 1 /\ DOMAIN requests = {1}
                               /\ Head(requests) = requests[1]
<1> DEFINE n == Len(requests)
<1>1. requests \in Seq(PendingRequest) /\ n \leq 1
  BY DEF DrainInv
<1>2. \A r \in PendingRequest : r.client \in Fds /\ r.from \in Peers
  BY DEF PendingRequest
<1>3. n \in Nat /\ DOMAIN requests = 1 .. n
  BY <1>1, LenProperties
<1>4. \A i \in DOMAIN requests : requests[i] \in PendingRequest
  BY <1>1, <1>3, ElementOfSeq
<1>5. ASSUME requests # <<>>
      PROVE  n = 1 /\ DOMAIN requests = {1} /\ Head(requests) = requests[1]
  <2>1. n # 0
    BY <1>1, <1>5, EmptySeq
  <2>2. n = 1
    BY <1>1, <1>3, <2>1
  <2>3. Head(requests) = requests[1]
    BY <1>1, <1>5, HeadTailProperties
  <2> QED
    BY <1>3, <2>2, <2>3
<1> QED
  BY <1>2, <1>4, <1>5

LEMMA NoRequest ==
  ASSUME RequestsAreAnswered, requests = <<>>
  PROVE  \A p \in Peers : owed[p] = 0
<1>1. \A p \in Peers : {i \in DOMAIN requests : requests[i].from = p} = {}
  OBVIOUS
<1>2. Cardinality({}) = 0
  BY FS_EmptySet
<1> QED
  BY <1>1, <1>2 DEF RequestsAreAnswered

----------------------------------------------------------------------------
(* The clients.                                                             *)

LEMMA ConnectStep ==
  ASSUME ServerInv, NEW p \in Peers, Connect(p) PROVE ServerInv'
<1>1. KernelInv /\ DrainInv /\ BatchInv /\ RemoveInv /\ StepInv /\ RequestsAreAnswered
  BY KernelFacts, DrainFacts
<1>2. /\ \A q \in Peers : socket'[q] = IF q = p THEN "backlog" ELSE socket[q]
      /\ socket' \in [Peers -> {"none", "backlog", "open", "closed", "ended"}]
      /\ socket[p] = "none"
      /\ UNCHANGED <<gone, outbox, inbox, table, drainVars, serverHistory>>
  BY <1>1 DEF Connect, KernelInv
<1> DEFINE q == Append(backlog, p)
           n == Len(backlog)
<1>3. /\ q \in Seq(Peers) /\ n \in Nat /\ Len(q) = n + 1
      /\ \A i \in 1 .. n : q[i] = backlog[i]
      /\ q[n + 1] = p
      /\ DOMAIN backlog = 1 .. n /\ DOMAIN q = 1 .. Len(q)
  BY <1>1, AppendProperties, LenProperties DEF KernelInv
<1>4. backlog' = q
  BY DEF Connect
<1> HIDE DEF q, n
<1>5. \A i \in DOMAIN q : \/ i \in DOMAIN backlog /\ q[i] = backlog[i]
                          \/ i = n + 1 /\ q[i] = p
  BY <1>3
<1>6. \A i \in DOMAIN backlog : backlog[i] \in Peers /\ socket[backlog[i]] = "backlog"
  BY <1>1 DEF KernelInv, BacklogInv
<1>7. BacklogInv'
  <2>1. \A i \in DOMAIN q : socket'[q[i]] = "backlog"
    BY <1>2, <1>5, <1>6
  <2>2. \A i, j \in DOMAIN q : q[i] = q[j] => i = j
    BY <1>1, <1>2, <1>5, <1>6 DEF KernelInv, BacklogInv
  <2>3. \A r \in Peers : socket'[r] \in {"none", "backlog"} => inbox'[r] = 0
    BY <1>1, <1>2 DEF KernelInv, BacklogInv
  <2> QED
    BY <1>4, <2>1, <2>2, <2>3 DEF BacklogInv
<1>8. TableInv'
  <2>1. \A fd \in Fds : IsOpen(fd) => table[fd] \in Peers /\ table[fd] # p
    BY <1>1, <1>2 DEF KernelInv, TableInv, IsOpen
  <2> QED
    BY <1>1, <1>2, <2>1 DEF KernelInv, TableInv, IsOpen
<1>9. DroppedForCause'
  BY <1>1, <1>2 DEF KernelInv, DroppedForCause, serverHistory
<1>10. KernelInv'
  BY <1>1, <1>2, <1>3, <1>4, <1>7, <1>8, <1>9 DEF KernelInv, serverHistory
<1>11. DrainInv' /\ BatchInv' /\ RemoveInv' /\ StepInv' /\ RequestsAreAnswered'
  BY <1>1, <1>2 DEF DrainInv, BatchInv, RemoveInv, StepInv, RequestsAreAnswered, IsOpen,
     drainVars, serverHistory
<1> QED
  BY <1>10, <1>11, ServerParts

LEMMA PeerStep ==
  ASSUME ServerInv, NEW p \in Peers, SendPacket(p) \/ Receive(p) \/ HangUp(p)
  PROVE  ServerInv'
<1>1. KernelInv /\ DrainInv /\ BatchInv /\ RemoveInv /\ StepInv /\ RequestsAreAnswered
  BY KernelFacts, DrainFacts
<1>2. CASE SendPacket(p)
  <2>1. outbox' \in [Peers -> Seq(Requests)]
    <3>1. PICK r \in Requests : outbox' = [outbox EXCEPT ![p] = Append(@, r)]
      BY <1>2 DEF SendPacket
    <3>2. Append(outbox[p], r) \in Seq(Requests)
      BY <1>1, AppendProperties DEF DrainInv
    <3> QED
      BY <1>1, <3>1, <3>2 DEF DrainInv
  <2>2. KernelInv'
    BY <1>1, <1>2 DEF SendPacket, KernelInv, BacklogInv, TableInv, IsOpen, DroppedForCause,
       serverHistory
  <2>3. DrainInv' /\ BatchInv' /\ RemoveInv' /\ StepInv' /\ RequestsAreAnswered'
    BY <1>1, <1>2, <2>1 DEF SendPacket, DrainInv, BatchInv, RemoveInv, StepInv,
       RequestsAreAnswered, IsOpen, drainVars, serverHistory
  <2> QED
    BY <2>2, <2>3, ServerParts
<1>3. CASE Receive(p)
  <2>1. inbox' \in [Peers -> 0 .. InboxSize]
    BY <1>1, <1>3, ServerAssumption DEF Receive, KernelInv
  <2>2. BacklogInv'
    BY <1>1, <1>3 DEF Receive, KernelInv, BacklogInv
  <2>3. KernelInv'
    BY <1>1, <1>3, <2>1, <2>2 DEF Receive, KernelInv, TableInv, IsOpen, DroppedForCause,
       serverHistory
  <2>4. DrainInv' /\ BatchInv' /\ RemoveInv' /\ StepInv' /\ RequestsAreAnswered'
    BY <1>1, <1>3 DEF Receive, DrainInv, BatchInv, RemoveInv, StepInv,
       RequestsAreAnswered, IsOpen, drainVars, serverHistory
  <2> QED
    BY <2>3, <2>4, ServerParts
<1>4. CASE HangUp(p)
  <2>1. KernelInv'
    BY <1>1, <1>4 DEF HangUp, KernelInv, BacklogInv, TableInv, IsOpen, DroppedForCause
  <2>2. DrainInv' /\ BatchInv' /\ RemoveInv' /\ StepInv' /\ RequestsAreAnswered'
    BY <1>1, <1>4 DEF HangUp, DrainInv, BatchInv, RemoveInv, StepInv,
       RequestsAreAnswered, IsOpen, drainVars
  <2> QED
    BY <2>1, <2>2, ServerParts
<1> QED
  BY <1>2, <1>3, <1>4

----------------------------------------------------------------------------
(* The accept loop.                                                         *)

\* The connection taken from the queue is in it no more.
LEMMA AcceptFacts ==
  ASSUME KernelInv, NEW p \in Peers, Accepts(p)
  PROVE  /\ socket[p] = "backlog" /\ inbox[p] = 0
         /\ backlog' \in Seq(Peers)
         /\ \A i \in DOMAIN backlog' : /\ backlog'[i] \in Peers /\ backlog'[i] # p
                                       /\ socket[backlog'[i]] = "backlog"
         /\ \A i, j \in DOMAIN backlog' : backlog'[i] = backlog'[j] => i = j
<1> DEFINE q == Tail(backlog)
           n == Len(backlog)
<1>1. /\ q \in Seq(Peers) /\ n \in Nat /\ n > 0 /\ Len(q) = n - 1
      /\ \A i \in 1 .. Len(q) : q[i] = backlog[i + 1]
      /\ p = backlog[1] /\ backlog' = q
      /\ DOMAIN backlog = 1 .. n /\ DOMAIN q = 1 .. Len(q)
  BY HeadTailProperties, LenProperties, EmptySeq DEF KernelInv, Accepts
<1> HIDE DEF q, n
<1>2. \A i \in DOMAIN q : i + 1 \in DOMAIN backlog /\ q[i] = backlog[i + 1] /\ i + 1 # 1
  BY <1>1
<1>3. 1 \in DOMAIN backlog
  BY <1>1
<1>4. \A i \in DOMAIN backlog : backlog[i] \in Peers /\ socket[backlog[i]] = "backlog"
  BY DEF KernelInv, BacklogInv
<1>5. \A i \in DOMAIN q : q[i] \in Peers /\ q[i] # p /\ socket[q[i]] = "backlog"
  <2>1. \A i, j \in DOMAIN backlog : backlog[i] = backlog[j] => i = j
    BY DEF KernelInv, BacklogInv
  <2>2. ASSUME NEW i \in DOMAIN q PROVE q[i] # p
    BY <1>1, <1>2, <1>3, <2>1
  <2> QED
    BY <1>2, <1>4, <2>2
<1>6. \A i, j \in DOMAIN q : q[i] = q[j] => i + 1 = j + 1
  BY <1>2 DEF KernelInv, BacklogInv
<1>7. \A i, j \in DOMAIN q : q[i] = q[j] => i = j
  BY <1>1, <1>6
<1>8. socket[p] = "backlog" /\ inbox[p] = 0
  BY <1>1, <1>3, <1>4 DEF KernelInv, BacklogInv
<1> QED
  BY <1>1, <1>5, <1>7, <1>8

LEMMA RefuseStep ==
  ASSUME ServerInv, NEW p \in Peers, RefuseBusy(p) \/ GreetingFails(p)
  PROVE  ServerInv'
<1>1. KernelInv /\ DrainInv /\ BatchInv /\ RemoveInv /\ StepInv /\ RequestsAreAnswered
  BY KernelFacts, DrainFacts
<1>2. /\ Accepts(p) /\ socket' = [socket EXCEPT ![p] = "closed"]
      /\ outbox' = [outbox EXCEPT ![p] = <<>>]
      /\ UNCHANGED <<gone, table, batch, requests, remove, step, owed, twice, heirs>>
      /\ inbox' \in {inbox, [inbox EXCEPT ![p] = @ + 1]}
      /\ faulty \subseteq faulty' /\ faulty' \subseteq faulty \cup {p}
  BY DEF RefuseBusy, GreetingFails, serverHistory
<1>3. /\ socket[p] = "backlog" /\ inbox[p] = 0
      /\ backlog' \in Seq(Peers)
      /\ \A i \in DOMAIN backlog' : /\ backlog'[i] \in Peers /\ backlog'[i] # p
                                    /\ socket[backlog'[i]] = "backlog"
      /\ \A i, j \in DOMAIN backlog' : backlog'[i] = backlog'[j] => i = j
  BY <1>1, <1>2, AcceptFacts
<1>4. /\ \A q \in Peers : socket'[q] = IF q = p THEN "closed" ELSE socket[q]
      /\ socket' \in [Peers -> {"none", "backlog", "open", "closed", "ended"}]
  BY <1>1, <1>2 DEF KernelInv
<1>5. /\ inbox' \in [Peers -> 0 .. InboxSize]
      /\ \A q \in Peers : q # p => inbox'[q] = inbox[q]
  <2>1. 0 + 1 \in 0 .. InboxSize
    BY ServerAssumption
  <2>2. CASE inbox' = inbox
    BY <1>1, <2>2 DEF KernelInv
  <2>3. CASE inbox' = [inbox EXCEPT ![p] = @ + 1]
    BY <1>1, <1>3, <2>1, <2>3 DEF KernelInv
  <2> QED
    BY <1>2, <2>2, <2>3
<1>6. p \in faulty'
  <2>1. CASE RefuseBusy(p)
    BY <2>1 DEF RefuseBusy
  <2>2. CASE GreetingFails(p)
    <3>1. ~CanSend(p) /\ faulty' = faulty
      BY <2>2 DEF GreetingFails, serverHistory
    <3>2. p \in gone
      BY <1>3, <3>1, ServerAssumption DEF CanSend
    <3> QED
      BY <1>1, <3>1, <3>2 DEF KernelInv
  <2> QED
    BY <2>1, <2>2
<1>7. BacklogInv'
  <2>1. \A i \in DOMAIN backlog' : socket'[backlog'[i]] = "backlog"
    BY <1>3, <1>4
  <2>2. \A q \in Peers : socket'[q] \in {"none", "backlog"} => inbox'[q] = 0
    BY <1>1, <1>4, <1>5 DEF KernelInv, BacklogInv
  <2> QED
    BY <1>3, <2>1, <2>2 DEF BacklogInv
<1>8. TableInv'
  <2>1. \A fd \in Fds : IsOpen(fd) => table[fd] \in Peers /\ table[fd] # p
    BY <1>1, <1>3 DEF KernelInv, TableInv, IsOpen
  <2> QED
    BY <1>1, <1>2, <1>4, <2>1 DEF KernelInv, TableInv, IsOpen
<1>9. DroppedForCause'
  BY <1>1, <1>2, <1>4, <1>6 DEF KernelInv, DroppedForCause
<1>10. KernelInv'
  BY <1>1, <1>2, <1>3, <1>4, <1>5, <1>7, <1>8, <1>9 DEF KernelInv
<1>11. accepts' \in 0 .. MaxAcceptsPerWake /\ outbox' \in [Peers -> Seq(Requests)]
  <2>1. accepts' \in 0 .. MaxAcceptsPerWake
    BY <1>1, <1>2, ServerAssumption DEF DrainInv, Accepts
  <2>2. <<>> \in Seq(Requests)
    OBVIOUS
  <2> QED
    BY <1>1, <1>2, <2>1, <2>2 DEF DrainInv
<1>12. DrainInv' /\ BatchInv' /\ RemoveInv' /\ StepInv' /\ RequestsAreAnswered'
  BY <1>1, <1>2, <1>11 DEF DrainInv, BatchInv, RemoveInv, StepInv, RequestsAreAnswered,
     IsOpen
<1> QED
  BY <1>10, <1>12, ServerParts

LEMMA GreetStep ==
  ASSUME ServerInv, NEW p \in Peers, Greet(p)
  PROVE  ServerInv'
<1>1. KernelInv /\ DrainInv /\ BatchInv /\ RemoveInv /\ StepInv /\ RequestsAreAnswered
  BY KernelFacts, DrainFacts
<1> DEFINE new == Free
<1>2. new \in Fds /\ ~IsOpen(new)
  BY FreeDescriptor DEF Greet
<1>3. /\ Accepts(p) /\ inbox' = [inbox EXCEPT ![p] = @ + 1]
      /\ socket' = [socket EXCEPT ![p] = "open"]
      /\ table' = [table EXCEPT ![new] = p]
      /\ heirs' = IF new \in twice THEN heirs \cup {p} ELSE heirs
      /\ step = "accepting"
      /\ UNCHANGED <<gone, outbox, batch, requests, remove, step, owed, faulty, twice>>
  BY DEF Greet, Accepts
<1> HIDE DEF new
<1>4. /\ socket[p] = "backlog" /\ inbox[p] = 0
      /\ backlog' \in Seq(Peers)
      /\ \A i \in DOMAIN backlog' : /\ backlog'[i] \in Peers /\ backlog'[i] # p
                                    /\ socket[backlog'[i]] = "backlog"
      /\ \A i, j \in DOMAIN backlog' : backlog'[i] = backlog'[j] => i = j
  BY <1>1, <1>3, AcceptFacts
<1>5. /\ \A q \in Peers : socket'[q] = IF q = p THEN "open" ELSE socket[q]
      /\ socket' \in [Peers -> {"none", "backlog", "open", "closed", "ended"}]
      /\ \A fd \in Fds : table'[fd] = IF fd = new THEN p ELSE table[fd]
      /\ table' \in [Fds -> Peers \cup {NoPeer}]
  BY <1>1, <1>2, <1>3 DEF KernelInv
<1>6. /\ inbox' \in [Peers -> 0 .. InboxSize]
      /\ \A q \in Peers : q # p => inbox'[q] = inbox[q]
  <2>1. 0 + 1 \in 0 .. InboxSize
    BY ServerAssumption
  <2> QED
    BY <1>1, <1>3, <1>4, <2>1 DEF KernelInv
<1>7. BacklogInv'
  <2>1. \A i \in DOMAIN backlog' : socket'[backlog'[i]] = "backlog"
    BY <1>4, <1>5
  <2>2. \A q \in Peers : socket'[q] \in {"none", "backlog"} => inbox'[q] = 0
    BY <1>1, <1>5, <1>6 DEF KernelInv, BacklogInv
  <2> QED
    BY <1>4, <2>1, <2>2 DEF BacklogInv
<1>8. TableInv'
  <2>1. \A fd \in Fds : IsOpen(fd) => table[fd] \in Peers /\ table[fd] # p
    BY <1>1, <1>4 DEF KernelInv, TableInv, IsOpen
  <2>2. \A fd \in Fds : table'[fd] # NoPeer => socket'[table'[fd]] = "open"
    BY <1>1, <1>5, <2>1 DEF KernelInv, TableInv, IsOpen
  <2>3. \A fd, g \in Fds : table'[fd] # NoPeer /\ table'[fd] = table'[g] => fd = g
    BY <1>1, <1>5, <2>1, NumbersApart DEF KernelInv, TableInv, IsOpen
  <2> QED
    BY <2>2, <2>3 DEF TableInv, IsOpen
<1>9. DroppedForCause' /\ heirs \subseteq heirs' /\ heirs' \subseteq heirs \cup {p}
  BY <1>1, <1>3, <1>5 DEF KernelInv, DroppedForCause
<1>10. KernelInv'
  BY <1>1, <1>3, <1>4, <1>5, <1>6, <1>7, <1>8, <1>9 DEF KernelInv
<1>11. DrainInv' /\ StepInv'
  <2>1. accepts' \in 0 .. MaxAcceptsPerWake
    BY <1>1, <1>3, ServerAssumption DEF DrainInv, Accepts
  <2> QED
    BY <1>1, <1>3, <1>9, <2>1 DEF DrainInv, StepInv
<1>12. BatchInv'
  <2>1. ASSUME NEW e \in batch, e.token # LISTENER_TOKEN
        PROVE  table'[e.token] = table[e.token]
    <3>1. e.token \in Fds /\ IsOpen(e.token)
      BY <1>1, <2>1 DEF DrainInv, BatchInv, Tokens
    <3> QED
      BY <1>2, <1>5, <3>1
  <2> QED
    BY <1>1, <1>3, <2>1 DEF BatchInv, IsOpen
<1>13. RemoveInv'
  <2>1. ASSUME NEW fd \in remove
        PROVE  IF table'[fd] # NoPeer THEN table'[fd] \in faulty \cup heirs'
                                      ELSE fd \in twice
    <3>1. fd \in Fds /\ IF IsOpen(fd) THEN table[fd] \in faulty \cup heirs ELSE fd \in twice
      BY <1>1 DEF DrainInv, RemoveInv
    <3>2. CASE fd = new
      <4>1. new \in twice
        BY <1>2, <3>1, <3>2 DEF IsOpen
      <4>2. heirs' = heirs \cup {p} /\ table'[fd] = p
        BY <1>3, <1>5, <3>1, <3>2, <4>1
      <4> QED
        BY <4>2, NumbersApart
    <3>3. CASE fd # new
      BY <1>5, <1>9, <3>1, <3>3 DEF IsOpen
    <3> QED
      BY <3>2, <3>3
  <2> QED
    BY <1>1, <1>3, <2>1 DEF RemoveInv, IsOpen
<1>14. RequestsAreAnswered'
  <2>1. ASSUME NEW i \in DOMAIN requests
        PROVE  table'[requests[i].client] = table[requests[i].client]
    <3>1. requests[i].client \in Fds /\ requests[i].from \in Peers
      BY <1>1, <2>1, RequestFacts
    <3>2. table[requests[i].client] \in Peers
      BY <1>1, <2>1, <3>1 DEF RequestsAreAnswered
    <3> QED
      BY <1>2, <1>5, <3>1, <3>2, NumbersApart DEF IsOpen
  <2> QED
    BY <1>1, <1>3, <2>1 DEF RequestsAreAnswered
<1> QED
  BY <1>10, <1>11, <1>12, <1>13, <1>14, ServerParts

----------------------------------------------------------------------------
(* The drain.                                                               *)

LEMMA WaitStep ==
  ASSUME ServerInv, Wait \/ EndAccept \/ Interrupted
  PROVE  ServerInv'
<1>1. KernelInv /\ DrainInv /\ BatchInv /\ RemoveInv /\ StepInv /\ RequestsAreAnswered
  BY KernelFacts, DrainFacts
<1>2. KernelInv'
  BY <1>1 DEF Wait, EndAccept, Interrupted, KernelInv, BacklogInv, TableInv, IsOpen,
     DroppedForCause, kernelVars, serverHistory
<1>3. CASE Wait
  <2>1. /\ batch' = {[token |-> t, flags |-> Flags(t)] :
                       t \in {u \in Tokens : Flags(u) # {}}}
        /\ step' = "draining" /\ remove = {} /\ requests = <<>>
        /\ UNCHANGED <<kernelVars, accepts, requests, remove, serverHistory>>
    BY <1>1, <1>3 DEF Wait, StepInv
  <2>2. \A t \in Tokens : Flags(t) \subseteq {"IN", "HUP"}
    BY DEF Flags
  <2>3. batch' \subseteq [token : Tokens, flags : SUBSET {"IN", "HUP"}]
    BY <2>1, <2>2
  <2>4. DrainInv'
    BY <1>1, <2>1, <2>3 DEF DrainInv, kernelVars, serverHistory
  <2>5. ASSUME NEW t \in Fds, Flags(t) # {}
        PROVE  IsOpen(t) /\ ("HUP" \in Flags(t) => table[t] \in gone)
    <3>1. t # LISTENER_TOKEN
      BY NumbersApart
    <3> QED
      BY <1>1, <2>5, <3>1, NumbersApart DEF Flags, IsOpen, KernelInv
  <2>6. BatchInv'
    <3>1. \A e, f \in batch' : e.token = f.token => e = f
      BY <2>1
    <3>2. ASSUME NEW e \in batch', e.token # LISTENER_TOKEN
          PROVE  IsOpen(e.token) /\ ("HUP" \in e.flags => table[e.token] \in gone)
      <4>1. PICK t \in Tokens : e = [token |-> t, flags |-> Flags(t)] /\ Flags(t) # {}
        BY <2>1
      <4> QED
        BY <2>5, <3>2, <4>1 DEF Tokens
    <3> QED
      BY <2>1, <3>1, <3>2 DEF BatchInv, IsOpen, kernelVars
  <2>7. RemoveInv' /\ StepInv' /\ RequestsAreAnswered'
    BY <1>1, <2>1 DEF RemoveInv, StepInv, RequestsAreAnswered, kernelVars, serverHistory
  <2> QED
    BY <1>2, <2>4, <2>6, <2>7, ServerParts
<1>4. CASE EndAccept \/ Interrupted
  <2>1. accepts' \in 0 .. MaxAcceptsPerWake
    BY <1>1, <1>4, ServerAssumption DEF EndAccept, Interrupted, DrainInv
  <2>2. /\ step' \in {"draining", "accepting"} /\ step = "accepting"
        /\ UNCHANGED <<kernelVars, batch, requests, remove, serverHistory>>
    BY <1>4 DEF EndAccept, Interrupted
  <2>3. DrainInv' /\ BatchInv' /\ RemoveInv' /\ StepInv' /\ RequestsAreAnswered'
    BY <1>1, <2>1, <2>2 DEF DrainInv, BatchInv, RemoveInv, StepInv,
       RequestsAreAnswered, IsOpen, kernelVars, serverHistory
  <2> QED
    BY <1>2, <2>3, ServerParts
<1> QED
  BY <1>3, <1>4

\* The end leaves no descriptor, nothing to do and nothing owed.
LEMMA FailsStep ==
  ASSUME ServerInv, Fails PROVE ServerInv'
<1>1. KernelInv /\ DrainInv
  BY KernelFacts, DrainFacts
<1>2. /\ socket' = [p \in Peers |-> IF socket[p] \in {"backlog", "open"} THEN "ended"
                                   ELSE socket[p]]
      /\ table' = [fd \in Fds |-> NoPeer] /\ backlog' = <<>>
      /\ batch' = {} /\ accepts' = 0 /\ requests' = <<>> /\ remove' = {}
      /\ step' = "ended" /\ outbox' = [p \in Peers |-> <<>>]
      /\ owed' = [p \in Peers |-> 0] /\ twice' = {}
      /\ UNCHANGED <<gone, inbox, faulty, heirs>>
  BY DEF Fails
<1>3. \A fd \in Fds : table'[fd] = NoPeer
  BY <1>2
<1>4. <<>> \in Seq(Peers) /\ DOMAIN <<>> = {} /\ <<>> \in Seq(PendingRequest)
      /\ Len(<<>>) = 0 /\ <<>> \in Seq(Requests)
  OBVIOUS
<1>5. KernelInv'
  <2>1. \A p \in Peers : socket'[p] \in {"none", "closed"} => socket[p] = socket'[p]
    BY <1>2
  <2>2. \A p \in Peers : socket'[p] # "backlog" /\ socket'[p] # "open"
    BY <1>2
  <2>3. BacklogInv'
    BY <1>1, <1>2, <1>4, <2>1, <2>2 DEF KernelInv, BacklogInv
  <2>4. TableInv'
    BY <1>3 DEF TableInv, IsOpen
  <2>5. DroppedForCause'
    BY <1>1, <1>2, <2>1 DEF KernelInv, DroppedForCause
  <2>6. socket' \in [Peers -> {"none", "backlog", "open", "closed", "ended"}]
    BY <1>1, <1>2 DEF KernelInv
  <2> QED
    BY <1>1, <1>2, <1>4, <2>3, <2>4, <2>5, <2>6 DEF KernelInv
<1>6. DrainInv'
  <2>1. 0 \in 0 .. MaxAcceptsPerWake /\ 0 \in 0 .. 1
    BY ServerAssumption
  <2>2. Len(requests') \leq 1
    BY <1>2, <1>4
  <2> QED
    BY <1>1, <1>2, <1>4, <2>1, <2>2 DEF DrainInv
<1>7. BatchInv' /\ RemoveInv' /\ StepInv'
  BY <1>2, <1>4 DEF BatchInv, RemoveInv, StepInv
<1>8. RequestsAreAnswered'
  <2>1. \A p \in Peers : {i \in DOMAIN requests' : requests'[i].from = p} = {}
    BY <1>2, <1>4
  <2>2. Cardinality({}) = 0
    BY FS_EmptySet
  <2> QED
    BY <1>2, <1>4, <2>1, <2>2 DEF RequestsAreAnswered
<1> QED
  BY <1>5, <1>6, <1>7, <1>8, ServerParts

\* Events that receive nothing, and a read that fails.
LEMMA SkipStep ==
  ASSUME ServerInv, NEW event \in batch,
         \/ NoteHangUp(event) \/ Defer(event) \/ BeginAccept(event)
         \/ \E p \in Peers : ReceiveFails(event, p)
  PROVE  ServerInv'
<1>1. KernelInv /\ DrainInv /\ BatchInv /\ RemoveInv /\ StepInv /\ RequestsAreAnswered
  BY KernelFacts, DrainFacts
<1>2. UNCHANGED <<kernelVars, requests, serverHistory>> /\ step = "draining"
      /\ batch' = batch \ {event}
  BY DEF NoteHangUp, Defer, BeginAccept, ReceiveFails, MayReceive, EventOfClient, Takes
<1>3. KernelInv' /\ RequestsAreAnswered'
  BY <1>1, <1>2 DEF KernelInv, BacklogInv, TableInv, IsOpen, DroppedForCause,
     RequestsAreAnswered, kernelVars, serverHistory
<1>4. CASE Defer(event) \/ BeginAccept(event)
  <2>1. remove' = remove /\ step' \in {"draining", "accepting"}
    BY <1>2, <1>4 DEF Defer, BeginAccept
  <2>2. accepts' \in 0 .. MaxAcceptsPerWake
    BY <1>1, <1>4, ServerAssumption DEF Defer, BeginAccept, DrainInv
  <2>3. DrainInv' /\ BatchInv' /\ RemoveInv' /\ StepInv'
    BY <1>1, <1>2, <2>1, <2>2 DEF DrainInv, BatchInv, RemoveInv, StepInv, IsOpen,
       kernelVars, serverHistory
  <2> QED
    BY <1>3, <2>3, ServerParts
<1>5. CASE NoteHangUp(event) \/ \E p \in Peers : ReceiveFails(event, p)
  <2>1. EventOfClient(event) /\ remove' = remove \cup {event.token}
        /\ UNCHANGED <<accepts, step>>
    BY <1>5 DEF NoteHangUp, ReceiveFails, MayReceive
  <2>2. /\ event.token \in Fds /\ table[event.token] \in Peers
        /\ IsOpen(event.token) /\ event.token \notin remove
        /\ "HUP" \in event.flags => table[event.token] \in gone
        /\ \A i \in DOMAIN requests : requests[i].client # event.token
        /\ \A e \in batch' : e.token # event.token
    BY <2>1, EventFacts
  <2>3. table[event.token] \in gone
    BY <1>5, <2>2 DEF NoteHangUp, ReceiveFails, Reset
  <2>4. RemoveInv'
    BY <1>1, <1>2, <2>1, <2>2, <2>3 DEF KernelInv, RemoveInv, IsOpen, kernelVars,
       serverHistory
  <2>5. DrainInv' /\ BatchInv' /\ StepInv'
    BY <1>1, <1>2, <2>1, <2>2 DEF DrainInv, BatchInv, StepInv, IsOpen, kernelVars,
       serverHistory
  <2> QED
    BY <1>3, <2>4, <2>5, ServerParts
<1> QED
  BY <1>4, <1>5

\* A packet is taken from the client of an event.
LEMMA ReceiveFacts ==
  ASSUME ServerInv, NEW event \in batch, NEW p \in Peers, NEW kind, Receives(event, p, kind)
  PROVE  /\ EventOfClient(event) /\ table[event.token] = p /\ requests = <<>>
         /\ outbox' \in [Peers -> Seq(Requests)]
<1>1. outbox \in [Peers -> Seq(Requests)]
  BY DEF ServerInv, ServerTypeOK
<1>2. outbox[p] \in Seq(Requests) /\ outbox[p] # <<>>
  BY <1>1 DEF Receives
<1>3. Tail(outbox[p]) \in Seq(Requests)
  BY <1>2, HeadTailProperties
<1> QED
  BY <1>1, <1>3 DEF Receives, MayReceive

\* The client of an empty packet is put on the list.
LEMMA ReceiveEmptyStep ==
  ASSUME ServerInv, NEW event \in batch, NEW p \in Peers, ReceiveEmpty(event, p)
  PROVE  ServerInv'
<1>1. KernelInv /\ DrainInv /\ BatchInv /\ RemoveInv /\ StepInv /\ RequestsAreAnswered
  BY KernelFacts, DrainFacts
<1>2. /\ EventOfClient(event) /\ table[event.token] = p /\ requests = <<>>
      /\ outbox' \in [Peers -> Seq(Requests)]
  BY ReceiveFacts DEF ReceiveEmpty
<1>3. /\ step = "draining" /\ event.token \in Fds /\ IsOpen(event.token)
      /\ batch' \subseteq batch /\ \A e \in batch' : e.token # event.token
      /\ \A i \in DOMAIN requests : requests[i].client # event.token
  BY <1>2, EventFacts
<1>4. /\ remove' = remove \cup {event.token} /\ faulty' = faulty \cup {p}
      /\ UNCHANGED <<socket, gone, inbox, backlog, table, accepts, requests, step,
                     owed, twice, heirs>>
  BY DEF ReceiveEmpty
<1>5. KernelInv'
  BY <1>1, <1>4 DEF KernelInv, BacklogInv, TableInv, IsOpen, DroppedForCause
<1>6. RequestsAreAnswered' /\ StepInv'
  BY <1>1, <1>3, <1>4 DEF RequestsAreAnswered, StepInv
<1>7. RemoveInv'
  BY <1>1, <1>2, <1>3, <1>4 DEF RemoveInv, IsOpen
<1>8. BatchInv'
  BY <1>1, <1>3, <1>4 DEF BatchInv, IsOpen
<1>9. DrainInv'
  BY <1>1, <1>2, <1>3, <1>4 DEF DrainInv
<1> QED
  BY <1>5, <1>6, <1>7, <1>8, <1>9, ServerParts

LEMMA ReceiveRequestStep ==
  ASSUME ServerInv, NEW event \in batch, NEW p \in Peers, ReceiveRequest(event, p)
  PROVE  ServerInv'
<1>1. KernelInv /\ DrainInv /\ BatchInv /\ RemoveInv /\ StepInv /\ RequestsAreAnswered
  BY KernelFacts, DrainFacts
<1>2. /\ EventOfClient(event) /\ table[event.token] = p /\ requests = <<>>
      /\ outbox' \in [Peers -> Seq(Requests)]
  BY ReceiveFacts DEF ReceiveRequest
<1>3. /\ step = "draining" /\ event.token \in Fds /\ event.token \notin remove
      /\ batch' \subseteq batch /\ \A e \in batch' : e.token # event.token
  BY <1>2, EventFacts
<1> DEFINE s == <<[client |-> event.token, from |-> p]>>
<1>4. /\ s \in Seq(PendingRequest) /\ Len(s) = 1 /\ DOMAIN s = {1}
      /\ s[1].client = event.token /\ s[1].from = p /\ s # <<>>
  BY <1>3, OneRequest
<1>5. /\ requests' = s /\ owed' = [owed EXCEPT ![p] = @ + 1]
      /\ UNCHANGED <<socket, gone, inbox, backlog, table, accepts, remove, step,
                     faulty, twice, heirs>>
  BY DEF ReceiveRequest
<1> HIDE DEF s
<1>12. ASSUME NEW q \in Peers
       PROVE  Cardinality({i \in DOMAIN s : s[i].from = q}) = IF q = p THEN 1 ELSE 0
  <2>1. {i \in DOMAIN s : s[i].from = q} = IF q = p THEN {1} ELSE {}
    BY <1>4
  <2>2. Cardinality({1}) = 1 /\ Cardinality({}) = 0
    BY FS_Singleton, FS_EmptySet
  <2> QED  BY <2>1, <2>2
<1>6. \A q \in Peers : owed'[q] = IF q = p THEN 1 ELSE 0
  BY <1>1, <1>2, <1>5, NoRequest DEF DrainInv
<1>7. KernelInv'
  BY <1>1, <1>5 DEF KernelInv, BacklogInv, TableInv, IsOpen, DroppedForCause
<1>8. DrainInv' /\ StepInv'
  <2>1. owed' \in [Peers -> 0 .. 1]
    BY <1>1, <1>5, <1>6 DEF DrainInv
  <2>2. batch' \subseteq [token : Tokens, flags : SUBSET {"IN", "HUP"}]
    BY <1>1, <1>3 DEF DrainInv
  <2>3. requests' \in Seq(PendingRequest) /\ Len(requests') \leq 1
    <3>1. s \in Seq(PendingRequest) /\ Len(s) = 1 /\ requests' = s
      BY <1>4, <1>5
    <3>2. Len(s) \leq 1
      BY <3>1
    <3> QED
      BY <3>1, <3>2
  <2>4. StepInv'
    BY <1>3, <1>5 DEF StepInv
  <2> QED
    BY <1>1, <1>2, <1>5, <2>1, <2>2, <2>3, <2>4 DEF DrainInv
<1>9. BatchInv'
  BY <1>1, <1>3, <1>4, <1>5 DEF BatchInv, IsOpen
<1>10. RemoveInv'
  BY <1>1, <1>3, <1>4, <1>5 DEF RemoveInv, IsOpen
<1>11. RequestsAreAnswered'
  <2>1. \A q \in Peers : owed'[q] = Cardinality({i \in DOMAIN s : s[i].from = q})
    BY <1>6, <1>12
  <2>2. \A i \in DOMAIN s : table'[s[i].client] = s[i].from
    BY <1>2, <1>4, <1>5
  <2> QED
    BY <1>5, <2>1, <2>2 DEF RequestsAreAnswered
<1> QED
  BY <1>7, <1>8, <1>9, <1>10, <1>11, ServerParts

LEMMA ReceiveMalformedStep ==
  ASSUME ServerInv, NEW event \in batch, NEW p \in Peers, ReceiveMalformed(event, p)
  PROVE  ServerInv'
<1>1. KernelInv /\ DrainInv /\ BatchInv /\ RemoveInv /\ StepInv /\ RequestsAreAnswered
  BY KernelFacts, DrainFacts
<1>2. /\ EventOfClient(event) /\ table[event.token] = p /\ requests = <<>>
      /\ outbox' \in [Peers -> Seq(Requests)]
  BY ReceiveFacts DEF ReceiveMalformed
<1>3. /\ step = "draining" /\ event.token \in Fds /\ event.token \notin remove
      /\ batch' \subseteq batch /\ \A e \in batch' : e.token # event.token
  BY <1>2, EventFacts
<1>4. /\ AnswerPending(event.token, p)
      /\ UNCHANGED <<gone, backlog, accepts, requests, remove, step, owed, twice, heirs>>
  BY DEF ReceiveMalformed
<1>5. /\ KernelInv' /\ faulty \subseteq faulty'
      /\ \A g \in Fds : g # event.token => table'[g] = table[g]
  BY <1>1, <1>2, <1>3, <1>4, AnswerStep
<1>6. DrainInv' /\ StepInv' /\ RequestsAreAnswered'
  BY <1>1, <1>2, <1>3, <1>4 DEF DrainInv, StepInv, RequestsAreAnswered
<1>7. BatchInv'
  <2>1. ASSUME NEW e \in batch', e.token # LISTENER_TOKEN
        PROVE  table'[e.token] = table[e.token]
    BY <1>1, <1>3, <1>5, <2>1 DEF DrainInv, Tokens
  <2> QED
    BY <1>1, <1>3, <1>4, <2>1 DEF BatchInv, IsOpen
<1>8. RemoveInv'
  <2>1. \A fd \in remove : table'[fd] = table[fd]
    BY <1>1, <1>3, <1>5 DEF DrainInv
  <2> QED
    BY <1>1, <1>4, <1>5, <2>1 DEF RemoveInv, IsOpen
<1> QED
  BY <1>5, <1>6, <1>7, <1>8, ServerParts

LEMMA ReceiveGarbageStep ==
  ASSUME ServerInv, NEW event \in batch, NEW p \in Peers, ReceiveGarbage(event, p)
  PROVE  ServerInv'
<1>1. KernelInv /\ DrainInv /\ BatchInv /\ RemoveInv /\ StepInv /\ RequestsAreAnswered
  BY KernelFacts, DrainFacts
<1>2. /\ EventOfClient(event) /\ table[event.token] = p /\ requests = <<>>
      /\ outbox' \in [Peers -> Seq(Requests)]
  BY ReceiveFacts DEF ReceiveGarbage
<1> DEFINE fd == event.token
<1>3. /\ step = "draining" /\ fd \in Fds /\ fd \notin remove
      /\ batch' \subseteq batch /\ \A e \in batch' : e.token # fd
  BY <1>2, EventFacts
<1>4. /\ remove' = remove \cup {fd} /\ faulty' = faulty \cup {p}
      /\ UNCHANGED <<gone, backlog, accepts, requests, step, owed, heirs>>
  BY DEF ReceiveGarbage
<1> HIDE DEF fd
<1>5. /\ KernelInv'
      /\ \A g \in Fds : g # fd => table'[g] = table[g]
      /\ twice \subseteq twice' /\ twice' \subseteq twice \cup {fd}
      /\ table'[fd] = p \/ (table'[fd] = NoPeer /\ fd \in twice')
  <2>1. CASE CanSend(p)
    <3>1. /\ inbox' = [inbox EXCEPT ![p] = @ + 1]
          /\ UNCHANGED <<table, socket, twice>>
      BY <2>1 DEF ReceiveGarbage
    <3>2. inbox[p] + 1 \in 0 .. InboxSize
      BY <1>1, <2>1, ServerAssumption DEF CanSend, KernelInv
    <3>3. socket[p] = "open"
      BY <1>1, <1>2, <1>3, NumbersApart DEF KernelInv, TableInv, IsOpen, fd
    <3>4. inbox' \in [Peers -> 0 .. InboxSize]
      BY <1>1, <3>1, <3>2 DEF KernelInv
    <3>5. BacklogInv'
      BY <1>1, <1>4, <3>1, <3>3 DEF KernelInv, BacklogInv
    <3>6. KernelInv'
      BY <1>1, <1>4, <3>1, <3>4, <3>5 DEF KernelInv, TableInv, IsOpen, DroppedForCause
    <3> QED
      BY <1>2, <3>1, <3>6 DEF fd
  <2>2. CASE ~CanSend(p)
    <3>1. Close({fd}) /\ twice' = twice \cup {fd} /\ inbox' = inbox
      BY <2>2 DEF ReceiveGarbage, fd
    <3>2. /\ inbox' \in [Peers -> 0 .. InboxSize] /\ faulty' \subseteq Peers
          /\ faulty \subseteq faulty'
          /\ \A g \in {fd} : IsOpen(g) => table[g] \in faulty' \cup heirs
      BY <1>1, <1>2, <1>4, <3>1 DEF KernelInv, fd
    <3>3. /\ KernelInv'
          /\ \A g \in Fds : table'[g] = IF g \in {fd} THEN NoPeer ELSE table[g]
      BY <1>1, <1>3, <1>4, <3>1, <3>2, CloseStep
    <3> QED
      BY <1>3, <3>1, <3>3
  <2> QED
    BY <2>1, <2>2
<1>6. DrainInv' /\ StepInv' /\ RequestsAreAnswered'
  BY <1>1, <1>2, <1>3, <1>4, <1>5 DEF DrainInv, StepInv, RequestsAreAnswered
<1>7. BatchInv'
  <2>1. ASSUME NEW e \in batch', e.token # LISTENER_TOKEN
        PROVE  table'[e.token] = table[e.token]
    BY <1>1, <1>3, <1>5, <2>1 DEF DrainInv, Tokens
  <2> QED
    BY <1>1, <1>3, <1>4, <2>1 DEF BatchInv, IsOpen
<1>8. RemoveInv'
  <2>1. \A g \in remove : table'[g] = table[g]
    BY <1>1, <1>3, <1>5 DEF DrainInv
  <2>2. \A g \in remove' :
          IF table'[g] # NoPeer THEN table'[g] \in faulty' \cup heirs' ELSE g \in twice'
    <3> SUFFICES ASSUME NEW g \in remove'
                 PROVE  IF table'[g] # NoPeer THEN table'[g] \in faulty' \cup heirs'
                                               ELSE g \in twice'
      OBVIOUS
    <3>1. CASE g = fd
      BY <1>4, <1>5, <3>1, NumbersApart
    <3>2. CASE g \in remove
      BY <1>1, <1>4, <1>5, <2>1, <3>2 DEF RemoveInv, IsOpen
    <3> QED
      BY <1>4, <3>1, <3>2
  <2>3. \A i \in DOMAIN requests : requests[i].client \notin remove'
    BY <1>2
  <2> QED
    BY <1>4, <2>2, <2>3 DEF RemoveInv, IsOpen
<1> QED
  BY <1>5, <1>6, <1>7, <1>8, ServerParts

----------------------------------------------------------------------------
(* Between drains.                                                          *)

LEMMA DiscardedType ==
  ASSUME DrainInv, Discarded
  PROVE  outbox' \in [Peers -> Seq(Requests)]
<1>1. <<>> \in Seq(Requests)
  OBVIOUS
<1> QED
  BY <1>1 DEF DrainInv, Discarded

LEMMA EndDrainStep ==
  ASSUME ServerInv, EndDrain PROVE ServerInv'
<1>1. KernelInv /\ DrainInv /\ BatchInv /\ RemoveInv /\ StepInv /\ RequestsAreAnswered
  BY KernelFacts, DrainFacts
<1>2. /\ batch = {} /\ Close(remove) /\ Discarded /\ remove' = {} /\ twice' = {}
      /\ step' = IF requests = <<>> THEN "idle" ELSE "serving"
      /\ UNCHANGED <<gone, inbox, backlog, batch, accepts, requests, owed, faulty, heirs>>
  BY DEF EndDrain
<1>3. /\ remove \in SUBSET Fds
      /\ inbox' \in [Peers -> 0 .. InboxSize] /\ faulty' \subseteq Peers
      /\ faulty \subseteq faulty' /\ \A p \in Peers : inbox'[p] = inbox[p]
      /\ \A fd \in remove : IsOpen(fd) => table[fd] \in faulty' \cup heirs
  BY <1>1, <1>2 DEF KernelInv, DrainInv, RemoveInv
<1>4. /\ KernelInv'
      /\ \A fd \in Fds : table'[fd] = IF fd \in remove THEN NoPeer ELSE table[fd]
  BY <1>1, <1>2, <1>3, CloseStep
<1>5. DrainInv'
  BY <1>1, <1>2, DiscardedType DEF DrainInv
<1>6. BatchInv' /\ RemoveInv' /\ StepInv'
  BY <1>2 DEF BatchInv, RemoveInv, StepInv
<1>7. RequestsAreAnswered'
  <2>1. ASSUME NEW i \in DOMAIN requests
        PROVE  table'[requests[i].client] = table[requests[i].client]
    <3>1. requests[i].client \in Fds
      BY <1>1, <2>1, RequestFacts
    <3>2. requests[i].client \notin remove
      BY <1>1, <2>1 DEF RemoveInv
    <3> QED
      BY <1>4, <3>1, <3>2
  <2> QED
    BY <1>1, <1>2, <2>1 DEF RequestsAreAnswered
<1> QED
  BY <1>4, <1>5, <1>6, <1>7, ServerParts

LEMMA ServeStep ==
  ASSUME ServerInv, Serve PROVE ServerInv'
<1>1. KernelInv /\ DrainInv /\ BatchInv /\ RemoveInv /\ StepInv /\ RequestsAreAnswered
  BY KernelFacts, DrainFacts
<1> DEFINE r == Head(requests)
           p == r.from
<1>2. /\ step = "serving" /\ owed' = [owed EXCEPT ![p] = @ - 1]
      /\ AnswerPending(r.client, table[r.client])
      /\ requests' = <<>> /\ step' = "idle"
      /\ UNCHANGED <<gone, outbox, backlog, batch, accepts, remove, twice, heirs>>
      /\ requests # <<>> /\ batch = {} /\ remove = {}
  BY <1>1 DEF Serve, StepInv
<1>3. /\ Len(requests) = 1 /\ DOMAIN requests = {1} /\ r = requests[1]
      /\ r \in PendingRequest
  <2>1. Len(requests) = 1 /\ DOMAIN requests = {1} /\ Head(requests) = requests[1]
    BY <1>1, <1>2, RequestFacts
  <2>2. requests[1] \in PendingRequest
    BY <1>1, <2>1, RequestFacts
  <2> QED
    BY <2>1, <2>2
<1> HIDE DEF r
<1>4. r.client \in Fds /\ p \in Peers /\ table[r.client] = p
  BY <1>1, <1>3 DEF RequestsAreAnswered, PendingRequest
<1>5. KernelInv'
  BY <1>1, <1>2, <1>4, AnswerStep
<1>6. \A q \in Peers : owed[q] = IF q = p THEN 1 ELSE 0
  <2> SUFFICES ASSUME NEW q \in Peers PROVE owed[q] = IF q = p THEN 1 ELSE 0
    OBVIOUS
  <2>1. {i \in DOMAIN requests : requests[i].from = q} = IF q = p THEN {1} ELSE {}
    BY <1>3
  <2>2. Cardinality({1}) = 1 /\ Cardinality({}) = 0
    BY FS_Singleton, FS_EmptySet
  <2>3. owed[q] = Cardinality({i \in DOMAIN requests : requests[i].from = q})
    BY <1>1 DEF RequestsAreAnswered
  <2> QED
    BY <2>1, <2>2, <2>3
<1>7. \A q \in Peers : owed'[q] = 0
  BY <1>1, <1>2, <1>4, <1>6 DEF DrainInv
<1>8. DrainInv'
  <2>1. owed' \in [Peers -> 0 .. 1]
    <3>1. owed' = [q \in Peers |-> owed'[q]]
      BY <1>1, <1>2 DEF DrainInv
    <3> QED
      BY <1>7, <3>1
  <2>2. <<>> \in Seq(PendingRequest) /\ Len(<<>>) = 0
    OBVIOUS
  <2> QED
    BY <1>1, <1>2, <2>1, <2>2 DEF DrainInv
<1>9. BatchInv' /\ RemoveInv' /\ StepInv'
  BY <1>2 DEF BatchInv, RemoveInv, StepInv
<1>10. RequestsAreAnswered'
  <2>1. \A q \in Peers : {i \in DOMAIN requests' : requests'[i].from = q} = {}
    BY <1>2
  <2>2. Cardinality({}) = 0
    BY FS_EmptySet
  <2> QED
    BY <1>2, <1>7, <2>1, <2>2 DEF RequestsAreAnswered
<1> QED
  BY <1>5, <1>8, <1>9, <1>10, ServerParts

LEMMA PublishStateStep ==
  ASSUME ServerInv, PublishState PROVE ServerInv'
<1>1. KernelInv /\ DrainInv /\ BatchInv /\ RemoveInv /\ StepInv /\ RequestsAreAnswered
  BY KernelFacts, DrainFacts
<1> DEFINE failed == {fd \in Registered : ~CanSend(table[fd])}
           told == {table[fd] : fd \in Registered \ failed}
<1>2. /\ step = "idle" /\ Close(failed) /\ Discarded
      /\ inbox' = [p \in Peers |-> IF p \in told THEN inbox[p] + 1 ELSE inbox[p]]
      /\ faulty' = faulty \cup {table[fd] : fd \in failed}
      /\ UNCHANGED <<gone, backlog, batch, accepts, requests, remove, step, owed, twice,
                     heirs>>
      /\ batch = {} /\ remove = {} /\ requests = <<>>
  BY <1>1 DEF PublishState, StepInv
<1>3. /\ failed \in SUBSET Fds /\ \A fd \in failed : table[fd] \in Peers
      /\ \A p \in told : p \in Peers /\ socket[p] = "open" /\ CanSend(p)
  BY <1>1 DEF KernelInv, TableInv, Registered, IsOpen
<1> HIDE DEF failed, told
<1>4. inbox' \in [Peers -> 0 .. InboxSize]
  <2>1. \A p \in Peers : p \in told => inbox[p] + 1 \in 0 .. InboxSize
    BY <1>1, <1>3, ServerAssumption DEF KernelInv, CanSend
  <2> QED
    BY <1>1, <1>2, <2>1 DEF KernelInv
<1>5. /\ \A p \in Peers : inbox'[p] # inbox[p] => socket[p] = "open"
      /\ faulty \subseteq faulty' /\ faulty' \subseteq Peers
      /\ \A fd \in failed : IsOpen(fd) => table[fd] \in faulty' \cup heirs
  BY <1>1, <1>2, <1>3 DEF KernelInv
<1>6. KernelInv'
  BY <1>1, <1>2, <1>3, <1>4, <1>5, CloseStep
<1>7. DrainInv'
  BY <1>1, <1>2, DiscardedType DEF DrainInv
<1>8. BatchInv' /\ RemoveInv' /\ StepInv' /\ RequestsAreAnswered'
  BY <1>1, <1>2 DEF BatchInv, RemoveInv, StepInv, RequestsAreAnswered
<1> QED
  BY <1>6, <1>7, <1>8, ServerParts

----------------------------------------------------------------------------
(* The theorems.                                                            *)

LEMMA ServerInvInit ==
  ServerInit => ServerInv
<1> SUFFICES ASSUME ServerInit PROVE ServerInv
  OBVIOUS
<1>1. <<>> \in Seq(Requests) /\ <<>> \in Seq(Peers) /\ DOMAIN <<>> = {} /\ Len(<<>>) = 0
      /\ <<>> \in Seq(PendingRequest)
  OBVIOUS
<1>2. 0 \in 0 .. InboxSize /\ 0 \in 0 .. MaxAcceptsPerWake /\ 0 \in 0 .. 1
  BY ServerAssumption
<1>3. ServerTypeOK
  BY <1>1, <1>2 DEF ServerInit, ServerTypeOK
<1>4. \A p \in Peers : {i \in DOMAIN requests : requests[i].from = p} = {}
  BY <1>1 DEF ServerInit
<1>5. Cardinality({}) = 0
  BY FS_EmptySet
<1>6. ClientsGetTheirDue
  BY <1>1, <1>4, <1>5 DEF ServerInit, ClientsGetTheirDue, DroppedForCause,
     RequestsAreAnswered
<1>7. \A fd \in Fds : ~IsOpen(fd)
  BY DEF ServerInit, IsOpen
<1>8. BacklogInv /\ TableInv /\ BatchInv /\ RemoveInv /\ StepInv
  BY <1>1, <1>7 DEF ServerInit, BacklogInv, TableInv, BatchInv, RemoveInv, StepInv
<1> QED
  BY <1>3, <1>6, <1>8 DEF ServerInv, ServerInit

LEMMA ServerInvStep ==
  ServerInv /\ [ServerNext]_serverVars => ServerInv'
<1> SUFFICES ASSUME ServerInv, [ServerNext]_serverVars PROVE ServerInv'
  OBVIOUS
<1>1. CASE \E p \in Peers : Connect(p)
  BY <1>1, ConnectStep
<1>2. CASE \E p \in Peers : SendPacket(p) \/ Receive(p) \/ HangUp(p)
  BY <1>2, PeerStep
<1>3. CASE \E p \in Peers : RefuseBusy(p) \/ GreetingFails(p)
  BY <1>3, RefuseStep
<1>4. CASE \E p \in Peers : Greet(p)
  BY <1>4, GreetStep
<1>5. CASE \E event \in batch : \/ NoteHangUp(event) \/ Defer(event) \/ BeginAccept(event)
                                \/ \E p \in Peers : ReceiveFails(event, p)
  BY <1>5, SkipStep
<1>6. CASE \E event \in batch : \E p \in Peers : ReceiveRequest(event, p)
  BY <1>6, ReceiveRequestStep
<1>7. CASE \E event \in batch : \E p \in Peers : ReceiveMalformed(event, p)
  BY <1>7, ReceiveMalformedStep
<1>8. CASE \E event \in batch : \E p \in Peers : ReceiveGarbage(event, p)
  BY <1>8, ReceiveGarbageStep
<1>9. CASE Wait \/ EndAccept \/ Interrupted
  BY <1>9, WaitStep
<1>14. CASE Fails
  BY <1>14, FailsStep
<1>15. CASE \E event \in batch : \E p \in Peers : ReceiveEmpty(event, p)
  BY <1>15, ReceiveEmptyStep
<1>10. CASE EndDrain
  BY <1>10, EndDrainStep
<1>11. CASE Serve
  BY <1>11, ServeStep
<1>12. CASE PublishState
  BY <1>12, PublishStateStep
<1>13. CASE UNCHANGED serverVars
  <2>1. UNCHANGED <<kernelVars, drainVars, serverHistory>>
    BY <1>13 DEF serverVars
  <2>2. /\ UNCHANGED <<socket, gone, outbox, inbox, backlog, table, batch, accepts>>
        /\ UNCHANGED <<requests, remove, step, owed, faulty, twice, heirs>>
    BY <2>1 DEF kernelVars, drainVars, serverHistory
  <2>3. KernelInv' /\ DrainInv'
    BY <2>2, KernelFacts, DrainFacts DEF KernelInv, BacklogInv, TableInv, IsOpen,
       DroppedForCause, DrainInv
  <2>4. BatchInv' /\ RemoveInv' /\ StepInv' /\ RequestsAreAnswered'
    BY <2>2, DrainFacts DEF BatchInv, RemoveInv, StepInv, RequestsAreAnswered, IsOpen
  <2> QED
    BY <2>3, <2>4, ServerParts
<1> QED
  BY <1>1, <1>2, <1>3, <1>4, <1>5, <1>6, <1>7, <1>8, <1>9, <1>10, <1>11, <1>12, <1>13,
     <1>14, <1>15 DEF ServerNext

\* The invariant: who is in the table, in the batch and on the list of those to
\* be removed.
THEOREM ServerInvariant == ServerSpec => []ServerInv
<1> QED
  BY ServerInvInit, ServerInvStep, PTL DEF ServerSpec

\* A client loses its connection for a cause of its own, or with a descriptor it
\* inherits in the one way described; and a request is answered to its sender,
\* whatever clients do while a batch of events is walked over, in any order.
THEOREM ClientsServed == ServerSpec => []ClientsGetTheirDue
<1>1. ServerInv => ClientsGetTheirDue
  BY DEF ServerInv
<1> QED
  BY <1>1, ServerInvariant, PTL

----------------------------------------------------------------------------
(* The promise: descriptors stand for connections, one to one.              *)

\* Every client that is served is in the table, and a close that is put off
\* and done already is on the list of closes.
TableIsFull ==
  /\ \A p \in Peers : socket[p] = "open" => \E fd \in Fds : table[fd] = p
  /\ twice \subseteq remove

PromiseInv == ServerInv /\ TableIsFull

\* Counting is the same in both modules.
LEMMA SameCount ==
  ASSUME NEW S
  PROVE  Promise!Cardinality(S) = Cardinality(S)
BY DEF Promise!Cardinality, Cardinality

\* The limit on descriptors in use is a limit on clients served.
LEMMA ServedCount ==
  ASSUME PromiseInv
  PROVE  /\ IsFiniteSet(Registered) /\ Cardinality(Registered) \in Nat
         /\ Cardinality(Promise!Served) = Cardinality(Registered)
<1>1. IsFiniteSet(Registered) /\ Cardinality(Registered) \in Nat
  <2>1. Registered \in SUBSET Fds
    BY DEF Registered
  <2> QED
    BY <2>1, NumbersApart, FS_Subset, FS_CardinalityType
<1> DEFINE f == [fd \in Registered |-> table[fd]]
<1>2. KernelInv
  BY KernelFacts DEF PromiseInv
<1>3. \A fd \in Registered : fd \in Fds /\ table[fd] \in Promise!Served
  BY <1>2 DEF KernelInv, TableInv, Registered, IsOpen, Promise!Served
<1>4. \A p \in Promise!Served : \E fd \in Registered : table[fd] = p
  <2> SUFFICES ASSUME NEW p \in Promise!Served PROVE \E fd \in Registered : table[fd] = p
    OBVIOUS
  <2>1. p \in Peers /\ socket[p] = "open"
    BY DEF Promise!Served
  <2>2. PICK fd \in Fds : table[fd] = p
    BY <2>1 DEF PromiseInv, TableIsFull
  <2>3. fd \in Registered
    BY <2>1, <2>2, NumbersApart DEF Registered, IsOpen
  <2> QED
    BY <2>2, <2>3
<1>5. \A fd, g \in Registered : table[fd] = table[g] => fd = g
  BY <1>2 DEF KernelInv, TableInv, Registered, IsOpen
<1>6. /\ f \in [Registered -> Promise!Served]
      /\ \A fd, g \in Registered : f[fd] = f[g] => fd = g
      /\ \A p \in Promise!Served : \E fd \in Registered : f[fd] = p
  BY <1>3, <1>4, <1>5
<1> HIDE DEF f
<1>7. ExistsBijection(Registered, Promise!Served)
  BY <1>6, Fun_IsBij, Fun_ExistsBij
<1> QED
  BY <1>1, <1>7, FS_Bijection

\* Loose ends are counted, and there are none when nothing is to be closed.
LEMMA LooseCount ==
  ASSUME PromiseInv
  PROVE  /\ IsFiniteSet(LooseEnds) /\ Cardinality(LooseEnds) \in Nat
         /\ remove = {} => Cardinality(LooseEnds) = 0 /\ Doomed = {}
         /\ \A fd \in LooseEnds : Cardinality(LooseEnds) > 0
<1>1. IsFiniteSet(LooseEnds) /\ Cardinality(LooseEnds) \in Nat
  <2>1. LooseEnds \in SUBSET Fds
    BY DEF LooseEnds, PromiseInv, ServerInv, ServerTypeOK
  <2> QED
    BY <2>1, NumbersApart, FS_Subset, FS_CardinalityType
<1>2. Cardinality(LooseEnds) = 0 <=> LooseEnds = {}
  BY <1>1, FS_EmptySet
<1>3. remove = {} => LooseEnds = {} /\ Doomed = {}
  BY DEF PromiseInv, TableIsFull, LooseEnds, Doomed
<1>4. LooseEnds # {} => Cardinality(LooseEnds) > 0
  BY <1>1, <1>2
<1> QED
  BY <1>1, <1>2, <1>3, <1>4

\* Without a change to the table or to the lists, ControlClients sees none.
LEMMA SameLists ==
  ASSUME UNCHANGED <<table, remove, twice>>
  PROVE  Doomed' = Doomed /\ LooseEnds' = LooseEnds
BY DEF Doomed, LooseEnds, IsOpen

\* A client whose descriptor is closed at once is one whose connection ends.
LEMMA CloseOne ==
  ASSUME KernelInv, NEW fd \in Fds, NEW p \in Peers, table[fd] = p, Close({fd})
  PROVE  /\ socket' = [socket EXCEPT ![p] = "closed"]
         /\ \A g \in Fds : table'[g] = IF g = fd THEN NoPeer ELSE table[g]
<1>1. \A q \in Peers : (\E g \in {fd} : table[g] = q) <=> q = p
  OBVIOUS
<1>2. socket' = [q \in Peers |-> IF q = p THEN "closed" ELSE socket[q]]
  BY <1>1 DEF Close
<1>3. \A g \in Fds : table'[g] = IF g = fd THEN NoPeer ELSE table[g]
  BY DEF Close
<1> QED
  BY <1>2, <1>3 DEF KernelInv

(* The steps, one by one.                                                   *)

LEMMA ClientMapping ==
  ASSUME PromiseInv, NEW p \in Peers,
         Connect(p) \/ SendPacket(p) \/ Receive(p) \/ HangUp(p)
  PROVE  /\ TableIsFull'
         /\ Promise!Connect(p) \/ Promise!Send(p) \/ Promise!Read(p) \/ Promise!Leave(p)
<1>1. KernelInv /\ DrainInv /\ TableIsFull
  BY KernelFacts, DrainFacts DEF PromiseInv
<1>2. Doomed' = Doomed /\ LooseEnds' = LooseEnds
  BY SameLists DEF Connect, SendPacket, Receive, HangUp, drainVars, serverHistory
<1>3. CASE Connect(p)
  <2>1. /\ socket[p] = "none" /\ socket' = [socket EXCEPT ![p] = "backlog"]
        /\ UNCHANGED <<gone, outbox, inbox, table, owed, twice, remove>>
    BY <1>3 DEF Connect, drainVars, serverHistory
  <2>2. \A q \in Peers : socket'[q] = IF q = p THEN "backlog" ELSE socket[q]
    BY <1>1, <2>1 DEF KernelInv
  <2>3. Sent' = Sent
    BY <2>1, <2>2 DEF Sent
  <2>4. TableIsFull'
    BY <1>1, <2>1, <2>2 DEF TableIsFull
  <2> QED
    BY <1>2, <2>1, <2>3, <2>4 DEF Promise!Connect
<1>4. CASE SendPacket(p)
  <2>1. /\ socket[p] \in {"backlog", "open"} /\ p \notin gone
        /\ UNCHANGED <<socket, gone, inbox, table, owed, twice, remove>>
    BY <1>4 DEF SendPacket, drainVars, serverHistory
  <2>2. PICK r \in Requests : outbox' = [outbox EXCEPT ![p] = Append(@, r)]
    BY <1>4 DEF SendPacket
  <2>3. Sent' = [Sent EXCEPT ![p] = Append(@, r)]
    BY <1>1, <2>1, <2>2 DEF Sent, DrainInv
  <2>4. TableIsFull'
    BY <1>1, <2>1 DEF TableIsFull
  <2> QED
    BY <1>2, <2>1, <2>3, <2>4 DEF Promise!Send
<1>5. CASE Receive(p)
  <2>1. /\ socket[p] = "open" /\ p \notin gone /\ inbox' = [inbox EXCEPT ![p] = 0]
        /\ UNCHANGED <<socket, gone, outbox, table, owed, twice, remove>>
    BY <1>5 DEF Receive, drainVars, serverHistory
  <2>2. Sent' = Sent
    BY <2>1 DEF Sent
  <2>3. TableIsFull'
    BY <1>1, <2>1 DEF TableIsFull
  <2> QED
    BY <1>2, <2>1, <2>2, <2>3 DEF Promise!Read
<1>6. CASE HangUp(p)
  <2>1. /\ socket[p] \in {"backlog", "open"} /\ gone' = gone \cup {p}
        /\ UNCHANGED <<socket, outbox, inbox, table, owed, twice, remove>>
    BY <1>6 DEF HangUp, drainVars
  <2>2. Sent' = Sent
    BY <2>1 DEF Sent
  <2>3. TableIsFull'
    BY <1>1, <2>1 DEF TableIsFull
  <2> QED
    BY <1>2, <2>1, <2>2, <2>3 DEF Promise!Leave
<1> QED
  BY <1>3, <1>4, <1>5, <1>6

\* The two ways not to be served are one: no room, or no greeting.
LEMMA RefuseMapping ==
  ASSUME PromiseInv, NEW p \in Peers, RefuseBusy(p) \/ GreetingFails(p)
  PROVE  TableIsFull' /\ Promise!TurnAway(p)
<1>1. KernelInv /\ DrainInv /\ TableIsFull /\ socket[p] = "backlog"
  BY KernelFacts, DrainFacts, AcceptFacts DEF PromiseInv, RefuseBusy, GreetingFails
<1>2. /\ socket' = [socket EXCEPT ![p] = "closed"]
      /\ outbox' = [outbox EXCEPT ![p] = <<>>]
      /\ UNCHANGED <<gone, table, remove, owed, twice>>
      /\ Full \/ ~CanSend(p)
      /\ inbox' = IF CanSend(p) THEN [inbox EXCEPT ![p] = @ + 1] ELSE inbox
  BY DEF RefuseBusy, GreetingFails, serverHistory
<1>3. \A q \in Peers : socket'[q] = IF q = p THEN "closed" ELSE socket[q]
  BY <1>1, <1>2 DEF KernelInv
<1>4. Sent' = [Sent EXCEPT ![p] = <<>>]
  BY <1>1, <1>2, <1>3 DEF Sent, DrainInv
<1>5. Doomed' = Doomed /\ LooseEnds' = LooseEnds
  BY <1>2, SameLists
<1>6. Promise!Cardinality(Promise!Served) \geq MaxControlClients \/ ~Promise!Reachable(p)
  BY <1>2, ServedCount, SameCount DEF Full, CanSend, Promise!Reachable
<1>7. CanSend(p) <=> Promise!Reachable(p)
  BY DEF CanSend, Promise!Reachable
<1>8. TableIsFull'
  BY <1>1, <1>2, <1>3 DEF TableIsFull
<1> QED
  BY <1>1, <1>2, <1>4, <1>5, <1>6, <1>7, <1>8 DEF Promise!TurnAway

\* A client greeted on a descriptor that is on the list inherits its close.
LEMMA GreetMapping ==
  ASSUME PromiseInv, NEW p \in Peers, Greet(p)
  PROVE  TableIsFull' /\ Promise!Admit(p)
<1>1. KernelInv /\ DrainInv /\ RemoveInv /\ TableIsFull
  BY KernelFacts, DrainFacts DEF PromiseInv
<1>2. /\ ~Full /\ CanSend(p) /\ Accepts(p)
      /\ inbox' = [inbox EXCEPT ![p] = @ + 1]
      /\ socket' = [socket EXCEPT ![p] = "open"]
      /\ UNCHANGED <<gone, outbox, remove, owed, twice>>
  BY DEF Greet
<1> DEFINE new == Free
<1>3. new \in Fds /\ ~IsOpen(new) /\ table' = [table EXCEPT ![new] = p]
  BY <1>2, FreeDescriptor DEF Greet
<1> HIDE DEF new
<1>4. socket[p] = "backlog"
  BY <1>1, <1>2, AcceptFacts
<1>5. \A fd \in Fds : table'[fd] = IF fd = new THEN p ELSE table[fd]
  BY <1>1, <1>3 DEF KernelInv
<1>6. \A q \in Peers : socket'[q] = IF q = p THEN "open" ELSE socket[q]
  BY <1>1, <1>2 DEF KernelInv
<1>7. TableIsFull'
  <2> SUFFICES ASSUME NEW q \in Peers, socket'[q] = "open"
               PROVE  \E fd \in Fds : table'[fd] = q
    BY <1>1, <1>2 DEF TableIsFull
  <2>1. CASE q = p
    BY <1>3, <1>5, <2>1
  <2>2. CASE q # p
    <3>1. PICK fd \in Fds : table[fd] = q
      BY <1>1, <1>6, <2>2 DEF TableIsFull
    <3>2. fd # new
      BY <1>3, <3>1, NumbersApart DEF IsOpen
    <3> QED
      BY <1>5, <3>1, <3>2
  <2> QED
    BY <2>1, <2>2
<1>8. Sent' = Sent
  BY <1>2, <1>4, <1>6 DEF Sent
<1>9. /\ p \notin gone /\ inbox[p] < InboxSize
      /\ Promise!Cardinality(Promise!Served) < MaxControlClients
  BY <1>2, ServedCount, SameCount, ServerAssumption DEF Full, CanSend
<1>10. remove \subseteq Fds /\ twice \subseteq Fds
  BY <1>1 DEF DrainInv
<1>11. CASE new \in remove
  <2>1. new \in twice /\ new \in LooseEnds
    BY <1>1, <1>3, <1>11 DEF RemoveInv, LooseEnds
  <2>2. Doomed' = Doomed \cup {p}
    BY <1>1, <1>2, <1>3, <1>5, <1>10, <1>11, NumbersApart DEF Doomed, IsOpen
  <2>3. LooseEnds' = LooseEnds \ {new}
    BY <1>2, <1>5, <1>10, NumbersApart DEF LooseEnds, IsOpen
  <2>4. Cardinality(LooseEnds) > 0 /\ Cardinality(LooseEnds)' = Cardinality(LooseEnds) - 1
    BY <2>1, <2>3, LooseCount, FS_RemoveElement
  <2> QED
    BY <1>2, <1>4, <1>7, <1>8, <1>9, <2>2, <2>4 DEF Promise!Admit, Promise!Reachable
<1>12. CASE new \notin remove
  <2>1. Doomed' = Doomed
    BY <1>2, <1>5, <1>10, <1>12 DEF Doomed
  <2>2. LooseEnds' = LooseEnds
    BY <1>1, <1>2, <1>5, <1>10, <1>12 DEF LooseEnds, IsOpen, TableIsFull
  <2> QED
    BY <1>2, <1>4, <1>7, <1>8, <1>9, <2>1, <2>2 DEF Promise!Admit, Promise!Reachable
<1> QED
  BY <1>11, <1>12

\* What the drain knows of the client of an event, as ControlClients sees it.
LEMMA EventClient ==
  ASSUME PromiseInv, NEW event \in batch, EventOfClient(event),
         NEW p \in Peers, table[event.token] = p
  PROVE  /\ socket[p] = "open" /\ p \notin Doomed /\ owed[p] = 0
         /\ event.token \in Fds /\ event.token \notin remove /\ event.token \notin twice
<1>1. KernelInv /\ DrainInv /\ RequestsAreAnswered /\ TableIsFull
  BY KernelFacts, DrainFacts DEF PromiseInv
<1>2. /\ event.token \in Fds /\ IsOpen(event.token) /\ event.token \notin remove
      /\ \A i \in DOMAIN requests : requests[i].client # event.token
  BY EventFacts DEF PromiseInv
<1>3. socket[p] = "open"
  BY <1>1, <1>2 DEF KernelInv, TableInv
<1>4. \A fd \in Fds : table[fd] = p => fd = event.token
  BY <1>1, <1>2 DEF KernelInv, TableInv, IsOpen
<1>5. p \notin Doomed
  BY <1>1, <1>2, <1>4 DEF Doomed, DrainInv
<1>6. owed[p] = 0
  <2>1. ASSUME NEW i \in DOMAIN requests, requests[i].from = p PROVE FALSE
    <3>1. requests[i].client \in Fds /\ table[requests[i].client] = p
      BY <1>1, <2>1, RequestFacts DEF RequestsAreAnswered
    <3> QED
      BY <1>2, <1>4, <3>1
  <2>2. {i \in DOMAIN requests : requests[i].from = p} = {}
    BY <2>1
  <2> QED
    BY <1>1, <2>2, FS_EmptySet DEF RequestsAreAnswered
<1> QED
  BY <1>1, <1>2, <1>3, <1>5, <1>6 DEF TableIsFull

LEMMA DoomMapping ==
  ASSUME PromiseInv, NEW event \in batch,
         NoteHangUp(event) \/ \E p \in Peers : ReceiveFails(event, p)
  PROVE  TableIsFull' /\ \E p \in Peers : Promise!Doom(p)
<1>1. /\ EventOfClient(event) /\ remove' = remove \cup {event.token}
      /\ UNCHANGED <<socket, gone, outbox, inbox, table, owed, twice>>
  BY DEF NoteHangUp, ReceiveFails, MayReceive, kernelVars, serverHistory
<1> DEFINE p == table[event.token]
<1>2. /\ p \in Peers
      /\ "HUP" \in event.flags => p \in gone
      /\ event.token \in Fds /\ IsOpen(event.token)
  BY <1>1, EventFacts DEF PromiseInv
<1>3. p \in gone
  BY <1>2 DEF NoteHangUp, ReceiveFails, Reset
<1>4. socket[p] = "open" /\ owed[p] = 0
  BY <1>1, <1>2, EventClient
<1>5. Sent' = Sent
  BY <1>1 DEF Sent
<1>6. Doomed' = Doomed \cup {p}
  BY <1>1, <1>2 DEF Doomed
<1>7. LooseEnds' = LooseEnds
  BY <1>1 DEF LooseEnds, IsOpen
<1>8. TableIsFull'
  BY <1>1 DEF PromiseInv, TableIsFull
<1> QED
  BY <1>1, <1>2, <1>3, <1>4, <1>5, <1>6, <1>7, <1>8 DEF Promise!Doom

\* A packet received is the next one of its client, and nothing else is owed.
LEMMA TakesFacts ==
  ASSUME PromiseInv, NEW event \in batch, NEW p \in Peers, NEW kind,
         Receives(event, p, kind)
  PROVE  /\ Promise!Takes(p, kind) /\ EventOfClient(event)
         /\ table[event.token] = p /\ socket[p] = "open" /\ owed[p] = 0
         /\ event.token \in Fds /\ event.token \notin remove /\ event.token \notin twice
         /\ outbox' = [outbox EXCEPT ![p] = Tail(@)] /\ Sent[p] = outbox[p]
<1>1. DrainInv /\ RequestsAreAnswered
  BY DrainFacts DEF PromiseInv
<1>2. /\ EventOfClient(event) /\ requests = <<>> /\ table[event.token] = p
      /\ outbox[p] # <<>> /\ Head(outbox[p]) = kind
      /\ outbox' = [outbox EXCEPT ![p] = Tail(@)]
  BY DEF Receives, MayReceive
<1>3. /\ socket[p] = "open" /\ p \notin Doomed /\ owed[p] = 0
      /\ event.token \in Fds /\ event.token \notin remove /\ event.token \notin twice
  BY <1>2, EventClient
<1>4. Sent[p] = outbox[p]
  BY <1>3 DEF Sent
<1>5. Promise!NothingOwed
  BY <1>1, <1>2, NoRequest DEF Promise!NothingOwed
<1> QED
  BY <1>2, <1>3, <1>4, <1>5 DEF Promise!Takes

LEMMA EmptyMapping ==
  ASSUME PromiseInv, NEW event \in batch, NEW p \in Peers, ReceiveEmpty(event, p)
  PROVE  TableIsFull' /\ Promise!TakeEmpty(p)
<1>1. /\ Promise!Takes(p, "garbage") /\ table[event.token] = p /\ event.token \in Fds
      /\ outbox' = [outbox EXCEPT ![p] = Tail(@)]
  BY TakesFacts DEF ReceiveEmpty
<1>2. /\ remove' = remove \cup {event.token}
      /\ UNCHANGED <<socket, gone, inbox, table, owed, twice>>
  BY DEF ReceiveEmpty
<1>3. Sent' = [Sent EXCEPT ![p] = Tail(@)]
  BY <1>1, <1>2, TakesFacts, DrainFacts DEF ReceiveEmpty, Sent, DrainInv, PromiseInv
<1>4. Doomed' = Doomed \cup {p}
  BY <1>1, <1>2 DEF Doomed
<1>5. LooseEnds' = LooseEnds
  BY <1>2 DEF LooseEnds, IsOpen
<1>6. TableIsFull'
  BY <1>2 DEF PromiseInv, TableIsFull
<1> QED
  BY <1>1, <1>2, <1>3, <1>4, <1>5, <1>6 DEF Promise!TakeEmpty

\* All connections end together.
LEMMA EndMapping ==
  ASSUME PromiseInv, Fails
  PROVE  TableIsFull' /\ Promise!End
<1>1. /\ socket' = [p \in Peers |-> IF socket[p] \in {"backlog", "open"} THEN "ended"
                                   ELSE socket[p]]
      /\ outbox' = [p \in Peers |-> <<>>] /\ owed' = [p \in Peers |-> 0]
      /\ remove' = {} /\ twice' = {} /\ UNCHANGED <<gone, inbox>>
  BY DEF Fails
<1>2. Doomed' = {} /\ LooseEnds' = {}
  BY <1>1 DEF Doomed, LooseEnds
<1>3. Cardinality(LooseEnds)' = 0
  BY <1>2, FS_EmptySet
<1>4. Sent' = [p \in Peers |-> <<>>]
  BY <1>1 DEF Sent
<1>5. TableIsFull'
  BY <1>1 DEF TableIsFull
<1> QED
  BY <1>1, <1>2, <1>3, <1>4, <1>5 DEF Promise!End

LEMMA RequestMapping ==
  ASSUME PromiseInv, NEW event \in batch, NEW p \in Peers, ReceiveRequest(event, p)
  PROVE  TableIsFull' /\ Promise!TakeRequest(p)
<1>1. /\ Promise!Takes(p, "request") /\ socket[p] = "open" /\ owed[p] = 0
      /\ outbox' = [outbox EXCEPT ![p] = Tail(@)]
  BY TakesFacts DEF ReceiveRequest
<1>2. /\ owed' = [owed EXCEPT ![p] = @ + 1]
      /\ UNCHANGED <<socket, gone, inbox, table, remove, twice>>
  BY DEF ReceiveRequest
<1>3. owed' = [owed EXCEPT ![p] = 1]
  BY <1>1, <1>2
<1>4. Sent' = [Sent EXCEPT ![p] = Tail(@)]
  BY <1>1, <1>2, DrainFacts DEF Sent, DrainInv, PromiseInv
<1>5. Doomed' = Doomed /\ LooseEnds' = LooseEnds
  BY <1>2, SameLists
<1>6. TableIsFull'
  BY <1>2 DEF PromiseInv, TableIsFull
<1> QED
  BY <1>1, <1>2, <1>3, <1>4, <1>5, <1>6 DEF Promise!TakeRequest

\* A client that is open keeps its descriptor when that of another is closed.
LEMMA OneLess ==
  ASSUME PromiseInv, NEW fd \in Fds, NEW p \in Peers, table[fd] = p,
         Close({fd}), remove \subseteq remove', twice' \subseteq remove'
  PROVE  TableIsFull'
<1>1. KernelInv /\ TableIsFull
  BY KernelFacts DEF PromiseInv
<1>2. /\ socket' = [socket EXCEPT ![p] = "closed"]
      /\ \A g \in Fds : table'[g] = IF g = fd THEN NoPeer ELSE table[g]
  BY <1>1, CloseOne
<1> SUFFICES ASSUME NEW q \in Peers, socket'[q] = "open" PROVE \E g \in Fds : table'[g] = q
  BY DEF TableIsFull
<1>3. q # p /\ socket[q] = "open"
  BY <1>1, <1>2 DEF KernelInv
<1>4. PICK g \in Fds : table[g] = q
  BY <1>1, <1>3 DEF TableIsFull
<1> QED
  BY <1>2, <1>3, <1>4

LEMMA MalformedMapping ==
  ASSUME PromiseInv, NEW event \in batch, NEW p \in Peers, ReceiveMalformed(event, p)
  PROVE  TableIsFull' /\ Promise!TakeMalformed(p)
<1>1. KernelInv /\ DrainInv /\ TableIsFull
  BY KernelFacts, DrainFacts DEF PromiseInv
<1> DEFINE fd == event.token
<1>2. /\ Promise!Takes(p, "malformed") /\ table[fd] = p /\ socket[p] = "open"
      /\ fd \in Fds /\ fd \notin remove /\ fd \notin twice
      /\ outbox' = [outbox EXCEPT ![p] = Tail(@)] /\ Sent[p] = outbox[p]
  BY TakesFacts DEF ReceiveMalformed
<1>3. AnswerPending(fd, p) /\ UNCHANGED <<gone, remove, owed, twice>>
  BY DEF ReceiveMalformed
<1> HIDE DEF fd
<1>4. CASE CanSend(p)
  <2>1. inbox' = [inbox EXCEPT ![p] = @ + 1] /\ UNCHANGED <<table, socket>>
    BY <1>3, <1>4 DEF AnswerPending
  <2>2. Sent' = [Sent EXCEPT ![p] = Tail(outbox[p])]
    BY <1>1, <1>2, <2>1 DEF Sent, DrainInv
  <2>3. Promise!Told(p, Tail(Sent[p]))
    BY <1>2, <1>4, <2>1, <2>2 DEF Promise!Told, Promise!Reachable, CanSend
  <2>4. Doomed' = Doomed /\ LooseEnds' = LooseEnds /\ TableIsFull'
    BY <1>1, <1>3, <2>1, SameLists DEF TableIsFull
  <2> QED
    BY <1>2, <1>3, <2>3, <2>4 DEF Promise!TakeMalformed
<1>5. CASE ~CanSend(p)
  <2>1. Close({fd}) /\ inbox' = inbox
    BY <1>3, <1>5 DEF AnswerPending
  <2>2. /\ socket' = [socket EXCEPT ![p] = "closed"]
        /\ \A g \in Fds : table'[g] = IF g = fd THEN NoPeer ELSE table[g]
    BY <1>1, <1>2, <2>1, CloseOne
  <2>3. Sent' = [Sent EXCEPT ![p] = <<>>]
    BY <1>1, <1>2, <2>2 DEF Sent, DrainInv, KernelInv
  <2>4. Promise!Told(p, Tail(Sent[p]))
    BY <1>5, <2>1, <2>2, <2>3 DEF Promise!Told, Promise!Reachable, CanSend
  <2>5. Doomed' = Doomed /\ LooseEnds' = LooseEnds
    <3>1. \A g \in remove : table'[g] = table[g]
      BY <1>1, <1>2, <2>2 DEF DrainInv
    <3>2. \A g \in twice : table'[g] = table[g]
      BY <1>1, <3>1 DEF TableIsFull
    <3> QED
      BY <1>3, <3>1, <3>2 DEF Doomed, LooseEnds, IsOpen
  <2>6. TableIsFull'
    <3>1. remove \subseteq remove' /\ twice' \subseteq remove'
      BY <1>1, <1>3 DEF TableIsFull
    <3> QED
      BY <1>2, <2>1, <3>1, OneLess
  <2> QED
    BY <1>2, <1>3, <2>4, <2>5, <2>6 DEF Promise!TakeMalformed
<1> QED
  BY <1>4, <1>5

\* Garbage: the client is doomed, or is closed and leaves a loose end.
LEMMA GarbageMapping ==
  ASSUME PromiseInv, NEW event \in batch, NEW p \in Peers, ReceiveGarbage(event, p)
  PROVE  TableIsFull' /\ Promise!TakeGarbage(p)
<1>1. KernelInv /\ DrainInv /\ TableIsFull
  BY KernelFacts, DrainFacts DEF PromiseInv
<1> DEFINE fd == event.token
<1>2. /\ Promise!Takes(p, "garbage") /\ table[fd] = p /\ socket[p] = "open"
      /\ fd \in Fds /\ fd \notin remove /\ fd \notin twice
      /\ outbox' = [outbox EXCEPT ![p] = Tail(@)] /\ Sent[p] = outbox[p]
  BY TakesFacts DEF ReceiveGarbage
<1>3. /\ remove' = remove \cup {fd} /\ UNCHANGED <<gone, owed>>
      /\ IF CanSend(p)
         THEN /\ inbox' = [inbox EXCEPT ![p] = @ + 1]
              /\ UNCHANGED <<table, socket, twice>>
         ELSE Close({fd}) /\ twice' = twice \cup {fd} /\ inbox' = inbox
  BY DEF ReceiveGarbage
<1> HIDE DEF fd
<1>4. CASE CanSend(p)
  <2>1. /\ inbox' = [inbox EXCEPT ![p] = @ + 1]
        /\ UNCHANGED <<table, socket, twice>>
    BY <1>3, <1>4
  <2>2. Sent' = [Sent EXCEPT ![p] = Tail(outbox[p])]
    BY <1>1, <1>2, <2>1 DEF Sent, DrainInv
  <2>3. Promise!Told(p, Tail(Sent[p])) /\ Promise!Reachable(p)
    BY <1>2, <1>4, <2>1, <2>2 DEF Promise!Told, Promise!Reachable, CanSend
  <2>4. Doomed' = Doomed \cup {p}
    BY <1>1, <1>2, <1>3, <2>1 DEF Doomed
  <2>5. LooseEnds' = LooseEnds /\ TableIsFull'
    BY <1>1, <1>3, <2>1 DEF LooseEnds, IsOpen, TableIsFull
  <2> QED
    BY <1>2, <1>3, <2>3, <2>4, <2>5 DEF Promise!TakeGarbage
<1>5. CASE ~CanSend(p)
  <2>1. Close({fd}) /\ twice' = twice \cup {fd} /\ inbox' = inbox
    BY <1>3, <1>5
  <2>2. /\ socket' = [socket EXCEPT ![p] = "closed"]
        /\ \A g \in Fds : table'[g] = IF g = fd THEN NoPeer ELSE table[g]
    BY <1>1, <1>2, <2>1, CloseOne
  <2>3. Sent' = [Sent EXCEPT ![p] = <<>>]
    BY <1>1, <1>2, <2>2 DEF Sent, DrainInv, KernelInv
  <2>4. Promise!Told(p, Tail(Sent[p])) /\ ~Promise!Reachable(p)
    BY <1>5, <2>1, <2>2, <2>3 DEF Promise!Told, Promise!Reachable, CanSend
  <2>5. Doomed' = Doomed
    <3>1. \A g \in remove : table'[g] = table[g]
      BY <1>1, <1>2, <2>2 DEF DrainInv
    <3>2. table'[fd] \notin Peers
      BY <1>2, <2>2, NumbersApart
    <3> QED
      BY <1>3, <3>1, <3>2 DEF Doomed
  <2>6. LooseEnds' = LooseEnds \cup {fd} /\ fd \notin LooseEnds
    BY <1>1, <1>2, <2>1, <2>2 DEF LooseEnds, IsOpen, DrainInv
  <2>7. Cardinality(LooseEnds)' = Cardinality(LooseEnds) + 1
    BY <2>6, LooseCount, FS_AddElement
  <2>8. TableIsFull'
    <3>1. remove \subseteq remove' /\ twice' \subseteq remove'
      BY <1>1, <1>3, <2>1 DEF TableIsFull
    <3> QED
      BY <1>2, <2>1, <3>1, OneLess
  <2> QED
    BY <1>2, <1>3, <2>4, <2>5, <2>7, <2>8 DEF Promise!TakeGarbage
<1> QED
  BY <1>4, <1>5

LEMMA EndDrainMapping ==
  ASSUME PromiseInv, EndDrain
  PROVE  TableIsFull' /\ Promise!DropDoomed
<1>1. KernelInv /\ DrainInv /\ TableIsFull
  BY KernelFacts, DrainFacts DEF PromiseInv
<1>2. /\ Close(remove) /\ Discarded /\ remove' = {} /\ twice' = {}
      /\ UNCHANGED <<gone, inbox, owed>>
  BY DEF EndDrain
<1>3. /\ \A fd \in Fds : table'[fd] = IF fd \in remove THEN NoPeer ELSE table[fd]
      /\ socket' = [p \in Peers |-> IF p \in Doomed THEN "closed" ELSE socket[p]]
  BY <1>2 DEF Close, Doomed
<1>4. Sent' = [p \in Peers |-> IF p \in Doomed THEN <<>> ELSE Sent[p]]
  BY <1>2, <1>3 DEF Sent, Discarded
<1>5. Doomed' = {} /\ LooseEnds' = {}
  BY <1>2 DEF Doomed, LooseEnds
<1>6. Cardinality(LooseEnds)' = 0
  BY <1>5, FS_EmptySet
<1>7. TableIsFull'
  <2> SUFFICES ASSUME NEW p \in Peers, socket'[p] = "open"
               PROVE  \E fd \in Fds : table'[fd] = p
    BY <1>2 DEF TableIsFull
  <2>1. p \notin Doomed /\ socket[p] = "open"
    BY <1>3
  <2>2. PICK fd \in Fds : table[fd] = p
    BY <1>1, <2>1 DEF TableIsFull
  <2> QED
    BY <1>3, <2>1, <2>2 DEF Doomed
<1> QED
  BY <1>2, <1>3, <1>4, <1>5, <1>6, <1>7 DEF Promise!DropDoomed

LEMMA AnswerMapping ==
  ASSUME PromiseInv, Serve
  PROVE  TableIsFull' /\ \E p \in Peers : Promise!Answer(p)
<1>1. KernelInv /\ DrainInv /\ StepInv /\ RequestsAreAnswered /\ TableIsFull
  BY KernelFacts, DrainFacts DEF PromiseInv
<1> DEFINE r == Head(requests)
           p == r.from
           fd == r.client
<1>2. /\ owed' = [owed EXCEPT ![p] = @ - 1] /\ AnswerPending(fd, table[fd])
      /\ UNCHANGED <<gone, outbox, remove, twice>>
      /\ requests # <<>> /\ remove = {}
  BY <1>1 DEF Serve, StepInv
<1>3. DOMAIN requests = {1} /\ r = requests[1]
  BY <1>1, <1>2, RequestFacts
<1>4. fd \in Fds /\ p \in Peers /\ table[fd] = p
  BY <1>1, <1>3, RequestFacts DEF RequestsAreAnswered
<1>5. owed[p] = 1
  <2>1. {i \in DOMAIN requests : requests[i].from = p} = {1}
    BY <1>3
  <2>2. Cardinality({1}) = 1
    BY FS_Singleton
  <2> QED
    BY <1>1, <1>4, <2>1, <2>2 DEF RequestsAreAnswered
<1> HIDE DEF r, p, fd
<1>6. socket[p] = "open"
  BY <1>1, <1>4, NumbersApart DEF KernelInv, TableInv, IsOpen
<1>7. Doomed = {} /\ Cardinality(LooseEnds) = 0 /\ twice = {} /\ remove' = {} /\ twice' = {}
  BY <1>1, <1>2, LooseCount DEF TableIsFull
<1>8. Doomed' = {} /\ LooseEnds' = {} /\ Cardinality(LooseEnds)' = 0
  BY <1>7, FS_EmptySet DEF Doomed, LooseEnds
<1>9. owed' = [owed EXCEPT ![p] = 0]
  BY <1>2, <1>5
<1>10. Sent[p] = outbox[p]
  BY <1>4, <1>6 DEF Sent
<1>11. CASE CanSend(p)
  <2>1. inbox' = [inbox EXCEPT ![p] = @ + 1] /\ UNCHANGED <<table, socket>>
    BY <1>2, <1>4, <1>11 DEF AnswerPending
  <2>2. Sent' = Sent
    BY <1>2, <2>1 DEF Sent
  <2>3. Sent' = [Sent EXCEPT ![p] = Sent[p]]
    BY <2>2 DEF Sent
  <2>4. Promise!Told(p, Sent[p])
    BY <1>11, <2>1, <2>3 DEF Promise!Told, Promise!Reachable, CanSend
  <2>5. TableIsFull'
    BY <1>1, <1>7, <2>1 DEF TableIsFull
  <2> QED
    BY <1>2, <1>4, <1>5, <1>6, <1>7, <1>8, <1>9, <2>4, <2>5 DEF Promise!Answer
<1>12. CASE ~CanSend(p)
  <2>1. Close({fd}) /\ inbox' = inbox
    BY <1>2, <1>4, <1>12 DEF AnswerPending
  <2>2. socket' = [socket EXCEPT ![p] = "closed"]
    BY <1>1, <1>4, <2>1, CloseOne
  <2>3. Sent' = [Sent EXCEPT ![p] = <<>>]
    BY <1>1, <1>2, <1>4, <2>2 DEF Sent, DrainInv, KernelInv
  <2>4. Promise!Told(p, Sent[p])
    BY <1>12, <2>1, <2>2, <2>3 DEF Promise!Told, Promise!Reachable, CanSend
  <2>5. TableIsFull'
    <3>1. remove \subseteq remove' /\ twice' \subseteq remove'
      BY <1>2, <1>7
    <3> QED
      BY <1>4, <2>1, <3>1, OneLess
  <2> QED
    BY <1>2, <1>4, <1>5, <1>6, <1>7, <1>8, <1>9, <2>4, <2>5 DEF Promise!Answer
<1> QED
  BY <1>11, <1>12

\* The descriptors that cannot be told are those of the clients out of reach.
LEMMA PublishMapping ==
  ASSUME PromiseInv, PublishState
  PROVE  TableIsFull' /\ Promise!Publish
<1>1. KernelInv /\ DrainInv /\ StepInv /\ RequestsAreAnswered /\ TableIsFull
  BY KernelFacts, DrainFacts DEF PromiseInv
<1> DEFINE failed == {fd \in Registered : ~CanSend(table[fd])}
           told == {table[fd] : fd \in Registered \ failed}
           lost == {p \in Promise!Served : ~Promise!Reachable(p)}
<1>2. /\ Close(failed) /\ Discarded
      /\ inbox' = [p \in Peers |-> IF p \in told THEN inbox[p] + 1 ELSE inbox[p]]
      /\ UNCHANGED <<gone, remove, owed, twice>>
      /\ remove = {} /\ requests = <<>>
  BY <1>1 DEF PublishState, StepInv
<1>3. ASSUME NEW p \in Peers
      PROVE  socket[p] = "open" <=> \E fd \in Registered : table[fd] = p
  BY <1>1, NumbersApart DEF KernelInv, TableInv, TableIsFull, Registered, IsOpen
<1>4. \A p \in Peers : p \in lost <=> \E fd \in failed : table[fd] = p
  BY <1>3 DEF Promise!Served, Promise!Reachable, CanSend
<1>5. \A p \in Peers : p \in Promise!Served \ lost <=> p \in told
  <2> SUFFICES ASSUME NEW p \in Peers PROVE p \in Promise!Served \ lost <=> p \in told
    OBVIOUS
  <2>1. p \in told <=> \E fd \in Registered : table[fd] = p /\ CanSend(p)
    OBVIOUS
  <2>2. p \in Promise!Served \ lost <=> socket[p] = "open" /\ CanSend(p)
    BY DEF Promise!Served, Promise!Reachable, CanSend
  <2> QED
    BY <1>3, <2>1, <2>2
<1> HIDE DEF failed, told, lost
<1>6. socket' = [p \in Peers |-> IF p \in lost THEN "closed" ELSE socket[p]]
  BY <1>2, <1>4 DEF Close
<1>7. Sent' = [p \in Peers |-> IF p \in lost THEN <<>> ELSE Sent[p]]
  BY <1>2, <1>6 DEF Sent, Discarded
<1>8. inbox' = [p \in Peers |-> IF p \in Promise!Served \ lost THEN inbox[p] + 1
                                ELSE inbox[p]]
  BY <1>2, <1>5
<1>9. Doomed = {} /\ Cardinality(LooseEnds) = 0 /\ twice = {}
  BY <1>1, <1>2, LooseCount DEF TableIsFull
<1>10. Doomed' = {} /\ LooseEnds' = {} /\ Cardinality(LooseEnds)' = 0
  BY <1>2, <1>9, FS_EmptySet DEF Doomed, LooseEnds
<1>11. TableIsFull'
  <2> SUFFICES ASSUME NEW p \in Peers, socket'[p] = "open"
               PROVE  \E fd \in Fds : table'[fd] = p
    BY <1>2, <1>9 DEF TableIsFull
  <2>1. p \notin lost /\ socket[p] = "open"
    BY <1>6
  <2>2. PICK fd \in Fds : table[fd] = p
    BY <1>1, <2>1 DEF TableIsFull
  <2>3. fd \notin failed /\ table'[fd] = p
    BY <1>2, <1>4, <2>1, <2>2 DEF Close
  <2> QED
    BY <2>3
<1>12. Promise!NothingOwed
  BY <1>1, <1>2, NoRequest DEF Promise!NothingOwed
<1> QED
  BY <1>2, <1>6, <1>7, <1>8, <1>9, <1>10, <1>11, <1>12 DEF Promise!Publish, lost

\* Waiting, putting off and the loops' own steps are none of the clients'.
LEMMA QuietMapping ==
  ASSUME PromiseInv,
         \/ Wait \/ EndAccept \/ Interrupted \/ UNCHANGED serverVars
         \/ \E event \in batch : Defer(event) \/ BeginAccept(event)
  PROVE  TableIsFull' /\ UNCHANGED Promise!lvars
<1>1. UNCHANGED <<socket, gone, outbox, inbox, table, owed, remove, twice>>
  BY DEF Wait, EndAccept, Interrupted, Defer, BeginAccept, serverVars, kernelVars, drainVars,
     serverHistory
<1>2. Sent' = Sent
  BY <1>1 DEF Sent
<1>3. Doomed' = Doomed /\ LooseEnds' = LooseEnds
  BY <1>1, SameLists
<1>4. TableIsFull'
  BY <1>1 DEF PromiseInv, TableIsFull
<1> QED
  BY <1>1, <1>2, <1>3, <1>4 DEF Promise!lvars

\* Every step of the server is a step of ControlClients, or none.
LEMMA PromiseStep ==
  ASSUME PromiseInv, [ServerNext]_serverVars
  PROVE  PromiseInv' /\ [Promise!Next]_(Promise!lvars)
<1>1. ServerInv'
  BY ServerInvStep DEF PromiseInv
<1> SUFFICES TableIsFull' /\ [Promise!Next]_(Promise!lvars)
  BY <1>1 DEF PromiseInv
<1>2. CASE \E p \in Peers : Connect(p) \/ SendPacket(p) \/ Receive(p) \/ HangUp(p)
  BY <1>2, ClientMapping DEF Promise!Next
<1>3. CASE \E p \in Peers : RefuseBusy(p) \/ GreetingFails(p)
  BY <1>3, RefuseMapping DEF Promise!Next
<1>4. CASE \E p \in Peers : Greet(p)
  BY <1>4, GreetMapping DEF Promise!Next
<1>5. CASE \E event \in batch : NoteHangUp(event) \/ \E p \in Peers : ReceiveFails(event, p)
  BY <1>5, DoomMapping DEF Promise!Next
<1>6. CASE \E event \in batch : \E p \in Peers : ReceiveRequest(event, p)
  BY <1>6, RequestMapping DEF Promise!Next
<1>7. CASE \E event \in batch : \E p \in Peers : ReceiveMalformed(event, p)
  BY <1>7, MalformedMapping DEF Promise!Next
<1>8. CASE \E event \in batch : \E p \in Peers : ReceiveGarbage(event, p)
  BY <1>8, GarbageMapping DEF Promise!Next
<1>9. CASE EndDrain
  BY <1>9, EndDrainMapping DEF Promise!Next
<1>10. CASE Serve
  BY <1>10, AnswerMapping DEF Promise!Next
<1>11. CASE PublishState
  BY <1>11, PublishMapping DEF Promise!Next
<1>12. CASE \/ Wait \/ EndAccept \/ Interrupted \/ UNCHANGED serverVars
            \/ \E event \in batch : Defer(event) \/ BeginAccept(event)
  BY <1>12, QuietMapping
<1>13. CASE Fails
  BY <1>13, EndMapping DEF Promise!Next
<1>14. CASE \E event \in batch : \E p \in Peers : ReceiveEmpty(event, p)
  BY <1>14, EmptyMapping DEF Promise!Next
<1> QED
  BY <1>2, <1>3, <1>4, <1>5, <1>6, <1>7, <1>8, <1>9, <1>10, <1>11, <1>12, <1>13, <1>14
     DEF ServerNext

\* Whatever clients do, in whatever order their events are handled and whichever
\* descriptors they are given: the server deals with each connection as
\* ControlClients promises, in which there are only connections.
THEOREM ServerKeepsPromise == ServerSpec => ServerPromise
<1>1. ServerInit => PromiseInv /\ Promise!Init
  <2> SUFFICES ASSUME ServerInit PROVE TableIsFull /\ Promise!Init
    BY ServerInvInit DEF PromiseInv
  <2>1. TableIsFull /\ Doomed = {} /\ LooseEnds = {}
    BY DEF ServerInit, TableIsFull, Doomed, LooseEnds
  <2>2. Cardinality(LooseEnds) = 0
    BY <2>1, FS_EmptySet
  <2>3. Sent = [p \in Peers |-> <<>>]
    BY DEF ServerInit, Sent
  <2> QED
    BY <2>1, <2>2, <2>3 DEF ServerInit, Promise!Init
<1>2. PromiseInv /\ [ServerNext]_serverVars
        => /\ PromiseInv'
           /\ [UNCHANGED serverVars \/ [Promise!Next]_(Promise!lvars)]_serverVars
  BY PromiseStep
<1> QED
  BY <1>1, <1>2, PTL DEF ServerSpec, ServerPromise
=============================================================================
