---------------------------- MODULE ControlServer ----------------------------
(***************************************************************************)
(* The control socket of dseuhid below the packet queues of DseuhidControl *)
(* (control/server.rs, control/transport.rs): a table of descriptors       *)
(* watched by a level-triggered epoll, a limit on the clients it holds, a  *)
(* limit on the connections accepted per wake-up, and drain_requests,      *)
(* which walks over a batch of events whose flags are as old as the batch, *)
(* in whatever order epoll_wait put them: it promises none.                *)
(*                                                                         *)
(* Clients connect, send and hang up between any two steps of the drain.   *)
(* A descriptor is a number the kernel gives out again, lowest first.      *)
(***************************************************************************)
EXTENDS Naturals, Sequences, FiniteSets

CONSTANTS
  MaxPeers,          \* bound: connections; a client that reconnects is another peer
  MaxControlClients, \* MAX_CONTROL_CLIENTS
  MaxAcceptsPerWake, \* MAX_ACCEPTS_PER_WAKE
  InboxSize,         \* packets the socket buffer of a client holds
  OutboxSize         \* bound: packets a peer has sent and the server not received

ASSUME ServerAssumption ==
  /\ MaxPeers \in Nat
  /\ MaxControlClients \in Nat \ {0}
  /\ MaxAcceptsPerWake \in Nat \ {0}
  /\ InboxSize \in Nat \ {0}
  /\ OutboxSize \in Nat

VARIABLES
  socket,    \* per peer: its connection, seen from the server's side
  gone,      \* peers that have closed their end
  outbox,    \* per peer: packets the server has not received yet
  inbox,     \* per peer: how many packets the peer has not received yet
  backlog,   \* peers waiting to be accepted
  table,     \* ControlServer.clients: whose connection a descriptor is
  batch,     \* the events epoll_wait returned that the drain has not handled
  accepts,   \* connections the accept loop may still take
  requests,  \* requests the drain has collected
  remove,    \* descriptors to close when the drain ends
  step,      \* where the server is
  \* (model only) per peer: requests received and not answered yet; the peers
  \* that gave a reason to be dropped; the descriptors this drain has closed
  \* and will close again; the peers that were given one of those
  owed, faulty, twice, heirs

kernelVars == <<socket, gone, outbox, inbox, backlog, table>>
drainVars == <<batch, accepts, requests, remove, step>>
serverHistory == <<owed, faulty, twice, heirs>>
serverVars == <<kernelVars, drainVars, serverHistory>>

\* Peers are numbered in the order in which they connect.
Peers == 1 .. MaxPeers
NoPeer == 0
LISTENER_TOKEN == 0
\* One descriptor more than there are clients: a refused one holds it briefly.
Fds == 1 .. (MaxControlClients + 1)
Tokens == Fds \cup {LISTENER_TOKEN}
\* A request that parses, one that is refused but keeps the connection
\* (unknown command, malformed switch-config), and one that ends it: it is not
\* UTF-8, longer than a packet may be, or empty, which recv does not tell from
\* the end of the connection.
Requests == {"request", "malformed", "garbage"}
\* A request that parses, with the descriptor that is kept for its answer (and,
\* model only, who sent it).
PendingRequest == [client : Fds, from : Peers]

ServerTypeOK ==
  /\ socket \in [Peers -> {"none", "backlog", "open", "closed", "ended"}]
  /\ gone \subseteq Peers
  /\ outbox \in [Peers -> Seq(Requests)]
  /\ inbox \in [Peers -> 0 .. InboxSize]
  /\ backlog \in Seq(Peers)
  /\ table \in [Fds -> Peers \cup {NoPeer}]
  /\ batch \subseteq [token : Tokens, flags : SUBSET {"IN", "HUP"}]
  /\ accepts \in 0 .. MaxAcceptsPerWake
  /\ requests \in Seq(PendingRequest)
  /\ Len(requests) \leq 1
  /\ remove \subseteq Fds
  /\ step \in {"idle", "draining", "accepting", "serving", "ended"}
  /\ owed \in [Peers -> 0 .. 1]
  /\ faulty \subseteq Peers /\ heirs \subseteq Peers /\ twice \subseteq Fds

ServerInit ==
  /\ socket = [p \in Peers |-> "none"]
  /\ gone = {}
  /\ outbox = [p \in Peers |-> <<>>]
  /\ inbox = [p \in Peers |-> 0]
  /\ backlog = <<>>
  /\ table = [fd \in Fds |-> NoPeer]
  /\ batch = {}
  /\ accepts = 0
  /\ requests = <<>>
  /\ remove = {}
  /\ step = "idle"
  /\ owed = [p \in Peers |-> 0]
  /\ faulty = {} /\ heirs = {} /\ twice = {}

----------------------------------------------------------------------------
(* The kernel.                                                             *)

IsOpen(fd) == table[fd] # NoPeer
Registered == {fd \in Fds : IsOpen(fd)}
Free == CHOOSE fd \in Fds : ~IsOpen(fd) /\ \A g \in Fds : ~IsOpen(g) => fd \leq g

\* What epoll reports of a descriptor: a hang-up also makes it readable.
Flags(token) ==
  IF token = LISTENER_TOKEN THEN {f \in {"IN"} : backlog # <<>>}
  ELSE {f \in {"IN", "HUP"} : \/ table[token] \in gone
                              \/ f = "IN" /\ IsOpen(token) /\ outbox[table[token]] # <<>>}

CanSend(p) == p \notin gone /\ inbox[p] < InboxSize

\* Dropping the OwnedFd of fds: the connections end.
Close(fds) ==
  /\ table' = [fd \in Fds |-> IF fd \in fds THEN NoPeer ELSE table[fd]]
  /\ socket' = [p \in Peers |-> IF \E fd \in fds : table[fd] = p
                                THEN "closed" ELSE socket[p]]

\* What a client had sent is gone with its connection.
Discarded ==
  outbox' = [p \in Peers |-> IF socket'[p] = "closed" THEN <<>> ELSE outbox[p]]

----------------------------------------------------------------------------
(* Clients.                                                                *)

Connect(p) ==
  /\ step # "ended"
  /\ socket[p] = "none" /\ \A q \in 1 .. p - 1 : socket[q] # "none"
  /\ socket' = [socket EXCEPT ![p] = "backlog"]
  /\ backlog' = Append(backlog, p)
  /\ UNCHANGED <<gone, outbox, inbox, table, drainVars, serverHistory>>

SendPacket(p) ==
  /\ socket[p] \in {"backlog", "open"} /\ p \notin gone
  /\ Len(outbox[p]) < OutboxSize
  /\ \E r \in Requests : outbox' = [outbox EXCEPT ![p] = Append(@, r)]
  /\ UNCHANGED <<socket, gone, inbox, backlog, table, drainVars, serverHistory>>

\* A client that reads, takes what has arrived.
Receive(p) ==
  /\ socket[p] = "open" /\ p \notin gone /\ inbox[p] > 0
  /\ inbox' = [inbox EXCEPT ![p] = 0]
  /\ UNCHANGED <<socket, gone, outbox, backlog, table, drainVars, serverHistory>>

HangUp(p) ==
  /\ socket[p] \in {"backlog", "open"} /\ p \notin gone
  /\ gone' = gone \cup {p}
  /\ faulty' = faulty \cup {p}
  /\ UNCHANGED <<socket, outbox, inbox, backlog, table, drainVars, owed, twice, heirs>>

----------------------------------------------------------------------------
(* drain_requests.                                                         *)

\* epoll_wait: every ready descriptor and its flags of this moment.
Wait ==
  /\ step = "idle"
  /\ batch' = {[token |-> t, flags |-> Flags(t)] : t \in {u \in Tokens : Flags(u) # {}}}
  /\ batch' # {}
  /\ step' = "draining"
  /\ UNCHANGED <<kernelVars, accepts, requests, remove, serverHistory>>

\* The loop takes the next event.
Takes(event) == step = "draining" /\ event \in batch /\ batch' = batch \ {event}
EventOfClient(event) == Takes(event) /\ event.token # LISTENER_TOKEN

\* reply: a client the packet does not reach is dropped at once.
AnswerPending(fd, p) ==
  IF CanSend(p)
  THEN /\ inbox' = [inbox EXCEPT ![p] = @ + 1]
       /\ faulty' = faulty
       /\ UNCHANGED <<table, socket>>
  ELSE /\ Close({fd})
       /\ faulty' = faulty \cup {p}
       /\ inbox' = inbox

NoteHangUp(event) ==
  /\ EventOfClient(event)
  /\ "HUP" \in event.flags
  /\ remove' = remove \cup {event.token}
  /\ UNCHANGED <<kernelVars, accepts, requests, step, serverHistory>>

\* One request per drain: the packets of the others stay in their sockets.
Defer(event) ==
  /\ EventOfClient(event)
  /\ "HUP" \notin event.flags
  /\ requests # <<>>
  /\ UNCHANGED <<kernelVars, accepts, requests, remove, step, serverHistory>>

\* Mutant: a drain receives from every client that is ready.
MayReceiveAnyway(event) == EventOfClient(event) /\ "HUP" \notin event.flags

MayReceive(event) == EventOfClient(event) /\ "HUP" \notin event.flags /\ requests = <<>>

\* A peer that closed without reading everything resets the connection: that
\* error comes before the packets it left.
Reset(p) == p \in gone /\ inbox[p] > 0

\* The guard of the receiving steps.  An event without a packet, or of a client
\* already closed, does not occur: only the drain receives, and it closes no
\* other client before its end.
Receives(event, p, kind) ==
  /\ MayReceive(event)
  /\ table[event.token] = p /\ ~Reset(p)
  /\ outbox[p] # <<>> /\ Head(outbox[p]) = kind
  /\ outbox' = [outbox EXCEPT ![p] = Tail(@)]

ReceiveRequest(event, p) ==
  /\ Receives(event, p, "request")
  /\ requests' = <<[client |-> event.token, from |-> p]>>
  /\ owed' = [owed EXCEPT ![p] = @ + 1]
  /\ UNCHANGED <<socket, gone, inbox, backlog, table, accepts, remove, step,
                 faulty, twice, heirs>>

ReceiveMalformed(event, p) ==
  /\ Receives(event, p, "malformed")
  /\ AnswerPending(event.token, p)
  /\ UNCHANGED <<gone, backlog, accepts, requests, remove, step, owed, twice, heirs>>

\* The error is sent and the client removed; if the error does not reach it,
\* it is closed twice: now, and with its number when the drain ends.
ReceiveGarbage(event, p) ==
  /\ Receives(event, p, "garbage")
  /\ remove' = remove \cup {event.token}
  /\ IF CanSend(p)
     THEN /\ inbox' = [inbox EXCEPT ![p] = @ + 1]
          /\ UNCHANGED <<table, socket, twice>>
     ELSE /\ Close({event.token})
          /\ twice' = twice \cup {event.token}
          /\ inbox' = inbox
  /\ faulty' = faulty \cup {p}
  /\ UNCHANGED <<gone, backlog, accepts, requests, step, owed, heirs>>

\* An empty packet: the client is removed without a word.
ReceiveEmpty(event, p) ==
  /\ Receives(event, p, "garbage")
  /\ remove' = remove \cup {event.token}
  /\ faulty' = faulty \cup {p}
  /\ UNCHANGED <<socket, gone, inbox, backlog, table, accepts, requests, step,
                 owed, twice, heirs>>

ReceiveFails(event, p) ==
  /\ MayReceive(event)
  /\ table[event.token] = p /\ Reset(p)
  /\ remove' = remove \cup {event.token}
  /\ UNCHANGED <<kernelVars, accepts, requests, step, serverHistory>>

BeginAccept(event) ==
  /\ Takes(event) /\ event.token = LISTENER_TOKEN
  /\ accepts' = MaxAcceptsPerWake
  /\ step' = "accepting"
  /\ UNCHANGED <<kernelVars, requests, remove, serverHistory>>

\* The next connection of the accept loop.
Accepts(p) ==
  /\ step = "accepting" /\ accepts > 0
  /\ backlog # <<>> /\ p = Head(backlog)
  /\ backlog' = Tail(backlog)
  /\ accepts' = accepts - 1

Full == Cardinality(Registered) \geq MaxControlClients

\* At the limit: the client is told, if its buffer takes it, and closed.
RefuseBusy(p) ==
  /\ Accepts(p)
  /\ Full
  /\ socket' = [socket EXCEPT ![p] = "closed"]
  /\ inbox' = IF CanSend(p) THEN [inbox EXCEPT ![p] = @ + 1] ELSE inbox
  /\ outbox' = [outbox EXCEPT ![p] = <<>>]
  /\ faulty' = faulty \cup {p}
  /\ UNCHANGED <<gone, table, batch, requests, remove, step, owed, twice, heirs>>

\* A client that hung up before it was accepted cannot be greeted.
GreetingFails(p) ==
  /\ Accepts(p)
  /\ ~Full
  /\ ~CanSend(p)
  /\ socket' = [socket EXCEPT ![p] = "closed"]
  /\ outbox' = [outbox EXCEPT ![p] = <<>>]
  /\ UNCHANGED <<gone, inbox, table, batch, requests, remove, step, serverHistory>>

Greet(p) ==
  /\ Accepts(p)
  /\ ~Full
  /\ CanSend(p)
  /\ inbox' = [inbox EXCEPT ![p] = @ + 1]
  /\ socket' = [socket EXCEPT ![p] = "open"]
  /\ table' = [table EXCEPT ![Free] = p]
  /\ heirs' = IF Free \in twice THEN heirs \cup {p} ELSE heirs
  /\ UNCHANGED <<gone, outbox, batch, requests, remove, step, owed, faulty, twice>>

\* EINTR costs one of the accepts.
Interrupted ==
  /\ step = "accepting" /\ accepts > 0
  /\ accepts' = accepts - 1
  /\ UNCHANGED <<kernelVars, batch, requests, remove, step, serverHistory>>

\* Any other error of accept4, and one of epoll_wait, ends dseuhid: with it end
\* all connections, and what the drain had collected is lost.
Fails ==
  /\ step = "idle" \/ (step = "accepting" /\ accepts > 0)
  /\ socket' = [p \in Peers |-> IF socket[p] \in {"backlog", "open"} THEN "ended"
                                ELSE socket[p]]
  /\ table' = [fd \in Fds |-> NoPeer] /\ backlog' = <<>>
  /\ batch' = {} /\ accepts' = 0 /\ requests' = <<>> /\ remove' = {}
  /\ step' = "ended"
  /\ outbox' = [p \in Peers |-> <<>>]
  /\ owed' = [p \in Peers |-> 0] /\ twice' = {}
  /\ UNCHANGED <<gone, inbox, faulty, heirs>>

\* EAGAIN, or enough for this wake-up: the listener stays ready.
EndAccept ==
  /\ step = "accepting"
  /\ accepts = 0 \/ backlog = <<>>
  /\ accepts' = 0
  /\ step' = "draining"
  /\ UNCHANGED <<kernelVars, batch, requests, remove, serverHistory>>

\* Mutant: the list of descriptors to close outlives its drain.
EndDrainKeepsList ==
  /\ step = "draining" /\ batch = {}
  /\ Close(remove) /\ Discarded
  /\ remove' = remove
  /\ twice' = {}
  /\ step' = IF requests = <<>> THEN "idle" ELSE "serving"
  /\ UNCHANGED <<gone, inbox, backlog, batch, accepts, requests, owed, faulty, heirs>>

\* The deferred closes go by descriptor number.
EndDrain ==
  /\ step = "draining" /\ batch = {}
  /\ Close(remove) /\ Discarded
  /\ remove' = {}
  /\ twice' = {}
  /\ step' = IF requests = <<>> THEN "idle" ELSE "serving"
  /\ UNCHANGED <<gone, inbox, backlog, batch, accepts, requests, owed, faulty, heirs>>

\* handle_control_requests answers the request it was given, by descriptor.
Serve ==
  /\ step = "serving"
  /\ LET r == Head(requests)
     IN /\ owed' = [owed EXCEPT ![r.from] = @ - 1]
        /\ AnswerPending(r.client, table[r.client])
  /\ requests' = <<>>
  /\ step' = "idle"
  /\ UNCHANGED <<gone, outbox, backlog, batch, accepts, remove, twice, heirs>>

\* set_state: clients that cannot take the new state are dropped.
PublishState ==
  /\ step = "idle"
  /\ LET failed == {fd \in Registered : ~CanSend(table[fd])}
         told == {table[fd] : fd \in Registered \ failed}
     IN /\ Close(failed) /\ Discarded
        /\ inbox' = [p \in Peers |-> IF p \in told THEN inbox[p] + 1 ELSE inbox[p]]
        /\ faulty' = faulty \cup {table[fd] : fd \in failed}
  /\ UNCHANGED <<gone, backlog, batch, accepts, requests, remove, step, owed, twice, heirs>>

ServerNext ==
  \/ \E p \in Peers : \/ Connect(p) \/ SendPacket(p) \/ Receive(p) \/ HangUp(p)
                      \/ RefuseBusy(p) \/ GreetingFails(p) \/ Greet(p)
  \/ \E event \in batch :
       \/ NoteHangUp(event) \/ Defer(event) \/ BeginAccept(event)
       \/ \E p \in Peers : \/ ReceiveRequest(event, p) \/ ReceiveMalformed(event, p)
                           \/ ReceiveGarbage(event, p) \/ ReceiveEmpty(event, p)
                           \/ ReceiveFails(event, p)
  \/ Wait \/ Interrupted \/ Fails \/ EndAccept \/ EndDrain \/ Serve \/ PublishState

ServerSpec == ServerInit /\ [][ServerNext]_serverVars

----------------------------------------------------------------------------
(* Properties.                                                             *)

\* A connection the server closes belongs to a client that hung up, broke the
\* protocol, left its buffer full or was one too many; the one exception is a
\* client accepted, in the same drain, on the descriptor of a client that sent
\* garbage and was already closed when its error could not be sent: the close
\* that was put off then hits the new client (drain_requests, reply).
DroppedForCause ==
  \A p \in Peers : socket[p] = "closed" => p \in faulty \cup heirs

\* Whatever is received is answered, to the client that asked: a drain leaves
\* all but one request in their sockets, and the descriptor kept with that one
\* still is its client's when the answer is sent (drain_requests, PendingRequest).
RequestsAreAnswered ==
  /\ \A p \in Peers : owed[p] = Cardinality({i \in DOMAIN requests : requests[i].from = p})
  /\ \A i \in DOMAIN requests : table[requests[i].client] = requests[i].from

\* Both: what happens on one connection never costs the client of another its
\* connection or its answer.
ClientsGetTheirDue == DroppedForCause /\ RequestsAreAnswered

\* The connections as ControlClients has them: no descriptor, no batch.
Sent == [p \in Peers |-> IF socket[p] = "closed" THEN <<>> ELSE outbox[p]]
Doomed == {p \in Peers : \E fd \in remove : table[fd] = p}
LooseEnds == {fd \in twice : ~IsOpen(fd)}

\* The server serves each connection as if there were no descriptors, no
\* batches and no wake-ups: what it does to one is a step of ControlClients,
\* in which the limit counts connections, packets are taken in order and
\* answered once, and no other connection is touched (drain_requests,
\* accept_clients, reply, set_state).
Promise == INSTANCE ControlClients
  WITH Packets <- Requests, Limit <- MaxControlClients, Room <- InboxSize,
       link <- socket, left <- gone, sent <- Sent, unread <- inbox,
       doomed <- Doomed, loose <- Cardinality(LooseEnds)
\* (A step of no variable of the server is one of the promise without a look.)
ServerPromise ==
  Promise!Init /\ [][UNCHANGED serverVars \/ [Promise!Next]_(Promise!lvars)]_serverVars
=============================================================================
