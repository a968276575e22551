--------------------------- MODULE ControlClients ---------------------------
(***************************************************************************)
(* What dseuhid's control server promises the clients, connection by       *)
(* connection: none of its descriptors, of the batches of events it walks  *)
(* over or of its loops.  Packets are taken in the order sent, one at a    *)
(* time, and each is told about at once or, for the one request that may   *)
(* be owed an answer, before anything else is.  A client cannot be told    *)
(* when it has left or left its buffer full; then its connection ends.     *)
(* A connection also ends when there are too many, or once it is doomed:   *)
(* its client left, sent garbage (an empty packet is garbage too, but not  *)
(* told of), or came upon a loose end.  All end with the server.           *)
(*                                                                         *)
(* A loose end is what remains of a client that sent garbage and could not *)
(* be told of it: a close that hits whoever is admitted in its place.      *)
(***************************************************************************)
EXTENDS Naturals, Sequences, FiniteSets

CONSTANTS
  Peers,    \* clients; one that reconnects is another peer
  Packets,  \* what they send: "request", "malformed" or "garbage"
  Limit,    \* clients served at a time
  Room      \* packets a client may leave unread

VARIABLES
  link,     \* per peer: none, backlog, open, closed or ended (with the server)
  left,     \* peers that have closed their end
  sent,     \* per peer: packets the server has not taken
  unread,   \* per peer: packets it was told and has not read
  owed,     \* per peer: requests taken and not answered
  doomed,   \* peers whose connection is about to end
  loose     \* loose ends

lvars == <<link, left, sent, unread, owed, doomed, loose>>

Served == {p \in Peers : link[p] = "open"}
Reachable(p) == p \notin left /\ unread[p] < Room
NothingOwed == \A p \in Peers : owed[p] = 0

Init ==
  /\ link = [p \in Peers |-> "none"]
  /\ left = {} /\ doomed = {} /\ loose = 0
  /\ sent = [p \in Peers |-> <<>>]
  /\ unread = [p \in Peers |-> 0]
  /\ owed = [p \in Peers |-> 0]

\* A packet to p, whose packets are now rest.
Told(p, rest) ==
  IF Reachable(p)
  THEN /\ unread' = [unread EXCEPT ![p] = @ + 1]
       /\ sent' = [sent EXCEPT ![p] = rest]
       /\ link' = link
  ELSE /\ link' = [link EXCEPT ![p] = "closed"]
       /\ sent' = [sent EXCEPT ![p] = <<>>]
       /\ unread' = unread

(* The clients.                                                            *)

Connect(p) ==
  /\ link[p] = "none"
  /\ link' = [link EXCEPT ![p] = "backlog"]
  /\ UNCHANGED <<left, sent, unread, owed, doomed, loose>>

Send(p) ==
  /\ link[p] \in {"backlog", "open"} /\ p \notin left
  /\ \E packet \in Packets : sent' = [sent EXCEPT ![p] = Append(@, packet)]
  /\ UNCHANGED <<link, left, unread, owed, doomed, loose>>

Read(p) ==
  /\ link[p] = "open" /\ p \notin left
  /\ unread' = [unread EXCEPT ![p] = 0]
  /\ UNCHANGED <<link, left, sent, owed, doomed, loose>>

Leave(p) ==
  /\ link[p] \in {"backlog", "open"}
  /\ left' = left \cup {p}
  /\ UNCHANGED <<link, sent, unread, owed, doomed, loose>>

(* The server.                                                             *)

\* A client is greeted; it may be the one that a loose end catches.
Admit(p) ==
  /\ link[p] = "backlog" /\ Reachable(p) /\ Cardinality(Served) < Limit
  /\ link' = [link EXCEPT ![p] = "open"]
  /\ unread' = [unread EXCEPT ![p] = @ + 1]
  /\ \/ UNCHANGED <<doomed, loose>>
     \/ loose > 0 /\ loose' = loose - 1 /\ doomed' = doomed \cup {p}
  /\ UNCHANGED <<left, sent, owed>>

TurnAway(p) ==
  /\ link[p] = "backlog"
  /\ Cardinality(Served) \geq Limit \/ ~Reachable(p)
  /\ link' = [link EXCEPT ![p] = "closed"]
  /\ sent' = [sent EXCEPT ![p] = <<>>]
  /\ unread' = IF Reachable(p) THEN [unread EXCEPT ![p] = @ + 1] ELSE unread
  /\ UNCHANGED <<left, owed, doomed, loose>>

\* The next packet of p is taken, while nothing else is owed an answer.
Takes(p, packet) ==
  /\ link[p] = "open" /\ p \notin doomed
  /\ sent[p] # <<>> /\ Head(sent[p]) = packet
  /\ NothingOwed

TakeRequest(p) ==
  /\ Takes(p, "request")
  /\ sent' = [sent EXCEPT ![p] = Tail(@)]
  /\ owed' = [owed EXCEPT ![p] = 1]
  /\ UNCHANGED <<link, left, unread, doomed, loose>>

TakeMalformed(p) ==
  /\ Takes(p, "malformed")
  /\ Told(p, Tail(sent[p]))
  /\ UNCHANGED <<left, owed, doomed, loose>>

TakeGarbage(p) ==
  /\ Takes(p, "garbage")
  /\ Told(p, Tail(sent[p]))
  /\ IF Reachable(p) THEN doomed' = doomed \cup {p} /\ loose' = loose
     ELSE doomed' = doomed /\ loose' = loose + 1
  /\ UNCHANGED <<left, owed>>

TakeEmpty(p) ==
  /\ Takes(p, "garbage")
  /\ sent' = [sent EXCEPT ![p] = Tail(@)]
  /\ doomed' = doomed \cup {p}
  /\ UNCHANGED <<link, left, unread, owed, loose>>

\* That a client has left is noticed, unless it is to be answered first.
Doom(p) ==
  /\ link[p] = "open" /\ p \in left /\ owed[p] = 0
  /\ doomed' = doomed \cup {p}
  /\ UNCHANGED <<link, left, sent, unread, owed, loose>>

\* Those doomed, and no others, are dropped together; so are the loose ends.
DropDoomed ==
  /\ link' = [p \in Peers |-> IF p \in doomed THEN "closed" ELSE link[p]]
  /\ sent' = [p \in Peers |-> IF p \in doomed THEN <<>> ELSE sent[p]]
  /\ doomed' = {} /\ loose' = 0
  /\ UNCHANGED <<left, unread, owed>>

\* The answer to the request taken, to the client that sent it.
Answer(p) ==
  /\ owed[p] = 1 /\ link[p] = "open" /\ doomed = {} /\ loose = 0
  /\ owed' = [owed EXCEPT ![p] = 0]
  /\ Told(p, sent[p])
  /\ UNCHANGED <<left, doomed, loose>>

\* A new state: every client served is told it or dropped.
Publish ==
  /\ NothingOwed /\ doomed = {} /\ loose = 0
  /\ LET lost == {p \in Served : ~Reachable(p)}
     IN /\ link' = [p \in Peers |-> IF p \in lost THEN "closed" ELSE link[p]]
        /\ sent' = [p \in Peers |-> IF p \in lost THEN <<>> ELSE sent[p]]
        /\ unread' = [p \in Peers |-> IF p \in Served \ lost THEN unread[p] + 1
                                      ELSE unread[p]]
  /\ UNCHANGED <<left, owed, doomed, loose>>

\* The server ends, and every connection with it.
End ==
  /\ link' = [p \in Peers |-> IF link[p] \in {"backlog", "open"} THEN "ended" ELSE link[p]]
  /\ sent' = [p \in Peers |-> <<>>]
  /\ owed' = [p \in Peers |-> 0]
  /\ doomed' = {} /\ loose' = 0
  /\ UNCHANGED <<left, unread>>

Next ==
  \/ \E p \in Peers : \/ Connect(p) \/ Send(p) \/ Read(p) \/ Leave(p)
                      \/ Admit(p) \/ TurnAway(p)
                      \/ TakeRequest(p) \/ TakeMalformed(p) \/ TakeGarbage(p)
                      \/ TakeEmpty(p) \/ Doom(p) \/ Answer(p)
  \/ DropDoomed \/ Publish \/ End

Spec == Init /\ [][Next]_lvars
=============================================================================
