------------------------------- MODULE Daemon -------------------------------
(***************************************************************************)
(* The HTTP daemon of wh/cli/daemon.py: a listener over one wormhole,      *)
(* whose incoming connections are handed out by long polling (accept), and *)
(* read, written and closed by requests.  Every request is a coroutine of  *)
(* one event loop; what it checked before an await may be stale after it.  *)
(*                                                                         *)
(* The bytes of a peer are numbered from 1, and a piece is a run of them.  *)
(* recv may hand out the first bytes of a piece only (max_bytes >= 1) and  *)
(* put the rest back.                                                      *)
(***************************************************************************)
EXTENDS Naturals, Sequences

CONSTANTS
    Conns,      \* incoming connections
    Accepts,    \* accept requests, each once
    Recvs,      \* recv requests under way at the same time; each may be repeated
    Deletes,    \* DELETE requests for the listener, each once
    MaxBytes,   \* MaxBytes[c], a bound: bytes the peer of c sends
    None

VARIABLES
    listener,   \* "absent", "open"; "closed" once its flag is set
    dilated,    \* its accept loop listens for connections
    tracked,    \* the listener is in self.listeners
    wormhole,   \* its wormhole is open
    arrived,    \* listener.connections, the queue of connection ids
    conn,       \* conn[c]: "none", "up", "lost": the bridge protocol
    active,     \* keys of active_connections
    closed,     \* connections whose closed flag is set
    readQueue,  \* readQueue[c]
    sent,       \* sent[c]: bytes of the peer so far
    got,        \* got[c]: pieces handed out, in the order they were answered
    accept, recv, removal,   \* the requests
    held,       \* held[r]: the piece that recv r took from the queue
    sending     \* connections a send of which awaits its body, one at a time

conns == <<conn, active, closed, readQueue, sent, got>>
listening == <<listener, dilated, tracked, wormhole, arrived>>
requests == <<accept, recv, removal, held, sending>>
vars == <<listening, conns, requests>>

Init ==
    /\ listener = "absent" /\ arrived = <<>>
    /\ dilated = FALSE /\ tracked = FALSE /\ wormhole = FALSE
    /\ conn = [c \in Conns |-> "none"]
    /\ active = {} /\ closed = {}
    /\ readQueue = [c \in Conns |-> <<>>]
    /\ sent = [c \in Conns |-> 0]
    /\ got = [c \in Conns |-> <<>>]
    /\ accept = [a \in Accepts |-> "new"]
    /\ recv = [r \in Recvs |-> None]
    /\ held = [r \in Recvs |-> None] /\ sending = {}
    /\ removal = [d \in Deletes |-> "new"]
-----------------------------------------------------------------------------
\* handle_listen: the code is allocated, the listener tracked, its loop started.
Listen ==
    /\ listener = "absent"
    /\ listener' = "open" /\ tracked' = TRUE /\ wormhole' = TRUE
    /\ UNCHANGED <<dilated, arrived, conns, requests>>

\* _listener_accept_loop: dilate ends, or an error sets the closed flag.
AcceptLoop ==
    /\ listener = "open" /\ ~dilated
    /\ \/ dilated' = TRUE /\ UNCHANGED listener
       \/ listener' = "closed" /\ UNCHANGED dilated
    /\ UNCHANGED <<tracked, wormhole, arrived, conns, requests>>

\* BridgeProtocol.connectionMade: a peer opens a subchannel; a listener whose
\* flag is set still takes it until the wormhole is closed.
ConnectionMade(c) ==
    /\ wormhole /\ dilated /\ conn[c] = "none"
    /\ conn' = [conn EXCEPT ![c] = "up"]
    /\ active' = active \cup {c}
    /\ arrived' = Append(arrived, c)
    /\ UNCHANGED <<listener, dilated, tracked, wormhole, closed, readQueue, sent, got,
                   requests>>

Piece(first, last) == [first |-> first, last |-> last]

\* dataReceived: what has come of the peer's bytes is queued as one piece.
DataReceived(c) ==
    /\ conn[c] = "up"
    /\ \E last \in sent[c] + 1 .. MaxBytes[c] :
         /\ sent' = [sent EXCEPT ![c] = last]
         /\ readQueue' = [readQueue EXCEPT ![c] = Append(@, Piece(sent[c] + 1, last))]
    /\ UNCHANGED <<listening, conn, active, closed, got, requests>>

\* connectionLost: the flag is set and None queued as end of file.
ConnectionLost(c) ==
    /\ conn[c] = "up"
    /\ conn' = [conn EXCEPT ![c] = "lost"]
    /\ closed' = closed \cup {c}
    /\ readQueue' = [readQueue EXCEPT ![c] = Append(@, None)]
    /\ UNCHANGED <<listening, active, sent, got, requests>>
-----------------------------------------------------------------------------
\* handle_accept: 404 and 410 end the request at once, else it waits.
StartAccept(a) ==
    /\ accept[a] = "new"
    /\ accept' = [accept EXCEPT ![a] =
                    IF tracked /\ listener # "closed" THEN "waiting" ELSE "ended"]
    /\ UNCHANGED <<listening, conns, recv, removal, held, sending>>

\* The next connection id, even of a listener deleted since; or the timeout.
EndAccept(a) ==
    /\ accept[a] = "waiting"
    /\ \/ /\ arrived # <<>>
          /\ accept' = [accept EXCEPT ![a] = Head(arrived)]
          /\ arrived' = Tail(arrived)
       \/ /\ accept' = [accept EXCEPT ![a] = "ended"]
          /\ UNCHANGED arrived
    /\ UNCHANGED <<listener, dilated, tracked, wormhole, conns, recv, removal, held, sending>>

\* Connections a request of a program can name: those an accept returned.
Known == {c \in Conns : \E a \in Accepts : accept[a] = c}

\* handle_send: 404, 410, or the body of the request is awaited
StartSend(c) ==
    /\ c \in Known /\ c \in active \ closed /\ c \notin sending
    /\ sending' = sending \cup {c}
    /\ UNCHANGED <<listening, conns, accept, recv, removal, held>>

\* and written to the transport, whatever became of the connection meanwhile.
EndSend(c) ==
    /\ c \in sending
    /\ sending' = sending \ {c}
    /\ UNCHANGED <<listening, conns, accept, recv, removal, held>>

\* handle_recv: 404 and 410, also when data is still queued; else it waits.
StartRecv(r, c) ==
    /\ recv[r] = None /\ c \in Known
    /\ c \in active \ closed
    /\ recv' = [recv EXCEPT ![r] = c]
    /\ UNCHANGED <<listening, conns, accept, removal, held, sending>>

\* get() takes the next piece.  Before Python 3.12 it runs in a task of its own that
\* wait_for starts, and the handler goes on later.
TakePiece(r) ==
    LET c == recv[r] IN
    /\ c # None /\ held[r] = None
    /\ readQueue[c] # <<>> /\ Head(readQueue[c]) # None
    /\ held' = [held EXCEPT ![r] = Head(readQueue[c])]
    /\ readQueue' = [readQueue EXCEPT ![c] = Tail(@)]
    /\ UNCHANGED <<listening, conn, active, closed, sent, got, accept, recv, removal, sending>>

\* Wrong form: what is over max_bytes is thrown away.
PutBackNone(queue, rest) == queue

\* The remainder goes to the end of the queue.
PutBack(queue, rest) == Append(queue, rest)

\* The piece is handed out, whole or its first bytes.
Answer(r) ==
    LET c == recv[r]
        piece == held[r]
    IN  /\ piece # None
        /\ recv' = [recv EXCEPT ![r] = None] /\ held' = [held EXCEPT ![r] = None]
        /\ \/ got' = [got EXCEPT ![c] = Append(@, piece)] /\ UNCHANGED readQueue
           \/ \E cut \in piece.first .. piece.last - 1 :
                /\ got' = [got EXCEPT ![c] = Append(@, Piece(piece.first, cut))]
                /\ readQueue' = [readQueue EXCEPT ![c] = PutBack(@, Piece(cut + 1, piece.last))]
        /\ UNCHANGED <<listening, conn, active, closed, sent, accept, removal, sending>>

\* The end of file is answered, or the request times out without a piece.
AnswerNothing(r) ==
    LET c == recv[r] IN
    /\ c # None /\ held[r] = None
    /\ recv' = [recv EXCEPT ![r] = None]
    /\ \/ /\ readQueue[c] # <<>> /\ Head(readQueue[c]) = None
          /\ readQueue' = [readQueue EXCEPT ![c] = Tail(@)]
       \/ UNCHANGED readQueue
    /\ UNCHANGED <<listening, conn, active, closed, sent, got, accept, removal, held, sending>>

\* handle_close_connection: flag, transport, and out of active_connections.
CloseConnection(c) ==
    /\ c \in Known /\ c \in active
    /\ closed' = closed \cup {c}
    /\ active' = active \ {c}
    /\ UNCHANGED <<listening, conn, readQueue, sent, got, requests>>
-----------------------------------------------------------------------------
\* handle_close_listener: the flag is set and the wormhole's close awaited.
StartDelete(d) ==
    /\ removal[d] = "new" /\ tracked
    /\ listener' = "closed"
    /\ removal' = [removal EXCEPT ![d] = "closing"]
    /\ UNCHANGED <<dilated, tracked, wormhole, arrived, conns, accept, recv, held, sending>>

\* Wrong form: the connections that an accept has handed out.
RemovedKnown == active \cap Known

\* The connections of the listener when its wormhole is closed.
Removed == active

\* The wormhole is closed: the listener and all its connections are forgotten.
\* A second request finds the listener gone: KeyError, answered by a 500.
EndDelete(d) ==
    /\ removal[d] = "closing"
    /\ wormhole' = FALSE
    /\ tracked' = FALSE
    /\ IF tracked
       THEN /\ removal' = [removal EXCEPT ![d] = "closed"]
            /\ closed' = closed \cup Removed
            /\ active' = active \ Removed
       ELSE /\ removal' = [removal EXCEPT ![d] = "error"]
            /\ UNCHANGED <<closed, active>>
    /\ UNCHANGED <<listener, dilated, arrived, conn, readQueue, sent, got, accept, recv,
                   held, sending>>
-----------------------------------------------------------------------------
Next ==
    \/ Listen \/ AcceptLoop
    \/ \E c \in Conns : \/ ConnectionMade(c) \/ DataReceived(c) \/ ConnectionLost(c)
                        \/ StartSend(c) \/ EndSend(c) \/ CloseConnection(c)
    \/ \E a \in Accepts : StartAccept(a) \/ EndAccept(a)
    \/ \E r \in Recvs : \/ TakePiece(r) \/ Answer(r) \/ AnswerNothing(r)
                        \/ \E c \in Conns : StartRecv(r, c)
    \/ \E d \in Deletes : StartDelete(d) \/ EndDelete(d)

Spec == Init /\ [][Next]_vars
-----------------------------------------------------------------------------
Pieces == [first : Nat, last : Nat]

TypeOK ==
    /\ listener \in {"absent", "open", "closed"}
    /\ dilated \in BOOLEAN /\ tracked \in BOOLEAN /\ wormhole \in BOOLEAN
    /\ arrived \in Seq(Conns)
    /\ conn \in [Conns -> {"none", "up", "lost"}]
    /\ active \subseteq Conns /\ closed \subseteq Conns
    /\ sending \subseteq Conns
    /\ readQueue \in [Conns -> Seq(Pieces \cup {None})]
    /\ sent \in [Conns -> Nat] /\ \A c \in Conns : sent[c] <= MaxBytes[c]
    /\ got \in [Conns -> Seq(Pieces)]
    /\ accept \in [Accepts -> Conns \cup {"new", "waiting", "ended"}]
    /\ recv \in [Recvs -> Conns \cup {None}] /\ held \in [Recvs -> Pieces \cup {None}]
    /\ \A r \in Recvs : held[r] # None => recv[r] # None
    /\ removal \in [Deletes -> {"new", "closing", "closed", "error"}]

\* Refuted, with wh/cli/daemon.py: recv receives the data of the connection, and
\* puts back what is over max_bytes.  The bytes it hands out are not in order, as a
\* remainder is put back behind what came after it.
ReadInOrder ==
    \A c \in Conns : \A i \in DOMAIN got[c] :
        got[c][i].first = IF i = 1 THEN 1 ELSE got[c][i - 1].last + 1

\* The places of a byte: a piece, and the pieces of a queue or of what is handed out.
Has(piece, b) == piece # None /\ b \in piece.first .. piece.last
Among(pieces, b) == \E i \in DOMAIN pieces : Has(pieces[i], b)
Once(pieces, b) == \A i, j \in DOMAIN pieces : Has(pieces[i], b) /\ Has(pieces[j], b) => i = j
Holders(c, b) == {r \in Recvs : recv[r] = c /\ Has(held[r], b)}

\* Byte b of the peer of c is handed out, queued or in a request's hands once it is
\* sent; it is in one of these places only, and there once.
Kept(c, b) ==
    /\ Among(got[c], b) \/ Among(readQueue[c], b) \/ Holders(c, b) # {} <=> b <= sent[c]
    /\ ~(Among(got[c], b) /\ Among(readQueue[c], b))
    /\ Holders(c, b) # {} => ~Among(got[c], b) /\ ~Among(readQueue[c], b)
    /\ Once(got[c], b) /\ Once(readQueue[c], b) /\ \A r, q \in Holders(c, b) : r = q

\* recv loses no byte of a peer and hands none out twice, with several requests for
\* one connection, remainders put back and the connection closed or lost meanwhile.
BytesKept == \A c \in Conns : \A b \in 1 .. MaxBytes[c] : Kept(c, b)

\* Once DELETE of the listener is answered, no connection of it is left, not
\* even one that came while the wormhole was being closed.
NothingLeft ==
    (\E d \in Deletes : removal[d] = "closed") => active = {}

\* The inductive invariant of NothingLeft: the wormhole stays closed.
ClosedForGood ==
    /\ listener = "absent" => ~tracked /\ ~wormhole /\ \A d \in Deletes : removal[d] = "new"
    /\ (\E d \in Deletes : removal[d] = "closed") => ~wormhole

DaemonInv == TypeOK /\ BytesKept /\ NothingLeft /\ ClosedForGood
=============================================================================
