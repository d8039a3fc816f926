---------------------------- MODULE LwipSockets ----------------------------
(***************************************************************************)
(* The lwIP socket layer as the two server threads see it: a table that    *)
(* maps small integers (descriptors) to connections, and for every         *)
(* connection what its peer did, what is queued for recv() and how much    *)
(* room write() finds.  One operator per socket call; each call is atomic, *)
(* because lwIP runs its effect under the TCP/IP core lock.                *)
(*                                                                         *)
(* A descriptor names a table ENTRY, not a connection: lwip_close() empties *)
(* the entry and the next accept() takes the lowest empty one, so a number *)
(* kept by a thread may come to name somebody else's connection.           *)
(***************************************************************************)
EXTENDS Integers, Sequences, FiniteSets

CONSTANTS
    Conns,       \* TCP connections that may ever be made, each used once
    NoConn,      \* an empty entry of the socket table
    NumFds       \* entries of the table besides the listening socket's

ASSUME LwipAssumption == NoConn \notin Conns /\ NumFds \in Nat \ {0}

VARIABLES
    listening,   \* the listening socket is open
    sock,        \* sockets[]: the connection behind each descriptor
    acceptmbox,  \* connections waiting for accept(), oldest first
    srv,         \* what the server did with a connection
    peer,        \* what the remote end did: sends on, sent FIN, sent RST
    eof,         \* recv() has already returned 0 for this connection
    nonblock,    \* O_NONBLOCK was set on the connection
    wnd,         \* room in the send buffer: plenty, less than a message, none
    rxq,         \* segments queued in the connection's recvmbox
    rcvd         \* kinds of data write() ever accepted for the connection

lwipVars == <<listening, sock, acceptmbox, srv, peer, eof, nonblock, wnd, rxq,
              rcvd>>

Fds == 1..NumFds
NoFd == -1
HttpSock == 0    \* the first socket() of the program, so the lowest number

\* Requests and the bodies of a POST, whole frames, the first part of a frame, and
\* the rest of a frame or of a request.
Segments == {"get", "state", "post", "on", "off", "ws", "text", "close", "head",
             "tail"}
Outputs == {"switch", "reply", "notfound", "busy", "led", "button", "torn"}

LwipTypeOK ==
    /\ listening \in BOOLEAN
    /\ sock \in [Fds -> Conns \cup {NoConn}]
    /\ acceptmbox \in Seq(Conns)
    /\ srv \in [Conns -> {"new", "backlog", "open", "closed"}]
    /\ peer \in [Conns -> {"alive", "fin", "rst"}]
    /\ eof \in [Conns -> BOOLEAN]
    /\ nonblock \in [Conns -> BOOLEAN]
    /\ wnd \in [Conns -> {"open", "tight", "shut"}]
    /\ rxq \in [Conns -> Seq(Segments)]
    /\ rcvd \in [Conns -> SUBSET Outputs]

LwipInit ==
    /\ listening = TRUE
    /\ sock = [fd \in Fds |-> NoConn]
    /\ acceptmbox = <<>>
    /\ srv = [c \in Conns |-> "new"]
    /\ peer = [c \in Conns |-> "alive"]
    /\ eof = [c \in Conns |-> FALSE]
    /\ nonblock = [c \in Conns |-> FALSE]
    /\ wnd = [c \in Conns |-> "open"]
    /\ rxq = [c \in Conns |-> <<>>]
    /\ rcvd = [c \in Conns |-> {}]

----------------------------------------------------------------------------
(* Looking a descriptor up.                                                *)

\* get_socket(): NoConn stands for the EBADF that a closed or invalid
\* descriptor gives.
ConnAt(fd) == IF fd \in Fds THEN sock[fd] ELSE NoConn

IsOpen(fd) == ConnAt(fd) # NoConn

\* alloc_socket() scans the table upwards.
LowestFree(fd) ==
    /\ fd \in Fds
    /\ sock[fd] = NoConn
    /\ \A g \in Fds : sock[g] = NoConn => fd <= g

\* What recv() finds on connection c: queued data before anything else, then
\* the error of a reset connection, then end of file once, ENOTCONN after it.
RecvOutcome(c) ==
    CASE rxq[c] # <<>>                   -> "data"
      [] rxq[c] = <<>> /\ peer[c] = "rst" -> "error"
      [] rxq[c] = <<>> /\ peer[c] = "fin" -> IF eof[c] THEN "error" ELSE "eof"
      [] OTHER                           -> "again"

\* What select() reports.  A reset connection stays readable for ever: nothing
\* takes back the event that err_tcp() raised.
Readable(fd) ==
    IF fd = HttpSock
    THEN acceptmbox # <<>>
    ELSE /\ IsOpen(fd)
         /\ \/ RecvOutcome(ConnAt(fd)) \in {"data", "eof"}
            \/ peer[ConnAt(fd)] = "rst"

\* What write() of a small message does on a non-blocking descriptor.
WriteOutcome(fd) ==
    CASE ~IsOpen(fd)                                         -> "error"
      [] IsOpen(fd) /\ peer[ConnAt(fd)] = "rst"              -> "error"
      [] IsOpen(fd) /\ peer[ConnAt(fd)] # "rst"
                    /\ wnd[ConnAt(fd)] = "open"              -> "all"
      [] IsOpen(fd) /\ peer[ConnAt(fd)] # "rst"
                    /\ wnd[ConnAt(fd)] = "tight"             -> "part"
      [] OTHER                                               -> "again"

----------------------------------------------------------------------------
(* The calls.  Each constrains every variable of this module.              *)

\* accept() that returns fd for the oldest waiting connection.
Accept(fd) ==
    LET c == Head(acceptmbox) IN
    /\ acceptmbox # <<>>
    /\ peer[c] # "rst"
    /\ LowestFree(fd)
    /\ sock' = [sock EXCEPT ![fd] = c]
    /\ srv' = [srv EXCEPT ![c] = "open"]
    /\ acceptmbox' = Tail(acceptmbox)
    /\ UNCHANGED <<listening, peer, eof, nonblock, wnd, rxq, rcvd>>

\* accept() that returns -1: the table is full (ENFILE), or the connection was
\* reset while it waited and netconn_peer() fails.  The connection is dropped.
AcceptFails ==
    LET c == Head(acceptmbox) IN
    /\ acceptmbox # <<>>
    /\ peer[c] = "rst" \/ \A fd \in Fds : IsOpen(fd)
    /\ srv' = [srv EXCEPT ![c] = "closed"]
    /\ acceptmbox' = Tail(acceptmbox)
    /\ UNCHANGED <<listening, sock, peer, eof, nonblock, wnd, rxq, rcvd>>

\* fcntl(fd, F_SETFL, O_NONBLOCK)
SetNonblock(fd) ==
    /\ nonblock' = IF IsOpen(fd)
                   THEN [nonblock EXCEPT ![ConnAt(fd)] = TRUE] ELSE nonblock
    /\ UNCHANGED <<listening, sock, acceptmbox, srv, peer, eof, wnd, rxq, rcvd>>

\* How many segments recv() may take: as many of those queued as its buffer holds,
\* which with lengths left out is any number, and no fewer than one.
Takes(c) == IF rxq[c] = <<>> THEN {0} ELSE 1..Len(rxq[c])

\* recv() on connection c: the first n queued segments are taken at once, or the
\* end of file is.
Recv(c, n) ==
    /\ rxq' = [rxq EXCEPT ![c] = SubSeq(@, n + 1, Len(@))]
    /\ eof' = IF RecvOutcome(c) = "eof" THEN [eof EXCEPT ![c] = TRUE] ELSE eof
    /\ UNCHANGED <<listening, sock, acceptmbox, srv, peer, nonblock, wnd, rcvd>>

\* write() of a message of the given kind.  A message that does not fit is cut.
Write(fd, kind) ==
    LET c == ConnAt(fd) IN
    /\ rcvd' = CASE WriteOutcome(fd) = "all"  -> [rcvd EXCEPT ![c] = @ \cup {kind}]
                 [] WriteOutcome(fd) = "part" -> [rcvd EXCEPT ![c] = @ \cup {"torn"}]
                 [] OTHER                     -> rcvd
    /\ wnd' = IF WriteOutcome(fd) = "part" THEN [wnd EXCEPT ![c] = "shut"] ELSE wnd
    /\ UNCHANGED <<listening, sock, acceptmbox, srv, peer, eof, nonblock, rxq>>

\* close(): whatever connection the descriptor names now is closed.
Close(fd) ==
    LET c == ConnAt(fd) IN
    /\ sock' = IF IsOpen(fd) THEN [sock EXCEPT ![fd] = NoConn] ELSE sock
    /\ srv' = IF IsOpen(fd) THEN [srv EXCEPT ![c] = "closed"] ELSE srv
    /\ UNCHANGED <<listening, acceptmbox, peer, eof, nonblock, wnd, rxq, rcvd>>

\* close() of the listening socket: the connections that wait are aborted.
CloseListener ==
    /\ listening' = FALSE
    /\ acceptmbox' = <<>>
    /\ srv' = [c \in Conns |-> IF srv[c] = "backlog" THEN "closed" ELSE srv[c]]
    /\ UNCHANGED <<sock, peer, eof, nonblock, wnd, rxq, rcvd>>

----------------------------------------------------------------------------
(* What the network does to the stack.                                     *)

\* The remote end may act on c while its connection exists on the board.
Reachable(c) == srv[c] \in {"backlog", "open"} /\ peer[c] # "rst"

TcpConnect(c) ==
    /\ listening
    /\ srv[c] = "new"
    /\ srv' = [srv EXCEPT ![c] = "backlog"]
    /\ acceptmbox' = Append(acceptmbox, c)
    /\ UNCHANGED <<listening, sock, peer, eof, nonblock, wnd, rxq, rcvd>>

TcpDeliver(c, segments) ==
    /\ Reachable(c)
    /\ peer[c] = "alive"
    /\ rxq' = [rxq EXCEPT ![c] = @ \o segments]
    /\ UNCHANGED <<listening, sock, acceptmbox, srv, peer, eof, nonblock, wnd, rcvd>>

TcpFin(c) ==
    /\ Reachable(c)
    /\ peer[c] = "alive"
    /\ peer' = [peer EXCEPT ![c] = "fin"]
    /\ UNCHANGED <<listening, sock, acceptmbox, srv, eof, nonblock, wnd, rxq, rcvd>>

TcpRst(c) ==
    /\ Reachable(c)
    /\ peer' = [peer EXCEPT ![c] = "rst"]
    /\ UNCHANGED <<listening, sock, acceptmbox, srv, eof, nonblock, wnd, rxq, rcvd>>

\* The peer stops or resumes acknowledging.  Until something was written the
\* send buffer is empty and a message fits.
TcpWindow(c, w) ==
    /\ Reachable(c)
    /\ w = "open" \/ (rcvd[c] # {} /\ nonblock[c])
    /\ wnd' = [wnd EXCEPT ![c] = w]
    /\ UNCHANGED <<listening, sock, acceptmbox, srv, peer, eof, nonblock, rxq, rcvd>>
=============================================================================
