---------------------------- MODULE ModbusServer ----------------------------
(***************************************************************************)
(* tcp_server_thread of Core/Src/freertos.c, built with ENABLE_MODBUS_TCP,  *)
(* over nanomodbus.c by way of modbus_port.c: one thread that select()s on *)
(* its listening socket and its clients, recv()s up to 20 bytes of one     *)
(* client into that client's buffer, marks the slot in_use and lets        *)
(* nmbs_server_poll() find the request - which modbus_port.c looks for in  *)
(* the FIRST slot in use, and answers there.                               *)
(*                                                                         *)
(* Bytes are words of four.  A request of 12 bytes is three: transaction   *)
(* and protocol ("mbap"), length, unit and function ("func"), address and  *)
(* value or quantity ("args").  The long request is one of 24 bytes that   *)
(* writes 88 coils: its fourth word holds their byte count, the last two   *)
(* are coils.  A step goes from one socket call to the next.               *)
(***************************************************************************)
EXTENDS LwipSockets

CONSTANTS
    MaxTcpClients,   \* MAX_TCP_SOCK_CLIENTS
    Requests,        \* what the clients may ask, and who asks it
    Splitters,       \* clients whose requests TCP may deliver in two segments
    Hangups          \* who may go away how, as pairs: by a FIN or by a reset

\* read and write: of the one register; far: a read past the last register; alien:
\* a read that names another unit; other: a function without a callback; many: the
\* coils of a long request, all of them the value.
Operations == {"read", "write", "far", "alien", "other", "many"}

ASSUME ModbusAssumption ==
    /\ MaxTcpClients \in Nat \ {0}
    /\ Requests \subseteq [by : Conns, op : Operations, value : {0, 1}]
    /\ Splitters \subseteq Conns
    /\ Hangups \subseteq Conns \X {"fin", "rst"}

VARIABLES
    mpc,             \* where the thread is
    accept_sock,     \* the descriptor in each slot of clients_sock_arr
    in_use,          \* the slot's data is still to be answered
    client_data,     \* the first 20 bytes of each slot's buffer, as words
    readfds,         \* what is left to handle of select()'s answer
    new_sock,        \* the descriptor that accept() returned
    client_pos,      \* the slot that recv() found closed
    out,             \* the answer in nmbs.msg
    reg,             \* the holding register that the requests are about
    asked,           \* history: the request of a client not yet dealt with
    answer,          \* history: what a client was answered last
    rest,            \* words of a client's request that TCP still holds back
    hogged           \* the HTTP thread keeps the processor: Hogging of WebServer

threadVars == <<mpc, accept_sock, in_use, client_data, readfds, new_sock,
                client_pos, out, reg>>
masterVars == <<asked, answer, rest>>
vars == <<lwipVars, threadVars, masterVars, hogged>>

Slots == 1..MaxTcpClients
Listening == HttpSock      \* a descriptor below every client's

Values == {0, 1}
NoRequest == [op |-> "none"]

\* The transaction an answer repeats, what it says, and the register it carries.
Answers == [to : Conns \cup {NoConn}, says : {"done", "exception"}, value : Values]
NoAnswer == [says |-> "none"]

Words == [part : {"mbap", "func", "args", "count", "coils"}, of : Requests]
         \cup {[part |-> "zero"]}
Buffer == [1..5 -> Words]          \* recv(..., client_data, 20, 0)

WordsOf(request) ==
    LET word(part) == [part |-> part, of |-> request]
        short == <<word("mbap"), word("func"), word("args")>>
    IN IF request.op = "many"
       THEN short \o <<word("count"), word("coils"), word("coils")>>
       ELSE short

TypeOK ==
    /\ sock \in [Fds -> Conns \cup {NoConn}]
    /\ listening \in BOOLEAN
    /\ acceptmbox \in Seq(Conns)
    /\ srv \in [Conns -> {"new", "backlog", "open", "closed"}]
    /\ peer \in [Conns -> {"alive", "fin", "rst"}]
    /\ eof \in [Conns -> BOOLEAN]
    /\ rxq \in [Conns -> Seq(Words)]
    /\ mpc \in {"select", "accept", "track", "scan", "reply", "drop"}
    /\ accept_sock \in [Slots -> Fds \cup {NoFd}]
    /\ in_use \in [Slots -> BOOLEAN]
    /\ client_data \in [Slots -> Buffer]
    /\ readfds \subseteq Fds \cup {Listening}
    /\ new_sock \in Fds \cup {NoFd}
    /\ client_pos \in Slots
    /\ out \in Answers \cup {NoAnswer}
    /\ reg \in Values
    /\ asked \in [Conns -> Requests \cup {NoRequest}]
    /\ answer \in [Conns -> Answers \cup {NoAnswer}]
    /\ rest \in [Conns -> Seq(Words)]
    /\ hogged \in BOOLEAN

Init ==
    /\ LwipInit
    /\ mpc = "select"
    /\ accept_sock = [s \in Slots |-> NoFd]
    /\ in_use = [s \in Slots |-> FALSE]
    /\ client_data = [s \in Slots |-> [k \in 1..5 |-> [part |-> "zero"]]]
    /\ readfds = {}
    /\ new_sock = NoFd
    /\ client_pos = 1
    /\ out = NoAnswer
    /\ reg = 0
    /\ asked = [c \in Conns |-> NoRequest]
    /\ answer = [c \in Conns |-> NoAnswer]
    /\ rest = [c \in Conns |-> <<>>]
    /\ hogged = FALSE

----------------------------------------------------------------------------
(* nanomodbus.c: what the bytes of a buffer ask for.  A word out of its    *)
(* place is taken for what it is read as.                                  *)

\* The quantity or value that the third word holds, 1 for every other than 0.
Arg(word) ==
    IF word.part # "args" THEN 0
    ELSE IF word.of.op = "write" THEN word.of.value ELSE 1

AllOnes(word) == word.part = "coils" /\ word.of.value = 1

\* The first half of the word is an address behind the last register.
Far(word) ==
    \/ word.part = "args" /\ word.of.op = "far"
    \/ word.part = "count"
    \/ AllOnes(word)

\* recv_msg_header() fails, and nothing is answered, on a protocol other than 0
\* and on a length below 2 or above 255: unit and function are no protocol 0; the
\* register's address, 0 or behind the last, and a byte count or two coils, 0 or
\* all ones, are no length.  handle_write_multiple_coils() does not answer a
\* byte count above 246 either.
Rejected(data) ==
    \/ data[1].part = "func"
    \/ data[1].part = "args" /\ Arg(data[1]) # 0
    \/ data[1].part \in {"count", "coils"} /\ data[1].of.value # 0
    \/ data[2].part \in {"zero", "args", "count", "coils"}
    \/ data[2].part = "func" /\ data[2].of.op = "many" /\ AllOnes(data[4])

\* A transaction number may or may not pass for a length; the protocol after it
\* is function 0.  One may or may not pass for a byte count.
MayBeRejected(data) ==
    \/ data[2].part = "mbap"
    \/ data[2].part = "func" /\ data[2].of.op = "many" /\ data[4].part = "mbap"

\* What is answered with an exception: a function without a callback, a read of
\* nothing or too much, coils whose number is not their byte count's, and what the
\* callback refuses, an address past the last register (SERVER_DEVICE_FAILURE).
Exceptional(data) ==
    \/ data[2].part = "mbap"
    \/ /\ data[2].part = "func"
       /\ \/ data[2].of.op = "other"
          \/ data[2].of.op \in {"read", "far", "alien"} /\ Arg(data[3]) = 0
          \/ data[2].of.op \in {"read", "far", "alien", "write"} /\ Far(data[3])
          \/ /\ data[2].of.op = "many"
             /\ ~ ( /\ data[3].part = "args" /\ data[3].of.op = "many"
                    /\ data[4].part = "count" )

\* Only a word of arguments, or one that is 0, names the register.
Writes(data) ==
    /\ ~Exceptional(data)
    /\ data[2].of.op = "write"
    /\ data[3].part \in {"args", "zero", "coils"}

\* Mutant of AnswerTo: a write answers what the register held before it.
AnswerBeforeWrite(data, any) ==
    [to    |-> IF data[1].part = "mbap" THEN data[1].of.by ELSE NoConn,
     says  |-> IF Exceptional(data) THEN "exception" ELSE "done",
     value |-> IF Exceptional(data) THEN 0 ELSE reg]

\* The answer carries the transaction it found, and what was read or written.  For
\* a unit other than 1 get_server() returns NULL and the callback reads through it:
\* any value is what lies at address 0, which is the controller's ITCM RAM.
AnswerTo(data, any) ==
    [to    |-> IF data[1].part = "mbap" THEN data[1].of.by ELSE NoConn,
     says  |-> IF Exceptional(data) THEN "exception" ELSE "done",
     value |-> CASE Exceptional(data) -> 0
                 [] ~Exceptional(data) /\ data[2].of.op \in {"read", "far"} -> reg
                 [] ~Exceptional(data) /\ data[2].of.op = "alien" -> any
                 [] OTHER -> Arg(data[3])]

----------------------------------------------------------------------------
(* modbus_port.c: read_socket() and write_socket() take the first slot in  *)
(* use, whichever was received from.                                       *)

FirstInUse(used, s) ==
    /\ used[s]
    /\ \A t \in Slots : used[t] => s <= t

\* nmbs_server_poll(), up to its answer.
Poll(used, data) ==
    \E s \in Slots :
        /\ FirstInUse(used, s)
        /\ \/ /\ Rejected(data[s]) \/ MayBeRejected(data[s])
              /\ mpc' = "scan"
              /\ UNCHANGED <<out, reg>>
           \/ /\ ~Rejected(data[s])
              /\ mpc' = "reply"
              /\ \E any \in Values : out' = AnswerTo(data[s], any)
              /\ reg' = IF Writes(data[s]) THEN Arg(data[s][3]) ELSE reg

----------------------------------------------------------------------------
(* tcp_server_thread().                                                    *)

\* Mutant of Watched: the loop that fills readfds stops one slot early.
WatchedButLast ==
    {Listening} \cup ({accept_sock[s] : s \in Slots \ {MaxTcpClients}} \ {NoFd})

Watched == {Listening} \cup ({accept_sock[s] : s \in Slots} \ {NoFd})

SelectFails == \E fd \in Watched \ {Listening} : ~IsOpen(fd)

\* An error means continue; the timeout of 10 ms finds nothing to do.
MbSelect ==
    /\ mpc = "select"
    /\ ~SelectFails
    /\ readfds' = {fd \in Watched : Readable(fd)}
    /\ readfds' # {}
    /\ mpc' = IF Listening \in readfds' THEN "accept" ELSE "scan"
    /\ UNCHANGED <<accept_sock, in_use, client_data, new_sock, client_pos, out, reg>>
    /\ UNCHANGED lwipVars

MbAccept ==
    /\ mpc = "accept"
    /\ \/ \E fd \in Fds : Accept(fd) /\ new_sock' = fd /\ mpc' = "track"
       \/ AcceptFails /\ mpc' = "scan" /\ UNCHANGED new_sock
    /\ readfds' = readfds \ {Listening}
    /\ UNCHANGED <<accept_sock, in_use, client_data, client_pos, out, reg>>

\* Mutant of MbTrack: a connection that finds no slot is not closed.
MbTrackKeep ==
    /\ mpc = "track"
    /\ \/ \E s \in Slots :
              /\ accept_sock[s] = NoFd
              /\ \A t \in Slots : accept_sock[t] = NoFd => s <= t
              /\ SetNonblock(new_sock)
              /\ accept_sock' = [accept_sock EXCEPT ![s] = new_sock]
       \/ /\ \A s \in Slots : accept_sock[s] # NoFd
          /\ UNCHANGED <<accept_sock, lwipVars>>
    /\ mpc' = "scan"
    /\ new_sock' = NoFd
    /\ UNCHANGED <<in_use, client_data, readfds, client_pos, out, reg>>

\* The first slot without a descriptor, or close(); in_use and the old data of
\* the slot stay.
MbTrack ==
    /\ mpc = "track"
    /\ \/ \E s \in Slots :
              /\ accept_sock[s] = NoFd
              /\ \A t \in Slots : accept_sock[t] = NoFd => s <= t
              /\ SetNonblock(new_sock)
              /\ accept_sock' = [accept_sock EXCEPT ![s] = new_sock]
       \/ /\ \A s \in Slots : accept_sock[s] # NoFd
          /\ Close(new_sock)
          /\ UNCHANGED accept_sock
    /\ mpc' = "scan"
    /\ new_sock' = NoFd
    /\ UNCHANGED <<in_use, client_data, readfds, client_pos, out, reg>>

\* The for loop reaches slot s.
Scanning(s) ==
    /\ mpc = "scan"
    /\ accept_sock[s] \in readfds
    /\ \A t \in Slots : accept_sock[t] \in readfds => s <= t
    /\ readfds' = readfds \ {accept_sock[s]}

\* recv() > 0: the bytes received replace the first of the buffer, in_use is
\* set, and the poll follows.
MbRecv(s) ==
    LET c == ConnAt(accept_sock[s])
        count == IF Len(rxq[c]) < 5 THEN Len(rxq[c]) ELSE 5
    IN
    /\ Scanning(s)
    /\ c # NoConn
    /\ RecvOutcome(c) = "data"
    /\ rxq' = [rxq EXCEPT ![c] = SubSeq(@, count + 1, Len(@))]
    /\ client_data' = [client_data EXCEPT ![s] =
           [k \in 1..5 |-> IF k <= count THEN rxq[c][k] ELSE @[k]]]
    /\ in_use' = [in_use EXCEPT ![s] = TRUE]
    /\ Poll(in_use', client_data')
    /\ UNCHANGED <<accept_sock, new_sock, client_pos>>
    /\ UNCHANGED <<listening, sock, acceptmbox, srv, peer, eof, nonblock, wnd, rcvd>>

\* recv() <= 0
MbRecvEnd(s) ==
    /\ Scanning(s)
    /\ IsOpen(accept_sock[s])
    /\ RecvOutcome(ConnAt(accept_sock[s])) # "data"
    /\ Recv(ConnAt(accept_sock[s]), 0)
    /\ mpc' = "drop"
    /\ client_pos' = s
    /\ UNCHANGED <<accept_sock, in_use, client_data, new_sock, out, reg>>

\* Mutant of MbDrop: the slot is emptied with 0 instead of -1.
MbDropZero ==
    /\ mpc = "drop"
    /\ Close(accept_sock[client_pos])
    /\ accept_sock' = [accept_sock EXCEPT ![client_pos] = Listening]
    /\ mpc' = "scan"
    /\ UNCHANGED <<in_use, client_data, readfds, new_sock, client_pos, out, reg>>

MbDrop ==
    /\ mpc = "drop"
    /\ Close(accept_sock[client_pos])
    /\ accept_sock' = [accept_sock EXCEPT ![client_pos] = NoFd]
    /\ mpc' = "scan"
    /\ UNCHANGED <<in_use, client_data, readfds, new_sock, client_pos, out, reg>>

\* Mutant of MbReply: write_socket() leaves the slot in use.
MbReplyKeepInUse ==
    /\ mpc = "reply"
    /\ \E s \in Slots :
        LET c == ConnAt(accept_sock[s]) IN
        /\ FirstInUse(in_use, s)
        /\ answer' = IF c # NoConn /\ peer[c] # "rst"
                     THEN [answer EXCEPT ![c] = out] ELSE answer
        /\ asked' = IF c # NoConn THEN [asked EXCEPT ![c] = NoRequest] ELSE asked
    /\ mpc' = "scan"
    /\ out' = NoAnswer
    /\ UNCHANGED <<accept_sock, in_use, client_data, readfds, new_sock, client_pos, reg, rest>>
    /\ UNCHANGED lwipVars

\* sendto(), for which write_socket() looks for the slot again: a client waits for
\* one answer at a time, so there is room for it.  asked and answer record what
\* the client sees.
MbReply ==
    /\ mpc = "reply"
    /\ \E s \in Slots :
        LET c == ConnAt(accept_sock[s]) IN
        /\ FirstInUse(in_use, s)
        /\ in_use' = [in_use EXCEPT ![s] = FALSE]
        /\ answer' = IF c # NoConn /\ peer[c] # "rst"
                     THEN [answer EXCEPT ![c] = out] ELSE answer
        /\ asked' = IF c # NoConn THEN [asked EXCEPT ![c] = NoRequest] ELSE asked
    /\ mpc' = "scan"
    /\ out' = NoAnswer
    /\ UNCHANGED <<accept_sock, client_data, readfds, new_sock, client_pos, reg, rest>>
    /\ UNCHANGED lwipVars

MbScanDone ==
    /\ mpc = "scan"
    /\ \A s \in Slots : accept_sock[s] \notin readfds
    /\ mpc' = "select"
    /\ readfds' = {}
    /\ UNCHANGED <<accept_sock, in_use, client_data, new_sock, client_pos, out, reg>>
    /\ UNCHANGED lwipVars

MbStep ==
    \/ MbReply
    \/ /\ \/ MbSelect \/ MbAccept \/ MbTrack \/ MbDrop \/ MbScanDone
          \/ \E s \in Slots : MbRecv(s) \/ MbRecvEnd(s)
       /\ UNCHANGED masterVars

----------------------------------------------------------------------------
(* The Modbus masters: one request at a time, the next after the answer to *)
(* the last.                                                               *)

MasterAsk(c, request) ==
    LET words == WordsOf(request) IN
    /\ asked[c] = NoRequest
    /\ rest[c] = <<>>
    /\ request.by = c
    /\ \E n \in 1..Len(words) :
        /\ n = Len(words) \/ c \in Splitters
        /\ TcpDeliver(c, SubSeq(words, 1, n))
        /\ rest' = [rest EXCEPT ![c] = SubSeq(words, n + 1, Len(words))]
    /\ asked' = [asked EXCEPT ![c] = request]
    /\ answer' = [answer EXCEPT ![c] = NoAnswer]

MasterRest(c) ==
    /\ rest[c] # <<>>
    /\ TcpDeliver(c, rest[c])
    /\ rest' = [rest EXCEPT ![c] = <<>>]
    /\ UNCHANGED <<asked, answer>>

MasterStep ==
    /\ \E c \in Conns :
        \/ TcpConnect(c) /\ UNCHANGED masterVars
        \/ \E request \in Requests : MasterAsk(c, request)
        \/ MasterRest(c)
        \/ <<c, "fin">> \in Hangups /\ TcpFin(c) /\ UNCHANGED masterVars
        \/ <<c, "rst">> \in Hangups /\ TcpRst(c) /\ UNCHANGED masterVars
    /\ UNCHANGED threadVars

\* The HTTP thread, whose priority is higher, gets caught by a request without an
\* end and never gives the processor back; what the masters do then is left out.
Hog ==
    /\ ~hogged
    /\ hogged' = TRUE
    /\ UNCHANGED <<lwipVars, threadVars, masterVars>>

Next ==
    \/ ~hogged /\ (MbStep \/ MasterStep) /\ UNCHANGED hogged
    \/ Hog

Spec == Init /\ [][Next]_vars

\* The thread runs again and again while the HTTP thread, which has the higher
\* priority in every build, is not caught.
FairSpec == Spec /\ WF_vars(~hogged /\ MbStep /\ UNCHANGED hogged)

----------------------------------------------------------------------------

\* Every open descriptor belongs to exactly one slot, but between accept() and
\* the search for one, and every slot's descriptor is open: select() never fails
\* on a stale one, as it does in the HTTP thread.
SlotsMatchSockets ==
    /\ \A fd \in Fds :
           IsOpen(fd) <=> \/ \E s \in Slots : accept_sock[s] = fd
                          \/ mpc = "track" /\ new_sock = fd
    /\ \A s, t \in Slots :
           accept_sock[s] = accept_sock[t] /\ accept_sock[s] # NoFd => s = t

\* Every request fits the 20 bytes of one recv(), and TCP brings it in one segment.
WholeOnly == Splitters = {} /\ \A request \in Requests : request.op # "many"

\* The slot that is answered is the one that was received from: while requests
\* come whole, no slot stays in use from one poll to the next.
OneSlotInUse ==
    WholeOnly =>
        \A s \in Slots : in_use[s] =>
            /\ mpc = "reply"
            /\ \A t \in Slots : in_use[t] => s = t

\* What the client on connection c will be told, once its request was carried out.
Outcome(c) ==
    IF mpc = "reply" /\ \E s \in Slots : in_use[s] /\ ConnAt(accept_sock[s]) = c
    THEN out ELSE NoAnswer

Service == INSTANCE ModbusService WITH
    Clients <- Conns, First <- 0, register <- reg,
    outcome <- [c \in Conns |-> Outcome(c)]

\* While requests come whole, the slots, buffers and descriptors implement
\* ModbusService: no request is carried out twice, in parts or for another
\* client, and no answer goes to somebody else.
ServiceKept == Service!Spec

\* README.md: the thread is "a TCP server that can handle multiple clients
\* exchanging data using modbus protocol": who sends requests of up to 20 bytes,
\* each in one segment and one at a time, is answered each of them, whatever other
\* clients do, or his connection ends - unless the HTTP thread keeps the processor.
WholeRequestIsAnswered ==
    \A c \in Conns \ Splitters :
        (asked[c] # NoRequest /\ asked[c].op # "many")
            ~> (asked[c] = NoRequest \/ srv[c] = "closed" \/ peer[c] = "rst" \/ hogged)
=============================================================================
