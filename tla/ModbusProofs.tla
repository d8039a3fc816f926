---------------------------- MODULE ModbusProofs ----------------------------
(***************************************************************************)
(* Proofs about the Modbus server, for any number of clients, slots and    *)
(* descriptors: its types, that slots and descriptors match, and - while   *)
(* requests come whole - that it implements ModbusService.        *)
(***************************************************************************)
EXTENDS ModbusServer, TLAPS

----------------------------------------------------------------------------
(* Words, buffers and answers.                                             *)

\* What a word holds as an argument is a value of the register.
LEMMA ArgType ==
  ASSUME NEW word \in Words
  PROVE  Arg(word) \in Values
  BY ModbusAssumption DEF Arg, Words, Values

\* A request is words, three of them if it is not the long one.
LEMMA WordsOfType ==
  ASSUME NEW request \in Requests
  PROVE  /\ WordsOf(request) \in Seq(Words)
         /\ request.op # "many" => WordsOf(request) = << [part |-> "mbap", of |-> request],
                                                        [part |-> "func", of |-> request],
                                                        [part |-> "args", of |-> request] >>
  <1> DEFINE word(part) == [part |-> part, of |-> request]
             short == << word("mbap"), word("func"), word("args") >>
             long == << word("count"), word("coils"), word("coils") >>
  <1>1. /\ word("mbap") \in Words /\ word("func") \in Words /\ word("args") \in Words
        /\ word("count") \in Words /\ word("coils") \in Words
    BY DEF Words
  <1>2. short \in Seq(Words) /\ long \in Seq(Words)
    BY <1>1
  <1>3. WordsOf(request) = IF request.op = "many" THEN short \o long ELSE short
    BY DEF WordsOf
  <1> HIDE DEF short, long
  <1>4. short \o long \in Seq(Words)
    BY <1>2
  <1>5. WordsOf(request) \in Seq(Words)
    BY <1>2, <1>3, <1>4
  <1>6. request.op # "many" => WordsOf(request) = short
    BY <1>3
  <1> QED BY <1>5, <1>6 DEF short

\* Whatever is in a buffer, what it is answered is an answer.
LEMMA AnswerType ==
  ASSUME NEW data \in Buffer, NEW any \in Values, reg \in Values
  PROVE  AnswerTo(data, any) \in Answers
  <1>1. data[1] \in Words /\ Arg(data[3]) \in Values
    BY ArgType DEF Buffer
  <1>2. data[1].part = "mbap" => data[1].of.by \in Conns
    BY <1>1, ModbusAssumption DEF Words
  <1> DEFINE to == IF data[1].part = "mbap" THEN data[1].of.by ELSE NoConn
             says == IF Exceptional(data) THEN "exception" ELSE "done"
             value == CASE Exceptional(data) -> 0
                        [] ~Exceptional(data) /\ data[2].of.op \in {"read", "far"} -> reg
                        [] ~Exceptional(data) /\ data[2].of.op = "alien" -> any
                        [] OTHER -> Arg(data[3])
  <1>3. to \in Conns \cup {NoConn} /\ says \in {"done", "exception"}
    BY <1>2
  <1>4. value \in Values
    BY <1>1 DEF Values
  <1>5. AnswerTo(data, any) = [to |-> to, says |-> says, value |-> value]
    BY DEF AnswerTo
  <1> HIDE DEF to, says, value
  <1> QED BY <1>3, <1>4, <1>5 DEF Answers

----------------------------------------------------------------------------
(* Types.                                                                  *)

\* Replacing the first words of a buffer gives a buffer.
LEMMA OverlayType ==
  ASSUME NEW old \in Buffer, NEW received \in Seq(Words),
         NEW n \in Nat, n <= Len(received)
  PROVE  [k \in 1..5 |-> IF k <= n THEN received[k] ELSE old[k]] \in Buffer
  <1>1. ASSUME NEW k \in 1..5
        PROVE  (IF k <= n THEN received[k] ELSE old[k]) \in Words
    BY DEF Buffer
  <1> QED BY <1>1 DEF Buffer

\* recv() keeps the types, whatever the poll finds.
LEMMA RecvTypes ==
  ASSUME TypeOK, NEW s \in Slots, MbRecv(s), UNCHANGED masterVars, UNCHANGED hogged
  PROVE  TypeOK'
  <1> DEFINE c == ConnAt(accept_sock[s])
             count == IF Len(rxq[c]) < 5 THEN Len(rxq[c]) ELSE 5
  <1>1. c \in Conns
    BY DEF MbRecv, TypeOK, ConnAt
  <1>2. rxq[c] \in Seq(Words) /\ count \in Nat /\ count <= Len(rxq[c])
    BY <1>1 DEF TypeOK
  <1>3. rxq' \in [Conns -> Seq(Words)]
    <2>1. SubSeq(rxq[c], count + 1, Len(rxq[c])) \in Seq(Words)
      BY <1>2
    <2>2. rxq' = [rxq EXCEPT ![c] = SubSeq(rxq[c], count + 1, Len(rxq[c]))]
      BY DEF MbRecv
    <2> HIDE DEF count, c
    <2> QED BY <2>1, <2>2, <1>1 DEF TypeOK
  <1>4. client_data' \in [Slots -> Buffer]
    <2>1. client_data' = [client_data EXCEPT ![s] =
             [k \in 1..5 |-> IF k <= count THEN rxq[c][k] ELSE client_data[s][k]]]
      BY DEF MbRecv
    <2>2. client_data[s] \in Buffer
      BY DEF TypeOK
    <2> HIDE DEF count, c
    <2>3. [k \in 1..5 |-> IF k <= count THEN rxq[c][k] ELSE client_data[s][k]] \in Buffer
      BY <1>2, <2>2, OverlayType
    <2> QED BY <2>1, <2>3 DEF TypeOK
  <1>5. in_use' \in [Slots -> BOOLEAN] /\ readfds' \subseteq Fds \cup {Listening}
    BY DEF TypeOK, MbRecv, Scanning
  <1>6. mpc' \in {"scan", "reply"} /\ out' \in Answers \cup {NoAnswer} /\ reg' \in Values
    <2>1. PICK t \in Slots :
            \/ mpc' = "scan" /\ UNCHANGED <<out, reg>>
            \/ /\ mpc' = "reply"
               /\ \E any \in Values : out' = AnswerTo(client_data'[t], any)
               /\ reg' = IF Writes(client_data'[t]) THEN Arg(client_data'[t][3]) ELSE reg
      BY DEF MbRecv, Poll
    <2>2. client_data'[t] \in Buffer
      BY <1>4
    <2>3. client_data'[t][3] \in Words
      BY <2>2 DEF Buffer
    <2>4. /\ \A any \in Values : AnswerTo(client_data'[t], any) \in Answers
          /\ Arg(client_data'[t][3]) \in Values
      BY <2>2, <2>3, AnswerType, ArgType DEF TypeOK
    <2> QED BY <2>1, <2>4 DEF TypeOK
  <1>7. UNCHANGED <<accept_sock, new_sock, client_pos, listening, sock, acceptmbox, srv,
                    peer, eof, asked, answer, rest>>
    BY DEF MbRecv, masterVars
  <1> QED BY <1>3, <1>4, <1>5, <1>6, <1>7 DEF TypeOK

\* recv() that finds no data takes none.
LEMMA NothingTaken ==
  ASSUME TypeOK, NEW c, RecvOutcome(c) # "data", Recv(c, 0)
  PROVE  rxq' = rxq
  <1>1. rxq \in [Conns -> Seq(Words)]
    BY DEF TypeOK
  <1>2. CASE c \in Conns
    <2>1. rxq[c] = <<>>
      BY DEF RecvOutcome
    <2>2. rxq[c] \in Seq(Words) /\ Len(rxq[c]) = 0
      BY <1>1, <1>2, <2>1
    <2>3. SubSeq(rxq[c], 1, 0) = <<>>
      BY <2>2
    <2>4. rxq' = [rxq EXCEPT ![c] = SubSeq(rxq[c], 1, 0)]
      BY <2>2 DEF Recv
    <2> QED BY <1>1, <1>2, <2>1, <2>3, <2>4
  <1>3. CASE c \notin Conns
    BY <1>1, <1>3 DEF Recv
  <1> QED BY <1>2, <1>3

\* So does every step of the thread.
LEMMA ThreadTypes ==
  ASSUME TypeOK, MbStep, UNCHANGED hogged
  PROVE  TypeOK'
  <1>1. CASE MbReply
    <2>1. PICK s \in Slots :
            /\ in_use' = [in_use EXCEPT ![s] = FALSE]
            /\ answer' = IF ConnAt(accept_sock[s]) # NoConn /\ peer[ConnAt(accept_sock[s])] # "rst"
                         THEN [answer EXCEPT ![ConnAt(accept_sock[s])] = out] ELSE answer
            /\ asked' = IF ConnAt(accept_sock[s]) # NoConn
                        THEN [asked EXCEPT ![ConnAt(accept_sock[s])] = NoRequest] ELSE asked
      BY <1>1 DEF MbReply
    <2>2. /\ in_use' \in [Slots -> BOOLEAN]
          /\ answer' \in [Conns -> Answers \cup {NoAnswer}]
          /\ asked' \in [Conns -> Requests \cup {NoRequest}]
      BY <2>1 DEF TypeOK
    <2> QED BY <1>1, <2>2 DEF MbReply, TypeOK, lwipVars
  <1>2. CASE MbSelect /\ UNCHANGED masterVars
    BY <1>2 DEF MbSelect, TypeOK, lwipVars, masterVars, Watched, Listening
  <1>3. CASE MbAccept /\ UNCHANGED masterVars
    <2>1. acceptmbox # <<>> => Head(acceptmbox) \in Conns /\ Tail(acceptmbox) \in Seq(Conns)
      BY DEF TypeOK
    <2>2. CASE \E fd \in Fds : Accept(fd) /\ new_sock' = fd /\ mpc' = "track"
      BY <1>3, <2>1, <2>2 DEF MbAccept, Accept, TypeOK, masterVars
    <2>3. CASE AcceptFails /\ mpc' = "scan" /\ UNCHANGED new_sock
      BY <1>3, <2>1, <2>3 DEF MbAccept, AcceptFails, TypeOK, masterVars
    <2> QED BY <1>3, <2>2, <2>3 DEF MbAccept
  <1>4. CASE MbTrack /\ UNCHANGED masterVars
    <2>1. CASE SetNonblock(new_sock)
      BY <1>4, <2>1 DEF MbTrack, SetNonblock, TypeOK, masterVars
    <2>2. CASE Close(new_sock) /\ UNCHANGED accept_sock
      BY <1>4, <2>2 DEF MbTrack, Close, IsOpen, ConnAt, TypeOK, masterVars
    <2> QED BY <1>4, <2>1, <2>2 DEF MbTrack
  <1>5. CASE MbDrop /\ UNCHANGED masterVars
    BY <1>5 DEF MbDrop, Close, IsOpen, ConnAt, TypeOK, masterVars
  <1>6. CASE MbScanDone /\ UNCHANGED masterVars
    BY <1>6 DEF MbScanDone, TypeOK, lwipVars, masterVars
  <1>7. ASSUME NEW s \in Slots, MbRecv(s), UNCHANGED masterVars
        PROVE  TypeOK'
    BY <1>7, RecvTypes
  <1>8. ASSUME NEW s \in Slots, MbRecvEnd(s), UNCHANGED masterVars
        PROVE  TypeOK'
    <2>1. rxq' = rxq
      BY <1>8, NothingTaken DEF MbRecvEnd
    <2> QED BY <1>8, <2>1 DEF MbRecvEnd, Scanning, Recv, TypeOK, masterVars
  <1> QED BY <1>1, <1>2, <1>3, <1>4, <1>5, <1>6, <1>7, <1>8 DEF MbStep

\* And every step of the clients.
LEMMA MasterTypes ==
  ASSUME TypeOK, MasterStep, UNCHANGED hogged
  PROVE  TypeOK'
  <1>1. ASSUME NEW c \in Conns, TcpConnect(c) \/ TcpFin(c) \/ TcpRst(c),
               UNCHANGED masterVars, UNCHANGED threadVars
        PROVE  TypeOK'
    <2>1. Append(acceptmbox, c) \in Seq(Conns)
      BY DEF TypeOK
    <2> QED BY <1>1, <2>1 DEF TcpConnect, TcpFin, TcpRst, TypeOK, masterVars, threadVars
  <1>2. ASSUME NEW c \in Conns, NEW request \in Requests, MasterAsk(c, request),
               UNCHANGED threadVars
        PROVE  TypeOK'
    <2> DEFINE length == Len(WordsOf(request))
    <2>1. PICK n \in 1..length :
            /\ TcpDeliver(c, SubSeq(WordsOf(request), 1, n))
            /\ rest' = [rest EXCEPT ![c] = SubSeq(WordsOf(request), n + 1, length)]
      BY <1>2 DEF MasterAsk
    <2>2. SubSeq(WordsOf(request), 1, n) \in Seq(Words)
      BY WordsOfType
    <2>3. SubSeq(WordsOf(request), n + 1, length) \in Seq(Words)
      BY WordsOfType
    <2>4. rxq[c] \o SubSeq(WordsOf(request), 1, n) \in Seq(Words)
      BY <2>2 DEF TypeOK
    <2> QED BY <1>2, <2>1, <2>3, <2>4 DEF MasterAsk, TcpDeliver, TypeOK, threadVars
  <1>3. ASSUME NEW c \in Conns, MasterRest(c), UNCHANGED threadVars
        PROVE  TypeOK'
    <2>1. rxq[c] \o rest[c] \in Seq(Words) /\ <<>> \in Seq(Words)
      BY DEF TypeOK
    <2> QED BY <1>3, <2>1 DEF MasterRest, TcpDeliver, TypeOK, threadVars
  <1> QED BY <1>1, <1>2, <1>3 DEF MasterStep

\* The variables keep their types.
THEOREM ModbusTypes == Spec => []TypeOK
  <1>1. Init => TypeOK
    <2> SUFFICES ASSUME Init PROVE TypeOK
      OBVIOUS
    <2>1. [k \in 1..5 |-> [part |-> "zero"]] \in Buffer
      BY DEF Buffer, Words
    <2>2. 1 \in Slots
      BY ModbusAssumption DEF Slots
    <2>3. client_data \in [Slots -> Buffer]
      BY <2>1 DEF Init
    <2>4. <<>> \in Seq(Conns) /\ <<>> \in Seq(Words)
      OBVIOUS
    <2> QED BY <2>2, <2>3, <2>4 DEF Init, LwipInit, TypeOK, Values
  <1>2. TypeOK /\ [Next]_vars => TypeOK'
    <2> SUFFICES ASSUME TypeOK, [Next]_vars PROVE TypeOK'
      OBVIOUS
    <2>1. CASE UNCHANGED vars \/ Hog
      BY <2>1 DEF vars, Hog, lwipVars, threadVars, masterVars, TypeOK
    <2> QED BY <2>1, ThreadTypes, MasterTypes DEF Next
  <1> QED BY <1>1, <1>2, PTL DEF Spec

----------------------------------------------------------------------------
(* Slots and descriptors.                                                  *)

\* What accept() returned is, until it is put somewhere, in no slot.
NewSockIsNew ==
    mpc = "track" => new_sock \in Fds /\ \A s \in Slots : accept_sock[s] # new_sock

SlotInv == TypeOK /\ SlotsMatchSockets /\ NewSockIsNew

\* What is open stays so while the table does.
LEMMA OpenAsBefore ==
  ASSUME UNCHANGED sock
  PROVE  \A fd : IsOpen(fd)' = IsOpen(fd)
  BY DEF IsOpen, ConnAt

\* close() leaves one descriptor closed and every other as it was.
LEMMA CloseOpens ==
  ASSUME TypeOK, NEW fd, Close(fd)
  PROVE  \A g \in Fds : IsOpen(g)' <=> IsOpen(g) /\ g # fd
  BY DEF TypeOK, Close, IsOpen, ConnAt

\* Every step keeps slots and descriptors matched.
LEMMA SlotStep ==
  ASSUME SlotInv, TypeOK', [Next]_vars
  PROVE  SlotsMatchSockets' /\ NewSockIsNew'
  <1> USE DEF SlotInv
  <1>1. ASSUME UNCHANGED <<sock, accept_sock>>, mpc # "track", mpc' # "track"
        PROVE  SlotsMatchSockets' /\ NewSockIsNew'
    BY <1>1, OpenAsBefore DEF SlotsMatchSockets, NewSockIsNew
  <1>2. ASSUME UNCHANGED <<sock, accept_sock, mpc, new_sock>>
        PROVE  SlotsMatchSockets' /\ NewSockIsNew'
    BY <1>2, OpenAsBefore DEF SlotsMatchSockets, NewSockIsNew
  <1>3. CASE UNCHANGED vars \/ MasterStep \/ Hog
    <2>1. UNCHANGED <<sock, accept_sock, mpc, new_sock>>
      BY <1>3 DEF vars, Hog, lwipVars, threadVars, MasterStep, TcpConnect, TcpFin, TcpRst,
                  MasterAsk, MasterRest, TcpDeliver
    <2> QED BY <2>1, <1>2
  <1>4. CASE MbReply
    BY <1>4, <1>1 DEF MbReply, lwipVars
  <1>5. CASE MbSelect
    BY <1>5, <1>1 DEF MbSelect, lwipVars
  <1>6. CASE MbAccept
    <2>1. CASE AcceptFails /\ mpc' = "scan" /\ UNCHANGED new_sock
      BY <1>6, <2>1, <1>1 DEF MbAccept, AcceptFails
    <2>2. CASE \E fd \in Fds : Accept(fd) /\ new_sock' = fd /\ mpc' = "track"
      <3>1. PICK fd \in Fds : Accept(fd) /\ new_sock' = fd /\ mpc' = "track"
        BY <2>2
      <3>2. sock[fd] = NoConn /\ sock' = [sock EXCEPT ![fd] = Head(acceptmbox)]
        BY <3>1 DEF Accept, LowestFree
      <3>3. Head(acceptmbox) \in Conns
        BY <3>1 DEF Accept, TypeOK
      <3>4. \A g \in Fds : IsOpen(g)' <=> IsOpen(g) \/ g = fd
        BY <3>2, <3>3, LwipAssumption DEF IsOpen, ConnAt, TypeOK
      <3>5. ~IsOpen(fd) /\ mpc # "track" /\ UNCHANGED accept_sock
        BY <1>6, <3>2 DEF IsOpen, ConnAt, MbAccept
      <3> QED BY <3>1, <3>4, <3>5 DEF SlotsMatchSockets, NewSockIsNew
    <2> QED BY <1>6, <2>1, <2>2 DEF MbAccept
  <1>7. CASE MbTrack
    <2>1. mpc = "track" /\ mpc' = "scan"
      BY <1>7 DEF MbTrack
    <2>2. CASE \E s \in Slots : /\ accept_sock[s] = NoFd
                              /\ SetNonblock(new_sock)
                              /\ accept_sock' = [accept_sock EXCEPT ![s] = new_sock]
      <3>1. PICK s \in Slots : /\ accept_sock[s] = NoFd
                              /\ SetNonblock(new_sock)
                              /\ accept_sock' = [accept_sock EXCEPT ![s] = new_sock]
        BY <2>2
      <3>2. \A fd \in Fds : IsOpen(fd)' <=> IsOpen(fd)
        BY <3>1, OpenAsBefore DEF SetNonblock
      <3>3. NoFd \notin Fds
        BY DEF NoFd, Fds
      <3>4. accept_sock \in [Slots -> Fds \cup {NoFd}]
        BY DEF TypeOK
      <3> QED BY <2>1, <3>1, <3>2, <3>3, <3>4 DEF SlotsMatchSockets, NewSockIsNew
    <2>3. CASE Close(new_sock) /\ UNCHANGED accept_sock
      BY <2>1, <2>3, CloseOpens DEF SlotsMatchSockets, NewSockIsNew
    <2> QED BY <1>7, <2>2, <2>3 DEF MbTrack
  <1>8. CASE MbDrop
    <2>1. /\ mpc = "drop" /\ mpc' = "scan"
          /\ Close(accept_sock[client_pos])
          /\ accept_sock' = [accept_sock EXCEPT ![client_pos] = NoFd]
      BY <1>8 DEF MbDrop
    <2>2. \A g \in Fds : IsOpen(g)' <=> IsOpen(g) /\ g # accept_sock[client_pos]
      BY <2>1, CloseOpens
    <2>3. NoFd \notin Fds
      BY DEF NoFd, Fds
    <2>4. accept_sock \in [Slots -> Fds \cup {NoFd}] /\ client_pos \in Slots
      BY DEF TypeOK
    <2> QED BY <2>1, <2>2, <2>3, <2>4 DEF SlotsMatchSockets, NewSockIsNew
  <1>9. CASE MbScanDone
    BY <1>9, <1>1 DEF MbScanDone, lwipVars
  <1>10. CASE \E s \in Slots : MbRecv(s) \/ MbRecvEnd(s)
    BY <1>10, <1>1 DEF MbRecv, MbRecvEnd, Scanning, Recv, Poll
  <1> QED BY <1>3, <1>4, <1>5, <1>6, <1>7, <1>8, <1>9, <1>10 DEF Next, MbStep

\* The strengthening of SlotsMatchSockets holds in every state.
LEMMA SlotInvariance == Spec => []SlotInv
  <1>1. Init => SlotsMatchSockets /\ NewSockIsNew
    <2>1. NoFd \notin Fds
      BY DEF NoFd, Fds
    <2> QED BY <2>1 DEF Init, LwipInit, SlotsMatchSockets, NewSockIsNew, IsOpen, ConnAt
  <1>2. TypeOK /\ SlotsMatchSockets /\ NewSockIsNew /\ TypeOK' /\ [Next]_vars
        => SlotsMatchSockets' /\ NewSockIsNew'
    BY SlotStep DEF SlotInv
  <1> QED BY <1>1, <1>2, ModbusTypes, PTL DEF Spec, SlotInv

\* The open descriptors are those in the slots, each in one: select() is never
\* given a closed one, and none is forgotten open.
THEOREM SlotsAreTheSockets == Spec => []SlotsMatchSockets
  BY SlotInvariance, PTL DEF SlotInv

----------------------------------------------------------------------------
(* The service, while requests come whole.                                 *)

\* A connection holds the whole request that its client waits for, or nothing.
WholeRequests ==
    \A c \in Conns :
        /\ rest[c] = <<>>
        /\ asked[c] = NoRequest => rxq[c] = <<>>
        /\ asked[c] # NoRequest =>
              asked[c].by = c /\ (rxq[c] = <<>> \/ rxq[c] = WordsOf(asked[c]))

\* Slot s alone is in use, for a client whose request was taken and carried out.
Serving(s) ==
    /\ \A t \in Slots : in_use[t] <=> t = s
    /\ ConnAt(accept_sock[s]) \in Conns
    /\ asked[ConnAt(accept_sock[s])] # NoRequest
    /\ rxq[ConnAt(accept_sock[s])] = <<>>
    /\ out \in Answers

ServiceInv ==
    /\ TypeOK
    /\ WholeRequests
    /\ mpc # "reply" => out = NoAnswer /\ \A s \in Slots : ~in_use[s]
    /\ mpc = "reply" => \E s \in Slots : Serving(s)

\* A request is not the absence of one, an answer not the absence of one.
LEMMA Absences ==
  /\ NoRequest \notin Requests
  /\ NoAnswer \notin Answers
  BY ModbusAssumption DEF NoRequest, NoAnswer, Answers

\* A buffer that starts with a whole request is answered what it asked for, and
\* does to the register what it asked for.
LEMMA WholeRequest ==
  ASSUME TypeOK, NEW request \in Requests, request.op # "many", NEW data, NEW any,
         data[1] = [part |-> "mbap", of |-> request],
         data[2] = [part |-> "func", of |-> request],
         data[3] = [part |-> "args", of |-> request]
  PROVE  /\ ~Rejected(data) /\ ~MayBeRejected(data)
         /\ AnswerTo(data, any) = Service!Outcome(request, any)
         /\ (IF Writes(data) THEN Arg(data[3]) ELSE reg) = Service!Effect(request)
  <1>1. /\ request.op \in {"read", "write", "far", "alien", "other"}
        /\ request.value \in {0, 1}
    BY ModbusAssumption DEF Operations
  <1>2. ~Rejected(data) /\ ~MayBeRejected(data)
    BY DEF Rejected, MayBeRejected
  <1>3. Exceptional(data) <=> request.op \in {"far", "other"}
    BY <1>1 DEF Exceptional, Arg, Far, AllOnes
  <1>4. Writes(data) <=> request.op = "write"
    BY <1>1, <1>3 DEF Writes
  <1>5. request.op = "write" => Arg(data[3]) = request.value
    BY DEF Arg
  <1>6. AnswerTo(data, any) = Service!Outcome(request, any)
    <2>1. data[1].part = "mbap" /\ data[1].of.by = request.by /\ data[2].of.op = request.op
      OBVIOUS
    <2>2. CASE request.op = "read"
      BY <1>3, <2>1, <2>2 DEF AnswerTo, Service!Outcome
    <2>3. CASE request.op = "write"
      BY <1>3, <1>5, <2>1, <2>3 DEF AnswerTo, Service!Outcome
    <2>4. CASE request.op = "alien"
      BY <1>3, <2>1, <2>4 DEF AnswerTo, Service!Outcome
    <2>5. CASE request.op \in {"far", "other"}
      BY <1>3, <2>1, <2>5 DEF AnswerTo, Service!Outcome
    <2> QED BY <1>1, <2>2, <2>3, <2>4, <2>5
  <1>7. (IF Writes(data) THEN Arg(data[3]) ELSE reg) = Service!Effect(request)
    BY <1>4, <1>5 DEF Service!Effect
  <1> QED BY <1>2, <1>6, <1>7

\* recv() of a whole request puts it at the start of the buffer and the poll
\* carries it out.
LEMMA RecvCarriesOut ==
  ASSUME WholeOnly, ServiceInv, NEW s \in Slots, MbRecv(s), UNCHANGED masterVars,
         NEW c, c = ConnAt(accept_sock[s])
  PROVE  /\ c \in Conns /\ asked[c] \in Requests
         /\ mpc # "reply" /\ mpc' = "reply"
         /\ \E any \in Values : out' = Service!Outcome(asked[c], any)
         /\ reg' = Service!Effect(asked[c])
         /\ rxq' = [rxq EXCEPT ![c] = <<>>]
         /\ \A t \in Slots : in_use'[t] <=> t = s
  <1>1. c \in Conns /\ rxq[c] # <<>>
    BY DEF MbRecv, ServiceInv, TypeOK, ConnAt, RecvOutcome
  <1>2. asked[c] \in Requests /\ rxq[c] = WordsOf(asked[c])
    BY <1>1 DEF ServiceInv, WholeRequests, TypeOK
  <1>3. /\ asked[c].op # "many" /\ Len(rxq[c]) = 3
        /\ rxq[c] = << [part |-> "mbap", of |-> asked[c]],
                       [part |-> "func", of |-> asked[c]],
                       [part |-> "args", of |-> asked[c]] >>
    BY <1>2, WordsOfType DEF WholeOnly
  <1>4. rxq' = [rxq EXCEPT ![c] = <<>>]
    <2>1. SubSeq(rxq[c], 4, 3) = <<>>
      <3>1. rxq[c] \in Seq(Words)
        BY <1>2, WordsOfType
      <3> QED BY <3>1
    <2>2. rxq' = [rxq EXCEPT ![c] = SubSeq(rxq[c], 4, 3)]
      BY <1>3 DEF MbRecv
    <2> QED BY <2>1, <2>2
  <1>5. /\ client_data'[s][1] = [part |-> "mbap", of |-> asked[c]]
        /\ client_data'[s][2] = [part |-> "func", of |-> asked[c]]
        /\ client_data'[s][3] = [part |-> "args", of |-> asked[c]]
    <2>1. client_data' = [client_data EXCEPT ![s] =
             [k \in 1..5 |-> IF k <= 3 THEN rxq[c][k] ELSE client_data[s][k]]]
      BY <1>3 DEF MbRecv
    <2>2. client_data'[s] =
             [k \in 1..5 |-> IF k <= 3 THEN rxq[c][k] ELSE client_data[s][k]]
      BY <2>1 DEF ServiceInv, TypeOK
    <2>3. \A k \in 1..3 : client_data'[s][k] = rxq[c][k]
      BY <2>2
    <2> QED BY <1>3, <2>3
  <1>6. mpc = "scan" /\ \A t \in Slots : ~in_use[t]
    BY DEF MbRecv, Scanning, ServiceInv
  <1>7. \A t \in Slots : in_use'[t] <=> t = s
    BY <1>6 DEF MbRecv, ServiceInv, TypeOK
  <1>8. /\ ~Rejected(client_data'[s]) /\ ~MayBeRejected(client_data'[s])
        /\ \A any \in Values :
               AnswerTo(client_data'[s], any) = Service!Outcome(asked[c], any)
        /\ (IF Writes(client_data'[s]) THEN Arg(client_data'[s][3]) ELSE reg)
             = Service!Effect(asked[c])
    <2>1. ASSUME NEW any \in Values
          PROVE  /\ ~Rejected(client_data'[s]) /\ ~MayBeRejected(client_data'[s])
                 /\ AnswerTo(client_data'[s], any) = Service!Outcome(asked[c], any)
                 /\ (IF Writes(client_data'[s]) THEN Arg(client_data'[s][3]) ELSE reg)
                      = Service!Effect(asked[c])
      BY <1>2, <1>3, <1>5, WholeRequest DEF ServiceInv
    <2>2. 0 \in Values
      BY DEF Values
    <2> QED BY <2>1, <2>2
  <1>9. Poll(in_use', client_data')
    BY DEF MbRecv
  <1>10. PICK t \in Slots :
          /\ in_use'[t]
          /\ \/ Rejected(client_data'[t]) \/ MayBeRejected(client_data'[t])
             \/ /\ mpc' = "reply"
                /\ \E any \in Values : out' = AnswerTo(client_data'[t], any)
                /\ reg' = IF Writes(client_data'[t]) THEN Arg(client_data'[t][3]) ELSE reg
    BY <1>9 DEF Poll, FirstInUse
  <1>11. t = s
    BY <1>7, <1>10
  <1>12. /\ mpc' = "reply"
         /\ \E any \in Values : out' = Service!Outcome(asked[c], any)
         /\ reg' = Service!Effect(asked[c])
    BY <1>8, <1>10, <1>11
  <1> QED BY <1>1, <1>2, <1>4, <1>6, <1>7, <1>12

\* Outside a poll, steps of the thread leave requests and slots as they were.
LEMMA QuietStep ==
  ASSUME ServiceInv, UNCHANGED masterVars,
         \/ MbSelect \/ MbAccept \/ MbTrack \/ MbDrop \/ MbScanDone
         \/ \E s \in Slots : MbRecvEnd(s)
  PROVE  /\ mpc # "reply" /\ mpc' # "reply"
         /\ UNCHANGED <<out, in_use, reg, asked, answer>>
         /\ WholeRequests'
  <1>1. /\ mpc # "reply" /\ mpc' # "reply"
        /\ UNCHANGED <<out, in_use, reg>>
    BY DEF MbSelect, MbAccept, MbTrack, MbDrop, MbScanDone, MbRecvEnd, Scanning
  <1>2. rxq' = rxq
    <2>1. CASE \E s \in Slots : MbRecvEnd(s)
      BY <2>1, NothingTaken DEF MbRecvEnd, ServiceInv
    <2>2. CASE ~\E s \in Slots : MbRecvEnd(s)
      BY <2>2 DEF MbSelect, MbAccept, MbTrack, MbDrop, MbScanDone,
             Accept, AcceptFails, SetNonblock, Close, lwipVars
    <2> QED BY <2>1, <2>2
  <1>3. UNCHANGED <<asked, answer, rest>>
    BY DEF masterVars
  <1>4. \A c \in Conns : rxq'[c] = rxq[c] \/ rxq'[c] = <<>>
    BY <1>2 DEF ServiceInv, TypeOK
  <1> QED BY <1>1, <1>3, <1>4 DEF ServiceInv, WholeRequests

\* The answer goes out, and no slot is left in use.
LEMMA ReplyAnswers ==
  ASSUME ServiceInv, MbReply
  PROVE  \E s \in Slots :
            /\ Serving(s)
            /\ LET c == ConnAt(accept_sock[s]) IN
               /\ asked' = [asked EXCEPT ![c] = NoRequest]
               /\ \/ answer' = [answer EXCEPT ![c] = out]
                  \/ answer' = answer
            /\ \A t \in Slots : ~in_use'[t]
  <1>1. PICK s \in Slots : Serving(s)
    BY DEF ServiceInv, MbReply
  <1> DEFINE c == ConnAt(accept_sock[s])
  <1>2. c \in Conns /\ c # NoConn
    BY <1>1, LwipAssumption DEF Serving
  <1>3. \A t \in Slots : FirstInUse(in_use, t) => t = s
    BY <1>1 DEF FirstInUse, Serving
  <1>4. /\ in_use' = [in_use EXCEPT ![s] = FALSE]
        /\ answer' = IF c # NoConn /\ peer[c] # "rst"
                     THEN [answer EXCEPT ![c] = out] ELSE answer
        /\ asked' = IF c # NoConn THEN [asked EXCEPT ![c] = NoRequest] ELSE asked
    BY <1>3 DEF MbReply
  <1>5. \A t \in Slots : ~in_use'[t]
    BY <1>1, <1>4 DEF Serving, ServiceInv, TypeOK
  <1> QED BY <1>1, <1>2, <1>4, <1>5

\* A client's new request is whole, and nothing of an earlier one is left.
LEMMA AskWhole ==
  ASSUME WholeOnly, ServiceInv, NEW c \in Conns, NEW request \in Requests,
         MasterAsk(c, request)
  PROVE  /\ asked[c] = NoRequest /\ request.by = c
         /\ asked' = [asked EXCEPT ![c] = request]
         /\ rxq' = [rxq EXCEPT ![c] = WordsOf(request)]
         /\ rest' = rest
  <1>0. /\ WordsOf(request) \in Seq(Words) /\ Len(WordsOf(request)) = 3
        /\ WordsOf(request) # <<>>
    BY WordsOfType DEF WholeOnly
  <1>1. /\ TcpDeliver(c, SubSeq(WordsOf(request), 1, 3))
        /\ rest' = [rest EXCEPT ![c] = SubSeq(WordsOf(request), 4, 3)]
    <2>1. PICK n \in 1..3 :
            /\ n = 3 \/ c \in Splitters
            /\ TcpDeliver(c, SubSeq(WordsOf(request), 1, n))
            /\ rest' = [rest EXCEPT ![c] = SubSeq(WordsOf(request), n + 1, 3)]
      BY <1>0 DEF MasterAsk
    <2> QED BY <2>1 DEF WholeOnly
  <1>2. rxq[c] = <<>> /\ rest[c] = <<>>
    BY DEF MasterAsk, ServiceInv, WholeRequests
  <1>3. SubSeq(WordsOf(request), 1, 3) = WordsOf(request)
    <2>1. ASSUME NEW q \in Seq(Words), Len(q) = 3
          PROVE  SubSeq(q, 1, 3) = q
      BY <2>1
    <2> QED BY <1>0, <2>1
  <1>4. SubSeq(WordsOf(request), 4, 3) = <<>>
    BY <1>0
  <1>5. <<>> \o WordsOf(request) = WordsOf(request)
    BY <1>0
  <1>6. rest' = rest
    BY <1>1, <1>2, <1>4 DEF ServiceInv, TypeOK
  <1>7. rxq' = [rxq EXCEPT ![c] = WordsOf(request)]
    BY <1>1, <1>2, <1>3, <1>5 DEF TcpDeliver
  <1> QED BY <1>6, <1>7 DEF MasterAsk

\* A client asks, connects or hangs up.
LEMMA MasterKinds ==
  ASSUME WholeOnly, ServiceInv, MasterStep
  PROVE  /\ UNCHANGED <<threadVars, sock>>
         /\ \/ UNCHANGED <<asked, answer, rest, rxq>>
            \/ \E c \in Conns, request \in Requests : MasterAsk(c, request)
  <1>1. ASSUME NEW c \in Conns, MasterRest(c)
        PROVE  FALSE
    BY <1>1 DEF MasterRest, ServiceInv, WholeRequests
  <1>2. UNCHANGED <<threadVars, sock>>
    BY DEF MasterStep, MasterAsk, MasterRest, TcpConnect, TcpFin, TcpRst, TcpDeliver
  <1> QED BY <1>1, <1>2 DEF MasterStep, TcpConnect, TcpFin, TcpRst, masterVars

\* Every step keeps requests whole and the slot in use the one served.
LEMMA ServiceInvStep ==
  ASSUME WholeOnly, ServiceInv, TypeOK', [Next]_vars
  PROVE  ServiceInv'
  <1>1. ASSUME UNCHANGED <<threadVars, sock, asked, answer, rest, rxq>>
        PROVE  ServiceInv'
    BY <1>1 DEF threadVars, ServiceInv, WholeRequests, Serving, ConnAt
  <1>2. CASE UNCHANGED vars \/ Hog
    BY <1>1, <1>2 DEF vars, Hog, lwipVars, masterVars
  <1>3. CASE MbReply
    <2>1. PICK s \in Slots :
            /\ Serving(s)
            /\ asked' = [asked EXCEPT ![ConnAt(accept_sock[s])] = NoRequest]
            /\ \A t \in Slots : ~in_use'[t]
      BY <1>3, ReplyAnswers
    <2>2. mpc' = "scan" /\ out' = NoAnswer /\ UNCHANGED <<rxq, rest>>
      BY <1>3 DEF MbReply, lwipVars
    <2>3. WholeRequests'
      BY <2>1, <2>2 DEF Serving, ServiceInv, WholeRequests, TypeOK
    <2> QED BY <2>1, <2>2, <2>3 DEF ServiceInv
  <1>4. CASE /\ UNCHANGED masterVars
             /\ \/ MbSelect \/ MbAccept \/ MbTrack \/ MbDrop \/ MbScanDone
                \/ \E s \in Slots : MbRecvEnd(s)
    BY <1>4, QuietStep DEF ServiceInv
  <1>5. ASSUME NEW s \in Slots, MbRecv(s), UNCHANGED masterVars
        PROVE  ServiceInv'
    <2> DEFINE c == ConnAt(accept_sock[s])
    <2>1. /\ c \in Conns /\ asked[c] \in Requests /\ mpc' = "reply"
          /\ rxq' = [rxq EXCEPT ![c] = <<>>]
          /\ \A t \in Slots : in_use'[t] <=> t = s
          /\ \E any \in Values : out' = Service!Outcome(asked[c], any)
      BY <1>5, RecvCarriesOut
    <2>2. UNCHANGED <<accept_sock, sock, asked, answer, rest>>
      BY <1>5 DEF MbRecv, masterVars
    <2>3. WholeRequests'
      BY <2>1, <2>2 DEF ServiceInv, WholeRequests, TypeOK
    <2>4. out' \in Answers
      <3>1. asked[c].by \in Conns /\ asked[c].value \in Values /\ reg \in Values
        BY <2>1, ModbusAssumption DEF Values, ServiceInv, TypeOK
      <3>2. 0 \in Values
        BY DEF Values
      <3> QED BY <2>1, <3>1, <3>2 DEF Service!Outcome, Answers
    <2>5. ConnAt(accept_sock[s])' = c
      BY <2>2 DEF ConnAt
    <2>6. Serving(s)'
      BY <2>1, <2>2, <2>4, <2>5, Absences DEF Serving, ServiceInv, TypeOK
    <2> QED BY <2>1, <2>3, <2>6 DEF ServiceInv
  <1>6. CASE MasterStep
    <2>1. CASE UNCHANGED <<asked, answer, rest, rxq>>
      BY <1>1, <1>6, <2>1, MasterKinds
    <2>2. CASE \E c \in Conns, request \in Requests : MasterAsk(c, request)
      <3>1. PICK c \in Conns, request \in Requests : MasterAsk(c, request)
        BY <2>2
      <3>2. /\ asked[c] = NoRequest /\ request.by = c
            /\ asked' = [asked EXCEPT ![c] = request]
            /\ rxq' = [rxq EXCEPT ![c] = WordsOf(request)]
            /\ rest' = rest
        BY <3>1, AskWhole
      <3>3. UNCHANGED threadVars /\ UNCHANGED sock
        BY <1>6, MasterKinds
      <3>4. WholeRequests'
        BY <3>2, Absences DEF ServiceInv, WholeRequests, TypeOK
      <3>5. ASSUME NEW s \in Slots, Serving(s)
            PROVE  Serving(s)'
        <4>1. ConnAt(accept_sock[s])' = ConnAt(accept_sock[s])
          BY <3>3 DEF ConnAt, threadVars
        <4>2. ConnAt(accept_sock[s]) # c
          BY <3>2, <3>5 DEF Serving
        <4> QED BY <3>2, <3>3, <3>5, <4>1, <4>2 DEF Serving, threadVars, ServiceInv, TypeOK
      <3> QED BY <3>3, <3>4, <3>5 DEF ServiceInv, threadVars
    <2> QED BY <1>6, <2>1, <2>2, MasterKinds
  <1> QED BY <1>2, <1>3, <1>4, <1>5, <1>6 DEF Next, MbStep

\* The strengthening holds in every state.
LEMMA ServiceInvariance ==
  ASSUME WholeOnly
  PROVE  Spec => []ServiceInv
  <1>1. Init => WholeRequests /\ mpc # "reply" /\ out = NoAnswer
                /\ \A s \in Slots : ~in_use[s]
    BY DEF Init, LwipInit, WholeRequests
  <1>2. Init /\ TypeOK => ServiceInv
    BY <1>1 DEF ServiceInv
  <1>3. ServiceInv /\ TypeOK' /\ [Next]_vars => ServiceInv'
    BY ServiceInvStep
  <1> QED BY <1>2, <1>3, ModbusTypes, PTL DEF Spec

\* While requests come whole, the slot that nmbs_server_poll() reads
\* from and answers is the one that was received from.
THEOREM OnlyTheServedSlot == Spec => []OneSlotInUse
  <1>1. CASE WholeOnly
    <2>1. ServiceInv => OneSlotInUse
      BY DEF ServiceInv, OneSlotInUse, Serving
    <2> QED BY <1>1, <2>1, ServiceInvariance, PTL
  <1>2. CASE ~WholeOnly
    <2>1. OneSlotInUse
      BY <1>2 DEF OneSlotInUse
    <2> QED BY <2>1, PTL
  <1> QED BY <1>1, <1>2

\* What clients will be told while slot s is served.
LEMMA OutcomeServed ==
  ASSUME NEW s \in Slots, mpc = "reply", Serving(s), NEW c \in Conns
  PROVE  Outcome(c) = IF c = ConnAt(accept_sock[s]) THEN out ELSE NoAnswer
  BY DEF Outcome, Serving

\* While no slot is served nobody has an outcome waiting.
LEMMA OutcomeIdle ==
  ASSUME mpc # "reply"
  PROVE  \A c \in Conns : Outcome(c) = NoAnswer
  BY DEF Outcome

\* A step that changes no request, answer, register or slot in use is no step of
\* the service.
LEMMA ServiceStutter ==
  ASSUME UNCHANGED <<reg, asked, answer>>, \A c \in Conns : Outcome(c)' = Outcome(c)
  PROVE  [Service!Next]_Service!vars
  BY DEF Service!vars

\* recv() with the poll is the request carried out.
LEMMA ServiceRecv ==
  ASSUME WholeOnly, ServiceInv, NEW s \in Slots, MbRecv(s), UNCHANGED masterVars
  PROVE  [Service!Next]_Service!vars
  <1> DEFINE c == ConnAt(accept_sock[s])
             before == [d \in Conns |-> Outcome(d)]
             after == [d \in Conns |-> Outcome(d)']
  <1>1. /\ c \in Conns /\ asked[c] \in Requests
        /\ mpc # "reply" /\ mpc' = "reply"
        /\ \E any \in Values : out' = Service!Outcome(asked[c], any)
        /\ reg' = Service!Effect(asked[c])
        /\ \A t \in Slots : in_use'[t] <=> t = s
    BY RecvCarriesOut
  <1>2. UNCHANGED <<accept_sock, sock, asked, answer>>
    BY DEF MbRecv, masterVars
  <1>3. \A d \in Conns : Outcome(d) = NoAnswer
    BY <1>1, OutcomeIdle
  <1>4. \A d \in Conns : Outcome(d)' = IF d = c THEN out' ELSE NoAnswer
    BY <1>1, <1>2 DEF Outcome, ConnAt
  <1>5. \E any \in Values : after = [before EXCEPT ![c] = Service!Outcome(asked[c], any)]
    BY <1>1, <1>3, <1>4
  <1>6. Service!CarryOut(c)
    BY <1>1, <1>2, <1>3, <1>5, Absences DEF Service!CarryOut
  <1> QED BY <1>1, <1>6 DEF Service!Next

\* sendto() is the answer given, or lost with the connection.
LEMMA ServiceReply ==
  ASSUME ServiceInv, MbReply
  PROVE  [Service!Next]_Service!vars
  <1>1. PICK s \in Slots :
            /\ Serving(s)
            /\ LET c == ConnAt(accept_sock[s]) IN
               /\ asked' = [asked EXCEPT ![c] = NoRequest]
               /\ \/ answer' = [answer EXCEPT ![c] = out]
                  \/ answer' = answer
            /\ \A t \in Slots : ~in_use'[t]
    BY ReplyAnswers
  <1> DEFINE c == ConnAt(accept_sock[s])
             before == [d \in Conns |-> Outcome(d)]
             after == [d \in Conns |-> Outcome(d)']
  <1>2. mpc = "reply" /\ mpc' = "scan" /\ reg' = reg
    BY DEF MbReply
  <1>3. c \in Conns /\ out # NoAnswer
    BY <1>1, Absences DEF Serving
  <1>4. \A d \in Conns : Outcome(d) = IF d = c THEN out ELSE NoAnswer
    BY <1>1, <1>2, OutcomeServed
  <1>5. \A d \in Conns : Outcome(d)' = NoAnswer
    BY <1>2 DEF Outcome
  <1>6. after = [before EXCEPT ![c] = NoAnswer]
    BY <1>3, <1>4, <1>5
  <1>7. Service!Done(c)
    BY <1>1, <1>2, <1>3, <1>4, <1>6 DEF Service!Done
  <1>8. Service!Reply(c) \/ Service!Lose(c)
    BY <1>1, <1>3, <1>4, <1>7 DEF Service!Reply, Service!Lose
  <1> QED BY <1>3, <1>8 DEF Service!Next

\* A client that asks does so of the service; nothing else it does touches it.
LEMMA ServiceMaster ==
  ASSUME WholeOnly, ServiceInv, MasterStep
  PROVE  [Service!Next]_Service!vars
  <1>1. UNCHANGED <<threadVars, sock>>
    BY MasterKinds
  <1>2. \A c \in Conns : Outcome(c)' = Outcome(c)
    BY <1>1 DEF Outcome, ConnAt, threadVars
  <1>3. CASE UNCHANGED <<asked, answer, rest, rxq>>
    BY <1>1, <1>2, <1>3, ServiceStutter DEF threadVars
  <1>4. CASE \E c \in Conns, request \in Requests : MasterAsk(c, request)
    <2>1. PICK c \in Conns, request \in Requests : MasterAsk(c, request)
      BY <1>4
    <2>2. /\ asked[c] = NoRequest /\ request.by = c
          /\ asked' = [asked EXCEPT ![c] = request]
          /\ answer' = [answer EXCEPT ![c] = NoAnswer]
      BY <2>1 DEF MasterAsk
    <2>3. Service!Ask(c, request)
      BY <1>1, <1>2, <2>2 DEF Service!Ask, threadVars
    <2> QED BY <2>3 DEF Service!Next
  <1> QED BY <1>3, <1>4, MasterKinds

\* Every step maps to a step of the service or leaves it as it was.
LEMMA ServiceStep ==
  ASSUME WholeOnly, ServiceInv, [Next]_vars
  PROVE  [Service!Next]_Service!vars
  <1>1. CASE UNCHANGED vars \/ Hog
    <2>1. \A c \in Conns : Outcome(c)' = Outcome(c)
      BY <1>1 DEF Outcome, ConnAt, vars, Hog, lwipVars, threadVars
    <2> QED BY <1>1, <2>1, ServiceStutter DEF vars, Hog, threadVars, masterVars
  <1>2. CASE /\ UNCHANGED masterVars
             /\ \/ MbSelect \/ MbAccept \/ MbTrack \/ MbDrop \/ MbScanDone
                \/ \E s \in Slots : MbRecvEnd(s)
    <2>1. /\ mpc # "reply" /\ mpc' # "reply"
          /\ UNCHANGED <<reg, asked, answer>>
      BY <1>2, QuietStep
    <2>2. \A c \in Conns : Outcome(c)' = Outcome(c)
      BY <2>1 DEF Outcome
    <2> QED BY <2>1, <2>2, ServiceStutter
  <1> QED BY <1>1, <1>2, ServiceRecv, ServiceReply, ServiceMaster DEF Next, MbStep

\* While requests come whole, each is carried out once, for the client
\* that sent it, and its outcome goes to that client or is lost with its
\* connection.
THEOREM ServiceImplemented ==
  ASSUME WholeOnly
  PROVE  Spec => ServiceKept
  <1>1. Init => Service!Init
    <2> SUFFICES ASSUME Init PROVE Service!Init
      OBVIOUS
    <2>1. \A c \in Conns : Outcome(c) = NoAnswer
      BY OutcomeIdle DEF Init
    <2> QED BY <2>1 DEF Init, Service!Init
  <1>2. ServiceInv /\ [Next]_vars => [Service!Next]_Service!vars
    BY ServiceStep
  <1> QED BY <1>1, <1>2, ServiceInvariance, PTL DEF Spec, ServiceKept, Service!Spec
=============================================================================
