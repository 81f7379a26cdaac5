--------------------------- MODULE CommandServer ---------------------------
(***************************************************************************)
(* The TCP server thread of the application and the command layer above    *)
(* it: accept a connection, take each segment that arrives for one         *)
(* command, check it, run it, answer, and close when the client is gone.   *)
(* The TCP/IP thread works on the same connections: it allocates them from *)
(* a small pool, fills their mailboxes, and takes away their control block *)
(* (pcb) when they are reset or time out.                                  *)
(*                                                                         *)
(* Any number of clients may connect while one is served.  The commands of *)
(* the update are in module OnlineUpdate; here they behave as GETEDITION,  *)
(* one reply for each.  Writing a reply never blocks: clients read.        *)
(***************************************************************************)
EXTENDS Integers, FiniteSets, Sequences
LOCAL INSTANCE Functions

CONSTANTS
  DataWords,     \* words of the receive buffer Data[], 600
  Tail5E5D,      \* the word that ends a message, larger than any valid length
  NumNetconn,    \* MEMP_NUM_NETCONN: netconns of the pool, one of them listens
  AcceptMbox,    \* DEFAULT_ACCEPTMBOX_SIZE
  RecvMbox,      \* DEFAULT_TCP_RECVMBOX_SIZE
  MaxConns,      \* bound on the connections attempted
  MaxSent,       \* bounds on the pieces of data sent over each
  Packets,       \* packets of the backup area, 192
  PackWords,     \* words of a packet, 512
  CounterValues  \* values of the 16-bit counter of its loop

ASSUME ServerAssumption ==
  /\ DataWords \in Nat \ {0, 1} /\ Tail5E5D \in Nat /\ Tail5E5D > DataWords
  /\ NumNetconn \in Nat \ {0, 1}
  /\ AcceptMbox \in Nat \ {0} /\ RecvMbox \in Nat \ {0}
  /\ MaxConns \in Nat /\ MaxSent \in [1 .. MaxConns -> Nat]
  /\ Packets \in Nat \ {0} /\ PackWords \in Nat \ {0}
  /\ CounterValues \in Nat \ {0}

VARIABLES
  thread,      \* the next step of the server thread, or how it ended
  cur,         \* remote_netconn
  msg,         \* the piece that is handled
  Data,        \* the receive buffer
  Rec_Comand,  \* the command of the last message that was accepted
  PackCnt,     \* the packet SendUpData is at
  acceptmbox,  \* connections to accept, and errors
  netconn,     \* where each connection's netconn is
  pcb,         \* whether it has a control block
  keepalive,   \* whether SOF_KEEPALIVE is set in that
  recvmbox,    \* data passed to the netconn
  stream,      \* data sent by the client and not passed on yet
  client,      \* what the client has done
  sent,        \* pieces of data it has sent
  done,        \* pieces of its data the thread has taken
  replies,     \* replies written to it
  packets      \* packets of the backup area written to it

command == <<msg, Data, Rec_Comand, PackCnt>>
replied == <<replies, packets>>
serverVars == <<thread, cur, msg, Data, Rec_Comand, PackCnt, acceptmbox, netconn, pcb,
                keepalive, recvmbox, stream, client, sent, done, replies, packets>>

Conns == 1 .. MaxConns
None == 0

(***************************************************************************)
(* A message is a sequence of words: the command, the number of words, the *)
(* sum of all before it, and the tail.  (Each stands for several words of  *)
(* the code, and messages with parameters have more.)                      *)
(***************************************************************************)
GETDATA == 1
GETEDITION == 2
Message(cmd, length, sum) == <<cmd, length, sum, Tail5E5D>>

Crs(words) == SumFunction(words)

\* The first n words of a buffer or of a message.
Front(words, n) == [i \in 1 .. n |-> words[i]]

(***************************************************************************)
(* A piece is what one segment brings, and one netbuf: the parts first to  *)
(* last of what the client has sent, where a part is a message or, when    *)
(* TCP cuts it, one side of it.  "fin" is the end of a stream of n parts.  *)
(***************************************************************************)
Pieces == [first : Nat, last : Nat, frame : {"data", "fin"}, words : Seq(Nat)]

Piece(n, words) == [first |-> n, last |-> n, frame |-> "data", words |-> words]
Fin(n) == [first |-> n + 1, last |-> n, frame |-> "fin", words |-> <<>>]

\* The error message ERR_ABRT in the accept mailbox.
Abrt == 0

\* The task function has returned, the processor has faulted, SendUpData runs
\* for ever over its buffer: after each of these nothing else runs.
Halted == thread \in {"returned", "fault", "overrun"}

\* The netconns in use, besides the one that listens.
Allocated == {c \in Conns : netconn[c] \in {"queued", "served"}}

Cleared == [i \in 1 .. DataWords |-> 0]

Init ==
  /\ thread = "accept" /\ cur = None
  /\ msg = Fin(0) /\ Data = Cleared /\ Rec_Comand = 0 /\ PackCnt = 0
  /\ acceptmbox = <<>>
  /\ netconn = [c \in Conns |-> "none"]
  /\ pcb = [c \in Conns |-> FALSE] /\ keepalive = [c \in Conns |-> FALSE]
  /\ recvmbox = [c \in Conns |-> <<>>] /\ stream = [c \in Conns |-> <<>>]
  /\ client = [c \in Conns |-> "none"]
  /\ sent = [c \in Conns |-> 0] /\ done = [c \in Conns |-> 0]
  /\ replies = [c \in Conns |-> <<>>] /\ packets = [c \in Conns |-> <<>>]

(***************************************************************************)
(* The server thread: TCP_Server_Thread and the netconn functions it       *)
(* calls.                                                                  *)
(***************************************************************************)
AcceptEntry(c, rest) ==
  /\ acceptmbox' = rest
  /\ \/ c = Abrt /\ thread' = "returned" /\ UNCHANGED <<cur, netconn>>
     \/ /\ c # Abrt
        /\ thread' = "keepalive" /\ cur' = c
        /\ netconn' = [netconn EXCEPT ![c] = "served"]
  /\ UNCHANGED <<command, pcb, keepalive, recvmbox, stream, client, sent, done, replied>>

\* Mutant: the last connection first.
AcceptLast ==
  /\ thread = "accept" /\ acceptmbox # <<>>
  /\ AcceptEntry(acceptmbox[Len(acceptmbox)], SubSeq(acceptmbox, 1, Len(acceptmbox) - 1))

\* An error ends the loop, and with it the task function.
Accept ==
  /\ thread = "accept" /\ acceptmbox # <<>>
  /\ AcceptEntry(Head(acceptmbox), Tail(acceptmbox))

\* Mutant: the option is not set.
NoKeepAlive ==
  /\ thread = "keepalive" /\ thread' = "recv"
  /\ UNCHANGED <<cur, command, acceptmbox, netconn, pcb, keepalive, recvmbox, stream,
                 client, sent, done, replied>>

\* The thread writes to the pcb without asking whether it is still there.  A
\* write through the null pointer faults, or goes to the flash and is ignored.
SetKeepAlive ==
  /\ thread = "keepalive"
  /\ \/ pcb[cur] /\ thread' = "recv" /\ keepalive' = [keepalive EXCEPT ![cur] = TRUE]
     \/ ~pcb[cur] /\ thread' \in {"recv", "fault"} /\ UNCHANGED keepalive
  /\ UNCHANGED <<cur, command, acceptmbox, netconn, pcb, recvmbox, stream, client, sent,
                 done, replied>>

\* netconn_recv: data that came before an error is returned before the error.
Receive ==
  /\ thread = "recv"
  /\ \/ /\ recvmbox[cur] # <<>>
        /\ recvmbox' = [recvmbox EXCEPT ![cur] = Tail(@)]
        /\ LET next == Head(recvmbox[cur]) IN
           IF next.frame = "fin"
           THEN thread' = "close" /\ UNCHANGED <<msg, done>>
           ELSE /\ thread' = "handle" /\ msg' = next
                /\ done' = [done EXCEPT ![cur] = next.last]
     \/ /\ recvmbox[cur] = <<>> /\ ~pcb[cur]
        /\ thread' = "close"
        /\ UNCHANGED <<recvmbox, msg, done>>
  /\ UNCHANGED <<cur, Data, Rec_Comand, PackCnt, acceptmbox, netconn, pcb, keepalive,
                 stream, client, sent, replied>>

\* What the thread writes reaches the client while there is a pcb; the error
\* that netconn_write returns otherwise is ignored.
Write(out, entry) == IF pcb[cur] THEN [out EXCEPT ![cur] = Append(@, entry)] ELSE out

\* A reply carries the command field of Rec_Comand.
Reply(kind, cmd) == [kind |-> kind, cmd |-> cmd, to |-> msg]

(***************************************************************************)
(* netbuf_copy puts the piece over what the buffer holds.  Its limit, 1536 *)
(* bytes, is beyond the 1200 of Data[] and beyond any segment (TCP_MSS);   *)
(* what does not fit Data[] is lost here, and in the device overwrites     *)
(* what the linker placed behind it.                                       *)
(***************************************************************************)
netbuf_copy(words) ==
  [i \in 1 .. DataWords |-> IF i <= Len(words) THEN words[i] ELSE Data[i]]

\* The memory in front of Data[] is the end of Rec_Comand, which commands of
\* less than its 20 bytes leave zero.
Word(buf, i) == IF i \in 1 .. DataWords THEN buf[i] ELSE 0

(***************************************************************************)
(* What EthernetInterfaceHandler makes of the buffer: it runs the command, *)
(* answers that it failed, or rejects it as too long and returns.  Where   *)
(* the tail is missing, two uninitialised sums are compared.               *)
(***************************************************************************)
Verdict(buf, length) ==
  IF length > DataWords THEN {"reject"}
  ELSE IF Word(buf, length) # Tail5E5D THEN {"run", "fail"}
  ELSE IF Crs(Front(buf, length - 2)) = Word(buf, length - 1) THEN {"run"} ELSE {"fail"}

\* The buffer, with all messages joined behind the first, is cleared, but not
\* after a message that was too long; the netbuf is deleted in any case.
EthernetInterfaceHandler(verdict, buf) ==
  /\ thread = "handle" /\ Data' = IF verdict = "reject" THEN buf ELSE Cleared
  /\ \/ /\ verdict = "run" /\ Rec_Comand' = buf[1]
        /\ \/ /\ buf[1] = GETDATA
              /\ thread' = "send" /\ PackCnt' = 0 /\ UNCHANGED replies
           \/ /\ buf[1] = GETEDITION
              /\ replies' = Write(replies, Reply("success", Rec_Comand'))
              /\ thread' = "recv" /\ UNCHANGED PackCnt
           \/ /\ buf[1] \notin {GETDATA, GETEDITION}
              /\ thread' = "recv" /\ UNCHANGED <<PackCnt, replies>>
     \/ /\ verdict # "run"
        /\ replies' = Write(replies, Reply("failed", Rec_Comand))
        /\ thread' = "recv" /\ UNCHANGED <<Rec_Comand, PackCnt>>
  /\ msg' = Fin(0)
  /\ UNCHANGED <<cur, acceptmbox, netconn, pcb, keepalive, recvmbox, stream, client, sent,
                 done, packets>>

\* Mutant: no return after the rejection of a message that is too long.
NoReturn ==
  LET buf == netbuf_copy(msg.words) IN
  \/ /\ thread = "handle" /\ buf[2] > DataWords
     /\ replies' = Write(Write(replies, Reply("failed", Rec_Comand)), Reply("failed", Rec_Comand))
     /\ thread' = "recv" /\ Data' = Cleared /\ msg' = Fin(0)
     /\ UNCHANGED <<cur, Rec_Comand, PackCnt, acceptmbox, netconn, pcb, keepalive,
                    recvmbox, stream, client, sent, done, packets>>
  \/ \E v \in Verdict(buf, buf[2]) \ {"reject"} : EthernetInterfaceHandler(v, buf)

\* Mutant: the length is read before the piece is copied into the buffer.
LengthOfLast ==
  /\ thread = "handle"
  /\ LET buf == netbuf_copy(msg.words) IN
     \E v \in Verdict(buf, Data[2]) : EthernetInterfaceHandler(v, buf)

Handle ==
  /\ thread = "handle"
  /\ LET buf == netbuf_copy(msg.words) IN
     \E v \in Verdict(buf, buf[2]) : EthernetInterfaceHandler(v, buf)

(***************************************************************************)
(* One packet of SendUpData.  Its loop counts words from PackWords *       *)
(* PackCnt up to the next packet's first, with a counter that cannot reach *)
(* CounterValues: then it never ends.                                      *)
(***************************************************************************)
SendPacket(number, fits) ==
  /\ thread = "send"
  /\ IF fits
     THEN /\ packets' = Write(packets, [number |-> number, block |-> PackCnt])
          /\ PackCnt' = PackCnt + 1
          /\ thread' = IF PackCnt + 1 = Packets THEN "recv" ELSE "send"
     ELSE thread' = "overrun" /\ UNCHANGED <<packets, PackCnt>>
  /\ UNCHANGED <<cur, msg, Data, Rec_Comand, acceptmbox, netconn, pcb, keepalive, recvmbox,
                 stream, client, sent, done, replies>>

Fits == PackCnt * PackWords + PackWords < CounterValues

\* Mutant: packets numbered from zero.
NumberFromZero == SendPacket(PackCnt, Fits)

SendUpData == SendPacket(PackCnt + 1, Fits)

\* netconn_close, then netconn_delete: the netconn goes back to the pool, and
\* what is recorded of its connection ends with it.
Close ==
  /\ thread = "close" /\ thread' = "delete"
  /\ pcb' = [pcb EXCEPT ![cur] = FALSE] /\ stream' = [stream EXCEPT ![cur] = <<>>]
  /\ UNCHANGED <<cur, command, acceptmbox, netconn, keepalive, recvmbox, client, sent,
                 done, replied>>

DeleteTo(state) ==
  /\ thread = "delete" /\ thread' = "accept"
  /\ netconn' = [netconn EXCEPT ![cur] = state]
  /\ keepalive' = [keepalive EXCEPT ![cur] = FALSE]
  /\ recvmbox' = [recvmbox EXCEPT ![cur] = <<>>]
  /\ client' = [client EXCEPT ![cur] = "gone"]
  /\ sent' = [sent EXCEPT ![cur] = 0] /\ done' = [done EXCEPT ![cur] = 0]
  /\ replies' = [replies EXCEPT ![cur] = <<>>] /\ packets' = [packets EXCEPT ![cur] = <<>>]
  /\ cur' = None
  /\ UNCHANGED <<command, acceptmbox, pcb, stream>>

\* Mutant: closed, but never deleted.
DeleteForgotten == DeleteTo("served")

Delete == DeleteTo("freed")

ServerThread == Accept \/ SetKeepAlive \/ Receive \/ Handle \/ SendUpData \/ Close \/ Delete

(***************************************************************************)
(* The TCP/IP thread.                                                      *)
(***************************************************************************)
\* The handshake of a new connection ends in accept_function.  A netconn is
\* allocated and queued; or the pool is empty, and the listening netconn gets
\* an error message instead; or there is no room in the mailbox for either.  A
\* connection that is not queued is aborted.
Queue(c) ==
  /\ netconn' = [netconn EXCEPT ![c] = "queued"]
  /\ acceptmbox' = Append(acceptmbox, c)
  /\ pcb' = [pcb EXCEPT ![c] = TRUE]
  /\ client' = [client EXCEPT ![c] = "open"]

Refuse(c) ==
  /\ netconn' = [netconn EXCEPT ![c] = "refused"]
  /\ client' = [client EXCEPT ![c] = "gone"]
  /\ UNCHANGED pcb

accept_function(c, fits) ==
  /\ ~Halted /\ netconn[c] = "none" /\ \A d \in Conns : d < c => netconn[d] # "none"
  /\ LET free == Cardinality(Allocated) + 1 < NumNetconn IN
     \/ free /\ fits /\ Queue(c)
     \/ /\ ~(free /\ fits) /\ Refuse(c)
        /\ acceptmbox' = IF fits THEN Append(acceptmbox, Abrt) ELSE acceptmbox
  /\ UNCHANGED <<thread, cur, command, keepalive, recvmbox, stream, sent, done, replied>>

\* Mutant: the post into the mailbox of accepted connections always succeeds.
PostAnyway(c) == accept_function(c, TRUE)

Connect(c) == accept_function(c, Len(acceptmbox) < AcceptMbox)

\* recv_tcp: what finds no room is presented again later; but the end of the
\* stream is announced once.
recv_tcp(c, room, lost) ==
  /\ ~Halted /\ pcb[c] /\ stream[c] # <<>>
  /\ \/ room /\ recvmbox' = [recvmbox EXCEPT ![c] = Append(@, Head(stream[c]))]
     \/ ~room /\ lost /\ UNCHANGED recvmbox
  /\ stream' = [stream EXCEPT ![c] = Tail(@)]
  /\ UNCHANGED <<thread, cur, command, acceptmbox, netconn, pcb, keepalive, client, sent,
                 done, replied>>

Room(c) == Len(recvmbox[c]) < RecvMbox

\* Mutants: refused data is not kept; a place of the mailbox is never used.
DropRefused(c) == recv_tcp(c, Room(c), TRUE)
RoomForOneLess(c) == recv_tcp(c, Len(recvmbox[c]) + 1 < RecvMbox, FALSE)

Deliver(c) == stream[c] # <<>> /\ recv_tcp(c, Room(c), Head(stream[c]).frame = "fin")

\* err_tcp: the pcb is gone, and with it what the client sent and the stack
\* has not passed on.  What is in the mailbox stays.
err_tcp(c) ==
  /\ ~Halted /\ pcb[c] /\ pcb' = [pcb EXCEPT ![c] = FALSE]
  /\ stream' = [stream EXCEPT ![c] = <<>>]
  /\ UNCHANGED <<thread, cur, command, acceptmbox, netconn, keepalive, recvmbox, sent,
                 done, replied>>

\* The probes of an idle connection go unanswered, or are answered by a reset.
KeepaliveTimeout(c) ==
  /\ keepalive[c] /\ client[c] \in {"fin", "gone"}
  /\ err_tcp(c) /\ client' = [client EXCEPT ![c] = "gone"]

(***************************************************************************)
(* A client sends messages, which TCP may cut or join, and closes its      *)
(* connection, resets it, or vanishes without a word.                      *)
(***************************************************************************)
\* What a client sends: a command with its sum, one with a wrong sum, and one
\* whose length field is damaged, so that it is too large or misses the tail.
Request == Message(GETEDITION, 4, GETEDITION + 4)
Texts == {Request, Message(GETDATA, 4, GETDATA + 4), Message(GETEDITION, 4, 0),
          Message(GETEDITION, DataWords + 1, GETEDITION + 4),
          Message(GETEDITION, 3, GETEDITION + 4)}

\* A text is sent as one part, number n, or cut behind one of its words.
Messages(n) ==
  {<<Piece(n, m)>> : m \in Texts}
    \cup {<<Piece(n, SubSeq(Request, 1, k)), Piece(n + 1, SubSeq(Request, k + 1, 4))>> :
             k \in 1 .. 3}

Longer(p, n, m) == [first |-> p.first, last |-> n, frame |-> p.frame, words |-> p.words \o m]

Joined(pieces, n, m) ==
  [pieces EXCEPT ![Len(pieces)] = Longer(pieces[Len(pieces)], n, m)]

Send(c) ==
  /\ ~Halted /\ client[c] = "open" /\ pcb[c]
  /\ \/ \E m \in Messages(sent[c] + 1) :
          /\ sent[c] + Len(m) <= MaxSent[c]
          /\ sent' = [sent EXCEPT ![c] = @ + Len(m)]
          /\ stream' = [stream EXCEPT ![c] = @ \o m]
     \/ /\ sent[c] < MaxSent[c] /\ stream[c] # <<>>
        /\ sent' = [sent EXCEPT ![c] = @ + 1]
        /\ stream' = [stream EXCEPT ![c] = Joined(@, sent[c] + 1, Request)]
  /\ UNCHANGED <<thread, cur, command, acceptmbox, netconn, pcb, keepalive, recvmbox, client,
                 done, replied>>

Finish(c) ==
  /\ ~Halted /\ pcb[c]
  /\ client[c] = "open" /\ client' = [client EXCEPT ![c] = "fin"]
  /\ stream' = [stream EXCEPT ![c] = Append(@, Fin(sent[c]))]
  /\ UNCHANGED <<thread, cur, command, acceptmbox, netconn, pcb, keepalive, recvmbox, sent,
                 done, replied>>

Reset(c) ==
  /\ client[c] \in {"open", "fin"} /\ client' = [client EXCEPT ![c] = "gone"]
  /\ err_tcp(c)

Vanish(c) ==
  /\ ~Halted /\ pcb[c]
  /\ client[c] = "open" /\ client' = [client EXCEPT ![c] = "gone"]
  /\ UNCHANGED <<thread, cur, command, acceptmbox, netconn, pcb, keepalive, recvmbox, stream,
                 sent, done, replied>>

Stack(c) == Connect(c) \/ Deliver(c) \/ KeepaliveTimeout(c)
Client(c) == Send(c) \/ Finish(c) \/ Reset(c) \/ Vanish(c)

Next == ServerThread \/ \E c \in Conns : Stack(c) \/ Client(c)

Spec == Init /\ [][Next]_serverVars

\* The two threads run, the stack's timers with the second of them.
StackRuns == \E c \in Conns : Deliver(c) \/ KeepaliveTimeout(c)

FairSpec == Spec /\ WF_serverVars(ServerThread) /\ WF_serverVars(StackRuns)
-----------------------------------------------------------------------------
NetconnStates == {"none", "queued", "served", "freed", "refused"}
ClientStates == {"none", "open", "fin", "gone"}
Replies == [kind : {"success", "failed"}, cmd : Nat, to : Pieces]
PacketsSent == [number : 0 .. Packets, block : 0 .. Packets - 1]

(* The state is of its type, and no mailbox holds more than it can.        *)
TypeOK ==
  /\ thread \in {"accept", "keepalive", "recv", "handle", "send", "close", "delete",
                 "returned", "fault", "overrun"}
  /\ cur \in Conns \cup {None} /\ msg \in Pieces
  /\ Data \in [1 .. DataWords -> Nat] /\ Rec_Comand \in Nat /\ PackCnt \in 0 .. Packets
  /\ acceptmbox \in Seq(Conns \cup {Abrt}) /\ Len(acceptmbox) <= AcceptMbox
  /\ netconn \in [Conns -> NetconnStates]
  /\ pcb \in [Conns -> BOOLEAN] /\ keepalive \in [Conns -> BOOLEAN]
  /\ recvmbox \in [Conns -> Seq(Pieces)] /\ \A c \in Conns : Len(recvmbox[c]) <= RecvMbox
  /\ stream \in [Conns -> Seq(Pieces)]
  /\ client \in [Conns -> ClientStates]
  /\ sent \in [Conns -> Nat] /\ done \in [Conns -> Nat]
  /\ replies \in [Conns -> Seq(Replies)] /\ packets \in [Conns -> Seq(PacketsSent)]

(***************************************************************************)
(* No netconn is lost, used after it was freed, or used twice: those in    *)
(* use are the ones in the accept mailbox, each there once, and the one    *)
(* the thread serves; and there are never more than the pool has.          *)
(***************************************************************************)
NetconnsAccounted ==
  /\ Cardinality(Allocated) + 1 <= NumNetconn
  /\ \A c \in Conns :
       /\ netconn[c] = "served" <=> c = cur
       /\ Cardinality({i \in 1 .. Len(acceptmbox) : acceptmbox[i] = c})
            = IF netconn[c] = "queued" THEN 1 ELSE 0
       /\ pcb[c] => c \in Allocated

(***************************************************************************)
(* The pieces of a connection reach the thread completely and in order:    *)
(* what netconn_recv has returned, what is in the mailbox and, while the   *)
(* connection lasts, what the stack still holds follow each other without  *)
(* a gap; and the thread closes a connection only when the client is gone  *)
(* and nothing of that is left.  (What the handler reads of a piece is its *)
(* first message.)                                                         *)
(***************************************************************************)
Flow(c) == recvmbox[c] \o stream[c]

\* Where piece i of a flow ends that begins behind piece number start.
End(flow, start, i) == IF i = 0 THEN start ELSE flow[i].last

NothingSkipped ==
  \A c \in Allocated :
    LET flow == Flow(c) IN
    /\ \A i \in 1 .. Len(flow) :
         /\ flow[i].first = End(flow, done[c], i - 1) + 1
         /\ flow[i].frame = "fin" => i = Len(flow)
    /\ pcb[c] => sent[c] = End(flow, done[c], Len(flow))
    /\ thread = "close" /\ c = cur => flow = <<>> /\ client[c] # "open"

(***************************************************************************)
(* The replies a client gets come in the order of the pieces its messages  *)
(* arrive in, at most one for each piece, and only for pieces of its own   *)
(* that were taken.  (A message that TCP cuts in two is two pieces.)       *)
(***************************************************************************)
RepliesMatch ==
  \A c \in Conns : \A i \in 1 .. Len(replies[c]) :
    LET r == replies[c][i] IN
    /\ r.to.first > (IF i = 1 THEN 0 ELSE replies[c][i - 1].to.last)
    /\ r.to.last <= done[c]

\* A piece that holds a message up to the tail its length field points at, and
\* one where that message also has its sum.
Length(words) == IF Len(words) < 2 THEN 0 ELSE words[2]
Complete(words) ==
  Length(words) \in 3 .. Len(words) /\ Length(words) <= DataWords
    /\ words[Length(words)] = Tail5E5D
Verified(words) ==
  Complete(words) /\ Crs(Front(words, Length(words) - 2)) = words[Length(words) - 1]

(***************************************************************************)
(* Nothing that earlier messages, of this client or another, left in the   *)
(* receive buffer changes the answer to a piece that begins with a         *)
(* complete message, or with one whose length field is too large: it is    *)
(* answered with success exactly if its own words are verified.  A success *)
(* names the command it answers.                                           *)
(***************************************************************************)
JudgedByItself ==
  \A c \in Conns : \A i \in 1 .. Len(replies[c]) :
    LET r == replies[c][i]
        words == r.to.words IN
    /\ Complete(words) \/ Length(words) > DataWords => (r.kind = "success" <=> Verified(words))
    /\ r.kind = "success" => r.cmd = words[1]

(***************************************************************************)
(* "Data has been received successfully" (user_ETHCommunication.c:134) is  *)
(* what a reply of success says: the message it answers has come to its    *)
(* end, with its checksum.                                                 *)
(***************************************************************************)
SuccessMeansReceived ==
  \A c \in Conns : \A i \in 1 .. Len(replies[c]) :
    replies[c][i].kind = "success" => Verified(replies[c][i].to.words)

(***************************************************************************)
(* GETDATA sends the stored program (user_ETHCommunication.c:428): what a  *)
(* client reads are its packets in order, each with its number, and after  *)
(* the last again from the first; and the thread does not leave a readback *)
(* before the last packet, nor stay in it without end.                     *)
(***************************************************************************)
ReadbackExact ==
  /\ \A c \in Conns : \A i \in 1 .. Len(packets[c]) :
       packets[c][i] = [number |-> ((i - 1) % Packets) + 1, block |-> (i - 1) % Packets]
  /\ cur # None => (pcb[cur] /\ thread # "send" => Len(packets[cur]) % Packets = 0)

(***************************************************************************)
(* "Wait for the next connection" (user_tcp_server.c:215): the thread      *)
(* never leaves its loop, which a task function must not do (port.c:265).  *)
(***************************************************************************)
AwaitsNextConnection == thread # "returned"

(***************************************************************************)
(* Clients are served one at a time, in the order they connected, each     *)
(* connection once.                                                        *)
(***************************************************************************)
Promise == INSTANCE ServerSpec WITH
  made <- {c \in Conns : netconn[c] \notin {"none", "refused"}},
  waiting <- {c \in Conns : netconn[c] = "queued"},
  serving <- cur

ServesInTurn == Promise!Spec

(***************************************************************************)
(* The thread does not hang on a client that has closed, reset or silently *)
(* left its connection, even if the end of the stream was not announced:   *)
(* the keepalive option ends the wait.                                     *)
(***************************************************************************)
LeavesGoneClient ==
  cur # None /\ client[cur] \in {"fin", "gone"} ~> cur = None \/ Halted

(***************************************************************************)
(* Whatever a served client sends is taken before its connection ends:     *)
(* data refused by a full mailbox comes again.                             *)
(***************************************************************************)
DataTaken ==
  cur # None /\ done[cur] < sent[cur] ~> cur = None \/ done[cur] = sent[cur] \/ Halted
=============================================================================
