------------------------------ MODULE IpcSocket ------------------------------
(***************************************************************************)
(* IpcSocket (framework/ipc): framed messages over a non-blocking byte     *)
(* stream, each a four-byte header and a body, moved by system calls that  *)
(* take what fits and return what is there, under a deadline.              *)
(*                                                                         *)
(* Both ends of a connection are the same code.  stream[e] holds what end  *)
(* e has written and its peer has not read.  An end makes one call at a    *)
(* time, as a socket that is not shared between threads does.              *)
(***************************************************************************)
EXTENDS Naturals, Sequences, FiniteSetsExt, SequencesExt

CONSTANTS Conns,                \* the connections made, one after the other
          Messages,             \* payloads: sequences of bytes
          kIpcMaxMessageSize,
          SocketBuffer,         \* kernel: how many bytes a stream holds
          MaxEvents             \* bound on the Sends, Starts and crashes together

ASSUME IpcSocketAssumption ==
    /\ Messages \subseteq Seq(0..255)
    /\ kIpcMaxMessageSize \in Nat
    /\ SocketBuffer \in Nat \ {0}
    /\ MaxEvents \in Nat

(* A length fits the four bytes of the header.                             *)
ASSUME HeaderAssumption == kIpcMaxMessageSize \div 16777216 < 256

VARIABLES open,       \* fd_ >= 0
          stream,     \* kernel: the bytes under way
          call,       \* the call each end is in
          events,     \* how many Sends, Starts and crashes there have been
          sent,       \* history: messages whose Send returned SUCCESS
          received,   \* history: messages that Recv returned
          torn,       \* history: a call stopped inside a frame of this stream
          refused     \* history: a Recv returned MESSAGE_TOO_LARGE

socketVars == <<open, stream, call, sent, received, torn, refused>>

Ends == Conns \X {"client", "server"}

ClientEnd(c) == <<c, "client">>
ServerEnd(c) == <<c, "server">>

Peer(e) == IF e = ClientEnd(e[1]) THEN ServerEnd(e[1]) ELSE ClientEnd(e[1])

NoCall == [op |-> "idle", left |-> <<>>, body |-> <<>>, want |-> 0]

SocketInit ==
    /\ open = [e \in Ends |-> FALSE]
    /\ stream = [e \in Ends |-> <<>>]
    /\ call = [e \in Ends |-> NoCall]
    /\ events = 0
    /\ sent = [e \in Ends |-> <<>>]
    /\ received = [e \in Ends |-> <<>>]
    /\ torn = [e \in Ends |-> FALSE]
    /\ refused = [e \in Ends |-> FALSE]

(* One of the calls and faults that are bounded.                            *)
Event == events < MaxEvents /\ events' = events + 1

Idle(e) == call[e].op = "idle"
Sending(e) == call[e].op \in {"send_header", "send_body"}
Receiving(e) == call[e].op \in {"recv_header", "recv_body"}

-----------------------------------------------------------------------------
(* The header.                                                             *)
kIpcFrameHeaderSize == 4

Byte(len, unit) == (len \div unit) % 256

\* Mutant: the two ends of the header swapped.
LittleEndian(len) ==
    <<Byte(len, 1), Byte(len, 256), Byte(len, 65536), Byte(len, 16777216)>>

EncodeHeader(len) ==
    <<Byte(len, 16777216), Byte(len, 65536), Byte(len, 256), Byte(len, 1)>>

DecodeHeader(h) == h[1] * 16777216 + h[2] * 65536 + h[3] * 256 + h[4]

-----------------------------------------------------------------------------
(* Send, from the validation of its arguments to the first WriteAll.       *)
Send(e, m) ==
    /\ open[e] /\ Idle(e)
    /\ Len(m) <= kIpcMaxMessageSize
    /\ Event
    /\ call' = [call EXCEPT ![e] = [op |-> "send_header",
                                    left |-> EncodeHeader(Len(m)),
                                    body |-> m, want |-> 0]]
    /\ UNCHANGED <<open, stream, sent, received, torn, refused>>

Room(e) == SocketBuffer - Len(stream[e])

(* One ::send of WriteAll: what fits is taken.  The end of the header is   *)
(* followed by the WriteAll of a body that is not empty.                   *)
Write(e) ==
    /\ Sending(e) /\ open[Peer(e)] /\ Room(e) > 0
    /\ LET left == call[e].left
           n == Min({Room(e), Len(left)})
           done == n = Len(left)
           last == done /\ (call[e].op = "send_body" \/ call[e].body = <<>>)
       IN  /\ stream' = [stream EXCEPT ![e] = @ \o SubSeq(left, 1, n)]
           /\ call' = [call EXCEPT ![e] =
                 IF last THEN NoCall
                 ELSE IF done THEN [@ EXCEPT !.op = "send_body",
                                             !.left = call[e].body]
                 ELSE [@ EXCEPT !.left = SubSeq(left, n + 1, Len(left))]]
           /\ sent' = [sent EXCEPT ![e] =
                 IF last THEN Append(@, call[e].body) ELSE @]
    /\ UNCHANGED <<open, events, received, torn, refused>>

-----------------------------------------------------------------------------
Recv(e) ==
    /\ open[e] /\ Idle(e)
    /\ call' = [call EXCEPT ![e] = [NoCall EXCEPT
                   !.op = "recv_header", !.want = kIpcFrameHeaderSize]]
    /\ UNCHANGED <<open, stream, events, sent, received, torn, refused>>

(* What follows a complete header of len: a refusal, an empty message or   *)
(* the ReadAll of the body.                                                *)
TooLarge(len) == len > kIpcMaxMessageSize

AfterHeader(e, len) ==
    /\ call' = [call EXCEPT ![e] =
          IF TooLarge(len) \/ len = 0 THEN NoCall
          ELSE [NoCall EXCEPT !.op = "recv_body", !.want = len]]
    /\ refused' = [refused EXCEPT ![e] = @ \/ TooLarge(len)]
    /\ received' = [received EXCEPT ![e] =
          IF len = 0 THEN Append(@, <<>>) ELSE @]

AfterBody(e, bytes) ==
    /\ call' = [call EXCEPT ![e] = NoCall]
    /\ received' = [received EXCEPT ![e] = Append(@, bytes)]
    /\ UNCHANGED refused

(* One ::recv of ReadAll: what is there is taken, up to what is wanted.    *)
Read(e) ==
    /\ Receiving(e) /\ stream[Peer(e)] # <<>>
    /\ LET p == Peer(e)
           n == Min({call[e].want, Len(stream[p])})
           got == call[e].left \o SubSeq(stream[p], 1, n)
       IN  /\ stream' = [stream EXCEPT ![p] = SubSeq(@, n + 1, Len(@))]
           /\ IF n < call[e].want
              THEN /\ call' = [call EXCEPT ![e].left = got,
                                           ![e].want = @ - n]
                   /\ UNCHANGED <<received, refused>>
              ELSE IF call[e].op = "recv_header"
              THEN AfterHeader(e, DecodeHeader(got))
              ELSE AfterBody(e, got)
    /\ UNCHANGED <<open, events, sent, torn>>

-----------------------------------------------------------------------------
(* The calls that do not succeed.                                          *)

(* The call has moved a part of a frame, and only a part.                  *)
MidFrame(e) ==
    CASE call[e].op = "send_header" -> Len(call[e].left) < kIpcFrameHeaderSize
      [] call[e].op = "recv_header" -> call[e].left # <<>>
      [] OTHER -> ~Idle(e)

(* The stream that the call of e moves: its own, or its peer's.            *)
StreamOf(e) == IF Receiving(e) THEN Peer(e) ELSE e

(* ::send or ::recv would block: the stream is full, or it is empty.       *)
WouldBlock(e) == \/ Sending(e) /\ Room(e) = 0
                 \/ Receiving(e) /\ stream[Peer(e)] = <<>>

\* Mutant: WriteAll polls without its deadline.
WaitsForReader(e) == Receiving(e) /\ stream[Peer(e)] = <<>>

(* The deadline is looked at only then: TIMEOUT.                           *)
DeadlineApplies(e) == WouldBlock(e)

(* EPIPE, ECONNRESET or the end of the stream: PEER_CLOSED, SEND_FAILED or *)
(* RECEIVE_FAILED.  What the peer wrote before it closed is read first.    *)
PeerGone(e) == /\ ~open[Peer(e)]
               /\ Sending(e) \/ (Receiving(e) /\ stream[Peer(e)] = <<>>)

GiveUp(e) ==
    /\ ~Idle(e)
    /\ (open[Peer(e)] /\ DeadlineApplies(e)) \/ PeerGone(e)
    /\ call' = [call EXCEPT ![e] = NoCall]
    /\ torn' = [torn EXCEPT ![StreamOf(e)] = @ \/ MidFrame(e)]
    /\ UNCHANGED <<open, stream, events, sent, received, refused>>

CallStep(e) == Write(e) \/ Read(e) \/ GiveUp(e)

-----------------------------------------------------------------------------
(* Close, and the kernel's closing of the ends of a process that dies: a   *)
(* call of theirs is over.  With its second end a connection is freed, and *)
(* its history, of which no property speaks any more, is forgotten.        *)
Close(S) ==
    LET still == {e \in Ends : open[e]} \ S
        Kept(f, empty) ==
            [e \in Ends |-> IF e \in still \/ Peer(e) \in still THEN f[e]
                            ELSE empty]
    IN  /\ open' = [e \in Ends |-> e \in still]
        /\ call' = [e \in Ends |-> IF e \in S THEN NoCall ELSE call[e]]
        /\ stream' = Kept(stream, <<>>)
        /\ sent' = Kept(sent, <<>>) /\ received' = Kept(received, <<>>)
        /\ torn' = Kept(torn, FALSE) /\ refused' = Kept(refused, FALSE)

(* socket() or accept(): the two ends of a connection come into being.     *)
Open(c) ==
    /\ open' = [e \in Ends |-> open[e] \/ e[1] = c]
    /\ UNCHANGED <<stream, call, sent, received, torn, refused>>

-----------------------------------------------------------------------------
(* What Recv returns is what Send was given: as long as no call has        *)
(* stopped inside a frame, the messages received are a prefix of the       *)
(* messages sent, none of them refused, and all of them once the stream is *)
(* empty and neither end is in a call.  A torn stream is excepted: the     *)
(* code gives up in the middle of a frame and leaves the rest to the next  *)
(* call.                                                                   *)
WholeMessages ==
    \A e \in Ends :
        ~torn[e] =>
            /\ IsPrefix(received[Peer(e)], sent[e])
            /\ ~refused[Peer(e)]
            /\ (stream[e] = <<>> /\ Idle(e) /\ Idle(Peer(e))
                   /\ open[e] /\ open[Peer(e)])
                  => received[Peer(e)] = sent[e]

(* Every Send and every Recv returns, also when nobody reads, both ends    *)
(* write into full streams, or the other end is gone.                      *)
CallsReturn == \A e \in Ends : ~Idle(e) ~> Idle(e)
=============================================================================
