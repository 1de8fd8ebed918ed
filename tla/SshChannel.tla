----------------------------- MODULE SshChannel -----------------------------
(***************************************************************************)
(* The channels of one SSH session of the bundled server and the port      *)
(* forwarding above them: the channel list of cryptlib (ssh2_chn.c,        *)
(* ssh2_msg.c, ssh2_msgs.c, ssh2.c), the wrapper KSsh and the loops of     *)
(* KSession and KPortForward, which one thread runs.  The peer is a client *)
(* that keeps to the protocol; it opens, uses and closes channels while    *)
(* the packets of both directions are in flight.                           *)
(*                                                                         *)
(* A C function is an operator from the session record s to a record       *)
(* [s, st]: the session it leaves and the status it returns.               *)
(***************************************************************************)
EXTENDS Integers, Sequences, FiniteSets, SequencesExt

CONSTANTS
  ChannelNos,     \* SSH channel numbers the peer uses; 0 carries the shell
  WindowSize,     \* MAX_WINDOW_SIZE, scaled down
  DataLen,        \* bytes of one data packet
  MaxChannels,    \* SSH_MAX_CHANNELS
  MaxForwards,    \* max_portforward_channels of kts.ini
  PeerRequests,   \* channel requests the peer makes
  DataChannels,   \* channels the peer sends data on
  QueueBound,     \* bound: packets in flight from the peer before it sends more
  OutBound,       \* bound: packets in flight to the peer before more data is pushed
  OpenBound       \* bound: channels the peer opens beside the shell

ASSUME SshChannelAssumption ==
  /\ 0 \in ChannelNos /\ ChannelNos \subseteq Nat /\ IsFiniteSet(ChannelNos)
  /\ {WindowSize, DataLen, MaxChannels, MaxForwards} \subseteq Nat \ {0}
  /\ DataLen <= WindowSize
  /\ PeerRequests \subseteq {"window_change", "env", "keepalive"}

VARIABLES
  ssh,       \* the SESSION_INFO: channel list, current channels, replies written
  phase,     \* where the session thread is: the loop of KSession it runs
  index,     \* i of TransferChannelData
  channel,   \* KSsh.channel, the cryptlib channel ID the application remembers
  forwards,  \* KPortForward.forwards
  why,       \* the status that ended the session
  toServer,  \* packets in flight from the peer
  peer,      \* the peer's view of each channel number
  opens      \* channels opened by the peer so far

vars == <<ssh, phase, index, channel, forwards, why, toServer, peer, opens>>

Ok == "OK"
OkSpecial == "OK_SPECIAL"
EnvelopeResource == "ENVELOPE_RESOURCE"
NoChannel == -1       \* UNUSED_CHANNEL_NO
UnusedID == 0         \* UNUSED_CHANNEL_ID
Return(s, st) == [s |-> s, st |-> st]

\* The packets of the connection layer.
Packet(type, no, arg) == [type |-> type, no |-> no, arg |-> arg]

-----------------------------------------------------------------------------
(* ssh2_chn.c: the channel list. *)

\* SSH_CHANNEL_INFO: one entry of the list.
Channel(id, no, type) ==
  [id |-> id, no |-> no, type |-> type, active |-> FALSE, writeClosed |-> FALSE,
   windowCount |-> 0, windowSize |-> 0]

Entries(s) == ToSet(s.chans)

isChannelActive(s, excludedID) ==
  \E c \in Entries(s) : c.active /\ c.id # excludedID

\* Channels with the number; the list never holds two (NumbersUnique).
findChannelAttr(s, no) == {c \in Entries(s) : c.no = no}

findChannelByID(s, id) == {c \in Entries(s) : c.id = id}

getCurrentChannelInfo(s, side) == findChannelByID(s, s[side])

getCurrentChannelNo(s, side) ==
  IF getCurrentChannelInfo(s, side) = {} THEN NoChannel
  ELSE (CHOOSE c \in getCurrentChannelInfo(s, side) : TRUE).no

\* The ID of the current read channel, KSsh's way to learn who it hears.
getChannelAttribute(s) ==
  IF getCurrentChannelInfo(s, "read") = {} THEN [st |-> "NOTFOUND", id |-> 0]
  ELSE [st |-> Ok, id |-> s.read]

\* The type of the current read channel.
getChannelAttributeS(s) == {c.type : c \in getCurrentChannelInfo(s, "read")}

getChannelExtAttribute(s, field) == {c[field] : c \in getCurrentChannelInfo(s, "read")}

UpdateEntry(s, id, f(_)) ==
  [s EXCEPT !.chans = [i \in DOMAIN @ |-> IF @[i].id = id THEN f(@[i]) ELSE @[i]]]

setChannelExtAttribute(s, field, value) ==
  UpdateEntry(s, s.read, LAMBDA c : [c EXCEPT ![field] = value])

getChannelStatusByChannelNo(s, no) ==
  IF findChannelAttr(s, no) = {} THEN "NONE"
  ELSE IF \E c \in findChannelAttr(s, no) : c.writeClosed THEN "READ" ELSE "BOTH"

selectChannel(s, no, side) ==
  LET found == findChannelAttr(s, no)
      c     == CHOOSE x \in found : TRUE
  IN  IF found = {} THEN Return(s, "NOTFOUND")
      ELSE IF ~c.active /\ side # "NONE" THEN Return(s, "NOTINITED")
      ELSE Return(IF side \in {"BOTH", "NONE"} THEN [s EXCEPT !.read = c.id, !.write = c.id]
                  ELSE [s EXCEPT ![side] = c.id], Ok)

setChannelAttribute(s, id) ==
  LET found == findChannelByID(s, id) IN
  IF found = {} THEN Return(s, "NOTFOUND")
  ELSE selectChannel(s, (CHOOSE c \in found : TRUE).no, "write")

\* Mutant: the limit counts the new channel twice.
addChannelLimit(s, no, type) ==
  IF findChannelAttr(s, no) # {} THEN Return(s, "DUPLICATE")
  ELSE IF Len(s.chans) >= MaxChannels THEN Return(s, "OVERFLOW")
  ELSE selectChannel([s EXCEPT !.chans = Append(@, Channel(s.nextID, no, type)),
                               !.nextID = @ + 1], no, "NONE")

\* The count is compared with > before the new entry is added.
addChannel(s, no, type) ==
  IF findChannelAttr(s, no) # {} THEN Return(s, "DUPLICATE")
  ELSE IF Len(s.chans) > MaxChannels THEN Return(s, "OVERFLOW")
  ELSE selectChannel([s EXCEPT !.chans = Append(@, Channel(s.nextID, no, type)),
                               !.nextID = @ + 1], no, "NONE")

RemoveEntry(s, id) ==
  [s EXCEPT !.chans = RemoveAt(@, CHOOSE i \in DOMAIN @ : @[i].id = id),
            !.read  = IF @ = id THEN UnusedID ELSE @,
            !.write = IF @ = id THEN UnusedID ELSE @]

deleteChannel(s, no, side, deleteLast) ==
  LET found == findChannelAttr(s, no)
      c     == CHOOSE x \in found : TRUE
      left(t, id) == IF isChannelActive(t, id) THEN Ok ELSE OkSpecial
      closed == UpdateEntry(s, c.id, LAMBDA x : [x EXCEPT !.writeClosed = TRUE])
  IN  IF found = {} THEN Return(s, IF isChannelActive(s, UnusedID) THEN "NOTFOUND" ELSE OkSpecial)
      ELSE IF ~deleteLast /\ ~isChannelActive(s, c.id) THEN Return(s, "PERMISSION")
      ELSE IF side # "write"
           THEN Return(RemoveEntry(s, c.id), left(RemoveEntry(s, c.id), UnusedID))
      ELSE IF c.writeClosed THEN Return(s, "INTERNAL")
      ELSE Return([closed EXCEPT !.write = IF @ = c.id THEN UnusedID ELSE @], left(closed, c.id))

\* REQUIRES( channelNo >= 0 ) and one response at a time.
enqueueResponse(s, type, no, arg) ==
  IF no < 0 \/ s.response # <<>> THEN Return(s, "INTERNAL")
  ELSE Return([s EXCEPT !.response = <<Packet(type, no, arg)>>], Ok)

\* The response leaves as a packet of its own, after what is being sent.
encodeSendResponse(s) ==
  IF s.link THEN Return([s EXCEPT !.out = @ \o s.response, !.response = <<>>], Ok)
  ELSE Return([s EXCEPT !.response = <<>>], "WRITE")

Enqueued(e) == IF e.st # Ok THEN e ELSE encodeSendResponse(e.s)
enqueueChannelData(s, type, no, arg) == Enqueued(enqueueResponse(s, type, no, arg))

-----------------------------------------------------------------------------
(* ssh2_msg.c and ssh2_msgs.c: the messages of the peer. *)

\* Mutant: the window is reset without telling the peer.
handleWindowAdjustSilent(s, no, length) ==
  LET left == (CHOOSE n \in getChannelExtAttribute(s, "windowCount") : TRUE) - length IN
  Return(setChannelExtAttribute(s, "windowCount",
                                IF left >= WindowSize \div 2 THEN left ELSE WindowSize), Ok)

AdjustSent(sent, size, window) ==
  IF sent.st # Ok THEN sent
  ELSE IF window < size \div 2 THEN Return(sent.s, "INVALID")
  ELSE Return(setChannelExtAttribute(sent.s, "windowCount", window), Ok)

\* Less than half of the window left: the peer is given back what it used.
WindowUsed(s, no, count, size, left) ==
  LET adjust == IF left < 0 THEN size ELSE size - left
  IN  IF count <= 0 \/ count > size THEN Return(s, "INTERNAL")
      ELSE IF left >= size \div 2
           THEN Return(setChannelExtAttribute(s, "windowCount", left), Ok)
      ELSE AdjustSent(enqueueChannelData(s, "ADJUST", no, adjust), size, left + adjust)

handleWindowAdjust(s, no, length) ==
  LET count == CHOOSE n \in getChannelExtAttribute(s, "windowCount") : TRUE
      size  == CHOOSE n \in getChannelExtAttribute(s, "windowSize") : TRUE
  IN  WindowUsed(s, no, count, size, count - length)

\* Mutant: the channel is not marked before CLOSE is sent.
sendChannelCloseUnmarked(s, no, side, closeLast) == enqueueChannelData(s, "CLOSE", no, 0)

\* OK_SPECIAL tells that no active channel is left.
CloseSent(sent, deleted) == Return(sent.s, IF deleted = OkSpecial THEN deleted ELSE sent.st)
CloseQueued(e, deleted) == IF e.st # Ok THEN e ELSE CloseSent(encodeSendResponse(e.s), deleted)
CloseMarked(d, no) ==
  IF d.st \notin {Ok, OkSpecial} THEN d
  ELSE CloseQueued(enqueueResponse(d.s, "CLOSE", no, 0), d.st)

sendChannelClose(s, no, side, closeLast) == CloseMarked(deleteChannel(s, no, side, closeLast), no)

\* Close of the one channel selected for writing (SSH_CHANNEL_ACTIVE = 0).
Closes(c) == IF c.st = "PERMISSION" THEN c ELSE Return(c.s, Ok)
closeChannel(s) ==
  LET no == getCurrentChannelNo(s, "write")
  IN  IF no = NoChannel THEN Return(s, "NOTINITED")
      ELSE Closes(sendChannelClose(s, no, "write", FALSE))

\* Every channel in turn, the first that is not write-closed each time; a
\* session without a current write channel is disconnected instead.
closeAllChannels(s) ==
  LET open == SelectSeq(s.chans, LAMBDA c : ~c.writeClosed) IN
  IF s.sendClosed THEN s
  ELSE IF getCurrentChannelNo(s, "write") = NoChannel
       THEN [s EXCEPT !.sendClosed = TRUE,
                      !.out = @ \o (IF s.link THEN <<Packet("DISCONNECT", 0, 0)>> ELSE <<>>)]
  ELSE [s EXCEPT !.chans = [i \in DOMAIN @ |-> [@[i] EXCEPT !.writeClosed = TRUE]],
                 !.write = UnusedID,
                 !.out   = @ \o (IF s.link THEN [i \in DOMAIN open |-> Packet("CLOSE", open[i].no, 0)]
                                 ELSE <<>>)]

sendChannelResponse(s, no, isSuccessful) ==
  enqueueChannelData(s, IF isSuccessful THEN "SUCCESS" ELSE "FAILURE", no, 0)

sendOpenResponseFailed(s, no) == enqueueChannelData(s, "OPEN_FAILURE", no, 0)

\* Confirmed first, then marked active and given its window.
Confirmed(confirmed, no) ==
  LET active == setChannelExtAttribute(confirmed.s, "active", TRUE)
      window == setChannelExtAttribute(setChannelExtAttribute(active, "windowSize", WindowSize),
                                       "windowCount", WindowSize)
  IN  IF confirmed.st # Ok
      THEN Return(deleteChannel(confirmed.s, no, "BOTH", TRUE).s, confirmed.st)
      ELSE selectChannel(window, no, "BOTH")

Added(added, no) ==
  IF added.st # Ok THEN Return(sendOpenResponseFailed(added.s, no).s, added.st)
  ELSE Confirmed(enqueueChannelData(added.s, "OPEN_CONFIRMATION", no, WindowSize), no)

processChannelOpen(s, no, type) == Added(addChannel(s, no, type), no)

\* What requestInfo[] says of the requests the peer sends.
requestInfo == [window_change |-> [known |-> TRUE,  wantReply |-> FALSE],
                env           |-> [known |-> TRUE,  wantReply |-> TRUE],
                keepalive     |-> [known |-> FALSE, wantReply |-> TRUE]]

\* The answer carries prevChannelNo, the channel that was current before.
Answered(answered, info, prevChannelNo) ==
  LET back == selectChannel(answered.s, prevChannelNo, "read")
  IN  IF ~info.known THEN Return(back.s, IF answered.st # Ok THEN answered.st ELSE back.st)
      ELSE IF answered.st # Ok THEN back
      ELSE answered

processChannelRequest(s, request, prevChannelNo) ==
  LET info == requestInfo[request]
  IN  IF prevChannelNo < 0 THEN Return(s, "INTERNAL")
      ELSE IF ~info.wantReply THEN Return(s, Ok)
      ELSE Answered(sendChannelResponse(s, prevChannelNo, info.known), info, prevChannelNo)

\* EOF is handled as CLOSE.  The entry is deleted again after the answer.
Deleted(deleted) ==
  IF deleted.st # OkSpecial THEN Return(deleted.s, OkSpecial)
  ELSE Return([deleted.s EXCEPT !.sendClosed = TRUE], "COMPLETE")

PeerClosed(s, no) ==
  LET both   == getChannelStatusByChannelNo(s, no) = "BOTH"
      closed == IF both THEN sendChannelClose(s, no, "BOTH", TRUE).s ELSE s
  IN  Deleted(deleteChannel(closed, no, "BOTH", TRUE))

Opened(opened) == Return(opened.s, IF opened.st = Ok THEN EnvelopeResource ELSE opened.st)
Requested(r) == Return(r.s, IF r.st = Ok THEN OkSpecial ELSE r.st)

Selected(selected, p, prevChannelNo) ==
  IF selected.st # Ok THEN Return(selected.s, "BADDATA")
  ELSE CASE p.type = "DATA"    -> handleWindowAdjust(selected.s, p.no, p.arg)
         [] p.type = "REQUEST" -> Requested(processChannelRequest(selected.s, p.arg, prevChannelNo))
         [] p.type = "ADJUST"  -> Return(selected.s, OkSpecial)
         [] p.type \in {"EOF", "CLOSE"} -> PeerClosed(selected.s, p.no)

processChannelControlMessage(s, p) ==
  LET prevChannelNo == getCurrentChannelNo(s, "read")
  IN  IF p.type = "OPEN" THEN Opened(processChannelOpen(s, p.no, p.arg))
      ELSE Selected(IF p.no = prevChannelNo THEN Return(s, Ok) ELSE selectChannel(s, p.no, "read"),
                    p, prevChannelNo)

\* ssh2.c: channel data is handled as soon as the header has been read, every
\* other message once its body has; OK_SPECIAL asks for the next packet.
readHeaderFunction(s, p) ==
  IF p.type = "DATA" THEN processChannelControlMessage(s, p) ELSE Return(s, Ok)

processBodyFunction(s, p) ==
  IF p.type # "DATA" THEN processChannelControlMessage(s, p) ELSE Return(s, Ok)

HeaderRead(header, p) == IF header.st = Ok THEN processBodyFunction(header.s, p) ELSE header
cryptPopData(s, p) == HeaderRead(readHeaderFunction(s, p), p)

preparePacketFunction(s) ==
  [s EXCEPT !.out = Append(@, Packet("DATA", getCurrentChannelNo(s, "write"), 0))]

-----------------------------------------------------------------------------
(* KSsh: one thread calls these, so each is one step with what it calls. *)

\* Channel, data and flush; empty data only selects the channel.
Pushed(selected, data) ==
  IF selected.st # Ok \/ ~data THEN selected
  ELSE IF ~selected.s.link THEN Return(selected.s, "WRITE")
  ELSE Return(preparePacketFunction(selected.s), Ok)
PushChunk(s, id, data) == Pushed(setChannelAttribute(s, id), data)

ClosedFor(selected) == IF selected.st # Ok THEN selected ELSE closeChannel(selected.s)
CloseChannel(s, id) == ClosedFor(setChannelAttribute(s, id))

\* Mutant: the channel is not asked for again.
CurrentChannelStale(s) == channel

\* The current read channel, or the one remembered when there is none.
CurrentChannel(s) ==
  LET a == getChannelAttribute(s) IN IF a.st = Ok THEN a.id ELSE channel

GetPortForwardRequest(s) == getChannelAttributeS(s) = {"direct-tcpip"}

\* cryptDestroySession after the handshake.
shutdownFunction(s) == closeAllChannels(s)

ShutDown(s) ==
  LET a == getChannelAttribute(s)
  IN  shutdownFunction(CloseChannel(s, IF a.st = Ok THEN a.id ELSE 1).s)

-----------------------------------------------------------------------------
(* The session thread: the shell loop, then the port forwarding loop. *)

NoForward == [channel |-> -1, sock |-> "invalid"]

End(s, status) ==
  /\ ssh' = ShutDown(s)
  /\ phase' = "ended"
  /\ why' = status
  /\ UNCHANGED <<index, channel, forwards, toServer, peer, opens>>

\* SocketCommunicationLoop: the shell's output goes to the remembered channel.
ShellSend ==
  /\ phase = "shell send"
  /\ \E output \in BOOLEAN :
       LET sent == PushChunk(ssh, channel, output) IN
       /\ output => Len(ssh.out) < OutBound
       /\ IF sent.st # Ok THEN End(sent.s, sent.st)
          ELSE /\ ssh' = sent.s
               /\ phase' = "shell receive"
               /\ UNCHANGED <<index, channel, forwards, why, toServer, peer, opens>>

\* cryptPopData on one packet, or on none: then the link is looked at.
Pop ==
  IF toServer = <<>>
  THEN [s |-> ssh, st |-> IF ssh.link THEN Ok ELSE "READ", rest |-> toServer]
  ELSE \* what cryptPopData makes of the first packet
       LET popped == cryptPopData(ssh, Head(toServer))
       IN  [s |-> popped.s, st |-> popped.st, rest |-> Tail(toServer)]

Reads(popped, next) ==
  /\ ssh' = popped.s /\ toServer' = popped.rest /\ phase' = next
  /\ UNCHANGED <<index, channel, forwards, why, peer, opens>>

\* A packet without data: "again" is the phase that reads the next one.
PopsNothing(popped, again) ==
  \/ popped.st = OkSpecial /\ Reads(popped, again)
  \/ popped.st = EnvelopeResource /\ Reads(popped, "resource")
  \/ popped.st \notin {Ok, OkSpecial, EnvelopeResource} /\ End(popped.s, popped.st)

ShellPopped(s, rest) ==
  /\ ssh' = s
  /\ toServer' = rest
  /\ channel' = CurrentChannel(s)
  /\ phase' = "shell send"
  /\ UNCHANGED <<index, forwards, why, peer, opens>>

ShellReceive ==
  /\ phase = "shell receive"
  /\ \E popped \in {Pop} :
       \/ PopsNothing(popped, "shell receive")
       \/ popped.st = Ok /\ ShellPopped(popped.s, popped.rest)

\* The connection to the requested host is made or fails.
CreateForwardSocket == {"open", "invalid"}

\* A peer-opened channel is asked about; only direct-tcpip is served.  The
\* notices of CreatePortForwardChannel go to channel 1, the shell's.
CreatePortForwardChannel ==
  /\ phase = "resource"
  /\ IF ~GetPortForwardRequest(ssh) THEN End(ssh, "ONLY_DIRECT_TCPIP")
     ELSE \E sock \in CreateForwardSocket :
       LET id    == CurrentChannel(ssh)
           free  == {i \in DOMAIN forwards : forwards[i] = NoForward}
           first == CHOOSE i \in free : \A j \in free : i <= j
           full  == Len(forwards) >= MaxForwards
           fi    == [channel |-> id, sock |-> sock]
           none  == [channel |-> id, sock |-> "invalid"]
       IN  /\ channel' = id
           /\ ssh' = PushChunk(ssh, 1, TRUE).s
           /\ forwards' = IF free # {} THEN [forwards EXCEPT ![first] = fi]
                          ELSE IF ~full THEN Append(forwards, fi)
                          ELSE IF Len(forwards) = MaxForwards THEN Append(forwards, none)
                          ELSE [forwards EXCEPT ![MaxForwards + 1] = none]
           /\ phase' = "transfer"
           /\ index' = 1
           /\ UNCHANGED <<why, toServer, peer, opens>>

CloseForwardChannel(s, i) ==
  /\ ssh' = PushChunk(CloseChannel(s, forwards[i].channel).s, 1, TRUE).s
  /\ forwards' = [forwards EXCEPT ![i] = NoForward]

\* One turn of the first loop: what the socket has goes to its channel.
TransferChannelData ==
  /\ phase = "transfer"
  /\ index <= Len(forwards)
  /\ \E received \in {"data", "nothing", "error"} :
       LET fi   == forwards[index]
           sent == PushChunk(ssh, fi.channel, received = "data")
       IN  /\ received = "data" => Len(ssh.out) < OutBound
           /\ fi.sock = "invalid" => received = "error"
           /\ IF fi = NoForward THEN UNCHANGED <<ssh, forwards>>
              ELSE IF received = "error" THEN CloseForwardChannel(ssh, index)
              ELSE IF sent.st # Ok THEN CloseForwardChannel(sent.s, index)
              ELSE ssh' = sent.s /\ UNCHANGED forwards
  /\ index' = index + 1
  /\ UNCHANGED <<phase, channel, why, toServer, peer, opens>>

\* The data goes to the socket of the channel that is current for reading.
ForwardPopped(s, rest) ==
  LET id    == CurrentChannel(s)
      mine  == {i \in DOMAIN forwards : forwards[i].channel = id}
      first == CHOOSE i \in mine : \A j \in mine : i <= j
  IN  \E delivered \in BOOLEAN :
        /\ toServer' = rest
        /\ channel' = id
        /\ phase' = "transfer"
        /\ index' = 1
        /\ IF mine = {} \/ (delivered /\ forwards[first].sock = "open")
           THEN ssh' = s /\ UNCHANGED forwards
           ELSE CloseForwardChannel(s, first)
        /\ UNCHANGED <<why, peer, opens>>

ForwardReceive ==
  /\ phase = "transfer"
  /\ index > Len(forwards)
  /\ \E popped \in {Pop} :
       \/ PopsNothing(popped, "transfer")
       \/ popped.st = Ok /\ ForwardPopped(popped.s, popped.rest)

-----------------------------------------------------------------------------
(* The network and the peer. *)

\* What has arrived can still be read; nothing more is sent or received.
LinkFails ==
  /\ ssh.link
  /\ phase # "ended"
  /\ ssh' = [ssh EXCEPT !.link = FALSE, !.out = <<>>]
  /\ UNCHANGED <<phase, index, channel, forwards, why, toServer, peer, opens>>

PeerSend(p, view) ==
  /\ ssh.link
  /\ phase # "ended"
  /\ Len(toServer) < QueueBound
  /\ toServer' = Append(toServer, p)
  /\ peer' = [peer EXCEPT ![p.no] = view]
  /\ UNCHANGED <<ssh, phase, index, channel, forwards, why>>

\* A channel the peer may still send on.
Writable(no) == peer[no].state = "open" /\ ~peer[no].sentClose

PeerOpen(no) ==
  /\ peer[no].state = "none"
  /\ opens < OpenBound
  /\ opens' = opens + 1
  /\ PeerSend(Packet("OPEN", no, "direct-tcpip"), [peer[no] EXCEPT !.state = "opening"])

PeerData(no) ==
  /\ Writable(no)
  /\ no \in DataChannels
  /\ ~peer[no].sentEof
  /\ peer[no].credit >= DataLen
  /\ PeerSend(Packet("DATA", no, DataLen), [peer[no] EXCEPT !.credit = @ - DataLen])
  /\ UNCHANGED opens

\* One request at a time: the peer asks again once the last was answered.
PeerRequest(no, request) ==
  /\ Writable(no)
  /\ peer[no].awaiting = 0
  /\ PeerSend(Packet("REQUEST", no, request),
              [peer[no] EXCEPT !.awaiting = IF requestInfo[request].wantReply THEN @ + 1 ELSE @])
  /\ UNCHANGED opens

\* Room for the server to send, which the server does not keep account of.
PeerAdjust(no) ==
  /\ Writable(no)
  /\ PeerSend(Packet("ADJUST", no, DataLen), peer[no])
  /\ UNCHANGED opens

PeerEof(no) ==
  /\ Writable(no)
  /\ ~peer[no].sentEof
  /\ PeerSend(Packet("EOF", no, 0), [peer[no] EXCEPT !.sentEof = TRUE])
  /\ UNCHANGED opens

Closed == [state |-> "none", sentEof |-> FALSE, sentClose |-> FALSE, gotClose |-> FALSE,
           credit |-> 0, awaiting |-> 0]

\* Answers may still be due on the number of a closed channel; each number has
\* at most one EOF.
Reset(no) == [Closed EXCEPT !.awaiting = peer[no].awaiting, !.sentEof = peer[no].sentEof]

\* The peer closes on its own or answers the server's CLOSE.
PeerClose(no) ==
  /\ Writable(no)
  /\ PeerSend(Packet("CLOSE", no, 0),
              IF peer[no].gotClose THEN Reset(no) ELSE [peer[no] EXCEPT !.sentClose = TRUE])
  /\ UNCHANGED opens

PeerReceive ==
  /\ ssh.out # <<>>
  /\ phase # "ended"
  /\ LET p == Head(ssh.out)
         v == peer[p.no]
     IN  /\ ssh' = [ssh EXCEPT !.out = Tail(@)]
         /\ peer' = [peer EXCEPT ![p.no] =
              CASE p.type = "OPEN_CONFIRMATION" -> [v EXCEPT !.state = "open", !.credit = p.arg]
                [] p.type = "OPEN_FAILURE" -> Reset(p.no)
                [] p.type = "ADJUST" -> [v EXCEPT !.credit = @ + p.arg]
                [] p.type \in {"SUCCESS", "FAILURE"} -> [v EXCEPT !.awaiting = @ - 1]
                [] p.type = "CLOSE" -> IF v.sentClose THEN Reset(p.no) ELSE [v EXCEPT !.gotClose = TRUE]
                [] OTHER -> v]
  /\ UNCHANGED <<phase, index, channel, forwards, why, toServer, opens>>

-----------------------------------------------------------------------------
\* The state after the handshake: the shell's channel is open on both sides.
Init ==
  /\ ssh = [chans |-> <<[Channel(1, 0, "session") EXCEPT
                           !.active = TRUE, !.windowCount = WindowSize, !.windowSize = WindowSize]>>,
            nextID |-> 2, read |-> 1, write |-> 1, response |-> <<>>, out |-> <<>>,
            sendClosed |-> FALSE, link |-> TRUE]
  /\ phase = "shell send"
  /\ index = 1
  /\ channel = 1
  /\ forwards = <<>>
  /\ why = Ok
  /\ toServer = <<>>
  /\ peer = [no \in ChannelNos |->
               IF no = 0 THEN [Closed EXCEPT !.state = "open", !.credit = WindowSize] ELSE Closed]
  /\ opens = 0

SocketCommunicationLoop == ShellSend \/ ShellReceive

PortForwardLoop == CreatePortForwardChannel \/ TransferChannelData \/ ForwardReceive

Client ==
  \/ \E no \in ChannelNos : \/ PeerOpen(no) \/ PeerData(no) \/ PeerAdjust(no) \/ PeerEof(no) \/ PeerClose(no)
                            \/ \E r \in PeerRequests : PeerRequest(no, r)
  \/ PeerReceive

Next == SocketCommunicationLoop \/ PortForwardLoop \/ Client \/ LinkFails

Spec == Init /\ [][Next]_vars
-----------------------------------------------------------------------------
(* Properties. *)

\* A packet of the type for the channel is in flight.
Has(q, type, no) == \E i \in DOMAIN q : q[i].type = type /\ q[i].no = no

\* The sum of a sequence of numbers.
Total(counts) ==
  LET sum[n \in 0..Len(counts)] == IF n = 0 THEN 0 ELSE sum[n - 1] + counts[n]
  IN  sum[Len(counts)]

\* Bytes the packets in flight carry, or give leave to send.
Bytes(q, type, no) ==
  Total([i \in DOMAIN q |-> IF q[i].type = type /\ q[i].no = no THEN q[i].arg ELSE 0])

Alive == phase # "ended" /\ ssh.link

\* Type invariant.
TypeOK ==
  /\ ssh.chans \in Seq([id : Nat \ {0}, no : ChannelNos, type : {"session", "direct-tcpip"},
                        active : BOOLEAN, writeClosed : BOOLEAN,
                        windowCount : Int, windowSize : {0, WindowSize}])
  /\ ssh.read \in Nat /\ ssh.write \in Nat /\ ssh.nextID \in Nat
  /\ phase \in {"shell send", "shell receive", "resource", "transfer", "ended"}
  /\ index \in Nat \ {0} /\ channel \in Nat
  /\ \A i \in DOMAIN forwards : forwards[i].sock \in {"open", "invalid"}
  /\ \A no \in ChannelNos : peer[no].state \in {"none", "opening", "open"}

\* The window the server counts is what the peer may still send, what it has
\* sent and what is being returned to it, and never less than half of it is
\* left: the halving rule of handleWindowAdjust neither starves the peer nor
\* lets it run over.
WindowBalance ==
  Alive => \A c \in Entries(ssh) :
    /\ peer[c.no].state = "open" =>
         c.windowCount = peer[c.no].credit + Bytes(toServer, "DATA", c.no) + Bytes(ssh.out, "ADJUST", c.no)
    /\ c.windowCount >= c.windowSize \div 2

\* The channels selected for reading and writing are in the list, the one
\* written to is not closed for writing, and no number is there twice.
CurrentChannels ==
  /\ ssh.read # UnusedID => findChannelByID(ssh, ssh.read) # {}
  /\ ssh.write # UnusedID => \E c \in findChannelByID(ssh, ssh.write) : ~c.writeClosed
  /\ \A i, j \in DOMAIN ssh.chans :
       ssh.chans[i].no = ssh.chans[j].no \/ ssh.chans[i].id = ssh.chans[j].id => i = j

\* The channel is open to the peer once it has received what comes before i.
OpenBefore(i, no) ==
  LET told == {j \in 1..i - 1 : ssh.out[j].no = no /\ ssh.out[j].type \in {"OPEN_CONFIRMATION", "CLOSE"}}
  IN  IF told = {} THEN peer[no].state = "open" /\ ~peer[no].gotClose
      ELSE \E j \in told : (\A k \in told : k <= j) /\ ssh.out[j].type = "OPEN_CONFIRMATION"

\* The peer gets neither data nor a second CLOSE on a channel that was never
\* confirmed to it or that the server has closed.
NothingAfterClose ==
  Alive => \A i \in DOMAIN ssh.out :
    ssh.out[i].type \in {"DATA", "CLOSE"} => OpenBefore(i, ssh.out[i].no)

\* Both sides agree on which channels are open: one the peer uses and nobody
\* is closing has an active entry, and every entry is known to the peer.
SidesAgree ==
  Alive =>
    /\ \A no \in ChannelNos :
         /\ peer[no].state = "open" /\ ~peer[no].sentClose /\ ~peer[no].gotClose
         /\ ~Has(ssh.out, "CLOSE", no)
         => \E c \in findChannelAttr(ssh, no) : c.active /\ ~c.writeClosed
    /\ \A c \in Entries(ssh) : ~c.writeClosed => peer[c.no].state # "none"

\* While the shell's channel is open, every forwarded channel that is not
\* closed has the one entry of forwards that carries its data.  (The last
\* channel cannot be closed on its own, so without the shell one may be left.)
\* The entry after the last, made to be closed at once, is taken for a free one
\* when it is empty: where kts.ini allows fewer forwards than SSH_MAX_CHANNELS,
\* a channel in it loses it to the next one too many.
ForwardsServed ==
  /\ phase = "transfer" /\ findChannelByID(ssh, 1) # {}
  /\ MaxChannels <= MaxForwards \/ Len(forwards) <= MaxForwards
  =>
    \A c \in Entries(ssh) :
      c.type = "direct-tcpip" /\ ~c.writeClosed =>
        Cardinality({i \in DOMAIN forwards : forwards[i].channel = c.id}) = 1

\* What ends the session of a peer that keeps to the protocol: the last
\* channel was closed, the link failed, one channel too many was asked for, a
\* channel request came while no channel was current for reading, or something
\* followed the EOF of a channel, which was closed by it.
SessionEndsForCause ==
  [][why' # why =>
       \/ why' = "COMPLETE" /\ ~isChannelActive(ssh', UnusedID)
       \/ why' \in {"READ", "WRITE"} /\ ~ssh.link
       \/ why' = "OVERFLOW" /\ Len(ssh.chans) = MaxChannels + 1
       \/ why' = "BADDATA" /\ peer[Head(toServer).no].sentEof
       \/ /\ why' = "INTERNAL"
          /\ Head(toServer).type = "REQUEST"
          /\ getCurrentChannelNo(ssh, "read") = NoChannel]_vars

\* Every request that wants a reply is answered once.
Awaited(view) ==
  Total([i \in 1..Max(ChannelNos) + 1 |-> IF i - 1 \in ChannelNos THEN view[i - 1].awaiting ELSE 0])
ToAnswer(q) ==
  Total([i \in DOMAIN q |-> IF q[i].type = "REQUEST" /\ requestInfo[q[i].arg].wantReply THEN 1 ELSE 0])
Answers(q) == Total([i \in DOMAIN q |-> IF q[i].type \in {"SUCCESS", "FAILURE"} THEN 1 ELSE 0])
RepliesOwed == Alive => Awaited(peer) = ToAnswer(toServer) + Answers(ssh.out)

\* The channel list is sound (types, current channels, unique numbers) and each
\* forwarded channel in it is served, whatever was closed, refused or failed
\* before (removeChannel, KPortForward::TransferChannelData).
ChannelInv == TypeOK /\ CurrentChannels /\ ForwardsServed

\* What is in flight between them reconciles the views of the two sides: the
\* channels that are open, those that are closed, and the replies that are due
\* (sendChannelClose, processChannelRequest).
ViewsAgree == SidesAgree /\ NothingAfterClose /\ RepliesOwed
=============================================================================
