-------------------------- MODULE EmbassyTransport --------------------------
(***************************************************************************)
(* The embassy-net transport: one dial (connect), the stream half          *)
(* (EmbassyWsStream::recv) with its remainder bookkeeping, and the sink    *)
(* half (EmbassyWsSink).  Bytes are units: a WebSocket frame is HeaderLen  *)
(* header units and its payload.  TCP, its buffers, the decoder of the     *)
(* WebSocket library and the server are external.                          *)
(***************************************************************************)
EXTENDS Naturals, Sequences

CONSTANTS Servers,        \* what a server answers: the response, then frames
          HeaderLen,      \* units of a frame header
          RxSize,         \* ConnectConfig::socket_rx_buffer_size
          TxSize,         \* ConnectConfig::socket_tx_buffer_size
          HandshakeSize,  \* ConnectConfig::handshake_buffer_size
          FrameSize,      \* ConnectConfig::frame_buffer_size
          RequestLengths, \* lengths of the opening request: host and path are given
          Lengths,        \* encoded lengths of the frames the client sends
          Sockets         \* sockets the network stack has room for

Frames == [type : {"text", "binary", "ping", "pong", "close"},
           msg : Nat, len : Nat, fin : BOOLEAN]

\* The texts that the first k frames complete, and whether they leave none open.
Completed(frames, k) ==
    LET count[j \in Nat] ==
          IF j = 0 THEN 0
          ELSE count[j - 1] + (IF frames[j].type = "text" /\ frames[j].fin THEN 1 ELSE 0)
    IN count[k]
Settled(frames, k) ==
    \A j \in 1 .. k : frames[j].type = "text" => frames[j].msg <= Completed(frames, k)

\* What a server that follows the WebSocket protocol sends: texts, numbered in
\* order, are fragmented with only control frames between the fragments.
WellFormed(s) ==
    /\ s.response \in Nat /\ s.frames \in Seq(Frames)
    /\ \A k \in 1 .. Len(s.frames) :
          /\ s.frames[k].type = "text" => s.frames[k].msg = Completed(s.frames, k - 1) + 1
          /\ s.frames[k].type = "binary" => Settled(s.frames, k - 1)
    /\ Settled(s.frames, Len(s.frames))

ASSUME EmbassyAssumption ==
    /\ \A s \in Servers : WellFormed(s)
    /\ {HeaderLen, RxSize, TxSize, HandshakeSize, FrameSize, Sockets} \subseteq Nat \ {0}
    /\ RequestLengths \cup Lengths \subseteq Nat \ {0}

VARIABLES tpc,          \* the connection: none, connecting, response, unheard, up, ended
          server,       \* the server dialled
          wire,         \* units on their way to the client
          response,     \* units of the opening handshake read so far
          decoding,     \* the decoder: the frame it is in the middle of, if any
          left,         \*   and the payload units of it still to come
          pending,      \* EmbassyWsStream::pending
          accumulated,  \* EmbassyWsStream::accumulated
          rpc,          \* recv: idle, or in its loop
          got,          \* history: the text messages recv returned, in order
          spc,          \* the sink: idle, writing, flushing
          sending,      \* length of the frame it sends
          queued,       \* units in the TCP transmit buffer
          torn,         \* history: length of a frame only part of which was written
          cancelled,    \* history: a send was dropped before its flush ended
          leaked,       \* TCP sockets leaked, with their buffers
          established   \* history: dials that produced a connection

dialVars   == <<tpc, server, response, leaked, established>>
streamVars == <<wire, decoding, left, pending, accumulated, rpc, got>>
sinkVars   == <<spc, sending, queued, torn, cancelled>>
embassyVars == <<dialVars, streamVars, sinkVars>>

FrameUnits(frame) ==
    [i \in 1 .. HeaderLen + frame.len |-> [frame |-> frame, at |-> i]]
NoFrame == [type |-> "none", msg |-> 0, len |-> 0, fin |-> TRUE]
ResponseUnits(n) == [i \in 1 .. n |-> [frame |-> NoFrame, at |-> i]]
ServerUnits(s) ==
    LET units[k \in 0 .. Len(s.frames)] ==
          IF k = 0 THEN ResponseUnits(s.response)
          ELSE units[k - 1] \o FrameUnits(s.frames[k])
    IN units[Len(s.frames)]
NoServer == [response |-> 0, frames |-> <<>>]
Smaller(a, b) == IF a < b THEN a ELSE b
Counts(seq, most) == 1 .. Smaller(Len(seq), most)
Drop(seq, n) == SubSeq(seq, n + 1, Len(seq))

EmbassyInit ==
    /\ tpc = "none" /\ server = NoServer /\ response = 0 /\ leaked = 0 /\ established = 0
    /\ wire = <<>> /\ decoding = NoFrame /\ left = 0 /\ pending = <<>> /\ accumulated = <<>>
    /\ rpc = "idle" /\ got = <<>>
    /\ spc = "idle" /\ sending = 0 /\ queued = 0 /\ torn = 0 /\ cancelled = FALSE

------------------------------------------------------------------------------
(* connect. *)

\* The socket and its buffers are leaked before anything can fail.  There is no
\* room for another socket: see the caller.
Dial(s) ==
    /\ tpc \in {"none", "ended"} /\ leaked < Sockets
    /\ leaked' = leaked + 1
    /\ tpc' = "connecting" /\ server' = s /\ response' = 0
    /\ wire' = ServerUnits(s)
    /\ decoding' = NoFrame /\ left' = 0 /\ pending' = <<>> /\ accumulated' = <<>>
    /\ rpc' = "idle" /\ got' = <<>>
    /\ spc' = "idle" /\ sending' = 0 /\ queued' = 0 /\ torn' = 0 /\ cancelled' = FALSE
    /\ UNCHANGED established

\* The TCP connection stands, and the request is handed to one write, which takes
\* what fits the transmit buffer, and flushed.  A server that gets only part of the
\* request does not answer it.
Requested ==
    /\ tpc = "connecting"
    /\ \E length \in RequestLengths :
          tpc' = IF length <= TxSize THEN "response" ELSE "unheard"
    /\ UNCHANGED <<server, response, leaked, established, streamVars, sinkVars>>

\* Mutant: what follows the response in the buffer is thrown away.
ReadResponseOnly(n) ==
    /\ tpc = "response" /\ n \in Counts(wire, HandshakeSize - response)
    /\ wire' = Drop(wire, n) /\ response' = response + n
    /\ tpc' = CASE response' >= server.response   -> "up"
                [] response' = HandshakeSize      -> "none"
                [] OTHER                          -> "response"
    /\ established' = IF tpc' = "up" THEN established + 1 ELSE established
    /\ UNCHANGED <<server, leaked, decoding, left, pending, accumulated, rpc, got, sinkVars>>

\* Another piece of the response: complete, too long for the buffer, or to be
\* continued.  What follows it in the buffer is the stream's.
ReadResponse(n) ==
    /\ tpc = "response" /\ n \in Counts(wire, HandshakeSize - response)
    /\ wire' = Drop(wire, n) /\ response' = response + n
    /\ tpc' = CASE response' >= server.response   -> "up"
                [] response' = HandshakeSize      -> "none"
                [] OTHER                          -> "response"
    /\ pending' = IF tpc' = "up"
                    THEN SubSeq(ServerUnits(server), server.response + 1, response') ELSE <<>>
    /\ established' = IF tpc' = "up" THEN established + 1 ELSE established
    /\ UNCHANGED <<server, leaked, decoding, left, accumulated, rpc, got, sinkVars>>

\* The TCP connect, the write, a read or the server's answer fails, or the
\* server hangs up.  Nothing is given back.
DialFails ==
    /\ tpc \in {"connecting", "response", "unheard"} /\ tpc' = "none"
    /\ UNCHANGED <<server, response, leaked, established, streamVars, sinkVars>>

------------------------------------------------------------------------------
(* EmbassyWsStream::recv. *)

Recv ==
    /\ tpc = "up" /\ rpc = "idle" /\ rpc' = "loop"
    /\ UNCHANGED <<dialVars, wire, decoding, left, pending, accumulated, got, sinkVars>>

\* The socket is read only when nothing is pending.
ReadSocket(n) ==
    /\ tpc = "up" /\ rpc = "loop" /\ pending = <<>>
    /\ n \in Counts(wire, RxSize)
    /\ pending' = SubSeq(wire, 1, n) /\ wire' = Drop(wire, n)
    /\ UNCHANGED <<dialVars, decoding, left, accumulated, rpc, got, sinkVars>>

\* Mutant: the text assembled so far lives in the future.
CancelRecvForgets ==
    /\ tpc = "up" /\ rpc = "loop" /\ pending = <<>>
    /\ rpc' = "idle" /\ accumulated' = <<>>
    /\ UNCHANGED <<dialVars, wire, decoding, left, pending, got, sinkVars>>

\* The future is dropped at its only await that can wait, the socket's read.
CancelRecv ==
    /\ tpc = "up" /\ rpc = "loop" /\ pending = <<>>
    /\ rpc' = "idle"
    /\ UNCHANGED <<dialVars, wire, decoding, left, pending, accumulated, got, sinkVars>>

\* The decoder, given what is pending: it needs a whole header, and hands out as
\* much payload as there is and as the frame buffer holds.
Header     == IF decoding = NoFrame THEN HeaderLen ELSE 0
Current    == IF Header > 0 THEN pending[1].frame ELSE decoding
Remaining  == IF Header > 0 THEN Current.len ELSE left
HeaderCut  == Len(pending) < Header
PayloadLen == Smaller(Remaining, Smaller(Len(pending) - Header, FrameSize))
FrameDone  == PayloadLen = Remaining

Decoded ==
    /\ tpc = "up" /\ rpc = "loop" /\ pending # <<>> /\ ~HeaderCut
    /\ pending' = Drop(pending, Header + PayloadLen)
    /\ decoding' = IF FrameDone THEN NoFrame ELSE Current
    /\ left' = Remaining - PayloadLen
    /\ UNCHANGED <<wire, server, response, leaked, established, sinkVars>>

Payload == SubSeq(pending, Header + 1, Header + PayloadLen)

\* Text is assembled over frames and over calls of the decoder; what turns out
\* not to be UTF-8 is an error of recv's.
DecodeText ==
    /\ Decoded /\ Current.type = "text"
    /\ IF FrameDone /\ Current.fin
         THEN /\ rpc' = "idle" /\ accumulated' = <<>>
              /\ \/ got' = Append(got, accumulated \o Payload) /\ UNCHANGED tpc
                 \/ tpc' = "ended" /\ UNCHANGED got
         ELSE accumulated' = accumulated \o Payload /\ UNCHANGED <<tpc, rpc, got>>

\* Binary data is dropped, with whatever had been assembled.
DecodeBinary ==
    /\ Decoded /\ Current.type = "binary"
    /\ accumulated' = <<>>
    /\ UNCHANGED <<tpc, rpc, got>>

\* A ping or pong is returned as it comes out of the decoder, whole or not.
DecodeControl ==
    /\ Decoded /\ Current.type \in {"ping", "pong"}
    /\ rpc' = "idle"
    /\ UNCHANGED <<tpc, accumulated, got>>

DecodeClose ==
    /\ Decoded /\ Current.type = "close"
    /\ rpc' = "idle" /\ tpc' = "ended"
    /\ UNCHANGED <<accumulated, got>>

\* A header cut by the end of a read is an error of the decoder's, and recv's.
CutHeader ==
    /\ tpc = "up" /\ rpc = "loop"
    /\ pending # <<>> /\ HeaderCut
    /\ rpc' = "idle" /\ tpc' = "ended"
    /\ UNCHANGED <<wire, server, response, leaked, established, decoding, left, pending,
                   accumulated, got, sinkVars>>

\* The socket's read fails or returns nothing: the peer is gone.
SocketEnds ==
    /\ tpc = "up" /\ rpc = "loop" /\ pending = <<>>
    /\ rpc' = "idle" /\ tpc' = "ended"
    /\ UNCHANGED <<wire, server, response, leaked, established, decoding, left, pending,
                   accumulated, got, sinkVars>>

RecvStep ==
    \/ \E n \in 1 .. RxSize : ReadSocket(n)
    \/ DecodeText \/ DecodeBinary \/ DecodeControl \/ DecodeClose \/ CutHeader

------------------------------------------------------------------------------
(* EmbassyWsSink: send, ping, pong and close. *)

\* The frame is encoded into tx_scratch, or does not fit and is refused.
Encode(length) ==
    /\ tpc = "up" /\ spc = "idle" /\ length <= FrameSize
    /\ spc' = "write" /\ sending' = length
    /\ UNCHANGED <<dialVars, streamVars, queued, torn, cancelled>>

\* One write, which takes what the transmit buffer has room for; how much that
\* was is not looked at.
WriteSocket ==
    /\ tpc = "up" /\ spc = "write" /\ queued < TxSize
    /\ LET taken == Smaller(sending, TxSize - queued)
       IN /\ queued' = queued + taken
          /\ torn' = IF taken < sending THEN sending ELSE torn
    /\ spc' = "flush"
    /\ UNCHANGED <<dialVars, streamVars, sending, cancelled>>

\* Mutant: the send ends without waiting for the buffer to empty.
FlushNothing ==
    /\ tpc = "up" /\ spc = "flush"
    /\ spc' = "idle" /\ sending' = 0
    /\ UNCHANGED <<dialVars, streamVars, queued, torn, cancelled>>

Flushed ==
    /\ tpc = "up" /\ spc = "flush" /\ queued = 0
    /\ spc' = "idle" /\ sending' = 0
    /\ UNCHANGED <<dialVars, streamVars, queued, torn, cancelled>>

\* The future is dropped while it waits: a courtesy close that timed out, a
\* request given up.
CancelSend ==
    /\ tpc = "up" /\ spc \in {"write", "flush"}
    /\ spc' = "idle" /\ sending' = 0 /\ cancelled' = TRUE
    /\ UNCHANGED <<dialVars, streamVars, queued, torn>>

\* TCP sends what is queued.
Transmit ==
    /\ tpc = "up" /\ queued > 0
    /\ queued' = queued - 1
    /\ UNCHANGED <<dialVars, streamVars, spc, sending, torn, cancelled>>

SinkStep ==
    \/ \E length \in Lengths : Encode(length)
    \/ WriteSocket \/ Flushed \/ CancelSend \/ Transmit

------------------------------------------------------------------------------
(* Properties. *)

AllUnits == ServerUnits(server)
PartOf(unit, message) ==
    unit.frame.type = "text" /\ unit.frame.msg = message /\ unit.at > HeaderLen

\* What the first i units hold of a message; and the n-th text, taken from all the
\* server sends.
TextOf(units, message) ==
    LET text[i \in 0 .. Len(units)] ==
          IF i = 0 THEN <<>>
          ELSE IF PartOf(units[i], message) THEN Append(text[i - 1], units[i]) ELSE text[i - 1]
    IN text
Message(n) == TextOf(AllUnits, n)[Len(AllUnits)]
Messages ==
    {server.frames[k].msg : k \in {j \in DOMAIN server.frames : server.frames[j].type = "text"}}

\* However TCP cuts the stream, whatever control frames come between fragments,
\* however often recv is dropped and called again: the n-th text recv returns is
\* the n-th the server sent ("must not lose or partially consume an event",
\* transport.rs:68-70).
TextsExact == \A n \in DOMAIN got : got[n] = Message(n)

\* Nothing is left behind: once all of the server's bytes have been taken in and
\* the stream has not ended, every text has been returned.
AllDelivered ==
    tpc = "up" /\ wire = <<>> /\ pending = <<>>
        => DOMAIN got = Messages /\ accumulated = <<>>

\* A frame no longer than the transmit buffer goes out whole, as long as every
\* send before it was allowed to finish: each waits for the buffer to empty
\* (transport.rs:278-283).
WholeIfItFits == torn > 0 /\ ~cancelled => torn > TxSize

\* "Sends one complete OCPP-J text frame at a time" (transport.rs:30).
FramesWhole == torn = 0

\* "One leak per successful connect/reconnect" (embassy transport.rs:95-98), but
\* for the one a dial under way has made.
OneLeakPerConnection ==
    leaked <= established + (IF tpc \in {"connecting", "response", "unheard"} THEN 1 ELSE 0)

==============================================================================
