----------------------------- MODULE SerialLink -----------------------------
(***************************************************************************)
(* The serial port that the program's output and GDB's packets share       *)
(* (src/src/transport/, src/src/sdk/mod.rs) and the host tool at its other *)
(* end, which tells them apart (src/cli/src/bin/v5gdb.rs).                 *)
(*                                                                         *)
(* All tasks of the program are one writer, "user".  The brain's other     *)
(* processor empties the ring and the host reads what it sends: one step   *)
(* here, of any number of bytes.  Bytes to the brain are numbered.         *)
(***************************************************************************)
EXTENDS Cobs

CONSTANTS
  OutBufSize,       \* the length of the output ring: 2048
  UserId, DebugId,  \* the bytes of ChannelId
  UserData,         \* what the program writes in one call
  DebugData,        \* what the debugger writes in one call
  MaxWrites,        \* bound: how many calls each makes
  MaxTyped          \* bound: how many bytes GDB sends

Writers == {"user", "debugger"}

ASSUME LinkAssumption ==
  /\ OutBufSize \in Nat /\ OutBufSize > 2
  /\ {UserId, DebugId} \subseteq Byte \ {0} /\ UserId # DebugId
  /\ UserData \union DebugData \subseteq Seq(Byte)
  /\ MaxWrites \in [Writers -> Nat] /\ MaxTyped \in Nat

VARIABLES
  \* the brain
  stopped,          \* whether the debug monitor runs instead of the program
  redirected,       \* the SDK's functions that jump to those of module `user`
  buf,              \* for each writer, what its mux::write_all has yet to pack
  frame,            \* for each writer, what its serial::write_all has yet to write
  flushing,         \* whether gdbstub has yet to flush what it wrote
  \* the port
  ring,             \* the output ring
  input,            \* the bytes sent to the brain and not yet read there
  \* the host tool
  incoming,         \* what is left of the bytes it has just read
  fed,              \* what the decoder has been fed since its last reset
  gdb,              \* the bytes it has passed to GDB
  shown,            \* the bytes it has shown the user
  \* history
  wrote,            \* for each writer, the bytes of its calls
  calls,            \* for each writer, their number
  partial,          \* whether the user's frame is partly in the ring
  clean,            \* no byte was written without a frame or inside another's
  typed,            \* how many bytes GDB has sent
  received          \* the bytes the debugger has read

brain == <<stopped, redirected, buf, frame, flushing>>
host == <<incoming, fed, gdb, shown>>
inward == <<input, typed, received>>
history == <<wrote, calls, partial, clean>>
vars == <<brain, ring, host, inward, history>>

Init ==
  /\ stopped = FALSE
  /\ redirected = {}
  /\ buf = [w \in Writers |-> <<>>]
  /\ frame = [w \in Writers |-> <<>>]
  /\ flushing = FALSE
  /\ ring = <<>> /\ input = <<>>
  /\ incoming = <<>> /\ fed = <<>>
  /\ gdb = <<>> /\ shown = <<>>
  /\ wrote = [w \in Writers |-> <<>>]
  /\ calls = [w \in Writers |-> 0]
  /\ partial = FALSE
  /\ clean = TRUE
  /\ typed = 0
  /\ received = <<>>

----------------------------------------------------------------------------
(* The brain.                                                              *)

ChannelOf(w) == IF w = "user" THEN UserId ELSE DebugId

Runs(w) == stopped = (w = "debugger")

Waiting(w) == buf[w] # <<>> \/ frame[w] # <<>>

\* The bytes that the ring has room for.
Fitting(bytes) == SubSeq(bytes, 1, Min({Len(bytes), OutBufSize - Len(ring)}))

Without(bytes, n) == SubSeq(bytes, n + 1, Len(bytes))

\* Faulty variant: no byte is kept for the delimiter.
PayloadToTheBrim(channel, bytes) ==
  LET fits == {n \in 0 .. Len(bytes) :
                 Len(Encode(<<channel>> \o SubSeq(bytes, 1, n))) <= OutBufSize}
  IN  SubSeq(bytes, 1, Max(fits))

\* The longest beginning of bytes that, with the channel in front, fits in a
\* buffer that keeps a byte for the delimiter.
Payload(channel, bytes) ==
  LET fits == {n \in 0 .. Len(bytes) :
                 Len(Encode(<<channel>> \o SubSeq(bytes, 1, n))) <= OutBufSize - 1}
  IN  SubSeq(bytes, 1, Max(fits))

\* Faulty variant: the byte that no longer fitted is not put in the next packet.
LossyPack(w) ==
  LET payload == Payload(ChannelOf(w), buf[w])
  IN  /\ buf' = [buf EXCEPT ![w] = Without(@, Len(payload) + 1)]
      /\ frame' = [frame EXCEPT ![w] = Append(Encode(<<ChannelOf(w)>> \o payload), 0)]

\* As much of buf as fits goes into a packet, with its delimiter.
Pack(w) ==
  LET payload == Payload(ChannelOf(w), buf[w])
  IN  /\ buf' = [buf EXCEPT ![w] = Without(@, Len(payload))]
      /\ frame' = [frame EXCEPT ![w] = Append(Encode(<<ChannelOf(w)>> \o payload), 0)]

\* One turn of the loop of mux::write_all, up to its serial::write_all.
write_all(w) ==
  /\ Runs(w)
  /\ buf[w] # <<>> /\ frame[w] = <<>>
  /\ Pack(w)
  /\ UNCHANGED <<stopped, redirected, flushing, ring, host, inward, history>>

\* serial::write_all calls write until everything is written; with no room in
\* the ring it waits in vexTasksRun.
WriteRing(w) ==
  /\ Runs(w)
  /\ frame[w] # <<>> /\ Len(ring) < OutBufSize
  /\ LET written == Fitting(frame[w])
         rest    == Without(frame[w], Len(written))
     IN  /\ ring' = ring \o written
         /\ frame' = [frame EXCEPT ![w] = rest]
         /\ partial' = IF w = "user" THEN rest # <<>> ELSE partial
  /\ clean' = (clean /\ (w = "user" \/ ~partial))
  /\ UNCHANGED <<stopped, redirected, buf, flushing, host, inward, wrote, calls>>

Call(w) ==
  /\ Runs(w) /\ ~Waiting(w) /\ calls[w] < MaxWrites[w]
  /\ calls' = [calls EXCEPT ![w] = @ + 1]

\* user::write_buffer, and user::write_char with a single byte.
write_buffer(data) ==
  /\ "vexSerialWriteBuffer" \in redirected
  /\ Call("user")
  /\ buf' = [buf EXCEPT !["user"] = data]
  /\ wrote' = [wrote EXCEPT !["user"] = @ \o data]
  /\ UNCHANGED <<stopped, redirected, frame, flushing, ring, host, inward, partial, clean>>

\* The SDK's own function, before it is redirected: no frame, and only what fits.
vexSerialWriteBuffer(data) ==
  /\ "vexSerialWriteBuffer" \notin redirected
  /\ Call("user")
  /\ ring' = ring \o Fitting(data)
  /\ clean' = FALSE
  /\ UNCHANGED <<brain, host, inward, wrote, partial>>

\* StdioTransport::write and write_all; gdbstub flushes after every packet.
DebuggerWrites(data) ==
  /\ Call("debugger") /\ ~flushing
  /\ buf' = [buf EXCEPT !["debugger"] = data]
  /\ flushing' = TRUE
  /\ wrote' = [wrote EXCEPT !["debugger"] = @ \o data]
  /\ UNCHANGED <<stopped, redirected, frame, ring, host, inward, partial, clean>>

flush_serial ==
  /\ stopped /\ flushing /\ ~Waiting("debugger")
  /\ OutBufSize - Len(ring) = OutBufSize
  /\ flushing' = FALSE
  /\ UNCHANGED <<stopped, redirected, buf, frame, ring, host, inward, history>>

\* The targets jump to their destinations from now on.
redirect_function(targets) == redirected' = redirected \union targets

\* Faulty variant: the program's reads are left alone.
WriteOnlyMuxing ==
  redirect_function({"vexSerialWriteBuffer", "vexSerialWriteChar"})

enable_auto_muxing ==
  redirect_function({"vexSerialWriteBuffer", "vexSerialWriteChar",
                     "vexSerialReadChar", "vexSerialPeekChar"})

\* A breakpoint or a Ctrl-C stops the program anywhere; the first stop starts
\* the session (StdioTransport::on_session_start).
Stop ==
  /\ ~stopped
  /\ stopped' = TRUE
  /\ enable_auto_muxing
  /\ UNCHANGED <<buf, frame, flushing, ring, host, inward, history>>

Resume ==
  /\ stopped /\ ~Waiting("debugger") /\ ~flushing
  /\ stopped' = FALSE
  /\ UNCHANGED <<redirected, buf, frame, flushing, ring, host, inward, history>>

----------------------------------------------------------------------------
(* Towards the brain.                                                      *)

\* user::read_char answers -1 and leaves the byte; the SDK's own function takes it.
UserReads ==
  /\ ~stopped /\ input # <<>>
  /\ input' = IF "vexSerialReadChar" \in redirected THEN input ELSE Tail(input)
  /\ UNCHANGED <<brain, ring, host, typed, received, history>>

DebuggerReads ==
  /\ input # <<>>
  /\ input' = Tail(input)
  /\ received' = Append(received, Head(input))
  /\ UNCHANGED <<brain, ring, host, typed, history>>

\* The monitor waits for a byte.
read == stopped /\ DebuggerReads

\* The poll of a session that has started takes what is there.
try_read == ~stopped /\ redirected # {} /\ DebuggerReads

----------------------------------------------------------------------------
(* The host tool.  Its loop reads from either side and takes a chunk from  *)
(* the port apart before it reads again.                                   *)

\* conn.read and connection.write_user.
ForwardInput ==
  /\ incoming = <<>> /\ typed < MaxTyped
  /\ typed' = typed + 1
  /\ input' = Append(input, typed')
  /\ UNCHANGED <<brain, ring, host, received, history>>

\* connection.read_user.
ReadUser ==
  /\ incoming = <<>>
  /\ \E n \in 1 .. Len(ring) :
       /\ incoming' = SubSeq(ring, 1, n)
       /\ ring' = Without(ring, n)
  /\ UNCHANGED <<brain, fed, gdb, shown, inward, history>>

\* What decoder.push makes of the chunk, after what it was fed before.
Report == Push(fed \o incoming)

\* report.parsed_size(): how much of that is in this chunk.
ParsedSize == Report.parsed - Len(fed)

\* The rest of the loop's body: the decoder is reset, and goes on n bytes later.
Continue(n) ==
  /\ fed' = <<>>
  /\ incoming' = Without(incoming, n)
  /\ UNCHANGED <<brain, ring, inward, history>>

IsValid(packet) == packet # <<>> /\ Head(packet) \in {UserId, DebugId}

\* A packet with a known channel goes where the channel says.
handle_packet ==
  /\ incoming # <<>> /\ Report.status = "frame" /\ IsValid(Report.packet)
  /\ LET body == Tail(Report.packet)
     IN  \/ Head(Report.packet) = UserId  /\ shown' = shown \o body /\ gdb' = gdb
         \/ Head(Report.packet) = DebugId /\ gdb' = gdb \o body /\ shown' = shown
  /\ Continue(ParsedSize)

\* An invalid packet is shown as it is, as far as it is in this chunk.
ShowInvalid ==
  /\ incoming # <<>> /\ Report.status = "frame" /\ ~IsValid(Report.packet)
  /\ shown' = shown \o SubSeq(incoming, 1, ParsedSize)
  /\ gdb' = gdb
  /\ Continue(ParsedSize)

\* The decoder errs: one byte is shown and skipped.
SkipByte ==
  /\ incoming # <<>> /\ Report.status = "error"
  /\ shown' = Append(shown, Head(incoming))
  /\ gdb' = gdb
  /\ Continue(1)

\* Faulty variant: the decoder is reset for every chunk.
ForgetRest ==
  fed' = <<>>

\* The decoder keeps what it has.
KeepRest ==
  fed' = fed \o incoming

\* The frame is split across reads.
AwaitMore ==
  /\ incoming # <<>> /\ Report.status = "more"
  /\ KeepRest
  /\ incoming' = <<>>
  /\ UNCHANGED <<brain, ring, gdb, shown, inward, history>>

----------------------------------------------------------------------------

Brain ==
  \/ \E w \in Writers : write_all(w) \/ WriteRing(w)
  \/ \E data \in UserData : write_buffer(data) \/ vexSerialWriteBuffer(data)
  \/ \E data \in DebugData : DebuggerWrites(data)
  \/ flush_serial \/ Stop \/ Resume
  \/ UserReads \/ read \/ try_read

Parse == handle_packet \/ ShowInvalid \/ SkipByte \/ AwaitMore

Next == Brain \/ ForwardInput \/ ReadUser \/ Parse

\* What write_all does to buf and every step of the host's inner loop does to
\* incoming, and no other step: they get shorter.
Packs(w) ==
  /\ Runs(w) /\ buf[w] # <<>> /\ frame[w] = <<>>
  /\ buf' \in {[buf EXCEPT ![w] = rest] : rest \in Suffixes(buf[w])}

Parses == incoming # <<>> /\ incoming' \in Suffixes(incoming)

\* A writer that has the processor goes on, and so does the host.  GDB and the
\* program need not write, nor stop, nor resume.
Fairness ==
  /\ \A w \in Writers : WF_buf(Packs(w)) /\ WF_vars(WriteRing(w))
  /\ WF_vars(ReadUser) /\ WF_incoming(Parses)

Spec == Init /\ [][Next]_vars /\ Fairness

----------------------------------------------------------------------------
(* Properties.                                                             *)

\* Every variable has its type, the ring and every packet fit their buffers,
\* and a packet ends at its only zero (mux.rs:57-87).
TypeOK ==
  /\ {stopped, flushing, partial, clean} \subseteq BOOLEAN
  /\ buf \in [Writers -> Seq(Byte)] /\ wrote \in [Writers -> Seq(Byte)]
  /\ \A w \in Writers :
       /\ frame[w] \in Seq(Byte) /\ Len(frame[w]) <= OutBufSize
       /\ frame[w] # <<>> => \A i \in DOMAIN frame[w] : frame[w][i] = 0 <=> i = Len(frame[w])
  /\ ring \in Seq(Byte) /\ Len(ring) <= OutBufSize
  /\ {incoming, fed, gdb, shown} \subseteq Seq(Byte)
  /\ calls \in [Writers -> Nat] /\ typed \in 0 .. MaxTyped
  /\ {input, received} \subseteq Seq(1 .. MaxTyped)

\* However the ring fills, the packets are split and the reads cut them, GDB gets
\* what the debugger wrote and the user what the program wrote, in order and
\* nothing else: "so that serial consumers can easily differentiate debug data
\* from standard user I/O" (mux.rs:99-100).
StreamsAreKeptApart ==
  clean => /\ IsPrefix(gdb, wrote["debugger"])
           /\ IsPrefix(shown, wrote["user"])

\* In the end nothing that was written is left behind, in the ring, in a packet
\* that was not begun or in the decoder (mux.rs:62-86, v5gdb.rs:184-187).
EverythingArrives ==
  []<>(clean => /\ gdb = wrote["debugger"]
                /\ stopped \/ shown = wrote["user"])

\* Once the session has started, the debugger is the only reader: it gets every
\* byte that was there, or comes, in order (transport/mod.rs:67-70).
InputIsWhole ==
  redirected # {} =>
    LET bytes == received \o input
    IN  bytes = [i \in 1 .. Len(bytes) |-> typed - Len(bytes) + i]
=============================================================================
