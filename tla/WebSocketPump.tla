----------------------------- MODULE WebSocketPump -----------------------------
(***************************************************************************)
(* One upgraded WebSocket connection of a server function                  *)
(* (src/server_fn/websocket.rs): the pump that owns its IO, the frame      *)
(* checks and the assembly of messages, the bounded channels to and from   *)
(* the application, and the close handshake after it.                      *)
(*                                                                         *)
(* A frame is known by its position in what the peer sent, a message by    *)
(* the positions of its frames.  Its text is one of four pieces: whole     *)
(* characters, the head or the tail of a split one, or bytes that are in   *)
(* no UTF-8 text.                                                          *)
(***************************************************************************)
EXTENDS Integers, Sequences, FiniteSets, FiniteSetsExt, SequencesExt

CONSTANTS
    Frames,         \* frames the peer may send
    MaxFrames,      \* bound: frames the peer sends
    MaxOutput,      \* bound: messages the application sends
    Limit,          \* payload_limit
    ControlMax,     \* 125, the longest control payload
    Buffer,         \* ws_channel_buffer of both channels
    HighWater,      \* messages in the write buffer that mean backpressure
    Budget,         \* turns of one poll (32)
    None

ASSUME FramesAssumption ==
    Frames \subseteq [op : {"text", "binary", "continuation", "ping", "pong", "close"},
                      fin : BOOLEAN, len : Nat, valid : BOOLEAN,
                      utf8 : {"whole", "head", "tail", "bad"}]
\* The header checks refuse a control frame that is fragmented or too long.
ASSUME ControlAssumption ==
    \A f \in Frames : f.valid /\ f.op \in {"ping", "pong", "close"} => f.fin /\ f.len <= ControlMax
ASSUME LimitsAssumption == /\ Limit \in Nat /\ ControlMax \in Nat /\ Buffer \in Nat
                           /\ HighWater \in Nat \ {0} /\ Budget \in Nat \ {0}
ASSUME BoundsAssumption == MaxFrames \in Nat /\ MaxOutput \in Nat

\* Assembly: the positions of the fragments held, their length and their text.
AssemblyType == [text : BOOLEAN, parts : Seq(Nat), len : 0..Limit,
                 utf8 : {"clean", "split", "bad"}]
ASSUME NoneAssumption == None \notin AssemblyType

VARIABLES
    wire, pending,          \* frames decoded, and how many the peer sent beyond them
    peer, noticed, paused,  \* the transport: peer, IO's view of it, reading paused
    fragmented, assembly,   \* CheckedCodec.fragmented, Assembly
    input, inputOpen, reader, delivered,  \* channel to the application
    output, sent, writer,   \* channel from the application
    encoded, flushed, blocked,            \* write buffer and its backpressure
    pc, turns, progress, result,          \* the connection task
    armed, sched,           \* events that wake it, and whether it will be polled
    cancelled               \* the ConnectionScope's sender was dropped

wireVars == <<pending, peer, noticed, paused>>
codecVars == <<wire, fragmented, assembly>>
inputVars == <<input, inputOpen, reader, delivered>>
outputVars == <<output, sent, writer>>
writeVars == <<encoded, flushed, blocked>>
taskVars == <<pc, turns, progress, result, armed, sched, cancelled>>
vars == <<wireVars, codecVars, inputVars, outputVars, writeVars, taskVars>>

Init ==
    /\ wire = <<>> /\ pending = 0
    /\ peer = "open" /\ noticed = FALSE /\ paused = FALSE
    /\ fragmented = FALSE /\ assembly = None
    /\ input = <<>> /\ inputOpen = TRUE /\ reader = TRUE /\ delivered = <<>>
    /\ output = <<>> /\ sent = 0 /\ writer = TRUE
    /\ encoded = <<>> /\ flushed = 0 /\ blocked = FALSE
    /\ pc = "out" /\ turns = 0 /\ progress = FALSE /\ result = "none"
    /\ armed = {} /\ sched = FALSE /\ cancelled = FALSE

\* Definitions whose name starts with Bug are faulty variants of the definition
\* that follows; they are used only to check that the properties can fail.

Wake(e) == sched' = (sched \/ e \in armed)

\* futures::mpsc with one sender: the buffer and the sender's own slot.
Room(channel) == Len(channel) <= Buffer

\* What is encoded: the application's messages 1, 2, ..., and two of the pump's own.
Pong == 0
Close == -1

\* Io::encode; reaching the high watermark means backpressure.
Encode(m) ==
    /\ encoded' = Append(encoded, m)
    /\ blocked' = (blocked \/ Len(encoded') - flushed >= HighWater)
    /\ UNCHANGED flushed

-----------------------------------------------------------------------------
(* Frames and messages.                                                    *)

\* UTF-8 validity of a text that arrives in pieces.
Utf8(state, piece) ==
    CASE state = "clean" /\ piece = "whole" -> "clean"
      [] state = "clean" /\ piece = "head" -> "split"
      [] state = "split" /\ piece = "tail" -> "clean"
      [] OTHER -> "bad"

\* CheckedCodec::decode: the error of a frame, if any.  valid stands for the
\* header checks that need no other state; a continuation that continues
\* nothing and an excessive length are refused by ntex's codec.
DecodeError(f) ==
    IF ~f.valid \/ (f.op \in {"text", "binary"} /\ fragmented) THEN "protocol"
    ELSE IF f.op = "close" /\ f.utf8 # "whole" THEN "invalid"
    ELSE IF f.len > Max({Limit, ControlMax}) THEN "size"
    ELSE IF f.op = "continuation" /\ ~fragmented THEN "protocol"
    ELSE "none"

Fragmented(f) == IF f.op \in {"text", "binary", "continuation"} THEN ~f.fin ELSE fragmented

\* Room left in the message: a fragment may not exceed what its predecessors left.
BugRoomLeft(a) == Limit
RoomLeft(a) == IF a = None THEN Limit ELSE Limit - a.len

\* Assembly::accept with frame i: what is held afterwards, and the error or the
\* message (a sequence of at most one) that comes out.
Accept(f, i) ==
    LET held == IF f.op = "continuation"
                  THEN [assembly EXCEPT !.parts = Append(@, i), !.len = @ + f.len,
                                        !.utf8 = Utf8(@, f.utf8)]
                  ELSE [text |-> f.op = "text", parts |-> <<i>>, len |-> f.len,
                        utf8 |-> Utf8("clean", f.utf8)]
        before == IF f.op = "continuation" THEN assembly ELSE None
        error == IF f.len > RoomLeft(before) THEN "size"
                 ELSE IF f.fin /\ held.text /\ held.utf8 # "clean" THEN "invalid"
                 ELSE "none"
    IN  [held |-> IF error = "size" THEN before ELSE IF f.fin THEN None ELSE held,
         error |-> error,
         messages |-> IF error = "none" /\ f.fin THEN <<held.parts>> ELSE <<>>]

-----------------------------------------------------------------------------
(* pump, one turn of its loop in two steps: the IO and the pump share one  *)
(* thread, the application's ends of the channels may be on any.           *)

\* The pump returns and drops its channel ends and the cancellation sender.
\* Without a close reason the task is over.
BugEnd(r) ==
    /\ result' = r
    /\ pc' = IF r = "disconnect" THEN "gone" ELSE "closing"
    /\ UNCHANGED <<turns, progress, armed, sched, cancelled>>
End(r) ==
    /\ result' = r
    /\ cancelled' = TRUE
    /\ pc' = IF r = "disconnect" THEN "gone" ELSE "closing"
    /\ UNCHANGED <<turns, progress, armed, sched>>

\* The application will send nothing more.
BugOutputEnded == ~writer
OutputEnded == ~writer /\ output = <<>>

\* A turn looks for a disconnect first.  Output is taken from its channel only
\* while the write buffer has room.
Out ==
    /\ pc = "out"
    /\ \/ /\ noticed
          /\ End("disconnect")
          /\ UNCHANGED <<output, writeVars>>
       \/ /\ ~noticed /\ blocked
          /\ pc' = "in" /\ armed' = armed \cup {"disconnect", "flush"}
          /\ UNCHANGED <<turns, progress, result, sched, cancelled, output, writeVars>>
       \/ /\ ~noticed /\ ~blocked /\ OutputEnded
          /\ End("finished")
          /\ UNCHANGED <<output, writeVars>>
       \/ /\ ~noticed /\ ~blocked /\ ~OutputEnded /\ output # <<>>
          /\ Encode(Head(output))
          /\ output' = Tail(output)
          /\ pc' = "in" /\ progress' = TRUE /\ armed' = armed \cup {"disconnect"}
          /\ UNCHANGED <<turns, result, sched, cancelled>>
       \/ /\ ~noticed /\ ~blocked /\ ~OutputEnded /\ output = <<>>
          /\ pc' = "in" /\ armed' = armed \cup {"disconnect", "output"}
          /\ UNCHANGED <<turns, progress, result, sched, cancelled, output, writeVars>>
    /\ UNCHANGED <<wireVars, codecVars, inputVars, sent, writer>>

\* The turn ends: another one, a voluntary yield, or Pending.
NextTurn(moved) ==
    /\ progress' = FALSE
    /\ IF ~moved THEN pc' = "parked" /\ turns' = 0 /\ UNCHANGED sched
       ELSE IF turns + 1 = Budget THEN pc' = "parked" /\ turns' = 0 /\ sched' = TRUE
       ELSE pc' = "out" /\ turns' = turns + 1 /\ UNCHANGED sched
    /\ UNCHANGED <<result, cancelled>>

\* Input is not decoded while output cannot progress (a Pong is output), nor
\* while the application has no room for a message; reading is paused then.
InputBlocked ==
    /\ pc = "in" /\ blocked
    /\ armed' = armed \cup {"flush"}
    /\ NextTurn(progress)
    /\ UNCHANGED <<wireVars, codecVars, inputVars, outputVars, writeVars>>

BugArmed == armed
PausedArmed == armed \cup {"input"}

InputFull ==
    /\ pc = "in" /\ ~blocked
    /\ inputOpen /\ reader /\ ~Room(input)
    /\ paused' = TRUE
    /\ armed' = PausedArmed
    /\ NextTurn(progress)
    /\ UNCHANGED <<pending, peer, noticed, codecVars, inputVars, outputVars, writeVars>>

\* poll_ready found room, or found the application's end dropped.
MayReceive == /\ pc = "in" /\ ~blocked
              /\ inputOpen /\ reader => Room(input)

\* poll_recv without a frame resumes reading.
ReceiveNothing ==
    /\ MayReceive /\ pending = 0
    /\ inputOpen' = (inputOpen /\ reader)
    /\ paused' = FALSE
    /\ armed' = armed \cup {"read"}
    /\ NextTurn(progress)
    /\ UNCHANGED <<pending, peer, noticed, codecVars, input, reader, delivered,
                   outputVars, writeVars>>

\* An Err in the input channel; an Ok is the nonempty sequence of its frames.
ErrorItem == <<>>

\* report_error: the application is told if there is room, never waited for.
Report ==
    input' = IF reader /\ Room(input) THEN Append(input, ErrorItem) ELSE input

\* One frame: an error or a Close ends the pump, a Ping is answered, data goes
\* through the assembly and its message to the application.
Receive(f) ==
    LET error == DecodeError(f)
        data == f.op \in {"text", "binary", "continuation"}
        accepted == Accept(f, Len(wire) + 1)
    IN
    /\ MayReceive /\ pending > 0
    /\ wire' = Append(wire, f) /\ pending' = pending - 1
    /\ inputOpen' = (inputOpen /\ reader)
    /\ \/ /\ error # "none"
          /\ Report /\ End(error)
          /\ UNCHANGED <<fragmented, assembly, writeVars>>
       \/ /\ error = "none" /\ f.op = "close"
          /\ End("peer_close")
          /\ UNCHANGED <<input, fragmented, assembly, writeVars>>
       \/ /\ error = "none" /\ f.op \in {"ping", "pong"}
          /\ IF f.op = "ping" THEN Encode(Pong) ELSE UNCHANGED writeVars
          /\ NextTurn(TRUE)
          /\ UNCHANGED <<input, fragmented, assembly, armed>>
       \/ /\ error = "none" /\ data
          /\ fragmented' = Fragmented(f)
          /\ assembly' = accepted.held
          /\ IF accepted.error # "none"
               THEN Report /\ End(accepted.error)
               ELSE /\ input' = IF inputOpen' THEN input \o accepted.messages ELSE input
                    /\ NextTurn(TRUE)
                    /\ UNCHANGED armed
          /\ UNCHANGED writeVars
    /\ UNCHANGED <<peer, noticed, paused, reader, delivered, outputVars>>

\* The executor polls the woken task.
Poll ==
    /\ pc = "parked" /\ sched
    /\ pc' = "out" /\ sched' = FALSE /\ armed' = {}
    /\ UNCHANGED <<wireVars, codecVars, inputVars, outputVars, writeVars,
                   turns, progress, result, cancelled>>

-----------------------------------------------------------------------------
(* The close handshake of the connection task.                             *)

\* Message::Close goes out behind whatever is still in the write buffer.
SendClose ==
    /\ pc = "closing"
    /\ Encode(Close)
    /\ pc' = "drain"
    /\ UNCHANGED <<wireVars, codecVars, inputVars, outputVars, turns, progress,
                   result, armed, sched, cancelled>>

\* What the peer still sends is discarded until it closes or the time is up;
\* then io.close() and on_disconnect().await.
Drained ==
    /\ pc = "drain"
    /\ pc' = "gone" /\ noticed' = TRUE /\ pending' = 0
    /\ UNCHANGED <<peer, paused, codecVars, inputVars, outputVars, writeVars, turns,
                   progress, result, armed, sched, cancelled>>

-----------------------------------------------------------------------------
(* The application.                                                        *)

AppRead ==
    /\ reader /\ input # <<>>
    /\ delivered' = Append(delivered, Head(input))
    /\ input' = Tail(input)
    /\ Wake("input")
    /\ UNCHANGED <<wireVars, codecVars, inputOpen, reader, outputVars, writeVars,
                   pc, turns, progress, result, armed, cancelled>>

AppDropReader ==
    /\ reader
    /\ reader' = FALSE /\ input' = <<>>
    /\ Wake("input")
    /\ UNCHANGED <<wireVars, codecVars, inputOpen, delivered, outputVars, writeVars,
                   pc, turns, progress, result, armed, cancelled>>

AppSend ==
    /\ writer /\ ~cancelled /\ sent < MaxOutput /\ Room(output)
    /\ sent' = sent + 1 /\ output' = Append(output, sent + 1)
    /\ Wake("output")
    /\ UNCHANGED <<wireVars, codecVars, inputVars, writer, writeVars,
                   pc, turns, progress, result, armed, cancelled>>

AppFinish ==
    /\ writer
    /\ writer' = FALSE
    /\ Wake("output")
    /\ UNCHANGED <<wireVars, codecVars, inputVars, output, sent, writeVars,
                   pc, turns, progress, result, armed, cancelled>>

\* NtexServerFnBackend::spawn: the scope's cancellation ends the function's
\* task and drops its ends of both channels.
AppCancelled ==
    /\ cancelled /\ (reader \/ writer)
    /\ reader' = FALSE /\ writer' = FALSE /\ input' = <<>>
    /\ UNCHANGED <<wireVars, codecVars, inputOpen, delivered, output, sent, writeVars,
                   taskVars>>

-----------------------------------------------------------------------------
(* The peer and the transport, which ntex drives between polls of the pump. *)

Transport == pc \in {"parked", "closing", "drain"}

\* Which frame it was is settled when it is decoded: nothing depends on it before.
PeerSend ==
    /\ Transport /\ peer = "open" /\ Len(wire) + pending < MaxFrames
    /\ pending' = pending + 1
    /\ Wake("read")
    /\ UNCHANGED <<peer, noticed, paused, codecVars, inputVars, outputVars, writeVars,
                   pc, turns, progress, result, armed, cancelled>>

\* The peer reads from the write buffer; at half of the watermark the
\* backpressure ends.
PeerRead ==
    /\ Transport /\ peer = "open" /\ flushed < Len(encoded)
    /\ flushed' = flushed + 1
    /\ blocked' = (blocked /\ 2 * (Len(encoded) - flushed') > HighWater)
    /\ IF blocked /\ ~blocked' THEN Wake("flush") ELSE UNCHANGED sched
    /\ UNCHANGED <<wireVars, codecVars, inputVars, outputVars, encoded,
                   pc, turns, progress, result, armed, cancelled>>

PeerGone ==
    /\ Transport /\ peer = "open" /\ peer' = "gone"
    /\ UNCHANGED <<pending, noticed, paused, codecVars, inputVars, outputVars, writeVars,
                   taskVars>>

\* The IO learns of it by reading, unless reading is paused, or by writing.
Notice ==
    /\ Transport /\ peer = "gone" /\ ~noticed
    /\ ~paused \/ flushed < Len(encoded)
    /\ noticed' = TRUE
    /\ Wake("disconnect")
    /\ UNCHANGED <<pending, peer, paused, codecVars, inputVars, outputVars, writeVars,
                   pc, turns, progress, result, armed, cancelled>>

-----------------------------------------------------------------------------
PumpStep == \/ Out \/ InputBlocked \/ InputFull \/ ReceiveNothing
            \/ (\E f \in Frames : Receive(f))
            \/ Poll \/ SendClose \/ Drained

Next == \/ PumpStep
        \/ AppRead \/ AppDropReader \/ AppSend \/ AppFinish \/ AppCancelled
        \/ PeerSend \/ PeerRead \/ PeerGone \/ Notice

Spec == Init /\ [][Next]_vars

\* The executor polls the woken task and the cancelled one, the drain's timer
\* fires, the transport reports a lost peer, and the application goes on
\* reading its input.
FairSpec == /\ Spec
            /\ WF_vars(PumpStep) /\ WF_vars(Notice) /\ WF_vars(AppCancelled)
            /\ WF_vars(AppRead)

-----------------------------------------------------------------------------
(* A reference for the input: what a sequence of frames means.             *)

DataOps == {"text", "binary", "continuation"}
Starting == {"text", "binary"}

\* A fragmented message is open before frame i.
OpenBefore(i) ==
    \E j \in 1..i-1 : /\ wire[j].op \in Starting
                      /\ \A k \in j..i-1 : wire[k].op \in DataOps => ~wire[k].fin

\* The frames of the message that frame i belongs to, up to i: its data frames
\* after which no other message starts.
Parts(i) == {k \in 1..i : /\ wire[k].op \in DataOps
                          /\ \A j \in k+1..i : wire[j].op \notin Starting}
Size(S) == Cardinality(UNION {{k} \X (1..wire[k].len) : k \in S})

\* A text in pieces is valid if each of them is, the head of a split character
\* is followed by its tail, and a tail follows its head.
Adjacent(a, b, S) == a \in S /\ b \in S /\ a < b /\ \A c \in S : c <= a \/ b <= c
InPlace(k, S) ==
    /\ wire[k].utf8 # "bad"
    /\ wire[k].utf8 = "head" => \E n \in S : Adjacent(k, n, S) /\ wire[n].utf8 = "tail"
    /\ wire[k].utf8 = "tail" => \E n \in S : Adjacent(n, k, S) /\ wire[n].utf8 = "head"
IsText(S) == \A k \in S : InPlace(k, S)

Complete(i) == wire[i].op \in DataOps /\ wire[i].fin

\* Frame i may follow the frames before it.
WellFormed(i) ==
    /\ wire[i].valid
    /\ wire[i].op \in Starting => ~OpenBefore(i)
    /\ wire[i].op = "continuation" => OpenBefore(i)
    /\ wire[i].op = "close" => wire[i].utf8 = "whole"
    /\ wire[i].op \in DataOps => Size(Parts(i)) <= Limit
    /\ Complete(i) /\ (\E k \in Parts(i) : wire[k].op = "text") => IsText(Parts(i))

\* The frames that complete a message, the first i of them, and a message as
\* the sequence of its frames.
Ends(i) == {e \in 1..i : WellFormed(e) /\ Complete(e)}
IsMessage(m, S) == /\ Range(m) = S
                   /\ \A a, b \in DOMAIN m : a < b => m[a] < m[b]

-----------------------------------------------------------------------------
TypeOK ==
    /\ wire \in Seq(Frames) /\ pending \in 0..MaxFrames
    /\ peer \in {"open", "gone"} /\ noticed \in BOOLEAN /\ paused \in BOOLEAN
    /\ fragmented \in BOOLEAN /\ assembly \in AssemblyType \cup {None}
    /\ input \in Seq(Seq(Nat)) /\ Len(input) <= Buffer + 1
    /\ inputOpen \in BOOLEAN /\ reader \in BOOLEAN /\ delivered \in Seq(Seq(Nat))
    /\ output \in Seq(1..MaxOutput) /\ Len(output) <= Buffer + 1
    /\ sent \in 0..MaxOutput /\ writer \in BOOLEAN
    /\ encoded \in Seq(Close..MaxOutput)
    /\ flushed \in 0..Len(encoded) /\ Len(encoded) - flushed <= HighWater + 1
    /\ blocked \in BOOLEAN
    /\ pc \in {"out", "in", "parked", "closing", "drain", "gone"}
    /\ turns \in 0..Budget-1 /\ progress \in BOOLEAN
    /\ result \in {"none", "disconnect", "finished", "peer_close", "protocol", "invalid", "size"}
    /\ armed \subseteq {"disconnect", "flush", "output", "input", "read"}
    /\ sched \in BOOLEAN /\ cancelled \in BOOLEAN

\* The application is handed exactly the messages of the decoded frames, in
\* order and whole, whatever control frames fall between fragments; the first
\* frame that may not follow ends the connection and is reported after them.
InputIsFaithful ==
    LET items == delivered \o input
        broken == \E i \in DOMAIN wire : ~WellFormed(i)
    IN
    /\ reader => /\ Len(items) = Cardinality(Ends(Len(wire))) + (IF broken THEN 1 ELSE 0)
                 /\ \A i \in Ends(Len(wire)) : IsMessage(items[Cardinality(Ends(i))], Parts(i))
                 /\ broken => items[Len(items)] = ErrorItem
    /\ \A i \in DOMAIN wire : ~WellFormed(i) => i = Len(wire) /\ pc \in {"closing", "drain", "gone"}

\* The application's messages among the first i of what was encoded.
Applied(i) == Cardinality({k \in 1..i : encoded[k] > 0})

\* The peer is sent the application's messages in order, Pongs between them;
\* nothing follows a Close, and a Close the application asked for by finishing
\* follows all it had sent.
OutputIsFaithful ==
    /\ \A i \in DOMAIN encoded : encoded[i] > 0 => encoded[i] = Applied(i)
    /\ \A i \in DOMAIN encoded : encoded[i] = Close => i = Len(encoded)
    /\ result = "finished" => Applied(Len(encoded)) = sent

\* The pump never sleeps on work: parked and not woken, it has no disconnect to
\* see, no output it could write and no frame it could take, so its single
\* task misses none of the five events it waits for.
NoSleepOnWork ==
    pc = "parked" /\ ~sched =>
        /\ ~noticed
        /\ ~blocked => output = <<>> /\ writer
        /\ ~blocked /\ (reader => Room(input)) => pending = 0

\* When the peer is gone the task ends and the server function's tasks with
\* it, whatever was buffered in either direction.
ConnectionEnds == peer = "gone" ~> pc = "gone" /\ ~reader /\ ~writer
=============================================================================
