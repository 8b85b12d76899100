------------------------- MODULE WebSocketPumpProofs -------------------------
(***************************************************************************)
(* Theorems about WebSocketPump, for every frame the peer may send and     *)
(* every size of the channels, the write buffer and the pump's budget.     *)
(***************************************************************************)
EXTENDS WebSocketPump, FiniteSetTheorems, SequenceTheorems, TLAPS

Ended == {"closing", "drain", "gone"}

\* Once the pump has returned, the task is in its close handshake or over; a
\* closed input channel has no reader.
Phases ==
    /\ result # "none" \/ cancelled => pc \in Ended
    /\ pc \in {"out", "parked"} => ~progress
    /\ ~inputOpen => ~reader

\* The codec and the assembly agree on whether a message is open.
FragmentsMatch == result = "none" => (fragmented <=> assembly # None)

\* The write buffer is above its watermark only by the Close.
Watermark ==
    /\ ~blocked => Len(encoded) - flushed < HighWater
    /\ pc \notin {"drain", "gone"} => Len(encoded) - flushed <= HighWater

\* The output channel holds the messages sent and not yet encoded, in order.
Queued ==
    /\ Applied(Len(encoded)) = sent - Len(output)
    /\ \A k \in DOMAIN output : output[k] = sent - Len(output) + k

\* What was encoded is numbered in order; a Close is the last.
Numbered == \A i \in DOMAIN encoded : encoded[i] > 0 => encoded[i] = Applied(i)

Closes == \A i \in DOMAIN encoded :
              encoded[i] = Close => i = Len(encoded) /\ pc \in {"drain", "gone"}

\* The pump finishes only after the application's last message.
Finished == result = "finished" => output = <<>> /\ ~writer

\* A sleeping pump will be woken by a disconnect.
Disconnects ==
    pc = "in" \/ (pc = "parked" /\ ~sched) => ~noticed /\ "disconnect" \in armed

\* With room in the write buffer it will be woken by output, else by a flush.
Outputs ==
    /\ ~sched /\ ~blocked /\ (pc = "parked" \/ (pc = "in" /\ ~progress)) =>
          output = <<>> /\ writer /\ "output" \in armed
    /\ ~sched /\ blocked /\ pc = "parked" => "flush" \in armed

\* It will be woken by a frame, or by the application making room for one.
Inputs ==
    ~sched /\ ~blocked /\ pc = "parked" =>
        \/ pending = 0 /\ "read" \in armed
        \/ reader /\ ~Room(input) /\ "input" \in armed

IInv == /\ TypeOK /\ Phases /\ FragmentsMatch /\ Watermark
        /\ Queued /\ Numbered /\ Closes /\ Finished
        /\ Disconnects /\ Outputs /\ Inputs

-----------------------------------------------------------------------------
(* What the encoded messages count.                                        *)

\* The messages of a prefix are counted by a natural number.
LEMMA AppliedNat ==
  ASSUME NEW i \in Nat
  PROVE  /\ Applied(i) \in Nat
         /\ IsFiniteSet({k \in 1..i : encoded[k] > 0})
  <1>1. IsFiniteSet(1..i)
    BY FS_Interval
  <1>2. IsFiniteSet({k \in 1..i : encoded[k] > 0})
    BY <1>1, FS_Subset, Zenon
  <1> QED
    BY <1>2, FS_CardinalityType DEF Applied

\* A step that encodes nothing leaves the counts alone.
LEMMA AppliedSame ==
  ASSUME encoded' = encoded
  PROVE  \A i : Applied(i)' = Applied(i)
  BY Zenon DEF Applied

\* Nothing is counted before the first message.
LEMMA AppliedNone == Applied(0) = 0
  <1>1. {k \in 1..0 : encoded[k] > 0} = {}
    OBVIOUS
  <1> QED
    BY <1>1, FS_EmptySet, Zenon DEF Applied

\* Encoding counts an application's message once, and leaves the earlier
\* counts alone.
LEMMA AppliedAppend ==
  ASSUME TypeOK, NEW m \in Int, encoded' = Append(encoded, m),
         NEW CONSTANT n, n = Len(encoded)
  PROVE  /\ \A i \in 0..n : Applied(i)' = Applied(i)
         /\ m > 0 => Applied(n + 1)' = Applied(n) + 1
         /\ ~(m > 0) => Applied(n + 1)' = Applied(n)
  <1>1. n \in Nat /\ \A k \in 1..n : encoded'[k] = encoded[k]
    BY DEF TypeOK, Close
  <1>2. encoded'[n + 1] = m
    BY DEF TypeOK, Close
  <1>3. ASSUME NEW CONSTANT i \in 0..n
        PROVE  Applied(i)' = Applied(i)
    <2>1. {k \in 1..i : encoded'[k] > 0} = {k \in 1..i : encoded[k] > 0}
      <3>1. \A k \in 1..i : k \in 1..n
        BY <1>1
      <3> QED
        BY <1>1, <3>1
    <2> QED
      BY <2>1, Zenon DEF Applied
  <1>4. IsFiniteSet({k \in 1..n : encoded[k] > 0})
    BY <1>1, AppliedNat
  <1>5. \A k : k \in 1..n + 1 <=> k \in 1..n \/ k = n + 1
    BY <1>1
  <1>6. ASSUME m > 0
        PROVE  Applied(n + 1)' = Applied(n) + 1
    <2>1. {k \in 1..n + 1 : encoded'[k] > 0} = {k \in 1..n : encoded[k] > 0} \cup {n + 1}
      BY <1>1, <1>2, <1>5, <1>6, Zenon
    <2>2. n + 1 \notin {k \in 1..n : encoded[k] > 0}
      BY <1>1
    <2>3. Cardinality({k \in 1..n : encoded[k] > 0} \cup {n + 1})
            = Cardinality({k \in 1..n : encoded[k] > 0}) + 1
      BY <1>4, <2>2, FS_AddElement, Zenon
    <2> QED
      BY <2>1, <2>3, Zenon DEF Applied
  <1>7. ASSUME ~(m > 0)
        PROVE  Applied(n + 1)' = Applied(n)
    <2>1. {k \in 1..n + 1 : encoded'[k] > 0} = {k \in 1..n : encoded[k] > 0}
      BY <1>1, <1>2, <1>5, <1>7, Zenon
    <2> QED
      BY <2>1, Zenon DEF Applied
  <1> QED
    BY <1>3, <1>6, <1>7

-----------------------------------------------------------------------------
(* The operators of a step.                                                *)

\* Io::encode keeps the write buffer's type.
LEMMA EncodeTyped ==
  ASSUME TypeOK, NEW m \in Close..MaxOutput, Encode(m)
  PROVE  /\ encoded' \in Seq(Close..MaxOutput) /\ Len(encoded') = Len(encoded) + 1
         /\ flushed' \in 0..Len(encoded') /\ blocked' \in BOOLEAN
  BY BoundsAssumption, LimitsAssumption DEF TypeOK, Encode, Close

\* A turn's end keeps the task's type.
LEMMA TurnTyped ==
  ASSUME TypeOK, NEW moved \in BOOLEAN, NextTurn(moved)
  PROVE  /\ pc' \in {"out", "parked"} /\ turns' \in 0..Budget-1 /\ progress' = FALSE
         /\ result' = result /\ cancelled' = cancelled /\ sched' \in BOOLEAN
  <1>1. turns \in 0..Budget-1 /\ Budget \in Nat \ {0} /\ sched \in BOOLEAN
    BY LimitsAssumption DEF TypeOK
  <1>2. turns + 1 # Budget => turns + 1 \in 0..Budget-1
    BY <1>1
  <1>3. 0 \in 0..Budget-1
    BY <1>1
  <1> QED
    BY <1>1, <1>2, <1>3, Zenon DEF NextTurn

\* The text of a message is in one of three states.
LEMMA Utf8Typed ==
  ASSUME NEW s \in {"clean", "split", "bad"}, NEW p
  PROVE  Utf8(s, p) \in {"clean", "split", "bad"}
  BY DEF Utf8

\* Assembly::accept with a frame that CheckedCodec::decode let through: what is
\* held stays within the limit, and is held exactly when the message goes on.
LEMMA AcceptHolds ==
  ASSUME TypeOK, FragmentsMatch, result = "none", NEW f \in Frames, NEW i \in Nat,
         f.op \in {"text", "binary", "continuation"}, DecodeError(f) = "none"
  PROVE  LET accepted == Accept(f, i) IN
         /\ accepted.held \in AssemblyType \cup {None}
         /\ accepted.error \in {"none", "size", "invalid"}
         /\ accepted.messages \in Seq(Seq(Nat)) /\ Len(accepted.messages) <= 1
         /\ accepted.error = "none" => (Fragmented(f) <=> accepted.held # None)
  <1>1. /\ f.fin \in BOOLEAN /\ f.len \in Nat
    BY FramesAssumption
  <1>2. CASE f.op = "continuation"
    <2>1. fragmented /\ assembly \in AssemblyType
      BY <1>2 DEF DecodeError, FragmentsMatch, TypeOK
    <2> DEFINE held == [assembly EXCEPT !.parts = Append(@, i), !.len = @ + f.len,
                                        !.utf8 = Utf8(@, f.utf8)]
               error == IF f.len > Limit - assembly.len THEN "size"
                        ELSE IF f.fin /\ held.text /\ held.utf8 # "clean" THEN "invalid"
                        ELSE "none"
    <2>2. /\ assembly.text \in BOOLEAN /\ assembly.parts \in Seq(Nat)
          /\ assembly.len \in 0..Limit /\ assembly.utf8 \in {"clean", "split", "bad"}
      BY <2>1 DEF AssemblyType
    <2>3. held.parts \in Seq(Nat)
      <3>1. Append(assembly.parts, i) \in Seq(Nat)
        BY <2>2
      <3>2. held.parts = Append(assembly.parts, i)
        BY <2>1 DEF AssemblyType
      <3> QED
        BY <3>1, <3>2
    <2>4. ASSUME error # "size"
          PROVE  held \in AssemblyType
      <3>1. assembly.len + f.len \in 0..Limit
        BY <1>1, <2>2, <2>4, LimitsAssumption
      <3>2. Utf8(assembly.utf8, f.utf8) \in {"clean", "split", "bad"}
        BY <2>2, Utf8Typed
      <3>3. Append(assembly.parts, i) \in Seq(Nat)
        BY <2>2
      <3> QED
        BY <2>1, <3>1, <3>2, <3>3 DEF AssemblyType
    <2> HIDE DEF held
    <2>5. assembly # None
      BY <2>1, NoneAssumption
    <2>6. Accept(f, i) = [held |-> IF error = "size" THEN assembly
                                   ELSE IF f.fin THEN None ELSE held,
                          error |-> error,
                          messages |-> IF error = "none" /\ f.fin THEN <<held.parts>> ELSE <<>>]
      BY <1>2, <2>5 DEF Accept, RoomLeft, held
    <2>7. error \in {"none", "size", "invalid"}
      OBVIOUS
    <2> HIDE DEF error
    <2>8. <<held.parts>> \in Seq(Seq(Nat)) /\ <<>> \in Seq(Seq(Nat))
      BY <2>3
    <2>9. Fragmented(f) = ~f.fin
      BY <1>2 DEF Fragmented
    <2> QED
      <3> DEFINE accepted == Accept(f, i)
      <3>1. /\ accepted.held = IF error = "size" THEN assembly ELSE IF f.fin THEN None ELSE held
            /\ accepted.error = error
            /\ accepted.messages = IF error = "none" /\ f.fin THEN <<held.parts>> ELSE <<>>
        BY <2>6
      <3>2. accepted.messages \in Seq(Seq(Nat)) /\ Len(accepted.messages) <= 1
        BY <2>8, <3>1
      <3> HIDE DEF accepted
      <3>3. accepted.held \in AssemblyType \cup {None}
        BY <2>1, <2>4, <3>1
      <3>4. accepted.error = "none" => (Fragmented(f) <=> accepted.held # None)
        BY <2>4, <2>9, <3>1, NoneAssumption
      <3> QED
        BY <2>7, <3>1, <3>2, <3>3, <3>4 DEF accepted
  <1>3. CASE f.op # "continuation"
    <2> DEFINE held == [text |-> f.op = "text", parts |-> <<i>>, len |-> f.len,
                        utf8 |-> Utf8("clean", f.utf8)]
               error == IF f.len > Limit THEN "size"
                        ELSE IF f.fin /\ held.text /\ held.utf8 # "clean" THEN "invalid"
                        ELSE "none"
    <2>1. <<i>> \in Seq(Nat) /\ held.parts \in Seq(Nat)
      OBVIOUS
    <2>2. ASSUME error # "size"
          PROVE  held \in AssemblyType
      <3>1. f.len \in 0..Limit
        BY <1>1, <2>2, LimitsAssumption
      <3>2. Utf8("clean", f.utf8) \in {"clean", "split", "bad"}
        BY Utf8Typed
      <3> QED
        BY <2>1, <3>1, <3>2 DEF AssemblyType
    <2> HIDE DEF held
    <2>3. Accept(f, i) = [held |-> IF error = "size" THEN None
                                   ELSE IF f.fin THEN None ELSE held,
                          error |-> error,
                          messages |-> IF error = "none" /\ f.fin THEN <<held.parts>> ELSE <<>>]
      BY <1>3 DEF Accept, RoomLeft, held
    <2>4. error \in {"none", "size", "invalid"}
      OBVIOUS
    <2> HIDE DEF error
    <2>5. <<held.parts>> \in Seq(Seq(Nat)) /\ <<>> \in Seq(Seq(Nat))
      BY <2>1
    <2>6. Fragmented(f) = ~f.fin
      BY DEF Fragmented
    <2> QED
      <3> DEFINE accepted == Accept(f, i)
      <3>1. /\ accepted.held = IF error = "size" THEN None ELSE IF f.fin THEN None ELSE held
            /\ accepted.error = error
            /\ accepted.messages = IF error = "none" /\ f.fin THEN <<held.parts>> ELSE <<>>
        BY <2>3
      <3>2. accepted.messages \in Seq(Seq(Nat)) /\ Len(accepted.messages) <= 1
        BY <2>5, <3>1
      <3> HIDE DEF accepted
      <3>3. accepted.held \in AssemblyType \cup {None}
        BY <2>2, <3>1
      <3>4. accepted.error = "none" => (Fragmented(f) <=> accepted.held # None)
        BY <2>2, <2>6, <3>1, NoneAssumption
      <3> QED
        BY <2>4, <3>1, <3>2, <3>3, <3>4 DEF accepted
  <1> QED
    BY <1>2, <1>3

-----------------------------------------------------------------------------
(* Each action keeps the invariant.                                        *)

\* A step that leaves the output alone keeps its numbering.
LEMMA OutputKept ==
  ASSUME Queued, Numbered, encoded' = encoded, output' = output, sent' = sent
  PROVE  Queued' /\ Numbered'
  <1>1. \A i : Applied(i)' = Applied(i)
    BY AppliedSame
  <1>2. Applied(Len(encoded))' = Applied(Len(encoded))
    BY Zenon DEF Applied
  <1> QED
    BY <1>1, <1>2 DEF Queued, Numbered

\* The application takes a message.
LEMMA AppReadKeeps ==
  ASSUME IInv, AppRead
  PROVE  IInv'
  <1>1. /\ TypeOK /\ Phases /\ FragmentsMatch /\ Watermark /\ Queued /\ Numbered
        /\ Closes /\ Finished /\ Disconnects /\ Outputs /\ Inputs
    BY DEF IInv
  <1>2. TypeOK'
    BY <1>1, LimitsAssumption, BoundsAssumption DEF TypeOK, AppRead, Wake, wireVars, codecVars, inputVars, outputVars, writeVars, taskVars
  <1>3. Phases' /\ FragmentsMatch'
    BY <1>1 DEF TypeOK, Phases, FragmentsMatch, Ended, AppRead, Wake, wireVars, codecVars, inputVars, outputVars, writeVars, taskVars
  <1>4. Watermark'
    BY <1>1, LimitsAssumption DEF TypeOK, Watermark, AppRead, Wake, wireVars, codecVars, inputVars, outputVars, writeVars, taskVars
  <1>5. Queued' /\ Numbered'
    BY <1>1, OutputKept DEF AppRead, Wake, wireVars, codecVars, inputVars, outputVars, writeVars, taskVars
  <1>6. Closes' /\ Finished'
    BY <1>1 DEF TypeOK, Phases, Ended, Closes, Finished, AppRead, Wake, wireVars, codecVars, inputVars, outputVars, writeVars, taskVars
  <1>7. Disconnects'
    BY <1>1 DEF TypeOK, Phases, Ended, Disconnects, AppRead, Wake, wireVars, codecVars, inputVars, outputVars, writeVars, taskVars
  <1>8. Outputs'
    BY <1>1 DEF TypeOK, Phases, Ended, Outputs, AppRead, Wake, wireVars, codecVars, inputVars, outputVars, writeVars, taskVars
  <1>9. Inputs'
    BY <1>1, LimitsAssumption DEF TypeOK, Phases, Ended, Inputs, Room, Outputs, AppRead, Wake, wireVars, codecVars, inputVars, outputVars, writeVars, taskVars
  <1> QED
    BY <1>2, <1>3, <1>4, <1>5, <1>6, <1>7, <1>8, <1>9 DEF IInv

\* The application drops its end of the input.
LEMMA AppDropReaderKeeps ==
  ASSUME IInv, AppDropReader
  PROVE  IInv'
  <1>1. /\ TypeOK /\ Phases /\ FragmentsMatch /\ Watermark /\ Queued /\ Numbered
        /\ Closes /\ Finished /\ Disconnects /\ Outputs /\ Inputs
    BY DEF IInv
  <1>2. TypeOK'
    <2>1. reader' \in BOOLEAN
      BY DEF AppDropReader
    <2>2. sched' \in BOOLEAN
      BY DEF AppDropReader, Wake
    <2>3. input' \in Seq(Seq(Nat)) /\ Len(input') <= Buffer + 1
      BY LimitsAssumption DEF AppDropReader
    <2> QED
      BY <1>1, <2>1, <2>2, <2>3 DEF TypeOK, AppDropReader, wireVars, codecVars, inputVars, outputVars, writeVars, taskVars
  <1>3. Phases' /\ FragmentsMatch'
    BY <1>1 DEF TypeOK, Phases, FragmentsMatch, Ended, AppDropReader, Wake, wireVars, codecVars, inputVars, outputVars, writeVars, taskVars
  <1>4. Watermark'
    BY <1>1, LimitsAssumption DEF TypeOK, Watermark, AppDropReader, Wake, wireVars, codecVars, inputVars, outputVars, writeVars, taskVars
  <1>5. Queued' /\ Numbered'
    BY <1>1, OutputKept DEF AppDropReader, Wake, wireVars, codecVars, inputVars, outputVars, writeVars, taskVars
  <1>6. Closes' /\ Finished'
    BY <1>1 DEF TypeOK, Phases, Ended, Closes, Finished, AppDropReader, Wake, wireVars, codecVars, inputVars, outputVars, writeVars, taskVars
  <1>7. Disconnects'
    BY <1>1 DEF TypeOK, Phases, Ended, Disconnects, AppDropReader, Wake, wireVars, codecVars, inputVars, outputVars, writeVars, taskVars
  <1>8. Outputs'
    BY <1>1 DEF TypeOK, Phases, Ended, Outputs, AppDropReader, Wake, wireVars, codecVars, inputVars, outputVars, writeVars, taskVars
  <1>9. Inputs'
    BY <1>1, LimitsAssumption DEF TypeOK, Phases, Ended, Inputs, Room, Outputs, AppDropReader, Wake, wireVars, codecVars, inputVars, outputVars, writeVars, taskVars
  <1> QED
    BY <1>2, <1>3, <1>4, <1>5, <1>6, <1>7, <1>8, <1>9 DEF IInv

\* The application has sent its last message.
LEMMA AppFinishKeeps ==
  ASSUME IInv, AppFinish
  PROVE  IInv'
  <1>1. /\ TypeOK /\ Phases /\ FragmentsMatch /\ Watermark /\ Queued /\ Numbered
        /\ Closes /\ Finished /\ Disconnects /\ Outputs /\ Inputs
    BY DEF IInv
  <1>2. TypeOK'
    <2>1. writer' \in BOOLEAN
      BY DEF AppFinish
    <2>2. sched' \in BOOLEAN
      BY DEF AppFinish, Wake
    <2> QED
      BY <1>1, <2>1, <2>2 DEF TypeOK, AppFinish, wireVars, codecVars, inputVars, outputVars, writeVars, taskVars
  <1>3. Phases' /\ FragmentsMatch'
    BY <1>1 DEF TypeOK, Phases, FragmentsMatch, Ended, AppFinish, Wake, wireVars, codecVars, inputVars, outputVars, writeVars, taskVars
  <1>4. Watermark'
    BY <1>1, LimitsAssumption DEF TypeOK, Watermark, AppFinish, Wake, wireVars, codecVars, inputVars, outputVars, writeVars, taskVars
  <1>5. Queued' /\ Numbered'
    BY <1>1, OutputKept DEF AppFinish, Wake, wireVars, codecVars, inputVars, outputVars, writeVars, taskVars
  <1>6. Closes' /\ Finished'
    BY <1>1 DEF TypeOK, Phases, Ended, Closes, Finished, AppFinish, Wake, wireVars, codecVars, inputVars, outputVars, writeVars, taskVars
  <1>7. Disconnects'
    BY <1>1 DEF TypeOK, Phases, Ended, Disconnects, AppFinish, Wake, wireVars, codecVars, inputVars, outputVars, writeVars, taskVars
  <1>8. Outputs'
    BY <1>1 DEF TypeOK, Phases, Ended, Outputs, AppFinish, Wake, wireVars, codecVars, inputVars, outputVars, writeVars, taskVars
  <1>9. Inputs'
    BY <1>1, LimitsAssumption DEF TypeOK, Phases, Ended, Inputs, Room, Outputs, AppFinish, Wake, wireVars, codecVars, inputVars, outputVars, writeVars, taskVars
  <1> QED
    BY <1>2, <1>3, <1>4, <1>5, <1>6, <1>7, <1>8, <1>9 DEF IInv

\* The server function's task is cancelled.
LEMMA AppCancelledKeeps ==
  ASSUME IInv, AppCancelled
  PROVE  IInv'
  <1>1. /\ TypeOK /\ Phases /\ FragmentsMatch /\ Watermark /\ Queued /\ Numbered
        /\ Closes /\ Finished /\ Disconnects /\ Outputs /\ Inputs
    BY DEF IInv
  <1>2. TypeOK'
    <2>1. reader' \in BOOLEAN /\ writer' \in BOOLEAN
      BY DEF AppCancelled
    <2>2. input' \in Seq(Seq(Nat)) /\ Len(input') <= Buffer + 1
      BY LimitsAssumption DEF AppCancelled
    <2> QED
      BY <1>1, <2>1, <2>2 DEF TypeOK, AppCancelled, wireVars, codecVars, inputVars, outputVars, writeVars, taskVars
  <1>3. Phases' /\ FragmentsMatch'
    BY <1>1 DEF TypeOK, Phases, FragmentsMatch, Ended, AppCancelled, wireVars, codecVars, inputVars, outputVars, writeVars, taskVars
  <1>4. Watermark'
    BY <1>1, LimitsAssumption DEF TypeOK, Watermark, AppCancelled, wireVars, codecVars, inputVars, outputVars, writeVars, taskVars
  <1>5. Queued' /\ Numbered'
    BY <1>1, OutputKept DEF AppCancelled, wireVars, codecVars, inputVars, outputVars, writeVars, taskVars
  <1>6. Closes' /\ Finished'
    BY <1>1 DEF TypeOK, Phases, Ended, Closes, Finished, AppCancelled, wireVars, codecVars, inputVars, outputVars, writeVars, taskVars
  <1>7. Disconnects'
    BY <1>1 DEF TypeOK, Phases, Ended, Disconnects, AppCancelled, wireVars, codecVars, inputVars, outputVars, writeVars, taskVars
  <1>8. Outputs'
    BY <1>1 DEF TypeOK, Phases, Ended, Outputs, AppCancelled, wireVars, codecVars, inputVars, outputVars, writeVars, taskVars
  <1>9. Inputs'
    BY <1>1, LimitsAssumption DEF TypeOK, Phases, Ended, Inputs, Room, Outputs, AppCancelled, wireVars, codecVars, inputVars, outputVars, writeVars, taskVars
  <1> QED
    BY <1>2, <1>3, <1>4, <1>5, <1>6, <1>7, <1>8, <1>9 DEF IInv

\* The peer sends a frame.
LEMMA PeerSendKeeps ==
  ASSUME IInv, PeerSend
  PROVE  IInv'
  <1>1. /\ TypeOK /\ Phases /\ FragmentsMatch /\ Watermark /\ Queued /\ Numbered
        /\ Closes /\ Finished /\ Disconnects /\ Outputs /\ Inputs
    BY DEF IInv
  <1>2. TypeOK'
    BY <1>1, LimitsAssumption, BoundsAssumption DEF TypeOK, PeerSend, Transport, Wake, wireVars, codecVars, inputVars, outputVars, writeVars, taskVars
  <1>3. Phases' /\ FragmentsMatch'
    BY <1>1 DEF TypeOK, Phases, FragmentsMatch, Ended, PeerSend, Transport, Wake, wireVars, codecVars, inputVars, outputVars, writeVars, taskVars
  <1>4. Watermark'
    BY <1>1, LimitsAssumption DEF TypeOK, Watermark, PeerSend, Transport, Wake, wireVars, codecVars, inputVars, outputVars, writeVars, taskVars
  <1>5. Queued' /\ Numbered'
    BY <1>1, OutputKept DEF PeerSend, Transport, Wake, wireVars, codecVars, inputVars, outputVars, writeVars, taskVars
  <1>6. Closes' /\ Finished'
    BY <1>1 DEF TypeOK, Phases, Ended, Closes, Finished, PeerSend, Transport, Wake, wireVars, codecVars, inputVars, outputVars, writeVars, taskVars
  <1>7. Disconnects'
    BY <1>1 DEF TypeOK, Phases, Ended, Disconnects, PeerSend, Transport, Wake, wireVars, codecVars, inputVars, outputVars, writeVars, taskVars
  <1>8. Outputs'
    BY <1>1 DEF TypeOK, Phases, Ended, Outputs, PeerSend, Transport, Wake, wireVars, codecVars, inputVars, outputVars, writeVars, taskVars
  <1>9. Inputs'
    BY <1>1, LimitsAssumption DEF TypeOK, Phases, Ended, Inputs, Room, Outputs, PeerSend, Transport, Wake, wireVars, codecVars, inputVars, outputVars, writeVars, taskVars
  <1> QED
    BY <1>2, <1>3, <1>4, <1>5, <1>6, <1>7, <1>8, <1>9 DEF IInv

\* The peer reads; the end of the backpressure wakes the pump.
LEMMA PeerReadKeeps ==
  ASSUME IInv, PeerRead
  PROVE  IInv'
  <1>1. /\ TypeOK /\ Phases /\ FragmentsMatch /\ Watermark /\ Queued /\ Numbered
        /\ Closes /\ Finished /\ Disconnects /\ Outputs /\ Inputs
    BY DEF IInv
  <1>2. TypeOK'
    BY <1>1, LimitsAssumption, BoundsAssumption DEF TypeOK, PeerRead, Transport, Wake, wireVars, codecVars, inputVars, outputVars, writeVars, taskVars
  <1>3. Phases' /\ FragmentsMatch'
    BY <1>1 DEF TypeOK, Phases, FragmentsMatch, Ended, PeerRead, Transport, Wake, wireVars, codecVars, inputVars, outputVars, writeVars, taskVars
  <1>4. Watermark'
    BY <1>1, LimitsAssumption DEF TypeOK, Watermark, PeerRead, Transport, Wake, wireVars, codecVars, inputVars, outputVars, writeVars, taskVars
  <1>5. Queued' /\ Numbered'
    BY <1>1, OutputKept DEF PeerRead, Transport, Wake, wireVars, codecVars, inputVars, outputVars, writeVars, taskVars
  <1>6. Closes' /\ Finished'
    BY <1>1 DEF TypeOK, Phases, Ended, Closes, Finished, PeerRead, Transport, Wake, wireVars, codecVars, inputVars, outputVars, writeVars, taskVars
  <1>7. Disconnects'
    BY <1>1 DEF TypeOK, Phases, Ended, Disconnects, PeerRead, Transport, Wake, wireVars, codecVars, inputVars, outputVars, writeVars, taskVars
  <1>8. Outputs'
    BY <1>1 DEF TypeOK, Phases, Ended, Outputs, PeerRead, Transport, Wake, wireVars, codecVars, inputVars, outputVars, writeVars, taskVars
  <1>9. Inputs'
    BY <1>1, LimitsAssumption DEF TypeOK, Phases, Ended, Inputs, Room, Outputs, PeerRead, Transport, Wake, wireVars, codecVars, inputVars, outputVars, writeVars, taskVars
  <1> QED
    BY <1>2, <1>3, <1>4, <1>5, <1>6, <1>7, <1>8, <1>9 DEF IInv

\* The peer is lost.
LEMMA PeerGoneKeeps ==
  ASSUME IInv, PeerGone
  PROVE  IInv'
  <1>1. /\ TypeOK /\ Phases /\ FragmentsMatch /\ Watermark /\ Queued /\ Numbered
        /\ Closes /\ Finished /\ Disconnects /\ Outputs /\ Inputs
    BY DEF IInv
  <1>2. TypeOK'
    BY <1>1, LimitsAssumption, BoundsAssumption DEF TypeOK, PeerGone, Transport, wireVars, codecVars, inputVars, outputVars, writeVars, taskVars
  <1>3. Phases' /\ FragmentsMatch'
    BY <1>1 DEF TypeOK, Phases, FragmentsMatch, Ended, PeerGone, Transport, wireVars, codecVars, inputVars, outputVars, writeVars, taskVars
  <1>4. Watermark'
    BY <1>1, LimitsAssumption DEF TypeOK, Watermark, PeerGone, Transport, wireVars, codecVars, inputVars, outputVars, writeVars, taskVars
  <1>5. Queued' /\ Numbered'
    BY <1>1, OutputKept DEF PeerGone, Transport, wireVars, codecVars, inputVars, outputVars, writeVars, taskVars
  <1>6. Closes' /\ Finished'
    BY <1>1 DEF TypeOK, Phases, Ended, Closes, Finished, PeerGone, Transport, wireVars, codecVars, inputVars, outputVars, writeVars, taskVars
  <1>7. Disconnects'
    BY <1>1 DEF TypeOK, Phases, Ended, Disconnects, PeerGone, Transport, wireVars, codecVars, inputVars, outputVars, writeVars, taskVars
  <1>8. Outputs'
    BY <1>1 DEF TypeOK, Phases, Ended, Outputs, PeerGone, Transport, wireVars, codecVars, inputVars, outputVars, writeVars, taskVars
  <1>9. Inputs'
    BY <1>1, LimitsAssumption DEF TypeOK, Phases, Ended, Inputs, Room, Outputs, PeerGone, Transport, wireVars, codecVars, inputVars, outputVars, writeVars, taskVars
  <1> QED
    BY <1>2, <1>3, <1>4, <1>5, <1>6, <1>7, <1>8, <1>9 DEF IInv

\* The IO learns of it.
LEMMA NoticeKeeps ==
  ASSUME IInv, Notice
  PROVE  IInv'
  <1>1. /\ TypeOK /\ Phases /\ FragmentsMatch /\ Watermark /\ Queued /\ Numbered
        /\ Closes /\ Finished /\ Disconnects /\ Outputs /\ Inputs
    BY DEF IInv
  <1>2. TypeOK'
    BY <1>1, LimitsAssumption, BoundsAssumption DEF TypeOK, Notice, Transport, Wake, wireVars, codecVars, inputVars, outputVars, writeVars, taskVars
  <1>3. Phases' /\ FragmentsMatch'
    BY <1>1 DEF TypeOK, Phases, FragmentsMatch, Ended, Notice, Transport, Wake, wireVars, codecVars, inputVars, outputVars, writeVars, taskVars
  <1>4. Watermark'
    BY <1>1, LimitsAssumption DEF TypeOK, Watermark, Notice, Transport, Wake, wireVars, codecVars, inputVars, outputVars, writeVars, taskVars
  <1>5. Queued' /\ Numbered'
    BY <1>1, OutputKept DEF Notice, Transport, Wake, wireVars, codecVars, inputVars, outputVars, writeVars, taskVars
  <1>6. Closes' /\ Finished'
    BY <1>1 DEF TypeOK, Phases, Ended, Closes, Finished, Notice, Transport, Wake, wireVars, codecVars, inputVars, outputVars, writeVars, taskVars
  <1>7. Disconnects'
    BY <1>1 DEF TypeOK, Phases, Ended, Disconnects, Notice, Transport, Wake, wireVars, codecVars, inputVars, outputVars, writeVars, taskVars
  <1>8. Outputs'
    BY <1>1 DEF TypeOK, Phases, Ended, Outputs, Notice, Transport, Wake, wireVars, codecVars, inputVars, outputVars, writeVars, taskVars
  <1>9. Inputs'
    BY <1>1, LimitsAssumption DEF TypeOK, Phases, Ended, Inputs, Room, Outputs, Notice, Transport, Wake, wireVars, codecVars, inputVars, outputVars, writeVars, taskVars
  <1> QED
    BY <1>2, <1>3, <1>4, <1>5, <1>6, <1>7, <1>8, <1>9 DEF IInv

\* The executor polls the woken task.
LEMMA PollKeeps ==
  ASSUME IInv, Poll
  PROVE  IInv'
  <1>1. /\ TypeOK /\ Phases /\ FragmentsMatch /\ Watermark /\ Queued /\ Numbered
        /\ Closes /\ Finished /\ Disconnects /\ Outputs /\ Inputs
    BY DEF IInv
  <1>2. TypeOK'
    <2>1. pc' = "out" /\ sched' \in BOOLEAN /\ armed' = {}
      BY DEF Poll
    <2> QED
      BY <1>1, <2>1 DEF TypeOK, Poll, wireVars, codecVars, inputVars, outputVars, writeVars, taskVars
  <1>3. Phases' /\ FragmentsMatch'
    BY <1>1 DEF TypeOK, Phases, FragmentsMatch, Ended, Poll, wireVars, codecVars, inputVars, outputVars, writeVars, taskVars
  <1>4. Watermark'
    BY <1>1, LimitsAssumption DEF TypeOK, Watermark, Poll, wireVars, codecVars, inputVars, outputVars, writeVars, taskVars
  <1>5. Queued' /\ Numbered'
    BY <1>1, OutputKept DEF Poll, wireVars, codecVars, inputVars, outputVars, writeVars, taskVars
  <1>6. Closes' /\ Finished'
    BY <1>1 DEF TypeOK, Phases, Ended, Closes, Finished, Poll, wireVars, codecVars, inputVars, outputVars, writeVars, taskVars
  <1>7. Disconnects'
    BY <1>1 DEF TypeOK, Phases, Ended, Disconnects, Poll, wireVars, codecVars, inputVars, outputVars, writeVars, taskVars
  <1>8. Outputs'
    BY <1>1 DEF TypeOK, Phases, Ended, Outputs, Poll, wireVars, codecVars, inputVars, outputVars, writeVars, taskVars
  <1>9. Inputs'
    BY <1>1, LimitsAssumption DEF TypeOK, Phases, Ended, Inputs, Room, Outputs, Poll, wireVars, codecVars, inputVars, outputVars, writeVars, taskVars
  <1> QED
    BY <1>2, <1>3, <1>4, <1>5, <1>6, <1>7, <1>8, <1>9 DEF IInv

\* The close handshake ends.
LEMMA DrainedKeeps ==
  ASSUME IInv, Drained
  PROVE  IInv'
  <1>1. /\ TypeOK /\ Phases /\ FragmentsMatch /\ Watermark /\ Queued /\ Numbered
        /\ Closes /\ Finished /\ Disconnects /\ Outputs /\ Inputs
    BY DEF IInv
  <1>2. TypeOK'
    BY <1>1, LimitsAssumption, BoundsAssumption DEF TypeOK, Drained, wireVars, codecVars, inputVars, outputVars, writeVars, taskVars
  <1>3. Phases' /\ FragmentsMatch'
    BY <1>1 DEF TypeOK, Phases, FragmentsMatch, Ended, Drained, wireVars, codecVars, inputVars, outputVars, writeVars, taskVars
  <1>4. Watermark'
    BY <1>1, LimitsAssumption DEF TypeOK, Watermark, Drained, wireVars, codecVars, inputVars, outputVars, writeVars, taskVars
  <1>5. Queued' /\ Numbered'
    BY <1>1, OutputKept DEF Drained, wireVars, codecVars, inputVars, outputVars, writeVars, taskVars
  <1>6. Closes' /\ Finished'
    BY <1>1 DEF TypeOK, Phases, Ended, Closes, Finished, Drained, wireVars, codecVars, inputVars, outputVars, writeVars, taskVars
  <1>7. Disconnects'
    BY <1>1 DEF TypeOK, Phases, Ended, Disconnects, Drained, wireVars, codecVars, inputVars, outputVars, writeVars, taskVars
  <1>8. Outputs'
    BY <1>1 DEF TypeOK, Phases, Ended, Outputs, Drained, wireVars, codecVars, inputVars, outputVars, writeVars, taskVars
  <1>9. Inputs'
    BY <1>1, LimitsAssumption DEF TypeOK, Phases, Ended, Inputs, Room, Outputs, Drained, wireVars, codecVars, inputVars, outputVars, writeVars, taskVars
  <1> QED
    BY <1>2, <1>3, <1>4, <1>5, <1>6, <1>7, <1>8, <1>9 DEF IInv

\* No input while output cannot progress.
LEMMA InputBlockedKeeps ==
  ASSUME IInv, InputBlocked
  PROVE  IInv'
  <1>1. /\ TypeOK /\ Phases /\ FragmentsMatch /\ Watermark /\ Queued /\ Numbered
        /\ Closes /\ Finished /\ Disconnects /\ Outputs /\ Inputs
    BY DEF IInv
  <1>2. TypeOK'
    <2>1. /\ pc' \in {"out", "parked"} /\ turns' \in 0..Budget-1 /\ progress' = FALSE
          /\ result' = result /\ cancelled' = cancelled /\ sched' \in BOOLEAN
      <3>1. progress \in BOOLEAN /\ NextTurn(progress)
        BY <1>1 DEF TypeOK, InputBlocked
      <3> QED
        BY <1>1, <3>1, TurnTyped
    <2>2. armed' \subseteq {"disconnect", "flush", "output", "input", "read"}
      BY <1>1 DEF InputBlocked, TypeOK
    <2>3. UNCHANGED <<pending, peer, noticed, paused, wire, fragmented, assembly, input, inputOpen,
                       reader, delivered, output, sent, writer, encoded, flushed, blocked>>
      BY DEF InputBlocked, wireVars, codecVars, inputVars, outputVars, writeVars
    <2>4. progress' \in BOOLEAN
      BY <2>1
    <2> QED
      BY <1>1, <2>1, <2>2, <2>3, <2>4 DEF TypeOK
  <1>3. Phases' /\ FragmentsMatch'
    BY <1>1 DEF TypeOK, Phases, FragmentsMatch, Ended, InputBlocked, NextTurn, wireVars, codecVars, inputVars, outputVars, writeVars, taskVars
  <1>4. Watermark'
    BY <1>1, LimitsAssumption DEF TypeOK, Watermark, InputBlocked, NextTurn, wireVars, codecVars, inputVars, outputVars, writeVars, taskVars
  <1>5. Queued' /\ Numbered'
    BY <1>1, OutputKept DEF InputBlocked, NextTurn, wireVars, codecVars, inputVars, outputVars, writeVars, taskVars
  <1>6. Closes' /\ Finished'
    BY <1>1 DEF TypeOK, Phases, Ended, Closes, Finished, InputBlocked, NextTurn, wireVars, codecVars, inputVars, outputVars, writeVars, taskVars
  <1>7. Disconnects'
    BY <1>1 DEF TypeOK, Phases, Ended, Disconnects, InputBlocked, NextTurn, wireVars, codecVars, inputVars, outputVars, writeVars, taskVars
  <1>8. Outputs'
    BY <1>1 DEF TypeOK, Phases, Ended, Outputs, InputBlocked, NextTurn, wireVars, codecVars, inputVars, outputVars, writeVars, taskVars
  <1>9. Inputs'
    BY <1>1, LimitsAssumption DEF TypeOK, Phases, Ended, Inputs, Room, Outputs, InputBlocked, NextTurn, wireVars, codecVars, inputVars, outputVars, writeVars, taskVars
  <1> QED
    BY <1>2, <1>3, <1>4, <1>5, <1>6, <1>7, <1>8, <1>9 DEF IInv

\* No input while the application has no room.
LEMMA InputFullKeeps ==
  ASSUME IInv, InputFull
  PROVE  IInv'
  <1>1. /\ TypeOK /\ Phases /\ FragmentsMatch /\ Watermark /\ Queued /\ Numbered
        /\ Closes /\ Finished /\ Disconnects /\ Outputs /\ Inputs
    BY DEF IInv
  <1>2. TypeOK'
    <2>1. /\ pc' \in {"out", "parked"} /\ turns' \in 0..Budget-1 /\ progress' = FALSE
          /\ result' = result /\ cancelled' = cancelled /\ sched' \in BOOLEAN
      <3>1. progress \in BOOLEAN /\ NextTurn(progress)
        BY <1>1 DEF TypeOK, InputFull
      <3> QED
        BY <1>1, <3>1, TurnTyped
    <2>2. paused' \in BOOLEAN
      BY DEF InputFull
    <2>3. armed' \subseteq {"disconnect", "flush", "output", "input", "read"}
      BY <1>1 DEF InputFull, PausedArmed, TypeOK
    <2> QED
      BY <1>1, <2>1, <2>2, <2>3, ZenonT(60) DEF TypeOK, InputFull, wireVars, codecVars, inputVars, outputVars, writeVars, taskVars
  <1>3. Phases' /\ FragmentsMatch'
    BY <1>1 DEF TypeOK, Phases, FragmentsMatch, Ended, InputFull, PausedArmed, NextTurn, wireVars, codecVars, inputVars, outputVars, writeVars, taskVars
  <1>4. Watermark'
    BY <1>1, LimitsAssumption DEF TypeOK, Watermark, InputFull, PausedArmed, NextTurn, wireVars, codecVars, inputVars, outputVars, writeVars, taskVars
  <1>5. Queued' /\ Numbered'
    BY <1>1, OutputKept DEF InputFull, PausedArmed, NextTurn, wireVars, codecVars, inputVars, outputVars, writeVars, taskVars
  <1>6. Closes' /\ Finished'
    BY <1>1 DEF TypeOK, Phases, Ended, Closes, Finished, InputFull, PausedArmed, NextTurn, wireVars, codecVars, inputVars, outputVars, writeVars, taskVars
  <1>7. Disconnects'
    BY <1>1 DEF TypeOK, Phases, Ended, Disconnects, InputFull, PausedArmed, NextTurn, wireVars, codecVars, inputVars, outputVars, writeVars, taskVars
  <1>8. Outputs'
    BY <1>1 DEF TypeOK, Phases, Ended, Outputs, InputFull, PausedArmed, NextTurn, wireVars, codecVars, inputVars, outputVars, writeVars, taskVars
  <1>9. Inputs'
    BY <1>1, LimitsAssumption DEF TypeOK, Phases, Ended, Inputs, Room, Outputs, InputFull, PausedArmed, NextTurn, wireVars, codecVars, inputVars, outputVars, writeVars, taskVars
  <1> QED
    BY <1>2, <1>3, <1>4, <1>5, <1>6, <1>7, <1>8, <1>9 DEF IInv

\* No frame has come.
LEMMA ReceiveNothingKeeps ==
  ASSUME IInv, ReceiveNothing
  PROVE  IInv'
  <1>1. /\ TypeOK /\ Phases /\ FragmentsMatch /\ Watermark /\ Queued /\ Numbered
        /\ Closes /\ Finished /\ Disconnects /\ Outputs /\ Inputs
    BY DEF IInv
  <1>2. TypeOK'
    <2>1. /\ pc' \in {"out", "parked"} /\ turns' \in 0..Budget-1 /\ progress' = FALSE
          /\ result' = result /\ cancelled' = cancelled /\ sched' \in BOOLEAN
      <3>1. progress \in BOOLEAN /\ NextTurn(progress)
        BY <1>1 DEF TypeOK, ReceiveNothing
      <3> QED
        BY <1>1, <3>1, TurnTyped
    <2>2. paused' \in BOOLEAN /\ inputOpen' \in BOOLEAN
      BY DEF ReceiveNothing
    <2>3. armed' \subseteq {"disconnect", "flush", "output", "input", "read"}
      BY <1>1 DEF ReceiveNothing, TypeOK
    <2>4. UNCHANGED <<pending, peer, noticed, wire, fragmented, assembly, input, reader, delivered,
                       output, sent, writer, encoded, flushed, blocked>>
      BY DEF ReceiveNothing, wireVars, codecVars, inputVars, outputVars, writeVars
    <2>5. progress' \in BOOLEAN
      BY <2>1
    <2> QED
      BY <1>1, <2>1, <2>2, <2>3, <2>4, <2>5 DEF TypeOK
  <1>3. Phases' /\ FragmentsMatch'
    BY <1>1 DEF TypeOK, Phases, FragmentsMatch, Ended, ReceiveNothing, MayReceive, NextTurn, wireVars, codecVars, inputVars, outputVars, writeVars, taskVars
  <1>4. Watermark'
    BY <1>1, LimitsAssumption DEF TypeOK, Watermark, ReceiveNothing, MayReceive, NextTurn, wireVars, codecVars, inputVars, outputVars, writeVars, taskVars
  <1>5. Queued' /\ Numbered'
    BY <1>1, OutputKept DEF ReceiveNothing, MayReceive, NextTurn, wireVars, codecVars, inputVars, outputVars, writeVars, taskVars
  <1>6. Closes' /\ Finished'
    BY <1>1 DEF TypeOK, Phases, Ended, Closes, Finished, ReceiveNothing, MayReceive, NextTurn, wireVars, codecVars, inputVars, outputVars, writeVars, taskVars
  <1>7. Disconnects'
    BY <1>1 DEF TypeOK, Phases, Ended, Disconnects, ReceiveNothing, MayReceive, NextTurn, wireVars, codecVars, inputVars, outputVars, writeVars, taskVars
  <1>8. Outputs'
    BY <1>1 DEF TypeOK, Phases, Ended, Outputs, ReceiveNothing, MayReceive, NextTurn, wireVars, codecVars, inputVars, outputVars, writeVars, taskVars
  <1>9. Inputs'
    BY <1>1, LimitsAssumption DEF TypeOK, Phases, Ended, Inputs, Room, Outputs, ReceiveNothing, MayReceive, NextTurn, wireVars, codecVars, inputVars, outputVars, writeVars, taskVars
  <1> QED
    BY <1>2, <1>3, <1>4, <1>5, <1>6, <1>7, <1>8, <1>9 DEF IInv

\* Encoding a message that is not the application's keeps the numbering.
LEMMA OwnEncoded ==
  ASSUME TypeOK, Queued, Numbered, NEW m \in {Pong, Close}, Encode(m),
         output' = output, sent' = sent
  PROVE  Queued' /\ Numbered'
  <1>1. PICK n : n = Len(encoded)
    OBVIOUS
  <1>2. m \in Int /\ ~(m > 0) /\ encoded' = Append(encoded, m)
    BY DEF Encode, Pong, Close
  <1>3. /\ n \in Nat /\ Len(encoded') = n + 1 /\ encoded'[n + 1] = m
        /\ \A i \in 1..n : encoded'[i] = encoded[i]
    BY <1>1, <1>2 DEF TypeOK, Close
  <1>4. /\ \A i \in 0..n : Applied(i)' = Applied(i)
        /\ Applied(n + 1)' = Applied(n)
    BY <1>1, <1>2, AppliedAppend
  <1>5. Applied(Len(encoded))' = Applied(n + 1)'
    BY <1>3, Zenon DEF Applied
  <1>6. Queued'
    <2>1. Applied(n) = sent - Len(output)
      BY <1>1 DEF Queued
    <2> QED
      BY <1>4, <1>5, <2>1 DEF Queued
  <1>7. ASSUME NEW i \in DOMAIN encoded', encoded'[i] > 0
        PROVE  encoded'[i] = Applied(i)'
    <2>1. i \in 1..n
      BY <1>2, <1>3, <1>7 DEF TypeOK
    <2>2. encoded[i] = Applied(i)
      BY <1>1, <1>3, <1>7, <2>1 DEF Numbered, TypeOK
    <2> QED
      BY <1>3, <1>4, <2>1, <2>2
  <1> QED
    BY <1>6, <1>7 DEF Numbered

\* The application's next message follows those encoded before it.
LEMMA NextEncoded ==
  ASSUME TypeOK, Queued, Numbered, output # <<>>, Encode(Head(output)),
         output' = Tail(output), sent' = sent
  PROVE  Queued' /\ Numbered' /\ Head(output) > 0
  <1>1. PICK n : n = Len(encoded)
    OBVIOUS
  <1>2. PICK m : m = Head(output)
    OBVIOUS
  <1>3. m \in 1..MaxOutput /\ m = output[1] /\ Len(output) \in Nat \ {0}
    <2>1. output \in Seq(1..MaxOutput) /\ Len(output) \in Nat
      BY DEF TypeOK
    <2>2. Len(output) # 0
      BY <2>1, EmptySeq
    <2>3. Head(output) = output[1]
      BY <2>1, <2>2
    <2>4. 1 \in 1..Len(output)
      BY <2>1, <2>2
    <2>5. output[1] \in 1..MaxOutput
      BY <2>1, <2>4, ElementOfSeq
    <2> QED
      BY <1>2, <2>1, <2>2, <2>3, <2>5
  <1>4. m \in Int /\ m > 0 /\ encoded' = Append(encoded, m)
    BY <1>2, <1>3, BoundsAssumption DEF Encode
  <1>5. /\ n \in Nat /\ Len(encoded') = n + 1 /\ encoded'[n + 1] = m
        /\ \A i \in 1..n : encoded'[i] = encoded[i]
    BY <1>1, <1>4 DEF TypeOK, Close
  <1>6. /\ \A i \in 0..n : Applied(i)' = Applied(i)
        /\ Applied(n + 1)' = Applied(n) + 1
    BY <1>1, <1>4, AppliedAppend
  <1>7. Applied(Len(encoded))' = Applied(n + 1)'
    BY <1>5, Zenon DEF Applied
  <1>8. Applied(n) = sent - Len(output) /\ m = sent - Len(output) + 1
    BY <1>1, <1>3 DEF Queued, TypeOK
  <1>9. /\ Len(output') = Len(output) - 1
        /\ \A k \in DOMAIN output' : output'[k] = output[k + 1] /\ k + 1 \in DOMAIN output
    BY <1>3 DEF TypeOK
  <1>10. sent \in Int
    BY BoundsAssumption DEF TypeOK
  <1>11. Queued'
    <2>1. Applied(Len(encoded))' = sent' - Len(output')
      BY <1>3, <1>6, <1>7, <1>8, <1>9, <1>10
    <2>2. ASSUME NEW k \in DOMAIN output'
          PROVE  output'[k] = sent' - Len(output') + k
      <3>1. k \in Int
        BY DEF TypeOK
      <3>2. output[k + 1] = sent - Len(output) + (k + 1)
        BY <1>9, <2>2 DEF Queued
      <3> QED
        BY <1>3, <1>9, <1>10, <2>2, <3>1, <3>2
    <2> QED
      BY <2>1, <2>2 DEF Queued
  <1>12. ASSUME NEW i \in DOMAIN encoded', encoded'[i] > 0
         PROVE  encoded'[i] = Applied(i)'
    <2>1. CASE i = n + 1
      BY <1>5, <1>6, <1>8, <2>1
    <2>2. CASE i \in 1..n
      <3>1. encoded[i] = Applied(i)
        BY <1>1, <1>5, <1>12, <2>2 DEF Numbered, TypeOK
      <3> QED
        BY <1>5, <1>6, <2>2, <3>1
    <2> QED
      BY <1>4, <1>5, <2>1, <2>2 DEF TypeOK
  <1> QED
    BY <1>2, <1>4, <1>11, <1>12 DEF Numbered

\* The application sends a message.
LEMMA AppSendKeeps ==
  ASSUME IInv, AppSend
  PROVE  IInv'
  <1>1. /\ TypeOK /\ Phases /\ FragmentsMatch /\ Watermark /\ Queued /\ Numbered
        /\ Closes /\ Finished /\ Disconnects /\ Outputs /\ Inputs
    BY DEF IInv
  <1>2. /\ output' = Append(output, sent + 1) /\ sent' = sent + 1 /\ encoded' = encoded
        /\ sent \in Nat /\ sent < MaxOutput /\ Len(output) \in Nat
    BY <1>1, BoundsAssumption DEF AppSend, TypeOK, writeVars
  <1>3. TypeOK'
    <2>1. output' \in Seq(1..MaxOutput) /\ Len(output') <= Buffer + 1 /\ sent' \in 0..MaxOutput
      BY <1>1, <1>2, BoundsAssumption, LimitsAssumption DEF AppSend, TypeOK, Room
    <2>2. sched' \in BOOLEAN
      BY <1>1 DEF AppSend, Wake, TypeOK
    <2> QED
      BY <1>1, <2>1, <2>2 DEF TypeOK, AppSend, wireVars, codecVars, inputVars, writeVars
  <1>4. Phases' /\ FragmentsMatch'
    BY <1>1 DEF Phases, FragmentsMatch, AppSend, codecVars, inputVars
  <1>5. Watermark'
    BY <1>1 DEF Watermark, AppSend, writeVars
  <1>6. Queued' /\ Numbered'
    <2>1. \A i : Applied(i)' = Applied(i)
      BY <1>2, AppliedSame
    <2>2. Applied(Len(encoded))' = Applied(Len(encoded))
      BY <1>2, Zenon DEF Applied
    <2>3. /\ Len(output') = Len(output) + 1 /\ output'[Len(output) + 1] = sent + 1
          /\ \A k \in DOMAIN output : output'[k] = output[k]
          /\ DOMAIN output' = 1..Len(output) + 1 /\ DOMAIN output = 1..Len(output)
      BY <1>1, <1>2 DEF TypeOK
    <2>4. ASSUME NEW k \in DOMAIN output'
          PROVE  output'[k] = sent' - Len(output') + k
      <3>1. CASE k = Len(output) + 1
        BY <1>2, <2>3, <3>1
      <3>2. CASE k \in DOMAIN output
        <4>1. k \in Int /\ output[k] = sent - Len(output) + k
          BY <1>1, <3>2 DEF Queued, TypeOK
        <4> QED
          BY <1>2, <2>3, <3>2, <4>1
      <3> QED
        BY <1>2, <2>3, <3>1, <3>2
    <2>5. Applied(Len(encoded))' = sent' - Len(output')
      BY <1>1, <1>2, <2>2, <2>3 DEF Queued
    <2>6. Queued'
      BY <2>4, <2>5 DEF Queued
    <2> QED
      BY <1>1, <1>2, <2>1, <2>6 DEF Numbered
  <1>7. Closes' /\ Finished'
    BY <1>1 DEF Closes, Finished, AppSend, writeVars
  <1>8. Disconnects'
    BY <1>1 DEF TypeOK, Disconnects, AppSend, Wake, wireVars
  <1>9. Outputs'
    BY <1>1 DEF TypeOK, Outputs, AppSend, Wake, writeVars
  <1>10. Inputs'
    BY <1>1 DEF TypeOK, Inputs, Room, AppSend, Wake, wireVars, inputVars, writeVars
  <1> QED
    BY <1>3, <1>4, <1>5, <1>6, <1>7, <1>8, <1>9, <1>10 DEF IInv

\* The Close goes out.
LEMMA SendCloseKeeps ==
  ASSUME IInv, SendClose
  PROVE  IInv'
  <1>1. /\ TypeOK /\ Phases /\ FragmentsMatch /\ Watermark /\ Queued /\ Numbered
        /\ Closes /\ Finished /\ Disconnects /\ Outputs /\ Inputs
    BY DEF IInv
  <1>2. /\ Encode(Close) /\ pc = "closing" /\ pc' = "drain"
        /\ UNCHANGED <<wireVars, codecVars, inputVars, outputVars, turns, progress,
                       result, armed, sched, cancelled>>
    BY DEF SendClose
  <1>3. /\ encoded' \in Seq(Close..MaxOutput) /\ Len(encoded') = Len(encoded) + 1
        /\ flushed' \in 0..Len(encoded') /\ blocked' \in BOOLEAN
    BY <1>1, <1>2, EncodeTyped, BoundsAssumption DEF Close
  <1>4. /\ flushed' = flushed /\ flushed \in Int /\ Len(encoded) \in Int
        /\ ~blocked' => Len(encoded') - flushed' < HighWater
        /\ Len(encoded') - flushed' <= HighWater + 1
    <2>1. Len(encoded) - flushed <= HighWater
      BY <1>1, <1>2 DEF Watermark
    <2>2. blocked' = (blocked \/ Len(encoded') - flushed >= HighWater) /\ flushed' = flushed
      BY <1>2 DEF Encode
    <2>3. flushed \in Int /\ Len(encoded) \in Int /\ HighWater \in Int
      BY <1>1, LimitsAssumption DEF TypeOK
    <2>4. ~blocked' => ~(Len(encoded') - flushed >= HighWater)
      BY <2>2
    <2> QED
      BY <1>3, <2>1, <2>2, <2>3, <2>4
  <1>5. TypeOK'
    BY <1>1, <1>2, <1>3, <1>4 DEF TypeOK, wireVars, codecVars, inputVars, outputVars
  <1>6. Phases' /\ FragmentsMatch'
    BY <1>1, <1>2 DEF Phases, Ended, FragmentsMatch, codecVars, inputVars
  <1>7. Watermark'
    BY <1>2, <1>4 DEF Watermark
  <1>8. Queued' /\ Numbered'
    BY <1>1, <1>2, OwnEncoded DEF outputVars
  <1>9. Closes'
    <2>1. encoded' = Append(encoded, Close)
      BY <1>2 DEF Encode
    <2> QED
      BY <1>1, <1>2, <1>3, <2>1 DEF Closes, TypeOK
  <1>10. Finished' /\ Disconnects' /\ Outputs' /\ Inputs'
    BY <1>1, <1>2 DEF Finished, Disconnects, Outputs, Inputs, outputVars
  <1> QED
    BY <1>5, <1>6, <1>7, <1>8, <1>9, <1>10 DEF IInv

\* A return of the pump keeps the invariant where no frame is taken.
LEMMA EndKeeps ==
  ASSUME IInv, pc = "out", NEW r \in {"disconnect", "finished"}, End(r),
         r = "finished" => output = <<>> /\ ~writer,
         UNCHANGED <<wireVars, codecVars, inputVars, outputVars, writeVars>>
  PROVE  IInv'
  <1>1. /\ TypeOK /\ Phases /\ FragmentsMatch /\ Watermark /\ Queued /\ Numbered
        /\ Closes /\ Finished /\ Disconnects /\ Outputs /\ Inputs
    BY DEF IInv
  <1>2. /\ result' = r /\ cancelled' = TRUE /\ pc' \in {"gone", "closing"}
        /\ UNCHANGED <<turns, progress, armed, sched>>
    BY DEF End
  <1>3. TypeOK'
    <2>1. cancelled' \in BOOLEAN
      BY <1>2
    <2> QED
      BY <1>1, <1>2, <2>1 DEF TypeOK, wireVars, codecVars, inputVars, outputVars, writeVars
  <1>4. Phases' /\ FragmentsMatch'
    BY <1>1, <1>2 DEF Phases, Ended, FragmentsMatch, codecVars, inputVars
  <1>5. Watermark'
    BY <1>1, <1>2 DEF Watermark, writeVars
  <1>6. Queued' /\ Numbered'
    BY <1>1, OutputKept DEF outputVars, writeVars
  <1>7. Closes' /\ Finished'
    BY <1>1, <1>2 DEF Closes, Finished, outputVars, writeVars
  <1>8. Disconnects' /\ Outputs' /\ Inputs'
    BY <1>2 DEF Disconnects, Outputs, Inputs
  <1> QED
    BY <1>3, <1>4, <1>5, <1>6, <1>7, <1>8 DEF IInv

\* A turn goes on to the input with nothing to encode: it is blocked, and a
\* flush will wake it, or there is no output, and output will.
LEMMA NothingOutKeeps ==
  ASSUME IInv, pc = "out", pc' = "in", ~noticed,
         \/ blocked /\ armed' = armed \cup {"disconnect", "flush"}
         \/ ~blocked /\ output = <<>> /\ writer /\ armed' = armed \cup {"disconnect", "output"},
         UNCHANGED <<turns, progress, result, sched, cancelled>>,
         UNCHANGED <<wireVars, codecVars, inputVars, outputVars, writeVars>>
  PROVE  IInv'
  <1>1. /\ TypeOK /\ Phases /\ FragmentsMatch /\ Watermark /\ Queued /\ Numbered
        /\ Closes /\ Finished /\ Disconnects /\ Outputs /\ Inputs
    BY DEF IInv
  <1>2. /\ armed' \subseteq {"disconnect", "flush", "output", "input", "read"}
        /\ "disconnect" \in armed'
        /\ ~blocked => "output" \in armed'
    BY <1>1 DEF TypeOK
  <1>3. TypeOK'
    BY <1>1, <1>2 DEF TypeOK, wireVars, codecVars, inputVars, outputVars, writeVars
  <1>4. Phases' /\ FragmentsMatch'
    BY <1>1 DEF Phases, Ended, FragmentsMatch, codecVars, inputVars
  <1>5. Watermark'
    BY <1>1 DEF Watermark, writeVars
  <1>6. Queued' /\ Numbered'
    BY <1>1, OutputKept DEF outputVars, writeVars
  <1>7. Closes' /\ Finished'
    BY <1>1 DEF Closes, Finished, outputVars, writeVars
  <1>8. Disconnects' /\ Outputs' /\ Inputs'
    BY <1>2 DEF Disconnects, Outputs, Inputs, wireVars, outputVars, writeVars
  <1> QED
    BY <1>3, <1>4, <1>5, <1>6, <1>7, <1>8 DEF IInv

\* A turn encodes the application's next message.
LEMMA EncodesNextKeeps ==
  ASSUME IInv, pc = "out", pc' = "in", ~noticed, ~blocked, output # <<>>,
         Encode(Head(output)), output' = Tail(output),
         progress' = TRUE, armed' = armed \cup {"disconnect"},
         UNCHANGED <<turns, result, sched, cancelled>>,
         UNCHANGED <<wireVars, codecVars, inputVars, sent, writer>>
  PROVE  IInv'
  <1>1. /\ TypeOK /\ Phases /\ FragmentsMatch /\ Watermark /\ Queued /\ Numbered
        /\ Closes /\ Finished /\ Disconnects /\ Outputs /\ Inputs
    BY DEF IInv
  <1>2. Queued' /\ Numbered' /\ Head(output) > 0
    BY <1>1, NextEncoded
  <1>3. /\ Head(output) \in 1..MaxOutput /\ Tail(output) \in Seq(1..MaxOutput)
        /\ Len(Tail(output)) = Len(output) - 1
    BY <1>1, HeadTailProperties DEF TypeOK
  <1>4. Head(output) \in Close..MaxOutput
    BY <1>3, BoundsAssumption DEF Close
  <1>5. /\ encoded' \in Seq(Close..MaxOutput) /\ Len(encoded') = Len(encoded) + 1
        /\ flushed' \in 0..Len(encoded') /\ blocked' \in BOOLEAN
    BY <1>1, <1>4, EncodeTyped
  <1>6. /\ flushed' = flushed
        /\ ~blocked' => Len(encoded') - flushed' < HighWater
        /\ Len(encoded') - flushed' <= HighWater
    <2>1. Len(encoded) - flushed < HighWater
      BY <1>1 DEF Watermark
    <2>2. blocked' = (blocked \/ Len(encoded') - flushed >= HighWater) /\ flushed' = flushed
      BY DEF Encode
    <2>3. flushed \in Int /\ Len(encoded) \in Int /\ HighWater \in Int
      BY <1>1, LimitsAssumption DEF TypeOK
    <2>4. ~blocked' => ~(Len(encoded') - flushed >= HighWater)
      BY <2>2
    <2> QED
      BY <1>5, <2>1, <2>2, <2>3, <2>4
  <1>7. TypeOK'
    <2>1. Len(encoded') - flushed' <= HighWater + 1
      BY <1>1, <1>5, <1>6, LimitsAssumption DEF TypeOK
    <2>2. output' \in Seq(1..MaxOutput) /\ Len(output') <= Buffer + 1
      BY <1>1, <1>3, LimitsAssumption DEF TypeOK
    <2>3. armed' \subseteq {"disconnect", "flush", "output", "input", "read"}
      BY <1>1 DEF TypeOK
    <2>4. progress' \in BOOLEAN
      OBVIOUS
    <2> QED
      BY <1>1, <1>5, <2>1, <2>2, <2>3, <2>4 DEF TypeOK, wireVars, codecVars, inputVars
  <1>8. Phases' /\ FragmentsMatch'
    BY <1>1 DEF Phases, Ended, FragmentsMatch, codecVars, inputVars
  <1>9. Watermark'
    BY <1>6 DEF Watermark
  <1>10. Closes'
    <2>1. encoded' = Append(encoded, Head(output)) /\ Head(output) # Close
      BY <1>2 DEF Encode, Close
    <2> QED
      BY <1>1, <1>5, <2>1 DEF Closes, TypeOK
  <1>11. Finished'
    BY <1>1 DEF Finished
  <1>12. Disconnects' /\ Outputs' /\ Inputs'
    BY DEF Disconnects, Outputs, Inputs, wireVars
  <1> QED
    BY <1>2, <1>7, <1>8, <1>9, <1>10, <1>11, <1>12 DEF IInv

\* The first half of a turn.
LEMMA OutKeeps ==
  ASSUME IInv, Out
  PROVE  IInv'
  <1>1. pc = "out" /\ UNCHANGED <<wireVars, codecVars, inputVars, sent, writer>>
    BY DEF Out
  <1>2. CASE noticed /\ End("disconnect") /\ UNCHANGED <<output, writeVars>>
    BY <1>1, <1>2, EndKeeps DEF outputVars
  <1>3. CASE /\ ~noticed /\ blocked
             /\ pc' = "in" /\ armed' = armed \cup {"disconnect", "flush"}
             /\ UNCHANGED <<turns, progress, result, sched, cancelled, output, writeVars>>
    BY <1>1, <1>3, NothingOutKeeps DEF outputVars
  <1>4. CASE ~noticed /\ ~blocked /\ OutputEnded /\ End("finished") /\ UNCHANGED <<output, writeVars>>
    BY <1>1, <1>4, EndKeeps DEF outputVars, OutputEnded
  <1>5. CASE /\ ~noticed /\ ~blocked /\ ~OutputEnded /\ output # <<>>
             /\ Encode(Head(output)) /\ output' = Tail(output)
             /\ pc' = "in" /\ progress' = TRUE /\ armed' = armed \cup {"disconnect"}
             /\ UNCHANGED <<turns, result, sched, cancelled>>
    BY <1>1, <1>5, EncodesNextKeeps
  <1>6. CASE /\ ~noticed /\ ~blocked /\ ~OutputEnded /\ output = <<>>
             /\ pc' = "in" /\ armed' = armed \cup {"disconnect", "output"}
             /\ UNCHANGED <<turns, progress, result, sched, cancelled, output, writeVars>>
    BY <1>1, <1>6, NothingOutKeeps DEF outputVars, OutputEnded
  <1> QED
    BY <1>2, <1>3, <1>4, <1>5, <1>6 DEF Out

\* What every branch of Receive does with frame f.
Taken(f) ==
    /\ MayReceive /\ pending > 0
    /\ wire' = Append(wire, f) /\ pending' = pending - 1
    /\ inputOpen' = (inputOpen /\ reader)
    /\ UNCHANGED <<peer, noticed, paused, reader, delivered, outputVars>>

\* Its types.
LEMMA TakenTyped ==
  ASSUME TypeOK, NEW f \in Frames, Taken(f)
  PROVE  /\ wire' \in Seq(Frames) /\ pending' \in 0..MaxFrames /\ inputOpen' \in BOOLEAN
         /\ Len(wire) + 1 \in Nat
  <1>1. wire' \in Seq(Frames) /\ Len(wire) + 1 \in Nat
    BY DEF TypeOK, Taken
  <1>2. pending' \in 0..MaxFrames
    BY BoundsAssumption DEF TypeOK, Taken
  <1>3. inputOpen' \in BOOLEAN
    BY DEF Taken
  <1> QED
    BY <1>1, <1>2, <1>3

\* The application is told of an error only where there is room.
LEMMA ReportTyped ==
  ASSUME TypeOK, Report
  PROVE  input' \in Seq(Seq(Nat)) /\ Len(input') <= Buffer + 1
  <1>1. ErrorItem \in Seq(Nat)
    BY DEF ErrorItem
  <1>2. CASE reader /\ Room(input)
    BY <1>1, <1>2, LimitsAssumption DEF TypeOK, Report, Room
  <1>3. CASE ~(reader /\ Room(input))
    BY <1>3 DEF TypeOK, Report
  <1> QED
    BY <1>2, <1>3

\* A frame that ends the pump.
LEMMA LastFrameKeeps ==
  ASSUME IInv, NEW f \in Frames, Taken(f), UNCHANGED writeVars,
         NEW r \in {"peer_close", "protocol", "invalid", "size"}, End(r),
         input' \in Seq(Seq(Nat)), Len(input') <= Buffer + 1,
         fragmented' \in BOOLEAN, assembly' \in AssemblyType \cup {None}
  PROVE  IInv'
  <1>1. /\ TypeOK /\ Phases /\ FragmentsMatch /\ Watermark /\ Queued /\ Numbered
        /\ Closes /\ Finished /\ Disconnects /\ Outputs /\ Inputs
    BY DEF IInv
  <1>2. /\ result' = r /\ cancelled' = TRUE /\ pc' = "closing"
        /\ UNCHANGED <<turns, progress, armed, sched>>
    BY DEF End
  <1>3. TypeOK'
    <2>1. /\ wire' \in Seq(Frames) /\ pending' \in 0..MaxFrames /\ inputOpen' \in BOOLEAN
      BY <1>1, TakenTyped
    <2>2. cancelled' \in BOOLEAN
      BY <1>2
    <2>3. UNCHANGED <<peer, noticed, paused, reader, delivered, output, sent, writer,
                      encoded, flushed, blocked>>
      BY DEF Taken, outputVars, writeVars
    <2> QED
      BY <1>1, <1>2, <2>1, <2>2, <2>3 DEF TypeOK
  <1>4. Phases' /\ FragmentsMatch'
    BY <1>1, <1>2 DEF Phases, Ended, FragmentsMatch, Taken
  <1>5. Watermark'
    BY <1>1, <1>2 DEF Watermark, writeVars, Taken, MayReceive
  <1>6. Queued' /\ Numbered'
    BY <1>1, OutputKept DEF outputVars, writeVars, Taken
  <1>7. Closes' /\ Finished'
    BY <1>1, <1>2 DEF Closes, Finished, writeVars, Taken, MayReceive
  <1>8. Disconnects' /\ Outputs' /\ Inputs'
    BY <1>2 DEF Disconnects, Outputs, Inputs
  <1> QED
    BY <1>3, <1>4, <1>5, <1>6, <1>7, <1>8 DEF IInv

\* A frame after which the pump goes on: it turns again at once, or parks with
\* its next poll already due.
LEMMA FrameKeeps ==
  ASSUME IInv, NEW f \in Frames, Taken(f), NextTurn(TRUE), armed' = armed,
         input' \in Seq(Seq(Nat)), Len(input') <= Buffer + 1,
         fragmented' \in BOOLEAN, assembly' \in AssemblyType \cup {None},
         fragmented' <=> assembly' # None,
         UNCHANGED writeVars \/ Encode(Pong)
  PROVE  IInv'
  <1>1. /\ TypeOK /\ Phases /\ FragmentsMatch /\ Watermark /\ Queued /\ Numbered
        /\ Closes /\ Finished /\ Disconnects /\ Outputs /\ Inputs
    BY DEF IInv
  <1>2. /\ pc' \in {"out", "parked"} /\ turns' \in 0..Budget-1 /\ progress' = FALSE
        /\ result' = result /\ cancelled' = cancelled /\ sched' \in BOOLEAN
    BY <1>1, TurnTyped
  <1>3. pc' = "out" \/ (pc' = "parked" /\ sched')
    BY DEF NextTurn
  <1>4. pc = "in" /\ ~blocked /\ UNCHANGED outputVars
    BY DEF Taken, MayReceive
  <1>5. /\ encoded' \in Seq(Close..MaxOutput) /\ flushed' \in 0..Len(encoded')
        /\ blocked' \in BOOLEAN
    <2>1. CASE UNCHANGED writeVars
      BY <1>1, <2>1 DEF TypeOK, writeVars
    <2>2. CASE Encode(Pong)
      <3>1. Pong \in Close..MaxOutput
        BY BoundsAssumption DEF Pong, Close
      <3> QED
        BY <1>1, <2>2, <3>1, EncodeTyped
    <2> QED
      BY <2>1, <2>2
  <1>6. /\ ~blocked' => Len(encoded') - flushed' < HighWater
        /\ Len(encoded') - flushed' <= HighWater
    <2>1. Len(encoded) - flushed < HighWater
      BY <1>1, <1>4 DEF Watermark
    <2>2. flushed \in Int /\ Len(encoded) \in Int /\ HighWater \in Int
      BY <1>1, LimitsAssumption DEF TypeOK
    <2>3. CASE UNCHANGED writeVars
      BY <2>1, <2>2, <2>3 DEF writeVars
    <2>4. CASE Encode(Pong)
      <3>1. blocked' = (blocked \/ Len(encoded') - flushed >= HighWater) /\ flushed' = flushed
        BY <2>4 DEF Encode
      <3>2. Len(encoded') = Len(encoded) + 1
        BY <1>1, <2>4 DEF Encode, TypeOK
      <3>3. ~blocked' => ~(Len(encoded') - flushed >= HighWater)
        BY <3>1
      <3> QED
        BY <2>1, <2>2, <3>1, <3>2, <3>3
    <2> QED
      BY <2>3, <2>4
  <1>7. TypeOK'
    <2>1. /\ wire' \in Seq(Frames) /\ pending' \in 0..MaxFrames /\ inputOpen' \in BOOLEAN
      BY <1>1, TakenTyped
    <2>2. Len(encoded') - flushed' <= HighWater + 1
      BY <1>5, <1>6, LimitsAssumption
    <2>3. progress' \in BOOLEAN
      BY <1>2
    <2>4. UNCHANGED <<peer, noticed, paused, reader, delivered, output, sent, writer>>
      BY DEF Taken, outputVars
    <2> QED
      BY <1>1, <1>2, <1>5, <2>1, <2>2, <2>3, <2>4, SMTT(60) DEF TypeOK
  <1>8. Phases' /\ FragmentsMatch'
    BY <1>1, <1>2, <1>4 DEF Phases, Ended, FragmentsMatch, Taken
  <1>9. Watermark'
    BY <1>6 DEF Watermark
  <1>10. Queued' /\ Numbered'
    <2>1. CASE UNCHANGED writeVars
      BY <1>1, <1>4, <2>1, OutputKept DEF outputVars, writeVars
    <2>2. CASE Encode(Pong)
      BY <1>1, <1>4, <2>2, OwnEncoded DEF outputVars
    <2> QED
      BY <2>1, <2>2
  <1>11. Closes'
    <2>1. CASE UNCHANGED writeVars
      BY <1>1, <1>4, <2>1 DEF Closes, writeVars
    <2>2. CASE Encode(Pong)
      <3>1. encoded' = Append(encoded, Pong) /\ Pong # Close
        BY <2>2 DEF Encode, Pong, Close
      <3> QED
        BY <1>1, <1>4, <3>1 DEF Closes, TypeOK
    <2> QED
      BY <2>1, <2>2
  <1>12. Finished'
    BY <1>1, <1>2, <1>4 DEF Finished, outputVars
  <1>13. Disconnects' /\ Outputs' /\ Inputs'
    BY <1>3 DEF Disconnects, Outputs, Inputs
  <1> QED
    BY <1>7, <1>8, <1>9, <1>10, <1>11, <1>12, <1>13 DEF IInv

\* The second half of a turn, with a frame.
LEMMA ReceiveKeeps ==
  ASSUME IInv, NEW f \in Frames, Receive(f)
  PROVE  IInv'
  <1> DEFINE error == DecodeError(f)
             data == f.op \in {"text", "binary", "continuation"}
             accepted == Accept(f, Len(wire) + 1)
  <1>1. TypeOK /\ FragmentsMatch /\ Phases
    BY DEF IInv
  <1>2. Taken(f)
    BY DEF Receive, Taken
  <1>3. result = "none"
    BY <1>1, <1>2 DEF Phases, Ended, Taken, MayReceive
  <1>4. error \in {"none", "protocol", "invalid", "size"}
    BY DEF DecodeError
  <1>5. ASSUME error # "none", Report, End(error), UNCHANGED <<fragmented, assembly, writeVars>>
        PROVE  IInv'
    <2>1. error \in {"peer_close", "protocol", "invalid", "size"}
      BY <1>4, <1>5
    <2>2. input' \in Seq(Seq(Nat)) /\ Len(input') <= Buffer + 1
      BY <1>1, <1>5, ReportTyped
    <2>3. fragmented' \in BOOLEAN /\ assembly' \in AssemblyType \cup {None}
      BY <1>1, <1>5 DEF TypeOK
    <2> HIDE DEF error
    <2> QED
      BY <1>2, <1>5, <2>1, <2>2, <2>3, LastFrameKeeps
  <1>6. ASSUME error = "none", f.op = "close", End("peer_close"),
               UNCHANGED <<input, fragmented, assembly, writeVars>>
        PROVE  IInv'
    <2>1. /\ input' \in Seq(Seq(Nat)) /\ Len(input') <= Buffer + 1
          /\ fragmented' \in BOOLEAN /\ assembly' \in AssemblyType \cup {None}
      BY <1>1, <1>6 DEF TypeOK
    <2> QED
      BY <1>2, <1>6, <2>1, LastFrameKeeps
  <1>7. ASSUME error = "none", f.op \in {"ping", "pong"},
               IF f.op = "ping" THEN Encode(Pong) ELSE UNCHANGED writeVars,
               NextTurn(TRUE), UNCHANGED <<input, fragmented, assembly, armed>>
        PROVE  IInv'
    <2>1. /\ input' \in Seq(Seq(Nat)) /\ Len(input') <= Buffer + 1
          /\ fragmented' \in BOOLEAN /\ assembly' \in AssemblyType \cup {None}
      BY <1>1, <1>7 DEF TypeOK
    <2>2. fragmented' <=> assembly' # None
      BY <1>1, <1>3, <1>7 DEF FragmentsMatch
    <2>3. Encode(Pong) \/ UNCHANGED writeVars
      BY <1>7
    <2> QED
      BY <1>2, <1>7, <2>1, <2>2, <2>3, FrameKeeps
  <1>8. ASSUME error = "none", data, fragmented' = Fragmented(f), assembly' = accepted.held,
               UNCHANGED writeVars,
               IF accepted.error # "none"
                 THEN Report /\ End(accepted.error)
                 ELSE /\ input' = IF inputOpen' THEN input \o accepted.messages ELSE input
                      /\ NextTurn(TRUE)
                      /\ UNCHANGED armed
        PROVE  IInv'
    <2>1. Len(wire) + 1 \in Nat
      BY <1>1, <1>2, TakenTyped
    <2>2. /\ accepted.held \in AssemblyType \cup {None}
          /\ accepted.error \in {"none", "size", "invalid"}
          /\ accepted.messages \in Seq(Seq(Nat)) /\ Len(accepted.messages) <= 1
          /\ accepted.error = "none" => (Fragmented(f) <=> accepted.held # None)
      BY <1>1, <1>3, <1>8, <2>1, AcceptHolds
    <2>3. fragmented' \in BOOLEAN
      BY <1>8, FramesAssumption DEF Fragmented
    <2> HIDE DEF accepted
    <2>4. CASE accepted.error # "none"
      <3>1. Report /\ End(accepted.error)
        BY <1>8, <2>4
      <3>2. input' \in Seq(Seq(Nat)) /\ Len(input') <= Buffer + 1
        BY <1>1, <3>1, ReportTyped
      <3>3. accepted.error \in {"peer_close", "protocol", "invalid", "size"}
        BY <2>2, <2>4
      <3> QED
        BY <1>2, <1>8, <2>2, <2>3, <3>1, <3>2, <3>3, LastFrameKeeps
    <2>5. CASE accepted.error = "none"
      <3>1. /\ input' = IF inputOpen' THEN input \o accepted.messages ELSE input
            /\ NextTurn(TRUE) /\ armed' = armed
        BY <1>8, <2>5
      <3>2. CASE inputOpen'
        <4>1. Room(input)
          BY <1>2, <3>2 DEF Taken, MayReceive
        <4>2. Len(input) \in Nat /\ Len(input) <= Buffer /\ input \in Seq(Seq(Nat))
          BY <1>1, <4>1 DEF TypeOK, Room
        <4>3. /\ input \o accepted.messages \in Seq(Seq(Nat))
              /\ Len(input \o accepted.messages) = Len(input) + Len(accepted.messages)
          BY <2>2, <4>2, ConcatProperties
        <4>4. Len(accepted.messages) \in Nat
          BY <2>2
        <4>5. input' \in Seq(Seq(Nat)) /\ Len(input') <= Buffer + 1
          BY <2>2, <3>1, <3>2, <4>2, <4>3, <4>4, LimitsAssumption
        <4> QED
          BY <1>2, <1>8, <2>2, <2>3, <2>5, <3>1, <4>5, FrameKeeps
      <3>3. CASE ~inputOpen'
        <4>1. input' \in Seq(Seq(Nat)) /\ Len(input') <= Buffer + 1
          BY <1>1, <3>1, <3>3 DEF TypeOK
        <4> QED
          BY <1>2, <1>8, <2>2, <2>3, <2>5, <3>1, <4>1, FrameKeeps
      <3> QED
        BY <3>2, <3>3
    <2> QED
      BY <2>4, <2>5
  <1> QED
    BY <1>5, <1>6, <1>7, <1>8 DEF Receive

-----------------------------------------------------------------------------
(* The input: frames and the messages they make.                           *)

\* One more frame leaves those before it as they are.
LEMMA FramesStay ==
  ASSUME TypeOK, NEW f \in Frames, wire' = Append(wire, f)
  PROVE  /\ Len(wire) \in Nat /\ Len(wire') = Len(wire) + 1
         /\ DOMAIN wire = 1..Len(wire) /\ DOMAIN wire' = 1..Len(wire)+1
         /\ \A k \in 1..Len(wire) : wire'[k] = wire[k] /\ wire[k] \in Frames
         /\ wire'[Len(wire) + 1] = f
  <1>1. wire \in Seq(Frames)
    BY DEF TypeOK
  <1> QED
    BY <1>1

\* Which message a frame belongs to does not depend on later frames.
LEMMA PartsStay ==
  ASSUME TypeOK, NEW f \in Frames, wire' = Append(wire, f)
  PROVE  /\ \A i \in 0..Len(wire) : Parts(i)' = Parts(i) /\ Parts(i) \subseteq 1..i
         /\ \A i \in 1..Len(wire)+1 : OpenBefore(i)' <=> OpenBefore(i)
         /\ \A i \in 1..Len(wire) : Complete(i)' <=> Complete(i)
  <1>1. PICK n \in Nat : n = Len(wire) /\ \A k \in 1..n : wire'[k] = wire[k]
    BY FramesStay
  <1>2. ASSUME NEW i \in 0..n
        PROVE  Parts(i)' = Parts(i) /\ Parts(i) \subseteq 1..i
    <2>1. \A k \in 1..i : wire'[k] = wire[k]
      BY <1>1
    <2>2. \A k \in 1..i : \A j \in k+1..i : wire'[j] = wire[j]
      BY <1>1
    <2> QED
      BY <2>1, <2>2 DEF Parts
  <1>3. ASSUME NEW i \in 1..n+1
        PROVE  OpenBefore(i)' <=> OpenBefore(i)
    <2>1. \A k \in 1..i-1 : wire'[k] = wire[k]
      BY <1>1
    <2>2. \A j \in 1..i-1 : \A k \in j..i-1 : wire'[k] = wire[k]
      BY <1>1
    <2> QED
      BY <2>1, <2>2 DEF OpenBefore
  <1>4. ASSUME NEW i \in 1..n
        PROVE  Complete(i)' <=> Complete(i)
    BY <1>1 DEF Complete
  <1> QED
    BY <1>1, <1>2, <1>3, <1>4

\* Neither do the length and the text of frames that have been decoded.
LEMMA PiecesStay ==
  ASSUME TypeOK, NEW f \in Frames, wire' = Append(wire, f), NEW S \in SUBSET (1..Len(wire))
  PROVE  /\ Size(S)' = Size(S)
         /\ IsText(S)' <=> IsText(S)
         /\ (\E k \in S : wire'[k].op = "text") <=> (\E k \in S : wire[k].op = "text")
  <1>1. \A k \in S : wire'[k] = wire[k]
    BY FramesStay
  <1>2. UNION {{k} \X (1..wire'[k].len) : k \in S} = UNION {{k} \X (1..wire[k].len) : k \in S}
    BY <1>1
  <1>3. Size(S)' = Size(S)
    BY <1>2 DEF Size
  <1>4. ASSUME NEW k \in S
        PROVE  InPlace(k, S)' <=> InPlace(k, S)
    BY <1>1 DEF InPlace, Adjacent
  <1> QED
    BY <1>1, <1>3, <1>4 DEF IsText

\* So a frame is judged once.
LEMMA JudgedOnce ==
  ASSUME TypeOK, NEW f \in Frames, wire' = Append(wire, f)
  PROVE  \A i \in 1..Len(wire) : /\ WellFormed(i)' <=> WellFormed(i)
                                 /\ Ends(i)' = Ends(i)
  <1> DEFINE n == Len(wire)
  <1>1. n \in Nat /\ \A k \in 1..n : wire'[k] = wire[k]
    BY FramesStay
  <1>2. /\ \A i \in 0..n : Parts(i)' = Parts(i) /\ Parts(i) \subseteq 1..i
        /\ \A i \in 1..n+1 : OpenBefore(i)' <=> OpenBefore(i)
        /\ \A i \in 1..n : Complete(i)' <=> Complete(i)
    BY PartsStay
  <1>3. ASSUME NEW i \in 1..n
        PROVE  WellFormed(i)' <=> WellFormed(i)
    <2>1. Parts(i)' = Parts(i) /\ Parts(i) \subseteq 1..n /\ i \in 1..n+1
      BY <1>1, <1>2
    <2>2. PICK S \in SUBSET (1..Len(wire)) : S = Parts(i)
      BY <2>1
    <2>3. /\ Size(S)' = Size(S)
          /\ IsText(S)' <=> IsText(S)
          /\ (\E k \in S : wire'[k].op = "text") <=> (\E k \in S : wire[k].op = "text")
      BY PiecesStay
    <2> QED
      BY <1>1, <1>2, <2>1, <2>2, <2>3 DEF WellFormed
  <1>4. ASSUME NEW i \in 1..n
        PROVE  Ends(i)' = Ends(i)
    <2>1. \A e \in 1..i : e \in 1..n
      BY <1>1
    <2> QED
      BY <1>2, <1>3, <2>1 DEF Ends
  <1> QED
    BY <1>3, <1>4

\* The message of a new frame: its own, the open one's, or no other than before.
LEMMA PartsGrow ==
  ASSUME TypeOK, NEW f \in Frames, wire' = Append(wire, f), NEW n \in Nat, n = Len(wire)
  PROVE  Parts(n + 1)' = IF f.op \in Starting THEN {n + 1}
                         ELSE IF f.op = "continuation" THEN Parts(n) \cup {n + 1}
                         ELSE Parts(n)
  <1>1. wire'[n + 1] = f /\ \A k \in 1..n : wire'[k] = wire[k]
    BY FramesStay
  <1>2. Parts(n + 1)' = {k \in 1..n+1 : /\ wire'[k].op \in DataOps
                                        /\ \A j \in k+1..n+1 : wire'[j].op \notin Starting}
    BY DEF Parts
  <1>3. ASSUME NEW k \in 1..n
        PROVE  (\A j \in k+1..n+1 : wire'[j].op \notin Starting)
               <=> f.op \notin Starting /\ \A j \in k+1..n : wire[j].op \notin Starting
    <2>1. \A j \in k+1..n+1 : j = n + 1 \/ (j \in k+1..n /\ j \in 1..n)
      OBVIOUS
    <2>2. n + 1 \in k+1..n+1 /\ \A j \in k+1..n : j \in k+1..n+1 /\ j \in 1..n
      OBVIOUS
    <2> QED
      BY <1>1, <2>1, <2>2
  <1>4. \A k \in 1..n : k \in Parts(n + 1)' <=> f.op \notin Starting /\ k \in Parts(n)
    <2>1. \A k \in 1..n : k \in 1..n+1 /\ wire'[k] = wire[k]
      BY <1>1
    <2> QED
      BY <1>2, <1>3, <2>1 DEF Parts
  <1>5. n + 1 \in Parts(n + 1)' <=> f.op \in DataOps
    <2>1. n + 1 \in 1..n+1 /\ ~(\E j \in n+1+1..n+1 : TRUE)
      OBVIOUS
    <2> QED
      BY <1>1, <1>2, <2>1
  <1>6. Parts(n + 1)' \subseteq 1..n+1 /\ Parts(n) \subseteq 1..n
    BY <1>2 DEF Parts
  <1>7. \A k \in 1..n+1 : k \in 1..n \/ k = n + 1
    OBVIOUS
  <1>8. n + 1 \notin 1..n
    OBVIOUS
  <1>9. f.op \in DataOps <=> f.op \in Starting \/ f.op = "continuation"
    BY DEF DataOps, Starting
  <1>10. f.op \in Starting => f.op # "continuation"
    BY DEF Starting
  <1>11. Parts(n + 1)' = IF f.op \in Starting THEN {n + 1}
                         ELSE IF f.op = "continuation" THEN Parts(n) \cup {n + 1} ELSE Parts(n)
    <2> DEFINE P == Parts(n + 1)'
    <2>1. /\ \A k \in 1..n : k \in P <=> f.op \notin Starting /\ k \in Parts(n)
          /\ n + 1 \in P <=> f.op \in DataOps
          /\ P \subseteq 1..n+1
      BY <1>4, <1>5, <1>6
    <2> HIDE DEF P
    <2>2. CASE f.op \in Starting
      BY <1>7, <1>9, <2>1, <2>2 DEF P
    <2>3. CASE f.op = "continuation"
      BY <1>6, <1>7, <1>9, <1>10, <2>1, <2>3 DEF P
    <2>4. CASE f.op \notin DataOps
      <3>1. \A k \in P : k \in Parts(n)
        BY <1>7, <2>1, <2>4
      <3>2. \A k \in Parts(n) : k \in P
        BY <1>6, <1>9, <2>1, <2>4
      <3>3. P = Parts(n)
        BY <3>1, <3>2
      <3> QED
        BY <1>9, <2>4, <3>3 DEF P
    <2> QED
      BY <1>9, <2>2, <2>3, <2>4
  <1> QED
    BY <1>1, <1>11

\* A message is open after a frame if that began one, or went on with one, and
\* was not its last.
LEMMA OpenNext ==
  ASSUME TypeOK, NEW f \in Frames, wire' = Append(wire, f), NEW n \in Nat, n = Len(wire)
  PROVE  OpenBefore(n + 2)' <=> IF f.op \in Starting THEN ~f.fin
                                ELSE OpenBefore(n + 1) /\ (f.op = "continuation" => ~f.fin)
  <1>1. wire'[n + 1] = f /\ \A k \in 1..n : wire'[k] = wire[k]
    BY FramesStay
  <1> DEFINE From(j) == \A k \in j..n+1 : wire'[k].op \in DataOps => ~wire'[k].fin
             Up(j) == \A k \in j..n : wire[k].op \in DataOps => ~wire[k].fin
  <1>2. OpenBefore(n + 2)' <=> \E j \in 1..n+1 : wire'[j].op \in Starting /\ From(j)
    <2>1. n + 2 - 1 = n + 1
      OBVIOUS
    <2> QED
      BY <2>1 DEF OpenBefore
  <1>3. OpenBefore(n + 1) <=> \E j \in 1..n : wire[j].op \in Starting /\ Up(j)
    <2>1. n + 1 - 1 = n
      OBVIOUS
    <2> QED
      BY <2>1 DEF OpenBefore
  <1>4. ASSUME NEW j \in 1..n
        PROVE  From(j) <=> Up(j) /\ (f.op \in DataOps => ~f.fin)
    <2>1. \A k \in j..n+1 : k = n + 1 \/ (k \in j..n /\ k \in 1..n)
      OBVIOUS
    <2>2. n + 1 \in j..n+1 /\ \A k \in j..n : k \in j..n+1 /\ k \in 1..n
      OBVIOUS
    <2> QED
      BY <1>1, <2>1, <2>2
  <1>5. From(n + 1) <=> (f.op \in DataOps => ~f.fin)
    <2>1. \A k \in n+1..n+1 : k = n + 1
      OBVIOUS
    <2>2. n + 1 \in n+1..n+1
      OBVIOUS
    <2> QED
      BY <1>1, <2>1, <2>2
  <1>6. \A j \in 1..n+1 : j \in 1..n \/ j = n + 1
    OBVIOUS
  <1>7. n + 1 \in 1..n+1 /\ \A j \in 1..n : j \in 1..n+1 /\ wire'[j] = wire[j]
    BY <1>1
  <1> HIDE DEF From, Up
  <1>8. f.op \in DataOps <=> f.op \in Starting \/ f.op = "continuation"
    BY DEF DataOps, Starting
  <1>9. OpenBefore(n + 2)' <=> \/ \E j \in 1..n : wire[j].op \in Starting /\ From(j)
                               \/ f.op \in Starting /\ From(n + 1)
    BY <1>1, <1>2, <1>6, <1>7
  <1> QED
    BY <1>1, <1>3, <1>4, <1>5, <1>8, <1>9

\* The lengths of frames add up.
LEMMA SizeGrows ==
  ASSUME TypeOK, NEW f \in Frames, wire' = Append(wire, f), NEW n \in Nat, n = Len(wire), NEW S \in SUBSET (1..n)
  PROVE  /\ Size(S) \in Nat
         /\ Size(S \cup {n + 1})' = Size(S) + f.len
  <1>1. wire'[n + 1] = f /\ \A k \in 1..n : wire'[k] = wire[k] /\ wire[k].len \in Nat
    BY FramesStay, FramesAssumption
  <1>2. f.len \in Nat
    BY FramesAssumption
  <1> DEFINE Units(k) == {k} \X (1..wire[k].len)
             U == UNION {Units(k) : k \in S}
             V == {n + 1} \X (1..f.len)
  <1>3. IsFiniteSet(U)
    <2>1. IsFiniteSet(S)
      <3>1. IsFiniteSet(1..n)
        BY FS_Interval
      <3> QED
        BY <1>1, <3>1, FS_Subset
    <2> DEFINE F == {Units(k) : k \in S}
    <2>2. IsFiniteSet(F)
      <3>1. [k \in S |-> Units(k)] \in Surjection(S, F)
        BY DEF Surjection
      <3> QED
        BY <2>1, <3>1, FS_Surjection
    <2>3. \A k \in S : IsFiniteSet(Units(k))
      <3> SUFFICES ASSUME NEW k \in S PROVE IsFiniteSet(Units(k))
        OBVIOUS
      <3>1. wire[k].len \in Int /\ 1 \in Int
        BY <1>1
      <3>2. IsFiniteSet({k}) /\ IsFiniteSet(1..wire[k].len)
        BY <3>1, FS_Singleton, FS_Interval
      <3> QED
        BY <3>2, FS_Product
    <2>4. \A T \in F : IsFiniteSet(T)
      BY <2>3
    <2> QED
      BY <2>2, <2>4, FS_UNION
  <1>4. Size(S) = Cardinality(U)
    BY DEF Size
  <1>5. IsFiniteSet(V) /\ Cardinality(V) = f.len
    <2>1. IsFiniteSet({n + 1}) /\ Cardinality({n + 1}) = 1
      BY FS_Singleton
    <2>2. IsFiniteSet(1..f.len) /\ Cardinality(1..f.len) = f.len
      <3>1. f.len \in Int /\ 1 \in Int
        BY <1>2
      <3>2. IsFiniteSet(1..f.len) /\ Cardinality(1..f.len) = IF 1 > f.len THEN 0 ELSE f.len - 1 + 1
        BY <3>1, FS_Interval
      <3> QED
        BY <1>2, <3>2
    <2>3. IsFiniteSet(V) /\ Cardinality(V) = Cardinality({n + 1}) * Cardinality(1..f.len)
      BY <2>1, <2>2, FS_Product
    <2>4. 1 * f.len = f.len
      BY <1>2
    <2> QED
      BY <2>1, <2>2, <2>3, <2>4
  <1>6. U \cap V = {}
    <2>1. n + 1 \notin S
      BY <1>1
    <2> QED
      BY <2>1
  <1>7. Size(S \cup {n + 1})' = Cardinality(U \cup V)
    <2>1. \A k \in S : wire'[k] = wire[k]
      BY <1>1
    <2> DEFINE W(k) == {k} \X (1..wire'[k].len)
    <2>2. \A k \in S : W(k) = Units(k)
      BY <2>1
    <2>3. W(n + 1) = V
      BY <1>1
    <2> HIDE DEF W, Units, V
    <2>4. UNION {W(k) : k \in S \cup {n + 1}} = U \cup V
      BY <2>2, <2>3
    <2>5. UNION {{k} \X (1..wire'[k].len) : k \in S \cup {n + 1}} = U \cup V
      BY <2>4 DEF W
    <2> QED
      BY <2>5 DEF Size
  <1>8. Cardinality(U) \in Nat /\ Cardinality(U \cup V) = Cardinality(U) + Cardinality(V)
    <2> HIDE DEF U, V
    <2>1. Cardinality(U \cup V) = Cardinality(U) + Cardinality(V) - Cardinality(U \cap V)
      BY <1>3, <1>5, FS_Union
    <2>2. Cardinality(U \cap V) = 0
      BY <1>6, FS_EmptySet
    <2>3. Cardinality(U) \in Nat
      BY <1>3, FS_CardinalityType
    <2> QED
      BY <1>2, <1>5, <2>1, <2>2, <2>3
  <1> QED
    BY <1>1, <1>4, <1>5, <1>7, <1>8

\* Piece k is out of place among the pieces S of a text, whatever follows them.
Misplaced(k, S) ==
    \/ wire[k].utf8 = "bad"
    \/ wire[k].utf8 = "head" /\ \E n \in S : Adjacent(k, n, S) /\ wire[n].utf8 # "tail"
    \/ wire[k].utf8 = "tail" /\ ~\E n \in S : Adjacent(n, k, S) /\ wire[n].utf8 = "head"

\* What the state of the validation says about the pieces so far.
TextIs(state, S) ==
    /\ state = "clean" => IsText(S)
    /\ state = "split" => \E k \in S : /\ wire[k].utf8 = "head" /\ \A n \in S : n <= k
                                       /\ \A m \in S \ {k} : InPlace(m, S)
    /\ state = "bad" => \E k \in S : Misplaced(k, S)

\* A text is valid exactly when it ends clean.
LEMMA CleanIsText ==
  ASSUME NEW S \in SUBSET Nat, NEW state \in {"clean", "split", "bad"}, TextIs(state, S)'
  PROVE  state = "clean" <=> IsText(S)'
  <1>1. ASSUME NEW k \in S, Misplaced(k, S)'
        PROVE  ~InPlace(k, S)'
    <2>1. \A n, m \in S : Adjacent(k, n, S) /\ Adjacent(k, m, S) => n = m
      BY DEF Adjacent
    <2> QED
      BY <1>1, <2>1 DEF Misplaced, InPlace
  <1>2. ASSUME NEW k \in S, wire'[k].utf8 = "head", \A n \in S : n <= k
        PROVE  ~InPlace(k, S)'
    <2>1. \A n \in S : ~(k < n)
      BY <1>2
    <2> QED
      BY <1>2, <2>1 DEF InPlace, Adjacent
  <1> QED
    BY <1>1, <1>2 DEF TextIs, IsText

\* One piece more.
LEMMA PieceAdded ==
  ASSUME TypeOK, NEW f \in Frames, wire' = Append(wire, f), NEW n \in Nat, n = Len(wire),
         NEW S \in SUBSET (1..n), NEW m \in S, \A k \in S : k <= m,
         NEW state \in {"clean", "split", "bad"}, TextIs(state, S)
  PROVE  TextIs(Utf8(state, f.utf8), S \cup {n + 1})'
  <1>1. PICK x \in Nat : /\ x = n + 1 /\ wire'[x] = f
                         /\ \A k \in S : wire'[k] = wire[k] /\ k \in Nat /\ k < x
    <2>1. /\ Len(wire) \in Nat /\ wire'[Len(wire) + 1] = f
          /\ \A k \in 1..Len(wire) : wire'[k] = wire[k]
      BY FramesStay
    <2> QED
      BY <2>1
  <1> DEFINE T == S \cup {x}
  <1>2. \A a, b \in S : Adjacent(a, b, T) <=> Adjacent(a, b, S)
    BY <1>1 DEF Adjacent
  <1>3. \A a \in S : Adjacent(a, x, T) <=> a = m
    BY <1>1 DEF Adjacent
  <1>4. \A b \in T : ~Adjacent(x, b, T)
    BY <1>1 DEF Adjacent
  <1>5. f.utf8 \in {"whole", "head", "tail", "bad"}
    BY FramesAssumption
  <1>6. x \notin S
    BY <1>1
  <1> HIDE DEF T
  <1>7. S \subseteq T /\ x \in T /\ \A k \in T : k \in S \/ k = x
    BY DEF T
  <1>8. ASSUME NEW k \in S, InPlace(k, S)
        PROVE  InPlace(k, T)'
    BY <1>1, <1>2, <1>7, <1>8 DEF InPlace
  <1>9. ASSUME NEW k \in S, Misplaced(k, S)
        PROVE  Misplaced(k, T)'
    BY <1>1, <1>2, <1>4, <1>7, <1>9 DEF Misplaced
  <1>10. CASE state = "bad"
    <2>1. Utf8(state, f.utf8) = "bad"
      BY <1>10 DEF Utf8
    <2>2. PICK k \in S : Misplaced(k, S)
      BY <1>10 DEF TextIs
    <2>3. \E j \in T : Misplaced(j, T)'
      BY <1>7, <1>9, <2>2
    <2> QED
      BY <1>1, <2>1, <2>3 DEF TextIs, T
  <1>11. CASE state = "split"
    <2>1. wire[m].utf8 = "head" /\ \A k \in S \ {m} : InPlace(k, S)
      <3>1. PICK k \in S : /\ wire[k].utf8 = "head" /\ \A b \in S : b <= k
                           /\ \A j \in S \ {k} : InPlace(j, S)
        BY <1>11 DEF TextIs
      <3>2. k \in Nat /\ m \in Nat /\ k <= m /\ m <= k
        BY <1>1, <3>1
      <3>3. k = m
        BY <3>2
      <3> QED
        BY <3>1, <3>3
    <2>2. CASE f.utf8 = "tail"
      <3>1. Utf8(state, f.utf8) = "clean"
        BY <1>11, <2>2 DEF Utf8
      <3>2. InPlace(x, T)' /\ InPlace(m, T)'
        BY <1>1, <1>3, <1>7, <2>1, <2>2 DEF InPlace
      <3>3. \A k \in T : InPlace(k, T)'
        BY <1>7, <1>8, <2>1, <3>2
      <3> QED
        BY <1>1, <3>1, <3>3 DEF TextIs, IsText, T
    <2>3. CASE f.utf8 # "tail"
      <3>1. Utf8(state, f.utf8) = "bad"
        BY <1>11, <2>3 DEF Utf8
      <3>2. Misplaced(m, T)'
        BY <1>1, <1>3, <1>7, <2>1, <2>3 DEF Misplaced
      <3> QED
        BY <1>1, <1>7, <3>1, <3>2 DEF TextIs, T
    <2> QED
      BY <2>2, <2>3
  <1>12. CASE state = "clean"
    <2>1. \A k \in S : InPlace(k, S)
      BY <1>12 DEF TextIs, IsText
    <2>2. CASE f.utf8 = "whole"
      <3>1. Utf8(state, f.utf8) = "clean"
        BY <1>12, <2>2 DEF Utf8
      <3>2. InPlace(x, T)'
        BY <1>1, <2>2 DEF InPlace
      <3>3. \A k \in T : InPlace(k, T)'
        BY <1>7, <1>8, <2>1, <3>2
      <3> QED
        BY <1>1, <3>1, <3>3 DEF TextIs, IsText, T
    <2>3. CASE f.utf8 = "head"
      <3>1. Utf8(state, f.utf8) = "split"
        BY <1>12, <2>3 DEF Utf8
      <3>2. wire'[x].utf8 = "head" /\ \A b \in T : b <= x
        BY <1>1, <1>7, <2>3
      <3>3. \A k \in T \ {x} : InPlace(k, T)'
        BY <1>7, <1>8, <2>1
      <3> QED
        BY <1>1, <1>7, <3>1, <3>2, <3>3 DEF TextIs, T
    <2>4. CASE f.utf8 \in {"tail", "bad"}
      <3>1. Utf8(state, f.utf8) = "bad"
        BY <1>12, <2>4 DEF Utf8
      <3>2. wire[m].utf8 # "head"
        <4>1. \A k \in S : ~(m < k)
          BY <1>1
        <4> QED
          BY <2>1, <4>1 DEF InPlace, Adjacent
      <3>3. \A b \in T : Adjacent(b, x, T) => b = m
        BY <1>3, <1>4, <1>7
      <3>4. Misplaced(x, T)'
        BY <1>1, <2>4, <3>2, <3>3 DEF Misplaced
      <3> QED
        BY <1>1, <1>7, <3>1, <3>4 DEF TextIs, T
    <2> QED
      BY <1>5, <2>2, <2>3, <2>4
  <1> QED
    BY <1>10, <1>11, <1>12

\* The first piece.
LEMMA FirstPiece ==
  ASSUME TypeOK, NEW f \in Frames, wire' = Append(wire, f), NEW n \in Nat, n = Len(wire)
  PROVE  TextIs(Utf8("clean", f.utf8), {n + 1})'
  <1>1. PICK x \in Nat : x = n + 1 /\ wire'[x] = f
    BY FramesStay
  <1>2. \A a \in {x} : ~Adjacent(a, x, {x})
    BY DEF Adjacent
  <1>3. f.utf8 \in {"whole", "head", "tail", "bad"}
    BY FramesAssumption
  <1>4. TextIs(Utf8("clean", f.utf8), {x})'
    BY <1>1, <1>2, <1>3 DEF TextIs, IsText, InPlace, Misplaced, Utf8
  <1> QED
    BY <1>1, <1>4

\* What an assembly must hold: the frames of S, in order.
Holds(a, S) ==
    /\ S # {} /\ IsMessage(a.parts, S)
    /\ a.len = Size(S)
    /\ a.text <=> \E k \in S : wire[k].op = "text"
    /\ TextIs(a.utf8, S)

\* While the pump runs every frame was in order, the codec knows whether a
\* message is open, and the assembly holds its frames.
Hearing ==
    /\ \A i \in DOMAIN wire : WellFormed(i)
    /\ fragmented <=> OpenBefore(Len(wire) + 1)
    /\ assembly # None => Holds(assembly, Parts(Len(wire)))

Heard == InputIsFaithful /\ (result = "none" => Hearing)

-----------------------------------------------------------------------------
(* A frame, judged by the code and by the reference.                       *)

\* Appending to a message.
LEMMA MessageGrows ==
  ASSUME NEW p \in Seq(Nat), NEW S \in SUBSET Nat, NEW x \in Nat, IsMessage(p, S),
         \A k \in S : k < x
  PROVE  IsMessage(Append(p, x), S \cup {x})
  <1>1. PICK n \in Nat : n = Len(p) /\ DOMAIN p = 1..n
    OBVIOUS
  <1>2. PICK q \in Seq(Nat) : q = Append(p, x)
    <2>1. Append(p, x) \in Seq(Nat)
      OBVIOUS
    <2> QED
      BY <2>1
  <1>3. DOMAIN q = 1..n+1 /\ q[n+1] = x /\ \A k \in 1..n : q[k] = p[k]
    BY <1>1, <1>2
  <1>4. \A k \in 1..n+1 : k \in 1..n \/ k = n + 1
    BY <1>1
  <1>5. \A k \in 1..n : k \in 1..n+1
    BY <1>1
  <1>6. n + 1 \in 1..n+1
    BY <1>1
  <1>7. Range(p) = {p[k] : k \in 1..n} /\ Range(q) = {q[k] : k \in 1..n+1}
    BY <1>1, <1>3 DEF Range
  <1>8. Range(q) = Range(p) \cup {x}
    BY <1>3, <1>4, <1>5, <1>6, <1>7
  <1>9. Range(p) = S /\ \A a, b \in 1..n : a < b => p[a] < p[b]
    BY <1>1 DEF IsMessage
  <1>10. \A k \in 1..n : p[k] \in S
    BY <1>7, <1>9
  <1>11. ASSUME NEW a \in 1..n+1, NEW b \in 1..n+1, a < b
         PROVE  q[a] < q[b]
    <2>1. a \in 1..n
      BY <1>1, <1>11
    <2>2. CASE b \in 1..n
      BY <1>3, <1>9, <1>11, <2>1, <2>2
    <2>3. CASE b = n + 1
      BY <1>3, <1>10, <2>1, <2>3
    <2> QED
      BY <1>4, <2>2, <2>3
  <1> QED
    BY <1>2, <1>3, <1>8, <1>9, <1>11 DEF IsMessage

\* The text of frames already decoded stays as it was.
LEMMA TextStays ==
  ASSUME TypeOK, NEW f \in Frames, wire' = Append(wire, f), NEW S \in SUBSET (1..Len(wire)),
         NEW a, Holds(a, S)
  PROVE  Holds(a, S)'
  <1>1. \A k \in S : wire'[k] = wire[k]
    BY FramesStay
  <1>2. \A k \in S : (InPlace(k, S)' <=> InPlace(k, S)) /\ (Misplaced(k, S)' <=> Misplaced(k, S))
    BY <1>1 DEF InPlace, Misplaced, Adjacent
  <1>3. TextIs(a.utf8, S)'
    BY <1>1, <1>2 DEF Holds, TextIs, IsText
  <1> QED
    BY <1>1, <1>3, PiecesStay DEF Holds, IsMessage

\* The assembly with a frame that CheckedCodec::decode let through.
Joined(f, i) == IF f.op = "continuation"
                  THEN [assembly EXCEPT !.parts = Append(@, i), !.len = @ + f.len,
                                        !.utf8 = Utf8(@, f.utf8)]
                  ELSE [text |-> f.op = "text", parts |-> <<i>>, len |-> f.len,
                        utf8 |-> Utf8("clean", f.utf8)]

\* What may be joined: a first frame to nothing, another to an open message.
LEMMA MayJoin ==
  ASSUME TypeOK, FragmentsMatch, result = "none", NEW f \in Frames, f.op \in DataOps,
         DecodeError(f) = "none"
  PROVE  /\ f.valid
         /\ f.op \in Starting => ~fragmented
         /\ f.op = "continuation" => fragmented /\ assembly # None /\ assembly \in AssemblyType
         /\ f.op \in Starting \/ f.op = "continuation"
  BY DEF TypeOK, FragmentsMatch, DataOps, Starting, DecodeError

\* The joined assembly holds the frames of the message so far.
LEMMA JoinHolds ==
  ASSUME TypeOK, FragmentsMatch, Hearing, result = "none", NEW f \in Frames, f.op \in DataOps,
         DecodeError(f) = "none", wire' = Append(wire, f), NEW n \in Nat, n = Len(wire),
         NEW h, h = Joined(f, n + 1), NEW S, S = Parts(n + 1)'
  PROVE  Holds(h, S)' /\ h.utf8 \in {"clean", "split", "bad"} /\ S \subseteq 1..n+1
  <1>1. PICK x \in Nat : x = n + 1 /\ wire'[x] = f /\ \A k \in 1..n : wire'[k] = wire[k] /\ k < x
    BY FramesStay
  <1>2. f.len \in Nat /\ f.utf8 \in {"whole", "head", "tail", "bad"}
    BY FramesAssumption
  <1>3. S = IF f.op \in Starting THEN {x} ELSE Parts(n) \cup {x}
    <2>1. f.op \in Starting \/ f.op = "continuation"
      BY DEF DataOps, Starting
    <2> QED
      BY <1>1, <2>1, PartsGrow
  <1>4. CASE f.op \in Starting
    <2>1. S = {x} /\ f.op # "continuation"
      BY <1>3, <1>4 DEF Starting
    <2>2. h = [text |-> f.op = "text", parts |-> <<x>>, len |-> f.len,
               utf8 |-> Utf8("clean", f.utf8)]
      BY <1>1, <2>1 DEF Joined
    <2>3. h.parts = <<x>> /\ h.len = f.len /\ h.utf8 = Utf8("clean", f.utf8) /\ h.text = (f.op = "text")
      BY <2>2
    <2>4. IsMessage(<<x>>, {x})
      <3>1. DOMAIN <<x>> = {1} /\ <<x>>[1] = x
        BY <1>1
      <3> QED
        BY <3>1 DEF IsMessage, Range
    <2>5. Size(S)' = f.len
      <3>1. PICK E \in SUBSET (1..n) : E = {}
        OBVIOUS
      <3>2. Size(E) \in Nat /\ Size(E \cup {n + 1})' = Size(E) + f.len
        BY SizeGrows
      <3>3. Size(E) = 0
        <4>1. UNION {{k} \X (1..wire[k].len) : k \in E} = {}
          BY <3>1
        <4> QED
          BY <4>1, FS_EmptySet DEF Size
      <3>4. E \cup {n + 1} = S
        BY <1>1, <2>1, <3>1
      <3>5. Size(S)' = Size(E) + f.len
        BY <3>2, <3>4, Zenon
      <3> QED
        BY <1>2, <3>3, <3>5
    <2>6. TextIs(Utf8("clean", f.utf8), S)'
      <3>1. S = {n + 1}
        BY <1>1, <2>1
      <3>2. TextIs(Utf8("clean", f.utf8), {n + 1})'
        BY FirstPiece
      <3> QED
        BY <3>1, <3>2
    <2>7. Utf8("clean", f.utf8) \in {"clean", "split", "bad"}
      BY Utf8Typed
    <2>8. (f.op = "text") <=> \E k \in S : wire'[k].op = "text"
      BY <1>1, <2>1
    <2>9. S # {} /\ S \subseteq 1..n+1
      <3>1. x \in 1..n+1
        BY <1>1
      <3> QED
        BY <2>1, <3>1, Zenon
    <2>10. IsMessage(h.parts, S)
      BY <2>1, <2>3, <2>4
    <2> HIDE DEF Holds
    <2> QED
      BY <2>3, <2>5, <2>6, <2>7, <2>8, <2>9, <2>10 DEF Holds, IsMessage
  <1>5. CASE f.op = "continuation"
    <2>1. S = Parts(n) \cup {x}
      BY <1>3, <1>5 DEF Starting
    <2>2. assembly # None /\ assembly \in AssemblyType
      BY <1>5, MayJoin
    <2>3. PICK P \in SUBSET (1..n) : P = Parts(n)
      BY DEF Parts
    <2>4. Holds(assembly, P)
      BY <2>2, <2>3 DEF Hearing
    <2>5. /\ assembly.parts \in Seq(Nat) /\ assembly.utf8 \in {"clean", "split", "bad"}
          /\ assembly.len \in Nat
      BY <2>2, LimitsAssumption DEF AssemblyType
    <2>6. PICK st \in {"clean", "split", "bad"} : st = assembly.utf8
      BY <2>5
    <2>7. /\ h.parts = Append(assembly.parts, x) /\ h.len = assembly.len + f.len
           /\ h.utf8 = Utf8(st, f.utf8) /\ h.text = assembly.text
      BY <1>1, <1>5, <2>2, <2>6 DEF Joined, AssemblyType
    <2>8. IsMessage(h.parts, S)
      <3>1. IsMessage(assembly.parts, P) /\ P \in SUBSET Nat /\ \A k \in P : k < x
        BY <1>1, <2>4 DEF Holds
      <3>2. IsMessage(Append(assembly.parts, x), P \cup {x})
        BY <2>5, <3>1, MessageGrows
      <3> QED
        BY <2>1, <2>3, <2>7, <3>2
    <2>9. Size(S)' = assembly.len + f.len
      <3>1. Size(P \cup {n + 1})' = Size(P) + f.len
        BY SizeGrows
      <3>2. P \cup {n + 1} = S
        BY <1>1, <2>1, <2>3
      <3> QED
        BY <2>4, <3>1, <3>2 DEF Holds
    <2>10. TextIs(Utf8(st, f.utf8), S)'
      <3>1. PICK m \in P : \A k \in P : k <= m
        <4>1. PICK c \in Nat : c = Len(assembly.parts) /\ DOMAIN assembly.parts = 1..c
          BY <2>5
        <4>2. /\ P # {} /\ P = {assembly.parts[k] : k \in 1..c}
              /\ \A a, b \in 1..c : a < b => assembly.parts[a] < assembly.parts[b]
          BY <2>4, <4>1 DEF Holds, IsMessage, Range
        <4>3. c \in 1..c
          BY <4>1, <4>2
        <4>4. \A k \in 1..c : assembly.parts[k] <= assembly.parts[c]
          <5> SUFFICES ASSUME NEW k \in 1..c PROVE assembly.parts[k] <= assembly.parts[c]
            OBVIOUS
          <5>1. assembly.parts[k] \in Nat /\ assembly.parts[c] \in Nat
            BY <2>5, <4>1, <4>3
          <5> QED
            BY <4>1, <4>2, <4>3, <5>1, SMTT(30)
        <4> QED
          BY <4>2, <4>3, <4>4
      <3>2. TextIs(st, P)
        BY <2>4, <2>6 DEF Holds
      <3>3. TextIs(Utf8(st, f.utf8), P \cup {n + 1})'
        BY <3>1, <3>2, PieceAdded
      <3>4. P \cup {n + 1} = S
        BY <1>1, <2>1, <2>3
      <3> QED
        BY <3>3, <3>4
    <2>11. Utf8(st, f.utf8) \in {"clean", "split", "bad"}
      BY <2>6, Utf8Typed
    <2>12. assembly.text <=> \E k \in S : wire'[k].op = "text"
      BY <1>1, <1>5, <2>1, <2>3, <2>4 DEF Holds
    <2>13. S # {} /\ S \subseteq 1..n+1
      <3>1. x \in 1..n+1 /\ \A k \in P : k \in 1..n+1
        BY <1>1
      <3> QED
        BY <2>1, <2>3, <3>1, Zenon
    <2> QED
      BY <2>8, <2>9, <2>10, <2>11, <2>12, <2>13, <2>7 DEF Holds, IsMessage
  <1> QED
    BY <1>4, <1>5 DEF DataOps, Starting

\* The larger of the two limits.
LEMMA LargerLimit ==
  /\ Max({Limit, ControlMax}) \in {Limit, ControlMax}
  /\ Limit <= Max({Limit, ControlMax}) /\ ControlMax <= Max({Limit, ControlMax})
  <1>1. Max({Limit, ControlMax}) = CHOOSE x \in {Limit, ControlMax} : \A y \in {Limit, ControlMax} : x >= y
    BY DEF Max
  <1>2. \E x \in {Limit, ControlMax} : \A y \in {Limit, ControlMax} : x >= y
    BY LimitsAssumption
  <1>3. /\ Max({Limit, ControlMax}) \in {Limit, ControlMax}
        /\ \A y \in {Limit, ControlMax} : Max({Limit, ControlMax}) >= y
    BY <1>1, <1>2
  <1> QED
    BY <1>3, LimitsAssumption

\* A frame CheckedCodec::decode refuses may not follow, and neither may a data
\* frame Assembly::accept refuses; every other frame may.
LEMMA JudgedRight ==
  ASSUME TypeOK, FragmentsMatch, Hearing, result = "none", NEW f \in Frames,
         wire' = Append(wire, f), NEW n \in Nat, n = Len(wire)
  PROVE  /\ DecodeError(f) # "none" => ~WellFormed(n + 1)'
         /\ DecodeError(f) = "none" /\ f.op \notin DataOps => WellFormed(n + 1)'
         /\ DecodeError(f) = "none" /\ f.op \in DataOps
              => (WellFormed(n + 1)' <=> Accept(f, n + 1).error = "none")
  <1>1. wire'[n + 1] = f /\ Len(wire) + 1 = n + 1
    BY FramesStay
  <1>2. /\ f.op \in {"text", "binary", "continuation", "ping", "pong", "close"}
        /\ f.fin \in BOOLEAN /\ f.len \in Nat /\ f.valid \in BOOLEAN
    BY FramesAssumption
  <1>3. OpenBefore(n + 1)' <=> fragmented
    <2>1. n + 1 \in 1..Len(wire)+1
      BY <1>1
    <2> QED
      BY <1>1, <2>1, PartsStay DEF Hearing
  <1>4. PICK S : S = Parts(n + 1)'
    OBVIOUS
  <1>5. WellFormed(n + 1)' <=>
          /\ f.valid
          /\ f.op \in Starting => ~fragmented
          /\ f.op = "continuation" => fragmented
          /\ f.op = "close" => f.utf8 = "whole"
          /\ f.op \in DataOps => Size(S)' <= Limit
          /\ f.op \in DataOps /\ f.fin /\ (\E k \in S : wire'[k].op = "text") => IsText(S)'
    BY <1>1, <1>3, <1>4 DEF WellFormed, Complete
  <1>6. ASSUME DecodeError(f) # "none", WellFormed(n + 1)'
        PROVE  FALSE
    <2>1. f.valid /\ f.len > Max({Limit, ControlMax})
      BY <1>2, <1>5, <1>6 DEF DecodeError, Starting, DataOps
    <2>2. Limit \in Nat /\ ControlMax \in Nat /\ f.len > Limit /\ f.len > ControlMax
      BY <1>2, <2>1, LargerLimit, LimitsAssumption
    <2>3. CASE f.op \in DataOps
      <3>1. PICK P \in SUBSET (1..n) : S = P \cup {n + 1}
        <4>1. Parts(n) \in SUBSET (1..n) /\ {} \in SUBSET (1..n) /\ {n + 1} = {} \cup {n + 1}
          BY DEF Parts
        <4>2. f.op \in Starting \/ f.op = "continuation"
          BY <2>3 DEF DataOps, Starting
        <4>3. S = {n + 1} \/ S = Parts(n) \cup {n + 1}
          BY <1>4, <4>2, PartsGrow
        <4> QED
          BY <4>1, <4>3
      <3>2. Size(P) \in Nat /\ Size(S)' = Size(P) + f.len
        BY <3>1, SizeGrows
      <3> QED
        BY <1>2, <1>5, <1>6, <2>2, <2>3, <3>2
    <2>4. CASE f.op \notin DataOps
      BY <1>2, <2>1, <2>2, <2>4, ControlAssumption DEF DataOps
    <2> QED
      BY <2>3, <2>4
  <1>7. ASSUME DecodeError(f) = "none", f.op \notin DataOps
        PROVE  WellFormed(n + 1)'
    BY <1>2, <1>5, <1>7 DEF DecodeError, Starting, DataOps
  <1>8. ASSUME DecodeError(f) = "none", f.op \in DataOps
        PROVE  WellFormed(n + 1)' <=> Accept(f, n + 1).error = "none"
    <2>1. PICK h : h = Joined(f, n + 1)
      OBVIOUS
    <2>2. Holds(h, S)' /\ h.utf8 \in {"clean", "split", "bad"} /\ S \subseteq 1..n+1
      BY <1>4, <1>8, <2>1, JoinHolds
    <2>3. /\ f.valid /\ (f.op \in Starting => ~fragmented)
          /\ f.op = "continuation" => fragmented /\ assembly # None /\ assembly \in AssemblyType
          /\ f.op \in Starting \/ f.op = "continuation"
      BY <1>8, MayJoin
    <2>4. h.utf8 = "clean" <=> IsText(S)'
      <3>1. S \in SUBSET Nat
        BY <2>2
      <3>2. PICK st \in {"clean", "split", "bad"} : st = h.utf8
        BY <2>2
      <3>3. TextIs(st, S)'
        BY <2>2, <3>2 DEF Holds
      <3>4. st = "clean" <=> IsText(S)'
        BY <3>1, <3>3, CleanIsText
      <3> QED
        BY <3>2, <3>4
    <2>5. h.len = Size(S)' /\ (h.text <=> \E k \in S : wire'[k].op = "text")
      BY <2>2 DEF Holds
    <2>6. f.op # "close" /\ (f.op \in Starting => f.op # "continuation")
      BY <2>3 DEF Starting
    <2>7. WellFormed(n + 1)' <=> h.len <= Limit /\ (f.fin /\ h.text => h.utf8 = "clean")
      BY <1>5, <1>8, <2>3, <2>4, <2>5, <2>6
    <2>8. (f.len > RoomLeft(IF f.op = "continuation" THEN assembly ELSE None)) <=> ~(h.len <= Limit)
      <3>1. CASE f.op = "continuation"
        <4>1. assembly.len \in Nat /\ h.len = assembly.len + f.len
          BY <1>2, <2>1, <2>3, <3>1, LimitsAssumption DEF Joined, AssemblyType
        <4> QED
          BY <1>2, <2>3, <3>1, <4>1, LimitsAssumption DEF RoomLeft
      <3>2. CASE f.op # "continuation"
        <4>1. h.len = f.len
          BY <2>1, <3>2 DEF Joined
        <4> QED
          BY <1>2, <3>2, <4>1, LimitsAssumption DEF RoomLeft
      <3> QED
        BY <3>1, <3>2
    <2>9. Accept(f, n + 1).error =
            IF f.len > RoomLeft(IF f.op = "continuation" THEN assembly ELSE None) THEN "size"
            ELSE IF f.fin /\ h.text /\ h.utf8 # "clean" THEN "invalid" ELSE "none"
      BY <2>1 DEF Accept, Joined
    <2> QED
      BY <2>7, <2>8, <2>9
  <1> QED
    BY <1>6, <1>7, <1>8

\* The ends of messages are counted.
LEMMA EndsFinite ==
  ASSUME NEW i \in Nat
  PROVE  IsFiniteSet(Ends(i)) /\ Cardinality(Ends(i)) \in Nat
  <1>1. IsFiniteSet(1..i)
    BY FS_Interval
  <1>2. Ends(i) \subseteq 1..i
    BY DEF Ends
  <1> QED
    BY <1>1, <1>2, FS_Subset, FS_CardinalityType

\* Each frame adds itself or nothing to them.
LEMMA EndsGrow ==
  ASSUME TypeOK, NEW f \in Frames, wire' = Append(wire, f), NEW n \in Nat, n = Len(wire)
  PROVE  /\ \A i \in 0..n : Ends(i)' = Ends(i)
         /\ Ends(n + 1)' = IF WellFormed(n + 1)' /\ Complete(n + 1)' THEN Ends(n) \cup {n + 1}
                           ELSE Ends(n)
         /\ Cardinality(Ends(n + 1))' = IF WellFormed(n + 1)' /\ Complete(n + 1)'
                                          THEN Cardinality(Ends(n)) + 1 ELSE Cardinality(Ends(n))
  <1>1. /\ \A i \in 1..n : (WellFormed(i)' <=> WellFormed(i)) /\ Ends(i)' = Ends(i)
        /\ \A i \in 1..n : Complete(i)' <=> Complete(i)
    BY JudgedOnce, PartsStay
  <1>2. ASSUME NEW i \in 0..n
        PROVE  Ends(i)' = Ends(i)
    <2>1. CASE i = 0
      BY <2>1 DEF Ends
    <2>2. CASE i # 0
      BY <1>1, <2>2
    <2> QED
      BY <2>1, <2>2
  <1>3. \A e : e \in 1..n+1 <=> e \in 1..n \/ e = n + 1
    OBVIOUS
  <1>4. Ends(n + 1)' = IF WellFormed(n + 1)' /\ Complete(n + 1)' THEN Ends(n) \cup {n + 1}
                       ELSE Ends(n)
    <2>1. Ends(n + 1)' = {e \in 1..n+1 : WellFormed(e)' /\ Complete(e)'}
      BY DEF Ends
    <2>2. \A e : e \in Ends(n) <=> e \in 1..n /\ WellFormed(e)' /\ Complete(e)'
      BY <1>1 DEF Ends
    <2> QED
      BY <1>3, <2>1, <2>2, Zenon
  <1>5. n + 1 \notin Ends(n) /\ IsFiniteSet(Ends(n)) /\ Cardinality(Ends(n)) \in Nat
    <2>1. n + 1 \notin 1..n
      OBVIOUS
    <2>2. Ends(n) \subseteq 1..n
      BY DEF Ends
    <2> QED
      BY <2>1, <2>2, EndsFinite
  <1>6. Cardinality(Ends(n) \cup {n + 1}) = Cardinality(Ends(n)) + 1
    BY <1>5, FS_AddElement
  <1> QED
    BY <1>2, <1>4, <1>6

\* The messages end in the order of their last frames.
LEMMA EndsOrdered ==
  ASSUME NEW n \in Nat, NEW i \in Ends(n)
  PROVE  Cardinality(Ends(i)) \in 1..Cardinality(Ends(n))
  <1>1. i \in 1..n /\ WellFormed(i) /\ Complete(i)
    BY DEF Ends
  <1>2. Ends(i) \subseteq Ends(n) /\ i \in Ends(i)
    BY <1>1 DEF Ends
  <1>3. i \in Nat
    BY <1>1
  <1>4. /\ IsFiniteSet(Ends(i)) /\ Cardinality(Ends(i)) \in Nat
        /\ IsFiniteSet(Ends(n)) /\ Cardinality(Ends(n)) \in Nat
    BY <1>3, EndsFinite
  <1>5. Cardinality(Ends(i)) <= Cardinality(Ends(n))
    BY <1>2, <1>4, FS_Subset
  <1>6. Cardinality(Ends(i)) # 0
    BY <1>2, <1>4, FS_EmptySet
  <1> QED
    BY <1>4, <1>5, <1>6

\* What goes into the channel goes behind all the application is handed.
LEMMA ItemsGrow ==
  ASSUME NEW s \in Seq(Seq(Nat)), NEW t \in Seq(Seq(Nat)), NEW x \in Seq(Nat)
  PROVE  /\ s \o Append(t, x) = (s \o t) \o <<x>>
         /\ Len(s \o Append(t, x)) = Len(s \o t) + 1
         /\ (s \o Append(t, x))[Len(s \o t) + 1] = x
  <1> DEFINE A == Seq(Nat)
  <1> HIDE DEF A
  <1>1. s \in Seq(A) /\ t \in Seq(A) /\ x \in A
    BY DEF A
  <1>2. <<x>> \in Seq(A) /\ Append(t, x) = t \o <<x>>
    BY <1>1, AppendIsConcat
  <1>3. s \o t \in Seq(A) /\ s \o (t \o <<x>>) = (s \o t) \o <<x>>
    BY <1>1, <1>2, ConcatAssociative, ConcatProperties
  <1>4. PICK u \in Seq(A) : u = s \o t
    BY <1>3
  <1>5. u \o <<x>> = Append(u, x)
    BY <1>1, AppendIsConcat
  <1>6. Len(Append(u, x)) = Len(u) + 1 /\ Append(u, x)[Len(u) + 1] = x
    BY <1>1, AppendProperties
  <1> QED
    BY <1>2, <1>3, <1>4, <1>5, <1>6

\* A frame's message, or its refusal, goes behind what the application has.
LEMMA NewFrame ==
  ASSUME TypeOK, InputIsFaithful, \A i \in DOMAIN wire : WellFormed(i),
         NEW f \in Frames, wire' = Append(wire, f), NEW n \in Nat, n = Len(wire),
         delivered' = delivered, reader' = reader, NEW m \in Seq(Nat),
         WellFormed(n + 1)' /\ Complete(n + 1)' => IsMessage(m, Parts(n + 1)'),
         ~WellFormed(n + 1)' => pc' \in Ended,
         reader => input' = IF ~WellFormed(n + 1)' THEN Append(input, ErrorItem)
                            ELSE IF Complete(n + 1)' THEN Append(input, m)
                            ELSE input
  PROVE  InputIsFaithful'
  <1>1. /\ DOMAIN wire' = 1..n+1 /\ Len(wire') = n + 1 /\ DOMAIN wire = 1..n
    BY FramesStay
  <1>2. \A i \in 1..n : WellFormed(i)' /\ WellFormed(i)
    BY <1>1, JudgedOnce
  <1>3. \A i : i \in 1..n+1 <=> i \in 1..n \/ i = n + 1
    OBVIOUS
  <1>4. \A i \in DOMAIN wire' : ~WellFormed(i)' => i = Len(wire') /\ pc' \in {"closing", "drain", "gone"}
    BY <1>1, <1>2, <1>3 DEF Ended
  <1>5. ASSUME reader, NEW items, items = delivered' \o input', NEW broken, broken = (\E i \in DOMAIN wire' : ~WellFormed(i)')
        PROVE  /\ Len(items) = Cardinality(Ends(n + 1))' + (IF broken THEN 1 ELSE 0)
               /\ \A i \in Ends(n + 1)' : IsMessage(items[Cardinality(Ends(i))'], Parts(i)')
               /\ broken => items[Len(items)] = ErrorItem
    <2>1. broken <=> ~WellFormed(n + 1)'
      BY <1>1, <1>2, <1>3, <1>5
    <2>2. PICK old : old = delivered \o input
      OBVIOUS
    <2>3. PICK c \in Nat : c = Cardinality(Ends(n))
      BY EndsFinite
    <2>4. old \in Seq(Seq(Nat)) /\ delivered \in Seq(Seq(Nat)) /\ input \in Seq(Seq(Nat))
      BY <2>2 DEF TypeOK
    <2>5. Len(old) = c /\ \A i \in Ends(n) : IsMessage(old[Cardinality(Ends(i))], Parts(i))
      <3>1. ~\E i \in DOMAIN wire : ~WellFormed(i)
        BY <1>1, <1>2
      <3>2. /\ Len(old) = c + (IF \E i \in DOMAIN wire : ~WellFormed(i) THEN 1 ELSE 0)
            /\ \A i \in Ends(n) : IsMessage(old[Cardinality(Ends(i))], Parts(i))
        BY <1>5, <2>2, <2>3 DEF InputIsFaithful
      <3>3. Len(old) = c + 0
        BY <3>1, <3>2, Zenon
      <3> QED
        BY <3>2, <3>3
    <2>6. /\ \A i \in 0..n : Ends(i)' = Ends(i) /\ Parts(i)' = Parts(i)
          /\ Ends(n + 1)' = IF WellFormed(n + 1)' /\ Complete(n + 1)' THEN Ends(n) \cup {n + 1}
                            ELSE Ends(n)
          /\ Cardinality(Ends(n + 1))' = IF WellFormed(n + 1)' /\ Complete(n + 1)'
                                           THEN c + 1 ELSE c
      BY <2>3, EndsGrow, PartsStay
    <2>7. \A i \in Ends(n) : i \in 0..n /\ Cardinality(Ends(i)) \in 1..c
      <3>1. Ends(n) \subseteq 0..n
        BY DEF Ends
      <3> QED
        BY <2>3, <3>1, EndsOrdered
    <2>8. ASSUME NEW more \in Seq(Seq(Nat)), items = old \o more,
                 NEW i \in Ends(n)
          PROVE  IsMessage(items[Cardinality(Ends(i))'], Parts(i)')
      <3>1. PICK k \in 1..c : k = Cardinality(Ends(i))
        BY <2>7
      <3>2. items[k] = old[k]
        BY <2>4, <2>5, <2>8, <3>1
      <3>3. k = Cardinality(Ends(i))' /\ Parts(i)' = Parts(i)
        BY <2>6, <2>7, <3>1
      <3> QED
        BY <2>5, <3>1, <3>2, <3>3
    <2>9. ASSUME NEW x \in Seq(Nat), input' = Append(input, x)
          PROVE  items = old \o <<x>> /\ Len(items) = c + 1 /\ items[c + 1] = x
      <3>1. items = delivered \o Append(input, x)
        BY <1>5, <2>9
      <3>2. /\ delivered \o Append(input, x) = (delivered \o input) \o <<x>>
            /\ Len(delivered \o Append(input, x)) = Len(delivered \o input) + 1
            /\ (delivered \o Append(input, x))[Len(delivered \o input) + 1] = x
        BY <2>4, ItemsGrow
      <3> QED
        BY <2>2, <2>5, <3>1, <3>2
    <2>10. ErrorItem \in Seq(Nat) /\ <<>> \in Seq(Seq(Nat)) /\ \A x \in Seq(Nat) : <<x>> \in Seq(Seq(Nat))
      BY DEF ErrorItem
    <2>11. CASE ~WellFormed(n + 1)'
      <3>1. input' = Append(input, ErrorItem)
        BY <1>5, <2>11
      <3>2. /\ items = old \o <<ErrorItem>> /\ Len(items) = c + 1 /\ items[c + 1] = ErrorItem
        BY <2>9, <2>10, <3>1
      <3> QED
        BY <2>1, <2>6, <2>8, <2>10, <2>11, <3>2
    <2>12. CASE WellFormed(n + 1)' /\ Complete(n + 1)'
      <3>1. input' = Append(input, m)
        BY <1>5, <2>12
      <3>2. /\ items = old \o <<m>> /\ Len(items) = c + 1 /\ items[c + 1] = m
        BY <2>9, <3>1
      <3>3. \A i \in Ends(n) : IsMessage(items[Cardinality(Ends(i))'], Parts(i)')
        BY <2>8, <2>10, <3>2
      <3>4. IsMessage(items[Cardinality(Ends(n + 1))'], Parts(n + 1)')
        BY <2>6, <2>12, <3>2
      <3>5. ~broken /\ Len(items) = Cardinality(Ends(n + 1))' + 0
        BY <2>1, <2>6, <2>12, <3>2
      <3>6. \A i \in Ends(n + 1)' : i \in Ends(n) \/ i = n + 1
        BY <2>6, <2>12
      <3> QED
        BY <3>3, <3>4, <3>5, <3>6, Zenon
    <2>13. CASE WellFormed(n + 1)' /\ ~Complete(n + 1)'
      <3>1. items = old \o <<>> /\ items = old
        BY <1>5, <2>2, <2>4, <2>13, ConcatEmptySeq
      <3>2. ~broken /\ Len(items) = Cardinality(Ends(n + 1))' + 0
        BY <2>1, <2>5, <2>6, <2>13, <3>1
      <3>3. \A i \in Ends(n) : IsMessage(items[Cardinality(Ends(i))'], Parts(i)')
        BY <2>8, <2>10, <3>1
      <3>4. Ends(n + 1)' = Ends(n)
        BY <2>6, <2>13
      <3> QED
        BY <3>2, <3>3, <3>4, Zenon
    <2> QED
      BY <2>11, <2>12, <2>13
  <1>6. ErrorItem' = ErrorItem
    BY DEF ErrorItem
  <1> QED
    BY <1>1, <1>4, <1>5, <1>6 DEF InputIsFaithful

\* After a frame that does not end the pump it still hears right.
LEMMA HearingKept ==
  ASSUME TypeOK, FragmentsMatch, Hearing, result = "none", NEW f \in Frames,
         wire' = Append(wire, f), NEW n \in Nat, n = Len(wire), WellFormed(n + 1)',
         DecodeError(f) = "none",
         f.op \in DataOps => fragmented' = ~f.fin /\ assembly' \in {None, Joined(f, n + 1)},
         f.op \notin DataOps => fragmented' = fragmented /\ assembly' = assembly
  PROVE  Hearing'
  <1>1. DOMAIN wire' = 1..n+1 /\ Len(wire') = n + 1 /\ DOMAIN wire = 1..n
    BY FramesStay
  <1>2. \A i \in DOMAIN wire' : WellFormed(i)'
    <2>1. \A i \in 1..n : WellFormed(i)'
      BY <1>1, JudgedOnce DEF Hearing
    <2>2. \A i \in 1..n+1 : i \in 1..n \/ i = n + 1
      OBVIOUS
    <2> QED
      BY <1>1, <2>1, <2>2
  <1>3. fragmented' <=> OpenBefore(n + 2)'
    <2>1. fragmented <=> OpenBefore(n + 1)
      BY DEF Hearing
    <2>2. OpenBefore(n + 2)' <=> IF f.op \in Starting THEN ~f.fin
                                 ELSE OpenBefore(n + 1) /\ (f.op = "continuation" => ~f.fin)
      BY OpenNext
    <2>3. CASE f.op \in DataOps
      <3>1. f.op \in Starting \/ (f.op = "continuation" /\ fragmented)
        BY <2>3, MayJoin
      <3> QED
        BY <2>1, <2>2, <2>3, <3>1 DEF Starting
    <2>4. CASE f.op \notin DataOps
      BY <2>1, <2>2, <2>4 DEF DataOps, Starting
    <2> QED
      BY <2>3, <2>4
  <1>4. ASSUME assembly' # None
        PROVE  Holds(assembly, Parts(n + 1))'
    <2>1. PICK S : S = Parts(n + 1)'
      OBVIOUS
    <2>2. PICK a : a = assembly'
      OBVIOUS
    <2>3. CASE f.op \in DataOps
      <3>1. a = Joined(f, n + 1)
        BY <1>4, <2>2, <2>3
      <3>2. Holds(a, S)'
        BY <2>1, <2>3, <3>1, JoinHolds
      <3> QED
        BY <2>1, <2>2, <3>2 DEF Holds
    <2>4. CASE f.op \notin DataOps
      <3>1. S = Parts(n)
        BY <2>1, <2>4, PartsGrow DEF DataOps, Starting
      <3>2. a = assembly /\ a # None
        BY <1>4, <2>2, <2>4
      <3>3. S \in SUBSET (1..Len(wire)) /\ Holds(a, S)
        BY <3>1, <3>2 DEF Parts, Hearing
      <3>4. Holds(a, S)'
        BY <3>3, TextStays
      <3> QED
        BY <2>1, <2>2, <3>4 DEF Holds
    <2> QED
      BY <2>3, <2>4
  <1>5. Len(wire') + 1 = n + 2
    BY <1>1
  <1> QED
    BY <1>1, <1>2, <1>3, <1>4, <1>5 DEF Hearing

\* Assembly::accept in terms of the joined assembly.
LEMMA AcceptJoins ==
  ASSUME NEW f \in Frames, NEW i \in Nat
  PROVE  LET accepted == Accept(f, i) IN
         accepted.error = "none" =>
             /\ accepted.held = IF f.fin THEN None ELSE Joined(f, i)
             /\ accepted.messages = IF f.fin THEN <<Joined(f, i).parts>> ELSE <<>>
  BY DEF Accept, Joined

\* The second half of a turn, with a frame.
LEMMA ReceiveIsHeard ==
  ASSUME IInv, Heard, NEW f \in Frames, Receive(f)
  PROVE  Heard'
  <1>1. TypeOK /\ FragmentsMatch /\ Phases
    BY DEF IInv
  <1>2. Taken(f)
    BY DEF Receive, Taken
  <1>3. result = "none" /\ Hearing /\ InputIsFaithful
    BY <1>1, <1>2 DEF Phases, Ended, Taken, MayReceive, Heard
  <1>4. PICK n \in Nat : n = Len(wire)
    BY <1>1 DEF TypeOK
  <1>5. /\ wire' = Append(wire, f) /\ delivered' = delivered /\ reader' = reader
        /\ reader => inputOpen' /\ Room(input)
    BY <1>1, <1>2 DEF Taken, MayReceive, Phases
  <1>6. \A i \in DOMAIN wire : WellFormed(i)
    BY <1>3 DEF Hearing
  <1>7. /\ DecodeError(f) # "none" => ~WellFormed(n + 1)'
        /\ DecodeError(f) = "none" /\ f.op \notin DataOps => WellFormed(n + 1)'
        /\ DecodeError(f) = "none" /\ f.op \in DataOps
             => (WellFormed(n + 1)' <=> Accept(f, n + 1).error = "none")
    BY <1>1, <1>3, <1>4, <1>5, JudgedRight
  <1>8. wire'[n + 1] = f
    BY <1>1, <1>4, <1>5, FramesStay
  <1>9. Complete(n + 1)' <=> f.op \in DataOps /\ f.fin
    BY <1>8 DEF Complete
  <1>10. ASSUME ~WellFormed(n + 1)', Report, NEW r \in {"protocol", "invalid", "size"}, End(r)
         PROVE  Heard'
    <2>1. pc' = "closing" /\ result' # "none" /\ pc' \in Ended
      BY <1>10 DEF End, Ended
    <2>2. reader => input' = Append(input, ErrorItem)
      BY <1>5, <1>10 DEF Report
    <2>3. <<>> \in Seq(Nat)
      OBVIOUS
    <2>4. InputIsFaithful'
      BY <1>1, <1>3, <1>4, <1>5, <1>6, <1>10, <2>1, <2>2, <2>3, NewFrame
    <2> QED
      BY <2>1, <2>4 DEF Heard
  <1>11. ASSUME WellFormed(n + 1)', ~Complete(n + 1)', reader => input' = input
         PROVE  InputIsFaithful'
    <2>1. <<>> \in Seq(Nat)
      OBVIOUS
    <2> QED
      BY <1>1, <1>3, <1>4, <1>5, <1>6, <1>11, <2>1, NewFrame
  <1>12. CASE DecodeError(f) # "none"
    <2>1. PICK r \in {"protocol", "invalid", "size"} : r = DecodeError(f)
      BY <1>12 DEF DecodeError
    <2>2. Report /\ End(r)
      BY <1>12, <2>1 DEF Receive
    <2> QED
      BY <1>7, <1>10, <1>12, <2>2
  <1>13. CASE DecodeError(f) = "none" /\ f.op = "close"
    <2>1. End("peer_close") /\ input' = input
      BY <1>13 DEF Receive
    <2>2. f.op \notin DataOps
      BY <1>13 DEF DataOps
    <2>3. InputIsFaithful'
      BY <1>7, <1>9, <1>11, <1>13, <2>1, <2>2
    <2> QED
      BY <2>1, <2>3 DEF Heard, End
  <1>14. CASE DecodeError(f) = "none" /\ f.op \in {"ping", "pong"}
    <2>1. NextTurn(TRUE) /\ UNCHANGED <<input, fragmented, assembly, armed>>
      BY <1>14 DEF Receive
    <2>2. f.op \notin DataOps
      BY <1>14 DEF DataOps
    <2>3. InputIsFaithful'
      BY <1>7, <1>9, <1>11, <1>14, <2>1, <2>2
    <2>4. Hearing'
      BY <1>1, <1>3, <1>4, <1>5, <1>7, <1>14, <2>1, <2>2, HearingKept
    <2> QED
      BY <2>3, <2>4 DEF Heard
  <1>15. CASE DecodeError(f) = "none" /\ f.op \in DataOps
    <2>1. PICK accepted : accepted = Accept(f, n + 1)
      OBVIOUS
    <2>2. /\ fragmented' = Fragmented(f) /\ assembly' = accepted.held
          /\ IF accepted.error # "none"
               THEN Report /\ End(accepted.error)
               ELSE /\ input' = IF inputOpen' THEN input \o accepted.messages ELSE input
                    /\ NextTurn(TRUE)
      BY <1>4, <1>15, <2>1 DEF Receive, DataOps
    <2>3. accepted.error \in {"none", "size", "invalid"} /\ n + 1 \in Nat
      BY <2>1 DEF Accept
    <2>4. CASE accepted.error # "none"
      BY <1>7, <1>10, <1>15, <2>1, <2>2, <2>3, <2>4
    <2>5. CASE accepted.error = "none"
      <3>1. WellFormed(n + 1)'
        BY <1>7, <1>15, <2>1, <2>5
      <3>2. PICK h : h = Joined(f, n + 1)
        OBVIOUS
      <3>3. /\ accepted.held = IF f.fin THEN None ELSE h
            /\ accepted.messages = IF f.fin THEN <<h.parts>> ELSE <<>>
        BY <2>1, <2>3, <2>5, <3>2, AcceptJoins
      <3>4. fragmented' = ~f.fin
        BY <1>15, <2>2 DEF Fragmented, DataOps
      <3>5. Hearing'
        BY <1>1, <1>3, <1>4, <1>5, <1>15, <2>2, <3>1, <3>2, <3>3, <3>4, HearingKept
      <3>6. InputIsFaithful'
        <4>1. CASE f.fin
          <5>1. PICK S : S = Parts(n + 1)'
            OBVIOUS
          <5>2. IsMessage(h.parts, S)
            <6>1. Holds(h, S)'
              BY <1>1, <1>3, <1>4, <1>5, <1>15, <3>2, <5>1, JoinHolds
            <6> QED
              BY <6>1 DEF Holds, IsMessage
          <5>3. PICK m \in Seq(Nat) : m = h.parts
            <6>1. accepted.messages \in Seq(Seq(Nat))
              BY <1>1, <1>3, <1>15, <2>1, <2>3, AcceptHolds DEF DataOps
            <6>2. <<h.parts>> \in Seq(Seq(Nat)) /\ <<h.parts>>[1] = h.parts /\ Len(<<h.parts>>) = 1
              BY <3>3, <4>1, <6>1
            <6>3. h.parts \in Seq(Nat)
              BY <6>2
            <6> QED
              BY <6>3
          <5>4. reader => input' = Append(input, m)
            <6>1. reader => input' = input \o <<m>>
              BY <1>5, <2>2, <2>5, <3>3, <4>1, <5>3
            <6>2. input \o <<m>> = Append(input, m)
              BY <1>1, <5>3, AppendIsConcat DEF TypeOK
            <6> QED
              BY <6>1, <6>2
          <5>5. IsMessage(m, Parts(n + 1)')
            BY <5>1, <5>2, <5>3
          <5>6. Complete(n + 1)'
            BY <1>9, <1>15, <4>1
          <5> QED
            BY <1>1, <1>3, <1>4, <1>5, <1>6, <3>1, <5>3, <5>4, <5>5, <5>6, NewFrame
        <4>2. CASE ~f.fin
          <5>1. reader => input' = input
            BY <1>1, <1>5, <2>2, <2>5, <3>3, <4>2, ConcatEmptySeq DEF TypeOK
          <5> QED
            BY <1>9, <1>11, <3>1, <4>2, <5>1
        <4> QED
          BY <4>1, <4>2
      <3> QED
        BY <3>5, <3>6 DEF Heard
    <2> QED
      BY <2>4, <2>5
  <1> QED
    <2>1. f.op \in {"text", "binary", "continuation", "ping", "pong", "close"}
      BY FramesAssumption
    <2> QED
      BY <1>12, <1>13, <1>14, <1>15, <2>1 DEF DataOps

\* Any other step keeps the frames, and hands the application nothing new.
LEMMA QuietIsHeard ==
  ASSUME TypeOK, Heard, UNCHANGED <<wire, fragmented, assembly>>,
         result # "none" => result' # "none",
         pc \in Ended => pc' \in Ended,
         reader' => reader /\ delivered' \o input' = delivered \o input
  PROVE  Heard'
  <1>1. UNCHANGED <<wire, fragmented, assembly>>
    OBVIOUS
  <1>2. \A S : Size(S)' = Size(S)
    BY <1>1, Zenon DEF Size
  <1>3. \A k, S : (InPlace(k, S)' <=> InPlace(k, S)) /\ (Misplaced(k, S)' <=> Misplaced(k, S))
    BY <1>1 DEF InPlace, Misplaced
  <1>4. \A S : IsText(S)' <=> IsText(S)
    BY <1>3, Zenon DEF IsText
  <1>5. \A a, S : TextIs(a, S)' <=> TextIs(a, S)
    BY <1>1, <1>3, <1>4, Zenon DEF TextIs
  <1>6. \A a, S : Holds(a, S)' <=> Holds(a, S)
    BY <1>1, <1>2, <1>5, Zenon DEF Holds, IsMessage
  <1>7. \A i : Parts(i)' = Parts(i) /\ (OpenBefore(i)' <=> OpenBefore(i))
    BY <1>1, Zenon DEF Parts, OpenBefore
  <1>8. \A i : (WellFormed(i)' <=> WellFormed(i)) /\ (Complete(i)' <=> Complete(i))
    BY <1>1, <1>2, <1>4, <1>7 DEF WellFormed, Complete
  <1>9. \A i : Ends(i)' = Ends(i)
    BY <1>8 DEF Ends
  <1>10. InputIsFaithful'
    BY <1>1, <1>7, <1>8, <1>9 DEF Heard, InputIsFaithful, Ended, ErrorItem, IsMessage
  <1>11. result' = "none" => Hearing'
    BY <1>1, <1>6, <1>7, <1>8 DEF Heard, Hearing
  <1> QED
    BY <1>10, <1>11 DEF Heard

\* Every step keeps what is heard.
LEMMA StepIsHeard ==
  ASSUME IInv, Heard, [Next]_vars
  PROVE  Heard'
  <1>1. TypeOK /\ Phases
    BY DEF IInv
  <1>2. ASSUME UNCHANGED <<codecVars, inputVars>>, UNCHANGED result,
               pc \in Ended => pc' \in Ended
        PROVE  Heard'
    BY <1>1, <1>2, QuietIsHeard DEF codecVars, inputVars
  <1>3. CASE Out
    <2>1. pc \notin Ended /\ result = "none" /\ UNCHANGED <<codecVars, inputVars>>
      BY <1>1, <1>3 DEF Out, Ended, Phases
    <2> QED
      BY <1>1, <2>1, QuietIsHeard DEF codecVars, inputVars
  <1>4. CASE InputBlocked \/ InputFull
    BY <1>2, <1>4 DEF InputBlocked, InputFull, NextTurn, Ended
  <1>5. CASE ReceiveNothing
    <2>1. pc \notin Ended /\ UNCHANGED <<codecVars, input, reader, delivered, result>>
      BY <1>5 DEF ReceiveNothing, MayReceive, NextTurn, Ended
    <2> QED
      BY <1>1, <2>1, QuietIsHeard DEF codecVars
  <1>6. CASE \E f \in Frames : Receive(f)
    BY <1>6, ReceiveIsHeard
  <1>7. CASE Poll \/ SendClose \/ Drained
    BY <1>2, <1>7 DEF Poll, SendClose, Drained, Ended
  <1>8. CASE AppRead
    <2>1. UNCHANGED <<codecVars, reader, pc, result>>
      BY <1>8 DEF AppRead
    <2>2. /\ input \in Seq(Seq(Nat)) /\ input # <<>> /\ delivered \in Seq(Seq(Nat))
          /\ input' = Tail(input) /\ delivered' = Append(delivered, Head(input))
      BY <1>1, <1>8 DEF AppRead, TypeOK
    <2>3. delivered' \o input' = delivered \o input
      <3>1. /\ Head(input) \in Seq(Nat) /\ Tail(input) \in Seq(Seq(Nat))
            /\ <<Head(input)>> \in Seq(Seq(Nat)) /\ input = <<Head(input)>> \o Tail(input)
        BY <2>2
      <3>2. delivered' = delivered \o <<Head(input)>>
        BY <2>2, <3>1, AppendIsConcat
      <3>3. (delivered \o <<Head(input)>>) \o Tail(input) = delivered \o (<<Head(input)>> \o Tail(input))
        BY <2>2, <3>1, ConcatAssociative, SMTT(30)
      <3> QED
        BY <2>2, <3>1, <3>2, <3>3
    <2> QED
      BY <1>1, <2>1, <2>3, QuietIsHeard DEF codecVars
  <1>9. CASE AppDropReader \/ AppCancelled
    <2>1. UNCHANGED <<codecVars, pc, result>> /\ ~reader'
      BY <1>9 DEF AppDropReader, AppCancelled, taskVars
    <2> QED
      BY <1>1, <2>1, QuietIsHeard DEF codecVars
  <1>10. CASE AppSend \/ AppFinish \/ PeerSend \/ PeerRead \/ PeerGone \/ Notice
    BY <1>2, <1>10 DEF AppSend, AppFinish, PeerSend, PeerRead, PeerGone, Notice, taskVars
  <1>11. CASE UNCHANGED vars
    BY <1>2, <1>11 DEF vars, taskVars
  <1> QED
    BY <1>3, <1>4, <1>5, <1>6, <1>7, <1>8, <1>9, <1>10, <1>11 DEF Next, PumpStep

-----------------------------------------------------------------------------
(* The theorems.                                                           *)

\* The invariant holds at first and is kept by every step of the pump, the
\* application, the peer and the transport.
THEOREM Invariance == Spec => []IInv
  <1>1. Init => IInv
    <2> SUFFICES ASSUME Init PROVE IInv
      OBVIOUS
    <2>1. TypeOK
      <3>1. /\ wire \in Seq(Frames) /\ input \in Seq(Seq(Nat)) /\ delivered \in Seq(Seq(Nat))
            /\ output \in Seq(1..MaxOutput) /\ encoded \in Seq(Close..MaxOutput)
            /\ Len(input) = 0 /\ Len(output) = 0 /\ Len(encoded) = 0
        BY DEF Init
      <3>2. /\ pending \in 0..MaxFrames /\ sent \in 0..MaxOutput /\ flushed \in 0..Len(encoded)
            /\ Len(encoded) - flushed <= HighWater + 1 /\ turns \in 0..Budget-1
            /\ Len(input) <= Buffer + 1 /\ Len(output) <= Buffer + 1
        BY <3>1, LimitsAssumption, BoundsAssumption DEF Init
      <3>3. /\ noticed \in BOOLEAN /\ paused \in BOOLEAN /\ fragmented \in BOOLEAN
            /\ inputOpen \in BOOLEAN /\ reader \in BOOLEAN /\ writer \in BOOLEAN
            /\ blocked \in BOOLEAN /\ progress \in BOOLEAN /\ sched \in BOOLEAN
            /\ cancelled \in BOOLEAN
        BY DEF Init
      <3>4. /\ peer = "open" /\ assembly = None /\ pc = "out" /\ result = "none" /\ armed = {}
        BY DEF Init
      <3> QED
        BY <3>1, <3>2, <3>3, <3>4 DEF TypeOK
    <2>2. Queued /\ Numbered
      <3>1. Len(encoded) = 0 /\ Len(output) = 0 /\ sent = 0 /\ DOMAIN encoded = {}
            /\ DOMAIN output = {}
        BY DEF Init
      <3>2. Applied(Len(encoded)) = 0
        BY <3>1, AppliedNone
      <3> QED
        BY <3>1, <3>2 DEF Queued, Numbered
    <2>3. Phases /\ FragmentsMatch /\ Watermark /\ Closes /\ Finished
      BY LimitsAssumption DEF Init, Phases, FragmentsMatch, Watermark, Closes, Finished
    <2>4. Disconnects /\ Outputs /\ Inputs
      BY DEF Init, Disconnects, Outputs, Inputs
    <2> QED
      BY <2>1, <2>2, <2>3, <2>4 DEF IInv
  <1>2. IInv /\ [Next]_vars => IInv'
    <2> SUFFICES ASSUME IInv, [Next]_vars PROVE IInv'
      OBVIOUS
    <2>1. CASE PumpStep
      BY <2>1, OutKeeps, InputBlockedKeeps, InputFullKeeps, ReceiveNothingKeeps, ReceiveKeeps,
         PollKeeps, SendCloseKeeps, DrainedKeeps DEF PumpStep
    <2>2. CASE AppRead \/ AppDropReader \/ AppSend \/ AppFinish \/ AppCancelled
      BY <2>2, AppReadKeeps, AppDropReaderKeeps, AppSendKeeps, AppFinishKeeps, AppCancelledKeeps
    <2>3. CASE PeerSend \/ PeerRead \/ PeerGone \/ Notice
      BY <2>3, PeerSendKeeps, PeerReadKeeps, PeerGoneKeeps, NoticeKeeps
    <2>4. CASE UNCHANGED vars
      <3>1. UNCHANGED <<wireVars, codecVars, inputVars, outputVars, writeVars, taskVars>>
        BY <2>4 DEF vars
      <3>2. TypeOK'
        BY <3>1 DEF IInv, TypeOK, wireVars, codecVars, inputVars, outputVars, writeVars, taskVars
      <3>3. Queued' /\ Numbered'
        BY <3>1, OutputKept DEF IInv, outputVars, writeVars
      <3>4. Phases' /\ FragmentsMatch' /\ Watermark' /\ Closes' /\ Finished'
        BY <3>1 DEF IInv, Phases, FragmentsMatch, Watermark, Closes, Finished, codecVars,
           inputVars, outputVars, writeVars, taskVars
      <3>5. Disconnects' /\ Outputs' /\ Inputs'
        BY <3>1 DEF IInv, Disconnects, Outputs, Inputs, Room, wireVars, inputVars, outputVars,
           writeVars, taskVars
      <3> QED
        BY <3>2, <3>3, <3>4, <3>5 DEF IInv
    <2> QED
      BY <2>1, <2>2, <2>3, <2>4 DEF Next
  <1> QED
    BY <1>1, <1>2, PTL DEF Spec

\* The types, and with them the bounds the code relies on: a channel holds its
\* buffer and one message more, the write buffer its watermark and the Close,
\* an assembled message never more than payload_limit.
THEOREM TypeCorrect == Spec => []TypeOK
  <1>1. IInv => TypeOK
    BY DEF IInv
  <1> QED
    BY <1>1, Invariance, PTL

\* While the pump runs, CheckedCodec.fragmented says exactly whether the
\* Assembly holds a message: its two errors of its own, "fragment already
\* started" and "fragment not started", never occur.
THEOREM FragmentsAgree == Spec => []FragmentsMatch
  <1>1. IInv => FragmentsMatch
    BY DEF IInv
  <1> QED
    BY <1>1, Invariance, PTL

\* The peer is sent the application's messages in order and complete, with
\* nothing after a Close.
THEOREM OutputIsKept == Spec => []OutputIsFaithful
  <1>1. IInv => OutputIsFaithful
    <2> SUFFICES ASSUME IInv PROVE OutputIsFaithful
      OBVIOUS
    <2>1. ASSUME result = "finished"
          PROVE  Applied(Len(encoded)) = sent
      <3>1. output = <<>> /\ Len(output) = 0 /\ sent \in Int
        BY <2>1, BoundsAssumption DEF IInv, Finished, TypeOK
      <3> QED
        BY <3>1 DEF IInv, Queued
    <2> QED
      BY <2>1 DEF OutputIsFaithful, IInv, Numbered, Closes
  <1> QED
    BY <1>1, Invariance, PTL

\* The pump misses no disconnect, no output, no frame and no flush: parked and
\* not woken, it has nothing it could do.
THEOREM PumpIsWoken == Spec => []NoSleepOnWork
  <1>1. IInv => NoSleepOnWork
    BY DEF IInv, NoSleepOnWork, Disconnects, Outputs, Inputs
  <1> QED
    BY <1>1, Invariance, PTL

\* The application is handed exactly the messages of the frames, in order and
\* whole, and the refusal of the first frame that may not follow.
THEOREM InputIsKept == Spec => []InputIsFaithful
  <1>1. Init => Heard
    <2> SUFFICES ASSUME Init PROVE Heard
      OBVIOUS
    <2>1. DOMAIN wire = {} /\ Len(wire) = 0 /\ Len(delivered \o input) = 0
      BY DEF Init
    <2>2. Ends(0) = {} /\ Cardinality(Ends(0)) = 0
      <3>1. Ends(0) = {}
        BY DEF Ends
      <3> QED
        BY <3>1, FS_EmptySet
    <2>3. ~OpenBefore(Len(wire) + 1)
      BY <2>1 DEF OpenBefore
    <2>4. InputIsFaithful
      BY <2>1, <2>2 DEF InputIsFaithful
    <2>5. Hearing
      BY <2>1, <2>3 DEF Init, Hearing
    <2> QED
      BY <2>4, <2>5 DEF Heard
  <1>2. IInv /\ Heard /\ [Next]_vars => Heard'
    BY StepIsHeard
  <1>3. Heard => InputIsFaithful
    BY DEF Heard
  <1> QED
    BY <1>1, <1>2, <1>3, Invariance, PTL DEF Spec
=============================================================================
