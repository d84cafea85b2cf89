------------------------ MODULE SerialChannel_proofs ------------------------
(***************************************************************************)
(* Proofs about SerialChannel for frames of any length, any payloads and   *)
(* any number of commands, losses and times the port is opened.            *)
(***************************************************************************)
EXTENDS SerialChannel, SequenceTheorems, TLAPS

\* The port is open exactly as long as there is a worker, and the user's edits
\* wait for a port that is being closed.
WorkerInv == /\ worker # "none" <=> port = "open"
             /\ status = "Ok" <=> port = "open"
             /\ control = "join" => port = "open"
             /\ (port = "open" /\ control # "join") => ~edited

\* The parts of WorkerInv hold together in every reachable state.
LEMMA WorkerInvariant == Spec => []WorkerInv
<1>1. Init => WorkerInv
  BY DEF Init, WorkerInv
<1>2. WorkerInv /\ [Next]_vars => WorkerInv'
  <2> SUFFICES ASSUME WorkerInv, [Next]_vars PROVE WorkerInv'
    OBVIOUS
  <2> USE DEF WorkerInv, channel, thread, mailbox, outbox, sending, receiving, peer
  <2>1. CASE Open
    BY <2>1 DEF Open
  <2>2. CASE Close
    BY <2>2 DEF Close, StopWorker
  <2>3. CASE ApplyConfig
    BY <2>3 DEF ApplyConfig, StopWorker
  <2>4. CASE SendCommand
    BY <2>4 DEF SendCommand
  <2>5. CASE ControlStep
    BY <2>5 DEF ControlStep, CloseJoins, RequestSend
  <2>6. CASE WorkerStep
    BY <2>6 DEF WorkerStep, WorkerChecks, WorkerReceives, WorkerTakesRequest, WorkerEncodes,
                WorkerWrites
  <2>7. CASE \/ \E p \in Payloads : PeerSends(p)
             \/ ByteArrives \/ ByteIsLost
    BY <2>7 DEF PeerSends, ByteArrives, ByteIsLost
  <2>8. CASE UNCHANGED vars
    BY <2>8 DEF vars
  <2>9. QED
    BY <2>1, <2>2, <2>3, <2>4, <2>5, <2>6, <2>7, <2>8 DEF Next
<1>3. QED
  BY <1>1, <1>2, PTL DEF Spec

-----------------------------------------------------------------------------
\* The newest command is asked for in the worker: by the flag, by a round that
\* has taken the flag, or by a frame that holds it.
Asked == \/ sendRequested
         \/ worker = "encode"
         \/ worker = "write" /\ frame = pending

\* How often the newest command may still be written.  A call that has stored it
\* and not set the flag yet and an older flag make two; each alone makes one.
CommandInv ==
    /\ commands \in 0..MaxCommands /\ pending = commands /\ mark \in 0..commands
    /\ control = "request" \/ Asked => pending >= 1
    /\ SendMutexHeld => ~sendRequested
    /\ worker = "write" => frame \in mark..pending /\ frame >= 1
    /\ written \in Seq(1..MaxCommands) /\ CommandsInOrder
    /\ \A i \in DOMAIN written : written[i] <= pending
    /\ worker = "write" => \A i \in DOMAIN written : /\ written[i] <= frame
                                                     /\ i < Len(written) => written[i] < frame
    /\ (control = "request" \/ Asked) =>
           \A i \in DOMAIN written : i < Len(written) => written[i] < pending
    /\ (control = "request" /\ Asked) => \A i \in DOMAIN written : written[i] < pending

\* The parts of CommandInv hold together in every reachable state.
LEMMA CommandInvariant == Spec => []CommandInv
<1>1. Init => CommandInv
  <2> SUFFICES ASSUME Init PROVE CommandInv
    OBVIOUS
  <2>1. written \in Seq(1..MaxCommands) /\ DOMAIN written = {}
    BY EmptySeq DEF Init
  <2>2. 0 \in 0..MaxCommands
    BY SerialAssumption
  <2>3. QED
    BY <2>1, <2>2 DEF Init, CommandInv, CommandsInOrder, Asked, SendMutexHeld
<1>2. WorkerInv /\ CommandInv /\ [Next]_vars => CommandInv'
  <2> SUFFICES ASSUME WorkerInv, CommandInv, [Next]_vars PROVE CommandInv'
    OBVIOUS
  <2> USE SerialAssumption DEF CommandInv, channel, thread, mailbox, outbox, sending, receiving,
          peer, SendMutexHeld, Asked, CommandsInOrder
  <2>1. CASE Open
    BY <2>1 DEF Open, WorkerInv
  <2>2. CASE Close
    BY <2>2 DEF Close, StopWorker
  <2>3. CASE ApplyConfig
    BY <2>3 DEF ApplyConfig, StopWorker
  <2>4. CASE SendCommand
    BY <2>4 DEF SendCommand
  <2>5. CASE CloseJoins
    BY <2>5 DEF CloseJoins
  <2>6. CASE RequestSend
    BY <2>6 DEF RequestSend
  <2>7. CASE WorkerChecks \/ WorkerReceives
    BY <2>7 DEF WorkerChecks, WorkerReceives
  <2>8. CASE WorkerTakesRequest
    BY <2>8 DEF WorkerTakesRequest
  <2>9. CASE WorkerEncodes
    BY <2>9 DEF WorkerEncodes
  <2>10. CASE WorkerWrites
    <3>1. /\ worker = "write" /\ worker' = "check"
          /\ written' = Append(written, frame)
          /\ UNCHANGED <<commands, pending, mark, control, sendRequested>>
      BY <2>10 DEF WorkerWrites
    <3>2. frame \in 1..MaxCommands
      BY <3>1
    <3>3. /\ written' \in Seq(1..MaxCommands) /\ Len(written') = Len(written) + 1
          /\ DOMAIN written' = 1..(Len(written) + 1)
          /\ \A i \in DOMAIN written : written'[i] = written[i]
          /\ written'[Len(written) + 1] = frame
      BY <3>1, <3>2, AppendProperties
    <3>4. DOMAIN written = 1..Len(written) /\ Len(written) \in Nat
      BY LenProperties
    <3>5. CommandsInOrder'
      BY <3>1, <3>2, <3>3, <3>4
    <3>6. control = "request" => \A i \in DOMAIN written : written[i] < pending
      <4>1. CASE frame = pending
        BY <3>1, <4>1
      <4>2. CASE frame # pending
        BY <3>1, <3>2, <4>2
      <4>3. QED
        BY <4>1, <4>2
    <3>7. ~sendRequested
      BY <3>1
    <3>8. \A i \in DOMAIN written' : i < Len(written') => (i \in DOMAIN written /\ written'[i] = written[i])
      BY <3>3, <3>4
    <3>9. \A i \in DOMAIN written' : written'[i] <= pending'
      BY <3>1, <3>2, <3>3, <3>4
    <3>10. QED
      BY <3>1, <3>3, <3>5, <3>6, <3>7, <3>8, <3>9
  <2>11. CASE \/ \E p \in Payloads : PeerSends(p)
              \/ ByteArrives \/ ByteIsLost
    BY <2>11 DEF PeerSends, ByteArrives, ByteIsLost
  <2>12. CASE UNCHANGED vars
    BY <2>12 DEF vars
  <2>13. QED
    BY <2>1, <2>2, <2>3, <2>4, <2>5, <2>6, <2>7, <2>8, <2>9, <2>10, <2>11, <2>12
    DEF Next, ControlStep, WorkerStep
<1>3. QED
  BY <1>1, <1>2, WorkerInvariant, PTL DEF Spec

\* Commands are written in the order they were given, none more than twice.
THEOREM CommandsStayInOrder == Spec => []CommandsInOrder
<1>1. CommandInv => CommandsInOrder
  BY DEF CommandInv
<1>2. QED
  BY <1>1, CommandInvariant, PTL

\* Of the commands given before the port was opened at most the newest is
\* written, and the flag that caused it is gone.
THEOREM StaleCommandOnce == Spec => StaleRequestOnce
<1> DEFINE A == (written' # written /\ Last(written') <= mark) =>
                    /\ Last(written') = mark
                    /\ sendRequested' => pending > mark
<1>1. CommandInv /\ [Next]_vars => [A]_vars
  <2> SUFFICES ASSUME CommandInv, [Next]_vars, written' # written PROVE A
    OBVIOUS
  <2> USE DEF channel, thread, mailbox, outbox, sending, receiving, peer
  <2>1. WorkerWrites
    BY DEF Next, Open, Close, StopWorker, ApplyConfig, SendCommand, ControlStep, CloseJoins,
           RequestSend, WorkerStep, WorkerChecks, WorkerReceives, WorkerTakesRequest,
           WorkerEncodes, PeerSends, ByteArrives, ByteIsLost, vars
  <2>2. /\ worker = "write" /\ written' = Append(written, frame)
        /\ sendRequested' = sendRequested
    BY <2>1 DEF WorkerWrites
  <2>3. /\ written \in Seq(1..MaxCommands) /\ frame >= mark /\ frame \in 1..MaxCommands
        /\ ~sendRequested /\ mark \in Nat /\ frame \in Nat
    BY <2>2, SerialAssumption DEF CommandInv, SendMutexHeld
  <2>4. Last(written') = frame
    BY <2>2, <2>3, AppendProperties DEF Last
  <2>5. QED
    BY <2>2, <2>3, <2>4
<1>2. QED
  BY <1>1, CommandInvariant, PTL DEF Spec, StaleRequestOnce

-----------------------------------------------------------------------------
(* Types                                                                    *)

\* A frame is its payload, a head byte and a tail byte.
LEMMA FrameLength == FrameLen \in Nat /\ FrameLen >= 2
  BY SerialAssumption DEF FrameLen

\* What a frame of the peer is, byte by byte.
LEMMA FrameShape ==
    ASSUME NEW p \in Payloads
    PROVE  /\ FrameOf(p) \in Seq(Bytes) /\ Len(FrameOf(p)) = FrameLen
           /\ FrameOf(p)[1] = HEADER /\ FrameOf(p)[FrameLen] = TAIL
           /\ \A j \in 2..(FrameLen - 1) : j - 1 \in DOMAIN p /\ FrameOf(p)[j] = p[j - 1]
<1> DEFINE b == <<HEADER>> \o p \o <<TAIL>>
<1>1. p \in Seq(Bytes) /\ Len(p) = PayloadLen /\ HEADER \in Bytes /\ TAIL \in Bytes
  BY SerialAssumption DEF Bytes
<1>2. /\ <<HEADER>> \o p \in Seq(Bytes) /\ Len(<<HEADER>> \o p) = PayloadLen + 1
      /\ \A j \in 2..(PayloadLen + 1) : (<<HEADER>> \o p)[j] = p[j - 1]
  BY <1>1, SerialAssumption
<1>3. /\ b \in Seq(Bytes) /\ Len(b) = FrameLen
      /\ \A j \in 2..(FrameLen - 1) : b[j] = p[j - 1]
  BY <1>1, <1>2, SerialAssumption, ConcatProperties DEF FrameLen
<1> HIDE DEF b
<1>4. FrameOf(p) = [b EXCEPT ![1] = HEADER, ![FrameLen] = TAIL]
  <2>1. b # <<>>
    BY <1>3, FrameLength
  <2>2. FrameOf(p) = Wrap(b)
    BY DEF FrameOf, b
  <2>3. QED
    BY <1>3, <2>1, <2>2 DEF Wrap
<1>5. b \in [1..FrameLen -> Bytes]
  BY <1>3
<1>6. /\ FrameOf(p) \in [1..FrameLen -> Bytes]
      /\ FrameOf(p)[1] = HEADER /\ FrameOf(p)[FrameLen] = TAIL
      /\ \A j \in 2..(FrameLen - 1) : FrameOf(p)[j] = b[j]
  BY <1>1, <1>4, <1>5, FrameLength
<1>7. FrameOf(p) \in Seq(Bytes) /\ Len(FrameOf(p)) = FrameLen
  BY <1>6, FrameLength, SeqDef
<1>8. \A j \in 2..(FrameLen - 1) : j - 1 \in DOMAIN p
  BY <1>1, SerialAssumption DEF FrameLen
<1>9. QED
  BY <1>3, <1>6, <1>7, <1>8

\* Taking a block off the buffer leaves bytes, however many have come.
LEMMA ReceiveTypes ==
    ASSUME TypeOK, WorkerReceives
    PROVE  taken' \in Seq(Blocks) /\ buffer' \in Seq(Bytes)
<1>1. Len(buffer) \in Nat /\ FrameLen \in Nat /\ Len(buffer) >= FrameLen
  BY SerialAssumption DEF TypeOK, WorkerReceives, FrameLen
<1>2. SubSeq(buffer, 1, FrameLen) \in Seq(Bytes)
  BY <1>1, SubSeqProperties DEF TypeOK
<1>3. Outcome(SubSeq(buffer, 1, FrameLen)) \in Outcomes
  BY DEF Outcome, Outcomes
<1>4. [block |-> SubSeq(buffer, 1, FrameLen), as |-> Outcome(SubSeq(buffer, 1, FrameLen))] \in Blocks
  BY <1>2, <1>3 DEF Blocks
<1>5. taken \in Seq(Blocks)
  BY DEF TypeOK
<1>6. taken' \in Seq(Blocks)
  BY <1>4, <1>5, AppendProperties DEF WorkerReceives
<1>7. buffer' \in Seq(Bytes)
  BY <1>1, SubSeqProperties DEF TypeOK, WorkerReceives
<1>8. QED
  BY <1>6, <1>7

\* Every reachable state has its type.
LEMMA TypeCorrect == Spec => []TypeOK
<1>1. Init => TypeOK
  <2> SUFFICES ASSUME Init PROVE TypeOK
    OBVIOUS
  <2>1. 0 \in 0..MaxCommands /\ 0 \in 0..MaxOpens /\ 0 \in 0..MaxLosses /\ 0 \in 0..0
    BY SerialAssumption
  <2>2. /\ pending \in 0..MaxCommands /\ frame \in 0..MaxCommands /\ commands \in 0..MaxCommands
        /\ opens \in 0..MaxOpens /\ mark \in 0..commands /\ losses \in 0..MaxLosses
    BY <2>1 DEF Init
  <2>3. /\ written \in Seq(1..MaxCommands) /\ sent \in Seq(Payloads) /\ taken \in Seq(Blocks)
        /\ line \in Seq(Bytes) /\ buffer \in Seq(Bytes) /\ due \in Seq(Bytes)
    BY EmptySeq DEF Init
  <2>4. /\ edited \in BOOLEAN /\ stopRequested \in BOOLEAN /\ sendRequested \in BOOLEAN
        /\ aligned \in BOOLEAN /\ port = "none" /\ status = "Init" /\ worker = "none"
        /\ control = "idle"
    BY DEF Init
  <2>5. QED
    BY <2>2, <2>3, <2>4 DEF TypeOK
<1>2. TypeOK /\ CommandInv /\ [Next]_vars => TypeOK'
  <2> SUFFICES ASSUME TypeOK, CommandInv, [Next]_vars PROVE TypeOK'
    OBVIOUS
  <2> USE DEF channel, thread, mailbox, outbox, sending, receiving, peer
  <2>1. CASE Open
    <3>1. opens \in 0..MaxOpens /\ mark \in 0..commands /\ commands \in Nat /\ MaxOpens \in Nat
      BY SerialAssumption DEF TypeOK
    <3>2. commands \in 0..commands /\ (opens < MaxOpens => opens + 1 \in 0..MaxOpens)
      BY <3>1
    <3>3. opens' \in 0..MaxOpens /\ mark' \in 0..commands'
      BY <2>1, <3>1, <3>2 DEF Open
    <3>4. due' \in Seq(Bytes)
      BY <2>1 DEF Open, TypeOK
    <3>5. /\ port' \in {"none", "failed", "open"} /\ status' \in {"Init", "Ok", "Error"}
          /\ worker' \in {"none", "check", "read", "encode", "write", "finished"}
          /\ edited' \in BOOLEAN /\ stopRequested' \in BOOLEAN /\ aligned' \in BOOLEAN
      <4>1. /\ stopRequested \in BOOLEAN /\ aligned \in BOOLEAN
            /\ worker \in {"none", "check", "read", "encode", "write", "finished"}
        BY DEF TypeOK
      <4>2. (Len(line) \in {0, FrameLen}) \in BOOLEAN
        OBVIOUS
      <4>3. QED
        BY <2>1, <4>1, <4>2, Zenon DEF Open
    <3>6. /\ UNCHANGED <<sendRequested, pending, frame, commands, written, control>>
          /\ UNCHANGED <<buffer, taken, line, sent, losses>>
      BY <2>1 DEF Open
    <3>7. QED
      BY <3>3, <3>4, <3>5, <3>6 DEF TypeOK
  <2>2. CASE Close \/ ApplyConfig
    BY <2>2 DEF Close, ApplyConfig, StopWorker, TypeOK
  <2>3. CASE CloseJoins
    BY <2>3 DEF CloseJoins, TypeOK
  <2>4. CASE SendCommand
    <3>1. pending' \in 0..MaxCommands /\ commands' \in 0..MaxCommands /\ mark \in 0..commands'
      BY <2>4, SerialAssumption DEF SendCommand, TypeOK
    <3>2. QED
      BY <2>4, <3>1 DEF SendCommand, TypeOK
  <2>5. CASE RequestSend
    BY <2>5 DEF RequestSend, TypeOK
  <2>6. CASE WorkerChecks \/ WorkerTakesRequest \/ WorkerEncodes
    BY <2>6 DEF WorkerChecks, WorkerTakesRequest, WorkerEncodes, TypeOK
  <2>7. CASE WorkerReceives
    <3>1. taken' \in Seq(Blocks) /\ buffer' \in Seq(Bytes)
      BY <2>7, ReceiveTypes
    <3>2. QED
      BY <2>7, <3>1 DEF WorkerReceives, TypeOK
  <2>8. CASE WorkerWrites
    <3>1. frame \in 1..MaxCommands
      BY <2>8, SerialAssumption DEF WorkerWrites, CommandInv
    <3>2. written' \in Seq(1..MaxCommands) /\ 0 \in 0..MaxCommands
      BY <2>8, <3>1, AppendProperties, SerialAssumption DEF WorkerWrites, TypeOK
    <3>3. QED
      BY <2>8, <3>2 DEF WorkerWrites, TypeOK
  <2>9. ASSUME NEW p \in Payloads, PeerSends(p) PROVE TypeOK'
    <3>1. FrameOf(p) \in Seq(Bytes)
      BY FrameShape
    <3>2. due' \in Seq(Bytes) /\ line' \in Seq(Bytes) /\ sent' \in Seq(Payloads)
      BY <2>9, <3>1, AppendProperties, ConcatProperties, EmptySeq DEF PeerSends, TypeOK
    <3>3. QED
      BY <2>9, <3>2 DEF PeerSends, TypeOK
  <2>10. CASE ByteArrives \/ ByteIsLost
    <3>1. Head(line) \in Bytes /\ Tail(line) \in Seq(Bytes)
      BY <2>10, HeadTailProperties DEF ByteArrives, ByteIsLost, TypeOK
    <3>2. CASE ByteArrives
      <4>1. buffer' \in Seq(Bytes)
        BY <3>1, <3>2, AppendProperties DEF ByteArrives, TypeOK
      <4>2. QED
        BY <3>1, <3>2, <4>1 DEF ByteArrives, TypeOK
    <3>3. CASE ByteIsLost
      <4>1. losses' \in 0..MaxLosses
        BY <3>3, SerialAssumption DEF ByteIsLost, TypeOK
      <4>2. QED
        BY <3>1, <3>3, <4>1 DEF ByteIsLost, TypeOK
    <3>4. QED
      BY <2>10, <3>2, <3>3
  <2>11. CASE UNCHANGED vars
    BY <2>11 DEF vars, TypeOK
  <2>12. QED
    BY <2>1, <2>2, <2>3, <2>4, <2>5, <2>6, <2>7, <2>8, <2>9, <2>10, <2>11
    DEF Next, ControlStep, WorkerStep
<1>3. QED
  BY <1>1, <1>2, CommandInvariant, PTL DEF Spec

\* The port, its worker and what the channel says of itself stay together: the
\* worker has its port as long as it can run, and the status is true.
THEOREM PortIsKept == Spec => []PortInv
<1>1. TypeOK /\ WorkerInv => PortInv
  BY DEF PortInv, WorkerInv, PortOutlivesWorker, StatusMatchesPort
<1>2. QED
  BY <1>1, TypeCorrect, WorkerInvariant, PTL

-----------------------------------------------------------------------------
(* The stream of bytes                                                      *)

\* The number of a byte among all that the peer sent: byte j of frame k.
Number(k, j) == (k - 1) * FrameLen + j

\* A multiple of a number that is less than the number, and not negative, is zero.
LEMMA ShortMultiple ==
    ASSUME NEW F \in Nat, F >= 2, NEW d \in Int, 0 <= d * F, d * F < F
    PROVE  d = 0
<1>1. CASE d >= 1
  <2>1. d * F = F + (d - 1) * F /\ (d - 1) * F \in Nat
    BY <1>1
  <2> DEFINE rest == (d - 1) * F
             all == d * F
  <2>2. all = F + rest /\ rest \in Nat /\ all < F
    BY <2>1
  <2> HIDE DEF rest, all
  <2>3. QED
    BY <2>2
<1>2. CASE d <= -1
  <2> DEFINE e == -d
             some == e * F
             all == d * F
  <2>1. e \in Nat \ {0}
    BY <1>2
  <2>2. some = F + (e - 1) * F /\ (e - 1) * F \in Nat
    <3> HIDE DEF e
    <3>1. QED
      BY <2>1
  <2> DEFINE rest == (e - 1) * F
  <2>3. some = F + rest /\ rest \in Nat
    BY <2>2
  <2>4. all = -some /\ 0 <= all
    OBVIOUS
  <2> HIDE DEF some, all, rest
  <2>5. QED
    BY <2>3, <2>4
<1>3. QED
  BY <1>1, <1>2

\* The number of a byte is an integer.
LEMMA NumberType == \A k, j \in Nat : Number(k, j) \in Int
  BY FrameLength DEF Number

\* Two bytes have different numbers.
LEMMA NumberUnique ==
    ASSUME NEW k \in Nat, NEW m \in Nat, NEW i \in 1..FrameLen, NEW j \in 1..FrameLen,
           Number(k, i) = Number(m, j)
    PROVE  k = m /\ i = j
<1>1. k < m => (m - 1) * FrameLen >= (k - 1) * FrameLen + FrameLen
  <2> SUFFICES ASSUME k < m PROVE (m - 1) * FrameLen >= (k - 1) * FrameLen + FrameLen
    OBVIOUS
  <2>1. (m - 1) * FrameLen = (k - 1) * FrameLen + (m - k) * FrameLen
    BY FrameLength
  <2>2. (m - k) * FrameLen >= FrameLen
    BY FrameLength
  <2>3. QED
    BY <2>1, <2>2, FrameLength
<1>2. m < k => (k - 1) * FrameLen >= (m - 1) * FrameLen + FrameLen
  <2> SUFFICES ASSUME m < k PROVE (k - 1) * FrameLen >= (m - 1) * FrameLen + FrameLen
    OBVIOUS
  <2>1. (k - 1) * FrameLen = (m - 1) * FrameLen + (k - m) * FrameLen
    BY FrameLength
  <2>2. (k - m) * FrameLen >= FrameLen
    BY FrameLength
  <2>3. QED
    BY <2>1, <2>2, FrameLength
<1>3. (k - 1) * FrameLen \in Int /\ (m - 1) * FrameLen \in Int
  BY FrameLength
<1>4. QED
  BY <1>1, <1>2, <1>3, FrameLength DEF Number

\* The steps that move bytes, and what all the others leave alone.
LEMMA StreamSteps ==
    ASSUME [Next]_vars
    PROVE  \/ Open \/ CloseJoins \/ WorkerReceives \/ ByteArrives \/ ByteIsLost
           \/ \E p \in Payloads : PeerSends(p)
           \/ UNCHANGED <<port, buffer, taken, line, sent, due, losses, aligned>>
<1> USE DEF channel, thread, mailbox, outbox, sending, receiving, peer
<1>1. CASE Close \/ ApplyConfig
  BY <1>1 DEF Close, ApplyConfig, StopWorker
<1>2. CASE SendCommand \/ RequestSend
  BY <1>2 DEF SendCommand, RequestSend
<1>3. CASE WorkerChecks \/ WorkerTakesRequest \/ WorkerEncodes \/ WorkerWrites
  BY <1>3 DEF WorkerChecks, WorkerTakesRequest, WorkerEncodes, WorkerWrites
<1>4. CASE UNCHANGED vars
  BY <1>4 DEF vars
<1>5. QED
  BY <1>1, <1>2, <1>3, <1>4 DEF Next, ControlStep, WorkerStep

\* Only an open port has received anything.
StreamInv == /\ port # "open" => buffer = <<>> /\ taken = <<>>
             /\ StreamConserved

\* i blocks are no more bytes than n blocks.
LEMMA BlocksMonotonic ==
    ASSUME NEW n \in Nat, NEW i \in 1..n
    PROVE  /\ (i - 1) * FrameLen \in Nat /\ i * FrameLen \in Nat /\ n * FrameLen \in Nat
           /\ i * FrameLen <= n * FrameLen
           /\ i * FrameLen = (i - 1) * FrameLen + FrameLen
<1>1. n * FrameLen = i * FrameLen + (n - i) * FrameLen
  BY FrameLength
<1>2. (n - i) * FrameLen \in Nat /\ i * FrameLen \in Nat /\ (i - 1) * FrameLen \in Nat
  <2>1. n - i \in Nat /\ i \in Nat /\ i - 1 \in Nat
    OBVIOUS
  <2>2. \A x \in Nat : x * FrameLen \in Nat
    BY FrameLength
  <2>3. QED
    BY <2>1, <2>2
<1>3. QED
  BY <1>1, <1>2, FrameLength

\* The elements from the m-th to the b-th.
LEMMA Slice ==
    ASSUME NEW S, NEW s \in Seq(S), NEW b \in 0..Len(s), NEW m \in 1..(b + 1)
    PROVE  /\ SubSeq(s, m, b) \in Seq(S) /\ Len(SubSeq(s, m, b)) = b - m + 1
           /\ \A i \in 1..(b - m + 1) : SubSeq(s, m, b)[i] = s[m + i - 1]
<1>1. \A i \in m..b : s[i] \in S
  OBVIOUS
<1>2. /\ SubSeq(s, m, b) \in Seq(S)
      /\ Len(SubSeq(s, m, b)) = IF m <= b THEN b - m + 1 ELSE 0
      /\ \A i \in 1..(b - m + 1) : SubSeq(s, m, b)[i] = s[m + i - 1]
  BY <1>1, SubSeqProperties
<1>3. QED
  BY <1>2

\* Slices of a concatenation and of a slice.
LEMMA SliceOfPrefix ==
    ASSUME NEW S, NEW s \in Seq(S), NEW t \in Seq(S), NEW b \in 0..Len(s), NEW m \in 1..(b + 1)
    PROVE  SubSeq(s \o t, m, b) = SubSeq(s, m, b)
<1>1. s \o t \in Seq(S) /\ b \in 0..Len(s \o t) /\ \A i \in 1..Len(s) : (s \o t)[i] = s[i]
  BY ConcatProperties
<1>2. /\ SubSeq(s, m, b) \in Seq(S) /\ Len(SubSeq(s, m, b)) = b - m + 1
      /\ \A i \in 1..(b - m + 1) : SubSeq(s, m, b)[i] = s[m + i - 1]
  BY Slice
<1>3. /\ SubSeq(s \o t, m, b) \in Seq(S) /\ Len(SubSeq(s \o t, m, b)) = b - m + 1
      /\ \A i \in 1..(b - m + 1) : SubSeq(s \o t, m, b)[i] = (s \o t)[m + i - 1]
  BY <1>1, Slice
<1>4. \A i \in 1..(b - m + 1) : (s \o t)[m + i - 1] = s[m + i - 1]
  BY <1>1
<1>5. QED
  BY <1>2, <1>3, <1>4, SeqEqual

\* The end of a concatenation is the end of its first part and the second part.
LEMMA SliceOfSuffix ==
    ASSUME NEW S, NEW s \in Seq(S), NEW t \in Seq(S), NEW m \in 1..(Len(s) + 1)
    PROVE  SubSeq(s \o t, m, Len(s) + Len(t)) = SubSeq(s, m, Len(s)) \o t
<1> DEFINE st == s \o t
           n == Len(s) + Len(t)
           u == SubSeq(s, m, Len(s))
<1>1. /\ st \in Seq(S) /\ Len(st) = n /\ n \in 0..Len(st) /\ m \in 1..(n + 1)
      /\ \A i \in 1..n : st[i] = IF i <= Len(s) THEN s[i] ELSE t[i - Len(s)]
  BY ConcatProperties
<1>2. /\ u \in Seq(S) /\ Len(u) = Len(s) - m + 1
      /\ \A i \in 1..(Len(s) - m + 1) : u[i] = s[m + i - 1]
  BY Slice
<1> HIDE DEF st, n, u
<1>3. /\ SubSeq(st, m, n) \in Seq(S) /\ Len(SubSeq(st, m, n)) = n - m + 1
      /\ \A i \in 1..(n - m + 1) : SubSeq(st, m, n)[i] = st[m + i - 1]
  BY <1>1, Slice
<1>4. /\ u \o t \in Seq(S) /\ Len(u \o t) = n - m + 1
      /\ \A i \in 1..(Len(u) + Len(t)) : (u \o t)[i] = IF i <= Len(u) THEN u[i] ELSE t[i - Len(u)]
  <2>1. /\ u \o t \in Seq(S) /\ Len(u \o t) = Len(u) + Len(t)
        /\ \A i \in 1..(Len(u) + Len(t)) :
              (u \o t)[i] = IF i <= Len(u) THEN u[i] ELSE t[i - Len(u)]
    BY <1>2, ConcatProperties
  <2>2. Len(u) + Len(t) = n - m + 1
    BY <1>2 DEF n
  <2>3. QED
    BY <2>1, <2>2
<1>5. ASSUME NEW i \in 1..(n - m + 1) PROVE st[m + i - 1] = (u \o t)[i]
  <2>1. i \in 1..(Len(u) + Len(t)) /\ m + i - 1 \in 1..n
    BY <1>2 DEF n
  <2>2. CASE i <= Len(u)
    <3>1. m + i - 1 <= Len(s) /\ i \in 1..(Len(s) - m + 1)
      BY <1>2, <2>2
    <3>2. QED
      BY <1>1, <1>2, <1>4, <2>1, <2>2, <3>1
  <2>3. CASE ~(i <= Len(u))
    <3>1. ~(m + i - 1 <= Len(s)) /\ m + i - 1 - Len(s) = i - Len(u)
      BY <1>2, <2>3
    <3>2. QED
      BY <1>1, <1>4, <2>1, <2>3, <3>1
  <2>4. QED
    BY <2>2, <2>3
<1>6. SubSeq(st, m, n) = u \o t
  BY <1>3, <1>4, <1>5, SeqEqual
<1>7. QED
  BY <1>6 DEF st, n, u

\* A slice of the end of a sequence is a slice of the sequence.
LEMMA SliceOfSlice ==
    ASSUME NEW S, NEW s \in Seq(S), NEW a \in 0..Len(s),
           NEW n \in 0..(Len(s) - a), NEW m \in 1..(n + 1)
    PROVE  SubSeq(SubSeq(s, a + 1, Len(s)), m, n) = SubSeq(s, a + m, a + n)
<1> DEFINE u == SubSeq(s, a + 1, Len(s))
<1>1. /\ u \in Seq(S) /\ Len(u) = Len(s) - (a + 1) + 1
      /\ \A i \in 1..(Len(s) - (a + 1) + 1) : u[i] = s[a + 1 + i - 1]
  <2>1. Len(s) \in 0..Len(s) /\ a + 1 \in 1..(Len(s) + 1)
    OBVIOUS
  <2>2. QED
    BY <2>1, Slice
<1> HIDE DEF u
<1>2. n \in 0..Len(u) /\ \A i \in 1..Len(u) : u[i] = s[a + i]
  BY <1>1
<1>3. /\ SubSeq(u, m, n) \in Seq(S) /\ Len(SubSeq(u, m, n)) = n - m + 1
      /\ \A i \in 1..(n - m + 1) : SubSeq(u, m, n)[i] = u[m + i - 1]
  BY <1>1, <1>2, Slice
<1> DEFINE b == a + n
           c == a + m
<1>4. b \in 0..Len(s) /\ c \in 1..(b + 1) /\ b - c + 1 = n - m + 1
  OBVIOUS
<1> HIDE DEF b, c
<1>5. /\ SubSeq(s, c, b) \in Seq(S) /\ Len(SubSeq(s, c, b)) = b - c + 1
      /\ \A i \in 1..(b - c + 1) : SubSeq(s, c, b)[i] = s[c + i - 1]
  BY <1>4, Slice
<1>6. \A i \in 1..(n - m + 1) : u[m + i - 1] = s[c + i - 1]
  <2> SUFFICES ASSUME NEW i \in 1..(n - m + 1) PROVE u[m + i - 1] = s[c + i - 1]
    OBVIOUS
  <2>1. m + i - 1 \in 1..Len(u) /\ a + (m + i - 1) = c + i - 1
    BY <1>2 DEF c
  <2>2. QED
    BY <1>2, <2>1
<1>7. SubSeq(u, m, n) = SubSeq(s, c, b)
  BY <1>3, <1>4, <1>5, <1>6, SeqEqual
<1>8. QED
  BY <1>7 DEF u, b, c

\* What a block is before it is judged.
LEMMA TakesBlock ==
    ASSUME TypeOK, WorkerReceives
    PROVE  /\ Len(buffer) >= FrameLen /\ Len(buffer') = Len(buffer) - FrameLen
           /\ buffer' \in Seq(Bytes)
           /\ \A i \in 1..Len(buffer') : buffer'[i] = buffer[FrameLen + i]
           /\ DOMAIN taken = 1..Len(taken) /\ Len(taken) \in Nat
           /\ Len(taken') = Len(taken) + 1 /\ DOMAIN taken' = 1..(Len(taken) + 1)
           /\ \A i \in 1..Len(taken) : taken'[i] = taken[i]
           /\ LET new == taken'[Len(taken) + 1]
              IN  /\ new.block \in Seq(Bytes) /\ Len(new.block) = FrameLen
                  /\ \A i \in 1..FrameLen : new.block[i] = buffer[i]
                  /\ new.as = Outcome(new.block)
<1> DEFINE block == SubSeq(buffer, 1, FrameLen)
<1>1. /\ taken \in Seq(Blocks) /\ buffer \in Seq(Bytes) /\ Len(buffer) \in Nat
  BY DEF TypeOK
<1>2. /\ Len(buffer) >= FrameLen
      /\ buffer' = SubSeq(buffer, FrameLen + 1, Len(buffer))
      /\ taken' = Append(taken, [block |-> block, as |-> Outcome(block)])
  BY DEF WorkerReceives
<1>3. /\ block \in Seq(Bytes) /\ Len(block) = FrameLen
      /\ \A i \in 1..FrameLen : block[i] = buffer[i]
  BY <1>1, <1>2, FrameLength
<1>4. /\ buffer' \in Seq(Bytes) /\ Len(buffer') = Len(buffer) - FrameLen
      /\ \A i \in 1..Len(buffer') : buffer'[i] = buffer[FrameLen + i]
  <2>1. \A i \in (FrameLen + 1)..Len(buffer) : buffer[i] \in Bytes
    BY <1>1, FrameLength
  <2>2. /\ buffer' \in Seq(Bytes) /\ Len(buffer') = Len(buffer) - FrameLen
        /\ \A i \in 1..(Len(buffer) - FrameLen) : buffer'[i] = buffer[FrameLen + 1 + i - 1]
    BY <1>1, <1>2, <2>1, FrameLength, SubSeqProperties
  <2>3. QED
    BY <1>1, <2>2, FrameLength
<1> HIDE DEF block
<1>5. /\ DOMAIN taken = 1..Len(taken) /\ Len(taken) \in Nat
      /\ Len(taken') = Len(taken) + 1 /\ DOMAIN taken' = 1..(Len(taken) + 1)
      /\ \A i \in 1..Len(taken) : taken'[i] = taken[i]
      /\ taken'[Len(taken) + 1] = [block |-> block, as |-> Outcome(block)]
  BY <1>1, <1>2
<1>6. QED
  BY <1>2, <1>3, <1>4, <1>5

\* One more block taken off the buffer is the next one of those due.
LEMMA ReceiveConserves ==
    ASSUME TypeOK, StreamConserved, WorkerReceives, aligned, port = "open"
    PROVE  StreamConserved'
<1> DEFINE n == Len(taken)
           q == Consumed
           both == buffer \o line
           block == SubSeq(buffer, 1, FrameLen)
<1>1. n \in Nat /\ q \in Nat /\ q = n * FrameLen /\ Consumed' = q + FrameLen
  <2>1. Consumed' = Len(taken') * FrameLen /\ Consumed = n * FrameLen
    BY DEF Consumed, FrameLen
  <2>2. Len(taken') = n + 1 /\ n \in Nat
    BY TakesBlock
  <2>3. (n + 1) * FrameLen = n * FrameLen + FrameLen /\ n * FrameLen \in Nat
    BY <2>2, FrameLength
  <2>4. QED
    BY <2>1, <2>2, <2>3
<1>2. /\ line \in Seq(Bytes) /\ due \in Seq(Bytes) /\ buffer \in Seq(Bytes)
      /\ Len(due) = q + Len(buffer) + Len(line)
      /\ both = SubSeq(due, q + 1, Len(due))
      /\ Len(line) \in Nat /\ Len(buffer) \in Nat /\ Len(due) \in Nat
      /\ UNCHANGED <<line, due>>
  <2>1. /\ line \in Seq(Bytes) /\ due \in Seq(Bytes) /\ buffer \in Seq(Bytes)
    BY DEF TypeOK
  <2>2. /\ Len(due) = q + Len(buffer) + Len(line)
        /\ both = SubSeq(due, q + 1, Len(due))
    BY DEF StreamConserved
  <2>3. UNCHANGED <<line, due>>
    BY DEF WorkerReceives, peer
  <2> HIDE DEF q, both
  <2>4. QED
    BY <2>1, <2>2, <2>3
<1>3. /\ Len(buffer) >= FrameLen /\ Len(buffer') = Len(buffer) - FrameLen
      /\ taken'[n + 1].block = block
      /\ buffer' = SubSeq(buffer, FrameLen + 1, Len(buffer))
  <2>1. taken \in Seq(Blocks)
    BY DEF TypeOK
  <2>2. /\ taken' = Append(taken, [block |-> block, as |-> Outcome(block)])
        /\ buffer' = SubSeq(buffer, FrameLen + 1, Len(buffer))
    BY DEF WorkerReceives
  <2>3. Len(buffer) >= FrameLen /\ Len(buffer') = Len(buffer) - FrameLen
    BY TakesBlock
  <2> HIDE DEF block
  <2>4. taken'[n + 1].block = block
    BY <2>1, <2>2
  <2>5. QED
    BY <2>2, <2>3, <2>4
<1> HIDE DEF n, q, both, block
<1>4. block = SubSeq(due, q + 1, q + FrameLen)
  <2>1. SubSeq(both, 1, FrameLen) = block
    <3>1. FrameLen \in 0..Len(buffer) /\ 1 \in 1..(FrameLen + 1)
      BY <1>2, <1>3, FrameLength
    <3>2. SubSeq(buffer \o line, 1, FrameLen) = SubSeq(buffer, 1, FrameLen)
      BY <1>2, <3>1, SliceOfPrefix
    <3>3. QED
      BY <3>2 DEF both, block
  <2>2. q \in 0..Len(due) /\ FrameLen \in 0..(Len(due) - q) /\ 1 \in 1..(FrameLen + 1)
    BY <1>1, <1>2, <1>3, FrameLength
  <2>3. SubSeq(both, 1, FrameLen) = SubSeq(due, q + 1, q + FrameLen)
    BY <1>2, <2>2, SliceOfSlice
  <2>4. QED
    BY <2>1, <2>3
<1>5. buffer' \o line = SubSeq(due, q + FrameLen + 1, Len(due))
  <2> DEFINE l == Len(buffer) + Len(line)
             f == FrameLen + 1
  <2>1. SubSeq(both, f, l) = buffer' \o line
    <3>1. f \in 1..(Len(buffer) + 1)
      BY <1>2, <1>3, FrameLength
    <3> HIDE DEF f
    <3>2. SubSeq(buffer \o line, f, l) = SubSeq(buffer, f, Len(buffer)) \o line
      BY <1>2, <3>1, SliceOfSuffix
    <3>3. QED
      BY <1>3, <3>2 DEF both, f
  <2>2. q \in 0..Len(due) /\ l \in 0..(Len(due) - q) /\ f \in 1..(l + 1)
    BY <1>1, <1>2, <1>3, FrameLength
  <2>3. q + l = Len(due) /\ q + f = q + FrameLen + 1
    BY <1>1, <1>2, FrameLength
  <2> HIDE DEF l, f
  <2>4. SubSeq(both, f, l) = SubSeq(due, q + f, q + l)
    BY <1>2, <2>2, SliceOfSlice
  <2>5. QED
    BY <2>1, <2>3, <2>4
<1>6. \A i \in 1..(n + 1) :
         taken'[i].block = SubSeq(due, (i - 1) * FrameLen + 1, i * FrameLen)
  <2> SUFFICES ASSUME NEW i \in 1..(n + 1)
               PROVE  taken'[i].block = SubSeq(due, (i - 1) * FrameLen + 1, i * FrameLen)
    OBVIOUS
  <2>1. CASE i \in 1..n
    BY <2>1, TakesBlock DEF StreamConserved, n
  <2>2. CASE i = n + 1
    <3>1. (i - 1) * FrameLen = q /\ i * FrameLen = q + FrameLen
      BY <1>1, <2>2, FrameLength
    <3>2. QED
      BY <1>3, <1>4, <2>2, <3>1
  <2>3. QED
    BY <1>1, <2>1, <2>2
<1>7. Len(due) = Consumed' + Len(buffer') + Len(line)
  BY <1>1, <1>2, <1>3, FrameLength
<1>8. QED
  BY <1>1, <1>2, <1>5, <1>6, <1>7, TakesBlock DEF StreamConserved, n, FrameLen

\* A frame sent is added to what is due.
LEMMA SendConserves ==
    ASSUME TypeOK, StreamConserved, NEW p \in Payloads, PeerSends(p), aligned, port = "open"
    PROVE  StreamConserved'
<1> DEFINE n == Len(taken)
           q == Consumed
           f == FrameOf(p)
<1>1. /\ buffer \in Seq(Bytes) /\ due \in Seq(Bytes) /\ f \in Seq(Bytes)
      /\ n \in Nat /\ DOMAIN taken = 1..n /\ Len(buffer) \in Nat /\ Len(due) \in Nat
      /\ Len(f) \in Nat
  BY FrameShape DEF TypeOK
<1>2. /\ line = <<>> /\ line' = f /\ due' = due \o f
      /\ UNCHANGED <<buffer, taken, aligned, port>> /\ Consumed' = q
  BY DEF PeerSends, channel, receiving, Consumed, FrameLen
<1>3. q \in Nat
  BY <1>1, FrameLength DEF Consumed
<1>4. Len(due) = q + Len(buffer) /\ buffer = SubSeq(due, q + 1, Len(due))
  BY <1>1, <1>2, <1>3 DEF StreamConserved
<1> HIDE DEF q, f, n
<1>5. Len(due') = Len(due) + Len(f)
  BY <1>1, <1>2
<1>6. \A i \in 1..n : taken[i].block = SubSeq(due', (i - 1) * FrameLen + 1, i * FrameLen)
  <2> SUFFICES ASSUME NEW i \in 1..n
               PROVE  SubSeq(due, (i - 1) * FrameLen + 1, i * FrameLen)
                        = SubSeq(due', (i - 1) * FrameLen + 1, i * FrameLen)
    BY <1>1 DEF StreamConserved
  <2> DEFINE a == (i - 1) * FrameLen
             b == i * FrameLen
  <2>1. a \in Nat /\ b \in Nat /\ a <= b /\ b <= q
    BY FrameLength, <1>1, BlocksMonotonic DEF q, Consumed, n
  <2> HIDE DEF a, b
  <2>2. b \in 0..Len(due) /\ a + 1 \in 1..(b + 1)
    BY <1>1, <1>3, <1>4, <2>1
  <2>3. SubSeq(due, a + 1, b) = SubSeq(due', a + 1, b)
    BY <1>1, <1>2, <2>2, SliceOfPrefix
  <2>4. QED
    BY <2>3 DEF a, b
<1>7. buffer \o f = SubSeq(due', q + 1, Len(due'))
  <2>1. q + 1 \in 1..(Len(due) + 1)
    BY <1>1, <1>3, <1>4
  <2>2. SubSeq(due \o f, q + 1, Len(due) + Len(f)) = SubSeq(due, q + 1, Len(due)) \o f
    BY <1>1, <2>1, SliceOfSuffix
  <2>3. QED
    BY <1>2, <1>4, <1>5, <2>2
<1>8. Len(due') = q + Len(buffer) + Len(f)
  BY <1>1, <1>3, <1>4, <1>5
<1>9. QED
  BY <1>1, <1>2, <1>6, <1>7, <1>8 DEF StreamConserved, FrameLen, f

\* The parts of StreamInv hold together in every reachable state.
LEMMA StreamInvariant == Spec => []StreamInv
<1>1. Init => StreamInv
  BY DEF Init, StreamInv, StreamConserved
<1>2. TypeOK /\ WorkerInv /\ StreamInv /\ [Next]_vars => StreamInv'
  <2> SUFFICES ASSUME TypeOK, WorkerInv, StreamInv, [Next]_vars PROVE StreamInv'
    OBVIOUS
  <2> USE DEF StreamInv, channel, thread, mailbox, outbox, sending, receiving, peer
  <2>1. CASE Open
    <3>1. buffer = <<>> /\ taken = <<>> /\ UNCHANGED <<buffer, taken, line>>
      BY <2>1 DEF Open
    <3>2. CASE port' = "open"
      <4>1. line \in Seq(Bytes) /\ due' = line
        BY <2>1, <3>2 DEF Open, TypeOK
      <4>2. Consumed' = 0 /\ DOMAIN taken = {} /\ Len(buffer) = 0
        BY <3>1, FrameLength DEF Consumed, FrameLen
      <4>3. buffer \o line = line /\ SubSeq(line, 1, Len(line)) = line
        BY <3>1, <4>1
      <4>4. QED
        BY <3>1, <3>2, <4>1, <4>2, <4>3 DEF StreamConserved, FrameLen
    <3>3. QED
      BY <3>1, <3>2 DEF StreamConserved
  <2>2. CASE CloseJoins
    BY <2>2 DEF CloseJoins, StreamConserved
  <2>3. CASE WorkerReceives
    <3>1. port = "open" /\ UNCHANGED <<port, aligned>>
      BY <2>3 DEF WorkerReceives, WorkerInv
    <3>2. QED
      BY <2>3, <3>1, ReceiveConserves DEF StreamConserved
  <2>4. CASE ByteArrives
    <3>1. /\ buffer' = Append(buffer, Head(line)) /\ line' = Tail(line) /\ line # <<>>
          /\ line \in Seq(Bytes) /\ buffer \in Seq(Bytes)
          /\ UNCHANGED <<port, taken, due, aligned>>
          /\ port' = "open"
      BY <2>4 DEF ByteArrives, TypeOK
    <3>2. /\ buffer' \o line' = buffer \o line
          /\ Len(buffer') + Len(line') = Len(buffer) + Len(line)
          /\ Len(buffer') = Len(buffer) + 1 /\ Len(line') = Len(line) - 1
          /\ Len(line) \in Nat /\ Len(buffer) \in Nat
      BY <3>1
    <3>3. Consumed \in Nat /\ Consumed' = Consumed
      BY <3>1, FrameLength DEF TypeOK, Consumed, FrameLen
    <3>4. Consumed' + Len(buffer') + Len(line') = Consumed + Len(buffer) + Len(line)
      BY <3>2, <3>3
    <3>5. QED
      BY <3>1, <3>2, <3>3, <3>4 DEF StreamConserved, FrameLen
  <2>5. CASE ByteIsLost
    BY <2>5 DEF ByteIsLost, StreamConserved
  <2>6. ASSUME NEW p \in Payloads, PeerSends(p) PROVE StreamInv'
    <3>1. UNCHANGED <<port, aligned, buffer, taken>>
      BY <2>6 DEF PeerSends
    <3>2. QED
      BY <2>6, <3>1, SendConserves DEF StreamConserved
  <2>7. CASE UNCHANGED <<port, buffer, taken, line, sent, due, losses, aligned>>
    BY <2>7 DEF StreamConserved, FrameLen, Consumed
  <2>8. QED
    BY <2>1, <2>2, <2>3, <2>4, <2>5, <2>6, <2>7, StreamSteps
<1>3. QED
  BY <1>1, <1>2, TypeCorrect, WorkerInvariant, PTL DEF Spec

\* Without a loss since an open between two frames the blocks taken, the buffer
\* and the line are the bytes sent, for frames of any length and any payloads.
THEOREM StreamIsConserved == Spec => []StreamConserved
<1>1. StreamInv => StreamConserved
  BY DEF StreamInv
<1>2. QED
  BY <1>1, StreamInvariant, PTL

-----------------------------------------------------------------------------
(* Lost bytes                                                               *)

\* The number of the last byte that has left the peer.
Reached == Len(sent) * FrameLen - Len(line)

\* The line holds the end of the newest frame.
LineInv == /\ Len(line) <= FrameLen
           /\ line # <<>> => sent # <<>>
           /\ \A j \in 1..Len(line) :
                 line[j] = FrameOf(sent[Len(sent)])[FrameLen - Len(line) + j]

\* Byte i of the buffer is byte at[i] of frame from[i].  From each byte on the
\* numbers run ahead of the buffer by what has been lost since.
IsOrigin(from, at) ==
    /\ from \in [1..Len(buffer) -> 1..Len(sent)]
    /\ at \in [1..Len(buffer) -> 1..FrameLen]
    /\ \A i \in 1..Len(buffer) :
          LET number == Number(from[i], at[i])
          IN  /\ buffer[i] = FrameOf(sent[from[i]])[at[i]]
              /\ number + (Len(buffer) - i) <= Reached
              /\ Reached <= number + (Len(buffer) - i) + losses
              /\ \A h \in 1..Len(buffer) : h < i => Number(from[h], at[h]) + (i - h) <= number

\* The history of the bytes in the buffer is found in the frames sent.
LossInv == /\ LineInv
           /\ port # "open" => buffer = <<>>
           /\ \E from, at : IsOrigin(from, at)
           /\ ShortLossMakesNoFrame

\* A block that has its delimiters in place came from one frame as a whole, when
\* fewer bytes than a frame are lost and the payloads hold no delimiters.
LEMMA WholeFrame ==
    ASSUME TypeOK, NEW from, NEW at, IsOrigin(from, at), losses < FrameLen,
           \A k \in DOMAIN sent : Plain(sent[k]),
           Len(buffer) >= FrameLen, buffer[1] = HEADER, buffer[FrameLen] = TAIL
    PROVE  \A i \in 1..FrameLen : buffer[i] = FrameOf(sent[from[1]])[i]
<1>1. /\ sent \in Seq(Payloads) /\ Len(buffer) \in Nat /\ Len(line) \in Nat /\ Len(sent) \in Nat
      /\ losses \in Nat /\ DOMAIN sent = 1..Len(sent)
  BY SerialAssumption DEF TypeOK
<1>2. \A i \in 1..Len(buffer) : /\ from[i] \in 1..Len(sent) /\ sent[from[i]] \in Payloads
                                /\ at[i] \in 1..FrameLen
                                /\ buffer[i] = FrameOf(sent[from[i]])[at[i]]
  <2>1. \A i \in 1..Len(buffer) : from[i] \in 1..Len(sent) /\ at[i] \in 1..FrameLen
    BY DEF IsOrigin
  <2>2. \A i \in 1..Len(buffer) : buffer[i] = FrameOf(sent[from[i]])[at[i]]
    BY DEF IsOrigin
  <2>3. \A k \in 1..Len(sent) : sent[k] \in Payloads
    BY <1>1
  <2>4. QED
    BY <2>1, <2>2, <2>3
<1>3. 1 \in 1..Len(buffer) /\ FrameLen \in 1..Len(buffer)
  BY <1>1, FrameLength
<1>4. ASSUME NEW i \in 1..Len(buffer)
      PROVE  /\ buffer[i] = HEADER => at[i] = 1
             /\ buffer[i] = TAIL => at[i] = FrameLen
  <2> DEFINE p == sent[from[i]]
  <2>1. p \in Payloads /\ at[i] \in 1..FrameLen /\ buffer[i] = FrameOf(p)[at[i]] /\ Plain(p)
    BY <1>1, <1>2
  <2> HIDE DEF p
  <2>2. /\ FrameOf(p)[1] = HEADER /\ FrameOf(p)[FrameLen] = TAIL
        /\ \A j \in 2..(FrameLen - 1) : FrameOf(p)[j] \notin {HEADER, TAIL}
    BY <2>1, FrameShape DEF Plain
  <2>3. at[i] \in {1, FrameLen} \/ at[i] \in 2..(FrameLen - 1)
    BY <2>1, FrameLength
  <2>4. HEADER # TAIL
    BY SerialAssumption
  <2>5. QED
    BY <2>1, <2>2, <2>3, <2>4
<1>5. at[1] = 1 /\ at[FrameLen] = FrameLen
  BY <1>3, <1>4
<1> DEFINE k == from[1]
           m == from[FrameLen]
<1>6. k \in Nat /\ m \in Nat /\ Reached \in Int
  BY <1>1, <1>2, <1>3, FrameLength DEF Reached
<1> DEFINE a == Number(k, 1)
           z == Number(m, FrameLen)
<1>7. a \in Int /\ z \in Int
  BY <1>6, NumberType, FrameLength
<1>8. /\ a + (FrameLen - 1) <= z
      /\ Reached <= a + (Len(buffer) - 1) + losses
      /\ z + (Len(buffer) - FrameLen) <= Reached
  BY <1>3, <1>5, FrameLength DEF IsOrigin
<1>9. z - a < 2 * FrameLen - 1
  BY <1>1, <1>6, <1>7, <1>8, FrameLength
<1>10. a = (k - 1) * FrameLen + 1 /\ z = (m - 1) * FrameLen + FrameLen
  BY DEF Number
<1>11. m = k
  <2>1. (m - 1) * FrameLen = (k - 1) * FrameLen + (m - k) * FrameLen
    BY <1>6, FrameLength
  <2>2. (k - 1) * FrameLen \in Int /\ (m - k) * FrameLen \in Int
    BY <1>6, FrameLength
  <2> DEFINE frames == (m - k) * FrameLen
             before == (k - 1) * FrameLen
  <2>3. z - a = frames + FrameLen - 1 /\ frames \in Int
    <3>1. a = before + 1 /\ z = before + frames + FrameLen
      BY <1>10, <2>1
    <3>2. before \in Int /\ frames \in Int
      BY <2>2
    <3> HIDE DEF before, frames, a, z
    <3>3. QED
      BY <3>1, <3>2, FrameLength
  <2> HIDE DEF frames, a, z
  <2>4. 0 <= frames /\ frames < FrameLen
    BY <1>7, <1>8, <1>9, <2>3, FrameLength
  <2>5. m - k = 0
    BY <1>6, <2>4, FrameLength, ShortMultiple DEF frames
  <2>6. QED
    BY <1>6, <2>5
<1>12. ASSUME NEW i \in 1..FrameLen PROVE buffer[i] = FrameOf(sent[k])[i]
  <2> DEFINE number == Number(from[i], at[i])
  <2>1. i \in 1..Len(buffer)
    BY <1>1, FrameLength
  <2>2. from[i] \in Nat /\ at[i] \in 1..FrameLen /\ number \in Int
    <3>1. from[i] \in Nat /\ at[i] \in 1..FrameLen /\ at[i] \in Nat
      BY <1>1, <1>2, <2>1, FrameLength
    <3>2. QED
      BY <3>1, NumberType
  <2>a. \A h, l \in 1..Len(buffer) :
            h < l => Number(from[h], at[h]) + (l - h) <= Number(from[l], at[l])
    BY DEF IsOrigin
  <2>b. Number(from[1], at[1]) = a /\ Number(from[FrameLen], at[FrameLen]) = z
    BY <1>5
  <2>3. i # 1 => a + (i - 1) <= number
    <3>1. i # 1 => 1 < i
      OBVIOUS
    <3>2. QED
      BY <1>3, <2>1, <2>a, <2>b, <3>1
  <2>4. i # FrameLen => number + (FrameLen - i) <= z
    <3>1. i # FrameLen => i < FrameLen
      BY FrameLength
    <3>2. QED
      BY <1>3, <2>1, <2>a, <2>b, <3>1
  <2>5. z = a + (FrameLen - 1)
    <3> DEFINE before == (k - 1) * FrameLen
    <3>1. a = before + 1 /\ z = before + FrameLen
      BY <1>10, <1>11
    <3>2. before \in Int
      BY <1>6, FrameLength
    <3> HIDE DEF before, a, z
    <3>3. QED
      BY <3>1, <3>2, FrameLength
  <2>6. (i = 1 => number = a) /\ (i = FrameLen => number = z)
    BY <1>5
  <2> HIDE DEF a, z, number
  <2>7. number = a + (i - 1)
    BY <1>7, <2>2, <2>3, <2>4, <2>5, <2>6, FrameLength
  <2>8. Number(k, i) = a + (i - 1)
    BY <1>6, FrameLength DEF Number, a
  <2>9. from[i] = k /\ at[i] = i
    BY <1>6, <2>2, <2>7, <2>8, NumberUnique DEF number
  <2>10. QED
    BY <1>2, <2>1, <2>9
<1>13. QED
  BY <1>12

\* A block is only as good as its two ends.
LEMMA GoodBlock ==
    ASSUME NEW block \in Seq(Bytes), Len(block) = FrameLen, Outcome(block) # "frame error"
    PROVE  block[1] = HEADER /\ block[FrameLen] = TAIL
<1>1. Valid(block, FrameLen)
  BY DEF Outcome
<1>2. Failure(block, FrameLen) = "None"
  BY <1>1 DEF Valid
<1>3. block[1] = HEADER /\ block[Len(block)] = TAIL
  BY <1>2 DEF Failure
<1>4. QED
  BY <1>3

\* What the worker takes from the buffer keeps LossInv.
LEMMA ReceiveLoss ==
    ASSUME TypeOK, WorkerInv, LossInv, WorkerReceives
    PROVE  LossInv'
<1> DEFINE n == Len(taken)
           F == FrameLen
<1>1. UNCHANGED <<port, line, sent, losses>> /\ port = "open"
  BY DEF WorkerReceives, channel, peer, WorkerInv
<1>2. /\ Len(buffer) \in Nat /\ Len(buffer) >= F /\ Len(buffer') = Len(buffer) - F
      /\ buffer' \in Seq(Bytes) /\ F \in Nat
      /\ \A i \in 1..Len(buffer') : buffer'[i] = buffer[F + i]
  BY TakesBlock, FrameLength DEF TypeOK
<1>3. PICK from, at : IsOrigin(from, at)
  BY DEF LossInv
<1>4. LineInv' /\ (port' # "open" => buffer' = <<>>) /\ Reached' = Reached
  BY <1>1 DEF LossInv, LineInv, Reached
<1>5. (\E f, a : IsOrigin(f, a))'
  <2> DEFINE Shape(f, a) ==
               /\ f \in [1..Len(buffer') -> 1..Len(sent')]
               /\ a \in [1..Len(buffer') -> 1..FrameLen]
               /\ \A i \in 1..Len(buffer') :
                     /\ buffer'[i] = FrameOf(sent'[f[i]])[a[i]]
                     /\ Number(f[i], a[i]) + (Len(buffer') - i) <= Reached'
                     /\ Reached' <= Number(f[i], a[i]) + (Len(buffer') - i) + losses'
                     /\ \A h \in 1..Len(buffer') :
                           h < i => Number(f[h], a[h]) + (i - h) <= Number(f[i], a[i])
  <2>0. SUFFICES \E f, a : Shape(f, a)
    BY DEF IsOrigin
  <2> DEFINE f == [i \in 1..Len(buffer') |-> from[F + i]]
             a == [i \in 1..Len(buffer') |-> at[F + i]]
  <2>1. \A i \in 1..Len(buffer') : F + i \in 1..Len(buffer)
    BY <1>2
  <2>2. /\ f \in [1..Len(buffer') -> 1..Len(sent')]
        /\ a \in [1..Len(buffer') -> 1..FrameLen]
    BY <1>1, <1>3, <2>1 DEF IsOrigin
  <2>3. ASSUME NEW i \in 1..Len(buffer')
        PROVE  /\ buffer'[i] = FrameOf(sent'[f[i]])[a[i]]
               /\ Number(f[i], a[i]) + (Len(buffer') - i) <= Reached'
               /\ Reached' <= Number(f[i], a[i]) + (Len(buffer') - i) + losses'
               /\ \A h \in 1..Len(buffer') :
                     h < i => Number(f[h], a[h]) + (i - h) <= Number(f[i], a[i])
    <3>1. F + i \in 1..Len(buffer) /\ f[i] = from[F + i] /\ a[i] = at[F + i]
          /\ Len(buffer) - (F + i) = Len(buffer') - i
      BY <1>2, <2>1
    <3>2. ASSUME NEW h \in 1..Len(buffer'), h < i
          PROVE  Number(f[h], a[h]) + (i - h) <= Number(f[i], a[i])
      <4>1. F + h \in 1..Len(buffer) /\ F + h < F + i /\ (F + i) - (F + h) = i - h
            /\ f[h] = from[F + h] /\ a[h] = at[F + h]
        BY <1>2, <2>1, <3>2
      <4>2. Number(from[F + h], at[F + h]) + ((F + i) - (F + h)) <= Number(from[F + i], at[F + i])
        BY <1>3, <3>1, <4>1 DEF IsOrigin
      <4>3. QED
        BY <3>1, <4>1, <4>2
    <3>3. /\ buffer[F + i] = FrameOf(sent[from[F + i]])[at[F + i]]
          /\ Number(from[F + i], at[F + i]) + (Len(buffer) - (F + i)) <= Reached
          /\ Reached <= Number(from[F + i], at[F + i]) + (Len(buffer) - (F + i)) + losses
      BY <1>3, <3>1 DEF IsOrigin
    <3>4. QED
      BY <1>1, <1>2, <1>4, <3>1, <3>2, <3>3
  <2> HIDE DEF f, a
  <2>4. Shape(f, a)
    BY <2>2, <2>3
  <2> HIDE DEF Shape
  <2>5. QED
    BY <2>4
<1>6. ShortLossMakesNoFrame'
  <2> DEFINE Sent(block) == \E k \in DOMAIN sent : block = FrameOf(sent[k])
  <2>1. ASSUME losses < F, \A k \in DOMAIN sent : Plain(sent[k]),
               taken'[n + 1].as # "frame error"
        PROVE  Sent(taken'[n + 1].block)
    <3> DEFINE block == taken'[n + 1].block
    <3>1. /\ block \in Seq(Bytes) /\ Len(block) = F /\ Outcome(block) # "frame error"
          /\ \A j \in 1..F : block[j] = buffer[j]
      BY <2>1, TakesBlock
    <3> HIDE DEF block
    <3>2. block[1] = HEADER /\ block[F] = TAIL
      BY <3>1, GoodBlock
    <3>3. 1 \in 1..F /\ F \in 1..F
      BY FrameLength
    <3>4. buffer[1] = HEADER /\ buffer[F] = TAIL
      BY <3>1, <3>2, <3>3
    <3>5. \A j \in 1..F : buffer[j] = FrameOf(sent[from[1]])[j]
      BY <1>2, <1>3, <2>1, <3>4, WholeFrame
    <3>6. from[1] \in DOMAIN sent /\ sent[from[1]] \in Payloads
      <4>1. 1 \in 1..Len(buffer)
        BY <1>2, FrameLength
      <4>2. from[1] \in 1..Len(sent)
        BY <1>3, <4>1 DEF IsOrigin
      <4>3. sent \in Seq(Payloads)
        BY DEF TypeOK
      <4>4. QED
        BY <4>2, <4>3
    <3>7. FrameOf(sent[from[1]]) \in Seq(Bytes) /\ Len(FrameOf(sent[from[1]])) = F
      BY <3>6, FrameShape
    <3>8. block = FrameOf(sent[from[1]])
      BY <3>1, <3>5, <3>7, SeqEqual
    <3>9. QED
      BY <3>6, <3>8 DEF block
  <2>2. ASSUME losses < F, \A k \in DOMAIN sent : Plain(sent[k]),
               NEW i \in 1..n, taken'[i].as # "frame error"
        PROVE  Sent(taken'[i].block)
    <3>1. taken'[i] = taken[i] /\ i \in DOMAIN taken
      BY TakesBlock
    <3>2. QED
      BY <2>2, <3>1 DEF LossInv, ShortLossMakesNoFrame
  <2>3. DOMAIN taken' = 1..(n + 1) /\ n \in Nat
    BY TakesBlock
  <2>4. \A i \in 1..(n + 1) : i \in 1..n \/ i = n + 1
    BY <2>3
  <2> HIDE DEF n
  <2>5. (losses < F /\ \A k \in DOMAIN sent : Plain(sent[k])) =>
           \A i \in DOMAIN taken' : taken'[i].as # "frame error" => Sent(taken'[i].block)
    BY <2>1, <2>2, <2>3, <2>4
  <2>6. QED
    BY <1>1, <2>5 DEF ShortLossMakesNoFrame
<1>7. QED
  BY <1>4, <1>5, <1>6 DEF LossInv

\* What an arriving byte adds to the history of the buffer.
LEMMA ArriveLoss ==
    ASSUME TypeOK, LossInv, ByteArrives
    PROVE  LossInv'
<1> DEFINE n == Len(buffer)
           l == Len(line)
           k == Len(sent)
           j == FrameLen - l + 1
<1>1. /\ line \in Seq(Bytes) /\ buffer \in Seq(Bytes) /\ sent \in Seq(Payloads)
      /\ losses \in Nat
  BY SerialAssumption DEF TypeOK
<1>2. /\ line # <<>> /\ buffer' = Append(buffer, Head(line)) /\ line' = Tail(line)
      /\ port = "open" /\ UNCHANGED <<port, sent, losses, taken>>
  BY DEF ByteArrives, channel
<1>3. /\ n \in Nat /\ l \in Nat /\ k \in Nat /\ l >= 1 /\ Len(buffer') = n + 1
      /\ Len(line') = l - 1 /\ Head(line) = line[1]
      /\ \A i \in 1..(l - 1) : line'[i] = line[i + 1]
      /\ \A i \in 1..n : buffer'[i] = buffer[i]
      /\ buffer'[n + 1] = line[1]
  BY <1>1, <1>2
<1>4. /\ l <= FrameLen /\ k >= 1
      /\ \A i \in 1..l : line[i] = FrameOf(sent[k])[FrameLen - l + i]
  BY <1>1, <1>2 DEF LossInv, LineInv
<1>5. PICK from, at : IsOrigin(from, at)
  BY DEF LossInv
<1> HIDE DEF n, l, k
<1>6. j \in 1..FrameLen /\ 1 \in 1..l
  BY <1>3, <1>4, FrameLength
<1>7. buffer'[n + 1] = FrameOf(sent[k])[j]
  BY <1>3, <1>4, <1>6, FrameLength
<1>8. LineInv'
  <2>1. ASSUME NEW i \in 1..(l - 1)
        PROVE  line'[i] = FrameOf(sent[k])[FrameLen - (l - 1) + i]
    <3>1. i + 1 \in 1..l /\ FrameLen - l + (i + 1) = FrameLen - (l - 1) + i
      BY <1>3, FrameLength
    <3>2. QED
      BY <1>3, <1>4, <3>1
  <2>2. Len(line') <= FrameLen
    BY <1>3, <1>4, FrameLength
  <2>3. sent' # <<>>
    BY <1>1, <1>2, <1>4 DEF k
  <2>4. QED
    BY <1>2, <1>3, <2>1, <2>2, <2>3 DEF LineInv, k
<1>9. Number(k, j) = Reached + 1 /\ Reached' = Reached + 1 /\ Reached \in Int
  <2>1. Number(k, j) = (k - 1) * FrameLen + j /\ k * FrameLen = (k - 1) * FrameLen + FrameLen
        /\ k * FrameLen \in Int
    BY <1>3, FrameLength DEF Number
  <2>2. Reached = k * FrameLen - l /\ Reached' = k * FrameLen - (l - 1)
    BY <1>2, <1>3 DEF Reached, k, l
  <2>3. QED
    BY <1>3, <2>1, <2>2, FrameLength
<1>10. (\E f, a : IsOrigin(f, a))'
  <2> DEFINE m == Len(buffer')
             Byte(f, a, i) ==
               /\ buffer'[i] = FrameOf(sent'[f[i]])[a[i]]
               /\ Number(f[i], a[i]) + (m - i) <= Reached'
               /\ Reached' <= Number(f[i], a[i]) + (m - i) + losses'
               /\ \A h \in 1..m : h < i => Number(f[h], a[h]) + (i - h) <= Number(f[i], a[i])
             Shape(f, a) ==
               /\ f \in [1..m -> 1..Len(sent')] /\ a \in [1..m -> 1..FrameLen]
               /\ \A i \in 1..m : Byte(f, a, i)
  <2>0. SUFFICES \E f, a : Shape(f, a)
    BY DEF IsOrigin
  <2> DEFINE f == [i \in 1..m |-> IF i = m THEN k ELSE from[i]]
             a == [i \in 1..m |-> IF i = m THEN j ELSE at[i]]
  <2>1. from \in [1..n -> 1..k] /\ at \in [1..n -> 1..FrameLen]
    BY <1>5 DEF IsOrigin, n, k
  <2>2. ASSUME NEW i \in 1..n
        PROVE  /\ Number(from[i], at[i]) \in Int
               /\ buffer[i] = FrameOf(sent[from[i]])[at[i]]
               /\ Number(from[i], at[i]) + (n - i) <= Reached
               /\ Reached <= Number(from[i], at[i]) + (n - i) + losses
               /\ \A h \in 1..n :
                     h < i => Number(from[h], at[h]) + (i - h) <= Number(from[i], at[i])
    <3>1. from[i] \in 1..k /\ at[i] \in 1..FrameLen
      BY <2>1
    <3>2. from[i] \in Nat /\ at[i] \in Nat
      BY <1>3, <3>1, FrameLength
    <3>3. Number(from[i], at[i]) \in Int
      BY <3>2, NumberType
    <3>4. QED
      BY <1>5, <3>3 DEF IsOrigin, n
  <2>3. m \in Nat /\ m = n + 1 /\ m \in 1..m /\ \A i \in 1..m : i # m => i \in 1..n
    BY <1>3
  <2>4. /\ f \in [1..m -> 1..k] /\ a \in [1..m -> 1..FrameLen]
        /\ f[m] = k /\ a[m] = j
        /\ \A i \in 1..n : i \in 1..m /\ i # m /\ f[i] = from[i] /\ a[i] = at[i]
    BY <1>3, <1>4, <1>6, <2>1
  <2> HIDE DEF f, a, j, m
  <2>5. sent' = sent /\ losses' = losses /\ Len(sent') = k
    BY <1>2 DEF k
  <2>6. ASSUME NEW i \in 1..n PROVE Byte(f, a, i)
    <3> DEFINE x == Number(from[i], at[i])
    <3>1. /\ f[i] = from[i] /\ a[i] = at[i] /\ x \in Int
          /\ x + (n - i) <= Reached /\ Reached <= x + (n - i) + losses
      BY <2>2, <2>4
    <3>2. buffer'[i] = FrameOf(sent'[f[i]])[a[i]]
      BY <1>3, <2>2, <2>5, <3>1
    <3> HIDE DEF x
    <3>3. x + (m - i) <= Reached' /\ Reached' <= x + (m - i) + losses
      <4>1. m - i = (n - i) + 1 /\ n - i \in Int
        BY <1>3, <2>3
      <4>2. QED
        BY <1>1, <1>9, <3>1, <4>1
    <3>4. ASSUME NEW h \in 1..m, h < i PROVE Number(f[h], a[h]) + (i - h) <= x
      <4>1. h \in 1..n
        BY <1>3, <2>3, <3>4
      <4>2. QED
        BY <2>2, <2>4, <3>4, <4>1 DEF x
    <3>5. QED
      BY <2>5, <3>1, <3>2, <3>3, <3>4 DEF x
  <2>7. Byte(f, a, m)
    <3>1. buffer'[m] = FrameOf(sent'[f[m]])[a[m]]
      BY <1>7, <2>3, <2>4, <2>5
    <3>2. Number(f[m], a[m]) = Reached + 1 /\ Reached' = Reached + 1 /\ Reached \in Int
      BY <1>9, <2>4
    <3>3. /\ Number(f[m], a[m]) + (m - m) <= Reached'
          /\ Reached' <= Number(f[m], a[m]) + (m - m) + losses
      BY <1>1, <2>3, <3>2
    <3>4. ASSUME NEW h \in 1..m, h < m PROVE Number(f[h], a[h]) + (m - h) <= Number(f[m], a[m])
      <4>1. h \in 1..n
        BY <1>3, <2>3, <3>4
      <4>2. Number(f[h], a[h]) + (n - h) <= Reached /\ Number(f[h], a[h]) \in Int
        BY <2>2, <2>4, <4>1
      <4>3. QED
        BY <1>3, <2>3, <3>2, <4>1, <4>2
    <3>5. QED
      BY <2>5, <3>1, <3>3, <3>4
  <2> HIDE DEF Byte
  <2>8. \A i \in 1..m : Byte(f, a, i)
    BY <2>3, <2>6, <2>7
  <2>9. Shape(f, a)
    BY <2>4, <2>5, <2>8
  <2> HIDE DEF Shape
  <2>10. QED
    BY <2>9
<1>11. ShortLossMakesNoFrame'
  BY <1>2 DEF LossInv, ShortLossMakesNoFrame
<1>12. QED
  BY <1>2, <1>8, <1>10, <1>11 DEF LossInv

\* What a lost byte adds to the distance of the bytes before it.
LEMMA LoseLoss ==
    ASSUME TypeOK, LossInv, ByteIsLost
    PROVE  LossInv'
<1> DEFINE l == Len(line)
           k == Len(sent)
<1>1. /\ line \in Seq(Bytes) /\ sent \in Seq(Payloads) /\ losses \in Nat /\ line # <<>>
      /\ line' = Tail(line) /\ UNCHANGED <<port, sent, taken, buffer>>
      /\ losses' \in Nat /\ losses <= losses'
      /\ port = "open" => losses' = losses + 1
  BY SerialAssumption DEF TypeOK, ByteIsLost, channel, receiving
<1>2. /\ l \in Nat /\ k \in Nat /\ l >= 1 /\ Len(line') = l - 1
      /\ \A i \in 1..(l - 1) : line'[i] = line[i + 1]
  BY <1>1
<1>3. /\ l <= FrameLen /\ sent # <<>>
      /\ \A i \in 1..l : line[i] = FrameOf(sent[k])[FrameLen - l + i]
  BY <1>1 DEF LossInv, LineInv
<1> HIDE DEF l, k
<1>4. LineInv'
  <2>1. ASSUME NEW i \in 1..(l - 1)
        PROVE  line'[i] = FrameOf(sent[k])[FrameLen - (l - 1) + i]
    <3>1. i + 1 \in 1..l /\ FrameLen - l + (i + 1) = FrameLen - (l - 1) + i
      <4>1. l \in Nat /\ i \in Nat /\ i <= l - 1 /\ FrameLen \in Int
        BY <1>2, FrameLength
      <4>2. QED
        BY <4>1
    <3>2. QED
      BY <1>2, <1>3, <3>1
  <2>2. Len(line') <= FrameLen
    BY <1>2, <1>3, FrameLength
  <2>3. QED
    BY <1>1, <1>2, <1>3, <2>1, <2>2 DEF LineInv, k
<1>5. Reached' = Reached + 1 /\ Reached \in Int
  <2>1. k * FrameLen \in Int
    BY <1>2, FrameLength
  <2>2. Reached = k * FrameLen - l /\ Reached' = k * FrameLen - (l - 1)
    BY <1>1, <1>2 DEF Reached, k, l
  <2>3. QED
    BY <1>2, <2>1, <2>2
<1>6. PICK from, at : IsOrigin(from, at)
  BY DEF LossInv
<1>7. IsOrigin(from, at)'
  <2>1. ASSUME NEW i \in 1..Len(buffer)
        PROVE  LET number == Number(from[i], at[i])
               IN  /\ number + (Len(buffer) - i) <= Reached + 1
                   /\ Reached + 1 <= number + (Len(buffer) - i) + losses'
    <3>1. port = "open"
      BY DEF LossInv
    <3>2. from[i] \in Nat /\ at[i] \in Nat
      <4>1. from[i] \in 1..k /\ at[i] \in 1..FrameLen
        BY <1>6 DEF IsOrigin, k
      <4>2. QED
        BY <1>2, <4>1, FrameLength
    <3>3. Number(from[i], at[i]) \in Int /\ Len(buffer) \in Nat
      <4>1. buffer \in Seq(Bytes)
        BY DEF TypeOK
      <4>2. Len(buffer) \in Nat
        BY <4>1
      <4>3. Number(from[i], at[i]) \in Int
        BY <3>2, NumberType
      <4>4. QED
        BY <4>2, <4>3
    <3>4. /\ Number(from[i], at[i]) + (Len(buffer) - i) <= Reached
          /\ Reached <= Number(from[i], at[i]) + (Len(buffer) - i) + losses
      BY <1>6 DEF IsOrigin
    <3>5. QED
      BY <1>1, <1>5, <3>1, <3>3, <3>4
  <2>2. UNCHANGED <<buffer, sent>>
    BY <1>1
  <2>3. QED
    BY <1>5, <1>6, <2>1, <2>2 DEF IsOrigin
<1>8. ShortLossMakesNoFrame'
  <2>1. losses' < FrameLen => losses < FrameLen
    BY <1>1, FrameLength
  <2>2. QED
    BY <1>1, <2>1 DEF LossInv, ShortLossMakesNoFrame
<1>9. QED
  BY <1>1, <1>4, <1>7, <1>8 DEF LossInv

\* A new frame does not move the bytes that have left the peer.
LEMMA SendLoss ==
    ASSUME TypeOK, LossInv, NEW p \in Payloads, PeerSends(p)
    PROVE  LossInv'
<1> DEFINE k == Len(sent)
<1>1. /\ sent \in Seq(Payloads) /\ line = <<>> /\ sent' = Append(sent, p) /\ line' = FrameOf(p)
      /\ UNCHANGED <<port, taken, buffer, losses>>
  BY DEF TypeOK, PeerSends, channel, receiving
<1>2. /\ k \in Nat /\ Len(sent') = k + 1 /\ sent'[k + 1] = p /\ sent' # <<>>
      /\ DOMAIN sent = 1..k /\ DOMAIN sent' = 1..(k + 1)
      /\ \A i \in 1..k : sent'[i] = sent[i]
  BY <1>1
<1>3. LineInv'
  <2>1. Len(FrameOf(p)) = FrameLen
    BY FrameShape
  <2>2. \A i \in 1..FrameLen : FrameLen - FrameLen + i = i
    BY FrameLength
  <2>3. QED
    BY <1>1, <1>2, <2>1, <2>2, FrameLength DEF LineInv
<1>4. Reached' = Reached
  <2>1. Len(line') = FrameLen /\ Len(line) = 0
    BY <1>1, FrameShape
  <2>2. (k + 1) * FrameLen - FrameLen = k * FrameLen - 0
    BY <1>2, FrameLength
  <2>3. QED
    BY <1>2, <2>1, <2>2 DEF Reached
<1>5. PICK from, at : IsOrigin(from, at)
  BY DEF LossInv
<1> HIDE DEF k
<1>6. IsOrigin(from, at)'
  <2>1. /\ from \in [1..Len(buffer) -> 1..k] /\ at \in [1..Len(buffer) -> 1..FrameLen]
    BY <1>5 DEF IsOrigin, k
  <2>2. from \in [1..Len(buffer) -> 1..(k + 1)]
    BY <1>2, <2>1
  <2>3. \A i \in 1..Len(buffer) : sent'[from[i]] = sent[from[i]]
    BY <1>2, <2>1
  <2>4. UNCHANGED <<buffer, losses>>
    BY <1>1
  <2>5. from \in [1..Len(buffer') -> 1..Len(sent')] /\ at \in [1..Len(buffer') -> 1..FrameLen]
    BY <1>2, <2>1, <2>2, <2>4
  <2>6. \A i \in 1..Len(buffer) : FrameOf(sent'[from[i]])[at[i]] = FrameOf(sent[from[i]])[at[i]]
    BY <2>3
  <2>7. QED
    BY <1>4, <1>5, <2>4, <2>5, <2>6 DEF IsOrigin
<1>7. ShortLossMakesNoFrame'
  <2>1. (\A i \in DOMAIN sent' : Plain(sent'[i])) => \A i \in DOMAIN sent : Plain(sent[i])
    BY <1>2
  <2>2. ASSUME NEW b, \E i \in DOMAIN sent : b = FrameOf(sent[i])
        PROVE  \E i \in DOMAIN sent' : b = FrameOf(sent'[i])
    <3>1. PICK i \in 1..k : b = FrameOf(sent[i])
      BY <1>2, <2>2
    <3>2. i \in DOMAIN sent' /\ sent'[i] = sent[i]
      BY <1>2
    <3>3. QED
      BY <3>1, <3>2
  <2>3. ShortLossMakesNoFrame
    BY DEF LossInv
  <2>4. UNCHANGED <<taken, losses>>
    BY <1>1
  <2>5. QED
    BY <2>1, <2>2, <2>3, <2>4 DEF ShortLossMakesNoFrame
<1>8. QED
  BY <1>1, <1>3, <1>6, <1>7 DEF LossInv

\* The parts of LossInv hold together in every reachable state.
LEMMA LossInvariant == Spec => []LossInv
<1>1. Init => LossInv
  <2> SUFFICES ASSUME Init PROVE LossInv
    OBVIOUS
  <2>1. line = <<>> /\ buffer = <<>> /\ sent = <<>> /\ taken = <<>> /\ Len(<<>>) = 0
    BY DEF Init
  <2>2. IsOrigin([i \in 1..0 |-> 1], [i \in 1..0 |-> 1])
    <3>1. Len(buffer) = 0 /\ 1..0 = {}
      BY <2>1
    <3>2. \A S : [i \in 1..0 |-> 1] \in [1..0 -> S]
      BY <3>1
    <3>3. QED
      BY <3>1, <3>2 DEF IsOrigin
  <2>3. LineInv
    BY <2>1, FrameLength DEF LineInv
  <2>4. ShortLossMakesNoFrame
    <3>1. DOMAIN taken = {}
      BY <2>1
    <3>2. QED
      BY <3>1, Zenon DEF ShortLossMakesNoFrame
  <2>5. QED
    BY <2>1, <2>2, <2>3, <2>4 DEF LossInv
<1>2. TypeOK /\ WorkerInv /\ LossInv /\ [Next]_vars => LossInv'
  <2> SUFFICES ASSUME TypeOK, WorkerInv, LossInv, [Next]_vars PROVE LossInv'
    OBVIOUS
  <2>1. ASSUME UNCHANGED <<buffer, line, sent, losses, taken>>, port' # "open" => buffer = <<>>
        PROVE  LossInv'
    <3>1. LineInv' /\ ShortLossMakesNoFrame'
      BY <2>1 DEF LossInv, LineInv, ShortLossMakesNoFrame
    <3>2. Reached' = Reached
      BY <2>1 DEF Reached
    <3>3. PICK from, at : IsOrigin(from, at)
      BY DEF LossInv
    <3>4. IsOrigin(from, at)'
      BY <2>1, <3>2, <3>3 DEF IsOrigin
    <3>5. QED
      BY <2>1, <3>1, <3>4 DEF LossInv
  <2>2. CASE Open \/ UNCHANGED <<port, buffer, taken, line, sent, due, losses, aligned>>
    <3>1. UNCHANGED <<buffer, line, sent, losses, taken>>
      BY <2>2 DEF Open, receiving
    <3>2. port' # "open" => buffer = <<>>
      BY <2>2 DEF Open, LossInv
    <3>3. QED
      BY <2>1, <3>1, <3>2
  <2>3. CASE CloseJoins
    <3>1. buffer' = <<>> /\ taken' = <<>> /\ UNCHANGED <<line, sent, losses>> /\ Len(buffer') = 0
      BY <2>3 DEF CloseJoins, peer
    <3>2. (\E from, at : IsOrigin(from, at))'
      <4> DEFINE none == [i \in 1..0 |-> 1]
      <4>1. SUFFICES IsOrigin(none, none)'
        OBVIOUS
      <4>2. 1..0 = {} /\ \A S : none \in [1..0 -> S]
        OBVIOUS
      <4> HIDE DEF none
      <4>3. QED
        BY <3>1, <4>2 DEF IsOrigin
    <3>3. LineInv'
      BY <3>1 DEF LossInv, LineInv
    <3>4. ShortLossMakesNoFrame'
      <4>1. DOMAIN taken' = {}
        BY <3>1
      <4>2. QED
        BY <4>1, Zenon DEF ShortLossMakesNoFrame
    <3>5. QED
      BY <3>1, <3>2, <3>3, <3>4 DEF LossInv
  <2>4. QED
    BY <2>2, <2>3, StreamSteps, ReceiveLoss, ArriveLoss, LoseLoss, SendLoss
<1>3. QED
  BY <1>1, <1>2, TypeCorrect, WorkerInvariant, PTL DEF Spec

\* Fewer lost bytes than a frame has never make the channel decode a frame that
\* nobody sent, for frames of any length and payloads without delimiters.
THEOREM ShortLossIsHarmless == Spec => []ShortLossMakesNoFrame
<1>1. LossInv => ShortLossMakesNoFrame
  BY DEF LossInv
<1>2. QED
  BY <1>1, LossInvariant, PTL

=============================================================================
