---------------------------- MODULE SerialChannel ----------------------------
(***************************************************************************)
(* src/comm/serial_worker_base.cpp with its channels and the view model    *)
(* that drives them: fixed-length frames arrive on a line that can lose    *)
(* bytes, and commands are left in a mailbox of one for the worker thread. *)
(*                                                                         *)
(* Threads: the UI thread, which opens, closes, configures and commands    *)
(* the channel, and the worker.  The peer and the line are external.  A    *)
(* command is the number of the call that gave it; the encoded frame is    *)
(* reduced to that number.  A received frame is kept byte by byte because  *)
(* the framing is what can go wrong.                                       *)
(***************************************************************************)
EXTENDS FrameCodec, SequencesExt

CONSTANTS PayloadLen,    \* bytes between header and tail
          Payloads,      \* what the peer sends between them
          BadPayloads,   \* those whose fields the channel's decoder refuses
          MaxFrames,     \* bound: frames sent by the peer
          MaxLosses,     \* bound: bytes the line loses
          MaxCommands,   \* bound: commands given
          MaxOpens       \* bound: calls of open that succeed

Bytes == {HEADER, TAIL} \cup UNION {Range(p) : p \in Payloads}

ASSUME SerialAssumption ==
    /\ PayloadLen \in Nat /\ HEADER # TAIL
    /\ Payloads \subseteq Seq(Bytes) /\ \A p \in Payloads : Len(p) = PayloadLen
    /\ BadPayloads \subseteq Payloads
    /\ MaxFrames \in Nat /\ MaxLosses \in Nat /\ MaxCommands \in Nat /\ MaxOpens \in Nat

FrameLen == PayloadLen + 2      \* recvFrameSize()

FrameOf(p) == Wrap(<<HEADER>> \o p \o <<TAIL>>)

VARIABLES
    edited,         \* Config's entry differs from m_config, its copy in the channel
    port,           \* m_serialPort: "none", "failed" (not opened) or "open"
    status,         \* m_status
    worker,         \* where the worker is; "none" when not joinable
    stopRequested,  \* its stop token
    sendRequested,  \* m_sendRequested
    pending,        \* m_pendingCommand, 0 before the first
    control,        \* where the UI thread is inside a call
    opens,          \* history: calls of open that succeeded
    frame,          \* the command in the worker's send buffer
    commands,       \* history: commands given
    mark,           \* history: commands when the port was last opened
    written,        \* history: the commands written, in order
    line,           \* the rest of the frame the peer is sending
    buffer,         \* bytes QSerialPort has received
    sent,           \* history: payloads the peer has sent
    due,            \* history: bytes sent since the last open
    losses,         \* history: bytes lost
    aligned,        \* history: the port was opened between two frames and no
                    \* byte has been lost since
    taken           \* history: blocks taken from the buffer since the last
                    \* open, with what became of them

channel == <<port, status>>
thread == <<worker, stopRequested>>
mailbox == <<sendRequested, pending>>
outbox == <<mailbox, commands, mark>>
sending == <<outbox, frame, written>>
receiving == <<buffer, taken>>
peer == <<line, sent, due, losses, aligned>>
vars == <<edited, channel, thread, sending, control, opens, receiving, peer>>

Init == /\ edited = FALSE /\ port = "none" /\ status = "Init"
        /\ worker = "none" /\ stopRequested = FALSE
        /\ sendRequested = FALSE /\ pending = 0 /\ frame = 0 /\ commands = 0 /\ mark = 0
        /\ written = <<>> /\ control = "idle" /\ opens = 0
        /\ line = <<>> /\ buffer = <<>> /\ sent = <<>> /\ due = <<>>
        /\ losses = 0 /\ aligned = TRUE /\ taken = <<>>

-----------------------------------------------------------------------------
(* The UI thread                                                            *)

\* openSerialChannel(); the button is enabled while the channel is not open.
Open == /\ control = "idle" /\ port # "open"
        /\ edited' = FALSE
        /\ \/ /\ port' = "failed" /\ status' = "Error"
              /\ UNCHANGED <<thread, mark, due, aligned, opens>>
           \/ /\ opens < MaxOpens /\ opens' = opens + 1
              /\ port' = "open" /\ status' = "Ok"
              /\ worker' = "check" /\ stopRequested' = FALSE
              /\ due' = line /\ aligned' = (Len(line) \in {0, FrameLen})
              /\ mark' = commands
        /\ UNCHANGED <<mailbox, frame, commands, written, control, receiving, line, sent,
                       losses>>

StopWorker == /\ stopRequested' = TRUE
              /\ control' = "join"
              /\ UNCHANGED <<channel, worker, sending, opens, receiving, peer>>

\* Mutant: the port is released before its worker is joined
CloseReleasesFirst == /\ control = "idle" /\ port = "open"
                      /\ stopRequested' = TRUE
                      /\ control' = "join"
                      /\ port' = "none"
                      /\ UNCHANGED <<edited, status, worker, sending, opens,
                                     receiving, peer>>

\* closeSerialChannel() and the first half of SerialWorkerBase::close()
Close == /\ control = "idle" /\ port = "open"
         /\ StopWorker
         /\ UNCHANGED edited

CloseJoins == /\ control = "join" /\ worker = "finished"
              /\ worker' = "none"
              /\ port' = "none" /\ status' = "Init"
              /\ control' = "idle"
              /\ buffer' = <<>> /\ taken' = <<>>
              /\ UNCHANGED <<edited, stopRequested, sending, opens, peer>>

\* applySerialChannelConfig() with values in range: an open channel is closed.
ApplyConfig == /\ control = "idle"
               /\ edited' = TRUE
               /\ IF port = "open" THEN StopWorker
                  ELSE UNCHANGED <<channel, thread, sending, control, opens, receiving, peer>>

\* send...Command() of the view model and of the channel: the command is stored
\* under its own mutex, which is released before requestSend() takes m_sendMutex.
SendCommand == /\ control = "idle" /\ port = "open"
               /\ commands < MaxCommands
               /\ commands' = commands + 1
               /\ pending' = commands + 1
               /\ control' = "request"
               /\ UNCHANGED <<edited, channel, thread, sendRequested, frame, mark, written,
                              opens, receiving, peer>>

SendMutexHeld == worker \in {"encode", "write"}

\* Mutant: the request is dropped when the worker holds the mutex
RequestSendTries == /\ control = "request"
                    /\ sendRequested' = (sendRequested \/ ~SendMutexHeld)
                    /\ control' = "idle"
                    /\ UNCHANGED <<edited, channel, thread, pending, frame, commands, mark,
                                   written, opens, receiving, peer>>

RequestSend == /\ control = "request"
               /\ ~SendMutexHeld
               /\ sendRequested' = TRUE
               /\ control' = "idle"
               /\ UNCHANGED <<edited, channel, thread, pending, frame, commands, mark, written,
                              opens, receiving, peer>>

ControlStep == CloseJoins \/ RequestSend

-----------------------------------------------------------------------------
(* workerLoop()                                                             *)

WorkerChecks == /\ worker = "check"
                /\ worker' = IF stopRequested THEN "finished" ELSE "read"
                /\ UNCHANGED <<edited, channel, stopRequested, sending, control, opens,
                               receiving, peer>>

\* What becomes of a block: a frame error, a decode error or a decoded frame.
Outcome(block) == IF ~Valid(block, FrameLen) THEN "frame error"
                  ELSE IF SubSeq(block, 2, FrameLen - 1) \in BadPayloads THEN "decode error"
                  ELSE "decoded"

\* Mutant: the rest of the buffer is thrown away with the block
WorkerReceivesAll == /\ worker = "read" /\ Len(buffer) >= FrameLen
                     /\ LET block == SubSeq(buffer, 1, FrameLen)
                        IN taken' = Append(taken, [block |-> block, as |-> Outcome(block)])
                     /\ buffer' = <<>>
                     /\ UNCHANGED <<edited, channel, thread, sending, control, opens, peer>>

\* onDataReceived(): one round of its loop.  Every block is consumed, also a
\* refused one; nothing looks for the next header.
WorkerReceives == /\ worker = "read" /\ Len(buffer) >= FrameLen
                  /\ LET block == SubSeq(buffer, 1, FrameLen)
                     IN taken' = Append(taken, [block |-> block, as |-> Outcome(block)])
                  /\ buffer' = SubSeq(buffer, FrameLen + 1, Len(buffer))
                  /\ UNCHANGED <<edited, channel, thread, sending, control, opens, peer>>

\* Mutant: the request is never cleared
WorkerKeepsRequest == /\ worker = "read"
                      /\ worker' = IF sendRequested THEN "encode" ELSE "check"
                      /\ UNCHANGED <<edited, channel, stopRequested, sending, control, opens,
                                     receiving, peer>>

\* Once waitForReadyRead() has timed out or what it brought is used up; bytes that
\* came later wait.  The request is cleared before the frame is built, and
\* m_sendMutex is held from here to the end of the write.
WorkerTakesRequest == /\ worker = "read"
                      /\ IF sendRequested THEN worker' = "encode" /\ sendRequested' = FALSE
                         ELSE worker' = "check" /\ UNCHANGED sendRequested
                      /\ UNCHANGED <<edited, channel, stopRequested, pending, frame, commands,
                                     mark, written, control, opens, receiving, peer>>

\* encodeFrame() copies the pending command.
WorkerEncodes == /\ worker = "encode"
                 /\ frame' = pending
                 /\ worker' = "write"
                 /\ UNCHANGED <<edited, channel, stopRequested, outbox, written, control, opens,
                                receiving, peer>>

WorkerWrites == /\ worker = "write"
                /\ written' = Append(written, frame)
                /\ frame' = 0
                /\ worker' = "check"
                /\ UNCHANGED <<edited, channel, stopRequested, outbox, control, opens, receiving,
                               peer>>

WorkerStep == WorkerChecks \/ WorkerReceives \/ WorkerTakesRequest \/ WorkerEncodes
                \/ WorkerWrites

-----------------------------------------------------------------------------
(* The peer and the line                                                    *)

PeerSends(p) == /\ line = <<>> /\ Len(sent) < MaxFrames
                /\ sent' = Append(sent, p)
                /\ line' = FrameOf(p)
                /\ due' = IF port = "open" THEN due \o FrameOf(p) ELSE <<>>
                /\ UNCHANGED <<edited, channel, thread, sending, control, opens, receiving,
                               losses, aligned>>

\* A byte reaches an open port.
ByteArrives == /\ line # <<>> /\ port = "open"
               /\ buffer' = Append(buffer, Head(line))
               /\ line' = Tail(line)
               /\ UNCHANGED <<edited, channel, thread, sending, control, opens, taken, sent,
                              due, losses, aligned>>

\* A byte is disturbed, or nobody listens.
ByteIsLost == /\ line # <<>>
              /\ line' = Tail(line)
              /\ \/ /\ port = "open" /\ losses < MaxLosses
                    /\ losses' = losses + 1
                    /\ aligned' = FALSE
                 \/ /\ port # "open"
                    /\ UNCHANGED <<losses, aligned>>
              /\ UNCHANGED <<edited, channel, thread, sending, control, opens, receiving, sent,
                             due>>

Next == \/ Open \/ Close \/ ApplyConfig \/ SendCommand \/ ControlStep \/ WorkerStep
        \/ \E p \in Payloads : PeerSends(p)
        \/ ByteArrives \/ ByteIsLost

Spec == Init /\ [][Next]_vars

\* Fairness: the worker and a call that has begun are scheduled.
FairSpec == Spec /\ WF_vars(WorkerStep) /\ WF_vars(ControlStep)
-----------------------------------------------------------------------------
(* Properties                                                               *)

Outcomes == {"decoded", "decode error", "frame error"}
Blocks == [block : Seq(Bytes), as : Outcomes]

\* Type invariant; nothing is written before a command was given.
TypeOK == /\ edited \in BOOLEAN
          /\ port \in {"none", "failed", "open"} /\ status \in {"Init", "Ok", "Error"}
          /\ worker \in {"none", "check", "read", "encode", "write", "finished"}
          /\ stopRequested \in BOOLEAN /\ sendRequested \in BOOLEAN
          /\ pending \in 0..MaxCommands /\ frame \in 0..MaxCommands
          /\ control \in {"idle", "join", "request"}
          /\ opens \in 0..MaxOpens /\ commands \in 0..MaxCommands /\ mark \in 0..commands
          /\ written \in Seq(1..MaxCommands)
          /\ line \in Seq(Bytes) /\ buffer \in Seq(Bytes) /\ due \in Seq(Bytes)
          /\ sent \in Seq(Payloads) /\ losses \in 0..MaxLosses /\ aligned \in BOOLEAN
          /\ taken \in Seq(Blocks)

\* The worker uses m_serialPort without a lock: as long as it can run, the port
\* must be there, and as soon as the channel is closed no handler runs any more.
PortOutlivesWorker == worker # "none" => port = "open"

\* Whenever no call is under way, status() and isOpen() tell the same story, and
\* an open port uses the configuration the user sees: editing it closes the port.
StatusMatchesPort ==
    control # "join" => /\ status = "Ok" <=> port = "open"
                        /\ port = "open" => ~edited

\* open(), close(), a failed open and an edit keep the port, its worker and what
\* the channel says of itself together.
PortInv == TypeOK /\ PortOutlivesWorker /\ StatusMatchesPort

\* The bytes in the blocks taken.
Consumed == Len(taken) * FrameLen

\* While no byte is lost after an open between two frames, the blocks taken and
\* the bytes still on their way are exactly the bytes sent: nothing is decoded
\* twice, skipped or out of order, however the reads cut the stream.
StreamConserved ==
    (aligned /\ port = "open") =>
        /\ Len(due) = Consumed + Len(buffer) + Len(line)
        /\ \A i \in DOMAIN taken :
              taken[i].block = SubSeq(due, (i - 1) * FrameLen + 1, i * FrameLen)
        /\ buffer \o line = SubSeq(due, Consumed + 1, Len(due))

Plain(p) == \A i \in DOMAIN p : p[i] \notin {HEADER, TAIL}

\* There is no checksum and no search for the next header, so a loss shifts every
\* later block.  Fewer lost bytes than a frame has still never make the channel
\* decode a frame nobody sent, provided no payload contains a delimiter.
ShortLossMakesNoFrame ==
    (losses < FrameLen /\ \A i \in DOMAIN sent : Plain(sent[i])) =>
        \A i \in DOMAIN taken : taken[i].as # "frame error" =>
            \E k \in DOMAIN sent : taken[i].block = FrameOf(sent[k])

\* Commands leave in the order they were given, and none more than twice: once
\* for its own request and once for an older request that found it stored.
CommandsInOrder ==
    \A i, k \in DOMAIN written :
        /\ i < k => written[i] <= written[k]
        /\ i + 2 <= k => written[i] < written[k]

\* m_sendRequested survives close(): after the next open at most one command of
\* the time before it is written, and only the newest.
StaleRequestOnce ==
    [][ (written' # written /\ Last(written') <= mark) =>
            /\ Last(written') = mark
            /\ sendRequested' => pending > mark ]_vars

\* A stored command is written, unless a newer one replaces it or the port is
\* closed first: the flag is cleared before the command is read.
CommandReachesPort ==
    \A n \in 1..MaxCommands :
        (pending = n) ~> (pending > n \/ port # "open"
                            \/ \E i \in DOMAIN written : written[i] = n)

\* close() returns: neither the mailbox mutex nor a partial frame keeps the
\* worker from its stop token.
CloseReturns == (control = "join") ~> (control = "idle")

\* Neither a caller nor a stored command waits for ever.
ChannelProgress == CommandReachesPort /\ CloseReturns

=============================================================================
