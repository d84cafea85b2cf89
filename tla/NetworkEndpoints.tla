-------------------------- MODULE NetworkEndpoints --------------------------
(***************************************************************************)
(* The UDP endpoints that the communication page opens, closes and edits:  *)
(* the image sender with its worker (network/image_sender.cpp), and the    *)
(* data exchange with its two channels (network/data_exchange.cpp), which  *)
(* app/track_result_data_exchange_bridge.cpp feeds from the processing     *)
(* thread.                                                                 *)
(*                                                                         *)
(* Threads: the UI thread, the image worker, the processing thread, the    *)
(* serial thread that brings MasterControlEvent.  An endpoint's address is *)
(* the number of the edit that set it.  Sending on a bound socket succeeds;*)
(* the unlocked use of one QUdpSocket by two threads is left out.          *)
(***************************************************************************)
EXTENDS Integers, FiniteSetsExt, SequencesExt

CONSTANTS TargetNumbers,  \* numbers of targets in results and commands
          Sizes,          \* of the images, in bytes
          HeaderSize,     \* ImageHeaderSize (10)
          MaxPayload,     \* MaxUdpPayload (60 * 1024)
          MaxEdits,       \* bound: edits of each endpoint
          MaxImages,      \* bound: images given to the sender
          MaxOpens        \* bound: times the image sender is opened

ASSUME NetworkAssumption ==
    /\ TargetNumbers \subseteq Nat \ {0} /\ Sizes \subseteq Nat
    /\ HeaderSize \in Nat /\ MaxPayload \in Nat \ {0}
    /\ MaxEdits \in Nat /\ MaxImages \in Nat /\ MaxOpens \in Nat

Exchange == {"gxtc", "gdcl"}
Channels == Exchange \cup {"image"}
NotBound == -1
Addresses == 0..MaxEdits

PacketCount(size) == (size + HeaderSize + MaxPayload - 1) \div MaxPayload

\* buildPackets(): the bytes of the encoded image that each packet carries.
Packets(size) ==
    IF size = 0 THEN <<>>
    ELSE [k \in 1..PacketCount(size) |->
             Min({MaxPayload, size + HeaderSize - (k - 1) * MaxPayload})]

NoMaster == [received |-> FALSE, track |-> FALSE, target |-> 0]
Masters == {NoMaster} \cup [received : {TRUE}, track : BOOLEAN, target : TargetNumbers \cup {0}]

VARIABLES
    wanted,      \* the endpoints in Config
    bound,       \* the address each channel's socket was bound with
    open,        \* m_dataExchangeOpen of DataExchangeViewModel
    ui,          \* where the UI thread is inside a call
    master,      \* m_masterControl of the bridge
    stage,       \* where the bridge is in onTrackResult
    result,      \* the targets of its result
    snapshot,    \* its copy of the master state
    messages,    \* history: what it has sent for this result
    alarm,       \* reservedOk of ErrorDiagnostics is false
    closed,      \* history: the exchange has been closed or edited while open
    worker,      \* the image worker; "none" when not joinable
    stopRequested,
    pending,     \* m_pendingImage with m_hasPending: at most one
    hand,        \* the size of the image being sent
    packets,     \* history: what was sent of it, with the address
    begun,       \* history: the images taken by the worker
    given, mark, \* history: images given; the same when the sender was opened
    opens        \* history: times it was opened

exchange == <<open, closed>>
bridge == <<master, stage, result, snapshot, messages, alarm>>
mailbox == <<pending, given>>
sending == <<hand, packets, begun>>
sender == <<worker, stopRequested, mark, opens, sending>>
networkVars == <<wanted, bound, ui, exchange, bridge, mailbox, sender>>

NetworkInit == /\ wanted = [c \in Channels |-> 0] /\ bound = [c \in Channels |-> NotBound]
               /\ open = FALSE /\ closed = FALSE /\ ui = "idle"
               /\ master = NoMaster /\ stage = "idle" /\ result = {} /\ snapshot = NoMaster
               /\ messages = {} /\ alarm = FALSE
               /\ worker = "none" /\ stopRequested = FALSE /\ mark = 0 /\ opens = 0
               /\ pending = <<>> /\ given = 0 /\ hand = 0 /\ packets = <<>> /\ begun = <<>>

IsOpen == \A c \in Exchange : bound[c] # NotBound      \* DataExchange::isOpen()

-----------------------------------------------------------------------------
(* The UI thread: the data exchange                                         *)

OpenExchange == /\ ui = "idle" /\ ~open
                /\ \/ UNCHANGED <<bound, ui>>
                   \/ bound' = [bound EXCEPT !["gxtc"] = wanted["gxtc"]] /\ ui' = "bind gdcl"
                /\ UNCHANGED <<wanted, exchange, bridge, mailbox, sender>>

\* Mutant: a failure leaves the first channel bound
BindGdclLeaks == /\ ui = "bind gdcl" /\ ui' = "idle"
                 /\ \/ UNCHANGED <<bound, open>>
                    \/ bound' = [bound EXCEPT !["gdcl"] = wanted["gdcl"]] /\ open' = TRUE
                 /\ UNCHANGED <<wanted, closed, bridge, mailbox, sender>>

\* When the second channel cannot be bound the view model closes the first.
BindGdcl == /\ ui = "bind gdcl" /\ ui' = "idle"
            /\ \/ bound' = [bound EXCEPT !["gxtc"] = NotBound] /\ UNCHANGED open
               \/ bound' = [bound EXCEPT !["gdcl"] = wanted["gdcl"]] /\ open' = TRUE
            /\ UNCHANGED <<wanted, closed, bridge, mailbox, sender>>

CloseGxtc == /\ bound' = [bound EXCEPT !["gxtc"] = NotBound]
             /\ ui' = "close gdcl" /\ closed' = TRUE

CloseExchange == /\ ui = "idle" /\ open
                 /\ CloseGxtc
                 /\ UNCHANGED <<wanted, open, bridge, mailbox, sender>>

CloseGdcl == /\ ui = "close gdcl" /\ ui' = "idle"
             /\ bound' = [bound EXCEPT !["gdcl"] = NotBound]
             /\ open' = FALSE
             /\ UNCHANGED <<wanted, closed, bridge, mailbox, sender>>

Edited(cs) == /\ \A c \in cs : wanted[c] < MaxEdits
              /\ wanted' = [c \in Channels |-> IF c \in cs THEN wanted[c] + 1 ELSE wanted[c]]

\* One endpoint edited in the network view model, whose signal reaches
\* closeForEndpointReconfigure(), or both in applyDataExchangeEndpoints().  The flag is
\* reset in any case: here, or at the end of the close.
EditExchange(cs) ==
    /\ ui = "idle" /\ Edited(cs)
    /\ IF IsOpen THEN CloseGxtc /\ UNCHANGED open
       ELSE open' = FALSE /\ UNCHANGED <<bound, ui, closed>>
    /\ UNCHANGED <<bridge, mailbox, sender>>

-----------------------------------------------------------------------------
(* The UI thread: the image sender                                          *)

OpenSender == /\ ui = "idle" /\ bound["image"] = NotBound
              /\ \/ UNCHANGED <<bound, sender>>
                 \/ /\ opens < MaxOpens /\ opens' = opens + 1
                    /\ bound' = [bound EXCEPT !["image"] = wanted["image"]]
                    /\ worker' = "wait" /\ stopRequested' = FALSE
                    /\ mark' = given
                    /\ UNCHANGED sending
              /\ UNCHANGED <<wanted, ui, exchange, bridge, mailbox>>

StopSender == /\ stopRequested' = TRUE /\ ui' = "join"
              /\ UNCHANGED <<bound, worker, mark, opens, sending>>

CloseSender == /\ ui = "idle" /\ bound["image"] # NotBound
               /\ StopSender
               /\ UNCHANGED <<wanted, exchange, bridge, mailbox>>

EditSender == /\ ui = "idle" /\ Edited({"image"})
              /\ IF bound["image"] # NotBound THEN StopSender ELSE UNCHANGED <<bound, ui, sender>>
              /\ UNCHANGED <<exchange, bridge, mailbox>>

JoinSender == /\ ui = "join" /\ worker = "finished"
              /\ ui' = "idle" /\ worker' = "none"
              /\ bound' = [bound EXCEPT !["image"] = NotBound]
              /\ UNCHANGED <<wanted, exchange, bridge, mailbox, stopRequested, mark, opens, sending>>

UiStep == BindGdcl \/ CloseGdcl \/ JoinSender

-----------------------------------------------------------------------------
(* The image worker                                                         *)

\* Mutant: an image that is still waiting is kept and the new one dropped
SendImageKeepsOld(size) ==
    /\ given < MaxImages
    /\ given' = given + 1
    /\ pending' = IF pending = <<>> THEN <<[id |-> given + 1, size |-> size]>> ELSE pending
    /\ UNCHANGED <<wanted, bound, ui, exchange, bridge, sender>>

\* sendImage() replaces an image that is still waiting, open or not.
SendImage(size) == /\ given < MaxImages
                   /\ given' = given + 1
                   /\ pending' = <<[id |-> given + 1, size |-> size]>>
                   /\ UNCHANGED <<wanted, bound, ui, exchange, bridge, sender>>

WorkerStops == /\ worker = "wait" /\ stopRequested
               /\ worker' = "finished"
               /\ UNCHANGED <<wanted, bound, ui, exchange, bridge, mailbox, stopRequested, mark,
                              opens, sending>>

\* A stop request wins over a waiting image, which stays.
WorkerTakes == /\ worker = "wait" /\ ~stopRequested /\ pending # <<>>
               /\ pending' = <<>>
               /\ hand' = pending[1].size /\ packets' = <<>>
               /\ begun' = Append(begun, pending[1].id)
               /\ worker' = IF hand' = 0 THEN "wait" ELSE "send"
               /\ UNCHANGED <<wanted, bound, ui, exchange, bridge, given, stopRequested, mark,
                              opens>>

\* Mutant: a stop request is obeyed between two packets
WorkerSendsUntilStopped ==
    /\ worker = "send"
    /\ LET k == Len(packets) + 1
       IN /\ packets' = Append(packets, [bytes |-> Packets(hand)[k], to |-> bound["image"]])
          /\ worker' = IF k = Len(Packets(hand)) \/ stopRequested THEN "wait" ELSE "send"
    /\ UNCHANGED <<wanted, bound, ui, exchange, bridge, mailbox, stopRequested, mark, opens, hand,
                   begun>>

WorkerSends ==
    /\ worker = "send"
    /\ LET k == Len(packets) + 1
       IN /\ packets' = Append(packets, [bytes |-> Packets(hand)[k], to |-> bound["image"]])
          /\ worker' = IF k = Len(Packets(hand)) THEN "wait" ELSE "send"
    /\ UNCHANGED <<wanted, bound, ui, exchange, bridge, mailbox, stopRequested, mark, opens, hand,
                   begun>>

WorkerStep == WorkerStops \/ WorkerTakes \/ WorkerSends

-----------------------------------------------------------------------------
(* The bridge from track results to the data exchange                       *)

MasterCommand(m) == /\ master' = m
                    /\ UNCHANGED <<wanted, bound, ui, exchange, stage, result, snapshot, messages,
                                   alarm, mailbox, sender>>

\* onTrackResult() of a result with targets, up to its copy of the master state
ResultArrives(ts) == /\ stage = "idle"
                     /\ result' = ts /\ snapshot' = master /\ messages' = {}
                     /\ stage' = "ask gxtc"
                     /\ UNCHANGED <<wanted, bound, ui, exchange, master, alarm, mailbox, sender>>

Measure(m) == IF ~m.received THEN 0 ELSE IF m.track THEN 1 ELSE 2

\* sendPacket(): a channel without a socket raises an error event, which the
\* diagnostics remember.
Send(c, m) == IF bound[c] # NotBound
              THEN /\ messages' = messages \cup {[kind |-> c, measure |-> Measure(m),
                                                  target |-> m.target]}
                   /\ UNCHANGED alarm
              ELSE alarm' = TRUE /\ UNCHANGED messages

BridgeFrame == UNCHANGED <<wanted, bound, ui, exchange, master, result, snapshot, mailbox, sender>>

AskGxtc == /\ stage = "ask gxtc"
           /\ stage' = IF IsOpen THEN "send gxtc" ELSE "ask gdcl"
           /\ BridgeFrame /\ UNCHANGED <<messages, alarm>>

SendGxtc == /\ stage = "send gxtc"
            /\ Send("gxtc", snapshot)
            /\ stage' = "ask gdcl"
            /\ BridgeFrame

\* matchesMasterTarget(): of the targets of a result at most one has the number.
AskGdcl == /\ stage = "ask gdcl"
           /\ stage' = IF snapshot.target \in result /\ IsOpen THEN "send gdcl" ELSE "idle"
           /\ BridgeFrame /\ UNCHANGED <<messages, alarm>>

\* Mutant: the master state is read again
SendGdclNow == /\ stage = "send gdcl"
               /\ Send("gdcl", master)
               /\ stage' = "idle"
               /\ BridgeFrame

SendGdcl == /\ stage = "send gdcl"
            /\ Send("gdcl", snapshot)
            /\ stage' = "idle"
            /\ BridgeFrame

NetworkNext == \/ OpenExchange \/ CloseExchange \/ OpenSender \/ CloseSender \/ EditSender \/ UiStep
               \/ \E cs \in {{"gxtc"}, {"gdcl"}, Exchange} : EditExchange(cs)
               \/ \E size \in Sizes : SendImage(size)
               \/ WorkerStep
               \/ \E m \in Masters \ {NoMaster} : MasterCommand(m)
               \/ \E ts \in SUBSET TargetNumbers \ {{}} : ResultArrives(ts)
               \/ AskGxtc \/ SendGxtc \/ AskGdcl \/ SendGdcl

NetworkSpec == NetworkInit /\ [][NetworkNext]_networkVars

\* Fairness: the image worker and a call that has begun are scheduled.
FairNetworkSpec == NetworkSpec /\ WF_networkVars(UiStep) /\ WF_networkVars(WorkerStep)
-----------------------------------------------------------------------------
(* Properties                                                               *)

\* Type invariant
NetworkTypeOK == /\ wanted \in [Channels -> Addresses]
                 /\ bound \in [Channels -> Addresses \cup {NotBound}]
                 /\ ui \in {"idle", "bind gdcl", "close gdcl", "join"}
                 /\ {open, closed, alarm, stopRequested} \subseteq BOOLEAN
                 /\ master \in Masters /\ snapshot \in Masters /\ result \subseteq TargetNumbers
                 /\ stage \in {"idle", "ask gxtc", "send gxtc", "ask gdcl", "send gdcl"}
                 /\ messages \subseteq [kind : Exchange, measure : 0..2, target : TargetNumbers \cup {0}]
                 /\ worker \in {"none", "wait", "send", "finished"}
                 /\ opens \in 0..MaxOpens /\ given \in 0..MaxImages /\ mark \in 0..given
                 /\ hand \in Sizes \cup {0}
                 /\ packets \in Seq([bytes : 1..MaxPayload, to : Addresses])
                 /\ begun \in Seq(1..given)
                 /\ pending = <<>> \/ pending = <<[id |-> given, size |-> pending[1].size]>>

\* Between two calls the exchange is bound as a whole or not at all, and the view
\* model, which the buttons believe, agrees: also after a bind that failed.
ExchangeIsWhole == ui = "idle" => \A c \in Exchange : open <=> bound[c] # NotBound

\* Editing an endpoint closes it, so that nobody goes on sending to an old
\* address (docs/module-ui.md, "避免带旧地址继续发送").
NoOldAddress == ui = "idle" => \A c \in Channels : bound[c] \in {NotBound, wanted[c]}

\* What the user edited, what is bound and what the buttons say agree.
EndpointsInv == NetworkTypeOK /\ ExchangeIsWhole /\ NoOldAddress

\* Both messages about one result follow one state of the master control, however
\* the commands fall between them, and the measurement is of a target it has.
OneMasterPerResult ==
    \A m \in messages : /\ \A n \in messages : m.measure = n.measure /\ m.target = n.target
                        /\ m.kind = "gdcl" => m.target \in result

\* A closed exchange is no transmission error: the diagnostics, which never
\* forget one, see it only if the exchange was closed behind the bridge's back.
NoFalseAlarm == alarm => closed

\* The bridge, which the user's closing and the master's commands interrupt at any
\* point, neither mixes two states in one answer nor reports an error that was none.
BridgeInv == OneMasterPerResult /\ NoFalseAlarm

\* An image that was begun is sent to the end, in packets that fit and add up, and
\* to one address: the endpoint is closed only between two images.
ImagesAreWhole ==
    LET sum[k \in 0..Len(packets)] == IF k = 0 THEN 0 ELSE sum[k - 1] + packets[k].bytes
    IN /\ \A k \in DOMAIN packets : /\ packets[k].bytes \in 1..MaxPayload
                                    /\ packets[k].to = packets[1].to
       /\ (worker # "send" /\ hand # 0) => sum[Len(packets)] = hand + HeaderSize

\* Images are sent in the order in which they were given, each at most once.
ImagesInOrder == \A i, k \in DOMAIN begun : i < k => begun[i] < begun[k]

\* The receiver gets whole images, in their order.
ImagesInv == ImagesAreWhole /\ ImagesInOrder

\* An image survives close(): after the next open at most one image of the time
\* before it is sent, the newest.
StaleImageOnce == [][(begun' # begun /\ Last(begun') <= mark) => Last(begun') = mark]_networkVars

\* An image given to an open sender is sent, unless a newer one replaces it or the
\* sender is closed before it is taken.
ImageIsSent ==
    \A n \in 1..MaxImages :
        (given = n /\ worker # "none")
            ~> (given > n \/ ui = "join" \/ \E i \in DOMAIN begun : begun[i] = n)

\* A call of the UI thread returns: the worker does not wait for images for ever.
CallReturns == (ui # "idle") ~> (ui = "idle")

\* Neither an image nor the UI thread waits for ever.
SenderProgress == ImageIsSent /\ CallReturns

=============================================================================
