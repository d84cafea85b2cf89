--------------------------- MODULE BoundedChannel ---------------------------
(***************************************************************************)
(* include/dss/processing/bounded_channel.h: a ring buffer behind a mutex  *)
(* with two condition variables.  Each critical section is one action,     *)
(* because the code notifies while it holds the mutex.  A blocked call is  *)
(* in popWait or pushWait; a call that competes for the mutex, because it  *)
(* has just been made or was notified, is in popping or pushing.           *)
(***************************************************************************)
EXTENDS Naturals, Sequences, FiniteSets

CONSTANTS Values,    \* element type T
          Capacity,  \* template argument Capacity
          Threads,   \* threads that make the blocking calls
          Blank      \* a default-constructed or moved-from T

ASSUME ChannelAssumption == /\ Capacity \in Nat \ {0}
                            /\ IsFiniteSet(Threads)
                            /\ Blank \notin Values

VARIABLES buffer, head, tail, count, closed,  \* the members of the class
          popping, popWait,    \* calls of pop, awake and blocked on m_notEmpty
          pushing, pushWait,   \* calls of push, awake and blocked on m_notFull
          arg,                 \* the element each call of push holds
          stopped              \* calls whose stop token has been triggered

ring == <<buffer, head, tail, count>>
callers == <<popping, popWait, pushing, pushWait, arg, stopped>>
vars == <<ring, closed, callers>>

Slots == 0..(Capacity - 1)
Busy == popping \cup popWait \cup pushing \cup pushWait

Init == /\ buffer = [i \in Slots |-> Blank]
        /\ head = 0 /\ tail = 0 /\ count = 0
        /\ closed = FALSE
        /\ popping = {} /\ popWait = {} /\ pushing = {} /\ pushWait = {}
        /\ arg = [t \in Threads |-> Blank]
        /\ stopped = {}

Advance(i) == (i + 1) % Capacity

\* notify_one picks one of the threads blocked on the condition variable.
OneOf(S) == IF S = {} THEN {{}} ELSE {{t} : t \in S}

\* Mutant: the notify_one after a push is forgotten.
NotifyPopForgotten == UNCHANGED <<popWait, popping>>

NotifyPop == \E S \in OneOf(popWait) : /\ popWait' = popWait \ S
                                       /\ popping' = popping \cup S
NotifyPush == \E S \in OneOf(pushWait) : /\ pushWait' = pushWait \ S
                                         /\ pushing' = pushing \cup S
NotifyAllPop == popWait' = {} /\ popping' = popping \cup popWait
NotifyAllPush == pushWait' = {} /\ pushing' = pushing \cup pushWait

HasSpace == count < Capacity

Put(v) == /\ buffer' = [buffer EXCEPT ![tail] = v]
          /\ tail' = Advance(tail)
          /\ count' = count + 1
          /\ UNCHANGED <<head, closed>>

Take == /\ buffer' = [buffer EXCEPT ![head] = Blank]
        /\ head' = Advance(head)
        /\ count' = count - 1
        /\ UNCHANGED <<tail, closed>>

-----------------------------------------------------------------------------
(* Non-blocking calls, open to any thread.  The failing tryPush (full or    *)
(* closed) and the failing tryPop (empty) change nothing.                   *)

TryPush(v) == /\ ~closed /\ HasSpace
              /\ Put(v)
              /\ NotifyPop
              /\ UNCHANGED <<pushing, pushWait, arg, stopped>>

TryPop == /\ count > 0
          /\ Take
          /\ NotifyPush
          /\ UNCHANGED <<popping, popWait, arg, stopped>>

\* Mutant: clear() forgets to reset the write index.
ClearKeepsTail == /\ head' = 0 /\ count' = 0
                  /\ NotifyAllPush /\ NotifyAllPop
                  /\ UNCHANGED <<buffer, tail, closed, arg, stopped>>

Clear == /\ head' = 0 /\ tail' = 0 /\ count' = 0
         /\ NotifyAllPush /\ NotifyAllPop
         /\ UNCHANGED <<buffer, closed, arg, stopped>>

Close == /\ closed' = TRUE
         /\ NotifyAllPush /\ NotifyAllPop
         /\ UNCHANGED <<ring, arg, stopped>>

Open == closed' = FALSE /\ UNCHANGED <<ring, callers>>

-----------------------------------------------------------------------------
(* pop(token)                                                               *)

BeginPop(t, stopping) ==
    /\ t \notin Busy
    /\ popping' = popping \cup {t}
    /\ stopped' = IF stopping THEN stopped \cup {t} ELSE stopped \ {t}
    /\ UNCHANGED <<ring, closed, popWait, pushing, pushWait, arg>>

PopTakes(t) == /\ t \in popping
               /\ count > 0
               /\ Take
               /\ NotifyPush
               /\ popping' = popping \ {t}
               /\ UNCHANGED <<popWait, arg, stopped>>

PopReturnsNothing(t) == /\ t \in popping
                        /\ count = 0
                        /\ closed \/ t \in stopped
                        /\ popping' = popping \ {t}
                        /\ UNCHANGED <<ring, closed, popWait, pushing, pushWait, arg, stopped>>

PopBlocks(t) == /\ t \in popping
                /\ count = 0
                /\ ~closed /\ t \notin stopped
                /\ popping' = popping \ {t}
                /\ popWait' = popWait \cup {t}
                /\ UNCHANGED <<ring, closed, pushing, pushWait, arg, stopped>>

PopStep(t) == PopTakes(t) \/ PopReturnsNothing(t) \/ PopBlocks(t)

-----------------------------------------------------------------------------
(* push(value, token)                                                       *)

BeginPush(t, v, stopping) ==
    /\ t \notin Busy
    /\ pushing' = pushing \cup {t}
    /\ arg' = [arg EXCEPT ![t] = v]
    /\ stopped' = IF stopping THEN stopped \cup {t} ELSE stopped \ {t}
    /\ UNCHANGED <<ring, closed, popping, popWait, pushWait>>

\* The predicate is evaluated once more after a stop request, so a push with
\* a triggered token still succeeds when there is room.
PushPuts(t) == /\ t \in pushing
               /\ ~closed /\ HasSpace
               /\ Put(arg[t])
               /\ NotifyPop
               /\ pushing' = pushing \ {t}
               /\ arg' = [arg EXCEPT ![t] = Blank]
               /\ UNCHANGED <<pushWait, stopped>>

PushRefused(t) == /\ t \in pushing
                  /\ closed \/ (t \in stopped /\ ~HasSpace)
                  /\ pushing' = pushing \ {t}
                  /\ arg' = [arg EXCEPT ![t] = Blank]
                  /\ UNCHANGED <<ring, closed, popping, popWait, pushWait, stopped>>

PushBlocks(t) == /\ t \in pushing
                 /\ ~closed /\ ~HasSpace /\ t \notin stopped
                 /\ pushing' = pushing \ {t}
                 /\ pushWait' = pushWait \cup {t}
                 /\ UNCHANGED <<ring, closed, popping, popWait, arg, stopped>>

PushStep(t) == PushPuts(t) \/ PushRefused(t) \/ PushBlocks(t)

-----------------------------------------------------------------------------
(* The stop callback that condition_variable_any registers for the blocked  *)
(* call notifies every thread blocked on that condition variable.           *)

\* Mutant: a wait without the token, which a stop request does not interrupt.
RequestStopSilent(t) ==
    /\ t \in Busy \ stopped
    /\ stopped' = stopped \cup {t}
    /\ UNCHANGED <<ring, closed, popping, popWait, pushing, pushWait, arg>>

RequestStop(t) ==
    /\ t \in Busy \ stopped
    /\ stopped' = stopped \cup {t}
    /\ IF t \in popWait THEN NotifyAllPop ELSE UNCHANGED <<popping, popWait>>
    /\ IF t \in pushWait THEN NotifyAllPush ELSE UNCHANGED <<pushing, pushWait>>
    /\ UNCHANGED <<ring, closed, arg>>

\* A condition variable may wake a thread that nobody notified.
SpuriousWakeup(t) ==
    /\ \/ /\ t \in popWait
          /\ popWait' = popWait \ {t} /\ popping' = popping \cup {t}
          /\ UNCHANGED <<pushing, pushWait>>
       \/ /\ t \in pushWait
          /\ pushWait' = pushWait \ {t} /\ pushing' = pushing \cup {t}
          /\ UNCHANGED <<popping, popWait>>
    /\ UNCHANGED <<ring, closed, arg, stopped>>

Next == \/ \E v \in Values : TryPush(v)
        \/ TryPop
        \/ Clear \/ Close \/ Open
        \/ \E t \in Threads :
              \/ \E stopping \in BOOLEAN :
                    \/ BeginPop(t, stopping)
                    \/ \E v \in Values : BeginPush(t, v, stopping)
              \/ PopStep(t) \/ PushStep(t)
              \/ RequestStop(t) \/ SpuriousWakeup(t)

Spec == Init /\ [][Next]_vars

\* Fairness: a thread that is awake gets the mutex in the end: critical sections are short.
FairSpec == Spec /\ \A t \in Threads : WF_vars(PopStep(t)) /\ WF_vars(PushStep(t))
-----------------------------------------------------------------------------
(* Properties                                                               *)

\* Type invariant: every member keeps its range and a call is in one phase.
TypeOK == /\ buffer \in [Slots -> Values \cup {Blank}]
          /\ head \in Slots /\ tail \in Slots /\ count \in 0..Capacity
          /\ closed \in BOOLEAN
          /\ popping \in SUBSET Threads /\ popWait \in SUBSET Threads
          /\ pushing \in SUBSET Threads /\ pushWait \in SUBSET Threads
          /\ popping \cap popWait = {} /\ pushing \cap pushWait = {}
          /\ (popping \cup popWait) \cap (pushing \cup pushWait) = {}
          /\ arg \in [Threads -> Values \cup {Blank}]
          /\ stopped \in SUBSET Threads

\* No wake-up is lost on m_notEmpty: while a call of pop is blocked there are
\* as many awake calls of pop as there are elements, so that notify_one (and
\* not notify_all) in tryPush and push is enough.
NoLostPopWakeup == popWait # {} => count <= Cardinality(popping)

\* The same for m_notFull: while a call of push is blocked, every free slot
\* has an awake call of push that will try to fill it.
NoLostPushWakeup == pushWait # {} => Capacity - count <= Cardinality(pushing)

\* close() releases every blocked call, and none blocks on a closed channel.
NobodyBlocksOnClosed == closed => popWait = {} /\ pushWait = {}

\* The state of the members and the blocked calls fit together: notify_one at a
\* push or pop and notify_all at close() leave nobody asleep who could go on.
NoLostWakeup == TypeOK /\ NoLostPopWakeup /\ NoLostPushWakeup /\ NobodyBlocksOnClosed

\* The slot that is i places after head.
Slot(i) == IF head + i < Capacity THEN head + i ELSE head + i - Capacity

\* The elements in the order in which pop will return them.
Contents == [i \in 1..count |-> buffer[Slot(i - 1)]]

Fifo == INSTANCE BoundedFifo WITH queue <- Contents

\* The ring buffer, its index arithmetic and the reset in clear() implement the
\* FIFO queue: pop returns the elements of the pushes once, in their order.
ImplementsFifo == Fifo!FifoSpec

\* A blocked pop is not left behind while the channel holds elements, and a
\* blocked push not while there is room, whatever the other threads do.
BlockedCallIsServed ==
    \A t \in Threads : /\ t \in popWait ~> (t \notin popWait \/ count = 0)
                       /\ t \in pushWait ~> (t \notin pushWait \/ ~HasSpace)

\* A stop request ends every blocking call, blocked or not, full or empty.
StoppedCallReturns ==
    \A t \in Threads : (t \in stopped \cap Busy) ~> (t \notin Busy)
=============================================================================
