-------------------------------- MODULE Event --------------------------------
(***************************************************************************)
(* include/dss/core/detail/event.h: Event<void(Args...), _, SharedMutexLock>,*)
(* which is one typed channel of the BasicMessageBus all components share. *)
(*                                                                         *)
(* emit() calls the handlers of a snapshot without holding the lock; a     *)
(* writer copies the list first when a snapshot of it is held (cowDetach). *)
(* A handler may call the event again, so each thread has a stack of calls.*)
(* A list is an element of a small heap; a slot is [id, sub], where sub is *)
(* the number of the subscribe call, which its ScopedConnection stands for.*)
(* A handler that throws is left like one that returns: forEachSafe goes   *)
(* on and rethrows only when the whole range is done.                      *)
(***************************************************************************)
EXTENDS Naturals, FiniteSets, SequencesExt

CONSTANTS Threads,
          MaxSubs,      \* bound: subscribe calls
          MaxPosts,     \* bound: post calls
          MaxCalls      \* bound: calls the threads are inside of, all together

ASSUME EventAssumption == MaxSubs \in Nat /\ MaxPosts \in Nat /\ MaxCalls \in Nat

VARIABLES
    lists,       \* the handler lists that are alive, by address
    current,     \* m_handlers, an address
    nextId,      \* m_nextId
    slotOf,      \* the slot id captured by the connection of each subscription
    active,      \* m_active of those connections
    pending,     \* m_pending, posted messages
    stack,       \* the calls each thread is inside of, innermost last
    live,        \* history: the subscriptions not yet removed
    posts,       \* history: post calls
    dispatched,  \* history: posted messages given to emit()
    cleared      \* history: posted messages clearPending() discarded

connections == <<slotOf, active>>
messages == <<pending, posts, dispatched, cleared>>
vars == <<lists, current, nextId, connections, messages, stack, live>>

Init == /\ lists = [a \in {0} |-> <<>>] /\ current = 0 /\ nextId = 1
        /\ slotOf = <<>> /\ active = <<>>
        /\ pending = <<>> /\ posts = 0 /\ dispatched = <<>> /\ cleared = {}
        /\ stack = [t \in Threads |-> <<>>]
        /\ live = {}

-----------------------------------------------------------------------------
(* Calls and the handler list                                               *)

Top(t) == Last(stack[t])
Inside(t, call) == stack[t] # <<>> /\ Top(t).call = call
Pushed(t, frame) == [stack EXCEPT ![t] = Append(@, frame)]
Popped(t) == [stack EXCEPT ![t] = Front(@)]
WithTop(t, frame) == [stack EXCEPT ![t] = Append(Front(@), frame)]

\* The thread is outside of the event, or in a handler that calls it again.
MayCall(t) == /\ MapThenSumSet(LAMBDA u : Len(stack[u]), Threads) < MaxCalls
              /\ stack[t] # <<>> => Inside(t, "emit") /\ Top(t).busy

Subs(list) == [i \in DOMAIN list |-> list[i].sub]

\* use_count() counts m_handlers and the snapshots of the emit calls.
HeldIn(st, a) == \E t \in Threads : \E i \in DOMAIN st[t] :
                    st[t][i].call = "emit" /\ st[t][i].list = a

Fresh == CHOOSE a \in 0..Cardinality(DOMAIN lists) : a \notin DOMAIN lists

\* Mutant: the writer changes the list the snapshots share.
NoDetach == current
CowDetach == IF HeldIn(stack, current) THEN Fresh ELSE current

WriteList(a, list) == /\ current' = a
                      /\ lists' = [x \in DOMAIN lists \cup {a} |->
                                      IF x = a THEN list ELSE lists[x]]

-----------------------------------------------------------------------------
(* subscribe(), ScopedConnection::disconnect() and clear()                  *)

Subscribe(t) == /\ MayCall(t)
                /\ Len(slotOf) < MaxSubs
                /\ LET sub == Len(slotOf) + 1
                   IN  /\ WriteList(CowDetach, Append(lists[current], [id |-> nextId, sub |-> sub]))
                       /\ live' = live \cup {sub}
                /\ slotOf' = Append(slotOf, nextId)
                /\ active' = Append(active, TRUE)
                /\ nextId' = nextId + 1
                /\ UNCHANGED <<messages, stack>>

\* The exchange of m_active lets one call of disconnect() go on to removeHandler.
Disconnect(t, sub) == /\ MayCall(t)
                      /\ sub \in DOMAIN active /\ active[sub]
                      /\ active' = [active EXCEPT ![sub] = FALSE]
                      /\ stack' = Pushed(t, [call |-> "disconnect", sub |-> sub])
                      /\ UNCHANGED <<lists, current, nextId, slotOf, messages, live>>

\* std::erase_if: the slots with another id, in their order.
Kept(list, id) ==
    LET kept[n \in 0..Len(list)] ==
            IF n = 0 THEN <<>>
            ELSE IF list[n].id = id THEN kept[n - 1] ELSE Append(kept[n - 1], list[n])
    IN  kept[Len(list)]

RemoveHandler(t) ==
    /\ Inside(t, "disconnect")
    /\ LET sub == Top(t).sub
       IN  /\ WriteList(CowDetach, Kept(lists[current], slotOf[sub]))
           /\ live' = live \ {sub}
    /\ stack' = Popped(t)
    /\ UNCHANGED <<nextId, connections, messages>>

\* A new list takes the place of m_handlers; the old one lives while it is held.
NewList(list) == /\ current' = Fresh
                 /\ lists' = [x \in {a \in DOMAIN lists : HeldIn(stack, a)} \cup {Fresh} |->
                                 IF x = Fresh THEN list ELSE lists[x]]

\* Mutant: the slot ids start again.
ClearRestartsIds(t) == /\ MayCall(t)
                       /\ NewList(<<>>)
                       /\ live' = {}
                       /\ nextId' = 1
                       /\ UNCHANGED <<connections, messages, stack>>

Clear(t) == /\ MayCall(t)
            /\ NewList(<<>>)
            /\ live' = {}
            /\ UNCHANGED <<nextId, connections, messages, stack>>

-----------------------------------------------------------------------------
(* emit()                                                                   *)

\* next: the slot forEachSafe calls next; busy: a handler is running;
\* taken, called: history of the snapshot and of the handlers called.
Snapshot == [call |-> "emit", list |-> current, next |-> 1, busy |-> FALSE,
             taken |-> Subs(lists[current]), called |-> <<>>]

\* An empty snapshot returns at once.
StartEmit(t) == stack' = IF lists[current] = <<>> THEN stack ELSE Pushed(t, Snapshot)

Emit(t) == /\ MayCall(t)
           /\ lists[current] # <<>>
           /\ StartEmit(t)
           /\ UNCHANGED <<lists, current, nextId, connections, messages, live>>

CallHandler(t) ==
    /\ Inside(t, "emit") /\ ~Top(t).busy
    /\ Top(t).next <= Len(lists[Top(t).list])
    /\ stack' = WithTop(t, [Top(t) EXCEPT
                    !.busy = TRUE,
                    !.next = @ + 1,
                    !.called = Append(@, lists[Top(t).list][Top(t).next].sub)])
    /\ UNCHANGED <<lists, current, nextId, connections, messages, live>>

HandlerReturns(t) == /\ Inside(t, "emit") /\ Top(t).busy
                     /\ stack' = WithTop(t, [Top(t) EXCEPT !.busy = FALSE])
                     /\ UNCHANGED <<lists, current, nextId, connections, messages, live>>

\* The end of emit() gives the snapshot back.
EmitReturns(t) == /\ Inside(t, "emit") /\ ~Top(t).busy
                  /\ Top(t).next > Len(lists[Top(t).list])
                  /\ stack' = Popped(t)
                  /\ lists' = [a \in {x \in DOMAIN lists : x = current \/ HeldIn(Popped(t), x)}
                                  |-> lists[a]]
                  /\ UNCHANGED <<current, nextId, connections, messages, live>>

-----------------------------------------------------------------------------
(* post(), flush() and clearPending()                                       *)

Post(t) == /\ MayCall(t)
           /\ posts < MaxPosts
           /\ posts' = posts + 1
           /\ pending' = Append(pending, posts + 1)
           /\ UNCHANGED <<lists, current, nextId, connections, dispatched, cleared, stack, live>>

Flush(t) == /\ MayCall(t)
            /\ pending # <<>>
            /\ stack' = Pushed(t, [call |-> "flush", batch |-> pending])
            /\ pending' = <<>>
            /\ UNCHANGED <<lists, current, nextId, connections, posts, dispatched, cleared, live>>

FlushEmits(t) ==
    /\ Inside(t, "flush") /\ Top(t).batch # <<>>
    /\ dispatched' = Append(dispatched, Head(Top(t).batch))
    /\ LET rest == WithTop(t, [call |-> "flush", batch |-> Tail(Top(t).batch)])
       IN  stack' = IF lists[current] = <<>> THEN rest
                    ELSE [rest EXCEPT ![t] = Append(@, Snapshot)]
    /\ UNCHANGED <<lists, current, nextId, connections, pending, posts, cleared, live>>

\* Mutant: the flush gives up after an emit() that threw.
FlushGivesUp(t) == /\ Inside(t, "flush")
                   /\ stack' = Popped(t)
                   /\ UNCHANGED <<lists, current, nextId, connections, messages, live>>

FlushReturns(t) == /\ Inside(t, "flush") /\ Top(t).batch = <<>>
                   /\ stack' = Popped(t)
                   /\ UNCHANGED <<lists, current, nextId, connections, messages, live>>

ClearPending(t) == /\ MayCall(t)
                   /\ pending # <<>>
                   /\ pending' = <<>>
                   /\ cleared' = cleared \cup ToSet(pending)
                   /\ UNCHANGED <<lists, current, nextId, connections, posts, dispatched, stack, live>>

Call(t) == \/ Subscribe(t) \/ Clear(t) \/ Emit(t) \/ Post(t) \/ Flush(t) \/ ClearPending(t)
           \/ \E sub \in 1..MaxSubs : Disconnect(t, sub)

Step(t) == \/ RemoveHandler(t) \/ CallHandler(t) \/ HandlerReturns(t) \/ EmitReturns(t)
           \/ FlushEmits(t) \/ FlushReturns(t)

Next == \E t \in Threads : Call(t) \/ Step(t)

Spec == Init /\ [][Next]_vars
-----------------------------------------------------------------------------
(* Properties                                                               *)

EmitFrames == [call : {"emit"}, list : DOMAIN lists, next : Nat \ {0}, busy : BOOLEAN,
               taken : Seq(1..MaxSubs), called : Seq(1..MaxSubs)]
DisconnectFrames == [call : {"disconnect"}, sub : DOMAIN slotOf]
FlushFrames == [call : {"flush"}, batch : Seq(1..posts)]
Frames == EmitFrames \cup DisconnectFrames \cup FlushFrames

Slots == [id : Nat \ {0}, sub : DOMAIN slotOf]

ListsOK == /\ DOMAIN lists \subseteq Nat /\ IsFiniteSet(DOMAIN lists)
           /\ current \in DOMAIN lists
           /\ \A a \in DOMAIN lists : /\ lists[a] \in Seq(Slots)
                                      /\ a = current \/ HeldIn(stack, a)

SlotsOK == /\ nextId \in Nat \ {0}
           /\ slotOf \in Seq(Nat \ {0}) /\ Len(slotOf) \in 0..MaxSubs
           /\ active \in [DOMAIN slotOf -> BOOLEAN] /\ live \subseteq DOMAIN slotOf

MessagesOK == /\ posts \in 0..MaxPosts /\ cleared \subseteq 1..posts
              /\ pending \in Seq(1..posts) /\ dispatched \in Seq(1..posts)

\* Type invariant; only lists that are reachable are alive.
TypeOK == ListsOK /\ SlotsOK /\ MessagesOK /\ stack \in [Threads -> Seq(Frames)]

\* emit() calls exactly the handlers subscribed when it took its snapshot, each
\* once and in order, whatever its own handlers and other threads subscribe,
\* disconnect or clear before it returns.
EmitCallsItsSnapshot ==
    \A t \in Threads : \A i \in DOMAIN stack[t] :
        LET f == stack[t][i]
        IN  f.call = "emit" =>
              f.taken = f.called \o SubSeq(Subs(lists[f.list]), f.next, Len(lists[f.list]))

\* A connection removes its own subscription and no other, also when the event
\* was cleared and subscribed to again before it disconnects; the subscriptions
\* that remain are in the order in which they were made.
ListIsLive ==
    LET list == lists[current]
    IN  /\ {list[i].sub : i \in DOMAIN list} = live
        /\ \A i, j \in DOMAIN list : i < j => list[i].sub < list[j].sub

\* The list that the next emit() takes is alive and is the list of the live
\* subscriptions, whatever copies older emits still hold.
ListInv == TypeOK /\ ListIsLive

\* The places where posted message m can be.
Places(m) ==
    {<<"pending", 0, i>> : i \in {j \in DOMAIN pending : pending[j] = m}}
      \cup {<<"emitted", 0, i>> : i \in {j \in DOMAIN dispatched : dispatched[j] = m}}
      \cup {<<"cleared", 0, c>> : c \in {m} \cap cleared}
      \cup UNION {{<<"flush", t, i>> : i \in {j \in DOMAIN stack[t] :
                      stack[t][j].call = "flush" /\ m \in ToSet(stack[t][j].batch)}} :
                  t \in Threads}

\* Every posted message is emitted once or discarded by clearPending(), with
\* handlers posting and flushing during a flush, and with several flushes at once.
PostedOnce == \A m \in 1..posts : Cardinality(Places(m)) = 1
=============================================================================
