----------------------- MODULE BoundedChannel_proofs -----------------------
(***************************************************************************)
(* Proofs about BoundedChannel for every capacity, every finite set of     *)
(* threads and every set of elements.                                      *)
(***************************************************************************)
EXTENDS BoundedChannel, FiniteSetTheorems, SequenceTheorems, TLAPS

\* Advancing a ring index wraps it at Capacity.
LEMMA AdvanceWraps ==
    ASSUME NEW i \in Slots
    PROVE  /\ Advance(i) = IF i + 1 = Capacity THEN 0 ELSE i + 1
           /\ Advance(i) \in Slots
  BY ChannelAssumption DEF Advance, Slots

\* What the notifications do to a pair of sets of waiting and awake calls.
LEMMA OneOfSubset == ASSUME NEW S, NEW T \in OneOf(S) PROVE T \in SUBSET S
  BY DEF OneOf

\* The type invariant of the channel holds in every reachable state.
THEOREM TypeCorrect == Spec => []TypeOK
<1>1. Init => TypeOK
  <2> SUFFICES ASSUME Init PROVE TypeOK
    OBVIOUS
  <2>1. 0 \in Slots /\ count \in 0..Capacity
    BY ChannelAssumption DEF Init, Slots
  <2>2. QED
    BY <2>1 DEF Init, TypeOK
<1>2. TypeOK /\ [Next]_vars => TypeOK'
  <2> SUFFICES ASSUME TypeOK, [Next]_vars PROVE TypeOK'
    OBVIOUS
  <2> USE ChannelAssumption DEF TypeOK, ring, callers
  <2>1. ASSUME NEW v \in Values, TryPush(v) PROVE TypeOK'
    BY <2>1, AdvanceWraps, OneOfSubset DEF TryPush, Put, HasSpace, NotifyPop
  <2>2. CASE TryPop
    BY <2>2, AdvanceWraps, OneOfSubset DEF TryPop, Take, NotifyPush
  <2>3. CASE Clear
    BY <2>3 DEF Clear, NotifyAllPush, NotifyAllPop, Slots
  <2>4. CASE Close
    BY <2>4 DEF Close, NotifyAllPush, NotifyAllPop
  <2>5. CASE Open
    BY <2>5 DEF Open
  <2>6. ASSUME NEW t \in Threads, NEW stopping \in BOOLEAN, BeginPop(t, stopping)
        PROVE TypeOK'
    BY <2>6 DEF BeginPop, Busy
  <2>7. ASSUME NEW t \in Threads, NEW stopping \in BOOLEAN, NEW v \in Values,
               BeginPush(t, v, stopping)
        PROVE TypeOK'
    BY <2>7 DEF BeginPush, Busy
  <2>8. ASSUME NEW t \in Threads, PopTakes(t) PROVE TypeOK'
    BY <2>8, AdvanceWraps, OneOfSubset DEF PopTakes, Take, NotifyPush
  <2>9. ASSUME NEW t \in Threads, PopReturnsNothing(t) PROVE TypeOK'
    BY <2>9 DEF PopReturnsNothing
  <2>10. ASSUME NEW t \in Threads, PopBlocks(t) PROVE TypeOK'
    BY <2>10 DEF PopBlocks
  <2>11. ASSUME NEW t \in Threads, PushPuts(t) PROVE TypeOK'
    BY <2>11, AdvanceWraps, OneOfSubset DEF PushPuts, Put, HasSpace, NotifyPop
  <2>12. ASSUME NEW t \in Threads, PushRefused(t) PROVE TypeOK'
    BY <2>12 DEF PushRefused
  <2>13. ASSUME NEW t \in Threads, PushBlocks(t) PROVE TypeOK'
    BY <2>13 DEF PushBlocks
  <2>14. ASSUME NEW t \in Threads, RequestStop(t) PROVE TypeOK'
    BY <2>14 DEF RequestStop, NotifyAllPush, NotifyAllPop
  <2>15. ASSUME NEW t \in Threads, SpuriousWakeup(t) PROVE TypeOK'
    BY <2>15 DEF SpuriousWakeup
  <2>16. CASE UNCHANGED vars
    BY <2>16 DEF vars
  <2>17. QED
    BY <2>1, <2>2, <2>3, <2>4, <2>5, <2>6, <2>7, <2>8, <2>9, <2>10, <2>11,
       <2>12, <2>13, <2>14, <2>15, <2>16 DEF Next, PopStep, PushStep
<1>3. QED
  BY <1>1, <1>2, PTL DEF Spec
-----------------------------------------------------------------------------
\* notify_one moves one thread, if any is blocked, to the awake ones.
LEMMA NotifyOneAwakensOne ==
    ASSUME NEW waiting, NEW awake, IsFiniteSet(awake), awake \cap waiting = {},
           NEW S \in OneOf(waiting)
    PROVE  /\ IsFiniteSet(awake \cup S)
           /\ Cardinality(awake \cup S) \in Nat
           /\ Cardinality(awake) \in Nat
           /\ Cardinality(awake \cup S) >= Cardinality(awake)
           /\ waiting # {} => Cardinality(awake \cup S) = Cardinality(awake) + 1
<1>1. CASE waiting = {}
  <2>1. awake \cup S = awake
    BY <1>1 DEF OneOf
  <2>2. Cardinality(awake) \in Nat
    BY FS_CardinalityType
  <2>3. QED
    BY <1>1, <2>1, <2>2
<1>2. CASE waiting # {}
  <2>1. PICK t \in waiting : S = {t}
    BY <1>2 DEF OneOf
  <2>2. t \notin awake
    BY <2>1
  <2>3. /\ IsFiniteSet(awake \cup {t})
        /\ Cardinality(awake \cup {t}) = Cardinality(awake) + 1
    BY <2>2, FS_AddElement
  <2>4. Cardinality(awake) \in Nat
    BY FS_CardinalityType
  <2>5. QED
    BY <2>1, <2>3, <2>4
<1>3. QED
  BY <1>1, <1>2

\* A set of threads and its size.
LEMMA ThreadSets ==
    ASSUME NEW S \in SUBSET Threads, NEW t \in Threads
    PROVE  /\ IsFiniteSet(S) /\ Cardinality(S) \in Nat
           /\ IsFiniteSet(S \cup {t}) /\ IsFiniteSet(S \ {t})
           /\ Cardinality(S \cup {t}) \in Nat /\ Cardinality(S \ {t}) \in Nat
           /\ Cardinality(S \cup {t}) >= Cardinality(S)
           /\ t \in S => Cardinality(S \ {t}) = Cardinality(S) - 1
<1>1. IsFiniteSet(S) /\ Cardinality(S) \in Nat
  BY ChannelAssumption, FS_Subset, FS_CardinalityType
<1>2. /\ IsFiniteSet(S \cup {t})
      /\ Cardinality(S \cup {t}) = IF t \in S THEN Cardinality(S) ELSE Cardinality(S) + 1
  BY <1>1, FS_AddElement
<1>3. /\ IsFiniteSet(S \ {t})
      /\ Cardinality(S \ {t}) = IF t \in S THEN Cardinality(S) - 1 ELSE Cardinality(S)
  BY <1>1, FS_RemoveElement
<1>4. Cardinality(S \ {t}) \in Nat
  BY <1>3, FS_CardinalityType
<1>5. QED
  BY <1>1, <1>2, <1>3, <1>4

\* The two instances of the notification used in the proof below.
LEMMA NotifyPopAwakens ==
    ASSUME TypeOK, NEW S \in OneOf(popWait)
    PROVE  /\ Cardinality(popping \cup S) \in Nat
           /\ popWait # {} => Cardinality(popping \cup S) = Cardinality(popping) + 1
<1>1. IsFiniteSet(popping) /\ popping \cap popWait = {}
  BY ChannelAssumption, FS_Subset DEF TypeOK
<1>2. QED
  BY ONLY <1>1, S \in OneOf(popWait), NotifyOneAwakensOne

LEMMA NotifyPushAwakens ==
    ASSUME TypeOK, NEW S \in OneOf(pushWait)
    PROVE  /\ Cardinality(pushing \cup S) \in Nat
           /\ pushWait # {} => Cardinality(pushing \cup S) = Cardinality(pushing) + 1
<1>1. IsFiniteSet(pushing) /\ pushing \cap pushWait = {}
  BY ChannelAssumption, FS_Subset DEF TypeOK
<1>2. QED
  BY ONLY <1>1, S \in OneOf(pushWait), NotifyOneAwakensOne

\* The inductive invariant behind the wake-up guarantees: neither of the two
\* halves needs more than the types and the absence of waiters after close().
WakeupInv == NoLostPopWakeup /\ NoLostPushWakeup /\ NobodyBlocksOnClosed

LEMMA WakeupInvariant == Spec => []WakeupInv
<1>1. Init => WakeupInv
  BY DEF Init, WakeupInv, NoLostPopWakeup, NoLostPushWakeup, NobodyBlocksOnClosed
<1>2. TypeOK /\ WakeupInv /\ [Next]_vars => WakeupInv'
  <2> SUFFICES ASSUME TypeOK, WakeupInv, [Next]_vars PROVE WakeupInv'
    OBVIOUS
  <2> USE ChannelAssumption
      DEF TypeOK, ring, callers, WakeupInv, NoLostPopWakeup, NoLostPushWakeup,
          NobodyBlocksOnClosed
  <2>0. /\ IsFiniteSet(popping) /\ Cardinality(popping) \in Nat
        /\ IsFiniteSet(pushing) /\ Cardinality(pushing) \in Nat
    BY FS_Subset, FS_CardinalityType
  <2>1. ASSUME NEW v \in Values, TryPush(v) PROVE WakeupInv'
    <3>1. PICK S \in OneOf(popWait) : popWait' = popWait \ S /\ popping' = popping \cup S
      BY <2>1 DEF TryPush, NotifyPop
    <3>2. /\ Cardinality(popping') \in Nat
          /\ popWait # {} => Cardinality(popping') = Cardinality(popping) + 1
      BY <3>1, NotifyPopAwakens
    <3>3. QED
      BY <2>0, <2>1, <3>1, <3>2 DEF TryPush, Put, HasSpace
  <2>2. CASE TryPop
    <3>1. PICK S \in OneOf(pushWait) : pushWait' = pushWait \ S /\ pushing' = pushing \cup S
      BY <2>2 DEF TryPop, NotifyPush
    <3>2. /\ Cardinality(pushing') \in Nat
          /\ pushWait # {} => Cardinality(pushing') = Cardinality(pushing) + 1
      BY <3>1, NotifyPushAwakens
    <3>3. QED
      BY <2>0, <2>2, <3>1, <3>2 DEF TryPop, Take
  <2>3. CASE Clear
    BY <2>3 DEF Clear, NotifyAllPush, NotifyAllPop
  <2>4. CASE Close
    BY <2>4 DEF Close, NotifyAllPush, NotifyAllPop
  <2>5. CASE Open
    BY <2>5 DEF Open
  <2>6. ASSUME NEW t \in Threads, NEW stopping \in BOOLEAN, BeginPop(t, stopping)
        PROVE WakeupInv'
    <3>1. Cardinality(popping') \in Nat /\ Cardinality(popping') >= Cardinality(popping)
      BY <2>6, ThreadSets DEF BeginPop
    <3>2. QED
      BY <2>0, <2>6, <3>1 DEF BeginPop
  <2>7. ASSUME NEW t \in Threads, NEW stopping \in BOOLEAN, NEW v \in Values,
               BeginPush(t, v, stopping)
        PROVE WakeupInv'
    <3>1. Cardinality(pushing') \in Nat /\ Cardinality(pushing') >= Cardinality(pushing)
      BY <2>7, ThreadSets DEF BeginPush
    <3>2. QED
      BY <2>0, <2>7, <3>1 DEF BeginPush
  <2>8. ASSUME NEW t \in Threads, PopTakes(t) PROVE WakeupInv'
    <3>1. PICK S \in OneOf(pushWait) : pushWait' = pushWait \ S /\ pushing' = pushing \cup S
      BY <2>8 DEF PopTakes, NotifyPush
    <3>2. Cardinality(popping') \in Nat /\ Cardinality(popping') = Cardinality(popping) - 1
      BY <2>8, ThreadSets DEF PopTakes
    <3>3. /\ Cardinality(pushing') \in Nat
          /\ pushWait # {} => Cardinality(pushing') = Cardinality(pushing) + 1
      BY <3>1, NotifyPushAwakens
    <3>4. QED
      BY <2>0, <2>8, <3>1, <3>2, <3>3 DEF PopTakes, Take
  <2>9. ASSUME NEW t \in Threads, PopReturnsNothing(t) PROVE WakeupInv'
    <3>1. Cardinality(popping') \in Nat
      BY <2>9, ThreadSets DEF PopReturnsNothing
    <3>2. QED
      BY <2>0, <2>9, <3>1 DEF PopReturnsNothing
  <2>10. ASSUME NEW t \in Threads, PopBlocks(t) PROVE WakeupInv'
    <3>1. Cardinality(popping') \in Nat
      BY <2>10, ThreadSets DEF PopBlocks
    <3>2. QED
      BY <2>0, <2>10, <3>1 DEF PopBlocks
  <2>11. ASSUME NEW t \in Threads, PushPuts(t) PROVE WakeupInv'
    <3>1. PICK S \in OneOf(popWait) : popWait' = popWait \ S /\ popping' = popping \cup S
      BY <2>11 DEF PushPuts, NotifyPop
    <3>2. Cardinality(pushing') \in Nat /\ Cardinality(pushing') = Cardinality(pushing) - 1
      BY <2>11, ThreadSets DEF PushPuts
    <3>3. /\ Cardinality(popping') \in Nat
          /\ popWait # {} => Cardinality(popping') = Cardinality(popping) + 1
      BY <3>1, NotifyPopAwakens
    <3>4. QED
      BY <2>0, <2>11, <3>1, <3>2, <3>3 DEF PushPuts, Put, HasSpace
  <2>12. ASSUME NEW t \in Threads, PushRefused(t) PROVE WakeupInv'
    <3>1. Cardinality(pushing') \in Nat
      BY <2>12, ThreadSets DEF PushRefused
    <3>2. QED
      BY <2>0, <2>12, <3>1 DEF PushRefused, HasSpace
  <2>13. ASSUME NEW t \in Threads, PushBlocks(t) PROVE WakeupInv'
    <3>1. Cardinality(pushing') \in Nat
      BY <2>13, ThreadSets DEF PushBlocks
    <3>2. QED
      BY <2>0, <2>13, <3>1 DEF PushBlocks, HasSpace
  <2>14. ASSUME NEW t \in Threads, RequestStop(t) PROVE WakeupInv'
    BY <2>14 DEF RequestStop, NotifyAllPush, NotifyAllPop
  <2>15. ASSUME NEW t \in Threads, SpuriousWakeup(t) PROVE WakeupInv'
    <3>1. /\ Cardinality(popping \cup {t}) \in Nat
          /\ Cardinality(popping \cup {t}) >= Cardinality(popping)
          /\ Cardinality(pushing \cup {t}) \in Nat
          /\ Cardinality(pushing \cup {t}) >= Cardinality(pushing)
      BY ThreadSets
    <3>2. CASE t \in popWait
      <4>1. /\ popWait' = popWait \ {t} /\ popping' = popping \cup {t}
            /\ UNCHANGED <<count, closed, pushing, pushWait>>
        BY <2>15, <3>2 DEF SpuriousWakeup
      <4>2. QED
        BY <2>0, <3>1, <3>2, <4>1
    <3>3. CASE t \in pushWait
      <4>1. /\ pushWait' = pushWait \ {t} /\ pushing' = pushing \cup {t}
            /\ UNCHANGED <<count, closed, popping, popWait>>
        BY <2>15, <3>3 DEF SpuriousWakeup
      <4>2. QED
        BY <2>0, <3>1, <3>3, <4>1
    <3>4. QED
      BY <2>15, <3>2, <3>3 DEF SpuriousWakeup
  <2>16. CASE UNCHANGED vars
    BY <2>16 DEF vars
  <2>17. QED
    BY <2>1, <2>2, <2>3, <2>4, <2>5, <2>6, <2>7, <2>8, <2>9, <2>10, <2>11,
       <2>12, <2>13, <2>14, <2>15, <2>16 DEF Next, PopStep, PushStep
<1>3. QED
  BY <1>1, <1>2, TypeCorrect, PTL DEF Spec

\* While a pop() is blocked an awake one comes for every element, while a push()
\* is blocked an awake one comes for every free slot, and close() blocks nobody:
\* notify_one is enough, for any threads and any capacity.
THEOREM WakeUpsSuffice == Spec => []NoLostWakeup
<1>1. TypeOK /\ WakeupInv => NoLostWakeup
  BY DEF WakeupInv, NoLostWakeup
<1>2. QED
  BY <1>1, TypeCorrect, WakeupInvariant, PTL
-----------------------------------------------------------------------------
(* Refinement.  The abstract queue reads the ring from head on, so the proof *)
(* needs to know where tail is, and that a push in progress holds an element *)
(* and not a moved-from object.                                              *)

RingInv == /\ tail = Slot(count)
           /\ \A t \in pushing \cup pushWait : arg[t] \in Values

\* The index arithmetic of Slot, for the slots in use and the one after them.
LEMMA SlotRange ==
    ASSUME TypeOK, NEW i \in 0..Capacity
    PROVE  Slot(i) \in Slots
  BY ChannelAssumption DEF TypeOK, Slot, Slots

LEMMA RingInvariant == Spec => []RingInv
<1>1. Init => RingInv
  BY ChannelAssumption DEF Init, RingInv, Slot
<1>2. TypeOK /\ RingInv /\ [Next]_vars => RingInv'
  <2> SUFFICES ASSUME TypeOK, RingInv, [Next]_vars PROVE RingInv'
    OBVIOUS
  <2>a. ASSUME NEW v, Put(v), count < Capacity PROVE tail' = Slot(count)'
    <3>1. /\ tail \in Slots /\ head \in Slots /\ count \in 0..Capacity
          /\ tail = Slot(count)
      BY DEF TypeOK, RingInv
    <3>2. tail' = (IF tail + 1 = Capacity THEN 0 ELSE tail + 1)
      BY <2>a, <3>1, AdvanceWraps DEF Put
    <3>3. count' = count + 1 /\ head' = head
      BY <2>a DEF Put
    <3>4. QED
      BY <2>a, <3>1, <3>2, <3>3, ChannelAssumption DEF Slot, Slots
  <2>b. ASSUME Take, count > 0 PROVE tail' = Slot(count)'
    <3>1. /\ tail \in Slots /\ head \in Slots /\ count \in 0..Capacity
          /\ tail = Slot(count)
      BY DEF TypeOK, RingInv
    <3>2. head' = (IF head + 1 = Capacity THEN 0 ELSE head + 1)
      BY <2>b, <3>1, AdvanceWraps DEF Take
    <3>3. count' = count - 1 /\ tail' = tail
      BY <2>b DEF Take
    <3>4. QED
      BY <2>b, <3>1, <3>2, <3>3, ChannelAssumption DEF Slot, Slots
  <2>c. ASSUME UNCHANGED ring PROVE tail' = Slot(count)'
    BY <2>c DEF RingInv, ring, Slot
  <2>d. ASSUME \A t \in pushing' \cup pushWait' : t \in pushing \cup pushWait /\ arg'[t] = arg[t]
        PROVE  \A t \in pushing' \cup pushWait' : arg'[t] \in Values
    BY <2>d DEF RingInv
  <2>1. ASSUME NEW v \in Values, TryPush(v) PROVE RingInv'
    BY <2>1, <2>a, <2>d DEF TryPush, HasSpace, RingInv
  <2>2. CASE TryPop
    BY <2>2, <2>b, <2>d, OneOfSubset DEF TryPop, NotifyPush, RingInv
  <2>3. CASE Clear
    BY <2>3, <2>d, ChannelAssumption DEF Clear, NotifyAllPush, RingInv, Slot
  <2>4. CASE Close
    BY <2>4, <2>c, <2>d DEF Close, NotifyAllPush, RingInv
  <2>5. CASE Open
    BY <2>5, <2>c, <2>d DEF Open, callers, RingInv
  <2>6. ASSUME NEW t \in Threads, NEW stopping \in BOOLEAN, BeginPop(t, stopping)
        PROVE RingInv'
    BY <2>6, <2>c, <2>d DEF BeginPop, RingInv
  <2>7. ASSUME NEW t \in Threads, NEW stopping \in BOOLEAN, NEW v \in Values,
               BeginPush(t, v, stopping)
        PROVE RingInv'
    BY <2>7, <2>c DEF BeginPush, RingInv, TypeOK
  <2>8. ASSUME NEW t \in Threads, PopTakes(t) PROVE RingInv'
    BY <2>8, <2>b, <2>d, OneOfSubset DEF PopTakes, NotifyPush, RingInv
  <2>9. ASSUME NEW t \in Threads, PopReturnsNothing(t) PROVE RingInv'
    BY <2>9, <2>c, <2>d DEF PopReturnsNothing, RingInv
  <2>10. ASSUME NEW t \in Threads, PopBlocks(t) PROVE RingInv'
    BY <2>10, <2>c, <2>d DEF PopBlocks, RingInv
  <2>11. ASSUME NEW t \in Threads, PushPuts(t) PROVE RingInv'
    BY <2>11, <2>a, <2>d DEF PushPuts, HasSpace, RingInv, TypeOK
  <2>12. ASSUME NEW t \in Threads, PushRefused(t) PROVE RingInv'
    BY <2>12, <2>c, <2>d DEF PushRefused, RingInv, TypeOK
  <2>13. ASSUME NEW t \in Threads, PushBlocks(t) PROVE RingInv'
    BY <2>13, <2>c, <2>d DEF PushBlocks, RingInv
  <2>14. ASSUME NEW t \in Threads, RequestStop(t) PROVE RingInv'
    BY <2>14, <2>c, <2>d DEF RequestStop, NotifyAllPush, RingInv
  <2>15. ASSUME NEW t \in Threads, SpuriousWakeup(t) PROVE RingInv'
    BY <2>15, <2>c, <2>d DEF SpuriousWakeup, RingInv
  <2>16. CASE UNCHANGED vars
    BY <2>16, <2>c, <2>d DEF vars, callers, RingInv
  <2>17. QED
    BY <2>1, <2>2, <2>3, <2>4, <2>5, <2>6, <2>7, <2>8, <2>9, <2>10, <2>11,
       <2>12, <2>13, <2>14, <2>15, <2>16 DEF Next, PopStep, PushStep
<1>3. QED
  BY <1>1, <1>2, TypeCorrect, PTL DEF Spec

\* The abstract queue is a sequence of count elements.
ContentsShape == /\ Contents \in Seq(Values \cup {Blank})
                 /\ Len(Contents) = count
                 /\ \A i \in 1..count : Contents[i] = buffer[Slot(i - 1)]

LEMMA ContentsIsSeq == TypeOK => ContentsShape
<1> SUFFICES ASSUME TypeOK PROVE ContentsShape
  OBVIOUS
<1>1. \A i \in 1..count : buffer[Slot(i - 1)] \in Values \cup {Blank}
  <2>1. count \in 0..Capacity /\ buffer \in [Slots -> Values \cup {Blank}]
    BY DEF TypeOK
  <2>2. \A i \in 1..count : i - 1 \in 0..Capacity
    BY <2>1, ChannelAssumption
  <2>3. QED
    BY <2>1, <2>2, SlotRange
<1>2. Contents \in [1..count -> Values \cup {Blank}] /\ count \in Nat
  BY <1>1 DEF Contents, TypeOK
<1>3. QED
  BY <1>2 DEF Contents, ContentsShape

\* Writing at tail appends to the abstract queue.
LEMMA PutAppends ==
    ASSUME TypeOK, TypeOK', RingInv, NEW v \in Values, Put(v), count < Capacity
    PROVE  Contents' = Append(Contents, v)
<1> DEFINE V == Values \cup {Blank}
<1>0. ContentsShape /\ ContentsShape'
  BY ContentsIsSeq, PTL
<1>1. /\ Contents' \in Seq(V) /\ Len(Contents') = count + 1
      /\ \A i \in 1..(count + 1) : Contents'[i] = buffer'[Slot(i - 1)']
  BY <1>0 DEF Put, TypeOK, ContentsShape
<1>2. /\ Append(Contents, v) \in Seq(V) /\ Len(Append(Contents, v)) = count + 1
      /\ \A i \in 1..count : Append(Contents, v)[i] = Contents[i]
      /\ Append(Contents, v)[count + 1] = v
  BY <1>0, AppendProperties DEF ContentsShape
<1>3. ASSUME NEW i \in 1..(count + 1) PROVE Contents'[i] = Append(Contents, v)[i]
  <2>0. i - 1 \in 0..Capacity /\ count \in 0..Capacity
    BY ChannelAssumption DEF TypeOK
  <2>1. Slot(i - 1)' = Slot(i - 1) /\ Slot(i - 1) \in Slots
    BY <2>0, SlotRange DEF Put, Slot
  <2>2. CASE i = count + 1
    BY <1>1, <1>2, <2>1, <2>2 DEF Put, RingInv, TypeOK
  <2>3. CASE i \in 1..count
    <3>1. Slot(i - 1) # tail
      BY <2>3, ChannelAssumption DEF RingInv, Slot, TypeOK, Slots
    <3>2. QED
      <4>1. buffer'[Slot(i - 1)] = buffer[Slot(i - 1)]
        BY <2>1, <3>1 DEF Put, TypeOK
      <4>2. Contents'[i] = buffer'[Slot(i - 1)] /\ Append(Contents, v)[i] = Contents[i]
        BY <1>1, <1>2, <2>1, <2>3
      <4>3. QED
        BY <1>0, <2>3, <4>1, <4>2 DEF ContentsShape
  <2>4. i = count + 1 \/ i \in 1..count
    BY <2>0
  <2>5. QED
    BY <2>2, <2>3, <2>4
<1>4. QED
  BY <1>1, <1>2, <1>3, SeqEqual

\* Reading at head removes the oldest element.
LEMMA TakeDropsOldest ==
    ASSUME TypeOK, TypeOK', RingInv, Take, count > 0
    PROVE  Contents # <<>> /\ Contents' = Tail(Contents)
<1> DEFINE V == Values \cup {Blank}
<1>0. ContentsShape /\ ContentsShape'
  BY ContentsIsSeq, PTL
<1>1. /\ Contents' \in Seq(V) /\ Len(Contents') = count - 1
      /\ \A i \in 1..(count - 1) : Contents'[i] = buffer'[Slot(i - 1)']
  BY <1>0 DEF Take, TypeOK, ContentsShape
<1>2. Contents # <<>>
  BY <1>0, EmptySeq DEF ContentsShape
<1>3. /\ Tail(Contents) \in Seq(V) /\ Len(Tail(Contents)) = count - 1
      /\ \A i \in 1..(count - 1) : Tail(Contents)[i] = Contents[i + 1]
  BY <1>0, <1>2, HeadTailProperties DEF ContentsShape
<1>4. ASSUME NEW i \in 1..(count - 1) PROVE Contents'[i] = Tail(Contents)[i]
  <2>0. /\ head \in Slots /\ count \in 0..Capacity
        /\ head' = (IF head + 1 = Capacity THEN 0 ELSE head + 1)
    BY AdvanceWraps DEF Take, TypeOK
  <2>1. Slot(i - 1)' = Slot(i) /\ Slot(i) \in Slots /\ Slot(i) # head
    BY <2>0, ChannelAssumption DEF Slot, Slots
  <2>2. Contents[i + 1] = buffer[Slot(i)]
    <3>1. i + 1 \in 1..count /\ (i + 1) - 1 = i
      BY <2>0
    <3>2. QED
      BY <1>0, <3>1 DEF ContentsShape
  <2>3. QED
    BY <1>1, <1>3, <2>1, <2>2 DEF Take, TypeOK
<1>5. QED
  BY <1>1, <1>2, <1>3, <1>4, SeqEqual

\* The ring buffer with its blocking calls implements the FIFO queue.
THEOREM Refinement == Spec => ImplementsFifo
<1>1. Init => Fifo!FifoInit
  <2> SUFFICES ASSUME Init PROVE Contents = <<>> /\ closed = FALSE
    BY DEF Fifo!FifoInit
  <2>1. TypeOK
    <3>1. 0 \in Slots /\ count \in 0..Capacity
      BY ChannelAssumption DEF Init, Slots
    <3>2. QED
      BY <3>1 DEF Init, TypeOK
  <2>2. QED
    BY <2>1, ContentsIsSeq, EmptySeq DEF Init, ContentsShape
<1>2. TypeOK /\ TypeOK' /\ RingInv /\ [Next]_vars => [Fifo!FifoNext]_(Fifo!fifoVars)
  <2> SUFFICES ASSUME TypeOK, TypeOK', RingInv, [Next]_vars
               PROVE  Fifo!FifoNext \/ UNCHANGED <<Contents, closed>>
    BY DEF Fifo!fifoVars
  <2>a. ASSUME NEW v \in Values, Put(v), ~closed, count < Capacity PROVE Fifo!Enqueue(v)
    BY <2>a, PutAppends, ContentsIsSeq DEF Put, ContentsShape, Fifo!Enqueue, Fifo!HasRoom
  <2>b. ASSUME Take, count > 0 PROVE Fifo!Dequeue
    BY <2>b, TakeDropsOldest DEF Take, Fifo!Dequeue
  <2>c. ASSUME UNCHANGED ring PROVE UNCHANGED Contents
    BY <2>c DEF ring, Contents, Slot
  <2>1. ASSUME NEW v \in Values, TryPush(v) PROVE Fifo!FifoNext
    BY <2>1, <2>a DEF TryPush, HasSpace, Fifo!FifoNext
  <2>2. ASSUME TryPop PROVE Fifo!FifoNext
    BY <2>2, <2>b DEF TryPop, Fifo!FifoNext
  <2>3. ASSUME Clear PROVE Fifo!FifoNext
    <3>0. ContentsShape'
      BY ContentsIsSeq, PTL
    <3>1. Contents' \in Seq(Values \cup {Blank}) /\ Len(Contents') = 0
      BY <2>3, <3>0 DEF Clear, ContentsShape
    <3>2. Contents' = <<>>
      BY <3>1, EmptySeq
    <3>3. QED
      BY <2>3, <3>2 DEF Clear, Fifo!FifoNext, Fifo!ClearAll
  <2>4. ASSUME Close PROVE Fifo!FifoNext
    BY <2>4, <2>c DEF Close, Fifo!FifoNext, Fifo!Close
  <2>5. ASSUME Open PROVE Fifo!FifoNext
    BY <2>5, <2>c DEF Open, Fifo!FifoNext, Fifo!Open
  <2>6. ASSUME NEW t \in Threads, PopTakes(t) PROVE Fifo!FifoNext
    BY <2>6, <2>b DEF PopTakes, Fifo!FifoNext
  <2>7. ASSUME NEW t \in Threads, PushPuts(t) PROVE Fifo!FifoNext
    BY <2>7, <2>a DEF PushPuts, HasSpace, RingInv, Fifo!FifoNext
  <2>8. ASSUME NEW t \in Threads,
               \/ \E stopping \in BOOLEAN : BeginPop(t, stopping)
               \/ \E stopping \in BOOLEAN, v \in Values : BeginPush(t, v, stopping)
               \/ PopReturnsNothing(t) \/ PopBlocks(t)
               \/ PushRefused(t) \/ PushBlocks(t)
               \/ RequestStop(t) \/ SpuriousWakeup(t)
        PROVE  UNCHANGED <<Contents, closed>>
    <3>1. UNCHANGED <<ring, closed>>
      BY <2>8 DEF BeginPop, BeginPush, PopReturnsNothing, PopBlocks, PushRefused,
                  PushBlocks, RequestStop, SpuriousWakeup
    <3>2. QED
      BY <3>1, <2>c
  <2>9. ASSUME UNCHANGED vars PROVE UNCHANGED <<Contents, closed>>
    BY <2>9, <2>c DEF vars
  <2>10. QED
    BY <2>1, <2>2, <2>3, <2>4, <2>5, <2>6, <2>7, <2>8, <2>9 DEF Next, PopStep, PushStep
<1>3. QED
  BY <1>1, <1>2, TypeCorrect, RingInvariant, PTL DEF Spec, ImplementsFifo, Fifo!FifoSpec
=============================================================================
