---------------------------- MODULE Event_proofs ----------------------------
(***************************************************************************)
(* Proofs about Event, for every set of threads and every bound: what is   *)
(* subscribed, what an emit() calls and where a posted message goes.       *)
(***************************************************************************)
EXTENDS Event, FiniteSetTheorems, SequenceTheorems, WellFoundedInduction, TLAPS

\* The slot ids that connections hold are different and are not given out again.
SlotsInv == /\ \A s, u \in DOMAIN slotOf : s < u => slotOf[s] < slotOf[u]
            /\ \A s \in DOMAIN slotOf : slotOf[s] < nextId

\* A slot of the current list has the id that the connection of its subscription holds.
IdsInv == \A i \in DOMAIN lists[current] :
             lists[current][i].id = slotOf[lists[current][i].sub]

-----------------------------------------------------------------------------
(* Numbers and sequences                                                    *)

\* A set of natural numbers that is not empty has a least element.
LEMMA Least ==
  ASSUME NEW T \in SUBSET Nat, T # {}
  PROVE  \E m \in T : \A n \in T : m <= n
<1> DEFINE R == OpToRel(<, Nat)
<1>1. \E m \in T : \A n \in T : <<n, m>> \notin R
  <2>1. IsWellFoundedOn(R, Nat) BY NatLessThanWellFounded
  <2> HIDE DEF R
  <2> QED BY <2>1, WFMin
<1>2. \A m, n \in T : <<n, m>> \notin R => m <= n BY DEF OpToRel
<1> QED BY <1>1, <1>2

\* Induction up to a number, over the set of the numbers for which a fact holds.
LEMMA UpTo ==
  ASSUME NEW n \in Nat, NEW T, 0 \in T, \A k \in 0..(n - 1) : k \in T => k + 1 \in T
  PROVE  n \in T
<1> DEFINE Missing == {k \in 0..n : k \notin T}
<1> SUFFICES ASSUME Missing # {} PROVE FALSE OBVIOUS
<1>1. Missing \in SUBSET Nat OBVIOUS
<1>2. PICK m \in Missing : \A k \in Missing : m <= k
  <2> HIDE DEF Missing
  <2> QED BY <1>1, Least
<1>3. m \in 0..n /\ m \notin T /\ m # 0 OBVIOUS
<1>4. m - 1 \in 0..(n - 1) BY <1>3
<1>5. m - 1 \in T BY <1>2, <1>3, <1>4
<1> QED BY <1>3, <1>4, <1>5

\* The steps of std::erase_if over a list
Keeps(f, list, id) ==
    \A n \in 0..Len(list) :
        f[n] = IF n = 0 THEN <<>>
               ELSE IF list[n].id = id THEN f[n - 1] ELSE Append(f[n - 1], list[n])

\* The recursive function in Kept exists.
LEMMA KeptExists ==
  ASSUME NEW S, NEW list \in Seq(S), NEW id
  PROVE  \E f : Keeps(f, list, id) /\ Kept(list, id) = f[Len(list)]
<1> DEFINE Shape(f, m) ==
       f = [n \in 0..m |->
              IF n = 0 THEN <<>>
              ELSE IF list[n].id = id THEN f[n - 1] ELSE Append(f[n - 1], list[n])]
<1> DEFINE T == {m \in 0..Len(list) : \E f : Shape(f, m)}
<1>1. 0 \in T
  <2> DEFINE f == [n \in 0..0 |-> <<>>]
  <2>1. Shape(f, 0) OBVIOUS
  <2> HIDE DEF Shape, f
  <2> QED BY <2>1
<1>2. ASSUME NEW k \in 0..(Len(list) - 1), k \in T PROVE k + 1 \in T
  <2>1. PICK f : Shape(f, k) BY <1>2
  <2> DEFINE last == IF list[k + 1].id = id THEN f[k] ELSE Append(f[k], list[k + 1])
             g == [n \in 0..(k + 1) |-> IF n = k + 1 THEN last ELSE f[n]]
  <2>2. \A n \in 0..(k + 1) : g[n] = IF n = 0 THEN <<>>
                 ELSE IF list[n].id = id THEN g[n - 1] ELSE Append(g[n - 1], list[n])
    <3> SUFFICES ASSUME NEW n \in 0..(k + 1)
                 PROVE  g[n] = IF n = 0 THEN <<>>
                     ELSE IF list[n].id = id THEN g[n - 1] ELSE Append(g[n - 1], list[n])
      OBVIOUS
    <3>1. CASE n = k + 1
      <4>1. g[n] = last /\ n # 0 /\ n - 1 = k /\ k \in 0..(k + 1) /\ k # k + 1 BY <3>1
      <4>2. g[n - 1] = f[k] BY <4>1
      <4> QED BY <3>1, <4>1, <4>2
    <3>2. CASE n \in 0..k
      <4>1. g[n] = f[n] BY <3>2
      <4>2. n # 0 => n - 1 \in 0..(k + 1) /\ n - 1 # k + 1 BY <3>2
      <4>3. n # 0 => g[n - 1] = f[n - 1] BY <4>2
      <4>4. f[n] = IF n = 0 THEN <<>>
                   ELSE IF list[n].id = id THEN f[n - 1] ELSE Append(f[n - 1], list[n])
        BY <2>1, <3>2
      <4> QED BY <4>1, <4>3, <4>4
    <3> QED BY <3>1, <3>2
  <2>3. Shape(g, k + 1)
    <3>1. g = [n \in 0..(k + 1) |-> g[n]] OBVIOUS
    <3> HIDE DEF g
    <3> QED BY <2>2, <3>1
  <2>4. k + 1 \in 0..Len(list) OBVIOUS
  <2> HIDE DEF Shape, g
  <2> QED BY <2>3, <2>4
<1>3. Len(list) \in T
  <2> HIDE DEF T
  <2> QED BY <1>1, <1>2, UpTo
<1>4. \E f : Shape(f, Len(list)) BY <1>3
<1> DEFINE kept == CHOOSE f : Shape(f, Len(list))
<1>5. Shape(kept, Len(list)) 
  <2> HIDE DEF Shape
  <2> QED BY <1>4
<1>6. Kept(list, id) = kept[Len(list)] BY DEF Kept
<1>7. Keeps(kept, list, id)
  <2> HIDE DEF kept
  <2> QED BY <1>5 DEF Keeps
<1> QED BY <1>6, <1>7

\* std::erase_if leaves the slots with another id, and leaves them in order.
LEMMA KeptSlots ==
  ASSUME NEW S, NEW list \in Seq(S), NEW id
  PROVE  /\ Kept(list, id) \in Seq(S)
         /\ \A i \in DOMAIN Kept(list, id) :
               \E k \in DOMAIN list : Kept(list, id)[i] = list[k] /\ list[k].id # id
         /\ \A k \in DOMAIN list : list[k].id # id =>
               \E i \in DOMAIN Kept(list, id) : Kept(list, id)[i] = list[k]
         /\ \A i, j \in DOMAIN Kept(list, id) : i < j =>
               \E k, l \in DOMAIN list : /\ k < l
                                         /\ Kept(list, id)[i] = list[k]
                                         /\ Kept(list, id)[j] = list[l]
<1>1. PICK f : Keeps(f, list, id) /\ Kept(list, id) = f[Len(list)] BY KeptExists
<1> DEFINE Stays(m) == \A i \in 1..Len(f[m]) :
                          \E k \in 1..m : f[m][i] = list[k] /\ list[k].id # id
           Complete(m) == \A k \in 1..m : list[k].id # id =>
                             \E i \in 1..Len(f[m]) : f[m][i] = list[k]
           Ordered(m) == \A i, j \in 1..Len(f[m]) : i < j =>
                            \E k, l \in 1..m : k < l /\ f[m][i] = list[k] /\ f[m][j] = list[l]
           Right(m) == f[m] \in Seq(S) /\ Stays(m) /\ Complete(m) /\ Ordered(m)
           T == {m \in 0..Len(list) : Right(m)}
<1>2. 0 \in T
  <2>1. f[0] = <<>> BY <1>1 DEF Keeps
  <2>2. f[0] \in Seq(S) /\ Len(f[0]) = 0 BY <2>1
  <2>3. Right(0) BY <2>2
  <2> HIDE DEF Right
  <2> QED BY <2>3
<1>3. ASSUME NEW m \in 0..(Len(list) - 1), m \in T PROVE m + 1 \in T
  <2>1. Right(m) BY <1>3
  <2>2. /\ m + 1 \in 0..Len(list) /\ m + 1 # 0 /\ (m + 1) - 1 = m
        /\ m + 1 \in 1..Len(list) /\ \A k \in 1..m : k \in 1..(m + 1)
    OBVIOUS
  <2>3. f[m + 1] = IF list[m + 1].id = id THEN f[m] ELSE Append(f[m], list[m + 1])
    BY <1>1, <2>2 DEF Keeps
  <2>4. CASE list[m + 1].id = id
    <3>1. f[m + 1] = f[m] BY <2>3, <2>4
    <3>2. f[m + 1] \in Seq(S) BY <2>1, <3>1
    <3>3. Stays(m + 1) BY <2>1, <2>2, <3>1
    <3>4. Complete(m + 1) BY <2>1, <2>2, <2>4, <3>1
    <3>5. Ordered(m + 1) BY <2>1, <2>2, <3>1
    <3> HIDE DEF Stays, Complete, Ordered
    <3> QED BY <2>2, <3>2, <3>3, <3>4, <3>5
  <2>5. CASE list[m + 1].id # id
    <3> DEFINE n == Len(f[m])
    <3>1. f[m + 1] = Append(f[m], list[m + 1]) BY <2>3, <2>5
    <3>2. list[m + 1] \in S BY <2>2
    <3>3. /\ f[m + 1] \in Seq(S) /\ Len(f[m + 1]) = n + 1 /\ n \in Nat
          /\ f[m + 1][n + 1] = list[m + 1]
          /\ \A i \in 1..n : f[m + 1][i] = f[m][i]
      BY <2>1, <3>1, <3>2
    <3>4. \A i \in 1..(n + 1) : i \in 1..n \/ i = n + 1 BY <3>3
    <3>5. Stays(m + 1) BY <2>1, <2>2, <2>5, <3>3, <3>4
    <3>6. Complete(m + 1)
      <4> SUFFICES ASSUME NEW k \in 1..(m + 1), list[k].id # id
                   PROVE  \E i \in 1..Len(f[m + 1]) : f[m + 1][i] = list[k]
        OBVIOUS
      <4>1. CASE k = m + 1 BY <3>3, <4>1
      <4>2. CASE k \in 1..m
        <5>1. PICK i \in 1..n : f[m][i] = list[k] BY <2>1, <4>2
        <5> QED BY <3>3, <5>1
      <4> QED BY <4>1, <4>2
    <3>7. Ordered(m + 1)
      <4> SUFFICES ASSUME NEW i \in 1..(n + 1), NEW j \in 1..(n + 1), i < j
                   PROVE  \E k, l \in 1..(m + 1) : /\ k < l
                              /\ f[m + 1][i] = list[k] /\ f[m + 1][j] = list[l]
        BY <3>3
      <4>1. i \in 1..n /\ f[m + 1][i] = f[m][i] BY <3>3
      <4>2. CASE j \in 1..n BY <2>1, <2>2, <3>3, <4>1, <4>2
      <4>3. CASE j = n + 1
        <5>1. PICK k \in 1..m : f[m][i] = list[k] BY <2>1, <4>1
        <5>2. k < m + 1 /\ f[m + 1][j] = list[m + 1] BY <3>3, <4>3
        <5> QED BY <2>2, <4>1, <5>1, <5>2
      <4> QED BY <3>3, <4>2, <4>3
    <3> HIDE DEF Stays, Complete, Ordered
    <3> QED BY <2>2, <3>3, <3>5, <3>6, <3>7
  <2> QED BY <2>4, <2>5
<1>4. Len(list) \in T
  <2> HIDE DEF T
  <2> QED BY <1>2, <1>3, UpTo
<1>5. Right(Len(list)) BY <1>4
<1>6. f[Len(list)] \in Seq(S) BY <1>5
<1>7. /\ DOMAIN f[Len(list)] = 1..Len(f[Len(list)])
      /\ DOMAIN list = 1..Len(list)
  BY <1>6
<1> HIDE DEF Stays, Complete, Ordered
<1>8. Stays(Len(list)) /\ Complete(Len(list)) /\ Ordered(Len(list)) BY <1>5
<1> HIDE DEF Right, T
<1>9. \A i \in DOMAIN Kept(list, id) :
         \E k \in DOMAIN list : Kept(list, id)[i] = list[k] /\ list[k].id # id
  BY <1>1, <1>7, <1>8 DEF Stays
<1>10. \A k \in DOMAIN list : list[k].id # id =>
          \E i \in DOMAIN Kept(list, id) : Kept(list, id)[i] = list[k]
  BY <1>1, <1>7, <1>8 DEF Complete
<1>11. \A i, j \in DOMAIN Kept(list, id) : i < j =>
          \E k, l \in DOMAIN list : /\ k < l
                                    /\ Kept(list, id)[i] = list[k]
                                    /\ Kept(list, id)[j] = list[l]
  <2> DEFINE kept == f[Len(list)]
  <2>1. \A i, j \in 1..Len(kept) : i < j =>
           \E k, l \in 1..Len(list) : k < l /\ kept[i] = list[k] /\ kept[j] = list[l]
    BY <1>8 DEF Ordered
  <2>2. kept = Kept(list, id) /\ DOMAIN kept = 1..Len(kept) BY <1>1, <1>7
  <2> HIDE DEF kept
  <2>3. \A i, j \in DOMAIN kept : i < j =>
           \E k, l \in DOMAIN list : k < l /\ kept[i] = list[k] /\ kept[j] = list[l]
    BY <2>1, <2>2, <1>7
  <2> QED BY <2>2, <2>3
<1>12. Kept(list, id) \in Seq(S) BY <1>1, <1>6
<1> QED BY <1>9, <1>10, <1>11, <1>12

-----------------------------------------------------------------------------
(* Calls                                                                    *)

\* Front drops the last element, Last is that element.
LEMMA FrontIs ==
  ASSUME NEW S, NEW s \in Seq(S), s # <<>>
  PROVE  /\ Len(s) \in Nat \ {0} /\ DOMAIN s = 1..Len(s)
         /\ Front(s) \in Seq(S) /\ Len(Front(s)) = Len(s) - 1
         /\ DOMAIN Front(s) = 1..(Len(s) - 1)
         /\ \A i \in 1..(Len(s) - 1) : Front(s)[i] = s[i]
         /\ Last(s) = s[Len(s)] /\ Last(s) \in S
<1>1. Len(s) \in Nat \ {0} OBVIOUS
<1>2. Front(s) = SubSeq(s, 1, Len(s) - 1) BY DEF Front
<1>3. /\ Front(s) \in Seq(S) /\ DOMAIN Front(s) = 1..(Len(s) - 1)
      /\ \A i \in 1..(Len(s) - 1) : Front(s)[i] = s[i]
  BY <1>1, <1>2
<1>4. Len(Front(s)) = Len(s) - 1 BY <1>1, <1>3
<1> QED BY <1>1, <1>3, <1>4 DEF Last

\* What Append adds to a sequence.
LEMMA AppendType ==
  ASSUME NEW S, NEW n \in Nat, NEW s \in [1..n -> S], NEW e \in S
  PROVE  Append(s, e) \in [1..(n + 1) -> S]
<1>1. s \in Seq(S) /\ Len(s) = n OBVIOUS
<1>2. Append(s, e) \in Seq(S) /\ Len(Append(s, e)) = n + 1 BY <1>1
<1> QED BY <1>2, LenProperties

\* A sequence over S holds elements of S.
LEMMA Elements ==
  ASSUME NEW S, NEW s \in Seq(S)
  PROVE  /\ Len(s) \in Nat /\ DOMAIN s = 1..Len(s)
         /\ \A i \in DOMAIN s : s[i] \in S
OBVIOUS

\* A sequence that is not empty is its head and its tail.
LEMMA HeadAndTail ==
  ASSUME NEW S, NEW s \in Seq(S), s # <<>>
  PROVE  /\ Len(s) \in Nat \ {0} /\ DOMAIN s = 1..Len(s)
         /\ Head(s) = s[1] /\ Head(s) \in S
         /\ Tail(s) \in Seq(S) /\ DOMAIN Tail(s) = 1..(Len(s) - 1)
         /\ \A i \in 1..(Len(s) - 1) : Tail(s)[i] = s[i + 1]
<1>1. Len(s) \in Nat \ {0} /\ DOMAIN s = 1..Len(s) OBVIOUS
<1>2. Head(s) = s[1] /\ 1 \in DOMAIN s BY <1>1
<1>3. Tail(s) \in Seq(S) /\ Len(Tail(s)) = Len(s) - 1 BY <1>1
<1>4. DOMAIN Tail(s) = 1..(Len(s) - 1) BY <1>3
<1>5. \A i \in 1..(Len(s) - 1) : Tail(s)[i] = s[i + 1] BY <1>1
<1>6. Head(s) \in S BY <1>2
<1> QED BY <1>1, <1>2, <1>3, <1>4, <1>5, <1>6

\* A call on top of the others
OnTop(st, t, frame) == [st EXCEPT ![t] = Append(@, frame)]

\* A call that begins is on top of its thread; nothing else changes.
LEMMA PushIs ==
  ASSUME NEW S, NEW st \in [Threads -> Seq(S)], NEW t \in Threads, NEW frame, NEW new,
         new = OnTop(st, t, frame)
  PROVE  /\ frame \in S => new \in [Threads -> Seq(S)]
         /\ \A u \in Threads : u # t => new[u] = st[u]
         /\ Len(st[t]) \in Nat /\ DOMAIN st[t] = 1..Len(st[t])
         /\ DOMAIN new[t] = 1..(Len(st[t]) + 1)
         /\ \A i \in 1..Len(st[t]) : new[t][i] = st[t][i]
         /\ new[t][Len(st[t]) + 1] = frame
<1> USE DEF OnTop
<1>1. new[t] = Append(st[t], frame) /\ st[t] \in Seq(S) OBVIOUS
<1>2. st[t] \in Seq(S \cup {frame}) BY <1>1
<1>3. new[t] \in Seq(S \cup {frame}) BY <1>1, <1>2
<1> QED BY <1>1, <1>2, <1>3

\* The return of a call
LEMMA PopIs ==
  ASSUME NEW S, stack \in [Threads -> Seq(S)], NEW t \in Threads, stack[t] # <<>>
  PROVE  /\ Popped(t) \in [Threads -> Seq(S)]
         /\ \A u \in Threads : u # t => Popped(t)[u] = stack[u]
         /\ Len(stack[t]) \in Nat \ {0} /\ DOMAIN stack[t] = 1..Len(stack[t])
         /\ DOMAIN Popped(t)[t] = 1..(Len(stack[t]) - 1)
         /\ \A i \in 1..(Len(stack[t]) - 1) : Popped(t)[t][i] = stack[t][i]
         /\ Top(t) = stack[t][Len(stack[t])] /\ Top(t) \in S
<1>1. Popped(t) = [stack EXCEPT ![t] = Front(stack[t])] BY DEF Popped
<1>2. Popped(t)[t] = Front(stack[t]) BY <1>1
<1>3. stack[t] \in Seq(S) OBVIOUS
<1>4. /\ Len(stack[t]) \in Nat \ {0} /\ DOMAIN stack[t] = 1..Len(stack[t])
      /\ Front(stack[t]) \in Seq(S)
      /\ DOMAIN Popped(t)[t] = 1..(Len(stack[t]) - 1)
      /\ \A i \in 1..(Len(stack[t]) - 1) : Popped(t)[t][i] = stack[t][i]
      /\ Top(t) = stack[t][Len(stack[t])] /\ Top(t) \in S
  BY <1>2, <1>3, FrontIs DEF Top
<1>5. Popped(t) \in [Threads -> Seq(S)] BY <1>1, <1>4
<1>6. \A u \in Threads : u # t => Popped(t)[u] = stack[u] BY <1>1
<1> QED BY <1>4, <1>5, <1>6

\* A change of the innermost call
LEMMA TopIs ==
  ASSUME NEW S, stack \in [Threads -> Seq(S)], NEW t \in Threads, stack[t] # <<>>, NEW frame
  PROVE  /\ frame \in S => WithTop(t, frame) \in [Threads -> Seq(S)]
         /\ \A u \in Threads : u # t => WithTop(t, frame)[u] = stack[u]
         /\ Len(stack[t]) \in Nat \ {0} /\ DOMAIN stack[t] = 1..Len(stack[t])
         /\ DOMAIN WithTop(t, frame)[t] = 1..Len(stack[t])
         /\ \A i \in 1..(Len(stack[t]) - 1) : WithTop(t, frame)[t][i] = stack[t][i]
         /\ WithTop(t, frame)[t][Len(stack[t])] = frame
         /\ Top(t) = stack[t][Len(stack[t])] /\ Top(t) \in S
<1>1. stack[t] \in Seq(S) /\ Len(stack[t]) \in Nat \ {0} OBVIOUS
<1> DEFINE front == Front(stack[t])
<1>2. /\ front \in Seq(S) /\ Len(front) = Len(stack[t]) - 1
      /\ \A i \in 1..(Len(stack[t]) - 1) : front[i] = stack[t][i]
  BY <1>1, FrontIs
<1>3. WithTop(t, frame) = [stack EXCEPT ![t] = Append(front, frame)] BY DEF WithTop
<1>4. Top(t) = stack[t][Len(stack[t])] BY DEF Top, Last
<1> HIDE DEF front
<1>5. WithTop(t, frame)[t] = Append(front, frame) BY <1>3
<1>6. front \in Seq(S \cup {frame}) BY <1>2
<1>7. /\ Append(front, frame) \in Seq(S \cup {frame})
      /\ Len(Append(front, frame)) = Len(stack[t])
      /\ \A i \in 1..(Len(stack[t]) - 1) : Append(front, frame)[i] = front[i]
      /\ Append(front, frame)[Len(stack[t])] = frame
  BY <1>1, <1>2, <1>6
<1>8. frame \in S => WithTop(t, frame) \in [Threads -> Seq(S)] BY <1>2, <1>3
<1>9. DOMAIN WithTop(t, frame)[t] = 1..Len(stack[t]) BY <1>5, <1>7
<1>10. \A u \in Threads : u # t => WithTop(t, frame)[u] = stack[u] BY <1>3
<1> QED BY <1>1, <1>2, <1>4, <1>5, <1>7, <1>8, <1>9, <1>10

\* The lists that the calls hold
LEMMA PushHolds ==
  ASSUME NEW S, NEW st \in [Threads -> Seq(S)], NEW t \in Threads, NEW frame, NEW new,
         new = OnTop(st, t, frame), NEW a
  PROVE  HeldIn(new, a) <=> HeldIn(st, a) \/ (frame.call = "emit" /\ frame.list = a)
<1> DEFINE n == Len(st[t])
<1>1. /\ \A u \in Threads : u # t => new[u] = st[u]
      /\ n \in Nat /\ DOMAIN st[t] = 1..n /\ DOMAIN new[t] = 1..(n + 1)
      /\ \A i \in 1..n : new[t][i] = st[t][i]
      /\ new[t][n + 1] = frame
  BY PushIs
<1> HIDE DEF n
<1>2. (\A i \in 1..(n + 1) : i \in 1..n \/ i = n + 1) /\ n + 1 \in 1..(n + 1)
      /\ \A i \in 1..n : i \in 1..(n + 1)
  BY <1>1
<1>3. \A u \in Threads : \A i \in DOMAIN st[u] : i \in DOMAIN new[u] /\ new[u][i] = st[u][i]
  BY <1>1, <1>2
<1>4. \A u \in Threads : \A i \in DOMAIN new[u] :
         (i \in DOMAIN st[u] /\ new[u][i] = st[u][i]) \/ new[u][i] = frame
  BY <1>1, <1>2
<1>5. HeldIn(st, a) => HeldIn(new, a) BY <1>3 DEF HeldIn
<1>6. frame.call = "emit" /\ frame.list = a => HeldIn(new, a) BY <1>1, <1>2 DEF HeldIn
<1>7. HeldIn(new, a) => HeldIn(st, a) \/ (frame.call = "emit" /\ frame.list = a)
  BY <1>4 DEF HeldIn
<1> QED BY <1>5, <1>6, <1>7

\* A call that returns takes no list, and only an emit() gives one back.
LEMMA PopHolds ==
  ASSUME NEW S, stack \in [Threads -> Seq(S)], NEW t \in Threads, stack[t] # <<>>, NEW a
  PROVE  /\ HeldIn(Popped(t), a) => HeldIn(stack, a)
         /\ Top(t).call # "emit" => (HeldIn(stack, a) => HeldIn(Popped(t), a))
<1> DEFINE new == Popped(t)  n == Len(stack[t])
<1>1. /\ \A u \in Threads : u # t => new[u] = stack[u]
      /\ n \in Nat \ {0} /\ DOMAIN stack[t] = 1..n /\ DOMAIN new[t] = 1..(n - 1)
      /\ \A i \in 1..(n - 1) : new[t][i] = stack[t][i]
      /\ stack[t][n] = Top(t)
  BY PopIs
<1> HIDE DEF new, n
<1>2. \A i \in 1..n : i \in 1..(n - 1) \/ i = n BY <1>1
<1>3. \A u \in Threads : \A i \in DOMAIN new[u] :
         i \in DOMAIN stack[u] /\ new[u][i] = stack[u][i]
  BY <1>1
<1>4. \A u \in Threads : \A i \in DOMAIN stack[u] :
         \/ i \in DOMAIN new[u] /\ new[u][i] = stack[u][i]
         \/ stack[u][i] = Top(t)
  BY <1>1, <1>2
<1>5. /\ HeldIn(new, a) => HeldIn(stack, a)
      /\ Top(t).call # "emit" => (HeldIn(stack, a) => HeldIn(new, a))
  BY <1>3, <1>4 DEF HeldIn
<1> QED BY <1>5 DEF new

\* An emit() that goes on holds the list that it held.
LEMMA TopHolds ==
  ASSUME NEW S, stack \in [Threads -> Seq(S)], NEW t \in Threads, stack[t] # <<>>, NEW frame,
         frame.call = Top(t).call, frame.call = "emit" => frame.list = Top(t).list, NEW a
  PROVE  HeldIn(WithTop(t, frame), a) <=> HeldIn(stack, a)
<1> DEFINE new == WithTop(t, frame)  n == Len(stack[t])
<1>a. /\ \A u \in Threads : u # t => new[u] = stack[u]
      /\ n \in Nat \ {0} /\ DOMAIN stack[t] = 1..n /\ DOMAIN new[t] = 1..n
      /\ \A i \in 1..(n - 1) : new[t][i] = stack[t][i]
      /\ stack[t][n] = Top(t) /\ new[t][n] = frame
  BY TopIs
<1> HIDE DEF new, n
<1>b. \A i \in 1..n : i \in 1..(n - 1) \/ i = n BY <1>a
<1>1. \A u \in Threads : \A i \in DOMAIN stack[u] :
         \/ new[u][i] = stack[u][i]
         \/ stack[u][i] = Top(t) /\ new[u][i] = frame
  BY <1>a, <1>b
<1>2. \A u \in Threads : DOMAIN new[u] = DOMAIN stack[u] BY <1>a
<1>3. \A u \in Threads : \A i \in DOMAIN stack[u] :
         /\ new[u][i].call = stack[u][i].call
         /\ stack[u][i].call = "emit" => new[u][i].list = stack[u][i].list
  BY <1>1
<1>4. HeldIn(new, a) => HeldIn(stack, a)
  <2> SUFFICES ASSUME NEW u \in Threads, NEW i \in DOMAIN new[u],
                      new[u][i].call = "emit", new[u][i].list = a
               PROVE  HeldIn(stack, a)
    BY DEF HeldIn
  <2>1. i \in DOMAIN stack[u] BY <1>2
  <2> QED BY <1>3, <2>1 DEF HeldIn
<1>5. HeldIn(stack, a) => HeldIn(new, a)
  <2> SUFFICES ASSUME NEW u \in Threads, NEW i \in DOMAIN stack[u],
                      stack[u][i].call = "emit", stack[u][i].list = a
               PROVE  HeldIn(new, a)
    BY DEF HeldIn
  <2> QED BY <1>2, <1>3 DEF HeldIn
<1> QED BY <1>4, <1>5 DEF new

-----------------------------------------------------------------------------
(* Types                                                                    *)

\* The field call tells what a frame is.
LEMMA FrameKinds ==
  ASSUME NEW frame \in Frames
  PROVE  /\ frame.call \in {"emit", "disconnect", "flush"}
         /\ frame.call = "emit" <=> frame \in EmitFrames
         /\ frame.call = "disconnect" <=> frame \in DisconnectFrames
         /\ frame.call = "flush" <=> frame \in FlushFrames
BY DEF Frames, EmitFrames, DisconnectFrames, FlushFrames

\* The lists that snapshots hold are alive: m_handlers' shared_ptr counts them.
LEMMA HeldIsAlive ==
  ASSUME NEW st \in [Threads -> Seq(Frames)], NEW a, HeldIn(st, a)
  PROVE  a \in DOMAIN lists
<1>0. PICK t \in Threads :
         \E i \in DOMAIN st[t] : st[t][i].call = "emit" /\ st[t][i].list = a
  BY DEF HeldIn
<1>1. PICK i \in DOMAIN st[t] : st[t][i].call = "emit" /\ st[t][i].list = a
  BY <1>0
<1>2. st[t][i] \in Frames OBVIOUS
<1>3. st[t][i] \in EmitFrames BY <1>1, <1>2, FrameKinds
<1> QED BY <1>1, <1>3 DEF EmitFrames

\* A call in progress keeps its type when subscriptions and posts are added and
\* the list that an emit() holds stays alive.
LEMMA FramesStay ==
  ASSUME NEW st \in [Threads -> Seq(Frames)],
         DOMAIN slotOf \subseteq DOMAIN slotOf',
         posts \in Nat, posts' \in Nat, posts <= posts',
         \A a : HeldIn(st, a) => a \in DOMAIN lists'
  PROVE  st \in [Threads -> Seq(Frames')]
<1>1. ASSUME NEW t \in Threads, NEW i \in DOMAIN st[t] PROVE st[t][i] \in Frames'
  <2>1. st[t][i] \in Frames BY <1>1
  <2>2. CASE st[t][i] \in EmitFrames
    <3>1. st[t][i].call = "emit" BY <2>2 DEF EmitFrames
    <3>2. HeldIn(st, st[t][i].list) BY <1>1, <3>1 DEF HeldIn
    <3>3. st[t][i].list \in DOMAIN lists' BY <3>2
    <3>4. st[t][i] \in EmitFrames' BY <2>2, <3>3 DEF EmitFrames
    <3> QED BY <3>4 DEF Frames
  <2>3. CASE st[t][i] \in DisconnectFrames
    <3>1. st[t][i] \in DisconnectFrames' BY <2>3 DEF DisconnectFrames
    <3> QED BY <3>1 DEF Frames
  <2>4. CASE st[t][i] \in FlushFrames
    <3>1. 1..posts \subseteq 1..posts' OBVIOUS
    <3>2. \A b \in Seq(1..posts) : b \in Seq(1..posts') BY <3>1
    <3>3. st[t][i] \in FlushFrames' BY <2>4, <3>2 DEF FlushFrames
    <3> QED BY <3>3 DEF Frames
  <2> QED BY <2>1, <2>2, <2>3, <2>4 DEF Frames
<1>2. ASSUME NEW t \in Threads PROVE st[t] \in Seq(Frames')
  <2>1. st[t] \in Seq(Frames) /\ \A i \in DOMAIN st[t] : st[t][i] \in Frames' BY <1>1
  <2> QED BY <2>1
<1> QED BY <1>2

\* A new list never takes the address of one that is alive.
LEMMA FreshIsFree ==
  ASSUME IsFiniteSet(DOMAIN lists)
  PROVE  Fresh \in Nat /\ Fresh \notin DOMAIN lists
<1> DEFINE n == Cardinality(DOMAIN lists)
<1>1. n \in Nat BY FS_CardinalityType
<1> HIDE DEF n
<1>2. Cardinality(0..n) = n + 1 /\ IsFiniteSet(0..n)
  <2>1. /\ IsFiniteSet(0..n)
        /\ Cardinality(0..n) = IF 0 > n THEN 0 ELSE n - 0 + 1
    BY <1>1, FS_Interval
  <2> QED BY <1>1, <2>1
<1>3. \E a \in 0..n : a \notin DOMAIN lists
  <2> SUFFICES ASSUME 0..n \subseteq DOMAIN lists PROVE FALSE OBVIOUS
  <2>1. Cardinality(0..n) <= n BY FS_Subset DEF n
  <2> QED BY <1>1, <1>2, <2>1
<1>4. Fresh \in 0..n /\ Fresh \notin DOMAIN lists BY <1>3 DEF Fresh, n
<1> QED BY <1>1, <1>4

\* A writer gets a list that no emit() holds, and leaves the others.
LEMMA Writes ==
  ASSUME TypeOK, NEW list, WriteList(CowDetach, list)
  PROVE  /\ current' \in Nat /\ DOMAIN lists' = DOMAIN lists \cup {current'}
         /\ lists'[current'] = list
         /\ \A a \in DOMAIN lists : a # current' => lists'[a] = lists[a]
         /\ ~HeldIn(stack, current')
         /\ \A a \in DOMAIN lists' : a = current' \/ HeldIn(stack, a)
<1>1. /\ current \in DOMAIN lists /\ DOMAIN lists \subseteq Nat
      /\ IsFiniteSet(DOMAIN lists) /\ stack \in [Threads -> Seq(Frames)]
      /\ \A a \in DOMAIN lists : a = current \/ HeldIn(stack, a)
  BY DEF TypeOK, ListsOK
<1>2. /\ CowDetach \in Nat /\ ~HeldIn(stack, CowDetach)
      /\ \A a \in DOMAIN lists : a = CowDetach \/ HeldIn(stack, a)
  <2>1. CASE HeldIn(stack, current)
    <3>1. CowDetach = Fresh BY <2>1 DEF CowDetach
    <3>2. Fresh \in Nat /\ Fresh \notin DOMAIN lists BY <1>1, FreshIsFree
    <3>3. ~HeldIn(stack, Fresh) BY <1>1, <3>2, HeldIsAlive
    <3> QED BY <1>1, <2>1, <3>1, <3>2, <3>3
  <2>2. CASE ~HeldIn(stack, current)
    <3>1. CowDetach = current BY <2>2 DEF CowDetach
    <3> QED BY <1>1, <2>2, <3>1
  <2> QED BY <2>1, <2>2
<1>3. /\ current' = CowDetach
      /\ lists' = [x \in DOMAIN lists \cup {CowDetach} |->
                     IF x = CowDetach THEN list ELSE lists[x]]
  BY DEF WriteList
<1> QED BY <1>1, <1>2, <1>3

\* What a call that touches neither the subscriptions nor the lists keeps
LEMMA StackType ==
  ASSUME TypeOK, UNCHANGED <<lists, current, nextId, connections, live>>,
         MessagesOK', stack' \in [Threads -> Seq(Frames')],
         \A a : HeldIn(stack, a) => HeldIn(stack', a)
  PROVE  TypeOK'
<1>1. ListsOK /\ SlotsOK BY DEF TypeOK
<1>2. ListsOK' BY <1>1 DEF ListsOK, Slots, connections
<1>3. SlotsOK' BY <1>1 DEF SlotsOK, connections
<1> QED BY <1>2, <1>3 DEF TypeOK

\* The calls in progress keep their type also after one that counts a post.
LEMMA SameFrames ==
  ASSUME TypeOK, UNCHANGED <<lists, slotOf>>, posts' \in Nat, posts <= posts'
  PROVE  stack \in [Threads -> Seq(Frames')]
<1>1. stack \in [Threads -> Seq(Frames)] BY DEF TypeOK
<1>2. posts \in Nat BY DEF TypeOK, MessagesOK
<1>3. \A a : HeldIn(stack, a) => a \in DOMAIN lists' BY <1>1, HeldIsAlive
<1> QED BY <1>1, <1>2, <1>3, FramesStay

\* A list names subscriptions that were made.
LEMMA SubsType ==
  ASSUME TypeOK, NEW a \in DOMAIN lists
  PROVE  Subs(lists[a]) \in Seq(1..MaxSubs)
<1>1. lists[a] \in Seq(Slots) BY DEF TypeOK, ListsOK
<1>2. slotOf \in Seq(Nat \ {0}) /\ Len(slotOf) \in 0..MaxSubs BY DEF TypeOK, SlotsOK
<1>3. DOMAIN slotOf \subseteq 1..MaxSubs
  <2>1. DOMAIN slotOf = 1..Len(slotOf) BY <1>2
  <2> QED BY <1>2, <2>1, EventAssumption
<1>4. \A i \in DOMAIN lists[a] : lists[a][i].sub \in 1..MaxSubs
  <2>1. \A i \in DOMAIN lists[a] : lists[a][i] \in Slots BY <1>1
  <2>2. \A slot \in Slots : slot.sub \in 1..MaxSubs BY <1>3 DEF Slots
  <2> QED BY <2>1, <2>2
<1>5. DOMAIN lists[a] = 1..Len(lists[a]) /\ Len(lists[a]) \in Nat BY <1>1
<1>6. Subs(lists[a]) = [i \in 1..Len(lists[a]) |-> lists[a][i].sub] BY <1>5 DEF Subs
<1> QED BY <1>4, <1>5, <1>6

\* The snapshot of emit() is a call of its kind.
LEMMA SnapshotType ==
  ASSUME TypeOK
  PROVE  Snapshot \in EmitFrames
<1>1. current \in DOMAIN lists BY DEF TypeOK, ListsOK
<1>2. Subs(lists[current]) \in Seq(1..MaxSubs) BY <1>1, SubsType
<1>3. <<>> \in Seq(1..MaxSubs) OBVIOUS
<1> QED BY <1>1, <1>2, <1>3 DEF Snapshot, EmitFrames

\* A writer keeps the type when the list that it writes has it.
LEMMA WriteType ==
  ASSUME TypeOK, NEW list, WriteList(CowDetach, list),
         DOMAIN slotOf \subseteq DOMAIN slotOf', list \in Seq(Slots')
  PROVE  /\ DOMAIN lists' \subseteq Nat /\ IsFiniteSet(DOMAIN lists')
         /\ current' \in DOMAIN lists'
         /\ \A a \in DOMAIN lists' : lists'[a] \in Seq(Slots')
         /\ \A a \in DOMAIN lists' : a = current' \/ HeldIn(stack, a)
         /\ \A a : HeldIn(stack, a) => a \in DOMAIN lists'
<1>1. /\ DOMAIN lists \subseteq Nat /\ IsFiniteSet(DOMAIN lists)
      /\ \A a \in DOMAIN lists : lists[a] \in Seq(Slots)
      /\ stack \in [Threads -> Seq(Frames)]
  BY DEF TypeOK, ListsOK
<1>2. Slots \subseteq Slots' BY DEF Slots
<1>3. \A s \in Seq(Slots) : s \in Seq(Slots') BY <1>2
<1>4. IsFiniteSet(DOMAIN lists \cup {current'}) BY <1>1, FS_AddElement
<1>5. \A a \in DOMAIN lists' : lists'[a] \in Seq(Slots') BY <1>1, <1>3, Writes
<1> QED BY <1>1, <1>4, <1>5, Writes, HeldIsAlive

\* subscribe() keeps the type.
LEMMA SubscribeType ==
  ASSUME TypeOK, NEW t \in Threads, Subscribe(t)
  PROVE  TypeOK'
<1>1. /\ slotOf \in Seq(Nat \ {0}) /\ Len(slotOf) \in 0..MaxSubs /\ nextId \in Nat \ {0}
      /\ active \in [DOMAIN slotOf -> BOOLEAN] /\ live \subseteq DOMAIN slotOf
  BY DEF TypeOK, SlotsOK
<1>2. current \in DOMAIN lists /\ lists[current] \in Seq(Slots) BY DEF TypeOK, ListsOK
<1> DEFINE list == Append(lists[current], [id |-> nextId, sub |-> Len(slotOf) + 1])
<1>3. /\ Len(slotOf) < MaxSubs
      /\ slotOf' = Append(slotOf, nextId) /\ nextId' = nextId + 1
      /\ active' = Append(active, TRUE) /\ live' = live \cup {Len(slotOf) + 1}
      /\ stack' = stack /\ messages' = messages
      /\ WriteList(CowDetach, list)
  BY DEF Subscribe
<1>4. /\ slotOf' \in Seq(Nat \ {0}) /\ Len(slotOf') = Len(slotOf) + 1
      /\ DOMAIN slotOf' = 1..(Len(slotOf) + 1) /\ DOMAIN slotOf = 1..Len(slotOf)
      /\ DOMAIN slotOf \subseteq DOMAIN slotOf' /\ Len(slotOf) + 1 \in DOMAIN slotOf'
  BY <1>1, <1>3
<1>5. nextId' \in Nat \ {0} /\ live' \subseteq DOMAIN slotOf' BY <1>1, <1>3, <1>4
<1>6. active' \in [DOMAIN slotOf' -> BOOLEAN]
  <2>1. active \in [1..Len(slotOf) -> BOOLEAN] BY <1>1, <1>4
  <2>a. TRUE \in BOOLEAN /\ Len(slotOf) \in Nat BY <1>1
  <2>2. Append(active, TRUE) \in [1..(Len(slotOf) + 1) -> BOOLEAN]
    BY <2>1, <2>a, AppendType, Zenon
  <2> QED BY <1>3, <1>4, <2>2
<1>7. list \in Seq(Slots')
  <2>1. Slots \subseteq Slots' BY <1>4 DEF Slots
  <2>2. lists[current] \in Seq(Slots') BY <1>2, <2>1
  <2>3. [id |-> nextId, sub |-> Len(slotOf) + 1] \in Slots' BY <1>1, <1>4 DEF Slots
  <2> QED BY <2>2, <2>3
<1> HIDE DEF list
<1>8. /\ DOMAIN lists' \subseteq Nat /\ IsFiniteSet(DOMAIN lists')
      /\ current' \in DOMAIN lists'
      /\ \A a \in DOMAIN lists' : lists'[a] \in Seq(Slots')
      /\ \A a \in DOMAIN lists' : a = current' \/ HeldIn(stack, a)
      /\ \A a : HeldIn(stack, a) => a \in DOMAIN lists'
  BY <1>3, <1>4, <1>7, WriteType
<1>9. ListsOK' BY <1>3, <1>8 DEF ListsOK
<1>10. SlotsOK'
  <2>1. Len(slotOf') \in 0..MaxSubs BY <1>1, <1>3, <1>4, EventAssumption
  <2> QED BY <1>4, <1>5, <1>6, <2>1 DEF SlotsOK
<1>11. MessagesOK' BY <1>3 DEF TypeOK, MessagesOK, messages
<1>12. posts \in Nat /\ posts' = posts BY <1>3 DEF TypeOK, MessagesOK, messages
<1>13. stack \in [Threads -> Seq(Frames')]
  <2>1. stack \in [Threads -> Seq(Frames)] BY DEF TypeOK
  <2> QED BY <2>1, <1>4, <1>8, <1>12, FramesStay
<1> QED BY <1>3, <1>9, <1>10, <1>11, <1>13 DEF TypeOK

\* disconnect() keeps the type.
LEMMA DisconnectType ==
  ASSUME TypeOK, NEW t \in Threads, NEW sub, Disconnect(t, sub)
  PROVE  TypeOK'
<1>1. /\ sub \in DOMAIN active /\ active' = [active EXCEPT ![sub] = FALSE]
      /\ stack' = Pushed(t, [call |-> "disconnect", sub |-> sub])
      /\ UNCHANGED <<lists, current, nextId, slotOf, messages, live>>
  BY DEF Disconnect
<1>2. /\ stack \in [Threads -> Seq(Frames)]
      /\ active \in [DOMAIN slotOf -> BOOLEAN]
  BY DEF TypeOK, SlotsOK
<1>3. active' \in [DOMAIN slotOf -> BOOLEAN]
  <2>1. sub \in DOMAIN slotOf BY <1>1, <1>2
  <2> QED BY <1>1, <1>2, <2>1, Zenon
<1>4. SlotsOK' BY <1>1, <1>3 DEF TypeOK, SlotsOK
<1>5. MessagesOK' BY <1>1 DEF TypeOK, MessagesOK, messages
<1>6. Frames' = Frames
  BY <1>1 DEF Frames, EmitFrames, DisconnectFrames, FlushFrames, messages
<1> DEFINE frame == [call |-> "disconnect", sub |-> sub]
<1>7. frame \in Frames
  <2>1. sub \in DOMAIN slotOf BY <1>1, <1>2
  <2> QED BY <2>1 DEF Frames, DisconnectFrames
<1>8. stack' = OnTop(stack, t, frame) BY <1>1 DEF Pushed, OnTop
<1> HIDE DEF frame
<1>9. stack' \in [Threads -> Seq(Frames')] BY <1>2, <1>6, <1>7, <1>8, PushIs
<1>10. \A a : HeldIn(stack, a) => HeldIn(stack', a) BY <1>2, <1>8, PushHolds
<1>11. ListsOK' BY <1>1, <1>10 DEF TypeOK, ListsOK, Slots
<1> QED BY <1>4, <1>5, <1>9, <1>11 DEF TypeOK

\* removeHandler() keeps the type.
LEMMA RemoveHandlerType ==
  ASSUME TypeOK, NEW t \in Threads, RemoveHandler(t)
  PROVE  TypeOK'
<1> DEFINE list == Kept(lists[current], slotOf[Top(t).sub])
<1>1. /\ stack[t] # <<>> /\ Top(t).call = "disconnect"
      /\ WriteList(CowDetach, list) /\ live' = live \ {Top(t).sub}
      /\ stack' = Popped(t) /\ UNCHANGED <<nextId, connections, messages>>
  BY DEF RemoveHandler, Inside
<1>2. lists[current] \in Seq(Slots) BY DEF TypeOK, ListsOK
<1>3. Slots' = Slots /\ DOMAIN slotOf \subseteq DOMAIN slotOf' BY <1>1 DEF Slots, connections
<1>4. list \in Seq(Slots') BY <1>2, <1>3, KeptSlots
<1> HIDE DEF list
<1>5. /\ DOMAIN lists' \subseteq Nat /\ IsFiniteSet(DOMAIN lists')
      /\ current' \in DOMAIN lists'
      /\ \A a \in DOMAIN lists' : lists'[a] \in Seq(Slots')
      /\ \A a \in DOMAIN lists' : a = current' \/ HeldIn(stack, a)
      /\ \A a : HeldIn(stack, a) => a \in DOMAIN lists'
  BY <1>1, <1>3, <1>4, WriteType
<1>6. stack \in [Threads -> Seq(Frames)] BY DEF TypeOK
<1>7. \A a : HeldIn(stack', a) <=> HeldIn(stack, a)
  BY <1>1, <1>6, PopHolds
<1>8. ListsOK' BY <1>5, <1>7 DEF ListsOK
<1>9. SlotsOK' BY <1>1 DEF TypeOK, SlotsOK, connections
<1>10. MessagesOK' BY <1>1 DEF TypeOK, MessagesOK, messages
<1>11. posts \in Nat /\ posts' = posts BY <1>1 DEF TypeOK, MessagesOK, messages
<1>12. Popped(t) \in [Threads -> Seq(Frames)] BY <1>1, <1>6, PopIs
<1>13. Popped(t) \in [Threads -> Seq(Frames')]
  <2>1. \A a : HeldIn(Popped(t), a) => a \in DOMAIN lists' BY <1>1, <1>5, <1>7
  <2> QED BY <1>3, <1>11, <1>12, <2>1, FramesStay
<1> QED BY <1>1, <1>8, <1>9, <1>10, <1>13 DEF TypeOK

\* clear() keeps the type, and the lists that snapshots hold.
LEMMA ClearType ==
  ASSUME TypeOK, NEW t \in Threads, Clear(t)
  PROVE  TypeOK'
<1>1. /\ DOMAIN lists \subseteq Nat /\ IsFiniteSet(DOMAIN lists)
      /\ \A a \in DOMAIN lists : lists[a] \in Seq(Slots)
      /\ stack \in [Threads -> Seq(Frames)]
  BY DEF TypeOK, ListsOK
<1> DEFINE held == {a \in DOMAIN lists : HeldIn(stack, a)}
<1>2. /\ current' = Fresh /\ live' = {}
      /\ lists' = [x \in held \cup {Fresh} |-> IF x = Fresh THEN <<>> ELSE lists[x]]
      /\ UNCHANGED <<nextId, connections, messages, stack>>
  BY DEF Clear, NewList
<1>3. Fresh \in Nat /\ Fresh \notin DOMAIN lists BY <1>1, FreshIsFree
<1>4. \A a : HeldIn(stack, a) => a \in held BY <1>1, HeldIsAlive
<1>5. IsFiniteSet(held \cup {Fresh}) /\ held \subseteq DOMAIN lists
  <2>1. held \subseteq DOMAIN lists OBVIOUS
  <2>2. IsFiniteSet(held) BY <1>1, <2>1, FS_Subset
  <2> QED BY <2>1, <2>2, FS_AddElement
<1>6. \A a \in held : HeldIn(stack, a) OBVIOUS
<1> HIDE DEF held
<1>7. Slots' = Slots BY <1>2 DEF Slots, connections
<1>8. DOMAIN lists' = held \cup {Fresh} BY <1>2
<1>9. \A a \in DOMAIN lists' : lists'[a] \in Seq(Slots)
  <2>1. <<>> \in Seq(Slots) OBVIOUS
  <2> QED BY <1>1, <1>2, <1>5, <2>1
<1>10. ListsOK' BY <1>1, <1>2, <1>3, <1>5, <1>6, <1>7, <1>8, <1>9 DEF ListsOK
<1>11. SlotsOK' BY <1>2 DEF TypeOK, SlotsOK, connections
<1>12. MessagesOK' BY <1>2 DEF TypeOK, MessagesOK, messages
<1>13. posts \in Nat /\ posts' = posts BY <1>2 DEF TypeOK, MessagesOK, messages
<1>14. stack \in [Threads -> Seq(Frames')]
  BY <1>1, <1>2, <1>4, <1>8, <1>13, FramesStay DEF connections
<1> QED BY <1>2, <1>10, <1>11, <1>12, <1>14 DEF TypeOK

\* emit() keeps the type.
LEMMA EmitType ==
  ASSUME TypeOK, NEW t \in Threads, Emit(t)
  PROVE  TypeOK'
<1>1. /\ stack' = Pushed(t, Snapshot)
      /\ UNCHANGED <<lists, current, nextId, connections, messages, live>>
  BY DEF Emit, StartEmit
<1>2. stack \in [Threads -> Seq(Frames)] BY DEF TypeOK
<1>3. Snapshot \in Frames BY SnapshotType DEF Frames
<1>4. Frames' = Frames
  BY <1>1 DEF Frames, EmitFrames, DisconnectFrames, FlushFrames, messages, connections
<1>5. stack' = OnTop(stack, t, Snapshot) BY <1>1 DEF Pushed, OnTop
<1>6. stack' \in [Threads -> Seq(Frames')] BY <1>2, <1>3, <1>4, <1>5, PushIs
<1>7. \A a : HeldIn(stack, a) => HeldIn(stack', a) BY <1>2, <1>5, PushHolds
<1>8. MessagesOK' BY <1>1 DEF TypeOK, MessagesOK, messages
<1> QED BY <1>1, <1>6, <1>7, <1>8, StackType

\* A handler that is called keeps the type.
LEMMA CallHandlerType ==
  ASSUME TypeOK, NEW t \in Threads, CallHandler(t)
  PROVE  TypeOK'
<1> DEFINE slot == lists[Top(t).list][Top(t).next]
           frame == [Top(t) EXCEPT !.busy = TRUE, !.next = @ + 1,
                                   !.called = Append(@, slot.sub)]
<1>1. /\ stack[t] # <<>> /\ Top(t).call = "emit"
      /\ Top(t).next <= Len(lists[Top(t).list])
      /\ stack' = WithTop(t, frame)
      /\ UNCHANGED <<lists, current, nextId, connections, messages, live>>
  BY DEF CallHandler, Inside
<1>2. stack \in [Threads -> Seq(Frames)] BY DEF TypeOK
<1>3. Top(t) \in EmitFrames BY <1>1, <1>2, TopIs, FrameKinds
<1>4. Top(t).list \in DOMAIN lists /\ Top(t).next \in Nat \ {0}
  BY <1>3 DEF EmitFrames
<1>5. slot.sub \in 1..MaxSubs
  <2>a. Subs(lists[Top(t).list]) \in Seq(1..MaxSubs) BY <1>4, SubsType
  <2>1. \A i \in DOMAIN Subs(lists[Top(t).list]) : Subs(lists[Top(t).list])[i] \in 1..MaxSubs
    BY <2>a, Elements
  <2>2. lists[Top(t).list] \in Seq(Slots) BY <1>4 DEF TypeOK, ListsOK
  <2>3. Top(t).next \in DOMAIN lists[Top(t).list] BY <1>1, <1>4, <2>2
  <2>4. /\ DOMAIN Subs(lists[Top(t).list]) = DOMAIN lists[Top(t).list]
        /\ Subs(lists[Top(t).list])[Top(t).next] = slot.sub
    BY <2>3 DEF Subs
  <2> QED BY <2>1, <2>3, <2>4
<1> HIDE DEF slot
<1>6. frame \in EmitFrames /\ frame.call = "emit" /\ frame.list = Top(t).list
  <2>1. Append(Top(t).called, slot.sub) \in Seq(1..MaxSubs)
    <3>1. Top(t).called \in Seq(1..MaxSubs) BY <1>3 DEF EmitFrames
    <3> QED BY <1>5, <3>1
  <2>2. Top(t).next + 1 \in Nat \ {0} BY <1>4
  <2> QED BY <1>3, <2>1, <2>2 DEF EmitFrames
<1> HIDE DEF frame
<1>7. frame \in Frames BY <1>6 DEF Frames
<1>8. Frames' = Frames
  BY <1>1 DEF Frames, EmitFrames, DisconnectFrames, FlushFrames, messages, connections
<1>9. stack' \in [Threads -> Seq(Frames')] BY <1>1, <1>2, <1>7, <1>8, TopIs
<1>10. \A a : HeldIn(stack, a) => HeldIn(stack', a) BY <1>1, <1>2, <1>6, TopHolds
<1>11. MessagesOK' BY <1>1 DEF TypeOK, MessagesOK, messages
<1> QED BY <1>1, <1>9, <1>10, <1>11, StackType

\* A handler that returns keeps the type.
LEMMA HandlerReturnsType ==
  ASSUME TypeOK, NEW t \in Threads, HandlerReturns(t)
  PROVE  TypeOK'
<1> DEFINE frame == [Top(t) EXCEPT !.busy = FALSE]
<1>1. /\ stack[t] # <<>> /\ Top(t).call = "emit"
      /\ stack' = WithTop(t, frame)
      /\ UNCHANGED <<lists, current, nextId, connections, messages, live>>
  BY DEF HandlerReturns, Inside
<1>2. stack \in [Threads -> Seq(Frames)] BY DEF TypeOK
<1>3. Top(t) \in EmitFrames BY <1>1, <1>2, TopIs, FrameKinds
<1>4. frame \in EmitFrames /\ frame.call = "emit" /\ frame.list = Top(t).list
  BY <1>3 DEF EmitFrames
<1> HIDE DEF frame
<1>5. frame \in Frames BY <1>4 DEF Frames
<1>6. Frames' = Frames
  BY <1>1 DEF Frames, EmitFrames, DisconnectFrames, FlushFrames, messages, connections
<1>7. stack' \in [Threads -> Seq(Frames')] BY <1>1, <1>2, <1>5, <1>6, TopIs
<1>8. \A a : HeldIn(stack, a) => HeldIn(stack', a) BY <1>1, <1>2, <1>4, TopHolds
<1>9. MessagesOK' BY <1>1 DEF TypeOK, MessagesOK, messages
<1> QED BY <1>1, <1>7, <1>8, <1>9, StackType

\* The end of emit() keeps the type: only the lists still held are alive.
LEMMA EmitReturnsType ==
  ASSUME TypeOK, NEW t \in Threads, EmitReturns(t)
  PROVE  TypeOK'
<1> DEFINE kept == {x \in DOMAIN lists : x = current \/ HeldIn(Popped(t), x)}
<1>1. /\ stack[t] # <<>> /\ stack' = Popped(t)
      /\ lists' = [a \in kept |-> lists[a]]
      /\ UNCHANGED <<current, nextId, connections, messages, live>>
  BY DEF EmitReturns, Inside
<1>2. /\ DOMAIN lists \subseteq Nat /\ IsFiniteSet(DOMAIN lists) /\ current \in DOMAIN lists
      /\ \A a \in DOMAIN lists : lists[a] \in Seq(Slots)
      /\ stack \in [Threads -> Seq(Frames)]
  BY DEF TypeOK, ListsOK
<1>3. Popped(t) \in [Threads -> Seq(Frames)] BY <1>1, <1>2, PopIs
<1>4. /\ kept \subseteq DOMAIN lists /\ current \in kept
      /\ \A a \in kept : a = current \/ HeldIn(Popped(t), a)
  BY <1>2
<1>5. \A a : HeldIn(Popped(t), a) => a \in kept BY <1>3, HeldIsAlive
<1> HIDE DEF kept
<1>6. IsFiniteSet(kept) BY <1>2, <1>4, FS_Subset
<1>7. Slots' = Slots BY <1>1 DEF Slots, connections
<1>8. DOMAIN lists' = kept /\ \A a \in kept : lists'[a] = lists[a] BY <1>1
<1>9. ListsOK' BY <1>1, <1>2, <1>4, <1>6, <1>7, <1>8 DEF ListsOK
<1>10. SlotsOK' BY <1>1 DEF TypeOK, SlotsOK, connections
<1>11. MessagesOK' BY <1>1 DEF TypeOK, MessagesOK, messages
<1>12. posts \in Nat /\ posts' = posts BY <1>1 DEF TypeOK, MessagesOK, messages
<1>13. Popped(t) \in [Threads -> Seq(Frames')]
  BY <1>1, <1>3, <1>5, <1>8, <1>12, FramesStay DEF connections
<1> QED BY <1>1, <1>9, <1>10, <1>11, <1>13 DEF TypeOK

\* post() keeps the type.
LEMMA PostType ==
  ASSUME TypeOK, NEW t \in Threads, Post(t)
  PROVE  TypeOK'
<1>1. /\ posts < MaxPosts /\ posts' = posts + 1 /\ pending' = Append(pending, posts + 1)
      /\ UNCHANGED <<lists, current, nextId, connections, dispatched, cleared, stack, live>>
  BY DEF Post
<1>2. /\ posts \in 0..MaxPosts /\ cleared \subseteq 1..posts
      /\ pending \in Seq(1..posts) /\ dispatched \in Seq(1..posts)
  BY DEF TypeOK, MessagesOK
<1>3. 1..posts \subseteq 1..(posts + 1) /\ posts + 1 \in 1..(posts + 1) BY <1>2
<1>4. pending \in Seq(1..(posts + 1)) /\ dispatched \in Seq(1..(posts + 1)) BY <1>2, <1>3
<1>5. pending' \in Seq(1..(posts + 1)) BY <1>1, <1>3, <1>4
<1>6. posts' \in 0..MaxPosts BY <1>1, <1>2, EventAssumption
<1>7. MessagesOK' BY <1>1, <1>2, <1>3, <1>4, <1>5, <1>6 DEF MessagesOK
<1>8. stack' \in [Threads -> Seq(Frames')]
  <2>1. posts' \in Nat /\ posts <= posts' BY <1>1, <1>2
  <2> QED BY <1>1, <2>1, SameFrames DEF connections
<1> QED BY <1>1, <1>7, <1>8, StackType

\* flush() keeps the type.
LEMMA FlushType ==
  ASSUME TypeOK, NEW t \in Threads, Flush(t)
  PROVE  TypeOK'
<1> DEFINE frame == [call |-> "flush", batch |-> pending]
<1>1. /\ stack' = Pushed(t, frame) /\ pending' = <<>>
      /\ UNCHANGED <<lists, current, nextId, connections, posts, dispatched, cleared, live>>
  BY DEF Flush
<1>2. stack \in [Threads -> Seq(Frames)] /\ pending \in Seq(1..posts)
  BY DEF TypeOK, MessagesOK
<1>3. frame \in Frames BY <1>2 DEF Frames, FlushFrames
<1>4. stack' = OnTop(stack, t, frame) BY <1>1 DEF Pushed, OnTop
<1> HIDE DEF frame
<1>5. Frames' = Frames
  BY <1>1 DEF Frames, EmitFrames, DisconnectFrames, FlushFrames, connections
<1>6. stack' \in [Threads -> Seq(Frames')] BY <1>2, <1>3, <1>4, <1>5, PushIs
<1>7. \A a : HeldIn(stack, a) => HeldIn(stack', a) BY <1>2, <1>4, PushHolds
<1>8. MessagesOK' BY <1>1 DEF TypeOK, MessagesOK
<1> QED BY <1>1, <1>6, <1>7, <1>8, StackType

\* flush() takes the first message off its batch and starts the emit() of it.
LEMMA FlushTakes ==
  ASSUME TypeOK, NEW t \in Threads, FlushEmits(t)
  PROVE  /\ stack[t] # <<>> /\ Top(t) \in FlushFrames /\ Top(t).batch # <<>>
         /\ Top(t).batch \in Seq(1..posts) /\ Head(Top(t).batch) \in 1..posts
         /\ [call |-> "flush", batch |-> Tail(Top(t).batch)] \in FlushFrames
         /\ LET rest == WithTop(t, [call |-> "flush", batch |-> Tail(Top(t).batch)])
            IN  stack' = rest \/ stack' = OnTop(rest, t, Snapshot)
         /\ dispatched' = Append(dispatched, Head(Top(t).batch))
         /\ UNCHANGED <<lists, current, nextId, connections, pending, posts, cleared, live>>
<1>1. /\ stack[t] # <<>> /\ Top(t).call = "flush" /\ Top(t).batch # <<>>
      /\ dispatched' = Append(dispatched, Head(Top(t).batch))
      /\ UNCHANGED <<lists, current, nextId, connections, pending, posts, cleared, live>>
  BY DEF FlushEmits, Inside
<1>2. stack \in [Threads -> Seq(Frames)] BY DEF TypeOK
<1>3. Top(t) \in FlushFrames BY <1>1, <1>2, TopIs, FrameKinds
<1>4. Top(t).batch \in Seq(1..posts) BY <1>3 DEF FlushFrames
<1>5. Head(Top(t).batch) \in 1..posts /\ Tail(Top(t).batch) \in Seq(1..posts)
  BY <1>1, <1>4, HeadAndTail
<1>7. [call |-> "flush", batch |-> Tail(Top(t).batch)] \in FlushFrames
  BY <1>5 DEF FlushFrames
<1> DEFINE rest == WithTop(t, [call |-> "flush", batch |-> Tail(Top(t).batch)])
<1>8. stack' = rest \/ stack' = [rest EXCEPT ![t] = Append(@, Snapshot)]
  BY DEF FlushEmits
<1>9. stack' = rest \/ stack' = OnTop(rest, t, Snapshot) BY <1>8 DEF OnTop
<1> QED BY <1>1, <1>3, <1>4, <1>5, <1>7, <1>9

\* A flush() that emits keeps the type.
LEMMA FlushEmitsType ==
  ASSUME TypeOK, NEW t \in Threads, FlushEmits(t)
  PROVE  TypeOK'
<1> DEFINE frame == [call |-> "flush", batch |-> Tail(Top(t).batch)]
           rest == WithTop(t, frame)
<1>1. /\ stack[t] # <<>> /\ Top(t) \in FlushFrames /\ Head(Top(t).batch) \in 1..posts
      /\ frame \in FlushFrames /\ (stack' = rest \/ stack' = OnTop(rest, t, Snapshot))
      /\ dispatched' = Append(dispatched, Head(Top(t).batch))
      /\ UNCHANGED <<lists, current, nextId, connections, pending, posts, cleared, live>>
  BY FlushTakes
<1>2. stack \in [Threads -> Seq(Frames)] BY DEF TypeOK
<1>3. frame \in Frames /\ frame.call = Top(t).call /\ frame.call # "emit"
  BY <1>1 DEF Frames, FlushFrames
<1> HIDE DEF frame
<1>4. rest \in [Threads -> Seq(Frames)] BY <1>1, <1>2, <1>3, TopIs
<1>5. \A a : HeldIn(stack, a) => HeldIn(rest, a) BY <1>1, <1>2, <1>3, TopHolds
<1> HIDE DEF rest
<1>6. Snapshot \in Frames BY SnapshotType DEF Frames
<1>7. Frames' = Frames
  BY <1>1 DEF Frames, EmitFrames, DisconnectFrames, FlushFrames, connections
<1>8. stack' \in [Threads -> Seq(Frames')] BY <1>1, <1>4, <1>6, <1>7, PushIs
<1>9. \A a : HeldIn(stack, a) => HeldIn(stack', a) BY <1>1, <1>4, <1>5, PushHolds
<1>10. MessagesOK'
  <2>1. dispatched \in Seq(1..posts) BY DEF TypeOK, MessagesOK
  <2>2. dispatched' \in Seq(1..posts) BY <1>1, <2>1
  <2> QED BY <1>1, <2>2 DEF TypeOK, MessagesOK
<1> QED BY <1>1, <1>8, <1>9, <1>10, StackType

\* The end of flush() keeps the type.
LEMMA FlushReturnsType ==
  ASSUME TypeOK, NEW t \in Threads, FlushReturns(t)
  PROVE  TypeOK'
<1>1. /\ stack[t] # <<>> /\ Top(t).call = "flush" /\ stack' = Popped(t)
      /\ UNCHANGED <<lists, current, nextId, connections, messages, live>>
  BY DEF FlushReturns, Inside
<1>2. stack \in [Threads -> Seq(Frames)] BY DEF TypeOK
<1>3. Frames' = Frames
  BY <1>1 DEF Frames, EmitFrames, DisconnectFrames, FlushFrames, connections, messages
<1>4. stack' \in [Threads -> Seq(Frames')] BY <1>1, <1>2, <1>3, PopIs
<1>5. \A a : HeldIn(stack, a) => HeldIn(stack', a) BY <1>1, <1>2, PopHolds
<1>6. MessagesOK' BY <1>1 DEF TypeOK, MessagesOK, messages
<1> QED BY <1>1, <1>4, <1>5, <1>6, StackType

\* clearPending() keeps the type.
LEMMA ClearPendingType ==
  ASSUME TypeOK, NEW t \in Threads, ClearPending(t)
  PROVE  TypeOK'
<1>1. /\ pending' = <<>> /\ cleared' = cleared \cup ToSet(pending)
      /\ UNCHANGED <<lists, current, nextId, connections, posts, dispatched, stack, live>>
  BY DEF ClearPending
<1>2. pending \in Seq(1..posts) /\ cleared \subseteq 1..posts BY DEF TypeOK, MessagesOK
<1>3. cleared' \subseteq 1..posts
  <2>1. \A i \in DOMAIN pending : pending[i] \in 1..posts BY <1>2, Elements
  <2> QED BY <1>1, <1>2, <2>1 DEF ToSet
<1>4. MessagesOK' BY <1>1, <1>3 DEF TypeOK, MessagesOK
<1>5. stack' \in [Threads -> Seq(Frames')]
  <2>1. posts' \in Nat /\ posts <= posts' BY <1>1 DEF TypeOK, MessagesOK
  <2> QED BY <1>1, <2>1, SameFrames DEF connections
<1> QED BY <1>1, <1>4, <1>5, StackType

\* The type at the start.
LEMMA TypeInit == Init => TypeOK
<1> SUFFICES ASSUME Init PROVE TypeOK OBVIOUS
<1>1. ListsOK
  <2>1. lists = [a \in {0} |-> <<>>] /\ current = 0 BY DEF Init
  <2>2. IsFiniteSet({0}) BY FS_Singleton
  <2>3. <<>> \in Seq(Slots) OBVIOUS
  <2> QED BY <2>1, <2>2, <2>3 DEF ListsOK
<1>2. SlotsOK
  <2>1. nextId = 1 /\ slotOf = <<>> /\ active = <<>> /\ live = {} BY DEF Init
  <2>2. slotOf \in Seq(Nat \ {0}) /\ Len(slotOf) = 0 /\ DOMAIN slotOf = 1..0 BY <2>1
  <2>3. active \in [DOMAIN slotOf -> BOOLEAN] BY <2>1, <2>2
  <2> QED BY <2>1, <2>2, <2>3, EventAssumption DEF SlotsOK
<1>3. MessagesOK BY EventAssumption DEF Init, MessagesOK
<1>4. stack \in [Threads -> Seq(Frames)]
  <2>1. <<>> \in Seq(Frames) OBVIOUS
  <2> QED BY <2>1 DEF Init
<1> QED BY <1>1, <1>2, <1>3, <1>4 DEF TypeOK

\* Every step keeps the type.
LEMMA TypeNext == TypeOK /\ [Next]_vars => TypeOK'
<1> SUFFICES ASSUME TypeOK, [Next]_vars PROVE TypeOK' OBVIOUS
<1>1. ASSUME NEW t \in Threads, Call(t) PROVE TypeOK'
  BY <1>1, SubscribeType, ClearType, EmitType, PostType, FlushType, ClearPendingType,
     DisconnectType DEF Call
<1>2. ASSUME NEW t \in Threads, Step(t) PROVE TypeOK'
  BY <1>2, RemoveHandlerType, CallHandlerType, HandlerReturnsType, EmitReturnsType,
     FlushEmitsType, FlushReturnsType DEF Step
<1>3. CASE UNCHANGED vars
  <2>1. Frames' = Frames /\ Slots' = Slots
    BY <1>3 DEF vars, messages, connections, Slots, Frames, EmitFrames, DisconnectFrames,
                FlushFrames
  <2>2. ListsOK' BY <1>3, <2>1 DEF TypeOK, ListsOK, vars
  <2>3. SlotsOK' BY <1>3 DEF TypeOK, SlotsOK, vars, connections
  <2>4. MessagesOK' BY <1>3 DEF TypeOK, MessagesOK, vars, messages
  <2> QED BY <1>3, <2>1, <2>2, <2>3, <2>4 DEF TypeOK, vars
<1> QED BY <1>1, <1>2, <1>3 DEF Next

-----------------------------------------------------------------------------
(* Subscriptions                                                            *)

SubsInv == ListIsLive /\ SlotsInv /\ IdsInv

\* The slots of the current list and the ids that the connections hold
LEMMA SlotTypes ==
  ASSUME TypeOK
  PROVE  /\ lists[current] \in Seq(Slots)
         /\ DOMAIN lists[current] = 1..Len(lists[current]) /\ Len(lists[current]) \in Nat
         /\ \A i \in DOMAIN lists[current] :
               /\ lists[current][i] \in Slots
               /\ lists[current][i].sub \in DOMAIN slotOf
               /\ lists[current][i].id \in Nat
         /\ slotOf \in Seq(Nat \ {0}) /\ DOMAIN slotOf = 1..Len(slotOf) /\ Len(slotOf) \in Nat
         /\ \A s \in DOMAIN slotOf : slotOf[s] \in Nat
         /\ nextId \in Nat
<1>1. lists[current] \in Seq(Slots) BY DEF TypeOK, ListsOK
<1>2. slotOf \in Seq(Nat \ {0}) /\ nextId \in Nat BY DEF TypeOK, SlotsOK
<1>3. \A i \in DOMAIN lists[current] : lists[current][i] \in Slots BY <1>1, Elements
<1>4. \A slot \in Slots : slot.sub \in DOMAIN slotOf /\ slot.id \in Nat BY DEF Slots
<1> QED BY <1>1, <1>2, <1>3, <1>4, Elements

\* A step that leaves the current list alone.
LEMMA SameSubscriptions ==
  ASSUME SubsInv, lists'[current'] = lists[current], UNCHANGED <<slotOf, nextId, live>>
  PROVE  SubsInv'
BY DEF SubsInv, ListIsLive, SlotsInv, IdsInv

\* subscribe() adds the newest subscription at the end, under an id no connection holds.
LEMMA SubscribeSubs ==
  ASSUME TypeOK, SubsInv, NEW t \in Threads, Subscribe(t)
  PROVE  SubsInv'
<1> DEFINE list == lists[current]
           n == Len(slotOf)
           slot == [id |-> nextId, sub |-> n + 1]
           m == Len(list)
<1>1. /\ slotOf' = Append(slotOf, nextId) /\ nextId' = nextId + 1 /\ live' = live \cup {n + 1}
      /\ WriteList(CowDetach, Append(list, slot))
  BY DEF Subscribe
<1>2. lists'[current'] = Append(list, slot) BY <1>1, Writes
<1>3. /\ list \in Seq(Slots) /\ DOMAIN list = 1..m /\ m \in Nat
      /\ \A i \in 1..m : list[i].sub \in 1..n /\ list[i].id \in Nat
      /\ slotOf \in Seq(Nat \ {0}) /\ n \in Nat /\ nextId \in Nat
      /\ DOMAIN slotOf = 1..n /\ \A s \in 1..n : slotOf[s] \in Nat
  BY SlotTypes
<1>4. /\ DOMAIN slotOf' = 1..(n + 1) /\ slotOf'[n + 1] = nextId
      /\ \A s \in 1..n : slotOf'[s] = slotOf[s]
  <2>1. nextId \in Nat \ {0} BY DEF TypeOK, SlotsOK
  <2>2. slotOf' \in Seq(Nat \ {0}) /\ Len(slotOf') = n + 1 BY <1>1, <1>3, <2>1
  <2> QED BY <1>1, <1>3, <2>1, <2>2
<1>5. slot.sub = n + 1 /\ slot.id = nextId OBVIOUS
<1> HIDE DEF slot
<1>6. /\ DOMAIN Append(list, slot) = 1..(m + 1) /\ Append(list, slot)[m + 1] = slot
      /\ \A i \in 1..m : Append(list, slot)[i] = list[i]
  <2>1. list \in Seq(Slots \cup {slot}) BY <1>3
  <2>2. Append(list, slot) \in Seq(Slots \cup {slot}) /\ Len(Append(list, slot)) = m + 1
    BY <2>1
  <2> QED BY <2>1, <2>2
<1> DEFINE new == lists'[current']
<1>7. /\ DOMAIN new = 1..(m + 1) /\ new[m + 1] = slot /\ \A i \in 1..m : new[i] = list[i]
  BY <1>2, <1>6
<1>8. /\ {list[i].sub : i \in 1..m} = live
      /\ \A i, j \in 1..m : i < j => list[i].sub < list[j].sub
      /\ \A s, u \in 1..n : s < u => slotOf[s] < slotOf[u]
      /\ \A s \in 1..n : slotOf[s] < nextId
      /\ \A i \in 1..m : list[i].id = slotOf[list[i].sub]
  BY <1>3 DEF SubsInv, ListIsLive, SlotsInv, IdsInv
<1> HIDE DEF new, list, n, m
<1>9. (\A i \in 1..(m + 1) : i \in 1..m \/ i = m + 1) /\ (\A s \in 1..(n + 1) : s \in 1..n \/ s = n + 1)
      /\ m + 1 \in 1..(m + 1) /\ \A i \in 1..m : i \in 1..(m + 1)
  BY <1>3
<1>10. {new[i].sub : i \in DOMAIN new} = live' BY <1>1, <1>5, <1>7, <1>8, <1>9
<1>11. ASSUME NEW i \in 1..(m + 1), NEW j \in 1..(m + 1), i < j
       PROVE  new[i].sub < new[j].sub
  <2>1. i \in 1..m /\ new[i] = list[i] BY <1>3, <1>7, <1>11
  <2>2. CASE j = m + 1 BY <1>3, <1>5, <1>7, <2>1, <2>2
  <2>3. CASE j \in 1..m BY <1>7, <1>8, <1>11, <2>1, <2>3
  <2> QED BY <1>9, <2>2, <2>3
<1>12. ListIsLive' BY <1>7, <1>10, <1>11 DEF ListIsLive, new
<1>13. SlotsInv' BY <1>1, <1>3, <1>4, <1>8, <1>9 DEF SlotsInv
<1>14. \A i \in 1..(m + 1) : new[i].id = slotOf'[new[i].sub]
  BY <1>3, <1>4, <1>5, <1>7, <1>8, <1>9
<1>15. IdsInv' BY <1>7, <1>14 DEF IdsInv, new
<1> QED BY <1>12, <1>13, <1>15 DEF SubsInv

\* removeHandler() removes one slot, that of its connection, or none after a clear().
LEMMA RemoveHandlerSubs ==
  ASSUME TypeOK, SubsInv, NEW t \in Threads, RemoveHandler(t)
  PROVE  SubsInv'
<1> DEFINE list == lists[current]
           sub == Top(t).sub
           new == Kept(list, slotOf[sub])
<1>1. /\ stack[t] # <<>> /\ Top(t).call = "disconnect"
      /\ WriteList(CowDetach, new) /\ live' = live \ {sub}
      /\ UNCHANGED <<nextId, connections>>
  BY DEF RemoveHandler, Inside
<1>2. lists'[current'] = new BY <1>1, Writes
<1>3. sub \in DOMAIN slotOf
  <2>1. stack \in [Threads -> Seq(Frames)] BY DEF TypeOK
  <2>2. Top(t) \in DisconnectFrames BY <1>1, <2>1, TopIs, FrameKinds
  <2> QED BY <2>2 DEF DisconnectFrames
<1>4. /\ list \in Seq(Slots)
      /\ \A i \in DOMAIN list : list[i].sub \in DOMAIN slotOf
      /\ \A s \in DOMAIN slotOf : slotOf[s] \in Nat /\ s \in Nat
  BY SlotTypes
<1>5. /\ {list[i].sub : i \in DOMAIN list} = live
      /\ \A i, j \in DOMAIN list : i < j => list[i].sub < list[j].sub
      /\ \A s, u \in DOMAIN slotOf : s < u => slotOf[s] < slotOf[u]
      /\ \A i \in DOMAIN list : list[i].id = slotOf[list[i].sub]
  BY DEF SubsInv, ListIsLive, SlotsInv, IdsInv
<1>6. /\ \A i \in DOMAIN new : \E k \in DOMAIN list : new[i] = list[k] /\ list[k].id # slotOf[sub]
      /\ \A k \in DOMAIN list : list[k].id # slotOf[sub] => \E i \in DOMAIN new : new[i] = list[k]
      /\ \A i, j \in DOMAIN new : i < j =>
            \E k, l \in DOMAIN list : k < l /\ new[i] = list[k] /\ new[j] = list[l]
  <2>1. list \in Seq(Slots) BY <1>4
  <2> HIDE DEF list, sub
  <2>2. \A i \in DOMAIN new : \E k \in DOMAIN list : new[i] = list[k] /\ list[k].id # slotOf[sub]
    BY <2>1, KeptSlots
  <2>3. \A k \in DOMAIN list : list[k].id # slotOf[sub] => \E i \in DOMAIN new : new[i] = list[k]
    BY <2>1, KeptSlots
  <2>4. \A i, j \in DOMAIN new : i < j =>
           \E k, l \in DOMAIN list : k < l /\ new[i] = list[k] /\ new[j] = list[l]
    BY <2>1, KeptSlots
  <2> QED BY <2>2, <2>3, <2>4
<1> HIDE DEF new, list, sub
<1>7. \A k \in DOMAIN list : list[k].id # slotOf[sub] <=> list[k].sub # sub
  <2>1. \A s, u \in DOMAIN slotOf : s # u => slotOf[s] # slotOf[u] BY <1>4, <1>5
  <2> QED BY <1>3, <1>4, <1>5, <2>1
<1>8. {new[i].sub : i \in DOMAIN new} = live' BY <1>1, <1>5, <1>6, <1>7
<1>9. \A i, j \in DOMAIN new : i < j => new[i].sub < new[j].sub BY <1>5, <1>6
<1>10. ListIsLive' BY <1>2, <1>8, <1>9 DEF ListIsLive
<1>11. SlotsInv' BY <1>1 DEF SubsInv, SlotsInv, connections
<1>12. \A i \in DOMAIN new : new[i].id = slotOf[new[i].sub] BY <1>5, <1>6
<1>13. IdsInv' BY <1>1, <1>2, <1>12 DEF IdsInv, connections
<1> QED BY <1>10, <1>11, <1>13 DEF SubsInv

\* clear() leaves no subscription; the ids go on.
LEMMA ClearSubs ==
  ASSUME TypeOK, SubsInv, NEW t \in Threads, Clear(t)
  PROVE  SubsInv'
<1>1. /\ lists'[current'] = <<>> /\ live' = {} /\ UNCHANGED <<slotOf, nextId>>
  BY DEF Clear, NewList, connections
<1>2. SlotsInv' BY <1>1 DEF SubsInv, SlotsInv
<1> QED BY <1>1, <1>2 DEF SubsInv, ListIsLive, IdsInv

\* Nothing is subscribed at the start.
LEMMA SubsInit == Init => SubsInv
<1> SUFFICES ASSUME Init PROVE SubsInv OBVIOUS
<1>1. lists[current] = <<>> /\ live = {} /\ slotOf = <<>> BY DEF Init
<1>2. {lists[current][i].sub : i \in DOMAIN lists[current]} = live BY <1>1
<1> QED BY <1>1, <1>2 DEF SubsInv, ListIsLive, SlotsInv, IdsInv

\* Every step keeps the list that of the live subscriptions.
LEMMA SubsNext == TypeOK /\ SubsInv /\ [Next]_vars => SubsInv'
<1> SUFFICES ASSUME TypeOK, SubsInv, [Next]_vars PROVE SubsInv' OBVIOUS
<1>1. CASE UNCHANGED <<lists, current, slotOf, nextId, live>> BY <1>1, SameSubscriptions
<1>2. ASSUME NEW t \in Threads, EmitReturns(t) PROVE SubsInv'
  <2>1. /\ lists' = [a \in {x \in DOMAIN lists : x = current \/ HeldIn(Popped(t), x)} |-> lists[a]]
        /\ UNCHANGED <<current, slotOf, nextId, live>>
    BY <1>2 DEF EmitReturns, connections
  <2>2. lists'[current'] = lists[current] BY <2>1 DEF TypeOK, ListsOK
  <2> QED BY <2>1, <2>2, SameSubscriptions
<1>3. ASSUME NEW t \in Threads, Call(t) PROVE SubsInv'
  <2>1. CASE Subscribe(t) BY <2>1, SubscribeSubs
  <2>2. CASE Clear(t) BY <2>2, ClearSubs
  <2>3. CASE Emit(t) BY <1>1, <2>3 DEF Emit, connections
  <2>4. CASE Post(t) BY <1>1, <2>4 DEF Post, connections
  <2>5. CASE Flush(t) BY <1>1, <2>5 DEF Flush, connections
  <2>6. CASE ClearPending(t) BY <1>1, <2>6 DEF ClearPending, connections
  <2>7. ASSUME NEW sub \in 1..MaxSubs, Disconnect(t, sub) PROVE SubsInv'
    BY <1>1, <2>7 DEF Disconnect, connections
  <2> QED BY <1>3, <2>1, <2>2, <2>3, <2>4, <2>5, <2>6, <2>7 DEF Call
<1>4. ASSUME NEW t \in Threads, Step(t) PROVE SubsInv'
  <2>1. CASE RemoveHandler(t) BY <2>1, RemoveHandlerSubs
  <2>2. CASE CallHandler(t) BY <1>1, <2>2 DEF CallHandler, connections
  <2>3. CASE HandlerReturns(t) BY <1>1, <2>3 DEF HandlerReturns, connections
  <2>4. CASE EmitReturns(t) BY <1>2, <2>4
  <2>5. CASE FlushEmits(t) BY <1>1, <2>5 DEF FlushEmits, connections
  <2>6. CASE FlushReturns(t) BY <1>1, <2>6 DEF FlushReturns, connections
  <2> QED BY <1>4, <2>1, <2>2, <2>3, <2>4, <2>5, <2>6 DEF Step
<1>5. CASE UNCHANGED vars BY <1>1, <1>5 DEF vars, connections
<1> QED BY <1>3, <1>4, <1>5 DEF Next

-----------------------------------------------------------------------------
(* Emissions                                                                *)

\* The calls on a stack after a push, a return and a change of the innermost one
LEMMA PushFrames ==
  ASSUME NEW S, NEW st \in [Threads -> Seq(S)], NEW t \in Threads, NEW frame, NEW new,
         new = OnTop(st, t, frame)
  PROVE  \A u \in Threads : \A i \in DOMAIN new[u] :
            (i \in DOMAIN st[u] /\ new[u][i] = st[u][i]) \/ new[u][i] = frame
<1> DEFINE n == Len(st[t])
<1>1. /\ \A u \in Threads : u # t => new[u] = st[u]
      /\ n \in Nat /\ DOMAIN st[t] = 1..n /\ DOMAIN new[t] = 1..(n + 1)
      /\ \A i \in 1..n : new[t][i] = st[t][i]
      /\ new[t][n + 1] = frame
  BY PushIs
<1> HIDE DEF n
<1>2. \A i \in 1..(n + 1) : i \in 1..n \/ i = n + 1 BY <1>1
<1> QED BY <1>1, <1>2

\* The calls left when one returns were there before.
LEMMA PopFrames ==
  ASSUME NEW S, stack \in [Threads -> Seq(S)], NEW t \in Threads, stack[t] # <<>>
  PROVE  \A u \in Threads : \A i \in DOMAIN Popped(t)[u] :
            i \in DOMAIN stack[u] /\ Popped(t)[u][i] = stack[u][i]
<1> DEFINE new == Popped(t)  n == Len(stack[t])
<1>1. /\ \A u \in Threads : u # t => new[u] = stack[u]
      /\ n \in Nat \ {0} /\ DOMAIN stack[t] = 1..n /\ DOMAIN new[t] = 1..(n - 1)
      /\ \A i \in 1..(n - 1) : new[t][i] = stack[t][i]
  BY PopIs
<1> HIDE DEF new, n
<1>2. \A u \in Threads : \A i \in DOMAIN new[u] : i \in DOMAIN stack[u] /\ new[u][i] = stack[u][i]
  BY <1>1
<1> QED BY <1>2 DEF new

\* The calls when the top one changes were there before, but for it.
LEMMA TopFrames ==
  ASSUME NEW S, stack \in [Threads -> Seq(S)], NEW t \in Threads, stack[t] # <<>>, NEW frame
  PROVE  \A u \in Threads : \A i \in DOMAIN WithTop(t, frame)[u] :
            \/ i \in DOMAIN stack[u] /\ WithTop(t, frame)[u][i] = stack[u][i]
            \/ WithTop(t, frame)[u][i] = frame
<1> DEFINE new == WithTop(t, frame)  n == Len(stack[t])
<1>1. /\ \A u \in Threads : u # t => new[u] = stack[u]
      /\ n \in Nat \ {0} /\ DOMAIN stack[t] = 1..n /\ DOMAIN new[t] = 1..n
      /\ \A i \in 1..(n - 1) : new[t][i] = stack[t][i]
      /\ new[t][n] = frame
  BY TopIs
<1> HIDE DEF new, n
<1>2. \A i \in 1..n : i \in 1..(n - 1) \/ i = n BY <1>1
<1>3. \A u \in Threads : \A i \in DOMAIN new[u] :
         (i \in DOMAIN stack[u] /\ new[u][i] = stack[u][i]) \/ new[u][i] = frame
  BY <1>1, <1>2
<1> QED BY <1>3 DEF new

\* What is true of one call of emit(), which holds list
EmitOK(f, list) ==
    f.call = "emit" => /\ f.taken = f.called \o SubSeq(Subs(list), f.next, Len(list))
                       /\ f.next <= Len(list) + 1

EmitInv == \A t \in Threads : \A i \in DOMAIN stack[t] :
              EmitOK(stack[t][i], lists[stack[t][i].list])

\* The next handler moves from what is left of the snapshot to what was called.
LEMMA Moves ==
  ASSUME NEW S, NEW c \in Seq(S), NEW s \in Seq(S), NEW k \in 1..Len(s)
  PROVE  c \o SubSeq(s, k, Len(s)) = Append(c, s[k]) \o SubSeq(s, k + 1, Len(s))
<1> DEFINE rest == SubSeq(s, k + 1, Len(s))
<1>1. k \in 1..Len(s) /\ Len(s) \in k..Len(s) /\ s[k] \in S /\ Len(s) \in Nat OBVIOUS
<1>2. SubSeq(s, k, Len(s)) = <<s[k]>> \o rest BY <1>1, SubSeqRecursiveFirst
<1>3. Append(c, s[k]) = c \o <<s[k]>> BY <1>1, AppendIsConcat
<1>4. <<s[k]>> \in Seq(S) BY <1>1
<1>5. rest \in Seq(S)
  <2>1. \A i \in (k + 1)..Len(s) : s[i] \in S OBVIOUS
  <2>2. k + 1 \in Int /\ Len(s) \in Int BY <1>1
  <2> QED BY <2>1, <2>2, SubSeqProperties
<1> HIDE DEF rest
<1>6. (c \o <<s[k]>>) \o rest = c \o (<<s[k]>> \o rest) BY <1>4, <1>5, ConcatAssociative
<1> QED BY <1>2, <1>3, <1>6 DEF rest

\* The lists that calls hold are not written, so what is true of the calls stays.
LEMMA EmitStays ==
  ASSUME TypeOK, EmitInv,
         \A a : HeldIn(stack, a) => lists'[a] = lists[a] \/ ~HeldIn(stack', a),
         \A u \in Threads : \A i \in DOMAIN stack'[u] :
            \/ i \in DOMAIN stack[u] /\ stack'[u][i] = stack[u][i]
            \/ EmitOK(stack'[u][i], lists'[stack'[u][i].list])
  PROVE  EmitInv'
<1>1. ASSUME NEW u \in Threads, NEW i \in DOMAIN stack'[u],
             i \in DOMAIN stack[u], stack'[u][i] = stack[u][i]
      PROVE  EmitOK(stack'[u][i], lists'[stack'[u][i].list])
  <2> DEFINE f == stack[u][i]
  <2>1. EmitOK(f, lists[f.list]) BY <1>1 DEF EmitInv
  <2>2. f.call = "emit" => HeldIn(stack, f.list) /\ HeldIn(stack', f.list)
    BY <1>1 DEF HeldIn
  <2>3. f.call = "emit" => lists'[f.list] = lists[f.list] BY <2>2
  <2>4. stack'[u][i] = f BY <1>1
  <2> HIDE DEF f
  <2> QED BY <2>1, <2>3, <2>4 DEF EmitOK
<1> QED BY <1>1 DEF EmitInv

\* A snapshot has called nothing and has all of its list to call.
LEMMA SnapshotOK ==
  ASSUME TypeOK
  PROVE  EmitOK(Snapshot, lists[Snapshot.list])
<1> DEFINE s == Subs(lists[current])
<1>1. current \in DOMAIN lists BY DEF TypeOK, ListsOK
<1>2. s \in Seq(1..MaxSubs) BY <1>1, SubsType
<1>3. Len(s) = Len(lists[current]) /\ Len(lists[current]) \in Nat
  <2>1. /\ DOMAIN lists[current] = 1..Len(lists[current]) /\ Len(lists[current]) \in Nat
    BY SlotTypes
  <2>2. DOMAIN s = 1..Len(lists[current]) BY <2>1 DEF Subs
  <2> QED BY <1>2, <2>1, <2>2
<1> HIDE DEF s
<1>4. s = <<>> \o SubSeq(s, 1, Len(lists[current])) BY <1>2, <1>3, SubSeqFull, ConcatEmptySeq
<1> QED BY <1>3, <1>4 DEF EmitOK, Snapshot, s

\* A change of the innermost call
LEMMA TopStays ==
  ASSUME TypeOK, EmitInv, NEW t \in Threads, stack[t] # <<>>, NEW frame,
         stack' = WithTop(t, frame), EmitOK(frame, lists[frame.list]), UNCHANGED lists
  PROVE  EmitInv'
<1>1. stack \in [Threads -> Seq(Frames)] BY DEF TypeOK
<1> DEFINE new == WithTop(t, frame)
<1>2. \A u \in Threads : \A i \in DOMAIN new[u] :
            (i \in DOMAIN stack[u] /\ new[u][i] = stack[u][i]) \/ new[u][i] = frame
  BY <1>1, TopFrames
<1> HIDE DEF new
<1>3. stack' = new /\ lists' = lists BY DEF new
<1>4. \A u \in Threads : \A i \in DOMAIN stack'[u] :
            \/ i \in DOMAIN stack[u] /\ stack'[u][i] = stack[u][i]
            \/ EmitOK(stack'[u][i], lists'[stack'[u][i].list])
  BY <1>2, <1>3
<1> QED BY <1>3, <1>4, EmitStays

\* The handler called is the next one of the snapshot.
LEMMA CallHandlerEmits ==
  ASSUME TypeOK, EmitInv, NEW t \in Threads, CallHandler(t)
  PROVE  EmitInv'
<1> DEFINE list == lists[Top(t).list]
           slot == list[Top(t).next]
           frame == [Top(t) EXCEPT !.busy = TRUE, !.next = @ + 1,
                                   !.called = Append(@, slot.sub)]
<1>1. /\ stack[t] # <<>> /\ Top(t).call = "emit" /\ Top(t).next <= Len(list)
      /\ stack' = WithTop(t, frame) /\ UNCHANGED lists
  BY DEF CallHandler, Inside
<1>2. stack \in [Threads -> Seq(Frames)] BY DEF TypeOK
<1>3. /\ Top(t) \in EmitFrames
      /\ Len(stack[t]) \in DOMAIN stack[t] /\ Top(t) = stack[t][Len(stack[t])]
  BY <1>1, <1>2, TopIs, FrameKinds
<1>4. /\ Top(t).list \in DOMAIN lists /\ Top(t).next \in Nat \ {0}
      /\ Top(t).called \in Seq(1..MaxSubs)
  BY <1>3 DEF EmitFrames
<1>5. list \in Seq(Slots) BY <1>4 DEF TypeOK, ListsOK
<1>6. Top(t).next \in DOMAIN list /\ DOMAIN list = 1..Len(list) /\ Len(list) \in Nat
  BY <1>1, <1>4, <1>5
<1>7. /\ Subs(list) \in Seq(1..MaxSubs) /\ Len(Subs(list)) = Len(list)
      /\ Subs(list)[Top(t).next] = slot.sub
  <2>1. Subs(list) \in Seq(1..MaxSubs) BY <1>4, SubsType
  <2>2. DOMAIN Subs(list) = 1..Len(list) BY <1>6 DEF Subs
  <2>3. Len(Subs(list)) = Len(list) BY <1>6, <2>1, <2>2
  <2> QED BY <1>6, <2>1, <2>3 DEF Subs
<1>8. /\ Top(t).taken = Top(t).called \o SubSeq(Subs(list), Top(t).next, Len(list))
      /\ Top(t).next <= Len(list) + 1
  BY <1>1, <1>3 DEF EmitInv, EmitOK
<1>9. /\ frame.call = "emit" /\ frame.list = Top(t).list /\ frame.next = Top(t).next + 1
      /\ frame.taken = Top(t).taken /\ frame.called = Append(Top(t).called, slot.sub)
  BY <1>3 DEF EmitFrames
<1> HIDE DEF frame, slot, list
<1>10. frame.taken = frame.called \o SubSeq(Subs(list), frame.next, Len(list))
  <2> DEFINE subs == Subs(list)  k == Top(t).next  c == Top(t).called
  <2>1. /\ subs \in Seq(1..MaxSubs) /\ c \in Seq(1..MaxSubs) /\ k \in 1..Len(subs)
        /\ Len(subs) = Len(list) /\ subs[k] = slot.sub
    BY <1>4, <1>6, <1>7
  <2> HIDE DEF subs, k, c
  <2>2. c \o SubSeq(subs, k, Len(subs)) = Append(c, subs[k]) \o SubSeq(subs, k + 1, Len(subs))
    BY <2>1, Moves
  <2> QED BY <1>8, <1>9, <2>1, <2>2 DEF subs, k, c
<1>11. frame.next <= Len(list) + 1 BY <1>1, <1>4, <1>6, <1>9
<1>12. EmitOK(frame, lists[frame.list])
  <2>1. lists[frame.list] = list BY <1>9 DEF list
  <2> QED BY <1>10, <1>11, <2>1 DEF EmitOK
<1> QED BY <1>1, <1>12, TopStays

\* A handler that returns changes nothing of what was called.
LEMMA HandlerReturnsEmits ==
  ASSUME TypeOK, EmitInv, NEW t \in Threads, HandlerReturns(t)
  PROVE  EmitInv'
<1> DEFINE frame == [Top(t) EXCEPT !.busy = FALSE]
<1>1. /\ stack[t] # <<>> /\ Top(t).call = "emit"
      /\ stack' = WithTop(t, frame) /\ UNCHANGED lists
  BY DEF HandlerReturns, Inside
<1>2. stack \in [Threads -> Seq(Frames)] BY DEF TypeOK
<1>3. /\ Top(t) \in EmitFrames
      /\ Len(stack[t]) \in DOMAIN stack[t] /\ Top(t) = stack[t][Len(stack[t])]
  BY <1>1, <1>2, TopIs, FrameKinds
<1>4. EmitOK(Top(t), lists[Top(t).list]) BY <1>3 DEF EmitInv
<1>5. /\ frame.call = "emit" /\ frame.list = Top(t).list /\ frame.next = Top(t).next
      /\ frame.taken = Top(t).taken /\ frame.called = Top(t).called
  BY <1>3 DEF EmitFrames
<1> HIDE DEF frame
<1>6. EmitOK(frame, lists[frame.list]) BY <1>1, <1>4, <1>5 DEF EmitOK
<1> QED BY <1>1, <1>6, TopStays

\* An emit() that a flush() makes begins like any other.
LEMMA FlushEmitsEmits ==
  ASSUME TypeOK, EmitInv, NEW t \in Threads, FlushEmits(t)
  PROVE  EmitInv'
<1> DEFINE frame == [call |-> "flush", batch |-> Tail(Top(t).batch)]
           rest == WithTop(t, frame)
<1>1. /\ stack[t] # <<>> /\ frame \in FlushFrames
      /\ (stack' = rest \/ stack' = OnTop(rest, t, Snapshot))
      /\ UNCHANGED lists
  BY FlushTakes
<1>2. stack \in [Threads -> Seq(Frames)] BY DEF TypeOK
<1>3. frame \in Frames /\ frame.call # "emit" BY <1>1 DEF Frames
<1> HIDE DEF frame
<1>4. rest \in [Threads -> Seq(Frames)] BY <1>1, <1>2, <1>3, TopIs
<1>5. \A u \in Threads : \A i \in DOMAIN rest[u] :
            (i \in DOMAIN stack[u] /\ rest[u][i] = stack[u][i]) \/ rest[u][i] = frame
  BY <1>1, <1>2, TopFrames
<1> HIDE DEF rest
<1>6. \A u \in Threads : \A i \in DOMAIN stack'[u] :
            \/ i \in DOMAIN rest[u] /\ stack'[u][i] = rest[u][i]
            \/ stack'[u][i] = Snapshot
  BY <1>1, <1>4, PushFrames
<1>7. EmitOK(Snapshot, lists[Snapshot.list]) BY SnapshotOK
<1>8. EmitOK(frame, lists[frame.list]) BY <1>3 DEF EmitOK
<1>9. ASSUME NEW u \in Threads, NEW i \in DOMAIN stack'[u]
      PROVE  \/ i \in DOMAIN stack[u] /\ stack'[u][i] = stack[u][i]
             \/ EmitOK(stack'[u][i], lists'[stack'[u][i].list])
  BY <1>1, <1>5, <1>6, <1>7, <1>8, <1>9
<1> QED BY <1>1, <1>9, EmitStays

\* A call of another kind that begins
LEMMA PushStays ==
  ASSUME TypeOK, EmitInv, NEW t \in Threads, NEW frame,
         stack' = OnTop(stack, t, frame), EmitOK(frame, lists[frame.list]), UNCHANGED lists
  PROVE  EmitInv'
<1>1. stack \in [Threads -> Seq(Frames)] BY DEF TypeOK
<1>2. \A u \in Threads : \A i \in DOMAIN stack'[u] :
            (i \in DOMAIN stack[u] /\ stack'[u][i] = stack[u][i]) \/ stack'[u][i] = frame
  BY <1>1, PushFrames
<1>3. \A u \in Threads : \A i \in DOMAIN stack'[u] :
            \/ i \in DOMAIN stack[u] /\ stack'[u][i] = stack[u][i]
            \/ EmitOK(stack'[u][i], lists'[stack'[u][i].list])
  BY <1>2
<1> QED BY <1>3, EmitStays

\* A call that returns
LEMMA PopStays ==
  ASSUME TypeOK, EmitInv, NEW t \in Threads, stack[t] # <<>>, stack' = Popped(t),
         \A a : HeldIn(stack, a) => lists'[a] = lists[a] \/ ~HeldIn(stack', a)
  PROVE  EmitInv'
<1>1. stack \in [Threads -> Seq(Frames)] BY DEF TypeOK
<1>2. \A u \in Threads : \A i \in DOMAIN stack'[u] :
            i \in DOMAIN stack[u] /\ stack'[u][i] = stack[u][i]
  BY <1>1, PopFrames
<1> QED BY <1>2, EmitStays

\* A writer: the lists that calls hold are not the one that it writes.
LEMMA HeldNotWritten ==
  ASSUME TypeOK, NEW list, WriteList(CowDetach, list), NEW a, HeldIn(stack, a)
  PROVE  lists'[a] = lists[a]
<1>1. stack \in [Threads -> Seq(Frames)] BY DEF TypeOK
<1>2. a \in DOMAIN lists BY <1>1, HeldIsAlive
<1>3. a # current' BY Writes
<1> QED BY <1>2, <1>3, Writes

\* Every step leaves each emit() at the place of its snapshot.
LEMMA EmitNext == TypeOK /\ EmitInv /\ [Next]_vars => EmitInv'
<1> SUFFICES ASSUME TypeOK, EmitInv, [Next]_vars PROVE EmitInv' OBVIOUS
<1>1. CASE UNCHANGED <<lists, stack>> BY <1>1 DEF EmitInv
<1>2. stack \in [Threads -> Seq(Frames)] BY DEF TypeOK
<1>3. ASSUME NEW t \in Threads, Subscribe(t) PROVE EmitInv'
  <2> DEFINE list == Append(lists[current], [id |-> nextId, sub |-> Len(slotOf) + 1])
  <2>1. WriteList(CowDetach, list) /\ stack' = stack BY <1>3 DEF Subscribe
  <2> HIDE DEF list
  <2>2. \A a : HeldIn(stack, a) => lists'[a] = lists[a] BY <2>1, HeldNotWritten
  <2> QED BY <2>1, <2>2, EmitStays
<1>4. ASSUME NEW t \in Threads, RemoveHandler(t) PROVE EmitInv'
  <2> DEFINE list == Kept(lists[current], slotOf[Top(t).sub])
  <2>1. WriteList(CowDetach, list) /\ stack' = Popped(t) /\ stack[t] # <<>>
    BY <1>4 DEF RemoveHandler, Inside
  <2> HIDE DEF list
  <2>2. \A a : HeldIn(stack, a) => lists'[a] = lists[a] BY <2>1, HeldNotWritten
  <2> QED BY <2>1, <2>2, PopStays
<1>5. ASSUME NEW t \in Threads, Clear(t) PROVE EmitInv'
  <2>1. /\ lists' = [x \in {a \in DOMAIN lists : HeldIn(stack, a)} \cup {Fresh} |->
                       IF x = Fresh THEN <<>> ELSE lists[x]]
        /\ stack' = stack
    BY <1>5 DEF Clear, NewList
  <2>2. Fresh \notin DOMAIN lists BY FreshIsFree DEF TypeOK, ListsOK
  <2>3. \A a : HeldIn(stack, a) => a \in DOMAIN lists BY <1>2, HeldIsAlive
  <2>4. \A a : HeldIn(stack, a) => lists'[a] = lists[a] BY <2>1, <2>2, <2>3
  <2> QED BY <2>1, <2>4, EmitStays
<1>6. ASSUME NEW t \in Threads, Emit(t) PROVE EmitInv'
  <2>1. stack' = OnTop(stack, t, Snapshot) /\ UNCHANGED lists
    BY <1>6 DEF Emit, StartEmit, Pushed, OnTop
  <2> QED BY <2>1, SnapshotOK, PushStays
<1>7. ASSUME NEW t \in Threads, NEW sub, Disconnect(t, sub) PROVE EmitInv'
  <2> DEFINE frame == [call |-> "disconnect", sub |-> sub]
  <2>1. stack' = OnTop(stack, t, frame) /\ UNCHANGED lists
    BY <1>7 DEF Disconnect, Pushed, OnTop
  <2>2. frame.call # "emit" OBVIOUS
  <2> HIDE DEF frame
  <2>3. EmitOK(frame, lists[frame.list]) BY <2>2 DEF EmitOK
  <2> QED BY <2>1, <2>3, PushStays
<1>8. ASSUME NEW t \in Threads, Flush(t) PROVE EmitInv'
  <2> DEFINE frame == [call |-> "flush", batch |-> pending]
  <2>1. stack' = OnTop(stack, t, frame) /\ UNCHANGED lists
    BY <1>8 DEF Flush, Pushed, OnTop
  <2>2. frame.call # "emit" OBVIOUS
  <2> HIDE DEF frame
  <2>3. EmitOK(frame, lists[frame.list]) BY <2>2 DEF EmitOK
  <2> QED BY <2>1, <2>3, PushStays
<1>9. ASSUME NEW t \in Threads, EmitReturns(t) PROVE EmitInv'
  <2>1. /\ lists' = [a \in {x \in DOMAIN lists : x = current \/ HeldIn(Popped(t), x)} |-> lists[a]]
        /\ stack' = Popped(t) /\ stack[t] # <<>>
    BY <1>9 DEF EmitReturns, Inside
  <2>2. \A a : HeldIn(stack, a) => a \in DOMAIN lists BY <1>2, HeldIsAlive
  <2>3. \A a : HeldIn(stack, a) => lists'[a] = lists[a] \/ ~HeldIn(stack', a)
    BY <2>1, <2>2
  <2> QED BY <2>1, <2>3, PopStays
<1>10. ASSUME NEW t \in Threads, FlushReturns(t) PROVE EmitInv'
  <2>1. stack' = Popped(t) /\ stack[t] # <<>> /\ UNCHANGED lists
    BY <1>10 DEF FlushReturns, Inside
  <2> QED BY <2>1, PopStays
<1>11. ASSUME NEW t \in Threads, Call(t) PROVE EmitInv'
  <2>1. CASE Post(t) BY <1>1, <2>1 DEF Post
  <2>2. CASE ClearPending(t) BY <1>1, <2>2 DEF ClearPending
  <2> QED BY <1>3, <1>5, <1>6, <1>7, <1>8, <1>11, <2>1, <2>2 DEF Call
<1>12. ASSUME NEW t \in Threads, Step(t) PROVE EmitInv'
  BY <1>4, <1>9, <1>10, <1>12, CallHandlerEmits, HandlerReturnsEmits, FlushEmitsEmits DEF Step
<1>13. CASE UNCHANGED vars BY <1>1, <1>13 DEF vars
<1> QED BY <1>11, <1>12, <1>13 DEF Next

-----------------------------------------------------------------------------
(* Posted messages                                                          *)

\* Call i of thread u is a flush() that has still to emit message m.
Flushing(st, m, u, i) == /\ i \in DOMAIN st[u] /\ st[u][i].call = "flush"
                         /\ \E j \in DOMAIN st[u][i].batch : st[u][i].batch[j] = m

AtPending(q, m) == \E i \in DOMAIN pending : pending[i] = m /\ q = <<"pending", 0, i>>

AtEmitted(q, m) == \E i \in DOMAIN dispatched : dispatched[i] = m /\ q = <<"emitted", 0, i>>

AtCleared(q, m) == m \in cleared /\ q = <<"cleared", 0, m>>

AtFlush(q, m) == \E u \in Threads : \E i \in DOMAIN stack[u] :
                    Flushing(stack, m, u, i) /\ q = <<"flush", u, i>>

IsPlace(q, m) == AtPending(q, m) \/ AtEmitted(q, m) \/ AtCleared(q, m) \/ AtFlush(q, m)

PlaceInv == \A m \in 1..posts : \E p : \A q : IsPlace(q, m) <=> q = p

Distinct(s) == \A j, k \in DOMAIN s : s[j] = s[k] => j = k

\* No message is twice in the batch of a flush().
BatchInv == \A u \in Threads : \A i \in DOMAIN stack[u] :
               stack[u][i].call = "flush" => Distinct(stack[u][i].batch)

MessageInv == PlaceInv /\ BatchInv

\* IsPlace is membership of Places.
LEMMA PlacesAre == \A m, q : q \in Places(m) <=> IsPlace(q, m)
<1> SUFFICES ASSUME NEW m, NEW q PROVE q \in Places(m) <=> IsPlace(q, m) OBVIOUS
<1>1. q \in {<<"pending", 0, i>> : i \in {j \in DOMAIN pending : pending[j] = m}} <=>
         \E i \in DOMAIN pending : pending[i] = m /\ q = <<"pending", 0, i>>
  OBVIOUS
<1>2. q \in {<<"emitted", 0, i>> : i \in {j \in DOMAIN dispatched : dispatched[j] = m}} <=>
         \E i \in DOMAIN dispatched : dispatched[i] = m /\ q = <<"emitted", 0, i>>
  OBVIOUS
<1>3. q \in {<<"cleared", 0, c>> : c \in {m} \cap cleared} <=>
         m \in cleared /\ q = <<"cleared", 0, m>>
  OBVIOUS
<1> DEFINE Batched(u) == {<<"flush", u, i>> : i \in {j \in DOMAIN stack[u] :
                             stack[u][j].call = "flush" /\ m \in ToSet(stack[u][j].batch)}}
<1>4. \A u \in Threads : q \in Batched(u) <=>
         \E i \in DOMAIN stack[u] : Flushing(stack, m, u, i) /\ q = <<"flush", u, i>>
  BY DEF Flushing, ToSet
<1>5. Places(m) =
         {<<"pending", 0, i>> : i \in {j \in DOMAIN pending : pending[j] = m}}
           \cup {<<"emitted", 0, i>> : i \in {j \in DOMAIN dispatched : dispatched[j] = m}}
           \cup {<<"cleared", 0, c>> : c \in {m} \cap cleared}
           \cup UNION {Batched(u) : u \in Threads}
  BY DEF Places
<1> HIDE DEF Batched
<1>6. q \in UNION {Batched(u) : u \in Threads} <=> \E u \in Threads : q \in Batched(u)
  OBVIOUS
<1> QED BY <1>1, <1>2, <1>3, <1>4, <1>5, <1>6 DEF IsPlace, AtPending, AtEmitted, AtCleared, AtFlush

\* A message with one place only is placed once.
LEMMA PlacedOnce == PlaceInv => PostedOnce
<1> SUFFICES ASSUME PlaceInv, NEW m \in 1..posts PROVE Cardinality(Places(m)) = 1
  BY DEF PostedOnce
<1>1. PICK p : \A q : IsPlace(q, m) <=> q = p BY DEF PlaceInv
<1>2. \A q : q \in Places(m) <=> q = p BY <1>1, PlacesAre
<1>3. Places(m) = {p} BY <1>2
<1> QED BY <1>3, FS_Singleton

\* The flush() calls of two stacks are the same.
SameBatches(old, new) ==
    \A u \in Threads : \A i :
       LET flushes(st) == i \in DOMAIN st[u] /\ st[u][i].call = "flush"
       IN  (flushes(old) <=> flushes(new)) /\ (flushes(old) => new[u][i] = old[u][i])

\* A call that begins, and is not a flush(), leaves the batches alone.
LEMMA PushOther ==
  ASSUME NEW S, NEW st \in [Threads -> Seq(S)], NEW t \in Threads, NEW frame, NEW new,
         new = OnTop(st, t, frame), frame.call # "flush"
  PROVE  SameBatches(st, new)
<1> DEFINE n == Len(st[t])
<1>1. /\ \A u \in Threads : u # t => new[u] = st[u]
      /\ n \in Nat /\ DOMAIN st[t] = 1..n /\ DOMAIN new[t] = 1..(n + 1)
      /\ \A i \in 1..n : new[t][i] = st[t][i]
      /\ new[t][n + 1] = frame
  BY PushIs
<1> HIDE DEF n
<1>2. \A i : i \in 1..(n + 1) <=> i \in 1..n \/ i = n + 1 BY <1>1
<1> QED BY <1>1, <1>2 DEF SameBatches

\* A call that returns, and is not a flush(), leaves the batches alone.
LEMMA PopOther ==
  ASSUME NEW S, stack \in [Threads -> Seq(S)], NEW t \in Threads, stack[t] # <<>>,
         Top(t).call # "flush"
  PROVE  SameBatches(stack, Popped(t))
<1> DEFINE new == Popped(t)  n == Len(stack[t])
<1>1. /\ \A u \in Threads : u # t => new[u] = stack[u]
      /\ n \in Nat \ {0} /\ DOMAIN stack[t] = 1..n /\ DOMAIN new[t] = 1..(n - 1)
      /\ \A i \in 1..(n - 1) : new[t][i] = stack[t][i]
      /\ Top(t) = stack[t][n]
  BY PopIs
<1> HIDE DEF new, n
<1>2. \A i : i \in 1..n <=> i \in 1..(n - 1) \/ i = n BY <1>1
<1>3. SameBatches(stack, new) BY <1>1, <1>2 DEF SameBatches
<1> QED BY <1>3 DEF new

\* A call that goes on, and is not a flush(), leaves the batches alone.
LEMMA TopOther ==
  ASSUME NEW S, stack \in [Threads -> Seq(S)], NEW t \in Threads, stack[t] # <<>>,
         Top(t).call # "flush", NEW frame, frame.call # "flush"
  PROVE  SameBatches(stack, WithTop(t, frame))
<1> DEFINE new == WithTop(t, frame)  n == Len(stack[t])
<1>1. /\ \A u \in Threads : u # t => new[u] = stack[u]
      /\ n \in Nat \ {0} /\ DOMAIN stack[t] = 1..n /\ DOMAIN new[t] = 1..n
      /\ \A i \in 1..(n - 1) : new[t][i] = stack[t][i]
      /\ Top(t) = stack[t][n] /\ new[t][n] = frame
  BY TopIs
<1> HIDE DEF new, n
<1>2. \A i : i \in 1..n <=> i \in 1..(n - 1) \/ i = n BY <1>1
<1>3. SameBatches(stack, new) BY <1>1, <1>2 DEF SameBatches
<1> QED BY <1>3 DEF new

\* A step that leaves the messages and the batches alone.
LEMMA SameMessages ==
  ASSUME MessageInv, UNCHANGED messages, SameBatches(stack, stack')
  PROVE  MessageInv'
<1>1. UNCHANGED <<pending, posts, dispatched, cleared>> BY DEF messages
<1>2. \A m, u, i : u \in Threads => (Flushing(stack', m, u, i) <=> Flushing(stack, m, u, i))
  BY DEF Flushing, SameBatches
<1>3. ASSUME NEW m, NEW q PROVE IsPlace(q, m)' <=> IsPlace(q, m)
  <2> DEFINE Batched(st) == \E u \in Threads : \E i \in DOMAIN st[u] :
                               Flushing(st, m, u, i) /\ q = <<"flush", u, i>>
  <2>1. Batched(stack') <=> Batched(stack)
    <3>1. \A u, i : Flushing(stack, m, u, i) => i \in DOMAIN stack[u] BY DEF Flushing
    <3>2. \A u, i : Flushing(stack', m, u, i) => i \in DOMAIN stack'[u] BY DEF Flushing
    <3> QED BY <1>2, <3>1, <3>2
  <2> DEFINE Rest == \/ \E i \in DOMAIN pending : pending[i] = m /\ q = <<"pending", 0, i>>
                     \/ \E i \in DOMAIN dispatched :
                           dispatched[i] = m /\ q = <<"emitted", 0, i>>
                     \/ m \in cleared /\ q = <<"cleared", 0, m>>
  <2>2. Rest' <=> Rest BY <1>1
  <2>3. (IsPlace(q, m) <=> Rest \/ Batched(stack)) /\ (IsPlace(q, m)' <=> Rest' \/ Batched(stack'))
    BY DEF IsPlace, AtPending, AtEmitted, AtCleared, AtFlush
  <2> QED BY <2>1, <2>2, <2>3
<1>4. ASSUME NEW m \in 1..posts PROVE \E p : \A q : IsPlace(q, m)' <=> q = p
  <2>1. PICK p : \A q : IsPlace(q, m) <=> q = p BY DEF MessageInv, PlaceInv
  <2>2. \A q : IsPlace(q, m)' <=> q = p BY <1>3, <2>1
  <2> QED BY <2>2
<1>a. PlaceInv' BY <1>1, <1>4 DEF PlaceInv
<1>5. BatchInv' BY DEF MessageInv, BatchInv, SameBatches
<1> QED BY <1>5, <1>a DEF MessageInv

\* Only posted messages have a place.
LEMMA MessageTypes ==
  ASSUME TypeOK
  PROVE  /\ posts \in Nat /\ pending \in Seq(1..posts) /\ dispatched \in Seq(1..posts)
         /\ \A i \in DOMAIN pending : pending[i] \in 1..posts
         /\ \A i \in DOMAIN dispatched : dispatched[i] \in 1..posts
         /\ cleared \subseteq 1..posts
         /\ \A m, u, i : u \in Threads /\ Flushing(stack, m, u, i) => m \in 1..posts
<1>1. /\ posts \in Nat /\ pending \in Seq(1..posts) /\ dispatched \in Seq(1..posts)
      /\ cleared \subseteq 1..posts
  BY DEF TypeOK, MessagesOK
<1>2. stack \in [Threads -> Seq(Frames)] BY DEF TypeOK
<1>3. ASSUME NEW m, NEW u \in Threads, NEW i, Flushing(stack, m, u, i) PROVE m \in 1..posts
  <2>1. i \in DOMAIN stack[u] /\ stack[u][i].call = "flush" BY <1>3 DEF Flushing
  <2>2. stack[u][i] \in Frames BY <1>2, <2>1, Elements
  <2>3. stack[u][i] \in FlushFrames BY <2>1, <2>2, FrameKinds
  <2>4. stack[u][i].batch \in Seq(1..posts) BY <2>3 DEF FlushFrames
  <2>5. \A j \in DOMAIN stack[u][i].batch : stack[u][i].batch[j] \in 1..posts
    BY <2>4, Elements
  <2> QED BY <1>3, <2>5 DEF Flushing
<1> QED BY <1>1, <1>3, Elements

\* A message that is pending is at no other place.
LEMMA PendingAlone ==
  ASSUME PlaceInv, NEW m \in 1..posts, NEW j \in DOMAIN pending, pending[j] = m
  PROVE  /\ \A i \in DOMAIN dispatched : dispatched[i] # m
         /\ m \notin cleared
         /\ \A u \in Threads : \A i : ~Flushing(stack, m, u, i)
<1> USE DEF IsPlace, AtPending, AtEmitted, AtCleared, AtFlush
<1>1. PICK p : \A q : IsPlace(q, m) <=> q = p BY DEF PlaceInv
<1>2. p = <<"pending", 0, j>> BY <1>1
<1>3. ASSUME NEW i \in DOMAIN dispatched, dispatched[i] = m PROVE FALSE
  <2>1. IsPlace(<<"emitted", 0, i>>, m) BY <1>3
  <2>2. <<"emitted", 0, i>> = <<"pending", 0, j>> BY <1>1, <1>2, <2>1
  <2> QED BY <2>2
<1>4. ASSUME m \in cleared PROVE FALSE
  <2>1. IsPlace(<<"cleared", 0, m>>, m) BY <1>4
  <2>2. <<"cleared", 0, m>> = <<"pending", 0, j>> BY <1>1, <1>2, <2>1
  <2> QED BY <2>2
<1>5. ASSUME NEW u \in Threads, NEW i, Flushing(stack, m, u, i) PROVE FALSE
  <2>1. i \in DOMAIN stack[u] BY <1>5 DEF Flushing
  <2>2. IsPlace(<<"flush", u, i>>, m) BY <1>5, <2>1
  <2>3. <<"flush", u, i>> = <<"pending", 0, j>> BY <1>1, <1>2, <2>2
  <2> QED BY <2>3
<1> QED BY <1>3, <1>4, <1>5

\* A message in the batch of a flush() is at no other place.
LEMMA FlushAlone ==
  ASSUME PlaceInv, NEW m \in 1..posts, NEW t \in Threads, NEW n, Flushing(stack, m, t, n)
  PROVE  /\ \A i \in DOMAIN pending : pending[i] # m
         /\ \A i \in DOMAIN dispatched : dispatched[i] # m
         /\ m \notin cleared
         /\ \A u \in Threads : \A i : Flushing(stack, m, u, i) => u = t /\ i = n
<1> USE DEF IsPlace, AtPending, AtEmitted, AtCleared, AtFlush
<1>1. PICK p : \A q : IsPlace(q, m) <=> q = p BY DEF PlaceInv
<1>2. p = <<"flush", t, n>>
  <2>1. n \in DOMAIN stack[t] BY DEF Flushing
  <2>2. IsPlace(<<"flush", t, n>>, m) BY <2>1
  <2> QED BY <1>1, <2>2
<1>3. ASSUME NEW i \in DOMAIN pending, pending[i] = m PROVE FALSE
  <2>1. IsPlace(<<"pending", 0, i>>, m) BY <1>3
  <2>2. <<"pending", 0, i>> = <<"flush", t, n>> BY <1>1, <1>2, <2>1
  <2> QED BY <2>2
<1>4. ASSUME NEW i \in DOMAIN dispatched, dispatched[i] = m PROVE FALSE
  <2>1. IsPlace(<<"emitted", 0, i>>, m) BY <1>4
  <2>2. <<"emitted", 0, i>> = <<"flush", t, n>> BY <1>1, <1>2, <2>1
  <2> QED BY <2>2
<1>5. ASSUME m \in cleared PROVE FALSE
  <2>1. IsPlace(<<"cleared", 0, m>>, m) BY <1>5
  <2>2. <<"cleared", 0, m>> = <<"flush", t, n>> BY <1>1, <1>2, <2>1
  <2> QED BY <2>2
<1>6. ASSUME NEW u \in Threads, NEW i, Flushing(stack, m, u, i) PROVE u = t /\ i = n
  <2>1. i \in DOMAIN stack[u] BY <1>6 DEF Flushing
  <2>2. IsPlace(<<"flush", u, i>>, m) BY <1>6, <2>1
  <2>3. <<"flush", u, i>> = <<"flush", t, n>> BY <1>1, <1>2, <2>2
  <2> QED BY <2>3
<1> QED BY <1>3, <1>4, <1>5, <1>6

\* post() gives the new message one place, and the others keep theirs.
LEMMA PostMessages ==
  ASSUME TypeOK, MessageInv, NEW t \in Threads, Post(t)
  PROVE  MessageInv'
<1> DEFINE n == Len(pending)
<1>1. /\ posts' = posts + 1 /\ pending' = Append(pending, posts + 1)
      /\ UNCHANGED <<dispatched, cleared, stack>>
  BY DEF Post
<1>2. /\ posts \in Nat /\ pending \in Seq(1..posts)
      /\ \A i \in DOMAIN pending : pending[i] \in 1..posts
      /\ \A i \in DOMAIN dispatched : dispatched[i] \in 1..posts
      /\ cleared \subseteq 1..posts
      /\ \A m, u, i : u \in Threads /\ Flushing(stack, m, u, i) => m \in 1..posts
  BY MessageTypes
<1>3. /\ n \in Nat /\ DOMAIN pending = 1..n /\ DOMAIN pending' = 1..(n + 1)
      /\ pending'[n + 1] = posts + 1 /\ \A i \in 1..n : pending'[i] = pending[i]
  <2>1. pending \in Seq(Nat) /\ posts + 1 \in Nat
    <3>1. 1..posts \subseteq Nat BY <1>2
    <3> QED BY <1>2, <3>1
  <2>2. pending' \in Seq(Nat) /\ Len(pending') = n + 1 BY <1>1, <2>1
  <2> QED BY <1>1, <2>1, <2>2
<1> HIDE DEF n
<1>4. \A i : i \in 1..(n + 1) <=> i \in 1..n \/ i = n + 1 BY <1>3
<1>5. posts + 1 \notin 1..posts /\ n + 1 \notin 1..n BY <1>2, <1>3
<1>6. \A i : i \in 1..n => pending'[i] # posts + 1 BY <1>2, <1>3, <1>5
<1>7. ASSUME NEW m \in 1..posts' PROVE \E p : \A q : IsPlace(q, m)' <=> q = p
  <2>1. CASE m = posts + 1
    <3>1. \A q : AtPending(q, m)' <=> q = <<"pending", 0, n + 1>>
      BY <1>3, <1>4, <1>6, <2>1 DEF AtPending
    <3>2. \A q : ~AtEmitted(q, m)' BY <1>1, <1>2, <1>5, <2>1 DEF AtEmitted
    <3>3. \A q : ~AtCleared(q, m)' BY <1>1, <1>2, <1>5, <2>1 DEF AtCleared
    <3>4. \A q : ~AtFlush(q, m)' BY <1>1, <1>2, <1>5, <2>1 DEF AtFlush
    <3> DEFINE new == <<"pending", 0, n + 1>>
    <3>5. \A q : IsPlace(q, m)' <=> q = new
      BY <3>1, <3>2, <3>3, <3>4 DEF IsPlace
    <3> HIDE DEF new
    <3> QED BY <3>5
  <2>2. CASE m \in 1..posts
    <3>1. PICK p : \A q : IsPlace(q, m) <=> q = p BY <2>2 DEF MessageInv, PlaceInv
    <3>2. m # posts + 1 BY <1>5, <2>2
    <3>3. \A q : AtPending(q, m)' <=> AtPending(q, m) BY <1>3, <1>4, <3>2 DEF AtPending
    <3>4. \A q : AtEmitted(q, m)' <=> AtEmitted(q, m) BY <1>1 DEF AtEmitted
    <3>5. \A q : AtCleared(q, m)' <=> AtCleared(q, m) BY <1>1 DEF AtCleared
    <3>6. \A q : AtFlush(q, m)' <=> AtFlush(q, m) BY <1>1 DEF AtFlush
    <3>7. \A q : IsPlace(q, m)' <=> q = p BY <3>1, <3>3, <3>4, <3>5, <3>6 DEF IsPlace
    <3> QED BY <3>7
  <2>3. m = posts + 1 \/ m \in 1..posts BY <1>1, <1>2
  <2> QED BY <2>1, <2>2, <2>3
<1>8. PlaceInv' BY <1>7 DEF PlaceInv
<1>9. BatchInv' BY <1>1 DEF MessageInv, BatchInv
<1> QED BY <1>8, <1>9 DEF MessageInv

\* flush() takes the pending messages to the batch of its call.
LEMMA FlushMessages ==
  ASSUME TypeOK, MessageInv, NEW t \in Threads, Flush(t)
  PROVE  MessageInv'
<1> DEFINE n == Len(stack[t])
           frame == [call |-> "flush", batch |-> pending]
<1>1. /\ pending' = <<>> /\ UNCHANGED <<posts, dispatched, cleared>>
      /\ stack' = OnTop(stack, t, frame)
  BY DEF Flush, Pushed, OnTop
<1>2. stack \in [Threads -> Seq(Frames)] BY DEF TypeOK
<1>3. frame.call = "flush" /\ frame.batch = pending OBVIOUS
<1> HIDE DEF frame
<1>4. /\ \A u \in Threads : u # t => stack'[u] = stack[u]
      /\ n \in Nat /\ DOMAIN stack[t] = 1..n /\ DOMAIN stack'[t] = 1..(n + 1)
      /\ \A i \in 1..n : stack'[t][i] = stack[t][i]
      /\ stack'[t][n + 1] = frame
  BY <1>1, <1>2, PushIs
<1> HIDE DEF n
<1>5. (\A i : i \in 1..(n + 1) <=> i \in 1..n \/ i = n + 1) /\ n + 1 \notin 1..n BY <1>4
<1>6. ASSUME NEW m, NEW u \in Threads, NEW i
      PROVE  Flushing(stack', m, u, i) <=>
               \/ Flushing(stack, m, u, i)
               \/ u = t /\ i = n + 1 /\ \E j \in DOMAIN pending : pending[j] = m
  <2>1. CASE u # t BY <1>4, <2>1 DEF Flushing
  <2>2. CASE u = t /\ i # n + 1 BY <1>4, <1>5, <2>2 DEF Flushing
  <2>3. CASE u = t /\ i = n + 1 BY <1>3, <1>4, <1>5, <2>3 DEF Flushing
  <2> QED BY <2>1, <2>2, <2>3
<1>7. \A m, u, i : Flushing(stack, m, u, i) => i \in DOMAIN stack[u] BY DEF Flushing
<1>8. \A m, u, i : Flushing(stack', m, u, i) => i \in DOMAIN stack'[u] BY DEF Flushing
<1>9. ASSUME NEW m \in 1..posts PROVE \E p : \A q : IsPlace(q, m)' <=> q = p
  <2>1. PICK p : \A q : IsPlace(q, m) <=> q = p BY DEF MessageInv, PlaceInv
  <2>2. CASE \E j \in DOMAIN pending : pending[j] = m
    <3>1. PICK j \in DOMAIN pending : pending[j] = m BY <2>2
    <3>3. /\ \A i \in DOMAIN dispatched : dispatched[i] # m
          /\ m \notin cleared
          /\ \A u \in Threads : \A i : ~Flushing(stack, m, u, i)
      BY <3>1, PendingAlone DEF MessageInv
    <3>4. \A q : AtFlush(q, m)' <=> q = <<"flush", t, n + 1>>
      <4>1. Flushing(stack', m, t, n + 1) BY <1>6, <2>2
      <4>2. \A u \in Threads : \A i : Flushing(stack', m, u, i) => u = t /\ i = n + 1
        BY <1>6, <3>3
      <4> QED BY <1>8, <4>1, <4>2 DEF AtFlush
    <3>5. \A q : ~AtPending(q, m)' BY <1>1 DEF AtPending
    <3>6. \A q : ~AtEmitted(q, m)' BY <1>1, <3>3 DEF AtEmitted
    <3>7. \A q : ~AtCleared(q, m)' BY <1>1, <3>3 DEF AtCleared
    <3> DEFINE new == <<"flush", t, n + 1>>
    <3>8. \A q : IsPlace(q, m)' <=> q = new
      BY <3>4, <3>5, <3>6, <3>7 DEF IsPlace
    <3> HIDE DEF new
    <3> QED BY <3>8
  <2>3. CASE ~\E j \in DOMAIN pending : pending[j] = m
    <3>1. \A u \in Threads : \A i : Flushing(stack', m, u, i) <=> Flushing(stack, m, u, i)
      BY <1>6, <2>3
    <3>2. \A q : (\E u \in Threads : \E i \in DOMAIN stack'[u] :
                     Flushing(stack', m, u, i) /\ q = <<"flush", u, i>>)
             <=> (\E u \in Threads : \E i \in DOMAIN stack[u] :
                     Flushing(stack, m, u, i) /\ q = <<"flush", u, i>>)
      BY <1>7, <1>8, <3>1
    <3>3. \A q : IsPlace(q, m)' <=> IsPlace(q, m) BY <1>1, <2>3, <3>2 DEF IsPlace, AtPending, AtEmitted, AtCleared, AtFlush
    <3> QED BY <2>1, <3>3
  <2> QED BY <2>2, <2>3
<1>10. PlaceInv' BY <1>1, <1>9 DEF PlaceInv
<1>11. Distinct(pending)
  <2> SUFFICES ASSUME NEW j \in DOMAIN pending, NEW k \in DOMAIN pending,
                      pending[j] = pending[k]
               PROVE  j = k
    BY DEF Distinct
  <2>1. pending[j] \in 1..posts BY MessageTypes
  <2>2. PICK p : \A q : IsPlace(q, pending[j]) <=> q = p BY <2>1 DEF MessageInv, PlaceInv
  <2>3. p = <<"pending", 0, j>> /\ p = <<"pending", 0, k>> BY <2>2 DEF IsPlace, AtPending, AtEmitted, AtCleared, AtFlush
  <2> QED BY <2>3
<1>12. ASSUME NEW u \in Threads, NEW i \in DOMAIN stack'[u], stack'[u][i].call = "flush"
       PROVE  Distinct(stack'[u][i].batch)
  <2>1. CASE u = t /\ i = n + 1 BY <1>3, <1>4, <1>11, <2>1
  <2>2. CASE u # t \/ i # n + 1
    <3>1. i \in DOMAIN stack[u] /\ stack'[u][i] = stack[u][i] BY <1>4, <1>5, <1>12, <2>2
    <3> QED BY <1>12, <3>1 DEF MessageInv, BatchInv
  <2> QED BY <2>1, <2>2
<1>13. BatchInv' BY <1>12 DEF BatchInv
<1> QED BY <1>10, <1>13 DEF MessageInv

\* The batch without its first message
LEMMA DistinctTail ==
  ASSUME NEW S, NEW b \in Seq(S), b # <<>>, Distinct(b)
  PROVE  /\ \A m : (\E j \in DOMAIN b : b[j] = m) <=>
                      m = Head(b) \/ \E j \in DOMAIN Tail(b) : Tail(b)[j] = m
         /\ \A j \in DOMAIN Tail(b) : Tail(b)[j] # Head(b)
         /\ Distinct(Tail(b)) /\ Head(b) \in S
<1> DEFINE n == Len(b)  r == Tail(b)
<1>1. /\ n \in Nat \ {0} /\ DOMAIN b = 1..n /\ DOMAIN r = 1..(n - 1)
      /\ \A j \in 1..(n - 1) : r[j] = b[j + 1]
      /\ Head(b) = b[1] /\ b[1] \in S
  BY HeadAndTail
<1> HIDE DEF n, r
<1>2. \A j : j \in 1..(n - 1) => j + 1 \in 1..n /\ j + 1 # 1 BY <1>1
<1>3. \A j : j \in 1..n => j = 1 \/ (j - 1 \in 1..(n - 1) /\ (j - 1) + 1 = j) BY <1>1
<1>4. 1 \in 1..n BY <1>1
<1>5. \A m : (\E j \in DOMAIN b : b[j] = m) <=> m = Head(b) \/ \E j \in DOMAIN r : r[j] = m
  <2> SUFFICES ASSUME NEW m
               PROVE (\E j \in 1..n : b[j] = m) <=> m = b[1] \/ \E j \in 1..(n - 1) : r[j] = m
    BY <1>1
  <2>1. ASSUME NEW j \in 1..n, b[j] = m PROVE m = b[1] \/ \E k \in 1..(n - 1) : r[k] = m
    <3>1. CASE j = 1 BY <2>1, <3>1
    <3>2. CASE j - 1 \in 1..(n - 1)
      <4>1. r[j - 1] = m BY <1>1, <1>3, <2>1, <3>2
      <4> QED BY <3>2, <4>1
    <3> QED BY <1>3, <3>1, <3>2
  <2>2. ASSUME NEW k \in 1..(n - 1), r[k] = m PROVE \E j \in 1..n : b[j] = m
    BY <1>1, <1>2, <2>2
  <2> QED BY <1>4, <2>1, <2>2
<1>6. \A j \in DOMAIN r : r[j] # Head(b) BY <1>1, <1>2, <1>4 DEF Distinct
<1>7. Distinct(r)
  <2> SUFFICES ASSUME NEW j \in 1..(n - 1), NEW k \in 1..(n - 1), r[j] = r[k] PROVE j = k
    BY <1>1 DEF Distinct
  <2>1. b[j + 1] = b[k + 1] BY <1>1
  <2>2. j + 1 \in DOMAIN b /\ k + 1 \in DOMAIN b BY <1>1, <1>2
  <2>3. j + 1 = k + 1 BY <2>1, <2>2 DEF Distinct
  <2> QED BY <1>1, <2>3
<1> QED BY <1>1, <1>5, <1>6, <1>7 DEF r

\* A flush() emits the first message of its batch, and may be in an emit() then.
LEMMA FlushEmitsMessages ==
  ASSUME TypeOK, MessageInv, NEW t \in Threads, FlushEmits(t)
  PROVE  MessageInv'
<1> DEFINE n == Len(stack[t])
           b == Top(t).batch
           frame == [call |-> "flush", batch |-> Tail(b)]
           rest == WithTop(t, frame)
           d == Len(dispatched)
<1>1. /\ stack[t] # <<>> /\ Top(t).call = "flush" /\ b # <<>>
      /\ dispatched' = Append(dispatched, Head(b))
      /\ UNCHANGED <<pending, posts, cleared>>
  BY DEF FlushEmits, Inside
<1>2. stack \in [Threads -> Seq(Frames)] /\ frame \in FlushFrames
      /\ (stack' = rest \/ stack' = OnTop(rest, t, Snapshot))
  BY FlushTakes DEF TypeOK
<1>3. frame.call = "flush" /\ frame.batch = Tail(b) /\ frame \in Frames BY <1>2 DEF Frames
<1> HIDE DEF frame
<1>4. /\ \A u \in Threads : u # t => rest[u] = stack[u]
      /\ n \in Nat \ {0} /\ DOMAIN stack[t] = 1..n /\ DOMAIN rest[t] = 1..n
      /\ \A i \in 1..(n - 1) : rest[t][i] = stack[t][i]
      /\ Top(t) = stack[t][n] /\ rest[t][n] = frame
      /\ rest \in [Threads -> Seq(Frames)]
  BY <1>1, <1>2, <1>3, TopIs
<1> HIDE DEF rest, n
<1>5. (\A i : i \in 1..n <=> i \in 1..(n - 1) \/ i = n) /\ n \in 1..n BY <1>4
<1>6. SameBatches(rest, stack')
  <2>1. CASE stack' = rest BY <2>1 DEF SameBatches
  <2>2. CASE stack' = OnTop(rest, t, Snapshot)
    <3>1. Snapshot.call # "flush" BY DEF Snapshot
    <3> QED BY <1>4, <2>2, <3>1, PushOther
  <2> QED BY <1>2, <2>1, <2>2
<1>7. b \in Seq(1..posts)
  <2>1. stack[t][n] \in Frames BY <1>2, <1>4, <1>5, Elements
  <2>2. stack[t][n] \in FlushFrames BY <1>1, <1>4, <2>1, FrameKinds
  <2> QED BY <1>4, <2>2 DEF FlushFrames
<1>8. Distinct(b)
  <2>1. n \in DOMAIN stack[t] /\ stack[t][n].call = "flush" /\ stack[t][n].batch = b
    BY <1>1, <1>4, <1>5
  <2> HIDE DEF b
  <2> QED BY <2>1 DEF MessageInv, BatchInv
<1> HIDE DEF b
<1>9. /\ \A m : (\E j \in DOMAIN b : b[j] = m) <=>
                 m = Head(b) \/ \E j \in DOMAIN Tail(b) : Tail(b)[j] = m
      /\ \A j \in DOMAIN Tail(b) : Tail(b)[j] # Head(b)
      /\ Distinct(Tail(b)) /\ Head(b) \in 1..posts
  BY <1>1, <1>7, <1>8, DistinctTail
<1>10. ASSUME NEW m, NEW u \in Threads, NEW i
       PROVE  Flushing(stack', m, u, i) <=>
                \/ Flushing(stack, m, u, i) /\ ~(u = t /\ i = n)
                \/ u = t /\ i = n /\ \E j \in DOMAIN Tail(b) : Tail(b)[j] = m
  <2>1. Flushing(stack', m, u, i) <=> Flushing(rest, m, u, i)
    BY <1>6 DEF Flushing, SameBatches
  <2>2. CASE u # t BY <1>4, <2>1, <2>2 DEF Flushing
  <2>3. CASE u = t /\ i # n BY <1>4, <1>5, <2>1, <2>3 DEF Flushing
  <2>4. CASE u = t /\ i = n BY <1>3, <1>4, <1>5, <2>1, <2>4 DEF Flushing
  <2> QED BY <2>2, <2>3, <2>4
<1>11. Flushing(stack, Head(b), t, n) /\ \A m : Flushing(stack, m, t, n) <=> \E j \in DOMAIN b : b[j] = m
  <2>1. stack[t][n].batch = b /\ stack[t][n].call = "flush" /\ n \in DOMAIN stack[t]
    BY <1>1, <1>4, <1>5 DEF b
  <2> QED BY <1>9, <2>1 DEF Flushing
<1>12. \A m, u, i : Flushing(stack, m, u, i) => i \in DOMAIN stack[u] BY DEF Flushing
<1>13. \A m, u, i : Flushing(stack', m, u, i) => i \in DOMAIN stack'[u] BY DEF Flushing
<1>14. /\ d \in Nat /\ DOMAIN dispatched = 1..d /\ DOMAIN dispatched' = 1..(d + 1)
       /\ \A i \in 1..d : dispatched'[i] = dispatched[i]
       /\ dispatched'[d + 1] = Head(b)
  BY <1>1, <1>9 DEF TypeOK, MessagesOK
<1> HIDE DEF d
<1>15. (\A i : i \in 1..(d + 1) <=> i \in 1..d \/ i = d + 1) BY <1>14
<1>16. ASSUME NEW m \in 1..posts PROVE \E p : \A q : IsPlace(q, m)' <=> q = p
  <2>1. CASE m = Head(b)
    <3>1. /\ \A i \in DOMAIN pending : pending[i] # m
          /\ \A i \in DOMAIN dispatched : dispatched[i] # m
          /\ m \notin cleared
          /\ \A u \in Threads : \A i : Flushing(stack, m, u, i) => u = t /\ i = n
      BY <1>11, <2>1, FlushAlone DEF MessageInv
    <3>2. \A u \in Threads : \A i : ~Flushing(stack', m, u, i)
      BY <1>9, <1>10, <2>1, <3>1
    <3> DEFINE new == <<"emitted", 0, d + 1>>
    <3>3. \A q : AtEmitted(q, m)' <=> q = new
      BY <1>14, <1>15, <2>1, <3>1 DEF AtEmitted
    <3> HIDE DEF new
    <3>4. \A q : ~AtPending(q, m)' BY <1>1, <3>1 DEF AtPending
    <3>5. \A q : ~AtCleared(q, m)' BY <1>1, <3>1 DEF AtCleared
    <3>6. \A q : ~AtFlush(q, m)' BY <3>2 DEF AtFlush
    <3>7. \A q : IsPlace(q, m)' <=> q = new BY <3>3, <3>4, <3>5, <3>6 DEF IsPlace
    <3> QED BY <3>7
  <2>2. CASE m # Head(b)
    <3>1. PICK p : \A q : IsPlace(q, m) <=> q = p BY DEF MessageInv, PlaceInv
    <3>2. ASSUME NEW u \in Threads, NEW i
          PROVE  Flushing(stack', m, u, i) <=> Flushing(stack, m, u, i)
      <4>1. CASE u = t /\ i = n
        <5>1. Flushing(stack', m, t, n) <=> \E j \in DOMAIN Tail(b) : Tail(b)[j] = m BY <1>10
        <5>2. Flushing(stack, m, t, n) <=> \E j \in DOMAIN b : b[j] = m BY <1>11
        <5>3. (\E j \in DOMAIN b : b[j] = m) <=> \E j \in DOMAIN Tail(b) : Tail(b)[j] = m
          BY <1>9, <2>2
        <5> QED BY <4>1, <5>1, <5>2, <5>3
      <4>2. CASE ~(u = t /\ i = n) BY <1>10, <4>2
      <4> QED BY <4>1, <4>2
    <3>3. \A q : AtFlush(q, m)' <=> AtFlush(q, m) BY <1>12, <1>13, <3>2 DEF AtFlush
    <3>4. \A q : AtPending(q, m)' <=> AtPending(q, m) BY <1>1 DEF AtPending
    <3>5. \A q : AtCleared(q, m)' <=> AtCleared(q, m) BY <1>1 DEF AtCleared
    <3>6. \A q : AtEmitted(q, m)' <=> AtEmitted(q, m)
      BY <1>14, <1>15, <2>2 DEF AtEmitted
    <3>7. \A q : IsPlace(q, m)' <=> q = p BY <3>1, <3>3, <3>4, <3>5, <3>6 DEF IsPlace
    <3> QED BY <3>7
  <2> QED BY <2>1, <2>2
<1>17. PlaceInv' BY <1>1, <1>16 DEF PlaceInv
<1>18. ASSUME NEW u \in Threads, NEW i \in DOMAIN rest[u], rest[u][i].call = "flush"
       PROVE  Distinct(rest[u][i].batch)
  <2>1. CASE u = t /\ i = n BY <1>3, <1>4, <1>9, <2>1
  <2>2. CASE ~(u = t /\ i = n)
    <3>1. i \in DOMAIN stack[u] /\ rest[u][i] = stack[u][i] BY <1>4, <1>5, <1>18, <2>2
    <3> QED BY <1>18, <3>1 DEF MessageInv, BatchInv
  <2> QED BY <2>1, <2>2
<1>19. BatchInv' BY <1>6, <1>18 DEF BatchInv, SameBatches
<1> QED BY <1>17, <1>19 DEF MessageInv

\* A flush() whose batch is empty returns.
LEMMA FlushReturnsMessages ==
  ASSUME TypeOK, MessageInv, NEW t \in Threads, FlushReturns(t)
  PROVE  MessageInv'
<1> DEFINE n == Len(stack[t])
<1>1. /\ stack[t] # <<>> /\ Top(t).batch = <<>> /\ stack' = Popped(t)
      /\ UNCHANGED <<pending, posts, cleared, dispatched>>
  BY DEF FlushReturns, Inside, messages
<1>2. stack \in [Threads -> Seq(Frames)] BY DEF TypeOK
<1>3. /\ \A u \in Threads : u # t => stack'[u] = stack[u]
      /\ n \in Nat \ {0} /\ DOMAIN stack[t] = 1..n /\ DOMAIN stack'[t] = 1..(n - 1)
      /\ \A i \in 1..(n - 1) : stack'[t][i] = stack[t][i]
      /\ Top(t) = stack[t][n]
  BY <1>1, <1>2, PopIs
<1> HIDE DEF n
<1>4. (\A i : i \in 1..n <=> i \in 1..(n - 1) \/ i = n) /\ n \notin 1..(n - 1) BY <1>3
<1>5. ASSUME NEW m, NEW u \in Threads, NEW i
      PROVE  Flushing(stack', m, u, i) <=> Flushing(stack, m, u, i)
  <2>1. CASE u # t BY <1>3, <2>1 DEF Flushing
  <2>2. CASE u = t /\ i # n BY <1>3, <1>4, <2>2 DEF Flushing
  <2>3. CASE u = t /\ i = n BY <1>1, <1>3, <1>4, <2>3 DEF Flushing
  <2> QED BY <2>1, <2>2, <2>3
<1>6. \A m, u, i : Flushing(stack, m, u, i) => i \in DOMAIN stack[u] BY DEF Flushing
<1>7. \A m, u, i : Flushing(stack', m, u, i) => i \in DOMAIN stack'[u] BY DEF Flushing
<1>8. ASSUME NEW m \in 1..posts PROVE \E p : \A q : IsPlace(q, m)' <=> q = p
  <2>1. PICK p : \A q : IsPlace(q, m) <=> q = p BY DEF MessageInv, PlaceInv
  <2>2. \A q : AtFlush(q, m)' <=> AtFlush(q, m) BY <1>5, <1>6, <1>7 DEF AtFlush
  <2>3. \A q : AtPending(q, m)' <=> AtPending(q, m) BY <1>1 DEF AtPending
  <2>4. \A q : AtCleared(q, m)' <=> AtCleared(q, m) BY <1>1 DEF AtCleared
  <2>5. \A q : AtEmitted(q, m)' <=> AtEmitted(q, m) BY <1>1 DEF AtEmitted
  <2>6. \A q : IsPlace(q, m)' <=> q = p BY <2>1, <2>2, <2>3, <2>4, <2>5 DEF IsPlace
  <2> QED BY <2>6
<1>9. PlaceInv' BY <1>1, <1>8 DEF PlaceInv
<1>10. ASSUME NEW u \in Threads, NEW i \in DOMAIN stack'[u], stack'[u][i].call = "flush"
       PROVE  Distinct(stack'[u][i].batch)
  <2>1. i \in DOMAIN stack[u] /\ stack'[u][i] = stack[u][i] BY <1>3, <1>4
  <2> QED BY <1>10, <2>1 DEF MessageInv, BatchInv
<1>11. BatchInv' BY <1>10 DEF BatchInv
<1> QED BY <1>9, <1>11 DEF MessageInv

\* clearPending() takes the pending messages to where the discarded ones are.
LEMMA ClearPendingMessages ==
  ASSUME TypeOK, MessageInv, NEW t \in Threads, ClearPending(t)
  PROVE  MessageInv'
<1>1. /\ pending' = <<>> /\ cleared' = cleared \cup {pending[i] : i \in DOMAIN pending}
      /\ UNCHANGED <<posts, dispatched, stack>>
  BY DEF ClearPending, ToSet
<1>2. ASSUME NEW m \in 1..posts PROVE \E p : \A q : IsPlace(q, m)' <=> q = p
  <2>1. \A q : AtFlush(q, m)' <=> AtFlush(q, m) BY <1>1 DEF AtFlush
  <2>2. \A q : AtEmitted(q, m)' <=> AtEmitted(q, m) BY <1>1 DEF AtEmitted
  <2>3. \A q : ~AtPending(q, m)' BY <1>1 DEF AtPending
  <2>4. CASE \E j \in DOMAIN pending : pending[j] = m
    <3>1. PICK j \in DOMAIN pending : pending[j] = m BY <2>4
    <3>2. /\ \A i \in DOMAIN dispatched : dispatched[i] # m
          /\ \A u \in Threads : \A i : ~Flushing(stack, m, u, i)
      BY <3>1, PendingAlone DEF MessageInv
    <3> DEFINE new == <<"cleared", 0, m>>
    <3>3. \A q : AtCleared(q, m)' <=> q = new BY <1>1, <3>1 DEF AtCleared
    <3> HIDE DEF new
    <3>4. \A q : ~AtEmitted(q, m)' BY <2>2, <3>2 DEF AtEmitted
    <3>5. \A q : ~AtFlush(q, m)' BY <2>1, <3>2 DEF AtFlush
    <3>6. \A q : IsPlace(q, m)' <=> q = new BY <2>3, <3>3, <3>4, <3>5 DEF IsPlace
    <3> QED BY <3>6
  <2>5. CASE ~\E j \in DOMAIN pending : pending[j] = m
    <3>1. PICK p : \A q : IsPlace(q, m) <=> q = p BY DEF MessageInv, PlaceInv
    <3>2. \A q : AtCleared(q, m)' <=> AtCleared(q, m) BY <1>1, <2>5 DEF AtCleared
    <3>3. \A q : ~AtPending(q, m) BY <2>5 DEF AtPending
    <3>4. \A q : IsPlace(q, m)' <=> q = p
      BY <2>1, <2>2, <2>3, <3>1, <3>2, <3>3 DEF IsPlace
    <3> QED BY <3>4
  <2> QED BY <2>4, <2>5
<1>3. PlaceInv' BY <1>1, <1>2 DEF PlaceInv
<1>4. BatchInv' BY <1>1 DEF MessageInv, BatchInv
<1> QED BY <1>3, <1>4 DEF MessageInv

\* Nothing is posted at the start.
LEMMA MessageInit == Init => MessageInv
<1> SUFFICES ASSUME Init PROVE MessageInv OBVIOUS
<1>1. posts = 0 /\ \A t \in Threads : stack[t] = <<>> BY DEF Init
<1>2. PlaceInv BY <1>1 DEF PlaceInv
<1>3. BatchInv BY <1>1 DEF BatchInv
<1> QED BY <1>2, <1>3 DEF MessageInv

\* Every step leaves each posted message at one place.
LEMMA MessageNext == TypeOK /\ MessageInv /\ [Next]_vars => MessageInv'
<1> SUFFICES ASSUME TypeOK, MessageInv, [Next]_vars PROVE MessageInv' OBVIOUS
<1>1. stack \in [Threads -> Seq(Frames)] BY DEF TypeOK
<1>2. ASSUME UNCHANGED <<messages, stack>> PROVE MessageInv'
  <2>1. SameBatches(stack, stack') BY <1>2 DEF SameBatches
  <2> QED BY <1>2, <2>1, SameMessages
<1>3. ASSUME NEW t \in Threads, NEW frame, frame.call # "flush",
             stack' = OnTop(stack, t, frame), UNCHANGED messages
      PROVE  MessageInv'
  <2>1. SameBatches(stack, stack') BY <1>1, <1>3, PushOther
  <2> QED BY <1>3, <2>1, SameMessages
<1>4. ASSUME NEW t \in Threads, stack[t] # <<>>, Top(t).call # "flush",
             stack' = Popped(t), UNCHANGED messages
      PROVE  MessageInv'
  <2>1. SameBatches(stack, stack') BY <1>1, <1>4, PopOther
  <2> QED BY <1>4, <2>1, SameMessages
<1>5. ASSUME NEW t \in Threads, stack[t] # <<>>, Top(t).call # "flush",
             NEW frame, frame.call # "flush",
             stack' = WithTop(t, frame), UNCHANGED messages
      PROVE  MessageInv'
  <2>1. SameBatches(stack, stack') BY <1>1, <1>5, TopOther
  <2> QED BY <1>5, <2>1, SameMessages
<1>6. ASSUME NEW t \in Threads, NEW sub, Disconnect(t, sub) PROVE MessageInv'
  <2> DEFINE frame == [call |-> "disconnect", sub |-> sub]
  <2>1. frame.call # "flush" OBVIOUS
  <2>2. stack' = OnTop(stack, t, frame) /\ UNCHANGED messages
    BY <1>6 DEF Disconnect, Pushed, OnTop
  <2> HIDE DEF frame
  <2> QED BY <1>3, <2>1, <2>2
<1>7. ASSUME NEW t \in Threads, Emit(t) PROVE MessageInv'
  <2>1. Snapshot.call # "flush" BY DEF Snapshot
  <2>2. stack' = OnTop(stack, t, Snapshot) /\ UNCHANGED messages
    BY <1>7 DEF Emit, StartEmit, Pushed, OnTop
  <2> QED BY <1>3, <2>1, <2>2
<1>8. ASSUME NEW t \in Threads, RemoveHandler(t) PROVE MessageInv'
  <2>1. /\ stack[t] # <<>> /\ Top(t).call = "disconnect" /\ stack' = Popped(t)
        /\ UNCHANGED messages
    BY <1>8 DEF RemoveHandler, Inside
  <2> QED BY <1>4, <2>1
<1>9. ASSUME NEW t \in Threads, EmitReturns(t) PROVE MessageInv'
  <2>1. /\ stack[t] # <<>> /\ Top(t).call = "emit" /\ stack' = Popped(t)
        /\ UNCHANGED messages
    BY <1>9 DEF EmitReturns, Inside
  <2> QED BY <1>4, <2>1
<1>10. ASSUME NEW t \in Threads, CallHandler(t) PROVE MessageInv'
  <2> DEFINE frame == [Top(t) EXCEPT !.busy = TRUE, !.next = @ + 1,
                          !.called = Append(@, lists[Top(t).list][Top(t).next].sub)]
  <2>1. stack[t] # <<>> /\ Top(t).call = "emit" BY <1>10 DEF CallHandler, Inside
  <2>2. stack' = WithTop(t, frame) /\ UNCHANGED messages BY <1>10 DEF CallHandler
  <2>3. Top(t) \in Frames BY <1>1, <2>1, TopIs
  <2>4. Top(t) \in EmitFrames BY <2>1, <2>3, FrameKinds
  <2>5. frame.call = "emit" BY <2>1, <2>4 DEF EmitFrames
  <2> HIDE DEF frame
  <2> QED BY <1>5, <2>1, <2>2, <2>5
<1>11. ASSUME NEW t \in Threads, HandlerReturns(t) PROVE MessageInv'
  <2> DEFINE frame == [Top(t) EXCEPT !.busy = FALSE]
  <2>1. stack[t] # <<>> /\ Top(t).call = "emit" BY <1>11 DEF HandlerReturns, Inside
  <2>2. stack' = WithTop(t, frame) /\ UNCHANGED messages BY <1>11 DEF HandlerReturns
  <2>3. Top(t) \in Frames BY <1>1, <2>1, TopIs
  <2>4. Top(t) \in EmitFrames BY <2>1, <2>3, FrameKinds
  <2>5. frame.call = "emit" BY <2>1, <2>4 DEF EmitFrames
  <2> HIDE DEF frame
  <2> QED BY <1>5, <2>1, <2>2, <2>5
<1>12. ASSUME NEW t \in Threads, Call(t) PROVE MessageInv'
  <2>1. CASE Subscribe(t) BY <1>2, <2>1 DEF Subscribe
  <2>2. CASE Clear(t) BY <1>2, <2>2 DEF Clear
  <2> QED BY <1>6, <1>7, <1>12, <2>1, <2>2, PostMessages, FlushMessages, ClearPendingMessages
          DEF Call
<1>13. ASSUME NEW t \in Threads, Step(t) PROVE MessageInv'
  BY <1>8, <1>9, <1>10, <1>11, <1>13, FlushEmitsMessages, FlushReturnsMessages DEF Step
<1>14. CASE UNCHANGED vars BY <1>2, <1>14 DEF vars
<1> QED BY <1>12, <1>13, <1>14 DEF Next

-----------------------------------------------------------------------------
(* Theorems                                                                 *)

\* No emit() runs at the start.
LEMMA EmitInit == Init => EmitInv
<1> SUFFICES ASSUME Init PROVE EmitInv OBVIOUS
<1>1. \A t \in Threads : stack[t] = <<>> BY DEF Init
<1> QED BY <1>1 DEF EmitInv

\* Every reachable state of the event has its type: the list in m_handlers and those
\* that the snapshots hold are alive, and no other list is.
THEOREM TypeCorrect == Spec => []TypeOK
<1> QED BY TypeInit, TypeNext, PTL DEF Spec

\* The list that the next emit() takes is the list of the live subscriptions, in the
\* order in which they were made: removeHandler() removes the slot of its own
\* connection only, also after a clear().
THEOREM ListCorrect == Spec => []ListInv
<1>1. TypeOK /\ SubsInv => ListInv BY DEF SubsInv, ListInv
<1> QED BY <1>1, TypeInit, TypeNext, SubsInit, SubsNext, PTL DEF Spec

\* An emit() calls the handlers of its snapshot, each once and in order, whatever the
\* handlers and the other threads do to the event before it returns.
THEOREM EmitsItsSnapshot == Spec => []EmitCallsItsSnapshot
<1>1. EmitInv => EmitCallsItsSnapshot BY DEF EmitInv, EmitOK, EmitCallsItsSnapshot
<1> QED BY <1>1, TypeInit, TypeNext, EmitInit, EmitNext, PTL DEF Spec

\* Every posted message is pending, discarded, in one batch or emitted, and that at
\* one place and once, with several flush() calls on several threads and in each other.
THEOREM PostsOnce == Spec => []PostedOnce
<1>1. MessageInv => PostedOnce BY PlacedOnce DEF MessageInv
<1> QED BY <1>1, TypeInit, TypeNext, MessageInit, MessageNext, PTL DEF Spec
=============================================================================
