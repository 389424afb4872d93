------------------------------ MODULE TimerProofs ------------------------------
(***************************************************************************)
(* Proofs about the two components that the timer daemon drives, for any   *)
(* times, queue length and number of calls: Button (its types, that it     *)
(* follows the edges, the order of its callbacks and the time of the timed *)
(* ones) and, at the end, Blinker.                                         *)
(***************************************************************************)
EXTENDS Button, TLAPS

Press   == Event("EVENT_PRESS")
Release == Event("EVENT_RELEASE")
TimerEvent == Event("EVENT_TIMER")

-----------------------------------------------------------------------------
(* Numbers and sets.                                                       *)

(* The lesser of two numbers.                                              *)
LEMMA MinPair ==
    ASSUME NEW a \in Int, NEW b \in Int
    PROVE  Min({a, b}) = IF a <= b THEN a ELSE b
  <1>1. \E x \in {a, b} : \A y \in {a, b} : x =< y
    OBVIOUS
  <1> QED BY <1>1 DEF Min

(* The greater of two.                                                     *)
LEMMA MaxPair ==
    ASSUME NEW a \in Int, NEW b \in Int
    PROVE  Max({a, b}) = IF a >= b THEN a ELSE b
  <1>1. \E x \in {a, b} : \A y \in {a, b} : x >= y
    OBVIOUS
  <1> QED BY <1>1 DEF Max

(* The least of a set of timeouts is in it.                                *)
LEMMA MinPlace ==
    ASSUME NEW S \in SUBSET Timeouts, S # {}
    PROVE  Min(S) \in S /\ \A k \in S : Min(S) <= k
  <1>1. \E x \in S : \A y \in S : x =< y
    <2>1. CASE 1 \in S
      BY <2>1 DEF Timeouts
    <2>2. CASE 1 \notin S
      <3>1. \A y \in S : y = 2
        BY <2>2 DEF Timeouts
      <3> QED BY <3>1
    <2> QED BY <2>1, <2>2
  <1> QED BY <1>1 DEF Min

(* The greatest of a set of the fast press and the timeouts is in it.      *)
LEMMA MaxPlace ==
    ASSUME NEW S \in SUBSET (0..2), S # {}
    PROVE  Max(S) \in S
  <1>1. \E x \in S : \A y \in S : x >= y
    <2>1. CASE 2 \in S
      BY <2>1
    <2>2. CASE 2 \notin S /\ 1 \in S
      BY <2>2
    <2>3. CASE 2 \notin S /\ 1 \notin S
      <3>1. \A y \in S : y = 0
        BY <2>3
      <3>2. 0 \in S
        BY <3>1
      <3> QED BY <3>1, <3>2
    <2> QED BY <2>1, <2>2, <2>3
  <1> QED BY <1>1 DEF Max

(* Every time, and the debounce time, is below MaxTime.                    *)
LEMMA TimesBelow ==
    /\ MaxTime \in Nat \ {0}
    /\ \A time \in Times : time \in Nat /\ time < MaxTime
  <1> DEFINE S == Times \cup {DebounceTicks}
  <1>1. S \subseteq Nat
    BY ButtonConstants
  <1>2. \E x \in S : \A y \in S : x >= y
    <2>1. PICK longest \in Times : \A time \in Times : time <= longest
      BY ButtonConstants
    <2>2. CASE longest >= DebounceTicks
      BY <1>1, <2>1, <2>2
    <2>3. CASE ~(longest >= DebounceTicks)
      <3>1. \A y \in S : DebounceTicks >= y
        BY <1>1, <2>1, <2>3
      <3> QED BY <3>1
    <2> QED BY <2>2, <2>3
  <1>3. Max(S) \in S /\ \A y \in S : Max(S) >= y
    BY <1>2 DEF Max
  <1> HIDE DEF S
  <1>4. MaxTime = Max(S) + 1
    BY DEF MaxTime, S
  <1>5. \A time \in Times : time \in S
    BY DEF S
  <1>6. Max(S) \in Nat
    BY <1>1, <1>3
  <1>7. ASSUME NEW time \in Times PROVE time \in Nat /\ time < MaxTime
    <2>1. time \in Nat /\ time <= Max(S)
      BY <1>1, <1>3, <1>5
    <2> HIDE DEF MaxTime
    <2> QED BY <2>1, <1>4, <1>6
  <1>8. MaxTime \in Nat \ {0}
    BY <1>4, <1>6
  <1> QED BY <1>7, <1>8

-----------------------------------------------------------------------------
(* The lists of callbacks.                                                 *)

Lists == [1..3 -> Times \cup {None}]

InOrder(list) ==
    /\ list[1] \in {None, 0}
    /\ list[3] # None => list[2] # None /\ list[2] < list[3]
    /\ 0 \notin {list[2], list[3]}

(* The cb_time of an entry is below MaxTime, and 0 without a callback.     *)
LEMMA TimeOf ==
    ASSUME NEW list \in Lists, NEW k \in 0..2
    PROVE  /\ Time(list, k) \in Nat /\ Time(list, k) < MaxTime
           /\ list[k + 1] # None => Time(list, k) = list[k + 1]
           /\ list[k + 1] = None => Time(list, k) = 0
  <1>1. k + 1 \in 1..3 /\ list[k + 1] \in Times \cup {None}
    BY DEF Lists
  <1> QED BY <1>1, TimesBelow DEF Time

(* Permutations of three entries.                                          *)
Id      == [i \in 1..3 |-> i]
Swap(a, b) == [i \in 1..3 |-> IF i = a THEN b ELSE IF i = b THEN a ELSE i]

(* The orders that the sort chooses from.                                  *)
LEMMA Permutes ==
    /\ Id \in Bijection(1..3, 1..3)
    /\ \A a, b \in 1..3 : Swap(a, b) \in Bijection(1..3, 1..3)
  <1>1. Id \in Bijection(1..3, 1..3)
    BY DEF Id, Bijection, Injection, Surjection, IsInjective
  <1>2. ASSUME NEW a \in 1..3, NEW b \in 1..3 PROVE Swap(a, b) \in Bijection(1..3, 1..3)
    <2>1. Swap(a, b) \in [1..3 -> 1..3]
      BY DEF Swap
    <2>2. \A i \in 1..3 : Swap(a, b)[Swap(a, b)[i]] = i
      BY DEF Swap
    <2> QED BY <2>1, <2>2 DEF Bijection, Injection, Surjection, IsInjective
  <1> QED BY <1>1, <1>2

\* What the sort returns.
SortedBy(p, list, n) ==
    /\ \A i \in (n + 1)..3 : p[i] = i
    /\ \A i, j \in 1..n : i < j => Time(list, p[i] - 1) <= Time(list, p[j] - 1)

(* It returns the list in an order that sorts it, if there is one.         *)
LEMMA SortReturns ==
    ASSUME NEW list, NEW n, \E p \in Bijection(1..3, 1..3) : SortedBy(p, list, n)
    PROVE  \E p \in Bijection(1..3, 1..3) :
               SortedBy(p, list, n) /\ Sorted(list, n) = [i \in 1..3 |-> list[p[i]]]
  <1> DEFINE order == CHOOSE p \in Bijection(1..3, 1..3) : SortedBy(p, list, n)
  <1>1. order \in Bijection(1..3, 1..3) /\ SortedBy(order, list, n)
    OBVIOUS
  <1>2. Sorted(list, n) = [i \in 1..3 |-> list[order[i]]]
    BY DEF Sorted, SortedBy
  <1> QED BY <1>1, <1>2

(* Of a list with a fast entry first and different times behind it the     *)
(* fast entry stays first, and the others come in order.                   *)
LEMMA SortKeeps ==
    ASSUME NEW list \in Lists, NEW n \in 2..3,
           list[1] \in {None, 0}, list[2] \in Times \ {0},
           n = 3 => list[3] \in Times \ {0} /\ list[2] # list[3],
           n = 2 => list[3] = None \/ (list[3] \in Times /\ list[2] < list[3])
    PROVE  Sorted(list, n) \in Lists /\ InOrder(Sorted(list, n))
  <1> DEFINE t(i) == Time(list, i - 1)
  <1>1. /\ t(1) = 0 /\ t(2) = list[2]
        /\ list[3] # None => t(3) = list[3]
    BY ButtonConstants DEF Time
  <1>2. t(2) \in Nat \ {0} /\ (list[3] # None => t(3) \in Nat \ {0} /\ t(2) # t(3))
    <2> HIDE DEF t
    <2>1. list[2] \in Nat \ {0}
      BY TimesBelow
    <2>2. CASE list[3] = None
      BY <1>1, <2>1, <2>2
    <2>3. CASE list[3] # None
      <3>1. list[3] \in Times
        BY <2>3 DEF Lists
      <3>2. list[3] \in Nat /\ list[3] # 0 /\ list[2] # list[3]
        BY <3>1, <2>1, <2>3, TimesBelow
      <3> QED BY <1>1, <2>1, <3>2
    <2> QED BY <2>2, <2>3
  <1>3. n = 3 => list[3] # None
    BY ButtonConstants
  <1>4. \E p \in Bijection(1..3, 1..3) : SortedBy(p, list, n)
    <2>1. CASE n = 2 \/ t(2) < t(3)
      <3>1. \A i, j \in 1..n : i < j => t(i) <= t(j)
        BY <1>1, <1>2, <1>3, <2>1
      <3>2. SortedBy(Id, list, n)
        BY <3>1 DEF SortedBy, Id
      <3> QED BY <3>2, Permutes
    <2>2. CASE n = 3 /\ ~(t(2) < t(3))
      <3>1. t(3) < t(2)
        BY <1>2, <1>3, <2>2
      <3>2. Swap(2, 3)[1] = 1 /\ Swap(2, 3)[2] = 3 /\ Swap(2, 3)[3] = 2
        BY DEF Swap
      <3>3. SortedBy(Swap(2, 3), list, n)
        <4> HIDE DEF t
        <4>1. \A i, j \in 1..3 : i < j => t(Swap(2, 3)[i]) <= t(Swap(2, 3)[j])
          BY <1>1, <1>2, <1>3, <2>2, <3>1, <3>2
        <4> QED BY <4>1, <2>2 DEF SortedBy, t
      <3> QED BY <3>3, Permutes
    <2> QED BY <2>1, <2>2
  <1>5. PICK p \in Bijection(1..3, 1..3) :
            SortedBy(p, list, n) /\ Sorted(list, n) = [i \in 1..3 |-> list[p[i]]]
    BY <1>4, SortReturns
  <1>6. /\ p \in [1..3 -> 1..3]
        /\ \A i, j \in 1..3 : p[i] = p[j] => i = j
        /\ \A i \in 1..3 : \E j \in 1..3 : p[j] = i
    BY DEF Bijection, Injection, Surjection, IsInjective
  <1>7. /\ n = 2 => p[3] = 3
        /\ \A i, j \in 1..n : i < j => t(p[i]) <= t(p[j])
    BY <1>5 DEF SortedBy
  <1>8. p[1] \in 1..3 /\ p[2] \in 1..3 /\ p[3] \in 1..3
    BY <1>6
  <1>9. p[1] = 1
    <2> HIDE DEF t
    <2>1. CASE p[2] = 1
      <3>1. t(p[1]) <= t(1)
        BY <1>7, <2>1
      <3> QED BY <3>1, <1>1, <1>2, <1>3, <1>6, <1>7, <1>8, <2>1
    <2>2. CASE p[3] = 1
      <3>1. n = 3
        BY <1>7, <2>2
      <3>2. t(p[1]) <= t(1)
        BY <1>7, <2>2, <3>1
      <3> QED BY <3>1, <3>2, <1>1, <1>2, <1>3, <1>6, <1>8, <2>2
    <2> QED BY <1>6, <1>8, <2>1, <2>2
  <1>10. (p[2] = 2 /\ p[3] = 3) \/ (n = 3 /\ p[2] = 3 /\ p[3] = 2)
    <2> HIDE DEF t
    <2> QED BY <1>6, <1>7, <1>8, <1>9
  <1>11. n = 3 => t(p[2]) <= t(p[3])
    BY <1>7
  <1> DEFINE r == Sorted(list, n)
  <1>12. r \in Lists /\ r[1] = list[1] /\ r[2] = list[p[2]] /\ r[3] = list[p[3]]
    BY <1>5, <1>6, <1>8, <1>9 DEF Lists
  <1> HIDE DEF r, t
  <1>13. CASE p[2] = 2 /\ p[3] = 3
    <2>1. r[2] = list[2] /\ r[3] = list[3]
      BY <1>12, <1>13
    <2>2. list[3] # None => list[2] < list[3]
      BY <1>1, <1>2, <1>11, <1>13
    <2>3. 0 \notin {list[2], list[3]}
      BY <1>1, <1>2, ButtonConstants
    <2> QED BY <1>12, <2>1, <2>2, <2>3, ButtonConstants DEF InOrder, r
  <1>14. CASE n = 3 /\ p[2] = 3 /\ p[3] = 2
    <2>1. r[2] = list[3] /\ r[3] = list[2]
      BY <1>12, <1>14
    <2>2. list[3] < list[2]
      BY <1>1, <1>2, <1>3, <1>11, <1>14
    <2> QED BY <1>12, <1>14, <2>1, <2>2, ButtonConstants DEF InOrder, r
  <1> QED BY <1>10, <1>13, <1>14

(* A registration keeps a list sorted.                                     *)
LEMMA RegisterKeeps ==
    ASSUME NEW list \in Lists, InOrder(list), NEW time \in Times
    PROVE  registerEvent(list, time) \in Lists /\ InOrder(registerEvent(list, time))
  <1> DEFINE places == {k \in Timeouts : Time(list, k) \in {0, time}}
             i      == Min(places)
             new    == [list EXCEPT ![i + 1] = time]
  <1>1. CASE time = 0
    <2>1. registerEvent(list, time) = [list EXCEPT ![1] = 0]
      BY <1>1 DEF registerEvent
    <2> QED BY <1>1, <2>1 DEF Lists, InOrder
  <1>2. CASE time # 0 /\ places = {}
    <2>1. registerEvent(list, time) = list
      BY <1>2 DEF registerEvent
    <2> QED BY <2>1
  <1>3. CASE time # 0 /\ places # {}
    <2>1. registerEvent(list, time) = Sorted(new, i + 1)
      BY <1>3 DEF registerEvent
    <2>2. i \in places /\ \A k \in places : i <= k
      BY <1>3, MinPlace
    <2>3. i \in 1..2 /\ new \in Lists
      BY <2>2 DEF Timeouts, Lists
    <2>4. /\ list[1] \in {None, 0}
          /\ list[2] \in Times \cup {None} /\ list[3] \in Times \cup {None}
          /\ list[2] # 0 /\ list[3] # 0
          /\ list[3] # None => list[2] # None /\ list[2] < list[3]
      BY DEF Lists, InOrder
    <2>5. Time(list, 1) = IF list[2] = None THEN 0 ELSE list[2]
      BY DEF Time
    <2>6. CASE i = 1
      <3>1. new[1] = list[1] /\ new[2] = time /\ new[3] = list[3]
        BY <2>6 DEF Lists
      <3>2. list[2] = None \/ list[2] = time
        BY <2>2, <2>4, <2>5, <2>6
      <3>3. list[3] = None \/ (list[3] \in Times /\ time < list[3])
        BY <2>4, <3>2
      <3> HIDE DEF new, i
      <3> QED BY <1>3, <2>1, <2>3, <2>4, <2>6, <3>1, <3>3, SortKeeps
    <2>7. CASE i = 2
      <3>1. new[1] = list[1] /\ new[2] = list[2] /\ new[3] = time
        BY <2>7 DEF Lists
      <3>2. 1 \notin places
        BY <2>2, <2>7
      <3>3. list[2] \in Times /\ list[2] # time
        BY <2>4, <2>5, <3>2 DEF Timeouts
      <3> HIDE DEF new, i
      <3> QED BY <1>3, <2>1, <2>3, <2>4, <2>7, <3>1, <3>3, SortKeeps
    <2> QED BY <2>3, <2>6, <2>7
  <1> QED BY <1>1, <1>2, <1>3

-----------------------------------------------------------------------------
(* The queue of the timer daemon.                                          *)

(* The elements of a concatenation.                                        *)
LEMMA Concat ==
    ASSUME NEW S, NEW s \in Seq(S), NEW t \in Seq(S)
    PROVE  /\ s \o t \in Seq(S) /\ Len(s \o t) = Len(s) + Len(t)
           /\ \A i \in 1..Len(s) : (s \o t)[i] = s[i]
           /\ \A i \in 1..Len(t) : (s \o t)[Len(s) + i] = t[i]
  OBVIOUS

(* What is sent is queued as far as there is room.                         *)
LEMMA SendQueues ==
    ASSUME commands \in Seq(Commands), Len(commands) <= TimerQueueLength,
           NEW cs \in Seq(Commands), Send(cs)
    PROVE  \E n \in 0..Len(cs) :
               /\ commands' \in Seq(Commands)
               /\ Len(commands') = Len(commands) + n /\ Len(commands') <= TimerQueueLength
               /\ \A i \in 1..Len(commands) : commands'[i] = commands[i]
               /\ \A i \in 1..n : commands'[Len(commands) + i] = cs[i]
               /\ n = Len(cs) \/ Len(commands') = TimerQueueLength
               /\ dropped' = (dropped \/ n # Len(cs))
  <1> DEFINE room == TimerQueueLength - Len(commands)
             n    == Min({Len(cs), room})
             sent == SubSeq(cs, 1, n)
  <1>1. room \in Nat /\ Len(cs) \in Nat /\ Len(commands) \in Nat
    BY ButtonConstants
  <1>2. n = IF Len(cs) <= room THEN Len(cs) ELSE room
    BY <1>1, MinPair
  <1>3. n \in 0..Len(cs) /\ Len(commands) + n <= TimerQueueLength
    BY <1>1, <1>2, ButtonConstants
  <1>4. commands' = commands \o sent /\ dropped' = (dropped \/ ~Fits(Len(cs)))
    BY DEF Send
  <1> HIDE DEF n
  <1>5. sent \in Seq(Commands) /\ Len(sent) = n /\ \A i \in 1..n : sent[i] = cs[i]
    BY <1>1, <1>3
  <1> HIDE DEF sent
  <1>6. /\ commands' \in Seq(Commands) /\ Len(commands') = Len(commands) + n
        /\ \A i \in 1..Len(commands) : commands'[i] = commands[i]
        /\ \A i \in 1..n : commands'[Len(commands) + i] = sent[i]
    <2> DEFINE q == commands \o sent
    <2>1. /\ q \in Seq(Commands) /\ Len(q) = Len(commands) + Len(sent)
          /\ \A i \in 1..Len(commands) : q[i] = commands[i]
          /\ \A i \in 1..Len(sent) : q[Len(commands) + i] = sent[i]
      BY <1>5, Concat
    <2> HIDE DEF q
    <2>2. commands' = q
      BY <1>4 DEF q
    <2> QED BY <1>5, <2>1, <2>2
  <1>7. Fits(Len(cs)) <=> n = Len(cs)
    BY <1>1, <1>2, ButtonConstants DEF Fits
  <1>8. n = Len(cs) \/ Len(commands') = TimerQueueLength
    BY <1>1, <1>2, <1>6, ButtonConstants
  <1>9. dropped' = (dropped \/ n # Len(cs))
    BY <1>4, <1>7
  <1> QED BY <1>3, <1>5, <1>6, <1>8, <1>9

(* What is left after the first command.                                   *)
LEMMA TailQueue ==
    ASSUME commands \in Seq(Commands), commands # <<>>, commands' = Tail(commands)
    PROVE  /\ Len(commands) \in Nat \ {0} /\ Len(commands') = Len(commands) - 1
           /\ commands' \in Seq(Commands)
           /\ Head(commands) = commands[1] /\ commands[1] \in Commands
           /\ \A i \in 1..Len(commands') : i + 1 \in 1..Len(commands)
           /\ \A i \in 1..Len(commands') : commands'[i] = commands[i + 1]
  OBVIOUS

ListsOK ==
    /\ m_pressCallbacks \in Lists /\ InOrder(m_pressCallbacks)
    /\ m_releaseCallbacks \in Lists /\ InOrder(m_releaseCallbacks)
    /\ held \in 0..MaxTime

(* The call for a press, of the callback with that number.                 *)
LEMMA PressCallIs ==
    ASSUME ListsOK, NEW k \in Nat
    PROVE  \/ PressCall(k) = <<>> /\ (k > 2 \/ m_pressCallbacks[k + 1] = None)
           \/ /\ k <= 2 /\ m_pressCallbacks[k + 1] \in Times
              /\ PressCall(k) =
                    <<Call(IF k = 0 THEN "fast" ELSE "timed", m_pressCallbacks[k + 1])>>
  <1>1. k <= 2 => k + 1 \in 1..3
    OBVIOUS
  <1>2. k <= 2 => m_pressCallbacks[k + 1] \in Times \cup {None}
    BY <1>1 DEF ListsOK, Lists
  <1> QED BY <1>2 DEF PressCall

(* The call for a release: there is one if there is a callback for all.    *)
LEMMA ReleaseCallIs ==
    ASSUME ListsOK
    PROVE  \/ ReleaseCall = <<>> /\ m_releaseCallbacks[1] = None
           \/ \E time \in Times : ReleaseCall = <<Call("release", time)>>
  <1>1. Passed \subseteq 0..2
    BY DEF Passed
  <1>2. CASE Passed = {}
    <2>1. m_releaseCallbacks[1] \in {None, 0} /\ held >= 0
      BY DEF ListsOK, InOrder
    <2>2. 0 \notin Passed
      BY <1>2
    <2>3. m_releaseCallbacks[1] = None
      BY <2>1, <2>2 DEF Passed
    <2> QED BY <1>2, <2>3 DEF ReleaseCall
  <1>3. CASE Passed # {}
    <2>1. Max(Passed) \in Passed
      BY <1>1, <1>3, MaxPlace
    <2>2. Max(Passed) + 1 \in 1..3 /\ m_releaseCallbacks[Max(Passed) + 1] # None
      BY <2>1 DEF Passed
    <2>3. m_releaseCallbacks[Max(Passed) + 1] \in Times
      BY <2>2 DEF ListsOK, Lists
    <2> QED BY <1>3, <2>3 DEF ReleaseCall
  <1> QED BY <1>2, <1>3

(* The timer is armed with a positive time.                                *)
LEMMA ArmIs ==
    ASSUME ListsOK, NEW k \in Nat
    PROVE  \/ Arm(k) = <<>>
           \/ /\ k \in Timeouts /\ Time(m_pressCallbacks, k) # 0
              /\ \E time \in 1..MaxTime :
                    /\ Arm(k) = Restart(time)
                    /\ time = Time(m_pressCallbacks, k) - Time(m_pressCallbacks, k - 1)
  <1> DEFINE t(i) == Time(m_pressCallbacks, i)
  <1>1. CASE k > 2 \/ t(k) = 0
    <2>1. Arm(k) = <<>>
      BY <1>1 DEF Arm
    <2> QED BY <2>1
  <1>2. CASE k \in Timeouts /\ t(k) # 0
    <2>1. /\ k \in 0..2 /\ k - 1 \in 0..2 /\ t(k) \in Nat /\ t(k) < MaxTime
          /\ t(k - 1) \in Nat
      BY <1>2, TimeOf DEF ListsOK, Timeouts
    <2>2. t(k - 1) < t(k)
      <3>1. CASE k = 1
        <4>1. t(0) = 0
          BY ButtonConstants DEF ListsOK, InOrder, Time
        <4> QED BY <1>2, <2>1, <3>1, <4>1
      <3>2. CASE k = 2
        <4>1. m_pressCallbacks[3] # None /\ t(2) = m_pressCallbacks[3]
          BY <1>2, <3>2 DEF Time
        <4>2. m_pressCallbacks[2] # None /\ m_pressCallbacks[2] < m_pressCallbacks[3]
          BY <4>1 DEF ListsOK, InOrder
        <4>3. t(1) = m_pressCallbacks[2]
          BY <4>2 DEF Time
        <4> QED BY <3>2, <4>1, <4>2, <4>3
      <3> QED BY <1>2, <3>1, <3>2 DEF Timeouts
    <2>3. t(k) - t(k - 1) \in 1..MaxTime
      <3> HIDE DEF t
      <3> QED BY <2>1, <2>2, TimesBelow
    <2>4. Arm(k) = Restart(t(k) - t(k - 1))
      BY <1>2 DEF Arm, Timeouts
    <2> QED BY <1>2, <2>3, <2>4
  <1>3. CASE k = 0 /\ t(k) # 0
    <2>1. t(0) = 0
      BY ButtonConstants DEF ListsOK, InOrder, Time
    <2> QED BY <1>3, <2>1
  <1> QED BY <1>1, <1>2, <1>3 DEF Timeouts

(* All of these are commands.                                              *)
LEMMA CommandTypes ==
    ASSUME ListsOK, NEW k \in Nat
    PROVE  /\ PressCall(k) \in Seq(Commands) /\ Arm(k) \in Seq(Commands)
           /\ <<Stop>> \o ReleaseCall \in Seq(Commands)
           /\ PressCall(0) \o Arm(1) \in Seq(Commands)
  <1>1. ASSUME NEW what \in {"fast", "timed", "release"}, NEW time \in Times
        PROVE  Call(what, time) \in Commands
    BY DEF Call, Commands, ListsOK
  <1>2. ASSUME NEW j \in Nat PROVE PressCall(j) \in Seq(Commands)
    <2>1. CASE PressCall(j) = <<>>
      BY <2>1
    <2>2. CASE PressCall(j) # <<>>
      <3>1. PICK c \in Commands : PressCall(j) = <<c>>
        BY <1>1, <2>2, PressCallIs
      <3> QED BY <3>1
    <2> QED BY <2>1, <2>2
  <1>3. ASSUME NEW j \in Nat PROVE Arm(j) \in Seq(Commands)
    <2>1. CASE Arm(j) = <<>>
      BY <2>1
    <2>2. CASE Arm(j) # <<>>
      <3>1. PICK time \in 1..MaxTime : Arm(j) = Restart(time)
        BY <2>2, ArmIs
      <3>2. [what |-> "change", period |-> time] \in Commands
        BY DEF Commands
      <3>3. [what |-> "start", age |-> 0] \in Commands
        BY TimesBelow DEF Commands
      <3> QED BY <3>1, <3>2, <3>3 DEF Restart
    <2> QED BY <2>1, <2>2
  <1>4. Stop \in Commands
    BY DEF Stop, Commands
  <1>5. ReleaseCall \in Seq(Commands)
    <2>1. CASE ReleaseCall = <<>>
      BY <2>1
    <2>2. CASE ReleaseCall # <<>>
      <3>1. PICK c \in Commands : ReleaseCall = <<c>>
        BY <1>1, <2>2, ReleaseCallIs
      <3> QED BY <3>1
    <2> QED BY <2>1, <2>2
  <1>6. <<Stop>> \o ReleaseCall \in Seq(Commands)
    BY <1>4, <1>5
  <1>7. PressCall(0) \o Arm(1) \in Seq(Commands)
    <2>1. PressCall(0) \in Seq(Commands) /\ Arm(1) \in Seq(Commands)
      BY <1>2, <1>3
    <2> QED BY <2>1
  <1> QED BY <1>2, <1>3, <1>6, <1>7

-----------------------------------------------------------------------------
(* Types, and that whoever is in Dispatch finds an event in m_events.      *)

FsmOK ==
    /\ Fsm!TypeOK
    /\ \A c \in Callers : at[c] \in {"visit", "commit"} => m_events \in Events
    /\ \A c \in Callers : at[c] = "commit" => newState[c] \in States

QueueOK ==
    /\ timer \in -1..MaxTime /\ period \in 0..MaxTime
    /\ commands \in Seq(Commands)
    /\ Len(commands) <= TimerQueueLength

MembersOK ==
    /\ m_timeouts \in Nat
    /\ handler \in {"none", "pend", "bump", "arm"}
    /\ m_state \in BOOLEAN /\ intr \in {"low", "high"}
    /\ debounce \in 0..DebounceTicks
    /\ isr \in {"in", "out"}
    /\ ctor \in {"state", "intr", "start", "register", "done"}
    /\ level \in BOOLEAN /\ used \in BOOLEAN
    /\ changed \in BOOLEAN /\ differed \in BOOLEAN /\ dropped \in BOOLEAN
    /\ registrations \in 0..MaxRegistrations /\ late \in 0..MaxLate

Types == FsmOK /\ QueueOK /\ ListsOK /\ MembersOK

(* These types are those of TypeOK, with sorted lists.                     *)
LEMMA TypesImply == Types => TypeOK /\ CallbacksSorted
  <1> SUFFICES ASSUME Types PROVE TypeOK /\ CallbacksSorted
    OBVIOUS
  <1>1. CallbacksSorted
    BY DEF Types, ListsOK, CallbacksSorted, InOrder
  <1>2. {level, used, changed, dropped} \subseteq BOOLEAN
    BY DEF Types, MembersOK
  <1>3. TypeOK
    BY <1>2 DEF Types, FsmOK, QueueOK, ListsOK, MembersOK, Lists, TypeOK
  <1> QED BY <1>1, <1>3

(* They hold before the constructor.                                       *)
LEMMA InitTypes == Init => Types
  <1> SUFFICES ASSUME Init PROVE Types
    OBVIOUS
  <1>1. FsmOK
    BY DEF Init, FsmOK, Fsm!Init, Fsm!TypeOK, States, Callers
  <1>2. QueueOK
    <2>1. commands \in Seq(Commands) /\ Len(commands) = 0
      BY DEF Init
    <2> QED BY <2>1, TimesBelow, ButtonConstants DEF Init, QueueOK
  <1>3. ListsOK
    <2>1. <<None, None, None>> \in Lists /\ InOrder(<<None, None, None>>)
      BY ButtonConstants DEF Lists, InOrder
    <2> QED BY <2>1, TimesBelow DEF Init, ListsOK
  <1>4. MembersOK
    <2>1. MaxRegistrations \in Nat /\ MaxLate \in Nat /\ DebounceTicks \in Nat
      BY ButtonConstants
    <2>2. {m_state, level, used, changed, differed, dropped} \subseteq BOOLEAN
      BY DEF Init
    <2>3. /\ m_timeouts = 0 /\ handler = "none" /\ intr = "high" /\ debounce = DebounceTicks
          /\ isr = "out" /\ ctor = "state" /\ registrations = 0 /\ late = 0
      BY DEF Init
    <2> QED BY <2>1, <2>2, <2>3 DEF MembersOK
  <1> QED BY <1>1, <1>2, <1>3, <1>4 DEF Types

\* What a step may do to the base class.
FsmStep ==
    \/ UNCHANGED fsmVars
    \/ \E s \in States : Fsm!StartState(s)
    \/ Fsm!StartFlag
    \/ \E c \in Callers, e \in Events : Fsm!Dispatch(c, e)
    \/ \E c \in Callers, r \in States \cup {NoChange} : Fsm!Visit(c, r)
    \/ \E c \in Callers : Fsm!Commit(c)
    \/ \E c \in Callers : Fsm!OnEntry(c)
    \/ /\ Fsm!Move("daemon", "visit", "idle")
       /\ UNCHANGED <<m_isRunning, m_states, m_events, event, newState>>

\* The steps, those of the callers apart.
Steps ==
    \/ UNCHANGED vars
    \/ Construct
    \/ IsrEdge \/ IsrEnd
    \/ Visit("isr")
    \/ Commit("isr")
    \/ isr = "out" /\ Visit("daemon")
    \/ isr = "out" /\ Commit("daemon")
    \/ \E c \in Callers : OnEntry(c) /\ (c = "daemon" => isr = "out")
    \/ isr = "out" /\ ProcessCommand
    \/ isr = "out" /\ Expire
    \/ isr = "out" /\ TimerVisit
    \/ isr = "out" /\ TimerPend
    \/ isr = "out" /\ TimerBump
    \/ isr = "out" /\ TimerArm
    \/ \E time \in Times : Register(time)
    \/ Tick \/ Pin

(* These are the steps of the specification.                               *)
LEMMA NextSteps == [Next]_vars => Steps
  BY DEF Next, UserStep, IsrStep, DaemonStep, CallerStep, Steps, Callers

(* The events.                                                             *)
LEMMA EventsAre ==
    /\ Press \in Events /\ Release \in Events /\ TimerEvent \in Events
    /\ Press # Release /\ Press # TimerEvent /\ Release # TimerEvent
    /\ \A e \in Events : e \in {Press, Release, TimerEvent}
  BY DEF Events, Event, Press, Release, TimerEvent

(* Every step of the button takes a step of the base class, or none.       *)
LEMMA StepsOfFsm == Steps => FsmStep
  <1> SUFFICES ASSUME Steps PROVE FsmStep
    OBVIOUS
  <1>1. CASE UNCHANGED vars
    BY <1>1 DEF vars, FsmStep
  <1>2. CASE Construct
    BY <1>2 DEF Construct, CtorState, CtorInterrupt, CtorStart, CtorRegister, FsmStep,
                States
  <1>3. CASE IsrEdge
    <2>1. \E e \in Events : Fsm!Dispatch("isr", e)
      BY <1>3, EventsAre DEF IsrEdge, Press, Release
    <2> QED BY <2>1 DEF FsmStep, Callers
  <1>4. CASE IsrEnd
    BY <1>4 DEF IsrEnd, FsmStep
  <1>5. ASSUME NEW c \in Callers, Visit(c) PROVE FsmStep
    BY <1>5 DEF Visit, FsmStep
  <1>6. ASSUME NEW c \in Callers, Commit(c) PROVE FsmStep
    BY <1>6 DEF Commit, FsmStep
  <1>7. ASSUME NEW c \in Callers, OnEntry(c) PROVE FsmStep
    BY <1>7 DEF OnEntry, FsmStep
  <1>8. CASE ProcessCommand
    BY <1>8 DEF ProcessCommand, FsmStep
  <1>9. CASE Expire
    <2>1. Fsm!Dispatch("daemon", TimerEvent)
      BY <1>9 DEF Expire, TimerEvent
    <2> QED BY <2>1, EventsAre DEF FsmStep, Callers
  <1>10. CASE TimerVisit \/ TimerPend \/ TimerBump
    BY <1>10 DEF TimerVisit, TimerPend, TimerBump, FsmStep
  <1>11. CASE TimerArm
    BY <1>11 DEF TimerArm, FsmStep
  <1>12. ASSUME NEW time \in Times, Register(time) PROVE FsmStep
    BY <1>12 DEF Register, FsmStep
  <1>13. CASE Tick
    BY <1>13 DEF Tick, FsmStep
  <1>14. CASE Pin
    BY <1>14 DEF Pin, FsmStep
  <1> QED
    BY <1>1, <1>2, <1>3, <1>4, <1>5, <1>6, <1>7, <1>8, <1>9, <1>10, <1>11, <1>12, <1>13,
       <1>14
    DEF Steps, Callers

(* The steps of the base class keep its types, and the variant an event.   *)
LEMMA FsmTypes == FsmOK /\ FsmStep => FsmOK'
  <1> SUFFICES ASSUME FsmOK, FsmStep PROVE FsmOK'
    OBVIOUS
  <1> USE DEF FsmOK, Fsm!TypeOK, Fsm!Move
  <1>1. CASE UNCHANGED fsmVars
    BY <1>1 DEF fsmVars
  <1>2. ASSUME NEW s \in States, Fsm!StartState(s) PROVE FsmOK'
    BY <1>2 DEF Fsm!StartState
  <1>3. CASE Fsm!StartFlag
    BY <1>3 DEF Fsm!StartFlag
  <1>4. ASSUME NEW c \in Callers, NEW e \in Events, Fsm!Dispatch(c, e) PROVE FsmOK'
    BY <1>4 DEF Fsm!Dispatch
  <1>5. ASSUME NEW c \in Callers, NEW r \in States \cup {NoChange}, Fsm!Visit(c, r)
        PROVE  FsmOK'
    BY <1>5 DEF Fsm!Visit
  <1>6. ASSUME NEW c \in Callers, Fsm!Commit(c) PROVE FsmOK'
    BY <1>6 DEF Fsm!Commit
  <1>7. ASSUME NEW c \in Callers, Fsm!OnEntry(c) PROVE FsmOK'
    BY <1>7 DEF Fsm!OnEntry
  <1>8. CASE Fsm!Move("daemon", "visit", "idle")
             /\ UNCHANGED <<m_isRunning, m_states, m_events, event, newState>>
    BY <1>8
  <1> QED BY <1>1, <1>2, <1>3, <1>4, <1>5, <1>6, <1>7, <1>8 DEF FsmStep

(* What the daemon does to the timer, command by command.                  *)
LEMMA CaseAlternatives ==
    ASSUME NEW a \in BOOLEAN, NEW b \in BOOLEAN, NEW c \in BOOLEAN,
           NEW w, NEW x, NEW y, NEW z
    PROVE  LET v == CASE a -> w [] b -> x [] c -> y [] OTHER -> z
           IN  /\ a /\ ~b /\ ~c => v = w
               /\ b /\ ~a /\ ~c => v = x
               /\ c /\ ~a /\ ~b => v = y
               /\ ~a /\ ~b /\ ~c => v = z
  BY Zenon

(* The kinds of commands and their members.                                *)
LEMMA CommandIs ==
    ASSUME NEW command \in Commands
    PROVE  \/ command.what = "stop"
           \/ command.what = "start" /\ command.age \in 0..MaxTime
           \/ command.what = "change" /\ command.period \in 1..MaxTime
           \/ command.what \in {"fast", "timed", "release"} /\ command.time \in Times
                  /\ command.held \in 0..MaxTime
  BY DEF Commands

(* A command that is processed sets the timer as its kind says.            *)
LEMMA Processed ==
    ASSUME QueueOK, ProcessCommand
    PROVE  /\ commands # <<>> /\ commands' = Tail(commands)
           /\ commands[1] \in Commands
           /\ commands[1].what = "stop" => timer' = -1
           /\ commands[1].what = "change" => timer' = commands[1].period
           /\ commands[1].what = "start" => timer' = Remaining(commands[1])
           /\ commands[1].what \in {"fast", "timed", "release"} => timer' = timer
           /\ period' = IF commands[1].what = "change" THEN commands[1].period ELSE period
           /\ lastCall' = IF commands[1].what \in {"fast", "timed", "release"}
                          THEN [what |-> commands[1].what, time |-> commands[1].time]
                          ELSE lastCall
  <1> DEFINE command == commands[1]
             a == command.what = "stop"
             b == command.what = "change"
             c == command.what = "start"
             new == CASE a -> -1 [] b -> command.period [] c -> Remaining(command)
                      [] OTHER -> timer
  <1>1. commands # <<>> /\ commands' = Tail(commands)
    BY DEF ProcessCommand
  <1>2. Head(commands) = command /\ command \in Commands
    BY <1>1, TailQueue DEF QueueOK
  <1>3. timer' = new
    BY <1>2, Zenon DEF ProcessCommand
  <1>4. /\ a /\ ~b /\ ~c => new = -1
        /\ b /\ ~a /\ ~c => new = command.period
        /\ c /\ ~a /\ ~b => new = Remaining(command)
        /\ ~a /\ ~b /\ ~c => new = timer
    <2> HIDE DEF command
    <2>1. a \in BOOLEAN /\ b \in BOOLEAN /\ c \in BOOLEAN
      OBVIOUS
    <2> HIDE DEF a, b, c
    <2> QED BY <2>1, CaseAlternatives, Zenon
  <1> HIDE DEF new
  <1>5. /\ period' = IF command.what = "change" THEN command.period ELSE period
        /\ lastCall' = IF command.what \in {"fast", "timed", "release"}
                       THEN [what |-> command.what, time |-> command.time] ELSE lastCall
    BY <1>2 DEF ProcessCommand
  <1> QED BY <1>1, <1>2, <1>3, <1>4, <1>5

(* What is left of the period of a start; all of it if the start is not    *)
(* late.                                                                   *)
LEMMA RemainingIs ==
    ASSUME QueueOK, NEW command \in Commands, command.what = "start"
    PROVE  /\ Remaining(command) \in 0..MaxTime
           /\ command.age = 0 => Remaining(command) = period
  <1>1. command.age \in Nat /\ period \in 0..MaxTime
    BY CommandIs DEF QueueOK
  <1>2. Remaining(command) = IF 0 >= period - command.age THEN 0 ELSE period - command.age
    BY <1>1, TimesBelow, MaxPair DEF Remaining
  <1> QED BY <1>1, <1>2, TimesBelow

(* A tick counts up to MaxTime.                                            *)
LEMMA OlderIs ==
    ASSUME NEW n \in 0..MaxTime
    PROVE  Older(n) \in 0..MaxTime /\ (n < MaxTime => Older(n) = n + 1)
  BY TimesBelow, MinPair DEF Older

\* Sending and the passing of time keep the types of the queue.
LEMMA SendTypes ==
    ASSUME QueueOK, NEW cs \in Seq(Commands), Send(cs), UNCHANGED timerVars
    PROVE  QueueOK'
  BY SendQueues DEF QueueOK, timerVars

(* A tick leaves the number of commands alone and counts the timer down.   *)
LEMMA TickTypes ==
    ASSUME QueueOK, Tick
    PROVE  /\ QueueOK' /\ Len(commands') = Len(commands)
           /\ timer' = IF timer > 0 THEN timer - 1 ELSE timer
  <1> DEFINE aged(i) == IF commands[i].what = "start"
                        THEN [what |-> "start", age |-> Older(commands[i].age)]
                        ELSE commands[i]
  <1>1. commands' = [i \in 1..Len(commands) |-> aged(i)]
    BY DEF Tick, QueueOK
  <1>2. ASSUME NEW i \in 1..Len(commands) PROVE aged(i) \in Commands
    <2>1. commands[i] \in Commands
      BY DEF QueueOK
    <2>2. CASE commands[i].what = "start"
      <3>1. Older(commands[i].age) \in 0..MaxTime
        BY <2>1, <2>2, CommandIs, OlderIs
      <3> QED BY <2>2, <3>1 DEF Commands
    <2> QED BY <2>1, <2>2
  <1> HIDE DEF aged
  <1>3. commands' \in Seq(Commands) /\ Len(commands') = Len(commands)
    <2>1. Len(commands) \in Nat
      BY DEF QueueOK
    <2> QED BY <1>1, <1>2, <2>1
  <1>4. timer' = IF timer > 0 THEN timer - 1 ELSE timer
    BY DEF Tick
  <1>5. period' = period
    BY DEF Tick
  <1> QED BY <1>3, <1>4, <1>5, TimesBelow DEF QueueOK

(* Every step keeps the types of the queue and the timer,                  *)
LEMMA QueueTypes == Types /\ Steps => QueueOK'
  <1> SUFFICES ASSUME Types, Steps PROVE QueueOK'
    OBVIOUS
  <1>1. QueueOK /\ ListsOK /\ MembersOK
    BY DEF Types
  <1>2. CASE UNCHANGED <<timerVars, commands>>
    BY <1>1, <1>2 DEF QueueOK, timerVars
  <1>3. ASSUME NEW c \in Callers, Visit(c) PROVE QueueOK'
    <2>1. UNCHANGED timerVars
      BY <1>3 DEF Visit
    <2>2. CASE Send(<<Stop>> \o ReleaseCall)
      BY <1>1, <2>1, <2>2, CommandTypes, SendTypes
    <2>3. CASE Send(<<>>)
      <3>1. <<>> \in Seq(Commands)
        OBVIOUS
      <3> QED BY <1>1, <2>1, <2>3, <3>1, SendTypes
    <2> QED BY <1>3, <2>2, <2>3 DEF Visit
  <1>4. CASE TimerPend
    <2>1. UNCHANGED timerVars /\ Send(PressCall(m_timeouts)) /\ m_timeouts \in Nat
      BY <1>1, <1>4 DEF TimerPend, MembersOK
    <2> QED BY <1>1, <2>1, CommandTypes, SendTypes
  <1>5. CASE TimerArm
    <2>1. UNCHANGED timerVars /\ Send(Arm(m_timeouts)) /\ m_timeouts \in Nat
      BY <1>1, <1>5 DEF TimerArm, MembersOK
    <2> QED BY <1>1, <2>1, CommandTypes, SendTypes
  <1>6. ASSUME NEW c \in Callers, OnEntry(c) PROVE QueueOK'
    <2>1. UNCHANGED timerVars
      BY <1>6 DEF OnEntry
    <2>2. CASE m_states = "STATE_PRESSED"
      <3>1. Send(PressCall(0) \o Arm(1))
        BY <1>6, <2>2 DEF OnEntry
      <3> QED BY <1>1, <2>1, <3>1, CommandTypes, SendTypes
    <2>3. CASE m_states # "STATE_PRESSED"
      BY <1>2, <1>6, <2>3 DEF OnEntry
    <2> QED BY <2>2, <2>3
  <1>7. CASE ProcessCommand
    <2>1. /\ commands \in Seq(Commands) /\ Len(commands) <= TimerQueueLength
          /\ commands # <<>> /\ commands' = Tail(commands)
      BY <1>1, <1>7, Processed DEF QueueOK
    <2>2. commands' \in Seq(Commands) /\ Len(commands') <= TimerQueueLength
      BY <2>1, TailQueue, ButtonConstants
    <2>3. timer' \in -1..MaxTime /\ period' \in 0..MaxTime
      <3>1. commands[1] \in Commands
        BY <1>1, <1>7, Processed
      <3> QED
        BY <1>1, <1>7, <3>1, Processed, CommandIs, RemainingIs, TimesBelow DEF QueueOK
    <2> QED BY <2>2, <2>3 DEF QueueOK
  <1>8. CASE Expire
    BY <1>1, <1>8, TimesBelow DEF Expire, QueueOK
  <1>9. CASE Tick
    BY <1>1, <1>9, TickTypes
  <1>10. CASE UNCHANGED vars
    BY <1>2, <1>10 DEF vars
  <1>11. CASE Construct
    BY <1>2, <1>11 DEF Construct
  <1>12. CASE IsrEdge \/ IsrEnd
    BY <1>2, <1>12 DEF IsrEdge, IsrEnd
  <1>13. ASSUME NEW c \in Callers, Commit(c) PROVE QueueOK'
    BY <1>2, <1>13 DEF Commit
  <1>14. CASE TimerVisit \/ TimerBump
    BY <1>2, <1>14 DEF TimerVisit, TimerBump
  <1>15. ASSUME NEW time \in Times, Register(time) PROVE QueueOK'
    BY <1>2, <1>15 DEF Register
  <1>16. CASE Pin
    BY <1>2, <1>16 DEF Pin
  <1> QED
    BY <1>3, <1>4, <1>5, <1>6, <1>7, <1>8, <1>9, <1>10, <1>11, <1>12, <1>13, <1>14,
       <1>15, <1>16
    DEF Steps, Callers

(* those of the lists,                                                     *)
LEMMA ListTypes == Types /\ Steps => ListsOK'
  <1> SUFFICES ASSUME Types, Steps PROVE ListsOK'
    OBVIOUS
  <1>1. ListsOK
    BY DEF Types
  <1>2. CASE UNCHANGED <<m_pressCallbacks, m_releaseCallbacks, held>>
    BY <1>1, <1>2 DEF ListsOK
  <1>3. ASSUME NEW time \in Times, Register(time) PROVE ListsOK'
    BY <1>1, <1>3, RegisterKeeps DEF Register, ListsOK
  <1>4. ASSUME NEW c \in Callers, OnEntry(c) PROVE ListsOK'
    BY <1>1, <1>4, TimesBelow DEF OnEntry, ListsOK, lists
  <1>5. CASE Tick
    BY <1>1, <1>5, OlderIs DEF Tick, ListsOK, lists
  <1>6. CASE UNCHANGED vars
    BY <1>2, <1>6 DEF vars, lists
  <1>7. CASE Construct \/ IsrEdge \/ IsrEnd \/ Pin
    BY <1>2, <1>7 DEF Construct, IsrEdge, IsrEnd, Pin, lists
  <1>8. ASSUME NEW c \in Callers, Visit(c) \/ Commit(c) PROVE ListsOK'
    BY <1>2, <1>8 DEF Visit, Commit, lists
  <1>9. CASE ProcessCommand \/ Expire
    BY <1>2, <1>9 DEF ProcessCommand, Expire, lists
  <1>10. CASE TimerVisit \/ TimerPend \/ TimerBump \/ TimerArm
    BY <1>2, <1>10 DEF TimerVisit, TimerPend, TimerBump, TimerArm, lists
  <1> QED BY <1>3, <1>4, <1>5, <1>6, <1>7, <1>8, <1>9, <1>10 DEF Steps, Callers

(* and those of the other members.                                         *)
LEMMA MemberTypes == Types /\ Steps => MembersOK'
  <1> SUFFICES ASSUME Types, Steps PROVE MembersOK'
    OBVIOUS
  <1>1. MembersOK
    BY DEF Types
  <1> DEFINE flags == <<m_state, level, used, changed, differed, dropped>>
             rest  == <<m_timeouts, handler, intr, debounce, isr, ctor, registrations, late>>
  <1>2. CASE UNCHANGED flags /\ UNCHANGED rest
    BY <1>1, <1>2 DEF MembersOK
  <1>3. ASSUME NEW cs, Send(cs), UNCHANGED <<m_state, level, used, changed, differed>>,
               m_timeouts' \in Nat, handler' \in {"none", "pend", "bump", "arm"},
               UNCHANGED <<intr, debounce, isr, ctor, registrations, late>>
        PROVE  MembersOK'
    <2>1. dropped' \in BOOLEAN
      BY <1>1, <1>3 DEF Send, MembersOK
    <2> QED BY <1>1, <1>3, <2>1 DEF MembersOK
  <1>4. CASE UNCHANGED vars
    BY <1>2, <1>4 DEF vars, edgeVars, history, lists
  <1>5. CASE Construct
    <2>1. UNCHANGED <<level, used, changed, dropped, m_timeouts, handler, debounce, isr,
                      registrations, late>>
      BY <1>5 DEF Construct, lists
    <2>2. /\ m_state' \in {m_state, level} /\ intr' \in {intr, "low", "high"}
          /\ ctor' \in {ctor, "intr", "start", "register", "done"}
          /\ differed' \in BOOLEAN
      BY <1>1, <1>5 DEF Construct, CtorState, CtorInterrupt, CtorStart, CtorRegister, MembersOK
    <2> QED BY <1>1, <2>1, <2>2 DEF MembersOK
  <1>6. CASE IsrEdge
    <2>1. UNCHANGED <<level, changed, differed, dropped, m_timeouts, handler, intr, ctor, registrations>>
      BY <1>6 DEF IsrEdge, lists
    <2>2. m_state' \in BOOLEAN /\ used' \in BOOLEAN
      BY <1>6 DEF IsrEdge
    <2>3. isr' = "in" /\ debounce' = DebounceTicks /\ late' \in 0..MaxLate
      BY <1>1, <1>6, ButtonConstants DEF IsrEdge, Lateness, MembersOK
    <2> QED BY <1>1, <2>1, <2>2, <2>3, ButtonConstants DEF MembersOK
  <1>7. CASE IsrEnd
    BY <1>1, <1>7 DEF IsrEnd, MembersOK, lists, history
  <1>8. ASSUME NEW c \in Callers, Visit(c) PROVE MembersOK'
    BY <1>1, <1>3, <1>8 DEF Visit, MembersOK, edgeVars, history, lists
  <1>9. ASSUME NEW c \in Callers, Commit(c) PROVE MembersOK'
    BY <1>1, <1>9 DEF Commit, MembersOK, edgeVars, history, lists
  <1>10. ASSUME NEW c \in Callers, OnEntry(c) PROVE MembersOK'
    <2>1. CASE m_states = "STATE_PRESSED"
      BY <1>1, <1>3, <1>10, <2>1 DEF OnEntry, MembersOK, edgeVars, history, lists
    <2>2. CASE m_states # "STATE_PRESSED"
      BY <1>2, <1>10, <2>2 DEF OnEntry, edgeVars, history, lists
    <2> QED BY <2>1, <2>2
  <1>11. CASE ProcessCommand \/ Expire
    BY <1>2, <1>11 DEF ProcessCommand, Expire, edgeVars, history, lists
  <1>12. CASE TimerVisit \/ TimerBump
    BY <1>1, <1>12 DEF TimerVisit, TimerBump, TimerHandler, MembersOK, edgeVars, history, lists
  <1>13. CASE TimerPend
    BY <1>1, <1>3, <1>13 DEF TimerPend, TimerHandler, MembersOK, edgeVars, history, lists
  <1>14. CASE TimerArm
    BY <1>1, <1>3, <1>14 DEF TimerArm, TimerHandler, MembersOK, edgeVars, history, lists
  <1>15. ASSUME NEW time \in Times, Register(time) PROVE MembersOK'
    <2>1. registrations' \in 0..MaxRegistrations
      BY <1>1, <1>15, ButtonConstants DEF Register, MembersOK
    <2>2. UNCHANGED <<m_state, level, used, differed, dropped>> /\ changed' \in BOOLEAN
      BY <1>1, <1>15 DEF Register, edgeVars, MembersOK
    <2>3. UNCHANGED <<m_timeouts, handler, intr, debounce, isr, ctor, late>>
      BY <1>15 DEF Register, edgeVars
    <2> QED BY <1>1, <2>1, <2>2, <2>3 DEF MembersOK
  <1>16. CASE Tick
    <2>1. debounce' \in 0..DebounceTicks
      BY <1>1, <1>16, MaxPair, ButtonConstants DEF Tick, DebounceLeft, MembersOK
    <2>2. late' \in 0..MaxLate
      BY <1>1, <1>16, ButtonConstants DEF Tick, Lateness, MembersOK
    <2>3. UNCHANGED flags
      BY <1>16 DEF Tick
    <2>4. UNCHANGED <<m_timeouts, handler, intr, isr, ctor, registrations>>
      BY <1>16 DEF Tick, lists
    <2> QED BY <1>1, <2>1, <2>2, <2>3, <2>4 DEF MembersOK
  <1>17. CASE Pin
    <2>1. level' \in BOOLEAN
      BY <1>17 DEF Pin
    <2> QED BY <1>1, <1>17, <2>1 DEF Pin, MembersOK, edgeVars, history, lists
  <1> QED
    BY <1>4, <1>5, <1>6, <1>7, <1>8, <1>9, <1>10, <1>11, <1>12, <1>13, <1>14, <1>15,
       <1>16, <1>17
    DEF Steps, Callers

(* Every step keeps the types.                                             *)
LEMMA NextTypes == Types /\ [Next]_vars => Types'
  BY NextSteps, StepsOfFsm, FsmTypes, QueueTypes, ListTypes, MemberTypes DEF Types

(* The types hold always.                                                  *)
LEMMA TypesInvariant == Spec => []Types
  BY InitTypes, NextTypes, PTL DEF Spec

(* The types hold, among them that the queue never exceeds its length and  *)
(* that the timer is only armed with positive periods.                     *)
THEOREM TypeCorrect == Spec => []TypeOK
  BY TypesInvariant, TypesImply, PTL

(* However registrations come, the lists stay sorted and without gaps.     *)
THEOREM ListsSorted == Spec => []CallbacksSorted
  BY TypesInvariant, TypesImply, PTL

-----------------------------------------------------------------------------
(* Where the callers can be, and what they find in m_events.               *)

\* The handler of the event in m_events returns nullopt.
Ignored == OnEvent[<<m_states, m_events>>] = {NoChange}

CallersInv ==
    /\ at["user"] \in {"before", "flag", "entry", "idle"}
    /\ at["daemon"] \in {"idle", "visit"}
    /\ at["isr"] \in {"idle", "visit", "commit", "entry"}
    /\ handler # "none" => at["daemon"] = "visit"
    /\ m_isRunning <=> at["user"] \in {"entry", "idle"}
    /\ ~m_isRunning => at["daemon"] = "idle"
    /\ ctor \in {"state", "intr"} => at["user"] = "before"
    /\ ctor = "start" => at["user"] \in {"before", "flag"}
    /\ ctor = "register" => at["user"] \in {"entry", "idle"}
    /\ ctor = "done" => at["user"] = "idle"
    /\ isr = "in" => ctor = "done"
    /\ isr = "out" => at["isr"] = "idle"

\* The transition that is about to be taken over.
Pressing  == m_states = "STATE_IDLE" /\ m_events = Press /\ newState["isr"] = "STATE_PRESSED"
Releasing == m_states = "STATE_PRESSED" /\ m_events = Release /\ newState["isr"] = "STATE_IDLE"

IsrOperands ==
    isr = "in" =>
        /\ m_events \in {Press, Release}
        /\ at["isr"] = "commit" => Pressing \/ Releasing
        /\ at["isr"] \in {"entry", "idle"} => Ignored

\* The interrupt may have overwritten the event, but nothing comes of it.
DaemonOperands == at["daemon"] = "visit" /\ isr = "out" => Ignored

HandlerInv == CallersInv /\ IsrOperands /\ DaemonOperands

(* The on_event overloads for the three events.                            *)
LEMMA OnEventIs ==
    /\ OnEvent[<<"STATE_IDLE", Press>>] = {"STATE_PRESSED"}
    /\ OnEvent[<<"STATE_PRESSED", Release>>] = {"STATE_IDLE"}
    /\ OnEvent[<<"STATE_IDLE", Release>>] = {NoChange}
    /\ OnEvent[<<"STATE_PRESSED", Press>>] = {NoChange}
    /\ OnEvent[<<"STATE_IDLE", TimerEvent>>] = {NoChange}
    /\ OnEvent[<<"STATE_PRESSED", TimerEvent>>] = {NoChange}
  <1>1. ASSUME NEW s \in States, NEW e \in Events
        PROVE  /\ s = "STATE_IDLE" /\ e = Press => OnEvent[<<s, e>>] = {"STATE_PRESSED"}
               /\ s = "STATE_PRESSED" /\ e = Release => OnEvent[<<s, e>>] = {"STATE_IDLE"}
               /\ ~(s = "STATE_IDLE" /\ e = Press) /\ ~(s = "STATE_PRESSED" /\ e = Release)
                     => OnEvent[<<s, e>>] = {NoChange}
    BY DEF OnEvent, Press, Release, States
  <1>2. "STATE_IDLE" \in States /\ "STATE_PRESSED" \in States /\ "STATE_IDLE" # "STATE_PRESSED"
    BY DEF States
  <1> QED BY <1>1, <1>2, EventsAre

(* The callers before the constructor.                                     *)
LEMMA InitHandler == Init => HandlerInv
  BY DEF Init, Fsm!Init, HandlerInv, CallersInv, IsrOperands, DaemonOperands, Callers

(* Every step keeps the callers where they can be. The interrupt handler   *)
(* runs to its end before the daemon goes on, and leaves an event that the *)
(* daemon ignores.                                                         *)
LEMMA NextHandler == Types /\ HandlerInv /\ Steps => HandlerInv'
  <1> SUFFICES ASSUME Types, HandlerInv, Steps PROVE HandlerInv'
    OBVIOUS
  <1> USE DEF HandlerInv, CallersInv, Callers
  <1>1. /\ at \in [Callers -> {"before", "flag", "visit", "commit", "entry", "idle",
                               "asserted"}]
        /\ newState \in [Callers -> States \cup {NoChange}]
        /\ m_states \in States
        /\ \A c \in Callers : at[c] = "visit" => m_events \in Events
        /\ isr \in {"in", "out"} /\ ctor \in {"state", "intr", "start", "register", "done"}
    BY DEF Types, FsmOK, MembersOK, Fsm!TypeOK
  <1>2. CASE UNCHANGED <<fsmVars, handler, isr, ctor>>
    BY <1>2 DEF fsmVars, IsrOperands, DaemonOperands, Pressing, Releasing, Ignored
  <1>3. CASE UNCHANGED vars
    BY <1>2, <1>3 DEF vars, edgeVars
  <1>4. CASE Construct
    <2>1. UNCHANGED <<handler, isr>>
      BY <1>4 DEF Construct
    <2>2. CASE CtorState \/ CtorInterrupt
      BY <1>1, <2>1, <2>2
      DEF CtorState, CtorInterrupt, fsmVars, IsrOperands, DaemonOperands, Ignored
    <2>3. CASE CtorStart
      <3>1. isr = "out" /\ at["daemon"] = "idle" /\ at["user"] # "entry"
        BY <1>1, <2>3 DEF CtorStart
      <3>2. ASSUME NEW s \in States, Fsm!StartState(s), UNCHANGED ctor PROVE HandlerInv'
        BY <1>1, <2>1, <2>3, <3>1, <3>2
        DEF CtorStart, Fsm!StartState, Fsm!Move, IsrOperands, DaemonOperands
      <3>3. CASE Fsm!StartFlag /\ ctor' = "register"
        BY <1>1, <2>1, <2>3, <3>1, <3>3
        DEF CtorStart, Fsm!StartFlag, Fsm!Move, IsrOperands, DaemonOperands
      <3> QED BY <2>3, <3>2, <3>3 DEF CtorStart, States
    <2>4. CASE CtorRegister
      BY <1>1, <2>1, <2>4
      DEF CtorRegister, fsmVars, IsrOperands, DaemonOperands, Ignored
    <2> QED BY <1>4, <2>2, <2>3, <2>4 DEF Construct
  <1>5. CASE IsrEdge
    <2>1. m_events' \in {Press, Release} /\ isr' = "in" /\ isr = "out" /\ ctor = "done"
      BY <1>5 DEF IsrEdge, Fsm!Dispatch, Press, Release
    <2>2. at["isr"] = "idle" /\ at' = [at EXCEPT !["isr"] = "visit"]
      BY <1>5 DEF IsrEdge, Fsm!Dispatch, Fsm!Move
    <2>3. UNCHANGED <<m_isRunning, handler, ctor>>
      BY <1>5 DEF IsrEdge, Fsm!Dispatch
    <2> QED BY <1>1, <2>1, <2>2, <2>3 DEF IsrOperands, DaemonOperands
  <1>6. CASE IsrEnd
    <2>1. isr = "in" /\ at["isr"] = "idle" /\ isr' = "out"
      BY <1>6 DEF IsrEnd
    <2>2. UNCHANGED <<m_isRunning, m_states, m_events, at, handler, ctor>>
      BY <1>6 DEF IsrEnd, fsmVars
    <2> QED BY <1>1, <2>1, <2>2 DEF IsrOperands, DaemonOperands, Ignored
  <1>7. CASE Visit("isr")
    <2>1. PICK r \in States \cup {NoChange} : Fsm!Visit("isr", r)
      BY <1>7 DEF Visit
    <2>2. /\ at["isr"] = "visit" /\ r \in OnEvent[<<m_states, m_events>>]
          /\ at' = [at EXCEPT !["isr"] = IF r = NoChange THEN "idle" ELSE "commit"]
          /\ newState' = [newState EXCEPT !["isr"] = r]
          /\ UNCHANGED <<m_isRunning, m_states, m_events>>
      BY <2>1 DEF Fsm!Visit, Fsm!Move
    <2>3. UNCHANGED <<handler, isr, ctor>> /\ isr = "in"
      BY <1>1, <1>7, <2>2 DEF Visit, edgeVars
    <2>4. m_events \in {Press, Release}
      BY <2>3 DEF IsrOperands
    <2>5. /\ r = NoChange => Ignored
          /\ r # NoChange => Pressing' \/ Releasing'
      BY <1>1, <2>2, <2>4, OnEventIs, EventsAre, ButtonConstants
      DEF States, Ignored, Pressing, Releasing
    <2>6. Ignored <=> Ignored'
      BY <2>2 DEF Ignored
    <2> QED BY <1>1, <2>2, <2>3, <2>4, <2>5, <2>6 DEF IsrOperands, DaemonOperands
  <1>8. CASE Commit("isr")
    <2>1. /\ at["isr"] = "commit" /\ at' = [at EXCEPT !["isr"] = "entry"]
          /\ m_states' = newState["isr"]
          /\ UNCHANGED <<m_isRunning, m_events>>
      BY <1>8 DEF Commit, Fsm!Commit, Fsm!Move
    <2>2. UNCHANGED <<handler, isr, ctor>> /\ isr = "in"
      BY <1>1, <1>8, <2>1 DEF Commit, edgeVars
    <2>3. Pressing \/ Releasing
      BY <2>1, <2>2 DEF IsrOperands
    <2>4. Ignored'
      BY <2>1, <2>3, OnEventIs DEF Ignored, Pressing, Releasing
    <2> QED BY <1>1, <2>1, <2>2, <2>4 DEF IsrOperands, DaemonOperands
  <1>9. CASE isr = "out" /\ Visit("daemon")
    <2>1. PICK r \in States \cup {NoChange} : Fsm!Visit("daemon", r)
      BY <1>9 DEF Visit
    <2>2. /\ at["daemon"] = "visit" /\ r \in OnEvent[<<m_states, m_events>>]
          /\ at' = [at EXCEPT !["daemon"] = IF r = NoChange THEN "idle" ELSE "commit"]
          /\ UNCHANGED <<m_isRunning, m_states, m_events>>
      BY <2>1 DEF Fsm!Visit, Fsm!Move
    <2>3. UNCHANGED <<handler, isr, ctor>> /\ handler = "none"
      BY <1>9 DEF Visit, edgeVars, TimedPress
    <2>4. r = NoChange
      BY <1>9, <2>2 DEF DaemonOperands, Ignored
    <2> QED BY <1>1, <1>9, <2>2, <2>3, <2>4 DEF IsrOperands, DaemonOperands
  <1>10. CASE isr = "out" /\ Commit("daemon")
    BY <1>10 DEF Commit, Fsm!Commit, Fsm!Move
  <1>11. ASSUME NEW c \in Callers, OnEntry(c) PROVE HandlerInv'
    <2>1. /\ at[c] = "entry" /\ at' = [at EXCEPT ![c] = "idle"]
          /\ UNCHANGED <<m_isRunning, m_states, m_events>>
      BY <1>11 DEF OnEntry, Fsm!OnEntry, Fsm!Move
    <2>2. UNCHANGED <<handler, isr, ctor>>
      BY <1>11 DEF OnEntry, edgeVars
    <2>3. (Ignored <=> Ignored') /\ newState' = newState
      BY <1>11, <2>1 DEF Ignored, OnEntry, Fsm!OnEntry
    <2> QED
      BY <1>1, <2>1, <2>2, <2>3
      DEF IsrOperands, DaemonOperands, Pressing, Releasing
  <1>12. CASE ProcessCommand
    BY <1>2, <1>12 DEF ProcessCommand, edgeVars
  <1>13. CASE isr = "out" /\ Expire
    <2>1. m_events' = TimerEvent /\ UNCHANGED <<m_isRunning, m_states, newState>>
      BY <1>13 DEF Expire, Fsm!Dispatch, TimerEvent
    <2>2. m_isRunning /\ at' = [at EXCEPT !["daemon"] = "visit"]
      BY <1>13 DEF Expire, Fsm!Dispatch, Fsm!Move
    <2>3. UNCHANGED <<handler, isr, ctor>>
      BY <1>13 DEF Expire, edgeVars
    <2>4. Ignored'
      BY <1>1, <2>1, OnEventIs DEF Ignored, States
    <2> QED BY <1>1, <1>13, <2>1, <2>2, <2>3, <2>4 DEF IsrOperands, DaemonOperands
  <1>14. CASE TimerVisit
    <2>1. at["daemon"] = "visit" /\ UNCHANGED <<fsmVars, isr, ctor>>
      BY <1>14 DEF TimerVisit, Visiting, edgeVars
    <2> QED
      BY <2>1 DEF fsmVars, IsrOperands, DaemonOperands, Pressing, Releasing, Ignored
  <1>15. CASE TimerPend \/ TimerBump
    <2>1. handler # "none" /\ UNCHANGED <<fsmVars, isr, ctor>>
      BY <1>15 DEF TimerPend, TimerBump, TimerHandler, edgeVars
    <2> QED
      BY <2>1 DEF fsmVars, IsrOperands, DaemonOperands, Pressing, Releasing, Ignored
  <1>16. CASE isr = "out" /\ TimerArm
    <2>1. /\ handler' = "none" /\ at' = [at EXCEPT !["daemon"] = "idle"]
          /\ UNCHANGED <<m_isRunning, m_states, m_events, newState, isr, ctor>>
      BY <1>16 DEF TimerArm, TimerHandler, Fsm!Move, edgeVars
    <2> QED BY <1>1, <1>16, <2>1 DEF IsrOperands, DaemonOperands
  <1>17. ASSUME NEW time \in Times, Register(time) PROVE HandlerInv'
    BY <1>2, <1>17 DEF Register, edgeVars
  <1>18. CASE Tick
    BY <1>2, <1>18 DEF Tick
  <1>19. CASE Pin
    BY <1>2, <1>19 DEF Pin, edgeVars
  <1> QED
    BY <1>3, <1>4, <1>5, <1>6, <1>7, <1>8, <1>9, <1>10, <1>11, <1>12, <1>13, <1>14,
       <1>15, <1>16, <1>17, <1>18, <1>19
    DEF Steps

(* The types and the places of the callers hold always.                    *)
LEMMA HandlerInvariant == Spec => [](Types /\ HandlerInv)
  <1>1. Types /\ HandlerInv /\ [Next]_vars => (Types /\ HandlerInv)'
    BY NextSteps, NextTypes, NextHandler
  <1> QED BY <1>1, InitTypes, InitHandler, PTL DEF Spec

-----------------------------------------------------------------------------
(* The edges, and what the constructors made of the pin.                   *)

Pressed == m_states = "STATE_PRESSED"

\* In the interrupt handler the edge has been taken by RealAnyEdge, by the FSM
\* when its new state is assigned, and by the kind of interrupt not yet.  The
\* first edge brings the FSM and RealAnyEdge together, whatever the constructors
\* found; the kind of interrupt has nothing that could set it right.
EdgeInv ==
    /\ ctor # "done" => ~used
    /\ ~differed /\ ctor \in {"start", "register", "done"} /\ isr = "out"
         => (m_state <=> intr = "low")
    /\ ~differed /\ (at["user"] = "flag" \/ ctor = "register") => (m_state <=> Pressed)
    /\ ctor = "done" /\ isr = "out" /\ (used \/ ~differed) => (m_state <=> Pressed)
    /\ isr = "in" =>
        /\ used
        /\ ~differed => (m_state <=> intr = "high")
        /\ m_state <=> m_events = Press
        /\ at["isr"] \in {"entry", "idle"} => (m_state <=> Pressed)

(* Nothing is claimed before the constructor.                              *)
LEMMA InitEdge == Init => EdgeInv
  BY DEF Init, Fsm!Init, EdgeInv, Callers

(* Every step keeps the machine in step with the edges.                    *)
LEMMA NextEdge == Types /\ HandlerInv /\ EdgeInv /\ Steps => EdgeInv'
  <1> SUFFICES ASSUME Types, HandlerInv, EdgeInv, Steps PROVE EdgeInv'
    OBVIOUS
  <1> USE DEF EdgeInv, Pressed, Callers
  <1>1. /\ at \in [Callers -> {"before", "flag", "visit", "commit", "entry", "idle",
                               "asserted"}]
        /\ newState \in [Callers -> States \cup {NoChange}]
        /\ isr \in {"in", "out"} /\ ctor \in {"state", "intr", "start", "register", "done"}
        /\ intr \in {"low", "high"} /\ m_state \in BOOLEAN /\ level \in BOOLEAN
        /\ m_states \in States /\ used \in BOOLEAN /\ differed \in BOOLEAN
    BY DEF Types, FsmOK, MembersOK, Fsm!TypeOK
  <1>2. CallersInv /\ IsrOperands /\ DaemonOperands
    BY DEF HandlerInv
  <1>3. CASE UNCHANGED <<m_states, m_events, at, m_state, intr, isr, ctor, level, used, differed>>
    BY <1>3
  <1>4. CASE UNCHANGED vars
    BY <1>3, <1>4 DEF vars, edgeVars, fsmVars, history
  <1>5. CASE Construct
    <2>1. /\ UNCHANGED <<isr, level, used>>
          /\ differed' = (differed \/ (LooksAgain /\ level # m_state))
      BY <1>5 DEF Construct
    <2>2. CASE CtorState
      BY <1>1, <1>2, <2>1, <2>2 DEF CtorState, fsmVars, CallersInv
    <2>3. CASE CtorInterrupt
      BY <1>1, <1>2, <2>1, <2>3 DEF CtorInterrupt, LooksAgain, fsmVars, CallersInv
    <2>4. CASE CtorStart
      <3>1. isr = "out" /\ UNCHANGED <<m_state, intr>> /\ ctor = "start"
        BY <1>1, <1>2, <2>4 DEF CtorStart, CallersInv
      <3>2. CASE /\ Fsm!StartState(IF level THEN "STATE_PRESSED" ELSE "STATE_IDLE")
                 /\ UNCHANGED ctor
        BY <1>1, <1>2, <2>1, <3>1, <3>2 DEF CallersInv, LooksAgain, Fsm!StartState, Fsm!Move
      <3>3. CASE Fsm!StartFlag /\ ctor' = "register"
        <4>1. at["user"] = "flag" /\ at'["user"] = "entry" /\ m_states' = m_states
          BY <1>1, <3>3, ButtonConstants DEF Fsm!StartFlag, Fsm!Move
        <4> QED BY <1>1, <2>1, <3>1, <3>3, <4>1
      <3> QED BY <2>4, <3>2, <3>3 DEF CtorStart
    <2>5. CASE CtorRegister
      BY <1>1, <1>2, <2>1, <2>5 DEF CtorRegister, fsmVars, CallersInv
    <2> QED BY <1>5, <2>2, <2>3, <2>4, <2>5 DEF Construct
  <1>6. CASE IsrEdge
    <2>1. /\ isr = "out" /\ isr' = "in" /\ ctor = "done" /\ m_state' = ~m_state
          /\ used' = TRUE
          /\ UNCHANGED <<intr, ctor, level, differed, m_states>>
          /\ m_events' = IF m_state' THEN Press ELSE Release
      BY <1>6 DEF IsrEdge, Fsm!Dispatch, Press, Release
    <2>2. at' = [at EXCEPT !["isr"] = "visit"]
      BY <1>6 DEF IsrEdge, Fsm!Dispatch, Fsm!Move
    <2>3. at["user"] = "idle"
      BY <1>2, <2>1 DEF CallersInv
    <2> QED BY <1>1, <2>1, <2>2, <2>3, EventsAre
  <1>7. CASE IsrEnd
    BY <1>1, <1>2, <1>7 DEF IsrEnd, fsmVars, history, CallersInv
  <1>8. CASE Visit("isr")
    <2>1. PICK r \in States \cup {NoChange} : Fsm!Visit("isr", r)
      BY <1>8 DEF Visit
    <2>2. /\ at["isr"] = "visit" /\ r \in OnEvent[<<m_states, m_events>>]
          /\ at' = [at EXCEPT !["isr"] = IF r = NoChange THEN "idle" ELSE "commit"]
          /\ UNCHANGED <<m_states, m_events>>
      BY <2>1 DEF Fsm!Visit, Fsm!Move
    <2>3. UNCHANGED <<m_state, intr, isr, ctor, level, used, differed>>
      BY <1>8 DEF Visit, edgeVars, history
    <2>4. isr = "in" /\ ctor = "done" /\ at["user"] = "idle"
      BY <1>1, <1>2, <2>2 DEF CallersInv
    <2>5. r = NoChange => (m_state <=> Pressed)
      BY <1>1, <1>2, <2>2, <2>4, OnEventIs, EventsAre, ButtonConstants
      DEF IsrOperands, States
    <2> QED BY <1>1, <2>2, <2>3, <2>4, <2>5
  <1>9. CASE Commit("isr")
    <2>1. /\ at["isr"] = "commit" /\ at' = [at EXCEPT !["isr"] = "entry"]
          /\ m_states' = newState["isr"] /\ m_events' = m_events
      BY <1>9 DEF Commit, Fsm!Commit, Fsm!Move
    <2>2. UNCHANGED <<m_state, intr, isr, ctor, level, used, differed>> /\ isr = "in" /\ ctor = "done"
      BY <1>1, <1>2, <1>9, <2>1 DEF Commit, edgeVars, history, CallersInv
    <2>3. Pressing \/ Releasing
      BY <1>2, <2>1, <2>2 DEF IsrOperands
    <2>4. m_state <=> m_states' = "STATE_PRESSED"
      BY <2>1, <2>2, <2>3, EventsAre DEF Pressing, Releasing
    <2> QED BY <1>1, <1>2, <2>1, <2>2, <2>4 DEF CallersInv
  <1>10. CASE isr = "out" /\ (Visit("daemon") \/ Expire)
    <2>1. UNCHANGED <<m_state, intr, isr, ctor, level, m_states, at["user"], used, differed>>
      BY <1>1, <1>10 DEF Visit, Expire, Fsm!Visit, Fsm!Dispatch, Fsm!Move, edgeVars, history
    <2> QED BY <1>10, <2>1
  <1>11. CASE isr = "out" /\ Commit("daemon")
    BY <1>2, <1>11 DEF Commit, Fsm!Commit, Fsm!Move, CallersInv
  <1>12. ASSUME NEW c \in Callers, OnEntry(c) PROVE EdgeInv'
    <2>1. /\ at[c] = "entry" /\ at' = [at EXCEPT ![c] = "idle"]
          /\ UNCHANGED <<m_states, m_events, m_state, intr, isr, ctor, level, used, differed>>
      BY <1>12 DEF OnEntry, Fsm!OnEntry, Fsm!Move, edgeVars, history
    <2> QED BY <1>1, <2>1
  <1>13. CASE ProcessCommand
    BY <1>3, <1>13 DEF ProcessCommand, edgeVars, fsmVars, history
  <1>14. CASE TimerVisit \/ TimerPend \/ TimerBump
    BY <1>3, <1>14 DEF TimerVisit, TimerPend, TimerBump, edgeVars, fsmVars, history
  <1>15. CASE isr = "out" /\ TimerArm
    <2>1. UNCHANGED <<m_state, intr, isr, ctor, level, m_states, at["user"], used, differed>>
      BY <1>1, <1>15 DEF TimerArm, Fsm!Move, edgeVars, history
    <2> QED BY <1>15, <2>1
  <1>16. ASSUME NEW time \in Times, Register(time) PROVE EdgeInv'
    BY <1>3, <1>16 DEF Register, edgeVars, fsmVars, history
  <1>17. CASE Tick
    BY <1>3, <1>17 DEF Tick, fsmVars
  <1>18. CASE Pin
    <2>1. /\ UNCHANGED <<m_states, m_events, at, m_state, intr, isr, ctor, used, differed>>
      BY <1>18 DEF Pin, edgeVars, fsmVars, history
    <2> QED BY <2>1
  <1> QED
    BY <1>4, <1>5, <1>6, <1>7, <1>8, <1>9, <1>10, <1>11, <1>12, <1>13, <1>14, <1>15,
       <1>16, <1>17, <1>18
    DEF Steps

(* The FSM, RealAnyEdge and the kind of interrupt agree outside the        *)
(* handler, as far as the constructors saw one pin; the FSM and            *)
(* RealAnyEdge from the first edge on in any case.                         *)
THEOREM FollowsEdges == Spec => []ButtonFollowsEdges
  <1>1. Types /\ HandlerInv /\ EdgeInv /\ [Next]_vars => EdgeInv'
    BY NextSteps, NextEdge
  <1>2. EdgeInv => ButtonFollowsEdges
    BY DEF EdgeInv, Pressed, ButtonFollowsEdges
  <1> QED BY <1>1, <1>2, InitEdge, HandlerInvariant, PTL DEF Spec

-----------------------------------------------------------------------------
(* Before the first edge nothing has been queued, and the handler of a     *)
(* timed press never finds the number of a fast press.                     *)

QuietInv ==
    /\ ctor # "done" => ~used
    /\ ~used =>
        /\ ~changed /\ isr = "out" /\ at["daemon"] = "idle"
        /\ commands = <<>> /\ timer = -1 /\ lastCall = NoCall
        /\ ctor # "done" => m_pressCallbacks[1] = None /\ m_pressCallbacks[2] = None

TimeoutsInv ==
    handler # "none" \/ m_states = "STATE_PRESSED" =>
        \/ m_timeouts >= 1
        \/ at["isr"] = "entry" /\ m_states = "STATE_PRESSED"
        \/ at["user"] \in {"flag", "entry"}

(* Both hold before the constructor.                                       *)
LEMMA InitQuiet == Init => QuietInv /\ TimeoutsInv
  BY DEF Init, Fsm!Init, QuietInv, TimeoutsInv, Callers

(* A sequence of no elements.                                              *)
LEMMA EmptySequence ==
    ASSUME NEW S, NEW s \in Seq(S), Len(s) = 0
    PROVE  s = <<>>
  OBVIOUS

\* A step that sends nothing.
LEMMA SendNothing ==
    ASSUME QueueOK, Send(<<>>), dropped \in BOOLEAN
    PROVE  commands' = commands /\ dropped' = dropped
  <1>1. <<>> \in Seq(Commands) /\ Len(<<>>) = 0
    OBVIOUS
  <1>2. PICK n \in 0..0 :
          /\ commands' \in Seq(Commands) /\ Len(commands') = Len(commands) + n
          /\ \A i \in 1..Len(commands) : commands'[i] = commands[i]
          /\ dropped' = (dropped \/ n # 0)
    <2>1. commands \in Seq(Commands) /\ Len(commands) <= TimerQueueLength
      BY DEF QueueOK
    <2> HIDE DEF Send
    <2> QED BY <1>1, <2>1, SendQueues
  <1>3. commands \in Seq(Commands) /\ Len(commands') = Len(commands)
    BY <1>2 DEF QueueOK
  <1> QED BY <1>2, <1>3

(* Every step keeps what holds before the first edge.                      *)
LEMMA NextQuiet == Types /\ HandlerInv /\ QuietInv /\ Steps => QuietInv'
  <1> SUFFICES ASSUME Types, HandlerInv, QuietInv, Steps PROVE QuietInv'
    OBVIOUS
  <1>1. CallersInv /\ QueueOK /\ ListsOK /\ dropped \in BOOLEAN
        /\ at \in [Callers -> {"before", "flag", "visit", "commit", "entry", "idle",
                               "asserted"}]
        /\ isr \in {"in", "out"} /\ ctor \in {"state", "intr", "start", "register", "done"}
    BY DEF Types, FsmOK, MembersOK, HandlerInv, Fsm!TypeOK
  <1> USE DEF QuietInv, Callers
  <1>2. CASE UNCHANGED <<used, changed, isr, ctor, commands, timer, lastCall,
                         m_pressCallbacks, at>>
    BY <1>2
  <1>3. CASE UNCHANGED vars
    BY <1>2, <1>3 DEF vars, edgeVars, timerVars, history, lists, fsmVars
  <1>4. CASE Construct
    <2>1. UNCHANGED <<used, changed, isr, commands, timer, lastCall, m_pressCallbacks>>
      BY <1>4 DEF Construct, timerVars, history, lists
    <2>2. at'["daemon"] = at["daemon"] /\ ctor # "done"
      BY <1>1, <1>4
      DEF Construct, CtorState, CtorInterrupt, CtorStart, CtorRegister, fsmVars,
          Fsm!StartState, Fsm!StartFlag, Fsm!Move
    <2> QED BY <2>1, <2>2
  <1>5. CASE IsrEdge
    BY <1>5 DEF IsrEdge
  <1>6. CASE IsrEnd
    BY <1>1, <1>6 DEF IsrEnd, timerVars, history, lists, fsmVars
  <1>7. CASE Visit("isr")
    <2>1. at["isr"] = "visit" /\ UNCHANGED <<used, ctor>>
      BY <1>7 DEF Visit, Fsm!Visit, Fsm!Move, history, edgeVars
    <2>2. used
      BY <1>1, <2>1 DEF CallersInv
    <2> QED BY <2>1, <2>2
  <1>8. CASE Commit("isr")
    <2>1. at["isr"] = "commit" /\ UNCHANGED <<used, ctor>>
      BY <1>8 DEF Commit, Fsm!Commit, Fsm!Move, history, edgeVars
    <2>2. used
      BY <1>1, <2>1 DEF CallersInv
    <2> QED BY <2>1, <2>2
  <1>9. CASE Visit("daemon") \/ Commit("daemon") \/ TimerVisit \/ TimerPend \/ TimerBump
             \/ TimerArm
    <2>1. at["daemon"] # "idle"
      BY <1>1, <1>9
      DEF Visit, Commit, TimerVisit, TimerPend, TimerBump, TimerArm, Fsm!Visit, Fsm!Commit,
          Fsm!Move, Visiting, TimerHandler, CallersInv
    <2>2. used /\ UNCHANGED <<used, ctor>>
      BY <1>9, <2>1
      DEF Visit, Commit, TimerVisit, TimerPend, TimerBump, TimerArm, history, edgeVars
    <2> QED BY <2>2
  <1>10. ASSUME NEW c \in Callers, OnEntry(c) PROVE QuietInv'
    <2>1. /\ at[c] = "entry" /\ at' = [at EXCEPT ![c] = "idle"]
          /\ UNCHANGED <<used, changed, isr, ctor, timer, lastCall, m_pressCallbacks>>
      BY <1>10 DEF OnEntry, Fsm!OnEntry, Fsm!Move, history, edgeVars, timerVars, lists
    <2>2. CASE used
      BY <2>1, <2>2
    <2>3. CASE ~used
      <3>1. c = "user" /\ ctor # "done"
        BY <1>1, <2>1, <2>3 DEF CallersInv
      <3>2. m_pressCallbacks[1] = None /\ m_pressCallbacks[2] = None
        BY <2>3, <3>1
      <3>3. PressCall(0) = <<>> /\ Arm(1) = <<>>
        BY <3>2 DEF PressCall, Arm, Time
      <3>4. <<>> \o <<>> = <<>>
        OBVIOUS
      <3>5. commands' = commands
        BY <1>1, <1>10, <3>3, <3>4, SendNothing DEF OnEntry
      <3> QED BY <1>1, <2>1, <2>3, <3>1, <3>5
    <2> QED BY <2>2, <2>3
  <1>11. CASE ProcessCommand
    <2>1. commands # <<>> /\ UNCHANGED <<used, ctor>>
      BY <1>11 DEF ProcessCommand, edgeVars
    <2> QED BY <2>1
  <1>12. CASE Expire
    <2>1. timer = 0 /\ UNCHANGED <<used, ctor>>
      BY <1>12 DEF Expire, edgeVars, history
    <2> QED BY <2>1
  <1>13. ASSUME NEW time \in Times, Register(time) PROVE QuietInv'
    <2>1. /\ UNCHANGED <<used, isr, ctor, commands, timer, lastCall, at>>
          /\ ctor = "done" /\ changed' = used
      BY <1>13 DEF Register, edgeVars, timerVars, fsmVars
    <2> QED BY <2>1
  <1>14. CASE Tick
    <2>1. UNCHANGED <<used, changed, isr, ctor, lastCall, m_pressCallbacks, at>>
      BY <1>14 DEF Tick, lists, fsmVars
    <2>2. ~used => timer' = timer
      BY <1>14 DEF Tick
    <2>3. ~used => commands' = <<>>
      <3>1. Len(commands') = Len(commands) /\ commands' \in Seq(Commands)
        BY <1>1, <1>14, TickTypes DEF QueueOK
      <3>2. ~used => Len(commands) = 0
        OBVIOUS
      <3> QED BY <3>1, <3>2, EmptySequence
    <2> QED BY <2>1, <2>2, <2>3
  <1>15. CASE Pin
    BY <1>2, <1>15 DEF Pin, edgeVars, timerVars, history, lists, fsmVars
  <1> QED
    BY <1>3, <1>4, <1>5, <1>6, <1>7, <1>8, <1>9, <1>10, <1>11, <1>12, <1>13, <1>14,
       <1>15
    DEF Steps

(* Every step keeps the number of timeouts of a pressed button above 0,    *)
(* but for the moment between the new state and its on_entry.              *)
LEMMA NextTimeouts ==
    Types /\ HandlerInv /\ QuietInv /\ TimeoutsInv /\ Steps => TimeoutsInv'
  <1> SUFFICES ASSUME Types, HandlerInv, QuietInv, TimeoutsInv, Steps PROVE TimeoutsInv'
    OBVIOUS
  <1>1. CallersInv /\ IsrOperands /\ m_timeouts \in Nat
        /\ at \in [Callers -> {"before", "flag", "visit", "commit", "entry", "idle",
                               "asserted"}]
        /\ isr \in {"in", "out"} /\ ctor \in {"state", "intr", "start", "register", "done"}
    BY DEF Types, FsmOK, MembersOK, HandlerInv, Fsm!TypeOK
  <1> USE DEF TimeoutsInv, Callers
  <1>2. CASE UNCHANGED <<handler, m_states, m_timeouts, at>>
    BY <1>2
  <1>3. CASE UNCHANGED vars
    BY <1>2, <1>3 DEF vars, fsmVars
  <1>4. CASE Construct
    <2>1. UNCHANGED <<handler, m_timeouts>>
      BY <1>4 DEF Construct
    <2>2. CASE CtorState \/ CtorInterrupt \/ CtorRegister
      BY <2>1, <2>2 DEF CtorState, CtorInterrupt, CtorRegister, fsmVars
    <2>3. CASE CtorStart
      <3>1. at["daemon"] = "idle" /\ handler = "none"
        BY <1>1, <2>3 DEF CtorStart, QuietInv, CallersInv
      <3>2. at'["user"] \in {"flag", "entry"}
        BY <1>1, <2>3 DEF CtorStart, Fsm!StartState, Fsm!StartFlag, Fsm!Move
      <3> QED BY <2>1, <3>1, <3>2
    <2> QED BY <1>4, <2>2, <2>3 DEF Construct
  <1>5. CASE IsrEdge
    <2>1. /\ UNCHANGED <<handler, m_timeouts, m_states>>
          /\ at["isr"] = "idle" /\ at' = [at EXCEPT !["isr"] = "visit"]
      BY <1>5 DEF IsrEdge, Fsm!Dispatch, Fsm!Move
    <2> QED BY <1>1, <2>1
  <1>6. CASE IsrEnd
    BY <1>2, <1>6 DEF IsrEnd, fsmVars
  <1>7. ASSUME NEW c \in {"isr", "daemon"}, Visit(c) PROVE TimeoutsInv'
    <2>1. UNCHANGED <<handler, m_timeouts, m_states>>
      BY <1>7 DEF Visit, Fsm!Visit
    <2>2. at[c] = "visit" /\ at'["user"] = at["user"]
          /\ (c = "daemon" => at'["isr"] = at["isr"])
      BY <1>1, <1>7 DEF Visit, Fsm!Visit, Fsm!Move
    <2> QED BY <2>1, <2>2
  <1>8. CASE Commit("isr")
    <2>1. /\ at["isr"] = "commit" /\ at' = [at EXCEPT !["isr"] = "entry"]
          /\ m_states' = newState["isr"] /\ handler' = handler
      BY <1>8 DEF Commit, Fsm!Commit, Fsm!Move
    <2>2. Pressing \/ Releasing
      BY <1>1, <2>1 DEF IsrOperands, CallersInv
    <2>3. CASE Releasing
      <3>1. m_states' = "STATE_IDLE" /\ m_states = "STATE_PRESSED"
        BY <2>1, <2>3 DEF Releasing
      <3>2. m_timeouts' = m_timeouts
        BY <1>8, <3>1 DEF Commit
      <3>3. at["user"] = "idle"
        BY <1>1, <2>1 DEF CallersInv
      <3> QED BY <1>1, <2>1, <3>1, <3>2, <3>3
    <2>4. CASE Pressing
      BY <1>1, <2>1, <2>4 DEF Pressing
    <2> QED BY <2>2, <2>3, <2>4
  <1>9. CASE Commit("daemon")
    BY <1>1, <1>9 DEF Commit, Fsm!Commit, Fsm!Move, CallersInv
  <1>10. ASSUME NEW c \in Callers, OnEntry(c) PROVE TimeoutsInv'
    <2>1. /\ at[c] = "entry" /\ at' = [at EXCEPT ![c] = "idle"]
          /\ UNCHANGED <<handler, m_states>>
          /\ m_timeouts' = IF m_states = "STATE_PRESSED" THEN 1 ELSE m_timeouts
      BY <1>10 DEF OnEntry, Fsm!OnEntry, Fsm!Move
    <2>2. at["user"] = "entry" => handler = "none"
      BY <1>1 DEF CallersInv, QuietInv
    <2>3. CASE m_states = "STATE_PRESSED"
      BY <2>1, <2>3
    <2>4. CASE m_states # "STATE_PRESSED"
      BY <1>1, <2>1, <2>2, <2>4
    <2> QED BY <2>3, <2>4
  <1>11. CASE ProcessCommand
    BY <1>2, <1>11 DEF ProcessCommand, fsmVars
  <1>12. CASE Expire
    <2>1. /\ UNCHANGED <<handler, m_timeouts, m_states>>
          /\ at' = [at EXCEPT !["daemon"] = "visit"]
      BY <1>12 DEF Expire, Fsm!Dispatch, Fsm!Move
    <2> QED BY <1>1, <2>1
  <1>13. CASE TimerVisit
    BY <1>13 DEF TimerVisit, Visiting, fsmVars
  <1>14. CASE TimerPend \/ TimerBump
    BY <1>1, <1>14 DEF TimerPend, TimerBump, TimerHandler, fsmVars
  <1>15. CASE TimerArm
    <2>1. UNCHANGED <<m_timeouts, m_states, at["user"], at["isr"]>> /\ handler' = "none"
      BY <1>1, <1>15 DEF TimerArm, TimerHandler, Fsm!Move
    <2> QED BY <2>1
  <1>16. ASSUME NEW time \in Times, Register(time) PROVE TimeoutsInv'
    BY <1>2, <1>16 DEF Register, fsmVars
  <1>17. CASE Tick \/ Pin
    BY <1>2, <1>17 DEF Tick, Pin, fsmVars
  <1> QED
    BY <1>3, <1>4, <1>5, <1>6, <1>7, <1>8, <1>9, <1>10, <1>11, <1>12, <1>13, <1>14,
       <1>15, <1>16, <1>17
    DEF Steps

-----------------------------------------------------------------------------
(* Sequences in which presses and releases alternate.                      *)

IsEdge(c) == c.what \in {"fast", "release"}

Alternates(s, n) ==
    \A i, j \in 1..n :
        i < j /\ IsEdge(s[i]) /\ IsEdge(s[j]) /\ s[i].what = s[j].what =>
            \E k \in (i + 1)..(j - 1) : IsEdge(s[k])

\* The last edge, if there is one.
EndsWith(s, n, last) ==
    \A i \in 1..n :
        IsEdge(s[i]) /\ s[i].what # last => \E k \in (i + 1)..n : IsEdge(s[k])

(* Elements are appended that are no edges.                                *)
LEMMA AlternatesNone ==
    ASSUME NEW s, NEW t, NEW n \in Nat, NEW m \in Nat, n <= m, NEW last,
           \A i \in 1..n : t[i].what = s[i].what,
           \A i \in (n + 1)..m : ~IsEdge(t[i]),
           Alternates(s, n), EndsWith(s, n, last)
    PROVE  Alternates(t, m) /\ EndsWith(t, m, last)
  <1>1. \A i \in 1..m : IsEdge(t[i]) => i \in 1..n
    OBVIOUS
  <1>2. \A i \in 1..n : IsEdge(t[i]) <=> IsEdge(s[i])
    BY DEF IsEdge
  <1>3. Alternates(t, m)
    <2> SUFFICES ASSUME NEW i \in 1..m, NEW j \in 1..m, i < j, IsEdge(t[i]), IsEdge(t[j]),
                        t[i].what = t[j].what
                 PROVE  \E k \in (i + 1)..(j - 1) : IsEdge(t[k])
      BY DEF Alternates
    <2>1. i \in 1..n /\ j \in 1..n
      BY <1>1
    <2>2. PICK k \in (i + 1)..(j - 1) : IsEdge(s[k])
      BY <1>2, <2>1 DEF Alternates
    <2> QED BY <1>2, <2>1, <2>2
  <1>4. EndsWith(t, m, last)
    <2> SUFFICES ASSUME NEW i \in 1..m, IsEdge(t[i]), t[i].what # last
                 PROVE  \E k \in (i + 1)..m : IsEdge(t[k])
      BY DEF EndsWith
    <2>1. i \in 1..n
      BY <1>1
    <2>2. PICK k \in (i + 1)..n : IsEdge(s[k])
      BY <1>2, <2>1 DEF EndsWith
    <2> QED BY <1>2, <2>1, <2>2
  <1> QED BY <1>3, <1>4

(* Elements are appended with one edge, unlike the last.                   *)
LEMMA AlternatesOne ==
    ASSUME NEW s, NEW t, NEW n \in Nat, NEW m \in Nat, n < m, NEW last,
           \A i \in 1..n : t[i].what = s[i].what,
           NEW one \in (n + 1)..m, IsEdge(t[one]), t[one].what # last,
           \A i \in (n + 1)..m : i # one => ~IsEdge(t[i]),
           Alternates(s, n), EndsWith(s, n, last)
    PROVE  Alternates(t, m) /\ EndsWith(t, m, t[one].what)
  <1>1. \A i \in 1..m : IsEdge(t[i]) => i \in 1..n \/ i = one
    OBVIOUS
  <1>2. \A i \in 1..n : IsEdge(t[i]) <=> IsEdge(s[i])
    BY DEF IsEdge
  <1>3. Alternates(t, m)
    <2> SUFFICES ASSUME NEW i \in 1..m, NEW j \in 1..m, i < j, IsEdge(t[i]), IsEdge(t[j]),
                        t[i].what = t[j].what
                 PROVE  \E k \in (i + 1)..(j - 1) : IsEdge(t[k])
      BY DEF Alternates
    <2>1. i \in 1..n
      BY <1>1
    <2>2. CASE j \in 1..n
      <3>1. PICK k \in (i + 1)..(j - 1) : IsEdge(s[k])
        BY <1>2, <2>1, <2>2 DEF Alternates
      <3> QED BY <1>2, <2>1, <2>2, <3>1
    <2>3. CASE j = one
      <3>1. PICK k \in (i + 1)..n : IsEdge(s[k])
        BY <1>2, <2>1, <2>3 DEF EndsWith
      <3> QED BY <1>2, <2>1, <2>3, <3>1
    <2> QED BY <1>1, <2>2, <2>3
  <1>4. EndsWith(t, m, t[one].what)
    <2> SUFFICES ASSUME NEW i \in 1..m, IsEdge(t[i]), t[i].what # t[one].what
                 PROVE  \E k \in (i + 1)..m : IsEdge(t[k])
      BY DEF EndsWith
    <2>1. i \in 1..n
      BY <1>1
    <2> QED BY <2>1
  <1> QED BY <1>3, <1>4

\* The first element goes.
LEMMA AlternatesTail ==
    ASSUME NEW s, NEW t, NEW n \in Nat \ {0}, NEW last,
           \A i \in 1..(n - 1) : t[i].what = s[i + 1].what,
           Alternates(s, n), EndsWith(s, n, last)
    PROVE  Alternates(t, n - 1) /\ EndsWith(t, n - 1, last)
  <1>1. \A i \in 1..(n - 1) : IsEdge(t[i]) <=> IsEdge(s[i + 1])
    BY DEF IsEdge
  <1>2. Alternates(t, n - 1)
    <2> SUFFICES ASSUME NEW i \in 1..(n - 1), NEW j \in 1..(n - 1), i < j,
                        IsEdge(t[i]), IsEdge(t[j]), t[i].what = t[j].what
                 PROVE  \E k \in (i + 1)..(j - 1) : IsEdge(t[k])
      BY DEF Alternates
    <2>1. PICK k \in (i + 1 + 1)..(j + 1 - 1) : IsEdge(s[k])
      <3>1. i + 1 \in 1..n /\ j + 1 \in 1..n /\ i + 1 < j + 1
        OBVIOUS
      <3> QED BY <1>1, <3>1 DEF Alternates
    <2>2. k - 1 \in (i + 1)..(j - 1) /\ IsEdge(t[k - 1])
      BY <1>1, <2>1
    <2> QED BY <2>2
  <1>3. EndsWith(t, n - 1, last)
    <2> SUFFICES ASSUME NEW i \in 1..(n - 1), IsEdge(t[i]), t[i].what # last
                 PROVE  \E k \in (i + 1)..(n - 1) : IsEdge(t[k])
      BY DEF EndsWith
    <2>1. PICK k \in (i + 1 + 1)..n : IsEdge(s[k])
      <3>1. i + 1 \in 1..n
        OBVIOUS
      <3> QED BY <1>1, <3>1 DEF EndsWith
    <2>2. k - 1 \in (i + 1)..(n - 1) /\ IsEdge(t[k - 1])
      BY <1>1, <2>1
    <2> QED BY <2>2
  <1> QED BY <1>2, <1>3

\* The second element goes, which is no edge.
LEMMA AlternatesWithout ==
    ASSUME NEW s, NEW t, NEW n \in Nat, n >= 2, NEW last, ~IsEdge(s[2]),
           t[1].what = s[1].what,
           \A i \in 2..(n - 1) : t[i].what = s[i + 1].what,
           Alternates(s, n), EndsWith(s, n, last)
    PROVE  Alternates(t, n - 1) /\ EndsWith(t, n - 1, last)
  <1> DEFINE old(i) == IF i = 1 THEN 1 ELSE i + 1
             new(k) == IF k = 1 THEN 1 ELSE k - 1
  <1>1. \A i \in 1..(n - 1) : old(i) \in 1..n /\ t[i].what = s[old(i)].what
                              /\ (IsEdge(t[i]) <=> IsEdge(s[old(i)]))
    BY DEF IsEdge
  <1>2. \A k \in 1..n : k # 2 => new(k) \in 1..(n - 1) /\ old(new(k)) = k
    OBVIOUS
  <1>3. \A i, j \in 1..(n - 1) : i < j => old(i) < old(j)
    OBVIOUS
  <1>4. \A i \in 1..(n - 1), k \in 1..n : k # 2 /\ old(i) < k => i < new(k)
    OBVIOUS
  <1>5. \A j \in 1..(n - 1), k \in 1..n : k # 2 /\ k < old(j) => new(k) < j
    OBVIOUS
  <1> HIDE DEF old, new
  <1>6. Alternates(t, n - 1)
    <2> SUFFICES ASSUME NEW i \in 1..(n - 1), NEW j \in 1..(n - 1), i < j,
                        IsEdge(t[i]), IsEdge(t[j]), t[i].what = t[j].what
                 PROVE  \E k \in (i + 1)..(j - 1) : IsEdge(t[k])
      BY DEF Alternates
    <2>1. PICK k \in (old(i) + 1)..(old(j) - 1) : IsEdge(s[k])
      <3>1. /\ old(i) \in 1..n /\ old(j) \in 1..n /\ old(i) < old(j)
            /\ IsEdge(s[old(i)]) /\ IsEdge(s[old(j)])
            /\ s[old(i)].what = s[old(j)].what
        BY <1>1, <1>3
      <3> QED BY <3>1 DEF Alternates
    <2>2. k \in 1..n /\ k # 2 /\ old(i) < k /\ k < old(j)
      BY <1>1, <2>1
    <2>3. i < new(k) /\ new(k) < j /\ new(k) \in 1..(n - 1) /\ IsEdge(t[new(k)])
      BY <1>1, <1>2, <1>4, <1>5, <2>1, <2>2
    <2> QED BY <2>3
  <1>7. EndsWith(t, n - 1, last)
    <2> SUFFICES ASSUME NEW i \in 1..(n - 1), IsEdge(t[i]), t[i].what # last
                 PROVE  \E k \in (i + 1)..(n - 1) : IsEdge(t[k])
      BY DEF EndsWith
    <2>1. PICK k \in (old(i) + 1)..n : IsEdge(s[k])
      BY <1>1 DEF EndsWith
    <2>2. k \in 1..n /\ k # 2 /\ old(i) < k
      BY <1>1, <2>1
    <2>3. i < new(k) /\ new(k) \in 1..(n - 1) /\ IsEdge(t[new(k)])
      BY <1>1, <1>2, <1>4, <2>1, <2>2
    <2> QED BY <2>3
  <1> QED BY <1>6, <1>7

-----------------------------------------------------------------------------
(* The calls of the user's callbacks.                                      *)

BothEdges ==
    ~dropped /\ ~changed /\ m_pressCallbacks[1] # None /\ m_releaseCallbacks[1] # None

\* The call that the machine's last change of state has queued.
LastEdge ==
    IF m_states = "STATE_PRESSED" /\ at["isr"] \in {"idle", "visit"} THEN "fast" ELSE "release"

AlternateInv ==
    BothEdges => Alternates(Line, Len(Line)) /\ EndsWith(Line, Len(Line), LastEdge)

(* The elements of a sequence with one put before it.                      *)
LEMMA Prepend ==
    ASSUME NEW S, NEW x \in S, NEW s \in Seq(S)
    PROVE  /\ Len(<<x>> \o s) = Len(s) + 1 /\ (<<x>> \o s)[1] = x
           /\ \A i \in 1..Len(s) : (<<x>> \o s)[i + 1] = s[i]
  OBVIOUS

(* The line of calls: the last one, and what is queued.                    *)
LEMMA LineIs ==
    ASSUME QueueOK
    PROVE  /\ Len(Line) = Len(commands) + 1 /\ Line[1] = lastCall
           /\ \A i \in 1..Len(commands) : Line[i + 1] = commands[i]
           /\ \A i \in 2..Len(Line) : Line[i] = commands[i - 1] /\ i - 1 \in 1..Len(commands)
           /\ Len(commands) \in Nat
  <1> DEFINE S == Commands \cup {lastCall}
  <1>1. commands \in Seq(S) /\ lastCall \in S
    BY DEF QueueOK
  <1> HIDE DEF S
  <1>2. /\ Len(Line) = Len(commands) + 1 /\ Line[1] = lastCall
        /\ \A i \in 1..Len(commands) : Line[i + 1] = commands[i]
    BY <1>1, Prepend DEF Line
  <1>3. Len(commands) \in Nat
    BY DEF QueueOK
  <1>5. ASSUME NEW i \in 2..Len(Line)
        PROVE  Line[i] = commands[i - 1] /\ i - 1 \in 1..Len(commands)
    <2>1. i - 1 \in 1..Len(commands) /\ (i - 1) + 1 = i
      BY <1>2, <1>3
    <2> QED BY <1>2, <2>1
  <1> QED BY <1>2, <1>3, <1>5

(* No callbacks are registered before the constructor.                     *)
LEMMA InitAlternate == Init => AlternateInv
  BY DEF Init, AlternateInv, BothEdges

\* As long as nothing was queued there is nothing to prove.
LEMMA QuietAlternate == Types /\ QuietInv /\ ~used => AlternateInv
  <1> SUFFICES ASSUME Types, QuietInv, ~used PROVE AlternateInv
    OBVIOUS
  <1>1. Len(Line) = 1 /\ Line[1] = NoCall
    <2>1. QueueOK /\ Len(commands) = 0 /\ lastCall = NoCall
      BY DEF Types, QuietInv
    <2> QED BY <2>1, LineIs
  <1>2. \A i \in 1..Len(Line) : ~IsEdge(Line[i])
    BY <1>1 DEF IsEdge, NoCall
  <1> QED BY <1>2 DEF AlternateInv, Alternates, EndsWith

\* What the line becomes if commands are queued that hold no edge, or one.
LEMMA LineGrows ==
    ASSUME QueueOK, QueueOK', lastCall' = lastCall,
           NEW n \in Nat, Len(commands') = Len(commands) + n,
           \A i \in 1..Len(commands) : commands'[i].what = commands[i].what
    PROVE  /\ Len(Line) \in Nat /\ Len(Line') = Len(Line) + n
           /\ \A i \in 1..Len(Line) : Line'[i].what = Line[i].what
           /\ \A i \in 1..n : Line'[Len(Line) + i] = commands'[Len(commands) + i]
  <1>1. /\ Len(Line) = Len(commands) + 1 /\ Line[1] = lastCall
        /\ \A i \in 2..Len(Line) : Line[i] = commands[i - 1] /\ i - 1 \in 1..Len(commands)
        /\ Len(commands) \in Nat
    BY LineIs
  <1>2. /\ Len(Line') = Len(commands') + 1 /\ Line'[1] = lastCall'
        /\ \A i \in 1..Len(commands') : Line'[i + 1] = commands'[i]
        /\ \A i \in 2..Len(Line') :
               Line'[i] = commands'[i - 1] /\ i - 1 \in 1..Len(commands')
    <2>1. (QueueOK =>
            /\ Len(Line) = Len(commands) + 1 /\ Line[1] = lastCall
            /\ \A i \in 1..Len(commands) : Line[i + 1] = commands[i]
            /\ \A i \in 2..Len(Line) :
                   Line[i] = commands[i - 1] /\ i - 1 \in 1..Len(commands))'
      BY LineIs, PTL
    <2> QED BY <2>1
  <1>3. ASSUME NEW i \in 1..Len(Line) PROVE Line'[i].what = Line[i].what
    <2>1. CASE i = 1
      BY <1>1, <1>2, <2>1
    <2>2. CASE i \in 2..Len(Line)
      <3>1. Line[i] = commands[i - 1] /\ i - 1 \in 1..Len(commands)
        BY <1>1, <2>2
      <3>2. i \in 2..Len(Line')
        BY <1>1, <1>2, <2>2
      <3>3. Line'[i] = commands'[i - 1]
        BY <1>2, <3>2
      <3> QED BY <3>1, <3>3
    <2> QED BY <1>1, <2>1, <2>2
  <1>4. ASSUME NEW i \in 1..n PROVE Line'[Len(Line) + i] = commands'[Len(commands) + i]
    <2>1. Len(commands) + i \in 1..Len(commands') /\ Len(Line) + i = Len(commands) + i + 1
      BY <1>1
    <2> QED BY <1>2, <2>1
  <1> QED BY <1>1, <1>2, <1>3, <1>4

\* Commands are queued that hold no edge.
LEMMA NoEdgeQueued ==
    ASSUME QueueOK, QueueOK', AlternateInv, BothEdges' => BothEdges,
           UNCHANGED lastCall, LastEdge' = LastEdge,
           NEW n \in Nat, Len(commands') = Len(commands) + n,
           \A i \in 1..Len(commands) : commands'[i].what = commands[i].what,
           \A i \in 1..n : ~IsEdge(commands'[Len(commands) + i])
    PROVE  AlternateInv'
  <1> SUFFICES ASSUME BothEdges'
               PROVE  /\ Alternates(Line', Len(Line'))
                      /\ EndsWith(Line', Len(Line'), LastEdge')
    BY DEF AlternateInv
  <1>1. /\ Len(Line) \in Nat /\ Len(Line') = Len(Line) + n
        /\ \A i \in 1..Len(Line) : Line'[i].what = Line[i].what
        /\ \A i \in 1..n : Line'[Len(Line) + i] = commands'[Len(commands) + i]
    BY LineGrows
  <1>2. Alternates(Line, Len(Line)) /\ EndsWith(Line, Len(Line), LastEdge)
    BY DEF AlternateInv
  <1>3. ASSUME NEW i \in (Len(Line) + 1)..Len(Line') PROVE ~IsEdge(Line'[i])
    <2>1. i - Len(Line) \in 1..n /\ Len(Line) + (i - Len(Line)) = i
      BY <1>1
    <2>2. Line'[i] = commands'[Len(commands) + (i - Len(Line))]
      BY <1>1, <2>1
    <2> QED BY <2>1, <2>2
  <1>4. Len(Line') \in Nat /\ Len(Line) <= Len(Line')
    BY <1>1
  <1> QED BY <1>1, <1>2, <1>3, <1>4, AlternatesNone

\* Commands are queued with one edge, which is not of the kind of the last one.
LEMMA EdgeQueued ==
    ASSUME QueueOK, QueueOK', AlternateInv, BothEdges' => BothEdges,
           UNCHANGED lastCall,
           NEW n \in Nat, Len(commands') = Len(commands) + n,
           \A i \in 1..Len(commands) : commands'[i].what = commands[i].what,
           NEW one \in 1..n, IsEdge(commands'[Len(commands) + one]),
           commands'[Len(commands) + one].what = LastEdge', LastEdge' # LastEdge,
           \A i \in 1..n : i # one => ~IsEdge(commands'[Len(commands) + i])
    PROVE  AlternateInv'
  <1> SUFFICES ASSUME BothEdges'
               PROVE  /\ Alternates(Line', Len(Line'))
                      /\ EndsWith(Line', Len(Line'), LastEdge')
    BY DEF AlternateInv
  <1>1. /\ Len(Line) \in Nat /\ Len(Line') = Len(Line) + n
        /\ \A i \in 1..Len(Line) : Line'[i].what = Line[i].what
        /\ \A i \in 1..n : Line'[Len(Line) + i] = commands'[Len(commands) + i]
    BY LineGrows
  <1>2. Alternates(Line, Len(Line)) /\ EndsWith(Line, Len(Line), LastEdge)
    BY DEF AlternateInv
  <1> DEFINE k == Len(Line) + one
  <1>3. /\ k \in (Len(Line) + 1)..Len(Line') /\ IsEdge(Line'[k])
        /\ Line'[k].what = LastEdge'
    BY <1>1
  <1>4. ASSUME NEW i \in (Len(Line) + 1)..Len(Line'), i # k PROVE ~IsEdge(Line'[i])
    <2>1. /\ i - Len(Line) \in 1..n /\ Len(Line) + (i - Len(Line)) = i
          /\ i - Len(Line) # one
      BY <1>1, <1>4
    <2>2. Line'[i] = commands'[Len(commands) + (i - Len(Line))]
      BY <1>1, <2>1
    <2> QED BY <2>1, <2>2
  <1>5. Len(Line') \in Nat /\ Len(Line) < Len(Line')
    BY <1>1
  <1> HIDE DEF k
  <1>6. Alternates(Line', Len(Line')) /\ EndsWith(Line', Len(Line'), Line'[k].what)
    BY <1>1, <1>2, <1>3, <1>4, <1>5, AlternatesOne
  <1> QED BY <1>3, <1>6

\* The daemon takes a command from the queue.
LEMMA CommandTaken ==
    ASSUME QueueOK, QueueOK', AlternateInv, ProcessCommand
    PROVE  AlternateInv'
  <1>1. /\ commands # <<>> /\ commands' = Tail(commands) /\ commands[1] \in Commands
        /\ lastCall' = IF commands[1].what \in {"fast", "timed", "release"}
                       THEN [what |-> commands[1].what, time |-> commands[1].time]
                       ELSE lastCall
    BY Processed
  <1>2. /\ Len(commands) \in Nat \ {0} /\ Len(commands') = Len(commands) - 1
        /\ \A i \in 1..Len(commands') : i + 1 \in 1..Len(commands)
        /\ \A i \in 1..Len(commands') : commands'[i] = commands[i + 1]
    BY <1>1, TailQueue DEF QueueOK
  <1>3. LastEdge' = LastEdge /\ (BothEdges' => BothEdges)
    BY DEF ProcessCommand, LastEdge, BothEdges, fsmVars, lists
  <1>4. /\ Len(Line) = Len(commands) + 1 /\ Line[1] = lastCall
        /\ \A i \in 1..Len(commands) : Line[i + 1] = commands[i]
    BY LineIs
  <1>5. /\ Len(Line') = Len(commands') + 1 /\ Line'[1] = lastCall'
        /\ \A i \in 2..Len(Line') :
               Line'[i] = commands'[i - 1] /\ i - 1 \in 1..Len(commands')
    <2>1. (QueueOK =>
            /\ Len(Line) = Len(commands) + 1 /\ Line[1] = lastCall
            /\ \A i \in 2..Len(Line) :
                   Line[i] = commands[i - 1] /\ i - 1 \in 1..Len(commands))'
      BY LineIs, PTL
    <2> QED BY <2>1
  <1>6. /\ Len(Line') = Len(Line) - 1
        /\ \A i \in 2..(Len(Line) - 1) : Line'[i] = Line[i + 1]
    <2>1. Len(Line') = Len(Line) - 1
      BY <1>2, <1>4, <1>5
    <2>2. ASSUME NEW i \in 2..Len(Line') PROVE Line'[i] = Line[i + 1]
      <3>1. Line'[i] = commands'[i - 1] /\ i - 1 \in 1..Len(commands')
        BY <1>5
      <3>2. commands'[i - 1] = commands[i] /\ i \in 1..Len(commands)
        <4>1. (i - 1) + 1 = i
          OBVIOUS
        <4> QED BY <1>2, <3>1, <4>1
      <3> QED BY <1>4, <3>1, <3>2
    <2> QED BY <2>1, <2>2
  <1>7. Line[2] = commands[1] /\ Len(Line) \in Nat /\ Len(Line) >= 2
    BY <1>2, <1>4
  <1> SUFFICES ASSUME BothEdges'
               PROVE  /\ Alternates(Line', Len(Line'))
                      /\ EndsWith(Line', Len(Line'), LastEdge')
    BY DEF AlternateInv
  <1>8. Alternates(Line, Len(Line)) /\ EndsWith(Line, Len(Line), LastEdge)
    BY <1>3 DEF AlternateInv
  <1>9. CASE commands[1].what \in {"fast", "timed", "release"}
    <2>1. Line'[1].what = Line[2].what
      BY <1>1, <1>5, <1>7, <1>9
    <2>2. \A i \in 1..(Len(Line) - 1) : Line'[i].what = Line[i + 1].what
      BY <1>6, <1>7, <2>1
    <2>3. Len(Line) \in Nat \ {0}
      BY <1>7
    <2>4. /\ Alternates(Line', Len(Line) - 1)
          /\ EndsWith(Line', Len(Line) - 1, LastEdge)
      BY <1>8, <2>2, <2>3, AlternatesTail
    <2> QED BY <1>3, <1>6, <2>4
  <1>10. CASE commands[1].what \notin {"fast", "timed", "release"}
    <2>1. Line'[1].what = Line[1].what
      BY <1>1, <1>4, <1>5, <1>10
    <2>2. ~IsEdge(Line[2])
      BY <1>7, <1>10 DEF IsEdge
    <2>3. \A i \in 2..(Len(Line) - 1) : Line'[i].what = Line[i + 1].what
      BY <1>6
    <2> QED BY <1>3, <1>6, <1>7, <1>8, <2>1, <2>2, <2>3, AlternatesWithout
  <1> QED BY <1>9, <1>10

(* A sequence of one element.                                              *)
LEMMA OneElement ==
    ASSUME NEW S, NEW x \in S
    PROVE  <<x>> \in Seq(S) /\ Len(<<x>>) = 1 /\ <<x>>[1] = x
  OBVIOUS

\* A release sends a stop, and a call if one is due.
LEMMA ReleaseSends ==
    ASSUME ListsOK
    PROVE  /\ Len(<<Stop>> \o ReleaseCall) \in 1..2
           /\ (<<Stop>> \o ReleaseCall)[1].what = "stop"
           /\ Len(<<Stop>> \o ReleaseCall) = 2 =>
                  (<<Stop>> \o ReleaseCall)[2].what = "release"
           /\ m_releaseCallbacks[1] # None => Len(<<Stop>> \o ReleaseCall) = 2
  <1>1. CASE ReleaseCall = <<>>
    <2>1. Stop.what = "stop" /\ m_releaseCallbacks[1] = None
      BY <1>1, ReleaseCallIs DEF Stop
    <2> HIDE DEF Stop
    <2>2. <<Stop>> \o <<>> = <<Stop>>
      OBVIOUS
    <2> QED BY <1>1, <2>1, <2>2
  <1>2. CASE ReleaseCall # <<>>
    <2>1. PICK time \in Times : ReleaseCall = <<Call("release", time)>>
      BY <1>2, ReleaseCallIs
    <2> DEFINE q == <<Stop>> \o ReleaseCall
               c == Call("release", time)
               S == {Stop, c}
    <2>2. Stop.what = "stop" /\ c.what = "release"
      BY DEF Stop, Call
    <2>3. ReleaseCall = <<c>> /\ Stop \in S /\ c \in S
      BY <2>1
    <2> HIDE DEF c, S
    <2>4. ReleaseCall \in Seq(S) /\ Len(ReleaseCall) = 1 /\ ReleaseCall[1] = c
      BY <2>3, OneElement
    <2>5. Len(q) = Len(ReleaseCall) + 1 /\ q[1] = Stop /\ q[1 + 1] = ReleaseCall[1]
      BY <2>3, <2>4, Prepend
    <2> HIDE DEF q
    <2>6. Len(q) = 2 /\ q[1] = Stop /\ q[2] = c
      BY <2>4, <2>5
    <2> QED BY <2>2, <2>6 DEF q
  <1> QED BY <1>1, <1>2

\* What the sent commands are, one by one.
LEMMA SentEdges ==
    ASSUME ListsOK
    PROVE  /\ \A k \in Nat : \A i \in 1..Len(Arm(k)) : ~IsEdge(Arm(k)[i])
           /\ \A k \in Nat \ {0} : \A i \in 1..Len(PressCall(k)) : ~IsEdge(PressCall(k)[i])
           /\ m_releaseCallbacks[1] # None =>
                /\ Len(<<Stop>> \o ReleaseCall) = 2
                /\ (<<Stop>> \o ReleaseCall)[1].what = "stop"
                /\ (<<Stop>> \o ReleaseCall)[2].what = "release"
           /\ m_pressCallbacks[1] # None =>
                /\ Len(PressCall(0) \o Arm(1)) \in Nat \ {0}
                /\ (PressCall(0) \o Arm(1))[1].what = "fast"
                /\ \A i \in 2..Len(PressCall(0) \o Arm(1)) :
                       ~IsEdge((PressCall(0) \o Arm(1))[i])
  <1>1. ASSUME NEW k \in Nat, NEW i \in 1..Len(Arm(k)) PROVE ~IsEdge(Arm(k)[i])
    <2>1. CASE Arm(k) = <<>>
      BY <2>1
    <2>2. CASE Arm(k) # <<>>
      <3>1. PICK time \in 1..MaxTime : Arm(k) = Restart(time)
        BY <2>2, ArmIs
      <3>2. /\ Len(Arm(k)) = 2 /\ Arm(k)[1].what = "change" /\ Arm(k)[2].what = "start"
        BY <3>1 DEF Restart
      <3>3. i = 1 \/ i = 2
        BY <3>2
      <3> QED BY <3>2, <3>3 DEF IsEdge
    <2> QED BY <2>1, <2>2
  <1>2. ASSUME NEW k \in Nat \ {0}, NEW i \in 1..Len(PressCall(k))
        PROVE  ~IsEdge(PressCall(k)[i])
    <2>1. CASE PressCall(k) = <<>>
      BY <2>1
    <2>2. CASE PressCall(k) # <<>>
      <3>1. PressCall(k) = <<Call("timed", m_pressCallbacks[k + 1])>>
        BY <2>2, PressCallIs
      <3> QED BY <3>1 DEF Call, IsEdge
    <2> QED BY <2>1, <2>2
  <1>3. ASSUME m_releaseCallbacks[1] # None
        PROVE  /\ Len(<<Stop>> \o ReleaseCall) = 2
               /\ (<<Stop>> \o ReleaseCall)[1].what = "stop"
               /\ (<<Stop>> \o ReleaseCall)[2].what = "release"
    BY <1>3, ReleaseSends
  <1>4. ASSUME m_pressCallbacks[1] # None
        PROVE  /\ Len(PressCall(0) \o Arm(1)) \in Nat \ {0}
               /\ (PressCall(0) \o Arm(1))[1].what = "fast"
               /\ \A i \in 2..Len(PressCall(0) \o Arm(1)) :
                      ~IsEdge((PressCall(0) \o Arm(1))[i])
    <2> DEFINE c == Call("fast", m_pressCallbacks[1])
               q == <<c>> \o Arm(1)
    <2>1. PressCall(0) = <<c>>
      BY <1>4 DEF PressCall
    <2>2. Arm(1) \in Seq(Commands \cup {c})
      BY CommandTypes
    <2>3. c.what = "fast"
      BY DEF Call
    <2> HIDE DEF c
    <2>4. /\ Len(q) = Len(Arm(1)) + 1 /\ q[1] = c
          /\ \A i \in 1..Len(Arm(1)) : q[i + 1] = Arm(1)[i]
      BY <2>2, Prepend
    <2> HIDE DEF q
    <2>5. ASSUME NEW i \in 2..Len(q) PROVE ~IsEdge(q[i])
      <3>1. i - 1 \in 1..Len(Arm(1)) /\ (i - 1) + 1 = i
        BY <2>2, <2>4
      <3>2. q[i] = Arm(1)[i - 1]
        BY <2>4, <3>1
      <3> QED BY <1>1, <3>1, <3>2
    <2>6. PressCall(0) \o Arm(1) = q
      BY <2>1 DEF q
    <2>7. Len(q) \in Nat \ {0}
      BY <2>2, <2>4
    <2> QED BY <2>3, <2>4, <2>5, <2>6, <2>7
  <1> QED BY <1>1, <1>2, <1>3, <1>4

\* Commands are sent that hold no edge.
LEMMA SentNoEdge ==
    ASSUME QueueOK, QueueOK', AlternateInv, NEW cs \in Seq(Commands), Send(cs),
           UNCHANGED <<changed, m_pressCallbacks, m_releaseCallbacks, lastCall>>,
           dropped \in BOOLEAN,
           LastEdge' = LastEdge, \A i \in 1..Len(cs) : ~IsEdge(cs[i])
    PROVE  AlternateInv'
  <1>1. PICK n \in 0..Len(cs) :
               /\ Len(commands') = Len(commands) + n
               /\ \A i \in 1..Len(commands) : commands'[i] = commands[i]
               /\ \A i \in 1..n : commands'[Len(commands) + i] = cs[i]
               /\ dropped' = (dropped \/ n # Len(cs))
    BY SendQueues DEF QueueOK
  <1>2. n \in Nat /\ \A i \in 1..n : i \in 1..Len(cs)
    OBVIOUS
  <1>3. BothEdges' => BothEdges
    BY <1>1 DEF BothEdges
  <1> QED BY <1>1, <1>2, <1>3, NoEdgeQueued

\* Commands are sent with one edge.
LEMMA SentEdge ==
    ASSUME QueueOK, QueueOK', AlternateInv, NEW cs \in Seq(Commands), Send(cs),
           UNCHANGED <<changed, m_pressCallbacks, m_releaseCallbacks, lastCall>>,
           dropped \in BOOLEAN,
           NEW one \in 1..Len(cs), IsEdge(cs[one]), cs[one].what = LastEdge',
           LastEdge' # LastEdge, \A i \in 1..Len(cs) : i # one => ~IsEdge(cs[i])
    PROVE  AlternateInv'
  <1>1. PICK n \in 0..Len(cs) :
               /\ Len(commands') = Len(commands) + n
               /\ \A i \in 1..Len(commands) : commands'[i] = commands[i]
               /\ \A i \in 1..n : commands'[Len(commands) + i] = cs[i]
               /\ dropped' = (dropped \/ n # Len(cs))
    BY SendQueues DEF QueueOK
  <1>2. BothEdges' => BothEdges
    BY <1>1 DEF BothEdges
  <1>3. CASE n = Len(cs)
    <2>1. n \in Nat /\ one \in 1..n
      BY <1>3
    <2>2. commands'[Len(commands) + one] = cs[one]
      BY <1>1, <2>1
    <2>3. \A i \in 1..n : i # one => ~IsEdge(commands'[Len(commands) + i])
      BY <1>1, <1>3
    <2>4. \A i \in 1..Len(commands) : commands'[i].what = commands[i].what
      BY <1>1
    <2> QED BY <1>1, <1>2, <2>1, <2>2, <2>3, <2>4, EdgeQueued
  <1>4. CASE n # Len(cs)
    BY <1>1, <1>4 DEF AlternateInv, BothEdges
  <1> QED BY <1>3, <1>4

\* A step that leaves the line as it is.
LEMMA SameLine ==
    ASSUME QueueOK, QueueOK', AlternateInv, BothEdges' => BothEdges,
           UNCHANGED lastCall, LastEdge' = LastEdge, Len(commands') = Len(commands),
           \A i \in 1..Len(commands) : commands'[i].what = commands[i].what
    PROVE  AlternateInv'
  <1>1. Len(commands') = Len(commands) + 0 /\ 0 \in Nat
    BY DEF QueueOK
  <1>2. \A i \in 1..0 : ~IsEdge(commands'[Len(commands) + i])
    OBVIOUS
  <1> QED BY <1>1, <1>2, NoEdgeQueued

(* Every step keeps the line alternating: the interrupt handler queues the *)
(* call of an edge after that of the edge before, the daemon takes them in *)
(* order.                                                                  *)
LEMMA NextAlternate ==
    ASSUME Types, HandlerInv, QuietInv, TimeoutsInv, Types', QuietInv',
           AlternateInv, Steps
    PROVE  AlternateInv'
  <1>1. /\ CallersInv /\ IsrOperands /\ DaemonOperands /\ QueueOK /\ QueueOK' /\ ListsOK
        /\ dropped \in BOOLEAN /\ m_timeouts \in Nat
        /\ m_states \in States
        /\ at \in [Callers -> {"before", "flag", "visit", "commit", "entry", "idle",
                               "asserted"}]
        /\ \A c \in Callers : at[c] = "visit" => m_events \in Events
        /\ isr \in {"in", "out"}
    BY DEF Types, FsmOK, MembersOK, HandlerInv, Fsm!TypeOK
  <1>2. ~used' => AlternateInv'
    <2>1. (Types /\ QuietInv /\ ~used => AlternateInv)'
      BY QuietAlternate, PTL
    <2> QED BY <2>1
  <1> USE DEF Callers
  <1>3. ASSUME UNCHANGED <<lists, lastCall, commands, dropped, changed>>, LastEdge' = LastEdge
        PROVE  AlternateInv'
    <2>1. BothEdges' => BothEdges
      BY <1>3 DEF BothEdges, lists
    <2>2. commands' = commands /\ lastCall' = lastCall
      BY <1>3
    <2> QED BY <1>1, <1>3, <2>1, <2>2, SameLine
  <1>4. ASSUME UNCHANGED <<m_states, at>> PROVE LastEdge' = LastEdge
    BY <1>4 DEF LastEdge
  <1>5. CASE UNCHANGED vars
    <2>1. UNCHANGED <<m_states, at, lists, lastCall, commands, dropped, changed>>
      BY <1>5 DEF vars, fsmVars, history
    <2> QED BY <1>3, <1>4, <2>1
  <1>6. CASE Construct
    <2>1. ~used'
      BY <1>6
      DEF Construct, CtorState, CtorInterrupt, CtorStart, CtorRegister, QuietInv, history
    <2> QED BY <1>2, <2>1
  <1>7. CASE IsrEdge
    <2>1. /\ at["isr"] = "idle" /\ at' = [at EXCEPT !["isr"] = "visit"]
          /\ UNCHANGED <<m_states, lists, lastCall, commands, dropped, changed>>
      BY <1>7 DEF IsrEdge, Fsm!Dispatch, Fsm!Move
    <2>2. LastEdge' = LastEdge
      BY <1>1, <2>1 DEF LastEdge
    <2> QED BY <1>3, <2>1, <2>2
  <1>8. CASE IsrEnd
    BY <1>3, <1>4, <1>8 DEF IsrEnd, fsmVars, history
  <1>9. CASE Visit("isr")
    <2>1. /\ at["isr"] = "visit" /\ UNCHANGED <<m_states, m_events, lists, lastCall, changed>>
          /\ m_events \in {Press, Release}
      BY <1>1, <1>9
      DEF Visit, Fsm!Visit, Fsm!Move, history, lists, IsrOperands, CallersInv
    <2>2. PICK r \in States \cup {NoChange} :
            /\ r \in OnEvent[<<m_states, m_events>>]
            /\ at' = [at EXCEPT !["isr"] = IF r = NoChange THEN "idle" ELSE "commit"]
      BY <1>9 DEF Visit, Fsm!Visit, Fsm!Move
    <2>3. CASE m_states = "STATE_PRESSED" /\ m_events = Release
      <3>1. LastEdge = "fast" /\ LastEdge' = "release"
        BY <1>1, <2>1, <2>2, <2>3, OnEventIs, ButtonConstants DEF LastEdge, States
      <3>2. Send(<<Stop>> \o ReleaseCall)
        BY <1>9, <2>1, <2>3 DEF Visit, Visiting, Release, Event
      <3>3. CASE m_releaseCallbacks[1] = None
        BY <2>1, <3>3 DEF AlternateInv, BothEdges, lists
      <3>4. CASE m_releaseCallbacks[1] # None
        <4> DEFINE cs == <<Stop>> \o ReleaseCall
        <4>1. Len(cs) = 2 /\ cs[1].what = "stop" /\ cs[2].what = "release"
          BY <1>1, <3>4, SentEdges
        <4>2. cs \in Seq(Commands)
          BY <1>1, CommandTypes
        <4> HIDE DEF cs
        <4>3. /\ 2 \in 1..Len(cs) /\ IsEdge(cs[2]) /\ cs[2].what = LastEdge'
              /\ \A i \in 1..Len(cs) : i # 2 => ~IsEdge(cs[i])
          BY <3>1, <4>1 DEF IsEdge
        <4>4. Send(cs)
          BY <3>2 DEF cs
        <4>5. UNCHANGED <<changed, m_pressCallbacks, m_releaseCallbacks, lastCall>>
          BY <2>1 DEF lists
        <4> QED BY <1>1, <3>1, <4>2, <4>3, <4>4, <4>5, SentEdge
      <3> QED BY <3>3, <3>4
    <2>4. CASE ~(m_states = "STATE_PRESSED" /\ m_events = Release)
      <3>1. Send(<<>>)
        BY <1>1, <1>9, <2>1, <2>4 DEF Visit, Visiting, Press, Release, Event
      <3>2. UNCHANGED <<commands, dropped>>
        BY <1>1, <3>1, SendNothing
      <3>3. LastEdge' = LastEdge
        BY <1>1, <2>1, <2>2, <2>4, OnEventIs, ButtonConstants DEF LastEdge, States
      <3> QED BY <1>3, <2>1, <3>2, <3>3
    <2> QED BY <2>3, <2>4
  <1>10. CASE Commit("isr")
    <2>1. /\ at["isr"] = "commit" /\ at' = [at EXCEPT !["isr"] = "entry"]
          /\ UNCHANGED <<lists, lastCall, commands, dropped, changed>>
      BY <1>10 DEF Commit, Fsm!Commit, Fsm!Move, history
    <2>2. LastEdge' = LastEdge
      BY <1>1, <2>1 DEF LastEdge
    <2> QED BY <1>3, <2>1, <2>2
  <1>11. CASE isr = "out" /\ Visit("daemon")
    <2>1. /\ at["daemon"] = "visit" /\ at["isr"] = "idle" /\ at'["isr"] = "idle"
          /\ UNCHANGED <<m_states, lists, lastCall, changed>>
      BY <1>1, <1>11 DEF Visit, Fsm!Visit, Fsm!Move, history, lists, CallersInv
    <2>2. ~Visiting("daemon", "STATE_PRESSED", "EVENT_RELEASE")
      <3> SUFFICES ASSUME Visiting("daemon", "STATE_PRESSED", "EVENT_RELEASE") PROVE FALSE
        OBVIOUS
      <3>1. m_states = "STATE_PRESSED" /\ m_events.name = "EVENT_RELEASE"
        BY DEF Visiting
      <3>2. m_events = Release
        BY <1>1, <2>1, <3>1 DEF Events, Event, Release
      <3>3. OnEvent[<<m_states, m_events>>] = {NoChange}
        BY <1>1, <1>11, <2>1 DEF DaemonOperands, Ignored
      <3> QED BY <3>1, <3>2, <3>3, OnEventIs, ButtonConstants DEF States
    <2>3. Send(<<>>)
      BY <1>11, <2>2 DEF Visit
    <2>4. UNCHANGED <<commands, dropped>>
      BY <1>1, <2>3, SendNothing
    <2>5. LastEdge' = LastEdge
      BY <2>1 DEF LastEdge
    <2> QED BY <1>3, <2>1, <2>4, <2>5
  <1>12. CASE Commit("daemon")
    BY <1>1, <1>12 DEF Commit, Fsm!Commit, Fsm!Move, CallersInv
  <1>13. ASSUME NEW c \in Callers, OnEntry(c) PROVE AlternateInv'
    <2>1. /\ at[c] = "entry" /\ at' = [at EXCEPT ![c] = "idle"]
          /\ UNCHANGED <<m_states, lists, lastCall, changed, used>>
      BY <1>13 DEF OnEntry, Fsm!OnEntry, Fsm!Move, history
    <2>2. CASE c = "user"
      <3>1. ~used'
        BY <1>1, <2>1, <2>2 DEF CallersInv, QuietInv
      <3> QED BY <1>2, <3>1
    <2>3. CASE c = "daemon"
      BY <1>1, <2>1, <2>3 DEF CallersInv
    <2>4. CASE c = "isr" /\ m_states = "STATE_PRESSED"
      <3>1. LastEdge = "release" /\ LastEdge' = "fast"
        BY <1>1, <2>1, <2>4 DEF LastEdge
      <3>2. Send(PressCall(0) \o Arm(1))
        BY <1>13, <2>4 DEF OnEntry
      <3>3. CASE m_pressCallbacks[1] = None
        BY <2>1, <3>3 DEF AlternateInv, BothEdges, lists
      <3>4. CASE m_pressCallbacks[1] # None
        <4> DEFINE cs == PressCall(0) \o Arm(1)
        <4>1. /\ Len(cs) \in Nat \ {0} /\ cs[1].what = "fast"
              /\ \A i \in 2..Len(cs) : ~IsEdge(cs[i])
          BY <1>1, <3>4, SentEdges
        <4>2. cs \in Seq(Commands)
          BY <1>1, CommandTypes
        <4> HIDE DEF cs
        <4>3. /\ 1 \in 1..Len(cs) /\ IsEdge(cs[1]) /\ cs[1].what = LastEdge'
              /\ \A i \in 1..Len(cs) : i # 1 => ~IsEdge(cs[i])
          BY <3>1, <4>1 DEF IsEdge
        <4>4. Send(cs)
          BY <3>2 DEF cs
        <4>5. UNCHANGED <<changed, m_pressCallbacks, m_releaseCallbacks, lastCall>>
          BY <2>1 DEF lists
        <4> QED BY <1>1, <3>1, <4>2, <4>3, <4>4, <4>5, SentEdge
      <3> QED BY <3>3, <3>4
    <2>5. CASE c = "isr" /\ m_states # "STATE_PRESSED"
      <3>1. UNCHANGED <<commands, dropped>>
        BY <1>13, <2>5 DEF OnEntry
      <3>2. LastEdge' = LastEdge
        BY <2>1, <2>5 DEF LastEdge
      <3> QED BY <1>3, <2>1, <3>1, <3>2
    <2> QED BY <2>2, <2>3, <2>4, <2>5
  <1>14. CASE ProcessCommand
    BY <1>1, <1>14, CommandTaken
  <1>15. CASE Expire
    <2>1. /\ at' = [at EXCEPT !["daemon"] = "visit"]
          /\ UNCHANGED <<m_states, lists, lastCall, commands, dropped, changed>>
      BY <1>15 DEF Expire, Fsm!Dispatch, Fsm!Move, history
    <2>2. LastEdge' = LastEdge
      BY <1>1, <2>1 DEF LastEdge
    <2> QED BY <1>3, <2>1, <2>2
  <1>16. CASE TimerVisit \/ TimerBump
    <2>1. UNCHANGED <<m_states, at, lists, lastCall, commands, dropped, changed>>
      BY <1>16 DEF TimerVisit, TimerBump, fsmVars, history
    <2> QED BY <1>3, <1>4, <2>1
  <1>17. CASE isr = "out" /\ TimerPend
    <2>1. /\ UNCHANGED <<m_states, at, lists, lastCall, changed>> /\ handler = "pend"
          /\ Send(PressCall(m_timeouts))
      BY <1>17 DEF TimerPend, TimerHandler, fsmVars, history
    <2>2. at["isr"] = "idle" /\ at["daemon"] = "visit"
      BY <1>1, <1>17, <2>1 DEF CallersInv
    <2>3. at["user"] = "idle"
      BY <1>1, <2>2 DEF CallersInv, QuietInv
    <2>4. m_timeouts \in Nat \ {0}
      BY <1>1, <2>1, <2>2, <2>3 DEF TimeoutsInv
    <2>5. /\ PressCall(m_timeouts) \in Seq(Commands)
          /\ \A i \in 1..Len(PressCall(m_timeouts)) : ~IsEdge(PressCall(m_timeouts)[i])
      BY <1>1, <2>4, CommandTypes, SentEdges
    <2>6. LastEdge' = LastEdge
      BY <1>4, <2>1
    <2>7. UNCHANGED <<changed, m_pressCallbacks, m_releaseCallbacks, lastCall>>
      BY <2>1 DEF lists
    <2> QED BY <1>1, <2>1, <2>5, <2>6, <2>7, SentNoEdge
  <1>18. CASE isr = "out" /\ TimerArm
    <2>1. /\ UNCHANGED <<m_states, lists, lastCall, changed>> /\ Send(Arm(m_timeouts))
          /\ at' = [at EXCEPT !["daemon"] = "idle"]
      BY <1>18 DEF TimerArm, Fsm!Move, history
    <2>2. /\ Arm(m_timeouts) \in Seq(Commands)
          /\ \A i \in 1..Len(Arm(m_timeouts)) : ~IsEdge(Arm(m_timeouts)[i])
      BY <1>1, CommandTypes, SentEdges
    <2>3. LastEdge' = LastEdge
      BY <1>1, <2>1 DEF LastEdge
    <2>4. UNCHANGED <<changed, m_pressCallbacks, m_releaseCallbacks, lastCall>>
      BY <2>1 DEF lists
    <2> QED BY <1>1, <2>1, <2>2, <2>3, <2>4, SentNoEdge
  <1>19. ASSUME NEW time \in Times, Register(time) PROVE AlternateInv'
    <2>1. changed' = used /\ used' = used
      BY <1>19 DEF Register
    <2>2. CASE used
      BY <2>1, <2>2 DEF AlternateInv, BothEdges
    <2> QED BY <1>2, <2>1, <2>2
  <1>20. CASE Tick
    <2>1. Len(commands') = Len(commands)
      BY <1>1, <1>20, TickTypes
    <2>2. /\ UNCHANGED <<m_states, at, lists, lastCall, dropped, changed>>
          /\ commands' = [i \in DOMAIN commands |->
                IF commands[i].what = "start"
                THEN [what |-> "start", age |-> Older(commands[i].age)] ELSE commands[i]]
      BY <1>20 DEF Tick, fsmVars
    <2>3. DOMAIN commands = 1..Len(commands)
      BY <1>1 DEF QueueOK
    <2>4. \A i \in 1..Len(commands) : commands'[i].what = commands[i].what
      BY <2>2, <2>3
    <2>5. BothEdges' => BothEdges
      BY <2>2 DEF BothEdges, lists
    <2>6. LastEdge' = LastEdge
      BY <1>4, <2>2
    <2> QED BY <1>1, <2>1, <2>2, <2>4, <2>5, <2>6, SameLine
  <1>21. CASE Pin
    <2>1. UNCHANGED <<m_states, at, lists, lastCall, commands, dropped, changed>>
      BY <1>21 DEF Pin, fsmVars, history
    <2> QED BY <1>3, <1>4, <2>1
  <1> QED
    BY <1>5, <1>6, <1>7, <1>8, <1>9, <1>10, <1>11, <1>12, <1>13, <1>14, <1>15, <1>16,
       <1>17, <1>18, <1>19, <1>20, <1>21
    DEF Steps

\* What holds of the callers and of what they have queued.
QueuesInv == Types /\ HandlerInv /\ QuietInv /\ TimeoutsInv

(* These hold always.                                                      *)
LEMMA QueuesInvariant == Spec => []QueuesInv
  <1>1. QueuesInv /\ [Next]_vars => QueuesInv'
    BY NextSteps, NextTypes, NextHandler, NextQuiet, NextTimeouts DEF QueuesInv
  <1>2. Init => QueuesInv
    BY InitTypes, InitHandler, InitQuiet DEF QueuesInv
  <1> QED BY <1>1, <1>2, PTL DEF Spec

\* The daemon runs the callbacks of presses and of releases in turns.
THEOREM EdgesAlternate == Spec => []CallbacksAlternate
  <1>1. QueuesInv /\ QueuesInv' /\ AlternateInv /\ [Next]_vars => AlternateInv'
    BY NextSteps, NextAlternate DEF QueuesInv
  <1>2. AlternateInv => CallbacksAlternate
    BY DEF AlternateInv, CallbacksAlternate, BothEdges, Alternates, Edge, IsEdge
  <1> QED BY <1>1, <1>2, InitAlternate, QueuesInvariant, PTL DEF Spec

-----------------------------------------------------------------------------
(* As long as the daemon keeps up, the timer and the time the button has   *)
(* been held add up to the time of the next callback.                      *)

Due(rest) ==
    /\ m_states = "STATE_PRESSED" /\ m_timeouts \in Timeouts
    /\ Time(m_pressCallbacks, m_timeouts) # 0
    /\ held + rest = Time(m_pressCallbacks, m_timeouts)

\* Nothing disturbs the handler of EVENT_TIMER.
HandlerDue ==
    /\ at["daemon"] = "visit" =>
        /\ timer = -1 /\ isr = "out"
        /\ \A i \in 1..Len(commands) : commands[i].what = "timed"
    /\ at["daemon"] = "visit" /\ handler \in {"none", "pend"} => Due(0) /\ commands = <<>>
    /\ at["daemon"] = "visit" /\ handler = "none" => m_events = TimerEvent
    /\ handler = "bump" => Due(0)
    /\ handler = "arm" =>
        /\ m_states = "STATE_PRESSED" /\ m_timeouts - 1 \in Timeouts
        /\ held = Time(m_pressCallbacks, m_timeouts - 1)

\* The timer only runs for the callback that is due, or is about to be stopped.
TimerDue ==
    /\ timer >= 0 => \/ Due(timer) /\ at["isr"] \in {"idle", "visit"}
                     \/ commands # <<>> /\ commands[1].what = "stop"
    /\ timer = 0 => isr = "out" /\ commands = <<>>
    /\ at["isr"] = "visit" => commands = <<>>
    /\ at["isr"] = "commit" /\ newState["isr"] = "STATE_PRESSED" =>
           timer = -1 /\ commands = <<>>
    /\ at["isr"] = "entry" /\ m_states = "STATE_PRESSED" => timer = -1 /\ commands = <<>>

\* A stop is the first of what is queued, a new period is for the callback
\* that is due, and a start that follows one repeats it.
QueueDue ==
    \A i \in 1..Len(commands) :
        /\ commands[i].what = "stop" => i = 1
        /\ commands[i].what = "change" => Due(commands[i].period) /\ at["isr"] = "idle"
        /\ commands[i].what = "start" =>
               /\ commands[i].age = 0
               /\ i = 1 => timer = period /\ timer >= 1
               /\ i > 1 => commands[i - 1].what = "change"

CallsDue ==
    \A i \in 1..Len(commands) :
        commands[i].what = "timed" => commands[i].held = commands[i].time

AllDue == HandlerDue /\ TimerDue /\ QueueDue /\ CallsDue

DueInv == late = 0 /\ ~changed => AllDue

(* Nothing is due before the constructor,                                  *)
LEMMA InitDue == Init => DueInv
  BY DEF Init, Fsm!Init, Callers, DueInv, AllDue, HandlerDue, TimerDue, QueueDue, CallsDue

(* nor before the first edge.                                              *)
LEMMA QuietDue == QueuesInv /\ ~used => AllDue
  <1> SUFFICES ASSUME QueuesInv, ~used PROVE AllDue
    OBVIOUS
  <1>1. /\ isr = "out" /\ at["daemon"] = "idle" /\ commands = <<>> /\ timer = -1
        /\ at["isr"] = "idle" /\ handler = "none"
    BY DEF QueuesInv, QuietInv, HandlerInv, CallersInv
  <1> QED BY <1>1 DEF AllDue, HandlerDue, TimerDue, QueueDue, CallsDue

\* What stays due.
LEMMA SameDue ==
    ASSUME AllDue,
           UNCHANGED <<m_states, m_events, at, newState, m_timeouts, held, m_pressCallbacks,
                       handler, isr, timer, period, commands>>
    PROVE  AllDue'
  BY DEF AllDue, HandlerDue, TimerDue, QueueDue, CallsDue, Due

\* An edge that finds the daemon with nothing left to do.
LEMMA EdgeDue ==
    ASSUME QueuesInv, AllDue, IsrEdge, DaemonIdle
    PROVE  AllDue'
  <1>1. /\ at["daemon"] = "idle" /\ commands = <<>> /\ timer # 0
        /\ handler = "none" /\ at["isr"] = "idle"
        /\ at \in [Callers -> {"before", "flag", "visit", "commit", "entry", "idle",
                               "asserted"}]
    BY DEF QueuesInv, Types, FsmOK, HandlerInv, CallersInv, DaemonIdle, IsrEdge, Fsm!TypeOK
  <1>2. /\ at' = [at EXCEPT !["isr"] = "visit"]
        /\ UNCHANGED <<m_states, newState, m_timeouts, held, m_pressCallbacks, handler,
                       timer, period, commands>>
    BY DEF IsrEdge, Fsm!Dispatch, Fsm!Move, lists, timerVars
  <1>3. at'["isr"] = "visit" /\ at'["daemon"] = "idle"
    BY <1>1, <1>2 DEF Callers
  <1> QED
    BY <1>1, <1>2, <1>3 DEF AllDue, HandlerDue, TimerDue, QueueDue, CallsDue, Due

\* The interrupt handler finds the daemon idle.
LEMMA IsrAlone ==
    ASSUME QueuesInv, AllDue, isr = "in"
    PROVE  at["daemon"] = "idle" /\ handler = "none" /\ timer # 0
  BY DEF QueuesInv, HandlerInv, CallersInv, AllDue, HandlerDue, TimerDue

(* The handler of a release stops the timer.                               *)
LEMMA VisitDue ==
    ASSUME QueuesInv, AllDue, Visit("isr")
    PROVE  AllDue'
  <1>1. /\ at["isr"] = "visit" /\ isr = "in" /\ commands = <<>>
        /\ m_events \in {Press, Release} /\ m_states \in States
        /\ at \in [Callers -> {"before", "flag", "visit", "commit", "entry", "idle",
                               "asserted"}]
        /\ newState \in [Callers -> States \cup {NoChange}]
        /\ QueueOK /\ ListsOK /\ dropped \in BOOLEAN
    BY DEF QueuesInv, Types, FsmOK, MembersOK, HandlerInv, CallersInv, IsrOperands, Visit,
           Fsm!Visit, Fsm!Move, Fsm!TypeOK, AllDue, TimerDue
  <1>2. at["daemon"] = "idle" /\ handler = "none" /\ timer # 0
    BY <1>1, IsrAlone
  <1>3. UNCHANGED <<m_states, m_timeouts, held, m_pressCallbacks, handler, isr, timer,
                    period>>
    BY DEF Visit, Fsm!Visit, edgeVars, timerVars, lists
  <1>4. PICK r \in States \cup {NoChange} :
          /\ r \in OnEvent[<<m_states, m_events>>]
          /\ at' = [at EXCEPT !["isr"] = IF r = NoChange THEN "idle" ELSE "commit"]
          /\ newState' = [newState EXCEPT !["isr"] = r]
    BY DEF Visit, Fsm!Visit, Fsm!Move
  <1>5. /\ at'["daemon"] = "idle" /\ newState'["isr"] = r
        /\ at'["isr"] = IF r = NoChange THEN "idle" ELSE "commit"
    BY <1>1, <1>2, <1>4 DEF Callers
  <1>6. timer >= 0 => Due(timer)
    BY <1>1 DEF AllDue, TimerDue
  <1>7. timer \in Int
    BY <1>1, TimesBelow DEF QueueOK
  <1>8. CASE m_states = "STATE_PRESSED" /\ m_events = Release
    <2>1. r = "STATE_IDLE"
      BY <1>4, <1>8, OnEventIs
    <2> DEFINE cs == <<Stop>> \o ReleaseCall
    <2>2. Send(cs)
      BY <1>1, <1>8 DEF Visit, Visiting, Release, Event
    <2>3. cs \in Seq(Commands)
      BY <1>1, CommandTypes
    <2>4. /\ Len(cs) \in 1..2 /\ cs[1].what = "stop"
          /\ Len(cs) = 2 => cs[2].what = "release"
      BY <1>1, ReleaseSends
    <2> HIDE DEF cs
    <2>5. PICK n \in 0..Len(cs) :
            /\ Len(commands') = Len(commands) + n
            /\ \A i \in 1..n : commands'[Len(commands) + i] = cs[i]
            /\ n = Len(cs) \/ Len(commands') = TimerQueueLength
      BY <1>1, <2>2, <2>3, SendQueues DEF QueueOK
    <2>6. Len(commands) = 0
      BY <1>1
    <2>7. n \in 1..2 /\ Len(commands') = n
      BY <2>4, <2>5, <2>6, ButtonConstants
    <2>8. \A i \in 1..n : commands'[i] = cs[i]
      BY <2>5, <2>6
    <2>9. commands'[1].what = "stop" /\ (n = 2 => commands'[2].what = "release")
      BY <2>4, <2>5, <2>7, <2>8
    <2>10. commands' # <<>>
      BY <2>7
    <2>11. \A i \in 1..Len(commands') : i = 1 \/ (i = 2 /\ n = 2)
      BY <2>7
    <2>12. HandlerDue' /\ TimerDue'
      BY <1>2, <1>3, <1>5, <1>7, <2>1, <2>9, <2>10, ButtonConstants
      DEF HandlerDue, TimerDue, States
    <2>13. QueueDue' /\ CallsDue'
      BY <2>9, <2>11 DEF QueueDue, CallsDue
    <2> QED BY <2>12, <2>13 DEF AllDue
  <1>9. CASE ~(m_states = "STATE_PRESSED" /\ m_events = Release)
    <2>1. Send(<<>>)
      BY <1>1, <1>9 DEF Visit, Visiting, Press, Release, Event
    <2>2. commands' = <<>>
      BY <1>1, <2>1, SendNothing
    <2>3. \/ m_states = "STATE_IDLE" /\ r \in {"STATE_PRESSED", NoChange}
          \/ m_states = "STATE_PRESSED" /\ r = NoChange
      BY <1>1, <1>4, <1>9, OnEventIs DEF States
    <2>4. HandlerDue'
      BY <1>2, <1>3, <1>5 DEF HandlerDue
    <2>5. QueueDue' /\ CallsDue'
      BY <2>2 DEF QueueDue, CallsDue
    <2>6. CASE m_states = "STATE_IDLE"
      <3>1. timer < 0
        BY <1>6, <1>7, <2>6 DEF Due
      <3>2. timer = -1
        BY <1>1, <3>1, TimesBelow DEF QueueOK
      <3> QED BY <1>3, <1>5, <2>2, <2>4, <2>5, <2>6, <3>2 DEF AllDue, TimerDue
    <2>7. CASE m_states = "STATE_PRESSED"
      <3>1. at'["isr"] = "idle"
        BY <1>5, <2>3, <2>7
      <3>2. TimerDue'
        BY <1>2, <1>3, <1>6, <3>1 DEF TimerDue, Due
      <3> QED BY <2>4, <2>5, <3>2 DEF AllDue
    <2> QED BY <1>1, <2>6, <2>7 DEF States
  <1> QED BY <1>8, <1>9

(* The new state: what is still due is about to be stopped.                *)
LEMMA CommitDue ==
    ASSUME QueuesInv, AllDue, Commit("isr")
    PROVE  AllDue'
  <1>1. /\ at["isr"] = "commit" /\ isr = "in" /\ (Pressing \/ Releasing)
        /\ at \in [Callers -> {"before", "flag", "visit", "commit", "entry", "idle",
                               "asserted"}]
    BY DEF QueuesInv, Types, FsmOK, MembersOK, HandlerInv, CallersInv, IsrOperands, Commit,
           Fsm!Commit, Fsm!Move, Fsm!TypeOK
  <1>2. at["daemon"] = "idle" /\ handler = "none" /\ timer # 0
    BY <1>1, IsrAlone
  <1>3. /\ at' = [at EXCEPT !["isr"] = "entry"] /\ m_states' = newState["isr"]
        /\ UNCHANGED <<held, m_pressCallbacks, handler, isr, timer, period, commands>>
    BY DEF Commit, Fsm!Commit, Fsm!Move, edgeVars, timerVars, lists
  <1>4. at'["isr"] = "entry" /\ at'["daemon"] = "idle"
    BY <1>1, <1>2, <1>3 DEF Callers
  <1>5. HandlerDue' /\ CallsDue'
    BY <1>2, <1>3, <1>4 DEF AllDue, HandlerDue, CallsDue
  <1>6. \A i \in 1..Len(commands) : commands[i].what # "change"
    BY <1>1 DEF AllDue, QueueDue
  <1>7. QueueDue'
    BY <1>3, <1>6 DEF AllDue, QueueDue
  <1>8. timer >= 0 => commands # <<>> /\ commands[1].what = "stop"
    BY <1>1 DEF AllDue, TimerDue
  <1>9. m_states' = "STATE_PRESSED" => timer = -1 /\ commands = <<>>
    BY <1>1, <1>3 DEF AllDue, TimerDue
  <1>10. TimerDue'
    BY <1>2, <1>3, <1>4, <1>8, <1>9 DEF TimerDue
  <1> QED BY <1>5, <1>7, <1>10 DEF AllDue

\* What a press sends: its call, and the timer's period and start.
LEMMA PressSends ==
    ASSUME ListsOK, NEW i \in 1..Len(PressCall(0) \o Arm(1))
    PROVE  LET cs == PressCall(0) \o Arm(1)
           IN  \/ cs[i].what = "fast"
               \/ /\ cs[i].what = "change" /\ Time(m_pressCallbacks, 1) # 0
                  /\ cs[i].period = Time(m_pressCallbacks, 1)
               \/ /\ cs[i].what = "start" /\ cs[i].age = 0
                  /\ i > 1 /\ cs[i - 1].what = "change"
  <1> DEFINE p == PressCall(0)
             a == Arm(1)
             q == p \o a
  <1>1. p \in Seq(Commands) /\ a \in Seq(Commands)
    BY CommandTypes
  <1>2. Len(p) \in 0..1 /\ (Len(p) = 1 => p[1].what = "fast")
    BY PressCallIs DEF Call
  <1>3. \/ a = <<>>
        \/ /\ Len(a) = 2 /\ a[1].what = "change" /\ a[2].what = "start" /\ a[2].age = 0
           /\ Time(m_pressCallbacks, 1) # 0
           /\ a[1].period = Time(m_pressCallbacks, 1)
    <2>1. CASE a = <<>>
      BY <2>1
    <2>2. CASE a # <<>>
      <3>1. PICK time \in 1..MaxTime :
              /\ a = Restart(time) /\ Time(m_pressCallbacks, 1) # 0
              /\ time = Time(m_pressCallbacks, 1) - Time(m_pressCallbacks, 1 - 1)
        BY <2>2, ArmIs
      <3>2. Time(m_pressCallbacks, 0) = 0
        BY ButtonConstants DEF ListsOK, InOrder, Time
      <3>3. Time(m_pressCallbacks, 1) \in Nat
        BY TimeOf DEF ListsOK
      <3>4. time = Time(m_pressCallbacks, 1)
        BY <3>1, <3>2, <3>3
      <3> HIDE DEF a
      <3> QED BY <3>1, <3>4 DEF Restart
    <2> QED BY <2>1, <2>2
  <1> HIDE DEF p, a
  <1>4. /\ Len(q) = Len(p) + Len(a)
        /\ \A j \in 1..Len(p) : q[j] = p[j]
        /\ \A j \in 1..Len(a) : q[Len(p) + j] = a[j]
    BY <1>1, Concat
  <1>5. i \in 1..Len(q)
    BY DEF p, a
  <1> HIDE DEF q
  <1>6. CASE i \in 1..Len(p)
    <2>1. q[i].what = "fast"
      BY <1>2, <1>4, <1>6
    <2> QED BY <2>1 DEF q, p, a
  <1>7. CASE i \notin 1..Len(p)
    <2>1. /\ Len(a) = 2 /\ (i = Len(p) + 1 \/ i = Len(p) + 2)
      BY <1>1, <1>2, <1>3, <1>4, <1>5, <1>7
    <2>2. /\ q[Len(p) + 1] = a[1] /\ q[Len(p) + 2] = a[2]
          /\ a # <<>>
      BY <1>4, <2>1
    <2>3. CASE i = Len(p) + 1
      <3>1. /\ q[i].what = "change" /\ Time(m_pressCallbacks, 1) # 0
            /\ q[i].period = Time(m_pressCallbacks, 1)
        BY <1>3, <2>2, <2>3
      <3> QED BY <3>1 DEF q, p, a
    <2>4. CASE i = Len(p) + 2
      <3>1. i > 1 /\ i - 1 = Len(p) + 1
        BY <1>2, <2>4
      <3>2. /\ q[i].what = "start" /\ q[i].age = 0 /\ i > 1
            /\ q[i - 1].what = "change"
        BY <1>3, <2>2, <2>4, <3>1
      <3> QED BY <3>2 DEF q, p, a
    <2> QED BY <2>1, <2>3, <2>4
  <1> QED BY <1>6, <1>7

(* The handler of a press arms the timer for the first time that is due.   *)
LEMMA EntryDue ==
    ASSUME QueuesInv, AllDue, OnEntry("isr")
    PROVE  AllDue'
  <1>1. /\ at["isr"] = "entry" /\ isr = "in"
        /\ at \in [Callers -> {"before", "flag", "visit", "commit", "entry", "idle",
                               "asserted"}]
        /\ QueueOK /\ ListsOK
    BY DEF QueuesInv, Types, FsmOK, MembersOK, HandlerInv, CallersInv, OnEntry, Fsm!OnEntry,
           Fsm!Move, Fsm!TypeOK
  <1>2. at["daemon"] = "idle" /\ handler = "none" /\ timer # 0
    BY <1>1, IsrAlone
  <1>3. /\ at' = [at EXCEPT !["isr"] = "idle"]
        /\ UNCHANGED <<m_states, m_pressCallbacks, handler, isr, timer, period>>
    BY DEF OnEntry, Fsm!OnEntry, Fsm!Move, edgeVars, timerVars, lists
  <1>4. at'["isr"] = "idle" /\ at'["daemon"] = "idle"
    BY <1>1, <1>2, <1>3 DEF Callers
  <1>5. HandlerDue'
    BY <1>2, <1>3, <1>4 DEF HandlerDue
  <1>6. CASE m_states = "STATE_PRESSED"
    <2> DEFINE cs == PressCall(0) \o Arm(1)
    <2>1. timer = -1 /\ Len(commands) = 0
      BY <1>1, <1>6 DEF AllDue, TimerDue
    <2>2. Send(cs) /\ held' = 0 /\ m_timeouts' = 1
      BY <1>6 DEF OnEntry
    <2>3. cs \in Seq(Commands)
      BY <1>1, CommandTypes
    <2>4. \A i \in 1..Len(cs) :
             \/ cs[i].what = "fast"
             \/ /\ cs[i].what = "change" /\ Time(m_pressCallbacks, 1) # 0
                /\ cs[i].period = Time(m_pressCallbacks, 1)
             \/ /\ cs[i].what = "start" /\ cs[i].age = 0
                /\ i > 1 /\ cs[i - 1].what = "change"
      BY <1>1, PressSends
    <2>5. Time(m_pressCallbacks, 1) \in Nat
      BY <1>1, TimeOf DEF ListsOK
    <2> HIDE DEF cs
    <2>6. PICK n \in 0..Len(cs) :
            /\ Len(commands') = Len(commands) + n
            /\ \A i \in 1..n : commands'[Len(commands) + i] = cs[i]
      BY <1>1, <2>2, <2>3, SendQueues DEF QueueOK
    <2>7. Len(commands') = n /\ (\A i \in 1..n : commands'[i] = cs[i])
      BY <2>1, <2>6
    <2>8. TimerDue'
      BY <1>3, <1>4, <2>1 DEF TimerDue
    <2>9. ASSUME NEW i \in 1..Len(commands')
          PROVE  \/ commands'[i].what = "fast"
                 \/ /\ commands'[i].what = "change" /\ Time(m_pressCallbacks, 1) # 0
                    /\ commands'[i].period = Time(m_pressCallbacks, 1)
                 \/ /\ commands'[i].what = "start" /\ commands'[i].age = 0
                    /\ i > 1 /\ commands'[i - 1].what = "change"
      <3>1. i \in 1..Len(cs) /\ commands'[i] = cs[i]
        BY <2>7
      <3>2. i > 1 => commands'[i - 1] = cs[i - 1]
        BY <2>7
      <3> QED BY <2>4, <3>1, <3>2
    <2>10. QueueDue'
      <3> SUFFICES ASSUME NEW i \in 1..Len(commands')
                   PROVE  /\ commands'[i].what = "stop" => i = 1
                          /\ commands'[i].what = "change" =>
                                 Due(commands[i].period)' /\ at'["isr"] = "idle"
                          /\ commands'[i].what = "start" =>
                                 /\ commands'[i].age = 0
                                 /\ i = 1 => timer' = period' /\ timer' >= 1
                                 /\ i > 1 => commands'[i - 1].what = "change"
        BY DEF QueueDue
      <3>1. commands'[i].what = "change" => Due(commands[i].period)'
        BY <1>3, <1>6, <2>2, <2>5, <2>9 DEF Due, Timeouts
      <3> QED BY <1>4, <2>9, <3>1
    <2>11. CallsDue'
      BY <2>9 DEF CallsDue
    <2> QED BY <1>5, <2>8, <2>10, <2>11 DEF AllDue
  <1>7. CASE m_states # "STATE_PRESSED"
    <2>1. commands' = commands
      BY <1>7 DEF OnEntry
    <2>2. \A i \in 1..Len(commands) : commands[i].what # "change"
      BY <1>1 DEF AllDue, QueueDue
    <2>3. QueueDue' /\ CallsDue'
      BY <1>3, <2>1, <2>2 DEF AllDue, QueueDue, CallsDue
    <2>4. timer >= 0 => commands # <<>> /\ commands[1].what = "stop"
      BY <1>1 DEF AllDue, TimerDue
    <2>5. TimerDue'
      BY <1>2, <1>3, <1>4, <2>1, <2>4 DEF TimerDue
    <2> QED BY <1>5, <2>3, <2>5 DEF AllDue
  <1> QED BY <1>6, <1>7

\* The daemon's commands.
LEMMA ProcessDue ==
    ASSUME QueuesInv, AllDue, isr = "out", ProcessCommand
    PROVE  AllDue'
  <1>1. QueueOK /\ at["isr"] = "idle" /\ at["daemon"] = "idle" /\ handler = "none"
    BY DEF QueuesInv, Types, HandlerInv, CallersInv, ProcessCommand
  <1>2. /\ commands # <<>> /\ commands' = Tail(commands)
        /\ commands[1] \in Commands
        /\ commands[1].what = "stop" => timer' = -1
        /\ commands[1].what = "change" => timer' = commands[1].period
        /\ commands[1].what = "start" => timer' = Remaining(commands[1])
        /\ commands[1].what \in {"fast", "timed", "release"} => timer' = timer
        /\ period' = IF commands[1].what = "change" THEN commands[1].period ELSE period
    BY <1>1, Processed
  <1>3. /\ Len(commands) \in Nat \ {0} /\ Len(commands') = Len(commands) - 1
        /\ \A i \in 1..Len(commands') : i + 1 \in 1..Len(commands)
        /\ \A i \in 1..Len(commands') : commands'[i] = commands[i + 1]
    BY <1>1, <1>2, TailQueue DEF QueueOK
  <1>4. UNCHANGED <<at, isr, handler, m_states, newState, m_timeouts, held,
                    m_pressCallbacks>>
    BY DEF ProcessCommand, fsmVars, edgeVars, lists
  <1>5. HandlerDue'
    BY <1>1, <1>4 DEF HandlerDue
  <1>6. CallsDue'
    BY <1>3 DEF AllDue, CallsDue
  <1>7. 1 \in 1..Len(commands)
    BY <1>3
  <1>8. /\ \A i \in 1..Len(commands') : commands'[i].what # "stop"
        /\ \A i \in 1..Len(commands') :
               commands'[i].what = "change" => Due(commands[i].period)'
        /\ \A i \in 1..Len(commands') :
               commands'[i].what = "start" =>
                   /\ commands'[i].age = 0
                   /\ i = 1 => commands[1].what = "change"
                   /\ i > 1 => commands'[i - 1].what = "change"
    <2> SUFFICES ASSUME NEW i \in 1..Len(commands')
                 PROVE  /\ commands'[i].what # "stop"
                        /\ commands'[i].what = "change" => Due(commands[i].period)'
                        /\ commands'[i].what = "start" =>
                               /\ commands'[i].age = 0
                               /\ i = 1 => commands[1].what = "change"
                               /\ i > 1 => commands'[i - 1].what = "change"
      OBVIOUS
    <2>1. i \in Nat \ {0} /\ i + 1 \in 1..Len(commands) /\ commands'[i] = commands[i + 1]
      BY <1>3
    <2>2. /\ commands[i + 1].what = "stop" => i + 1 = 1
          /\ commands[i + 1].what = "change" => Due(commands[i + 1].period)
          /\ commands[i + 1].what = "start" =>
                 commands[i + 1].age = 0 /\ commands[(i + 1) - 1].what = "change"
      BY <2>1 DEF AllDue, QueueDue
    <2>3. (i + 1) - 1 = i
      BY <2>1
    <2>4. i > 1 => commands'[i - 1] = commands[i]
      <3>1. i > 1 => i - 1 \in 1..Len(commands') /\ (i - 1) + 1 = i
        BY <1>3
      <3> QED BY <1>3, <3>1
    <2>5. commands'[i].what = "change" => Due(commands[i].period)'
      <3>1. commands'[i].what = "change" => Due(commands'[i].period)
        BY <2>1, <2>2
      <3> QED BY <1>4, <3>1 DEF Due
    <2> QED BY <2>1, <2>2, <2>3, <2>4, <2>5
  <1>9. CASE commands[1].what = "change"
    <2>1. commands[1].period \in 1..MaxTime
      BY <1>2, <1>9, CommandIs
    <2>2. Due(commands[1].period)
      BY <1>7, <1>9 DEF AllDue, QueueDue
    <2>3. timer' = commands[1].period /\ period' = timer' /\ timer' >= 1
      BY <1>2, <1>9, <2>1
    <2>4. Due(timer)'
      BY <1>4, <2>2, <2>3 DEF Due
    <2>5. TimerDue'
      BY <1>1, <1>4, <2>1, <2>3, <2>4, TimesBelow DEF TimerDue
    <2>6. QueueDue'
      BY <1>1, <1>4, <1>8, <2>3 DEF QueueDue
    <2> QED BY <1>5, <1>6, <2>5, <2>6 DEF AllDue
  <1>10. CASE commands[1].what # "change"
    <2>1. QueueDue'
      BY <1>1, <1>4, <1>8, <1>10 DEF QueueDue
    <2>2. timer' = -1 \/ (timer' = timer /\ commands[1].what # "stop")
      <3>1. CASE commands[1].what = "start"
        <4>1. commands[1].age = 0 /\ timer = period
          BY <1>7, <3>1 DEF AllDue, QueueDue
        <4>2. Remaining(commands[1]) = period
          BY <1>1, <1>2, <3>1, <4>1, RemainingIs
        <4> QED BY <1>2, <3>1, <4>1, <4>2
      <3> QED BY <1>2, <1>10, <3>1, CommandIs
    <2>3. TimerDue'
      <3>1. CASE timer' = -1
        BY <1>1, <1>4, <3>1 DEF TimerDue
      <3>2. CASE timer' = timer /\ commands[1].what # "stop"
        <4>1. timer >= 0 => Due(timer)
          BY <3>2 DEF AllDue, TimerDue
        <4>2. timer # 0
          BY <1>2 DEF AllDue, TimerDue
        <4>3. timer' >= 0 => Due(timer)'
          BY <1>4, <3>2, <4>1 DEF Due
        <4> QED BY <1>1, <1>4, <3>2, <4>2, <4>3 DEF TimerDue
      <3> QED BY <2>2, <3>1, <3>2
    <2> QED BY <1>5, <1>6, <2>1, <2>3 DEF AllDue
  <1> QED BY <1>9, <1>10

(* The timer expires when the time that is due has come.                   *)
LEMMA ExpireDue ==
    ASSUME QueuesInv, AllDue, isr = "out", Expire
    PROVE  AllDue'
  <1>1. /\ QueueOK /\ at["isr"] = "idle" /\ at["daemon"] = "idle" /\ handler = "none"
        /\ at \in [Callers -> {"before", "flag", "visit", "commit", "entry", "idle",
                               "asserted"}]
    BY DEF QueuesInv, Types, FsmOK, HandlerInv, CallersInv, Expire, Fsm!Dispatch, Fsm!Move,
           Fsm!TypeOK
  <1>2. /\ timer = 0 /\ timer' = -1 /\ m_events' = TimerEvent
        /\ at' = [at EXCEPT !["daemon"] = "visit"]
        /\ UNCHANGED <<m_states, newState, m_timeouts, held, m_pressCallbacks, handler, isr,
                       commands>>
    BY DEF Expire, Fsm!Dispatch, Fsm!Move, TimerEvent, edgeVars, lists
  <1>3. at'["isr"] = "idle"
    BY <1>1, <1>2 DEF Callers
  <1>4. commands = <<>> /\ Due(0)
    BY <1>2 DEF AllDue, TimerDue
  <1>5. commands' = <<>> /\ Due(0)'
    BY <1>2, <1>4 DEF Due
  <1>6. HandlerDue'
    BY <1>1, <1>2, <1>5 DEF HandlerDue
  <1>7. TimerDue'
    BY <1>2, <1>3 DEF TimerDue
  <1>8. QueueDue' /\ CallsDue'
    BY <1>5 DEF QueueDue, CallsDue
  <1> QED BY <1>6, <1>7, <1>8 DEF AllDue

\* The daemon in the handler of EVENT_TIMER.
LEMMA HandlerAlone ==
    ASSUME QueuesInv, AllDue, at["daemon"] = "visit"
    PROVE  /\ timer = -1 /\ isr = "out" /\ at["isr"] = "idle"
           /\ m_states = "STATE_PRESSED"
           /\ handler = "none" => m_events = TimerEvent
           /\ \A i \in 1..Len(commands) : commands[i].what = "timed"
  <1>1. handler \in {"none", "pend", "bump", "arm"}
    BY DEF QueuesInv, Types, MembersOK
  <1> QED
    BY <1>1 DEF QueuesInv, HandlerInv, CallersInv, AllDue, HandlerDue, Due

(* The handler of a timeout has the callback run that is due,              *)
LEMMA PendDue ==
    ASSUME QueuesInv, AllDue, TimerPend
    PROVE  AllDue'
  <1>1. handler = "pend" /\ handler' = "bump" /\ at["daemon"] = "visit"
    BY DEF QueuesInv, HandlerInv, CallersInv, TimerPend, TimerHandler
  <1>2. timer = -1 /\ isr = "out" /\ at["isr"] = "idle" /\ m_states = "STATE_PRESSED"
    BY <1>1, HandlerAlone
  <1>3. UNCHANGED <<at, isr, timer, period, m_states, newState, m_timeouts, held,
                    m_pressCallbacks>>
    BY DEF TimerPend, fsmVars, edgeVars, timerVars, lists
  <1>4. Due(0) /\ commands = <<>>
    BY <1>1 DEF AllDue, HandlerDue
  <1>5. QueueOK /\ ListsOK
    BY DEF QueuesInv, Types
  <1> DEFINE cs == PressCall(m_timeouts)
             due == m_pressCallbacks[m_timeouts + 1]
  <1>6. m_timeouts \in 1..2 /\ held = due /\ due # None
    <2>1. m_timeouts \in 1..2 /\ m_timeouts \in 0..2
      BY <1>4 DEF Due, Timeouts
    <2>2. held + 0 = Time(m_pressCallbacks, m_timeouts) /\ held \in Nat
      BY <1>4, <1>5, TimesBelow DEF Due, ListsOK
    <2>3. Time(m_pressCallbacks, m_timeouts) # 0
      BY <1>4 DEF Due
    <2> QED BY <1>5, <2>1, <2>2, <2>3, TimeOf DEF ListsOK
  <1>7. Len(cs) = 1 /\ cs[1].what = "timed" /\ cs[1].held = cs[1].time
    <2>1. cs = <<Call("timed", due)>>
      BY <1>6 DEF PressCall
    <2> HIDE DEF cs, due
    <2> QED BY <1>6, <2>1 DEF Call
  <1>8. Send(cs) /\ cs \in Seq(Commands)
    BY <1>5, <1>6, CommandTypes DEF TimerPend
  <1> HIDE DEF cs
  <1>9. PICK n \in 0..Len(cs) :
          /\ Len(commands') = Len(commands) + n
          /\ \A i \in 1..n : commands'[Len(commands) + i] = cs[i]
    BY <1>5, <1>8, SendQueues DEF QueueOK
  <1>10. \A i \in 1..Len(commands') : commands'[i] = cs[1]
    <2>1. Len(commands) = 0
      BY <1>4
    <2>2. \A i \in 1..Len(commands') : i = 1 /\ n = 1
      BY <1>7, <1>9, <2>1
    <2> QED BY <1>9, <2>1, <2>2
  <1>11. Due(0)'
    BY <1>3, <1>4 DEF Due
  <1>12. HandlerDue'
    BY <1>1, <1>2, <1>3, <1>7, <1>10, <1>11 DEF HandlerDue
  <1>13. TimerDue'
    BY <1>2, <1>3 DEF TimerDue
  <1>14. QueueDue' /\ CallsDue'
    BY <1>7, <1>10 DEF QueueDue, CallsDue
  <1> QED BY <1>12, <1>13, <1>14 DEF AllDue

(* counts it,                                                              *)
LEMMA BumpDue ==
    ASSUME QueuesInv, AllDue, TimerBump
    PROVE  AllDue'
  <1>1. handler = "bump" /\ handler' = "arm" /\ at["daemon"] = "visit"
    BY DEF QueuesInv, HandlerInv, CallersInv, TimerBump, TimerHandler
  <1>2. /\ timer = -1 /\ isr = "out" /\ at["isr"] = "idle" /\ m_states = "STATE_PRESSED"
        /\ \A i \in 1..Len(commands) : commands[i].what = "timed"
    BY <1>1, HandlerAlone
  <1>3. /\ m_timeouts' = m_timeouts + 1
        /\ UNCHANGED <<at, isr, timer, period, m_states, newState, held, m_pressCallbacks,
                       commands>>
    BY DEF TimerBump, fsmVars, edgeVars, timerVars, lists
  <1>4. Due(0) /\ held \in Nat
    BY <1>1, TimesBelow DEF AllDue, HandlerDue, QueuesInv, Types, ListsOK
  <1>5. /\ m_timeouts' - 1 \in Timeouts
        /\ held' = Time(m_pressCallbacks', m_timeouts' - 1)
    <2>1. m_timeouts' - 1 = m_timeouts /\ m_timeouts \in Timeouts
      BY <1>3, <1>4 DEF Due, Timeouts
    <2>2. held = Time(m_pressCallbacks, m_timeouts)
      BY <1>4 DEF Due
    <2> QED BY <1>3, <2>1, <2>2
  <1>6. HandlerDue'
    BY <1>1, <1>2, <1>3, <1>5 DEF HandlerDue, Time
  <1>7. TimerDue'
    BY <1>2, <1>3 DEF TimerDue
  <1>8. QueueDue' /\ CallsDue'
    BY <1>2, <1>3 DEF AllDue, QueueDue, CallsDue
  <1> QED BY <1>6, <1>7, <1>8 DEF AllDue

(* and arms the timer with the difference to the next.                     *)
LEMMA ArmDue ==
    ASSUME QueuesInv, AllDue, TimerArm
    PROVE  AllDue'
  <1>1. /\ handler = "arm" /\ handler' = "none" /\ at["daemon"] = "visit"
        /\ at \in [Callers -> {"before", "flag", "visit", "commit", "entry", "idle",
                               "asserted"}]
        /\ QueueOK /\ ListsOK
    BY DEF QueuesInv, Types, FsmOK, HandlerInv, CallersInv, TimerArm, TimerHandler,
           Fsm!TypeOK
  <1>2. /\ timer = -1 /\ isr = "out" /\ at["isr"] = "idle" /\ m_states = "STATE_PRESSED"
        /\ \A i \in 1..Len(commands) : commands[i].what = "timed"
    BY <1>1, HandlerAlone
  <1>3. /\ at' = [at EXCEPT !["daemon"] = "idle"]
        /\ UNCHANGED <<isr, timer, period, m_states, newState, m_timeouts, held,
                       m_pressCallbacks>>
    BY DEF TimerArm, Fsm!Move, edgeVars, timerVars, lists
  <1>4. at'["daemon"] = "idle" /\ at'["isr"] = "idle"
    BY <1>1, <1>2, <1>3 DEF Callers
  <1>5. m_timeouts - 1 \in Timeouts /\ held = Time(m_pressCallbacks, m_timeouts - 1)
    BY <1>1 DEF AllDue, HandlerDue
  <1>6. m_timeouts \in Nat
    BY DEF QueuesInv, Types, MembersOK
  <1>7. HandlerDue' /\ TimerDue'
    BY <1>1, <1>2, <1>3, <1>4 DEF HandlerDue, TimerDue
  <1> DEFINE cs == Arm(m_timeouts)
  <1>8. \/ cs = <<>>
        \/ /\ Len(cs) = 2 /\ cs[1].what = "change" /\ Due(cs[1].period)
           /\ cs[2].what = "start" /\ cs[2].age = 0
    <2>1. CASE cs = <<>>
      BY <2>1
    <2>2. CASE cs # <<>>
      <3>1. /\ m_timeouts \in Timeouts /\ Time(m_pressCallbacks, m_timeouts) # 0
            /\ \E time \in 1..MaxTime :
                  /\ cs = Restart(time)
                  /\ time = Time(m_pressCallbacks, m_timeouts)
                              - Time(m_pressCallbacks, m_timeouts - 1)
        BY <1>1, <1>6, <2>2, ArmIs
      <3>2. PICK time \in 1..MaxTime :
              /\ cs = Restart(time)
              /\ time = Time(m_pressCallbacks, m_timeouts)
                          - Time(m_pressCallbacks, m_timeouts - 1)
        BY <3>1
      <3>3. Time(m_pressCallbacks, m_timeouts) \in Nat
        BY <1>1, <3>1, TimeOf DEF ListsOK, Timeouts
      <3>4. held + time = Time(m_pressCallbacks, m_timeouts)
        <4>1. held \in Nat
          BY <1>1, TimesBelow DEF ListsOK
        <4> QED BY <1>5, <3>2, <3>3, <4>1
      <3>5. Due(time)
        BY <1>2, <3>1, <3>4 DEF Due
      <3> HIDE DEF cs, Due
      <3> QED BY <3>2, <3>5 DEF Restart
    <2> QED BY <2>1, <2>2
  <1>9. Send(cs) /\ cs \in Seq(Commands)
    BY <1>1, <1>6, CommandTypes DEF TimerArm
  <1> HIDE DEF cs
  <1>10. PICK n \in 0..Len(cs) :
          /\ Len(commands') = Len(commands) + n
          /\ \A i \in 1..Len(commands) : commands'[i] = commands[i]
          /\ \A i \in 1..n : commands'[Len(commands) + i] = cs[i]
    BY <1>1, <1>9, SendQueues DEF QueueOK
  <1>11. Len(commands) \in Nat
    BY <1>1 DEF QueueOK
  <1>12. ASSUME NEW i \in 1..Len(commands')
         PROVE  \/ i \in 1..Len(commands) /\ commands'[i] = commands[i]
                \/ commands'[i].what = "change" /\ Due(commands'[i].period)
                \/ /\ commands'[i].what = "start" /\ commands'[i].age = 0
                   /\ i > 1 /\ commands'[i - 1].what = "change"
    <2>1. CASE i \in 1..Len(commands)
      BY <1>10, <2>1
    <2>2. CASE i \notin 1..Len(commands)
      <3>1. cs # <<>> /\ (i = Len(commands) + 1 \/ i = Len(commands) + 2)
        <4>1. /\ i \in Nat /\ i > Len(commands) /\ i <= Len(commands) + n
              /\ n \in Nat /\ n <= Len(cs)
          <5>1. Len(cs) \in Nat
            BY <1>9
          <5>2. n \in Nat /\ n <= Len(cs)
            BY <5>1
          <5> QED BY <1>10, <1>11, <2>2, <5>2
        <4>2. CASE cs = <<>>
          <5>1. Len(cs) = 0
            BY <4>2
          <5> QED BY <1>11, <4>1, <5>1
        <4>3. CASE Len(cs) = 2 /\ cs # <<>>
          BY <1>11, <4>1, <4>3
        <4> QED BY <1>8, <4>2, <4>3
      <3>2. CASE i = Len(commands) + 1
        <4>1. 1 \in 1..n
          BY <1>10, <1>11, <3>2
        <4>2. commands'[i] = cs[1]
          BY <1>10, <3>2, <4>1
        <4> QED BY <1>8, <3>1, <4>2
      <3>3. CASE i = Len(commands) + 2
        <4>1. 1 \in 1..n /\ 2 \in 1..n /\ i > 1 /\ i - 1 = Len(commands) + 1
          BY <1>10, <1>11, <3>3
        <4>2. commands'[i] = cs[2] /\ commands'[i - 1] = cs[1]
          BY <1>10, <3>3, <4>1
        <4> QED BY <1>8, <3>1, <4>1, <4>2
      <3> QED BY <3>1, <3>2, <3>3
    <2> QED BY <2>1, <2>2
  <1>13. QueueDue'
    <2> SUFFICES ASSUME NEW i \in 1..Len(commands')
                 PROVE  /\ commands'[i].what = "stop" => i = 1
                        /\ commands'[i].what = "change" =>
                               Due(commands[i].period)' /\ at'["isr"] = "idle"
                        /\ commands'[i].what = "start" =>
                               /\ commands'[i].age = 0
                               /\ i = 1 => timer' = period' /\ timer' >= 1
                               /\ i > 1 => commands'[i - 1].what = "change"
      BY DEF QueueDue
    <2>1. commands'[i].what = "change" => Due(commands[i].period)'
      <3>1. commands'[i].what = "change" => Due(commands'[i].period)
        BY <1>2, <1>12
      <3> QED BY <1>3, <3>1 DEF Due
    <2> QED BY <1>2, <1>4, <1>12, <2>1
  <1>14. CallsDue'
    BY <1>12 DEF AllDue, CallsDue
  <1> QED BY <1>7, <1>13, <1>14 DEF AllDue

\* Time passes while the daemon has nothing left to do.
LEMMA TickDue ==
    ASSUME QueuesInv, AllDue, Tick, DaemonIdle
    PROVE  AllDue'
  <1>1. /\ QueueOK /\ ListsOK /\ isr = "out" /\ at["isr"] = "idle"
        /\ at["daemon"] = "idle" /\ commands = <<>> /\ timer # 0 /\ handler = "none"
    BY DEF QueuesInv, Types, HandlerInv, CallersInv, Tick, DaemonIdle
  <1>2. /\ held' = Older(held)
        /\ UNCHANGED <<at, isr, handler, m_states, newState, m_timeouts, m_pressCallbacks>>
    BY DEF Tick, fsmVars, lists
  <1>3. /\ QueueOK' /\ Len(commands') = Len(commands)
        /\ timer' = IF timer > 0 THEN timer - 1 ELSE timer
    BY <1>1, TickTypes
  <1>4. commands' = <<>>
    <2>1. Len(commands) = 0
      BY <1>1
    <2> QED BY <1>3, <2>1, EmptySequence DEF QueueOK
  <1>5. HandlerDue' /\ QueueDue' /\ CallsDue'
    BY <1>1, <1>2, <1>4 DEF HandlerDue, QueueDue, CallsDue
  <1>6. timer \in Int /\ timer >= -1
    BY <1>1, TimesBelow DEF QueueOK
  <1>7. CASE timer < 0
    <2>1. timer' < 0
      BY <1>3, <1>6, <1>7
    <2>2. ~(timer' >= 0) /\ timer' # 0
      BY <1>3, <1>6, <1>7
    <2> QED BY <1>1, <1>2, <1>5, <2>2 DEF AllDue, TimerDue
  <1>8. CASE timer > 0
    <2>1. Due(timer)
      BY <1>1, <1>6, <1>8 DEF AllDue, TimerDue
    <2>2. /\ m_states = "STATE_PRESSED" /\ m_timeouts \in Timeouts
          /\ Time(m_pressCallbacks, m_timeouts) # 0
          /\ held + timer = Time(m_pressCallbacks, m_timeouts)
      BY <2>1 DEF Due
    <2>3. /\ Time(m_pressCallbacks, m_timeouts) \in Nat
          /\ Time(m_pressCallbacks, m_timeouts) < MaxTime
      BY <1>1, <2>2, TimeOf DEF ListsOK, Timeouts
    <2>4. held \in 0..MaxTime /\ MaxTime \in Nat
      BY <1>1, TimesBelow DEF ListsOK
    <2>5. held < MaxTime
      BY <1>6, <1>8, <2>2, <2>3, <2>4
    <2>6. held' = held + 1 /\ timer' = timer - 1
      BY <1>2, <1>3, <1>8, <2>4, <2>5, OlderIs
    <2>7. held' + timer' = Time(m_pressCallbacks, m_timeouts)
      BY <1>6, <2>2, <2>4, <2>6
    <2>8. Due(timer)'
      BY <1>2, <2>2, <2>7 DEF Due, Time
    <2> QED BY <1>1, <1>2, <1>4, <1>5, <2>8 DEF AllDue, TimerDue
  <1> QED BY <1>1, <1>6, <1>7, <1>8

(* Every step keeps what is due; those after a late edge, a late tick or a *)
(* registration of a used button are excepted.                             *)
LEMMA NextDue ==
    ASSUME QueuesInv, QueuesInv', DueInv, Steps
    PROVE  DueInv'
  <1> SUFFICES ASSUME late' = 0, ~changed' PROVE AllDue'
    BY DEF DueInv
  <1>1. ~used' => AllDue'
    <2>1. (QueuesInv /\ ~used => AllDue)'
      BY QuietDue, PTL
    <2> QED BY <2>1
  <1>2. late \in Nat /\ late' \in Nat
    BY DEF QueuesInv, Types, MembersOK
  <1>3. ASSUME UNCHANGED <<changed, late>> PROVE AllDue
    BY <1>3 DEF DueInv
  <1>4. CallersInv
    BY DEF QueuesInv, HandlerInv
  <1>5. ASSUME Lateness, UNCHANGED changed PROVE AllDue /\ DaemonIdle
    BY <1>2, <1>5 DEF Lateness, DueInv
  <1>6. CASE UNCHANGED vars
    BY <1>3, <1>6, SameDue DEF vars, fsmVars, lists, edgeVars, timerVars, history
  <1>7. CASE Construct
    <2>1. ~used'
      BY <1>7
      DEF Construct, CtorState, CtorInterrupt, CtorStart, CtorRegister, QueuesInv, QuietInv,
          history
    <2> QED BY <1>1, <2>1
  <1>8. CASE IsrEdge
    BY <1>5, <1>8, EdgeDue DEF IsrEdge
  <1>9. CASE IsrEnd
    <2>1. isr = "in" /\ isr' = "out" /\ at["isr"] = "idle"
      BY <1>9 DEF IsrEnd
    <2>2. UNCHANGED <<m_states, m_events, at, newState, m_timeouts, held, m_pressCallbacks,
                      handler, timer, period, commands, changed, late>>
      BY <1>9 DEF IsrEnd, fsmVars, lists, timerVars, history
    <2>3. AllDue
      BY <1>3, <2>2
    <2>4. at["daemon"] = "idle" /\ handler = "none" /\ timer # 0
      BY <2>1, <2>3, IsrAlone
    <2> QED
      BY <2>1, <2>2, <2>3, <2>4 DEF AllDue, HandlerDue, TimerDue, QueueDue, CallsDue, Due
  <1>10. CASE Visit("isr")
    BY <1>3, <1>10, VisitDue DEF Visit, history
  <1>11. CASE Commit("isr")
    BY <1>3, <1>11, CommitDue DEF Commit, history
  <1>12. CASE isr = "out" /\ Visit("daemon")
    <2>1. AllDue /\ at["daemon"] = "visit" /\ ~TimedPress("daemon")
      BY <1>3, <1>12 DEF Visit, Fsm!Visit, Fsm!Move, history
    <2>2. handler = "none"
      BY <2>1 DEF TimedPress
    <2>3. m_states = "STATE_PRESSED" /\ m_events = TimerEvent
      BY <2>1, <2>2, HandlerAlone
    <2> QED BY <2>1, <2>3 DEF TimedPress, Visiting, TimerEvent, Event
  <1>13. CASE Commit("daemon")
    BY <1>4, <1>13 DEF Commit, Fsm!Commit, Fsm!Move, CallersInv
  <1>14. ASSUME NEW c \in Callers, OnEntry(c) PROVE AllDue'
    <2>1. at[c] = "entry" /\ UNCHANGED <<used, changed, late>>
      BY <1>14 DEF OnEntry, Fsm!OnEntry, Fsm!Move, history
    <2>2. CASE c = "user"
      <3>1. ~used'
        BY <1>4, <2>1, <2>2 DEF CallersInv, QueuesInv, QuietInv
      <3> QED BY <1>1, <3>1
    <2>3. CASE c = "daemon"
      BY <1>4, <2>1, <2>3 DEF CallersInv
    <2>4. CASE c = "isr"
      BY <1>3, <1>14, <2>1, <2>4, EntryDue
    <2> QED BY <2>2, <2>3, <2>4 DEF Callers
  <1>15. CASE isr = "out" /\ ProcessCommand
    BY <1>3, <1>15, ProcessDue DEF ProcessCommand
  <1>16. CASE isr = "out" /\ Expire
    BY <1>3, <1>16, ExpireDue DEF Expire, history
  <1>17. CASE TimerVisit
    <2>1. /\ handler = "none" /\ handler' = "pend"
          /\ UNCHANGED <<m_states, m_events, at, newState, m_timeouts, held,
                         m_pressCallbacks, isr, timer, period, commands, changed, late>>
      BY <1>17 DEF TimerVisit, TimerHandler, fsmVars, lists, edgeVars, timerVars, history
    <2>2. AllDue
      BY <1>3, <2>1
    <2> QED
      BY <2>1, <2>2 DEF AllDue, HandlerDue, TimerDue, QueueDue, CallsDue, Due
  <1>18. CASE TimerPend
    BY <1>3, <1>18, PendDue DEF TimerPend, history
  <1>19. CASE TimerBump
    BY <1>3, <1>19, BumpDue DEF TimerBump, history
  <1>20. CASE TimerArm
    BY <1>3, <1>20, ArmDue DEF TimerArm, history
  <1>21. ASSUME NEW time \in Times, Register(time) PROVE AllDue'
    <2>1. changed' = used /\ used' = used
      BY <1>21 DEF Register
    <2> QED BY <1>1, <2>1
  <1>22. CASE Tick
    BY <1>5, <1>22, TickDue DEF Tick
  <1>23. CASE Pin
    <2>1. UNCHANGED <<m_states, m_events, at, newState, m_timeouts, held, m_pressCallbacks,
                      handler, isr, timer, period, commands, changed, late>>
      BY <1>23 DEF Pin, fsmVars, lists, edgeVars, timerVars, history
    <2> QED BY <1>3, <2>1, SameDue
  <1> QED
    BY <1>6, <1>7, <1>8, <1>9, <1>10, <1>11, <1>12, <1>13, <1>14, <1>15, <1>16, <1>17,
       <1>18, <1>19, <1>20, <1>21, <1>22, <1>23
    DEF Steps

\* A timed press is reported when the button has been held for its time.
THEOREM TimedPressesInTime == Spec => []TimedOnTime
  <1>1. QueuesInv /\ QueuesInv' /\ DueInv /\ [Next]_vars => DueInv'
    BY NextSteps, NextDue
  <1>2. DueInv => TimedOnTime
    BY DEF DueInv, AllDue, CallsDue, TimedOnTime
  <1> QED BY <1>1, <1>2, InitDue, QueuesInvariant, PTL DEF Spec

-----------------------------------------------------------------------------
(* Blinker, for any number of times, queue length and number of calls.     *)

CONSTANTS BlinkTimes, QueueLength, MaxCalls

VARIABLES m_blinkTimes, steady, ledState, m_alreadyBlinkedTimes, m_end_level, ledLevel,
          user, stopLevel, daemon, armed, ledCommands, calls, asked, lost

Led == INSTANCE Blinker WITH
    m_state <- ledState, level <- ledLevel, commands <- ledCommands

\* The assumption BlinkerConstants.
LedConstants ==
    /\ BlinkTimes \subseteq Nat
    /\ QueueLength \in Nat \ {0} /\ MaxCalls \in Nat

(* The members that are levels and flags.                                  *)
LedLevels == {steady, ledState, m_end_level, ledLevel, stopLevel, armed, asked, lost}

(* The invariant holds before the first call.                              *)
LEMMA LedInit ==
    ASSUME LedConstants
    PROVE  Led!Init => Led!Inv
  <1> SUFFICES ASSUME Led!Init PROVE Led!TypeOK /\ Led!SomebodyGoesOn
    BY DEF Led!Inv
  <1>1. Led!TypeOK
    <2>1. LedLevels \subseteq BOOLEAN
      BY DEF Led!Init, LedLevels
    <2>2. ledCommands \in Seq({"start", "stop", "change", "reset"}) /\ Len(ledCommands) = 0
      BY DEF Led!Init
    <2> QED BY <2>1, <2>2 DEF LedConstants, Led!Init, Led!TypeOK, LedLevels
  <1>2. Led!SomebodyGoesOn
    BY DEF Led!Init, Led!SomebodyGoesOn
  <1> QED BY <1>1, <1>2

(* A command of the callback keeps the types, whether there is room or not. *)
LEMMA LedRearm ==
    ASSUME LedConstants, Led!TypeOK, NEW step, NEW c \in {"change", "reset"},
           NEW next \in {"reset", "commands"}, Led!Rearm(step, c, next)
    PROVE  Led!TypeOK'
  <1> USE DEF Led!TypeOK, Led!Rearm, Led!params, LedLevels
  <1>1. LedLevels' \subseteq BOOLEAN
    OBVIOUS
  <1>2. /\ ledCommands' \in Seq({"start", "stop", "change", "reset"})
        /\ Len(ledCommands') <= QueueLength
    <2>1. CASE Len(ledCommands) < QueueLength
      BY <2>1 DEF LedConstants
    <2>2. CASE ~(Len(ledCommands) < QueueLength)
      BY <2>2
    <2> QED BY <2>1, <2>2
  <1>3. /\ user' = user /\ daemon' = next
        /\ UNCHANGED <<m_blinkTimes, m_alreadyBlinkedTimes, calls>>
    OBVIOUS
  <1> QED BY <1>1, <1>2, <1>3

(* Every step keeps the types.                                             *)
LEMMA LedTypes ==
    ASSUME LedConstants
    PROVE  Led!TypeOK /\ [Led!Next]_(Led!vars) => Led!TypeOK'
  <1> SUFFICES ASSUME Led!TypeOK, [Led!Next]_(Led!vars) PROVE Led!TypeOK'
    OBVIOUS
  <1> USE DEF LedConstants, Led!TypeOK, Led!params, LedLevels
  <1>1. ASSUME NEW l \in BOOLEAN, Led!Start(l) PROVE Led!TypeOK'
    BY <1>1 DEF Led!Start, Led!Call
  <1>2. ASSUME NEW l \in BOOLEAN, Led!Stop(l) PROVE Led!TypeOK'
    BY <1>2 DEF Led!Stop, Led!Call
  <1>3. CASE Led!Send
    BY <1>3 DEF Led!Send
  <1>4. CASE Led!StopSet
    BY <1>4 DEF Led!StopSet, Led!SetAsked
  <1>5. CASE Led!Expire
    BY <1>5 DEF Led!Expire, Led!Fire
  <1>6. CASE Led!Command
    <2>1. LedLevels' \subseteq BOOLEAN
      BY <1>6 DEF Led!Command, Led!Fire
    <2>2. /\ ledCommands' \in Seq({"start", "stop", "change", "reset"})
          /\ Len(ledCommands') <= QueueLength
      BY <1>6 DEF LedConstants, Led!Command
    <2>3. daemon' \in {"commands", "set"}
      BY <1>6 DEF Led!Command, Led!Fire
    <2> QED BY <1>6, <2>1, <2>2, <2>3 DEF Led!Command
  <1>7. CASE Led!NoCommand
    BY <1>7 DEF Led!NoCommand
  <1>8. CASE Led!Blink
    BY <1>8 DEF Led!Blink
  <1>9. CASE Led!Finish
    BY <1>9 DEF Led!Finish, Led!SetAsked
  <1>10. CASE Led!ChangePeriod
    BY <1>10, LedRearm DEF Led!ChangePeriod
  <1>11. CASE Led!Reset
    BY <1>11, LedRearm DEF Led!Reset
  <1>12. CASE UNCHANGED Led!vars
    BY <1>12 DEF Led!vars
  <1> QED
    BY <1>1, <1>2, <1>3, <1>4, <1>5, <1>6, <1>7, <1>8, <1>9, <1>10, <1>11, <1>12
    DEF Led!Next, Led!Daemon

(* The last command of a queue after one has been added or taken.          *)
LEMMA LastOfQueue ==
    ASSUME NEW S, NEW q \in Seq(S), NEW x \in S
    PROVE  /\ Append(q, x) # <<>> /\ Append(q, x)[Len(Append(q, x))] = x
           /\ q # <<>> /\ Tail(q) # <<>> => Tail(q)[Len(Tail(q))] = q[Len(q)]
           /\ q # <<>> /\ Tail(q) = <<>> => Head(q) = q[Len(q)]
  OBVIOUS

(* Every step keeps somebody going on.                                     *)
LEMMA LedGoesOn ==
    Led!TypeOK /\ Led!SomebodyGoesOn /\ [Led!Next]_(Led!vars) => Led!SomebodyGoesOn'
  <1> SUFFICES ASSUME Led!TypeOK, Led!SomebodyGoesOn, [Led!Next]_(Led!vars)
               PROVE  Led!SomebodyGoesOn'
    OBVIOUS
  <1> USE DEF Led!params
  <1>1. ASSUME NEW l \in BOOLEAN, Led!Start(l) PROVE Led!SomebodyGoesOn'
    BY <1>1 DEF Led!Start, Led!Call, Led!SomebodyGoesOn, Led!TimerRunsOn
  <1>2. ASSUME NEW l \in BOOLEAN, Led!Stop(l) PROVE Led!SomebodyGoesOn'
    BY <1>2 DEF Led!Stop, Led!Call, Led!SomebodyGoesOn, Led!TimerRunsOn
  <1>3. CASE Led!Send
    <2>1. CASE user = "start"
      <3>1. ledCommands \in Seq({"start", "stop", "change", "reset"})
        BY DEF Led!TypeOK
      <3>2. ledCommands' = Append(ledCommands, "start")
        BY <1>3, <2>1 DEF Led!Send
      <3>3. Led!TimerRunsOn'
        BY <3>1, <3>2, LastOfQueue DEF Led!TimerRunsOn
      <3> QED BY <3>3 DEF Led!SomebodyGoesOn
    <2>2. CASE user # "start"
      BY <1>3, <2>2 DEF Led!Send, Led!SomebodyGoesOn
    <2> QED BY <2>1, <2>2
  <1>4. CASE Led!StopSet
    BY <1>4 DEF Led!StopSet, Led!SetAsked, Led!SomebodyGoesOn
  <1>5. CASE Led!Expire
    BY <1>5 DEF Led!Expire, Led!Fire, Led!SomebodyGoesOn
  <1>6. CASE Led!Command
    <2>1. CASE Led!Fire
      BY <2>1 DEF Led!Fire, Led!SomebodyGoesOn
    <2>2. CASE armed' = (Head(ledCommands) # "stop") /\ daemon' = "commands"
      <3>1. /\ ledCommands \in Seq({"start", "stop", "change", "reset"})
            /\ ledCommands # <<>> /\ ledCommands' = Tail(ledCommands)
            /\ UNCHANGED <<ledLevel, user, asked, lost>>
            /\ daemon \in {"idle", "commands"}
        BY <1>6 DEF Led!Command, Led!TypeOK
      <3>2. Led!TimerRunsOn => Led!TimerRunsOn'
        <4>1. CASE Tail(ledCommands) = <<>>
          BY <2>2, <3>1, <4>1, LastOfQueue DEF Led!TimerRunsOn
        <4>2. CASE Tail(ledCommands) # <<>>
          BY <3>1, <4>2, LastOfQueue DEF Led!TimerRunsOn
        <4> QED BY <4>1, <4>2
      <3> QED BY <3>1, <3>2 DEF Led!SomebodyGoesOn
    <2> QED BY <1>6, <2>1, <2>2 DEF Led!Command
  <1>7. CASE Led!NoCommand
    BY <1>7 DEF Led!NoCommand, Led!SomebodyGoesOn, Led!TimerRunsOn
  <1>8. CASE Led!Blink
    BY <1>8 DEF Led!Blink, Led!SomebodyGoesOn
  <1>9. CASE Led!Finish
    BY <1>9 DEF Led!Finish, Led!SetAsked, Led!SomebodyGoesOn
  <1>10. CASE Led!ChangePeriod
    BY <1>10 DEF Led!ChangePeriod, Led!Rearm, Led!SomebodyGoesOn
  <1>11. CASE Led!Reset
    <2>1. CASE Len(ledCommands) < QueueLength
      <3>1. ledCommands \in Seq({"start", "stop", "change", "reset"})
        BY DEF Led!TypeOK
      <3>2. ledCommands' = Append(ledCommands, "reset")
        BY <1>11, <2>1 DEF Led!Reset, Led!Rearm
      <3>3. Led!TimerRunsOn'
        BY <3>1, <3>2, LastOfQueue DEF Led!TimerRunsOn
      <3> QED BY <3>3 DEF Led!SomebodyGoesOn
    <2>2. CASE ~(Len(ledCommands) < QueueLength)
      BY <1>11, <2>2 DEF Led!Reset, Led!Rearm, Led!SomebodyGoesOn
    <2> QED BY <2>1, <2>2
  <1>12. CASE UNCHANGED Led!vars
    BY <1>12 DEF Led!vars, Led!SomebodyGoesOn, Led!TimerRunsOn
  <1> QED
    BY <1>1, <1>2, <1>3, <1>4, <1>5, <1>6, <1>7, <1>8, <1>9, <1>10, <1>11, <1>12
    DEF Led!Next, Led!Daemon

(* The inductive invariant: types, and somebody goes on.                   *)
THEOREM LedInvariance ==
    ASSUME LedConstants
    PROVE  Led!Spec => []Led!Inv
  <1>1. Led!Inv /\ [Led!Next]_(Led!vars) => Led!Inv'
    BY LedTypes, LedGoesOn DEF Led!Inv
  <1> QED
    BY <1>1, LedInit, PTL DEF Led!Spec

(* A pin that nothing will change any more has the level that was asked    *)
(* for, unless a re-arming was lost.                                       *)
THEOREM PinRestsAsAsked ==
    ASSUME LedConstants
    PROVE  Led!Spec => []Led!RestsAsAsked
  <1>1. Led!Inv => Led!RestsAsAsked
    BY DEF Led!Inv, Led!SomebodyGoesOn, Led!TimerRunsOn, Led!RestsAsAsked, Led!AtRest
  <1> QED
    BY <1>1, LedInvariance, PTL
===============================================================================
