------------------------------- MODULE NVSProofs -------------------------------
(***************************************************************************)
(* Proofs about NVS for any number of tasks, keys, values and objects: the *)
(* inductive invariant, and that NVS implements KeyStore.                  *)
(***************************************************************************)
EXTENDS NVS, TLAPS

(* What the four kinds of call look like.                                  *)
LEMMA CallParts ==
    ASSUME NEW c \in Calls
    PROVE  /\ c # None
           /\ c.op \in {"get", "set", "erase", "commit"}
           /\ c.op = "get" => c.key \in Keys /\ c.max \in Values \cup {None}
           /\ c.op = "set" => c.key \in Keys /\ c.val \in Values
           /\ c.op = "erase" => c.keys \subseteq Keys
  BY StoreConstants DEF Calls

(* None is told apart from what it stands in for.                          *)
LEMMA NoneApart ==
    /\ Values \subseteq Nat /\ Values \subseteq Answers
    /\ None \notin Values /\ None \notin Calls /\ None \notin Answers
    /\ {Done, Failed, NotFound, TooLong} \subseteq Answers
    /\ None # "free" /\ \A t \in Tasks : t # None /\ t # "free"
  BY StoreConstants, NVSConstants DEF Answers

(* What a task's position says of its call.                                *)
LEMMA InCallParts ==
    ASSUME Inv, NEW t \in Tasks, at[t] # "idle"
    PROVE  /\ call[t] \in Calls /\ call[t] # None
           /\ via[t] \in open /\ via[t] \in Objects
           /\ at[t] \in {"size", "value"} =>
                 /\ call[t].op = "get" /\ call[t].key \in Keys
                 /\ call[t].max \in Values \cup {None}
           /\ at[t] = "set" =>
                 call[t].op = "set" /\ call[t].key \in Keys /\ call[t].val \in Values
           /\ at[t] = "erase" => call[t].op = "erase" /\ call[t].keys \subseteq Keys
           /\ at[t] = "commit" => call[t].op = "commit"
  <1>1. call[t] \in Calls /\ via[t] \in open /\ via[t] \in Objects
    BY NoneApart DEF Inv, InStep, TypeOKNVS, TypeOK
  <1>2. InStep(t)
    BY DEF Inv
  <1> QED BY <1>1, <1>2, CallParts DEF InStep

(* When the namespace has one object, two tasks that are past Lock in its  *)
(* calls are the same.                                                     *)
LEMMA OneInside ==
    ASSUME Inv, \A o, p \in open : o = p,
           NEW t \in Tasks, at[t] \notin {"idle", "lock", "asserted"},
           NEW u \in Tasks, at[u] \notin {"idle", "lock", "asserted"}
    PROVE  t = u
  <1>1. via[t] = via[u] /\ via[t] \in Objects
    BY InCallParts
  <1>2. m_mutex[via[t]] = t /\ m_mutex[via[t]] = u
    BY <1>1 DEF Inv, HolderIsInside
  <1> QED BY <1>2

(* The invariant holds before any object has been constructed.             *)
LEMMA InitInv == InitNVS => Inv
  <1> SUFFICES ASSUME InitNVS PROVE Inv
    OBVIOUS
  <1> USE NoneApart DEF InitNVS, Init
  <1>1. TypeOKNVS
    BY DEF TypeOKNVS, TypeOK
  <1>2. HolderIsInside
    BY DEF HolderIsInside
  <1>3. LengthStaysTrue
    BY DEF LengthStaysTrue, Reading
  <1>4. \A t \in Tasks : InStep(t)
    BY DEF InStep
  <1> QED BY <1>1, <1>2, <1>3, <1>4 DEF Inv

(* Storing keeps the types, and a value being read with one object only is *)
(* not stored by another task.                                             *)
LEMMA StoreTypes ==
    ASSUME value \in [Keys -> Values \cup {None}],
           durable \in [Keys -> SUBSET (Values \cup {None})],
           NEW K \in SUBSET Keys, NEW v \in Values \cup {None}, Store(K, v)
    PROVE  /\ value' \in [Keys -> Values \cup {None}]
           /\ durable' \in [Keys -> SUBSET (Values \cup {None})]
  BY DEF Store

(* A step of task t inside a call, other than the first of two reads, that *)
(* leaves the mutex and takes it to "unlock" with an answer.               *)
LEMMA AnsweredInv ==
    ASSUME Inv, NEW t \in Tasks, at[t] \in {"size", "value", "set", "erase", "commit"},
           NEW a \in Answers, Answered(t, a),
           value' \in [Keys -> Values \cup {None}],
           durable' \in [Keys -> SUBSET (Values \cup {None})],
           value' = value \/ at[t] \in {"set", "erase"},
           UNCHANGED <<open, m_mutex, via, requiredLen>>
    PROVE  Inv'
  <1> USE NoneApart DEF Inv, TypeOKNVS, TypeOK
  <1>1. /\ at' = [at EXCEPT ![t] = "unlock"] /\ answer[t] = None
        /\ answer' = [answer EXCEPT ![t] = a] /\ call' = call
    BY DEF Answered, Answer, Goto
  <1>2. TypeOKNVS'
    <2>1. answer' \in [Tasks -> Answers \cup {None}]
      BY <1>1
    <2>2. at' \in [Tasks -> {"idle", "lock", "size", "value", "set", "erase", "commit",
                             "unlock", "asserted"}]
      BY <1>1
    <2> QED BY <1>1, <2>1, <2>2
  <1>3. HolderIsInside'
    BY <1>1 DEF HolderIsInside
  <1>4. LengthStaysTrue'
    <2> SUFFICES ASSUME NEW u \in Tasks, Reading(u)'
                 PROVE  /\ requiredLen[u] <= call[u].max
                        /\ (\A o, p \in open : o = p) =>
                              value'[call[u].key] = requiredLen[u]
      BY <1>1 DEF LengthStaysTrue
    <2>1. u # t /\ Reading(u)
      BY <1>1 DEF Reading
    <2>2. ASSUME \A o, p \in open : o = p PROVE FALSE
      BY <2>1, <2>2, OneInside DEF Reading
    <2> QED BY <2>1, <2>2 DEF LengthStaysTrue
  <1>5. ASSUME NEW u \in Tasks PROVE InStep(u)'
    <2>1. CASE u = t
      BY <1>1, <2>1 DEF InStep
    <2>2. CASE u # t
      BY <1>1, <2>2 DEF InStep
    <2> QED BY <2>1, <2>2
  <1> QED BY <1>2, <1>3, <1>4, <1>5

(* The step that Lock's constructor lets a task take next.                 *)
LEMMA FirstStepOf ==
    ASSUME NEW c \in Calls
    PROVE  /\ FirstStep(c) \in {"size", "value", "set", "erase", "commit"}
           /\ FirstStep(c) \in {"size", "value"} => c.op = "get"
           /\ FirstStep(c) = "size" => c.max # None
           /\ FirstStep(c) = "value" => c.max = None
           /\ FirstStep(c) \in {"set", "erase", "commit"} => c.op = FirstStep(c)
  BY CallParts DEF FirstStep

(* Every step keeps the invariant.                                         *)
LEMMA NextInv == Inv /\ [NextNVS]_nvsVars => Inv'
  <1> SUFFICES ASSUME Inv, [NextNVS]_nvsVars PROVE Inv'
    OBVIOUS
  <1> USE NoneApart DEF Inv, TypeOKNVS, TypeOK, Goto
  <1>1. ASSUME NEW o \in Objects, Construct(o) PROVE Inv'
    <2> USE <1>1 DEF Construct, vars
    <2>1. TypeOKNVS'
      OBVIOUS
    <2>2. \A u \in Tasks : at[u] # "idle" => via[u] # o
      BY InCallParts
    <2>3. HolderIsInside'
      <3> SUFFICES ASSUME NEW p \in Objects, NEW u \in Tasks
                   PROVE  m_mutex'[p] = u <=> (at[u] \notin {"idle", "lock", "asserted"} /\ via[u] = p)
        BY DEF HolderIsInside
      <3>1. CASE p = o
        BY <2>2, <3>1
      <3>2. CASE p # o
        BY <3>2 DEF HolderIsInside
      <3> QED BY <3>1, <3>2
    <2>4. LengthStaysTrue'
      <3> SUFFICES ASSUME NEW u \in Tasks, Reading(u)'
                   PROVE  /\ requiredLen[u] <= call[u].max
                          /\ ~\A p, q \in open' : p = q
        BY DEF LengthStaysTrue
      <3>1. Reading(u)
        BY DEF Reading
      <3>2. via[u] \in open
        BY <3>1, InCallParts DEF Reading
      <3> QED BY <3>1, <3>2 DEF LengthStaysTrue
    <2>5. \A u \in Tasks : InStep(u)'
      BY DEF InStep
    <2> QED BY <2>1, <2>3, <2>4, <2>5
  <1>2. ASSUME NEW t \in Tasks, NEW c \in Calls, NEW o \in Objects, Enter(t, c, o)
        PROVE  Inv'
    <2> USE <1>2 DEF Enter, Invoke
    <2>1. at[t] = "idle" /\ c # None
      BY CallParts DEF InStep
    <2>2. TypeOKNVS'
      OBVIOUS
    <2>3. HolderIsInside'
      BY <2>1 DEF HolderIsInside
    <2>4. LengthStaysTrue'
      BY DEF LengthStaysTrue, Reading
    <2>5. ASSUME NEW u \in Tasks PROVE InStep(u)'
      BY <2>1 DEF InStep
    <2> QED BY <2>2, <2>3, <2>4, <2>5
  <1>3. ASSUME NEW t \in Tasks, Begin(t) PROVE Inv'
    <2>1. /\ at[t] = "lock" /\ m_mutex[via[t]] = "free"
          /\ m_mutex' = [m_mutex EXCEPT ![via[t]] = t]
          /\ at' = [at EXCEPT ![t] = FirstStep(call[t])]
          /\ UNCHANGED <<value, durable, call, answer, open, via, requiredLen>>
      BY <1>3 DEF Begin, vars
    <2>2. call[t] \in Calls /\ via[t] \in Objects /\ via[t] \in open
      BY <2>1, InCallParts
    <2>3. FirstStep(call[t]) \in {"size", "value", "set", "erase", "commit"}
      BY <2>2, FirstStepOf
    <2>4. requiredLen[t] = None /\ answer[t] = None
      BY <2>1 DEF InStep
    <2>5. TypeOKNVS'
      BY <2>1, <2>2, <2>3
    <2>6. HolderIsInside'
      BY <2>1, <2>2, <2>3 DEF HolderIsInside
    <2>7. LengthStaysTrue'
      BY <2>1, <2>4 DEF LengthStaysTrue, Reading
    <2>8. ASSUME NEW u \in Tasks PROVE InStep(u)'
      <3>1. CASE u = t
        BY <2>1, <2>2, <2>3, <2>4, <3>1, FirstStepOf, CallParts DEF InStep
      <3>2. CASE u # t
        BY <2>1, <3>2 DEF InStep
      <3> QED BY <3>1, <3>2
    <2> QED BY <2>5, <2>6, <2>7, <2>8
  <1>12. ASSUME NEW t \in Tasks, BeginAsserts(t) PROVE Inv'
    <2>1. /\ at[t] = "lock" /\ at' = [at EXCEPT ![t] = "asserted"]
          /\ UNCHANGED <<value, durable, call, answer, open, m_mutex, via, requiredLen>>
      BY <1>12 DEF BeginAsserts, vars
    <2>2. TypeOKNVS'
      BY <2>1
    <2>3. HolderIsInside'
      BY <2>1 DEF HolderIsInside
    <2>4. LengthStaysTrue'
      BY <2>1 DEF LengthStaysTrue, Reading
    <2>5. ASSUME NEW u \in Tasks PROVE InStep(u)'
      BY <2>1 DEF InStep
    <2> QED BY <2>2, <2>3, <2>4, <2>5
  <1>4. ASSUME NEW t \in Tasks, GetLength(t) PROVE Inv'
    <2> DEFINE v == value[call[t].key]
    <2>1. /\ at[t] = "size" /\ call[t].max \in Values \cup {None} /\ call[t].max # None
          /\ call[t].key \in Keys
      BY <1>4, InCallParts DEF GetLength, InStep
    <2>2. ASSUME NEW a \in {NotFound, Failed, TooLong}, Answered(t, a),
                 UNCHANGED requiredLen
          PROVE  Inv'
      <3>1. UNCHANGED <<value, durable, open, m_mutex, via>>
        BY <1>4 DEF GetLength
      <3> HIDE DEF Inv
      <3> QED BY <2>1, <2>2, <3>1, AnsweredInv DEF TypeOKNVS, TypeOK, Inv
    <2>3. CASE /\ Fits(v, call[t].max)
               /\ requiredLen' = [requiredLen EXCEPT ![t] = v]
               /\ at' = [at EXCEPT ![t] = "value"] /\ UNCHANGED answer
      <3>1. UNCHANGED <<value, durable, call, open, m_mutex, via>>
        BY <1>4 DEF GetLength
      <3>2. v \in Values /\ v <= call[t].max
        BY <2>1, <2>3 DEF Fits
      <3>3. TypeOKNVS'
        BY <2>3, <3>1, <3>2
      <3>4. HolderIsInside'
        BY <2>1, <2>3, <3>1 DEF HolderIsInside
      <3>5. LengthStaysTrue'
        BY <2>3, <3>1, <3>2 DEF LengthStaysTrue, Reading
      <3>6. ASSUME NEW u \in Tasks PROVE InStep(u)'
        <4>1. CASE u = t
          BY <2>1, <2>3, <3>1, <3>2, <4>1 DEF InStep
        <4>2. CASE u # t
          BY <2>3, <3>1, <4>2 DEF InStep
        <4> QED BY <4>1, <4>2
      <3> QED BY <3>3, <3>4, <3>5, <3>6
    <2> QED BY <1>4, <2>2, <2>3 DEF GetLength
  <1>5. ASSUME NEW t \in Tasks, GetValue(t) PROVE Inv'
    <2>1. at[t] = "value" /\ call[t].key \in Keys
      BY <1>5, InCallParts DEF GetValue
    <2>2. PICK a \in Answers : Answered(t, a)
      BY <1>5, <2>1 DEF GetValue, Fits
    <2>3. UNCHANGED <<value, durable, open, m_mutex, via, requiredLen>>
      BY <1>5 DEF GetValue
    <2> HIDE DEF Inv
    <2> QED BY <2>1, <2>2, <2>3, AnsweredInv DEF TypeOKNVS, TypeOK, Inv
  <1>6. ASSUME NEW t \in Tasks, SetValue(t) PROVE Inv'
    <2>1. at[t] = "set" /\ call[t].key \in Keys /\ call[t].val \in Values
      BY <1>6, InCallParts DEF SetValue
    <2>2. PICK a \in Answers : Answered(t, a)
      BY <1>6 DEF SetValue
    <2>3. UNCHANGED <<open, m_mutex, via, requiredLen>>
      BY <1>6 DEF SetValue
    <2>4. \/ Store({call[t].key}, call[t].val)
          \/ UNCHANGED <<value, durable>>
      BY <1>6 DEF SetValue
    <2>5. /\ value' \in [Keys -> Values \cup {None}]
          /\ durable' \in [Keys -> SUBSET (Values \cup {None})]
      BY <2>1, <2>4, StoreTypes
    <2> HIDE DEF Inv
    <2> QED BY <2>1, <2>2, <2>3, <2>5, AnsweredInv
  <1>7. ASSUME NEW t \in Tasks, EraseKeys(t) PROVE Inv'
    <2>1. at[t] = "erase" /\ call[t].keys \subseteq Keys
      BY <1>7, InCallParts DEF EraseKeys
    <2>2. PICK a \in Answers, K \in SUBSET call[t].keys : Answered(t, a) /\ Store(K, None)
      BY <1>7 DEF EraseKeys
    <2>3. UNCHANGED <<open, m_mutex, via, requiredLen>>
      BY <1>7 DEF EraseKeys
    <2>4. /\ value' \in [Keys -> Values \cup {None}]
          /\ durable' \in [Keys -> SUBSET (Values \cup {None})]
      BY <2>1, <2>2, StoreTypes
    <2> HIDE DEF Inv
    <2> QED BY <2>1, <2>2, <2>3, <2>4, AnsweredInv
  <1>8. ASSUME NEW t \in Tasks, CommitValues(t) PROVE Inv'
    <2>1. at[t] = "commit"
      BY <1>8 DEF CommitValues
    <2>2. PICK a \in Answers : Answered(t, a)
      BY <1>8 DEF CommitValues
    <2>3. UNCHANGED <<value, open, m_mutex, via, requiredLen>>
      BY <1>8 DEF CommitValues
    <2>4. durable' \in [Keys -> SUBSET (Values \cup {None})]
      BY <1>8 DEF CommitValues
    <2> HIDE DEF Inv
    <2> QED BY <2>1, <2>2, <2>3, <2>4, AnsweredInv DEF Inv, TypeOKNVS, TypeOK
  <1>9. ASSUME NEW t \in Tasks, Leave(t) PROVE Inv'
    <2> USE <1>9 DEF Leave, Return
    <2>1. at[t] = "unlock" /\ via[t] \in Objects /\ m_mutex[via[t]] = t
      BY InCallParts DEF HolderIsInside
    <2>2. TypeOKNVS'
      OBVIOUS
    <2>3. HolderIsInside'
      BY <2>1 DEF HolderIsInside
    <2>4. LengthStaysTrue'
      BY DEF LengthStaysTrue, Reading
    <2>5. ASSUME NEW u \in Tasks PROVE InStep(u)'
      <3>1. CASE u = t
        BY <3>1 DEF InStep
      <3>2. CASE u # t
        BY <3>2 DEF InStep
      <3> QED BY <3>1, <3>2
    <2> QED BY <2>2, <2>3, <2>4, <2>5
  <1>10. CASE PowerLoss
    <2> USE <1>10 DEF PowerLoss, Restart
    <2>1. value' \in [Keys -> Values \cup {None}]
      OBVIOUS
    <2>2. durable' \in [Keys -> SUBSET (Values \cup {None})]
      BY <2>1
    <2>3. TypeOKNVS'
      BY <2>1, <2>2
    <2>4. HolderIsInside' /\ LengthStaysTrue'
      BY DEF HolderIsInside, LengthStaysTrue, Reading
    <2>5. \A u \in Tasks : InStep(u)'
      BY DEF InStep
    <2> QED BY <2>3, <2>4, <2>5
  <1>11. CASE UNCHANGED nvsVars
    <2> USE <1>11 DEF nvsVars, vars
    <2>1. TypeOKNVS'
      OBVIOUS
    <2>2. HolderIsInside' /\ LengthStaysTrue'
      BY DEF HolderIsInside, LengthStaysTrue, Reading
    <2>3. \A u \in Tasks : InStep(u)'
      BY DEF InStep
    <2> QED BY <2>1, <2>2, <2>3
  <1> QED
    BY <1>1, <1>2, <1>3, <1>4, <1>5, <1>6, <1>7, <1>8, <1>9, <1>10, <1>11, <1>12
    DEF NextNVS, Step

(* While a namespace has one object, the length of a value stays true until *)
(* the value is read, and no read exceeds the caller's buffer.             *)
THEOREM LengthKept == SpecNVS => []LengthStaysTrue
  <1>1. Inv => LengthStaysTrue
    BY DEF Inv
  <1> QED
    BY <1>1, InitInv, NextInv, PTL DEF SpecNVS

(* A step of the machine is a step of the store, or invisible to it: a get *)
(* is visible where it gets its answer.                                    *)
LEMMA StepImplements == Inv /\ [NextNVS]_nvsVars => [Next]_vars
  <1> SUFFICES ASSUME Inv, [NextNVS]_nvsVars PROVE Next \/ UNCHANGED vars
    OBVIOUS
  <1> USE NoneApart
  <1>1. ASSUME NEW o \in Objects, Construct(o) PROVE UNCHANGED vars
    BY <1>1 DEF Construct
  <1>2. ASSUME NEW t \in Tasks, NEW c \in Calls, NEW o \in Objects, Enter(t, c, o)
        PROVE  Next
    BY <1>2 DEF Enter, Next
  <1>3. ASSUME NEW t \in Tasks, Begin(t) PROVE UNCHANGED vars
    BY <1>3 DEF Begin
  <1>12. ASSUME NEW t \in Tasks, BeginAsserts(t) PROVE UNCHANGED vars
    BY <1>12 DEF BeginAsserts
  <1>4. ASSUME NEW t \in Tasks, GetLength(t) PROVE Next \/ UNCHANGED vars
    <2> DEFINE v == value[call[t].key]
    <2>1. /\ InCall(t, "get") /\ call[t].max \in Values /\ v \in Values \cup {None}
          /\ UNCHANGED <<value, durable, call>>
      BY <1>4, InCallParts DEF GetLength, InCall, InStep, Inv, TypeOKNVS, TypeOK
    <2>2. CASE v = None /\ Answer(t, NotFound)
      <3>1. Get(t)
        BY <2>1, <2>2 DEF Get, Fits
      <3> QED BY <3>1 DEF Next
    <2>3. CASE Answer(t, Failed)
      <3>1. Fail(t)
        BY <2>1, <2>3 DEF Fail, InCall
      <3> QED BY <3>1 DEF Next
    <2>4. CASE v # None /\ v > call[t].max /\ Answer(t, TooLong)
      <3>1. ~Fits(v, call[t].max)
        <4>1. v \in Nat /\ call[t].max \in Nat /\ call[t].max # None
          BY <2>1, <2>4
        <4> QED BY <4>1, <2>4 DEF Fits
      <3>2. Get(t)
        BY <2>1, <2>4, <3>1 DEF Get
      <3> QED BY <3>2 DEF Next
    <2>5. CASE UNCHANGED answer
      BY <2>1, <2>5 DEF vars
    <2> QED BY <1>4, <2>2, <2>3, <2>4, <2>5 DEF GetLength, Answered
  <1>5. ASSUME NEW t \in Tasks, GetValue(t) PROVE Next
    <2> DEFINE v == value[call[t].key]
    <2>1. /\ InCall(t, "get") /\ call[t].max \in Values \cup {None}
          /\ v \in Values \cup {None} /\ requiredLen[t] \in Values \cup {None}
          /\ requiredLen[t] = None <=> call[t].max = None
          /\ UNCHANGED <<value, durable>>
      BY <1>5, InCallParts DEF GetValue, InCall, InStep, Inv, TypeOKNVS, TypeOK
    <2>2. CASE Fits(v, requiredLen[t]) /\ Answer(t, v)
      <3>1. v # None
        BY <2>2 DEF Fits
      <3>2. call[t].max # None => requiredLen[t] <= call[t].max
        BY <1>5, <2>1 DEF GetValue, Inv, LengthStaysTrue, Reading
      <3>3. Fits(v, call[t].max)
        <4>1. CASE call[t].max = None
          BY <3>1, <4>1 DEF Fits
        <4>2. CASE call[t].max # None
          <5>1. v \in Nat /\ requiredLen[t] \in Nat /\ call[t].max \in Nat
            BY <2>1, <3>1, <4>2
          <5>2. v <= requiredLen[t]
            BY <2>1, <2>2, <4>2 DEF Fits
          <5> QED BY <3>1, <3>2, <4>2, <5>1, <5>2 DEF Fits
        <4> QED BY <4>1, <4>2
      <3>4. Get(t)
        BY <2>1, <2>2, <3>1, <3>3 DEF Get
      <3> QED BY <3>4 DEF Next
    <2>3. CASE v = None /\ Answer(t, NotFound)
      <3>1. Get(t)
        BY <2>1, <2>3 DEF Get, Fits
      <3> QED BY <3>1 DEF Next
    <2>4. CASE Answer(t, Failed)
      <3>1. Fail(t)
        BY <2>1, <2>4 DEF Fail, InCall
      <3> QED BY <3>1 DEF Next
    <2> QED BY <1>5, <2>2, <2>3, <2>4 DEF GetValue, Answered
  <1>6. ASSUME NEW t \in Tasks, SetValue(t) PROVE Next
    <2>1. InCall(t, "set")
      BY <1>6, InCallParts DEF SetValue, InCall
    <2>2. \/ Set(t) \/ Fail(t)
      BY <1>6, <2>1 DEF SetValue, Answered, Set, Fail, InCall
    <2> QED BY <2>2 DEF Next
  <1>7. ASSUME NEW t \in Tasks, EraseKeys(t) PROVE Next
    <2>1. InCall(t, "erase")
      BY <1>7, InCallParts DEF EraseKeys, InCall
    <2>2. \/ Erase(t) \/ Fail(t)
      BY <1>7, <2>1 DEF EraseKeys, Answered, Erase, Fail, InCall
    <2> QED BY <2>2 DEF Next
  <1>8. ASSUME NEW t \in Tasks, CommitValues(t) PROVE Next
    <2>1. InCall(t, "commit")
      BY <1>8, InCallParts DEF CommitValues, InCall
    <2>2. \/ Commit(t) \/ Fail(t)
      BY <1>8, <2>1 DEF CommitValues, Answered, Commit, Fail, InCall
    <2> QED BY <2>2 DEF Next
  <1>9. ASSUME NEW t \in Tasks, Leave(t) PROVE Next
    <2>1. Return(t)
      BY <1>9 DEF Leave
    <2> QED BY <2>1 DEF Next
  <1>10. CASE PowerLoss
    BY <1>10 DEF PowerLoss, Next
  <1>11. CASE UNCHANGED nvsVars
    BY <1>11 DEF nvsVars
  <1> QED
    BY <1>1, <1>2, <1>3, <1>4, <1>5, <1>6, <1>7, <1>8, <1>9, <1>10, <1>11, <1>12
    DEF NextNVS, Step

(* The operations of NVS are single steps for every user of the namespace, *)
(* also when several objects share it, and what was committed survives a   *)
(* restart.                                                                *)
THEOREM Implements == SpecNVS => IsKeyStore
  <1>1. InitNVS => Init
    BY DEF InitNVS
  <1> QED
    BY <1>1, InitInv, NextInv, StepImplements, PTL DEF SpecNVS, IsKeyStore, Spec
=============================================================================
