------------------------------- MODULE I2CProofs -------------------------------
(***************************************************************************)
(* Proofs about I2C for any number of tasks, devices, registers, values    *)
(* and constructed objects: the inductive invariant, and that I2C          *)
(* implements RegisterFile.                                                *)
(***************************************************************************)
EXTENDS I2C, TLAPS

(* What the two kinds of call look like.                                   *)
LEMMA CallParts ==
    ASSUME NEW c \in Calls
    PROVE  /\ c # None
           /\ c.dev \in Devices
           /\ c.op \in {"read", "write"}
           /\ c.op = "write" => c.reg \in Registers /\ c.val \in Values \cup {None}
           /\ c.op = "read" => c.reg \in Registers \cup {None}
  BY RegisterConstants DEF Calls

(* None is told apart from what it stands in for.                          *)
LEMMA NoneApart ==
    /\ None \notin Values /\ None \notin Registers /\ None \notin Calls
    /\ None \notin Answers /\ Done \in Answers /\ Failed \in Answers
    /\ Values \subseteq Answers
    /\ \A t \in Tasks : t # None /\ t # "free"
    /\ None # "free"
    /\ MaxObjects \in Nat
  BY RegisterConstants, I2CConstants DEF Answers

(* The invariant holds before any object has been constructed.             *)
LEMMA InitInv == InitI2C => Inv
  <1> SUFFICES ASSUME InitI2C PROVE Inv
    OBVIOUS
  <1> USE DEF InitI2C, Init
  <1>1. TypeOK
    BY NoneApart DEF TypeOK
  <1>2. s_isInitialized \in BOOLEAN
    OBVIOUS
  <1>3. TypeOKI2C
    BY <1>1, <1>2, NoneApart DEF TypeOKI2C, Mutex!States
  <1>4. LockAsserts
    BY DEF LockAsserts, Locking, Unlocking, Mutex!HandleAsserts, Mutex!GiveAsserts
  <1>5. SelectedRegisterIsRead
    BY DEF SelectedRegisterIsRead
  <1>6. Progress
    BY NoneApart DEF Progress, InStep
  <1> QED BY <1>3, <1>4, <1>5, <1>6 DEF Inv

(* The assertions in Lock follow from where the tasks are.                 *)
LEMMA LockAssertsFollow == TypeOKI2C /\ Progress => LockAsserts
  BY DEF TypeOKI2C, Progress, InStep, LockAsserts, Locking, Unlocking, Mutex!HandleAsserts, Mutex!GiveAsserts

(* Every step keeps the invariant.                                         *)
LEMMA NextInv == Inv /\ [NextI2C]_i2cVars => Inv'
  <1> SUFFICES ASSUME Inv, [NextI2C]_i2cVars
               PROVE  TypeOKI2C' /\ SelectedRegisterIsRead' /\ Progress'
    <2>1. (TypeOKI2C /\ Progress => LockAsserts)'
      BY LockAssertsFollow, PTL
    <2> QED BY <2>1 DEF Inv
  <1> USE NoneApart DEF Inv, TypeOKI2C, TypeOK, Mutex!States, Goto, InStep
  <1>1. CASE Construct
    <2> USE <1>1 DEF Construct, vars, Mutex!Create
    <2>1. s_isInitialized' \in BOOLEAN
      OBVIOUS
    <2>2. TypeOKI2C'
      BY <2>1
    <2>3. SelectedRegisterIsRead'
      BY DEF SelectedRegisterIsRead
    <2>4. Progress'
      <3>1. \/ UNCHANGED m_mutex /\ m_mutex # None
            \/ m_mutex' = "free" /\ \A t \in Tasks : at[t] = "idle"
        <4>1. CASE s_isInitialized
          BY <4>1 DEF Progress
        <4>2. CASE ~s_isInitialized
          BY <4>2
        <4> QED BY <4>1, <4>2
      <3>2. ASSUME NEW t \in Tasks PROVE InStep(t)'
        BY <3>1 DEF Progress
      <3>3. m_mutex' # None
        BY <3>1
      <3> QED BY <3>2, <3>3 DEF Progress
    <2> QED BY <2>2, <2>3, <2>4
  <1>2. ASSUME NEW t \in Tasks, NEW c \in Calls, Enter(t, c)
        PROVE  TypeOKI2C' /\ SelectedRegisterIsRead' /\ Progress'
    <2> USE <1>2, CallParts DEF Enter, Invoke
    <2>1. TypeOKI2C'
      OBVIOUS
    <2>2. SelectedRegisterIsRead'
      BY DEF SelectedRegisterIsRead
    <2>3. Progress'
      BY DEF Progress
    <2> QED BY <2>1, <2>2, <2>3
  <1>3. ASSUME NEW t \in Tasks, Begin(t)
        PROVE  TypeOKI2C' /\ SelectedRegisterIsRead' /\ Progress'
    <2> DEFINE c == call[t]
    <2>1. c \in Calls /\ answer[t] = None /\ at[t] = "lock" /\ m_mutex = "free"
      BY <1>3 DEF Begin, Progress, Mutex!Take
    <2>2. /\ c.op \in {"read", "write"}
          /\ c.op = "write" => c.reg \in Registers
      BY <2>1, CallParts
    <2>3. CASE s_isInitialized
      <3>1. /\ at' = [at EXCEPT ![t] = FirstStep(c)] /\ m_mutex' = t
            /\ UNCHANGED <<content, call, answer, s_isInitialized, built, pointer>>
        BY <1>3, <2>3 DEF Begin, Mutex!Take
      <3>2. /\ FirstStep(c) \in {"write", "select", "read"}
            /\ FirstStep(c) = "select" => c.op = "read" /\ c.reg # None
            /\ FirstStep(c) = "read" => c.op = "read" /\ c.reg = None
            /\ FirstStep(c) = "write" => c.op = "write"
        BY <2>2 DEF FirstStep
      <3>3. TypeOKI2C'
        BY <3>1, <3>2
      <3>4. SelectedRegisterIsRead'
        BY <3>1, <3>2, <2>1 DEF SelectedRegisterIsRead
      <3>5. Progress'
        BY <3>1, <3>2, <2>1 DEF Progress
      <3> QED BY <3>3, <3>4, <3>5
    <2>4. CASE ~s_isInitialized
      <3>1. /\ at' = [at EXCEPT ![t] = "unlock"] /\ m_mutex' = t
            /\ answer' = [answer EXCEPT ![t] = Failed]
            /\ UNCHANGED <<content, call, s_isInitialized, built, pointer>>
        BY <1>3, <2>4 DEF Begin, Mutex!Take, Answer
      <3>2. TypeOKI2C'
        BY <3>1
      <3>3. SelectedRegisterIsRead'
        BY <3>1, <2>1 DEF SelectedRegisterIsRead
      <3>4. Progress'
        BY <3>1, <2>1 DEF Progress
      <3> QED BY <3>2, <3>3, <3>4
    <2> QED BY <2>3, <2>4
  <1>10. ASSUME NEW t \in Tasks, BeginAsserts(t)
         PROVE  TypeOKI2C' /\ SelectedRegisterIsRead' /\ Progress'
    <2>1. /\ at[t] = "lock" /\ m_mutex # t /\ at' = [at EXCEPT ![t] = "asserted"]
          /\ UNCHANGED <<content, call, answer, s_isInitialized, m_mutex, built, pointer>>
      BY <1>10 DEF BeginAsserts, Mutex!TimesOut, vars
    <2>2. TypeOKI2C'
      BY <2>1
    <2>3. SelectedRegisterIsRead'
      BY <2>1 DEF SelectedRegisterIsRead
    <2>4. Progress'
      BY <2>1 DEF Progress
    <2> QED BY <2>2, <2>3, <2>4
  <1>4. ASSUME NEW t \in Tasks, switchRegister(t)
        PROVE  TypeOKI2C' /\ SelectedRegisterIsRead' /\ Progress'
    <2> USE <1>4 DEF switchRegister, Select, Answer
    <2>1. call[t] \in Calls /\ call[t].op = "read" /\ call[t].reg # None /\ m_mutex = t
      BY DEF Progress
    <2>2. call[t].dev \in Devices /\ call[t].reg \in Registers
      BY <2>1, CallParts
    <2>3. TypeOKI2C'
      <3>1. pointer' \in [Devices -> Registers] /\ answer' \in [Tasks -> Answers \cup {None}]
        BY <2>2
      <3>2. at' \in [Tasks -> {"idle", "lock", "select", "read", "write", "unlock", "asserted"}]
        OBVIOUS
      <3> QED BY <3>1, <3>2
    <2>4. SelectedRegisterIsRead'
      BY <2>1, <2>2 DEF SelectedRegisterIsRead, Progress
    <2>5. Progress'
      BY <2>1 DEF Progress
    <2> QED BY <2>3, <2>4, <2>5
  <1>5. ASSUME NEW t \in Tasks, read(t)
        PROVE  TypeOKI2C' /\ SelectedRegisterIsRead' /\ Progress'
    <2> USE <1>5 DEF read, Answer
    <2>1. call[t] \in Calls /\ m_mutex = t
      BY DEF Progress
    <2>2. content[call[t].dev][pointer[call[t].dev]] \in Values
      BY <2>1, CallParts
    <2>3. TypeOKI2C'
      BY <2>2
    <2>4. SelectedRegisterIsRead'
      BY DEF SelectedRegisterIsRead
    <2>5. Progress'
      BY <2>1, <2>2 DEF Progress
    <2> QED BY <2>3, <2>4, <2>5
  <1>6. ASSUME NEW t \in Tasks, write(t)
        PROVE  TypeOKI2C' /\ SelectedRegisterIsRead' /\ Progress'
    <2> USE <1>6 DEF write, Select, Answer, Stored
    <2>1. call[t] \in Calls /\ call[t].op = "write" /\ m_mutex = t
      BY DEF Progress
    <2>2. /\ call[t].dev \in Devices /\ call[t].reg \in Registers
          /\ call[t].val \in Values \cup {None}
      BY <2>1, CallParts
    <2>3. content' \in [Devices -> [Registers -> Values]]
      <3>1. CASE content' = content
        BY <3>1
      <3>2. CASE call[t].val \in Values /\ content' = Stored(call[t])
        BY <2>2, <3>2
      <3> QED BY <2>2, <3>1, <3>2
    <2>4. TypeOKI2C'
      <3>1. pointer' \in [Devices -> Registers]
        BY <2>2
      <3>2. answer' \in [Tasks -> Answers \cup {None}]
        OBVIOUS
      <3>3. at' \in [Tasks -> {"idle", "lock", "select", "read", "write", "unlock", "asserted"}]
        OBVIOUS
      <3> QED BY <2>3, <3>1, <3>2, <3>3
    <2>5. SelectedRegisterIsRead'
      BY <2>1 DEF SelectedRegisterIsRead, Progress
    <2>6. Progress'
      BY <2>1 DEF Progress
    <2> QED BY <2>4, <2>5, <2>6
  <1>7. ASSUME NEW t \in Tasks, Leave(t)
        PROVE  TypeOKI2C' /\ SelectedRegisterIsRead' /\ Progress'
    <2> USE <1>7 DEF Leave, Return, Mutex!Give
    <2>1. m_mutex = t
      BY DEF Progress
    <2>2. TypeOKI2C'
      OBVIOUS
    <2>3. SelectedRegisterIsRead'
      BY <2>1 DEF SelectedRegisterIsRead, Progress
    <2>4. Progress'
      <3>1. ASSUME NEW u \in Tasks, u # t PROVE InStep(u)'
        BY <2>1, <3>1 DEF Progress
      <3>2. InStep(t)'
        BY <2>1 DEF Progress
      <3>3. m_mutex' # None
        OBVIOUS
      <3> QED BY <3>1, <3>2, <3>3 DEF Progress
    <2> QED BY <2>2, <2>3, <2>4
  <1>8. ASSUME NEW d \in Devices, NEW r \in Registers, NEW v \in Values, Changes(d, r, v)
        PROVE  TypeOKI2C' /\ SelectedRegisterIsRead' /\ Progress'
    BY <1>8 DEF Changes, Measure, SelectedRegisterIsRead, Progress
  <1>9. CASE UNCHANGED i2cVars
    <2> USE <1>9 DEF i2cVars, vars
    <2>1. TypeOKI2C'
      OBVIOUS
    <2>2. SelectedRegisterIsRead' /\ Progress'
      BY DEF SelectedRegisterIsRead, Progress
    <2> QED BY <2>1, <2>2
  <1> QED
    BY <1>1, <1>2, <1>3, <1>4, <1>5, <1>6, <1>7, <1>8, <1>9, <1>10 DEF NextI2C, Step

(* The assertions in Lock hold, a read answers with the register that its  *)
(* task has selected, and all variables keep their types.                  *)
THEOREM Invariance == SpecI2C => []Inv
  BY InitInv, NextInv, PTL DEF SpecI2C

(* A step of the machine is a step of the register file, or invisible to   *)
(* it: the read is visible when the driver has delivered the bytes, the    *)
(* selection of the register never.                                        *)
LEMMA StepImplements == Inv /\ [NextI2C]_i2cVars => [Next]_vars
  <1> SUFFICES ASSUME Inv, [NextI2C]_i2cVars PROVE Next \/ UNCHANGED vars
    OBVIOUS
  <1> USE NoneApart DEF Inv
  <1>1. CASE Construct
    BY <1>1 DEF Construct
  <1>2. ASSUME NEW t \in Tasks, NEW c \in Calls, Enter(t, c) PROVE Next
    BY <1>2 DEF Enter, Next
  <1>3. ASSUME NEW t \in Tasks, Begin(t) PROVE Next \/ UNCHANGED vars
    <2>1. CASE s_isInitialized
      BY <1>3, <2>1 DEF Begin, vars
    <2>2. CASE ~s_isInitialized
      <3>1. at[t] = "lock" /\ Answer(t, Failed) /\ UNCHANGED content
        BY <1>3, <2>2 DEF Begin
      <3>2. Fail(t)
        BY <3>1 DEF Fail, Progress, InStep
      <3> QED BY <3>2 DEF Next
    <2> QED BY <2>1, <2>2
  <1>10. ASSUME NEW t \in Tasks, BeginAsserts(t) PROVE UNCHANGED vars
    BY <1>10 DEF BeginAsserts
  <1>4. ASSUME NEW t \in Tasks, switchRegister(t) PROVE Next \/ UNCHANGED vars
    <2>1. CASE UNCHANGED answer
      BY <1>4, <2>1 DEF switchRegister, vars
    <2>2. CASE Answer(t, Failed)
      <3>1. Fail(t)
        BY <1>4, <2>2 DEF switchRegister, Fail, Progress, InStep
      <3> QED BY <3>1 DEF Next
    <2> QED BY <1>4, <2>1, <2>2 DEF switchRegister
  <1>5. ASSUME NEW t \in Tasks, read(t) PROVE Next
    <2> DEFINE c == call[t]
    <2>1. /\ c \in Calls /\ c.op = "read" /\ at[t] = "read"
      BY <1>5 DEF read, Progress, InStep, TypeOKI2C, TypeOK
    <2>2. pointer[c.dev] \in Registers /\ (c.reg # None => pointer[c.dev] = c.reg)
      BY <2>1, CallParts DEF SelectedRegisterIsRead, TypeOKI2C
    <2>3. CASE Answer(t, content[c.dev][pointer[c.dev]])
      <3>1. Read(t)
        BY <1>5, <2>1, <2>2, <2>3 DEF read, Read
      <3> QED BY <3>1 DEF Next
    <2>4. CASE Answer(t, Failed)
      <3>1. Fail(t)
        BY <1>5, <2>1, <2>4 DEF read, Fail
      <3> QED BY <3>1 DEF Next
    <2> QED BY <1>5, <2>3, <2>4 DEF read
  <1>6. ASSUME NEW t \in Tasks, write(t) PROVE Next
    <2> DEFINE c == call[t]
    <2>1. c # None /\ c.op = "write"
      BY <1>6 DEF write, Progress, InStep
    <2>2. CASE content' = (IF c.val = None THEN content ELSE Stored(c)) /\ Answer(t, Done)
      <3>1. Write(t)
        BY <2>1, <2>2 DEF Write
      <3> QED BY <3>1 DEF Next
    <2>3. CASE content' = (IF c.val = None THEN content ELSE Stored(c)) /\ Answer(t, Failed)
      <3>1. Fail(t)
        BY <2>1, <2>3 DEF Fail
      <3> QED BY <3>1 DEF Next
    <2>4. CASE UNCHANGED content /\ Answer(t, Failed)
      <3>1. Fail(t)
        BY <2>1, <2>4 DEF Fail
      <3> QED BY <3>1 DEF Next
    <2> QED BY <1>6, <2>2, <2>3, <2>4 DEF write
  <1>7. ASSUME NEW t \in Tasks, Leave(t) PROVE Next
    <2>1. Return(t)
      BY <1>7 DEF Leave
    <2> QED BY <2>1 DEF Next
  <1>8. ASSUME NEW d \in Devices, NEW r \in Registers, NEW v \in Values, Changes(d, r, v)
        PROVE  Next
    BY <1>8 DEF Changes, Next
  <1>9. CASE UNCHANGED i2cVars
    BY <1>9 DEF i2cVars
  <1> QED
    BY <1>1, <1>2, <1>3, <1>4, <1>5, <1>6, <1>7, <1>8, <1>9, <1>10 DEF NextI2C, Step

(* The mutex, taken for the two transactions of a read, makes access to    *)
(* registers atomic: I2C implements RegisterFile.                          *)
THEOREM Implements == SpecI2C => IsRegisterFile
  <1>1. InitI2C => Init
    BY DEF InitI2C
  <1> QED
    BY <1>1, InitInv, NextInv, StepImplements, PTL DEF SpecI2C, IsRegisterFile, Spec
=============================================================================
