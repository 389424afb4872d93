--------------------------------- MODULE I2C ---------------------------------
(***************************************************************************)
(* drivers/esparrag_i2c.{h,cpp}: tasks that read and write the registers   *)
(* of the devices on one bus, through objects that share one static mutex  *)
(* (common/lock.h).  The ESP-IDF driver and the devices are external.  What *)
(* a command list does is decided when the driver runs it                  *)
(* (i2c_master_cmd_begin); building the list may fail before.  Addresses   *)
(* are abstracted to devices; the bytes of a value are written and read as *)
(* one.                                                                    *)
(***************************************************************************)
EXTENDS RegisterFile, Naturals

CONSTANT MaxObjects     \* how many objects the application constructs

ASSUME I2CConstants ==
    /\ MaxObjects \in Nat
    /\ {None, "free"} \cap Tasks = {} /\ None # "free"

VARIABLES
    s_isInitialized,
    m_mutex,
    built,          \* how many objects have been constructed, for whatever device
    at,             \* task -> where it is: "idle", "lock" (in Lock's constructor),
                    \*   "select", "read", "write", "unlock" (in Lock's destructor),
                    \*   or "asserted" (stopped there for ever)
    pointer         \* device -> the register its next read answers with

i2cVars == <<vars, s_isInitialized, m_mutex, built, at, pointer>>

Mutex == INSTANCE Lock WITH Null <- None

Locking   == {t \in Tasks : at[t] = "lock"}
Unlocking == {t \in Tasks : at[t] = "unlock"}

Goto(t, step) == at' = [at EXCEPT ![t] = step]

InitI2C ==
    /\ Init
    /\ s_isInitialized = FALSE
    /\ m_mutex = None
    /\ built = 0
    /\ at = [t \in Tasks |-> "idle"]
    /\ pointer \in [Devices -> Registers]

(* The constructor, with init() unless that has succeeded before; init     *)
(* makes the mutex anew each time.  The application constructs its objects *)
(* one after the other, and none of them is in use while init runs: neither *)
(* is enforced.                                                            *)
Construct ==
    /\ built < MaxObjects /\ built' = built + 1
    /\ IF s_isInitialized
       THEN UNCHANGED <<s_isInitialized, m_mutex>>
       ELSE /\ \A t \in Tasks : at[t] = "idle"
            /\ Mutex!Create
            /\ s_isInitialized' \in BOOLEAN
    /\ UNCHANGED <<vars, at, pointer>>

Enter(t, c) ==
    /\ built > 0
    /\ Invoke(t, c)
    /\ Goto(t, "lock")
    /\ UNCHANGED <<s_isInitialized, m_mutex, built, pointer>>

(* Lock lock(m_mutex), and the look at s_isInitialized under it.           *)
FirstStep(c) ==
    CASE c.op = "write"                   -> "write"
      [] c.op = "read" /\ c.reg # None    -> "select"
      [] OTHER                            -> "read"

Begin(t) ==
    /\ at[t] = "lock"
    /\ Mutex!Take(t)
    /\ IF s_isInitialized
       THEN Goto(t, FirstStep(call[t])) /\ UNCHANGED answer
       ELSE Goto(t, "unlock") /\ Answer(t, Failed)
    /\ UNCHANGED <<content, call, s_isInitialized, built, pointer>>

\* The assertion in Lock's constructor on the result of its wait fails.
BeginAsserts(t) ==
    /\ at[t] = "lock" /\ Goto(t, "asserted")
    /\ Mutex!TimesOut(t)
    /\ UNCHANGED <<vars, s_isInitialized, built, pointer>>

Select(c) == pointer' = [pointer EXCEPT ![c.dev] = c.reg]

\* Mutant: the lock is given up between the two transactions of a read.
selectAndUnlock(t) ==
    /\ at[t] = "select" /\ Goto(t, "read")
    /\ Select(call[t])
    /\ Mutex!Give(t)
    /\ UNCHANGED <<vars, s_isInitialized, built>>

(* switchRegister: no stop is sent.  The device may have taken the         *)
(* register when the driver reports an error.                              *)
switchRegister(t) ==
    /\ at[t] = "select"
    /\ \/ Select(call[t]) /\ Goto(t, "read") /\ UNCHANGED answer
       \/ /\ Select(call[t]) \/ UNCHANGED pointer
          /\ Answer(t, Failed) /\ Goto(t, "unlock")
    /\ UNCHANGED <<content, call, s_isInitialized, m_mutex, built>>

\* Mutant: a read that fails returns without unlocking.
readKeepsLock(t) ==
    /\ at[t] = "read"
    /\ \/ Answer(t, content[call[t].dev][pointer[call[t].dev]]) /\ Goto(t, "unlock")
       \/ answer' = [answer EXCEPT ![t] = None] /\ call' = [call EXCEPT ![t] = None]
          /\ Goto(t, "idle")
    /\ UNCHANGED <<content, s_isInitialized, m_mutex, built, pointer>>

read(t) ==
    /\ at[t] = "read" /\ Goto(t, "unlock")
    /\ \/ Answer(t, content[call[t].dev][pointer[call[t].dev]])
       \/ Answer(t, Failed)
    /\ UNCHANGED <<content, s_isInitialized, m_mutex, built, pointer>>

(* The caller of Write(data) puts the device's address first, as           *)
(* Write(regAddr, data) does; then both send the register, and perhaps a   *)
(* value.  Either may have arrived when the driver reports an error.       *)
write(t) ==
    LET c == call[t] IN
    /\ at[t] = "write" /\ Goto(t, "unlock")
    /\ \/ /\ Select(c)
          /\ content' = IF c.val = None THEN content ELSE Stored(c)
          /\ Answer(t, Done) \/ Answer(t, Failed)
       \/ /\ Select(c) \/ UNCHANGED pointer
          /\ UNCHANGED content
          /\ Answer(t, Failed)
    /\ UNCHANGED <<s_isInitialized, m_mutex, built>>

Leave(t) ==
    /\ at[t] = "unlock" /\ Goto(t, "idle")
    /\ Mutex!Give(t)
    /\ Return(t)
    /\ UNCHANGED <<s_isInitialized, built, pointer>>

\* External.
Changes(d, r, v) ==
    /\ Measure(d, r, v)
    /\ UNCHANGED <<s_isInitialized, m_mutex, built, at, pointer>>

Step(t) ==
    Begin(t) \/ BeginAsserts(t) \/ switchRegister(t) \/ read(t) \/ write(t) \/ Leave(t)

NextI2C ==
    \/ Construct
    \/ \E t \in Tasks, c \in Calls : Enter(t, c)
    \/ \E t \in Tasks : Step(t)
    \/ \E d \in Devices, r \in Registers, v \in Values : Changes(d, r, v)

SpecI2C == InitI2C /\ [][NextI2C]_i2cVars

-----------------------------------------------------------------------------
(* Properties.                                                             *)

TypeOKI2C ==
    /\ TypeOK
    /\ s_isInitialized \in BOOLEAN
    /\ m_mutex \in Mutex!States
    /\ built \in 0..MaxObjects
    /\ at \in [Tasks -> {"idle", "lock", "select", "read", "write", "unlock", "asserted"}]
    /\ pointer \in [Devices -> Registers]

(* Of the assertions in Lock only the one on the wait can fail: the mutex  *)
(* exists when it is taken, and is given back by the task that took it.    *)
LockAsserts == Mutex!HandleAsserts(Locking) /\ Mutex!GiveAsserts(Unlocking)

(* A task that is about to read has the lock to itself, and the device     *)
(* still has the register that this task has selected.                     *)
SelectedRegisterIsRead ==
    \A t \in Tasks :
        at[t] = "read" =>
            /\ m_mutex = t
            /\ call[t].reg # None => pointer[call[t].dev] = call[t].reg

(* Where a task stands, its call, its answer and the mutex belong together; *)
(* a task that an assertion has stopped keeps nobody from the bus.         *)
InStep(t) ==
    /\ at[t] = "idle" <=> call[t] = None
    /\ answer[t] # None <=> at[t] = "unlock"
    /\ at[t] \in {"select", "read", "write", "unlock"} <=> m_mutex = t
    /\ at[t] # "idle" => built > 0
    /\ at[t] = "select" => call[t].op = "read" /\ call[t].reg # None
    /\ at[t] = "read" => call[t].op = "read"
    /\ at[t] = "write" => call[t].op = "write"

Progress ==
    /\ s_isInitialized \/ built > 0 => m_mutex # None
    /\ \A t \in Tasks : InStep(t)

Inv == TypeOKI2C /\ LockAsserts /\ SelectedRegisterIsRead /\ Progress

(* The mutex and its scope make register access atomic: I2C implements     *)
(* RegisterFile, whose variables it has.                                   *)
IsRegisterFile == Spec
=============================================================================
