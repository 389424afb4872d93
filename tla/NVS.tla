--------------------------------- MODULE NVS ---------------------------------
(***************************************************************************)
(* drivers/esparrag_nvs.{h,cpp}: objects for one namespace of the flash,   *)
(* each with a handle and a mutex of its own, that several tasks use.  The  *)
(* nvs library is external: a call of it may fail, a value that was set is  *)
(* found by every handle, and what has not been committed may or may not    *)
(* survive a restart.  Keys are used with one type each.                    *)
(***************************************************************************)
EXTENDS KeyStore

CONSTANT Objects

ASSUME NVSConstants == {None, "free"} \cap Tasks = {} /\ None # "free"

VARIABLES
    open,           \* the objects that have been constructed
    m_mutex,        \* object -> its mutex
    via,            \* task -> the object of its call
    at,             \* task -> "idle", "lock", "size", "value", "set", "erase",
                    \*   "commit", "unlock" or "asserted" (in Lock, for ever)
    requiredLen     \* task -> the length that the first of two reads has found

nvsVars == <<vars, open, m_mutex, via, at, requiredLen>>

Goto(t, step) == at' = [at EXCEPT ![t] = step]

InitNVS ==
    /\ Init
    /\ open = {}
    /\ m_mutex = [o \in Objects |-> None]
    /\ via = [t \in Tasks |-> None]
    /\ at = [t \in Tasks |-> "idle"]
    /\ requiredLen = [t \in Tasks |-> None]

(* The constructor, with init() the first time.  One whose nvs_flash_init  *)
(* or nvs_open fails stops its task: no object, no step.                   *)
Construct(o) ==
    /\ o \notin open /\ open' = open \cup {o}
    /\ m_mutex' = [m_mutex EXCEPT ![o] = "free"]
    /\ UNCHANGED <<vars, via, at, requiredLen>>

Enter(t, c, o) ==
    /\ o \in open
    /\ Invoke(t, c)
    /\ via' = [via EXCEPT ![t] = o]
    /\ Goto(t, "lock")
    /\ UNCHANGED <<open, m_mutex, requiredLen>>

(* Lock lock(m_mutex).  GetUint32 reads its value without asking for a     *)
(* length.                                                                 *)
FirstStep(c) ==
    CASE c.op = "get" /\ c.max # None -> "size"
      [] c.op = "get" /\ c.max = None -> "value"
      [] OTHER                        -> c.op

\* Mutant: setting does not lock.
BeginUnlocked(t) ==
    /\ at[t] = "lock"
    /\ Goto(t, FirstStep(call[t]))
    /\ IF call[t].op = "set" THEN UNCHANGED m_mutex
       ELSE /\ m_mutex[via[t]] = "free"
            /\ m_mutex' = [m_mutex EXCEPT ![via[t]] = t]
    /\ UNCHANGED <<vars, open, via, requiredLen>>

Begin(t) ==
    /\ at[t] = "lock"
    /\ m_mutex[via[t]] = "free"
    /\ m_mutex' = [m_mutex EXCEPT ![via[t]] = t]
    /\ Goto(t, FirstStep(call[t]))
    /\ UNCHANGED <<vars, open, via, requiredLen>>

\* The assertion in Lock's constructor on the result of its wait fails.
BeginAsserts(t) ==
    /\ at[t] = "lock" /\ Goto(t, "asserted")
    /\ m_mutex[via[t]] \in Tasks \ {t}
    /\ UNCHANGED <<vars, open, m_mutex, via, requiredLen>>

\* The end of a call but for the unlocking.
Answered(t, a) == Answer(t, a) /\ Goto(t, "unlock")

(* GetString and GetBlob, the first of two reads: the length.              *)
GetLength(t) ==
    LET v == value[call[t].key] IN
    /\ at[t] = "size"
    /\ \/ v = None /\ Answered(t, NotFound) /\ UNCHANGED requiredLen
       \/ Answered(t, Failed) /\ UNCHANGED requiredLen
       \/ /\ v # None /\ v > call[t].max
          /\ Answered(t, TooLong) /\ UNCHANGED requiredLen
       \/ /\ Fits(v, call[t].max)
          /\ requiredLen' = [requiredLen EXCEPT ![t] = v]
          /\ Goto(t, "value") /\ UNCHANGED answer
    /\ UNCHANGED <<value, durable, call, open, m_mutex, via>>

(* The value itself.  The library refuses one that is longer than the      *)
(* length it is given.  A value that is gone by now is a failure, except   *)
(* for GetUint32, which has not looked before.                             *)
GetValue(t) ==
    LET v == value[call[t].key] IN
    /\ at[t] = "value"
    /\ \/ Fits(v, requiredLen[t]) /\ Answered(t, v)
       \/ v = None /\ call[t].max = None /\ Answered(t, NotFound)
       \/ Answered(t, Failed)
    /\ UNCHANGED <<value, durable, call, open, m_mutex, via, requiredLen>>

SetValue(t) ==
    /\ at[t] = "set"
    /\ \/ Store({call[t].key}, call[t].val) /\ (Answered(t, Done) \/ Answered(t, Failed))
       \/ UNCHANGED <<value, durable>> /\ Answered(t, Failed)
    /\ UNCHANGED <<call, open, m_mutex, via, requiredLen>>

(* nvs_erase_key fails for a key that is not there, nvs_erase_all does not *)
(* for an empty namespace.                                                 *)
EraseKeys(t) ==
    LET K == call[t].keys IN
    /\ at[t] = "erase"
    /\ \/ /\ K = Keys \/ \A k \in K : value[k] # None
          /\ Store(K, None) /\ Answered(t, Done)
       \/ \E L \in SUBSET K : Store(L, None) /\ Answered(t, Failed)
    /\ UNCHANGED <<call, open, m_mutex, via, requiredLen>>

\* Mutant: the result of nvs_commit is not looked at.
CommitUnchecked(t) ==
    /\ at[t] = "commit" /\ Answered(t, Done)
    /\ durable' = [k \in Keys |-> {value[k]}] \/ UNCHANGED durable
    /\ UNCHANGED <<value, call, open, m_mutex, via, requiredLen>>

CommitValues(t) ==
    /\ at[t] = "commit"
    /\ \/ durable' = [k \in Keys |-> {value[k]}] /\ Answered(t, Done)
       \/ UNCHANGED durable /\ Answered(t, Failed)
    /\ UNCHANGED <<value, call, open, m_mutex, via, requiredLen>>

Leave(t) ==
    /\ at[t] = "unlock" /\ Goto(t, "idle")
    /\ m_mutex' = [m_mutex EXCEPT ![via[t]] = "free"]
    /\ Return(t)
    /\ via' = [via EXCEPT ![t] = None]
    /\ requiredLen' = [requiredLen EXCEPT ![t] = None]
    /\ UNCHANGED open

\* The device restarts: what is in RAM starts anew.
PowerLoss ==
    /\ Restart
    /\ open' = {}
    /\ m_mutex' = [o \in Objects |-> None]
    /\ via' = [t \in Tasks |-> None]
    /\ at' = [t \in Tasks |-> "idle"]
    /\ requiredLen' = [t \in Tasks |-> None]

Step(t) ==
    Begin(t) \/ BeginAsserts(t) \/ GetLength(t) \/ GetValue(t) \/ SetValue(t)
        \/ EraseKeys(t) \/ CommitValues(t) \/ Leave(t)

NextNVS ==
    \/ \E o \in Objects : Construct(o)
    \/ \E t \in Tasks, c \in Calls, o \in Objects : Enter(t, c, o)
    \/ \E t \in Tasks : Step(t)
    \/ PowerLoss

SpecNVS == InitNVS /\ [][NextNVS]_nvsVars

-----------------------------------------------------------------------------
(* Properties.                                                             *)

Reading(t) == at[t] = "value" /\ requiredLen[t] # None

TypeOKNVS ==
    /\ TypeOK
    /\ open \subseteq Objects
    /\ m_mutex \in [Objects -> {None, "free"} \cup Tasks]
    /\ via \in [Tasks -> Objects \cup {None}]
    /\ at \in [Tasks -> {"idle", "lock", "size", "value", "set", "erase", "commit",
                         "unlock", "asserted"}]
    /\ requiredLen \in [Tasks -> Values \cup {None}]

(* As long as the namespace has one object, a value does not change        *)
(* between the read of its length and the read of itself, and never        *)
(* anything is read that is longer than the caller's buffer.               *)
LengthStaysTrue ==
    \A t \in Tasks :
        Reading(t) =>
            /\ requiredLen[t] <= call[t].max
            /\ (\A o, p \in open : o = p) => value[call[t].key] = requiredLen[t]

(* The mutex of an object is held by the task inside one of its calls.     *)
HolderIsInside ==
    \A o \in Objects, t \in Tasks :
        m_mutex[o] = t <=> (at[t] \notin {"idle", "lock", "asserted"} /\ via[t] = o)

(* Where a task stands, its call, its answer and its object belong together. *)
InStep(t) ==
    /\ at[t] = "idle" <=> call[t] = None
    /\ answer[t] # None <=> at[t] = "unlock"
    /\ at[t] # "idle" => via[t] \in open
    /\ at[t] \in {"size", "value"} => call[t].op = "get"
    /\ at[t] = "size" => call[t].max # None
    /\ at[t] = "value" => (requiredLen[t] = None <=> call[t].max = None)
    /\ at[t] \in {"set", "erase", "commit"} => call[t].op = at[t]
    /\ at[t] \notin {"value", "unlock"} => requiredLen[t] = None

Inv ==
    /\ TypeOKNVS /\ HolderIsInside /\ LengthStaysTrue
    /\ \A t \in Tasks : InStep(t)

(* Tasks that share objects, and objects that share the namespace, see     *)
(* each operation as a single step, and a committed value survives a       *)
(* restart: NVS implements KeyStore, whose variables it has.               *)
IsKeyStore == Spec
=============================================================================
