------------------------------- MODULE KeyStore -------------------------------
(***************************************************************************)
(* What class NVS promises the tasks that share a namespace: every get,    *)
(* set, erase and commit is a single step; a get answers with a whole      *)
(* value that fits its buffer; a restart finds, for each key, the value of *)
(* the last commit or one that was set or erased since.                    *)
(***************************************************************************)
EXTENDS Naturals

CONSTANTS Tasks, Keys,
          Values,           \* a value is abstracted to its length
          None,             \* no call, no answer, no value, or a get without a limit
          Done, Failed, NotFound, TooLong

(* GetUint32 has no limit; Erase takes one key or all of them.             *)
Calls == [op : {"get"}, key : Keys, max : Values \cup {None}]
            \cup [op : {"set"}, key : Keys, val : Values]
            \cup [op : {"erase"}, keys : {{k} : k \in Keys} \cup {Keys}]
            \cup [op : {"commit"}]

Answers == Values \cup {Done, Failed, NotFound, TooLong}

ASSUME StoreConstants ==
    /\ Values \subseteq Nat
    /\ None \notin Values \cup Calls \cup Answers

VARIABLES value,        \* key -> the value a get would find, or None
          durable,      \* key -> what a restart may find: values or None
          call, answer

vars == <<value, durable, call, answer>>

TypeOK ==
    /\ value \in [Keys -> Values \cup {None}]
    /\ durable \in [Keys -> SUBSET (Values \cup {None})]
    /\ call \in [Tasks -> Calls \cup {None}]
    /\ answer \in [Tasks -> Answers \cup {None}]

Init ==
    /\ value = [k \in Keys |-> None]
    /\ durable = [k \in Keys |-> {None}]
    /\ call = [t \in Tasks |-> None]
    /\ answer = [t \in Tasks |-> None]

Invoke(t, c) ==
    /\ call[t] = None
    /\ call' = [call EXCEPT ![t] = c]
    /\ UNCHANGED <<value, durable, answer>>

Answer(t, a) ==
    /\ answer[t] = None
    /\ answer' = [answer EXCEPT ![t] = a]
    /\ UNCHANGED call

InCall(t, op) == call[t] # None /\ call[t].op = op

Fits(v, max) == v # None /\ (max # None => v <= max)

Get(t) ==
    LET v == value[call[t].key] IN
    /\ InCall(t, "get")
    /\ Answer(t, CASE v = None             -> NotFound
                   [] Fits(v, call[t].max) -> v
                   [] OTHER                -> TooLong)
    /\ UNCHANGED <<value, durable>>

\* The keys in K take the value v.
Store(K, v) ==
    /\ value' = [k \in Keys |-> IF k \in K THEN v ELSE value[k]]
    /\ durable' = [k \in Keys |-> IF k \in K THEN durable[k] \cup {v} ELSE durable[k]]

Set(t) ==
    /\ InCall(t, "set") /\ Answer(t, Done)
    /\ Store({call[t].key}, call[t].val)

Erase(t) ==
    /\ InCall(t, "erase") /\ Answer(t, Done)
    /\ Store(call[t].keys, None)

Commit(t) ==
    /\ InCall(t, "commit") /\ Answer(t, Done)
    /\ durable' = [k \in Keys |-> {value[k]}]
    /\ UNCHANGED value

\* A call that fails may have stored, or erased a part of what it should.
Fail(t) ==
    /\ call[t] # None /\ Answer(t, Failed)
    /\ \/ UNCHANGED <<value, durable>>
       \/ InCall(t, "set") /\ Store({call[t].key}, call[t].val)
       \/ InCall(t, "erase") /\ \E K \in SUBSET call[t].keys : Store(K, None)

Return(t) ==
    /\ answer[t] # None
    /\ call' = [call EXCEPT ![t] = None]
    /\ answer' = [answer EXCEPT ![t] = None]
    /\ UNCHANGED <<value, durable>>

Restart ==
    /\ value' \in [Keys -> UNION {durable[k] : k \in Keys}]
    /\ \A k \in Keys : value'[k] \in durable[k]
    /\ durable' = [k \in Keys |-> {value'[k]}]
    /\ call' = [t \in Tasks |-> None]
    /\ answer' = [t \in Tasks |-> None]

Next ==
    \/ \E t \in Tasks :
          Get(t) \/ Set(t) \/ Erase(t) \/ Commit(t) \/ Fail(t) \/ Return(t)
    \/ \E t \in Tasks, c \in Calls : Invoke(t, c)
    \/ Restart

Spec == Init /\ [][Next]_vars
=============================================================================
