----------------------------- MODULE RegisterFile -----------------------------
(***************************************************************************)
(* What class I2C promises the tasks that share a bus: a read or write of  *)
(* a register is a single step, whatever the other tasks and failing       *)
(* library calls do.  A failed write may have had its effect.              *)
(***************************************************************************)
CONSTANTS Tasks, Devices, Registers, Values,
          None,             \* no call, no register, no value, no answer
          Done, Failed      \* answers without a value

Calls == [op : {"write"}, dev : Devices, reg : Registers, val : Values \cup {None}]
            \cup [op : {"read"}, dev : Devices, reg : Registers \cup {None}, val : {None}]

Answers == Values \cup {Done, Failed}

ASSUME RegisterConstants ==
    /\ None \notin Values \cup Registers \cup Calls \cup Answers
    /\ {Done, Failed} \cap Values = {} /\ Done # Failed

VARIABLES content,      \* device -> register -> value
          call,         \* task -> the call it is in, or None
          answer        \* task -> the answer of that call once it has one, or None

vars == <<content, call, answer>>

TypeOK ==
    /\ content \in [Devices -> [Registers -> Values]]
    /\ call \in [Tasks -> Calls \cup {None}]
    /\ answer \in [Tasks -> Answers \cup {None}]

Init ==
    /\ content \in [Devices -> [Registers -> Values]]
    /\ call = [t \in Tasks |-> None]
    /\ answer = [t \in Tasks |-> None]

Invoke(t, c) ==
    /\ call[t] = None
    /\ call' = [call EXCEPT ![t] = c]
    /\ UNCHANGED <<content, answer>>

\* A read without a register answers with one that was selected before, by
\* whichever task used the device last.
Answer(t, a) ==
    /\ answer[t] = None
    /\ answer' = [answer EXCEPT ![t] = a]
    /\ UNCHANGED call

Stored(c) == [content EXCEPT ![c.dev][c.reg] = c.val]

Read(t) ==
    /\ call[t] # None /\ call[t].op = "read"
    /\ \E r \in Registers :
          /\ call[t].reg # None => r = call[t].reg
          /\ Answer(t, content[call[t].dev][r])
    /\ UNCHANGED content

Write(t) ==
    /\ call[t] # None /\ call[t].op = "write"
    /\ Answer(t, Done)
    /\ content' = IF call[t].val = None THEN content ELSE Stored(call[t])

Fail(t) ==
    /\ call[t] # None
    /\ Answer(t, Failed)
    /\ \/ UNCHANGED content
       \/ call[t].op = "write" /\ call[t].val # None /\ content' = Stored(call[t])

Return(t) ==
    /\ answer[t] # None
    /\ call' = [call EXCEPT ![t] = None]
    /\ answer' = [answer EXCEPT ![t] = None]
    /\ UNCHANGED content

\* A device may change its registers by itself, a sensor for instance.
Measure(d, r, v) ==
    /\ content' = [content EXCEPT ![d][r] = v]
    /\ UNCHANGED <<call, answer>>

Next ==
    \/ \E t \in Tasks : Read(t) \/ Write(t) \/ Fail(t) \/ Return(t)
    \/ \E t \in Tasks, c \in Calls : Invoke(t, c)
    \/ \E d \in Devices, r \in Registers, v \in Values : Measure(d, r, v)

Spec == Init /\ [][Next]_vars
=============================================================================
