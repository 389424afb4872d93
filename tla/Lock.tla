-------------------------------- MODULE Lock --------------------------------
(***************************************************************************)
(* common/lock.h on a FreeRTOS mutex: the constructor takes it, the        *)
(* destructor gives it back on every way out of the block.  The constructor *)
(* asserts that it gets the mutex within 5 seconds.  A mutex is not handed *)
(* over: whoever is scheduled first takes it, so that a task that waits may *)
(* fail that assertion, which stops it for ever.                           *)
(***************************************************************************)
CONSTANTS Tasks, Null

VARIABLE m_mutex    \* Null before it is created, "free", or the task that holds it

States == {Null, "free"} \cup Tasks

Create == m_mutex' = "free"

Take(t) == m_mutex = "free" /\ m_mutex' = t

\* The 5 seconds of xSemaphoreTake are over before somebody else gives.
TimesOut(t) == m_mutex \in Tasks \ {t} /\ UNCHANGED m_mutex

\* FreeRTOS lets only the holder give: the assertion on the result, see GiveAsserts.
Give(t) == m_mutex' = "free"

\* ESPARRAG_ASSERT on the handle, for the tasks that are about to take the mutex.
HandleAsserts(locking) == locking # {} => m_mutex # Null

\* ESPARRAG_ASSERT in the destructor, for the tasks that are about to unlock.
GiveAsserts(unlocking) == \A t \in unlocking : m_mutex = t
=============================================================================
