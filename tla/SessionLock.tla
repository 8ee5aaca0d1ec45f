---------------------------- MODULE SessionLock -----------------------------
(***************************************************************************)
(* What the model registry promises to the rest of the agent: a lock per   *)
(* ADK session that fails instead of waiting, and the model chosen for the *)
(* session while the agent is open.  There is no table here and nothing is *)
(* ever evicted from it.                                                   *)
(***************************************************************************)
CONSTANTS
    Keys,     \* exact ADK sessions (app, user, session id)
    Callers,  \* invocations and controller calls
    Models,   \* models other than the construction-time one
    Default,  \* no live model: the construction-time one is wanted
    Nobody    \* no caller

VARIABLES
    holder,   \* who is admitted to each session
    chosen,   \* the live desired model of each session
    shut      \* the agent has been closed

lockVars == <<holder, chosen, shut>>

LockInit ==
    /\ holder = [k \in Keys |-> Nobody]
    /\ chosen = [k \in Keys |-> Default]
    /\ shut = FALSE

Lock(c, k) ==
    /\ ~shut /\ holder[k] = Nobody
    /\ holder' = [holder EXCEPT ![k] = c]
    /\ UNCHANGED <<chosen, shut>>

Unlock(c, k) ==
    /\ holder[k] = c
    /\ holder' = [holder EXCEPT ![k] = Nobody]
    /\ UNCHANGED <<chosen, shut>>

Choose(c, k, m) ==
    /\ holder[k] = c /\ ~shut
    /\ chosen' = [chosen EXCEPT ![k] = m]
    /\ UNCHANGED <<holder, shut>>

\* Closing forgets the choices; who is admitted finishes and unlocks.
Shut ==
    /\ shut' = TRUE
    /\ chosen' = [k \in Keys |-> Default]
    /\ UNCHANGED holder

LockNext ==
    \/ \E c \in Callers, k \in Keys :
         \/ Lock(c, k) \/ Unlock(c, k)
         \/ \E m \in Models \cup {Default} : Choose(c, k, m)
    \/ Shut

LockSpec == LockInit /\ [][LockNext]_lockVars
=============================================================================
