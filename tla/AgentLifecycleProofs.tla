------------------------ MODULE AgentLifecycleProofs ------------------------
(***************************************************************************)
(* For any number of concurrent first calls and of calls of Close, an      *)
(* Agent never runs two subprocesses, a failed call and a closed agent     *)
(* leave none behind, a published one is not canceled by its caller, the   *)
(* gate is given back by every call, and an orderly close reports no error.*)
(***************************************************************************)
EXTENDS AgentLifecycle, TLAPS

-----------------------------------------------------------------------------
(* The inductive invariant.  TypeOK says that the actors past the gate hold *)
(* it, so that at most one of them is there.                               *)

\* A call that has not launched anything yet, and one that has.
Early   == {"idle", "queued", "check", "launch"}
Started == {"initialize", "decide", "publish", "abort"}

\* What a call in progress has launched and published so far.
LaunchInv ==
    \A c \in Callers :
        /\ pc[c] \in Early => child[c] = "none" /\ shutdown[c] = "open" /\ client # c
        /\ pc[c] \in Started => child[c] # "none" /\ client # c
        /\ pc[c] \in Started \cup {"launch"} => client = Nobody /\ ~closed
        /\ pc[c] \in Started \ {"abort"} => shutdown[c] = "open"
        /\ pc[c] = "failed" => Down(c) /\ client # c
        /\ pc[c] = "ok" => client = c \/ child[c] = "none"

\* Until its startup context is done a call can still be published, and then
\* nothing may have canceled its subprocess.
HookInv ==
    \A c \in Callers :
        /\ pc[c] \in {"idle", "queued", "check"} => hook[c] = "none" /\ ~canceled[c]
        /\ pc[c] \in {"launch", "initialize"} /\ ~startup[c] =>
               hook[c] = "armed" /\ ~canceled[c]
        /\ pc[c] = "decide" => hook[c] # "armed"
        /\ pc[c] = "decide" /\ ~startup[c] => hook[c] = "over" /\ ~canceled[c]
        /\ pc[c] = "publish" => hook[c] = "over" /\ ~canceled[c]
        /\ client = c /\ shutdown[c] = "open" => hook[c] = "over" /\ ~canceled[c]
        /\ client = c => hook[c] = "over"

\* How far Client.Close is says what has become of the subprocess.
ShutdownInv ==
    \A c \in Callers :
        /\ client = c => pc[c] = "ok" /\ child[c] # "none"
        /\ shutdown[c] # "open" => child[c] # "none"
        /\ shutdown[c] \in {"ok", "err"} => child[c] = "reaped"
        /\ shutdown[c] \in {"killed", "timeout"} =>
               child[c] \in {"stray", "exited", "reaped"} /\ canceled[c]

\* A Close that has returned has seen the client it found closed.
CloseInv ==
    \A z \in Closers :
        /\ pc[z] = "closing" => closed /\ client # Nobody
        /\ pc[z] \in Returned =>
               /\ closed
               /\ client # Nobody => shutdown[client] \in {"ok", "err", "timeout"}

IInv == TypeOK /\ LaunchInv /\ HookInv /\ ShutdownInv /\ CloseInv

-----------------------------------------------------------------------------
\* The initial state satisfies the invariant.
LEMMA InvInit == Init => IInv
<1> SUFFICES ASSUME Init PROVE IInv
  OBVIOUS
<1> USE DEF Init
<1>1. TypeOK
  BY DEF TypeOK, PastGate, CallerPcs, CloserPcs, Returned
<1>2. LaunchInv /\ ShutdownInv
  BY AgentLifecycleAssumption DEF LaunchInv, ShutdownInv, Early, Started
<1>3. HookInv /\ CloseInv
  BY AgentLifecycleAssumption DEF HookInv, CloseInv, Returned
<1> QED
  BY <1>1, <1>2, <1>3 DEF IInv

\* Every step preserves the invariant.
LEMMA InvNext == IInv /\ [Next]_vars => IInv'
<1> SUFFICES ASSUME IInv, [Next]_vars PROVE IInv'
  OBVIOUS
<1> USE AgentLifecycleAssumption
    DEF IInv, TypeOK, LaunchInv, HookInv, ShutdownInv, CloseInv, PastGate,
        CallerPcs, CloserPcs, Returned, Early, Started, Down
<1>1. ASSUME cancelRoot PROVE IInv'
  BY <1>1 DEF cancelRoot, callVars, processVars
<1>2. ASSUME NEW c \in Callers, cancelCall(c) PROVE IInv'
  BY <1>2 DEF cancelCall, CancelStartup, agentVars, processVars
<1>3. ASSUME NEW c \in Callers, lifecycleAfterFunc(c) PROVE IInv'
  BY <1>3 DEF lifecycleAfterFunc, CancelStartup, agentVars, processVars
<1>4. ASSUME NEW c \in Callers, startupAfterFunc(c) PROVE IInv'
  BY <1>4 DEF startupAfterFunc, agentVars
<1>5. ASSUME NEW c \in Callers, ensureInitialized(c) PROVE IInv'
  BY <1>5 DEF ensureInitialized, Goto, agentVars, callVars, processVars
<1>6. ASSUME NEW c \in Callers, enterGate(c) PROVE IInv'
  BY <1>6 DEF enterGate, Goto, agentVars, callVars, processVars
<1>7. ASSUME NEW c \in Callers, leaveQueue(c) PROVE IInv'
  BY <1>7 DEF leaveQueue, Return, agentVars, processVars
<1>8. ASSUME NEW c \in Callers, check(c) PROVE IInv'
  <2>1. CASE closed \/ lifecycle \/ startup[c]
    <3>1. pc[c] = "check" /\ Return(c, "failed") /\ UNCHANGED <<agentVars, processVars>>
      BY <1>8, <2>1 DEF check
    <3> QED
      BY <2>1, <3>1 DEF Return, agentVars, processVars
  <2>2. CASE ~(closed \/ lifecycle \/ startup[c]) /\ client # Nobody
    <3>1. pc[c] = "check" /\ Return(c, "ok") /\ UNCHANGED <<agentVars, processVars>>
      BY <1>8, <2>2 DEF check
    <3> QED
      BY <2>2, <3>1 DEF Return, agentVars, processVars
  <2>3. CASE ~(closed \/ lifecycle \/ startup[c]) /\ client = Nobody
    BY <1>8, <2>3 DEF check, agentVars, processVars
  <2> QED
    BY <2>1, <2>2, <2>3
<1>9. ASSUME NEW c \in Callers, newClient(c) PROVE IInv'
  BY <1>9 DEF newClient, Goto, processDone, agentVars, callVars
<1>10. ASSUME NEW c \in Callers, newClientFails(c) PROVE IInv'
  BY <1>10 DEF newClientFails, Return, agentVars
<1>11. ASSUME NEW c \in Callers, NEW ok \in BOOLEAN, initialize(c, ok)
       PROVE  IInv'
  BY <1>11 DEF initialize, Goto, agentVars, processVars
<1>12. ASSUME NEW c \in Callers, decide(c) PROVE IInv'
  BY <1>12 DEF decide, Goto, agentVars, callVars, processVars
<1>13. ASSUME NEW c \in Callers, publish(c) PROVE IInv'
  BY <1>13 DEF publish, Return, processVars
<1>14. ASSUME NEW c \in Callers, abort(c) PROVE IInv'
  BY <1>14 DEF abort, Return, agentVars, processVars
<1>15. ASSUME NEW c \in Callers, closeProcess(c) PROVE IInv'
  BY <1>15 DEF closeProcess, beingClosed, agentVars, callVars
<1>16. ASSUME NEW c \in Callers, graceTimeout(c) PROVE IInv'
  BY <1>16 DEF graceTimeout, agentVars, callVars
<1>17. ASSUME NEW c \in Callers, cleanupTimeout(c) PROVE IInv'
  BY <1>17 DEF cleanupTimeout, agentVars, callVars
<1>18. ASSUME NEW c \in Callers, finalizeCloseErr(c) PROVE IInv'
  BY <1>18 DEF finalizeCloseErr, agentVars, callVars
<1>19. ASSUME NEW c \in Callers, childExit(c) PROVE IInv'
  BY <1>19 DEF childExit, agentVars, callVars
<1>20. ASSUME NEW c \in Callers, NEW failed \in BOOLEAN, waitLoop(c, failed)
       PROVE  IInv'
  BY <1>20 DEF waitLoop, closing, processDone, agentVars, callVars
<1>21. ASSUME NEW z \in Closers, cancelLifecycle(z) PROVE IInv'
  BY <1>21 DEF cancelLifecycle, Goto, callVars, processVars
<1>22. ASSUME NEW z \in Closers, closeGate(z) PROVE IInv'
  BY <1>22 DEF closeGate, Goto, agentVars, callVars, processVars
<1>23. ASSUME NEW z \in Closers, closeAgent(z) PROVE IInv'
  BY <1>23 DEF closeAgent, closing, callVars, processVars
<1>24. ASSUME NEW z \in Closers, closeReturn(z) PROVE IInv'
  BY <1>24 DEF closeReturn, closing, agentVars, callVars, processVars
<1>25. CASE UNCHANGED vars
  BY <1>25 DEF vars
<1> HIDE DEF IInv
<1> QED
  BY <1>1, <1>2, <1>3, <1>4, <1>5, <1>6, <1>7, <1>8, <1>9, <1>10, <1>11,
     <1>12, <1>13, <1>14, <1>15, <1>16, <1>17, <1>18, <1>19, <1>20, <1>21,
     <1>22, <1>23, <1>24, <1>25
  DEF Next, Call, ClientClose, CloseCall

\* Every reachable state satisfies the invariant.
LEMMA Invariant == Spec => []IInv
BY InvInit, InvNext, PTL DEF Spec

-----------------------------------------------------------------------------
\* Type correctness: in particular an initializing call and a Close that are
\* past the gate hold it (ensureInitialized and Close, agent.go).
THEOREM TypeCorrect == Spec => []TypeOK
<1>1. IInv => TypeOK
  BY DEF IInv
<1> QED
  BY <1>1, Invariant, PTL

\* A failed ensureInitialized leaves no subprocess behind, but for one that Close
\* tried to kill and reported as not reaped.
THEOREM FailureCleansUp == Spec => []FailedCallLeavesNothing
<1>1. IInv => FailedCallLeavesNothing
  BY DEF IInv, LaunchInv, FailedCallLeavesNothing
<1> QED
  BY <1>1, Invariant, PTL

\* When an Agent.Close has returned, every subprocess is down for good: each
\* call has launched nothing, has failed, or published the client that Close
\* found, and closed keeps the later calls from launching.
THEOREM CloseIsFinal == Spec => []ClosedAgentIsDown
<1>1. IInv => ClosedAgentIsDown
  <2> SUFFICES ASSUME IInv, NEW z \in Closers, pc[z] \in Returned,
                      NEW c \in Callers
               PROVE  Down(c)
    BY DEF ClosedAgentIsDown
  <2>1. closed /\ (client # Nobody => shutdown[client] \in {"ok", "err", "timeout"})
    BY DEF IInv, CloseInv
  <2>2. pc[c] \in Early \cup {"ok", "failed"}
    BY <2>1 DEF IInv, TypeOK, LaunchInv, CallerPcs, Returned, Early, Started
  <2>3. CASE client = c
    BY <2>1, <2>3, AgentLifecycleAssumption DEF IInv, ShutdownInv, Down
  <2>4. CASE client # c
    BY <2>2, <2>4 DEF IInv, LaunchInv, Down
  <2> QED
    BY <2>3, <2>4
<1> QED
  BY <1>1, Invariant, PTL

\* Two subprocesses never run at once, but for one that has survived its Kill: a
\* running one belongs to the call that holds the gate or is the published one,
\* and never both are there.
THEOREM OneAtATime == Spec => []OneSubprocess
<1>1. IInv => OneSubprocess
  <2> SUFFICES ASSUME IInv, NEW c \in Callers, NEW d \in Callers,
                      child[c] = "running", child[d] = "running"
               PROVE  c = d
    BY DEF OneSubprocess
  <2>1. \A x \in Callers : child[x] = "running" => pc[x] \in Started \/ client = x
    BY DEF IInv, TypeOK, LaunchInv, CallerPcs, Returned, Early, Started, Down
  <2>2. \A x \in Callers : pc[x] \in Started => gate = x /\ client = Nobody
    BY DEF IInv, TypeOK, LaunchInv, PastGate, Returned, Started
  <2> QED
    BY <2>1, <2>2, AgentLifecycleAssumption
<1> QED
  BY <1>1, Invariant, PTL

\* Only its Close cancels the context of a published subprocess.
THEOREM PublishedSurvives == Spec => []PublishedOutlivesCall
<1>1. IInv => PublishedOutlivesCall
  BY AgentLifecycleAssumption
  DEF IInv, TypeOK, HookInv, PublishedOutlivesCall, closing
<1> QED
  BY <1>1, Invariant, PTL

-----------------------------------------------------------------------------
(* The safety half of CloseReturns and CanceledCallReturns.                *)

\* The gate is never left taken: whoever holds it is a call of ensureInitialized
\* or of Close that has not returned, so a call waits for a live one only.
GateInUse == gate # Nobody => PastGate(gate)

\* Every return gives the gate back, on success, failure and cancellation alike
\* (the deferred receive in ensureInitialized and in Close, agent.go).
THEOREM GateIsReturned == Spec => []GateInUse
<1>1. Init => GateInUse
  BY DEF Init, GateInUse
<1>2. IInv /\ GateInUse /\ [Next]_vars => GateInUse'
  <2> SUFFICES ASSUME IInv, GateInUse, [Next]_vars PROVE GateInUse'
    OBVIOUS
  <2> USE AgentLifecycleAssumption
      DEF IInv, TypeOK, CallerPcs, CloserPcs, Returned, GateInUse, PastGate
  <2>1. ASSUME NEW c \in Callers,
               \/ cancelCall(c) \/ lifecycleAfterFunc(c) \/ startupAfterFunc(c)
               \/ ClientClose(c) \/ childExit(c)
               \/ \E failed \in BOOLEAN : waitLoop(c, failed)
        PROVE  GateInUse'
    <3>1. UNCHANGED <<gate, pc>>
      BY <2>1, Zenon
      DEF cancelCall, lifecycleAfterFunc, startupAfterFunc, ClientClose, closeProcess,
          graceTimeout, cleanupTimeout, finalizeCloseErr, childExit, waitLoop
    <3> QED
      BY <3>1
  <2>2. ASSUME NEW c \in Callers, ensureInitialized(c) \/ enterGate(c) PROVE GateInUse'
    BY <2>2 DEF ensureInitialized, enterGate, Goto
  <2>3. ASSUME NEW c \in Callers, leaveQueue(c) \/ check(c) PROVE GateInUse'
    BY <2>3 DEF leaveQueue, check, Return
  <2>4. ASSUME NEW c \in Callers, newClient(c) \/ newClientFails(c) PROVE GateInUse'
    BY <2>4 DEF newClient, newClientFails, Goto, Return
  <2>5. ASSUME NEW c \in Callers, NEW ok \in BOOLEAN, initialize(c, ok) PROVE GateInUse'
    BY <2>5 DEF initialize, Goto
  <2>6. ASSUME NEW c \in Callers, decide(c) \/ publish(c) \/ abort(c) PROVE GateInUse'
    BY <2>6 DEF decide, publish, abort, Goto, Return
  <2>7. ASSUME NEW z \in Closers, cancelLifecycle(z) \/ closeGate(z) PROVE GateInUse'
    BY <2>7 DEF cancelLifecycle, closeGate, Goto
  <2>8. ASSUME NEW z \in Closers, closeAgent(z) \/ closeReturn(z) PROVE GateInUse'
    BY <2>8 DEF closeAgent, closeReturn
  <2>9. ASSUME cancelRoot \/ UNCHANGED vars PROVE GateInUse'
    BY <2>9 DEF cancelRoot, vars
  <2> HIDE DEF IInv, TypeOK, GateInUse
  <2> QED
    BY <2>1, <2>2, <2>3, <2>4, <2>5, <2>6, <2>7, <2>8, <2>9
    DEF Next, Call, CloseCall
<1> QED
  BY <1>1, <1>2, Invariant, PTL DEF Spec

-----------------------------------------------------------------------------
(* The safety half of OrderlyClose.                                        *)

\* Client.Close has begun on the subprocess of c, and if the subprocess has been
\* reaped since, waitLoop took its exit for the end of the stream.
Orderly(c) ==
    /\ shutdown[c] \in {"grace", "killed", "ok", "timeout"}
    /\ child[c] = "reaped" => closeErr[c] = "eof"

\* No step ends an orderly close.
LEMMA OrderlyNext ==
    ASSUME NEW c \in Callers, IInv, Orderly(c), [Next]_vars
    PROVE  Orderly(c)'
<1> USE DEF Orderly, IInv, TypeOK
<1>1. ASSUME UNCHANGED <<child, closeErr, shutdown>> PROVE Orderly(c)'
  BY <1>1
<1>2. ASSUME NEW d \in Callers, newClient(d) PROVE Orderly(c)'
  BY <1>2 DEF newClient, Goto
<1>3. ASSUME NEW d \in Callers, closeProcess(d) PROVE Orderly(c)'
  BY <1>3 DEF closeProcess
<1>4. ASSUME NEW d \in Callers, graceTimeout(d) PROVE Orderly(c)'
  BY <1>4 DEF graceTimeout
<1>5. ASSUME NEW d \in Callers, cleanupTimeout(d) PROVE Orderly(c)'
  BY <1>5 DEF cleanupTimeout
<1>6. ASSUME NEW d \in Callers, finalizeCloseErr(d) PROVE Orderly(c)'
  BY <1>6 DEF finalizeCloseErr
<1>7. ASSUME NEW d \in Callers, childExit(d) PROVE Orderly(c)'
  BY <1>7 DEF childExit
<1>8. ASSUME NEW d \in Callers, NEW failed \in BOOLEAN, waitLoop(d, failed)
      PROVE  Orderly(c)'
  BY <1>8 DEF waitLoop, closing
<1>9. ASSUME NEW d \in Callers,
             \/ cancelCall(d) \/ lifecycleAfterFunc(d) \/ startupAfterFunc(d)
             \/ ensureInitialized(d) \/ enterGate(d) \/ leaveQueue(d)
      PROVE  UNCHANGED <<child, closeErr, shutdown>>
  BY <1>9 DEF cancelCall, lifecycleAfterFunc, startupAfterFunc, ensureInitialized,
              enterGate, leaveQueue, processVars
<1>10. ASSUME NEW d \in Callers,
              \/ check(d) \/ newClientFails(d) \/ decide(d) \/ publish(d) \/ abort(d)
              \/ \E ok \in BOOLEAN : initialize(d, ok)
       PROVE  UNCHANGED <<child, closeErr, shutdown>>
  BY <1>10 DEF check, newClientFails, decide, publish, abort, initialize, processVars
<1>11. ASSUME NEW z \in Closers, cancelLifecycle(z) \/ CloseCall(z)
       PROVE  UNCHANGED <<child, closeErr, shutdown>>
  BY <1>11 DEF cancelLifecycle, CloseCall, closeGate, closeAgent, closeReturn, processVars
<1>12. ASSUME cancelRoot \/ UNCHANGED vars
       PROVE  UNCHANGED <<child, closeErr, shutdown>>
  BY <1>12 DEF cancelRoot, vars, processVars
<1> HIDE DEF Orderly, IInv, TypeOK
<1> QED
  BY <1>1, <1>2, <1>3, <1>4, <1>5, <1>6, <1>7, <1>8, <1>9, <1>10, <1>11, <1>12, Zenon
  DEF Next, Call, ClientClose

\* A Client.Close that finds the subprocess not yet reaped never reports an
\* error, however the subprocess then ends, by itself, at the end of stdin or
\* killed, and whenever it is reaped (finalizeCloseErr, waitLoop).
THEOREM CloseHidesExit ==
    ASSUME NEW c \in Callers
    PROVE  Spec => [](shutdown[c] = "grace" /\ child[c] # "reaped" =>
                        [](shutdown[c] # "err"))
<1>1. shutdown[c] = "grace" /\ child[c] # "reaped" => Orderly(c)
  BY DEF Orderly
<1>2. Orderly(c) => shutdown[c] # "err"
  BY DEF Orderly
<1>3. IInv /\ Orderly(c) /\ [Next]_vars => Orderly(c)'
  BY OrderlyNext
<1> QED
  BY <1>1, <1>2, <1>3, Invariant, PTL DEF Spec
=============================================================================
