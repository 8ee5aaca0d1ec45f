--------------------------- MODULE AgentLifecycle ---------------------------
(***************************************************************************)
(* Starting and closing the subprocess of an Agent: ensureInitialized and  *)
(* Agent.Close (agent.go), NewClient and Initialize (client.go), Close,    *)
(* closeProcess and waitLoop (client_close.go).                            *)
(*                                                                         *)
(* Actors: the callers of ensureInitialized, the callers of Agent.Close,   *)
(* the context.AfterFunc goroutines, the subprocesses and their reapers.   *)
(* A subprocess, its Client and its process context are named by the call  *)
(* that launches them: a call launches at most one.                        *)
(***************************************************************************)
EXTENDS Naturals, FiniteSets

CONSTANTS
    Callers,  \* calls of ensureInitialized
    Closers,  \* calls of Agent.Close
    Nobody    \* no call

ASSUME AgentLifecycleAssumption ==
    /\ Callers \cap Closers = {}
    /\ Nobody \notin Callers \cup Closers

VARIABLES
    root,      \* the context given to New is done
    lifecycle, \* Agent.lifecycle, derived from it, is done
    gate,      \* who holds Agent.initializationGate
    closed,    \* Agent.closed
    client,    \* Agent.client: the call that published it, or Nobody
    pc,        \* where each call is
    startup,   \* the startup context of each call is done
    hook,      \* AfterFunc(startup, cancelProcess) of each call
    canceled,  \* cancelProcess of each call has been called
    child,     \* the subprocess each call launched; "stray" if it runs on
               \* although Close wanted to kill it
    closeErr,  \* Client.closeErr, set when the subprocess is reaped
    shutdown   \* how far Client.Close of each launched client is

vars == <<root, lifecycle, gate, closed, client, pc, startup, hook, canceled,
          child, closeErr, shutdown>>

-----------------------------------------------------------------------------
Returned == {"ok", "failed"}

CallerPcs == {"idle", "queued", "check", "launch", "initialize", "decide",
              "publish", "abort"} \cup Returned

CloserPcs == {"idle", "queued", "close", "closing"} \cup Returned

\* x is past its wait for the gate and has not returned.
PastGate(x) == pc[x] \notin {"idle", "queued"} \cup Returned

TypeOK ==
    /\ root \in BOOLEAN /\ lifecycle \in BOOLEAN
    /\ gate \in Callers \cup Closers \cup {Nobody}
    /\ closed \in BOOLEAN
    /\ client \in Callers \cup {Nobody}
    /\ pc \in [Callers \cup Closers -> CallerPcs \cup CloserPcs]
    /\ \A c \in Callers : pc[c] \in CallerPcs
    /\ \A z \in Closers : pc[z] \in CloserPcs
    /\ \A x \in Callers \cup Closers : PastGate(x) => gate = x
    /\ startup \in [Callers -> BOOLEAN]
    /\ hook \in [Callers -> {"none", "armed", "fired", "over"}]
    /\ canceled \in [Callers -> BOOLEAN]
    /\ child \in [Callers -> {"none", "running", "stray", "exited", "reaped"}]
    /\ closeErr \in [Callers -> {"none", "eof", "context", "exit"}]
    /\ shutdown \in [Callers -> {"open", "grace", "killed", "ok", "err", "timeout"}]

Init ==
    /\ root = FALSE /\ lifecycle = FALSE
    /\ gate = Nobody /\ closed = FALSE /\ client = Nobody
    /\ pc = [x \in Callers \cup Closers |-> "idle"]
    /\ startup = [c \in Callers |-> FALSE]
    /\ hook = [c \in Callers |-> "none"]
    /\ canceled = [c \in Callers |-> FALSE]
    /\ child = [c \in Callers |-> "none"]
    /\ closeErr = [c \in Callers |-> "none"]
    /\ shutdown = [c \in Callers |-> "open"]

agentVars   == <<root, lifecycle, closed, client>>
callVars    == <<startup, hook>>
processVars == <<canceled, child, closeErr, shutdown>>

Goto(x, from, to) == pc[x] = from /\ pc' = [pc EXCEPT ![x] = to]

\* The context the subprocess of c runs under is done.
processDone(c) == root \/ canceled[c]

\* Client.closing
closing(c) == shutdown[c] # "open"

\* The startup context of c becomes done; an armed AfterFunc starts.
CancelStartup(c) ==
    /\ startup' = [startup EXCEPT ![c] = TRUE]
    /\ hook' = [hook EXCEPT ![c] = IF @ = "armed" THEN "fired" ELSE @]

\* The deferred calls of ensureInitialized in their order: stopStartup, the
\* gate, stopLifecycle, cancel.
Return(c, result) ==
    /\ pc' = [pc EXCEPT ![c] = result]
    /\ gate' = IF gate = c THEN Nobody ELSE gate
    /\ startup' = [startup EXCEPT ![c] = TRUE]
    /\ hook' = [hook EXCEPT ![c] = IF @ = "armed" THEN "over" ELSE @]

-----------------------------------------------------------------------------
(* Contexts                                                                *)

\* The context given to New is done: lifecycle and every process context
\* derive from it.
cancelRoot ==
    /\ ~root
    /\ root' = TRUE /\ lifecycle' = TRUE
    /\ UNCHANGED <<gate, closed, client, pc, callVars, processVars>>

\* The caller's context is done or the initialization timeout has passed.
cancelCall(c) ==
    /\ pc[c] \notin {"idle"} \cup Returned
    /\ ~startup[c]
    /\ CancelStartup(c)
    /\ UNCHANGED <<agentVars, gate, pc, processVars>>

\* Mutant: the call does not follow the agent's lifecycle.
lifecycleIgnored(c) == FALSE /\ UNCHANGED vars

\* context.AfterFunc(a.lifecycle, cancel)
lifecycleAfterFunc(c) ==
    /\ lifecycle
    /\ pc[c] \notin {"idle"} \cup Returned
    /\ ~startup[c]
    /\ CancelStartup(c)
    /\ UNCHANGED <<agentVars, gate, pc, processVars>>

\* The goroutine of context.AfterFunc(startup, cancelProcess) runs.
startupAfterFunc(c) ==
    /\ hook[c] = "fired"
    /\ hook' = [hook EXCEPT ![c] = "over"]
    /\ canceled' = [canceled EXCEPT ![c] = TRUE]
    /\ UNCHANGED <<agentVars, gate, pc, startup, child, closeErr, shutdown>>

-----------------------------------------------------------------------------
(* ensureInitialized                                                       *)

\* The startup context is made and lifecycle cancellation hooked to it.
ensureInitialized(c) ==
    /\ Goto(c, "idle", "queued")
    /\ UNCHANGED <<agentVars, gate, callVars, processVars>>

\* select: case a.initializationGate <- struct{}{}
enterGate(c) ==
    /\ gate = Nobody
    /\ Goto(c, "queued", "check")
    /\ gate' = c
    /\ UNCHANGED <<agentVars, callVars, processVars>>

\* select: case <-startup.Done() or <-a.lifecycle.Done()
leaveQueue(c) ==
    /\ pc[c] = "queued" /\ (startup[c] \/ lifecycle)
    /\ Return(c, "failed")
    /\ UNCHANGED <<agentVars, processVars>>

\* Mutant: a call that had to wait launches a subprocess of its own.
checkNoClient(c) ==
    /\ pc[c] = "check"
    /\ IF closed \/ lifecycle \/ startup[c]
         THEN Return(c, "failed")
         ELSE /\ pc' = [pc EXCEPT ![c] = "launch"]
              /\ hook' = [hook EXCEPT ![c] = "armed"]
              /\ UNCHANGED <<gate, startup>>
    /\ UNCHANGED <<agentVars, processVars>>

\* The checks made with the gate held; a launch hooks cancelProcess to startup.
check(c) ==
    LET refused == closed \/ lifecycle \/ startup[c]
    IN  /\ pc[c] = "check"
        /\ \/ refused /\ Return(c, "failed")
           \/ ~refused /\ client # Nobody /\ Return(c, "ok")
           \/ /\ ~refused /\ client = Nobody
              /\ pc' = [pc EXCEPT ![c] = "launch"]
              /\ hook' = [hook EXCEPT ![c] = "armed"]
              /\ UNCHANGED <<gate, startup>>
        /\ UNCHANGED <<agentVars, processVars>>

\* NewClient: exec refuses a context that is already done.
newClient(c) ==
    /\ ~processDone(c)
    /\ Goto(c, "launch", "initialize")
    /\ child' = [child EXCEPT ![c] = "running"]
    /\ UNCHANGED <<agentVars, gate, callVars, canceled, closeErr, shutdown>>

\* NewClient fails: cancelProcess and return.
newClientFails(c) ==
    /\ pc[c] = "launch"
    /\ canceled' = [canceled EXCEPT ![c] = TRUE]
    /\ Return(c, "failed")
    /\ UNCHANGED <<agentVars, child, closeErr, shutdown>>

\* client.Initialize returns, with a valid answer or not; stopStartup().  A
\* hook that has already fired is not called back.
initialize(c, ok) ==
    /\ Goto(c, "initialize", IF ok THEN "decide" ELSE "abort")
    /\ hook' = [hook EXCEPT ![c] = IF @ = "armed" THEN "over" ELSE @]
    /\ UNCHANGED <<agentVars, gate, startup, processVars>>

\* Mutant: an answer that lost the race against cancellation is good enough.
decideOnAnswer(c) ==
    /\ Goto(c, "decide", "publish")
    /\ UNCHANGED <<agentVars, gate, callVars, processVars>>

\* startup.Err() and a.lifecycle.Err() after a successful answer.
decide(c) ==
    /\ Goto(c, "decide", IF startup[c] \/ lifecycle THEN "abort" ELSE "publish")
    /\ UNCHANGED <<agentVars, gate, callVars, processVars>>

\* a.client = client
publish(c) ==
    /\ pc[c] = "publish"
    /\ client' = c
    /\ Return(c, "ok")
    /\ UNCHANGED <<root, lifecycle, closed, processVars>>

\* Mutant: the call fails without closing what it launched.
abortUnclosed(c) ==
    /\ pc[c] = "abort"
    /\ Return(c, "failed")
    /\ UNCHANGED <<agentVars, processVars>>

\* closeClientAfterError: client.Close has returned.
abort(c) ==
    /\ pc[c] = "abort" /\ shutdown[c] \in {"ok", "err", "timeout"}
    /\ Return(c, "failed")
    /\ UNCHANGED <<agentVars, processVars>>

-----------------------------------------------------------------------------
(* Client.Close and the subprocess                                         *)

\* The client whose Close somebody is in.
beingClosed(c) ==
    \/ pc[c] = "abort"
    \/ c = client /\ \E z \in Closers : pc[z] = "closing"

\* closeProcess sets closing and closes stdin.
closeProcess(c) ==
    /\ beingClosed(c) /\ shutdown[c] = "open"
    /\ shutdown' = [shutdown EXCEPT ![c] = "grace"]
    /\ UNCHANGED <<agentVars, gate, pc, callVars, canceled, child, closeErr>>

\* 200ms have passed: cancelProcess and Kill, whose failure is only logged.
graceTimeout(c) ==
    /\ shutdown[c] = "grace"
    /\ shutdown' = [shutdown EXCEPT ![c] = "killed"]
    /\ canceled' = [canceled EXCEPT ![c] = TRUE]
    /\ \E killed \in {"exited", "stray"} :
         child' = [child EXCEPT ![c] = IF @ = "running" THEN killed ELSE @]
    /\ UNCHANGED <<agentVars, gate, pc, callVars, closeErr>>

\* Another 5s have passed: the reaper keeps the process.
cleanupTimeout(c) ==
    /\ shutdown[c] = "killed"
    /\ shutdown' = [shutdown EXCEPT ![c] = "timeout"]
    /\ UNCHANGED <<agentVars, gate, pc, callVars, canceled, child, closeErr>>

\* case <-c.closed: finalizeCloseErr; the deferred cancelProcess.
finalizeCloseErr(c) ==
    /\ shutdown[c] \in {"grace", "killed"} /\ child[c] = "reaped"
    /\ shutdown' = [shutdown EXCEPT ![c] = IF closeErr[c] = "eof" THEN "ok" ELSE "err"]
    /\ canceled' = [canceled EXCEPT ![c] = TRUE]
    /\ UNCHANGED <<agentVars, gate, pc, callVars, child, closeErr>>

\* External: the subprocess ends, by itself, at the end of stdin or because
\* exec kills it when its context is done.
childExit(c) ==
    /\ child[c] \in {"running", "stray"}
    /\ child' = [child EXCEPT ![c] = "exited"]
    /\ UNCHANGED <<agentVars, gate, pc, callVars, canceled, closeErr, shutdown>>

\* Mutant: an exit during Close is reported like any other.
waitLoopNoClosing(c, failed) ==
    /\ child[c] = "exited"
    /\ child' = [child EXCEPT ![c] = "reaped"]
    /\ closeErr' = [closeErr EXCEPT ![c] = IF failed THEN "exit" ELSE "eof"]
    /\ UNCHANGED <<agentVars, gate, pc, callVars, canceled, shutdown>>

\* waitLoop: Wait returns, with an error or not; failAll records the cause.
waitLoop(c, failed) ==
    /\ child[c] = "exited"
    /\ child' = [child EXCEPT ![c] = "reaped"]
    /\ closeErr' = [closeErr EXCEPT ![c] =
                      CASE ~failed \/ closing(c) -> "eof"
                        [] failed /\ ~closing(c) /\ processDone(c) -> "context"
                        [] OTHER -> "exit"]
    /\ UNCHANGED <<agentVars, gate, pc, callVars, canceled, shutdown>>

-----------------------------------------------------------------------------
(* Agent.Close                                                             *)

\* The registry is closed and the lifecycle canceled, before the gate.
cancelLifecycle(z) ==
    /\ Goto(z, "idle", "queued")
    /\ lifecycle' = TRUE
    /\ UNCHANGED <<root, gate, closed, client, callVars, processVars>>

\* Mutant: Close does not wait for a launch in progress.
closeUngated(z) ==
    /\ Goto(z, "queued", "close")
    /\ UNCHANGED <<agentVars, gate, callVars, processVars>>

\* a.initializationGate <- struct{}{}
closeGate(z) ==
    /\ gate = Nobody
    /\ Goto(z, "queued", "close")
    /\ gate' = z
    /\ UNCHANGED <<agentVars, callVars, processVars>>

\* a.closed = true, then client.Close if there is a client.
closeAgent(z) ==
    /\ pc[z] = "close"
    /\ closed' = TRUE
    /\ pc' = [pc EXCEPT ![z] = IF client = Nobody THEN "ok" ELSE "closing"]
    /\ gate' = IF client = Nobody THEN Nobody ELSE gate
    /\ UNCHANGED <<root, lifecycle, client, callVars, processVars>>

\* client.Close has returned, now or to an earlier Close (shutdownOnce).
closeReturn(z) ==
    /\ pc[z] = "closing" /\ shutdown[client] \in {"ok", "err", "timeout"}
    /\ pc' = [pc EXCEPT ![z] = IF shutdown[client] = "ok" THEN "ok" ELSE "failed"]
    /\ gate' = Nobody
    /\ UNCHANGED <<agentVars, callVars, processVars>>

-----------------------------------------------------------------------------
\* The steps a call takes by itself.
Call(c) ==
    \/ enterGate(c) \/ leaveQueue(c) \/ check(c) \/ newClient(c)
    \/ newClientFails(c) \/ decide(c) \/ publish(c) \/ abort(c)

ClientClose(c) ==
    closeProcess(c) \/ graceTimeout(c) \/ cleanupTimeout(c) \/ finalizeCloseErr(c)

CloseCall(z) == closeGate(z) \/ closeAgent(z) \/ closeReturn(z)

Next ==
    \/ cancelRoot
    \/ \E c \in Callers :
         \/ cancelCall(c) \/ lifecycleAfterFunc(c) \/ startupAfterFunc(c)
         \/ ensureInitialized(c) \/ Call(c)
         \/ \E ok \in BOOLEAN : initialize(c, ok)
         \/ ClientClose(c) \/ childExit(c)
         \/ \E failed \in BOOLEAN : waitLoop(c, failed)
    \/ \E z \in Closers : cancelLifecycle(z) \/ CloseCall(z)

Spec == Init /\ [][Next]_vars

\* Goroutines that can run do, timers fire, and Initialize returns when its
\* context is done.  Nothing makes a subprocess answer, exit or be reaped.
Fairness ==
    /\ \A c \in Callers :
         /\ WF_vars(Call(c)) /\ WF_vars(ClientClose(c))
         /\ WF_vars(lifecycleAfterFunc(c)) /\ WF_vars(startupAfterFunc(c))
         /\ WF_vars(startup[c] /\ initialize(c, FALSE))
    /\ \A z \in Closers : WF_vars(CloseCall(z))

FairSpec == Spec /\ Fairness

-----------------------------------------------------------------------------
(* Properties                                                              *)

\* The subprocess of c is gone; or Close has canceled its context, tried to
\* kill it and said that it was not reaped in time, and it may only run if Kill
\* failed.
Down(c) ==
    \/ child[c] \in {"none", "reaped"}
    \/ shutdown[c] = "timeout" /\ child[c] # "running" /\ canceled[c]

\* A call of ensureInitialized that fails leaves no subprocess behind, at
\* whatever point it was canceled, timed out or refused.
FailedCallLeavesNothing ==
    \A c \in Callers : pc[c] = "failed" => Down(c)

\* When one Agent.Close has returned, every subprocess the agent launched is
\* down and none is launched afterwards by a call that was already waiting.
ClosedAgentIsDown ==
    (\E z \in Closers : pc[z] \in Returned) => \A c \in Callers : Down(c)

\* "Starts one ACP subprocess per agent instance" (README): two subprocesses
\* never run at once, but for one that has survived its Kill.
OneSubprocess ==
    \A c, d \in Callers :
        child[c] = "running" /\ child[d] = "running" => c = d

\* "A healthy child's lifetime must outlive the caller and its initialization
\* deadline" (agent.go): the context of a published subprocess is canceled
\* only by its Close, and no hook that would cancel it is on its way.
PublishedOutlivesCall ==
    client # Nobody /\ ~closing(client) =>
        ~canceled[client] /\ hook[client] \notin {"armed", "fired"}

\* A started Close comes back, even if the subprocess never answers, never
\* exits and is never reaped.
CloseReturns ==
    \A z \in Closers : pc[z] = "queued" ~> pc[z] \in Returned

\* A call whose context is done, or whose agent is closed, comes back.
CanceledCallReturns ==
    \A c \in Callers :
        (startup[c] \/ lifecycle) /\ pc[c] # "idle" ~> pc[c] \in Returned

\* Closing a subprocess that was running when Close began reports no error
\* unless the cleanup timed out: its exit status is not the caller's business.
OrderlyClose ==
    \A c \in Callers :
        shutdown[c] = "grace" /\ child[c] = "running"
            ~> shutdown[c] \in {"ok", "timeout"}
=============================================================================
