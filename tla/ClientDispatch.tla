--------------------------- MODULE ClientDispatch ---------------------------
(***************************************************************************)
(* The session table and the update dispatcher of Client                   *)
(* (client_dispatch.go, promptWithBlocksOperation in client.go).           *)
(*                                                                         *)
(* Actors: the caller of each operation, the goroutine of each prompt, the *)
(* consumer of each prompt's channels, the wire reader, the dispatcher     *)
(* goroutine, and the reaper (waitLoop) that runs failAll.                 *)
(*                                                                         *)
(* A member of Prompts is one activePrompt value.  An operation in Control *)
(* has no update channel (a configuration or model request); one in Held   *)
(* keeps its slot until the caller's release() (promptWithContentHeld, the *)
(* way Agent prompts); any other is a public Prompt.  A notification is    *)
(* its position on the wire.                                               *)
(***************************************************************************)
EXTENDS Naturals, Sequences, FiniteSets

CONSTANTS
    Sessions,       \* ACP session ids
    Prompts,        \* activePrompt values: the operations of a behaviour
    SessionOf,      \* the session each operation is for
    Control,        \* operations without an update channel
    Held,           \* prompts whose admission outlives the RPC
    Abandoning,     \* prompts whose consumer may stop before the streams end
    ProcessMayExit, \* whether the subprocess may exit or be closed
    WireCap,        \* capacity of Client.updates (256 in the code)
    PromptCap,      \* capacity of activePrompt.updates (64)
    DeactivateCap,  \* capacity of Client.deactivate (256)
    MaxWire,        \* bound: notifications the agent sends
    None            \* no operation

ASSUME ClientDispatchAssumption ==
    /\ SessionOf \in [Prompts -> Sessions]
    /\ Control \subseteq Prompts
    /\ Held \subseteq Prompts \ Control
    /\ Abandoning \subseteq Prompts \ Control
    /\ ProcessMayExit \in BOOLEAN
    /\ WireCap \in Nat /\ PromptCap \in Nat /\ DeactivateCap \in Nat
    /\ MaxWire \in Nat
    /\ None \notin Prompts

VARIABLES
    closing,         \* Client.closing
    closed,          \* Client.closed is closed
    activeBySession, \* Client.activeBySession, None for an absent key
    updates,         \* Client.updates: wire notifications not yet dispatched
    deactivate,      \* Client.deactivate: prompts whose stream is to be closed
    pc,              \* where each operation's goroutine is
    consumer,        \* what each prompt's consumer is doing
    buf,             \* contents of each activePrompt.updates
    chanClosed,      \* activePrompt.updates has been closed
    updatesDone,     \* activePrompt.updatesDone
    signal,          \* activePrompt.signal holds a token
    delivered,       \* history: what each consumer received
    wired,           \* history: the session of each notification on the wire
    dropped,         \* history: those dropped because WireCap was reached
    disp,            \* the dispatcher: [pc, active, msg]
    reaper,          \* the reaper: where it is in failAll
    reaperClose      \* failAll's local list of prompts left to close

vars == <<closing, closed, activeBySession, updates, deactivate, pc, consumer,
          buf, chanClosed, updatesDone, signal, delivered, wired, dropped,
          disp, reaper, reaperClose>>

-----------------------------------------------------------------------------
Streams == Prompts \ Control

\* Locations of an operation's goroutine.  "rpc" to "unwind" is the body of
\* the goroutine of promptWithBlocksOperation and its deferred calls.
Pcs == {"new", "checked", "refused", "rpc", "idle", "finish", "await",
        "result", "end", "unwind", "closeResult", "done"}

Notification == [session : Sessions, n : Nat]

DispatchStates ==
    [pc : {"select", "close", "send", "done"}, active : Prompts \cup {None},
     msg : Nat]

TypeOK ==
    /\ closing \in BOOLEAN /\ closed \in BOOLEAN
    /\ activeBySession \in [Sessions -> Prompts \cup {None}]
    /\ updates \in Seq(Notification) /\ Len(updates) <= WireCap
    /\ deactivate \in Seq(Streams) /\ Len(deactivate) <= DeactivateCap
    /\ pc \in [Prompts -> Pcs]
    /\ \A p \in Control : pc[p] \in {"new", "checked", "refused", "rpc", "end", "done"}
    /\ consumer \in [Prompts -> {"none", "reading", "stopping", "gone"}]
    /\ buf \in [Prompts -> Seq(Nat)]
    /\ \A p \in Prompts : Len(buf[p]) <= PromptCap
    /\ chanClosed \in [Prompts -> BOOLEAN]
    /\ updatesDone \in [Prompts -> BOOLEAN]
    /\ signal \in [Prompts -> BOOLEAN]
    /\ delivered \in [Prompts -> Seq(Nat)]
    /\ wired \in Seq(Sessions)
    /\ dropped \subseteq Nat
    /\ disp \in DispatchStates
    /\ disp.pc \in {"close", "send"} => disp.active \in Streams
    /\ reaper \in {"wait", "failed", "closeAll", "done"}
    /\ reaperClose \subseteq Prompts

Init ==
    /\ closing = FALSE /\ closed = FALSE
    /\ activeBySession = [s \in Sessions |-> None]
    /\ updates = <<>> /\ deactivate = <<>>
    /\ pc = [p \in Prompts |-> "new"]
    /\ consumer = [p \in Prompts |-> "none"]
    /\ buf = [p \in Prompts |-> <<>>]
    /\ chanClosed = [p \in Prompts |-> FALSE]
    /\ updatesDone = [p \in Prompts |-> FALSE]
    /\ signal = [p \in Prompts |-> FALSE]
    /\ delivered = [p \in Prompts |-> <<>>]
    /\ wired = <<>> /\ dropped = {}
    /\ disp = [pc |-> "select", active |-> None, msg |-> 0]
    /\ reaper = "wait" /\ reaperClose = {}

\* Groups of variables, for the UNCHANGED clauses.
closeVars == <<closing, closed, reaper, reaperClose>>
wireVars  == <<updates, wired, dropped>>
chanVars  == <<buf, chanClosed, updatesDone, signal, delivered>>

Goto(p, from, to) == pc[p] = from /\ pc' = [pc EXCEPT ![p] = to]

dispatchDone == disp.pc = "done"

\* rpcDone: the prompt's goroutine has closed the channel release() waits on.
rpcDone(p) == pc[p] \in {"closeResult", "done"}

\* close(resultCh) is the last thing the goroutine does.
resultClosed(p) == pc[p] = "done"

\* The one PromptResult has been put in resultCh, which buffers it.
resultSent(p) == pc[p] \in {"end", "unwind", "closeResult", "done"}

-----------------------------------------------------------------------------
(* Admission                                                               *)

\* The checks beginSessionOperation makes before it takes stateMu.
beginCheckClosed(p) ==
    /\ pc[p] = "new"
    /\ pc' = [pc EXCEPT ![p] = IF closing \/ closed THEN "refused" ELSE "checked"]
    /\ UNCHANGED <<closeVars, activeBySession, wireVars, deactivate, consumer,
                   chanVars, disp>>

\* Mutant: the slot is taken without looking whether it is free.
beginNoSlotCheck(p) ==
    /\ pc[p] = "checked"
    /\ IF closing
         THEN /\ pc' = [pc EXCEPT ![p] = "refused"]
              /\ UNCHANGED <<activeBySession, consumer>>
         ELSE /\ pc' = [pc EXCEPT ![p] = "rpc"]
              /\ activeBySession' = [activeBySession EXCEPT ![SessionOf[p]] = p]
              /\ consumer' = [consumer EXCEPT
                                ![p] = IF p \in Control THEN @ ELSE "reading"]
    /\ UNCHANGED <<closeVars, wireVars, deactivate, chanVars, disp>>

\* beginSessionOperation under stateMu: only closing is looked at again.  An
\* admitted operation sends its RPC, and a prompt hands its channels out.
beginSessionOperation(p) ==
    /\ pc[p] = "checked"
    /\ IF closing \/ activeBySession[SessionOf[p]] # None
         THEN /\ pc' = [pc EXCEPT ![p] = "refused"]
              /\ UNCHANGED <<activeBySession, consumer>>
         ELSE /\ pc' = [pc EXCEPT ![p] = "rpc"]
              /\ activeBySession' = [activeBySession EXCEPT ![SessionOf[p]] = p]
              /\ consumer' = [consumer EXCEPT
                                ![p] = IF p \in Control THEN @ ELSE "reading"]
    /\ UNCHANGED <<closeVars, wireVars, deactivate, chanVars, disp>>

-----------------------------------------------------------------------------
(* The goroutine of an operation                                           *)

\* conn.Prompt (or the control request) returns: an answer, an error, the
\* context's cancellation or the loss of the connection.
rpcReturn(p) ==
    /\ Goto(p, "rpc", IF p \in Control THEN "end" ELSE "idle")
    /\ UNCHANGED <<closeVars, activeBySession, wireVars, deactivate, consumer,
                   chanVars, disp>>

\* waitForUpdateIdle: a signal restarts the idle timer.
waitSignal(p) ==
    /\ pc[p] = "idle" /\ signal[p]
    /\ signal' = [signal EXCEPT ![p] = FALSE]
    /\ UNCHANGED <<closeVars, activeBySession, wireVars, deactivate, pc,
                   consumer, buf, chanClosed, updatesDone, delivered, disp>>

\* waitForUpdateIdle returns: the timer fired or the context is done.  The
\* timer is not tied to the dispatcher, so it may fire with updates queued.
waitForUpdateIdle(p) ==
    /\ Goto(p, "idle", "finish")
    /\ UNCHANGED <<closeVars, activeBySession, wireVars, deactivate, consumer,
                   chanVars, disp>>

\* finishSessionUpdates, first case of the select.
finishDeactivate(p) ==
    /\ Len(deactivate) < DeactivateCap
    /\ Goto(p, "finish", "result")
    /\ deactivate' = Append(deactivate, p)
    /\ UNCHANGED <<closeVars, activeBySession, wireVars, consumer, chanVars, disp>>

\* finishSessionUpdates, second case: the client is closed.
finishClosed(p) ==
    /\ closed
    /\ Goto(p, "finish", "await")
    /\ UNCHANGED <<closeVars, activeBySession, wireVars, deactivate, consumer,
                   chanVars, disp>>

\* finishSessionUpdates after <-dispatchDone: closeActivePrompt.
finishClose(p) ==
    /\ dispatchDone
    /\ Goto(p, "await", "result")
    /\ chanClosed' = [chanClosed EXCEPT ![p] = TRUE]
    /\ UNCHANGED <<closeVars, activeBySession, wireVars, deactivate, consumer,
                   buf, updatesDone, signal, delivered, disp>>

\* resultCh <- PromptResult{...}; the buffer of one never blocks.
sendResult(p) ==
    /\ Goto(p, "result", IF p \in Held THEN "unwind" ELSE "end")
    /\ UNCHANGED <<closeVars, activeBySession, wireVars, deactivate, consumer,
                   chanVars, disp>>

\* The table without p, if the slot is still p's (endSessionOperation).
WithoutActive(p) ==
    [activeBySession EXCEPT ![SessionOf[p]] = IF @ = p THEN None ELSE @]

\* The deferred endSessionOperation of a control operation or a public
\* prompt.  finishOnce has been used up by then: only the slot is released.
endSessionOperation(p) ==
    /\ Goto(p, "end", IF p \in Control THEN "done" ELSE "unwind")
    /\ activeBySession' = WithoutActive(p)
    /\ UNCHANGED <<closeVars, wireVars, deactivate, consumer, chanVars, disp>>

\* The deferred close(rpcDone).
closeRpcDone(p) ==
    /\ Goto(p, "unwind", "closeResult")
    /\ UNCHANGED <<closeVars, activeBySession, wireVars, deactivate, consumer,
                   chanVars, disp>>

\* The deferred close(resultCh).
closeResultCh(p) ==
    /\ Goto(p, "closeResult", "done")
    /\ UNCHANGED <<closeVars, activeBySession, wireVars, deactivate, consumer,
                   chanVars, disp>>

-----------------------------------------------------------------------------
(* The consumer of a prompt's channels                                     *)

\* Receive one update.
receiveUpdate(p) ==
    /\ consumer[p] = "reading" /\ buf[p] # <<>>
    /\ delivered' = [delivered EXCEPT ![p] = Append(@, Head(buf[p]))]
    /\ buf' = [buf EXCEPT ![p] = Tail(@)]
    /\ UNCHANGED <<closeVars, activeBySession, wireVars, deactivate, pc,
                   consumer, chanClosed, updatesDone, signal, disp>>

\* Mutant: the consumer goes on with the result and leaves the updates.
streamsEndOnResult(p) ==
    /\ consumer[p] = "reading"
    /\ IF p \in Held THEN resultSent(p) ELSE resultClosed(p)
    /\ consumer' = [consumer EXCEPT ![p] = IF p \in Held THEN "stopping" ELSE "gone"]
    /\ UNCHANGED <<closeVars, activeBySession, wireVars, deactivate, pc,
                   chanVars, disp>>

\* Both streams are over.  runPromptOnce goes on once it has the result, a
\* caller of the public Prompt once resultCh is closed.
streamsEnd(p) ==
    /\ consumer[p] = "reading" /\ buf[p] = <<>> /\ chanClosed[p]
    /\ IF p \in Held THEN resultSent(p) ELSE resultClosed(p)
    /\ consumer' = [consumer EXCEPT ![p] = IF p \in Held THEN "stopping" ELSE "gone"]
    /\ UNCHANGED <<closeVars, activeBySession, wireVars, deactivate, pc,
                   chanVars, disp>>

\* runPromptOnce returns early: its context is done, or yield returned false.
\* Nobody receives from the channels any more.
stopReading(p) ==
    /\ p \in Abandoning
    /\ consumer[p] = "reading"
    /\ consumer' = [consumer EXCEPT ![p] = IF p \in Held THEN "stopping" ELSE "gone"]
    /\ UNCHANGED <<closeVars, activeBySession, wireVars, deactivate, pc,
                   chanVars, disp>>

\* release() of a held prompt: <-rpcDone, then endSessionOperation.
release(p) ==
    /\ consumer[p] = "stopping" /\ rpcDone(p)
    /\ consumer' = [consumer EXCEPT ![p] = "gone"]
    /\ activeBySession' = WithoutActive(p)
    /\ UNCHANGED <<closeVars, wireVars, deactivate, pc, chanVars, disp>>

-----------------------------------------------------------------------------
(* The wire and the dispatcher                                             *)

\* Mutant: the reader does not look whether there is room.
enqueueUnbounded(s) ==
    /\ Len(wired) < MaxWire
    /\ wired' = Append(wired, s)
    /\ updates' = Append(updates, [session |-> s, n |-> Len(wired) + 1])
    /\ UNCHANGED <<closeVars, activeBySession, deactivate, pc, consumer,
                   chanVars, disp, dropped>>

\* enqueueUpdateFromWire: never blocks the reader; drops when full.
enqueueUpdateFromWire(s) ==
    /\ Len(wired) < MaxWire
    /\ wired' = Append(wired, s)
    /\ IF Len(updates) < WireCap
         THEN /\ updates' = Append(updates, [session |-> s, n |-> Len(wired) + 1])
              /\ UNCHANGED dropped
         ELSE /\ dropped' = dropped \cup {Len(wired) + 1}
              /\ UNCHANGED updates
    /\ UNCHANGED <<closeVars, activeBySession, deactivate, pc, consumer,
                   chanVars, disp>>

\* dispatchUpdates: case <-c.closed, with what is queued left where it is.
dispatchExit ==
    /\ disp.pc = "select" /\ closed
    /\ disp' = [disp EXCEPT !.pc = "done"]
    /\ UNCHANGED <<closeVars, activeBySession, wireVars, deactivate, pc,
                   consumer, chanVars>>

\* dispatchUpdates: case <-c.deactivate, the locked part of closePromptUpdates.
dispatchDeactivate ==
    /\ disp.pc = "select" /\ deactivate # <<>>
    /\ deactivate' = Tail(deactivate)
    /\ disp' = [disp EXCEPT !.pc = "close", !.active = Head(deactivate)]
    /\ updatesDone' = [updatesDone EXCEPT ![Head(deactivate)] = TRUE]
    /\ UNCHANGED <<closeVars, activeBySession, wireVars, pc, consumer, buf,
                   chanClosed, signal, delivered>>

\* Mutant: the stream is marked done and never closed.
dispatchForgetsClose ==
    /\ disp.pc = "close"
    /\ disp' = [disp EXCEPT !.pc = "select", !.active = None]
    /\ UNCHANGED <<closeVars, activeBySession, wireVars, deactivate, pc,
                   consumer, chanVars>>

\* The rest of closePromptUpdates: closeActivePrompt.
dispatchClose ==
    /\ disp.pc = "close"
    /\ disp' = [disp EXCEPT !.pc = "select", !.active = None]
    /\ chanClosed' = [chanClosed EXCEPT ![disp.active] = TRUE]
    /\ UNCHANGED <<closeVars, activeBySession, wireVars, deactivate, pc,
                   consumer, buf, updatesDone, signal, delivered>>

\* The prompt dispatchSessionUpdate finds for a session, None if the slot is
\* free, or has no stream, or its stream is being closed.
receiverOf(s) ==
    LET a == activeBySession[s]
    IN  IF a \in Streams /\ ~updatesDone[a] THEN a ELSE None

\* Mutant: the dispatcher does not look at updatesDone.
dispatchLookupAnyActive ==
    /\ disp.pc = "select" /\ updates # <<>>
    /\ updates' = Tail(updates)
    /\ LET m == Head(updates)
           a == activeBySession[m.session]
       IN  IF a \in Streams
             THEN disp' = [pc |-> "send", active |-> a, msg |-> m.n]
             ELSE UNCHANGED disp
    /\ UNCHANGED <<closeVars, activeBySession, deactivate, wired, dropped, pc,
                   consumer, chanVars>>

\* dispatchUpdates: case ext := <-c.updates, the locked lookup of
\* dispatchSessionUpdate.  The lock is given up before the send.
dispatchLookup ==
    /\ disp.pc = "select" /\ updates # <<>>
    /\ updates' = Tail(updates)
    /\ LET m == Head(updates)
           a == receiverOf(m.session)
       IN  IF a # None
             THEN disp' = [pc |-> "send", active |-> a, msg |-> m.n]
             ELSE UNCHANGED disp
    /\ UNCHANGED <<closeVars, activeBySession, deactivate, wired, dropped, pc,
                   consumer, chanVars>>

\* Mutant: a full stream loses the update instead of blocking the dispatcher.
dispatchSendOrDrop ==
    /\ disp.pc = "send"
    /\ LET a == disp.active
       IN  IF Len(buf[a]) < PromptCap
             THEN /\ buf' = [buf EXCEPT ![a] = Append(@, disp.msg)]
                  /\ signal' = [signal EXCEPT ![a] = TRUE]
             ELSE UNCHANGED <<buf, signal>>
    /\ disp' = [pc |-> "select", active |-> None, msg |-> 0]
    /\ UNCHANGED <<closeVars, activeBySession, wireVars, deactivate, pc,
                   consumer, chanClosed, updatesDone, delivered>>

\* dispatchSessionUpdate: active.updates <- ext, then the signal.  Blocks
\* while the stream is full; a send on a closed channel would panic.
dispatchSend ==
    /\ disp.pc = "send"
    /\ LET a == disp.active
       IN  /\ Len(buf[a]) < PromptCap
           /\ buf' = [buf EXCEPT ![a] = Append(@, disp.msg)]
           /\ signal' = [signal EXCEPT ![a] = TRUE]
    /\ disp' = [pc |-> "select", active |-> None, msg |-> 0]
    /\ UNCHANGED <<closeVars, activeBySession, wireVars, deactivate, pc,
                   consumer, chanClosed, updatesDone, delivered>>

\* Mutant: the blocked send does not watch Client.closed.
dispatchNoAbort == FALSE /\ UNCHANGED vars

\* dispatchSessionUpdate: case <-c.closed, the update is lost.
dispatchAbort ==
    /\ disp.pc = "send" /\ closed
    /\ disp' = [pc |-> "select", active |-> None, msg |-> 0]
    /\ UNCHANGED <<closeVars, activeBySession, wireVars, deactivate, pc,
                   consumer, chanVars>>

-----------------------------------------------------------------------------
(* Shutdown                                                                *)

\* Client.Close: closing is set under stateMu, then stdin is closed.
setClosing ==
    /\ ProcessMayExit /\ ~closing
    /\ closing' = TRUE
    /\ UNCHANGED <<closed, reaper, reaperClose, activeBySession, wireVars,
                   deactivate, pc, consumer, chanVars, disp>>

\* waitLoop: cmd.Wait returned; failAll closes Client.closed.
failAll ==
    /\ ProcessMayExit /\ reaper = "wait"
    /\ closed' = TRUE
    /\ reaper' = "failed"
    /\ UNCHANGED <<closing, reaperClose, activeBySession, wireVars, deactivate,
                   pc, consumer, chanVars, disp>>

\* failAll after <-dispatchDone: closeAllActiveSessions empties the table.
closeAllActiveSessions ==
    /\ reaper = "failed" /\ dispatchDone
    /\ reaper' = "closeAll"
    /\ reaperClose' = {activeBySession[s] : s \in Sessions} \ {None}
    /\ activeBySession' = [s \in Sessions |-> None]
    /\ UNCHANGED <<closing, closed, wireVars, deactivate, pc, consumer,
                   chanVars, disp>>

\* closeAllActiveSessions: closeActivePrompt on each prompt it took out.
closeActivePrompt ==
    /\ reaper = "closeAll"
    /\ IF reaperClose = {}
         THEN reaper' = "done" /\ UNCHANGED <<reaperClose, chanClosed>>
         ELSE \E p \in reaperClose :
                /\ reaperClose' = reaperClose \ {p}
                /\ chanClosed' = [chanClosed EXCEPT ![p] = p \in Streams]
                /\ UNCHANGED reaper
    /\ UNCHANGED <<closing, closed, activeBySession, wireVars, deactivate, pc,
                   consumer, buf, updatesDone, signal, delivered, disp>>

-----------------------------------------------------------------------------
\* The steps of an operation's goroutine once its RPC has returned.
Goroutine(p) ==
    \/ waitSignal(p) \/ waitForUpdateIdle(p)
    \/ finishDeactivate(p) \/ finishClosed(p) \/ finishClose(p)
    \/ sendResult(p) \/ endSessionOperation(p)
    \/ closeRpcDone(p) \/ closeResultCh(p)

Consumer(p) ==
    receiveUpdate(p) \/ streamsEnd(p) \/ stopReading(p) \/ release(p)

Dispatcher ==
    \/ dispatchExit \/ dispatchDeactivate \/ dispatchClose
    \/ dispatchLookup \/ dispatchSend \/ dispatchAbort

Reaper == failAll \/ closeAllActiveSessions \/ closeActivePrompt

Next ==
    \/ \E p \in Prompts :
         \/ beginCheckClosed(p) \/ beginSessionOperation(p) \/ rpcReturn(p)
         \/ Goroutine(p) \/ Consumer(p)
    \/ \E s \in Sessions : enqueueUpdateFromWire(s)
    \/ Dispatcher \/ setClosing \/ Reaper

Spec == Init /\ [][Next]_vars

\* Go schedules every goroutine that can run.  Nothing makes a caller start
\* an operation, an agent answer, or a process exit; when the process is gone
\* the connection fails every outstanding request.
Fairness ==
    /\ \A p \in Prompts :
         /\ WF_vars(Goroutine(p))
         /\ WF_vars(Consumer(p))
         /\ WF_vars(closed /\ rpcReturn(p))
    /\ WF_vars(Dispatcher)
    /\ WF_vars(closeAllActiveSessions) /\ WF_vars(closeActivePrompt)

FairSpec == Spec /\ Fairness

-----------------------------------------------------------------------------
(* Properties                                                              *)

\* Admitted operations that have not given their slot back.
Admitted(p) ==
    IF p \in Held
      THEN pc[p] \notin {"new", "checked", "refused"} /\ consumer[p] # "gone"
      ELSE pc[p] \in {"rpc", "idle", "finish", "await", "result", "end"}

\* The dispatcher is never in a send to a channel that somebody has closed:
\* in Go that send panics and takes the whole process down.  The closers are
\* the dispatcher itself, failAll and a prompt finishing after the close.
NoSendOnClosed ==
    disp.pc = "send" => ~chanClosed[disp.active]

\* The session table is a lock: until failAll has emptied it, an admitted
\* operation that has not been released owns the slot of its session, so two
\* operations never have an RPC outstanding on one ACP session.
SlotOwned ==
    reaper \in {"wait", "failed"} =>
        \A p \in Prompts : Admitted(p) => activeBySession[SessionOf[p]] = p

\* Notification n waits in the shared queue or in the dispatcher's hands.
InFlight(n) ==
    \/ \E i \in 1 .. Len(updates) : updates[i].n = n
    \/ disp.pc = "send" /\ disp.msg = n

\* "The update channel preserves ACP notification order" (client.go): what a
\* consumer has received and what waits in its channel is in the wire order of
\* its session.  While the client is open nothing goes missing after the first
\* of them, as long as the stream is open, except at a full wire buffer, and
\* a stream that has ended has no other gap.
StreamInOrder ==
    \A p \in Streams :
        LET s == delivered[p] \o buf[p]
            open == activeBySession[SessionOf[p]] = p /\ ~updatesDone[p]
            last == IF s = <<>> THEN 0 ELSE IF open THEN Len(wired) ELSE s[Len(s)]
        IN  /\ \A i \in 1 .. Len(s) :
                 wired[s[i]] = SessionOf[p] /\ (i > 1 => s[i - 1] < s[i])
            /\ closed \/ \A n \in 1 .. last :
                 wired[n] = SessionOf[p] /\ s[1] < n =>
                     n \in dropped \/ InFlight(n) \/ \E i \in 1 .. Len(s) : s[i] = n

\* The channels of a prompt are over: updates and result are closed.
StreamsClosed(p) == chanClosed[p] /\ resultClosed(p)

\* A prompt that was admitted, now or earlier.
Started(p) == pc[p] \notin {"new", "checked", "refused"}

\* While the client is open, no operation is admitted to the session of a
\* held prompt before its consumer has taken the last update and the result:
\* run gives the admission back only after runPromptOnce has returned.
HeldStreamsOver ==
    \A p \in Held \ Abandoning, q \in Prompts :
        /\ p # q /\ SessionOf[p] = SessionOf[q] /\ ~closed
        /\ Started(p) /\ Admitted(q)
        => chanClosed[p] /\ buf[p] = <<>> /\ resultSent(p)

\* Once the process is gone, every goroutine comes to its end, whatever the
\* consumers do: the dispatcher leaves a blocked send, failAll returns, and
\* each prompt's goroutine closes its result channel.
ShutdownCompletes ==
    closed ~> /\ dispatchDone /\ reaper = "done"
              /\ \A p \in Prompts : pc[p] \in {"new", "checked", "refused", "done"}

\* The dispatcher waits for room in a stream that nobody reads any more.
Wedged ==
    /\ disp.pc = "send" /\ ~closed
    /\ consumer[disp.active] # "reading" /\ Len(buf[disp.active]) = PromptCap

\* The contract of Prompt: after the RPC has returned, a caller that keeps
\* receiving sees both channels close and its session becomes free.  While the
\* client is open only an abandoned stream that fills up can prevent it.
StreamsTerminate ==
    \A p \in Streams \ Abandoning :
        pc[p] = "idle" ~> \/ StreamsClosed(p) /\ activeBySession[SessionOf[p]] # p
                          \/ Wedged \/ closed

\* What a Client that "manages multiple concurrent prompt sessions"
\* (client.go) owes every caller that keeps to its side of the contract: the
\* streams of its prompt end while the client is open, whatever the consumer of
\* another session does.  Agent breaks its side: runPromptOnce returns without
\* draining its channels when the context is done or yield returns false.
StreamsIndependent ==
    \A p \in Streams \ Abandoning :
        pc[p] = "idle" ~> StreamsClosed(p) \/ closed
=============================================================================
