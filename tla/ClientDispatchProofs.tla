------------------------ MODULE ClientDispatchProofs ------------------------
(***************************************************************************)
(* Proofs about ClientDispatch for any number of sessions and operations   *)
(* and any buffer capacities: the types, the absence of a send on a closed *)
(* channel, the ownership and release of session slots, the end of a held  *)
(* prompt's streams before the next admission, the order of every stream,  *)
(* and that the closing of a finished stream is not forgotten.             *)
(***************************************************************************)
EXTENDS ClientDispatch, SequenceTheorems, TLAPS

USE ClientDispatchAssumption DEF closeVars, wireVars, chanVars, Goto

\* Every variable of the client keeps its type: in particular the bounded
\* channels never hold more than their capacity.
THEOREM TypeCorrect == Spec => []TypeOK
<1>1. Init => TypeOK
  <2> SUFFICES ASSUME Init PROVE TypeOK
    OBVIOUS
  <2>1. updates \in Seq(Notification) /\ deactivate \in Seq(Streams)
    BY DEF Init
  <2>2. Len(updates) <= WireCap /\ Len(deactivate) <= DeactivateCap
    BY DEF Init
  <2>3. buf \in [Prompts -> Seq(Nat)] /\ delivered \in [Prompts -> Seq(Nat)]
    BY DEF Init
  <2>4. \A p \in Prompts : Len(buf[p]) <= PromptCap
    BY DEF Init
  <2>5. disp \in DispatchStates
    BY DEF Init, DispatchStates
  <2>6. disp.pc = "select" /\ wired \in Seq(Sessions) /\ dropped \subseteq Nat
    BY DEF Init
  <2>7. /\ closing \in BOOLEAN /\ closed \in BOOLEAN
        /\ activeBySession \in [Sessions -> Prompts \cup {None}]
        /\ chanClosed \in [Prompts -> BOOLEAN]
        /\ updatesDone \in [Prompts -> BOOLEAN]
        /\ signal \in [Prompts -> BOOLEAN]
    BY DEF Init
  <2>8. /\ pc \in [Prompts -> Pcs]
        /\ \A p \in Control : pc[p] \in {"new", "checked", "refused", "rpc", "end", "done"}
        /\ consumer \in [Prompts -> {"none", "reading", "stopping", "gone"}]
        /\ reaper \in {"wait", "failed", "closeAll", "done"} /\ reaperClose \subseteq Prompts
    BY DEF Init, Pcs
  <2>9. QED
    BY <2>1, <2>2, <2>3, <2>4, <2>5, <2>6, <2>7, <2>8 DEF TypeOK
<1>2. TypeOK /\ [Next]_vars => TypeOK'
  <2> SUFFICES ASSUME TypeOK, [Next]_vars PROVE TypeOK'
    OBVIOUS
  <2>1. ASSUME NEW p \in Prompts, beginCheckClosed(p) PROVE TypeOK'
    BY <2>1 DEF TypeOK, Notification, DispatchStates, Pcs, Streams, beginCheckClosed
  <2>2. ASSUME NEW p \in Prompts, beginSessionOperation(p) PROVE TypeOK'
    <3>1. CASE closing \/ activeBySession[SessionOf[p]] # None
      BY <2>2, <3>1 DEF TypeOK, Pcs, beginSessionOperation
    <3>2. CASE ~(closing \/ activeBySession[SessionOf[p]] # None)
      <4>1. activeBySession' \in [Sessions -> Prompts \cup {None}]
        <5>1. activeBySession' = [activeBySession EXCEPT ![SessionOf[p]] = p]
          BY <2>2, <3>2, Zenon DEF beginSessionOperation
        <5>2. QED
          BY <5>1 DEF TypeOK
      <4>2. consumer' \in [Prompts -> {"none", "reading", "stopping", "gone"}]
        BY <2>2, <3>2 DEF TypeOK, beginSessionOperation
      <4>3. /\ pc' \in [Prompts -> Pcs]
            /\ \A r \in Control :
                 pc'[r] \in {"new", "checked", "refused", "rpc", "end", "done"}
        BY <2>2, <3>2 DEF TypeOK, Pcs, beginSessionOperation
      <4>4. QED
        BY <2>2, <4>1, <4>2, <4>3 DEF TypeOK, beginSessionOperation
    <3>3. QED
      BY <3>1, <3>2
  <2>3. ASSUME NEW p \in Prompts, rpcReturn(p) PROVE TypeOK'
    BY <2>3 DEF TypeOK, Notification, DispatchStates, Pcs, Streams, rpcReturn
  <2>4. ASSUME NEW p \in Prompts, waitSignal(p) PROVE TypeOK'
    BY <2>4 DEF TypeOK, Notification, DispatchStates, Pcs, Streams, waitSignal
  <2>5. ASSUME NEW p \in Prompts, waitForUpdateIdle(p) PROVE TypeOK'
    BY <2>5 DEF TypeOK, Notification, DispatchStates, Pcs, Streams, waitForUpdateIdle
  <2>6. ASSUME NEW p \in Prompts, finishDeactivate(p) PROVE TypeOK'
    <3>1. p \in Streams
      BY <2>6 DEF TypeOK, finishDeactivate, Streams
    <3>2. deactivate' \in Seq(Streams) /\ Len(deactivate') <= DeactivateCap
      BY <2>6, <3>1 DEF TypeOK, finishDeactivate
    <3>3. /\ pc' \in [Prompts -> Pcs]
          /\ \A r \in Control :
               pc'[r] \in {"new", "checked", "refused", "rpc", "end", "done"}
      BY <2>6, <3>1 DEF Streams, TypeOK, Pcs, finishDeactivate
    <3>4. QED
      BY <2>6, <3>2, <3>3 DEF TypeOK, finishDeactivate
  <2>7. ASSUME NEW p \in Prompts, finishClosed(p) PROVE TypeOK'
    BY <2>7 DEF TypeOK, Notification, DispatchStates, Pcs, Streams, finishClosed
  <2>8. ASSUME NEW p \in Prompts, finishClose(p) PROVE TypeOK'
    BY <2>8 DEF TypeOK, Notification, DispatchStates, Pcs, Streams, finishClose, dispatchDone
  <2>9. ASSUME NEW p \in Prompts, sendResult(p) PROVE TypeOK'
    BY <2>9 DEF TypeOK, Notification, DispatchStates, Pcs, Streams, sendResult
  <2>10. ASSUME NEW p \in Prompts, endSessionOperation(p) PROVE TypeOK'
    BY <2>10 DEF TypeOK, Notification, DispatchStates, Pcs, Streams, endSessionOperation, WithoutActive
  <2>11. ASSUME NEW p \in Prompts, closeRpcDone(p) PROVE TypeOK'
    BY <2>11 DEF TypeOK, Notification, DispatchStates, Pcs, Streams, closeRpcDone
  <2>12. ASSUME NEW p \in Prompts, closeResultCh(p) PROVE TypeOK'
    BY <2>12 DEF TypeOK, Notification, DispatchStates, Pcs, Streams, closeResultCh
  <2>13. ASSUME NEW p \in Prompts, receiveUpdate(p) PROVE TypeOK'
    <3>1. buf[p] \in Seq(Nat) /\ buf[p] # <<>> /\ Len(buf[p]) <= PromptCap
      BY <2>13 DEF TypeOK, receiveUpdate
    <3>2. /\ Head(buf[p]) \in Nat /\ Tail(buf[p]) \in Seq(Nat)
          /\ Len(Tail(buf[p])) <= PromptCap
      BY <3>1
    <3>3. buf' \in [Prompts -> Seq(Nat)] /\ \A r \in Prompts : Len(buf'[r]) <= PromptCap
      BY <2>13, <3>2 DEF TypeOK, receiveUpdate
    <3>4. delivered' \in [Prompts -> Seq(Nat)]
      BY <2>13, <3>2 DEF TypeOK, receiveUpdate
    <3>5. QED
      BY <2>13, <3>3, <3>4 DEF TypeOK, receiveUpdate
  <2>14. ASSUME NEW p \in Prompts, streamsEnd(p) PROVE TypeOK'
    BY <2>14 DEF TypeOK, Notification, DispatchStates, Pcs, Streams, streamsEnd, resultSent, resultClosed
  <2>15. ASSUME NEW p \in Prompts, stopReading(p) PROVE TypeOK'
    BY <2>15 DEF TypeOK, Notification, DispatchStates, Pcs, Streams, stopReading
  <2>16. ASSUME NEW p \in Prompts, release(p) PROVE TypeOK'
    BY <2>16 DEF TypeOK, Notification, DispatchStates, Pcs, Streams, release, WithoutActive, rpcDone
  <2>17. ASSUME NEW s \in Sessions, enqueueUpdateFromWire(s) PROVE TypeOK'
    <3>1. wired \in Seq(Sessions) /\ Len(wired) + 1 \in Nat
      BY DEF TypeOK
    <3>2. wired' \in Seq(Sessions) /\ dropped' \subseteq Nat
      <4>1. wired' \in Seq(Sessions)
        BY <2>17, <3>1 DEF enqueueUpdateFromWire
      <4>2. dropped' \subseteq Nat
        BY <2>17, <3>1 DEF TypeOK, enqueueUpdateFromWire
      <4>3. QED
        BY <4>1, <4>2
    <3>3. [session |-> s, n |-> Len(wired) + 1] \in Notification
      BY <3>1 DEF Notification
    <3>4. updates' \in Seq(Notification) /\ Len(updates') <= WireCap
      <4>1. CASE Len(updates) < WireCap
        <5> DEFINE m == [session |-> s, n |-> Len(wired) + 1]
        <5>1. updates' = Append(updates, m) /\ m \in Notification
          BY <2>17, <3>3, <4>1 DEF enqueueUpdateFromWire
        <5> HIDE DEF m
        <5>2. QED
          BY <4>1, <5>1 DEF TypeOK
      <4>2. CASE ~(Len(updates) < WireCap)
        BY <2>17, <4>2 DEF TypeOK, enqueueUpdateFromWire
      <4>3. QED
        BY <4>1, <4>2
    <3>5. QED
      BY <2>17, <3>2, <3>4 DEF TypeOK, enqueueUpdateFromWire
  <2>18. CASE dispatchExit
    BY <2>18 DEF TypeOK, Notification, DispatchStates, Pcs, Streams, dispatchExit
  <2>19. CASE dispatchDeactivate
    <3>1. Head(deactivate) \in Streams /\ Head(deactivate) \in Prompts
      BY <2>19 DEF TypeOK, dispatchDeactivate, Streams
    <3>2. deactivate' \in Seq(Streams) /\ Len(deactivate') <= DeactivateCap
      BY <2>19 DEF TypeOK, dispatchDeactivate
    <3>3. /\ disp' \in DispatchStates
          /\ disp'.pc \in {"close", "send"} => disp'.active \in Streams
      BY <2>19, <3>1 DEF TypeOK, dispatchDeactivate, DispatchStates
    <3>4. updatesDone' \in [Prompts -> BOOLEAN]
      BY <2>19, <3>1 DEF TypeOK, dispatchDeactivate
    <3>5. QED
      BY <2>19, <3>2, <3>3, <3>4 DEF TypeOK, dispatchDeactivate
  <2>20. CASE dispatchClose
    BY <2>20 DEF TypeOK, Notification, DispatchStates, Pcs, Streams, dispatchClose
  <2>21. CASE dispatchLookup
    <3>1. /\ Head(updates) \in Notification
          /\ Tail(updates) \in Seq(Notification) /\ Len(Tail(updates)) <= WireCap
      BY <2>21 DEF TypeOK, dispatchLookup
    <3>2. receiverOf(Head(updates).session) \in Streams \cup {None}
      BY DEF receiverOf
    <3>3. /\ disp' \in DispatchStates
          /\ disp'.pc \in {"close", "send"} => disp'.active \in Streams
      BY <2>21, <3>1, <3>2 DEF TypeOK, dispatchLookup, DispatchStates, Notification, Streams
    <3>4. QED
      BY <2>21, <3>1, <3>3 DEF TypeOK, dispatchLookup
  <2>22. CASE dispatchSend
    BY <2>22 DEF TypeOK, Notification, DispatchStates, Pcs, Streams, dispatchSend
  <2>23. CASE dispatchAbort
    BY <2>23 DEF TypeOK, Notification, DispatchStates, Pcs, Streams, dispatchAbort
  <2>24. CASE setClosing
    BY <2>24 DEF TypeOK, Notification, DispatchStates, Pcs, Streams, setClosing
  <2>25. CASE failAll
    BY <2>25 DEF TypeOK, Notification, DispatchStates, Pcs, Streams, failAll
  <2>26. CASE closeAllActiveSessions
    BY <2>26 DEF TypeOK, Notification, DispatchStates, Pcs, Streams, closeAllActiveSessions, dispatchDone
  <2>27. CASE closeActivePrompt
    <3>1. chanClosed' \in [Prompts -> BOOLEAN]
      <4>1. CASE reaperClose = {}
        BY <2>27, <4>1 DEF TypeOK, closeActivePrompt
      <4>2. CASE reaperClose # {}
        <5>1. PICK p \in reaperClose : chanClosed' = [chanClosed EXCEPT ![p] = (p \in Streams)]
          BY <2>27, <4>2, Zenon DEF closeActivePrompt
        <5>2. (p \in Streams) \in BOOLEAN /\ chanClosed \in [Prompts -> BOOLEAN]
          BY DEF TypeOK
        <5>3. QED
          BY <5>1, <5>2, Zenon
      <4>3. QED
        BY <4>1, <4>2
    <3>2. reaper' \in {"wait", "failed", "closeAll", "done"} /\ reaperClose' \subseteq Prompts
      BY <2>27 DEF TypeOK, closeActivePrompt
    <3>3. QED
      BY <2>27, <3>1, <3>2 DEF TypeOK, closeActivePrompt
  <2>28. CASE UNCHANGED vars
    BY <2>28 DEF TypeOK, Notification, DispatchStates, Pcs, Streams, vars
  <2>29. QED
    BY <2>1, <2>2, <2>3, <2>4, <2>5, <2>6, <2>7, <2>8, <2>9, <2>10, <2>11, <2>12, <2>13, <2>14, <2>15, <2>16, <2>17, <2>18, <2>19, <2>20, <2>21, <2>22, <2>23, <2>24, <2>25, <2>26, <2>27, <2>28
    DEF Next, Goroutine, Consumer, Dispatcher, Reaper
<1>3. QED
  BY <1>1, <1>2, PTL DEF Spec

-----------------------------------------------------------------------------
\* What makes NoSendOnClosed inductive: a stream is closed only after it was
\* marked done under the lock, or after the dispatcher has left.
SendInv ==
    /\ NoSendOnClosed
    /\ \A p \in Prompts : chanClosed[p] => updatesDone[p] \/ disp.pc = "done"
    /\ disp.pc = "close" => updatesDone[disp.active]
    /\ reaper \in {"closeAll", "done"} => disp.pc = "done"

\* The dispatcher never sends on a closed update channel, however the finishing
\* prompts, the reaper and the dispatcher interleave.
THEOREM NeverSendsOnClosed == Spec => []NoSendOnClosed
<1>1. Init => SendInv
  BY DEF Init, SendInv, NoSendOnClosed
<1>2. TypeOK /\ SendInv /\ [Next]_vars => SendInv'
  <2> SUFFICES ASSUME TypeOK, SendInv, [Next]_vars PROVE SendInv'
    OBVIOUS
  <2>1. ASSUME NEW p \in Prompts, beginCheckClosed(p) PROVE SendInv'
    BY <2>1 DEF TypeOK, DispatchStates, Streams, SendInv, NoSendOnClosed, beginCheckClosed
  <2>2. ASSUME NEW p \in Prompts, beginSessionOperation(p) PROVE SendInv'
    BY <2>2 DEF TypeOK, DispatchStates, Streams, SendInv, NoSendOnClosed, beginSessionOperation
  <2>3. ASSUME NEW p \in Prompts, rpcReturn(p) PROVE SendInv'
    BY <2>3 DEF TypeOK, DispatchStates, Streams, SendInv, NoSendOnClosed, rpcReturn
  <2>4. ASSUME NEW p \in Prompts, waitSignal(p) PROVE SendInv'
    BY <2>4 DEF TypeOK, DispatchStates, Streams, SendInv, NoSendOnClosed, waitSignal
  <2>5. ASSUME NEW p \in Prompts, waitForUpdateIdle(p) PROVE SendInv'
    BY <2>5 DEF TypeOK, DispatchStates, Streams, SendInv, NoSendOnClosed, waitForUpdateIdle
  <2>6. ASSUME NEW p \in Prompts, finishDeactivate(p) PROVE SendInv'
    BY <2>6 DEF TypeOK, DispatchStates, Streams, SendInv, NoSendOnClosed, finishDeactivate
  <2>7. ASSUME NEW p \in Prompts, finishClosed(p) PROVE SendInv'
    BY <2>7 DEF TypeOK, DispatchStates, Streams, SendInv, NoSendOnClosed, finishClosed
  <2>8. ASSUME NEW p \in Prompts, finishClose(p) PROVE SendInv'
    BY <2>8 DEF TypeOK, DispatchStates, Streams, SendInv, NoSendOnClosed, finishClose, dispatchDone
  <2>9. ASSUME NEW p \in Prompts, sendResult(p) PROVE SendInv'
    BY <2>9 DEF TypeOK, DispatchStates, Streams, SendInv, NoSendOnClosed, sendResult
  <2>10. ASSUME NEW p \in Prompts, endSessionOperation(p) PROVE SendInv'
    BY <2>10 DEF TypeOK, DispatchStates, Streams, SendInv, NoSendOnClosed, endSessionOperation, WithoutActive
  <2>11. ASSUME NEW p \in Prompts, closeRpcDone(p) PROVE SendInv'
    BY <2>11 DEF TypeOK, DispatchStates, Streams, SendInv, NoSendOnClosed, closeRpcDone
  <2>12. ASSUME NEW p \in Prompts, closeResultCh(p) PROVE SendInv'
    BY <2>12 DEF TypeOK, DispatchStates, Streams, SendInv, NoSendOnClosed, closeResultCh
  <2>13. ASSUME NEW p \in Prompts, receiveUpdate(p) PROVE SendInv'
    BY <2>13 DEF TypeOK, DispatchStates, Streams, SendInv, NoSendOnClosed, receiveUpdate
  <2>14. ASSUME NEW p \in Prompts, streamsEnd(p) PROVE SendInv'
    BY <2>14 DEF TypeOK, DispatchStates, Streams, SendInv, NoSendOnClosed, streamsEnd, resultSent, resultClosed
  <2>15. ASSUME NEW p \in Prompts, stopReading(p) PROVE SendInv'
    BY <2>15 DEF TypeOK, DispatchStates, Streams, SendInv, NoSendOnClosed, stopReading
  <2>16. ASSUME NEW p \in Prompts, release(p) PROVE SendInv'
    BY <2>16 DEF TypeOK, DispatchStates, Streams, SendInv, NoSendOnClosed, release, WithoutActive, rpcDone
  <2>17. ASSUME NEW s \in Sessions, enqueueUpdateFromWire(s) PROVE SendInv'
    BY <2>17 DEF TypeOK, DispatchStates, Streams, SendInv, NoSendOnClosed, enqueueUpdateFromWire
  <2>18. CASE dispatchExit
    BY <2>18 DEF TypeOK, DispatchStates, Streams, SendInv, NoSendOnClosed, dispatchExit
  <2>19. CASE dispatchDeactivate
    BY <2>19 DEF TypeOK, DispatchStates, Streams, SendInv, NoSendOnClosed, dispatchDeactivate
  <2>20. CASE dispatchClose
    BY <2>20 DEF TypeOK, DispatchStates, Streams, SendInv, NoSendOnClosed, dispatchClose
  <2>21. CASE dispatchLookup
    BY <2>21 DEF TypeOK, DispatchStates, Streams, SendInv, NoSendOnClosed, dispatchLookup, receiverOf
  <2>22. CASE dispatchSend
    BY <2>22 DEF TypeOK, DispatchStates, Streams, SendInv, NoSendOnClosed, dispatchSend
  <2>23. CASE dispatchAbort
    BY <2>23 DEF TypeOK, DispatchStates, Streams, SendInv, NoSendOnClosed, dispatchAbort
  <2>24. CASE setClosing
    BY <2>24 DEF TypeOK, DispatchStates, Streams, SendInv, NoSendOnClosed, setClosing
  <2>25. CASE failAll
    BY <2>25 DEF TypeOK, DispatchStates, Streams, SendInv, NoSendOnClosed, failAll
  <2>26. CASE closeAllActiveSessions
    BY <2>26 DEF TypeOK, DispatchStates, Streams, SendInv, NoSendOnClosed, closeAllActiveSessions, dispatchDone
  <2>27. CASE closeActivePrompt
    BY <2>27 DEF TypeOK, DispatchStates, Streams, SendInv, NoSendOnClosed, closeActivePrompt
  <2>28. CASE UNCHANGED vars
    BY <2>28 DEF TypeOK, DispatchStates, Streams, SendInv, NoSendOnClosed, vars
  <2>29. QED
    BY <2>1, <2>2, <2>3, <2>4, <2>5, <2>6, <2>7, <2>8, <2>9, <2>10, <2>11, <2>12, <2>13, <2>14, <2>15, <2>16, <2>17, <2>18, <2>19, <2>20, <2>21, <2>22, <2>23, <2>24, <2>25, <2>26, <2>27, <2>28
    DEF Next, Goroutine, Consumer, Dispatcher, Reaper
<1>3. SendInv => NoSendOnClosed
  BY DEF SendInv
<1>4. QED
  BY <1>1, <1>2, <1>3, TypeCorrect, PTL DEF Spec

-----------------------------------------------------------------------------
\* What makes SlotOwned inductive: only held prompts are released by their
\* consumer, and only the others by their own goroutine.
SlotInv ==
    /\ SlotOwned
    /\ \A p \in Prompts : consumer[p] = "stopping" => p \in Held
    /\ \A p \in Held : pc[p] # "end"

\* Every reachable state satisfies it.
LEMMA SlotAlways == Spec => []SlotInv
<1>1. Init => SlotInv
  BY DEF Init, SlotInv, SlotOwned, Admitted
<1>2. TypeOK /\ SlotInv /\ [Next]_vars => SlotInv'
  <2> SUFFICES ASSUME TypeOK, SlotInv, [Next]_vars PROVE SlotInv'
    OBVIOUS
  <2>1. ASSUME NEW p \in Prompts, beginCheckClosed(p) PROVE SlotInv'
    BY <2>1 DEF TypeOK, Pcs, Streams, SlotInv, SlotOwned, Admitted, beginCheckClosed
  <2>2. ASSUME NEW p \in Prompts, beginSessionOperation(p) PROVE SlotInv'
    <3>1. CASE closing \/ activeBySession[SessionOf[p]] # None
      <4>1. /\ pc' = [pc EXCEPT ![p] = "refused"]
            /\ UNCHANGED <<activeBySession, consumer, reaper>> /\ pc[p] = "checked"
        BY <2>2, <3>1, Zenon DEF beginSessionOperation
      <4>2. QED
        BY <4>1 DEF TypeOK, SlotInv, SlotOwned, Admitted
    <3>2. CASE ~(closing \/ activeBySession[SessionOf[p]] # None)
      <4>1. \A r \in Prompts : consumer'[r] = "stopping" => r \in Held
        BY <2>2, <3>2 DEF TypeOK, SlotInv, beginSessionOperation
      <4>2. \A r \in Held : pc'[r] # "end"
        BY <2>2, <3>2 DEF TypeOK, SlotInv, beginSessionOperation
      <4>3. ASSUME NEW r \in Prompts, r # p, Admitted(r)', reaper \in {"wait", "failed"}
            PROVE  activeBySession'[SessionOf[r]] = r
        <5>1. Admitted(r)
          BY <2>2, <3>2, <4>3 DEF TypeOK, Admitted, beginSessionOperation
        <5>2. activeBySession[SessionOf[r]] = r /\ SessionOf[r] # SessionOf[p]
          BY <3>2, <4>3, <5>1 DEF SlotInv, SlotOwned
        <5>3. QED
          BY <2>2, <3>2, <5>2 DEF TypeOK, beginSessionOperation
      <4>4. activeBySession'[SessionOf[p]] = p
        BY <2>2, <3>2 DEF TypeOK, beginSessionOperation
      <4>5. QED
        BY <2>2, <4>1, <4>2, <4>3, <4>4 DEF SlotInv, SlotOwned, beginSessionOperation
    <3>3. QED
      BY <3>1, <3>2
  <2>3. ASSUME NEW p \in Prompts, rpcReturn(p) PROVE SlotInv'
    BY <2>3 DEF TypeOK, Pcs, Streams, SlotInv, SlotOwned, Admitted, rpcReturn
  <2>4. ASSUME NEW p \in Prompts, waitSignal(p) PROVE SlotInv'
    BY <2>4 DEF TypeOK, Pcs, Streams, SlotInv, SlotOwned, Admitted, waitSignal
  <2>5. ASSUME NEW p \in Prompts, waitForUpdateIdle(p) PROVE SlotInv'
    BY <2>5 DEF TypeOK, Pcs, Streams, SlotInv, SlotOwned, Admitted, waitForUpdateIdle
  <2>6. ASSUME NEW p \in Prompts, finishDeactivate(p) PROVE SlotInv'
    BY <2>6 DEF TypeOK, Pcs, Streams, SlotInv, SlotOwned, Admitted, finishDeactivate
  <2>7. ASSUME NEW p \in Prompts, finishClosed(p) PROVE SlotInv'
    BY <2>7 DEF TypeOK, Pcs, Streams, SlotInv, SlotOwned, Admitted, finishClosed
  <2>8. ASSUME NEW p \in Prompts, finishClose(p) PROVE SlotInv'
    BY <2>8 DEF TypeOK, Pcs, Streams, SlotInv, SlotOwned, Admitted, finishClose, dispatchDone
  <2>9. ASSUME NEW p \in Prompts, sendResult(p) PROVE SlotInv'
    BY <2>9 DEF TypeOK, Pcs, Streams, SlotInv, SlotOwned, Admitted, sendResult
  <2>10. ASSUME NEW p \in Prompts, endSessionOperation(p) PROVE SlotInv'
    BY <2>10 DEF TypeOK, Pcs, Streams, SlotInv, SlotOwned, Admitted, endSessionOperation, WithoutActive
  <2>11. ASSUME NEW p \in Prompts, closeRpcDone(p) PROVE SlotInv'
    BY <2>11 DEF TypeOK, Pcs, Streams, SlotInv, SlotOwned, Admitted, closeRpcDone
  <2>12. ASSUME NEW p \in Prompts, closeResultCh(p) PROVE SlotInv'
    BY <2>12 DEF TypeOK, Pcs, Streams, SlotInv, SlotOwned, Admitted, closeResultCh
  <2>13. ASSUME NEW p \in Prompts, receiveUpdate(p) PROVE SlotInv'
    BY <2>13 DEF TypeOK, Pcs, Streams, SlotInv, SlotOwned, Admitted, receiveUpdate
  <2>14. ASSUME NEW p \in Prompts, streamsEnd(p) PROVE SlotInv'
    BY <2>14 DEF TypeOK, Pcs, Streams, SlotInv, SlotOwned, Admitted, streamsEnd, resultSent, resultClosed
  <2>15. ASSUME NEW p \in Prompts, stopReading(p) PROVE SlotInv'
    BY <2>15 DEF TypeOK, Pcs, Streams, SlotInv, SlotOwned, Admitted, stopReading
  <2>16. ASSUME NEW p \in Prompts, release(p) PROVE SlotInv'
    BY <2>16 DEF TypeOK, Pcs, Streams, SlotInv, SlotOwned, Admitted, release, WithoutActive, rpcDone
  <2>17. ASSUME NEW s \in Sessions, enqueueUpdateFromWire(s) PROVE SlotInv'
    BY <2>17 DEF TypeOK, Pcs, Streams, SlotInv, SlotOwned, Admitted, enqueueUpdateFromWire
  <2>18. CASE dispatchExit
    BY <2>18 DEF TypeOK, Pcs, Streams, SlotInv, SlotOwned, Admitted, dispatchExit
  <2>19. CASE dispatchDeactivate
    BY <2>19 DEF TypeOK, Pcs, Streams, SlotInv, SlotOwned, Admitted, dispatchDeactivate
  <2>20. CASE dispatchClose
    BY <2>20 DEF TypeOK, Pcs, Streams, SlotInv, SlotOwned, Admitted, dispatchClose
  <2>21. CASE dispatchLookup
    BY <2>21 DEF TypeOK, Pcs, Streams, SlotInv, SlotOwned, Admitted, dispatchLookup, receiverOf
  <2>22. CASE dispatchSend
    BY <2>22 DEF TypeOK, Pcs, Streams, SlotInv, SlotOwned, Admitted, dispatchSend
  <2>23. CASE dispatchAbort
    BY <2>23 DEF TypeOK, Pcs, Streams, SlotInv, SlotOwned, Admitted, dispatchAbort
  <2>24. CASE setClosing
    BY <2>24 DEF TypeOK, Pcs, Streams, SlotInv, SlotOwned, Admitted, setClosing
  <2>25. CASE failAll
    BY <2>25 DEF TypeOK, Pcs, Streams, SlotInv, SlotOwned, Admitted, failAll
  <2>26. CASE closeAllActiveSessions
    BY <2>26 DEF TypeOK, Pcs, Streams, SlotInv, SlotOwned, Admitted, closeAllActiveSessions, dispatchDone
  <2>27. CASE closeActivePrompt
    BY <2>27 DEF TypeOK, Pcs, Streams, SlotInv, SlotOwned, Admitted, closeActivePrompt
  <2>28. CASE UNCHANGED vars
    BY <2>28 DEF TypeOK, Pcs, Streams, SlotInv, SlotOwned, Admitted, vars
  <2>29. QED
    BY <2>1, <2>2, <2>3, <2>4, <2>5, <2>6, <2>7, <2>8, <2>9, <2>10, <2>11, <2>12, <2>13, <2>14, <2>15, <2>16, <2>17, <2>18, <2>19, <2>20, <2>21, <2>22, <2>23, <2>24, <2>25, <2>26, <2>27, <2>28
    DEF Next, Goroutine, Consumer, Dispatcher, Reaper
<1>3. QED
  BY <1>1, <1>2, TypeCorrect, PTL DEF Spec

\* An admitted operation owns the slot of its session until it is released or
\* failAll empties the table.
THEOREM AdmittedOwnsSlot == Spec => []SlotOwned
<1>1. SlotInv => SlotOwned
  BY DEF SlotInv
<1>2. QED
  BY <1>1, SlotAlways, PTL

\* No slot is leaked: a session that refuses operations is held by one of its
\* own that is still in progress or whose consumer has not released it, also
\* while failAll empties the table (endSessionOperation, release).
NoSlotLeaked ==
    \A s \in Sessions, p \in Prompts :
        activeBySession[s] = p => SessionOf[p] = s /\ Admitted(p)

\* Whoever stops being admitted takes itself out of the table in that step.
THEOREM SlotsAreReleased == Spec => []NoSlotLeaked
<1>1. Init => NoSlotLeaked
  BY DEF Init, NoSlotLeaked
<1>2. TypeOK /\ SlotInv /\ NoSlotLeaked /\ [Next]_vars => NoSlotLeaked'
  <2> SUFFICES ASSUME TypeOK, SlotInv, NoSlotLeaked, [Next]_vars PROVE NoSlotLeaked'
    OBVIOUS
  <2>0. /\ pc \in [Prompts -> Pcs]
        /\ activeBySession \in [Sessions -> Prompts \cup {None}]
        /\ consumer \in [Prompts -> {"none", "reading", "stopping", "gone"}]
        /\ \A r \in Held : pc[r] # "end"
        /\ \A r \in Prompts : consumer[r] = "stopping" => r \in Held
    BY DEF TypeOK, SlotInv
  \* A step that leaves the table and the admissions alone.
  <2>1. ASSUME UNCHANGED activeBySession, \A r \in Prompts : Admitted(r) => Admitted(r)'
        PROVE  NoSlotLeaked'
    BY <2>1 DEF NoSlotLeaked
  <2>2. ASSUME NEW p \in Prompts, beginCheckClosed(p) PROVE NoSlotLeaked'
    <3>1. UNCHANGED activeBySession
      BY <2>2 DEF beginCheckClosed
    <3>2. ASSUME NEW r \in Prompts, Admitted(r) PROVE Admitted(r)'
      BY <2>0, <2>2, <3>2 DEF beginCheckClosed, Admitted
    <3>3. QED
      BY <2>1, <3>1, <3>2
  <2>3. ASSUME NEW p \in Prompts, rpcReturn(p) PROVE NoSlotLeaked'
    <3>1. UNCHANGED activeBySession
      BY <2>3 DEF rpcReturn
    <3>2. ASSUME NEW r \in Prompts, Admitted(r) PROVE Admitted(r)'
      BY <2>0, <2>3, <3>2 DEF rpcReturn, Admitted
    <3>3. QED
      BY <2>1, <3>1, <3>2
  <2>4. ASSUME NEW p \in Prompts, waitForUpdateIdle(p) PROVE NoSlotLeaked'
    <3>1. UNCHANGED activeBySession
      BY <2>4 DEF waitForUpdateIdle
    <3>2. ASSUME NEW r \in Prompts, Admitted(r) PROVE Admitted(r)'
      BY <2>0, <2>4, <3>2 DEF waitForUpdateIdle, Admitted
    <3>3. QED
      BY <2>1, <3>1, <3>2
  <2>5. ASSUME NEW p \in Prompts, finishDeactivate(p) PROVE NoSlotLeaked'
    <3>1. UNCHANGED activeBySession
      BY <2>5 DEF finishDeactivate
    <3>2. ASSUME NEW r \in Prompts, Admitted(r) PROVE Admitted(r)'
      BY <2>0, <2>5, <3>2 DEF finishDeactivate, Admitted
    <3>3. QED
      BY <2>1, <3>1, <3>2
  <2>6. ASSUME NEW p \in Prompts, finishClosed(p) PROVE NoSlotLeaked'
    <3>1. UNCHANGED activeBySession
      BY <2>6 DEF finishClosed
    <3>2. ASSUME NEW r \in Prompts, Admitted(r) PROVE Admitted(r)'
      BY <2>0, <2>6, <3>2 DEF finishClosed, Admitted
    <3>3. QED
      BY <2>1, <3>1, <3>2
  <2>7. ASSUME NEW p \in Prompts, finishClose(p) PROVE NoSlotLeaked'
    <3>1. UNCHANGED activeBySession
      BY <2>7 DEF finishClose
    <3>2. ASSUME NEW r \in Prompts, Admitted(r) PROVE Admitted(r)'
      BY <2>0, <2>7, <3>2 DEF finishClose, Admitted
    <3>3. QED
      BY <2>1, <3>1, <3>2
  <2>8. ASSUME NEW p \in Prompts, sendResult(p) PROVE NoSlotLeaked'
    <3>1. UNCHANGED activeBySession
      BY <2>8 DEF sendResult
    <3>2. ASSUME NEW r \in Prompts, Admitted(r) PROVE Admitted(r)'
      BY <2>0, <2>8, <3>2 DEF sendResult, Admitted
    <3>3. QED
      BY <2>1, <3>1, <3>2
  <2>9. ASSUME NEW p \in Prompts, closeRpcDone(p) PROVE NoSlotLeaked'
    <3>1. UNCHANGED activeBySession
      BY <2>9 DEF closeRpcDone
    <3>2. ASSUME NEW r \in Prompts, Admitted(r) PROVE Admitted(r)'
      BY <2>0, <2>9, <3>2 DEF closeRpcDone, Admitted
    <3>3. QED
      BY <2>1, <3>1, <3>2
  <2>10. ASSUME NEW p \in Prompts, closeResultCh(p) PROVE NoSlotLeaked'
    <3>1. UNCHANGED activeBySession
      BY <2>10 DEF closeResultCh
    <3>2. ASSUME NEW r \in Prompts, Admitted(r) PROVE Admitted(r)'
      BY <2>0, <2>10, <3>2 DEF closeResultCh, Admitted
    <3>3. QED
      BY <2>1, <3>1, <3>2
  <2>11. ASSUME NEW p \in Prompts, streamsEnd(p) PROVE NoSlotLeaked'
    <3>1. UNCHANGED activeBySession
      BY <2>11 DEF streamsEnd
    <3>2. ASSUME NEW r \in Prompts, Admitted(r) PROVE Admitted(r)'
      BY <2>0, <2>11, <3>2 DEF streamsEnd, Admitted
    <3>3. QED
      BY <2>1, <3>1, <3>2
  <2>12. ASSUME NEW p \in Prompts, stopReading(p) PROVE NoSlotLeaked'
    <3>1. UNCHANGED activeBySession
      BY <2>12 DEF stopReading
    <3>2. ASSUME NEW r \in Prompts, Admitted(r) PROVE Admitted(r)'
      BY <2>0, <2>12, <3>2 DEF stopReading, Admitted
    <3>3. QED
      BY <2>1, <3>1, <3>2
  <2>13. ASSUME NEW p \in Prompts, beginSessionOperation(p) PROVE NoSlotLeaked'
    <3>1. CASE closing \/ activeBySession[SessionOf[p]] # None
      <4>1. UNCHANGED <<activeBySession, consumer>> /\ pc' = [pc EXCEPT ![p] = "refused"]
            /\ pc[p] = "checked"
        BY <2>13, <3>1, Zenon DEF beginSessionOperation
      <4>2. ASSUME NEW r \in Prompts, Admitted(r) PROVE Admitted(r)'
        BY <2>0, <4>1, <4>2 DEF Admitted
      <4>3. QED
        BY <2>1, <4>1, <4>2
    <3>2. CASE ~(closing \/ activeBySession[SessionOf[p]] # None)
      <4>1. /\ pc' = [pc EXCEPT ![p] = "rpc"]
            /\ activeBySession' = [activeBySession EXCEPT ![SessionOf[p]] = p]
            /\ consumer' = [consumer EXCEPT ![p] = IF p \in Control THEN @ ELSE "reading"]
            /\ pc[p] = "checked"
        BY <2>13, <3>2, Zenon DEF beginSessionOperation
      <4>2. Admitted(p)' /\ SessionOf[p] \in Sessions
        BY <2>0, <4>1 DEF Admitted, Streams
      <4>3. ASSUME NEW r \in Prompts, r # p, Admitted(r) PROVE Admitted(r)'
        BY <2>0, <4>1, <4>3 DEF Admitted
      <4>4. QED
        BY <2>0, <4>1, <4>2, <4>3 DEF NoSlotLeaked
    <3>3. QED
      BY <3>1, <3>2
  <2>14. ASSUME NEW p \in Prompts, endSessionOperation(p) PROVE NoSlotLeaked'
    <3>1. activeBySession' = WithoutActive(p)
      BY <2>14 DEF endSessionOperation
    <3>2. ASSUME NEW r \in Prompts, r # p, Admitted(r) PROVE Admitted(r)'
      BY <2>0, <2>14, <3>2 DEF endSessionOperation, Admitted
    <3>3. ASSUME NEW s \in Sessions, NEW r \in Prompts, activeBySession'[s] = r
          PROVE  r # p /\ activeBySession[s] = r
      BY <2>0, <3>1, <3>3 DEF WithoutActive, NoSlotLeaked
    <3>4. QED
      BY <3>2, <3>3 DEF NoSlotLeaked
  <2>15. ASSUME NEW p \in Prompts, release(p) PROVE NoSlotLeaked'
    <3>1. activeBySession' = WithoutActive(p)
      BY <2>15 DEF release
    <3>2. ASSUME NEW r \in Prompts, r # p, Admitted(r) PROVE Admitted(r)'
      BY <2>0, <2>15, <3>2 DEF release, Admitted
    <3>3. ASSUME NEW s \in Sessions, NEW r \in Prompts, activeBySession'[s] = r
          PROVE  r # p /\ activeBySession[s] = r
      BY <2>0, <3>1, <3>3 DEF WithoutActive, NoSlotLeaked
    <3>4. QED
      BY <3>2, <3>3 DEF NoSlotLeaked
  <2>16. CASE closeAllActiveSessions
    BY <2>16 DEF closeAllActiveSessions, NoSlotLeaked
  <2>17. ASSUME (\E p \in Prompts : waitSignal(p) \/ receiveUpdate(p))
                \/ (\E s \in Sessions : enqueueUpdateFromWire(s)) \/ Dispatcher
                \/ setClosing \/ failAll \/ closeActivePrompt \/ UNCHANGED vars
         PROVE  NoSlotLeaked'
    <3>1. UNCHANGED <<activeBySession, pc, consumer>>
      BY <2>17, Zenon
      DEF waitSignal, receiveUpdate, enqueueUpdateFromWire, Dispatcher, dispatchExit,
          dispatchDeactivate, dispatchClose, dispatchLookup, dispatchSend,
          dispatchAbort, setClosing, failAll, closeActivePrompt, vars
    <3>2. QED
      BY <2>1, <3>1 DEF Admitted
  <2>18. QED
    BY <2>2, <2>3, <2>4, <2>5, <2>6, <2>7, <2>8, <2>9, <2>10, <2>11, <2>12, <2>13, <2>14, <2>15, <2>16, <2>17
    DEF Next, Goroutine, Consumer, Reaper
<1>3. QED
  BY <1>1, <1>2, SlotAlways, TypeCorrect, PTL DEF Spec

-----------------------------------------------------------------------------
\* What makes HeldStreamsOver inductive: the consumer of a held prompt that is
\* never abandoned leaves only when both streams are over, and nothing comes
\* after that; only failAll sets closed.
HeldInv ==
    /\ ~closed => reaper = "wait"
    /\ \A p \in Held \ Abandoning :
         consumer[p] \in {"stopping", "gone"} =>
             chanClosed[p] /\ buf[p] = <<>> /\ resultSent(p)

\* An operation admitted to the session of a held prompt finds its streams
\* over: its consumer has received every update and the result.
THEOREM HeldPromptFinished == Spec => []HeldStreamsOver
<1>1. Init => HeldInv
  BY DEF Init, HeldInv
<1>2. TypeOK /\ NoSendOnClosed /\ HeldInv /\ [Next]_vars => HeldInv'
  <2> SUFFICES ASSUME TypeOK, NoSendOnClosed, HeldInv, [Next]_vars PROVE HeldInv'
    OBVIOUS
  <2> USE DEF TypeOK, HeldInv, resultSent
  <2>1. ASSUME NEW p \in Prompts, beginCheckClosed(p) PROVE HeldInv'
    BY <2>1 DEF beginCheckClosed
  <2>2. ASSUME NEW p \in Prompts, beginSessionOperation(p) PROVE HeldInv'
    BY <2>2 DEF beginSessionOperation
  <2>3. ASSUME NEW p \in Prompts, rpcReturn(p) PROVE HeldInv'
    BY <2>3 DEF rpcReturn
  <2>4. ASSUME NEW p \in Prompts, waitSignal(p) PROVE HeldInv'
    BY <2>4 DEF waitSignal
  <2>5. ASSUME NEW p \in Prompts, waitForUpdateIdle(p) PROVE HeldInv'
    BY <2>5 DEF waitForUpdateIdle
  <2>6. ASSUME NEW p \in Prompts, finishDeactivate(p) PROVE HeldInv'
    BY <2>6 DEF finishDeactivate
  <2>7. ASSUME NEW p \in Prompts, finishClosed(p) PROVE HeldInv'
    BY <2>7 DEF finishClosed
  <2>8. ASSUME NEW p \in Prompts, finishClose(p) PROVE HeldInv'
    BY <2>8 DEF finishClose
  <2>9. ASSUME NEW p \in Prompts, sendResult(p) PROVE HeldInv'
    BY <2>9 DEF sendResult
  <2>10. ASSUME NEW p \in Prompts, endSessionOperation(p) PROVE HeldInv'
    BY <2>10 DEF endSessionOperation
  <2>11. ASSUME NEW p \in Prompts, closeRpcDone(p) PROVE HeldInv'
    BY <2>11 DEF closeRpcDone
  <2>12. ASSUME NEW p \in Prompts, closeResultCh(p) PROVE HeldInv'
    BY <2>12 DEF closeResultCh
  <2>13. ASSUME NEW p \in Prompts, receiveUpdate(p) PROVE HeldInv'
    BY <2>13 DEF receiveUpdate
  <2>14. ASSUME NEW p \in Prompts, streamsEnd(p) PROVE HeldInv'
    BY <2>14 DEF streamsEnd, resultClosed
  <2>15. ASSUME NEW p \in Prompts, stopReading(p) PROVE HeldInv'
    BY <2>15 DEF stopReading
  <2>16. ASSUME NEW p \in Prompts, release(p) PROVE HeldInv'
    BY <2>16 DEF release
  <2>17. ASSUME NEW s \in Sessions, enqueueUpdateFromWire(s) PROVE HeldInv'
    BY <2>17 DEF enqueueUpdateFromWire
  <2>18. CASE dispatchExit
    BY <2>18 DEF dispatchExit
  <2>19. CASE dispatchDeactivate
    BY <2>19 DEF dispatchDeactivate
  <2>20. CASE dispatchClose
    BY <2>20 DEF dispatchClose, DispatchStates, Streams
  <2>21. CASE dispatchLookup
    BY <2>21 DEF dispatchLookup
  <2>22. CASE dispatchSend
    BY <2>22 DEF dispatchSend, NoSendOnClosed
  <2>23. CASE dispatchAbort
    BY <2>23 DEF dispatchAbort
  <2>24. CASE setClosing
    BY <2>24 DEF setClosing
  <2>25. CASE failAll
    BY <2>25 DEF failAll
  <2>26. CASE closeAllActiveSessions
    BY <2>26 DEF closeAllActiveSessions
  <2>27. CASE closeActivePrompt
    <3>1. \A p \in Held : chanClosed[p] => chanClosed'[p]
      <4>1. CASE reaperClose = {}
        BY <2>27, <4>1 DEF closeActivePrompt
      <4>2. CASE reaperClose # {}
        <5>1. PICK r \in reaperClose : chanClosed' = [chanClosed EXCEPT ![r] = (r \in Streams)]
          BY <2>27, <4>2, Zenon DEF closeActivePrompt
        <5>2. ASSUME NEW p \in Held, chanClosed[p] PROVE chanClosed'[p]
          <6>1. p \in Streams /\ p \in DOMAIN chanClosed
            BY DEF Streams
          <6>2. QED
            BY <5>1, <5>2, <6>1, Zenon
        <5>3. QED
          BY <5>2
      <4>3. QED
        BY <4>1, <4>2
    <3>2. closed' = closed /\ pc' = pc /\ consumer' = consumer /\ buf' = buf
      BY <2>27 DEF closeActivePrompt
    <3>3. closed
      BY <2>27 DEF closeActivePrompt
    <3>4. QED
      BY <3>1, <3>2, <3>3
  <2>28. CASE UNCHANGED vars
    BY <2>28 DEF vars
  <2>29. QED
    BY <2>1, <2>2, <2>3, <2>4, <2>5, <2>6, <2>7, <2>8, <2>9, <2>10, <2>11, <2>12, <2>13, <2>14, <2>15, <2>16, <2>17, <2>18, <2>19, <2>20, <2>21, <2>22, <2>23, <2>24, <2>25, <2>26, <2>27, <2>28
    DEF Next, Goroutine, Consumer, Dispatcher, Reaper
<1>3. TypeOK /\ HeldInv /\ SlotOwned => HeldStreamsOver
  <2> SUFFICES ASSUME TypeOK, HeldInv, SlotOwned,
                      NEW p \in Held \ Abandoning, NEW q \in Prompts,
                      p # q, SessionOf[p] = SessionOf[q], ~closed,
                      Started(p), Admitted(q)
               PROVE  chanClosed[p] /\ buf[p] = <<>> /\ resultSent(p)
    BY DEF HeldStreamsOver
  <2>1. activeBySession[SessionOf[q]] = q
    BY DEF SlotOwned, HeldInv
  <2>2. ~Admitted(p)
    BY <2>1 DEF SlotOwned, HeldInv
  <2>3. consumer[p] = "gone"
    BY <2>2 DEF Admitted, Started
  <2>4. QED
    BY <2>3 DEF HeldInv
<1>4. QED
  BY <1>1, <1>2, <1>3, TypeCorrect, NeverSendsOnClosed, AdmittedOwnsSlot, PTL DEF Spec

-----------------------------------------------------------------------------
\* Everything that was ever put in the update channel of p, in order.
Stream(p) == delivered[p] \o buf[p]

\* An update of p's session that the dispatcher takes now goes to p.
Open(p) == activeBySession[SessionOf[p]] = p /\ ~updatesDone[p]

\* The dispatcher holds an update for p.
SendingTo(p) == disp.pc = "send" /\ disp.active = p

\* A step that neither takes an update off the wire nor moves one: the
\* dispatcher starts no send, and gives one up only after the close.
Quiet ==
    /\ UNCHANGED wireVars
    /\ disp' = disp \/ (disp'.pc # "send" /\ (disp.pc = "send" => closed))
    /\ \A p \in Prompts : Stream(p)' = Stream(p)

\* Receiving an update moves it from the channel to the consumer.
LEMMA ReceiveKeepsStream ==
    ASSUME NEW d \in Seq(Nat), NEW b \in Seq(Nat), b # <<>>
    PROVE  Append(d, Head(b)) \o Tail(b) = d \o b
<1>1. /\ Head(b) = b[1] /\ b[1] \in Nat
      /\ Tail(b) \in Seq(Nat) /\ Len(Tail(b)) = Len(b) - 1
      /\ \A i \in 1 .. Len(b) - 1 : Tail(b)[i] = b[i + 1]
      /\ Len(b) \in Nat /\ Len(b) > 0 /\ Len(d) \in Nat
  BY EmptySeq, HeadTailProperties
<1> DEFINE e == Append(d, Head(b))
           t == Tail(b)
<1>2. /\ e \in Seq(Nat) /\ Len(e) = Len(d) + 1
      /\ \A i \in 1 .. Len(d) : e[i] = d[i]
      /\ e[Len(d) + 1] = b[1]
  BY <1>1, AppendProperties
<1>3. t \in Seq(Nat) /\ Len(t) = Len(b) - 1 /\ \A i \in 1 .. Len(b) - 1 : t[i] = b[i + 1]
  BY <1>1
<1> DEFINE u == e \o t
           v == d \o b
<1> HIDE DEF e, t
<1>4. /\ u \in Seq(Nat) /\ Len(u) = Len(e) + Len(t)
      /\ \A i \in 1 .. Len(e) + Len(t) :
           u[i] = IF i <= Len(e) THEN e[i] ELSE t[i - Len(e)]
  <2>1. e \in Seq(Nat) /\ t \in Seq(Nat)
    BY <1>2, <1>3
  <2>2. QED
    BY <2>1, ConcatProperties, Zenon
<1>5. /\ v \in Seq(Nat) /\ Len(v) = Len(d) + Len(b)
      /\ \A i \in 1 .. Len(d) + Len(b) :
           v[i] = IF i <= Len(d) THEN d[i] ELSE b[i - Len(d)]
  BY ConcatProperties, Zenon
<1> HIDE DEF u, v
<1>6. Len(u) = Len(v)
  BY <1>1, <1>2, <1>3, <1>4, <1>5
<1>7. ASSUME NEW i \in 1 .. Len(u) PROVE u[i] = v[i]
  <2>1. i \in Nat /\ i >= 1 /\ i <= Len(d) + Len(b)
    BY <1>1, <1>5, <1>6
  <2>2. CASE i <= Len(d)
    <3>1. i \in 1 .. Len(d) /\ i \in 1 .. Len(e) + Len(t) /\ i <= Len(e)
      BY <1>1, <1>2, <1>3, <2>1, <2>2
    <3>2. u[i] = e[i] /\ v[i] = d[i]
      BY <1>1, <1>4, <1>5, <2>1, <3>1
    <3>3. QED
      BY <1>2, <3>1, <3>2
  <2>3. CASE i = Len(d) + 1
    <3>1. i \in 1 .. Len(e) + Len(t) /\ i <= Len(e) /\ ~(i <= Len(d)) /\ i - Len(d) = 1
      BY <1>1, <1>2, <1>3, <2>1, <2>3
    <3>2. u[i] = e[i]
      BY <1>4, <3>1
    <3>3. v[i] = b[i - Len(d)]
      BY <1>1, <1>5, <1>6, <2>1, <3>1
    <3>4. QED
      BY <1>2, <2>3, <3>1, <3>2, <3>3
  <2>4. CASE i > Len(d) + 1
    <3>1. u[i] = t[i - Len(e)] /\ v[i] = b[i - Len(d)]
      BY <1>1, <1>2, <1>3, <1>4, <1>5, <2>1, <2>4
    <3>2. i - Len(e) \in 1 .. Len(b) - 1 /\ (i - Len(e)) + 1 = i - Len(d)
      BY <1>1, <1>2, <2>1, <2>4
    <3>3. QED
      BY <1>3, <3>1, <3>2
  <2>5. QED
    BY <1>1, <2>1, <2>2, <2>3, <2>4
<1>8. u = v
  BY <1>4, <1>5, <1>6, <1>7, SeqEqual
<1>9. QED
  BY <1>8 DEF e, t, u, v

\* A send puts the update at the end of the stream.
LEMMA SendExtendsStream ==
    ASSUME NEW d \in Seq(Nat), NEW b \in Seq(Nat), NEW m \in Nat
    PROVE  d \o Append(b, m) = Append(d \o b, m)
<1>1. <<m>> \in Seq(Nat)
  OBVIOUS
<1>2. Append(b, m) = b \o <<m>>
  BY AppendIsConcat
<1>3. d \o b \in Seq(Nat)
  BY ConcatProperties
<1>4. Append(d \o b, m) = (d \o b) \o <<m>>
  BY <1>3, AppendIsConcat
<1>5. QED
  BY <1>1, <1>2, <1>4, ConcatAssociative

\* The stream of every prompt is a sequence of wire positions.
LEMMA StreamType ==
    ASSUME TypeOK, NEW p \in Prompts
    PROVE  /\ Stream(p) \in Seq(Nat) /\ Len(Stream(p)) \in Nat
           /\ Stream(p) # <<>> => Len(Stream(p)) >= 1
           /\ \A i \in 1 .. Len(Stream(p)) : Stream(p)[i] \in Nat
<1>1. delivered[p] \in Seq(Nat) /\ buf[p] \in Seq(Nat)
  BY DEF TypeOK
<1>2. Stream(p) \in Seq(Nat)
  BY <1>1, ConcatProperties DEF Stream
<1>3. QED
  BY <1>2, EmptySeq, ElementOfSeq, LenProperties

\* What no step does: open the client again, take an admission back, or hand
\* an update stream back to a prompt that has lost it.
Forward ==
    /\ closed => closed'
    /\ \A p \in Prompts : Started(p) => Started(p)' /\ (Open(p)' => Open(p))

\* Every step goes forward, and it puts a notification in the queue, takes one
\* out, sends one to a stream, or leaves all of them where they are.
LEMMA StepKinds ==
    ASSUME TypeOK, [Next]_vars
    PROVE  /\ Forward
           /\ \/ \E s \in Sessions : enqueueUpdateFromWire(s)
              \/ dispatchLookup \/ dispatchSend \/ Quiet
<1>1. ASSUME NEW q \in Prompts, beginCheckClosed(q) PROVE Forward /\ Quiet
  <2>1. Forward
    BY <1>1 DEF TypeOK, Forward, Started, Open, beginCheckClosed
  <2>2. Quiet
    BY <1>1 DEF Quiet, Stream, beginCheckClosed
  <2>3. QED
    BY <2>1, <2>2
<1>2. ASSUME NEW q \in Prompts, beginSessionOperation(q) PROVE Forward /\ Quiet
  <2>1. Forward
    BY <1>2 DEF TypeOK, Forward, Started, Open, beginSessionOperation
  <2>2. Quiet
    BY <1>2 DEF Quiet, Stream, beginSessionOperation
  <2>3. QED
    BY <2>1, <2>2
<1>3. ASSUME NEW q \in Prompts, rpcReturn(q) PROVE Forward /\ Quiet
  <2>1. Forward
    BY <1>3 DEF TypeOK, Forward, Started, Open, rpcReturn
  <2>2. Quiet
    BY <1>3 DEF Quiet, Stream, rpcReturn
  <2>3. QED
    BY <2>1, <2>2
<1>4. ASSUME NEW q \in Prompts, waitSignal(q) PROVE Forward /\ Quiet
  <2>1. Forward
    BY <1>4 DEF TypeOK, Forward, Started, Open, waitSignal
  <2>2. Quiet
    BY <1>4 DEF Quiet, Stream, waitSignal
  <2>3. QED
    BY <2>1, <2>2
<1>5. ASSUME NEW q \in Prompts, waitForUpdateIdle(q) PROVE Forward /\ Quiet
  <2>1. Forward
    BY <1>5 DEF TypeOK, Forward, Started, Open, waitForUpdateIdle
  <2>2. Quiet
    BY <1>5 DEF Quiet, Stream, waitForUpdateIdle
  <2>3. QED
    BY <2>1, <2>2
<1>6. ASSUME NEW q \in Prompts, finishDeactivate(q) PROVE Forward /\ Quiet
  <2>1. Forward
    BY <1>6 DEF TypeOK, Forward, Started, Open, finishDeactivate
  <2>2. Quiet
    BY <1>6 DEF Quiet, Stream, finishDeactivate
  <2>3. QED
    BY <2>1, <2>2
<1>7. ASSUME NEW q \in Prompts, finishClosed(q) PROVE Forward /\ Quiet
  <2>1. Forward
    BY <1>7 DEF TypeOK, Forward, Started, Open, finishClosed
  <2>2. Quiet
    BY <1>7 DEF Quiet, Stream, finishClosed
  <2>3. QED
    BY <2>1, <2>2
<1>8. ASSUME NEW q \in Prompts, finishClose(q) PROVE Forward /\ Quiet
  <2>1. Forward
    BY <1>8 DEF TypeOK, Forward, Started, Open, finishClose
  <2>2. Quiet
    BY <1>8 DEF Quiet, Stream, finishClose
  <2>3. QED
    BY <2>1, <2>2
<1>9. ASSUME NEW q \in Prompts, sendResult(q) PROVE Forward /\ Quiet
  <2>1. Forward
    BY <1>9 DEF TypeOK, Forward, Started, Open, sendResult
  <2>2. Quiet
    BY <1>9 DEF Quiet, Stream, sendResult
  <2>3. QED
    BY <2>1, <2>2
<1>10. ASSUME NEW q \in Prompts, endSessionOperation(q) PROVE Forward /\ Quiet
  <2>1. Forward
    BY <1>10 DEF TypeOK, Forward, Started, Open, endSessionOperation, WithoutActive
  <2>2. Quiet
    BY <1>10 DEF Quiet, Stream, endSessionOperation
  <2>3. QED
    BY <2>1, <2>2
<1>11. ASSUME NEW q \in Prompts, closeRpcDone(q) PROVE Forward /\ Quiet
  <2>1. Forward
    BY <1>11 DEF TypeOK, Forward, Started, Open, closeRpcDone
  <2>2. Quiet
    BY <1>11 DEF Quiet, Stream, closeRpcDone
  <2>3. QED
    BY <2>1, <2>2
<1>12. ASSUME NEW q \in Prompts, closeResultCh(q) PROVE Forward /\ Quiet
  <2>1. Forward
    BY <1>12 DEF TypeOK, Forward, Started, Open, closeResultCh
  <2>2. Quiet
    BY <1>12 DEF Quiet, Stream, closeResultCh
  <2>3. QED
    BY <2>1, <2>2
<1>13. ASSUME NEW q \in Prompts, receiveUpdate(q) PROVE Forward /\ Quiet
  <2>1. Forward
    BY <1>13 DEF TypeOK, Forward, Started, Open, receiveUpdate
  <2>2. ASSUME NEW p \in Prompts PROVE Stream(p)' = Stream(p)
    <3>1. CASE p = q
      <4>1. delivered[q] \in Seq(Nat) /\ buf[q] \in Seq(Nat) /\ buf[q] # <<>>
        BY <1>13 DEF TypeOK, receiveUpdate
      <4>2. delivered'[q] = Append(delivered[q], Head(buf[q])) /\ buf'[q] = Tail(buf[q])
        BY <1>13 DEF TypeOK, receiveUpdate
      <4>3. QED
        BY <3>1, <4>1, <4>2, ReceiveKeepsStream DEF Stream
    <3>2. CASE p # q
      BY <1>13, <3>2 DEF TypeOK, Stream, receiveUpdate
    <3>3. QED
      BY <3>1, <3>2
  <2>3. QED
    BY <1>13, <2>1, <2>2 DEF Quiet, receiveUpdate
<1>14. ASSUME NEW q \in Prompts, streamsEnd(q) PROVE Forward /\ Quiet
  <2>1. Forward
    BY <1>14 DEF TypeOK, Forward, Started, Open, streamsEnd
  <2>2. Quiet
    BY <1>14 DEF Quiet, Stream, streamsEnd
  <2>3. QED
    BY <2>1, <2>2
<1>15. ASSUME NEW q \in Prompts, stopReading(q) PROVE Forward /\ Quiet
  <2>1. Forward
    BY <1>15 DEF TypeOK, Forward, Started, Open, stopReading
  <2>2. Quiet
    BY <1>15 DEF Quiet, Stream, stopReading
  <2>3. QED
    BY <2>1, <2>2
<1>16. ASSUME NEW q \in Prompts, release(q) PROVE Forward /\ Quiet
  <2>1. Forward
    BY <1>16 DEF TypeOK, Forward, Started, Open, release, WithoutActive
  <2>2. Quiet
    BY <1>16 DEF Quiet, Stream, release
  <2>3. QED
    BY <2>1, <2>2
<1>17. ASSUME NEW s \in Sessions, enqueueUpdateFromWire(s) PROVE Forward
  BY <1>17 DEF TypeOK, Forward, Started, Open, enqueueUpdateFromWire
<1>18. ASSUME dispatchLookup PROVE Forward
  BY <1>18 DEF TypeOK, Forward, Started, Open, dispatchLookup
<1>19. ASSUME dispatchSend PROVE Forward
  BY <1>19 DEF TypeOK, Forward, Started, Open, dispatchSend
<1>20. ASSUME dispatchExit PROVE Forward /\ Quiet
  <2>1. Forward
    BY <1>20 DEF TypeOK, Forward, Started, Open, dispatchExit
  <2>2. Quiet
    BY <1>20 DEF TypeOK, Quiet, Stream, DispatchStates, dispatchExit
  <2>3. QED
    BY <2>1, <2>2
<1>21. ASSUME dispatchDeactivate PROVE Forward /\ Quiet
  <2>1. Forward
    BY <1>21 DEF TypeOK, Forward, Started, Open, dispatchDeactivate
  <2>2. Quiet
    BY <1>21 DEF TypeOK, Quiet, Stream, DispatchStates, dispatchDeactivate
  <2>3. QED
    BY <2>1, <2>2
<1>22. ASSUME dispatchClose PROVE Forward /\ Quiet
  <2>1. Forward
    BY <1>22 DEF TypeOK, Forward, Started, Open, dispatchClose
  <2>2. Quiet
    BY <1>22 DEF TypeOK, Quiet, Stream, DispatchStates, dispatchClose
  <2>3. QED
    BY <2>1, <2>2
<1>23. ASSUME dispatchAbort PROVE Forward /\ Quiet
  <2>1. Forward
    BY <1>23 DEF TypeOK, Forward, Started, Open, dispatchAbort
  <2>2. Quiet
    BY <1>23 DEF TypeOK, Quiet, Stream, DispatchStates, dispatchAbort
  <2>3. QED
    BY <2>1, <2>2
<1>24. ASSUME setClosing PROVE Forward /\ Quiet
  <2>1. Forward
    BY <1>24 DEF TypeOK, Forward, Started, Open, setClosing
  <2>2. Quiet
    BY <1>24 DEF TypeOK, Quiet, Stream, DispatchStates, setClosing
  <2>3. QED
    BY <2>1, <2>2
<1>25. ASSUME failAll PROVE Forward /\ Quiet
  <2>1. Forward
    BY <1>25 DEF TypeOK, Forward, Started, Open, failAll
  <2>2. Quiet
    BY <1>25 DEF TypeOK, Quiet, Stream, DispatchStates, failAll
  <2>3. QED
    BY <2>1, <2>2
<1>26. ASSUME closeAllActiveSessions PROVE Forward /\ Quiet
  <2>1. Forward
    BY <1>26 DEF TypeOK, Forward, Started, Open, closeAllActiveSessions
  <2>2. Quiet
    BY <1>26 DEF TypeOK, Quiet, Stream, DispatchStates, closeAllActiveSessions
  <2>3. QED
    BY <2>1, <2>2
<1>27. ASSUME closeActivePrompt PROVE Forward /\ Quiet
  <2>1. Forward
    BY <1>27 DEF TypeOK, Forward, Started, Open, closeActivePrompt
  <2>2. Quiet
    BY <1>27 DEF TypeOK, Quiet, Stream, DispatchStates, closeActivePrompt
  <2>3. QED
    BY <2>1, <2>2
<1>28. ASSUME UNCHANGED vars PROVE Forward /\ Quiet
  BY <1>28 DEF TypeOK, Forward, Started, Open, Quiet, Stream, vars
<1>29. QED
  BY <1>1, <1>2, <1>3, <1>4, <1>5, <1>6, <1>7, <1>8, <1>9, <1>10, <1>11, <1>12, <1>13, <1>14, <1>15, <1>16, <1>17, <1>18, <1>19, <1>20, <1>21, <1>22, <1>23, <1>24, <1>25, <1>26, <1>27, <1>28
  DEF Next, Goroutine, Consumer, Dispatcher, Reaper

\* The slot of a session holds an operation that was admitted to it.
SlotsStarted ==
    \A s \in Sessions :
        activeBySession[s] # None =>
            SessionOf[activeBySession[s]] = s /\ Started(activeBySession[s])

\* Notification n waits in the shared queue.
Queued(n) == \E i \in 1 .. Len(updates) : updates[i].n = n

\* The queue holds notifications of the wire, each under its own session, in
\* the order in which they came.
QueueOrdered ==
    \A i \in 1 .. Len(updates) :
        /\ updates[i].n \in 1 .. Len(wired)
        /\ wired[updates[i].n] = updates[i].session
        /\ \A j \in 1 .. Len(updates) : i < j => updates[i].n < updates[j].n

\* What came after a queued notification was dropped or is queued too.
QueueComplete ==
    \A i \in 1 .. Len(updates), n \in 1 .. Len(wired) :
        updates[i].n < n => n \in dropped \/ Queued(n)

\* The update the dispatcher is sending is of its receiver's session and was
\* ahead of all that is queued; what came after it was dropped or is queued.
HandInv ==
    disp.pc = "send" =>
        /\ disp.msg \in 1 .. Len(wired)
        /\ wired[disp.msg] = SessionOf[disp.active]
        /\ \A i \in 1 .. Len(updates) : disp.msg < updates[i].n
        /\ \A n \in 1 .. Len(wired) : disp.msg < n => n \in dropped \/ Queued(n)

QueueInv == SlotsStarted /\ QueueOrdered /\ QueueComplete /\ HandInv

\* A notification that comes in goes to the end of the wire, and to the end of
\* the queue or to the dropped ones.
LEMMA EnqueueFacts ==
    ASSUME TypeOK, NEW s \in Sessions, enqueueUpdateFromWire(s)
    PROVE  /\ Len(wired) \in Nat /\ Len(wired') = Len(wired) + 1
           /\ wired'[Len(wired) + 1] = s
           /\ \A n \in 1 .. Len(wired) : wired'[n] = wired[n]
           /\ Len(updates) \in Nat
           /\ \A i \in 1 .. Len(updates) : updates'[i] = updates[i]
           /\ \/ /\ Len(updates') = Len(updates) + 1 /\ dropped' = dropped
                 /\ updates'[Len(updates) + 1].n = Len(wired) + 1
                 /\ updates'[Len(updates) + 1].session = s
              \/ updates' = updates /\ dropped' = dropped \cup {Len(wired) + 1}
<1>1. wired \in Seq(Sessions) /\ updates \in Seq(Notification)
  BY DEF TypeOK
<1>2. wired' = Append(wired, s)
  BY DEF enqueueUpdateFromWire
<1>3. /\ Len(wired) \in Nat /\ Len(wired') = Len(wired) + 1
      /\ wired'[Len(wired) + 1] = s
      /\ \A n \in 1 .. Len(wired) : wired'[n] = wired[n]
  BY <1>1, <1>2, AppendProperties, LenProperties
<1>4. Len(updates) \in Nat
  BY <1>1, LenProperties
<1> DEFINE m == [session |-> s, n |-> Len(wired) + 1]
<1>5. m.n = Len(wired) + 1 /\ m.session = s /\ m \in Notification
  BY <1>3 DEF Notification
<1>6. CASE Len(updates) < WireCap
  <2>1. updates' = Append(updates, m) /\ dropped' = dropped
    BY <1>6 DEF enqueueUpdateFromWire
  <2> HIDE DEF m
  <2>2. /\ Len(updates') = Len(updates) + 1 /\ updates'[Len(updates) + 1] = m
        /\ \A i \in 1 .. Len(updates) : updates'[i] = updates[i]
    BY <1>1, <1>5, <2>1, AppendProperties
  <2>3. QED
    BY <1>3, <1>4, <1>5, <2>1, <2>2
<1>7. CASE ~(Len(updates) < WireCap)
  BY <1>3, <1>4, <1>7 DEF enqueueUpdateFromWire
<1>8. QED
  BY <1>6, <1>7

\* The dispatcher takes the head of the queue; it sends it to the prompt that
\* owns the session's slot, or discards it when there is none.
LEMMA LookupFacts ==
    ASSUME TypeOK, SlotsStarted, dispatchLookup
    PROVE  /\ Len(updates) \in Nat /\ Len(updates) >= 1 /\ disp.pc = "select"
           /\ Len(updates') = Len(updates) - 1
           /\ \A i \in 1 .. Len(updates') : updates'[i] = updates[i + 1]
           /\ UNCHANGED <<wired, dropped, activeBySession, updatesDone, pc, buf,
                          delivered, closed>>
           /\ updates[1] \in Notification
           /\ \/ /\ disp' = disp
                 /\ \A p \in Streams : Open(p) => SessionOf[p] # updates[1].session
              \/ /\ disp'.pc = "send" /\ disp'.msg = updates[1].n
                 /\ disp'.active \in Streams /\ Open(disp'.active)
                 /\ SessionOf[disp'.active] = updates[1].session
                 /\ Started(disp'.active)
<1>1. updates \in Seq(Notification) /\ updates # <<>>
  BY DEF TypeOK, dispatchLookup
<1>2. /\ Len(updates) \in Nat /\ Len(updates) >= 1
      /\ Head(updates) = updates[1] /\ updates[1] \in Notification
  BY <1>1, EmptySeq, LenProperties, ElementOfSeq
<1>3. /\ Len(updates') = Len(updates) - 1
      /\ \A i \in 1 .. Len(updates') : updates'[i] = updates[i + 1]
  BY <1>1, HeadTailProperties DEF dispatchLookup
<1>4. /\ disp.pc = "select"
      /\ UNCHANGED <<wired, dropped, activeBySession, updatesDone, pc, buf,
                     delivered, closed>>
  BY DEF dispatchLookup
<1> DEFINE s == updates[1].session
           a == receiverOf(s)
<1>5. s \in Sessions
  BY <1>2 DEF Notification
<1>6. CASE a # None
  <2>1. disp' = [pc |-> "send", active |-> a, msg |-> updates[1].n]
    BY <1>2, <1>6 DEF dispatchLookup
  <2>2. a = activeBySession[s] /\ a \in Streams /\ ~updatesDone[a]
    BY <1>6 DEF receiverOf
  <2>3. SessionOf[a] = s /\ Started(a)
    BY <1>5, <1>6, <2>2 DEF SlotsStarted
  <2>4. Open(a)
    BY <2>2, <2>3 DEF Open
  <2> HIDE DEF a, s
  <2>5. disp'.pc = "send" /\ disp'.msg = updates[1].n /\ disp'.active = a
    BY <2>1
  <2>6. QED
    BY <1>2, <1>3, <1>4, <2>2, <2>3, <2>4, <2>5 DEF s
<1>7. CASE a = None
  <2>1. disp' = disp
    BY <1>2, <1>7 DEF dispatchLookup
  <2>2. ASSUME NEW p \in Streams, Open(p) PROVE SessionOf[p] # s
    BY <1>7, <2>2 DEF Open, receiverOf, Streams
  <2>3. QED
    BY <1>2, <1>3, <1>4, <2>1, <2>2
<1>8. QED
  BY <1>6, <1>7

\* Only an admission fills a slot, and it starts the operation.
LEMMA SlotsNext == TypeOK /\ SlotsStarted /\ [Next]_vars => SlotsStarted'
<1> SUFFICES ASSUME TypeOK, SlotsStarted, [Next]_vars PROVE SlotsStarted'
  OBVIOUS
<1>1. \A p \in Prompts : Started(p) => Started(p)'
  BY StepKinds DEF Forward
<1>2. ASSUME NEW s \in Sessions PROVE
          \/ activeBySession'[s] = activeBySession[s] \/ activeBySession'[s] = None
          \/ \E p \in Prompts :
               SessionOf[p] = s /\ activeBySession'[s] = p /\ Started(p)'
  <2>1. ASSUME NEW p \in Prompts, beginSessionOperation(p)
        PROVE  \/ activeBySession'[s] = activeBySession[s]
               \/ SessionOf[p] = s /\ activeBySession'[s] = p /\ Started(p)'
    BY <2>1 DEF TypeOK, beginSessionOperation, Started
  <2>2. ASSUME NEW p \in Prompts, endSessionOperation(p) \/ release(p)
        PROVE  activeBySession'[s] = activeBySession[s] \/ activeBySession'[s] = None
    BY <2>2 DEF TypeOK, endSessionOperation, release, WithoutActive
  <2>3. CASE closeAllActiveSessions
    BY <2>3 DEF closeAllActiveSessions
  <2>4. ASSUME NEW p \in Prompts,
               beginCheckClosed(p) \/ rpcReturn(p) \/ waitSignal(p) \/ waitForUpdateIdle(p)
               \/ finishDeactivate(p) \/ finishClosed(p) \/ finishClose(p) \/ sendResult(p)
               \/ closeRpcDone(p) \/ closeResultCh(p) \/ receiveUpdate(p) \/ streamsEnd(p)
               \/ stopReading(p)
        PROVE  activeBySession' = activeBySession
    BY <2>4, Zenon DEF beginCheckClosed, rpcReturn, waitSignal, waitForUpdateIdle,
       finishDeactivate, finishClosed, finishClose, sendResult, closeRpcDone,
       closeResultCh, receiveUpdate, streamsEnd, stopReading
  <2>5. ASSUME (\E r \in Sessions : enqueueUpdateFromWire(r)) \/ dispatchExit
               \/ dispatchDeactivate \/ dispatchClose \/ dispatchLookup \/ dispatchSend
               \/ dispatchAbort \/ setClosing \/ failAll \/ closeActivePrompt
               \/ UNCHANGED vars
        PROVE  activeBySession' = activeBySession
    BY <2>5, Zenon DEF enqueueUpdateFromWire, dispatchExit, dispatchDeactivate,
       dispatchClose, dispatchLookup, dispatchSend, dispatchAbort, setClosing, failAll,
       closeActivePrompt, vars
  <2>6. QED
    BY <2>1, <2>2, <2>3, <2>4, <2>5 DEF Next, Goroutine, Consumer, Dispatcher, Reaper
<1>3. ASSUME NEW s \in Sessions, activeBySession'[s] # None
      PROVE  /\ SessionOf[activeBySession'[s]] = s
             /\ pc'[activeBySession'[s]] \notin {"new", "checked", "refused"}
  <2>1. CASE activeBySession'[s] = activeBySession[s]
    <3>1. activeBySession[s] \in Prompts
      BY <1>3, <2>1 DEF TypeOK
    <3>2. SessionOf[activeBySession[s]] = s /\ Started(activeBySession[s])
      BY <1>3, <2>1 DEF SlotsStarted
    <3>3. QED
      BY <1>1, <2>1, <3>1, <3>2 DEF Started
  <2>2. CASE \E p \in Prompts :
                SessionOf[p] = s /\ activeBySession'[s] = p /\ Started(p)'
    BY <2>2 DEF Started
  <2>3. QED
    BY <1>2, <1>3, <2>1, <2>2
<1>4. QED
  BY <1>3 DEF SlotsStarted, Started

\* The queue keeps the order of the wire, and the dispatcher its head.
LEMMA QueueNext == TypeOK /\ QueueInv /\ [Next]_vars => QueueInv'
<1> SUFFICES ASSUME TypeOK, QueueInv, [Next]_vars PROVE QueueInv'
  OBVIOUS
<1>1. SlotsStarted'
  BY SlotsNext DEF QueueInv
<1>2. ASSUME NEW s \in Sessions, enqueueUpdateFromWire(s)
      PROVE  (QueueOrdered /\ QueueComplete /\ HandInv)'
  <2> DEFINE N == Len(wired)
             L == Len(updates)
  <2>1. /\ N \in Nat /\ Len(wired') = N + 1 /\ wired'[N + 1] = s
        /\ \A n \in 1 .. N : wired'[n] = wired[n]
        /\ L \in Nat
        /\ \A i \in 1 .. L : updates'[i] = updates[i]
        /\ \/ /\ Len(updates') = L + 1 /\ dropped' = dropped
              /\ updates'[L + 1].n = N + 1 /\ updates'[L + 1].session = s
           \/ updates' = updates /\ dropped' = dropped \cup {N + 1}
    BY <1>2, EnqueueFacts
  <2>2. disp' = disp
    BY <1>2 DEF enqueueUpdateFromWire
  <2>3. \A i \in 1 .. L :
          /\ updates[i].n \in 1 .. N /\ wired[updates[i].n] = updates[i].session
          /\ \A j \in 1 .. L : i < j => updates[i].n < updates[j].n
    BY DEF QueueInv, QueueOrdered
  <2>4. ASSUME NEW n \in Nat, n = N + 1 \/ n \in dropped \/ Queued(n)
        PROVE  n \in dropped' \/ Queued(n)'
    <3>1. CASE n = N + 1
      <4>1. CASE Len(updates') = L + 1 /\ updates'[L + 1].n = N + 1
        <5>1. L + 1 \in 1 .. Len(updates') /\ updates'[L + 1].n = n
          BY <2>1, <3>1, <4>1
        <5>2. QED
          BY <5>1 DEF Queued
      <4>2. QED
        BY <2>1, <3>1, <4>1
    <3>2. CASE Queued(n)
      <4>1. PICK i \in 1 .. L : updates[i].n = n
        BY <3>2 DEF Queued
      <4>2. i \in 1 .. Len(updates') /\ updates'[i].n = n
        BY <2>1, <4>1
      <4>3. QED
        BY <4>2 DEF Queued
    <3>3. CASE n \in dropped
      BY <2>1, <3>3
    <3>4. QED
      BY <2>4, <3>1, <3>2, <3>3
  <2> HIDE DEF N, L
  <2>5. QueueOrdered'
    <3>1. CASE Len(updates') = L + 1 /\ updates'[L + 1].n = N + 1 /\ updates'[L + 1].session = s
      BY <2>1, <2>3, <3>1 DEF QueueOrdered
    <3>2. CASE updates' = updates
      BY <2>1, <2>3, <3>2 DEF QueueOrdered, L
    <3>3. QED
      BY <2>1, <3>1, <3>2
  <2>6. QueueComplete'
    <3> SUFFICES ASSUME NEW i \in 1 .. Len(updates'), NEW n \in 1 .. Len(wired'),
                        updates'[i].n < n
                 PROVE  n \in dropped' \/ Queued(n)'
      BY DEF QueueComplete
    <3>1. CASE n = N + 1
      BY <2>1, <2>4, <3>1
    <3>2. CASE n \in 1 .. N /\ i \in 1 .. L
      <4>1. updates[i].n < n
        BY <2>1, <3>2
      <4>2. n \in dropped \/ Queued(n)
        BY <3>2, <4>1 DEF QueueInv, QueueComplete, N, L
      <4>3. QED
        BY <2>4, <3>2, <4>2
    <3>3. CASE n \in 1 .. N /\ i \notin 1 .. L
      <4>1. i = L + 1 /\ updates'[i].n = N + 1
        BY <2>1, <3>3 DEF L
      <4>2. QED
        BY <2>1, <3>3, <4>1
    <3>4. QED
      BY <2>1, <3>1, <3>2, <3>3
  <2>7. HandInv'
    <3> SUFFICES ASSUME disp.pc = "send"
                 PROVE  /\ disp.msg \in 1 .. Len(wired')
                        /\ wired'[disp.msg] = SessionOf[disp.active]
                        /\ \A i \in 1 .. Len(updates') : disp.msg < updates'[i].n
                        /\ \A n \in 1 .. Len(wired') :
                             disp.msg < n => n \in dropped' \/ Queued(n)'
      BY <2>2 DEF HandInv
    <3>1. /\ disp.msg \in 1 .. N /\ wired[disp.msg] = SessionOf[disp.active]
          /\ \A i \in 1 .. L : disp.msg < updates[i].n
          /\ \A n \in 1 .. N : disp.msg < n => n \in dropped \/ Queued(n)
      BY DEF QueueInv, HandInv, N, L
    <3>2. disp.msg \in 1 .. Len(wired') /\ wired'[disp.msg] = SessionOf[disp.active]
      BY <2>1, <3>1
    <3>3. \A i \in 1 .. Len(updates') : disp.msg < updates'[i].n
      <4>1. CASE Len(updates') = L + 1 /\ updates'[L + 1].n = N + 1
        BY <2>1, <3>1, <4>1
      <4>2. CASE updates' = updates
        BY <3>1, <4>2 DEF L
      <4>3. QED
        BY <2>1, <4>1, <4>2
    <3>4. \A n \in 1 .. Len(wired') : disp.msg < n => n \in dropped' \/ Queued(n)'
      <4>1. ASSUME NEW n \in 1 .. Len(wired'), disp.msg < n PROVE n \in dropped' \/ Queued(n)'
        <5>1. CASE n \in 1 .. N
          BY <2>4, <3>1, <4>1, <5>1
        <5>2. CASE n = N + 1
          BY <2>1, <2>4, <5>2
        <5>3. QED
          BY <2>1, <5>1, <5>2
      <4>2. QED
        BY <4>1 DEF Queued
    <3>5. QED
      BY <3>2, <3>3, <3>4
  <2>8. QED
    BY <2>5, <2>6, <2>7
<1>3. ASSUME dispatchLookup PROVE (QueueOrdered /\ QueueComplete /\ HandInv)'
  <2> DEFINE L == Len(updates)
  <2>1. /\ L \in Nat /\ L >= 1 /\ Len(updates') = L - 1 /\ disp.pc = "select"
        /\ \A i \in 1 .. L - 1 : updates'[i] = updates[i + 1]
        /\ wired' = wired /\ dropped' = dropped
        /\ \/ disp' = disp
           \/ /\ disp'.pc = "send" /\ disp'.msg = updates[1].n
              /\ SessionOf[disp'.active] = updates[1].session
    BY <1>3, LookupFacts DEF QueueInv
  <2>2. \A i \in 1 .. L :
          /\ updates[i].n \in 1 .. Len(wired) /\ wired[updates[i].n] = updates[i].session
          /\ \A j \in 1 .. L : i < j => updates[i].n < updates[j].n
    BY DEF QueueInv, QueueOrdered
  <2>3. Len(wired) \in Nat
    BY DEF TypeOK
  <2>4. ASSUME NEW n \in Nat, Queued(n), updates[1].n < n PROVE Queued(n)'
    <3>1. PICK i \in 1 .. L : updates[i].n = n
      BY <2>4 DEF Queued
    <3>2. i # 1 /\ i - 1 \in 1 .. L - 1 /\ (i - 1) + 1 = i
      BY <2>1, <2>2, <2>4, <3>1
    <3>3. updates'[i - 1].n = n
      BY <2>1, <3>1, <3>2
    <3>4. QED
      BY <2>1, <3>2, <3>3 DEF Queued
  <2> HIDE DEF L
  <2>5. QueueOrdered'
    <3>1. ASSUME NEW i \in 1 .. L - 1
          PROVE  /\ updates'[i].n \in 1 .. Len(wired)
                 /\ wired[updates'[i].n] = updates'[i].session
                 /\ \A j \in 1 .. L - 1 : i < j => updates'[i].n < updates'[j].n
      <4>1. i + 1 \in 1 .. L /\ \A j \in 1 .. L - 1 : i < j => j + 1 \in 1 .. L /\ i + 1 < j + 1
        BY <2>1
      <4>2. QED
        BY <2>1, <2>2, <4>1
    <3>2. QED
      BY <2>1, <3>1 DEF QueueOrdered
  <2>6. ASSUME NEW i \in 1 .. L, NEW n \in 1 .. Len(wired), updates[i].n < n
        PROVE  n \in dropped' \/ Queued(n)'
    <3>1. n \in dropped \/ Queued(n)
      BY <2>6 DEF QueueInv, QueueComplete, L
    <3>2. updates[1].n < n
      BY <2>1, <2>2, <2>3, <2>6
    <3>3. QED
      BY <2>1, <2>3, <2>4, <3>1, <3>2
  <2>7. QueueComplete'
    <3>1. ASSUME NEW i \in 1 .. L - 1, NEW n \in 1 .. Len(wired), updates'[i].n < n
          PROVE  n \in dropped' \/ Queued(n)'
      <4>1. i + 1 \in 1 .. L /\ updates[i + 1].n < n
        BY <2>1, <3>1
      <4>2. QED
        BY <2>6, <4>1
    <3>2. QED
      BY <2>1, <3>1 DEF QueueComplete, Queued
  <2>8. HandInv'
    <3>1. CASE disp' = disp
      BY <2>1, <3>1 DEF HandInv
    <3>2. CASE disp'.msg = updates[1].n /\ SessionOf[disp'.active] = updates[1].session
      <4>1. disp'.msg \in 1 .. Len(wired') /\ wired'[disp'.msg] = SessionOf[disp'.active]
        BY <2>1, <2>2, <3>2
      <4>2. \A i \in 1 .. Len(updates') : disp'.msg < updates'[i].n
        BY <2>1, <2>2, <3>2
      <4>3. \A n \in 1 .. Len(wired') : disp'.msg < n => n \in dropped' \/ Queued(n)'
        BY <2>1, <2>6, <3>2
      <4>4. QED
        BY <4>1, <4>2, <4>3 DEF HandInv
    <3>3. QED
      BY <2>1, <3>1, <3>2
  <2>9. QED
    BY <2>5, <2>7, <2>8
<1>4. ASSUME dispatchSend PROVE (QueueOrdered /\ QueueComplete /\ HandInv)'
  <2>1. UNCHANGED <<updates, wired, dropped>> /\ disp'.pc = "select"
    BY <1>4 DEF dispatchSend
  <2>2. QueueOrdered' /\ QueueComplete'
    BY <2>1 DEF QueueInv, QueueOrdered, QueueComplete, Queued
  <2>3. HandInv'
    BY <2>1 DEF QueueInv, HandInv, Queued
  <2>4. QED
    BY <2>2, <2>3
<1>5. ASSUME Quiet PROVE (QueueOrdered /\ QueueComplete /\ HandInv)'
  <2>1. UNCHANGED <<updates, wired, dropped>> /\ (disp' = disp \/ disp'.pc # "send")
    BY <1>5 DEF Quiet
  <2>2. QueueOrdered' /\ QueueComplete'
    BY <2>1 DEF QueueInv, QueueOrdered, QueueComplete, Queued
  <2>3. HandInv'
    BY <2>1 DEF QueueInv, HandInv, Queued
  <2>4. QED
    BY <2>2, <2>3
<1>6. QED
  BY <1>1, <1>2, <1>3, <1>4, <1>5, StepKinds DEF QueueInv

\* A stream holds notifications of its session in the order of the wire, all
\* of them ahead of what the dispatcher and the queue still hold.
StreamAhead ==
    \A p \in Streams : \A i \in 1 .. Len(Stream(p)) :
        /\ Stream(p)[i] \in 1 .. Len(wired)
        /\ wired[Stream(p)[i]] = SessionOf[p]
        /\ i > 1 => Stream(p)[i - 1] < Stream(p)[i]
        /\ \A j \in 1 .. Len(updates) : Stream(p)[i] < updates[j].n
        /\ disp.pc = "send" => Stream(p)[i] < disp.msg

\* Nothing was sent to a prompt that was never admitted.
FreshEmpty ==
    \A p \in Streams : ~Started(p) => Stream(p) = <<>> /\ ~SendingTo(p)

OrderInv == QueueInv /\ StreamAhead /\ FreshEmpty

\* A send extends the stream of the receiver and touches nothing else.
LEMMA SendFacts ==
    ASSUME TypeOK, dispatchSend
    PROVE  /\ disp.active \in Streams /\ disp.pc = "send" /\ disp.msg \in Nat
           /\ disp'.pc = "select"
           /\ UNCHANGED <<updates, wired, dropped, activeBySession, updatesDone,
                          pc, closed>>
           /\ \A p \in Prompts :
                Stream(p)' = IF p = disp.active THEN Append(Stream(p), disp.msg)
                                                ELSE Stream(p)
<1>1. disp.pc = "send" /\ disp.active \in Streams /\ disp.msg \in Nat
  BY DEF TypeOK, dispatchSend, DispatchStates
<1>2. /\ disp'.pc = "select"
      /\ UNCHANGED <<updates, wired, dropped, activeBySession, updatesDone, pc, closed>>
  BY DEF dispatchSend
<1>3. ASSUME NEW p \in Prompts
      PROVE  Stream(p)' = IF p = disp.active THEN Append(Stream(p), disp.msg) ELSE Stream(p)
  <2>1. delivered[p] \in Seq(Nat) /\ buf[p] \in Seq(Nat)
    BY DEF TypeOK
  <2>2. delivered'[p] = delivered[p]
    BY DEF dispatchSend
  <2>3. CASE p = disp.active
    <3>1. buf'[p] = Append(buf[p], disp.msg)
      BY <2>3 DEF TypeOK, dispatchSend
    <3>2. delivered[p] \o Append(buf[p], disp.msg) = Append(delivered[p] \o buf[p], disp.msg)
      BY <1>1, <2>1, SendExtendsStream
    <3>3. QED
      BY <2>2, <2>3, <3>1, <3>2, Zenon DEF Stream
  <2>4. CASE p # disp.active
    <3>1. buf'[p] = buf[p]
      BY <2>4 DEF TypeOK, dispatchSend
    <3>2. QED
      BY <2>2, <2>4, <3>1 DEF Stream
  <2>5. QED
    BY <2>3, <2>4
<1>4. QED
  BY <1>1, <1>2, <1>3

\* Nothing but a send changes a stream.
LEMMA StreamsStay ==
    ASSUME TypeOK, [Next]_vars, ~dispatchSend, NEW p \in Prompts
    PROVE  Stream(p)' = Stream(p)
<1>1. ASSUME NEW s \in Sessions, enqueueUpdateFromWire(s) PROVE Stream(p)' = Stream(p)
  BY <1>1 DEF enqueueUpdateFromWire, Stream
<1>2. CASE dispatchLookup
  BY <1>2 DEF dispatchLookup, Stream
<1>3. CASE Quiet
  BY <1>3 DEF Quiet
<1>4. QED
  BY <1>1, <1>2, <1>3, StepKinds

\* The streams stay ahead of the queue, whatever steps are taken.
LEMMA OrderNext == TypeOK /\ OrderInv /\ [Next]_vars => OrderInv'
<1> SUFFICES ASSUME TypeOK, OrderInv, [Next]_vars PROVE OrderInv'
  OBVIOUS
<1>1. QueueInv'
  BY QueueNext DEF OrderInv
<1>2. Forward
  BY StepKinds
<1>3. ASSUME NEW s \in Sessions, enqueueUpdateFromWire(s) PROVE (StreamAhead /\ FreshEmpty)'
  <2>1. /\ Len(wired) \in Nat /\ Len(wired') = Len(wired) + 1
        /\ \A n \in 1 .. Len(wired) : wired'[n] = wired[n]
        /\ Len(updates) \in Nat
        /\ \A i \in 1 .. Len(updates) : updates'[i] = updates[i]
        /\ \/ /\ Len(updates') = Len(updates) + 1
              /\ updates'[Len(updates) + 1].n = Len(wired) + 1
           \/ updates' = updates
    BY <1>3, EnqueueFacts
  <2>2. disp' = disp /\ pc' = pc
    BY <1>3 DEF enqueueUpdateFromWire
  <2>3. \A p \in Prompts : Stream(p)' = Stream(p)
    BY <1>3 DEF enqueueUpdateFromWire, Stream
  <2>4. ASSUME NEW p \in Streams, NEW i \in 1 .. Len(Stream(p)), NEW j \in 1 .. Len(updates')
        PROVE  Stream(p)[i] < updates'[j].n
    <3>1. /\ Stream(p)[i] \in 1 .. Len(wired)
          /\ \A l \in 1 .. Len(updates) : Stream(p)[i] < updates[l].n
      BY DEF OrderInv, StreamAhead
    <3>2. j \in 1 .. Len(updates) \/ updates'[j].n = Len(wired) + 1
      BY <2>1
    <3>3. CASE j \in 1 .. Len(updates)
      BY <2>1, <3>1, <3>3
    <3>4. CASE updates'[j].n = Len(wired) + 1
      BY <2>1, <3>1, <3>4
    <3>5. QED
      BY <3>2, <3>3, <3>4
  <2>5. StreamAhead'
    <3>1. ASSUME NEW p \in Streams, NEW i \in 1 .. Len(Stream(p))
          PROVE  /\ Stream(p)[i] \in 1 .. Len(wired')
                 /\ wired'[Stream(p)[i]] = SessionOf[p]
                 /\ i > 1 => Stream(p)[i - 1] < Stream(p)[i]
                 /\ disp'.pc = "send" => Stream(p)[i] < disp'.msg
      BY <2>1, <2>2 DEF OrderInv, StreamAhead
    <3>2. QED
      BY <2>3, <2>4, <3>1 DEF StreamAhead, Streams
  <2>6. FreshEmpty'
    BY <2>2, <2>3 DEF OrderInv, FreshEmpty, Started, SendingTo, Streams
  <2>7. QED
    BY <2>5, <2>6
<1>4. ASSUME dispatchLookup PROVE (StreamAhead /\ FreshEmpty)'
  <2>1. /\ Len(updates) \in Nat /\ Len(updates) >= 1 /\ disp.pc = "select"
        /\ Len(updates') = Len(updates) - 1
        /\ \A i \in 1 .. Len(updates') : updates'[i] = updates[i + 1]
        /\ wired' = wired /\ pc' = pc
        /\ \/ disp' = disp
           \/ /\ disp'.pc = "send" /\ disp'.msg = updates[1].n
              /\ Started(disp'.active)
    BY <1>4, LookupFacts DEF OrderInv, QueueInv
  <2>2. \A p \in Prompts : Stream(p)' = Stream(p)
    BY <1>4 DEF dispatchLookup, Stream
  <2>3. StreamAhead'
    <3>1. ASSUME NEW p \in Streams, NEW i \in 1 .. Len(Stream(p))
          PROVE  /\ Stream(p)[i] \in 1 .. Len(wired)
                 /\ wired[Stream(p)[i]] = SessionOf[p]
                 /\ i > 1 => Stream(p)[i - 1] < Stream(p)[i]
                 /\ \A j \in 1 .. Len(updates') : Stream(p)[i] < updates'[j].n
                 /\ disp'.pc = "send" => Stream(p)[i] < disp'.msg
      <4>1. /\ Stream(p)[i] \in 1 .. Len(wired)
            /\ wired[Stream(p)[i]] = SessionOf[p]
            /\ i > 1 => Stream(p)[i - 1] < Stream(p)[i]
            /\ \A j \in 1 .. Len(updates) : Stream(p)[i] < updates[j].n
        BY DEF OrderInv, StreamAhead
      <4>2. \A j \in 1 .. Len(updates') : Stream(p)[i] < updates'[j].n
        BY <2>1, <4>1
      <4>3. disp'.pc = "send" => Stream(p)[i] < disp'.msg
        BY <2>1, <4>1
      <4>4. QED
        BY <4>1, <4>2, <4>3
    <3>2. QED
      BY <2>1, <2>2, <3>1 DEF StreamAhead, Streams
  <2>4. FreshEmpty'
    BY <2>1, <2>2 DEF OrderInv, FreshEmpty, Started, SendingTo, Streams
  <2>5. QED
    BY <2>3, <2>4
<1>5. ASSUME dispatchSend PROVE (StreamAhead /\ FreshEmpty)'
  <2>1. /\ disp.active \in Streams /\ disp.pc = "send" /\ disp.msg \in Nat
        /\ disp'.pc = "select" /\ updates' = updates /\ wired' = wired /\ pc' = pc
        /\ \A p \in Prompts :
             Stream(p)' = IF p = disp.active THEN Append(Stream(p), disp.msg) ELSE Stream(p)
    BY <1>5, SendFacts
  <2>2. ASSUME NEW p \in Streams, p = disp.active, NEW i \in 1 .. Len(Stream(p)')
        PROVE  /\ Stream(p)'[i] \in 1 .. Len(wired)
               /\ wired[Stream(p)'[i]] = SessionOf[p]
               /\ i > 1 => Stream(p)'[i - 1] < Stream(p)'[i]
               /\ \A j \in 1 .. Len(updates) : Stream(p)'[i] < updates[j].n
    <3>1. p \in Prompts
      BY DEF Streams
    <3> DEFINE t == Stream(p)'
               L == Len(Stream(p))
    <3>2. t = Append(Stream(p), disp.msg)
      BY <2>1, <2>2, <3>1
    <3>3. /\ L \in Nat /\ Len(t) = L + 1 /\ t[L + 1] = disp.msg
          /\ \A l \in 1 .. L : t[l] = Stream(p)[l]
      BY <2>1, <3>1, <3>2, StreamType, AppendProperties
    <3>4. i \in 1 .. L \/ i = L + 1
      BY <3>3
    <3>5. \A l \in 1 .. L :
            /\ Stream(p)[l] \in 1 .. Len(wired) /\ wired[Stream(p)[l]] = SessionOf[p]
            /\ l > 1 => Stream(p)[l - 1] < Stream(p)[l]
            /\ \A j \in 1 .. Len(updates) : Stream(p)[l] < updates[j].n
            /\ Stream(p)[l] < disp.msg
      BY <2>1 DEF OrderInv, StreamAhead
    <3>6. /\ disp.msg \in 1 .. Len(wired) /\ wired[disp.msg] = SessionOf[p]
          /\ \A j \in 1 .. Len(updates) : disp.msg < updates[j].n
      BY <2>1, <2>2 DEF OrderInv, QueueInv, HandInv
    <3> HIDE DEF t, L
    <3>7. CASE i \in 1 .. L
      <4>1. t[i] = Stream(p)[i] /\ (i > 1 => t[i - 1] = Stream(p)[i - 1])
        BY <3>3, <3>7
      <4>2. QED
        BY <3>5, <3>7, <4>1 DEF t
    <3>8. CASE i = L + 1
      <4>1. t[i] = disp.msg /\ (i > 1 => i - 1 \in 1 .. L /\ t[i - 1] = Stream(p)[i - 1])
        BY <3>3, <3>8
      <4>2. QED
        BY <3>5, <3>6, <4>1 DEF t
    <3>9. QED
      BY <3>4, <3>7, <3>8
  <2>3. ASSUME NEW p \in Streams, p # disp.active, NEW i \in 1 .. Len(Stream(p)')
        PROVE  /\ Stream(p)'[i] \in 1 .. Len(wired)
               /\ wired[Stream(p)'[i]] = SessionOf[p]
               /\ i > 1 => Stream(p)'[i - 1] < Stream(p)'[i]
               /\ \A j \in 1 .. Len(updates) : Stream(p)'[i] < updates[j].n
    <3>1. Stream(p)' = Stream(p)
      BY <2>1, <2>3 DEF Streams
    <3>2. QED
      BY <2>3, <3>1 DEF OrderInv, StreamAhead
  <2>4. StreamAhead'
    BY <2>1, <2>2, <2>3 DEF StreamAhead
  <2>5. FreshEmpty'
    BY <2>1 DEF OrderInv, FreshEmpty, Started, SendingTo, Streams
  <2>6. QED
    BY <2>4, <2>5
<1>6. ASSUME Quiet PROVE (StreamAhead /\ FreshEmpty)'
  <2>1. /\ updates' = updates /\ wired' = wired
        /\ disp' = disp \/ disp'.pc # "send"
        /\ \A p \in Streams : Stream(p)' = Stream(p)
    BY <1>6 DEF Quiet, Streams
  <2>2. StreamAhead'
    BY <2>1 DEF OrderInv, StreamAhead
  <2>3. FreshEmpty'
    BY <1>2, <2>1 DEF OrderInv, FreshEmpty, Forward, SendingTo, Streams
  <2>4. QED
    BY <2>2, <2>3
<1>7. QED
  BY <1>1, <1>3, <1>4, <1>5, <1>6, StepKinds DEF OrderInv

\* Notification n was put in the stream of p.
InStream(p, n) == \E i \in 1 .. Len(Stream(p)) : Stream(p)[i] = n

\* A session has no second prompt with updates while one is being sent: the
\* slot may have passed on since the dispatcher gave up the lock, but its new
\* owner has received nothing yet.
OneReceiver ==
    \A p \in Streams :
        Stream(p) # <<>> /\ Open(p) /\ disp.pc = "send"
        /\ SessionOf[disp.active] = SessionOf[p]
        => disp.active = p

\* The notifications of p's session that p has been or will be given: all that
\* came after the first one while the stream is open, and those up to the last
\* one, or the one being sent, when it is not.
Due(p, n) ==
    /\ Stream(p) # <<>> /\ wired[n] = SessionOf[p] /\ Stream(p)[1] < n
    /\ \/ Open(p)
       \/ n <= Stream(p)[Len(Stream(p))]
       \/ SendingTo(p) /\ n <= disp.msg

\* While the client is open nothing that is due is missing, except what was
\* dropped at the full queue.
GapFree ==
    closed \/ \A p \in Streams, n \in 1 .. Len(wired) :
        Due(p, n) => n \in dropped \/ InFlight(n) \/ InStream(p, n)

GapInv == OneReceiver /\ GapFree

\* A dispatched update goes to the open stream of its session.
LEMMA OneReceiverNext ==
    TypeOK /\ OrderInv /\ OneReceiver /\ [Next]_vars => OneReceiver'
<1> SUFFICES ASSUME TypeOK, OrderInv, OneReceiver, [Next]_vars,
                    NEW p \in Streams,
                    Stream(p)' # <<>>, Open(p)', disp'.pc = "send",
                    SessionOf[disp'.active] = SessionOf[p]
             PROVE  disp'.active = p
  BY DEF OneReceiver
<1>1. p \in Prompts
  BY DEF Streams
<1>2. ~dispatchSend
  BY SendFacts
<1>3. Stream(p) # <<>>
  BY <1>1, <1>2, StreamsStay
<1>4. Open(p)
  <2>1. Started(p)
    BY <1>3 DEF OrderInv, FreshEmpty
  <2>2. QED
    BY <1>1, <2>1, StepKinds DEF Forward
<1>5. CASE disp' = disp
  BY <1>3, <1>4, <1>5 DEF OneReceiver
<1>6. CASE dispatchLookup /\ disp' # disp
  <2>1. Open(disp'.active)
    BY <1>6, LookupFacts DEF OrderInv, QueueInv
  <2>2. QED
    BY <1>4, <2>1 DEF Open
<1>7. ASSUME NEW s \in Sessions, enqueueUpdateFromWire(s) PROVE disp' = disp
  BY <1>7 DEF enqueueUpdateFromWire
<1>8. QED
  BY <1>2, <1>5, <1>6, <1>7, StepKinds DEF Quiet

\* What is due stays due, and is dropped, in flight or in the stream.
LEMMA GapFreeNext ==
    TypeOK /\ OrderInv /\ GapInv /\ [Next]_vars => GapFree'
<1> SUFFICES ASSUME TypeOK, OrderInv, GapInv, [Next]_vars, ~closed',
                    NEW p \in Streams, NEW n \in 1 .. Len(wired'), Due(p, n)'
             PROVE  n \in dropped' \/ InFlight(n)' \/ InStream(p, n)'
  BY DEF GapFree
<1>1. p \in Prompts /\ n \in Nat
  BY DEF Streams
<1>2. ~closed /\ (Started(p) /\ Open(p)' => Open(p))
  BY <1>1, StepKinds DEF Forward
<1>3. /\ Stream(p)' # <<>> /\ wired'[n] = SessionOf[p] /\ Stream(p)'[1] < n
      /\ \/ Open(p)'
         \/ n <= Stream(p)'[Len(Stream(p)')]
         \/ SendingTo(p)' /\ n <= disp'.msg
  BY DEF Due
<1>4. ASSUME n \in 1 .. Len(wired), Due(p, n)
      PROVE  n \in dropped \/ InFlight(n) \/ InStream(p, n)
  BY <1>2, <1>4 DEF GapInv, GapFree
<1>5. Stream(p) # <<>> => Started(p)
  BY DEF OrderInv, FreshEmpty
<1>6. ASSUME NEW s \in Sessions, enqueueUpdateFromWire(s)
      PROVE  n \in dropped' \/ InFlight(n)' \/ InStream(p, n)'
  <2>1. /\ Len(wired) \in Nat /\ Len(wired') = Len(wired) + 1
        /\ \A m \in 1 .. Len(wired) : wired'[m] = wired[m]
        /\ Len(updates) \in Nat
        /\ \A i \in 1 .. Len(updates) : updates'[i] = updates[i]
        /\ \/ /\ Len(updates') = Len(updates) + 1 /\ dropped' = dropped
              /\ updates'[Len(updates) + 1].n = Len(wired) + 1
           \/ updates' = updates /\ dropped' = dropped \cup {Len(wired) + 1}
    BY <1>6, EnqueueFacts
  <2>2. Stream(p)' = Stream(p) /\ disp' = disp /\ activeBySession' = activeBySession
        /\ updatesDone' = updatesDone
    BY <1>6 DEF enqueueUpdateFromWire, Stream
  <2>3. CASE n = Len(wired) + 1
    <3>1. CASE updates' = updates
      BY <2>1, <2>3, <3>1
    <3>2. CASE Len(updates') = Len(updates) + 1 /\ updates'[Len(updates) + 1].n = n
      <4>1. Len(updates) + 1 \in 1 .. Len(updates')
        BY <2>1, <3>2
      <4>2. QED
        BY <3>2, <4>1 DEF InFlight
    <3>3. QED
      BY <2>1, <2>3, <3>1, <3>2
  <2>4. CASE n \in 1 .. Len(wired)
    <3>1. Due(p, n)
      BY <1>3, <2>1, <2>2, <2>4 DEF Due, Open, SendingTo
    <3>2. CASE n \in dropped
      BY <2>1, <3>2
    <3>3. CASE InFlight(n)
      BY <2>1, <2>2, <3>3 DEF InFlight
    <3>4. CASE InStream(p, n)
      BY <2>2, <3>4 DEF InStream
    <3>5. QED
      BY <1>4, <2>4, <3>1, <3>2, <3>3, <3>4
  <2>5. QED
    BY <2>1, <2>3, <2>4
<1>7. ASSUME dispatchLookup
      PROVE  n \in dropped' \/ InFlight(n)' \/ InStream(p, n)'
  <2>1. /\ Len(updates) \in Nat /\ Len(updates) >= 1 /\ disp.pc = "select"
        /\ Len(updates') = Len(updates) - 1
        /\ \A i \in 1 .. Len(updates') : updates'[i] = updates[i + 1]
        /\ wired' = wired /\ dropped' = dropped
        /\ activeBySession' = activeBySession /\ updatesDone' = updatesDone
        /\ \/ /\ disp' = disp
              /\ \A q \in Streams : Open(q) => SessionOf[q] # updates[1].session
           \/ /\ disp'.pc = "send" /\ disp'.msg = updates[1].n
              /\ disp'.active \in Streams /\ Open(disp'.active)
    BY <1>7, LookupFacts DEF OrderInv, QueueInv
  <2>2. Stream(p)' = Stream(p)
    BY <1>7 DEF dispatchLookup, Stream
  <2>3. Due(p, n)
    BY <1>3, <2>1, <2>2 DEF Due, Open, SendingTo
  <2>4. n \in dropped \/ InFlight(n) \/ InStream(p, n)
    BY <1>4, <2>1, <2>3
  <2>5. ASSUME InFlight(n) PROVE InFlight(n)'
    <3>1. PICK i \in 1 .. Len(updates) : updates[i].n = n
      BY <2>1, <2>5 DEF InFlight
    <3>2. CASE i > 1
      <4>1. i - 1 \in 1 .. Len(updates') /\ (i - 1) + 1 = i
        BY <2>1, <3>2
      <4>2. updates'[i - 1].n = n
        BY <2>1, <3>1, <4>1
      <4>3. QED
        BY <4>1, <4>2 DEF InFlight
    <3>3. CASE i = 1
      <4>1. wired[n] = updates[1].session
        BY <3>1, <3>3 DEF OrderInv, QueueInv, QueueOrdered
      <4>2. Open(p)
        <5>1. Len(Stream(p)) \in 1 .. Len(Stream(p)) /\ Stream(p)[Len(Stream(p))] \in Nat
          BY <1>1, <1>3, <2>2, StreamType
        <5>2. Stream(p)[Len(Stream(p))] < n
          BY <3>1, <5>1 DEF OrderInv, StreamAhead
        <5>3. QED
          BY <1>1, <2>1, <2>3, <5>1, <5>2 DEF Due, SendingTo
      <4>3. SessionOf[p] = updates[1].session
        BY <1>3, <2>1, <4>1
      <4>4. disp'.pc = "send" /\ disp'.msg = n
        BY <2>1, <3>1, <3>3, <4>2, <4>3
      <4>5. QED
        BY <4>4 DEF InFlight
    <3>4. QED
      BY <3>2, <3>3
  <2>6. InStream(p, n) => InStream(p, n)'
    BY <2>2 DEF InStream
  <2>7. QED
    BY <2>1, <2>4, <2>5, <2>6
<1>8. ASSUME dispatchSend
      PROVE  n \in dropped' \/ InFlight(n)' \/ InStream(p, n)'
  <2>1. /\ disp.active \in Streams /\ disp.pc = "send" /\ disp.msg \in Nat
        /\ disp'.pc = "select"
        /\ UNCHANGED <<updates, wired, dropped, activeBySession, updatesDone>>
        /\ Stream(p)' = IF p = disp.active THEN Append(Stream(p), disp.msg) ELSE Stream(p)
    BY <1>1, <1>8, SendFacts
  <2>2. /\ \A m \in 1 .. Len(wired) : disp.msg < m => m \in dropped \/ Queued(m)
        /\ wired[disp.msg] = SessionOf[disp.active]
    BY <2>1 DEF OrderInv, QueueInv, HandInv
  <2>3. ASSUME Queued(n) PROVE InFlight(n)'
    BY <2>1, <2>3 DEF Queued, InFlight
  <2>4. /\ Stream(p) \in Seq(Nat) /\ Len(Stream(p)) \in Nat
        /\ Stream(p) # <<>> => Len(Stream(p)) >= 1
        /\ \A i \in 1 .. Len(Stream(p)) : Stream(p)[i] \in Nat
    BY <1>1, StreamType
  <2>5. CASE p = disp.active
    <3> DEFINE t == Stream(p)'
               L == Len(Stream(p))
    <3>1. t = Append(Stream(p), disp.msg)
      BY <2>1, <2>5
    <3>2. /\ Len(t) = L + 1 /\ t[L + 1] = disp.msg
          /\ \A i \in 1 .. L : t[i] = Stream(p)[i]
      BY <2>1, <2>4, <3>1, AppendProperties
    <3>3. L + 1 \in 1 .. Len(t) /\ L \in Nat /\ \A i \in 1 .. L : i \in 1 .. Len(t)
      BY <2>4, <3>2
    <3>4. n = disp.msg \/ InStream(p, n) => InStream(p, n)'
      <4>1. CASE n = disp.msg
        BY <3>2, <3>3, <4>1 DEF InStream
      <4>2. CASE InStream(p, n)
        BY <3>2, <3>3, <4>2 DEF InStream
      <4>3. QED
        BY <4>1, <4>2
    <3>5. CASE disp.msg < n
      BY <2>1, <2>2, <2>3, <3>5
    <3>6. CASE n <= disp.msg
      <4>1. Stream(p) # <<>>
        <5> SUFFICES ASSUME Stream(p) = <<>> PROVE FALSE
          OBVIOUS
        <5>1. L = 0
          OBVIOUS
        <5>2. t[1] = disp.msg
          BY <3>2, <5>1
        <5>3. QED
          BY <1>1, <1>3, <2>1, <3>6, <5>2
      <4>2. Stream(p)'[1] = Stream(p)[1]
        BY <2>4, <3>2, <4>1
      <4>3. Due(p, n)
        BY <1>3, <2>1, <2>5, <3>6, <4>1, <4>2 DEF Due, SendingTo
      <4>4. n \in dropped \/ InFlight(n) \/ InStream(p, n)
        BY <1>4, <2>1, <4>3
      <4>5. QED
        BY <2>1, <2>3, <3>4, <4>4 DEF InFlight, Queued
    <3>7. QED
      BY <1>1, <2>1, <3>5, <3>6
  <2>6. CASE p # disp.active
    <3>1. Stream(p)' = Stream(p)
      BY <2>1, <2>6
    <3>2. Due(p, n)
      BY <1>3, <2>1, <3>1 DEF Due, Open, SendingTo
    <3>3. n # disp.msg
      <4> SUFFICES ASSUME n = disp.msg PROVE FALSE
        OBVIOUS
      <4>1. SessionOf[disp.active] = SessionOf[p]
        BY <1>3, <2>1, <2>2
      <4>2. ~Open(p)
        BY <1>3, <2>1, <2>6, <3>1, <4>1 DEF GapInv, OneReceiver
      <4>3. Len(Stream(p)) \in 1 .. Len(Stream(p)) /\ Stream(p)[Len(Stream(p))] \in Nat
        BY <1>3, <2>4, <3>1
      <4>4. Stream(p)[Len(Stream(p))] < n
        BY <2>1, <4>3 DEF OrderInv, StreamAhead
      <4>5. QED
        BY <1>1, <2>6, <3>2, <4>2, <4>3, <4>4 DEF Due, SendingTo
    <3>4. n \in dropped \/ Queued(n) \/ InStream(p, n)
      BY <1>4, <2>1, <3>2, <3>3 DEF InFlight, Queued
    <3>5. InStream(p, n) => InStream(p, n)'
      BY <3>1 DEF InStream
    <3>6. QED
      BY <2>1, <2>3, <3>4, <3>5
  <2>7. QED
    BY <2>5, <2>6
<1>9. ASSUME Quiet
      PROVE  n \in dropped' \/ InFlight(n)' \/ InStream(p, n)'
  <2>1. /\ UNCHANGED <<updates, wired, dropped>> /\ Stream(p)' = Stream(p)
        /\ disp' = disp \/ (disp'.pc # "send" /\ disp.pc # "send")
    BY <1>1, <1>2, <1>9 DEF Quiet
  <2>2. Due(p, n)
    <3>1. Open(p)' => Open(p)
      BY <1>2, <1>3, <1>5, <2>1
    <3>2. SendingTo(p)' /\ n <= disp'.msg => SendingTo(p) /\ n <= disp.msg
      BY <2>1 DEF SendingTo
    <3>3. QED
      BY <1>3, <2>1, <3>1, <3>2 DEF Due
  <2>3. InFlight(n) => InFlight(n)'
    BY <2>1 DEF InFlight
  <2>4. InStream(p, n) => InStream(p, n)'
    BY <2>1 DEF InStream
  <2>5. QED
    BY <1>4, <2>1, <2>2, <2>3, <2>4
<1>10. QED
  BY <1>6, <1>7, <1>8, <1>9, StepKinds

\* What a prompt's consumer receives, and what waits in its channel, keeps the
\* order of the wire; while the client is open it has no gap after the first
\* update but for what was dropped at the full queue or is still in flight.
THEOREM StreamsKeepOrder == Spec => []StreamInOrder
<1>1. Init => OrderInv /\ GapInv
  <2> SUFFICES ASSUME Init PROVE OrderInv /\ GapInv
    OBVIOUS
  <2>1. ASSUME NEW p \in Prompts PROVE Stream(p) = <<>>
    BY DEF Init, Stream
  <2>2. Len(updates) = 0 /\ disp.pc = "select" /\ \A s \in Sessions : activeBySession[s] = None
    BY DEF Init
  <2>3. QueueInv
    BY <2>2 DEF QueueInv, SlotsStarted, QueueOrdered, QueueComplete, HandInv
  <2>4. StreamAhead /\ FreshEmpty
    BY <2>1, <2>2 DEF StreamAhead, FreshEmpty, SendingTo, Streams
  <2>5. GapInv
    BY <2>1, <2>2 DEF GapInv, OneReceiver, GapFree, Due, Streams
  <2>6. QED
    BY <2>3, <2>4, <2>5 DEF OrderInv
<1>2. TypeOK /\ OrderInv /\ GapInv /\ [Next]_vars => (OrderInv /\ GapInv)'
  <2> SUFFICES ASSUME TypeOK, OrderInv, GapInv, [Next]_vars PROVE (OrderInv /\ GapInv)'
    OBVIOUS
  <2>1. OrderInv'
    BY OrderNext
  <2>2. OneReceiver'
    BY OneReceiverNext DEF GapInv
  <2>3. GapFree'
    BY GapFreeNext
  <2>4. QED
    BY <2>1, <2>2, <2>3 DEF GapInv
<1>3. TypeOK /\ OrderInv /\ GapInv => StreamInOrder
  <2> SUFFICES ASSUME TypeOK, OrderInv, GapInv PROVE StreamInOrder
    OBVIOUS
  <2>1. ASSUME NEW p \in Streams, NEW i \in 1 .. Len(Stream(p))
        PROVE  wired[Stream(p)[i]] = SessionOf[p] /\ (i > 1 => Stream(p)[i - 1] < Stream(p)[i])
    BY DEF OrderInv, StreamAhead
  <2>2. ASSUME NEW p \in Streams, ~closed, Stream(p) # <<>>,
               NEW n \in 1 .. (IF Open(p) THEN Len(wired) ELSE Stream(p)[Len(Stream(p))]),
               wired[n] = SessionOf[p], Stream(p)[1] < n
        PROVE  n \in dropped \/ InFlight(n) \/ \E i \in 1 .. Len(Stream(p)) : Stream(p)[i] = n
    <3>1. Stream(p)[Len(Stream(p))] \in 1 .. Len(wired) /\ Len(wired) \in Nat
      <4>1. Len(Stream(p)) \in 1 .. Len(Stream(p))
        BY <2>2, StreamType DEF Streams
      <4>2. QED
        BY <4>1 DEF TypeOK, OrderInv, StreamAhead
    <3>2. n \in 1 .. Len(wired) /\ (Open(p) \/ n <= Stream(p)[Len(Stream(p))])
      BY <3>1
    <3>3. QED
      BY <2>2, <3>2 DEF Due, GapInv, GapFree, InStream
  <2>3. ASSUME NEW p \in Streams, ~closed,
               NEW n \in 1 .. (IF Stream(p) = <<>> THEN 0
                               ELSE IF Open(p) THEN Len(wired) ELSE Stream(p)[Len(Stream(p))]),
               wired[n] = SessionOf[p], Stream(p)[1] < n
        PROVE  n \in dropped \/ InFlight(n) \/ \E i \in 1 .. Len(Stream(p)) : Stream(p)[i] = n
    <3>1. CASE Stream(p) = <<>>
      BY <2>3, <3>1
    <3>2. CASE Stream(p) # <<>>
      BY <2>2, <2>3, <3>2
    <3>3. QED
      BY <3>1, <3>2
  <2>4. ASSUME NEW p \in Streams
        PROVE  /\ \A i \in 1 .. Len(Stream(p)) :
                    wired[Stream(p)[i]] = SessionOf[p] /\ (i > 1 => Stream(p)[i - 1] < Stream(p)[i])
               /\ closed \/ \A n \in 1 .. (IF Stream(p) = <<>> THEN 0
                                          ELSE IF Open(p) THEN Len(wired)
                                               ELSE Stream(p)[Len(Stream(p))]) :
                    wired[n] = SessionOf[p] /\ Stream(p)[1] < n =>
                        n \in dropped \/ InFlight(n)
                        \/ \E i \in 1 .. Len(Stream(p)) : Stream(p)[i] = n
    BY <2>1, <2>3
  <2>5. QED
    BY <2>4, Zenon DEF StreamInOrder, Stream, Open
<1>4. QED
  BY <1>1, <1>2, <1>3, TypeCorrect, PTL DEF Spec

-----------------------------------------------------------------------------
(* The safety half of StreamsTerminate: the end of a stream is not lost.   *)

\* The goroutine of a prompt is through with finishSessionUpdates.
Ended == {"result", "end", "unwind", "closeResult", "done"}

\* The request to close the stream of p waits for the dispatcher.
CloseQueued(p) == \E i \in 1 .. Len(deactivate) : deactivate[i] = p

\* Once finishSessionUpdates of a prompt has returned, its stream is closed, or
\* is queued for the dispatcher, or is in the dispatcher's hands to be closed:
\* it can stay open only when the dispatcher stops receiving (client_dispatch.go).
CloseNotLost ==
    \A p \in Streams : pc[p] \in Ended =>
        chanClosed[p] \/ CloseQueued(p) \/ (disp.pc = "close" /\ disp.active = p)

\* A step that neither finishes a prompt nor takes part in closing a stream.
KeepsEnds ==
    /\ UNCHANGED <<deactivate, chanClosed>>
    /\ \A p \in Streams : pc'[p] \in Ended => pc[p] \in Ended
    /\ disp.pc = "close" => UNCHANGED disp

\* The steps are those that close a stream or pass its end on, and the others.
LEMMA EndSteps ==
    ASSUME TypeOK, [Next]_vars
    PROVE  \/ KeepsEnds
           \/ \E p \in Prompts : finishDeactivate(p) \/ finishClose(p)
           \/ dispatchDeactivate \/ dispatchClose \/ closeActivePrompt
<1> USE DEF TypeOK, Streams, Ended, KeepsEnds
<1>1. ASSUME NEW p \in Prompts, beginCheckClosed(p) \/ rpcReturn(p) PROVE KeepsEnds
  BY <1>1 DEF beginCheckClosed, rpcReturn
<1>2. ASSUME NEW p \in Prompts, beginSessionOperation(p) PROVE KeepsEnds
  BY <1>2 DEF beginSessionOperation
<1>3. ASSUME NEW p \in Prompts,
             waitSignal(p) \/ waitForUpdateIdle(p) \/ finishClosed(p) \/ sendResult(p)
      PROVE  KeepsEnds
  BY <1>3 DEF waitSignal, waitForUpdateIdle, finishClosed, sendResult
<1>4. ASSUME NEW p \in Prompts,
             endSessionOperation(p) \/ closeRpcDone(p) \/ closeResultCh(p)
      PROVE  KeepsEnds
  BY <1>4 DEF endSessionOperation, closeRpcDone, closeResultCh
<1>5. ASSUME NEW p \in Prompts, Consumer(p) PROVE KeepsEnds
  BY <1>5 DEF Consumer, receiveUpdate, streamsEnd, stopReading, release
<1>6. ASSUME NEW s \in Sessions, enqueueUpdateFromWire(s) PROVE KeepsEnds
  BY <1>6 DEF enqueueUpdateFromWire
<1>7. ASSUME dispatchExit \/ dispatchLookup \/ dispatchSend \/ dispatchAbort
      PROVE  KeepsEnds
  BY <1>7 DEF dispatchExit, dispatchLookup, dispatchSend, dispatchAbort
<1>8. ASSUME setClosing \/ failAll \/ closeAllActiveSessions PROVE KeepsEnds
  BY <1>8 DEF setClosing, failAll, closeAllActiveSessions
<1>9. CASE UNCHANGED vars
  BY <1>9 DEF vars
<1> HIDE DEF TypeOK, Streams, Ended, KeepsEnds
<1>10. QED
  BY <1>1, <1>2, <1>3, <1>4, <1>5, <1>6, <1>7, <1>8, <1>9, Zenon
  DEF Next, Goroutine, Dispatcher, Reaper

\* No finished prompt's stream is forgotten, for any capacity of the queue.
THEOREM EndsAreNotLost == Spec => []CloseNotLost
<1>1. Init => CloseNotLost
  BY DEF Init, CloseNotLost, Streams, Ended
<1>2. TypeOK /\ CloseNotLost /\ [Next]_vars => CloseNotLost'
  <2> SUFFICES ASSUME TypeOK, CloseNotLost, [Next]_vars, NEW p \in Streams,
                      pc'[p] \in Ended
               PROVE  \/ chanClosed'[p] \/ CloseQueued(p)'
                      \/ disp'.pc = "close" /\ disp'.active = p
    BY DEF CloseNotLost
  <2>0. p \in Prompts /\ deactivate \in Seq(Streams) /\ disp \in DispatchStates
    BY DEF Streams, TypeOK
  <2>1. CASE KeepsEnds
    BY <2>1 DEF KeepsEnds, CloseNotLost, CloseQueued
  <2>2. ASSUME NEW q \in Prompts, finishDeactivate(q)
        PROVE  chanClosed'[p] \/ CloseQueued(p)' \/ (disp'.pc = "close" /\ disp'.active = p)
    <3>1. /\ deactivate' = Append(deactivate, q) /\ UNCHANGED <<chanClosed, disp>>
          /\ \A r \in Prompts : r # q => pc'[r] = pc[r]
      BY <2>2 DEF finishDeactivate, TypeOK
    <3>2. q \in Streams
      BY <2>2 DEF finishDeactivate, TypeOK, Streams
    <3>3. /\ Len(deactivate') = Len(deactivate) + 1
          /\ deactivate'[Len(deactivate) + 1] = q
          /\ \A i \in 1 .. Len(deactivate) : deactivate'[i] = deactivate[i]
      BY <2>0, <3>1, <3>2
    <3>4. Len(deactivate) \in Nat
      BY <2>0
    <3>5. CASE p = q
      BY <3>3, <3>4, <3>5 DEF CloseQueued
    <3>6. CASE p # q
      <4>1. CloseQueued(p) => CloseQueued(p)'
        BY <3>3, <3>4 DEF CloseQueued
      <4>2. pc[p] \in Ended
        BY <2>0, <3>1, <3>6
      <4>3. QED
        BY <3>1, <4>1, <4>2 DEF CloseNotLost
    <3>7. QED
      BY <3>5, <3>6
  <2>3. ASSUME NEW q \in Prompts, finishClose(q)
        PROVE  chanClosed'[p] \/ CloseQueued(p)' \/ (disp'.pc = "close" /\ disp'.active = p)
    BY <2>0, <2>3 DEF finishClose, TypeOK, CloseNotLost, CloseQueued
  <2>4. CASE dispatchDeactivate
    <3>1. /\ deactivate # <<>> /\ deactivate' = Tail(deactivate)
          /\ disp.pc = "select" /\ disp'.pc = "close" /\ disp'.active = Head(deactivate)
          /\ UNCHANGED <<chanClosed, pc>>
      BY <2>0, <2>4 DEF dispatchDeactivate, DispatchStates
    <3>2. ASSUME CloseQueued(p), Head(deactivate) # p PROVE CloseQueued(p)'
      <4>1. PICK i \in 1 .. Len(deactivate) : deactivate[i] = p
        BY <3>2 DEF CloseQueued
      <4>2. Len(deactivate) \in Nat /\ i # 1 /\ Len(deactivate') = Len(deactivate) - 1
        BY <2>0, <3>1, <3>2, <4>1
      <4>3. i - 1 \in 1 .. Len(deactivate') /\ deactivate'[i - 1] = deactivate[i]
        BY <2>0, <3>1, <4>1, <4>2
      <4>4. QED
        BY <4>1, <4>3 DEF CloseQueued
    <3>3. QED
      BY <3>1, <3>2 DEF CloseNotLost
  <2>5. CASE dispatchClose
    BY <2>0, <2>5 DEF dispatchClose, TypeOK, CloseNotLost, CloseQueued
  <2>6. CASE closeActivePrompt
    <3>1. UNCHANGED <<deactivate, pc, disp>>
      BY <2>6 DEF closeActivePrompt
    <3>2. chanClosed[p] => chanClosed'[p]
      <4>1. CASE reaperClose = {}
        BY <2>6, <4>1 DEF closeActivePrompt
      <4>2. CASE reaperClose # {}
        <5>1. PICK q \in reaperClose : chanClosed' = [chanClosed EXCEPT ![q] = (q \in Streams)]
          BY <2>6, <4>2, Zenon DEF closeActivePrompt
        <5>2. chanClosed \in [Prompts -> BOOLEAN]
          BY DEF TypeOK
        <5>3. CASE p = q
          BY <2>0, <5>1, <5>2, <5>3, Zenon
        <5>4. CASE p # q
          BY <2>0, <5>1, <5>2, <5>4, Zenon
        <5>5. QED
          BY <5>3, <5>4
      <4>3. QED
        BY <4>1, <4>2
    <3>3. QED
      BY <3>1, <3>2 DEF CloseNotLost, CloseQueued
  <2>7. QED
    BY <2>1, <2>2, <2>3, <2>4, <2>5, <2>6, EndSteps
<1>3. QED
  BY <1>1, <1>2, TypeCorrect, PTL DEF Spec
=============================================================================
