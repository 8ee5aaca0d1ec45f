------------------------ MODULE SessionControlProofs ------------------------
(***************************************************************************)
(* Theorems about SessionControl: whatever is lost, a prompt runs under    *)
(* the model chosen last, a snapshot is true of the session it was read    *)
(* from, and the outcome of ChangeModel says what happened.                *)
(***************************************************************************)
EXTENDS SessionControl, TLAPS

TurnPcs == {"verify", "new", "config", "apply", "set", "prompt", "recover",
            "resume"}

\* Which operation is running, and what it asks for.
CallInv ==
    /\ pc \in TurnPcs => op = "turn"
    /\ pc \in {"inspect", "change", "setChange"} => arg \in Models /\ out = "none"
    /\ pc \in {"change", "setChange"} => op = "change" /\ arg \in Offered

\* The registry holds the choice: the live one, or that of the construction.
ChoiceInv == chosen = desired

\* A descriptor in hand is the backend's, unless the answer to the setting of a
\* literal model was lost; then the configuration has failed.
DescInv ==
    /\ pc \in {"config", "apply", "set"} => srv[remote] # NoModel
    /\ pc = "config" => ~unseen
    /\ pc \in {"config", "apply"} /\ desc # NoModel /\ (~failing \/ ~unseen)
         => srv[remote] = desc
    /\ pc = "set" => source = remote /\ desired \in Offered

\* SnapshotTrue before the operation ends.  While a session is configured the
\* old snapshot is on its way out.
SnapshotInv ==
    /\ pc \notin {"config", "apply"}
    /\ control # NoModel /\ ~unseen /\ ServerModel(source) # NoModel
    => srv[source] = control

\* While a call runs its session is as it was when the call began.
OutcomeInv ==
    pc \in {"inspect", "change", "setChange"} /\ known => srv[remote] = before

IInv ==
    /\ TypeOK /\ CallInv /\ ChoiceInv /\ DescInv /\ SnapshotInv
    /\ PromptUnderChoice /\ OutcomeInv

-----------------------------------------------------------------------------
\* The invariant holds before the first turn.
LEMMA InvInit == Init => IInv
<1> SUFFICES ASSUME Init PROVE IInv
  OBVIOUS
<1> USE SessionControlAssumption
<1>1. TypeOK
  BY DEF Init, TypeOK, Configs, MaybeModel, Ids, Outcomes, Pcs
<1>2. CallInv /\ DescInv /\ SnapshotInv /\ PromptUnderChoice /\ OutcomeInv
  BY DEF Init, CallInv, TurnPcs, DescInv, SnapshotInv, PromptUnderChoice,
         OutcomeInv, known
<1>3. ChoiceInv
  BY DEF Init, ChoiceInv, desired
<1> QED
  BY <1>1, <1>2, <1>3 DEF IInv

-----------------------------------------------------------------------------
\* Every step keeps the types.
LEMMA TypeNext == TypeOK /\ CallInv /\ DescInv /\ [Next]_vars => TypeOK'
<1> SUFFICES ASSUME TypeOK, CallInv, DescInv, [Next]_vars PROVE TypeOK'
  OBVIOUS
<1> USE SessionControlAssumption
    DEF TypeOK, Pcs, entry, call, step, known, invalidateVerification, Done,
        classifyModelDescriptor
<1>1. ASSUME startTurn PROVE TypeOK'
  BY <1>1 DEF startTurn, Target, Outcomes, MaybeModel, Ids
<1>2. ASSUME giveUp PROVE TypeOK'
  BY <1>2 DEF giveUp, Ids
<1>3. ASSUME verifyExistingDesiredHeld PROVE TypeOK'
  BY <1>3 DEF verifyExistingDesiredHeld, observe, Ids
<1>4. ASSUME createRemoteSession PROVE TypeOK'
  BY <1>4 DEF createRemoteSession, Ids
<1>5. ASSUME applySessionConfig PROVE TypeOK'
  BY <1>5 DEF applySessionConfig, SetModel, DescInv
<1>6. ASSUME applyDesiredModelCurrentHeld PROVE TypeOK'
  <2>1. live' \in MaybeModel /\ bound' \in Ids
    BY <1>6 DEF applyDesiredModelCurrentHeld, Proceed, desired, confirm, MaybeModel,
               Ids
  <2>2. control' \in Offered \cup {NoModel} /\ desc' \in Offered \cup {NoModel}
    BY <1>6 DEF applyDesiredModelCurrentHeld, Proceed
  <2>3. \/ pc' \in {"prompt", "set"} /\ UNCHANGED step
        \/ Done
    BY <1>6 DEF applyDesiredModelCurrentHeld, Proceed
  <2>4. remote # NoSession
    BY <1>6 DEF applyDesiredModelCurrentHeld
  <2>5. /\ attached' = remote /\ source' = remote
        /\ UNCHANGED <<config, unseen, srv, call, chosen>>
    BY <1>6 DEF applyDesiredModelCurrentHeld
  <2> QED
    BY <2>1, <2>2, <2>3, <2>4, <2>5 DEF Ids
<1>7. ASSUME setDesiredModel PROVE TypeOK'
  <2>1. /\ srv' \in [Sessions -> Offered \cup {NoModel}]
        /\ control' \in Offered \cup {NoModel}
    BY <1>7 DEF setDesiredModel, SetModel, observe, DescInv
  <2>2. live' \in MaybeModel /\ bound' \in Ids
    BY <1>7 DEF setDesiredModel, Proceed, desired, confirm, MaybeModel, Ids
  <2>3. \/ pc' = "prompt" /\ UNCHANGED step
        \/ Done
    BY <1>7 DEF setDesiredModel, Proceed
  <2>4. /\ remote # NoSession /\ source' \in Ids /\ unseen' \in BOOLEAN
        /\ UNCHANGED <<config, attached, call, chosen>>
    BY <1>7 DEF setDesiredModel, observe
  <2> QED
    BY <2>1, <2>2, <2>3, <2>4 DEF Ids
<1>8. ASSUME runPromptOnce PROVE TypeOK'
  BY <1>8 DEF runPromptOnce, SetModel, observe, Ids
<1>9. ASSUME recoverRemoteSessionHeld PROVE TypeOK'
  BY <1>9 DEF recoverRemoteSessionHeld, Ids
<1>10. ASSUME resumeAnswered PROVE TypeOK'
  BY <1>10 DEF resumeAnswered, observe, Ids
<1>11. ASSUME inspectHeld PROVE TypeOK'
  BY <1>11 DEF inspectHeld, validateHeld, Return, Outcomes
<1>12. ASSUME inspectResume PROVE TypeOK'
  BY <1>12 DEF inspectResume, validateHeld, Return, observe, Outcomes, Ids
<1>13. ASSUME ChangeModel PROVE TypeOK'
  BY <1>13 DEF ChangeModel, Return, confirm, MaybeModel, Outcomes, CallInv
<1>14. ASSUME setModel PROVE TypeOK'
  <2>1. arg \in Offered
    BY <1>14 DEF setModel, CallInv
  <2>2. /\ srv' \in [Sessions -> Offered \cup {NoModel}]
        /\ control' \in Offered \cup {NoModel}
    BY <1>14, <2>1 DEF setModel, SetModel, observe
  <2>3. live' \in MaybeModel /\ chosen' \in MaybeModel /\ effective' \in MaybeModel
    BY <1>14, <2>1 DEF setModel, confirm, MaybeModel, Return
  <2>4. /\ pc' = "idle" /\ out' \in Outcomes
        /\ source' \in Ids /\ unseen' \in BOOLEAN
        /\ UNCHANGED <<op, arg, before, config, bound, attached, step>>
    BY <1>14 DEF setModel, Return, observe, Outcomes
  <2> QED
    BY <2>2, <2>3, <2>4
<1>15. ASSUME NEW o \in {"inspect", "validate", "change"}, NEW m \in Models,
             startCall(o, m)
       PROVE  TypeOK'
  BY <1>15 DEF startCall, Target, ServerModel, Outcomes, MaybeModel, Ids
<1>16. ASSUME NEW s \in Sessions, loseSession(s) PROVE TypeOK'
  BY <1>16 DEF loseSession
<1>17. ASSUME resetRecord \/ evictOneLocked PROVE TypeOK'
  BY <1>17 DEF resetRecord, evictOneLocked, Ids
<1>18. ASSUME UNCHANGED vars PROVE TypeOK'
  BY <1>18 DEF vars
<1> QED
  BY <1>1, <1>2, <1>3, <1>4, <1>5, <1>6, <1>7, <1>8, <1>9, <1>10, <1>11, <1>12, <1>13, <1>14, <1>15, <1>16, <1>17, <1>18 DEF Next, Turn, Controller

-----------------------------------------------------------------------------
\* Every step keeps what CallInv and ChoiceInv say.
LEMMA ChoiceNext ==
    IInv /\ [Next]_vars => CallInv' /\ ChoiceInv'
<1> SUFFICES ASSUME IInv, [Next]_vars PROVE CallInv' /\ ChoiceInv'
  OBVIOUS
<1>0. TypeOK /\ CallInv /\ ChoiceInv
  BY DEF IInv
<1>a. Offered \subseteq Models /\ NoModel \notin Models
  BY SessionControlAssumption
<1> USE <1>0, <1>a DEF entry, call, step, desired
<1>1. CASE Turn
  <2>1. CallInv'
    <3> USE DEF CallInv, TurnPcs, Done, Proceed
    <3>1. CASE startTurn
      BY <3>1 DEF startTurn
    <3>2. CASE giveUp \/ verifyExistingDesiredHeld
      BY <3>2 DEF giveUp, verifyExistingDesiredHeld
    <3>3. CASE createRemoteSession \/ applySessionConfig
      BY <3>3 DEF createRemoteSession, applySessionConfig
    <3>4. CASE applyDesiredModelCurrentHeld \/ setDesiredModel
      BY <3>4 DEF applyDesiredModelCurrentHeld, setDesiredModel
    <3>5. CASE runPromptOnce \/ recoverRemoteSessionHeld \/ resumeAnswered
      BY <3>5 DEF runPromptOnce, recoverRemoteSessionHeld, resumeAnswered
    <3> QED
      BY <1>1, <3>1, <3>2, <3>3, <3>4, <3>5 DEF Turn
  <2>2. ChoiceInv'
    <3> USE DEF ChoiceInv
    <3>1. CASE UNCHANGED <<config, live, chosen>>
      BY <3>1
    <3>2. CASE applyDesiredModelCurrentHeld \/ setDesiredModel
      BY <3>2 DEF applyDesiredModelCurrentHeld, setDesiredModel, confirm
    <3>3. CASE ~(applyDesiredModelCurrentHeld \/ setDesiredModel)
      BY <1>1, <3>1, <3>3 DEF Turn, startTurn, giveUp, verifyExistingDesiredHeld,
            createRemoteSession, applySessionConfig, runPromptOnce,
            recoverRemoteSessionHeld, resumeAnswered
    <3> QED
      BY <3>2, <3>3
  <2> QED
    BY <2>1, <2>2
<1>2. CASE Controller
  <2>1. ASSUME NEW o \in {"inspect", "validate", "change"}, NEW m \in Models,
               startCall(o, m)
        PROVE  CallInv' /\ ChoiceInv'
    BY <2>1 DEF startCall, CallInv, ChoiceInv, TurnPcs
  <2>2. CASE inspectHeld \/ inspectResume
    <3>1. validateHeld => CallInv'
      BY <2>2 DEF inspectHeld, inspectResume, validateHeld, Return, CallInv,
                  TurnPcs, TypeOK
    <3>2. CallInv'
      BY <2>2, <3>1 DEF inspectHeld, inspectResume, Return, CallInv, TurnPcs
    <3> QED
      BY <2>2, <3>2 DEF inspectHeld, inspectResume, ChoiceInv
  <2>3. CASE ChangeModel
    BY <2>3 DEF ChangeModel, Return, confirm, CallInv, ChoiceInv, TurnPcs
  <2>4. CASE setModel
    BY <2>4 DEF setModel, Return, confirm, CallInv, ChoiceInv, TurnPcs
  <2> QED
    BY <1>2, <2>1, <2>2, <2>3, <2>4 DEF Controller
<1>3. CASE (\E s \in Sessions : loseSession(s)) \/ resetRecord \/ evictOneLocked
  BY <1>3 DEF loseSession, resetRecord, evictOneLocked, CallInv, ChoiceInv, TurnPcs
<1>4. CASE UNCHANGED vars
  BY <1>4 DEF vars, CallInv, ChoiceInv
<1> QED
  BY <1>1, <1>2, <1>3, <1>4 DEF Next

-----------------------------------------------------------------------------
\* Every step keeps DescInv.
LEMMA DescNext == IInv /\ TypeOK' /\ [Next]_vars => DescInv'
<1> SUFFICES ASSUME IInv, TypeOK', [Next]_vars PROVE DescInv'
  OBVIOUS
<1>0. TypeOK /\ DescInv
  BY DEF IInv
<1>a. Offered \subseteq Models /\ NoModel \notin Models
  BY SessionControlAssumption
<1>b. CASE pc' \notin {"config", "apply", "set"}
  BY <1>b DEF DescInv
<1>c. CASE pc' \in {"config", "apply", "set"}
  <2> USE <1>0, <1>a, <1>c DEF entry, call, step, TypeOK, Ids, known, observe,
              classifyModelDescriptor
  <2>1. CASE UNCHANGED vars
    BY <2>1 DEF vars, DescInv, desired
  <2>2. CASE verifyExistingDesiredHeld
    BY <2>2 DEF verifyExistingDesiredHeld, DescInv, Done
  <2>3. CASE createRemoteSession
    BY <2>3 DEF createRemoteSession, DescInv, Done
  <2>4. CASE applySessionConfig
    BY <2>4 DEF applySessionConfig, DescInv, SetModel
  <2>5. CASE applyDesiredModelCurrentHeld
    BY <2>5 DEF applyDesiredModelCurrentHeld, DescInv, Done, Proceed, desired
  <2>6. CASE resumeAnswered
    BY <2>6 DEF resumeAnswered, DescInv, Done
  <2>7. \/ UNCHANGED vars \/ verifyExistingDesiredHeld \/ createRemoteSession
        \/ applySessionConfig \/ applyDesiredModelCurrentHeld \/ resumeAnswered
    BY DEF Next, Turn, Controller, startTurn, giveUp, setDesiredModel, Done,
           Proceed, runPromptOnce, recoverRemoteSessionHeld, startCall,
           inspectHeld, inspectResume, validateHeld, Return, ChangeModel,
           setModel, loseSession, resetRecord, evictOneLocked
  <2> QED
    BY <2>1, <2>2, <2>3, <2>4, <2>5, <2>6, <2>7
<1> QED
  BY <1>b, <1>c

-----------------------------------------------------------------------------
\* Every step keeps SnapshotInv: what changes the model of a session replaces
\* the snapshot, drops it, or goes unnoticed.
LEMMA SnapshotNext == IInv /\ TypeOK' /\ [Next]_vars => SnapshotInv'
<1> SUFFICES ASSUME IInv, TypeOK', [Next]_vars PROVE SnapshotInv'
  OBVIOUS
<1>0. TypeOK /\ CallInv /\ DescInv /\ SnapshotInv
  BY DEF IInv
<1>a. Offered \subseteq Models /\ NoModel \notin Models /\ NoSession \notin Sessions
  BY SessionControlAssumption
<1>b. CASE control' = NoModel \/ unseen'
  BY <1>b DEF SnapshotInv
<1>c. CASE pc \notin {"config", "apply"} /\ UNCHANGED <<control, source, unseen, srv>>
  BY <1>0, <1>c DEF SnapshotInv, ServerModel
<1> USE DEF entry, call, step
<1>1. CASE createRemoteSession
  BY <1>0, <1>a, <1>1 DEF createRemoteSession, SnapshotInv, ServerModel, TypeOK, Ids
<1>2. CASE applySessionConfig
  BY <1>2 DEF applySessionConfig, SnapshotInv
<1>3. CASE applyDesiredModelCurrentHeld
  <2>1. control' \in {desc, NoModel} /\ source' = remote /\ UNCHANGED <<srv, unseen>>
    BY <1>3 DEF applyDesiredModelCurrentHeld
  <2>2. desc # NoModel /\ ~unseen => srv[remote] = desc
    BY <1>0, <1>3 DEF applyDesiredModelCurrentHeld, DescInv
  <2> QED
    BY <2>1, <2>2 DEF SnapshotInv
<1>4. CASE setDesiredModel
  BY <1>0, <1>4, <1>b DEF setDesiredModel, SetModel, observe, invalidateVerification,
                          SnapshotInv, TypeOK, Ids
<1>5. CASE runPromptOnce
  <2>1. remote \in Sessions
    BY <1>0, <1>5 DEF runPromptOnce, TypeOK, Ids
  <2>2. ASSUME NEW m \in Offered, SetModel(m), observe(m) PROVE SnapshotInv'
    BY <1>0, <2>1, <2>2 DEF SetModel, observe, SnapshotInv, TypeOK
  <2> QED
    BY <1>5, <1>b, <1>c, <2>2 DEF runPromptOnce, invalidateVerification
<1>6. CASE setModel
  <2>1. ASSUME known, SetModel(arg), observe(arg) PROVE SnapshotInv'
    BY <1>0, <2>1 DEF SetModel, observe, known, SnapshotInv, TypeOK, Ids
  <2> QED
    BY <1>6, <1>b, <2>1 DEF setModel, invalidateVerification
<1>7. CASE inspectResume
  <2>1. ASSUME observe(srv[remote]), UNCHANGED srv PROVE SnapshotInv'
    BY <2>1 DEF observe, SnapshotInv
  <2> QED
    BY <1>7, <1>b, <2>1 DEF inspectResume, observe, invalidateVerification
<1>8. CASE verifyExistingDesiredHeld \/ recoverRemoteSessionHeld \/ evictOneLocked
  BY <1>8, <1>b DEF verifyExistingDesiredHeld, recoverRemoteSessionHeld,
                    evictOneLocked, observe, invalidateVerification
<1>9. CASE resumeAnswered
  BY <1>9, <1>b, <1>c DEF resumeAnswered, observe
<1>10. ASSUME NEW s \in Sessions, loseSession(s) PROVE SnapshotInv'
  BY <1>0, <1>a, <1>10 DEF loseSession, SnapshotInv, ServerModel, TypeOK, Ids
<1>11. CASE \/ startTurn \/ giveUp \/ inspectHeld \/ ChangeModel \/ resetRecord
            \/ \E o \in {"inspect", "validate", "change"}, m \in Models :
                 startCall(o, m)
  BY <1>11, <1>c DEF startTurn, giveUp, inspectHeld, ChangeModel, resetRecord,
                     startCall
<1>12. CASE UNCHANGED vars
  BY <1>0, <1>12 DEF vars, SnapshotInv, ServerModel
<1> QED
  BY <1>1, <1>2, <1>3, <1>4, <1>5, <1>6, <1>7, <1>8, <1>9, <1>10, <1>11, <1>12
     DEF Next, Turn, Controller

-----------------------------------------------------------------------------
\* Every step that leads to a prompt has verified the choice.
LEMMA PromptNext ==
    IInv /\ TypeOK' /\ ChoiceInv' /\ [Next]_vars => PromptUnderChoice'
<1> SUFFICES ASSUME IInv, TypeOK', ChoiceInv', [Next]_vars, pc' = "prompt",
                    chosen' # NoModel, known'
             PROVE  srv'[remote'] = chosen'
  BY DEF PromptUnderChoice
<1>0. TypeOK /\ CallInv /\ ChoiceInv /\ DescInv /\ PromptUnderChoice
  BY DEF IInv
<1> USE DEF entry, call, step, Done
<1>1. CASE startTurn \/ resumeAnswered
  BY <1>0, <1>1 DEF startTurn, resumeAnswered, ChoiceInv
<1>2. CASE applyDesiredModelCurrentHeld
  <2>1. chosen' = desired
    BY <1>0, <1>2 DEF applyDesiredModelCurrentHeld, ChoiceInv
  <2>2. desc = desired /\ ~failing /\ UNCHANGED <<srv, remote>>
    BY <1>2, <2>1 DEF applyDesiredModelCurrentHeld, Proceed
  <2> QED
    BY <1>0, <1>2, <2>1, <2>2 DEF applyDesiredModelCurrentHeld, DescInv
<1>3. CASE setDesiredModel
  <2>1. chosen' = desired
    BY <1>0, <1>3 DEF setDesiredModel, ChoiceInv
  <2>2. SetModel(desired) /\ UNCHANGED remote /\ remote \in Sessions
    BY <1>0, <1>3 DEF setDesiredModel, Proceed, TypeOK, Ids
  <2> QED
    BY <1>0, <2>1, <2>2 DEF SetModel, TypeOK
<1>4. CASE UNCHANGED vars
  BY <1>0, <1>4 DEF vars, PromptUnderChoice, known, TypeOK
<1> QED
  BY <1>1, <1>2, <1>3, <1>4
     DEF Next, Turn, Controller, giveUp, verifyExistingDesiredHeld,
         createRemoteSession, applySessionConfig, runPromptOnce,
         recoverRemoteSessionHeld, startCall, inspectHeld, inspectResume,
         validateHeld, Return, ChangeModel, setModel, loseSession, resetRecord,
         evictOneLocked

-----------------------------------------------------------------------------
\* Every step keeps OutcomeInv: only setModel changes the model of the session
\* a controller call works on, and the call is over then.
LEMMA OutcomeNext == IInv /\ [Next]_vars => OutcomeInv'
<1> SUFFICES ASSUME IInv, [Next]_vars, pc' \in {"inspect", "change", "setChange"}
             PROVE  OutcomeInv'
  BY DEF OutcomeInv
<1>0. OutcomeInv
  BY DEF IInv
<1> USE DEF entry, call, step
<1>1. ASSUME NEW o \in {"inspect", "validate", "change"}, NEW m \in Models,
             startCall(o, m)
      PROVE  OutcomeInv'
  BY <1>1 DEF startCall, OutcomeInv, known, ServerModel
<1>2. CASE inspectHeld \/ inspectResume \/ ChangeModel
  <2>1. pc \in {"inspect", "change"} /\ UNCHANGED <<remote, srv, before>>
    BY <1>2 DEF inspectHeld, inspectResume, validateHeld, ChangeModel, Return
  <2> QED
    BY <1>0, <2>1 DEF OutcomeInv, known
<1>3. CASE UNCHANGED vars
  BY <1>0, <1>3 DEF vars, OutcomeInv, known
<1> QED
  BY <1>1, <1>2, <1>3
     DEF Next, Turn, Controller, startTurn, giveUp, verifyExistingDesiredHeld,
         createRemoteSession, applySessionConfig, applyDesiredModelCurrentHeld,
         setDesiredModel, Done, Proceed, runPromptOnce, recoverRemoteSessionHeld,
         resumeAnswered, Return, setModel, loseSession, resetRecord, evictOneLocked

-----------------------------------------------------------------------------
\* What ChangeModel returns, from the invariant: an outcome after a request is
\* what the answer confirmed, one from the snapshot is what SnapshotInv says.
LEMMA OutcomeStep ==
    /\ IInv /\ [Next]_vars
    /\ op = "change" /\ pc # "idle" /\ pc' = "idle"
    => /\ pc = "setChange" /\ out' = "applied" => srv'[remote] = arg
       /\ /\ pc = "change" /\ out' = "applied"
          /\ ~unseen /\ ServerModel(source) # NoModel
          => srv[source] = arg
       /\ known /\ out' \notin {"none", "applied", "ambiguous"}
          => srv'[remote] \in {before, effective'}
<1> SUFFICES ASSUME IInv, [Next]_vars, op = "change", pc # "idle", pc' = "idle"
             PROVE  /\ pc = "setChange" /\ out' = "applied" => srv'[remote] = arg
                    /\ /\ pc = "change" /\ out' = "applied"
                       /\ ~unseen /\ ServerModel(source) # NoModel
                       => srv[source] = arg
                    /\ known /\ out' \notin {"none", "applied", "ambiguous"}
                       => srv'[remote] \in {before, effective'}
  OBVIOUS
<1>0. TypeOK /\ CallInv /\ SnapshotInv /\ OutcomeInv
  BY DEF IInv
<1>a. Offered \subseteq Models /\ NoModel \notin Models
  BY SessionControlAssumption
<1> USE DEF entry, call, step
<1>1. pc \in {"inspect", "change", "setChange"}
  BY <1>0 DEF CallInv, TurnPcs, TypeOK, Pcs
<1>2. inspectHeld \/ inspectResume \/ ChangeModel \/ setModel
  BY <1>1 DEF Next, Turn, Controller, startTurn, giveUp, verifyExistingDesiredHeld,
         createRemoteSession, applySessionConfig, applyDesiredModelCurrentHeld,
         setDesiredModel, runPromptOnce, recoverRemoteSessionHeld, resumeAnswered,
         startCall, loseSession, resetRecord, evictOneLocked, vars
<1>3. CASE inspectHeld \/ inspectResume
  <2>1. pc = "inspect" /\ UNCHANGED <<remote, srv, before>>
    BY <1>3 DEF inspectHeld, inspectResume, validateHeld, Return
  <2> QED
    BY <1>0, <2>1 DEF OutcomeInv
<1>4. CASE ChangeModel
  <2>1. pc = "change" /\ UNCHANGED <<remote, srv, before>>
    BY <1>4 DEF ChangeModel, Return
  <2>2. out' = "applied" => control = arg
    BY <1>4 DEF ChangeModel, Return
  <2>3. control = arg => control # NoModel
    BY <1>0, <1>a, <2>1 DEF CallInv
  <2> QED
    BY <1>0, <2>1, <2>2, <2>3 DEF SnapshotInv, OutcomeInv
<1>5. CASE setModel
  <2>1. pc = "setChange"
    BY <1>5 DEF setModel
  <2>2. ASSUME known, SetModel(arg) PROVE srv'[remote] = arg
    BY <1>0, <2>2 DEF SetModel, known, TypeOK, Ids
  <2>3. ASSUME NEW m \in Offered, known, SetModel(m), effective' = m
        PROVE  srv'[remote] \in {before, effective'}
    BY <1>0, <2>3 DEF SetModel, known, TypeOK, Ids
  <2>4. UNCHANGED srv /\ known => srv'[remote] \in {before, effective'}
    BY <1>0, <2>1 DEF OutcomeInv
  <2>5. /\ out' = "applied" => known /\ SetModel(arg)
        /\ out' \notin {"none", "applied", "ambiguous"} =>
             \/ UNCHANGED srv
             \/ \E m \in Offered : known /\ SetModel(m) /\ effective' = m
    BY <1>5 DEF setModel, Return
  <2> QED
    BY <2>1, <2>2, <2>3, <2>4, <2>5
<1> QED
  BY <1>2, <1>3, <1>4, <1>5

-----------------------------------------------------------------------------
\* The invariant holds always.
LEMMA Invariant == Spec => []IInv
<1>1. IInv /\ [Next]_vars => IInv'
  <2> SUFFICES ASSUME IInv, [Next]_vars PROVE IInv'
    OBVIOUS
  <2>1. TypeOK'
    BY TypeNext DEF IInv
  <2>2. CallInv' /\ ChoiceInv'
    BY ChoiceNext
  <2>3. DescInv' /\ SnapshotInv'
    BY <2>1, DescNext, SnapshotNext
  <2>4. PromptUnderChoice' /\ OutcomeInv'
    BY <2>1, <2>2, PromptNext, OutcomeNext
  <2> QED
    BY <2>1, <2>2, <2>3, <2>4 DEF IInv
<1> QED
  BY InvInit, <1>1, PTL DEF Spec

-----------------------------------------------------------------------------
\* Every variable keeps its type, for every set of models and of sessions: the
\* choice and the snapshot are models of the descriptor or nothing, and a turn
\* past the creation of its session works on one.
THEOREM TypeCorrect == Spec => []TypeOK
<1>1. IInv => TypeOK
  BY DEF IInv
<1> QED
  BY Invariant, <1>1, PTL

\* "An unavailable or uncertain result prevents the prompt": a prompt is only
\* sent to a session that runs the model chosen last (session.go, agent.go).
THEOREM PromptsUnderChoice == Spec => []PromptUnderChoice
<1>1. IInv => PromptUnderChoice
  BY DEF IInv
<1> QED
  BY Invariant, <1>1, PTL

\* A snapshot in the registry is what its session runs, after every request
\* that was lost, refused or answered with another model, unless the backend
\* announced a change that nobody received (model_registry.go, agent.go).
THEOREM SnapshotsAreTrue == Spec => []SnapshotTrue
<1>1. IInv => SnapshotTrue
  BY DEF IInv, SnapshotInv, SnapshotTrue
<1> QED
  BY Invariant, <1>1, PTL

\* What ChangeModel returns (session_control.go): "applied" after a request is
\* confirmed by the session of the call; "applied" from the snapshot holds of the
\* session the snapshot was read from, which need not be the one on record,
\* unless a change was announced that nobody received or the backend forgot the
\* session; every other outcome than "ambiguous" leaves the session's model as it
\* was or names the model in effect.
THEOREM OutcomesAreTruthful == Spec => OutcomeTruthful
<1>1. /\ IInv /\ [Next]_vars
      => [op = "change" /\ pc # "idle" /\ pc' = "idle" =>
            /\ pc = "setChange" /\ out' = "applied" => srv'[remote] = arg
            /\ /\ pc = "change" /\ out' = "applied"
               /\ ~unseen /\ ServerModel(source) # NoModel
               => srv[source] = arg
            /\ known /\ out' \notin {"none", "applied", "ambiguous"}
               => srv'[remote] \in {before, effective'}]_vars
  BY OutcomeStep
<1> QED
  BY Invariant, <1>1, PTL DEF Spec, OutcomeTruthful
=============================================================================
