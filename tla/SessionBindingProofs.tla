------------------------ MODULE SessionBindingProofs ------------------------
(***************************************************************************)
(* For any number of agents that share an ADK session, and any limit on    *)
(* the parked slots: an agent only ever uses sessions it created, the      *)
(* session it prompts is on record, a session/new of unknown outcome stays *)
(* marked, and a turn keeps the entries of the other agents.               *)
(***************************************************************************)
EXTENDS SessionBinding, TLAPS

-----------------------------------------------------------------------------
(* What ownedState returns.                                                *)

\* Dropping slots leaves the others as they are, and happens only to stay
\* within the limit.
LEMMA DropFacts ==
    ASSUME NEW p \in [Agents -> Slots], NEW q \in dropOldestParked(p)
    PROVE  /\ q \in [Agents -> Slots]
           /\ \A x \in Agents : q[x] = p[x] \/ q[x] = NoSlot
           /\ \/ q = p
              \/ Cardinality(Occupied(q)) = MaxParked
<1> USE DEF Slots, NoSlot, Ids, Occupied
<1>1. CASE Cardinality(Occupied(p)) <= MaxParked
  BY <1>1 DEF dropOldestParked
<1>2. CASE ~(Cardinality(Occupied(p)) <= MaxParked)
  <2>1. PICK kept \in SUBSET Occupied(p) :
            /\ Cardinality(kept) = MaxParked
            /\ q = [x \in Agents |-> IF x \in kept THEN p[x] ELSE NoSlot]
    BY <1>2 DEF dropOldestParked
  <2>2. Occupied(q) = kept
    BY <2>1
  <2> QED
    BY <2>1, <2>2
<1> QED
  BY <1>1, <1>2

\* The record that agent a writes over st.
LEMMA OwnedFacts ==
    ASSUME NEW a \in Agents, NEW st \in States, NEW sid \in Ids,
           NEW ind \in BOOLEAN, NEW new \in ownedState(a, st, sid, ind)
    PROVE  /\ new \in States
           /\ new.owner = a /\ new.sid = sid /\ new.ind = ind
           /\ new.parked[a] = NoSlot
           /\ \A x \in Agents \ {a} :
                 /\ \/ new.parked[x] = NoSlot
                    \/ /\ st.owner = x /\ st.sid # NoSession
                       /\ new.parked[x] = Binding(st, x)
                    \/ /\ st.owner # x \/ st.sid = NoSession
                       /\ new.parked[x] = st.parked[x]
                 /\ Kept(st, new, x)
<1> DEFINE p == carryParked(a, st)
<1>1. p \in [Agents -> Slots]
  BY DEF carryParked, States, Slots, NoSlot, Ids
<1>2. PICK q \in dropOldestParked(p) :
          new = [owner |-> a, sid |-> sid, ind |-> ind, parked |-> q]
  BY DEF ownedState
<1>3. /\ q \in [Agents -> Slots]
      /\ \A x \in Agents : q[x] = p[x] \/ q[x] = NoSlot
      /\ q = p \/ Cardinality(Occupied(q)) = MaxParked
  BY <1>1, <1>2, DropFacts
<1>4. /\ p[a] = NoSlot
      /\ \A x \in Agents \ {a} :
            p[x] = IF x = st.owner /\ st.sid # NoSession
                     THEN [sid |-> st.sid, ind |-> st.ind] ELSE st.parked[x]
  BY DEF carryParked
<1> HIDE DEF p
<1>5. new \in States
  BY <1>2, <1>3 DEF States
<1>6. ASSUME NEW x \in Agents \ {a} PROVE Kept(st, new, x)
  <2>1. Binding(new, x) = q[x] /\ new.owner # x
    BY <1>2, <1>6 DEF Binding
  <2>2. Binding(st, x).sid # NoSession => p[x] = Binding(st, x)
    BY <1>4, <1>6 DEF Binding
  <2>3. q[x] = p[x] \/ (q[x] = NoSlot /\ Cardinality(Occupied(q)) = MaxParked)
    BY <1>3, <1>6
  <2> QED
    BY <1>2, <2>1, <2>2, <2>3 DEF Kept
<1>7. ASSUME NEW x \in Agents \ {a}
      PROVE  \/ new.parked[x] = NoSlot
             \/ /\ st.owner = x /\ st.sid # NoSession
                /\ new.parked[x] = Binding(st, x)
             \/ /\ st.owner # x \/ st.sid = NoSession
                /\ new.parked[x] = st.parked[x]
  BY <1>2, <1>3, <1>4, <1>7 DEF Binding
<1> QED
  BY <1>2, <1>3, <1>4, <1>5, <1>6, <1>7

\* The record of a binding of the current agent.
LEMMA BindFacts ==
    ASSUME TypeOK, cur \in Agents, NEW sid \in Ids, NEW ind \in BOOLEAN,
           live' \in ownedState(cur, live, sid, ind)
    PROVE  /\ live' \in States
           /\ live'.owner = cur /\ live'.sid = sid /\ live'.ind = ind
           /\ live'.parked[cur] = NoSlot
           /\ \A x \in Agents \ {cur} :
                 /\ \/ live'.parked[x] = NoSlot
                    \/ /\ live.owner = x /\ live.sid # NoSession
                       /\ live'.parked[x] = Binding(live, x)
                    \/ /\ live.owner # x \/ live.sid = NoSession
                       /\ live'.parked[x] = live.parked[x]
                 /\ Kept(live, live', x)
<1>1. live \in States
  BY DEF TypeOK
<1> QED
  BY <1>1, OwnedFacts

-----------------------------------------------------------------------------
(* The inductive invariant.                                                *)

\* Every session the record st names was created by the agent it is kept for,
\* and the owner has no slot besides.
Owns(st) ==
    /\ st.owner = NoAgent => st.sid = NoSession
    /\ st.sid # NoSession => creator[st.sid] = st.owner
    /\ \A a \in Agents :
          st.parked[a].sid # NoSession => creator[st.parked[a].sid] = a
    /\ \A a \in Agents : st.owner = a => st.parked[a] = NoSlot

OwnInv ==
    /\ Owns(stored) /\ Owns(live)
    /\ \A a \in Agents : attached[a] # NoSession => creator[attached[a]] = a
    /\ pc \in {"idle", "ensure"} => remote = NoSession
    /\ OwnSessionOnly

\* An agent in doubt that st has an entry for is marked there.
Marked(st) ==
    \A a \in doubt \cap Protected :
        st.owner = a \/ st.parked[a] # NoSlot => Binding(st, a).ind

\* The running invocation sees the marks too; an agent in doubt has nothing
\* attached and gets no further than session/new; and while that is under way
\* both copies of the record carry the agent's mark.
DoubtInv ==
    /\ Marked(stored)
    /\ pc # "idle" \/ ~stopped => Marked(live)
    /\ \A a \in doubt \cap Protected : attached[a] = NoSession
    /\ pc \in {"verify", "attach", "config", "bind", "prompt", "recover",
               "resume", "final"} => cur \notin doubt \cap Protected
    /\ pc \in {"resume", "create", "new", "attach"} => attached[cur] = NoSession
    /\ pc \in {"new", "attach"} /\ cur \in Protected =>
          /\ stored.owner = cur /\ stored.ind
          /\ live.owner = cur /\ live.ind

IInv == TypeOK /\ OwnInv /\ PromptedIsStored /\ DoubtInv

-----------------------------------------------------------------------------
\* The initial state satisfies the invariant.
LEMMA InvInit == Init => IInv
<1> SUFFICES ASSUME Init PROVE IInv
  OBVIOUS
<1> USE SessionBindingAssumption DEF Init, EmptyState
<1>1. TypeOK
  BY DEF TypeOK, States, Slots, Ids, NoSlot, Pcs
<1>2. OwnInv
  BY DEF OwnInv, Owns, OwnSessionOnly, NoSlot
<1>3. PromptedIsStored /\ DoubtInv
  BY DEF PromptedIsStored, DoubtInv, Marked
<1> QED
  BY <1>1, <1>2, <1>3 DEF IInv

\* Every step keeps the types.
LEMMA TypeNext == TypeOK /\ [Next]_vars => TypeOK'
<1> SUFFICES ASSUME TypeOK, [Next]_vars PROVE TypeOK'
  OBVIOUS
<1> USE SessionBindingAssumption DEF TypeOK, Pcs, turn, Fail, FailAfterStop,
      YieldTrue, YieldFalse, EndTurn, Goto
<1>1. ASSUME NEW a \in Agents, Start(a) PROVE TypeOK'
  BY <1>1 DEF Start
<1>2. ASSUME NEW a \in Agents, Detach(a) PROVE TypeOK'
  BY <1>2 DEF Detach, Ids
<1>3. CASE GiveUp
  BY <1>3 DEF GiveUp, Ids
<1>4. CASE ensureRemoteSessionHeld
  <2> DEFINE cfg == applyForeignOwnership(cur, live)
             sid == IF cfg.sid = NoSession THEN attached[cur] ELSE cfg.sid
  <2>1. cur \in Agents /\ sid \in Ids
    BY <1>4 DEF ensureRemoteSessionHeld, applyForeignOwnership, States, Slots,
                NoSlot, Ids
  <2>2. CASE live' \in ownedState(cur, live, sid, FALSE)
    <3>1. live' \in States
      BY <2>1, <2>2, BindFacts
    <3> QED
      BY <1>4, <2>1, <3>1 DEF ensureRemoteSessionHeld, Bind, Ids
  <2>3. CASE live' \notin ownedState(cur, live, sid, FALSE)
    BY <1>4, <2>1, <2>3 DEF ensureRemoteSessionHeld, Bind, Ids
  <2> QED
    BY <2>2, <2>3
<1>5. CASE verifyExistingDesiredHeld
  <2>1. cur \in Agents
    BY <1>5 DEF verifyExistingDesiredHeld
  <2>2. live' \in States
    BY <1>5, <2>1, BindFacts DEF verifyExistingDesiredHeld, Bind
  <2> QED
    BY <1>5, <2>1, <2>2 DEF verifyExistingDesiredHeld, Ids
<1>6. CASE markPending
  <2>1. cur \in Agents
    BY <1>6 DEF markPending
  <2>2. live' \in States
    BY <1>6, <2>1, BindFacts DEF markPending
  <2> QED
    BY <1>6, <2>1, <2>2 DEF markPending, Ids
<1>7. CASE newSessionAnswered
  BY <1>7 DEF newSessionAnswered, Created, Ids
<1>8. CASE newSessionRejected
  <2>1. cur \in Agents
    BY <1>8 DEF newSessionRejected
  <2>2. live' \in States
    BY <1>8, <2>1, BindFacts DEF newSessionRejected
  <2> QED
    BY <1>8, <2>1, <2>2 DEF newSessionRejected, Ids
<1>9. CASE newSessionCanceled
  BY <1>9 DEF newSessionCanceled, Created, Ids
<1>10. CASE recordAttachment
  <2>1. cur \in Agents
    BY <1>10 DEF recordAttachment
  <2>2. live' \in States
    BY <1>10, <2>1, BindFacts DEF recordAttachment, Bind
  <2> QED
    BY <1>10, <2>1, <2>2 DEF recordAttachment, Ids
<1>11. CASE configureSession
  <2>1. cur \in Agents
    BY <1>11 DEF configureSession
  <2>2. live' \in States
    BY <1>11, <2>1, BindFacts DEF configureSession, Bind
  <2> QED
    BY <1>11, <2>1, <2>2 DEF configureSession, Ids
<1>12. CASE yieldState
  <2>1. cur \in Agents
    BY <1>12 DEF yieldState
  <2>2. live' \in States
    BY <1>12, <2>1, BindFacts DEF yieldState, Bind
  <2> QED
    BY <1>12, <2>1, <2>2 DEF yieldState, Ids
<1>13. CASE runPromptOnce
  BY <1>13 DEF runPromptOnce, Ids
<1>14. CASE recoverRemoteSessionHeld
  BY <1>14 DEF recoverRemoteSessionHeld, applyForeignOwnership, States, Slots,
               NoSlot, Ids
<1>15. CASE resumeAnswered
  <2>1. cur \in Agents
    BY <1>15 DEF resumeAnswered
  <2>2. live' \in States
    BY <1>15, <2>1, BindFacts DEF resumeAnswered, Bind
  <2> QED
    BY <1>15, <2>1, <2>2 DEF resumeAnswered, Ids
<1>16. CASE yieldFinal
  <2>1. cur \in Agents
    BY <1>16 DEF yieldFinal
  <2>2. live' \in States
    BY <1>16, <2>1, BindFacts DEF yieldFinal, Bind
  <2> QED
    BY <1>16, <2>1, <2>2 DEF yieldFinal, Ids
<1>17. CASE Wipe
  <2>1. EmptyState \in States
    BY DEF EmptyState, States, Slots, NoSlot, Ids
  <2>2. [stored EXCEPT !.sid = NoSession, !.ind = FALSE] \in States
    BY DEF States, Ids
  <2>3. stored' \in States
    BY <1>17, <2>1, <2>2 DEF Wipe
  <2> QED
    BY <1>17, <2>3 DEF Wipe
<1>18. CASE UNCHANGED vars
  BY <1>18 DEF vars
<1> QED
  BY <1>1, <1>2, <1>3, <1>4, <1>5, <1>6, <1>7, <1>8, <1>9, <1>10, <1>11, <1>12,
     <1>13, <1>14, <1>15, <1>16, <1>17, <1>18 DEF Next, Turn

-----------------------------------------------------------------------------
(* Sessions and their creators.                                            *)

\* Writing a binding to a session of the current agent keeps the record right.
LEMMA BindOwns ==
    ASSUME TypeOK, Owns(live), cur \in Agents, NEW sid \in Ids,
           NEW ind \in BOOLEAN, sid # NoSession => creator[sid] = cur,
           live' \in ownedState(cur, live, sid, ind), creator' = creator
    PROVE  Owns(live)'
<1> USE SessionBindingAssumption
<1>1. /\ live'.owner = cur /\ live'.sid = sid
      /\ live'.parked[cur] = NoSlot
      /\ \A x \in Agents \ {cur} :
            \/ live'.parked[x] = NoSlot
            \/ /\ live.owner = x /\ live.sid # NoSession
               /\ live'.parked[x] = Binding(live, x)
            \/ live'.parked[x] = live.parked[x]
  BY BindFacts
<1>2. ASSUME NEW x \in Agents, live'.parked[x].sid # NoSession
      PROVE  creator[live'.parked[x].sid] = x
  <2>1. CASE live'.parked[x] = NoSlot
    BY <1>2, <2>1 DEF NoSlot
  <2>2. CASE live.owner = x /\ live.sid # NoSession /\ live'.parked[x] = Binding(live, x)
    BY <1>2, <2>2 DEF Binding, Owns
  <2>3. CASE live'.parked[x] = live.parked[x]
    BY <1>2, <2>3 DEF Owns
  <2> QED
    BY <1>1, <2>1, <2>2, <2>3
<1> QED
  BY <1>1, <1>2 DEF Owns

\* Every step keeps each session with its creator.
LEMMA OwnNext == TypeOK /\ OwnInv /\ [Next]_vars => OwnInv'
<1> SUFFICES ASSUME TypeOK, OwnInv, [Next]_vars PROVE OwnInv'
  OBVIOUS
<1> USE SessionBindingAssumption DEF OwnInv, OwnSessionOnly, turn, Fail,
      FailAfterStop, YieldTrue, YieldFalse, EndTurn, Goto
<1>a. pc # "idle" => cur \in Agents
  BY DEF TypeOK
<1>b. creator' = creator /\ live' = live => Owns(live)'
  BY DEF Owns
<1>c. creator' = creator /\ (stored' = stored \/ (stored' = live' /\ Owns(live)'))
        => Owns(stored)'
  BY DEF Owns
<1>d. /\ remote \in Ids /\ attached \in [Agents -> Ids]
      /\ creator \in [Sessions -> Agents \cup {NoAgent}]
  BY DEF TypeOK
<1>1. ASSUME NEW a \in Agents, Start(a) PROVE OwnInv'
  BY <1>1, <1>c DEF Start, Owns
<1>2. ASSUME NEW a \in Agents, Detach(a) PROVE OwnInv'
  BY <1>2, <1>b, <1>c, <1>d DEF Detach
<1>3. CASE GiveUp
  BY <1>3, <1>b, <1>c DEF GiveUp
<1>4. CASE ensureRemoteSessionHeld
  <2> DEFINE cfg == applyForeignOwnership(cur, live)
             sid == IF cfg.sid = NoSession THEN attached[cur] ELSE cfg.sid
  <2>1. cur \in Agents /\ pc = "ensure" /\ creator' = creator
    BY <1>4, <1>a DEF ensureRemoteSessionHeld
  <2>2. sid \in Ids /\ (sid # NoSession => creator[sid] = cur)
    BY <2>1, <1>d DEF TypeOK, applyForeignOwnership, States, Slots, NoSlot, Ids, Owns
  <2>3. live' \in ownedState(cur, live, sid, FALSE) => Owns(live)'
    BY <2>1, <2>2, BindOwns
  <2> HIDE DEF sid, cfg
  <2>4. Owns(live)'
    BY <1>4, <2>1, <2>3, <1>b DEF ensureRemoteSessionHeld, Bind, sid, cfg
  <2> QED
    BY <1>4, <2>1, <2>2, <2>4, <1>c DEF ensureRemoteSessionHeld, sid, cfg
<1>5. CASE verifyExistingDesiredHeld
  <2>1. Owns(live)'
    BY <1>5, <1>a, <1>b, <1>d, BindOwns DEF verifyExistingDesiredHeld, Bind
  <2> QED
    BY <1>5, <2>1, <1>a, <1>c, <1>d DEF verifyExistingDesiredHeld
<1>6. CASE markPending
  <2>1. Owns(live)'
    BY <1>6, <1>a, <1>b, <1>d, BindOwns DEF markPending
  <2> QED
    BY <1>6, <2>1, <1>c DEF markPending
<1>7. CASE newSessionAnswered
  <2>1. PICK s \in Sessions : Created(s) /\ remote' = s
    BY <1>7 DEF newSessionAnswered
  <2>2. /\ creator[s] \in {NoAgent, cur}
        /\ \A t \in Sessions : creator'[t] = IF t = s THEN cur ELSE creator[t]
    BY <2>1, <1>d DEF Created
  <2>3. Owns(live)' /\ Owns(stored)'
    BY <1>7, <2>2, <1>a DEF newSessionAnswered, Owns, TypeOK, States, Slots, Ids
  <2>4. \A a \in Agents : attached'[a] # NoSession => creator'[attached'[a]] = a
    BY <1>7, <2>2, <1>d DEF newSessionAnswered, Ids
  <2> QED
    BY <1>7, <2>1, <2>2, <2>3, <2>4 DEF newSessionAnswered
<1>8. CASE newSessionRejected
  <2>1. Owns(live)'
    BY <1>8, <1>a, <1>b, <1>d, BindOwns DEF newSessionRejected
  <2> QED
    BY <1>8, <2>1, <1>c DEF newSessionRejected
<1>9. CASE newSessionCanceled
  <2>1. CASE \E s \in Sessions : Created(s)
    <3>1. PICK s \in Sessions : Created(s)
      BY <2>1
    <3>2. /\ creator[s] \in {NoAgent, cur}
          /\ \A t \in Sessions : creator'[t] = IF t = s THEN cur ELSE creator[t]
      BY <3>1, <1>d DEF Created
    <3>3. Owns(live)' /\ Owns(stored)'
      BY <1>9, <3>2, <1>a DEF newSessionCanceled, Owns, TypeOK, States, Slots, Ids
    <3>4. \A a \in Agents : attached'[a] # NoSession => creator'[attached'[a]] = a
      BY <1>9, <3>2, <1>d DEF newSessionCanceled, Ids
    <3> QED
      BY <1>9, <3>3, <3>4 DEF newSessionCanceled
  <2>2. CASE UNCHANGED creator
    BY <1>9, <2>2, <1>b, <1>c DEF newSessionCanceled
  <2> QED
    BY <1>9, <2>1, <2>2 DEF newSessionCanceled
<1>10. CASE recordAttachment
  <2>1. Owns(live)'
    BY <1>10, <1>a, <1>b, <1>d, BindOwns DEF recordAttachment, Bind
  <2> QED
    BY <1>10, <2>1, <1>c DEF recordAttachment
<1>11. CASE configureSession
  <2>1. Owns(live)'
    BY <1>11, <1>a, <1>b, <1>d, BindOwns DEF configureSession, Bind
  <2> QED
    BY <1>11, <2>1, <1>a, <1>c, <1>d DEF configureSession
<1>12. CASE yieldState
  <2>1. Owns(live)'
    BY <1>12, <1>a, <1>b, <1>d, BindOwns DEF yieldState, Bind
  <2> QED
    BY <1>12, <2>1, <1>c DEF yieldState
<1>13. CASE runPromptOnce
  BY <1>13, <1>b, <1>c DEF runPromptOnce
<1>14. CASE recoverRemoteSessionHeld
  <2>1. applyForeignOwnership(cur, live).sid # NoSession =>
            creator[applyForeignOwnership(cur, live).sid] = cur
    BY <1>14, <1>a DEF recoverRemoteSessionHeld, applyForeignOwnership, NoSlot, Owns
  <2> QED
    BY <1>14, <2>1, <1>b, <1>c, <1>d DEF recoverRemoteSessionHeld
<1>15. CASE resumeAnswered
  <2>1. Owns(live)'
    BY <1>15, <1>a, <1>b, <1>d, BindOwns DEF resumeAnswered, Bind
  <2> QED
    BY <1>15, <2>1, <1>c DEF resumeAnswered
<1>16. CASE yieldFinal
  <2>1. Owns(live)'
    BY <1>16, <1>a, <1>b, <1>d, BindOwns DEF yieldFinal, Bind
  <2> QED
    BY <1>16, <2>1, <1>c DEF yieldFinal
<1>17. CASE Wipe
  <2>1. CASE stored' = EmptyState
    BY <1>17, <2>1, <1>b DEF Wipe, Owns, EmptyState, NoSlot
  <2>2. CASE stored' = [stored EXCEPT !.sid = NoSession, !.ind = FALSE]
    <3>1. /\ stored'.sid = NoSession /\ stored'.parked = stored.parked
          /\ stored'.owner = stored.owner
      BY <2>2 DEF TypeOK, States
    <3>2. Owns(stored)'
      BY <1>17, <3>1 DEF Wipe, Owns
    <3> QED
      BY <1>17, <3>2, <1>b DEF Wipe
  <2> QED
    BY <1>17, <2>1, <2>2 DEF Wipe
<1>18. CASE UNCHANGED vars
  BY <1>18, <1>b, <1>c DEF vars
<1> QED
  BY <1>1, <1>2, <1>3, <1>4, <1>5, <1>6, <1>7, <1>8, <1>9, <1>10, <1>11, <1>12,
     <1>13, <1>14, <1>15, <1>16, <1>17, <1>18 DEF Next, Turn

-----------------------------------------------------------------------------
(* The stored record of a prompt.                                          *)

\* Every step keeps the prompted session on record.
LEMMA PromptNext == TypeOK /\ PromptedIsStored /\ [Next]_vars => PromptedIsStored'
<1> SUFFICES ASSUME TypeOK, PromptedIsStored, [Next]_vars PROVE PromptedIsStored'
  OBVIOUS
<1> USE DEF PromptedIsStored, turn, Fail, FailAfterStop, YieldTrue, YieldFalse,
      EndTurn, Goto
<1>1. CASE pc = "bind" /\ yieldState
  <2>1. cur \in Agents /\ remote \in Ids
    BY <1>1 DEF TypeOK
  <2>2. live'.owner = cur /\ live'.sid = remote /\ live'.ind = FALSE
    BY <1>1, <2>1, BindFacts DEF yieldState, Bind
  <2> QED
    BY <1>1, <2>2 DEF yieldState
<1>2. CASE runPromptOnce
  BY <1>2 DEF runPromptOnce
<1>3. CASE \/ recoverRemoteSessionHeld \/ resumeAnswered \/ yieldFinal
           \/ markPending \/ newSessionAnswered \/ newSessionRejected
           \/ newSessionCanceled \/ recordAttachment \/ configureSession
  BY <1>3 DEF recoverRemoteSessionHeld, resumeAnswered, yieldFinal, markPending,
     newSessionAnswered, newSessionRejected, newSessionCanceled,
     recordAttachment, configureSession
<1>4. CASE \/ ensureRemoteSessionHeld \/ verifyExistingDesiredHeld \/ GiveUp
           \/ Wipe \/ \E a \in Agents : Start(a) \/ Detach(a)
  BY <1>4 DEF ensureRemoteSessionHeld, verifyExistingDesiredHeld, GiveUp, Wipe,
     Start, Detach
<1>5. CASE UNCHANGED vars
  BY <1>5 DEF vars
<1> QED
  BY <1>1, <1>2, <1>3, <1>4, <1>5 DEF Next, Turn, yieldState

-----------------------------------------------------------------------------
(* The mark of an unrecorded session/new.                                  *)

\* A record that the current agent writes keeps the marks of the others, and
\* its own if it is in doubt and sets it.
LEMMA BindMarked ==
    ASSUME TypeOK, Owns(live), Marked(live), cur \in Agents, NEW sid \in Ids,
           NEW ind \in BOOLEAN, live' \in ownedState(cur, live, sid, ind),
           doubt' \subseteq doubt \cup {cur},
           cur \in doubt' \cap Protected => ind
    PROVE  Marked(live)'
<1>1. /\ live'.owner = cur /\ live'.ind = ind
      /\ \A x \in Agents \ {cur} :
            \/ live'.parked[x] = NoSlot
            \/ /\ live.owner = x /\ live.sid # NoSession
               /\ live'.parked[x] = Binding(live, x)
            \/ /\ live.owner # x \/ live.sid = NoSession
               /\ live'.parked[x] = live.parked[x]
  BY BindFacts
<1> SUFFICES ASSUME NEW a \in doubt' \cap Protected,
                    live'.owner = a \/ live'.parked[a] # NoSlot
             PROVE  Binding(live', a).ind
  BY DEF Marked
<1>2. CASE a = cur
  BY <1>1, <1>2 DEF Binding
<1>3. CASE a # cur
  <2>1. a \in Agents \ {cur} /\ a \in doubt \cap Protected
    BY <1>3, SessionBindingAssumption
  <2>2. live'.owner # a /\ live'.parked[a] # NoSlot
    BY <1>1, <1>3
  <2>3. CASE live.owner = a /\ live'.parked[a] = Binding(live, a)
    BY <2>1, <2>2, <2>3 DEF Marked, Binding
  <2>4. CASE live.owner # a /\ live'.parked[a] = live.parked[a]
    BY <2>1, <2>2, <2>4 DEF Marked, Binding
  <2>5. CASE live.owner = a /\ live.sid = NoSession /\ live'.parked[a] = live.parked[a]
    BY <2>1, <2>2, <2>5 DEF Owns
  <2> QED
    BY <1>1, <2>1, <2>2, <2>3, <2>4, <2>5
<1> QED
  BY <1>2, <1>3

\* Every step keeps the marks.
LEMMA DoubtNext ==
    TypeOK /\ OwnInv /\ DoubtInv /\ [Next]_vars => DoubtInv'
<1> SUFFICES ASSUME TypeOK, OwnInv, DoubtInv, [Next]_vars PROVE DoubtInv'
  OBVIOUS
<1> USE SessionBindingAssumption DEF turn, Fail, FailAfterStop, YieldTrue,
      YieldFalse, EndTurn, Goto
<1>a. /\ pc # "idle" => cur \in Agents /\ Marked(live)
      /\ Owns(live) /\ Marked(stored)
  BY DEF TypeOK, DoubtInv, OwnInv
<1>b. live' = live /\ doubt' \subseteq doubt /\ Marked(live) => Marked(live)'
  BY DEF Marked
<1>c. /\ stored' = stored /\ doubt' \subseteq doubt => Marked(stored)'
      /\ stored' = live' /\ Marked(live)' => Marked(stored)'
  BY <1>a DEF Marked
<1>d. remote \in Ids /\ attached \in [Agents -> Ids] /\ doubt \subseteq Agents
  BY DEF TypeOK
<1>1. ASSUME NEW a \in Agents, Start(a) PROVE DoubtInv'
  BY <1>1, <1>b, <1>c DEF Start, DoubtInv, Marked
<1>2. ASSUME NEW a \in Agents, Detach(a) PROVE DoubtInv'
  <2>1. /\ pc = "idle" /\ pc' = pc /\ live' = live /\ stored' = stored
        /\ doubt' = doubt /\ attached' = [attached EXCEPT ![a] = NoSession]
        /\ stopped' = stopped \/ stopped' = TRUE
    BY <1>2 DEF Detach
  <2>2. Marked(stored)' /\ (~stopped' => Marked(live)')
    BY <2>1, <1>b, <1>c DEF DoubtInv, TypeOK
  <2> QED
    BY <2>1, <2>2, <1>d DEF DoubtInv
<1>3. CASE GiveUp
  BY <1>3, <1>a, <1>b, <1>c DEF GiveUp, DoubtInv
<1>4. CASE ensureRemoteSessionHeld
  <2> DEFINE cfg == applyForeignOwnership(cur, live)
             sid == IF cfg.sid = NoSession THEN attached[cur] ELSE cfg.sid
  <2>1. cur \in Agents /\ pc = "ensure" /\ doubt' = doubt /\ attached' = attached
    BY <1>4, <1>a DEF ensureRemoteSessionHeld
  <2>2. sid \in Ids
    BY <2>1, <1>d DEF TypeOK, applyForeignOwnership, States, Slots, NoSlot, Ids
  <2>3. ~cfg.ind /\ sid # NoSession => cur \notin doubt \cap Protected
    <3> SUFFICES ASSUME ~cfg.ind, cur \in doubt \cap Protected
                 PROVE  sid = NoSession
      OBVIOUS
    <3>1. attached[cur] = NoSession
      BY DEF DoubtInv
    <3>2. CASE live.owner = cur
      BY <1>a, <2>1, <3>2 DEF Marked, applyForeignOwnership, Binding
    <3>3. CASE live.owner = NoAgent
      BY <1>a, <3>1, <3>3 DEF applyForeignOwnership, Owns
    <3>4. CASE live.owner \notin {cur, NoAgent}
      <4>1. cfg \in {NoSlot, live.parked[cur]}
        BY <3>4 DEF applyForeignOwnership
      <4>2. live.parked[cur] # NoSlot => live.parked[cur].ind
        BY <1>a, <2>1, <3>4 DEF Marked, Binding
      <4>3. cfg = NoSlot
        BY <4>1, <4>2
      <4> QED
        BY <3>1, <4>3 DEF NoSlot
    <3> QED
      BY <3>2, <3>3, <3>4
  <2>4. live' \in ownedState(cur, live, sid, FALSE) /\ ~cfg.ind /\ sid # NoSession
          => Marked(live)'
    BY <1>a, <2>1, <2>2, <2>3, BindMarked
  <2> HIDE DEF sid, cfg
  <2>5. Marked(live)'
    BY <1>4, <1>a, <1>b, <2>1, <2>4 DEF ensureRemoteSessionHeld, Bind, sid, cfg
  <2>6. CASE pc' = "idle"
    BY <1>4, <2>1, <2>5, <2>6, <1>c DEF ensureRemoteSessionHeld, DoubtInv
  <2>7. CASE pc' = "create"
    BY <1>4, <2>1, <2>5, <2>7, <1>c DEF ensureRemoteSessionHeld, DoubtInv, sid, cfg
  <2>8. CASE pc' \in {"verify", "bind"}
    BY <1>4, <2>1, <2>3, <2>5, <2>8, <1>c DEF ensureRemoteSessionHeld, DoubtInv, sid, cfg
  <2> QED
    BY <1>4, <2>6, <2>7, <2>8 DEF ensureRemoteSessionHeld
<1>5. CASE verifyExistingDesiredHeld
  <2>0. cur \notin doubt \cap Protected
    BY <1>5 DEF verifyExistingDesiredHeld, DoubtInv
  <2>1. Marked(live)'
    BY <1>5, <2>0, <1>a, <1>b, <1>d, BindMarked DEF verifyExistingDesiredHeld, Bind
  <2> QED
    BY <1>5, <2>0, <2>1, <1>a, <1>c, <1>d DEF verifyExistingDesiredHeld, DoubtInv
<1>6. CASE markPending
  <2>1. Marked(live)'
    BY <1>6, <1>a, <1>b, <1>d, BindMarked DEF markPending
  <2>2. cur \in Protected => live'.owner = cur /\ live'.ind
    BY <1>6, <1>a, <1>d, BindFacts DEF markPending
  <2> QED
    BY <1>6, <2>1, <2>2, <1>c DEF markPending, DoubtInv
<1>7. CASE newSessionAnswered
  BY <1>7, <1>a, <1>b, <1>c DEF newSessionAnswered, DoubtInv
<1>8. CASE newSessionRejected
  <2>1. Marked(live)'
    BY <1>8, <1>a, <1>b, <1>d, BindMarked DEF newSessionRejected
  <2> QED
    BY <1>8, <2>1, <1>c DEF newSessionRejected, DoubtInv
<1>9. CASE newSessionCanceled
  <2>1. Marked(live)' /\ Marked(stored)'
    BY <1>9, <1>a DEF newSessionCanceled, DoubtInv, Marked, Binding
  <2> QED
    BY <1>9, <2>1 DEF newSessionCanceled, DoubtInv
<1>10. CASE recordAttachment
  <2>0. pc = "attach" /\ cur \in Agents /\ cur \notin doubt \cap Protected
    BY <1>10, <1>a DEF recordAttachment, DoubtInv
  <2>1. CASE doubt' = doubt
    <3>1. Marked(live)'
      BY <1>10, <2>0, <2>1, <1>a, <1>b, <1>d, BindMarked DEF recordAttachment, Bind
    <3> QED
      BY <1>10, <2>0, <2>1, <3>1, <1>c DEF recordAttachment, DoubtInv
  <2>2. CASE doubt' # doubt
    <3>1. /\ doubt' = doubt \cup {cur} /\ stored' = stored
          /\ pc' = "idle" /\ attached' = attached
          /\ stopped' = TRUE \/ (live' = live /\ stopped' = stopped)
      BY <1>10, <2>2 DEF recordAttachment
    <3>2. Marked(stored)'
      BY <2>0, <3>1, <1>a DEF DoubtInv, Marked, Binding
    <3>3. stopped' = FALSE => Marked(live)'
      BY <2>0, <3>1, <1>a DEF DoubtInv, Marked, Binding
    <3> QED
      BY <2>0, <3>1, <3>2, <3>3 DEF DoubtInv, TypeOK
  <2> QED
    BY <2>1, <2>2
<1>11. CASE configureSession
  <2>0. pc = "config" /\ cur \in Agents /\ cur \notin doubt \cap Protected
    BY <1>11, <1>a DEF configureSession, DoubtInv
  <2>1. Marked(live)'
    BY <1>11, <2>0, <1>a, <1>b, <1>d, BindMarked DEF configureSession, Bind
  <2> QED
    BY <1>11, <2>0, <2>1, <1>c, <1>d DEF configureSession, DoubtInv
<1>12. CASE yieldState
  <2>0. pc = "bind" /\ cur \in Agents /\ cur \notin doubt \cap Protected
    BY <1>12, <1>a DEF yieldState, DoubtInv
  <2>1. Marked(live)'
    BY <1>12, <2>0, <1>a, <1>d, BindMarked DEF yieldState, Bind
  <2> QED
    BY <1>12, <2>0, <2>1, <1>c DEF yieldState, DoubtInv
<1>13. CASE runPromptOnce
  BY <1>13, <1>a, <1>b, <1>c DEF runPromptOnce, DoubtInv
<1>14. CASE recoverRemoteSessionHeld
  BY <1>14, <1>a, <1>b, <1>c, <1>d DEF recoverRemoteSessionHeld, DoubtInv
<1>15. CASE resumeAnswered
  <2>0. pc = "resume" /\ cur \in Agents /\ cur \notin doubt \cap Protected
    BY <1>15, <1>a DEF resumeAnswered, DoubtInv
  <2>1. Marked(live)'
    BY <1>15, <2>0, <1>a, <1>b, <1>d, BindMarked DEF resumeAnswered, Bind
  <2> QED
    BY <1>15, <2>0, <2>1, <1>c DEF resumeAnswered, DoubtInv
<1>16. CASE yieldFinal
  <2>0. pc = "final" /\ cur \in Agents /\ cur \notin doubt \cap Protected
    BY <1>16, <1>a DEF yieldFinal, DoubtInv
  <2>1. Marked(live)'
    BY <1>16, <2>0, <1>a, <1>d, BindMarked DEF yieldFinal, Bind
  <2> QED
    BY <1>16, <2>0, <2>1, <1>c DEF yieldFinal, DoubtInv
<1>17. CASE Wipe
  BY <1>17 DEF Wipe, DoubtInv, Marked
<1>18. CASE UNCHANGED vars
  BY <1>18, <1>b, <1>c DEF vars, DoubtInv
<1> QED
  BY <1>1, <1>2, <1>3, <1>4, <1>5, <1>6, <1>7, <1>8, <1>9, <1>10, <1>11, <1>12,
     <1>13, <1>14, <1>15, <1>16, <1>17, <1>18 DEF Next, Turn

-----------------------------------------------------------------------------
(* The theorems.                                                           *)

\* The invariant is inductive.
LEMMA Invariant == Spec => []IInv
<1>1. Init => IInv
  BY InvInit
<1>2. IInv /\ [Next]_vars => IInv'
  BY TypeNext, OwnNext, PromptNext, DoubtNext DEF IInv
<1> QED
  BY <1>1, <1>2, PTL DEF Spec

\* Every variable of a turn keeps its type, and a turn has a remote session in
\* hand wherever run and its helpers use one.
THEOREM TypeCorrect == Spec => []TypeOK
<1>1. IInv => TypeOK
  BY DEF IInv
<1> QED
  BY <1>1, Invariant, PTL

\* For any number of agents sharing an ADK session, a turn only resumes,
\* configures and prompts sessions that its own agent created.
THEOREM AgentsUseTheirOwn == Spec => []OwnSessionOnly
<1>1. IInv => OwnSessionOnly
  BY DEF IInv, OwnInv
<1> QED
  BY <1>1, Invariant, PTL

\* When a prompt is sent the session service already has its binding.
THEOREM PromptOnRecord == Spec => []PromptedIsStored
<1>1. IInv => PromptedIsStored
  BY DEF IInv
<1> QED
  BY <1>1, Invariant, PTL

\* A session/new whose outcome was not recorded stays marked in the stored
\* record, through takeovers, lost events and reloads.
THEOREM DoubtStaysOnRecord == Spec => []DoubtOnRecord
<1>1. IInv => DoubtOnRecord
  BY DEF IInv, DoubtInv, Marked, DoubtOnRecord
<1> QED
  BY <1>1, Invariant, PTL

\* A step of a turn either leaves the two copies of the record alone or writes
\* a record of the current agent.
LEMMA TurnWrites ==
    ASSUME TypeOK, Next, pc # "idle"
    PROVE  /\ \/ live' = live
              \/ \E sid \in Ids, ind \in BOOLEAN :
                    live' \in ownedState(cur, live, sid, ind)
           /\ stored' \in {stored, live'}
<1> USE DEF Fail, FailAfterStop, YieldTrue, YieldFalse, Goto, Bind
<1>a. remote \in Ids /\ TRUE \in BOOLEAN /\ FALSE \in BOOLEAN
  BY DEF TypeOK
<1>1. CASE ensureRemoteSessionHeld
  <2> DEFINE cfg == applyForeignOwnership(cur, live)
             sid == IF cfg.sid = NoSession THEN attached[cur] ELSE cfg.sid
  <2>1. sid \in Ids
    BY SessionBindingAssumption DEF TypeOK, applyForeignOwnership, States, Slots,
       NoSlot, Ids
  <2> HIDE DEF sid, cfg
  <2>2. live' = live \/ live' \in ownedState(cur, live, sid, FALSE)
    BY <1>1 DEF ensureRemoteSessionHeld, sid, cfg
  <2>3. stored' = stored
    BY <1>1 DEF ensureRemoteSessionHeld
  <2> QED
    BY <2>1, <2>2, <2>3
<1>2. CASE \/ verifyExistingDesiredHeld \/ markPending \/ newSessionRejected
           \/ recordAttachment \/ configureSession \/ yieldState
           \/ resumeAnswered \/ yieldFinal
  BY <1>2, <1>a DEF verifyExistingDesiredHeld, markPending, newSessionRejected,
     recordAttachment, configureSession, yieldState, resumeAnswered, yieldFinal
<1>3. CASE \/ GiveUp \/ newSessionAnswered \/ newSessionCanceled
           \/ runPromptOnce \/ recoverRemoteSessionHeld
  BY <1>3 DEF GiveUp, newSessionAnswered, newSessionCanceled, runPromptOnce,
     recoverRemoteSessionHeld
<1>4. ~Wipe /\ \A a \in Agents : ~Start(a) /\ ~Detach(a)
  BY DEF Wipe, Start, Detach
<1> QED
  BY <1>1, <1>2, <1>3, <1>4 DEF Next, Turn

\* No turn loses the named session of another agent, nor its mark, except
\* from full parked slots.
THEOREM TurnsKeepForeignRecords == Spec => ForeignRecordKept
<1>1. ASSUME TypeOK, [Next]_vars, pc # "idle", NEW a \in Agents \ {cur}
      PROVE  Kept(live, live', a) /\ (stored' # stored => Kept(live, stored', a))
  <2>1. CASE UNCHANGED vars
    BY <2>1 DEF vars, Kept
  <2>2. CASE Next
    <3>1. cur \in Agents
      BY <1>1 DEF TypeOK
    <3>2. /\ \/ live' = live
             \/ \E sid \in Ids, ind \in BOOLEAN :
                   live' \in ownedState(cur, live, sid, ind)
          /\ stored' \in {stored, live'}
      BY <1>1, <2>2, TurnWrites
    <3>3. Kept(live, live', a)
      <4>1. CASE live' = live
        BY <4>1 DEF Kept
      <4>2. CASE \E sid \in Ids, ind \in BOOLEAN :
                     live' \in ownedState(cur, live, sid, ind)
        BY <1>1, <3>1, <4>2, BindFacts
      <4> QED
        BY <3>2, <4>1, <4>2
    <3> QED
      BY <3>2, <3>3
  <2> QED
    BY <1>1, <2>1, <2>2
<1>2. TypeOK /\ [Next]_vars =>
        [pc # "idle" =>
          \A a \in Agents \ {cur} :
              /\ Kept(live, live', a)
              /\ stored' # stored => Kept(live, stored', a)]_vars
  BY <1>1
<1> QED
  BY <1>2, TypeCorrect, PTL DEF Spec, ForeignRecordKept
=============================================================================
