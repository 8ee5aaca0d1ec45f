--------------------------- MODULE SessionBinding ---------------------------
(***************************************************************************)
(* Which remote ACP session an ADK session is bound to: a turn of an Agent *)
(* (run in agent.go), the binding, creation and recovery of the remote     *)
(* session (session.go) and the ownership record several agents share      *)
(* (session_owner.go).                                                     *)
(*                                                                         *)
(* One ADK session, several agents that take turns on it, as in a failover *)
(* pool.  The record under state["acp_session"] exists twice: the copy of  *)
(* the running invocation (live), which State().Set changes at once, and   *)
(* the copy of the session service (stored), which only an event that the  *)
(* runner appends changes.  The backends are external and answer as they   *)
(* like: a backend may lose a session, find it again, or fail.             *)
(***************************************************************************)
EXTENDS Naturals, FiniteSets

CONSTANTS
    Agents,     \* owner identities that share the ADK session
    NoAgent,    \* no owner: the empty string
    Sessions,   \* remote session ids a backend may hand out
    NoSession,  \* the empty session id
    Protected,  \* agents with protectAttachments
    Desired,    \* agents with a desired model
    Resumers,   \* agents whose backend supports session/resume
    MaxParked,  \* maxParkedSessions
    MaxWipes    \* bound: resets and deletions of the ADK session

ASSUME SessionBindingAssumption ==
    /\ NoAgent \notin Agents
    /\ NoSession \notin Sessions
    /\ Protected \subseteq Agents /\ Desired \subseteq Agents
    /\ Resumers \subseteq Agents
    /\ MaxParked \in Nat /\ MaxWipes \in Nat

VARIABLES
    stored,    \* the record as the session service has it
    live,      \* the record as the running invocation has it
    attached,  \* modelRegistryEntry.attachmentID of each agent
    pc,        \* where the turn is
    cur,       \* the agent whose turn it is
    remote,    \* the remote session the turn has in hand
    again,     \* the turn is past its one recovery
    stopped,   \* the consumer ended the iteration: the invocation is over
    creator,   \* the agent whose session/new created a session
    wipes,     \* resets and deletions so far
    doubt,     \* history: agents whose last session/new went unrecorded
    buried,    \* history: sessions created before the last wipe
    late       \* history: yield was called after it had returned false

turn == <<pc, cur, remote, again>>
vars == <<stored, live, attached, turn, stopped, creator, wipes, doubt, buried,
          late>>

-----------------------------------------------------------------------------
(* The record.                                                             *)

Ids == Sessions \cup {NoSession}
Slots == [sid : Ids, ind : BOOLEAN]
NoSlot == [sid |-> NoSession, ind |-> FALSE]
States == [owner : Agents \cup {NoAgent}, sid : Ids, ind : BOOLEAN,
           parked : [Agents -> Slots]]

EmptyState == [owner |-> NoAgent, sid |-> NoSession, ind |-> FALSE,
               parked |-> [a \in Agents |-> NoSlot]]

\* Mutant: the session id is read whoever wrote it.
anyOwnership(a, st) == [sid |-> st.sid, ind |-> st.ind]

\* What agent a reads from the record st: its own binding, or, when another
\* agent owns the record, the slot parked for it unless the id was cleared.
applyForeignOwnership(a, st) ==
    IF st.owner \in {a, NoAgent} THEN [sid |-> st.sid, ind |-> st.ind]
    ELSE IF st.sid = NoSession THEN NoSlot
    ELSE st.parked[a]

\* Mutant: the slots are carried forward, the session being replaced is not.
carrySlotsOnly(a, st) ==
    [x \in Agents |-> IF x = a THEN NoSlot ELSE st.parked[x]]

\* The parked slots a writes: the ones in st, the session of another owner,
\* never its own.
carryParked(a, st) ==
    [x \in Agents |->
        IF x = a THEN NoSlot
        ELSE IF x = st.owner /\ st.sid # NoSession
             THEN [sid |-> st.sid, ind |-> st.ind]
        ELSE st.parked[x]]

Occupied(p) == {x \in Agents : p[x].sid # NoSession}

\* Slots beyond the limit are dropped.  Which ones is left open: the code
\* compares formatted time stamps, whose order is not always the order in time.
dropOldestParked(p) ==
    IF Cardinality(Occupied(p)) <= MaxParked THEN {p}
    ELSE {[x \in Agents |-> IF x \in kept THEN p[x] ELSE NoSlot] :
             kept \in {k \in SUBSET Occupied(p) : Cardinality(k) = MaxParked}}

\* The records a may write over st to bind the session sid.
ownedState(a, st, sid, ind) ==
    {[owner |-> a, sid |-> sid, ind |-> ind, parked |-> p] :
        p \in dropOldestParked(carryParked(a, st))}

-----------------------------------------------------------------------------
Pcs == {"idle", "ensure", "verify", "create", "new", "attach", "config",
        "bind", "prompt", "recover", "resume", "final"}

TypeOK ==
    /\ stored \in States /\ live \in States
    /\ attached \in [Agents -> Ids]
    /\ pc \in Pcs
    /\ cur \in Agents \cup {NoAgent}
    /\ (cur = NoAgent) = (pc = "idle")
    /\ remote \in Ids
    /\ pc \in {"verify", "attach", "config", "bind", "prompt", "resume",
               "final"} => remote # NoSession
    /\ again \in BOOLEAN /\ stopped \in BOOLEAN /\ late \in BOOLEAN
    /\ creator \in [Sessions -> Agents \cup {NoAgent}]
    /\ wipes \in Nat
    /\ doubt \in SUBSET Agents
    /\ buried \in SUBSET Sessions

Init ==
    /\ stored = EmptyState /\ live = EmptyState
    /\ attached = [a \in Agents |-> NoSession]
    /\ pc = "idle" /\ cur = NoAgent /\ remote = NoSession /\ again = FALSE
    /\ stopped = TRUE
    /\ creator = [s \in Sessions |-> NoAgent]
    /\ wipes = 0
    /\ doubt = {} /\ buried = {} /\ late = FALSE

-----------------------------------------------------------------------------
(* How a turn goes on and ends.                                            *)

Goto(label) == pc' = label /\ UNCHANGED cur

EndTurn == pc' = "idle" /\ cur' = NoAgent /\ remote' = NoSession /\ again' = FALSE

\* The event that carries the record st goes to the runner, which appends it
\* to the stored session and passes it on.  yield returns false when the
\* consumer is done, or when the event could not be appended.
YieldTrue(st) == stored' = st /\ UNCHANGED <<stopped, late>>

YieldFalse(st) == stored' \in {stored, st} /\ stopped' = TRUE

\* The turn fails: run yields the error, without a record, and returns.
Fail == EndTurn /\ UNCHANGED <<stored, stopped, late>>

\* An error of persistAttachmentOutcome after yield returned false is yielded
\* by run like any other.
FailAfterStop(st) == YieldFalse(st) /\ EndTurn /\ late' = TRUE

\* A turn of agent a begins, in a new invocation, which reads the stored
\* record, or in the same one, after another agent of the pool has failed.
Start(a) ==
    /\ pc = "idle"
    /\ cur' = a /\ pc' = "ensure"
    /\ \/ live' = stored
       \/ ~stopped /\ live' = live
    /\ stopped' = FALSE
    /\ UNCHANGED <<stored, attached, remote, again, creator, wipes, doubt,
                   buried, late>>

\* An error before anything of the step has taken effect: initialization, the
\* prompt's conversion, the working directory, State().Set, a setup context
\* that has run out, a session slot in use, a resume or a prompt that failed.
GiveUp ==
    /\ pc \in {"ensure", "verify", "create", "prompt", "recover", "resume"}
    /\ Fail
    /\ UNCHANGED <<live, attached, creator, wipes, doubt, buried>>

-----------------------------------------------------------------------------
(* ensureRemoteSessionHeld.                                                *)

Bind(sid) == live' \in ownedState(cur, live, sid, FALSE)

\* Mutant: an empty id with no attachment is taken for a binding.
ensureBound ==
    /\ pc = "ensure"
    /\ LET cfg == applyForeignOwnership(cur, live)
           sid == IF cfg.sid = NoSession THEN attached[cur] ELSE cfg.sid
       IN \/ cfg.ind /\ Fail /\ UNCHANGED live
          \/ /\ ~cfg.ind
             /\ Bind(sid)
             /\ remote' = sid
             /\ Goto(IF cur \in Desired THEN "verify" ELSE "bind")
             /\ UNCHANGED <<stored, again, stopped, late>>
    /\ UNCHANGED <<attached, creator, wipes, doubt, buried>>

ensureRemoteSessionHeld ==
    /\ pc = "ensure"
    /\ LET cfg == applyForeignOwnership(cur, live)
           sid == IF cfg.sid = NoSession THEN attached[cur] ELSE cfg.sid
       IN \/ cfg.ind /\ Fail /\ UNCHANGED live
          \/ /\ ~cfg.ind /\ sid # NoSession
             /\ Bind(sid)
             /\ remote' = sid
             /\ Goto(IF cur \in Desired THEN "verify" ELSE "bind")
             /\ UNCHANGED <<stored, again, stopped, late>>
          \/ /\ ~cfg.ind /\ sid = NoSession
             /\ Goto("create")
             /\ UNCHANGED <<stored, live, remote, again, stopped, late>>
    /\ UNCHANGED <<attached, creator, wipes, doubt, buried>>

\* verifyExistingDesiredHeld: resume the session to observe its model.
verifyExistingDesiredHeld ==
    /\ pc = "verify" /\ cur \in Resumers
    /\ \/ /\ attached' = [attached EXCEPT ![cur] = remote]   \* resumed
          /\ \/ /\ Bind(remote) /\ Goto("bind")
                /\ UNCHANGED <<stored, remote, again, stopped, late>>
             \/ Fail /\ UNCHANGED live   \* the desired model was not confirmed
       \/ /\ attached' = [attached EXCEPT ![cur] = NoSession] \* unknown session
          /\ Fail
          /\ UNCHANGED live
    /\ UNCHANGED <<creator, wipes, doubt, buried>>

-----------------------------------------------------------------------------
(* createRemoteSession.                                                    *)

\* Mutant: the mark is set in the invocation's copy and not yielded.
markPendingLive ==
    /\ pc = "create"
    /\ IF cur \in Protected
         THEN live' \in ownedState(cur, live, remote, TRUE)
         ELSE UNCHANGED live
    /\ Goto("new")
    /\ UNCHANGED <<stored, remote, again, stopped, late>>
    /\ UNCHANGED <<attached, creator, wipes, doubt, buried>>

\* The pending outcome is put on record before session/new is sent.  remote
\* is empty, or the stale session that a recovery replaces.
markPending ==
    /\ pc = "create"
    /\ \/ /\ cur \in Protected
          /\ live' \in ownedState(cur, live, remote, TRUE)
          /\ \/ YieldTrue(live') /\ Goto("new") /\ UNCHANGED <<remote, again>>
             \/ FailAfterStop(live')
       \/ /\ cur \notin Protected
          /\ Goto("new")
          /\ UNCHANGED <<stored, live, remote, again, stopped, late>>
    /\ UNCHANGED <<attached, creator, wipes, doubt, buried>>

\* The backend creates the session s for the current agent, under a new id or
\* under one of its own that it has lost.
Created(s) ==
    /\ creator[s] \in {NoAgent, cur}
    /\ creator' = [creator EXCEPT ![s] = cur]
    /\ buried' = buried \ {s}

newSessionAnswered ==
    /\ pc = "new"
    /\ \E s \in Sessions : Created(s) /\ remote' = s
    /\ Goto("attach")
    /\ doubt' = doubt \ {cur}
    /\ UNCHANGED <<stored, live, attached, again, stopped, wipes, late>>

\* An error while the setup context is live: the mark is taken back, unless
\* State().Set fails.
newSessionRejected ==
    /\ pc = "new"
    /\ \/ /\ cur \in Protected
          /\ live' \in ownedState(cur, live, remote, FALSE)
          /\ \/ YieldTrue(live') /\ EndTurn
             \/ FailAfterStop(live')
       \/ Fail /\ UNCHANGED live
    /\ doubt' = doubt \ {cur}
    /\ UNCHANGED <<attached, creator, wipes, buried>>

\* The setup context is done: nobody knows whether a session was created.
newSessionCanceled ==
    /\ pc = "new"
    /\ \/ \E s \in Sessions : Created(s)
       \/ UNCHANGED <<creator, buried>>
    /\ Fail
    /\ doubt' = doubt \cup {cur}
    /\ UNCHANGED <<live, attached, wipes>>

\* The new id is put on record, after the slot of the session is taken.
recordAttachment ==
    /\ pc = "attach"
    /\ \/ /\ Fail                        \* no slot, or State().Set failed
          /\ doubt' = doubt \cup {cur}
          /\ UNCHANGED live
       \/ /\ cur \in Protected
          /\ Bind(remote)
          /\ \/ YieldTrue(live') /\ Goto("config") /\ UNCHANGED <<remote, again>>
             \/ FailAfterStop(live')
          /\ doubt' = IF stored' = live' THEN doubt ELSE doubt \cup {cur}
       \/ /\ cur \notin Protected
          /\ Goto("config")
          /\ UNCHANGED <<stored, live, remote, again, stopped, doubt, late>>
    /\ UNCHANGED <<attached, creator, wipes, buried>>

\* The new or resumed session is configured and becomes the attachment of the
\* agent.  A configuration error is reported as the final event of the turn.
configureSession ==
    /\ pc = "config"
    /\ attached' = [attached EXCEPT ![cur] = remote]
    /\ \/ Fail /\ UNCHANGED live    \* no desired model, or State().Set failed
       \/ /\ Bind(remote)
          /\ \/ /\ Goto("bind")
                /\ UNCHANGED <<stored, remote, again, stopped, late>>
             \/ Fail                                         \* canceled
             \/ YieldTrue(live') /\ EndTurn         \* yieldSessionConfigError
             \/ YieldFalse(live') /\ EndTurn /\ UNCHANGED late
    /\ UNCHANGED <<creator, wipes, doubt, buried>>

-----------------------------------------------------------------------------
(* The rest of the turn.                                                   *)

\* Mutant: the result of yield is ignored.
yieldStateUnchecked ==
    /\ pc = "bind"
    /\ Bind(remote)
    /\ Goto("prompt")
    /\ \/ YieldTrue(live')
       \/ YieldFalse(live') /\ UNCHANGED late
    /\ UNCHANGED <<remote, again>>
    /\ UNCHANGED <<attached, creator, wipes, doubt, buried>>

\* The binding is yielded before the prompt is sent.
yieldState ==
    /\ pc = "bind"
    /\ Bind(remote)
    /\ \/ YieldTrue(live') /\ Goto("prompt") /\ UNCHANGED <<remote, again>>
       \/ YieldFalse(live') /\ EndTurn /\ UNCHANGED late
    /\ UNCHANGED <<attached, creator, wipes, doubt, buried>>

\* runPromptOnce.  A prompt that the backend answers with a session-not-found
\* error is tried once more, after a recovery.
runPromptOnce ==
    /\ pc = "prompt"
    /\ \/ /\ Goto("final")
          /\ UNCHANGED <<stored, remote, again, stopped, late>>
       \/ /\ ~again                                     \* session not found
          /\ Goto("recover")
          /\ UNCHANGED <<stored, remote, again, stopped, late>>
       \/ /\ EndTurn                                    \* consumerStopped
          /\ stopped' = TRUE
          /\ UNCHANGED <<stored, late>>
    /\ UNCHANGED <<live, attached, creator, wipes, doubt, buried>>

\* recoverRemoteSessionHeld, up to session/resume.
recoverRemoteSessionHeld ==
    /\ pc = "recover"
    /\ attached' = [attached EXCEPT ![cur] = NoSession]
    /\ LET cfg == applyForeignOwnership(cur, live)
       IN /\ remote' = cfg.sid
          /\ Goto(IF cfg.sid # NoSession /\ cur \in Resumers
                  THEN "resume" ELSE "create")
    /\ again' = TRUE
    /\ UNCHANGED <<stored, live, stopped, creator, wipes, doubt, buried, late>>

\* The answer to the session/resume of a recovery.
resumeAnswered ==
    /\ pc = "resume"
    /\ \/ /\ Goto("config")                                 \* resumed
          /\ UNCHANGED <<stored, live, remote, again, stopped, late>>
       \/ /\ Bind(remote)                                   \* already exists
          /\ \/ /\ cur \notin Desired
                /\ Goto("bind")
                /\ UNCHANGED <<stored, remote, again, stopped, late>>
             \/ cur \in Desired /\ Fail      \* the slot is the turn's own
       \/ /\ Goto("create")                                 \* unknown session
          /\ UNCHANGED <<stored, live, remote, again, stopped, late>>
    /\ UNCHANGED <<attached, creator, wipes, doubt, buried>>

\* The final event of the turn carries the binding once more.
yieldFinal ==
    /\ pc = "final"
    /\ Bind(remote)
    /\ EndTurn
    /\ \/ YieldTrue(live')
       \/ YieldFalse(live') /\ UNCHANGED late
    /\ UNCHANGED <<attached, creator, wipes, doubt, buried>>

-----------------------------------------------------------------------------
(* Between turns.                                                          *)

\* The application clears the session id and the mark, or deletes the ADK
\* session and creates it anew.
Wipe ==
    /\ pc = "idle" /\ wipes < MaxWipes
    /\ stored' \in {[stored EXCEPT !.sid = NoSession, !.ind = FALSE], EmptyState}
    /\ stopped' = TRUE
    /\ wipes' = wipes + 1
    /\ doubt' = {}
    /\ buried' = {s \in Sessions : creator[s] # NoAgent}
    /\ UNCHANGED <<live, attached, turn, creator, late>>

\* The registry evicts the entry of the idle ADK session, or the agent is
\* closed and constructed again with the same identity.
Detach(a) ==
    /\ pc = "idle" /\ attached[a] # NoSession
    /\ attached' = [attached EXCEPT ![a] = NoSession]
    /\ stopped' \in {stopped, TRUE}
    /\ UNCHANGED <<stored, live, turn, creator, wipes, doubt, buried, late>>

Turn ==
    \/ GiveUp
    \/ ensureRemoteSessionHeld \/ verifyExistingDesiredHeld
    \/ markPending \/ newSessionAnswered \/ newSessionRejected
    \/ newSessionCanceled \/ recordAttachment \/ configureSession
    \/ yieldState \/ runPromptOnce
    \/ recoverRemoteSessionHeld \/ resumeAnswered
    \/ yieldFinal

Next ==
    \/ \E a \in Agents : Start(a) \/ Detach(a)
    \/ Turn
    \/ Wipe

Spec == Init /\ [][Next]_vars
-----------------------------------------------------------------------------
(* Properties.                                                             *)

\* What the record st says of agent a, whoever owns st.
Binding(st, a) ==
    IF st.owner = a THEN [sid |-> st.sid, ind |-> st.ind] ELSE st.parked[a]

\* "An agent never resumes a session id that another agent created"
\* (session.go:80): the session that a turn resumes, configures or prompts was
\* created by the agent whose turn it is, through every sequence of takeovers,
\* parked slots, resets, attachments kept in memory and events that were lost.
OwnSessionOnly == remote # NoSession => creator[remote] = cur

\* When session/prompt is sent the session service already names its session,
\* with the right owner and no pending mark: whatever cuts the turn short from
\* here, the conversation is found again (the state event in run, agent.go).
PromptedIsStored ==
    pc \in {"prompt", "recover", "final"} =>
        /\ stored.owner = cur
        /\ stored.sid = remote
        /\ ~stored.ind

\* A session/new whose outcome was not recorded stays marked in the stored
\* record, under its owner or in its parked slot, for as long as the record has
\* an entry for the agent, so that a reload refuses to attach again
\* (TestLazyIndeterminateAttachmentSurvivesRunnerReload).
DoubtOnRecord ==
    \A a \in doubt \cap Protected :
        stored.owner = a \/ stored.parked[a] # NoSlot => Binding(stored, a).ind

\* The entry of agent a survives the step from old to new, or is dropped
\* because the parked slots are full.
Kept(old, new, a) ==
    Binding(old, a).sid # NoSession =>
        \/ Binding(new, a) = Binding(old, a)
        \/ /\ new.owner # a /\ new.parked[a] = NoSlot
           /\ Cardinality(Occupied(new.parked)) = MaxParked

\* A turn never loses the named session of another agent, nor its mark: the
\* entry it found stays as it is, owned or parked, in the invocation's copy and
\* in whatever the turn puts on record, unless it is dropped because the parked
\* slots are full (ownedState and stampOwnership, session_owner.go).
ForeignRecordKept ==
    [][pc # "idle" =>
          \A a \in Agents \ {cur} :
              /\ Kept(live, live', a)
              /\ stored' # stored => Kept(live, stored', a)]_vars

-----------------------------------------------------------------------------
(* What the documentation says and the code does not do.                   *)

\* "a canceled session/new may have created a remote session. Reset the ADK
\* session before attaching again" (session.go:38): a protected agent in doubt
\* sends no session/new.
NoSecondAttach == pc = "new" /\ cur \in Protected => cur \notin doubt

\* "If the ADK session is deleted, this state is deleted with it and no
\* in-memory ACP session binding is reused" (session.go:86): no turn uses a
\* session created before the last wipe.
WipedStaysGone == remote \notin buried

\* Once the consumer has ended the iteration, run yields nothing more
\* (TestAgentStopsAfterConsumerEndsIteration; a range loop panics otherwise).
NothingAfterStop == ~late
=============================================================================
