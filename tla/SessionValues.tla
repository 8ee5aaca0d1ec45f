---------------------------- MODULE SessionValues ---------------------------
(***************************************************************************)
(* The configuration values of the ACP session behind one ADK session,     *)
(* turn after turn: what the adapter applies to a session it creates or    *)
(* resumes, what it writes into the record (SessionStateKey), and what is  *)
(* in force when a prompt is sent (agent.go, session.go, client.go).       *)
(*                                                                         *)
(* One agent at a time runs the turns; restart replaces it by one with     *)
(* another configuration.  Who owns the session, and how much of a failed  *)
(* turn reaches the store, is the subject of SessionBinding: here the      *)
(* record names a session or does not, and an event that is not consumed   *)
(* may or may not be stored.  The backend is free: it answers a request    *)
(* with any listing, applies, refuses or loses it, and changes options on  *)
(* its own.  The instructions are the subject of TurnOutput.               *)
(***************************************************************************)
EXTENDS ConfigValues

CONSTANTS
    Configs,   \* the configurations an agent may be started with
    Answers,   \* the listings the backend may report
    Seeds      \* the values a record without a session may hold

ASSUME SessionValuesAssumption ==
    /\ Configs \subseteq [values : Maps, desired : BOOLEAN,
                          resumes : BOOLEAN, protects : BOOLEAN,
                          deadline : BOOLEAN]
    /\ \A c \in Configs : c.deadline => c.protects
    /\ Answers \subseteq Listings
    /\ Seeds \subseteq Maps

VARIABLES
    config,  \* the configuration of the running agent
    rec,     \* the record: does it name a session, and config_values
    sess,    \* the remote session of this turn, or of the last
    kept,    \* the recorded session while a new one is not on record
    pc,      \* where the turn is
    turn     \* the local state of the turn

vars == <<config, rec, sess, kept, pc, turn>>

\* A session: what the backend has set, whether it knows the session ("live"),
\* has it in its store ("stored") or has forgotten it ("gone"); whether the
\* registry attaches it although the turn that created it did not record it;
\* and history: the options the backend moved on its own since the adapter
\* last set the session up, the persisted values the adapter skipped, whether
\* the last turn that set it up ended before the prompt, and whether the agent
\* was configured anew since.
Sessions == [now : Listings, state : {"live", "stored", "gone"},
             attached : BOOLEAN, moved : SUBSET Ids, skipped : SUBSET Ids,
             torn : BOOLEAN, changed : BOOLEAN]
NewSession(l) == [now |-> l, state |-> "live", attached |-> FALSE, moved |-> {},
                  skipped |-> {}, torn |-> FALSE, changed |-> FALSE]
NoSession == [NewSession([opts |-> Empty, mode |-> NoModes])
                EXCEPT !.state = "gone"]

Turns == [how : {"existing", "new", "resumed"}, cur : Listings, todo : Maps,
          base : Maps, values : Maps, control : SUBSET ModelIds,
          bound : BOOLEAN, failed : BOOLEAN, again : BOOLEAN]
NoTurn == [how |-> "existing", cur |-> NoSession.now, todo |-> Empty,
           base |-> Empty, values |-> Empty, control |-> {},
           bound |-> TRUE, failed |-> FALSE, again |-> FALSE]

Init ==
    /\ config \in Configs
    /\ rec \in [named : {FALSE}, values : Seeds]
    /\ sess = NoSession /\ kept = NoSession
    /\ pc = "idle" /\ turn = NoTurn

\* The value of an option that a listing reports; Blank if it reports none.
current(l, id) ==
    LET vs == collectSessionConfigValues(l)
    IN  IF id \in DOMAIN vs THEN vs[id] ELSE Blank

\* The options whose entry, or whose legacy mode, is another.
entry(l, id) == IF id \in DOMAIN l.opts THEN l.opts[id] ELSE Blank
changes(l, m) ==
    {id \in Ids : \/ entry(l, id) # entry(m, id)
                  \/ id = ModeId /\ l.mode # m.mode}

\* The backend went from one listing to another, asked to set id; ok when it
\* did what it was asked.
Asked(s, l, id, ok) ==
    [s EXCEPT !.now = l,
              !.moved = IF ok THEN (s.moved \cup changes(s.now, l)) \ {id}
                        ELSE s.moved \cup changes(s.now, l) \cup {id}]
\* The backend did so unasked.
Moved(s, l) == [s EXCEPT !.now = l, !.moved = s.moved \cup changes(s.now, l)]

\* The turn is over, with s the session that the next one finds, if any.
End(s) == pc' = "idle" /\ turn' = NoTurn /\ kept' = NoSession /\ sess' = s

\* The turn ends before its prompt was sent.  A session on record (turn.bound)
\* stays as far as it was set up.  So does one that is not, but that the
\* registry attaches (applyDesiredModelHeld), when the record names no other;
\* else it is lost.
Torn(s) == [s EXCEPT !.torn = @ \/ turn.how # "existing"]
Abandon(s) ==
    \/ turn.bound /\ End(Torn(s))
    \/ /\ ~turn.bound /\ ~rec.named /\ pc \in {"model", "bind"}
       /\ End([Torn(s) EXCEPT !.attached = TRUE])
    \/ ~turn.bound /\ (rec.named \/ pc \notin {"model", "bind"}) /\ End(kept)

-----------------------------------------------------------------------------
(* Binding a session.                                                      *)

\* The turn finds a session: by the record, or by the registry.
found == rec.named \/ sess.attached

\* run, ensureRemoteSessionHeld: a session that is found is used as it is,
\* unless a desired model has to be verified.
startTurn ==
    /\ pc = "idle"
    /\ turn' = [NoTurn EXCEPT !.base = rec.values, !.values = rec.values]
    /\ pc' = IF ~found THEN "new" ELSE IF config.desired THEN "verify"
             ELSE IF rec.named THEN "prompt" ELSE "bind"
    /\ UNCHANGED <<config, rec, sess, kept>>

\* What session/resume reports: a session that was unloaded may have lost
\* what it was set to.
resumed == IF sess.state = "live" THEN {sess.now} ELSE Answers

\* verifyExistingDesiredHeld: the session is resumed for its descriptor, and
\* the model options the answer names leave the values.  Nothing else of the
\* configuration is applied.
verifyExistingDesiredHeld ==
    /\ pc = "verify"
    /\ \/ /\ config.resumes /\ sess.state # "gone"
          /\ \E l \in resumed :
                /\ sess' = [Moved(sess, l) EXCEPT !.state = "live"]
                /\ turn' = [turn EXCEPT !.cur = l,
                              !.values = withoutModelConfigOptions(@, l.opts)]
          /\ pc' = "model" /\ UNCHANGED <<rec, kept>>
       \/ Abandon(sess) /\ UNCHANGED rec
       \/ Abandon([sess EXCEPT !.attached = FALSE])      \* unknown session
          /\ UNCHANGED rec
    /\ UNCHANGED config

\* Mutant: only the configured values are applied to a new session.
createConfiguredOnly(vs) == normalizeSessionConfigValues(config.values)
valuesToApply(vs) == mergeSessionConfigValues(vs, config.values)

\* createRemoteSession up to the configuration.  An agent that protects its
\* attachments records the new session at once, with the values it found.
newSession ==
    /\ pc = "new"
    /\ \/ \E l \in Answers :
            /\ sess' = NewSession(l) /\ kept' = sess
            /\ turn' = [turn EXCEPT !.how = "new", !.cur = l,
                          !.todo = valuesToApply(turn.base),
                          !.bound = config.protects]
            /\ rec' = IF config.protects
                      THEN [named |-> TRUE,
                            values |-> normalizeSessionConfigValues(turn.base)]
                      ELSE rec
            /\ pc' = "config"
       \/ Abandon(sess) /\ UNCHANGED rec
    /\ UNCHANGED config

-----------------------------------------------------------------------------
(* applySessionConfigRequiredWithOptions, one value at a time.  A list has *)
(* an order, todo leaves it open.                                          *)

required == DOMAIN normalizeSessionConfigValues(config.values)
done(id) == [i \in DOMAIN turn.todo \ {id} |-> turn.todo[i]]

\* Mutant: the loop does not get past a value.
tryAgain(id) == UNCHANGED turn

\* The loop goes on without id, or ends with an error.
Continue(id) == turn' = [turn EXCEPT !.todo = done(id)]
Fail == turn' = [turn EXCEPT !.todo = Empty, !.failed = TRUE]

\* Mutant: an option that cannot be set is never an error.
neverRequired(id) == Continue(id) /\ sess' = [sess EXCEPT !.skipped = @ \cup {id}]

\* A value the backend has no means for: an error if it is configured, else
\* it is skipped with a warning.
skipOptional(id) ==
    IF id \in required THEN Fail /\ UNCHANGED sess
    ELSE Continue(id) /\ sess' = [sess EXCEPT !.skipped = @ \cup {id}]

\* The request failed with another error; it may have been carried out.
RequestFails ==
    Fail /\ (UNCHANGED sess \/ \E l \in Answers : sess' = Moved(sess, l))

legacyMode(id) == id = ModeId /\ id \notin DOMAIN turn.cur.opts
                  /\ turn.cur.mode # NoModes

\* The value is in force already.
optionMatches(id, v) ==
    /\ \/ matches(turn.cur, id, v)
       \/ legacyMode(id) /\ turn.cur.mode = v
    /\ Continue(id) /\ UNCHANGED sess

\* session/set_config_option: the answer is the new listing, not checked
\* against the request.
setOption(id, v) ==
    /\ id \in DOMAIN turn.cur.opts /\ turn.cur.opts[id] # v
    /\ IF ~fits(id, v) THEN Fail /\ UNCHANGED sess
       ELSE \/ \E l \in Answers :
                 /\ sess' = Asked(sess, l, id, matches(l, id, v))
                 /\ turn' = [turn EXCEPT !.todo = done(id), !.cur.opts = l.opts]
            \/ skipOptional(id)
            \/ RequestFails

\* session/set_mode: the answer has no listing, the mode is taken as set.
setMode(id, v) ==
    /\ legacyMode(id) /\ turn.cur.mode # v
    /\ IF v \in Bools THEN Fail /\ UNCHANGED sess
       ELSE \/ \E l \in Answers :
                 /\ sess' = Asked(sess, l, id, l.mode = v /\ id \notin DOMAIN l.opts)
                 /\ turn' = [turn EXCEPT !.todo = done(id), !.cur.mode = v]
            \/ skipOptional(id)
            \/ RequestFails

optionUnavailable(id) ==
    id \notin DOMAIN turn.cur.opts /\ ~legacyMode(id) /\ skipOptional(id)

applyValue ==
    /\ pc = "config"
    /\ \E id \in DOMAIN turn.todo :
          LET v == turn.todo[id]
          IN  \/ optionMatches(id, v) \/ setOption(id, v)
              \/ setMode(id, v) \/ optionUnavailable(id)
    /\ UNCHANGED <<config, rec, kept, pc>>

\* Mutant: the record holds what was asked for.
requestedValues == valuesToApply(turn.base)

\* The values the backend reports, but for the model; the values found when it
\* reports none.
confirmedValues ==
    LET confirmed == collectSessionConfigValues(turn.cur)
    IN  IF confirmed = Empty THEN turn.base
        ELSE withoutModelConfigOptions(confirmed, turn.cur.opts)

finishConfig ==
    /\ pc = "config" /\ turn.todo = Empty
    /\ turn' = [turn EXCEPT !.values = confirmedValues]
    /\ pc' = "model"
    /\ UNCHANGED <<config, rec, sess, kept>>

-----------------------------------------------------------------------------
(* The desired model, the record, the prompt.                              *)

\* applyDesiredModelCurrentHeld; the answer to the request is used for the
\* descriptor only.
applyDesiredModel ==
    /\ pc = "model"
    /\ \/ /\ \E c \in modelDescriptors(turn.cur.opts) :
                (config.desired => c # {}) /\ turn' = [turn EXCEPT !.control = c]
          /\ pc' = "bind" /\ UNCHANGED <<sess, kept>>
       \/ /\ config.desired
          /\ {} # modelConfigOptionIDs(turn.cur.opts)
          /\ \E l \in Answers : \E c \in modelDescriptors(l.opts) \ {{}} :
                turn' = [turn EXCEPT !.control = c] /\ sess' = Moved(sess, l)
          /\ pc' = "bind" /\ UNCHANGED kept
       \/ config.desired /\ Abandon(sess)
    /\ UNCHANGED <<config, rec>>

\* withoutModelConfig, buildACPStateWithConfigValues.
record == [named |-> TRUE, values |-> withoutConfigIDs(turn.values, turn.control)]

\* persistRemoteSessionBinding and the state event; a session whose
\* configuration failed is recorded as well, and the turn ends
\* (yieldSessionConfigError).  The consumer may stop at the event.
persistBinding ==
    /\ pc = "bind"
    /\ \/ rec' = record /\ ~turn.failed
          /\ turn' = [turn EXCEPT !.bound = TRUE]
          /\ pc' = "prompt" /\ kept' = NoSession /\ UNCHANGED sess
       \/ rec' = record /\ End(Torn(sess))
       \/ UNCHANGED rec /\ Abandon(sess)
    /\ UNCHANGED config

\* promptWithContentHeld.
sendPrompt ==
    /\ pc = "prompt"
    /\ \/ pc' = "stream" /\ UNCHANGED <<sess, turn, kept>>
       \/ Abandon(sess)
    /\ UNCHANGED <<config, rec>>

-----------------------------------------------------------------------------
(* The stream and its end.                                                 *)

\* A config_option_update: the event is partial and does not reach the store;
\* the update is skipped when it lists no value but the model.
configUpdate ==
    /\ pc = "stream" /\ sess.state = "live"
    /\ \E l \in Answers : \E c \in modelDescriptors(l.opts) :
          /\ l # sess.now /\ l.mode = sess.now.mode
          /\ sess' = Moved(sess, l)
          /\ LET vs == collectSessionConfigValues([l EXCEPT !.mode = NoModes])
             IN  turn' = IF withoutModelConfigOptions(vs, l.opts) = Empty \/ c = {}
                         THEN turn
                         ELSE [turn EXCEPT !.control = c,
                                 !.values = withoutConfigIDs(@, c)]
    /\ UNCHANGED <<config, rec, kept, pc>>

\* A current_mode_update: its event is partial as well.
modeUpdate ==
    /\ pc = "stream" /\ sess.state = "live" /\ sess.now.mode # NoModes
    /\ \E m \in Values : sess' = Moved(sess, [sess.now EXCEPT !.mode = m])
    /\ UNCHANGED <<config, rec, kept, pc, turn>>

\* The turn completes: the final event writes the values of the binding.
finishTurn ==
    /\ pc = "stream" /\ sess.state = "live"
    /\ rec' = record
    /\ End(sess) /\ UNCHANGED config

\* The prompt fails, the caller cancels, or the consumer stops.
failTurn ==
    /\ pc = "stream"
    /\ End(sess) /\ UNCHANGED <<config, rec>>

\* The backend does not know the session, or says so: one recovery per turn.
sessionNotFound ==
    /\ pc = "stream" /\ ~turn.again
    /\ turn' = [NoTurn EXCEPT !.again = TRUE, !.base = rec.values,
                  !.values = rec.values]
    /\ pc' = "recover" /\ UNCHANGED <<config, rec, sess, kept>>

\* recoverRemoteSessionHeld: the session is resumed and configured, or is
\* there after all, or is replaced.
resumeSession ==
    /\ pc = "recover" /\ config.resumes /\ sess.state # "gone"
    /\ \E l \in resumed :
          /\ sess' = [sess EXCEPT !.now = l, !.state = "live", !.moved = {},
                        !.skipped = {}, !.torn = FALSE, !.changed = FALSE]
          /\ turn' = [turn EXCEPT !.how = "resumed", !.cur = l,
                        !.todo = normalizeSessionConfigValues(config.values)]
    /\ pc' = "config" /\ UNCHANGED <<config, rec, kept>>

\* A desired model cannot be verified here: the session is still held.
alreadyExists ==
    /\ pc = "recover" /\ config.resumes /\ sess.state # "gone"
    /\ IF config.desired THEN Abandon(sess)
       ELSE /\ pc' = "prompt" /\ sess' = [sess EXCEPT !.state = "live"]
            /\ UNCHANGED <<turn, kept>>
    /\ UNCHANGED <<config, rec>>

replaceSession ==
    /\ pc = "recover" /\ (config.resumes => sess.state = "gone")
    /\ pc' = "new" /\ UNCHANGED <<config, rec, sess, kept, turn>>

resumeFails ==
    /\ pc = "recover" /\ config.resumes
    /\ Abandon(sess) /\ UNCHANGED <<config, rec>>

-----------------------------------------------------------------------------
(* Between the turns.                                                      *)

\* The agent is started again, with the same or another configuration.
restart ==
    /\ pc = "idle"
    /\ config' \in Configs \ {config}
    /\ sess' = [sess EXCEPT !.changed = @ \/ config'.values # config.values,
                            !.attached = FALSE]
    /\ UNCHANGED <<rec, kept, pc, turn>>

\* The backend unloads or loses the session, or the registry evicts its entry.
forget ==
    /\ pc = "idle" /\ found
    /\ \/ sess.attached /\ sess' = [sess EXCEPT !.attached = FALSE]
       \/ sess.state = "live" /\ sess' = [sess EXCEPT !.state = "stored"]
       \/ sess.state # "gone" /\ sess' = [sess EXCEPT !.state = "gone"]
    /\ UNCHANGED <<config, rec, kept, pc, turn>>

SetUp ==
    \/ verifyExistingDesiredHeld \/ newSession \/ applyValue \/ finishConfig
    \/ applyDesiredModel \/ persistBinding \/ sendPrompt
    \/ resumeSession \/ alreadyExists \/ replaceSession \/ resumeFails

Next ==
    \/ startTurn \/ SetUp
    \/ configUpdate \/ modeUpdate \/ finishTurn \/ failTurn \/ sessionNotFound
    \/ restart \/ forget

\* Each request of the set-up is answered or its deadline (SetupTimeout)
\* passes.  An agent without a deadline depends on its backend: nothing is
\* assumed of it.
Fairness == WF_vars(config.deadline /\ SetUp)

Spec == Init /\ [][Next]_vars /\ Fairness

-----------------------------------------------------------------------------
(* Properties.                                                             *)

\* The type invariant of the turn's, the session's and the record's state.
TypeOK ==
    /\ config \in Configs
    /\ rec \in [named : BOOLEAN, values : Maps]
    /\ sess \in Sessions /\ kept \in Sessions
    /\ pc \in {"idle", "verify", "new", "config", "model", "bind", "prompt",
               "stream", "recover"}
    /\ turn \in Turns

\* While a prompt runs, every value of Config.SessionConfig is in force in the
\* session, unless the backend changed it itself, the agent was configured
\* anew, or the turn that set the session up did not get to its prompt.  This
\* is what agent.run, createRemoteSession and recoverRemoteSessionHeld have to
\* achieve together, with options that may be missing, refused or mistyped.
ConfiguredInForce ==
    (pc = "stream" /\ sess.state = "live" /\ ~sess.torn /\ ~sess.changed) =>
        \A id \in required \ sess.moved :
            current(sess.now, id) = config.values[id]

\* A session that replaces a lost one, or is created for a record without one,
\* is prompted with every persisted value in force that the configuration does
\* not override, unless the backend changed it or had no means to set it
\* (createRemoteSession, mergeSessionConfigValues).
PersistedRestored ==
    (pc = "stream" /\ sess.state = "live" /\ turn.how = "new") =>
        \A id \in DOMAIN normalizeSessionConfigValues(turn.base) :
            \/ id \in required \cup sess.moved \cup sess.skipped
            \/ current(sess.now, id) = turn.base[id]

\* When a session was set up and is about to be prompted, the record holds
\* exactly its values that are not models, as far as the backend did not move
\* them unasked; a session that reports no value leaves the record as it was
\* (applySessionConfigRequiredWithOptions, persistRemoteSessionBinding).
RecordTrue ==
    (pc = "prompt" /\ turn.how # "existing") =>
        \/ collectSessionConfigValues(turn.cur) = Empty
        \/ \A id \in Ids \ (ModelIds \cup sess.moved) :
              current(sess.now, id) =
                  IF id \in DOMAIN rec.values THEN rec.values[id] ELSE Blank

\* The adapter never writes a model into the record, from whatever answer or
\* update: one that is there was there when the turn read the record
\* (withoutModelConfig, withoutModelConfigOptions).
ModelNotAdded ==
    [][rec' # rec => DOMAIN rec'.values \cap ModelIds \subseteq DOMAIN turn.base]_vars

\* With a SetupTimeout a turn gets to its prompt or gives up: the loop over the
\* values comes to its end, there is one recovery, and a session that exists
\* already is not waited for (setupContext, recoverRemoteSessionHeld).
SetUpEnds ==
    (config.deadline /\ pc \notin {"idle", "stream"}) ~> pc \in {"idle", "stream"}
=============================================================================
