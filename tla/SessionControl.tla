--------------------------- MODULE SessionControl ---------------------------
(***************************************************************************)
(* Which model an ACP session runs: the SessionController                  *)
(* (session_control.go) and the desired model that every turn verifies     *)
(* (model_application.go, with the parts of session.go and agent.go that   *)
(* call it).                                                               *)
(*                                                                         *)
(* One agent and one ADK session.  Turns and controller calls hold the     *)
(* admission of the registry (ModelRegistry), so one runs at a time; the   *)
(* backend, which is external, applies, refuses or loses every request,    *)
(* changes the model on its own while it works on a prompt, and may forget *)
(* a session between two calls.  The attachment tokens of the registry are *)
(* left out: nobody else changes the entry while it is held, and control   *)
(* is nil whenever its token is not the current one.                       *)
(***************************************************************************)
EXTENDS Naturals

CONSTANTS
    Models,    \* model ids a caller may ask for
    NoModel,   \* the empty model, and a descriptor that is nil or not valid
    Offered,   \* the models the backend's descriptor lists
    Sessions,  \* remote session ids
    NoSession  \* the empty session id

ASSUME SessionControlAssumption ==
    /\ NoModel \notin Models /\ NoSession \notin Sessions
    /\ Offered \subseteq Models

VARIABLES
    config,    \* Config of the agent, fixed: DesiredModel, a literal model
               \* entry of SessionConfig, and whether the backend can resume
    bound,     \* session_id in the stored record
    attached,  \* attachmentID of the registry entry
    control,   \* the current model of the entry's control snapshot
    live,      \* liveDesired of the registry entry
    srv,       \* the backend: the model of each session, NoModel if unknown
    op,        \* the running or the last operation
    pc,        \* where it is
    remote,    \* the remote session it works on
    desc,      \* the model of the descriptor it has in hand
    failing,   \* the configuration of the session failed
    again,     \* the turn is past its one recovery
    arg,       \* the model a controller call asks for
    out,       \* the outcome of the last controller call
    effective, \* EffectiveModel of the last change that was not applied
    before,    \* history: the model of the session when the call began
    chosen,    \* history: the last model applied, at first DesiredModel
    source,    \* history: the session that control was read from
    unseen     \* history: the backend has changed the model of source and
               \* nobody has received the update

entry == <<attached, control, live, source, unseen>>
call  == <<op, arg, out, effective, before>>
step  == <<remote, desc, failing, again>>
vars  == <<config, bound, entry, srv, call, pc, step, chosen>>

-----------------------------------------------------------------------------
MaybeModel == Models \cup {NoModel}
Ids == Sessions \cup {NoSession}

Configs == [desired : MaybeModel, literal : MaybeModel, resumes : BOOLEAN]

Outcomes == {"none", "available", "supported", "incompatible", "unsupported",
             "busy", "closed", "failed", "applied", "rejected", "ambiguous"}

Pcs == {"idle", "verify", "new", "config", "apply", "set", "prompt", "recover",
        "resume", "inspect", "change", "setChange"}

TypeOK ==
    /\ config \in Configs
    /\ bound \in Ids /\ attached \in Ids /\ source \in Ids
    /\ control \in Offered \cup {NoModel}
    /\ live \in MaybeModel
    /\ srv \in [Sessions -> Offered \cup {NoModel}]
    /\ op \in {"turn", "inspect", "validate", "change"}
    /\ pc \in Pcs
    /\ remote \in Ids
    /\ pc \notin {"idle", "new", "inspect", "change"} =>
           remote # NoSession
    /\ desc \in Offered \cup {NoModel}
    /\ failing \in BOOLEAN /\ again \in BOOLEAN /\ unseen \in BOOLEAN
    /\ arg \in MaybeModel /\ effective \in MaybeModel
    /\ before \in MaybeModel /\ chosen \in MaybeModel
    /\ out \in Outcomes

Init ==
    /\ config \in Configs
    /\ bound = NoSession /\ attached = NoSession /\ source = NoSession
    /\ control = NoModel /\ live = NoModel
    /\ srv = [s \in Sessions |-> NoModel]
    /\ op = "turn" /\ pc = "idle" /\ remote = NoSession /\ desc = NoModel
    /\ failing = FALSE /\ again = FALSE /\ unseen = FALSE
    /\ arg = NoModel /\ out = "none" /\ effective = NoModel
    /\ before = NoModel /\ chosen = config.desired

-----------------------------------------------------------------------------
(* The registry entry.                                                     *)

\* admission.desired: the live choice, or the one made at construction.
desired == IF live # NoModel THEN live ELSE config.desired

\* admission.confirm: m is wanted from now on.
confirm(m) == live' = IF m = config.desired THEN NoModel ELSE m

\* The snapshot becomes m, as the backend has just reported it for remote.
observe(m) == control' = m /\ source' = remote /\ unseen' = FALSE

invalidateVerification == control' = NoModel /\ UNCHANGED <<source, unseen>>

\* What the options of a session that runs m are read as: m, or nothing when
\* they do not describe exactly one list of models with m in it.
classifyModelDescriptor(m) == {m, NoModel}

\* The session id of the record, or the one attached in this process.
Target == IF bound # NoSession THEN bound ELSE attached

\* The backend's session of the current call.
known == remote # NoSession /\ srv[remote] # NoModel
ServerModel(s) == IF s = NoSession THEN NoModel ELSE srv[s]
SetModel(m) == srv' = [srv EXCEPT ![remote] = m]

-----------------------------------------------------------------------------
(* A turn.                                                                 *)

\* The turn is over.
Done ==
    /\ pc' = "idle"
    /\ remote' = NoSession /\ desc' = NoModel /\ failing' = FALSE /\ again' = FALSE

\* Mutant: without a desired model the session id is not looked at.
startTurnUnbound ==
    /\ pc = "idle"
    /\ op' = "turn" /\ out' = "none"
    /\ remote' = Target
    /\ arg' = NoModel /\ effective' = NoModel /\ before' = NoModel
    /\ UNCHANGED <<desc, failing, again>>
    /\ pc' = IF desired = NoModel THEN "prompt" ELSE "verify"
    /\ UNCHANGED <<config, bound, entry, srv, chosen>>

\* ensureRemoteSessionHeld: without a desired model a known session id is
\* prompted as it is, otherwise its model is verified first.
startTurn ==
    /\ pc = "idle"
    /\ op' = "turn" /\ out' = "none"
    /\ remote' = Target
    /\ arg' = NoModel /\ effective' = NoModel /\ before' = NoModel
    /\ UNCHANGED <<desc, failing, again>>
    /\ \/ Target = NoSession /\ pc' = "new" /\ UNCHANGED bound
       \/ /\ Target # NoSession /\ desired = NoModel
          /\ pc' = "prompt" /\ bound' = Target
       \/ /\ Target # NoSession /\ desired # NoModel
          /\ pc' = "verify" /\ UNCHANGED bound
    /\ UNCHANGED <<config, entry, srv, chosen>>

\* The turn fails before the registry or the backend is touched: no resume,
\* a session slot in use, session/new or a recovery's session/resume failed.
giveUp ==
    /\ pc \in {"verify", "new", "resume"}
    /\ Done
    /\ UNCHANGED <<config, bound, entry, srv, call, chosen>>

\* session/resume of a stored session, to observe its model.
verifyExistingDesiredHeld ==
    /\ pc = "verify" /\ config.resumes
    /\ \/ /\ known                                       \* resumed
          /\ attached' = remote /\ observe(NoModel)
          /\ desc' \in classifyModelDescriptor(srv[remote])
          /\ pc' = "apply"
          /\ UNCHANGED <<remote, failing, again>>
       \/ /\ attached' = NoSession                       \* unknown session
          /\ invalidateVerification /\ Done
       \/ /\ invalidateVerification /\ Done              \* other errors
          /\ UNCHANGED attached
    /\ UNCHANGED <<config, bound, live, srv, call, chosen>>

\* session/new is answered.  A protected agent records the id at once, and the
\* turn may end there; any other records it when the session is configured.
createRemoteSession ==
    /\ pc = "new"
    /\ \E s \in Sessions, m \in Offered :
         /\ srv[s] = NoModel
         /\ srv' = [srv EXCEPT ![s] = m]
         /\ source' = IF s = source THEN NoSession ELSE source
         /\ \/ /\ pc' = "config"
               /\ remote' = s /\ desc' \in classifyModelDescriptor(m)
               /\ bound' \in {bound, s}
               /\ unseen' = FALSE
               /\ UNCHANGED <<failing, again>>
            \/ Done /\ bound' \in {bound, s} /\ UNCHANGED unseen
    /\ UNCHANGED <<config, attached, control, live, call, chosen>>

\* applySessionConfigRequiredWithOptions, as far as the model is concerned.
applySessionConfig ==
    /\ pc = "config" /\ pc' = "apply"
    /\ \/ /\ config.literal \in {NoModel, desc}          \* nothing to set
          /\ UNCHANGED <<srv, desc, failing, unseen>>
       \/ /\ config.literal \notin {NoModel, desc}       \* set and answered;
             \* another option may fail
          /\ \E m \in Offered : SetModel(m) /\ desc' \in classifyModelDescriptor(m)
          /\ failing' \in BOOLEAN /\ UNCHANGED unseen
       \/ /\ failing' = TRUE                             \* an option failed
          /\ UNCHANGED <<srv, desc, unseen>>
       \/ /\ config.literal \in Offered \ {desc}         \* set, answer lost
          /\ SetModel(config.literal)
          /\ failing' = TRUE /\ unseen' = TRUE
          /\ UNCHANGED desc
    /\ UNCHANGED <<remote, again, attached, control, live, source>>
    /\ UNCHANGED <<config, bound, call, chosen>>

\* What follows a successful application: the binding is recorded and the
\* prompt sent, unless the configuration failed, the record could not be
\* written, or the consumer stopped.
Proceed ==
    \/ ~failing /\ pc' = "prompt" /\ bound' = remote /\ UNCHANGED step
    \/ Done /\ bound' \in {bound, remote}

\* applyDesiredModelCurrentHeld, up to the request.
applyDesiredModelCurrentHeld ==
    /\ pc = "apply"
    /\ attached' = remote /\ source' = remote
    /\ \/ /\ desired = NoModel                           \* no preference
          /\ control' = desc /\ Proceed
          /\ UNCHANGED live
       \/ /\ desired # NoModel                           \* not available
          /\ desc = NoModel \/ desired \notin Offered
          /\ control' = NoModel /\ Done
          /\ UNCHANGED <<live, bound>>
       \/ /\ desired # NoModel /\ desc = desired         \* as desired
          /\ control' = desc /\ confirm(desired) /\ Proceed
       \/ /\ desired \in Offered \ {desc} /\ desc # NoModel
          /\ \/ control' = desc /\ pc' = "set" /\ UNCHANGED step
             \/ control' = NoModel /\ Done               \* canceled
          /\ UNCHANGED <<live, bound>>
    /\ UNCHANGED <<config, unseen, srv, call, chosen>>

\* Mutant: the answer is taken for a confirmation, whatever it reports.
setDesiredModelTrusting ==
    /\ pc = "set"
    /\ \E m \in Offered :
         SetModel(m) /\ observe(m) /\ confirm(desired) /\ Proceed
    /\ UNCHANGED <<config, attached, call, chosen>>

\* The answer to the one request of applyDesiredModelCurrentHeld.
setDesiredModel ==
    /\ pc = "set"
    /\ \/ SetModel(desired) /\ observe(desired) /\ confirm(desired) /\ Proceed
       \/ /\ \/ \E m \in Offered : SetModel(m)  \* another model, not valid, lost
             \/ UNCHANGED srv                   \* refused
          /\ invalidateVerification /\ Done
          /\ UNCHANGED <<bound, live>>
    /\ UNCHANGED <<config, attached, call, chosen>>

\* runPromptOnce.  The backend may change the model on its own and say so in
\* a config_option_update, which is observed, or which is missed: the turn was
\* cut short, its idle window is over, or the update lists nothing but the
\* model and is skipped because it makes no event.
runPromptOnce ==
    /\ pc = "prompt"
    /\ \/ known /\ Done /\ UNCHANGED <<srv, control, source, unseen>>
       \/ /\ known /\ Done                               \* update received
          /\ \E m \in Offered :
               SetModel(m) /\ (observe(m) \/ invalidateVerification)
       \/ /\ known /\ Done                               \* update missed
          /\ \E m \in Offered : SetModel(m)
          /\ unseen' = TRUE
          /\ UNCHANGED <<control, source>>
       \/ /\ ~again /\ pc' = "recover"                   \* session not found
          /\ UNCHANGED <<srv, control, source, unseen, step>>
       \/ /\ ~known /\ Done                              \* other errors
          /\ UNCHANGED <<srv, control, source, unseen>>
    /\ UNCHANGED <<config, bound, attached, live, call, chosen>>

\* recoverRemoteSessionHeld: the attachment is forgotten.
recoverRemoteSessionHeld ==
    /\ pc = "recover"
    /\ attached' = NoSession /\ invalidateVerification
    /\ again' = TRUE
    /\ pc' = IF config.resumes THEN "resume" ELSE "new"
    /\ UNCHANGED <<remote, desc, failing>>
    /\ UNCHANGED <<config, bound, live, srv, call, chosen>>

\* The answer to the session/resume of a recovery.
resumeAnswered ==
    /\ pc = "resume"
    /\ \/ /\ known /\ pc' = "config"                     \* resumed
          /\ attached' = remote /\ observe(NoModel)
          /\ desc' \in classifyModelDescriptor(srv[remote])
          /\ UNCHANGED <<remote, failing, again>>
       \/ /\ \/ desired = NoModel /\ pc' = "prompt" /\ UNCHANGED step
             \/ desired # NoModel /\ Done                \* already exists
          /\ UNCHANGED <<attached, control, source, unseen>>
       \/ /\ pc' = "new"                                 \* unknown session
          /\ UNCHANGED <<step, attached, control, source, unseen>>
    /\ UNCHANGED <<config, bound, live, srv, call, chosen>>

-----------------------------------------------------------------------------
(* The controller.                                                         *)

Return(o) == pc' = "idle" /\ out' = o /\ UNCHANGED <<op, arg, effective, before>>

\* Inspect, ValidateModel(m) or ChangeModel(m) is called and admitted.
startCall(o, m) ==
    /\ pc = "idle"
    /\ op' = o /\ arg' = m /\ out' = "none" /\ effective' = NoModel
    /\ remote' = Target /\ before' = ServerModel(Target)
    /\ pc' = "inspect"
    /\ UNCHANGED <<config, bound, entry, srv, desc, failing, again, chosen>>

\* validateHeld, and what the callers do with an available snapshot.
validateHeld ==
    \/ op = "inspect" /\ Return("available")
    \/ op # "inspect" /\ arg \notin Offered /\ Return("incompatible")
    \/ op = "validate" /\ arg \in Offered /\ Return("supported")
    \/ op = "change" /\ arg \in Offered /\ pc' = "change" /\ UNCHANGED call

\* inspectHeld with a snapshot in the registry, or without the means to get
\* one; or refused before anything happened.
inspectHeld ==
    /\ pc = "inspect"
    /\ \/ control # NoModel /\ validateHeld
       \/ /\ control = NoModel /\ (remote = NoSession \/ ~config.resumes)
          /\ Return("unsupported")
       \/ \E o \in {"busy", "closed", "failed"} : Return(o)
    /\ UNCHANGED <<config, bound, entry, srv, step, chosen>>

\* inspectHeld resumes the session to read its descriptor.
inspectResume ==
    /\ pc = "inspect" /\ control = NoModel
    /\ remote # NoSession /\ config.resumes
    /\ \/ /\ known /\ attached' = remote
          /\ \/ observe(srv[remote]) /\ validateHeld
             \/ observe(NoModel) /\ Return("failed")     \* descriptor_invalid
       \/ /\ attached' = NoSession /\ invalidateVerification
          /\ Return("unsupported")                       \* unknown_session
       \/ /\ invalidateVerification /\ UNCHANGED attached
          /\ Return("unsupported") \/ Return("failed")
    /\ UNCHANGED <<config, bound, live, srv, step, chosen>>

\* ChangeModel after the validation, up to the request.
ChangeModel ==
    /\ pc = "change"
    /\ \/ /\ remote # NoSession /\ control = arg
          /\ confirm(arg) /\ chosen' = arg /\ Return("applied")
       \/ /\ remote # NoSession /\ control # arg /\ pc' = "setChange"
          /\ UNCHANGED <<call, live, chosen>>
       \/ /\ \E o \in {"busy", "closed", "failed"} : Return(o)
          /\ UNCHANGED <<live, chosen>>
    /\ UNCHANGED <<config, bound, attached, control, source, unseen, srv, step>>

\* Mutant: a request that was canceled counts as refused.
setModelCanceledIsRefused ==
    /\ pc = "setChange"
    /\ known /\ srv' \in {srv, [srv EXCEPT ![remote] = arg]}
    /\ invalidateVerification /\ Return("rejected")
    /\ UNCHANGED <<config, bound, attached, live, step, chosen>>

\* Mutant: the snapshot is kept when the outcome is not known.
setModelKeepsSnapshot ==
    /\ pc = "setChange"
    /\ known /\ srv' \in {srv, [srv EXCEPT ![remote] = arg]}
    /\ Return("ambiguous")
    /\ UNCHANGED <<config, bound, entry, step, chosen>>

\* The answer to the request of ChangeModel.
setModel ==
    /\ pc = "setChange"
    /\ \/ /\ known /\ SetModel(arg) /\ observe(arg)      \* confirmed
          /\ confirm(arg) /\ chosen' = arg /\ Return("applied")
       \/ /\ \E m \in Offered \ {arg} :                  \* not_applied
               /\ known /\ SetModel(m) /\ effective' = m
          /\ invalidateVerification
          /\ pc' = "idle" /\ out' = "rejected"
          /\ UNCHANGED <<op, arg, before, live, chosen>>
       \/ /\ invalidateVerification                      \* refused
          /\ Return("unsupported") \/ Return("rejected")
          /\ UNCHANGED <<srv, live, chosen>>
       \/ /\ \/ known /\ \E m \in Offered : SetModel(m)  \* invalid or no answer
             \/ UNCHANGED srv
          /\ invalidateVerification /\ Return("ambiguous")
          /\ UNCHANGED <<live, chosen>>
    /\ UNCHANGED <<config, bound, attached, step>>

-----------------------------------------------------------------------------
(* Between the calls.                                                      *)

\* The backend forgets a session.
loseSession(s) ==
    /\ pc = "idle" /\ srv[s] # NoModel
    /\ srv' = [srv EXCEPT ![s] = NoModel]
    /\ UNCHANGED <<config, bound, entry, call, pc, step, chosen>>

\* The application resets the ADK session, or another agent takes it over.
resetRecord ==
    /\ pc = "idle" /\ bound # NoSession
    /\ bound' = NoSession
    /\ UNCHANGED <<config, entry, srv, call, pc, step, chosen>>

\* The registry evicts the entry, which it may while it holds no live choice.
evictOneLocked ==
    /\ pc = "idle" /\ live = NoModel
    /\ attached' = NoSession /\ invalidateVerification
    /\ UNCHANGED <<config, bound, live, srv, call, pc, step, chosen>>

Turn ==
    \/ startTurn \/ giveUp \/ verifyExistingDesiredHeld \/ createRemoteSession
    \/ applySessionConfig \/ applyDesiredModelCurrentHeld \/ setDesiredModel
    \/ runPromptOnce \/ recoverRemoteSessionHeld \/ resumeAnswered

Controller ==
    \/ \E o \in {"inspect", "validate", "change"}, m \in Models : startCall(o, m)
    \/ inspectHeld \/ inspectResume \/ ChangeModel \/ setModel

Next ==
    \/ Turn \/ Controller
    \/ \E s \in Sessions : loseSession(s)
    \/ resetRecord \/ evictOneLocked

Spec == Init /\ [][Next]_vars
-----------------------------------------------------------------------------
(* Properties.                                                             *)

\* "Before prompting, a nonempty preference is inspected and, when needed,
\* applied once and verified. An unavailable or uncertain result prevents the
\* prompt" (docs/session-state.md): when a prompt is sent, its session runs the
\* model that the last applied change asked for, or DesiredModel, whatever was
\* lost, refused, recovered, reset or evicted since.
PromptUnderChoice ==
    pc = "prompt" /\ chosen # NoModel /\ known => srv[remote] = chosen

\* A snapshot in the registry is the truth about the session it was read from
\* (SessionControlAvailable "means exact-session model control is
\* authoritative"), also after requests whose outcome is not known, unless the
\* backend announced a change that nobody received.
SnapshotTrue ==
    pc = "idle" /\ control # NoModel /\ ~unseen /\ ServerModel(source) # NoModel
        => srv[source] = control

\* The outcome classes of ChangeModel (session_control.go), when a call returns.
\* "applied" after a request: the session the call works on runs the model.
\* "applied" without a request, since the snapshot already shows the model: the
\* session that the snapshot was read from runs it, unless the backend announced
\* a change that nobody received or has forgotten that session.  Nothing more is
\* claimed, for the code does not compare that session with the one on record: a
\* record that was reset, or that does not name the session a recovery made, is
\* answered from the snapshot of another session (README).  Every other outcome
\* than "ambiguous": the call left the model as it was, or names the model that
\* is now in effect.
OutcomeTruthful ==
    [][op = "change" /\ pc # "idle" /\ pc' = "idle" =>
         /\ pc = "setChange" /\ out' = "applied" => srv'[remote] = arg
         /\ /\ pc = "change" /\ out' = "applied"
            /\ ~unseen /\ ServerModel(source) # NoModel
            => srv[source] = arg
         /\ known /\ out' \notin {"none", "applied", "ambiguous"}
            => srv'[remote] \in {before, effective'}]_vars
=============================================================================
