# Verification of go-adk-acpagent

TLA+ models of the adapter that runs an ACP (Agent Client Protocol) subprocess
as an ADK agent, the TLC runs that check them on small instances, and TLAPS
proofs of their safety properties for every value of the constants.

Paths such as `session.go` are relative to the repository (`src/` in
`PROJECT.json`).

## 1. The system

An `Agent` owns one subprocess, reached through a `Client` over stdin/stdout. An
ADK runner calls `Agent.run` once per turn; the turn binds the ADK session to a
remote ACP session, sends the prompt, turns the notifications it receives into
ADK events, and puts the binding on record in the ADK session state, where the
next turn (of this agent, of a restarted one, or of another agent of a pool)
finds it.

| Component (files) | State | Operations | Shared with | What is hard | What makes it correct |
|---|---|---|---|---|---|
| Client session table and dispatcher (`client_dispatch.go`, `client.go`) | `activeBySession`, `updates`, `deactivate`, per prompt its channel, `updatesDone`, `signal`; `closing`, `closed` | `beginSessionOperation`, `promptWithBlocksOperation`, `enqueueUpdateFromWire`, `dispatchUpdates`, `finishSessionUpdates`, `failAll` | every operation on an ACP session; the wire reader; the reaper | six kinds of goroutine, three bounded channels, three closers of one channel, an exit at any moment | no send on a closed channel; one operation per session; wire order; streams end |
| Model registry (`model_registry.go`) | table of entries (holder, attachment, live model), tokens | `acquire`, `release`, `evictOneLocked`, `close`, `replaceAttachment`, `confirm`, ... | turns and controller calls of one agent | eviction and close while entries are held | an admission is exclusive and stays valid; a model choice is not forgotten |
| Agent initialization and shutdown (`agent.go`, `client.go`, `client_close.go`) | gate, `closed`, `client`; contexts and `AfterFunc` hooks; the process | `ensureInitialized`, `Agent.Close`, `NewClient`, `Initialize`, `Client.Close`, `waitLoop` | all callers | cancellation racing the answer, close racing a launch, a process that never exits | nothing leaks, one subprocess, everybody comes back |
| Agent turn, session binding, ownership (`agent.go`, `session.go`, `session_owner.go`) | the `acp_session` record (owner, session id, indeterminate mark, parked slots), live and stored; the attachment in the registry | `run`, `ensureRemoteSessionHeld`, `createRemoteSession`, `recoverRemoteSessionHeld`, `ownedState`, `applyForeignOwnership`, `stampOwnership` | the ADK session service; other agents | a turn can be cut at any yield or RPC; two copies of the record; takeovers | nobody uses another agent's session; nothing prompted, pending or parked is forgotten |
| Desired model and `SessionController` (`model_application.go`, `session_control.go`) | `control`, `liveDesired` in the registry entry | `Inspect`, `Validate`, `ChangeModel`, `applyDesiredModel...` | registry, session table | lost answers, stale snapshots, a backend that changes the model itself | a prompt runs under the model chosen last; an outcome says what happened |
| Session configuration values (`client.go`, `session.go`) | `config_values` in the record, the options and modes the backend reports | merge, normalise, apply, read back, persist | the record, the turn, the desired model | options missing, refused, mistyped or coupled; a set-up cut short; updates while a prompt runs | what is configured or persisted is in force when a prompt runs; the record is true and holds no model |
| Prompt content (`content.go`), event mapping and errors (`event_mapping.go`, `terminal_error.go`) | what `runPromptOnce` gathers | convert parts to blocks, updates to events, choose the error | the turn | two channels in any order, a recovery between two attempts, five places for an error | the prompt arrives whole; the final event says what the backend said |
| Permissions, instructions, MCP, logging, `acperror/` | none | conversions | | | |
| Wire (`wire.go`) | partial line | tee of complete lines | dispatcher | order | every notification is queued once, in order |

`PROJECT.json` lists under `hazards` what in this code is hard to test, at its
line, with the properties that would catch it.

## 2. Modules

| Module | Models | Role |
|---|---|---|
| `ClientDispatch` | session table, prompt goroutines, dispatcher, reaper | component |
| `SessionLock` | what the registry promises: a fail-fast lock and a model choice per ADK session | abstract specification |
| `ModelRegistry` | the bounded table with eviction and close | component; implements `SessionLock` |
| `AgentLifecycle` | gate, contexts, hooks, subprocess | component |
| `SessionBinding` | turns of several agents on one ADK session | composes run, binding, recovery, ownership and the attachment of the registry |
| `SessionControl` | the desired model of every turn, and `SessionController` | composes the model part of the turn, the registry entry and the controller |
| `ConfigValues` | lists of configuration values and listings of a backend | operators |
| `SessionValues` | the configuration values of a session, turn after turn | composes `ConfigValues` with the set-up, the record and the recovery of the turn |
| `EventMapping`, `PromptContent` | updates to events and errors; parts to blocks | operators |
| `TurnOutput` | prompt, stream and final event of a turn | composes `EventMapping` and `PromptContent` with `run` and `runPromptOnce` |
| `MC...` | instances for TLC | |
| `...Proofs` | theorems about the module they extend | |

Actions carry the name of the function (or of the part of it) they model; an
operator defined just before one of them and marked *Mutant* is a plausible
bug in it, used to see that the properties notice. A variable carries the name
of the field, and its comment says which.

### ClientDispatch

One member of `Prompts` is one `activePrompt`. Each goroutine is split where the
code gives up `stateMu`, sends, receives or selects: between taking an entry out
of the table (`dispatchLookup`) and sending (`dispatchSend`), between queueing a
stream for closing (`finishDeactivate`) and the dispatcher taking it
(`dispatchDeactivate`), and between each of the deferred calls of the prompt
goroutine (`endSessionOperation`, `closeRpcDone`, `closeResultCh`, in the order
in which Go runs them). `select` with several ready cases is a choice. A
notification is its position on the wire, so order and loss can be stated. Timers
(the idle window) may fire at any time. The agent's answer is nondeterministic.

### ModelRegistry and SessionLock

Every method holds `modelRegistry.mu`, so each is one action. `entries` is the
key set of the table; the entry of an absent key is blank. `nextEntryToken` and
`nextSequence` advance together and are one variable. A control snapshot is the
remote session it was read from. The refinement maps the holder of a key to the
caller whose admission names it and `chosen` to `liveDesired`, or `Default` when
there is no entry: eviction is invisible because an entry with a live choice, or
a holder, is never evicted.

### AgentLifecycle

A subprocess, its `Client` and its process context are named by the call that
launches them. Contexts are Booleans; an `AfterFunc` hook is armed, fired (its
goroutine is on its way) or over, so that `stop()` and the hook race as they do
in Go. Deadlines and the exit of the subprocess happen at any time. `Kill` may
fail, which the code only logs: the subprocess is then `stray`, Close reports a
timeout, and the next call may launch another beside it. The properties say so:
`Down` admits a subprocess that Close tried to kill and reported as not reaped,
and `OneSubprocess` does not count a stray one.

### SessionBinding

One ADK session, agents that take turns. The record exists twice: `live`, which
`State().Set` changes, and `stored`, which only an event appended by the runner
changes. A yield that returns false may or may not have stored its event. A new
invocation starts from `stored`; the next agent of a pool goes on with `live` in
the same invocation. The backend (external) answers `session/new`,
`session/resume` and `session/prompt` as it likes: created, refused, unanswered,
unknown, already exists. Between turns the application may reset the record or
delete the session (`Wipe`), and the registry may forget the attachment
(`Detach`). `doubt`, `buried`, `creator` and `late` are history variables: they
are read by no guard except that a backend hands out no session that another
agent's backend created. Which parked slot is the oldest is left open
(`dropOldestParked`), so the properties hold for any order of the time stamps.

### SessionControl

One agent and one ADK session; admission (shown exclusive by `ModelRegistry`)
makes turns and controller calls run one at a time, and an action is what
happens between two requests to the backend. `config` (desired model, a literal
model entry of `SessionConfig`, resume supported or not) is chosen in `Init` and
never changes, so one run covers every configuration. A descriptor is its
current model, or `NoModel` when it is missing or not valid, which any answer of
the backend may be (`classifyModelDescriptor`). The backend keeps a model per
session; it applies a request, applies it without a usable answer, sets another
model, or refuses; it is assumed to change a model only on a request or while it
works on a prompt, and to announce the latter in a `config_option_update`.
`chosen`, `before`, `source` and `unseen` are history: the last model applied,
the model of the session when the call began, the session that the snapshot was
read from, and whether the backend changed that session's model in a way nobody
received (the turn was cut short, or the answer to a literal entry was lost).
`ChangeModel` answers from the snapshot without asking which session it was read
from; `OutcomeTruthful` therefore speaks of `source` for such an answer and of
`remote`, the session of the call, for one that follows a request.
The attachment tokens of the registry are left out: only the holder of the
entry changes them.

### ConfigValues and SessionValues

A list of `SessionConfigValue` is a function from ids to values, since of two
entries for one id the last counts everywhere; the order in which
`applySessionConfigRequiredWithOptions` goes through it is left open. A listing
is what a backend reports: the options with their current values and the legacy
mode. One action is what happens between two requests: a value that is in force
already, `session/set_config_option` (whose answer replaces the listing without
being compared with the request), `session/set_mode` (whose answer lists
nothing), an option without means, an error. The backend answers any of these
with any listing in `Answers`, so options may be coupled, set to something else,
appear and disappear. `required` ids fail the set-up, others are skipped.

`sess` is the remote session of the turn with what it is really set to;
`turn.cur` is the listing the adapter believes. `kept` is the session on record
while a new one is not; `sess.attached` says that the registry attaches a session
that the turn which created it did not record, so that the next turn finds it
(`attachedRemoteID`) until the agent restarts or the entry is evicted. History:
`moved` (options the backend changed unasked or did not set as asked), `skipped`
(persisted values it had no means for), `torn` (the set-up was cut short and the
next turn finds the session), `changed` (the agent was configured anew after the
set-up). They appear in the properties as the exceptions a reader of the code would have to grant,
and in no guard. A turn that is cut short either leaves the record as it was or
wrote it, as in `SessionBinding`.

### PromptContent, EventMapping and TurnOutput

A part is the set of its content fields and the class of its MIME type, a block
its type. An update is its kind with the text, plan or error it carries; a message
of the agent may have both a text and a provider error in its metadata, which goes
to the event of the message (`shown` collects these errors). `wire`
holds the updates of one attempt and `read` how many of them `runPromptOnce` has
received; the answer is received independently, so it may come before updates
that are on the wire already, and more may come after it until the stream is
closed. A recovery starts the second attempt with a new `out`. The final event
is built as `run` builds it, with the error of the request before one of a
notification before those of the metadata.

## 3. Runs

Passing runs:

| Run | Instance | Shows |
|---|---|---|
| `dispatch_safety` | one session; a public prompt, a held prompt, a control operation; all capacities 1; 2 notifications; the process may exit | `NoSendOnClosed`, `SlotOwned`, `StreamInOrder`, `HeldStreamsOver` |
| `dispatch_liveness` | a public prompt, and a held one that may be abandoned | `ShutdownCompletes`, `StreamsTerminate` |
| `registry` | 3 ADK sessions, 2 callers, a table of 2 | `AdmissionCurrent`, `ImplementsSessionLock`, `ClosedDrains` |
| `lifecycle` | 2 first calls, 2 calls of Close | `FailedCallLeavesNothing`, `ClosedAgentIsDown`, `OneSubprocess`, `PublishedOutlivesCall`, `CloseReturns`, `CanceledCallReturns`, `OrderlyClose` |
| `binding` | 3 agents (one protected and resuming, one protected and resuming with a desired model, one plain), 3 remote sessions (symmetric), 1 parked slot, 1 wipe | `OwnSessionOnly`, `PromptedIsStored`, `DoubtOnRecord`, `ForeignRecordKept` |
| `controller` | 3 models of which 2 are offered, 2 remote sessions (symmetric), all 32 configurations | `PromptUnderChoice`, `SnapshotTrue`, `OutcomeTruthful` |
| `session_values` | 3 options (mode, model, a boolean), 3 configurations, 4 listings, 2 initial records | `ConfiguredInForce`, `PersistedRestored`, `RecordTrue`, `ModelNotAdded`, `SetUpEnds` |
| `turn_output` | 2 backends, 4 prompts, 14 updates (two texts of the agent among them) of which 3 per attempt, 5 answers | `OutputRepeatsStream`, `PlanIsLatest`, `FailureReported`, `PromptWhole` |

Runs that must find a violation, because a comment or a test says something the
code does not do (details under `findings` in `PROJECT.json`):

| Run | Statement | What happens |
|---|---|---|
| `dispatch_wedge` | prompts of different sessions are independent (`client.go:92`) | an abandoned turn with a full stream blocks the dispatcher for everyone |
| `binding_second_attach` | an indeterminate attachment needs a reset (`session.go:38`) | the first write of another agent erases the mark, because the entry has no session id to park |
| `binding_wiped` | no in-memory binding is reused after deletion (`session.go:86`), a reset brings no session back (`session_owner.go:242`) | `attachedRemoteID` brings it back |
| `binding_stop` | `run` stops with its consumer (`agent_run_test.go:73`) | the error of `persistAttachmentOutcome` is yielded after yield returned false |

Other divergences the models contain, which have no run of their own:

* `client.go:807`: "Starting another prompt for the same session before both
  streams finish returns ErrPromptAlreadyActive". The deferred
  `endSessionOperation` of a public prompt frees the slot before the result
  channel is closed, and the dispatcher closes the update channel later still.
  (`HeldStreamsOver` shows that the agent's own prompts do not have this.)
* `client.go:804` asks callers to receive until the channels close. When the
  process exits while a prompt finishes, `finishSessionUpdates` may queue the
  prompt for a dispatcher that has left; `endSessionOperation` takes it out of
  the table before `failAll` looks, and nobody closes its update channel.
* `docs/session-state.md:33`: "If the stored ACP session is stale, the adapter
  creates a new ACP session". With a desired model the turn ends at
  `verifyExistingDesiredHeld` and no prompt is sent that could fail and start the
  recovery: every later turn ends there too.
* `docs/session-state.md:102`: values of `session/update.config_option` are
  persisted. Their events are partial, which ADK does not store, and the final
  event writes the values of the binding again (`agent.go:528`). The same lines
  say that persisted values are retained for ids that are not configured: a
  recovery by `session/resume` replaces them all by what the backend reports
  (`session.go:250`), without having applied them.
* `session.go:92`: each plan notification is "the authoritative full plan
  replacement snapshot". One without entries is dropped (`event_mapping.go:330`):
  the plan before it stays.
* `doc.go:51-56`: "the first real user `session/prompt` is prepended with the
  combined instructions" in newly created sessions. A set-up that ends after the
  session is on record or attached (a required option, the desired model, a
  consumer that stops) is not repeated: the next turn finds the session and prompts
  it without the instructions, though they were in `session/new._meta`. And a first
  prompt that is refused as not found is sent again without them when the session
  is then resumed or exists already. No property claims what `doc.go` says, since
  it would except just these cases; `PromptWhole` has the instructions in every
  prompt that `run` sends to a session it has just created.
* Values of `Config.SessionConfig` "override persisted values"
  (`docs/session-state.md:102`, `doc.go:63-65`). They are applied only when a
  session is created or resumed by a recovery, so `ConfiguredInForce` has two
  exceptions beside what the backend does itself: a session whose set-up was cut
  short (`torn`, as above), and a recorded session that an agent with another
  configuration goes on with (`changed`): it is prompted with the old values.
* `session_control.go:84`: applied "means the ACP response confirms the requested
  model", and `:136` speaks of "the exact stored ACP session". `ChangeModel` to the
  model that the snapshot in the registry shows returns applied without a request
  (`session_control.go:297-303`) and without comparing the snapshot's session with
  the one on record. The answer is wrong for the session on record when a recovery
  made a new session and its state event was not stored (the record still names the
  old one), when the record was reset and the registry still attaches another
  session, when an announced change was not received (`unseen`), and it is void when
  the backend has forgotten the session. `OutcomeTruthful` claims what is left: an
  answer after a request is confirmed, an answer from the snapshot holds of the
  session it was read from.
* `docs/event-mapping.md:131`: `_meta.error` of the result is projected "when the
  prompt ends without visible output". The code does it always
  (`agent.go:519-526`), and so does `FailureReported`.
* A provider error in the metadata of a message (`docs/event-mapping.md:18`) is
  copied to the event of that message only. That event is partial, which ADK does
  not store, the final event knows nothing of it, and with a message that has no
  part the error is lost (`event_mapping.go:204-222`).
* `parked_at` times are compared as RFC3339Nano text (`session_owner.go:201`),
  which has no trailing zeros: within one second a newer slot may count as older.

### Bounds, and why they are enough

* Capacities of 1 make every channel full and empty within two messages; the code
  only tells full from not full. `MaxWire = 2` gives a message to lose, delay or
  overtake and one to compare it with. Three operations on one session suffice
  for holder, contender and successor; a second session is needed only for
  independence (`dispatch_wedge`).
* The registry has one key more than entries, so that eviction must happen, and
  two callers so that admissions compete. `MaxToken`, `MaxInsert` cap counters.
* The lifecycle has two calls of each kind: one to hold the gate, one to queue.
* In `SessionBinding` a table of one slot with three agents makes it overflow;
  three ids let every agent have a session at once. Ids may be used again by the
  backend that created them. One wipe is enough since afterwards nothing depends
  on the number of wipes. The violation runs use the real limit of 8 slots.
* `SessionControl` needs two offered models to have a right and a wrong one, a
  third that is not offered, and two sessions: the old one and the one a recovery
  creates. Nothing is capped; the state space is finite.
* `SessionValues` needs one option of each kind the code tells apart (the mode
  with its legacy form, a model, a boolean) and listings that offer all, some and
  none of them with different values; the configurations cover required and
  optional values, resume supported or not, protection with or without a deadline
  or none, a desired model or none. An initial record holds a model and a value of the wrong type. Nothing
  is capped.
* `TurnOutput`: three updates per attempt make two of one kind with another before,
  between or after, and the two texts of the agent differ, so that their order
  shows; every kind of update, answer and capability that a branch of
  the code tells apart is among the constants (`MaxUpdates` is the only cap).

`CHECK_DEADLOCK FALSE` is set for the dispatcher, the registry and the
lifecycle: operations are finite and a closed client rightly stops. The
other runs check for deadlock: an agent can always take another turn.

### Fairness

Weak fairness of the goroutines' own steps only: Go runs every goroutine that can
run. Nothing is assumed of callers (they need not start), of the agent process
(it need not answer or exit) or of timers, except those the code itself arms:
the grace and cleanup timers of `closeProcess`. An outstanding RPC is assumed to
return once the connection is closed or its own context is done, which is what
the connection library does. The registry assumes that a holder releases
(`defer admission.release()`). `SessionValues` assumes weak fairness of the set-up
as a whole for an agent with a `SetupTimeout`: every request of it runs under
`setupContext`, whose deadline ends it, and the rest is the turn's own code.
Nothing is assumed of an agent without that deadline, which may hang with its
backend, nor of the backend while a prompt runs. `SessionBinding`, `SessionControl` and `TurnOutput` state no
liveness.

## 4. Proofs

All seven components have a proof module; each theorem holds for any sets of
operations, callers, agents and sessions and any capacities, from the named
assumption of the component (constants are of the right kind, special values
are outside the sets).

* **ClientDispatchProofs.** `TypeCorrect` (with the capacities of the queues);
  `NeverSendsOnClosed` from `SendInv`: the prompt in the dispatcher's hands has
  not been closed because whoever closes it must first take it out of the table or
  wait for the dispatcher to be done; `AdmittedOwnsSlot` from `SlotInv`, and its
  converse `SlotsAreReleased` (a taken slot is that of an operation still admitted:
  nothing leaks it). `HeldPromptFinished` from `HeldInv`: the consumer of a held
  prompt stops only after both streams are over, and nothing is sent afterwards.
  `StreamsKeepOrder` needs the whole path of a notification. `QueueInv`: the queue
  is in wire order under the right sessions, complete after its first element, and
  what the dispatcher has in hand precedes it. `OrderInv`: what a stream holds
  precedes the hand and the queue, and an operation that was not admitted yet has
  an empty stream, so a session's new owner starts afresh. `GapInv`: a session has
  one receiver at a time, and every notification after a stream's first is
  dropped, on its way, or in the stream. `EndsAreNotLost` is the safety half of
  `StreamsTerminate`: after `finishSessionUpdates` a stream is closed, queued for
  closing, or in the dispatcher's hands.
* **ModelRegistryProofs.** `IInv` says that an admission's entry is in the table,
  busy with exactly one reference and with the admission's token, and that an
  entry nobody holds is idle. `AdmissionSafe` follows; `RegistryImplementsLock`
  proves the refinement of `SessionLock` action by action; `TypeCorrect` adds the
  bound on the number of entries, which needs that eviction frees one.
  `ClosedHoldsNoIdle` is the safety half of `ClosedDrains`, from `DrainInv`: a busy
  entry is held by a call, and a closed registry has only busy ones.
* **AgentLifecycleProofs.** `IInv` joins how far a call is with the state of its
  process (`LaunchInv`), its hook (`HookInv`), its close (`ShutdownInv`) and the
  closed agent (`CloseInv`); `FailureCleansUp`, `CloseIsFinal`, `OneAtATime` and
  `PublishedSurvives` follow from it, the first three with the exception of a
  subprocess whose Kill failed. Two more are safety halves of liveness
  properties: `GateIsReturned` (the gate is only held by a call that has not
  returned, so nobody waits for a gate that was left taken) and `CloseHidesExit`
  (a Close that finds the subprocess not yet reaped never reports an error).
* **SessionBindingProofs.** `IInv` is `TypeOK`, `OwnInv` (every id in either copy
  of the record, owned or parked, and every attachment was created by the agent
  it is recorded for), `PromptedIsStored` and `DoubtInv` (an agent in doubt is
  marked in both copies wherever they have an entry for it, and the running
  agent's pending mark is stored while its session/new is out). The two copies
  are why `OwnSessionOnly` and `DoubtOnRecord` are not inductive: a lost event
  makes the old copy the new truth. `AgentsUseTheirOwn`, `PromptOnRecord`,
  `DoubtStaysOnRecord` follow. `TurnsKeepForeignRecords` is an action property;
  `TurnWrites` shows that everything a turn writes is an `ownedState` of what it
  read, and `OwnedFacts` what such a record keeps.
* **SessionControlProofs.** `IInv` adds to the properties which operation is
  running (`CallInv`), that the registry holds the choice (`ChoiceInv`: `chosen`
  is `desired`, whatever was evicted), that a descriptor in hand is the backend's
  (`DescInv`, the reason why a verified model is still the model when the prompt
  is sent), and what the snapshot and the session are while a call runs
  (`SnapshotInv`, `OutcomeInv`). `PromptsUnderChoice` and `SnapshotsAreTrue` follow.
  `OutcomesAreTruthful` is about the step in which a call returns (`OutcomeStep`):
  a change that is answered from the snapshot without a request needs
  `SnapshotInv`, one that was refused needs that the session was left alone since
  the call began.

* **SessionValuesProofs.** `Inv` is `TypeOK` with five facts. `InvRecorded`: which
  session is on record at each step of the turn, and that it (or, while a new one
  is not on record, the one kept) is fit to be prompted. `InvApplied`: a
  value that the loop is through with is what the session has, unless the backend
  moved it or had no means; this is the property the loop keeps from request to
  request while the listing changes under it. `InvBelieved`: the listing in hand
  agrees with the session except where the backend moved it, which is why a value
  that "matches" need not be sent. `InvValues` and `InvModel`: what the turn
  wrote or will write is what was confirmed, and models in it were in the record
  when the turn read it. The theorems follow; they
  are not inductive because the prompt is sent several requests after the values
  were set.
* **TurnOutputProofs.** `Inv` says that what was gathered is a function of the part
  of the stream that was read (`Gathered`: the text of every message in order, the
  last plan with entries, the last error stated for good, the errors shown on
  events), that there is a final
  event only when the turn is over (`Over`), and what it reports (`Reported`).
  `OutputCorrect`, `PlanCorrect` and `FailureCorrect` hold for streams of any length
  and any updates. `PromptCorrect` (from `PromptInv`) is about `promptContentBlocks`,
  whose k-th block is that of the k-th part that has one: `PlaceFacts`, `PlaceOnto`
  and `PlaceAdd` show that counting places numbers the elements of a finite set
  of positions from 1 on, without gaps and in order. Selections are written by
  position and not with `SelectSeq`, whose recursion the prover cannot unfold.

Every invariant and every action property that a passing run checks is proved.
Only model-checked: the liveness properties (`ShutdownCompletes`,
`StreamsTerminate`, `ClosedDrains`, `CloseReturns`, `CanceledCallReturns`,
`OrderlyClose`, `SetUpEnds`), since fairness and `ENABLED` are out of the prover's
reach, and of course the violations. For five of the seven a theorem states the
part that is safety: what is waited for has not been lost, and whoever is waited
for is still there.

## 5. Not modelled, and what is left

Left out for good: conversions without control (permission requests,
instructions, MCP servers, the recognition of provider errors in `acperror/`),
logging, JSON and line splitting, and the hashing of the owner key. They keep no
state and take part in no protocol: a model would repeat them. In
`SessionBinding`: states written before ownership existed, damaged slots, meta
and working directory, and overlapping invocations of different agents on one
ADK session. In `SessionValues`: the JSON form of the values, and slots of other
owners (their values travel with their session, as `SessionBinding` shows for
the session id). In `TurnOutput`: usage counts, finish reasons, identifiers, MIME
types and payloads.

Left to do: the comparison of `parked_at` times as a pure operator against the
order of time.
