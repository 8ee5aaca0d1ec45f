----------------------------- MODULE TurnOutput -----------------------------
(***************************************************************************)
(* The content of a turn: the prompt that is sent, the updates that come   *)
(* back, and the final event made of them (agent.go: run, runPromptOnce).  *)
(*                                                                         *)
(* The updates and the answer of a prompt arrive on two channels that are  *)
(* read in any order; the stream of updates is closed some time after the  *)
(* answer (ClientDispatch has the details).  A prompt that fails because   *)
(* the session is unknown is sent once more, to a recovered session.       *)
(***************************************************************************)
EXTENDS Naturals, Sequences, FiniteSets, EventMapping, PromptContent

CONSTANTS
    Supports,    \* what backends may advertise
    Prompts,     \* what users may send: sequences of parts
    Updates,     \* what a backend may send while a prompt runs
    Answers,     \* how a backend may answer a prompt
    Errors,      \* the messages of errors
    Plans,       \* the plans that have entries
    Texts,       \* the texts of messages
    MaxUpdates   \* bound: updates of one attempt

\* An answer is a result, perhaps with errors in its _meta, or an error: one
\* of the provider, "not found", or another.
NoAnswer == [kind |-> "none", provider |-> NoError, meta |-> NoError]

ASSUME TurnOutputAssumption ==
    /\ Supports \subseteq SUBSET Capabilities
    /\ \A p \in Prompts : p \in Seq([fields : SUBSET Fields, class : Classes])
    /\ Answers \subseteq [kind : {"ok", "provider", "notFound", "other"},
                          provider : Errors \cup {NoError},
                          meta : Errors \cup {NoError}]
    /\ \A a \in Answers : a.kind = "provider" => a.provider # NoError
    /\ \A u \in Updates :
          /\ u.kind \in {"user", "agent", "thought"} =>
                (u.block.type = "text" => u.block.text \in Texts)
          /\ u.kind = "agent" => u.error \in Errors \cup {NoError}
          /\ u.kind = "plan" => u.entries \in Plans \cup {NoPlan}
          /\ u.kind \in {"error", "turn/completed"} =>
                {u.message, u.details} \subseteq Errors \cup {NoError}
    /\ NoError \notin Errors /\ NoPlan \notin Plans /\ NoText \notin Texts
    /\ MaxUpdates \in Nat

VARIABLES
    support,  \* the capabilities of the backend
    parts,    \* the user's content
    pc,       \* "idle", "bind", "prompt", "stream" or "end"
    fresh,    \* the session is new
    again,    \* the turn has recovered its session
    blocks,   \* the prompt as it was sent
    wire,     \* the updates of this attempt, and how many were read
    read,
    answer,   \* the answer to this attempt, and whether it was read
    got,
    closed,   \* the stream of updates is closed
    out,      \* what runPromptOnce has gathered
    shown,    \* history: the errors of the events it has yielded
    final     \* the event or error that ended the turn

vars == <<support, parts, pc, fresh, again, blocks, wire, read, answer, got,
          closed, out, shown, final>>
attempt == <<blocks, wire, read, answer, got, closed, out, shown>>

NoOut == [text |-> <<>>, plan |-> NoPlan, error |-> NoError]
NoFinal == [kind |-> "none", text |-> <<>>, plan |-> NoPlan, error |-> NoError]
FailedTurn == [NoFinal EXCEPT !.kind = "error"]

Init ==
    /\ support \in Supports /\ parts = <<>> /\ pc = "idle"
    /\ fresh = FALSE /\ again = FALSE
    /\ blocks = <<>> /\ wire = <<>> /\ read = 0
    /\ answer = NoAnswer /\ got = FALSE /\ closed = FALSE
    /\ out = NoOut /\ shown = {} /\ final = NoFinal

End(f) == pc' = "end" /\ final' = f

-----------------------------------------------------------------------------
(* The prompt.                                                             *)

\* run: a prompt that cannot be converted ends the turn before a session is
\* touched.
startTurn ==
    /\ pc = "idle"
    /\ \E p \in Prompts :
          /\ parts' = p
          /\ IF promptContentBlocks(p, support) = <<>>
             THEN End(FailedTurn)
             ELSE pc' = "bind" /\ UNCHANGED final
    /\ UNCHANGED <<support, fresh, again, attempt>>

\* ensureRemoteSessionHeld, and recoverRemoteSessionHeld the second time.
bindSession ==
    /\ pc = "bind"
    /\ \/ fresh' \in BOOLEAN /\ pc' = "prompt" /\ UNCHANGED final
       \/ End(FailedTurn) /\ UNCHANGED fresh
    /\ UNCHANGED <<support, parts, again, attempt>>

\* Mutant: the text of an attempt that failed is kept.
keepText == [NoOut EXCEPT !.text = out.text]
newOut == NoOut

\* promptWithContentHeld.
sendPrompt ==
    /\ pc = "prompt"
    /\ LET prompt == promptContentBlocks(parts, support)
           sent == IF fresh THEN prependInstructionsToContent(prompt) ELSE prompt
       IN  /\ validatePromptBlocks(sent, support)
           /\ blocks' = sent
    /\ wire' = <<>> /\ read' = 0 /\ answer' = NoAnswer /\ got' = FALSE
    /\ closed' = FALSE /\ out' = newOut /\ shown' = {} /\ pc' = "stream"
    /\ UNCHANGED <<support, parts, fresh, again, final>>

\* The client refuses the blocks, or the prompt cannot be started.
promptFails ==
    /\ pc = "prompt"
    /\ End(FailedTurn) /\ UNCHANGED <<support, parts, fresh, again, attempt>>

-----------------------------------------------------------------------------
(* The backend and the dispatcher.                                         *)

sendUpdate ==
    /\ pc = "stream" /\ ~closed /\ Len(wire) < MaxUpdates
    /\ \E u \in Updates : wire' = Append(wire, u)
    /\ UNCHANGED <<support, parts, pc, fresh, again, blocks, read, answer, got,
                   closed, out, shown, final>>

sendAnswer ==
    /\ pc = "stream" /\ answer = NoAnswer
    /\ answer' \in Answers
    /\ UNCHANGED <<support, parts, pc, fresh, again, blocks, wire, read, got,
                   closed, out, shown, final>>

closeUpdates ==
    /\ pc = "stream" /\ answer # NoAnswer /\ ~closed
    /\ closed' = TRUE
    /\ UNCHANGED <<support, parts, pc, fresh, again, blocks, wire, read, answer,
                   got, out, shown, final>>

-----------------------------------------------------------------------------
(* runPromptOnce.                                                          *)

\* Mutant: the first plan stays.
firstPlan(o, event) == IF o.plan = NoPlan THEN event.plan ELSE o.plan
latestPlan(o, event) == IF event.plan # NoPlan THEN event.plan ELSE o.plan

\* What an update adds: a terminal error, the text of an agent's message, a
\* plan.
gather(o, u) ==
    LET error == terminalPromptErrorFromNotification(u)
        event == mapACPUpdateToEvent(u)
        text  == contentVisibleText(event.part)
    IN  [text  |-> IF u.kind = "agent" /\ event.ok /\ text # NoText
                   THEN Append(o.text, text) ELSE o.text,
         plan  |-> latestPlan(o, event),
         error |-> IF error # NoError THEN error ELSE o.error]

\* The update is yielded if it makes an event; the consumer may stop there.
receiveUpdate ==
    /\ pc = "stream" /\ read < Len(wire)
    /\ LET event == mapACPUpdateToEvent(wire[read + 1])
       IN  /\ shown' = shown \cup ({event.error} \ {NoError})
           /\ UNCHANGED <<pc, final>> \/ (event.ok /\ End(NoFinal))
    /\ read' = read + 1 /\ out' = gather(out, wire[read + 1])
    /\ UNCHANGED <<support, parts, fresh, again, blocks, wire, answer, got, closed>>

receiveResult ==
    /\ pc = "stream" /\ answer # NoAnswer /\ ~got
    /\ got' = TRUE
    /\ UNCHANGED <<support, parts, pc, fresh, again, blocks, wire, read, answer,
                   closed, out, shown, final>>

\* Both channels are closed and drained.
streamsOver == got /\ closed /\ read = Len(wire)

\* The error of the final event: of the request, else of a notification, else
\* of the answer's _meta (copyACPRequestError, copyACPProviderErrorMetadata,
\* terminalPromptErrorFromPromptMeta).
finalError ==
    IF answer.kind = "provider" THEN answer.provider
    ELSE IF out.error # NoError THEN out.error
    ELSE IF answer.provider # NoError THEN answer.provider
    ELSE answer.meta

finishTurn ==
    /\ pc = "stream" /\ streamsOver
    /\ answer.kind \in {"ok", "provider"}
    /\ End([kind |-> "event", text |-> out.text, plan |-> out.plan,
            error |-> finalError])
    /\ UNCHANGED <<support, parts, fresh, again, attempt>>

recover ==
    /\ pc = "stream" /\ streamsOver
    /\ answer.kind = "notFound" /\ ~again
    /\ again' = TRUE /\ pc' = "bind"
    /\ UNCHANGED <<support, parts, fresh, attempt, final>>

\* Another error, a second "not found", or the caller's cancellation.
failTurn ==
    /\ pc = "stream"
    /\ End(FailedTurn)
    /\ UNCHANGED <<support, parts, fresh, again, attempt>>

nextTurn ==
    /\ pc = "end"
    /\ pc' = "idle" /\ parts' = <<>> /\ fresh' = FALSE /\ again' = FALSE
    /\ blocks' = <<>> /\ wire' = <<>> /\ read' = 0 /\ answer' = NoAnswer
    /\ got' = FALSE /\ closed' = FALSE /\ out' = NoOut /\ shown' = {}
    /\ final' = NoFinal
    /\ UNCHANGED support

Next ==
    \/ startTurn \/ bindSession \/ sendPrompt \/ promptFails
    \/ sendUpdate \/ sendAnswer \/ closeUpdates
    \/ receiveUpdate \/ receiveResult \/ finishTurn \/ recover \/ failTurn
    \/ nextTurn

Spec == Init /\ [][Next]_vars

-----------------------------------------------------------------------------
(* Properties.                                                             *)

\* The type invariant of the turn.
TypeOK ==
    /\ support \in Supports
    /\ pc \in {"idle", "bind", "prompt", "stream", "end"}
    /\ fresh \in BOOLEAN /\ again \in BOOLEAN
    /\ wire \in Seq(Updates) /\ Len(wire) <= MaxUpdates
    /\ read \in 0..Len(wire)
    /\ answer \in Answers \cup {NoAnswer}
    /\ got \in BOOLEAN /\ closed \in BOOLEAN
    /\ out \in [text : Seq(Texts), plan : Plans \cup {NoPlan},
               error : Errors \cup {NoError}]
    /\ shown \subseteq Errors

\* A message of the agent that is text.
isMessage(u) == u.kind = "agent" /\ u.block.usable /\ u.block.type = "text"

\* The output of a turn is every text message of the attempt that succeeded,
\* in wire order, and nothing else: no thought, no echo of the user, nothing of
\* the attempt before a recovery, and nothing is missing although the answer
\* may overtake the updates (runPromptOnce).
OutputRepeatsStream ==
    final.kind = "event" =>
        LET said == {i \in DOMAIN wire : isMessage(wire[i])}
        IN  /\ Len(final.text) = Cardinality(said)
            /\ \A i \in said : final.text[place(said, i)] = wire[i].block.text

\* The plan of the final event is the last plan of the attempt that has
\* entries (mapACPPlanUpdate, latestPlanSnapshot).
PlanIsLatest ==
    final.kind = "event" =>
        LET plans == {i \in DOMAIN wire :
                        wire[i].kind = "plan" /\ wire[i].entries # NoPlan}
        IN  IF plans = {} THEN final.plan = NoPlan
            ELSE \E i \in plans : /\ \A j \in plans : j <= i
                                  /\ final.plan = wire[i].entries

\* The errors a notification states for good.
stated(u) ==
    IF \/ u.kind = "error" /\ ~u.willRetry
       \/ u.kind = "turn/completed" /\ u.failed
    THEN {u.message, u.details} \ {NoError} ELSE {}

\* The provider error of a message that has a part.
carried(u) ==
    IF u.kind = "agent" /\ u.block.usable /\ u.block.type # "resource"
    THEN {u.error} \ {NoError} ELSE {}

\* Where the errors of a backend show.  The final event has one exactly when
\* the answer, its metadata, or a notification that ends the turn stated one,
\* before or after the answer: not for an error that is retried, not for one
\* of the attempt before a recovery (run, terminalPromptErrorFromNotification).
\* A provider error in the metadata of a message is on the event of that
\* message, all of them are and no other, and it does not make the final event
\* a failure; it is lost with a message that has no part
\* (mapACPAgentMessageChunk).
FailureReported ==
    final.kind = "event" =>
        LET errors == ({answer.provider, answer.meta} \ {NoError})
                      \cup UNION {stated(wire[i]) : i \in DOMAIN wire}
        IN  /\ IF errors = {} THEN final.error = NoError ELSE final.error \in errors
            /\ shown = UNION {carried(wire[i]) : i \in DOMAIN wire}

\* The kinds of block that carry a part.
carriers(part) ==
    CASE part.fields = {"text"} -> {"text"}
      [] part.fields = {"file_data"} -> {"resource_link"}
      [] part.fields = {"inline_data"} -> {part.class, "resource"}
      [] OTHER -> {}

\* The backend gets the whole prompt: each part that is not blank has its
\* block, in order, after the instructions in a new session, also when the
\* prompt is sent again; and what was converted for the backend's capabilities
\* passes the client's own check of them, which would end the turn after the
\* session was bound (promptContentBlocks, promptForRun, validatePromptBlocks).
PromptWhole ==
    /\ pc = "prompt" =>
          validatePromptBlocks(promptContentBlocks(parts, support), support)
    /\ pc = "stream" =>
          LET said == {i \in DOMAIN parts : parts[i].fields # {"blank"}}
              n == IF fresh THEN 1 ELSE 0
          IN  /\ Len(blocks) = n + Cardinality(said)
              /\ \A i \in said : blocks[n + place(said, i)] \in carriers(parts[i])
=============================================================================
