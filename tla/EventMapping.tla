---------------------------- MODULE EventMapping ----------------------------
(***************************************************************************)
(* What a notification of the backend becomes: an ADK event, a terminal    *)
(* error, or nothing (event_mapping.go, terminal_error.go).                *)
(*                                                                         *)
(* A content block is its type, its text, and whether the adapter can use  *)
(* it (text that is not empty, base64 that decodes, a URI that is there);  *)
(* a plan is a value, NoPlan the one without entries; an error is its      *)
(* message, NoError the blank one.  MIME types, identifiers, usage counts  *)
(* and titles are left out.                                                *)
(***************************************************************************)

CONSTANTS
    NoText,   \* a part without text
    NoPlan,   \* a plan without entries, or no plan
    NoError   \* no error, or a blank message

NoPart  == [text |-> NoText, thought |-> FALSE, ok |-> FALSE]
NoEvent == [ok |-> FALSE, partial |-> FALSE, part |-> NoPart, plan |-> NoPlan,
            error |-> NoError]

\* An embedded resource has no part; every other type has one when usable.
mapACPContentBlockToPart(block) ==
    IF block.usable /\ block.type # "resource"
    THEN [text |-> IF block.type = "text" THEN block.text ELSE NoText,
          thought |-> FALSE, ok |-> TRUE]
    ELSE NoPart

\* An event with one part; a block without a part makes no event.
chunkEvent(block, thought) ==
    LET part == mapACPContentBlockToPart(block)
    IN  IF part.ok
        THEN [NoEvent EXCEPT !.ok = TRUE, !.partial = TRUE,
                             !.part = [part EXCEPT !.thought = thought]]
        ELSE NoEvent

\* The provider error in the _meta of a message goes with its event, if it
\* makes one (copyACPProviderErrorMetadata).
mapACPAgentMessageChunk(u) ==
    LET event == chunkEvent(u.block, FALSE)
    IN  IF event.ok THEN [event EXCEPT !.error = u.error] ELSE event

\* The calls and results of tools are the only updates that are not partial.
toolEvent == [NoEvent EXCEPT !.ok = TRUE]

\* A plan without entries is dropped.
mapACPPlanUpdate(entries) ==
    IF entries = NoPlan THEN NoEvent
    ELSE [NoEvent EXCEPT !.ok = TRUE, !.partial = TRUE, !.plan = entries]

\* Usage counts travel in an event of their own, unless there are none.
usageEvent(counts) == [NoEvent EXCEPT !.ok = counts, !.partial = counts]

\* mapACPUpdateToEvent, but for the configuration and mode updates, whose
\* payload is in ConfigValues.
mapACPUpdateToEvent(u) ==
    CASE u.kind = "agent" -> mapACPAgentMessageChunk(u)
      [] u.kind = "user" -> chunkEvent(u.block, FALSE)
      [] u.kind = "thought" -> chunkEvent(u.block, TRUE)
      [] u.kind = "tool" -> toolEvent
      [] u.kind = "plan" -> mapACPPlanUpdate(u.entries)
      [] u.kind = "usage" -> usageEvent(u.counts)
      [] OTHER -> NoEvent

contentVisibleText(part) == IF part.thought THEN NoText ELSE part.text

\* Mutant: the message goes with the details.
messageWithDetails(message, details) == <<message, details>>

\* The message, or the details when it is blank.
newTerminalPromptError(message, details) ==
    IF message # NoError THEN message ELSE details

\* Mutant: an error the backend will retry ends the turn.
terminalEvenIfRetried(u) ==
    IF u.kind = "error" \/ (u.kind = "turn/completed" /\ u.failed)
    THEN newTerminalPromptError(u.message, u.details)
    ELSE NoError

\* An error that is not retried, or a turn that completed as failed.
terminalPromptErrorFromNotification(u) ==
    IF \/ u.kind = "error" /\ ~u.willRetry
       \/ u.kind = "turn/completed" /\ u.failed
    THEN newTerminalPromptError(u.message, u.details)
    ELSE NoError
=============================================================================
