---------------------------- MODULE MCTurnOutput ----------------------------
(***************************************************************************)
(* One of two backends; prompts with text, blank, linked and inline parts; *)
(* every kind of update, with two different texts of the agent, and every  *)
(* kind of answer.                                                         *)
(***************************************************************************)
EXTENDS TurnOutput
CONSTANTS a, b, p, q, e, f

part(field, class) == [fields |-> {field}, class |-> class]
MCSupports == {{"image"}, {"embeddedContext"}}
MCPrompts ==
    {<<part("text", "image"), part("blank", "image"), part("file_data", "image"),
       part("inline_data", "image")>>,
     <<part("inline_data", "audio"), part("text", "image")>>,
     <<part("blank", "image")>>,
     <<part("empty", "audio")>>}

text(t) == [type |-> "text", text |-> t, usable |-> TRUE]
other(type) == [type |-> type, text |-> NoText, usable |-> TRUE]
message(block, error) == [kind |-> "agent", block |-> block, error |-> error]
MCUpdates ==
    {message(text(a), NoError), message(text(b), e),
     message(other("image"), f), message(other("resource"), f),
     [kind |-> "thought", block |-> text(b)], [kind |-> "user", block |-> text(b)],
     [kind |-> "tool"], [kind |-> "usage", counts |-> FALSE],
     [kind |-> "plan", entries |-> p], [kind |-> "plan", entries |-> q],
     [kind |-> "plan", entries |-> NoPlan],
     [kind |-> "error", willRetry |-> TRUE, message |-> e, details |-> NoError],
     [kind |-> "error", willRetry |-> FALSE, message |-> NoError, details |-> e],
     [kind |-> "turn/completed", failed |-> TRUE, message |-> f, details |-> NoError]}
MCAnswers ==
    {[kind |-> "ok", provider |-> NoError, meta |-> NoError],
     [kind |-> "ok", provider |-> NoError, meta |-> e],
     [kind |-> "ok", provider |-> f, meta |-> e],
     [kind |-> "provider", provider |-> e, meta |-> NoError],
     [kind |-> "notFound", provider |-> NoError, meta |-> NoError]}
=============================================================================
