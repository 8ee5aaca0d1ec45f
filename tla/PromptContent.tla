--------------------------- MODULE PromptContent ----------------------------
(***************************************************************************)
(* The prompt: ADK parts become ACP content blocks, as far as the backend  *)
(* says that it supports them (content.go).                                *)
(*                                                                         *)
(* A part is the set of its content fields and, for inline data, the class *)
(* of its MIME type; a block is its type.  support is the set of optional  *)
(* capabilities the backend advertised.                                    *)
(***************************************************************************)
EXTENDS Naturals, Sequences, FiniteSets

Capabilities == {"image", "audio", "embeddedContext"}

\* A field that promptContentBlock takes; "blank" is text of white space only,
\* "empty" is inline data without bytes or a file without a URI.
Fields == {"text", "blank", "inline_data", "file_data", "empty", "other"}
Classes == {"image", "audio", "application"}
Blocks == {"text", "image", "audio", "resource", "resource_link"}

\* Mutant: data the backend does not take is left out.
inlineOrNothing(class, support) ==
    IF class \in support THEN class
    ELSE IF "embeddedContext" \in support THEN "resource"
    ELSE "skip"

\* The block for inline data, or "error": its own type if supported, else an
\* embedded resource.
inlineDataBlock(class, support) ==
    IF class \in support THEN class
    ELSE IF "embeddedContext" \in support THEN "resource"
    ELSE "error"

\* A file is a link, for which no capability is needed.
fileDataBlock == "resource_link"

\* A block, "skip" for blank text, or "error": no field or several, a field
\* the protocol has no block for, or a missing capability.
promptContentBlock(part, support) ==
    CASE part.fields = {"text"} -> "text"
      [] part.fields = {"blank"} -> "skip"
      [] part.fields = {"inline_data"} -> inlineDataBlock(part.class, support)
      [] part.fields = {"file_data"} -> fileDataBlock
      [] OTHER -> "error"

\* The place of i among the positions in S.
place(S, i) == Cardinality({j \in S : j <= i})

\* The blocks of a prompt, in the order of its parts; <<>> when it has none or
\* a part is refused.  The k-th block is that of the k-th part that has one.
promptContentBlocks(parts, support) ==
    LET block == [i \in DOMAIN parts |-> promptContentBlock(parts[i], support)]
        kept  == {i \in DOMAIN parts : block[i] # "skip"}
    IN  IF \E i \in DOMAIN parts : block[i] = "error" THEN <<>>
        ELSE [k \in 1 .. Cardinality(kept) |->
                block[CHOOSE i \in kept : place(kept, i) = k]]

\* The client checks the blocks again before it sends them.
validatePromptBlocks(blocks, support) ==
    \A i \in DOMAIN blocks :
        \/ blocks[i] \in {"text", "resource_link"}
        \/ blocks[i] \in {"image", "audio"} \cap support
        \/ blocks[i] = "resource" /\ "embeddedContext" \in support

\* The first prompt of a session begins with the instructions; an agent
\* without any (a blank text adds no block) is not the interesting one.
prependInstructionsToContent(blocks) == <<"text">> \o blocks
=============================================================================
