---------------------------- MODULE ConfigValues ----------------------------
(***************************************************************************)
(* Session configuration values: what the adapter asks an ACP session to   *)
(* be set to, and what it reads from the answers (session.go, client.go).  *)
(*                                                                         *)
(* A list of SessionConfigValue is a function from option ids to values:   *)
(* ids and values are trimmed, an entry without an id does not exist, and  *)
(* of two entries for one id the last one counts, which is how both the    *)
(* merge and the application in order treat them.  A backend's listing is  *)
(* the function from the options it offers to their current values, with   *)
(* the legacy mode state next to it.                                       *)
(***************************************************************************)

CONSTANTS
    Ids,       \* option ids
    Values,    \* values of options
    Blank,     \* the empty value
    Bools,     \* the values that are booleans
    BoolIds,   \* the options of the boolean type; the others select
    ModelIds,  \* the options of the category Model
    ModeId,    \* the id "mode"
    NoModes    \* the backend reports no legacy modes

ASSUME ConfigValuesAssumption ==
    /\ Blank \in Values /\ NoModes \notin Values
    /\ Bools \subseteq Values \ {Blank}
    /\ BoolIds \subseteq Ids /\ ModelIds \subseteq Ids
    /\ ModeId \in Ids \ (BoolIds \cup ModelIds)

Maps == UNION {[S -> Values] : S \in SUBSET Ids}
Modes == Values \cup {NoModes}
Listings == [opts : Maps, mode : Modes]

Empty == [id \in {} |-> Blank]

\* Entries without a value are dropped.
normalizeSessionConfigValues(vs) ==
    [id \in {i \in DOMAIN vs : vs[i] # Blank} |-> vs[id]]

\* The overrides replace the defaults with the same id and add the others.
mergeSessionConfigValues(defaults, overrides) ==
    LET d == normalizeSessionConfigValues(defaults)
        o == normalizeSessionConfigValues(overrides)
    IN  [id \in DOMAIN d \cup DOMAIN o |->
            IF id \in DOMAIN o THEN o[id] ELSE d[id]]

withoutConfigIDs(vs, ids) ==
    [id \in {i \in DOMAIN vs : vs[i] # Blank} \ ids |-> vs[id]]

modelConfigOptionIDs(opts) == ModelIds \cap DOMAIN opts

\* Mutant: the model is a value like any other.
keepModelConfigOptions(vs, opts) == normalizeSessionConfigValues(vs)

withoutModelConfigOptions(vs, opts) ==
    withoutConfigIDs(vs, modelConfigOptionIDs(opts))

\* Mutant: a descriptor is made of any option.
descriptorOfAny(opts) == {{}} \cup {{i} : i \in DOMAIN opts}

\* The model options that a descriptor names: none when it is not valid, which
\* it is not unless the listing has exactly one.
modelDescriptors(opts) ==
    {{}} \cup {{m} : m \in {x \in ModelIds : modelConfigOptionIDs(opts) = {x}}}

\* The current values of a listing; the legacy mode when no option has its id.
collectSessionConfigValues(l) ==
    [id \in {i \in DOMAIN l.opts : l.opts[i] # Blank}
            \cup {i \in {ModeId} : l.mode \notin {NoModes, Blank}}
       |-> IF id \in DOMAIN l.opts /\ l.opts[id] # Blank
           THEN l.opts[id] ELSE l.mode]

\* buildSetSessionConfigOptionRequest: the value is of the option's type.
fits(id, v) == (v \in Bools) <=> (id \in BoolIds)

\* sessionConfigOptionMatches.
matches(l, id, v) == id \in DOMAIN l.opts /\ l.opts[id] = v
=============================================================================
