--------------------------- MODULE ModelRegistry ----------------------------
(***************************************************************************)
(* The per-agent registry of ADK sessions (model_registry.go): a bounded   *)
(* table of entries, fail-fast admission to one entry, eviction of idle    *)
(* entries, and what the holder of an admission records in its entry.      *)
(*                                                                         *)
(* Every method runs under modelRegistry.mu, so each is one step.  A       *)
(* control snapshot is abstracted to the remote session it was read from.  *)
(***************************************************************************)
EXTENDS Naturals, FiniteSets

CONSTANTS
    Keys,        \* exact ADK sessions (adkSessionKey)
    Callers,     \* invocations and controller calls that acquire
    Models,      \* models other than the construction-time one
    Remotes,     \* ACP session ids
    MaxEntries,  \* maxModelRegistryEntries, 64 in the code
    MaxToken,    \* bound: attachments per entry
    MaxInsert,   \* bound: entries ever inserted
    Default,     \* liveDesired = ""
    NoRemote,    \* attachmentID = "" and control = nil
    Nobody,      \* no caller
    NoKey        \* no admission

ASSUME ModelRegistryAssumption ==
    /\ MaxEntries \in Nat \ {0}
    /\ MaxToken \in Nat /\ MaxInsert \in Nat
    /\ Default \notin Models /\ NoRemote \notin Remotes
    /\ Nobody \notin Callers /\ NoKey \notin Keys

VARIABLES
    entries,     \* modelRegistry.entries: the keys that have an entry
    entry,       \* the entry of each of them, blank for the other keys
    nextToken,   \* nextEntryToken and nextSequence, which advance together
    closed,      \* modelRegistry.closed
    admission    \* each caller's modelAdmission: the key, the entry's token
                 \* and the attachment token it works with

vars == <<entries, entry, nextToken, closed, admission>>

-----------------------------------------------------------------------------
Entry ==
    [entryToken : Nat, attachmentToken : Nat,
     attachmentID : Remotes \cup {NoRemote}, refs : Nat, busy : BOOLEAN,
     liveDesired : Models \cup {Default},
     control : Remotes \cup {NoRemote}, controlToken : Nat]

\* A new entry; entryToken and insertSequence are equal in every entry.
newEntry(t) ==
    [entryToken |-> t, attachmentToken |-> 1, attachmentID |-> NoRemote,
     refs |-> 0, busy |-> FALSE, liveDesired |-> Default,
     control |-> NoRemote, controlToken |-> 0]

heldEntry(t) == [newEntry(t) EXCEPT !.busy = TRUE, !.refs = 1]

\* The value of entry for a key that has none.
blank == newEntry(0)

Admission == [key : Keys \cup {NoKey}, token : Nat, attachment : Nat]

noAdmission == [key |-> NoKey, token |-> 0, attachment |-> 0]

TypeOK ==
    /\ entries \subseteq Keys /\ Cardinality(entries) <= MaxEntries
    /\ entry \in [Keys -> Entry]
    /\ nextToken \in Nat
    /\ closed \in BOOLEAN
    /\ admission \in [Callers -> Admission]

Init ==
    /\ entries = {}
    /\ entry = [k \in Keys |-> blank]
    /\ nextToken = 0
    /\ closed = FALSE
    /\ admission = [c \in Callers |-> noAdmission]

Holds(c, k) == admission[c].key = k

-----------------------------------------------------------------------------
(* Admission and eviction                                                  *)

\* Mutant: an entry with a live model may be evicted.
evictableIdle == {k \in entries : entry[k].refs = 0 /\ ~entry[k].busy}

\* Mutant: a busy entry may be evicted.
evictableUnused == {k \in entries : entry[k].liveDesired = Default}

\* The entries evictOneLocked may delete.
evictable ==
    {k \in entries : entry[k].refs = 0 /\ ~entry[k].busy
                     /\ entry[k].liveDesired = Default}

\* evictOneLocked: the oldest evictable entry.
evictOneLocked(k) ==
    /\ k \in evictable
    /\ \A j \in evictable : entry[k].entryToken <= entry[j].entryToken

\* acquire finds an entry that nobody holds.
acquireExisting(c, k) ==
    /\ admission[c] = noAdmission
    /\ ~closed /\ k \in entries /\ ~entry[k].busy
    /\ entry' = [entry EXCEPT ![k].busy = TRUE, ![k].refs = @ + 1]
    /\ admission' = [admission EXCEPT ![c] =
                       [key |-> k, token |-> entry[k].entryToken, attachment |-> 0]]
    /\ UNCHANGED <<entries, nextToken, closed>>

\* Mutant: the new entry is added without looking at the limit.
acquireNewUnbounded(c, k) ==
    /\ admission[c] = noAdmission
    /\ ~closed /\ k \notin entries
    /\ nextToken < MaxInsert
    /\ entries' = entries \cup {k}
    /\ nextToken' = nextToken + 1
    /\ entry' = [entry EXCEPT ![k] = heldEntry(nextToken + 1)]
    /\ admission' = [admission EXCEPT ![c] =
                       [key |-> k, token |-> nextToken + 1, attachment |-> 0]]
    /\ UNCHANGED closed

\* acquire inserts an entry, evicting one first when the table is full.  It
\* fails (ErrModelRegistryFull) when there is none to evict; the other failures
\* are a done context, a closed registry and a busy entry (ErrSessionBusy).
acquireNew(c, k) ==
    /\ admission[c] = noAdmission
    /\ ~closed /\ k \notin entries
    /\ nextToken < MaxInsert
    /\ nextToken' = nextToken + 1
    /\ \/ /\ Cardinality(entries) < MaxEntries
          /\ entries' = entries \cup {k}
          /\ entry' = [entry EXCEPT ![k] = heldEntry(nextToken + 1)]
       \/ /\ Cardinality(entries) >= MaxEntries
          /\ \E old \in entries :
               /\ evictOneLocked(old)
               /\ entries' = (entries \ {old}) \cup {k}
               /\ entry' = [entry EXCEPT ![old] = blank,
                                         ![k] = heldEntry(nextToken + 1)]
    /\ admission' = [admission EXCEPT ![c] =
                       [key |-> k, token |-> nextToken + 1, attachment |-> 0]]
    /\ UNCHANGED closed

\* The keys whose entries maybeFinalizeLocked deletes from a closed registry,
\* given the entries es: nobody holds them.
finalizable(es) == {k \in entries : es[k].refs = 0 /\ ~es[k].busy}

\* The entry of k without one reference.
released(k) ==
    [entry EXCEPT ![k] = [entry[k] EXCEPT !.busy = FALSE,
                                          !.refs = IF @ > 0 THEN @ - 1 ELSE @]]

\* Mutant: release does not finalize the entry.
releaseNoFinalize(c, k) ==
    /\ Holds(c, k)
    /\ IF k \in entries /\ entry[k].entryToken = admission[c].token
         THEN entry' = released(k)
         ELSE UNCHANGED entry
    /\ admission' = [admission EXCEPT ![c] = noAdmission]
    /\ UNCHANGED <<entries, nextToken, closed>>

\* release, with maybeFinalizeLocked for the released entry.  Nothing happens
\* if the entry in the table is no longer the admission's.
release(c, k) ==
    /\ Holds(c, k)
    /\ IF k \in entries /\ entry[k].entryToken = admission[c].token
         THEN IF closed /\ k \in finalizable(released(k))
                THEN /\ entries' = entries \ {k}
                     /\ entry' = [entry EXCEPT ![k] = blank]
                ELSE /\ entry' = released(k)
                     /\ UNCHANGED entries
         ELSE UNCHANGED <<entries, entry>>
    /\ admission' = [admission EXCEPT ![c] = noAdmission]
    /\ UNCHANGED <<nextToken, closed>>

\* close: idle entries go at once, held ones when they are released.
close ==
    /\ ~closed
    /\ closed' = TRUE
    /\ entries' = entries \ finalizable(entry)
    /\ entry' = [k \in Keys |-> IF k \in finalizable(entry) THEN blank ELSE entry[k]]
    /\ UNCHANGED <<nextToken, admission>>

-----------------------------------------------------------------------------
(* What a holder records in its entry.  The methods work on the entry the  *)
(* admission points to; AdmissionCurrent says that is the one in the table.*)

\* The entry of c's key becomes e; the admission then works with token t.
Record(c, k, e, t) ==
    /\ Holds(c, k)
    /\ entry' = [entry EXCEPT ![k] = e]
    /\ admission' = [admission EXCEPT ![c].attachment = t]
    /\ UNCHANGED <<entries, nextToken, closed>>

\* replaceAttachment: an authoritative attach or new; the caller keeps the token.
replaceAttachment(c, k, r) ==
    /\ entry[k].attachmentToken < MaxToken
    /\ Record(c, k,
              [entry[k] EXCEPT !.attachmentToken = @ + 1, !.attachmentID = r,
                               !.control = NoRemote, !.controlToken = 0],
              entry[k].attachmentToken + 1)

\* invalidateAttachment: its token is not used by any caller.
invalidateAttachment(c, k) ==
    /\ entry[k].attachmentToken < MaxToken
    /\ Record(c, k,
              [entry[k] EXCEPT !.attachmentToken = @ + 1, !.attachmentID = NoRemote,
                               !.control = NoRemote, !.controlToken = 0],
              admission[c].attachment)

\* currentAttachmentToken
currentAttachmentToken(c, k) == Record(c, k, entry[k], entry[k].attachmentToken)

\* confirmCurrentAttachment, for the attachment token the caller works with.
confirmCurrentAttachment(c, k, r) ==
    /\ admission[c].attachment = entry[k].attachmentToken
    /\ Record(c, k, [entry[k] EXCEPT !.control = r,
                                     !.controlToken = admission[c].attachment],
              admission[c].attachment)

\* observeCurrent: a snapshot seen during a prompt.
observeCurrent(c, k, r) ==
    Record(c, k, [entry[k] EXCEPT !.control = r,
                                  !.controlToken = entry[k].attachmentToken],
           admission[c].attachment)

\* confirm: the model is in effect; m is Default for the construction-time one.
confirm(c, k, m) ==
    /\ admission[c].attachment = entry[k].attachmentToken
    /\ Record(c, k, [entry[k] EXCEPT !.liveDesired = m], admission[c].attachment)

\* invalidateVerification
invalidateVerification(c, k) ==
    Record(c, k, [entry[k] EXCEPT !.control = NoRemote, !.controlToken = 0],
           admission[c].attachment)

-----------------------------------------------------------------------------
Next ==
    \/ \E c \in Callers, k \in Keys :
         \/ acquireExisting(c, k) \/ acquireNew(c, k) \/ release(c, k)
         \/ \E r \in Remotes :
              \/ replaceAttachment(c, k, r)
              \/ confirmCurrentAttachment(c, k, r)
              \/ observeCurrent(c, k, r)
         \/ invalidateAttachment(c, k) \/ currentAttachmentToken(c, k)
         \/ \E m \in Models \cup {Default} : confirm(c, k, m)
         \/ invalidateVerification(c, k)
    \/ close

Spec == Init /\ [][Next]_vars

\* Every caller defers release(), so an admission is given back once the call
\* that took it returns.
Fairness == \A c \in Callers, k \in Keys : WF_vars(release(c, k))

FairSpec == Spec /\ Fairness

-----------------------------------------------------------------------------
(* Properties                                                              *)

\* An admission stays good for as long as it is held: its entry is still the
\* one in the table, marked busy with exactly this reference, so no eviction,
\* close or other acquire has touched it and release will find it.
AdmissionCurrent ==
    \A c \in Callers, k \in Keys :
        Holds(c, k) => /\ k \in entries
                       /\ entry[k].entryToken = admission[c].token
                       /\ entry[k].busy /\ entry[k].refs = 1

\* ErrSessionBusy: two callers are never admitted to the same ADK session.
AdmissionExclusive ==
    \A c, d \in Callers : admission[c].key = admission[d].key =>
                           c = d \/ admission[c].key = NoKey

\* The registry seen as a lock and a chosen model per session.  The table,
\* its limit and the eviction of entries are not visible through it.
holder == [k \in Keys |->
             IF \E c \in Callers : Holds(c, k)
               THEN CHOOSE c \in Callers : Holds(c, k) ELSE Nobody]

chosen == [k \in Keys |->
             IF k \in entries /\ ~closed THEN entry[k].liveDesired ELSE Default]

SL == INSTANCE SessionLock WITH holder <- holder, chosen <- chosen, shut <- closed

\* The registry implements the lock: admission is exclusive, and a model
\* confirmed for a session is not lost to eviction while the agent is open.
ImplementsSessionLock == SL!LockSpec

\* After close the registry empties itself as the admitted calls return.
ClosedDrains == closed ~> entries = {}
=============================================================================
