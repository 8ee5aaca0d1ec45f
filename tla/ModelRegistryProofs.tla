------------------------- MODULE ModelRegistryProofs ------------------------
(***************************************************************************)
(* Proofs about ModelRegistry for any sets of sessions and callers and any *)
(* limit: an admission stays good and exclusive while it is held, the      *)
(* registry implements SessionLock, and a closed one keeps no idle entry.  *)
(***************************************************************************)
EXTENDS ModelRegistry, FiniteSetTheorems, TLAPS

USE ModelRegistryAssumption

\* The types of the parts of the state, without the table's limit.
Types ==
    /\ entries \subseteq Keys /\ IsFiniteSet(entries)
    /\ entry \in [Keys -> Entry]
    /\ nextToken \in Nat
    /\ closed \in BOOLEAN
    /\ admission \in [Callers -> Admission]

\* The steps of a holder that record something in its entry, by what they leave
\* alone: the token, the reference and the busy mark of the entry.
Recording(c, k) ==
    \E e \in Entry, t \in Nat :
        /\ Record(c, k, e, t)
        /\ e.entryToken = entry[k].entryToken
        /\ e.refs = entry[k].refs /\ e.busy = entry[k].busy

\* The same with the live model left alone too.
Quiet(c, k) ==
    \E e \in Entry, t \in Nat :
        /\ Record(c, k, e, t)
        /\ e.entryToken = entry[k].entryToken
        /\ e.refs = entry[k].refs /\ e.busy = entry[k].busy
        /\ e.liveDesired = entry[k].liveDesired

\* replaceAttachment, confirmCurrentAttachment, observeCurrent,
\* invalidateAttachment, currentAttachmentToken and invalidateVerification
\* change nothing an admission or a chosen model depends on.
LEMMA QuietSteps ==
    ASSUME Types, NEW c \in Callers, NEW k \in Keys,
           \/ \E r \in Remotes :
                \/ replaceAttachment(c, k, r)
                \/ confirmCurrentAttachment(c, k, r)
                \/ observeCurrent(c, k, r)
           \/ invalidateAttachment(c, k) \/ currentAttachmentToken(c, k)
           \/ invalidateVerification(c, k)
    PROVE  Quiet(c, k)
<1>0. entry[k] \in Entry /\ admission[c] \in Admission
  BY DEF Types
<1>1. entry[k].attachmentToken \in Nat /\ admission[c].attachment \in Nat
  BY <1>0 DEF Entry, Admission
<1>2. ASSUME NEW r \in Remotes, replaceAttachment(c, k, r) PROVE Quiet(c, k)
  <2> DEFINE t == entry[k].attachmentToken + 1
             e == [entry[k] EXCEPT !.attachmentToken = t, !.attachmentID = r,
                                   !.control = NoRemote, !.controlToken = 0]
  <2>0. t \in Nat
    BY <1>1
  <2>1. e \in Entry
    <3> HIDE DEF t
    <3>1. QED
      BY <1>0, <2>0 DEF Entry
  <2>2. /\ e.entryToken = entry[k].entryToken /\ e.refs = entry[k].refs
        /\ e.busy = entry[k].busy /\ e.liveDesired = entry[k].liveDesired
    BY <1>0 DEF Entry
  <2>3. Record(c, k, e, t)
    BY <1>2 DEF replaceAttachment
  <2>4. QED
    BY <2>0, <2>1, <2>2, <2>3, Zenon DEF Quiet
<1>3. ASSUME NEW r \in Remotes, confirmCurrentAttachment(c, k, r) PROVE Quiet(c, k)
  <2> DEFINE e == [entry[k] EXCEPT !.control = r,
                                   !.controlToken = admission[c].attachment]
  <2>1. e \in Entry
    BY <1>0, <1>1 DEF Entry
  <2>2. /\ e.entryToken = entry[k].entryToken /\ e.refs = entry[k].refs
        /\ e.busy = entry[k].busy /\ e.liveDesired = entry[k].liveDesired
    BY <1>0 DEF Entry
  <2>3. Record(c, k, e, admission[c].attachment)
    BY <1>3 DEF confirmCurrentAttachment
  <2>4. QED
    BY <1>1, <2>1, <2>2, <2>3, Zenon DEF Quiet
<1>4. ASSUME NEW r \in Remotes, observeCurrent(c, k, r) PROVE Quiet(c, k)
  <2> DEFINE e == [entry[k] EXCEPT !.control = r,
                                   !.controlToken = entry[k].attachmentToken]
  <2>1. e \in Entry
    BY <1>0, <1>1 DEF Entry
  <2>2. /\ e.entryToken = entry[k].entryToken /\ e.refs = entry[k].refs
        /\ e.busy = entry[k].busy /\ e.liveDesired = entry[k].liveDesired
    BY <1>0 DEF Entry
  <2>3. Record(c, k, e, admission[c].attachment)
    BY <1>4 DEF observeCurrent
  <2>4. QED
    BY <1>1, <2>1, <2>2, <2>3, Zenon DEF Quiet
<1>5. ASSUME invalidateAttachment(c, k) PROVE Quiet(c, k)
  <2> DEFINE t == entry[k].attachmentToken + 1
             e == [entry[k] EXCEPT !.attachmentToken = t, !.attachmentID = NoRemote,
                                   !.control = NoRemote, !.controlToken = 0]
  <2>0. t \in Nat
    BY <1>1
  <2>1. e \in Entry
    <3> HIDE DEF t
    <3>1. QED
      BY <1>0, <2>0 DEF Entry
  <2>2. /\ e.entryToken = entry[k].entryToken /\ e.refs = entry[k].refs
        /\ e.busy = entry[k].busy /\ e.liveDesired = entry[k].liveDesired
    BY <1>0 DEF Entry
  <2>3. Record(c, k, e, admission[c].attachment)
    BY <1>5 DEF invalidateAttachment
  <2>4. QED
    BY <1>1, <2>1, <2>2, <2>3, Zenon DEF Quiet
<1>6. ASSUME currentAttachmentToken(c, k) PROVE Quiet(c, k)
  BY <1>0, <1>1, <1>6, Zenon DEF Quiet, currentAttachmentToken
<1>7. ASSUME invalidateVerification(c, k) PROVE Quiet(c, k)
  <2> DEFINE e == [entry[k] EXCEPT !.control = NoRemote, !.controlToken = 0]
  <2>1. e \in Entry
    BY <1>0 DEF Entry
  <2>2. /\ e.entryToken = entry[k].entryToken /\ e.refs = entry[k].refs
        /\ e.busy = entry[k].busy /\ e.liveDesired = entry[k].liveDesired
    BY <1>0 DEF Entry
  <2>3. Record(c, k, e, admission[c].attachment)
    BY <1>7 DEF invalidateVerification
  <2>4. QED
    BY <1>1, <2>1, <2>2, <2>3, Zenon DEF Quiet
<1>8. QED
  BY <1>2, <1>3, <1>4, <1>5, <1>6, <1>7, Zenon

\* confirm changes the live model and nothing else of the entry.
LEMMA ConfirmStep ==
    ASSUME Types, NEW c \in Callers, NEW k \in Keys, NEW m \in Models \cup {Default},
           confirm(c, k, m)
    PROVE  /\ Recording(c, k)
           /\ entry'[k].liveDesired = m
           /\ \A j \in Keys \ {k} : entry'[j] = entry[j]
<1> DEFINE e == [entry[k] EXCEPT !.liveDesired = m]
<1>1. entry[k] \in Entry /\ admission[c].attachment \in Nat
  BY DEF Types, Admission
<1>2. e \in Entry /\ e.liveDesired = m
  BY <1>1 DEF Entry
<1>3. e.entryToken = entry[k].entryToken /\ e.refs = entry[k].refs /\ e.busy = entry[k].busy
  BY <1>1 DEF Entry
<1>4. Record(c, k, e, admission[c].attachment)
  BY DEF confirm
<1> HIDE DEF e
<1>5. Recording(c, k)
  BY <1>1, <1>2, <1>3, <1>4, Zenon DEF Recording
<1>6. QED
  BY <1>2, <1>4, <1>5 DEF Record, Types

-----------------------------------------------------------------------------
\* The inductive invariant.  An idle entry has no references, so the first
\* admission to it holds the only one.
IInv ==
    /\ Types
    /\ AdmissionCurrent
    /\ AdmissionExclusive
    /\ \A k \in Keys : ~entry[k].busy => entry[k].refs = 0

\* A blank entry and a freshly held one are entries.
LEMMA FreshEntries ==
    ASSUME NEW t \in Nat
    PROVE  /\ newEntry(t) \in Entry /\ heldEntry(t) \in Entry
           /\ ~newEntry(t).busy /\ newEntry(t).refs = 0
           /\ newEntry(t).liveDesired = Default
           /\ heldEntry(t).busy /\ heldEntry(t).refs = 1
           /\ heldEntry(t).entryToken = t
           /\ heldEntry(t).liveDesired = Default
  BY DEF newEntry, heldEntry, Entry

\* The initial state satisfies the invariant.
LEMMA InvInit == Init => IInv
<1> SUFFICES ASSUME Init PROVE IInv
  OBVIOUS
<1>1. blank \in Entry /\ ~blank.busy /\ blank.refs = 0
  BY FreshEntries DEF blank
<1>2. noAdmission \in Admission /\ noAdmission.key = NoKey
  BY DEF noAdmission, Admission
<1>3. IsFiniteSet(entries)
  BY FS_EmptySet DEF Init
<1>4. Types
  BY <1>1, <1>2, <1>3 DEF Init, Types
<1>5. AdmissionCurrent /\ AdmissionExclusive
  BY <1>2 DEF Init, AdmissionCurrent, AdmissionExclusive, Holds
<1>6. QED
  BY <1>1, <1>4, <1>5 DEF IInv, Init

\* A holder's own records leave every admission as good as it was.
LEMMA InvRecording ==
    ASSUME IInv, NEW c \in Callers, NEW k \in Keys, Recording(c, k)
    PROVE  IInv'
<1>1. PICK e \in Entry, t \in Nat :
        /\ Record(c, k, e, t)
        /\ e.entryToken = entry[k].entryToken
        /\ e.refs = entry[k].refs /\ e.busy = entry[k].busy
  BY DEF Recording
<1>2. /\ entry' = [entry EXCEPT ![k] = e] /\ entry' \in [Keys -> Entry]
      /\ UNCHANGED <<entries, nextToken, closed>>
  BY <1>1 DEF Record, IInv, Types
<1>3. \A d \in Callers : /\ admission'[d].key = admission[d].key
                         /\ admission'[d].token = admission[d].token
  BY <1>1 DEF Record, IInv, Types, Admission
<1>4. admission' \in [Callers -> Admission]
  BY <1>1 DEF Record, IInv, Types, Admission
<1>5. \A j \in Keys : /\ entry'[j].entryToken = entry[j].entryToken
                      /\ entry'[j].refs = entry[j].refs
                      /\ entry'[j].busy = entry[j].busy
  BY <1>1, <1>2 DEF IInv, Types
<1>6. Types'
  BY <1>2, <1>4 DEF IInv, Types
<1>7. AdmissionCurrent'
  BY <1>2, <1>3, <1>5 DEF IInv, AdmissionCurrent, Holds
<1>8. AdmissionExclusive'
  BY <1>3 DEF IInv, AdmissionExclusive
<1>9. QED
  BY <1>5, <1>6, <1>7, <1>8 DEF IInv

\* acquire of an idle entry: nobody holds it, for a held one is busy.
LEMMA InvAcquireExisting ==
    ASSUME IInv, NEW c \in Callers, NEW k \in Keys, acquireExisting(c, k)
    PROVE  IInv'
<1>1. entry[k] \in Entry /\ ~entry[k].busy /\ entry[k].refs = 0 /\ k \in entries
  BY DEF IInv, Types, acquireExisting
<1>2. /\ entry' \in [Keys -> Entry] /\ entry'[k].busy /\ entry'[k].refs = 1
      /\ entry'[k].entryToken = entry[k].entryToken
      /\ \A j \in Keys \ {k} : entry'[j] = entry[j]
  BY <1>1 DEF IInv, Types, acquireExisting, Entry
<1>3. /\ admission' \in [Callers -> Admission]
      /\ admission'[c].key = k /\ admission'[c].token = entry[k].entryToken
      /\ \A d \in Callers \ {c} : admission'[d] = admission[d]
  BY <1>1 DEF IInv, Types, acquireExisting, Entry, Admission
<1>4. \A d \in Callers : admission[d].key # k
  BY <1>1 DEF IInv, AdmissionCurrent, Holds
<1>5. Types'
  BY <1>2, <1>3 DEF IInv, Types, acquireExisting
<1>6. AdmissionCurrent'
  BY <1>1, <1>2, <1>3 DEF IInv, AdmissionCurrent, Holds, acquireExisting
<1>7. AdmissionExclusive'
  BY <1>3, <1>4 DEF IInv, AdmissionExclusive
<1>8. QED
  BY <1>2, <1>5, <1>6, <1>7 DEF IInv

\* acquire of a new entry: the evicted one is idle, so nobody holds it.
LEMMA InvAcquireNew ==
    ASSUME IInv, NEW c \in Callers, NEW k \in Keys, acquireNew(c, k)
    PROVE  IInv'
<1> DEFINE n == nextToken + 1
<1>1. n \in Nat /\ k \notin entries
  BY DEF IInv, Types, acquireNew
<1>2. /\ heldEntry(n) \in Entry /\ heldEntry(n).busy /\ heldEntry(n).refs = 1
      /\ heldEntry(n).entryToken = n
      /\ blank \in Entry /\ ~blank.busy /\ blank.refs = 0
  BY <1>1, FreshEntries DEF blank
<1>3. PICK gone \in SUBSET entries :
        /\ \A j \in gone : entry[j].refs = 0
        /\ entries' = (entries \ gone) \cup {k}
        /\ entry' = [j \in Keys |-> IF j = k THEN heldEntry(n)
                                   ELSE IF j \in gone THEN blank ELSE entry[j]]
  <2>1. CASE /\ entries' = entries \cup {k}
             /\ entry' = [entry EXCEPT ![k] = heldEntry(n)]
    <3> WITNESS {} \in SUBSET entries
    <3>1. QED
      BY <2>1 DEF IInv, Types
  <2>2. CASE \E old \in entries :
               /\ evictOneLocked(old)
               /\ entries' = (entries \ {old}) \cup {k}
               /\ entry' = [entry EXCEPT ![old] = blank, ![k] = heldEntry(n)]
    <3>1. PICK old \in entries :
               /\ evictOneLocked(old)
               /\ entries' = (entries \ {old}) \cup {k}
               /\ entry' = [entry EXCEPT ![old] = blank, ![k] = heldEntry(n)]
      BY <2>2
    <3>2. entry[old].refs = 0
      BY <3>1 DEF evictOneLocked, evictable
    <3> WITNESS {old} \in SUBSET entries
    <3>3. QED
      BY <1>1, <3>1, <3>2 DEF IInv, Types
  <2>3. QED
    BY <2>1, <2>2 DEF acquireNew
<1> HIDE DEF n
<1>4. \A d \in Callers : admission[d].key # k /\ admission[d].key \notin gone
  <2> SUFFICES ASSUME NEW d \in Callers, NEW j \in Keys, admission[d].key = j
               PROVE  j # k /\ j \notin gone
    BY <1>3 DEF IInv, Types
  <2>1. QED
    BY <1>1, <1>3 DEF IInv, AdmissionCurrent, Holds
<1>5. /\ admission' \in [Callers -> Admission]
      /\ admission'[c].key = k /\ admission'[c].token = n
      /\ \A d \in Callers \ {c} : admission'[d] = admission[d]
  BY <1>1 DEF IInv, Types, acquireNew, Admission, n
<1>6. Types'
  <2>1. IsFiniteSet(entries')
    <3>1. IsFiniteSet(entries \ gone)
      BY FS_Subset DEF IInv, Types
    <3>2. QED
      BY <1>3, <3>1, FS_AddElement
  <2>2. entry' \in [Keys -> Entry]
    BY <1>2, <1>3 DEF IInv, Types
  <2>3. QED
    BY <1>1, <1>3, <1>5, <2>1, <2>2 DEF IInv, Types, acquireNew, n
<1>7. AdmissionCurrent'
  BY <1>2, <1>3, <1>4, <1>5 DEF IInv, AdmissionCurrent, Holds
<1>8. AdmissionExclusive'
  BY <1>4, <1>5 DEF IInv, AdmissionExclusive
<1>9. \A j \in Keys : ~entry'[j].busy => entry'[j].refs = 0
  BY <1>2, <1>3 DEF IInv
<1>10. QED
  BY <1>6, <1>7, <1>8, <1>9 DEF IInv

\* release: the caller's is the only reference to the entry.
LEMMA InvRelease ==
    ASSUME IInv, NEW c \in Callers, NEW k \in Keys, release(c, k)
    PROVE  IInv'
<1>1. /\ k \in entries /\ entry[k] \in Entry
      /\ entry[k].entryToken = admission[c].token
      /\ entry[k].refs = 1 /\ admission[c].key = k
  BY DEF IInv, Types, AdmissionCurrent, Holds, release
<1>2. \A d \in Callers \ {c} : admission[d].key # k
  BY <1>1 DEF IInv, AdmissionExclusive
<1>3. blank \in Entry /\ ~blank.busy /\ blank.refs = 0
  BY FreshEntries DEF blank
<1>4. /\ released(k) \in [Keys -> Entry]
      /\ ~released(k)[k].busy /\ released(k)[k].refs = 0
      /\ \A j \in Keys \ {k} : released(k)[j] = entry[j]
  <2> DEFINE e == [entry[k] EXCEPT !.busy = FALSE, !.refs = IF @ > 0 THEN @ - 1 ELSE @]
  <2>1. e \in Entry /\ ~e.busy /\ e.refs = 0
    <3>1. e = [entry[k] EXCEPT !.busy = FALSE, !.refs = 0]
      BY <1>1 DEF Entry
    <3> HIDE DEF e
    <3>2. QED
      BY <1>1, <3>1 DEF Entry
  <2>2. released(k) = [entry EXCEPT ![k] = e]
    BY DEF released
  <2> HIDE DEF e
  <2>3. QED
    BY <2>1, <2>2 DEF IInv, Types
<1>5. /\ entry' \in [Keys -> Entry] /\ ~entry'[k].busy /\ entry'[k].refs = 0
      /\ \A j \in Keys \ {k} : entry'[j] = entry[j]
      /\ entries' \in {entries, entries \ {k}}
  <2>1. CASE closed /\ k \in finalizable(released(k))
    BY <1>1, <1>3, <2>1 DEF release, IInv, Types
  <2>2. CASE ~(closed /\ k \in finalizable(released(k)))
    BY <1>1, <1>4, <2>2 DEF release
  <2>3. QED
    BY <2>1, <2>2
<1>6. /\ admission' \in [Callers -> Admission] /\ admission'[c].key = NoKey
      /\ \A d \in Callers \ {c} : admission'[d] = admission[d]
  BY DEF IInv, Types, release, Admission, noAdmission
<1>7. Types'
  <2>1. IsFiniteSet(entries')
    BY <1>5, FS_Subset DEF IInv, Types
  <2>2. QED
    BY <1>5, <1>6, <2>1 DEF IInv, Types, release
<1>8. AdmissionCurrent'
  BY <1>2, <1>5, <1>6 DEF IInv, AdmissionCurrent, Holds
<1>9. AdmissionExclusive'
  BY <1>6 DEF IInv, AdmissionExclusive
<1>10. QED
  BY <1>5, <1>7, <1>8, <1>9 DEF IInv

\* close: what it deletes is held by nobody.
LEMMA InvClose ==
    ASSUME IInv, close
    PROVE  IInv'
<1>1. blank \in Entry /\ ~blank.busy /\ blank.refs = 0
  BY FreshEntries DEF blank
<1>2. \A d \in Callers, j \in Keys : Holds(d, j) => j \notin finalizable(entry)
  BY DEF IInv, AdmissionCurrent, finalizable
<1>3. Types'
  <2>1. IsFiniteSet(entries')
    BY FS_Subset DEF IInv, Types, close
  <2>2. QED
    BY <1>1, <2>1 DEF IInv, Types, close
<1>4. AdmissionCurrent'
  BY <1>2 DEF IInv, Types, AdmissionCurrent, Holds, close
<1>5. AdmissionExclusive'
  BY DEF IInv, AdmissionExclusive, close
<1>6. \A j \in Keys : ~entry'[j].busy => entry'[j].refs = 0
  <2> SUFFICES ASSUME NEW j \in Keys PROVE ~entry'[j].busy => entry'[j].refs = 0
    OBVIOUS
  <2>1. entry'[j] \in {blank, entry[j]}
    BY DEF close
  <2>2. QED
    BY <1>1, <2>1 DEF IInv
<1>7. QED
  BY <1>3, <1>4, <1>5, <1>6 DEF IInv

\* Every step of the registry preserves the invariant.
LEMMA InvNext == IInv /\ [Next]_vars => IInv'
<1> SUFFICES ASSUME IInv, [Next]_vars PROVE IInv'
  OBVIOUS
<1>1. ASSUME NEW c \in Callers, NEW k \in Keys, acquireExisting(c, k) PROVE IInv'
  BY <1>1, InvAcquireExisting
<1>2. ASSUME NEW c \in Callers, NEW k \in Keys, acquireNew(c, k) PROVE IInv'
  BY <1>2, InvAcquireNew
<1>3. ASSUME NEW c \in Callers, NEW k \in Keys, release(c, k) PROVE IInv'
  BY <1>3, InvRelease
<1>4. ASSUME NEW c \in Callers, NEW k \in Keys, Quiet(c, k) PROVE IInv'
  <2>1. Recording(c, k)
    BY <1>4 DEF Quiet, Recording
  <2>2. QED
    BY <2>1, InvRecording
<1>5. ASSUME NEW c \in Callers, NEW k \in Keys, NEW m \in Models \cup {Default},
             confirm(c, k, m)
      PROVE  IInv'
  <2>1. Recording(c, k)
    BY <1>5, ConfirmStep DEF IInv
  <2>2. QED
    BY <2>1, InvRecording
<1>6. CASE close
  BY <1>6, InvClose
<1>7. CASE UNCHANGED vars
  BY <1>7 DEF vars, IInv, Types, AdmissionCurrent, AdmissionExclusive, Holds
<1>8. Types
  BY DEF IInv
<1>9. QED
  BY <1>1, <1>2, <1>3, <1>4, <1>5, <1>6, <1>7, <1>8, QuietSteps DEF Next

\* An admission held by a caller stays the current one of its session, and
\* no two callers hold one for the same session.
THEOREM AdmissionSafe == Spec => [](AdmissionCurrent /\ AdmissionExclusive)
<1>1. IInv => AdmissionCurrent /\ AdmissionExclusive
  BY DEF IInv
<1>2. QED
  BY <1>1, InvInit, InvNext, PTL DEF Spec

-----------------------------------------------------------------------------
\* Under exclusive admission the holder of a session is who is admitted to it.
LEMMA HolderIs ==
    ASSUME AdmissionExclusive, NEW c \in Callers, NEW k \in Keys, Holds(c, k)
    PROVE  holder[k] = c
<1>1. \A d \in Callers : Holds(d, k) => d = c
  BY DEF AdmissionExclusive, Holds
<1>2. QED
  BY <1>1 DEF holder

\* A session nobody is admitted to has no holder.
LEMMA HolderNobody ==
    ASSUME NEW k \in Keys, \A c \in Callers : ~Holds(c, k)
    PROVE  holder[k] = Nobody
  BY DEF holder

\* The holder changes only with the admissions.
LEMMA HolderSame ==
    ASSUME \A c \in Callers : admission'[c].key = admission[c].key
    PROVE  holder' = holder
<1>1. \A k \in Keys, c \in Callers : Holds(c, k)' <=> Holds(c, k)
  BY DEF Holds
<1>2. \A k \in Keys : (CHOOSE c \in Callers : Holds(c, k)')
                      = (CHOOSE c \in Callers : Holds(c, k))
  BY <1>1
<1>3. QED
  BY <1>1, <1>2 DEF holder

\* The abstract variables while a session is acquired, released, or its
\* entry changed.
LEMMA RefineLock ==
    ASSUME IInv, IInv', NEW c \in Callers, NEW k \in Keys,
           acquireExisting(c, k) \/ acquireNew(c, k)
    PROVE  SL!Lock(c, k)
<1>1. /\ ~closed /\ UNCHANGED closed
      /\ admission[c].key = NoKey /\ admission'[c].key = k
      /\ \A d \in Callers \ {c} : admission'[d] = admission[d]
  BY DEF acquireExisting, acquireNew, noAdmission, IInv, Types
<1>2. \A d \in Callers : ~Holds(d, k)
  BY DEF IInv, AdmissionCurrent, acquireExisting, acquireNew
<1>3. holder[k] = Nobody
  BY <1>2, HolderNobody
<1>4. holder' = [holder EXCEPT ![k] = c]
  <2>1. holder'[k] = c
    <3>1. \A d \in Callers : Holds(d, k)' <=> d = c
      BY <1>1, <1>2 DEF Holds
    <3>2. QED
      BY <3>1 DEF holder
  <2>2. ASSUME NEW j \in Keys \ {k} PROVE holder'[j] = holder[j]
    <3>1. \A d \in Callers : Holds(d, j)' <=> Holds(d, j)
      BY <1>1 DEF Holds
    <3>2. (CHOOSE d \in Callers : Holds(d, j)') = (CHOOSE d \in Callers : Holds(d, j))
      BY <3>1
    <3>3. QED
      BY <3>1, <3>2 DEF holder
  <2>3. QED
    BY <2>1, <2>2 DEF holder
<1>5. \A j \in Keys : chosen'[j] = chosen[j]
  <2> SUFFICES ASSUME NEW j \in Keys PROVE chosen'[j] = chosen[j]
    OBVIOUS
  <2>1. CASE acquireExisting(c, k)
    BY <2>1, <1>1 DEF chosen, acquireExisting, IInv, Types, Entry
  <2>2. CASE acquireNew(c, k)
    <3> DEFINE n == nextToken + 1
    <3>1. n \in Nat /\ k \notin entries
      BY <2>2 DEF IInv, Types, acquireNew
    <3>2. heldEntry(n).liveDesired = Default /\ blank.liveDesired = Default
      BY <3>1, FreshEntries DEF blank
    <3>3. CASE /\ entries' = entries \cup {k}
               /\ entry' = [entry EXCEPT ![k] = heldEntry(n)]
      BY <1>1, <3>1, <3>2, <3>3 DEF chosen, IInv, Types
    <3>4. CASE \E old \in entries :
                 /\ evictOneLocked(old)
                 /\ entries' = (entries \ {old}) \cup {k}
                 /\ entry' = [entry EXCEPT ![old] = blank, ![k] = heldEntry(n)]
      <4>1. PICK old \in entries :
                 /\ evictOneLocked(old)
                 /\ entries' = (entries \ {old}) \cup {k}
                 /\ entry' = [entry EXCEPT ![old] = blank, ![k] = heldEntry(n)]
        BY <3>4
      <4>2. entry[old].liveDesired = Default
        BY <4>1 DEF evictOneLocked, evictable
      <4>3. QED
        BY <1>1, <3>1, <3>2, <4>1, <4>2 DEF chosen, IInv, Types
    <3>5. QED
      BY <2>2, <3>3, <3>4 DEF acquireNew
  <2>3. QED
    BY <2>1, <2>2
<1>6. chosen' = chosen
  BY <1>5 DEF chosen
<1>7. QED
  BY <1>1, <1>3, <1>4, <1>6 DEF SL!Lock

\* release gives the lock back and forgets no model while the agent is open.
LEMMA RefineUnlock ==
    ASSUME IInv, IInv', NEW c \in Callers, NEW k \in Keys, release(c, k)
    PROVE  SL!Unlock(c, k)
<1>1. /\ admission[c].key = k /\ admission'[c].key = NoKey /\ UNCHANGED closed
      /\ \A d \in Callers \ {c} : admission'[d] = admission[d]
  BY DEF release, Holds, noAdmission, IInv, Types
<1>2. /\ k \in entries /\ entry[k].entryToken = admission[c].token
  BY <1>1 DEF IInv, AdmissionCurrent, Holds
<1>3. holder[k] = c
  BY <1>1, HolderIs DEF IInv, Holds
<1>4. holder' = [holder EXCEPT ![k] = Nobody]
  <2>1. holder'[k] = Nobody
    <3>1. \A d \in Callers : ~Holds(d, k)'
      BY <1>1 DEF IInv, AdmissionExclusive, Holds
    <3>2. QED
      BY <3>1 DEF holder
  <2>2. ASSUME NEW j \in Keys \ {k} PROVE holder'[j] = holder[j]
    <3>1. \A d \in Callers : Holds(d, j)' <=> Holds(d, j)
      BY <1>1 DEF Holds
    <3>2. (CHOOSE d \in Callers : Holds(d, j)') = (CHOOSE d \in Callers : Holds(d, j))
      BY <3>1
    <3>3. QED
      BY <3>1, <3>2 DEF holder
  <2>3. QED
    BY <2>1, <2>2 DEF holder
<1>5. chosen' = chosen
  <2>1. CASE closed
    BY <1>1, <2>1 DEF chosen
  <2>2. CASE ~closed
    <3>1. entries' = entries /\ entry' = released(k)
      BY <1>2, <2>2 DEF release
    <3>2. \A j \in Keys : released(k)[j].liveDesired = entry[j].liveDesired
      BY DEF released, IInv, Types, Entry
    <3>3. QED
      BY <1>1, <3>1, <3>2 DEF chosen
  <2>3. QED
    BY <2>1, <2>2
<1>6. QED
  BY <1>1, <1>3, <1>4, <1>5 DEF SL!Unlock

\* The records of a holder are invisible, except a confirmed model.
LEMMA RefineQuiet ==
    ASSUME IInv, NEW c \in Callers, NEW k \in Keys, Quiet(c, k)
    PROVE  UNCHANGED <<holder, chosen, closed>>
<1>1. PICK e \in Entry, t \in Nat :
        Record(c, k, e, t) /\ e.liveDesired = entry[k].liveDesired
  BY DEF Quiet
<1>2. \A d \in Callers : admission'[d].key = admission[d].key
  BY <1>1 DEF Record, IInv, Types, Admission
<1>3. \A j \in Keys : entry'[j].liveDesired = entry[j].liveDesired
  BY <1>1 DEF Record, IInv, Types
<1>4. chosen' = chosen
  BY <1>1, <1>3 DEF chosen, Record
<1>5. QED
  BY <1>1, <1>2, <1>4, HolderSame DEF Record

\* confirm is the choice of a model, or invisible in a closed registry.
LEMMA RefineConfirm ==
    ASSUME IInv, NEW c \in Callers, NEW k \in Keys, NEW m \in Models \cup {Default},
           confirm(c, k, m)
    PROVE  SL!Choose(c, k, m) \/ UNCHANGED <<holder, chosen, closed>>
<1>1. /\ Recording(c, k) /\ entry'[k].liveDesired = m
      /\ \A j \in Keys \ {k} : entry'[j] = entry[j]
  BY ConfirmStep DEF IInv
<1>2. Holds(c, k) /\ UNCHANGED <<entries, closed>>
  BY DEF confirm, Record
<1>3. \A d \in Callers : admission'[d].key = admission[d].key
  BY DEF confirm, Record, IInv, Types, Admission
<1>4. holder' = holder
  BY <1>3, HolderSame
<1>5. CASE closed
  BY <1>2, <1>4, <1>5 DEF chosen
<1>6. CASE ~closed
  <2>1. holder[k] = c
    BY <1>2, HolderIs DEF IInv
  <2>2. k \in entries
    BY <1>2 DEF IInv, AdmissionCurrent
  <2>3. chosen' = [chosen EXCEPT ![k] = m]
    BY <1>1, <1>2, <1>6, <2>2 DEF chosen
  <2>4. QED
    BY <1>2, <1>4, <1>6, <2>1, <2>3 DEF SL!Choose
<1>7. QED
  BY <1>5, <1>6

\* close forgets the chosen models and leaves the admissions alone.
LEMMA RefineShut ==
    ASSUME close PROVE SL!Shut
<1>1. \A d \in Callers : admission'[d].key = admission[d].key
  BY DEF close
<1>2. QED
  BY <1>1, HolderSame DEF close, chosen, SL!Shut

\* The bounded, evicting registry implements a lock and a chosen model per ADK
\* session: every step is a step of SessionLock or leaves it unchanged.
THEOREM RegistryImplementsLock == Spec => ImplementsSessionLock
<1>1. Init => SL!LockInit
  <2> SUFFICES ASSUME Init PROVE SL!LockInit
    OBVIOUS
  <2>1. \A k \in Keys : holder[k] = Nobody
    BY DEF Init, noAdmission, holder, Holds
  <2>2. QED
    BY <2>1 DEF Init, SL!LockInit, holder, chosen
<1>2. IInv /\ IInv' /\ [Next]_vars => [SL!LockNext]_(SL!lockVars)
  <2> SUFFICES ASSUME IInv, IInv', [Next]_vars PROVE [SL!LockNext]_(SL!lockVars)
    OBVIOUS
  <2>1. ASSUME NEW c \in Callers, NEW k \in Keys, acquireExisting(c, k) \/ acquireNew(c, k)
        PROVE  SL!LockNext
    BY <2>1, RefineLock DEF SL!LockNext
  <2>2. ASSUME NEW c \in Callers, NEW k \in Keys, release(c, k) PROVE SL!LockNext
    BY <2>2, RefineUnlock DEF SL!LockNext
  <2>3. ASSUME NEW c \in Callers, NEW k \in Keys, Quiet(c, k)
        PROVE  UNCHANGED SL!lockVars
    BY <2>3, RefineQuiet DEF SL!lockVars
  <2>4. ASSUME NEW c \in Callers, NEW k \in Keys, NEW m \in Models \cup {Default},
               confirm(c, k, m)
        PROVE  SL!LockNext \/ UNCHANGED SL!lockVars
    BY <2>4, RefineConfirm DEF SL!LockNext, SL!lockVars
  <2>5. CASE close
    BY <2>5, RefineShut DEF SL!LockNext
  <2>6. CASE UNCHANGED vars
    <3>1. holder' = holder
      BY <2>6, HolderSame DEF vars
    <3>2. QED
      BY <2>6, <3>1 DEF vars, chosen, SL!lockVars
  <2>7. Types
    BY DEF IInv
  <2>8. QED
    BY <2>1, <2>2, <2>3, <2>4, <2>5, <2>6, <2>7, QuietSteps DEF Next
<1>3. QED
  BY <1>1, <1>2, InvInit, InvNext, PTL DEF Spec, ImplementsSessionLock, SL!LockSpec

-----------------------------------------------------------------------------
\* Every variable keeps its type and the table never outgrows its limit: an
\* insertion into a full table is paid for by an eviction.
THEOREM TypeCorrect == Spec => []TypeOK
<1> DEFINE Bound == Cardinality(entries) <= MaxEntries
<1>1. Init => Bound
  BY FS_EmptySet DEF Init
<1>2. IInv /\ Bound /\ [Next]_vars => Bound'
  <2> SUFFICES ASSUME IInv, Bound, [Next]_vars PROVE Bound'
    OBVIOUS
  <2>1. IsFiniteSet(entries) /\ Cardinality(entries) \in Nat
    BY FS_CardinalityType DEF IInv, Types
  <2>2. ASSUME entries' \subseteq entries PROVE Bound'
    <3>1. Cardinality(entries') <= Cardinality(entries) /\ IsFiniteSet(entries')
      BY <2>1, <2>2, FS_Subset
    <3>2. Cardinality(entries') \in Nat
      BY <3>1, FS_CardinalityType
    <3>3. QED
      BY <2>1, <3>1, <3>2
  <2>3. ASSUME NEW c \in Callers, NEW k \in Keys, acquireNew(c, k) PROVE Bound'
    <3>1. CASE Cardinality(entries) < MaxEntries /\ entries' = entries \cup {k}
      <4>1. Cardinality(entries') <= Cardinality(entries) + 1
        <5>1. Cardinality(entries \cup {k}) =
                IF k \in entries THEN Cardinality(entries) ELSE Cardinality(entries) + 1
          BY <2>1, FS_AddElement
        <5>2. QED
          BY <2>1, <3>1, <5>1
      <4>2. Cardinality(entries') \in Nat
        BY <2>1, <3>1, FS_AddElement, FS_CardinalityType
      <4>3. QED
        BY <2>1, <3>1, <4>1, <4>2
    <3>2. CASE \E old \in entries : entries' = (entries \ {old}) \cup {k}
      <4>1. PICK old \in entries : entries' = (entries \ {old}) \cup {k}
        BY <3>2
      <4>2. /\ IsFiniteSet(entries \ {old})
            /\ Cardinality(entries \ {old}) = Cardinality(entries) - 1
        BY <2>1, FS_RemoveElement
      <4>3. Cardinality(entries') <= Cardinality(entries)
        <5> DEFINE rest == entries \ {old}
        <5>1. Cardinality(rest \cup {k}) =
                IF k \in rest THEN Cardinality(rest) ELSE Cardinality(rest) + 1
          BY <4>2, FS_AddElement
        <5>2. QED
          BY <2>1, <4>1, <4>2, <5>1
      <4>4. Cardinality(entries') \in Nat
        BY <4>1, <4>2, FS_AddElement, FS_CardinalityType
      <4>5. QED
        BY <2>1, <4>3, <4>4
    <3>3. QED
      BY <2>3, <3>1, <3>2 DEF acquireNew
  <2>4. ASSUME NEW c \in Callers, NEW k \in Keys,
               acquireExisting(c, k) \/ release(c, k) \/ Recording(c, k)
        PROVE  entries' \subseteq entries
    BY <2>4 DEF acquireExisting, release, Recording, Record
  <2>5. ASSUME NEW c \in Callers, NEW k \in Keys, Quiet(c, k)
        PROVE  entries' \subseteq entries
    BY <2>5 DEF Quiet, Record
  <2>6. ASSUME NEW c \in Callers, NEW k \in Keys, NEW m \in Models \cup {Default},
               confirm(c, k, m)
        PROVE  entries' \subseteq entries
    BY <2>6 DEF confirm, Record
  <2>7. ASSUME close \/ UNCHANGED vars PROVE entries' \subseteq entries
    BY <2>7 DEF close, vars
  <2>8. Types
    BY DEF IInv
  <2>9. QED
    BY <2>2, <2>3, <2>4, <2>5, <2>6, <2>7, <2>8, QuietSteps DEF Next
<1>3. IInv /\ Bound => TypeOK
  BY DEF IInv, Types, TypeOK
<1>4. QED
  BY <1>1, <1>2, <1>3, InvInit, InvNext, PTL DEF Spec

-----------------------------------------------------------------------------
(* The safety half of ClosedDrains: what a closed registry still holds.    *)

\* A closed registry has an entry only for a session that an admitted call
\* holds, so that it is empty when the last of them has released: close and
\* release leave no idle entry behind (maybeFinalizeLocked).
ClosedKeepsHeld ==
    closed => \A k \in entries : \E c \in Callers : Holds(c, k)

\* A busy entry is somebody's, and a closed registry has no idle ones.
DrainInv ==
    /\ \A k \in Keys : entry[k].busy => \E c \in Callers : Holds(c, k)
    /\ closed => \A k \in entries : entry[k].busy

\* Every step preserves it.
LEMMA DrainNext == IInv /\ DrainInv /\ [Next]_vars => DrainInv'
<1> SUFFICES ASSUME IInv, DrainInv, [Next]_vars PROVE DrainInv'
  OBVIOUS
<1>1. Types
  BY DEF IInv
<1>2. ASSUME NEW c \in Callers, NEW k \in Keys, Recording(c, k) PROVE DrainInv'
  <2>1. PICK e \in Entry, t \in Nat : Record(c, k, e, t) /\ e.busy = entry[k].busy
    BY <1>2 DEF Recording
  <2>2. \A d \in Callers : admission'[d].key = admission[d].key
    BY <1>1, <2>1 DEF Record, Types, Admission
  <2>3. \A j \in Keys : entry'[j].busy = entry[j].busy
    BY <1>1, <2>1 DEF Record, Types
  <2>4. UNCHANGED <<entries, closed>>
    BY <2>1 DEF Record
  <2>5. QED
    BY <1>1, <2>2, <2>3, <2>4 DEF DrainInv, Holds, Types
<1>3. ASSUME NEW c \in Callers, NEW k \in Keys, acquireExisting(c, k)
      PROVE  DrainInv'
  <2>1. /\ \A j \in Keys \ {k} : entry'[j] = entry[j]
        /\ admission'[c].key = k /\ admission[c].key = NoKey
        /\ \A d \in Callers \ {c} : admission'[d] = admission[d]
    BY <1>1, <1>3 DEF acquireExisting, Types, noAdmission
  <2>2. ~closed /\ UNCHANGED closed
    BY <1>3 DEF acquireExisting
  <2>3. ASSUME NEW j \in Keys, entry'[j].busy
        PROVE  \E d \in Callers : admission'[d].key = j
    BY <2>1, <2>3 DEF DrainInv, Holds
  <2>4. QED
    BY <2>2, <2>3 DEF DrainInv, Holds
<1>4. ASSUME NEW c \in Callers, NEW k \in Keys, acquireNew(c, k)
      PROVE  DrainInv'
  <2>1. ~closed /\ UNCHANGED closed
    BY <1>4 DEF acquireNew
  <2>2. /\ admission'[c].key = k /\ admission[c].key = NoKey
        /\ \A d \in Callers \ {c} : admission'[d] = admission[d]
    BY <1>1, <1>4 DEF acquireNew, Types, noAdmission
  <2>3. ASSUME NEW j \in Keys, j # k, entry'[j].busy PROVE entry[j].busy
    <3>1. ~blank.busy
      BY FreshEntries DEF blank
    <3>2. entry'[j] \in {entry[j], blank}
      BY <1>1, <1>4, <2>3 DEF acquireNew, Types
    <3>3. QED
      BY <2>3, <3>1, <3>2
  <2>4. ASSUME NEW j \in Keys, entry'[j].busy
        PROVE  \E d \in Callers : admission'[d].key = j
    BY <2>2, <2>3, <2>4 DEF DrainInv, Holds
  <2>5. QED
    BY <2>1, <2>4 DEF DrainInv, Holds
<1>5. ASSUME NEW c \in Callers, NEW k \in Keys, release(c, k) PROVE DrainInv'
  <2>1. /\ k \in entries /\ entry[k] \in Entry
        /\ entry[k].entryToken = admission[c].token
        /\ entry[k].refs = 1 /\ admission[c].key = k
    BY <1>5 DEF IInv, Types, AdmissionCurrent, Holds, release
  <2>2. \A d \in Callers \ {c} : admission'[d] = admission[d]
    BY <1>1, <1>5 DEF release, Types
  <2>3. /\ released(k) \in [Keys -> Entry] /\ ~released(k)[k].busy
        /\ released(k)[k].refs = 0
        /\ \A j \in Keys \ {k} : released(k)[j] = entry[j]
    <3> DEFINE e == [entry[k] EXCEPT !.busy = FALSE, !.refs = IF @ > 0 THEN @ - 1 ELSE @]
    <3>1. e = [entry[k] EXCEPT !.busy = FALSE, !.refs = 0]
      BY <2>1 DEF Entry
    <3>2. released(k) = [entry EXCEPT ![k] = e]
      BY DEF released
    <3> HIDE DEF e
    <3>3. e \in Entry /\ ~e.busy /\ e.refs = 0
      BY <2>1, <3>1 DEF Entry
    <3>4. QED
      BY <1>1, <3>2, <3>3 DEF Types
  <2>4. ~blank.busy
    BY FreshEntries DEF blank
  <2>5. ~entry'[k].busy /\ \A j \in Keys \ {k} : entry'[j] = entry[j]
    <3>1. entry' = released(k) \/ entry' = [entry EXCEPT ![k] = blank]
      BY <1>5, <2>1 DEF release
    <3>2. QED
      BY <1>1, <2>3, <2>4, <3>1 DEF Types
  <2>6. entries' \subseteq entries /\ UNCHANGED closed /\ (closed => k \notin entries')
    BY <1>5, <2>1, <2>3 DEF release, finalizable
  <2>7. ASSUME NEW j \in Keys, entry'[j].busy
        PROVE  \E d \in Callers : admission'[d].key = j
    BY <2>1, <2>2, <2>5, <2>7 DEF DrainInv, Holds
  <2>8. QED
    BY <1>1, <2>5, <2>6, <2>7 DEF DrainInv, Holds, Types
<1>6. CASE close
  <2>1. ~blank.busy
    BY FreshEntries DEF blank
  <2>2. \A k \in Keys : entry'[k].busy => entry[k].busy
    BY <1>6, <2>1 DEF close
  <2>3. \A k \in entries' : k \in entries /\ entry'[k] = entry[k] /\ entry[k].busy
    <3> SUFFICES ASSUME NEW k \in entries'
                 PROVE  k \in entries /\ entry'[k] = entry[k] /\ entry[k].busy
      OBVIOUS
    <3>1. k \in entries /\ k \in Keys /\ k \notin finalizable(entry)
      BY <1>1, <1>6 DEF close, Types
    <3>2. QED
      BY <1>6, <3>1 DEF close, finalizable, IInv
  <2>4. UNCHANGED admission
    BY <1>6 DEF close
  <2>5. QED
    BY <2>2, <2>3, <2>4 DEF DrainInv, Holds
<1>7. CASE UNCHANGED vars
  BY <1>7 DEF DrainInv, Holds, vars
<1>8. ASSUME NEW c \in Callers, NEW k \in Keys, Quiet(c, k) PROVE Recording(c, k)
  BY <1>8 DEF Quiet, Recording
<1>9. QED
  BY <1>1, <1>2, <1>3, <1>4, <1>5, <1>6, <1>7, <1>8, QuietSteps, ConfirmStep, Zenon
  DEF Next

\* After close an entry is left only while its holder has not released it.
THEOREM ClosedHoldsNoIdle == Spec => []ClosedKeepsHeld
<1>1. Init => DrainInv
  BY FreshEntries DEF Init, DrainInv, blank
<1>2. IInv /\ DrainInv => ClosedKeepsHeld
  BY DEF IInv, Types, DrainInv, ClosedKeepsHeld
<1>3. QED
  BY <1>1, <1>2, InvInit, InvNext, DrainNext, PTL DEF Spec
=============================================================================
