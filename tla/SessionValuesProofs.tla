------------------------- MODULE SessionValuesProofs ------------------------
(***************************************************************************)
(* Proofs about SessionValues, for any options, values, configurations and *)
(* answers of the backend.                                                 *)
(***************************************************************************)
EXTENDS SessionValues, TLAPS

-----------------------------------------------------------------------------
(* Maps and the operators on them.                                         *)

\* What a member of Maps is.
LEMMA MapsElim ==
    ASSUME NEW f \in Maps
    PROVE  DOMAIN f \subseteq Ids /\ f \in [DOMAIN f -> Values]
<1>1. PICK S \in SUBSET Ids : f \in [S -> Values]
  BY DEF Maps
<1> QED BY <1>1

\* How to show that a function is one.
LEMMA MapsIntro ==
    ASSUME NEW S \in SUBSET Ids, NEW f \in [S -> Values]
    PROVE  f \in Maps
BY DEF Maps

\* The empty list of values.
LEMMA EmptyMap == Empty \in Maps /\ DOMAIN Empty = {}
<1>1. Empty \in [{} -> Values] BY DEF Empty
<1> QED BY <1>1, MapsIntro DEF Empty

\* Without domain there is only the empty map.
LEMMA EmptyUnique ==
    ASSUME NEW f \in Maps, DOMAIN f = {}
    PROVE  f = Empty
<1>1. f = [id \in {} |-> Blank]
  <2>1. f = [id \in DOMAIN f |-> f[id]] BY MapsElim
  <2> QED BY <2>1
<1> QED BY <1>1 DEF Empty

\* normalizeSessionConfigValues drops the blank values and nothing else.
LEMMA Normalize ==
    ASSUME NEW f \in Maps
    PROVE  LET n == normalizeSessionConfigValues(f)
           IN  /\ n \in Maps
               /\ DOMAIN n = {i \in DOMAIN f : f[i] # Blank}
               /\ \A i \in DOMAIN n : n[i] = f[i] /\ n[i] # Blank
<1> DEFINE S == {i \in DOMAIN f : f[i] # Blank}
           n == [id \in S |-> f[id]]
<1>1. S \in SUBSET Ids /\ n \in [S -> Values]
  BY MapsElim
<1>2. n \in Maps
  BY <1>1, MapsIntro
<1> QED BY <1>2 DEF normalizeSessionConfigValues

\* withoutConfigIDs drops the blank values and the given ids.
LEMMA Without ==
    ASSUME NEW f \in Maps, NEW ids
    PROVE  LET n == withoutConfigIDs(f, ids)
           IN  /\ n \in Maps
               /\ DOMAIN n = {i \in DOMAIN f : f[i] # Blank} \ ids
               /\ \A i \in DOMAIN n : n[i] = f[i] /\ n[i] # Blank
<1> DEFINE S == {i \in DOMAIN f : f[i] # Blank} \ ids
           n == [id \in S |-> f[id]]
<1>1. S \in SUBSET Ids /\ n \in [S -> Values]
  BY MapsElim
<1>2. n \in Maps
  BY <1>1, MapsIntro
<1> QED BY <1>2 DEF withoutConfigIDs

\* mergeSessionConfigValues: the overrides win.
LEMMA Merge ==
    ASSUME NEW d \in Maps, NEW o \in Maps
    PROVE  LET n == mergeSessionConfigValues(d, o)
               dn == normalizeSessionConfigValues(d)
               on == normalizeSessionConfigValues(o)
           IN  /\ n \in Maps
               /\ DOMAIN n = DOMAIN dn \cup DOMAIN on
               /\ \A i \in DOMAIN on : n[i] = o[i]
               /\ \A i \in DOMAIN dn \ DOMAIN on : n[i] = d[i]
               /\ \A i \in DOMAIN n : n[i] # Blank
<1> DEFINE dn == normalizeSessionConfigValues(d)
           on == normalizeSessionConfigValues(o)
           S == DOMAIN dn \cup DOMAIN on
           n == [id \in S |-> IF id \in DOMAIN on THEN on[id] ELSE dn[id]]
<1>1. /\ dn \in Maps /\ on \in Maps
      /\ \A i \in DOMAIN dn : dn[i] = d[i] /\ dn[i] # Blank
      /\ \A i \in DOMAIN on : on[i] = o[i] /\ on[i] # Blank
  BY Normalize
<1> HIDE DEF dn, on
<1>2. S \in SUBSET Ids /\ n \in [S -> Values]
  BY <1>1, MapsElim
<1>3. n \in Maps
  BY <1>2, MapsIntro
<1>4. n = mergeSessionConfigValues(d, o)
  BY DEF mergeSessionConfigValues, dn, on
<1> QED BY <1>1, <1>3, <1>4 DEF dn, on

\* What a listing reports: an entry that is not blank, or the legacy mode.
LEMMA Current ==
    ASSUME NEW l \in Listings, ConfigValuesAssumption
    PROVE  LET vs == collectSessionConfigValues(l)
           IN  /\ vs \in Maps
               /\ DOMAIN vs \subseteq DOMAIN l.opts \cup {ModeId}
               /\ \A i \in DOMAIN vs : vs[i] # Blank /\ vs[i] = current(l, i)
               /\ \A i : i \notin DOMAIN vs => current(l, i) = Blank
               /\ \A i \in Ids : current(l, i) =
                    IF entry(l, i) # Blank THEN entry(l, i)
                    ELSE IF i = ModeId /\ l.mode # NoModes THEN l.mode
                    ELSE Blank
<1> DEFINE S == {i \in DOMAIN l.opts : l.opts[i] # Blank}
                \cup {i \in {ModeId} : l.mode \notin {NoModes, Blank}}
           n == [id \in S |-> IF id \in DOMAIN l.opts /\ l.opts[id] # Blank
                              THEN l.opts[id] ELSE l.mode]
<1>1. l.opts \in Maps /\ l.mode \in Values \cup {NoModes}
  BY DEF Listings, Modes
<1>2. DOMAIN l.opts \subseteq Ids /\ l.opts \in [DOMAIN l.opts -> Values]
  BY <1>1, MapsElim
<1>3. S \in SUBSET Ids /\ ModeId \in Ids
  BY <1>2 DEF ConfigValuesAssumption
<1>4. \A id \in S : n[id] \in Values /\ n[id] # Blank
  BY <1>1, <1>2
<1>5. n \in Maps
  BY <1>3, <1>4, MapsIntro
<1>6. n = collectSessionConfigValues(l)
  BY DEF collectSessionConfigValues
<1>7. \A i \in Ids : current(l, i) =
                    IF entry(l, i) # Blank THEN entry(l, i)
                    ELSE IF i = ModeId /\ l.mode # NoModes THEN l.mode
                    ELSE Blank
  BY <1>6 DEF current, entry
<1> QED BY <1>4, <1>5, <1>6, <1>7 DEF current

-----------------------------------------------------------------------------
(* Types.                                                                  *)

\* The constants of a session and a turn.
LEMMA Constants ==
    /\ NoSession \in Sessions /\ NoTurn \in Turns
    /\ NoTurn.bound /\ NoTurn.how = "existing" /\ ~NoTurn.failed
    /\ NoTurn.values = Empty /\ NoTurn.base = Empty /\ NoTurn.todo = Empty
    /\ ~NoSession.attached
<1>1. [opts |-> Empty, mode |-> NoModes] \in Listings
  BY EmptyMap DEF Listings, Modes
<1> QED BY <1>1, EmptyMap
        DEF NoSession, NewSession, NoTurn, Sessions, Turns

\* The changes of a session keep it one.
LEMMA SessionTypes ==
    ASSUME NEW s \in Sessions, NEW l \in Answers, NEW id \in Ids,
           NEW ok \in BOOLEAN
    PROVE  /\ Asked(s, l, id, ok) \in Sessions
           /\ Moved(s, l) \in Sessions
           /\ NewSession(l) \in Sessions
           /\ [s EXCEPT !.skipped = @ \cup {id}] \in Sessions
<1>1. l \in Listings BY SessionValuesAssumption
<1>2. changes(s.now, l) \in SUBSET Ids BY DEF changes
<1> QED BY <1>1, <1>2 DEF Sessions, Asked, Moved, NewSession

\* The end of a turn.
LEMMA EndTypes ==
    ASSUME TypeOK, NEW s \in Sessions
    PROVE  /\ Torn(s) \in Sessions
           /\ End(s) => sess' \in Sessions /\ kept' \in Sessions
                        /\ turn' \in Turns /\ pc' = "idle"
           /\ Abandon(s) => sess' \in Sessions /\ kept' \in Sessions
                        /\ turn' \in Turns /\ pc' = "idle"
<1>1. Torn(s) \in Sessions
  BY DEF Torn, Sessions, TypeOK, Turns
<1>2. [Torn(s) EXCEPT !.attached = TRUE] \in Sessions
  BY <1>1 DEF Sessions
<1> QED BY <1>1, <1>2, Constants DEF End, Abandon, TypeOK

\* The configured values, and what is left to apply.
LEMMA ConfigTypes ==
    ASSUME TypeOK
    PROVE  /\ config.values \in Maps
           /\ normalizeSessionConfigValues(config.values) \in Maps
           /\ required \subseteq Ids
           /\ \A b \in Maps : valuesToApply(b) \in Maps
           /\ \A id : done(id) \in Maps
<1>1. config.values \in Maps
  BY SessionValuesAssumption DEF TypeOK
<1>2. /\ normalizeSessionConfigValues(config.values) \in Maps
      /\ required \subseteq Ids
  BY <1>1, Normalize, MapsElim DEF required
<1>3. \A b \in Maps : valuesToApply(b) \in Maps
  BY <1>1, Merge DEF valuesToApply
<1>4. ASSUME NEW id PROVE done(id) \in Maps
  <2>1. turn.todo \in Maps BY DEF TypeOK, Turns
  <2>2. DOMAIN turn.todo \subseteq Ids /\ turn.todo \in [DOMAIN turn.todo -> Values]
    BY <2>1, MapsElim
  <2>3. done(id) \in [DOMAIN turn.todo \ {id} -> Values]
    BY <2>2 DEF done
  <2> QED BY <2>2, <2>3, MapsIntro
<1> QED BY <1>1, <1>2, <1>3, <1>4

\* The values of a binding.
LEMMA ValueTypes ==
    ASSUME TypeOK
    PROVE  /\ confirmedValues \in Maps
           /\ record \in [named : BOOLEAN, values : Maps]
           /\ rec.values \in Maps /\ turn.base \in Maps /\ turn.values \in Maps
           /\ turn.todo \in Maps /\ turn.cur \in Listings
           /\ \A ids : withoutConfigIDs(turn.values, ids) \in Maps
           /\ \A o : withoutModelConfigOptions(turn.values, o) \in Maps
<1>1. /\ rec.values \in Maps /\ turn.base \in Maps /\ turn.values \in Maps
      /\ turn.todo \in Maps /\ turn.cur \in Listings
  BY DEF TypeOK, Turns
<1>2. collectSessionConfigValues(turn.cur) \in Maps
  BY <1>1, Current, ConfigValuesAssumption
<1>3. confirmedValues \in Maps
  BY <1>1, <1>2, Without DEF confirmedValues, withoutModelConfigOptions
<1>4. \A ids : withoutConfigIDs(turn.values, ids) \in Maps
  BY <1>1, Without
<1> QED BY <1>1, <1>3, <1>4 DEF record, withoutModelConfigOptions

\* A descriptor names model options.
LEMMA DescriptorType ==
    ASSUME NEW o, NEW c \in modelDescriptors(o)
    PROVE  c \in SUBSET ModelIds
BY DEF modelDescriptors

LEMMA TypeInit == Init => TypeOK
BY Constants, SessionValuesAssumption DEF Init, TypeOK

\* One value of the configuration.
LEMMA TypeApply == TypeOK /\ applyValue => TypeOK'
<1> SUFFICES ASSUME TypeOK, applyValue PROVE TypeOK'
  OBVIOUS
<1>1. PICK id \in DOMAIN turn.todo :
          \/ optionMatches(id, turn.todo[id]) \/ setOption(id, turn.todo[id])
          \/ setMode(id, turn.todo[id]) \/ optionUnavailable(id)
  BY DEF applyValue
<1> DEFINE v == turn.todo[id]
<1>2. id \in Ids /\ v \in Values
  BY ValueTypes, MapsElim
<1>3. UNCHANGED <<config, rec, kept, pc>>
  BY DEF applyValue
<1>4. Continue(id) => turn' \in Turns
  BY ConfigTypes DEF Continue, TypeOK, Turns
<1>5. Fail => turn' \in Turns
  BY EmptyMap DEF Fail, TypeOK, Turns
<1>6. skipOptional(id) => turn' \in Turns /\ sess' \in Sessions
  BY <1>2, <1>4, <1>5 DEF skipOptional, TypeOK, Sessions
<1>7. RequestFails => turn' \in Turns /\ sess' \in Sessions
  BY <1>2, <1>5, SessionTypes DEF RequestFails, TypeOK
<1>8. turn' \in Turns /\ sess' \in Sessions
  <2>1. CASE optionMatches(id, v)
    BY <2>1, <1>4 DEF optionMatches, TypeOK
  <2>2. CASE setOption(id, v)
    <3>1. CASE ~fits(id, v)
      BY <2>2, <3>1, <1>5 DEF setOption, TypeOK
    <3>2. ASSUME NEW l \in Answers,
                 sess' = Asked(sess, l, id, matches(l, id, v)),
                 turn' = [turn EXCEPT !.todo = done(id), !.cur.opts = l.opts]
          PROVE  turn' \in Turns /\ sess' \in Sessions
      <4>1. matches(l, id, v) \in BOOLEAN BY DEF matches
      <4>2. sess' \in Sessions BY <3>2, <4>1, <1>2, SessionTypes DEF TypeOK
      <4>3. l \in Listings BY SessionValuesAssumption
      <4> QED BY <3>2, <4>2, <4>3, ConfigTypes DEF TypeOK, Turns, Listings
    <3> QED BY <2>2, <3>1, <3>2, <1>6, <1>7 DEF setOption
  <2>3. CASE setMode(id, v)
    <3>1. CASE v \in Bools
      BY <2>3, <3>1, <1>5 DEF setMode, TypeOK
    <3>2. ASSUME NEW l \in Answers,
                 sess' = Asked(sess, l, id, l.mode = v /\ id \notin DOMAIN l.opts),
                 turn' = [turn EXCEPT !.todo = done(id), !.cur.mode = v]
          PROVE  turn' \in Turns /\ sess' \in Sessions
      <4>1. sess' \in Sessions BY <3>2, <1>2, SessionTypes DEF TypeOK
      <4> QED BY <3>2, <4>1, <1>2, ConfigTypes DEF TypeOK, Turns, Listings, Modes
    <3> QED BY <2>3, <3>1, <3>2, <1>6, <1>7 DEF setMode
  <2>4. CASE optionUnavailable(id)
    BY <2>4, <1>6 DEF optionUnavailable
  <2> QED BY <1>1, <2>1, <2>2, <2>3, <2>4
<1> QED BY <1>3, <1>8 DEF TypeOK

\* Every step keeps the types.
LEMMA TypeNext == TypeOK /\ [Next]_vars => TypeOK'
<1> SUFFICES ASSUME TypeOK, [Next]_vars PROVE TypeOK'
  OBVIOUS
<1>0. /\ sess \in Sessions /\ kept \in Sessions /\ turn \in Turns
      /\ resumed \subseteq Listings
  BY SessionValuesAssumption DEF TypeOK, resumed, Sessions
<1>1. CASE startTurn
  BY <1>1, <1>0, ValueTypes, Constants DEF startTurn, TypeOK, Turns
<1>2. CASE verifyExistingDesiredHeld
  <2>1. ASSUME NEW l \in resumed,
               sess' = [Moved(sess, l) EXCEPT !.state = "live"],
               turn' = [turn EXCEPT !.cur = l,
                          !.values = withoutModelConfigOptions(@, l.opts)]
        PROVE  sess' \in Sessions /\ turn' \in Turns
    <3>1. changes(sess.now, l) \in SUBSET Ids BY DEF changes
    <3>2. Moved(sess, l) \in Sessions BY <1>0, <3>1 DEF Moved, Sessions
    <3> QED BY <1>0, <2>1, <3>2, ValueTypes DEF Sessions, Turns
  <2>2. [sess EXCEPT !.attached = FALSE] \in Sessions
    BY <1>0 DEF Sessions
  <2> QED BY <1>2, <1>0, <2>1, <2>2, EndTypes DEF verifyExistingDesiredHeld, TypeOK
<1>3. CASE newSession
  <2>1. normalizeSessionConfigValues(turn.base) \in Maps
    BY ValueTypes, Normalize
  <2>2. config.protects \in BOOLEAN
    BY SessionValuesAssumption DEF TypeOK
  <2>3. ASSUME NEW l \in Answers,
               turn' = [turn EXCEPT !.how = "new", !.cur = l,
                          !.todo = valuesToApply(turn.base),
                          !.bound = config.protects]
        PROVE  turn' \in Turns
    BY <1>0, <2>2, <2>3, ConfigTypes, ValueTypes, SessionValuesAssumption DEF Turns
  <2>4. \A l \in Answers : NewSession(l) \in Sessions
    BY SessionValuesAssumption DEF NewSession, Sessions
  <2>5. rec' \in [named : BOOLEAN, values : Maps] /\ UNCHANGED config
    <3>1. [named |-> TRUE, values |-> normalizeSessionConfigValues(turn.base)]
             \in [named : BOOLEAN, values : Maps]
      BY <2>1
    <3>2. rec \in [named : BOOLEAN, values : Maps]
      BY DEF TypeOK
    <3>3. \/ rec' = rec
          \/ rec' = [named |-> TRUE,
                     values |-> normalizeSessionConfigValues(turn.base)]
      BY <1>3 DEF newSession
    <3> QED BY <1>3, <3>1, <3>2, <3>3 DEF newSession
  <2>6. CASE \E l \in Answers : /\ sess' = NewSession(l) /\ kept' = sess
                                  /\ turn' \in Turns /\ pc' = "config"
    BY <1>0, <2>4, <2>5, <2>6 DEF TypeOK
  <2>7. CASE Abandon(sess)
    BY <1>0, <2>5, <2>7, EndTypes DEF TypeOK
  <2> QED BY <1>3, <2>3, <2>6, <2>7 DEF newSession
<1>4. CASE applyValue
  BY <1>4, TypeApply
<1>5. CASE finishConfig
  BY <1>5, <1>0, ValueTypes DEF finishConfig, TypeOK, Turns
<1>6. CASE applyDesiredModel
  <2>1. \A l \in Answers : Moved(sess, l) \in Sessions
    <3> SUFFICES ASSUME NEW l \in Answers PROVE Moved(sess, l) \in Sessions
      OBVIOUS
    <3>1. changes(sess.now, l) \in SUBSET Ids BY DEF changes
    <3> QED BY <1>0, <3>1, SessionValuesAssumption DEF Moved, Sessions
  <2>2. ASSUME NEW o, NEW c \in modelDescriptors(o),
               turn' = [turn EXCEPT !.control = c]
        PROVE  turn' \in Turns
    BY <1>0, <2>2, DescriptorType DEF Turns
  <2>3. Abandon(sess) => sess' \in Sessions /\ kept' \in Sessions
                         /\ turn' \in Turns /\ pc' = "idle"
    BY <1>0, EndTypes
  <2> QED BY <1>6, <1>0, <2>1, <2>2, <2>3 DEF applyDesiredModel, TypeOK
<1>7. CASE persistBinding
  <2>1. ASSUME turn' = [turn EXCEPT !.bound = TRUE] PROVE turn' \in Turns
    BY <1>0, <2>1 DEF Turns
  <2> QED BY <1>7, <1>0, <2>1, EndTypes, Constants, ValueTypes
          DEF persistBinding, TypeOK
<1>8. CASE sendPrompt
  BY <1>8, <1>0, EndTypes DEF sendPrompt, TypeOK, Sessions
<1>9. CASE configUpdate
  <2>1. PICK l \in Answers, c \in UNION {modelDescriptors(m.opts) : m \in Answers} :
          /\ c \in modelDescriptors(l.opts)
          /\ sess' = Moved(sess, l)
          /\ \/ turn' = turn
             \/ turn' = [turn EXCEPT !.control = c, !.values = withoutConfigIDs(@, c)]
    BY <1>9 DEF configUpdate
  <2>2. changes(sess.now, l) \in SUBSET Ids BY DEF changes
  <2>3. sess' \in Sessions
    BY <1>0, <2>1, <2>2, SessionValuesAssumption DEF Moved, Sessions
  <2>4. turn' \in Turns
    <3>1. c \in SUBSET ModelIds BY <2>1, DescriptorType
    <3>2. withoutConfigIDs(turn.values, c) \in Maps BY ValueTypes
    <3> QED BY <1>0, <2>1, <3>1, <3>2 DEF Turns
  <2> QED BY <1>9, <2>3, <2>4 DEF configUpdate, TypeOK
<1>10. CASE modeUpdate
  <2>1. PICK m \in Values : sess' = Moved(sess, [sess.now EXCEPT !.mode = m])
    BY <1>10 DEF modeUpdate
  <2>2. [sess.now EXCEPT !.mode = m] \in Listings
    BY <1>0 DEF Sessions, Listings, Modes
  <2>3. changes(sess.now, [sess.now EXCEPT !.mode = m]) \in SUBSET Ids
    BY DEF changes
  <2>4. sess' \in Sessions
    BY <1>0, <2>1, <2>2, <2>3 DEF Moved, Sessions
  <2> QED BY <1>10, <2>4 DEF modeUpdate, TypeOK
<1>11. CASE finishTurn
  BY <1>11, <1>0, EndTypes, ValueTypes DEF finishTurn, TypeOK
<1>12. CASE failTurn
  BY <1>12, <1>0, EndTypes DEF failTurn, TypeOK
<1>13. CASE sessionNotFound
  BY <1>13, <1>0, ValueTypes, Constants DEF sessionNotFound, TypeOK, Turns
<1>14. CASE resumeSession
  <2>1. PICK l \in resumed :
          /\ sess' = [sess EXCEPT !.now = l, !.state = "live", !.moved = {},
                        !.skipped = {}, !.torn = FALSE, !.changed = FALSE]
          /\ turn' = [turn EXCEPT !.how = "resumed", !.cur = l,
                        !.todo = normalizeSessionConfigValues(config.values)]
    BY <1>14 DEF resumeSession
  <2>2. l \in Listings BY <1>0
  <2>3. sess' \in Sessions BY <1>0, <2>1, <2>2 DEF Sessions
  <2>4. turn' \in Turns BY <1>0, <2>1, <2>2, ConfigTypes DEF Turns
  <2> QED BY <1>14, <2>3, <2>4 DEF resumeSession, TypeOK
<1>15. CASE alreadyExists
  BY <1>15, <1>0, EndTypes DEF alreadyExists, TypeOK, Sessions
<1>16. CASE replaceSession
  BY <1>16 DEF replaceSession, TypeOK
<1>17. CASE resumeFails
  BY <1>17, <1>0, EndTypes DEF resumeFails, TypeOK
<1>18. CASE restart
  BY <1>18, <1>0 DEF restart, TypeOK, Sessions
<1>19. CASE forget
  BY <1>19, <1>0 DEF forget, TypeOK, Sessions
<1>20. CASE UNCHANGED vars
  BY <1>20 DEF vars, TypeOK
<1> QED BY <1>1, <1>2, <1>3, <1>4, <1>5, <1>6, <1>7, <1>8, <1>9, <1>10, <1>11,
           <1>12, <1>13, <1>14, <1>15, <1>16, <1>17, <1>18, <1>19, <1>20
        DEF Next, SetUp

\* The state of the turn, the session and the record keep their types.
THEOREM TypeCorrect == Spec => []TypeOK
BY TypeInit, TypeNext, PTL DEF Spec

-----------------------------------------------------------------------------
(* The inductive invariant.                                                *)

\* What a session that a turn finds promises to the turn.
InForce(c, s) ==
    (~s.torn /\ ~s.changed) =>
        \A id \in DOMAIN normalizeSessionConfigValues(c.values) \ s.moved :
            current(s.now, id) = c.values[id]

\* The values a set-up applies.
Wanted(c, how, base) ==
    IF how = "new" THEN mergeSessionConfigValues(base, c.values)
    ELSE normalizeSessionConfigValues(c.values)

\* A value is still to be applied or is in force, but for what the backend
\* moved and what was skipped.
Applied(c, want, todo, s) ==
    /\ \A id \in DOMAIN todo : id \in DOMAIN want /\ todo[id] = want[id]
    /\ \A id \in DOMAIN want \ DOMAIN todo :
          \/ id \in s.moved
          \/ id \in s.skipped \ DOMAIN normalizeSessionConfigValues(c.values)
          \/ current(s.now, id) = want[id]

\* The listing the turn works with is what the backend has, but for what the
\* backend moved.
Believed(cur, s) ==
    \A id \in Ids \ s.moved :
        /\ entry(cur, id) = entry(s.now, id)
        /\ (id = ModeId /\ entry(s.now, id) = Blank) => cur.mode = s.now.mode

\* A turn that sets a session up, and has not failed to.
SettingUp == turn.how # "existing" /\ ~turn.failed

\* The session a turn finds is in order while no set-up is under way, and so is
\* a new session's predecessor while the new one is not on record.
InvRecorded ==
    /\ (pc \notin {"idle", "new"} /\ turn.how = "existing") => found
    /\ pc \in {"prompt", "stream", "recover"} => rec.named
    /\ pc \in {"prompt", "stream"} => ~turn.failed
    /\ pc \in {"idle", "verify", "new", "recover"} => turn.how = "existing"
    /\ pc = "config" \/ turn.failed => turn.how # "existing"
    /\ turn.how # "new" => turn.bound
    /\ (turn.how = "existing" /\ found) => InForce(config, sess)
    /\ (~turn.bound /\ (rec.named \/ kept.attached)) => InForce(config, kept)
InvApplied ==
    /\ pc # "config" => turn.todo = Empty
    /\ SettingUp =>
          Applied(config, Wanted(config, turn.how, turn.base), turn.todo, sess)
InvBelieved == (SettingUp /\ pc # "stream") => Believed(turn.cur, sess)
InvValues ==
    /\ (pc \in {"model", "bind", "prompt"} /\ turn.how # "existing")
          => turn.values = confirmedValues
    /\ (pc = "prompt" /\ turn.how # "existing") => rec = record
InvModel ==
    \A id \in ModelIds : id \in DOMAIN turn.values => id \in DOMAIN turn.base

Facts == InvRecorded /\ InvApplied /\ InvBelieved /\ InvValues /\ InvModel
Inv == TypeOK /\ Facts

-----------------------------------------------------------------------------
(* How the changes of a session keep what the turn knows of it.            *)

\* The parts of a session that the backend moved.
LEMMA MovedFields ==
    ASSUME NEW s \in Sessions, NEW l \in Listings
    PROVE  LET m == Moved(s, l)
           IN  /\ m \in Sessions
               /\ m.now = l /\ m.moved = s.moved \cup changes(s.now, l)
               /\ m.skipped = s.skipped /\ m.attached = s.attached
               /\ m.torn = s.torn /\ m.changed = s.changed /\ m.state = s.state
<1>1. changes(s.now, l) \in SUBSET Ids BY DEF changes
<1> QED BY <1>1 DEF Moved, Sessions

\* What is not among the changes is as before.
LEMMA Unmoved ==
    ASSUME NEW k \in Listings, NEW l \in Listings, NEW id \in Ids \ changes(k, l)
    PROVE  /\ entry(l, id) = entry(k, id)
           /\ id = ModeId => l.mode = k.mode
           /\ current(l, id) = current(k, id)
<1>1. /\ entry(l, id) = entry(k, id)
      /\ id = ModeId => l.mode = k.mode
  BY DEF changes
<1>2. ConfigValuesAssumption BY ConfigValuesAssumption
<1> QED BY <1>1, <1>2, Current

\* The configured values are ids.
LEMMA ConfiguredIds ==
    ASSUME NEW c \in Configs
    PROVE  DOMAIN normalizeSessionConfigValues(c.values) \subseteq Ids
<1>1. c.values \in Maps BY SessionValuesAssumption
<1> QED BY <1>1, Normalize, MapsElim

LEMMA InForceMoved ==
    ASSUME NEW c \in Configs, NEW s \in Sessions, NEW l \in Listings, InForce(c, s)
    PROVE  InForce(c, Moved(s, l))
<1> DEFINE R == DOMAIN normalizeSessionConfigValues(c.values)
           m == Moved(s, l)
<1>1. R \subseteq Ids BY ConfiguredIds
<1>2. /\ m.now = l /\ m.moved = s.moved \cup changes(s.now, l)
      /\ m.torn = s.torn /\ m.changed = s.changed
  BY MovedFields
<1>3. s.now \in Listings BY DEF Sessions
<1> HIDE DEF m, R
<1>4. ASSUME ~m.torn, ~m.changed, NEW id \in R \ m.moved
      PROVE  current(m.now, id) = c.values[id]
  <2>1. current(s.now, id) = c.values[id]
    BY <1>2, <1>4 DEF InForce, R
  <2>2. id \in Ids \ changes(s.now, l)
    BY <1>1, <1>2, <1>4
  <2> QED BY <2>1, <2>2, <1>2, <1>3, Unmoved
<1>5. InForce(c, m)
  BY <1>4 DEF InForce, R
<1> QED BY <1>5 DEF m

\* A session that is the same but for its state, or is no longer promised to
\* be configured.
LEMMA InForceSame ==
    ASSUME NEW c, NEW s, NEW r,
           r.torn \/ r.changed \/
           (/\ InForce(c, s)
            /\ r.now = s.now /\ r.moved = s.moved /\ r.torn = s.torn
            /\ r.changed = s.changed)
    PROVE  InForce(c, r)
BY DEF InForce

LEMMA AppliedMoved ==
    ASSUME NEW c, NEW w \in Maps, NEW todo, NEW s \in Sessions,
           NEW l \in Listings, Applied(c, w, todo, s)
    PROVE  Applied(c, w, todo, Moved(s, l))
<1> DEFINE m == Moved(s, l)
<1>1. /\ m.now = l /\ m.moved = s.moved \cup changes(s.now, l)
      /\ m.skipped = s.skipped
  BY MovedFields
<1>2. s.now \in Listings BY DEF Sessions
<1>3. DOMAIN w \subseteq Ids BY MapsElim
<1> HIDE DEF m
<1>4. ASSUME NEW id \in DOMAIN w \ DOMAIN todo,
             id \notin m.moved, current(s.now, id) = w[id]
      PROVE  current(m.now, id) = w[id]
  BY <1>1, <1>2, <1>3, <1>4, Unmoved
<1>5. Applied(c, w, todo, m)
  BY <1>1, <1>4 DEF Applied
<1> QED BY <1>5 DEF m

LEMMA BelievedMoved ==
    ASSUME NEW cur, NEW s \in Sessions, NEW l \in Listings, Believed(cur, s)
    PROVE  Believed(cur, Moved(s, l))
<1> DEFINE m == Moved(s, l)
<1>1. m.now = l /\ m.moved = s.moved \cup changes(s.now, l)
  BY MovedFields
<1>2. s.now \in Listings BY DEF Sessions
<1> HIDE DEF m
<1>3. \A id \in Ids \ m.moved : /\ entry(m.now, id) = entry(s.now, id)
                                /\ id = ModeId => m.now.mode = s.now.mode
  BY <1>1, <1>2, Unmoved
<1>4. Believed(cur, m)
  BY <1>1, <1>3 DEF Believed
<1> QED BY <1>4 DEF m

-----------------------------------------------------------------------------
(* One value of the configuration.                                         *)

\* A session that was asked to set id.
LEMMA AskedFields ==
    ASSUME NEW s \in Sessions, NEW l \in Listings, NEW id \in Ids, NEW ok \in BOOLEAN
    PROVE  LET a == Asked(s, l, id, ok)
           IN  /\ a.now = l /\ a.skipped = s.skipped /\ a.attached = s.attached
               /\ a.moved \ {id} = (s.moved \cup changes(s.now, l)) \ {id}
               /\ id \in a.moved <=> ~ok
BY DEF Asked, Sessions

\* The value applied last joins the ones that are in force.
LEMMA AppliedDone ==
    ASSUME NEW c, NEW w, NEW todo, NEW s, NEW id, Applied(c, w, todo, s),
           \/ id \in s.moved
           \/ id \in s.skipped \ DOMAIN normalizeSessionConfigValues(c.values)
           \/ current(s.now, id) = w[id]
    PROVE  Applied(c, w, [i \in DOMAIN todo \ {id} |-> todo[i]], s)
BY DEF Applied

\* A request for a value that is still to be applied does not disturb the
\* others, unless the backend does.
LEMMA AppliedAsked ==
    ASSUME NEW c, NEW w \in Maps, NEW todo, NEW s \in Sessions, NEW l \in Listings,
           NEW id \in Ids, NEW ok \in BOOLEAN, id \in DOMAIN todo,
           Applied(c, w, todo, s)
    PROVE  Applied(c, w, todo, Asked(s, l, id, ok))
<1> DEFINE a == Asked(s, l, id, ok)
<1>1. /\ a.now = l /\ a.skipped = s.skipped
      /\ a.moved \ {id} = (s.moved \cup changes(s.now, l)) \ {id}
  BY AskedFields
<1>2. s.now \in Listings BY DEF Sessions
<1>3. DOMAIN w \subseteq Ids BY MapsElim
<1> HIDE DEF a
<1>4. ASSUME NEW i \in DOMAIN w \ DOMAIN todo,
             i \notin a.moved, current(s.now, i) = w[i]
      PROVE  current(a.now, i) = w[i]
  <2>1. i \in Ids \ changes(s.now, l)
    BY <1>1, <1>3, <1>4
  <2> QED BY <1>1, <1>2, <1>4, <2>1, Unmoved
<1>5. \A i \in DOMAIN w \ DOMAIN todo : i \in s.moved => i \in a.moved
  BY <1>1
<1>6. Applied(c, w, todo, a)
  BY <1>1, <1>4, <1>5 DEF Applied
<1> QED BY <1>6 DEF a

LEMMA AppliedSkipped ==
    ASSUME NEW c, NEW w, NEW todo, NEW s \in Sessions, NEW id, Applied(c, w, todo, s)
    PROVE  Applied(c, w, todo, [s EXCEPT !.skipped = @ \cup {id}])
BY DEF Applied, Sessions

\* The answer to set_config_option is the listing the turn goes on with.
LEMMA BelievedOption ==
    ASSUME NEW cur \in Listings, NEW s \in Sessions, NEW l \in Listings,
           NEW id \in Ids, NEW ok \in BOOLEAN, Believed(cur, s),
           ok => entry(l, id) # Blank
    PROVE  Believed([cur EXCEPT !.opts = l.opts], Asked(s, l, id, ok))
<1> DEFINE a == Asked(s, l, id, ok)
           n == [cur EXCEPT !.opts = l.opts]
<1>1. /\ a.now = l
      /\ a.moved \ {id} = (s.moved \cup changes(s.now, l)) \ {id}
      /\ id \in a.moved <=> ~ok
  BY AskedFields
<1>2. s.now \in Listings BY DEF Sessions
<1>3. n.opts = l.opts /\ n.mode = cur.mode BY DEF Listings
<1> HIDE DEF a, n
<1>4. ASSUME NEW i \in Ids \ a.moved
      PROVE  entry(n, i) = entry(a.now, i)
  BY <1>1, <1>3 DEF entry
<1>5. ASSUME ModeId \in Ids \ a.moved, entry(a.now, ModeId) = Blank
      PROVE  n.mode = a.now.mode
  <2>1. ModeId # id
    BY <1>1, <1>5
  <2>2. ModeId \notin s.moved /\ ModeId \in Ids \ changes(s.now, l)
    BY <2>1, <1>1, <1>5
  <2>3. entry(l, ModeId) = entry(s.now, ModeId) /\ l.mode = s.now.mode
    BY <2>2, <1>2, Unmoved
  <2>4. cur.mode = s.now.mode
    BY <2>2, <2>3, <1>1, <1>5 DEF Believed
  <2> QED BY <2>3, <2>4, <1>1, <1>3
<1>6. Believed(n, a)
  BY <1>4, <1>5 DEF Believed
<1> QED BY <1>6 DEF a, n

\* After set_mode the mode is taken to be the one that was asked for.
LEMMA BelievedMode ==
    ASSUME NEW cur \in Listings, NEW s \in Sessions, NEW l \in Listings,
           NEW v \in Values, NEW ok \in BOOLEAN, Believed(cur, s), ModeId \in Ids,
           ModeId \notin DOMAIN cur.opts,
           ok <=> l.mode = v /\ ModeId \notin DOMAIN l.opts
    PROVE  Believed([cur EXCEPT !.mode = v], Asked(s, l, ModeId, ok))
<1> DEFINE a == Asked(s, l, ModeId, ok)
           n == [cur EXCEPT !.mode = v]
<1>1. /\ a.now = l
      /\ a.moved \ {ModeId} = (s.moved \cup changes(s.now, l)) \ {ModeId}
      /\ ModeId \in a.moved <=> ~ok
  BY AskedFields
<1>2. s.now \in Listings BY DEF Sessions
<1>3. n.opts = cur.opts /\ n.mode = v BY DEF Listings
<1> HIDE DEF a, n
<1>4. ASSUME NEW i \in Ids \ a.moved, i # ModeId
      PROVE  entry(n, i) = entry(a.now, i)
  <2>1. i \notin s.moved /\ i \in Ids \ changes(s.now, l)
    BY <1>1, <1>4
  <2>2. entry(l, i) = entry(s.now, i)
    BY <2>1, <1>2, Unmoved
  <2>3. entry(cur, i) = entry(s.now, i)
    BY <2>1 DEF Believed
  <2> QED BY <2>2, <2>3, <1>1, <1>3 DEF entry
<1>5. ASSUME ModeId \notin a.moved
      PROVE  entry(n, ModeId) = entry(a.now, ModeId) /\ n.mode = a.now.mode
  BY <1>1, <1>3, <1>5 DEF entry
<1>6. Believed(n, a)
  BY <1>4, <1>5 DEF Believed
<1> QED BY <1>6 DEF a, n

\* The values to apply are values, none is blank, and the configured ones are
\* among them.
LEMMA WantedValues ==
    ASSUME NEW c \in Configs, NEW how, NEW base \in Maps
    PROVE  LET w == Wanted(c, how, base)
               n == normalizeSessionConfigValues(c.values)
           IN  /\ w \in Maps
               /\ \A id \in DOMAIN w : w[id] # Blank
               /\ \A id \in DOMAIN n : id \in DOMAIN w /\ w[id] = c.values[id]
<1>1. c.values \in Maps BY SessionValuesAssumption
<1>2. CASE how = "new"
  BY <1>1, <1>2, Merge DEF Wanted
<1>3. CASE how # "new"
  BY <1>1, <1>3, Normalize DEF Wanted
<1> QED BY <1>2, <1>3

\* What applying a value leaves alone, and what it achieves unless it fails.
LEMMA ApplyEffect ==
    ASSUME Inv, applyValue
    PROVE  /\ turn'.how = turn.how /\ turn'.base = turn.base
           /\ turn'.values = turn.values /\ turn'.bound = turn.bound
           /\ sess'.attached = sess.attached
           /\ ~turn'.failed =>
                 /\ ~turn.failed
                 /\ Applied(config, Wanted(config, turn.how, turn.base), turn'.todo, sess')
                 /\ Believed(turn'.cur, sess')
<1>1. PICK id \in DOMAIN turn.todo :
          \/ optionMatches(id, turn.todo[id]) \/ setOption(id, turn.todo[id])
          \/ setMode(id, turn.todo[id]) \/ optionUnavailable(id)
  BY DEF applyValue
<1> DEFINE v == turn.todo[id]
           w == Wanted(config, turn.how, turn.base)
           Kept == /\ turn'.how = turn.how /\ turn'.base = turn.base
                   /\ turn'.values = turn.values /\ turn'.bound = turn.bound
                   /\ sess'.attached = sess.attached
           Set == /\ Applied(config, w, turn'.todo, sess')
                  /\ Believed(turn'.cur, sess')
           Goal == Kept /\ (~turn'.failed => (~turn.failed /\ Set))
<1> SUFFICES Goal OBVIOUS
<1>2. /\ turn \in Turns /\ sess \in Sessions /\ config \in Configs /\ pc = "config"
      /\ turn.base \in Maps /\ turn.todo \in Maps /\ turn.cur \in Listings
      /\ sess.now \in Listings /\ turn.how # "existing" /\ Answers \subseteq Listings
  BY SessionValuesAssumption DEF Inv, Facts, TypeOK, Turns, Sessions, applyValue, InvRecorded
<1>3. id \in Ids /\ v \in Values
  BY <1>2, MapsElim
<1>4. /\ w \in Maps
      /\ \A i \in DOMAIN w : w[i] # Blank
      /\ \A i \in DOMAIN normalizeSessionConfigValues(config.values) : i \in DOMAIN w
  BY <1>2, WantedValues
<1> HIDE DEF w
<1>5. ~turn.failed =>
        /\ Applied(config, w, turn.todo, sess) /\ Believed(turn.cur, sess)
        /\ w[id] = v /\ v # Blank
  BY <1>2, <1>4 DEF Inv, Facts, InvApplied, InvBelieved, SettingUp, w, Applied
<1>6. Fail => /\ turn'.how = turn.how /\ turn'.base = turn.base
              /\ turn'.values = turn.values /\ turn'.bound = turn.bound
              /\ turn'.failed
  BY <1>2 DEF Fail, Turns
<1>7. Continue(id) =>
              /\ turn'.how = turn.how /\ turn'.base = turn.base
              /\ turn'.values = turn.values /\ turn'.bound = turn.bound
              /\ turn'.failed = turn.failed /\ turn'.cur = turn.cur
              /\ turn'.todo = [i \in DOMAIN turn.todo \ {id} |-> turn.todo[i]]
  BY <1>2 DEF Continue, done, Turns
<1>8. ASSUME skipOptional(id) PROVE Goal
  <2>1. CASE id \in required
    BY <1>8, <2>1, <1>6 DEF skipOptional
  <2>2. CASE id \notin required
    <3>1. Continue(id) /\ sess' = [sess EXCEPT !.skipped = @ \cup {id}]
      BY <1>8, <2>2 DEF skipOptional
    <3>2. /\ sess'.attached = sess.attached /\ sess'.now = sess.now
          /\ sess'.moved = sess.moved /\ id \in sess'.skipped
      BY <3>1, <1>2 DEF Sessions
    <3>3. ASSUME ~turn.failed PROVE Set
      <4>1. Applied(config, w, turn.todo, sess')
        BY <1>2, <1>5, <3>1, <3>3, AppliedSkipped
      <4>2. id \in sess'.skipped \ DOMAIN normalizeSessionConfigValues(config.values)
        BY <2>2, <3>2 DEF required
      <4>3. Applied(config, w, [i \in DOMAIN turn.todo \ {id} |-> turn.todo[i]], sess')
        BY <4>1, <4>2, AppliedDone
      <4> QED BY <4>3, <3>1, <3>2, <3>3, <1>5, <1>7 DEF Believed
    <3> QED BY <3>1, <3>2, <3>3, <1>7
  <2> QED BY <2>1, <2>2
<1>9. ASSUME RequestFails PROVE Goal
  <2>1. sess'.attached = sess.attached
    BY <1>9, <1>2, MovedFields DEF RequestFails
  <2> QED BY <1>9, <2>1, <1>6 DEF RequestFails
<1>10. CASE optionMatches(id, v)
  <2>1. Continue(id) /\ sess' = sess
    BY <1>10 DEF optionMatches
  <2>2. ASSUME ~turn.failed PROVE Set
    <3>1. id \in sess.moved \/ current(sess.now, id) = v
      <4> SUFFICES ASSUME id \notin sess.moved PROVE current(sess.now, id) = v
        OBVIOUS
      <4>1. /\ entry(turn.cur, id) = entry(sess.now, id)
            /\ (id = ModeId /\ entry(sess.now, id) = Blank) =>
                  turn.cur.mode = sess.now.mode
        BY <1>3, <1>5, <2>2 DEF Believed
      <4>2. current(sess.now, id) =
              IF entry(sess.now, id) # Blank THEN entry(sess.now, id)
              ELSE IF id = ModeId /\ sess.now.mode # NoModes THEN sess.now.mode
              ELSE Blank
        BY <1>2, <1>3, Current, ConfigValuesAssumption
      <4>3. v # Blank BY <1>5, <2>2
      <4>4. CASE matches(turn.cur, id, v)
        BY <4>1, <4>2, <4>3, <4>4 DEF matches, entry
      <4>5. CASE legacyMode(id) /\ turn.cur.mode = v
        <5>1. id = ModeId /\ entry(turn.cur, id) = Blank /\ turn.cur.mode # NoModes
          BY <4>5 DEF legacyMode, entry
        <5>2. sess.now.mode = v
          BY <5>1, <4>1, <4>5
        <5> QED BY <5>1, <5>2, <4>1, <4>2, <4>5
      <4> QED BY <1>10, <4>4, <4>5 DEF optionMatches
    <3>2. Applied(config, w, turn'.todo, sess)
      BY <3>1, <2>1, <2>2, <1>5, <1>7, AppliedDone
    <3> QED BY <3>2, <2>1, <2>2, <1>5, <1>7
  <2> QED BY <2>1, <2>2, <1>7
<1>11. ASSUME NEW l \in Answers, NEW ok \in BOOLEAN, NEW n,
              sess' = Asked(sess, l, id, ok),
              turn' = [turn EXCEPT !.todo = done(id), !.cur = n],
              ok /\ ~turn.failed => current(l, id) = v,
              ~turn.failed => Believed(n, Asked(sess, l, id, ok))
       PROVE  Goal
  <2>1. /\ turn'.how = turn.how /\ turn'.base = turn.base
        /\ turn'.values = turn.values /\ turn'.bound = turn.bound
        /\ turn'.failed = turn.failed /\ turn'.cur = n
        /\ turn'.todo = [i \in DOMAIN turn.todo \ {id} |-> turn.todo[i]]
    BY <1>11, <1>2 DEF done, Turns
  <2>2. l \in Listings BY <1>2
  <2>3. sess'.attached = sess.attached /\ sess'.now = l /\ (id \in sess'.moved <=> ~ok)
    BY <1>11, <1>2, <1>3, <2>2, AskedFields
  <2>4. ASSUME ~turn.failed PROVE Set
    <3>1. Applied(config, w, turn.todo, sess')
      BY <1>11, <2>2, <2>4, <1>2, <1>3, <1>4, <1>5, AppliedAsked
    <3>2. Applied(config, w, turn'.todo, sess')
      BY <3>1, <2>1, <2>3, <2>4, <1>5, <1>11, AppliedDone
    <3> QED BY <3>2, <1>11, <2>1, <2>4
  <2> QED BY <2>1, <2>3, <2>4
<1>12. CASE setOption(id, v)
  <2>1. CASE ~fits(id, v)
    BY <1>12, <2>1, <1>6 DEF setOption
  <2>2. ASSUME NEW l \in Answers,
               sess' = Asked(sess, l, id, matches(l, id, v)),
               turn' = [turn EXCEPT !.todo = done(id), !.cur.opts = l.opts]
        PROVE  Goal
    <3> DEFINE n == [turn.cur EXCEPT !.opts = l.opts]
               ok == matches(l, id, v)
    <3>1. ok \in BOOLEAN /\ l \in Listings
      BY <1>2 DEF matches
    <3>2. turn' = [turn EXCEPT !.todo = done(id), !.cur = n]
      BY <2>2, <1>2 DEF Turns
    <3>3. ASSUME ok, ~turn.failed PROVE entry(l, id) # Blank /\ current(l, id) = v
      <4>1. entry(l, id) = v /\ v # Blank
        BY <3>3, <1>5 DEF matches, entry
      <4> QED BY <4>1, <3>1, <1>3, Current, ConfigValuesAssumption
    <3>4. ~turn.failed => Believed(n, Asked(sess, l, id, ok))
      BY <3>1, <3>3, <1>2, <1>3, <1>5, BelievedOption
    <3> HIDE DEF n, ok
    <3>5. sess' = Asked(sess, l, id, ok)
      BY <2>2 DEF ok
    <3> QED BY <3>1, <3>2, <3>3, <3>4, <3>5, <1>11
  <2> QED BY <1>12, <2>1, <2>2, <1>8, <1>9 DEF setOption
<1>13. CASE setMode(id, v)
  <2>1. CASE v \in Bools
    BY <1>13, <2>1, <1>6 DEF setMode
  <2>2. ASSUME NEW l \in Answers,
               sess' = Asked(sess, l, id, l.mode = v /\ id \notin DOMAIN l.opts),
               turn' = [turn EXCEPT !.todo = done(id), !.cur.mode = v]
        PROVE  Goal
    <3> DEFINE n == [turn.cur EXCEPT !.mode = v]
               ok == l.mode = v /\ id \notin DOMAIN l.opts
    <3>1. /\ ok \in BOOLEAN /\ l \in Listings
          /\ id = ModeId /\ id \notin DOMAIN turn.cur.opts
      BY <1>2, <1>13 DEF setMode, legacyMode
    <3>2. turn' = [turn EXCEPT !.todo = done(id), !.cur = n]
      BY <2>2, <1>2 DEF Turns
    <3>3. ASSUME ok PROVE current(l, id) = v
      <4>1. entry(l, id) = Blank /\ l.mode = v /\ v # NoModes
        BY <3>3, <1>3, ConfigValuesAssumption DEF entry
      <4> QED BY <4>1, <3>1, <1>3, Current, ConfigValuesAssumption
    <3>4. ~turn.failed => Believed(n, Asked(sess, l, id, ok))
      BY <3>1, <1>2, <1>3, <1>5, BelievedMode
    <3> HIDE DEF n, ok
    <3>5. sess' = Asked(sess, l, id, ok)
      BY <2>2 DEF ok
    <3> QED BY <3>1, <3>2, <3>3, <3>4, <3>5, <1>11
  <2> QED BY <1>13, <2>1, <2>2, <1>8, <1>9 DEF setMode
<1>14. CASE optionUnavailable(id)
  BY <1>14, <1>8 DEF optionUnavailable
<1> QED BY <1>1, <1>10, <1>12, <1>13, <1>14

-----------------------------------------------------------------------------
(* The steps.                                                              *)

\* A turn ends with a session that is in order if it can be found.
LEMMA EndKeeps ==
    ASSUME NEW s, End(s), config' = config,
           rec'.named \/ s.attached => InForce(config, s)
    PROVE  Facts'
<1>1. pc' = "idle" /\ turn' = NoTurn /\ sess' = s
  BY DEF End
<1>2. /\ turn'.how = "existing" /\ turn'.bound /\ ~turn'.failed
      /\ turn'.todo = Empty /\ turn'.values = Empty
  BY <1>1, Constants
<1>3. InvRecorded'
  BY <1>1, <1>2 DEF InvRecorded, found
<1>4. InvApplied' /\ InvBelieved' /\ InvValues'
  BY <1>1, <1>2 DEF InvApplied, InvBelieved, InvValues, SettingUp
<1>5. InvModel'
  BY <1>2, EmptyMap DEF InvModel
<1> QED BY <1>3, <1>4, <1>5 DEF Facts

\* What a turn that ends before its prompt leaves behind is in order: it is
\* marked as torn unless it was in order and not touched.
LEMMA TornInForce ==
    ASSUME Inv, NEW s \in Sessions, turn.how = "existing" => InForce(config, s)
    PROVE  InForce(config, Torn(s))
<1>1. /\ Torn(s).torn = (s.torn \/ turn.how # "existing")
      /\ Torn(s).now = s.now /\ Torn(s).moved = s.moved
      /\ Torn(s).changed = s.changed
  BY DEF Torn, Sessions
<1>2. CASE turn.how = "existing"
  <2>1. Torn(s).torn = s.torn
    BY <1>1, <1>2 DEF Sessions
  <2> QED BY <1>1, <1>2, <2>1, InForceSame
<1>3. CASE turn.how # "existing"
  BY <1>1, <1>3 DEF InForce
<1> QED BY <1>2, <1>3

\* A turn gives up and leaves the record; the registry may drop the session.
LEMMA AbandonKeeps ==
    ASSUME Inv, NEW a \in BOOLEAN, Abandon([sess EXCEPT !.attached = a]),
           a => sess.attached, UNCHANGED <<config, rec>>
    PROVE  Facts'
<1> DEFINE s == [sess EXCEPT !.attached = a]
<1>1. /\ s \in Sessions /\ s.attached = a /\ s.now = sess.now
      /\ s.moved = sess.moved /\ s.torn = sess.torn /\ s.changed = sess.changed
  BY DEF Inv, TypeOK, Sessions
<1> HIDE DEF s
<1>2. /\ Torn(s) \in Sessions /\ Torn(s).attached = a
      /\ Torn(s).torn = (s.torn \/ turn.how # "existing")
  BY <1>1 DEF Torn, Sessions
<1>3. CASE turn.bound /\ End(Torn(s))
  <2>1. turn.how = "existing" /\ (rec.named \/ a) => InForce(config, s)
    BY <1>1, InForceSame DEF Inv, Facts, InvRecorded, found
  <2>2. rec'.named \/ Torn(s).attached => InForce(config, Torn(s))
    <3>1. CASE turn.how = "existing"
      BY <1>1, <1>2, <2>1, <3>1, TornInForce
    <3>2. CASE turn.how # "existing"
      BY <1>1, <3>2, TornInForce
    <3> QED BY <3>1, <3>2
  <2> QED BY <1>3, <2>2, EndKeeps
<1>4. CASE ~turn.bound /\ End([Torn(s) EXCEPT !.attached = TRUE])
  <2>1. turn.how # "existing"
    BY <1>4 DEF Inv, Facts, InvRecorded
  <2>2. [Torn(s) EXCEPT !.attached = TRUE].torn
    BY <1>2, <2>1 DEF Sessions
  <2> QED BY <1>4, <2>2, EndKeeps DEF InForce
<1>5. CASE ~turn.bound /\ End(kept)
  BY <1>5, EndKeeps DEF Inv, Facts, InvRecorded
<1> QED BY <1>3, <1>4, <1>5 DEF Abandon, s

\* The same where the registry keeps what it has.
LEMMA AbandonSame ==
    ASSUME Inv, Abandon(sess), UNCHANGED <<config, rec>>
    PROVE  Facts'
<1>1. sess = [sess EXCEPT !.attached = sess.attached] /\ sess.attached \in BOOLEAN
  BY DEF Inv, TypeOK, Sessions
<1> QED BY <1>1, AbandonKeeps

\* A turn begins, or begins again: nothing is set up yet.
LEMMA BeginKeeps ==
    ASSUME UNCHANGED <<config, rec, sess>>,
           turn'.how = "existing" /\ turn'.bound /\ ~turn'.failed,
           turn'.todo = Empty /\ turn'.values = rec.values /\ turn'.base = rec.values,
           found => InForce(config, sess),
           pc' \in {"new", "verify", "bind", "prompt", "recover"},
           pc' # "new" => found, pc' \in {"prompt", "recover"} => rec.named
    PROVE  Facts'
<1>1. InvRecorded'
  BY DEF InvRecorded, found
<1>2. InvApplied' /\ InvBelieved' /\ InvValues' /\ InvModel'
  BY DEF InvApplied, InvBelieved, InvValues, InvModel, SettingUp
<1> QED BY <1>1, <1>2 DEF Facts

\* Once it is set up the session has the configured values.
LEMMA SetUpInForce ==
    ASSUME Inv, SettingUp, turn.todo = Empty
    PROVE  InForce(config, sess)
<1> DEFINE w == Wanted(config, turn.how, turn.base)
           n == normalizeSessionConfigValues(config.values)
<1>1. config \in Configs /\ turn.base \in Maps
  BY DEF Inv, TypeOK, Turns
<1>2. \A id \in DOMAIN n : id \in DOMAIN w /\ w[id] = config.values[id]
  BY <1>1, WantedValues
<1>3. Applied(config, w, turn.todo, sess)
  BY DEF Inv, Facts, InvApplied
<1>4. DOMAIN turn.todo = {} BY EmptyMap
<1> HIDE DEF w
<1> QED BY <1>2, <1>3, <1>4 DEF Applied, InForce

\* A session that is prompted is in order.
LEMMA StreamInForce ==
    ASSUME Inv, pc = "stream"
    PROVE  InForce(config, sess)
<1>1. CASE turn.how = "existing"
  BY <1>1 DEF Inv, Facts, InvRecorded
<1>2. CASE turn.how # "existing"
  <2>1. SettingUp /\ turn.todo = Empty
    BY <1>2 DEF Inv, Facts, InvRecorded, InvApplied, SettingUp
  <2> QED BY <2>1, SetUpInForce
<1> QED BY <1>1, <1>2

LEMMA KeepsStart == Inv /\ startTurn => Facts'
<1> SUFFICES ASSUME Inv, startTurn PROVE Facts'
  OBVIOUS
<1>1. /\ turn'.how = "existing" /\ turn'.bound /\ ~turn'.failed
      /\ turn'.todo = Empty /\ turn'.values = rec.values /\ turn'.base = rec.values
  BY Constants DEF startTurn, Turns
<1>2. found => InForce(config, sess)
  BY DEF Inv, Facts, InvRecorded, startTurn
<1> QED BY <1>1, <1>2, BeginKeeps DEF startTurn

LEMMA KeepsNotFound == Inv /\ sessionNotFound => Facts'
<1> SUFFICES ASSUME Inv, sessionNotFound PROVE Facts'
  OBVIOUS
<1>1. /\ pc = "stream" /\ turn.how \in {"existing", "new", "resumed"}
      /\ rec.named /\ sess \in Sessions
  BY DEF sessionNotFound, Inv, Facts, InvRecorded, TypeOK, Turns
<1>2. InForce(config, sess)
  BY <1>1, StreamInForce
<1>3. /\ turn'.how = "existing" /\ turn'.bound /\ ~turn'.failed
      /\ turn'.todo = Empty /\ turn'.values = rec.values /\ turn'.base = rec.values
  BY Constants DEF sessionNotFound, Turns
<1> QED BY <1>1, <1>2, <1>3, BeginKeeps DEF sessionNotFound, found

LEMMA KeepsVerify == Inv /\ verifyExistingDesiredHeld => Facts'
<1> SUFFICES ASSUME Inv, verifyExistingDesiredHeld PROVE Facts'
  OBVIOUS
<1>1. CASE Abandon(sess) /\ UNCHANGED rec
  BY <1>1, AbandonSame DEF verifyExistingDesiredHeld
<1>3. CASE Abandon([sess EXCEPT !.attached = FALSE]) /\ UNCHANGED rec
  BY <1>3, AbandonKeeps DEF verifyExistingDesiredHeld
<1>2. ASSUME NEW l \in resumed,
             sess' = [Moved(sess, l) EXCEPT !.state = "live"],
             turn' = [turn EXCEPT !.cur = l,
                        !.values = withoutModelConfigOptions(@, l.opts)],
             pc' = "model", UNCHANGED <<config, rec, kept>>
      PROVE  Facts'
  <2>1. /\ pc = "verify" /\ turn \in Turns /\ sess \in Sessions /\ config \in Configs
        /\ l \in Listings /\ turn.values \in Maps
    BY <1>2, SessionValuesAssumption
       DEF verifyExistingDesiredHeld, Inv, TypeOK, resumed, Sessions, Turns
  <2>2. /\ turn.how = "existing" /\ found /\ turn.bound /\ InForce(config, sess)
        /\ turn.todo = Empty /\ ~turn.failed
    BY <2>1 DEF Inv, Facts, InvRecorded, InvApplied
  <2>3. /\ InForce(config, Moved(sess, l)) /\ Moved(sess, l) \in Sessions
        /\ Moved(sess, l).attached = sess.attached
    BY <2>1, <2>2, InForceMoved, MovedFields
  <2>4. InForce(config, sess') /\ sess'.attached = sess.attached
    <3>1. /\ sess'.attached = Moved(sess, l).attached /\ sess'.now = Moved(sess, l).now
          /\ sess'.moved = Moved(sess, l).moved /\ sess'.torn = Moved(sess, l).torn
          /\ sess'.changed = Moved(sess, l).changed
      BY <1>2, <2>3 DEF Sessions
    <3> QED BY <3>1, <2>3, InForceSame
  <2>5. /\ turn'.how = turn.how /\ turn'.bound = turn.bound /\ turn'.todo = turn.todo
        /\ turn'.base = turn.base /\ turn'.failed = turn.failed
        /\ turn'.values = withoutModelConfigOptions(turn.values, l.opts)
    BY <1>2, <2>1 DEF Turns
  <2>6. DOMAIN turn'.values \subseteq DOMAIN turn.values
    <3>1. DOMAIN withoutConfigIDs(turn.values, modelConfigOptionIDs(l.opts))
            = {i \in DOMAIN turn.values : turn.values[i] # Blank}
              \ modelConfigOptionIDs(l.opts)
      BY <2>1, Without
    <3> QED BY <2>5, <3>1 DEF withoutModelConfigOptions
  <2>7. InvRecorded'
    BY <1>2, <2>2, <2>4, <2>5 DEF InvRecorded, found
  <2>8. InvApplied' /\ InvBelieved' /\ InvValues'
    BY <1>2, <2>2, <2>5 DEF InvApplied, InvBelieved, InvValues, SettingUp
  <2>9. InvModel'
    BY <2>5, <2>6 DEF InvModel, Inv, Facts
  <2> QED BY <2>7, <2>8, <2>9 DEF Facts
<1> QED BY <1>1, <1>2, <1>3 DEF verifyExistingDesiredHeld

LEMMA KeepsNew == Inv /\ newSession => Facts'
<1> SUFFICES ASSUME Inv, newSession PROVE Facts'
  OBVIOUS
<1>1. CASE Abandon(sess) /\ UNCHANGED rec
  BY <1>1, AbandonSame DEF newSession
<1>2. ASSUME NEW l \in Answers,
             sess' = NewSession(l), kept' = sess,
             turn' = [turn EXCEPT !.how = "new", !.cur = l,
                        !.todo = valuesToApply(turn.base), !.bound = config.protects],
             ~config.protects => rec' = rec,
             pc' = "config", UNCHANGED config
      PROVE  Facts'
  <2>1. /\ pc = "new" /\ turn \in Turns /\ config \in Configs /\ turn.how = "existing"
        /\ rec.named \/ sess.attached => InForce(config, sess)
    BY DEF newSession, Inv, TypeOK, Facts, InvRecorded, found
  <2>2. /\ turn'.how = "new" /\ turn'.bound = config.protects /\ turn'.cur = l
        /\ turn'.todo = Wanted(config, "new", turn.base) /\ turn'.base = turn.base
        /\ turn'.values = turn.values
    BY <1>2, <2>1 DEF Turns, valuesToApply, Wanted
  <2>3. InvRecorded'
    BY <1>2, <2>1, <2>2 DEF InvRecorded
  <2>4. InvApplied'
    BY <1>2, <2>2 DEF InvApplied, Applied
  <2>5. InvBelieved'
    BY <1>2, <2>2 DEF InvBelieved, Believed, NewSession
  <2>6. InvValues' /\ InvModel'
    BY <1>2, <2>2 DEF InvValues, InvModel, Inv, Facts
  <2> QED BY <2>3, <2>4, <2>5, <2>6 DEF Facts
<1> QED BY <1>1, <1>2 DEF newSession

LEMMA KeepsApply == Inv /\ applyValue => Facts'
<1> SUFFICES ASSUME Inv, applyValue PROVE Facts'
  OBVIOUS
<1>1. /\ turn'.how = turn.how /\ turn'.base = turn.base
      /\ turn'.values = turn.values /\ turn'.bound = turn.bound
      /\ sess'.attached = sess.attached
      /\ ~turn'.failed =>
           /\ ~turn.failed
           /\ Applied(config, Wanted(config, turn.how, turn.base), turn'.todo, sess')
           /\ Believed(turn'.cur, sess')
  BY ApplyEffect
<1>2. pc = "config" /\ UNCHANGED <<config, rec, kept, pc>>
  BY DEF applyValue
<1>3. InvRecorded'
  BY <1>1, <1>2 DEF Inv, Facts, InvRecorded
<1>4. InvApplied' /\ InvBelieved'
  BY <1>1, <1>2 DEF InvApplied, InvBelieved, SettingUp
<1>5. InvValues' /\ InvModel'
  BY <1>1, <1>2 DEF InvValues, InvModel, Inv, Facts
<1> QED BY <1>3, <1>4, <1>5 DEF Facts

\* The values that go into the record have no model that was not there.
LEMMA ConfirmedModels ==
    ASSUME Inv
    PROVE  \A id \in ModelIds : id \in DOMAIN confirmedValues => id \in DOMAIN turn.base
<1> DEFINE vs == collectSessionConfigValues(turn.cur)
           ids == modelConfigOptionIDs(turn.cur.opts)
<1>1. turn.cur \in Listings
  BY DEF Inv, TypeOK, Turns
<1>2. vs \in Maps /\ DOMAIN vs \subseteq DOMAIN turn.cur.opts \cup {ModeId}
  BY <1>1, Current, ConfigValuesAssumption
<1> HIDE DEF vs
<1>3. DOMAIN withoutConfigIDs(vs, ids) = {i \in DOMAIN vs : vs[i] # Blank} \ ids
  BY <1>2, Without
<1>4. ModeId \notin ModelIds
  BY ConfigValuesAssumption
<1>5. \A id \in ModelIds : id \notin DOMAIN withoutConfigIDs(vs, ids)
  BY <1>2, <1>3, <1>4 DEF modelConfigOptionIDs
<1>6. confirmedValues = IF vs = Empty THEN turn.base ELSE withoutConfigIDs(vs, ids)
  BY DEF confirmedValues, vs, withoutModelConfigOptions
<1> QED BY <1>5, <1>6

LEMMA KeepsFinishConfig == Inv /\ finishConfig => Facts'
<1> SUFFICES ASSUME Inv, finishConfig PROVE Facts'
  OBVIOUS
<1>1. /\ pc = "config" /\ pc' = "model" /\ turn.todo = Empty /\ turn \in Turns
      /\ UNCHANGED <<config, rec, sess, kept>>
  BY DEF finishConfig, Inv, TypeOK
<1>2. /\ turn'.how = turn.how /\ turn'.base = turn.base /\ turn'.cur = turn.cur
      /\ turn'.bound = turn.bound /\ turn'.todo = turn.todo
      /\ turn'.failed = turn.failed /\ turn'.values = confirmedValues
  BY <1>1 DEF finishConfig, Turns
<1>3. InvRecorded'
  BY <1>1, <1>2 DEF Inv, Facts, InvRecorded
<1>4. InvApplied' /\ InvBelieved'
  BY <1>1, <1>2 DEF Inv, Facts, InvApplied, InvBelieved, SettingUp
<1>5. InvValues'
  BY <1>1, <1>2 DEF InvValues, confirmedValues
<1>6. InvModel'
  BY <1>2, ConfirmedModels DEF InvModel
<1> QED BY <1>3, <1>4, <1>5, <1>6 DEF Facts

\* A step in which the session is only moved, and the turn goes on with the
\* listing it has.
LEMMA MovedKeeps ==
    ASSUME Inv, pc # "config", UNCHANGED <<config, rec, kept>>, NEW l \in Listings,
           sess' = sess \/ sess' = Moved(sess, l),
           turn'.how = turn.how, turn'.base = turn.base, turn'.cur = turn.cur,
           turn'.bound = turn.bound, turn'.todo = turn.todo,
           turn'.failed = turn.failed,
           pc' = pc \/ (pc = "model" /\ pc' = "bind")
    PROVE  InvRecorded' /\ InvApplied' /\ InvBelieved'
<1> DEFINE w == Wanted(config, turn.how, turn.base)
<1>1. config \in Configs /\ sess \in Sessions /\ turn.base \in Maps
  BY DEF Inv, TypeOK, Turns
<1>2. InForce(config, sess) => InForce(config, sess')
  BY <1>1, InForceMoved
<1>3. sess'.attached = sess.attached
  BY <1>1, MovedFields
<1>4. w \in Maps
  BY <1>1, WantedValues
<1>5. Applied(config, w, turn.todo, sess) => Applied(config, w, turn.todo, sess')
  BY <1>1, <1>4, AppliedMoved
<1>6. Believed(turn.cur, sess) => Believed(turn.cur, sess')
  BY <1>1, BelievedMoved
<1> HIDE DEF w
<1>7. InvRecorded'
  BY <1>2, <1>3 DEF Inv, Facts, InvRecorded, found
<1>8. InvApplied'
  BY <1>5 DEF Inv, Facts, InvApplied, SettingUp, w
<1>9. InvBelieved'
  BY <1>6 DEF Inv, Facts, InvBelieved, SettingUp
<1> QED BY <1>7, <1>8, <1>9

LEMMA KeepsModel == Inv /\ applyDesiredModel => Facts'
<1> SUFFICES ASSUME Inv, applyDesiredModel PROVE Facts'
  OBVIOUS
<1>1. CASE Abandon(sess)
  BY <1>1, AbandonSame DEF applyDesiredModel
<1>2. ASSUME NEW c, turn' = [turn EXCEPT !.control = c], NEW l \in Listings,
             sess' = sess \/ sess' = Moved(sess, l), pc' = "bind",
             UNCHANGED <<config, rec, kept>>
      PROVE  Facts'
  <2>1. pc = "model" /\ turn \in Turns
    BY DEF applyDesiredModel, Inv, TypeOK
  <2>2. /\ turn'.how = turn.how /\ turn'.base = turn.base /\ turn'.cur = turn.cur
        /\ turn'.bound = turn.bound /\ turn'.todo = turn.todo
        /\ turn'.failed = turn.failed /\ turn'.values = turn.values
    BY <1>2, <2>1 DEF Turns
  <2>3. InvRecorded' /\ InvApplied' /\ InvBelieved'
    BY <1>2, <2>1, <2>2, MovedKeeps
  <2>4. InvValues'
    BY <1>2, <2>1, <2>2 DEF Inv, Facts, InvValues, confirmedValues
  <2>5. InvModel'
    BY <2>2 DEF Inv, Facts, InvModel
  <2> QED BY <2>3, <2>4, <2>5 DEF Facts
<1>3. UNCHANGED <<config, rec>>
  BY DEF applyDesiredModel
<1>4. CASE \E c : turn' = [turn EXCEPT !.control = c] /\ pc' = "bind" /\ UNCHANGED <<sess, kept>>
  <2>1. sess.now \in Listings
    BY DEF Inv, TypeOK, Sessions
  <2> QED BY <1>2, <1>3, <1>4, <2>1
<1>5. CASE \E l \in Answers : \E c : /\ turn' = [turn EXCEPT !.control = c]
                                     /\ sess' = Moved(sess, l)
                                     /\ pc' = "bind" /\ UNCHANGED kept
  BY <1>2, <1>3, <1>5, SessionValuesAssumption
<1> QED BY <1>1, <1>4, <1>5 DEF applyDesiredModel

LEMMA KeepsBind == Inv /\ persistBinding => Facts'
<1> SUFFICES ASSUME Inv, persistBinding PROVE Facts'
  OBVIOUS
<1>1. CASE UNCHANGED rec /\ Abandon(sess)
  BY <1>1, AbandonSame DEF persistBinding
<1>2. CASE rec' = record /\ End(Torn(sess))
  <2>1. turn.how = "existing" => InForce(config, sess)
    BY DEF persistBinding, Inv, Facts, InvRecorded
  <2>2. InForce(config, Torn(sess))
    BY <2>1, TornInForce DEF Inv, TypeOK
  <2> QED BY <1>2, <2>2, EndKeeps DEF persistBinding
<1>3. CASE /\ rec' = record /\ ~turn.failed
           /\ turn' = [turn EXCEPT !.bound = TRUE]
           /\ pc' = "prompt" /\ kept' = NoSession /\ UNCHANGED sess
  <2>1. pc = "bind" /\ turn \in Turns /\ UNCHANGED config
    BY DEF persistBinding, Inv, TypeOK
  <2>2. /\ turn'.how = turn.how /\ turn'.base = turn.base /\ turn'.cur = turn.cur
        /\ turn'.bound /\ turn'.todo = turn.todo /\ turn'.control = turn.control
        /\ turn'.failed = turn.failed /\ turn'.values = turn.values
    BY <1>3, <2>1 DEF Turns
  <2>3. InvRecorded'
    BY <1>3, <2>1, <2>2 DEF Inv, Facts, InvRecorded, found, record
  <2>4. InvApplied' /\ InvBelieved'
    BY <1>3, <2>1, <2>2 DEF Inv, Facts, InvApplied, InvBelieved, SettingUp
  <2>5. InvValues' /\ InvModel'
    BY <1>3, <2>1, <2>2
       DEF Inv, Facts, InvValues, InvModel, confirmedValues, record
  <2> QED BY <2>3, <2>4, <2>5 DEF Facts
<1> QED BY <1>1, <1>2, <1>3 DEF persistBinding

LEMMA KeepsPrompt == Inv /\ sendPrompt => Facts'
<1> SUFFICES ASSUME Inv, sendPrompt PROVE Facts'
  OBVIOUS
<1>1. CASE Abandon(sess)
  BY <1>1, AbandonSame DEF sendPrompt
<1>2. CASE pc' = "stream" /\ UNCHANGED <<sess, turn, kept>>
  <2>1. pc = "prompt" /\ UNCHANGED <<config, rec>>
    BY DEF sendPrompt
  <2>2. InvRecorded'
    BY <1>2, <2>1 DEF Inv, Facts, InvRecorded, found
  <2>3. InvApplied'
    BY <1>2, <2>1 DEF Inv, Facts, InvApplied, SettingUp
  <2>4. InvBelieved' /\ InvValues' /\ InvModel'
    BY <1>2 DEF Inv, Facts, InvBelieved, InvValues, InvModel
  <2> QED BY <2>2, <2>3, <2>4 DEF Facts
<1> QED BY <1>1, <1>2 DEF sendPrompt

LEMMA KeepsUpdate == Inv /\ (configUpdate \/ modeUpdate) => Facts'
<1> SUFFICES ASSUME Inv, configUpdate \/ modeUpdate PROVE Facts'
  OBVIOUS
<1>1. /\ pc = "stream" /\ UNCHANGED <<config, rec, kept, pc>> /\ turn \in Turns
      /\ sess.now \in Listings /\ turn.values \in Maps
  BY DEF configUpdate, modeUpdate, Inv, TypeOK, Sessions, Turns
<1>2. PICK l \in Listings : sess' = Moved(sess, l)
  <2>1. CASE configUpdate
    BY <2>1, SessionValuesAssumption DEF configUpdate
  <2>2. CASE modeUpdate
    <3>1. PICK m \in Values : sess' = Moved(sess, [sess.now EXCEPT !.mode = m])
      BY <2>2 DEF modeUpdate
    <3>2. [sess.now EXCEPT !.mode = m] \in Listings
      BY <1>1 DEF Listings, Modes
    <3> QED BY <3>1, <3>2
  <2> QED BY <2>1, <2>2
<1>3. \/ turn' = turn
      \/ \E c : turn' = [turn EXCEPT !.control = c, !.values = withoutConfigIDs(@, c)]
  BY DEF configUpdate, modeUpdate
<1>4. /\ turn'.how = turn.how /\ turn'.base = turn.base /\ turn'.cur = turn.cur
      /\ turn'.bound = turn.bound /\ turn'.todo = turn.todo
      /\ turn'.failed = turn.failed
      /\ \/ turn'.values = turn.values
         \/ \E c : turn'.values = withoutConfigIDs(turn.values, c)
  BY <1>1, <1>3 DEF Turns
<1>5. DOMAIN turn'.values \subseteq DOMAIN turn.values
  <2>1. ASSUME NEW c
        PROVE  DOMAIN withoutConfigIDs(turn.values, c)
                 = {i \in DOMAIN turn.values : turn.values[i] # Blank} \ c
    BY <1>1, Without
  <2> QED BY <1>4, <2>1
<1>6. InvRecorded' /\ InvApplied' /\ InvBelieved'
  BY <1>1, <1>2, <1>4, MovedKeeps
<1>7. InvValues' /\ InvModel'
  BY <1>1, <1>4, <1>5 DEF Inv, Facts, InvValues, InvModel
<1> QED BY <1>6, <1>7 DEF Facts

LEMMA KeepsEnd == Inv /\ (finishTurn \/ failTurn) => Facts'
BY StreamInForce, EndKeeps DEF finishTurn, failTurn

LEMMA KeepsResume == Inv /\ resumeSession => Facts'
<1> SUFFICES ASSUME Inv, resumeSession PROVE Facts'
  OBVIOUS
<1>1. PICK l \in resumed :
        /\ sess' = [sess EXCEPT !.now = l, !.state = "live", !.moved = {},
                      !.skipped = {}, !.torn = FALSE, !.changed = FALSE]
        /\ turn' = [turn EXCEPT !.how = "resumed", !.cur = l,
                      !.todo = normalizeSessionConfigValues(config.values)]
  BY DEF resumeSession
<1>2. /\ pc = "recover" /\ pc' = "config" /\ UNCHANGED <<config, rec, kept>>
      /\ turn \in Turns /\ sess \in Sessions
  BY DEF resumeSession, Inv, TypeOK
<1>3. turn.how = "existing" /\ turn.bound /\ ~turn.failed
  BY <1>2 DEF Inv, Facts, InvRecorded
<1>4. /\ turn'.how = "resumed" /\ turn'.base = turn.base /\ turn'.cur = l
      /\ turn'.bound = turn.bound /\ turn'.failed = turn.failed
      /\ turn'.values = turn.values
      /\ turn'.todo = Wanted(config, "resumed", turn.base)
  BY <1>1, <1>2 DEF Turns, Wanted
<1>5. sess'.now = l
  BY <1>1, <1>2 DEF Sessions
<1>6. InvRecorded'
  BY <1>2, <1>3, <1>4, <1>5 DEF InvRecorded
<1>7. InvApplied' /\ InvBelieved'
  BY <1>2, <1>4, <1>5 DEF InvApplied, InvBelieved, Applied, Believed
<1>8. InvValues' /\ InvModel'
  BY <1>2, <1>4 DEF Inv, Facts, InvValues, InvModel
<1> QED BY <1>6, <1>7, <1>8 DEF Facts

\* Steps of a turn, or between turns, that touch only the state of the session.
LEMMA StateKeeps ==
    ASSUME Inv, turn.how = "existing", UNCHANGED turn,
           rec' = rec, pc' # "config",
           pc' \in {"prompt", "stream"} => ~turn.failed,
           pc' \notin {"idle", "new"} => rec.named,
           turn.todo = Empty, rec.named \/ sess'.attached => InForce(config', sess')
    PROVE  Facts'
<1>1. turn.bound /\ ~turn.failed
  BY DEF Inv, Facts, InvRecorded
<1>2. InvRecorded'
  BY <1>1 DEF InvRecorded, found
<1>3. InvApplied' /\ InvBelieved' /\ InvValues' /\ InvModel'
  BY DEF Inv, Facts, InvApplied, InvBelieved, InvValues, InvModel, SettingUp
<1> QED BY <1>2, <1>3 DEF Facts

LEMMA KeepsRecover ==
    Inv /\ (alreadyExists \/ replaceSession \/ resumeFails) => Facts'
<1> SUFFICES ASSUME Inv, alreadyExists \/ replaceSession \/ resumeFails PROVE Facts'
  OBVIOUS
<1>1. /\ pc = "recover" /\ UNCHANGED <<config, rec>>
      /\ turn.how = "existing" /\ turn.todo = Empty /\ rec.named
      /\ InForce(config, sess) /\ ~turn.failed /\ sess \in Sessions
  BY DEF alreadyExists, replaceSession, resumeFails, Inv, Facts, InvRecorded,
         InvApplied, TypeOK, found
<1>2. CASE Abandon(sess)
  BY <1>1, <1>2, AbandonSame
<1>3. CASE pc' = "new" /\ UNCHANGED <<sess, turn>>
  BY <1>1, <1>3, StateKeeps
<1>4. CASE /\ pc' = "prompt" /\ sess' = [sess EXCEPT !.state = "live"]
           /\ UNCHANGED <<turn, kept>>
  <2>1. InForce(config, sess')
    BY <1>1, <1>4, InForceSame DEF Sessions
  <2> QED BY <1>1, <1>4, <2>1, StateKeeps
<1> QED BY <1>2, <1>3, <1>4 DEF alreadyExists, replaceSession, resumeFails

LEMMA KeepsBetween == Inv /\ (restart \/ forget) => Facts'
<1> SUFFICES ASSUME Inv, restart \/ forget PROVE Facts'
  OBVIOUS
<1>1. /\ pc = "idle" /\ UNCHANGED <<rec, kept, pc, turn>> /\ sess \in Sessions
      /\ turn.how = "existing" /\ turn.todo = Empty
      /\ found => InForce(config, sess)
  BY DEF restart, forget, Inv, Facts, InvRecorded, InvApplied, TypeOK
<1>2. rec.named \/ sess'.attached => InForce(config', sess')
  <2>1. CASE restart
    <3>1. /\ ~sess'.attached /\ sess'.now = sess.now
          /\ sess'.moved = sess.moved /\ sess'.torn = sess.torn
          /\ sess'.changed = (sess.changed \/ config'.values # config.values)
      BY <2>1, <1>1 DEF restart, Sessions
    <3>2. CASE config'.values = config.values
      BY <1>1, <3>1, <3>2 DEF InForce, found
    <3>3. CASE config'.values # config.values
      BY <1>1, <3>1, <3>3 DEF InForce, found
    <3> QED BY <3>2, <3>3
  <2>2. CASE forget
    <3>1. /\ sess'.now = sess.now /\ sess'.moved = sess.moved
          /\ sess'.torn = sess.torn /\ sess'.changed = sess.changed
          /\ config' = config
      BY <1>1, <2>2 DEF forget, Sessions
    <3> QED BY <1>1, <2>2, <3>1, InForceSame DEF forget
  <2> QED BY <2>1, <2>2
<1> QED BY <1>1, <1>2, StateKeeps

LEMMA FactsInit == Init => Facts
<1> SUFFICES ASSUME Init PROVE Facts
  OBVIOUS
<1>1. /\ turn.how = "existing" /\ turn.bound /\ ~turn.failed /\ turn.todo = Empty
      /\ turn.values = Empty /\ pc = "idle" /\ ~rec.named
      /\ ~sess.attached
  BY Constants DEF Init
<1>2. DOMAIN turn.values = {}
  BY <1>1, EmptyMap
<1> QED BY <1>1, <1>2
        DEF Facts, InvRecorded, found, InvApplied, InvBelieved, InvValues, InvModel,
            SettingUp

LEMMA FactsNext == Inv /\ [Next]_vars => Facts'
<1> SUFFICES ASSUME Inv, [Next]_vars PROVE Facts'
  OBVIOUS
<1>1. CASE UNCHANGED vars
  <2>1. /\ UNCHANGED <<config, rec, sess, kept, pc, turn>>
        /\ confirmedValues' = confirmedValues /\ record' = record
        /\ found' = found
    BY <1>1 DEF vars, confirmedValues, record, found
  <2> QED BY <2>1 DEF Inv, Facts, InvRecorded, InvApplied, InvBelieved, InvValues,
                      InvModel, SettingUp
<1> QED BY <1>1, KeepsStart, KeepsVerify, KeepsNew, KeepsApply, KeepsFinishConfig,
           KeepsModel, KeepsBind, KeepsPrompt, KeepsUpdate, KeepsEnd, KeepsNotFound,
           KeepsResume, KeepsRecover, KeepsBetween
        DEF Next, SetUp

\* The inductive invariant holds.
LEMMA InvHolds == Spec => []Inv
<1>1. Init => Inv
  BY TypeInit, FactsInit DEF Inv
<1>2. Inv /\ [Next]_vars => Inv'
  BY TypeNext, FactsNext DEF Inv
<1> QED BY <1>1, <1>2, PTL DEF Spec

-----------------------------------------------------------------------------
(* The theorems.                                                           *)

\* Whatever the backend answers, a prompt runs with the configured values in
\* force, as far as ConfiguredInForce says.
THEOREM ConfiguredCorrect == Spec => []ConfiguredInForce
<1>1. Inv => ConfiguredInForce
  BY StreamInForce DEF ConfiguredInForce, InForce, required
<1> QED BY <1>1, InvHolds, PTL

\* A new session is prompted with the persisted values in force.
THEOREM PersistedCorrect == Spec => []PersistedRestored
<1>1. Inv => PersistedRestored
  <2> SUFFICES ASSUME Inv, pc = "stream", turn.how = "new",
                      NEW id \in DOMAIN normalizeSessionConfigValues(turn.base),
                      id \notin required \cup sess.moved \cup sess.skipped
               PROVE  current(sess.now, id) = turn.base[id]
    BY DEF PersistedRestored
  <2> DEFINE w == Wanted(config, "new", turn.base)
  <2>1. turn.base \in Maps /\ config.values \in Maps
    BY SessionValuesAssumption DEF Inv, TypeOK, Turns
  <2>2. id \in DOMAIN w /\ w[id] = turn.base[id]
    <3>1. w = mergeSessionConfigValues(turn.base, config.values)
      BY DEF Wanted
    <3>2. id \notin DOMAIN normalizeSessionConfigValues(config.values)
      BY DEF required
    <3>3. LET m == mergeSessionConfigValues(turn.base, config.values)
              dn == normalizeSessionConfigValues(turn.base)
              on == normalizeSessionConfigValues(config.values)
          IN  /\ DOMAIN m = DOMAIN dn \cup DOMAIN on
              /\ \A i \in DOMAIN dn \ DOMAIN on : m[i] = turn.base[i]
      BY <2>1, Merge
    <3> QED BY <3>1, <3>2, <3>3
  <2>3. Applied(config, w, turn.todo, sess) /\ turn.todo = Empty
    BY DEF Inv, Facts, InvRecorded, InvApplied, SettingUp
  <2>4. DOMAIN turn.todo = {}
    BY <2>3, EmptyMap
  <2> HIDE DEF w
  <2> QED BY <2>2, <2>3, <2>4 DEF Applied
<1> QED BY <1>1, InvHolds, PTL

\* Before a prompt the record holds what the session was set to.
THEOREM RecordCorrect == Spec => []RecordTrue
<1>1. Inv => RecordTrue
  <2> DEFINE vs == collectSessionConfigValues(turn.cur)
             ids == modelConfigOptionIDs(turn.cur.opts)
             n == withoutConfigIDs(vs, ids)
  <2> SUFFICES ASSUME Inv, pc = "prompt", turn.how # "existing", vs # Empty,
                      NEW id \in Ids \ (ModelIds \cup sess.moved)
               PROVE  current(sess.now, id) =
                        IF id \in DOMAIN rec.values THEN rec.values[id] ELSE Blank
    BY DEF RecordTrue
  <2>1. /\ turn.cur \in Listings /\ sess.now \in Listings
        /\ turn.control \subseteq ModelIds
    BY DEF Inv, TypeOK, Turns, Sessions
  <2>2. /\ vs \in Maps
        /\ \A i \in DOMAIN vs : vs[i] # Blank /\ vs[i] = current(turn.cur, i)
        /\ \A i : i \notin DOMAIN vs => current(turn.cur, i) = Blank
    BY <2>1, Current, ConfigValuesAssumption
  <2>3. current(turn.cur, id) = current(sess.now, id)
    <3>1. /\ entry(turn.cur, id) = entry(sess.now, id)
          /\ (id = ModeId /\ entry(sess.now, id) = Blank) => turn.cur.mode = sess.now.mode
      BY DEF Inv, Facts, InvRecorded, InvBelieved, Believed, SettingUp
    <3> QED BY <3>1, <2>1, Current, ConfigValuesAssumption
  <2>4. turn.values = n /\ rec.values = withoutConfigIDs(turn.values, turn.control)
    BY DEF Inv, Facts, InvValues, confirmedValues, record, withoutModelConfigOptions
  <2> HIDE DEF vs
  <2>5. /\ n \in Maps /\ DOMAIN n = {i \in DOMAIN vs : vs[i] # Blank} \ ids
        /\ \A i \in DOMAIN n : n[i] = vs[i] /\ n[i] # Blank
    BY <2>2, Without
  <2> HIDE DEF n
  <2>6. /\ DOMAIN rec.values = {i \in DOMAIN n : n[i] # Blank} \ turn.control
        /\ \A i \in DOMAIN rec.values : rec.values[i] = n[i]
    <3>1. LET r == withoutConfigIDs(n, turn.control)
          IN  /\ r \in Maps
              /\ DOMAIN r = {i \in DOMAIN n : n[i] # Blank} \ turn.control
              /\ \A i \in DOMAIN r : r[i] = n[i] /\ r[i] # Blank
      BY <2>5, Without
    <3> QED BY <2>4, <3>1
  <2>7. id \notin ids /\ id \notin turn.control
    BY <2>1 DEF modelConfigOptionIDs
  <2> QED BY <2>2, <2>3, <2>5, <2>6, <2>7
<1> QED BY <1>1, InvHolds, PTL

\* No model enters the record.
THEOREM ModelCorrect == Spec => ModelNotAdded
<1>1. Inv /\ [Next]_vars =>
        [rec' # rec => DOMAIN rec'.values \cap ModelIds \subseteq DOMAIN turn.base]_vars
  <2> SUFFICES ASSUME Inv, Next, rec' # rec
               PROVE  DOMAIN rec'.values \cap ModelIds \subseteq DOMAIN turn.base
    BY DEF vars
  <2>1. turn.base \in Maps /\ turn.values \in Maps
    BY DEF Inv, TypeOK, Turns
  <2>2. \/ rec' = record
        \/ rec' = [named |-> TRUE, values |-> normalizeSessionConfigValues(turn.base)]
    BY DEF Next, SetUp, startTurn, verifyExistingDesiredHeld, newSession, applyValue,
           finishConfig, applyDesiredModel, persistBinding, sendPrompt, configUpdate,
           modeUpdate, finishTurn, failTurn, sessionNotFound, resumeSession,
           alreadyExists, replaceSession, resumeFails, restart, forget
  <2>3. DOMAIN normalizeSessionConfigValues(turn.base) \subseteq DOMAIN turn.base
    BY <2>1, Normalize
  <2>4. DOMAIN withoutConfigIDs(turn.values, turn.control) \subseteq DOMAIN turn.values
    <3>1. DOMAIN withoutConfigIDs(turn.values, turn.control)
            = {i \in DOMAIN turn.values : turn.values[i] # Blank} \ turn.control
      BY <2>1, Without
    <3> QED BY <3>1
  <2> QED BY <2>2, <2>3, <2>4 DEF Inv, Facts, InvModel, record
<1> QED BY <1>1, InvHolds, PTL DEF Spec, ModelNotAdded
=============================================================================
