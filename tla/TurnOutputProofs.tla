-------------------------- MODULE TurnOutputProofs --------------------------
(***************************************************************************)
(* Proofs about TurnOutput, for any updates, answers and prompts, and any  *)
(* number of updates.                                                      *)
(***************************************************************************)
EXTENDS TurnOutput, FiniteSetTheorems, TLAPS

-----------------------------------------------------------------------------
(* The place of a position among others.                                   *)

\* The places of the members of S are 1 to its size, in their order.
LEMMA PlaceFacts ==
    ASSUME NEW n \in Nat, NEW S \in SUBSET (1..n)
    PROVE  /\ IsFiniteSet(S) /\ Cardinality(S) \in Nat
           /\ \A i \in S : place(S, i) \in 1..Cardinality(S)
           /\ \A i, j \in S : i < j => place(S, i) < place(S, j)
<1>1. IsFiniteSet(S) /\ Cardinality(S) \in Nat /\ S \subseteq Nat
  <2>1. IsFiniteSet(1..n)
    BY FS_Interval
  <2>2. IsFiniteSet(S)
    BY <2>1, FS_Subset
  <2> QED BY <2>2, FS_CardinalityType
<1>2. ASSUME NEW i \in S
      PROVE  /\ IsFiniteSet({j \in S : j <= i}) /\ place(S, i) \in Nat
             /\ place(S, i) <= Cardinality(S) /\ place(S, i) # 0
  <2> DEFINE T == {j \in S : j <= i}
  <2>1. T \in SUBSET S /\ i \in T
    OBVIOUS
  <2> HIDE DEF T
  <2>2. IsFiniteSet(T) /\ Cardinality(T) <= Cardinality(S)
    BY <1>1, <2>1, FS_Subset
  <2>3. Cardinality(T) \in Nat /\ Cardinality(T) # 0
    BY <2>1, <2>2, FS_CardinalityType, FS_EmptySet
  <2> QED BY <2>2, <2>3 DEF T, place
<1>3. ASSUME NEW i \in S, NEW j \in S, i < j
      PROVE  place(S, i) < place(S, j)
  <2> DEFINE T == {l \in S : l <= i}
             U == {l \in S : l <= j}
  <2>1. T \in SUBSET U /\ j \in U /\ j \notin T
    <3>1. i \in Nat /\ j \in Nat
      BY <1>1
    <3>2. \A l \in S : l \in Nat /\ (l <= i => l <= j)
      BY <1>1, <1>3, <3>1
    <3>3. j <= j /\ ~(j <= i)
      BY <1>3, <3>1
    <3> QED BY <3>2, <3>3, Zenon
  <2>2. IsFiniteSet(U) /\ IsFiniteSet(T) /\ Cardinality(T) = place(S, i)
        /\ Cardinality(U) = place(S, j)
    BY <1>2 DEF place
  <2> HIDE DEF T, U
  <2>3. Cardinality(T) <= Cardinality(U) /\ (Cardinality(U) = Cardinality(T) => U = T)
    BY <2>1, <2>2, FS_Subset
  <2>4. Cardinality(T) # Cardinality(U)
    BY <2>1, <2>3
  <2>5. Cardinality(T) \in Nat /\ Cardinality(U) \in Nat
    BY <2>2, FS_CardinalityType
  <2> QED BY <2>2, <2>3, <2>4, <2>5
<1>4. ASSUME NEW i \in S PROVE place(S, i) \in 1..Cardinality(S)
  <2>1. place(S, i) \in Nat /\ place(S, i) <= Cardinality(S) /\ place(S, i) # 0
    BY <1>2
  <2> QED BY <1>1, <2>1
<1> QED BY <1>1, <1>3, <1>4

\* Every place is taken.
LEMMA PlaceOnto ==
    ASSUME NEW n \in Nat, NEW S \in SUBSET (1..n), NEW k \in 1..Cardinality(S)
    PROVE  \E i \in S : place(S, i) = k
<1>1. /\ IsFiniteSet(S) /\ Cardinality(S) \in Nat
      /\ \A i \in S : place(S, i) \in 1..Cardinality(S)
      /\ \A i, j \in S : i < j => place(S, i) < place(S, j)
  BY PlaceFacts
<1> DEFINE C == Cardinality(S)
           f == [i \in S |-> place(S, i)]
<1>2. f \in [S -> 1..C]
  BY <1>1
<1>3. ASSUME NEW i \in S, NEW j \in S, f[i] = f[j] PROVE i = j
  <2>1. i \in Nat /\ j \in Nat /\ place(S, i) \in Nat /\ place(S, j) \in Nat
    BY <1>1
  <2>2. place(S, i) = place(S, j)
    BY <1>3
  <2>3. ~(i < j) /\ ~(j < i)
    BY <1>1, <2>1, <2>2
  <2> QED BY <2>1, <2>3
<1>4. IsFiniteSet(1..C) /\ Cardinality(1..C) = C
  BY <1>1, FS_Interval
<1> HIDE DEF f
<1>5. f \in Injection(S, 1..C)
  BY <1>2, <1>3 DEF Injection, IsInjective
<1>6. f \in Surjection(S, 1..C)
  BY <1>4, <1>5, FS_Injection
<1>7. PICK i \in S : f[i] = k
  BY <1>6 DEF Surjection
<1> QED BY <1>7 DEF f

\* A position after all others has the next place.
LEMMA PlaceAdd ==
    ASSUME NEW n \in Nat, NEW S \in SUBSET (1..n)
    PROVE  /\ Cardinality(S \cup {n + 1}) = Cardinality(S) + 1
           /\ place(S \cup {n + 1}, n + 1) = Cardinality(S) + 1
           /\ \A i \in S : place(S \cup {n + 1}, i) = place(S, i)
<1> DEFINE T == S \cup {n + 1}
<1>1. IsFiniteSet(S) /\ n + 1 \notin S /\ \A i \in S : i \in Nat /\ i <= n
  <2>1. IsFiniteSet(S)
    BY PlaceFacts
  <2> QED BY <2>1
<1>2. Cardinality(T) = Cardinality(S) + 1
  BY <1>1, FS_AddElement
<1>3. {j \in T : j <= n + 1} = T
  <2>1. \A j \in T : j <= n + 1
    BY <1>1
  <2> HIDE DEF T
  <2> QED BY <2>1
<1>4. \A i \in S : {j \in T : j <= i} = {j \in S : j <= i}
  BY <1>1
<1> QED BY <1>2, <1>3, <1>4 DEF place

-----------------------------------------------------------------------------
(* What an update adds to the output.                                      *)

\* The plan of an event is the one of its update.
LEMMA EventPlan ==
    ASSUME NEW u \in Updates
    PROVE  mapACPUpdateToEvent(u).plan = IF u.kind = "plan" THEN u.entries ELSE NoPlan
<1>1. CASE u.kind = "plan"
  BY <1>1 DEF mapACPUpdateToEvent, mapACPPlanUpdate, NoEvent
<1>2. CASE u.kind # "plan"
  BY <1>2 DEF mapACPUpdateToEvent, mapACPAgentMessageChunk, chunkEvent, toolEvent,
              usageEvent, NoEvent
<1> QED BY <1>1, <1>2

\* The text of an agent's message.
LEMMA EventText ==
    ASSUME NEW u \in Updates, u.kind = "agent"
    PROVE  contentVisibleText(mapACPUpdateToEvent(u).part) \in Texts \cup {NoText}
<1>1. u.block.type = "text" => u.block.text \in Texts
  BY TurnOutputAssumption
<1> QED BY <1>1 DEF mapACPUpdateToEvent, mapACPAgentMessageChunk, chunkEvent,
                    mapACPContentBlockToPart, contentVisibleText, NoEvent, NoPart

\* The error of an event is the one that its message carries.
LEMMA EventError ==
    ASSUME NEW u \in Updates
    PROVE  /\ {mapACPUpdateToEvent(u).error} \ {NoError} = carried(u)
           /\ carried(u) \subseteq Errors
<1>1. u.kind = "agent" => u.error \in Errors \cup {NoError}
  BY TurnOutputAssumption
<1>2. CASE u.kind = "agent"
  BY <1>1, <1>2 DEF mapACPUpdateToEvent, mapACPAgentMessageChunk, chunkEvent,
                    mapACPContentBlockToPart, NoEvent, NoPart, carried
<1>3. CASE u.kind # "agent"
  <2>1. mapACPUpdateToEvent(u).error = NoError
    BY <1>3 DEF mapACPUpdateToEvent, chunkEvent, mapACPPlanUpdate, toolEvent,
                usageEvent, NoEvent
  <2> QED BY <1>3, <2>1 DEF carried
<1> QED BY <1>2, <1>3

\* The text that is gathered is that of the agent's text messages.
LEMMA MessageText ==
    ASSUME NEW u \in Updates, NEW o
    PROVE  gather(o, u).text =
             IF isMessage(u) THEN Append(o.text, u.block.text) ELSE o.text
<1> DEFINE event == mapACPUpdateToEvent(u)
           x == contentVisibleText(event.part)
<1>1. gather(o, u).text = IF u.kind = "agent" /\ event.ok /\ x # NoText
                          THEN Append(o.text, x) ELSE o.text
  BY DEF gather
<1>2. CASE u.kind # "agent"
  BY <1>1, <1>2 DEF isMessage
<1>3. CASE u.kind = "agent" /\ isMessage(u)
  <2>1. u.block.text \in Texts /\ u.block.text # NoText
    BY <1>3, TurnOutputAssumption DEF isMessage
  <2>2. event.ok /\ x = u.block.text
    BY <1>3 DEF isMessage, mapACPUpdateToEvent, mapACPAgentMessageChunk, chunkEvent,
                mapACPContentBlockToPart, contentVisibleText, NoEvent
  <2> QED BY <1>1, <1>3, <2>1, <2>2
<1>4. CASE u.kind = "agent" /\ ~isMessage(u)
  <2>1. ~event.ok \/ x = NoText
    BY <1>4 DEF isMessage, mapACPUpdateToEvent, mapACPAgentMessageChunk, chunkEvent,
                mapACPContentBlockToPart, contentVisibleText, NoPart, NoEvent
  <2> QED BY <1>1, <1>4, <2>1
<1> QED BY <1>2, <1>3, <1>4

\* The error taken from a notification is one that it states.
LEMMA TerminalStated ==
    ASSUME NEW u \in Updates
    PROVE  LET e == terminalPromptErrorFromNotification(u)
           IN  /\ IF stated(u) = {} THEN e = NoError ELSE e \in stated(u)
               /\ NoError \notin stated(u) /\ stated(u) \subseteq Errors
BY TurnOutputAssumption
   DEF terminalPromptErrorFromNotification, newTerminalPromptError, stated

\* The parts of the output are of their types.
LEMMA GatherType ==
    ASSUME NEW u \in Updates,
           NEW o \in [text : Seq(Texts), plan : Plans \cup {NoPlan},
                      error : Errors \cup {NoError}]
    PROVE  /\ gather(o, u) \in [text : Seq(Texts), plan : Plans \cup {NoPlan},
                                error : Errors \cup {NoError}]
           /\ gather(o, u).plan =
                IF u.kind = "plan" /\ u.entries # NoPlan THEN u.entries ELSE o.plan
           /\ gather(o, u).error =
                IF stated(u) = {} THEN o.error
                ELSE terminalPromptErrorFromNotification(u)
<1> DEFINE event == mapACPUpdateToEvent(u)
           x == contentVisibleText(event.part)
           e == terminalPromptErrorFromNotification(u)
<1>1. event.plan = IF u.kind = "plan" THEN u.entries ELSE NoPlan
  BY EventPlan
<1>2. u.kind = "agent" => x \in Texts \cup {NoText}
  BY EventText
<1>3. /\ IF stated(u) = {} THEN e = NoError ELSE e \in stated(u)
      /\ NoError \notin stated(u) /\ stated(u) \subseteq Errors
  BY TerminalStated
<1>4. u.kind = "plan" => u.entries \in Plans \cup {NoPlan}
  BY TurnOutputAssumption
<1>5. gather(o, u) =
        [text  |-> IF u.kind = "agent" /\ event.ok /\ x # NoText
                   THEN Append(o.text, x) ELSE o.text,
         plan  |-> IF event.plan # NoPlan THEN event.plan ELSE o.plan,
         error |-> IF e # NoError THEN e ELSE o.error]
  BY DEF gather, latestPlan
<1> HIDE DEF event, x, e
<1>6. (IF u.kind = "agent" /\ event.ok /\ x # NoText
       THEN Append(o.text, x) ELSE o.text) \in Seq(Texts)
  BY <1>2
<1>7. (IF event.plan # NoPlan THEN event.plan ELSE o.plan) \in Plans \cup {NoPlan}
  BY <1>1, <1>4
<1>8. (IF e # NoError THEN e ELSE o.error) \in Errors \cup {NoError}
  BY <1>3
<1>9. gather(o, u) \in [text : Seq(Texts), plan : Plans \cup {NoPlan},
                        error : Errors \cup {NoError}]
  BY <1>5, <1>6, <1>7, <1>8
<1>10. gather(o, u).plan =
         IF u.kind = "plan" /\ u.entries # NoPlan THEN u.entries ELSE o.plan
  BY <1>1, <1>5
<1>11. gather(o, u).error = IF stated(u) = {} THEN o.error ELSE e
  BY <1>3, <1>5
<1> QED BY <1>9, <1>10, <1>11 DEF e

-----------------------------------------------------------------------------
(* Types.                                                                  *)

\* A turn that has gathered nothing yet.
LEMMA NothingType ==
    /\ NoOut \in [text : Seq(Texts), plan : Plans \cup {NoPlan},
                  error : Errors \cup {NoError}]
    /\ NoOut.text = <<>> /\ NoOut.plan = NoPlan /\ NoOut.error = NoError
    /\ <<>> \in Seq(Updates) /\ Len(<<>>) = 0 /\ 0 \in 0..0 /\ 0 <= MaxUpdates
<1>1. <<>> \in Seq(Texts) /\ <<>> \in Seq(Updates) /\ Len(<<>>) = 0
  OBVIOUS
<1>2. NoOut \in [text : Seq(Texts), plan : Plans \cup {NoPlan},
                error : Errors \cup {NoError}]
  BY <1>1 DEF NoOut
<1>3. 0 \in 0..0 /\ 0 <= MaxUpdates
  BY TurnOutputAssumption
<1> QED BY <1>1, <1>2, <1>3 DEF NoOut

LEMMA TypeInit == Init => TypeOK
<1> SUFFICES ASSUME Init PROVE TypeOK
  OBVIOUS
<1>1. wire \in Seq(Updates) /\ Len(wire) = 0 /\ read = 0
  BY NothingType DEF Init
<1> QED BY <1>1, NothingType DEF Init, TypeOK

\* Every step keeps the types.
LEMMA TypeNext == TypeOK /\ [Next]_vars => TypeOK'
<1> SUFFICES ASSUME TypeOK, [Next]_vars PROVE TypeOK'
  OBVIOUS
<1> USE DEF TypeOK, End, attempt
<1>1. CASE startTurn
  BY <1>1 DEF startTurn
<1>2. CASE bindSession
  BY <1>2 DEF bindSession
<1>3. CASE sendPrompt
  <2>1. wire' \in Seq(Updates) /\ Len(wire') = 0 /\ read' = 0 /\ out' = NoOut
    BY <1>3, NothingType DEF sendPrompt, newOut
  <2> QED BY <1>3, <2>1, NothingType DEF sendPrompt
<1>4. CASE promptFails
  BY <1>4 DEF promptFails
<1>5. CASE sendUpdate
  BY <1>5, TurnOutputAssumption DEF sendUpdate
<1>6. CASE sendAnswer
  BY <1>6 DEF sendAnswer
<1>7. CASE closeUpdates
  BY <1>7 DEF closeUpdates
<1>8. CASE receiveUpdate
  <2>1. wire[read + 1] \in Updates
    BY <1>8 DEF receiveUpdate
  <2>2. out' \in [text : Seq(Texts), plan : Plans \cup {NoPlan},
                  error : Errors \cup {NoError}]
    BY <1>8, <2>1, GatherType DEF receiveUpdate
  <2>3. shown' \subseteq Errors
    BY <1>8, <2>1, EventError DEF receiveUpdate
  <2> QED BY <1>8, <2>2, <2>3 DEF receiveUpdate
<1>9. CASE receiveResult
  BY <1>9 DEF receiveResult
<1>10. CASE finishTurn
  BY <1>10 DEF finishTurn
<1>11. CASE recover
  BY <1>11 DEF recover
<1>12. CASE failTurn
  BY <1>12 DEF failTurn
<1>13. CASE nextTurn
  <2>1. wire' \in Seq(Updates) /\ Len(wire') = 0 /\ read' = 0 /\ out' = NoOut
    BY <1>13, NothingType DEF nextTurn
  <2> QED BY <1>13, <2>1, NothingType DEF nextTurn
<1>14. CASE UNCHANGED vars
  BY <1>14 DEF vars
<1> QED BY <1>1, <1>2, <1>3, <1>4, <1>5, <1>6, <1>7, <1>8, <1>9, <1>10, <1>11,
           <1>12, <1>13, <1>14 DEF Next

\* The state of the turn keeps its types.
THEOREM TypeCorrect == Spec => []TypeOK
BY TypeInit, TypeNext, PTL DEF Spec

-----------------------------------------------------------------------------
(* The output after the first n updates.                                   *)

\* p is the last plan among them.
PlanOf(w, n, p) ==
    LET plans == {i \in 1..n : w[i].kind = "plan" /\ w[i].entries # NoPlan}
    IN  IF plans = {} THEN p = NoPlan
        ELSE \E i \in plans : (\A j \in plans : j <= i) /\ p = w[i].entries

\* e is an error that one of them states, if any does.
ErrorOf(w, n, e) ==
    LET errors == UNION {stated(w[i]) : i \in 1..n}
    IN  IF errors = {} THEN e = NoError ELSE e \in errors

\* The errors that their messages carry.
Carried(w, n) == UNION {carried(w[i]) : i \in 1..n}

LEMMA NothingRead ==
    ASSUME NEW w
    PROVE  PlanOf(w, 0, NoPlan) /\ ErrorOf(w, 0, NoError) /\ Carried(w, 0) = {}
<1>1. 1..0 = {} OBVIOUS
<1> QED BY <1>1 DEF PlanOf, ErrorOf, Carried

\* What is appended does not count before it is read.
LEMMA AppendKeeps ==
    ASSUME NEW w \in Seq(Updates), NEW u \in Updates, NEW n \in 0..Len(w), NEW p, NEW e
    PROVE  /\ PlanOf(w, n, p) => PlanOf(Append(w, u), n, p)
           /\ ErrorOf(w, n, e) => ErrorOf(Append(w, u), n, e)
           /\ Carried(Append(w, u), n) = Carried(w, n)
<1>1. \A i \in 1..n : Append(w, u)[i] = w[i]
  OBVIOUS
<1> DEFINE a == Append(w, u)
<1> HIDE DEF a
<1>2. \A i \in 1..n : a[i] = w[i]
  BY <1>1 DEF a
<1>3. UNION {stated(a[i]) : i \in 1..n} = UNION {stated(w[i]) : i \in 1..n}
  BY <1>2
<1>4. PlanOf(w, n, p) => PlanOf(a, n, p)
  BY <1>2 DEF PlanOf
<1>5. ErrorOf(w, n, e) => ErrorOf(a, n, e)
  BY <1>3 DEF ErrorOf
<1>6. Carried(a, n) = Carried(w, n)
  BY <1>2 DEF Carried
<1> QED BY <1>4, <1>5, <1>6 DEF a

\* One more update is read.
LEMMA ReadKeeps ==
    ASSUME NEW w \in Seq(Updates), NEW n \in Nat, n < Len(w),
           NEW o \in [text : Seq(Texts), plan : Plans \cup {NoPlan},
                      error : Errors \cup {NoError}],
           PlanOf(w, n, o.plan), ErrorOf(w, n, o.error)
    PROVE  /\ PlanOf(w, n + 1, gather(o, w[n + 1]).plan)
           /\ ErrorOf(w, n + 1, gather(o, w[n + 1]).error)
           /\ Carried(w, n + 1) = Carried(w, n) \cup carried(w[n + 1])
<1> DEFINE u == w[n + 1]
           g == gather(o, u)
           P(m) == {i \in 1..m : w[i].kind = "plan" /\ w[i].entries # NoPlan}
           E(m) == UNION {stated(w[i]) : i \in 1..m}
<1>1. u \in Updates
  OBVIOUS
<1>2. /\ g.plan = IF u.kind = "plan" /\ u.entries # NoPlan THEN u.entries ELSE o.plan
      /\ g.error = IF stated(u) = {} THEN o.error
                   ELSE terminalPromptErrorFromNotification(u)
  BY <1>1, GatherType
<1>3. stated(u) # {} => terminalPromptErrorFromNotification(u) \in stated(u)
  BY <1>1, TerminalStated
<1>4. 1..(n + 1) = (1..n) \cup {n + 1}
  OBVIOUS
<1> HIDE DEF g
<1>5. PlanOf(w, n + 1, g.plan)
  <2>1. CASE u.kind = "plan" /\ u.entries # NoPlan
    <3>1. n + 1 \in P(n + 1) /\ \A j \in P(n + 1) : j <= n + 1
      BY <2>1
    <3> QED BY <1>2, <2>1, <3>1 DEF PlanOf
  <2>2. CASE ~(u.kind = "plan" /\ u.entries # NoPlan)
    <3>1. P(n + 1) = P(n)
      BY <1>4, <2>2
    <3>2. g.plan = o.plan
      BY <1>2, <2>2
    <3> QED BY <3>1, <3>2 DEF PlanOf
  <2> QED BY <2>1, <2>2
<1>6. ErrorOf(w, n + 1, g.error)
  <2>1. E(n + 1) = E(n) \cup stated(u)
    BY <1>4
  <2> HIDE DEF E
  <2>2. IF E(n) = {} THEN o.error = NoError ELSE o.error \in E(n)
    BY DEF ErrorOf, E
  <2>3. IF E(n + 1) = {} THEN g.error = NoError ELSE g.error \in E(n + 1)
    BY <1>2, <1>3, <2>1, <2>2
  <2> QED BY <2>3 DEF ErrorOf, E
<1>7. Carried(w, n + 1) = Carried(w, n) \cup carried(u)
  BY <1>4 DEF Carried
<1> QED BY <1>5, <1>6, <1>7 DEF g

\* t is the text messages among the first n updates, in order.
TextOf(w, n, t) ==
    LET said == {i \in 1..n : isMessage(w[i])}
    IN  /\ Len(t) = Cardinality(said)
        /\ \A i \in said : t[place(said, i)] = w[i].block.text

\* Nothing was said before the first update.
LEMMA NothingSaid ==
    ASSUME NEW w
    PROVE  TextOf(w, 0, <<>>)
<1>1. {i \in 1..0 : isMessage(w[i])} = {}
  OBVIOUS
<1> QED BY <1>1, FS_EmptySet DEF TextOf

\* What is appended to the wire does not count before it is read.
LEMMA AppendKeepsText ==
    ASSUME NEW w \in Seq(Updates), NEW u \in Updates, NEW n \in 0..Len(w), NEW t,
           TextOf(w, n, t)
    PROVE  TextOf(Append(w, u), n, t)
<1> DEFINE a == Append(w, u)
<1>1. \A i \in 1..n : a[i] = w[i]
  OBVIOUS
<1> HIDE DEF a
<1>2. {i \in 1..n : isMessage(a[i])} = {i \in 1..n : isMessage(w[i])}
  BY <1>1
<1>3. TextOf(a, n, t)
  BY <1>1, <1>2 DEF TextOf
<1> QED BY <1>3 DEF a

\* One more update is read: a text message goes to the end.
LEMMA ReadKeepsText ==
    ASSUME NEW w \in Seq(Updates), NEW n \in Nat, n < Len(w),
           NEW o \in [text : Seq(Texts), plan : Plans \cup {NoPlan},
                      error : Errors \cup {NoError}],
           TextOf(w, n, o.text)
    PROVE  TextOf(w, n + 1, gather(o, w[n + 1]).text)
<1> DEFINE u == w[n + 1]
           t == o.text
           g == gather(o, u).text
           S == {i \in 1..n : isMessage(w[i])}
           T == {i \in 1..(n + 1) : isMessage(w[i])}
<1>1. u \in Updates /\ t \in Seq(Texts)
  OBVIOUS
<1>2. g = IF isMessage(u) THEN Append(t, u.block.text) ELSE t
  BY <1>1, MessageText
<1>3. S \in SUBSET (1..n) /\ Len(t) = Cardinality(S)
      /\ \A i \in S : t[place(S, i)] = w[i].block.text
  BY DEF TextOf
<1>4. 1..(n + 1) = (1..n) \cup {n + 1}
  OBVIOUS
<1>5. T = IF isMessage(u) THEN S \cup {n + 1} ELSE S
  BY <1>4
<1>6. isMessage(u) => u.block.text \in Texts
  BY <1>1, TurnOutputAssumption DEF isMessage
<1> HIDE DEF g, S, T
<1>7. Len(g) = Cardinality(T) /\ \A i \in T : g[place(T, i)] = w[i].block.text
  <2>1. CASE ~isMessage(u)
    BY <1>2, <1>3, <1>5, <2>1
  <2>2. CASE isMessage(u)
    <3> DEFINE x == u.block.text
               C == Cardinality(S)
    <3>1. /\ Cardinality(T) = C + 1 /\ place(T, n + 1) = C + 1
          /\ \A i \in S : place(T, i) = place(S, i)
      BY <1>3, <1>5, <2>2, PlaceAdd
    <3>2. C \in Nat /\ \A i \in S : place(S, i) \in 1..C
      BY <1>3, PlaceFacts
    <3>3. g = Append(t, x) /\ x \in Texts
      BY <1>2, <1>6, <2>2
    <3>4. Len(g) = C + 1 /\ g[C + 1] = x /\ \A k \in 1..C : g[k] = t[k]
      BY <1>1, <1>3, <3>2, <3>3
    <3>5. ASSUME NEW i \in S PROVE g[place(T, i)] = w[i].block.text
      BY <1>3, <3>1, <3>2, <3>4
    <3>6. g[place(T, n + 1)] = w[n + 1].block.text
      BY <3>1, <3>4
    <3>7. \A i \in T : i \in S \/ i = n + 1
      BY <1>5, <2>2
    <3> QED BY <3>1, <3>4, <3>5, <3>6, <3>7
  <2> QED BY <2>1, <2>2
<1> QED BY <1>7 DEF TextOf, g, T

-----------------------------------------------------------------------------
(* The inductive invariant: what was gathered and shown belongs to the     *)
(* updates that were read, and a turn that is over does not move.                       *)

Gathered ==
    /\ TextOf(wire, read, out.text)
    /\ PlanOf(wire, read, out.plan)
    /\ ErrorOf(wire, read, out.error)
    /\ shown = Carried(wire, read)
Over == final # NoFinal => pc = "end"
Reported == OutputRepeatsStream /\ PlanIsLatest /\ FailureReported
Inv == TypeOK /\ Gathered /\ Over /\ Reported

\* A final event that is there, or none, stays true as long as the updates and
\* the answer stay.
LEMMA ReportedKept ==
    ASSUME Inv, UNCHANGED <<wire, answer, shown>>, final' = final \/ final'.kind # "event"
    PROVE  Reported'
BY DEF Inv, Reported, OutputRepeatsStream, PlanIsLatest, FailureReported

LEMMA NoEventReported ==
    ASSUME final.kind # "event"
    PROVE  Reported
BY DEF Reported, OutputRepeatsStream, PlanIsLatest, FailureReported

\* The final event of a turn whose streams are over.
LEMMA FinishReported ==
    ASSUME Inv, finishTurn
    PROVE  Reported'
<1>1. /\ streamsOver /\ answer.kind \in {"ok", "provider"} /\ UNCHANGED <<wire, answer, shown>>
      /\ final' = [kind |-> "event", text |-> out.text, plan |-> out.plan,
                   error |-> finalError]
  BY DEF finishTurn, End, attempt
<1>2. final'.text = out.text /\ final'.plan = out.plan /\ final'.error = finalError
  BY <1>1
<1>3. wire \in Seq(Updates) /\ DOMAIN wire = 1..read /\ 1..read = DOMAIN wire
  BY <1>1 DEF Inv, TypeOK, streamsOver
<1>4. PlanIsLatest'
  BY <1>1, <1>2, <1>3 DEF PlanIsLatest, Inv, Gathered, PlanOf
<1>5. FailureReported'
  <2> DEFINE N == UNION {stated(wire[i]) : i \in DOMAIN wire}
             A == {answer.provider, answer.meta} \ {NoError}
  <2>1. IF N = {} THEN out.error = NoError ELSE out.error \in N
    BY <1>3 DEF Inv, Gathered, ErrorOf
  <2>2. NoError \notin N
    <3>1. \A i \in DOMAIN wire : wire[i] \in Updates
      <4>1. wire \in Seq(Updates) BY <1>3
      <4> QED BY <4>1
    <3>2. \A i \in DOMAIN wire : NoError \notin stated(wire[i])
      BY <3>1, TerminalStated
    <3> QED BY <3>2
  <2>3. answer.kind = "provider" => answer.provider # NoError
    BY TurnOutputAssumption DEF Inv, TypeOK, NoAnswer
  <2> HIDE DEF N
  <2>4. IF A \cup N = {} THEN finalError = NoError ELSE finalError \in A \cup N
    BY <2>1, <2>2, <2>3 DEF finalError
  <2>5. shown = UNION {carried(wire[i]) : i \in DOMAIN wire}
    BY <1>3 DEF Inv, Gathered, Carried
  <2> QED BY <1>1, <1>2, <2>4, <2>5 DEF FailureReported, N
<1>6. OutputRepeatsStream'
  BY <1>1, <1>2, <1>3 DEF OutputRepeatsStream, Inv, Gathered, TextOf
<1> QED BY <1>4, <1>5, <1>6 DEF Reported

LEMMA InvNext == Inv /\ [Next]_vars => Inv'
<1> SUFFICES ASSUME Inv, [Next]_vars PROVE Gathered' /\ Over' /\ Reported'
  BY TypeNext DEF Inv
<1>1. /\ wire \in Seq(Updates) /\ read \in 0..Len(wire)
      /\ out \in [text : Seq(Texts), plan : Plans \cup {NoPlan},
                  error : Errors \cup {NoError}]
  BY DEF Inv, TypeOK
<1>2. NoFinal.kind # "event" /\ FailedTurn.kind # "event"
  BY DEF NoFinal, FailedTurn
<1>3. CASE startTurn \/ bindSession \/ promptFails \/ recover \/ failTurn
  <2>1. UNCHANGED attempt
    BY <1>3 DEF startTurn, bindSession, promptFails, recover, failTurn
  <2>2. \/ pc' = "end" /\ final' = FailedTurn
        \/ final' = final /\ pc # "end"
    BY <1>3 DEF startTurn, bindSession, promptFails, recover, failTurn, End
  <2>3. Gathered'
    BY <2>1 DEF attempt, Inv, Gathered
  <2>4. Over'
    BY <2>2 DEF Inv, Over
  <2>5. Reported'
    BY <1>2, <2>1, <2>2, ReportedKept DEF attempt
  <2> QED BY <2>3, <2>4, <2>5
<1>4. CASE sendPrompt \/ nextTurn
  <2>1. read' = 0 /\ out' = NoOut /\ shown' = {} /\ final' = NoFinal
    BY <1>4 DEF sendPrompt, newOut, nextTurn, Inv, Over
  <2>2. Gathered'
    BY <2>1, NothingRead, NothingSaid, NothingType DEF Gathered
  <2>3. Over' /\ Reported'
    BY <1>2, <2>1 DEF Over, Reported, OutputRepeatsStream, PlanIsLatest, FailureReported
  <2> QED BY <2>2, <2>3
<1>5. CASE sendUpdate
  <2>1. PICK u \in Updates : wire' = Append(wire, u)
    BY <1>5 DEF sendUpdate
  <2>2. final = NoFinal /\ UNCHANGED <<pc, final, read, out, shown>>
    BY <1>5 DEF sendUpdate, Inv, Over
  <2>3. Gathered'
    BY <1>1, <2>1, <2>2, AppendKeeps, AppendKeepsText DEF Inv, Gathered
  <2>4. Over' /\ Reported'
    BY <1>2, <2>2 DEF Over, Reported, OutputRepeatsStream, PlanIsLatest, FailureReported
  <2> QED BY <2>3, <2>4
<1>6. CASE sendAnswer \/ closeUpdates \/ receiveResult
  <2>1. final = NoFinal /\ UNCHANGED <<pc, final, wire, read, out, shown>>
    BY <1>6 DEF sendAnswer, closeUpdates, receiveResult, Inv, Over
  <2>2. Gathered'
    BY <2>1 DEF Inv, Gathered
  <2>3. Over' /\ Reported'
    BY <1>2, <2>1 DEF Over, Reported, OutputRepeatsStream, PlanIsLatest, FailureReported
  <2> QED BY <2>2, <2>3
<1>7. CASE receiveUpdate
  <2>1. /\ read < Len(wire) /\ read' = read + 1 /\ UNCHANGED wire
        /\ out' = gather(out, wire[read + 1]) /\ final' = NoFinal
    BY <1>7 DEF receiveUpdate, End, Inv, Over
  <2>2. shown' = shown \cup carried(wire[read + 1])
    <3>1. wire[read + 1] \in Updates
      BY <1>1, <2>1
    <3> QED BY <1>7, <3>1, EventError DEF receiveUpdate
  <2>3. Gathered'
    BY <1>1, <2>1, <2>2, ReadKeeps, ReadKeepsText DEF Inv, Gathered
  <2>4. Over' /\ Reported'
    BY <1>2, <2>1 DEF Over, Reported, OutputRepeatsStream, PlanIsLatest, FailureReported
  <2> QED BY <2>3, <2>4
<1>8. CASE finishTurn
  BY <1>8, FinishReported DEF finishTurn, End, attempt, Inv, Gathered, Over
<1>9. CASE UNCHANGED vars
  BY <1>9 DEF vars, Inv, Gathered, Over, Reported, OutputRepeatsStream, PlanIsLatest, FailureReported
<1> QED BY <1>3, <1>4, <1>5, <1>6, <1>7, <1>8, <1>9 DEF Next

\* The inductive invariant holds.
LEMMA InvHolds == Spec => []Inv
<1>1. Init => Inv
  <2> SUFFICES ASSUME Init PROVE Inv
    OBVIOUS
  <2>1. read = 0 /\ out = NoOut /\ shown = {} /\ final = NoFinal /\ final.kind # "event"
    BY DEF Init, NoFinal
  <2>2. Gathered
    BY <2>1, NothingRead, NothingSaid, NothingType DEF Gathered
  <2> QED BY <2>1, <2>2, TypeInit, NoEventReported DEF Inv, Over
<1> QED BY <1>1, InvNext, PTL DEF Spec

-----------------------------------------------------------------------------
(* The theorems.                                                           *)

\* The final event has every text message of the attempt that succeeded, in the
\* order of the wire and nothing else, however many updates it has.
THEOREM OutputCorrect == Spec => []OutputRepeatsStream
BY InvHolds, PTL DEF Inv, Reported

\* The final event has the last plan of the attempt that succeeded, however
\* many updates it has.
THEOREM PlanCorrect == Spec => []PlanIsLatest
BY InvHolds, PTL DEF Inv, Reported

\* However many updates an attempt has: the final event has an error exactly
\* when the answer, its metadata or a terminal notification stated one; the
\* provider errors in the metadata of messages with a part, and no others, are
\* on the events of those messages (agent.go, event_mapping.go).
THEOREM FailureCorrect == Spec => []FailureReported
BY InvHolds, PTL DEF Inv, Reported

-----------------------------------------------------------------------------
(* The blocks of a prompt.                                                 *)

\* A part is skipped exactly when it is blank, and a part that is neither
\* refused nor skipped has a block of its kind that the backend takes.
LEMMA PartBlock ==
    ASSUME NEW part \in [fields : SUBSET Fields, class : Classes],
           NEW s \in SUBSET Capabilities
    PROVE  LET b == promptContentBlock(part, s)
           IN  /\ b = "skip" <=> part.fields = {"blank"}
               /\ b \notin {"error", "skip"} =>
                    /\ b \in carriers(part)
                    /\ \/ b \in {"text", "resource_link"}
                       \/ b \in {"image", "audio"} \cap s
                       \/ b = "resource" /\ "embeddedContext" \in s
<1> USE DEF promptContentBlock, carriers
<1>1. CASE part.fields = {"text"}
  BY <1>1
<1>2. CASE part.fields = {"blank"}
  BY <1>2
<1>3. CASE part.fields = {"inline_data"}
  BY <1>3 DEF inlineDataBlock, Classes, Capabilities
<1>4. CASE part.fields = {"file_data"}
  BY <1>4 DEF fileDataBlock
<1>5. CASE part.fields \notin {{"text"}, {"blank"}, {"inline_data"}, {"file_data"}}
  BY <1>5
<1> QED BY <1>1, <1>2, <1>3, <1>4, <1>5

\* The blocks of a prompt that was not refused: one for each part that is not
\* blank, at the part's place, of its kind, and accepted by the client.
LEMMA PromptBlocks ==
    ASSUME NEW p \in Prompts, NEW s \in Supports
    PROVE  LET b == promptContentBlocks(p, s)
               said == {i \in DOMAIN p : p[i].fields # {"blank"}}
           IN  /\ validatePromptBlocks(b, s)
               /\ b \in Seq(Blocks)
               /\ b # <<>> =>
                    /\ Len(b) = Cardinality(said)
                    /\ \A i \in said : /\ place(said, i) \in 1..Len(b)
                                       /\ b[place(said, i)] \in carriers(p[i])
<1> DEFINE b == promptContentBlocks(p, s)
           said == {i \in DOMAIN p : p[i].fields # {"blank"}}
           block == [i \in DOMAIN p |-> promptContentBlock(p[i], s)]
           kept == {i \in DOMAIN p : block[i] # "skip"}
           at(k) == CHOOSE i \in kept : place(kept, i) = k
           n == Cardinality(said)
<1>1. p \in Seq([fields : SUBSET Fields, class : Classes]) /\ s \in SUBSET Capabilities
  BY TurnOutputAssumption
<1>2. /\ DOMAIN p = 1..Len(p) /\ Len(p) \in Nat
      /\ \A i \in DOMAIN p : p[i] \in [fields : SUBSET Fields, class : Classes]
  <2> DEFINE R == [fields : SUBSET Fields, class : Classes]
  <2>1. p \in Seq(R)
    BY <1>1
  <2> HIDE DEF R
  <2>2. DOMAIN p = 1..Len(p) /\ Len(p) \in Nat /\ \A i \in 1..Len(p) : p[i] \in R
    BY <2>1
  <2> QED BY <2>2 DEF R
<1>3. kept = said
  BY <1>1, <1>2, PartBlock
<1>4. said \in SUBSET (1..Len(p))
  BY <1>2
<1>5. /\ n \in Nat /\ \A i \in said : place(said, i) \in 1..n
      /\ \A i, j \in said : i < j => place(said, i) < place(said, j)
  BY <1>2, <1>4, PlaceFacts
<1>6. \A k \in 1..n : \E i \in said : place(said, i) = k
  BY <1>2, <1>4, PlaceOnto
<1>7. CASE \E i \in DOMAIN p : block[i] = "error"
  <2>1. b = <<>>
    BY <1>7 DEF promptContentBlocks
  <2>2. validatePromptBlocks(<<>>, s)
    BY DEF validatePromptBlocks
  <2>3. <<>> \in Seq(Blocks)
    OBVIOUS
  <2> QED BY <2>1, <2>2, <2>3
<1>8. CASE ~\E i \in DOMAIN p : block[i] = "error"
  <2>1. b = [k \in 1..Cardinality(kept) |-> block[at(k)]]
    BY <1>8 DEF promptContentBlocks
  <2>2. b = [k \in 1..n |-> block[at(k)]]
    BY <1>3, <2>1
  <2>3. ASSUME NEW i \in said
        PROVE  /\ block[i] \in carriers(p[i]) /\ block[i] \in Blocks
               /\ \/ block[i] \in {"text", "resource_link"}
                  \/ block[i] \in {"image", "audio"} \cap s
                  \/ block[i] = "resource" /\ "embeddedContext" \in s
    <3>1. block[i] = promptContentBlock(p[i], s) /\ block[i] \notin {"error", "skip"}
      BY <1>3, <1>8
    <3>2. p[i] \in [fields : SUBSET Fields, class : Classes]
      BY <1>2
    <3> QED BY <1>1, <3>1, <3>2, PartBlock DEF Blocks
  <2> HIDE DEF b, block
  <2>4. ASSUME NEW k \in 1..n PROVE at(k) \in said /\ place(said, at(k)) = k
    BY <1>3, <1>6
  <2> HIDE DEF at, kept, said
  <2>5. DOMAIN b = 1..n /\ \A k \in 1..n : b[k] = block[at(k)]
    BY <2>2
  <2>6. b \in Seq(Blocks) /\ Len(b) = n
    <3>1. b \in [1..n -> Blocks]
      BY <2>2, <2>3, <2>4
    <3> HIDE DEF n
    <3> QED BY <1>5, <3>1
  <2>7. validatePromptBlocks(b, s)
    BY <2>3, <2>4, <2>5 DEF validatePromptBlocks
  <2>8. ASSUME NEW i \in said
        PROVE  place(said, i) \in 1..n /\ b[place(said, i)] \in carriers(p[i])
    <3> DEFINE j == at(place(said, i))
    <3>1. place(said, i) \in 1..n
      BY <1>5
    <3>2. j \in said /\ place(said, j) = place(said, i)
      BY <2>4, <3>1
    <3> HIDE DEF j
    <3>3. i \in Nat /\ j \in Nat
      BY <1>2, <1>4, <3>2
    <3>4. ~(i < j) /\ ~(j < i)
      BY <1>5, <3>1, <3>2
    <3>5. i = j
      BY <3>3, <3>4
    <3> QED BY <2>3, <2>5, <3>1, <3>5 DEF j
  <2> QED BY <2>6, <2>7, <2>8 DEF b, said
<1> QED BY <1>7, <1>8

\* The prompt of a turn that has begun was not refused, and a prompt that is
\* out is the conversion of the user's parts, with the instructions before it
\* in a new session.
PromptInv ==
    LET prompt == promptContentBlocks(parts, support)
    IN  /\ pc \in {"bind", "prompt", "stream"} => parts \in Prompts /\ prompt # <<>>
        /\ pc = "stream" =>
              blocks = IF fresh THEN prependInstructionsToContent(prompt) ELSE prompt

\* No step changes the prompt of a running turn.
LEMMA PromptNext == PromptInv /\ [Next]_vars => PromptInv'
<1> SUFFICES ASSUME PromptInv, [Next]_vars PROVE PromptInv'
  OBVIOUS
<1> USE DEF PromptInv, End, attempt
<1>1. CASE startTurn
  BY <1>1 DEF startTurn
<1>2. CASE bindSession
  BY <1>2 DEF bindSession
<1>3. CASE sendPrompt
  BY <1>3 DEF sendPrompt
<1>4. CASE promptFails \/ finishTurn \/ recover \/ failTurn
  BY <1>4 DEF promptFails, finishTurn, recover, failTurn
<1>5. CASE sendUpdate \/ sendAnswer \/ closeUpdates \/ receiveUpdate \/ receiveResult
  BY <1>5 DEF sendUpdate, sendAnswer, closeUpdates, receiveUpdate, receiveResult
<1>6. CASE nextTurn
  BY <1>6 DEF nextTurn
<1>7. CASE UNCHANGED vars
  BY <1>7 DEF vars
<1> QED BY <1>1, <1>2, <1>3, <1>4, <1>5, <1>6, <1>7 DEF Next

\* Whatever the user sends and the backend supports, each part that is not
\* blank has its block in the prompt that goes out, in order, and the client
\* accepts what the agent converted; a second attempt sends the same.
THEOREM PromptCorrect == Spec => []PromptWhole
<1>1. Init => PromptInv
  BY DEF Init, PromptInv
<1>2. TypeOK /\ PromptInv => PromptWhole
  <2> SUFFICES ASSUME TypeOK, PromptInv PROVE PromptWhole
    OBVIOUS
  <2> DEFINE b == promptContentBlocks(parts, support)
             said == {i \in DOMAIN parts : parts[i].fields # {"blank"}}
             n == IF fresh THEN 1 ELSE 0
  <2>1. support \in Supports /\ fresh \in BOOLEAN
    BY DEF TypeOK
  <2>2. ASSUME pc = "prompt" PROVE validatePromptBlocks(b, support)
    BY <2>1, <2>2, PromptBlocks DEF PromptInv
  <2>3. ASSUME pc = "stream"
        PROVE  /\ Len(blocks) = n + Cardinality(said)
               /\ \A i \in said : blocks[n + place(said, i)] \in carriers(parts[i])
    <3>1. /\ b \in Seq(Blocks) /\ Len(b) = Cardinality(said)
          /\ \A i \in said : place(said, i) \in 1..Len(b) /\ b[place(said, i)] \in carriers(parts[i])
      BY <2>1, <2>3, PromptBlocks DEF PromptInv
    <3>2. blocks = IF fresh THEN prependInstructionsToContent(b) ELSE b
      BY <2>3 DEF PromptInv
    <3> HIDE DEF b, said
    <3>3. CASE ~fresh
      BY <3>1, <3>2, <3>3
    <3>4. CASE fresh
      <4>1. <<"text">> \in Seq(Blocks) /\ Len(<<"text">>) = 1
        BY DEF Blocks
      <4>2. blocks = <<"text">> \o b
        BY <3>2, <3>4 DEF prependInstructionsToContent
      <4>3. Len(blocks) = 1 + Len(b) /\ \A k \in 1..Len(b) : blocks[1 + k] = b[k]
        BY <3>1, <4>1, <4>2
      <4> QED BY <3>1, <3>4, <4>3
    <3> QED BY <3>3, <3>4
  <2> QED BY <2>2, <2>3 DEF PromptWhole
<1> QED BY <1>1, <1>2, PromptNext, TypeCorrect, PTL DEF Spec
=============================================================================
