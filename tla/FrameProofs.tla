----------------------------- MODULE FrameProofs -----------------------------
(***************************************************************************)
(* What a frame of Engine::Run starts and ends with.  Input, whatever the  *)
(* keys, buttons and controllers and whatever mapping of them to actions:  *)
(* the edges Actions reports are those of what is held, what is held is    *)
(* held by somebody, and no controller that is gone stays open.  The       *)
(* renderer, whatever is drawn and given up: every command is drawn as it  *)
(* was asked for, in the order of the layers and within a layer in that of *)
(* the calls, with textures that are alive, and no texture is lost.        *)
(***************************************************************************)
EXTENDS Input, Renderer, SequenceTheorems, FiniteSetTheorems, WellFoundedInduction, TLAPS

-----------------------------------------------------------------------------
(* The edges *)

EdgeInv ==
  /\ mIsPressed \subseteq mIsDown /\ mIsReleased \cap mIsDown = {}
  /\ mIsDown \subseteq Acts

\* UpdateStateInputItemGeneric, action by action, comes to this.
LEMMA UpdateEdges ==
  ASSUME EdgeInv, Update
  PROVE  /\ mIsDown' = RawDown
         /\ mIsPressed' = RawDown \ mIsDown /\ mIsReleased' = mIsDown \ RawDown
<1> DEFINE raw == RawDown
           fresh == {a \in raw : a \notin mIsPressed /\ a \notin mIsDown}
           again == {a \in raw : a \in mIsDown}
<1>1. raw \subseteq Acts
  BY DEF RawDown
<1>2. /\ mIsPressed' = ((mIsPressed \cup fresh) \ again) \cap raw
      /\ mIsReleased' = {a \in Acts \ raw : a \in mIsPressed \cup mIsDown}
                          \cup ((mIsReleased \cap raw) \ (fresh \cup again))
      /\ mIsDown' = (mIsDown \cup fresh) \cap raw
  BY DEF Update
<1> HIDE DEF raw
<1>3. fresh = raw \ mIsDown /\ again = raw \cap mIsDown
  BY DEF EdgeInv
<1>4. mIsDown' = raw
  BY <1>2, <1>3
<1>5. mIsPressed' = raw \ mIsDown
  BY <1>2, <1>3 DEF EdgeInv
<1>6. mIsReleased' = mIsDown \ raw
  BY <1>1, <1>2, <1>3 DEF EdgeInv
<1> QED
  BY <1>4, <1>5, <1>6 DEF raw

LEMMA EdgeStep == EdgeInv /\ [InputNext]_inputVars => EdgeInv'
<1> SUFFICES ASSUME EdgeInv, [InputNext]_inputVars PROVE EdgeInv'
  OBVIOUS
<1>1. CASE Update
  <2>1. RawDown \subseteq Acts
    BY DEF RawDown
  <2> QED
    BY <1>1, <2>1, UpdateEdges DEF EdgeInv
<1>2. CASE UNCHANGED actionVars
  BY <1>2 DEF EdgeInv, actionVars
<1>3. Update \/ UNCHANGED actionVars
  BY DEF InputNext, inputVars, PressKey, PressButton, Plug, Unplug, OnKeyEvent,
         OnControllerButton, AddController, RemoveController
<1> QED
  BY <1>1, <1>2, <1>3

\* An action is pressed in the first frame it is held and released in the
\* first frame it is not, each once (UpdateStateInputItemGeneric), for any
\* mapping of any keys and buttons.
THEOREM EdgesMatch == InputSpec => EdgesMatchHold
<1>1. InputInit => EdgeInv
  BY DEF InputInit, EdgeInv
<1>2. EdgeInv /\ [InputNext]_inputVars =>
        [mIsPressed' = mIsDown' \ mIsDown /\ mIsReleased' = mIsDown \ mIsDown']_actionVars
  <2> SUFFICES ASSUME EdgeInv, [InputNext]_inputVars, actionVars' # actionVars
               PROVE  mIsPressed' = mIsDown' \ mIsDown /\ mIsReleased' = mIsDown \ mIsDown'
    OBVIOUS
  <2>1. Update
    BY DEF InputNext, inputVars, PressKey, PressButton, Plug, Unplug, OnKeyEvent,
           OnControllerButton, AddController, RemoveController
  <2> QED
    BY <2>1, UpdateEdges
<1> QED
  BY <1>1, <1>2, EdgeStep, PTL DEF InputSpec, EdgesMatchHold

-----------------------------------------------------------------------------
(* Types *)

LEMMA EventTypes ==
  /\ \A k \in Keys, d \in BOOLEAN : [type |-> "key", key |-> k, down |-> d] \in Events
  /\ \A id \in 0 .. MaxId - 1, b \in Buttons, d \in BOOLEAN :
       [type |-> "button", id |-> id, button |-> b, down |-> d] \in Events
  /\ \A n \in Nat : [type |-> "added", index |-> n] \in Events
  /\ \A id \in 0 .. MaxId - 1 : [type |-> "removed", id |-> id] \in Events
BY DEF Events

\* What an event holds depends on its type.
LEMMA EventFields ==
  ASSUME NEW e \in Events
  PROVE  /\ e.type = "key" => e.key \in Keys /\ e.down \in BOOLEAN
         /\ e.type = "button" => e.id \in 0 .. MaxId - 1 /\ e.button \in Buttons /\ e.down \in BOOLEAN
         /\ e.type = "added" => e.index \in Nat
         /\ e.type = "removed" => e.id \in 0 .. MaxId - 1
BY DEF Events

\* A controller that is unplugged goes out of the list; all others stay.
LEMMA RemoveAtKeeps ==
  ASSUME NEW S, NEW s \in Seq(S), NEW i \in 1 .. Len(s)
  PROVE  /\ RemoveAt(s, i) \in Seq(S)
         /\ \A j \in 1 .. Len(s) : j # i => s[j] \in Range(RemoveAt(s, i))
<1> DEFINE front == SubSeq(s, 1, i - 1)
           back == SubSeq(s, i + 1, Len(s))
<1>0. Len(s) \in Nat
  BY LenProperties
<1>1. /\ front \in Seq(S) /\ Len(front) = i - 1
      /\ \A j \in 1 .. i - 1 : front[j] = s[j]
  <2>1. i - 1 \in Int /\ \A j \in 1 .. i - 1 : s[j] \in S
    BY <1>0, ElementOfSeq
  <2> QED
    BY <2>1, <1>0, SubSeqProperties, Z3
<1>2. /\ back \in Seq(S) /\ Len(back) = Len(s) - i
      /\ \A j \in 1 .. Len(s) - i : back[j] = s[i + j]
  <2> DEFINE m == i + 1
  <2>1. m \in Int /\ Len(s) \in Int /\ \A j \in m .. Len(s) : s[j] \in S
    BY <1>0, ElementOfSeq
  <2>2. m - 1 = i /\ Len(s) - m + 1 = Len(s) - i /\ (~(m <= Len(s)) => Len(s) - i = 0)
        /\ \A j \in 1 .. Len(s) - i : m + j - 1 = i + j
    BY <1>0
  <2> HIDE DEF m
  <2>3. /\ SubSeq(s, m, Len(s)) \in Seq(S)
        /\ Len(SubSeq(s, m, Len(s))) = IF m <= Len(s) THEN Len(s) - m + 1 ELSE 0
        /\ \A j \in 1 .. Len(s) - m + 1 : SubSeq(s, m, Len(s))[j] = s[m + j - 1]
    BY <2>1, SubSeqProperties
  <2>4. back = SubSeq(s, m, Len(s))
    BY DEF m
  <2> HIDE DEF back
  <2>5. Len(back) = Len(s) - i
    BY <2>2, <2>3, <2>4
  <2>6. \A j \in 1 .. Len(s) - i : back[j] = s[i + j]
    BY <2>2, <2>3, <2>4
  <2> QED
    BY <2>3, <2>4, <2>5, <2>6
<1> HIDE DEF front, back
<1>3. /\ front \o back \in Seq(S)
      /\ Len(front \o back) = Len(s) - 1
      /\ \A j \in 1 .. Len(s) - 1 :
           (front \o back)[j] = IF j <= i - 1 THEN front[j] ELSE back[j - (i - 1)]
  <2>1. Len(front) + Len(back) = Len(s) - 1
    BY <1>0, <1>1, <1>2
  <2>2. \A j \in 1 .. Len(s) - 1 : j <= i - 1 <=> j <= Len(front)
    BY <1>0, <1>1
  <2>3. /\ front \o back \in Seq(S) /\ Len(front \o back) = Len(front) + Len(back)
        /\ \A j \in 1 .. Len(front) + Len(back) :
             (front \o back)[j] = IF j <= Len(front) THEN front[j] ELSE back[j - Len(front)]
    BY <1>1, <1>2, ConcatProperties
  <2> QED
    BY <1>1, <2>1, <2>2, <2>3
<1>4. ASSUME NEW j \in 1 .. Len(s), j # i
      PROVE  \E k \in 1 .. Len(s) - 1 : (front \o back)[k] = s[j]
  <2>1. CASE j < i
    BY <1>0, <1>1, <1>3, <2>1
  <2>2. CASE j > i
    <3>1. j - 1 \in 1 .. Len(s) - 1 /\ ~(j - 1 <= i - 1) /\ (j - 1) - (i - 1) = j - i
      BY <1>0, <2>2
    <3>2. j - i \in 1 .. Len(s) - i /\ i + (j - i) = j
      BY <1>0, <2>2
    <3> QED
      BY <1>2, <1>3, <3>1, <3>2
  <2>3. j < i \/ j > i
    BY <1>0, <1>4
  <2> QED
    BY <2>1, <2>2, <2>3
<1>5. DOMAIN (front \o back) = 1 .. Len(s) - 1
  BY <1>3, LenProperties
<1>6. RemoveAt(s, i) = front \o back
  BY DEF RemoveAt, front, back
<1> QED
  BY <1>3, <1>4, <1>5, <1>6 DEF Range

\* The steps that move events: each takes the first or appends one.
LEMMA HeadAndTail ==
  ASSUME NEW S, NEW s \in Seq(S), s # <<>>
  PROVE  /\ Head(s) \in S /\ Head(s) = s[1] /\ Tail(s) \in Seq(S)
         /\ Len(s) \in Nat \ {0} /\ Len(Tail(s)) = Len(s) - 1
         /\ \A i \in 1 .. Len(s) - 1 : Tail(s)[i] = s[i + 1]
BY HeadTailProperties, EmptySeq, ElementOfSeq

\* AddController opens an attached controller or does nothing.
LEMMA OpenedControllers ==
  ASSUME InputTypeOK, NEW index \in Nat
  PROVE  \/ Opened(mControllers, index) = mControllers
         \/ \E id \in Range(attached) \cap 0 .. MaxId - 1 :
              Opened(mControllers, index) =
                [other \in DOMAIN mControllers \cup {id} |->
                   IF other = id THEN {} ELSE mControllers[other]]
<1>1. CASE index < Len(attached)
  <2>1. Len(attached) \in Nat /\ DOMAIN attached = 1 .. Len(attached)
        /\ attached \in [1 .. Len(attached) -> 0 .. MaxId - 1]
    BY LenProperties DEF InputTypeOK
  <2>2. index + 1 \in 1 .. Len(attached)
    BY <1>1, <2>1
  <2>3. attached[index + 1] \in Range(attached) \cap 0 .. MaxId - 1
    BY <2>1, <2>2 DEF Range
  <2> QED
    BY <1>1, <2>3 DEF Opened
<1>2. CASE ~(index < Len(attached))
  BY <1>2 DEF Opened
<1> QED
  BY <1>1, <1>2

LEMMA TypeStep == InputTypeOK /\ [InputNext]_inputVars => InputTypeOK'
<1> SUFFICES ASSUME InputTypeOK, [InputNext]_inputVars PROVE InputTypeOK'
  OBVIOUS
<1> USE InputAssumption
<1>1. ASSUME NEW k \in Keys, PressKey(k) PROVE InputTypeOK'
  <2>1. events' \in Seq(Events)
    <3>1. [type |-> "key", key |-> k, down |-> k \notin keysHeld] \in Events
      BY EventTypes
    <3> QED
      BY <1>1, <3>1, AppendProperties DEF PressKey, Queued, InputTypeOK
  <2> QED
    BY <1>1, <2>1 DEF InputTypeOK, PressKey, actionVars
<1>2. ASSUME NEW id \in 0 .. MaxId - 1, NEW b \in Buttons, PressButton(id, b) PROVE InputTypeOK'
  <2>1. events' \in Seq(Events)
    <3>1. [type |-> "button", id |-> id, button |-> b, down |-> b \notin padHeld[id]] \in Events
      BY EventTypes
    <3> QED
      BY <1>2, <3>1, AppendProperties DEF PressButton, Queued, InputTypeOK
  <2>2. padHeld' \in [0 .. MaxId - 1 -> SUBSET Buttons]
    BY <1>2 DEF InputTypeOK, PressButton
  <2> QED
    BY <1>2, <2>1, <2>2 DEF InputTypeOK, PressButton, actionVars
<1>3. CASE Plug
  <2>1. nextId \in 0 .. MaxId - 1 /\ nextId' \in 0 .. MaxId
    BY <1>3 DEF InputTypeOK, Plug
  <2>2. attached' \in Seq(0 .. MaxId - 1)
    BY <1>3, <2>1, AppendProperties DEF InputTypeOK, Plug
  <2>3. events' \in Seq(Events)
    <3>1. [type |-> "added", index |-> Len(attached)] \in Events
      BY EventTypes, LenProperties DEF InputTypeOK
    <3> QED
      BY <1>3, <3>1, AppendProperties DEF Plug, Queued, InputTypeOK
  <2> QED
    BY <1>3, <2>1, <2>2, <2>3 DEF InputTypeOK, Plug, actionVars
<1>4. ASSUME NEW place \in 1 .. MaxId, Unplug(place) PROVE InputTypeOK'
  <2>1. place \in 1 .. Len(attached) /\ attached[place] \in 0 .. MaxId - 1
    BY <1>4, LenProperties DEF Unplug, InputTypeOK
  <2>2. attached' \in Seq(0 .. MaxId - 1)
    BY <1>4, <2>1, RemoveAtKeeps DEF Unplug, InputTypeOK
  <2>3. padHeld' \in [0 .. MaxId - 1 -> SUBSET Buttons]
    BY <1>4, <2>1 DEF InputTypeOK, Unplug
  <2>4. events' \in Seq(Events)
    <3>1. [type |-> "removed", id |-> attached[place]] \in Events
      BY <2>1, EventTypes
    <3> QED
      BY <1>4, <3>1, AppendProperties DEF Unplug, Queued, InputTypeOK
  <2> QED
    BY <1>4, <2>2, <2>3, <2>4 DEF InputTypeOK, Unplug, actionVars
<1>5. ASSUME NEW type, Polled(type)
      PROVE  Head(events) \in Events /\ Head(events).type = type /\ events' \in Seq(Events)
  BY <1>5, HeadAndTail DEF Polled, InputTypeOK
<1>6. CASE OnKeyEvent
  <2>1. Head(events) \in Events /\ Head(events).type = "key" /\ events' \in Seq(Events)
    BY <1>5, <1>6 DEF OnKeyEvent
  <2>2. mKeys' \subseteq Keys
    BY <1>6, <2>1, EventFields DEF OnKeyEvent, Toggled, InputTypeOK
  <2> QED
    BY <1>6, <2>1, <2>2 DEF InputTypeOK, OnKeyEvent, deviceVars, actionVars
<1>7. CASE OnControllerButton
  <2>1. Head(events) \in Events /\ Head(events).type = "button" /\ events' \in Seq(Events)
    BY <1>5, <1>7 DEF OnControllerButton
  <2>2. mControllers' \in [DOMAIN mControllers -> SUBSET Buttons]
    BY <1>7, <2>1, EventFields DEF OnControllerButton, Toggled, InputTypeOK
  <2> QED
    BY <1>7, <2>1, <2>2 DEF InputTypeOK, OnControllerButton, deviceVars, actionVars
<1>8. CASE AddController
  <2>1. Head(events) \in Events /\ Head(events).type = "added" /\ events' \in Seq(Events)
    BY <1>5, <1>8 DEF AddController
  <2>2. Head(events).index \in Nat
    BY <2>1, EventFields
  <2>3. mControllers' \in {mControllers, Opened(mControllers, Head(events).index)}
    BY <1>8 DEF AddController
  <2>4. /\ DOMAIN mControllers' \subseteq 0 .. MaxId - 1
        /\ mControllers' \in [DOMAIN mControllers' -> SUBSET Buttons]
    <3> DEFINE Controllers(c) == DOMAIN c \subseteq 0 .. MaxId - 1 /\ c \in [DOMAIN c -> SUBSET Buttons]
    <3>1. Controllers(mControllers)
      BY DEF InputTypeOK
    <3>2. ASSUME NEW id \in 0 .. MaxId - 1
          PROVE  Controllers([other \in DOMAIN mControllers \cup {id} |->
                                IF other = id THEN {} ELSE mControllers[other]])
      BY <3>1
    <3>3. Controllers(Opened(mControllers, Head(events).index))
      BY <2>2, <3>1, <3>2, OpenedControllers
    <3> QED
      BY <2>3, <3>1, <3>3
  <2> QED
    BY <1>8, <2>1, <2>4 DEF InputTypeOK, AddController, deviceVars, actionVars
<1>9. CASE RemoveController
  <2>1. events' \in Seq(Events)
    BY <1>5, <1>9 DEF RemoveController
  <2>2. /\ DOMAIN mControllers' \subseteq 0 .. MaxId - 1
        /\ mControllers' \in [DOMAIN mControllers' -> SUBSET Buttons]
    BY <1>9 DEF RemoveController, InputTypeOK
  <2> QED
    BY <1>9, <2>1, <2>2 DEF InputTypeOK, RemoveController, deviceVars, actionVars
<1>10. CASE Update
  <2>1. RawDown \subseteq Acts
    BY DEF RawDown
  <2>2. mIsPressed' \cup mIsReleased' \cup mIsDown' \subseteq Acts
    BY <1>10, <2>1 DEF Update, InputTypeOK
  <2>3. oddFrame' \in BOOLEAN
    BY <1>10 DEF Update
  <2> QED
    BY <1>10, <2>2, <2>3 DEF InputTypeOK, Update, deviceVars
<1>11. CASE UNCHANGED inputVars
  BY <1>11 DEF InputTypeOK, inputVars, deviceVars, actionVars
<1> QED
  BY <1>1, <1>2, <1>3, <1>4, <1>6, <1>7, <1>8, <1>9, <1>10, <1>11 DEF InputNext

LEMMA InitTyped == InputInit => InputTypeOK
<1> SUFFICES ASSUME InputInit PROVE InputTypeOK
  OBVIOUS
<1>1. attached \in Seq(0 .. MaxId - 1)
  <2>1. attached \in [1 .. AtStart -> 0 .. MaxId - 1] /\ AtStart \in Nat
    BY InputAssumption DEF InputInit
  <2> QED
    BY <2>1, SeqDef
<1>2. events \in Seq(Events)
  <2>1. \A i \in 1 .. AtStart : [type |-> "added", index |-> i - 1] \in Events
    BY EventTypes, InputAssumption
  <2>2. events \in [1 .. AtStart -> Events] /\ AtStart \in Nat
    BY <2>1, InputAssumption DEF InputInit
  <2> QED
    BY <2>2, SeqDef
<1>3. oddFrame \in BOOLEAN
  BY Zenon DEF InputInit
<1>4. /\ padHeld \in [0 .. MaxId - 1 -> SUBSET Buttons] /\ nextId \in 0 .. MaxId
      /\ keysHeld \subseteq Keys /\ mKeys \subseteq Keys
      /\ mIsPressed \cup mIsReleased \cup mIsDown \subseteq Acts
  BY InputAssumption DEF InputInit
<1>5. /\ DOMAIN mControllers \subseteq 0 .. MaxId - 1
      /\ mControllers \in [DOMAIN mControllers -> SUBSET Buttons]
  BY InputAssumption DEF InputInit
<1> QED
  BY <1>1, <1>2, <1>3, <1>4, <1>5 DEF InputTypeOK

\* The variables have their types, for any keys, buttons and controllers.
THEOREM InputTypeCorrect == InputSpec => []InputTypeOK
BY InitTyped, TypeStep, PTL DEF InputSpec

-----------------------------------------------------------------------------
(* Controllers that are gone *)

\* An open controller is attached, or its REMOVED event is on its way.
GoneInv ==
  \A id \in DOMAIN mControllers :
    \/ id \in Range(attached)
    \/ \E i \in 1 .. Len(events) : events[i].type = "removed" /\ events[i].id = id

\* A queue that grows keeps what is in it.
LEMMA QueuedKeeps ==
  ASSUME NEW S, NEW s \in Seq(S), NEW e
  PROVE  /\ Len(s) \in Nat /\ Len(Append(s, e)) = Len(s) + 1
         /\ DOMAIN s = 1 .. Len(s) /\ DOMAIN Append(s, e) = 1 .. Len(s) + 1
         /\ Append(s, e)[Len(s) + 1] = e
         /\ \A i \in 1 .. Len(s) : Append(s, e)[i] = s[i]
<1>1. s \in Seq(S \cup {e}) /\ e \in S \cup {e}
  BY SeqMonotonic
<1>2. Append(s, e) \in Seq(S \cup {e}) /\ Len(Append(s, e)) = Len(s) + 1
      /\ Append(s, e)[Len(s) + 1] = e
      /\ \A i \in 1 .. Len(s) : Append(s, e)[i] = s[i]
  BY <1>1, AppendProperties
<1> QED
  BY <1>2, LenProperties

LEMMA GoneStep == InputTypeOK /\ GoneInv /\ [InputNext]_inputVars => GoneInv'
<1> SUFFICES ASSUME InputTypeOK, GoneInv, [InputNext]_inputVars PROVE GoneInv'
  OBVIOUS
<1> DEFINE Leaving(id) ==
      \E i \in 1 .. Len(events) : events[i].type = "removed" /\ events[i].id = id
<1>1. ASSUME NEW e, events' = Append(events, e)
      PROVE  \A id : Leaving(id) => Leaving(id)'
  <2>1. events \in Seq(Events)
    BY DEF InputTypeOK
  <2>2. /\ Len(events) \in Nat /\ Len(events') = Len(events) + 1
        /\ \A i \in 1 .. Len(events) : events'[i] = events[i]
    BY <1>1, <2>1, QueuedKeeps
  <2>3. ASSUME NEW id, Leaving(id) PROVE Leaving(id)'
    <3>1. PICK i \in 1 .. Len(events) : events[i].type = "removed" /\ events[i].id = id
      BY <2>3
    <3>2. i \in 1 .. Len(events') /\ events'[i] = events[i]
      BY <2>2
    <3> QED
      BY <3>1, <3>2
  <2> QED
    BY <2>3
<1>3. ASSUME UNCHANGED <<mControllers, attached>>, NEW e, events' = Append(events, e) PROVE GoneInv'
  BY <1>1, <1>3 DEF GoneInv
<1>4. ASSUME NEW k \in Keys, PressKey(k) PROVE GoneInv'
  BY <1>3, <1>4 DEF PressKey, Queued
<1>5. ASSUME NEW id \in 0 .. MaxId - 1, NEW b \in Buttons, PressButton(id, b) PROVE GoneInv'
  BY <1>3, <1>5 DEF PressButton, Queued
<1>6. CASE Plug
  <2>1. Range(attached) \subseteq Range(attached')
    <3>1. attached \in Seq(0 .. MaxId - 1) /\ attached' = Append(attached, nextId)
      BY <1>6 DEF Plug, InputTypeOK
    <3>2. /\ DOMAIN attached = 1 .. Len(attached) /\ DOMAIN attached' = 1 .. Len(attached) + 1
          /\ Len(attached) \in Nat /\ \A i \in 1 .. Len(attached) : attached'[i] = attached[i]
      BY <3>1, QueuedKeeps
    <3>3. \A i \in DOMAIN attached : i \in DOMAIN attached' /\ attached'[i] = attached[i]
      BY <3>2
    <3> QED
      BY <3>3 DEF Range
  <2>2. \A id : Leaving(id) => Leaving(id)'
    BY <1>1, <1>6 DEF Plug, Queued
  <2> QED
    BY <1>6, <2>1, <2>2 DEF GoneInv, Plug
<1>7. ASSUME NEW place \in 1 .. MaxId, Unplug(place) PROVE GoneInv'
  <2>1. place \in 1 .. Len(attached) /\ attached \in Seq(0 .. MaxId - 1)
        /\ DOMAIN attached = 1 .. Len(attached)
    BY <1>7, LenProperties DEF Unplug, InputTypeOK
  <2>2. \A id \in Range(attached) : id = attached[place] \/ id \in Range(attached')
    <3>1. attached' = RemoveAt(attached, place)
      BY <1>7 DEF Unplug
    <3>2. \A j \in 1 .. Len(attached) : j # place => attached[j] \in Range(RemoveAt(attached, place))
      BY <2>1, RemoveAtKeeps
    <3>3. \A id \in Range(attached) : \E j \in 1 .. Len(attached) : id = attached[j]
      BY <2>1 DEF Range
    <3> QED
      BY <3>1, <3>2, <3>3
  <2>3. PICK gone : gone = attached[place]
    OBVIOUS
  <2>4. events' = Append(events, [type |-> "removed", id |-> gone])
    BY <1>7, <2>3 DEF Unplug, Queued
  <2>5. Leaving(gone)'
    <3>1. events \in Seq(Events)
      BY DEF InputTypeOK
    <3>2. /\ Len(events) + 1 \in 1 .. Len(events')
          /\ events'[Len(events) + 1] = [type |-> "removed", id |-> gone]
      BY <2>4, <3>1, QueuedKeeps
    <3> QED
      BY <3>2
  <2>6. \A id : Leaving(id) => Leaving(id)'
    BY <1>1, <2>4
  <2>7. mControllers' = mControllers
    BY <1>7 DEF Unplug
  <2> QED
    BY <2>2, <2>3, <2>5, <2>6, <2>7 DEF GoneInv
<1>8. ASSUME NEW type, Polled(type)
      PROVE  /\ Head(events).type = type
             /\ \A id : Leaving(id) /\ (type = "removed" => id # Head(events).id) => Leaving(id)'
  <2>1. /\ events # <<>> /\ events' = Tail(events) /\ Head(events) = events[1]
        /\ Len(events) \in Nat \ {0} /\ Len(events') = Len(events) - 1
        /\ \A i \in 1 .. Len(events) - 1 : events'[i] = events[i + 1]
    BY <1>8, HeadAndTail DEF Polled, InputTypeOK
  <2>2. ASSUME NEW id, Leaving(id), type = "removed" => id # Head(events).id PROVE Leaving(id)'
    <3>1. PICK i \in 1 .. Len(events) : events[i].type = "removed" /\ events[i].id = id
      BY <2>2
    <3>2. i # 1
      BY <1>8, <2>1, <2>2, <3>1 DEF Polled
    <3>3. i - 1 \in 1 .. Len(events') /\ events'[i - 1] = events[i]
      BY <2>1, <3>2
    <3> QED
      BY <3>1, <3>3
  <2> QED
    BY <1>8, <2>2 DEF Polled
<1>9. CASE OnKeyEvent
  <2>1. \A id : Leaving(id) => Leaving(id)'
    BY <1>8, <1>9 DEF OnKeyEvent
  <2> QED
    BY <1>9, <2>1 DEF GoneInv, OnKeyEvent, deviceVars
<1>10. CASE OnControllerButton
  <2>1. \A id : Leaving(id) => Leaving(id)'
    BY <1>8, <1>10 DEF OnControllerButton
  <2>2. DOMAIN mControllers' = DOMAIN mControllers /\ attached' = attached
    BY <1>10 DEF OnControllerButton, deviceVars
  <2> QED
    BY <2>1, <2>2 DEF GoneInv
<1>11. CASE AddController
  <2>1. \A id : Leaving(id) => Leaving(id)'
    BY <1>8, <1>11 DEF AddController
  <2>2. Head(events).index \in Nat
    BY <1>11, HeadAndTail, EventFields DEF AddController, Polled, InputTypeOK
  <2>3. DOMAIN mControllers' \subseteq DOMAIN mControllers \cup Range(attached)
    <3>1. mControllers' \in {mControllers, Opened(mControllers, Head(events).index)}
      BY <1>11 DEF AddController
    <3>2. CASE mControllers' = mControllers
      BY <3>2
    <3>3. ASSUME NEW id \in Range(attached),
                 mControllers' = [other \in DOMAIN mControllers \cup {id} |->
                                    IF other = id THEN {} ELSE mControllers[other]]
          PROVE  DOMAIN mControllers' \subseteq DOMAIN mControllers \cup Range(attached)
      BY <3>3
    <3> QED
      BY <2>2, <3>1, <3>2, <3>3, OpenedControllers
  <2> QED
    BY <1>11, <2>1, <2>3 DEF GoneInv, AddController, deviceVars
<1>12. CASE RemoveController
  <2>1. \A id : Leaving(id) /\ id # Head(events).id => Leaving(id)'
    BY <1>8, <1>12 DEF RemoveController
  <2>2. DOMAIN mControllers' = DOMAIN mControllers \ {Head(events).id} /\ attached' = attached
    BY <1>12 DEF RemoveController, deviceVars
  <2> QED
    BY <2>1, <2>2 DEF GoneInv
<1>13. CASE Update \/ UNCHANGED inputVars
  BY <1>13 DEF GoneInv, Update, inputVars, deviceVars
<1> QED
  BY <1>4, <1>5, <1>6, <1>7, <1>9, <1>10, <1>11, <1>12, <1>13 DEF InputNext

LEMMA InitGone == InputInit => GoneInv
<1> SUFFICES ASSUME InputInit, NEW id \in 0 .. AtStart - 1 PROVE id \in Range(attached)
  BY DEF InputInit, GoneInv
<1>1. id + 1 \in 1 .. AtStart /\ attached[id + 1] = id /\ DOMAIN attached = 1 .. AtStart
  BY InputAssumption DEF InputInit
<1> QED
  BY <1>1 DEF Range

\* However controllers come and go, when all events are polled none that is
\* gone is open (InputState::AddController, RemoveController).
THEOREM NoneDangling == InputSpec => []NoDanglingController
<1>1. InputTypeOK /\ GoneInv => NoDanglingController
  BY EmptySeq DEF GoneInv, NoDanglingController
<1> QED
  BY <1>1, InitTyped, TypeStep, InitGone, GoneStep, PTL DEF InputSpec
-----------------------------------------------------------------------------
(* What is held *)

\* Of the events of s in R, x is the one that comes last; there is one at all.
LastOf(s, R, x) ==
  /\ x \in R
  /\ \E i \in 1 .. Len(s) : s[i] = x /\ \A j \in i + 1 .. Len(s) : s[j] \notin R
Pending(s, R) == \E i \in 1 .. Len(s) : s[i] \in R

\* The events that tell of a key, and of a button of a controller.
KeyEvents(k) == {e \in Events : e.type = "key" /\ e.key = k}
PadEvents(id, b) ==
  {e \in Events : \/ e.type = "button" /\ e.id = id /\ e.button = b
                  \/ e.type = "removed" /\ e.id = id}

\* The program's view lags behind the devices by the queue: the last word of
\* the queue on a key or button is true of it, and without one what the
\* program believes is.
KeyInv(k) ==
  /\ \A x : LastOf(events, KeyEvents(k), x) /\ x.down => k \in keysHeld
  /\ ~Pending(events, KeyEvents(k)) /\ k \in mKeys => k \in keysHeld

PadInv(id, b) ==
  /\ \A x : LastOf(events, PadEvents(id, b), x) /\ x.type = "button" /\ x.down => b \in padHeld[id]
  /\ ~Pending(events, PadEvents(id, b)) /\ id \in DOMAIN mControllers /\ b \in mControllers[id]
       => b \in padHeld[id]

HeldInv ==
  /\ \A k \in Keys : KeyInv(k)
  /\ \A id \in 0 .. MaxId - 1, b \in Buttons : PadInv(id, b)

\* A new event has the last word if it is in R, and changes nothing if not.
LEMMA AppendLast ==
  ASSUME NEW S, NEW s \in Seq(S), NEW e, NEW R
  PROVE  /\ e \in R => /\ Pending(Append(s, e), R)
                       /\ \A x : LastOf(Append(s, e), R, x) => x = e
         /\ e \notin R => /\ Pending(s, R) => Pending(Append(s, e), R)
                          /\ \A x : LastOf(Append(s, e), R, x) => LastOf(s, R, x)
<1> DEFINE t == Append(s, e)
           n == Len(s)
<1>1. n \in Nat /\ Len(t) = n + 1 /\ t[n + 1] = e /\ \A i \in 1 .. n : t[i] = s[i]
  BY QueuedKeeps
<1> HIDE DEF t
<1>2. ASSUME e \in R, NEW x, LastOf(t, R, x) PROVE x = e
  <2>1. PICK i \in 1 .. n + 1 : t[i] = x /\ \A j \in i + 1 .. n + 1 : t[j] \notin R
    BY <1>1, <1>2 DEF LastOf
  <2>2. i = n + 1
    BY <1>1, <1>2, <2>1
  <2> QED
    BY <1>1, <2>1, <2>2
<1>3. e \in R => Pending(t, R)
  BY <1>1 DEF Pending
<1>4. Pending(s, R) => Pending(t, R)
  BY <1>1 DEF Pending
<1>5. ASSUME e \notin R, NEW x, LastOf(t, R, x) PROVE LastOf(s, R, x)
  <2>1. PICK i \in 1 .. n + 1 : x \in R /\ t[i] = x /\ \A j \in i + 1 .. n + 1 : t[j] \notin R
    BY <1>1, <1>5 DEF LastOf
  <2>2. i \in 1 .. n
    BY <1>1, <1>5, <2>1
  <2>3. s[i] = x /\ \A j \in i + 1 .. n : s[j] \notin R
    BY <1>1, <2>1, <2>2
  <2> QED
    BY <2>1, <2>2, <2>3 DEF LastOf
<1> QED
  BY <1>2, <1>3, <1>4, <1>5 DEF t

\* The event that is polled had the last word if no later one is in R.
LEMMA TailLast ==
  ASSUME NEW S, NEW s \in Seq(S), s # <<>>, NEW R
  PROVE  /\ \A x : LastOf(Tail(s), R, x) => LastOf(s, R, x)
         /\ ~Pending(Tail(s), R) /\ Head(s) \in R => LastOf(s, R, Head(s))
         /\ ~Pending(Tail(s), R) /\ Head(s) \notin R => ~Pending(s, R)
<1> DEFINE t == Tail(s)
           n == Len(s)
<1>1. /\ n \in Nat \ {0} /\ Len(t) = n - 1 /\ Head(s) = s[1]
      /\ \A i \in 1 .. n - 1 : t[i] = s[i + 1]
  BY HeadAndTail
<1> HIDE DEF t
<1>2. \A j \in 2 .. n : j - 1 \in 1 .. n - 1 /\ s[j] = t[j - 1]
  BY <1>1
<1>3. ASSUME NEW x, LastOf(t, R, x) PROVE LastOf(s, R, x)
  <2>1. PICK i \in 1 .. n - 1 : x \in R /\ t[i] = x /\ \A j \in i + 1 .. n - 1 : t[j] \notin R
    BY <1>1, <1>3 DEF LastOf
  <2>2. i + 1 \in 1 .. n /\ s[i + 1] = x
    BY <1>1, <2>1
  <2>3. \A j \in (i + 1) + 1 .. n : j - 1 \in i + 1 .. n - 1 /\ s[j] = t[j - 1]
    BY <1>1, <1>2
  <2> QED
    BY <2>1, <2>2, <2>3 DEF LastOf
<1>4. ASSUME ~Pending(t, R) PROVE \A j \in 2 .. n : s[j] \notin R
  BY <1>1, <1>2, <1>4 DEF Pending
<1>5. ~Pending(t, R) /\ Head(s) \in R => LastOf(s, R, Head(s))
  BY <1>1, <1>4 DEF LastOf
<1>6. ~Pending(t, R) /\ Head(s) \notin R => ~Pending(s, R)
  <2>1. \A i \in 1 .. n : i = 1 \/ i \in 2 .. n
    BY <1>1
  <2> QED
    BY <1>1, <1>4, <2>1 DEF Pending
<1> QED
  BY <1>3, <1>5, <1>6 DEF t

\* The steps as KeyInv and PadInv see them.
LEMMA NewWord ==
  ASSUME InputTypeOK, NEW e, events' = Append(events, e), NEW R
  PROVE  /\ e \in R => /\ Pending(events', R)
                       /\ \A x : LastOf(events', R, x) => x = e
         /\ e \notin R => /\ Pending(events, R) => Pending(events', R)
                          /\ \A x : LastOf(events', R, x) => LastOf(events, R, x)
<1>1. events \in Seq(Events)
  BY DEF InputTypeOK
<1> QED
  BY <1>1, AppendLast

LEMMA PolledWord ==
  ASSUME InputTypeOK, NEW type, Polled(type), NEW R
  PROVE  /\ Head(events) \in Events /\ Head(events).type = type
         /\ \A x : LastOf(events', R, x) => LastOf(events, R, x)
         /\ ~Pending(events', R) /\ Head(events) \in R => LastOf(events, R, Head(events))
         /\ ~Pending(events', R) /\ Head(events) \notin R => ~Pending(events, R)
<1>1. events \in Seq(Events) /\ events # <<>> /\ events' = Tail(events)
      /\ Head(events).type = type
  BY DEF InputTypeOK, Polled
<1> QED
  BY <1>1, TailLast, HeadAndTail

LEMMA HeldStep ==
  InputTypeOK /\ HeldInv /\ [InputNext]_inputVars => HeldInv'
<1> SUFFICES ASSUME InputTypeOK, HeldInv, [InputNext]_inputVars PROVE HeldInv'
  OBVIOUS
\* Steps that concern no key, and no button.
<1>1. ASSUME NEW e, e.type # "key", events' = Append(events, e),
             UNCHANGED <<keysHeld, mKeys>>, NEW k \in Keys
      PROVE  KeyInv(k)'
  <2>1. e \notin KeyEvents(k)
    BY <1>1 DEF KeyEvents
  <2> QED
    BY <1>1, <2>1, NewWord DEF HeldInv, KeyInv
<1>2. ASSUME NEW type, type # "key", Polled(type), UNCHANGED <<keysHeld, mKeys>>, NEW k \in Keys
      PROVE  KeyInv(k)'
  <2>1. Head(events) \notin KeyEvents(k)
    BY <1>2 DEF KeyEvents, Polled
  <2> QED
    BY <1>2, <2>1, PolledWord DEF HeldInv, KeyInv
<1>3. ASSUME NEW e, e.type \notin {"button", "removed"}, events' = Append(events, e),
             UNCHANGED <<padHeld, mControllers>>,
             NEW id \in 0 .. MaxId - 1, NEW b \in Buttons
      PROVE  PadInv(id, b)'
  <2>1. e \notin PadEvents(id, b)
    BY <1>3 DEF PadEvents
  <2> QED
    BY <1>3, <2>1, NewWord DEF HeldInv, PadInv
<1>4. ASSUME NEW type, type \notin {"button", "removed"}, Polled(type), padHeld' = padHeld,
             NEW id \in 0 .. MaxId - 1, NEW b \in Buttons,
             id \in DOMAIN mControllers' /\ b \in mControllers'[id]
               => id \in DOMAIN mControllers /\ b \in mControllers[id]
      PROVE  PadInv(id, b)'
  <2>1. Head(events) \notin PadEvents(id, b)
    BY <1>4 DEF PadEvents, Polled
  <2> QED
    BY <1>4, <2>1, PolledWord DEF HeldInv, PadInv
<1>5. ASSUME NEW key \in Keys, PressKey(key) PROVE HeldInv'
  <2> DEFINE down == key \notin keysHeld
  <2>1. PICK e : e = [type |-> "key", key |-> key, down |-> down]
    OBVIOUS
  <2>2. events' = Append(events, e) /\ e.type = "key" /\ e.key = key
        /\ (e.down <=> key \notin keysHeld)
    BY <1>5, <2>1 DEF PressKey, Queued
  <2>3. e \in Events
    <3>1. down \in BOOLEAN
      OBVIOUS
    <3> QED
      BY <2>1, <3>1, EventTypes
  <2>4. ASSUME NEW k \in Keys PROVE KeyInv(k)'
    <3>1. CASE k = key
      <4>1. e \in KeyEvents(k)
        BY <2>2, <2>3, <3>1 DEF KeyEvents
      <4>2. e.down => k \in keysHeld'
        BY <1>5, <2>2, <3>1 DEF PressKey
      <4> QED
        BY <2>2, <4>1, <4>2, NewWord DEF KeyInv
    <3>2. CASE k # key
      <4>1. e \notin KeyEvents(k)
        BY <2>2, <3>2 DEF KeyEvents
      <4>2. mKeys' = mKeys /\ (k \in keysHeld' <=> k \in keysHeld)
        BY <1>5, <3>2 DEF PressKey
      <4> QED
        BY <2>2, <4>1, <4>2, NewWord DEF HeldInv, KeyInv
    <3> QED
      BY <3>1, <3>2
  <2>5. \A id \in 0 .. MaxId - 1, b \in Buttons : PadInv(id, b)'
    BY <1>3, <1>5, <2>2 DEF PressKey
  <2> QED
    BY <2>4, <2>5 DEF HeldInv
<1>6. ASSUME NEW pad \in 0 .. MaxId - 1, NEW button \in Buttons, PressButton(pad, button)
      PROVE  HeldInv'
  <2> DEFINE down == button \notin padHeld[pad]
  <2>1. PICK e : e = [type |-> "button", id |-> pad, button |-> button, down |-> down]
    OBVIOUS
  <2>2. events' = Append(events, e) /\ e.type = "button" /\ e.id = pad /\ e.button = button
        /\ (e.down <=> button \notin padHeld[pad])
    BY <1>6, <2>1 DEF PressButton, Queued
  <2>3. e \in Events
    <3>1. down \in BOOLEAN
      OBVIOUS
    <3> QED
      BY <2>1, <3>1, EventTypes
  <2>4. ASSUME NEW id \in 0 .. MaxId - 1, NEW b \in Buttons PROVE PadInv(id, b)'
    <3>1. CASE id = pad /\ b = button
      <4>1. e \in PadEvents(id, b)
        BY <2>2, <2>3, <3>1 DEF PadEvents
      <4>2. e.down => b \in padHeld'[id]
        BY <1>6, <2>2, <3>1 DEF PressButton, InputTypeOK
      <4> QED
        BY <2>2, <4>1, <4>2, NewWord DEF PadInv
    <3>2. CASE ~(id = pad /\ b = button)
      <4>1. e \notin PadEvents(id, b)
        BY <2>2, <3>2 DEF PadEvents
      <4>2. mControllers' = mControllers /\ (b \in padHeld'[id] <=> b \in padHeld[id])
        BY <1>6, <3>2 DEF PressButton, InputTypeOK
      <4> QED
        BY <2>2, <4>1, <4>2, NewWord DEF HeldInv, PadInv
    <3> QED
      BY <3>1, <3>2
  <2>5. \A k \in Keys : KeyInv(k)'
    BY <1>1, <1>6, <2>2 DEF PressButton
  <2> QED
    BY <2>4, <2>5 DEF HeldInv
<1>7. CASE Plug
  <2>1. PICK e : e = [type |-> "added", index |-> Len(attached)]
    OBVIOUS
  <2>2. events' = Append(events, e) /\ e.type = "added"
    BY <1>7, <2>1 DEF Plug, Queued
  <2>3. UNCHANGED <<keysHeld, mKeys, padHeld, mControllers>>
    BY <1>7 DEF Plug
  <2> QED
    BY <1>1, <1>3, <2>2, <2>3 DEF HeldInv
<1>8. ASSUME NEW place \in 1 .. MaxId, Unplug(place) PROVE HeldInv'
  <2>1. place \in 1 .. Len(attached) /\ attached[place] \in 0 .. MaxId - 1
    <3>1. attached \in Seq(0 .. MaxId - 1) /\ place \in DOMAIN attached
      BY <1>8 DEF Unplug, InputTypeOK
    <3>2. /\ DOMAIN attached = 1 .. Len(attached)
          /\ attached \in [1 .. Len(attached) -> 0 .. MaxId - 1]
      BY <3>1, LenProperties
    <3> QED
      BY <3>1, <3>2, Zenon
  <2>2. PICK e : e = [type |-> "removed", id |-> attached[place]]
    OBVIOUS
  <2>3. /\ events' = Append(events, e) /\ e.type = "removed" /\ e.id = attached[place]
        /\ e \in Events
    BY <1>8, <2>1, <2>2, EventTypes DEF Unplug, Queued
  <2>4. UNCHANGED <<keysHeld, mKeys, mControllers>>
    BY <1>8 DEF Unplug
  <2>5. ASSUME NEW id \in 0 .. MaxId - 1, NEW b \in Buttons PROVE PadInv(id, b)'
    <3>1. CASE id = e.id
      <4>1. e \in PadEvents(id, b)
        BY <2>3, <3>1 DEF PadEvents
      <4> QED
        BY <2>3, <4>1, NewWord DEF PadInv
    <3>2. CASE id # e.id
      <4>1. e \notin PadEvents(id, b)
        BY <2>3, <3>2 DEF PadEvents
      <4>2. padHeld'[id] = padHeld[id]
        BY <1>8, <2>3, <3>2 DEF Unplug, InputTypeOK
      <4> QED
        BY <2>3, <2>4, <4>1, <4>2, NewWord DEF HeldInv, PadInv
    <3> QED
      BY <3>1, <3>2
  <2> QED
    BY <1>1, <2>3, <2>4, <2>5 DEF HeldInv
<1>9. CASE OnKeyEvent
  <2>1. Polled("key") /\ UNCHANGED <<keysHeld, padHeld, mControllers>>
    BY <1>9 DEF OnKeyEvent, deviceVars
  <2>2. Head(events) \in Events /\ Head(events).type = "key"
    BY <2>1, PolledWord
  <2>3. ASSUME NEW k \in Keys PROVE KeyInv(k)'
    <3>1. CASE Head(events) \in KeyEvents(k)
      <4>1. Head(events).key = k
        BY <3>1 DEF KeyEvents
      <4>2. k \in mKeys' => Head(events).down
        BY <1>9, <4>1 DEF OnKeyEvent, Toggled
      <4> QED
        BY <2>1, <3>1, <4>2, PolledWord DEF HeldInv, KeyInv
    <3>2. CASE Head(events) \notin KeyEvents(k)
      <4>1. Head(events).key # k
        BY <2>2, <3>2 DEF KeyEvents
      <4>2. k \in mKeys' => k \in mKeys
        BY <1>9, <4>1 DEF OnKeyEvent, Toggled
      <4> QED
        BY <2>1, <3>2, <4>2, PolledWord DEF HeldInv, KeyInv
    <3> QED
      BY <3>1, <3>2
  <2> QED
    BY <1>4, <2>1, <2>3 DEF HeldInv
<1>10. CASE OnControllerButton
  <2>1. Polled("button") /\ UNCHANGED <<keysHeld, mKeys, padHeld>>
    BY <1>10 DEF OnControllerButton, deviceVars
  <2>2. Head(events) \in Events /\ Head(events).type = "button"
    BY <2>1, PolledWord
  <2>3. ASSUME NEW id \in 0 .. MaxId - 1, NEW b \in Buttons PROVE PadInv(id, b)'
    <3>0. DOMAIN mControllers' = DOMAIN mControllers
          /\ \A other \in DOMAIN mControllers :
               mControllers'[other] =
                 IF other = Head(events).id
                   THEN Toggled(mControllers[other], Head(events).button, Head(events).down)
                   ELSE mControllers[other]
      BY <1>10 DEF OnControllerButton
    <3>1. CASE Head(events) \in PadEvents(id, b)
      <4>1. Head(events).id = id /\ Head(events).button = b
        BY <2>2, <3>1 DEF PadEvents
      <4>2. id \in DOMAIN mControllers /\ b \in mControllers'[id] => Head(events).down
        BY <3>0, <4>1 DEF Toggled
      <4> QED
        BY <2>1, <2>2, <3>0, <3>1, <4>2, PolledWord DEF HeldInv, PadInv
    <3>2. CASE Head(events) \notin PadEvents(id, b)
      <4>1. ~(Head(events).id = id /\ Head(events).button = b)
        BY <2>2, <3>2 DEF PadEvents
      <4>2. id \in DOMAIN mControllers /\ b \in mControllers'[id] => b \in mControllers[id]
        BY <3>0, <4>1 DEF Toggled
      <4> QED
        BY <2>1, <3>0, <3>2, <4>2, PolledWord DEF HeldInv, PadInv
    <3> QED
      BY <3>1, <3>2
  <2> QED
    BY <1>2, <2>1, <2>3 DEF HeldInv
<1>11. CASE AddController
  <2>1. Polled("added") /\ UNCHANGED <<keysHeld, mKeys, padHeld>>
    BY <1>11 DEF AddController, deviceVars
  <2>2. Head(events).index \in Nat
    BY <2>1, PolledWord, EventFields
  <2>3. mControllers' \in {mControllers, Opened(mControllers, Head(events).index)}
    BY <1>11 DEF AddController
  <2>4. ASSUME NEW id, NEW b, id \in DOMAIN mControllers', b \in mControllers'[id]
        PROVE  id \in DOMAIN mControllers /\ b \in mControllers[id]
    <3>1. CASE mControllers' = mControllers
      BY <2>4, <3>1
    <3>2. ASSUME NEW new,
                 mControllers' = [other \in DOMAIN mControllers \cup {new} |->
                                    IF other = new THEN {} ELSE mControllers[other]]
          PROVE  id \in DOMAIN mControllers /\ b \in mControllers[id]
      BY <2>4, <3>2
    <3>3. \/ mControllers' = mControllers
          \/ \E new \in Range(attached) \cap 0 .. MaxId - 1 :
               mControllers' = [other \in DOMAIN mControllers \cup {new} |->
                                  IF other = new THEN {} ELSE mControllers[other]]
      <4>1. CASE mControllers' = mControllers
        BY <4>1
      <4>2. CASE mControllers' = Opened(mControllers, Head(events).index)
        BY <2>2, <4>2, OpenedControllers
      <4> QED
        BY <2>3, <4>1, <4>2
    <3> QED
      BY <3>1, <3>2, <3>3
  <2> QED
    BY <1>2, <1>4, <2>1, <2>4 DEF HeldInv
<1>12. CASE RemoveController
  <2>1. Polled("removed") /\ UNCHANGED <<keysHeld, mKeys, padHeld>>
    BY <1>12 DEF RemoveController, deviceVars
  <2>2. Head(events) \in Events /\ Head(events).type = "removed"
    BY <2>1, PolledWord
  <2>3. DOMAIN mControllers' = DOMAIN mControllers \ {Head(events).id}
        /\ \A id \in DOMAIN mControllers' : mControllers'[id] = mControllers[id]
    BY <1>12 DEF RemoveController
  <2>4. ASSUME NEW id \in 0 .. MaxId - 1, NEW b \in Buttons PROVE PadInv(id, b)'
    <3>1. Head(events) \in PadEvents(id, b) => id \notin DOMAIN mControllers'
      BY <2>2, <2>3 DEF PadEvents
    <3> QED
      BY <2>1, <2>3, <3>1, PolledWord DEF HeldInv, PadInv
  <2> QED
    BY <1>2, <2>1, <2>4 DEF HeldInv
<1>13. CASE Update \/ UNCHANGED inputVars
  BY <1>13 DEF HeldInv, KeyInv, PadInv, Update, inputVars, deviceVars
<1> QED
  BY <1>5, <1>6, <1>7, <1>8, <1>9, <1>10, <1>11, <1>12, <1>13 DEF InputNext

LEMMA InitHeld == InputInit => HeldInv
<1> SUFFICES ASSUME InputInit PROVE HeldInv
  OBVIOUS
<1>1. AtStart \in Nat /\ events = [i \in 1 .. AtStart |-> [type |-> "added", index |-> i - 1]]
  BY InputAssumption DEF InputInit
<1>2. Len(events) = AtStart /\ \A i \in 1 .. AtStart : events[i].type = "added"
  BY <1>1
<1>3. \A R, x : LastOf(events, R, x) => x.type = "added"
  BY <1>2 DEF LastOf
<1>4. \A k \in Keys : KeyInv(k)
  BY <1>3 DEF InputInit, KeyInv, LastOf, KeyEvents
<1>5. \A id \in 0 .. MaxId - 1, b \in Buttons : PadInv(id, b)
  BY <1>3 DEF InputInit, PadInv
<1> QED
  BY <1>4, <1>5 DEF HeldInv

\* More keys or buttons down hold no less.
LEMMA HoldsMore ==
  ASSUME NEW config, IsFiniteSet(config.of), config.n \in Nat,
         NEW few, NEW many, few \subseteq many, Holds(config, few)
  PROVE  Holds(config, many)
<1>1. config.of \cap few \subseteq config.of \cap many /\ config.of \cap many \subseteq config.of
  OBVIOUS
<1>2. IsFiniteSet(config.of \cap many)
  BY <1>1, FS_Subset
<1>3. Cardinality(config.of \cap few) <= Cardinality(config.of \cap many)
      /\ Cardinality(config.of \cap few) \in Nat /\ Cardinality(config.of \cap many) \in Nat
  BY <1>1, <1>2, FS_Subset, FS_CardinalityType
<1> QED
  BY <1>3 DEF Holds

LEMMA ActiveIsOpen ==
  ASSUME InputTypeOK, DOMAIN mControllers # {}
  PROVE  ActiveController \in DOMAIN mControllers
<1>1. DOMAIN mControllers \subseteq Nat
  BY InputAssumption DEF InputTypeOK
<1>2. \E id \in DOMAIN mControllers : \A other \in DOMAIN mControllers : id <= other
  <2> DEFINE less == {pair \in Nat \X Nat : pair[1] < pair[2]}
  <2>1. OpToRel(<, Nat) = less
    BY Zenon DEF OpToRel
  <2> HIDE DEF less
  <2>2. PICK id \in DOMAIN mControllers : \A other \in DOMAIN mControllers : ~(<<other, id>> \in less)
    BY <1>1, <2>1, NatLessThanWellFounded, WFMin, Zenon
  <2>3. \A other \in DOMAIN mControllers : other < id => <<other, id>> \in less
    BY <1>1 DEF less
  <2>4. ASSUME NEW other \in DOMAIN mControllers PROVE id <= other
    <3>1. ~(other < id)
      BY <2>2, <2>3
    <3>2. id \in Nat /\ other \in Nat
      BY <1>1
    <3> QED
      BY <3>1, <3>2
  <2> QED
    BY <2>4
<1> QED
  BY <1>2 DEF ActiveController

\* Nothing stays held by a key that went up or a controller that is gone: what
\* a frame finds held, somebody holds (InputMapping::Update), for any mapping.
THEOREM HeldByDevices == InputSpec => HeldIsReal
<1> DEFINE Real(a) ==
      \/ Holds(KeyConfig[a], keysHeld)
      \/ \E id \in Range(attached) : a \in DOMAIN PadConfig /\ Holds(PadConfig[a], padHeld[id])
<1>1. InputTypeOK /\ EdgeInv /\ GoneInv /\ HeldInv /\ [InputNext]_inputVars =>
        [\A a \in mIsDown' : Real(a)]_actionVars
  <2> SUFFICES ASSUME InputTypeOK, EdgeInv, GoneInv, HeldInv, [InputNext]_inputVars,
                      actionVars' # actionVars, NEW a \in mIsDown'
               PROVE  Real(a)
    OBVIOUS
  <2>1. Update
    BY DEF InputNext, inputVars, PressKey, PressButton, Plug, Unplug, OnKeyEvent,
           OnControllerButton, AddController, RemoveController
  <2>2. a \in RawDown /\ a \in Acts
    BY <2>1, UpdateEdges DEF RawDown
  <2>3. Len(events) = 0 /\ \A R : ~Pending(events, R)
    BY <2>1, EmptySeq DEF Update, Pending
  <2>4. CASE Holds(KeyConfig[a], mKeys)
    <3>1. mKeys \subseteq keysHeld
      BY <2>3 DEF HeldInv, KeyInv, InputTypeOK
    <3>2. IsFiniteSet(KeyConfig[a].of) /\ KeyConfig[a].n \in Nat
      BY <2>2, InputAssumption
    <3> QED
      BY <2>4, <3>1, <3>2, HoldsMore
  <2>5. CASE DOMAIN mControllers # {} /\ a \in DOMAIN PadConfig
             /\ Holds(PadConfig[a], mControllers[ActiveController])
    <3>1. PICK id \in DOMAIN mControllers : id = ActiveController
      BY <2>5, ActiveIsOpen
    <3>2. id \in Range(attached)
      BY <2>3 DEF GoneInv
    <3>3. mControllers[id] \subseteq padHeld[id]
      BY <2>3, <3>1 DEF HeldInv, PadInv, InputTypeOK
    <3>4. IsFiniteSet(PadConfig[a].of) /\ PadConfig[a].n \in Nat
      BY <2>5, InputAssumption
    <3> QED
      BY <2>5, <3>1, <3>2, <3>3, <3>4, HoldsMore
  <2> QED
    BY <2>2, <2>4, <2>5 DEF RawDown
<1>2. InputInit => EdgeInv
  BY DEF InputInit, EdgeInv
<1> QED
  BY <1>1, <1>2, InitTyped, TypeStep, EdgeStep, InitGone, GoneStep, InitHeld, HeldStep, PTL
     DEF InputSpec, HeldIsReal

(* The two put together: for any keys and controllers a press and a release  *)
(* are of an action that somebody holds.                                     *)
THEOREM ActionsFollow == InputSpec => ActionsFollowDevices
  BY EdgesMatch, HeldByDevices DEF ActionsFollowDevices

-----------------------------------------------------------------------------
(* The renderer: the walk over the commands *)

Commands(b, cells) == {p \in 1 .. cells : b[p].type # "point"}

\* The walk meets the commands and no point of a path.
Walked(b, cells) == \E at \in Walks(b, cells) : Range(at) = Commands(b, cells)

LEMMA WalkAgrees ==
  ASSUME NEW b, NEW cells \in Nat, NEW at \in Walks(b, cells), NEW au \in Walks(b, cells)
  PROVE  /\ Len(at) \in Nat /\ at \in [1 .. Len(at) -> 1 .. cells]
         /\ Len(at) <= Len(au) /\ \A i \in 1 .. Len(at) : at[i] = au[i]
<1>1. PICK n \in 0 .. cells : at \in [1 .. n -> 1 .. cells]
  BY DEF Walks
<1>2. PICK m \in 0 .. cells : au \in [1 .. m -> 1 .. cells]
  BY DEF Walks
<1>3. Len(at) = n /\ Len(au) = m /\ n \in Nat /\ m \in Nat
  BY <1>1, <1>2
<1> DEFINE end(i) == IF i = 0 THEN 1 ELSE at[i] + b[at[i]].size
           ends(i) == IF i = 0 THEN 1 ELSE au[i] + b[au[i]].size
<1>4. (\A i \in 1 .. n : at[i] = end(i - 1)) /\ end(n) = cells + 1
  BY <1>3 DEF Walks
<1>5. (\A i \in 1 .. m : au[i] = ends(i - 1)) /\ ends(m) = cells + 1
  BY <1>3 DEF Walks
<1>6. \A i \in Nat : (i # 0 => at[i] = au[i]) => end(i) = ends(i)
  OBVIOUS
<1> HIDE DEF end, ends
<1> DEFINE apart == {k \in 1 .. n : ~(k <= m /\ at[k] = au[k])}
<1>7. apart = {}
  <2> SUFFICES ASSUME apart # {} PROVE FALSE
    OBVIOUS
  <2>1. apart \subseteq Nat
    OBVIOUS
  <2>2. PICK k \in apart : \A l \in apart : ~(<<l, k>> \in OpToRel(<, Nat))
    BY <2>1, NatLessThanWellFounded, WFMin, Zenon
  <2>3. k \in 1 .. n /\ k - 1 \in Nat /\ k - 1 < k
    BY <1>3
  <2>4. k - 1 # 0 => k - 1 <= m /\ at[k - 1] = au[k - 1]
    <3>1. k - 1 \notin apart
      BY <2>1, <2>2, <2>3 DEF OpToRel
    <3> QED
      BY <1>3, <2>3, <3>1
  <2>5. end(k - 1) = ends(k - 1) /\ at[k] = end(k - 1) /\ k - 1 <= m
    BY <1>3, <1>4, <1>6, <2>3, <2>4
  <2>6. CASE k <= m
    <3>1. au[k] = ends(k - 1)
      BY <1>3, <1>5, <2>3, <2>6
    <3> QED
      BY <2>2, <2>5, <2>6, <3>1
  <2>7. CASE ~(k <= m)
    <3>1. k - 1 = m
      BY <1>3, <2>3, <2>5, <2>7
    <3>2. at[k] = cells + 1 /\ at[k] \in 1 .. cells
      BY <1>1, <1>5, <2>3, <2>5, <3>1
    <3> QED
      BY <3>2
  <2> QED
    BY <2>6, <2>7
<1>8. n <= m
  <2>1. CASE n = 0
    BY <1>3, <2>1
  <2>2. CASE n # 0
    <3>1. n \in 1 .. n
      BY <1>3, <2>2
    <3>2. n \notin apart
      BY <1>7
    <3> QED
      BY <3>1, <3>2
  <2> QED
    BY <2>1, <2>2
<1> QED
  BY <1>1, <1>3, <1>7, <1>8

\* There is one walk over the cells, if any.
LEMMA WalkIsOne ==
  ASSUME NEW b, NEW cells \in Nat, NEW at \in Walks(b, cells), NEW au \in Walks(b, cells)
  PROVE  at = au
<1>1. /\ Len(at) \in Nat /\ at \in [1 .. Len(at) -> 1 .. cells]
      /\ Len(at) <= Len(au) /\ \A i \in 1 .. Len(at) : at[i] = au[i]
  BY WalkAgrees
<1>2. /\ Len(au) \in Nat /\ au \in [1 .. Len(au) -> 1 .. cells]
      /\ Len(au) <= Len(at)
  BY WalkAgrees
<1>3. PICK n \in Nat, m \in Nat : n = Len(at) /\ m = Len(au)
  BY <1>1, <1>2
<1>4. n <= m /\ m <= n
  BY <1>1, <1>2, <1>3
<1>5. n = m
  BY <1>4
<1>6. at \in [1 .. n -> 1 .. cells] /\ au \in [1 .. n -> 1 .. cells] /\ \A i \in 1 .. n : at[i] = au[i]
  BY <1>1, <1>2, <1>3, <1>5
<1> QED
  BY <1>6

\* A walk over some cells goes on over one more command and its points.
LEMMA WalkGoesOn ==
  ASSUME NEW b, NEW c, NEW cells \in Nat, NEW size \in Nat \ {0},
         \A p \in 1 .. cells : c[p].size = b[p].size /\ c[p].type = b[p].type,
         c[cells + 1].size = size, c[cells + 1].type # "point",
         \A p \in cells + 2 .. cells + size : c[p].type = "point",
         Walked(b, cells)
  PROVE  Walked(c, cells + size)
<1>1. PICK at \in Walks(b, cells) : Range(at) = Commands(b, cells)
  BY DEF Walked
<1>2. PICK n \in 0 .. cells : at \in [1 .. n -> 1 .. cells]
  BY <1>1 DEF Walks
<1>3. Len(at) = n
  BY <1>2
<1> DEFINE end(i) == IF i = 0 THEN 1 ELSE at[i] + b[at[i]].size
           on == [i \in 1 .. n + 1 |-> IF i <= n THEN at[i] ELSE cells + 1]
           ends(i) == IF i = 0 THEN 1 ELSE on[i] + c[on[i]].size
<1>4. (\A i \in 1 .. n : at[i] = end(i - 1)) /\ end(n) = cells + 1
  BY <1>1, <1>3 DEF Walks
<1>5. on \in [1 .. n + 1 -> 1 .. cells + size] /\ n + 1 \in 0 .. cells + size
  BY <1>2
<1>6. Len(on) = n + 1
  BY <1>5
<1>7. \A i \in 0 .. n : ends(i) = end(i)
  BY <1>2
<1>8. on[n + 1] = cells + 1 /\ ends(n + 1) = cells + size + 1
  <2>1. on[n + 1] = cells + 1
    BY <1>2
  <2> QED
    BY <2>1
<1>9. \A i \in 1 .. n + 1 : on[i] = ends(i - 1)
  <2> HIDE DEF end, ends
  <2> TAKE i \in 1 .. n + 1
  <2>0. i - 1 \in 0 .. n
    BY <1>2
  <2>1. CASE i <= n
    <3>1. on[i] = at[i] /\ i \in 1 .. n
      BY <2>1
    <3> QED
      BY <3>1, <2>0, <1>4, <1>7
  <2>2. CASE i = n + 1
    <3>1. on[i] = cells + 1
      BY <2>2
    <3>2. ends(i - 1) = end(n)
      <4>1. i - 1 = n
        BY <2>2, <1>2
      <4> QED
        BY <4>1, <2>0, <1>7
    <3> QED
      BY <3>1, <3>2, <1>4
  <2> QED
    BY <2>1, <2>2
<1>10. Range(on) = Range(at) \cup {cells + 1}
  <2>1. DOMAIN on = 1 .. n + 1 /\ DOMAIN at = 1 .. n /\ n \in Nat
    BY <1>2
  <2>2. \A i \in 1 .. n : on[i] = at[i] /\ i \in 1 .. n + 1
    BY <1>2
  <2>3. n + 1 \in 1 .. n + 1 /\ \A i \in 1 .. n + 1 : i \in 1 .. n \/ i = n + 1
    BY <2>1
  <2> HIDE DEF on
  <2> QED
    BY <1>8, <2>1, <2>2, <2>3 DEF Range
<1> HIDE DEF on
<1>11. on \in Walks(c, cells + size)
  BY <1>5, <1>6, <1>8, <1>9 DEF Walks
<1>12. Commands(c, cells + size) = Commands(b, cells) \cup {cells + 1}
  <2>1. ASSUME NEW p \in 1 .. cells + size PROVE p \in 1 .. cells \/ p = cells + 1 \/ p \in cells + 2 .. cells + size
    OBVIOUS
  <2>2. 1 .. cells \subseteq 1 .. cells + size /\ cells + 1 \in 1 .. cells + size
        /\ cells + 1 \notin 1 .. cells
    OBVIOUS
  <2> QED
    BY <2>1, <2>2 DEF Commands
<1> QED
  BY <1>1, <1>10, <1>11, <1>12 DEF Walked

LEMMA WalkStays ==
  ASSUME NEW b, NEW c, NEW cells \in Nat,
         \A p \in 1 .. cells : c[p].size = b[p].size /\ c[p].type = b[p].type,
         Walked(b, cells)
  PROVE  Walked(c, cells)
<1>1. PICK at \in Walks(b, cells) : Range(at) = Commands(b, cells)
  BY DEF Walked
<1>2. PICK n \in 0 .. cells : at \in [1 .. n -> 1 .. cells]
  BY <1>1 DEF Walks
<1>3. Len(at) = n
  BY <1>2
<1> DEFINE end(i) == IF i = 0 THEN 1 ELSE at[i] + b[at[i]].size
           ends(i) == IF i = 0 THEN 1 ELSE at[i] + c[at[i]].size
<1>4. (\A i \in 1 .. n : at[i] = end(i - 1)) /\ end(n) = cells + 1
  BY <1>1, <1>3 DEF Walks
<1>5. \A i \in 0 .. n : ends(i) = end(i)
  BY <1>2
<1>6. (\A i \in 1 .. n : at[i] = ends(i - 1)) /\ ends(n) = cells + 1
  <2> HIDE DEF end, ends
  <2>1. n \in 0 .. n /\ \A i \in 1 .. n : i - 1 \in 0 .. n
    BY <1>2
  <2> QED
    BY <2>1, <1>4, <1>5
<1>7. at \in Walks(c, cells)
  BY <1>2, <1>3, <1>6 DEF Walks
<1>8. Commands(b, cells) = Commands(c, cells)
  BY DEF Commands
<1> QED
  BY <1>1, <1>7, <1>8 DEF Walked

LEMMA AppendAny ==
  ASSUME NEW s, s \in Seq(Range(s)), NEW e
  PROVE  /\ Append(s, e) \in Seq(Range(Append(s, e)))
         /\ Range(Append(s, e)) = Range(s) \cup {e}
         /\ Len(Append(s, e)) = Len(s) + 1 /\ Len(s) \in Nat
         /\ \A p \in 1 .. Len(s) : Append(s, e)[p] = s[p]
         /\ Append(s, e)[Len(s) + 1] = e
<1> DEFINE S == Range(s) \cup {e}
<1>1. s \in Seq(S) /\ e \in S /\ Len(s) \in Nat /\ DOMAIN s = 1 .. Len(s)
  <2>1. s \in Seq(S)
    BY SeqMonotonic, Range(s) \subseteq S
  <2> QED
    BY <2>1, LenProperties
<1> HIDE DEF S
<1>2. /\ Append(s, e) \in Seq(S) /\ Len(Append(s, e)) = Len(s) + 1
      /\ \A p \in 1 .. Len(s) : Append(s, e)[p] = s[p]
      /\ Append(s, e)[Len(s) + 1] = e
  BY <1>1, AppendProperties
<1>3. DOMAIN Append(s, e) = 1 .. Len(s) + 1
  BY <1>2, LenProperties
<1>4. Range(Append(s, e)) = Range(s) \cup {e}
  <2>1. ASSUME NEW x \in Range(Append(s, e)) PROVE x \in Range(s) \cup {e}
    <3>1. PICK p \in 1 .. Len(s) + 1 : x = Append(s, e)[p]
      BY <1>3 DEF Range
    <3>2. CASE p \in 1 .. Len(s)
      BY <3>1, <3>2, <1>1, <1>2 DEF Range
    <3>3. CASE p = Len(s) + 1
      BY <3>1, <3>3, <1>2
    <3> QED
      BY <3>2, <3>3, <1>1
  <2>2. ASSUME NEW x \in Range(s) PROVE x \in Range(Append(s, e))
    <3>1. PICK p \in 1 .. Len(s) : x = s[p]
      BY <1>1 DEF Range
    <3>2. p \in 1 .. Len(s) + 1 /\ Append(s, e)[p] = x
      BY <3>1, <1>1, <1>2
    <3> QED
      BY <3>2, <1>3 DEF Range
  <2>3. e \in Range(Append(s, e))
    BY <1>1, <1>2, <1>3 DEF Range
  <2> QED
    BY <2>1, <2>2, <2>3
<1>5. Append(s, e) \in Seq(Range(Append(s, e)))
  BY <1>1, <1>2, <1>4 DEF S
<1> QED
  BY <1>1, <1>2, <1>4, <1>5

-----------------------------------------------------------------------------
(* The renderer: textures *)

LEMMA OneMore ==
  ASSUME NEW S, NEW x, IsFiniteSet(S)
  PROVE  /\ IsFiniteSet(S \cup {x}) /\ Cardinality(S \cup {x}) \in Nat
         /\ Cardinality(S \cup {x}) <= Cardinality(S) + 1
<1>1. Cardinality(S) \in Nat /\ Cardinality(S) <= Cardinality(S) + 1
  BY FS_CardinalityType
<1>2. IsFiniteSet(S \cup {x}) /\ Cardinality(S \cup {x}) = IF x \in S THEN Cardinality(S) ELSE Cardinality(S) + 1
  BY FS_AddElement
<1> QED
  BY <1>1, <1>2

LEMMA NewNameIsNew ==
  ASSUME NEW used, used \subseteq Textures, Cardinality(used) < Cardinality(Textures)
  PROVE  NewName(used) \in Textures /\ NewName(used) \notin used
<1>1. Cardinality(Textures) \in Nat
  BY FS_CardinalityType, RendererAssumption
<1>2. used # Textures
  BY <1>1
<1>3. \E t \in Textures : t \notin used
  BY <1>2
<1> QED
  BY <1>3 DEF NewName

GFields == {"drawn", "lastTexture", "texture", "lastState", "coordinates", "font", "alive", "destroy"}

IsG(g) == g = [f \in GFields |-> g[f]]

\* The textures of a frame that is being drawn: none is lost, none is there
\* twice, and those the frame started with are still alive.
Kept(g) ==
  /\ IsG(g)
  /\ g.destroy \in Seq(Textures)
  /\ g.font \in Textures \cup {NoTexture}
  /\ g.alive \subseteq Textures /\ alive \subseteq g.alive
  /\ HeldOnce(g.alive, g.destroy, g.font)

LEMMA GlyphsKept ==
  ASSUME NEW g, Kept(g), NEW new \in BOOLEAN, Cardinality(g.alive) < Cardinality(Textures)
  PROVE  LET h == WithGlyphs(g, new)
         IN /\ Kept(h)
            /\ \A f \in GFields \ {"font", "alive", "destroy"} : h[f] = g[f]
            /\ g.alive \subseteq h.alive
            /\ Cardinality(h.alive) <= Cardinality(g.alive) + 1
            /\ new \/ g.font # NoTexture => h.font # NoTexture
<1> DEFINE h == WithGlyphs(g, new)
           t == NewName(g.alive)
<1>0. IsFiniteSet(g.alive) /\ Cardinality(g.alive) \in Nat /\ Cardinality(Textures) \in Nat
  BY FS_Subset, FS_CardinalityType, RendererAssumption DEF Kept
<1>1. CASE ~new
  BY <1>0, <1>1 DEF WithGlyphs
<1>2. CASE new
  <2>1. t \in Textures /\ t \notin g.alive
    BY NewNameIsNew DEF Kept
  <2> HIDE DEF t
  <2>2. /\ IsG(h)
        /\ h.font = t /\ h.alive = g.alive \cup {t}
        /\ h.destroy = IF g.font = NoTexture THEN g.destroy ELSE Append(g.destroy, g.font)
        /\ \A f \in GFields \ {"font", "alive", "destroy"} : h[f] = g[f]
    BY <1>2 DEF WithGlyphs, t, IsG, GFields, Kept
  <2> HIDE DEF h
  <2>3. Cardinality(h.alive) <= Cardinality(g.alive) + 1
    <3>1. Cardinality(g.alive \cup {t}) = Cardinality(g.alive) + 1
      BY <1>0, <2>1, FS_AddElement
    <3> QED
      BY <1>0, <2>2, <3>1
  <2>4. t # NoTexture /\ t # Ui
    BY <2>1, RendererAssumption DEF Kept, HeldOnce
  <2>5. h.destroy \in Seq(Textures) /\ HeldOnce(h.alive, h.destroy, h.font)
    <3>1. CASE g.font = NoTexture
      BY <2>1, <2>2, <2>4, <3>1 DEF Kept, HeldOnce
    <3>2. CASE g.font # NoTexture
      <4> DEFINE d == Append(g.destroy, g.font)
      <4>1. g.font \in Textures /\ g.destroy \in Seq(Textures)
        BY <3>2 DEF Kept
      <4>2. /\ d \in Seq(Textures) /\ Len(d) = Len(g.destroy) + 1 /\ Len(g.destroy) \in Nat
            /\ \A i \in 1 .. Len(g.destroy) : d[i] = g.destroy[i]
            /\ d[Len(g.destroy) + 1] = g.font
        BY <4>1, AppendProperties, LenProperties
      <4>3. DOMAIN d = 1 .. Len(g.destroy) + 1 /\ DOMAIN g.destroy = 1 .. Len(g.destroy)
        BY <4>1, <4>2, LenProperties
      <4>4. Range(d) = Range(g.destroy) \cup {g.font}
        BY <4>1, AppendAny, SeqOfRange
      <4> HIDE DEF d
      <4>5. g.font \notin Range(g.destroy)
        BY <3>2 DEF Kept, HeldOnce
      <4>6. ASSUME NEW i \in DOMAIN d, NEW j \in DOMAIN d, d[i] = d[j] PROVE i = j
        <5>1. \A k \in DOMAIN g.destroy : g.destroy[k] # g.font
          BY <4>5 DEF Range
        <5>2. \A k, l \in DOMAIN g.destroy : g.destroy[k] = g.destroy[l] => k = l
          BY DEF Kept, HeldOnce
        <5> QED
          BY <4>2, <4>3, <4>6, <5>1, <5>2
      <4>7. h.destroy = d
        BY <2>2, <3>2 DEF d
      <4>8. /\ g.alive = handles \cup Range(g.destroy) \cup {Ui, g.font}
            /\ handles \cap Range(g.destroy) = {}
            /\ (handles \cup Range(g.destroy)) \cap {Ui, g.font} = {} /\ g.font # Ui
        BY <3>2, RendererAssumption DEF Kept, HeldOnce
      <4>9. HeldOnce(h.alive, d, h.font)
        <5>1. h.alive = handles \cup Range(d) \cup {Ui, h.font}
          BY <2>2, <4>4, <4>8
        <5>2. {Ui, h.font} \ {NoTexture} = {Ui, h.font}
          BY <2>2, <2>4, RendererAssumption
        <5>3. handles \cap Range(d) = {} /\ (handles \cup Range(d)) \cap {Ui, h.font} = {}
          BY <2>1, <2>2, <4>4, <4>8
        <5>4. h.font # Ui
          BY <2>2, <2>4
        <5> QED
          BY <4>6, <5>1, <5>2, <5>3, <5>4 DEF HeldOnce
      <4> QED
        BY <4>2, <4>7, <4>9
    <3> QED
      BY <3>1, <3>2
  <2>6. h.font \in Textures /\ h.alive \subseteq Textures /\ alive \subseteq h.alive
    BY <2>1, <2>2 DEF Kept
  <2>7. Kept(h)
    BY <2>2, <2>5, <2>6 DEF Kept
  <2>8. g.alive \subseteq h.alive /\ h.font # NoTexture
    BY <2>2, <2>4
  <2> QED
    BY <2>2, <2>3, <2>7, <2>8 DEF h
<1> QED
  BY <1>1, <1>2

-----------------------------------------------------------------------------
(* The commands of a frame, one after the other *)

Asked(d, names) ==
  /\ d = [cmd |-> d.cmd, textures |-> d.textures, coordinates |-> d.coordinates, live |-> FALSE]
  /\ d.coordinates = d.cmd.state[1]
  /\ d.cmd.type = "eTexturedQuad" => d.textures = {d.cmd.texture}
  /\ d.cmd.type = "eText" => Ui \notin d.textures
  /\ d.textures \subseteq names

\* What is taken for the last state and the last texture is the one that was
\* pushed, except that a text leaves its font where the shapes' texture was.
AsAsked(g) ==
  /\ Kept(g)
  /\ g.coordinates = g.lastState[1]
  /\ g.lastTexture \in {NoTexture, Ui} \/ g.texture = g.lastTexture
  /\ g.lastTexture # NoTexture => g.texture \in g.alive
  /\ g.drawn \in Seq(Range(g.drawn))
  /\ \A d \in Range(g.drawn) : Asked(d, g.alive)

\* From g to h one command was drawn.
Draws(g, h, cmd) == \E d : d.cmd = cmd /\ h.drawn = Append(g.drawn, d)

LEMMA StateAsAsked ==
  ASSUME NEW g, AsAsked(g), NEW cmd
  PROVE  LET h == WithState(g, cmd)
         IN AsAsked(h) /\ h.coordinates = cmd.state[1] /\ h.alive = g.alive /\ h.drawn = g.drawn
<1> DEFINE h == WithState(g, cmd)
<1>1. h = g \/ h = [g EXCEPT !.lastState = cmd.state, !.coordinates = cmd.state[1]]
  BY DEF WithState
<1>2. CASE h = g
  <2>1. cmd.state = g.lastState \/ g = [g EXCEPT !.lastState = cmd.state, !.coordinates = cmd.state[1]]
    BY <1>2 DEF WithState
  <2>2. g.coordinates = cmd.state[1]
    BY <2>1 DEF AsAsked, Kept, IsG, GFields
  <2> QED
    BY <1>2, <2>2
<1>3. CASE h = [g EXCEPT !.lastState = cmd.state, !.coordinates = cmd.state[1]]
  <2> HIDE DEF h
  <2>1. /\ IsG(h) /\ h.lastState = cmd.state /\ h.coordinates = cmd.state[1]
        /\ \A f \in GFields \ {"lastState", "coordinates"} : h[f] = g[f]
    BY <1>3 DEF AsAsked, Kept, IsG, GFields
  <2>2. /\ h.drawn = g.drawn /\ h.lastTexture = g.lastTexture /\ h.texture = g.texture
        /\ h.font = g.font /\ h.alive = g.alive /\ h.destroy = g.destroy
    BY <2>1 DEF GFields
  <2>3. Kept(h)
    BY <2>1, <2>2 DEF AsAsked, Kept
  <2>4. AsAsked(h)
    BY <2>1, <2>2, <2>3 DEF AsAsked
  <2> QED
    BY <2>1, <2>2, <2>4 DEF h
<1> QED
  BY <1>1, <1>2, <1>3

LEMMA TextureAsAsked ==
  ASSUME NEW g, AsAsked(g), NEW t \in g.alive
  PROVE  LET h == WithTexture(g, t)
         IN /\ AsAsked(h) /\ h.lastTexture = t /\ h.texture \in h.alive
            /\ h.coordinates = g.coordinates /\ h.alive = g.alive /\ h.drawn = g.drawn
            /\ t # Ui => h.texture = t
<1> DEFINE h == WithTexture(g, t)
<1>0. t # NoTexture
  BY RendererAssumption DEF AsAsked, Kept
<1>1. CASE g.lastTexture = t
  <2>1. h = g
    BY <1>1 DEF WithTexture
  <2> QED
    BY <1>0, <1>1, <2>1 DEF AsAsked
<1>2. CASE g.lastTexture # t
  <2>1. h = [g EXCEPT !.lastTexture = t, !.texture = t]
    BY <1>2 DEF WithTexture
  <2> HIDE DEF h
  <2>2. IsG(h) /\ h.lastTexture = t /\ h.texture = t
    BY <2>1 DEF AsAsked, Kept, IsG, GFields
  <2>3. /\ h.drawn = g.drawn /\ h.lastState = g.lastState /\ h.coordinates = g.coordinates
        /\ h.font = g.font /\ h.alive = g.alive /\ h.destroy = g.destroy
    BY <2>1 DEF AsAsked, Kept, IsG, GFields
  <2>4. Kept(h)
    BY <2>2, <2>3 DEF AsAsked, Kept
  <2>5. AsAsked(h)
    BY <2>2, <2>3, <2>4 DEF AsAsked
  <2> QED
    BY <2>2, <2>3, <2>5 DEF h
<1> QED
  BY <1>1, <1>2

LEMMA DrawnAsked ==
  ASSUME NEW g, AsAsked(g), NEW cmd, NEW textures, textures \subseteq g.alive,
         g.coordinates = cmd.state[1],
         cmd.type = "eTexturedQuad" => textures = {cmd.texture},
         cmd.type = "eText" => Ui \notin textures
  PROVE  LET h == DrawnWith(g, cmd, textures)
         IN AsAsked(h) /\ h.alive = g.alive /\ Draws(g, h, cmd)
<1> DEFINE d == [cmd |-> cmd, textures |-> textures, coordinates |-> g.coordinates, live |-> FALSE]
           h == DrawnWith(g, cmd, textures)
<1>1. Asked(d, g.alive)
  BY DEF Asked
<1>2. h = [g EXCEPT !.drawn = Append(@, d)]
  BY DEF DrawnWith
<1>0. d.cmd = cmd
  OBVIOUS
<1> HIDE DEF d, h
<1>3. IsG(h) /\ h.drawn = Append(g.drawn, d)
  BY <1>2 DEF AsAsked, Kept, IsG, GFields
<1>4. /\ h.lastTexture = g.lastTexture /\ h.texture = g.texture
      /\ h.lastState = g.lastState /\ h.coordinates = g.coordinates
      /\ h.font = g.font /\ h.alive = g.alive /\ h.destroy = g.destroy
  BY <1>2 DEF AsAsked, Kept, IsG, GFields
<1>5. Kept(h)
  BY <1>3, <1>4 DEF AsAsked, Kept
<1>6. h.drawn \in Seq(Range(h.drawn)) /\ Range(h.drawn) = Range(g.drawn) \cup {d}
  BY <1>3, AppendAny DEF AsAsked
<1>7. \A x \in Range(h.drawn) : Asked(x, h.alive)
  BY <1>1, <1>4, <1>6 DEF AsAsked
<1>8. AsAsked(h)
  BY <1>4, <1>5, <1>6, <1>7 DEF AsAsked
<1>9. Draws(g, h, cmd)
  BY <1>0, <1>3 DEF Draws
<1> QED
  BY <1>4, <1>8, <1>9 DEF h

LEMMA GlyphsAsAsked ==
  ASSUME NEW g, AsAsked(g), NEW new \in BOOLEAN, Cardinality(g.alive) < Cardinality(Textures)
  PROVE  LET h == WithGlyphs(g, new)
         IN /\ AsAsked(h) /\ h.coordinates = g.coordinates /\ h.lastTexture = g.lastTexture
            /\ g.alive \subseteq h.alive /\ h.drawn = g.drawn
            /\ Cardinality(h.alive) <= Cardinality(g.alive) + 1
            /\ new \/ g.font # NoTexture => h.font # NoTexture
<1> DEFINE h == WithGlyphs(g, new)
<1>1. /\ Kept(h)
      /\ \A f \in GFields \ {"font", "alive", "destroy"} : h[f] = g[f]
      /\ g.alive \subseteq h.alive
      /\ Cardinality(h.alive) <= Cardinality(g.alive) + 1
      /\ new \/ g.font # NoTexture => h.font # NoTexture
  BY GlyphsKept DEF AsAsked
<1> HIDE DEF h
<1>2. /\ h.drawn = g.drawn /\ h.lastTexture = g.lastTexture /\ h.texture = g.texture
      /\ h.lastState = g.lastState /\ h.coordinates = g.coordinates
  BY <1>1 DEF GFields
<1>3. \A d \in Range(h.drawn) : Asked(d, h.alive)
  BY <1>1, <1>2 DEF AsAsked, Asked
<1>4. AsAsked(h)
  BY <1>1, <1>2, <1>3 DEF AsAsked
<1> QED
  BY <1>1, <1>2, <1>4 DEF h

\* The font is never the texture of the shapes, and the shadow keeps its own
\* when the text needs a new one.
LEMMA TextAsAsked ==
  ASSUME NEW g, AsAsked(g), NEW cmd, cmd.type = "eText", NEW new,
         g.coordinates = cmd.state[1],
         Cardinality(g.alive) + 2 <= Cardinality(Textures)
  PROVE  /\ AsAsked(Text(g, cmd, new))
         /\ Cardinality(Text(g, cmd, new).alive) <= Cardinality(g.alive) + 2
         /\ Draws(g, Text(g, cmd, new), cmd)
<1> DEFINE pushed == WithTexture(g, Ui)
           first == "shadow" \in new \/ g.font = NoTexture
           shadow == WithGlyphs(pushed, first)
           second == "text" \in new
           text == WithGlyphs(shadow, second)
           set == [text EXCEPT !.texture = text.font]
<1>0. /\ Text(g, cmd, new) = DrawnWith(set, cmd, {shadow.font, text.font})
      /\ first \in BOOLEAN /\ second \in BOOLEAN
  BY DEF Text
<1>1. Ui \in g.alive
  BY RendererAssumption DEF AsAsked, Kept, HeldOnce
<1>2. /\ AsAsked(pushed) /\ pushed.lastTexture = Ui /\ pushed.coordinates = cmd.state[1]
      /\ pushed.alive = g.alive /\ pushed.drawn = g.drawn
  BY <1>1, TextureAsAsked
<1>3. pushed.font = g.font
  BY DEF WithTexture, AsAsked, Kept, IsG, GFields
<1> HIDE DEF pushed
<1>4. Cardinality(Textures) \in Nat /\ Cardinality(pushed.alive) \in Nat
  BY <1>2, FS_Subset, FS_CardinalityType, RendererAssumption DEF AsAsked, Kept
<1>5. /\ AsAsked(shadow) /\ shadow.coordinates = pushed.coordinates
      /\ shadow.lastTexture = pushed.lastTexture /\ shadow.drawn = pushed.drawn
      /\ Cardinality(shadow.alive) <= Cardinality(pushed.alive) + 1
      /\ first \/ pushed.font # NoTexture => shadow.font # NoTexture
  <2>1. Cardinality(pushed.alive) < Cardinality(Textures)
    BY <1>2, <1>4
  <2> HIDE DEF first
  <2> QED
    BY <1>0, <1>2, <2>1, GlyphsAsAsked, Zenon
<1>6. shadow.font # NoTexture
  BY <1>3, <1>5
<1> HIDE DEF shadow, first
<1>7. Cardinality(shadow.alive) \in Nat
  BY <1>5, FS_Subset, FS_CardinalityType, RendererAssumption DEF AsAsked, Kept
<1>8. /\ AsAsked(text) /\ text.coordinates = shadow.coordinates
      /\ text.lastTexture = shadow.lastTexture /\ text.drawn = shadow.drawn
      /\ shadow.alive \subseteq text.alive
      /\ Cardinality(text.alive) <= Cardinality(shadow.alive) + 1
      /\ second \/ shadow.font # NoTexture => text.font # NoTexture
  <2>1. Cardinality(shadow.alive) < Cardinality(Textures)
    BY <1>2, <1>4, <1>5, <1>7
  <2> HIDE DEF second
  <2> QED
    BY <1>0, <1>5, <2>1, GlyphsAsAsked, Zenon
<1> HIDE DEF text, second
<1>9. shadow.font \in shadow.alive /\ shadow.font # Ui
  BY <1>5, <1>6 DEF AsAsked, Kept, HeldOnce
<1>10. text.font \in text.alive /\ text.font # Ui
  BY <1>6, <1>8 DEF AsAsked, Kept, HeldOnce
<1>11. /\ AsAsked(set) /\ set.alive = text.alive /\ set.coordinates = text.coordinates
       /\ set.drawn = text.drawn
  <2>1. IsG(set) /\ set.texture = text.font
    BY <1>8 DEF AsAsked, Kept, IsG, GFields
  <2>2. /\ set.drawn = text.drawn /\ set.lastTexture = text.lastTexture
        /\ set.lastState = text.lastState /\ set.coordinates = text.coordinates
        /\ set.font = text.font /\ set.alive = text.alive /\ set.destroy = text.destroy
    BY <1>8 DEF AsAsked, Kept, IsG, GFields
  <2> HIDE DEF set
  <2>3. Kept(set)
    BY <2>1, <2>2, <1>8 DEF AsAsked, Kept
  <2>4. AsAsked(set)
    BY <2>1, <2>2, <2>3, <1>2, <1>5, <1>8, <1>10 DEF AsAsked
  <2> QED
    BY <2>2, <2>4
<1> HIDE DEF set
<1>12. /\ AsAsked(DrawnWith(set, cmd, {shadow.font, text.font}))
       /\ DrawnWith(set, cmd, {shadow.font, text.font}).alive = set.alive
       /\ Draws(set, DrawnWith(set, cmd, {shadow.font, text.font}), cmd)
  <2>1. {shadow.font, text.font} \subseteq set.alive /\ Ui \notin {shadow.font, text.font}
    BY <1>8, <1>9, <1>10, <1>11
  <2>2. set.coordinates = cmd.state[1]
    BY <1>2, <1>5, <1>8, <1>11
  <2> QED
    BY <2>1, <2>2, <1>11, DrawnAsked
<1>13. Cardinality(text.alive) \in Nat
  BY <1>8, FS_Subset, FS_CardinalityType, RendererAssumption DEF AsAsked, Kept
<1>14. Draws(g, Text(g, cmd, new), cmd)
  BY <1>0, <1>2, <1>5, <1>8, <1>11, <1>12 DEF Draws
<1>15. Cardinality(Text(g, cmd, new).alive) <= Cardinality(g.alive) + 2
  BY <1>0, <1>2, <1>4, <1>5, <1>7, <1>8, <1>11, <1>12, <1>13
<1> QED
  BY <1>0, <1>12, <1>14, <1>15

LEMMA IssuedAsAsked ==
  ASSUME NEW g, AsAsked(g), NEW cmd, NEW new,
         cmd.type = "eTexturedQuad" => cmd.texture \in g.alive \ {Ui},
         Cardinality(g.alive) + 2 <= Cardinality(Textures)
  PROVE  /\ AsAsked(Issued(g, cmd, new))
         /\ Cardinality(Issued(g, cmd, new).alive) <= Cardinality(g.alive) + 2
         /\ IF cmd.type = "eImGuiUi" THEN Issued(g, cmd, new).drawn = g.drawn
                                     ELSE Draws(g, Issued(g, cmd, new), cmd)
<1> DEFINE h == WithState(g, cmd)
<1>1. AsAsked(h) /\ h.coordinates = cmd.state[1] /\ h.alive = g.alive /\ h.drawn = g.drawn
  BY StateAsAsked
<1>2. Ui \in h.alive /\ Cardinality(g.alive) \in Nat
  BY <1>1, FS_Subset, FS_CardinalityType, RendererAssumption DEF AsAsked, Kept, HeldOnce
<1>3. ASSUME NEW t \in h.alive, cmd.type # "eText",
             cmd.type = "eTexturedQuad" => t = cmd.texture /\ t # Ui,
             Issued(g, cmd, new) = Drawn(WithTexture(h, t), cmd)
      PROVE  /\ AsAsked(Issued(g, cmd, new))
             /\ Cardinality(Issued(g, cmd, new).alive) <= Cardinality(g.alive) + 2
             /\ Draws(g, Issued(g, cmd, new), cmd)
  <2> HIDE DEF h
  <2> DEFINE k == WithTexture(h, t)
  <2>1. /\ AsAsked(k) /\ k.texture \in k.alive
        /\ k.coordinates = h.coordinates /\ k.alive = h.alive /\ k.drawn = h.drawn
        /\ t # Ui => k.texture = t
    BY <1>1, <1>3, TextureAsAsked
  <2> HIDE DEF k
  <2>2. /\ AsAsked(DrawnWith(k, cmd, {k.texture})) /\ DrawnWith(k, cmd, {k.texture}).alive = k.alive
        /\ Draws(k, DrawnWith(k, cmd, {k.texture}), cmd)
    <3>1. cmd.type = "eTexturedQuad" => {k.texture} = {cmd.texture}
      BY <1>3, <2>1
    <3> QED
      BY <1>1, <1>3, <2>1, <3>1, DrawnAsked
  <2>3. Issued(g, cmd, new) = DrawnWith(k, cmd, {k.texture})
    BY <1>3 DEF Drawn, k
  <2>4. Draws(g, Issued(g, cmd, new), cmd)
    BY <1>1, <2>1, <2>2, <2>3 DEF Draws
  <2> QED
    BY <1>1, <1>2, <2>1, <2>2, <2>3, <2>4
<1>4. CASE cmd.type = "eImGuiUi"
  <2>1. Issued(g, cmd, new) = h
    BY <1>4 DEF Issued
  <2> QED
    BY <1>1, <1>2, <1>4, <2>1
<1>5. CASE cmd.type = "eTexturedQuad"
  <2>1. Issued(g, cmd, new) = Drawn(WithTexture(h, cmd.texture), cmd)
    BY <1>5 DEF Issued
  <2> QED
    BY <1>1, <1>3, <1>5, <2>1
<1>6. CASE cmd.type = "eText"
  <2>1. Issued(g, cmd, new) = Text(h, cmd, new)
    BY <1>6 DEF Issued
  <2> QED
    <3>1. /\ AsAsked(Text(h, cmd, new)) /\ Draws(h, Text(h, cmd, new), cmd)
          /\ Cardinality(Text(h, cmd, new).alive) <= Cardinality(h.alive) + 2
      BY <1>1, <1>6, TextAsAsked
    <3> QED
      BY <1>1, <1>6, <2>1, <3>1 DEF Draws
<1>7. CASE cmd.type \notin {"eImGuiUi", "eTexturedQuad", "eText"}
  <2>1. Issued(g, cmd, new) = Drawn(WithTexture(h, Ui), cmd)
    BY <1>7 DEF Issued
  <2> QED
    BY <1>2, <1>3, <1>7, <2>1
<1> QED
  BY <1>4, <1>5, <1>6, <1>7

\* What was drawn is those of some places that are not the user interface,
\* each from a place of its own, in order.
Placed(done, buffer, places) ==
  \E place \in [DOMAIN done -> places] :
    /\ Range(place) = {p \in places : buffer[p].type # "eImGuiUi"}
    /\ \A i \in DOMAIN done : done[i].cmd = buffer[place[i]]
    /\ \A i, j \in DOMAIN done : i < j => Before(buffer, place[i], place[j])

LEMMA PlacedNext ==
  ASSUME NEW buffer, NEW places, NEW q, \A p \in places : Before(buffer, p, q),
         NEW done, done \in Seq(Range(done)), Placed(done, buffer, places), NEW more,
         IF buffer[q].type = "eImGuiUi" THEN more = done
         ELSE \E d : d.cmd = buffer[q] /\ more = Append(done, d)
  PROVE  Placed(more, buffer, places \cup {q})
<1>1. PICK place \in [DOMAIN done -> places] :
        /\ Range(place) = {p \in places : buffer[p].type # "eImGuiUi"}
        /\ \A i \in DOMAIN done : done[i].cmd = buffer[place[i]]
        /\ \A i, j \in DOMAIN done : i < j => Before(buffer, place[i], place[j])
  BY DEF Placed
<1>2. CASE buffer[q].type = "eImGuiUi"
  <2>1. place \in [DOMAIN more -> places \cup {q}] /\ more = done
    BY <1>2
  <2>2. Range(place) = {p \in places \cup {q} : buffer[p].type # "eImGuiUi"}
    BY <1>1, <1>2
  <2> QED
    BY <1>1, <2>1, <2>2 DEF Placed
<1>3. CASE buffer[q].type # "eImGuiUi"
  <2>1. PICK d : d.cmd = buffer[q] /\ more = Append(done, d)
    BY <1>3
  <2> DEFINE n == Len(done)
             next == [i \in 1 .. n + 1 |-> IF i <= n THEN place[i] ELSE q]
  <2>2. /\ more \in Seq(Range(more)) /\ Len(more) = n + 1 /\ n \in Nat
        /\ \A i \in 1 .. n : more[i] = done[i]
        /\ more[n + 1] = d
    BY <2>1, AppendAny
  <2>3. DOMAIN done = 1 .. n /\ DOMAIN more = 1 .. n + 1
    BY <2>2, LenProperties
  <2> HIDE DEF n
  <2>4. \A i \in 1 .. n + 1 : (i \in 1 .. n /\ i <= n) \/ (i = n + 1 /\ ~(i <= n))
    BY <2>2
  <2>5. /\ DOMAIN next = 1 .. n + 1 /\ next[n + 1] = q /\ n + 1 \in 1 .. n + 1
        /\ \A i \in 1 .. n : next[i] = place[i] /\ i \in 1 .. n + 1
    BY <2>2
  <2>6. next \in [DOMAIN more -> places \cup {q}]
    BY <2>3, <2>4
  <2> HIDE DEF next
  <2>7. Range(next) = {p \in places \cup {q} : buffer[p].type # "eImGuiUi"}
    <3>1. Range(next) = Range(place) \cup {q}
      BY <2>3, <2>4, <2>5 DEF Range
    <3> QED
      BY <1>1, <1>3, <3>1
  <2>8. ASSUME NEW i \in DOMAIN more PROVE more[i].cmd = buffer[next[i]]
    <3>1. CASE i \in 1 .. n
      BY <1>1, <2>2, <2>3, <2>5, <3>1
    <3>2. CASE i = n + 1
      BY <2>1, <2>2, <2>5, <3>2
    <3> QED
      BY <2>3, <2>4, <3>1, <3>2
  <2>9. ASSUME NEW i \in DOMAIN more, NEW j \in DOMAIN more, i < j
        PROVE  Before(buffer, next[i], next[j])
    <3>0. i \in 1 .. n
      BY <2>2, <2>3, <2>9
    <3>1. CASE j \in 1 .. n
      BY <1>1, <2>3, <2>5, <2>9, <3>0, <3>1
    <3>2. CASE j = n + 1
      BY <2>3, <2>5, <3>0, <3>2
    <3> QED
      BY <2>3, <2>4, <3>1, <3>2
  <2> QED
    BY <2>6, <2>7, <2>8, <2>9 DEF Placed
<1> QED
  BY <1>2, <1>3

\* However many commands there are, each is drawn as it was asked for: by the
\* first command, if any, after which something would be wrong.
LEMMA GeneratedAsAsked ==
  ASSUME NEW buffer, NEW order, NEW fresh, Len(order) \in 0 .. MaxCells,
         \A i \in 1 .. Len(order) : buffer[order[i]].type = "eTexturedQuad" =>
            buffer[order[i]].texture \in alive \ {Ui},
         \A i, j \in 1 .. Len(order) : i < j => Before(buffer, order[i], order[j]),
         AsAsked(Unissued), Cardinality(alive) + 2 * MaxCells <= Cardinality(Textures)
  PROVE  /\ AsAsked(Generated(buffer, order, fresh))
         /\ Placed(Generated(buffer, order, fresh).drawn, buffer, {order[i] : i \in 1 .. Len(order)})
<1> DEFINE n == Len(order)
           step(g, i) == Issued(g, buffer[order[i]], NewGlyphs(fresh, order[i]))
           IsUpTo(f, k) == f = [i \in 0 .. k |-> IF i = 0 THEN Unissued ELSE step(f[i - 1], i)]
<1>0. n \in Nat /\ n <= MaxCells /\ MaxCells \in Nat
  BY RendererAssumption
<1>1. PICK upTo : upTo = CHOOSE f : IsUpTo(f, n)
  OBVIOUS
<1>2. Generated(buffer, order, fresh) = upTo[n]
  BY <1>1 DEF Generated
<1>3. \A k \in Nat : \E f : IsUpTo(f, k)
  <2> HIDE DEF step
  <2> DEFINE bad == {k \in Nat : ~\E f : IsUpTo(f, k)}
  <2> SUFFICES ASSUME bad # {} PROVE FALSE
    OBVIOUS
  <2>1. PICK k \in bad : \A l \in bad : ~(<<l, k>> \in OpToRel(<, Nat))
    BY NatLessThanWellFounded, WFMin, Zenon
  <2>2. k # 0
    <3>1. IsUpTo([i \in 0 .. 0 |-> Unissued], 0)
      OBVIOUS
    <3> QED
      BY <3>1
  <2>3. k - 1 \in Nat /\ k - 1 < k
    BY <2>2
  <2>4. k - 1 \notin bad
    BY <2>1, <2>3 DEF OpToRel
  <2>5. PICK f : IsUpTo(f, k - 1)
    BY <2>3, <2>4
  <2> DEFINE h == [i \in 0 .. k |-> IF i = k THEN step(f[k - 1], k) ELSE f[i]]
  <2>6. \A i \in 0 .. k - 1 : h[i] = f[i]
    BY <2>3
  <2>7. ASSUME NEW i \in 0 .. k
        PROVE  h[i] = IF i = 0 THEN Unissued ELSE step(h[i - 1], i)
    <3>1. CASE i = k
      <4>1. h[i] = step(f[k - 1], k)
        BY <3>1
      <4>2. k - 1 \in 0 .. k - 1
        BY <2>3
      <4>3. h[k - 1] = f[k - 1]
        BY <4>2, <2>6
      <4> QED
        BY <3>1, <4>1, <4>3, <2>2
    <3>2. CASE i # k
      <4>1. i \in 0 .. k - 1 /\ (i # 0 => i - 1 \in 0 .. k - 1)
        BY <3>2
      <4>2. f[i] = IF i = 0 THEN Unissued ELSE step(f[i - 1], i)
        BY <2>5, <4>1
      <4> QED
        BY <4>1, <4>2, <2>6
    <3> QED
      BY <3>1, <3>2
  <2>8. h = [i \in 0 .. k |-> h[i]]
    OBVIOUS
  <2> HIDE DEF h
  <2>9. IsUpTo(h, k)
    BY <2>7, <2>8
  <2> QED
    BY <2>9
<1>4. IsUpTo(upTo, n)
  <2> HIDE DEF IsUpTo
  <2> QED
    BY <1>0, <1>1, <1>3, Zenon
<1>5. /\ upTo[0] = Unissued
      /\ \A i \in 1 .. n : upTo[i] = step(upTo[i - 1], i)
  <2> HIDE DEF step
  <2>1. \A i \in 0 .. n : upTo[i] = IF i = 0 THEN Unissued ELSE step(upTo[i - 1], i)
    BY <1>4
  <2> QED
    BY <1>0, <2>1
<1> HIDE DEF IsUpTo
<1>6. Cardinality(alive) \in Nat /\ Cardinality(Textures) \in Nat
  <2>1. alive \subseteq Textures
    BY DEF AsAsked, Kept
  <2> QED
    BY <2>1, FS_Subset, FS_CardinalityType, RendererAssumption
<1> DEFINE Good(i) == /\ AsAsked(upTo[i])
                      /\ Cardinality(upTo[i].alive) <= Cardinality(alive) + 2 * i
                      /\ Placed(upTo[i].drawn, buffer, {order[k] : k \in 1 .. i})
<1>7. Good(0)
  <2>1. Unissued.alive = alive
    BY DEF Unissued
  <2>2. Placed(<<>>, buffer, {order[k] : k \in 1 .. 0})
    <3>1. DOMAIN <<>> = {} /\ <<>> \in [DOMAIN <<>> -> {}] /\ {order[k] : k \in 1 .. 0} = {}
      OBVIOUS
    <3>2. Range(<<>>) = {}
      BY <3>1 DEF Range
    <3> QED
      BY <3>1, <3>2 DEF Placed
  <2>3. Unissued.drawn = <<>>
    BY DEF Unissued
  <2> QED
    BY <2>1, <2>2, <2>3, <1>5, <1>6
<1>8. ASSUME NEW i \in 1 .. n, Good(i - 1) PROVE Good(i)
  <2> DEFINE g == upTo[i - 1]
  <2>1. AsAsked(g) /\ Cardinality(g.alive) <= Cardinality(alive) + 2 * (i - 1)
    BY <1>8
  <2>2. upTo[i] = Issued(g, buffer[order[i]], NewGlyphs(fresh, order[i]))
    BY <1>5
  <2> HIDE DEF g
  <2>3. Cardinality(g.alive) \in Nat /\ alive \subseteq g.alive
    BY <2>1, FS_Subset, FS_CardinalityType, RendererAssumption DEF AsAsked, Kept
  <2>4. Cardinality(g.alive) + 2 <= Cardinality(Textures)
    BY <1>0, <1>6, <2>1, <2>3
  <2>5. buffer[order[i]].type = "eTexturedQuad" => buffer[order[i]].texture \in g.alive \ {Ui}
    BY <2>3
  <2>6. /\ AsAsked(upTo[i])
        /\ Cardinality(upTo[i].alive) <= Cardinality(g.alive) + 2
        /\ IF buffer[order[i]].type = "eImGuiUi" THEN upTo[i].drawn = g.drawn
                                                 ELSE Draws(g, upTo[i], buffer[order[i]])
    BY <2>1, <2>2, <2>4, <2>5, IssuedAsAsked, Zenon
  <2>7. Cardinality(upTo[i].alive) \in Nat
    BY <2>6, FS_Subset, FS_CardinalityType, RendererAssumption DEF AsAsked, Kept
  <2>8. Placed(upTo[i].drawn, buffer, {order[k] : k \in 1 .. i})
    <3> DEFINE S == {order[k] : k \in 1 .. i - 1}
    <3>1. {order[k] : k \in 1 .. i} = S \cup {order[i]}
      <4>1. \A k \in 1 .. i : k \in 1 .. i - 1 \/ k = i
        BY <1>0
      <4>2. i \in 1 .. i /\ 1 .. i - 1 \subseteq 1 .. i
        BY <1>0
      <4> QED
        BY <4>1, <4>2
    <3>2. \A p \in S : Before(buffer, p, order[i])
      <4>1. \A k \in 1 .. i - 1 : k \in 1 .. n /\ k < i
        BY <1>0
      <4> QED
        BY <4>1
    <3>3. Placed(g.drawn, buffer, S) /\ g.drawn \in Seq(Range(g.drawn))
      BY <1>8, <2>1 DEF AsAsked, g
    <3> HIDE DEF S
    <3>4. Placed(upTo[i].drawn, buffer, S \cup {order[i]})
      BY <2>6, <3>2, <3>3, PlacedNext DEF Draws
    <3> QED
      BY <3>1, <3>4
  <2> QED
    BY <1>6, <2>1, <2>3, <2>6, <2>7, <2>8
<1> HIDE DEF Good
<1>9. \A i \in 0 .. n : Good(i)
  <2> DEFINE bad == {k \in 0 .. n : ~Good(k)}
  <2> SUFFICES ASSUME bad # {} PROVE FALSE
    OBVIOUS
  <2>1. bad \subseteq Nat
    OBVIOUS
  <2>2. PICK k \in bad : \A l \in bad : ~(<<l, k>> \in OpToRel(<, Nat))
    BY <2>1, NatLessThanWellFounded, WFMin, Zenon
  <2>3. k # 0 /\ k \in 0 .. n
    BY <1>7
  <2>4. k - 1 \in 0 .. n /\ k - 1 \in Nat /\ k - 1 < k /\ k \in 1 .. n
    BY <1>0, <2>3
  <2>5. k - 1 \notin bad
    BY <2>1, <2>2, <2>4 DEF OpToRel
  <2> QED
    BY <1>8, <2>4, <2>5
<1>10. Good(n)
  BY <1>0, <1>9
<1> QED
  BY <1>2, <1>10 DEF Good

-----------------------------------------------------------------------------
(* The renderer's invariant *)

\* Textures are kept between the calls, and there are names for those a frame
\* can need; quads are drawn with textures that are held or wait.
TexturesKept ==
  /\ mDestroyTextureList \in Seq(Textures)
  /\ mFontStashTexture \in Textures \cup {NoTexture}
  /\ alive \subseteq Textures
  /\ HeldOnce(alive, mDestroyTextureList, mFontStashTexture)

NamesLeft ==
  Cardinality(alive \ {Ui, mFontStashTexture}) + 2 * (MaxCells + 1) <= Cardinality(Textures)

QuadsHeld ==
  \A p \in DOMAIN mDrawCommandBuffer : mDrawCommandBuffer[p].type = "eTexturedQuad" =>
     mDrawCommandBuffer[p].texture \in handles \cup Range(mDestroyTextureList)

\* The commands can be walked to the end, or to the path that is being drawn,
\* which has nothing but points after it.
WalkInv ==
  /\ mInPath \in BOOLEAN
  /\ mDrawCommandBuffer \in Seq(Range(mDrawCommandBuffer))
  /\ Len(mDrawCommandBuffer) < MaxCells
  /\ mInPath => /\ mPathBeginPos \in 1 .. Len(mDrawCommandBuffer)
                /\ Walked(mDrawCommandBuffer, mPathBeginPos - 1)
                /\ \A p \in mPathBeginPos + 1 .. Len(mDrawCommandBuffer) :
                     mDrawCommandBuffer[p].type = "point"
  /\ ~mInPath => Walked(mDrawCommandBuffer, Len(mDrawCommandBuffer))

\* What is a command has a layer, once it is complete.
CellsInv ==
  \A p \in DOMAIN mDrawCommandBuffer :
    /\ mDrawCommandBuffer[p].type # "eImGuiUi"
    /\ mDrawCommandBuffer[p].type # "point" =>
         mDrawCommandBuffer[p].layer \in Nat \/ (mInPath /\ p = mPathBeginPos)

DrawnInv ==
  \A i \in DOMAIN drawn :
    /\ drawn[i].live
    /\ drawn[i].coordinates = drawn[i].cmd.state[1]
    /\ drawn[i].cmd.type = "eTexturedQuad" => drawn[i].textures = {drawn[i].cmd.texture}
    /\ drawn[i].cmd.type = "eText" => Ui \notin drawn[i].textures

RendererInv == TexturesKept /\ NamesLeft /\ QuadsHeld /\ WalkInv /\ CellsInv /\ DrawnInv

LEMMA NothingWalked == Walked(<<>>, 0)
<1>1. <<>> \in [1 .. 0 -> 1 .. 0] /\ Len(<<>>) = 0
  OBVIOUS
<1>2. <<>> \in Walks(<<>>, 0)
  BY <1>1 DEF Walks
<1>3. Range(<<>>) = {} /\ Commands(<<>>, 0) = {}
  BY DEF Range, Commands
<1> QED
  BY <1>2, <1>3 DEF Walked

LEMMA RendererStart == RendererInit => RendererInv
<1> SUFFICES ASSUME RendererInit PROVE RendererInv
  OBVIOUS
<1>1. TexturesKept
  BY RendererAssumption DEF RendererInit, TexturesKept, HeldOnce, Range
<1>2. NamesLeft
  <2>1. alive \ {Ui, mFontStashTexture} = {}
    BY DEF RendererInit
  <2>2. Cardinality(alive \ {Ui, mFontStashTexture}) = 0
    BY <2>1, FS_EmptySet
  <2> QED
    BY <2>2, RendererAssumption DEF NamesLeft
<1>3. QuadsHeld /\ CellsInv /\ DrawnInv
  BY DEF RendererInit, QuadsHeld, CellsInv, DrawnInv
<1>4. Walked(<<>>, 0)
  BY NothingWalked
<1>5. WalkInv
  <2>1. Len(<<>>) = 0 /\ <<>> \in Seq(Range(<<>>))
    OBVIOUS
  <2>2. mInPath = FALSE /\ mDrawCommandBuffer = <<>>
    BY DEF RendererInit
  <2>3. 0 < MaxCells
    BY RendererAssumption
  <2>4. Len(mDrawCommandBuffer) < MaxCells /\ Walked(mDrawCommandBuffer, Len(mDrawCommandBuffer))
    BY <1>4, <2>1, <2>2, <2>3
  <2> QED
    BY <2>1, <2>2, <2>4 DEF WalkInv
<1> QED
  BY <1>1, <1>2, <1>3, <1>5 DEF RendererInv

LEMMA CellsGrow ==
  ASSUME WalkInv, NEW cell
  PROVE  LET b == mDrawCommandBuffer
             c == Append(b, cell)
         IN /\ c \in Seq(Range(c)) /\ Len(b) \in Nat /\ Len(c) = Len(b) + 1
            /\ DOMAIN b = 1 .. Len(b) /\ DOMAIN c = 1 .. Len(b) + 1
            /\ \A p \in 1 .. Len(b) : c[p] = b[p]
            /\ c[Len(b) + 1] = cell
<1> DEFINE b == mDrawCommandBuffer
           c == Append(b, cell)
<1>1. /\ c \in Seq(Range(c)) /\ Len(c) = Len(b) + 1 /\ Len(b) \in Nat
      /\ \A p \in 1 .. Len(b) : c[p] = b[p]
      /\ c[Len(b) + 1] = cell
  BY AppendAny DEF WalkInv
<1>2. DOMAIN b = 1 .. Len(b)
  BY LenProperties DEF WalkInv
<1> HIDE DEF c
<1>3. DOMAIN c = 1 .. Len(b) + 1
  BY <1>1, LenProperties
<1> QED
  BY <1>1, <1>2, <1>3 DEF c

LEMMA DrawStep ==
  ASSUME RendererInv,
         NEW type \in {"eTexturedQuad", "eRect", "eText"}, NEW t, NEW l \in Layers, NEW co, NEW bl,
         Draw(type, t, l, co, bl)
  PROVE  QuadsHeld' /\ WalkInv' /\ CellsInv'
<1> DEFINE b == mDrawCommandBuffer
           cell == Header(type, t, l, co, bl)
           c == Append(b, cell)
<1>1. /\ ~mInPath /\ Len(b) + 1 < MaxCells
      /\ type = "eTexturedQuad" => t \in handles
      /\ mDrawCommandBuffer' = c
      /\ UNCHANGED <<mInPath, mPathBeginPos, handles, mDestroyTextureList>>
  BY DEF Draw, Room, textureVars
<1>2. /\ c \in Seq(Range(c)) /\ Len(b) \in Nat /\ Len(c) = Len(b) + 1
      /\ DOMAIN b = 1 .. Len(b) /\ DOMAIN c = 1 .. Len(b) + 1
      /\ \A p \in 1 .. Len(b) : c[p] = b[p]
      /\ c[Len(b) + 1] = cell
  BY CellsGrow DEF RendererInv
<1>3. cell.type = type /\ cell.size = 1 /\ cell.texture = t /\ cell.layer = l
  BY DEF Header
<1> HIDE DEF b, c, cell
<1>4. Walked(b, Len(b))
  BY <1>1 DEF RendererInv, WalkInv, b
<1>5. Walked(c, Len(b) + 1)
  <2>1. /\ 1 \in Nat \ {0} /\ c[Len(b) + 1].size = 1 /\ c[Len(b) + 1].type # "point"
        /\ \A p \in 1 .. Len(b) : c[p].size = b[p].size /\ c[p].type = b[p].type
        /\ \A p \in Len(b) + 2 .. Len(b) + 1 : c[p].type = "point"
    BY <1>2, <1>3
  <2> QED
    BY <1>2, <1>4, <2>1, WalkGoesOn
<1>6. WalkInv'
  BY <1>1, <1>2, <1>5 DEF RendererInv, WalkInv
<1>7. ASSUME NEW p \in DOMAIN c, c[p].type = "eTexturedQuad"
      PROVE  c[p].texture \in handles \cup Range(mDestroyTextureList)
  <2>1. CASE p \in 1 .. Len(b)
    BY <1>2, <1>7, <2>1 DEF RendererInv, QuadsHeld, b
  <2>2. CASE p = Len(b) + 1
    BY <1>1, <1>2, <1>3, <1>7, <2>2
  <2> QED
    BY <1>2, <2>1, <2>2
<1>8. ASSUME NEW p \in DOMAIN c
      PROVE  c[p].type # "eImGuiUi" /\ (c[p].type # "point" => c[p].layer \in Nat)
  <2>1. CASE p \in 1 .. Len(b)
    BY <1>1, <1>2, <2>1 DEF RendererInv, CellsInv, b
  <2>2. CASE p = Len(b) + 1
    BY <1>2, <1>3, <2>2, RendererAssumption
  <2> QED
    BY <1>2, <2>1, <2>2
<1>9. CellsInv'
  BY <1>1, <1>8 DEF CellsInv
<1> QED
  BY <1>1, <1>6, <1>7, <1>9 DEF QuadsHeld

LEMMA PathBeginStep == ASSUME RendererInv, PathBegin PROVE QuadsHeld' /\ WalkInv' /\ CellsInv'
<1> DEFINE b == mDrawCommandBuffer
           cell == [type |-> "ePath"]
           c == Append(b, cell)
<1>1. /\ ~mInPath /\ Len(b) + 2 < MaxCells /\ mInPath' = TRUE
      /\ mPathBeginPos' = Len(b) + 1
      /\ mDrawCommandBuffer' = c
      /\ UNCHANGED <<handles, mDestroyTextureList>>
  BY DEF PathBegin, Room, textureVars
<1>2. /\ c \in Seq(Range(c)) /\ Len(b) \in Nat /\ Len(c) = Len(b) + 1
      /\ DOMAIN b = 1 .. Len(b) /\ DOMAIN c = 1 .. Len(b) + 1
      /\ \A p \in 1 .. Len(b) : c[p] = b[p]
      /\ c[Len(b) + 1] = cell
  BY CellsGrow DEF RendererInv
<1>3. cell.type = "ePath"
  OBVIOUS
<1> HIDE DEF b, c, cell
<1>4. Walked(b, Len(b))
  BY <1>1 DEF RendererInv, WalkInv, b
<1>5. Walked(c, Len(b))
  BY <1>2, <1>4, WalkStays
<1>6. WalkInv'
  <2>1. mPathBeginPos' - 1 = Len(b) /\ mPathBeginPos' \in 1 .. Len(c) /\ Len(c) < MaxCells
    BY <1>1, <1>2, RendererAssumption
  <2>2. \A p \in mPathBeginPos' + 1 .. Len(c) : c[p].type = "point"
    BY <1>1, <1>2
  <2> QED
    BY <1>1, <1>2, <1>5, <2>1, <2>2 DEF WalkInv
<1>7. ASSUME NEW p \in DOMAIN c, c[p].type = "eTexturedQuad"
      PROVE  c[p].texture \in handles \cup Range(mDestroyTextureList)
  <2>1. CASE p \in 1 .. Len(b)
    BY <1>2, <1>7, <2>1 DEF RendererInv, QuadsHeld, b
  <2>2. CASE p = Len(b) + 1
    BY <1>2, <1>3, <1>7, <2>2
  <2> QED
    BY <1>2, <2>1, <2>2
<1>8. ASSUME NEW p \in DOMAIN c
      PROVE  /\ c[p].type # "eImGuiUi"
             /\ c[p].type # "point" => c[p].layer \in Nat \/ p = mPathBeginPos'
  <2>1. CASE p \in 1 .. Len(b)
    BY <1>1, <1>2, <2>1 DEF RendererInv, CellsInv, b
  <2>2. CASE p = Len(b) + 1
    BY <1>1, <1>2, <1>3, <2>2
  <2> QED
    BY <1>2, <2>1, <2>2
<1>9. CellsInv'
  BY <1>1, <1>8 DEF CellsInv
<1> QED
  BY <1>1, <1>6, <1>7, <1>9 DEF QuadsHeld

LEMMA PathLineToStep == ASSUME RendererInv, PathLineTo PROVE QuadsHeld' /\ WalkInv' /\ CellsInv'
<1> DEFINE b == mDrawCommandBuffer
           cell == [type |-> "point"]
           c == Append(b, cell)
<1>1. /\ mInPath /\ Len(b) + 1 < MaxCells
      /\ mDrawCommandBuffer' = c
      /\ UNCHANGED <<mInPath, mPathBeginPos, handles, mDestroyTextureList>>
  BY DEF PathLineTo, Room, textureVars
<1>2. /\ c \in Seq(Range(c)) /\ Len(b) \in Nat /\ Len(c) = Len(b) + 1
      /\ DOMAIN b = 1 .. Len(b) /\ DOMAIN c = 1 .. Len(b) + 1
      /\ \A p \in 1 .. Len(b) : c[p] = b[p]
      /\ c[Len(b) + 1] = cell
  BY CellsGrow DEF RendererInv
<1>3. cell.type = "point"
  OBVIOUS
<1> HIDE DEF b, c, cell
<1>4. /\ mPathBeginPos \in 1 .. Len(b) /\ Walked(b, mPathBeginPos - 1)
      /\ \A p \in mPathBeginPos + 1 .. Len(b) : b[p].type = "point"
  BY <1>1 DEF RendererInv, WalkInv, b
<1>5. Walked(c, mPathBeginPos - 1)
  <2>1. /\ mPathBeginPos - 1 \in Nat
        /\ \A p \in 1 .. mPathBeginPos - 1 : c[p].size = b[p].size /\ c[p].type = b[p].type
    BY <1>2, <1>4
  <2> QED
    BY <1>4, <2>1, WalkStays
<1>6. WalkInv'
  <2>1. mPathBeginPos \in 1 .. Len(c) /\ Len(c) < MaxCells
    BY <1>1, <1>2, <1>4, RendererAssumption
  <2>2. ASSUME NEW p \in mPathBeginPos + 1 .. Len(c) PROVE c[p].type = "point"
    <3>1. p \in mPathBeginPos + 1 .. Len(b) \/ p = Len(b) + 1
      BY <1>2, <1>4
    <3>2. p \in mPathBeginPos + 1 .. Len(b) => p \in 1 .. Len(b)
      BY <1>4
    <3> QED
      BY <1>2, <1>3, <1>4, <3>1, <3>2
  <2>3. mInPath' /\ mPathBeginPos' = mPathBeginPos /\ mDrawCommandBuffer' = c
    BY <1>1
  <2> QED
    BY <1>2, <1>5, <2>1, <2>2, <2>3 DEF WalkInv
<1>7. ASSUME NEW p \in DOMAIN c, c[p].type = "eTexturedQuad"
      PROVE  c[p].texture \in handles \cup Range(mDestroyTextureList)
  <2>1. CASE p \in 1 .. Len(b)
    BY <1>2, <1>7, <2>1 DEF RendererInv, QuadsHeld, b
  <2>2. CASE p = Len(b) + 1
    BY <1>2, <1>3, <1>7, <2>2
  <2> QED
    BY <1>2, <2>1, <2>2
<1>8. ASSUME NEW p \in DOMAIN c
      PROVE  /\ c[p].type # "eImGuiUi"
             /\ c[p].type # "point" => c[p].layer \in Nat \/ p = mPathBeginPos
  <2>1. CASE p \in 1 .. Len(b)
    BY <1>2, <2>1 DEF RendererInv, CellsInv, b
  <2>2. CASE p = Len(b) + 1
    BY <1>2, <1>3, <2>2
  <2> QED
    BY <1>2, <2>1, <2>2
<1>9. CellsInv'
  BY <1>1, <1>8 DEF CellsInv
<1> QED
  BY <1>1, <1>6, <1>7, <1>9 DEF QuadsHeld

\* The size of the path is what brings the walk from its header to the end.
LEMMA PathEndStep ==
  ASSUME RendererInv, NEW l \in Layers, NEW co, NEW bl, PathEnd(l, co, bl)
  PROVE  QuadsHeld' /\ WalkInv' /\ CellsInv'
<1> DEFINE b == mDrawCommandBuffer
           q == mPathBeginPos
           size == Len(b) + 1 - q
           cell == [Header("ePath", NoTexture, l, co, bl) EXCEPT !.size = size]
           c == [b EXCEPT ![q] = cell]
<1>1. /\ mInPath /\ mInPath' = FALSE /\ mDrawCommandBuffer' = c
      /\ UNCHANGED <<mPathBeginPos, handles, mDestroyTextureList>>
  BY DEF PathEnd, textureVars
<1>2. /\ Len(b) \in Nat /\ DOMAIN b = 1 .. Len(b) /\ b \in Seq(Range(b))
      /\ q \in 1 .. Len(b) /\ Walked(b, q - 1) /\ Len(b) < MaxCells
      /\ \A p \in q + 1 .. Len(b) : b[p].type = "point"
  BY <1>1, LenProperties DEF RendererInv, WalkInv
<1>3. cell.type = "ePath" /\ cell.size = size /\ cell.layer = l
  BY DEF Header
<1> HIDE DEF b, q, cell
<1>4. /\ DOMAIN c = 1 .. Len(b) /\ c[q] = cell
      /\ \A p \in 1 .. Len(b) \ {q} : c[p] = b[p]
  BY <1>2
<1>5. c \in Seq(Range(c)) /\ Len(c) = Len(b)
  <2>1. Range(b) \subseteq Range(b) \cup {cell} /\ b \in Seq(Range(b) \cup {cell})
    BY <1>2, SeqMonotonic
  <2>2. c \in Seq(Range(b) \cup {cell}) /\ Len(c) = Len(b)
    BY <1>2, <2>1, ExceptSeq
  <2> QED
    BY <2>2, SeqOfRange
<1>6. size \in Nat \ {0} /\ q - 1 \in Nat /\ (q - 1) + size = Len(b) /\ (q - 1) + 1 = q
  BY <1>2
<1> HIDE DEF c
<1>7. Walked(c, (q - 1) + size)
  <2>1. \A p \in 1 .. q - 1 : c[p].size = b[p].size /\ c[p].type = b[p].type
    BY <1>2, <1>4
  <2>2. c[(q - 1) + 1].size = size /\ c[(q - 1) + 1].type # "point"
    BY <1>3, <1>4, <1>6
  <2>3. ASSUME NEW p \in (q - 1) + 2 .. (q - 1) + size PROVE c[p].type = "point"
    <3>1. p \in q + 1 .. Len(b) /\ p \in 1 .. Len(b) \ {q}
      BY <1>2, <1>6
    <3> QED
      BY <1>2, <1>4, <3>1
  <2>4. PICK k \in Nat : k = q - 1
    BY <1>6
  <2>5. size \in Nat \ {0} /\ Walked(b, k)
    BY <1>2, <1>6, <2>4
  <2> HIDE DEF size
  <2>6. \A p \in 1 .. k : c[p].size = b[p].size /\ c[p].type = b[p].type
    BY <2>1, <2>4
  <2>7. c[k + 1].size = size /\ c[k + 1].type # "point"
    BY <2>2, <2>4
  <2>8. \A p \in k + 2 .. k + size : c[p].type = "point"
    BY <2>3, <2>4
  <2>9. Walked(c, k + size)
    BY <2>5, <2>6, <2>7, <2>8, WalkGoesOn
  <2> QED
    BY <2>4, <2>9
<1>8. WalkInv'
  BY <1>1, <1>2, <1>5, <1>6, <1>7 DEF WalkInv
<1>9. ASSUME NEW p \in DOMAIN c, c[p].type = "eTexturedQuad"
      PROVE  c[p].texture \in handles \cup Range(mDestroyTextureList)
  <2>1. p # q
    BY <1>3, <1>4, <1>9
  <2>2. c[p] = b[p] /\ p \in DOMAIN b
    BY <1>2, <1>4, <2>1
  <2> QED
    BY <1>9, <2>2 DEF RendererInv, QuadsHeld, b
<1>10. ASSUME NEW p \in DOMAIN c
       PROVE  c[p].type # "eImGuiUi" /\ (c[p].type # "point" => c[p].layer \in Nat)
  <2>1. CASE p # q
    BY <1>2, <1>4, <2>1 DEF RendererInv, CellsInv, b, q
  <2>2. CASE p = q
    BY <1>3, <1>4, <2>2, RendererAssumption
  <2> QED
    BY <2>1, <2>2
<1>11. CellsInv'
  BY <1>1, <1>10 DEF CellsInv
<1> QED
  BY <1>1, <1>8, <1>9, <1>11 DEF QuadsHeld

-----------------------------------------------------------------------------
(* The end of a frame *)

\* What the invariant says of the buffer that EndFrame walks.
LEMMA FrameIsReady ==
  ASSUME RendererInv, ~mInPath
  PROVE  /\ Walked(AddUiCmd, Len(AddUiCmd))
         /\ Len(AddUiCmd) \in 0 .. MaxCells
         /\ \A p \in Commands(AddUiCmd, Len(AddUiCmd)) : AddUiCmd[p].layer \in Nat
         /\ {p \in Commands(AddUiCmd, Len(AddUiCmd)) : AddUiCmd[p].type # "eImGuiUi"} =
              {p \in DOMAIN mDrawCommandBuffer : mDrawCommandBuffer[p].type # "point"}
         /\ \A p \in DOMAIN mDrawCommandBuffer : AddUiCmd[p] = mDrawCommandBuffer[p]
         /\ \A p \in 1 .. Len(AddUiCmd) : AddUiCmd[p].type = "eTexturedQuad" =>
              AddUiCmd[p].texture \in alive \ {Ui}
         /\ AsAsked(Unissued)
         /\ Cardinality(alive) + 2 * MaxCells <= Cardinality(Textures)
<1> DEFINE b == mDrawCommandBuffer
           cell == Header("eImGuiUi", NoTexture, FmvLayer, "eScreen", "eNormal")
           c == Append(b, cell)
<1>1. c = AddUiCmd
  BY DEF AddUiCmd
<1>2. /\ c \in Seq(Range(c)) /\ Len(b) \in Nat /\ Len(c) = Len(b) + 1
      /\ DOMAIN b = 1 .. Len(b) /\ DOMAIN c = 1 .. Len(b) + 1
      /\ \A p \in 1 .. Len(b) : c[p] = b[p]
      /\ c[Len(b) + 1] = cell
  BY CellsGrow DEF RendererInv
<1>3. cell.type = "eImGuiUi" /\ cell.size = 1 /\ cell.layer = FmvLayer
  BY DEF Header
<1> HIDE DEF b, c, cell
<1>4. Walked(b, Len(b)) /\ Len(b) < MaxCells
  BY DEF RendererInv, WalkInv, b
<1>5. Walked(c, Len(c))
  <2>1. /\ 1 \in Nat \ {0} /\ c[Len(b) + 1].size = 1 /\ c[Len(b) + 1].type # "point"
        /\ \A p \in 1 .. Len(b) : c[p].size = b[p].size /\ c[p].type = b[p].type
        /\ \A p \in Len(b) + 2 .. Len(b) + 1 : c[p].type = "point"
    BY <1>2, <1>3
  <2>2. Walked(c, Len(b) + 1)
    BY <1>2, <1>4, <2>1, WalkGoesOn
  <2> QED
    BY <1>2, <2>2
<1>6. Len(c) \in 0 .. MaxCells
  BY <1>2, <1>4, RendererAssumption
<1>7. ASSUME NEW p \in 1 .. Len(c), c[p].type = "eTexturedQuad"
      PROVE  c[p].texture \in alive \ {Ui}
  <2>1. p # Len(b) + 1
    BY <1>2, <1>3, <1>7
  <2>2. p \in DOMAIN b /\ c[p] = b[p]
    BY <1>2, <2>1
  <2>3. c[p].texture \in handles \cup Range(mDestroyTextureList)
    BY <1>7, <2>2 DEF RendererInv, QuadsHeld, b
  <2> QED
    BY <2>3, RendererAssumption DEF RendererInv, TexturesKept, HeldOnce
<1>8. AsAsked(Unissued)
  <2>1. IsG(Unissued)
    BY DEF IsG, Unissued, GFields
  <2>2. /\ Unissued.destroy = mDestroyTextureList /\ Unissued.font = mFontStashTexture
        /\ Unissued.alive = alive /\ Unissued.lastTexture = NoTexture
        /\ Unissued.coordinates = "eScreen" /\ Unissued.lastState = <<"eScreen", "eOpaque">>
        /\ Unissued.drawn = <<>>
    BY DEF Unissued
  <2>3. Kept(Unissued)
    BY <2>1, <2>2 DEF RendererInv, TexturesKept, Kept
  <2>4. <<>> \in Seq(Range(<<>>)) /\ Range(<<>>) = {}
    BY DEF Range
  <2> QED
    BY <2>2, <2>3, <2>4 DEF AsAsked
<1>9. Cardinality(alive) + 2 * MaxCells <= Cardinality(Textures)
  <2> DEFINE rest == alive \ {Ui, mFontStashTexture}
             small == rest \cup {Ui}
  <2>1. IsFiniteSet(alive) /\ IsFiniteSet(rest) /\ IsFiniteSet(Textures)
    BY FS_Subset, RendererAssumption DEF RendererInv, TexturesKept
  <2>2. IsFiniteSet(small) /\ Cardinality(small) <= Cardinality(rest) + 1
    <3> HIDE DEF rest
    <3> QED
      BY <2>1, OneMore
  <2>3. /\ IsFiniteSet(small \cup {mFontStashTexture})
        /\ Cardinality(small \cup {mFontStashTexture}) <= Cardinality(small) + 1
    <3> HIDE DEF small
    <3> QED
      BY <2>2, OneMore
  <2>4. Cardinality(alive) <= Cardinality(small \cup {mFontStashTexture})
    <3>1. alive \in SUBSET (small \cup {mFontStashTexture})
      OBVIOUS
    <3> HIDE DEF small
    <3> QED
      BY <2>3, <3>1, FS_Subset
  <2>5. Cardinality(rest) + 2 * (MaxCells + 1) <= Cardinality(Textures)
    BY DEF RendererInv, NamesLeft
  <2> HIDE DEF rest, small
  <2>6. /\ Cardinality(alive) \in Nat /\ Cardinality(rest) \in Nat /\ Cardinality(small) \in Nat
        /\ Cardinality(small \cup {mFontStashTexture}) \in Nat /\ Cardinality(Textures) \in Nat
    BY <2>1, <2>2, <2>3, FS_CardinalityType
  <2> QED
    BY <2>2, <2>3, <2>4, <2>5, <2>6, RendererAssumption
<1>10. ASSUME NEW p \in 1 .. Len(c), c[p].type # "point"
       PROVE  c[p].layer \in Nat
  <2>1. CASE p \in 1 .. Len(b)
    BY <1>2, <1>10, <2>1 DEF RendererInv, CellsInv, b
  <2>2. CASE p = Len(b) + 1
    BY <1>2, <1>3, <2>2, RendererAssumption
  <2> QED
    BY <1>2, <2>1, <2>2
<1>11. {p \in Commands(c, Len(c)) : c[p].type # "eImGuiUi"} = {p \in DOMAIN b : b[p].type # "point"}
  <2>1. \A p \in DOMAIN b : b[p].type # "eImGuiUi"
    BY DEF RendererInv, CellsInv, b
  <2>2. \A p \in 1 .. Len(c) : p \in 1 .. Len(b) \/ p = Len(b) + 1
    BY <1>2
  <2>3. 1 .. Len(b) \subseteq 1 .. Len(c)
    BY <1>2
  <2> QED
    BY <1>2, <1>3, <2>1, <2>2, <2>3 DEF Commands
<1>12. \A p \in Commands(c, Len(c)) : c[p].layer \in Nat
  BY <1>10 DEF Commands
<1>13. \A p \in DOMAIN b : c[p] = b[p]
  BY <1>2
<1> QED
  BY <1>1, <1>5, <1>6, <1>7, <1>8, <1>9, <1>11, <1>12, <1>13 DEF b

\* The sort leaves every command where it belongs, and none out: as many places
\* as commands, all different.
LEMMA OrdersAll ==
  ASSUME NEW buffer, NEW cells \in Nat, NEW at \in Walks(buffer, cells), NEW order \in Orders(buffer, at),
         \A p \in Range(at) : buffer[p].layer \in Nat
  PROVE  /\ Len(order) \in 0 .. cells
         /\ {order[i] : i \in 1 .. Len(order)} = Range(at)
         /\ \A i, j \in 1 .. Len(order) : i < j => Before(buffer, order[i], order[j])
<1>1. PICK n \in 0 .. cells : at \in [1 .. n -> 1 .. cells]
  BY DEF Walks
<1>2. Len(at) = n /\ DOMAIN at = 1 .. n /\ n \in Nat
  BY <1>1
<1>3. /\ order \in [1 .. n -> Range(at)]
      /\ \A i, j \in 1 .. n : i < j => Before(buffer, order[i], order[j])
  BY <1>2 DEF Orders
<1>4. Len(order) = n
  BY <1>2, <1>3
<1>5. \A p \in Range(at) : ~Before(buffer, p, p)
  <2> TAKE p \in Range(at)
  <2>1. buffer[p].layer \in Nat /\ p \in Nat
    BY <1>1, <1>2 DEF Range
  <2> QED
    BY <2>1 DEF Before
<1>6. order \in Injection(1 .. n, Range(at))
  <2>1. ASSUME NEW i \in 1 .. n, NEW j \in 1 .. n, order[i] = order[j] PROVE i = j
    <3>1. order[i] \in Range(at)
      BY <1>3
    <3>2. ~(i < j) /\ ~(j < i)
      BY <1>3, <1>5, <2>1, <3>1
    <3> QED
      BY <3>2
  <2>2. DOMAIN order = 1 .. n
    BY <1>3
  <2> QED
    BY <1>3, <2>1, <2>2 DEF Injection, IsInjective
<1>7. at \in Surjection(1 .. n, Range(at))
  <2>1. at \in [1 .. n -> Range(at)] /\ \A t \in Range(at) : \E i \in 1 .. n : at[i] = t
    BY <1>1, <1>2 DEF Range
  <2> QED
    BY <2>1 DEF Surjection
<1>8. IsFiniteSet(1 .. n)
  <2>1. 1 \in Int /\ n \in Int
    BY <1>2
  <2> QED
    BY <2>1, FS_Interval, Zenon
<1>9. IsFiniteSet(Range(at)) /\ Cardinality(Range(at)) <= Cardinality(1 .. n)
  BY <1>7, <1>8, FS_Surjection
<1>10. /\ Cardinality(1 .. n) <= Cardinality(Range(at))
       /\ Cardinality(1 .. n) = Cardinality(Range(at)) <=> order \in Surjection(1 .. n, Range(at))
  BY <1>6, <1>9, FS_Injection
<1>11. Cardinality(1 .. n) = Cardinality(Range(at))
  <2>1. Cardinality(1 .. n) \in Nat /\ Cardinality(Range(at)) \in Nat
    BY <1>8, <1>9, FS_CardinalityType
  <2> QED
    BY <1>9, <1>10, <2>1
<1>12. order \in Surjection(1 .. n, Range(at))
  BY <1>10, <1>11
<1>13. {order[i] : i \in 1 .. n} = Range(at)
  BY <1>3, <1>12 DEF Surjection
<1> QED
  BY <1>1, <1>3, <1>4, <1>13

LEMMA EndFrameStep ==
  ASSUME RendererInv, EndFrame
  PROVE  RendererInv' /\ DrawnInLayers(mDrawCommandBuffer, drawn')
<1> DEFINE buffer == AddUiCmd
           texts == {p \in DOMAIN buffer : buffer[p].type = "eText"}
<1>0. /\ Walked(buffer, Len(buffer))
      /\ Len(buffer) \in 0 .. MaxCells
      /\ \A p \in Commands(buffer, Len(buffer)) : buffer[p].layer \in Nat
      /\ {p \in Commands(buffer, Len(buffer)) : buffer[p].type # "eImGuiUi"} =
           {p \in DOMAIN mDrawCommandBuffer : mDrawCommandBuffer[p].type # "point"}
      /\ \A p \in DOMAIN mDrawCommandBuffer : buffer[p] = mDrawCommandBuffer[p]
      /\ \A p \in 1 .. Len(buffer) : buffer[p].type = "eTexturedQuad" =>
           buffer[p].texture \in alive \ {Ui}
      /\ AsAsked(Unissued)
      /\ Cardinality(alive) + 2 * MaxCells <= Cardinality(Textures)
  BY FrameIsReady DEF EndFrame
<1>a. PICK at \in Walks(buffer, Len(buffer)) : \E order \in Orders(buffer, at),
           fresh \in SUBSET (texts \X {"shadow", "text"}) :
        LET g == Generated(buffer, order, fresh)
        IN /\ drawn' = [i \in DOMAIN g.drawn |->
                          [g.drawn[i] EXCEPT !.live = g.drawn[i].textures \subseteq g.alive]]
           /\ mFontStashTexture' = g.font
           /\ alive' = g.alive \ Range(g.destroy)
  BY DEF EndFrame
<1>1. PICK order \in Orders(buffer, at), fresh \in SUBSET (texts \X {"shadow", "text"}) :
        LET g == Generated(buffer, order, fresh)
        IN /\ drawn' = [i \in DOMAIN g.drawn |->
                          [g.drawn[i] EXCEPT !.live = g.drawn[i].textures \subseteq g.alive]]
           /\ mFontStashTexture' = g.font
           /\ alive' = g.alive \ Range(g.destroy)
  BY <1>a
<1>2. /\ ~mInPath /\ mDestroyTextureList' = <<>> /\ mDrawCommandBuffer' = <<>>
      /\ UNCHANGED <<mInPath, mPathBeginPos, handles>>
  BY DEF EndFrame
<1> HIDE DEF buffer, texts
<1>3. /\ Len(order) \in 0 .. MaxCells
      /\ {order[i] : i \in 1 .. Len(order)} = Commands(buffer, Len(buffer))
      /\ \A i, j \in 1 .. Len(order) : i < j => Before(buffer, order[i], order[j])
  <2>1. Len(buffer) \in Nat /\ Len(buffer) <= MaxCells /\ MaxCells \in Nat
    BY <1>0, RendererAssumption
  <2>2. Range(at) = Commands(buffer, Len(buffer))
    <3>1. PICK au \in Walks(buffer, Len(buffer)) : Range(au) = Commands(buffer, Len(buffer))
      BY <1>0 DEF Walked
    <3>2. at = au
      BY <2>1, WalkIsOne
    <3> QED
      BY <3>1, <3>2
  <2>3. /\ Len(order) \in 0 .. Len(buffer)
        /\ {order[i] : i \in 1 .. Len(order)} = Range(at)
        /\ \A i, j \in 1 .. Len(order) : i < j => Before(buffer, order[i], order[j])
    BY <1>0, <2>1, <2>2, OrdersAll
  <2> QED
    BY <2>1, <2>2, <2>3
<1>4. PICK g : g = Generated(buffer, order, fresh)
  OBVIOUS
<1>5. AsAsked(g) /\ Placed(g.drawn, buffer, Commands(buffer, Len(buffer)))
  <2>1. \A i \in 1 .. Len(order) : buffer[order[i]].type = "eTexturedQuad" =>
           buffer[order[i]].texture \in alive \ {Ui}
    <3>1. \A i \in 1 .. Len(order) : order[i] \in 1 .. Len(buffer)
      BY <1>3 DEF Commands
    <3> QED
      BY <1>0, <3>1
  <2>2. Len(order) \in 0 .. MaxCells
    BY <1>3
  <2>3. \A i, j \in 1 .. Len(order) : i < j => Before(buffer, order[i], order[j])
    BY <1>3
  <2>4. AsAsked(Unissued)
    BY <1>0
  <2>5. Cardinality(alive) + 2 * MaxCells <= Cardinality(Textures)
    BY <1>0
  <2>6. /\ AsAsked(Generated(buffer, order, fresh))
        /\ Placed(Generated(buffer, order, fresh).drawn, buffer, {order[i] : i \in 1 .. Len(order)})
    BY <2>1, <2>2, <2>3, <2>4, <2>5, GeneratedAsAsked, Zenon
  <2>7. {order[i] : i \in 1 .. Len(order)} = Commands(buffer, Len(buffer))
    BY <1>3
  <2> QED
    BY <1>4, <2>6, <2>7, Zenon
<1>6. /\ drawn' = [i \in DOMAIN g.drawn |->
                     [g.drawn[i] EXCEPT !.live = g.drawn[i].textures \subseteq g.alive]]
      /\ mFontStashTexture' = g.font
      /\ alive' = g.alive \ Range(g.destroy)
  BY <1>1, <1>4
<1>7. TexturesKept'
  <2>1. Range(<<>>) = {} /\ <<>> \in Seq(Textures)
    BY DEF Range
  <2>2. /\ alive' = handles \cup ({Ui, g.font} \ {NoTexture})
        /\ handles \cap ({Ui, g.font} \ {NoTexture}) = {} /\ g.font # Ui
    BY <1>5, <1>6 DEF AsAsked, Kept, HeldOnce
  <2>3. HeldOnce(alive, mDestroyTextureList, mFontStashTexture)'
    BY <1>2, <1>6, <2>1, <2>2 DEF HeldOnce
  <2>4. alive' \subseteq Textures /\ g.font \in Textures \cup {NoTexture}
    BY <1>5, <1>6 DEF AsAsked, Kept
  <2> QED
    BY <1>2, <1>6, <2>1, <2>3, <2>4 DEF TexturesKept
<1>8. NamesLeft'
  <2> DEFINE old == alive \ {Ui, mFontStashTexture}
             new == alive' \ {Ui, g.font}
  <2>1. new \subseteq handles
    BY <1>5, <1>6 DEF AsAsked, Kept, HeldOnce
  <2>2. handles \subseteq old
    BY RendererAssumption DEF RendererInv, TexturesKept, HeldOnce
  <2>3. IsFiniteSet(old) /\ IsFiniteSet(Textures)
    BY FS_Subset, RendererAssumption DEF RendererInv, TexturesKept
  <2>4. Cardinality(old) + 2 * (MaxCells + 1) <= Cardinality(Textures)
    BY DEF RendererInv, NamesLeft
  <2>5. new \in SUBSET old
    BY <2>1, <2>2
  <2> HIDE DEF old, new
  <2>6. /\ Cardinality(new) <= Cardinality(old) /\ Cardinality(new) \in Nat
        /\ Cardinality(old) \in Nat /\ Cardinality(Textures) \in Nat
    BY <2>3, <2>5, FS_Subset, FS_CardinalityType
  <2>7. Cardinality(new) + 2 * (MaxCells + 1) <= Cardinality(Textures)
    BY <2>4, <2>6, RendererAssumption
  <2> QED
    BY <1>6, <2>7 DEF NamesLeft, new
<1>9. QuadsHeld'
  BY <1>2 DEF QuadsHeld
<1>10. WalkInv'
  <2>1. Walked(<<>>, 0) /\ Len(<<>>) = 0 /\ <<>> \in Seq(Range(<<>>)) /\ 0 < MaxCells
    BY NothingWalked, RendererAssumption
  <2>2. ~mInPath' /\ mInPath' \in BOOLEAN
    BY <1>2 DEF RendererInv, WalkInv
  <2>3. mDrawCommandBuffer' = <<>>
    BY <1>2
  <2> QED
    BY <2>1, <2>2, <2>3 DEF WalkInv
<1>11. DrawnInv'
  <2>1. ASSUME NEW i \in DOMAIN g.drawn
        PROVE  /\ drawn'[i].live
               /\ drawn'[i].coordinates = drawn'[i].cmd.state[1]
               /\ drawn'[i].cmd.type = "eTexturedQuad" => drawn'[i].textures = {drawn'[i].cmd.texture}
               /\ drawn'[i].cmd.type = "eText" => Ui \notin drawn'[i].textures
    <3> DEFINE d == g.drawn[i]
    <3>1. Asked(d, g.alive)
      BY <1>5, d \in Range(g.drawn) DEF AsAsked, Range
    <3>2. drawn'[i] = [d EXCEPT !.live = d.textures \subseteq g.alive]
      BY <1>6
    <3> HIDE DEF d
    <3>3. drawn'[i] = [cmd |-> d.cmd, textures |-> d.textures, coordinates |-> d.coordinates,
                       live |-> d.textures \subseteq g.alive]
      BY <3>1, <3>2 DEF Asked
    <3>4. /\ drawn'[i].cmd = d.cmd /\ drawn'[i].textures = d.textures
          /\ drawn'[i].coordinates = d.coordinates
      BY <3>3
    <3>5. drawn'[i].live = (d.textures \subseteq g.alive)
      BY <3>3
    <3>6. d.textures \subseteq g.alive
      BY <3>1 DEF Asked
    <3> QED
      BY <3>1, <3>4, <3>5, <3>6 DEF Asked
  <2>2. DOMAIN drawn' = DOMAIN g.drawn
    BY <1>6
  <2> QED
    BY <2>1, <2>2 DEF DrawnInv
<1>12. CellsInv'
  BY <1>2 DEF CellsInv
<1>13. DrawnInLayers(mDrawCommandBuffer, drawn')
  <2> DEFINE commands == {p \in DOMAIN mDrawCommandBuffer : mDrawCommandBuffer[p].type # "point"}
  <2>1. PICK place \in [DOMAIN g.drawn -> Commands(buffer, Len(buffer))] :
          /\ Range(place) = {p \in Commands(buffer, Len(buffer)) : buffer[p].type # "eImGuiUi"}
          /\ \A i \in DOMAIN g.drawn : g.drawn[i].cmd = buffer[place[i]]
          /\ \A i, j \in DOMAIN g.drawn : i < j => Before(buffer, place[i], place[j])
    BY <1>5 DEF Placed
  <2>2. Range(place) = commands
    BY <1>0, <2>1
  <2>3. DOMAIN drawn' = DOMAIN g.drawn
    BY <1>6
  <2>4. \A i \in DOMAIN g.drawn : place[i] \in commands /\ place[i] \in DOMAIN mDrawCommandBuffer
    BY <2>1, <2>2 DEF Range
  <2>5. \A i \in DOMAIN g.drawn : drawn'[i].cmd = g.drawn[i].cmd
    <3> TAKE i \in DOMAIN g.drawn
    <3> DEFINE d == g.drawn[i]
    <3>1. Asked(d, g.alive)
      BY <1>5, d \in Range(g.drawn) DEF AsAsked, Range
    <3>2. drawn'[i] = [d EXCEPT !.live = d.textures \subseteq g.alive]
      BY <1>6
    <3> HIDE DEF d
    <3>3. drawn'[i].cmd = d.cmd
      BY <3>1, <3>2 DEF Asked
    <3> QED
      BY <3>3 DEF d
  <2>6. \A i \in DOMAIN drawn' : /\ drawn'[i].cmd = mDrawCommandBuffer[place[i]]
                                 /\ drawn'[i].cmd = buffer[place[i]]
    BY <1>0, <2>1, <2>3, <2>4, <2>5
  <2>7. \A i, j \in DOMAIN drawn' : i < j =>
          \/ drawn'[i].cmd.layer < drawn'[j].cmd.layer
          \/ drawn'[i].cmd.layer = drawn'[j].cmd.layer /\ place[i] < place[j]
    BY <2>1, <2>3, <2>6 DEF Before
  <2>8. place \in [DOMAIN drawn' -> DOMAIN mDrawCommandBuffer]
    BY <2>1, <2>3, <2>4
  <2> QED
    BY <2>2, <2>6, <2>7, <2>8 DEF DrawnInLayers
<1> QED
  BY <1>7, <1>8, <1>9, <1>10, <1>11, <1>12, <1>13 DEF RendererInv

LEMMA CreateTextureStep == ASSUME RendererInv, CreateTexture PROVE RendererInv'
<1> DEFINE t == NewName(alive)
           rest == alive \ {Ui, mFontStashTexture}
<1>0. /\ IsFiniteSet(alive) /\ Cardinality(alive) \in Nat /\ Cardinality(Textures) \in Nat
      /\ IsFiniteSet(rest) /\ Cardinality(rest) \in Nat
  BY FS_Subset, FS_CardinalityType, RendererAssumption DEF RendererInv, TexturesKept
<1>1. /\ Cardinality(rest) + 2 * (MaxCells + 1) < Cardinality(Textures)
      /\ alive' = alive \cup {t} /\ handles' = handles \cup {t} /\ drawn' = <<>>
      /\ UNCHANGED <<mDrawCommandBuffer, mInPath, mPathBeginPos>>
      /\ UNCHANGED <<mDestroyTextureList, mFontStashTexture>>
  BY DEF CreateTexture, bufferVars
<1>2. t \in Textures /\ t \notin alive
  <2>1. alive # Textures
    <3>1. CASE alive = Textures
      <4>1. Textures \ {Ui, mFontStashTexture} = rest
        BY <3>1
      <4> DEFINE one == rest \cup {Ui}
      <4>2. IsFiniteSet(one) /\ Cardinality(one) <= Cardinality(rest) + 1 /\ Cardinality(one) \in Nat
        <5> HIDE DEF rest
        <5> QED
          BY <1>0, OneMore
      <4> DEFINE two == one \cup {mFontStashTexture}
      <4>3. IsFiniteSet(two) /\ Cardinality(two) <= Cardinality(one) + 1 /\ Cardinality(two) \in Nat
        <5> HIDE DEF one
        <5> QED
          BY <4>2, OneMore
      <4>4. Textures \in SUBSET two
        BY <4>1
      <4> HIDE DEF two, one, rest
      <4>5. Cardinality(Textures) <= Cardinality(two)
        BY <4>3, <4>4, FS_Subset
      <4> QED
        BY <1>0, <1>1, <4>2, <4>3, <4>5, RendererAssumption
    <3> QED
      BY <3>1
  <2>2. alive \subseteq Textures
    BY DEF RendererInv, TexturesKept
  <2>3. \E x \in Textures : x \notin alive
    BY <2>1, <2>2
  <2> QED
    BY <2>3 DEF NewName
<1> HIDE DEF t
<1>3. t # NoTexture /\ t # Ui /\ t # mFontStashTexture
  BY <1>2, RendererAssumption DEF RendererInv, TexturesKept, HeldOnce
<1>4. TexturesKept'
  <2>1. HeldOnce(alive, mDestroyTextureList, mFontStashTexture)'
    BY <1>1, <1>2, <1>3 DEF RendererInv, TexturesKept, HeldOnce
  <2> QED
    BY <1>1, <1>2, <2>1 DEF RendererInv, TexturesKept
<1>5. NamesLeft'
  <2>1. alive' \ {Ui, mFontStashTexture'} = rest \cup {t}
    BY <1>1, <1>3
  <2> HIDE DEF rest
  <2>2. Cardinality(rest \cup {t}) <= Cardinality(rest) + 1 /\ Cardinality(rest \cup {t}) \in Nat
    BY <1>0, OneMore
  <2>3. Cardinality(rest \cup {t}) + 2 * (MaxCells + 1) <= Cardinality(Textures)
    BY <1>0, <1>1, <2>2, RendererAssumption
  <2> QED
    BY <2>1, <2>3 DEF NamesLeft
<1>6. QuadsHeld'
  BY <1>1 DEF RendererInv, QuadsHeld
<1>7. WalkInv' /\ CellsInv' /\ DrawnInv'
  BY <1>1 DEF RendererInv, WalkInv, CellsInv, DrawnInv
<1> QED
  BY <1>4, <1>5, <1>6, <1>7 DEF RendererInv

LEMMA DestroyTextureStep ==
  ASSUME RendererInv, NEW t, DestroyTexture(t) PROVE RendererInv'
<1> DEFINE list == mDestroyTextureList
           d == Append(list, t)
<1>1. /\ t \in handles /\ handles' = handles \ {t}
      /\ mDestroyTextureList' = d /\ drawn' = <<>>
      /\ UNCHANGED <<mDrawCommandBuffer, mInPath, mPathBeginPos, alive, mFontStashTexture>>
  BY DEF DestroyTexture, bufferVars
<1>2. t \in Textures /\ list \in Seq(Textures)
  BY <1>1 DEF RendererInv, TexturesKept, HeldOnce
<1>3. /\ d \in Seq(Textures) /\ Len(d) = Len(list) + 1 /\ Len(list) \in Nat
      /\ \A i \in 1 .. Len(list) : d[i] = list[i]
      /\ d[Len(list) + 1] = t
  BY <1>2, AppendProperties, LenProperties
<1>4. DOMAIN d = 1 .. Len(list) + 1 /\ DOMAIN list = 1 .. Len(list)
  BY <1>2, <1>3, LenProperties
<1>5. Range(d) = Range(list) \cup {t}
  BY <1>2, AppendAny, SeqOfRange
<1> HIDE DEF d, list
<1>6. t \notin Range(list)
  BY <1>1 DEF RendererInv, TexturesKept, HeldOnce, list
<1>7. ASSUME NEW i \in DOMAIN d, NEW j \in DOMAIN d, d[i] = d[j] PROVE i = j
  <2>1. \A k \in DOMAIN list : list[k] # t
    BY <1>6 DEF Range
  <2>2. \A k, l \in DOMAIN list : list[k] = list[l] => k = l
    BY DEF RendererInv, TexturesKept, HeldOnce, list
  <2> QED
    BY <1>3, <1>4, <1>7, <2>1, <2>2
<1>8. handles' \cup Range(d) = handles \cup Range(list)
  BY <1>1, <1>5
<1>9. TexturesKept'
  <2>1. alive = handles \cup Range(list) \cup ({Ui, mFontStashTexture} \ {NoTexture})
    BY DEF RendererInv, TexturesKept, HeldOnce, list
  <2>2. /\ handles \cap Range(list) = {}
        /\ (handles \cup Range(list)) \cap ({Ui, mFontStashTexture} \ {NoTexture}) = {}
        /\ mFontStashTexture # Ui
    BY DEF RendererInv, TexturesKept, HeldOnce, list
  <2>3. handles' \cap Range(d) = {}
    BY <1>1, <1>5, <2>2
  <2>4. HeldOnce(alive, mDestroyTextureList, mFontStashTexture)'
    BY <1>1, <1>7, <1>8, <2>1, <2>2, <2>3 DEF HeldOnce
  <2> QED
    BY <1>1, <1>3, <2>4 DEF RendererInv, TexturesKept
<1>10. NamesLeft'
  BY <1>1 DEF RendererInv, NamesLeft
<1>11. QuadsHeld'
  BY <1>1, <1>8 DEF RendererInv, QuadsHeld, list
<1>12. WalkInv' /\ CellsInv' /\ DrawnInv'
  BY <1>1 DEF RendererInv, WalkInv, CellsInv, DrawnInv
<1> QED
  BY <1>9, <1>10, <1>11, <1>12 DEF RendererInv

LEMMA RendererStep == RendererInv /\ [RendererNext]_rendererVars => RendererInv'
<1> SUFFICES ASSUME RendererInv, [RendererNext]_rendererVars PROVE RendererInv'
  OBVIOUS
\* A drawing command leaves the textures alone and ends the last frame's drawing.
<1>1. ASSUME UNCHANGED textureVars, drawn' = <<>>
      PROVE  TexturesKept' /\ NamesLeft' /\ DrawnInv'
  BY <1>1 DEF RendererInv, TexturesKept, NamesLeft, DrawnInv, HeldOnce, textureVars
<1>2. CASE CreateTexture
  BY <1>2, CreateTextureStep
<1>3. ASSUME NEW t \in Textures, DestroyTexture(t) PROVE RendererInv'
  BY <1>3, DestroyTextureStep
<1>4. ASSUME NEW type \in {"eTexturedQuad", "eRect", "eText"}, NEW t, NEW l \in Layers,
             NEW co, NEW bl, Draw(type, t, l, co, bl)
      PROVE  RendererInv'
  <2>1. QuadsHeld' /\ WalkInv' /\ CellsInv'
    BY <1>4, DrawStep
  <2>2. UNCHANGED textureVars /\ drawn' = <<>>
    BY <1>4 DEF Draw
  <2> QED
    BY <1>1, <2>1, <2>2 DEF RendererInv
<1>5. CASE PathBegin
  <2>1. UNCHANGED textureVars /\ drawn' = <<>>
    BY <1>5 DEF PathBegin
  <2> QED
    BY <1>1, <1>5, <2>1, PathBeginStep DEF RendererInv
<1>6. CASE PathLineTo
  <2>1. UNCHANGED textureVars /\ drawn' = <<>>
    BY <1>6 DEF PathLineTo
  <2> QED
    BY <1>1, <1>6, <2>1, PathLineToStep DEF RendererInv
<1>7. ASSUME NEW l \in Layers, NEW co, NEW bl, PathEnd(l, co, bl) PROVE RendererInv'
  <2>1. UNCHANGED textureVars /\ drawn' = <<>>
    BY <1>7 DEF PathEnd
  <2>2. QuadsHeld' /\ WalkInv' /\ CellsInv'
    BY <1>7, PathEndStep
  <2> QED
    BY <1>1, <2>1, <2>2 DEF RendererInv
<1>8. CASE EndFrame
  BY <1>8, EndFrameStep
<1>9. CASE UNCHANGED rendererVars
  BY <1>9 DEF RendererInv, TexturesKept, NamesLeft, QuadsHeld, WalkInv, CellsInv, DrawnInv, HeldOnce,
     rendererVars, bufferVars, textureVars
<1> QED
  BY <1>2, <1>3, <1>4, <1>5, <1>6, <1>7, <1>8, <1>9 DEF RendererNext

\* Every texture of GL is held by somebody or waits for the end of the frame,
\* once, whatever is drawn, given up and replaced in the frames (CreateTexture,
\* DestroyTexture, FontStashRenderUpdate).
THEOREM TexturesAccounted == RendererSpec => []NoTextureLeaks
<1>1. RendererInv => NoTextureLeaks
  BY DEF RendererInv, TexturesKept, NoTextureLeaks
<1> QED
  BY <1>1, RendererStart, RendererStep, PTL DEF RendererSpec

\* Every frame can be walked to its end, and what it draws is drawn in the
\* wanted coordinates with the wanted and living textures, whatever commands
\* come before it (generateImGuiCommands).
THEOREM FramesAsAsked == RendererSpec => []DrawnAsAsked
<1>1. RendererInv => DrawnAsAsked
  <2> SUFFICES ASSUME RendererInv PROVE DrawnAsAsked
    OBVIOUS
  <2>1. WalkEnds
    BY FrameIsReady DEF WalkEnds, Walked
  <2>2. DrawsLiveTextures
    BY DEF RendererInv, DrawnInv, DrawsLiveTextures
  <2> QED
    BY <2>1, <2>2 DEF RendererInv, DrawnInv, DrawnAsAsked
<1> QED
  BY <1>1, RendererStart, RendererStep, PTL DEF RendererSpec

\* A frame draws every command of the program once, by layers and in a layer in
\* the order of the calls (EndFrame's walk and stable_sort).
THEOREM LayersInOrder == RendererSpec => LayersDecideOrder
<1>1. RendererInv /\ [RendererNext]_rendererVars =>
        [mDrawCommandBuffer' = <<>> /\ mDrawCommandBuffer # <<>> =>
           DrawnInLayers(mDrawCommandBuffer, drawn')]_rendererVars
  <2> SUFFICES ASSUME RendererInv, [RendererNext]_rendererVars,
                      mDrawCommandBuffer' = <<>>, mDrawCommandBuffer # <<>>
               PROVE  DrawnInLayers(mDrawCommandBuffer, drawn')
    OBVIOUS
  <2>1. ASSUME NEW cell PROVE mDrawCommandBuffer' # Append(mDrawCommandBuffer, cell)
    <3>1. Len(Append(mDrawCommandBuffer, cell)) = Len(mDrawCommandBuffer) + 1 /\ Len(mDrawCommandBuffer) \in Nat
      BY CellsGrow DEF RendererInv
    <3>2. Len(<<>>) = 0
      OBVIOUS
    <3> QED
      BY <3>1, <3>2
  <2>2. EndFrame
    <3>1. ASSUME NEW type, NEW t, NEW l, NEW co, NEW bl, Draw(type, t, l, co, bl) PROVE FALSE
      BY <2>1, <3>1 DEF Draw
    <3>2. ~PathBegin /\ ~PathLineTo
      BY <2>1 DEF PathBegin, PathLineTo
    <3>3. ASSUME NEW l, NEW co, NEW bl, PathEnd(l, co, bl) PROVE FALSE
      <4>1. DOMAIN mDrawCommandBuffer' = DOMAIN mDrawCommandBuffer /\ mPathBeginPos \in DOMAIN mDrawCommandBuffer
        BY <3>3, LenProperties DEF PathEnd, RendererInv, WalkInv
      <4>2. DOMAIN <<>> = {}
        OBVIOUS
      <4> QED
        BY <4>1, <4>2
    <3>4. ~CreateTexture /\ \A t : ~DestroyTexture(t)
      BY DEF CreateTexture, DestroyTexture, bufferVars
    <3>5. ~UNCHANGED rendererVars
      BY DEF rendererVars, bufferVars
    <3> QED
      BY <3>1, <3>2, <3>3, <3>4, <3>5 DEF RendererNext
  <2> QED
    BY <2>2, EndFrameStep
<1> QED
  BY <1>1, RendererStart, RendererStep, PTL DEF RendererSpec, LayersDecideOrder
====
