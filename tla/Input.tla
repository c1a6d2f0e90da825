------------------------------- MODULE Input -------------------------------
(***************************************************************************)
(* InputState, InputMapping and Actions (include/input.hpp,                *)
(* src/input.cpp): keys and the buttons of game controllers become the     *)
(* actions the game scripts ask for.  The engine polls the events of SDL   *)
(* one after another and calls Update when there are none left.            *)
(*                                                                         *)
(* SDL is external: it keeps the list of the attached controllers, whose   *)
(* position is the device index, gives every controller that is plugged in *)
(* a new instance id, and queues an event for each change.  ADDED events   *)
(* carry the index, all others the id.                                     *)
(***************************************************************************)
EXTENDS Naturals, Sequences, FiniteSets, SequencesExt

CONSTANTS
  Acts,                \* actions
  Keys, KeyConfig,     \* mKeyBoardConfig: how many of which keys
  Buttons, PadConfig,  \* mGamePadConfig
  AtStart,             \* how many controllers are there before the program
  MaxId, MaxQueue      \* bounds: instance ids, events not yet polled

ASSUME InputAssumption ==
  /\ DOMAIN KeyConfig = Acts /\ DOMAIN PadConfig \subseteq Acts
  /\ \A a \in Acts : KeyConfig[a].of \subseteq Keys /\ IsFiniteSet(KeyConfig[a].of) /\ KeyConfig[a].n \in Nat \ {0}
  /\ \A a \in DOMAIN PadConfig :
       PadConfig[a].of \subseteq Buttons /\ IsFiniteSet(PadConfig[a].of) /\ PadConfig[a].n \in Nat \ {0}
  /\ MaxId \in Nat /\ MaxQueue \in Nat /\ AtStart \in 0 .. MaxId

VARIABLES
  keysHeld, attached, padHeld, nextId,   \* the devices: padHeld of every id
  events,
  mKeys,          \* the keys whose mRawDownState is set
  mControllers,   \* the buttons whose mRawDownState is set, of every known id
  mIsPressed, mIsReleased, mIsDown,      \* Actions, as sets
  oddFrame                               \* tells a frame from the one before

deviceVars == <<keysHeld, attached, padHeld, nextId>>
actionVars == <<mIsPressed, mIsReleased, mIsDown, oddFrame>>
inputVars == <<deviceVars, events, mKeys, mControllers, actionVars>>

-----------------------------------------------------------------------------
(* SDL and the player *)

Queued(e) == Len(events) < MaxQueue /\ events' = Append(events, e)

PressKey(k) ==
  /\ keysHeld' = IF k \in keysHeld THEN keysHeld \ {k} ELSE keysHeld \cup {k}
  /\ Queued([type |-> "key", key |-> k, down |-> k \notin keysHeld])
  /\ UNCHANGED <<attached, padHeld, nextId, mKeys, mControllers, actionVars>>

PressButton(id, b) ==
  /\ id \in Range(attached)
  /\ padHeld' = [padHeld EXCEPT ![id] = IF b \in @ THEN @ \ {b} ELSE @ \cup {b}]
  /\ Queued([type |-> "button", id |-> id, button |-> b, down |-> b \notin padHeld[id]])
  /\ UNCHANGED <<keysHeld, attached, nextId, mKeys, mControllers, actionVars>>

Plug ==
  /\ nextId < MaxId
  /\ attached' = Append(attached, nextId) /\ nextId' = nextId + 1
  /\ Queued([type |-> "added", index |-> Len(attached)])
  /\ UNCHANGED <<keysHeld, padHeld, mKeys, mControllers, actionVars>>

Unplug(place) ==
  /\ place \in DOMAIN attached
  /\ attached' = RemoveAt(attached, place)
  /\ padHeld' = [padHeld EXCEPT ![attached[place]] = {}]
  /\ Queued([type |-> "removed", id |-> attached[place]])
  /\ UNCHANGED <<keysHeld, nextId, mKeys, mControllers, actionVars>>

-----------------------------------------------------------------------------
(* The events, as Engine::Update hands them on *)

Polled(type) == events # <<>> /\ Head(events).type = type /\ events' = Tail(events)

Toggled(set, x, on) == IF on THEN set \cup {x} ELSE set \ {x}

OnKeyEvent ==
  /\ Polled("key")
  /\ mKeys' = Toggled(mKeys, Head(events).key, Head(events).down)
  /\ UNCHANGED <<deviceVars, mControllers, actionVars>>

OnControllerButton ==
  /\ Polled("button")
  /\ LET e == Head(events)
     IN mControllers' = [id \in DOMAIN mControllers |->
          IF id = e.id THEN Toggled(mControllers[id], e.button, e.down) ELSE mControllers[id]]
  /\ UNCHANGED <<deviceVars, mKeys, actionVars>>

\* AddController(i): the controller is new to the program, whatever is known of it.
Opened(controllers, index) ==
  IF index < Len(attached)
    THEN [id \in DOMAIN controllers \cup {attached[index + 1]} |->
           IF id = attached[index + 1] THEN {} ELSE controllers[id]]
    ELSE controllers

AddController ==
  /\ Polled("added")
  /\ LET index == Head(events).index
     IN mControllers' = IF index \in DOMAIN mControllers
                          THEN mControllers ELSE Opened(mControllers, index)
  /\ UNCHANGED <<deviceVars, mKeys, actionVars>>

\* Mutant: the index of the event is not one of the list any more.
RemoveControllerByIndex ==
  /\ Polled("removed")
  /\ mControllers' = [id \in DOMAIN mControllers \ {Len(attached)} |-> mControllers[id]]
  /\ UNCHANGED <<deviceVars, mKeys, actionVars>>

RemoveController ==
  /\ Polled("removed")
  /\ mControllers' = [id \in DOMAIN mControllers \ {Head(events).id} |-> mControllers[id]]
  /\ UNCHANGED <<deviceVars, mKeys, actionVars>>

-----------------------------------------------------------------------------
(* InputState::Update *)

Holds(config, down) == Cardinality(config.of \cap down) >= config.n

ActiveController ==
  CHOOSE id \in DOMAIN mControllers : \A other \in DOMAIN mControllers : id <= other

\* Mutant: the buttons of all controllers are counted together.
RawDownOfAllControllers ==
  {a \in Acts :
     \/ Holds(KeyConfig[a], mKeys)
     \/ a \in DOMAIN PadConfig /\ Holds(PadConfig[a], UNION Range(mControllers))}

\* The keyboard, and the first controller for what the keyboard does not do.
RawDown ==
  {a \in Acts :
     \/ Holds(KeyConfig[a], mKeys)
     \/ /\ DOMAIN mControllers # {} /\ a \in DOMAIN PadConfig
        /\ Holds(PadConfig[a], mControllers[ActiveController])}

\* Mutant: a held action is still pressed in the frames that follow.
UpdateStillPressed ==
  /\ events = <<>>
  /\ mIsPressed' = RawDown /\ mIsReleased' = mIsDown \ RawDown /\ mIsDown' = RawDown
  /\ oddFrame' = ~oddFrame
  /\ UNCHANGED <<deviceVars, events, mKeys, mControllers>>

\* UpdateStateInputItemGeneric for every action.
Update ==
  /\ events = <<>>
  /\ LET raw == RawDown
         fresh == {a \in raw : a \notin mIsPressed /\ a \notin mIsDown}
         again == {a \in raw : a \in mIsDown}
     IN /\ mIsPressed' = ((mIsPressed \cup fresh) \ again) \cap raw
        /\ mIsReleased' = {a \in Acts \ raw : a \in mIsPressed \cup mIsDown}
                            \cup ((mIsReleased \cap raw) \ (fresh \cup again))
        /\ mIsDown' = (mIsDown \cup fresh) \cap raw
  /\ oddFrame' = ~oddFrame
  /\ UNCHANGED <<deviceVars, events, mKeys, mControllers>>

-----------------------------------------------------------------------------
InputInit ==
  /\ keysHeld = {} /\ padHeld = [id \in 0 .. MaxId - 1 |-> {}]
  /\ attached = [i \in 1 .. AtStart |-> i - 1] /\ nextId = AtStart
  \* AddControllers has opened those that SDL announces as well.
  /\ events = [i \in 1 .. AtStart |-> [type |-> "added", index |-> i - 1]]
  /\ mKeys = {} /\ mControllers = [id \in 0 .. AtStart - 1 |-> {}]
  /\ mIsPressed = {} /\ mIsReleased = {} /\ mIsDown = {} /\ oddFrame = FALSE

InputNext ==
  \/ \E k \in Keys : PressKey(k)
  \/ \E id \in 0 .. MaxId - 1, b \in Buttons : PressButton(id, b)
  \/ Plug
  \/ \E place \in 1 .. MaxId : Unplug(place)
  \/ OnKeyEvent \/ OnControllerButton \/ AddController \/ RemoveController
  \/ Update

InputSpec == InputInit /\ [][InputNext]_inputVars

-----------------------------------------------------------------------------
(* Properties *)

Events ==
  [type : {"key"}, key : Keys, down : BOOLEAN]
    \cup [type : {"button"}, id : 0 .. MaxId - 1, button : Buttons, down : BOOLEAN]
    \cup [type : {"added"}, index : Nat] \cup [type : {"removed"}, id : 0 .. MaxId - 1]

InputTypeOK ==
  /\ attached \in Seq(0 .. MaxId - 1) /\ padHeld \in [0 .. MaxId - 1 -> SUBSET Buttons]
  /\ keysHeld \subseteq Keys /\ nextId \in 0 .. MaxId /\ events \in Seq(Events)
  /\ mKeys \subseteq Keys
  /\ DOMAIN mControllers \subseteq 0 .. MaxId - 1
  /\ mControllers \in [DOMAIN mControllers -> SUBSET Buttons]
  /\ mIsPressed \cup mIsReleased \cup mIsDown \subseteq Acts /\ oddFrame \in BOOLEAN

(* An action is pressed in the first frame it is held and released in the    *)
(* first frame it is not, each once, also when the controller takes over     *)
(* from the keyboard or is unplugged (UpdateStateInputItemGeneric).          *)
EdgesMatchHold ==
  [][/\ mIsPressed' = mIsDown' \ mIsDown
     /\ mIsReleased' = mIsDown \ mIsDown']_actionVars

(* What a frame finds held is held by somebody: enough keys of the keyboard  *)
(* or enough buttons of one controller are down when all events are polled;  *)
(* nothing stays held by a key that went up or a controller that is gone.    *)
HeldIsReal ==
  [][\A a \in mIsDown' :
       \/ Holds(KeyConfig[a], keysHeld)
       \/ \E id \in Range(attached) : a \in DOMAIN PadConfig /\ Holds(PadConfig[a], padHeld[id])
    ]_actionVars

(* An action is held by somebody in every frame of its one press and release *)
(* (UpdateStateInputItemGeneric).                                            *)
ActionsFollowDevices == EdgesMatchHold /\ HeldIsReal

(* When all events are polled every controller the program keeps open is     *)
(* still attached, whichever the stale device indices have opened            *)
(* (InputState::AddController, RemoveController).                            *)
NoDanglingController == events = <<>> => DOMAIN mControllers \subseteq Range(attached)

(* A controller that is announced is only passed over as already added       *)
(* (input.hpp:287) when it has been added.                                   *)
AttachedAreKnown == events = <<>> => Range(attached) \subseteq DOMAIN mControllers
=============================================================================
