--------------------------- MODULE ClientListing ----------------------------
(***************************************************************************)
(* Entity discovery and the entity registry of the client (client.go,      *)
(* entities.go) against a device session (simulator/simulator.go, its      *)
(* duplicate-completion fault included).  ListEntities responses carry no  *)
(* request ID: the descriptors that arrive while a listing is pending are  *)
(* its result, and the first completion ends it.  Unlike an exchange, a    *)
(* listing that times out leaves the connection open.                      *)
(*                                                                         *)
(* The frames between device and dispatcher (transport, read buffer and    *)
(* callback queue) are one FIFO; its bound is the subject of               *)
(* ClientDispatch.                                                         *)
(***************************************************************************)
EXTENDS Shutdown, Naturals, Sequences, SequencesExt

CONSTANTS
    Listers,        \* activations of ListEntitiesWithTimeout
    EntityList,     \* the device's entities, in declaration order
    Values,         \* entity states other than the zero value
    Zero,           \* the zero value of an entity's state
    Scenarios,      \* duplicate-entities-done faults of a scenario, by trigger
    MaxPushes,      \* bound: state changes of the device
    None

Triggers == {"afterHello", "beforeEntitiesDone", "afterInitialStates"}

ASSUME ListingAssumption ==
    /\ EntityList \in Seq(Range(EntityList)) /\ EntityList # <<>>
    /\ \A i, j \in DOMAIN EntityList : EntityList[i] = EntityList[j] => i = j
    /\ Zero \notin Values
    /\ None \notin Listers
    /\ Scenarios \subseteq [Triggers -> Nat]
    /\ MaxPushes \in Nat

Keys == Range(EntityList)

VARIABLES
    pc,          \* where each lister is
    result,      \* what it returned
    collected,   \* pending.messages of each lister
    completed,   \* pending.done is closed
    list,        \* Client.list: the pending listing
    subscription,\* progress of the client's SubscribeStates
    registry,    \* EntityRegistry: the known keys and their states
    requests,    \* client-to-device FIFO
    faults,      \* the number of those faults at each trigger
    trigger,     \* the trigger between requests that the session is at, or None
    script,      \* frames of a listing or a fault the device session is sending
    subscribed,  \* deviceSession.states
    current,     \* the device's state of each entity
    pushes,      \* number of state changes so far
    frames,      \* device-to-dispatcher FIFO
    fresh        \* history: keys whose last dispatched frame is a state

listVars == <<pc, result, collected, completed, list>>
deviceVars == <<faults, trigger, script, subscribed, current, pushes>>
vars == <<connVars, listVars, subscription, registry, requests, deviceVars,
          frames, fresh>>

States == Values \cup {Zero}

Descriptor(k) == [kind |-> "descriptor", key |-> k, val |-> Zero]
StateOf(k, v) == [kind |-> "state", key |-> k, val |-> v]
Done == [kind |-> "done", key |-> None, val |-> Zero]

Init ==
    /\ OpenConnection("none")
    /\ pc = [l \in Listers |-> "idle"]
    /\ result = [l \in Listers |-> "none"]
    /\ collected = [l \in Listers |-> <<>>]
    /\ completed = [l \in Listers |-> FALSE]
    /\ list = None
    /\ subscription = "off"
    /\ registry = [k \in {} |-> Zero]
    /\ requests = <<>>
    /\ faults \in Scenarios
    /\ trigger = "afterHello"
    /\ script = <<>>
    /\ subscribed = FALSE
    /\ current \in [Keys -> States]
    /\ pushes = 0
    /\ frames = <<>>
    /\ fresh = {}

-----------------------------------------------------------------------------
(* ListEntitiesWithTimeout.                                                *)

Step(l, label) == pc' = [pc EXCEPT ![l] = label]

\* Mutant: a second listing replaces the pending one.
InstallOver(l) ==
    /\ pc[l] = "idle"
    /\ list' = l
    /\ Step(l, "send")
    /\ UNCHANGED <<connVars, result, collected, completed, subscription,
                   registry, requests, deviceVars, frames, fresh>>

Install(l) ==
    /\ pc[l] = "idle"
    /\ IF list # None
       THEN /\ pc' = [pc EXCEPT ![l] = "returned"]
            /\ result' = [result EXCEPT ![l] = "busy"]
            /\ UNCHANGED list
       ELSE /\ list' = l
            /\ Step(l, "send")
            /\ UNCHANGED result
    /\ UNCHANGED <<connVars, collected, completed, subscription, registry,
                   requests, deviceVars, frames, fresh>>

SendRequest(l) ==
    /\ pc[l] = "send"
    /\ IF FramerClosed
       THEN /\ Step(l, "cleanup")
            /\ result' = [result EXCEPT ![l] = "sendErr"]
            /\ UNCHANGED requests
       ELSE /\ Step(l, "await")
            /\ requests' = Append(requests, "list")
            /\ UNCHANGED result
    /\ UNCHANGED <<connVars, collected, completed, list, subscription, registry,
                   deviceVars, frames, fresh>>

\* The select on pending.done, the timer and the client's done.
Await(l) ==
    /\ pc[l] = "await"
    /\ \E r \in {"ok", "timeout", "closed"} :
          /\ r = "ok" => completed[l]
          /\ r = "closed" => phase = "done"
          /\ result' = [result EXCEPT ![l] = r]
    /\ Step(l, "cleanup")
    /\ UNCHANGED <<connVars, collected, completed, list, subscription, registry,
                   requests, deviceVars, frames, fresh>>

\* The deferred function clears the pending listing if it is this one.
Cleanup(l) ==
    /\ pc[l] = "cleanup"
    /\ list' = IF list = l THEN None ELSE list
    /\ Step(l, "returned")
    /\ UNCHANGED <<connVars, result, collected, completed, subscription,
                   registry, requests, deviceVars, frames, fresh>>

ListEntities(l) == Install(l) \/ SendRequest(l) \/ Await(l) \/ Cleanup(l)

SubscribeStates ==
    /\ subscription = "off"
    /\ ~FramerClosed
    /\ subscription' = "on"
    /\ requests' = Append(requests, "subscribe")
    /\ UNCHANGED <<connVars, listVars, registry, deviceVars, frames, fresh>>

-----------------------------------------------------------------------------
(* The device session: requests are served one at a time, in order; a      *)
(* state change of a subscribed session is sent in between.                *)

\* triggerFault: every duplicate-entities-done fault of the trigger sends two
\* completions, while a listing may be pending or none.
DeviceTrigger ==
    /\ trigger # None /\ script = <<>>
    /\ script' = [i \in 1..(2 * faults[trigger]) |-> Done]
    /\ trigger' = None
    /\ UNCHANGED <<connVars, listVars, subscription, registry, requests, faults,
                   subscribed, current, pushes, frames, fresh>>

\* The completions of the faults come before the normal one.
ListingFrames ==
    [i \in 1..(Len(EntityList) + 2 * faults["beforeEntitiesDone"] + 1) |->
        IF i <= Len(EntityList) THEN Descriptor(EntityList[i]) ELSE Done]

DeviceServe ==
    /\ trigger = None /\ script = <<>>
    /\ requests # <<>>
    /\ requests' = Tail(requests)
    /\ IF Head(requests) = "list"
       THEN script' = ListingFrames /\ UNCHANGED <<trigger, subscribed, frames>>
       ELSE /\ subscribed' = TRUE
            /\ frames' = frames \o
                  [i \in 1..Len(EntityList) |->
                      StateOf(EntityList[i], current[EntityList[i]])]
            /\ trigger' = "afterInitialStates"
            /\ UNCHANGED script
    /\ UNCHANGED <<connVars, listVars, subscription, registry, faults, current,
                   pushes, fresh>>

DeviceSend ==
    /\ script # <<>>
    /\ frames' = Append(frames, Head(script))
    /\ script' = Tail(script)
    /\ UNCHANGED <<connVars, listVars, subscription, registry, requests, faults,
                   trigger, subscribed, current, pushes, fresh>>

\* A state change that is sent to the subscribers; those that are not, a state
\* no frame has room for and another session's command, are in DeviceState.
DevicePush ==
    /\ pushes < MaxPushes
    /\ pushes' = pushes + 1
    /\ \E k \in Keys, v \in States :
          /\ current' = [current EXCEPT ![k] = v]
          /\ frames' = IF subscribed THEN Append(frames, StateOf(k, v)) ELSE frames
    /\ UNCHANGED <<connVars, listVars, subscription, registry, requests,
                   faults, trigger, script, subscribed, fresh>>

\* Nothing the session sends is read once the client's framer is closed.
Device == ~FramerClosed /\ (DeviceTrigger \/ DeviceServe \/ DeviceSend \/ DevicePush)

-----------------------------------------------------------------------------
(* dispatchLoop: entities.handle, then handleList.                         *)

\* The registry with a fresh entity of key k, which replaces an older one.
Registered(k) ==
    [j \in DOMAIN registry \cup {k} |-> IF j = k THEN Zero ELSE registry[j]]

\* Mutant: the zero value is taken for "no state" and ignored.
HandleNonZero(m) ==
    CASE m.kind = "descriptor" -> Registered(m.key)
      [] m.kind = "state" -> IF m.key \in DOMAIN registry /\ m.val # Zero
                             THEN [registry EXCEPT ![m.key] = m.val]
                             ELSE registry
      [] OTHER -> registry

\* Mutant: descriptors are registered for a pending listing only.
HandleWhilePending(m) ==
    CASE m.kind = "descriptor" /\ list # None -> Registered(m.key)
      [] m.kind = "state" -> IF m.key \in DOMAIN registry
                             THEN [registry EXCEPT ![m.key] = m.val]
                             ELSE registry
      [] OTHER -> registry

\* EntityRegistry.handle: a descriptor replaces the entity, a state message
\* updates a known one.
Handle(m) ==
    CASE m.kind = "descriptor" -> Registered(m.key)
      [] m.kind = "state" -> IF m.key \in DOMAIN registry
                             THEN [registry EXCEPT ![m.key] = m.val]
                             ELSE registry
      [] OTHER -> registry

HandleList(m) ==
    IF list = None THEN UNCHANGED <<list, collected, completed>>
    ELSE CASE m.kind = "done" ->
                /\ completed' = [completed EXCEPT ![list] = TRUE]
                /\ list' = None
                /\ UNCHANGED collected
           [] m.kind = "descriptor" ->
                /\ collected' = [collected EXCEPT ![list] = Append(@, m.key)]
                /\ UNCHANGED <<list, completed>>
           [] OTHER -> UNCHANGED <<list, collected, completed>>

\* History: the keys whose last frame is a state, once m is dispatched.
Refreshed(m) ==
    CASE m.kind = "state" -> fresh \cup {m.key}
      [] m.kind = "descriptor" -> fresh \ {m.key}
      [] OTHER -> fresh

\* Mutant: completions bypass the queue, as ping responses do.
DispatchDoneFirst ==
    /\ phase # "done"
    /\ \E i \in DOMAIN frames :
          /\ i = 1 \/ frames[i] = Done
          /\ frames' = RemoveAt(frames, i)
          /\ registry' = Handle(frames[i])
          /\ HandleList(frames[i])
          /\ fresh' = Refreshed(frames[i])
    /\ UNCHANGED <<connVars, pc, result, subscription, requests, deviceVars>>

Dispatch ==
    /\ phase # "done"
    /\ frames # <<>>
    /\ frames' = Tail(frames)
    /\ LET m == Head(frames) IN
          /\ registry' = Handle(m)
          /\ HandleList(m)
          /\ fresh' = Refreshed(m)
    /\ UNCHANGED <<connVars, pc, result, subscription, requests, deviceVars>>

-----------------------------------------------------------------------------
Close ==
    /\ phase = "open"
    /\ EnterShutdown("close")
    /\ UNCHANGED <<listVars, subscription, registry, requests, deviceVars,
                   frames, fresh>>

CloseStep ==
    /\ CloseBody
    /\ UNCHANGED <<listVars, subscription, registry, requests, deviceVars,
                   frames, fresh>>

Terminated ==
    /\ phase = "done"
    /\ \A l \in Listers : pc[l] = "returned"
    /\ UNCHANGED vars

Next ==
    \/ \E l \in Listers : ListEntities(l)
    \/ SubscribeStates
    \/ Device
    \/ Dispatch
    \/ Close
    \/ CloseStep
    \/ Terminated

Spec == Init /\ [][Next]_vars

-----------------------------------------------------------------------------
(* Properties.                                                             *)

\* The types of the listers', the registry's and the device's state.
TypeOK ==
    /\ phase \in Phases /\ reason \in {"none", "close"}
    /\ pc \in [Listers -> {"idle", "send", "await", "cleanup", "returned"}]
    /\ result \in [Listers -> {"none", "busy", "sendErr", "ok", "timeout", "closed"}]
    /\ collected \in [Listers -> Seq(Keys)]
    /\ completed \in [Listers -> BOOLEAN]
    /\ list \in Listers \cup {None}
    /\ subscription \in {"off", "on"}
    /\ DOMAIN registry \subseteq Keys /\ Range(registry) \subseteq States
    /\ requests \in Seq({"list", "subscribe"})
    /\ faults \in Scenarios
    /\ trigger \in {"afterHello", "afterInitialStates", None}
    /\ subscribed \in BOOLEAN
    /\ current \in [Keys -> States]
    /\ pushes \in 0..MaxPushes
    /\ fresh \subseteq Keys

\* Without a duplicated completion, a listing on a connection where no
\* listing timed out returns exactly the device's descriptors, whatever
\* states stream in between and whoever else asks for a listing.
CleanListingComplete ==
    \A l \in Listers :
        /\ result[l] = "ok"
        /\ \A t \in Triggers : faults[t] = 0
        /\ \A m \in Listers : result[m] # "timeout"
        => collected[l] = EntityList

\* Even a listing completed by another listing's frames, or by a fault's, is a
\* run of the declaration order up to its end or empty: nothing is repeated,
\* reordered or made up.
ListingIsSuffix ==
    \A l \in Listers : result[l] = "ok" => IsSuffix(collected[l], EntityList)

\* No completion comes outside a listing: the scenario has no fault that sends
\* one after the Hello or after the initial states.
NoStray == faults["afterHello"] = 0 /\ faults["afterInitialStates"] = 0

\* Where completions come from listings only, a completed listing, even a
\* truncated one, leaves every entity of the device in the registry.  A stray
\* completion may complete one before any descriptor has come.
RegistryComplete ==
    NoStray /\ (\E l \in Listers : completed[l]) => DOMAIN registry = Keys

\* Once the states on the way are dispatched, a known entity whose last frame
\* was a state holds the device's current one: no state of the subscription is
\* missed, applied out of order or to another entity.  (An entity that was
\* listed again holds the zero value until its next state.)
RegistryTracksDevice ==
    \A k \in fresh \cap DOMAIN registry :
        (\A i \in DOMAIN frames : frames[i].kind = "state" => frames[i].key # k)
            => registry[k] = current[k]

\* What the reuse of a client after a timed-out listing needs: a listing that
\* succeeds returns the device's descriptors.
ListingComplete ==
    \A l \in Listers : result[l] = "ok" => collected[l] = EntityList
=============================================================================
