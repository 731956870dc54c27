---------------------------- MODULE Interceptors ----------------------------
(***************************************************************************)
(* Interceptors that own one another (interceptor.ts, disposable.ts,        *)
(* batch-interceptor.ts, utils/patches-registry.ts and                      *)
(* interceptors/http/forward-events.ts).                                    *)
(*                                                                          *)
(* An interceptor is set up when its first owner applies it and undone when *)
(* its last owner disposes of it.  Setting one up may apply others (a batch *)
(* its children, the Node.js interceptors the HTTP source they share) and   *)
(* replace globals, and may fail half-way.  Events travel the other way:    *)
(* from the source to the interceptors forwarding them, from these to the   *)
(* batches with a bridge on them, to the listeners of users.                *)
(*                                                                          *)
(* All calls are synchronous.  stack holds the setups and disposals in      *)
(* progress, the innermost last; users act when it is empty.  One type of   *)
(* event is modelled, of those a listener is forwarded lazily ("response",  *)
(* "unhandledException").                                                   *)
(***************************************************************************)
EXTENDS Integers, SequencesExt

CONSTANTS
  Interceptor,
  Batch,         \* the batch interceptors
  Source,        \* the interceptor whose events others forward
  Unsupported,   \* the interceptors whose predicate() is false
  Key,           \* the globals that get replaced
  Setup,         \* what setup() of each interceptor does, in order
  Event,
  MaxListeners,  \* bound on the listeners users have on each interceptor
  None

\* The steps of a setup().  The keys of one step are replaced by the arguments
\* of one subscriptions.push().
Step == [do: {"apply"}, child: Interceptor] \cup [do: {"patch"}, keys: Seq(Key) \ {<<>>}]
        \cup [do: {"forward", "bridge"}]

ChildrenOf(x) == {Setup[x][i].child : i \in {j \in DOMAIN Setup[x] : Setup[x][j].do = "apply"}}
Forwards(x) == \E i \in DOMAIN Setup[x] : Setup[x][i].do = "forward"

ASSUME InterceptorsAssumption ==
  /\ Batch \subseteq Interceptor /\ Unsupported \subseteq Interceptor \ Batch
  /\ Source \in Interceptor \ Batch /\ ~Forwards(Source)
  /\ None \notin Interceptor
  /\ MaxListeners \in [Interceptor -> Nat] /\ MaxListeners[Source] = 0

ASSUME SetupAssumption ==
  /\ Setup \in [Interceptor -> Seq(Step)]
  \* A batch holds a bridge, and children that are not batches.
  /\ \A b \in Batch : /\ Setup[b] # <<>> /\ Setup[b][1].do = "bridge"
                      /\ \A i \in 2..Len(Setup[b]) : Setup[b][i].do = "apply"
                      /\ ChildrenOf(b) \cap (Batch \cup {Source}) = {}
  /\ \A x \in Interceptor \ Batch : \A i \in DOMAIN Setup[x] : Setup[x][i].do # "bridge"
  /\ \A x \in Interceptor : Forwards(x) => Source \in ChildrenOf(x)
  \* Each child is applied once, and none applies its parents: a batch applies
  \* interceptors, these the HTTP source, and this one the socket interceptor.
  /\ \A x \in Interceptor : \A i, j \in DOMAIN Setup[x] :
       Setup[x][i].do = "apply" /\ Setup[x][j].do = "apply" /\ i # j =>
         Setup[x][i].child # Setup[x][j].child
  /\ \E layer \in [Interceptor -> 0..3] :
       \A x \in Interceptor : \A c \in ChildrenOf(x) : layer[c] < layer[x]

Groups ==
  UNION {{Setup[x][i].keys : i \in {j \in DOMAIN Setup[x] : Setup[x][j].do = "patch"}} :
    x \in Interceptor}

\* The keys that are replaced together are replaced together by all: where the
\* first can be replaced, so can the others.
ASSUME GroupsAssumption ==
  \A keys \in Groups :
    /\ \A m, n \in DOMAIN keys : m # n => keys[m] # keys[n]
    /\ \A others \in Groups : \A m \in 2..Len(keys), n \in DOMAIN others :
         keys[m] = others[n] => n # 1 /\ keys[1] = others[1]

VARIABLES
  owners,         \* #owners of each interceptor
  readyState,
  subscriptions,  \* what dispose() will undo, last first
  replaced,       \* who replaced a global (PatchesRegistry.#replacements)
  stack,          \* the setup() and dispose() calls in progress
  listeners,      \* how many listeners of users each interceptor has
  relays,         \* the batches and forwarders listening to each interceptor
  bridged,        \* the batches with an entry in #eventBridges
  forwarding,     \* the interceptors whose forwardHttpEvents() is in effect
  forwardedEvents,  \* #forwardedEvents of each batch
  delivered,      \* who the source has already emitted an event to
  heard,          \* history: how often the listeners of a batch heard an event
  before          \* history: what interception was like when the call began

lifecycleVars == <<owners, readyState, subscriptions, replaced, stack>>
eventVars == <<listeners, relays, bridged, forwarding>>
deliveryVars == <<forwardedEvents, delivered, heard>>
vars == <<lifecycleVars, eventVars, deliveryVars, before>>

Public == Interceptor \ {Source}
Idle == stack = <<>>
Active(x) == readyState[x] = "ACTIVE"

Subscription ==
  [undo: {"dispose"}, child: Interceptor] \cup [undo: {"patch"}, key: Key]
  \cup [undo: {"forward", "bridge"}]

\* A setup() is at one of its steps, having replaced some of that step's keys;
\* a disposal that undoes a failed setup() throws its error again.
Frame ==
  [op: {"setup"}, of: Interceptor, owner: Interceptor, at: Nat, held: Seq(Key)]
  \cup [op: {"dispose"}, of: Interceptor, rethrows: BOOLEAN]

TypeOK ==
  /\ owners \in [Interceptor -> SUBSET Interceptor]
  /\ readyState \in [Interceptor -> {"INACTIVE", "ACTIVE", "DISPOSED"}]
  /\ subscriptions \in [Interceptor -> Seq(Subscription)]
  /\ replaced \in [Key -> Interceptor \cup {None}]
  /\ stack \in Seq(Frame)
  /\ listeners \in [Interceptor -> Nat]
  /\ \A x \in Interceptor : listeners[x] <= MaxListeners[x]
  /\ relays \in [Interceptor -> SUBSET Interceptor]
  /\ bridged \subseteq Batch
  /\ forwarding \subseteq Interceptor
  /\ forwardedEvents \in [Batch -> SUBSET Event]
  /\ delivered \in [Event -> SUBSET Interceptor]
  /\ heard \in [Batch -> [Event -> 0..2]]
  /\ before \in {None} \cup [owners: [Interceptor -> SUBSET Interceptor],
                            active: SUBSET Interceptor,
                            replaced: [Key -> Interceptor \cup {None}]]

-----------------------------------------------------------------------------
(* Listeners.  A listener added to or removed from an interceptor that       *)
(* forwards events makes it listen to the source, or stop.                   *)

HasListeners(x, counts, on) == counts[x] > 0 \/ on[x] # {}

\* The newListener hook of forwardHttpEvents().
ListenToSource(on, xs) == [on EXCEPT ![Source] = @ \cup (xs \cap forwarding)]

\* Its removeListener hook: only when the last listener is gone.
LeaveSource(on, xs, counts) ==
  [on EXCEPT ![Source] = @ \ {x \in xs \cap forwarding : ~HasListeners(x, counts, on)}]

BridgedTo(on, b) ==
  [x \in Interceptor |-> IF x \in ChildrenOf(b) THEN on[x] \cup {b} ELSE on[x]]

\* #removeEventBridge(): the batch no longer listens to its children.
Unbridged(on, b) == [x \in Interceptor |-> IF b \in bridged THEN on[x] \ {b} ELSE on[x]]

RemoveBridge(b, counts) ==
  /\ bridged' = bridged \ {b}
  /\ relays' = LeaveSource(Unbridged(relays, b), ChildrenOf(b), counts)

\* on(): the first listener of a batch bridges it to its children.
AddListener(x) ==
  /\ Idle /\ listeners[x] < MaxListeners[x]
  /\ listeners' = [listeners EXCEPT ![x] = @ + 1]
  /\ IF x \in Batch
     THEN /\ bridged' = bridged \cup {x}
          /\ relays' = IF x \in bridged THEN relays
                       ELSE ListenToSource(BridgedTo(relays, x), ChildrenOf(x))
     ELSE relays' = ListenToSource(relays, {x}) /\ UNCHANGED bridged
  /\ UNCHANGED <<lifecycleVars, forwarding, deliveryVars, before>>

BridgeLeft(x) == UNCHANGED <<bridged, relays>>
AfterLastListener(x) ==
  IF x \in Batch THEN RemoveBridge(x, listeners')
  ELSE relays' = LeaveSource(relays, {x}, listeners') /\ UNCHANGED bridged

RemoveListener(x) ==
  /\ Idle /\ listeners[x] > 0
  /\ listeners' = [listeners EXCEPT ![x] = @ - 1]
  /\ IF listeners'[x] = 0 THEN AfterLastListener(x) ELSE UNCHANGED <<bridged, relays>>
  /\ UNCHANGED <<lifecycleVars, forwarding, deliveryVars, before>>

-----------------------------------------------------------------------------
(* apply() and dispose().                                                    *)

Predicate(x) ==
  IF x \in Batch THEN \E c \in ChildrenOf(x) : c \notin Unsupported
  ELSE x \notin Unsupported

\* apply() by an owner already known, or where the platform lacks the global.
Ignored(x, owner) == owner \in owners[x] \/ (~Active(x) /\ ~Predicate(x))

OwnerUnknown(x, owner) ==
  [op |-> "setup", of |-> x, owner |-> None, at |-> 1, held |-> <<>>]
SetupFrame(x, owner) ==
  [op |-> "setup", of |-> x, owner |-> owner, at |-> 1, held |-> <<>>]
DisposeFrame(x, rethrows) == [op |-> "dispose", of |-> x, rethrows |-> rethrows]

\* Interception when the user's call began, kept until it returns.
Snapshot ==
  before' = IF stack' = <<>> THEN None
            ELSE [owners |-> owners, active |-> {x \in Interceptor : Active(x)},
                  replaced |-> replaced]
Remember == before' = IF stack' = <<>> THEN None ELSE before

Apply(x) ==
  /\ Idle /\ ~Ignored(x, x)
  /\ owners' = [owners EXCEPT ![x] = @ \cup {x}]
  /\ stack' = IF Active(x) THEN <<>> ELSE <<SetupFrame(x, x)>>
  /\ Snapshot
  /\ UNCHANGED <<readyState, subscriptions, replaced, eventVars, deliveryVars>>

OthersForgotten(x, owner) == {}
OwnersWithout(x, owner) == owners[x] \ {owner}

\* The owner leaves; the last one starts the disposal.
Release(x, owner, rest) ==
  /\ owners' = [owners EXCEPT ![x] = OwnersWithout(x, owner)]
  /\ stack' = IF owners'[x] = {} THEN Append(rest, DisposeFrame(x, FALSE)) ELSE rest

Dispose(x) ==
  /\ Idle /\ x \in owners[x]
  /\ Release(x, x, <<>>)
  /\ Snapshot
  /\ UNCHANGED <<readyState, subscriptions, replaced, eventVars, deliveryVars>>

-----------------------------------------------------------------------------
(* setup(), step by step.                                                    *)

Running(op) == stack # <<>> /\ Last(stack).op = op
Current == Last(stack)
Callers == Front(stack)

AtStep(do) ==
  /\ Running("setup")
  /\ Current.at <= Len(Setup[Current.of])
  /\ Setup[Current.of][Current.at].do = do
TheStep == Setup[Current.of][Current.at]

Advanced(frame) == [frame EXCEPT !.at = @ + 1, !.held = <<>>]
NextStep == stack' = Append(Callers, Advanced(Current))

Subscribed(x, undos) == [subscriptions EXCEPT ![x] = @ \o undos]
DisposeOf(c) == <<[undo |-> "dispose", child |-> c]>>

SetupBridges ==
  /\ AtStep("bridge")
  /\ NextStep
  /\ subscriptions' = Subscribed(Current.of, <<[undo |-> "bridge"]>>)
  /\ forwardedEvents' = [forwardedEvents EXCEPT ![Current.of] = {}]
  /\ heard' = [heard EXCEPT ![Current.of] = [e \in Event |-> 0]]
  /\ UNCHANGED <<owners, readyState, replaced, eventVars, delivered, before>>

\* The call of a child's apply(), and how to undo it once it has returned.
SetupApplies ==
  LET x == Current.of
      c == TheStep.child
      sets == ~Ignored(c, x) /\ ~Active(c)
  IN
  /\ AtStep("apply")
  /\ owners' = IF Ignored(c, x) THEN owners ELSE [owners EXCEPT ![c] = @ \cup {x}]
  /\ IF sets
     THEN stack' = Append(stack, SetupFrame(c, x)) /\ UNCHANGED subscriptions
     ELSE NextStep /\ subscriptions' = Subscribed(x, DisposeOf(c))
  /\ UNCHANGED <<readyState, replaced, eventVars, deliveryVars, before>>

ForwardsAtOnce(x) ==
  IF HasListeners(x, listeners, relays)
  THEN [relays EXCEPT ![Source] = @ \cup {x}] ELSE relays

SetupForwards ==
  LET x == Current.of IN
  /\ AtStep("forward")
  /\ NextStep
  /\ subscriptions' = Subscribed(x, <<[undo |-> "forward"]>>)
  /\ forwarding' = forwarding \cup {x}
  /\ relays' = ForwardsAtOnce(x)
  /\ UNCHANGED <<owners, readyState, replaced, listeners, bridged, deliveryVars, before>>

NextKey == TheStep.keys[Len(Current.held) + 1]

\* applyPatch(): the restoring functions are pushed once all are there.
SetupPatches ==
  LET held == Append(Current.held, NextKey) IN
  /\ AtStep("patch") /\ replaced[NextKey] = None
  /\ replaced' = [replaced EXCEPT ![NextKey] = Current.of]
  /\ IF held = TheStep.keys
     THEN /\ NextStep
          /\ subscriptions' = Subscribed(Current.of,
               [i \in DOMAIN held |-> [undo |-> "patch", key |-> held[i]]])
     ELSE /\ stack' = Append(Callers, [Current EXCEPT !.held = held])
          /\ UNCHANGED subscriptions
  /\ UNCHANGED <<owners, readyState, eventVars, deliveryVars, before>>

\* The catch block of apply() for the setup() in the given frame.
ErrorSwallowed(frame, rest) ==
  /\ owners' = owners
  /\ stack' = Append(rest, Advanced(frame))
Undoing(frame, rest) ==
  /\ owners' = [owners EXCEPT ![frame.of] = @ \ {frame.owner}]
  /\ stack' = Append(rest, DisposeFrame(frame.of, TRUE))

\* Somebody has replaced the global already: applyPatch() throws.
SetupFails ==
  /\ AtStep("patch") /\ replaced[NextKey] # None
  /\ Undoing(Current, Callers)
  /\ UNCHANGED <<readyState, subscriptions, replaced, eventVars, deliveryVars, before>>

\* setup() has returned; the caller, if any, subscribes to undo it.
SetupReturns ==
  LET x == Current.of IN
  /\ Running("setup") /\ Current.at > Len(Setup[x])
  /\ readyState' = [readyState EXCEPT ![x] = "ACTIVE"]
  /\ IF Callers = <<>> THEN stack' = <<>> /\ UNCHANGED subscriptions
     ELSE /\ stack' = Append(Front(Callers), Advanced(Last(Callers)))
          /\ subscriptions' = Subscribed(Last(Callers).of, DisposeOf(x))
  /\ Remember
  /\ UNCHANGED <<owners, replaced, eventVars, deliveryVars>>

-----------------------------------------------------------------------------
(* dispose(): the subscriptions, last first, then the listeners.             *)

Undoes(undo) ==
  /\ Running("dispose")
  /\ subscriptions[Current.of] # <<>>
  /\ Last(subscriptions[Current.of]).undo = undo
  /\ subscriptions' = [subscriptions EXCEPT ![Current.of] = Front(@)]
TheUndo == Last(subscriptions[Current.of])

UndoApply ==
  LET x == Current.of
      c == TheUndo.child
  IN
  /\ Undoes("dispose")
  /\ IF x \in owners[c] THEN Release(c, x, stack) ELSE UNCHANGED <<owners, stack>>
  /\ UNCHANGED <<readyState, replaced, eventVars, deliveryVars, before>>

UndoPatch ==
  /\ Undoes("patch")
  /\ replaced' = [replaced EXCEPT ![TheUndo.key] = None]
  /\ UNCHANGED <<owners, readyState, stack, eventVars, deliveryVars, before>>

UndoForward ==
  /\ Undoes("forward")
  /\ forwarding' = forwarding \ {Current.of}
  /\ relays' = [relays EXCEPT ![Source] = @ \ {Current.of}]
  /\ UNCHANGED <<owners, readyState, replaced, stack, listeners, bridged,
                 deliveryVars, before>>

UndoBridge ==
  /\ Undoes("bridge")
  /\ RemoveBridge(Current.of, listeners)
  /\ UNCHANGED <<owners, readyState, replaced, stack, listeners, forwarding,
                 deliveryVars, before>>

\* removeAllListeners(), then the error of a failed setup() goes on to the
\* setup() that applied this interceptor.
DisposeEnds ==
  LET x == Current.of
      caller == Last(Callers)
  IN
  /\ Running("dispose") /\ subscriptions[x] = <<>>
  /\ listeners' = [listeners EXCEPT ![x] = 0]
  /\ relays' = [relays EXCEPT ![x] = {}]
  /\ bridged' = bridged \ {x}
  /\ readyState' = [readyState EXCEPT ![x] = "DISPOSED"]
  /\ IF Current.rethrows /\ Callers # <<>> THEN Undoing(caller, Front(Callers))
     ELSE stack' = Callers /\ UNCHANGED owners
  /\ Remember
  /\ UNCHANGED <<subscriptions, replaced, forwarding, deliveryVars>>

-----------------------------------------------------------------------------
(* Events.                                                                   *)

NeverSeen(b, e) == FALSE
RecordForwardedEvent(b, e) == e \in forwardedEvents[b]

\* The source emits an event to one of its forwarders, which emits it to the
\* batches bridged to it.  An emission awaits its listeners, so users act
\* between two forwarders.
Deliver(e, x) ==
  LET new == {b \in relays[x] : ~RecordForwardedEvent(b, e)} IN
  /\ Idle /\ x \in relays[Source] \ delivered[e]
  /\ delivered' = [delivered EXCEPT ![e] = @ \cup {x}]
  /\ forwardedEvents' = [b \in Batch |->
       IF b \in new THEN forwardedEvents[b] \cup {e} ELSE forwardedEvents[b]]
  /\ heard' = [b \in Batch |->
       IF b \in new THEN [heard[b] EXCEPT ![e] = @ + 1] ELSE heard[b]]
  /\ UNCHANGED <<lifecycleVars, eventVars, before>>

-----------------------------------------------------------------------------
Init ==
  /\ owners = [x \in Interceptor |-> {}]
  /\ readyState = [x \in Interceptor |-> "INACTIVE"]
  /\ subscriptions = [x \in Interceptor |-> <<>>]
  /\ replaced = [k \in Key |-> None]
  /\ stack = <<>>
  /\ listeners = [x \in Interceptor |-> 0]
  /\ relays = [x \in Interceptor |-> {}]
  /\ bridged = {} /\ forwarding = {}
  /\ forwardedEvents = [b \in Batch |-> {}]
  /\ delivered = [e \in Event |-> {}]
  /\ heard = [b \in Batch |-> [e \in Event |-> 0]]
  /\ before = None

User == \E x \in Public : Apply(x) \/ Dispose(x) \/ AddListener(x) \/ RemoveListener(x)

Call ==
  \/ SetupBridges \/ SetupApplies \/ SetupForwards \/ SetupPatches \/ SetupFails
  \/ SetupReturns
  \/ UndoApply \/ UndoPatch \/ UndoForward \/ UndoBridge \/ DisposeEnds

Next == User \/ Call \/ \E e \in Event, x \in Interceptor : Deliver(e, x)

Spec == Init /\ [][Next]_vars

-----------------------------------------------------------------------------
(* Properties.                                                               *)

\* Once no call is in progress, an interceptor is set up exactly while somebody
\* owns it, it owns exactly the children it applied, and a global is replaced
\* exactly while the interceptor that replaces it is set up: however owners
\* share it and whichever setup() failed in between (apply, dispose).
AppliedWhileOwned ==
  Idle =>
    /\ \A x \in Interceptor : Active(x) <=> owners[x] # {}
    /\ \A x \in Interceptor : \A c \in ChildrenOf(x) :
         x \in owners[c] <=> Active(x) /\ (Active(c) \/ Predicate(c))
    /\ \A k \in Key : replaced[k] # None =>
         Active(replaced[k]) /\ k \in UNION {ToSet(Setup[replaced[k]][i].keys) :
           i \in {j \in DOMAIN Setup[replaced[k]] : Setup[replaced[k]][j].do = "patch"}}
    /\ \A x \in Interceptor : \A i \in DOMAIN Setup[x] :
         Active(x) /\ Setup[x][i].do = "patch" =>
           \A k \in ToSet(Setup[x][i].keys) : replaced[k] = x

\* An apply() that throws to the user leaves interception as it found it: the
\* same interceptors set up, by the same owners, and the same globals replaced,
\* whatever was shared with interceptors in use (the catch block of apply()).
FailedApplyChangesNothing ==
  [][ Len(stack) = 1 /\ Current.op = "dispose" /\ Current.rethrows /\ stack' = <<>> =>
        /\ owners' = before.owners
        /\ replaced' = before.replaced
        /\ {x \in Interceptor : readyState'[x] = "ACTIVE"} = before.active ]_vars

\* A batch without listeners of its own hears nothing from its children, and an
\* interceptor that is not set up nothing from the source (no bridge or
\* forwarder outlives its listeners or its interceptor).  While it is set up an
\* interceptor listens to the source exactly if somebody, a user or a batch,
\* listens to it, whether they came before apply() or after it (forwardHttpEvents).
RelaysFollowListeners ==
  Idle =>
    /\ \A x \in Interceptor \ {Source} : \A b \in relays[x] :
         b \in bridged /\ x \in ChildrenOf(b) /\ listeners[b] > 0
    /\ relays[Source] \subseteq {x \in Interceptor : Active(x) /\ Forwards(x)}
    /\ \A x \in Interceptor : Forwards(x) /\ Active(x) =>
         (x \in relays[Source] <=> HasListeners(x, listeners, relays))

\* An event that reaches a batch through several of its children is heard once
\* by its listeners, between two setups of the batch (#recordForwardedEvent).
HeardOnce == \A b \in Batch, e \in Event : heard[b][e] <= 1

\* "Applies multiple request interceptors at the same time. Use it to combine
\* interceptors to capture requests from different request-issuing modules at
\* once": a listener of a batch that is applied hears the interceptors in it.
AppliedBatchHears ==
  Idle => \A b \in Batch : \A c \in ChildrenOf(b) :
    Active(b) /\ listeners[b] > 0 /\ b \in owners[c] => b \in relays[c]
=============================================================================
