# Verification of the opportunistic link and network layer

TLA+ models, TLC runs and TLAPS proofs kept beside the INET/OMNeT++ models of
opportunistic routing in this repository (`src/src`). A module translates the
C++ it names, never the prose around it; `PROJECT.json` maps each definition to
its lines. File names below are relative to `src/src/`.

1. [The system](#1-the-system)
2. [What is modelled](#2-what-is-modelled)
3. [Assumptions, abstractions and bounds](#3-assumptions-abstractions-and-bounds)
4. [The runs](#4-the-runs)
5. [Where the code differs from what it says](#5-where-the-code-differs-from-what-it-says)
6. [The proofs](#6-the-proofs)
7. [Not modelled](#7-not-modelled)
8. [Plan](#8-plan)

## 1. The system

Nodes of a battery-less or duty-cycled sensor network pass packets towards a
root. A transmitter does not choose a next hop: it sends a data frame with the
highest cost it accepts of a forwarder, all neighbours cheap enough contend to
acknowledge, and the data is sent again until one acknowledgment is left.

| component | state | operations | talks to |
|---|---|---|---|
| `linklayer/ORWMac` | `macState` with sub-states `txDataState`, `rxState`; queue; `currentTxFrame`, `currentRxFrame`; tries, forwarders, thresholds; four timers | one handler per event: packet from above, frame heard, self message, radio signal, start/stop/crash | radio (mode switch calls, signals back), queue, network layer, hooks, energy storage |
| `linklayer/CSMATxBackoff` | one object per attempt: OFF, WAIT, SWITCHING, FINISHED and a timer | start (warm or cold), delay, process event | its MAC's radio and event queue |
| `linklayer/WakeUpMacLayer` | ORWMac plus a wake-up radio, `activeRadio`, `wuState`, the approve message | wake-up transmit, approval of a wake-up, switch of active radio | two radios, hooks |
| `linklayer/IOpportunisticLinkLayer` | list of hooks | register, consult in order | routing table, consumption tracking |
| `linklayer/MacEnergyMonitor` | which activity is being measured, start values | start, pause, resume, finish | MAC signals, energy storage |
| `networklayer/ORWRouting` | `waitingPacket`, `nextForwardTimer`, sequence number, duplicate history | send, receive (deliver, forward or drop), forward timer, start/stop | MAC, routing table |
| `networklayer/ORPLRouting` | as above; the routing set it shares is computed from the tables | direction of a packet, set exchange | ORPLRoutingTable |
| `networklayer/ORWRoutingTable`, `RoutingTableBase` | encounters per neighbour, interaction counts, weights | count encounters, compute cost, accept or reject a datagram | MAC signals, hooks |
| `networklayer/ORPLRoutingTable` | a second table, of addresses learnt from others, with a warm-up period | learn from shared sets, end a period, downwards cost, hook | as above |
| `networklayer/ORWHello` | record of what was sent per on/off cycle | hello at start | ORWRouting |
| `power/PacketConsumptionTracking` | joules per packet in tags | hooks | MAC |

**What is hard.** One radio with three slow operations (switch to receive, to
transmit, to sleep) and five timers drive one state machine; handlers nest,
because a radio that falls asleep in no time reports it from within the call.
Nodes stop at any instant, by a command or because the MAC finds too little
energy, and come back with the frame they had; frames from two neighbours and packets
from above interleave in any order. The two-radio MAC retries besides. Nothing in the
repository tests these orders. `PROJECT.json`, "hazards", lists each at its line.

**What makes each part correct.**
ORWMac: it never throws, no packet is lost track of, an acknowledged frame is delivered or its
transmitter has repeated it, a wait always ends. Backoff: alive exactly during carrier sense.
Routing: a packet is delivered at most once while the history remembers it, kept until it is
sent on, its hop limit bounds its way. Table: costs fall along every accepted hop. Wake-up MAC:
one radio at a time, and no timer meant for one wait ends another. Downwards routing: what a
node has learnt to be below it is below it, and what has left is forgotten. Monitor: each
activity is measured once and never while the node is down. Hello: no node is silent for too
long.

## 2. What is modelled

| module | models | notes |
|---|---|---|
| `SelfMessages` | OMNeT++ self messages, as the code here uses them (external) | misuse, which throws, leaves an `"error"` value |
| `SimServices` | extends it with INET radio mode switches (external) | likewise |
| `CSMATxBackoff` | `CSMATxBackoff.cc/.h` | one operator per call; the result is a set of outcomes |
| `ORWMac` | `ORWMac.cc/.h`, `ORWMacState.cc` | one action per event and sub-state: 28 actions, and three handlers that only `WakeUpMac` reaches |
| `LinkPromise` | what the network layer may rely on | abstract: a line of packets, served in order, none lost |
| `ORWMacRefinement` | the mapping from `ORWMac` to `LinkPromise` | the current frame in front of the queue is the line |
| `WakeUpMacTries` | a history variable over `WakeUpMac` | tries made for the packet that is current |
| `EnergyMonitor` | `MacEnergyMonitor.cc`, composed with `ORWMac` | each MAC step emits its signals to the monitor |
| `ReceptionEnergy` | a history variable over `EnergyMonitor` | whether what is measured as a reception was spent outside one |
| `WakeUpMac` | `WakeUpMacLayer.cc` | extends `ORWMac` as the class inherits from it; 41 actions, 14 of them inherited |
| `ORWRouting` | `ORWRouting.cc/.h` in every node of a network, with the link layers between them | which relays accept a frame is left open |
| `CostGradient` | `ORWRouting` over `ORWRoutingTable`/`RoutingTableBase`: the costs that decide which relays accept | each action is one of `ORWRouting` and what the table adds |
| `OrplRouting` | `ORPLRouting` over `ORPLRoutingTable` | downwards routing in a network |
| `OrwHello` | `ORWHello.cc` over INET's `IpvxTrafGen` | one node and its on-off cycles |
| `ORWMacProofs`, `ORWMacPacketProofs`, `WakeUpMacProofs`, `EnergyMonitorProofs` | theorems on the MACs and the monitor | section 6 |
| `ORWRoutingProofs`, `CostGradientProofs`, `OrplRoutingProofs` | theorems on the network layer | section 6 |
| `OrwHelloProofs` | theorems on the application | section 6 |
| `MC...` | instances for TLC | with the `.cfg` files |

**State of the MAC.** The variables of `ORWMac` carry the names of the C++ members.
`timer` holds the scheduled state of the MAC's four messages and of the
backoff's message: off, due now (`scheduleAt(simTime(), ...)`) or due later.
`radioMode` splits `RADIO_MODE_SWITCHING` by its target. `outcome` and
`rxOutcome` are what the environment sees of a packet: the signal or gate it
left by. `operating` is the lifecycle state.

**Actions of the MAC.** An action is one handler run to completion with everything it
calls. Where a handler calls the radio and the radio answers in the call
(`setRadioMode(SLEEP)` with a switching time of 0), the nested handler is part of
the same action: `StateTxEnterEnd` includes the listening that follows. Each
group of actions corresponds to one function of `ORWMacState.cc`:

| function | actions |
|---|---|
| `stateProcess`, `handleUpperPacket` | `UpperPacketIdle`, `UpperPacketQueued`, `IdleReceive` |
| `stateAwaitTransmitProcess` | `AwaitRadioReady`, `AwaitTransmitStart`, `AwaitReplenished`, `AwaitNotReplenished`, `AwaitReceive` |
| `stateTxProcess`, `stateTxAckWaitProcess` | `Tx...` |
| `stateReceiveProcess`, `stateReceiveDataWaitProcessDataReceived`, `stateReceiveAckProcessBackoff` | `Rx...` |
| `handleRadioSignal` where nothing follows | `RadioReady` |
| `handleStartOperation`, `handleStopOperation`, `handleCrashOperation` | `NodeStart`, `NodeStop`, `AwaitNotReplenished` |
| what takes a second try or `skipDirectTxFinalAck`, in `WakeUpMac` only | `AwaitTransmitStartTooEarly`, `TxEndTransmitStart`, `WakeUpTxEndDirect` |

**What the MAC promises.** `LinkPromise` knows packets and a line of them: `Accept`,
`AcceptOverflow` (the oldest that is not being served goes), `Resolve` (the oldest was sent
or given up) and `GiveWay` (a packet kept for a retry is replaced by the next). The runs and
theorems show that `ORWMac` and `WakeUpMac` implement it. In `ORWRouting`
the link layers stand behind `air`, which promises less.

**The wake-up MAC.** `WakeUpMac` extends `ORWMac` and adds `wakeUpRadioMode`,
`activeRadio`, `wuState` and `approval`, the zero-delay message by which
`queryWakeupRequest` lets the wake-up through. Handlers that the subclass leaves alone and
that call nothing it overrides are `ORWMac`'s actions (`Inherit`); a handler that ends in an
overridden method, such as `stateListeningEnter`, is written anew with that method
(`WakeUpTxEndAsleep`, `WakeUpRxDataTimeout`); handlers of the new phases are new.

| function of `WakeUpMacLayer.cc` | actions |
|---|---|
| `stateWakeUpIdleProcess` | `UpperPacketWakeUpIdle`, `WakeUpIdleStart` |
| `stateAwaitTransmitProcess` | `WakeUpAwait...` |
| `stateWakeUpProcess` | `WakeUpApproved`, `WakeUpNotApproved`, `WakeUpDataAsleep`, `WakeUpDataReady` |
| `stateTxProcess` | `TxWakeUp...`, `TxRadioReady` |
| `receiveSignal` where nothing follows | `WakeUpRadioReady` |

**The monitor.** `EnergyMonitor` lets each step of the MAC emit the signals the handler
emits, read off what the step changes (`Signals`), and folds the monitor's `receiveSignal`
over them. `monitor` has the activity in progress, whether starting values are set, and the
consumption signal emitted last.

**The network layer.** `ORWRouting` has one instance of every member per node (the
duplicate history only for the root, the only node that delivers). Its actions are
the handlers:

| function | actions |
|---|---|
| `handleUpperPacket`, `encapsulate` | `HandleUpperPacket`; `SendUpwards` with the threshold |
| `handleLowerPacket` at the root, `deduplicateAndDeliver` | `DeduplicateAndDeliver`, `RootReceives` |
| `handleLowerPacket` at a relay, `forwardPacket`, `queueDelayed` | `ForwardQueued`, `ForwardDropped`; `RelayUpwards`, `RelayDropped` where the table knows a next hop |
| `handleSelfMessage` | `HandleSelfMessage`, `RelayTimer` |
| `handleStartOperation`, `handleStopOperation`, `handleCrashOperation` | `HandleStartOperation`, `HandleStopOperation`, `StartOrStop` |
| `ORWRoutingTable::datagramPreRoutingHook` | `DatagramPreRoutingHook` |
| `receiveSignal`, `updateEncounters` | `UpdateEncounters` |

Handling a known duplicate, a hello, or a frame without a next hop changes no
member: these are stuttering steps. `sent`, `delivered` and a way's `path` are
history variables, `deletedSignalled` records the use of a deleted packet.
`accepted` holds the frames a hook has let in and the network layer may be handed
any time later.

**How the layers meet.** `air` in `ORWRouting` stands for everything between two
network layers: the transmitter's MAC with its queue and retries, the medium, the
receivers' contention, and a frame kept by a receiver's MAC over a restart. Whatever
was sent down may be handed up by any other node at any time, repeatedly or never.
This is weaker than what `ORWMac` proves of one MAC (its `Custody` and
`AcknowledgedNotDropped`), and so what is shown of `ORWRouting` holds over it.

**Downwards routing.** `OrplRouting` has both tables of every node: `encountersTable`
of direct neighbours and `routingSetTable` of addresses learnt from shared sets. A node
sends its own packets (`HandleUpperPacket`), hellos (`SendHello`) and what it relays
(`ForwardPacket`, `SendWaiting`), each with a routing set or without one; another hears the
set (`ReceiveRoutingSet`), counts the encounter (`UpdateEncounters`) or accepts the packet
(`DatagramPreRoutingHook`). `ActivateWarmUpRoutingData` ends a period: addresses heard in it
become active, others are forgotten. `RepeatToDestination` is what the MAC does when the
destination itself has answered. A frame stays in `air`, and may be heard, until `LinkDone`.

**The hello application.** `OrwHello` has the node's on-off cycles, the record of what
its network layer sent and in which cycle, and the test made at each start.

Definitions whose comment begins with "Fault:" are not part of the
specification. Each is the definition after it with one plausible bug, named in
`PROJECT.json`, "mutants", with the property that detects it.

## 3. Assumptions, abstractions and bounds

**The MAC**

- **Fields.** `maxTxTries`, `checkDataPacketEqDC` and `skipDirectTxFinalAck` are fields that
  `ORWMac::initialize` loads from no parameter: they are 1, true and false
  (`ORWMac.h:132`, `133`, `220`). `PlainFields` says so in `Init`. Only
  `WakeUpMacLayer::initialize` loads them (`WakeUpMacLayer.cc:43`, `50`, `51`), and
  `WakeUpMac` starts from `InitVariables` with whatever was configured; `WakeUpAssumption` is
  what `initialize` makes and asks of the parameters (`WakeUpMacLayer.cc:51`, `58`).
  With one try, TX_START is never due while the replenishment check or the falling asleep
  is still on (`OneTry`), so the handlers for that, and the TX_END of the direct
  transmission, take no part in `ORWMac`.
- **Long timers outlast radio switches.** `ORWMac.ned` asks that `ackWaitDuration`
  be longer than a switch from receiving to transmitting; `ORWMacInterface.ned`
  gives switches of 0.05 to 1 ms and the timers are 2.4 ms and more. `Fires`
  therefore holds back a timer due later while the radio switches to the receiver
  or transmitter. It does not hold it back while the radio falls asleep, where
  the code reckons with it (END reschedules TX_START). A timer due now fires
  whatever the radio does.
- **One frame at a time.** A receiver hands up one frame at a time, so none comes in the
  instant at which a `receiveTimeout` due now is pending (`Hears`).
- **Acknowledgment window.** A transmitter repeats its data only after
  `ackWaitDuration`, and sets its timer again while it still receives;
  acknowledgments are begun within a shorter window (`ackTxWaitDuration`). So
  data from the stored frame's transmitter does not come in `RxState::ACK`. If it
  did, `stateReceiveEnterAck` would leak a backoff object.
- **Choices.** The energy check, the state of the medium at each carrier sense,
  the hook's answer (except that a destination accepts its own packets,
  `ORWRoutingTable::datagramPreRoutingHook`) and the contention dice are
  nondeterministic, each time they are read.
- **Saturating counters.** `txInProgressTries` stops at `MaxTxTries` and
  `acknowledgedForwarders` at 2: the code compares them only with `maxTxTries` and
  with `requiredForwarders`, which is the constant 1.
- **Assertion left out.** `ORWMac.cc:308` asserts that no cost put into a header is negative.
  Costs are data here, so `NoRuntimeError` says nothing of it; see section 5.
- **Initial values.** `rxState` and `txDataState` have no initializer in the code.
  They are read only in RECEIVE and TRANSMIT, which assign them first.
- **Left out.** Handlers that only discard a frame, statistics, encounter
  signals, header fields other than the transmitter and whether the packet is
  for this node. `startCold` cannot be reached from `ORWMac`, which enters
  TRANSMIT only with a listening radio; `NoRuntimeError` would fail if it could,
  and its subclass does reach it.

**The wake-up MAC**

- Switching the wake-up or data radio to OFF takes 0.1 ms, less than any event is apart;
  `TurnedOff` does it in the step. From OFF the data radio falls asleep in 0.4 ms, less
  than the 0.6 ms of `txWakeUpWaitDuration`, which by `WakeUpMacLayer.ned:25` must be so
  (`TxWakeUpTimeout`). Delays outlast the switches of the wake-up radio (`WakeUpFires`), as
  above.
- A stop comes at an instant of its own, not between `queryWakeupRequest` and the approve
  message it sends with no delay (`WakeUpNodeStop`).
- Not reachable, hence not actions: DATA_IDLE after the first start; a repetition heard in
  FINISH, which ends in its instant; DATA_RX_READY or DATA_RX_IDLE in APPROVE_WAIT, as the
  active radio is then the wake-up radio; WU_REJECT, which nothing sends.

**The monitor.** A stop and a start reach the MAC and the monitor in either order
(`MonitorStep`). Nodes stop and start; a crash, on which the monitor's assertion fails
(section 5) and which nothing in the repository brings about, is left out. Joules are left out: what is kept is which
activity an amount goes to.

**The network layer**

- **All packets go to the root** in `ORWRouting` and `CostGradient`:
  `ORWRoutingTable::calculateUpwardsCost` throws for any other destination.
- **Hellos** come without payload, ask for any forwarder and are deleted by whoever is
  handed one.
- **Costs** are integers, tenths of an EqDC, as frames carry them. Off the root they are
  at least the forwarding cost and at least 1. The threshold is the difference of two
  doubles, truncated, so it is the exact difference or one tenth less
  (`NextHopCosts`). A transmitter's MAC lowers the threshold once the destination
  itself has answered; `CostGradient` lets hooks go on answering by the higher one.
- **Costs without encounters.** How the estimate follows from encounters is a sorted
  sum of real numbers. The model lets it change to any value at any time at the nodes
  `Unsettled` (`UpdateEncounters`, `EstimateChanges`) and not at the others.
- **The modulus and the history size** are constants of `ORWRouting`; the code has 65536
  and 2048. The theorems hold for all values, the runs use 2 and 1.
- **ORPL's costs** off the root exceed the least cost of a hop, as one hop takes at least
  one duty cycle; at the root the estimate of itself is free and takes no part. Estimates
  are kept in twentieths of an EqDC, so that an odd one stands for all between two
  reported costs. `interactionsTotal` is none, few or many: the code asks whether it is
  positive and whether it exceeds 2.
- **ORPL over the rest.** Numbering, duplicates, stops and starts are `ORWRouting`'s and
  are not repeated in `OrplRouting`; packets are sent once.
- **Hello.** A hello is recorded as sent in the step that makes it. `numSent` is compared
  with 0 only, and saturates at 1.

**Bounds**

- `mac_safety`: three interchangeable unicast packets and one broadcast over a queue of two
  (the default of `ORWMac.ned`), so that the queue overflows with a current frame beside it;
  two neighbours and two packets, one of them for this node, so that a repetition, a new
  packet of the same transmitter and a third party's frame are all different; one try, which
  is all the class has. Symmetry over the unicast packets and over the neighbours,
  which occur in no other constant; no liveness is checked with it.
- `mac_liveness`, `wakeup`: a unicast and a broadcast packet, one neighbour; the radio takes
  its time to fall asleep. `wakeup` has two tries, the smallest number with a retry,
  `skipDirectTxFinalAck` on, and a queue of one, so that it overflows; it judges wake-ups,
  which includes every outcome of approving them all. `tries_per_packet` has two tries and
  two unicast packets, of which the second finds the first one's tries counted.
- `routing`: a root and two relays; two packets and a hello of one sender with numbers
  modulo 2 and a history of one record, so that the number wraps and the history forgets;
  hop limit 3, so that it reaches its end in a circle of two; `MaxDelivered` bounds the
  deliveries to 6.
- `cost_gradient`: three relays and a root, all assignments of three costs to the relays,
  one of them the cost of a node with no route. `Unsettled` is one relay that changes its cost whenever it likes,
  `Stopping` another that stops and starts. Hop limit 3 lets a packet return to its
  sender. Deliveries are bounded to none: what the root does with a frame takes no part in
  its way.
- `orpl_routes`: root, a, b in a line, a packet from the root for b; `orpl_sets`: a and b in
  each other's range, c below both, of equal or different cost. One frame per node in
  air (`MaxFrames`), one interaction per period at most to be counted (`MaxInteractions`;
  the code's "more than two" only activates an entry earlier), encounters at the pairs
  `Meetings` and hellos of the nodes `Helloing` that matter to the question. A line of two
  hops and a triangle are the smallest networks in which a relay lies between, and in which
  two nodes can remind each other of a third.
- `hello_silence`: twelve cycles, a record of three and a rate of two in five: the record
  fills, empties of old entries and the bound of seven silent cycles is met within the
  twelve. `MaxCycles` ends every behaviour, so this run does not check for deadlock; all
  others do.

## 4. The runs

| run | question | distinct states |
|---|---|---|
| `mac_safety` | `ORWMac` with its monitor, every interleaving: does it throw, lose a packet, drop what it acknowledged, leave a timer, a mark or a backoff behind, break `LinkPromise`; does the monitor attribute energy to the wrong activity? | 446 023 |
| `mac_liveness` | with a radio that needs time to sleep: does every wait and phase end, is every packet resolved at its one try? | 21 728 |
| `wakeup` | `WakeUpMac`: does it throw, have both radios on, take one timeout for another, leave a mark or count behind, break `LinkPromise`, stay in a phase for ever? | 149 764 |
| `routing` | `ORWRouting` in a root and two relays, all orders of delivery, stops and starts: slot, hop limit, numbering, history | 111 664 |
| `cost_gradient` | does a copy of a packet come back to a sender, or end at a node with no route, although the nodes on its way have converged? | 350 670 |
| `orpl_routes` | who accepts a packet going down, and when does it come back? | 981 578 |
| `orpl_sets` | is what nodes tell each other of a third right, and forgotten once it has left? | 170 760 |
| `hello_silence` | how long can a node be silent? | 32 499 |

All of these hold. Four more runs ask whether the code does what it says at one place,
and TLC finds that it does not: section 5.

What the properties say. The link layer:

- `NoRuntimeError`: no `cRuntimeError`, no null frame used, and of the assertions those about
  frames and backoff objects.
- `Custody`: a packet accepted and not yet reported on is in exactly one of
  queue and `currentTxFrame`.
- `PhaseServed` (`TimersMatchPhase`, `BackoffMatchesPhase`, `AwaitArmed`): a timer and a
  backoff are there exactly in the phases that take them; a waiting MAC has something
  that will end the wait. `OneTry`, a part of it in `ORWMac`, is that each transmission is the
  packet's only one.
- `KeptFrames` (`DeferredDropScope`, `RetryUnacknowledged`) and `DeferredDropCompleted`:
  the mark "drop as a duplicate" ends with its frame's drop, in the phase it was made in; a
  frame kept for a retry was confirmed by nobody. Retries are made in `WakeUpMac`, where
  `KeptFrames` is checked too.
- `AcknowledgedNotDropped`: neither a crash nor a timeout drops a stored frame
  not given up to another forwarder.
- `KeepsLinkPromise`: `ORWMac` is a `LinkPromise`. It checks each step's effect on the
  line, where `Custody` checks the state: the oldest is served first, one packet is
  resolved at a time, and a packet is pushed out only to make room.
- `MeasuresWhileUp`: the monitor, although the MAC announces only some of the starts it
  signals the ends of, signals some ends twice or never, and either may hear first that the
  node stops. It does not say that what is measured belongs to one activity: that is false
  (section 5).
- `AwaitEnds`, `PhasesEnd`, `EveryPacketResolved`: liveness. The last one under
  `QuietEnvironment`: the node stays up, hears no more data, and more than one
  forwarder does not answer for ever. The code bounds neither of the last two.
- `OneRadioOn`, `WakeUpPhaseServed`, `WakeUpPhasesEnd` and the others of `wakeup`: the same
  for two radios. `receiveTimeout` has four uses, and each phase has the one it means.

The network layer:

- `SlotServed`, `SlotEmptied`, `QueuedNotLost`: `queueDelayed`, the timer's handler,
  start and stop agree about the forward timer, so that the slot is emptied by sending
  and by nothing else.
- `HopChain`: the `uint8_t` hop limit never passes 0, and each relayed frame has a
  predecessor with the same number one hop before.
- `DuplicateWindow`: two deliveries of one packet have at least as many others
  between them as the history holds.
- `FalseDuplicateOnlyAfterWrap`: a packet dropped as a duplicate of another one was
  numbered a full round later or earlier.
- `NoNodeTwice`: between two transmissions by one node a copy passed one that has not
  converged, given a positive forwarding cost. `HopLimitBoundsPath`: whatever tables do, a
  copy has at most `InitialTTL` transmitters. `DeadEndsOnlyAsked`: a converged node without
  a route takes, and drops, no frame of a converged node that has one.
- `AcceptedBetween`: a relay that accepts a packet going down is dearer than its sender and
  not dearer, but for one forwarding cost, than what the destination reports of itself: its
  cost, or a hop's for the root. `LoopsOnlyByTurning`: a packet comes back to a node only
  after it turned between up and down.
- `RoutingSetsConsistent`: with settled estimates every address learnt lies below the node,
  also when it came through others or late, and no address is both shared and excluded,
  which `ORPLRouting.cc:124` calls a potential routing loop. `LeftIsForgotten`: two nodes
  that tell each other of a third do not keep it alive once it has left.
- `SilenceBounded`: how many cycles a node can go without a transmission, whatever the record
  has in it.

**Fairness.** For the MAC: weak fairness for what OMNeT++ delivers for certain: scheduled
messages and the end of mode switches and transmissions. Strong fairness for
leaving carrier sense and the acknowledgment wait: each sample of the medium is
random, and it is assumed not to be busy at every one of infinitely many samples.
`WakeUpFairness` is the same for both radios. `routing`: weak fairness of
`HandleSelfMessage`, a scheduled message, alone. `orpl_sets`: weak fairness of the end of a
period, which the table's own encounter counter brings on as long as hellos are exchanged, and of
`LinkDone`, which `EveryPacketResolved` is about. No fairness for packets, frames heard,
starts or stops.

## 5. Where the code differs from what it says

With a run that shows it:

- **Tries are counted over all packets** (`WakeUpMacLayer.cc:256`, run `tries_per_packet`).
  `WakeUpMacLayer` loads `maxTxTries` (`WakeUpMacLayer.cc:43`) and counts the wake-ups it
  sends. Nothing resets `txInProgressTries`, though `setupTransmission` says "Reset progress
  counters" (`ORWMac.cc:281`). Once `maxTxTries` wake-ups were sent, every packet has one try.
- **A new packet replaces a stored, acknowledged one** (`ORWMacState.cc:260`, run
  `stored_packet_replaced`). The comment speaks of comparing data and discarding the new;
  the code compares the transmitter and discards the old.
- **A deleted packet is signalled as sent** (`ORWRouting.cc:107`, run `deleted_signalled`).
  `queueDelayed` deletes a packet it does not queue; `forwardPacket` then emits
  `ForwPacketSent` with it, a signal declared to carry a packet and counted as one sent
  (`ORWRouting.ned:27`).
- **Idle time is recorded as reception** (`MacEnergyMonitor.cc:115`, run
  `reception_carried_over`). A reception begun at `ORWMacState.cc:23` that times out with
  nothing stored, as after an overheard acknowledgment, signals no end (`ORWMac.cc:406`). The
  next start is the activity in progress and ignored, and what was spent since the first one
  is recorded as "Energy consumption for reception" (`MacEnergyMonitor.ned:18`) of one.

Read in the code while modelling it, kept in the models as it is, and not asked by a run:

- A crash fails the monitor's assertion: `handleCrashOperation` finishes with SIMSIGNAL_NULL
  (`MacEnergyMonitor.cc:110`), meaning "emit nothing", and `finishMonitoring` asserts that it
  is one of four other signals (`MacEnergyMonitor.cc:82`).
- `ORWMac.ned:45` offers `maxTxTries` with a default of 4, which a plain `ORWMac` never reads:
  it drops a packet after one try (`ORWMac.h:220`).
- The branch for a crash with a packet kept for a retry is dead (`ORWMac.cc:438`): no current
  frame has confirmed forwarders between two handlers (`RetryUnacknowledged`).
- The branch for a crash before the acknowledgment is dead (`ORWMac.cc:453`): it asks for two
  timers that are never pending together (`TimersMatchPhase`).
- One packet for this node makes it persist in all later contentions (`ORWMacState.cc:251`,
  `285`): `acceptDataEqDCThreshold` is never raised again, where `ORWMac.ned:19` lets a
  relay give up with a probability. `WakeUpMacLayer.cc:356` starts from it.
- Transmissions are announced to the monitor by no signal (`transmissionStarted` is emitted
  nowhere), so their energy goes to `unknownConsumption` or to no activity, and a reception
  that interrupts AWAIT_TRANSMIT is not announced either.
- The root's table counts a neighbour as below it by one comparison
  (`ORPLRoutingTable.cc:96`) and reports its routes by another, which differ where its own
  cost is 0 and its estimate is not.
- Relays go on contending for a packet going down after its destination has acknowledged
  it (`ORPLRoutingTable.cc:135`): the threshold lowered for that is compared with costs
  that exceed it anyway.
- With a cost below the forwarding cost, the threshold sent with a packet is negative
  (`RoutingTableBase.cc:77`), which fails an assertion of the MAC (`ORWMac.cc:308`).
- The record of `ORWHello` identifies cycles by a `uint16_t`
  (`OpportunisticRoutingHeader.msg:24`), which wraps; the model has integers. A wrapped
  number only makes a record look old, so that more hellos are sent.
- `ORWHello::sendPacket` asserts that the destination chosen is the first one
  (`ORWHello.cc:54`), which fails as soon as two destinations are configured and the second
  is quieter. `ORWHello.ned:25` configures one.

## 6. The proofs

### The MAC

`ORWMacProofs` and `ORWMacPacketProofs` prove, for every set of packets, neighbours
and broadcasts, every queue capacity and both kinds of radio, that `Spec` implies each
safety property of `ORWMac` that the runs check. The three fields have the values of
`PlainFields` there; `WakeUpMacProofs` has every number of tries.

**Assumptions.** `ORWMacAssumption` (capacity and tries are positive, the flags are
Boolean, `NoFrame` is not a packet) and `InstantSleepAssumption`. Nothing is assumed
about finiteness or about how many packets there are.

**Control.** None of the control invariants is inductive by itself. That no pending
timer is scheduled again needs to know which timers are pending in each phase
(`TimersMatchPhase`); that no radio is told to switch while it switches needs where
the radio is in each phase (`BackoffMatchesPhase`, `AwaitArmed`); that nothing fires
into a state in which the radio is not where the handler expects it needs which
timers are due now. `ControlInv` is the conjunction of `TypeOK`, `NoRuntimeError` and the
conjuncts of `PhaseServed` and `KeptFrames` with three facts that TLC is not asked about
separately:

- `RadioMatchesPhase`: a node that is down has its radio off, END means falling
  asleep, receiving phases listen or are about to.
- `TimersDue`: only `receiveTimeout` (in FINISH) and `transmitStartDelay` (in
  AWAIT_TRANSMIT, radio listening) are ever due now, so a timer never fires during
  a switch; and a pending `transmitStartDelay` means that there is a packet, which
  is why a start never finds an empty queue.
- `StoredFrameMatchesPhase`: a running node holds a stored frame only while in
  RECEIVE, so a listening MAC that hears a frame never overwrites one.

`ControlInit` and `ControlStep` show that it is inductive: one lemma per group of
actions, in it one step per action, under it one per conjunct the action can
disturb. The invariants of the runs follow from `ControlInvariant`, the two action
properties from it and `StoredFrameStep`. `PhaseServed` also needs that each packet has one
try (`OneTry`): a handler that enters TRANSMIT counts the last try, so that the end of it
leaves no packet to set the start timer for (`OneTryStep`).

**Packets.** `ORWMacPacketProofs` first shows that a handler does one of five things to the
queue, the current frame and the outcomes (`PacketStep`): queue a packet, take one that
finds the MAC empty, take the next, end a try, or nothing (`HandlerPacketStep`, from
`ControlInv`: a packet taken is there, and a stop drops none). What follows is about these
five only, so that the two-radio MAC needs no more than a lemma of its own that its
handlers do nothing else either.

**Custody.** `PacketStepKeepsCustody`: `TailElements`, `AppendElements` and `EnqueueElements`
say what the queue operations do to the set of queued packets and to its having no
duplicates; `SetupTransmissionCustody`, `EnqueueCustody` and `CompleteCustody` lift that to
the helpers.

**Refinement.** `PacketStepPromised`, then `Spec => KeepsLinkPromise`: the initial states
map, and every step maps to a step of `LinkPromise` or leaves line and outcomes as they are.
`FrontOfLine`, `HeadInFront` and `AppendBehind` relate the line to `currentTxFrame` and
`txQueue`; each of the five steps then has a lemma saying which abstract step it is. That a
packet accepted is new needs `Custody`.

### The network layer

`ORWRoutingProofs` and `CostGradientProofs` prove every safety
property of the runs `routing` and `cost_gradient`, for every set of nodes, packets and
senders, every initial hop limit up to 255, every history size and number of sequence
numbers, and every set of costs. Their assumptions are `ORWRoutingAssumption`,
`NoPacketAssumption`, `CostGradientAssumption` and `NoOfferAssumption`.

- **Slot.** `SlotInv`, `TypeOK` with `SlotServed`, is inductive: that the timer is never
  set twice (`TypeOK`) needs that a node that is down has none pending (`SlotServed`).
- **Hop limit.** `HopChain` is inductive relative to it.
- **Duplicates.** `DuplicateWindow` needs that the history ends with the records of the
  latest deliveries in their order: an insertion moves a record to the back,
  so what was delivered recently is still there. `FalseDuplicateOnlyAfterWrap` needs
  that the i-th packet of a node has number i - 1 modulo the number of sequence numbers, over stops and
  crashes, and that frames and deliveries carry the number their packet was given.
- **Table over routing.** `GradientStepImplements` maps every action of `CostGradient` to
  one of `ORWRouting` or to a stutter. `TableImplementsRouting` follows, and with it all
  theorems about `ORWRouting` hold with the table.
- **Loops.** `PathInv` ties a way's length to its hop limit. `DescentInv` adds that along
  any stretch of a way over converged nodes the cost falls (`Falls`), and that a frame's
  threshold is below its transmitter's cost if that has converged (`Priced`,
  `CheaperThanSender`), or the frame has none and then only a node with a route relays it;
  the hook compared against that threshold whenever it was that it answered. A strictly
  falling cost cannot return to a node. It needs a positive forwarding cost and fails
  without one.
- **Dead ends.** `DeadEndsAreAskedFor` follows from the same invariant, as a frame of a
  converged node with a route has a threshold below `NoRoute`.

`OrplRoutingProofs` proves every safety property of its runs from `OrplAssumption` and
`OrplNoPacketAssumption`, for every network, all costs, any number of packets, hellos and
encounters, and any bound on the frames in air.

- **Routing sets.** `SetsInv` is inductive once the estimates have settled. Its parts:
  what a node has learnt lies below it (`LearntBelow`); of a direct neighbour it
  remembers a cost that the neighbour has reported (`MetAsReported`); every frame, however
  old, reports a cost of its sender and shares only addresses that cost no less
  (`FramesSound`). The root needs care: it reports 0, or the least cost of a hop in
  a packet that it sends on, and both are below any cost off the root, so that nobody
  shares the root. `CostKept` is the only step that uses `Settled`. Where the two tables
  know an address at different costs, both are at least the node's own and a
  forwarding cost, so neither excludes it (`NoneExcluded`).

- **Downwards acceptance.** `AcceptedBetween` needs what `SetsInv` says of the tables at the
  moment the hook is asked: a routable destination was met, at a cost it has reported and at
  least half of the node's estimate (`ImmediateNeighborBelow`), or learnt below the node
  (`RoutableAbove`). With the destination's own cost in the place of what it reports the
  property was false for packets to the root, which reports a hop's cost in what it sends on.
- **Loops.** `PathsInv` says that along each stretch of a path that keeps its direction costs
  fall on the way up and rise on the way down (`PathInOrder`), that a frame going up asks
  for less than its sender costs, or has no route to ask for, or is from the root
  (`Climbs`), and that whoever has accepted a frame is on its side of the sender, or has no
  route and can only turn the packet down (`Closer`, `ForwardedInOrder`). `PathExtended` adds
  a hop; `InOrderTurns` concludes that a node that two hops share has a turn between them.
  A repetition with the threshold 0 (`RepeatedInOrder`) leaves that true because every cost
  off the root is positive.

### The two-radio MAC

`WakeUpMacProofs` proves for `WakeUpMac` what `ORWMacProofs` and `ORWMacPacketProofs` prove
for `ORWMac`, from the same assumptions and `WakeUpAssumption`: no handler throws, each
phase has the timers and the radio that end it, at most one radio is on, no packet is lost
track of, and the network layer sees the same line of packets. `KeptFrames` is proved for it
as well: here packets are retried.

`WakeUpInv` has the parts of `WakeUpPhaseServed` as conjuncts (timers, backoff, waits), with
`OneRadioOn` and three facts that TLC is not asked about separately: where each radio is in
each phase (`RadiosMatchPhase`), which timers may be due now (`WakeUpTimersDue`) and
`StoredFrameMatchesPhase`. They only hold together: that no switching radio is told to
switch depends on which radio is active, that on the phase, and the phase on the timers, of
which `receiveTimeout` serves four waits. There is one lemma per group of actions, in it one
step per action and under it one per conjunct the action can disturb.

An inherited handler is the same action with the wake-up radio's state unchanged.
`WakeUpPacketStep` shows that every handler, inherited or not, does one of the five things
of `PacketStep` to the packets; custody and the refinement then follow from the lemmas about
`ORWMac`.

### The energy monitor

`EnergyMonitorProofs`: `MeasuresWhileUp` and `MonitorTypeOK` are inductive given one fact
about the MAC: a handler that stops the node starts no reception (`StopStartsNothing`, over
all 28 actions), or a monitor that the stop has paused would be resumed. Whatever signal
finishes a measurement, `Completes` has a consumption for it (`FinishEnds`).
`MonitorOnlyListens` says that the composition is an `ORWMac`, which carries the theorems
about `ORWMac` over to it. No assumption about the MAC's constants is used.

### The hello application

`OrwHelloProofs`: `SilenceBounded` is inductive with the record in the order of its cycles and
not empty once something was sent (`HelloInv`). A start that sends no hello has counted, for
each destination, more records than the rounded expectation since the oldest one; no
destination has more than fit, and the newest record is no older than the oldest, from which
the bound follows (`RoundedBelow`). The list of destinations, the capacity, the rate and
the number of starts are arbitrary.

### Only model-checked

The liveness properties (proofs under fairness are out of the prover's reach) and the runs
that find a violation. Every safety property of a passing run has a theorem.

## 7. Not modelled

`PROJECT.json`, "components", lists every part. Out of reach: joule arithmetic
(`MacEnergyMonitor`, `PacketConsumptionTracking`) and exact costs, which are
real-valued (`CostGradient` and `OrplRouting` have integers that may change). No state to
model: drawing (`ORWRouteCanvasVisualizer`), start-up address assignment
(`ORWNetworkConfigurator`), constant costs (`FixedCostRouting`), the list of hooks
(`IOpportunisticLinkLayer`), data classes, wiring. The encounter counters of
`ORWRoutingTable` decide when and to which real number the estimate changes; as the models
let it change at any time, they would add nothing to what is shown.

Several MACs on one medium are not composed: the acknowledgment window of section 3 is a
matter of milliseconds on both sides, and a model without time can only assume it.

## 8. Plan

Done: all modules of section 2, their runs, and the proofs of section 6, which state every
safety property of the passing runs. What is left:

1. **`WakeUpMac` and `EnergyMonitor`**: the monitor beside the two-radio MAC. The monitor's
   operations and their lemmas can be cited as they are; the signals of the wake-up phases
   are new.
2. **`OrplRouting`**: the length of a packet's path is bounded by the hop limit, as in
   `HopLimitBoundsPath`, and what remains of `AcceptedBetween` while estimates change.
