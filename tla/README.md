# A TLA+ model of the ECHONET Lite to Home Assistant bridge

The repository is a Rust program of one process. It finds the network interfaces
of its host, opens UDP sockets on them, joins the ECHONET Lite multicast group,
announces its node profile and runs until it is told to stop. Around that core it
has a library of node properties: the values a node has (its "EPCs"), each with
conversions between a Rust value and the bytes of the wire.

The bridge is work in progress. What is modelled is what the source does now; a
`todo!()`, a commented-out call or an empty function is modelled as what it is.

Paths are those of the repository: `src/main.rs`, `src/middleware/mod.rs` and so on.

## Inventory

| Component | Source | State | Operations | Correct when |
|---|---|---|---|---|
| Main task | `main.rs` | where the task is; the signal streams; the interval | set up, the four arms of `select!`, take down, error returns | it listens before it talks, announces itself once, exits when asked, leaves nothing open |
| Middleware and channel | `middleware/mod.rs`, `events.rs` | a bounded channel of 16 events | `startup` (two sends), `shutdown` (one send), receive | no send waits for room only its own task can make; nothing but shutdowns is dropped |
| Network connector | `connectors/echonet.rs`, `mod.rs` | `ilas`: per interface its sockets, each with an address, a port, `multicast_selected` and an `Option<UdpSocket>` | `new`, `initialise`, `connect`, `disconnect`, `send` | the list is whole or absent; one group member per family and interface; every membership given up |
| Configuration | `config.rs` | `AppConfiguration`, read once | deserialisation with defaults | what is left out has the documented default |
| Property map | `middleware/api.rs` | an 8 x 16 bit matrix and, beside it, a count | `enable_operation`, `disable_operation`, `disable_all`, `copy_from`, `from_bytes`, `decode` | count and matrix agree; the wire form reads back |
| Property value store | `middleware/epc_types.rs` | `last_value` (EPC, PDC, data), `last_updated` | `from_canonical`, `to_canonical`, `set`, `get` | header right; failing calls change nothing; what is stored is valid |
| Conversions and factory | `epc_types.rs`, `api.rs` | none: three closures per property | encode, decode, validate | the three agree |
| Fault descriptions | `api.rs` | none | `to_u16`, `try_from_u16` | inverse to each other |
| HexString | `api.rs` | its characters | `new`, `from_bytes`, `decode`, `decode_into_slice`, `From`, `TryFrom` | a value stays the same number and is refused only if it does not fit |
| Node registry | `middleware/mod.rs` | `Node`, `NodeObject` | built by `Middleware::new` and never changed | - |
| Wire frames | `connectors/wire.rs` | - | not part of the build | - |
| Converters, macros | `converters/mod.rs`, `crates/macros` | - | empty; compile-time size derivation | - |
| Command line, logging | `main.rs` | - | I/O | - |

**How they interact.** `main` reads the configuration, calls `initialise` and
`connect` on the connector, then `startup` on the middleware, which puts `Startup`
and `Announce` in the channel. The loop selects between the two signal streams,
the interval and the channel; `Announce` goes to `Network::send`, `Shutdown` leaves
the loop, and `disconnect` follows. `Middleware::new` builds one node object with one
property through the factory. Everything runs in *one* task: there are worker
threads, but nothing is spawned. What is concurrent with the task is the operating
system: signals, the timer, interfaces that go away or come back under another index, calls that fail.

**What is hard.**

* A signal may come at any await. Its handler *sends* to the channel whose only
  receiver is the task the handler runs in.
* `break` drops whatever is still queued.
* `connect` and `disconnect` are loops of fallible calls with early returns.
* `initialise` builds a list in a `HashSet` keyed by interface index, taking entries
  out and putting them back, and selects members by a packed sort key.
* The property map keeps a count that is never recomputed.
* `HexString` adds and strips padding, and decides by looking for padding whether a value fits.
* The property store trusts three closures to agree about a buffer, with the header
  counted or not; many of them do not.

PROJECT.json lists each hazard with its line and the properties that guard it.

## Modules

```
Lifecycle      what the bridge promises (abstract)
   ^ implements
Bridge  ---- EXTENDS ----> Connector, Middleware
   ^                          ^ implements (initialise = SaveSockets)
BridgeProofs               MCInterfaces --> Interfaces --> Config
                                                ^
                                          InterfacesProofs

PropertyMap <-- MCPropertyMap, PropertyMapProofs
   ^ instance
EpcCodecs --instance--> HexDigits <-- HexString <-- MCHexString, HexStringProofs
   ^
EpcProperties --> FaultDescription
   ^
   +-- FactoryProperty --> NodeProperty <-- NodePropertyProofs
          ^         ^                           ^
   MCNodeProperty   EpcProofs <-- ConversionProofs <-- FactoryProofs
                                        |
                                        +--instance--> PropertyMapProofs
```

`EpcResults` holds the outcomes of a call, for `HexDigits`, `EpcCodecs`, `FaultDescription` and `NodeProperty`.

### Bridge, Connector, Middleware, Lifecycle

`pc` is the await the main task is at. `queue` is the channel. `pending` is the set of
signals that tokio has recorded and the task has not received (signals of a kind
merge), `delivered` counts deliveries up to `MaxSignals`. `tickDue` says that the interval has
elapsed; `interval.tick()` fires at most once for each period. `sent` counts what
`Network::send` was given.

| Action | Code |
|---|---|
| `Initialise`, `InitialiseFails` | `main.rs:92`, `Network::initialise` succeeding or not |
| `ConnectSocket`, `ConnectFails`, `Connected` | one round of the loop of `connect`; its early return; its end |
| `SendStartup`, `SendAnnounce` | the two awaits of `Middleware::startup` |
| `HandleSignal`, `SendShutdown` | a signal arm up to the await, and the await of `Middleware::shutdown` |
| `HandleTick` | the interval arm, which only logs (the announcement is commented out) |
| `RecvStartup`, `RecvAnnounce`, `RecvShutdown` | the event arm |
| `DisconnectSocket`, `DisconnectFails`, `Disconnected` | one round of the loop of `disconnect`; its early return; its end |
| `Unwind` | a `?` of `main`: its locals are dropped, and with them the sockets |

In `Connector` a socket is its position in the order of the nested loops; the length of the
list and the selection are arbitrary. `Lifecycle` has neither a channel nor sockets: phases
starting, online, stopping, down and aborted, an announcement counter, and whether the
process was asked to stop. `Bridge` implements it under `phaseBar`.

### Interfaces and Config

`Interfaces` is `Network::initialise` one `getifaddrs` entry at a time. `Config` is what serde
makes of the `network` section: a section left out takes the struct's `Default`, a field left
out of an entry the default of its *type*. An address is its family and its class (link-local, local,
global, other, loopback): that is all the code asks of it. `found` is the local
`HashSet`, `ilas` the field that `connect` can see, and `listened` remembers which entries got a socket
and under which index they were read.

| Action | Code |
|---|---|
| `Listen` | `echonet.rs:211-279` for an entry that passes the filters: its name is looked up and the socket pushed |
| `Skip` | the `continue`s |
| `LookupFails` | the `?` of `if_nametoindex` |
| `Renumber` | the kernel: a device is removed and made anew while the answer of `getifaddrs` is read |
| `EndScan`, `SelectMulticast`, `Save` | the end of that loop, one round of the next, the assignment to `self.ilas` |

A device is named by its first index. Linux counts its indices up, so `Renumber` gives a larger one than any in use.
`ImplementsConnector` says that `initialise` does to the connector's state what `Connector!SaveSockets` says and nothing else: a
socket of the list becomes its position in the order in which `connect` visits it, which is the number of sockets not after it (`Round`).

### PropertyMap

`operations` is the matrix as the set of its cells, `operations_count` the count, `outcome` what the
last call returned. Several maps exist so that `copy_from` has something to copy from. The
matrix is Rows x Cols, the list form is used below `ListLimit`; the code's values are 8, 16, 16.

### NodeProperty, EpcCodecs, EpcProperties, FactoryProperty

`NodeProperty` is the store, with the closures as constants: what it promises for *any* closures and
what only for closures that keep a contract. `EpcCodecs` has the closures of each family,
`EpcProperties` those written in place in the factory and the factory's table. `FactoryProperty` puts the two together: the canonical
values of each kind, as the members of its Rust type, what a caller and a peer can expect of a property that the factory makes, and
for which values, data and kinds they cannot; `MCNodeProperty` has only the values for TLC. A call ends
in `Ok`, `Err` or `Panic`; a slice out of range, an `unwrap` of an error, `unreachable!()` and `todo!()` are
`Panic`. `written` remembers the canonical value that `from_canonical` stored last, so that a state can
be compared with what was asked for. A float is a class and, if finite, a number of half
steps of the property's precision; a `HexString` is its digits, encoded and decoded by `HexDigits`; a fault is a variant with its
number, converted by `FaultDescription`. `PropertyFactory` decides by class and EPC which property is made.

### HexDigits and HexString

`HexDigits` has the functions of `HexString`, over digits of any base (16 in the code; an upper-case letter is a
digit of its own, since the text keeps it). The padding loop of `decode_into_slice` is translated as it stands, with
its test of `internal[i + i]`. `HexString` is a value on its way through these functions: `form` says whether it is text, a
HexString or bytes, `held` what it is now, `denotes` what it came in as, and `result` the last call. The constant `MayDecodeInto` says
which buffers callers offer: `CarefulCallers` describes callers that leave room for the whole value, which all callers in
`epc_types.rs` but that of the fault code do, or whose value has padding that the loop judges right.

## Runs

| Run | Expect | Question and answer |
|---|---|---|
| `bridge` | pass | The process with the channel of 16, up to 14 signals at any await, up to two sockets, every failure. It listens on every socket and is a member exactly where selected from the first event on (`Listening`); the announcement is out when the loop is left and only shutdowns are thrown away (`FlushedAtBreak`); no send finds the channel full (`NeverBlocked`); nothing is left open (`NothingLeaked`); it implements `Lifecycle`, announces itself, and exits after any signal. |
| `bridge_flood` | violation | With 15 signals the process hangs: see finding 1. |
| `bridge_offline` | violation | The offline announcement that the architecture document promises is never sent. |
| `interfaces` | pass | Lists of up to three addresses over two devices and an alias, either of them renumbered between two entries, each flag set and cleared, five configuration files, a lookup that fails anywhere. The saved list is whole (`SavedWhole`), the member of each family is unique and the first address of the best class (`OneMember`), a device has one member for each index it was read under and no more (`MembersPerDevice`), and the connector sees the list appear at once or not at all (`ImplementsConnector`). |
| `interfaces_port` | violation | An interface entry without a port listens on port 0. |
| `property_map` | pass | Two maps, any calls, wires without repeated entries: count exact, wire form reads back, Boolean results truthful. |
| `property_map_repeated` | pass | The same with every wire: the count drifts upwards only, and decode stays inside its buffer. |
| `hex_string` | pass | Any sequence of conversions by careful callers: a value stays the same number (`NumberKept`), has the length that was asked for (`LengthAsAsked`), and is refused only if its digits do not fit (`RefusesOnlyMisfits`). |
| `node_property` | pass | All 32 properties of the factory, any calls: header, failures, a peer's property maps (`MapsUnderstood`), and, but for the values, the data and the stores named below, round trip through the store, conversions inverse to each other whatever the validator says (`ConvertsBackElsewhere`), acceptance, validity and absence of panics. |
| `round_trip_instances` | violation | An instance list of two reads back wrong. |
| `accept_status` | violation | ON and OFF are refused. |
| `stored_unchecked` | violation | `set` stores data its validator answered `Ok(false)` for. |

### Bounds, and why they are enough

* **Bridge.** The capacity is the real one. A signal may merge with one already pending or be handled at
  once; 14 is the largest number for which the proof says no send can block, and 15 the smallest for
  which one does, so both sides of the edge are run. Two sockets let one
  succeed before another fails and let selections differ; the proofs hold for any number.
* **Interfaces.** Three addresses allow two of one family on an interface plus one
  of the other, or one on each of two interfaces, or one device read under two indices. There are entries for an alias of the first
  interface. The third index lets one device be made anew while the other stays. `MaxEntries` bounds the addresses that get a socket. The sort
  key separates the classes up to a thousand of them, which no run reaches; the proofs say where that number matters, and the assumption `KeysOverlap` of
  `MCInterfaces` shows that beyond it the choice is wrong.
* **Property map.** 2 x 3 cells with the list form below 3 (2 x 2 in the second run) keep the shape of the code: both wire
  forms occur, the limit lies inside the range of counts, and wires have wrong lengths, bytes that are not
  operations and wrong counts. The proofs hold for every matrix of up to eight rows (a column is a byte of the wire) and any number of columns.
* **Node property.** Values at both ends of each range, just outside it and in the middle; years of more than 16
  bits; faults with a high byte and with an index beyond its group; maps of 0, 3, 14, 15 and 16 operations; data of peers is what
  this program would send, a byte short, a byte long, and short values of every sort. A
  call depends only on the stored value, so the graph is shallow but complete for these values.
* **Hex string.** Base 3 with one letter has a zero, a digit that is no letter and a letter in both cases. Texts of up to six
  characters and slices of up to three bytes against lengths from 0 to 4 give values with up to three bytes of padding, decoded and
  encoded with room, exactly, and without. The proofs hold for every base and length.

### Fairness

`FairSpec` assumes weak fairness of the main task's steps and of each `select!` arm. The executor polls
a task that is ready; `select!` polls its arms in random order, so an arm that *stays* ready is taken in the end.
Signals stay recorded until received, the tick and the channel stay ready, so weak
fairness is enough. Nothing is assumed of the environment: no signal need ever come.
`Initialise` and its failure are one disjunction: the call returns, but not necessarily well.

### Deadlock

`Interfaces.cfg` and `InterfacesPort.cfg` switch the check off since `initialise` returns. `BridgeFlood.cfg` does because the hang is
what it shows. `Bridge` and `NodeProperty` have a stuttering step for the ended process.

## What the code does otherwise

Six runs end in a violation; the findings of PROJECT.json quote the text each contradicts.

1. `main.rs:106` - 15 signals before the start-up events are received fill the channel, and the task waits for room
   that only it could make.
2. `middleware/mod.rs:558` - nothing announces that the bridge goes offline.
3. `config.rs:50` - a port left out is 0, not 3610.
4. `epc_types.rs:981` - entries of an instance list are read with a stride of one.
5. `epc_types.rs:398` - the Boolean validator compares the EPC instead of the data.
6. `epc_types.rs:263` - `set` ignores `Ok(false)`.

These properties of the store and others fail for more values and kinds. `FactoryProperty` lists what
is excused from each property: values (`Altered`, `Refused`, `Perilous`), data (`Unreadable`), and in one case kinds
(`UncheckedKinds`), whose values are still held to the property when they come through `from_canonical`. The assumption `DeviationsAreReal` of
`MCNodeProperty`, which TLC evaluates, shows that nothing is excused without need: of the values of the run every one excused for changing does change or
cannot be written, every one excused for being refused is refused, and so on. Naming one kind in the cfg of the corresponding run gives the counterexample.

| Property | Excused | Why |
|---|---|---|
| `RoundTrip`, `ConvertsBack` | instance and class lists of more than one | stride, `epc_types.rs:981` |
| | device version | written to bytes 3 and 4 of the data, read from 1 and 2, `:1178`, `:1183` |
| | fault code | the manufacturer code is right aligned in all of the data and then overwritten, `:1247` |
| | property map | no room for the header, `:918` |
| | location with a number other than 7, user defined | the number is or-ed with 7 and into the place, `:1055`; four bytes without room for the header, `:1070` |
| | date with a year outside 0..65535 | cut to 16 bits, `:780` |
| | fault with a high byte; "no error" | the high byte is always read as zero, `api.rs:206`; then 0 falls into the branch of the low byte, which has no 0, `:207` |
| | fault with an index beyond its group | added without a bound, `api.rs:247` |
| `RepresentableIsAccepted` | both values of a Boolean property | `:398` |
| | the two largest instance counts and all above | the validator refuses both sentinels, the one it encodes to among them, `:635` |
| | identification number | header counted, EPC compared, `:1211` |
| | fault content | resolves the stored value and not the one validated, `:1315` |
| | installation location, user defined | encoded in four bytes, the validator wants three, `:1125` |
| | duration | cannot be encoded, `:865` |
| | property map of one operation or none | the missing header leaves fewer bytes than the validator asks for, `:918` |
| `NeverPanics` | encoding a duration that has an amount | the amount is copied to `internal[3..8]` of a buffer of seven bytes, `:865` |
| | encoding the location "location" | `todo!()`, `:1075`, `:1078` |
| | encoding a fault code whose manufacturer code is shorter than three bytes | with a short fault code the slice from the sixth byte starts after the end, `:1249` |
| | reading a location that has a number and no place, or no data | its byte reaches `unreachable!()`, and the validator lets it through, `:1116` |
| `StoredIsValid` | what `set` stores of instance lists, class list, installation location | the validator answers `Ok(false)`, `:263` |
| `MapsUnderstood`, accepted | list of 15 operations | its PDC is 16, the validator wants less, `:925` |
| | bitmap (16 operations and more) | its 17 bytes are compared with the length of the whole buffer, `:925` |

A property map of two operations and more is accepted although its bytes have no room for the header: the header is then written over them, and what is
stored has the length of a valid map by chance. It is another map, and so among the values that change.

`decode_into_slice` misjudges padding in four ways when the buffer is shorter than the value (`api.rs:547`, the assumption
`PaddingMisjudged` of `MCHexString`): it panics on a run of zeros that fits, and on one that does not, lets a value lose its leading digits, and refuses
a zero. The one caller that may offer such a buffer is the fault code's.

A device that is made anew while `initialise` reads the addresses is listed as two interfaces, and joins the group for each
(`echonet.rs:255`); `MembersPerDevice` says that this is the only way to have two members of a family.

A property map read from a list with a repeated entry has a count that is too large, and what decode then
writes is not accepted by `from_bytes` (`api.rs:824`): the assumption `RepeatedListIsNotReadBack` of `MCPropertyMap`.

## Proofs

The theorems hold for every value of the constants under the assumptions that the modules name.

**BridgeProofs.** `Inv` is `TypeOK /\ SocketsAt /\ QueueAt /\ Budget`. None of the properties is inductive
by itself: where the task is says how far the socket loops have come
(`SocketsAt`: the sockets below the cursor are open and the selected ones among them joined, or closed and left),
what the queue may hold in front of and behind the announcement (`QueueAt`), and that the
queue, the pending signals and the shutdown under way together never exceed the signals delivered plus the start-up events still
queued (`Budget`). From it follow `TypeCorrect`, `AlwaysListening`, `AlwaysFlushed`, `NeverLeaks`;
with `MaxSignals + 2 <= Capacity` also `RoomSuffices`, the general form of why 14 signals are
harmless; and `LifecycleImplemented`, step by step.

**PropertyMapProofs.** `TypeOK /\ CountDrift` is inductive: whatever the wires, the count is
never less than the cardinality and exceeds it by less than the list limit. `NeverOverruns` follows. The list form
is handled by the cardinality of an image: no larger than the list, and equal to it when nothing repeats.
With `DistinctWires` - no accepted list repeats an entry - `CountIsExact`, `ReportsAreHonest` and `WireReadsBack`: whatever map calls
have led to, `from_bytes` accepts what `decode` makes of it and gets it back. For the list form this is the exact count and an enumeration without
repetition; for the bitmap, that a byte that is a sum of different powers of two shows each of them by division (`BitsOfByte`). The recursion
that a sum would need is avoided by writing the eight bits out, which is why a matrix has at most eight rows.

**NodePropertyProofs.** The store for *any* closures. `Tagged` says that closures return one of the three results. It gives types,
header and `WrittenIsKept`: what is read is the decoding of the encoding of the value written last, whatever failed in between. `FailuresKeep`
needs nothing. `StoredValid` says which contract of one kind buys the validity of a store of that kind, and nothing about the
other kinds. `LooksAtBytes`: the validator does not look at the stored value. `AnswersTrue`: it answers `Ok(TRUE)` or no `Ok` at all, which only `set` depends on.
`NeedsStored`: it accepts only when a stored value can be read, so that nothing is ever stored. `PanicsHaveCauses` says where a panic can come from: an encoder, a
validator, or the decoder on bytes that the validator once answered `Ok` to, which is what `AcceptedInv` remembers of them.

**EpcProofs, ConversionProofs, FactoryProofs.** The store with the closures of the factory. `EpcProofs` shows which kinds keep which contract and which closures panic on what, for
every sequence of bytes. `ConversionProofs` shows, for every canonical value of the Rust type, that decoding is the inverse of encoding
(`UnalteredBack`), that what a type can hold is accepted (`RepresentableAccepted`), and that a peer's property map is understood (`MapUnderstood`,
with the lemmas of `PropertyMapProofs` instantiated for the code's 8 x 16 matrix). There is one lemma for each family of properties; numbers are
compared byte by byte, as no number has more than four. `FactoryProofs` combines these with the contracts: `CheckedIsValid`, `CalmIsCalm`, `ConversionsAgree`,
`WrittenReadsBack`, `HeldIsAccepted`, `PeerMapsUnderstood`. What is excused is what the
table above lists, and `DeviationsAreReal` shows on the values of the run that nothing is excused without need.

These theorems have the hypothesis `FactoryClosures`: the constants `ToCanonicalFn` and `ValidatorFn` of `NodeProperty` are `Decode` and `Validate` on every byte
sequence. `NodeProperty.cfg` substitutes just these, so it holds there by definition; TLC cannot evaluate it, since it ranges over all sequences, and it is
therefore a hypothesis and no assumption of the module. `FactoryAssumption`, which TLC evaluates, says the same of `FromCanonicalFn` and that the
canonical values are of the right type.

**HexStringProofs.** With `CarefulCallers` all four properties are theorems, for every base, text, slice and length. The inductive invariant
is the four of them together, with `NumberKept` said of every place: that a value keeps its number while padding is added needs the type of what is held, and that a refusal is
justified needs that the number was kept so far. Numbers are compared digit by digit from the right
(`Place`), so that no sum over data is needed. `JudgedRight` is the lemma about the padding loop: when it stops at a pair that is not 00, with zeros in
front of it, what follows has the value's digits. Without `CarefulCallers` the assumption `PaddingMisjudged` refutes the theorems.

**InterfacesProofs.** `Inv` is `TypeOK /\ Gathered /\ Published /\ Numbered`. `SavedWhole` speaks of the list that is saved, so it says nothing of the
steps before: `Gathered` says of the local list, at every step, what `SavedWhole` says of the saved one; `Published` that the two are the
same at the end and that nothing is visible before; `Numbered` that a device that has its first index was never read under another.
`Settled` adds that an interface has no member before its round of the multicast loop and the right one after it. `TypeCorrect` and `ListIsWhole` need no
assumption; `MemberIsFirst` and `MembersCounted` need `FewAddresses`, at most a thousand addresses, since position and class share one sort key (`KeySeparates`).

`ConnectorImplemented` adds `Counted`: the number of sockets in the local list is the number of entries that got one, hence within the connector's
bound. The positions of the sockets are cardinalities, so that the list need not be flattened by recursion, and lie between 1 and that number (`RoundInRange`).

**Only model-checked.** The liveness properties (`AnnouncesItself`, `SignalLeadsToExit`), which need fairness. That the excuses are real (`DeviationsAreReal`,
`PaddingMisjudged`, `RepeatedListIsNotReadBack`), that the sort keys of addresses meet beyond a thousand (`KeysOverlap`), and the six violations: these are
counterexamples, which TLC shows on the values of the runs. Every other property that a passing run
checks is a theorem, under the assumptions named.

## Not modelled

* Network input: `recv` is `todo!()`, and no code reads a socket. `send_multicast` sends nothing and `to_wire` yields an empty vector, so
  a message sent is a counter.
* The second tick and later announcements: the arm only logs.
* Netmask and network of an address, computed and not read; an address without a netmask, which would end the process at
  `echonet.rs:267` and which Linux does not report.
* Names, access rules and the announce flag of a property. No code reads them. (The
  instance list notification announces although neither operation is supported, which the comment at `api.rs:149` rules out.)
* The arguments of the installation location that are `todo!()`, beyond the fact that they panic, and the
  inexactness of floating-point division.
* The node registry. `Middleware::new` builds one node object with one property and nothing looks at it again: there is no state to go wrong.
* Wire frames, which are not part of the build; converters and macros, which are empty or run at compile time; command line and logging, which are I/O
  without state.

## Plan

Done, in this order: (1) `Bridge` with `Connector`, `Middleware` and `Lifecycle`, and its proofs;
(2) `PropertyMap` and proofs; (3) `NodeProperty`, `EpcCodecs`, `EpcProperties` and proofs; (4) `Config` and `Interfaces`; (5) `HexString` with proofs, and
`HexDigits` and `FaultDescription` below the conversions; (6) all of the factory's properties, data of conforming peers, years and faults beyond their
width; (7) renumbering in `Interfaces`, and its proofs; (8) the refinement of `Connector` by `Interfaces`, the wire form of a property map, and the conversions
of all the factory's properties, proved.

Next:

1. A theorem without `CarefulCallers` that says which of the properties of `HexString` still hold, for callers that leave room but pad wrongly.
2. The excuses as theorems: for each excused family a lemma that a value is really altered, for every such value and not only those of the run.
3. The network of an address, once the code compares it; the access rules and the node registry, once something uses them; the
   wire frames, once they are part of the build.
