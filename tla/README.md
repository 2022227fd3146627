# TLA+ models of sdroxide: station interlock, Icom stream, AtCHAT net

sdroxide drives several radios from one process. Whatever else it does, it must
never put two of them on the air at once by its own doing, never put RF into an
antenna relay or a band filter that is still moving, and never leave a receiver
behind a relay that is still thrown. The code that answers for this is small,
spread over four crates, concurrent, and talks to hardware that may not answer:
it is the core of what these modules model. Around it are two protocols of the
program's own, where a lost or late packet does what no test arranged: the
reliability layer of the Icom LAN client, and the AtCHAT net, in which stations
elect a master and pass files over a channel that drops frames.

Line references are to files under `src/crates/`.

## 1. The program

### Components, their state and how they interact

| Component | State | Operations | Hard part |
|---|---|---|---|
| Transmit gate, `sdroxide-radio/src/tx_gate.rs` `TxGate` | one atomic word: the radio that may transmit | `try_acquire`, `release` | every path on to and off the air must pair them |
| T/R switch hub, `sdroxide-radio/src/tr_switch.rs` `TrSwitch` | a bit per radio (atomic), the driver slot and the bands (mutexes), the open error | `key`, `unkey`, `abort`, `publish`, `set_rx_band`, `set_tx_band`, `over_ended`, `install`, `refusal`, `take_sense_edge`, `test` | bit first and lock second: two radios' calls interleave between the two |
| Relay worker, `sdroxide-relay/src/driver.rs` | `Sequencer` (schedule, bands, beliefs, failures), its channel, its thread | `Ctrl` messages, `run`'s loop, `RelayHandle::drop` | a schedule in time, over a link that blocks; a dropped handle is joined |
| Relay transports, `sdroxide-relay/src/{serial,dcttech,gpio}.rs` | the mask last written | `apply`, `read_back` | several commands per write, any of which may fail |
| Relay configuration, `sdroxide-types/src/relay.rs` | roles, leads, holds, polarity, band table | `max_lead_ms`, `band_mask`, ... | resolved once, by `Sequencer::adopt` |
| Engine, `sdroxide-radio/src/engine.rs` | `state.tx`, `tx_active`, `rig_tx`, `cw_gate_until`, `relay_pending`, reported band, and everything else a radio has | `sync_tx_state`, `deny_tx`, `SendCw`/`AbortCw`, `adopt_rig_tx`, `poll_tr_switch`, `sync_relay`, `adopt_source`, the exits of `run` | many ways on to the air, many off it, some in the middle of a handler |
| Icom LAN stream, `sdroxide-icomnet/src/stream.rs` | 16-bit sequence numbers, gaps, a retransmission buffer | `send_tracked`, `poll`, `accept`, `request_missing`, `serve_retransmit` | loss, duplication, reordering, wrap-around |
| Icom session, `sdroxide-icomnet/src/net.rs` | login, token, three streams | connect, keep alive, reconnect | an answer for a connection already given up |
| AtCHAT station, `sdroxide-atchat/src/protocol/station.rs` | role, master, backup, roster; a transfer out, transfers in, waiters for a status | `beacon_loop`, `master_watchdog`, `age_roster`, `handle_frame` and its handlers, `send_bulk`, the resumes of `on_bulk_status`, `start`, `drop_link`, `reconnect` | who is master after a loss; each task decides under one lock and acts under another; a status that comes while nobody, or somebody else, waits |
| AtCHAT channel, `sdroxide-atchat/src/channel/{core,radio}.rs` | clients, a queue per client, the busy channel | `submit`, hearing a frame | who hears what differs between the virtual channel and the radio |
| FT8/JS8 sequencing, `sdroxide-digi/src/{qso,controller,js8_controller}.rs` | step, partner, reports, queue | `on_rx`, `tick`, `plan_tx`, `note_tx_sent` | messages repeated and missed |
| AX.25 data link, `sdroxide-ax25/src/state.rs` (vendored) | sequence variables, timers, queue | frames, T1, T3 | the classic one |
| Winlink, packet, KISS and VARA hosts | sessions over a link that breaks | turn taking | partial transfers |
| Server and client sessions, rigctld, TCI, WSJT-X | clients, the radio roster | attach, edit, detach | roster edits under open sessions |
| Scanner, CAT, amplifier and rotator links, other streams | per-device polling | - | retries |
| Receiver front ends, DSP, modems, UI, astronomy, stores, on-line services | - | - | numeric, presentation or device I/O |

    operators, rigs, controllers
          |  PTT, text for the rig's keyer, CAT reports, dials, a microphone
          v
    Engine (one thread per radio) ---- try_acquire/release ----> TxGate (atomic)
          |  key, unkey, abort, publish, set bands, install
          v
    TrSwitch (a bit per radio, then a lock on the driver)
          |  Ctrl messages, in order; Drop sends Shutdown and joins
          v
    relay worker (thread): Sequencer --> transport --> contacts
          ^                                   sense line (one-place slot) --> Engine

    Icom rig <--- UDP: loses, repeats, reorders ---> Stream (tick, poll) --> front end

    AtCHAT tasks of a station: beacon_loop, master_watchdog, send_bulk, resumes
          |  send_frame waits for the channel              ^  handle_frame
          v                                                |
    one shared channel (virtual, or a radio): some hear a frame, some do not

Everything an engine does within a handler is sequential; between two engines,
and between an engine and the worker, only the gate's and the hub's atomics, two
mutexes and one channel order anything. The engine deliberately sleeps out the
lead between telling the worker and starting its carrier
(`engine.rs:13265`); nothing answers back.

### What makes each component correct

- Gate: one driven transmitter; a claim ends with what it was taken for.
- Hub: the worker's on-air state becomes the OR of the bits; the filters follow
  the radio that keyed and stay there; the slot can be rebuilt under the engines.
- Worker: a contact is thrown before the RF by the whole lead, does not move
  under it, and is held after it; what it believes of the board is true; hardware
  it gave up on is left alone; it goes away leaving everything in receive.
- Engine: every route on to the air takes both claims, every route off it gives
  both back, whichever rail, failure, swap or exit cuts it short.
- Icom stream: each sequenced packet is handed over at most once; the receiver
  knows which packets it lacks, across a wrap too; no gap is asked for for ever.
- AtCHAT election: a net that is split, however it came to be, ends with one
  master; a net without one gets one, or its backup takes over.
- AtCHAT transfer: the sender takes a file for sent only if a receiver has every
  block of it and has saved it, or logged why it could not; what is sent again
  neither multiplies nor stops short of the file.

## 2. Modules

| Module | Models | State and actions against the code |
|---|---|---|
| `Radios` | the radios | constants only |
| `TxGate` | `tx_gate.rs` | `owner` is the atomic word; `Acquire` and `Release` are its two compare-and-swaps |
| `RelayContacts` | what the worker promises the engines | `inbox` the channel, `closed` the asserted contacts, `engineOnAir`/`senseOnAir` the two halves of the OR; one action per message (a `Test` closes and opens a contact as the schedule does), `Rise`/`Fall` for the schedule, `GiveUp` for a board that stopped answering |
| `TrSwitch` | `tr_switch.rs`, over `RelayContacts` | `bits`, `slot`, `openError`, the hub's `Bands`; `key`, `unkey` and `abort` each as their two steps (claim or release of the bit, then the message); `TestContact` the operator's test button, which goes round the bits. `SenseRadio` is `sense_radio`, always a radio: its band goes to the worker between overs, after one and at `install`, wired or not; `Wired` is whether a sense line is there to be polled |
| `Station` | the engines, over `TrSwitch` and `TxGate` | `pc[r]`/`cont[r]` is where radio r's engine is in a handler and where a hub call returns to; the other variables carry the code's names (`txActive` is `tx_active`, `cwGate` is `cw_gate_until.is_some()`, `want` is `tx.ptt or tx.tune`); `TestRelay` hands the test button to the hub |
| `RelaySequencer` | `driver.rs` `Sequencer` | one action per method; time is the age of the last edge, in ticks |
| `RelayTransport` | `serial.rs` and `dcttech.rs`, and the board | `last` what was acknowledged, `contacts` the coils; `Apply` writes the difference, `ApplyFails` any part of it |
| `RelayWorker` | `run`, `apply_ctrl`, `spawn`, over the two above | `pc` is the place in the loop; a caller that keys, waits the lead out, radiates and unkeys stands for all engines |
| `IcomStream` | `stream.rs`, one direction: the sending half at one end, the receiving half at the other, the network between | `rx_high` and `missing` as in the code; `sent`, `tx_buf` the sender's counter and buffer; `net` and `asked` the datagrams that may yet arrive, any number of times; `top`, `handed`, `repeated` and `forgone` remember what the numbers stood for |
| `AtElection` | `station.rs`: beacons, roster, watchdog, roles | `role`, `master`, `backup` as in the code; `age` is the time since `last_beacon_time` in beacon intervals; `due` and `resolved` hold the tasks between their decision and their act |
| `AtTransfer` | `station.rs`: one file, to one station or to all | `main` is where `send_bulk` stands, `waiter` the entry of `status_waiters`, `resumes` the tasks `on_bulk_status` starts for a late status; `received`, `complete`, `saved` are the receivers' `TransferIn`, `unsaved` those whose `fs::write` failed |
| `AtNet` | `send_frame`, `handle_frame`, the channels, join requests, link loss, start and end of the program, over the two above | each frame goes out as one step to a chosen set of hearers, and every handler it reaches is part of that step |
| `MCStation`, `MCRelay`, `MCIcom`, `MCNet` | instances for TLC | constants, configurations, starting situations, one symmetry set |
| `StationProofs`, `GateProofs`, `SwitchProofs` | theorems about `Station` | section 5 |
| `WorkerProofs`, `OverProofs` | theorems about `RelayWorker` | section 5 |
| `StreamProofs`, `NetProofs`, with `NumberProofs` | theorems about `IcomStream` and `AtNet`; the least of a set of numbers | section 5 |

`RelayContacts` is stated once and used twice: `Station` is built on it, and
`RelayWorker` is shown to implement it (`KeepsPromise`: `asserted` for `closed`,
everything else itself). So the races between engines
are checked without the schedule, and the schedule without the engines.

What is kept apart in `Station`: what the program believes (`txActive`, `rigTx`,
`cwGate`, the bit, the gate) from what radiates (`rf` the carrier the engine
started, `cwRf` a message the rig's own keyer sends, `micRf` a transceiver keyed
at its microphone).

An operator whose comment starts with "Slip:" is not part of any specification.
It is what the definition after it would be with a plausible mistake in it; each
property is run against one, to see that it would notice.

## 3. Runs

`Happens` selects what may occur in a run, so that each can go deep in one
direction; `CHECK_DEADLOCK FALSE` everywhere, because a station whose engines
have all stopped, or a worker that has gone, rightly does nothing more.

| Run | Question | Bounds | Distinct states |
|---|---|---|---|
| `overs` | Do overs driven by the engines, refused after the lead or not, retuned at any moment, keep apart, meet closed contacts and the right filters? `OneTransmitter`, `ContactsLeadRf`, `SwitchFollowsRadios`, `FilterReady`, `NoHotFilterSwitch` | 3 radios, one of them the sense radio, 2 bands, 5 queued messages, symmetric in the other two radios and in the bands | 1.5 M |
| `over_ends` | Does every way an over starts and ends give back the gate and the switch? `NoLeakedClaim`, `StoppedHoldsNothing`, `SwitchComesBack` | 2 radios, 1 band, 4 messages; key-up, refusal, failed start, text, expiry, abort, swapped front end, stop, microphone, CAT | 3.0 M |
| `sense_line` | Does the engine come to agree with a line whose edges overwrite each other? `SenseFollowed`, `TypeOK` | 2 radios, 5 messages | 0.17 M |
| `rebuild` | Does every handler return, and every contact go back, while the switch is reconfigured, fails to open or stops answering? `HandlersReturn`, `ReceiverReturns` | 2 radios, 4 messages; also engines that stop, lose their link or have their front end swapped, and test presses | 0.14 M |
| `worker_overs` | Do leads, holds and filters keep their times? `BankLeadsRf`, `NoHotSwitch`, `HoldKept` | 3 contacts (fail-safe antenna relay, amplifier, filter), 2 bands, 3 messages, leads to 5 ticks, one tick per command | 0.25 M |
| `worker_faults` | Does the worker implement `RelayContacts`, and leave all in receive when it goes? `KeepsPromise`, `StoodDown`, `RelayTypeOK` | the same bank with shorter times, 2 messages, failing writes, sense line, one test pulse, 2 tries | 6.3 M |
| `worker_settles` | Is its belief true, is dead hardware left alone, does it converge? `BeliefHolds`, `LeftAlone`, `BankReturns`, `OverTakes`, `WorkerEnds` | an LCUS board (restated, never read), failing writes and restatements, one disturbance, 2 messages | 0.22 M |
| `icom_stream` | Does the stream hand over each packet once, know what it lacks and stop asking, over a network that loses, repeats and reorders, and across the wrap? `AtMostOnce`, `HighIsNewest`, `NothingUnaccounted`, `GapsClose`, `StreamTypeOK` | 30 sequence numbers, a datagram late by up to 2 packets, gaps up to 3, a buffer of 2, 2 requests per gap; packets 0 to 5 from the start, and 26 to 32, round the wrap | 0.41 M |
| `at_net` | Does a net end with one master, and a file whole or known not to be, whatever is missed, drops, quits or rejoins? `OneMasterInTheEnd`, `BackupTakesOver`, `NewNetGetsMaster`, `DoneIsSaved`, `ResendsDoNotMultiply`, `SenderStops`, `ResumeCompletes`, `NetTypeOK` | 3 stations, 2 blocks, 2 rounds, both kinds of channel; the situations and fault budgets of `MCNet`; any write of the file may fail | 42 k |
| `unkey_race`, `cw_under_gate`, `late_amplifier` | disagreements, section 6 | - | a counterexample |

Why the bounds are enough. Two radios show every race between two calls into the
hub; the third of `overs` is there for a claim that passes between two while one
is still in its unwinding. A handler sends at most three messages, and an engine
never waits for the worker except in the lead and the join, so with the bounds of
4 or 5 messages (the program's channel is unbounded) each engine can be a whole
handler ahead of the worker; an engine that meets the bound waits, which only
removes behaviours. One contact is enough in `Station`, where contacts rise
and fall in any order anyway; three are needed in `RelayWorker`, one of each kind
the schedule treats differently. Times are in ticks: what matters is their
order, and the banks cover a lead longer than another, an amplifier with no
hold, and a pulse that ends inside or outside a lead.

In `icom_stream` the 2^16 numbers become 30, which is the least the slack below
leaves, so that everything near half the space and at the wrap happens within
seven packets; a jump past `MAX_MISSING`, a packet fallen out of the buffer and a
gap asked for to the last all occur. In `at_net` three stations are a master, its
backup and one that is neither; two blocks are one that arrived and one that did
not; two rounds are a first and a last. The budgets put together the faults that
need each other: two missed frames, a dropped link and a rejoin, a missed frame
and a drop, a program that ends and one that starts.

### Assumptions

- `Station`'s `LeadServed`: the sleep of `lead_tr_switch` covers what the worker
  needs to close the contacts, if it still answers. `RelayWorker` examines that
  assumption: it holds where the bank's times are `Timely` (proved, section 5), as
  those of `MCSpaced` are, and `late_amplifier` shows where it fails. `MCRelay`'s
  `SpacedAssumption` has TLC evaluate `Timely` on both banks: that of
  `late_amplifier` lacks `Spaced` and nothing else.
  Leads are below `MAX_TR_LEAD`, the cap above which the code says it will not wait.
- The estimate behind `cw_gate_until` is not shorter than the message.
- `SenseRadio` is a radio in every run, and in `overs` one of three whose dial may
  turn at any time: the program has one whatever is wired (`tr_switch.rs:99`). A
  line is `Wired` in `sense_line` only.
- `ConfigRadio`: a configuration reaches one engine (or none, per run). `Primary`
  is the one engine that reports the receive band.
- Hands let go: an over is ended, a message finishes (liveness only).
- A board is disturbed, and its test button pressed, at most once per behaviour
  (`RelayWorker`); in `Station` the button may be pressed whenever the queue has
  room for the press and a message more.
- `IcomStream`: a datagram arrives before `Life` more packets are sent or not at
  all, the request timer runs at least every `Pace` packets, a silent link is
  given up after `Silence`, and what these allow to be in flight is less than
  half the sequence space (`2 * Reach <= SeqSpace`; with the program's numbers
  this leaves room for thousands of packets of delay). The slack is needed:
  in a smaller space an old idle answer reads as a number ahead.
- `AtNet`: a waiter is listed before any status can
  arrive; in an interval every timer comes round, every frame gets its turn or is
  given up, and a watchdog runs more often than a beacon; no interval passes while
  a file is being sent (the rosters' ages at its start are chosen instead); one
  file at a time; misses, drops, rejoins and ends are bounded by the budgets.
  A frame that a hearer of the virtual channel misses stands for its full queue.

### Fairness

`Station`: an engine's loop runs for ever at its tick, so weak fairness of each
engine; every pass calls `poll_tr_switch`, so its part is strongly fair; a hub
call waits at most for a mutex nobody keeps or a sleep that ends, so it is
strongly fair too. The worker's receive, its schedule and its look at the line are
weakly fair: its sleep is always finite (`driver.rs:714`). Nothing is assumed of
operators except that they let go. `RelayWorker`: the thread and the clock are
weakly fair, and a station that keeps receiving gets to its next
`READBACK_INTERVAL`, which is the strong fairness of `StartReadBack`.

`IcomStream`: the request timer alone (`tick` runs every 100 ms); the network owes
nothing. `AtNet`: a frame that waits for the channel is sent or given up, a task
that is ready runs, a timer comes round. Nobody need start, rejoin or drop, and no
frame need be missed, or heard.

## 4. Hazards

`PROJECT.json` lists them, each at its line and with the properties that would
notice. Most are of one kind: an over cut short at the worst moment, by a step of
another radio, of the worker or of the hardware.

## 5. Proofs

All are checked by tlapm, for any number of radios, bands and contacts, any times,
any sequence space that meets the assumption. The assumptions are the modules' own
named ones, on the constants, and where a theorem needs more it says so.

- `StationProofs!TypeCorrect`: every reachable state of `Station` is well formed.
  It is more than bookkeeping: a queue holds only messages the worker knows
  about, and a band is sent only if it is one.
- `GateProofs`: neither `NoLeakedClaim` nor `StoppedHoldsNothing` is inductive,
  because both speak of an engine between handlers and the mistakes happen within
  one. `IInv` says, for every radio, where in a handler the gate may be in its
  hand: the carrier goes up last and comes down first (`CarrierInv`); whoever is
  on the air or keying down holds the gate (`HeldInv`); whoever holds it is on the
  air, keying down, in a message, or on one of the two paths that are about to
  let go (`OwedInv`); an engine on its way out holds nothing (`StopInv`).
  `GateAccounted` proves `IInv` invariant, with a lemma per group of handlers. The
  rest follows: `GateNotLeaked`, `StoppedLetsGo`, `OneCarrierOnly` (no two carriers
  started by engines are ever up at once, whatever else happens) and
  `OneTransmitterWithoutText` (`OneTransmitter` itself, where no text is handed to
  a rig's own keyer; with text it is false, see `cw_under_gate`).
- `SwitchProofs`: the five properties of the run `overs` that relate the gate to
  the worker, under `EngineDriven`: no line is wired, and every over is one of
  the engines' own, refused at the last moment or not, with dials turned and
  test buttons pressed at any time. The dial of the sense radio is among them:
  its band reaches the worker between overs, after each and at `install`.
  Without that assumption they are false (`unkey_race`, and the first entries of
  section 6). `SInv` says that nothing keys a radio but its engine and no line
  is looked at (`CalmInv`); that a radio's bit is set exactly where its handler
  claims the switch, and then it holds the gate (`EngineInv`), so one radio at a
  time; that what is queued ends on a key-down if and only if some radio has
  sent one and not taken it back (`QueueInv`); and that where an over is past
  its lead, the worker has taken it and every contact is closed (`LeadInv`).
  From it: `ContactsLeadEveryRf`, `SwitchFollowsEveryRadio`, `SwitchAlwaysComesBack`
  and `NoFilterSwitchesHot`. `FiltersReady` needs to follow a band through the queue:
  `FilterInv` says it stands before its key-down in the queue, or is taken and
  held back with the key-down next, or is the filter's already.
- `WorkerProofs`: `TriesInv` ties presence to the failures counted, `LoopInv` the
  place in the loop to what the sequencer is about to believe, `BoardInv` its
  belief to the board, `DoneInv` what a finished thread leaves. From them
  `WorkerTypeCorrect`, `BeliefIsTrue`, `GivenUpIsLeftAlone` and `LeavesInReceive`.
- `WorkerProofs!WorkerKeepsPromise`: `RelayWorker` implements `RelayContacts`,
  step by step. Each `Ctrl` message the sequencer takes is the abstract message;
  a look at the line is `Sense`; a contact that falls due is `Rise` or `Fall`; the
  write that exhausts its tries is `GiveUp`; a caller's send is `Post`; all else,
  every write and read-back among it, is a stutter. It assumes that the
  configuration is not changed under the worker (the hub never does: it drops the
  worker and spawns another) and that the configurations of the bank agree on
  which contacts decode a band.
- `OverProofs`: the worker's times, for any bank whose times leave room (`Timely`)
  while nothing fails and nothing but the caller keys (`Undisturbed`). The worker
  may be anywhere in its loop when the key-down arrives, so the invariant follows
  the over from the channel: `CalmInv`, nothing but the caller is at work;
  `TurnsInv`, overs do not run into each other in the channel; `CallInv`, an over
  is either asked for, its key-down in the channel with its band in front of it and
  the caller's wait no shorter than what the worker is busy with, the last rise and
  a command, or heard of, and the last contact is thrown before the wait is over;
  `RisesInv`, no contact falls due unseen; `StepInv`, what was last wanted is what
  was last written. `OversKept` proves these inductive, a lemma per action. From
  them `ContactsBeforeRf`, `NeverSwitchesHot` and, with `HoldInv` (a contact is
  dropped by a write that began when its hold was over), `HoldsKept`. The last
  also needs one wiring for all configurations, because a rewiring drops contacts
  at once, hold or not.
  `Timely` is three things: the caller's wait covers the last rise and three
  commands (`LeadsSuffice`); no contact rises while the command of an earlier one
  may still be under way (`Spaced`), because `next_change` skips one that did; and,
  where a dial may move during the lead, the filters move first (`FiltersFirst`).
  `driver.rs` asks for none of them. They are sufficient; that the second cannot be
  left out is what `late_amplifier` shows.
- `StreamProofs`: that `AtMostOnce`, `HighIsNewest` and `NothingUnaccounted` hold
  is one argument of distance. Whatever may still arrive, be asked for or be
  listed missing lies less than half the sequence space behind the newest packet
  taken, so a wrapped number names the packet it was made from, and a signed
  difference has the sign of the true one. Given that, `AccountInv` splits the
  packets from the first one to the newest into taken, missing and forgone.
  The theorems are about `StreamSpec`, from the first packet on; `JoinedAnywhere`
  is the same for a stream joined after any packet whose number is not 0, as the
  run does before the wrap.
- `NetProofs!DoneMeansSaved`: `DoneIsSaved` of `AtNet`, for any stations, any file
  and any faults on the air, and for a receiver that may be unable to write the
  file (the exception in the property). A status outlives what it answers: it may be lost, wait for the channel
  across a round, or be taken for the answer of a later one. `NetInv` therefore
  says of every place it can be (a receiver's queue, the waiter, `done`) that one
  with nothing missing stems from a receiver that has every block and has written
  the file, or failed to (`ReceiverInv`, `SenderInv`). That holds because only
  `on_bulk_end` sends such a status, and a new `BULK_META`, which would forget what
  was received, goes out once (`MetaInv`).
- `NetProofs!ResendsBounded`: `ResendsDoNotMultiply`. `CountInv` counts what may
  still cause a round - `send_bulk` between its own rounds, each resume, each
  status on its way, in bags that may hold the same one twice - and bounds it by
  one and the receiver's own requests. It holds because a status that is heard
  becomes the answer of the round that waits, or one resume, or nothing; a resume's
  `BULK_END` becomes at most one status; and a waiter is listed only while
  `send_bulk` waits (`WaitInv`), so that it never both sends and is answered.
  `NetTypeCorrect` follows: no round is counted beyond the last.
  The theorems of `NetProofs` are about stations just started (`NetSpec`); that
  both invariants also hold from the other situations of `MCNet` was checked by TLC.

Every safety property a passing run checks is the subject of a theorem, under the
assumptions named with it. Only model-checked: what needs fairness, which this prover cannot reach
(`SenseFollowed`, `HandlersReturn` and `ReceiverReturns` of `Station`;
`BankReturns`, `OverTakes` and `WorkerEnds` of `RelayWorker`; `GapsClose`;
`OneMasterInTheEnd`, `BackupTakesOver`, `NewNetGetsMaster`, `SenderStops` and
`ResumeCompletes` of `AtNet`). `OverInv`, `HoldInv` and `CountInv` were checked by
TLC on small instances before they were proved: `OverInv` and `HoldInv` also on
banks with other wirings and longer commands than the runs use.

## 6. Where the code and its words disagree

With a run of its own:

- `unkey_race` - `TrSwitch::unkey` clears its bit and only then takes the lock
  (`tr_switch.rs:176`). A key-down of another radio in between reaches the worker
  first; the late key-up then opens the contacts under it, and nothing repeats the
  key-down. The engines' own overs are kept apart by the gate, so it takes a rig
  keyed at its own microphone.
- `cw_under_gate` - a key-down refused while the same radio's rig is still sending
  a message releases the gate the message needs (`deny_tx`, `engine.rs:14990`): it
  takes the gate for one just claimed by the key-down. TLC's shortest trace is this
  one; a key-down that is granted, and ends before the message does, hands the gate
  over in the same way (`engine.rs:17326`).
- `late_amplifier` - `next_change` skips a contact that fell due during the write
  of an earlier one (`driver.rs:395`), and the thread then sleeps its idle tick:
  with the shape of the default timings the amplifier's contact closes after the RF.

Met while modelling, each reproducible in these modules by the steps given, and
left out of the runs above by the choice of `Happens` or by a stated exception:

- A radio that joins an over younger than its lead waits for nothing
  (`tr_switch.rs:143`); it takes a first radio keyed at its microphone. Hence
  `ContactsLeadRf` is checked where the engines drive every over.
- `sync_relay` asks `busy()` and closes the driver later (`engine.rs:13204`): a
  radio may key in between and finds an empty slot that asks for no lead.
- `Sequencer::abort` clears the sense line's half of the OR and every contact
  (`driver.rs:292`), also under a transmitter that is still sensed; the poll
  reports only changes, so they stay open for the rest of that over.
- An engine whose receive read fails returns without letting go of its bit or a
  message's claim (`engine.rs:5019`), as the exits above it do.
- A test pulse started just before a key-down is not ended by it
  (`driver.rs:310`), and one that outlasts the lead ends under the RF, where it
  drops a filter contact that the band's transmit word leaves open: `worker_overs`
  with `Happens = {"test"}` breaks `NoHotSwitch` so. The run has no pulses, and
  `NoHotSwitch` and `NeverSwitchesHot` promise nothing of them.
- A board that was given up on is still asked for its contacts (`driver.rs:684`).
- A read-back that disagrees makes the sequencer write again, but the transport
  still remembers having written it and sends nothing (`driver.rs:707`,
  `serial.rs:149`). An LCUS board does heal, by restatement; but a restatement
  that fails leaves the transport knowing nothing, and is not repeated. This is
  the exception in `RelayWorker!BankReturns`.
- With the sense line up, the keyer's own band is held back for its whole over
  (`driver.rs:266`).
- The write that puts the contacts back when the worker goes is not retried:
  the exception in `StoodDown`.

Icom stream:

- Sequence number 0 means "unsequenced" and passes by `accept` (`stream.rs:293`),
  but a tracked packet bears it once in every wrap. The gap before number 1 is
  then entered as missing, asked for up to four times, and every answer is handed
  over again, against `accept`'s "Returns false for a duplicate". Hence
  `AtMostOnce` speaks of packets whose number is not 0.
- A restarted peer counts from the beginning again; its numbers mostly read as
  behind and are dropped as duplicates, though the comment on a large jump names a
  restarted peer as its reason.

AtCHAT:

- A `BULK_META` that is lost leaves the receiver knowing of no file, and
  nothing sends it again.
- A `BULK_END` that is lost after the last block: a round without a status does
  not send it again (`continue`), and `request_missing_from` and
  `resume_pending_receives` ask only where a block is missing. The file is never
  saved, although the log says it resumes if the receiver comes back, and the
  user manual that missing blocks are requested until the file checks out.
- A final status that is lost, or that arrives as the wait for it ends, leaves
  the sender not done: `on_bulk_end` is silent for a file already complete, against
  its own comment that it answers in every case. A resumed transfer never marks
  itself done at all.
- A file for all stations is done at the first receiver's empty status, while
  others lack blocks, and with several receivers resends do multiply: hence the
  condition in `ResendsDoNotMultiply`, and "some receiver" rather than every one
  in `DoneIsSaved`.
- A failed write of the file still reports nothing missing, so the sender is done
  (`station.rs:838`), and the receiver never tries again: `unsaved`, the exception
  in `DoneIsSaved` and `ResumeCompletes`.
- A listener that knows a master never takes over, so a net whose master and
  backup both vanish stays without one, and so does one whose last master
  rejoined having heard its own beacon. The manual says one of the others takes
  over without an operator doing anything. It also says that the station longest
  on the net is master; the code prefers the smaller callsign.
- A master that has stepped down may have a beacon waiting for the channel; it
  still goes out, and can demote the backup. This is the exception in
  `BackupTakesOver`.
- A beacon lists lost stations too, and every hearer takes all it lists for
  active again, on the virtual channel the master itself as well.
- The watchdog decides under one lock and takes over under another: a beacon in
  between does not stop it. The net still ends with one master.
- On the radio a dropped link only stops the transmitter; the station hears on.

## 7. Not modelled

DSP, tuning, state broadcast and the hundreds of commands of the engine that do
not touch transmission; framing and port selection of the relay boards;
parsing and defaults of the configuration; the control-line back end; status
and trace text. `TxGate`'s file also holds `StoreSync` and `RadeWatch`, which
are not modelled yet. Of the Icom client, the handshake, the pings and the
session over its three streams; of AtCHAT, chat, several transfers at once, the
modem and the user's session. The other components of section 1 are listed in
`PROJECT.json` with their reasons.

The map covers a small part of the repository by lines: most of it is signal
processing, device protocols, ephemerides, presentation and vendored code, in
which there is little for a model checker to order.

## 8. Plan

In this order.

1. `StoreSync`: engines that write whole stores back and reload on a generation.
   Question: whether a save can be lost between another engine's bump and ours.
2. `Qso`: two FT8 sequencers over a lossy slot; what each may log.
3. The session of `net.rs` over three `IcomStream`s: which answers belong to the
   connection that asked.
4. Proofs: the worker's times with a board that fails while an over is up, where
   contacts must at least not move under RF; `NetInv` from any situation a net
   can be in.
5. Chat delivery in AtCHAT, and several transfers at once.
