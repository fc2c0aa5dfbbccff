# A TLA+ model of the session process of redemption

Redemption is an RDP proxy. For each client it forks a *session process*, a
single-threaded program built around one `select`: it talks RDP to the client,
RDP or VNC to a target, and a private protocol to a *session manager* (sesman)
that authenticates the user and decides which target is opened, how long and
under which supervision. This directory models the core of that process: its
event engine, its main loop together with the manager, the timer that ends a
session at its date, the transport that carries its output, the connection to an
RDP target from the first request to the running session, and the clipboard
channel with its file validator. TLC checks the models on small instances; TLAPS
proves the central results for every instance.

Paths below are relative to the root of the repository.

## Inventory

| Component | State it keeps | Operations | What is hard |
|---|---|---|---|
| Event engine, `src/core/events.hpp` | vector of events (descriptor, alarm, owner, garbage mark), references to events | create, re-arm, release an event, destroy an owner, move a reference, one pass, collect | callbacks change the vector and the owners that the pass is walking over; they may throw |
| Session process, `src/core/session.cpp` | phase of the loop, module, log, capture, timers, `next_module`, pending fields for the manager | an iteration (send, select, front, manager, events, back event, next module), four handlers, end of the loop, close box | everything meets here: user, target, guest, manager, timers and exceptions in one iteration |
| Module factory, `src/acl/module_manager/mod_factory.cpp` | current module, its socket, its signal | create, disconnect | the name is forgotten before it is compared |
| Session sharing, `src/core/guest_ctx.hpp` | invitation, guest front | start, accept, check the password, stop | a guest holds references to the target's log |
| Secondary session log, `src/acl/session_logfile.cpp` | open or closed | open, log, close | kept from a target to its alternate |
| Session manager, `tools/sesman/sesmanworker/sesman.py` | position in the dialogue, physical targets left | show a module, send a target, answer keepalives, relay requests, close | runs beside the process; messages cross |
| Timers, `src/core/session_events.cpp` | armed or not, instants | start, stop, fire | two clocks, the wall clock may be set |
| Socket transport, `src/transport/socket_transport.cpp` | descriptor, waiting buffers | send, send what waits, disconnect | partial writes, failure in the middle of the buffers |
| RDP negotiation, `src/core/RDP/nego.cpp`, `src/mod/rdp/rdp_negociation.cpp` | enabled and selected protocols, current password, TLS state, verdict on the certificate, position in the sequence | request, answer, handshake, CredSSP, fall back and reconnect, settings, channels, licence | it reconnects inside its own callback; the manager answers about the certificate while the socket is watched |
| RDP client module, `src/mod/rdp/rdp.hpp` | event that reads the target, finalization state, buffer of PDUs | activate, deactivate, redirect, disconnect | three events read the same buffer in turn; an activation may wait for the client |
| RDP front, `src/front/front.hpp` | up, or activating after a resize | resize, end of its activation | tells whichever module is there |
| Clipboard channel, `src/mod/rdp/channels/cliprdr_channel.cpp` | per side: one transfer without locks, several with locks; lists of those that wait for a verdict | every clipboard message, chunk by chunk; verdicts | data, verdicts, new announcements and locks in any order |
| Other virtual channels, session probe, VNC module | protocol state machines | | planned, see below |
| Recording (`src/capture`), file transports | files, rotation, compression | | planned |
| Codecs, drawing, configuration, translation, tools | | | not modelled: data transformations or separate programs |

How they interact: the main loop owns every object. `select` watches the
descriptors the event engine lists and sleeps until its next alarm. The pass
over the events calls the module, the timers and the guest. The module leaves a
*signal*, the manager leaves a *module to open*, and the end of the iteration
acts on both. Errors are exceptions caught once per iteration; what to do
depends on the phase that raised them. Waiting output in any transport stops
the reading of the others, but never that of the manager.

What makes each component correct:

* event engine: the pass stays in bounds, calls each event once and none that
  was released; references and events agree; released events are destroyed;
  no alarm is slept through;
* session process: a connected target is always recorded and supervised; what
  belongs to a target goes with it; the manager's orders are obeyed; its loss
  or silence ends the session;
* end of session: it comes at the date, with warnings that count down;
* transport: it is a byte stream;
* negotiation: every password is tried once and in order, only an agreed
  protocol and an approved certificate are used, and it ends;
* RDP client module: every activation is answered exactly once, the module and
  the target agree on when the session runs, and its start is reported once;
* clipboard: nothing that must be verified passes before its own verdict; no
  recording, verdict or announced response is lost.

`PROJECT.json` lists the hazards line by line with the properties that catch
them.

## Modules

| Module | Models | Composes |
|---|---|---|
| `EventManager` | `events.hpp`; `Select` is `NextDelay` of `session.cpp` | |
| `EventManagerProofs` | theorems | `EventManager` |
| `Sesman` | the manager as the process sees it | |
| `Session` | constructor and main loop of `session.cpp`, module factory, guest, log and timers as it drives them | `Sesman` |
| `SessionProofs` | theorems | `Session` |
| `EndSessionWarning` | the timer of the end date and the clock correction of the main loop | |
| `EndSessionWarningProofs` | theorems | `EndSessionWarning` |
| `ByteStream` | abstract: what a transport promises | |
| `SocketTransport` | the sending half of `SocketTransport` | refines `ByteStream` |
| `SocketTransportProofs` | theorems | `SocketTransport` |
| `RdpNego` | `RdpNego` of `nego.cpp`, the client side of TLS in `SocketTransport`, the certificate check | |
| `RdpConnection` | `RdpNegociation`, the events and the activation of `mod_rdp`, the resize of the front | `RdpNego`, the target and the client |
| `RdpConnectionProofs` | theorems: credentials, protocol, certificate | `RdpConnection` |
| `RdpActivationProofs` | theorems: licence, activation, deactivation | `RdpConnectionProofs` |
| `Clipboard` | the clipboard channel | both sides and the validator service |
| `ClipboardProofs` | theorem on files; what each handler does to the context it serves | `Clipboard` |
| `ClipboardOwnershipProofs` | theorems: recordings, verdicts, responses, texts, assertions | `ClipboardProofs` |
| `MC...` | the instances for TLC | |

**EventManager.** `queue` is the vector; each event has the fields of `Event`.
`event`/`event_ref` are the two pointers of an `EventRef` and its event. The
client (`Client`) may do anything the interface allows, between passes and in a
callback. `i`, `iend` and `has_garbage` are the locals of `execute_events`; the
pass is one step per event, so callbacks interleave with it as in the code, and
the collector is one step per turn of its loop. Indices start at 1.

**Sesman and Session.** `pc` is the phase of the iteration: `send`, `select`
(with the Front phase that follows it), `acl`, `events`, `back`, then `catch`
after an exception and `end` after the loop. A pass over the events is a series
of callbacks, each at most once and in any order: `OncePerPass` of
`EventManager` is what allows this. The manager takes its own steps at any
time; `to_proxy` is its messages, in order, and `to_sesman` the facts that it
has not read yet (`receive_data` merges what arrived into one dictionary).
Delays are abstracted: a timer that exists may fire in any pass. Assertions of
the code are recorded in `broken`, because a release build goes on.
The inactivity delay is assumed not to be unlimited.

**EndSessionWarning.** Time is in units of which `Second` make a second. `clock`
and `wall` are the two clocks, `now` and `real` the copies of them in the time
base of the loop. `Elapse` is the time the code itself takes at any point of the
iteration, a blocking connection or the pause of `retry_rdp` included; `Select`
waits, reads both clocks and compares them with the time base, of which
`NextDelay` has just refreshed the monotonic half unless data is pending in a TLS
buffer; `SelectInterrupted` is the `EINTR` of the wait, after which only that half
is new; `SetTimeBase` are the full readings of `next_backend_module` and
`retry_rdp`, compared with nothing. Somebody may set the wall clock, forward or
back, whenever time passes. `steady` and `set_back` are history of what happened
to the clocks since the date came.

**SocketTransport.** A byte is its number in the order of the calls. The kernel
takes any prefix of what it is given. A turn of the loop of `send_waiting_data`
is one step. The refinement maps `up` to `sck = "open"`.

**RdpNego and RdpConnection.** A function of the negotiation is the set of
states it may leave, one for each outcome of the libraries it calls; a thrown
error is the field `error`. One read of the socket is one step during the
negotiation. Afterwards `load_data` takes any prefix of what the target sent and
each PDU of the buffer is a step; `pc` says which loop is running, and nothing
else of the proxy runs meanwhile. The target follows the protocol: it answers
what it reads, in order, and starts activations, and it may leave at any point.
A target that was promised TLS and gets plain data (`"deaf"`) answers nothing.
`tried`, `verdict`, `upped` and `reported` are history.

**Clipboard.** A handler computes on a work record: the context it serves, the
transfer at hand, the service with the lists, and what went wrong. `d` holds the
fields of `FileContentsRange`, `st` is `TransferState`. Data is counted in
units. A side sends one message at a time, a response in chunks, and answers
only what it was asked; the service gives one verdict for each identifier, at
any time after it is opened, and, with `late`, also after an abort. `owed` says
that a response was announced to the other side and not completed.

## Runs

| Run | Checks | Result |
|---|---|---|
| `events` | type, references, bounds, once per pass, nothing released is called, finality of garbage, exactness of the collector | holds |
| `event_liveness` | no alarm is slept through, every alarm is served, all garbage is destroyed | holds |
| `session` | assertions, nothing outlives its target, targets are supervised, disconnection obeyed, manager watching: one target of either protocol, with every error, option and request | holds |
| `session_failover` | assertions, and nothing outlives its target, over a chain of physical targets, with invitations and guests | holds |
| `session_liveness` | loss and silence of the manager end the session | holds |
| `end_date` | the timer never sleeps past the end; no early end unless the wall clock was set back; with steady clocks the end is the date and the warnings count down | holds |
| `socket_transport` | byte stream, what waits is sent | holds |
| `rdp_connection` | passwords in turn, agreed protocol, approved certificate; each demand in one place, up together, established once; the negotiation ends and, for a client that completes its activations, demands are answered | holds |
| `clipboard` | assertions, verified before passed (files and texts), rejected files kept, recordings owned, verdicts expected, responses completed | holds |
| `session_alternate_log`, `session_guest_output`, `clipboard_text` | one assertion or documented promise each | violated by the code, see Findings |

Every module states its type invariant. The one of the event engine is checked
by its run and proved; the others document the state and serve the proofs. They
hold in the same instances, where the other properties also catch what they
would.

**Bounds.** Three events and two references are enough for a reference to move
between two events while a third one is swapped by the collector; two events
with three instants are enough for an alarm behind another one; there the
references are left out, which only give other ways to do what callbacks and
owners do. `Grace = {0}` keeps these two runs short; `event_liveness` also holds
with `{0, 1}`, in a few minutes, and the theorems take any delays. One throw per
behaviour: a second one only repeats the first from
a state that is reached anyway. For `Session`, one request of the manager in
the middle of a session and one retry meet every phase; `session_failover`
needs three physical targets, so that an alternate target has an alternate, room
for three messages, and two requests, so that an invitation replaces another
one. `MaxSend` = 3 and `MaxBytes` = 8 give up to eight buffers and
every split of a message. In `EndSessionWarning` the dates and durations lie on
both sides of each warning delay and of a second (`Second` is two units, the work
takes one or three, a wait up to five); two dates, so that one replaces another,
and one setting of the clock, forward or back, in `MaxTime` = 16 instants.
`RdpConnection`: two passwords, so that one is neither first nor last when a third is looked for; two descriptors, so that a
reconnection gets the old one or another; three activations, so that a
reactivation is followed by one; nine sets of options that reach each branch of
the negotiation. `Clipboard`: files of up to two units in answers of one or two,
so that a transfer has a first, a middle and a last chunk and a request past the
end; two transfers, so that a verdict can be another's; the option sets of
`MCClipboard` separate files, texts, both sides at once and locks, because all
of them together only multiply states that do not meet.

**What the passing session runs leave out.** Constants of `Session` restrict
its environment where the code breaks one of its own assertions or promises;
the violation runs lift one restriction each:

* in `session_failover`, `LateFailure = FALSE` and no `"disconnect"` request: a
  target is not left between its connection and its success
  (`session_alternate_log`);
* `Congestible` without `"guest"` where there are guests
  (`session_guest_output`).

All session runs have `TimersRace = TRUE`: a timer may end the session in the
iteration in which the manager names a module. `next_module` is a local of
`main_loop` that an exception does not reset, so the target named in the iteration
in which the inactivity timer fires is opened in the next one, over the close box;
the properties hold of it all the same.

**What the properties except.** Where the code is known to fail a promise in one
case, and that case has no violation run, the property names the case and the
instances still reach it; without the exception TLC finds the failure.

* `EndDateReached` excepts a wall clock that was set back since the date came:
  the end is moved by the time the wall clock went, so for a clock set back it
  comes earlier on the monotonic clock where it should come later
  (`session.cpp`, line 1083). `add_delay` itself takes negative delays. A clock
  set forward moves it later, so the session outlives its date.
* `EndIsDate` and `WarningsCountDown` are for clocks that were `steady` since the
  date came: nobody set the wall clock, and less than a second lay between a full
  reading of the clocks and the next `NextDelay`. `NextDelay` refreshes half of the
  time base, so a longer iteration, or a longer wait that a signal interrupts,
  passes for a set clock and moves the end away.
* `AssertionsHold` of `Clipboard` is for `Calm` options: where texts go to the
  service or files are locked, a file request between two chunks of an answer
  leaves a state in which the next chunk of a text reaches the `assert(false)` of
  `format_data_response`. The second instance with texts is not `Calm`.
* `RejectedKept` excepts a locked range that is rejected before its transfer is
  over: `process_clip` does not record the verdict and, unless all recordings are
  kept, the end of the transfer cancels this one. The first instance with locks
  does not keep all of them. It also excepts a text that takes the verdict on a
  file (`Faithful`), which is `clipboard_text`.
* `CertificateApproved` is about the manager's verdict, so it says nothing with
  `server_cert_check_using_ca`, which goes first and lets the authorities decide.
  The manager accepts a target, not a connection: the status stays accepted over
  a reconnection for another password (`rdp.hpp`, line 2138), and the certificate
  presented then is not submitted to it.

In `clipboard`, the instance that verifies texts before their transfer has a
service that is silent after an abort, and only files that are verified before
their transfer too (see `clipboard_text`).
A file larger than `max_file_size_rejected`, for which an error follows the
header of a response, and a side that asks for something else while it waits are
excepted by `ResponseCompleted`.

In `rdp_connection` the target sends nothing a conforming target would not: it
selects among the requested protocols, does not refuse TLS when it was not
offered, does not send error information in the middle of the finalization, and
deactivates only what was activated.

Two more restrictions of `session_failover` have no run of their own. With
`Protocol = {"VNC"}` `AssertionsHold` fails with "open": the log that
`secondary_session_creation_failed` keeps for an alternate target is opened
again for a VNC target, because only the RDP case of `next_backend_module`
looks at `try_alternate_target`. With `MaxRetries = 1` and an error that is
retried it fails with "log": a retry that fails closes the log while a guest
still shares the session, and stopping the guest writes its departure to it.

**Fairness.** `event_liveness`: the loop goes on, select returns and the
monotonic clock advances (strong fairness of a select that advances it);
callbacks return, exceptions are rare (`MaxThrows`). `session_liveness`: weak
fairness of the steps the process takes by itself, which hold no lock and wait
for nobody except in `select`, and `select` always watches the manager; strong
fairness of the keepalive timer, which is what `AlarmServed` of the event engine
gives. Nothing is assumed of the user, the target, the guest or the manager.
`socket_transport`: weak fairness of the flush, because a transport with
waiting data is watched for writing; a kernel that never takes anything ends
with an error, which is a step of its own. `rdp_connection`: weak fairness of
the handlers of the module, the logon timer included, which is what the event
engine gives (a socket that is silent or not watched is ended by the timer), and
nothing of the client: the handshake timer of the front is dropped when it is
first up, and `server_resize` arms no other. `DemandAnswered` therefore says that
demands are answered if the client completes the activations that a resize starts
(`ClientActivates`). Nothing is assumed of the target or the manager.

## Findings

1. `AlternateLogOpen`: a target that fails between its connection and its success
   is left by `next_backend_module(close)`. The close box is not a target, so the
   log is closed although another physical target is left (`session.cpp`, lines
   558 to 562); the manager, which heard of no success, sends that target as an
   alternate one, and the RDP case takes over a log that is not open
   (`get_secondary_session_log`, line 260). Only a target that could not be
   created leaves its log open for the next one.
2. `WaitingOutputSent`: the waiting output of the guest is sent on the transport
   of the user (`session.cpp`, line 1098).
3. `TextVerified`: the two cases of `process_clip` for a text that is verified
   before its transfer do not compare identifiers (`cliprdr_channel.cpp`, lines
   3102 and 3119), so the verdict on a file, or on an aborted text, decides the
   fate of the text that waits.

The restrictions and exceptions above name further disagreements that have no run
of their own.

## Proofs

TLAPS checks eight modules of theorems. The constants are arbitrary: any sets
of events, owners, references and descriptors, any warning delays in ascending
order, any clocks, any sizes of messages, any options, passwords and targets.
The named assumptions of the specification modules type the constants;
`OptionsAssumption` of `Clipboard` also says that an initial state in which both
sides lock is one that `clip_caps` leaves, and that only a side with a validator
verifies before the transfer; `SesmanAssumption` that no screen has the name of a
target or of the default module. What a theorem assumes beyond that is
in its statement.

**EventManagerProofs.** The inductive invariant `IInv` adds to the three
invariants the runs check: the queue holds each event once (`QueueInjective`,
without which removing one would leave another copy); the events the pass has
gone over are exactly those it marked, and the events before the index are
marked (`VisitOrder`, needed for *once per pass*); events created during the
pass lie behind its end (`TouchedOutside`); the events of a destroyed owner are
garbage (`GoneIsGarbage`, needed for *never called*); and the collector leaves
no garbage before its index (`CollectedPrefix`, needed for exactness). One lemma
per group of actions shows that it is preserved. From it: `TypeCorrect`,
`NoDanglingRef`, `PassStaysInBounds`, `CalledOncePerPass`, `ReleasedNeverCalled`,
`GarbageStaysGarbage` and `CollectorIsExact`. `NeverOversleeps` needs besides
that no alarm is set for the instant 0 (`AfterZero`), which `next_timeout` keeps
for "no alarm": the smallest alarm would otherwise hide the others.

**EndSessionWarningProofs.** The durations of the work and of the waits, the
settings of the clock and the dates are arbitrary. `NeverPastEnd` is inductive
together with the type invariant and the fact that the time base is never ahead of
the clock (`Inv`), once `next_timeout` is known to return an instant between its
argument and the end (lemmas on the list of delays). `NeverEndsEarly` needs
`NotEarly`: unless the wall clock was set back, the copy of it is not ahead of it
and the end, counted from now, is not before the date counted from the wall clock;
a slow iteration, an interrupted wait or a clock set forward only move it away.
`EndStaysTheDate` needs `Skew`: with steady clocks the wall half of the time base
lags behind the monotonic half by less than a second, so that the comparison after
a select sees no change (`SteadySelect`); the property is then inductive.
`WarningsDecrease` assumes besides that the first warning delay is at least a
second. `CountDown` adds that an event set before the end is set one of the delays
before it (`OnTimer`) and that the delay that waits to be announced is more than
what the event leaves (`DelayAhead`).

**SocketTransportProofs.** The invariant: the waiting buffers are not empty,
contiguous and end with the last byte given (`Contiguous`), and the wire holds
exactly the bytes before the next one to send (`OnWire`). `NothingIsForgotten`
follows at once, and `TransportIsByteStream` shows that each step is a step or
a stutter of `ByteStream`.

**SessionProofs.** Six invariants, each preserved by every phase of the main
loop and every step of the manager, with one lemma per helper that states what
it does to the fields the invariants speak of.
* `OwnedByTarget` and `DisconnectIsObeyed` hold for every value of the
  constants. `TargetOwns` says that guest, capture and waiting output need a
  connected target outside of the exits of the loop. `Obeys` follows the order
  to disconnect from its arrival to the end of the iteration: as long as it is
  known, either `next_module` or an exception on its way to `catch` will leave
  the target (`Leaving`).
* `TargetIsSupervised` assumes `MaxTargets = 1` and `~TimersRace`. `Supervises`
  adds where each timer was started and that no `next_module` of an earlier
  iteration is left over (`NextModuleFresh`), which a timer that ends the
  session in that iteration breaks; the run shows the property with such timers
  too.
* `AssertionsAreKept` assumes one target, a guest whose output never waits and
  no retry while guests are allowed. Each hypothesis excludes a violation that
  TLC exhibits: `session_alternate_log`, `session_guest_output`, and the retry
  that closes the log of a shared session, described above.
* `SessionIsWatched` assumes `~TimersRace` only, for the same reason, for any
  number of physical targets and messages on the way. `Watched` says that a manager outside of its
  session loop has sent the process away: the messages on the way end with a
  module that is no target (`LeadsAway`), or they name no target and the process
  is not connected, or is about to leave (`SentAway`). Every way out of
  `connect_to_target` sends such a module last, and reading a message moves the
  process from the first case to the second.
* `FailoverKeepsTheLog` is `AssertionsHold` and `TargetSupervised` over a chain
  of any number of physical targets, under the restrictions of
  `session_failover` (`Failover`): RDP targets, no retry, and no target that is
  left between its connection and its success, be it by an error of its own, of
  its waiting input or of a field for the module, or by an order to disconnect.
  The log is then open without a target, so `Chain` relates what the manager has
  sent to what the process has left open, through the steps of a trial: the
  message on the way (`TrialSent`), read (`TrialTaken`), connecting, failed or
  succeeded. The target on the way is an alternate one exactly when it will find
  the log open, a failure keeps the log exactly when the manager has another
  target, and the manager hears of a success before the end of that target
  (`ToldInTurn`), so it never sends an alternate target after one whose log was
  closed.

**RdpConnectionProofs.** A function of the negotiation returns a set of states,
so there is one lemma per function on all the states it may return. `ConnInv`
says of the negotiation that the trials so far are in turn (`Turns`), that NLA
is dropped only behind the last password (`GaveUp`) and, for each state of a
negotiation that goes on, which protocol is selected, what was requested and
whether the current password was tried (`Going`, `Settled`); and of the
connection that, where the manager is asked (`AsksManager`), TLS is in use only
with its approval (`Approved`).
From it: `PasswordsTriedInTurn`,
`ProtocolIsAgreed` and `CertificateIsApproved`, without further assumptions.

**RdpActivationProofs.** The PDUs on their way, those the module has loaded
(`buf`) and those it has not read (`toProxy`), are one `Stream`. Each PDU fits
certain points of the connection and leads to the next one (`Fits`, `After`).
The invariant `ActInv` says that the stream leads (`Leads`) from the point where
the module is, which its finalization state and the front tell (`ModuleAt`), to
the point where the target is, which its phase and what it has not read yet tell
(`TargetAt`). The module treats the first PDU and the target adds to the last,
so each action changes one end only; a read moves PDUs inside the stream and
changes neither. Besides it `ActInv` has the control state of the handlers
(`Control`), the flags of the report (`Reports`) and what a running session that
ends with an error leaves behind (`Dropped`), since its module is at no point
any more. From it, without further assumptions: `DemandInOnePlace` (a
`DemandActive` can only be the last PDU of the stream, and a module that is
being resized has nothing before it), `UpWithTarget` and `SessionReportedOnce`.

**ClipboardProofs.** `FilesAreVerified` holds for every configuration. The
invariant: with verification before the transfer, a transfer in one of the
states that pass data on was accepted under its own number, and so was one that
waits for the end of a response with an early verdict of success; one that waits
knows no identifier but its own (without this the verdict on another transfer
would release it); and nothing is verified while the sides can lock, since
`locked_data` passes everything on. Most helpers leave all of this alone
(`Keeps`); the lemmas on requests, responses and verdicts only have to look at
the ones that move a transfer to another state. `BreakRanges` ends all the
transfers of a lock at once instead of one after the other, which is the same as
each has an identifier and a recording of its own (`Linked` and `Distinct` below).

**ClipboardOwnershipProofs.** Six theorems from one invariant, `ClipboardInv`:
each identifier of the service and each recording has one holder among the two
contexts, their locked transfers and the two lists. A handler sees one context,
so the invariant is stated from its side: `Others(c)` are the numbers that belong
to all the rest, and `Held(d, v, keep, others)` says that the transfer at hand
shares none of them, that its recording and its identifier are open when it has
them, and that whatever is open otherwise is one of the others'. `ClipboardProofs`
shows for each helper of a handler, on the work record, that it keeps `Held` and
touches nothing of the others (`Elsewhere`), which state it leads to (`Settled`),
what it does to the sizes and the response under way (`Fit`), and which assertions
it relies on (`Sound`); the lemmas here rebuild from it the view of the
other context, of the locked transfers and of the lists (`HandledOwners`), for
each message, each verdict and the destructor (`Closed`).
* `RecordingsAreOwned` and `ResponsesAreCompleted` hold in every configuration.
* `VerdictsAreExpected` and `TextsAreVerified` assume `Faithful(opt)`: no text is
  verified, or, without locks and late verdicts, only one side is active. Without
  it a text takes the verdict on another transfer (`clipboard_text`).
* `RejectedRecordingsAreKept` and `ClipboardAssertionsHold` prove the properties
  with the exceptions they name (`Keeping`, `Calm`), in every configuration.
`VerdictExpected` and `TextVerified` are checked in instances that are `Faithful`,
`clipboard_text` apart.

**Only model-checked.**
* Liveness, out of the prover's reach: `AlarmServed`, `GarbageCollected`,
  `AclLossEnds`, `SilenceEnds`, `WaitingIsSent`,
  `NegotiationEnds`, `DemandAnswered`.
* The properties of a theorem with a condition, outside of that condition: the
  runs show that most of them fail there.

## Not modelled, and plan

1. `SocketTransport`: reading, the server side of TLS, and `connect` after
   `disconnect` with waiting buffers (they are kept).
2. `KeepAlive` and `Inactivity` with their delays, on top of `EventManager`.
3. The front's own handshake (`src/front/front.hpp`); the drawing protection of
   `src/acl/mod_wrapper.cpp`.
4. The session probe and its launchers, whose timeouts raise the errors that
   `Session` takes as given.
5. The drive channel with its asynchronous tasks; the packets of the file
   validator service.
6. The recording: rotation of the files by `out_meta_sequence_transport`, the
   compression and encryption transports as refinements of `ByteStream`.
7. The framing of the ACL serializer; the VNC handshake.

In the modelled parts these are left out: the contents of PDUs, licences and
certificates; what the module does with input, drawing and the other channels
once the session runs; the assertions of the clipboard's destructor; a module
replaced while the front is activating (the front is up when a module is
created).

Left out for good: codecs, orders and bitmaps (pure data, covered by unit
tests), generated configuration and translation tables, the listener (the
children share nothing after `fork`), the recorder and headless client programs.
