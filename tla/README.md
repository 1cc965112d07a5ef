# A verification project for go-managesieve

go-managesieve is a ManageSieve (RFC 5804) server library in Go, with a small
client for proxies and an in-memory script store. This directory holds TLA+
modules of all three, TLC configurations that model-check them, and proofs that
TLAPS checks. Every definition that stands for code names its lines in
`PROJECT.json` under `map`.

## Inventory

| Part | State | Operations | Meets |
| --- | --- | --- | --- |
| Connection (`managesieveserver/conn.go`) | `authenticated`, `isTLS`, `errorCount`, `closePending`, `hijacked`, `lastErr`, `poisoned`, the read deadline, the buffered reader and writer | `serve`, one handler per command, literal and SASL reads, STARTTLS, `Hijack` | the client, the `Session` callbacks, the hooks, `Server.Close` |
| Server (`managesieveserver/server.go`) | `listener`, `wg`, `ctx`, `conns` under `mu` | `Serve`, `ServeConn`, `handleConn`, `recoverConn`, `Close` | the listener, one goroutine per connection |
| Parser (`managesieveserver/parser.go`) | none | `parseLine`, `parseTokens`, `unquoteString`, `readBoundedLine`, `literalLength`, `parseInt64` | the connection |
| Options, errors, session (`options.go`, `errors.go`, `session.go`) | configuration | defaults, rendering of an error, the callback interface | the connection |
| Script store (`managesievemem/store.go`) | accounts and scripts under an RWMutex | the `Session` methods | many connections at once |
| Proxy client (`managesieveclient/client.go`) | socket, deadline, `poisoned`, capabilities | `NewClient`, STARTTLS, `Capability`, `AuthenticatePlain`, `Cmd`, `guard` | a context, an upstream server |
| Wire helpers (`managesieve/`) | none | quoting, sanitising, name validation, extension lists | all |

What is hard here:

* **Concurrency.** `Close` runs in another goroutine than `Serve` and than every
  connection. It must reach a connection wherever it is: not yet registered,
  between two commands, blocked in a read, in a TLS handshake, in a callback,
  being hijacked.
* **Failure.** A flush may fail, a read may be cut at any byte, callbacks may
  fail, ask for a close, or panic.
* **Ordering.** Clients pipeline. Octets behind STARTTLS, behind a refused
  literal or behind a login that hijacks must each be treated differently.
* **Timeouts.** Four timers (idle, idle before authentication, absolute, and the
  kick of a shutdown) share one read deadline.

What makes each part correct:

* connection: the error budget cannot be bypassed; session methods run only in
  the right state; each command has one final response, and one that asks for
  closing is the last; client and server agree on the framing; no input is lost
  when the reader is replaced; every wait is bounded and flushed; a kick is never
  undone; hooks tell the truth;
* server: `Close` misses no connection and returns; every connection is torn down
  once; a hijacked one is left alone; `Serve` returns;
* store: at most one active script, unique names, the active script not deleted,
  the quota respected, what is active was validated;
* client: a cancellation unblocks an operation and does not leak into the next;
  an operation gets the answer to its own command; nothing sent in the clear is
  used under TLS;
* parser: quoting and unquoting are inverse, lengths never overflow, a line is
  accepted exactly when it is within the limit and ends in CRLF.

The list `hazards` of `PROJECT.json` places these at their lines.

## Modules

### SieveConn: one connection

The whole of `Conn.serve` with its handlers, against a client, a socket with
deadlines and a server that may be shut down at any point.

*State.* `c` is the `Conn` with the locals of `serve`. Its field `pc` says where
the goroutine is: at the top of the loop, in one of the eight reads, in the TLS
handshake, in a session callback, or at the enforcement that ends an iteration.
`out`, `dirty` and `wfail` are the write buffer: the replies of the current
command, whether some are unflushed, whether a write has failed. `rdl` names the
timer behind the read deadline, `expired` says it has passed, `poisoned` that
`forceReadUnblock` ran. `buf` and `net` are the bytes in the `bufio.Reader` and
in the socket. The fields `hook`, `kicked`, `gated` and `misparsed`
record history for the properties and steer nothing.

*Data.* The byte stream is a sequence of tokens: a line (a verb and its
arguments), a literal body, the rest of a command behind a body, a SASL response,
and the two framing errors of `readBoundedLine`. An argument is `ok`, `bad`,
`big`, `empty`, `nopass` or `*` (what a handler's checks tell apart), or a literal
marker: synchronizing or not, and well-formed, oversized or malformed. `Val` is
what the octets of a body stand for, `Requoted` what the handler makes of a body
that was put back into the line in quotes (HAVESPACE does not unquote its size).

*Actions.* One per step at which another actor can come between: a fill of the
reader, a consumed token, a handler up to its next read, callback or return. A
handler's writes, flush, deadline changes and error accounting are part of its
action. `Flush` has two outcomes, as a write may fail. `Arm` picks any timer that
`nextReadDeadline` can pick, because time is not modelled: with both an idle and
an absolute limit either may come first. `clock` records how far the absolute
limit is: 1, the connection context's deadline has passed; 2, `startTime` plus
the limit has. The two differ because `handleConn` creates the context before it
takes `startTime`.

*The client* (external) sends the tokens of a command in order, waits for `+` or
a challenge where its command says so, may pipeline where not, and may close or
fall silent at any point. `FramingAssumption` says what its commands are made of:
behind a marker come a body and the rest of the line, a response only behind its
challenge, a body sent too early only where the marker is non-synchronizing,
where nobody would ask for it, or by mistake (`ROGUE`). Lines that are too long,
unended or not parseable, oversized and malformed markers, and literals where
none is expected are all allowed.

Left out: the wording of replies, logging, the sleep of `ErrorDelay` (bounded and
interrupted by the context), `CommandTimeout` except that a handshake may end,
hooks that block, and `SetTLS` after the greeting. That a handshake leaves no
plaintext behind in the socket is crypto/tls, not this code: the model takes it
as given (`HandshakeSucceeds`) and no property claims it. What this code does
about it is to look at the reader before it drops it; `NoInputLost` rests on that.

### SieveServer: the server and its connections

`Serve`, `Close` and each connection's goroutine interleave. A connection goes
through `handleConn`: registered, session created or rejected, the loop of
`serve`, the deferred calls in their order (`Conn.close`, `unregisterConn`,
`recoverConn`, `wg.Done`). What a command does is left to SieveConn. Here a
command finishes, quits, reads on, hijacks or panics. `MuFree` is the server's
mutex: `Close` holds it during its walk. `wg` is the set of connections that the
WaitGroup counts. `Hijack` is three steps (clear the deadline, mark,
unregister), because `Close` can come between them, and so can they between the
steps of `Close` (cancel, close the listener, walk, wait). One `Close` and one
`Serve` are modelled.

### SessionProtocol: what a Session is promised

The state machine in the doc of the `Session` interface (`session.go`): when its
methods may be called, and what a call does to the state of the connection.
`SieveConn!Protocol` maps a connection to it: `Phase` from `pc`, `hijacked` and
`authenticated`, `Call` from the callback that is running.

### ScriptStore and AtomicStore: the in-memory store

Several sessions and the host work on accounts under one RWMutex. A critical
section is one action, so `PutScriptWarnings` is two (validate, then store under
the lock), `SetActive` is three (snapshot, validate, look up again and activate),
and any other operation is one. `scripts` keeps the order of the slice; `op` is
what a session holds between two critical sections; `reply` is the last result.
The host's `Validate` hook is the constant `Verdict`, a function of the content:
accepted, accepted with warnings, a plain error, or an `*Error` with a code.
`AddUser` replaces an account, `AddScript` neither validates nor counts: both are
actions that may come at any point. A session that is logged in is never logged
in again and has one call under way (SessionProtocol).

AtomicStore says what that should look like: an account is a set of files and
the name of the active one, and each operation, refusals included, happens at
one instant, only when its condition is true at that instant. It promises
nothing about the content that SETACTIVE activates: the code validates a
snapshot, and `AddScript` can put another content in its place before the script
is activated. What is left of that window is a property of its own,
`StoredVetted`. The refinement mapping forgets the order of the slice and what
operations hold in between.

### SieveClient: the proxy client

The caller's goroutine (`pc`) goes through `NewClient` (implicit TLS, STARTTLS,
or neither), then through one operation after another, each with a context of
its own: without `Done`, cancellable, or with a deadline. `guards` are the
goroutines that `guard` has started and that still run, `stopped` the operations
whose `done` is closed. A deadline on the socket is the number of the operation
whose context set it, or `Past`. Each of arming, poisoning and stopping is one
step, because all are done under `deadlineMu`; `startTLS` sets its deadline
without it, which is a step too. A line of the server is two tokens, so that a
read can be cut inside it; `bufio.Reader.ReadLine` returns what it has of a
line, without an error, when the socket fails. `werr` is the error that the
`bufio.Writer` keeps: a write that has failed fails all that follow, whatever
their deadlines, until STARTTLS replaces the writer. A line beyond
`MaxLineLength` is given up in its middle or in its last chunk, a capability
block at its limit; what is left of the answer stays in the stream.
`SetDeadline` is the caller's and asks for nothing, not even whether the client
is poisoned. The server (external) answers in order, refuses, sends too much,
too long a line, or plaintext behind its OK to STARTTLS, closes at any point or
never answers. `disturbed`, `leftover`, `revived` and `inFlight` are history.

### Wire: octets and text

`readBoundedLine` as a state machine over a `bufio.Reader` whose buffer fills in
pieces of any size, until the stream ends or a deadline passes. The tokenizer,
`unquoteString`, `Quote`, `SanitizeText`, `literalLength`, `parseInt64` (with its
width), `wireMessage` and the client's `parseCapabilityLine` are operators on
sequences of characters. The properties hold the reader against `RefLines` and
the lengths against `Decimal`, and the others against each other: what one side
quotes, the other must read. They are evaluated in each initial state, in which
the input is still whole. Case, UTF-8 and the control characters other than CR
and LF are not in the alphabet.

### MCSieveConn, MCSieveServer, MCScriptStore, MCSieveClient, MCWire

The commands, the connections, the verdicts, the callers' calls and the inputs of
the runs.

### The modules with theorems

`SieveConnLemmas`, `SieveConnProofs` and `SieveConnFrame` for SieveConn (and its
refinement of SessionProtocol), `SieveServerProofs` for SieveServer,
`ScriptStoreProofs` and `StoreRefinement` for ScriptStore (and its refinement of
AtomicStore), `SieveClientProofs` and `SieveClientAnswers` for SieveClient. See
Proofs, below.

How the parts meet: SieveServer has the life of every connection and leaves a
command to SieveConn; SieveConn leaves the octets to Wire and the callbacks to
SessionProtocol; a store's sessions are used as SessionProtocol allows, and
answer as AtomicStore does.

## Runs

| Run | Shows |
| --- | --- |
| `conn_commands` | `TypeOK`, `ErrorBudget`, `OneFinalReply`, `HookAccurate`, `FramingKept`, `SessionContract`, `CloseIsPrompt`, `NoInputLost`, `ImplementsProtocol` over three commands out of 49, pipelined, in plaintext at first or under TLS |
| `conn_timers` | `FlushedBeforeBlock`, `DeadlineFresh`, `PoisonSticks`, `TimeoutTruthful`, `IdleKickSaysBye`, `SilentClientDropped`, `ShutdownEnds` with all timers and a shutdown |
| `server` | `TypeOK`, `NoMissedKick`, `TornDown`, `HijackedUntouched`, `ShutdownDrains`, `ShutdownReturns` with a connection of `Serve` and one of `ServeConn` |
| `store` | `TypeOK`, `AccountsSound`, `StoredVetted`, `FilterKept`, `ImplementsAtomic` with two sessions on one account |
| `client` | `TypeOK`, `NoLateKick`, `PoisonHolds`, `OwnDeadlineRules`, `AnswerIsOwn`, `NoPlaintextUsed`, `CancelUnblocks` over `NewClient` and one or two operations |
| `wire` | `LinesExact`, `LengthExact`, `LiteralIsString`, `TokensExact`, `ResponseIsOneLine`, `PeersAgree` over 15,794 inputs |
| `conn_framing`, `conn_unreported`, `server_drains`, `server_early`, `client_cut`, `client_overlong` | each a claim of the repository that the code does not keep (Findings) |

*Bounds.*

* Connection: `MaxCommands` is 3 where sequences matter: log in, provoke,
  observe. It is 2 where the interleaving with timers matters: authenticate,
  then wait. A literal argument followed by a literal content already takes five
  tokens; `MaxInFlight` of 2 lets the socket hold part of such a command, all of
  a short one, or the end of one and the head of the next. `MaxErrors` of 2 is
  reached by two faults and leaves one command to show that the loop has ended.
* Server: one connection that the WaitGroup counts and one that it does not. The
  theorems lift the safety properties to any number.
* Store: what one session holds between critical sections can be overtaken by one
  other session and the host, any number of times. Two names allow a rename, an
  activation beside another, and, with `MaxScripts` of 1, an account at its limit
  and (by seeding) beyond it. One content each is accepted with warnings, refused
  plainly but seeded, and refused with a code.
* Client: with two operations the second meets the first's goroutine, deadline,
  poison and unread answers. `MCCalls` lists who calls what: `NewClient` with TLS
  or STARTTLS and any context, then an operation; and, in the clear, a third
  operation, whose own deadline meets the write error that the second one's has
  left. `MaxCaps` of 2 is exceeded by the longest block.
* Wire: the limit of 4 octets is larger than the buffer of 3, so that an accepted
  line may need two fills, and inputs of 7 octets hold an oversized line that is
  drained over several fills with a line behind it. Four characters suffice for
  an escape inside quotes, quoted strings side by side, and a marker. `MaxInt` of
  31 puts the limit inside a decade, as 2^63 - 1 is.

Deadlock is checked for connections. It is not checked where the system may rest:
a server with no client or after its shutdown, a client that is closed, a reader
at the end of its stream.

*Fairness.* The connection's goroutine runs and callbacks return (`ServerStep`,
`SessionReturns`): Go schedules runnable goroutines, and a callback is given a
context. A `Close` that began goes on, but is never assumed to be called. Clocks
and armed deadlines advance while the connection is not authenticated; afterwards
nothing is assumed of them, as if the idle timers were off, so that `ShutdownEnds`
rests on the kick alone. Nothing is assumed of a client: `conn_timers` and
`server` hold with clients that never send another byte. A flush always
ends, which is what `WriteTimeout` (60 s by default) gives; with that timeout
disabled, a client that does not read can hold its connection. In `client`, the
caller's goroutine runs as long as it need not wait for the server, and so does
each guard's; neither an answer nor the passing of a deadline is assumed, so that
`CancelUnblocks` rests on the poke alone.

## Proofs

A theorem is `Spec => []P`, `Spec => [][A]_vars` or, for the two refinements,
`Spec => ` the abstract specification. Each is for every value of the constants:
any set of commands, any `MaxErrors`, any options, any number of connections; any
users, sessions, names, contents and verdicts, any `MaxScripts`; any number of
client operations and of capability lines. They assume what the modules assume of
their constants (`OptionsAssumption`, `CommandsAssumption`, `ConnsAssumption`,
`StoreAssumption`, `VerdictAssumption`, `ClientAssumption`). `FramingAssumption`
is used by `FramesAgree` alone: the other theorems about a connection hold for any
sequences of tokens.

**A connection** (`SieveConnProofs!Invariance`). `TypeOK` and `CI(c)` together
are inductive; none of the properties is so alone. `CI` says what holds by where
the goroutine is:

* `Core`, while the connection serves: the error budget is not used up, nothing
  is unflushed, no close is pending, the connection is not hijacked, it is
  authenticated only where the cleartext gate allows it, and the deadline is
  none, the kick's, or one that `nextReadDeadline` gives in this state;
* `Stage`, per program point: a read has exactly that deadline, no final reply
  has been written yet, a SASL read belongs to an unauthenticated AUTHENTICATE, a
  content read to an authenticated script command;
* `End`, once a handler has returned: one final reply, `lastErr` agrees with it,
  the budget overrun by nothing;
* `Ended`, after the loop.

`SieveConnLemmas` proves what each helper of `Conn` (`Write`, `Flush`,
`ClientError`, `SetReadDeadline`, `Arm`, ...) changes and leaves alone, and that
each keeps `Core` or turns it into `End`. `SieveConnProofs` has a lemma for each
group of actions. From the invariant: `TypeCorrect`, `BudgetKept`,
`ContractKept`, `ReplyKept`, `HookKept`, `NeverBlocksUnflushed`, `DeadlineKept`,
`PoisonKept`, `CloseKept`.

**What a step leaves alone** (`SieveConnFrame`). The other properties of a
connection are about state that few steps touch. `Steady` says what a step of the
server keeps: `authenticated`, `isTLS`, `hijacked`, `poisoned`, `kicked`, the hook
and an expired deadline. It is proved of every helper and lifted through the
handlers. The steps that are not steady have a lemma each: a callback that
succeeds or hijacks, a handshake that succeeds, the end of the loop, and the steps
of the environment. On it rest:

* `Timely`, inductive beside the invariant above: a poisoned deadline means a
  shutdown; a deadline that has expired was set, and the absolute one expires only
  when `clock` is 2; a client kicked between two commands is still at the command
  read with an empty reader, or is told BYE and closed; a handshake has an empty
  reader. From it `TimeoutTold` (`TimeoutTruthful`: what is reported is true; that
  everything is reported is not so, see Findings) and `IdleKickTold`
  (`IdleKickSaysBye`).
* `InputKept` (`NoInputLost`): a step consumes the head of the unread stream, adds
  at its end, or leaves it as it is. STARTTLS replaces the reader only when it is
  empty, so nothing is lost there.
* `SessionPromiseKept` (`ImplementsProtocol`): a steady step maps to a stutter, a
  call, a failed call or the end; a callback that returns to `Succeed`, `Fail` or
  `Hijack`; a handshake to `Secure`.

**Framing** (`SieveConnFrame!FramesAgree`, `FramingKept`). What the server reads
next was decided by the client long before, so the invariant must follow the whole
command. `Ahead` is all that the client has committed itself to: the reader, the
socket, and what it has yet to send of its command. `Framing` says that the
connection is over (closed, or at the enforcement with a close pending), or that

* `WellFramed`: each token of `Ahead` is followed by what `FramingAssumption` asks
  for. Commands are, tails keep it, and a new command can be put behind one that
  is complete (`CommandBehind`);
* `Awaited`: only the last unread token can be one that the client waits at;
* `Place`: the head of `Ahead` fits the program point. Before a body read there is
  a body with its trailer behind it, and behind a content nothing but the end of
  the line; between two commands a body is there by mistake or left by a gate, and
  a response only once its challenge was sent; once a line has been read, a body
  that a refusal would leave behind belongs to a non-synchronizing marker or to an
  initial response, which either closes the connection or counts as gated.

There is a lemma for each group of steps. Those of the server take one token or
none (`AheadTaken`, `AheadStays`) and move to another `Place`; those of the
client leave the place as it is or, with a first token, end a wait
(`SendsBehind`, `SentFraming`); a fill of the reader leaves `Ahead` as it is.
`Timely` is needed once: a handshake that succeeds replaces the reader, which is
empty then. TLC checked `Framing` as an invariant on small sets of commands
before it was proved. With this theorem the finding `conn_framing` has its
complement, for every set of well-formed commands: on a connection on which the
gates have left no committed body behind, none is ever parsed as a command
(`gated` records that one was left, and stays).

**The server** (`SieveServerProofs!Invariance`). Four parts beside `TypeOK`:
`WalkInv` (the context is cancelled before the walk; what has been walked is
poisoned; afterwards everything past its context check is poisoned), `TrackInv`
(which program points are in `conns` and `wg`), `FlagInv` (a poisoned deadline
stays, a hijacked connection is on its way out and, once released, not in
`conns`), `TeardownInv` (how often `Session.Close` has run and whether the
socket is closed, at each deferred call). The key is that registering comes
before the context check and cancelling before the walk, so one of the two sees
the other. From it: `TypeCorrect`, `WalkMissesNone`, `TeardownComplete`,
`HijackRespected`.

**The store** (`ScriptStoreProofs!Invariance`). `TypeOK`, and of every account:
names are unique, at most one script is active, and each content was accepted by
`Verdict` or seeded. The last part must also be said of what an operation holds
between its critical sections, or the step that stores it would not keep it. From
it: `TypeCorrect`, `AccountsStaySound`, `StoredIsVetted`, `FilterStays`.

`StoreRefinement!StoreIsAtomic` (`ImplementsAtomic`) maps the slices to sets of
files (`FilesBar`, `ActiveBar`, `ReplyBar`). Each critical section is one
operation of AtomicStore or is invisible. The quota is the one place where the
slice's length matters, and `FilesCount` (as many files as scripts, because
names are unique) carries it over.

**The client** (`SieveClientProofs!Invariance`). Beside `TypeOK`: which
operation is running at each program point (`Phases`), which `done` channels are
closed (`Doneness`), that only the poison puts a deadline into the past, and
that it stays there until the caller clears it (`Poison`), whose deadline is on
the socket (`Armed`), and that nothing sent in the clear is left to be read
under TLS (`Clear`). From it: `TypeCorrect`, `LateKicksMiss`, `PoisonStays`,
`OwnDeadline`, `PlaintextDiscarded`.

`SieveClientAnswers!StreamIsOwn` is about the bytes on their way, the reader's
followed by the socket's: as long as no read or write has failed, and no answer
was given up with its rest unread, they are lines that answer the last command
written (only the last may be cut, by EOF), and behind a final line comes at most
a BYE. So when an operation returns nothing but a farewell is left, and the next
one reads its own answer: `AnswersMatch` (`AnswerIsOwn`).

**Only model-checked.**

* Liveness, outside the prover's reach: `SilentClientDropped`, `ShutdownEnds`,
  `ShutdownDrains`, `ShutdownReturns`, `CancelUnblocks`.
* Wire: its properties are about what recursive operators compute for every
  input, which takes induction over data.

## Findings

Six runs end in a counterexample, each to a sentence of the repository; the
quotes are in `PROJECT.json`.

* `conn_framing`: a command refused before its literal is looked at (not
  authenticated; AUTHENTICATE in the wrong state, over cleartext, or with an
  unknown mechanism) leaves the committed body in the stream, where it is parsed
  as commands. `FramingKept` shows that nothing else starts this.
* `conn_unreported`: a timer that expires in the read of a SASL response or of a
  literal ends the connection, but `OnTimeout` is not told, which its doc promises
  of every connection-level timer. The handshake is cut the same way.
* `server_drains`: `wg.Add` after `Accept` races with the `Wait` of `Close`, on a
  listener that `Close` has closed. The connection still ends by itself
  (`ShutdownDrains`).
* `server_early`: a `Close` that overtakes `Serve` leaves it blocked in `Accept`.
* `client_cut`: a response that a timeout, a cancellation or EOF cuts inside its
  line is returned as a complete one, because `bufio.Reader.ReadLine` reports the
  error only with the next call. `AnswerIsOwn` therefore speaks of a
  connection on which no read has failed.
* `client_overlong`: an answer beyond `MaxLineLength` or `MaxCapabilityLines` is
  refused with its rest in the stream, the connection stays usable, and the next
  `Cmd` returns that rest as its response. Up to the limits, and where the line
  was given up at its very end, `AnswerIsOwn` holds.

Seen while modelling, and in the models without a run of their own:

* A client that `Close` kicks out of a read inside a command is answered NO and
  gets no BYE (conn.go:1076-1082), where the doc of `Close` promises one to each
  kicked client. Between two commands it gets its BYE (`IdleKickSaysBye`).
* `Serve` retries for ever when its listener is closed by anyone but `Close`
  (server.go:84-101), though its doc says it blocks until the listener is closed.
  It does return once `Close` is called (`ShutdownReturns`).
* An operation of the client whose context has no deadline runs under the one that
  an earlier context left on the socket (client.go:296-299); `OwnDeadlineRules` is
  about operations that have one.
* A write that timed out fails every later operation with that same error, also
  where the guard was stopped before it could poison the connection: the
  `bufio.Writer` keeps it (client.go:451-454). `OwnDeadlineRules` names this
  exception.
* Between `hijacked = true` and `unregisterConn`, `Close` can expire the deadline
  of a connection that is already the hijacker's; `HijackedUntouched` therefore
  starts at the release.
* Between the context's absolute deadline and `startTime` plus the limit,
  `shutdownBye` names a shutdown and reports nothing; `TimeoutTruthful` therefore
  speaks of what is reported only.
* `StoredVetted` excepts what the host has seeded: the comment in `SetActive`
  ("PUTSCRIPT validates on store, so the window is benign") does not cover
  `AddScript`, whose content can take the place of the validated one.

## Plan

Done: every component of the inventory is modelled and checked, except for what
is listed below. All safety properties of the runs but those of Wire have
theorems, and so have both refinements. What is left is out of the prover's reach
(Only model-checked, above).

## Not modelled

The extension lists (two tables, a copy and a filter by membership) and
`defaults()` (zero values replaced by constants): nothing in them has an order of
steps or relates two pieces of state. The wording of replies, `ListenAndServe`
beyond its call of `Serve`, `Dial` beyond its call of `NewClient`, TLS itself (a
handshake succeeds, fails or is aborted), the hashing of passwords, and the relay
that a proxy runs after the client's last operation.
