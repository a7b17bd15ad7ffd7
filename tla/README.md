# A verification project for rust-imap

rust-imap is a blocking IMAP client: every method of `Client` and `Session`
writes a command and reads the server's response to it on the calling thread.
There are no locks and no tasks. What is hard is the other end of the wire: a
server that answers when it likes, pushes untagged responses between any two
lines, refuses, hangs up, or answers after the client has stopped waiting, and
a stream that can fail in the middle of a write or of a response while the API
lets the caller go on with the same connection.

These TLA+ modules model the code line by line where it decides something
(tags, framing, continuations, timeouts, what is queued and what is dropped)
and abstract the data to what the code tells apart: a response is its kind
where only its place matters, and its attributes where a value is made of it; a
text is a sequence of the few characters that validation and quoting look at.
TLC checks them on small instances and TLAPS proves some of their properties
for every value of the constants.

`PROJECT.json` says which definition stands for which lines of source, lists
the runs, and for each property names a change of the code that breaks it.

## 1. The system

Paths are relative to the repository (`src/` is its source directory).

| component | state | operations | modelled in |
|---|---|---|---|
| Connection primitives (`client.rs`) | `tag`, the buffered stream; in a read, `continue_from` | `run`, `run_command`, `read_response`, `read_response_onto`, `readline`, `write_line`, `create_command`, `skip_tag` | Wire, Connection, CommandChannel |
| Two-part commands, server side | external | `+`, refusal, second part | Continuation |
| Client: login, authenticate (`client.rs`, `authenticator.rs`) | the Client, or the Session it became | `login`, `authenticate`, `do_auth_handshake` | Login |
| IDLE (`extensions/idle.rs`) | `Handle.done`, `keepalive`, the stream's read timeout, the buffer of the wait | `make`, `init`, `wait_while`, `wait_inner`, `terminate`, `drop` | Idle |
| APPEND (`client.rs`) | none of its own | `AppendCmd::finish` | Append |
| Session above `run` (`client.rs`, `parse.rs`, `types/unsolicited_response.rs`) | `unsolicited_responses` | all commands that parse a reply, `take_all_unsolicited` | Session, Mirror |
| The methods of Session (`client.rs`, `extensions/`) | none | every command, from its arguments to its value | Methods, Calls |
| `validate_str`, `validate_sequence_set`, `quote!`, `iter_join`, the typed arguments | none | validation, quoting, Display | Arguments |
| LIST-STATUS (`extensions/list_status.rs`) | `current_name`, `current_mailbox`, the pairs | `ExtendedNames::parse` | ListStatus |
| ClientBuilder (`client_builder.rs`, `conn.rs`) | mode, port, `greeting_read` | `connect_with`, `upgrade_tls` | Builder |
| METADATA, ACL, quota, fetch, name, capability and mailbox values (`extensions/`, `types/`) | none | parsers and accessors | their place in a reply: Session; their values: Replies |
| Deleted (`types/deleted.rs`) | none | VANISHED or EXPUNGE, iterators | the choice: Session; the iterators: Replies |
| Errors (`error.rs`) | none | wording | the variants are outcomes of Connection, Session and Calls |
| `mock_stream.rs`, `testing.rs`, `tests/`, `examples/`, CI | | | not modelled |

How they interact. ClientBuilder makes the stream, reads the greeting and hands
a Client back. Client and Session both deref to a Connection. Login,
AUTHENTICATE, IDLE and APPEND take `run_command` and `read_response_onto` apart
and put their own dialogue in between; everything else goes through `run`,
whose octets the parsers then sort into the result of the call and the queue
of unsolicited responses. The IDLE handle borrows the Session for its life, so
no other command runs while it exists; its `drop` runs a command of its own.

What is hard, and what makes each component correct:

* **Connection.** A call that gives up (timeout, a wrong tag) leaves an answer
  under way. A later call must not take it for its own; a literal that reads
  like a tagged response must not be taken for one; and a call that did not
  fail must leave nothing under way.
* **Login.** There is a Session only if the server accepted the credentials of
  the very call that returned it, and a Client only if it accepted none.
* **IDLE.** Every DONE must meet a server that idles, else `drop` blocks for
  ever; `done` is the client's belief about that. The callback must see each
  update once and in order, and the read timeout must not outlive the wait.
* **APPEND.** After its `+` the server counts octets and takes whatever comes
  for the message. `Ok` must mean that the message given was stored.
* **Session.** Sequence numbers only make sense in the server's order, so the
  queue must keep it across calls, errors and takes, lose nothing and count
  nothing twice.
  What an application makes of the results and the queue must be the mailbox
  the server has.
* **Methods.** Whatever text the caller passes, the server must read one
  command with that text in its place, and the value returned must hold what
  the server sent: each annotation, each flag, the data behind a NIL.
* **LIST-STATUS.** A status must be paired with the name it is about.
* **ClientBuilder.** No plaintext where the mode forbids it; the greeting read
  exactly once; the Client starts where the server's next line starts.

`PROJECT.json` lists every hazard at its line, with the properties that watch
it, or the reason none does.

## 2. The modules

```
Wire                         lines, commands, ParseResponse
 |- CommandChannel           what a Connection promises (abstract)
 `- Connection ------------- refines CommandChannel;  ConnectionProofs
     `- Continuation         a server for commands in two parts (external);
         |                   its lemmas are in ConnectionProofs
         |- Idle             IdleProofs
         |- Append           AppendProofs
         `- Login            LoginProofs
Session                      SessionProofs
 `- Mirror                   an application over it (external)
ListStatus                   ListStatusProofs
Arguments                    how arguments become text, and are read back
 |- Methods                  the command of every method
 `- Replies                  the value of every reply
     `- Calls                one call, end to end (extends Methods too);
                             CallsProofs
Builder                      BuilderProofs
```

An `MC*` module gives a component its constants for TLC, and the configuration
of the same name says what is checked.

### Wire and Connection

A line is a record: its kind (`data`, `plus`, `open` and `close` of a response
with a literal, `done` for a tagged one, `junk`), whether it is text inside a
literal, its tag and status. `id` is history: the number of the API call it
belongs to. No guard of the client reads it. `ParseResponse` is
`imap_proto::parser::parse_response` on `data[line_start..]`: once a response is
incomplete, only its closing line completes it, whatever the lines between read
like.

| Connection | code |
|---|---|
| `tag`, `pending`, `wbuf` | `Connection.tag`, `continue_from`, the write half of `BufStream` |
| `toServer`, `toClient` | the wire, with the read half of `BufStream` |
| `RunCommand`, `RunCommandFails` | `run_command`: `create_command`, `write_line`, and the tag given back if it fails |
| `SendFails` | the flush hands over any number of the buffered lines and keeps the others for the next flush |
| `ReadLine` with `OnLine` | one turn of the loop of `read_response_onto` |
| `ReadFails` with `DropInput` | `?` on `readline`: what was read of the response, and of the line, is gone |
| `ReadEof` | 0 octets: `ConnectionLost` |
| `SkipTag` | `skip_tag`, which the caller may call at any time between calls |
| `Answer`, `Push`, `HangUp` | the server (external) |

Every write and every read may fail and leave the stream usable, and the caller
may always go on. Two things then end all promises, and `broken` records them:
a command that goes out while the tag of a failed one stands rolled back (both
carry one tag), and a response cut by a read error, whose rest the next call
reads as a response of its own. The properties say `~broken` where they need
it; `connection_tag_reuse` shows the first case.

`CommandChannel` is what a caller relies on: one command at a time, each
answered at most once, and a call that returns a status returns one the server
gave to that very command, until the channel stops being `trusted`. It has
neither tags nor lines. `Connection` implements it under `busy <- (pc =
"reading")`, `trusted <- ~broken`.

### Continuation, Idle, Append, Login

`Continuation` extends Connection with a server that answers IDLE, APPEND and
AUTHENTICATE with `+` or refuses them, and after a `+` takes the next line for
the second part, whatever it is. The three client modules bring their own
actions of the server for that.

* **Idle.** `phase` is where the handle is: not there, in the caller's hands,
  or inside `init`, the wait, the renewal (`terminate(true)?; init()?` on a
  timeout with `keepalive`) or `drop`. `InitPlus`, `InitOther`, `InitRest` are
  the branches of `init`; `WaitLine` one turn of the inner loop of `wait_inner`;
  `WaitTimesOut`, `Refresh`, `ReplyTimesOut`, `RenewalUnsent`, `WaitEof` the
  errors; `DropQuietly`, `DropDone`, `DropUnsent`, `DropRead` are `drop`. The
  history `trouble` names what has gone out of the ordinary (a refusal, an
  early update, a second wait on one handle, an unused handle, a slow reply, a
  failed write ...), so that each property can say which of these it survives.
* **Append.** `finish` reads one line: `+` sends the message and reads the rest
  of the response, anything else is `Error::Append`. `stored` records which
  call's octets the server stored for which APPEND.
* **Login.** `SkipComment`, `Respond`, `GiveUp`, `Read` are the branches of the
  loop of `do_auth_handshake`, in its order; `session` is the call that turned
  the Client into a Session. A challenge that cannot be decoded (base64, UTF-8
  or its `+ ` syntax) makes the call return `Error::Parse` with the Client.

### Session and ListStatus

`Session` starts where `run` has returned. A response is its kind; there is one
command for each way a reply is parsed. `Wanted`, `Converts`, `Ignores` and
`Fails` say what each parser does with each kind; `Judged` is the check of the
counts when the reply is over. `Receive` models a parser reading the response,
in the order of the reply. `qresync` says whether the server reports removals
with VANISHED or EXPUNGE, which a server does in one way for a session.

`ListStatus` is the pairing loop alone: `OnList` and `OnStatus` are its two
arms, `End` the flush of the last pair when the lines run out.

`Mirror` puts an application on top of `Session`: the server's mailbox `box` is
a sequence of UIDs, which only grow, `told` what each response said of it (EXISTS the size,
perhaps after a delivery; EXPUNGE a number; VANISHED a UID), `mirror` the
application's copy, to which it applies the result of a call when the call
returns and the queue when it takes it. The steps are Session's own, each with
what the server or the application does at that moment. `trusted` turns false in
the three cases in which the code lets the copy go wrong (section 4); each of
them is necessary: without any one, TLC finds the copy wrong.

### Arguments, Methods, Replies and Calls

`Arguments` says what a method may make of an argument, its form: `quoted`
(`validate_str`), `line` (`validate_str_noquote`, not quoted), `set`
(`validate_sequence_set`), `unchecked` (`quote!` without validation),
`inQuotes` (between quotes as it is), `verbatim` (as it is) and `word` (given by
the method). `IsValid` and `ArgText` are the validation and the text of each
form; `ResourceName`, `FlagOf`, `Rights`, `MetadataItem`, `Criteria` and
`Charset` are the typed arguments. The other half of the module is external:
`Scan` reads a line back as atoms, strings and parentheses, as the grammar has
it, and `Meaning` is what the caller meant.

`Methods` has one definition for each method of Session that sends a command
(and `login`), each the sequence of its arguments in the code's forms.
`Replies` has one for each parser and accessor of `types/` and `extensions/`:
`OnlyOne` and `AtMostOne` are `parse_until_done` and its optional variant,
`FindMap` the search of the accessors of `Fetch`, `OnSelectResponse` and
`SetField` the assignments of `parse_mailbox` and `parse_status`, `HasStr`
`has_str`.

`Calls` composes them: `Issue` validates and writes, `Hear` is the server that
reads lines, `Answer` and `AnswerMetadata` its responses, `Ok` and `Fail` the
tagged response with the parser of the method (`Parsed`). The connection is in
step there, which is Connection's business, and the replies hold no response
that the parser does not want, which is Session's.

### Builder

A line is two pieces there, because `BufStream` may read ahead into the middle
of the next line and `into_inner` drops what it read ahead. `step` is where
`connect_with` is; each mode's path through `TlsFirst`, `Upgrades`,
`AfterGreeting`, `AcceptsPlaintext` and `AfterHandshake` are its match arms and
the tests of `upgrade_tls`. The server speaks plaintext or waits for a TLS
handshake, lists STARTTLS or not, and may refuse either command.

## 3. What TLC checks

| run | instance | what it shows |
|---|---|---|
| `connection` | 3 calls, tags to 4, 1 push | replies reach their call; without I/O errors nothing is left behind and no literal is taken for a response; a connection that fell behind never returns another reply; `CommandChannel` is implemented; each call returns |
| `idle` | 3 commands, tags to 3, 2 updates, 1 handle | a handle in ordinary use leaves the session in step; no reply is mismatched; the timeout is always taken off; the `unreachable!()` of `init` is not reached; DONE meets a server that idles; the callback gets each update in order and, until a renewal, all of them; `drop` returns |
| `append` | 3 commands, tags to 3, 1 update | `Ok` is stored, what is stored is the message given, the session is in step, `finish` returns |
| `login` | 3 commands, tags to 3, 1 update, 2 challenges | the Session is accepted, the Client is not logged in, the next command is in step, both calls return |
| `session` | 14 commands, 19 kinds; 2 calls, 2 responses, UIDs to 3 | the queue keeps the server's order, each update once; no `Ok` loses a response its parser is not written to skip; another mailbox's STATUS is an update; an application that applies results and queue has the server's mailbox |
| `calls` | all methods; texts of up to 2 of 6 characters; replies of up to 2 responses | the server reads what the caller meant; a single answer is single; each annotation is accounted for; the value has what the reply said, each part of it in the server's order |
| `list_status` | 6 responses, 3 mailboxes (symmetric) | with each STATUS next to its LIST, no name gets another's status and none is lost |
| `builder` | all modes and servers, 2 pushes | no downgrade; one greeting; no reply left; the Client starts at a line, save after `Auto`'s fallback; connect returns |

Deadlock is checked in `calls`, where a call always comes to its end. It is not
(`CHECK_DEADLOCK FALSE`) in the other runs: a client whose
caller has no further command, or one that waits for a silent server, stops,
and so does a model at its bound. That a call does not stop for ever is what
the liveness properties are for.

**Why the bounds are enough.** A stale answer needs one call that gives up and
one that could take its answer; a third shows what happens after that, with a
`skip_tag` anywhere (so tags go one further than calls). A literal is three
lines, whose middle one reads like an untagged response, like the tagged
response to the *first* command, or like nothing; it can come before, between
or after the answers. The shortest IDLE that can go wrong in a renewal is two
commands, with one more for the session that goes on after the handle; two
updates are what order and duplication need. The same properties of Idle were
also checked with two handles (3 calls and 1 update; 2 calls and 2 updates),
which the run leaves out for time: a handle starts with fresh state except for
the connection's, and `InStepAfterHandle` is what the second one relies on.
APPEND needs the failed call, the one whose octets complete its message, and
one that observes it; AUTHENTICATE one good and one bad challenge. In Session
the parsers look at one response at a time and only the queue and the counts
relate two: two calls with two responses reach every pair of command and kind
and both orders. For Mirror, two responses are what an order needs, in one
reply or in two, and with them `box` has room for one delivery and one removal;
three responses of the kinds that matter, with UIDs to 4, were checked too and
are left out for time. In Calls a text of two characters is what quoting needs
(a backslash before a quote, CR before LF), and the parsers fold over responses
one at a time, so that two show what the second does to the first; three sizes
make two annotations differ from each other and from none. Three mailboxes make a wrong pairing differ from a missing
one on both sides, and six lines are all their responses. The bounds are
`MaxTag` (past it `tag += 1` overflows, so the guard also keeps the models
within what the type can hold), `MaxCalls`, `MaxChatter`, `MaxHandles`,
`MaxChallenges`, `MaxResponses`, `MaxUid`, `MaxReply` and `MaxLines`; each is a guard of an action and
all of them only stop the environment or the caller, never a client that is
inside a call, except in `Refresh` (a renewal is a new command).

**Fairness.** Only weak fairness, and only of what the code or the server
cannot put off: a read returns once there is a line (`ReadLine`, `DropRead`,
`AppendRead`, `LoginRead`) or the end of the stream (`ReadEof`,
`TransportFails`), and the server serves what it receives (`Answer`,
`ServeIdle`, `ServeAppend`, `ServeLogin`, `Answers`). In Builder every step
of the client brings `connect_with` forward, so `Client` is fair as a whole. The
caller, pushes, hang-ups and failures are never fair, and a server that has
hung up owes nothing. Where a server may rightly stay silent (it waits for the
rest of a message; it waits for a TLS handshake) the liveness property names
that case. `OrdinaryDropReturns` is about `drop` alone: a wait on a
quiet mailbox need not return.

## 4. Where code and documentation part

These four are runs that TLC finds violated:

* `connection_tag_reuse`: a failed write gives the tag back (`client.rs:1519`)
  but the command stays in `BufStream` and goes out with the next one. Two
  commands carry one tag, and the second call returns the answer to the first.
* `idle_early_update`: an update that the server sent before its `+` is taken
  for the beginning of a refusal (`idle.rs:115`); `init` swallows the `+` and
  blocks, before any read timeout is set.
* `login_retry`: a challenge that cannot be decoded returns the Client "to try
  again" (`client.rs:502`) with AUTHENTICATE still open; the next try fails.
* `session_select_panics`: an untagged NO in the reply to SELECT that ends in
  OK, a warning, reaches `unreachable!()` (`parse.rs:306`).

These were met while modelling. The models contain them, and the properties of
the passing runs say where they stop because of them:

* `skip_tag` does not recover from a `TagMismatch` as `error.rs:110` offers: it
  moves the counter, the stream stays behind (`BehindForGood`: a connection that
  is behind returns no further reply, with or without `skip_tag`).
* Dropping an IDLE handle that never waited, or whose IDLE was refused, sends a
  DONE nobody expects and blocks (`idle.rs:94`, `done` starts FALSE);
  `OrdinaryDropReturns` excludes it.
* A renewal loses the updates that come with the reply to DONE (`idle.rs:124`);
  `WaitMissesNothing` is about waits that were not renewed.
* An update before the `+` of APPEND makes `finish` give up (`client.rs:255`)
  while the server waits for the message: the next command's octets are stored
  as mail, although a comment says that no partial append will happen
  (`client.rs:1200`). `StoredIsMine` and `InStepAfterAppend` say `~early`.
* A STATUS is paired with the latest LIST, whatever mailbox it names
  (`list_status.rs:70`): if a server does not send each right after its LIST, a
  name gets another's status. `PairedIfAdjacent` is about servers that do.
* A result and the queue lose their order towards each other: the removals of
  an EXPUNGE are in its result, a size reported between them, or left in the
  queue by an earlier call, is in the queue (`parse.rs:218`). And the queue survives a SELECT (`client.rs:565`), so what is
  left in it reads as news of the new mailbox. `InStepWithServer` excludes both,
  and the loss of the next item.
* `run_command_and_check_ok` drops the updates in its reply (`client.rs:1511`,
  against `client.rs:138`), and a VANISHED in a reply to SELECT makes
  `parse_mailbox` fail (`parse.rs:354`).
* `ConnectionMode::Auto` falls back to plaintext when STARTTLS is not listed,
  but not when it is listed and refused (`client_builder.rs:330`).
* Not all text is validated. RENAME, SUBSCRIBE, UNSUBSCRIBE, LIST and LSUB quote
  their names but do not look for line breaks; the sets of STORE, COPY, MOVE and
  UID EXPUNGE are written as they are; APPEND puts the mailbox between quotes
  without escaping it. `Unguarded` names these forms and `HeardAsMeant` excludes
  them.
* `set_acl` in mode Replace with no rights writes nothing in their place;
  `sort` with no criteria and `lsub` without a pattern (unlike `list`) leave a gap
  where the grammar wants an argument. `HeardAsMeant` says that the arguments
  arrive as given, not that a command has all of them.
* The UNSEEN of a STATUS, a count, is put into `Mailbox.unseen`, documented as a
  sequence number (`mailbox.rs:21`).

## 5. What is proved

The proofs hold for every value of the constants that meets the named
assumption of the module (`ConnectionAssumption`, `IdleAssumption`,
`LoginAssumption`, `BuilderAssumption`, `SessionAssumption`,
`MirrorAssumption`, `ListStatusAssumption`: bounds are naturals, literal text is literal text,
commands and kinds are known ones, `None` is no mailbox; `CallsAssumption` and
`DataAssumption`: see CallsProofs) and assume nothing
else: any number of calls, tags, updates and challenges, any literal text.

**ConnectionProofs.** `TypeCorrect` (flags and data are proved apart and then
joined, because no one prover handles both), `MatchingHolds` and `ReplyMatches`.
`ReplyIsMine` is not inductive: nothing in it speaks about answers that are
still on their way. `Matching` adds the two facts the code relies on, for as
long as the connection is not broken:

* `TagsMatch`: no command in flight, in the write buffer, on the wire or as an
  unread answer, has a tag that will be given out again, except the one of a
  failed write until the tag is skipped; and while a call waits, the current
  tag is only on its own command.
* `Framed`: a line of a literal comes right behind its opening line or is about
  to be read with `pending` set. Without it a line of a literal could be
  compared with `match_tag`.

Each action's effect on the set in flight is a lemma (`RunInFlight`,
`ReadInFlight`, ...); `TagsStep` and `FramedStep` then go action by action, and
`ReadIsMine` reads `ret.by = call` off the line that matched.

Three more invariants rest on it.

* `Served`: the server takes commands in the order of the calls
  (`TakenInOrder`), and its answers are on the wire in that order, each as it was
  given (`HeardInOrder`).
* `Tidy`: the lines of a literal are on the wire whole or `pending` says that the
  rest of one is to come (`Blocks`), and as long as nothing failed the only
  command in flight is that of the call that waits (`InStep`). No count of
  unanswered commands is needed: a call that ends well took the one there was.
  `NothingLeftBehind` and `LiteralsAreNoResponses` are read off it.
* `Late`: a connection that is behind has not just returned a reply. Since the
  server answers in order, nothing else is to come when the answer to the
  present call is read (`LastAnswer`), so a connection that is behind never reads
  it: `NeverCatchesUp`. The number of unanswered commands is a cardinality
  here, which each step changes by at most one (`BehindStep`).

`ImplementsChannel` is the refinement, `Spec => ChannelSpec`: the initial state
maps to the abstract one, and each action to the abstract step that its name
suggests or to a stutter. The order of the answers (`Served`) is what the
abstract "each command is answered at most once" needs.

The last part of the module is about no specification of its own but what the
three dialogues over Continuation share. `DialogueStep` sorts any step of Idle, Append and Login into
five kinds: a call is made, a line is read, the client talks, the server takes a
line, untagged lines come. For these kinds it is proved once that a reply is
the call's own (`Matched`), that the server gets commands and second parts in
the order of the calls (`InCallOrder`), and, as long as nothing failed
(`Steady`), that at most one side is to move: nobody owes anything, or one line
is on its way to the server, or one reply to the client (`Turn`).

**AppendProofs.** `OkStored` from `Storing`: an answer OK to an APPEND is given
with the message stored for it (`Acknowledged`), and the order of the calls makes
the text in progress that of the call (`InProgress`). This needs no peace: any
write and read may have failed, short of a tag that is used twice. `StoredMine`
and `AppendInStep` are about a dialogue without faults or early lines; `Calm`
adds to `Steady` that each `+` and each message under way belong to the phase
`finish` is in.

**LoginProofs.** `SessionAccepted` from `Admitting`: an OK to a call with
credentials was given with the credentials accepted, after any history.
`NotLoggedIn` adds `Listening` (accepted credentials mean that their OK is on its
way to the call in progress), with no word about challenges; `LoginInStep` adds
`Shaking` (each `+` and each response belong to the loop of
`do_auth_handshake`), for a server whose challenges can be decoded.

**IdleProofs.** One invariant, `Idling`, for all that holds after any history.
`PanicsNever` needs most of it: the OK that `unreachable!()` would meet could
come from a DONE of an earlier handle, so `LastOfAll` says that the IDLE `init`
waits for is the last line the server gets. And because the panic leaves the
read timeout set, `TimeoutTaken` needs that a renewal does not get there even
on a broken connection: `TagsInUse` bounds the tags of all commands that are
awaited, so that the tag of a renewal is new. `DeliveredInOrder` from
`InSequence`: the updates delivered, then those on the wire, then those to come.

The other three properties are about a client that is in step, so they need an
invariant of whose turn it is. `Steady` of Continuation does not do: in IDLE the
client talks without being asked (DONE), and untagged lines are awaited, not
skipped. There are six places the dialogue may be in: `Free`, `Requested`,
`Invited` (`+` is under way), `Idles`, `Ending` (DONE is under way) and
`AnsweredWith`; `InTurn` says which of them each phase of a handle allows. Three
things had to be found to make it inductive:

* `timed => done` while a renewal waits for its `+`, and `~done` in a wait:
  otherwise drop could send a second DONE after a renewal that timed out.
* After a reply is given up or a response cut, only `Loose` remains: at most one
  DONE, first in line, at a server that idles. `Follows` therefore ends where
  another handle is made after that; `DoneEndsAnIdle` is about a first handle
  for the same reason.
* `Neat`: nothing is left in the write buffer, no response is pending where none
  can be, and what the server sent is whole responses (`Blocks`).

`AfterHandleInStep` and `DoneEndsIdling` follow from these. `WaitsMissNothing`
adds `Heard`: each update announced since the `+` is delivered or on its way. It
stops at a renewal, because `terminate` drops what comes before the reply to
DONE.

**BuilderProofs.** `Negotiating` says for each step of `connect_with` what the
client may find in its input and what the server believes (`AtGreeting`,
`AtCapability`, `AtStartTls`, `AtHandshake`, `AtReady`). Most of it is about
lines: the input starts at a whole line in every step but one (`Whole`; `Auto`
without STARTTLS may stop inside the pushes it read ahead), a tagged OK is
followed by nothing but pushes (`OkIsLast`), and STARTTLS is listed before that
OK (`ListedFirst`). `NotDowngraded`, `ReadyInStep` and `ReadyOnALine` follow.

**SessionProofs.** On top of `DataOK` (types, with: a command in progress has a
number) four invariants:

* `UpdatesOrdered`: `taken \o unsolicited` increases and stays below the number
  of the next response; a push appends a larger number and a take moves the
  queue without reordering. It gives `OrderKept`.
* `Numbered`: result and queue only hold numbers of responses received, so the
  next one is new to both. It gives `CountedOnce`.
* `ReplyOK` with `OneStyle`: while the parse of the present call is fine, each
  of its responses is in `result`, in the queue or skipped; and the session
  sees EXPUNGE or VANISHED but not both, so that `Collected` drops nothing.
  They give `LosesNothing`.
* `ResultsWanted`: what is in a result is of a kind its command wants, which
  another mailbox's STATUS is not. It gives `OthersStatusKept`.

`MirrorsServer` is about the application on top of it, for any number of calls,
responses and deliveries. `Leads(told, S, mirror, box)` says that the responses
of the set `S`, applied one by one in the order they came, turn the copy into
the mailbox. The inductive invariant `Mirrored` says that of the queue between
calls, and as long as the call in progress had nothing about the mailbox; and of
the queue together with the result in a call whose parse is fine so far. A
response extends `told` and `box` alike and is placed where the set has it
(`LeadsReceive`); a result or a queue that holds all that is relevant of the set
can be applied alone, because the others change nothing (`LeadsAlike`). The
invariant needs the order of the queue (`UpdatesOrdered`), that nothing of a
good reply is lost (`ReplyOK`, `OneStyle`) and that no response is in both places
(`OnceOnly`).

What the application does is a fold, so this proof is one about a recursive
definition. The library's induction theorems cannot be used, but
`FS_PigeonHole` can, and gives induction over a set (`Inductive`): a set with 0
and all successors in which some m were missing would be mapped, below m, one to
one into itself without 0. From it follow that the recursive function under
`FoldLeft` exists (`FoldExists`), what it computes (`FoldedIs`), that a set of
responses can be listed in order (`ListsExist`, `ByArrivalLists`), and that a
fold over the list of a set is where the set leads (`LeadsFold`).

The model was changed for it: a first version took the UID of a delivery from
those of the present mailbox and could use that of a removed message again.

**ListStatusProofs.** Under `Adjacent`, the inductive invariant `Pairing` says:
the current mailbox, if set, is the one of the current name, and both are the
latest lines read (`CurrentIsLatest`); each pair is a name with its own status
or none; and every STATUS read is either the current one or in a pair
(`OthersArePaired`). Clearing `current_mailbox` after a push is what keeps it
for a mailbox whose STATUS is missing. It gives `NamesArePaired` and
`StatusesAreKept`, for replies of any length about any mailboxes.

**CallsProofs** is about texts, commands and replies of any length. What the
model computes there are folds and filters, so it starts with sequences: an
induction for them (`SeqInductive`, from `Inductive` as in SessionProofs), what
`FlattenSeq` and `FoldLeft` give (`FlattenIs`, `RunsExist`, the lemmas ending
in `Walks`) and what goes through a sequence element by element (`Through`).

`HeardAsMeant` is proved in four layers.

* Texts. `Read` is the server's reader part of the way; what it has read stays
  read (`ReadAfter`), and a text splits where the reader is not inside a string
  (`ReadSplits`). `QuoteReadsBack`: a text that `quote!` escaped, whatever it
  holds, is read back as one string.
* Arguments. `Fits` says of an argument that is sent that its text reads as its
  meaning, ends outside a string and has no line break. It is proved for each
  form, and for groups of any length; forms that `Unguarded` names are the ones
  it cannot be proved for.
* Commands. `CommandReads` joins arguments that fit, with the spaces between
  them; SETACL, whose rights carry a sign, is apart (`SetAclMeans`).
* Calls. Each method's command is made of such arguments (the lemmas ending in
  `Proper`), so whatever call starts, its command means what it should
  (`Starting`). The invariant `HeardInv` keeps that for the line on the wire.

The other three rest on `ReplyInv`: every response of the reply is of a kind
the command asks for, with data of that kind (`AllSane`), and a value that was
returned is what the parser makes of this reply, a failure, or that of a call
that did not go out (`Returned`); and no reply has both EXPUNGE and VANISHED
(`Unmixed`), of which `parse_expunge` keeps one. `OneAnswer` then counts (`AllCounts`). For
`MetadataIsAccountedFor`, the server has sent all it did not hold back, and the
largest of a finite set bounds the rest (`FiniteLargest`). `ValueIsAsSent` goes
parser by parser. The numbers of a range that the caller iterates are all of it,
listed from the least (`RangeIs`), so those of a reply are the ranges of its
VANISHED responses one after the other (`VanishedOnly`), with repetitions, or
the numbers of its EXPUNGE responses (`ExpungedOnly`). A fetch has its number
and the first or the last attribute with data (`FindMapGives`,
`LastAttrGives`); capabilities agree but for case (`SameCapability`). For a
mailbox it is shown what each field holds after each response of a SELECT
(`SelectHolds`), its flags and permanent flags being those of all responses in
order (`FlagsAre`), or of a STATUS (`StatusHolds`). It is not about replies
whose value is a copy (the names of LIST, SEARCH, quotas).

`CallsAssumption` says what the arguments are. Names, texts and queries are
arbitrary sequences of characters. What the caller writes in the syntax of IMAP
(`Atoms`: search queries, flags, item lists, which the code sends as they are)
is a whole number of tokens on one line; a set has neither quotes nor
parentheses (`validate_sequence_set` looks for whitespace only);
the letters of rights are not those with a meaning of their own. `DataAssumption`
says what imap_proto can hand over and a sane server sends: the parts have
their types (a size and a UID are there, PERMANENTFLAGS has flags), VANISHED
names a range, a message has one INTERNALDATE, the code of an untagged OK is not one of the counts of a STATUS, and the names of
capabilities that differ only in case are `IMAP4rev1` and `AUTH=` (the model's
two words for which `EqIgnoreCase` is not equality). TLC evaluates both.

The model was changed for these proofs where they showed it to lean on more
than it says: guards of a CASE that overlapped (`Scan`, `OnCode`, `Issue`), of
which TLC takes the first and the language any; and `SUBSET Unsent \ {{}}`,
which read as the subsets of a difference.

**Only model-checked.** Liveness, which TLAPS proves neither from fairness nor
through ENABLED.

## 6. What is left out

* The text between the characters that the code tells apart; dates (a date is a
  text, readable or not); numbers as octets.
* In Calls, updates that come with a reply (Session has them), the responses of
  LIST-STATUS (ListStatus) and the second part of APPEND (Append).
* `has_str` splits a text after five octets, which panics inside a character of
  several (`capabilities.rs:78`); texts are characters here, not octets. So is
  the slice of `readline`'s debug output (`client.rs:1649`), which is one octet
  off for a line without CRLF.
* `into_owned`, `iter`, `len` and `get` of the collections; Display of errors.
* Octets the parser cannot read in a reply that `run` accepted; `run` itself
  reports such a line as `Error::Bye`, and that is in Connection (`junk`).
* A command longer than the buffer of `BufStream`, which bypasses it, and lines
  cut by the end of the stream. Only the message of APPEND may lose its rest.
* In Idle, Append and Login, `skip_tag` and the public `run_command` between the
  commands (Connection has them), and in Idle the I/O failures of the commands
  that are not IDLE.
* Overflow of `tag`, which takes 2^32 commands; `MaxTag` stops before it.
* Errors of `set_read_timeout` itself, and read errors in a wait other than a
  timeout or the end of the stream.
* TLS: a handshake succeeds or fails. Builds without a TLS backend.

## 7. Plan

Done: Wire, Connection, CommandChannel; Continuation with Idle, Append and
Login; Session with Mirror, ListStatus and Builder; Arguments, Methods, Replies
and Calls, all with their proofs. They cover every safety property that a run
checks.

Next:

1. `Calls` over `Connection`, so that a method can fail as `run` does.
2. Replies with responses that no parser wants, to bring Session's queue and
   the values of Calls together.
