# Ringbeller: a TLA+ model

Ringbeller (`src/solution`) is a C++ library that exchanges AT commands with a
serial modem through Boost.Asio, and a program with seven subcommands built on
it. This directory holds a model of both: TLA+ modules translated from the
code, TLC configurations that check them on small instances, and proofs that
TLAPS checks. Paths below are relative to `src/solution` unless they start with
`src/`; `PROJECT.json` maps every definition to the lines it models.

## The system

| Component | State it keeps | Operations | Interacts with |
|---|---|---|---|
| response parser, `lib/src/parser.cpp` | none, but semantic actions write a code, a text and lines | `match_condition`, `parse_response` | called by the reader, on all the data of its buffer |
| message reader, `lib/include/read.hpp` | none of its own: works on the caller's stream, buffer and response object | `read` (two overloads), `async_read` | `boost::asio::read_until`, the caller's handler |
| requests, `lib/include/message.hpp`, `messages/` | a command and its arguments | fourteen factories, `to_string` | the writer |
| message writer, `lib/include/write.hpp` | a local string per call | `write` (two overloads), `async_write`, `async_write_text` | `boost::asio::write`, `async_write`, the caller's handler |
| `execute`, `app/src/execute.hpp` | a local buffer per call | write a command, read one message | five of the subcommands |
| `at_ok`, `ati`, `at+cops` | a buffer, a response | one command, one message | writer, reader |
| `send-sms` | a buffer and one response for the whole run | two commands, `AT+CMGS`, wait for the prompt, the text | `execute`, a chain of handlers |
| `rcv-sms` | the same | three commands, then read until `+CMT` | `execute`, a handler that starts the next read |
| `make-call`, `rcv-call` | the same, `usb_cfg`, an `io_service` | query, wait for `+QCFG`, write it back, audio on, dial or wait, audio off | `execute`, a handler that starts the next read |
| `main.cpp` | options | pick a subcommand | the subcommands |
| serial port setup, logging, formatters | none | | not modelled, see the end |

Everything runs in one thread. What makes the program hard is the serial line:
bytes arrive in pieces nobody chose, the modem speaks unasked, a completion
handler starts a read on a buffer that is still being worked on, and the same
response object and the same buffer go from one step to the next. The
properties that make the components right are:

* parser: the same verdict, extent and results as the grammar; a match, once
  there, stays; what is reported comes from the response and not from a failed
  alternative;
* reader: each message is reported once, in order, whole, and nothing else is;
  the storage a read in flight points into is not moved;
* writer: the bytes of the request go on the line, those and no others;
* `execute`: one command at a time, its own answer;
* subcommands: the text goes to a modem that waits for it, a prompt is
  answered, a notification is noticed, the configuration written back is the
  modem's and comes before the audio, the audio is off afterwards, the program
  ends;
* the program as a whole: all this also when it is killed at any step and run
  again, with whatever the run before has left on the line and in the modem.

`PROJECT.json` lists under `hazards` the lines where these can go wrong and the
properties that would show it.

## Modules

```
GrowingInput
     |
AtGrammar  Streambuf (external)      Requests
     \      /                        /      \
      ReadOps                  AtWriter   Modem (external)
      /     \                                /
AtReader     +-----------> Session <--------+
   |                          |
MessageStream     SendSms  ReceiveSms  VoiceCall  Query
(abstract)            \         \        /        /
                       +------- Program --------+
                               /       \
                        TextEntry     Exchange
                        (abstract)   (abstract)
```

| Module | Models | How it corresponds |
|---|---|---|
| `AtGrammar` | `parser.cpp` | closed forms of the Spirit X3 grammar: ordered choice, greedy repetition, semantic actions that are not undone. `Matched` and `MatchLen` are `match_condition`, `Parse` is `parse_response` |
| `GrowingInput` | the data a waiting read looks at | a string that grows by a word at a time; what `match_condition` and `parse_response` make of it before and after |
| `Streambuf` | `boost::asio::streambuf` | a record of storage, read position `g` and write position `p`; `commit` and `consume` clip, `prepare` slides the data to the front and leaves old bytes behind it |
| `ReadOps` | `populate_response_from_buffer`, one turn of `read_until` | operators the reader and the subcommands share |
| `AtReader` | `read`, `async_read` | one action per call, arrival, error and completion; the habits of a caller (own buffer or not, consumes or not, reads on or not) and of its line (whole messages or pieces, reads that fail or not) are the record `use`, picked once in `Init` from the constant `Uses`. `HandlerRuns` keeps the order of `read.hpp:200-210`: commit, parse, the handler's consume, the handler's next read, the last consume |
| `MessageStream` | what a reader promises | messages are shown one by one, in order, once each; `AtReader!StreamSpec` instantiates it with a refinement mapping |
| `Requests` | the factories and `to_string` | the five booleans of the request template are one field |
| `AtWriter` | `write.hpp` | `alive` tells whether the string a write refers to exists; a device that takes bytes later takes them from `Memory` |
| `Modem` | the modem | takes what is written piece by piece, answers or refuses it, prompts for a text, sends unsolicited messages |
| `Session` | `execute.hpp` and what subcommands share | `Opens`, `OpenFails`; `ExecuteWrites`, `ExecuteReturns`, `ExecuteEnds`, `ExecuteFails`; `ReadEnds`, `ReadsAgain` for handlers; `Started` and `StartsOver` are a program at its beginning |
| `SendSms`, `ReceiveSms`, `VoiceCall`, `Query` | `do_send_sms.cpp`; `do_receive_sms.cpp`; `do_make_vcall.cpp`, `do_receive_vcall.cpp`; `do_at_ok.cpp`, `do_ati.cpp`, `do_at_cops.cpp` | `step` is the place in the function; one action per command executed and per handler; each has `…Acts`, what the function does, and `…Fails`, every operation of it that may complete with an error (`SendSmsActs`, `SendSmsFails`), and no specification of its own |
| `Program` | `main.cpp` | extends the four subcommand modules. `Init` picks a subcommand, `Runs` is the next step of its module, `Fails` an operation that completes with an error, `Receives` bytes handed over; `ModemAnswers`, `ModemSpeaksUp`, `SmsArrives` are the modem's steps; `StartsAgain` is a program that ended or was killed, run again. All properties of the subcommands are stated here |
| `TextEntry` | what sending an SMS promises the modem | a text is asked for, given once, taken; `Program!TextEntrySpec` instantiates it with a refinement mapping over what is on the wire and what the modem waits for |
| `Exchange` | what `execute` and the handlers behind it promise of a line on which one side speaks at a time | a command is written when nothing is on its way, answered, and its answer read before the program goes on; `Program!ExchangeSpec` instantiates it with a refinement mapping over the wire, the line, the buffer and the read, for programs that are undisturbed (`Undisturbed`) |
| `MC*` | | small constants for TLC; `MCAtGrammar` also holds the reference parser |
| `AtGrammarProofs`, `ReadOpsProofs`, `SessionProofs` | | lemmas about the operators and about the actions the subcommands are made of |
| `GrowingInputProofs`, `AtReaderProofs`, `AtWriterProofs`, `ProgramProofs`, `DialogueProofs` | | theorems about the specifications |

Definitions marked "Mutated form" stand before the definition they vary. They
are no part of the specifications: each is a plausible mistake in the code,
and the run named with it in `PROJECT.json` reports its property violated when
the mistake is put in the place of the real definition.

### Abstractions

* A byte string is a sequence of tokens: CR, LF, NUL, the prompt, the literal of
  each result code, and text. Blanks, which the parser skips, are left out.
* New storage is filled with NUL; a buffer's storage is exactly as large as
  `prepare` asked for. The least read size of Asio is 512 bytes; `Window` is 24
  tokens in most runs, more than any message in them, and 4 in `ReaderChaos`,
  where `prepare` has to slide and grow.
* In `Session` a write is one step, and a write that fails has put nothing on the line
  (`ExecuteFails`), although `boost::asio::write` may have written a part by then; the
  program returns in either case. `AtWriter`, which looks at writes alone, has them
  piece by piece, with an error after any of them.
* A read of the device returns between one token and all there is, or, when
  `whole` (`use.whole` in the reader) is set, all there is. Both are behaviours of
  the same run; a property that only holds for one of them says so in its
  condition.
* `Modem` is taken from what the code and the transcripts of `Validation.md`
  expect of it. It does not notify while it waits for a text.
* The modem's answer to `AT+QCFG` is a response of its own or a URC
  (`QcfgAnswers`): the code expects the second, `src/README.md:20-23` reports the
  first.
* The handler of `RING` (`do_receive_vcall.cpp:146-204`) has no action: the
  second `ios.run()` returns at once, so it cannot run.
* Opening the device may fail, and may keep or drop the bytes that are on the line
  (`Session!Opens`; nothing in the code flushes it, but a driver may).
  `setup_serial_port` only logs its errors and has no state.
* A program that is killed loses its buffers, its response object and
  `usb_cfg`; the line in both directions and the modem stay (`StartsAgain`).

## Runs

Bounds are constants: `MaxWords` and `MaxStray` (length of the parsed string),
`MaxSent` (messages), `MaxUrcs` (unsolicited messages), `MaxWrites`,
`MaxRestarts` and `Again` (how often the program is run again, and as what),
`MaxFaults` (operations that fail), `MaxTrouble` (URCs, restarts and faults
together). From the second run of the program on, reads of the device return
all there is; the first may have left a part of a message on the line.

### Runs that pass

| Run | Bound | Shows |
|---|---|---|
| `MCAtGrammar` | strings of 6 words over 8, one stray CR or LF; 164229 states | `AgreesWithGrammar` (the closed forms do what a recursive descent over the grammar does, on matching, failing and partial input), `RoundTrip`, `RcMeansFinalCode`, `CodeIsNoLine` (a lone result code never becomes a line), `MatchIsStable`. Six words are enough for two lines and a final code, or one line and a code with text |
| `ReaderStream` | 4 messages of similar length, fairness; 6719 states | reads as `execute` does them, over any line, and as the handlers do them, over one that hands over whole messages, implement `MessageStream` (`StreamSpec`) and report every message (`AllReported`); the match a handler sees is in the buffer, and the buffer is empty when all was reported. Four messages let garbage of the first reach the last |
| `ReaderChaos` | 3 of messages, prompts and echoes, `Window` 4, four ways of reading, each with and without reads that fail; 925103 states | `TypeOK`, `InFlight`, `NothingLostWhileReading`, `NeverResynchronises` in every interleaving of arrivals, faults and handlers that read on or stop; `FirstIsShown` where no read fails: whatever is cut, joined, or committed behind it, what the first read shows has the first message in front |
| `Writes` | 2 writes of 4 requests | `OnlyTheRequest`, when the device has room for an asynchronous write at once |
| `ProgramSafe` | all subcommands, refusals, both answers to the query, split and whole reads; two of: a URC (a line or a RING) at any moment, a fault, one or two restarts at any step as `send-sms`, `rcv-sms` or `make-call`; 1134317 states | `TypeOK`, `OneAtATime`, `TextOnlyAtPrompt`, `ConfigIsTheModems`, `ConfigIsHeard`, `ConfiguredFirst`, `OnlyRealSms`, `ConfigHasAValue`, and `TextEntrySpec`: three programs in a row implement the abstract text entry |
| `ProgramLive` | all subcommands, refusals, both answers to the query, split and whole reads, a RING or a restart as any subcommand at any step, fairness; 90335 states | `ExchangeSpec`: undisturbed programs implement the abstract exchange of commands and answers; `PromptIsAnswered`, `Terminates`, `ReactsToSms` (for an SMS that comes while the program listens), `AudioIsOffAfterwards` |

One unsolicited message is enough to be taken for an answer and to shift every
answer behind it to the next command, to be cut in two by `execute`, or to stand
in front of a notification. One restart is enough to find a modem in text entry,
answers or a part of one on the line, the audio on or a call up; two let what a
program did on such a line be found by a third. `rcv-call` and the queries are
not started again in `ProgramSafe`: the first writes what `make-call` writes up to
the dialling, and the others write and read once. Deadlock is not checked: the program ends, the modem
may fall silent, and the bounds end every behaviour.

### Runs that refute what the repository says

Each has one property, which states a comment, a message or a document, and an
entry under `findings` with the line.

| Run | Says | Does |
|---|---|---|
| `ReaderEntire` | the entire message is read | a message is reported when its first line is there |
| `ReaderReplay` | waiting for another message | the same message is reported again after one of another length |
| `WritesFreed` | all of the data has been written | bytes of a destroyed string were |
| `SmsPromptMissed` | prompt not received | it was; an older line was looked at |
| `SmsLost` | reacts the moment a notification is sent | it was in `execute`'s buffer |
| `CallNotAwaited` | waiting for the call | the stopped `io_service` returns at once |

### Other behaviours of the model that differ from what is written

They follow from the same causes and have no run of their own.

* Storage behind a message is committed (`lib/include/read.hpp:107`) and parsed as
  lines of it, and a buffer used for more than one read may hold zeros of its own
  storage, where `read.hpp:81` speaks of additional bytes read from the stream.
* A URC is taken for the answer of the command before it (`execute.hpp:50`), so the
  next command overlaps; `OneAtATime` is therefore stated for a modem that says
  nothing unasked.
* One response object serves all reads of a subcommand, although `read.hpp:88` asks
  for one without previous contents. A line that comes first hides every later
  `+CMT` (`do_receive_sms.cpp:105`), as it hides the prompt (`SmsPromptMissed`): with a line
  that comes unasked, `ReactsToSms` is false. `ProgramLive` therefore only has a RING,
  which stores no line.
* `rcv-sms` ends after the first line of a notification, before its text.
* When reads cut messages, the configuration written back may be put together from
  a cut line and old bytes of the storage (`ConfigIsTheModems` asks for whole reads);
  after a read error an empty one is written (`do_make_vcall.cpp:128`), and the audio is
  then switched on without it: `ConfiguredFirst` names that as the only way, besides
  a refusal.
* A call that fails or is killed after the audio was switched on leaves it on;
  nothing says otherwise. `AudioIsOffAfterwards` shows that the next call that
  ends well switches it off.
* `send-sms` run twice in a row (`Validation.md:7`): the first leaves the answer to the
  text unread, the second takes it for its first answer and is one answer late from
  there on. Its `+CMGS` line is then the first line of the response object, so the
  prompt is overlooked and the modem stays in text entry; the program after that
  waits for ever, its commands being taken for the text, or, in a fourth run,
  are sent as part of an SMS. `OneAtATime` and `PromptIsAnswered` are therefore
  stated for a program that found no trace of an earlier use (`fresh`).
* The rest of a message that was cut by a kill stays in front of every later
  response and hides it (`NeverResynchronises`); `Terminates` is stated for a line
  that holds nothing or a response.
* `rcv-sms` leaves the modem announcing SMSs, so a `+CMT` may be the answer a later
  program reads.
* The handler of `RING` looks for the code among the lines of the response
  (`do_receive_vcall.cpp:186`), where the parser never stores a plain code
  (`CodeIsNoLine`): a call would not be answered even if it was waited for.
* `make-call` dials the literal `{}` (`do_make_vcall.cpp:147`).
* `src/README.md:23` says the wait for the `+QCFG` URC never ends; if the answer to the
  query came first, any later message ends it.
* `at+cops` writes `AT+COPS?` (`do_at_cops.cpp:38`); `README.md:76` says `AT+COPS=?`.

### Fairness

Liveness is checked under weak fairness of three things: the program's own
steps (one thread that never blocks except in a read), the arrival of bytes the
kernel already has (a read is reported when the device is readable), and, in
`Program`, the modem taking what was written. It is not assumed that the modem
sends anything unasked, that an SMS comes, that an operation fails or succeeds,
or that anybody runs the program again. `Program!FairSpec` writes out what enables
`Runs` (`CanRun`) instead of using `WF_vars(Runs)`, whose `ENABLED` TLC evaluates
slowly; the two are the same, failures being an action of their own.

## Proofs

| Theorem | Says, for every value of the constants |
|---|---|
| `MatchIsStableSafe` | `Spec => MatchIsStable` of `GrowingInput`: a response that was found is found in every longer input, and one that ends with a final result code keeps its extent and its meaning |
| `RoundTripSafe` | `Spec => []RoundTrip`: the lines and the code a whole response is parsed to, written out, are the response |
| `RcMeansFinalCodeSafe` | `Spec => []RcMeansFinalCode`: the code that is reported is the one the input ends with, or the first line starts with a literal of one |
| `CodeIsNoLineSafe` | `Spec => []CodeIsNoLine`: a lone result code is never a line |
| `ReaderTypeOK` | `Spec => []TypeOK`: double commits and consumes never move the buffer's positions out of its storage |
| `ReaderInFlight` | `Spec => []InFlight`: the room a waiting read was given is the put area, whatever handler and `async_read` do after it was started |
| `ReaderLosesNothing` | `Spec => NothingLostWhileReading` |
| `ReaderNeverResynchronises` | `Spec => NeverResynchronises` |
| `FirstReadShows` | `Spec => []FirstIsShown`: for every client, all messages and every way the line cuts and joins them, what the first read shows has the message that came first in front |
| `BufferIsDrained` | `OwnBuffers => (Spec => []BufferDrained)` |
| `ReaderImplementsStream` | `OwnBuffers => (Spec => StreamSpec)`: the reader implements `MessageStream` |
| `WritesTheRequest` | `OnlyTheRequest`, if asynchronous writes are only used on a device with room, or not at all |
| `TypeCorrect` | `Spec => []TypeOK` of `Program`, over all subcommands, faults and restarts |
| `PromptsAreKept` | `Spec => []Inv`: at most one prompt is on the line or held by the program, and then the modem waits for a text and none is on its way |
| `ImplementsTextEntry` | `Spec => TextEntrySpec`: the program implements `TextEntry` |
| `TextsAreAwaited` | `Spec => []TextOnlyAtPrompt` |
| `ReceivedSmsAreReal` | `Spec => OnlyRealSms` |
| `OneCommandAtATime` | `Spec => []OneAtATime`: no command is written before the answer to the one before was read |
| `ImplementsExchange` | `Spec => ExchangeSpec`: undisturbed, the program implements `Exchange` |
| `ConfigurationIsHeard` | `Spec => []ConfigIsHeard`: a call that nobody disturbs misses no answer and takes no other line for the configuration |
| `AudioIsConfigured` | `Spec /\ ConfigHasAValue => []ConfiguredFirst`: the audio is only on behind the configuration, a refusal or a failure |
| `QuietConfigHasAValue` | `Spec => [][Alone => HasAValue]_vars`: the step of `ConfigHasAValue`, where nothing unasked was said and no earlier use left a trace |
| `QuietConfigIsTheModems` | `Spec => [](Alone => ConfigIsTheModems)`: then the configuration written back is the modem's |
| `FirstCallIsConfigured` | `Spec => [](First => ConfiguredFirst)`: for the first program, as long as nothing unasked was said, `AudioIsConfigured` needs no hypothesis |

Assumptions are those the modules declare: `TextAssumption` (text tokens are not
codes or control bytes), `WindowAssumption` (a read asks for at least one byte),
`ReaderAssumption` and `WriterAssumption` (types of constants), `SessionAssumption`
(new storage holds NUL), `ModemAssumption` (what the modem says unasked is no
prompt and no `+CMT`, and no text has the token of a command the modem knows by its
name, or Ctrl-Z), `WordsAssumption` (the input grows by bytes) and
`ProgramAssumption` (number and text are text). Messages, their number, the sizes of
reads and all client habits are arbitrary; so are the subcommands that run one
after another, how often they are killed, what fails and what the modem answers.

Some theorems have a hypothesis of their own. `OwnBuffers` is how `execute`, `do_at_ok`,
`do_ati` and `do_at_cops` read: a buffer for each read, the next message sent when
the one before was reported (`Lockstep`), and messages that no split can shorten
(`Undivided`: a bare result code, or one line), which `EntireMessage` shows to be
needed. `MCAtReader` has TLC evaluate
that the messages of `ReaderStream` are undivided. `FirstReadShows` asks for none of this; the property speaks of
uses in which no read fails, as what a failed read has taken is gone with its buffer.
`ConfigHasAValue`, the hypothesis of `AudioIsConfigured`, is the property `ProgramSafe`
checks: it depends on what the modem says unasked and on the old bytes of a buffer.
`Alone` (nothing unasked said, opened without a trace of an earlier use) and `First` (the
first program, nothing unasked said) are conditions on the state, and the theorems that
have them say nothing of the other states.

### Operators and the reader

`ReadOpsProofs` says what `prepare`, `commit`, `consume` and a device's
write do to the data, and that searching, committing, consuming and parsing make up no
tokens, whatever the set of tokens is. `AtGrammarProofs` says that the `CHOOSE`s of the
parser have a witness (`TextEnd`, `BodyEnd`, `Kth`, `LastAttempt`), that a match is not empty
and not longer than its input (`MatchLenProperties`), that what is parsed is
well typed, and that matches survive more input: a run of lines that is closed by
something else than a line stays what it was (`ClosedRunIsStable`), an open one may grow
(`RunGoesOn`), and with the run the last alternative the parser tried, hence the code and
text it leaves behind (`LastCodeIsTheSame`, `LastTextIsTheSame`), stay. For `RoundTripSafe`,
`GrowingInputProofs` cuts the input where the lines begin (`LineBegin`): each line ends
where the next one begins, and what follows the last one is the final code the last
alternative has stored.

`AtReaderProofs` proves the
inductive invariant `Inv`, which is `TypeOK /\ InFlight`: `InFlight` needs
`TypeOK` to know that clipped positions are positions, and `TypeOK` needs the
room `InFlight` promises when a device's bytes are committed. Handlers are the
interesting step: they consume after a new read was started, which moves the
read position and neither the write position nor the storage. The two action
properties follow from `Inv` step by step: an arrival appends what it takes from
the line, a failed search only slides. The two theorems under `OwnBuffers` rest on
`TurnInv`: at most one message is under way, the buffer holds the beginning of it
and the line the rest, behind the data the storage is all NUL (`Clean`), and a read
that is over holds all of its message; `Held` says what the response object
holds meanwhile. An
undivided message has one shape (`UndividedShape`), parsing it gives its own code and lines also
with what `commit` adds behind it, and a response object that is used again gets the
message appended as `MessageStream` says.

`FirstReadShows` needs no `OwnBuffers`. Until the first read is over no byte leaves the
buffer, so its data and the line together begin with the first message (`Begins`), and the
data of a read that is over is a response. Two beginnings of the same bytes that are both
responses need not be of one length, the reader may have stopped inside the message or
have taken more than it; `SameFront` shows that they agree on what stands in front, also
when the bytes the second commit adds are parsed with one of them: a code is the same
code, the first line is closed by the same terminator, and a prompt is one at once.

`AtWriterProofs` strengthens
`OnlyTheRequest` with what the device took so far being a prefix of the string,
and with the device having taken everything when the string is gone.

### Prompts and texts

That the text of an SMS goes to a modem that waits for it is no invariant by
itself: the program takes a prompt for granted that it has read, and it may have
read one long ago, in the buffer or the response object of an earlier step.
`SessionProofs!PromptInv` therefore follows the prompt. `Clean` says that neither
the buffer, with all the old bytes of its storage, nor the lines of the response
object hold one; at most one prompt is on the line, a program that is not `Clean`
has taken it from there, and while it is in one of these places the modem waits
for a text and none is on its way, which keeps the modem from prompting again.
The first half of the module says that the modem keeps this (`ModemKeepsPrompt`), the
second that every building block of a subcommand does: a step that takes bytes
from the front of the line, writes no text and makes up no prompt
(`StepKeepsPrompt`).
`ProgramProofs` goes through the subcommands, one step per action. Only a prompt
makes `PromptRead` go on to the text (`FrontIn`), only `TextWritten` writes one, and
the refinement follows: the modem opens text entry, the program gives, the modem
takes. `FreshInv` adds the order on the wire: a program that found no trace
of an earlier use wrote AT+CMGS last and nothing behind it, so that the text is
alone. `ReceivedSmsAreReal` uses the same facts with another set of tokens: as
long as no SMS was announced, the line, the buffer and the response object are made
of anything but `+CMT` (`Within`), so no old byte can be taken for one.

### Commands and answers

`OneAtATime` counts commands, but what keeps it is where the answer is. `Asking` says it
for a dialogue nobody disturbs: between two commands nothing is on the line, then
one command is on the wire, then its answer is partly in the buffer and partly on the
line, and the two together can be read as a whole (`Proper`): no proper beginning of
it is a response (`OneRead`), so the read is not over before the last byte of the answer
was taken. The answer to the query for the configuration is the exception: it is
two messages, either of which may come first, so it takes two reads (`TwoReads`), and
between them, at the step `listen`, the second may still be on the line. `AnswersToCommands`
shows that every answer the modem has for what the program may write is of that
form; `WriteNames` and `LiteralCommands` say which commands it can take them for.
`CallInv` adds that only a call that has stopped listening has a configuration,
with its flag on, and `FreshInv` that no text is asked for while a command is written.
One lemma per subcommand goes through its actions (`SendSmsAsks`, `ReceiveSmsAsks`,
`QueryAsks`, `VoiceCallAsks`), and `ArriveAsks` and `ModemAsks` through the line's and the
modem's.

`ImplementsExchange` reads the same invariant as a protocol. The mapping `onTheLine` is
"asked" when a command is on the wire and nothing anywhere else, "answered" when the wire
is empty and a read is under way, "free" between two commands, and would be "astray" in
any other undisturbed state; `TurnIsKnown` shows that none is. What is left is that each
step is one of the exchange's (`NextExchange`): only a command written makes "free" "asked",
only the modem makes that "answered", and only the end of a read makes it "free" again. A
disturbance ends the exchange, and only a program that opens the device without a trace of
an earlier use begins one.

`Telling`, for `ConfigurationIsHeard`, adds to the dialogue what the bytes say. While the
answer to the query is under way, the data of the buffer and the line together tell
the configuration (`TellsSoon`): wherever the first read finds a response in it, that
starts with the configuration, or it is the code and what is left does (`Tells`). The
response object is empty when the query is asked, so the line that
`qcfg_read_handler` looks at, the first one ever stored, is the right one. `LineTells`
and `CodeComesFirst` show this for the two orders of the answer, `ConfigIsRead` that
the parser stores the line also with bytes nobody read committed behind it
(`read.hpp:107`).

`ConfigInv`, for `AudioIsConfigured`, speaks of the wire: whoever switches the audio on
stands right behind a piece that allows it (`Announced`), unless something was refused
or failed or the modem was told before; a modem in text entry takes both for a text. It
holds for all programs that run one after another, so it needs no `fresh`: only
calls switch the audio on, and every other command is `Silent`. `FirstCallIsConfigured`
adds that the first program opens a device without a trace (`FirstInv`), where `Telling`
gives what `ConfigInv` asks of the step that takes the configuration
(`QuietCallHasAValue`), and that what was once disturbed stays so (`NextFirst`).

### Only model-checked

* `ConfigIsTheModems`, `ConfigHasAValue` and `ConfiguredFirst` for calls that are disturbed: what
  they take for the configuration then depends on the lengths of what the modem says
  unasked, on the least size of a read and on the old bytes of the storage behind both,
  all of which `ProgramSafe` fixes; there is no reason in the code why they should hold
  for other lengths, only that bytes which would break them do not come to lie there;
* `MatchIsInBuffer`, and `StreamSpec` and `BufferDrained` for handlers that read on into one
  buffer: `ReaderStream` checks them for messages of similar length that reads do not
  cut. They are false in general: after a message of another length an old one is
  reported again (`ReaderReplay`), and where they hold is a matter of single lengths;
* `AgreesWithGrammar`, an induction over the recursive definitions of the reference parser;
* all liveness: `AllReported`, `PromptIsAnswered`, `Terminates`, `ReactsToSms`,
  `AudioIsOffAfterwards`.

## Order of work

Written, in this order: `AtGrammar`, `Streambuf`, `AtReader` with its proofs and the
abstract stream; `Requests` and `AtWriter`; `Session` and `Modem`; `SendSms`,
`ReceiveSms`, `VoiceCall`, `Query`; `Program`, which puts them
together; then programs killed and run again, failures of every operation, and
`TextEntry`, the abstract specification `Program` implements; `SessionProofs` and
`ProgramProofs`; then `GrowingInput` and the proofs about it, the refinement of
`MessageStream` in `AtReaderProofs`, and `DialogueProofs`; last `Exchange`, the round trip of
the parser, and what the first read shows.

What would be next is an invariant on what stands behind `+QCFG:` in every buffer, to
have `ConfigIsTheModems` and `ConfigHasAValue` also for calls that are disturbed, under
assumptions on `Urcs` and `Window` that the modem's manual would have to give.

Not modelled: `serial_port_setup.cpp` (options are set when the device was opened,
errors only logged, no state anybody looks at again), the command line (`clipp`), logging and formatting, build files, vendored `fmt`,
`spdlog` and `clipp`.
