# A formal model of gta02-gps

TLA+ models, TLC runs and TLAPS proofs about the programs in `c/` and `python/`
that dump aid data from the u-blox GPS receiver of the Openmoko FreeRunner
(GTA02) and load it again after a restart.

## 1. The system

| part | source | state it keeps | operations |
|---|---|---|---|
| frame reader | `c/ubx_io.h`, `ubx_read` | 16K buffer, cursors `buffer`, `buffer_end`, count `buffer_read` | clean, read, scan for the magic bytes, wait for the rest, reject a wrong checksum, hand over a frame |
| frame writer | `c/ubx_io.h`, `checksum`, `ubx_construct`, `ubx_write` | none | build a frame, write it, `panic` on a short write |
| dump | `c/dump_agps.h` | four counters, `dump_buffer`, the alarm | poll, enable positions, collect, time out, disable positions, write the file |
| load | `c/load_agps.h` | `DEV_OUT_FD`, the alarm | enable announcements, wait for a request, time out, feed the file, compute AID-INI |
| sleep / wake-up | `c/fixnow.h` | none | CFG-RXM, wake-up sequence |
| command line | `c/parse_args.h`, `c/gta02-gps.c`, `c/help.h`, `c/invocation.h` | `argc`, `argv`, `VERBOSE` | consume options in order, dispatch |
| serial set-up | `c/setup_serial.h` | termios of the device | raw mode |
| definitions | `c/ubx.h` (generated), `c/config.h`, `c/common.h` | constants | - |
| Python reader | `python/ubxlib/ubx_reader.py`, `logger.py` | the string `buffer`, `buffer_offset`, the handler | read eight bytes, find the magic bytes, discard, reject, decode, call the handler |
| Python dump | `python/gta02-agps.py`, `ubx_dump.py` | the dictionary `aid_data` | poll, enable positions, gather, disable positions, write the file; no timeout |
| Python load | `python/gta02-agps.py`, `ubx_load.py` | the dictionary of the file | reset, enable announcements, wait, feed; no timeout |
| Python writer and codec | `python/ubxlib/ubx_writer.py`, `ubx.py` | tables of ids and formats | pack a message, checksum |
| receiver, line, file system, alarm clock | outside | polls owed, positions on or off | answer, announce, send positions |

How they interact: `main` runs exactly one of dump, load, sleep, wake-up or
set-up per process.  Dump and load call `ubx_read` with a callback
(`dump_handle_message`, `wait_for_aid_data_request`,
`handle_message_from_file`) that returns whether to stop.  `SIGALRM` is the
only asynchrony inside a process: its handler ends it with exit code 2.
Commands and answers travel over the serial line independently of each other.
Dump and load meet only in the dump file, and in what the receiver remembers.

What is hard here: frames cut anywhere by `read()`; headers that are noise; one
frame handled per `read()`; the alarm going off between any two steps; a
receiver that answers in an order of its own, loses answers, answers an earlier
process, or stays silent; a dump file that was cut; commands that take effect
later than they are written.

What makes each part correct:

- *frame reader*: every good frame is handed over once, whole, in order; none
  is lost to a false header; the buffer is not overrun by what a receiver
  sends; a file is read to its end.
- *dump*: what is saved is what is counted, within the buffer; the old file is
  given up only for a complete set; it ends; it leaves the receiver as it was.
- *load*: aid data goes only to a receiver that asked; the position goes once
  and last; no timeout in the middle; it ends; each message keeps its kind.
- *checksum*: what either program writes either accepts; a damaged frame is
  rejected.
- *sleep / wake-up*: the receiver comes to be in the mode the command asks for.
- *codec*: every message a receiver sends can be unpacked; both programs read
  the same values of it; what the Python program loads is byte for byte what it
  dumped.
- *together*: what was dumped is loaded; a complete dump never makes a load
  hang.

## 2. The modules

| module | models | correspondence |
|---|---|---|
| `UbxStream` | bytes on a line or in a file | a byte is its position; `heads`, `need`, `good` are all `ubx_read` asks of byte values. False headers, damaged frames and frames nested in payloads are streams with heads in such places |
| `Deframer` | abstract promise of `ubx_read` | one cursor, no buffer, no read sizes |
| `UbxRead` | `ubx_read`, statement by statement | `mem` is `buffer_start`; `Clean`, `Read`/`ReadEOF`/`ReadError`/`Overrun`, `Scan`, `Incomplete`, `WrongChecksum`, `Deliver` are the stretches of the loop between its `continue`s |
| `UbxPort` | `ubx_read` seen by its callers | sequences of whole messages; keeps the two quirks visible at that level: one message per `read()`, and a message without payload is seen only when a byte follows it |
| `UbxLoop` | the loop of `ubx_read` over `UbxPort`, without what a handler makes of a message | `line` and `buf` as in `AgpsDump` and `AgpsLoad`; `coming` is what has not arrived |
| `AgpsDump` | `dump_agps`, `dump_handle_message`, `save_to_buffer`, `dump_onalarm` | `got` and `dumped` are the counters, `dump_used` is `dump_buffer - dump_buffer_start`; `Obey`, `Answer`, `Position` are the receiver |
| `AgpsLoad` | `load_agps` and its two handlers, `load_onalarm` | `fed` is what was written to the device after the CFG-MSG, `next` the place in the file |
| `AgpsSession` | dump, receiver off and on, load | `AgpsDump` as it stands, and an instance of `AgpsLoad` sharing its `pc`, `status`, alarm, line and file; `Restart` drops the first process at any moment after it has ended, however |
| `Args` | `parse_args.h`, `main` | one action per `parse_args_*` call and per `if` of `main`; `argv` is what is left of the command line, `done` what happens to the device |
| `FixNow` | `fixnow.h` behind `main` | extends `Args`; `at` is where `fixnow` is, `wrote` how much of the wake-up sequence `write` took; the receiver's FixNow mode (asleep, waking up and losing bytes, up, fixing a position) is external, as the comments of `fixnow.h` take it to be. `status` stays that of `main`; the process has panicked where `at = "panic"` |
| `Checksum` | `checksum`, `ubx_construct`, the comparison in `ubx_read`, their Python counterparts, `WAKEUP_SEQ` | one step per byte summed, by writer and reader at once; a `char` signed or not; `damage` is what the line does to the frame |
| `AidIni` | `load_agps.h:93-119`, `ubx_load.py:11-56` | one action per program that computes AID-INI, from every moment, clock error, leap second and accuracy in the instance |
| `PyReader` | `UBXReader.read` | `base .. taken - 1` is `self.buffer`; one action per way through the loop body |
| `PyPort` | `UBXReader` seen by its handlers | messages with and without a format, a handler, data; the last `held` of those that have come in wait in the reader for the bytes behind them (`file.read(8)`) |
| `PyDump` | `--dump`, `UBXDumpHandler` | `aid_data` is the dictionary, by satellite; `Raise` is the exception nobody catches |
| `PySession` | Python dump, receiver off and on, Python load | `PyDump` as it stands, and an instance of `PyLoad` sharing its `pc`, `status`, line, commands and file; `sky` is what the receiver knew before |
| `PyLoad` | `--reset`, `--load`, `UBXLoadHandler` | `AidMessages` is what `handle_AID_DATA` sends, in every order a dictionary may yield |
| `UbxStructs` | all structs of `ubx.h`, between its bit masks | a struct is the sequence of its field types, with its id; `Offsets` and `sizeof` lay it out as `-fpack-struct` does |
| `UbxFormats` | `CLIDPAIR`, `MSGFMT` | a format is a sequence of field types (`B` is `U1`, `h` is `I2`, ...); of its names only the number is kept |
| `UbxCodec` | `UBXReader.decode`, what the handlers keep, `UBXWriter.send`; `dump_handle_message` | one message meets both programs; a value is where in the payload it was read, and as what |
| `MC*` | instances for TLC | sets of streams, files, old dumps; `MCMessages` has `Checksum`, `AidIni` and `UbxCodec` side by side, a behaviour being of one of them |
| `*Proofs` | TLAPS proofs, each about the module it is named after and: `UbxReadProofs` about `Checksum`, `AgpsSessionProofs` about `AgpsDump`, `AgpsLoadProofs` about `AidIni`, `PySessionProofs` about `PyDump`, `PyReaderProofs` about `UbxCodec`, `FixNowProofs` about `Args`; `UbxStreamProofs` has lemmas for both readers | section 5 |

The callers are modelled on `UbxPort`: the frames handed over are the good
heads in stream order, so a descriptor is a sequence of messages.  A `read`
brings some of the messages on the line whole and may or may not bring the
beginning of the next one (`part`), which counts as bytes that follow.  That
`ubx_read` may be treated so is proved: `UbxLoop` is the loop over these
operators and no more, and `UbxRead` implements it (section 5).  An overrun
of its buffer, where `UbxRead` stops, is not among what the callers' models
have.
`main`'s part is small enough to live in the actions:
it ignores what `dump_agps` and `load_agps` return, so a file that cannot be
opened ends in `exit 0`.

Definitions called "faulty variant" are not part of any specification; each is
what a plausible slip in the definition below it would be, kept to show that
some property notices.

## 3. The runs

| run | module, cfg | question | answer |
|---|---|---|---|
| `ubx_read` | `MCUbxRead`, `UbxRead.cfg` | is the buffer kept consistent, every good frame handed over once, in order, as the cursor of `Deframer` does, and a file drained; what can make it write past the buffer? | yes; only heads that are none, frames shorter than a read in bursts, and a claim too large for the buffer |
| `session` | `MCAgpsSession`, `AgpsSession.cfg` | does a dump end, agree with its counters, fit its buffer, keep the old file and switch positions off; does a complete dump load, and all of it up to the position reach the receiver? | yes, 1.3 million states |
| `load` | `MCAgpsLoad`, `AgpsLoad.cfg` | fed only when asked, uncut, position once and last, nothing skipped, ends? | yes, for every file of up to 3 messages |
| `load_hui` | `AgpsLoadHui.cfg` | is health data sent as health data? | **no**, `load_agps.h:86` |
| `load_timeout` | `AgpsLoadTimeout.cfg` | when it says the device has not asked, is that so? | **no**, `ubx_io.h:84` |
| `commands` | `MCFixNow`, `FixNow.cfg` | do the documented invocations work, does every command carried out account for every word and a set-up alone pass over no command, and is the receiver put to sleep or woken up, whatever it was doing? | yes, every line of up to five words |
| `messages` | `MCMessages`, `Messages.cfg` | does either program accept what either writes and reject what the line has changed; is the time sent right within the accuracy sent with it; can every message be unpacked, do both programs read and dump the same, is what is loaded what was dumped? | yes, for signed and unsigned `char`s; but for the signs in section 4 |
| `aid_ini_max` | `MCAidIni`, `AidIniMax.cfg` | is a position that is too inaccurate kept back? | **no**, `load_agps.h:103` |
| `py_read` | `MCPyReader`, `PyReader.cfg` | does the Python reader decode every good frame once, in order, as the cursor does, and drain a pipe? | yes |
| `py_session` | `MCPySession`, `PySession.cfg` | is the old file kept until there is a new one, only data saved, positions switched off; does the dump end, if the receiver goes on sending; does a load after a restart give the receiver back some of each kind and nothing else? | yes |
| `py_load` | `MCPyLoad`, `PyLoad.cfg` | is all of a dump fed, once, to a receiver that asked, and does the load end, if the receiver goes on sending? | yes, every dictionary over two satellites |
| `py_load_missed` | `MCPyLoad`, `PyLoadMissed.cfg` | is no request missed, without `--reset`? | **no**, `ubx_reader.py:17` |

Further configurations, not among the runs, whose one property TLC refutes:

| cfg | property | what it shows |
|---|---|---|
| `AgpsSessionLast.cfg` | `PositionIsLast` | a dump may hold messages behind its position, which the load never feeds (`load_agps.h:125`) |
| `UbxCodecShort.cfg` | `UnpackFits` | a message shorter than its base can pass the length check (`ubx_reader.py:70`) |
| `FixNowShort.cfg` | `WakesUp` | a wake-up sequence written in part only is not noticed (`fixnow.h:31`) |
| `ArgsShort.cfg` | `ShortOptionsWork` | `-h` and `-v`, named in `help.h:41-46`, are not known (`parse_args.h:80`, `:87`) |
| `AidIniTow.cfg` | `TowInWeek` | the Python time of week can reach a week (`ubx_load.py:35`) |
| `PyReaderArrived.cfg` | `ArrivedIsHandled` | a frame that has come in may wait for the bytes behind it (`ubx_reader.py:17`) |
| `PyDumpUnknown.cfg` | `UnknownIsPassedOver` | an unknown message ends the program (`ubx_reader.py:80`) |
| `PyDumpComplete.cfg` | `SavedIsComplete` | one satellite of each kind counts as complete (`ubx_dump.py:12`) |

`AgpsSessionLast`, `AidIniTow`, `PyReaderArrived` and `UbxCodecShort` go with
the MC module of the same stem, `ArgsShort` and
`FixNowShort` with `MCFixNow`, `PyDumpUnknown` and `PyDumpComplete` with
`MCPySession`.

Every property of a passing run is violated by at least one faulty variant.
Deadlock is not checked: the programs end.  Type invariants and other parts of
the inductive invariants are not among the runs where section 5 proves them.

What the counterexamples show:

- `load_hui`: `handle_message_from_file` sends the AID-HUI payload with
  `UBXID_AID_EPH`, while its log line says it sends AID-HUI.
- `load_timeout`: the scan condition `buffer < buffer_end - 8` wants a ninth
  byte.  An AID-DATA request is 8 bytes, so it stays in the buffer until
  something follows; if nothing does within two seconds the program says
  "Device has not asked for aid data".
- `aid_ini_max`: the coordinates are copied whatever their accuracy; the limit
  decides about the flag only, where `config.h:23-24` has the position not sent
  at all.  What the receiver makes of coordinates without the flag is its own
  affair.
- `py_load_missed`: a request that does not end on a multiple of eight bytes
  stays in a `read` until the receiver sends more; if it does not, the load
  waits for ever.  `python/README.md:41-47` reports requests that are "somehow
  missed" when `--reset` goes with `--load`, and says that without `--reset`
  "this problem should not happen"; the reset has no part in it.
- `AgpsSessionLast`: messages are saved as they arrive.  A NAV-POSECEF that
  comes before the last of the others is saved before it, and the load stops
  there, with the comment "this should be the last message in file".
- `FixNowShort`: the result of the first `write` in `fixnow` is not looked at.
  If nothing of it is written, the command behind it wakes the receiver, and is
  lost in doing so; the program ends with 0.
- `ArgsShort`: only the long options are looked for; `-h` is taken for the
  device, which cannot be opened, and the program exits with 1.
- `AidIniTow`: the week is split off before the leap seconds are added, so in
  its last seconds TOW reaches the length of a week.  Together with WN the time
  is still right (`TimeWithinAccuracy` holds for both programs).
- `PyReaderArrived`: reads of eight bytes leave the end of a frame with the
  kernel until the read is full.  NMEA sentences fill it a little later; a
  silent line does not.  `PyPort` has the messages wait (`held`), and the two
  liveness properties above it ask for a receiver that goes on sending.
- `PyDumpUnknown`: the branch for unknown messages, such as an AID-EPH of four
  bytes (`ubx.h:2405`), calls `logger.info`, which does not exist.  `DumpEnds`
  counts that as an end of the dump; `PositionSwitchedOff` is about dumps that
  end normally.
- `PyDumpComplete`: one satellite of each kind is enough to stop.
- `UbxCodecShort`: the check takes a remainder, so a NAV-SBAS without payload
  (its base and its blocks both have 12 bytes) passes it, and `struct.unpack`
  raises an exception that ends the program.  No receiver sends one.

Bounds, and why they are enough:

- `UbxRead.cfg` shrinks the frame to 3 bytes around the payload, the buffer to
  8, the mark and the reads to 4, keeping `HIGH_WATER + READ_SIZE <=
  BUFFER_SIZE` tight, so that cleaning happens with every number of bytes left
  over.  Nine bytes, one more than the buffer, hold three heads: a good frame,
  one inside it, and one after.  Sizes 3, 5 and 9 are one shorter than a read,
  one that fits with a read to spare and one that is never whole in the buffer,
  nested and cut in every way.  Three bursts (`MCBursts`) of nine empty frames,
  of seven bare heads before a frame, and of both, are longer than the buffer.
  The proofs cover all other sizes.
- Nothing bounds what the sender may have outstanding: bytes arrive whatever
  the loop does (`Arrive`), and `Overrun` is the `read()` that has no room.
  `OverrunHasCause` says what it takes: the buffer full of bytes not dealt
  with, and a head that was none, a frame shorter than a read, or one that
  claims more than the buffer less a read can hold.  All three happen in the
  run.  In the code a header claiming a frame of more than 16353 bytes does it
  alone, while empty frames of 8 bytes or answers without data of 16 take more
  than two thousand in a row, read 32 bytes at a time; a file the dump wrote is
  smaller than the buffer.  What the program does behind its buffer is
  undefined, and the model stops there.
- `Messages.cfg`, checksums: payloads of up to three bytes, so that neighbours
  inside it can be exchanged; bytes 0, 1, 128 and 255, at the ends of both
  kinds of `char`.  The proofs cover all bytes and lengths.
- `AgpsSession.cfg`: one answer per poll and one stale one, so up to two
  almanac and two ephemeris messages, each with or without data; up to two
  messages unhandled, the least for which a backlog builds up; `DUMP_SIZE` is
  exactly what these can fill, (1 + 1) * 160 + 108.  The receiver asks once
  during the load; `load` lets it ask twice.
- `AgpsLoad.cfg`: files of up to three messages hold one before, one at and one
  behind the position; two requests.
- `FixNow.cfg`: five words are one more than the longest documented invocation
  without `--verbose`, and as many as the longest with it, so that every option
  can be missing, doubled, misplaced or in conflict with another; ten words
  hold every option, `-`, a device and a word that is not one.  Three bytes FF
  of which waking up may cost two leave one that is not needed, as the eight of
  the code are meant to; with `WakingLoss = WAKEUP_FFS` it holds as well.
- `Messages.cfg`, AID-INI: a day of 3 and a week of 21 seconds, a millisecond
  of a third; every second of the six weeks that fit the word, with the true
  time and the clock up to 4 seconds apart, so that each may be on either side
  of the end of a week; accuracies at, one below and one above each limit.  The
  proofs cover all other sizes.
- `PyReader.cfg`: reads and the shortest frame are 3 bytes (8 and 8 in the
  code), so that frames of 4 and 6 bytes end inside and at the end of a read;
  ten bytes hold three heads and leave the last read short.
- `PySession.cfg`, `PyLoad.cfg`: two satellites, each known to the receiver or
  not; two messages unhandled, of which one may wait in the reader (`HELD`), as
  frames of eight bytes and more leave one at most.  In the session a position
  is sent only while fewer than four commands and messages are under way
  (`TxMax`), since each one read may make the program write another command,
  and of other messages there is one with a format (`Others`); the load has one
  without, too.  Satellites are interchangeable: no definition names one.
- `Messages.cfg`, codec: every id either program has a name for, with every
  size either has for it, every number of blocks up to three (places in a block
  depend on its number linearly) and one byte more than each of these, which is
  a size neither knows.
- Assumptions on constants, which hold in the code or say what the outside must
  do: `DUMP_SIZE` has room for one answer of each kind per satellite and one
  per stale answer; `WakingLoss` is at most `WAKEUP_FFS`, the reason
  `fixnow.h:13` gives for them; `SV` is finite; `PayloadMax` fits the two bytes
  of the size.
- In `FixNow` a receiver asked for a position takes longer over it than the
  program over its two writes, which follow each other at once.
- In `AgpsDump` and `PyDump` what the receiver sends when nobody will read it,
  and what it does after the program has failed, is left out.

Fairness: weak fairness of the process's own steps (it is an ordinary runnable
process; a blocked `read()` is a disabled step), of the alarm once set, and of
the receiver taking commands.  Nothing is assumed of the receiver's sending in
the C models, where alarms end the wait.  The Python programs have no timeout,
so `PyDump` needs a receiver that goes on sending what it owes and, while they
are on, positions: strong fairness, since the line may be full of other
messages again and again.  And since the last message may wait in the reader
for bytes behind it, `DumpEnds` and `LoadEnds` have a hypothesis of their own,
`WF_vars(Chat)`: the receiver always sends something more, as it does while its
NMEA sentences are on.  In the sessions each program has the fairness of its
own module; the restart need not happen.  In `FixNow` the receiver takes what
comes in (weak fairness of waking up, losing and obeying), since a line
delivers; it need not get a position or fall asleep.  In `PyReader` what is in
a pipe or file comes (weak fairness of `Arrive`), what a line may yield need
not.

## 4. Findings the models do not decide

A dump that times out leaves positions switched on; a dump that is killed
between `open(O_TRUNC)` and the end of `write()` leaves a cut file; a load of a
file without a position reads on for ever (`LoadEnds` is stated for files that
have one).  The Python reader spins at the end of its input; the Python program
takes a clock before 1980 to a negative week, which does not fit its format,
and ends, while the C program sends a week far in the future; a Python program
that ends by `logger.error` exits with 0.  `ubx_read` writes past its buffer
when what has come and is not dealt with exceeds it (`Overrun`).  A run that
only sets the device up ends with 0 whatever words stand behind the device
(`gta02-gps.c:45-49`).  No document promises otherwise, so
they are hazards in `PROJECT.json` and no run expects a violation.

Comparing the two tables of messages shows this besides.  The C struct and the
Python format of AID-HUI differ in the sign of six 2-byte values, the leap
seconds among them, and those of NAV-SVINFO in that of a channel's quality
(`SignDiffers`); both are positive in practice.  Without `-fpack-struct` not
one struct (`c/README.md:120-122`) but five would be laid out otherwise than on
the line, `GPS_UBX_AID_HUI_t` with its doubles, `NAV_DOP`, `RXM_SFRB` and two
of `CFG_DAT`; only the first is used, in the `sizeof` by which the dump tells a
health message, and `BothDumpTheSame` fails without the flag.

## 5. Proofs

`UbxReadProofs` proves, for every buffer size, high-water mark, read size
and set of streams that the named assumptions of `UbxStream` and
`UbxRead` allow:

1. `Invariant`: `Spec => []IInv`.  `IInv` adds to the checked invariants what
   makes them inductive: `buffer_read = buffer_end` (the mark is compared with
   one, the array is indexed by the other); after `Clean`, either
   `buffer_end <= HIGH_WATER` or the buffer starts at 0, so that a `read()`
   without room meets a buffer full of bytes not dealt with; and, with a header
   found, that the magic bytes lie inside the buffer.
2. `TypeCorrect`, `BufferHoldsWindow` follow from it, and with `Room`
   `BufferOverrunHasCause`: while every head met is good, no shorter than a
   read and fits with a read to spare, a turn that starts with a full buffer
   hands over at least what it reads, so there is room again.
3. `Refinement`: every step of the loop is a step or a stutter of `Deframer`
   under `pos <- Pos`.  The step to prove is `Scan`: a byte passed starts no
   frame, because its successor is in the buffer (`ScanSkipsNoHead`).
4. `FramesDeliveredInOrder` and `NoFrameIsLost` go by the abstract steps of 3
   and the lemmas of `UbxStreamProofs` on what skipping, rejecting and
   delivering do to `InOrder` and `NoneLost`.
5. `CallersSeeMessages`: `UbxRead` implements `UbxLoop`, where every `read`
   brings at most `1 + (READ_SIZE - 1) \div FRAME_SIZE` messages, 4 in the
   code, and every turn hands over the first one in the buffer if and only if
   `Visible` holds of it.  A frame is on the line from its first byte to its
   last (`BegunIn`, `EndedIn`), and counts as handled from the `read` that lets
   the turn hand it over (`WillDeliver`), so that all else in the turn is a
   stutter.  The invariant is `AtNextFrame` (`NextFrameAhead`): the cursor
   never passes the next frame.  `Spacing`, that `n` frames take
   `n * FRAME_SIZE` bytes at least, bounds what a `read` brings.

The fifth is for streams of good frames (`OnlyFrames`): between them and before
the first there may be bytes without a magic pair, such as NMEA sentences, and
in payloads anything; the stream ends with the last frame.  Elsewhere a whole
number of messages is not all there is to see: behind a false header the loop
waits for bytes that belong to other messages.  That is what 1 to 4 are for,
which assume nothing of the kind.

`PyReaderProofs` does the same for the Python reader, for every read size:
there `IInv` says that a `start` beyond `buffer_offset` stays where the search
would end again however many bytes are read meanwhile, which is what makes
`Pos` (the cursor of `Deframer`) stand still while the loop waits.  `Discard`
and `Find` pass bytes; that none of them starts a frame, the byte kept by
`buffer[-1:]` included, is the step to prove.

`UbxReadProofs` also proves both properties of `Checksum` for payloads of any
length up to 65535.  `SumsFollowDamage` says by how much, modulo 256, the
reader's sums differ from the writer's after `n` bytes: by nothing if the frame
is intact; by the change in the first sum from a changed byte on; and, for
exchanged neighbours `x, y`, by `y - x` in the first sum between the two only,
and in the second from there on.  No such difference is 0 modulo 256, and
`Packed` of either program keeps its sums modulo 256.  `TrailerIsWritten` adds
that the sums of a C reader are `char`s, so that its `==` compares remainders,
whatever the sign of a `char`; `WakeUpSums` are the sums of `WAKEUP_SEQ`, byte
by byte.

`PyReaderProofs` also proves the four properties of `UbxCodec`, for messages of
any id and size, with any number of blocks.

1. `BlocksUnpack` is `UnpackFits`.  What has to be shown is that a slice of the
   payload is never cut by its end: that the remainder of the length check
   leaves room for exactly `Blocks(v)` blocks behind the base (`BlockWithin`).
2. `CodecIInv` says that what has been decoded is a function of the message and
   of how far the decoder is (`Decoded`): the record of the one format of that
   length, or base and blocks, the j-th from its own place.
3. `FieldsAreRead` is `DecodedIsStruct`: if a block's format names fields of
   the struct's block, then so it does in every block, since both programs step
   by the same size from the end of the same base.
4. `LoadedIsDumped` is `SentAsDumped`, and `SameIsDumped` is
   `BothDumpTheSame`: of the ids that are dumped, only the format with the
   dumped size has the names the handlers ask for, and the load picks it again.

They rest on assumptions about the tables as they stand, about a hundred
entries of each program, which no prover adds up and which TLC evaluates with
the run `messages`: `FormatsAssumption`, the size `MSGFMT` states is that
of the format; `EntriesAssumption`, a key of a dictionary has one entry and
every value a name; `StructsAssumption`, format by format and struct by struct,
the values of one are fields of the other, said of a base and of one block;
`DumpedAssumption`, the same for the sizes by which the dumps choose.  The step
from there to every message is what is proved.  The last two ask the compiler
to heed `-fpack-struct` (`PackStruct`, which the model's `Alignment` does).
And they need `BasesAreWhole`, that the receiver sends no message shorter than
its base: `UbxCodecShort.cfg` shows that they do, and the messages of
`Messages.cfg` fulfil it.

`AgpsSessionProofs` proves the safety of the dump for any number of satellites
and of stale answers.  `DumpBufferFits` is why `IInv` counts: for each of
almanac and ephemeris, what is saved, in the read buffer, on the line, owed
and, while the request is still under way (`Asking`), to be owed is at most
`Sats + Stale` (`AnswersBounded`); that a request is written and taken once
(`AskedOnce`) makes this inductive, and `UsedAsCounted` turns it into bytes.
`EndsInOrder` says what has happened by each step of the end of `dump_agps`:
complete, then disarmed, then positions off as the last command, then the file;
`OldDumpKept` and `PositionSwitchedOff` follow from it.  That much is about the
dump alone, `Spec`.  `SessionDumpsSafely` and `SessionKeepsOldDump` say it of
`SessionSpec`, where the receiver is switched off at any moment after the dump
and a load follows; `LoadIsOfDump` takes the data across.  `SessionIInv` is
`IInv` while the dump runs.  Of the load it hands on that what was saved is as
counted and all of it has its data, that the dump buffer is gone, and that no
command of the dump is left to switch positions on; and it says that what is
fed is, message by message, what the load makes of the first `next` messages
of the file (`FedAsDumped`), and that a normal end stands on a position.

`AgpsLoadProofs` proves the safety of the load for every file.
`RequestsWereMade` carries a request from the receiver over line and buffer to
the handler, `ArmedWhileWaiting` confines the alarm to the wait, and
`FedAsHandled` says that there are as many messages fed as handled that call
for one, and that only the last of them can be a position.

It also proves `IniTypeOK` and `TimeWithinAccuracy` of `AidIni` for every
length of a day and a second, width, limit, moment and leap second, and that
the C program's time of week is less than a week.  `IniIInv` says that the
message sent is the one computed from the world as it is, whose clock is within
the accuracy; the rest is division with remainder (`DivMod`, `ProductMonotone`)
and that `gps_time` is not cut (`ClockFits`).  That the real sizes (86400 s,
1000 ms, 32 and 16 bits) satisfy the assumptions is arithmetic: a week is
604800000 ms, less than 2^32, and 2^32 s is less than 604800 * 2^16.

`PyLoadProofs` proves `FedOnlyWhenAsked` and `FedIsDump` for every set of dump
files over any finite set of satellites.  `AskedFirst` carries a request from
the receiver over the line to the handler, and that the file is whole from
`eval` on; `FeedingTheFile` says that what is fed and what is left to feed are
together one of the orders in which the handler may go over the file's
dictionary.  That each of these names everything in it once is `Lists`, which
`SetToSeqs` and concatenation keep.

`PySessionProofs` proves, for any finite set of satellites, what the Python
dump saves and that a load of it gives it back.  `IInv` of `PyDump` follows an
answer from what the receiver has (`Truthful`) over the line into the
dictionary (`NothingInvented`), and says that what is saved is complete
(`CompleteWhenSaved`).  `PositionIsOff` is the safety half of
`PositionSwitchedOff`: of a dump that has ended normally, positions are off
once the last command is taken (`NoPositionsLeft`).  Positions that were on
before may overtake the command that switches them on; `OffIsLast` says that
once one has been gathered, the command to switch them off is the last that is
under way.  `SessionIInv` adds that a file of this session still is true after
the restart (`FileIsTruthful`) and, with `FeedingTheFile`, that a load that
ends with nothing left has fed all of it.  `LoadIsOfDump` takes from the file's
completeness that there was some of each kind; `SessionDumpsSafely` and
`SessionKeepsOldDump` say of the whole session what was proved of the dump.

`FixNowProofs` is about the command line and what comes behind it.

1. `NoCommandIsLost` is `WordsAccountedFor` for every set of command lines, of
   any length: a command uses every word behind the device; setting the device
   up alone passes words over, but no command.  `IInv` of `Args` says at each
   stage of `main` which options have been seen (`OptionsTaken`), that the
   device is the first word without them (`DeviceTaken`), that what is left is
   `Remaining` of the line and nothing has been done yet (`StillRunning`); and,
   at the end, what has been done, as a function of the line (`Ended`).
2. `DocumentedInvocations` is `DocumentedWorks`: no word of such a line is one
   main looks for but those meant, so nothing else is removed.
3. `FixNowIsMain`: each step of `FixNow` is one of `Args` or leaves its
   variables alone, so 1 and 2 hold of the commands with `fixnow` behind them.
4. `ReceiverIsCommanded`: when all has been taken, the receiver is in the mode
   the command asked for (`Commanded`, the safety half of `CommandHolds`), for
   any `WAKEUP_FFS` and `WakingLoss` up to it.  `FixNowIInv` says where the
   POSREQ stands in what is under way (`Reaching`): behind at least as many FFs
   as the receiver is still going to lose, or behind a command of an earlier
   process and then all of them.  `PutToSleep` needs no such thing, as the last
   word is the command's.

`Remaining` is a recursive function, and what it leaves of a concatenation, or
when applied twice, takes induction over the length of a sequence.  The
library's induction theorems are about an operator, which the provers here
cannot instantiate; `LeastElement` has the least number of a set instead, from
the well-foundedness of `<`, and `KeptDef` that the function exists.

Only model-checked:

- all liveness (`FileIsDrained`, `PipeIsDrained`, `DumpEnds`, `LoadEnds`,
  `CompleteDumpLoads`, `CommandHolds`, `PositionSwitchedOff` of `PyDump`),
  which is out of the prover's reach, as is `ENABLED`; of the last two the
  safety halves are proved (`ReceiverIsCommanded`, `PositionIsOff`);
- the tables themselves, as said above of `UbxCodec`.

## 6. What could still be done

Everything with state of its own is modelled, and every safety property of a
passing run is proved.  `CallersSeeMessages` leaves out the streams with false
headers or damaged frames, and what may follow the last whole frame of a file
that was cut: a more general `UbxLoop` would let a message be held back until
more bytes have come, and the programs would have to be checked on it.

## 7. Not modelled

- `setup_serial`: four termios calls that keep nothing and decide nothing; that
  it comes before the command, and only when asked for, is in `Args`.
- Logging, `perror` and the wording of the help.
- The bit masks of `ubx.h`, macros neither program uses; no range of the map
  holds one.
- `UBXWriter.send` for messages of varying length, which nobody sends.
- `c/config.h` but for the accuracy limits: the timeouts are alarms that may go
  off at any moment while they are set, whatever their length.

Byte values and payload contents are abstracted throughout, except in
`Checksum`.
