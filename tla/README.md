# TLA+ models of gaia's io_uring ping server, number conversions, varz counter and S3 demo

This directory holds TLA+ models of the code under `src/`. It also models the
parts of the io_uring runtime that this code runs on, which are described by
`spec.md` and are not under `src/`. TLC checks them all.

## The system and its parts

| Part | Code | State it keeps | Operations |
|---|---|---|---|
| Proactor (io_uring engine) | not in `src/`; from spec.md §4.1, §5 | submission ring (bounded by `queue_depth`), SQEs owned by the kernel, completion ring, token → continuation table, lifecycle Idle/Running/Stopping/Stopped | Run, submit, flush (`io_uring_submit`), reap a CQE, Stop, exit of Run |
| Fiber scheduler | not in `src/`; spec §4.2 | ready FIFO, tasks parked on a full ring, per-fiber state | resume, suspend on a socket call, park and wake |
| FiberSocket / uring AcceptServer | not in `src/`; spec §4.3, §5, §6 | per-connection pending operation | `read_some`, `write_some`, accept loop, `Shutdown`, `Stop(true)` |
| Ping server | `src/examples/pingserver/ping_iouring_server.cc` | `cmd_` (the partial request) | `PingConnection::HandleRequests`, `PingListener`, `main` (start, break-signal handler, `proactor.Stop`, join) |
| Integer parsing | `src/strings/numbers.cc` 196-395 | none (pure) | `safe_parse_sign_and_base`, `safe_parse_positive_int`, `safe_parse_negative_int`, `safe_int_internal`, `safe_uint_internal`, `safe_strto32_base`, `safe_strto64_base` |
| Natural-order comparison | `numbers.cc` 599-681 | none | `AutoDigitStrCmp`, `AutoDigitLessThan`, `StrictAutoDigitLessThan` |
| Comma formatting | `numbers.cc` 791-902 | fixed local buffer | the four `SimpleItoaWithCommas` overloads |
| Fast decimal writer | `numbers.cc` 453-573 | the caller's buffer | `FastUInt32ToBufferLeft` (goto-threaded) |
| Unit suffixes | `numbers.cc` 423-449, 913-938 | none | `ItoaKMGT`, `atoi_kmgt` |
| Leading-number parsers | `numbers.cc` 43-176 | none (libc `strtol` family) | the nine `ParseLeading*Value` functions |
| Float readers | `numbers.cc` 184-194, 398-421 | `errno` | `safe_strtof`, `safe_strtod`, `ParseLeadingDoubleValue` (libc `strtod`) |
| Float printers | `numbers.cc` 724-781 | the caller's buffer | `SimpleDtoa`, `SimpleFtoa`, `DoubleToBuffer`, `FloatToBuffer` (libc `snprintf` and `strtod`) |
| FastVarMapCounter | `src/util/stats/varz_stats.h` 115-138 | `buf_` (base, then the last suffix), `suffix_` | constructor, `Inc`, `IncBy` (strcpy, then `VarzMapCount::IncBy`) |
| S3 demo | `src/examples/s3_demo.cc` | the flags, Get's `ofs`, WriteFile's `i` | `main`'s dispatch, `ListBuckets`, `ListObjects`, `Get`, `WriteFile` |
| Other varz nodes, string hash | `varz_stats.h`, `hash.h` | – | not modelled (see below) |

How they interact:

- `main` builds a Proactor, runs it on its own thread, and starts the uring
  AcceptServer on it.
- The accept fiber spawns one `PingConnection` fiber per accepted socket.
- Each connection fiber loops:
  - `read_some` (an SQE, and a suspension until its CQE is reaped);
  - `Decode`;
  - `write_some` of the reply.
- A CHECK fails on any error other than aborted or reset.
- The break signal runs `uring_acceptor.Stop(true)`, then `proactor.Stop()`. It:
  - cancels the accept;
  - shuts down the live connections;
  - waits for their fibers.

  Then `main` joins the proactor thread.

## Modules

- **Proactor.tla**: the engine and the scheduler. Every definition is
  modelled from the spec.
  - Variables:
    - `sq`: the submission ring;
    - `inflight`: what the kernel owns;
    - `cq`: the completion ring;
    - `table`: token → task;
    - `ready`, `waitq`, `tstate`: the scheduler;
    - `slot`, `res`: each task's last call and its result.
  - `Issue` is a socket call made by a running fiber. It takes a free token
    and writes an SQE. If the ring is full, it parks the fiber.
  - The loop thread's iteration is `Flush` (submit, and wake parked fibers) →
    `Reap`* → `EndReap` → `RunTask`* → `EndRun`.
  - Once `Stop` has been observed and nothing is left (`Drained`), the loop
    returns at the top of the iteration (`Finish`) instead of flushing
    again, as spec §4.1 says `Run()` returns once the operations are drained.
  - A fiber runs without preemption from one resume to its next socket call,
    so that segment is one atomic step.
- **PingServer.tla** (EXTENDS Proactor): the ping server on the engine.
  - Fiber code:
    - `HandleRequests`: one step per resume of `PingConnection::HandleRequests`,
      from the result of the last call to the next call or the return, with
      `IsConnClosed` and `CheckFails` (both CHECKs).
    - `AcceptLoop`: the AcceptServer fiber, including the spawn through
      `PingListener`.
    - `RunTask`: the scheduler's resume.
  - Kernel completions follow spec §4.3:
    - a byte count or a negated errno;
    - an orderly close reads `(0, ok)`;
    - a reset gives `ECONNRESET` to a read, and `ECONNRESET` or `EPIPE` to a
      write;
    - a drained operation gives `ECONNABORTED` or `ECANCELED`;
    - an accept gives a client socket only before `Stop` ("stops accepting
      new connections", spec §4.4); after it, the accept is cancelled.
  - The clients are the environment. Each one connects and sends requests,
    whole or in two halves. At any time it may close its end or reset the
    connection.
  - `main`: `Init` (lines 92-97), `BreakSignal`, `StopProactor`, `Join`.
  - A failed CHECK sets `crashed`. The process is gone, so the state freezes.
  - With the constant `PartialWrites`, the kernel may complete a `write_some`
    short (spec §4.3). `got` counts the reply bytes the client has received.
  - With the constant `Pipelining`, a waiting client may send its next
    request before the reply arrives. `PingCommand` is not in `src/`. Its
    `Decode` is modelled as spec §9 describes it: a chunk that holds at least
    one whole request gets one reply, and nothing more of that chunk is
    decoded.
  - `Calls` instantiates `SocketCalls` with a refinement mapping:
    - a fiber's `call` is its `slot` while its operation is anywhere between
      `Issue` and `Reap`, including a retry after a full ring;
    - `done` is the result in the CQE the kernel posted for it;
    - `last` is `res` once the fiber is resumed.
- **SocketCalls.tla**: the abstract contract of the suspendable socket
  (spec §4.3, §5). A fiber makes one call at a time (`Call`). The kernel
  produces one result for that very call (`Produce`). The fiber is resumed
  with it, once (`Resume`). Rings, tokens, reaping and backpressure do not
  appear at this level.
- **SafeParse.tla**: the parser, translated function by function.
  - `IntType` has `W` bits, so that every boundary is reachable from short
    strings.
  - C's `vmin / base` and `vmin % base` are a nondeterministic choice between
    the two roundings the pre-C++11 standard allows, as the comment at line 337
    says.
  - A multiply that leaves the type's range is recorded as `ub`.
  - One step parses a string chosen in `Init`.
- **AutoDigitCmp.tla**: `AutoDigitStrCmp` in both modes.
  - `CompareRuns` is the digit-run block; `CmpFrom` is the while loop and the
    prefix tests.
  - One step compares three chosen strings pairwise.
- **ParseLeading.tla**: the nine `ParseLeading*Value` parsers.
  - libc's `strtol`/`strtoul`/`strto64`/`strtou64` are modelled by what they
    do: skip spaces, read a sign, take `0x` only when a hex digit follows,
    read a leading `0` as octal in base 0, saturate, and (unsigned) negate
    modulo 2^w. `Scan` is the common reader.
  - `int32` has `N32` bits and `int64` `N64` (4 and 8 in the runs). `long`
    may have either width, and one step computes the call for both, so the
    two branches of `ParseLeadingUInt32Value` and the clamps "needed for lp64"
    are compared.
  - libc reads to a NUL, not to the end of the piece: each piece comes with
    the characters after it in memory (`tail`).
- **ItoaCommas.tla**: the four overloads.
  - The magnitude is a digit sequence, because 64-bit values exceed TLC's
    integers:
    - `n % 10` is the last digit;
    - `n /= 10` drops it;
    - `n == 0` is the empty sequence.
  - The unsigned negation `0 - n` yields the magnitude for every value,
    including the most negative, so the model starts from that magnitude.
- **FastToBuffer.tla**: `FastUInt32ToBufferLeft`, as a state machine over its
  goto labels.
  - `pc` is the label reached; `u` and `digits` are the locals; `buf` holds the
    characters written.
  - `EntryHuge` and `EntrySmall` are the two entry blocks. `Sub` and `Lt` are
    the `sublt<k>` and `lt<k>` labels; `Done` writes the NUL.
  - An index outside the 100-entry table sets `oob`.
- **Kmgt.tla**: `ItoaKMGT` and `atoi_kmgt`.
  - The word width `W` and the unit shift `S` (64 and 10 in the code) are
    constants.
  - A printed string is abstracted to its sign, the number and the characters
    after it. The format `"%s%" PRId64 "d%s"` is `"%s%lldd%s"`, so those
    characters begin with a literal `d`.
  - `Strtou64` saturates at the maximum and negates modulo 2^W; `n * scale`
    wraps modulo 2^W.
- **FastVarMapCounter.tla**: the template class.
  - `buf` is `buf_[0..N-1]`. `Init` writes the base and its NUL and leaves the
    rest of `buf_` any characters, as the constructor leaves them.
  - `IncBy(c, s, d)` is the `strcpy` (suffix and NUL at `suffix_`), and
    `MapCountIncBy(c)` the call `map_count_.IncBy(buf_, val)`. These are two
    steps, since nothing locks them together. `VarzMapCount::IncBy` is atomic
    under its own lock, so it is one step.
  - `CString` reads `buf_` up to its first NUL. A read that finds no NUL runs
    past the array (undefined behaviour), and the key then ends with the
    marker `Beyond`.
  - `intended` is a history variable: what each call meant to add, by key.
  - The ASSUME is the documented precondition that `N` holds every key.
- **S3Demo.tla**: `main` and the four commands it awaits.
  - `pc` is where `main`, or the awaited command, is. `Command` is the
    `if`/`else` chain of `main` over the flags.
  - Each call to the AWS/S3 client, which is not in `src/`, is the
    environment's choice of a status. It may be an error only when `Faults`
    holds. Every `CHECK_STATUS`, `CHECK` and `CHECK_NE` that fails moves to
    `crashed`, with `cause` naming which kind failed.
  - `ReadLoop` is one pass of Get's `while (true)`. `ReadonlyFile::Read`
    returns what is left of the object, up to `kBufSize` (`BufSize`). With
    `ShortReads`, it may return any positive part of that.
  - `EofCheck` is the `CHECK_EQ(0, file->Read(ofs, mbr).obj)` after the loop.
    That Read's status is not checked, so with `Faults` it may also return 0
    bytes.
  - The 100 `GetHandle` calls of `WriteFile` are released at once, so they are
    left out.
- **MCSequential.tla**: every single-threaded routine instantiated in one run.
  These are the five pure routines of `numbers.cc` (`ItoaCommas`,
  `FastToBuffer`, `SafeParse`, `ParseLeading`, `AutoDigitCmp`), plus
  `FastVarMapCounter` with one caller and the S3 demo.
  - `routine` picks one of them in `Init`. The variables of the others keep
    fixed values, and only the chosen routine takes its steps.
  - Some variables are renamed to avoid clashes:
    - `ParseLeading`'s `out` becomes `leadOut`;
    - the counter's `buf` becomes `keyBuf`;
    - the S3 demo's `pc` becomes `s3pc`.
- **FloatParse.tla**: the float readers.
  - libc's `strtod` is modelled by what it scans (`Strtod`):
    - leading spaces and a sign;
    - digits with an optional `.`, with at least one digit;
    - an exponent, only when digits follow the `e` and its sign.
  - The value is the subject text that `strtod` consumed, because no
    property looks at rounding.
  - As in `ParseLeading.tla`, each piece comes with the bytes that follow it
    in memory.
  - `errno` is a variable. On entry it holds whatever earlier code left there.
    A value with an exponent may be out of range, and then `strtod` sets
    `ERANGE`.
  - `safe_strtof` is `safe_strtod`: the two bodies differ only in
    `strtof`/`strtod`.
- **FloatFormat.tla**: the float printers.
  - A value is `m * 2^(b - Bits + 1)` in a binary format of `Bits`
    significant bits. DIG is the C standard's `FLT_DIG`/`DBL_DIG` for those
    bits.
  - `PrintG` is `snprintf("%.*g")` and `ParseBack` is `strtod`/`strtof`.
    Both round correctly, half to even, as glibc does.
  - `ToBuffer` is the body that `DoubleToBuffer` and `FloatToBuffer` share:
    print with DIG digits, read back, and print with DIG + 2 digits on a
    mismatch.
  - IEEE double (53 bits) and float (24) exceed TLC's integers. The runs use
    11 and 14 bits, and these keep the relation that matters:
    - 11-bit DIG + 2 is exactly the 5 digits a round trip needs, as 17 is for
      double;
    - 14-bit DIG + 2 is one digit short, as 8 is for float, which needs 9.
- **MCFloatFormat.tla** with **MCFloatFormat_float.cfg**: the float printer
  alone. This is an experiment, not one of the runs. TLC finds
  `FloatRoundTrips` violated: 10.0205078125 (14 bits) prints as `10.021`,
  which reads back as 10.021484375.
- **MCS3Demo.tla** with **MCS3Demo_short.cfg**: the S3 demo alone, with short
  reads and no client errors. This is an experiment, not one of the runs. TLC
  finds `EofCheckHolds` violated: a short read ends the loop early, and the
  `CHECK_EQ` aborts.
- **MC\*.tla**: the instances TLC checks, that is, constants and input sets.

## Runs

| run | cfg | bounds | checks | result |
|---|---|---|---|---|
| pingserver_safety | MCPingServer.cfg | 2 connections plus the acceptor, 3 tokens (symmetric), `queue_depth` 1, 1 request per client | `TypeOK`, `ContinuationIntegrity`, `SchedulerSound` | pass, 3.7M states |
| pingserver_backpressure | MCPingServer_live.cfg | 1 connection, 2 tokens, depth 1 | `BackpressureResolves`, `ImplementsSocketCalls` (refinement of `SocketCalls`), `ReplyDelivered` | pass |
| pingserver_orderly_close | MCPingServer_close.cfg | same | `OrderlyCloseEndsConnection` | violation (finding) |
| pingserver_peer_reset | MCPingServer_reset.cfg | same | `PeerResetNeverAborts` | violation (finding) |
| pingserver_drain | MCPingServer_drain.cfg | same | `DrainNeverAborts` | violation (finding) |
| pingserver_shutdown | MCPingServer_shutdown.cfg | same | `ShutdownCompletes` | violation (finding) |
| pingserver_partial_write | MCPingServer_partial.cfg | same, with short writes | `ReplyDelivered` | violation (finding) |
| pingserver_pipelined | MCPingServer_pipelined.cfg | same, whole writes, 2 requests, pipelining | `ReplyDelivered` | violation (finding) |
| sequential | MCSequential.cfg | `SimpleItoaWithCommas`: every overload at 0, 10^k and 99…9 of every length, max and \|min\|. `FastUInt32ToBufferLeft`: 0, 2^31-1, 1234567890, and 10^k-1, 10^k, 10^k+1, 5·10^k+7 for every k. `safe_strto*_base`: 8-bit type; boundary values 0, 1, 35, 36, max, max+1, \|min\|+1, umax, umax+1, each written in bases 2/8/10/16/36 with and without a prefix, with a trailing digit, a letter or nothing, padded with spaces and signs; base arguments 0, 1, 2, 8, 10, 16, 36, 37; signed and unsigned; both division conventions. `AutoDigitStrCmp`: all strings of length ≤ 3 over `0`, `1`, `a`, plus `2`, `9`, `!`, `1!`, `01!`, `9a`; all triples, both modes. `ParseLeading*`: 4-bit int32, 8-bit int64; 0, 7-9, 15-17, 127-129, 255, 256 in decimal, `0x` hex and `0` octal, unsigned, `-` and ` +`; nine malformed pieces; all nine functions, both widths of long. `FastVarMapCounter<4>`: base `a`, suffixes empty, `b`, `bb`, deltas 1 and 2, up to 3 calls, any initial bytes. S3 demo: write paths and prefixes empty, `b`, `b/k`, `s3:b/k`; `--get` either way; `kBufSize` 2; objects of 0-5 bytes; 2 MB writes; client errors anywhere. Float readers: every piece of up to 3 characters over `1`, `.`, `e`, `-` and space, followed by nothing, `1`, `e` or `e1`; errno 0 or `ERANGE` on entry. Float printers: 11-bit double, 14-bit float, every value of the binades 1-64 | `CommasMatchReference`, `BufferFits`, `TableIndexInRange`, `WritesDecimal`, `NoSignedOverflow`, `ParseMatchesReference`, `ComparatorIsStrictWeakOrder`, `EqualityMeansSameNumbers`, `LongWidthsAgree`, `CountsByBaseAndSuffix`, `GetReadsWholeObject`, `EofCheckHolds`, `GetEnds`, `SafeStrtoAcceptsNumbers`, `ParseLeadingDoubleOwnErrno`, `DoubleRoundTrips` | pass, 642k states |
| safeparse_strtol | MCSafeParse_strtol.cfg | same | `ParseMatchesStrtol` | violation (finding) |
| parse_leading_piece | MCParseLeading_piece.cfg | the `ParseLeading*` pieces above, followed in memory by nothing or by `1` | `ReadsOnlyThePiece` | violation (finding) |
| kmgt_roundtrip | MCKmgt.cfg | 12-bit word, units of 2^2, every value | `RoundTripInverse` | violation (finding) |

Why the bounds are enough:

- **Ping server, safety run.** A depth-1 ring with three fibers (the acceptor
  and two connections) makes the ring full whenever two fibers issue in one run
  phase, so parking and waking happen.
- **Refinement.** With one connection, the acceptor and the connection still
  contend for the single ring entry, so parking, the `Retry` wake and token
  reuse all occur in the run that checks `ImplementsSocketCalls`. The same
  property also holds on the two-connection instance. That run takes about
  6.5 minutes, so it is not one of the project's runs.
- **Pipelining.** Two requests from one client are the fewest that can share
  a chunk, and one connection already shows the lost reply.
- **Ping server, both runs.** Completions of different connections
  interleave and reorder in the kernel model, and one request per client is
  enough to reach every branch of `HandleRequests`.
- **Parser.** The generic overflow logic depends only on vmax, vmin and the
  base. With an 8-bit type, every check is decided at both edges of the range,
  in every base.
- **Fast writer.** Every digit count from 1 to 10 is covered, at both sides of
  each threshold that picks a label, so every goto edge is taken.
- **Unit suffixes.** With `S` = 2 and `W` = 12, every suffix, the most
  negative value and the wrap of `n * scale` occur. The branches compare
  `i >> kS` with 1, which does not depend on the width.
- **Leading-number parsers.** With a 4-bit int32 and an 8-bit int64, every
  clamp and peg (`INT32_MAX`, `INT32_MIN`, `UINT32_MAX`, `-UINT32_MAX`, and
  `LONG_MIN`/`LONG_MAX` of either width) sits within three digits. The
  code's comparisons depend only on these limits, not on the widths.
- **FastVarMapCounter.** With three calls, a longer suffix can be followed
  by a shorter one, and then by the empty one, in the same `buf_`. `N` = 4
  leaves one byte past the longest key, and that byte is any character, so
  a missing NUL shows up.
- **S3 demo.** With `kBufSize` 2 and objects of 0-5 bytes, objects that are
  empty, shorter than the buffer, an exact multiple of it, and neither all
  occur. The paths reach every `CHECK` on the flags.
- **Float readers.** Three characters hold a number with a fraction or an
  exponent, a partial exponent (`1e`, `1e-`), a number between spaces, and
  pieces of spaces or signs alone. The tails continue a number with a digit
  or an exponent, or end it.
- **Float printers.** The binades from 1 to 64 cross the decade at 10. The
  largest decimal step relative to the value occurs just above a power of
  ten, so that is where a DIG + 2 digit text can fail to read back.
- **Comparator.** The strings have three characters at most, so two digit runs
  separated by a letter, and leading zeros on either side, all occur.

Every property has a mutant: a plausible bug in a mapped definition, for which
TLC finds the property violated (see `PROJECT.json`).

## Findings

1. **Orderly close makes the connection fiber spin.** `HandleRequests` leaves
   its loop only on aborted or reset (`ping_iouring_server.cc:54`). Per the
   spec, an orderly close is a 0-byte read with no error, so the fiber spins.
2. **A client reset aborts the server.** The reset lands after the request and
   before the reply, and the `CHECK(!ec)` after `write_some` (`:63`) aborts.
3. **A clean stop can abort the server.** A read drained by `Stop(true)` with
   `ECANCELED` trips the CHECK after `read_some` (`:57`).
4. **Shutdown can hang.** A client's accept completes before the break
   signal, but the acceptor fiber reaps it and spawns the `PingConnection`
   only after `Stop(true)` has shut down the live connections. Nothing shuts
   the new one down, so its fiber waits on `read_some` for as long as the
   client stays quiet (or spins once it closes, finding 1). `Stop(true)`
   waits for it, and `main` never reaches `proactor.Stop()` or the join
   (`:100`). The spec does not say what `Stop` does with a connection
   spawned after it began.
5. **`safe_strto32_base("0x")` is accepted.** In base 0 or 16 it returns true
   with 0, although the documented format is `strtol`'s (`numbers.cc:260`).
6. **`atoi_kmgt` cannot read what `ItoaKMGT` prints.** The format
   `"%s%" PRId64 "d%s"` prints a stray `d` after the number: 4000 prints `3dK`,
   not `3K` as the comment says. `atoi_kmgt`, documented as its opposite, stops
   on the `d` with `LOG(FATAL)` (`numbers.cc:937`).
7. **A short write loses the rest of the reply.** `HandleRequests` ignores the
   count returned by `write_some` (`ping_iouring_server.cc:62`). The spec says
   the caller must loop on a short count. After a 1-byte write, the fiber
   reads again, and the client waits forever for the other six bytes.
8. **`ParseLeading*Value` reads past its `StringPiece`.** Each parser hands
   `str.data()` to `strtol` or a relative, which reads to a NUL
   (`numbers.cc:48`). A piece is not NUL-terminated, so the characters after
   it in memory count: the piece `-` followed by `1` parses as -1 instead of
   `deflt`, and `1` followed by `2` as 12. The Dec, UDec and 64-bit variants
   also skip the `str.empty()` check.
9. **Pipelined requests get one reply.** `HandleRequests` answers at most
   one request per `read_some`, as the comment at `ping_iouring_server.cc:60`
   admits. If a client sends its second request before the first reply, both
   arrive in one chunk, one reply goes out, and the client waits forever.
   The same instance without pipelining passes `ReplyDelivered`.

## Fairness

The weak fairness assumptions and why the code justifies each:

- **The engine's steps and `RunTask`.** The loop thread runs them whenever they
  are enabled: it is a dedicated thread that only blocks when nothing is
  runnable.
- **Each token's completion.** The kernel completes any submitted socket
  operation whose result is determined.
- **`main`'s `StopProactor` and `Join`.** `main` proceeds once its wait is over.
- **The S3 demo's thread, on steps whose answer fails no CHECK.** One thread
  runs `main`, and the awaited command runs on one `io_context` with nothing
  else to compete with. An error answer is the client's choice, so fairness
  never forces one (`Progress` in `S3Demo.tla`).

No fairness is assumed for:

- **The clients.** They may stay silent forever.
- **The break signal.** The operator may never send it.

## Not modelled, and the plan

- **Float widths.** IEEE float and double are modelled at 14 and 11 bits.
  The relation between DIG + 2 and the digits a round trip needs is kept.
  Zero, subnormals, infinities and NaN are not modelled.
- **FloatToBuffer's round trip.** `MCFloatFormat_float.cfg` shows that it
  fails, one digit short. Every run slot is taken, so this stays an
  experiment and a hazard rather than a run.
- **The deprecated `*ToString` wrappers** (`numbers.cc` 939-979). Each is a
  single `StringPrintf` call.
- **A passing `atoi_kmgt` run.** Finding 6 stops every round trip at the `d`,
  so the wrap of `n * scale` is modelled but not yet checked by a passing
  property.
- **The other varz nodes** (`VarzMapCount`, `VarzMapAverage5m`, `VarzQps`,
  `VarzFunction`). They are declarations, and their implementations are not
  in `src/`. `VarzMapCount::IncBy` enters `FastVarMapCounter` as its one-line
  contract.
- **The overflow of `buf_`.** This is the caller's precondition. It is an
  ASSUME, because no code in `src/` instantiates the template.
- **Two threads sharing one `FastVarMapCounter`.** No code in `src/` shares
  a counter between threads, so the model has one caller.
- **Short reads in the S3 demo.** `ReadonlyFile`'s contract is not in `src/`
  or the spec. `MCS3Demo_short.cfg` shows what a short read would do.
- **`hash.h`** is a stateless wrapper that hands the bytes to
  `base::MurmurHash3_x86_32`, which is not in `src/`.
- **The `linked_sqe` submission mode.** This file declares the flag but
  never reads it, so no code of `src/` links SQEs.
