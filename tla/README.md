# t20-rtspd in TLA+

t20-rtspd is the daemon of an Ingenic T20 security camera.  It records the
encoder's H.264 stream (and G.711 audio) into Matroska chunks on the SD card,
uploads finished chunks over HTTPS in pieces and deletes them, switches between
day and night mode, serves snapshots over HTTP and pushes metrics to Grafana.
This directory holds its TLA+ models, the TLC configurations that check them
and the TLAPS proofs about them.  `PROJECT.json` is the index: for every
definition the lines it models, for every property the run that checks it and a
plausible bug that breaks it, and the list of hazards.

Check a run with `tlc -config <cfg> <module>` and the proofs with
`tlapm <module>Proofs.tla`; each of the seven checks from nothing within a few
minutes.

## 1. Inventory of the system

| component | state | operations | shared with |
|---|---|---|---|
| **MKV recorder** `mkv_recorder.c` | one `AVFormatContext` with its two streams, cached SPS/PPS, chunk start, `g_first_pts`, `g_last_relative_ts`, counters, cached disk usage; `g_write_mutex` | init, write_frame (rotate, open, write), write_audio_frame, shutdown, counters | main thread, audio thread, Grafana (reads counters without the mutex), uploader (through the directory) |
| **Audio capture** `audio_capture.cpp` | `g_running`, `g_thread_started`, audio devices and channels | start (may fail; not fatal), thread loop, stop (joins) | recorder |
| **Main loop** `main.cpp` | `g_running`, `last_night` | start-up order, capture loop, night-mode test, shutdown order | everything |
| **File uploader** `file_uploader.c` | `g_running`, the scan result, piece index, adaptive rate | init, scan, dark skip, send pieces, unlink, bounded shutdown | directory, HTTPS client, dark skip |
| **HTTPS client** `https_client.c` | TLS configuration, one cached connection (`g_ka_*`) | init, post, post_chunk, cleanup | uploader, Grafana |
| **Dark-scene skip** `imp-common.c:1167-1263` | a ring of 512 exposure samples under a mutex | note_sample, range_is_dark | autonight thread, uploader |
| **Autonight** `imp-common.c:1291-1580` | `avgExp`, `isp_night`, IR-cut filter, LEDs, health check, `g_night_mode` | one poll per interval | main loop, SIGUSR1 |
| **Encoder reconfiguration** `capture_and_encoding.cpp:41-174` | encoder rate control, frame rate, colour, ISP denoise, `g_denoise_saved` | apply_night_encoding | autonight *and* main thread |
| **HTTP snapshot server** `http_server.c`, `imp-common.c:976-1064` | listening socket, `g_server_fd`, `g_running`, snapshot files | start, accept loop, capture, find newest, send, unlink, stop | JPEG channel, `/tmp`, main (stop) |
| **Grafana push** `grafana_push.c` | thread, `g_running` | init, collect, push, bounded shutdown | recorder's counters, ISP, encoder, TLS state |
| **Configuration** `imp-common.c:347-715`, `ini.c` | one structure | parse at start | read by all |
| **SDK pipeline** `imp-common.c:83-345,717-1064`, `capture_and_encoding.cpp:176-337` | ISP, sensor, tuning, frame sources, group, encoder channels | set-up and teardown, both stop at the first error | every thread |
| **Bench tools** `tools/` | – | – | none |

What must be right:

* recorder: never use a freed context or stream; timestamps of both tracks
  increase and share an origin that belongs to this chunk; a chunk starts with an
  IDR frame; rotation on time; every file is closed by the time of an orderly exit;
  a finished file is never opened again; SIGTERM ends the process;
* uploader: no footage leaves the card before the server has it; the file being
  recorded is left alone; every finished file is gone in the end;
* HTTPS client: "uploaded" means accepted by the server; a retry uses a fresh
  connection; a connection the server closed while idle costs nothing;
* dark skip: a recording is deleted only on the evidence of its own window;
* night mode: the encoder's settings are those of the mode, mode and IR-cut filter
  follow the light, the LEDs do not oscillate, dead LEDs are reported;
* process: nothing is taken down under a thread that uses it, the SDK is released
  in an order it accepts, SIGTERM ends the process whoever hangs;
* snapshots: a client gets the picture of its own request, files do not pile up, a
  failed capture does not take the next one with it.

What makes this hard: six threads (main, audio, uploader, Grafana, HTTP, autonight)
with one mutex each at most; library failures
that leave half of a state behind; a wall clock that steps; files recognised as
finished by their age; restarts; idle connections; two threads that configure one
encoder with no lock; and feedback from the LEDs to the exposure.  `PROJECT.json`
lists these hazards line by line.

## 2. Modules

| module | models | interacts through |
|---|---|---|
| `ChunkStore` | abstract specification of the recorder: what it promises about files | implemented by `Recorder` |
| `Recorder` | recorder with main and audio thread, clocks, shutdown order | |
| `Uploader` | upload thread with recorder, server, network, crash and restart as its environment | directory, `https_post_chunk()`, dark-skip verdict |
| `KeepAlive` | `https_post_chunk()` and the cached connection against a server | |
| `DarkSkip` | ring of samples and the verdict | |
| `Night` | autonight thread, main loop, `apply_night_encoding()` | `g_night_mode`, encoder |
| `Daemon` | start-up and shutdown of the whole process: `main()`, the SDK pipeline, and the five other threads as loops that hold things | composes what the other modules look into, thread by thread |
| `Snapshot` | `GET /snapshot`: capture, search, answer, unlink | JPEG channel, directory |
| `RecorderProofs`, `UploaderProofs`, `KeepAliveProofs`, `DarkSkipProofs`, `NightProofs`, `DaemonProofs`, `SnapshotProofs` | theorems about the module of that name (section 4) | |
| `MCRecorder`, `MCUploader`, `MCKeepAlive`, `MCSnapshot` | values for the constants | |

The inductive invariants stand at the end of the module they are about, so that
TLC can evaluate them in any of its runs.

### Recorder

A variable per static variable of `mkv_recorder.c` that a decision depends on, with
the values that decisions tell apart.  `vstream` and `astream` are "NULL", "live" or
"freed": every failure path of `open_new_chunk()` frees the context, but not every
one clears the pointers (`StreamsAfter`).  `mux` is what libavformat has accepted
for the open chunk: the last DTS of each track and the timestamp and kind of the
first video packet.  The main thread is `vpc` (wait for a frame, lock, rotate, open,
write, and the shutdown sequence of `main.cpp:280-298`), the audio thread `apc`;
each step between two of their points is one action, with every outcome of the
library calls in it.  A close may leave a file "finished" or "cut": lines 222-223 do
not look at the results of the flush and of `av_write_trailer()`.  `wall` is
`time()`, `mono` real time; only the properties look at `mono`.

Frames have one of five kinds (SPS+PPS+IDR, a bare IDR slice, bare parameter sets,
delta, empty), since the fast path at line 323 classes a frame by its first NAL
unit alone.  Encoder timestamps are arbitrary: they may repeat and go back.  Audio
timestamps advance by a sample or more: that the audio clock is monotonic is an
assumption about the SDK that the code makes too (there is no guard as at line 414).

### Uploader

`status`, `mtime` and `size` are the directory as `stat()` shows it; `snap` is what
the last scan saw.  `now` is `time()`, which also stamps `mtime`; `Tick` is a second
of real time and `StepClock` sets the clock forward.  The history variables `quiet`
and `jumped` are the real time and the forward steps since the open file was last
written, which `MaxPause` and `MaxJump` bound.  A file is a run of bytes and
`received` the offsets the server has, so that "delivered" means every byte of the
file as it is, not as it was when scanned.  `Die` is both a power failure and the
end of `main()` after the bounded wait for the thread; either leaves the recording
as it is.  The verdict of dark skip is a choice (`Verdicts`): never dark for a file
that shows something, either answer for one that does not, which is what `DarkSkip`
establishes up to its ratio.  `https_post_chunk()` is an outcome: accepted, or
failed with or without the server having it, which is what `KeepAlive` establishes
(`OkMeansAccepted`).  Pacing and adaptive rate only delay.

### KeepAlive

`valid`, `lastUse` are `g_ka_valid` and `g_ka_last_use_us`.  Responses are a head
and a body on `inbox`, with one of four framings; the read loop may meet its end,
a bare end of file, a close_notify (an error to mbedTLS), or a timeout.  A status
line taken from the middle of an old body may look like anything.  The server
accepts or refuses, dies, or closes an idle connection, with or without a last 408.
The host never changes, so the comparison with the cached one is left out.

### DarkSkip

The ring, its head and count, as in the code, with a history of all samples ever
taken, with their real times, to compare verdicts with.  The three classes of
sample are those its two thresholds distinguish.  `now` is real time and `WallAt`
what `time()` says then; `ClockStep` sets the clock, forwards or back.  `Restart`
takes a tick at least, as a start of the daemon does: the new process takes no
sample in the second of the old one's last, and no recording spans the two.

### Night

`enc` is the setting in force for rate control, denoise, colour and frame rate,
"day" or "night"; each SDK call of `apply_night_encoding()` is a step of its own,
by thread, because both threads run it without a lock.  `SigUsr1` is there whether or
not autonight is enabled, as the handler is; `overridden` notes that a signal undid
autonight's last switch, which line 1497 never sees.  Exposure values are small
integers around the thresholds; the average is the code's, with its shifts.  The
running mode the ISP reports (`pmode`) and `isp_night` are two variables, because a
failed `SetISPRunningMode` separates them.  `Restart` starts the daemon again at any
point: its variables, the encoder and the ISP start over, while `cut`, the latching
IR-cut filter, and `lamp`, the GPIO of the LEDs, stay as they are.

### Daemon

`up` is the set of things that exist: the objects of the SDK one by one, the
recorder, the TLS state.  `mpc` is `main()`, with `k` its place in the two long
sequences `Pipeline` (`capture_and_encoding()`) and `Teardown` (`destory()`), each of
which returns at the first call that fails.  A thread is a loop with a place (`tpc`)
and a flag (`on`, the `g_running` of its module); `InUse` says what it has in its
hands there.  What happens inside each place is the business of the module that
models it.

From outside the repository's code come: `Needs` and `Refused`, the preconditions
the SDK's headers state (imp_isp.h, imp_framesource.h, imp_encoder.h), of which the
one that the code breaks is named in `LeftBehind`; that `IMP_System_Exit()` releases what is left of the channels; that `shutdown()` of
a socket that does not listen does nothing; that `pthread_kill(thread, 0)` on a
thread that is gone but not joined may succeed or fail; and that `Query()` of a
channel never created may succeed or fail (with HTTP off, the teardown may end
there, which is why `ReleasedOnExit` asks for HTTP).  `g_soft_ps_running` is never
cleared: the autonight thread has no exit.

### Snapshot

One action per SDK or file call of `sample_do_get_jpeg_snap()`, and one each for
`find_latest_snapshot()` with its two outcomes; the server serves one request at a
time.  A file has a directory, a name (the second), a modification time, and what
the properties ask of it: whose request it is, whether it is whole and when its
picture was taken.  `buffer` is the JPEG channel's one stream buffer, which the
encoder fills while the channel receives.  `req` and the history variables
(`left`, `blurred`, `stale`, `stuck`) serve the properties only.

## 3. Runs

Passing runs:

| run | what it asks | bounds |
|---|---|---|
| `recorder_packets` | type invariant; no use after free; shutdown alone with the recorder; no packet rejected for its timestamp; origin and counters; every file but the open one has been closed; SIGTERM ends the process | all 9 kinds of failure, 3 video and 5 audio timestamps (repeats, steps back, two audio frames per video frame), one tick: enough for a rotation, a failed open, and a reopen, with the audio thread anywhere |
| `recorder_files` | a chunk starts with an IDR frame; disk reading is fresh; rotation is on time; `ImplementsStore` | 6 ticks with chunks of 3: two rotations, disk readings in between, clock jumps forward; audio off |
| `uploader_pass` | `Accounted`, `OnlyClosedFiles`, `EventuallyGone` | two files of up to 3 bytes in pieces of 2, scans of one file at most, a `MinAge` of 3 against a pause of 1 and forward steps of 1 while a file is open, steps of 1 and 2 while none is, one failure, one restart |
| `keepalive_pass` | `OkMeansAccepted`, `RetryIsFresh`, `NoSpuriousFailure` | three calls (the third is where a connection corrupted by the first is met after a good second), a server that outlasts `KA_IDLE_MAX_US` |
| `darkskip` | `RingIsNewest`, `DeletedWasDark` | a ring of 3 that wraps, 6 times, one restart, one setting of the clock (back or forwards), every sequence of samples and missed polls, every window |
| `night_pass` | `EncoderFollowsMode`, `ModeFollowsLight`, `FilterFollowsLight`, `LedsSettle`, `DeadLedsReported` | two changes of light over five exposures around the three thresholds, a working illuminator whose light (26) lies between 3/4 of `IrThresh` (22) and `IrThresh` (30), so that a single threshold would oscillate, one signal with or without autonight, one restart, one SDK or GPIO failure, start by day; `Patient`: no change of `g_night_mode` while a thread reconfigures |
| `daemon_pass` | `NoUseAfterTeardown`, `NothingDangles`, `ReleasedOnExit`, `SigtermEndsProcess` | all configurations with recording and Grafana (audio, upload, HTTP, autonight on or off: 16), a grace period of 2 (it passes or is cut short), one failing SDK call beside the early returns |
| `snapshot_pass` | `ServesItsCapture`, `LeftoversAreFailures`, `ChannelFree` | three requests (a failed one before and after), two ticks a second (two captures share a file name), one leftover in each directory, one failure, one setting of the clock |

Their state spaces have between 53,000 states (`keepalive_pass`) and 5 million
(`snapshot_pass`); `night_pass` has 380,000 and takes two minutes.  `night_pass` has also been
checked with two signals, with a dead illuminator (`Works = FALSE`), and, `LedsSettle`
apart, with a bright one (`Illuminated = 6`).

Runs that find what the code does not do, each with its finding in `PROJECT.json`:

| run | claim | what happens |
|---|---|---|
| `uploader_sigterm` | finished chunks are uploaded (README.md:10) | SIGTERM ends the loop over pieces with `upload_ok` set; the file is deleted half sent |
| `uploader_stall` | "still being written" (file_uploader.c:236) | after 30 s without a frame the open chunk is uploaded and unlinked |
| `night_race` | encoding follows the ISP state (imp-common.c:1493) | two threads' reconfigurations mix and stay mixed |
| `snapshot_stale` | "a fresh JPEG snapshot" (http_server.c:164) | a picture left in the channel's buffer by one request is served to the next |

The same models show the following; change the constants of a passing run as
stated, or check the property named, to see it.

| module | property | how | what happens |
|---|---|---|---|
| `MCRecorder` | `RotatesOnTime` | `recorder_files` with `ClockSteps <- BackwardSteps` and `RotatesOnTime` alone | "use monotonic clock" (mkv_recorder.c:337): a clock set back keeps a chunk open too long; `FreshDiskReading`, checked alone, fails too, for the cached disk reading is aged by the same clock |
| `MCRecorder` | `TrailersWritten` | `recorder_packets` | an ignored failure of `av_write_trailer()` (mkv_recorder.c:223) leaves a file without its trailer |
| `MCUploader` | `OnlyClosedFiles` | `uploader_pass` with `MaxJump = 2` | "still being written" (file_uploader.c:236): a clock set forward makes the open file old enough, with an encoder that pauses for a tick at most |
| `MCKeepAlive` | `NoSpuriousFailure` | `keepalive_pass` with `ServerIdle = 1` | idle timeouts are handled (https_client.c:339): a close found only on reading is not retried |
| `Night` | `LedsSettle` | `night_pass` with `Illuminated = 6` | hysteresis stops oscillation (imp-common.c:1507): an illuminator that brings the exposure below 3/4 of the threshold, as a working one does with the default thresholds, is switched on and off for ever |
| `Night` | `ModeFollowsLightAlways` | `night_pass` with `MaxFaults = 0` | autonight "replaces external client SIGUSR1" (exampleconf.ini:144), but after a signal it leaves the mode toggled until the light changes (imp-common.c:1497) |
| `Night` | `EncoderFollowsMode` | `night_pass` with `Patient = FALSE` | a signal or a switch while either thread reconfigures leaves day and night settings mixed |
| `Night` | `FilterFollowsLightAlways`, `LampIsKnown` | `night_pass` | a restart leaves the IR-cut filter in its night position by day, and LEDs on that the daemon takes to be off |
| `DarkSkip` | `JudgedByItsOwn` | `darkskip` | after the clock was set back a recording is deleted on the evidence of later samples |
| `Daemon` | `DetachedIsHarmless` | `daemon_pass` | "the thread dies with the process either way" (file_uploader.c:519): before it does, `https_client_cleanup()` frees the TLS state it uses |
| `Daemon` | `WakesOwnSocket` | `daemon_pass` | after a failed `bind()` the shutdown goes to whatever has the old descriptor number (http_server.c:36, 267) |
| `Daemon` | `TuningEndsFirst` | `daemon_pass` | imp_isp.h:314 wants tuning off before the sensor; `sample_system_exit()` does it after (`LeftBehind`, the exception of `NothingDangles`) |

Seen while modelling, without a run of their own: after a failed `realloc()`
(mkv_recorder.c:374) on the opening IDR frame a chunk starts with a delta frame;
a file whose trailer failed (mkv_recorder.c:223) is uploaded and deleted like a
finished one; a process started within the first 30 s of the epoch (a camera without a
battery-backed clock) opens its first chunks without having read the disk usage
(mkv_recorder.c:84 compares with a last check of 0);
"will retry from failed chunk" (file_uploader.c:425) restarts at chunk 0 (line 341);
"every exposure sample ... was dark" (file_uploader.c:296, imp-common.c:1194) is a
ratio, 90 % by default (imp-common.c:1251-1262); with default thresholds the "OK"
branch of the LED health check is out of reach (imp-common.c:1555: the LEDs are on
only above 3/4 of `IR_LED_THRESH`); `IR_LED_OFF` inverts the hysteresis as well; a
failed `SetISPRunningMode` can leave the encoder in night mode until the next dusk
(listed as a finding); of two snapshots of one second, the first of which was
written in part, the broken one may be served, and after the clock was set back an
old leftover is served in place of the new picture (http_server.c:105: the exceptions of
`ServesItsCapture`); `/status` reports the time of day as `uptime` (main.cpp:205).

Preconditions of the passing runs, so that nobody reads more into them:

* `recorder_files` excludes the failed `realloc` and backward clock steps, starts with a
  clock past the first 30 s of the epoch, and takes IDR frames to be written within a
  tick and chunks to be two or more ticks apart, without which two chunks could share a
  file name of one-second resolution;
* `uploader_pass` takes pauses of the encoder and forward steps of the clock between two
  writes to the open file to stay together below the 30 s of `MinAge` (`Steady`); a
  step while no file is open may be larger, and a clock set back, which only makes
  files look younger and delays their upload, is left out;
* `keepalive_pass` takes the server to announce an end of connection and to hold an idle
  one for longer than 20 s;
* `night_pass` takes `g_night_mode` not to change, neither by autonight nor by SIGUSR1,
  while either thread is in `apply_night_encoding()` or the main thread has yet to
  notice the last change (`Patient`), and the illuminator's light to leave the exposure
  above 3/4 of `IrThresh`;
* `daemon_pass` excepts the sensor that is taken from under the tuning.

Each is a place where the code leans on its environment, and dropping one is what the
two tables before this list show.

### Fairness

*Recorder*: weak fairness of each thread's steps that do not wait for the
environment (no frame need ever arrive: both polls time out and test `g_running`),
and strong fairness of taking the mutex, which neither thread holds longer than one
frame.  *Uploader*: the thread runs, time passes and the recorder keeps writing or
closing its file; the bound on failures says that the network comes back.  *Night*:
both threads run; light, signals, restarts and failures are not fair and bounded.
*Daemon*: weak fairness of `main()`, the audio and the HTTP thread, whose waits are
all bounded (500 ms polls, 1 s sleeps, 5 s for a client) but for `accept()`, and that
a client comes is not assumed; none for the uploader, Grafana and autonight threads,
which may hang for ever.  `KeepAlive`, `DarkSkip` and `Snapshot` have safety
properties only.

## 4. Proofs

Every safety property that a passing run checks, the three action properties and
the refinement among them, is also a theorem of the module's `Spec`, for every value
of the constants that satisfies the module's named assumptions (types and signs of
the configuration, bounds that are numbers).  Where a theorem needs more, the
assumption is in its statement:

| theorem | says | assuming |
|---|---|---|
| `TypeCorrect` (all seven modules) | `[]TypeOK` | |
| **RecorderProofs** | | |
| `MemorySafe` | `[]NoUseAfterFree` | |
| `ShutdownUndisturbed` | `[]ShutdownAlone` | |
| `VideoMonotone`, `AudioMonotone` | no packet is ever rejected for its timestamp | |
| `OriginCorrect`, `VideoGated`, `CountersCorrect` | `[]OriginIsFirstPacket`, `[]AudioAfterVideo`, `[]CountersMatchFile` | |
| `ChunksAlwaysClosed` | `[]ChunksClosed` | |
| `TrailersAlways` | `[]TrailersWritten` | `"trailer" \notin Faults` |
| `DecodableChunks` | `[]OriginIsIdr` | `"realloc" \notin Faults` |
| `DiskReadingFresh` | `FreshDiskReading` | `ClockSteps \subseteq Nat`, `RefreshPeriod <= StartWall` |
| `RotationInTime` | `RotatesOnTime` | `ClockSteps \subseteq Nat` |
| `StoreImplemented` | `ImplementsStore` (that is `Store!Spec`) | `FreshNames` |
| **UploaderProofs** | | |
| `OpenFileLeftAlone` | `[]OnlyClosedFiles` | `Steady` |
| `FootageAccounted` | `[]Accounted` | `Steady` |
| **KeepAliveProofs** | | |
| `OkIsAccepted` | `[]OkMeansAccepted` | |
| `RetryOverFresh` | `[]RetryIsFresh` | |
| `FailuresAreReal` | `[]NoSpuriousFailure` | `Polite` |
| **DarkSkipProofs** | | |
| `RingCorrect` | `[]RingIsNewest` | |
| `DeletionsRight` | `[]DeletedWasDark` | |
| **NightProofs** | | |
| `EncoderRight` | `[]EncoderFollowsMode` | `Orderly` |
| **DaemonProofs** | | |
| `PipelineOrdered` | `[]NothingDangles` | |
| `NothingLostInUse` | `[]NoUseAfterTeardown` | |
| `ExitReleases` | `[]ReleasedOnExit` | |
| **SnapshotProofs** | | |
| `ChannelBalanced` | `[]ChannelFree` | |
| `LeftoversCounted` | `[]LeftoversAreFailures` | |
| `AnswersOwnCapture` | `[]ServesItsCapture` | `OldFilesAreOld` |

The assumptions are met by the passing run of the module (with the
pauses, `Patient`, the framings, the clock steps and the leftovers as its cfg sets
them; `TrailersWritten` is checked by no run, since `recorder_packets` lets a trailer
fail), and every one
is needed: without it the code does not do what the property says.

* `ClockSteps \subseteq Nat`: the wall clock is not set back.  Otherwise a chunk
  stays open too long (section 3).
* `FreshNames`: that, and no two seconds of the run with the same file name, and an
  IDR frame written before the next is due (`FrameDelay < IdrGap`); otherwise two
  chunks may share a name and the second truncates the first.
* `"realloc" \notin Faults`: see "Seen while modelling".
* `"trailer" \notin Faults`: no write of a trailer fails, since its result is
  ignored.
* `RefreshPeriod <= StartWall`: the process does not start within the first 30 s of
  the epoch, where the last check of 0 passes for a recent one.
* `Steady`: between two writes to the open file the encoder's pause and the forward
  steps of the clock stay together below `MinAge`; otherwise `uploader_stall`, or
  its like with a clock that is set.
* `Polite`: the server holds an idle connection for longer than `KA_IDLE_MAX_US` and
  does not end an answer by closing the connection without a word.
* `Orderly`: `g_night_mode` is not changed, by autonight or by SIGUSR1 (which comes
  with autonight on or off), while either thread is reconfiguring (otherwise
  `night_race`), and a configuration with `NIGHT_FPS_NUM` also has `RATENUM`:
  without it nothing gives the frame rate back by day
  (capture_and_encoding.cpp:166).
* `OldFilesAreOld`: no leftover of an earlier run is younger than the start of the
  daemon, nor named after a second other than its own if it is of that second.

### Inductive invariants

None of these properties is inductive.  The parts that make them so are definitions
at the end of each module, each proved preserved by a lemma of its own with one step
per action:

*Recorder.* `NoUseAfterFree`, for one, needs to know that the other thread cannot
close the chunk between the test and the write, which is the mutex; and that an open
context always comes with live streams, which the failure paths make false of the
pointers alone.  `SectionInv`: the holder of the mutex, and nobody else, is in its
critical section, and the audio thread is gone by the time the recorder is shut
down.  `OpenInv`: context, streams, file and origin come and go together (uses
`SectionInv`: the other thread is outside).  `PacketInv`: counters and origin mirror
what the muxer accepted (uses `OpenInv`).  `AudioInv`: an audio frame in flight lies
after the last one written, which rests on `PacketInv` (the origin cannot move once
audio is in the file) and on `RescaleIncreases`, a lemma about the rounding of
`av_rescale_q`.  `KeyInv`: an open chunk lacks a packet only while the IDR frame
that opened it is being written.  `ReadInv`, `AgeInv`: real time that passed since a
disk reading, or since a chunk was opened, is never more than the clock says.
`NothingCut`: without a failed trailer no closed file lacks one.  `NameInv`: no
chunk has the name of a later second, and one with this second's name came with the
latest IDR frame; with it every step of the recorder is a step of `ChunkStore` or a
stutter (`StepStore`).

*Uploader.*  `HandInv`: only the open file is being written, it looks no older than
`quiet + jumped` (which `Steady` keeps below `MinAge`), and what the thread has in
hand is closed with the size the scan saw, which a crash and a restart keep.
`SentInv`: the server has all pieces before the current one; `PiecesCover` and
`PieceExtends` are the arithmetic of the last, shorter piece.

*KeepAlive.*  `UnreadInv` and `ResponseInv` say what may still lie unread on a
connection: a body only behind its own head, a good head only for an accepted chunk,
and nothing at all on a live connection outside a call, which is why an answer cannot
be taken for that of a later call.  `FreshInv`: the second attempt has no cached
connection.  `FramingInv`, `KeptInv`, `FailureInv`: a connection that is kept is open
unless it has been idle for `ServerIdle`.

*DarkSkip.*  `RingIsNewest` is inductive with the types once the index arithmetic is
done (`SlotIsAt`, `NextIsAt`: the code's `%` on signed sums, for any ring size).
`TakenInv`: one process takes its samples an `Interval` apart, so that the slack at
the start of a window hides at most one.  `Counting` is the arithmetic of the ratio,
`WindowIsRecording` that a window of the wall clock that repeats no second is the
window of real time.

*Night.*  `PlaceInv` is where each thread may be.  `ApplyInv`: every call under way is
for the mode in force, what was saved is the day setting, and what `main()` has set so
far (`SetByMain`) is right and stays right whatever the autonight thread sets beside
it.

*Daemon.*  `ThreadInv`: how far `main()` is decides which threads run, and with which
flag.  `ObjectInv`: how far it is decides what is up, as far as the failures that
end `destory()` early leave that certain.  `StandInv`: `NothingDangles` for the
order that the teardown keeps too, that is without the tuning's sensor, which the
set-up alone provides for (`ObjectInv`).  `CleanInv`: without a failure the teardown
finds exactly what is left of its list.

*Snapshot.*  `ChannelInv`: the channel receives just while a request is in hand.
`CountInv`: the files are at most the failures and the one in hand.  `FileInv`: the
file in hand is newer than every other in its directory and no older than any
elsewhere, because a file that was given up has the time it is named after.

### What the proofs found

* `DarkSkip` let a restarted process take a sample in the very second of the old
  one's last; two samples in a second break `DeletedWasDark` for a ring of 5, which
  the ring of 3 in the run did not show.  A restart takes longer than that.
* Two arms of the `CASE` in `Daemon!Needs` overlapped: its value was TLC's choice of the
  first, not what the definition said.  They are disjoint now.
* `NIGHT_FPS_NUM` without `RATENUM`, above.
* `ServerIdle`, `MinAge` and `RefreshPeriod` must be positive: at 0 a connection is
  closed as soon as it is idle, and every file is old enough.

### Only model-checked

Liveness under fairness, which is out of the prover's reach: `ShutdownCompletes`,
`EventuallyGone`, `SigtermEndsProcess`, `ModeFollowsLight`, `FilterFollowsLight`,
`LedsSettle` and `DeadLedsReported`.  And the violations, which are counterexamples.

## 5. Not modelled

* Configuration parsing: a structure filled once before any thread exists, and taken
  as it is: a few values are clamped where they are used (`GOP_SEC` at imp-common.c:785,
  the dark-skip ratio at 1259, which `ClampedRatio` models), but nothing checks the
  others or relates them, so the assumptions on the constants (such as
  `DayThresh < NightThresh`) are assumptions on the file.  `ini.c` is third-party.
* The attributes handed to the SDK (sizes, rate control); the SDK itself is closed,
  and appears as preconditions, failures and one stream buffer.
* `https_post()`, URL parsing, TLS set-up, adaptive rate and pacing, header texts.
* A failing `unlink()` of a served snapshot (http_server.c:216, ignored): files would
  then pile up without a failed capture.
* Texts: HTTP requests and headers, metrics, log.
* The state inside mbedTLS, which two threads share (https_client.c:78).
* Bench tools.
* The bulk of the repository's lines: headers of the SDK, of FFmpeg and of mbedTLS
  under `include/`, which declare and do nothing.
* Inside libavformat: one rule, that a DTS that does not increase is rejected.

## 6. Plan

Order, most important first; done in this version: 1-8.

1. `Recorder`, `ChunkStore` and the proofs of the recorder's safety.
2. `Uploader`.
3. `KeepAlive`.
4. `DarkSkip`.
5. `Night`.
6. `Daemon` and `Snapshot`.
7. `Night` with restarts, `DarkSkip` with clock steps.
8. Proofs of every safety property, and that `Recorder` implements `ChunkStore`.
9. Abstract specifications for other components, proved as `ChunkStore` is: the card
   as the uploader and the recorder share it, and the posts `KeepAlive` promises to
   the uploader.
