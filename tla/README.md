# A TLA+ model of bambu-timelapse

bambu-timelapse is a Go daemon beside a Bambu Lab printer. It follows the
printer's MQTT reports, grabs a still from the camera at every new layer, and
when the print ends it makes a video of the stills and posts it. A print takes
hours, nobody watches it, and it cannot be repeated: what matters is that the
footage survives restarts, lost replies and odd printers, and that what is
posted is true. This directory models the parts that decide that, checks them
with TLC on small instances, and proves the safety properties with TLAPS for every
value of the parameters.

Source paths below are relative to `src/`.

## 1. Inventory

| Component | State | Operations | What makes it correct |
| --- | --- | --- | --- |
| `internal/telemetry` | one merged map of report fields | `Merge`, `forgetPreviousJob`, `TaskID`, accessors | the view is about one job; nothing of the last print survives into the next; the device's own fields do |
| `internal/service`: lifecycle | `current` session, one-shot `reconciled` latch, finalizer goroutines | `onMessage`, `reconcile`, `handle`, `begin`, `startFinalize` | one owner per directory; only ended prints are finalised; a restart resumes; every session is settled |
| `internal/service`: capture | `capturing` flag, `Session` under a lock, frame files, `state.json` | `handle`'s layer test, `capture`, `awaitCapture`, `coverFrame`, `overlay`, `encode` | counted frames exist and are whole; captions keep step with the picture; one frame per layer |
| `internal/session` | `staging/job-*/`, `failed/<reason>-job-*/` | `Create`, `load`, `List`, `Save`, `Discard`, `Park`, `SweepFailed` | nothing is deleted before it is held elsewhere |
| `internal/uploader` and delivery | upload loop, parked uploads | `Post`, `finalize`'s loop, `deliverLocally`, `retryParked` | bounded retries, no needless copies, shutdown ends |
| `internal/camera` encode, `preflight` | config switches, encode options | `captionChecks`, `Detect`, `Encode`, `buildGraph`, `duration` | decoration never costs the footage; the duration told is the video's |
| MQTT connection, `/healthz` | `mqttUp`, time of the last report, the subscription | `onConnect`, the lost handler, `onMessage`'s stamp, `Serve`'s handler | a deaf process turns unhealthy, one that hears again turns healthy |
| command line, timed capture, `debug` | signal context, listener, finalizers under way, a timed session, debug's channel | `main`, `Run`, `RunTimed`, `Serve`, `snapshot` | a cancelled process ends; none abandons a finalizer or captured frames |
| `internal/preview`, `internal/ftps` | control and data connection, the listing, the plate preview file | `fetchPreview`, `Fetch`, `Dial`, `transfer`, `expect`, `Close`, `debug`'s `files` | each reply is read for its own command; only faults cost the preview; it shows the running plate; nothing stays open |
| `internal/config` | values read once | `load` | only whether a destination is required and kept is modelled |
| probe, metrics, font, version | none that the rest reads back | | not modelled: questions to the printer, counters, I/O |

How they interact. MQTT delivers reports one at a time (`SetOrderMatters`) to
`onMessage`, which merges, reconciles once per process, and calls `handle`.
`handle` starts at most one capture goroutine at a time (the `capturing` flag)
and, when a print ends or another begins, a finalizer goroutine for the session.
The callback, the capture goroutine and the finalizer share the `Session`; the
finalizer waits for the capture only up to `captureDrainLimit`. A separate
goroutine started by `Run` posts what an earlier process left under
`failed/upload-failed-*`, and one started by `begin` fetches the plate preview over
FTPS. The MQTT client runs `onConnect` and the lost handler in goroutines of its
own, in no order, and they and `onMessage` write the two values `/healthz` reads.
`main` holds all of it together: `Serve` runs beside `Run` and cancels its context
when the port cannot be bound, and `Run` waits for the finalizers. Everything that
must survive is in the staging tree.

What is hard here: crashes between two writes; a grab that outlives its layer,
its print or its drain limit; a job switch while a finalizer works; deltas that
arrive before the snapshot; an endpoint that took the video and whose answer was
lost; options fixed at startup and used once, hours later; handlers of one
connection that run after those of the next; a client and a server that may each
wait for the other. PROJECT.json lists each hazard at its line with the properties
that watch it.

## 2. Modules

| Module | Models | Checked by |
| --- | --- | --- |
| `Report` | the merged view as pure operators: `String`, `TaskID`, `ForgetPreviousJob`, `Merge` | through the next two |
| `Telemetry` | the view against a printer that sends deltas, changes jobs and zeroes its ids, and a process that restarts | `MCTelemetry` |
| `Recording` | abstract: a job's recording is unseen, open, settled, in that order, and settled only after the job is over | refinement target |
| `Service` | which session belongs to which print, who owns it, when it ends | `MCService` |
| `Capture` | the frames of one print: layer test, grab, save, finalise, restart | `MCCapture` |
| `Delivery` | an encoded video on its way out: post, retry, park, sweep | `MCDelivery` |
| `Encode` | what preflight turns off, what the graph asks for, the second try, the duration | `MCEncode` |
| `Connection` | the MQTT link, its handlers, the age of the last report and the verdict of `/healthz` | through `Process` |
| `Process` | a process from `main` to its exit status, for every command, on top of `Connection` | `MCProcess` |
| `Preview` | the plate preview's search and choice, and the FTPS client against a server | `MCPreview` |
| `TelemetryProofs`, `ServiceProofs`, `CaptureProofs`, `DeliveryProofs`, `EncodeProofs`, `ProcessProofs`, `PreviewProofs` | theorems about the module of that name | TLAPS |

`Service` and `Telemetry` share `Report`; `Process` extends `Connection`, so that a
connection, its handlers, the listener, the signal and the finalizers interleave in
one specification. The other modules cut the same daemon at named places:
`Service!FinalizeEnds` stands for everything `Capture` does from `FinDrain` on,
`Capture!FinDeliver` and `Process!FinalizeEnds` for everything in `Delivery`, and
the preview that `Encode` finds or does not find is what `Preview` left. `Service`
and `Capture` are not composed into one specification (section 7).

How state and actions correspond to the code:

* **Telemetry.** `fields` is `State.fields`. A job-scoped field holds the job it
  describes, so an inherited field is visible. `Report(K)` is `onMessage`'s Merge
  with the keys K; `Restart` is a new `NewState`. The printer is external: its
  identity keys change together, so a report has all of them or none, and a new
  job's first report has them. `blank` is history: a report left the view without
  an identity.
* **Service.** A callback is up to three steps (`OnMessage`, `Reconcile`, one
  `Handle*`), with finalizers interleaved. `staging[t]` tells a directory with
  `state.json` (`session`) from one without (`bare`), which `Create` can leave
  behind and `List` never returns. `finalizing[t]` counts goroutines.
  `HandleBegin(opened)` is `handle`'s RUNNING branch with `begin` in it,
  `opened = FALSE` a `Create` that failed. `Stop`/`Exit` are the cancelled context
  and the end of `finalizing.Wait`.
* **Capture.** `session` is the Session in memory, `saved` the last `state.json`,
  `files` the frame files: absent, torn, or a picture, told by the layer the printer
  is on at `GrabDone`, when the picture is taken: the delay and the grab are over by
  then and the printer may have gone on. A bed cleared after the print is not told
  apart from its last layer. A grab is four steps (delay, open, write, count),
  because a crash, a shutdown or the finalizer may fall between any two.
  `Caption(lines, n)` is the counter over frame n: each line's text is set by a
  command at its frame and nothing clears it, so the last one stays over whatever
  footage follows. `Save` may fail, as its callers ignore the error.
  `FinOverlay` and `FinFill` are separate because `overlay` sizes its lines by
  `Frames` and then ranges over `Layers` without the lock; an index past the end
  is `Panic`. `world` says what may go wrong in a behaviour: grabs that outlast the
  drain (`slow`), saves that fail (`full`), a `state.json` from before the layer list
  (`legacy`), reports that are handled when the printer has left the layer they name
  (`lag`). It never changes, and each property names the part it needs.
* **Delivery.** `mode` is the command: the daemon posts, `record` keeps the file, and
  with `-once` it then cancels the context. `LocalCopy` is `move`'s copy across
  filesystems, which may fail half way. `pc[j]` is whoever works on the job's directory, the finalizer or
  the retry. The destination takes a video in a step of its own (`Take`), so that
  any answer may be lost after it. `place` tells a deliberate deletion (`gone`)
  from `Park`'s RemoveAll after a rename that failed (`dropped`). A RemoveAll may fail
  unseen, up to `MaxStuck` times: the directory is then `left` in staging, or stays
  parked, and a later start delivers it again.
* **Encode.** A filter is its name. `host.filters` is the ffmpeg build, `cfg` what
  preflight leaves on, `opts` what `encode` asks for, `sized` whether `targetSize`
  knew a frame's size, `length` the frames of the resulting video.

* **Connection.** `link` is the client's, `due` counts handlers it has started and
  that have not run; a handler of a connection already lost may still be among
  them. `onConnect` is three steps (`OnConnect`, `Subscribe`, `AskSnapshot`), because
  it waits for two acknowledgements, and a lost connection fails either. `age` is
  the time since `lastReport` in ticks, `Never` before the first.
* **Process.** `pc` is main's goroutine: `Start`, `Preflight`, then `Run`
  (`FirstConnect`, `Disconnect`, `Drain`), `RunTimed` (`Create`, `TimedWait`,
  `TimedShoot`, `TimedFinalize`) or `snapshot` (`DebugDial`, `DebugSees`,
  `DebugGivesUp`). `done` is the signal context, which a signal, `Serve` or `-once`
  cancels. `FirstConnect` does not look at it, as `token.Wait` does not. `code` is the
  exit status. `got` is debug's channel of one place. Printing is left out.
* **Preview.** `commands` and `replies` are the two directions of the control
  connection, `data` the data channel: dialled by the client before the transfer
  command, ready once the server has the command, open after the handshake. A reply
  is its class and the command it answers, so a reply read for another command is
  visible. `fault` is history: the server or the network did something other than
  answer. `listedFile` is what a LIST line yields of a name.

Operators whose comment names a mistake (`KeptAnyway`, `FinDrainSkipped`,
`BackoffOffByOne`, `CompleteUnread`, ...) are not part of any specification: each is the form a
plausible bug would give the definition after it, kept to show that the property
named in PROJECT.json really notices.

## 3. Runs

| Run | Instance | Properties |
| --- | --- | --- |
| `telemetry` | 3 jobs named by cloud id, LAN id and job id; 3 job keys, 1 device key | `KnowsItsJob`, `JobFieldsBelong`, `KeepsFields` |
| `service` | 2 named jobs, 1 unnamed, 2 restarts, 1 pause, `Create` and `List` may fail, symmetry on the named jobs | `OneOwner`, `CurrentOnDisk`, `OwnFrames`, refinement `KeepsPromise` |
| `service_settles` | 2 jobs, 1 restart, reports in any pieces, fairness | `FinalizesOnlyEnded`, `Settles` |
| `capture` | 4 layers, 6 frames, 2 restarts; a world where everything may go wrong with the service and one where only reports lag; fairness | `CountedFramesWhole`, `LayersTell`, `CaptionHonest`, `VideoMatches`, `OnePerLayer`, `DrainedOverlayFits`, `KeepsFootage`, `Settles` |
| `delivery` | 2 jobs, 3 attempts, 2 restarts, 1 removal that fails, all three modes, fairness | `NoNeedlessCopy`, `NeverLost`, `SeparateHands`, `RefusedRests`, `Finishes`, `Stops` |
| `process` | 5 commands, 2 lost connections, a report stale after 2 ticks, `-frames` 0 and 3, fairness | `NoneAbandoned`, `DeafIsUnhealthy`, `HealthReturns`, `Stops` |
| `preview` | 6 stores, 2 titles, 2 plates, both callers, fairness | `InStep`, `OnlyFaultsFail`, `RightRender`, `Ends` |
| `encode` | every build with concat, 1-5 frames at 2 fps, holds of 0-2 s | `FootageSurvives`, `DurationHonest` |

The first run of each module also checks its `TypeOK`.

Why the bounds are enough. Two named jobs are what a job switch needs, and the
unnamed one is the case `begin` waits for. Two restarts let a session be adopted,
left again and finalised by a third process, or an upload be parked, retried and
swept. Four layers leave room for a skipped layer, a grab that outlives its layer,
and a capture after each restart; `MaxFrame` exceeds what they can produce, so it
never blocks a grab. Three attempts are the code's `uploadAttempts`. One removal
that fails is enough for a delivered recording to be found again by the next start.
The two worlds of `capture` cover between them what each property asks of its world;
the theorems cover every mixture. 2 fps with 1-5 frames has both exact and rounded
durations. Two lost connections let the handlers of three connections overlap. Two
ticks tell a fresh report, an ageing one and a stale one apart; two reports are
debug's own `messagesToSee`; a timed capture may stop below, at and above `MinFrames
= 2`, with and without its limit of 3. The six stores are: nothing, the job's 3mf
alone, after another job's, under a name with a space, without the plate's render,
and thumbnails only.
The passing runs end with no deadlock: `Rest` and `Done` stand for a daemon with
nothing left to do.

Assumptions the runs make about the outside:

* `Coherent` (run `service`): a job the view does not know is reported with state
  and id together, because both changed with the job, or because the snapshot
  `onConnect` asks for is first. The code does not enforce it. `service_settles`
  drops the assumption, and `FinalizesOnlyEnded` says there what it costs.
* removals and renames in the staging tree succeed in `Service` and `Capture`, where
  a finalizer's end is one step. Their failures are `Delivery`'s, and `Process`
  lets a timed capture's `Park` drop the frames (`dropped`).
* `Disconnect` returns with no callback running (`Process`): a callback does no I/O
  but a small save, well within the 2 s that `disconnectGraceMS` gives it. A
  process that exits over a callback that outlasts it is `Service!Exit`.
* `retryParked`'s goroutine lists `failed/` before any finalizer of its own
  process can have parked something there.
* each job runs at most once under its task id;
* the intro and the tail are held for whole seconds (`Encode`);
* the MQTT client opens a clean session per connection, and runs each handler in a
  goroutine of its own (`Connection`);
* the FTPS server answers commands in order and starts the data channel's handshake
  only once it has the transfer command, which is why the client sends the command
  first (`Preview`).

Fairness. Go schedules every runnable goroutine, so steps of the callback, the
capture, the finalizer and the retry are weakly fair. `ffmpeg` and HTTP requests
have timeouts, so a grab and a request end. A container's restart policy boots
the next process. The printer ends a print it started, resumes a pause, and sends
full reports again and again; that one is strongly fair, because a crash may
disable it between two reports. Nothing is assumed of crashes, shutdowns, job
starts or the clock of `FAILED_TTL_DAYS`, and no fairness says that an upload
succeeds. In `Process` the client retries and runs the handlers it started, ticks
pass, and a printer that is heard goes on reporting; nobody has to switch it on,
and a subscription may be refused every time. Go's `select` picks at random among
ready cases, so `RunTimed` does not pass over a cancelled context for ever (strong
fairness). In `Preview` the client's steps and deadlines are fair, and so is a
server until it falls silent, which it may do at any time.

## 4. Disagreements between the code and what it says

Four runs are expected to fail; each shows the code doing something other than
what a comment, a test or the README states.

* `service_verdict`: `reconcile` finalises every session as FINISH, so a print that
  failed while the service was down is captioned as a success.
* `capture_late`: a grab that outlasts `captureDrainLimit` appends to `Layers`
  after `overlay` sized its lines by `Frames` (service.go:792) and before the range
  takes the slice (793): index out of range, which ends the process.
* `process_record`: `load` does not require MEDIA_API_URL of `record` and does not
  clear it either, so `record` posts where the variable is set; the README says that
  only the daemon posts.
* `encode_concat`: on a build without concat preflight turns the intro off but not
  the finished shot at the end, which is joined with concat as well; both tries
  fail and the recording is parked.

Others met while modelling have no run of their own. The properties above are
stated so as to exclude them, and say so in their comments:

* ids that read "0" between two jobs make `forgetPreviousJob` return early, and
  the old job's fields survive into the next (`blank` in `Telemetry`);
* a first report after a restart with `gcode_state` but no id makes `reconcile`
  finalise the print that is running, and so does one that names it but still says
  PREPARE (the exception in `FinalizesOnlyEnded`);
* a frame may show a later layer than its caption, when the layer passes during the
  delay or the grab, although `overlay`'s comment (service.go:773-774) calls it "the
  layer the frame on screen was actually captured on". `LayersTell` and
  `CaptionHonest` say what does hold, a bracket;
* frames past the last caption, from a grab nobody waited for or a process that died,
  play under the previous frame's number (`Caption`); where saves failed such a
  frame may even be older than that number (`CaptionHonest` then leaves it out);
* a job reported under id "0" while a session is open is filmed into that session
  (`OwnFrames` excludes unnamed jobs);
* when `List` fails, `reconcile` gives up with its latch already set, and sessions
  of ended prints wait for the next start (`ListFails`, FALSE in `service_settles`);
* nothing increments `Session.Pauses`;
* the shutdown case of the upload loop's select is empty, so the loop posts again at
  once instead of parking;
* with MEDIA_API_URL set `record -once` never ends by itself;
* a first subscription that is refused leaves the endpoint healthy for ever
  (`DeafIsUnhealthy` starts at the first report), and a lost handler that runs after
  the reconnect's `onConnect` leaves it unhealthy (`overtaken` in `HealthReturns`);
* a cancelled `Run` waits in `token.Wait` for as long as the printer is off (`Stops`
  asks for a printer that stays on);
* a health port that cannot be bound stops the daemon with exit status 0, which a
  restart-on-failure policy takes for success (`main` means it to "fail loudly");
* Ctrl-C on a timed capture with fewer than `MIN_FRAMES` frames discards them, where
  the README says that it encodes what there is (`NoneAbandoned`); with `-frames`, a
  camera that refuses every grab keeps it going for ever;
* a 3mf whose name has a space is listed under its last word and cannot be fetched;
  a title that is part of another's matches it too (`RightRender` asks for one);
* after an error `debug`'s listing goes on over the same connection and reads replies
  of the transfer it gave up (`InStep` is about Fetch);
* a process that ends in the middle of a grab leaves a frame nobody counted, and a
  later encode reads it (`VideoMatches` asks for no restart);
* `Discard` and `retryParked` ignore a delete that failed, so a video that was
  delivered is delivered again by the next start (`lost` in `NoNeedlessCopy`);
* a start sweeps `failed/` before it retries, so a parked upload past its time is
  deleted untried; only `upload-failed-*` is ever retried, while the README's table
  says "Anything in `failed/`";
* when ffprobe cannot size a frame, the stills and the cloned tail are both left
  out while `duration` counts the tail (`sized`);
* a preview that lands between encode and post is counted in a video that does not
  show it, and one half written when ffmpeg opens it can fail the encode (`late`).

## 5. Proofs

Every invariant and every action property that a run checks is also a theorem, and
so is the refinement of `Recording`. The theorems hold for any number of jobs,
layers, frames, attempts, restarts and lost connections, any stores, any frame rate
and any set of builds, under the named assumptions on the constants only (`Coherent`
and `Concat` below are the two that are hypotheses of theorems). Each rests on an
inductive invariant, which TLC checked on the run's instance before it was proved.

* **Telemetry**: `JobFieldsNeverInherited`, `TypeCorrect`, `ViewNamesTheJob`,
  `DeltasKeepFields`. Assumes that each job names itself under
  some key and no two share a name. `JobFieldsBelong` alone is not inductive: a
  report that carries no id keeps the old name, so one must know that a non-empty
  view that never was blank is owned by exactly one job, all ids and all job-scoped
  fields its own, and that this job is the printer's once it is announced (`Owned`).
  `KnowsItsJob` needs that a view with any id of the announced job has all of them
  (`Heard`).
* **Service**: `OwnersSeparate`, `RecordedStaysOnDisk`, `FramesStayHome` and the
  refinement `PromiseKept`, all for `Coherent` reports (a job the view does not know
  is reported with id and state together; section 4 says what the code does
  otherwise), and `TypeCorrect` and `EndedBeforeFinalized` without it. The latter
  covers reports in any pieces: outside the startup pass no job still printing is
  handed to a finalizer, and the pass does so only when misled by its view. It rests
  on `PiecesInv`: the view may put one job's state beside another's name, but the
  open session, until its job is over, is the printer's own job, which nothing
  reported since calls ended or another. For the others the argument is how
  old the view may be. It names a job that has started and calls it ended only when
  it is (`ViewInv`); a directory belongs to a job that has run (`StagingInv`); when
  the startup pass looks at the disk, the one job there that is not over is the one
  the view names (`StartupInv`); and once a finalizer has a job, the view does not
  call it printing again (`EndedInv`). For the refinement, `Phase` is the mapping:
  each action opens, settles or ends one job of `Recording`, or is a stutter.
* **Capture**: `FramesWhole`, `LayersHonest`, `FootageKept`, `OverlayNeverPanics`,
  `TypeCorrect`, `CaptionsAreHonest`, `VideoIsWhatWasCounted`, `OneFramePerLayer`.
  The argument is where a
  grab writes: the frame after the last one the session in memory counts
  (`GrabAhead`), and `state.json` never counts more than memory (`SavedBehind`), so
  neither a crash nor a failed save nor a late grab touches a counted file.
  `OverlayNeverPanics` is for worlds without `slow`; `capture_late` shows that it
  cannot do without. What a picture shows: no picture is of a layer the printer has
  yet to reach (`PicturesSoFar`), so a grab's picture is at or past the layer that
  asked for it (`GrabWrote`), and, unless reports lag, every picture already there is
  at or before the layer that asks for the next (`GrabAfter`). Captions: the lines a
  finalizer carries are the first of the session's layers, which has one for each
  frame (`LinesTell`), whatever a grab it did not wait for counts meanwhile; and
  while saves succeed the only file past the count is the next one, whose picture no
  layer in the list is ahead of (`Strays`, which rests on `Filmed`). The
  video: in a process that never restarted, the only file beyond the count is the
  one of the grab in flight (`NoStray`). One frame per layer: every layer filmed is
  below the one in flight and at most the last one noted, and while saves succeed
  `state.json` says the same as memory (`Filmed`). That the encoder's footage, the
  frames up to the first gap, is defined takes a least element (`LeastNatural`,
  from the library's well-foundedness of the naturals).
* **Delivery**: `TypeCorrect`, `HandsSeparate`, `CopiesAccounted`, `NothingLost`,
  `RefusedNotPosted`.
  `Hands` says who may be at work on a directory in which place. On it rest `Owed`
  (a job still to be posted owes the destination no copy), `Told` (whoever is
  about to delete has been told of a copy) and `Resting` (a refused video is parked
  or about to be, and not in the queue the retry read at startup).
* **Encode**: `DecorationIsFree` (for builds with concat), `ToldTheTruth`,
  `TypeCorrect`. The
  invariants carry what preflight's choice means hours later: a tail that is left
  on has tpad, the options ask for no more than the configuration, and the preview
  the options saw is the one that is there. `HeldSeconds` is the arithmetic: whole
  seconds held at an end commute with the division by the frame rate.
* **Process**: `ExitAbandonsNothing`, `TypeCorrect`. A finalizer is started only
  while the client is connected, main is then in `Run`, and `Run` leaves through its
  drain (`RunInv`); a timed capture's directory is staged exactly while its loop
  runs (`TimedInv`). The counts of pending handlers are bounded by the number of
  lost connections (`ConnInv`).
* **Preview**: `RepliesInStep`, `FailsForAReason`, `PreviewOfThePrint`,
  `TypeCorrect`. `Wire` is the whole protocol between Fetch and the server: what is
  on its way in each direction, and the state of the data channel, at each point of
  a transfer. One command is out at a time and its answer is read before the next,
  so replies cannot be taken for each other, and a wait that nothing would end is
  one for a server gone silent. `Gathers` and `Outcome` add what the listings have
  yielded and with what Fetch comes away. The choice itself is a chain of lemmas on
  the operators: a list entry mirrors the 3mf it stands for (`Mirrors`), the only
  one with the job's title is chosen (`OwnIsChosen`), and the render of the plate is
  taken when there is one (`RenderIsThere`). `debug`'s listing needs only that it
  keeps no render.

Only model-checked: the liveness properties (`Settles` of `Service` and of
`Capture`, `Finishes`, `Stops` of `Delivery` and of `Process`, `DeafIsUnhealthy`,
`HealthReturns`, `Ends`), as the prover handles neither fairness nor ENABLED.
What a definition computes by recursion for every input is not proved either;
nothing above needs it, because the model picks first elements with CHOOSE over
index sets (`First`, `Footage`) instead of folding over a sequence.

## 6. Not modelled

Text (captions, file names, the filtergraph's syntax, what `debug` prints),
geometry, codec settings, temperatures and metrics: no property tells them apart.
`sanitize`: two task ids that map to one directory name are not distinguished. The
data race between `fetchPreview` reading the telemetry map and the callback writing
it: `Preview!ViewMoves` lets the view change before the read, but not during it.
Multipart encoding of the upload, the zip format, TLS below the handshake's outcome.
Parsing and defaults of the configuration, one sequential pass whose results are the
modules' constants. The printer probe, which only logs, and the version command.

## 7. Plan

1. Done: `Report`, `Telemetry`, `Service` with `Recording`, `Capture`, `Delivery`,
   `Encode`, `Connection` and `Process` (reconnects, health, timed capture, debug,
   exit), `Preview` (the fetch and the FTPS exchange), their runs, and proofs of all
   their invariants and action properties.
2. A composition of `Service` and `Capture` for two jobs whose grab and finalizer
   overlap (the `capturing` flag is the process's, not the session's).
3. An abstract specification of delivery (at least once, then deleted) and the proof
   that `Delivery` implements it.
