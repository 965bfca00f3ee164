# A TLA+ model of the Datadog continuous profiler for PHP

This directory models dd-prof-php, a Zend extension that samples the PHP stack
every 10 ms, aggregates the samples in a thread of its own and uploads a profile
every 67 seconds. It holds TLA+ modules translated from the C sources, TLC
configurations that model-check them on small instances, and theorems that TLAPS
proves for every value of the constants.

`PROJECT.json` lists the parts, the runs, the mutants of the code each property
is tried on, the source lines behind each definition, and the hazards.

## 1. The system

### Components

| component | state it keeps | operations | module |
| --- | --- | --- | --- |
| queue | size, head, tail, a borrowed array | `try_push`, `try_pop` | `RingQueue` |
| channel | queue, two reference counts, mutex, condition variable | `recv`, `send`, `clone`, two destructors | `Channel` |
| recorder plugin | `recorder_enabled`, the channel, thread id, exporter; in the thread: profile, sample count, period | first activation, `record`, main loop, `diagnose`, shutdown | `Recorder` |
| stack collector plugin | `enabled`, `have_thread`, per thread: `interrupt_count`, loop, timer, async, `last_event_at`, sample | activate, deactivate, timer callback, interrupt hook | `CollectorPlugin` |
| stack sample | depth, offsets, lengths and a 6400-byte buffer | constructor, `try_add`, iterator | `StackSample` |
| stack collector | none (a walk over call frames) | `datadog_php_stack_collect` | `StackCollector` |
| once | a flag and a mutex | constructor, call, destructor | `Once` |
| life cycle (`datadog-profiling.c`) | statics re-initialised at startup, and statics that are not | startup, first activation, activate, deactivate, shutdown, in any number of lives | `Profiler`, `Activation` |
| arena | offset, capacity, start | new, alloc, alloc_str, reset | `Arena` |
| env, config | copies of the settings, the configuration | getenvs, config_ctor | `Activation` |
| log, log plugin | level, a duplicated descriptor, a mutex | log, first activate, shutdown | `Log`, `Profiler` |
| uuid, sapi, string view, clocks, context | values | conversions | not modelled |

### How they interact

Three threads matter. The **PHP thread** executes requests; the **timer thread**
lives for one request; the **recorder thread** lives from the first request to
module shutdown.

1. The timer thread increments `interrupt_count` and, on the step from zero,
   sets the engine's `vm_interrupt`.
2. The PHP thread sees `vm_interrupt`, takes the count with an atomic exchange,
   walks its own stack into a sample and calls `record`.
3. `record` copies the sample into a malloc'ed message and sends its address
   through the channel; when the queue is full it frees the message.
4. The recorder thread receives messages, adds them to the profile, frees them,
   and at the end of the period uploads and resets the profile.
5. The first request of a life reads the settings inside a once: copies of the
   environment go into an arena, the configuration is made of the copies, and
   the plugins start. Every request calls the once.
6. All three threads log through one logger, over a duplicate of stderr that
   first activation makes and shutdown closes.
7. Shutdown clears the flag, sends an empty message, destructs the sender, joins
   the thread and deletes the exporter; then the logger is closed. After an
   Apache reload the process starts up again, with what is in static storage.

### What is hard

- two threads share the counter and the flag without a lock, and the engine and
  other extensions write the flag too;
- a timed wait with spurious wake-ups, and a deadline that races an item;
- two handles destructed by two threads, the last of which frees the memory;
- start-up in three steps that each may fail, and a thread that runs before the
  flag it tests is set;
- shutdown while the recorder waits, aggregates or uploads, on a full or an
  empty queue;
- a flag that is read without the mutex that protects the routine behind it;
- memory that runs out at any look-up of a setting, in 32-bit arithmetic;
- statics of one life of the process that the next one finds;
- a line of log in several writes, each partial, interrupted or failing, next to
  two other threads' lines, and a logger that is closed while threads end;
- an add that fails halfway and must leave the frames already stored readable.

What would make each part correct is stated next to the runs in section 3; the
full list of hazards, with their lines, is in `PROJECT.json`.

## 2. The modules

Every module names the code's variables as the code does. An action is what runs
between two points where another thread can interfere: a critical section, an
access to a shared variable, or a piece of one thread's private work.
Operators under a comment `Bug variant` are not part of any specification: each
one is a plausible mistake in the definition that follows it, used to see that
the properties notice it.

**`RingQueue`** has the three counters and the slots of `queue.c`; each call is
one step because the owner holds the channel's mutex. `item_ref` is the variable
the caller passes to `try_pop`. It implements **`Fifo`**, a sequence, under the
mapping `Contents` (the live slots, oldest first).

**`Channel`** has the two reference counters, which count modulo `CountMod`
(2^32 in the code), and a state for each handle. A receive that waits is several
steps: the failed attempt, the sleep (`waiting`), the wake-up (`woken`: by
`Send`, by the deadline or spuriously) and the body of the loop. `SenderDtor`
and `ReceiverDtor` decide under the mutex and `ChannelDtor` frees after the
unlock. The queue in it is a sequence, which `RingQueue` is proved to implement.
It implements **`Mailbox`**: items, open handles and storage, no counters.

**`Recorder`** is one life of the process: `php` is where first activation or
shutdown is, `recorder` where the recorder thread is, `worker` what PHP threads
do. The channel is an instance of `Channel` with one sender, so that its critical
sections interleave with everything else. Messages are addresses: `heap` holds
those that are allocated, and malloc may return a freed one at once. The calls
that may fail are the constant `Faults`. It implements **`SamplePipeline`**:
samples accepted, pending and in
the profile.

The worker is the PHP thread; thread-safe builds of PHP are not supported by the
project (its README says so), so the run has one. `record` and the channel are
written for several callers, and the module for any set of them.

**`CollectorPlugin`** is the timer thread, the PHP thread and the engine. The
callback is two steps (`Tick` and `SetFlag`), the engine clears the flag in one
(`EngineInterrupt`) and the hook takes the counter in another (`HookTakes`).
`ticks`, `handled` and `last_sample_at` are history: they record what happened
and no guard but the bound on `ticks` reads them. The clock is counted in ticks.

**`StackSample`** is the struct with its arrays and its buffer. A string is a
text and a length, a character a text and a position. `TryAddNoFile` is the
partial failure: function stored, file refused. It implements **`FrameList`**:
a list of frames read back as they were added.

**`Once`** has one step for each access to the flag and to the mutex, for any set
of callers, and the constructor and destructor of each life. It implements
**`OncePromise`**: `due`, `running`, `run`, and nobody returns before `run`.
`Routine` is one step; a module that composes `Once` puts its own before it.

**`Arena`** is `arena.c` in integers that count modulo `Word` (2^32 in the code)
where the code uses `uint32_t`. `blocks` is history: what was handed out since
the arena was made or reset, in order, with what its user will write to it; it
is a sequence, so that one block handed out twice is two that overlap. It has no
next-state relation of its own in a run (`ArenaSpec`, with `reset`, is for the
proof): `Activation` uses its actions.

**`Activation`** composes `Once` and `Arena` with `env.c` and `config.c`: the
routine of `first_activate_once`, split at each look-up, run by whichever caller
is inside the once, in each life. `environ` is history: what the look-ups found.
`MCActivation` lists a few texts for each variable and blocks of memory.

**`Log`** is the logger: the mutex, the level filter, and `durable_write` as one
step for each `write(2)`, which may be partial, be interrupted or fail. `sent` is
history: the bytes that reached stderr since the mutex was taken, each told by
its place (whose message, which part, which byte of it). **`Profiler`**
composes it with the life cycle: `php` is where the PHP thread is in startup,
first activation, a request or shutdown, and each plugin is there with the
threads and resources it starts and ends. The once is the abstract one, what
goes through the recorder is in `Recorder`, the counter in `CollectorPlugin`. It
implements **`ProfilerLife`**: in each life one decision, after that life's
settings, threads that this life started and that end with it.

**`StackCollector`** is the loop of `datadog_php_stack_collect`, one iteration a
step, with `StackSample` instantiated for the sample it fills. The properties
number the frames that are not skipped: `Rank(p)` of them are above frame `p`,
which is the depth at which it has to be in the sample. `MCStackCollector` lists
the sorts of call frames.

## 3. The runs

### Runs that pass

- `ring_queue` (3 slots, 3 pointers): the indices agree and `Fifo` is
  implemented. That live slots were written follows for every capacity from the
  proof and has no run. Three slots are the fewest at which head, tail
  and a slot between them are distinct; every starting slot is reached at every
  fill level.
- `channel` (3 sender handles, 2 slots, 2 items): counters exact, no use after
  free, one destroyer, no lost wake-up, `Mailbox` implemented. A signal alone
  gets an item to a waiting receiver, the clock may stand still
  (`ItemWakesReceiver`); with a running clock every receive returns
  (`RecvReturns`). Two slots give full, empty and in between; three handles give
  a clone of a clone.
- `recorder` (the PHP thread, 2 slots, 5 addresses, all five failures): each
  allocated message has one owner; at most `Capacity` + workers + 1 of them
  exist, one for each slot, one with each PHP thread and one with the recorder
  (five addresses are one more than that, so that the bound could be exceeded);
  the recorder's uploads find a live exporter, whatever shutdown does (those of
  phpinfo do because the PHP thread that runs them also runs shutdown); nobody
  uses a channel it closed; no sample in two profiles; no spinning on an empty queue; `SamplePipeline` implemented;
  shutdown ends although the clock may stand still; with a running clock a
  period with samples ends in an upload even when a receive never has to wait.
  `MaxSamples` caps two counters that the code only compares with zero.
- `collector` (4 ticks in a request, any number of requests, every set-up call
  may fail): no lost interrupt, every tick counted once, the timer thread gone
  between requests, deactivation ends, ticks become samples. Four ticks give a
  counter of several values at any of the hook's steps, and a tick before,
  during and after a hook.
- `activation` (two callers, any number of lives, integers modulo 128, blocks of
  15, 48, 72 and 127 bytes at an aligned and an odd address): blocks are aligned,
  long enough and disjoint; whoever returns from the once finds the routine done
  and every copy as the look-up found it, with a configuration made of them, or a
  profiler that is off; `OncePromise` is implemented in the composition; nobody
  waits on the once for ever. 15 bytes have no room for the
  arena itself; 48, 72 and 127 bytes run out at every one of the look-ups and at
  the endpoint, which the covered actions show. Two callers give one inside the
  routine and one at each of the places before and after it. `MaskIsRemainder`
  compares the bit mask of `align_diff` with the remainder in the model, for
  addresses of eight bits.
- `profiler` (the three threads, any number of lives, messages of one part, of
  two, and with an empty part, 3 tries): the bytes on stderr are those the writer
  counts as written, each once, in the order of the message, and nobody else's;
  nobody is in the logger when it is closed and the exporter is deleted
  once; `ProfilerLife` is implemented although statics survive a reload. Two
  bytes in a part give a partial write; three tries give one that fails, one
  that succeeds after it, and giving up.
- `stack_sample` (2 frames deep, 6 bytes, strings of 0 to 2 characters): strings
  stay terminated and `FrameList` is implemented. The buffer fills before, at
  and after the depth limit.
- `stack_collector` (chains of up to 3 frames of 8 sorts): the sample is the top
  of the stack, and only want of room ends it early. This answers the `todo` at
  `stack-collector.c:90`: the sample is valid after a failed `try_add`.

Deadlock is checked where the system cannot stop. `CHECK_DEADLOCK FALSE` is said
where it can: a channel whose handles are gone, a process that is shut down.

### Runs that end in a violation

Four runs show the code departing from what the repository says of it; each
quote and line is under `findings`.

| run | what happens |
| --- | --- |
| `recorder_start` | the recorder thread reads the flag before it is set, ends, and samples pile up until the channel is full |
| `recorder_release` | the exporter cannot be created: neither handle of the channel is destructed |
| `recorder_leak` | messages in the queue at shutdown are never freed |
| `collector_wall_time` | a dropped stack takes its share of the wall time with it |

Departures without a run, because they are a matter of one line, or of a
function that nothing in `src/` calls:

- A thread that cannot create its profile leaves the receiver open (the fault
  `"profile"` breaks `ChannelReleased` and `EnabledMeansOnline` too).
- A sample that could not be aggregated still counts, so that an empty profile
  may be uploaded against the comment at `recorder_plugin.c:470`.
- `sender_clone` never refuses, against `channel.h:38-39`.
- `datadog_php_log_level_set` stores an unknown level that `log.h:83` says is
  ignored.
- After a failed write `logv` returns fewer bytes than it wrote (`log.h:74`).
- `arena_alloc` does not refuse alignments that are no power of two, which
  `arena.h:85-87` allows it to.
- When the arena is full the endpoint becomes the default without a word
  (`config.c:49`); `SettingsKept` says that nothing else does.
- The statics of the recorder and of the collector are not initialised at
  startup as the comment at `datadog-profiling.c:36-41` asks; `ImplementsLife`
  shows that it does no harm.
- `dup` may return 0 when stdin is closed, and the test at `log_plugin.c:60`
  then leaves that descriptor open.

## 4. Fairness

- `Channel!ThreadsSpec`: a thread that can run does (`RecvResume`,
  `ChannelDtor`). A mutex is held for a few instructions only.
- `Recorder!ThreadsSpec`: the recorder thread runs (its upload has a timeout of
  10 s) and a shutdown that began goes on. Requests need not end, and nothing
  makes a PHP thread take a sample.
- Neither assumes anything of the clock. The two properties that need it say so:
  `ClockRuns => ...`, where `ClockRuns` is that deadlines are reached and a wait
  that timed out ends.
- `CollectorPlugin!FairSpec`: both threads run, libuv delivers the async, and an
  engine that executes PHP keeps looking at `vm_interrupt`. Nothing makes a
  request end or the timer fire.
- `Activation!FairSpec`: the routine and the callers inside the once run.
  Nothing makes a request begin or end, nor the process start or stop.
- `Profiler` and `StackSample` are safety only: `Spec` states no fairness.

All of it is weak fairness: no thread depends on a condition that comes and goes.

## 5. What is proved

Checked by TLAPS for every value of the constants, under the assumptions the
modules declare.

- `RingInvariant`, `RingImplementsFifo` (`RingQueueProofs`). The invariant is
  inductive because it ties head to tail and size: `head = Slot(tail, size)`.
  Without it a push could not be shown to write just behind the last live slot.
  The refinement follows from three lemmas: what a push, a pop and a refusal do
  to `Contents`.
- `ChannelInvariant`, `ChannelImplementsMailbox` (`ChannelProofs`), for any
  number of sender handles that the counter has room for (`CountsFit`: the code
  does not check it, and no process has room for 2^32 handles). The counters being exact is what
  makes "both are zero" mean "no handle is open"; from that follow the single
  destroyer and the lifetime of the memory.
- `SamplerInvariant` (`CollectorPluginProofs`), for any number of ticks and any
  set of failing calls. `NoLostInterrupt` is inductive only with its companions:
  the timer thread is between its two steps only if it set the counter off from
  zero, and only while the request's loop is running.

- `OnceInvariant`, `OnceImplementsPromise` (`ActivationProofs`), for any set of
  callers. Mutual exclusion alone is not inductive: the flag must also tell
  where the caller in the critical section is (`FlagTells`), so that it is down
  until the routine has run and nobody returns before.
- `ArenaSound` (`ActivationProofs`), for every width, block and sequence of requests.
  The invariant is that of a bump allocator: what was handed out ends at or
  below the offset. The sum in `uint32_t` at `arena.c:112` is never cut off,
  because the 16-byte header in the block is as long as the greatest alignment
  (`AlignedNotCutOff`).
- `SettingsAreKept`, `ActivationArenaSound`, `ActivationImplementsPromise`,
  `ActivationKeepsTypes` (`ActivationProofs`), for any values of the settings,
  any block of memory and any set of callers. Steps of the routine leave the once
  alone and those of the once leave the routine alone (`OnceSteps`), so that the
  composition keeps both invariants above; a step of the routine does to the
  arena what one operation of it does. What is new ties them: whoever is past the
  routine finds it done (`RoutineTells`), the copies made so far are those of the
  texts found (`CopiesMade`), and the configuration was made of all of them
  (`ConfigTells`). Assumed of the constants: lengths of settings are sizes the
  arena may be asked for (`ValuesAssumption`, `DefaultsAssumption`).
- `NothingIsUsedAfterItsEnd`, `ProfilerImplementsLife` (`ProfilerProofs`), for
  every set of messages and levels. The threads are the three that exist
  (`ThreadsAssumption`). Companions: what the statics say in each phase
  (`StaticsTell`), what the decision was (`DecisionTold`), and that only a thread
  that lives is in a logger that is there (`LoggerHeld`, `LoggerThere`).
- `LinesStayIntact`, `ProfilerKeepsTypes` (`ProfilerProofs`), for messages of any
  number and length of parts and any number of tries. `LinesIntact` is inductive
  with what the mutex means: it is held exactly by the thread between lock and
  unlock (`HolderTold`). So the line belongs to one thread at every step, and only
  two steps concern it: bytes that are written follow all that were (`MoreBytes`),
  and going on to the next part changes what is counted as written in name only
  (`NextPartInv`), because the part before it is complete.
- `StringsStayTerminated`, `SampleImplementsFrameList` (`StackSampleProofs`), for
  every depth, buffer and set of strings. A string is terminated by a zero that
  nobody wrote, so the invariant says that the buffer is zero beyond the
  strings, and at position 0, where empty strings point. That a failed add
  disturbs nothing follows from three lemmas: a copy stores its string, keeps
  what lies below it, and so keeps every frame.
- `SampleIsTopOfStack`, `WalkEndsForRoomOnly`, `WalkKeepsTypes`
  (`StackCollectorProofs`), for call chains of any length, any call frames, and
  every depth and buffer. The invariant of `StackSample` is cited through an
  instance of its proofs. Companions (`WalkOK`): what is left of the chain is its
  end, and the depth is the number of frames seen and not skipped. An add puts the
  frame of rank `depth` at `depth` and keeps those below it; a frame that finds no
  room has rank `depth` itself, which makes it the witness of `NothingLeftOut`.
- `ExporterStaysLive`, `ChannelStaysThere`, `ProfilesAreDisjoint`,
  `EveryMessageHasOneOwner`, `MemoryIsBounded`, `RecorderNeverSpins`,
  `RecorderImplementsPipeline` (`RecorderProofs`), for any number of PHP threads,
  any set of addresses and any capacity. One invariant carries them: the
  channel's (with one sender), what first activation and shutdown have made so
  far (`PhasesOK`), what the recorder thread does with its handle (`ThreadOK`),
  what is in the profile (`ProfileOK`), and that a message is allocated exactly
  when one place holds it (`OwnersOK`). The bound maps each message to the place
  that holds it; the refinement counts the messages among what is queued, with
  the empty message of shutdown not counted.

Only model-checked: the liveness properties (`ItemWakesReceiver`, `RecvReturns`,
`ShutdownEnds`, `SamplesUploaded`, `DeactivateEnds`, `TicksSampled`,
`CallersReturn`), since fairness and ENABLED are out of the prover's reach. Every
other property of a passing run is a theorem. No module here has a RECURSIVE
operator; where an argument would need induction over a chain or a message, the
definitions use sets and cardinalities instead (`Rank`, `Written`).

## 6. What is not modelled

- The contents of a profile and of an HTTP request, log texts, phpinfo output;
  the parsing of `DD_TAGS`, which libddprof does.
- The CPU clock. It adds a value to each sample and changes no control flow
  after first activation.
- uuid, sapi, string view, clocks and context: conversions of values without
  state of their own.
- The hooks that are chained at startup and the look-up of the tracer's symbols.
- Thread-safe builds of PHP, which the project does not support; `enabled` and
  its kin are one copy for that reason.
- fork: the code does not handle it.
- `snprintf` failing.
- libuv or pthread functions failing to join.

Two leaks that no document speaks of are steps of the model, and no run states
that they do not happen: when `uv_timer_start` or
`uv_async_init` fails, the initialised timer handle makes `uv_loop_close`
refuse (`stack_collector_plugin.c:240-245`), and when `pthread_create` fails
the loop is never closed (282-302).

The comment at `recorder_plugin.c:505` says the join would deadlock were the
sender not destructed first. In the model the empty message already wakes the
receiver when the queue is empty, and a full queue keeps it awake.

## 7. Plan

Order: what carries samples first, then the frame around it.

1. Done: `RingQueue`, `Channel`, `Recorder`, `CollectorPlugin`, `StackSample`,
   `StackCollector`, their abstractions and the proofs above.
2. Done: the frame around it. `Once`, `Arena`, `Activation`, `Log`, `Profiler`,
   and the proofs about them.
3. Done: proofs about `Recorder`, `StackSample` and `StackCollector`; the settings
   (`SettingsKept`) and the lines of log (`LinesIntact`).
4. Left: the queue of `Channel` replaced by `RingQueue` itself in a refinement, as
   a theorem of their composition; uuid as operators, checked on bounded inputs.
