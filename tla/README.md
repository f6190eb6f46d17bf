# Verification of the BMP280 SPI driver and its web server

TLA+ models of `td3_spi_driver`: a Linux driver for the McSPI channel of a
BeagleBone Black (`src/driver`) and a web server that measures temperatures
through it and shows them (`src/webserver`, `inc`). TLC checks the models on
small instances, TLAPS proves the main properties for all values of the
constants. Paths below are relative to the repository.

## The system

| Component | State it keeps | Operations | Talks to |
| --- | --- | --- | --- |
| SPI device, `spi_driver.c` 66-317 | `dev` (buffers, positions, mutex), `index_tx`, `index_rx`, channel registers, chip-select GPIO | `open`, `read`, `write`, `release`, interrupt handler | processes that open `/dev/spi_td3`, the McSPI hardware |
| Module life cycle, `spi_driver.c` 325-525 | what was registered with the kernel | `init`, `probe`, `remove`, `exit` | kernel, device tree |
| Driver process, `driver_handler.c` | the last measurement | measure, store, post | SPI device; shared segment and semaphores |
| Plot process, `plot_handler.c` 111-161 | its context, moving average, line count | wait, load, append a line, take a new configuration | shared segment, `./sup/data.dat`, pipe |
| Accept loop, `webserver.c` 371-447 | `g_number_of_threads`, `args_client`, `sock_client` | `accept`, count, reject or create a thread | clients, client threads |
| Client threads, `webserver.c` 162-225 | their socket | read, plot, respond or refuse, close, count down | clients, `data.dat`, `data.png`, gnuplot |
| Configuration process, `webserver.c` 467-493 | `flag_sigusr1`, its `config_file_t` | parse `./sup/file.cfg`, write it to the pipe | operator (SIGUSR1), plot process |
| Configuration parser, `functions.c` 304-370 | fields of the caller's structure | `read_config_file` | configuration process and `main` |
| BMP280 access, `bmp_280.c` | - | read and write registers, compensate | SPI device |
| Moving average, `plot_handler.c` 66-80, 125-155 | `moving_average`, `nread` | fold a sample in | plot process |
| Base64 and image, `functions.c` 373-462, `plot_handler.c` 24-63 | `./sup/data.png` | run gnuplot, encode | client threads, gnuplot |
| Process tree and start-up, `functions.c` 76-125, `webserver.c` 25-81, 236-365 | child identifiers, segment, semaphore set, listening socket | set up, fork, `PR_SET_PDEATHSIG`, SIGCHLD, SIGINT | all processes |

What is hard about them:

- *Concurrency.* Two processes on a shared cell; several processes and an
  interrupt handler on one `dev`; `main` and unlocked threads on one counter,
  one `args_client`, one descriptor table and one image file; a child between
  its `fork` and its `prctl`; two starts of the server on one segment.
- *Failure.* Almost every failed system call ends its process; semaphore
  operations are not undone at exit; kernel error paths free or unregister what
  is used later.
- *Signals.* They interrupt `semop`, `poll` and the waits of the driver, and a
  SIGUSR1 can fall into a window where it is lost.
- *Waiting.* For samples, for interrupts, for clients that send nothing, for
  room in a pipe.

What makes each part correct: the cell has one user at a time and a reader gets
the newest sample, once per sample; the device has one user, its buffers are
allocated while used, the chip select follows the transfer; unloading gives
back what loading took, once; the counter counts and limits the threads, each
thread has its client's socket and each request ends; a picture is whole and as
new as the temperature above it; a requested configuration is applied, and
parsed as it is written; a temperature fits its integers and the average stays
within what was measured; a start that can not listen ends with its processes.

## Modules

| Module | What it is |
| --- | --- |
| `SampleChannel` | abstract specification: a cell with the newest sample and at most one read per sample |
| `SamplePipeline` | driver process, semaphores, segment, plot process, `data.dat` and the client threads that show its last line; implements `SampleChannel` |
| `SpiDriver` | the device's operations, called by any processes, with the handler and the channel |
| `DriverLifecycle` | init, probe and exit with every failure, over any number of loads |
| `ConnectionServer` | accept loop, client threads, descriptor table, peers |
| `ConfigReload` | configuration process, pipe, context of the plot process |
| `ProcessTree` | `main` of every start of the server, its children, the port, the semaphore sets |
| `ConfigParser` | `read_config_file`, in `main` and in the configuration process |
| `Measurement` | compensation, choice of the window, moving average |
| `PlotImage` | client threads, their gnuplots, `data.png`, base64 |
| `MC...` | instances for TLC: the constants are in the `.cfg` files, symmetry where it is used in the module |
| `...Proofs` | theorems about the module of that name; `ConfigProofs` those about `ConfigReload` and `ConfigParser` |

Correspondence with the code:

- **`SamplePipeline`.** `pc` is the position in the two loops, one label per
  `semop`, access to the segment or write to the file. `Exit` is the
  `exit(EXIT_FAILURE)` of `sem_take`, `sem_give`, `poll` and `fopen`;
  `Interrupted` is EINTR where the process really blocks, because SA_RESTART
  does not restart `semop` and `poll`; `Killed` is `make kill` or the parent's
  death. A sample is its number: a line that repeats or invents one shows. A
  client thread takes the last line (`get_last_temp`), waits for its client, and
  shows it or not (`send_response_data`, `ThreadError`): what it shows may be
  old by then, and `floor` notes what had been shown to anybody when it took the
  line. The moving average of a line is abstracted to the newest sample in it;
  `Measurement` has the average.
- **`SpiDriver`.** One action per stretch of kernel code between two points
  where others interfere. `Lock` waits for the mutex; `LockInterrupted` is the
  error its unsigned `rv` hides. The waits are guards on `index_tx` and
  `index_rx` or a pending signal. `kfree` and `Touch` record use of a block that
  is not allocated. `incidents` is history: overlapping opens, failed `kmalloc`,
  faults, interrupted opens and writes. The handler branches on `dev.irqstatus`
  as the code does.
- **`DriverLifecycle`.** `held` is what the kernel has recorded for the module;
  each error path releases exactly what the code releases, and `misuse` notes a
  release of what is not held. `Exit` calls remove for a bound device only.
- **`ConnectionServer`.** `++` and `--` of the counter are a load and a store
  (the Makefile builds without optimisation). `fd` is the descriptor table with
  the kernel's lowest-free rule, so that a closed number comes back for another
  connection; `source` fixes what `read` waits on when it is called. A GET
  leaves `"png"` behind (`send_response_data` opens `data.png` and never closes
  that descriptor). `Die` is `exit` in a thread, a fault on a null pointer or
  SIGPIPE: it ends the whole server. A request is its method, or `"blank"` when
  `strtok` finds none in it and `strcasecmp` reads a null pointer (`ReadBlank`).
- **`ConfigReload`.** A version is a content of the file; `Message` is the
  fields that fit into the `2 * sizeof` of a pointer both ends agree on.
  `ReadConfigFails` and `update_ctx_fails` are the `exit`s of either end, `End`
  its being killed. `main` keeps the pipe open, so that the configuration
  process blocks and gets no SIGPIPE once the plot process is gone. `ppc` is the
  round of the plot process: a message or the time-out of `poll`, then the wait
  for a sample, during which it reads nothing.
- **`ProcessTree`.** `parent` is where `main` of each start is; a child is
  `"forked"` until its `prctl`, `"bound"` after it, and an `"orphan"` if the
  call came too late. All starts attach to the segment of one key, each makes a
  semaphore set of its own. `"unbound"` is a server whose `web_server_init`
  failed and went unnoticed: it returns 1 and `main` looks for -1. Without a
  socket `sock_fd` is the unsigned -1 and `FD_SET` of it faults (`SocketFails`).
  `SIGINT_handler` kills the process group, because the identifiers it uses are
  0 in its file. A child that dies leaves `main` as it is (SA_NOCLDWAIT).
- **`ConfigParser`.** A line is its layout (blanks before the name, `=`, blanks
  after it, digits), because what `fgets` with a buffer of 20, `strtok` and
  `strstr` make of it depends on nothing else. `Numbers` is `strtol` digit by
  digit. The rest of a long line is a further chunk that names no field.
  `ParseLineFaults` is `strtol` of a null token plus one. The fields are
  uninitialised at first and kept between reads; `settings` is the context of
  `main`, with the defaults until `UpdateContext` copies all fields over them.
- **`Measurement`.** `read_bmp280_temp` is what the code returns, 0 or 1; the
  model admits all readings that contain these, so that it also speaks of a
  reader that assigned its result. Shifts are divisions rounded down, the
  average an exact fraction, `NotFinite` a quotient by zero or a start that was
  no number. `Reload` changes the window only where the message has it.
- **`PlotImage`.** A GET is the last line, `popen`, `pclose`, `stat` and the
  response. `pclose` waits for gnuplot to close its standard input although
  SA_NOCLDWAIT makes it return an error. gnuplot truncates, loads the data and
  writes the picture in two parts, so that two of them can mix in the file. The
  response carries the picture (`Respond`), or none when `get_base64_plot` could
  not open the file or allocate (`RespondWithout`). base64 is the code's
  arithmetic; the reference, `Decodes`, goes from the characters back to the
  bytes.

## Runs

| Run | Question and answer | Bounds |
| --- | --- | --- |
| `sample_pipeline` | mutual exclusion, no exit with the mutex, fresh lines, nothing older for later clients, refinement of `SampleChannel`, liveness: hold | SEMVMX 2, 3 samples: SEM_FULL reaches its limit and the driver process exits; each loop goes round three times. 2 clients, each with one thread after another: one waits while the other is answered and taken up again |
| `spi_driver` | one user, heap, leaks, chip select: hold outside the named incidents | 2 processes, 4 blocks: two overlapping opens have all the buffers they can ask for, and a fifth allocation fails |
| `spi_driver_read_waits` | does a read come back? no: nothing counts the words | 1 process, fair |
| `driver_lifecycle` | clean unload, no double release, device stays under an open file: hold outside the named failures | 2 users; the loads repeat without bound |
| `connection_server` | exact count, limit, ownership and leaks of sockets: hold outside the named incidents | 3 connections, `max_conn` 2, 2 descriptors: a third connection is rejected, reuses a number or fails in `accept` |
| `connection_server_clients` | ownership with leaked image files, every request ends: hold | 2 connections served together, 4 descriptors: a GET completes, a second one runs out of them |
| `one_thread_per_client` | does a thread serve the client it was created for? no: `args_client` is overwritten | 2 connections |
| `config_reload` | what was asked for is in the pipe or the context when the configuration process waits, and is applied as long as samples arrive and both processes live: holds outside the window | 3 edits, a pipe of 2 messages: it fills |
| `process_tree` | one semaphore set on the segment, a start that can not bind ends: hold, orphans and starts beside a running server excepted | 2 starts, any process dying at any step |
| `config_parser` | the fields a file names in lines that fit are parsed as written, and it does not crash; no field is ever larger than written: hold | the file of the repository, an empty one, 11 unusual lines alone and before another one, read again until 4 lines |
| `measurement` | the average stays in the range measured and is the mean while the window fills: hold without a window of zero or a start that is no number | 4 rounds, 5 readings from 0 to the largest, windows 0 to 3, 8-byte pointers, with which a reload reaches the window |
| `plot_image` | a response with a picture has a whole one as new as its temperature: holds unless gnuplots of two threads overlap or one fails | 2 threads, 3 lines, pictures of all lengths modulo three, a buffer of 4 bytes that one of them overruns |

The bound on samples and edits stops the environment, not the code. Three
connections are enough because the loop is sequential and an interleaving that
goes wrong needs the loop, a thread whose arguments or socket are taken and one
thread that takes them; the counter's word is 8 instead of 2^32 and is reached
by wrapping below zero. Two starts show all that a third would meet, an orphan
and a running server; two threads are enough for one image file, since a third
gnuplot only repeats what a second does to it. Four lines are the whole file of
the repository, or two lines and two others on top of what they left. Deadlock
is not checked where the system may stop: all processes killed, a server without
clients, a kernel oops.

*Fairness.* The scheduler runs every process, so its own steps are weakly fair.
The steps that take a mutex others also take are strongly fair: the kernel
completes the `semop` and the `mutex_lock` that waits longest. In `ConfigReload`
the configuration process and the poll of the plot process, which times out, are
weakly fair; its wait for a sample is not, because the driver process may hang
in the device (`spi_driver_read_waits`) or exit. That samples arrive is the
antecedent of `RequestApplied` instead. Measuring, peers, signals, faults,
kills, edits and failing calls owe nothing. In `ProcessTree` `main` and the
`prctl` of a child are weakly fair, and nothing else.

## Findings

Two runs are expected to find a violation:

- `spi_driver_read_waits`: the handler branches on a field nobody sets
  (`spi_driver.c` 70), so the wait of a `read` ends with a signal only;
- `one_thread_per_client`: `args_client` is overwritten before the thread of the
  first connection reads it (`webserver.c` 418), although a thread "handles the
  client conection" (157).

## Divergences seen and not run

Each follows from the actions of the models and needs no run of its own:

In the driver:

- an interrupted `read` of the device continues as if complete, because `rv` is
  unsigned (`spi_driver.c` 164, 172; action `ReadWaitTx`);
- for the same reason an interrupted `open` returns without the mutex (289-296;
  `LockInterrupted`);
- `spi_driver_init` returns the positive `EFAULT` and stays loaded without its
  class or node (352, 360; `ClassCreateFails`, `DeviceCreateFails`).

In the server:

- `thread_id` is indexed with the count after the increment, one element past
  its end (`webserver.c` 438), and never used;
- no receive time-out is set although its expiry is handled (181, 194), and the
  five seconds of `select` are set once, so that the loop spins when they are
  used up (387); its -1 is never seen in an unsigned `nbr_fds`;
- a failed `pthread_create` is taken for success (437; `CreateFails`), so that
  the count stays up and clients are rejected early;
- a broken connection ends the whole server: `read`'s -1 is unsigned (186;
  `ReadError`), and SIGPIPE is not ignored (137; `BrokenPipe`);
- `web_server_init` reports failure as 1 and is compared with -1 (365;
  `BindFails`);
- a child whose parent dies between the `fork` and the `prctl` stays, although
  the comment there reads "Process dies if parent dies" (318, 337, 356;
  `Prctl`);
- the semaphore set of a start is never removed (281; `Setup`);
- a request without a method ends the whole server (183-204; `ReadBlank`);
- a page shows the temperature from before the wait for the request (179, 181;
  `send_response_data`), so that answers to slow clients may go back in time;
- a page may carry "(null)" in place of its picture (`functions.c` 437-454;
  `RespondWithout`);
- the picture is read into 1024 bytes whatever its size (122), and as a string
  without an end (`base64_encode` ends it nowhere; `Respond`, `FileBufOverrun`).

In the measurement and the configuration:

- `_read_bmp280_temp` returns 0 or 1 whatever the sensor says (`bmp_280.c`
  83-120), so that every line reads -135.30 or so, outside the range gnuplot
  draws; the control register is written to descriptor 0, which is then closed
  (55, `driver_handler.c` 47);
- the first average uses an uninitialised variable (`plot_handler.c` 118; `Init`
  of `Measurement`), harmless unless it holds no number;
- "Set default values" and "Dont exit and use default values", say the comments
  of `main` (`webserver.c` 243, 251), but fields the file lacks are copied
  uninitialised over the defaults (254-258; `UpdateContext`), and
  `read_config_file` exits where its callers look for `ERROR` (`OpenFails`);
- "Update the process context from the config file" (`functions.c` 129), but a
  message of the pipe has 8 of the 16 bytes on the board (147; `Message`): a
  reload changes `backlog` and `max_conn` of the plot process only, which uses
  neither, and the accept loop, in another process, sees none of it;
- a SIGUSR1 between parsing and clearing of the flag is lost (`webserver.c` 483;
  `lost`), and `make sigusr` signals the oldest process, which is `main` and
  never looks at its flag (`Makefile` 113-115);
- the second attachment in `configure_shared_mem` uses the first identifier
  (`functions.c` 224).

## Proofs

The constants are only assumed to be what the code makes them: `SemMax` a
positive number, `MaxSamples`, `PipeMax` and `MaxVersion` natural numbers
(`PipeMax` positive), `PtrBytes` 4 or 8, `NULL` neither a process nor a block,
`Conns` a finite set, `MaxConn` and `MaxStarts` natural numbers, `Word` larger
than `MaxConn + 1` (or the count would wrap before the limit is tested),
`Contents` any files of lines, `Readings` any 24-bit numbers with the two the
code returns, `Windows` natural numbers and `Leftovers` fractions, a `Picture`
of each number of lines that is not empty (a PNG begins with its signature).
`Users`, `Procs`, `Blocks`, `Clients` and `Threads` are arbitrary sets. TLC
evaluates every assumption.

- **`SamplePipelineProofs`.** The mutual exclusion is inductive with typing.
  `LinesAreFresh` is not: it needs `TokenAccounting` (each post is in SEM_FULL
  or was taken), `ShmFollowsDriver` (no post before its store) and
  `FileFollowsPlot` (loads lag the segment, the file lags the loads).
  `NoOlderForLater` needs `ThreadsFollowFile`: nothing shown is newer than the
  file, and what a thread took was no older than what had been shown by then,
  from taking it to the answer. `IInv` is their conjunction; its preservation is
  shown per process. `Refinement` maps the store to `Put`, the load to `Get`,
  and all other steps to stuttering; `Get`'s guard is where the token accounting
  enters.
- **`SpiDriverProofs`.** `OneUserAtATime` is pairwise and not inductive, since a
  lock looks at the mutex and not at who is inside: `MutexHeld` says that
  whoever is inside owns it. `HeapSafe` rests on `Owned` and `NoLeak` on
  `Reachable`: without overlapping opens one process has business with the
  driver (`Alone`), so `dev`'s pointers are its own. They use `HandlerIdle`,
  that the field the handler looks at is never set. `ChipSelect` needs
  `MutexHeld` for the same reason.
- **`DriverLifecycleProofs`.** `Acquired` (at each point at least what a later
  release gives back), `Bounded` (at most what it accounts for) and `Opened`
  (nobody has the file open before it was added) are invariant over init, probe,
  exit and the users.
- **`ConfigProofs`, the reload.** `OnItsWay` extends `IdleMeansSent` to the two
  steps between parsing and clearing: what was asked for is parsed, then the
  last message of the pipe or in the context, for any pipe size, whichever
  messages the plot process has taken meanwhile.
- **`ConfigProofs`, the parser.** A line that fits has its name, its `=` and its
  digits in the chunk (`FittingLine`); the last one of the file for a field
  decides it, whatever the reads before left (`ParseLineKeeps`). A line that
  does not fit loses digits, and what remains is part of the number:
  `PartOfNumber` shows that a part is never more than the whole. The typing
  needs `Room`, the bound on the lines read together with those to be read.
- **`ConnectionServerProofs`.** `Descriptors` (what main and the threads take
  for descriptors are some, and no connection has two) is inductive with typing.
  `Ownership` says who holds each connection's descriptor on its way from
  `accept` over `args_client` to the thread, and that nobody does once it is
  closed: that is what makes a closed number safe to hand out again. `Counting`
  is by cardinality of `Held`, the connections in the counter; `CountIsExact` is
  not inductive alone, since the decrement of a thread needs that the thread is
  in the count, and the increment that the limit kept the counter below its
  word. Both are shown under the absence of the named incidents only where they
  need it: the limit holds whether or not a thread could be created.
- **`ProcessTreeProofs`.** `SegmentHasOneSet` is not inductive: it needs
  `BoundHaveParent` (a child that called `prctl` in time has a living parent)
  and `OneParent` (a start is beside a living one only if `twice` records it),
  shown from what each group of steps keeps.
- **`MeasurementProofs`.** `CompensationFits` follows the products of the
  compensation by bounds on a square and on each shift, for all 24-bit readings.
  `Bounds` is that a weighted mean is between its parts, by multiplication of
  inequalities over the integers (`NotBelow`, `NotAbove`). `Mean` keeps
  `MeanIsSum`, the same equation from the first round on, where the leftover of
  the start has the weight zero.
- **`PlotImageProofs`.** `EncoderDecodes` holds for every sequence of bytes: the
  four sextets make up the 24 bits of a triple, the padded ones are zero, and
  the octets come back out of it. The invariant behind `WholeAndFresh` has three
  parts: a thread waits for its gnuplot (`Waiting`); as long as no clash is
  recorded nobody else draws in its window (`Alone`), so that `data.png` is
  exactly what its own gnuplot has written so far (`Progress`); and that gnuplot
  loaded `data.dat` after the thread took its last line (`DrawnSoFar`).
  `GnuplotKeeps` reduces each step of a gnuplot to the file and its own thread,
  since the others in their windows are disturbed already.

*Induction over data.* `Numbers` and `Sums` are recursive functions over a
sequence. The library's induction theorems take a predicate; `Induction`, in
`ConfigProofs` and `MeasurementProofs`, takes a set of numbers instead and
follows from `<` being well founded on them. By it a function that meets the
recursion exists (`NumbersDef`, `SumsDef`), and the facts about its values
follow step by step: they grow with the digits (`NumbersGrow`), part of a number
is at most the whole (`PartOfNumber`), one more element adds itself
(`SumsAppend`).

Every invariant of the passing runs is a theorem, and so is the refinement.
Model-checked only is liveness (`EverySampleReachesTheFile`, `RequestsEnd`,
`RequestApplied`, `FailedStartEnds`), which TLAPS can not prove under fairness.

## Not modelled

- What is sent to the sensor (`bmp_280.c` 25-75): it reaches no variable whose
  value is used, see above. `buf[i - 1]` at `i = 0` is undefined and harmless
  for the same reason.
- Sizes of device transfers other than those `bmp_280.c` asks for, which fit:
  the driver has no bound of its own in `read` (`spi_driver.c` 147).
- The attributes of the client threads, the wait of `select`, whose time-out
  changes nothing, and the memory a thread leaks.
- The text of pages and of the gnuplot script, the Makefile and the device tree.
- `gnuplot`, the kernel, clients and operator are external: they do what the
  code relies on, and the models say where they may fail.

What would be next: an abstract device (a lock and a transfer) that `SpiDriver`
implements outside its incidents, and `ProcessTree` composed with the exits of
`SamplePipeline`.
