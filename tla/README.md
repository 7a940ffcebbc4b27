# uCandela in TLA+

uCandela is a USB light sensor.  An ATtiny measures how long a photo diode takes to discharge an input pin, turns the
time into a 16-bit reading and serves the reading and its settings over a software USB driver.  A Linux command-line
tool and a Qt window are on the other side.

This directory holds TLA+ models of the code, the TLC configurations that check them on small instances, and proofs
checked by TLAPS.  Paths below are relative to the repository; line numbers in comments of the modules name the file
without its directory (`sampler.c:163` is `firmware/sampler.c:163`).

## 1. The system

### Components

| Component | Code | State | Operations | Modelled by |
|---|---|---|---|---|
| Sampler | `firmware/sampler.c`, `sampler_irq.S` | timer 1, comparator, interrupt flags and masks, `s_prescaler` and `sampler_value` (both in `.noinit`) | `sampler_init`, `_start`, `_poll`, `_get_sample`, two interrupt handlers | `Sampler`, `Measurement`, `SamplerProofs` |
| fplib | `firmware/fplib.c`, `.h` | none | `fp_compose`, `fp_extract_*`, `fp_to_uint16`, `fp_inverse` | `FpLib`, `Conversions`, `FpLibProofs` |
| Reading | `firmware/main.c` 248-270 | `input_report`, `sensitivity` | invert, scale and smooth a sample | `Reading`, `ReadingProofs` |
| Sensor application | `firmware/main.c`, `ucd_api.h` | `active_subrq_mux`, `feature_report`, `usb_transfer`, `eeprom_transfer`, `g_parameters`, EEPROM records | the two callbacks of the driver, the background copy to EEPROM | `SensorApp`, `SensorAppProofs` |
| Bring-up | `firmware/main.c` | registers | `early_init`, `late_init`, disconnect, `sei` | the order of it, in `Sampler` |
| V-USB driver | `firmware/usbdrv` | receive and transmit buffers, addresses, message pointers, toggles | `usbPoll`, `usbSetInterrupt`, the receive interrupt | `UsbDriver`, `UsbDriverProofs`, in part |
| hidtool | `hidtool/hidtool.c` | one `hiddev` descriptor, the sum and count of `monitor` | find a device, get and set reports, sample, monitor, info | `HidTool`, `HidToolProofs` |
| ucandela-setup | `ucandela-setup/*.cpp` | plots, views, curves, the tick of the chart | add and remove curves, move views, append points, repaint | `Plot2D`, `Plot2DProofs`, without the drawing |
| Serial build | `firmware/serial_main.c`, `picofmt.c`, `uart.S` | tick counter | tick, format, send | `PicoFmt` and `Conversions`, the formatter and the line it prints |
| Test of fplib | `firmware/testfp.c` | none | prints samples | no: `fplib` checks all of what it samples |
| Boards | schematics | - | - | no |

### How they interact

    photo diode -> comparator, timer --interrupts--> sampler_value, TCCR1
                                                        |  polled by
    main loop:  usbPoll -> sampler_poll -> inversion, filter -> usbSetInterrupt
                   |                                       \-> one byte of an EEPROM copy per turn
                   v callbacks
          usbFunctionSetup, usbFunctionWrite  <- buffers ->  USB interrupt  <- bus ->  host (hidtool)

Everything but the interrupt handlers runs in one loop that never blocks.  The concurrency is between the loop, the
two capture handlers (both re-enable interrupts half way and nest), the USB interrupt (which does not) and the
hardware.  The sampler and the loop share `TCCR1`, `sampler_value` and interrupt masks; the driver's interrupt and
`usbPoll` share buffers guarded by one length byte each; the loop's EEPROM copy and the callbacks share
`feature_report`.

### What is hard, and what makes each part correct

* **Sampler.**  A stopped timer is all that tells the loop that a result is there, but the handlers stop the timer
  before they store it, with interrupts enabled in between.  Correct means: a result that is picked up belongs to this
  measurement, is stored once, and was caused by something that happened in it; the range moves one step at a time
  inside its limits; a measurement in the dark ends too.
* **fplib and Reading.**  Widths, saturation and rounding: more light never reads as less, the filter neither wraps nor
  sticks.
* **Sensor application.**  A report comes in packets from a host that may announce any length and give up at any point;
  the buffer it is assembled in is also the source of a copy that takes many turns, and power may go in the middle.
  Correct means: no index leaves its buffer, a copy writes the record it was accepted for, once, from start to end.
* **V-USB driver.**  The interrupt routine may run between any two accesses of `usbPoll`.  Correct means: a reply belongs
  to the request that is being made, packets are neither torn nor skipped, addresses agree, transfers end.
* **hidtool.**  A sequential program, but not alone: the device may be pulled or swapped between any two system calls, the
  kernel's copy of a report is shared with other programs, the clock may be set back, one `ioctl` fails without being looked
  at, and a buffer is only partly filled.  Correct means: it finds the sensor whatever stands before it, it sends the bytes
  it was given and prints the report the device has, an average is that of its own cycle, exit status 0 means done, and
  nothing makes it spin or hang.
* **ucandela-setup.**  Pointers in two directions between plots, views and curves, kept by hand through any sequence of
  public calls.  Correct means: both sides agree, a curve holds its latest points, a view hears of each of them; and what a
  client undoes when it moves a curve's pointer alone is put in order by the next `addCurve` that can.
* **Serial build.**  Hexadecimal digits out of a 12-bit number with an exponent: the line must read as the exact value.

The list of hazards, with lines, is in `PROJECT.json`.

## 2. Modules

| Module | Contents |
|---|---|
| `Measurement` | What the sampler promises: start, finish once, consume; a reset abandons. Safety (`MSafe`) and progress (`MSpec`). |
| `Sampler` | The sampler, register write by register write. |
| `SamplerProofs` | Its theorems. |
| `FpLib` | The arithmetic, as functions with the widths of the AVR build, the quotient `Ideal` it computes, and `Documented`, the one it is said to compute. |
| `Reading` | The sample branch of the loop, with `fplib` behind the constant operator `Converted`. |
| `ReadingProofs` | Its theorems, for any converter whose result is a `uint16_t`. |
| `SensorApp` | The report protocol and the background copy; the driver is seen through its two callbacks. |
| `SensorAppProofs` | Its theorems. |
| `UsbDriver` | `usbPoll`, the interrupt routine and the host; the application is seen through what the callbacks return. |
| `UsbDriverProofs` | Its theorems. |
| `HidTool` | The command-line program, system call by system call, and the world around it. |
| `HidToolProofs` | Its theorems. |
| `Plot2D` | Plots, views and curves of the Qt program under any sequence of public calls. |
| `Plot2DProofs` | Its theorems. |
| `PicoFmt` | The formatter of the serial build and the line it prints, on top of `FpLib`. |
| `Conversions` | A walk through every number of `FpLib`, and what the conversions of `FpLib` and `PicoFmt` promise about it. |
| `Arithmetic` | Lemmas on quotients, powers of two and functions given by their steps. |
| `FpLibProofs` | The theorems about `Conversions`. |
| `MC*` | Instances for TLC. |

Each component's module also holds the operators the mutation checks use: an action or operator with the name of the
original and a suffix (`NextPrescaler_unclamped`), commented as a mistake.  No action refers to them.

### Sampler

The state is the registers the code touches.  `depth` and `stack` are the interrupt frames; a frame has the kind of its
handler, the next group of instructions and register `r24`.  Every action of `Main` is one register write of
`sampler.c` in the order the calls make them; `Irq` are the handlers of `sampler_irq.S`, from `in r24,TCCR1` to `reti`;
`Hardware` ticks, raises flags and dispatches, overflow before comparator as the vector table has it.
`sampler_poll` is disabled while the timer runs: the code returns 0 and changes nothing.  The loop's other work only
delays `sampler_poll` and `sampler_start`, which an interleaving does anyway.

`by`, `seen` and `ps` are history: which handler stored, what happened in this measurement, and the prescaler it
started with.  No guard reads them.

The refinement maps `phase` to "running" from `timer1_run` until the store, "complete" until `sampler_get_sample` has
read the value, "idle" otherwise; `result` is `sampler_value`.

### FpLib and Reading

`Divide` is the loop of `fp_inverse` as a recursive function of the turn: `Turn` is its body, and a result that is
`Full` leaves it. `Uint16` and `Int8` are applied where the C code converts. `Ideal` is the exact quotient on the
scale of the code, 16 times `Documented`, which is what `fplib.h` and the test program speak of (a finding).
`InDomain` says where no part of the code wraps: `WideExponent` fits an `int8_t`, and the significand is not the
largest one, which becomes 0 when `FP16_MANTISSA_MIN` is added. Outside, accuracy and monotonicity fail: with a shift
of 120, the smallest significand reads as 0 while longer discharges saturate. The main loop's shift is the sensitivity
plus 12, so sensitivities from 101 to 127 lead there. `Conversions` has no component of its own: it chooses a
significand and a shift and steps through the exponents, so that every number is a state. `Reading` takes light and
sensitivity as inputs that change a bounded number of times and counts equal samples in a row, so that settling is an
invariant and needs no fairness.

### SensorApp

One action is one call of `usbPoll` (one SETUP, one data packet, or nothing) or one pass through the EEPROM branch.
A turn is one of the first and one of the second.  A packet appends `Lesser(max - count, packet)` bytes and a report
that is complete is carried out in the same step.  The bytes of report 1 are 101, 102, ..., those of report 2 are 201,
202, ..., erased EEPROM is 255: every byte tells where it comes from.  Of the announced length only the
low byte is looked at (`main.c:180`), so `Announced` takes it modulo `LengthMod` (256 in the code) before it cuts it to the
buffer: of a report announced as 258 bytes, two are taken.  `job` is the history of the last copy accepted:
its data, what was there before, how many bytes have been copied, and whether the host has left the buffer alone.

### UsbDriver

`Turn` is the loop: every access to something the interrupt routine also uses is a step (`pc`).  A transaction of the
host is one step of the routine, which runs with interrupts off.  Choices worth knowing:

* A token and the data packet behind it are one step.  `usbPoll` may run in between, but it neither reads nor writes
  what the token changes, and that it frees the receive buffer there has the same effect as freeing it before.
* A SETUP is processed in one step although it writes several variables.  While it is processed `usbRxLen` is not 0, and
  as long as it is not 0 the routine answers IN with NAK (`asmcommon.inc:131-136`) and takes no packet.
* A bus reset covers one whole turn of the loop.  It lasts 10 ms or more; a turn of the loop is shorter.
* The host makes no SET_REPORT of length 0: the code would refuse its status stage until the host gives up
  (`main.c:182`, listed as a hazard).
* The host keeps a toggle for endpoint 1 (`host.ep1.tog`).  The device gives a report up when it has sent it
  (`asmcommon.inc:163-176`), so a lost report (`ReceiveReportLost`) leaves the toggles apart, and so may a bus reset; after
  `SET_CONFIGURATION` and `SET_INTERFACE` both sides start anew, but not at the same time and not under a packet that
  waits.  The host drops the next report then, as a repetition.  `host.ep1.synced` is history: none of this has happened
  since the last report that reached the host.
* Replies have the lengths of this build: those of `usbDriverSetup`, of each of its descriptors (18, 34, 4, 44, 18, 9, 49,
  and none for one it does not have), and of `usbFunctionSetup`.  The theorems are about all of them, the run about some.
  Reply text, CRCs, bit stuffing and timing are left out, as are the parts that `usbconfig.h` turns off.

### HidTool

`pc` is the place in the program; each system call that somebody can come between is an action, and the code up to the
next one belongs to it.  External, and modelled only from the calls that `hidtool.c` makes: the kernel's `hiddev` (its copy
`cache` of the feature reports, the queue `events` of input reports), the device itself (`device`), the user who plugs and
unplugs (`Replug`), the clock (`Second`, `ClockSetBack`) and other programs (`OtherProgram`).

* A command line and a directory are chosen together from `Scenarios`: an entry has a type as `readdir` gives it and leads to
  the sensor, to something else, to a node that may not be opened, or to nothing.  `N`, `Scenarios` and the lengths of the
  reports are constants, and the proofs hold for all of them.
* Words are what `getopt` sees: `optind` is not reset between `main` and a command, so a command skips as many words after its
  name as options stood before it (`skip`), and `shift_argv_n` returns the words unshifted when that is more than
  there are.  `hidtool -d /dev/... monitor` thus takes its own name for a command to run.
* The length that `HIDIOCGFIELDINFO` leaves unset is any value of `Unset`.  What follows is what the build can do: a
  copy beyond the end of `buf` fails, or crashes.  `getfeature` asks for as many bytes as that length says and prints
  those.
* `select` may fail of itself (`SelectFails`).  `t_st` starts at 0, in 1970, so the first result of `monitor` is never held back;
  after that, a clock that was set back holds results back, as `now - t_st` is negative where `time_t` has 64 bits, the build
  that is modelled.
* Actors are let in where they matter: reports are sent and seconds pass while the program waits for input, another program
  writes while a feature command is going on, and once a device has been opened only that one can be pulled.
  `Rate` bounds the reports per second, the answers to `HIDIOCGREPORT` among them.
* `cycle` is history: how many samples, and of what exact sum, since the last result.  `output` is what was last put out.

### Plot2D

One action is one public call; signals and slots are direct calls and belong to it, `repaint` is the posted paint event.
`items` counts how often a curve is in a plot and `connected` how often a view is connected, since both lists admit
duplicates.  A point is its tick.

The public `Plot2DCurve::setPlot` moves a curve's pointer and no list, so a client that calls it itself
(`setCurvePlot`) leaves the two apart: the curve stays in a list, may get into it twice, and tells a plot that does
not have it. The program makes no such call. `astray` names the curves this was done to, and `Settled` the moment that
ends it: `addCurve` finds the curve in no plot but the one it points to. What is promised about lists, pointers and
views is promised of the other curves; `MaxListed` bounds how often a plot lists a curve that is astray.

`constructed`, `log`, `span` and `unseen` are history too: views that still have the plot
their constructor gave them (it does not connect them, `plot2d.cpp:55-59`; the program builds none), the points a curve was
given, the range of histories it was set to, and the views that have not painted a point yet of a curve their plot
lists (`Showing`).

### PicoFmt

A text is a sequence of character codes. `Put` is one turn of the loop of `pfmt_out`; `Substitute` is the `$` of
`pfmt_out`; `LightLine` is the line of `serial_main.c:74` after `Light: `, with whatever the unused arguments happened
to hold.

## 3. Checks

| Run | Bounds | What it shows |
|---|---|---|
| `sampler` | counter 0..4, thresholds 1 and 3, prescaler 1..3, three nested frames, one reset, with fairness | `TypeOK`, `Fresh`, `OneStore`, `Caused`, `EarlyOverflowKept`, `PrescalerSteps`, `SampleScaledInWindow`; `Sampler` implements `Measurement!MSafe` (`ImplementsMeasurement`), and every measurement ends, is picked up and is followed by another (`MeasurementProgress`) |
| `sampler_overflow` | counter 0..3, two frames, no reset | finding: a late overflow is lost |
| `sampler_scale` | the same | finding: a sample is scaled with the next prescaler |
| `fplib` | all 65536 numbers, shifts -128, 0, 12, 120 | `InverseAccurate`, `InverseMonotone`, `InverseScales`; `LightLineExact`: the serial line read back is the number |
| `fplib_scale` | the same | finding: the scale of `fp_inverse` |
| `reading` | values 0, 15, 128, 255 at exponents 0 and 14, sensitivities -128, -4, 0, 9, 127, two changes | `TypeOK`, `ReportBetween`, `ReportSettles` |
| `sensor_app` | two records, reports of 3 data bytes in packets of 2, announced lengths 2, 4, 5, 10 of which the low "byte" has 8 values, six requests, one reset | `TypeOK`, `InBounds`, `EepromPrefix`, `NextByteOfOneRecord`, `CopyNotReplaced`, `FullReportExact`, `CopyEnds` |
| `usb_driver` | eight kinds of request, three in a row, one fault: a lost packet, handshake or report, a transfer given up, a bus reset | `TypeOK`, `ReplyExact`, `WriteExact`, `SetupReady`, `AddressAgrees`, `InterruptWhole`, `TransferEnds` |
| `hidtool` | two directory entries, 26 command lines, reports of one and two bytes and one that is missing, two replugs, one write by another program, one step back of the clock, sums modulo 8 | `TypeOK`, `FindsSensor`, `SentIsGiven`, `PrintedIsReport`, `SuccessMeansDone`, `AverageExact`, `Progress` |
| `hidtool_length` | the same | finding: a length nobody has written |
| `plot2d` | two plots, up to their symmetry, a view, a plain curve and one with a history of 0 to 2, two points, a curve at most twice in a list | `Consistent`, `HistorySuffix`, `ViewTold` |
| `plot2d_assert` | the same with two views and three points, without symmetry | finding: the asserts of `removeCurve` |

Why the bounds are enough:

* *Sampler.*  Two thresholds inside 0..4 leave values below, inside and above the window, and a wrap.  Three prescalers
  have both ends and a middle.  Three frames let both handlers and USB, or one handler twice inside another, nest.  One
  reset can hit any point and leaves arbitrary bytes behind.  The theorems remove these bounds from every property but
  `MeasurementProgress`.
* *fplib.*  Exhaustive in the number.  The shifts are the default one, none, and two with which the exponents of some numbers
  wrap in `smallint_t` and those of others do not, so the edge of `InDomain` is inside the run.  `InverseScales` holds for
  every shift; the other theorems for every shift and number in `InDomain`.
* *Reading.*  Both ends of the prescaler and of the byte, the smallest and largest shift, and a shift at which
  `sensitivity + 12` wraps.  Two changes allow a reversal.  16 equal samples are what a 16-bit difference needs to be halved
  away; `same` stops counting at 17.  The theorems hold for every conversion.
* *sensor_app.*  A report of 1 + 3 bytes takes two packets, like one of 1 + 16 in packets of 8 takes three: a first
  packet, a last one and the buffer's end behave the same.  Lengths are shorter than the buffer, equal, longer, and
  longer than the low byte can say.  Six
  requests suffice to select, write, select again, write again and read, with a copy of three turns going on.
* *usb_driver.*  The eight requests have replies of no packet, of three packets, and one cut to exactly two full packets;
  writes that are taken and ignored; and the three requests that change the driver or the host's toggle.  Three in a
  row let one be abandoned and leave something behind for the next, and let reports pass before, between and after a
  configuration and a lost report.  The theorems remove the bounds from every property but `TransferEnds`.
* *hidtool.*  Two entries are enough for one that must not stop the search and the one that is looked for, in either order;
  `sample` is run with all 36 directories.  Reports of one and two bytes are set whole, in part, and with too many words;
  four bytes of buffer are fewer than the longest command line.  Two replugs take a sensor away and put another
  device in its place.  A sum modulo 8 wraps after three samples of 3.  The theorems remove these bounds.
* *plot2d.*  Two plots let a curve and a view move away and back; views share no state, so one is enough.  Two curves meet in a
  plot and part again.  A history of 0, of 1, or one shortened after `setData` put in two points drops points, and is
  met with data left over.  Twice in a list is once too often.  The theorems remove these bounds.

Deadlock is checked where the system runs for ever; `fplib` walks through a finite table and stops at its end; an ended
`HidTool` stutters in `Terminated`.

### Fairness

* The timer ticks while it is clocked (`WF(Tick)`).
* After `reti` and `sei` the CPU executes one more instruction before it takes an interrupt.  So a context that is
  interrupted again and again still advances: `SF` for main and for the handlers at each depth.
* A low-speed bus is idle between frames, so the USB interrupt, first in priority, does not keep a pending overflow
  waiting for ever: `SF(DispatchOvf)`.  Nothing is assumed of the comparator: in the dark it never fires.
* The main loop does not block: `WF(Turn)` in `SensorApp` and `UsbDriver`.
* A host repeats a transaction until it is answered, and a bus reset ends: `WF(SendAcked)`, `WF(Receive)`,
  `WF(BusResetEnds)`.  Faults are not fair, and `TransferEnds` excuses a host whose data packet got lost, since the driver
  gives a packet up when it has sent it.
* The program's own steps in `HidTool` are fair (`WF(Program)`): the scheduler runs it.  `read` without a time limit waits for
  a sensor that reports of its own accord (`WF(DeviceSends)`, the interrupt endpoint is polled by the kernel), and
  time goes on (`WF(Second)`).  Nothing is assumed of replugs, of the clock being set back, or of other programs.

### Findings

* **A late overflow is lost** (`sampler_overflow`).  If the counter wraps between the dispatch of the comparator's handler
  and the instruction that stops the timer, the handler reads a count near 0, and the overflow handler finds the timer
  stopped and leaves.  A very dark measurement reads as a very bright one.  What does hold is `EarlyOverflowKept`: an
  overflow before that dispatch is recorded.
* **The scale of the next measurement** (`sampler_scale`).  `sampler_poll` moves `s_prescaler` before
  `sampler_get_sample` uses it as the exponent of the sample.  What does hold is `SampleScaledInWindow`.
* **The scale of the inverse** (`fplib_scale`).  `fplib.h:34` says `fp_inverse` computes `2**extra_shift/f`, and the test program
  prints that quotient "to verify" (`testfp.c:40-63`).  What the callers read is 16 times as much: 15 where 1 is promised for
  `f = 0x100F` and a shift of 12.  What does hold is `InverseAccurate`, which has the scale of the code.
* **A length nobody has written** (`hidtool_length`).  The result of `HIDIOCGFIELDINFO` is stored and never looked at
  (`hidtool.c:739, 799`).  For a report the device does not have, the length is what was on the stack.  What does hold
  is that the request then fails or crashes, and never reports success (`SuccessMeansDone`, `SentIsGiven`).
* **Asserts the wrong way round** (`plot2d_assert`).  `removeCurve` asserts that the curve is *not* in this plot
  (`plot2d.cpp:33`), and that it was found *more* than once (line 35, `r > 1`, with the message "more than one pointer
  found").  `Consistent` shows that a curve is there at most once, unless a client has
  moved its pointer itself.  The Makefile's `QT_NO_DEBUG` hides both.

Seen while modelling, without a run of their own, because no text in the tree says otherwise or because they are plain:

* The comment of the filter says "15/16 * sample + 1/16 * input_report" (`main.c:264`); with `filter_strength = 1` the code
  has a half and a half.
* Sensitivities above 100 make exponents wrap in `fp_inverse`, those above 115 make `sensitivity + 12` wrap as well
  (`main.c:262`); very bright light then reads as 0.
* `Plot2DCurve::setPlot` is public and leaves list and pointer apart when a client calls it.
* An unknown command of `hidtool` prints a message and exits with 0 (`hidtool.c:430-434`).
* `picofmt.h:18` speaks of `$0` to `$9`; only `$0` to `$3` print anything.
* `monitor` frees and reallocates a buffer that `putenv` has made part of the environment.
* `setHistory` does not trim (a TODO says so) and `appendData` drops one point at a time, so a shortened
  history stays too long until the curve is refilled.
* A `Plot2DView` built with a plot is never connected to it.
* A `setfeature` with fewer bytes than the report has sends zeros behind them: the kernel's copy has not been read before.
* A SET_REPORT announced with 256 bytes or more is cut to the low byte of its length.

## 4. Proofs

The proofs assume what the modules' `ASSUME`s say, and TLC evaluates them on every run:

* `Sampler`: bounds are natural numbers and `1 <= PrescalerMin <= PrescalerMax <= CountMax`;
* `Reading`: the converter returns a `uint16_t`;
* `Conversions`: a shift is an `int8_t`;
* `SensorApp`: a report and a packet have at least one byte, the low byte of a length has at least three values, announced lengths
  are not 0, the selections are among the eight calibration sets, and a host sends one of two payloads;
* `UsbDriver`: a request has a name the driver or the application knows, asks for at most 256 bytes, and for none exactly
  when it has no data stage;
* `HidTool`: a command line and a directory have their types, no feature report is longer than the buffer, and a byte has
  more than three values.  The words of a command hold numbers and at most one option, in front of where `getopt`
  looks; its argument may be any word.  (`getopt` would also find an option further back, which the module does not model.)
* `Plot2D`: the null pointer is no plot, rows are rows of points, and a history is not negative.

Everything else is arbitrary: the width of the counter, the range of the prescaler, the depth of nesting, the size of
reports and packets, the announced lengths, the number of requests, resets, faults, directory entries, command lines,
replugs, plots, views, curves, histories and points. A shift is any `int8_t`; what is said of it is said inside
`InDomain`, except in `ScaledInverse`, which needs no such condition.

`SamplerProofs`:

| Theorem | Says |
|---|---|
| `TypeCorrect` | `Spec => [](TypeOK /\ PrescalerInRange)` |
| `Invariant` | `Spec => []IInv` |
| `FreshResult`, `SingleStore` | `Spec => []Fresh`, `Spec => []OneStore` |
| `Refinement` | `Spec => ImplementsMeasurement` |
| `RecordedCause`, `OverflowKept` | `Spec => []Caused`, `Spec => []EarlyOverflowKept` |
| `PrescalerMovesByOne`, `ScaleInWindow` | `Spec => PrescalerSteps`, `Spec => SampleScaledInWindow` |

The argument.  `Fresh` and `OneStore` say nothing about the time between a handler's claim and its store, so they
are not inductive.  `IInv` adds three things.  *Masking*: only a handler that is past its early `sei` can be
interrupted, so at most the top frame is at "test" or "stop".  *Running*: the timer runs only inside a measurement nothing
has been stored for, and a handler at "stop" found it running, which nothing could change since.  *Explained*: if
the timer is stopped and nothing is stored, some frame is about to store.  Hence two handlers cannot both claim, since the
second finds the timer stopped, and main cannot find it stopped at depth 0 without a store.  The types need
`PrescalerInRange`, because `s_prescaler - 1` is a byte only then.

`CInv`, proved on top of `IInv`, follows the flags: where a flag can be pending and what it proves (*Flags*), that a
handler that claims was caused (*Claimed*), and that after an early wrap either the flag is pending or the
overflow handler is on top, so the comparator's handler cannot claim (*Early*).

`Scaled`, also on top of `IInv`, carries the scale from the start of a measurement to its sample: until `sampler_poll`
adjusts the prescaler it is the one the measurement ran with, and after that at most one step off, and not at all for
a value inside the window. `AdjustPrescaler` is the only step that moves it outside `sampler_init` and a reset, and it
finds the one the measurement ran with, which is the first conjunct of `PrescalerSteps`.

`ReadingProofs`: `ReadingTypeCorrect` (`Spec => []TypeOK`: the filter's sum fits 16 bits) and `NoOvershoot` (`Spec =>
ReportBetween`), both from the lemma that the filter's result lies between its two arguments; and `Settles` (`Spec =>
[]ReportSettles`). For the last one, `FilteredContracts` says that a step halves the distance to the sample, up to
one, so the invariant `Settling` has a bound on the distance for each count of equal samples, from 32768 after the
first to 1 after the sixteenth.

`SensorAppProofs`:

| Theorem | Says |
|---|---|
| `SensorTypeCorrect`, `BuffersInBounds` | `Spec => []TypeOK`, `Spec => []InBounds` |
| `PrefixInEeprom` | `Spec => []EepromPrefix` |
| `NextByteWritten`, `NeverReplaced`, `ReportsExact` | `Spec => NextByteOfOneRecord`, `Spec => CopyNotReplaced`, `Spec => FullReportExact` |

`EepromPrefix` speaks of a record, a copy's history and the buffer at once; what makes it inductive is *Tracked*:
while a copy goes on, its history has its record and its position, and as long as the host has left the buffer alone
the buffer still is the data it was accepted with. *Assembled* says how far a report has come: the count is what has
been sent or what was announced, whichever is less, and that much of the buffer is the host's. From it
`FullReportExact` follows at the last packet, and `InBounds` because what was announced fits the buffer, after its low
byte was taken.

`HidToolProofs`:

| Theorem | Says |
|---|---|
| `TypeCorrect` | `Spec => []TypeOK` |
| `SensorFound` | `Spec => []FindsSensor` |
| `ReportSent`, `ReportPrinted` | `Spec => []SentIsGiven`, `Spec => []PrintedIsReport` |
| `SuccessTold` | `Spec => []SuccessMeansDone` |
| `MeanExact` | `Spec => AverageExact` |

These properties are about the end of a command, so the invariant follows it there.  *Placed*: which command leads to which place,
hence which actions can end with success.  *Searched*: what lies behind the search has a type and is no sensor.
*Listed*: `info` has listed exactly what lies behind its type and id.  *Fetched*: between the `ioctl`s of `getfeature` the length
is that of the report, and after the second the kernel's copy is the device's; `PrintedIsReport` follows at the step
that prints.  *Given*: until `HIDIOCSUSAGES` the kernel's copy is zero and the request is the command
line's; after it, the copy is the bytes given and zeros.  *Summed*: the wrapped sum is the exact one as long as that fits.  The
lemmas called `...Frame` say which actions change what; each part is then shown to survive those few.

`Plot2DProofs`:

| Theorem | Says |
|---|---|
| `AlwaysConsistent` | `Spec => []Consistent` |
| `LatestKept` | `Spec => []HistorySuffix` |
| `PointsSeen` | `Spec => []ViewTold` |

The invariant of the first is `GraphType /\ Consistent`. The heart of it is `WithoutEntry`: `removeAll` clears one
entry and no other, so that `addCurve`, which removes from the old plot first and appends then, leaves exactly one;
for the same curve and plot the old entry is cleared before it is counted again. For a curve that is astray the count
may be anything; it leaves `astray` only where all its entries are 0 before the new one is counted. `PointsSeen` rests
on it: a view whose plot lists a curve that is not astray is connected to the plot the curve points to
(`ShowersTold`), so every point posts its paint event. `LatestKept` needs, for each curve, that its present history
lies between the least and the greatest since it was last filled (*Curved*); `EndGrows` then says that the end of a
row stays one when both get a point, also when it drops its own first.

`UsbDriverProofs`:

| Theorem | Says |
|---|---|
| `UsbTypeCorrect` | `Spec => []TypeOK` |
| `RepliesExact` | `Spec => []ReplyExact` |
| `WritesExact` | `Spec => WriteExact` |
| `SetupsReady` | `Spec => []SetupReady` |
| `AddressesAgree` | `Spec => []AddressAgrees` |
| `InterruptsWhole` | `Spec => []InterruptWhole` |

The properties look at the moments when a packet is sent or taken; between them the interrupt routine stores packets
and sends others while `usbPoll` is anywhere. The inductive invariant follows a packet on its way. *Received*: what
waits in the receive buffer was stored whole, by this request or one before, and stays until `FreeRx`. *Served*: the
request the host is making is the one that waits or the one that is served; this is why a reply that was being built
when a SETUP packet came in is never sent as the new one's. *Sent*: `usbPoll` builds only into a free buffer.
*Replied*: toggle and place of what is ready, and what is left of the message, are those the host expects. *Written*:
the record is filled up to where the host has got, without the packet that waits. *Addressed*: a new address waits
only while the host sets it. *Reported*: the packet of endpoint 1 is filled only while it is not to be sent, and while
`synced` holds the toggle of one that waits is the host's, and of one that was sent the other. *Free*: without a lost
handshake the last packet of a transfer finds the buffer free. *ResetSeen*: the turn of `usbPoll` that notices a reset
ends with an empty buffer.

Two parts are there because the others were not inductive without them.  *Replied* is silent once data of the device got
lost, yet the types still need `usbMsgLen` to stay within the reply; *Within* says that then too the host has not got more
than was sent.  *Sensible* keeps the host to phases its request has, which *Served* and *Replied* rely on.

`FpLibProofs`, on top of `Arithmetic`:

| Theorem | Says |
|---|---|
| `DivideIsQuotient` | for every significand `s` of 1 to 4095 steps there is a `j` with `Divide(8 * s).result = 2^j \div s`, a number of 16 bits, and `Divide(8 * s).shift = 14 - j` |
| `AccurateInverse` | `Spec => []InverseAccurate` |
| `MonotoneInverse` | `Spec => []InverseMonotone` |
| `ScaledInverse` | `Spec => []InverseScales` |
| `ExactLine` | `Spec => []LightLineExact` |

The state of `Conversions` has a trivial invariant (`Number`); the work is in the operators, and in their loops. An
induction in the usual form cannot be cited, since the library's rule takes an operator. Its place is taken by
`WFMin`, which takes a set: a nonempty set of natural numbers has a least element (`Least`), so nothing is missing
from a set that has 0 and with every number the next (`Upward`), and a function given by its first value and its steps
exists (`Recursion`). Hence `Divide` and `pfmt_outln`, which are values of such functions, have the values their loops
give them (`DivideLoop`, `FormatLoop`).

The invariant of the division (`Divided`, `LoopInvariant`): after `n` turns `result` and `partial` are quotient and
remainder of `2^n` by the divisor, `result` has fewer than 16 bits and `shift` is `16 - n`; or the loop was left in
some turn up to the thirtieth, in which `result` got its sixteenth bit. It cannot take longer, since `2^30` is more
than `2^15` times any divisor. So the loop never runs to the end of its counter, and neither `partial` nor `result`
ever wraps.

From there on it is arithmetic of quotients. The exponent of an inverse is `15` less the number `k` of places its
result is too far to the left (`ReadIs`). Two divisions in a row are one by the product and a common factor cancels
(`DivDiv`, `DivCancel`), so the result shifted down by `k` is the ideal quotient itself, and what is lost is only what
the mask cuts off the result before it is shifted (`CutOff`, `AccurateOn`). A larger significand needs the same power
of two or a larger one (`FitsMono`). In the first case the quotient is smaller, in the second the exponent is
(`ValueMono`). Twice the significand needs exactly the next power and has the same quotient (`QuotientDouble`), so
both readings come from the same result and the same exponent, even one that wraps.

For the line, `FormatLoop` unrolls the format, a digit stands for four bits (`DigitIs`), four of them for a word
(`DigitsAre`), and the two words of a number are its quotient and its scaled remainder, both of 16 bits (`WordsOf`).

Only model-checked: everything under fairness (`MeasurementProgress`, `CopyEnds`, `TransferEnds`, `Progress`), which the
prover does not handle.

## 5. Not modelled

* Time.  An interrupt, an instruction and a tick are steps of any duration; that the comparator's handler is short enough for a
  frame, or that nesting stays within the stack, is not a question these models answer (`MaxDepth` is a bound).
* The watchdog, oscillator calibration, and the analog side.
* Compiler effects: `sampler_value` is not `volatile`; it is read where the C text reads it.
* Two programs on the host that share the device's one selection: `SensorApp` has one host.
* The mixture in EEPROM when a host writes a report during a copy: it is allowed in `SensorApp` and `EepromPrefix`
  does not speak of it; the other properties of the copy do.
* The serial build's tick (`tick_wait` at `serial_main.c:38` compares a byte with a 16-bit counter and stops waiting after
  256 ticks), its report of MCUSR, and the bit timing of its UART.  It calls `fp_reciprocal`, which no file defines.
* Of `hidtool`: printing and messages, the names of nodes, a directory that cannot be opened.
* Of `ucandela-setup`: colours and the gradient, extents (never set), layout, the drawing (not written yet), and the order of
  destruction at the end of the program.
* The test of fplib, the boards.

## 6. Plan

Done: `Measurement`, `Sampler`, `Reading`, `SensorApp`, `UsbDriver`, `HidTool`, `Plot2D`, `FpLib` and `PicoFmt`, each with
proofs of all its safety properties.

What remains:

1. `Firmware`: `SensorApp` over `UsbDriver`, so that a lost handshake in the driver meets the assembling of a report.
2. The tick of the serial build, once it links.
