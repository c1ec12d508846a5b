# Verification of LinumApplication

TLA+ models, TLC runs and TLAPS proofs about the firmware of this repository:
a Zephyr application for an STM32H753 with a parameter database, a Modbus RTU
server in front of it, a shell, and libraries for alarms, digital inputs and
outputs, LEDs, tones and ISO-TP.

## 1. The system

### 1.1 Threads and contexts

| context | what runs there |
|---|---|
| main thread | `src/main.c`: initialisations, `setup_database_init`, then a loop that sets and gets two parameters every second |
| shell thread | started by the kernel before `main`: the command `db` (`show`, `set`) |
| system work queue | the Modbus server's callbacks (`src/slave_modbus.c`), the change work of alarms and digital inputs |
| timer interrupts | debounce timers of alarms and inputs, blink timer of LEDs, note timer of tones |
| ISO-TP / driver callbacks | the end of a transmission, GPIO edges |

They share the database (one semaphore), and each library's table of
configurations (one mutex per library, which the timer callbacks ask for too). The other libraries
have no command of the shell: their callers are whatever threads of the application use them.
`lcd_lvgl_demo` (`src/main.c:50`) does not return in this build, so the set-up
of the database is reached only when the demo is left out; the models start
from a program that does reach it.

### 1.2 Components

| component | state | operations | interacts with | what is hard | what makes it correct |
|---|---|---|---|---|---|
| `libraries/database` | list of groups, semaphore, the variables behind the parameters | init, add, remove, load default, look up, typed set/get, shell show/set | every thread | look-up and access are two critical sections; walks of many parameters; time-outs; use before `db_init`; C conversions | one thread at a time, calls atomic to their callers, only legal values stored, no semaphore lost |
| `src/setup_database.c` | the three tables | `setup_database_init` | database | runs while the shell is already up | finishes, loads the declared defaults |
| `libraries/modbus_slave`, `src/slave_modbus.c` | two sorted register tables | read input, read and write holding registers | database, Modbus stack | 16-bit bisection, coverage of whole variables, check and access in two passes, other writers | never outside the table or the buffer, a success is complete, a failure stores a prefix, every request answered |
| `libraries/digital_output` | table of pins, `mask` of states | init, open, close, force set, status | GPIO driver, its callers | mask and pin change in two steps with a roll-back in between | mask and pins agree |
| `libraries/alarm` | table of alarms with debounce timers, active and memory masks, event queue | set, clear, force, clear memory, hysteresis, flush | timer interrupt, work queue, its callers | timers racing a later set, full queue, two critical sections | the mask follows the last stable request, memory covers what was active, every change is reported |
| `libraries/digital_input` | as alarm, with GPIO edges | update, force all, hysteresis, status | timer interrupt, work queue | as alarm; a timer stopped by id instead of by table index | the status follows the pin, changes are reported once |
| `libraries/leds` | four masks of modes, the status, blink counters | set, mask, status | timer interrupt | the interrupt between any two of five assignments; a status query that writes back what it read before the lock | every LED shows the mode last asked for, blinking ones keep blinking |
| `libraries/ringtone`, `src/buzzer_lib.c` | player, position in the text, semaphore of the end | play, stop, wait, custom tones | timer interrupt | a stop that stops the timer after it unlocked; a text replaced under a tone; digits that end a text; the wrap of the uptime | sound and timer follow the player, who waits is woken |
| `src/isotp_conn.c` | queue, pool of buffers, two locks | bind, unbind, add, send, transmit, receive | ISO-TP stack and its callback | the lock is given back by a callback; one list under two locks; a buffer freed while it is sent | no lock and no buffer is lost, messages leave in order |
| `src/rtc_lib.c` | none but the device's | set, get, timestamps both ways | RTC driver | leap and century years, week days, in integer formulas; a week day computed in the caller's struct | equals counting the days |
| `common/mask_format` | a text filled against a mask | init, add, set, reset, complete | UI | refused characters that move on; placeholder equal to a digit | every character typed stands in its place, a filled field is complete |
| `common/string_format` | a field filled from the right, a point, a sign | init, add, remove, clean, sign, text, value | UI | a fixed point counted as a place, a point removed and typed again | text and value are the number typed |
| `src/leds_lib.c` | none | on, off of a colour | GPIO driver | `LED_YELLOW` falls through to the -EIO of an unknown colour after it set its lines (`leds_lib.c:78`) | not modelled: no state, one switch |
| `src/eeprom_lib.c` | mutex | read, write | device | mutex used without `k_mutex_init` | |
| `src/lcd_lib.c`, `eth_lib.c`, `sdcard_lib.c`, `app_sdram.c`, `app_ext_flash.c`, `app_version.c`, `app_icon.c` | | start-up and demos | drivers | | not modelled: device I/O and constant data |


## 2. The modules

| module | models | extends / uses |
|---|---|---|
| `DatabaseTypes` | the typed setters and getters as functions: access level, size, range, the range read through another union view, the conversion to a C width, where a default load copies from | |
| `AtomicDatabase` | what the database promises: every call takes effect at one instant on a list of groups and a map of values | `DatabaseTypes` |
| `Database` | `database.c` and `setup_database.c`: the list, the semaphore with its queue and hand-over, look-up and access as two critical sections, walks of many parameters | `DatabaseTypes`; `Atomic == INSTANCE AtomicDatabase WITH ...` |
| `ModbusSlave` | `mdb_table_parse.c` behind the callbacks of `src/slave_modbus.c`: 16-bit bisection, coverage check, register by register access, other threads writing the same parameters | `DatabaseTypes` |
| `DigitalOutput` | `digital_output.c`: mask under the mutex, pin outside it, roll-back, callback, force | |
| `Alarm` | `alarm.c`: active and memory masks, debounce timers in interrupt context, event queue, work queue | |
| `DigitalInput` | `digital_input.c`: the same with a reported mask, and timers by row of a table | |
| `Leds` | `leds.c`: modes and status, lines driven one by one, the blink timer | |
| `Ringtone` | `ringtone.c` and its use by `buzzer_lib.c`: player, timer interrupt, semaphore of the end | |
| `LossyQueue` | what `isotp_conn.c` promises: a FIFO that drops its oldest messages | |
| `IsotpConn` | `isotp_conn.c`: list, pool, two locks, a driver with a callback | `Promised == INSTANCE LossyQueue WITH ...` |
| `NumberFormat`, `MaskFormat` | `string_format.c` and `mask_format.c`: fields that are typed into | |
| `RtcLib` | `rtc_lib.c`: three calendar formulas, beside a clock that counts days | |
| `DatabaseProofs`, `ModbusSlaveProofs`, `DigitalOutputProofs`, `AlarmProofs`, `DigitalInputProofs`, `IsotpConnProofs` | theorems of those modules | TLAPS |
| `PanelProofs`, `ValueProofs` | theorems of `Leds` and `Ringtone`; of `NumberFormat`, `MaskFormat` and `RtcLib` | TLAPS |
| `MCxxx` | the instances TLC checks | |

### 2.1 How state and actions correspond to the code

A thread that is inside a call has a program counter `pc[t]`; each action is one
step of one function, in the order of the code, and the labels are the places
where another thread may run: before a lock, between an unlock and what follows,
and around an access that no lock protects. Code between two such places is one
action. PROJECT.json maps every definition to its lines.

* **Database.** `task_list` is the intrusive list, `count` and `waitq` the
  semaphore, `stage` tells the look-up (`db_get_var_config`) from the access
  (`db_param_set_xx`, `db_param_get_xx`) of one call. `k_sem_give` with a thread
  queued hands the semaphore over without raising the count (`UnlockTo`).
  `LockTimeout` is the -EAGAIN of `k_sem_take`. `boot` counts the steps of
  `setup_database_init`; a thread in `EarlyThreads` calls before it, queues on
  the semaphore that is not yet initialised, and `DbInit` drops that queue:
  such a call ends by its timeout only.
* **ModbusSlave.** One request at a time (`pc`, `req`), `search` the three 16-bit
  indices of the bisection, `walk` the counters of the two loops. `applied` is a
  history of what a write stored, `var` the database. `OtherWrite` is a set of
  another thread between two parameters of one request.
* **DigitalOutput.** `mask` is `status_mask`, `pin` the level of each pin;
  `DriveFails` and `ReadFails` are the driver's errors. `shared`, `mixed`, `alone`
  are histories of which calls overlapped on a valve.
* **Alarm and DigitalInput.** A timer callback runs in an interrupt: one action,
  at any time, whether or not the mutex is taken. `k_mutex_lock` of an interrupt is
  granted when the interrupted thread owns the mutex, so the load and the store of
  a mask are two actions of a thread; a timer that comes between sets the history
  `damaged`. The work handler delivers one event per action, so a queue may
  fill, be flushed or be added to while it runs. `stale` (a direct change while
  the timer ran), `mixed` (overlap on the same alarm) and `dropped`/`untold`
  (an event lost) are histories that name the exceptions of the properties.

* **Leds and Ringtone.** Interrupts as in `Alarm`: `LedTick` and `ToneTick` are one
  action each and may come between any two steps of a thread. Each assignment of
  `led_set_mask` to a mask is a step, the load and the store of `status_mask` are two,
  and the lines are driven one by one from a copy of it. `ledAsked` is what was last asked of each
  LED; `ledOvertaken` are those set while `led_get_status` was between its reading of
  the line and its store. A text is a sequence of items (a note, a pause, a
  character to skip, and digits that end the text, whose tick takes the terminator with them); `toneEnd` and `uptime` wrap as the 32-bit times do.
  `toneCut` and `toneSwapped` say that a stop took the timer from a later tone, or
  that the text was replaced under a tone.
* **IsotpConn.** The semaphores are counts, as nobody waits for them. Each operation
  on the list has a begin and an end, and `connDamage` tells when two overlapped
  (`raced`), when a bind gave a semaphore in use (`forced`), and when a freed buffer
  was filled while the driver was sending from it (`torn`).
  `ConnSendFails` is an `isotp_send` that is refused.
* **NumberFormat, MaskFormat, RtcLib.** Pure functions of a field or a date, and the
  calls that change it. `numTyped` and `maskTyped` are what a user would say was
  typed; `RtcDayCount` counts the days. The clock (`RtcTick`) is the device.
  A year before 2000 handed to `rtc_calc_week_day` is changed in the caller's
  struct (`RtcGet`, `RtcConvert`): a timestamp of 1970 to 1999 sets the clock to a year from 3970 on.
  `RtcWrap` is what 32 bits keep of a timestamp beyond February 2106.

Definitions that a comment calls *seeded fault* are not part of any
specification: they are the code with a plausible bug, used to see that the
property beside them would notice it (PROJECT.json, `mutants`).

## 3. What TLC checks

Run a model with `tlc -config <run>.cfg <module>`.

| run | instance | shows |
|---|---|---|
| `MCDatabase` | main, the shell before the set-up, modbus; 4 parameters (8-, 16-, 32-bit, text) in 3 groups | `MutualExclusion`; `Linearizable`: the database implements `AtomicDatabase`, walks included; `SetupFinishes`, `CallsReturn`: no path keeps the semaphore; 0.1 M states |
| `MCDatabaseChecks` | 29 calls of one thread while another removes and adds a group | `GroupsListedOnce`, `WritesAreLegal`, `RemovedGroupsAreLeftAlone`; 0.3 M states |
| `MCDatabaseDefaults` | as above | *violated*: `DefaultsAreLoaded`; see 3.3 |
| `MCDatabaseShell` | as above | *violated*: `ShellStoresTheValue` |
| `MCModbusSlaveGap` | the Modbus instance of `MCLibraries` alone | *violated*: `EveryRequestAnswered` |
| `MCDigitalOutput` | 2 threads, 2 valves of opposite polarity, driver failures | `MaskMatchesPins`, `CallbackToldTheTruth`, `ForceSetsAll`; 0.9 M states |
| `MCDigitalOutputShared` | as above | *violated*: `MaskIsCurrent` |
| `MCAlarm` | 2 threads, 2 alarms (one debounced), a queue of 1 | `LastRequestHolds`, `MemoryCoversActive`, `MemoryIsExact`, `CallbackToldTheTruth`, `NoEventIsStranded`; 1.5 M states |
| `MCDigitalInput` | 2 threads, 2 inputs (one debounced), a queue of 2, ids that are rows | `ReportedIsStatus`, `LastUpdateHolds`, `CallbackToldTheTruth`, `NoEventIsStranded`; 2.6 M states |
| `MCDigitalInputRows` | the same with ids that are not rows | *violated*: `CancelledUpdateIsForgotten` |
| `MCLibraries` | one of seven libraries: the input table of the Modbus server, row by row, three rows of its holding table, requests of up to 3 registers around the ends of the tables, of the gap and of the wide row, three values; 2 LEDs and 2 callers; 3 texts, one caller that plays and waits, one that stops and swaps; 3 callers on 2 buffers; fields of 4 places; masks of up to 10 places; 20 years | `SearchStaysInTable`, `FoundIsAsked`: the bisection stays in the table and finds what is asked; `AccessStaysInRequest`, `SuccessIsComplete`, `FailureStoresAPrefix`, `WritesAreConfined`: access stays in the request, a success is complete, a failure stores a prefix, ranges hold; `RequestsAnswered`; `LedsShowWhatWasAsked`, `BlinkingLedsBlink`; `DeviceFollowsPlayer`, `WaitersAreWoken`; `ConnNothingLeaks`, `SentInOrder` (the queue implements `LossyQueue`); `NumberShowsWhatWasTyped`; `MaskHoldsWhatWasTyped`; `CalendarAgrees`; 0.4 M states |
| `MCLibrariesMask` | as above | *violated*: `CompleteWhenFilled` |

Six runs must pass, six refute a claim that a comment or a header of the repository makes (3.3).

`MCLibraries` takes seven libraries that share nothing into one run: its variable `library`
is chosen at the start and never changes, so its behaviours are those of the seven
modules one beside the other, not interleaved. `MCModbusSlave` is the instance of the
Modbus server in it. Deadlock is checked: a caller of
`ringtones_wait_done` may wait for ever, but others still call, and the clock can still be set
after the last year it runs through.

### 3.1 Bounds and why they are enough

* Threads: two or three. Every hazard of the lists is between two actors; the
  third of `MCDatabase` makes two threads queue at once.
* Parameters: one of each width, rows of the real tables with their real ranges;
  32-bit ranges are cut to 2^31 - 1, TLC's largest integer.
* Registers: the input table is the whole one of `src/slave_modbus.c`, with its gap (3 to 199)
  and its row of two registers at the end, read at, across and behind its ends by 0, 1 and 3 registers; of the holding table, which has no gap, three rows that a write
  of three registers can meet in part.
  Values 1, 40000, 65436 meet the ranges from inside, from outside, and as -100.
* Queues of 1 and 2 events make "full" and "two events in order" happen in few
  steps; the code's 10 only takes longer to fill.
* One debounced and one direct alarm or input; `hysteresis` calls change which.
* `MCAlarm`, `MCDigitalInput`: the constraint `Undamaged` does not explore states
  after an interrupt came between a load and its store; every property says
  nothing of them.

* `MCLibraries`: a fast blink and a heartbeat phase last one tick of the timer, a
  slow blink two, which makes counters that agree and that do not; the code's 4 to 20 only repeat.
  The uptime has 4 values and the timer a period of 3, so every note is timed
  across the wrap; a text of a note and a pause, one of a character to skip and a note that may
  replace another, and one that ends in digits. Two buffers of 20 fill after two messages; one of
  the three callers adds, one sends, one binds, unbinds and receives. Fields of 4
  places take every place of a fixed point and one digit more than fits. The
  whole masks of a time and of a hexadecimal number, and the beginning of a MAC address;
  the other masks only repeat their groups. Years 2021 to 2028 and 2096 to 2105, every day of
  them: leap years and the century year that is none; 3970 and 3972, which the timestamps of 1970 and 1972 set.
  The constraint `ConnFollowed` does not go on after two list operations overlapped or
  a bind gave a semaphore in use: the properties say nothing of what then happens.

### 3.2 Fairness

`Database!Fairness`: each thread that can step does (Zephyr is preemptive and
every thread here sleeps), and strong fairness of the hand-over, since a thread
queued on the semaphore is served in its turn while others come and go. Nothing
is assumed of time-outs or of users calling. `ModbusSlave!FairSpec`: the
work queue that runs the server is not stopped in a request, and so `ModbusServer` of
`MCLibraries!LibrariesSpec`; in the latter, besides, a timer
that runs expires again (`LedsTick`, `RingtoneTick`), and a thread that has stopped a
tone goes on to signal it (`RingtoneSignal`); nothing is assumed of the other
steps of threads. The other modules state safety only.

### 3.3 Where the code and what is said of it differ

1. `db_group_load_default` copies the default from one offset of a union whose
   members keep it elsewhere (`database.c:523`): 8- and 16-bit parameters load 0,
   `MdbAddr` outside its own range (`MCDatabaseDefaults`).
2. `db set` converts before it checks: 257 stores 1 (`database.c:259`,
   `MCDatabaseShell`).
3. A request for an address between two rows is never answered
   (`mdb_table_parse.c:240`, `MCModbusSlaveGap`).
4. Mask and pin of a digital output can disagree for good after two overlapping
   calls (`digital_output.c:117`, `MCDigitalOutputShared`).
5. An update of an input back to its status stops the timer of the row whose
   number is the id (`digital_input.c:357`, `MCDigitalInputRows`).
6. A mask with a 0 typed into it is never complete, against "todos os campos obrigatórios"
   of `mask_format.h:59` (`mask_format.c:224`, `MCLibrariesMask`).

Noted while reading, without a run: `digital_input_init` inverts `active_high`
(`digital_input.c:193`, against `digital_input.h:24`); the MB_EINVAL of "Value out
of range!" (`mdb_table_parse.c:478`) is unreachable, since no setter returns
-ERANGE; the high byte of a word written to an 8-bit register is dropped;
`db_group_remove` has no caller; `alarm_set` with the id -1 a stopped timer keeps
writes before its array (`alarm.c:261`); a query of a LED switches it back if it was
set between the reading and the lock (`leds.c:314`); a stop of a tone takes the timer
from a tone started in between, which then plays for ever (`ringtone.c:231`); a custom
tone leaves the index in the old text (`buzzer_lib.c:169`); a failed
`isotp_send` keeps the connection locked until the next bind, and the message is lost although a comment says it
goes back to the queue (`isotp_conn.c:266`); a message too long to receive never leaves its loop
(`isotp_conn.c:161`); `LED_YELLOW` ends in -EIO (`leds_lib.c:78`); a note of duration 0
divides by it (`ringtone.c:416`); a tone whose text ends in a digit without a note (`c8`, `c.6`) does not
end there, as the digit is read as the duration of the terminator, which is then skipped as a note that is none
and the text read on behind it (`ringtone.c:375`); a timestamp of 1970 to 1999 is not refused as too
old but sets the clock to 3970 to 3999, since the week day of its date is computed in place
(`rtc_lib.c:220`); a decimal field with a fixed point counts one
digit more than it shows, and with spaces for padding a number with fewer digits than
the precision is read ten times too large or more (`string_format.c:485`);
`rtc_set_timestamp` returns 0 for years that `rtc_set` refuses (`rtc_lib.c:163`).

## 4. What is proved

TLAPS checks these for every value of the constants that meets the module's
assumptions (`tlapm <module>.tla`).

* **`DatabaseProofs`.** Assumed: the main thread is one of the threads, arguments have the types
  of the exported functions (`CallAssumption`), and the tables write a range as values
  of the parameter's type, the lower end first (`RangeAssumption`).
  `Invariance`: `IInv` is inductive. To `MutualExclusion` it adds that only
  waiting threads are in the queue, since the hand-over lets one of them in, and
  that before `db_init` the count is zero and nobody is inside, since `db_init` sets
  the count to one. Every other step stays on its side of the semaphore (`SameSide`).
  `SectionsExclude` is `MutualExclusion`. `RemovedLeftAlone` is
  `RemovedGroupsAreLeftAlone`: by mutual exclusion the list does not change while
  a walk goes on, so what it has still to visit is listed (`WalkListed`), and of
  the accesses only a set stores.
  `DataInvariance`: `TInv` is inductive, types and list; `ListedOnce` is `GroupsListedOnce`,
  `TypeCorrect` is `TypeOK`. `WritesLegal` is `WritesAreLegal`. A setter compares with the range
  read through its own type and stores through the parameter's, so the lemma it rests on
  (`WrapViews`) is about two conversions of one width: n between the ends as one type reads them
  is, converted, between the ends as declared. This is false of a range whose ends are
  the wrong way round, hence that part of `RangeAssumption`, which every table meets.
  `DatabaseIsAtomic` is `Linearizable`, under the hypothesis `NoRemove` that nobody calls
  `db_group_remove`; nobody does, and with a removal between a look-up and its access
  the access would reach a group that is no longer listed. `FInv` says that where a thread
  is tells whether its call took effect, and that a call past its look-up still has its group
  listed (`ListGrows`). Each step is then matched (`StepMatches`): a walk takes effect as a whole
  when it begins (`BeginMatches`), as the refinement mapping shows its defaults loaded and its
  parameters shown from then on; an access when it is made; a failed look-up, a refused text and a
  timeout where they are found out; all else stutters.
* **`ModbusSlaveProofs`.** Assumed: tables sorted by address with fewer than 2^16
  rows, requests as the Modbus stack hands them over. `Invariance`: `IInv` is
  inductive; it adds to `TypeOK` that the row sought, if there is one, lies in
  the interval `idx_min..idx_max` and that the interval stays in the table
  (`SearchInterval`), and that the rows already checked cover exactly the
  registers counted (`CheckedSoFar`). The interval is what makes the search step
  inductive: `idx_cur - 1` is only taken where it does not wrap because the row
  sought is above row 0. `TypeCorrect`, `SearchIsInTable`, `SearchIsRight` and
  `AccessIsConfined` follow. `DataInvariant`, with the values in the range of their types as a
  further assumption (`ValuesAssumption`), says what the second loop has moved: the rows behind it,
  no others, each at the place of the buffer its address asks for, and nothing before the check was over.
  `SuccessIsWhole` (`SuccessIsComplete`), `FailureIsAPrefix` (`FailureStoresAPrefix`) and
  `WritesStayInside` (`WritesAreConfined`) follow.
* **`DigitalOutputProofs`.** Assumed: the calls are about valves of the table.
  `Invariance`: `IInv` is inductive. `Placed`: the valve a thread operates on is one its
  call touches. `Owned`: a valve not in `shared` has one thread on it, and
  so has any valve of a call that is alone. `Agree`: on such a valve mask and pin
  agree, except between a thread's mark and its pin, where they differ as that
  thread left them; the roll-back is right because of the second half. `SeenHolds`: what
  a status call read still holds when it writes it. `MaskAgrees` (property
  `MaskMatchesPins`) follows, as between calls nobody is between mark and pin.
  `CallbackIsTrue` is `CallbackToldTheTruth`: outside `mixed`, what the callback was told is
  the pin, except between a thread's pin and its callback, where the pin is what that thread
  is about to tell (`Told`); `Owned` says that there is one such thread.
  `ForceIsExact` is `ForceSetsAll`: while a force is undisturbed, a valve its loop has been
  to is as asked, and so is one it has not been to if the mask it looked at was
  (`Forcing`); as `Owned` holds on all valves of a call that is alone, nobody else changes one.
  `TypeCorrect` is `TypeOK`.
* **`AlarmProofs`.** Assumed: the calls are about alarms of the table. `Invariance`:
  `IInv` is inductive. `Owned`: the mutex belongs to the thread between a load and
  its store. `Loaded`: what it loaded is still there; this is what an interrupt in
  between takes away, so it is asked of undamaged masks only. With it
  `Covered` is inductive: `MemoryCovers` is `MemoryCoversActive`.
  `EventsAreDelivered` is `NoEventIsStranded`, `TypeCorrect` is `TypeOK`.
  `DebounceEnds` is `LastRequestHolds`: `DebounceInvariant` says, of an alarm in no overlap, what a
  set, a force and a timer have found out at each of their steps and that one thread at most is on
  it; for a force the rest of its loop is one more thing a thread has open. `MemoryIsRight` is
  `MemoryIsExact` and `CallbackIsRight` is `CallbackToldTheTruth`; `MemoryInvariant` adds the other half of `Covered`,
  that a remembered alarm was active, and that the last event queued for an alarm, or if there is none what
  the callback was told, is its state.
* **`DigitalInputProofs`.** The same two steps: `Owned`, then `Agree` (both masks are
  equal but between the two assignments of `set_all_state`). `StatusIsReported`
  is `ReportedIsStatus`, `EventsAreDelivered` is `NoEventIsStranded`, `TypeCorrect` is `TypeOK`,
  and `CallbackIsRight` is `CallbackToldTheTruth`, by the last event of each input as for alarms.
  `DebounceEnds` is `LastUpdateHolds`, and assumes besides that the ids are the
  numbers of their rows (`RowsAreIds`): with other ids it fails, as
  `CancelledUpdateIsForgotten` shows. The invariant `DebounceInv` says, of an input in
  no overlap, what an update has found out at each of its steps (`Pursues`), that one
  thread at most is on the input (`Sole`), and that when none is the input is `Settled`:
  it has the status asked for, or the timer pends that status.
* **`PanelProofs`, the LEDs.** Assumed: `LedAssumption`. `LedInvariance`: `LedIInv` is inductive.
  At most one thread is between its lock and its unlock (`LedHolder`), which keeps the assignments of a set
  apart from those of another; the timer runs in between all the same, with the mutex of the thread it interrupts,
  but changes the status of blinking LEDs only. So the invariant says of each place of a set what the modes
  (`LedMasksInv`) and the status (`LedStatusInv`) of the LEDs it sets are by then, of a thread that has loaded the
  status or read a line what stays true of what it has (`LedLoadedInv`, `LedReadInv`), and of the lines that those not
  being driven show what was asked for (`LedLinesInv`). Each part has a simple form when it is known who is inside a
  set (`LedSoleForm`) or that nobody is (`LedFreeForm`).
  `LedsAreRight` is `LedsShowWhatWasAsked`.
* **`PanelProofs`, the player.** Assumed: `ToneAssumption`. `ToneInvariance`:
  `ToneIInv` is inductive. To `DeviceFollowsPlayer` it adds who owns the mutex and that a call
  about to start a tone finds the player as it left it (`ToneReady`). `DeviceIsFollowed` is
  `DeviceFollowsPlayer`. That the index is at an item or at the terminator is said of texts that do not end in
  digits: digits are the last item only (`ToneDigitsLast`), a tick of any other item moves the index by one, and behind digits it is beyond the
  text.
* **`IsotpConnProofs`.** Assumed: there is a buffer, and threads, buffers and messages are told apart. `ConnInvariance`:
  `ConnIInv` is inductive. A thread holds a buffer exactly at the labels where it carries one
  (`ConnHands`), each buffer is in one place (`ConnPlaces`), and each semaphore is taken exactly
  when one thread, the driver or a failed send keeps it (`ConnKept`), until a bind gives
  one in use. `NothingLeaks` is `ConnNothingLeaks`. `QueueIsLossy` is `SentInOrder`, the refinement of
  `LossyQueue`: a message is accepted when its buffer is put on the list and
  taken when the driver starts with it; that a buffer queued, filled or being sent holds a message is
  `ConnContentsInvariance`.
* **`ValueProofs`.** What loops compute over their whole input. The induction theorems of the
  library take an operator as a parameter and cannot be used; the well-founded ordering of the finite
  subsets of `Nat` (`WFMin`) gives the same: a set of numbers has a least one (`LeastIn`), hence induction
  over a set that is named (`InductIn`) and functions by recursion (`RecursionIn`).
  `CalendarIsRight` is `CalendarAgrees`; assumed is `RtcAssumption`: any calendar date up to the year 32767, the
  largest of the code's 16-bit years, handed to `rtc_set`, any 32-bit timestamp up to the end of its last whole day handed to
  `rtc_set_timestamp`, a clock that runs through any of these years. The day of the week is right in all of them, those
  that old timestamps set included (`RtcMovedYear`: moving a year by 2000 keeps the date a date, as 2000 is a multiple of
  400); timestamps and the way back are, up to the end of 2105, where 32 bits end. The leap
  years counted are in closed form by induction over the years (`RtcLeapCount`), the days before a month
  month by month (`RtcDaysGrow`), and with them each formula of the code is equal to its count; the way
  back from a timestamp is where the integer quotients have to land in the right year and month
  (`RtcYearOf`, `RtcMonthOf`).
  The invariant is that a clock that runs has a calendar date after 2020. It does not say that the date is the one of
  the timestamp given, which is not so of one before 2000 (3.3).
  `MaskHoldsIt` is `MaskHoldsWhatWasTyped`, for any mask with a place that must be filled, as all of the
  tables have: `MaskHolds` says that the places
  to type into before the position hold the characters taken, in their order, and those from it on
  their placeholders. A character added keeps it (`MaskAddedHolds`), a text set keeps it by induction over
  its characters (`MaskTakenHolds`). It says that a complete field is filled, not that a filled one is
  complete, which is refuted (`MCLibrariesMask`).
  `NumberShowsIt` is `NumberShowsWhatWasTyped`, for any field of up to 29 places; `NumInv` says that the places that move are padding and behind
  it the characters typed (`NumRow`), with the point set in where it is fixed (`NumPlaced`). A shift in or out of the field is
  then an `Append` to or a `Front` of what was typed (`NumShiftedIn`, `NumShiftedOut`), a digit pushed out included.
  Reading is a recursion over the field: padding in front leaves nothing read (`NumSkipped`), a
  point is overlooked (`NumOverlooked`), and the digits behind it are counted (`NumBehindPoint`).

Only model-checked: liveness under fairness (`SetupFinishes`, `CallsReturn`, `RequestsAnswered`,
`BlinkingLedsBlink`, `WaitersAreWoken`), as ENABLED and fairness are out of the prover's reach. Every other
property of the runs that must pass is a theorem; `Linearizable` under the hypothesis that nobody
removes a group, and `LastUpdateHolds` under the one that ids are rows, as the run that checks it has them.
No theorem says anything of a 32-bit value from 2^31 up, as the model does not.

## 5. What is not modelled

* Floating point; 64-bit parameters, whose functions are compiled (`TYPEDEF_ENABLE_VAR_B64`,
  `typedefs.h:15`) but which no row of the tables is, and which exceed TLC's integers; register
  rows of float and text (no table has one); 32-bit values from 2^31 up, so that a signed set of a
  32-bit parameter with the range 0 to 2^32 - 1, which the code refuses whatever the value as it reads the range as 0 to -1,
  is accepted by the model; texts are
  their lengths; the layout of what `db show` prints and its VAR_FIELD_HIDDEN filter.
* Enumerations are one byte (`-fshort-enums` of the ARM ABI); the words of a
  request are in network order, as the stack's buffer.
* Timestamps of alarms and inputs; the masks copied into an event;
  `mem_clear_callback`; deinit functions.
* An interrupt that finds a mutex owned by another thread than the interrupted one:
  `k_mutex_lock` would then suspend the interrupted thread.
* Of the libraries: the values of duration, octave and frequency in an RTTTL text (a duration of 0,
  by which the code divides, among them), and the buzzer's volume;
  overflow of the int value of a field and rounding of the float one; months of 0, and
  `rtc_format_*`; a clock device that refuses a date (it is taken to accept any); `leds_lib.c`, a switch that sets
  GPIO lines directly, without `leds.c`.
* The case some hazards of PROJECT.json are about is in the models but excluded from their properties by a history variable
  (`mixed`, `stale`, `dropped`, `untold`, `shared`, `alone`, `ledOvertaken`, `toneCut`, `toneSwapped`, `connDamage`): no
  document of the repository says what should hold then. The note of each such hazard says what the property still says.
* `lcd_lvgl_demo` (`src/main.c:50`), drivers, constant data, and the components listed
  as `not_modelled` in PROJECT.json.

## 6. What could come next

1. An abstract debouncer that `Alarm` and `DigitalInput` both implement.
2. `Linearizable` with removals, against an abstract database whose accesses may reach a group
   removed since their look-up.
3. The notes of an RTTTL text and the formats of `rtc_lib` as parsers over short inputs.
