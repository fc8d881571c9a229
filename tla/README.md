# Verification of the AiPi clock

TLA+ models of the firmware in `src/WB2-clock2` and of the part of the PC tool
(`src/serial_tool`) that uploads images to it, checked with TLC and partly
proved with TLAPS. Of the vendored SDK under `src/sdk`, the settings store
(EasyFlash) is modelled as the clock uses it, the rest only by what the
firmware sees of it.

Every module translates code, not comments; where a comment and the code
disagree, the module follows the code and a run shows the difference.

## 1. Inventory

| Component | State | Operations | Talks to | What is hard |
|---|---|---|---|---|
| Boot counter, `xcmd/bootcnt.c` | magic and count in the last sector of the media partition | increment (erase, write), clear, restore | boot, factory reset, time, keep-alive, provisioning all write it | resets between its two writes; writers in three tasks; shares the partition with the images |
| Boot and factory reset, `main.c` | `w_fwver`, `s_media_erase_pending`, progress bar, `g_got_ip`, `g_ntp_done`, `g_force_full` | `factory_reset_if_new`, `boot_logo_show`, `boot_logo_wait`, `media_erase_task`, `conn_timeout_task`, `sntp_task` | boot counter, WiFi events, provisioning mode | six tasks and timers race; every flash write may be the last before a reset; the wait must end |
| Provisioning mode, `xcmd/provision.c` | `g_prov_active` in RAM, `w_plast` in flash | `prov_boot_check`, `prov_enter` (called by `main` and by the 45 s timeout), leaving after success | boot counter, reset | RAM and flash must agree after any reset |
| Provisioning dialogue, `xcmd/provision.c` | `s_connecting`, `s_configured`, `s_conn_fail`, `s_retry_left`, the pending retry tasks, `g_cfg` | `handle_save` (HTTP worker), `prov_wifi_cb` (event loop), `prov_retry_task` (delayed) | WiFi manager of the SDK, phone | three tasks share flags without a lock; events of an old attempt meet a new submission |
| Image upload, clock side, `xcmd/img_upload.c`, `xcmd/xcmd.c` | session (`s_h`, `s_total`, `s_recv`, `s_expect_seq`, `s_base`), media flash, `w_bootimg`, `w_booton`, `wall_valid` | XIMGSTART, XIMG, XIMGEND, XBOOTCLR, XBOOTIMG | PC tool, flash driver | repeated and missing blocks, resets, erase granularity |
| Image upload, PC side, `app/wall_upload.py` and the widget and worker it uses | upload threads, one `AckWaiter`, send queue | buttons, `run`, `_send_img`, `_expect`, `notify`, timeouts | clock over a 2 Mbaud line | lost and late answers, resends, two threads on one waiter |
| Wallpaper playback, `xcmd/img_upload.c`, main loop | snapshots, animation step, visibility flags | `set_vis`, tick, abort, show, hide, bind | upload (hides and shows), main loop | an animation interrupted by an upload or by the next switch |
| Line protocol and settings, `xcmd/xcmd.c` | line buffer, `g_cfg` | `xcmd_feed`, `cmd_cfg`, `cmd_wall`, ... | every other component's settings | overflow and loss of a line end |
| Settings, `xcmd/cfg_store.c` | `g_cfg` in RAM, the numbers `cfg_save` has formatted | `cfg_load`, `cfg_save` (called from the event loop by the commands, from the HTTP worker by `handle_save`) | settings store, provisioning, commands | two tasks save at once, and strings are measured and stored while the other rewrites them; each key is written by itself |
| Settings store, EasyFlash (`sdk/.../ef_env.c`) | records and sector headers in flash; address cache, collection request and recovery flags in RAM | `ef_set_env_blob`, `ef_get_env`, garbage collection, recovery in `ef_load_env` | settings | a set is many flash writes, each the last before a reset; collection moves records while one is replaced |
| Weather, `custom/weather.c` | location cache, provider | rounds every 30 min, retry, geo lookup | settings commands | a setting changes during a round |
| gzip decoder, `custom/gz.c` | none between calls | `gz_inflate` | weather | a pure algorithm on long bit strings |
| Scan list of the phone page, `xcmd/provision.c` | `s_scanning`, semaphore, results | `prov_scan_refresh`, `scan_done_cb`, `prov_scan_wait` | WiFi manager | a wake-up that belongs to an earlier scan |
| Screens, lamp, captive DNS, HTTP parsing, windows of the PC tool | presentation or byte formats | | | not modelled, see section 8 |

Correctness, component by component, is what the properties of section 4 say.
The hazards they were chosen for, with their lines, are in `PROJECT.json`.

## 2. Modules

| Module | Models | Composes |
|---|---|---|
| `Media` | the media partition: layout, erase by sectors, NOR programming, padding to blocks | |
| `ImgDev` | the clock's upload session, one action per command handler | extends `Media` |
| `ImgUpload` | upload threads, waiter, line with faults, resets | extends `ImgDev`: the tool and the clock together |
| `BootLife` | from reset to the main loop, boot counter, factory reset, entering and leaving provisioning | |
| `Provision` | the provisioning dialogue: HTTP worker, callback, retries, WiFi manager | |
| `WallPlay` | wallpaper playback: main loop, transitions, upload commands on the screen | |
| `KeyStore` | abstract: what a caller may expect of the settings store | |
| `EnvStore` | EasyFlash: records, sectors, replacement, collection, recovery | |
| `Settings` | `g_cfg`, `cfg_load`, `cfg_save` by several tasks, resets | extends `EnvStore`; implements `KeyStore` |
| `ImgUploadProofs`, `BootLifeProofs`, `ProvisionProofs`, `WallPlayProofs` | theorems about the module of that name | |
| `StoreProofs` | lemmas about the steps of `EnvStore` | |
| `KeepProofs` | types of `Settings`; it implements `KeyStore` while there is room | extends `StoreProofs` and `Settings` |
| `RoomProofs` | there is room | extends `KeepProofs` |
| `AgreeProofs` | what is found is what is stored; RAM and flash agree | extends `RoomProofs` |
| `MC...` | the small instances that TLC checks | |

### Media, ImgDev, ImgUpload

`flash` maps the cells of the partition to what they hold: a cell of a given
image, padding, a blank cell, a mixture, or the counter. `Erase` works on whole
sectors and `ProgramCell` only clears bits, as the flash does, so writing twice
without erasing is visible. `sOpen` stands for `s_h != NULL`; the other session
variables keep their names (`sTotal`, `sRecv`, `sExpect`, `sBase`). `ImgStart`,
`ImgChunk`, `ImgEnd`, `BootClr` and `BootImg` are the handlers, their early
returns included; a handler runs to its end in the event loop task, so it is
one step.

An upload thread is `pc`, `img`, `seq` and `attempt`; in `pc` "start", "img"
and "end" it waits for that command's answer. `slot` is `AckWaiter._result`:
one place for all threads, overwritten by a newer answer, compared by the
command's name only. `tx` is the send queue and the line to the clock, `rx` the
line back and the queue of Qt signals. The faults are a lost frame, a damaged
block (the checksum turns it into ERR), an IMGSTART that lost digits of its
total or its type (it has no checksum, and `cmd_imgstart` takes a missing type
for the wallpaper's; `GarbleStart`), a lost answer, and a reset of the clock.
The history variable `typeLost` says that the newest IMGSTART to arrive had
lost its type: from then on a boot image goes to the wallpaper's area. A
timeout while an answer is still on its way is bounded by itself (`late`).
`bl_mtd_erase` and `bl_mtd_write` always return 0 in this build, so the error
paths behind them are absent.

### BootLife

Variables in flash survive `Boot`; those in RAM do not. `Boot` (EN, a power
cut, the reset that ends provisioning) is enabled in every state, so between
any two flash writes. The counter's increment is two steps (`CountErase`,
`CountWrite`), and so is entering provisioning (`Enough`, `SetPlast`; and
`EnterPlast`, `EnterTask` for `prov_enter`, once for each of its two callers).
The progress bar counts in quarters with the caps of `boot_st_update`. Timers
are steps that may happen at any time in the order their lengths impose: the
keep-alive (3 min) after the connection timeout (45 s). `presses` is a history
variable: boots since the count was last forgotten for a reason the code
states.

### Provision

`worker` is where the HTTP worker is in `handle_save`: copying into `g_cfg`,
each of its three stores (`SetConnecting`, `ClearFail`, `RenewRetries`), the
scan, the connect. `events` is the event queue, `turn` how many registrations
of the callback have still to see the event at hand, `retries` the delayed
tasks with the submission each was made for, `due` those that have passed their
test and not connected yet, `sta` and `code` the station and the status code
the manager keeps. The callback's stores are one step: the event loop has a
higher priority (15) than the worker (12) and the retries (10), so neither runs
between them, while it may run between any two of theirs. `cut` records that a
failure was reported between the worker's first two stores. `Connect` is the
manager's: a request that meets an attempt in progress aborts it, which posts a
disconnect, and the new attempt follows or is lost; after a lost connection the
manager tries again by itself (`Down`, `Reconnect`) unless it was told not to.
`Garbled` is what `handle_save` may read out of memory it has already freed.

### WallPlay

`at` says whether the main loop, in its present turn, has already run the LVGL
timers; it holds `lvgl_mutex` from there to the end of the turn, so the
handlers' steps that take the mutex are enabled only before a turn
(`Unlocked`), while their writes of `g_cfg` and `g_wall_vis` may fall between
timers and playback. `img` is the wallpaper object (hidden, at its place,
opaque, full size), `uiHid` and `uiHome` all objects of the clock together,
`savedHome` whether `s_ui_x0` and `s_ui_y0` hold their place, `kind`, `target`
and `frame` are `s_anim_kind`, `s_anim_show` and `s_anim_frame`. `due` is `t -
wall_lt` against the duration: another duration (`#XWALL`, or the other
picture's) may make time that was over running again. `cmd` is where
`cmd_imgstart` and `cmd_imgend` are.

### Settings, EnvStore, KeyStore

The flash is `sec`, the sector headers, and `node`, the records of each sector
in the order of their addresses. A record is its status (as far as the status
table has been programmed), its key, its value and how much of it was written
(`data`: no header, the header, all; "part" also where the checksum is not that
of the bytes). One step is one flash write of `ef_env.c`, named by `pc`:
marking the old record PRE_DELETE (`PreDelete`), the sector's status, the new
record's status, header and body, ENV_WRITE, deleting the old record, and what
follows (`After`). `mv` is the record being written and the one it replaces,
whether `ef_set_env`, the collector (`move_env`) or the recovery writes it;
`gc` is `gc_collect`'s place, with `gc.ret` saying who called it; `pos` is the
recovery's. The cache is modelled with its weakness: a hit compares the name at
the cached address and not the status (`CacheHit`), and an entry may be
displaced at any time (`Finds` allows either answer). All records have one
size, a sector holds `Cap` of them.

`Settings` adds who calls the store. A command handler (or `handle_save`)
begins to copy strings into `g_cfg` (`Copy`), and then assigns the numbers and
enters `cfg_save` (`Save`), which formats the numbers into its own buffers
(`snap`) but passes strings from `g_cfg` itself; `SetKey` is one
`ef_set_env_blob`, `at` the place in the list of keys, `holder` the task that
has the store's lock. A string is measured before the lock is taken and read
twice under it, for the checksum (`ef_env.c:1400`) and to be written
(`ef_env.c:1423`). So while one task is copying (`copying`), or after it has
changed a string that the other has just measured (`stale`), what the other
passes may be anything (`Values`); and a change between lock and write
(`Change`, `ValueChanges`) may alter what is stored, or leave a record whose
checksum is wrong (`mv.crc`), which counts as incomplete. The two tasks
interleave at every step, which is more than their priorities allow. `Load` is
`cfg_load`. `Reset` may come in every state: flash stays, everything in RAM
goes, and the store starts its recovery at "down". History variables say which
keys the properties do not speak of: `damaged`, those whose interrupted
replacement the recovery will overlook (`Endangered`, judged at the reset);
`crossed`, settings that one task changed while another had formatted (a
number) or measured (a string) them and not yet handed them to the store; and
`torn`, strings that changed within the set that was storing them, of which
`KeyStore` promises nothing, though `SettingsAgree` still does.

`KeyStore` has the value of each key, the set under way, and the keys it
promises nothing about: a set takes effect at one moment between call and
return, a reset changes no value, and whatever happens no key changes but the
one that is set and those without a promise (`OthersStay`). Such are one key
per reset and a string whose caller changes it during the call (`Spoil`).
`StoreKept` is its specification with `cur` mapped to `Stored`, the value the
flash holds: that of the complete record in ENV_WRITE, else of the one in
PRE_DELETE that is being replaced.

## 3. Runs and bounds

| Run | Instance | Shows |
|---|---|---|
| `upload` | partition of 20 cells, boot image 5, wallpaper 3, blocks of 2, sectors of 4; 1 thread, 2 attempts, 2 uploads, 3 faults, 1 late answer, 1 button | an upload reported stored is stored; no commit of a mixture; resends harmless; counter untouched; uploads end |
| `upload_areas` | the same, no faults | violated: a stored wallpaper is destroyed by the IMGSTART of a boot image |
| `upload_concurrent` | 2 threads, boot images only, no faults | violated: two threads make the clock commit a mixture |
| `boot` | 3 presses ask for provisioning, 7 boots | the mode, the counter, the factory reset and the end of the boot screen |
| `boot_no_time` | 2 presses, 2 boots | violated: without the time the boot screen stays |
| `boot_request` | 2 presses, 3 boots | violated: a reset at the wrong moment loses the request |
| `provision` | a right and a wrong password, 2 retries (as in the code), 1 or 2 registrations, 3 submissions | bounded calls to connect; a verdict in the end, unless a failure is reported between lines 911 and 912; and a true one |
| `provision_stale` | 1 registration, 2 submissions | violated: a retry of the earlier submission connects |
| `playback` | fades of 2 frames, slides of 3, 3 commands | attributes restored, no overlap, the new picture bound, the clock comes back, pictures alternate |
| `playback_place` | the same, 1 command | violated: a first fade or zoom moves the clock to (0,0) |
| `playback_off` | fades of 1 frame, slides of 2, 3 commands | violated: the wallpaper stays after playback is turned off |
| `settings` | 3 sectors of 3 records, a string and a number, 2 values, 2 tasks, 1 reset, 2 saves after it (any number before it), 1 string changed within its set | the store implements `KeyStore`, has room, answers what is stored; RAM and flash agree; sets and recoveries end |

The sizes of `upload` keep the build's relations: the boot image is a multiple
of neither block nor sector, each image has a last block with padding, and the
counter's sector follows the wallpaper. Three faults and a late answer suffice
for a fault while the consequence of another is still on its way; two uploads
for a second one that finds what an aborted one left. Other instances were
tried with the same result: 2 faults with 3 uploads, 4 and 5 faults, and 2 late
answers without a fault. Two late answers together with a loss break
`HostOkMeansStored` and `CommitComplete` in an instance this small: each late
answer puts the waiter one answer behind (`AckWaiter` compares the command's
name only), an upload that is ahead by a block can end with the blocks of the
one before it, and boot image and wallpaper differ by one block. In the build
they differ by 19 (141 blocks and 122), but two uploads of one kind need no
difference: with one kind of image, two attempts, three uploads and two faults,
three late answers break all three, one more than there are attempts (five in
the tool). With one late answer all three hold for every size, as section 6
proves. Seven boots allow three presses, an accidental boot, provisioning, and
two boots that resume it. Three submissions allow one during each of the states
of the one before. Transitions of two and three frames have a first, a middle
and a last frame; three commands are an upload's start and end and one `#XWALL`
around or between them.

`settings` bounds the resets, the saves after the last one and the strings that
change within the set that stores them; before the reset the tasks save without
a bound, so that the sectors fill, are collected and wrap round, and the reset
meets every state of that. Three sectors (the clock has 8) are the least that
have room for ever: one in use, one to be collected, one kept back for
collection. A sector of three holds both keys and one replaced record. Two
saves after the reset suffice for a collection after the recovery. Four sectors
with three saves were checked before the tears were added, with the same
result. That nothing else depends on these sizes is proved (section 6).

With two sectors one reset can leave a store that reports EF_ENV_FULL. A second
reset is a limit of the code, not of the run: with two resets and saves without
a bound between and after them the store runs out of room in every instance
tried, this one included. Therefore `RoomForAll` claims room up to the second
reset and nothing after it. Each cut set leaves a used-up slot in the sector
being written; the second leaves besides two records of the key it cut, the old
one in PRE_DELETE and, from the next set on, a new one. A collection that is
not on request then finds full what it takes for a sector with room, and may
not take the last empty one. In four sectors the behaviour TLC finds loses the
old record of that key; in three, with three saves after the second reset, the
only record of the other key, which no reset had damaged. The model stops in
`settings` when the saves are used up (`CHECK_DEADLOCK FALSE`); likewise in the
others when uploads, boots or submissions are.

## 4. Properties

Upload: `HostOkMeansStored`, `CommitComplete`, `ResendIdempotent`,
`CounterSectorSafe`, `UploadEnds`, `OtherAreaUntouched`. Boot: `OnlyAskedFor`
(provisioning needs `Need` boots in a row without a sign of normal use),
`ModePersists` (in the main loop RAM and flash agree on the mode),
`FlaggedImageIsThere`, `EraseKeepsCount`, `BootSettles`, `RequestKept`,
`BootScreenLeft`. Dialogue: `NoStorm`, `VerdictTrue`, `StatusSettles`,
`StaleRetryDropped`. `StatusSettles` is about what `handle_get_status` answers:
the phone is told "ok" or "fail" in the end. It excepts the one case in which
it is not (`cut`, section 7). `HostOkMeansStored` and `CommitComplete` say
where the image is when the type was lost: whole, and in the wallpaper's area.
Playback: `AtRest` (whatever interrupted a transition, no timer and no
half-changed attribute is left), `NeverBoth`, `NewImageBound`, `ClockReturns`,
`Alternates`, `UiInPlace`, `OffShowsClock`. Settings: `RoomForAll` (up to the
second reset no set fails and no collection throws a record away for want of
room), `AnswersRight` (the cache, which is never checked against a status, does
not answer with an old value), `SettingsAgree` (between saves RAM and flash
agree, also about a string that one task rewrote while the other was storing
it; it excepts `crossed`, and for a string that exception is needed as for a
number), `StoreKept` (the refinement of `KeyStore`), `StoreSettles` (every set
and every recovery ends, though `ef_load_env` repeats itself without a bound).
Each module states them with the code they are about. Each property of a
passing run comes with a mutant of the code it fails for (operators marked
"Mutant of").

## 5. Fairness

Weak fairness of each task that the code keeps running: upload threads, the Qt
loop and the clock's event loop (`ImgUpload`); `main`, the erase task and the
timers (`BootLife`), with the answer of a time server added in `SpecWithTime`
only, because the code does not control it; the HTTP worker, the event loop,
the retry tasks and the end of a connection attempt (`Provision`); the task
that holds the store's lock, and the boot (`Settings`; the next `SetKey` is not
fair, since nothing is claimed of a `cfg_save` as a whole). Faults, resets,
buttons, commands, saves and submissions are never fair. In `WallPlay` the main
loop and the time are weakly fair, and a handler in the middle of a command
strongly: the main loop takes and gives back the mutex for ever, and it sleeps
5 ms after giving it back, so that a waiting handler gets it. Elsewhere `WF` is
enough: no task is disabled and enabled again for ever by another. `Alternates`
assumes besides, in its premise, that in the end no picture's time is over
before its transition; the comment at `img_upload.c:188` takes this for granted
of intervals of a second and more.

## 6. Proofs

`ImgUploadProofs` holds for every layout, number of threads, retries and
faults, under the named assumptions of `Media` and `ImgUpload`:

- `TypeCorrect`: `TypeOK` is inductive as it stands; the proof has one step per
  action, and a lemma per handler of the clock and per way a thread goes on.
- `CounterSafe`: no upload reaches the boot counter's sector.
  `CounterSectorSafe` is not inductive (a session with a larger total would
  write over the sector), so it is strengthened to `CounterInv`: every IMGSTART
  on the line, as it was sent, asks for the padded size of an image of its kind
  (`FramesFit`), and the open session ends before the sector (`SessionFits`).
  What loss makes of an IMGSTART keeps that (`StartFits`): a total without some
  of its digits is smaller, and a boot image's total at the wallpaper's base
  ends before the sector too (`Clear`, part of `LayoutAssumption`; in the build
  140800 + 141000 rounded up is 282624). The arithmetic is in
  `UploadStaysBelow`: with `LayoutAssumption` (the build: 143360 and 266240 are
  at most 286720) what an image's upload erases, rounded to sectors, and what
  it writes end before the last sector. The code has no such check
  (`img_upload_start` allows totals up to the partition's end): the sector is
  safe because of what the tool sends.

- `HostOkOneLate`, `CommitCompleteOneLate`, `ResendIdempotentOneLate`: with one
  thread, and in behaviours where at most one answer comes after its timeout
  (`[]OneLate`), for every number of frames and answers lost or damaged, of
  resets and of uploads, when a boot image and a wallpaper differ in the number
  of blocks (`KindsDiffer`: 141 and 122 in the build). Lost types are among the
  faults: what is proved is that the image is stored whole, in its own area or,
  the type lost, in the wallpaper's. (`UploadOneLate` only restates them for
  `MaxLate <= 1`, the run's value.)

  Up to the late answer `StoredInv` holds: one command or answer is on its way
  at a time and it is the thread's (`Alone`); an open session has in flash what
  it has received of the thread's image, at the base of the area that the type
  as it arrived names (`Kind`, `typeLost`), and blank cells beyond (`Session`);
  and `Along` says how far session and flash are at each place of the thread,
  an OK that the thread has not seen yet included. `HostOkAlways` and its two
  companions are what follows from this alone (`[]NoLate`).

  The late answer makes that false for good: from then on the waiter may be one
  answer behind, until one is lost. `LateInv` says what is left. Two commands
  or answers are on their way, both answers only when the line is empty
  (`Few`), and the last of them is the one the thread waits for (`Newest`).
  While blocks are sent (`Blocks`) the session lacks at most the last block
  before this one; that is enough, since the clock refuses a block that is
  ahead. What an upload given up has left on the line belongs to the session
  (`Between`). An upload whose IMGSTART was lost while an earlier answer stood
  in for its own sends its blocks into the session of the one before. If that
  is of the same kind the flash is right all the same (`Filled` speaks of
  pixels, not of sessions). If it is of the other kind (`~Own`) no answer is
  late any more, the session has each block this image has and no other
  (`Ending`), and IMGEND finds its total wrong: a total is that of an image of
  the kind the session was asked for or one that lost digits (`Asked`). There
  `KindsDiffer` is used, and TLC shows that it must be: with equal numbers of
  blocks and one late answer `CommitComplete` fails.

  The other premises are needed too: two threads are `upload_concurrent`, and
  more late answers break it (section 3).

`BootLifeProofs` holds for every threshold `Need` of at least 2 and every
number of resets. Its parts, each inductive alone or with the one named:

- `ModeInv` gives `ModePersistsAlways`. `ModePersists` speaks of the main loop
  only; the induction needs who may write the mode where: before the check of
  the counter nobody (`NotYet`), where `main` enters it nobody else, since the
  timeout runs only with a network (`ModeFacts`, `MainEnters`).
- `EraseInv` gives `FlaggedImageAlways`: while the erase is due or runs, no
  flag is set and `main` has not opened the serial port.
- `CountInv` gives `OnlyAskedForAlways`. The danger is a count in the RAM of
  `media_erase_task` that is written back after another task has forgotten it;
  it cannot happen because the factory reset has removed the network, so none
  of those tasks runs (`QuietWhileErasing`).
- `KeepInv`, with `CountInv`, gives `EraseKeepsCountAlways`.
- `TypeInv`, with `ModeInv`, gives `TypeCorrect`; `TaskBound` is what makes
  `tasks <= 2` inductive.

`ProvisionProofs` holds for any credentials, `RetryMax` and number of
submissions, with the callback registered once or twice. `NoStorm` counts calls
of `wifi_mgmr_sta_connect`, not the manager's own reconnections. It becomes
inductive when the calls that may still come are added: waiting retries and
those past their test, retries left, and what the worker has pending (`Spent`).
`VerdictTrueAlways` says that with one registration, and a user who waits for
the verdict, there is one thing under way and six places where it can be
(`Situation`): nowhere, in the worker, an attempt, its disconnect event, a
waiting retry, or its address; after the verdict there is nothing left that
could change it.

`WallPlayProofs` holds for every length of the transitions. `TypeOK`, `AtRest`
and `NeverBoth` are inductive together, `NewImageBound` after it is stated for
the steps of commands too (`SourceBound`).

`KeepProofs` has `TypeCorrect` of `Settings`, for every number and size of
sectors, keys, values, tasks and resets. It needs of the store where its
iterators and the record being written may stand (`StoreProofs` has a lemma per
step), and of the callers that the lock is held exactly while a set is under
way.

`KeepProofs` also proves `StoreKeptAlways`: in behaviours with at most one
reset (`[]FirstReset`) that do not run out of room (`[]HasRoom`), `Settings`
implements `KeyStore`, torn strings included. One reset is the bound of the run
too; with two, a reset in a recovery from the first leaves two records to be
deleted, and the invariant below would have to count them. The invariant
`KeepInv` says in `Checked` that a record whose checksum is wrong is one of a
torn string, and has these parts for each key that is neither damaged nor torn
(`Spoilt`):

- `Whole`, records whose status counts are complete;
- `One`, one record is live, and at most one that was to be deleted is left by
  a reset, beside the one being replaced;
- `Cached`, the cache points to the live record or to the one being replaced
  (needed because a hit does not check the status);
- `Replaced`, `Answered`, where old and new record are at each write, and that
  a set whose new record has its status has taken effect;
- `Ahead`, what the collection or the recovery has passed holds nothing of the
  key, so the erase destroys nothing;
- `Open`, no unfinished record ends the recovery's search before an old record
  that is still needed. This is what a reset may break, and exactly then the
  key is `damaged`.

There is one lemma per step that it keeps the invariant and that `Stored` does
not change, save for the write of the new record's status, where it becomes the
value that was to be set. The refinement follows: that write is `Effect`, a
reset is `Reset`, a string changed within its set is `Spoil`, and every other
step is `Call`, `Return`, `Decay` or a stutter.

`RoomProofs` proves `RoomForAllAlways`: with three sectors or more, for any
number and size of records and any number of saves and resets, up to the second
reset no set fails, no collection is without a place for a record, and no
recovery without room to collect. The bound on resets is in the property, since
beyond it the conclusion is false (section 3), and two sectors are too few. The
theorem speaks of behaviours until a string is changed within the set that
stores it (`torn = {}`): the records without a right checksum that such changes
leave are used-up slots, and how many of them the store bears is not counted by
the invariant; the run has one such change. Room is made by conventions spread
over the code: `alloc_env` keeps the last empty sector back unless a collection
is due, `SECTOR_STORE` and the dirty marks steer what is collected, and the
recovery collects on request. `RoomInv` says what they come to, in terms of
empty sectors and of *tidy* ones (in use, nothing marked dirty):

- `Shape`: the only slots wasted in tidy sectors (`Stale`) are one that the
  reset left, in one sector, and none while a key has two records; a header
  tells whether its sector has room;
- `Calls`: outside of collection and recovery there is an empty sector, and a
  second one, or one in use that takes the records that are elsewhere
  (`Ample`);
- `Collects`: the same for each place of a collection, by what it was called
  for;
- `Starts`: the same for the recovery, in which the reset may fall on a
  collection that had used the empty sector up;
- `Early`: before the reset nothing is wasted.

A sector *takes the records that are elsewhere* because a sector holds at least
one record more than there are keys (an assumption on the constants): if each
key has one record, a sector without wasted slots is full only with a record of
every key, and then nothing is left to be moved. The lemmas `Crowd`, `Single`
and `Spare` are this count. It breaks for the key that the reset damaged, which
may have two records; `Scars` bounds the harm: one key at most, with two
records at most, one while the recovery runs, and no other key with any left to
be deleted. `RoomKept`, all of it with `KeepInv`, is inductive:
`StoreStepRoom`, `ScarsStep`, `ResetRoom` and `ScarsReset` are the cases, over
a lemma per action. Each part was checked with TLC before it was proved, on
instances from three to six sectors and two to five records to a sector.
`StoreKeptWithRoom` is then the refinement with nothing assumed about room, for
behaviours with at most one reset and no torn string (`Untroubled`).

`AgreeProofs` proves `AnswersRightWithRoom` and `SettingsAgreeWithRoom`: with
three sectors or more both properties hold as long as the behaviour is
`Untroubled`. The first follows from `KeepInv`: with the lock free no record
but the live one can be found. For the second the invariant `AgreeInv` adds,
for each setting that was not changed between its formatting or measuring and
its storing, that what any `cfg_save` has formatted is still so (`Formatted`),
that a setting whose value is not in the store is on its way there or still to
be set by some task (`Coming`), and that a string whose length is out of date
is being rewritten by a task whose save comes after, or is `crossed`
(`Measured`). So half-copied strings and lengths taken too early are covered by
the proof; a change between the lock and the write is not.

Only model-checked: what the store and `SettingsAgree` do after a string was
changed within the set that stores it (`StoreKeptAlways` apart), and every
liveness property, which the provers do not reach.

## 7. Findings

1. `upload_areas`: the border of the areas is aligned neither to sectors nor to
   blocks, so images of the two kinds damage each other. In the run a wallpaper
   is uploaded and flagged valid, and the IMGSTART of a boot image, whose erase
   is rounded up to a whole sector, then erases its first cells.
2. `upload_concurrent`: the tool lets a second boot image upload start during
   the first.
3. `boot_no_time`: the 8 s fallback does not leave the boot screen.
4. `boot_request`: a press of EN right after the last needed one can undo the
   request.
5. `provision_stale`: the retry task does not notice that the user has
   submitted again.
6. `playback_place`: a fade or zoom ends with the clock at (0,0) unless a slide
   has come before it.
7. `playback_off`: the main loop may change `g_wall_vis` while the end of an
   upload is between setting it and showing the wallpaper; after that, turning
   playback off leaves the wallpaper.

Seen while modelling and not the subject of a run.

Settings and store: the recovery ends its search at the first unfinished record
(`ef_env.c:1834-1839`), so after the sectors have wrapped round a reset during
a set can lose that key, and a later collection may leave two live records for
it (the properties leave such a key out, `damaged`); the comment at
`cfg_store.c:146-148` that nothing is written before the final `ef_save_env` is
wrong, `ef_save_env` does nothing (`ef_env.c:1607`), so a reset mixes two
configurations; two tasks in `cfg_save` may store an old number over a new one,
or a string cut at the length it had before (`strlen` comes before the store's
lock, `cfg_store.c:151`), and neither is put right before the next save
(`crossed`); a string that changes between its checksum and its writing leaves
a record that counts for nothing, and only the other task's own save restores
the key, so a reset before that loses it; each such record is a used-up slot;
after two resets in a row the store may lack the room a collection needs and
loses a record (section 3); the results of the first three `ef_set_env_blob`
are not looked at; `cfg_load` takes an empty city, `pc_ip` or `wx_...` for
none, so an emptied setting is its default after a reset; `cmd_wall` assigns
mode and seconds before it checks the animation, so a command answered ERR has
an effect.

Provisioning: `handle_save` stores `s_connecting = 1` and `s_conn_fail = 0` one
after the other (`provision.c:911-912`); when the event loop reports the
failure of the submission before between the two, both flags end up 0: the
callback ignores what follows, `handle_get_status` answers "connecting" for
ever unless the new attempt gets an address, and the manager, whose automatic
reconnection the worker has just enabled again, tries every 2 s; `prov_wifi_cb`
is registered twice when `prov_enter` runs before `main` reaches line 740, and
retries are then consumed double; the exit after 10 minutes of
`provision.c:10-11` does not exist (`provision.c:349` says so); a scan that
`/scan` began and that ends between the worker's clearing of the semaphore and
its test of `s_scanning` wakes it from the wait for its own scan
(`provision.c:693-697`), and the list is rewritten while it is searched.

Images and playback: a boot image whose IMGSTART loses its `,01` on the line is
stored in the wallpaper's area (141000 bytes pass that area's capacity check),
`wall_valid` is set for it, the boot area is left as it was but for the sector
at the border, and the tool reports the boot image stored; the switch XBOOTIMG
cannot turn the boot image off (`xcmd.c:343`); the wallpaper upload passes the
widget as `img_type` (`wifi_widget.py:581-582`), so `build_imgstart` fails for
wallpapers from that page (the model sends what `WallUploadThread` is written
to send); the flag of an area stays valid while the area is being rewritten;
`AckWaiter` takes a late answer to one block for the answer to the next
(`wall_upload.py:103`), and several of them can add up to a lost block that is
taken for stored; the fade-in of the clock after a slide
(`wall_anim_ui_fade_in`) is never reached (`img_upload.c:315`); without an
uploaded wallpaper playback never shows the built-in one.

Weather: both providers write one `s_loc_city` (`weather.c:540-570`), and the
city is read again after the lookup, so a change in between pairs a place with
another's name.

## 8. Not modelled

- Weather (`weather.c`): off by default, and no command turns it on (`wx_on`,
  `main.c:561`). Its task fetches, parses and prints; no other component reads
  what it keeps.
- gzip decoder and image conversion: sequential algorithms on inputs far longer
  than TLC can enumerate; nothing but the weather task calls the decoder.
- Line assembly (`xcmd_feed`): one task fills one buffer. The commands it
  dispatches are in `ImgUpload`, `WallPlay` and `Settings`; those that only
  read, show, or set the clock or the lamp are in none.
- The scan list of the provisioning page: it decides on which channel a
  submission's attempts look for the network. `Provision` lets every attempt
  fail, which covers a wrong channel.
- On the serial line: a lost newline, which glues two frames into one. (Frames
  lost or damaged one by one are modelled.)
- In the store: lengths of records (one size), `ef_del_env` and the automatic
  update of defaults, which the clock does not use, and the formatting of an
  erased partition, which is the initial state.
- Screens, fonts, lamp, captive DNS, HTTP parsing and the windows of the PC
  tool hold no state that several actors change.
- The SDK, save for EasyFlash. It is vendored and makes up nearly all of the
  repository's two million lines, so the share of lines that the modules stand
  for is small by nature; of `WB2-clock2/xcmd`, where the clock's own state is,
  what several actors change is modelled.

## 9. State of the plan

All modules planned are written: first the upload, boot, provisioning and
playback with their proofs, then the settings store with its abstract
specification and the proof that it is implemented, and the proof that the
store does not run out of room. Weather and the scan handshake were planned and
left out for the reasons above. What the proofs do not reach is listed at the
end of section 6.
