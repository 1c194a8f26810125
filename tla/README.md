# Verification of rkipc

TLA+ models of rkipc (`app_rkipc`), the daemon that runs on Rockchip IP
cameras: it captures, encodes and streams video, records it to a card and
serves the configuration commands of a web server. The models are checked with
TLC on small instances, and the results that matter most are proved with TLAPS
for every value of the constants.

This document has the inventory of the system, the models and how they
correspond to the code, what each run shows, what is proved, what is left out,
and the plan.

## 1. The system

The daemon is one process per chip variant (`src/src/<chip>_ipc/main.c`) over
common code (`src/common`). `main` initialises the components in a fixed order
and, on a signal, deinitialises them. Between the two everything happens in
threads: the encoder loops of video and audio, the recorder, the storage
daemon, the osd clock, ntp, the detector, the socket server and one detached
thread for each of its requests.

| component | code | state | operations | interaction |
|---|---|---|---|---|
| recorder | `storage.c` 1628-1871 | per stream: flags, run flag, signal, thread id; one mutex over all muxers | start/stop by id, record thread, write frame, start/stop by hand | encoder threads write, the server starts and stops, the device manager adds and removes |
| automatic deletion | `storage.c` 152-766 | per folder: sorted list of files, counters, tail pointer, mutex; mount status; scan signal | scan thread, inotify monitor thread, passes by number and by share of the space, stop | the recorder and the snapshots create files, users delete them |
| device manager | `storage.c` 25-150, 768-1480 | message list, listener flag, device attributes | netlink listener, message thread, dev_add, dev_remove, format, umount | starts and stops recorder and scan |
| signal | `common.c` | a POSIX semaphore and its maximum | create, destroy, wait with timeout, give (reset is the same) | recorder, scan thread, ntp, osd, detector |
| parameters | `param.c`, `iniparser.c`, `dictionary.c` | one dictionary under `g_param_mutex`, the ini file | get, set, save, reload, init, deinit | every component, from every thread |
| socket server | `server.c`, `socket.c` | listening socket, run flag | accept loop, a detached thread per request, about 300 marshalled commands | every component |
| rtsp, rtmp | `rtsp.c`, `rtmp.c` | session handles, enable flags, a mutex each | init, deinit, write frame | encoder threads |
| osd | `osd.c` and its drawing files | region data, run flags, `g_osd_mutex`, clock thread | init, deinit, restart, change of bitmap and text | server, video pipeline callbacks |
| roi, region clip | `roi.c`, `region_clip.c` | none of their own (parameters) | clamp a rectangle and pass it to the encoder | server, video |
| detector | `rockiva.c`, `ivm` | linked list of results under a mutex | init, deinit, push from a callback, pop by the osd thread, write frame | video, osd |
| snapshots | `video.c` of each chip | two counters and two cycle flags, not locked | take a photo, cycle snapshot, jpeg threads | server, buttons, recorder's folders |
| video, audio, isp | per chip | vendor library handles, run flags | set-up, frame loops, restart | everything above |
| network, ntp, wifi | `network.c`, `ntp.c`, ... | ntp thread, dhcp flags | shell commands, time synchronisation | server |
| system, users | `system.c` | user table in numbered ini sections | add, change, delete a user; reboot, factory reset, upgrade | server |
| sysutil, vendor storage, tuya client | ... | none | one device file each, or glue to a closed library | buttons, leds |

### What is hard

* **Interleaving around the muxer.** Three kinds of thread open and close the
  muxer of a stream, others write to it, all under one mutex and a run flag.
* **Life cycle of record threads and signals.** They are created and joined
  both by `main` and by the hotplug message thread.
* **Unlocked reads.** The scan thread reads counters and `file_list_last`
  without the folder's mutex while the monitor thread changes the list; photos
  are ordered through two counters that four threads change without a lock.
* **Two sources of truth.** The folder lists are a copy of the file system, the
  dictionary a copy of the ini file, `user_num` a count of sections, the
  displayed regions a copy of the parameters: each is kept up to date by events
  and calls that can be lost, late, cut short by a crash, or caused by the
  daemon itself.
* **Stopping.** The daemons are stopped through a status that the stopped
  thread also writes, plus a signal that may not exist yet, plus a join.
  Restarting video, audio and display does this to every thread at once.
* **Boundaries.** Loops of `STORAGE_NUM` and of `STORAGE_NUM - 1`, a pass that
  tests its measure after the deletion, a bound on the reading of a folder,
  `off_t` arithmetic in percent, a hash table that must keep an empty slot.

### What makes each component correct

* recorder: frames go only into an open muxer; a muxer is not opened twice; one
  record thread per stream; deinit returns and leaves nothing; removing the
  card ends recording, its return resumes it; stop means stop.
* automatic deletion: lists are what is on the card; the file unlisted is the
  file removed; limits are enforced without deleting too much; low space is
  relieved; a stop returns; no use of freed folders.
* device manager: one scan at a time; no message lost between events and
  handling; nothing runs on a freed handle.
* parameters: what a boot finds is what was last saved; `user_num` counts the
  users; a request never hangs in the table; a failed save loses nothing.
* osd: what is shown is what is enabled; one clock thread, which never uses a
  destroyed region or signal; a restart returns.
* video, audio, rtsp, rtmp: frames go to outputs that exist; channels outlive
  their threads; a restart brings every thread back, and returns.
* detector: a result is popped at most once; deinit waits for the last frame.
* snapshots: counters return to zero; one photo per order; no order is refused
  for ever.
* server: deinit ends the accept loop.

`PROJECT.json` lists the hazards behind these, each at its line.

## 2. Modules

| module | models |
|---|---|
| `Recorder` | recorder, main life cycle of storage, hotplug listener and message thread |
| `Recorder_proofs` | types, protection of the muxer, the refinement of `MuxerSession`, life cycle of record threads and signals |
| `FileList` | the list of a folder: add, delete, check, as pure operators |
| `FileList_proofs` | what each list function does to a list of any length |
| `MCFileList` | every sequence of list operations against a plain set |
| `MCFileList_proofs` | list, tail pointer and counters are those of the set |
| `AutoDelete` | scan thread, monitor thread, stop, file system and its users; uses `FileList` |
| `MCAutoDelete` | values of the function-valued constants |
| `AutoDelete_proofs` | the folders are allocated while the monitor uses them; types; consistent lists |
| `AutoDeleteCard_proofs` | lists and card: the victim of a deletion, the floor of a pass, the mirror |
| `MuxerSession` | the protocol of the muxer library, which `Recorder` implements |
| `Dictionary` | the table of the parameters, its dump to a file and its reload, as pure operators |
| `ParamStore` | what the parameters promise: a map that is saved and read back |
| `Param`, `MCParam` | get, set, save, boot, shutdown and crash, users, factory reset and import, over `Dictionary`; implements `ParamStore` |
| `Param_proofs` | types; `dictionary_set` finds an empty slot; `Param` implements `ParamStore`; `user_num` counts the users |
| `Video` | frame threads, photo threads, outputs, audio, and the start, restart and stop of all of them |
| `Video_proofs` | outputs, threads and channels, photos |
| `Osd`, `MCOsd` | the regions of the display, its time thread, restarts |
| `Osd_proofs` | types, what is shown, the time thread |

Each definition that models code keeps the source's name where it is the whole
of a function, and has its lines in `PROJECT.json`. An action is what a thread
does between two points at which another thread can see it: each access to
shared data outside a lock is a step, a section under a mutex that no other
code can look into is one step.

### Recorder

*Actors.* `Threads` are the record threads (`rk_storage_record`) and, with the
same identities, their signals; `Writers` the encoder threads
(`rk_storage_write_video_frame`, `_audio_frame`); `Clients` the server threads
(`rk_storage_record_start`, `_stop`); the controllers `main` and `msg` are the
main thread and the message thread, which run `rk_storage_init`,
`rk_storage_deinit` and the handling of a message.

*State.* `record_flag`, `g_storage_record_flag`, `g_record_run_`,
`g_storage_signal`, `record_thread_id`, `quit` and `listener_run` are the
variables of the code. `session` is what the muxer library, which is not in the
repository, remembers of a stream: whether it was initialised since it was last
deinitialised. `sem` is the state of each signal object, `freed` included, so
that a use after free can be seen; `ub` records that something undefined
happened (waiting on, giving or destroying a freed signal, destroying one that
somebody sleeps on, joining twice or joining nothing).

*Actions.* `RecordCheck`, `LockSwap`, `MuxerDeinit`, `MuxerInit`, `Publish`,
`RecordWait`, `RecordWoken`, `RecordTimeout`, `LockStop` and `Close` are the
record thread; `WriteLock`, `WriteTest`, `WriteDone` a frame; `LoopTop` to
`InitStart` the bodies of `rk_storage_muxer_deinit_by_id` and `_init_by_id`,
whose steps follow the order of the code (the signal's pointer is tested in
`DeinitTest` and read again in `DeinitGive`), so that the other controller can come
in between. `DeviceEvent` is the netlink listener, `MsgTake` and `MsgExit` the
message thread.

*Faults.* `mount`: the mount table lags behind the card. `mkdir`: the record
folder cannot be created. `overlap`: hotplug and the calls of `main` are
concurrent. Without `overlap` an event arrives only while `main` is between init
and deinit, and deinit begins only once the messages are handled.

### FileList

The linked list is a sequence. `file_list_last`, `file_num` and `total_space`
are kept apart from it, because the code maintains them apart: insertion updates
them in place, deletion recomputes them. `Survivors` keeps what the loop of
`rkipc_storage_file_list_del` keeps, including that it skips the entry behind a
removed one. Memory management is left out.

### AutoDelete

*Scan thread.* `ScanAlloc` to `ScanSignal` are the set-up: allocation, one
`ScanOpen`/`ScanEntry`*/`ScanReadEnd` per folder (an `opendir` that fails leaves the
folder empty and goes on with the next one), the test and the assignment of
`mount_status`, the first `statfs`, the creation of the monitor and of the
signal. `ScanLoop`, `ScanWoken`, `ScanTimeout` are the wait; `ScanMeasure` to
`ScanRemove` a pass over the folders, `ScanSize` and `ScanSum` what precedes the
pass by space; `ScanOut` the end. The three reads of `file_list_last` are
`ScanPick`, `ScanPath` and `ScanName`; a null pointer at the second or third
ends the process (`crash`), which a user who deletes the only file of the list, or
an early writer who leaves it empty, can bring about. A read of the pointer and the copy of the name it
points to are one step: a use of a freed list entry is not modelled.

*Monitor thread.* `MonWatch`, `MonRead`, then one of `MonUnmount`, `MonDelete`,
`MonLstat`/`MonAdd` per event, `MonEnd`. The test of `mount_status` comes once
per batch of events, as in the code.

*Stop.* `StopSet`, `StopGive`, `StopJoin` are both `dev_remove` and
`auto_delete_deinit`, which do the same three things.

*Faults.* `early`: writers start with the scan thread, as `rk_storage_init` has
it, and not only once the watches exist. `stop`: the stop is called. `delete`,
`move`: users of the card. `umount`: it is unmounted. `statfs`, `mkdir`,
`opendir`, `inotify`: these calls fail (`inotify_init`; a failing
`inotify_add_watch`, like a full event queue, is `overflow`: events do not come).

*Environment.* Files are created, closed complete or empty, deleted and moved.
A deleted file that is still open keeps its blocks, and closing it still raises
an event. Names are not reused, as the recorder's names carry the time. An
unmount is possible once the watches exist.

*History.* `lost` collects the files whose changes cannot be in the lists for a
known reason: a change between the reading of the folder and the watch, a
folder that cannot be opened, the bound of the reading, an event that did not come,
or a name unlisted in place of another. `others` counts the listed files that the
monitor has taken from a folder while the scan deletes from it.
`scan.overwrote` records that the assignment of `DISK_MOUNTED` has overwritten a
stop. Both are read by properties only. Local variables that are dead are reset,
which changes nothing the code could see and keeps the state space small.

*Abstraction.* One life of the scan thread, from its creation to its join.
`malloc` and `pthread_create` do not fail. `ReadSlack` stands for the constant
300, `OffMax` for the largest `off_t`.

### MuxerSession

The library is not in the repository; what it asks of its callers is read off
the mutex and the flag that the callers take trouble over. `Recorder` maps
`session` to itself and `inUse` to the streams of the writers between
`WriteTest` and `WriteDone`. Opening a stream that is open changes neither and is
invisible to the mapping, so `NoDoubleInit` is stated beside it; that frames go into
an open stream (`FramesInsideSession`) follows from it.

### Dictionary, Param, ParamStore

*State.* `slots` and `n` are the arrays and the counter of the dictionary, in
their order in memory, because the order decides where the next key goes and in
which order sections are written. `file` is the ini file as a sequence of lines,
`kept` (history) the map a boot would make of it. Keys are compared as equal
or not; the hash is left out. `Reread` is what writing a value and parsing the line
again makes of it: a value with `;` or `#` comes back shorter.

*Actions.* A request is a sequence of calls (`todo`). A locked call is entered
when `g_param_mutex` is free. Inside, `SetFind`, `SetProbe`, `CountRead` and
`CountWrite` are the steps of `dictionary_set`, split where another thread can
see the difference; `Unset` those of `dictionary_unset`; `WriteBegin`,
`WriteEnd` and `SaveFails` those of `rk_param_save`. `Crash` can come at any
step and leaves, of a file being written, any prefix, a line cut inside its value, or
a file that cannot be parsed. `rk_param_init` replaces that one by the factory
file. After `rk_param_deinit` the pointer `g_ini_d_` still holds the freed
dictionary (`freed`) unless a failed save had left it null; the invariant of the
proof shows that nothing runs in that state, and the boot sets it anew.

*Faults.* `fopen`: a save cannot open its file. `race`: unlocked calls overlap
with other calls. Without `race` a call begins only when no other is inside.

*Refinement.* `ParamStore` is a map in memory and a map on disk. `Param` implements
it with `store` the table's contents and `disk` what a boot would find. What may
spoil the disk is written into the abstract specification: a crash while the
file is open, and a save after a failed save.

### Video

*Actors.* One thread per video stream, one for audio, `send`, `get` and `cycle`
for photos, clients that order photos, and one controller, which is `main` at
boot and shutdown and a server thread at a restart.

*Controller.* Each call is a sequence of steps in the order of the code
(`rk_video_deinit`, `rkipc_pipe_jpeg_init`, ...), one step per effect another
thread can see: a flag, a join with the channel's end, a channel with its
thread, a session opened or closed.

*Photos.* The jpeg channel is a number of frames it will take and a queue of
photos; a frame carries the number of the order it was taken after, so that
`EveryPhotoSaved` can tell a late photo from a right one. A photo is on the card
(`photos`) only when its file could be opened. `glitches` bounds the
faults: a frame that does not come in time, a resizer that fails, an encoder
that is slow, an `fopen` that fails, an audio stream of length 0 (`Eos`), which
ends the audio thread. `calm` (history) is false once something happened that
loses an order; `EveryPhotoSaved` names each such case. An order placed while the
get thread still waits for the frame it drops is calm, until that thread drops
the photo of the order (`GetFirst`). A counter below zero
goes on falling, because the threads test for nonzero; `MaxDebt` cuts that off.

*Left out.* Calls of the controller do not overlap. `pthread_create` and the
set-up calls of the media library succeed. The increments and decrements of the
counters are atomic.

### Osd

*State.* `enabled`, `style` and `type` are the parameters, which clients change
at any time. `region` is what the media library has for each number; the callbacks
`Created` and `Destroyed` are those of `rv1106_ipc`. `waits` is the argument of
the time thread's `rk_signal_wait`, read when the wait begins: it may be null,
because the thread is created before the signal.

*Actions.* A restart is `Stop`, `Join`, one `Destroy` and one `Create` per
region; parameters may change between any two of them. The time thread makes
its region itself (`ClockBegin`), after reading the parameters again: it takes the
last region whose type is the time. A start that meets two such regions starts
two threads and keeps the id of the last; `stray` (history) records it, and `Stray`
is what the lost thread can do to the others: make the region again, or take
the signal. When the signal cannot be created, `rk_osd_init` returns with
`g_osd_mutex` locked (`CreateSignalFails`), and no call goes on after that. Positions and
sizes are left out: a region that does not fit is not created by the code and is
not part of the model.

## 3. Runs

Every run is `tlc -config <run>.cfg <module>`.

| run | result | states | what it shows |
|---|---|---|---|
| `recorder_session` | pass | 941,286 | Two streams, a writer, a client, hotplug, all faults, all overlaps. `RunMatchesSession`, `NoDoubleInit`, and all calls of the muxer library follow its protocol (`ImplementsSession`): the mutex and the run flag alone protect the muxer, whatever the life cycle code around them does. |
| `recorder_lifecycle` | pass | 85,194 | Three streams, the last one enabled, a client that starts and stops recordings by hand, the card and foreign devices coming and going between init and deinit. `OneRecorder`, `NoUndefinedBehaviour`, `DeinitLeavesNothing`, and under fairness `DeinitReturnsEventually`, `RemovalStopsRecording` (the one recording that outlives the card is named) and, for every stream but the last, `RecordingResumes` unless the client stops it. |
| `recorder_last_stream` | violation | | The last stream does not record (`EnabledStreamRecords`). |
| `filelist` | pass | 7,993 | Additions and deletions of four files in any order, equal times included: `ListIsContents`, `CountersMatch`, `LastIsOldest`. |
| `autodelete_number` | pass | 326,662 | Two folders limited by number, four files, three of them there from the beginning, writers, and users who delete: `ConsistentVictim`, `NumPassFloor`, `NumLimitEnforced`. |
| `autodelete_stop` | pass | 492,681 | A stop at any moment with all faults: `MonitorInsideFolders`, `ListsConsistent`, `QuiescentMirror`, `StopReturns`. |
| `autodelete_space` | pass | 209,131 | `num_limit_enable` 0, two folders limited by share: `SpaceReclaimed`. |
| `param` | pass | 129,939 | Two requests of two clients, two boots, a crash at any step: `ImplementsStore`, `ProbeTerminates`, `UserCount`, `RequestsReturn`. |
| `param_race` | violation | | Two users added at once: a thread probes a full table for ever (`ProbeTerminates`). |
| `video` | pass | 411,417 | Boot, one restart or switch, shutdown, two orders, one fault: `FramesInsideSession`, `ChannelInUse`, `ThreadsPaired`, `VideoRuns`, `EveryPhotoSaved`, `OrdersComplete`, `CallsReturn`. |
| `video_audio` | violation | | No audio thread after a restart (`AudioRuns`). |
| `osd` | pass | 598,500 | A text and the time, which clients make anything else; four changes and three restarts at any moment: `ShownMatches`, `ClockSafe`, `OneClock`, `RestartsReturn`. |

Every property of a passing run has a mutant of the code's model, kept next to
the definition it changes and listed in `PROJECT.json`, that makes TLC find the
property violated.

### Bounds

* Streams: 3, as in the code, in the runs on the life cycle; 2 where the
  muxer is at stake, since streams share only the mutex. `Enabled` includes the
  last stream in `recorder_lifecycle`, because it is treated differently.
* Record threads: as many as the rounds can create, so no start is held up for
  want of an identity. In `recorder_session` two suffice for the overlap of an
  old and a new thread of one stream; a start beyond that waits for ever, which
  an invariant cannot tell from a slow start.
* Hotplug events: 2 (out and in again, or in and out) where liveness is
  checked, so that the antecedents `<>[](card = "in")` and `<>[](card = "out")`
  are met by behaviours with a change; 1 with all overlaps. Init/deinit rounds:
  one in `recorder_lifecycle`, where remove and add already make every stream's
  thread and signal end and come again; two with the client and liveness are
  beyond TLC's time, and the theorems hold for any number.
* Files: 2 in one folder, one of them on the card from the beginning, where all
  faults are at work. Where limits are at stake 4 in two folders, 3 of them in
  the folder of limit 2, so that users can take the tail, its predecessor or
  the whole list while the scan is between two reads of the tail, and a fourth
  of limit 0 in a folder that a pass must not skip. `ReadSlack` is 1 or 2 so that the bound of the reading is met.
* `OffMax` is chosen so that nothing wraps in the runs: with blocks of 1 and up
  to 5 files the products stay below it. The wrap itself is in the model.
* `Capacity` is such that the card can fill up: a `Close` that does not fit
  is not enabled.

* Parameters: the table starts with 2 slots, so that the factory file's seven
  entries make it grow twice and a new user once more, and an unset leaves a
  hole that a later probe meets. Two requests: the second meets what the first, a crash
  or a failed save has left. Level 10 is the smallest that is cut.
* Video: one stream is enough for the outputs, since streams share only the
  mutex and audio is the second writer; two orders, because the interesting
  failures are of an order that meets the one before; one restart or switch and
  one fault. The rtmp output takes part in `video_audio` and in the proof.
* Osd: two regions, which are text and time in the ini file and of any type
  later, so that there are none, one or two of the time; four changes and three
  calls, so that a region is switched off in one restart and on in the next, or
  made the time in one and a mask in the next.

### Fairness

* *Recorder.* A thread that has work does it. Record threads and server calls
  compete with the encoder threads for `g_rkmuxer_mutex`, which is free again
  and again but not continuously: strong fairness, which the code gets from
  encoders that hold the lock for the time of one write per frame. All others:
  weak fairness. Nothing is assumed of the calls of `main` and of clients, of
  hotplug, and of `RecordTimeout`: that deinit returns does not rest on
  `file_duration` passing.
* *AutoDelete.* Weak fairness of the scan thread, the monitor thread and a stop
  under way. `FairSpec` assumes no timeout, so `StopReturns` does not rest on
  the 60 s; `TimedSpec` adds it for the two properties about limits, where it is
  the only thing that starts a pass. Writers and users need not act, and may act
  for ever.

* *Param.* Weak fairness of calls that were begun and of the boot. Nothing is
  assumed of clients and crashes.
* *Video.* Weak fairness of every thread (`FrameStep`, which a stream of length 0
  is not part of) and of the controller. Strong fairness
  of the controller at an output's mutex: it is free again and again, because a
  frame is written every 30 ms or so. Nothing is assumed of clients, faults and
  the cycle thread's orders; a `GetStream` returns when its timeout has passed.
* *Osd.* Weak fairness of the call under way and of the time thread. Nothing is
  assumed of a lost time thread, nor that the signal can be created.

Deadlock is checked where the system runs for ever. It is not where it may
really stop: after the last deinit or shutdown, after the scan was stopped or
left by failure, after a null pointer, or when all bounded requests are made.

### What the runs say about the code

Three disagreements, each the subject of a violation run:

1. The loops that set `record_flag` stop at `STORAGE_NUM - 1`: the last stream
   never records, although the documentation says its `enable` key enables it.
2. `rk_system_add_user` and `rk_system_del_user` change the dictionary without
   its mutex. The comment in `dictionary_set` that its loop "will necessarily
   terminate" does not hold when two of them overlap.
3. `g_audio_run_` is cleared by `rkipc_audio_deinit` and never set again: after
   `rk_audio_restart`, and after `rk_video_restart`, no audio is encoded.

Others were met while modelling and have no run of their own:

* `rk_storage_record_stop` closes the file, but the record thread opens the next
  one when `file_duration` has passed ("Stop recording" in the documentation).
* With `num_limit_enable = 1`, which the documentation shows as the setting, no
  folder takes part in the pass by space (`storage.c` 698-708): free space below
  `free_size_del_min` starts no deletion. The documentation promises that it does
  ("When free space is less than this value, automatic file deletion starts") and
  gives the limit by number the priority only. `SpaceReclaimed` is therefore
  stated for 0.
* `free_size_del_max` is read and compared with nothing.
* A file that the scan lists while it is still open keeps the size 0 and its early
  time: it does not count for the share of its folder, and a card full of such
  files is not relieved.
* Switching the cycle snapshot off while a photo is made takes the counters to
  -1, from where they fall on; every later photo is refused until a restart of
  the daemon. `OrdersComplete` exempts this and nothing else.
* A privacy mask whose style is changed to mosaic while it is shown stays on
  the screen of this chip, which registers no mosaic callbacks.
* A client can give two regions the type of the time. The next start starts two
  time threads and forgets the first, and a region of the time that is
  disabled, if it has the highest number, is made hidden while the other is not
  drawn at all.
* `rk_osd_init` returns with `g_osd_mutex` locked when it cannot create the signal.
* `rk_storage_record_start` opens a file whether or not there is a card; when no
  record thread is left, nothing ends that recording.
* The order of a photo placed in the first second after a boot or a restart can
  be lost to the frame that the get thread drops.
* A photo that comes after its timeout is found by the next order, and all later
  photos are one order late.

Some properties hold only within limits, which their definitions or
configurations state:

* `OneRecorder`, `NoUndefinedBehaviour` and `DeinitLeavesNothing` need hotplug
  not to overlap with init and deinit. With `overlap` a message handled between
  the stop of the muxers and the end of the message thread starts a record
  thread that nobody joins.
* `RemovalStopsRecording` names the recording of stream 0 that a client starts when
  no record thread of the stream is left (`StartedAlone`). `RecordingResumes`
  assumes that no foreign device is removed (`ForeignRemoval`) and that no client
  stops a recording (`StoppedByHand`): the first is not undone, and the second only
  when `file_duration` has passed.
* `ConsistentVictim` holds with users who delete and with early writers, but not with
  a user who moves a file in: that file keeps its time, becomes the tail, and is
  unlisted in place of the file that is removed. It does not say that the two
  names are the same: a file that goes away between the reads (deleted by a user, or
  closed empty and removed by the monitor) leaves another tail to be unlisted.
  With a single file in the list that is a null pointer, and the process ends.
* `NumPassFloor` counts what others take from the folder during the pass; what users
  delete comes on top of what the pass deletes.
* `SpaceReclaimed` is for `num_limit_enable` 0 and for writers that start after the
  watches, for the two reasons above.
* `QuiescentMirror` compares names and exempts the files in `lost`: it catches
  neither those losses nor the early size and time of a file listed while it was
  open. `StopReturns` exempts a scan that has overwritten the stop, where it is
  false, and a process that has ended by a null pointer.
* `UserCount` exempts overlapping user requests, adding a user that exists or
  deleting one that does not, and a crash that cut a write short.
* `EveryPhotoSaved` exempts overlapping orders, an order that falls between the
  get thread's decrement and its `StopRecvFrame` or into a restart, an order whose
  photo is the first frame after a boot or restart and is dropped, timeouts of
  camera or encoder, and a file that cannot be opened. `OrdersComplete` exempts none
  of these; it exempts counters below zero.
* `ShownMatches` speaks of moments at which no parameter changed since the last
  restart began: the code restarts after each change. It assumes that at most one
  region is of the type of the time, enabled or not.
* `OneClock`, `ClockSafe` and `ShownMatches` say nothing more once a start has met two
  regions of the time (`stray`); `OneClock` says that this is the only way to two
  threads. `ClockSafe` also exempts a region of the time that was made a mask since
  the thread was started: it can be destroyed under the thread. `RestartsReturn`
  exempts a signal that cannot be created, and nothing else.
* Restarts of the video, and calls of the display, are one at a time: the code
  takes no lock around a restart, joins threads twice when two overlap, and
  calls null pointers when the display is restarted while the video is stopped.

## 4. Proofs

The eight `*_proofs` modules are checked with `tlapm <module>.tla`. Every
invariant of a passing run is proved, and so are the refinements
`ImplementsSession` and `ImplementsStore`. Each inductive invariant was
model-checked before it was proved, on the instances of section 3: this is what
showed which conjunct was missing.

### Assumptions

The assumptions on the constants are those of the modules (`RecorderAssumption`,
`AutoDeleteAssumption`, `VideoAssumption`, `OsdAssumption`, `ParamAssumption`,
`DictionaryAssumption`, `MCFileListAssumption`), evaluated by TLC in every run:
the constants have their types, identities of different kinds are different, the
sets of encoder channels are finite, files of parameters are sequences of lines with
a section and a field each, and every region has a type. Nothing is assumed of the
numbers of streams, threads, files, folders, regions, users and clients, or of the
limits and sizes. Three groups of theorems say in their statement which faults
they exclude:

* `OneRecordThread`, `SignalsAndThreadsDefined`, `NothingLeft`: not `overlap`
  (hotplug during init or deinit).
* `VictimIsListed`: not `move` (a user who moves a file in). With early writers, users
  who delete, dropped events, an unmount and every failing call it holds; with
  `move` it is false.
* `ParamTypes`, `ProbeEnds`, `ParamImplementsStore`, `UsersStayCounted`: not `race`
  (an unlocked call overlapping another). With it `param_race` refutes the second.

All other theorems hold with every fault.

`UsersStayCounted` has one more hypothesis, `UsersCounted`: the factory file and the
file a client imports have the system's section, with a `user_num` that is
the number of user sections they hold (the `.ini` files of the repository have
`user_num = 1` and a section `user.0`), a number is read from a file as it was
written, and the names of the fields are different. Nothing in the code tests this of an
imported file, and without it the property is false after the import. `MCParam`
assumes the same of the instances, where TLC evaluates it.

### Recorder

* **`TypeCorrect`** (`TypeOK`) is inductive; besides types it says that a
  controller inside a muxer function works on an existing stream and that a
  sleeping record thread sleeps on a signal, without which neither the array
  accesses nor the wait are defined.
* **`MuxerProtected`** (`FramesInsideSession`, `RunMatchesSession`,
  `NoDoubleInit`) and **`RunFlagTruthful`** (`RunMatchesSession` by itself). None of
  the three is inductive: from a state in which two threads are inside the
  section, or in which the flag is up while somebody reopens, a step leads out. The
  inductive invariant is `LockInv` (a thread is inside exactly if it holds the
  mutex), `StreamInv` (the flag is the muxer's state, unless somebody inside is
  reopening, and then it is down) and `InsideInv` (what a thread at each point
  inside knows). Only the holder of the mutex changes flag or muxer, and the flag
  goes down before the muxer is touched and up after it is open.
* **`RecorderImplementsSession`**, the refinement of `MuxerSession`, from the
  same invariant: each step of a thread inside the section is an `Open`, a `Shut`
  or a frame's begin or end, enabled because only the holder of the mutex is
  inside; all other steps leave the library alone.
* **`OneRecordThread`** (`OneRecorder`), **`SignalsAndThreadsDefined`**
  (`NoUndefinedBehaviour`), **`NothingLeft`** (`DeinitLeavesNothing`); also
  **`RecorderLifeCycle`**, the invariant itself. None of them is inductive, because a
  stream's thread, its id, its signal and the stop are changed in different steps of
  a controller. `LifeInv` says: messages are handled only outside init and
  deinit (`Exclusive`, which is where `overlap` is excluded), a thread that was not
  joined is the one its stream knows (`ThreadInv`), a stream with a signal has such
  a thread unless a controller is between the two steps that make or destroy
  them (`PairInv`, `StageInv`), the signals in use are those of the streams
  (`SignalInv`), a thread sleeps on its own stream's signal (`SleepInv`), and the
  streams a loop has passed are as the loop leaves them (`ProgressInv`). TLC:
  85,194 states.

### Lists of files

`FileList` uses recursive functions for the loops over a list, `Survivors` and `Space`.
What such a function computes for a list of every length is proved by induction
over an index: a nonempty set of numbers has a least one (`LeastNumber`, from the
library's well-foundedness of `<`), so a set that holds 0 and with a number its
successor holds all (`Counting`), so a function with the equations exists and the
`CHOOSE` behind the definition picks one (`Recursion`).

* **`ListHoldsContents`** (`ListIsContents`), **`LastPointerOldest`** (`LastIsOldest`),
  **`CountersAreTrue`** (`CountersMatch`). `ListInv`: the list is sorted,
  without repetition, and its counters and tail pointer agree with it
  (`GoodList`), and its elements are the set. The sum over a set, which
  `CountersMatch` uses, is a fold over an arbitrary order; that it does not
  depend on the order is proved first (`Sums`).
* **`ListsStayConsistent`** (`ListsConsistent`) says the same of the lists
  of `AutoDelete`, which two threads change, and **`DeletionTypes`** (`TypeOK`)
  comes with it. `DataInv` adds to the types what the scan thread knows at each
  place: the folder it indexes exists and is allocated. TLC: 326,662
  states with users, 492,681 with every fault.

### Automatic deletion

* **`MonitorSafe`** (`MonitorInsideFolders`). `AllocInv` says that a scan
  thread past its check has allocated; the difficult point is the scan that is
  told to stop before it allocates, goes on to the second test of `mount_status`,
  and must find the stop there again, because nobody but the scan thread itself
  revokes it. `SpawnInv` says the monitor exists only between its creation and
  the join that precedes the freeing.
* **`VictimIsListed`** (`ConsistentVictim`). The scan reads the tail pointer three
  times without the lock, and others may take the tail in between. `VInv` shows
  what they cannot do: put another file behind it. Pending events announce files in
  the order in which they were closed, and none older than a listed one, so that the
  monitor inserts at the head (`OrderInv`, which fails with a file moved in); and by
  `MirrorInv` a listed file that is on the card is taken from the list by nobody
  but the scan. So as long as the file whose path was read exists it stays the tail
  (`VictimInv`).
* **`PassKeepsFloor`** (`NumPassFloor`). `file_num` falls between the test and the
  removal only by the scan's own deletion and by those counted in `others`
  (`FloorInv`); no condition is needed. TLC: 326,662 states for both.
* **`ListsMirrorCard`** (`QuiescentMirror`). The property speaks of quiet moments
  only. `MirrorInv` speaks of all: a complete file that is not lost is listed, or an
  event of it is pending, or the scan is about to read it or has just unlisted
  it; and a listed file is on the card, or the event of its end is pending. What the
  monitor is about to add may have ended meanwhile, and then another event says so
  (`StatInv`). TLC: 326,662
  states with users, 492,681 with every fault.

### Video

* **`OutputsProtected`** (`FramesInsideSession`) is inductive once the types
  of the mutex and of the program counters are added (`SinkInv`). Only the holder of an
  output's mutex transmits, and the controller opens and closes sessions only
  while nobody holds it; nothing is needed of the order in which the controller
  starts and stops things.
* **`VideoTypes`** (`TypeOK`), **`ChannelsOutliveThreads`** (`ChannelInUse`),
  **`ThreadsCreatedAndJoined`** (`ThreadsPaired`), **`VideoRunsAgain`**
  (`VideoRuns`) do rest on that order. In `PlanInv` what is left of the controller's
  sequence of steps tells which threads and channels exist and which flags are
  set; that every call's sequence is `Sorted` (flags before joins, the
  jpeg channel after the threads that use it) is proved from its parts, for any set
  of streams. TLC: 411,417 states.
* **`OrdersAnswered`** (`EveryPhotoSaved`). `CalmInv`: while the orders stay
  apart there is at most one of them, and the two counters, the places of the
  photo threads and the frames in the channel tell where it is; a frame in the channel
  was taken after the order. TLC: 411,417 states.

### Display

**`OsdTypes`** (`TypeOK`), **`EnabledIsShown`** (`ShownMatches`),
**`ClockProtected`** (`ClockSafe`), **`OneTimeThread`** (`OneClock`). The
steps left of a call are one of a few sequences; `OsdInv` says for each of them
and for each position of its loop which regions it has dealt with (`ShownInv`),
whether the time thread is known by its signal (`ThreadInv`), whether it has made its
region (`RegionInv`), and, while no parameter changes, that a start that is still
going to meet the region of the time has started no thread yet (`MetInv`). All of it
but the types is claimed until a start has met two regions of the time (`stray`);
that number is not assumed to be one. TLC: 598,500 states.

### Parameters

**`ProbeEnds`** (`ProbeTerminates`) proves the comment of `dictionary_set` under
the condition it silently makes, and **`ParamTypes`** (`TypeOK`) comes with it.
`ParamInv`: one thread at most is inside a call; the table is never empty while
there is one; `d->n` is the number of occupied slots, but for a thread between
changing the table and writing the counter, and then one off in the
direction of the call; `count` of a thread about to write is the true number. A
boot makes a table from a file, so the invariant also says that the file is
unreadable or a sequence of lines, whatever was dumped, copied or cut; that loading
any such file makes a table whose counter is right (`LoadTable`) is again an
induction over the lines. TLC: 129,939 states.

**`ParamImplementsStore`** (`ImplementsStore`) says that a boot finds what was
saved. The lemmas say what a table contains after each operation
(`StoreContents`, `ClearContents`, `RoomContents`: it grows without losing an entry),
which lines a dump consists of, whatever the order of the slots (`DumpElements`: the
entries whose section has an entry; `FlatElements`: all of them, flat, when no
section has one), and that loading lines makes a table with just their keys and
the values as read back (`LoadContents`); together, that a table dumped and
loaded again holds `Saved` of its map (`SavedContents`). `StoreInv` adds to `ParamInv`:
no key is stored twice, or a later entry would overwrite an earlier one on the way
back; the key a thread is about to store is not there; and, unless the file is being
written, `kept` is what a boot finds in it. Each action is then a step of
`ParamStore` or a stutter (`SetFindStores` and the like). TLC checked
`StoreInv` on the same 129,939 states.

**`UsersStayCounted`** (`UserCount`) follows a request of seven or four calls through
the dictionary, the file and whatever interrupts it. A call alone keeps
nothing: the section comes first, the number five calls later, and between them
the two differ. `UserInv` therefore says what the calls left of each thread are
(`Planned`: `UserPlan` for a user request and its step of 1 or -1, `OtherPlan` and
`MainPlan` for the rest), that one user request at most is under way, and how far
it has come (`Stage`): before the section is stored or removed the number agrees
(`Agree(m, 0)`) and the section is absent or present as the request needs; after it
the number is off by the step; the number read and adjusted is the number
of users; once it is written it agrees again. Between requests it agrees in memory,
and it always agrees in `kept`, because what reaches the disk is a copied file, the
dictionary at the last call of a request, or the dictionary of main's save when no
request runs (`WrittenAgrees`), and a map that agrees still does after a save
(`SavedAgrees`, for which the system's section matters: without it all keys would
be saved flat). It rests on `StoreInv` and on what each dictionary operation does to
the map (`SetFindDoes`, `SetProbeDoes`, `UnsetDoes`). TLC: 129,939 states.

### Only model-checked

* The liveness properties `DeinitReturnsEventually`, `RemovalStopsRecording`,
  `RecordingResumes`, `NumLimitEnforced`, `SpaceReclaimed`, `StopReturns`,
  `OrdersComplete`, `CallsReturn`, `RestartsReturn`, `RequestsReturn`: fairness
  is defined by ENABLED, which the prover does not handle.

## 5. Not modelled

* Pixels, audio samples, fonts, encoder parameters, the text of file names and
  log messages; the vendor libraries, including the muxer's own state.
* The mount table, formatting and the query functions of the storage manager;
  several lives of the scan thread.
* Two files of one stream within one second, which get the same name;
  `file_name` being written outside the mutex.
* The real-time clock stepping under a timed wait: timeouts may happen at any
  time.
* A freed list entry read by the scan thread; pointers into the dictionary kept
  by callers of `rk_param_get_string`; the eight bytes in which
  `rk_param_set_int` formats a number.
* Allocation, thread creation and set-up calls of the media library that fail.
* The 32-bit `off_t` in which shares of the space overflow: the runs use a range
  in which nothing wraps.
* The detector (`rockiva.c`), ntp and network, roi, isp, the cloud client, the
  marshalling of the server, the other chips: see the components in
  `PROJECT.json`, each with its reason.

Measured against all files of the repository the models cover little. Of about
219,000 lines some 124,000 are the vendored headers of the cloud client. Most of the
rest is there several times: 17 variants of `video.c`, five or six of
`isp.c` and `audio.c`, each of which sets up the vendor's library field by field,
and 5,800 lines of `server.c` that read the arguments of one setter each. The
models take one variant (`rv1106_ipc`) and, of it, the code that keeps state and
is run by more than one thread or survives a crash.

## 6. Plan

Done: recorder, automatic deletion, the muxer session, parameters and users,
video with photos, outputs and audio, the display.

1. **StorageDevice**: several lives of the scan thread over removals and
   remounts, `DISK_NOT_FORMATTED`, the mount table, and the composition of
   hotplug, recorder and scan.
2. **Rockiva**: the result list between a callback, the osd thread and deinit.
3. **Server**: accept loop, detached requests, deinit.
4. **Roi**, **RegionClip**: rectangles clamped to the picture, as pure operators
   over bounded inputs. **Ntp**: restart against the wait.
