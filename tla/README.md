# The nash device tree: boot control, failsafe update and camera metadata in TLA+

The repository is the LineageOS device tree of the Motorola Moto Z2 Force
(nash).  Nearly all of it is configuration.  The code that carries state is the
A/B boot control HAL (`bootctrl/boot_control.cpp`, 692 lines), the GPT library
under it (`gpt-utils/gpt-utils.cpp`, 1547 lines), which can brick a device when
they are wrong, and the `CameraMetadata` class of the camera shim
(`libshims/CameraMetadata.cpp`, 466 lines), which owns memory that others hold
pointers into.  This directory models all three, checks them with TLC and proves
with TLAPS every safety property that the passing runs check.
A line reference such as gpt-utils.cpp:847 is to the file under `src/`.

## 1. The system

### Components

| Component | State it keeps | Operations | Status |
|---|---|---|---|
| boot control HAL (`boot_control.cpp`) | none of its own: everything is in the GPT entries and in `ro.boot.slot_suffix` | `get_number_slots`, `get_current_slot`, `mark_boot_successful`, `set_active_boot_slot`, `set_slot_as_unbootable`, `is_slot_bootable`, `is_slot_marked_successful`, `get_suffix` | modelled |
| `gpt_disk` interface (`gpt-utils.cpp:1345-1547`) | a handle: header and array in memory, CRCs | alloc, get_disk_info, get_pentry, update_crc, commit, free | modelled |
| partition map (`gpt_utils_get_partition_map`) | a map from block device to partition names, built anew in every call | lookup, any of which may fail | modelled as a layout |
| XBL boot LUN (`gpt_utils_set_xbl_boot_partition`) | the UFS attribute `bBootLunEn` | switch | modelled |
| failsafe update (`prepare_boot_update` and all it calls) | the signatures of the two GPT headers of every LUN, the order of the twins in the secondary array, `bBootLunEn` | `UPDATE_MAIN`, `UPDATE_BACKUP`, `UPDATE_FINALIZE` | modelled |
| updater that calls `prepare_boot_update` | the stage it is at, the copies it is writing | external | partly |
| firmware and boot loader | picks the table and the slot | external | as predicates and as nondeterminism |
| `CameraMetadata` shim (`libshims/`) | `mBuffer`, `mLocked` of every object | the four constructors, the destructor, `getAndLock`, `unlock`, `release`, `clear`, `acquire` (two), `swap`, `operator=`, `append` (two), `sort`, `update` (all types), `erase` | modelled |
| `camera_metadata` C library under it | the entries of a buffer, its counts and capacities | external: allocate, free, clone, append, find, add, update, delete | as the class uses it |
| init scripts, laser calibration script, blob extraction, overlays, audio, NFC and sensor configuration, SELinux policy, build files | no state machine of their own in this repository | | not modelled |

### How they interact

A client (update_engine, update_verifier) calls the HAL, one call at a time; the
HAL is passthrough code that runs in the caller.  `set_active_boot_slot` builds
the partition map, works through the block devices one after the other, and for
each of them loads two `gpt_disk` handles, changes both in memory and commits
them one after the other.  Each commit is two durable writes: the header, then
the array.  It ends with the switch of the XBL boot LUN.  `mark_boot_successful`
and `set_slot_as_unbootable` load, change and commit one handle per partition
of `AB_PTN_LIST`.  `prepare_boot_update` works through the LUNs of its list and
performs two or three durable writes on each.  Firmware reads the same tables at
the next boot.  So the components share one thing only, the storage, and every
hard behaviour comes from a call that stops in the middle of its writes.

The camera shim has nothing to do with the rest: it is loaded into the camera
process.  Its objects interact with each other (`acquire`, `swap`, `append`, copy)
and with the code that holds the pointer of `getAndLock` or a buffer it got from
`release`.

On an A/B nash no partition has a `...bak` twin, so `prepare_boot_update` finds
no LUN to work on; it is the library's code for the devices that do have twins
and is modelled as such.

### What is hard here

- a crash, a failed system call or a silently short `write()` between, or inside,
  the durable writes of one operation that spans several disks;
- results that are dropped on the way up (`set_active_boot_slot` ignores what a
  group returned, `prepare_boot_update` goes on after a LUN that failed), so that
  a 0 means less than it says;
- lookups whose failure is taken for absence: a `stat()` or `readlink()` that fails,
  for whatever reason, leaves the partition out and the call still returns 0;
- data read before another handle of the same table is written;
- handles that are freed on a success path and again on the error path after it;
- a stage that is remembered only by damaged signatures, and must be recognised
  again after any interruption;
- a retry of what was half done: does it get on, or is it refused for ever?
- who owns a metadata buffer, and whether a pointer to it is still good, after a
  sequence of calls on several objects any of which may fail to allocate.

`PROJECT.json` lists each of these at its line, with the properties that cover it.

### What makes each component correct

- HAL: a 0 of a marking call holds on disk for every pair that was found; a switch
  without failures covers every pair, both tables and the boot LUN; an active entry
  always carries the bootable GUID; every single disk write is one of the updates of
  the abstract `SlotTable`; a group that writes and returns 0 has switched every pair
  that was found, whatever an earlier cut left there; a cut switch leaves what a retry
  can, or cannot, mend (a lost active bit and a lost GUID never come back).
- commit: the primary table is invalid only between its two writes; one fault breaks
  one table at most, and a later commit repairs it.
- failsafe update: a valid table at every instant; a 0 means that the device boots
  from the copies the updater will not touch; the images of a LUN flip together;
  the stage can be told again after a crash; a 0 opens the next stage on every LUN; an
  updater is let in again; a LUN that is refused by every stage is never written again,
  and a fault makes one such LUN at most.
- partition map: every A/B pair that was found ends up in exactly one group, that of
  the device of its entry in the new slot.
- CameraMetadata: every buffer has one owner and no owner points to freed memory; a
  lent pointer stays good until it is given back; objects behave as values (a call
  changes its own objects and no other, and never a locked one); an OK means that
  all of the change was made; memory is lost in no place but the two that are known, and
  no call but two kinds of `append` reads memory that is not there.

## 2. Modules

| Module | What it is |
|---|---|
| `SlotTable` | abstract: what the HAL promises about the A/B bits, write by write |
| `BootControl` | the HAL over `gpt_disk`, with faults and crashes |
| `MCBootControl` | partition layouts for TLC |
| `BootControlProofs` | control invariant and type correctness, proved |
| `BootControlSafety` | `ActiveGuid`, `InvalidOnlyInWindow`, `OneTablePerFault`, `MarkDurable`, proved |
| `BootControlSwitch` | the refinement of `SlotTable`, what a switch leaves behind when it is cut and when it is not, and what a retry can still mend, proved |
| `BootChain` | abstract: the device always has a complete chain to boot from |
| `FailsafeUpdate` | `prepare_boot_update`, with an updater and the firmware's choice |
| `MCFailsafeUpdate` | images and LUNs for TLC |
| `FailsafeUpdateProofs` | control invariant, type correctness, `SignatureLeft`, `SomeTableValid`, proved |
| `FailsafeUpdateChain` | the refinement of `BootChain`, what a stage that returned 0 means, and which LUNs are lost for ever, proved |
| `MetadataValues` | abstract: metadata objects are values |
| `CameraMetadata` | the class over an allocator that may fail, and its callers |
| `MCCameraMetadata` | buffers and objects for TLC |
| `CameraMetadataProofs` | type correctness and ownership, proved |
| `CameraMetadataSafety` | lent pointers, undefined calls, complete results, leaks, proved |
| `CameraMetadataRefinement` | the refinement of `MetadataValues`, proved |

Each component has one abstract specification and is shown to implement it:
`BootControl` that of `SlotTable` (`SlotTableSpec`, with `tab <- arr`),
`FailsafeUpdate` that of `BootChain` (`BootChainSpec`, with `boot <- BootCopy`, the
copy the firmware would pick in each state), and `CameraMetadata` that of
`MetadataValues` (`ValueSpec`, with the value of an object being the bag of entries
in the buffer it points to).

### BootControl and the code

A partition is its position in `AB_PTN_LIST`; an entry is `<<partition, slot>>`.
`Present` says which names exist under `by-name`, `DiskOf` on which block device
each lies, so that the map of `gpt_utils_get_partition_map` is the operator
`Group`.  A lookup that fails is taken for a partition that does not exist, at three
places: in the map (gpt-utils.cpp:1108-1114, UFS only), in the loop over a group
(boot_control.cpp:418-425) and in the loop of a marking call (boot_control.cpp:170-184).
At each of them the model may skip any of the pairs, at the price of a fault each, and
`missed` keeps which ones: the call goes on without them and can still return 0.  What
a 0 means is therefore stated for the pairs outside of `missed`.

Of an entry the model keeps the type GUID (`"img"`: what the boot loader looks for) and the three bits the HAL reads; priority and retry count are written
together with the active bit and read by nobody here.  A header is represented by
the array its CRCs were computed over (`crc`), so a table is valid when `crc` and
`arr` agree.

| Variable | In the code |
|---|---|
| `arr`, `crc`, `bak` | primary array, primary header, secondary array on disk |
| `bootLun` | `bBootLunEn` |
| `slotProp` | `ro.boot.slot_suffix`, `NoSlot` when it is empty |
| `op`, `cur`, `pc`, `side` | the running call, the iterator of its loop, the place in it, the handle being committed |
| `h` | `diskA` and `diskB`; for an update only `disk` |
| `missed` | not a variable of the code: the pairs whose lookup failed in the running call, or in the last one |
| `ret` | the last call that returned and its code |

Each call is one action that starts it, with the sanity check of its slot
(`opendir` may fail); the queries finish in that one action.
`GroupEmpty`/`GroupAborts`/`GroupPrepared` are the loop of
`boot_ctl_set_active_slot_for_partitions` up to the first commit: nothing in it is
durable, so it is one step, and `GroupAborts` stands for all its `goto error`.  Of the
pairs that pass the `stat()` calls the first one names the two disks (`DiskA`, `DiskB`);
when none passes there is nothing to commit (`GroupEmpty`).
`CommitHeader`, `CommitArray` and their failing variants are the two writes of
`gpt_disk_commit`; what the caller does next (`CommitReturnsZero`,
`CommitReturnsError`) belongs to the same step.  A freed handle is `"freed"`, a
second free makes it `"double"`: from there the process goes on or is stopped by
the allocator.  `Crash` may happen in any call, inside the running write.

### FailsafeUpdate and the code

A LUN has two headers, each `"ok"`, `"bad_signature"` or `"bad_crc"` (the results of
`gpt_get_state`), and for each image the order of the twins in the secondary
array, which is all that `gpt2_set_boot_chain` changes.  `InternalStage` is the
decision table of `prepare_partitions`; `AlreadySet`, `OpenFails` and `Begin` are
its three outcomes; `SetXbl`, `WriteSecHeader`, `WriteSecArray`, `SetPrimState` and
`SetSecState` are its durable writes in the order of the code; `StepFails` and
`Crash` cut any of them.  The LUN list is built anew in each call
(`PrepareBootUpdate`), and a `stat()` that fails drops a LUN.

The updater is external.  It rewrites main copies after a 0 of `UPDATE_MAIN`, bak
copies after a 0 of `UPDATE_BACKUP`, one image at a time, and does not begin a stage
that would boot from a copy it left half written.  `Client` says what it does after an
error: the same stage again (`"resume"`), the next one (`"probe"`), or anything at
any time (`"any"`).

### CameraMetadata and the code

The class is not thread-safe (CameraMetadata.h:56-57), so a method is one action,
with every early return and every allocation that fails as a disjunct of it.

| Variable | In the code |
|---|---|
| `heap` | per address, whether it is allocated, the bag of its entries, and the two counts and capacities that `resizeIfNeeded` compares |
| `obj` | `mBuffer` and `mLocked` of every object that is alive |
| `raw` | the `camera_metadata_t` buffers that a caller owns, from `release` |
| `hold` | who called `getAndLock`, on which object, and the pointer it was given |
| `ret` | the status of the last call |
| `wrong` | the call read through `NULL` or through a buffer it had freed; nothing is defined after it |

An entry is its tag and the size of its data (0: stored inline).  `Regrown` is
`resizeIfNeeded`, with the overwritten `mBuffer` when the allocation fails; `Update`
takes its data from the caller, from the object's own buffer (which the code checks
for, `SameBuffer`) or from another object's; its type check is a choice
(`typed`), since the type table is the vendor's.

The argument of `Append` may be an object without a buffer or the object itself, which
the header does not forbid (CameraMetadata.h:96-104).  The first is read through `NULL`
(cpp:143), the second is read again at cpp:147 after `resizeIfNeeded` has freed it; both
set `wrong`, and the behaviour ends there, which is why the two runs do not check for
deadlock.

`Habits` says what callers do about the lock that the header does not invite them to: lock
an object a second time (`second_lock`), destroy one that is lent (`destroy_locked`).  Each
of them breaks `LentPointerValid` (the lock is a flag, not a count; the destructor clears
the flag).  The runs have callers without these habits, and the one theorem that depends
on them says so.

## 3. Runs

All runs are complete searches; none uses a state constraint.  The two runs of
`CameraMetadata` use symmetry over objects, buffers and callers, which have neither
names nor an order in the code; they check no liveness.

| Run | Instance | What it shows |
|---|---|---|
| `slot_ufs` | xbl, two pairs on their own LUNs, one entry without a twin; silent short writes; 1 fault | `SwitchedAll`, `BootSpeaksForSlot`, `ActiveGuid`, `InvalidOnlyInWindow`, refinement of `SlotTable`, types |
| `slot_faults` | xbl, two pairs sharing a LUN in each slot; 1 fault (a failed lookup among them), writes honest | `MarkDurable`, `OneTablePerFault`, `ReadBack`, `NeverDarkTowardsA`, `DarkForever`, `GuidLostForever`, `GroupZeroMeansSwitched` |
| `slot_bad_zero` | one pair, 1 fault | one failed call makes a group give up; the boot LUN is switched and the call returns 0 with the images still active in the other slot |
| `slot_bad_free` | one pair, 1 fault | `diskA` is freed twice |
| `update_any` | 3 images on 2 LUNs, torn headers, 3 faults, any client | `SomeTableValid`, `ReadyForUpdate`, `TablesAgreeAfterFinalize`, `ZeroOpensNext`, refinement of `BootChain`, types |
| `update_xbl` | the same with XBL, resuming client | `BootChainIntact`, `NeverRefused`, `ReadyForUpdate`, refinement |
| `update_short` | 2 LUNs and XBL, short writes, failing lookups, torn headers, any client, 2 faults | `SignatureLeft`, `StuckForever`, `StuckPerFault` |
| `update_probe` | 2 LUNs, torn headers, 3 faults, fair | `GrantedAgain` |
| `update_bad_xbl` | XBL, any client, 1 fault | a 0 of `UPDATE_MAIN` with XBL still on main |
| `update_bad_backup` | one LUN, fair, 1 fault | an interrupted `UPDATE_BACKUP` is refused for ever |
| `camera_owners` | 2 objects, 3 buffers, 2 callers, every allocation may fail | `OneOwner`, `LentPointerValid`, `UndefinedOnlyThere`, `OkMeansDone`, `LeaksOnlyThere`, refinement of `MetadataValues`, types |
| `camera_values` | 1 object, 2 tags, entries with and without data, buffers with every mixture of spare room | `OkMeansDone`, refinement of `MetadataValues` |

### Bounds, and why they are enough

- `MaxFaults` bounds crashes and failed calls.  One fault cuts an operation at any
  of its writes; everything after it (retries, other calls, reboots) is unbounded, so
  one fault is enough for every "cut, then retry" story.  `update_any`,
  `update_xbl` and `update_probe` allow three, so that the recovery from a failure
  can fail too.  The theorems of section 5 hold for any number.
- `Arguments == 0..2` are the two slots and the first number past them: every
  larger one takes the same branch of the sanity check.
- Layouts: a device's entries matter only through sharing a LUN or not, having
  both slots or not, and being xbl or not; the layouts of `MCBootControl` have one
  of each kind.  nash has its `_a` and its `_b` entries on different LUNs
  (`init.nash.rc` and the by-name links), and so has every layout that is run.  The
  one-table layout of the eMMC branch is there to show what fails on it (below); no
  run uses it.
- Two LUNs are enough for the updates: one that is done and one that is not; three
  images put two on one LUN, so that a LUN can be seen half swapped.
- `CameraMetadata`: two objects are all that a method ever works on; the third buffer
  is there so that a reallocation can succeed while both own one.  `MaxEntries` (2)
  bounds the entries of one buffer, which is one more than the buffers of
  `camera_owners` start with, so that both outcomes of `resizeIfNeeded` happen.
  `camera_values` has one object, so that it can have two tags, two sizes and room
  for the entry but not for its data.  The theorems hold for any numbers.
- A counter that a step would raise without bound does not exist; `faults` is the
  only counter.

### Fairness

Only `FairSpec` of `FailsafeUpdate` has any.  `WF(Steps)`: a call that runs is
straight-line code without waiting, so it goes on until it returns or the
machine goes down, which `MaxFaults` bounds.  `WF` of `PrepareBootUpdate`, of `EndFlash`
and of `Skip`: the updater keeps working.  `SF(StageDone)`: it does not rewrite
images for ever; `StageDone` is disabled while an image is half written, hence
strong.  The updater is external, so this is an assumption about it.  It
weakens nothing for the refuted property: there the code's refusal is what blocks.

### Properties that fail, and what they mean

- `ZeroMeansActive` (`slot_bad_zero`): the return code of a group is dropped.  In the
  shortest trace one system call of the only group fails in a first switch: the group
  leaves before it writes, the boot LUN is switched and the call returns 0, with XBL to
  boot from the new slot and the images active in the old one.  A retry that meets no
  failure mends that.  It does not mend a switch to `_b` that was cut between its two
  commits, which leaves both copies inactive: there every retry aborts the group in the
  same way, and returns 0.  `DarkForever` shows that no sequence of calls repairs it or
  starts to; `NeverDarkTowardsA` shows that it only happens on the way to `_b`, since
  `diskA` is committed first.
- A lookup that fails leaves its pair out of a switch or of a marking call, and the call
  returns 0.  So `MarkDurable`, `GroupZeroMeansSwitched` and the marking half of `ReadBack`
  are false if the pairs in `missed` are not excepted: a `stat()` of `boot_a` that fails
  in `mark_boot_successful` gives a 0 after which `is_slot_marked_successful` answers 0.
- A switch to `_a` that is cut between its two commits leaves `_a` bootable and `_b` not yet
  retired, so both entries of a pair carry the bootable GUID.  The retry copies GUIDs
  from one entry to the other (boot_control.cpp:471-489), so the other GUID of the pair
  is gone: by `GuidLostForever` no call brings it back.  The active bits are right all the
  same (`GroupZeroMeansSwitched`).
- `FreedOnce`, `ReadyForUpdate` with XBL and `StageSettles`: see `findings` in
  `PROJECT.json`.
- `BackupFollows`, added as an invariant to `slot_ufs`, fails after one switch:
  `gpt_disk_commit` writes the primary table only, and the "backup header" of the handle
  is read from the primary (gpt-utils.cpp:1400).
- On an eMMC layout (`EmmcPresent`, `EmmcDiskOf`, one disk, `IsUfs = FALSE`)
  `ZeroMeansActive` fails without any fault: `diskB` was loaded from the same table
  before `diskA` was committed, and undoes it.
- More can be seen by changing a constant of a run.  `ShortWrites = TRUE` in
  `slot_faults` breaks `MarkDurable` and `NeverDarkTowardsA` and in `update_any` breaks `SomeTableValid`
  (`blk_rw` takes any `write()` that is not negative for success).
  `StatFails = TRUE` in `update_any` breaks `ReadyForUpdate` (a LUN that was not found
  is left out silently).  `Images` empty with `NLuns = 1` and no XBL breaks
  `NeverRefused` (a disk without twins stays at `UPDATE_MAIN`).
  `[]<>(goal # UPDATE_FINALIZE)` fails like `StageSettles` on two LUNs.
  `NLuns = 0` with XBL, and a client that resumes, breaks `ReadyForUpdate`: with an
  empty LUN list `prepare_partitions` is never called (gpt-utils.cpp:1036-1041), and it
  is what switches the boot LUN.
- `GrantedAgain` has an exception.  A header write that is cut inside its block
  (`TornHeaders`) leaves a LUN that every stage refuses (`StuckForever`), and then the
  updater is never granted anything again.  Without torn headers it is granted the main
  copies again after any interruption.
- "No call reads `NULL` or freed memory" is false of `CameraMetadata`;
  `UndefinedOnlyThere` says of which calls.

### Mutants

The operators marked `Mutant` change one definition each the way a plausible slip
would (a dropped check, a swapped order, an ignored return code).  Every
property of every passing run is broken by at least one of them.

## 4. What the model says nothing about

Boot control and update:

- names, offsets and sizes of partitions, the CRC arithmetic, byte order, the paths
  under `/dev`, logging; the priority and retry bits;
- two clients of the HAL at once.  There is no lock in the HAL or on the device: two
  processes that switch and mark at the same time lose updates and can interleave
  their commits.  No property could hold of that, so the model has one call at a
  time, as with one client (update_engine);
- a torn primary header in `BootControl` (a header block cut inside; the CRC field
  then fails by itself, which no property of that module tells apart from a stale
  array CRC);
- a third partition whose name begins with `boot` (boot_control.cpp:266-269); nash has none;
- the array bound of `lun_list`: `add_lun_to_update_list` appends without a check
  (gpt-utils.cpp:952), but it is called at most once for each of the 12 names of
  `PTN_SWAP_LIST` and the array has 26 places.  A set of LUNs is all the list is;
- `SlotTableSpec` is not claimed for one-table layouts, where a write of `diskB` covers
  entries of both slots.

`CameraMetadata`:

- the C library is not in the repository; it is modelled by how the class uses it.
  The queries (`entryCount`, `isEmpty`, `exists`, `find`, `dump`) change nothing and are
  left out, with what `find` does on a locked object: it returns an entry whose data
  pointer was never set (cpp:354-357);
- order: contents are a bag, so `sort` changes nothing that can be seen;
- what is left in a buffer that nobody owns any more.

A reader of the code should know these, which the model has as they are: a
reallocation that fails loses the entries and the old buffer (cpp:435-441);
`operator=` leaves the object empty, silently, when the clone fails (cpp:61-63);
`acquire(camera_metadata_t*)` on a locked object returns without taking the buffer,
although the caller "no longer owns" it (h:84-85), so that it is lost;
`acquire(CameraMetadata&)` from a locked object empties this one (h:91-92);
`erase` removes one entry of a tag that was appended twice.

Not modelled at all: the laser calibration script copies one value and keeps nothing;
the init scripts, blob lists, overlays, audio, NFC and sensor files, SELinux policy and
build files are data that other programs interpret, and those programs are not here.

## 5. Proofs

All theorems are for every value of the constants that `LayoutAssumption`,
`UpdateAssumption` and `MetadataAssumption` allow (any layout, any number of LUNs,
images, objects and buffers, any `MaxFaults`).  These are the only assumptions,
except where a theorem names another one.

Boot control:

- `BootControlProofs!InductiveInvariant`, `TypeCorrect`: `Spec => []IInv` and
  `Spec => []TypeOK`.  The type invariant is not inductive: that `cur` stays in its
  range, that `DiskOf[e]` is applied to entries that exist and that `op.slot` is a slot
  all depend on where the call is.  `IInv` adds `Control`, which ties `op`, `cur`, `side`
  and the state of the handles to `pc`.
- `BootControlSafety!ActiveGuidHolds`: `IInv` and the same statement about both handles
  in memory is inductive, short writes and crashes included: `Overwrite` mixes two tables
  that both have it.
- `BootControlSafety!InvalidOnlyInWindowHolds`: with `Halfway` (in the middle of
  a commit the header on disk is the one computed over the handle's array) and
  `FaultyStep` (a step that spends a fault says nothing).
- `BootControlSafety!OneTablePerFaultHolds`: the set `Broken` of disks whose table fails its
  CRC, without the one in the middle of a commit, grows in steps that spend a fault only,
  and then by one disk; `Halfway` says that the commit of a table that was broken before
  leaves it valid.  It needs no assumption about writes or layouts.
- `BootControlSafety!MarkDurableHolds`, assuming `~ShortWrites`: the loop invariant
  `Loop` (the pairs before the cursor that are not in `missed` are marked, on tables that
  are valid) is kept by every step of the call.  Without the assumption the property is
  false.

- `BootControlSwitch!SlotTableImplemented`, `DarkForeverHolds`, assuming `SlotsApart` (no disk
  holds entries of both slots, as on nash): every disk write is a write of `SlotTable`, and
  a partition that went dark stays dark.  `Pending` says what a handle that waits to be
  committed differs in from its disk, so that each write, whole or short, is an update
  of the entries of one slot.  Without the assumption both are false: on one table
  `diskB` is stale when it is committed.
- `BootControlSwitch!NeverDarkTowardsAHolds`, assuming also `~ShortWrites`: by `Armed`, `diskB` is
  only committed over a `diskA` that is active.
- `BootControlSwitch!GuidLostForeverHolds`, assuming `SlotsApart`: by `GuidKept` the two handles hold,
  until `diskA` is written, no GUID that the pair does not have on disk.  Both this property
  and `DarkForever` are about what a pair holds (`Held`): its two entries and, between the two
  commits, the one that `diskB` is about to store.  So neither has an exception for a switch
  that is running; `HeldMoves` says where each held entry comes from.
- `BootControlSwitch!GroupZeroMeansSwitchedHolds`, assuming `SlotsApart` and `~ShortWrites`: by
  `FirstDone`, while `diskB` is committed the entries of `_a` are on disk as `diskA` had them,
  and by `Pending` and `Halfway` the last write makes the same true of `_b`.  It speaks for
  the pairs that were found.  Nothing is assumed of the state the group began in.
- `BootControlSwitch!SwitchedAllHolds`, `BootSpeaksForSlotHolds`, assuming `SlotsApart` and `GroupsWhole`
  (partitions that share a disk in one slot share one in the other): by `Steady`, while
  nothing failed all pairs began the running call with the same bits, and each pair
  either has them still or has what the call makes of them (`Even`); where the cursor is
  decides which, and no pair is missing (`Found`).
- `BootControlSwitch!ReadBackHolds`, assuming also `~ShortWrites` and that boot and xbl are two
  partitions: from `MarkDurable` and `Steady`, for a call that could look up boot.

The UFS layouts of `MCBootControl` satisfy `SlotsApart` and `GroupsWhole`.

Failsafe update:

- `FailsafeUpdateProofs!InductiveInvariant`, `TypeCorrect`: `IInv` ties every step to the
  stages that run it (`RunsIn`) and says that a step works on a LUN of the device; without
  it neither the grant of a finished stage nor the index of a header has its type.  That the
  least element of the LUN list is in the list (`MinIn`) comes from the well-foundedness of
  the naturals.
- `FailsafeUpdateProofs!SignatureLeftHolds`: `Headers` adds to the property what the step of
  `pc` may rely on about the two headers of its LUN (for instance that `UPDATE_MAIN` spoils
  the primary signature only while the secondary one is good).  It needs no assumption
  about writes.
- `FailsafeUpdateProofs!SomeTableValidHolds`, assuming `~ShortWrites`: `Tables` adds that a primary
  header is spoilt only over an array it will fit again, and that the secondary CRC fits
  the secondary array before the primary header is touched.  `KeptTables` reduces every
  step to the LUN it works on.  Without the assumption the property is false.

- `FailsafeUpdateChain!StuckForeverHolds`, `StuckPerFaultHolds`: by `AtWork` a stage works on a LUN only
  while that LUN is acceptable, so that a refused one is never written; the set `Stuck` of
  refused LUNs grows in steps that spend a fault only, and then by the LUN at work.
- `FailsafeUpdateChain!TablesAgreeHolds`, assuming `~ShortWrites` and `~StatFails`: by `LoopDone` the LUNs
  before the one at work have their stage behind them (`Did`), so that a 0 speaks for
  all of them.
- `FailsafeUpdateChain!ZeroOpensNextHolds`, assuming `~StatFails`: from the same `LoopDone`, which
  also says, once the updater moved on to its next goal, that every LUN has the stage
  before that one behind it.
- `FailsafeUpdateChain!BootChainIntactHolds`, assuming `~StatFails` and `XblResumed`, and
  `ReadyForUpdateHolds` and `BootChainImplemented`, assuming also `~ShortWrites`.  `XblResumed` says
  that where XBL has a boot LUN of its own the updater repeats a stage that failed, and
  there is a LUN to update.  `ChainOrder` says which copies the secondary
  array puts first under each state of the headers, `TornApart` that a copy which is
  half written is never one its LUN can be flipped to, and `XblPhase` with
  `XblSwitched` the same of XBL, whose stage is kept nowhere but in the updater.
  `ReadyForUpdate` is false without any one of these (`update_bad_xbl` is the case of an
  updater that does not resume), `BootChainIntact` without `~StatFails`.  That `BootChainIntact`
  holds with short writes as well is `CrcOrder`: a secondary array that was cut does not
  fit its header, so firmware takes no copy from it rather than the wrong one.  (That it
  finds a copy at all is `SomeTableValid`, which short writes break.)  `LoopDone`, `TornApart` and
  `XblInv` hold with short writes too.
- `FailsafeUpdateChain!NeverRefusedHolds`, assuming that the updater follows the stages and that every
  LUN has an image with a twin: by `InStep` every LUN that is not done yet is at the
  stage that a faultless updater left it at.  A LUN without twins refuses
  `UPDATE_BACKUP`.

Camera metadata:

- `CameraMetadataProofs!MetadataTypeCorrect`, `OneOwnerHolds`: with `DeadIsEmpty` (an object that
  is not alive points to nothing) ownership and types are inductive together, for
  callers with any habits.
- `CameraMetadataSafety!LentPointerHolds`, assuming neither `second_lock` nor `destroy_locked`: one
  holder per object, and `LockedStays`: no method touches a locked object.
- `CameraMetadataSafety!UndefinedOnlyThereHolds`, `OkMeansDoneHolds`, `LeaksOnlyThereHolds`, for all
  callers.  `ResizedOrNot` says when a buffer is reallocated, which decides when an append
  of an object to itself is undefined.  The other lemmas say what a buffer holds after `append_camera_metadata`, `Regrown`, `Stored` and `Written`, and that a buffer that
  was regrown has room.
- `CameraMetadataRefinement!MetadataImplementsValues`: one lemma per method says which step of
  `MetadataValues` it is; `OneOwner` is what makes a change of one buffer a change of one value.

Only model-checked: liveness (`GrantedAgain`), which is out of the prover's reach, and what
the four runs that expect a violation refute.

## 6. Plan

Done: the three components that carry state, each with an abstract specification, runs
and proofs.  `LunList` of an earlier plan was dropped: the bound it was about is never
reached (section 4).  Left, should the code change:

1. two clients of the HAL at once, when the HAL gets a lock;
2. other `boot*` names in `get_number_slots`, when the device gets one;
3. layouts with both slots in one table, when `diskB` is loaded after the commit of
   `diskA`: then `SlotsApart` can be dropped.
