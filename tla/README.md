# A verification of the stateful programs of travail

The repository is a work area of several unrelated programs. This project models
those that are concurrent, or whose data structures are easy to get wrong:

* the **paravirtual USB stack** of `openxt/vusb_cancel` and `openxt/vusb_unload`: a
  guest driver (`xc-vusb.c`, a virtual USB host controller) and a backend in the
  driver domain (`usbback.c`) exchange requests over a page of shared memory;
* the **battery path** of `openxt/acpi`: a daemon (`xcpmd.c`) writes what sysfs
  says to xenstore, qemu (`xen_acpi_pm.c`) hands it out on I/O ports, and the
  guest's AML (`ssdt_pm.asl`) reads it a byte at a time;
* the **measured launch** of `trenchboot/slboot`: what becomes of the loader's
  memory map (`e820.c`) and how it talks to
  the TPM (`tpm.c`).

The TLA+ modules are translated from the C and ASL code, function by function;
`PROJECT.json` maps each definition to its lines. Where two copies of a program
differ, the module says so and a constant chooses. Paths below are relative to
`src/openxt` (USB, batteries) and `src/trenchboot` (launch).

## 1. The system

### Components, their state and their operations

| part | code | state | operations |
|---|---|---|---|
| shared ring | both sides, `usbif.h`, Xen's `ring.h` | slots, `req_prod`, `rsp_prod`, `req_event`, private `req_cons`, `rsp_cons`; event channels | put a request, flush, take a request, respond, notify |
| frontend device | `xc-vusb.c` 1008-2113, 2115-2274, 2461-2605 | lists pending, finish and release; urbp state and id; shadow table and its free list; `rflush`; work item; `processing` | enqueue, dequeue, process, interrupt, work, grant callback, reset, start, destroy |
| root hub and xenbus binding | `xc-vusb.c` 366-604, 800-980, 2419-2685 | ports: `connecting`, `present`, `closing`, `port_status`, `device_id`, reset gate; driver data of xenbus devices | hub requests, status poll, probe, backend changed, remove, port reset |
| backend | `usbback.c` | pool of `pending_req`, `pending_to_free`, tasklet, segment pool, anchors, timers, `usbif_t` counts | kernel thread, dispatch, completion, cancel, asynchronous free, timeout, disconnection |
| power management | `xc-vusb.c` 947-981, 2687-2716, 2773-2927 | `hcd_state`, `rh_state` | suspend, resume, freeze, restore, probe, remove |
| xcpmd | `acpi/xcpmd/src` | statuses scanned, `last_full_capacity`, battery level; nodes `/pm/bst*`, `/pm/bif*` | scan, write a transaction, try it again, work out the level |
| battery device | `acpi/qemu-1.4.0/hw/xen_acpi_pm.c` | `_bst`, `_bif`, `_selector`, `index`, `bif_changed` of each battery | port reads and writes |
| battery methods | `ssdt_pm.asl` | mutex `SYNC`, buffer `BUF0` with `BUFA`, `BUFB` | `_STA`, `_BST`, `_BIF` of two batteries |
| slboot's memory map | `slboot/common/e820.c`, parts of `loader.c`, `linux.c`, `txt.c` | `g_copy_e820_map`, the loader's map, the kernel's map, the PMR ranges | copy, protect, reserve, replace, hand over, `get_ram_ranges` |
| slboot's TPM driver | `slboot/common/tpm.c`, its callers in `slboot.c`, `txt.c` | registers shared with the device: locality, status, burst count, buffer | prepare, detect, submit a command through FIFO or CRB, relinquish |

How they interact: the USB core of the guest calls enqueue, dequeue and the hub
functions; xenbus calls probe, changed and remove, one at a time, from the
xenwatch thread; the backend's event channel raises `vusb_interrupt`, the
frontend's raises `usbif_be_int`; two work items (per device, per port), the
backend's kernel thread and its tasklet run in between. State is guarded by
`vhcd->lock` (ports), `vdev->lock` (lists, shadows, frontend half of the ring)
and `usb_ring_lock` (responses). The indices in the shared page are guarded by
nothing but the order of reads and writes. The battery programs share xenstore
nodes, written in transactions and read whole, and I/O ports guarded only by
the AML mutex. slboot runs on one processor, one call after the other.

### What is hard, and what correct means

* **Ring.** Nothing in `vusb_put_ring` looks whether a slot is free; the
  argument is that holding a shadow entitles to a slot. Notifications are
  suppressed by `req_event` in one version of the frontend, so a request may lie
  unread with nobody to say so. Correct: no slot overwritten, every response for a
  request in use and answered once, no request or response stranded.
* **Frontend device.** An URB is moved between three lists and three local
  lists by five contexts; ids are reused at once while cancel requests name them;
  allocation fails and is retried; teardown races everything. Correct: each URB in
  exactly one place, given back exactly once and eventually; no shadow leaked; a
  response and a cancel request concern the URB they were meant for.
* **Root hub.** Two bits (`connecting`, `closing`) keep a port from being
  handed out twice; the hub driver hears of changes only through change flags.
  Correct: no two devices on a port, nothing of the last device on the ring of a free port,
  every arrival and removal seen.
* **Backend.** A pool shared by all guests, completions in interrupt context,
  timers and cancels that race them, a device structure that its thread, its URBs
  and the disconnection all hold. Correct: every structure, segment, grant and
  reference given back once, every request answered once, stopping ends.
* **Batteries.** A value crosses three programs and two encodings, with a
  writer that may change it while a reader is half way. Correct: what a method
  returns was true of its battery at one moment of the call; in the end the
  guest sees the batteries there are.
* **Memory map.** Regions overlap, come in any order, split others in a table
  of fixed size with unsigned indices and wrapping sums. Correct: the table says
  of each address what the calls said, and the ranges for the PMRs match it.
* **TPM.** A dozen waits that poll a register and give up; what was waited for may
  happen later, during the next command, or never. Correct: an answer belongs to the command
  submitted, the locality is let go on every path and before SENTER, and a device
  that stops answering never hangs the launch.

`PROJECT.json` lists 40 hazards with their lines and the properties that watch
them, and every other program of the repository with the reason it is not
modelled (third-party copies, straight-line setup code, work planned below).

## 2. The modules

| module | models | lines of code it stands for |
|---|---|---|
| `VusbChannel` | the abstract ring: two FIFO queues, each request carried once | none: a specification |
| `VusbRing` | the ring, word by word, with both sides' code that touches it | `vusb_put_ring`, `vusb_flush_ring`, `vusb_interrupt`; `usbif_schedule`, `do_usb_io_op`, `make_response` |
| `VusbRingProofs`, `VusbRingRefinement` | proofs about `VusbRing`: its invariants; that it implements `VusbChannel` | |
| `VusbFront` | one frontend device over the abstract queues | the life of an URB, reset, start, destroy; `do_usb_io_op` and `cancel_urb` of the backend |
| `VusbFrontProofs` | proofs about `VusbFront` | |
| `VusbPort` | root hub, xenbus callbacks, port reset, and what a hub driver does with it | see section 1 |
| `VusbPortProofs` | proofs about `VusbPort` | |
| `VusbBack` | the backend's devices over their common pools | `usbback.c`: threads, dispatch, completion, tasklet, timers, cancel, stop and disconnection |
| `VusbBackChannel` | `VusbBack` with a record of the responses on one device's ring; that it refines `VusbChannel` | for whose ring `make_response` is called |
| `VusbBackProofs` | proofs about `VusbBack` and `VusbBackChannel` | |
| `PmStrings` | the battery strings | the writers of `xcpmd.c`, `battery_port_1_op_get_data` |
| `Xcpmd` | the daemon's passes | `update_battery_status` with its scans, transactions and retries, the battery level |
| `AcpiBattery` | qemu's ports and the guest's methods over the nodes | `xen_acpi_pm.c` battery ports, `_STA`, `_BST`, `_BIF` with their helpers |
| `AcpiBatteryProofs` | proofs about `AcpiBattery` | |
| `AcpiReport` | `AcpiBattery` with a record of what the status ports told | |
| `E820` | the memory map from the loader to the launch | `copy_e820_map`, `protect_region`, `insert_after_region`, `replace_e820_map`, `get_ram_ranges`, the kernel's map |
| `E820Proofs` | proofs about `E820` | |
| `Tpm` | the TPM driver, the launch that calls it, and a device that may be late | `tpm.c` from `tpm_validate_locality` to `tpm_detect`, with the status helpers |
| `TpmProofs` | proofs about `Tpm` | |
| `MCVusbRing`, `MCVusbFront`, `MCVusbBack`, `MCXcpmd`, `MCAcpiBattery`, `MCE820` | values of constants for TLC | |

**Composition.** Three modules refine `VusbChannel`, which stands between them:
`VusbRing!ImplementsChannel` says the shared page with its indices and notifications
is a pair of queues; `VusbFront!ImplementsChannel` says that everything the driver
does to the queues is allowed (a shadow is sent only when free, and released only
after its response was read); `VusbBackChannel!ImplementsChannel` says so of the
backend (requests are taken in their order, each that was taken is answered once, on
the ring of its device, and none is dropped). All three are theorems, for every
number of shadows, devices and `pending_req`s. `VusbFront` and `VusbBack` may
therefore use queues where the code has a page. `VusbPort` abstracts from URBs to
the two internal requests a port waits for. `Xcpmd` and `AcpiBattery` share
`PmStrings` and meet at the nodes: what `Xcpmd` writes in one step is what
`WriteStatus` and `WriteInfo` of `AcpiBattery` may put there at any time.

### VusbRing

One action per access to shared memory or critical section. `stage[i]` is a
bookkeeping variable: where the request of shadow `i` is (`free`, `queued` in the
ring, `taken` by the backend, `answered`, `finish` on the frontend's finish
list). `fpc` is the frontend under `vdev->lock`; `kpc` is the backend's thread;
`prState` is the program counter of each `pending_req`, split inside
`make_response` at every step another processor can see (`PushResponse`,
`TailCheck`, `StoreReqEvent`, `RecheckRequests`, `NotifyWork`, `NotifyFront`).
The constant `AlwaysNotify` is `vusb_unload`, which ignores `req_event`
because of OXT-311.

Left out: `rsp_event` (its only use is a value the backend ignores), the
protocol variants (32 and 64 bit layouts), payloads.

### VusbFront

An URB's `reqId`, `state` and the lists are those of `struct vusb_urbp`; `freeList`
is the stack `shadow_free_list`. Callers of `vusb_process` are tasks: one enqueuer
and one dequeuer per URB, and the device's work item. A section under `vdev->lock`
starts with a step that needs `lock = NoTask`; sections whose steps nobody can see
in between are one action. `xpc` is the xenwatch thread through `vusb_start_device`,
`vusb_usbif_halt`, `vusb_usbif_free` and `vusb_destroy_device`, with a step for each
of its waits. After them comes the walk of the finish list without the lock, one URB
per step: `WalkOn` looks up the entry after the next one first, as
`list_for_each_entry_safe` does, so what the interrupt appends behind the last entry
is not walked. Then the ring page is freed, the handler unbound (which waits for one
that runs), and the URBs released and pending given back. Within one
`vusb_urb_finish` of the walk the lists change at once: that the interrupt may run
in the middle of it, on the same list heads, is not split further. The backend takes
requests in order, answers internal ones at once, gives URBs to the device, and
executes cancels as `cancel_urb` does, including the window in which the victim has
left the anchor but not been answered.

An URB stands for one submission of it. `Immediate` URBs are SET_ADDRESS or
unsendable ones. Grants appear only as a possible shortage (-EBUSY).

### VusbPort

`connecting`, `present`, `closing` and the reset flags are sets of ports,
`status` a set of flags per port (low and full speed are one). xenwatch runs one
callback at a time; `xpc` is where it waits. The responses to a port's internal
requests go through the ring: `Respond` puts one there and raises the event
channel only for the first unread one, `Interrupt` takes them, if the port may
process (`CanStart`) or the final flush was asked for (`rflush`); otherwise they stay and nobody
is told again, which is how a removal can hang. `PortWorkRun` may find no room on
the ring, which leaves the reset gate closed. `Unload` selects the version whose
`vusb_set_link_state` looks at `closing` and whose `vusb_destroy_device`
reports the removal first. The hub driver is external and
reduced to the calls it makes: power, clear a change, look, reset and enumerate.

### VusbBack

`pc[d]` is the thread of device `d` in `usbif_schedule` and below, `cur[d]`
the `pending_req` it has in its hands, `urb[p]` and `timer[p]` the life of the
URB and timer of `p`; `free`, `toFree` and `tmp` are `pending_free`,
`pending_to_free` and the tasklet's local list. A completion runs between any two
steps of a thread. A timer that has been entered when its URB completes stays in
`stale` and may unlink whatever URB has the structure then: `del_timer` does
not wait. Each request needs one segment and, if indirect, `Extra` more; the pool
has one for every `pending_req`, as `usbif_init` provides, so an
indirect request can leave another none. After `usbif_put` the completion
still wakes whoever waits to free the `usbif_t` (`EndWakes`), and the tasklet's
`free_req` gives the URB's buffer back through it (`FreeReq`): either may use
a structure that was freed meanwhile, which `lateUse` records and which may stop the
kernel (`bug`). `Leaving` are the devices that may be disconnected. The
routines of `vusb.c` and `interface.c` that `usbback.c` calls are not in the
repository; they are modelled by how it uses them and marked external.

`VusbBackChannel` adds what `VusbBack` does not keep, the order of the responses on
the ring of one device (`Watched`, any of them). `Answers(d, p)` says for whose ring
`make_response` is called: a thread passes its own `usbif`, a completion the one
its `pending_req` names. The requests owned are those a `pending_req`
stands for: if one were freed before its answer the request would be gone,
which the channel does not allow.

### PmStrings, Xcpmd, AcpiBattery, AcpiReport

A string is a sequence of digits, characters and ends of line. The nine DWORDs of a
`_BIF` are one pair of digits, the four of a `_BST` two pairs, each read by a
command of its own: two are what it takes to mix two statuses. `Starts` says where
each attribute begins among the bytes of the block, `Total` how many there are:
`_BIF` cuts them out of BUF0 by these (`StringsFrom`). `GetData` keeps the
arithmetic of the index, which moves by two in the block and the lengths and by one
in the text, and is where an end of line decides; `qindex` wraps at 256 as the
`uint8_t` does. In `Xcpmd` a scan is one step and so is a transaction; `RetryStatus`
and `LoseStatus` are the commits that end in EAGAIN and in another error. The status
pointer that a retry leaves past its array, and the sum of capacities that a query
adds to, are as in the code. In `AcpiBattery` one WPRT, a data byte and a command,
is one step of a method; with `Preemptive` another method may run before each.
`_BIF` fills the one package `BIFP` before REL (`Release`) and reads it after
(`Fetch`), when another `_BIF` may have filled it again. The history variable
`held[t]` collects the values the node had during a call, and `by` in `bifp` says
whose method filled it.

### E820

Addresses are `0..Top-1` and sums wrap at `Top`, which stands for 2^64; a table has
`MaxEntries` entries. `ProtectRegion` is written as its effect (split, cover, cut)
with the branch conditions and the room checks of the code, and `InsertAfter` keeps
the unsigned index that becomes huge for the first entry. Two history variables:
`memory` has the type each address should have by the calls made, `lowestFirst`
whether every region came in above the first of the table. Regions come in any
order. `handed` is what `linux.c` copies to the kernel's `boot_params`.

### Tpm

`pc` is the driver, one step per wait or sequence of register writes; `phase` how
far the launch has come: `tpm_detect`, commands, `prepare_tpm` and, with a CRB, the last
release of `txt_launch_environment`. The device is external: `asked`, `req` are what
it was told and has not served, `dev` its state (idle, ready, reception,
executing, completion), `content` the command whose answer a read yields. No time
is assumed: a wait whose condition does not hold may give up at any moment,
and what it waited for may come later or never. Three histories name what the driver
does not look at: `use` (its last request for the locality: standing or
granted), `lateIdle` (it gave up waiting for idle in this call), `missed` (its last
release could not validate a locality that was active). A command is its number and
an answer a row of bytes that carry it, so a byte of another command shows. Locality 0
is the only one used; `crb` is chosen in `Init`, with a locality the BIOS may hold
and a command it may have left under way. `tpm_detect` and `tpm_fp->init` send
commands like any other caller; what they ask and conclude is left out, so a
caller may pass over a failure or stop the launch.

## 3. The runs

Each run takes less than five minutes with two workers. `CHECK_DEADLOCK FALSE`
where the systems may rest (nothing to do, no more pushes, device gone, launch
over or refused); `AcpiBattery` never rests and is checked for deadlock.

| run | question | bounds |
|---|---|---|
| `VusbRingSafe` | is anything overwritten, lost, reordered or stranded; do the indices and stages agree; is it the channel | ring of 3, 3 shadows, 2 pending_reqs, 4 pushes |
| `VusbRingAlways` | is every request served when the frontend always notifies, with no help from devices | ring of 2, 3 pushes, fair drivers |
| `VusbFrontLife` | lists, shadows, responses under enqueue, dequeue, retry, port reset and removal; is the channel used as allowed; does a task touch the lists after the halt | 2 URBs (one may be finished unsent, one unlinked), 3 shadows |
| `VusbFrontLive` | is every URB given back; does a cancel bring its URB back; does it hit no other, though ids are reused and a send that failed leaves its id behind | 2 URBs, 2 shadows, grants may run out |
| `VusbFrontDestroy` (violation) | does removal end | 1 URB, 2 shadows |
| `VusbPortUnload` | do devices share ports, is the ring of a free port quiet; does the hub driver hear of arrival and removal, see the right speed, get its resets done (`vusb_unload`) | 1 port, 2 devices in turn, backends die, drivers reset, responses at any moment of a removal, requests that find no room |
| `VusbBackPool` | are structures, segments, grants and references given back once; is each request answered once and, for the second device, on its own ring and never dropped; when do segments run short; does stopping end, is a request answered | 2 devices that share 2 pending_reqs and the 2 segments `usbif_init` provides for them; a timed indirect OUT and an IN request to the first, an IN and a cancel request to the second, which may be disconnected |
| `Xcpmd` | do the nodes come to say what sysfs says | 2 battery bays, values of 1 to 3, 3 changes, 1 failing transaction |
| `AcpiBattery` | does a method return what was true of its battery; does it return | 2 threads that preempt each other anywhere and may both run `_BIF`, 2 batteries, statuses of 2 bytes, 2 attributes of which one battery lacks one, 1 write by the daemon |
| `E820` | if the lowest region came first, does the table say what the calls said; do the ranges have the RAM | 8 addresses with limits at 2 and 5, 4 entries, 3 regions of the loader in any order and overlap, 0, 1, 2 and 4 long |
| `E820Kernel` (violation) | does the kernel's map agree with the ranges, if the lowest region came first and the kernel was given the whole table | the same |
| `Tpm` | do answers belong to their commands, is the locality let go, does the launch end | both interfaces, 3 commands and answers of 3 bytes in bursts of 1 or 2, room for 2 or 4; every wait may be late |

**Why these bounds.** A ring of 3 with 4 pushes wraps, is full, and has the request
of one slot overwritten by the response of another; two `pending_req`s make
completions race the thread and each other, and exhaust the pool. In `VusbFrontLife`
two URBs stand on the finish list while it is walked, with a third shadow for a
cancel or a reset; in `VusbFrontLive` 2 shadows make the last one contended, and ids
are reused in the life of one cancel request. Two devices that use one port one
after the other show what the first leaves to the second; that two ports are not
mixed up is for `VusbPortSafe` and the proofs. In `VusbBackPool` the IN requests,
which have no timeout, are as many as the `pending_req`s, so that they can hold the
whole pool while a cancel waits, and the indirect request can hold the segment of
the other; `populate_req` then fails. In `AcpiBattery` a second thread and one
change suffice for a method to read the first half of one value and the second of
another, if anything let it; no two statuses have a byte in common. A table of 4
entries is full after 3 regions and one split; 8 addresses let sums wrap. Three
commands let the answer of the first be late during the second and the third follow
both. `MaxPush`, `MaxChanges`, `MaxFaults`, `MaxWrites`, `MaxRaw` and `MaxCmds` are
artificial bounds; the proofs do not depend on the values of the first and the last
three. Symmetry is used where only safety is checked: `VusbRingSafe` permutes
shadows and pending_reqs, which the specification treats alike, `VusbFrontLife`
shadows, which nothing but the order of the first free list tells apart.

**Fairness.** `DriverFairness` says that interrupts, work items, the kernel thread
and calls under way go on: weak where a step once enabled stays so, strong where it
waits for a lock others take repeatedly (the kernel's ticket spin locks are first
come first served). It does not say that a device completes an URB, which for an
interrupt endpoint depends on a person; `DeviceFairness` says so where a property
needs it, and `UrbGivenBack` names it as its condition together with `GrantFairness`
(the grant table's callback is not starved for ever). In `VusbPort` devices come, go
and die as they like; a living backend answers and the interrupt it raised is
served; `ResetCompletes` names the removal of the device as its exception, as a
response may then be left unread. In `VusbBack` threads, timers, the tasklet and the
disconnection go on, and an URB that was unlinked or killed completes, as the USB
core promises; one that was not need never. `RequestAnswered` therefore has
`Exhausted` as an exception: IN transfers that never complete hold all
`pending_req`s for ever. Like `StopCompletes` it ends where the kernel does (`bug`).
That the thread is woken for what lies on its ring is the subject of `VusbRing`, not
of this run. `Xcpmd` runs its pass again and again because its timer is always set
again. In `AcpiBattery` a method goes on, and one that waits for `SYNC` gets it if
it is released again and again. In `Tpm` the driver runs on; nothing is asked of the
device.

**Mutants.** Each property of a passing run is broken by a mutant: a
definition with a plausible bug, written next to the one it replaces. They show
that the property depends on the code: e.g. looking at the ring once instead of
twice after moving `req_event` strands a request, releasing a pending URB
without asking whether it was sent makes a response hit freed memory, a timer not
set for a control request lets a stopped device keep a structure, a method that
does not take `SYNC` returns halves of two batteries.

## 4. What the runs found

Recorded in `PROJECT.json` under `findings`, with the sentence each contradicts:

1. **Removal hangs** (`VusbFrontDestroy`, `xc-vusb.c:2135`). The final interrupt is
   dropped between `closing` and `rflush`, or after an earlier one has cleared
   `rflush`.
2. **The kernel keeps RAM that no PMR protects** (`E820Kernel`, `loader.c:707`).
   `prepare_intermediate_loader` puts the table in the place of the loader's map and
   fills the kernel's `boot_params`; only then does `get_ram_ranges` (`txt.c:478`)
   reserve, in the table, the low RAM above a reserved region. The run's condition
   `KernelHasTable` sets aside another way to the same end, a multiboot 2 tag
   that could not grow (below).

The other statements of comments that TLC refutes have a configuration of their
own that shows it, but are not among the recorded runs
(`tlc -config X.cfg M`):

| configuration, module | what happens |
|---|---|
| `VusbRingHang`, `MCVusbRing` | `make_response` moves `req_event` only when all requests taken have been answered (`usbback.c:1168`). With one URB at its device a later push is neither announced nor looked for. `vusb_unload` works around it (OXT-311); `VusbRingAlways` shows that this suffices |
| `VusbFrontMapped`, `VusbFront` | the interrupt reads the ring page after it was given back (`xc-vusb.c:2251`) |
| `VusbFrontUnlink`, `VusbFront` | an unlinked URB is not found (738): the window the comment at 734 calls unlikely |
| `VusbFrontWalk`, `VusbFront` | the interrupt appends to the finish list while it is walked without the lock (2565), for an URB that was sent after the ring had been found empty: "should be OK since all processing is halted now" counts no interrupt |
| `VusbFrontLost`, `VusbFront` | such an URB is left on the list when the device is cleared: it is not given back, against "Process any last completed URBs" (2569) |
| `VusbPortRemoval`, `VusbPort` | `vusb_cancel` brings the link state up to date while `present` is still set (2594): a removal is not reported |
| `VusbPortStale`, `VusbPort` | a reset asked for after `vusb_usbif_halt` flushed the work item leaves it scheduled when the port becomes free; it runs for the next device, without the gate |
| `VusbBackSegments`, `MCVusbBack` | with the segments `usbif_init` provides, an indirect request leaves none for another: `populate_req` fails after `nr_pages` was set, and freeing meets a NULL segment, a `BUG_ON` (`usbback.c:232`) |
| `VusbBackFreed`, `MCVusbBack` | the `usbif_t` is used after the last `usbif_put` of a completion (650): by `wake_up` in it, and by `free_req` in the tasklet (256-258), when the disconnection has freed it |
| `XcpmdAlarm`, `MCXcpmd` | every scan, also that of a retry, adds to `last_full_capacity` (`xcpmd.c:154`), so that the level falls below the warning of line 510 without the battery having done so |
| `AcpiMissing`, `MCAcpiBattery` | an attribute that sysfs does not have and xcpmd leaves empty shifts the strings of a `_BIF` (`xen_acpi_pm.c:416`) |
| `AcpiShared`, `MCAcpiBattery` | another `_BIF` fills `BIFP` between REL and Return (`ssdt_pm.asl` 489-503), if the interpreter switches methods there; one that follows ACPI (5.5.2: only where a method blocks) does not |
| `AcpiChange`, `AcpiReport` | a change of information is not told to the guest when a `_BIF` came in between (588) |
| `E820Unordered`, `MCE820` | a region at or below the first of the table overwrites it (`e820.c:115`), although the comment at 308-310 says that unordered entries are supported |

More are kept without one, after the checked properties of their modules: in
`VusbFront` `DrainedAtTeardown` (the ring is drained before processing has
stopped), `WorkShutDown` (work is scheduled again after the flush), `ResetHasRoom` (a
cancel takes the shadow kept for resets); in `VusbPort` `GateHasReset` (a
reset asked of an empty port closes the gate for good), `NoOrphanPort` (a
device removed before its backend connects keeps its port), `IdsUnique` (the scan
stops at the first free port), `NoOops` (remove after the backend vanished follows
a null pointer), `DestroyCompletes` (the backend vanishes while a reset waits).
To see one, name it in `VusbFrontMapped.cfg` or `VusbPortRemoval.cfg`;
`ResetHasRoom` needs `MayReset = TRUE` and `Cancellable = {u1}`, `IdsUnique` 2
ports, 3 devices and 2 ids, `NoOops` and `DestroyCompletes` `MayDie = TRUE`, the
latter also `MayReset = TRUE`. `GrantsReturned` of `VusbBack` is violated with
`AtomicFails = TRUE`: a completion that finds no atomic memory leaves the pages
of an indirect request mapped (`usbback.c:329`).

Read, but not stated as properties: the multiboot 2 tag is never made shorter
(`loader.c:1105`), so that old entries follow the new ones, and when it cannot
grow the loader's map stays as it was (1086), without what slboot reserved; both
are in `Replaced`.

Three configurations of `Tpm` drop an exception that a checked property names.
`TpmLateUse` (`NoLateGrant`): the request of line 321 is left standing when the
driver gives up at 333; it is granted later and nobody lets go. `TpmUnvalidated`
(`LaunchClearAlways`): a locality that cannot be validated is taken for inactive
(673, 708) and the launch goes ahead with it held, against "must ensure
TPM_ACCESS_0.activeLocality bit is clear" (748). `TpmLateIdle`
(`OwnAnswerAlways`): the result of `tpm_send_cmd_ready_status_crb` is not looked
at (383), so when the device is late to go idle cmdReady was not written, its bit reads
0 as if served, and the command meets a device that still executes the one before; the
caller gets that one's answer. None is a recorded finding: whether a device
may be that late is not said by the repository.

`VusbPortSafe` is `VusbPort` with two ports and `vusb_cancel`; it passes, with the
type invariant.

## 5. What is proved

Theorems hold for every value of the constants that satisfies the named
assumptions `RingAssumption` (a positive ring size, as many shadows as slots, a
finite set of them), `FrontAssumption` (finite sets of URBs and shadows, at least one
shadow), `PortAssumption` (a positive number of ports), `BackAssumption` (finite sets of
devices, `pending_req`s and requests, each request of one device and one kind, and
at least as many segments as `pending_req`s, which is what `usbif_init` provides without
regard to indirect pages),
`BatteryAssumption` (room for a status in BUF0, whose 256 bytes also hold the information,
and a string of it shorter than 256, which the `uint8_t` index of qemu can count:
nine DWORDs and four attributes of at most 32 characters with their lengths are 210),
`E820Assumption` (1 MB, 4 GB and 2^64 in that order, sizes below the last, the
log below 1 MB) and `TpmAssumption` (room for the head of an answer, bursts and
commands not empty); TLC evaluates them in the runs.

* **`VusbRingProofs`**: `RingInvariant`, and from it `TypeCorrect`,
  `RingNeverOverruns`, `ResponsesNameShadowsInUse`, `RequestsReadAsWritten`.
  `RingSafe` is not inductive: it says nothing of why a slot is free. `RingInv`
  adds `Counts` (the distance between two indices is the number of
  requests in the stage between them), `PreqsIntact` (a `pending_req` that still
  owes an answer has a request of its own) and `Snapshots` (an index read earlier
  is old, not wrong). Since the stages partition the N shadows, the distances
  add up to at most N, and a shadow that is free leaves a slot free: the sentence
  at `xc-vusb.c:1269` is a theorem. One lemma per action; lemmas on remainders
  show that indices less than N apart have different slots, and lemmas on
  cardinality how a count changes when one shadow changes stage.
  `RequestsNeverStranded` and `ResponsesNeverStranded` (`StrandInv`) follow who
  will look next: the lock is held by one (`LockHeld`), a request taken is owed to
  someone who looks again afterwards (`TakenOwed`), `req_event` was moved with
  the index it was read from (`EventCurrent`), a push that notified nobody was
  seen by a look still to come (`PushCovered`), and so for responses.
* **`VusbRingRefinement`**: `RingImplementsChannel`, the refinement of `VusbChannel`.
  A queue is what lies in the window between two indices; lemmas say how the
  window changes when either end moves (`Append`, `Tail`) and that every other
  word written lies outside it. Each step of `VusbRing` is a step of the
  channel or leaves its four variables alone, by `RingInv`.
* **`VusbFrontProofs`**: `FrontInvariant`, and from it the six invariants of
  `VusbFrontLife` and `VusbFrontLive` and the refinement, for any number of URBs and
  shadows: `FrontTypeCorrect`,
  `UrbInOnePlace`, `ShadowFreeOrInUse`, `ResponseIsOfItsUrb`, `CancelIsOfItsUrb`,
  `NobodyAfterHalt`, `FrontImplementsChannel`. `NobodyAfterHalt` is about tasks
  and port work; the interrupt is excluded only once the handler is unbound,
  as `VusbFrontWalk` shows. None of the six is inductive; each
  needs to know why the other lists stay as they are. `FrontInv` has

  - who may touch what: `LockInv` (who holds `vdev->lock`), `CountInv`
    (`processing` is the number of contexts under way), `TeardownInv` (what is over
    when xenwatch has come that far), `StartInv`, `CallInv`;
  - where an URB is: `PlaceInv` (five places that exclude one another), `SendInv`
    (the send loop walks what is still pending, though it removes from it),
    `StateInv` (an URB on its way to the pending list is new, and one that dequeue
    has still to look for is not cancelled);
  - what a shadow is for: `ShadowInv` (free and on the stack, or of one URB whose id
    it is), `UseInv` (the requests in flight are those of the shadows in use and
    say what the shadow says), `FlightInv` (one place, one id each), and
    `CancelInv`: whatever is at the device, or goes there before a cancel request,
    under the id it names is the URB it is for. That holds because the URB
    keeps its shadow until its response, and the response comes after it.

  The shadow half is proved by the `Effect` of a step (a request is put, taken,
  answered, consumed, its URB finished, or nothing happens): each action has one
  (`Effects`), and the invariant is proved once for an effect. The refinement
  follows the same cases. `StartInv` is why the speed request, which
  is put without looking, finds a shadow.
* **`VusbPortProofs`**: `PortInvariant`, and from it `PortTypeCorrect`,
  `PortsStayApart`, `FreePortsAreQuiet`. The strengthening ties the three
  descriptions of a device together: xenbus' (`DevicesBound`), the port's
  (`PortStages`) and the xenwatch thread's (`XenwatchAt`), and `QuietPorts` says
  that resets, requests and responses exist only on a port that is present and, once
  `vusb_usbif_halt` is over, not even there; a scheduled work item is another
  matter (`VusbPortStale`). It holds for both versions.
  `SpeedAlwaysReported` is proved for `vusb_unload` (`SpeedInv`: a
  port whose device is gone or going shows neither connection nor speed, and no
  speed before it was told); in `vusb_cancel` the speed of the device before is
  left on the port.
* **`VusbBackProofs`**: `BackInvariant`, and from it `BackTypeCorrect`,
  `PoolNeverLeaks`, `NothingAnsweredTwice`, `UsbifAlwaysCounted` (who counts; that
  the structure is also used by those who no longer count is `VusbBackFreed`),
  `GrantsAlwaysReturned` (without a shortage of atomic memory, see section 4),
  `SegmentsRunShortOnly` (a segment is counted that was not taken only
  when an indirect request holds more than its own) and, from it,
  `SegmentsNeverMissing` (without indirect requests the `BUG_ON` does not fire).
  `BackInv` says what each program counter of a thread has in
  its hands (`ThreadInv`); that a `pending_req` is in exactly one of the lists, a
  thread's hands or at its device (`PlaceInv`), and owns the segments its count
  says (`SegmentInv`); that a request is on the ring, in one `pending_req`, or
  answered (`RequestInv`); which pages are mapped (`MappedInv`); and that the
  references of a `usbif_t` are its URBs, its thread and the disconnection
  (`ReferenceInv`). `PoolConserved` is stated until the kernel stops:
  at a segment missing, or a `usbif_t` used after it was freed. `BackImplementsChannel`, from
  `ChannelInvariant`, is the refinement of `VusbChannel` towards any one device, next
  to all the others: a step sends, takes or answers a request of its ring
  or leaves queues and requests owned alone. It needs that a `pending_req` which owes
  nothing any more was answered (`SettledInv`; hence giving it back is a stutter),
  that whoever works on a request is of the device it was sent to, though the
  structures pass from device to device (`OwnInv`), and that what is on the ring was
  answered (`GivenInv`; hence a new request is in none of the queues).
* **`AcpiBatteryProofs`**: `StatusIsSnapshot`, from `StatusInvariant`: between ACQR
  and REL only the owner of `SYNC` moves the device and BUF0 (`MutexInv`), so
  that qemu's copy is one of the values seen (`Copied`) and all bytes come from
  it, though xcpmd may rewrite the node before each (`Progress`); a method that waits
  is not disturbed by the owner
  (`OthersHarmless`). It holds for any number of threads, switched anywhere.
  `InformationIsWhole`, from `InfoInvariant`: a `_BIF` during which the
  information stayed the same returns all of it, for any number of
  attributes whose string the index can count (`NoWrap`). Two conditions are part of the
  property: that the battery has all its attributes (`Lines`: one
  end of line each and that at the end; xcpmd does not see to it, `AcpiMissing`)
  and, only if methods are switched where none blocks, that no other `_BIF` filled
  `BIFP` before it was read (`AcpiShared`). `InfoInv` adds to `StatusInv` what the two programs must agree
  on byte by byte: `Received`, which byte of the block each byte of BUF0
  is, and `Follows`, where in the string of xenstore qemu's index then stands, which
  is not where the count of bytes is, since a length takes two characters and a
  text one. A method without `SYNC` that reads a status port may renew qemu's copy
  meanwhile (`InfoRenewed`); the index stays, so the bytes still belong together as
  long as the node did not change.
  Where an attribute lies is a sum over those before it. That is induction over
  data, done without the library's theorem of induction (it has an operator as
  parameter): `LeastNatural` takes the least member of a set from
  `NatLessThanWellFounded`, `Induction` follows for sets of naturals, `Iterated`
  shows that a recursive function exists and is what its equation says, and so
  `StartsAre`, `StartsGrow`, `FlattenIs` and `InfoLayout`.
* **`E820Proofs`**: `MapAlwaysFollows` and `RangesAlwaysGuardRam`. Both properties
  name `lowestFirst` as their condition, a history of the calls: no region came
  in at or below the first of the table. Nothing in the code ensures it, and without
  it both fail (`E820Unordered`); regions above the first may come in any order. `MapInv` adds to
  `MapFollows` that entries end below 2^64 and that the table is empty until the
  loader's first region; `Has(m, a, t)` replaces `TypeAt`, whose `CHOOSE` is
  unambiguous only in an ordered table (`TypeAtHas`). `UncoveredKeeps`
  says what the loop that removes and cuts entries leaves, `SpliceIs` that a
  region in front of it makes an ordered table, `ProtectFollows` that
  `protect_region` does this in each of its cases; the positions come from
  `MinIsLeast`, which the finiteness of intervals yields without
  induction. For `get_ram_ranges`, `KeptFirst` shows that the low RAM given up is
  all behind what is kept, because a reserved region once found stays found
  (`ReserveFollows`), and `RangesGuard` that a reserved region above 1 MB inside
  the range would have been found; `SameMinRam` that the reservation does not
  move the limit it was compared with.

* **`TpmProofs`**: `LocalityAlwaysLetGo`, `LaunchAlwaysClear` and `AnswersAreOwn`,
  for a device that may be late, or never answer, in every wait. What the driver does
  not look at is an exception in the property, not an assumption: a
  request it gave up (`use`), a locality it could not validate (`missed`), a device
  late to go idle in this call (`lateIdle`). `Order` says which driver is where
  in which phase of the launch. The strengthening for answers says which
  requests can be outstanding in which state of the device (`Requests`), and follows
  the command through each interface: how far both sides agree on it
  (`FifoStage`, `CrbStage`), with nothing left to be served that could still
  make the device drop it, and that `out` holds its bytes in order (`Returned`).

Only model-checked: liveness (the provers do not handle fairness or ENABLED), which
is all that `Xcpmd` promises (`NodesFollow`). Every invariant of a passing run is a
theorem, and so is the action property `SegmentsRunShort`.
The type invariants of `VusbRing`, `VusbFront`, `VusbPort` and `VusbBack` are theorems and not
part of a run, as are the inductive invariants, which TLC has checked on the
configurations of the runs; `TypeOK` of `Xcpmd`, `AcpiBattery` and `Tpm` can be
named in their configurations and pass.

## 6. Not modelled

* USB: payloads (which grants a shadow owns, indirect segments in detail,
  isochronous packets), status conversion and tracing. Suspend, resume, freeze,
  restore and the platform driver: the driver's own resume is unfinished
  ("TODO recovery"; the shadows are allocated a second time). Module load and unload.
  Overflow of the 32-bit indices, which only enter as differences and remainders
  by a power of two and so agree with natural numbers while `RingSafe` holds. A
  guest that writes what it likes into the ring is not the subject.
  `vusb_start_device` failing for want of a shadow is impossible (all are free
  then). The order of URBs of an endpoint overtaken after -EBUSY is listed as a
  hazard.
* Power: thermal zones, backlight, lid, AC adapter and buttons, each one value
  forwarded; ioemu's older battery ports; dm-agent and the toolstack patches,
  which are copies of files of other projects.
* Launch: the rounding of the PMR ranges to 2 MB (`set_vtd_pmrs` in `verify.c`), so that
  `RangesGuardRam` is about the ranges it is given; what the TPM commands say (`tpm_12.c`, `tpm_20.c`), the TPM driver of
  the landing zone, policy, ELF and Linux image placement, MTRRs, the layout of
  the TXT heap; `slexec` and `skboot`, whose `e820.c` is a copy; landing zone and
  loader stubs, which are straight-line code.
* The build daemons, the TPM event log parser (third-party), copies of Linux files, patches,
  configurations and notes.

`PROJECT.json` has a reason for each part.

## 7. Plan

1. `VusbPower`: suspend, resume, freeze, restore and platform removal over the
   state of `VusbFront` and `VusbPort`.
2. Grants: which references a shadow owns through direct, indirect and
   isochronous requests, against a reference definition; overtaking per endpoint.
3. `Tpm` for the landing zone: `trenchboot/tpm/tis.c` and `crb.c`, which wait
   without end where slboot gives up; a device that loses its state (a reset
   between two commands).
4. Proofs: the type invariants of `Xcpmd` and `E820`.
