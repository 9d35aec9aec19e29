# TLA+ models of lium (CLI and SDK)

`lium` rents GPU pods from a marketplace (`lium/sdk`), drives them from a command line (`lium/cli`) and
lets providers manage their nodes (`lium/provider`, `lium/cli/mine`). The program holds little state of its
own: most of what can go wrong happens between it and something that lives longer than one process: the
rental backend (a pod bills until it is removed), the file system (an installed binary, a token), the host
that is being set up (mounts, fstab, Docker). The models here are of those conversations.

Run `tlc -config X.cfg MCX.tla` for a model and `tlapm XProofs.tla` for its proofs.

## 1. Inventory

| part | state | operations | what is hard | what makes it correct |
|---|---|---|---|---|
| Renting (`sdk/client.py`: `up`, `rent`) | none between calls; the pods on the server | snapshot of the listing, POST, one repetition, lookups by name and id | lost answers, late service, a listing that lags, two calls with one pod name | one pod per call where the server lets the client know; the pod handed back is the one rented; an orphan needs a lost answer |
| `@lium.machine` (`sdk/decorators.py`) | `_WARM`, `holding`; the pod's removal time on the server | call, `map`, `close`, exit handler | crash between rent and schedule; reuse by memory and by name; removal time against the run | a run has its window; nothing bills for ever; only own pods are removed |
| Self-update (`cli/self_update.py`) | lock file, state file, `versions/`, the link | check, lock, download, stage, swap, link, clean | kills anywhere, stale locks, two starts | the link always leads to a whole bundle; no downgrade; catches up |
| GPU-splitting setup (`cli/mine/gpu_splitting.py`) | the host: Docker, mounts, fstab, `daemon.json`, a partition; flags of what was done | ten steps, rollback | any command fails; kill and reboot; a second setup | rollback restores; Docker starts only on its data; a copy of the data always exists |
| `lium up` (`cli/up`, `wait_ready`) | a pod id, a removal time, what the wait has seen | resolve, rent, schedule, wait, verify GPUs, Jupyter, session | failure of any step after the pod bills; a listing that lags; a schedule whose answer is lost | a pod has the end asked for or the user knows it has none; a slow pod is no failed one; a pod is removed only for cause; a failure names its pod |
| Provider portal (`provider/`) | cached JWTs in a locked file | login, logout, requests with the token, signed requests | processes read and write one file at once, and die with its lock | no process that can read the file takes away another hotkey's token; what spends is confirmed |
| Pod index (`cli/utils.py`, `ps`, `rm`) | a snapshot of the last `ps` per shell | `ps` writes, `rm 2` reads | pods come, go and move between the listing shown, the one read and the removal | a row number means the pod that was shown on that row |
| Remote execution (`exec`, `exec_all`, `lium exec`) | a pool of workers | connect, send, wait for the status, read | output beyond the channel's window, a child that keeps the output open, a command that waits for input, a broken connection | it hangs only on what the pod does; a failure on one pod fails the command |
| Host keys (`ssh_connection`, `ssh_command`) | a file of pins per pod | pin on first use, refuse another key, forget on reboot and removal | connections that are open while the pin is dropped; lost answers | a pin that stays although its container is gone has a cause this machine could not see |
| Copy between pods (`cp`) | keys on two pods, a lock on one | generate, grant, pin, copy, revoke, clean | two copies into one pod; lost answers; kills; a reboot in between | `authorized_keys` is what the answers say; what stays behind is told |
| SSH key registration (`ssh_key_cache.py`) | one cache file for all accounts | load, register, save | two processes, two accounts | a key taken for registered was registered with this account |
| Results of remote functions (`result_codec.py`) | files on the pod | encode, write, fetch, decode | values that look like encodings; a runner that dies while it writes | the caller gets what the function gave, or an error that says otherwise |
| Funding (`cli/fund`) | the chain, the pay API | confirm, quote again, sign, submit, wait | an answer that is lost after the submission, or a command cut off there; an API that changes what it names | what is signed is what was confirmed; no hint leads to a second deposit but after one of these |
| Mining (`mine.py`, `mine_register.py`) | a host with a container, a node at the portal | six steps of setup, health, registration, wait for the listing | reruns over a container that is still up; duplicate and lost answers; a stale status | what the user reads of the node is true of the one at this host |
| Settings, workspaces | one ini file | save, use, delete, rename elsewhere | processes that write over each other, in place | `up` and `rm` with `-w NAME` act in the workspace meant; saved keys stay |
| Lists, displays, telemetry, plugins | none | | | layout only |

`PROJECT.json` lists the hazards line by line with the properties that cover them.

## 2. Modules

| module | models | runs |
|---|---|---|
| `Rent` | `Lium.up`, `Lium.rent`, `_rent_on_server` and their lookups, with the backend | `rent_race`, `rent_promise` |
| `RentPromise` | what renting promises, without its protocol | (as a property of `rent_promise`) |
| `RentProofs` | theorems about `Rent` | |
| `MachineWarm`, `MachineWarmProofs` | calls and maps of decorated functions on one machine spec | `machine_warm`, `machine_left_as_warm` |
| `SelfUpdate`, `SelfUpdateProofs` | the update at startup | `self_update`, `self_update_lock` |
| `GpuSetup`, `GpuSetupProofs` | setup, rollback, kill, reboot, setup again | `gpu_setup`, `gpu_setup_cutover` |
| `Up`, `UpProofs` | the `lium up` command and `Lium.wait_ready`, over the promise of `RentPromise` | `up` |
| `Portal`, `PortalProofs` | the session of `lium provider`: token file, lock, gate, signatures, requests | `portal` |
| `TokenRegister` | what the token file promises the processes that share it | (as a property of `portal`) |
| `Mine` | `lium mine` with `--register`: setup, health, registration | `parts` |
| `NodeWait` | `wait_until_listed`, the wait for the node's status | `parts` |
| `Fund` | `lium fund` in TAO and in alpha | `parts` |
| `PodCopy` | `Lium.cp`: transfer keys of concurrent copies | `parts` |
| `PodIndex` | row numbers of `ps` as targets of `rm` and `reboot` | `parts` |
| `Workspaces` | `config.ini`, `-w NAME` and the commands that write it | `parts` |
| `RemoteCall` | the runner of a remote function and what the caller makes of the answer, for any codec that works | `parts` |
| `ResultCodec` | the codec: encoding and decoding as functions on trees | `parts` |
| `SshKeys` | registration of SSH keys with its cache | `parts` |
| `Exec` | one command on several pods | `parts`, `exec_masked` |
| `HostKeys` | the pinned host key of a pod | `parts` |
| `Parts` | the ten behaviours above, `Mine` to `HostKeys`, beside each other | |
| `PodProofs` | theorems about `PodCopy`, `Exec`, `HostKeys` and `RemoteCall`, and the types of all parts, in `Parts` | |
| `AccountProofs` | theorems about `SshKeys`, `PodIndex`, `Fund`, `Mine`, `NodeWait` and `Workspaces`, in `Parts` | |
| `MCParts` | `Parts` with the codec of `ResultCodec` | `parts` |
| `MC...` | the constants of the runs | |

An operator whose comment begins with "Fault" or "Mutant" is not part of a model: it is a form the code
could have had, and `PROJECT.json` ("mutants") says which property it breaks when it takes the place of the
definition after it.

### Rent

A pod is named after the request that made it, `<<c, k>>`: the k-th POST of call `c`. The client compares
ids and never looks into them, so nothing is lost. `Snapshot` is `_pod_ids_before_rent` (a listing that
cannot be read counts as empty, as in the code), `Send`/`Unanswered`/`Rejected`/`Answered...` are the POST
and what comes of it, `FindPod`/`FindNothing` are `_find_pod_info_by_name` with its attempts counted down in
`left`, `ReadBack` is `_find_pod_by_id`. A POST is unanswered for every error that does not say whether the
pod was made (a network error, 5xx, 429, an answer that is no JSON) and rejected for every other status.
The backend is external and as bad as HTTP allows: it serves a request at any time after it was sent, also
after the client gave up; pods show in the listing later, or never; rows may lack the node; it honours
`Idempotency-Key` or does not. `before`, `seen`, `lost`, `silent` are history for the properties.
`Invalid` stands for all that `up` checks before it posts; the registration of SSH keys is part of it.

What holds: a call that was handed back a pod was handed one that exists, has the name it asked for and was not in
its snapshot (of two calls at once for one name and one node, either may be handed the other's pod); a second pod is rented only when
every listing the call could read failed to show the first and the server ignores the key. What does *not*
hold, and is therefore no property: that at most one pod is rented. The proofs and the refinement
(`KeepsPromise`: at most two requests for an `up`, one for a rent by spec, at most one pod for each, an end)
say exactly how far the promise goes.

### MachineWarm

`phase[q]` is where process `q` is in `wrapper`, `map` or the exit handler. `life`, `due` and `fixed` are
the server: which pods exist, the ticks until their removal, which bear the fixed name. `cur[q].was` is the
`_Warm` the call found (`warm` in the code), `warm[q]` is `_WARM[key]`. Removal times are countdowns and
time is a `Tick` for all of them at once, so a long run is finite. `Schedule` has both outcomes of
`_schedule_removal`: the time is set, or a warning is printed (and `armed` is FALSE). `KeepPod` and
`DropPod` are the `finally` of the wrapper. `mine`, `warned`, `died`, `excused` are history: pods this
process rented, pods whose missing removal time the user was told of, pods whose caller died in the gap
before the schedule, and pods meant to outlive the process or that it failed to remove.

### SelfUpdate

One action per system call that another process or a kill can come before: the look at the lock, its
removal when stale, `O_EXCL`, the staging directory, the unpacking, the removal of an earlier bundle file by
file, the renames of bundle and link, the removal of old versions. `cur` is the version read *before* the
lock, as in the code. A kill releases nothing; a Ctrl-C, which releases the lock on its way out, is not
modelled separately. Versions are numbers: `compare_versions` orders them, and no more of them matters.

### GpuSetup

Docker's root is a stack of mounts over a directory; `data` is what each place holds of Docker's data
(`none`, a `part`, the `whole`, or a `mixed` heap of two). Every step of `_execute_setup` has an outcome in
which it raises, and leaves what the failing command can leave: a partial copy, a partition that was made
but not found, a probe that is still mounted, an emptied fstab. `flags` are the booleans of
`_SetupExecutionState`, and the rollback reads them and nothing else. A kill stops at any step without a
rollback (`except Exception` does not catch KeyboardInterrupt). Afterwards the operator may start Docker,
reboot, or run setup again: what an earlier run left is where the second one starts.
Assumed: Docker's root is `/var/lib/docker`, a mount there before the first setup came from fstab, a failed
`systemctl` leaves the service as it was, and clients do not wake Docker through its socket.

### Up

The command rents by the promise of `RentPromise` (`R == INSTANCE RentPromise`, one call, no older pods): what
`Rent` does between the request and its answer is not told again, and since `Rent` is shown to keep the
promise nothing is lost. A request may still make a pod after the command has given it up (`Rented`). `life`,
`listed` and `due` are the pod the command holds: whether it boots or dies, shows in `ps`, and has a removal
time. `pc` walks through `up_command` from the validation to the session; `wait_ready` is `Loop` (the top of
its `while`), `Missing`, `Listed`, `Unreadable` and the sleep that `Tick` ends. Clocks count down: `budget` is
`--timeout`, `waiting` the wait's own timeout (`_wait_budget` of both options, never less than one), `grace`
is `MISSING_GRACE_SECONDS`. `overdue` is `elapsed >= MISSING_GRACE_SECONDS` as read *before* the listing, and
used after it. The request that sets the removal time may take effect although its answer is lost
(`NotScheduled`). `Verdicts` is `VerifyGpuCountAction`: the billed count decides alone unless `--verify-gpus`
is given, and the SSH check may end with no count. `told` is what the user has read, `gpus` and `removed` are
history.

Left out: which node and template are chosen, what is printed beyond the facts in `told`, and the restore of a
backup (an option of the rent). The session looks the pod up again by its *name*; that another pod may have it
is not modelled.

What the properties except, because the code does: Ctrl-C while the removal time is being set
(`EndHeldOrTold`); and in `FailureNamesPod` Ctrl-C, a rent that ends in an error of the server or an unusable
answer, which is raised as it stands, and a `--strict-gpus` removal that fails, which names no pod although
the comment at `command.py:541` wants it of every failure.

### Portal

Processes of one machine, each with one command of `lium provider` at a time (`proc[p]`, empty again when the
command ends: every command is a process of its own). `cache` is the token of each hotkey in the JSON
file, `lock` the `flock` beside it, `acks` the file of confirmations of the shell, `issued`, `expired` and
`revoked` what the portal (and, of expiry, the client) knows of the tokens, which are numbers. `signed` is the
portal's replay guard: who signed as a hotkey in the second that `Tick` ends.

`FirstPlace` tells how commands begin: `login` and `logout` at the file, `login --force` at the signature,
`set-password` waiting for a new second, commands that change something at the gate, queries at their token.
An operation on the file is `Acquire`, or `Contend` and at last `GiveUp`; then `Load`, or `ReadAll` and
`Replace`, with `Absent` where `clear` finds nothing. Between any two of them the process may die (`Kill`), and
the kernel lets its lock go. `Token` is `_current_token`, before each request: `status` sends two, a `watch` as
many as the user waits for, and each looks again for a token once its own has run out. How a command's
failures are reported is left out; `login` and `status` pass over those of their last requests.

Reading the file may fail, at any read: it cannot be opened, or is no JSON. `_read_all` and `load` pass over that
(`token_store.py:111-122`, `Unread`). A load then finds no token and a `clear` no entry, but a `save` goes on with
an empty file and writes its own token alone: what other hotkeys had is gone. `TokenRegister` says so openly
(`TurnBlind`, `StartAnew`): its promise is that only such a save takes away what others wrote, and no removal.

What the portal does with a change is its own affair. One step stands for
the signature and its arrival, so the second that is signed is the one the portal sees.

Three things the model shows to a reader and no property claims, since the code promises no more:
- the lock covers one load or one save, not the login between them, so of two logins the older token may be
  the one that stays (`TokenRegister` allows either order); both tokens are valid;
- a process that finds the lock taken three times in `_current_token` sends its request without a token, and
  the user reads "rejected credentials", not that another process is at work (exit code 7 of
  `errors.py:15`), because `_current_token` passes over every exception (`GiveUp`);
- `login` without `--force` returns a cached token that the portal has refused, for the client sees only that
  it has not run out (`Fresh` against `Accepted`); the hint of `PORTAL_AUTH_INVALID` (`errors.py:60`)
  recommends just that command, and it reports success.

### The parts beside each other

The next ten modules are about commands that share no state with each other: a copy does not read the pod
index, a funding does not touch the host keys. `Parts` puts them side by side: a behaviour chooses one `part` and
the variables of the others stay as they are, so the states of the run are the sum of the ten, not their
product, and each property is about its own part. Processes, kills and lost answers are inside each part.
`MCParts` gives the constants their values, and `RemoteCall` the codec of `ResultCodec`.

The constants of `Parts` are assumed to be what the code makes of them: what stands for "nothing" is no key,
row, address or settings; a user's own key is not that of a copy, nor the user's wallet one of Lium's; TAO is no
subnet; an amount is counted in a grain of at least one; the sleep and the confirmation of the wait take time;
the search for a node is tried at least once; the first workspace exists and there are finitely many names; the
codec gives back what it encoded (`CodecAssumption`).
Sizes (of windows, pools, quotes) and bounds may be any natural number.

**Mine.** `run.pc` walks through `mine_command`: the six steps of the setup (each may raise: `StepFails`), the wait
for the container's health, the preflight of a registration, the `POST` and the search of the account's list.
`env` is the rendered `.env`, `box` the container with the settings it was *started* with, `taken` what else
listens on the host. `CheckPorts` is skipped when a container of ours is up, and `ComposeUp` leaves such a
container alone, which the comment at `mine.py:356` relies on ("`compose up` keeps them"); so a rerun may be told
healthy by the container of the run before, and the property says what still holds then: the account has the
node that is at this host, and if nothing ran here before, it is the one that was healthy. The portal answers
a POST, refuses a duplicate, or acts on one whose answer is lost, and its list lags (`find` retries).
**NodeWait** is the last step, with the clocks: a reading, its judgement, a sleep. The portal pings nodes at
most `Confirm` apart, so `flag` may be of the time before. Fairness is of the wait's own steps and of time.

**Fund.** `fund.pc` goes through both commands, `pay` is what the API names at the moment, `shown` what the user
confirmed. A submitted transfer is `pending` until the chain moves it or drops it, whatever the caller reads.
`user` retries exactly if the hint on the screen says so, and after an interruption: Ctrl-C and kills
(`Interrupted`, at any place) pass every `except Exception` and leave no hint. `lost` records a command that
ended so, or an alpha call that raised, while its transfer was submitted.

**PodCopy.** One copy per `c` in `Copies`, all into one destination. `script[c]` is the grant or revoke command
on the destination with its lock, its filter into a scratch file and its `cat` back; it runs on when the
connection breaks. The grant is `echo >>` and `chmod`: it may append the key and then fail, and `cp` takes a
failed grant to have left nothing. `container` counts the reboots, each with a new host key and without the copies' keys.
`lost`, `told`, `killed` are history.

**PodIndex.** `Ps` shows the pods in any order and remembers them; `Load` reads the listing a second time, and
`Resolve` is `_resolve_pod_index`: the pod with the remembered id, or nothing if it is gone or the snapshot is
too old. A pod may be named like a row number.

**Workspaces.** `file` is `config.ini` and `whole` the last that was written of it completely; a process reads
it when it starts and writes all of it back. `Refused` and `FreeSection` are the checks that a section belongs
to the workspace it is taken for. The command that acts is `up` or `rm`: only they call
`show_workspace(acting=True)`, and the others with `-w` (`reboot`, for one) act with the saved key unchecked.
The server of the model has workspaces; on one without, `show_workspace` says nothing and the command goes on.

**RemoteCall.** `job` is the runner on the pod, which may die at any step, `got` what the caller is left with. A
builtin exception is made from its arguments, or from its message when there are none or the class does not take
them (`Rebuilt`); a download may fail as "no result" (`NoResult`) or raise (`Breaks`). The
codec is a parameter (`Encodable`, `Arrays`, `Encode`, `Decode`), of which `CodecWorks` asks that decoding undoes
encoding for what functions return, and for the arguments of exceptions that have no arrays. `ResultCodec` is the
codec of the code: values and JSON are trees, `encode` and `decode` are those of the code without the text
forms of numbers, dates and bytes. It is recursive, and therefore for TLC only, which evaluates
`CodecAssumption` over 189 values, and exceptions of every class, before it runs `parts`: a dict with the tag as
a key that was encoded as a plain object would fail there.

**SshKeys.** A process loads the cache, registers what is missing, and replaces the file. Keys may also be
deleted on the server; that such a key stays in the cache is so in the code, and no property says otherwise.

**Exec.** A pod prints until its channel's window is full; a worker reads only after it has the status, and reads
to the end of the output, without a time limit. That end comes when the last process on the pod that has the pipes
is gone: a command may exit and leave a child with them (`output = "held"`), which may end (`OutputEnds`) or not.
The network may go silent at any time, also between the status and the end of the output.

**HostKeys.** A connection of the SDK loads the file, merges and writes it whole; `ssh` appends a line; a reboot
or removal deletes the file when it is answered. `excused` is history: keys whose pin could not have been
dropped from here. The file may hold a line for each address; a stranger at an old address is not modelled.

Seen while modelling, claimed by no property:
- a transfer key stays, without a word, after a lost answer of the grant or of `ssh-keygen` (which runs before
  the `try`), or a grant that appended it and failed at `chmod` (`client.py:2527`), against the docstring of `cp` (`client.py:2389`, "both halves are removed again whatever
  happened"); `LeftKeyIsTold` names these cases and shows there are no others;
- an alpha transfer that was submitted and then raised ends without the hint not to send again
  (`fund/actions.py:358` sets no `transfer_attempted`), although the comment at `fund/command.py:29` says what
  the other hint would do, and one that is interrupted ends without any; `ResendNeedsLostAnswer` shows these are
  the only ways to a second deposit;
- a `save` of a token that cannot read the file starts it anew (`token_store.py:121`), and other hotkeys lose theirs;
- `lium exec` has no time limit on the output: a command that leaves a child on its pipes (`server &`) holds its
  worker until the child ends;
- `reboot -w NAME` acts without the check of `up` and `rm` (`reboot/command.py:33`);
- a caller that dies between the answer of a rent and the schedule leaves a pod without a removal time,
  against the docstring at `decorators.py:528`; `UnscheduledIsKnown` excepts it;
- two processes that find one warm pod by its name move each other's removal time (`decorators.py:447`,
  against the comment at 629); `RunHasItsWindow` is therefore of one process at a time;
- a result that cannot be downloaded for a local reason is reported as "no result", and a user's exception
  class with the codec's own name is taken for the codec's;
- `rm all` given as a target asks nothing, unlike `--all`; the pins are not saved if the file was deleted
  while a connection was open.

## 3. Checks

All passing runs finish with every action taken.

| run | instance | shows |
|---|---|---|
| `rent_race` | 2 calls (`up` or by spec, one name), 2 nodes, 2 names, 1 older pod, 1 attempt per lookup; calls are symmetric | the safety properties; 2.6M states |
| `rent_promise` | 1 call, 3/2/3 attempts as in the code, no symmetry | the call ends; refinement of `RentPromise` |
| `machine_warm` | 1 process at a time (restarted at will), 3 kinds of function, 2 pods, timeout = margins = 1 tick | 4 safety properties, and the liveness of the removal |
| `self_update` | 1 process at a time, 3 releases, lock stale after 1 tick, interval 2 | 3 safety properties and `CatchesUp`; deadlock is checked |
| `gpu_setup` | 2 setups, a root with and without a mount of its own, blank/partitioned/XFS disk | 4 safety properties |
| `up` | timeout 2 ticks, grace 1, 2 polls of Jupyter, 64 command lines | 3 safety properties and the end of the command; 492k states |
| `portal` | 2 processes, 2 hotkeys, 2 commands in all, 2 tries for the lock, 1 new token per hotkey, 1 expiry or revocation, no file or a full one | `NoUnconfirmedSpend`, the refinement of `TokenRegister`, the end of commands; 305k states |
| `parts` | two of what meets in each part: accounts, ports, copies, pods, names, processes, addresses; see below | 15 properties of ten modules; 645k states |
| `machine_left_as_warm`, `self_update_lock`, `gpu_setup_cutover`, `exec_masked` | as above; two pods for `exec_masked` | a disagreement each, see below |

Why the bounds are enough. Two calls are what it takes for a lookup to meet another call's pod, and
two requests is the most a call sends; attempts only repeat the same step, and the liveness run has them
all. With one process slot that is started again and again, a `MachineWarm` process meets the pods earlier
ones left; two pods allow a kept one beside a fresh one. Three releases give an update something to keep
and something to remove, and a release between two others. A second setup is what sees a first one's
remains; a third finds nothing new (checked once with `MaxRuns = 3`: 37,105 states).

For `up`, two ticks against one let the wait end before, with and after the grace, and `--ready-timeout` cut it
to one; the counts of polls only repeat a step. The command lines leave out combinations of options that do
not meet in the code (GPU checks with a session, a prompt without a volume).

For `portal`, two processes with one command each are what two writers of the file need, and a full file gives
them entries to take from each other; the commands may also follow one another in one process. A second try
for the lock is one that is refused after it was, and every token beyond the second repeats the first.

For `parts`, the hazard of each part needs two: two accounts at one host and two runs of `mine`; two copies that
edit one file, and one reboot between them; two pods on two rows; two workspaces, two names and two
processes, with one rename or edit by hand; two clients and two containers. `NodeWait` keeps the order of the
code's intervals (a sleep shorter than the confirmation, which may outlast the deadline). A window of one and
an output of two let `exec` fill the channel. The values of `RemoteCall` are small trees over every
type that is encoded in its own way, with the tag as a key of a dict and dicts that look like an encoding. Smallest part: 6k states, largest: 155k.

Deadlock is not checked where the system may stop: all calls have ended, the pods of the bound are used up,
setup is over.

Fairness.
- `Rent`: every request has a timeout and every lookup a count, so a call keeps taking steps. The backend
  owes nothing.
- `MachineWarm`: only time passes (`WF(Tick)`). No process has to do anything; the removal must come anyway.
- `Up`: time passes, and a step that waits for an answer gets one or times out. The server and the user owe
  nothing: `CommandEnds` stops at the prompt and at the session, which are theirs to end.
- `Portal`: the clock ticks, and a process that does not wait for the user is scheduled; its requests time
  out. `CommandsEnd` starts after the gate and excepts the commands that watch.
- `NodeWait`: the wait's next step is taken, and time passes (the status request has a timeout). The node and
  the portal owe nothing: `WaitEnds` holds whatever they say. How long after its deadline a wait may end (at most the
  time of one confirmation) is said by `TypeOK`, which bounds `now`. The other parts state no fairness.
- `SelfUpdate`: time passes, and the steps of a process go on: requests time out, and the user goes on
  starting `lium`. `CatchesUp` assumes in its premise that kills and faults cease in the end.

### Disagreements found

| run | property | what |
|---|---|---|
| `machine_left_as_warm` | `LeftAsWarm` | `map()` of a function without `keep_warm` closes the pod another function of the spec keeps warm (`decorators.py:736-744` against the comment at 572) |
| `self_update_lock` | `UpdatesExclusive` | `__exit__` unlinks the lock of another process (`self_update.py:112`) |
| `gpu_setup_cutover` | `CleanRollbackRemounts` | a mount that fails after the umount is not rolled back, and success is reported (`gpu_splitting.py:740`) |
| `exec_masked` | `AnyFailureFails` | `lium exec` exits with the maximum of the exit codes, and a command that was killed or lost its connection counts as -1: beside a pod with 0 it is not seen (`exec.py:239` against the comment above it) |

Two more are stated as exceptions in a property of `GpuSetup` and listed as hazards, because no line of the
repository promises otherwise: a torn write of fstab is not restored, and a setup does not check that the
fstab it finds is the one the host is running on.

## 4. Proofs

For every value of the constants (any number of calls, nodes, names, versions, attempts):

- `RentProofs`: `Spec => []` of `TypeOK`, `SecondPodOnlyUnseen`, `HandedBackIsNew`,
  `OrphanNeedsLostAnswer`, `NamedPodHandedBack`, and `Spec => P!Promise`, the safety part of the refinement.
  None of the properties is inductive: that a second pod was unseen depends on what the call did between its
  two requests. `IInv` adds, for each call, how `pc`, `sent`, `post` and `lost` go together (a POST is made
  only from "post", the second only after a lost first), that a pod exists exactly for a POST that rented,
  and that `known` is inside `before`. One lemma per action shows it is kept.
- `MachineWarmProofs`: `TypeOK`, `UnscheduledIsKnown`, `OnlyOwnRemoved` and `ExitLeavesNothing` for any number of
  processes, and `RunHasItsWindow` with at most one (`OneProcess`). What stays true of the last with several is
  `OnlyEndsCutRuns`: a run that has its window (`InWindow`) loses it in no step but one in which *another* process
  ends its use of the same pod (`Cut`: it sets a removal time of its own, or removes it, at the end of a call, of a
  map, in `close` or at exit); with one process there is no other, and `RunHasItsWindow` follows. The two invariants are inductive beside `TInv`, the types
  and `HasPod` (a call that uses a pod has one, and so has a pod in memory). For the first, `ScheduleKnows` and
  `DownKnows` say what setting a time and a removal leave of it, and a step of one process leaves what another is
  about to do. For the second, what arms a run sets a time later than its timeout, and a tick shortens both.
  The two action properties need `OInv`, for each process: `Standing` (at each place, whether the pod it uses or
  holds can still boot, and that one who will clean up holds at most the pod in use), `Rightful` (what a process
  takes for its own and still bills, it rented; kept, it is excused) and `Accounted` (a pod it rented is gone,
  excused, in use or in memory). What another process does keeps these, because a pod that is gone stays gone
  and each process writes only its own memory (`Alike`).
- `GpuSetupProofs`: `TypeOK`, `RollbackRestores`, `SuccessServes`, `DataOrBackup` and `StartsOnItsData`, for any
  number of setups, failures, kills and reboots. `IInv` says what the flags tell: they are those of the step
  reached, or of the one that raised (`Flagged`). `Forward` and `Backward` say, at each step of setup and of the
  rollback, which of Docker, `daemon.json`, fstab and the mounts are as they were before; `Kept`, that the
  place where Docker's data was still has it; `Filled`, that the target is empty until it is filled; and
  `BackedUp`, that from the backup on there is one, and until then neither fstab nor a mount has been touched.
- `SelfUpdateProofs`: `[]TypeOK` for any number of processes. The safety of the link is proved of some behaviours
  only, for the run `self_update_lock` shows that the lock does not keep updates apart. `OrderlyUpdatesAreSafe` says
  of any number of processes what is needed: `Orderly`, that no two update at once *and* that the version read
  before the lock is still the installed one when the lock is taken. In every behaviour that is always orderly,
  the link leads to a whole bundle, an update keeps what it runs from, and the version never goes back.
  `UpdateProgress` says at which phases the target is newer than the installed version, its bundle whole, and the
  version read at the start still the one installed. A lock alone is not enough: a start that read the version, and got the lock when another one had just
  installed the new one, would install it once more, and clear the bundle the link leads to. Under
  `Orderly` a process outside an update leaves the files alone (`OthersTouchNothing`), so the one that updates is
  as good as alone. (TLC agreed before the proof, on two processes and three releases: 2.9M states.)
  `AloneIsOrderly` shows that the premise is met by starts that do not overlap. That a *running* process keeps
  its bundle (`RunningVersionKept`) is checked for one process at a time and not proved of several: another's
  clean-up knows nothing of it.

- `UpProofs`: `Spec => []` of six safety properties of `up` (three of them, `TypeOK`, `EndPromisedIsHeld` and
  `RemovedOnlyIfWrong`, no run checks any more), for every set of command lines and every
  timeout, grace and number of polls. `IInv` adds `Phases` (where the command is tells whether the rent was
  asked for and a pod is held), `Schedules` (from the GPU check on, an end that was asked for is held; before
  it, it is held or its lack was told), `Waits` (a pod seen and not listed is gone; an overdue one has no
  grace left), `Removals` (the removal follows a count found wrong) and `Names` (a command that left a billing
  pod named it). Each has a lemma with one step per action, and needs only the types and `Phases` beside
  itself. `UpKeepsPromise` (`Spec => R!Promise`) says that every step of the command is a step of `RentPromise` or
  leaves its variables alone: together with `RentKeepsPromise`, what is proved of the protocol holds for the
  command that uses it.
- `PortalProofs`: for any number of processes, hotkeys, tries and tokens, `Spec => KeepsRegister` (every step
  on the file is a step of `TokenRegister`) and `Spec => []` of `TypeOK`, `NoUnconfirmedSpend` and
  `PasswordNotReplayed`. The refinement
  rests on `FileInv`: the holder of the lock is the one process between its `flock` and its end
  (`LockIsHeld`), and who is about to write has read the file as it is, or is blind (`ReadsAreCurrent`). `SpendInv` adds to
  `NoUnconfirmedSpend` that the file of confirmations, and what its writers have read of it, holds only
  hotkeys the user confirmed; `PasswordInv` that a second which a process did not wait through is not signed
  by it.

- `PodProofs`, from the specification of `Parts`, for any number of copies, reboots, workers, clients and
  addresses:
  - `KeysAsAnswered` and `LeftKeyIsTold`. `CopyInv` says of each copy that its command has the lock from taking
    to giving it back, and that *while it writes back no other command changes a key* (`Locking`: what it
    filtered into the scratch file is still the file without its key); where the copy here is against that command
    (`Placed`); and from when to when its key is there (`Held`) and nowhere without a word (`Accounted`).
    The steps of one copy leave the others' part (`Only`).
  - `CopiesChangeTheirOwn`, from the same invariant: while the container stays, `authorized_keys` changes only by the
    key of one copy, which a grant adds and a revoke takes out. The revoke reads, filters and writes back in
    three steps while others wait for the lock; to the file it is as one.
  - `AnswerIsTheFunctions`, for any functions and any codec with `CodecWorks`, wherever the runner dies and whatever
    file cannot be fetched. `CallInv` says what is in each file when the caller may read it: the payload is the
    `Outcome` of the function, the envelope is that payload, torn, or not there, and an envelope that names arrays
    has them beside it, or they cannot be read.
  - `HangIsThePods`: a worker that waits for a status has ended the input of its command (`ExecInv`), which
    leaves silence, a full window and output held open as the reasons to hang.
  - `StalePinIsExcused` is not inductive, since a connection that is open writes back what it loaded before the
    pin was dropped. `PinInv` speaks of every key in the file *or in the memory of a connection*: an old one is
    excused, unless the answer of a request that replaces the container is still out.
- `AccountProofs`, also from `Parts`:
  - `CachedWasRegistered`: what a process takes for registered, from the cache or the list, was so (`Rightly`).
  - `RowIsPodShown`: a snapshot that can be read is the listing on the screen, or was not saved (`IndexInv`).
  - `ResendNeedsLostAnswer` and `SentAsConfirmed`. `Known` says what each place of the command has made sure of;
    `Agreed`, that from the confirmation on what will be signed is what was shown, on a subnet that was
    named; `Once`, that there is at most one transfer, and none while a user who still wants the deposit is
    before the submission, unless a command ended without an answer after it had submitted one.
  - `RegisteredIsThisNode`: from the rendering on `.env` is what the command was given (`EnvIsGiven`), a container
    made by this run is what `.env` says and what was seen to be healthy (`BoxIsGiven`), and a node that was
    posted is in the account (`Listed`).
  - `OfflineWasSeen`, for all intervals: while the node has not been down in this wait, a flag that says so is
    at least as old as the wait (`FlagIsOld`), so OFFLINE cannot have lasted for `Confirm`; `InBounds` says that
    no wait reaches the clock's end.
  - `ActsWhereMeant` and `SavedKeyKept`. `TeamInv` says of each process whose copy of `config.ini` is not stale that it
    is what was last written (`CopyIsWhole`), that what it will write changes only sections without an id or
    with its workspace's own (`Rewrites`), that the section of a name has the id it was meant to have unless
    processes overlapped, and that a command with `-w` goes by that id (`Intends`).
  - `PodProofs!TypeCorrect` (`[]TypeOK`) puts the types of the ten parts together, six of them from
    `AccountTypesCorrect`. Three say more than types: that `exec` has at most as many workers at a pod as its pool
    has (`PoolInv`), that a pod which is gone is not listed again (`Passing`), and that no transfer takes more alpha
    than is free (`Covered`).

The inductive invariants were checked by TLC on the instances of the runs before they were proved. Types of modules
with proofs are proved and not checked by a run again, but for those of the parts, which the run `parts` checks in
the one invariant `TypeOK`, where the bound of `exec`'s pool has its mutant.

Only model-checked:
- liveness, which is outside the prover's reach: `CommandEnds`, `CommandsEnd`, `CatchesUp`, `UnattendedGoes`,
  `WaitEnds`, and the end of a call in `RentPromise`;
- that the code's codec undoes its own encoding (`CodecAssumption`), which is recursion over data (`RECURSIVE` in
  `ResultCodec`): evaluated for the values of `parts`;
- the four disagreements, which are counterexamples.

## 5. Not modelled, and the plan

1. `SelfUpdate` with several processes: the code does not provide what `OrderlyUpdatesAreSafe` asks for; once it
   reads the version under a lock that only its holder releases, `Orderly` is an invariant to be proved.
2. `Edit`: `edit` and `switch_template`, each with `wait_ready` behind it, and template builds.

Not modelled: `edit`, `switch_template`, backups, schedules, volumes and templates (one request each, no state in
the client); `stream_exec` and interactive sessions, whose bytes pass through; what `rsync` copies; settings
other than keys and their validation; lists, displays and the Pareto frontier of `ls` (functions over
floats); telemetry, plugins, completion; dialogues such as `init` and `signup`; port forwarding; the
install script, which replaces the files of the self-update without its lock; threads within one process
that share a decorated function; the chain behind `fund` beyond what it may do with a transfer.
