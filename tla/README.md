# slis in TLA+

slis keeps the branches and worktrees of one feature (a *slice*) together over
several git repositories. It is a Go command-line program (`src/internal`,
`src/cmd`) and a terminal interface in TypeScript (`src/tui-js`) that runs the
commands and talks to `slis rpc`. This directory holds its TLA+ models, the
configurations TLC checks them with, and theorems TLAPS checks.

The heart of slis is the **swap engine**: it takes the primary checkouts the
user works in, puts them on a slice, keeps them in step with it, and must give
them back exactly as they were, whatever fails in between. It is modelled and
proved first. The second part is the **review conversation**: a reviewer agent
in a terminal tab, follow-up messages from other processes, and findings handed
to a working agent at most once, across crashes. Eleven smaller parts
follow, each a module of its own: the tabs of a slice's sessions, the interface's
swaps and its hold on live-sync, the RPC server, the interface's client of it, two
caches,
the commands over slices and what they make of registry and overrides, adopt,
Graphite's stacks, review comments, and the events of hooks and focus requests.

## The system and its parts

| Part | State it keeps | Operations | What makes it right, and hard |
|---|---|---|---|
| Swap engine (`internal/swap/engine.go`) | HEAD, branches, working tree and stash of each primary; the journal `active.json`; recovery records | `activate`, `deactivate [--force]`, `refresh`, `recover-activation` | No work of the user is ever lost; a failed activation is undone whole; the journal always lets an interrupted command be undone. Many git commands in a row, each of which may fail or be the last before a kill |
| Live mirror (`internal/swap/live*.go`, `tui-js/src/live`) | `Mirror` and `TargetSHA` of the journal, the primaries' files | rounds of `syncWorkingTree`, started by a timer and a file watcher | Overwrites files and moves HEAD: only over what it wrote itself; catches up with the worktree |
| Doctor (`internal/cli/doctor*.go`) | none of its own | `doctor --fix` deletes a stale journal, a contained live branch | Never deletes what something still needs |
| Sessions (`internal/session`) | a JSON file per group of tabs, file locks, request and acknowledgement files of focus | ensure, send once, start command, kill, focus | Several processes; a record and a runtime that must agree; one command per terminal |
| Review conversations (`internal/reviewrun`, `cli/review_sessions.go`) | run, messages, pending turn, delivery record | message, run the reviewer, stage, deliver, complete | Every message is answered, each turn's findings are delivered at most once, across crashes |
| Review comments (`internal/review`) | one JSON file for all slices | add, remove, clear, send | Several processes rewrite the whole file without a lock; a comment is sent once and none is lost |
| RPC server (`internal/rpcserver`), client (`tui-js/src/rpc`) | requests in flight, gate slots, a diff | dispatch, cancel, shut down, watch | Cancellation races completion and reuse of an id; no partial answer, no diff of another fingerprint |
| Stack and PR caches (`internal/gt/cache.go`, `internal/forge/prcache.go`) | an entry per repository or branch | read through, invalidate | Never older than the bound, never a read that was cut short |
| Registry and discovery (`internal/config`, `internal/discovery`) | `registry.yaml`, `overrides.yaml` | report, reconcile, register, apply overrides and folds | Every worktree is in a slice or accounted for, while worktrees vanish, detach and change branch; read, change, write by several processes |
| Slice lifecycle (`cli/create.go`, `rm.go`, `group.go`, `gather.go`, `adopt.go`, `internal/cleanup`) | branches and worktrees of several repositories | create, import, forget, rm, group, gather, adopt | Partial failure over several repositories; uncommitted work on its way through the stash |
| Graphite and GitHub clients (`internal/gt`, `internal/forge`) | none but the caches | order, lineage, stack, gather; pull requests of branches | Order and roots of malformed metadata; a branch name that outlives its pull request |
| Hooks and notifications (`internal/hooks`, `internal/notify`) | a status file per slice | hook, read, remove, banner | Hooks beside each other and beside the watcher |
| Interface (`tui-js/src`) | views, embedded terminals, polling state | keys, ticks, overlays | Late answers, attachment and reconnection |
| The rest: radar, report, diff, summary, share, proc, editors | none, or one best-effort file | reads, external programs | Not state machines |

How they interact: every command is a process of its own; processes share only
files (the journal, the registry, sessions, reviews) and git. The interface is
one process that starts commands, polls the RPC server, and holds a `slis
live-sync` process open while a slice is active; it stops that process before it
runs a swap command and starts it again afterwards
(`app.tsx` `runSwapWithLiveMirror`).

`PROJECT.json` lists each component with its status, and every hazard of this
code at its line.

## Modules

| Module | What it is |
|---|---|
| `SwapEngine` | The swap engine, live mirror and the doctor's swap repairs: state, one action per step, the specification, and the properties |
| `SwapInv` | The inductive invariant, in four parts: control state and what keeps work safe, what the journal remembers, what a rollback goes back to, and what holds while nobody interferes |
| `SwapSafetyProofs` | Proof that types and control state are invariant, of the safety part, and that no work is lost |
| `SwapRecordProofs` | Proof that the journal remembers: entries dropped only when restored, no unrecorded live branch but by faults, targets not behind |
| `SwapOriginProofs` | Proof that a failed activation and a refused deactivate restore what was, that the engine never takes its own doing for the user's, and of the whole invariant |
| `MCSwap` | The repositories TLC instantiates |
| `ReviewConversation` | One review conversation: the commands that post messages, the reviewer, the session manager's part in it, what may go; its properties |
| `ReviewLedger` | What a conversation promises, with no process or file in it |
| `ReviewInv` | The inductive invariant of the conversation |
| `ReviewProofs` | Proof of its delivery part (types, one delivery, one reply, staged turns kept), of its order part, of its quiet part (a run at rest has answered), and that the conversation implements the ledger |
| `MCReview` | The messages and tabs TLC instantiates |
| `SessionTabs` | The tabs of one slice: every command of the session manager, the store, the locks, the terminals |
| `LiveSwap` | The interface's swaps: dialogs, the commands they run, the live-sync process around them, the check at the start, quit |
| `RpcServer` | The JSON-RPC server: reader, handlers, cancellation, gate, diff cache, shutdown |
| `RpcClient` | The interface's client of that server: calls, requests, timeouts, sidecars that end and are started again |
| `StackCache` | The server's cache of Graphite's stacks and the read behind it |
| `PullRequests` | The pull requests of branches: pool, cache, lookup |
| `SliceGrouping` | How worktrees become slices: operators over listing, registry and overrides |
| `SliceLifecycle` | The commands over slices as processes, with the files they rewrite and users beside them |
| `AdoptBranch` | `slis adopt` of one branch, beside users of the stash |
| `GraphiteStacks` | Order, lineage, root, stack and gather over Graphite's metadata |
| `ReviewComments` | The store of review comments and the commands over it, down to the inodes of a save |
| `ServerEvents` | Hooks, status files, banners, the server's watcher, the client's badges, focus requests |
| `RpcProofs` | Proofs about `RpcServer` and `RpcClient` |
| `CacheProofs` | Proofs about `StackCache` and `PullRequests` |
| `PartsProofs` | Proofs about `ServerEvents`, `ReviewComments`, `LiveSwap`, `SessionTabs` and `AdoptBranch` |
| `SliceProofs` | Proofs about `SliceLifecycle` and the grouping it computes |
| `MCParts` | An instance of each of these eleven parts, for one run |

### SwapEngine: state and steps

A primary is `head` (a branch, or `"detached"` with its commit in `at`), `refs`
(what each branch names), `wt` (what is uncommitted), and `stash`. The disk of
slis is `journal` (an `Entry` per repository, the fields of `RepoState` that
decide something) and `archived` (recovery records). A running command is `cmd`,
`pc`, the repository `cur` it works on, those its loop has left (`todo`), its
copy `mem` of the journal, and what it read up front (`srcs`). `mirroring` says
that a live-sync process is up.

* A step is one git command that changes something, or one write of the journal;
  the reads that guard it belong to it. Between two steps the process may be
  killed (`Crash`): memory is gone, disk and git stay. A git command or a write
  may fail where the code handles it; both cost one of `MaxFaults`.
* **activate**: `StartActivate`, then per repository `ActivateRepo` (prior
  branch, target, auto-stash), `SwitchToLive`, `CaptureBaseline`,
  `JournalActivated`, at last `FinishActivate`. Each has its failing
  counterpart; they unwind what is done so far (`Unwind`), and a failed
  baseline first undoes its own repository (`"undo"`, then `"rollback"`).
* **deactivate**: `StartDeactivate` validates every mirror, `ClearWorkingMirror`
  and `SaveCleared` remove them one by one, then `DeactivateRepo` and its
  follow-ups (`RestoreAfterRescue`, `DeleteTempBranch`, `PopPinnedStash`) run
  per repository; `FinishUnwind` clears the journal or keeps the failed ones.
  `rollback` and `undo` are the same steps, as in the code.
* **drift**: a primary that is not as recorded makes deactivate and live-sync
  archive the activation (`StartDeactivateDrifted`, `StartSyncDrifted`,
  `ArchiveDrift`), and so does `RecoverActivation` at the interface's start.
* **refresh**: `StartRefresh` (all tips and the dirty check), then `RefreshRepo`
  and `SaveRefreshed` per repository.
* **live-sync**: `StartMirror`, then rounds: `StartSync` (validate and capture
  everything), `SyncSkip`/`SyncApply`/`SaveSynced` per repository. The worktree
  may change between capture and copy (`SyncApplyFails`). A failed round ends
  the process, and nothing but the user starts it again.
* **doctor --fix**: `DoctorDropsStaleJournal`, `DoctorDropsOrphan`.
* **the user** edits, commits, switches, detaches, deletes and recreates the
  prior branch and drops stash entries in a primary; edits, commits and resets in a
  worktree, with rewrites of history. `Ancestors` says which tips descend from
  which.

Content is a set of *items*, pieces of the user's work: an item is in a working
tree, in a stash entry, or in the own part of a commit. A commit is the tip of
the slice it sits on (`line`) and the items committed on top (`own`).

What the abstraction leaves out, and why it does not matter here: repositories
are processed in any order (the code: the slice's, or its reverse), so every
order is covered; a round's copy of files is one step, the half-written copy is
its failing case; ignored files that block a copy make it fail like any other
error; a conflicting pop is a fault that leaves the entry and maybe applies it.
Journals of the old detached-HEAD engine and the installer of dep-reconcile are
not modelled. `RepoState.Branch` is no field of `Entry`: live-sync takes it from the
worktree (`live.go:258`), and worktrees stay on their slice's branch here. The user's primaries are never on the slice's own branch: git
refuses to check out a branch another worktree holds.

### ReviewConversation: state and steps

The files of a run are `status`, `findingCount`, `lastRequest` (the run's
file), `posted` and `replies` (the messages' file, the user's and the
reviewer's), and `turn` (the staged turn's file). The sessions file is `listed`
(the review tab), `tabs` and `deliveries`; the runtime is `terminal`, `typed`
(command lines not yet read), `accepted` (the state file of the last command)
and `agents`. `mpc[m]` is where the command that posts `m` is, `pc`, `mine`,
`prompt` and `target` belong to the reviewer. `prompted`, `pasted` and `heard`
record what no file says: what the agent was shown, what was written to a
terminal, and how often the agent now in a tab was given a turn; `late` marks a
message that came into the file after one of a later stamp had been read.

* A step is one write of a file, one message to the runtime, or one read whose
  answer is used later.
* **commands**: `Stamp` and `Post` (`AppendMessage` takes the time before it
  writes), then for a follow-up `Recheck`, `Ask` and `SetQueued`, then
  `EnsureReviewTab` and `startCommand` under the tab's lock (`FindTerminalBusy`,
  `StartReviewer`, `SeeAccepted`, `AwaitTimesOut`), each with its failures
  (`GiveUp` is `persistReviewFailure`).
* **the reviewer** (`runReviewConversation`): `Read`, `SetRunning`,
  `AgentAnswers`, `StageTurn`, `AppendReviewerMessage`, delivery
  (`ChooseFeedbackTab`, and `SendOnce` as `PrepareDelivery`, `Send`,
  `RecordSent`), `MarkTurnDelivered`, `RecordTurn`, `ClearPendingTurn`, and
  again. `SetFailed` ends it; so does an error of a file operation that the code
  returns without it, which is a death like any other (`ReviewerDies`).
* **what may go**, at any step, each at the cost of one of `MaxTrouble`: a
  command, the reviewer, the review tab or its terminal, an agent, an agent's tab
  (which drops the tab's delivery records, as `KillTab` does).

Left out: messages of the system (nobody answers them), the store of comments
that findings are copied to (`ReviewComments` has it), the end of a whole session
(`Manager.Kill`, in `SessionTabs`), several conversations of one slice. `Ensure`
and `EnsureTab` are one step here. A closed tab's terminal and listing go in one
step, so are `KillTab`'s reads. The reviewer dies with its terminal.

`Stamp` and `Post` are two steps of any command, in any order with those of
others: no lock covers `store.go:167-186`. A message stamped before and written
after the request of a turn is `late`: the reviewer takes it for answered, and
nobody read it. `NothingPassedOver` says that nothing else is passed over, the
ledger counts a late message as never answered, and `review_order` is the run that
finds one.

### The eleven parts: state and steps

They share the style of the first two: a step is one access to a file, one call of
a runtime or of git, or the taking of a lock; what a process read before is in its
record until it uses it. Variables under a second `VARIABLES` record what no file
says, for the properties.

**SessionTabs.** `group` is the slice's entry of `groups.json` (tabs, the active
one, one delivery), `alive` the terminals that run, `lock` the lock files,
`typed`, `running` and `mark` what a terminal has been sent, runs, and says in its
command's state file. `proc[p]` is a command: `Ensure` lists, creates and upserts
(`EnsureGet` .. `EnsureUpsert`), `EnsureTab` alone or before `StartCommand`,
`StartExistingCommand`, `SendOnce`, `Kill`, `KillTab`. The store's own lock makes
each access atomic, nothing spans two of them but a terminal's lock. Processes
are killed anywhere, and their locks go with them.

**LiveSwap.** The interface is one thread: each action is a key, a callback, or a
step of a process it started. `held`, `stopping` and `told` are `LiveMirrorManager`'s
`process`, its `stoppingProcess` and the processes whose input it closed; `mirror[m]`
is the m-th live-sync process. `job` holds what awaits a process: a swap (`plan` is
the list of commands it has still to run, two for a handoff), a reset, the check at
the start, the quit. `dialog` is the one overlay: an overlay that is shown takes the
place of the one before, the "working" one too. Commands are SwapEngine's; here they
only change `journalOf`, whose slice is live, and end well, badly, or with the
journal archived. `lsShown` and `lsCall` are the listing the dialogs are made from.
Other commands of the interface end at any time: their news is shown over whatever
is, or closes it when they ended well (`OtherNews`). `crossed` and `astray` record for
the properties what the user did, what was shown over what, and what was told.
One bound is shared by ticks, a quit, ends of live-sync by itself, rollbacks that
fail, and other news.

**RpcServer.** `request[i]` is the i-th request: its id, its method, where its
handler is, and the checks and reads it has still to do (`Handlers`, one line per
method). `inFlight` is the map of registrations, `cancelled` the contexts, `slots`
the gate. `collected` is what the shutdown has still to cancel. A read under a
cancelled context may be cut short. `diff` has steps of its own: fingerprint,
lookup, one step per repository of the build, store. `worktrees` counts the changes
of the worktrees; `FingerprintAt` gives the fingerprint they have after each, which
need not be another one: `DiffFingerprintCtx` hashes the base's commit and the files
that differ from the merge base, so a rebase or a `reset --soft` that keeps the files
keeps it, and an edit that is undone brings it back. A result carries the change at
which its fingerprint was taken (`begun`) and the one before which nothing of it was
read (`tree`). A fingerprint is taken as read at one time.

**RpcClient.** `caller[c]` is a call that awaits a request; `joined` (the code's
`inFlight`) says which request an equal call joins, `pending` which wait for a
response or their timer. The client is one thread: each action is one callback, in
any order. `sidecar` is the process it talks to, `up` those that run, `exits` those
whose end it has still to hear of, so the exit of a sidecar that was given up may be
heard when the next one is at work (`onTransportDown` and its guard). The server is
what the client sees of it: it answers with what it sees when it answers (`view`),
or with an error, or ends; what it wrote before can still be read. `sentAs` records
what a request was and how it ended, for the property.

**StackCache.** The cache of one long-lived server. A reader takes a fingerprint,
waits for the lock of the repository's entry, and either is served or reads (`gt
state` in a slot, else the refs). `refs` and `hidden` count changes the fingerprint
sees and does not see; `Tips` lets refs return to an earlier state; `was` remembers
the hidden part of each tick. `Invalidate` is no action: only `create` and
`restack` call it, in processes of their own, whose cache nobody reads after it.

**PullRequests.** A call puts its branches into `jobs`, workers take them, each
goes through the entry of its branch and asks gh and git in the code's order. The
user opens, merges and begins new work (`newWork`, `dirty`) at any step. Callers
run one at a time; a call that names a branch twice stands for two calls at once,
since calls share nothing but the cache.

**SliceGrouping, SliceLifecycle.** A *place* is a directory that may hold a
worktree; `checkout`, `content` and `refState` are git and the disk. A command
lists (`pruneStaleManagedWorktreeMetadata`, `collect`), reads the registry,
reconciles and saves it, groups, applies registered membership, registers managed
worktrees and saves again (`Report`); what it then does depends on the command.
All grouping is in `SliceGrouping`, a module without variables: `groupByName`,
`reconcileRegistry`, `membershipOverrides`, `Apply`, `ApplyFolds`, `Resolve`.
A registry that cannot be parsed is moved aside and the report begins anew; so is
one whose read fails this once (`RegistryLoaded`), and the move may fail too. The
check whether a managed directory is missing or empty (`Reconcile`) and the save
without its entry (`SaveReconciled`) are two steps; an empty directory counts only
when it is older than five minutes (`GracePasses`). Users check out, rename, add and
lose worktrees between any two steps, and the listing of a repository may fail.

**AdoptBranch.** `holder` has the branch checked out, `stashed` is the repository's
stash, `adopt` the command: a first `worktree add`, then with `--move` stash, the
name of the stash entry, detach, `worktree add` again, a list that finds the number of
the first entry with that name (`FindStash`), and a pop of the entry that has this
number by then (`popStash`). Users push, pop and switch at any step, and any git
command may fail.

**GraphiteStacks.** Pure operators in the code's form (breadth-first order, walks
up with a guard against cycles), with recursive functions; the metadata is chosen
in one step. They are compared with relations that use sets alone (`Below`).

**ReviewComments.** Every save goes through one temporary file: open and truncate,
write, rename. `inode` holds contents and `stored` and `temp` name inodes, so a
process that holds the temporary file open writes into it after another has
renamed it. The mutex in the code is the process's own and excludes nobody here.

**ServerEvents.** Hooks truncate and write a status file and fire a banner by the
status they had read; the watcher takes one notice for any number of events,
reads file by file and tells the client what differs from its last snapshot; the
status method answers beside it. A file is known by its name (`FileName`), which need
not be one slice's own: `statusFileName` writes `-` for `/`, so `a/b` and `a-b` have
one file, with the record of whoever wrote last. The watcher goes by the slice in the
record (`StatusIn`), hooks and the status method by the file (`ReadStatus`). What is
written to a file that was removed meanwhile is lost (`linked`). Focus requests and acknowledgements are one
file each for all who ask.

Left out of these parts: the login shell that `Ensure` may start again, attach and
list (no state), the names of sessions; error kinds and the wire format; an
overflow or error of the file watcher (the code ignores it, so events would be
lost until the next one); parsers of gt's and gh's output; the base branch of
`create`, its Graphite calls; parameters of `review add`; the prompt's wording.

### Assumptions on the user

`Racing = FALSE`: the user leaves a primary alone while a command runs. With
`Racing = TRUE` an edit between validation and copy is overwritten; the code
makes no promise there. `DetachedCommits = FALSE`: the user does not commit on a
detached HEAD while swapped in; the run `swap_detached` shows what happens
otherwise. Commands run one at a time; how far the interface sees to it for its own
is what `LiveSwap` asks.

## Runs

| Run | Instance | What it asks |
|---|---|---|
| `swap_two_repos` | 2 repositories, one mirrored; 1 fault, 1 user action, 2 worktree actions (commits, resets), 2 tips, 1 stash | Is work kept, a failed activation undone whole, the journal never behind? |
| `swap_deep` | 1 mirrored repository, fair; 2 faults, 3 user actions, 1 worktree action, 2 tips that rewrite each other | The inductive invariant, over crashes of a recovery, second activations, recovery records; does a refused deactivate move nothing, every command end, the mirror catch up? |
| `swap_rerun`, `swap_force`, `swap_detached`, `swap_reset` | 1 repository, no more than the counterexample needs | Four promises of the documentation the code does not keep |
| `review` | 2 messages (the opening one, a follow-up), 2 tabs of agents, 1 thing that goes; fair | Is a turn delivered once, answered once, kept, no message passed over; is it a ledger; is every message the reviewer reads answered? |
| `review_order`, `review_queued`, `review_respawn` | 2 messages, 1 tab; nothing goes, or (the last) one thing | Three promises of the documentation the code does not keep |
| `parts` | Each of the eleven parts on its own instance (see below) | The properties of the eleven parts |
| `rpc_partial` | 2 diff requests, 2 ids, 1 slot, 2 repositories | Is every answer whole? A test's promise the code does not keep |

Two repositories are enough to have one done, one in work or one failed, which
is all that distinguishes repositories in the engine: they share only the
journal and the loop. One fault reaches every failing step in every state, two
reach a failure of the recovery. Deadlock is not checked: every run stops when
its bounds on faults and actions are used up and nothing is left to start.

Two messages are enough for a turn to answer one or both, and for one to arrive
at every place of the other's turn. Two tabs let an agent that heard a turn live
on while the turn is taken up again and another tab is chosen. One thing that goes is
a crash at any step, or the end of an agent or a tab at any step; a delivery may fail
of itself, before or after it was heard, any number of times, so that a failed turn is
taken up again and again. The safety properties are proved for any number of each. A
conversation in which all is answered stops.

`parts` is one run for eleven small state machines that share no state. `MCParts`
extends all of them; the variable `part`, chosen at first, says which one runs, and
the others stand still where they begin. Its states are therefore the sum, and not
the product, of the parts' states, about two million. Two processes per
part (commands, readers, workers, hooks) are enough for every pair of steps to be
interleaved, and they are interchangeable (`SYMMETRY`); each may be killed or fail
once, users take one step (three in `adopt`, which is short). Where the bound
matters: three tab commands, so that one closes beside two others' tabs; two
requests of one id, so that an id is used again; two sidecars and two calls, so
that a late exit meets a new request; two confirmed swaps and three live-sync
processes, so that one swap follows, or crosses, another; one slot, so that one waits;
one branch called for twice at once, so that two workers meet at its entry; worktrees
that are changed and changed back, so that a fingerprint recurs; one change of refs and
of what no fingerprint shows; three review commands, so that two saves overlap a send;
two slices with one status file between them; two slices over two repositories with a
managed and a foreign worktree, two branches whose names are of one slice, and two
commands; every
metadata over four branches with one parent each (and an unknown one), and all
that the refs can say.

The properties (each stated in `SwapEngine` with the code it is about):

* `WorkNeverLost`: every item made in a primary is in its working tree, stash,
  or a commit some branch (or its HEAD) reaches.
* `EntryDroppedOnlyWhenRestored`: the journal forgets a repository only when
  its primary is off the live branch and its stash is out, or all is archived.
* `UnjournaledNeedsFault`: a primary on a live branch nobody recorded costs a
  crash each.
* `FailedActivationRestores`: what rolled back is as it was.
* `RefusalChangesNothing`: a refused deactivate moved nothing.
* `TargetTracksTemp`, `NeverSelfDrift`: the journal is not behind the engine's
  own moves, and the engine never takes its own doing for the user's, unless a
  refresh followed a reset of the slice branch (`rewound`, see `swap_reset`).
* `SwapInvariant`: see the proofs.
* `CommandsEnd`, `MirrorConverges`: liveness.

and in `ReviewConversation`:

* `AtMostOnce`: the findings of a turn reach at most one living agent, once.
* `NothingPassedOver`: what the run's last request covers was in a prompt, or was
  late (see `review_order`).
* `OneReplyPerTurn`: a recorded turn has one reply, no request has two.
* `StagedTurnKept`: a staged turn goes only when the run's file names it.
* `QuietMeansAnswered`: nobody at work, nothing killed, and a run that reads
  clean or findings: no message is pending.
* `KeepsLedger`: the conversation implements `ReviewLedger`. The ledger's
  `answered` are the messages up to the run's last request that were not late, its
  `given` the turns pasted. It forbids that a turn is counted twice, counted before it was handed
  over, or heard twice.
* `ReadIsAnswered`: liveness.

and in the eleven parts:

* `ClosingAloneIsSafe`: commands that add tabs lose no terminal, and none does
  unless it runs beside one that closes. (Beside one, `KillTab` may index an empty
  list and `Kill` may forget a terminal: the property names the precondition.)
* `OneCommandPerTerminal`: two command lines are in one terminal only when the
  starter of the first gave up after three seconds or was killed.
* `RegistrationIsTheNewest`: a cancel reaches the newest bearer of an id, and the
  end of an older one never takes its registration.
* `PartialOnlyFromDiffCache`, `DiffFitsFingerprint`: no half result but through the
  diff cache; a diff is built for a fingerprint that the worktrees have had since the
  request it answers, and of what was read after that fingerprint.
* `CallsAreSettledByTheirOwn`: no call of the interface waits for a request nothing
  will settle; it ends with an answer to its own query read after the request was
  sent, or fails for a sidecar only when that one was given up; each read is at work
  once in the sidecar, but for withdrawn ones, and no sidecar is left behind.
* `AnswerSeesItsRefs`, `AnswerIsRecent`: a stack's refs are not older than the
  read's begin, whoever filled the entry, and a read that was cut short is not
  remembered; what no fingerprint shows (`gt track` in another process) is seen by
  every read that begins `MaxAge` ticks later.
* `MergedIsNotAttachedToNewWork`: work begun under a merged branch's name does not
  get its pull request, but for the age of the cache.
* `SwapsRunAlone`: the interface lets two processes move primaries at once only
  when the user swapped before the check at the start was answered, something was
  shown over a swap under way, or it is quitting.
* `MirrorUpWhileLive`: at rest live-sync is up exactly when a slice is live, unless,
  since the last swap that succeeded, a failure was reported or something was shown in
  place of the question of the start.
* `ReportsAreFaithful` (`NothingVanishes` and `RegisteredKeepsItsSlice`),
  `RegistrationIsKept`: every worktree is in a slice, skipped, a candidate, or in a slice
  of its own gave way to another one of its repository with that slice's name; a
  registered one stays in its slice on whatever branch, with the same exception. The
  step that drops a registration is of `forget` or `rm` of its slice, of a report that
  found its managed directory missing or empty or could not read the file, or of a
  command that writes back what the file is no more.
* `AdoptLosesNoWork`: no uncommitted work is lost at any step; what arrives is what was
  stashed, unless somebody changed the primary before the stash, or the stash before its
  entry was named or between the list and the pop.
* `StackWalksAgree` (`LineageAndRootsAgree` and `GatherTipHoldsTheStack`): stacks
  computed by walks agree with the relation; the tip of a gather stands on all it
  folds.
* `CommentsAreKept`, `SentOnce`: comments and a store that can be read, over kills, full
  disks and other commands; what two saves at once destroy is named.
* `BadgesAgreeAtRest`: events that merge, files read torn or half and snapshots taken
  while hooks write leave the client with what the records in the files say. Of a slice
  whose last news was a status answer other than what the watcher had seen, or that
  changed before the first snapshot, nothing is claimed (`overtaken`): there the code
  does leave an old badge.
* `BannersMatchChanges`: one banner for a change, but for hooks that overlap on one file
  or share it with another slice (`mixed`).
* `FocusIsShownOnce`: a focus is shown once by the one who asked.

Fairness: weak fairness of `CommandStep` (a process that runs goes on until it
ends) and of `SyncRound` (the timer and watcher of `RunLiveSync` while the
process is up). None for the user, crashes, failures, or the start of a command
or of live-sync. `MirrorConverges` therefore says "while live-sync is up": an edit
that falls into a copy ends the process for good.

For the conversation, weak fairness of `Reviewer` (it has a deadline of fifteen
minutes, so its agent's step ends). None for commands, for users who type, close or
start, and none for what goes. `ReadIsAnswered` starts from the reviewer's read:
a message posted later may be nobody's, as `review_queued` shows.

### What the violated runs show

* `swap_rerun`: kill `deactivate` after it deleted the live branch and before it
  wrote the journal. The journal stays; every later `deactivate`, forced or not,
  fails because the branch it wants to verify is gone. `doctor` advises exactly
  that command.
* `swap_force`: commit on the live branch of a mirrored primary. `deactivate
  --force` is documented to rename the branch and restore; validation of the
  mirror comes first, so the activation is archived and nothing restored.
* `swap_detached`: detach, commit, `deactivate --force`: the commit is on no
  branch any more.
* `swap_reset`: reset the slice branch to an earlier commit and refresh. The
  fast-forward has nothing to do, the primary stays, and the journal records the
  earlier commit: the next deactivate takes the slice's commits for the user's.
* `review_order`: two commands take their times in one order and write in the other;
  the reviewer reads the message of the later time in between, records it as the last
  request, and what comes after it in the file, but before it in time, is neither
  pending nor in any prompt.
* `review_queued`: the reviewer looks for messages a last time and returns; a
  follow-up posted before its process is gone finds the terminal busy, reports
  the message as queued, and nobody is left to read it.
* `review_respawn`: the review tab was closed while the run says running. A
  follow-up appends its message, asks whether the tab is busy, gets an error and
  ends; the step that would create the tab again comes later.
* `rpc_partial`: a diff that is cancelled while it is built goes into the cache
  without the repository whose git was killed. Its own request is answered with the
  cancellation, the next one of the same fingerprint with the half diff.

### What the models showed besides

Places where the code does less than a comment beside it says, met while the
models were written. They are conditions in the properties above and not runs of
their own.

* A registered worktree whose new branch bears the name of another member's slice
  drops out of its own: it is skipped as a collision. And one whose slice's name another
  member's branch bears is overwritten there by `Apply`'s second pass, which puts members
  that no override claims where an override has just put another (`overrides.go:124`):
  it is then reported nowhere. `registry_scan.go:87-90` says that registration survives
  any branch and a known slice never silently vanishes, `docs/AGENT.md:71-72` and `362`
  that a switch of branches keeps the slice, `discovery.go:67-68` that no worktree ever
  vanishes without explanation. `RegisteredKeepsItsSlice` and `NothingVanishes` name the
  exceptions.
* One failed read of a healthy registry moves it aside like a damaged one
  (`registry_scan.go:110-119`; `config/registry.go:84-90` returns any error of
  `os.ReadFile`), and it is rebuilt from the worktrees: slices registered from outside
  the managed tree, and names that branches no longer bear, are gone. The comment
  speaks of damaged files alone. `RegistrationIsKept` names it.
* A managed directory that is filled again after the report found it missing
  (`registry_scan.go:315`) and before it saves (`registry_scan.go:126`) loses its
  registration all the same; `lost` keeps what was found.
* `popStash` "pops ONLY that exact entry ... rather than guessing at stash@{0} and
  risking popping (and dropping) unrelated work" (`adopt.go:70-74`). It lists and then
  pops by number (`adopt.go:77`, `88`): a push or pop by anybody in between makes
  `stash@{n}` another entry, and that one is popped into the new worktree and dropped.
  `raced` marks it; no work is lost, but it arrives where it does not belong.
* An answer of the status method that was read before the watcher's last message and
  arrives after it leaves an old badge, until the slice's next change: the watcher
  tells only what differs from its own snapshot (`server.go:450`). `overtaken` marks it.
* The slices `a/b` and `a-b` have one status file (`events.go:27-31`). A hook of one
  reads the other's status as its previous one and shows no banner, or one too many:
  `docs/AGENT.md:397-398` says that the banner fires when a slice's status changes and
  that an unchanged status never fires again. The status method answers for the one
  with the other's record (`events.go:78-93`); `rm` of one removes the status of both.
  `mixed` marks these.
* `reconcileRegistry` matches by path, then by branch (`registry_scan.go:299`): two
  slices may come to own one worktree.
* `rm` and `ungroup` of a gathered slice leave its folds (`rm.go:127`), so the
  folded branches stay hidden; `overrides.go:21` calls folds the group's own.
* `rm` of a group whose members are registered elsewhere leaves those entries
  pointing at nothing.
* `rm` looks at the live slice by name only (`cleanup.go:80`).
* With several trunks the order of branches depends on the order of a map
  (`gt.go:116` says it is deterministic); the stack properties assume one trunk.
* `GatherStack` of a trunk takes all that stands on it for one stack, and calls it
  linear though it is two (`gather.go:20`); the property asks for stacks below one.
* A diff may be served that shows no state of the worktrees since the request. After
  a rebase or `reset --soft` with the files as they were, the fingerprint is the old
  one and so is the cached diff (`report/diff.go:32`); an edit that was made while a
  diff was built, and is undone later, is in the diff that was stored under the
  fingerprint taken before it (`rpcserver/methods.go:205`).
* The "working" overlay is no lock: the failure of another command (`app.tsx:479`)
  or the question of the start (`app.tsx:534`) is shown in its place, and the user
  may confirm a second swap while the first still runs; a quit (`app.tsx:393`)
  deactivates beside it. `crossed` marks these in `SwapsRunAlone`.
* A swap confirmed against a listing that no longer holds is refused by the command,
  and live-sync, stopped before it, stays down though a slice is live
  (`mutate.ts:184`); the user sees the refusal. `astray` marks it.
* The question whether to go on mirroring a slice that was live at the start is asked
  once (`app.tsx:519`), and nothing keeps it on the screen: the success of a comment, a
  review or any other command that was under way closes it (`useOverlays.tsx:310`,
  `543`, `851`). The slice stays live, nothing mirrors it, and nothing says so.
  `astray` marks this too.
* A refresh after a swap joins a listing that was asked before it (`client.ts:294`),
  and shows the old state until the next tick.
* The delay before the client starts the server again never grows: `spawn` reports
  the connection, which resets the delay (`client.ts:271`), before the new server has
  lived at all. `tui-js/README.md:35` says "reconnects with backoff" and
  `docs/plans/2026-07-18-js-tui-parity-gaps.md:116` "exponential backoff". Delays are
  not in the model.
* A call that joins a request gets what the server read for that request, which may
  be of before the call (`client.ts:294`).
* The registry and the review store are read, changed and written without a lock
  over processes: a command writes back a registry that another one has changed since
  (the last case of `RegistrationIsKept`), and `overlapped` marks where comments are lost.

## Proofs

Every theorem is of a specification as TLC runs it, for all values of its
constants. The assumptions, which TLC evaluates on every run, say what the code
or the model's own vocabulary gives: bounds are natural numbers, a pool has a
slot, a TTL is not zero; sets of repositories (`RepoAssumption`) and of processes
that save comments are finite; a value that means "none" (`None`, `NoTab`, `NoFocus`,
`NoComment`, `NoId`) is none of the things it stands beside, and neither are the
words the models use as states ("slis", "user", "recover", "quit"). A slice has a
repository once, and a repository's tab is not the root's (`TabsNamesAssumption`:
`layout.go` calls them `repo-<name>` and `root`). A disk the commands over slices begin
with is one git allows: a branch checked out once per repository
(`LifecycleAssumption`). `LiveAssumption`
also has more live-sync processes than confirmed swaps, so that the bound on the
first never stops one that the second would start.

Each proof is of the same form: an invariant in named parts, which TLC checked
before it was proved, one lemma per action (and per kind of change below it) that
the invariant survives it, one theorem that puts them together, and the promise
as a consequence. The parts are listed here with what each is needed for.

### The swap engine

`SwapSafetyProofs!TypeCorrect` proves `TypeOK /\ Control`: HEAD always resolves,
each step belongs to its command, and what a step reads (an entry, a draft, a tip)
was put there by the steps before it. `StashRoom` keeps the bound on stashes from
cutting an activation short.

`SwapSafetyProofs!InvariantHolds` proves `SafeInvariant`, and `WorkSafe` that
`WorkNeverLost` follows. `WorkNeverLost` alone is not inductive: `reset --hard`,
`reset --mixed`, `branch -D` are only harmless because of what earlier steps
checked. `Safe` says what they rely on:

* `EntriesOurs`, `SourcesOurs`: a target commit and a mirror record hold nothing of
  the user's, so moving to one, or dropping what equals one, loses nothing;
* `ValidUntilSynced`, `CleanWhenRecorded`: what was validated or found clean up
  front still is when it is written or recorded;
* `NeverOnSlice`: no commit made in a primary moves the slice branch;
* `StashFresh`: an auto-stash never lands on an entry that holds something;
* `WorkOnBranches`: work is kept without the help of a detached HEAD, so leaving
  one is harmless.

The proof has a lemma per kind of change to a primary (a switch, an overwrite, a
deleted or renamed branch, a push or pop) saying that work stays kept. It assumes
`~Racing` and `~DetachedCommits` (see above; both are needed).

`SwapRecordProofs` adds `Recorded`, what a command knows and the disk may not:

* `JournalRemembered`, `OneAhead`: a command's copy and the journal differ in one
  repository at most, so a kill loses track of one at most;
* `UnwindTracked`, `EntriesOffTemp`: what the loop has left and not failed is
  restored. From these, `EntryDroppedOnlyWhenRestored`;
* `OrphansNeedFaults`: primaries on a live branch nobody recorded are no more than
  the faults so far, the count the induction needs for `UnjournaledNeedsFault`
  (cardinalities; hence `RepoAssumption`);
* `TargetsTrack`: without faults, recorded targets equal the live branch's tip
  but in the repositories of `rewound`, hence `TargetTracksTemp`.

`SwapOriginProofs` adds `OriginKnown`, which relates a running command to the
primaries as it found them: what an activation has not reached is as it was
(`ActivationKnowsOrigin`), a rollback has restored what it left and can restore the
rest (`RollbackKnowsOrigin`), what a deactivate refused it has not moved
(`RefusedAsStarted`). `FailedActivationRestores` and `RefusalChangesNothing` follow.
And `Undisturbed`: as long as nothing failed, the user did nothing in a primary and
no refresh followed a reset, each primary is in one of the states the engine itself made, so `NeverSelfDrift`.
`EngineInvariantHolds` is the whole of `SwapInvariant`.

### The review conversation

`ReviewInv` has three parts. `DeliveryInvariant`:
the reviewer's copy is the staged turn (`CopyOfTurn`), a reply is in the file
before the delivery starts (`ReplyFirst`), nothing says delivered that was not
handed over (`HandedOver`), and an agent that heard a turn is in the tab of the
turn's record (`HeardIsRecorded`). The last is what makes `AtMostOnce`
inductive: a record found forbids a second delivery, and it is only dropped with
the tab, and the agent, it names. `ReviewProofs!TypeCorrect`, `DeliveredAtMostOnce`,
`RepliesOnce` and `TurnKept` follow. `OrderInvariant` adds that stamps differ
(`StampsDiffer`), that requests are pending until they are recorded, that a request
was read with its turn (`RequestsRead`), so that whatever is posted later is pending or
late; that a late message has a later one before it in the file and so becomes nobody's
request (`LateAreOvertaken`); and that what a turn covers was in its prompt or late
(`PromptComplete`). `ReviewProofs` proves `ReviewInvariantHolds`, `NoMessagePassedOver`,
and `ConversationKeepsLedger`, the refinement, for any order of stamps and posts:
posting asks, pasting gives, recording answers what lies between the last request and
the new one, an agent that goes leaves, and every other step changes nothing the
ledger sees.

`QuietInvariant` is about who owes an answer. Every step that leaves a message behind must leave somebody at work or a
trace: while nothing was killed and the run reads clean or findings, a message that
waits has a reviewer that will read again, a line typed for one, its own command about
to ask for one, or, for the message that opened the run, its own command that still
has the reviewer to start or the failure to report (`AnswerOwed`). That a new message
is not taken for one the run's last request covers needs that requests are of posted
messages only (`RequestsArePosted`). `QuietRunHasAnswered` proves `QuietMeansAnswered`.

### The caches (`CacheProofs`)

`StackInvariant` has a predicate for a reader's record and one for the entry: until
refs return to an earlier state a fingerprint is not older than the read it was taken
for (`Telling`); a read that was cut short is its reader's alone (`CutOut`); what a
reader read is of its begin or later, and what it is answered not older than the age
an entry may have (`Recent`), because the entry's time is taken before gt is asked
(`EntryHolds`). `AnswersSeeTheirRefs` and `AnswersAreRecent` follow.

`PrInvariant`: a branch is looked up by one worker at a time
(`OneLookup`), no time is ahead of the clock (`FreshClock`), and a merged pull
request that is held anywhere, by worker, cache or caller, was vouched for at a
time its age accounts for (`MergedIsVouched`). `MergedStaysWithItsWork` follows.

### The RPC server and its client (`RpcProofs`)

`RpcInvariant`: `NewestRegistered`, the registration of an id is of the newest
request with it, which is still at work, the condition `RegistrationsAreTheNewest`
needs at each handler's end; `SlotsHeld`; `CutsKnown`, what is not whole belongs to
a cancelled request, or came from the diff cache; `NothingOld`, what a diff has read
is not older than its fingerprint, which the worktrees have had since the request,
and the cache holds each diff under its own (`CacheFits`), so a hit may be served.

`ClientInvariant`: one sidecar is talked to and only it has requests (`OneSidecar`,
`PendingIsCurrent`), a line read is of a request that was sent to that sidecar
(`OwnLines`), and a joined request is the caller's query and pending or its
settlement is on its way (`CallsJoin`). `CallsSettledByTheirOwn` follows.

### The interface and the files it shares (`PartsProofs`)

`EventsInvariant` follows a change of a status file to whoever owes its showing: a
hook at work, an event not read, a snapshot under way, a message
(`HooksAtWork`, `BannersOwed`, `WatcherUpToDate`, `BadgesFollow`), whichever slices
`FileName` gives one file, and counts how
often a focus may have been shown (`FocusCounted`). `BadgesAgree`, `BannersMatch` and
`FocusShownOnce` follow.

`CommentsInvariant` says what the store's inode and the temporary one hold at each
step of each save (`StoreSafe`), for any number of processes. A comment that was
added is in the store or its remover's hands (`AddedKept`, `SentOut`), and one that
may go out a second time is known (`RepeatsKnown`). `CommentsKept`, `CommentsSentOnce`.

`LiveInvariant`: a job's plan fits what was asked (`JobsFit`); of the jobs and the
mirror only one moves primaries unless the user crossed them (`SwapsOrdered`); and the
mirror follows the journal (`MirrorFollows`). For the last the bound on live-sync
processes must never be what keeps one down, so `MirrorHeld` carries a
budget: no more were started than swaps are done, and one by the question of the
start. `SwapsAlone` and `MirrorUp` follow.

`TabsInvariant`: at most one command holds a terminal's lock, and types only under
it (`LocksHeld`); lines nobody waits for any more are counted in `late`, and the line
somebody waits for is one more until the state file says it was read
(`LinesCounted`). `OneCommand` is what is left when nobody gave up.

`TabsSafe` adds the group. Every process's record has the shape its place allows
(`Shaped`), and between two accesses to the store a process relies on what the other
processes do not undo (`Relies`): an `Ensure` that creates terminals finds them in its
plan or the group, a `Kill` that closes them knows every one that runs, a `KillTab` finds
the tabs it read and its own among them. While no command that closes tabs runs
beside another one, these hold, and a terminal that runs is in the group, its creator's
hands, or left behind by a kill (`Known`), which is what `ClosingAlone` says of
`ClosingAloneIsSafe`. `TabsTypeCorrect` needs no such condition: whatever runs beside
what, a group lists a tab once and its active tab is one of its tabs. Both rest on what
`Only`, the loops of `reconcileGroup` and `KillTab` that drop tabs, keeps: `OnlySelects`. It is
an induction over a sequence, made with what the library gives: the function is
shown to exist by a least length without one (`OnlyIsDefined`), so the definition can be
unfolded (`OnlyUnfolds`), and the claim has no least index where it fails.

`AdoptInvariant` follows the work that is moved: what was found dirty is the
primary's, then the top of the stash, then the entry whose name is kept, then the one
that has its number, as long as it is not `raced` (`WorkFollowed`). With it, and with what a push and a pop do to
a stash of any length (`PushHolds`, `PopHolds`), `NoWorkIsLost` proves the action
property `AdoptLosesNoWork`. `AdoptTypeCorrect` adds that the command has answered exactly when
it is over.

### The commands over slices (`SliceProofs`)

`LifecycleInvariant` has three parts. `DiskFits`: git has a branch checked out once
per repository, and what is checked out exists, through everything that `create`, `rm` and
users do. `FilesFit`: a registered member is of the repository it is entered for. `CmdFits`,
for each command by its place: a listing has a worktree once (`OnePerPlace`), the report it
is about to print explains every worktree of that listing (`Faithful`), and the registry it
is about to write has every entry it read, but for those of the slice that `forget` or
`rm` names and those whose managed directory it found missing or empty (`lost`). `Faithful` is established in one step, so its proof is about the operators of
`SliceGrouping`, not about interleavings: what `Match` finds, what `groupByName` puts where and
which record loses a place, what an override and a fold move (the lemmas up to `Report`).

`ReportsFaithful` proves `ReportsAreFaithful`. `RegistrationsKept` proves the action property
`RegistrationIsKept`: a command that writes what it read either read what the file still
holds, and then drops only what it named or found lost, or the file is no longer what it
read. `LifecycleTypeCorrect` is the type invariant.

### Only model-checked

* Liveness (`CommandsEnd`, `MirrorConverges`, `ReadIsAnswered`): out of the prover's reach.
* `StackWalksAgree`: it compares four functions defined by recursion over any metadata (the
  queue of `BFS`, the walks up and down, and the relation they are to respect) and the sort
  between them. Each would need an induction of its own, made by hand as for `Only`. It is
  checked for every metadata of four branches that have one parent each, as Graphite's refs do;
  of branches with two parents it is not claimed, and does not hold.
* `PartsTypeOK` as one formula: it is stated over the instance, where eleven parts stand side by
  side. Each of its ten conjuncts is proved of its own part: `EventsTypeOK`, `CommentsTypeOK`,
  `LiveTypeOK`, `TabsTypeOK`, `AdoptTypeOK` (`PartsProofs`), `RpcTypeOK`, `ClientTypeOK` (`RpcProofs`),
  `StackTypeOK`, `PrTypeOK` (`CacheProofs`), `LifecycleTypeOK` (`SliceProofs`).

## Not modelled

* The interface beyond what it shows of events: views, overlays, embedded
  terminals. Its state is that of widgets and of the library that draws them; the
  parts that matter to others (live-sync around swaps, focus, badges) are in
  `LiveSwap` and `ServerEvents`.
* `restack`: one `gt restack` per repository, whose conflicts are left to the user.
* Doctor's registry checks, radar, summary, share, status, CI and stack review
  commands: reads of git and of files, with no state of their own.
* The comment cache, a file that this program only reads; the install of hooks, an
  edit of one JSON file; the scan of the workspace's configuration.
* The journal written by two processes at once (whether the interface starts two is
  asked in `LiveSwap`), and the user at work in a primary
  while a command runs (`Racing`): the code has no answer to either, and a
  property would only say so.
* Graphite, GitHub, git, zmx and editors themselves: as this code uses them.

## Plan

1. *(done)* `SwapEngine` with its invariant and proofs.
2. *(done)* `ReviewConversation` with `ReviewLedger`, its invariant and proofs.
3. *(done)* `SessionTabs`, and focus requests in `ServerEvents`.
4. *(done)* `ReviewComments`, `SliceGrouping`, `SliceLifecycle`, `AdoptBranch`.
5. *(done)* `RpcServer`, `RpcClient`, `LiveSwap`, `StackCache`, `PullRequests`, `GraphiteStacks`.
6. *(done)* Proofs about the parts: caches, server and client, events, comments, the
   interface's swaps, tabs, adopt.
7. *(done)* The rest of the swap engine's invariants.
8. *(done)* `QuietMeansAnswered`, `ClosingAloneIsSafe`, `ReportsAreFaithful`, `RegistrationIsKept`, and
   the last three type invariants.
9. `SwapProcesses`: a terminal's commands beside the interface's, step by step; an
   abstract specification (primaries are swapped or not, work is conserved)
   implemented by `SwapEngine`.
10. Pieces of the interface: polling ticks, embedded terminals.
