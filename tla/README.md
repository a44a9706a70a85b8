# A verification development for patchsync

patchsync makes a receiver's directory equal to a sender's over one QUIC stream:
the receiver sends a snapshot (paths and chunk hashes), the sender diffs it
against its own and sends back a patch, the receiver applies it.  This directory
holds TLA+ modules translated from the Rust source, TLC configurations that
check them on small instances, and TLAPS proofs for every value of the
constants.  Source paths below are relative to the repository.

    tlc -config session.cfg MCSyncSession      one run (PROJECT.json lists all)
    tlapm SyncSessionProofs.tla                the proofs of one module

## 1. Inventory

| Component | Source | State | Operations |
|---|---|---|---|
| Walk | `src/dirwalker.rs` | a thread, visitors, a channel; reads the tree | `walkdir`, `FileVisitor::visit`, `FileVisitorBuilder::build` |
| Chunker | `src/chunker.rs` | none | `chunk`, `to_hashmap_kv` |
| Snapshot, diff, apply | `src/snapshot.rs` | the receiver's files | `diff`, `SnapshotEntry::apply` |
| Session | `src/lib.rs` | two loops, one stream, one connection | `RecvProtocol::accept`, `SendHandler::send_loop` |
| Framing | `src/sync.rs` | position in the stream | `send_msg`, `recv_msg`, `write_all`, `read_exact_tracked` |
| Event dispatcher | `src/event.rs` | queue, byte counter, thread | `emit`, `progress`, `spawn`, `shutdown`, `Drop` |
| Receive command | `cli/src/main.rs` | key file, router, verdict loop | `handle_recv` |
| Send command | `cli/src/main.rs` | signal queue, connection, `retried` | `handle_send`, `connect_with_retry`, `run_once` |
| Arguments, errors | `cli/src/init.rs`, `src/error.rs` | none | |

How they interact.  A debouncer turns changes of the sender's directory into
signals; the runner of the send command turns signals into runs, opens a stream
on its connection for each and calls `send_loop`.  The router of the receive
command calls `accept` for each connection, in a task of its own.  The two
exchange `RequestSnapshot`, `Snapshot`, `SendPatch`, `Ack` and `Error`, each
framed with its length.  Both walk their own tree; the sender's `diff` reads its
files a second time; the receiver's `apply` changes its tree entry by entry.
Every step is reported to a handler thread through the dispatcher, and the
receive command ends on what that handler hears: the `Finished` and `Error`
events, not the return of `accept`, stop the program.

What is hard here:

* the order of a patch is the order of a hash map, and entries about a
  directory and about what is in it do not commute;
* the sender's tree is read twice, and changes in between and during the walk;
* a patch is applied without a transaction: entries fail, the process dies;
* sessions over one receiver tree overlap, and nothing orders their steps;
* each program may close the connection under a message still in flight, and
  `accept` closes it after every session while the runner keeps it;
* a run is retried once, and signals that queue up are collapsed;
* the byte counter and the event queue are two channels with one wake-up rule.

What makes each part correct: a run that succeeds mirrors the sender; whatever
happens to a run, each path stays old or new, what both sides agree on is not
touched, and runs converge (tree, receive command); a walk lists a tree, of
what was there, all of what did not change (walk); success is reported on either
side only after the whole patch is applied, once, and both sides agree on it
(session); messages arrive whole, in order and once (framing); no change that
was noticed is forgotten, and exit without an error means that the directory
arrived (send command); nothing reported is lost, doubled or late (dispatcher).
The hazards, each at its line and with the properties that cover it, are in
`PROJECT.json`.

## 2. Modules

| Module | Models | Checked by | Proved in |
|---|---|---|---|
| `FileTree` | a tree, a walk of it in one step, the file-system calls of `apply` | through `TreeSync` | `TreeProofs` |
| `SnapshotDiff` | the body of `diff`'s loop, `apply`, and a death inside `apply` | through `TreeSync` | `TreeProofs` |
| `TreeSync` | runs over two trees | `MCTreeSync` | `TreeSyncProofs` |
| `Chunker` | chunks, instructions and their execution in bytes | through `DirWalk` | `DirWalkProofs` |
| `DirWalk` | the parallel walk of a tree that is edited | `MCDirWalk` | `DirWalkProofs` |
| `SyncContract` | what a session promises (abstract) | through `SyncSession` | |
| `SyncSession` | `accept` and `send_loop` over a stream | `MCSyncSession` | `SyncSessionProofs` |
| `MessageStream` | the stream of messages a session uses (abstract) | through `Framing` | |
| `Framing` | one direction of the stream, byte by byte | `MCFraming` | `FramingProofs` |
| `EventLog` | what a handler may rely on (abstract) | through `EventDispatcher` | |
| `EventDispatcher` | sinks, counter, thread, shutdown | `MCEventDispatcher` | `EventDispatcherProofs` |
| `RunTrigger` | what the send command promises about changes (abstract) | through `SendRunner` | |
| `SendRunner` | signals, runs, connections, retries | `MCSendRunner` | `SendRunnerProofs` |
| `ReceiveCommand` | key file, router, overlapping sessions | `MCReceiveCommand` | `ReceiveCommandProofs` |

A definition whose comment begins "As X," is a plausible bug in the code X
translates.  No specification uses it: it shows that a property notices.

### FileTree, SnapshotDiff, TreeSync

A tree is a function from paths to nodes (absent, directory, file); nesting is a
relation `Below` on opaque paths; a file's content is its sequence of chunks, and
a chunk is its own hash.  So `Copy` names the place of a chunk in the old file
and `Literal` carries data, and a file that changed after the walk is cut by the
number of chunks of the walk, as the code cuts it by their offsets.  The calls
(`create_dir_all`, `write`, `remove_dir_all`, `remove_file`, `rename`) follow
POSIX: `NotFound` is tolerated on delete, `ENOTDIR` is not, and nothing can be
written at the root itself because `root.join("")` ends in a slash.

`TreeSync` strings them into runs: `SnapshotReceiver`, `SnapshotSender`,
`DiffNewKey(k)` for the keys of the new snapshot in any order, `DiffOldKey(k)`
for the deletions, `SendPatch`, `ApplyItem`.  Each can fail where the code
returns an error.  Around a run the environment edits the sender's tree
(`SenderEdit`), loses the run (`RunLost`) or kills the receiver inside an entry
(`ReceiverCrash`, whose outcomes `Interrupted` lists: `write` truncates and
fills in place, `remove_dir_all` removes bottom-up, an update only renames a
finished temporary file).  The temporary file itself, which a crash in an update
leaves beside the old one under a random hidden name, is no path of the model.
A crash may leave any top part of the missing parents; the instance of the run
has one level of them, the proofs any number.  `quiet` remembers that the sender was not edited since
its walk.

Assumptions: only patchsync writes to the receiver's tree, and one run is under
way at a time (`ReceiveCommand` drops that); a walk is one step (`DirWalk` says
what holds when it is not); symbolic links, permissions and times are not in the
model (the renamed temporary file has permissions of its own, so an update does
not keep those of the file).

### Chunker, DirWalk

`Chunker` is `chunk`, the update arm of `diff` and the loop of `apply` over the
instructions, with the offsets and lengths of the code; a range that is not in the bytes is a
`Panic` (`Slice`).  FastCDC is external: a
cut falls where the content decides, not before `MinSize` and not after
`MaxSize`.  `DirWalk` is `walkdir`: the thread with its builder, the visitors it
builds, each with a clone of the channel's sender, and the caller that collects
until the last clone is dropped.  The traversal itself is the `ignore` crate's:
a visitor takes a path that was found, and reads the names of a directory one by
one before it takes the next.  A name has the type it had when it was read, so
`VisitDir` and `VisitFile` may meet something else.  `was` is a history variable.

A file is chunked in one step.  An edit in the middle of that (the file is
mapped) lists a mixture of two contents, which the next run replaces as it
replaces a file that was edited between the walk and the second read.

### SyncSession

One action per branch of the two loops.  A patch is its number of entries.  The
connection is external: in order while open; after it is closed whatever is in
a channel may be read or lost, and a write may fail or vanish.  `accept` owns its
connection and drops it on return (`RouterDropsConnection`); a receive command
that is not in `keepOpen` shuts the router down on the first verdict
(`ReceiverExits`); a send command that is not closes its endpoint after its run
(`SenderExits`); the `?` of `finish()` turns a success into an error when the
connection is already closed (`SFinishes`); the environment loses the connection or kills either side.
`fault` remembers the last kind.  Dispatcher events other than the two verdicts
are left to `EventDispatcher`, and the receiver's verdict takes effect when it is
emitted.

`ImplementsContract` maps a session to `SyncContract`: one plan, entries applied
one by one, one verdict, success never before the last entry.

### Framing

The writer has the bytes of a header and of a payload still to be written, the
reader a buffer and the number of bytes it misses; `Write(n)` and `Read(n)` move
any number of bytes through a stream of bounded capacity.  `ToBytes` cuts a
length off at `Base ^ HeaderSize`, as the cast to `u32` does.  postcard is a set
of encodings none of which begins another, and ignores what follows a value: so
the rest of a message that was too long is read as further messages, and may
even be well-formed ones.  `ImplementsStream` shows that none is delivered that
was not sent: a message cut short does not decode, and decoding fails for good.

### EventDispatcher

`progress` is two steps, `fetch_add` and the wake-up if the old value was zero;
`flush` is two, `swap` and the call of the handler; a message is taken, flushed
for, then handled.  All accesses are atomic read-modify-writes of one location,
so `Relaxed` leaves them totally ordered.  In a session one task uses all clones
of the sink; the model allows any number of tasks, as the type does.  `emitted`,
`handled`, `reported` and `told` are history variables.  `ImplementsLog` maps to
`EventLog`: events in order, bytes before the events they precede, nothing left
when shutdown returned.

### SendRunner

The directory is a version number, and a run sends the version it walked; what
its messages do is `SyncSession`, what it does to files `TreeSync`.  The module
has both ways to connect, the signals, the debouncer with its errors,
`close_reason` (the close of a connection is `closed` before it is `seen`), the
single retry, Ctrl-C, the debouncer that cannot be made (`CannotWatch`), and of
the receiver what the runner can tell: `accept` serves one stream and drops the
connection, and ends the program with it unless it was told to stay.  The
`accept`s of lost connections are counted in `lost`, by the version each still
applies a patch for: the loop over a patch has no `await`, so one of them goes on
applying beside the session the sender retries with, until its last entry, one
that fails or the death of the program.  `base` is the version the receiver's
snapshot shows and `alone` says that no lost session was applying when it was
taken; without `alone` the outcome of a session may be its version, a mixture
or what was there.  So `OkMeansReceived` and the second half of
`NothingForgotten` are about runs that began `alone`: what happens to the others
is the subject of `ReceiveCommand`, whose `OkMeansMirror` fails.

A new stream on a connection whose one stream was served opens without an answer
and fails on its first read; that failure is what the retry is for.  Delays between attempts and the progress bar are left out, and a
watching sender's attempts are not counted, as nothing depends on their number.

`ImplementsTrigger` maps it to `RunTrigger`: every change that was told of is
followed by the start of a run that comes after it.

### ReceiveCommand

The key file (`create` and `write` are two steps), connections that come to
nothing before there is a snapshot (`FailsEarly`), then sessions that overlap:
each takes its snapshot, receives a patch in any order its hash maps allow, and
applies it entry by entry; a write and an update are two steps each, between
which another session may remove or replace the file or directory (`adrift`, and
POSIX semantics of what is open).  The loop over the entries has no `await`, so
neither the end of the program's loop nor a lost connection stops it; a crash
may come while the last patches are applied after the program's loop has ended.
`PatchedEnds` says so: a session leaves its patch only after the last entry, at
one that fails (`Blocked`) or in a crash, and it gets there.  `alone`
remembers that no other session was applying since the snapshot.  The walk,
`remove_dir_all` and `rename` are one step each, so a session whose snapshot
finds another one applying counts as not alone.  A sender whose directory is gone
sends no patch (`walkdir` refuses it); the receiver then sees its stream end.

## 3. Runs

| Run | Bounds | Shows |
|---|---|---|
| `tree_sync` | 6 paths, all trees over 3 contents or a missing root, 1 edit, 1 loss | `TypeOK`, `Mirror`, `EachPathOldOrNew`, `UnchangedUntouched`, `HiddenKept`, `Converges` |
| `session` | patches of up to 3 entries, each program stays or exits, faults | `TypeOK`, `SenderOk`, `OneInFlight`, `OneVerdict`, `Agreement`, `ImplementsContract`, `Terminates` |
| `framing` | 3 messages of 1 to 5 bytes, lengths below 4 fit, 3 bytes in the stream | `TypeOK`, `GarbledOnlyByLength`, `ImplementsStream`, `Arrives` |
| `dispatcher` | 2 sinks, 2 calls each of 1 or 2 bytes | `TypeOK`, `Conservation`, `NoLostWakeup`, `ImplementsLog`, `ProgressArrives`, `ShutdownReturns` |
| `walk` | 6 paths, 3 levels, 2 visitors, 2 edits, 4 contents | `TypeOK`, `ListIsTree`, `ListedWas`, `NothingMissed`, `UpdateRestores`, `Returns` |
| `send_runner` | 3 edits, 2 attempts, 1 trouble, both ways to start either program | `TypeOK`, `NothingForgotten`, `OkMeansReceived`, `OneShotEnds`, `ChangesArrive`, `ImplementsTrigger` |
| `receive` | 2 sessions, 4 paths, 2 sender and 3 receiver trees, 2 starts | `TypeOK`, `MirrorAlone`, `SeenEqualKept`, `TicketKept`, `PatchedEnds` |

Why the bounds are enough.  In `tree_sync` the paths are a directory, a file in
it, a hidden file in it, a hidden file and a file at the top: every arm of
`diff` and every nesting `apply` distinguishes occurs, type changes in both
directions included.  The contents share a chunk in another place and in another
number, and one is empty.  One edit and one loss already fall between any two
steps.  In a session a patch of three entries has a first, a middle and a last
one; in the dispatcher two calls meet every step of the thread.  In `framing`
a message that fits may come before and after one that does not, the stream
holds less than a message with its header, and the rest of a long one contains
another message.  In `walk` a directory may vanish while it is read with another
directory in it yet to be read, by the other visitor.  In `send_runner` three
edits are one before the first run, one during it and one during the run that
follows, and the trouble may hit any of them.  In `receive` the trees make
updates, creations, deletions and type changes of one path meet each other.

`Unreadable` is empty in `tree_sync` (its runs are about 160,000 states without
it); with files that may not open, `UnchangedUntouched` is the theorem's.

Five runs end in a violation, of something a comment, a test or a help text
says; `PROJECT.json` quotes each line.

| Run | What happens |
|---|---|
| `tree_sync_file_for_dir` | the receiver has a non-empty directory where the sender has a file: after the directory is replaced, deleting the files that were in it fails with `ENOTDIR` |
| `tree_sync_unreadable` | a file the sender's walk cannot open is deleted on the receiver, and the run succeeds |
| `session_receiver_exits` | the receiving program exits on `Finished` before the sender has the `Ack` |
| `send_runner_first` | a sender with `--keep-open` transfers nothing until a file changes |
| `receive_overlap` | two sessions of equal senders overlap; the second copies offsets of the file it walked from the file the first has replaced, and both report success |

The first heals: after the failed run the next one starts from what it left,
which `Converges` covers.  `receive_overlap` heals too, with the next session
that is alone (`MirrorAlone`).

Three more cases of the same invariants, without a run of their own:
`QuietRunSucceeds` also fails when a file became a directory and the hash map
puts the creation of a file in it first, and for a root that is a file; and a
sender with nothing to send closes its endpoint while its `Ack` may still be
under way, so that a receiver reports an error for a run the sender calls
finished (`Agreement` with one-shot senders).

### Fairness

* `TreeSync`: `WF(Run)`, a run that started goes on and another is started after
  it.  The programs do not promise that: with `--keep-open` only a change of the
  sender starts a run, and a run that failed is not repeated, so `Converges` is
  about a user (or a script) who runs the program again.  `SF(FirstKey(k))`: every hash map is seeded anew, so over
  infinitely many runs every key comes first in some.  Without it a file that
  became a directory may fail for ever.  Losses are bounded, edits too.
* `SyncSession`: `WF(Sender)`, `WF(Receiver)`: tokio polls a task that can go on.
  Nothing is assumed of the programs; that a peer's death is noticed
  (`open` becomes false with the kill) stands for QUIC's idle timeout.
* `Framing`: `WF(Reader)` and `WF(Write(n))`: a task whose stream takes or gives
  bytes is polled.  Nobody has to send or to drop.
* `EventDispatcher`: weak fairness of the thread, of the owner and of the second
  half of `progress`.  Sinks may be idle for ever.
* `DirWalk`: `WF(Walking)`: the threads of a walk are scheduled.  Edits are
  bounded; a user who makes directories for ever can keep a walk going.
* `SendRunner`: weak fairness of both programs' tasks, of the debouncer, of the
  notice of a close (QUIC's idle timeout), and of the restart of the receiver of
  a watching sender, without which it would rightly try for ever.  Edits and
  troubles are bounded, nothing else is promised by the environment.
* `ReceiveCommand`: `WF(ApplySteps(s))`: a task that applies a patch has no
  suspension point.  Senders may be silent for ever.

## 4. Proofs

Every safety property that a passing run checks is a theorem about the
specification, for every value of the constants; the hypotheses two of the
components need are named below.

`SyncSessionProofs`, for patches of any length and every combination of the
programs.  `Inv` says what each message under way means for both sides: a
`Request` finds a sender with no plan, a `Patch(n)` a receiver that applied
nothing and a sender that waits, an `Ack` from the receiver a completed patch.
`SenderOk` alone is not inductive, since reading an `Ack` says nothing without that.
Proved: `TypeOK`, `SenderOk`, `OneInFlight`, `OneVerdict`, and that the session
implements `SyncContract` (initial states and every step).  `Agreement` needs a
second invariant, `AgreeInv`, about the sessions nobody disturbs: the connection
is open until `accept` returned, the places of the two loops determine each
other, and a message under way finds its reader waiting for it.

`EventDispatcherProofs`, for any set of sinks and any number of calls.  The
invariant adds to the checked ones that a queued event's mark is at most what
was reported, that the thread's event is covered by what was told or is about to
be, and that a shutdown message means the sinks are gone.  Proved: `TypeOK`,
`Conservation`, `NoLostWakeup`, `ProgressFirst`, that everything is told when
shutdown returned, and that the dispatcher implements `EventLog`.  For the last,
`OrderInv` numbers the events: what was handled is the beginning of what was
emitted, the event in the thread's hands is the next one, and those after it are
in the queue, each once and in order; `LastInv` says that nothing is behind a
shutdown message, so no event is left when the thread exits.

`TreeProofs` holds the lemmas about trees and entries that the next two share.
What each call of `apply` does to a path that is, is not, lies in or lies above
the entry's path; that a tree stays a tree; that an update computed by the diff
and applied to the file it was computed from gives the new file
(`UpdateRestoresFile`); and what one entry does to a patch under way.
`Underway(o, n, es, t)` says that `es` is what is left of a patch from `o` to `n`
and `t` the tree it is applied to.  Of it, three things survive every entry:
`Waits` (what stands in the way of a directory is still a file), `Undone` (a file
both sides have is untouched until its update) and `Reached` (a path without an
entry left is as it should be).

`TreeSyncProofs`, for any trees, nesting, contents and any number of edits,
losses and crashes.  `Inv` says that both trees and both snapshots are
well-formed, that every entry of the patch is about a path the snapshots
disagree on, and that what they agree on is still there.  An entry then cannot
touch such a path: not as its own path, not below it (a path above one that is
listed is a directory in both snapshots, so no entry is about it), and not
above it except as the directory it already is.  Proved from it: well-formedness,
`Untouched` and `UnchangedUntouched`.  `TypeInv` and `ShapeInv` (entries are
ordered and about visible paths; the keys of a loop have their entries or wait
for them) give `TypeOK` and `HiddenKept`.  `Seen` and `Brought` say what a run
that nobody edits has seen and done so far, and give the last two:
`EachPathOldOrNew` when every path can be opened (`Unreadable = {}`), and `Mirror`
when in addition the receiver's root is not a file.  Neither hypothesis can go:
the run `tree_sync_unreadable` refutes the first without it, and deleting a root
that is a file does nothing, so that an empty sender directory leaves it there.

`ReceiveCommandProofs`, for any number of sessions, trees and starts.  The
invariant says that every entry of every patch is about a path on which that
session's snapshot and its sender disagree, that a session with a file open for
writing has it in the tree and one about to rename has its directory there, and
that the tree is well-formed.  Proved: `TypeOK`, the directory stays a tree
(`TreeStaysTree`), `SeenEqualKept`, `TicketKept`, `PatchNotCut` (the safety half of
`PatchedEnds`), and `MirrorAlone` when the
receiver's root is not a file.  The invariant of the last, `AloneInv`, is about
the sessions that are alone: nobody else is in a patch, and the rest of the
patch fits the tree (`Fit`, which is `Underway` with the three facts above; in the
middle of a write it fits the tree before the file was made, so the invariant
says that there is such a tree).  `PatchesFit` starts it: every order
the two hash maps can give the entries has a deletion before the creation it
makes room for, and every key with something to be done has its entry, because
an injection between finite sets of one size is onto.

`SendRunnerProofs`, for any bounds.  Besides the types the invariant orders
`told`, `started`, `walked` and `version` by where the runner is (a queued signal
may be the only witness of `told > started`, and only while one is queued), and
says what the receiver holds when its answer is under way.  Proved: `TypeOK`,
`NothingForgotten`, `OkMeansReceived`, and that every step is a step of
`RunTrigger`.  For the two in the middle the invariant has `alone =>
LostApplying = {}`: a session becomes one of a lost connection's only when its
sender connects again, and the session that follows looks for it when it begins.

`DirWalkProofs`, for any tree, visitors and edits.  What was found, is being read
or has been listed lies in directories that are listed; two directories around
one path are nested, so the last one listed is the parent.  Proved: `TypeOK`,
`ListIsTree`, and that nothing is listed twice.  `ListedWas` needs `WasInv`: a
path that was found has been of the type it was found with.  `NothingMissed` needs
`CompleteInv`: once the visitors are built, every path nobody touches is listed,
or it or a directory above it is still to be read; and the walk returns only when
the last sender of the channel is gone (`ClosingInv`), when nothing is to be read.
`UpdateRestores` is about `Chunker`: cutting a file at its cut points
and joining the pieces gives the file, whatever the chunks are, and no range
that is cut out of the file as it is read again is outside of it.

`FramingProofs`, for bytes of any base, headers and pipes of any size and any
messages of which none is a prefix of another.  `Inv` follows the bytes: those
that are buffered, in the pipe and still to be written are the frames of the
messages not yet returned, less what was read of the first header.  The
suffixes of that byte string are named by a function (`Framed`), since the prover
can reason about a function with a defining equation and not about a recursive
operator.  Proved: a header of `n` reads back as `n % Limit` (`RoundTrip`), `TypeOK`,
`GarbledOnlyByLength`, and that the stream implements `MessageStream`.  The
weights of the header's bytes are a recursive function (`Weight`) for the same
reason: the provers know nothing of exponentiation.

What a recursive definition computes for every input (`FlattenSeq`, the header,
the chunks) is proved by the least-number principle: the set of the lengths at
which a claim fails, were it not empty, would have a least element.  The library's
induction theorems take an operator as a parameter and cannot be used.

`ProgressFirst` is proved and not among the runs' properties: `ImplementsLog`
contains it.

The constants' assumptions (`PathAssumption`, `TreeAssumption`,
`SessionAssumption`, `DispatcherAssumption`, `RunnerAssumption`,
`ReceiveAssumption`, `WalkAssumption`, `NestingAssumption`, `NoDirAssumption`,
`ChunkAssumption`, `FramingAssumption`) are evaluated by TLC in every run.  Two of
them are about a walk alone: a path lies in finitely many directories, and the
value a visitor holds when it reads no directory is not a path.

Model-checked only: liveness (`Converges`, `Terminates`, `Arrives`,
`ProgressArrives`, `ShutdownReturns`, `Returns`, `OneShotEnds`, `ChangesArrive`,
the second half of `PatchedEnds` and the liveness half of `ImplementsTrigger`), which is out of the
prover's reach.

## 5. Not modelled, and the plan

Not modelled: FastCDC, blake3, postcard, iroh, notify and ignore themselves (each
is external, modelled from its use), logging, progress bars, argument parsing;
`.ignore` files, which the walk respects on the side that has them; links,
permissions and times; a mapped file that is truncated while it is read, which
ends the process (`Crash` stands for it); paths that are not UTF-8.

Left, in order:

1. A walk of `ReceiveCommand` in steps (`DirWalk` in place of `Walk`), which
   would let a session's snapshot see another one half way.
2. Several connections of one `SendRunner` over `ReceiveCommand`'s tree: which
   mixtures a reconnecting sender and its own lost session can leave.
