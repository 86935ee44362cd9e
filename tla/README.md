# acr_nav and its runtime in TLA+

This repository is the OpenACR tree (`amc`, `acr`, `abt`, ... and their runtime
`algo_lib` and `lib_*`) with one program of its own, **acr_nav**: an interactive
terminal browser of the schema database, which can also be driven by a line
protocol (headless mode) and can inspect a running process over a socket
(connect mode).  The rest is the base framework and code that `amc` generates.

The specifications are about acr_nav, with the tables in `data/acr_navdb` that
drive it, and about those parts of the base framework that have a state machine
of their own: the shared-memory transport and the message files of `lib_ams`,
and the two runners of dependent commands, abt's and `lib_exec`'s.

## 1. Inventory

| component | code | state | operations | status |
|---|---|---|---|---|
| left panel and filter | `acr_nav/nav.cpp`, `util.cpp` | `left_item`, cursor and scroll, `collapsed`, `auto_expanded`, `n_match`, `filter`, `filtertarget`, what Escape restores | build the list, expand/collapse, reveal a ctype, the seven filter actions | modelled |
| right panel, views, overlays | `acr_nav/nav.cpp`, `content.cpp`, `util.cpp`, `main.cpp` | view mode, cursor and scroll, overlay stack, startup help, `p_pre_nsdep_viewmode`, `p_nsdep_ns`, `p_detail_field`, one content cache per view | toggle and cycle views, push and pop overlays, load content on demand, `AdjustScroll`, `PostAction` | modelled |
| navigation stack | `acr_nav/nav.cpp` | `navstack`, `preview_nav_pending` | `PushNaventry`, `navaction_follow_ref` (five kinds), `navaction_go_back` | modelled |
| headless protocol | `acr_nav/main.cpp` | none of its own | `SendKey`, `SetTermSize`, `Navigate`, `SetFilter`, `SetView`, `GoBack`; `Screenshot`, `Summary` and `RequestStateDump` only print | modelled |
| key decoder | `acr_nav/main.cpp` | `acr_nav_keybuf`, escape timer, SIGWINCH flag, errno | `DecodeKeyByte` under epoll; `ReadKeyName` with blocking reads | modelled |
| live mode and IPC | `acr_nav/main.cpp`, `ipc.cpp`, `nav.cpp` | `live_poll_pending`, staging buffer, `live_data`, pool rows, socket | poll, reassemble, rebuild the panel, disconnect; the server's answer | modelled |
| content | `acr_nav/content.cpp`, `graph.cpp` | the lines of each view | build the lines of a view | partly: lines are data |
| shared memory | `lib_ams/shm.cpp`, `shmember.cpp`, `ams_sendtest.cpp` | region, write limit, offsets of members, heartbeats | begin and end a write, peek, handle, skip, heartbeat, wait for budget | partly |
| message files | `lib_ams/file.cpp` | file, write buffer, block header, `fail`; reader's block, buffer, offsets, `eof` | append, flush, close, reopen after a crash; scan and read by number | modelled |
| abt command runner | `abt/build.cpp` | heap, `nprereq`, `fail_prereq`, `status`, `ind_running`, failures, signal | start, settle, wait, leave; exit code | modelled |
| lib_exec | `lib/lib_exec.cpp` | the same tables, `zd_started` | `SyscmdExecute` and its step, ordered output | modelled |
| rendering | `acr_nav/render.cpp` | screen buffer | draw | not modelled: output only |
| the rest of the framework, generated code, data | `cpp/*`, `cpp/gen`, `data`, `extern` | | | not modelled, section 6 |

`PROJECT.json` lists every component with its sources and the reason for its
status, and every hazard at its line with the properties aimed at it.

### acr_nav

The program is single threaded.  Its state is one global record,
`acr_nav::_db`; an algo_lib loop calls back on key bytes, on SIGWINCH, on
timers and on sockets, and each key or command is handled to completion before
the next.

**How they interact.**  A key byte is decoded to a key name, looked up in the
`keybind` table of the current mode, and gives a `navaction`.  `ProcessKey` drops
the startup help or refuses the action if an overlay blocks it, takes a snapshot
of the record, calls the handler, then `DismissStartupHelp` and `PostAction`.
A handler of the left panel ends by rebuilding the list (`BuildLeftItems`); a
followed reference pushes a navstack entry and then drives the left panel
(`RevealCtype`).  `PostAction` compares the record with the snapshot: it switches
to or from the namespace views (`PopOverlayOnCtypeChange`), empties the overlay
stack if the cursor left the ctype, clears caches, decides whether the right
panel starts again at the top, and clamps both cursors.  A headless command
calls the same operations, with a prologue and an order of its own.

**What is hard.**

* Nothing in the types prevents a namespace view on a ctype, an overlay over an
  empty stack, a list that does not show what the filter says, a cursor past the
  end of the list, or a filter line that takes the keyboard while an overlay is
  up.  Each is prevented by an order of calls.
* Several fields are *saved for later*: the view under an overlay, the view a
  namespace view replaced, the row and filter Escape restores, the place a
  navstack entry returns to, a pending preview line.  Between the save and the
  use, any number of other handlers may run.
* `PostAction` guesses what the handler did from the lengths of two stacks.
* The terminal height may change between any two keys.
* Bytes, timers and signals reach two hand-written key decoders in any order.
* In connect mode responses arrive in pieces, the other process may die at any
  byte, and the list under the cursor is rebuilt ten times a second.

**What makes each part correct.**  Left panel: the list is always what filter,
target and collapse flags call for; the filter's automatic expansions can be
undone without touching what the user did; Escape returns to where `/` was
pressed; accepting shows every match.  Right panel: the view fits the row under
the cursor, shows that row's content, and is never an overlay nobody can close;
both cursors are on the screen.  Navigation stack: it is a browsing history.
Headless protocol: a command has the same effect in whatever mode it arrives.
Key decoder: the keys handled are the keys typed.  Live mode: what is shown is
one whole response, never older for ever than the server.

### lib_ams

A *shm* is a ring in shared memory with one writer and any number of readers in
other processes, without a lock.  A reader finds the next message by polling its
length field; the writer zeroes the next length before it publishes one.  The
writer must not come round onto what a reader still needs; it learns how far the
readers are from heartbeats they write to rings of their own, which may be full.
`ams_sendtest` is the program that uses it: one parent, many children.  What is
hard: the order of stores, limits computed from stale offsets, lost heartbeats,
readers that die, and a writer that must wait for heartbeats from inside a call.
Correct means: a broadcast, in order, nothing torn, nobody waiting for ever.

A *message file* holds compressed blocks of numbered messages.  The writer may
fail or die in the middle of a block and be started again; readers look up a
message by its number, also while the file grows.  Correct means: numbers are
given once, and a number leads to its message or to none.

### The command runners

abt and the test drivers (through `lib_exec`, "a copy of the code in abt.cpp")
run a graph of shell commands, some at a time.  What is hard: completion in any
order, failures that spread to what depends on them and no further, a signal at
any moment, loops, limits on processes and open files.  Correct means: nothing
early, nothing twice, nothing forgotten, and a result of 0 only when all is well.

## 2. Modules

| module | what it is | from |
|---|---|---|
| `NavTables` | acr_nav's dispatch tables, and the schema as constants with its assumptions | `data/acr_navdb/*.ssim` |
| `LeftPanel` | list, selection, filter, collapse flags | `nav.cpp`, `util.cpp` |
| `RightPanel` | overlays, content caches, scrolling, `PopOverlayOnCtypeChange`, `PostAction` | `nav.cpp`, `content.cpp`, `util.cpp`, `main.cpp` |
| `AcrNav` | the state machine: one action per navaction and per headless command | `nav.cpp`, `main.cpp` |
| `NavHistory` | abstract specification: a browsing history (`Browse`, `Follow`, `Back`) | |
| `FilterSession` | `AcrNav` with a history variable, the place `/` was pressed at | |
| `KeyDecoder` | both key decoders, with the terminal and the user | `main.cpp` |
| `LiveView` | connect mode: clients, sockets and the server they inspect | `main.cpp`, `ipc.cpp`, `nav.cpp` |
| `ShmRing` | one ring, its writer, its readers and their heartbeats | `shm.cpp`, `shmember.cpp`, `ams_sendtest.cpp` |
| `Broadcast` | abstract specification of a ring | |
| `MsgFile` | a message file, its writer and its readers | `lib_ams/file.cpp` |
| `CommandDag` | commands, heap and prerequisites, shared by the two runners | `build.cpp`, `lib_exec.cpp` |
| `DagRun` | abstract specification of a runner of dependent commands | |
| `AbtBuild`, `LibExec` | the two runners | `build.cpp`; `lib_exec.cpp` |
| `AcrNavProps`, `KeyProps`, `LiveProps`, `ShmProps`, `MsgFileProps`, `AbtProps`, `LibExecProps` | the properties, and the refinement mappings | |
| `MC*` | the instances TLC checks; that of `MsgFileProps` is all in its cfg | |
| `AcrNavProofs`, `KeyProofs`, `LiveProofs`, `ShmProofs`, `MsgFileProofs`, `DagProofs`, `AbtProofs`, `LibExecProofs` | theorems | |

**acr_nav's state and actions.**  The variable `db` is `acr_nav::_db`.  An operator of
`LeftPanel` or `RightPanel` is a C++ function of the same or nearly the same
name; it takes the record and returns the record after the call, so a handler is
the composition of its calls in the order of the code and an action is a whole
handler, `PostAction` included.  `Press(na)` is what `ProcessKey` checks before
it calls a handler, `Finish(na, d)` what it does after, `d` being the record the
handler left.

What is abstracted:

* A key is the navaction it is bound to in the current mode; `Keybind` keeps
  which actions have a key in which mode.
* The schema is any two finite sets of namespaces and ctypes with an order of
  the rows.  The order never changes, so the array of rows is `ListOf` of its
  set.  `n_match` is the set of namespaces whose count is positive.
* The match of a ctype against a filter is an operator constant.
* The content of a view is a table: for each row, the links on each of its
  lines.  `shown[v]` is the row whose lines view `v` holds.  The key a view is
  cached under is a name; the namespace whose name is empty has the key of an
  empty view, which `CachedKey` models.
* `sel_nav_col`, the column in the right panel that is highlighted, is left out:
  Enter may follow any link of the line, and left-arrow may be absorbed.
* Fields that differ only in layout (widths, colours, status texts) are left
  out.

**Key decoder.**  A byte is a name; a key is the sequence of bytes it sends.
`Type` puts a key on the line, `Deliver` brings its bytes one by one, so that a
read finds any part of it.  `TuiStdinReadCallback` and the timers are one action
each, as in the event loop; the blocking decoder has one action per system call,
because a signal may come between any two.  The timer fires only when nothing is
on its way (`Caught`): the bytes of one key come less than 50 ms apart.  A user
waits for an Escape to take effect before the next key (`Unhurried`): without
that promise Escape and `[` typed at once are the start of an arrow key, for any
decoder.  `win.stale` says whether the terminal has changed its size since it
was last asked.

**Live view.**  A response is cut into chunks of which the last is the sentinel,
the socket holds `Room` of them, and the server writes any part that fits.
`LiveRead` and `LiveReadCallback` are two actions, because the server may write
while the client reads; what a response says is the version of the server's
pools.  `Stop` is a client that is stopped (SIGSTOP, a terminal that does not
drain).

**Ring.**  Offsets and lengths are in cache lines of 64 bytes, to which
`AddOffset` rounds.  A cell has an owner and a length; a write takes three
actions, the payload and header, the next length, and, after the fence, the
length that publishes; the reader's peek, handler and skip are three more.  The
control rings are FIFOs with room for `CtlRoom` heartbeats, which is what a ring
promises (`Broadcast`) and what a full ring does (the heartbeat is dropped).
`CtlRoom` below what a control ring really holds only drops more.

**Message file.**  A file is a sequence of cells, block headers and messages;
writes are atomic, or leave what `Torn` says.  `Scan` reads a header in two
parts, the 8 bytes of its `MsgHeader` and the 16 after them.  A header that is
torn within one of them is the cell "half": at the end of the file it is a short
read, and fails.  Torn right between the two it is the cell "bare": at the end of
the file the second `Read` gets nothing, which is the end of the file and no
failure, so that `OpenAppend` takes the file for sound and appends.  A torn
header with bytes behind it is completed from them and read as one header
(`Mistaken`), with a number that is its own or has the type and length of the next
header in its upper half: either is past the numbers of the sound part in files
of fewer than 2^16 messages (`Misnumbers`).  That the bytes of a payload, read as
a header, do no worse is assumed.  `OpenFile` may fail for the writer, for
`OpenAppend`'s scan and for the reader; the field `fail` of a reader stands for
`~OkQ(rf)`, no file or a failure.  A scan takes one block at a time, so that the
writer may append between two.

**Commands.**  A command is its number; statuses are `Ok` and `Failed`.
`CommandDag` holds what both runners do to the tables, and how the heap is
ordered; `AbtBuild` and `LibExec` add the loops around it.  The kernel ends
processes (`ProcessExits`) at any time.

Some definitions are marked *Slip*: a wrong variant of the operation that
follows it.  They are never used by the specification; `PROJECT.json` puts them
in the place of the operation to show that the property would notice.

## 3. Properties and runs

| run | instance | properties |
|---|---|---|
| `browse` | down, right panel, Enter, back by key and by command, the preview view, and a filter that matches | `TypeOK`; `ContextView`: a namespace view exactly on a header; `HistoryKept`: refines `NavHistory` |
| `overlays` | help, detail, Escape, view keys, movement, Enter, quit; no back | `DetailOfSelection`; `ContentCurrent`: a view shows the selected row; `DismissReturns`: an overlay that is closed gives back view and line |
| `filter` | the filter line, collapsing, cursor, Enter, `SetView` | `AutoExpandedOpen`; `AcceptShowsMatches`; `CancelReturns` |
| `commands` | the headless commands except `GoBack`, and resizes, with the filter line, paging, the right panel and the static toggle between them | `OverlayReturns`: an overlay can be dismissed; `StartupHelpFirst`, `LeftFresh`, `FilterModeAlone`, `SelectionInView` |
| `keys` | up to 3 of 7 keys, both decoders, hangup, resize | `DecodedIsTyped`; `EveryKeyHandled`, `HangupStops` (liveness) |
| `live` | one client, three pools, two versions, two chunks and the sentinel, a socket of two | `BackPressure`; `DataWhole`; `CursorFollowsPool`; `ChangesShown`, `DisconnectNoticed` (liveness) |
| `shm` | two readers of which one may die, ring of 6 lines, messages of 1 and 2, 4 messages, control rings with room for one heartbeat | `NoOverwrite`; `BroadcastSpec`: refines `Broadcast`; `EveryMessageArrives`, `SenderResumes` (liveness) |
| `msgfile` | 3 messages, the file opened 3 times, buffer of 2, headers and payloads torn | `NumberedOnce`; `ReadsBySeqno`; `CloseTells`; `BrokenIsLeft`; `FlushedInTheEnd` (liveness) |
| `build` | graphs of 4 commands, one of them perhaps empty, 1 or 2 at a time, `-maxerr` 1 or 2 | `ZeroMeansBuilt`; `LoopReported`; `GivenUpForCause`; `DagSpec`: refines `DagRun`; `BuildEnds` (liveness) |
| `exec` | four graphs of 7 commands, 1 or 2 at a time, both orders of completion | `OpenFilesBounded`; `ZeroMeansAllOk`; `ShownInOrder`; `ExecReturns` (liveness) |
| `blocked_writer`, `read_past_end` | refuted, section 4 | `BlockedWriterResumes`; `ReadsBySeqno` |

**Bounds of the acr_nav runs.**  Each takes the inputs of one concern, all of
their interleavings, without a bound on their number.  The schema has two namespaces and two or three ctypes: a reference
to oneself, references both ways across namespaces, a ctype with no field, one
with no ssimfile.  Two namespaces are needed for a jump to expand a collapsed
one; a third would only repeat.  `MaxNav` is 2 in
`browse` (an entry below the one that is popped), 1 in `overlays`, 0 elsewhere:
`Navigate` in `commands` starts from namespaces, where it records nothing, and a
reference that records the place it leaves is followed in `browse` and `overlays`;
`MaxFilter` is one character, since what a filter matches depends on it only as
a whole: the empty filter, one that matches in two namespaces, and one that
matches nothing as a name and something as a field all occur; `SetFilter`, in
`commands`, comes with a blank filter and with one that matches fields.  `MaxOverlay`
bounds only `SetView help`, which pushes at every call; keys cannot nest more
than two overlays, and no bound is set on them.  The terminal has 6 lines and
may shrink to 4, which leaves 3 and 1 data rows for lists of up to 4.  Deadlock
is checked in these runs: after `quit` the program stutters in `Exited`.  The
other runs say `CHECK_DEADLOCK FALSE`: their systems come to rest (all messages
sent, the program stopped, the build done), and what must not rest is stated as
liveness.

**Bounds of the others.**  `keys`: three keys are enough for a key, the one that
could be mistaken for its rest, and one that shows what was left behind; `[` and
`A` are typed as keys too.  `live`: two versions show a change that falls
anywhere in a poll; two chunks and room for two make the server wait in the
middle of a response.  `shm`: four messages go round the ring of 6 lines more
than once, the limit stops the writer twice, and one heartbeat fills a control
ring.  `msgfile`: two crashes or failed writes, a block of more than one message
before or behind them; a torn header is read with the number 2, which a block
torn before it may have had, and with 9, past all (`Strays`).  `build`: with 4
commands of which each waits for at most two, chains, joins, and loops of one and
of two commands occur, and two failures reach `-maxerr`; loops of any length are
the theorem's (`LoopReportedHolds`).  `exec`: the limit on open files is more than
2 * maxjobs + 1 commands unshown; it bites with two jobs and 7 commands.

**Fairness.**  acr_nav without a peer has no liveness: a program that waits for
a key has nothing it must do on its own.  Elsewhere:

* the process whose step it is runs (`WF` of its loop or of each of its steps):
  `Decode`, `Callback`, `Child`, `Loop`, `Step`.  Nothing in the code stops a
  loop that is not blocked in a system call, and calls that block are disabled
  actions here.
* timers that recur, recur (`WF` of `Timeout`, `SigwinchCheckCallback`,
  `LivePollCallback`, `Heartbeat`, `FlushStep`): `ThInitRecur` and the step
  lists of `lib_ams` with a delay.
* what a loop takes in turn is taken again and again (`SF` of `PeekCtl`,
  `ReadCtl` and `Ipc_RequestStateDump`): `cd_poll_read_RotateFirst`,
  `cd_ipcconn_read_RotateFirst`.  Weak fairness would not do, since a write in
  progress disables them for a while.
* the bytes of a key that was pressed arrive (`WF` of `Deliver`), and every
  command ends (`WF` of `Kernel`).
* nothing is assumed of the user, of crashes, of signals, or of the server's
  data.

## 4. Disagreements found

Two are runs that TLC refutes, against a sentence of the repository:

* `blocked_writer` (`BlockedWriterResumes`): "poll indefinitely all control shms
  (zd_ctlin list) for heartbeats that indicate that the shm write space is
  finally available" (`shm.cpp`, above `WaitBudget`).  `PollCtlIn` peeks but does
  not set `c_cur_msg`, so `SkipMsg` does nothing: every turn handles the same
  heartbeat, and the newer ones behind it, which would make room, are never
  read.  The nonblocking mode, the default of `ams_sendtest`, is right
  (`SenderResumes`).
* `read_past_end` (`ReadsBySeqno`): "Read message by sequence number"
  (`file.cpp`).  Asked for a number past the end, the scan leaves the header of
  the last block beside the messages of the one loaded before; the next number
  in the last block then needs no scan and leads to a message of the other block.

These were met too; the configurations beside them reproduce the counterexample
and are not part of the list of runs.  The passing runs leave out exactly the
input that triggers them, or the property says where it stops.

* `back_under_help.cfg` (`BackRestoresView`): "Restore filter, viewmode, navmode,
  and filtertarget from a navstack entry" (`nav.cpp`).  Backspace is not blocked
  by an overlay and does not touch the overlay stack.  With the help up, the
  restored view is overwritten by the one under the help.
* `detail_kept.cfg` (`DetailOfSelection`): "Field being detailed (non-null in
  detail mode)" (`dmmeta.field`).  If Backspace lands on the ctype already
  selected, the overlay stack keeps an entry although no overlay is shown; a
  later Escape opens a detail of no field.
* `cancel_cleared.cfg` (`ContextView`): "auto-activates on namespace headers,
  restores the previous viewmode when leaving" (`nav.cpp`).  Ctrl-U in the filter
  line recollapses what an earlier filter expanded; Escape restores a row past
  the end, and the clamp that follows moves the cursor without the view.
* `back_from_empty.cfg` (`HistoryKept`): "Ensure target namespace is expanded so
  the ctype is findable", "scan for namespace header" (`nav.cpp`,
  `navaction_go_back`).  A filter that matches nothing leaves the dependencies of
  the last namespace on the screen, and one of their lines can be followed.
  Backspace puts back the empty list and the line, but finds no row to select,
  and the dependencies stay those of the other namespace.
* `unnamed_ns.cfg` (`ContentCurrent`): "Called with selected ctype to ensure view
  content is loaded" (`dmmeta.field`).  For the namespace named `""` the cache
  key equals that of an empty view.
* `torn_header.cfg` (`TornHeaderLeft`): "check message blocks for integrity and
  get last block" and "means broken file" (`file.cpp`, `OpenAppend`).  A header
  torn right behind its `MsgHeader` at the end of a file is not noticed, and the
  writer appends behind it, where `ReadMsg` cannot get.  Every other torn header
  is noticed (`BrokenIsLeft`).
* A file that `OpenAppend` cannot open leaves `fail` unset: `WriteMsg` drops every
  message and `FailQ` is false after `Close`, although "failure flag is
  preserved, and could be retrieved with FailQ" (`file.cpp`).  Only `OkQ` right
  after `OpenAppend` tells, which the test in `atf_unit/lib_ams.cpp` asks;
  `CloseTells` speaks of callers that do (`began`).
* `resize_lost.cfg` (`ResizeNoticed`): "no SA_RESTART - read() must return EINTR"
  (`main.cpp`).  A SIGWINCH between the test of the flag and `read()` interrupts
  nothing; the screen keeps its old size until the next key.  In the same
  function an EINTR that is left in errno makes a hung-up terminal look like an
  interrupted read, for ever; `HangupStops` excludes it by name.
* `server_stuck.cfg` (`ServerComesBack`): "local socket drains fast" (`ipc.cpp`).
  A client that is stopped keeps the server's only thread in its write loop.
* `exec_loop.cfg` (`LoopEndsRun`): "exceptions: - dependency loop"
  (`lib_exec.cpp`).  With a loop among its commands `SyscmdExecute` spins: the
  heap never empties.  abt, whose loop ends when nothing can be done, reports it
  (`LoopReported`).

Also seen, and stated as an assumption: with `-maxerr:0` abt runs nothing and
exits with 0.  And: `SetView help` sent while the filter line is open leaves the
filter line first, which restores the row the cursor had before `/`, and then
saves under the overlay the line of the row that was on the screen; closing the
help gives back that line, not one that was ever shown with the restored row.
`overlays`, which checks `DismissReturns`, has no `SetView`.

## 5. Proofs

All are checked by TLAPS for every value of the constants, from the named
assumptions of the modules.

| module | theorems |
|---|---|
| `AcrNavProofs` | `SoundInvariant`; `TypeCorrect` (`TypeOK`), `ListIsFresh` (`LeftFresh`), `AutoExpandedStaysOpen` (`AutoExpandedOpen`), `AcceptShowsMatchesHolds` |
| | `SteadyInvariant`; `OverlayReturnsHolds`, `FilterModeAloneHolds`, `StartupHelpFirstHolds`, `SelectionInViewHolds` |
| | `ContextViewHolds`, `ContentCurrentHolds`, `DetailOfSelectionHolds`, each with the one input it needs excluded; `CancelReturnsHolds` |
| `KeyProofs` | `KeyInvariant`; `DecodedIsTypedHolds` |
| `LiveProofs` | `BackPressureHolds`, `DataWholeHolds`, `CursorFollowsPoolHolds` |
| `ShmProofs` | `TypeOKHolds`, `NoOverwriteHolds`, `NoShmErrorHolds`, `BroadcastSpecHolds` |
| `MsgFileProofs` | `FileInvariant`; `NumberedOnceHolds`, `CloseTellsHolds`, `BrokenIsLeftHolds`, `ReadsBySeqnoHolds` |
| `AbtProofs` | `TypeOKHolds`, `PrereqsCountedHolds`, `RunsAfterPrereqsHolds`, `ZeroMeansBuiltHolds`, `DagSpecHolds`, `LoopReportedHolds`, `GivenUpForCauseHolds` |
| `LibExecProofs` | `ZeroMeansAllOkHolds`, `DagSpecHolds`, `OpenFilesBoundedHolds`, `ShownInOrderHolds` |

**acr_nav**, from `SchemaAssumption`, `ReferenceAssumption`,
`ContentAssumption` (finite sets of namespaces and ctypes, rows with distinct
places, references and links that lead to rows of the schema) and
`InputAssumption`.  `TypeOK` is not inductive: Escape in the filter line restores
the saved filter target, which is NULL until the line is opened.  `Saved` adds
that until then the program is not in filter mode, and no navstack entry would
bring it back there.  `Sound(d)` is `d \in State`, `Saved`, `Fresh` (which is
`LeftFresh`) and `Open` (`AutoExpandedOpen`), and `Sound(db)` is inductive
(`SoundInvariant`).  Handlers are compositions, so the proof is about operators:

* `ListOf` puts each item of a set on one row: distinct rows have distinct
  ranks, and an injection between finite sets of one size is onto (`RankOnto`);
* every operation takes a record to a record;
* the right panel's operations and `PostAction` leave alone all that `Sound`
  speaks of (`SameList`), hence keep it;
* the left panel's and the navigation stack's operations keep `Sound`, most of
  them because they end by rebuilding the list (`RebuildSound`); then there is
  one step for each action of `Next`.

`AcceptShowsMatches` follows from `Sound` of the state before: what `AcceptFilter`
expands is decided by `n_match`, which `Fresh` says is what the filter calls for.

`Steady(d)` adds what makes the overlays and the two cursors right; none of its
parts is inductive without the others:

* `Returns`: an overlay that is shown has an entry under it, the bottom entry is
  not an overlay, and what an nsdep view replaced is neither an overlay nor such
  a view;
* `Backs`: no navstack entry would bring an overlay, or the filter line, back;
* `Alone`: while the filter line is open no overlay is shown and the list has the
  keyboard;
* `HelpFirst`: while the startup help is up it is the only overlay, nothing was
  visited or expanded, and no filter was typed;
* `BothSeen`: in both panels the cursor is on a row there is, the row is on the
  screen, and the screen is not scrolled further than it need be, whatever the
  height was changed to.

`ContextView`, `ContentCurrent` and `DetailOfSelection` are false of the whole
program (section 4).  The theorems name the step that breaks each and say that
without it the property holds, for every schema and every order of all other
inputs; TLC's counterexample shows that the exclusion is needed.

* `ContextViewHolds` and `ContentCurrentHolds` exclude `Refolds`, a Ctrl-U that
  folds a namespace (`cancel_cleared`); `ContentCurrent` is proved for rows other
  than the namespace without a name (`unnamed_ns`).  The invariant `InContext`
  says that the view fits the row (`Contextual`), that a content view which is
  shown holds the lines of its row (`Current`), and that the row Escape would
  restore is a row of the list Escape would rebuild (`Kept`).  Ctrl-U breaks
  only `Kept`.
* `DetailOfSelectionHolds` excludes `BackUnder`, going back while the overlay
  stack is not empty (`detail_kept`, `back_under_help`).  The invariant says that
  whatever is shown over a stack that is not empty is an overlay, that a detail
  is never nested (`Overlaid`), and that a detail, also under a help, is of a
  field of the ctype on whose row the cursor is (`Veiled`).

`CancelReturnsHolds` is about `FilterSession`, and holds of the whole program:
what `/` saved is what the history variable says (`BeforeKept`), and while the
line is open only Ctrl-U touches the collapse flags or the saved place
(`SameSession`).

**The key decoder**, from `KeyboardAssumption` (a key is a single byte, or one of
the escape sequences of the two tables) and the two promises `Unhurried` and
`Caught` of section 2.  The history holds the keys typed by name, so
`KeyInvariant` says that there is a way to read it as bytes: the byte sequence of
each key, and how many bytes come after it (`History`), such that the bytes still
to come are the last ones of it (`Sent`) and the decoder, by what it holds and
what is still to come, is inside the key after the last one it handled
(`Place`).  `Good` says that of the decoder in the event loop, `Blocked` of the
one that blocks, where an Escape may be lost to the hangup that follows it
(`Lost`).  The callback decodes all that `read` gave it with a recursive
function; that there is such a function (`AfterExists`) is proved with a least
counterexample, since the library's theorems on definition by recursion take an
operator as a parameter.

**The live view**, from `LiveAssumption`.  What is under way between a running
client and the server is nothing, one request, or one response or the rest of it
(`Polls`, `Served`); of a response that the end of the server cut off, a
beginning.  That is `BackPressure`, and it is why what the sentinel closes is a
whole response (`DataWhole`).  `CursorFollowsPool` is a property of the steps
that build the panel.

**Message files**, from `FileAssumption`.  A file is a sound part and what a tear
left behind; `SoundTo` says how far the sound part goes.  `FileInvariant`:

* `FileOK`: every message belongs to a block (`Owned`), the sound blocks are
  numbered without a gap (`Numbered`), and a header that comes later, torn or
  not, has a greater number (`Ordered`);
* `WriterOK`: a writer that has not failed may go on with the number it has
  (`Fits`), and if `OkQ` held when `OpenAppend` returned, the file and its buffer end
  with all it was given (`Kept`);
* `AppendOK`: the scan of `OpenAppend` stands between two blocks of the sound part
  and has counted it, or is past something torn and will not find a number that
  was given (`AppendAt`).  It fails at a header torn within one of its parts,
  which is therefore the last cell for good, unless a scan lost its way before it
  (`HalfLast`, in `FileOK`).

`NumberedOnce`, `CloseTells` and `BrokenIsLeft` follow.  For `ReadsBySeqno`,
`ReaderAt` says of the reader, between any two of its steps, which block its
header and its buffer are of; a writer that appends (`Extends`) does not disturb
that, since nothing it appends makes a torn block whole.  It is proved under
`Beyond = 0`, that nobody asks for a number past the end; `read_past_end` shows
that the assumption is needed.

`GivenUpForCause` is an action property: of the state in which abt gives a command
up.  `LoopReported` needs `LoopInv`: no command of a loop has left the heap, so
that what remains in it at the end is a loop, and nothing remains if there is
none.  For `lib_exec`, `ShowInv` bounds the list of started commands by
2 * maxjobs + 2, in which every running command is, and `Grows` says that what was
shown and what waits to be shown, one after the other, is only added to.

**Model-checked only.**  Liveness under fairness, which is out of the prover's
reach, as is induction over data.  Of the safety properties:

* `HistoryKept`, the refinement of `NavHistory`.  It is false of the whole program
  (`back_from_empty`, `back_under_help`); it holds for the inputs of `browse`.
* `DismissReturns`.  It is false of the whole program as well (the `SetView help`
  of section 4); it holds for the inputs of `overlays`.

## 6. Not modelled

* acr_nav: rendering, the text of views and dumps, regular expressions, raw
  mode; the 256-entry array of `CollectMatchingNamespaces` (schemas that TLC can
  enumerate are far smaller); the views that only connect mode shows.
* lib_ams: creation and cleaning of the files behind shms, the slow-poll list of
  `powersave`, the stdin/stdout transport, members that join a ring in use.
* abt: the targets, and how commands are written from them; progress lines; the
  search of outputs for "error:".  lib_exec: redirections and timeouts of
  children, `dry_run`.
* Everything else: the compiler `amc` and the table tools (batch programs from
  text to text), strings, numbers and times of `algo_lib`, HTTP, SQL and
  WebSocket parsers, test drivers, `aqlite`'s tables over a library.  They keep
  little state between calls; what could be said of them is about functions of
  data, not about steps.
* Generated code (`cpp/gen`, `include/gen`), two thirds of all lines: pools,
  hash tables, lists, heaps, parsers and printers, one copy per table.  What
  they do is used here as sets, functions and sequences; `bh_syscmd` (the order
  of the heap) and `syscmddep` (the two indexes) are the only ones a definition
  translates.  The share of the repository's lines that is mapped is small for
  that reason.

## 7. Plan

1. **Proof of `DismissReturns`**, without the `SetView help` that breaks it: the
   view and the line under each overlay are kept together with the row they
   were on, as `Overlaid` does for the field of a detail.
2. **Step simulation of `NavHistory`**, without the two inputs of section 4: a
   navstack entry leads back to a row that is in the list once its namespace is
   expanded.
3. **`ShmRing`**: members that join late (`OpenRead` at an offset), the
   `powersave` list, several rings read in the order of their time stamps.
4. **`algo_lib`**: the time heap and the step lists the fairness above relies on.
