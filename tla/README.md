# A specification of clipmenu

clipmenu keeps a history of what was copied to the X selections.  A daemon
(`clipmenud`) stores clips, a menu (`clipmenu`) lets the user pick one, a server
(`clipserve`) offers it again, and `clipctl` and `clipdel` switch the collection
on and off and delete clips.  All of them are separate processes.  What they
share is files: the snip file under a flock, a directory of contents with hard
links as reference counts, and a status file; the rest is signals and X events.
What can go wrong in clipmenu is mostly in how these processes meet, and that is
what is specified here.

Paths such as `src/store.c:293` are relative to the repository.  Commands:

    tlasany SnipFile.tla
    tlc -workers 2 -config snipfile.cfg MCSnipFile
    tlapm SnipFileProofs.tla

## 1. The system

| component | state it keeps | operations |
|---|---|---|
| clip store, snip file (`src/store.c`, `store.h`) | the file: header (`nr_snips`, `nr_snips_alloc`) and one 256-byte record per snip; per process a mapping, the header values it last saw, a lock reference count | `cs_init`, `cs_ref`/`cs_unref`, `cs_file_resize`, `cs_destroy`, `cs_snip_iter`, `cs_len` |
| clip store, contents (`src/store.c`) | a directory per 64-bit hash, the text in `1`, a hard link `2`, `3`, ... per further snip of that hash | `cs_add`, `cs_replace`, `cs_trim`, `cs_remove`, `cs_content_add/remove/get` |
| `clipmenud` (`src/clipmenud.c`) | `enabled`, `last_text` and its time, watched selections, pending X events and signals | `setup_watches`, `get_one_clip`, the X event handlers, `store_clip`, `maybe_trim`, `handle_signalfd_event`, `write_status` |
| `clipctl` (`src/clipctl.c`) | none of its own; reads `/proc` and the status file | enable, disable, toggle, status |
| `clipserve` (`src/clipserve.c`) | one mapped content, the number of selections it still owns | take PRIMARY and CLIPBOARD, answer requests, end after as many `SelectionClear` |
| `clipdel` (`src/clipdel.c`) | none | remove or list what matches an expression |
| `clipmenu` (`src/clipmenu.c`) | the array from menu index to hash | list under the lock, run the launcher, start clipserve |
| configuration (`src/config.c`) | `struct config` | environment, file, default, conversion |
| text algorithms (`src/store.c`, `clipmenud.c`, `clipmenu.c`, `util.c`) | none | `is_possible_partial`, `is_salient_text`, `first_line`, the line of a clip and the number in it |
| X helpers, utilities, build, service file, tests | none | `xerror_handler`, `run_clipserve` |

How they interact:

* Every program opens the snip file and calls the library.  `cs_ref()` takes an
  exclusive flock and then looks whether the header still says what it said the
  last time; if not it remaps.  References nest inside one process (`clipmenu`
  holds a guard and calls `cs_len()`).
* A content is added *before* the lock is taken (`src/store.c:540`), removed
  with it, and read without it.
* `clipmenud` asks the owner of a selection to write its text into a property of
  the root window and reads that property when it is told it changed.
* `clipmenud` starts `clipserve` for a clip of an owned selection; `clipserve`
  takes the selections, of which `clipmenud` is told in turn.
* `clipmenu` writes its list to the launcher's pipe while it holds the lock, gives
  the lock up, and waits for what the user chooses; then it starts `clipserve`
  with a hash.  The two `clipserve`s take the selections from each other.
* `clipctl` sends `clipmenud` a signal and polls the status file until it says
  what was asked for.
* systemd starts `clipmenud` again whenever it ends, and stops it with SIGKILL
  after two seconds (`init/clipmenud.service.in`).

What is hard here: processes that interleave at every system call; a kill
between any two of them; mappings and counts that are stale when used; events
that are older than what they are about; signals that coalesce and overtake; a
name that is computed from a count.  `PROJECT.json` lists these hazards line by
line with the properties that would catch each of them.

## 2. The modules

    SnipFile   <- MCSnipFile,  SnipFileProofs      the file, its header, the lock
    ClipLog    <- ClipStore, Clipmenud             what the store promises (abstract)
    ClipStore  <- MCClipStore, ClipStoreProofs,    snips and contents; refines ClipLog
                  LinkCountProofs
    Clipmenud  <- MCClipmenud, ClipmenudProofs     the daemon, X around it, over ClipLog
    Clipctl    <- MCClipctl,   ClipctlProofs       clipctl, status file, signals
    Clipserve  <- Session,     ClipserveProofs     clipserves and the X selections
    Clipmenu   <- Session                          clipmenu, its launcher, the store
    Session    <- MCSession,   SessionProofs       both, composed; refines Clipserve
    Config     <- MCConfig                         config_setup()
    ClipText   <- MCClipText                       what is done with a text
    MCConfig, MCClipText  <- MCInputs              one instance of the last two
    MCInputs   <- InputsProofs

The store is split by what its two halves can get wrong.  `SnipFile` has the
layout of the file and the lock and does not say what is in a snip; `ClipStore`
has the snips as a sequence and the contents and takes the file for granted (that
it may is what `SnipFile` shows).  `ClipLog` is their common user's view: a log of
texts.  `ClipStore` is shown to implement it, and `Clipmenud` uses it, so that
the daemon is checked against what the store promises and not against its
details.

### SnipFile

Lengths count records; record 0 is the header.  One step is one system call that
changes the file, or the stores that follow it: `ResizeTruncate` (ftruncate),
`ResizeRemap` (mremap), `ResizeHeader` (`nr_snips`), `ResizeHeaderAlloc`
(`nr_snips_alloc` and the local copies) are four steps of `cs_file_resize()`.
`Lock` is flock() returning, `RefSeen`/`RefUpdate`/`RefFail` are what `cs_ref()`
does next, `Unref` is the guard going out of scope.  `ListRefInner` and
`ListUnrefInner` are `cs_len()` inside clipmenu's guard.  `Faults` names the
system calls that may fail, `Kills` lets a process vanish at any point.  `torn` is
a history variable: a process has died, or its mremap() has failed, after it cut or
extended the file in `cs_file_resize()` and before it had adapted the header.  Removal
is abstracted to the new number of snips; the bytes are not modelled.  A `RefFail`
of clipmenu's guard does not end its listing: nobody looks at the guard's status,
and what follows is the inner reference of `cs_len()` and an iteration that yields
nothing (op `"unlisted"`).

### ClipLog and ClipStore

`ClipLog` has three operations, each at one instant: append, replace the newest,
keep a proper subsequence.  `ClipStore` has one step per system call on the
content directory (`Mkdir`, `StatDupe`, `Link`, `Create`, `Write`, `Stat`,
`Unlink`, `Rmdir`), one per snip of the compaction (`Compact`), and `Grow`,
`Fill`, `Doom`, `Update`, `Shrink`.  `write()` may be short.  The
daemon adds, replaces and trims; any number of clipdel processes remove what
matches an arbitrary set of lines.  A file that lost its last name is written to
all the same and is gone: writes then change nothing anybody sees.
Nothing keeps an addition, which is without the lock, and a removal, which is with
it, from being in the directory of one hash together.  When they are, the
addition between mkdirat() and its linkat() or last write() and the removal between
fstatat() and its last unlinkat(), the history variable `raced` remembers it; the
model goes on, with the directory as they leave it.

The refinement maps `log` to `Committed`: the texts of the snips, without a last
one that is not filled yet, and from the start of the compaction on without the
doomed snips and without the second copy of those already moved.  So an addition
takes effect in `Fill`, a replacement in `Update`, a removal in the step that
ends the scan.

### Clipmenud

The environment is explicit.  `selection` says who owns a selection and with what
text; `requests` are conversions on their way to an owner; `prop` is the property
an answer goes to (one per selection, as in the code); `events` is the queue of
the X connection.  `Copy`, `Clear`, `Close` (a window goes, and with it its selections),
`Answer`, `Serve`, `Retire` (a clipserve that has lost everything ends), `Signal`,
`Noise`, `Clipdel` and `Tick` (PARTIAL_MAX_SECS pass) are the others' steps.  The daemon's steps
follow `get_one_clip()`: `Poll` (XPending before select), `SelectEvents` and
`SelectSignal` (a signal comes first), then `Drained`, `Skip`, `OwnerChanged`,
`Nacked`, `NotSalient`, `StoreNew`, `StoreMerge` for one event each, and
`TrimAndServe` before the handler returns.  `SetupWatch` and `SetupDone` are
`setup_watches()` and the end of `main()` for oneshot.

A window that is gone is forgotten by whoever still mentions it (`Forget`):
clipmenud asks for the title of a window only when it handles the event, a window
that is gone has none, and so is taken for neither a clipserve nor an ignored one;
a request that is on its way to it is never answered.  Each clipserve has a window
of its own, from `Clipserves`, which is free again once nobody mentions it.  That a
clipserve aborts when it loses a selection it has just taken is in `Clipserve` only.
`kept` is a history variable, the text last stored from each selection.

A text is a model value; `IsPossiblePartial` and `Blank` stand for
`is_possible_partial()` and `is_salient_text()`.  `cfg` is the pair of settings
that change the control flow, chosen in `Init` from `Configs`.

### Clipctl

clipmenud's part is `write_status()` (open and write are two steps: the file
exists empty in between), the moment it blocks the signals, its loop, and the
child that `run_clipserve()` forks, which bears clipmenud's name until it execs.
clipctl's part is the scan of `/proc`, `should_enable()`, `kill()`, and the polls.
`orderly` is a history variable: every command so far was given to a clipmenud in
its loop, with no other command under way, asked for a change, did not give up on
a clipmenud still at work, and clipmenud was not killed.

### Clipserve, Clipmenu and Session

`Clipserve` has the X server's side explicit: the owner of each selection, one
queue of events per connection, `SelectionClear` appended to the queue of who loses
a selection.  clipserve's part is `Fetch` (`cs_content_get()`), then for PRIMARY and
CLIPBOARD in turn `TakeSelection` (XSetSelectionOwner) and `CheckOwner` (the
expect), two steps since others act in between; then `HandleRequest` by kind of
request, `HandleClear`, `FatalXError` (an error that `xerror_handler()` does not
forgive), `CloseDisplay` and `Unmap`.  After a fatal error no other request is
answered: the handler runs with the next reply or event, and every answer begins
with a round trip for the requestor's title.  Requests are individuals (`asked`):
not made yet, waiting for a certain clipserve, answered, or dropped, which is what
becomes of those that wait when its connection closes (`Disconnect`).  On its own it may be told to serve anything
and find any content (`ServeSpec`).

`Clipmenu` has the lock, the launcher's pipe with room for `PipeSize` lines,
`clip_idx` and `idx_to_hash` (`table`, as far as it has been written; elsewhere
`Lookup` yields anything).  `ListClip` is one turn of the loop: a line and a table
entry.  The launcher reads, and may end at any time with any number or anything
else.  The store is what its users see of it: clipmenud's `cs_add()` in five steps,
content without the lock and snips with it, `RemoveClips` at one instant.
`shown`, `removed` and `leaked` are history variables for the property.

`Session` composes the two by joint actions: `ChooseAndServe` is clipmenu's choice
and `run_clipserve()`, `StoreAndServe` clipmenud's with `own_clipboard`,
`FetchContent` reads the content that is there in that moment.

### Config, ClipText, MCInputs

`Config` goes through `config_setup()` one entry or one line per step: `OpenFile`,
`config_parse_env_vars`, `config_parse_file`, `config_apply_default_values`, with
the flag `is_set` the code keeps between them.  A string is the sequence of its
words; what strtol(), regcomp() and tolower() make of a string are parameters.

`ClipText` has the functions on texts as operators on sequences of characters, and
a user who drags the mouse over a document: `DragTo` is `store_clip()` for a
selection that was collected, any number of them having been missed.  The lines
clipmenu makes of the clips kept, and the numbers read back from them, are
operators that the invariants apply in every state.

`MCInputs` checks the two in one run; `subject` says which one a behaviour is about.

## 3. What is checked

Twelve runs; state numbers are those of TLC with the bounds given.

| run | result | what it shows |
|---|---|---|
| `snipfile` | pass, 231,492 states | two processes, batch 2, up to 3 snips, `ftruncate`, `mmap` and `mremap` failing, kills anywhere; also liveness |
| `snipfile_killed_resize` | violation | see section 5 |
| `clipstore_safe` | pass, 392,896 states | daemon and two clipdels, up to 3 snips, three texts of which two collide |
| `clipstore_live` | pass, 330,852 states | daemon and a clipdel, up to 2 snips, two kills or full disks anywhere, also in a compaction that an earlier kill has left half done; also liveness |
| `clipstore_overlap` | violation | see section 5 |
| `clipmenud_safe` | pass, 602,604 states | one selection, an ordinary and an ignored window, a blank text, own_clipboard with two clipserve windows, a copy on top of what the selection holds, 2 signals, 1 foreign property, answers that overtake, clipdel, restarts; also liveness |
| `clipmenud_kept` | pass, 3,467,308 states | both selections, defaults / own_clipboard / oneshot, a text and its partial, 2 copies on top of what the selections hold at the start, three clipserve windows |
| `clipmenud_deleted_merge`, `clipmenud_ignored_race` | violation | see section 5 |
| `clipctl` | pass, 139,513 states | two clipctls, two commands, clipmenud started twice, killed at any time |
| `session` | pass, 240,550 states | a clipmenu, clipmenud adding a clip, a removal, a kill, a failing `cs_ref()`, two clipserves, an application, two requests; also liveness |
| `inputs` | pass, 99,719 states | each entry's variable and file, all paths to the file; drags over 1,369 documents |

The properties:

* `SnipFile!LockedWhileReferenced`: reference count and flock agree, nested
  references, failing calls and kills included.
* `SnipFile!FileValidUntorn`: a free lock means a file the next `cs_init()` or
  `cs_ref()` accepts, until a process dies inside `cs_file_resize()`.
  `FileValidWhenUnlocked` says it without the condition.
* `SnipFile!AccessInBounds`, `MapCoversLocal`: no snip is touched outside the
  mapping or the file, and no process unmaps or remaps more than it has.
* `SnipFile!ShrinkCutsFile`: "someone may be deleting sensitive snips and so it's
  best to remove them immediately" (`src/store.c:287`): the count never goes down
  before the file has been cut exactly.
* `ClipStore!ContentMatchesSnips`: hard links count snips, without gaps.
  `ReadableUntilRaced`: a snip nobody is working on leads to a whole text of its
  hash, at every instant, since clipserve reads without the lock (`SnipsReadable`
  says it without a condition).  `NoContentError`: no call meets a directory it
  cannot work with.  These three hold as long as nobody was killed and no addition
  has overlapped a removal of the same hash (`Undisturbed`), whether of its last
  snip or another; removals and additions of different hashes overlap as they
  like.  `ImplementsLog`: the refinement, whatever overlaps.
  `KeepsOthers`: no clip is lost that was not to be removed or replaced, although
  a kill leaves doomed snips and copies behind for the next removal to find.
  `CallsShorten`: every step of a call brings it nearer to its end, by the measure
  `StepsLeft`, and nothing another process does takes it back.
* `Clipmenud!LastCopyStored`: whenever all is at rest, the text last stored from a
  selection is the one it offers, if answers come in the order they were asked for.
  It says stored, and not that it still is in the store: `is_possible_partial()` is
  not transitive, so that of three texts of both selections the second may have
  been merged over the first and the third over the second, of which the first is
  no partial.  `MergeReplacesLast`: a merge replaces the clip it was compared with.
  `MaxClipsKept`, `OneshotCompletes`.  `TypeOK` includes that a property event
  never comes for a property nobody has written, which is why
  `get_clipboard_text()` does not return NULL to `first_line()`.
* `Clipmenud!ComesToRest`: clipmenud and the clipserves it starts do not feed each
  other, with one exception, which is part of the property: clipserves that again
  and again lose both selections and end before clipmenud has asked for their
  title.  Without it the property is false: what such a clipserve had taken is
  converted and stored, and another clipserve started.
* `Clipctl!StatusTruthful`, `OrderlySuccessHolds`, `SignalsRead`.  `Converges`: in
  the end no clipctl is under way, no signal is left unread, and while clipmenud
  runs the file says what it does.
* `Session!ChosenIsServed`: the clip that is served is the one that stood under the
  number the user chose, whatever happened to the store since, and its text is
  whole, unless that clip itself was removed or its addition was cut short by a
  kill.  `NobodyWaitsForUser`: the lock is never held while a program waits for a
  person.  `Clipserve!ServesUntilLost`, `Session!EndsWhenLost`: a
  clipserve, which only counts events, leaves its loop only when it has lost both
  selections, and ends when it has.  (It can also die of an X error or abort.)
  `Clipserve!RequestsAnswered`: whoever asks one gets an answer, unless the very
  clipserve that was asked dies in one of these two ways; one that ends by itself
  leaves no request in its queue.
* `Config!Resolved`: environment before file before default, per entry, first line
  first, and an invalid value is fatal exactly if it counts.
* `ClipText!OneClipPerDrag`: a drag to one side leaves one clip, its last selection,
  whichever of its steps were collected.  `ShownFaithfully`, `NumberReadBack`: what
  the line of a clip says is true, and it leads back to the clip.

Bounds.  Two processes are what a lock protects against; the third one in
`ClipStore` lets a removal be followed by another while the daemon is in an
unlocked call.  `Batch = 2` with three snips crosses a batch boundary upwards and
downwards, with counts that are a multiple of the batch and counts that are not.
Three snips allow two of a hash with another one between them in a compaction.  In
`clipmenud_kept` two copies on top of two selections that already have an owner let
a copy fall between any two steps of a conversion, and a second one between any two
of that; `clipmenud_safe` has one, with everything else that can happen in between.
The clipserve windows are as many as it takes for one to be free whenever
clipmenud starts another clipserve, so that the bound stops nothing: two with one
copy, three with two (the clipserves of `clipmenud_kept` are symmetric;
`clipmenud_safe` checks liveness, and uses no symmetry).  Two signals are
both kinds in both orders.  `MaxLen` bounds the snips before an addition, `MaxKills`
the kills; two of them are one that leaves something behind and one in the
call that comes upon it.
Clipctl needs two starts (a crash and what follows) and two commands
(the second meets what the first left).

`session` starts from a store with one clip, with or without the half-written
content of another one that an earlier kill left (`Stored`, `leaked`); `MaxSnips = 2`
lets one be added, before or after the listing, and `MaxRemovals = 1` lets any of
them go.  `PipeSize = 1` makes clipmenu wait for its launcher with the lock.  One
clipmenu and clipmenud are two waiters for the lock and two clipserves.  Two
requests are one that kills a clipserve and one that waits behind it, two copies
take both selections from it.  Any three of these incidents (additions, removals,
kills, copies, requests) can happen in one behaviour and fall between any two
steps, but no more than three (`MaxIncidents`).  `inputs` has for each
entry every combination of its variable (unset, or one of two to four values, valid
or not) and a file of up to two lines for this entry, for another key or without a
value: two lines are the first and a later one.  The documents are all of up to
five characters over two letters, a space and a newline, and four with brackets,
digits or periods; `LineSize = 5` makes lines longer than a snip possible within
them, `MaxStrlen = 4` numbers that fill what is read and numbers that do not.

`Deletions = FALSE` and `Overtaking = FALSE` in `clipmenud_kept` leave out what
sections 5 and 6 describe; `clipmenud_safe` has both.  `StartEmpty = TRUE` in the two
runs of the daemon that end in a violation lets nobody own a selection before it is
watched: `setup_watches()` converts without a look at any title, and the violation is
to be that of the event handlers.  `RemoveClips` of `Clipmenu` leaves out the overlap
of a removal with the addition of the same text, which is `ClipStore`'s subject, and
the removal of a zeroed snip, which fails.

Fairness.  A process inside a library call keeps going (weak fairness): nothing
in the library waits but flock().  flock() itself is strongly fair, since Linux
queues waiters first in, first out.  clipmenud keeps running and the owner that
was asked first answers; nobody has to copy, signal or delete.  In Clipctl reading
a signal is strongly fair: clips are assumed not to come so fast that clipmenud
never reaches `select()` with a signal pending, because `get_one_clip()` prefers
events.  systemd restarts clipmenud.  In `Session` programs keep running and a
launcher that is running reads what is in its pipe (a dmenu reads all its input
before it shows anything); that a user ever chooses, that a launcher ever ends or
that anybody takes a selection or asks for one is not assumed.  `Config` and
`ClipText` have no liveness properties and no fairness.

Deadlock is switched off where the system may stop: when the bounds on copies,
commands or starts are used up, when a program has its configuration or a drag is
over, there is nothing left to do.

## 4. What is proved

For any set of processes, any batch size, any bound, with kills and any failures:

* `SnipFileProofs!Invariance` (`Inv` is inductive), and from it `TypeCorrect`,
  `MutualExclusion` (`LockedWhileReferenced`), `LocalMapping` (`MapCoversLocal`)
  and `ShrinkIsExact` (`ShrinkCutsFile`).

and, until a process dies or fails inside `cs_file_resize()` (`~torn`, part of the
properties and not an assumption):

* `FileStaysValid` (`FileValidUntorn`) and `AccessesStayInBounds`
  (`AccessInBounds`).  That the condition is needed is what the run
  `snipfile_killed_resize` shows.

The argument: `LockInv` ties the reference count and the lock to the place in the
code, so at most one process is ever between `cs_ref()` and `cs_unref()`; `CallInv`
says what each of these places knows, and only about shared variables that
nobody else can change while the lock is held (`InvUpToDate`, `InvRemap`,
`InvHeader`, `InvHeaderAlloc`).  `InvReady` is the part about a process *without*
the lock: its mapping covers what its local counts say, whatever the others do to
the file.  The properties alone are not inductive: `AccessInBounds` says nothing
of the steps between ftruncate() and the header stores.  `FileInv` adds that until
then the header is acceptable outside of a resize.

For any number of clipctl processes, tries, commands and restarts:

* `ClipctlProofs!StatusIsTruthful` (`StatusTruthful`).  `Written` strengthens it
  by the stretch of `main()` after the file is written and before the signals are
  blocked.
* `CtlTypeOK` (`TypeOK`), and `OrderlySuccess` (`OrderlySuccessHolds`).  The
  property speaks of a clipctl that has reported success, so the invariant says how
  it got there.  `InTurn`: while commands are orderly at most one clipctl is under
  way or has a result that counts, and unless one is polling nothing is pending
  (`Quiet`).  What such a clipctl has sent is in one of three places (`Sent`): the
  signal is pending and the variable not yet what was asked for, or it has been
  read and the file not yet written, or it is written.  The file says what was
  asked for only in the last of them, since `Written` holds and a redundant command
  is not orderly.

For any texts, hashes that collide or not, any processes and bounds
(`ClipStoreProofs`):

* `StoreTypes` (`TypeOK`), with kills and overlaps.  `StoreInv` says for each place
  in a call what it may rely on: who holds the lock (`Control`), which victim and
  which snips are still to be looked at (`Work`), how far a compaction is
  (`Progress`), that the snip that is added has room (`Room`).
* `OthersAreKept` (`KeepsOthers`), with kills and overlaps.  `GapInv` is what makes
  it inductive: in the gap a compaction closes there are only doomed snips and
  snips that have been copied already.
* `CallsAreFinite` (`CallsShorten`), with kills and overlaps: the half of
  `CallsReturn` that needs no fairness.  `StepsLeft` is a natural number that every
  step of a call lowers and no other step raises.  It holds in `StoreInv`: a victim
  is always one of those left to do (`Work`), so that dooming it leaves one fewer,
  and a compaction never looks beyond the last snip (`Progress`).  Only the addition
  of content depends on what others do, in the loop around `write()`; others take
  links away and write nothing (`OthersOnlyRemove`), so that what has been written
  stays written or is out of sight.
* `StoreIsALog` (`ImplementsLog`), for `MaxKills = 0` and overlaps: step by step,
  `Fill` is the abstract addition, `Update` the replacement, the end of the scan
  the removal, and everything else leaves `Committed` alone; `LogSeen` says what
  `Committed` is in each place.  The lemmas on `InOrder` (that picking snips in the
  order of their numbers leaves a subsequence, and what it is when a snip is
  appended, moved or cut off) carry the removal.  The condition is needed: a
  process that dies in a compaction leaves copies, which `ClipLog` has no operation
  for, and one that dies in an addition a snip without a text.

For the same, until somebody is killed or an addition overlaps a removal of the
same hash, of its last snip or not (`Undisturbed`, part of the properties and not an
assumption; `LinkCountProofs`):

* `LinksMatch` (`ContentMatchesSnips`), `ClipsReadable` (`ReadableUntilRaced`) and
  `ContentAlwaysFits` (`NoContentError`).  The three are one invariant, `LinkInv`:
  the links of a hash are `1 .. n` with n the number of its snips, plus one while an
  addition has a link and no snip yet (`Ahead`), less one while a removal or
  replacement has taken the link and the snip still says the old text, or a
  replacement has changed the snip and not yet added the content (`Behind`);
  `Known` says that what a call has counted with `fstatat()` is still the count when
  it makes or removes the link; `Marks` that a doomed or empty snip has somebody at
  work on it.  A count that other calls change and that two
  system calls later becomes a file name is right only because the one who counts
  holds the lock or is alone with this hash.  After an overlap it is
  false, as `clipstore_overlap` and section 6 show; after a kill, as section 6 says.

For any windows, texts, owners, settings, bounds and restarts (`ClipmenudProofs`):

* `DaemonTypeOK` (`TypeOK`).  `Written` says that each property event in the queue
  is about a property that has a text: an event is queued with the write, and
  nothing takes a text away again.
* `MaxClipsHold` (`MaxClipsKept`) for `MaxClipsBatch <= MaxClips`, and
  `StoreIsBounded` for all settings: never more than the larger of the two, the clip
  being handled apart (`Limited`).
* `MergesReplaceLast` (`MergeReplacesLast`) while clipdel removes nothing
  (`~Deletions`): `LastIsNewest`, the remembered text is that of the newest clip if
  there is one, is kept by additions, merges, trims (which keep the newest, or
  nothing) and restarts (which forget it).  With deletions it is false, see
  `clipmenud_deleted_merge`.
* `OneshotEnds` (`OneshotCompletes`).  While nobody disturbs a oneshot clipmenud it
  has exactly one conversion under way inside `get_one_clip()`, as a request, an
  answer or a refusal, and none outside of it (`OneByOne`).

For any number of clipserves, any clips and contents, copies and requests:

* `ClipserveProofs!ServersServeUntilLost` (`ServesUntilLost`).  clipserve counts,
  and the property is about which selections it owns, so the invariant has to say
  what is counted: a selection that was taken is owned, or its `SelectionClear` is in
  the queue, once, or has been handled (`cleared`), never two of these; `remaining`
  is what has not been handled; and the queue of a window that owns nothing ends
  with a `SelectionClear`, since the X server sends requests only to an owner.  When
  nothing remains both have been handled, so that nothing is owned, no clear is in
  the queue, and therefore nothing at all.
* `SessionProofs!SessionImplementsClipserve` (`Spec => ServeSpec`): each step of a
  session is a step of `ServeSpec` or leaves clipserve's variables alone, for which
  the invariant keeps the text of clipmenud among the hashes and the contents among
  what a `Fetch` may find.
  `SessionServesUntilLost` carries the theorem over.

For any number of menus, clips, additions, removals, requests and kills:

* `SessionProofs!SessionServesChosen` (`ChosenIsServed`).  The invariant follows a
  clip through the session.  `StoreFull`: a snip that is not zero has its content,
  whole, or is one a killed clipmenud left behind, since `cs_add()` writes the
  content before the snip.  `MenuInv`: while a menu lists it has the lock, so that
  the snips below `clip_idx` are still those it counted; the table agrees with what
  was shown; and every clip shown has its content unless `removed` names it.  From
  the launch on `pc` ties the menu to its clipserve, which maps the content once.
  A step of anybody else is harmless (`StoreFrame`): this is where the order of
  `cs_add()` and the condition on the last link in `cs_remove()` are used.
* `SessionTypeOK` (`TypeOK`): `Room`, that the store never exceeds `MaxSnips`, bounds
  what a menu has counted, and so the indices into its table.

For any environment, file, values and conversions:

* `InputsProofs!ConfigIsResolved` (`Resolved`).  The invariant says for each phase
  and each entry what a set flag means: before the end of the environment loop, that
  the variable of an entry already passed is what set it; in the file loop, also
  that the first line for it is among those read; and that no flag means neither.

For any document, of any characters and length, anchor and selections missed:

* `InputsProofs!DragLeavesOneClip` (`OneClipPerDrag`).  On one side of the anchor
  any two selections are a prefix (or a suffix) of one another, so whatever was
  collected last is a partial of what comes next.
* `LinesShowClips` (`ShownFaithfully`).  The invariant that a clip is kept is that it
  is worth storing (`KeptSalient`), so it has a character that ends no line.  The
  rest is about `first_line()`: `SeenInv` says what its loop has found after `i`
  characters, that as many newlines were counted as lines begin up to the next
  character, less one, and that the line kept is the one with the first character
  that is no newline.  At the end that character is where the first line that is
  not empty begins, and `Ellipsised` tells from the length of the cut whether it was
  cut.
* `NumbersReadBack` (`NumberReadBack`, and the same for every number of clips up to
  the largest of `UINT64_MAX_STRLEN` digits).  `printf()`'s digits are as many as
  `get_padding_length()` says, more clips have no fewer, none of them is a blank or a
  bracket, and their value is the number (`DecimalValue`); so after the first
  bracket there are blanks and digits up to the second, or up to the end of what is
  read, whatever the text is.
* What these two compute by recursion is reasoned about by induction over the natural
  numbers.  The library's induction theorems take an operator, so the proofs start
  from its theorem that `<` is well-founded: a set of numbers that is not empty has a
  least one (`NatHasLeast`), which gives induction for sets (`NatIsInductive`,
  `CourseOfValues`) and that a recursive definition has a solution
  (`RecursionExists`, `LoopExists`).
* `InputsTypeOK` (`TypeOK` of `MCInputs`): the invariant of the subject of a
  behaviour carries over, and the variables of the other module stay as they began.
  It needs the empty document among `Documents`, with which they begin.

Assumptions on constants are the named ASSUMEs of the modules (`NoProc` is not a
process, `Batch > 0`, ...); what a theorem assumes beyond them is in its statement
and named above.

Every safety property and action property the passing runs check is proved, but
for `LastCopyStored`, which is model-checked only; so are the refinements.  Liveness
(`CallsReturn`, `ComesToRest`,
`SignalsRead`, `Converges`, `NobodyWaitsForUser`, `RequestsAnswered`, `EndsWhenLost`)
is only model-checked: TLAPS does not handle ENABLED, and so not fairness.  Of the
first, that a call of the store takes finitely many steps is proved
(`CallsAreFinite`); that it gets them, and the lock, is what fairness is for.

## 5. Where code and documentation disagree

Each has a run with a counterexample.

* `snipfile_killed_resize`: a kill between `ftruncate()` and the header stores
  leaves a file that every later `cs_init()` rejects, although the service file
  says no clean up is needed (`init/clipmenud.service.in:16`).
* `clipstore_overlap`: the content is added without the lock, so removing the last
  snip of that hash can take it away again before the snip is there; the snip
  then leads nowhere.  (The same overlap with another snip's removal: section 6.)
* `clipmenud_deleted_merge`: after clipdel removed the last clip, a partial
  replaces whatever clip is the newest by then.
* `clipmenud_ignored_race`: the window whose title is checked is the one in the
  event, the one whose text is fetched is the owner at the time of the request:
  between the two an ignored window can take the selection.

## 6. Seen while modelling, without a run

Found in the same way and left out of the runs; the models can express them.

* `cs_destroy()` unmaps `local_nr_snips_alloc` records, less than is mapped after a
  shrink.  The process is about to exit.
* A kill between `mkdirat()` and `openat()` leaves a directory without `1`; the next
  copy of that text finds a duplicate without a file and clipmenud aborts.
* Two texts with one hash share the content of the first.
* `maybe_trim()` compares with `max_clips_batch` only: with `max_clips` below it,
  more than `max_clips` clips stay until the batch is exceeded.
* An addition that overlaps a removal of its hash, but not of its last snip, leaves a
  gap: with the links 1 and 2 it reads the count 2, the removal unlinks `2`, and the
  addition makes `3`.  The next removal looks for `2` and the next addition would make
  `3` again (ENOENT, EEXIST), and `expect()` ends clipmenud.  `raced` is set then, and
  `ContentMatchesSnips` and `NoContentError` say no more; without `Undisturbed` TLC
  finds this trace.
* A slow owner may answer after a later one and overwrite the property
  (`Overtaking`); the older text is then stored twice and the newer not at all.
* A request without a property (clients older than the ICCCM make them) is one that
  clipserve answers with a failing XChangeProperty(); the error ends it while it owns
  the selections, and the requests in its queue are dropped.
* What an ignored window holds when clipmenud starts is converted without a look at
  its title (`setup_watches`).
* An ignored window that is gone when clipmenud handles its event has no title to be
  ignored for; the server then has no owner to ask, or a later one.
* A clipserve that is gone by then is not recognised either, and what its successor
  offers is stored and, with own_clipboard, served once more.  Whether that ends
  depends on clipmenud being faster some time (`ComesToRest`).
* SIGUSR2 is handled before older X events, so a copy made while the collection was
  off can be stored.
* `get_one_clip()` returns `-EINPROGRESS` when events that end no clip are used up;
  a disturbed oneshot daemon exits with its conversion under way.
* clipserve takes PRIMARY too, although only CLIPBOARD is owned.
* A signal that arrives while clipmenud boots, before `sigprocmask()`, ends it.
* A forked child named clipmenud makes clipctl report several instances.
* A redundant `enable` succeeds at once with its signal pending; signals of a kind
  coalesce and the lower number is read first, so it can be read after that of the
  next command and undo it (`SuccessHolds` of `Clipctl`, without `orderly`).
* Of two clipserves that start together the newer one can abort on its `expect()`,
  because the older one takes the selection between its two steps; what was copied
  or chosen first then stays.
* A `cs_snip_add()` killed between `cs_file_resize()` and `cs_snip_update()` leaves a
  zeroed snip: every clipmenu aborts on its empty line, and a removal or trim that
  reaches it fails, since it has no content.
* Half a text that a killed `cs_content_add()` left is found and linked when the same
  text is copied again, and is then listed and served as it is (`leaked`).
* WEXITSTATUS of a launcher that was killed is 0, as if it had succeeded.
* When `cs_ref()` fails in clipmenu, the list is empty and a number that the user
  types is looked up in memory nobody has written.
* The first character of the launcher's output is discarded unread: a number that is
  typed without a bracket loses its first digit.
* A line of the configuration file of 256 characters or more is read as two.
* With `XDG_CONFIG_HOME` set, a file under `$HOME/.config` is not looked for.
* `CM_DIR`, `XDG_RUNTIME_DIR` and `TMPDIR` decide the store of each program on its
  own: programs with other environments work on other stores.

## 7. What is not modelled

* Bytes, padding and layout of snips; the line of a snip follows from its text.
* SECONDARY (never served) and INCR transfers.  A refused conversion reaches
  nobody: the SelectionNotify goes to the creator of the requestor, which is the
  root window; only the server's own "no owner" answer is `Nacked`.
* The value of `djb64_hash()`: that two texts share one is a constant of `ClipStore`.
* `exec_launcher()`'s argument vector, signs in what `str_to_uint64()` reads
  (clipmenu writes none), multi-byte characters (the code counts bytes).
* The paths and directories made from the configuration, and freeing it.
* `get_window_title()`'s property reads, wrappers and macros, the Makefile, the CI
  file.
* Two clipmenud processes: two daemons on one store would be two `Daemon`s, and the
  service starts one.

## 8. Plan

Done: every component that keeps state, its composition where components interact,
and the safety properties of all of them proved, the refinements of `ClipLog` by
`ClipStore` and of `Clipserve` by `Session` among them.  Next, all of it proof:

1. What a kill leaves: `LinkInv` weakened to "at least as many links as snips" with
   kills, so that `ReadableUntilRaced` holds for the snips nobody was killed over.
2. `LastCopyStored`: the last conversion of a selection is asked for after its last
   copy, and the answers come in the order of the questions.
3. The same measure for the other components (`SnipFile`'s calls, the requests of
   clipserve), so that of their liveness too only the fairness is left to TLC.
