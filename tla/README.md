# Verification of LEIC-A-IST

The repository collects the course projects of a degree. Most are pure functions
of their input; seven parts keep state that several actors, a sequence of calls
or a sequence of events change, and those are what this project is about:

| part | source | what it is |
|---|---|---|
| command queue | `SO/Part2/main.c` | producer, circular buffer, thread pool |
| TecnicoFS | `SO/Part3` | a file-system server, one lock for each i-node |
| message server: messages | `RC/Proj/server.c` | posts and retrieves over TCP, a process each |
| message server: accounts | `RC/Proj/server.c`, `user.c` | users, logins, groups over UDP; the client |
| store | `PO/Proj/woo-core` | stock, sales with deadlines, orders, client status |
| target test | `IPM/Proj2` | a user test in a browser: select targets, two attempts |
| writing test | `IPM/Proj3` | a user test in a browser: write on a watch, two attempts |

All seven are modelled, model-checked and, but for what is listed below, proved
for every value of their constants. Paths are relative to `src/`.

## Inventory

### SO part 2: command queue and thread pool

- **State.** The circular buffer `inputCommands` with `headQueue`, `tailQueue`,
  `numberCommands`; one mutex, `accessVector`; two condition variables,
  `canInsert` and `canRemove`.
- **Operations.** `processInput` (main) reads the file and calls `insertCommand`;
  `applyCommands` (each worker) calls `removeCommand`, runs the command and goes
  on. The string "End of file" is a poison pill: the worker that removes it puts
  it back and ends. `main` joins the workers, prints the tree and destroys it.
- **Hard.** The wrap of three counters; the pill put back by a *consumer* into a
  *bounded* buffer (a worker could wait for room that no one else will make);
  `signal`, not `broadcast`; spurious wake-ups; exits on malformed lines at
  either side.
- **Correct when** each command is run exactly once and taken in file order, the
  pill is behind every command, putting it back never blocks, nothing is printed
  before every command ended, and the program ends.

### SO part 3: TecnicoFS

- **State.** `inode_table`: for each i-node a type, the entries of a directory,
  and a `pthread_rwlock_t`. Each running operation has an `array` that marks the
  i-nodes it has locked.
- **Operations.** `create`, `delete`, `lookup`, `move`,
  `print_tecnicofs_tree`, run by `numthreads` identical workers, each taking one
  datagram after another. `lookup` locks to read down the path; the parent
  directory is then unlocked and *tried* to write (`trywrlock`), and on failure
  everything is unlocked, the thread sleeps a random time and looks it up again;
  the child is locked to write. `move` does it twice, the second time with write
  locks in hand. `inode_create` probes the table with `trywrlock`.
- **Hard.** The gap between the read and the write lock; locks taken in an order
  that depends on the two paths of a move; error paths that each release by
  hand; retries; a node with two entries for an instant; the root locked alone
  while the whole tree is printed.
- **Correct when** locks and arrays agree, nobody changes what it has not locked
  to write, the table is a tree, each request is atomic to the clients, no
  threads wait for each other, and requests are answered.

### RC: message server and client

- **State.** Directories `USERS` and `GROUPS`: for a user a password file and a
  login file; for a group its name, a file for each user subscribed, and a directory for
  each message with its author, its text and perhaps one more file. There is no
  other state: a restart resumes from the files. One process serves UDP, one
  request after another; each TCP connection gets a process of its own.
- **Operations.** Over UDP `reg`, `unr`, `login`, `logout`, `subscribe` (which may
  make a group), `unsubscribe`, and three that only read; over TCP `post`,
  `retrieve` and `ulist`. The client (`user.c`) sends one request at a time, waits
  for the answer with a time limit, and remembers who it is logged in as.
- **Hard.** No locks: processes meet in the file system alone. Message
  identifiers are counted, then used, by concurrent processes; a message is made
  of several files and is visible from the first; a process may end between any
  two calls, and nothing is repaired. The login file outlives both client
  and server. The client exits when an answer is late, whether or not the
  request is served.
- **Correct when** messages are numbered without gaps, what was posted stays, is
  whole and is what is sent, what the server answers has been done, files of one
  user agree between requests, and a client's idea of its login is right.

### PO: store core

- **State.** A date; clients with status, points, what they bought and paid, their
  sales and notifications; suppliers, active or not, with their orders; products
  with price, stock and observers; transactions, numbered by a counter.
- **Operations.** Advance the date, register (one by one or from a file), change a
  price, toggle notifications, show a client, toggle a supplier, sell, pay, order.
  One user, one command at a time; an order is typed in product by
  product and changes the store after each.
- **Hard.** The four payment periods shift with the status; the status changes with
  the payment that was priced by it; an order that fails in the middle is taken back
  from four places; a sale has no price of its own until it is paid; events are
  decided by comparing before and after. Nothing runs concurrently.
- **Correct when** stock, histories, numbering and balances agree with the
  transactions, what was paid stays, waiting never pays, a status is never held
  without its points and never costs its holder, and observers hear of events.

### IPM Proj2: target selection test

- **State.** The order of the trials, the current one, hits and misses, the Fitts
  ID of each, what is shown (form, targets, the button of the second attempt), the
  time the test started, and what the database has accepted.
- **Operations.** Handlers the browser calls one at a time: `mousePressed`, the two
  buttons, which react to the *release* of the mouse, and `windowResized`, which
  `fullscreen` causes and which *shows the targets*.
- **Hard.** The order of the events: a resize before START, the release of the
  press that ended the first attempt over the button that has just appeared,
  presses after the last trial; a `push` that throws in the middle of a handler.
- **Correct when** what is sent is two whole attempts, each from the time its clock
  started, and the user can always go on.

### IPM Proj3: writing test

- **State.** The text typed, the word being typed and those before it, two
  suggestions and the place in the list of words where the search for them goes
  on; the phrases, the trial and the attempt; what has been entered and its errors.
- **Operations.** Press and release on a key or a suggestion, ACCEPT, the second
  attempt, `windowResized`.
- **Hard.** The suggestions are kept up incrementally: a search that goes on from
  where it stopped must start again exactly when a word gets shorter or another
  begins; deletion goes back over spaces that were typed or suggested; a resize
  shows the watch again after the end.
- **Correct when** text, words and suggestions agree, the suggestions are the most
  used words that fit, and an attempt is scored for its own two phrases.

The parts left out are listed with their reasons under "Not modelled".

## Modules

| module | role |
|---|---|
| `Dispatch` | abstract: commands handed to workers in order, each once; the end |
| `CommandQueue` | `SO/Part2/main.c`; implements `Dispatch` |
| `MCCommandQueue` | the input files TLC reads |
| `CommandQueueProofs` | theorems about `CommandQueue`; it implements `Dispatch` |
| `InodeTable` | `SO/Part3/fs/state.c` and the rwlocks |
| `FileTree` | abstract: atomic requests on one tree of paths |
| `TecnicoFS` | `SO/Part3/fs/operations.c` and the worker loop; EXTENDS `InodeTable`, implements `FileTree` |
| `MCTecnicoFS` | tables and sets of requests |
| `TecnicoFSProofs` | theorems about `TecnicoFS`: types, write locks |
| `TecnicoFSTreeProofs` | theorems about `TecnicoFS`: all locks, paths, the tree, print, deadlock |
| `Messages` | `RC/Proj/server.c`: `post` and `retrieve` |
| `MCMessages` | a group with two users |
| `MessagesProofs` | theorems about `Messages` |
| `Accounts` | `RC/Proj/server.c` and `user.c`: what is asked by UDP |
| `MCAccounts` | a user, two clients and their commands |
| `AccountsProofs` | theorems about `Accounts` |
| `Store` | `PO/Proj/woo-core`: the store and its commands |
| `MCStore` | a small shop |
| `StoreProofs` | theorems about `Store` |
| `TargetTest` | `IPM/Proj2/sketch.js`, `support.js` |
| `TargetTestProofs` | theorems about `TargetTest` |
| `WritingTest` | `IPM/Proj3/sketch.js`, `support.js` |
| `MCWritingTest` | a small list of words and phrases |
| `WritingTestProofs` | theorems about `WritingTest` |

Operators marked `mutant` are faulty variants of an operator near them, which
nothing in the specifications refers to. Put in its place, each makes one
property fail: that is how we know that the properties speak of the code.

### CommandQueue

A command is the number of its line; the pill is `EOF` = 0. A line is `"op"`,
`"skip"`, `"bad"` (main exits on it) or `"wrong"` (a worker exits on it). `pc`
says where each thread is; an action is the code from one mutex operation to the
next. `Lock` takes the mutex, `InsertWait`/`RemoveWait` are `pthread_cond_wait`
(release and block in one step), `InsertStore`/`RemoveTake` are the rest of
`insertCommand`/`removeCommand` up to the unlock. `removeCommand` copies the
command before the mutex is released, so copy and removal are one action. The
file-system operation itself is one step that returns: its locks are the subject
of `TecnicoFS`. `pthread_cond_signal` releases one thread of those blocked, and
`SpuriousWakeup` releases one for no reason.

Refinement to `Dispatch`: `handed` is the highest line removed, `inHand` what each
worker has removed and not finished, `phase` says whether main still runs.

### InodeTable and TecnicoFS

A path is the sequence of its names. One of a single name may come without its
slash, which makes no difference but for the path a move looks up again
(`operations.c:31-34`, 523): the paths of a move that do are its `bare` ones. The directory entries are kept slot by slot,
since *which* entry is free or found first matters (see "Observed"). Files have
no contents in this code. The locks follow glibc with the default attributes,
which the code asks for (`pthread_rwlock_init(lock, NULL)`): readers are not held
back by a waiting writer; `rdlock` of a lock one holds to write returns EDEADLK,
on which `lookup` exits; `unlock` releases the write lock if the caller has it and
one read lock otherwise, whoever took it.

| code | actions |
|---|---|
| `recvfrom`, switch in `applyCommands` | `Receive` |
| loop of `lookup` | `LookupDown`, `LookupMissing`, `LookupFound`, `LookupSelfDeadlock` |
| unlock of the parent before `trywrlock` | `Upgrade` |
| `trywrlock` succeeds, and the checks after it | `CreateTry`, `DeleteTry`, `MoveTry1`, `MoveTry2` |
| `trywrlock` fails | `TryFails` (first path), `TryFails2` (second path of a move, which then looks `RecoverPath` up) |
| `inode_create` | `SkipInode`, `LockInode`, `InodeInUse`, `AllocateInode`, `NoInode` |
| write lock of the child | `LockChild` |
| `dir_add_entry`, `dir_reset_entry`, `inode_delete` | `CreateAddEntry`, `MoveAddEntry`, `MoveResetEntry`, `DeleteRemove` |
| `print` | `PrintOpen`, `PrintLock`, `PrintUnlock` |
| `unlock_locks`, `sendto` | `Unlock` |

`held` is the array of one operation; `cur` is `current_inumber` while it looks a
path up and `parent_inumber` afterwards; `stage` says which of its lookups it is
in (`delete` looks its parent up twice; a move has `path1`, `path2` and, after a
failed try, `recover`). An action reads and writes only between two lock
operations; the release of several locks is one step, as it cannot block and
nothing is accessed in between. A failed try, the sleep and the release are one
step: the thread holds less at every moment of the sleep than before.

Refinement to `FileTree`: the tree is the set of paths and types the entries
spell out. A move takes effect when it adds the new entry; until it resets the
old one, the old one is not counted (`Visible`) — which is what other threads see,
since both directories are locked to write. An i-node allocated by a create that
fails to add its entry is in no directory for ever: the code never frees it, and
`FileTree` counts it in `lost` rather than hide it.

### Messages

Each TCP connection is a process: `Accept` forks it and reads its request, and it
does one thing and ends. `check` is the test that the user is subscribed
(`Refused`). A call on the file system is one action: there is no lock, and
nothing less than a call is seen by another process. A file opened for writing is
`Blank` until it is closed, as `fputs` writes into a buffer.

| code | actions |
|---|---|
| `post`: `count_msg` for the answer | `CountForAnswer` |
| `CreateMsgDir`: `count_msg` again, `mkdir` | `CountForDir`, `GroupFull`, `MakeDir`, `DirExists` |
| author, text and file | `OpenAuthor` ... `CloseFile`, `Posted` |
| `retrieve`: `opendir`, loop of `readdir` | `OpenDir`, `NextEntry`, `EndOfDir` |
| the files of a message | `ReadAuthor`, `ReadText`, `ReadFile`, and `NoAuthor`, `NoText` |
| `mkdir`, `fopen` or `fwrite` fails | `CallFails`, `WriteFails` |
| the process ends, or is ended anywhere | `Exit`, `Killed` |

`retrieve` only counts the entries `readdir` returns and reads the messages by
number, so their order does not matter: `left` is how many entries `readdir` still
has to return, and entries made since `opendir` may be returned or not. `fscanf` of
an empty file leaves the buffer as the message before left it, which is why
`author` and `text` stay from one message to the next. `Subscription` is
the other process, the one of `Accounts`, seen from here. Groups share nothing: one is enough.

A client that closes its connection early is not noticed: a `read` of nothing ends the
loop (`server.c:854`) and the post goes on with what the buffer holds. `sent` is how
much of it came; a text or a file that was cut is stored as `Torn`, and answered
like any other. A text of more than 240 characters (`LongTexts`) is refused. Message 0
may be asked for; there is none. A call that fails ends the post with NOK and leaves
what it has made so far. Left out: the `fputs` of author and text, whose result nobody
looks at and which a full disk would cut short, and an `fopen` of `retrieve` that fails
on a file that is there.

### Accounts

One UDP process takes a request from `net`, serves it, and answers. Each file or
directory it makes or removes is a step, and `Crash` may come between any two:
what is left is what the next run starts with. `Lost` loses a request. The client
sends one request and waits; `GetReply` applies the answer to what it
remembers, `Timeout` ends the client, and another is started that knows
nothing, while the request of the old one may still be on its way or being served (`Orphan`).
An answer lost on its way, or late, is a `Timeout` after `Answer`. A user whose password file
is empty may log in with any password, or with none: the buffer it is compared
with was never written (`MayBeRight`, `MayBeWrong`).

A call of the server that fails ends the request there: `FirstCallFails` and
`LaterCallFails` (what a registration or a new group has begun stays),
`DelLoginFileFails`, `DelUserDirFails`, `CreateGroupDirFails`. What is not modelled is
the `unlink` of a subscription at `server.c:500`, whose result nobody looks at, an
`fopen` to read that fails on a file that is there, and a disk so full that an `fputs`
is cut short. Three variables are history, for the properties: `hurt`, the users that a
request has ever left half registered or half unregistered; `unmade`, the groups not made in full; `evicted`, the
pairs of a client and a user that another client has logged out or unregistered, or that an
unregister has left half way, since the client logged in.

### Store

Each action is a method of `Store.java` with everything it calls. A command that
throws before it changes anything is not a step. `ordering` is the supplier key
`DoRegisterOrderTransaction` keeps between the products of an order: while it is
set, the next step is `AddToLastOrder` or `CancelLastOrder` (an unknown product),
since the menu is waiting in that command; `more` is the answer to "more?".

`transactions` holds sales and orders as records; an order's `items` is a function
on all products, 0 for those it does not have. `standing` is the `Status` object
of a client: status and points. The four payment periods and the tests of
`getDiscount` are kept test by test, in hundredths of the base value.

The code's keys are case-insensitive in the maps but `registerOrder` compares
the supplier's as typed: `Fold` gives the map key of a typed one. Other keys, names,
addresses, service types and critical levels change no behaviour here and are left
out. Points are doubles in the code; here they are hundredths, rounded down when
a demotion divides them. Balances are compared before the code cuts their
decimals off. Amounts typed in are positive: the code does not ask, and with
negative ones it keeps none of the properties on stock.

### TargetTest

Each handler is an action or a few, one for each outcome. A press is abstracted to
the target it is on, or `Away`; the Fitts ID of a hit, a distance, to the target
that was hit, which is all `FittsMatch` needs to tell one trial's from another's. The
buttons of p5.js act when the mouse is released over them, wherever it was
pressed: `StartTest`, `ContinueTest` and `ReleaseElsewhere` share `Release`. The form
accepts only a number and a size in range; `student_ID` says it has.
`testStartTime` is the number of trials over when the clock was started: 0 if the
attempt was timed from its first. `BAKE_OFF_DAY` is true in this version, so that an
attempt is sent to the database; `EndAttemptRefused` is the `push` that throws on
an undefined field. `early` is set by a resize while the form is shown.

### WritingTest

A press (`PressKey`, `PressNothing`) and the release that acts on it (the actions with
`Type(k)`) are two steps. The release looks for the key at the place of the press, and a
`windowResized` in between moves the keys: `click` may be another then. A swipe is
abstracted to the letter it gives, if any. `Search` is one of the two halves of `autoComplete`: a suggestion that
fits stays, another gives way to the next word that fits, from `last_index` on. `trim`,
`computeLevenshteinDistance` and `Score` are the code's. `strayed` and `late` are set
where the code goes wrong on its own terms (see "Observed"), for the
properties to leave out. Times and rates are left out, and nothing is sent, as
`BAKE_OFF_DAY` and `STORE` are false in this version.

## Runs

### What the passing runs show

**`queue`**: three workers, two slots, one spurious wake-up,
four files: longer than the buffer, with a line the worker stops on, with a line
main stops on, and empty. 110 000 states. Two slots make the buffer full, empty
and wrapped; three workers let one take the pill while another still runs a
command and a third waits. `PillIsLast`, `WorkerNeverWaitsToInsert`, `Dispatched`
(refinement: each line once, in order, and nothing after the end) and `Termination`.

**`fs_tree`**: two workers, fourteen requests on paths up to three deep, and on
`/`, from the empty table; four i-nodes and two entries in a directory, so that
tables and directories fill up. 207 000 states. `LocksAndPaths` (what the arrays
say is locked is, and a path looked up under locks stays valid) and
`Linearizable` (refinement to `FileTree`).

**`fs_move`**: two workers, moves between `/`, `/a` and `/b` in both directions,
of files and of a directory with its contents, of a directory below itself and onto
`/`, from and to names without a slash, with create, delete and print of what is moved.
287 000 states.
`Ample` is TRUE: the seven i-nodes never run out, so `Linearizable` is checked
without the clause that lets a create fail for want of one. `TreeShape`,
`ChangesAreLocked`, `LocksAndPaths`, and `FirstPathHolds`: what a move found by its
first path is still what that path names when the move ends, though a refused try gives up
every lock on the way to it. Opposite moves can deadlock (see below), so TLC does not check
for deadlock here; every state they reach before is still checked.

**`fs_live`**: three workers; what the students can rely on: moves in one direction
between two directories with create, delete and lookup in them, and print.
218 000 states, without symmetry. `NoDeadlock`, `Progress`, and
`PrintSeesOneTree`.

**`messages`**: two connections, one after another without end, posts by both
users, one of them with a file, one cut short, one too long, and retrieves from the first
message and from message 0, two messages at most; any call of a post may fail. 4.8
million states. `MessagesDense`, `PostedIsStored`,
`RetrievedAsPosted`, `NothingOverwritten`.

**`accounts`**: two clients, one user, two passwords, two names and one group, one
request in flight beside the one being served; any call of the server may fail. 4.0
million states.
`DirectoryWhole`, `DoneWhenTold`, `BelievesLogin`.

**`store`**: from the empty store, one client, two suppliers, boxes in
stock and a book out of stock, two transactions, dates 0, 8, 11, 16 and 19 with
deadlines three days on: payments 3 days early, on the day, and 2, 5, 8, 13 and 16
days late, which is every period and both sides of both demotions. Four boxes
make a client Selection, eight make one Elite. 2.4 million states.
`StockBalances` and `AccountsAgree` recompute stock and money from the
transactions, `IndexesAgree` compares numbering and histories with them,
`StatusEarned`, `BetterStatusPaysLess`, `PriceNeverFalls` are about the discount
policies, `PaidIsFinal` and `EventsAreTold` about what a step may do.

**`targets`**: two targets, each selected twice, in every order; presses anywhere,
two of them after the last trial; resizes at any time. 601 000 states.
`RecordsAreWhole` and `CanGoOn`.

**`writing`**: two letters, four words of which two fit `a` beyond itself, two
phrases; up to two signs or words at a time, three phrases accepted in an attempt.
4.2 million states. `TextAgrees`, `SuggestsMostUsed`, and `AttemptIsScored`, which
computes the edit distance in another way, over all matchings of the two texts.

### Where the code and its documents disagree

Each run checks one sentence of the repository and finds it false:

| run | the repository says | the code |
|---|---|---|
| `fs_deadlock_test` | `SO/inputs/test5.txt:29`: moves in opposite directions succeed | both wait in `rdlock` for the directory the other has locked to write |
| `store_selection` | `PO/Enunciado.pdf`, 1.4 and 1.6: from day N+1 after the deadline, 5% a day | day N+1 still costs 2% a day |
| `post_identifier` | `RC/Enunciado.pdf`, 3.2: the status of a post is the number of the message | messages are counted once for the answer and once for the directory; another post may come in between |

### Observed

Seen while modelling, and kept by the models, without a run of their own:

- `m /a /a/a`: the second lookup meets the thread's own write lock, `rdlock`
  returns EDEADLK and the server exits (`LookupSelfDeadlock`), where
  `SO/inputs/test5.txt:61` expects a failure.
- A rename within one directory may remove the new entry and keep the old:
  `dir_reset_entry` takes the first entry with that i-node (`SO/Part3/fs/state.c:171`,
  called at `operations.c:567`). It also gives its own write lock up before it tries to
  take it (`operations.c:509`). `fs_move` sends no such moves, and the theorems on moves
  have it as a hypothesis (`DistinctParents`). Different parent paths
  are not enough: with `m /a/b/c /d/a/b/e`, where `/a` and `/d` are moved by others
  between the two lookups (`m /d/a /c`, `m /a /d/a`), both lead to the same directory.
- When the write lock on the second parent is refused, a move gives its read locks back and
  means to take those of the first path again (`operations.c:523`, "recover read locks from first
  path"), but `parent_name1` points into `name_copy`, which holds the second path by then (499).
  From then on nothing keeps the directories above the first parent in place: with `/a/b/c` and `/x`,
  a `m /a/b/c /x/e` whose try was refused goes on while `d /x` and
  `m /a /x` rename what is above it, and succeeds from `/a/b/c` to `/x/e` although there is
  a `/x` only since there is no `/a`. TLC finds that
  such requests have no order in which they could have been applied one at a time. `Linearizable`
  is therefore about moves whose sources lie below no directory that another move takes away,
  other than their parent, which is locked to write. For these `FirstPathHolds` says that
  nothing comes of the wrong path; `FirstPathKept` proves it.
- Only the first product of an order is checked against the supplier
  (`Store.java:627`); "Registar Encomenda" in `PO/Enunciado.pdf` refuses any. In
  `store`, `AddToLastOrder` adds products of either supplier.
- `retrieve` may send an author left from the message before, or from nothing, when the author's
  file is still empty (`RC/Proj/server.c:1084`). `RetrievedAsPosted` is about the messages
  that were finished when the retrieve began.
- A crash, or a call that fails, in the middle of `reg` leaves a user without a password; in
  `subscribe`, a group without a name; nothing repairs the group. `DirectoryWhole` says that this
  never reaches another user or group, and what still holds of the one it was about: nobody
  without a directory has a password or is logged in, no group without a name has users.
- A post whose connection is closed early is stored cut short and answered as done
  (`server.c:854`). `PostedIsStored` is about posts that came in full.
- Proj2: a resize before START shows the targets behind the form, and presses on
  the form are trials (`sketch.js:440`); with all trials done before START the
  results are refused, since there is no student number yet, and the test cannot go on.
- Proj3: deleting one of two spaces keeps an empty word too many (`sketch.js:678`);
  the blank suggestion is never reached (834, 846); a resize after the last phrase
  shows the watch again and another ACCEPT ends another attempt (531, 809).

### Fairness

`CommandQueue`: weak fairness of each thread's steps. A thread that wants the
mutex is only disabled while another has it, which always lets it go; taking it
is weakly fair for the program as a whole because a thread that is passed over
runs out of rivals: the commands of the file are finite. `SpuriousWakeup` is not
fair.

`TecnicoFS`: weak fairness of `Step(t)`, and `<>[][~Bumps(t)]_vars`. The second
part stands for the random sleep, whose range grows with the number of tries
(`operations.c:461,524`): a thread does not for ever find the directory locked by
threads that are themselves free to go on. It says nothing of a
directory held by a thread that itself waits for a lock: sleeping does not help
there, and the moves of `fs_live` all go one way so that it passes. `Progress` speaks of the
system, not of each thread: with reader preference a single writer may starve
under steady traffic, in the code as in the model. `Receive` is not fair: clients
need not send.

The others have no fairness. `Store` has one user, and every command ends in the
step that starts it, but an order, which may be left unfinished. A user of the two
tests need not go on; `CanGoOn` says that it is possible. The processes of the message
server may be ended at any point, and a datagram lost: the code answers that with
the client's time limit and promises nothing more.

### Bounds

`MaxSpurious` bounds the spurious wake-ups; requests are drawn without limit from
the sets in `MCTecnicoFS`, so the states of the file system are all those that
any number of requests reach. The number of tries is not kept (it only sets the
length of the sleep).

`MAX_MESSAGES`, `MAX_RETRIEVED` and `MAX_GROUPS` are constants of the code, smaller
here, so that the groups and the messages run out. A third message, which
would let a retrieve be cut off before the last, is too much for TLC;
`RetrievesAreFaithful` covers it for any limits. Connections and
clients come back without limit: two at a time are what a race needs, and the theorems
are for any number. `MAX_IN_FLIGHT` bounds the requests on their way: one that an
ended client has left and the one of a client that waits, which is served late.

In `Store`, `MaxDate` ends the calendar, `MaxTransactions` the numbering,
`MaxUnits` the units of a product in one order and `MaxNotifications` a client's
list (the product does not change when it is full). Two transactions
are enough for a sale beside an order and for two sales of one client, the first
of which changes the status that prices the second. One client suffices because a
command reads and writes one client only, but for the notifications, which are the
same for all observers. The five dates are chosen to fall in all four periods of
two products whose periods differ.

`MaxExtra` bounds the presses counted after the last trial, which change nothing
but the counters; `MaxTyped` the text and the words beyond which no more is typed
(a suggestion may make the text longer once); `MaxTrials` the phrases of an
attempt: the third is the one too many.

## Proofs

TLAPS proves these for every value of the constants.

**`CommandQueueProofs`.** `TypeCorrect`: `Spec => []TypeOK`. The pill properties
are not inductive on their own; `IInv` adds what they rest on: which thread may be
where (`Roles`), one owner of the mutex and it is inside (`Mutex`), who waits on
which condition (`Waiting`), the three counters agree modulo the size (`Ring`),
the queue is in file order (`Ordered`), everything queued was read (`ReadBefore`),
no pill before the end of the file (`NoPillYet`), one pill altogether, in a slot,
in a hand, or being put back, in which case the queue is empty (`OnePill`).
`Inductive`: `Spec => []IInv`; then `PillStaysLast` and `PillNeverBlocks`. The
second means the code would be right even with one slot.

`Implements`: `Spec => Dispatched`, the refinement. `RInv` adds to
`IInv` what the mapping rests on: one line was removed last and what is queued, or about to be,
comes after it (`RemovedFirst`), so that `handed`, the highest line removed, is the last one
given to a worker; a line that was read is skipped, removed, queued or about to be
(`Accounted`), so none is lost between two that were handed; only lines that main accepts are
queued (`Accepted`); the file was read to its end before the pill is made (`AllRead`) and
the workers have ended before main has (`AllEnded`). Each step of the queue is then a step of
`Dispatch` (taking a line, ending a line, ending a worker, ending all) or leaves its
variables as they are.

**`TecnicoFSProofs`.** `TypeCorrect`: `Spec => []TypeOK`. It needs `ControlOK`:
for each place and stage, which request is served and which variables have been
set (a thread about to lock the child has one; a move in its second path has its
first parent). Then `WritesLocked`, the write locks a thread has at each place,
is preserved by every step of a thread and by every step of another, because a
lock leaves a writer's hands only through the writer. `ChangesLocked`:
`Spec /\ []DistinctParents => ChangesAreLocked`: nobody ever changes an i-node
without its write lock, for any number of threads, table and requests. The
hypothesis is necessary: a move that holds one directory in both roles
gives its own lock up; `ParentsDistinct`, below, says which requests keep it.

**`TecnicoFSTreeProofs`.** The invariant of `TecnicoFSProofs` with three more parts that only
hold together. `LInv`: for every lock, readers and writer are those whose arrays say so, and
what a thread has locked at each place. `PInv`: a thread in a lookup has walked from the root
to where it is, along its path, through nodes it holds and none twice. `TInv`: the table is a
tree, but for a node that is being moved; a thread that is about to add, remove or move an entry has
found it, or its absence, in the directory it has locked to write (`Found`). A walk is kept because
its nodes are locked (`LInv`), the locks are kept because no lookup comes twice to one node
(`PInv`), and that rests on every node having one entry (`TInv`), which is kept because who
changes a directory has it locked.
Under `[]DistinctParents`: `LocksAndPathsHold`, `TreeHolds`, `PrintHolds` (the root's lock
alone shuts everybody out: any other thread that has a write lock has walked from the root, and
still has it locked to read). `ParentsDistinct` says which requests keep the hypothesis:
those in which the parent directories of a move have different names (`MovesApart`; that they have
different paths is not enough, see "Observed"). For these `ApartSafe` needs no hypothesis on
behaviours. `FirstPathKept`: `Spec => []FirstPathHolds` for these, if no move takes a directory
from above the first parent of another (`MovesSettled`). The way from the root to the child is
carried by `FInv`: its last entry is in a directory that the move itself has locked, and the others
have names that no move takes away and lead to directories that are not empty, which no delete
removes. `NoMovesNoDeadlock`: for create, delete, lookup and print. A thread holds only
nodes on its path (`HInv`) and waits for the next; so if it is blocked by another that waits too,
that one waits for a node further from the root, and a finite circle cannot go on for ever.
With moves there are deadlocks (`fs_deadlock_test`).

**`MessagesProofs`.** `IInv` is `TypeOK`, `MessagesDense`, that no two processes
write in one directory (`OneOwner`: `mkdir` succeeds once), and for each
connection: the directory it made holds exactly what it has written so far
(`OwnDirectory`), its count is not more than the messages there are (`Counted`), its
labels and request agree (`Labelled`), what it has read of a message that was
finished is that message (`ReadSoFar`), and `Retrieved`. A finished message has no
writer and never gets one, which is what carries the last two. `Inductive`; then
`Dense`, `PostsAreStored`, `RetrievesAreFaithful`, and `NothingChanges`, which
needs `OwnDirectory` to know that a writer only fills in what was `Absent` or `Blank`.
Counting messages uses the library's theorems on cardinality.

**`AccountsProofs`.** `IInv` is `TypeOK`, `DoneWhenTold`, `DoneSoFar` (at each place
of a command, what it has made or removed so far) and `WholeBut`: every user is whole, or the
one being served (`InWork`), or one that a request was given up on (`hurt`); every group is
made in full, or being made, or `unmade`, and even then in the order name after `MSG`, users
after name (`Made`).
`WholeDirectory` and `AnswersAreTrue` follow. `LoginsBelieved` needs a second invariant,
`LInv`, of what travels: a request that comes from a client is the one that it waits for, and
there is one of it, on the way, being served, or answered (`Pending`); a
login that was answered is good until it is believed, unless another has put the user out
since (`LoginTold`); and what is believed is
true unless a logout or an unregister of that user is done or being done for this very client
and its answer can only be that it was (`Believed`). A password file that is left
empty accepts any password, which is why `Known` lets it be `Blank`.

**`StoreProofs`**. `IInv` is `TypeOK` with two facts that it needs. `Dense`: the
transactions are those numbered below the counter, so the one a new sale or order
puts in is new. `OpenOrder`: while an order is typed in, it is the last
transaction and the last of its supplier's list, and what it brought is still in
stock, since `AddToLastOrder` and `CancelLastOrder` find the order at the end
of that list and the latter takes its units off the stock again. `Inductive`:
`Spec => []IInv`; `TypeCorrect` follows, and with it that no stock is ever
negative. Three lemmas say what the discounts do: each is a natural number, a
better status never has a smaller one, and it does not grow as days go by. From them
`BetterStatusNeverCostsMore` and `WaitingNeverPays`, for every period of payment and
every price. `StatusIsEarned`, `PaidStaysFinal` and `WatchersAreTold` follow the points, the
payments and the notifications through each action. `HistoriesAgree` needs one fact
more, that the supplier of every order is registered: then a new client or supplier, whose
history is empty, has no transaction yet, and a history grows by the number that is above
all others and loses the one that is last in it.
`StockIsBalanced` and `AccountsAlwaysAgree` are about sums over the transactions. The sum is a
recursive function on finite sets, inside the fold of the community modules; what a recursive
function computes is proved here from the existence of one that satisfies its equation and
from there being no other (of two that differ, take a smallest set where they do). `SumInsert`,
`SumDelete` and `SumChange` then say what a new, a removed and a changed transaction do to a sum, and each
action is one of the three. The stock needs that only registered products are brought by
orders (`ItemsRegistered`); the accounts that the histories name the client's own transactions, from
`HistoriesListed`.

**`TargetTestProofs`.** `Tally`: hits, misses and results add up to the current
trial, each result is of its trial. `Phases`: form, buttons, targets and attempts
that go together. `OnTime`: unless the window was resized early, no trial is over before the
clock starts. With these `WholeAttempts`, `TimedWhole` and `CanGoOn` are inductive:
`WholeRecords`, `NeverStuck`, for any number of targets and repetitions.

**`WritingTestProofs`.** `Covers`: of the words before `last_index`, those that fit are
among the two suggestions; `Fit`: if a word after it fits, both suggestions do. Both
hold at the word being typed and are kept when it gets longer, and a search that starts
again makes them true of a shorter one. `Search` takes the least word that fits: that
there is one (`MinOfWords`) follows from the well-foundedness of strict inclusion on
finite sets. `MostUsedAreSuggested`: for any list of words and anything typed, deleted and
completed, `SuggestsMostUsed`.
`TextIsThatOfWords`: the text of words and one more is that of the words, that word and a space
(`JoinedAppend`, about the fold that joins them), so every key adds or takes the same on
both sides. `LevenshteinIsEditDistance`: a cheapest matching of two texts leaves out the last
sign of one or matches the two with each other (`LastPair`: two pairs that use one last place each would
cross), so its costs satisfy the recursion of the code (`LeastStep`); and only one table
does. With the scores of the phrases accepted so far (`Scored`) and the attempts that
have ended (`Counted`): `AttemptsAreScored` and `TypeCorrect`.

Assumptions on constants: a finite non-empty set of workers, at least one slot, at
least one i-node and entry; initial tables of the right type, which are trees as the one `init_fs`
leaves (`TreesAssumption`); values that stand
for "none" outside the sets they are added to; in the store, keys
that fold to keys, a well-typed catalogue, and positive quantities; at least one
target and repetition; at least two words.

**Model-checked only.** The refinement of `FileTree` (`Linearizable`), for the requests of `fs_tree`
and `fs_move`: a proof needs, beside the tree of `TreeShape`, that the function of paths is one
and that what a walk holds spells the same path, and a hypothesis on moves above moves ("Observed").
`NoDeadlock` where there are moves. `LocksAndPaths`, `TreeShape` and `PrintSeesOneTree` for moves that may come to hold
one directory twice are neither: they do not hold. Liveness (`Termination`, `Progress`) is
out of the prover's reach.

## Not modelled

- **Commands that only read** (`RC`: groups, my groups, the users of a group) and the
  TCP side of the RC client: they change nothing but a file the client receives.
- **Datagram sockets of TecnicoFS and its client library** (`SO/Part3/main.c`,
  `client/`): one `sendto` and one blocking `recvfrom` for each operation, no state
  between them. A client whose answer never comes waits for ever, as one reads in the code.
- **SO part 1 and the file system of part 2.** Part 1 runs whole operations under one
  mutex, one rwlock or no lock (its `lookup` uses `strtok`, whose state is shared, under
  a read lock); part 2's operations are an earlier version of part 3's with the same
  locking. `TecnicoFS` is the version they lead to.
- **Saving and loading the store** (`Storefront.java`). Java serialization of the
  whole store; a save truncates the file before it writes. What a file that was cut
  short loads as is the serializer's.
- **Menus and the user-interface library** (`PO/Proj/woo-app`, `po-uuilib`): no state of the store.
- **`p5.js`, `ppi.js`, `firebase.js`** (`IPM`): vendored. Nearly all JavaScript lines of the
  repository are the two copies of `p5.js` (95 702 lines each), so that the share of
  that language's lines the models stand for is small however much of the two sketches,
  the students' code, is modelled. What the sketches need of the library, when it calls their
  handlers, is in the actions' guards.
- **`ASA`, `IAED`, `IA`, `FP`, `LP`**: batch programs and exercises, functions of their input.
- **`Apre`, `CG`, `IAC`, `TC`**: data analysis, assembly, a table, reports.
