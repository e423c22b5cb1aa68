# VERTEX: a TLA+ model of the app and of what it stands on

VERTEX (`src/mad/lib`) is a Flutter app for a high school. Students, teachers
and parents sign in and see their home page, a calendar, the clubs
("ClubHub"), the school shop ("Bookkeeper"), their messages and the settings.
All shared data is in one Firestore database, which every device reads and
writes directly: there is no server code of the app's own. The repository
carries the native libraries the app is linked with (`src/mad/Pods`): the
Firestore client for C++ and, beneath it, LevelDB and nanopb. This directory
models the handlers and loaders of the app and the concurrent and stateful
parts of those libraries, checks them with TLC, and proves the safety
properties of most of them with TLAPS for every value of the constants.

## The system

### Parts and state

The app (`src/mad/lib`):

| part | source | state it holds | operations that change state |
|---|---|---|---|
| student home | `home/home.dart` | `events`, `classes`, `clubs`, the rows drawn | initState (three loaders), the two list buttons, Message |
| teacher home | `home/home_teacher.dart` | `events`, `classes`, `clubs` | initState (four loaders), the list buttons |
| parent home | `home/home_parent.dart` | `children`, `events` | initState (two loaders) |
| absence form | `home/studentAbsences.dart` | the fields of a form | fields, two Submit buttons |
| student calendar | `calendar/calendar.dart`, `student_set_event.dart` | `events`, `hasLoaded`, the form | getDocuments, the form, Submit |
| teacher calendar | `calendar/calendar_teacher.dart`, `request_event.dart` | `events`, `hasLoaded`, the form and its clubs | getEventsDocuments, retrieveClubs, the form, Submit |
| parent calendar | `calendar/calendar_parent.dart` | `appointments`, `hasLoaded` | getEventsDocuments |
| club browser | `clubhub/browse_clubs.dart` | the list of clubs, a list for each category, the search bar | getActivities, search, categories, the cards |
| club page | `clubhub/club_info.dart` | `joined`, the Navigator's stack | Join, Remind, Instagram, back |
| bookkeeper | `bookkeeper/*.dart` | the list of items, the search bar, dialogs | getBookkeeperItems, search, Buy Now, Confirm, Cancel |
| conversations | `messaging/student_messsages.dart`, `teacher_messages.dart` | the messages, the input box | send a text or an image, pick, remove, stream |
| announcements | `messaging/teacher_class_messages.dart` | the students of a class | getStudents, sendAnnouncement |
| settings | `settings/*.dart` | name, pronouns, the forms | change pronouns, recommendation |
| sign-in, tabs, data classes | `authentication`, `tabs`, `classes` | the tab that is selected | sign in, change tab |

The libraries (`src/mad/Pods`):

| part | source | state it holds |
|---|---|---|
| RemoteStore, streams | `FirebaseFirestore/.../remote/remote_store.cc`, `stream.cc`, `remote_event.cc`, `online_state_tracker.cc` | targets listened to, write pipeline, two streams with timers, the changes gathered for a snapshot |
| calls | `remote/grpc_stream.cc`, `grpc_completion.cc`, `datastore.cc`, `grpc_connection.cc` | completions, buffered writes, active calls, the channel |
| the queue | `util/async_queue.cc`, `executor_libdispatch.mm`, `task.cc` | tasks, their reference counts, the mode |
| sorted map, protocol buffers | `immutable/*`, `nanopb/*` | values and buffers |
| LevelDB | `leveldb-library/db/*`, `table/*`, `util/*` | memtables, logs, tables, versions, manifest, cache, iterators |

### How the parts interact

Devices interact only through Firestore. A student's join writes
`students/<s>/activities` and the `members` field of `activities/<c>`; a
teacher's request adds to `activities/<c>/events`, which the calendars and the
home pages read; the two ends of a conversation share
`conversations/<teacher><student><class>/messages`, to which announcements
write as well. On one device the parts interact through the Navigator's
stack: a handler that waited uses the context of a page that may have gone.

Beneath, every call of Firestore is a task of one worker queue. RemoteStore
runs on it and talks to the server through streams, which are gRPC calls whose
completions a polling thread puts back onto the queue. What the client keeps
on the device is stored by LevelDB, which has a background thread of its own
and has to survive the death of the process.

### What is hard about it

Dart runs one event loop: code between two `await`s is atomic, and at an
`await` anything else may run. The loaders use
`docs.forEach((e) async {...})`, which starts one task for each document and
waits for none of them. So lists are filled, sorted, filtered, cleared and
reloaded by tasks in any order, while the user presses buttons. A change
outside of `setState` is not drawn until something else rebuilds the page. A
read, an `await` and a write of the same field (the number of members) is
not atomic across devices. The app can be killed at any `await`; the writes it
issued are queued on disk and still happen.

In the libraries it is threads and failures: tasks that libdispatch runs while
others cancel or dispose of them, completions that arrive after a shutdown, streams
that break while an answer is due, a flush in the middle of a compaction, a
crash between any two writes to the disk, a manifest that may or may not have
got the last edit.

## How the code is modelled

* App: an action is one segment of a handler, from an `await` (or the user's
  press) to the next `await` or the end. Guards are the code's conditions,
  among them early returns and tests of `snapshot.exists`.
* `docs.forEach((e) async ...)` is a set of tasks, each with its own position
  (`club[c]`, `class[k]`, ...). A task whose document is missing throws and
  ends, and the others go on, as in Dart. When the callback has no `await`,
  the whole batch is one action.
* A batch of documents comes in an order Firestore chooses (`Listings` in
  `EventData`). `List.sort` is not stable: `Sorts` allows every sorted order.
* `setState` sets `dirty`; `Frame` rebuilds and records what is drawn (`rows`).
* Libraries: an action is what a thread does between two points where another
  one can be seen: from taking a mutex to releasing it, one load or store of
  an atomic, one operation on the disk. In RemoteStore, where everything runs
  on one queue, an action is one task of the queue.
* Names, texts, items and documents are model values or members of small
  sets. Times are small numbers and `Tick` advances the clock up to `MaxNow`;
  "still to come" is `endTime > now` as in the code. Colours, layout and wording
  are left out.
* The app makes the id of a document of a name with
  `replaceAll(' ', '_').toLowerCase()`. The form of a teacher offers the names it
  read in the documents of the clubs and writes to the document whose id it makes
  of one: `NameOf` and `DocumentOf` of `CalendarData`, two functions of which nothing
  is assumed. On the other pages a club, a student or an item is one model value for
  its name and its document; there names are taken to lead to their documents, which
  they do as long as a document's id was made in this way.
* The server, gRPC, libdispatch, the file system, the Navigator, the clock, `List.sort`
  and the operating system are outside of `src/`; their definitions are marked
  external in `PROJECT.json`.
* Operators such as `WriteMembersByTwo`, which stand before the definition
  they vary, are wrong versions of the code; no specification uses them. They
  show that a property would notice the mistake.

## Modules

### The app

| module | models | variables to code | main actions |
|---|---|---|---|
| `EventData` | what the pages share: events with a start and an end, listings, `events.sort` | | operators only |
| `PageData`, `CalendarData` | the documents the pages, and the calendars, read, and how often the person acts | constants only | |
| `StudentHome` | student home page | `events`, `classList` = `classes`; `main`, `club`, `class` = positions of the loaders; `dirty`, `rows` = rebuild and rows drawn; `message` = Message handler | `GetClub`, `GetClubEvents`, `GetNchsEvents`, `GetPersonalEvents`, `GetTeacher`, `Frame`, `TapMessage`, `OpenMessages` |
| `TeacherHome` | teacher home page | the same | `GetClubEvents`, `GetNchsEvents`, `AddClub`, `AddClass`, `Frame` |
| `ParentHome` | parent home page | the same, with a task for each child and for each child's club | `GetChild`, `GetActivityEvents`, `GetNchsEvents` |
| `ParentCalendar` | parent calendar | `appointments`, `hasLoaded` | `GetActivityEvents`, `GetNchsEvents`, `isDuplicated` |
| `Absences` | report of an absence | `form` = the fields, with the range of the picker beside the dates; `absences` | `selectionChanged`, `oneSelectionChanged`, the other fields, both Submit buttons, back |
| `Bookkeeper` | list of items, search, purchase dialog | `bookkeeperItems`, `query`, `pending`; `stack`, `leaving` = routes and dialogs in their exit animation; `waiting` = Confirm handlers | `searchActivity`, `ItemsLoaded`, `BuyNow`, `Confirm`, `Confirmed`, `Cancel` |
| `ClubBrowser` | list of clubs, categories, search | `activites`, `byCategory`, `isSearch`, `query`; one position for each load and club | `GetActivities`, `GetAchievements`, `searchActivity`, `TapCategory` |
| `Chat` | a conversation on two devices | `server`, `view` = the messages stored and on each device; `text`, `isPhoto`, `imageUrl`, `uploads` = input box; `posted`, `removed` = history | `sendMessage`, `setImageData`, `uploadImage`, `Uploaded`, `RemoveImage`, `Snapshot`, `Store`, `Refuse` |
| `Announcements` | announcements to a class | `students` = the list of the page, `roster` = the class; `always`, `ever` = who was in it all the time, and at some time, since the page was opened | `getStudents`, `sendAnnouncement`, `Enrol`, `Withdraw`, `Reopen` |
| `Settings` | settings, pronouns form, feedback form | `pronouns`, `routes`, `feedback` | `GetPersonDocuments`, the forms, Submit, back |
| `HomePages`, `TabPages` | the ten modules above as parts of `Pages`: their variables and instances, and for each page the invariant and the lemmas of its proof | | |
| `Pages` | the page a person has in front of them after signing in | `page`, and the variables of the open page; those it does not have are `None` | `OfStudent(A)`, `OfShop(A)`, ...: a step of the page that is open |
| `StudentCalendar`, `TeacherCalendar` | a calendar and its form | `events`, `hasLoaded`, the form; `personal` = `students/<s>/events`, and the names of the clubs the teacher's form offers | `GetClubEvents`, `GetPersonalEvents`, `ListClubs`, `AddClub`, `PickTime`, `SelectClub`, `Submit`, `Reopen` |
| `SchoolCalendars` | the two calendars over the same `clubEvents` and the same clock | instances of the two modules | `TeacherActs`, `StudentActs` |
| `ClubJoin` | cards, club page, Join, on the devices of any number of students | `activities`, `members` = Firestore; `stack` = Navigator; `pc`, `read`, `route` = each Join handler | `TapCard`, `CardLoaded`, `TapJoin`, `ReadMembers`, `WriteMembers`, `UpdateFails`, `ShowOutcome`, `Back`, `Kill` |

A page is a module of its own; `Pages` opens one of them in its initial state
and then takes its steps. The pages share variables of the same meaning
(`events`, `now`, `query`, ...), which is why there is one module for the sum
and not ten runs.

### The libraries

| module | models | notes |
|---|---|---|
| `Stream`, `WatchChangeAggregator`, `RemoteStore` | `stream.cc`, `exponential_backoff.cc`, `online_state_tracker.cc`; `remote_event.cc`; `remote_store.cc` | a method is an operator from client records to client records; an action of `RemoteStore` is a task of the queue, or a step of the server or the network. A HARD_ASSERT that fails leaves its name in the record. `Garble` makes a message unreadable, which `OnStreamRead` answers by closing the stream. |
| `GrpcStream` | `grpc_stream.cc`, `grpc_completion.cc` | gRPC, the poller and the worker take turns |
| `Datastore` | `datastore.cc`, `grpc_unary_call.cc`, `grpc_streaming_reader.cc`, `grpc_connection.cc` | two calls, the shared channel, shutdown |
| `AsyncQueue` | `async_queue.cc`, `executor_libdispatch.mm`, `task.cc` | the threads of the queue; `refs` is `ref_count_`, `timers` and `ready` are libdispatch's |
| `SortedMap` | `immutable/sorted_map.h`, `array_sorted_map.h`, `llrb_node.h` | recursive operators on trees |
| `Nanopb` | `pb_encode.c`, `pb_decode.c`, `pb_common.c` | words scaled down, the arithmetic of widths kept |
| `LogFile` | `log_writer.cc`, `log_reader.cc` | blocks of seven cells; torn, damaged and from an offset |
| `LRUCache` | `util/cache.cc`, `table_cache.cc` | lists, hash chains, reference counts |
| `SkipList` | `skiplist.h` | one inserter, one reader without a lock, every load and store a step; a node is linked into a level by two stores (`TakeOver`, `Link`) |
| `Table` | `table_builder.cc`, `block_builder.cc`, `filter_block.cc`, `table.cc`, `block.cc`, `two_level_iterator.cc` | |
| `DBIter` | `db_iter.cc`, `merger.cc` | |
| `Firestore` | the eleven parts above, one at a time | `part` says which; its variables are `x1`, `x2`, ... in the order its module declares them |
| `VersionSet` | `version_set.cc` | operators: lookups, the choice of a compaction and of its inputs, edits |
| `DBImpl` | `db_impl.cc` | writers in groups, readers, snapshots, the background thread, failed and torn appends, crashes, recovery |
| `KVStore` | | what LevelDB promises: a log of writes that only grows, and loses only what was not synced at a crash |

In `DBImpl` the disk is `logs`, `tables`, `manifests` and `currentFile`; the rest
is the memory of the process, which `Crash` and `Closed` take away. `pc` says
where in `Write` each thread is, `bg` what the background thread does:
`bg.comp` a compaction, `bg.number` a flush (which may interrupt one),
`bg.edit` the version edit that is being written. Recovery goes step by
step (`Recover`, `RecoverLogFile` once per record, `RecoverNextLog`,
`OpenLog`, `NewManifest`, `SetCurrentFile`, `OpenFinish`), and a crash may come
between any two.

`MCPages`, `MCClubJoin` and `MCFirestore` give the constants their values; for
`SchoolCalendars` and `DBImpl` the configurations and a few definitions at the end
of the module do. `ClubJoinProofs`, `EventDataProofs`, `SchoolCalendarsProofs`,
`PagesProofs`, `AsyncQueueProofs`, `DBImplProofs`, `HomePages` and
`TabPages` hold the theorems.

## Runs

Deadlock is checked in `ClubJoin_join`, `DBImpl_store` and the Firestore runs: a
student can always go on, and a store or a client that has come to rest says so
(`Rest`). On a page that has loaded, with its bounds used up, nothing is left to
do, and the check is off.

| run | checks | shows |
|---|---|---|
| `ClubJoin_join` | `TypeOK`, `CountWithin`, `ExactWithoutOverlap`, `NeverOvercounted`, `CleanJoinsAreCounted`, `AlreadyJoinedIsTrue`, `AskedOnItsPage` | 486,510 states: the number of members, and what is on the screen, in every interleaving of the presses of two students, one of whom has two pages of the club, with dialogs, the Instagram view, a club without a document, failed updates and deaths of the app around running joins |
| `Pages_load` | `TypeOK`, `ListedOnce`, `NoDuplicates`, `ListsInOrder`, `CategoriesAgree`, `SentAsMeant`, `ConfirmLandsOnItem`, `AnnouncedToTheClass`, `EventuallyComplete`, `SpinnerEnds` | 287,330 states: every order of the answers on ten pages, with a missing club and a missing child among them; searches over loads, presses around exit animations, two uploads at once, refused messages, ranges of days, announcements while students enter and leave the class |
| `SchoolCalendars_seen` | `TypeOK`, `AwaitedEventsShown`, `RequestedInOneClub`, `SubmittedIsShown`, `SeenByStudents` | 221,790 states: a teacher's request and a student's own event against the loading of both calendars, two pages each |
| `DBImpl_store` | `TypeOK`, `ReadsNewest`, `NeededFilesExist`, `LevelsSorted`, `KeepsItsPromise`, `WritesReturn` | 168,160 states: two writers, a reader or a snapshot, the background thread, a failed disk operation, which may leave a part of a record in the log, and two crashes at every point where the mutex is released and at every step of recovery. `KeepsItsPromise` is the refinement of `KVStore` |
| `Firestore_client` | `TypeOK`, `AssertionsHold`, `ResultsCorrelate`, `CurrentViewsMatch`, `OnlineIsConnected`, `RefsAreOwners`, `NothingAfterwards`, `EventuallySynced` | 427,301 states: RemoteStore in thirteen scenarios of broken connections, unreadable messages, existence filters, refusals, restarts and switches of the network; the queue with two threads and the worker; a gRPC stream; two calls of Datastore |
| `Firestore_storage` | `MeansTheSame`, `FilesReadBack` | 170,128 states: the sorted map, nanopb, and the log, cache, skip list, tables and iterators of LevelDB |

The following runs state what a comment or the app's own instructions say.
TLC refutes each of them; `findings` in `PROJECT.json` quotes the text.

| run | property | what happens |
|---|---|---|
| `ClubJoin_members` | `NumberOfMembers` | two joins overlap and one increment is lost |
| `Pages_message` | `MessagesTheClassTeacher` | an index into `classes` is used after an `await` |
| `Pages_cancel` | `CancelledNotRegistered` | Cancel is enabled while a confirmed purchase is written, and the purchase is registered |
| `Pages_search` | `ResultsMatchQuery` | items that load after a search are not filtered |
| `DBImpl_torn` | `SyncSurvives` | an append fails and leaves a part of a record in the log; recovery stops there, and the writes after it, acknowledged with sync, are lost |
| `Firestore_refused` | `OutstandingIsOwed` | the refusal of a target that was stopped and listened to again is ignored, and one answer too many is waited for |

### Where the passing properties are weaker than the text

Some statements of the comments and instructions hold only with a condition,
which the property then has:

* "Events will be prioritized based on time" (`home.dart:127`): a club that
  answers after the only sort is appended. `OrderedUnlessLate`.
* "If the classes haven't loaded, a progress circle will appear"
  (`home.dart:255`; `home_teacher.dart:229` is alike): classes arrive outside
  of `setState`, and the circle stays when no rebuild follows. `SpinnerEnds`
  starts from a rebuild that is asked for.
* "display the events to the user when they have all been loaded"
  (`calendar.dart:160`): the tasks of the clubs are not awaited.
  `AwaitedEventsShown` is about the events that are.
* "your event will be displayed at the date chosen" (`instructions.dart:307`):
  an event that is over can be submitted and is not displayed.
  `SubmittedIsShown` excepts it.
* "When nothing has been searched for, a list of all of the clubs at NCHS will
  be displayed" (`instructions.dart:343`): a category clears the search bar
  and not the filter. `ListsComplete` excepts a filtered list.
* "so that the whole class can see your message"
  (`instructions_teacher.dart:179`): the dialog opens before the students have
  loaded, and the list is read once. `ReachesTheClass` says how stale it may be:
  with the list there, everyone who has been in the class since the page was
  opened gets the announcement, and nobody who was not in it since then.
* "It has the name of the activity, adviser, number of members"
  (`classes/activity.dart:4`): `NeverOvercounted` and `CleanJoinsAreCounted` are for
  clubs for which no student pressed Join twice. A page offers Join again after a
  join, and a second press counts a second time.
* The store `KeepsItsPromise` of a write acknowledged with sync unless a torn record
  stands before it in the log, which is what `DBImpl_torn` shows.
* "If this was a permanent error, the request itself was the problem"
  (`remote_store.cc:523`): a result that cannot be read is an error that counts
  as permanent (`kErrorDataLoss`, `datastore.cc:408`), and a write the server made
  is rejected. `ResultsCorrelate` excepts it.
* "We reset the mapping and raise a new snapshot with `isFromCache:true`"
  (`remote_event.cc:237-238`, an existence filter that does not match). A filter that comes before the target is current
  empties a view, which is then called current until the server has answered the new
  listen; and a target that is stopped and listened to again between the filter and its
  snapshot keeps the documents the filter disproved. `CurrentViewsMatch`
  excepts the two (`emptied`, `unreset`), and shows that neither happens without
  such a filter or such a stop.
* Dispose "synchronously waits" for the operation that runs
  (`async_queue.h:129`, `executor.h:75`), except for an operation that
  cancels its own task: `DisposeIsFinal` excepts that one.
* The assertion of `Builder::MaybeAddFile` that the files of a level do not
  overlap: a flush that interrupts a compaction, and whose write to the
  manifest fails, is made again later, and the manifest may then have both.
  `LevelsSorted` is for disks that did not fail.

Smaller observations that no run states: a club page keeps the label it was built
with, and offers Join after a join (`club_info.dart:382`); the parent calendar
exchanges start and end of a school event (`calendar_parent.dart:150-151`,
modelled as it is); a message the server refuses vanishes from the screen
without a word; the order of messages rests on the clocks of two devices; a settings page whose person has
empty pronouns shows its circle for ever (`settings.dart:71`); `Datastore`
answers the caller of a lookup before it looks at the status
(`HandleCallStatus`, `datastore.cc:247-253`); the initializer-list constructor of `SortedMap` leaves `tag_` unset for lists
longer than `kFixedSize`.

### Bounds

* Clubs: one that exists and one whose document is missing, so that a failing
  task is among the others; two existing clubs where their order matters.
* Events: for each page one or two events of each source, with an event that
  ends when the clock reaches 1 or 2. Two suffice for every statement
  about a pair (order, duplicates).
* `MaxOpens`, `MaxTexts`, `MaxMessages`, `MaxSearches`, `Visits` (searches, dialogs
  and presses of a visit), `MaxSent`, `MaxReports`, `MaxSubmits`, `Taps`: how
  often the user does something. Two uses of a handler overlap with two.
  `MaxOpens` of `ClubJoin` is given for each student: one has two
  pages of the club, so that a page built before a join is used after it.
* Two devices, or two students and a third who enrols late: each hazard
  listed in `PROJECT.json` is between two actors.
* In `SchoolCalendars_seen` no club event is stored at first: the events of
  interest are those entered while the other calendar loads.
* Queue: two threads and the worker, three tasks, two calls for each thread:
  one task to run, one to cancel, one to dispose of.
* RemoteStore: the scenarios of `MCFirestore` say how often each event from
  outside may happen; together they have every pair of them.
* LevelDB: three levels with room for two entries, so that five writes make
  flushes, moves, compactions of two levels and a flush inside a compaction.
  `MemLimit = 0` fills a memtable with every write. Two user keys, since a
  statement about ranges needs an inside and an outside.
* Log of `DBImpl`: it fits into one block (`kBlockSize`, 32 KB), so that a torn record
  hides all that follows; how a reader goes on in the next block is in `LogFile`.
* Cache: room for one entry, so that every insertion evicts.
* No symmetry is used: the runs are small, and most of them check liveness.

### Fairness

The app: weak fairness of the answers of Firestore and of the continuation they
start, and of the frame that follows a `setState`: the client retries until it
is answered and the event loop runs what is ready. A page has finitely many
answers to wait for, so that one condition covers them all. Of writes nothing is
assumed, since the server may refuse them, and the joins of `ClubJoin`, which a
death of the app may end anywhere, have no liveness. The libraries: weak
fairness of every thread inside of a call, of the worker, of the poller, of
gRPC giving back what it was given, of the background thread and of opening the
database. Nothing is assumed of the user, of the clock, of the operating system
(`Kill`, `Crash`), of uploads or of a server that is only asked once. Strong
fairness is never used.

## Proofs

Every theorem holds for all values of the constants that satisfy the named
assumptions; TLC evaluates those on the constants of the runs. The proofs of an
invariant follow one pattern: an inductive invariant stronger than the property,
a lemma for the initial states, one step for each action (and below it one for
each part the action can disturb), and a last temporal step. Where a run has the
property, TLC found it true before it was proved.

### `ClubJoinProofs`: the members of a club

| theorem | statement |
|---|---|
| `TypeCorrect` | `Spec => []TypeOK` |
| `CountBounds` | `Spec => []CountWithin` |
| `CountExact` | `Spec => []ExactWithoutOverlap` |
| `LabelIsTrue` | `Spec => []AlreadyJoinedIsTrue` |
| `CleanJoins` | `Spec => []CleanJoinsAreCounted` |
| `NoneMadeUp` | `Spec => []NeverOvercounted` |
| `Asked` | `Spec => []AskedOnItsPage` |

Assumed: `TapAssumption` (finitely many presses, each with a student and a club)
and `DataAssumption` (the types of the initial data). `CountWithin` is not
inductive: `WriteMembers` writes `read + 1`, about which it says nothing.
`CountInv` adds, for every club, that a handler between its read and its write
holds a number within the same bounds, that it holds the current number unless
the club has been read twice (`overlap`), and that without an overlap only one
handler holds a number. That one more press in `Counted` is one more in its
cardinality is where the finiteness of `Taps` is used. `LabelIsTrue` needs that
the answer a card waits for is computed from `activities` at the moment the page
is pushed, and that `activities` never shrinks. `CleanJoins` needs two more facts:
a club in a student's record that was not there at first has a press
(`JoinedByPress`), and that press is the only one (`OnePressEach`), which together
make a bijection between new members and presses. `NoneMadeUp` puts the upper
bound of `CountInv` beside the injection of the counted presses into the new
members. `Asked` has an invariant of its own, `AskInv`: the page a handler
remembers is still at its place on the stack with its Join button, or forgotten,
and beneath every question is the page it came from.

### `EventDataProofs`: lists

What the loops and sorts of the pages do with lists, for all lists: a batch that is
appended adds its elements and no others and repeats none that is new
(`BatchAdded`), every result `sort` may have is a permutation in order
(`SortedList`), a list without some of its elements keeps the order of the rest
(`KeptList`), and a set that gains one element gains one in cardinality
(`FiniteSetsOf`). They rest on the theorems of the library on functions and finite
sets.

### `SchoolCalendarsProofs`: the two calendars of a school

| theorem | statement |
|---|---|
| `Invariance` | `Spec => []Inv` |
| `TypeCorrect` | `Spec => []TypeOK` |
| `Awaited` | `Spec => []AwaitedEventsShown` |
| `OneClub` | `Spec => []RequestedInOneClub` |

Assumed: `EventAssumption`, `CalendarAssumption` (the types of the data) and
`DraftsAreNew` (what is entered on the form is not stored yet). `Inv` consists of
`TypeOK`, `Loading` (what a page still waits for and what it shows cover, between
them, every event it awaits: this is what a step of the loader keeps, while
`AwaitedEventsShown` speaks only of the end of the load), `MenuIsAdvised` (the menu
of the form holds names of existing clubs the teacher advises, however far it has
filled) and
`RequestedInOneClub`.

### `HomePages`, `TabPages`, `PagesProofs`: the pages

| theorem | statement |
|---|---|
| `Inductive` | `Spec => []PagesInv` |
| `TypeCorrect` | `Spec => []TypeOK` |
| `EachListedOnce` | `Spec => []ListedOnce` |
| `WithoutDuplicates` | `Spec => []NoDuplicates` |
| `AlwaysInOrder` | `Spec => []ListsInOrder` |
| `CategoriesStayTogether` | `Spec => []CategoriesAgree` |
| `LandsOnItems` | `Spec => ConfirmLandsOnItem`, an action property |
| `MeantIsSent` | `Spec => []SentAsMeant` |
| `ClassIsReached` | `Spec => AnnouncedToTheClass`, an action property |

These are the properties of `Pages` that its run checks, one for one, except the
liveness. Assumed: `EventAssumption`, `PageAssumption` and `TabAssumption`, the
types of the data and that the events of different clubs, of the school and of a
student are different documents. `Pages` is one of ten pages, and `PagesInv` is the
invariant of the page that is open:

* `StudentInv`: which loader is where; what a finished loader has added and what
  one under way has not; the events of the clubs that are not loaded are not
  listed, which is what makes the next batch new.
* `TeacherInv`: the same, and the list is in order after every step, since each
  loader ends with its own sort.
* `ParentInv`, `CalendarInv`: the lists hold what was tested against them; the test
  and the append are one step between two awaits, whatever ran before.
* `ShopInv`: `ListInv` for the catalogue and searches, and `BuyInv` for the
  dialogs. `BuyInv` describes the stack of routes: below every dialog
  is its item's page, a handler that waits for the store belongs to one press
  of Confirm (`Pressed`), and a dialog that was confirmed once and not closed
  otherwise is still the top one when its handler resumes (`Alone`). This
  last part is what `LandsOnItems` follows from.
* `HubInv`: which club a task of a load is about, that without an empty search
  during a load no club has two tasks or a task and a card, and `CategoriesAgree`.
* `TalkInv`: a text that is still to be typed or is in the text field was not sent
  before, unless before the first snapshot (`TextsApart`); an image that is being
  uploaded, or is the preview, was neither removed nor sent (`ImagesApart`); and
  messages have the times of the clocks that gave them (`Stamped`).
* `ClassInv`: the list holds only who was in the class since the page was opened
  (`ever`) and, once loaded, everyone who was in it throughout (`always`).
* `ReportInv`: the dates of the form run forward, although the range of the picker
  may not; `SettingInv`: what the page loaded and what it stored.

The lemmas on pages are in `HomePages` and `TabPages`, which contain one page each
time as an instance; they take the facts on lists and finite sets as
assumptions. `PagesProofs` cites `EventDataProofs` for those, splits a step of
`Pages` into the page that takes it, and draws the theorems.

### `AsyncQueueProofs`: the queue and its executor

| theorem | statement |
|---|---|
| `Inductive` | `Spec => []IInv` |
| `TasksOutliveTheirOwners` | `Spec => []RefsAreOwners` |
| `CancelInductive` | `Spec => []CancelInv` |
| `CancelledIsOver` | `Spec => [](NotAfterCancel /\ DisposeIsFinal)` |

Assumed: `QueueAssumption` (at least one thread beside the worker; bounds are
numbers). The critical point is a task between its insertion in `tasks_` and
its hand-over to libdispatch, when the executor is unlocked and the task's only
reference is the executor's. `IInv` says what a call can look like (`Shape`), that
such a task exists only while its thread holds the lock of the queue (`Gate`), which
Dispose needs before it calls the executor; that an ownership is in one place at a
time (`Placed`, `Apart`, `Queued`); that a task on its way is still the
executor's (`Handed`); and that the counter is the number of owners (`Counts`).
`CancelInv` adds which operations run, were cancelled or were disposed of, and that
a Dispose from outside leaves none unfinished that is not its own.

### `DBImplProofs`: LevelDB

| theorem | statement |
|---|---|
| `TypeCorrect` | `Spec => []TypeOK` |
| `FilesKept` | `Spec => []NeededFilesExist` |

Assumed: `LevelAssumption` and `DBAssumption` (the limits are numbers, and writes
stop no earlier than compactions begin). `NeededFilesExist` says that the tables of
the current version, of a reader, of a compaction and of the manifest that CURRENT
names exist, at every point where the process may die. `DBInv` has eight parts:
`QueueInv` (the queue holds exactly the threads in Write, once each, and all but
the first wait), `DiskInv` and `ShapeInv` (the forms of files and records; the
numbers a manifest names are below its next number), `NumberInv` (all numbers in
use are below the next, so a new table overwrites none), `EditInv` (an edit not
yet installed adds tables that exist), `ManifestInv` (the manifest in use says what
the version in memory says, or will when the edit is installed, until a write to
it fails: after that nothing is deleted), `LiveInv` (tables of readers and
compactions exist; outputs are pending and not the flush's) and `RecoverInv` (the
same during recovery, where the logs that are still to be read may have
numbers above the next one).

## Only model-checked

* Liveness (`*Eventually*`, `WritesReturn` and the like): fairness and ENABLED are
  out of the prover's reach.
* `ReadsNewest` of `DBImpl` and its refinement of `KVStore` (`KeepsItsPromise`):
  they need, beside `DBInv`, an invariant on what every level holds of every key
  through compactions with snapshots.
* `LevelsSorted` of `DBImpl`: it needs that the inputs of a compaction are closed
  under overlap and boundary files, least fixed points over the files of a level.
* The properties of `Firestore` as a whole. It joins parts that use recursive
  operators (`RemoteStore` through folds, the storage parts directly), of which
  no theorem can be proved here. What is proved of its queue is proved in
  `AsyncQueueProofs`, which does not reach them.
* What recursive definitions compute (nanopb's decoding, the log format, sorted
  maps): induction over data is out of reach, and TLC compares them with a
  reference definition on bounded inputs.

## Not modelled

The repository has 113,090 lines of code, nearly all of it in vendored libraries;
the modules stand for about a twelfth of them. Most of the rest has no state or
control that a model could say something about: generated protocol code,
conversions between data structures, platform bindings, checksums and headers. In particular:

* App: the calls of the Google sign-in library and the start-up pages; the help and
  policy pages (static text); the class `MessagesPage` in
  `teacher_class_messages.dart`, which the app never opens; e-mail, Instagram
  and Remind themselves; the images on cards. `mad/linux`, `macos`, `web` and
  `windows` are generated, and `test/widget_test.dart` is the template's.
* LevelDB: system calls, allocation, encodings, checksums, the tools for repair and
  dumps, and the C binding, which the app does not use.
* Firestore: serializers, the field index, paths and keys, ordered code, the
  transformation of logical expressions, the executor for platforms other than
  Apple's, the thread pools beneath it, certificates and headers of calls.
* nanopb: extensions and callbacks.
