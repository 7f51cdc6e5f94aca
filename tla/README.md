# Rescriptum, verified in part

TLA+ modules, TLC runs and TLAPS proofs about rescriptum, the server under
`src/` that answers unattended installers with documents and boots the machines
that ask for them. Paths below are relative to `src/`; line numbers are those of
the commit beside this directory.

- [The system](#the-system): its parts, state, interactions, and what is hard
- [What is modelled](#what-is-modelled): module by module, against the code
- [The runs](#the-runs): what TLC checks, within which bounds
- [The proofs](#the-proofs): what TLAPS shows for every value of the constants
- [Findings](#findings): where the code and its own words part
- [What is not modelled](#what-is-not-modelled), and [the plan](#the-plan)

To repeat everything, in this directory: `tlc -workers 2 -config X.cfg M` for
each run of `PROJECT.json`, and `tlapm M.tla` for each module of proofs:
`AnswersProofs`, `AdminGuardProofs`, `DisarmProofs`, `DiskProofs`, `TftpProofs`,
`GuardProofs`, `ServerProofs`, `AlgorithmProofs`.

## The system

One process, a tokio runtime of several worker threads, some blocking work on
threads of its own. It serves HTTP (answers, admin API, media, capture), and, if
asked to, TFTP. Everything it keeps is in a directory of files or in an SQLite
database, beside an image directory.

| Component | Source | State | Operations | Talks to |
|---|---|---|---|---|
| **Answers** | `src/select.rs` | the cached listing behind a mutex, with its version and age | `listing`, `invalidate`, `resolve`, `problems`, `machine_documents` | a `Store` |
| **Selection** | `src/select.rs`, `facts.rs`, `merge.rs`, `format/` | none | `build` (groups, chains, problems), scoring, filling, merging | Answers calls it |
| **Stores** | `src/store/` | documents by kind, name and format; the mtime of a directory, or a counter | `snapshot`, `version`, `put_*`, `delete_*` | the disk, other processes |
| **Admin API** | `src/admin.rs` | none of its own; requests in progress | `put`, `delete` through `guarded`; reads | Answers, the store |
| **Auth guard** | `src/admin.rs` | failures per address, blocks and their doubling | `blocked`, `failure`, `success` | before the admin API |
| **Installed** | `src/installed.rs` | none | `disarm`: put under a disarmed name, delete | Answers, the store |
| **TFTP** | `src/boot/tftp.rs` | permits, transfers per peer; one transfer's block, offset and retries | `serve`, `transfer`, `wait_for_ack` | boot ROMs over UDP |
| **Media** | `src/boot/media.rs`, `patch.rs`, `cpio.rs`, `iso.rs`, `catalog.rs` | the catalogue's cache; plans of segments | lookup, range requests, composing an initrd or image | the image directory |
| **Fetch** | `src/boot/fetch.rs`, `sources.rs`, `sha256.rs` | a partial file | download, resume, verify, rename | vendors' servers, the image directory |
| **Server** | `src/main.rs` | permits, deadlines | accept, dispatch, shut down | everything above |
| **Capture** | `src/capture.rs` | a count, a number, files | `record`: body and headers of a request for an answer | the disk |
| **Environment file** | `src/envfile.rs`, `config.rs`, `tomlconfig.rs` | a file | line edits, atomic replacement | the command line |
| **Boot** | `src/boot/probe.rs`, `menu.rs`, `dhcp.rs`, `loaders.rs`, `stanza.rs` | none | tell an image's family, write menu, bootstrap and snippets, `boot check` | the catalogue, the answers, firmware |
| **Command line** | `src/cli.rs`, `src/main.rs`, `privileges.rs`, `log.rs` | arguments, sockets, the process's identity | `render`, `check`, `migrate`, `media`, `config`; start up | everything above |

What makes each of them correct, and where that is stated:

| Component | Correct means | Modules |
|---|---|---|
| Answers | a caller sees its own writes; nothing served is older than its version or the backstop says | `Answers`, `AnswersProofs` |
| Selection | the answer depends on the set of documents and the request alone; names beat patterns; layers keep what they do not override; nothing of the server's own is served | `AnswerSet`, `Facts`, `Glob`, `AlgorithmProofs`, `Formats`, `Selection`, `Commands` |
| Stores | each call at once or not at all; a snapshot of its time | `StoreContract`, `StoreData`, `FileStore`, `SqliteStore`, `Layout`, `DiskProofs` |
| Admin API | kept breaks nothing, refused leaves nothing, and nobody is refused for another | `AdminGuard`, `AdminGuardProofs` |
| Auth guard | guesses are bounded, blocks stand, and are earned | `AuthGuard`, `GuardProofs` |
| Installed | a claim is never lost; a success is one | `Disarm`, `DisarmProofs` |
| TFTP | sent means received; no storms; every transfer ends and gives back what it held | `Tftp`, `TftpProofs`, `TftpServe`, `ServerProofs`, `Boot` |
| Media | a listing within the backstop; a download of one image; a range of the whole; a patched image reads as before | `Catalog`, `MediaServe`, `DiskProofs`, `Image`, `Plan`, `Streaming`, `AlgorithmProofs` |
| Fetch | what is in the catalogue is what the digest says | `Fetch`, `DiskProofs`, `Published`, `Digest`, `AlgorithmProofs` |
| Server, capture | each permit comes back; each path asks for its own token; evidence stays, within its cap | `HttpServer`, `Capture`, `ServerProofs` |
| Environment file | what is saved reads back, and nothing else changes | `Settings` |
| Boot | what a machine is pointed at is there, and of its kind | `Boot` |
| Command line | what serves is whole and no longer root; what `check` passes is served | `Startup`, `ServerProofs`, `Commands`, `Layout`, `Catalog`, `Settings` |

### What is hard in it

*One listing for all threads.* Every request reads the answer set through one
cache. It expires when a version moves or a second passes; one of the stores has
a version that most changes do not move; reloads run while other threads write.
Correct means: a caller sees its own writes, the listing in the cache is never
older than its version says, and nobody sees a document more than about a second
after it was replaced.

*A write with a judgement after it.* The admin API lets a write happen, looks at
what it did to the whole set, and undoes it when it broke something. Reads,
write, judgement and undo are separate steps with no lock around them. Correct
means: a refused write leaves no trace, a kept one breaks no machine, and nobody
is refused for what somebody else did.

*A protocol with a stranger at the other end.* TFTP runs over a network that
loses, repeats and delays, against firmware that moves ports, gives up, or
acknowledges twice. Correct means: what is logged as sent was received, whole
and in order; traffic is never multiplied; each transfer ends and frees its slot;
and a machine that keeps its side gets its loader.

*Two-step operations on a file system.* Disarming is a put and a delete; a fetch
is a download and a rename; a delete is an unlink and a `rmdir`. Each can be cut
in half, or meet another.

*Files under other hands.* Images are replaced while they are downloaded, fetched twice at
once, or left half fetched; documents are renamed by an operator; the configuration is edited
by a person and by a command. What is read next must be one thing, and what is replaced
must be what was meant.

*Chains of decisions.* A probe decides what an image is, a stanza how it boots, a table what
firmware gets, an endpoint what is asked for, scores which document answers: each trusts
what the one before it made of its input, and a wrong one shows on a machine with no
console.

*Loops over cuts nobody chose.* A file is read in whatever pieces the system gives, a range
begins and ends anywhere, a chunk falls across the end of a segment or the middle of an
overwrite, and a pattern is tried from one place after another. An off-by-one shows for a
few lengths only, as a digest that does not match or an installer that stops half way.

*Counts and caps.* Blocks after failed logins, permits of transfers and
connections, the cap on captures: each is read, acted on, and written, with other
requests in between.

`PROJECT.json` lists each of these as a hazard at the line where it bites, with
the properties that cover it.

## What is modelled

### Answers: the cache (`Answers.tla`)

`Answers::listing` (`src/select.rs:466`) in its steps, per thread: read the version
(`ReadVersion`); take the mutex and reuse the entry (`Hit`) or read the store
(`Load`, `LoadFails`), the mutex being kept until the new entry is in place
(`Publish`). `Invalidate` waits for the same mutex. A write is up to three steps,
as seen by the version: the directory of a new identity appears
(`CreateIdentity`), the content changes (`Apply`), and what the call does after
that (`Finish`): the database's counter is bumped, a directory left empty goes.
`ForeignEdit` is a hand outside the process.

| Variable | In the code |
|---|---|
| `cached` | `Answers.cache`: version, listing, and `Instant` of loading as `age` |
| `holder` | who holds that mutex across a reload |
| `call`, `write` | the local variables of threads inside `listing`, or inside a `StoreWrite` operation |
| `store` | what `snapshot` would return, tagged with the epoch of its last change |
| `version` | what `Store::version` would return: an mtime, or a counter |
| `since`, `promised`, `floor` | history, read by no action's guard |

Over files the version is the mtime of one directory. It may move when an
identity's directory comes or goes, and may also fail to (`MtimeMoves`): two
changes can fall within one step of the file system's clock. A document replaced
inside its directory never moves it. Over SQLite the counter belongs to the
process, so another process's statement does not move it.

`invalidate` is called today only by the admin API, which
`Config::validate` (`src/config.rs:326`) allows only over the database. The model has
it over files as well: the type allows it, and a unit test relies on it.

What a listing *contains* is opaque here, an element of `AnswerSets`.

### The answer set (`AnswerSet.tla`)

`build` (`src/select.rs:513`) as pure operators on a function from documents to
contents. Of a document two things matter: whether it parses, and the group it
extends. `Path` is the walk along `extends`, `ChainProblems` what is reported of
it, `Loaded` the groups that come out, `Known` the names a machine document may
mention without complaint, `Problems` all that `build` reports, `Failing` the
documents that `resolve` answers with an error.

A problem is a record of what its message tells apart, no more: messages about
`extends` carry the group's or machine's name but no format. Guarded writes compare
messages, so this is what their correctness depends on.

Left out: merging a child into its group may fail for particular formats, in
which case `build` keeps the group with a problem; two documents of one format in
one directory; the position within a document that a parse error may mention.

### Guarded writes (`AdminGuard.tla`, `MCAdminGuard.tla`)

`guarded` (`src/admin.rs:517`), one action for each point where others may come in
between: `InvalidateBefore`, `ReadBefore`, `ReadPrevious`, `Apply`,
`InvalidateAfter`, `ReadAfter` with the judgement, `Restore`; and beside each
read and write its failure. `Ask` is `put` or `delete` up to there. The store
is the database: `Writes` is a statement and the bump of the counter. `Edit` is
another process's statement, which can also file what does not parse. `Crash` may
come at any step.

`held` is the sequence of everything the store has held. A read through the
cache returns any element from `promised` on: exactly what `OwedIsServed` of
Answers allows. So this module rests on the other's proved promise, not on its
steps.

`alone` marks a request during which nobody else changed the store. The guard can
promise nothing of the others, and `StoreNeverLeftBroken` shows what happens to
them.

### One TFTP transfer (`Tftp.tla`)

`transfer` and `wait_for_ack` (`src/boot/tftp.rs:269`, `:519`) from the first packet
on, a boot ROM, and two queues of datagrams. `server` holds the local
variables: block number, offset, `reply_to`, and the turns of the loop used up
so far. `ReceiveAck`, `ReceiveDuplicate`, `ReceiveStray`, `ReceiveError` and
`Retry` are the arms of the loop; `Abort` is a failing send or `MAX_TRANSFER`.

The ROM (`ClientReceive`, `ClientMoves`, `ClientStops`) is not in this repository. It is
modelled by what the code relies on: it takes the block that is next, acknowledges
again what it has, drops the rest. A ROM that sends its own acknowledgement again
when it hears nothing is covered by `Duplicate`. Block numbers are taken modulo
`Wrap`; a datagram carries the offsets it covers rather than bytes.

Parsing a request and refusing it send one packet, keep nothing, and are left out;
so are the permits around a transfer: they are in `Boot` and `TftpServe`.

### Disarming a machine (`Disarm.tla`, `MCDisarm.tla`)

`disarm` (`src/installed.rs:155`), on a thread of its own for each webhook. `Claiming`
reads from the listing which identities claim the machine, and then for each of them:
`ReadMachine` reads the document from the store; `PutRow`, or `FindPlace` and
`Rename`, put it under the prefix; `DeleteRow`, or `FindDocument` and `Unlink`, remove
the original; `Reply` when none is left. Which of the two ways depends on the store:
over the database an operation is one statement, over files it looks for the
document first and acts on the path it found. `Fails` is an error of any of the calls,
which ends the request with 500 "still armed". Of some failures no error comes, over files:
`ReadMisses` is a document that cannot be read, or a directory that cannot be listed, which
`documents_in` leaves out of the snapshot so that `disarm` passes it over; `ListingMisses` the same
of the listing it begins with; `FindPlaceMisses` and `FindDocumentMisses` are `existing`
(`src/store/file.rs:529`), which takes a directory it cannot list for an empty one, and so gives
the put another place and leaves the delete nothing to do. `Crash` may come at any step. The operator (`Edit`, `ReArm`)
writes, replaces or removes the document that arms the machine, or moves the
disarmed one back.

| Variable | In the code |
|---|---|
| `backend` | which store is behind `StoreWrite` |
| `docs` | the ipxe documents of each identity's two directories, by stem; over the database one row each |
| `shown` | what a listing read now may say of each identity's claim |
| `hook` | the local variables of each webhook in `disarm`: claims left, the one at hand, its body, the stem found |
| `touched`, `due` in `hook` | history: what the operator did meanwhile, and the claims a webhook has to find; one that a failure hid is due no more |

The listing is used as in AdminGuard, by its promise and not by its steps: it shows
each document as it was within the backstop (`BoundedStaleness`). A write adds
what it makes true to `shown`, `Settle` is the backstop passing. Over the database,
where the process's own writes are seen at once, this allows more than can happen.

Directories start with at most one ipxe document each, as the layout asks. What
follows from two is left to FileStore. Temporary files, empty directories and the
documents of other formats play no part: `existing` takes none of them for a
document.

### The guard of the admin token (`AuthGuard.tla`)

`blocked`, `failure` and `success` (`src/admin.rs:58`), and the comparison of the
token between the first and one of the other two. `Arrive` is `blocked` letting a
request through, `Failure` and `Success` what is made of its token later, possibly
after a block has begun; `GuardTick` is time. A request of an address that is blocked
gets a 429 and changes nothing, and so has no action.

| Variable | In the code |
|---|---|
| `entries` | `AuthGuard.entries`: failures, age of their window, what is left of a block, how many blocks there were |
| `request` | a request between `blocked` and its verdict |
| `guesses` | history: for each age within the window, how many wrong tokens were counted since the last right one that are no older |

An `Instant` that has passed is a count of 0, or a window of full age. `Kept` is the
`retain` of a table that is full, `Counted` an entry after one more failure. The
comparison itself, in constant time, is not modelled.

### Connections and captures (`HttpServer.tla`, over `Capture.tla`)

`serve`, `connection`, `handle` and `installed` (`src/main.rs`). `Accept` takes a
permit, `Shed` and `ShedEnds` turn a connection away that gets none. `Handle` is what
is decided by the headers alone, in the order of the routes (`Routes`), `Body` and
`HookBody` what follows once the body is in; the webhook's own token may be in its body.
`Resolved` and `WorkEnds` end the blocking work. `Dropped` is the deadline of the whole
connection, or a client that hung up: the future goes and its permit with it, the
blocking work it had started goes on (`adrift`, until `AdriftEnds`). `Stop`, `Exit` and
`Restart` are a signal, the end of the process, waited for or not, and the next one.

`Capture::record` (`src/capture.rs:66`) is within it, a step for each atomic and each
file: `LoadWritten`, `CountWritten`, `TakeNumber`, `WriteBody`, `WriteMeta`. It runs
without an await, so no deadline cuts it off and at most `Workers` of them overlap.
`CaptureRestart` is `Capture::new`, which takes the count from the files as far as it can see
them: a directory that cannot be listed counts for none (`unwrap_or(0)`), and an entry that cannot
be read is passed over, so that any number may be left out. That the cap is logged once
(`warned`) is left out. The clock moves only where it is about to be read, by a capture that takes
its name or a life that begins.

| Variable | In the code |
|---|---|
| `conn` | each connection's position in `handle`, and of its request what the routes tell apart |
| `shed`, `adrift`, `process` | a connection in `shed`; work that outlives its future; the process |
| `seq`, `written` | the atomics of `Capture` |
| `bodies`, `metas` | the files, named by second and number, each tagged with the life that wrote it |
| `recording` | where each connection is in `record` |
| `missed` | history: the most bodies any restart left out of its count |

A response is only its end, except that a 401 is remembered with the request it was
given to. The admin and media listeners admit connections by the same `serve`.

### TFTP admission (`TftpServe.tla`)

The loop of `serve` (`src/boot/tftp.rs:136`) and the tasks it spawns: `Admit` takes a
permit and, for a read request, a slot of its peer; `TakePort` finds a socket of the data
port range or none; `TransferEnds`, `ReleaseSlot`, `ReleasePermit` are the way out. Tasks
are counted by peer, kind and step (`tasks`), as nothing else tells them apart;
`perPeer` is `per_peer`. What is dropped for want of a permit or slot changes nothing
and has no action. The transfer itself is `Tftp.tla`.

### From `main` to the first accept (`Startup.tla`)

`main`, `log::init`, the binding of the listeners and `privileges::drop_to`, a stage
at a time in the order of `Stages`, each with its failure. `asked` is what the process
was started with and meets: the command, whether it is root, which listeners are
configured, which sockets somebody else has, whether there is a boot directory, a user,
a group. `bound` and `ids` are what it has got and who it is. The order is what matters:
low ports need root, and of root the groups go before the group before the user.

### The stores (`StoreContract.tla`, `FileStore.tla`, `SqliteStore.tla`)

`StoreContract` says what a caller of `StoreWrite` (`src/store/mod.rs`) may rely on:
each call takes effect at once, at some moment between being made and returning, or fails
and changes nothing; what a delete answers is whether there was something to delete; a
process that dies (`Dies`) loses its calls, and no document. Of the keys in `amiss` it promises
less: a call on one may report success without effect, and a delete of one may uncover another
document (`GoesAmiss`). `StoreData` declares what both sides speak of.

`FileStore` is one identity's directory: `Call`; `Look` (`existing`, the document
that is replaced or removed, under whatever stem it has); `CreateParent`, `OpenTemp`,
`FillTemp`, `Rename`; `RemoveIfPresent`, `RemoveDir`; `Return`. Making the directory, writing,
renaming and removing may fail, which the call reports (a `remove_dir` that fails nobody asks
about). Listing the directory may fail too, or break off, and that no call reports: `Look` then finds
nothing, or the first of what it has seen, though there is a document. A delete so answers that
there was none, and a put adds a second document of the format. `amiss` keeps the formats this
has happened to, for as long as there are two documents of one or a put is about to make them
two (`InDoubt`); `MCDisk` hands it to the contract, whose lesser promise is for these
formats and no others. `Crash` may come at any time and leave a temporary file. `List`, `ReadNext`
and `ReadEnd` are `snapshot`; a listing that fails or breaks off and a document that cannot be
read are passed over (`src/store/file.rs:296`, `:337`), and `lost` in `reader` remembers the formats that
costs a document. `SqliteStore` has `Open` with the check of the schema's
version, `Statement`, `Execute` and `Bump` under the connection's mutex, another process's
statements, which take no mutex and bump nothing, the three SELECTs of a snapshot, and the death
of either process (`OursDies`, `TheirsDies`). It overlooks nothing: its `amiss` is empty.

Both are mapped onto the contract in `MCDisk`. For the database its `doc` is the table and a
statement takes effect in `Execute`. For files `doc` is the first document of the format
in the order of file names (`FileDoc`), which is the one requests are answered with;
a put takes effect in `Rename`, a delete in `RemoveIfPresent`.

The contract holds over files with a restriction, which the variable `apart` states: in
a behaviour either calls do not overlap, and documents have any stem; or they overlap, and
documents have the canonical stem. With both at once a put may have chosen the canonical
name just before another caller's document under another stem is deleted, or a delete may
uncover a second document of the format. The directory has at most one document of a
format to begin with, as the layout asks.

### The layout (`Layout.tla`)

`rescriptum migrate` (`src/cli.rs:460`): `MigrateBegins` looks for collisions,
all of them before the first rename, `MoveOne` renames or fails, `MigrateKilled` ends it anywhere,
and it can be run again. `PutMeanwhile` is the admin API. A flat file is known by its
identity and by how its extension is spelled, which the new name forgets: two files can
have one destination.

### Fetching (`Fetch.tla`)

`media add URL` (`src/boot/fetch.rs`, `media_add` in `src/cli.rs`). `StartTool`, `Receive`
and `ToolEnds` are `curl`, which appends to the partial file from wherever that ends, and
is external; `Measure`, `VerifyLength` and `Verify` check the file by its name; `Publish`
renames it; `Record` writes the sidecar. `Killed` ends the command at any step, and
the tool with it. A file is a sequence of units, each of a source and a position, so
that a file resumed from another source shows. `fd` is where the tool's open file has
got to: renaming moves the file under it.

### The catalogue and downloads (`Catalog.tla`, `MediaServe.tla`)

`Catalog` is `listing` (`src/boot/catalog.rs:149`), cached behind the directory's time
(`moved`) and a backstop, over images (`img`) and sidecars (`side`), and everything that
changes them: a file put in place or written in place, one removed, a sidecar of any
content, `media add`, `media prepare`. `behind` counts for how many ticks the cached
listing has not been what a build would give.

`MediaServe` is one client and the listener (`src/boot/media.rs`): `Resolve` finds the
entry and plans a prepared image over the file as it is now; `Send` compares the validator
and decides between a part and the whole; `Opens` opens the file by its name, in a task of
its own; `Streams`, `CutOff`, `Completes` go on until the client has what was promised or has not.
Each unit of `have` is tagged with the version it was read from and the URL that was
patched in.

### What an answer is made of (`Facts.tla`, `Formats.tla`, `Selection.tla`, `Commands.tla`)

Operators, as these parts keep no state. `Facts` is a request's labels and haystack,
normalisation and what a pattern matches; `Formats` the kinds of documents and, for each, the control keys,
layering, stripping and filling in: trees for TOML, YAML and JSON, elements for XML,
lines for the rest. `Selection` is `Listing` and `resolve` (`src/select.rs`): which
documents claim a request and how well, which formats an endpoint asks for, and group,
machine and default laid over one another, filled and stripped. `Commands` is what an
operator asks before a machine does, `check` (`src/cli.rs:231`); `render` and `/resolve` only
print what `Selection`'s `Resolve` makes of facts given by hand, and have no definition of
their own.

Texts are short sequences of characters of which a few stand for all. Parsing and rendering
are the libraries', except that a document may be one that does not parse.

### Matching a pattern (`Glob.tla`)

What `GlobMatches` of `Facts` says at once (there is a way to cut the text into pieces, one
for each character of the pattern), `glob` (`src/facts.rs:259`) finds in two loops: an action
for each arm of the first (`MatchOne`, `MeetStar`, `Backtrack`, `GiveUp`) and for the second
and what follows it (`SkipStar`, `Conclude`). `pi`, `ti`, `star` and `resume` are its local
variables, counted from 1; `star = 0` is `None`. Selection uses `GlobMatches`, which is what
this module shows `glob` to compute.

### Images (`Image.tla`, `Plan.tla`)

An ISO 9660 image as a sequence of cells: descriptors, directory records, content. `Image`
is `iso.rs`, finding a directory and its records, and `add_file` of `patch.rs`: the slack
in both trees, and the plan of a few overwrites and a tail that adds one file. `Plan` is what
is made of images when they are sent: `read_at` of a plan (`ReadAt`), which has only a window
of it to fill, beside the image as it would be if written out (`Patched`); the members of a
cpio archive (`Member`, `Trailer`, `InitrdIso`); the segments of `media.rs`, `parse_range` and
`slice`. Sizes in it are numbers without a width: the code's are `u64`, and no file comes near.

### Sending one (`Streaming.tla`)

One answer of the media listener: `Refuse` and `Announce` are `send` (`src/boot/media.rs:445`),
`SendFile`, `SendPatched` and `SendBytes` one chunk of `produce` and `stream_patched` (`:881`
to `:987`), `NextSegment` and `Finish` the ends of their loops, `FileEnds` the file that ends
before its time, `CutOff` a read that fails or a client that goes. How much a read gives of what
it is asked for is anybody's choice. `Sources` is what `resolve` may find: a file, part of one, a
patched image, or an initrd with an image appended.

| Variable | In the code |
|---|---|
| `source`, `range`, `raced`, `head` | the `Source`, the `Range` header, whether `If-Range` names another validator, `head_only` |
| `status`, `start`, `length` | the status, and what `Content-Range` and `Content-Length` say |
| `segments`, `current` | the argument of `produce`, and the one of them it is at |
| `body`, `ended` | what the client has received, and how it ended |

`MediaServe` has several answers and a directory that changes between and during them;
`Streaming` has one, and each of its bytes.

### Digests (`Digest.tla`)

`file`, `update` and `finish` (`src/boot/sha256.rs`): `Update` is a read of any size up to the
buffer's and its `update`, which tops up what is held (`TopUp`) or compresses whole blocks of it
(`Absorb`); `PadEnd`, `PadZero`, `PadLength` the bytes of `finish`, each through `pad` (`PadBy`).
What was compressed is kept as one sequence (`digested`), `held` is the part of `block` that
`buffered` counts, `read` is `bits`. `Padded` is the standard's definition of the padded message.
The compression, which maps blocks to eight words, is not modelled.

### Configuration (`Settings.tla`)

The environment file's lines with their quoting, the TOML file's tables, which of file and
environment wins, validation, and `config set`, `unset` and `show` (`src/envfile.rs`,
`tomlconfig.rs`, `config.rs`, `cli.rs`). Six settings stand for the kinds there are: of no
table and of one, numeric and not, a token, an address that needs another setting.

### Booting (`Boot.tla`, `Published.tla`)

`Boot` follows a machine from its firmware to its installer: the DHCP snippet (`dhcp.rs`)
and the loader it names (`loaders.rs`), the options TFTP agrees to (`tftp.rs`), who is let
in by CIDR, the bootstrap and the menu (`menu.rs`), the stanza of an image (`stanza.rs`)
as far as the probe could place it (`probe.rs`), and the URL the media listener serves.
Texts are what they lead to: a label is a sequence of what the script does at it, a snippet
a sequence of rules. `Published` is the index a vendor publishes (`sources.rs`) with the
natural order of names.

### Putting them together (`MCServer.tla`, `MCDisk.tla`, `MCOperators.tla`)

The parts of `MCServer` share no state: each has a listener or a time of its own. A
behaviour of the process is a behaviour of each of them side by side, and properties are of one each;
so TLC is given behaviours in which one of them moves, and `part` says which. `MCDisk`
does the same (`subject`). In `MCOperators` a behaviour is a question and its answer:
`question` is drawn from bounded inputs, `answer` is what the code's algorithm makes
of it, and the invariants compare that with a definition that is written differently: a
layered tree by what either says, a patched image by what a reader finds in it, an edit by
reading back. The algorithms that are loops, and have no need of recursion, are specifications
of their own (`Glob`, `Digest`, `Streaming`): in other behaviours of `MCOperators` one of those moves,
while the other two stay where they begin, with nothing to do.

## The runs

| Run | Checks | Shows |
|---|---|---|
| `answers` | `OwedIsServed`, `EntryHonoursVersion`, `BoundedStaleness`, `EditEventuallyServed` | the cache keeps its promises while threads reload, write and drop it |
| `admin_guard` | `RefusalIsJust`, `KeptBreaksNothing`, `RefusedIsUndone` | the guard keeps its promises to a request that is alone |
| `tftp` | `SentMeansReceived`, `NoApprentice`, `AlwaysEnds`, `Completes` | a transfer is reliable over an unreliable network |
| `disarm` | `ClaimSurvives`, `OkMeansDisarmed` | nothing that arms a machine gets lost, and a success is one |
| `server` | `TypeOK`, `GuessesBounded`, `BlockStands`, `BlockIsEarned`, `RefusedForItsOwnToken`, `EveryConnectionEnds`, `CapturesBounded`, `EvidenceKept`, `SlotsAreCounted`, `PeerLetInAgain`, `ServingIsWhole` | blocks stand and are earned, permits and slots come back, what is recorded stays, and what serves is whole |
| `disk` | `TypeOK`, `StoresKeepPromise`, `SnapshotsAreOfTheirTime`, `MigrateKeepsDocuments`, `PublishedIsVerified`, `ListingIsRecent`, `DownloadIsOneImage` | what is on disk survives overlapping calls, failures, crashes and changes under way |
| `operators` | `SelectionIsAsPromised`, `LayersAreKept`, `ImagesAreServedWhole`, `EditsAreKept`, `WhatIsOfferedIsServed`, `GlobIsRight`, `GlobAdvances`, `DigestIsStandard`, `ServedAsAsked` | the algorithms do what they promise, in one step or turn by turn |
| `admin_concurrent` | `StoreNeverLeftBroken` | *violated*: see Findings |
| `admin_formats` | `KeptIsServable` | *violated*: see Findings |
| `tftp_strays` | `FailsOnlyOnSilence` | *violated*: see Findings |
| `disarm_destroys` | `NothingDestroyed` | *violated*: see Findings |
| `menu_unfilled` | `MenuIsFilled` | *violated*: see Findings |

Type invariants (`TypeOK`) are checked where a run composes several parts; those of the other
modules are theorems, for all values of the constants. Of the properties whose names do not say it
all:

- `GuessesBounded`: however requests overlap, what an address tries within any window is
  the rest of one run of failures, the next, and what was in flight when the block began.
- `BlockStands`: nothing but time ends a block; not a right token, not a table that is full.
- `CapturesBounded`, `EvidenceKept`: overlapping requests exceed the cap, and restarts only by
  what one of them could not count: where the directory can be listed the bound does
  not grow with their number; and a name is written again only by a life that began in its
  very second.
- `RefusedForItsOwnToken`: the webhook, the answers and health are each judged by their own
  credential.
- `StoresKeepPromise`: both stores implement `StoreContract`, over files with the lesser promise for
  a format whose document a failed listing hid.
- `SnapshotsAreOfTheirTime`: what a snapshot gives was there since it began, and what was there
  throughout is in it unless its own listing or read failed: no failure costs another document.
- `OkMeansDisarmed`: of the claims a webhook had to find; those that a failed read or listing hid from it
  are not among them, though it answers 200 as well.
- `PublishedIsVerified`: an image fetched against a digest has that digest whatever lay
  in the partial file, and so does what the sidecar records of it.
- `DownloadIsOneImage`: an image that is served as it is, and not pinned by a recorded
  digest, is of one version however often it was resumed and replaced in between, if it
  was not replaced while an answer was being made.
- `GlobAdvances`: each turn is further than the last in an order that has no end but the
  text's, so no pattern, however bad, is tried twice from one place.
- `ServedAsAsked` is of three parts. `BodyIsThePart`: a body is a beginning of the part its head announced, of a patched image as
  if it had been written out; and one that ends in good order has all of it.
  `RangeIsAsAsked`: the part is the one the header asks for and as much of it as there is, and
  only what has no byte is refused. `ArchiveIsAligned`: counted from the first byte of the appended
  archive, the image and the trailer begin on a multiple of four, and in what is sent as well if the
  initrd's own length is one.
- `SelectionIsAsPromised`: the answer is the same in whatever order documents are listed, a
  name comes before a pattern, no control key reaches a machine, and once `check` passes
  every machine and every member of a group is answered under each of its names, at every endpoint
  whose groups `check` has tried. It has not tried one that only selects
  (`src/cli.rs:273`), nor any but the first of a name (`src/cli.rs:283`): where either is, of a format the endpoint
  serves, nothing is promised of that endpoint (`CheckedIsServed`).
- `LayersAreKept`: what the upper layer says is in the result, and of the lower one all that
  the upper says nothing about: trees key by key, XML element by element (`Keeps`).
- `EditsAreKept`: what is set reads back, what is unset is gone, and every other setting,
  with every other line of the environment file, is what it was.
  Keys written within an inline table are exempt (`Hidden`): the code does not see them, and
  `config unset` of one changes nothing and says "wrote" (`src/cli.rs:2086`).
- `WhatIsOfferedIsServed`: from the firmware on, what is pointed at is there and of its kind; the menu's own
  entries (`local`, `start`, `retry`) lead where they say exactly where no image has that name.

### Bounds, and why they are enough

- **answers**: two threads, one of which also writes. A race on the cache is
  between one reload and one write, or between two reloads, and both fit. Two
  changes of the store let one hide behind the other; a backstop of two ticks
  and a load of one tell "expired", "not yet" and "still loading" apart. One
  move of the mtime suffices, as moving twice is moving. The counter is bounded by
  the number of writes. The invariants are proved without these bounds.
- **admin_guard**: *every* content of a store of two groups and a machine is an
  initial state, hence every chain of up to two groups, every cycle and every
  dangling name, and documents that do not parse. One request at a time, as the
  properties are about a request that is alone; what an earlier request or edit
  left is an initial state already. One edit puts the store's history and the cache
  at odds, one fault is enough to cut each request at each step.
- **tftp**: a file of four full blocks with four block numbers: five data packets,
  the last one empty, the numbers wrapping before the end. Six retries, as in
  the code, and up to three faults of any kind, in any order and place. Three is
  what it takes to lose a block, have its predecessor acknowledged late and again,
  and move the client. A file of another length differs only in its last block.
- **disarm**: two webhooks, which meet at the same document or one after the other; two
  identities, so that one claim may be gone or fail while the other is still
  there; two stems, the canonical one and one an operator chose; two texts, to tell
  the document read from the one that is there now. One edit, before, during or
  between the webhooks, and one fault or crash. Webhooks and texts are
  interchangeable, hence the symmetry. **disarm_destroys**: one webhook, one identity.
- **server**: the guard with three addresses over a table of two, so that it is full and
  an address is turned away; two requests in flight at a limit of two failures, one doubling, and
  a longest block that cuts the doubled one short. Two connections over two permits, so
  that one more is shed; a cap of one capture, so that both connections can meet at it,
  and one restart, which may count any number of what is there, within two seconds, so that names of two
  lives meet. Two peers
  of two slots each over four permits and two data ports: a peer at its cap, a server
  at its cap, and ports used up before permits. For `Startup` *every* command and every
  setting the code tells apart is an initial state.
- **disk**: two writers, two keys, two bodies, and stems before, at and after the canonical
  one: each pair of calls at one key or at two, in one process or two, with every listing
  that shows only part of what is there. A schema older than,
  the same as and newer than the binary's. Two identities with two spellings each: every flat
  layout with and without a collision. Two fetchers, files of two units, three commands: a
  partial file that is of the other source, or that is shared, or complete. Two entries and three
  versions, two of one length and one shorter; two changes and two requests: replaced
  before, between and during. Writers, keys and bodies are interchangeable, hence the symmetry,
  in a run without liveness.
- **operators**, turn by turn: every pattern of up to four characters over two letters and
  both wildcards, with every text of up to four: two stars with something between and behind
  them, and the text that fits only after the first has given way; blocks of four with two for
  the length, every message of up to a block and one each of up to two and a half; reads of up
  to two blocks and a cell; files of seven and eight cells of which the catalogue believes
  eight, so that one falls short; plans whose overwrites lie at either end and across chunks
  and the join; 26 ranges before, in, over and past the end; chunks of four. The proofs have
  none of these bounds.
- **operators**, in one step: trees of two keys and depth two, all pairs; elements with one
  level of children, with and without discriminators; up to three documents of a pool with
  every format's kind, names, aliases, patterns, groups and defaults, two formats that one endpoint
  serves among them, with a machine of the one and groups of the other that only select; images
  named as the menu's own labels are; images of sectors of six
  cells, with all placements of the slack and lengths of the file; files of a few lines and up
  to two changes. Each pool has what its algorithm branches on. Values that are words are one
  character; addresses are of two octets of two bits.
- **tftp_strays**: one full block, six faults, exactly the retries.
- **admin_concurrent**: two requests for one group and one machine.
  **admin_formats**: one request, two formats. **menu_unfilled**: the chains of `operators`.

Only `answers` checks for deadlock: time can always pass there. Requests are
finitely many in the admin runs, a transfer is over at some point, a command and a loop end,
and a question has one answer.

### Fairness

- `Answers`: `WF(Tick)`, clocks advance; `WF(Publish(t))`, `WF(Return(t))`, a
  thread inside `listing` runs on, as nothing in it awaits anything but the disk.
  No fairness for asking or writing. `Tick` waits for a reload that has taken
  `LoadTicks`, which bounds a reload instead of assuming it instantaneous.
- `Tftp`: `WF(Server)`, the runtime polls the socket and its timer;
  `WF(ClientReceive)`, a datagram that is not lost arrives. Losing is not fair, and
  bounded by the budget. `Completes` assumes in its antecedent that the client stays,
  that the transfer is not cut off from outside, and that the server hears of the port
  a client has moved to: if the one datagram that would tell it is lost, and all
  else goes to the old port, nothing can help.
- `HttpServer` (`HttpFairness`): the deadline of a connection fires, and `record`, which
  awaits nothing, runs on. No fairness for clients, bodies, or blocking work:
  `EveryConnectionEnds` holds against a client that never sends and a lookup that never ends.
- `TftpServe` (`ServeFairness`): a spawned task runs, and `MAX_TRANSFER` ends its transfer.

## The proofs

TLAPS, with Z3, Zenon and LS4. They assume the ASSUMEs of the modules and
no bounds: any threads, clients, documents, connections, file sizes, backstops.

The ASSUMEs say what the code has: limits that `config.rs` refuses to read as zero
(`get_usize`, `src/config.rs:228`) or that are positive constants (`MAX_FAILURES`,
`MAX_CAPTURES`, the backstops), natural numbers for the bounds of the models, values that
stand for "nothing" being none of those that stand for something. A longest block is no
shorter than the first; a canonical stem is a stem. Where a theorem needs more, its
statement says so, and this section why.

The argument is always the same: an invariant that `Init` satisfies, every step keeps, and
the property follows from; each was first found true by TLC, as part of a run or of its
type invariant, or follows step by step from what was. Where an argument is by induction
over finite sets or numbers (a sum over tasks, the doubling of blocks), it is by the least
counterexample: the proper subsets of a finite set are well founded, hence a set of
counterexamples has a smallest one (`Least`, `Smallest`).

### `AnswersProofs.tla`

| Theorem | Statement |
|---|---|
| `TypeCorrect` | `Spec => []TypeOK` |
| `OwedIsServedAlways` | `Spec => []OwedIsServed` |
| `EntryHonoursVersionAlways` | `Spec => []EntryHonoursVersion` |
| `StalenessIsBounded` | `Spec => BoundedStaleness` |

`OwedIsServed` says something of listings already handed out. To be inductive it
needs to speak of those on the way. `LockInv`: who is between snapshot and
publication holds the mutex, alone. `PastInv`: no version or epoch anyone
remembers is yet to come. `HonourInv`: a listing kept, or about to be kept, under a
version *honours* it (`Honours`): it is no older than what a caller to come is owed if
the version has not moved, nor than what each caller that has read this version
is owed. A write finished between a version read and a publication moves the version,
so the stale entry honours its old version vacuously: that is why the version is read
first. An invalidate needs the mutex: it cannot come between a snapshot and its
publication. `EntryHonoursVersion` is the part of `HonourInv` about callers to come.

`BoundedStaleness` follows from `FreshInv`: all a cached listing misses happened in
the last `age + LoadTicks` ticks, all a loading one misses since loading began.

### `AdminGuardProofs.tla`

| Theorem | Statement |
|---|---|
| `TypeCorrect` | `Spec => []TypeOK` |
| `RefusedIsUndoneAlways` | `Spec => RefusedIsUndone` |
| `RefusalIsJustAlways` | `Spec => []RefusalIsJust` |
| `KeptBreaksNothingInOneFormat` | `SingleFormat` implies `Spec => KeptBreaksNothing` |

All rest on `AloneInv`: at each step of a request that is still alone, the store is
what it was, or that with the one write in it; between an invalidate and the read
after it nothing a read may return differs from the store (`Settled`); and what the
request remembers is what it remembers *of that store*. Others appear in the proof
only by ending the loneliness.

`KeptBreaksNothing` needs a fact about the operators besides, `ProblemsShowFailing`:
if the problems of one set are among those of another, its failing documents are too.
In one format this is true however long the chains. Across formats it is false,
because `Known` forgets the format; this is the second finding, and the reason for
the hypothesis `SingleFormat`.

### `DisarmProofs.tla`

| Theorem | Statement |
|---|---|
| `TypeCorrect` | `Spec => []TypeOK` |
| `ClaimSurvivesAlways` | `Spec => ClaimSurvives` |
| `OkMeansDisarmedAlways` | `Spec => OkMeansDisarmed` |

Both speak of single steps; what makes the steps harmless is what the webhook has
done before. `DisarmInv` says so: unless the operator has been there, before its put a
webhook holds the very document that is in place, and from its put until its delete
that document is in the other place too (`Rescued`); of the claims it had to find, those
that still stand are among those it has yet to deal with, and a path it is about to
unlink is that of the claim (`Pending`). A claim that a failure hides from it, at whichever of the
three places, leaves `due` in the same step. `Single` and `Rows` are what `Init` says of the
directories and every step keeps. A second webhook disturbs none of this
(`BystanderStaysSound`): it removes documents, which leaves less to be held to, or puts
a copy of what is there, because of what *it* relies on. So no lock is needed.

### `DiskProofs.tla`

| Theorem | Statement |
|---|---|
| `MigrateKeepsDocumentsAlways` | `LayoutSpec => []MigrateKeepsDocuments` |
| `PublishedIsVerifiedAlways` | `FetchSpec => []PublishedIsVerified` |
| `ListingIsRecentAlways`, `DownloadIsOneImageAlways` | `MediaSpec => []ListingIsRecent`, `[]DownloadIsOneImage` |
| `DiskTypeCorrect`, `SnapshotsAreOfTheirTimeAlways` | of `MCDisk`: `Spec => []TypeOK`, `[]SnapshotsAreOfTheirTime` |
| `StoresKeepPromiseAlways` | of `MCDisk`: `Spec => StoresKeepPromise`, either store behind one mapping |
| `SqlTypeCorrect`, `FileTypeCorrect` | `SqlSpec => []SqlTypeOK`, `FileSpec => []FileTypeOK` |
| `SqlKeepsPromise` | `SqlSpec => SqlPromise!ContractSpec` |
| `FileKeepsPromise` | `FileSpec => FilePromise!ContractSpec` |
| `RowsAreOfTheirTimeAlways`, `ReadingIsOfItsTimeAlways` | what a snapshot gives is of the time since it began |

The refinements go step by step. For SQLite every step but `Execute` is a stutter, the beginning or
end of a call, or the death of one process. For files a put has to be *the*
document of its format the moment it is renamed, and a delete has to remove the document
that requests are answered with. Both act on a path found several steps earlier, so
`FileInv` has to say that the path is still right (`PathRight`): where calls never
overlap it is the only document of its format (`Alone`, `OneDocument`), where they do
it is the canonical one and nothing else is in use (`Canonical`). This is what the
restriction `apart` of the model is for; without it the implementation is false, as
the section on the stores says. All this is of formats that are not `amiss`: a failed listing
puts its format there in the step in which the path goes wrong, and one leaves it only with a
single document and no put about to add another (`InDoubt`), where the path is right again; for those
that are, each step is `GoesAmiss` or a stutter. A temporary file is complete before it is renamed
(`TempRight`), so no document is ever half written. `ReaderInv` follows a snapshot from its
listing on: what is still to be read, as what there is, is something the format has
had since the listing, unless the format is among those of which a document was lost (`lost`).

`LayoutInv`: unless two belong in one place, what was found flat is flat or has been moved,
and nothing else is to be moved on top of it or of what was found in place. `FetchInv`:
while fetches do not overlap, who is about to publish has either no expectation or a
partial file that was found to be the wanted one, and no image is there yet; the
downloader's file is never the image. `MediaInv`: the cached listing is behind for no
longer than it is old; and what a client has put together, what it is being sent, and
the validator it holds are of one version (`OfOneImage`), as a validator that no longer
matches makes it begin again.

### `AlgorithmProofs.tla`

| Theorem | Statement |
|---|---|
| `GlobTypeCorrect`, `GlobIsRightAlways` | `GlobSpec => []GlobTypeOK`, `[]GlobIsRight` |
| `GlobAdvancesAlways` | `GlobSpec => GlobAdvances` |
| `DigestTypeCorrect`, `DigestIsStandardAlways` | `DigestSpec => []DigestTypeOK`, `[]DigestIsStandard` |
| `StreamTypeCorrect`, `RangeIsAsAskedAlways` | `StreamSpec => []StreamTypeOK`, `[]RangeIsAsAsked` |
| `ArchiveIsAlignedAlways`, `BodyIsThePartAlways` | `StreamSpec => []ArchiveIsAligned`, `[]BodyIsThePart` |
| `ServedAsAskedAlways` | `StreamSpec => []ServedAsAsked`, all of that |

What a loop computes is proved by the invariant of the loop, where what a recursion computes
would need an induction. So `glob`, the digest and an answer are state machines, and what they
promise is defined beside them without recursion: a match is a cut of the text, a padded message
a concatenation, a patched image a function of the offset.

*Matching.* `Search` says what is known at each turn. Before the first star: the whole matches
just when what is left does. After one, that some place from `resume` on fits what follows the
star; that `resume` itself does just when what is left fits from here; and that a later place
fits only if what is left fits later by as much. The last is why an earlier star need not be gone
back to: when a second star is met, whatever the first could still swallow the second can as
well (`MeetStarKeeps`). `MatchesRest` takes one character off a pattern, on which everything
rests. `GlobAdvances` is the order that `resume`, `ti` and `pi` make in this turn.

*Digesting.* `DigestInv`: what was compressed and what is held are, one after the other, a
beginning of the padded message, of the length each stage knows (`Fed`), what was compressed is
whole blocks, and less than one is held. `ZerosAre` is the arithmetic of the padding, for any block
longer than its length field; `ZerosEnd`, that the loop of `finish` stops where the standard does,
be it in this block or the next.

*Sending.* `ReadAtIs`: a window of a plan is that part of the patched image, wherever it begins
and ends. Later overwrites prevail over earlier ones in both, but over a window they are clipped:
the last to cover a cell has to be the same (`LatestIsOne`, by the least counterexample).
`ArchiveIsLaid`, `SourcesAre`: segments lie end to end, whichever there are. `RangeIs`: what
`parse_range` gives is a part, of at least a byte, within the whole. `StreamInv`: the segments are
those of the source, or its only one narrowed (`Narrowed`), their lengths add up to what is
announced, and each cell sent is the one its segment stands for (`Faithful`); the actions then
differ only in what they append (`MoreKeeps`).

### `TftpProofs.tla`

| Theorem | Statement |
|---|---|
| `TypeCorrect` | `Spec => []TypeOK` |
| `NoApprenticeAlways` | `Spec => []NoApprentice` |
| `SentMeansReceivedAlways` | `MaxFaults < Wrap` implies `Spec => []SentMeansReceived` |

Block numbers wrap, so an acknowledgement or a block that is old enough looks new. What keeps
this from happening is a measure of how far behind a datagram is (`Behind`, `Late`): a
datagram is current or one behind, or it was delayed or repeated, at the cost of as many
faults as it is behind (`InFlight`, `AcksInFlight`); hence with fewer faults than block
numbers none is behind by a whole turn. The code has 65536 numbers and six retries to a
block, the hypothesis says what the network may do meanwhile; with as many faults as block
numbers the property is false of RFC 1350 itself. `Ahead` and `Level` are the two
positions the server can be in towards its client, `Holds` what the client has by then,
for any length of file, multiples of a block included.

### `GuardProofs.tla`

| Theorem | Statement |
|---|---|
| `GuardTypeCorrect` | `GuardSpec => []GuardTypeOK`, the bound on the table with it |
| `BlocksStand` | `GuardSpec => BlockStands` |
| `BlocksAreEarned` | `GuardSpec => BlockIsEarned` |
| `GuessesAreBounded` | `MaxFailures >= 2`, `BaseBlock >= FailureWindow` and finitely many threads imply `GuardSpec => []GuessesBounded` |

`Fits` ties the code's entry to the history: of the wrong tokens that are no older than the
window of an entry there are at least as many as it counts, and all but the first are
younger than the window. For `GuessesBounded` that is not enough, as requests that were past
`blocked` when a block began go on being counted, and what they add outlives it in the
history: `RunsBounded` says what will still be recent when the block has ended
(`Still`), `BoundInv` adds those under way (`Under`). In the code blocks and windows are of
60 s, and five failures make a block. Both hypotheses are needed: with one failure to a
block, or a block shorter than the window, TLC finds more guesses than the bound allows.

### `ServerProofs.tla`

| Theorem | Statement |
|---|---|
| `SlotsAreCountedAlways` | `ServeSpec => []SlotsAreCounted`, for finitely many peers |
| `RefusedForItsOwnTokenAlways` | `HttpSpec => []RefusedForItsOwnToken` |
| `CapturesBoundedAlways` | `HttpSpec => []CapturesBounded` |
| `EvidenceKeptAlways` | `HttpSpec => EvidenceKept` |
| `ServingIsWholeAlways` | `StartSpec => []ServingIsWhole` |
| `TypeCorrect`, `ServerKeepsItsPromises` | of `MCServer`, for finitely many peers: `Spec => []TypeOK`, and the four invariants together |

*Slots.* `ServeInv`: the map says of each peer what its reads hold (`Held`), and the sum of
all tasks is within the permits. Every action moves one task, so the proof is about sums:
`Total` is the fold of the model, `TotalChange` what changing one summand does to it.

*Captures.* `CapturesBounded` says nothing of the counter, which is what the code looks at.
`CountsOK` connects them: files, and captures counted without a file yet, are no more than
`written` and `missed`, what a restart left out of it; and with those let through that have yet to
be counted they are less than `MaxCaptures + Workers + missed`, since who is let through saw `written`
below the cap and at most `Workers` are. A restart keeps this: what it counts and what it leaves out are
together the files, and `missed` is the most that was ever left out, not the sum, as each life counts anew. `EvidenceKept` needs
that a name which is in use is never taken again by the same life (`NamesOK`): a file of
this life is named by the number in it, which is below `seq`, and no two captures that have
yet to write have one number. A file of an earlier life is named by a second that is no
later than this life's first.

*Tokens.* At each place a request can wait, what is known of it is enough to refuse it
rightly (`IsRight`): `hook` is reached by the webhook only.

*Start.* `StartInv` lists what each stage relies on: sockets after the stage that binds
them, the identity unchanged up to `groups`, each part of it given up after its stage. So
TFTP is bound while the process is what it was started as, and whoever gets to
`serving` has been through all of it.

The four parts share no variables; `ServerInv` is the conjunction of their invariants,
and a step of one is a stutter of the others.

### Only model-checked

- Liveness (`EditEventuallyServed`, `AlwaysEnds`, `Completes`, `EveryConnectionEnds`,
  `PeerLetInAgain`): fairness and leads-to are beyond the prover.
- `operators`: recursion over trees, documents and directories. `Formats`, `Selection`,
  `Image` and `Published` are written for TLC with RECURSIVE operators, in whose presence
  the prover has no arithmetic, and what they compute for every input would need induction
  over data, which it has not either; so it is compared with another definition on bounded
  inputs. That are `SelectionIsAsPromised`, `LayersAreKept`, `ImagesAreServedWhole` (a file that
  is added is found by readers of either tree; that what is planned is sent is proved),
  `EditsAreKept` and `WhatIsOfferedIsServed`.
- The five violations: each is a counterexample, which needs no proof.

All other invariants and action properties of the runs are theorems.

## Findings

1. **Two guarded writes at once leave the store broken**
   (`admin_concurrent`, `src/admin.rs:582`). A breaks a group and is about to undo
   that. B, with the same document, reads the problems now, A's among them; A
   undoes; B writes, sees only problems it has seen, and keeps. A client
   that tries again before its first try is answered is such a B. The comment says
   "Undo, so the store is never left in a state that breaks installs".
2. **A group of another format is as good as none, and nobody says so**
   (`admin_formats`, `src/select.rs:652`). A machine's TOML that extends a group
   which exists only as YAML raises no problem at load, is kept by the guard, and
   fails when the machine asks. The comment above `known` says it is there to
   prevent just that.
3. **Strays use up retries** (`tftp_strays`, `src/boot/tftp.rs:532`). Six datagrams
   that are not part of the conversation end a transfer in which no packet was lost.
   `MAX_RETRIES` is documented as "Give up on a peer that has stopped
   acknowledging", and a stray as "ignored without comment".
4. **A second disarm overwrites the first** (`disarm_destroys`,
   `src/installed.rs:164`). A machine is installed and disarmed, armed anew with
   another document, and installed again: the put under the prefix replaces the older
   document. The module's comment says "Nothing is destroyed, which matters for a
   thing triggered by a network request".

5. **The menu hands out what was never filled in** (`menu_unfilled`,
   `src/boot/menu.rs:161`). The stanza of an installer's image holds `{{ mac }}`; the menu
   copies it into a label, and the media listener answers `/ipxe/menu` with that text
   (`src/boot/media.rs:154`), so the kernel's arguments have the braces in them. The comment
   at `src/boot/stanza.rs:63` says it is "filled by the answer engine's own templating", and that
   a missing fact "is an error there, never an empty string".

What the models also show, and no document denies or no run is about:

- *Guarded writes.* One whose second read fails is kept unjudged (`ReadAfterFails`); a
  crash before the undo leaves the write in place (`Crash`); an undo that fails is reported
  to the client as done (`RestoreFails`); and an undo overwrites what another client was told is
  written in between.
- *Disarming.* A document that cannot be read, or whose directory cannot be listed, before the put or
  at the delete, is answered with 200 though its machine is still armed (`ReadMisses`,
  `ListingMisses`, `FindDocumentMisses`), which the comment in `src/main.rs:571` has not in mind when it
  calls the line with "still armed" the only place to notice; and a document the operator
  writes between disarm's read and its delete is deleted.
- *Stores.* With two documents of one format in a directory, a delete uncovers the second. Of a
  directory that cannot be listed (`src/store/file.rs:529`) a delete answers that there is no
  document, and a put adds one beside the one there is.
  `migrate` of two flat files that belong in one place (`a.toml`, `a.TOML`) keeps the last.
- *Captures.* A restart that cannot list the directory counts none (`src/capture.rs:50`) and fills it
  once more, where the comment at `:40` says that "restarting does not blow past the cap".
- *Images.* Two commands that fetch one name share the partial file (`shared`). A digest
  recorded in a sidecar is the validator whether or not the image still has it. A prepared
  image is planned anew for every request, also within one download. An initrd whose length is
  not a multiple of four leaves the archive appended to it unaligned.
- *Selection.* `best_group` is not confined to the format of the machine's document.
  `check` rehearses the first group of a name (`src/cli.rs:283`); one of another format with
  the same name is not looked at, nor is a group that only selects (`src/cli.rs:273`); and a machine is
  asked for at one endpoint of its format, though another one (`/suse/` beside `/xml/`) may layer such
  a group under it that cannot be filled in. The haystack concatenates values, so that a name may match
  across two of them.
- *The menu.* An image named `local`, `start` or `retry` is accepted (`RESERVED_IDS`,
  `src/boot/catalog.rs:36`, has none of them), and its label stands before the menu's own of that name
  (`src/boot/menu.rs:156`, `:183`), which is never reached: with one named `local` the timeout boots the
  installer, where `src/boot/menu.rs:99` has it leave the machine alone.
- *Configuration.* `config unset` of a key within an inline table changes nothing and says that it wrote.

## What is not modelled

- Parsing and rendering of TOML, YAML, JSON and XML: libraries, or text work on one
  document. What the parsed documents are made into is modelled.
- The compression function of SHA-256, and the comparison of tokens in constant time:
  arithmetic on bytes. What is fed to the former is modelled.
- `import` and `export` (`src/cli.rs`): one store copied into the other, document by
  document, through calls that are modelled.
- The table of known sources (`src/boot/sources.rs`) and of loaders: data, of which the
  models take rows that differ in kind.
- Modes and owners of files, file names that are no identities, Joliet and Rock Ridge
  encodings, the wording of scripts, snippets, logs and messages.
- The reading of HTTP and the runtime: libraries; of them the models have only that a
  future is dropped at an await, and blocking work is not.

## The plan

Done, in order: `Answers`, `AnswerSet`, `AdminGuard`, `Tftp`, `Disarm` with three modules of
proofs; the parts of `MCServer`, `MCDisk` and `MCOperators`; the proofs of the stores, of the
disk, of `Tftp`, of the guard and of the server; `Glob`, `Digest`, `Plan` and `Streaming` with the
proofs about them. Left:

1. **More of the algorithms**: `slack_in` and the walk over a directory's records (`Image`), and
   the edit of a file's lines (`Settings`), which are loops as well, as state machines with
   their invariants.
2. **The composition**: `BlockStands` and the promises of `DiskProofs`' parts for the
   specifications the runs check, as `ServerKeepsItsPromises` does for invariants.
3. **`Listings`**: the promise of the cache as a specification of its own, with no
   version and no mutex, that `Answers` implements; `AdminGuard` and `Disarm` are then
   stated over it.
4. **An undo among acknowledged writes**: `AdminGuard` with what clients were told,
   which is where the one hazard of the guard lies that has no property.
