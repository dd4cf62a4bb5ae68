# A formal model of chainsec

chainsec scans a project and everything it depends on: it finds manifests and
lockfiles, acquires the packages they name from registries, keeps what it
acquired in a cache shared by all processes of a user, and scans the sources for
suspicious code. This directory holds TLA+ modules of its core logic, TLC
configurations that check them on small instances, and theorems proved with TLAPS
for every instance. Paths below are relative to the crate's `src/`.

## 1. Inventory

### Components

| Component (directory) | State it keeps | Operations | What makes it correct |
|---|---|---|---|
| Cache (`fetcher/cache`) | entries by identity, staging and quarantine directories, entry locks and the lifecycle lock on disk | look up, restore, quarantine, publish, purge | nothing half built is ever visible; an entry someone accepts is never displaced by a process that accepts it too; readers are undisturbed; waits are bounded by the acquisition's deadline |
| Traversal (`engine/traversal`) | queue, visited sources/ids/contexts, reserved and acquired keys, the report | `next_frontier`, `analyze_frontier`, `fetch_dependencies`; the batch form for several roots | every package once; every dependency followed or reported; limits exact; cycles end |
| Acquisition (`fetcher/acquisition.rs`, `workspace.rs`, `budget.rs`) | fetch locks and completed fetches per identity, workspaces, one budget per acquisition | fetch with or without the table of completed fetches, retain workspaces | one attempt at a time per identity; results reused, failures not; workspaces outlive the results that point into them |
| Network (`fetcher/network`, `credentials`, `repository`) | the budget's request and byte counters, the current hop, the repository a request belongs to | download, follow redirects, authorise | counters bound the work of an acquisition; every hop is judged anew; a credential leaves only for the repository it is configured for |
| Registry clients (`fetcher/sources/{npm,pypi,jsr,github}`) | npm metadata documents with their sizes and locks | select a version, select an artifact, download metadata, resolve the releases of a diff | one request per document at a time; bounded cache; the selected version is the newest that satisfies the requirement and can be had |
| Deno graph (`fetcher/sources/graph`) | queue, URLs queued, modules materialised | download, verify, materialise, redirect; rebuild from the cache | every module at most once; limits; each byte bound by an integrity entry |
| Archives, JSR packages, local sources (`fetcher/archive`, `integrity`, `sources/{jsr,local}`) | table of materialised paths, counters, open directories | verify, preflight, extract, copy, account | only what is authorised is written; no path twice, no file under a file; counters bound what is written; a copy never leaves the declaring package |
| Filesystem (`fetcher/filesystem`, `manifests/shared/rooted_fs.rs`) | open directory descriptors | descriptor-relative access | operations stay below their root |
| Manifests (`manifests`) | lock contexts handed from a package to its dependencies | parse, discover, match declarations with lock entries | a locked dependency is the one its lockfile means and a runtime would load; a failure hides no declaration |
| Scanner and rules (`scanner`, `rules`) | pending batch of sources, bounded findings | walk, batch, analyse, record | the findings kept are the most severe; truncation is reported |
| Reporting (`engine/reporting.rs`, `model`) | the report | finalise | issues say what is missing; order is deterministic |
| Application (`app`) | configuration | configure, run, suppress, diff, print | exit status follows from the report |

### How they interact

`app` builds a fetcher and an engine and asks for the analysis of a project, a
remote package or several releases of one. The engine drives one walk per root:
it scans and discovers a whole frontier concurrently (`buffered(n)`: at most
`n` at once, results in order), then hands the fetch requests to the fetcher, again
`n` at once. The fetcher's tasks share, in one process, the fetch locks, the
completed fetches and the npm metadata cache; across processes they share the
cache directory under advisory locks (`flock`). An acquisition carries one budget
through resolution, lookup, download, extraction and publication; every stage
checks its deadline. Results are values that point into workspaces, which the
fetcher keeps until it is dropped.

### What is hard to test

Two processes between the two renames of a replacement; the gap in which a
shared lock is traded for an exclusive one; lock files unlinked by a purge while
others wait for them; deadlines and I/O errors at each step of a publication;
different versions or limits sharing one cache; packages reached along several
edges with different contexts, depths and spellings; failures among concurrent
fetches at the package limit; requests shared between roots of a batch. The
complete list, each at its line, is `hazards` in `PROJECT.json`, with the
properties that cover it or why none does.

## 2. Modules

| Module | Models | Kind |
|---|---|---|
| `CachePromise` | what the cache owes its users | abstract specification |
| `CacheStore` | `fetcher/cache` with the parts of the acquisition around it | processes on a shared disk; refines `CachePromise` |
| `CacheStore_proofs` | | inductive invariant and theorems |
| `MCCacheStore` | | instances, liveness for processes that may hang |
| `SharedFetches` | `fetcher/acquisition.rs`, `fetch_remote_root`, `sources/npm/{metadata,cache}.rs` | acquisitions of one process side by side, in discrete time |
| `Fetching_proofs` | | inductive invariants and theorems about `SharedFetches`, `Versions`, `Confinement` |
| `MCSharedFetches` | | instances, a scheduler that never delays |
| `Traversal` | `engine/traversal/state.rs`, requests and grouping | operators, one per loop iteration of the code |
| `SingleAnalysis` | `engine/traversal/single.rs` | the loop of one walk, drives `Traversal` |
| `BatchAnalysis` | `engine/traversal/batch.rs` | the rounds of several walks, drives `Traversal` |
| `Traversal_proofs` | | lemmas about the operators both drive |
| `SingleAnalysis_proofs`, `BatchAnalysis_proofs` | | inductive invariants and theorems |
| `Download` | `network/download.rs`, `network/url_policy.rs`, the counters of `budget.rs` | one request at a time, composed by `ModuleGraph` |
| `ModuleGraph` | `sources/graph`, `sources/deno.rs` | one graph downloaded, published, perhaps damaged, rebuilt |
| `MCModuleGraph` | | texts, lockfiles and policies |
| `MCTraversal`, `MCSingleAnalysis`, `MCBatchAnalysis` | | a dependency graph and instances |
| `Scan` | `scanner/{mod,source_analyzer}.rs`, `scanner/filesystem`, `scanner/file_analyzer`, `scanner/entropy` | one scan: walk, batches, bounded findings |
| `Report` | `engine/reporting.rs`, `rules`, `app` from options to exit status | one analysis; drives `Scan` |
| `VersionDiff` | `app/diff` | releases compared one after the other |
| `Report_proofs` | | inductive invariants and theorems about `Scan`, `Report`, `VersionDiff` |
| `MCReport` | | trees, configurations, releases; composes the three |
| `Materialise` | `archive/support.rs`: accounting and writing | variables and operators shared by the four modules below |
| `Integrity` | `fetcher/integrity` | operators |
| `Extraction` | `archive/{tar,zip,mod}.rs`, `sources/{standalone,github}.rs` | one archive |
| `JsrPackage` | `sources/jsr/package.rs` | one package, fetched or rebuilt file by file |
| `FileTree` | `filesystem/unix.rs`; the kernel's tree and other processes (external) | a tree that changes, the walk by descriptors |
| `LocalSnapshot` | `sources/local/mod.rs` | one copy over `FileTree` |
| `ManifestRead` | `manifests/shared/rooted_fs.rs` | one read over `FileTree` |
| `Confinement` | | composes `LocalSnapshot` and `ManifestRead` with the changes of others |
| `Versions` | `sources/{npm,pypi,jsr}` resolution, `fetcher/orchestration.rs` | one query, release by release |
| `NpmLocks` | `manifests/npm`, `discovery/npm.rs` | one project bound place by place |
| `PythonLocks` | `manifests/python/{lockfiles,matching}`, `discovery/python.rs` | one directory bound lockfile by lockfile |
| `DenoLocks` | `manifests/deno`, `discovery/deno.rs` | one project read file by file, then bound |
| `Lockfiles` | | composes the three |
| `RepositoryAccess` | `fetcher/{repository,credentials,policy.rs}`, `network/url_policy.rs`, `sources/pypi/url.rs` | the requests of one acquisition; extends `Download` |
| `Sources_proofs` | | inductive invariants and theorems about `RepositoryAccess`, `Extraction`, `JsrPackage`, `ModuleGraph`, `NpmLocks`, `PythonLocks`, `DenoLocks` |
| `Sums_proofs` | | lemmas on sums, the weight of what is on disk, recursive functions, finite sets, numbers and sequences |
| `MCResolution`, `MCPython`, `MCDeno`, `MCAccess` | | registries, projects, lockfiles, repositories |
| `MCSources` | | archives, packages, trees; composes all of these |

`map` in `PROJECT.json` gives for every definition the lines it stands for.

### CacheStore

A process is a fetcher or a purger. `pc` says before which system call (or group
of calls on private data) it stands; each action is one call on shared state, together with
the deadline check in front of it, so the interleavings are those of the
calls. `entry[k]` is the object at an identity's path, `root[s]` that of a slot of the
cache root (staging and quarantine directories), and an object is `"none"`, the
version that completed it, or one of the broken kinds: `"empty"`, `"partial"`,
`"damaged"`, `"file"`. Names are taken from finite sets, the lowest free
one first: `create_unique_child_dir` never reuses a name in use.

* Locks. `flock` belongs to an open file description. `lockFile` maps a lock name to the inode it
  names now, `fd` and `life` are the inodes a process has open; who holds a lock follows from
  `pc` and the inode. A purge unlinks lock files, so two processes could have different
  inodes of one name; that this never leads to two holders is `EntryExclusion`, proved
  from the lifecycle lock.
* The lifecycle lock is awaited without a deadline, the entry locks by polling until the
  deadline. `Expire` makes the deadline pass; after it every step that checks it stops.
* Versions. `metadata.rs` stores the version of the program with an entry and rejects
  others (`Accepts`). `SmallLimit` are fetchers whose `max_archive_size` is below the
  artifact's size: they reject the entry too, and their downloads fail.
* Crashes drop locks and descriptors and leave the disk as it is. With `IoFaults`
  calls may fail.
* Left out: pinned GitHub archives, which never use the cache (`restoration.rs:54`);
  replacement of the cache root's own path while in use; the checks on each copied file (type,
  links, size), which are one verdict here.

### SharedFetches

A task acquires one dependency: a record of its identity, the metadata document it is resolved
with (if any), the one that locates its artifact (if any, as for a locked Deno `npm:` dependency)
and whether it is a remote root. `pc` says what the task waits for or does next. The two tables of locks are
maps from identities and from documents to their holder; tokio hands a lock to the first that waits, the
model to any of them. Between two awaits the code runs alone, except for the short mutexes
around the tables, so one action is what happens between two awaits.

* A dependency takes the fetch lock of its identity, looks at the completed fetches again, then at
  the disk cache, then acquires; a remote root does the last two without lock or table
  (`LookupRoot`, `Complete`). What a lookup finds and whether a download succeeds is
  left open; `CacheStore` models both.
* `resolve` and `locate` go through the same steps of `npm_metadata_with_budget`
  (`FindDocument` to `ReceiveDocument`), the second while the fetch lock is held.
* Eviction takes documents in the order of a hash table until the new one fits: any order
  (`Evictable`).
* `deadline` is set when the task starts; `Expire` stops it at the next check after it has passed. The
  clock moves (`Tick`) only while no acquisition whose deadline has passed can take a
  step: deadlines are minutes, and what lies between two checks is not. Only the wait for
  a document's lock is unbounded, as in the code.
* Left out: local dependencies (no lock, no shared state), tasks dropped before they end, and
  the failure of a worker thread (`JoinError`), which is one of `LookupFails`.

### Traversal, SingleAnalysis, BatchAnalysis

A project is a set of declarations `(source, under, key, variant, contexts)`: manifest
`source` declares something with fetch key `key`, found when the package is searched
`"always"`, `"bare"` (without inherited lockfile context) or under one context; `contexts`
are those it hands on. `made` and `limits` are variables that never change: TLC checks every
project and every pair of limits in one run. A walk is a record with
the fields of the code's `Traversal` and its report. Each operator of `Traversal` is one iteration
of a loop (one queue entry merged, one admitted or dropped, one package searched, one
dependency turned into a request), and the actions of the two analyses apply them in
the order of the code, with their guards.

Concurrency: `Launch`, `Complete` and `TakeFetched`/`TakeFailed` model
`buffered(max_analysis_threads)`: a fetch starts while fewer than `Threads` are running or waiting
to be taken; they end in any order, results are taken in order. Scans and searches
of one frontier are concurrent too, but nothing they write is read before all have
ended, so they are taken in order.

Left out: scan results and the batch scan phase, which do not steer the walk;
manifests that declare more than `max_packages` dependencies, an error of their parser
(`WithinManifestBound`). The limit of a walk can only be exceeded inside `next_frontier`
when it is 0 (`OverLimit`), which the command line allows.

### Download, ModuleGraph

`Download` holds the URL asked for, where redirects have led, and the acquisition's two counters;
which response comes is open. `ModuleGraph` gives it a queue of URLs and decides what to do with a body: it was asked for
as `u` and came from `e`, so it is verified against the bindings of both (`Verified`), written under `e` unless `e` was written before
(`KeepModule`, `KeepRedirect`), and `u` is remembered as a redirect to `e`. `kept` are the files written,
`files` their count, `cached` the files of the published entry. `Reopen` is a later process with a policy of its
own that walks the graph again from `cached`, without network: redirects have to be
those the lockfile declares (`RedirectDeclared`), URLs of another origin than the root's
have to be permitted (`WithinPolicy`), a text is verified as before. `Damage` alters one cached file.

* A text is a model value that is its own digest; `Imports` and `Bytes` say what it imports and how long it is
  (imports are absolute; the code resolves relative ones against the URL the text came from, in both walks). The lockfile is
  a table of texts and one of redirects.
* The code verifies a module written before by its stored SHA-256 and, when the binding is of
  another algorithm, by its bytes; both compare the text (`Known`).
* Left out: how a host is matched and which hop carries credentials (the policy is a set of
  URLs), finding imports in a text, bytes in the extraction statistics, file names. The shared cache
  and its locks are `CacheStore`.

### Scan, Report, VersionDiff

`tree` is what the directory walk yields, a sequence of records with the traits the code looks
at (extension, shebang, size, what the bytes look like, what the queries match).
`at` is the position of the walk, `stack` its open directories (`OpenStack`
pops and pushes to reach the next name), `pending` and `held` the batch and its bytes. A
batch is analysed in parallel in the code but merged in file order, so it is part of the step
that fills it (`VisitSource`, with `FlushBefore` and `FlushAfter`); the findings go into `budget`, a record of the two bounded maps of `FindingBudget`
with the kinds that overflowed. The scan may time out between any two steps.

`Report` starts from a configuration (default rules, packs, ignored selectors, suppressions, a threshold), runs
`Scan`, adds the outcome of a dependency's scan and the install scripts (`Record`), then finalises: ignored findings
out, capability evidence apart, sorted, truncated per package, issues for what was cut. Suppressions and the exit
status follow. `VersionDiff` takes reports newest first, compares adjacent ones by counts of identities, adds the
comparisons up in the summary (`AggregateChanges`: the count at the beginning is that before the first change in time) and
compares the two ends for the exit status.

Left out: what a query matches in a text and the entropy of a text (traits), the wording and layout of
outputs, the colours of a diff.

### Materialise, Integrity, Extraction, JsrPackage

`table` holds the paths declared so far and whether each is a file, a named or an implied directory;
`stats` the objects and bytes counted; `disk` what was written. `Extraction` has two passes, as the code has:
`PreflightEntry` accounts every entry of an archive, `WriteEntry` then writes it, and `Unwrap` enters a single top
directory. The property `ExtractedWholeOrRefused` compares them with `WellFormed`, a definition over the set of
entries that knows no order; `CopiedWhole` is its counterpart for `LocalSnapshot`. `JsrPackage` has the manifest of a version instead of an archive: all paths
are accounted first, then each file is fetched (or read from the cached package), verified, created empty with the directories above it
(`CreateVerified`; `CreateFails` may leave some of the directories), and written chunk by chunk (`WriteChunk`). Between two chunks the deadline may
pass and the disk may fail, also in the middle of one (`Expires`, `WriteFails`). Nothing is taken back then: the file in hand stays as it is in the
workspace, and the property excepts exactly that file (`Begun`). Its content is `"partial"` until its last byte is written (`WrittenPart`).

`Integrity` decides which of several digests of an integrity text is decisive; a digest is the content it
was computed from. `VerifyFromSha256` is the verdict a module graph forms without the bytes.

Left out: decoding of tar, zip and the compressions (libraries); `actual` of an entry is what the
decoder really yields beside the size it announced.

### FileTree, LocalSnapshot, ManifestRead

A node is a file, a directory, a link or a pipe. `entries` maps directories and names to nodes and is changed by
others (`Replace`, `Grow`) between any two calls of the program, at most `MaxChanges` times; `held` remembers every
entry there has ever been, so "reached from there by its own names" can be said of the past. A directory
opened stays the same node whatever becomes of its name, as a descriptor does; `OpenAt` never
follows a link. `LocalSnapshot` has the canonicalisation and the check of containment (by path, as the code has it),
then the opening name by name and the copy in breadth; `ManifestRead` opens
its roots first, picks the deepest one a path lies in, and walks from there. `Canonicalize` is `realpath`: as long as the
path comes to a link, the link is replaced by what it names, until the kernel gives up after `MaxLinks`. What goes through a path
name by name, or from link to link, is a recursive function, as a proof needs it. In `Confinement` a job is a copy or a read, and others change the tree at
any time until it ends.

Left out: hard links, permissions, the variants for other platforms, the recursive removal.

### Versions

A query is a registry, a selection (newest, locked, the last n, two endpoints, a range of a diff), a requirement as
the set of versions it accepts, and the registry's response, a set of releases with what it says of each.
`candidates` are pinned one after the other (`PinCandidate`), since whether a release can be had (an artifact with a
supported integrity, not yanked, its metadata present for JSR) shows only then.

Left out: the grammar of versions and ranges (a version is a number with a prerelease flag); the
requests themselves (`SharedFetches`, `RepositoryAccess`).

### NpmLocks, PythonLocks, DenoLocks

`NpmLocks` binds the declarations of the project and of its workspace members, then those of every installed
package a binding leads to, as the traversal does by handing on contexts: `contexts` are the places (sequences of
directory names) still to be read, `now` and `left` the place and names being bound, `bound` the decisions. A
lockfile is a table of places for package-lock.json (two layouts) and of selectors for yarn and pnpm. A commit on GitHub
is bound to the archive of that commit (`how = "commit"`), anything else to a version or a directory. The loop of
`resolve_package_path`, which cuts a path at its last `/node_modules/` again and again, is `Outwards`: the lengths it
comes by, of which the longest with an entry counts. `Loaded` is what a runtime finds, which looks into every directory on the way up. The two differ
for a place in a workspace member that lies in another member, whose own directory the code passes over; `PassedOver` is that case, in which
`BoundAsLoaded` promises nothing of the place (`LeadsWhereLoaded`), and instances have it. `FitsDeclared` says the rest: what is bound is what the lockfile
has for the very text of the declaration (`EntriesOf`, `RecordedAs` for yarn and pnpm). It says when a commit or a directory stands for
what was not declared as one: yarn.lock compares the version of such a commit with the range, pnpm-lock.yaml nothing.

`PythonLocks` applies the lockfiles of a directory, its own or the ones inherited from all packages that
lead to it, one after the other to the same declarations (`lockQueue`, `unmatched`, `enriched`), then merges what each
made of them (`alternatives`). Versions, sources, digests and artifacts of a record are kept apart, since each
decides something. A dependency declared by its URL gets from uv.lock the digests of the files at that URL, from the other lockfiles those of all files
of its record, whatever URL stands beside them; the property has this distinction (`DirectDigests`).

`DenoLocks` reads the configuration of the project and of its members through chains of import maps (`reading`
is the chain, which the code keeps as the set `active`), then binds each import to a specifier and a package of the
lockfile, or to a module along the redirects it declares.

Left out: the formats (TOML, YAML, JSONC, yarn's own), the glob patterns of workspaces, the names of imports in an import map
(only what they stand for is acquired), catalogs and package.json of Deno members, the parsers of Python declarations and
the normalisation of names.

### RepositoryAccess

A URL is a scheme, a host as labels, a path as segments. `asked` is the download under way with the
repository it was generated from, if any, which stays its authority on every hop; `sent` is the request sent last,
with its token. `Begin...` are the ways an acquisition comes to a URL: metadata at the configured base, an
artifact the registry or the lockfile names, a file of a JSR package. The answers, and where they redirect to,
are left open; the counters are those of `Download`.

Left out: building the repositories from the configuration, percent-encoding beyond the flag `escaped`, what
diagnostics leave out of a URL. DNS is the constant `Loopback`.

## 3. Runs

| Run | Instance | Shows |
|---|---|---|
| `cache_store` | two fetchers of different versions, a purge, one identity; f1 restarts or acquires twice; initial entry absent, damaged, a file or complete; crashes, faults and deadlines anywhere | the invariants, the action properties, the refinement of `CachePromise` |
| `cache_live` | two fetchers of one version, a purge; any number of starts and purges; f2 may hang for ever anywhere | acquisitions end at their deadline; a fetcher that waits for the lifecycle lock gets it; a purge ends if no fetcher is open time and again |
| `shared_fetches` | three tasks, one package as an unlocked npm dependency, a locked Deno dependency and a remote root, another package with and without a document; two documents that do not fit together, one that does not fit alone | work is done once, results stay usable, one request per document, the cache's byte count, overruns only behind a peer |
| `shared_live` | two such tasks, no request ever has to be answered | every acquisition ends; no deadlock between the two kinds of lock |
| `shared_v_deadline` | two such tasks, a scheduler that never delays | an acquisition that outlives its deadline (section 5) |
| `single_analysis` | all projects of ten declarations (cycles, shared dependencies, contexts, one package in two directories, one unreadable manifest) and two with contexts crossing a cycle; five pairs of limits; two fetches at a time, any may fail | the report is complete or says what is missing; limits are exact; the walk ends |
| `batch_analysis` | two roots, ten declarations, five pairs of limits | shared fetches happen once; the shared limit; each root has its own closure; rounds end |
| `module_graph` | four URLs, one of another origin; texts that import in a cycle, in a chain, too much, or what is not supported; 181 lockfiles (or none) times two policies; two redirects per request, six requests | what is handed on is closed, bound, permitted, within limits; an undamaged entry is rebuilt as it was; everything ends |
| `report` | eleven file trees, 64 configurations, outcomes of one dependency; three releases | findings kept are the gravest; the scan accounts for every source; report, exit status and diff tell the truth |
| `report_v_ignored` | the same instance | ignored findings crowd out others (section 5) |
| `sources` | some 300 npm projects, also with a member in a member; Python environments; Deno projects; registry queries; requests under 24 policies; archives; JSR packages; trees that others change | each part of section 2 from `Materialise` to `RepositoryAccess`, one property for each |
| `sources_v_member` | the same instance | the declarations of a workspace member get lost (section 5) |

`sources` and `report` compose parts that share no state at run time: an initial state chooses one of them, the others
rest. Several properties are conjunctions of named parts, each with a comment of its own: `WalkSound` (typing, each package
reported once, within `max_packages`, nothing left queued), `WalksSound`, `WholeOrLimited`, `WithinLimits`,
`RebuiltAsPublished`, `NothingFromOutside` (`SnapshotConfined`, `ReadConfined`), `NobodyWaitsForever` (`AcquisitionEnds`, `StartEnds`, `PurgeEnds`) and
`LocksBindWhatTheyRecord` (`LockBindsWhatIsLoaded`, that is `BoundAsLoaded` and `AgreedIsBound`, `PythonBoundAsRecorded`, `DenoBoundAsRecorded`). The type invariants of `CacheStore`
and `SharedFetches` are proved (section 4) and not run again; the others are parts of the properties above.

Bounds. Two fetchers and a purger with one identity are enough for the cache: its locks and
entries are per identity, every conflict in the protocol is between two holders and the purge, and
the theorems cover any number. `Ops` bounds starts and acquisitions, two of them letting a
process come back to what it left. In `cache_live` it bounds acquisitions only: a process that has used it up starts again, as a fetcher that takes the
lifecycle lock and lets go of it or as another purge (`StartAgain`), any number of times. Five slots and four inodes are never
exhausted. Three tasks are a holder, one that waits and one that comes in between; a deadline of two ticks
with starts at 0 and 1 (`LastStart`) gives acquisitions that end before, with and after
each other. For the walks ten declarations over six packages contain each shape the code
distinguishes; limits go from 0 (or the number of roots minus one) to
more than the graph needs, depths from one to beyond the longest path.
For the module graph three modules and four URLs let two URLs lead to one module before
and after it was written, and let a redirect leave the root's origin; lockfiles declare a chain as
long as the limit, a cycle, or nothing; the byte and request limits are reached.
A scan keeps two findings of each kind, three files, batches of three and directories three deep, and the trees exceed each. An archive has
every order of up to three of seven entries (directories named before, after or twice, files in their place, extension records), and longer or unwelcome ones;
four objects, five bytes and two levels are exceeded by some. Two changes by others (`MaxChanges`) suffice to
take a name away and put something else there; the tree has a link, a pipe and a directory in reserve, a link to a link, and with one
change links that go round. Three
candidates (`MaxPackages`) against shorter and longer histories make the count of a history end before, at and
after the limit. npm places are nested two deep, in the project, in a member and in a member of a member; Python declarations are
at most four (`MaxDeclared`), enough for two lockfiles to expand two declarations beyond the limit; Deno chains have up to two import
maps (`MaxImportMaps`) and lead one further in some projects, three imports (`MaxImports`) are exceeded when several
members add theirs, two redirects (`MaxRedirectHops`) fall short of the longest chain. Five requests with two redirects each (`MaxRequests`, `MaxRedirects`) let each of the at most three downloads
of an acquisition be redirected out of its repository and back; three bytes (`MaxDownloaded`) end some.

Fairness. `cache_live` assumes weak fairness for the steps of processes that do not hang, of `Expire` (a
deadline passes) and of the purge, none for f2: the operating system schedules live
processes, nothing makes a stopped one go on. A purge does not hang here: one that did would keep every fetcher from starting, since
`prepare_cache` waits without a deadline. For the two ways to take the lifecycle lock strong fairness is assumed (`LockLifeShared`, `LockLifeExclusive`). The lock is
free and taken again while a process waits for it; the kernel wakes the waiters of a `flock` that is released and does not
pass over the same one for ever. This is an assumption about the kernel, the only one of its kind. It does not make a purge end beside fetchers that overlap without a
break, for then the lock is never free: `PurgeEnds` requires that time and again no fetcher is open, and the code gives no more. `shared_live` assumes that time passes and that the
runtime polls every task that can go on, and nothing of networks: awaits of a request end at the deadline,
and the workers that search the cache or publish check it themselves (`cache_live`). The two analyses assume weak fairness of
`Next`: one task drives the loop and each fetch ends, at its deadline at the latest; so does `module_graph`. `report` and `sources` check safety only and assume no fairness: each of their parts runs through a
finite input without waiting for anyone.
Deadlock checking is off in all: processes stop when they have used their
`Ops`, and a walk, a scan or a binding that has ended stays as it is.

Every property has a mutation of the code, an operator beside the original, under
which TLC finds the property violated (`mutants` in `PROJECT.json`).

## 4. Proofs

Each theorem holds for every value of the constants that satisfies the assumptions named at
the end of this section. `tlapm` checks each proof to its leaves.

| Module | About | Theorems |
|---|---|---|
| `CacheStore_proofs` | the cache between processes | `TypeCorrect`, `EntryLocksExclude`, `PublishedWhole`, `StagingUntouched` (invariants), `EntriesRetained`, `ReadersUndisturbed`, `SuccessUsable` (action properties), `KeepsPromise` (refinement of `CachePromise`) |
| `Fetching_proofs` | acquisitions side by side | `TypeCorrect`, `WorkNotRepeated`, `ResultsStayUsable`, `DocumentsRequestedOnce`, `MetadataStaysAccounted`, `OverrunsBounded` |
| | the releases a query stands for | `ChosenIsBestHolds` |
| | local copies and manifests | `ConfinementHolds`, `CopiesWhole` |
| `SingleAnalysis_proofs` | one walk | `WalkSoundness`, `Wholeness` |
| `BatchAnalysis_proofs` | the walks of several roots | `BatchSoundness`, `BatchBounded`, `BatchWholeness` |
| `Sources_proofs` | requests, archives, JSR packages | `RequestsStayAuthorised`, `ArchivesAuthorised`, `ExtractionIsWhole`, `PackagesMatch` |
| | declarations and their lockfiles | `NpmBinds`, `PythonBinds`, `DenoBinds`, `LocksBind` (all three) |
| | a graph downloaded and rebuilt | `GraphWithinLimits`, `GraphIsClosed`, `GraphIsBound`, `GraphWithinPolicy`, `GraphRebuilds` |
| `Report_proofs` | the scan of a package | `KeepsMostSevereHolds`, `SourcesAccountedHolds` |
| | its report and exit status | `ReportKeepsTheWorstHolds`, `ExitTellsTheTruthHolds` |
| | the comparison of releases | `DiffTellsTheTruthHolds` |
| `Traversal_proofs`, `Sums_proofs` | lemmas | about the operators of `Traversal`; about sums, recursive functions, finite sets and sequences |

### The cache

None of the invariants is inductive alone: that a replacing process is alone
with the entry depends on its lock being on the inode the name means now, and this
depends on no purge having unlinked it. The inductive invariant is

    IInv == TypeOK /\ Locking /\ Disk

* `Locking`: a process past its start holds the lifecycle lock on its one inode (`LifeBound`), so a purger at
  work is alone (`PurgeAlone`); hence the inode a waiting or holding
  fetcher opened is still the one its lock's name refers to (`EntryBound`); hence two
  holders of one identity hold one inode, and the modes exclude (`EntryExclusion`).
* `Disk`: each staging or quarantine slot has one owner (`Ownership`), whose contents are what
  its owner last made them (`StagingIntact`); what a fetcher concluded about an entry is still true while it holds
  the lock (`Verdicts`); and no identity path refers to a directory under construction
  (`NeverHalfPublished`).

Each part is preserved by each action, given the parts before it; the action properties and the
refinement follow from `IInv` step by step.

### Acquisitions side by side

The inductive invariant adds to the properties that a task between taking and leaving a fetch lock is the one the
table of locks names, and that the holder of a document's lock is requesting that document (`LocksHeld`); that
nothing attempted has a completed result (`Unattempted`) and nothing requested is cached (`Uncached`);
that a completed result belongs to a task that is over, so nobody removes its workspace
(`ResultsKept`). `OverrunsBounded` follows at each tick from the holder's own deadline.
`MetadataStaysAccounted` needs sums: evicting documents one after the other takes away what each of them weighs
(`Tallied`, with the lemmas of `Sums_proofs`), and the document received was not there (`Uncached`), so it adds its own
weight once.

### The releases a query stands for

Selecting and pinning alternate in time, so what a resolution ends with says little about what it passed over. `ChosenIsBestHolds`
keeps the whole of what it set out to pin: `Plan(all)` says of a sequence of releases that each is offered and occurs once,
none stands before a newer one, and none that matters is missing (for the last n all below the newest, for a range all between
the endpoints, for one release the foremost that satisfies the requirement). `Progress(all)` says how far it has come:
`candidates` is the rest of it, `resolved` those of the first `checked` that could be had, in their order. A lemma for each kind of
query shows that `Select` makes such a plan, one that a step keeps the progress on it, and the conjuncts of `ChosenIsBest` are
read off at its end.

### The walks

`WalkSoundness` rests on `IInv == TypeOK /\ Stages /\ Levels /\ Reported /\ Accounted`. A walk goes level by
level: `Stages` says which collection can hold entries in which phase, `Levels` that all entries have one depth
d and all requests the next. Without `Levels` it would not be inductive that nothing stays queued (`next_frontier`
takes the entries of one depth and leaves others behind). `Reported` has each package once and ties the number of
directories reported to the sources seen; `Accounted` gives every fetch a reserved key of its own and counts the reserved
keys against `max_packages`.

`Wholeness` is the property the walk exists for: if the report does not name the package limit, every declaration of every package reported
has been followed to a package in the report or has an issue, and the limit is named only when the graph really exceeds it. The reachable
set is recursive, so the proof goes along the steps that ask and answer. `Headed` and `Keyed`: every
request, group and fetch is about a key that a package already searched declares. `Reservations`: a reserved key has been acquired, is being
fetched, or has failed with an issue. `Grounding`: every entry and visit stands for the root or for something acquired, and all contexts
recorded for a package are those it is searched with. `Followed`: every declaration found has its
package in the report at most one level deeper, or queued, or asked for, or the limit is in the report.
`Traversal_proofs` shows for each operator of the code what becomes of these, so that single and batch analysis share
most of the argument.

`BatchSoundness`, `BatchBounded` and `BatchWholeness` prove the same for each root of a batch, and in addition that
shared fetches happen once and fit the limit beside the roots (`Shared`), that a fetch group has at most one
owner per root, with the contexts of all requests it took over (`GroupOwners`, `MergedCovers`, `JoinedCovers`), that a revisit is about a package
its walk has (`Acquired`), and that a root refused at the shared limit has the issue that says so (`Alert`).

### The module graph

`GraphInv == TypeOK /\ Queued /\ Progress /\ GraphAccounts /\ PolicyHolds /\ Reusable`. `Queued`: the queue has no URL twice and nothing that was
dealt with. `Progress`: what is dealt with is settled, that is written or redirected to something written,
bound by the lockfile, and its imports are queued (`Settled`), and nothing is there that was not reached (`OnlyReached`).
When the queue is empty the settled set is the whole graph: closure needs no reachability. `GraphAccounts` counts
files and bytes against the limits. `Reusable` says of a cached entry, damaged or not, which graph it came from, so that a later process
that walks it under the same policy writes the same files (`GraphRebuilds`).

### Requests, archives, packages, trees

* `RequestsStayAuthorised`. The token of a request depends on the repository it was begun with and on all redirects since.
  `Traced` carries this provenance: where the download began, and that its present place was judged against the repository's base. The lemmas
  before it show what the choice of a repository (the longest scope that contains the URL) returns, and that
  what is built on a base stays within it (`PackageWithin`, `VersionWithin`).
* `ArchivesAuthorised`. Past the first step the content has a verdict, `ArchiveVerified`; the lemmas show that the verdict depends on
  the strongest digests of the integrity text only (`DecisiveRank`).
* `ExtractionIsWhole`, in both directions: what is written belongs to an archive whose entries fit together, and one
  whose entries do is not refused for them. After n entries the table holds their paths with all directories above them, a directory is
  marked as named exactly if one of the n names it, the counters are the number of paths and of extension headers and the
  sum of the sizes, and the n entries are compatible in the sense of `WellFormed`, which knows no order (`Catalogued`). `EntryAccounted` says when one entry
  more is accounted: if nothing is in its way (`Admits`) and there is room (`Room`). Hence `PathCatalogued`: from a catalogue of n entries of an archive that fits as a whole
  the next is always accounted, and one that is leaves a catalogue of n + 1. In the second pass `Unpacked` says what n entries leave
  on disk; a failure of the disk between two of them changes nothing of this.
* `PackagesMatch`. After n entries of a manifest the table holds exactly their paths and all directories above them, and the
  counters are the sums over those entries (`Preflighted`); after n files brought the disk holds those files with their declared sizes
  and checksums (`Brought`). The next one may be there in part (`InHand`): with its directories and k bytes while it is written (`Writing`), with some of these
  when something failed (`Interrupted`). The weight of what is on disk stays within the sum of the sizes listed (`WeightAdds`). Path normalisation and the walk up the parents are recursive functions; what they return is proved
  from the existence of the function and a minimal counterexample.
* `ConfinementHolds`, for every tree and any number of changes to it. The inductive invariant is `Confining == Standing /\ (Copying \/ Reading)`.
  `Standing`: every entry there is now is among the entries `held` that there have ever been. Each descriptor was opened as an entry of the
  one before (`Opening`), and since `held` only grows, a descriptor that was reached from the root by its own names stays reached so, whatever
  becomes of the names. For a copy, `Located` says that the source lies below the package root by its canonical path,
  `Underway` that each directory waiting in the queue was opened along its path from the source (`Standpoint`), and `Copied` that each file
  written was, and that the counters cover what is written (`OneObjectMore`), hence the limits do. For a read,
  `Activated` says the same of each root and `Rooted` that the walk started from the deepest root that contains the path (`DeepestRoot`).
* `CopiesWhole`, in both directions, for trees nobody changes meanwhile. A copy goes breadth first, in any order of names, and stops where it is,
  so the tree below the source can be compared with it only through what is still to come. `Sourced` ties what was opened to the
  real path, whatever links led there. `Gathered` says of a copy under way that what is on disk lies in the tree with its kind and bytes
  (`Mirrored`), that the queue has directories that lie there, each once (`InLine`), that the names left over are entries not copied yet
  (`NamesLeft`), that the counters measure the disk (`Measured`), and the heart of it, `Visited`: a directory on disk has all its
  entries on disk, or waits in the queue with none, or is in hand and what it lacks is among the names left, unless so
  many were listed that the limit cannot be met. When the queue is empty nothing is missing (`CopiedAll`): of a missing path take
  the shortest beginning that is missing; the directory above it is there, hence complete. A refusal is justified by what
  is on disk already (`Weighed`): that, with the object in hand, lies in the tree, so the tree is at least as large (`Refused`).

### Declarations and their lockfiles

`LocksBind` joins three theorems about modules that share no state. Each property compares what was bound with a definition that knows nothing
of the order of reading, so each proof ties the steps of the reading to that definition.

* `NpmBinds`, by `NpmInv == PlacesRead /\ BoundAsLoaded /\ AgreedIsBound`. The property is almost inductive as it stands, since what is bound is never
  reconsidered (`SameProject`, `BoundStays`); the work lies in one binding. For package-lock.json its heart is
  `LooksWhereLoaded`: cutting a place at its last `node_modules` again and again finds what a runtime finds that looks into every directory
  on the way up, unless that lies in a directory the cuts pass over (`PassedOver`). What a runtime finds anywhere else is among the places the loop tries, all that it tries are
  places a runtime would look into, and of both the longest counts. For the latter a `node_modules` must not lie directly in another, which is what `InstalledTree` says of the table. The other direction,
  that a lockfile which agrees with the manifests leaves nothing unbound and contradicts nothing, goes through the definition of agreement of each
  format (`InstalledAsDeclared`, `NestedAsDeclared`, `SelectedAsDeclared`, `ReferredAsDeclared`).
* `PythonBinds`, by `PythonInv`. `QueueHolds` says that each lockfile that applies has bound what it can (`Served`) or is still in the queue; `MatchHolds` that of the
  lockfile in hand each declaration is still unmatched, or bound if it can be, by one record and no other (`DueToOne`); `AlternativesHold`
  that what all of them together have made of a declaration is due to one record of one of them; `LimitHolds` that their number fits.
  The loops over records and digests are recursive functions; what they keep is shown with `IterationStays` (see below).
* `DenoBinds`, by `DenoInv`. `ReadInOrder`: of the configurations those read to the end have given all their imports, the one in hand has
  been followed so far without coming back to a file (`Followed`), and the others wait in order. A chain that ends is then as long as
  what it leads to, a recursive set (`LeadsTo`), has members. `BoundOnce`: an import is bound once, to what one look at the lockfile yields. What that is, for
  specifiers and for redirects of URLs, are lemmas about `EnrichRegistry` and `EnrichRemote`.

Three properties were changed on the way, all in `LocksBindWhatTheyRecord`. What a Deno lockfile records for a specifier is compared by its scheme
too (`Recorded`). A Python dependency due to a record has its version (`DueTo`). `AgreedIsBound` spoke of instances marked as consistent; it
now says what agreement is and holds for whatever has it.

### The scan

What `insert` leaves behind depends on the order in which findings turn up, on how they are cut into files and batches, and on what each
worker dropped before anything was merged. `Summary(b, A)` says what does not: the budget b holds of each kind the top
of the set A of all findings met so far, as many as there is room for, and marks a kind exactly when some are missing. It determines
b. `InsertSummarises` shows that one insertion turns a summary of A into one of A with the finding added, for a known finding, a free place and
a full collection; merging the summary of one file into that of the files before gives the summary of both (`MergeSummarises`): what a
worker dropped lies below as many findings of its own file as there is room for, hence can never be among the kept.

`ScanInv` adds the places: the batch in hand is that of the set `Queue` of files of the walk that are read and not analysed (`Owed`), what was found in all
others is summed up, and the counters are their number and bytes (`Kept`). Whatever directories are kept open,
the ones open after `OpenStack` are those of the file's own path (`StackFollows`). When the scan is done the two issues of an exceeded limit are all that was
added. `KeepsMostSevereHolds` and `SourcesAccountedHolds` read the properties off it.

### The report

Findings are dropped at two places that order them differently: the budget of a scan by risk and identity, the report by risk, install
hooks first, and identity. That the gravest survive both needs a fact about each and one that joins them.
`ReportInv` adds to `ScanInv` the `Stage` of a run: the report is `Collected` after the scan, then `Finalized`, then `Marked`, and nothing
these are made of changes afterwards (`MakingUnmoved`). `Firstmost(S)` are the findings of a set that have fewer than `MaxFindings` others ahead of
them; `FirstmostKept` shows for every finite S that there are at most `MaxFindings`, that each is ahead of each other one of S, and that none is left out when there
is room. `PackagesCompete` identifies what `EnforceFindingLimits` retains with the firstmost of each package, and
`CollectedOrDropped` says of anything found but not collected that the scan of the root dropped it while it kept `MaxFindings` of the same kind above it.
`ShownOutranks` joins the two cases. The invariant the runs check was too strong before: a finding of a custom rule of type `install_script` may be dropped
by the scan for one of the same risk with a lower identity, which the report would have ranked behind it. `Outranks` states the exception, and
`MCReport` has an instance of it.

`ExitTellsTheTruthHolds` needs the set of all issues a report can have (`IssuesAre`): a scan that did not end leaves one
(`NothingWithheld`), as does whatever is cut off (`MissingAnnounced`), so that a report without issues shows everything.

### The comparison of releases

`DiffInv` is simple: the comparisons are those of neighbours, the summary and the exit status are made of them. What
`DiffTellsTheTruthHolds` takes is what that adds up to. The changes of one count between neighbours telescope to the difference of the ends
(`ChangesTelescope`), also when only those are added that are not zero, and what the first of them starts from is the count of the first
release (`SummaryIsExact`). A count that is higher in the last release than in the first rises between some two neighbours
(`SomewhereItFalls`, as releases are listed newest first), so what lets the exit status be 1 is listed as added (`GrowthIsListed`). That a finding has
the same identity in every release although its package's version differs is `IdentityIsCode`.

### Sums and recursion

The induction theorems of the library take an operator as parameter, which none of the provers can
instantiate. `Sums_proofs` replaces them by two first-order facts: a nonempty set of naturals has a least member (`SmallestNumber`), and a nonempty
set of subsets of a finite set has one with no member properly inside (`SmallestPart`). Each lemma about a sum or a recursive function takes
the set of its counterexamples and derives a contradiction from the smallest. `SumExists` shows so that the function a sum is
defined by exists; `SumWith`, `SumWithout` and `SumSplit` say how it changes. `IterationExists` and `IterationStays` do the same for functions
that go through a sequence member by member, as the handling of paths does: what each step keeps, the whole keeps.

### Assumptions

All are `ASSUME`s of the modules, evaluated by TLC on the instances:

* `CacheStore`, `CachePromise`, `SharedFetches`, `Download`: `None` and the name of the lifecycle lock are not members of the sets they
  stand beside; dependencies are well formed; durations and limits are natural numbers.
* `TraversalAssumption`: packages and keys are finite; one directory has one package id (a cache directory is named by a hash
  of the id, and a local snapshot has a directory of its own). `SingleAssumption`, `BatchAssumption`: an acquisition yields the directory
  of a root only if the root was acquired itself, with the same id.
* `GraphAssumption`: `Imports` lists each URL once; a second import of it changes nothing, since `enqueue_graph_module` passes
  over what is queued already.
* `AccessAssumption`: bases and scopes are URLs, configured tokens are not the markers for "no token".
* `ArchivesAssumption`, `PackagesAssumption`: integrity texts, the entries of archives, manifests and declared paths are finite sequences, sizes are natural
  numbers; nothing has been taken for the root of an archive before it is unpacked.
* `TreesAssumption`: a walk comes to every path once; what is found under one identity is one finding, since the identity is a hash of rule,
  file, place and text (`make_finding`) and rule identities are unique (`ensure_unique_rule_id`).
* `ReportAssumption`: findings of a dependency have its package in their identity and are within the budget of its scan; install scripts have identities of
  their own; thresholds are numbers; the hooks of manifests are of group `install` (`record_install_scripts`).
* `ReleasesAssumption`: the findings of a report lie in packages it fetched, so their versions are known and left out of identities;
  all releases are scanned with the same rules, and a rule has one risk.
* `NpmProjectsAssumption`: places are paths, and names are not the markers. In a package-lock.json of version 2 or 3 no `node_modules` lies directly
  in another, as no package has that name (`InstalledTree`); members may lie in members. In version 1 packages are nested in packages (`NestedTree`).
* `EnvironmentsAssumption`: declarations, lockfiles, records and files are finite sequences; a manifest has been read within its limit; what is declared by a
  range has no source, what is declared by a place has that one.
* `DenoLimits`, `DenoProjectsAssumption`: limits are natural numbers; the files, imports and specifiers of a project are finitely many, with its root and members among its
  files; a file that points to an import map and has mappings holds both itself.
* `QueriesAssumption`: a response names each release once and lists it in one place; a release of npm has one tarball at most.
* `TreeAssumption`: a file system has finitely many objects, a directory lists finitely many names, each of an object, and no name is the marker
  for an entry that does not exist; links have a target, files a size.
  `RequestsAssumption`, `ReadsAssumption`: the paths of a copy and of a read are finite sequences of names.

Two slips of the models came to light because a proof failed: a bare digest among several tokens of
an integrity text had no rank, and the phase of a JSR package before its accounting had the name of the error its manifest
can end with. Both are corrected.

### Only model-checked

* Liveness (`NobodyWaitsForever`, `AcquisitionsEnd`, `Terminates`, `GraphEnds`): under fairness, out of the prover's reach.

Every invariant and action property of the runs, and the refinement, is stated by a theorem of the table above.

## 5. Where documentation and code differ

Shown by a run:

* The security model limits each acquisition end to end; one that waits for the lock of a metadata document
  waits without its deadline, as long as younger acquisitions of the same document
  go on: `shared_v_deadline`. `OverrunsOnlyBehindPeers` says what does hold.
* Declarations are to stay visible when the enrichment of a workspace member fails (`discovery/npm.rs:149`); what the
  branch hands on lacks those of the member and of all behind it: `sources_v_member`.
* Ignored rules are to be omitted from scanning and reports (FAQ). Findings about whole files are filtered only
  after they have taken places of the limited findings: `report_v_ignored`.

Seen while modelling the cache, within the model of `CacheStore` but without a run of their own:

* A publisher that loses the race leaves its staging directory in the cache root until a purge (`publication.rs:53`; the security
  model says it discards it).
* An identity path holding a regular file or a symlink is judged invalid, but the rename onto the new
  quarantine directory fails, so the identity stays unusable (`restoration.rs:218`).
* Limits are part of validity: a process with a smaller `max_archive_size` displaces an entry
  that is valid for all others and cannot replace it (`restoration.rs:87`).

Observations, some of them perhaps intended:

* A package first reached with inherited contexts is never searched without one, nor the reverse
  (`state.rs:311`), so what it declares beside them is found or not by the order of edges. In a batch, keys of a round
  refused at the shared limit stay reserved; later requests for them are dropped without a second issue.
* The URL of a scoped npm package escapes the slash of its name, and an escaped slash is never within a
  repository's base: its metadata is requested without the repository's credential, and over plain HTTP not at
  all. `RequestsAuthorised` states the exception.
* A rule of a custom pack may be of type `install_script`. Among findings of the same risk the report puts those first (`reporting.rs:227`), the
  budget of a scan does not, so one may be missing from a report that shows others of its risk.
* `SECURITY_MODEL.md:25` keeps locked artifact URLs under the general scheme policy; `url_policy.rs` refuses plain HTTP for them
  under every setting, and a test agrees with the code.
* An alias in package-lock.json is compared by the last part of a name, so its scope is not
  compared. A lockfile of version 1 that repeats a range is accepted without comparing the version.
* npm and PyPI count all older candidates against `max_packages` before pinning any; JSR counts while it pins.
* When one workspace member lies in another (`ws/w` in `ws`), the `node_modules` of the outer one is passed over when a dependency of the inner one is looked
  up (`resolve_package_path` goes from `ws/w` to the project at once), though a runtime looks there before: what is bound is then what lies in
  the project, if it fits. `BoundAsLoaded` excepts this case. A dependency that
  pnpm resolved to a GitHub archive is bound without comparing the declared range. A nested package that contradicts the lockfile loses its declarations too.
* A dependency declared by its URL takes from poetry.lock or pdm.lock the digests of all files of its record, also of files recorded for
  another URL (`artifact.rs:105`).
* Nothing bounds how long a purge waits: fetchers that overlap, each started before the last one is dropped, keep the shared lifecycle lock taken
  without a break. Nor does anything bound how long a fetcher waits behind a purge that hangs.
* A JSR package whose deadline passes, or whose disk fails, between two chunks of a file leaves a shorter file behind. The acquisition fails,
  and its workspace is removed with it.
* A Python declaration without a source is compatible with a record of any source and is then acquired from
  the registry. A Poetry dependency whose name is not normalised is refused as an invalid constraint.
* Redirects of a deno.lock are honoured from version 5 on only. A specifier locked to a version with a peer suffix
  stays unbound, since that is no version. A member of a Deno workspace that cannot be read takes the imports
  of the whole project with it (no declarations stay visible, as they do when the lockfile cannot be used).

## 6. Plan

The system's parts are modelled as far as section 7 says, and every safety property the runs check is proved. What is left is modelling:
the layers of the configuration with their validation, the parsers of Python declarations and the catalogs of Deno workspaces.

## 7. Not modelled

* Parsers (TOML, YAML, yarn, JSONC, requirements), query execution and entropy, rendering: data, with no control across
  steps. What they yield is the input of the models.
* Decoders of archive formats, the grammar of versions and ranges, TLS and HTTP: libraries.
* The rules themselves: data.
* Option parsing and the merge of configuration layers (the nearest layer that has a value decides); construction of the
  fetcher and of the engine at start-up: sequential code that ends the process when it fails.
* The glob walk that finds workspace members, beyond its result.
* The removal of directory trees, and file systems other than those of Unix.

The table of components in `PROJECT.json` has every part with its status and reason.
