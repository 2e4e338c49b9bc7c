# TLA+ specifications of the GPI server

This directory holds a TLA+ model of GPI (OSmosis), the resource management
layer on seL4 in `src/libsel4gpi`, and of the resource servers in `src/apps`
as far as they take part in its protocols. It contains the modules, the TLC
configurations that check them, and TLAPS proofs. `PROJECT.json` is the
index: which definition stands for which lines of code, which run checks which
property, and the list of hazards the properties are aimed at.

## 1. The system

The *root task* (RT) runs the GPI server, one thread that receives a message,
runs one handler to the end and replies. Every other program runs in a
*protection domain* (PD) and reaches the RT through badged endpoints; the badge
names a type, a space, a client and an object. Some PDs are *resource servers*:
they create *resource spaces*, manage the resources in them, and other PDs reach
them through *resource directory entries* (RDEs).

| Component | State | Operations |
|---|---|---|
| PD component, asynchronous work (`pd_component.c`, `resource_server_utils.c`) | four `pending_work` lists per PD; in the RT one pending termination, extraction and send, each with a saved reply cap, two of them with a count of missing replies | terminate, exit, send_cap, dump, get_work, finish_work, send_subgraph |
| PD object (`pd_obj.c`) | hold registry, RDE table, linked PDs, connections to ADS and CPU, flags `to_delete`, `deleting`, `deletion_depth` | give, send, share, link, runtime_setup, destroy |
| Resource spaces (`resource_space_component.c`) | registry of spaces, the manager of each, list of spaces it maps to | allocate, create resource, map, destroy, sweep |
| Registry (`resource_registry.c`) | hash table, id counter, reference counts | insert, insert_new_id, inc, dec, delete |
| Component framework (`resource_component_utils.c`) | one registry per type | allocate, inc, dec, dispatch |
| MO, ADS, CPU and EP components | MOs; the regions of an ADS; IPC buffer MO and ADS of a CPU | allocate, disconnect, reserve, attach, copy, remove, load ELF, configure, change_vspace |
| Resource server loop (`resource_server_utils.c`) | notification, saved reply cap | receive, drain work, run the work handler |
| Ramdisk server (`ramdisk_server.c`) | list of runs of free blocks | alloc, free, read, write; FREE and SEND work |
| xv6fs file server (`fs_server.c`, `sysfile.c`, `file.c`, `fs.c`, `bio.c`) | inode table, struct files, file registry, namespaces, buffer cache | create, open, close, unlink, link, namespaces, read, write; FREE, SEND and DESTROY work |
| kvstore, sample and toy servers | stores | requests of clients, work handlers |
| PD creation, ELF loading, client stubs, xv6fs client library | none, or a table of descriptors | scripts of the calls above |
| badges, cap tracking, linked lists, resource types, model exporting | tables and encodings | lookups, formatting |

Interactions. Clients and servers call the RT, which is synchronous. The RT
never calls a server: it queues work entries and signals the notification of
the server's PD, and the server fetches them. Within the RT, components call each
other directly, and deletion callbacks of a registry (`on_delete`) start the
deletion of further objects, including the PD or space whose registry is being
iterated.

What is hard here:

* a request that is answered later, while servers that owe an answer die, exit,
  give up in their handler, or do not know the request (sections 3.1, 5);
* wakeups through a notification that holds one bit;
* nested deletions: `pd_destroy` sweeps, the sweep calls `pd_destroy`, both
  inside `HASH_ITER` loops;
* reference counts that several components keep by hand for each other;
* the same fact recorded twice: who has a file or a block is known to the RT
  (hold registries) and to the server (file registry, free list), which tell each
  other with calls and work that a termination may fall between;
* tables whose entries are cleared in place, with an id that means "default",
  "all" and "none";
* id allocation at the end of the id range, and a full registry.

There is no persistence and no lossy network, so nothing is said about
restarts or lost messages.

What makes each part correct:

* work protocol: every request is answered once, not before its work is done,
  and no caller stays blocked;
* cleanup: what the policy says is destroyed and nothing else, nobody is left
  with a reference to what is gone, surviving managers are told, it ends;
* reference counts: an object goes with its last reference, not before;
* registry: ids are unique and the search for one ends;
* directories: a PD reaches a space only if it was made for the PD or shared by
  one that had it, and no entry outlives its space;
* ramdisk: a block belongs to one client or is free;
* file server: a file that somebody holds is open, an open file has its inode,
  and nobody loses a file by what others do with theirs.

## 2. Modules

| Module | Models | Checked by | Proved in |
|---|---|---|---|
| `PdWork` | the work protocol | `pdwork_*` | `PdWork_proofs` |
| `Cleanup` | destruction of PDs and spaces, the cleanup policy | `cleanup_*` | `Cleanup_proofs`, `CleanupPolicy_proofs` |
| `CoreRefs` | reference counts of MOs, ADSs, CPUs, EPs | `corerefs` | `CoreRefs_proofs` |
| `ResourceRegistry` | the registry and its ids | `registry` | `ResourceRegistry_proofs` |
| `Directory` | what the directories of the PDs promise (abstract) | | |
| `RdeTable` | the RDE tables, which implement `Directory` | `rde_table` | `RdeTable_proofs` |
| `Ramdisk` | the ramdisk's free list and who holds which block | `ramdisk` | `Ramdisk_proofs` |
| `FileServer` | inodes, struct files, registry and holds of xv6fs | `file_server` | `FileServer_proofs` |
| `BufferCache` | the buffer cache of xv6fs | `buffer_cache_lost` | |

`MCx` declares the model values and the constants that a configuration cannot
write down. Definitions that begin with a comment `MUTANT` are wrong variants
of the definition that follows; `PROJECT.json` says which property each of them
breaks. They are never used by a specification.

### 2.1 PdWork

Each handler of the RT is one action, and so is each call that a server makes.
`queued` is the union of the `pending_work` lists (an entry carries its PD, its
action and its age), `held` what `get_work` has handed out and nobody has
reported. `signalled` is the notification bit, `draining` says that a server is
inside the loop of `resource_server_main` that fetches work until there is none.
`waiting` is what a client's thread is blocked on. The other variables are fields
of the RT's global state and keep their names.

Which managers a request owes work to depends on what PDs hold, which is the
subject of `Cleanup`. Here a request queues any batch of up to `MaxPerRequest`
entries for live servers, and a destruction may take any set of further PDs
along. The proofs therefore cover every graph.

`pd_send_cap` and `pd_dump` may fail after they have queued entries: the caller gets
the error at once and the entries stay. `stray` is a history variable that remembers
this for SEND and for EXTRACT, until an operation of the kind begins with no such
entry outstanding.

### 2.2 Cleanup

Clients build a graph of RDEs, resources, held PDs, links and space maps, then
a PD is terminated or a space destroyed. From there on one visit of a `HASH_ITER`
is one step. An activation of `pd_destroy` is a frame on `stack`, with the saved
`next` pointer of its loop, because a nested activation may free the entry that
this pointer names. `survivors` and `owed` are history: at the start of a cleanup
they are computed from the graph, by the meaning that the documentation of the
policy gives to the depths, and compared with the result at its end.

Hold entries for resources and spaces are there or not: `pd_destroy`, for the registry
of the PD it destroys, and `pd_remove_resources_in_space` delete them whatever their
count. Holds of PDs are counted (`pd_holds`), since every send of a PD adds one and
`pd_component_resource_cleanup` takes one from each survivor when that PD is
destroyed. `resent` is history: who was sent which PD while it held it. The counts
of core objects are in `CoreRefs`. Links are acyclic, as `sel4gpi_prepare_pd` makes
them.

`pd_destroy` returns early when it cannot stop the CPU or move the reply cap
(`GiveUpEarly`), or cannot remove the init data from the RT (`GiveUpLate`); the entry
of the PD is freed all the same. Its spaces then stay, with a manager that is gone,
or marked for a later sweep. `gave_up` remembers this: the behaviour goes on, the
safety properties are claimed up to that point, and `CleanupEnds` is checked beyond
it. What bounds it is the next notice for such a space, which the RT queues through a
NULL pointer (`NullManager`). The error return after
`pd_component_resource_cleanup` is never taken, since that returns 0.

### 2.3 CoreRefs

`core` holds the counts, what is attached to each region, and what each CPU uses.
`Dropped` is the combined effect of a set of decs, with the destruction they set
off; the cascade is at most CPU, ADS, MO deep, so it needs no recursion. The
initial states are the first PD as `osm_set_up` leaves it, alone or with a thread
that it has prepared. `low` and `leaked` are history variables: a request that is
known to leave a count too low or too high adds the objects concerned, and the
two invariants say that every other object is exact from that side. So the
invariants name the requests of the model that miscount, and `CoreRefs_proofs` shows
that the others are exact. Too low: `change_vspace`, replacing a core cap, and the
destruction of a PD with core caps that was not set up. Too high: sending a PD what
it has, attaching over an MO, `change_vspace`, a `runtime_setup` that is not the
first one with the PD's own connections, and the requests that fail half-way: an
allocation (the entry is registered before the object is made and before anyone
holds it), the load of an ELF (the MO of a segment keeps the count of its
allocation, and that of its region in the loader), the configuration of a CPU, and
`pd_destroy`.

Requests whose failure is an early return before any count changes are not told
apart from requests that were not made.

### 2.4 ResourceRegistry

The search of `insert_new_id` is a loop over shared state, so one turn is one
action. `Insert` is the insertion under an id that the caller has chosen, which the code
does not look up: all links of a PD are registered under 0, an ADS under the id of its
space, a file under its inode number. `origin` is history: whether the id of an entry
was given by the search, or chosen, and in that case whether it was taken at the time.
The deletion callbacks are those of `Cleanup` and `CoreRefs`.

### 2.5 RdeTable and Directory

One row of the table in `osm_pd_shared_data_t`, since rows of different types do
not meet. An entry that was never used and one that was cleared differ (zero from
the `memset`, and `BADGE_SPACE_ID_NULL`), because lookups compare ids before they
look at the type. `caps` is what was minted into the PD's cspace; it is a separate
variable because `pd_add_rde` fills the entry first. `told` remembers the last
share that returned 0. `CleanupSpaces` takes any set of spaces and PDs at once;
which sets occur is the subject of `Cleanup`.

`Directory` is the abstract view: a set of spaces for each PD. `RdeTable`
implements it under `dir <- Named`, the spaces in the entries in use.

### 2.6 Ramdisk

`free_blocks` is the linked list of runs. A request is two actions, what the
server does to the list and the answer of the RT, since its client may be
terminated between them. `holds` is the RT's record, a count for each client and
block, and `freeq` the FREE work for the server. When a client is destroyed, a FREE
for each block that it holds is queued, in any order. `free_block` tests a variable `prev` that is never assigned, so a run
inserted in front of run *i* drops the runs before it, and after a merge it frees
the node that it has just linked (line 149). The first is modelled as it is. From
the second on (`corrupt`) the list is freed memory, and behaviours are not
followed.

A send of a block is never finished by the ramdisk (it has no SEND case), so at
most one happens; what was sent is excluded from `NoSharing`, since sharing is
then intended.

### 2.7 FileServer and BufferCache

Three records are kept of an open file: `inode` (links, references of the table
entry), `reg` (count of the registry entry, count of its struct file) and, in the
RT, `hold`. `Receive` fixes the request; the action named after the request does
what its handler does, at once: every handler changes its own records before it
calls the RT, so a termination between the two is the same as one before. SEND
comes before FREE, as `get_work` orders them, and both before requests.

`SendCap` follows `pd_send_cap`: the SEND entry is queued first, then the cap is
minted and recorded, which may fail, and a failure to store it as a core cap comes
after that. In the failing cases the sender does not wait, and a second SEND may join
the first. `SendWork` does a batch: at the first file that is not in the registry the
handler leaves it, so what follows is neither counted nor reported. The hold is
recorded under the badge that the RT finds in its IPC buffer; where the kernel has
not unwrapped the cap that is the badge of another one, and the model then records
the hold of the file, or none.

`unread` stands for a table entry that `clear_dir` has left referenced and not
read. `clear_dir` decides by the type field of the table entry before `ilock` has
read the inode; whether that is 0 depends on the inode that used the entry before,
which is a free choice here. Directories themselves are not inodes of the model.

`miscounted` is a history variable in the way of `CoreRefs`: files with which a
request is known to go wrong. There are three such cases. Deletion takes one from
each PD's count, so a client that has the file open twice keeps a hold; a
client terminated while the server closes a file for it is counted off twice; and a
SEND queued behind one for a file that was deleted meanwhile is never counted.
Nothing further is requested after a miscount (a bound).

`xv6fs_sys_dolink2` is left out: it calls `iput` on the inode of the open file on
every path, so it takes the reference that belongs to the struct file, and no
statement about references holds from then on.

`BufferCache` follows the versions of blocks through `bread`, a change of the
data, and `brelse`. `bwrite` has no caller and so no action.

## 3. What the runs check

All bounds are constants of the modules.

### 3.1 PdWork

`pdwork_safety`: two servers and two clients, three entries in a behaviour,
batches of two. Any server may die with the termination of another PD, exit on
its own, or return from its handler before it reports; a send or a dump may fail
after it has queued work.

* `AnsweredAfterCleanup`: while critical cleanup work is outstanding, the
  termination is still pending, so its caller has not been answered.
* `MissingCoversOutstanding`: the counter the RT decides by is never below the
  outstanding critical work, and is zero between terminations.
* `NoLostWakeup`: no server goes back to receiving while it has work and no signal.
* `OneSendOutstanding`: any SEND report is about the send that is pending, as long
  as no failed send has left its entry (`stray`).
* `BlockedCallersAreOwed`: the saved reply cap belongs to the blocked caller.
* `ExtractionAnswerSound`: the step that answers an extraction leaves no EXTRACT
  entry, unless the extraction began among entries of a dump that had failed.

Three entries give two servers with work, one of them with two entries (a batch
and a rest), which is where counting per report and per entry differ.

`pdwork_live`: the same without failing servers: `TerminateAnswered`,
`SendAnswered` and `DumpAnswered`. Fairness is weak
fairness of each server's step: a server is a thread of its own that seL4
schedules, its calls to the RT are answered at once, and no step of another
thread disables it for good. Clients are under no fairness.

`pdwork_dump_server_dies` is a counterexample, see section 5.

### 3.2 Cleanup

`cleanup_deps`: three PDs, two spaces, any graph of three edges (RDE, resource,
link), unlimited PD depth. `SpaceHasManager` also in the middle of a cleanup;
afterwards `NoMarkedPdLeft`, `NoDangling`, `KilledAsPolicySays`, `ManagersTold`.
Three PDs are a manager, a dependent and a dependent of the dependent.

`cleanup_maps`: three spaces and two PDs, any graph of two edges (space map, held PD,
link), unlimited space depth: the cleanup ends (`CleanupEnds`, under weak fairness of
the cleanup step, one uninterrupted run of the RT), also after a destruction has given
up, and nothing dangles. Two edges make a chain of three spaces, a list with a freed
space before a live one, or a PD sent twice to the same holder.

In both runs any destruction may give up. `SpaceHasManager`, `NoMarkedPdLeft`,
`NoDangling`, `KilledAsPolicySays` and `ManagersTold` are claimed as long as none has;
`NoDangling` excepts the holds of PDs that were sent again to their holder.

### 3.3 CoreRefs

`corerefs`: two PDs, MOs, ADSs, CPUs, one endpoint, six requests. `CountsCover`:
no object has fewer counts than references; `NoLeak`: none has more. Six requests
allow an object to be made, shared, attached, replaced and dropped, and reach
every action, including the allocations, loads and destructions that fail half-way.

### 3.4 ResourceRegistry

`registry`: four entries for three ids, so that a search may start with every id
taken. Ids wrap round after three insertions, entries are dropped in between, and
entries are registered under any id from 0 on without a lookup. `IdsUnique`: entries
share an id only where a caller registered one under an id that was taken, so the
search never gives one out twice. `EntriesValid`: counts are positive and ids given
out are in range. `SearchEnds`, under weak fairness of the loop: the search finds an
id or notices that there is none, wherever it starts, except that it goes round for
ever in a full registry when it started from 0 or 1. `PanicOnlyWhenFull`: it gives up
only after it has seen every id taken but the one it started from.

### 3.5 RdeTable

`rde_table`: two PDs, three spaces, rows of two entries, mints that may fail. Two
entries are the least with a hole before an entry in use, and three spaces fill a
row and ask for more. `NoDuplicates` is what `pd_add_rde` does not see to by
itself; `NoStaleDirectory` relates entries, endpoints and registered spaces;
`ImplementsDirectory` is the refinement.

### 3.6 Ramdisk

`ramdisk`: two clients, five blocks; a free list of five blocks has up to three
runs, which every branch of `free_block` needs. `ListOrdered`: runs are sorted and
never touch, although blocks are lost and some are freed twice. `NoSharing`: a
block is free, about to be freed, or one client's. It depends on work being done
before requests (the mutant receives them first), and on the loss of runs: if
`prev` alone were repaired, a block freed twice would be in the list twice.

### 3.7 FileServer

`file_server`: two clients, two inodes, a name in the default space and one in a
namespace, up to two opens of a file by a client, counts up to two when a file is
opened or sent, two SEND entries queued, which are a batch with one entry behind
another.

* `OpenFilePinned`: an entry of the file registry has an inode that is in use
  and referenced, whatever was unlinked, and whatever `clear_dir` passed over.
* `HeldFilesOpen`: the registry's count, with the SEND work still queued, covers the
  holds and the FREE work.
* `NoHoldStolen`: a client loses a hold only by its own close, or when the file or
  its namespace is deleted. The mutant that does FREE before SEND breaks it: the
  sender's exit closes the file that the receiver has just been given.

Two leaks are within these properties, which bound the counts from one side: a
client that has a file open twice and exits gives one FREE for both, and each
reopening counts the struct file up (`filedup`) while one `fileclose` follows for
all, so that the inode is never released.

`CHECK_DEADLOCK` is off in most runs: a behaviour may end when its bound on
requests is used up, when all clients are gone, or when the server has panicked.

## 4. Proofs

`tlapm` checks eight proof modules. The theorems hold for every value of the
constants that satisfies the named assumption of the module: `PdWorkAssumption`,
`CleanupAssumption`, `CoreRefsAssumption`, `RegistryAssumption`, `RdeAssumption`,
`RamdiskAssumption`, `FsAssumption`. These leave the sets of PDs, objects, spaces,
clients and names, the sizes of tables and the bounds open. They ask that model
values for "nothing" are not among the things they stand for, that sizes are not 0,
and that sets whose elements are counted are finite. `CoreRefsAssumption` also asks
for `MaxRequests >= 2`, since one of the initial states has two requests behind it.

Every safety property that a passing run checks is a theorem. Two of them have a
condition on the constants: `KilledAsPolicySays` and `ManagersTold` (4.3).

### 4.1 PdWork_proofs

`AnsweredAfterCleanup` is not inductive. The RT decides on a counter, which reports
lower, and so does the destruction of a server with critical work still on its
lists; work that a dying server has in hand is not counted down, so the counter may
stay above what is outstanding, and what has to hold is that it never runs below.
The inductive invariant

    IInv == TypeOK /\ MissingCoversOutstanding /\ QueuedLive /\ EntriesDistinct
            /\ NoLostWakeup /\ OneSendOutstanding /\ BlockedCallersAreOwed

adds what the counting argument needs. `EntriesDistinct`: an entry is queued or
held, not both, and new entries are new, so a report removes exactly the entries
it counts (`CardinalityOfPart`). `QueuedLive`: lists go with their PD, so no
wakeup is owed to a dead one. One lemma per action shows that it is preserved.
The theorems `TypeCorrect`, `CounterCovers`, `TerminationSound`, `WakeupsKept`,
`SendUnique` and `CallersOwed` follow. `OneSendOutstanding` is inductive with its
exception: `stray` loses SEND only in the step of a send that finds no entry.

`ExtractionsComplete` is an action property: the step that ends an extraction leaves
no EXTRACT entry. It rests on `ExtractInv`, the same covering argument for
`model_extraction_n_missing`, which also says that no entry is left over when an
extraction starts. A dump that fails after it has queued work leaves some, so both are
claimed while EXTRACT is not in `stray`, for every value of `DumpMayFail`.

### 4.2 Cleanup_proofs

`CleanupTypeCorrect`, `SpacesManaged` (`SpaceHasManager`), `NoPdLeftMarked`
(`NoMarkedPdLeft`) and `NothingDangles` (`NoDangling`), for any graph and any depths.
All speak about a nest of iterations over tables that the iterations' bodies
change, so the invariant describes the whole stack:

* `FramesInv`: the frames are the registered PDs that are being destroyed, each
  once, and only the innermost may still be sweeping spaces.
* `SpacesInv`: a PD that is not being destroyed holds its spaces; one that is has
  them marked and ahead of the iteration, and none of them is left when it turns
  to the PDs. This is why the order of the two sweeps matters.
* `MarkedInv`: while a marked PD remains, the innermost sweep has it ahead, on an
  iteration that no deletion has disturbed. The `next` pointer of an outer loop may
  be stale, which is harmless because the first nested `pd_destroy` to return
  has left no PD marked.
* `RefsInv`: what unmarked PDs refer to exists. For marked PDs it need not.
* `HoldsInv`: an unmarked PD holds a PD that it was not sent again at most once, so
  that the one count that the destruction takes is all there is.

The inductive invariant is `TypeOK /\ (~gave_up => CleanupInv /\ HoldsInv)`: types are
kept by every step, also after a destruction that gave up (the lemmas named
`...Types`), the rest is kept by the steps that do not give up (the lemmas named
`...Inv` and `...Holds`), and `gave_up` stays once it is set.

`First` and `After` are minima; that a set of numbers has one comes from `WFMin` of
the library.

### 4.3 CleanupPolicy_proofs

`KilledByPolicy` (`KilledAsPolicySays`) and `ManagersAreTold` (`ManagersTold`) under
`PolicyApplies`: a PD depth of 0, the default of the build, or unlimited, and no space
that takes another with it (space depth 0, also the default, or no maps). For a depth
of 1 the first is false (`cleanup_depth_one`), since the code makes each swept PD
the root of a deletion tree.

`Condemned`, what the policy says, is the least set that has the PD and is `Closed`
under links and, if the depth is unlimited, under dependence. The cleanup takes the
graph apart while it follows it, so two invariants compare what is left with the
set that was fixed at the start:

* `UpperInv`: no survivor is marked, and the PDs that are to go are closed in the
  graph that is left. Edges are only lost, so this stays.
* `LowerInv`: every closed set that has the marked PDs has all PDs that are to go.
  An edge is lost only after the PDs at both its ends are marked, so a closed set
  of the smaller graph that has the marked PDs was closed before.
* `MarksInv`: a marked space executes the policy, its manager goes, and a PD that
  is being destroyed has no links left.
* `NoticesInv`: a notice that is owed is queued, or its client is still to be
  destroyed and holds the resource.

Both theorems, like those of 4.2, are about cleanups in which no destruction gives up:
the invariant is `[](~gave_up => PolicyInv)`.

### 4.4 CoreRefs_proofs

`CoreRefsTypeCorrect`, `CountsCoverReferences` (`CountsCover`) and `NothingLeaks`
(`NoLeak`). The references to an object are split into those inside the core objects
(`CoreCount`: regions, IPC buffers, bindings of CPUs) and those of PDs (`PdCount`:
holds, connections, shared data). Each operation on `core` has a lemma that says by
how much it changes the count and the references of every object. `DropEffect` is the
main one: a set of decs with the cascade of destructions behind it takes from each
object that survives as many counts as references go. `DroppedByCount` applies it
to the destruction of a PD. On the other side each handler changes the references of
one PD (`PdMove`). The invariant

    CoreRefsInv == TypeOK /\ Untouched(core, fresh) /\ FreshPds /\ NewPds
                   /\ Connected /\ CountsCover /\ NoLeak

adds that objects and PDs that were not allocated yet are referred to by nobody, so
a new one starts from 0, and that the ADS and CPU of a PD that was set up are replaced
but never taken away, so that what replaces them drops exactly one reference. What the
theorems leave open are the objects of the requests listed in 2.3.

### 4.5 ResourceRegistry_proofs

`RInv` adds to `IdsUnique` and `EntriesValid` that the entry being inserted is not
registered yet; `RegistryTypeCorrect`, `RegistryIdsUnique` and `RegistryEntriesValid`
follow. For `RegistryPanicsWhenFull` (`PanicOnlyWhenFull`), `SearchInv` says which ids a
search has seen taken: those from its start up to the counter, or round the end up to
the counter. Nothing is freed while it runs, and when the counter comes to the id
before the start these are all but the start.

### 4.6 RdeTable_proofs

`NoStaleDirectory` and `NoDuplicates` rest on what a hole looks like. A lookup by id
takes any entry that holds the id, in use or not, so it has to be invariant that an
entry not in use holds no id of a space (`HolesHaveNoSpace`). The inductive invariant
is

    RdeInv == TypeOK /\ HolesHaveNoSpace /\ NoDuplicates /\ NoStaleDirectory

with one lemma for each request. `RdeTypeCorrect`, `RdeNoDuplicates` and
`RdeTablesSound` follow. For `RdeTableImplementsDirectory` the invariant gives, for
each request, the abstract step: filling an entry adds one space to `Named` and
clearing removes exactly the ids cleared, because no other entry names them
(`NoDuplicates`), and what a share adds is in the directory of the PD that shares
because the entry it found is in use.

### 4.7 Ramdisk_proofs

`RamdiskTypeCorrect`, `FreeListOrdered` (`ListOrdered`) and `BlocksNotShared`
(`NoSharing`). The list is described by a relation between any two of its runs
(`Ordered`: they are apart and in order), because inserting and merging shift the
positions of all later runs and a relation between neighbours would have to be
followed through each shift. The lemmas say what `AllocBlock` and each branch of
`FreeBlock` do to `Ordered` and to the set of free blocks, including the branch that
loses runs. `OnePlace` says for a block that was never sent where it can be: held once
and by one client, or queued to be freed, or on the list, or in the request being
served; it names the only two overlaps, a block that is being freed and one whose
client was terminated while it was freed.

### 4.8 FileServer_proofs

`FileServerTypeCorrect`, `OpenFilesPinned`, `HeldFilesStayOpen` (`HeldFilesOpen`) and the action property `HoldsNeverStolen` (`NoHoldStolen`).
`HeldFilesOpen` compares a count with a sum over clients and spaces; a sum is the
cardinality of a set of copies, one for each hold, so that what a request does
is to add or remove one copy. The inductive invariant `FsInv` has two halves:
`FilesInv` (one name for a file, `nlink` is 1 or 0 accordingly, open files pinned) and
`HoldsInv`. The parts of the latter state why it matters that work comes before
requests: while a request is served no FREE is queued for a file without an entry
(`ServingClean`), a client that waits for its close still holds the file, also
against a send that is not counted yet (`CloseSound`), and a close whose client is gone
is one of the known miscounts (`CloserGone`).

### 4.9 Only model-checked

Liveness (`TerminateAnswered`, `SendAnswered`, `DumpAnswered`, `CleanupEnds`,
`SearchEnds`): fairness is outside the reach of the prover. `KilledAsPolicySays` and
`ManagersTold` for graphs with maps and a space depth other than 0 have no run and no
theorem: `Condemned` says nothing of spaces that go with others. The counterexamples
of section 5 are TLC's.

## 5. Disagreements between the code and what it says

Three runs are counterexamples; the findings in `PROJECT.json` quote the lines.

* `pdwork_dump_server_dies`: a server dies while it owes a subgraph; the caller
  of the extraction stays blocked and later extractions are refused.
* `cleanup_depth_one`: a PD depth of one destroys dependents of dependents,
  because the sweep makes each swept PD the root of a deletion tree.
* `buffer_cache_lost`: changes of a block are lost when its buffer is recycled,
  since nothing calls `bwrite`.

TLC also finds these, with other constants or with a property that no run
checks because the code does not have it:

* `SendAnswered` with a server that does not handle SEND, as the ramdisk: the
  sender stays blocked and later sends are refused;
* `SendAnsweredAfterWork`, which is what the comment at `pd_component.c:332` says: a
  send that fails after it has queued its entry (`pd_obj.c:1054`, then 1074 or 1450)
  is answered with nothing pending, and the report of the entry answers the next
  send, before the work of that one is done;
* `NoDanglingPd`, which is what the comment at `pd_obj.c:811` says: a PD that was sent
  another one twice still holds it after that one was destroyed, since each send
  counts (`pd_obj.c:68-72`) and the destruction takes one (`pd_obj.c:137`);
* `NoFreedRead` in `Cleanup` with a PD that has two linked children: the
  nested sweep frees the entry that the outer loop reads next;
* `SearchEnds` without its exception: with every id in use and the counter at 1, or
  still at 0, the search never notices that it has gone round, where
  `resource_registry.c:108` says "We have checked every possible ID";
* `NothingFreedEarly` in `CoreRefs`: after change_vspace one count stands for two
  references; the ADS is destroyed while the PD's connection names it;
* `ShareSucceeds` in `RdeTable`: a share of the default space returns 0 when the
  target has any other space of the type, and the target does not get it;
* `FreeingLosesNothing` in `Ramdisk`: with blocks 0 to 3 allocated, freeing 0 and
  then 2 drops block 0 from the list for good;
* `HeldFilesOpen` in `FileServer` without the exception for `miscounted`;
* `ExtractionAnswerSound` without the exception for `stray`: EXTRACT entries of a
  failed dump are reported to the next one, whose count they lower too early;
* with `Exiters` and liveness, a server that exits with critical work in hand
  leaves a termination pending;
* in `Cleanup` with maps, the list of mapped spaces is read after a space in it
  was freed, and a space that is marked behind the position of the running
  sweep stays marked until the next one;
* `PanicOnlyWhenFull` with all of `Ids`: a search that starts from the only free id
  panics although that id is free;
* in `Cleanup`, after a destruction that gave up, a space whose manager is gone: the
  next PD that is destroyed with a resource of it makes the RT read through a NULL
  pointer (`NullManager`, `pd_obj.c:564-573`).

## 6. Not modelled

* Encoding and dispatch of messages (nanopb), the client stubs, logging, timing.
* Capabilities and frames as such: a cap is there when its hold entry is. The
  loss of caps when a CSpace is destroyed is part of `pd_destroy`.
* Register access, vCPU and IRQ requests: they call the kernel and keep no
  state that another operation reads.
* Ids that wrap round while old badges exist: 2^24 allocations.
* `sqlite3` (vendored, nearly nine tenths of the lines of the repository), the
  VMM, tests and demos.
* Of the ramdisk: reading and writing, BIND and UNBIND. `shared_mem` has 32
  entries and is indexed by the client's PD id without a test.
* Of xv6fs: the contents of files and directories, paths, link, stat, extraction.
* The DESTROY work of both servers, which the RT queues for a space that goes with a
  space it is mapped to. The ramdisk maps none. xv6fs maps its own (`fs_server.c:272`,
  346), so it has none only with a resource-space depth of 0, the default of the
  build, which `FileServer` assumes.
* The descriptor table of the xv6fs client. A full table loses the hold of the file
  just opened; `access` closes its descriptor twice, the second time in vain.
* Requests with ids that do not exist are refused. `ads_component_rm_by_id` tests
  the wrong pointer and `handle_share_resource_type_req` frees a list it has not
  initialised in that case, which has no state after it to speak of. The key of
  link nodes is never set, so links may be doubled; here they are a set.
* Freed memory: a model says that it would be read (`NoFreedRead`), not what the
  read returns. `resource_registry_get_by_badge` has no return statement; the
  models take the value of the call in it, which the compilers in use leave in
  the return register.

## 7. Plan

1. Proofs: the properties that hold of `Cleanup` for a finite PD depth (the code then
   seems to kill as if it were unlimited); a bound on the length of a
   cleanup as a step towards `CleanupEnds`; that `insert_new_id` takes the least free
   id after the counter.
2. `ServerLoop`: the request branch of `resource_server_main` with the reply cap
   in the shared data, the RT that replies for a dead server, and requests that
   wait in the endpoint; composed with `PdWork`.
3. An abstract specification `Requests` (each request is accepted or refused,
   answered once, after its effect) that `PdWork` refines.
4. `Badge`: packing and unpacking as operators, checked against a record.
