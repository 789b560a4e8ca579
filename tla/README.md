# A TLA+ model of the approximate-computing Sniper 6.1

The repository holds the parts of the Sniper multi-core simulator (version 6.1)
that were changed for approximate computing: a cache hierarchy whose sets are
split into exact and approximate ways, a magic server that keeps track of
approximate variables, a DRAM controller that ages them, fault injection, and a
modified power model. The rest of Sniper (directory, network, locks, threads,
performance models) is not in the repository; where the code depends on it, it
is modelled from the way the code uses it and marked external in
`PROJECT.json`.

## Inventory

| Component | State | Operations | Interacts with |
|---|---|---|---|
| Cache set, LRU2 (`cache/cache_set*.cc`, `cache.cc`) | tag and state per way, age bits, margin | find, read/write line, insert, invalidate, setCState | driven by the cache controller under its lock; asks the magic server for the class of a block |
| Cache controllers (`cache_cntlr.cc`) | coherence state per line, set locks, waiter queue, evict buffer, MSHR, prefetch list, semaphores | processMemOpFromCore, processShmemReqFromPrevCache, insert/update/write/invalidateCacheBlock, handleMsgFromDramDirectory, prefetch | user threads, network threads, directory messages, sibling caches |
| Memory manager (`memory_manager.cc`) | wiring of the caches, TLBs | coreInitiateMemoryAccess, handleMsgFromNetwork, sendMsg | core, cache controllers, magic server |
| Magic server (`magic_server.cc`) | approximate bytes with potential and saved counters and life times, address window, log flags, operation counters, clock | magic instructions (add/del approximate range, logs, approximate arithmetic), access counting, save and reset of counters, life-time update, class queries | called by application threads under the thread-manager lock and by every memory thread without it |
| DRAM controller (`dram_cntlr.cc`) | last access and approximate variables per page | get/put data, update of page records | LLC or directory; magic server |
| Core (`core.cc`) | last instruction block, periodic-instruction counter | splitting an access into lines, lock signals, hooks | memory manager |
| Fault injection (`fault_injection/`) | fault tables | preRead, postWrite | cache and DRAM accesses, magic server |
| Approximate arithmetic (`magic_server.cc`) | none | rapcla, appmul | magic instructions |
| McPAT core and shared caches (`mcpat/added/core.cc`, `sharedcache.cc`, `logic.cc`) | one `interface_ip` record per constructor, arrays, access statistics, areas, peak and runtime power | constructors, `computeEnergy(true)`, `computeEnergy(false)`, `displayEnergy`, destructors | CACTI through `interface_ip`; the processor |
| McPAT processor (`mcpat/added/processor.cc`) | objects per class, totals per class and for the chip | constructor, `displayEnergy`, destructor | cores, shared caches, directories, controllers, networks |
| CACTI interface (`mcpat/added/cacti/io.cc`) | the record `interface_ip` | `error_checking`, `cacti_interface`, `init_interface` | every array and logic block of McPAT |
| CACTI technology and mat formulas, XML parser, scripts, filters, test programs | none | – | offline |

What is hard here: three kinds of threads share a cache set (user threads of
the cores, the network thread of the LLC, the directory through messages); an
upgrade of the set lock releases it; a miss is begun by one thread, completed by
a second and used by the first; messages cross evictions; replacement bits are
shared by two classes of blocks whose class can change at any time; the magic
server's tables are read and written by memory threads without a lock. The power
model is sequential, but it builds some forty arrays from one record that is
overwritten field by field, switches an approximate mode on and off in it, runs
two passes over shared statistics, and repeats the same conditions and sums in
constructors, passes, printouts and destructors.
`PROJECT.json` lists these hazards at the lines where they bite.

## Modules

| Module | Models |
|---|---|
| `CacheSetLRU2` | one cache set with the LRU2 policy |
| `PartitionedLru` | abstract specification: two partitions, each in order of last use, with pinned lines |
| `CacheSetLRU2Proofs` | the theorems about `CacheSetLRU2` |
| `CacheCntlr` | the cache controllers of a two-level hierarchy, with directory and network |
| `CacheCntlrInv` | the inductive invariant of `CacheCntlr`, in layers |
| `DirectoryProofs`, `HierarchyProofs` | the theorems about `CacheCntlr`, the second on top of the first |
| `MCCacheSetLRU2`, `MCCacheCntlr` | symmetry sets for TLC |
| `ApproxVars` | the table of approximate bytes and its address window; extended by the next three |
| `LifetimeWalk` | the loop of `update_liftime` over the approximate bytes of a block |
| `DramCntlr` | DRAM reads and writes, life times, page statistics |
| `Footprint` | the access counters, who counts, saves, resets and logs them |
| `LifetimeProofs` | the theorems about `LifetimeWalk` and `DramCntlr` |
| `FootprintProofs` | the theorems about `Footprint` |
| `InputParameter` | the record through which McPAT asks CACTI for an array, and its checks |
| `CoreArrays` | construction of a core, a shared cache or a directory; extends `InputParameter` |
| `CoreEnergy` | the rest of its life: two energy passes, printout, destruction; extends `CoreArrays` |
| `CoreInv` | the inductive invariants of `CoreArrays` and `CoreEnergy` |
| `ConstructionProofs`, `EnergyProofs` | the theorems about them, the second on top of the first |
| `Processor` | construction, printout and destruction of the chip |
| `ProcessorProofs` | the theorems about `Processor` |
| `MCCoreEnergy`, `MCProcessor` | the configurations for TLC |

### CacheSetLRU2

`tag`, `cstate` and `m_lru_bits` are the arrays of the code, one entry per way;
`evicted` is what the last insert reported through `evict_block_info`. `approx`
is the set of blocks for which `MagicServer::is_block_approx` answers true; the
actions `AddApprox` and `DelApprox` change it at any time, since no lock orders
the magic server's changes with a fill. `Insert` is `CacheSet::insert` with the
`setCacheState` that follows it in `insertCacheBlock`; `Access` is a read or
write that updates the replacement bits; `SetCState` are the state changes of a
cached line. Data bytes are left out.

`PartitionedLru` says what the set promises: a fill takes a free way of the
block's partition if there is one, else the least recently used way that is not
pinned by an upgrade. It promises nothing when all ways but the youngest are
pinned, since the search of `getReplacementIndex` never considers a way of age
0 and falls back on the first way. The refinement maps the age bits to an order
of the ways.

### CacheCntlr

One first-level cache per core (the code has an instruction and a data cache
per core; they are siblings below the same LLC, as two cores are), an LLC for
every `SharedCores` cores, and the blocks of one first-level set, which share
one set lock per LLC. A line is its coherence state and a flag that says
whether its data is that of the last write; messages and the DRAM carry the
same flag. `user[c]` is the user thread of a core: idle, waiting for the
exclusive lock after a miss, waiting for the network thread, or inside an atomic
pair (READ_EX with LOCK, then a WRITE with UNLOCK). `net[g]` is the block whose
waiter the network thread of an LLC has woken. An action is everything a thread
does between two points where it lets go of the set lock or waits: nobody else
can see or change the lines in between.

`dramDirect` is a configuration that `Init` chooses and nothing changes: with it
the LLC has the DRAM controller and asks no directory.

`failed` collects the assertions (`assert`, `LOG_ASSERT_ERROR`,
`LOG_PRINT_ERROR`) that fail in a step; the program stops there, and the model
too (`Stopped`).

| Action | Code |
|---|---|
| `Hit`, `Miss`, `Unlock` | `processMemOpFromCore` up to the lock upgrade |
| `MissHitsLlc`, `MissGoesToDram`, `MissWaits` | the miss under the exclusive lock: own copy invalidated, `processShmemReqFromPrevCache`, then either the fill and the access, or `initiateDirectoryAccess` |
| `Resume` | the rest after `waitForNetworkThread` |
| `HandleDataRep`, `HandleUpgradeRep` | EX_REP, SH_REP, UPGRADE_REP with the start of the waiter loop |
| `NetResumes` | the waiter loop after `waitForUserThread` |
| `HandleInvReq`, `HandleFlushReq`, `HandleWbReq` | requests of the directory |
| `DirReceive`, `DirForward`, `DirReply` | the directory (external): requests queue per block, conflicting holders are told once, the answer is sent when they have given up the line. A first reader may get EXCLUSIVE. An upgrade whose requester lost its copy is answered with data, as the comment in `processUpgradeRepFromDramDirectory` says |

Channels are FIFO per LLC and block. The replacement victim is any line that
LRU2 can pick: lines that wait for an upgrade are spared unless at most one
other line is left.

### ApproxVars

`approx_vars` is the key set of the code's `std::set<appvar>`; `start_addr` and
`end_addr` are the globals of `magic_server.cc`. Registering widens the window,
deleting leaves it. Addresses are those of user space, so the sums of the code
do not wrap; the one huge value, the initial `start_addr` of -1, is an address
above all others. Commands on ranges are sequences of single-byte calls, since
memory threads take no lock of the magic server and run between them.

### LifetimeWalk

One action is one pass of the loop at the end of `update_liftime`: `LookAgain`
searches the next offset while no byte has been found, `Visit` handles the byte
the iterator is at and increments it, `Return` leaves the loop. The table, the
window and the block are arbitrary, with the window covering the table, which
`Footprint` shows to be the case always. No other thread changes the table
during the walk: a `std::set` changed under an iterator is outside the model.

### DramCntlr

`getDataFromDram` and `putDataToDram` are one action each: the page record, the
aging of the page's approximate bytes, the settlement of the block's bytes (the
result of `LifetimeWalk`) and the page statistics. Times are any numbers up to
`MaxTime`, in any order. A byte that is not registered has no record; the model
writes zeros. There is one controller, as the code assumes (`total_addrs` and
`approx_addrs` are globals while the counters belong to a controller). `exposed`
and `lived` are history variables that define the life time without the code's
trick of two numbers per byte.

### Footprint

`poten` and `saved` are the two groups of counters of an `appvar`. `Read` is a
data read of a core up to the return of `processMemOpFromCore`; `upsave_cnters`
and `reset_cnters` follow as steps of their own. `Write` is a core's write.
`Traffic` is every other access to a cache line: fills, write-backs and snoops
by user and network threads. The counters are plain integers changed by several
threads: an increment or a reset can be lost, and the model lets both happen,
except to counters that only one thread changes. `AddApprox`, `DelMarker`,
`DelRange` and `AddCnt` are the magic commands; `approx_log` is what the log
file holds. `counted` is a history variable. The configuration is
the one that measures footprints (`mem_footprint/enable`, no fault injector).

### InputParameter and CoreArrays

A record `ip` holds the fields of `interface_ip` that decide what is built.
Sizes and tag widths are abstracted to their origin, the array for which they
were last computed, so that a value left over from an earlier array is visible
as such. An assignment of fields is the operator `++`, which
lays the new fields over the record. Port counts, associativity and search ports stay numbers, because
`error_checking` compares them with 0. The ports and widths of the XML that the
constructors copy into them are parts of a configuration, any natural numbers:
`fetch_ports` (`number_instruction_fetch_ports`), `mem_ports`, `fp_issueW`,
`issueW`, `decodeW`, `commitW` and `peak_issueW`. The last is at least 1, since a
line of the instruction buffer holds that many instructions. Sizes, banks and
technology numbers, which `error_checking` tests too, are taken as accepted.

Each constructor is a sequence of statements, one operator per block of the
source that sets fields and makes a part (`icache`, `dcache_missb`, `RAS`,
`fp_inst_window`, ...), composed by the operators named after the constructors
(`InstFetchU`, `LoadStoreU`, `EXECU`, `RENAMINGU`, `SharedCache`, `CoreUnits`).
The actions execute one statement each: `NewArray` is
`new ArrayST` with `cacti_interface` inside, `RefuseArray` its `exit(0)`,
`NewLogic` the parts that call `init_interface` (which prints the error and
goes on), `NewWire` an interconnect whose length is a sum of heights,
`AssignFields`, `KeepVdd` and `RestoreVdd` the assignments between arrays,
`EnterUnit` and `LeaveUnit` a constructor with its copy of the record,
`CoreArea` the sums at the end of `Core::Core`. `built` keeps what every part
was built with, and which heights were unset; `area` is a bag of parts.

### CoreEnergy

A power is a bag of terms: the dynamic energy of a part for the accesses counted
in some object's `stats_t` and the pass that last filled them, or the leakage of
a part. The numbers are left out; what a total is made of is kept. Each
`computeEnergy` is again a sequence of statements: `InitStats` fills `stats_t`,
`PartPower` computes a part and adds it to its unit, `SubTotal` adds a unit to
its parent, `PipeShare` gives a unit its share of the pipeline registers,
`FunctionalEnergy` is `FunctionalUnit::computeEnergy` with the average over
exact and approximate instructions. `Display` records the parent and child lines
printed for a print level, `Destroy` what the destructors delete.

### Processor

One action is one iteration of a loop of `Processor::Processor`
(`MakeArrayObject`, `MakeController`, `MakeNoC`, `MakeLinks`, `NoCEnergy`) or the
step to the next loop (`NextStep`). Areas are bags of objects, powers bags of
terms with the factor (`clock`, `time` or none) that turns energy into power;
homogeneous classes make one object and multiply it. `chip_at` remembers the
chip's area when a bus or link was laid out. The objects' own construction is
`CoreEnergy` for cores and caches and external for controllers and networks.
`has_global_link` is one flag for all networks of a chip, where the code has one
per network; no property depends on the difference.

## Runs

| Run | Instance | Shows |
|---|---|---|
| `set_lru2` | 5 ways (2+3), 4 blocks | age permutation, unique tags, reported evictions, partitioning, refinement of `PartitionedLru` |
| `private_llc` | 2 cores, 2 LLCs, 2 blocks, 1 way | coherence through the directory |
| `shared_llc` | 2 cores, 1 LLC, 3 blocks, 2 ways, with a directory and without | inclusion, write-backs, lock hand-over; no assertion fails without a directory |
| `clustered_llc` | 4 cores, 2 LLCs, 1 block | waiters find their line, no lost write |
| `liveness` | 2 cores, 1 LLC, 2 blocks, 1 way | every access completes |
| `lost_upgrade` | 2 cores, 2 LLCs, 1 block | violated: assertion in the reply to a lost upgrade |
| `lifetime_walk` | 9 bytes, blocks of 3 | the walk settles exactly the block's approximate bytes |
| `dram_lifetimes` | 5 bytes, blocks of 2, pages of 4, times 0 to 2 | life times are exact, pages counted once |
| `footprint` | 2 cores, a block of 2 bytes, 3 accesses | own writes saved, nothing counted twice, additions kept, window covers the table, the marker's log lacks no count |
| `core_power` | 208 configurations of cores, L2, L3 and directories | own geometry, approximate mode and voltage confined, heights set, exits exactly without ports, areas and powers counted once, fresh statistics, passes, printout and destructors follow only made parts, printed breakdown adds up |
| `processor` | 132 chips with up to two objects per class | class and printed totals agree with the chip, every object represented, links laid out over the whole chip |
| `approx_mode_unset` | as `core_power`, the unassigned `approx_mode` may hold 1 | violated: arrays before the first data cache use the approximate model |

Bounds. Partitions of two and three ways with four blocks let a full partition
be filled once more, with any of its ways pinned. With fewer
ways than blocks every fill of the controllers evicts, so evictions race with
every message; two LLCs are enough for every pair of conflicting requests, and
two cores per LLC for a queue of waiters of both kinds. The numbers of messages
and waiters need no bound: each core has one access under way.
`lifetime_walk` starts from every table and window, so the block has
approximate neighbours on both sides or none; it ends when the loop ends, hence
no deadlock check. Three times (`MaxTime`) give intervals that grow, shrink and
go backwards; two pages and three blocks make a page with two blocks and one
with a single one. `MaxAccesses` bounds the counters; three accesses are a
write, a read and one access of another thread between any two calls. The
theorems below do not depend on these bounds.

`MCCoreEnergy` has every condition a constructor branches on with both outcomes
(in-order and out-of-order, physical registers or reservation stations, RAM or
CAM renaming, one or two threads, with and without predictor, FPU, multiplier,
ROB, load queue, write-back, register windows, private L2, own voltage; the
three device types; each port count and width 0 or not). Conditions that different units branch on are
varied together, since units share only the record, which each copies. In
`core_power` the unassigned `approx_mode` holds 0 or a number that
`error_checking` turns into 0; `approx_mode_unset` lets it hold 1. In
`MCProcessor` two objects of a class tell a multiplied object from several, and
one router and one bus tell the two kinds of network apart. Both models are
sequential: TLC checks that they never get stuck before the end, and no
fairness is needed.

A type invariant that no run names is part of the theorems below.

Fairness. `liveness` assumes that a thread that can go on does so, that
messages are received, and that a thread does not lose the race for a set lock
for ever (strong fairness on the lock acquisitions). The lock is outside the
repository; it is a set of ordinary mutexes, so this is the usual assumption on
a scheduler. No fairness is assumed of the cores' requests. The run
has one LLC, so the directory never invalidates a line in it; that an
invalidation crossing an eviction or an upgrade does no harm is a matter of the
safety properties of `private_llc` and `clustered_llc`.

More disagreements between comments, intention and code showed up while
modelling. They have no run of their own; the models do what the code does.

* `getReplacementIndex` starts from age 0 and the first way of the partition
  (`cache_set_lru2.cc:40`), so when all other ways wait for an upgrade the first
  way is evicted even if it waits too and the youngest does not, although
  `insertCacheBlock` asserts that a victim is SHARED or EXCLUSIVE
  (`cache_cntlr.cc:1528`).
* The deletion of a range writes the log without saving the counts of the period
  under way (`magic_server.cc:531`); the marker command saves them first, because
  "some approx entries are not upsaved even till the end of execution."
  (`magic_server.cc:457`). `MarkerLogComplete` is therefore about the marker.
* `accessSingleLine` passes the accessed byte with the size of the whole block
  (`cache.cc:125`), so an access in the middle of a block counts bytes of the
  next one; the counting functions say "always get block addr"
  (`magic_server.cc:872`).
* `update_liftime` returns true for every block that the window does not
  reject; its comment (`magic_server.cc:953`) says "return true if address is
  approx". Nothing uses the result, and `LifetimeWalk` leaves it out.
* `add_approx` stores set number 0 whatever it is given (`magic_server.cc:769`),
  although the marker command passes one (`magic_server.cc:425-427`).
* An upgrade reply makes the first-level copies of all cores of the LLC MODIFIED
  (`cache_cntlr.cc:1935`, with a comment that only the requester's should stay),
  and a read that hits an EXCLUSIVE or MODIFIED LLC line gives the reader that
  state next to its siblings' SHARED copies (`cache_cntlr.cc:649`). So
  `SingleOwner` and `ReadsCurrent` hold with one core per LLC only, and are
  checked and proved there, where a line has no siblings; `SingleDirty` is what
  is left when cores share an LLC.

In the power model:

* RAM-based reservation stations: the tag of `fFRAT` is computed and never stored
  (`core.cc:1675`), so `iFRAT`'s is used.
* `intTagBypass` adds no area with physical register files (`core.cc:1260`).
* `Iw_height` of a single-threaded in-order core and `ROB_height` of a core
  without ROB are read unset (the exceptions in `HeightsSet`).
* A core without fetch or memory ports ends the program with `exit(0)`, status
  success, inside a constructor. So does an out-of-order core without
  floating-point issue width, without commit width if it has physical registers
  or RAM-based renaming, or without decode width if renaming is CAM-based
  (`NoPorts`; `cacti/io.cc:3360`).
* The data cache's twin lowers only the HP voltage (`core.cc:770`), the other
  two lines being commented out.
* `L2_localBPT` is printed but is in no total.
* The weighted average of exact and approximate energies is also applied to the
  FPU, the multiplier and the ALU of embedded cores, whose approximate energies
  are 0, and is 0/0 without integer instructions (`logic.cc:624`).
* The leakage of the dependency checks is added from `power_t`, which nothing
  computes; the runtime power of decoders, register files and functional units
  has no leakage.
* A merged directory's runtime energy uses `homenode_stats_t` of the peak pass
  (`sharedcache.cc:566`); a misplaced parenthesis there multiplies the result of
  an assignment by the leakage mask (`sharedcache.cc:684`).
* A heterogeneous first-level directory is added to the chip without the clock or
  time factor (`processor.cc:219`).
* Private L2s are compared with the cores after both numbers were reduced to 1
  (`processor.cc:73`); a bus spans the chip without the networks after it.
* The runtime share of the pipeline in an out-of-order core lacks the number of
  cycles (`core.cc:3996`), unlike that of an in-order core.
* `LoadStoreU::displayEnergy` for runtime values dereferences `LoadQ` without a
  test; whoever prints runtime values is not in the repository, so `Display` is
  the peak printout and no property speaks of the other.

## Proofs

`CacheSetLRU2Proofs` proves for every associativity (2 to 256), margin and set
of blocks:

* `SetInvariant`: `TypeOK`, `LruPermutation` and `TagsUnique` hold always. The
  three are inductive together (`IInv`): the victim of a fill lies in the
  partition of its class (`ReplacementInPartition`), an update of the age bits
  keeps the ages of each partition distinct and below its size
  (`UpdateKeepsAges`), and `find` is a way that holds the tag (`FindWay`).
* `FillsStayInPartition` and `EvictionsAreReported`: the action properties, from
  the same invariant.
* `RefinesPartitionedLru`: the set implements `PartitionedLru`, `Spec =>
  ImplementsLru`. An update of the age bits is `Use` of the abstract order
  (`UpdateIsUse`: the accessed way is the only one with age 0 afterwards and no
  two others change places, which needs the ages to be distinct), and the way
  `getReplacementIndex` returns is one the abstract specification allows
  (`VictimIsReplaceable`, from `VictimIsOldest`). `InitMaps` and `StepMaps` then
  match the initial states and every action.

They rest on `MarginAssumption` (the ages fit in a byte and both partitions are
non-empty) and `NoTagAssumption`.

`LifetimeProofs` proves `WalkSettlesBlock` for every table, window and block
size. The loop invariant (`WalkInv`) is a race between the counter and the
iterator: before a byte is found, no byte of the block lies below offset `i`;
once found, the iterator is never behind offset `i - 1`, so the loop cannot end
while it is inside the block. `RejectedHasNone` is the window's part.

It also proves `WalkIsSettlement`, that the settlement which `DramCntlr` makes
in one step is what the loop comes to, and `DramTypes`, `LifetimesAreExact` and
`PagesAreCounted` for every page size, block size and bound on the times.
`LifetimeExact` alone
is not inductive: `PotentialExact` adds that `poten_maxlifetime` is the larger
of the interval since the last write and the best one that was read, so that a
write which copies `maxlifetime` back forgets only the first; `WindowCovers`
and `UnregisteredZero` carry it through registration and deletion.

`FootprintProofs` proves `FootprintTypes`, `OwnWritesAreSaved`,
`CountsAreSound`, `AdditionsAreKept`, `WindowIsSound` and `MarkersLogIsComplete`
for every set of cores, every memory and any number of accesses.
`OwnWritesSaved` needs `UnregisteredZero`: a byte registered between a core's
save and its reset has nothing to lose; `Bounded` and `AdditionsAll` extend the
counting properties to every byte. `MarkerLogComplete` needs that the counters
are saved whenever the marker is about to log (`UpsavedIsComplete`). These
proofs rest on `AddrAssumption`, `PageAssumption` and `CoreAssumption` (sizes
are positive, core ids and times are natural numbers).

### The cache controllers

The safety properties of `CacheCntlr` are proved for every number of cores and
of cores per LLC, every set of blocks and every associativity, from
`CoresAssumption` and `DirectAssumption`. None of them is inductive; the
invariant that is (`CacheCntlrInv`, checked by TLC on the runs' instances before
it was proved) has layers, and a layer may use those before it but not those
after it:

1. `DirectoryProofs`, first part: types, and `HandoverInv` about the set lock, the two
   semaphores and the queues of waiters. A semaphore is up for the waiter that is
   served and for no other (`SemInv`), the queues hold the waiting cores once
   each (`WaiterInv`), and the lock belongs to the atomic pairs or to the woken
   thread (`LockInv`). Between the user thread's signal and the network thread's
   next turn the served entry is still queued although its core has gone on and
   may wait again; `Served` singles it out. `CacheTypeCorrect` and `LockHandedOver`
   follow.
2. `DirectoryProofs`, second part: the link between an LLC and the directory (`LinkInv`, one
   invariant per LLC and block over the line's state, the two channels and the
   directory's entry). It says when an answer or a request of the directory may
   be on its way: one request at a time (`RequestOnce`), what the directory
   believes against what the LLC has (`Believed`), the order of write-backs,
   evictions and requests (`GoneOrder`, `WrittenBackOrder`), and that the
   request the LLC has not seen is the one the directory waits for
   (`ForwardOrder`). `LlcsCoherent`: an LLC in an owner state is the only one
   with a line.
3. `HierarchyProofs`: the first-level lines against the LLC line
   (`HierarchyInv`). `DirtyInv` has the exception that makes it inductive: after
   an upgrade all copies are MODIFIED until the woken owner runs. From it
   `CachesInclusive`, `OneDirtyCopy`, and `OwnerOnly`, which has the hypothesis
   `SharedCores = 1`, as the property is false when cores share an LLC (see the
   list above); the run `private_llc` has the same restriction.
4. `HierarchyProofs`, second part: `OnlyTwoFail`, each assertion of the code is
   implied by the first three layers at the place where it stands, except
   "evict" (a line that waits for an upgrade is evicted) and "out_buf" (an
   upgrade reply for a lost line), which do fail: the latter is the run
   `lost_upgrade`. From it `DirtyDataIsTaken`, `DataIsStillThere`,
   `RepliesAreExpected`, and `DirectIsSafe`, since without a directory no line
   ever waits for an upgrade.
5. `HierarchyProofs`, last part: the data (`DataInv`). No single copy is always
   up to date, so the invariant says where the last write is. For each block
   (`Kept`) the DRAM has it, or some LLC is MODIFIED or has a write-back on the
   way to the directory; for each LLC (`SideOk`) its line is current unless a
   first-level line above it is MODIFIED, and that one is current; write-backs
   and replies carry current data, and EXCLUSIVE is given only with a current
   DRAM. A line may be outdated in the first level while a neighbour of the same
   LLC writes, which is harmless until an upgrade makes every copy MODIFIED:
   that the copies are current where an upgrade is served (`NeedsCopies`) makes
   it inductive. `WritersAreAlone`, from layer 2, shows that a write leaves no
   other LLC, reply or write-back with the old data. From it `NoWriteIsLost`,
   and `ReadsAreCurrent` with the hypothesis `SharedCores = 1`: the property is
   about private LLCs, as in the run `private_llc`, since a core that shares an
   LLC can hit an outdated copy. `InductiveInvariant` puts all layers together.

Actions that fill a line share the operator `FillStep`: the LLC line is there
(`Requested`) or is brought in (`Fetched`), then the first level takes it and
evicts one of its own (`FillFrom`); each layer proves it once.

Every safety property of `CacheCntlr` that a run checks is a theorem.

### The processor

`ProcessorProofs` proves the three properties of `Processor` for every set of
configurations, with any number of objects in each class, from `ConfigsShape`
(the shape of a configuration record).

`ConstructorInvariant` is the inductive invariant. `Made` says how many
iterations of each loop have run, from the step and the loop counter; `AreaInv`
and `PowerInv` say that the area of a class is exactly the objects made, that a
class has power once its loop has started, and (`Totals`) that the chip counts
of every object and term what its class counts. The loops of the code add to the
chip in two ways, the new total of a homogeneous class or what a heterogeneous
object adds; `LoopTotals` shows that they come to the same, because the loop of a
homogeneous class runs once and its class is empty before. The classes are
disjoint (`AreaDisjoint`, `PowerDisjoint`), so that the chip is the sum of its
classes (`ChipIsSum`): `TotalsAddUp`, which excepts the first-level directories of
a heterogeneous configuration as the property does. `AllAreRepresented` follows
from the areas when all loops have ended (`AllMade`), and `LinksSpanTheChip` from
`Made` at the moment a network is laid out.

### The power model

`ConstructionProofs` and `EnergyProofs` prove for every set of configurations in
the type `ConfigType`, whose port counts, widths, table sizes and instruction
counts are any natural numbers (the peak issue width from 1), what TLC checks on the 208
configurations of `MCConfigs`. The
assumptions are those of the modules: the configurations have this type
(`ConfigsAssumption`), and `approx_mode` holds some number (`ApproxInitAssumption`).

A constructor is a fixed sequence of statements for a configuration, but which
sequence depends on a dozen branches in each unit, and the question is always
what the statements before a point have left in a record that all of them share.
`CoreInv` therefore has a small program logic: its judgements are about pieces
of the program, are proved once per piece and composed along `\o` and IF, as
the constructors are.

* `Triple(c, F, s, G)`: if the facts `F` hold of `interface_ip` before the
  statements `s`, every array in `s` is accepted by `error_checking`, has its own
  sizes, mode and voltage, and `G` holds after them. Facts are names such as
  "cache" (`is_cache` is set), "search" (as many search ports as `error_checking`
  wants), "thread" (the tag is the thread's), "supply" (all voltages are those
  the object is configured with), "kept" (`KeepVdd` holds them). `Outline` is one
  assignment of facts and nesting depth to every point of the whole program, and
  `Construction` says that the running constructor's record satisfies the facts
  of the outline at `pc`, those below it on the stack at least the plain ones.
  `OwnGeometry`, `SupplyRight` and `ApproxConfined` follow, and so does the first
  half of `ExitExactlyWithoutPorts`: where the configuration is not one of
  `NoPorts`, a triple has every array accepted, so no constructor exits.
* `Builds(c, D, s, P)`: after the parts `D` the statements `s` make the parts `P`
  and read no height of an array that is not in `D` or made before it:
  `HeightsSet`. What is made also gives the second half of
  `ExitExactlyWithoutPorts`. A finished object has all its parts (`DoneBuilt`),
  among them, in a configuration of `NoPorts`, an array whose own ports are 0
  (`Portless`); `error_checking` refuses those whatever else the record holds
  (`Refused`), so the object was never finished.
* `Adds(s, A)`: the statements put the bag `A` into the area of their unit, in
  whatever unit they occur. A `Ledger` gives the area of the open unit at every
  point; `Areas` says that the stack has it. `AreaOnce` follows by counting the
  parts, each of which has one unit it is at home in (`Home`).
* `Pass(c, pass, D, s, E)`: if `D` has been counted in this pass, the energy
  statements `s` use only parts that are built and accesses counted in `D` or
  earlier in `s`. `Computation`, on top of `Construction`, says that the powers
  so far are fresh and that what the rest of the pass needs is there: `FreshStats`
  and the part of `PointersMatch` about the passes (`OnlyBuilt`). For the printout
  (`PrintsBuilt`), each printed line, whatever the print level, follows pointers
  to parts that a line of the energy passes has reached (`LinesReached`, from
  `Billing` below). For the destructors (`AllFreed`), `Freeing` says what
  they delete, the parts made and whatever `BPT` points to, which only a core
  with a predictor follows (`BehindMade`).

* `Charges(c, st, a, b)`: an energy statement `st` leads from book `a` to book
  `b`. A book gives for each sum of each pass (the predictor, fetch, ..., the
  core, a shared cache) the set of keys <<part, what>> it is made of, "what"
  being the accesses or "leakage". A statement may only add keys that are not
  yet there. `Keeps` chains statements, `Pays` and `Spends` say which keys a
  piece adds to one sum, `Settles` what a whole pass leaves; the keys of the
  pieces are spelled out (`IfuKeys`, `SchedulerKeys`, ..., `RootKeys` for the
  total) and disjoint because each part has one home. So every configuration has
  a `Journal` (`HasJournal`), the books before and after every statement.
  `Accounting` is the inductive invariant: before each statement each power holds
  the terms of its keys in the journal, each `Once` and with the accesses of the
  pass that `SourceOf` names. Adding two powers keeps it because the keys are
  disjoint (`OnceSum`). The one term that is in a sum more than once is the
  leakage of the selection logic, which both windows add; `Once` leaves it out,
  and `CountedOnce` does not speak of it, since it is about arrays and wires.
  `CountedOnce` is then read off `RootKeys` at the end of both passes.
* `Tidy(s, pass, W, R)`: the statements assign powers of the objects `W` and add
  up along the lines `R`, pairs <<unit, object>>, each object only once its own
  power is final. So each pass adds up the lines `PassLines` in order
  (`EnergyLines`). `Billing`, the inductive invariant on top of `Accounting`,
  says that by the lines of the statements so far the dynamic terms of each sum
  are those of the objects it is the sum of, no two of which share a term
  (`Itemised`), and that the shares of the pipeline are with their units and
  with the core (`PipeRight`). At the end the lines `displayEnergy` prints below
  a unit are, at every print level, none of the unit's or all of them
  (`ShownLines`): `BreakdownAddsUp`.

`ApproxConfinedHolds` has the hypothesis `1 \notin ApproxInit`. The code never
assigns `approx_mode`, so without it the property is false: that is the run
`approx_mode_unset`. `ApproxInit = {0, 7}` of the run `core_power` satisfies it.
The other theorems do not need it: `Construction` lets the real record differ
from the one the facts are about in `approx_mode` (`Like`), which
`error_checking` accepts whatever it is.

`EnergyKeepsConstruction` (`ESpec => Spec`) carries the theorems about the
construction over to the whole life of the object, which is what the run
`core_power` executes.

### Only model-checked

* `EveryAccessCompletes`: liveness rests on fairness and `ENABLED`.

## Not modelled

* Prefetcher and MSHR of the cache controllers, the perfect, passthrough and
  writethrough options, intermediate levels.
* `Core::initiateMemoryAccess` with an atomic access that crosses lines, which
  needs two set locks.
* Approximate arithmetic (`rapcla`, `appmul`): functions of 64-bit words, and
  fault injection, whose core is random draws.
* CACTI's technology tables and mat formulas: floating-point constants and closed
  expressions. The models keep which values reach them and not what they
  compute.
* `parse_cfg` and the XML parser: lists of string comparisons.
* Image filters, test programs and scripts.

Next steps in this order: prefetch queue (its length is tested before the push,
`cache_cntlr.cc:696`) and MSHR; two set locks; several DRAM controllers sharing
the global page sets.
