# tarfs in TLA+

tarfs mounts a tar archive as a read-only Linux file system. `mkfs.tarfs`
appends metadata (dinodes, directory blocks, indirect extent blocks and, last, a
superblock) to the archive; `tarfsmount` hands the superblock and the free
inode's dinode to `mount(2)`; the kernel module serves lookup, readdir and read
from them; `detachtarfs` cuts the metadata off again. This directory holds
TLA+ modules of that system, the TLC runs that check them and theorems about
them that TLAPS proves.

## Inventory

| part | code | state | operations | what makes it correct |
|---|---|---|---|---|
| block layer | `cmd_c++/space.cc`, `fsmaker.cc:153-188` | the file and its length `blks`; one free list per `SpaceManager`, its head in memory and its links in the file | `allocBlock` (append a chunk or pop), `readBlock`, `writeBlock`, `rollback` | no block handed out twice, lists intact whatever order the managers refill in, the archive's own blocks never touched |
| block maps | `cmd_c++/inode.cc:76-206` | `di_nExtents`, direct extents, chain of indirect blocks | `insBlock`, `getBlock` | offset k leads to the k-th block inserted, across the direct/indirect boundary and full indirect blocks |
| directories | `cmd_c++/dir.cc` | 512-byte blocks of variable records | `dirInit`, `lookup`, `searchFreeSpace`, `addDirEntry`, `mkdir`, `create` | records tile each block and hold their names; link counts |
| inodes | `cmd_c++/inode_factory.cc`, `inode.cc` | objects in memory, dinodes in the file, the free inode (inode 0) whose map translates inode numbers | `init`, `allocInode`, `getInode`, `load`, `fin`, `setFile`, `sync` | a dinode read again is never stale |
| mkfs | `cmd_c++/fsmaker.cc`, `mkfs_tarfs.cc` | the root object, the superblock | `create`, `add`, `complete` | the tree in the file is the tree of the archive; a superblock appears only when all of it is there |
| parser | `cmd_c++/parser.cc`, `file.cc`, `util.cc` | offset in the archive | `get`, `parsePath` | every member once, with its data's blocks |
| readers | `fsreader.cc`, `tarfsmount.cc`, `tarfscheck.cc` | superblock, free dinode; a line in mtab | `create`, `mount(2)`, `addmntent` | finds what mkfs wrote, mounts nothing else |
| detach | `detachtarfs.cc` | the length it computed | `truncate` | leaves exactly the archive, never cuts into it |
| mount script | `mount.tarfs` | loop devices, `FILE.dummy` | gunzip, mkfs, losetup, tarfsmount | mounts the archive it was given, whole, on a device of its own |
| kernel module | `knl/` | superblock copy, inode cache, file positions | `fill_super`, `iget`, `lookup`, `readdir`, `get_block`, `follow_link`, `statfs` | serves the tree, errors included |
| legacy commands | `cmd/` (unused, says the README of the repository) | one `mkfs_mgr_t`: free lists, free inode, a copy of the root; copies of the dinodes on a path | `parse_tar`, `mkFilePath`, `tarfs_create`, `do_rollback` | every copy is current when it is written back |
| Android port | `Android/` | the same, and `errno` | `TARFS_IO` in place of `pread` and `pwrite` | a superblock only on a whole file, although results are judged by the offset |

The commands are sequential programs; what is hard in them is the interleaving
of three allocators on one end of file, maps that grow while the allocation of
their own metadata moves the end of file, dinodes that exist in memory and in
the file at once, and failures and kills between any two block operations. Between
commands the file itself is the only shared state: nothing locks it, and what one
command has read of it may be out of date when it acts.
PROJECT.json lists the hazards at their lines.

## Modules

    BlockPool            abstract: fresh blocks, ascending per manager
      ^ implemented by
    BlockClients         SpaceManager under its most general client
      ^ EXTENDS          BlockClientsProofs: the theorems
    SpaceManager         state and operations of the block layer
      ^ EXTENDS
    Inode                insBlock as a frame of block-operation steps, GetBlock
      ^ EXTENDS                     ^ EXTENDS
    ExtentMap            Dir        dinodes, directory blocks, lookup, split
    (maps growing in       ^ EXTENDS
     every order)        FsMaker    create / add / complete, step by step
      ^ EXTENDS
    ExtentMapProofs
                           ^ EXTENDS
                         FsTree     properties of the result
                           ^ EXTENDS             FsMakerProofs, FsTreeProofs: the
                           |                     theorems, about FsMaker's maps through
                           |                     an instance of ExtentMapProofs
    TarfsKernel  <---    TarfsMount mkfs, tarfsmount and the kernel on one file
    (knl/ and what the
     VFS does around it)
    Parser                          archives to Files, block by block
    MountCycle                      mount.tarfs, mkfs.tarfs, tarfsmount, umount and
                                    detachtarfs at once on the same files
    AndroidMkfs                     BlockClients' client over TARFS_IO
    MkfsTar                         the legacy mkfs, parser included
      ^ EXTENDS          MkfsTarTree: properties of the result
    TarfsMeta                       tarfs_meta.h: extended by SpaceManager and
                                    MkfsTar
    ExtentMap and FsTree also show that they are clients BlockClients allows.
    KernelProofs         the theorems about TarfsMount; EXTENDS FsTreeProofs for
                         what they say of the file
    MountCycleProofs, AndroidMkfsProofs, ParserProofs: the theorems about
                         MountCycle, AndroidMkfs and Parser
    MC*.tla, MC*.cfg     the instances TLC checks

Correspondence. `disk` is the file, block by block, each block a record tagged
with its kind; `blks`, `orgblks` are FsMaker's. `head[m]` is
`SpaceManager::blkno`. `core[h]` is an `Inode` or `Dir` object in memory with
its `di_` fields and `ins` the running call of `insBlock`; `pc` in FsMaker says
where `create`, `add` or `complete` stand, every step being the code up to its
next block write or allocation. `Sync*` copies an object to its dinode. FsMaker's
`mapped` is a history variable that no guard reads: for each inode the blocks that
`insBlock` has put in its map, in order, emptied when `setFile` throws the map away.
Abstracted: file contents, owner, permissions and times (never read back by the
code), magic numbers (the kind of a block), names (values with a length),
block buffers that a function reads and uses at once. A new directory block
made from a free block holds only the fields the code sets.

In TarfsKernel `icache` holds the inodes in memory (`new` is `I_NEW`, `private`
says that `i_private` is set and `di` is the dinode it points to), `slab` counts the objects of `tarfs_inode_cachep`, `nbh` the
buffers held, and `call[p]` is the frame of the module function that process p
runs; a step of a call is the code between two reads of the device or waits for
an inode, and `CallFails` is that read, or an allocation, failing. `dcache`,
`file`, eviction and umount are the VFS's part, modelled from how `knl/` uses it
and marked external: one `lookup` or `readdir` at a time in a directory
(`i_mutex`), inodes with a name or a leaked reference stay, others may go.
What is modelled of a failing read is what the code does: `iget` returns the
error and neither unhashes the inode nor drops its reference, so that a later
lookup is given the inode as if it had been read. A `fill_super` whose root
cannot be read goes on with an error pointer, and its copy of the free inode's
extents has room for the direct ones and one indirect block; what it does past
that room is a choice between nothing and an oops.

In Parser `tar` is the archive as blocks, written from the members by
`WriteTar` as tar(1) lays them out; `Get` is one call of `Parser::get` and `at`
says why it returned NULL: a header without a name (the zero blocks at the end),
an unknown type flag, a path without valid names, a failed read. Text of paths is characters only in `parsePath`;
octal fields and the content of headers are left out.

In MountCycle `file` is each archive (of a compressed one `FILE.dummy`), `dev` the
loop devices attached, and `proc[p]` the command that process p runs: its `script`,
the device `losetup -f` named, and what mkfs or detachtarfs has taken from the file
(`org`, `blks`, or the length to cut to). mkfs is reduced to its writes in order: the
block of the free and root dinodes, one block for each member, both dinodes in place,
the superblock; FsMaker has the rest. `fstat` and `pread` in `create` are one step, and so
are `ioctl` and the reads of `FsReader::create`. What the script does not look at is modelled as such:
whatever gunzip and mkfs return, it goes on, and when tarfsmount fails the device
stays attached. A block of metadata goes to its `Place`, the end of the file or the first block past the
archive, as long as mkfs is alone with the file. But the free lists are links in the file,
and `allocBlock` takes the one it pops without a look at `f_magic` (`space.cc:22-26`): where another
mkfs has written a dinode over it, its first word is the next block. So once a file is in
`met`, `Links` has any block of `Strays` besides, those of the archive included, and `Put` writes there. `Umount` detaches the device only if the line with `loop=` is in mtab.
Four history variables name what the properties cannot promise: `met`, files two
commands were changing at once (two mkfs write over each other's blocks, and the
rollback of one cuts off what the other wrote); `left`, files with blocks of a killed
mkfs, which the next one takes for part of the archive; `short`, files that gunzip or
a failed read has cut the archive of; and `cut` of a device whose file was emptied or
truncated under it. `ArchiveKept` has only the first of these exceptions, and without it TLC finds the
property violated: a stray link puts a dinode on the archive's first block. What two
commands make of each other's superblocks and directories beyond that is not followed; no
property says anything of such a file.

In AndroidMkfs every read and write is `TARFS_IO`: a call that transferred `count`
at `off` passes if the two are equal (which the code means for the size), and else if `errno`
is 0. `errno` starts at 0 and only a failed call sets it, as read(2), write(2)
and lseek(2) do; counts and offsets are in blocks. So short transfers pass, until
a call has failed: from then on only a transfer whose count equals its offset does,
and `rollback` undoes the rest. A read that fails in `Parser::get`, which ends the
archive silently in `cmd_c++`, is caught here by the next write. `Get` to `Named` are one call of
`Parser::get`: one to three reads, and NULL for the zero block, for a read that does not pass, and for
a type or a path that is not taken (`refused`); mkfs completes after each of them. `GiveUp` is the
rollback without a failed read or write: no memory in `allocBlock` (its `errno` stays, too), or a path
through what is no directory. An archive is assumed to end in a block of zeros, before which
`get` can stop anywhere. The file's content
is the set `good` of blocks that hold what was written last; `Others` takes and frees
room on the medium.

In FsTree a path may change its type. `setFile` overwrites mode, size and header;
the entry in the parent (`d_ftype`) and its link count stay those of the first type
(`FirstType`), a former directory's entries are out of reach, and one that becomes a
directory again starts without entries, `.` and `..` included (`Replaced`). One that had
a size and becomes a directory keeps size and extents (`HoldsData`): a lookup in it takes the data, blocks of the
archive, for entries, and `addDirEntry` may write one there. `LookupData` is that
step; it writes to any of those blocks or to none, and mkfs is not followed past it (`phase` is `"astray"`).

In MkfsTar `mp` is the `mkfs_mgr_t` with the file in it (`disk`, `m_size`), and
the operators carry the names of the functions of `tarfs_common.c` and go from
one `mp` to the next. A step is one function as `tarfs_create` calls it: a read or
write that fails inside one ends the process in `do_rollback`, which leaves no
trace of how far it was, so the blocks written within it need no steps of their
own. `parent` is the copy of a dinode that `mkFilePath` walks with; the root's is
`m_root`, kept for the whole run. What differs from `cmd_c++`: `allocDinode`
clears the block and with it the `di_header` its caller had set, so that no
dinode knows its header; the first member of a path is kept, not the last; names
are what stands between slashes, `.`, `..` and nothing included, and are looked
up like any other; the superblock's `tarfs_size` does not count itself; a
superblock with the flag for an unfinished file system is never written, so the
branch that looks for it is left out. `init_mkfs` reads the last block, and if that fails only prints a
message: a file that ends in a superblock may therefore be taken for an archive (`unread`). The
uninitialised buffer it then looks at is taken not to hold the magic number.

A definition `X_Bug` before `X` is a faulty variant of `X` that no specification
uses: replacing `X` by it shows that a property can fail.

## Runs

| run | instance | what it shows |
|---|---|---|
| block_layer | 3 managers, chunks of 2 and 3, 9 blocks, any archive length | every order of allocations, refills, writes, failures, kills also halfway through a chunk: free lists sound and disjoint (`ChainsIntact`), no block twice (`FreshBlock`), archive untouched (`TarUntouched`), implements `BlockPool` (`ImplementsPool`) |
| extent_map | 2 directories and the free inode, 1 direct extent, 2 per indirect block, 16 blocks | maps translate exactly what was inserted (`MapCorrect`), reach every inode (`InodesMapped`), own their indirect blocks (`IndirectsOwned`), each `insBlock` returns (`InsReturns`), and only blocks handed out are written (`ObeysBlockLayer`) |
| fs_tree | all archives of up to 3 of 7 members, and of up to 4 of 5 members that change the type of a path | after each member the tree in memory and file is the archive's so far (`TreeSoFar`), with link counts (`LinkCounts`); a file with a superblock holds the whole tree (`MountedIsWhole`) and can be detached (`SuperblockSound`); the archive stays, alone after a failure, unless its data was taken for a directory (`ArchiveStays`) |
| fs_grow | 70 interleavings of 4 long names in each of two directories, and an archive with a path through a link, 1 direct extent, 1 per indirect block | directories of many blocks: records tile blocks (`DirBlocksFormed`), every block has one owner (`BlocksOwnedOnce`), mkfs ends (`Terminates`), it is a client `BlockClients` allows (`ObeysBlockLayer`) |
| kernel_serves | two archives whose directory takes two blocks, 1 process, 1 failure at any read or allocation | mkfs, mount, any calls, evictions, umount and mount again: names lead to the archive's members (`DentriesRight`), results are right (`AnswersRight`), a directory read in pieces gives every name once (`ListedOnce`), buffers and dinodes are accounted for (`BuffersBalanced`, `SlabAccounted`), what brings the kernel down is known (`OopsExplained`) |
| kernel_calls | 2 processes, 2 directories, 1 failure | lookups that wait for each other's inode: every call returns (`CallsReturn`) |
| mount_cycle | a plain and a compressed archive, 1 member, 2 loop devices, 2 processes, 3 commands, 1 failure or kill, a medium of 8 blocks a file | the archive's blocks stay, unless two commands change the file at once (`ArchiveKept`); what passes for completed, and what is mounted, is a whole file system (`CompletedIsWhole`, `MountedStaysWhole`); with nothing running a file is the archive, or the archive and one file system (`AtRest`); a script mounts its archive on its own device (`OwnDevice`) |
| android_io | archives of 0, 1, 2 and 5 blocks, chunks of 2 and 3, a medium of 0 to 10 blocks that others fill and free | a superblock ends only a file that is complete, and whose archive was read to its end or to a member `get` does not take, without any failed call (`CompletedIsWhole`) |
| parser | every path of up to 4 characters out of `a`, `.`, `/`; every archive of up to 3 of 10 kinds of members | paths split at slashes, without a leading `.` (`NamesRight`), members in order with their own header and data (`MembersInOrder`), the parser stops only where it should (`StopsRight`) and does stop (`ParseEnds`) |
| legacy_mkfs | every archive of up to 2 of 13 members and of 3 of 6 of them, chunks of 2, 1 direct extent, 1 per indirect block, 40 blocks, 2 runs | after each member the tree is the archive's so far, link counts and record lists included (`LegacyTree`); every block past the archive has one owner or one free list (`BlocksAccounted`); a superblock is there only if mkfs came to the end of the archive, to a type it does not know or to a long name it may have failed to read, or is that of an earlier run whose reading failed (`WholeUnlessStopped`) |
| parser_slashes | as parser | violated: `SlashesSkipped` |
| parser_types | as parser | violated: `OnlySupported` |

The two violated properties are disagreements in the repository.
`parsePath` skips slashes by moving `p` (`parser.cc:132`), but the search for the
end of the name starts at `s` again, so that `a//b` has a component with an empty
name between its two others. `tarfs_meta.h:37` lists type flags as not supported, yet the table at
`parser.cc:50` takes them and `get` returns such members as Files of no known type.

Bounds. The code's 256-block chunks, 17 direct and 20 indirect extents are
CONSTANTS; the small values make every boundary (chunk used up, direct extents
full, indirect block full, second indirect block) fall within a few steps of the
start, and the theorems cover the block layer for all values. `MaxBlks` is the
size of the medium: a write that does not fit fails, as in the code, so it is an
input and not only a bound. Chunks have at least two blocks
(`BulksAssumption`): with one, `allocBlock` would leave the head one past the
end of the file. In the kernel's runs one direct and one indirect extent put the
second block of a directory and the last inodes behind an indirect block, and
the longer archive is one whose free inode overflows `fill_super`'s copy.
`MaxErrs` = 1: the consequences of a failure stay (the inode left in the cache,
the lost dinode), so that one is followed by every later call.

In mount_cycle `MaxRuns` = 3 lets one command follow two that met or one that failed;
`MaxFaults` = 1 again because what a fault leaves stays; a link that leads astray counts as one
(`Strays`: the first block of the archive, and one past the medium). A file takes 8 blocks: the
archive's 2, two times 3 of metadata, so that an mkfs over what a killed one left
just fits or finds the medium full. Processes are interchangeable (SYMMETRY),
devices are not: `losetup -f` names the first. In android_io the first chunk after an archive of two blocks, and
reads in one of five, which has room for a long name, are at offsets that equal the count of blocks transferred,
where `TARFS_IO` passes after a
failure; room made again after a short write (`regained`) is excepted, since such a
write is never repeated.

Archives in which a path that had data, or a link target, becomes a directory (`DataAsDir`) are among those of
fs_tree, but mkfs is followed only up to a lookup in such a directory. `LinkCounts` speaks of paths that were directories
all along, or never.

The kernel's reading of a directory that holds data is not modelled; the archives of kernel_serves
have none. legacy_mkfs takes no archive with paths below a regular file, whose data the code
would read as directory entries, and its first two properties except archives that
enter the root both plainly and through dots (`EnteredTwice`: `./x` after `d/y` is
read and written as a copy of the root, `m_root` does not see it and is written
over it; without the exception TLC finds both violated). Two of the names are long
enough that a directory block holds one of them.

Fairness. extent_map: `insBlock` is straight-line code, so a running frame keeps
stepping, and on a full medium its next write does fail. fs_grow: the process
keeps taking steps (`WF_vars(Next)`) until it exits or is killed. kernel_calls:
each process in the kernel keeps running and the device answers (weak fairness of
`CallStep` for each); failures, eviction and new calls are not fair. parser:
`create_tarfs`'s loop keeps calling `get`; a read need not fail. The other runs
assume none: mount_cycle and android_io check only safety, since a command may be killed
at any time. Deadlock checking is off where a program ends or a kernel oopses.

## Proofs

Every theorem is about the specification as the runs check it, for all values of its
constants that satisfy the assumptions stated beside them. The assumptions are what
the code needs or gives: chunks of two blocks or more (`BulksAssumption`), room for at least
one extent in a dinode and in an indirect block (`IndExtAssumption`), managers
that exist and a medium of some size (`MediumAssumption`, `ExtentMapAssumption`,
`AndroidAssumption`), archives that are sequences of members of the kinds modelled (`TarsAssumption`,
`CycleAssumption`), archives that fit on the medium, of members with the names and types
that `Parser::get` returns (`ArchivesAssumption`, `NamesAssumption`: no component `.`
or `..`, which `parsePath` refuses, and none longer than a record of a directory block
has room for: tar(1) stores names of files, of at most 255 bytes), with a manager for directories and one for dinodes
(`ManagersAssumption`), finitely many processes, which look up names other than
`.` and `..`, as the VFS has resolved those itself (`KernelAssumption`). TLC evaluates each of them in the runs of its module.

### The block layer: `BlockClientsProofs`

- `TypeCorrect`, `ChainsCorrect`: `ClientSpec => []TypeOK`, `[]ChainsIntact`;
- `FreshBlocks`, `ArchiveUntouched`: the action properties of the same names;
- `PoolRefinement`: `ClientSpec => Pool!PoolSpec`.

The inductive invariant is `IInv == TypeOK /\ ChainsIntact`. `FreshBlock` alone
is not inductive: that the head is unused now says nothing of the block it
links to, so the invariant speaks of the whole chain in the file (it ends, it is
unused and above what its manager handed out, and two chains are disjoint). A
refill appends a chunk above every other chain; a pop shortens one chain and
keeps the rest; a write touches only used blocks, which are on no chain. The
chain is ascending by one, so its blocks are an interval. After `rollback` the process is gone and the chains are cut:
hence the guard `phase = "run"`.

### Block maps: `ExtentMapProofs`

- `Obeys`: `Spec => ObeysBlockLayer`, so that all of the above holds of the maps;
- `Mapped`, `Reached`, `Owned`: `Spec => []MapCorrect`, `[]InodesMapped`, `[]IndirectsOwned`.

The indirect blocks of a map are a list in the file, which neither the objects nor
the properties name as a whole. The invariant says there is a sequence `inds[h]` for each
map, and has four parts. `ChainInv`: the count of extents, the root pointer and each link agree with
the sequence, all of its blocks but the last are full, no block is in it twice or in two of
them, and none is lost; and where the running `insBlock` stands in it (a new block may be
linked before it is written, and is counted only after). `ExtentInv`: every extent, wherever
it is, maps its offsets to the blocks inserted there, and every offset has an
extent. `GrownInv`: the blocks of a map ascend. This is why merging by block numbers alone is sound: an extent that
ends where the new one begins must be the last, since everything the map got in between would lie
between them. `InodeInv`: the dinode blocks not given out yet are the end of the
free inode's map, in order; they are the rest of the manager's chain.
That `GetBlock` then finds what the sequence says (`GetBlockIs`) takes induction along the
list. The library's induction theorems cannot be instantiated here; `UpTo` proves the
induction up to a number from the well-foundedness of finite sets, and the
function `ind_off` that `IndBlocks` defines is followed with it.

### mkfs: `FsMakerProofs`, `FsTreeProofs`

For every archive that fits on the medium and makes no directory of a path that had a size
(`~DataAsDir(files)`, a hypothesis of each theorem), every chunk size, every number of extents in dinodes and
indirect blocks, and with a failure or a kill between any two steps:

- `ClientOfBlocks`: `=> ObeysBlockLayer`, so that the theorems of `BlockClientsProofs` hold
  of the whole program;
- `SuperblockIsSound`: `=> []SuperblockSound`;
- `DirBlocksAreFormed`: `=> []DirBlocksFormed`;
- `ArchiveKept`: mkfs never goes astray, the archive's blocks are in the file, unaltered, for ever, and a
  failure leaves nothing else (`ArchiveStays`).

The hypothesis is not one the code checks. It accepts the other archives too, `LookupData` is what it does
with them, and neither `ObeysBlockLayer` nor what `ArchiveStays` says holds after it: `addDirEntry` may write a block
of the archive.

What FsMaker does to a map is what ExtentMap does, but its maps lie about: in the one to four
objects in memory and, for all other inodes, in dinodes in the file. `Latest(i)` is inode i
wherever it is at the moment, `MapCore` and `MapIns` are all maps and the running `insBlock` as
ExtentMap has them, and `EM` is the instance of ExtentMapProofs with these in place of `core`
and `ins`. Its lemmas about single steps are then facts about FsMaker's steps
(`InsIs`, `GrownIs`, `FailSeen`, ...), and what is left is that nothing else
FsMaker does disturbs a map. The invariant `IInv` is that of the block layer and of the maps, and while mkfs runs
there is also an assignment `P` of paths to inode numbers for which (`Runs`)

- `Mem`, `OnDisk`: an inode has at most one object, its `blkno` is where the free inode's map has
  it, and an inode without an object has its dinode there (the objects that are dropped have been synced: `Synced` and `PcOf`
  say when);
- `Inodes`: a directory has as many blocks in its map as its size says, but for the one just inserted
  (`Extra`); a file's map is empty, and its extent is the data of a member with its path;
- `DirsOf`: every entry but `.` and `..` of every directory block leads to an inode of a higher number
  whose path is the directory's with the entry's name. A lookup can therefore not give an
  object for an inode that another one is open for: the inode it finds is
  below the directories on the way;
- `UsedOnce`, `MappedOnce`, `NoInode`: no block was handed out by two managers or is in two maps;
- `Prog`: where the program stands, which objects it has, and what the block in its hand is.

`AllFormed` says that the records of each directory block tile it; `Ended` that a complete file
has the superblock as its last block and the rest as it was when the last dinode was synced, and
`NoSuper` that before that there is none. `First` gives the pointers in the superblock: the first two blocks taken are those of the
inodes 0 and 1. These proofs needed three changes to the model, none in what it does: the history
variable `mapped`; what the archives are, until then only
written in the runs' instances, as named assumptions; and `Abstract` and `Grown` in one place for all modules.

`DirsOf` is where `~DataAsDir` is needed: a directory is never looked up in by the blocks of old data
(`NoData`), which would say anything.

### Parser: `ParserProofs`

`InOrder` and `Stops`: `Spec => []MembersInOrder`, `[]StopsRight`, for archives of any
length. The properties are inductive with one conjunct more, `Reached`: the offset is where what
tar(1) wrote of the members returned so far ends. `Layout` and `AtMember` say which blocks are
there, by induction over the members. Like the properties, `Reached` is about archives
in which only regular files have data.

### Mount cycle: `MountCycleProofs`

For any number of archives, devices and processes, commands and failures:
`ArchiveSurvives`, `DeviceOwned`, `CompletedSound`, `Rested`, `MountedSound`, for `ArchiveKept`,
`OwnDevice`, `CompletedIsWhole`, `AtRest` and `MountedStaysWhole`. The layers are

- `TypeInv`, in which a file never gets shorter than its archive (`Least`) and no mkfs or
  detachtarfs holds a length below it;
- `PrefixInv`: the archive is first in the file, but for compressed ones and files in `met`. That is
  `ArchiveKept`; it is inductive because a block goes elsewhere than to its `Place` only in a
  file that is in `met` (`PutAlone`), and `met` only grows;
- `HolderInv`: a script between losetup and its end has its device to itself and it is not in mtab;
- `SoundInv`, of the files that are not in `met` or `short`: at most one process is
  changing such a file and knows how far it is (`Progress`), every superblock anywhere in
  it ends one whole file system (`Whole`), and one that nothing has been left in is
  settled when nothing is half done;
- `MountedInv`: a device that is mounted, or about to be, still ends with a superblock.

### Android: `AndroidMkfsProofs`

`Completed`: `Spec => []CompletedIsWhole`, from `Invariant`: `Spec => []IInv`. `IInv` says that
`errno` is zero until a call has failed and never again (`ErrnoInv`), and that until then
all written blocks are in place, or a write was cut short and the medium has had no room since
(`MediumInv`), so that the next block past it cannot be written. Past the root dinode no call has
failed (`SuperInv`): its offset is not the number of blocks written, so a transfer of it would not
have passed. The proof corrected the model: for an empty archive `create`'s
offset is -1 block, which the model's -1 for a failed call matched, as the code's offset in
bytes does not.

### Kernel module: `KernelProofs`

For any number of processes, open directories and failures, on the file that mkfs leaves
of any archive, for `FileIsSound` and what follows it one without `DataAsDir`:

- `Buffers`, `Slab`: `MountSpec => []BuffersBalanced`, `[]SlabAccounted`;
- `LockHeld`: an inode that is locked is being read by exactly one call, so that
  none stays locked for `iget_locked` to wait on, after whatever failures;
- `FileIsSound`: `MountSpec => []FsSound`, what the kernel may rely on in the finished file;
- `DiesOfFailures`, `KernelTyped`: `MountSpec => []OopsExplained`, `[]KernelTypeOK`.

The invariant `KInv` says when a frame holds a buffer: a lookup keeps the directory's
block while it reads the inode of an entry, but none while the next block of the directory is to come
(`FrameOK`); without a file system nobody is in a call (`NoCalls`); readers and locked
inodes correspond one to one (`Locks`). The steps of a call are shown to be of five kinds, by
what they do to the inode cache, and the invariant is proved for the kinds. Two choices in the model
came from this proof: a frame holds a buffer or NULL, not a block number that may be
`TARBLK_NONE`, and an inode has its `i_private` or not whatever type the dinode has.

`OopsExplained` needs the file, since a lookup that were led to a wrong block would fail without
a failure of the device, and the crash on an error of `iget` would then have no explanation.
`FsSound` says, of the finished file, that there are sequences of blocks for inode 0 and every
directory that their extents map, direct and indirect, and no others (`FileMap`); that a directory's size is as many
blocks as it maps; and that the records of each of its blocks end where the block does and have the
numbers of dinodes (`Records`). It follows from FsMaker's invariant when the superblock is written (`SuperServes`).
`KnownInv` then says what each call knows of the file (`CallKnown`): where in the walk along a map it is, with the indirect
blocks before it not having the offset (`Translating`, `Past`); that a lookup is at the start of a
block or of a record of the one it holds (`AtBlock`, `InBlock`); that the number it reads is one of an
inode; and that its directory is in the cache with its dinode, so that eviction cannot
take it away (`HasDir`). `EINVAL`, the answer for an offset that no extent has, is then
impossible in a lookup (`MapKnown`), and what remains are `EIO` and `ENOMEM`, both counted in `errs`.

### What is only model-checked

- Everything under fairness, and so `InsReturns`, `Terminates`, `CallsReturn`, `ParseEnds`: ENABLED and liveness are
  beyond the installed provers.
- `NamesRight`: about `SetToSortSeq` and `SelectSeq`, whose values for every
  sequence are defined by recursion or choice over sets of sequences.
- The tree that mkfs builds: `TreeSoFar`, `MountedIsWhole`, `LinkCounts`, `BlocksOwnedOnce` of FsTree. They speak of
  the objects that paths resolve to, in `Resolve`, and of what the archive
  says of them (`Through`, `Described`); `Runs` has one direction only, that what is in a directory
  has the right path, and neither that each member's path is there nor its header and size.
- The legacy mkfs (`MkfsTarTree`): its maps, objects and lists differ from FsMaker's in every step, and
  would need an invariant of their own of the same size.
- Of the kernel module (`TarfsMount`) what compares its answers with the archive: `DentriesRight`,
  `AnswersRight`, `ListedOnce`. They need the tree to be there, as above, and `PathOf` follows
  dentries by a recursion over the data.

## Plan

1. (done) block layer, general client, abstract pool, proofs.
2. (done) block maps.
3. (done) mkfs and the tree it builds.
4. (done) `TarfsKernel`, `TarfsMount`: fill_super, iget with read errors and
   eviction, lookup and readdir resumed at any position, over file systems
   FsMaker builds.
5. (done) `Parser`: archives of headers and data, every way `get` ends.
6. (done) `MountCycle`: mkfs, losetup, mount, umount, detach, killed and repeated, two
   at once.
7. (done) `MkfsTar`: the legacy mkfs; archives that change the type of a path in
   `FsTree`; `AndroidMkfs`: the Android port's I/O.
8. (done) Proofs: block maps, mount cycle, parser, Android's I/O, the kernel module's accounting.
9. (done) Proofs about FsMaker: the maps of ExtentMap under the objects and dinodes it keeps, from
   them `ObeysBlockLayer`, `SuperblockSound` and `DirBlocksFormed` for every archive.
10. (done) Proofs about the kernel module on the file FsMaker leaves: `OopsExplained`.
11. (open) The other direction of `Runs`: every path of the members so far resolves; from it
    `BlocksOwnedOnce`, `LinkCounts` and `TreeSoFar`, and then the kernel's answers.

## Not modelled

- `statfs` (numbers computed from the superblock copy, no state) and loading and
  unloading the module (registration only).
- The content of link targets and files: the model shows which block is read.
- What only prints: `tarfscheck.cc`, `checkTarfs.c`. `cmd/tarfsmount.c`, one call of
  `mount(2)`.
- `parser.cc:144`: `parsePath` keeps pointers into `get`'s local buffer, which dangle
  when `add` uses them; what the compiled program reads there is up to the stack.
  FsMaker's names are values, as if the copies that `parsePath` makes were used.
- Android: `tarfsmount`, which takes the archive beside the device, and `removetarfs`
  otherwise do what `tarfsmount` and `detachtarfs` do in MountCycle. `FsReader`'s branches for a RAM
  disk and for a device (whose `BLKGETSIZE` is a number of sectors, taken for bytes)
  have no caller in the port. The kernel module's copy asserts the magic numbers of
  what it reads; the rest is older text of `knl/`.
- The checks of its arguments at the beginning of `mount.tarfs`.
- In the kernel module: a `d_alloc_root` or `d_make_root` that fails, which `fill_super` does not look at
  (`knl/super.c:173-178`); the result of the readdir for kernels before 3.11, which is filldir's
  where the later one's is 0 (`knl/dir.c:69-87`); a directory that holds data (`DataAsDir`).
- `ftype` of an inode read from a dinode that is neither file, directory nor link, which
  `inode.cc:36-42` leaves unset: the types `tarfs_meta.h` heads as not supported.
- What mkfs does after it has taken data for directory entries, or two commands after one of them
  has followed a link the other wrote over, beyond the block that is written.
- The tests.
