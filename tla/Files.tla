------------------------------- MODULE Files -------------------------------
(***************************************************************************)
(* The file system driver (fs.c) and the file descriptors: open, close,    *)
(* read and write (syscall.c) dispatching through the jump tables, and     *)
(* what boot, execute and halt do to the descriptor table of a PCB.        *)
(*                                                                         *)
(* The system calls act on the PCB of the process that makes them, so one  *)
(* terminal is enough: chain is its chain of PCBs, the last one running.   *)
(* A call the code answers with -1 before it changes anything is a stutter *)
(* and has no action; so has a read of stdin or of the RTC (LineBuffer,    *)
(* Rtc) and any write: files and directories refuse it, stdout is Screen,  *)
(* the RTC is Rtc.                                                         *)
(***************************************************************************)
EXTENDS Integers, Sequences, FiniteSets, Functions

CONSTANTS
    MAX_NUM_PROCESSES,  \* length of processes[]; PID 0 is the shell
    FD_ARRAY_LEN,       \* descriptors of a process
    FS_BLOCK_SIZE,      \* bytes of a data block
    MAX_NUM_DENTRIES,   \* length of dentries[]
    dentries,           \* the directory of the image
    inodes,             \* its inodes
    data_blocks,        \* its data blocks
    Names,              \* file names programs pass to open
    Counts,             \* nbytes programs pass to read
    MaxListed,          \* reads of one directory descriptor, a bound
    WORD,               \* 2^32: uint32_t arithmetic is modulo WORD
    NULL                \* no jump table, no name, no history

Pid == 0 .. MAX_NUM_PROCESSES - 1
Fd == 0 .. FD_ARRAY_LEN - 1
Dentry == 0 .. MAX_NUM_DENTRIES - 1
Inode == DOMAIN inodes
EMPTY == ""             \* a file_name that starts with '\0', a read of 0 bytes

\* file_type of a dentry.
RTC == 0
DIRECTORY == 1
FILE == 2
FileTypes == { RTC, DIRECTORY, FILE }

(***************************************************************************)
(* The image: made off line, mapped read-only by the boot loader.  The     *)
(* last conjunct is what the check loop of read_data (fs.c:100) needs when *)
(* a length is a multiple of the block size: it looks at one entry of      *)
(* data_index more than the file has blocks.                               *)
(***************************************************************************)
ASSUME FilesAssumption ==
    /\ MAX_NUM_PROCESSES \in Nat \ {0}
    /\ FD_ARRAY_LEN \in Nat /\ FD_ARRAY_LEN >= 3
    /\ FS_BLOCK_SIZE \in Nat \ {0}
    /\ MaxListed \in Nat
    /\ WORD \in Nat /\ MAX_NUM_DENTRIES \in 0 .. WORD - 1
    /\ Counts \subseteq 0 .. WORD - 1
    /\ NULL \notin Names \cup Int
    /\ 0 \in Inode
    /\ \A d \in Dentry : dentries[d].file_name # EMPTY
                            => /\ dentries[d].inode_index \in Inode
                               /\ dentries[d].file_type \in FileTypes
    /\ \A i \in Inode :
          /\ inodes[i].length \in 0 .. WORD - 1
          /\ \A k \in 0 .. inodes[i].length \div FS_BLOCK_SIZE :
                inodes[i].data_index[k] \in DOMAIN data_blocks

VARIABLES
    chain,      \* the terminal's processes, shell first
    fd_array,   \* [Pid -> [Fd -> descriptor]]
    opened      \* history: [Pid -> NULL or [Fd -> the name opened, what was read]]

vars == <<chain, fd_array, opened>>

-----------------------------------------------------------------------------
(***************************************************************************)
(* fs.c.                                                                   *)
(***************************************************************************)
\* The index of the first dentry with that name, -1 if there is none.
\* Mutant: without the test for the empty string.
MatchesUnused(fname) ==
    LET match == { d \in Dentry : dentries[d].file_name = fname } IN
    IF match = {} THEN -1 ELSE CHOOSE d \in match : \A e \in match : d <= e

read_dentry_by_name(fname) ==
    LET match == { d \in Dentry : dentries[d].file_name = fname } IN
    IF fname = EMPTY \/ match = {}
    THEN -1
    ELSE CHOOSE d \in match : \A e \in match : d <= e

\* Mutant: the copy goes on to the next block one byte too early.
EarlyTurn(offset) == offset >= FS_BLOCK_SIZE - 1

EndOfBlock(offset) == offset >= FS_BLOCK_SIZE

\* The copy loop: n bytes, starting in the block with index b of the inode.
CopyBytes(inode, b0, offset0, length) ==
    LET loop[n \in 0 .. length] ==
            IF n = 0 THEN [b |-> b0, offset |-> offset0, buf |-> << >>]
            ELSE LET s == loop[n - 1]
                     turn == EndOfBlock(s.offset)
                     b == IF turn THEN s.b + 1 ELSE s.b
                     offset == IF turn THEN 0 ELSE s.offset
                     block == data_blocks[inodes[inode].data_index[b]]
                 IN [b |-> b, offset |-> offset + 1,
                     buf |-> Append(s.buf, block[offset])]
    IN loop[length].buf

\* The value returned, and the bytes written to the buffer.
read_data(inode, offset, length) ==
    IF \/ inode \notin Inode
       \/ (offset + length) % WORD > inodes[inode].length
       \/ \E k \in 0 .. inodes[inode].length \div FS_BLOCK_SIZE :
             inodes[inode].data_index[k] \notin DOMAIN data_blocks
    THEN [ret |-> -1, buf |-> << >>]
    ELSE [ret |-> length,
          buf |-> CopyBytes(inode, offset \div FS_BLOCK_SIZE,
                            offset % FS_BLOCK_SIZE, length)]

\* What file_read asks for: what is left of the file, if that is less.
Clamp(entry, nbytes) ==
    LET left == (inodes[entry.inode_index].length - entry.file_position) % WORD
    IN IF left < nbytes THEN left ELSE nbytes

\* The populated dentries from position on, the next one, and the position
\* dir_read leaves behind (MAX_NUM_DENTRIES when it finds none).
Populated(position) ==
    { d \in Dentry : d >= position /\ dentries[d].file_name # EMPTY }

NextDentry(position) ==
    CHOOSE d \in Populated(position) : \A e \in Populated(position) : d <= e

NextPosition(position) ==
    IF Populated(position) = {} THEN MAX_NUM_DENTRIES ELSE NextDentry(position) + 1

\* What a read delivers (cut to nbytes, which no property looks at): a name;
\* nothing, from the last unused dentry looked at; or, when the loop is not
\* entered at all, what the uninitialised local dentry happens to hold.
GARBAGE == "?"
Listed(position) ==
    CASE position >= MAX_NUM_DENTRIES -> { EMPTY, GARBAGE }
      [] Populated(position) = {} /\ position < MAX_NUM_DENTRIES -> { EMPTY }
      [] OTHER -> { dentries[NextDentry(position)].file_name }

-----------------------------------------------------------------------------
(***************************************************************************)
(* Descriptors.                                                            *)
(***************************************************************************)
Ops == { "stdin", "stdout", "rtc", "dir", "file" }
Unused == [ops |-> NULL, inode_index |-> 0, file_position |-> 0, active |-> FALSE]

\* The history of a descriptor that is not open.
Closed == [name |-> NULL, data |-> << >>]
NothingOpened == [fd \in Fd |-> Closed]

\* initialize stdin and stdout, "Clear the rest of the FD array": a cleared
\* entry keeps its other fields (boot and execute).
FillDescriptors(table) ==
    [fd \in Fd |->
        CASE fd = 0 -> [table[fd] EXCEPT !.ops = "stdin", !.active = TRUE]
          [] fd = 1 -> [table[fd] EXCEPT !.ops = "stdout", !.active = TRUE]
          [] OTHER  -> [table[fd] EXCEPT !.active = FALSE]]

\* The shell after boot.  Nothing has written to the other PCBs yet: whatever
\* the memory holds, a descriptor in it may look active.
Init ==
    /\ chain = <<0>>
    /\ \E junk \in [1 .. MAX_NUM_PROCESSES - 1 -> BOOLEAN] :
          fd_array = [p \in Pid |->
              IF p = 0 THEN FillDescriptors([fd \in Fd |-> Unused])
              ELSE [fd \in Fd |-> [Unused EXCEPT !.active = junk[p]]]]
    /\ opened = [p \in Pid |-> IF p = 0 THEN NothingOpened ELSE NULL]

current == chain[Len(chain)]
entry(fd) == fd_array[current][fd]
SetEntry(fd, e) == fd_array' = [fd_array EXCEPT ![current][fd] = e]
Record(fd, h) == opened' = [opened EXCEPT ![current][fd] = h]

OpsOf == [ty \in FileTypes |->
             CASE ty = RTC -> "rtc" [] ty = DIRECTORY -> "dir" [] ty = FILE -> "file"]

FreeFds == { fd \in Fd \ {0, 1} : ~ entry(fd).active }

\* What open returns: the first inactive descriptor from 2 on, or -1.
OpenReturns(filename) ==
    IF read_dentry_by_name(filename) = -1 \/ FreeFds = {} THEN -1
    ELSE CHOOSE fd \in FreeFds : \A e \in FreeFds : fd <= e

\* A call that succeeds.  The image has no other file_type, so the default of the
\* switch is not reached.
open(filename) ==
    LET d == read_dentry_by_name(filename)
        i == OpenReturns(filename)
    IN /\ i # -1
       /\ SetEntry(i, [ops |-> OpsOf[dentries[d].file_type],
                       inode_index |-> IF dentries[d].file_type = FILE
                                       THEN dentries[d].inode_index ELSE 0,
                       file_position |-> 0,
                       active |-> TRUE])
       /\ Record(i, [name |-> filename, data |-> << >>])
       /\ UNCHANGED chain

\* The type-specific close is commented out (syscall.c:474).
close(fd) ==
    /\ fd >= 2
    /\ entry(fd).active
    /\ SetEntry(fd, [entry(fd) EXCEPT !.active = FALSE])
    /\ Record(fd, Closed)
    /\ UNCHANGED chain

\* read, for a descriptor on a file: bytes_read is added to the position even
\* when it is -1.
file_read(fd, nbytes) ==
    LET e == entry(fd)
        r == read_data(e.inode_index, e.file_position, Clamp(e, nbytes))
    IN /\ e.active /\ e.ops = "file"
       /\ SetEntry(fd, [e EXCEPT !.file_position = (@ + r.ret) % WORD])
       /\ Record(fd, [opened[current][fd] EXCEPT !.data = @ \o r.buf])
       /\ UNCHANGED chain

\* read, for a descriptor on the directory.
dir_read(fd) ==
    LET e == entry(fd) IN
    /\ e.active /\ e.ops = "dir"
    /\ Len(opened[current][fd].data) < MaxListed
    /\ SetEntry(fd, [e EXCEPT !.file_position =
                         IF @ >= MAX_NUM_DENTRIES THEN @ ELSE NextPosition(@)])
    /\ \E item \in Listed(e.file_position) :
          Record(fd, [opened[current][fd] EXCEPT !.data = Append(@, item)])
    /\ UNCHANGED chain

\* What the read just made has added to the history of the descriptor.
Delivered(fd) ==
    SubSeq(opened'[current][fd].data, Len(opened[current][fd].data) + 1,
           Len(opened'[current][fd].data))

SomeCall ==
    \/ \E name \in Names : open(name)
    \/ \E fd \in Fd : close(fd) \/ dir_read(fd) \/ \E n \in Counts : file_read(fd, n)

FreePids == { p \in Pid : \A k \in 1 .. Len(chain) : chain[k] # p }

\* The descriptors of a program that execute starts under the first free PID.
execute ==
    LET p == CHOOSE q \in FreePids : \A r \in FreePids : q <= r
    IN /\ FreePids # {}
       /\ chain' = Append(chain, p)
       /\ fd_array' = [fd_array EXCEPT ![p] = FillDescriptors(@)]
       /\ opened' = [opened EXCEPT ![p] = NothingOpened]

\* "Close all used files within the fd array in pcb".
CloseAll(table) ==
    [fd \in Fd |-> [table[fd] EXCEPT !.active = FALSE, !.ops = NULL]]

\* A root shell that halts starts over with its descriptors as they are: the
\* branch for it comes first (syscall.c:88), so it changes nothing here.
halt ==
    /\ Len(chain) > 1
    /\ fd_array' = [fd_array EXCEPT ![current] = CloseAll(@)]
    /\ opened' = [opened EXCEPT ![current] = NothingOpened]
    /\ chain' = SubSeq(chain, 1, Len(chain) - 1)

Next == execute \/ halt \/ SomeCall

Spec == Init /\ [][Next]_vars

-----------------------------------------------------------------------------
(***************************************************************************)
(* Properties.                                                             *)
(***************************************************************************)
Live == { chain[k] : k \in 1 .. Len(chain) }

\* The byte at position k of a file: the definition the copy loop is held to.
Byte(i, k) == data_blocks[inodes[i].data_index[k \div FS_BLOCK_SIZE]]
                         [k % FS_BLOCK_SIZE]

\* The number of populated dentries before position d.
Rank(d) == Cardinality({ e \in Populated(0) : e < d })

\* The names of the directory in order, and then a read of 0 bytes.
DirectoryNames ==
    [k \in 1 .. Cardinality(Populated(0)) |->
        dentries[CHOOSE d \in Populated(0) : Rank(d) = k - 1].file_name]

Listing == DirectoryNames \o <<EMPTY>>

\* The open descriptors a process has a history of, of one kind.
Reading(ops) ==
    { pf \in Live \X Fd : LET e == fd_array[pf[1]][pf[2]]
                          IN e.active /\ e.ops = ops }

TypeOK ==
    /\ chain \in Seq(Pid) /\ IsInjective(chain) /\ chain # << >> /\ chain[1] = 0
    /\ fd_array \in [Pid -> [Fd -> [ops : Ops \cup {NULL}, inode_index : Inode,
                                    file_position : 0 .. WORD - 1,
                                    active : BOOLEAN]]]
    /\ DOMAIN opened = Pid

\* stdin and stdout stay open in every running process, and a PID whose process
\* has halted has no open descriptor.
StdioOpen ==
    \A p \in Pid :
        /\ p \in Live => /\ fd_array[p][0].active /\ fd_array[p][0].ops = "stdin"
                         /\ fd_array[p][1].active /\ fd_array[p][1].ops = "stdout"
        /\ p \notin Live /\ opened[p] # NULL
              => \A fd \in Fd : ~ fd_array[p][fd].active

\* The descriptors of a running process are those it opened itself, each bound
\* to the operations and the inode of the file it named: whatever earlier
\* processes did under the same PID (syscall.c:114-122, 251-261), and never to
\* an unused dentry (fs.c:64).  stdin and stdout are open with them, and nothing is
\* in a PID whose process has halted.
OwnDescriptors ==
    /\ TypeOK /\ StdioOpen
    /\ \A p \in Live : \A fd \in Fd \ {0, 1} :
           LET e == fd_array[p][fd]
               h == opened[p][fd]
           IN /\ e.active <=> h.name # NULL
              /\ e.active => \E d \in Dentry :
                    /\ dentries[d].file_name = h.name /\ h.name # EMPTY
                    /\ e.ops = OpsOf[dentries[d].file_type]
                    /\ e.ops = "file" => e.inode_index = dentries[d].inode_index

\* Successive reads of a file deliver its bytes in order, none lost, none twice
\* and none beyond its length, for any split into nbytes and any layout of the
\* blocks (fs.c:94-131, 185-200); the position counts them.
ReadsConsecutive ==
    \A pf \in Reading("file") :
        LET e == fd_array[pf[1]][pf[2]]
            data == opened[pf[1]][pf[2]].data
        IN /\ e.file_position = Len(data)
           /\ Len(data) <= inodes[e.inode_index].length
           /\ \A k \in 1 .. Len(data) : data[k] = Byte(e.inode_index, k - 1)

\* The last dentry is unused.  If it is not, the read behind the last name does not
\* enter the loop of dir_read and delivers GARBAGE (fs.c:217-221).
LastUnused == dentries[MAX_NUM_DENTRIES - 1].file_name = EMPTY

\* Successive reads of the directory name every populated dentry once and in
\* order, and then read 0 bytes (fs.c:215-233); what a read after that delivers
\* is not promised.
ListsInOrder ==
    \A pf \in Reading("dir") :
        LET data == opened[pf[1]][pf[2]].data
        IN \A k \in 1 .. Len(data) : k <= Len(Listing) => data[k] = Listing[k]

\* What read delivers of files and of the directory, in the order it is there.
ReadsInOrder == ReadsConsecutive /\ ListsInOrder
=============================================================================
