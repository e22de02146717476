------------------------------ MODULE Programs ------------------------------
(***************************************************************************)
(* User programs over the descriptors and the file system of module Files: *)
(* cat, ls and the test program syserr (src/syscalls), run by a process    *)
(* that does what it likes, and in turn with programs that do, so that     *)
(* they find every descriptor table such programs can leave behind.  The   *)
(* value each execute returns is what the shell's messages depend on.      *)
(***************************************************************************)
EXTENDS Files

CONSTANTS
    CATBUF,         \* bytes of cat's buffer (1024)
    NearNames       \* the names err_open tries: one letter more, one less, none

ASSUME ProgramsAssumption ==
    /\ CATBUF \in Nat \ {0}
    /\ "." \in Names
    /\ read_dentry_by_name(".") # -1
    /\ dentries[read_dentry_by_name(".")].file_type = DIRECTORY
    /\ NearNames \in Seq(STRING)
    /\ \A k \in DOMAIN NearNames : NearNames[k] = EMPTY
          \/ \A d \in Dentry : dentries[d].file_name # NearNames[k]

VARIABLE local      \* the program at the end of the chain and its variables

pvars == <<vars, local>>

\* A program at its beginning: its argument, or the number typed; test and k are where
\* syserr is, cnt counts err_open_lots' failures, out is what was printed, status what
\* main returns; heard is what an execute has just returned to it, and how the command
\* really ended.
Begin(prog, arg) == [prog |-> prog, arg |-> arg, test |-> 1, k |-> 1, fd |-> NULL,
                     cnt |-> 0, fail |-> FALSE, out |-> << >>, status |-> NULL, heard |-> NULL]
Free == Begin("any", NULL)

PInit == Init /\ local = Free

In(prog) == local.prog = prog /\ local.status = NULL /\ local.heard = NULL
Exit(status) == local' = [local EXCEPT !.status = status]

-----------------------------------------------------------------------------
(***************************************************************************)
(* What the calls return to the program.                                   *)
(***************************************************************************)
Usable(fd) == fd \in Fd /\ entry(fd).active

\* Mutant: number 0 is let through.
FromZero == 0 .. 10

\* The numbers syscall_wrapper lets through, and the arguments vidmap does.
SyscallNumbers == 1 .. 10
GoodAddresses == { "user" }

\* -1, or 0 where the value does not matter to the caller.
Returns(call, arg) ==
    CASE call = "open" -> OpenReturns(arg)
      [] call = "read" -> IF Usable(arg) /\ entry(arg).ops # "stdout" THEN 0 ELSE -1
      [] call = "write" ->
            IF Usable(arg) /\ entry(arg).ops \in { "stdout", "rtc" } THEN 0 ELSE -1
      [] call = "close" -> IF Usable(arg) /\ arg >= 2 THEN 0 ELSE -1
      [] call = "vidmap" -> IF arg \in GoodAddresses THEN 0 ELSE -1
      [] call = "number" -> IF arg \in SyscallNumbers THEN 0 ELSE -1

-----------------------------------------------------------------------------
(***************************************************************************)
(* ece391cat.c and ece391ls.c.                                             *)
(***************************************************************************)
\* With no argument, or a name that is not there, cat gives up.
CatOpens ==
    /\ In("cat") /\ local.fd = NULL
    /\ IF local.arg = NULL THEN Exit(3) /\ UNCHANGED vars
       ELSE IF OpenReturns(local.arg) = -1 THEN Exit(2) /\ UNCHANGED vars
       ELSE open(local.arg) /\ local' = [local EXCEPT !.fd = OpenReturns(local.arg)]

\* Mutant: a read that does not fill the buffer ends the loop.
FullOnly(cnt) == cnt = CATBUF

ReadMore(cnt) == cnt # 0

CatReads ==
    /\ In("cat") /\ local.fd # NULL
    /\ entry(local.fd).ops = "file"
    /\ file_read(local.fd, CATBUF)
    /\ LET got == Delivered(local.fd)
       IN IF ReadMore(Len(got)) THEN local' = [local EXCEPT !.out = @ \o got]
          ELSE Exit(0)

\* cat of the directory prints its names one behind the other.
CatReadsNames ==
    /\ In("cat") /\ local.fd # NULL
    /\ entry(local.fd).ops = "dir"
    /\ dir_read(local.fd)
    /\ IF Delivered(local.fd) # <<EMPTY>>
       THEN local' = [local EXCEPT !.out = @ \o Delivered(local.fd)]
       ELSE Exit(0)

LsOpens ==
    /\ In("ls") /\ local.fd = NULL
    /\ IF OpenReturns(".") = -1 THEN Exit(2) /\ UNCHANGED vars
       ELSE open(".") /\ local' = [local EXCEPT !.fd = OpenReturns(".")]

HasName(item) == item # EMPTY

LsReads ==
    /\ In("ls") /\ local.fd # NULL
    /\ dir_read(local.fd)
    /\ LET item == Delivered(local.fd)[1]
       IN IF HasName(item) THEN local' = [local EXCEPT !.out = Append(@, item)]
          ELSE Exit(0)

-----------------------------------------------------------------------------
(***************************************************************************)
(* ece391syserr.c: the calls of each test in order.                        *)
(***************************************************************************)
Calls(call, args) == [n \in 1 .. Len(args) |-> [call |-> call, arg |-> args[n]]]
From(a, b) == [n \in 1 .. b - a + 1 |-> a + n - 1]

err_neg_fd == Calls("read", <<-1>>) \o Calls("write", <<-1>>) \o Calls("close", <<-1>>)
err_big_fd == Calls("read", <<FD_ARRAY_LEN>>) \o Calls("write", <<FD_ARRAY_LEN>>)
              \o Calls("close", <<FD_ARRAY_LEN>>)
err_open_lots == Calls("open", [n \in 1 .. FD_ARRAY_LEN - 1 |-> "."])
                 \o Calls("close", From(2, FD_ARRAY_LEN - 1))
err_open == Calls("open", NearNames)
err_unopened == Calls("close", From(0, FD_ARRAY_LEN - 1))
                \o Calls("read", From(2, FD_ARRAY_LEN - 1))
                \o Calls("write", From(2, FD_ARRAY_LEN - 1))
err_vidmap == Calls("vidmap", <<"null", "kernel">>)
err_stdin_out == Calls("write", <<0>>) \o Calls("read", <<1>>)
err_syscall_num == Calls("number", <<11, -1, 0>>)

Tests == <<err_neg_fd, err_big_fd, err_open_lots, err_open, err_unopened, err_vidmap,
           err_stdin_out, err_syscall_num>>
OPEN_LOTS == 3

\* main: one test, or all of them for 0; any other number is refused.
Chosen == local.arg \in { 0, local.test }
Calling == Chosen /\ local.k <= Len(Tests[local.test])

\* The calls of a test, each of which must fail, except in err_open_lots.
SyserrCalls ==
    /\ In("syserr") /\ local.test <= Len(Tests) /\ Calling
    /\ LET c == Tests[local.test][local.k]
           r == Returns(c.call, c.arg)
           lots == local.test = OPEN_LOTS
       IN /\ CASE c.call = "open" /\ r # -1 -> open(c.arg)
               [] c.call = "close" /\ r # -1 -> close(c.arg)
               [] OTHER -> UNCHANGED vars
          /\ local' = [local EXCEPT
                !.k = @ + 1,
                !.cnt = IF lots /\ c.call = "open" /\ r = -1 THEN @ + 1 ELSE @,
                !.fail = @ \/ (~ lots /\ r # -1)]

\* The verdict of err_open_lots, one of whose opens must have failed, and the next
\* test.
SyserrGoesOn ==
    /\ In("syserr") /\ local.test <= Len(Tests) /\ ~ Calling
    /\ local' = [local EXCEPT
          !.test = @ + 1, !.k = 1, !.cnt = 0,
          !.fail = @ \/ (Chosen /\ local.test = OPEN_LOTS /\ local.cnt # 1)]
    /\ UNCHANGED vars

SyserrReturns ==
    /\ In("syserr") /\ local.test > Len(Tests)
    /\ Exit(IF local.fail THEN 2 ELSE 0)
    /\ UNCHANGED vars

-----------------------------------------------------------------------------
(***************************************************************************)
(* execute and halt, as their caller sees them.                            *)
(***************************************************************************)
Programs == { Begin("cat", name) : name \in Names \cup {NULL} }
            \cup { Begin("ls", NULL) } \cup { Begin("syserr", n) : n \in 0 .. Len(Tests) + 1 }
            \cup { Begin("shell", NULL), Free }

\* Mutant: the byte is handed on as it is.
SameByte(status) == status

\* 256 is beyond what a status byte can be.
ExpandStatus(status) == IF status = 255 THEN 256 ELSE status

\* What the shell prints about the value execute returns.
ShellSays(rval) ==
    CASE rval = -1 -> "no such command"
      [] rval = 256 -> "terminated by exception"
      [] rval = 0 -> EMPTY
      [] OTHER -> "terminated abnormally"

Heard(how, status, rval) == [how |-> how, status |-> status, rval |-> rval]

\* A shell, or a program that does what it likes, starts another.
Start == (In("any") \/ In("shell")) /\ execute /\ local' \in Programs

\* A command that is no executable, or for which no PID is left.
StartFails ==
    /\ In("shell")
    /\ \/ local' = [local EXCEPT !.heard = Heard("missing", NULL, -1)]
       \/ FreePids = {} /\ local' = [local EXCEPT !.heard = Heard("limit", NULL, 0)]
    /\ UNCHANGED vars

\* The caller acts on the value: a shell prints its message.
Reports ==
    /\ local.heard # NULL
    /\ local' = [local EXCEPT !.heard = NULL]
    /\ UNCHANGED vars

\* The command "exit".  The read of its stdin does not fail.
ShellReturns == In("shell") /\ Exit(0) /\ UNCHANGED vars

\* halt, by the call behind main with the low byte of what main returns, by a
\* program of its own accord, or by an exception handler.  The caller may be any
\* program, so it goes on as one that does what it likes.
Halt ==
    /\ halt
    /\ \E ending \in IF In("any") THEN { <<"exit", 1>>, <<"exit", 255>>, <<"exception", 255>> }
                     ELSE { <<"exit", s>> : s \in {local.status} \ {NULL} } :
          local' = [Free EXCEPT !.heard =
                        Heard(ending[1], ending[2], ExpandStatus(ending[2] % 256))]

AnyCall ==
    /\ In("any")
    /\ SomeCall
    /\ UNCHANGED local

PNext ==
    \/ Start \/ StartFails \/ Reports \/ ShellReturns \/ Halt \/ AnyCall
    \/ CatOpens \/ CatReads \/ CatReadsNames \/ LsOpens \/ LsReads
    \/ SyserrCalls \/ SyserrGoesOn \/ SyserrReturns

PSpec == PInit /\ [][PNext]_pvars

-----------------------------------------------------------------------------
(***************************************************************************)
(* Properties.                                                             *)
(***************************************************************************)
Contents(name) ==
    LET i == dentries[read_dentry_by_name(name)].inode_index
    IN [k \in 1 .. inodes[i].length |-> Byte(i, k - 1)]

\* cat succeeds for the names of the directory and prints the file byte for byte,
\* whatever the processes before it left in the descriptor it gets and however its
\* buffer divides the file (ece391cat.c:20-28).
CatPrints ==
    local.prog = "cat" /\ local.status # NULL =>
        LET d == IF local.arg = NULL THEN -1 ELSE read_dentry_by_name(local.arg)
        IN IF d = -1 THEN local.status # 0 /\ local.out = << >>
           ELSE /\ local.status = 0
                /\ local.out = IF dentries[d].file_type = FILE THEN Contents(local.arg)
                               ELSE DirectoryNames

\* ls prints every name of the directory once and in order (ece391ls.c:13-26).
LsLists ==
    local.prog = "ls" /\ local.status # NULL =>
        local.status = 0 /\ local.out = DirectoryNames

\* What the two programs print is what is there, no more and no less.
PrintsExactly == CatPrints /\ LsLists

\* Every test of syserr passes: "prints [TEST_NAME]: PASS if behavior is EXPECTED"
\* (ece391syserr.c), in a process with any history of its PID.
SyserrPasses == local.prog = "syserr" => ~ local.fail /\ local.status \in { NULL, 0 }

\* The shell's message tells how its command ended: a missing command, an exception
\* and a program's own status are told apart by the one value execute returns
\* (syscall.c:80, ece391shell.c:28).  Left out are the two cases it cannot tell: a
\* program that itself halts with 255, and no PID left, where the kernel prints.
ShellTells ==
    local.heard # NULL =>
        LET h == local.heard
            told == ShellSays(h.rval)
        IN /\ h.how = "missing" => told = "no such command"
           /\ h.how = "exception" => told = "terminated by exception"
           /\ h.how = "exit" /\ h.status # 255 =>
                 told = IF h.status = 0 THEN EMPTY ELSE "terminated abnormally"
=============================================================================
