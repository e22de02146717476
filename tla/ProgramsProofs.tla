--------------------------- MODULE ProgramsProofs ---------------------------
(***************************************************************************)
(* Proofs about Programs, for every image, every layout of its blocks and  *)
(* any number of processes and descriptors, over those about Files.        *)
(***************************************************************************)
EXTENDS Programs, FilesProofs

-----------------------------------------------------------------------------
(***************************************************************************)
(* The inductive invariant.                                                *)
(***************************************************************************)
\* What execute can have returned, and how the command ended.
Hearing == { Heard("missing", NULL, -1), Heard("limit", NULL, 0),
             Heard("exception", 255, 256) }
           \cup { Heard("exit", s, ExpandStatus(s)) : s \in { 0, 1, 2, 3, 255 } }

Local == [prog : { "any", "shell", "cat", "ls", "syserr" },
          arg : Names \cup {NULL} \cup Int,
          test : 1 .. 9, k : Nat \ {0}, fd : (Fd \ {0, 1}) \cup {NULL},
          cnt : Nat, fail : BOOLEAN, out : Seq(Item),
          status : { NULL, 0, 2, 3 }, heard : {NULL} \cup Hearing]

\* cat, or ls, has printed what it has read so far.
Printing(name) ==
    LET e == entry(local.fd)
        h == opened[current][local.fd]
    IN /\ e.active /\ h.name = name /\ local.out = h.data
       /\ e.ops = "dir" /\ LastUnused => Len(h.data) <= NAMES

CatDone ==
    LET d == IF local.arg = NULL THEN -1 ELSE read_dentry_by_name(local.arg)
    IN IF d = -1 THEN local.status # 0 /\ local.out = << >>
       ELSE /\ local.status = 0
            /\ dentries[d].file_type = FILE => local.out = Contents(local.arg)
            /\ dentries[d].file_type # FILE /\ LastUnused => local.out = DirectoryNames

CatInv ==
    local.prog = "cat" =>
        /\ local.arg \in Names \cup {NULL}
        /\ local.status = NULL /\ local.fd = NULL => OpenFds = {} /\ local.out = << >>
        /\ local.status = NULL /\ local.fd # NULL => local.arg # NULL /\ Printing(local.arg)
        /\ local.status # NULL => CatDone

LsInv ==
    local.prog = "ls" =>
        /\ local.status = NULL /\ local.fd = NULL => OpenFds = {} /\ local.out = << >>
        /\ local.status = NULL /\ local.fd # NULL => Printing(".")
        /\ local.status # NULL => /\ local.status = 0
                                  /\ LastUnused => local.out = DirectoryNames

\* While err_open_lots opens, it has the descriptors from 2 on; one open fails, and
\* then it closes them in that order.  The other tests have none.
TopFd == FD_ARRAY_LEN - 1
OpensLots ==
    /\ local.k <= 2 * TopFd
    /\ local.k <= TopFd => local.cnt = 0 /\ OpenFds = 2 .. local.k
    /\ local.k > TopFd => local.cnt = 1 /\ OpenFds = local.k - TopFd + 1 .. TopFd

SyserrInv ==
    local.prog = "syserr" =>
        /\ ~ local.fail /\ local.status \in { NULL, 0 }
        /\ local.status = NULL => IF local.test = OPEN_LOTS /\ Chosen THEN OpensLots
                                  ELSE OpenFds = {}

PInv == FilesInv /\ local \in Local /\ CatInv /\ LsInv /\ SyserrInv

-----------------------------------------------------------------------------
(***************************************************************************)
(* The calls of syserr.                                                    *)
(***************************************************************************)
\* The calls of one kind, for each of the arguments.
LEMMA CallsIn ==
    ASSUME NEW P, NEW call, NEW args, Len(args) \in Nat,
           \A n \in 1 .. Len(args) : [call |-> call, arg |-> args[n]] \in P
    PROVE  Calls(call, args) \in Seq(P)
BY DEF Calls

\* The numbers from a to b, one after the other.
LEMMA FromIs ==
    ASSUME NEW a \in Nat, NEW b \in Nat, a <= b
    PROVE  /\ Len(From(a, b)) = b - a + 1 /\ Len(From(a, b)) \in Nat
           /\ \A n \in 1 .. b - a + 1 : From(a, b)[n] = a + n - 1
BY DEF From

\* The calls of the tests, and those that fail in the present state.
CallName == { "open", "read", "write", "close", "vidmap", "number" }
CallArg == Int \cup { ".", "null", "kernel" }
           \cup { NearNames[n] : n \in 1 .. Len(NearNames) }
Failing == { c \in [call : CallName, arg : CallArg] : Returns(c.call, c.arg) = -1 }

\* Every call of every test but err_open_lots fails in a process with no descriptors
\* besides stdin and stdout.
LEMMA TestsFail ==
    ASSUME FilesInv, OpenFds = {}, NEW t \in 1 .. Len(Tests), t # OPEN_LOTS
    PROVE  Tests[t] \in Seq(Failing)
<1> PICK P, T : P = Failing /\ T = TopFd
  OBVIOUS
<1> DEFINE Rec(call, arg) == [call |-> call, arg |-> arg]
<1>1. /\ 0 \in Fd /\ 1 \in Fd /\ entry(0).ops = "stdin" /\ entry(1).ops = "stdout"
  <2>1. TypeOK /\ StdioOpen
    BY DEF FilesInv
  <2> QED BY <2>1, CurrentIs, FilesAssumption DEF Fd, StdioOpen, entry
<1>2. \A fd \in Int : Usable(fd) => fd \in {0, 1}
  BY DEF OpenFds, Usable
<1>3. T \in Nat /\ T >= 2 /\ FD_ARRAY_LEN = T + 1
  BY FilesAssumption DEF TopFd
<1>4. ASSUME NEW call \in CallName, NEW arg \in CallArg, Returns(call, arg) = -1
      PROVE  Rec(call, arg) \in P
  BY <1>4 DEF Failing
<1> HIDE DEF Rec
<1>5. /\ { -1, 0, 1, 11 } \subseteq Int
       /\ \A x \in Int : x \in CallArg
       /\ "null" \in CallArg /\ "kernel" \in CallArg
       /\ { "read", "write", "close", "open", "vidmap", "number" } \subseteq CallName
  BY DEF CallName, CallArg
<1>6. ASSUME NEW fd \in Int, ~ Usable(fd)
      PROVE  Rec("read", fd) \in P /\ Rec("write", fd) \in P
  <2>1. Returns("read", fd) = -1 /\ Returns("write", fd) = -1
    BY <1>6 DEF Returns
  <2> QED BY <1>4, <1>5, <2>1, Zenon
<1>7. ASSUME NEW fd \in Int, ~ (Usable(fd) /\ fd >= 2)
      PROVE  Rec("close", fd) \in P
  <2>1. Returns("close", fd) = -1
    BY <1>7 DEF Returns
  <2> QED BY <1>4, <1>5, <2>1, Zenon
<1>8. ~ Usable(-1) /\ ~ Usable(FD_ARRAY_LEN) /\ \A fd \in 2 .. T : ~ Usable(fd)
  BY <1>2, <1>3
<1>9. \A fd \in Int : ~ (Usable(fd) /\ fd >= 2)
  BY <1>2
<1>10. ASSUME NEW call, NEW x, Rec(call, x) \in P
      PROVE  Calls(call, <<x>>) \in Seq(P)
  <2>1. \A n \in 1 .. Len(<<x>>) : [call |-> call, arg |-> <<x>>[n]] \in P
    BY <1>10 DEF Rec
  <2> QED BY <2>1, CallsIn
<1>11. CASE t = 1
  <2>1. Calls("read", <<-1>>) \in Seq(P) /\ Calls("write", <<-1>>) \in Seq(P)
        /\ Calls("close", <<-1>>) \in Seq(P)
    <3>1. Rec("read", -1) \in P /\ Rec("write", -1) \in P /\ Rec("close", -1) \in P
      BY <1>6, <1>7, <1>8, <1>5, Zenon
    <3> QED BY <1>10, <1>5, <3>1, Zenon
  <2>2. err_neg_fd \in Seq(P)
    BY <2>1, ConcatProperties DEF err_neg_fd
  <2> QED BY <1>11, <2>2 DEF Tests
<1>12. CASE t = 2
  <2>1. /\ Calls("read", <<FD_ARRAY_LEN>>) \in Seq(P)
        /\ Calls("write", <<FD_ARRAY_LEN>>) \in Seq(P)
        /\ Calls("close", <<FD_ARRAY_LEN>>) \in Seq(P)
    <3>1. FD_ARRAY_LEN \in Int
      BY <1>3
    <3>2. /\ Rec("read", FD_ARRAY_LEN) \in P /\ Rec("write", FD_ARRAY_LEN) \in P
          /\ Rec("close", FD_ARRAY_LEN) \in P
      BY <1>6, <1>7, <1>8, <3>1, Zenon
    <3> QED BY <1>10, <1>5, <3>2, Zenon
  <2>2. err_big_fd \in Seq(P)
    BY <2>1, ConcatProperties DEF err_big_fd
  <2> QED BY <1>12, <2>2 DEF Tests
<1>13. CASE t = 4
  <2>1. NearNames \in Seq(STRING) /\ Len(NearNames) \in Nat
        /\ DOMAIN NearNames = 1 .. Len(NearNames)
    BY ProgramsAssumption
  <2>2. ASSUME NEW n \in 1 .. Len(NearNames)
        PROVE  [call |-> "open", arg |-> NearNames[n]] \in P
    <3>1. NearNames[n] \in CallArg
      BY DEF CallArg
    <3>2. NearNames[n] = EMPTY \/ \A d \in Dentry : dentries[d].file_name # NearNames[n]
      BY <2>1, ProgramsAssumption
    <3>3. read_dentry_by_name(NearNames[n]) = -1
      BY <3>2 DEF read_dentry_by_name
    <3>4. Returns("open", NearNames[n]) = -1
      BY <3>3 DEF Returns, OpenReturns
    <3> QED BY <1>4, <1>5, <3>1, <3>4, Zenon DEF Rec
  <2>3. err_open \in Seq(P)
    BY <2>1, <2>2, CallsIn DEF err_open
  <2> QED BY <1>13, <2>3 DEF Tests
<1>14. CASE t = 5
  <2>1. /\ Len(From(0, T)) = T + 1 /\ \A n \in 1 .. T + 1 : From(0, T)[n] \in Int
        /\ Len(From(2, T)) = T - 1 /\ \A n \in 1 .. T - 1 : From(2, T)[n] \in 2 .. T
        /\ T + 1 \in Nat /\ T - 1 \in Nat
    <3>1. 0 \in Nat /\ 2 \in Nat /\ 0 <= T /\ 2 <= T
      BY <1>3
    <3>2. /\ Len(From(0, T)) = T - 0 + 1
          /\ \A n \in 1 .. T - 0 + 1 : From(0, T)[n] = 0 + n - 1
          /\ Len(From(2, T)) = T - 2 + 1
          /\ \A n \in 1 .. T - 2 + 1 : From(2, T)[n] = 2 + n - 1
      BY <1>3, <3>1, FromIs, Zenon
    <3>3. /\ T - 0 + 1 = T + 1 /\ T - 2 + 1 = T - 1 
          /\ T + 1 \in Nat /\ T - 1 \in Nat
          /\ (\A n \in 1 .. T + 1 : 0 + n - 1 \in Int)
          /\ (\A n \in 1 .. T - 1 : 2 + n - 1 \in 2 .. T)
      BY <1>3
    <3> HIDE <1>3
    <3> QED BY <3>2, <3>3, Zenon
  <2>2. Calls("close", From(0, T)) \in Seq(P)
    <3>1. \A n \in 1 .. T + 1 : [call |-> "close", arg |-> From(0, T)[n]] \in P
      BY <1>7, <1>9, <2>1 DEF Rec
    <3> QED BY <2>1, <3>1, CallsIn
  <2>3. Calls("read", From(2, T)) \in Seq(P) /\ Calls("write", From(2, T)) \in Seq(P)
    <3>1. \A fd \in 2 .. T : fd \in Int
      BY <1>3
    <3>2. \A n \in 1 .. T - 1 : /\ [call |-> "read", arg |-> From(2, T)[n]] \in P
                                /\ [call |-> "write", arg |-> From(2, T)[n]] \in P
      BY <1>6, <1>8, <2>1, <3>1 DEF Rec
    <3> QED BY <2>1, <3>2, CallsIn, Zenon
  <2>4. err_unopened = Calls("close", From(0, T)) \o Calls("read", From(2, T))
                       \o Calls("write", From(2, T))
    BY DEF err_unopened, TopFd
  <2>5. err_unopened \in Seq(P)
    BY <2>2, <2>3, <2>4, ConcatProperties
  <2> QED BY <1>14, <2>5 DEF Tests
<1>15. CASE t = 6
  <2>1. Returns("vidmap", "null") = -1 /\ Returns("vidmap", "kernel") = -1
    BY DEF Returns, GoodAddresses
  <2>2. Rec("vidmap", "null") \in P /\ Rec("vidmap", "kernel") \in P
    BY <1>4, <1>5, <2>1, Zenon
  <2>3. \A n \in 1 .. Len(<<"null", "kernel">>) :
           [call |-> "vidmap", arg |-> <<"null", "kernel">>[n]] \in P
    BY <2>2 DEF Rec
  <2>4. err_vidmap \in Seq(P)
    BY <2>3, CallsIn DEF err_vidmap
  <2> QED BY <1>15, <2>4 DEF Tests
<1>16. CASE t = 7
  <2>1. Returns("write", 0) = -1 /\ Returns("read", 1) = -1
    BY <1>1 DEF Returns
  <2>2. Rec("write", 0) \in P /\ Rec("read", 1) \in P
    BY <1>4, <1>5, <2>1, Zenon
  <2>3. err_stdin_out \in Seq(P)
    <3>1. Calls("write", <<0>>) \in Seq(P) /\ Calls("read", <<1>>) \in Seq(P)
      BY <1>10, <1>5, <2>2, Zenon
    <3> QED BY <3>1, ConcatProperties DEF err_stdin_out
  <2> QED BY <1>16, <2>3 DEF Tests
<1>17. CASE t = 8
  <2>1. Returns("number", 11) = -1 /\ Returns("number", -1) = -1
        /\ Returns("number", 0) = -1
    BY DEF Returns, SyscallNumbers
  <2>2. Rec("number", 11) \in P /\ Rec("number", -1) \in P /\ Rec("number", 0) \in P
    BY <1>4, <1>5, <2>1, Zenon
  <2>3. \A n \in 1 .. Len(<<11, -1, 0>>) :
           [call |-> "number", arg |-> <<11, -1, 0>>[n]] \in P
    BY <2>2 DEF Rec
  <2>4. err_syscall_num \in Seq(P)
    BY <2>3, CallsIn DEF err_syscall_num
  <2> QED BY <1>17, <2>4 DEF Tests
<1>18. t \in {1, 2, 4, 5, 6, 7, 8}
  BY DEF Tests, OPEN_LOTS
<1> QED BY <1>11, <1>12, <1>13, <1>14, <1>15, <1>16, <1>17, <1>18

\* The calls of err_open_lots: an open more than there are descriptors, and a close
\* of each.
LEMMA OpenLotsCalls ==
    /\ Len(Tests) = 8 /\ Tests[OPEN_LOTS] = err_open_lots
    /\ TopFd \in Nat /\ TopFd >= 2 /\ Len(err_open_lots) = 2 * TopFd - 1
    /\ \A k \in 1 .. 2 * TopFd - 1 :
          err_open_lots[k] = IF k <= TopFd THEN [call |-> "open", arg |-> "."]
                             ELSE [call |-> "close", arg |-> k - TopFd + 1]
<1> PICK T : T = TopFd
  OBVIOUS
<1>1. T \in Nat /\ T >= 2 /\ T = FD_ARRAY_LEN - 1
  BY FilesAssumption DEF TopFd
<1> DEFINE S == [call : CallName, arg : CallArg]
           opens == Calls("open", [n \in 1 .. T |-> "."])
           closes == Calls("close", From(2, T))
<1>2. opens \in Seq(S) /\ Len(opens) = T
      /\ \A k \in 1 .. T : opens[k] = [call |-> "open", arg |-> "."]
  <2> PICK dots : dots = [n \in 1 .. T |-> "."]
    BY Zenon
  <2>1. Len(dots) = T /\ \A n \in 1 .. T : dots[n] = "."
    BY <1>1
  <2>2. \A n \in 1 .. T : [call |-> "open", arg |-> dots[n]] \in S
    <3>1. "open" \in CallName /\ "." \in CallArg
      BY DEF CallName, CallArg
    <3> QED BY <2>1, <3>1
  <2>3. opens = [n \in 1 .. T |-> [call |-> "open", arg |-> dots[n]]]
    BY <2>1, Zenon DEF Calls
  <2> HIDE DEF opens
  <2>4. \A n \in 1 .. T : opens[n] = [call |-> "open", arg |-> "."]
    BY <2>1, <2>3
  <2> HIDE DEF S
  <2>5. opens \in Seq(S)
    BY <1>1, <2>1, <2>2, CallsIn DEF opens
  <2>6. Len(opens) = T
    BY <1>1, <2>3
  <2> QED BY <2>4, <2>5, <2>6
<1>3. closes \in Seq(S) /\ Len(closes) = T - 1
      /\ \A k \in 1 .. T - 1 : closes[k] = [call |-> "close", arg |-> k + 1]
  <2>1. Len(From(2, T)) = T - 1 /\ \A n \in 1 .. T - 1 : From(2, T)[n] = n + 1
    <3>1. 2 \in Nat /\ 2 <= T
      BY <1>1
    <3>2. /\ Len(From(2, T)) = T - 2 + 1
          /\ \A n \in 1 .. T - 2 + 1 : From(2, T)[n] = 2 + n - 1
      BY <1>1, <3>1, FromIs, Zenon
    <3> QED BY <1>1, <3>2
  <2>2. T - 1 \in Nat /\ \A n \in 1 .. T - 1 : n + 1 \in Int
    BY <1>1
  <2>3. closes = [n \in 1 .. T - 1 |-> [call |-> "close", arg |-> n + 1]]
    BY <2>1 DEF Calls
  <2>4. \A n \in 1 .. T - 1 : [call |-> "close", arg |-> n + 1] \in S
    <3>1. "close" \in CallName /\ \A x \in Int : x \in CallArg
      BY DEF CallName, CallArg
    <3> QED BY <2>2, <3>1
  <2> HIDE DEF closes, S
  <2> QED BY <2>2, <2>3, <2>4
<1> HIDE DEF opens, closes, S
<1>4. err_open_lots = opens \o closes
  BY <1>1 DEF err_open_lots, opens, closes
<1>5. Len(err_open_lots) = 2 * T - 1
  <2>1. Len(opens \o closes) = Len(opens) + Len(closes)
    BY <1>2, <1>3, ConcatProperties, Zenon
  <2> QED BY <1>1, <1>2, <1>3, <1>4, <2>1
<1>6. ASSUME NEW k \in 1 .. 2 * T - 1
      PROVE  err_open_lots[k] = IF k <= T THEN [call |-> "open", arg |-> "."]
                                ELSE [call |-> "close", arg |-> k - T + 1]
  <2>1. k \in 1 .. Len(opens) + Len(closes)
    BY <1>1, <1>2, <1>3
  <2>2. err_open_lots[k] = IF k <= T THEN opens[k] ELSE closes[k - T]
    BY <1>2, <1>3, <1>4, <2>1, ConcatProperties
  <2>3. CASE k <= T
    BY <1>2, <2>2, <2>3
  <2>4. CASE ~ (k <= T)
    <3>1. k - T \in 1 .. T - 1 /\ (k - T) + 1 = k - T + 1
      BY <1>1, <2>4
    <3> QED BY <1>3, <2>2, <2>4, <3>1
  <2> QED BY <2>3, <2>4
<1>7. Len(Tests) = 8 /\ Tests[OPEN_LOTS] = err_open_lots
  BY DEF Tests, OPEN_LOTS
<1> QED BY <1>1, <1>5, <1>6, <1>7

-----------------------------------------------------------------------------
(***************************************************************************)
(* The programs.                                                           *)
(***************************************************************************)
\* The directory, which ls and syserr open, is there.
LEMMA Dot == "." \in Names /\ read_dentry_by_name(".") # -1
BY ProgramsAssumption, Zenon

\* One field of the program's variables is assigned.
LEMMA SetStatus ==
    ASSUME NEW l \in Local, NEW v \in { NULL, 0, 2, 3 },
           NEW m, m = [l EXCEPT !.status = v]
    PROVE  /\ m \in Local /\ m.prog = l.prog /\ m.arg = l.arg /\ m.test = l.test
           /\ m.k = l.k /\ m.fd = l.fd /\ m.cnt = l.cnt /\ m.fail = l.fail
           /\ m.out = l.out /\ m.status = v /\ m.heard = l.heard
BY SMTT(20) DEF Local

\* The same for what execute has returned.
LEMMA SetHeard ==
    ASSUME NEW l \in Local, NEW v \in {NULL} \cup Hearing,
           NEW m, m = [l EXCEPT !.heard = v]
    PROVE  /\ m \in Local /\ m.prog = l.prog /\ m.arg = l.arg /\ m.test = l.test
           /\ m.k = l.k /\ m.fd = l.fd /\ m.cnt = l.cnt /\ m.fail = l.fail
           /\ m.out = l.out /\ m.status = l.status /\ m.heard = v
BY DEF Local

\* The same for the descriptor.
LEMMA SetFd ==
    ASSUME NEW l \in Local, NEW v \in Fd \ {0, 1},
           NEW m, m = [l EXCEPT !.fd = v]
    PROVE  /\ m \in Local /\ m.prog = l.prog /\ m.arg = l.arg
           /\ m.fd = v /\ m.out = l.out /\ m.status = l.status
BY DEF Local

\* The same for what has been printed.
LEMMA SetOut ==
    ASSUME NEW l \in Local, NEW v \in Seq(Item),
           NEW m, m = [l EXCEPT !.out = v]
    PROVE  /\ m \in Local /\ m.prog = l.prog /\ m.arg = l.arg
           /\ m.fd = l.fd /\ m.out = v /\ m.status = l.status
BY DEF Local

\* A program begins with no descriptor open and nothing printed.
LEMMA StartStep ==
    ASSUME PInv, Start
    PROVE  PInv'
<1>1. FilesInv' /\ OpenFds' = {}
  BY ExecuteStep DEF PInv, Start
<1>2. PICK prog, arg : /\ prog \in { "any", "shell", "cat", "ls", "syserr" }
                       /\ arg \in Names \cup {NULL} \cup Int
                       /\ prog = "cat" => arg \in Names \cup {NULL}
                       /\ local' = Begin(prog, arg)
  <2>1. \A n \in 0 .. Len(Tests) + 1 : n \in Int
    BY OpenLotsCalls
  <2>2. local' \in Programs
    BY DEF Start
  <2>3. CASE \E name \in Names \cup {NULL} : local' = Begin("cat", name)
    BY <2>3
  <2>4. CASE \E n \in 0 .. Len(Tests) + 1 : local' = Begin("syserr", n)
    BY <2>1, <2>4
  <2>5. CASE local' \in { Begin("ls", NULL), Begin("shell", NULL), Begin("any", NULL) }
    BY <2>5
  <2> QED BY <2>2, <2>3, <2>4, <2>5 DEF Programs, Free
<1> PICK b : b = local'
  OBVIOUS
<1>3. /\ b \in Local /\ b.prog = prog /\ b.arg = arg /\ b.test = 1
      /\ b.fd = NULL /\ b.fail = FALSE /\ b.out = << >> /\ b.status = NULL
  <2>1. b = Begin(prog, arg)
    BY <1>2
  <2>2. << >> \in Seq(Item)
    OBVIOUS
  <2> QED BY <1>2, <2>1, <2>2 DEF Begin, Local
<1>4. CatInv' /\ LsInv'
  BY <1>1, <1>2, <1>3 DEF CatInv, LsInv
<1>5. SyserrInv'
  BY <1>1, <1>3 DEF SyserrInv, OPEN_LOTS
<1> QED BY <1>1, <1>3, <1>4, <1>5 DEF PInv

\* What execute has returned does not matter to cat, ls and syserr.
LEMMA HeardStep ==
    ASSUME PInv, UNCHANGED vars, NEW v \in {NULL} \cup Hearing,
           local' = [local EXCEPT !.heard = v]
    PROVE  PInv'
<1> PICK l, m : l = local /\ m = local'
  OBVIOUS
<1>1. l \in Local
  BY DEF PInv
<1>2. /\ m \in Local /\ m.prog = l.prog /\ m.arg = l.arg /\ m.test = l.test
      /\ m.k = l.k /\ m.fd = l.fd /\ m.cnt = l.cnt /\ m.fail = l.fail
      /\ m.out = l.out /\ m.status = l.status
  BY <1>1, SetHeard
<1>3. /\ FilesInv' /\ current' = current /\ OpenFds' = OpenFds
      /\ opened' = opened /\ \A fd : entry(fd)' = entry(fd)
  BY SameFiles DEF PInv
<1>4. CatInv'
  BY <1>2, <1>3 DEF PInv, CatInv, CatDone, Printing
<1>5. LsInv'
  BY <1>2, <1>3 DEF PInv, LsInv, Printing
<1>6. SyserrInv'
  BY <1>2, <1>3 DEF PInv, SyserrInv, Chosen, OpensLots
<1> QED BY <1>2, <1>3, <1>4, <1>5, <1>6 DEF PInv

\* The caller of a program that halts goes on with the value it is told.
LEMMA HaltTells ==
    ASSUME PInv, Halt
    PROVE  PInv'
<1>1. FilesInv'
  BY HaltStep DEF PInv, Halt
<1>2. local.status \in { NULL, 0, 2, 3 }
  BY DEF PInv, Local
<1>3. PICK how, s : /\ \/ how = "exit" /\ s \in { 0, 1, 2, 3, 255 }
                       \/ how = "exception" /\ s = 255
                    /\ local' = [Free EXCEPT !.heard = Heard(how, s, ExpandStatus(s % 256))]
  <2>1. PICK ending \in IF In("any") THEN { <<"exit", 1>>, <<"exit", 255>>, <<"exception", 255>> }
                        ELSE { <<"exit", s>> : s \in {local.status} \ {NULL} } :
           local' = [Free EXCEPT !.heard =
                        Heard(ending[1], ending[2], ExpandStatus(ending[2] % 256))]
    BY DEF Halt
  <2>2. \/ ending[1] = "exit" /\ ending[2] \in { 0, 1, 2, 3, 255 }
        \/ ending[1] = "exception" /\ ending[2] = 255
    BY <1>2, <2>1
  <2> QED BY <2>1, <2>2
<1>4. s % 256 = s
  BY <1>3
<1>5. Heard(how, s, ExpandStatus(s)) \in Hearing
  <2>1. CASE how = "exit" /\ s \in { 0, 1, 2, 3, 255 }
    BY <2>1 DEF Hearing
  <2>2. CASE how = "exception" /\ s = 255
    BY <2>2 DEF Hearing, ExpandStatus
  <2> QED BY <1>3, <2>1, <2>2
<1>6. Free \in Local /\ Free.prog = "any"
  <2>1. << >> \in Seq(Item)
    OBVIOUS
  <2> QED BY <2>1 DEF Free, Begin, Local
<1> PICK m : m = local'
  OBVIOUS
<1>7. m \in Local /\ m.prog = "any"
  BY <1>3, <1>4, <1>5, <1>6, SetHeard
<1>8. CatInv' /\ LsInv' /\ SyserrInv'
  BY <1>7 DEF CatInv, LsInv, SyserrInv
<1> QED BY <1>1, <1>7, <1>8 DEF PInv

\* With no descriptor open, only a name that is not there makes open fail.
LEMMA OpenSucceeds ==
    ASSUME OpenFds = {}, NEW name, read_dentry_by_name(name) # -1
    PROVE  OpenReturns(name) # -1
<1>1. FreeFds # {}
  <2>1. 2 \in Fd \ {0, 1}
    BY FilesAssumption DEF Fd
  <2> QED BY <2>1 DEF FreeFds, OpenFds
<1>2. FreeFds \in SUBSET Nat
  BY DEF FreeFds, Fd
<1>3. \E x \in FreeFds : \A y \in FreeFds : x <= y
  BY <1>1, <1>2, Least
<1>4. OpenReturns(name) \in FreeFds
  BY <1>1, <1>3 DEF OpenReturns
<1> QED BY <1>2, <1>4

\* What has been read of the directory when all has been read.
LEMMA AllNames ==
    ASSUME NEW position, NEW data \in Seq(Item), DirSoFar(position, data), Len(data) = NAMES
    PROVE  data = DirectoryNames
<1>1. \A k \in 1 .. NAMES : data[k] = DirectoryNames[k]
  <2>1. \A k \in 1 .. NAMES : k <= NAMES
    BY RankType DEF NAMES
  <2> QED BY <2>1 DEF DirSoFar
<1>2. data = [k \in 1 .. NAMES |-> data[k]]
  OBVIOUS
<1>3. DirectoryNames = [k \in 1 .. NAMES |-> DirectoryNames[k]]
  BY DEF DirectoryNames, NAMES
<1> QED BY <1>1, <1>2, <1>3

\* cat opens the file it is given, or gives up.
LEMMA CatOpensStep ==
    ASSUME PInv, CatOpens
    PROVE  PInv'
<1> PICK l, m : l = local /\ m = local'
  OBVIOUS
<1>1. /\ FilesInv /\ l \in Local /\ l.prog = "cat" /\ l.status = NULL /\ l.fd = NULL
      /\ l.arg \in Names \cup {NULL} /\ OpenFds = {} /\ l.out = << >>
  BY DEF PInv, CatOpens, In, CatInv
<1>2. CASE l.arg = NULL \/ OpenReturns(l.arg) = -1
  <2>1. PICK v \in { 2, 3 } : UNCHANGED vars /\ m = [l EXCEPT !.status = v]
    BY <1>2 DEF CatOpens, Exit
  <2>2. /\ m \in Local /\ m.prog = "cat" /\ m.arg = l.arg /\ m.status = v
        /\ m.out = << >> /\ v \notin { NULL, 0 }
    <3>1. v \in { NULL, 0, 2, 3 } /\ v \notin { NULL, 0 }
      BY FilesAssumption
    <3> QED BY <1>1, <2>1, <3>1, SetStatus
  <2>3. FilesInv'
    BY <1>1, <2>1, SameFiles
  <2>4. l.arg = NULL \/ read_dentry_by_name(l.arg) = -1
    BY <1>1, <1>2, OpenSucceeds
  <2>5. CatInv'
    BY <1>1, <2>2, <2>4 DEF CatInv, CatDone
  <2>6. LsInv' /\ SyserrInv'
    BY <2>2 DEF LsInv, SyserrInv
  <2> QED BY <2>2, <2>3, <2>5, <2>6 DEF PInv
<1>3. CASE l.arg # NULL /\ OpenReturns(l.arg) # -1
  <2>1. PICK name : name = l.arg /\ name \in Names
    BY <1>1, <1>3
  <2>2. open(name) /\ m = [l EXCEPT !.fd = OpenReturns(name)]
    BY <1>3, <2>1 DEF CatOpens
  <2>3. PICK i : i = OpenReturns(name)
    OBVIOUS
  <2>4. /\ FilesInv' /\ current' = current /\ i \in Fd \ {0, 1}
        /\ entry(i)' = Made(name) /\ opened'[current][i] = Unread(name)
    BY <1>1, <2>1, <2>2, <2>3, OpenStep
  <2>5. /\ m \in Local /\ m.prog = "cat" /\ m.arg = name /\ m.fd = i
        /\ m.out = << >> /\ m.status = NULL /\ m.fd # NULL
    <3>1. i # NULL
      BY <2>4, FdNotNull
    <3> QED BY <1>1, <2>1, <2>2, <2>3, <2>4, <3>1, SetFd
  <2>6. Printing(name)'
    <3>1. Made(name).active /\ Unread(name).name = name /\ Unread(name).data = << >>
      BY DEF Made, Unread
    <3>2. Len(<< >>) <= NAMES
      BY RankType DEF NAMES
    <3> QED BY <2>4, <2>5, <3>1, <3>2 DEF Printing
  <2>7. CatInv'
    BY <1>1, <1>3, <2>1, <2>5, <2>6 DEF CatInv
  <2>8. LsInv' /\ SyserrInv'
    BY <2>5 DEF LsInv, SyserrInv
  <2> QED BY <2>4, <2>5, <2>7, <2>8 DEF PInv
<1> QED BY <1>2, <1>3

\* cat prints what it reads of a file, and ends with all of it.
LEMMA CatReadsStep ==
    ASSUME PInv, CatReads
    PROVE  PInv'
<1> PICK l, m, i : l = local /\ m = local' /\ i = l.fd
  OBVIOUS
<1>1. /\ FilesInv /\ l \in Local /\ l.prog = "cat" /\ l.status = NULL /\ i # NULL
      /\ l.arg \in Names \cup {NULL} /\ l.arg # NULL /\ Printing(l.arg)
  BY DEF PInv, CatReads, In, CatInv
<1>2. i \in Fd \ {0, 1} /\ i \in Fd /\ l.out \in Seq(Item)
  BY <1>1 DEF Local
<1>3. file_read(i, CATBUF) /\ CATBUF \in Nat /\ CATBUF > 0
  BY ProgramsAssumption DEF CatReads
<1> PICK c, e, h, g, got : /\ c = current /\ e = entry(i) /\ h = opened[c][i]
                           /\ g = opened'[c][i] /\ got = Delivered(i)
  OBVIOUS
<1>4. /\ FilesInv' /\ current' = c /\ entry(i)'.active /\ entry(i)'.ops = "file"
      /\ g.name = h.name /\ got \in Seq(Item) /\ g.data = h.data \o got
      /\ Len(got) = 0 => Len(h.data) = inodes[e.inode_index].length
  BY <1>1, <1>2, <1>3, FileReadStep, Zenon
<1>5. e.active /\ h.name = l.arg /\ l.out = h.data
  BY <1>1 DEF Printing
<1>6. CASE Len(got) # 0
  <2>1. PICK v : v = l.out \o got /\ m = [l EXCEPT !.out = v]
    BY <1>6, Zenon DEF CatReads, ReadMore
  <2>2. v \in Seq(Item)
    BY <1>2, <1>4, <2>1, ConcatProperties, Zenon
  <2>3. /\ m \in Local /\ m.prog = "cat" /\ m.arg = l.arg /\ m.fd = i
        /\ m.out = l.out \o got /\ m.status = NULL
    <3>1. l \in Local /\ m = [l EXCEPT !.out = v]
      BY <1>1, <2>1
    <3>2. /\ m \in Local /\ m.prog = l.prog /\ m.arg = l.arg
          /\ m.fd = l.fd /\ m.out = v /\ m.status = l.status
      BY <2>2, <3>1, SetOut
    <3> QED BY <1>1, <2>1, <3>2, Zenon
  <2>4. Printing(l.arg)'
    BY <1>4, <1>5, <2>3, ZenonT(30) DEF Printing
  <2>5. CatInv'
    BY <1>1, <2>3, <2>4 DEF CatInv
  <2>6. LsInv' /\ SyserrInv'
    BY <2>3 DEF LsInv, SyserrInv
  <2> QED BY <1>4, <2>3, <2>5, <2>6, Zenon DEF PInv
<1>7. CASE Len(got) = 0
  <2>1. m = [l EXCEPT !.status = 0]
    BY <1>7 DEF CatReads, ReadMore, Exit
  <2>2. /\ m \in Local /\ m.prog = "cat" /\ m.arg = l.arg /\ m.out = l.out /\ m.status = 0
    BY <1>1, <2>1, SetStatus
  <2>3. e.ops = "file"
    BY DEF CatReads
  <2>4. h.data = Contents(l.arg) /\ read_dentry_by_name(l.arg) # -1
        /\ dentries[read_dentry_by_name(l.arg)].file_type = FILE
    <3> PICK d : d = read_dentry_by_name(l.arg)
      OBVIOUS
    <3>1. Described(e, h)
      BY <1>1, <1>2, EntryIs, SMTT(20)
    <3>2. /\ d # -1 /\ e.ops = OpsOf[dentries[d].file_type]
          /\ e.inode_index = dentries[d].inode_index
          /\ FileSoFar(e.inode_index, e.file_position, h.data)
      BY <1>5, <2>3, <3>1 DEF Described
    <3>3. d \in Dentry /\ dentries[d].file_name # EMPTY
      BY <3>2, FoundByName
    <3>4. dentries[d].file_type \in FileTypes
      BY <3>3, FilesAssumption
    <3>5. dentries[d].file_type = FILE
      BY <2>3, <3>2, <3>4 DEF OpsOf, FileTypes, RTC, DIRECTORY, FILE
    <3>6. PICK x, L : x = e.inode_index /\ L = inodes[x].length
      OBVIOUS
    <3>7. h.data = Bytes(x, 0, L)
      BY <1>4, <1>7, <3>2, <3>6, Zenon DEF FileSoFar
    <3>8. Bytes(x, 0, L) = [k \in 1 .. L |-> Byte(x, k - 1)]
      <4>1. \A k \in 1 .. L : 0 + k - 1 = k - 1
        OBVIOUS
      <4> QED BY <4>1 DEF Bytes
    <3>9. Contents(l.arg) = [k \in 1 .. L |-> Byte(x, k - 1)]
      BY <3>2, <3>6 DEF Contents
    <3> QED BY <3>2, <3>5, <3>7, <3>8, <3>9, Zenon
  <2>5. CatInv'
    <3>1. m.status # NULL
      BY <2>2, FilesAssumption
    <3> QED BY <1>1, <1>5, <2>2, <2>4, <3>1, Zenon DEF CatInv, CatDone
  <2>6. LsInv' /\ SyserrInv'
    BY <2>2 DEF LsInv, SyserrInv
  <2> QED BY <1>4, <2>2, <2>5, <2>6, Zenon DEF PInv
<1> QED BY <1>6, <1>7

\* One read of the directory by a program that has printed all it has read so far.
LEMMA DirPrinted ==
    ASSUME FilesInv, local \in Local, NEW i \in Fd \ {0, 1}, i = local.fd,
           NEW name, Printing(name), dir_read(i)
    PROVE  /\ FilesInv' /\ current' = current
           /\ entry(i)'.active /\ opened'[current][i].name = name
           /\ dentries[read_dentry_by_name(name)].file_type # FILE
           /\ name # NULL /\ read_dentry_by_name(name) # -1
           /\ \E item \in Item :
                 /\ Delivered(i) = <<item>>
                 /\ opened'[current][i].data = Append(local.out, item)
                 /\ Append(local.out, item) \in Seq(Item)
                 /\ LastUnused /\ item # EMPTY => Len(Append(local.out, item)) <= NAMES
                 /\ LastUnused /\ item = EMPTY => local.out = DirectoryNames
<1> PICK c, e, h, g, out : /\ c = current /\ e = entry(i) /\ h = opened[c][i]
                           /\ g = opened'[c][i] /\ out = local.out
  OBVIOUS
<1>1. /\ e.active /\ h.name = name /\ out = h.data
      /\ e.ops = "dir" /\ LastUnused => Len(out) <= NAMES
  BY DEF Printing
<1>2. e.ops = "dir"
  BY DEF dir_read
<1>3. PICK item \in Item :
         /\ FilesInv' /\ current' = c /\ entry(i)'.active /\ g.name = h.name
         /\ Delivered(i) = <<item>> /\ g.data = Append(h.data, item)
         /\ LastUnused /\ Len(h.data) <= NAMES =>
               IF item = EMPTY THEN Len(h.data) = NAMES ELSE Len(g.data) <= NAMES
  BY DirReadStep, ZenonT(30)
<1>4. h \in History /\ Described(e, h)
  BY EntryIs
<1>5. out \in Seq(Item)
  BY <1>1, <1>4 DEF History
<1>6. Append(out, item) \in Seq(Item)
  BY <1>5, AppendProperties
<1>7. LastUnused => DirSoFar(e.file_position, out)
  BY <1>1, <1>2, <1>4, Zenon DEF Described
<1>8. LastUnused /\ item = EMPTY => out = DirectoryNames
  BY <1>1, <1>2, <1>3, <1>5, <1>7, AllNames, Zenon
<1>9. LastUnused /\ item # EMPTY => Len(Append(out, item)) <= NAMES
  BY <1>1, <1>2, <1>3, Zenon
<1>10. /\ name # NULL /\ read_dentry_by_name(name) # -1
       /\ dentries[read_dentry_by_name(name)].file_type # FILE
  <2> PICK d : d = read_dentry_by_name(name)
    OBVIOUS
  <2>1. name # NULL /\ d # -1 /\ e.ops = OpsOf[dentries[d].file_type]
    BY <1>1, <1>4, Zenon DEF Described
  <2>2. d \in Dentry /\ dentries[d].file_name # EMPTY
    BY <2>1, FoundByName
  <2>3. dentries[d].file_type \in FileTypes
    BY <2>2, FilesAssumption
  <2> QED BY <1>2, <2>1, <2>3 DEF OpsOf, FileTypes, RTC, DIRECTORY, FILE
<1> QED BY <1>1, <1>3, <1>6, <1>8, <1>9, <1>10, Zenon

\* cat of the directory prints the names it reads, and ends with all of them.
LEMMA CatReadsNamesStep ==
    ASSUME PInv, CatReadsNames
    PROVE  PInv'
<1> PICK l, m, i : l = local /\ m = local' /\ i = l.fd
  OBVIOUS
<1>1. /\ FilesInv /\ l \in Local /\ l.prog = "cat" /\ l.status = NULL /\ i # NULL
      /\ l.arg \in Names \cup {NULL} /\ l.arg # NULL /\ Printing(l.arg)
  BY DEF PInv, CatReadsNames, In, CatInv
<1>2. i \in Fd \ {0, 1} /\ dir_read(i)
  BY <1>1 DEF Local, CatReadsNames
<1>3. PICK item \in Item :
         /\ FilesInv' /\ current' = current
         /\ entry(i)'.active /\ opened'[current][i].name = l.arg
         /\ dentries[read_dentry_by_name(l.arg)].file_type # FILE
         /\ read_dentry_by_name(l.arg) # -1
         /\ Delivered(i) = <<item>>
         /\ opened'[current][i].data = Append(l.out, item)
         /\ Append(l.out, item) \in Seq(Item)
         /\ LastUnused /\ item # EMPTY => Len(Append(l.out, item)) <= NAMES
         /\ LastUnused /\ item = EMPTY => l.out = DirectoryNames
  <2> PICK name : name = l.arg
    OBVIOUS
  <2> QED BY <1>1, <1>2, DirPrinted, Zenon
<1>4. CASE item # EMPTY
  <2>1. Delivered(i) # <<EMPTY>> /\ l.out \o Delivered(i) = Append(l.out, item)
    <3>1. l.out \in Seq(Item)
      BY <1>1 DEF Local
    <3>2. Append(l.out, item) = l.out \o <<item>>
      <4>1. PICK s \in Seq(Item) : s = l.out
        BY <3>1
      <4>2. Append(s, item) = s \o <<item>>
        BY AppendIsConcat
      <4> QED BY <4>1, <4>2
    <3>3. <<item>> # <<EMPTY>>
      BY <1>4
    <3> QED BY <1>3, <3>2, <3>3
  <2>2. PICK v : v = Append(l.out, item) /\ v \in Seq(Item)
    BY <1>3, Zenon
  <2>3. m = [l EXCEPT !.out = v]
    BY <2>1, <2>2 DEF CatReadsNames
  <2>4. v \in Seq(Item)
    BY <2>2
  <2>5. /\ m \in Local /\ m.prog = l.prog /\ m.arg = l.arg
        /\ m.fd = l.fd /\ m.out = v /\ m.status = l.status
    BY <1>1, <2>3, <2>4, SetOut, SMTT(20)
  <2>6. Printing(l.arg)'
    BY <1>3, <1>4, <2>2, <2>5 DEF Printing
  <2>7. CatInv'
    BY <1>1, <2>5, <2>6 DEF CatInv
  <2>8. LsInv' /\ SyserrInv'
    BY <1>1, <2>5 DEF LsInv, SyserrInv
  <2> QED BY <1>3, <2>5, <2>7, <2>8, SMTT(20) DEF PInv
<1>5. CASE item = EMPTY
  <2>1. m = [l EXCEPT !.status = 0]
    BY <1>3, <1>5 DEF CatReadsNames, Exit
  <2>2. /\ m \in Local /\ m.prog = l.prog /\ m.arg = l.arg /\ m.out = l.out /\ m.status = 0
    BY <1>1, <2>1, SetStatus
  <2>3. m.status # NULL
    BY <2>2, FilesAssumption
  <2>4. CatInv'
    BY <1>1, <1>3, <1>5, <2>2, <2>3, ZenonT(30) DEF CatInv, CatDone
  <2>5. LsInv' /\ SyserrInv'
    BY <1>1, <2>2 DEF LsInv, SyserrInv
  <2> QED BY <1>3, <2>2, <2>4, <2>5 DEF PInv
<1> QED BY <1>4, <1>5

\* ls opens the directory.
LEMMA LsOpensStep ==
    ASSUME PInv, LsOpens
    PROVE  PInv'
<1> PICK l, m, i : l = local /\ m = local' /\ i = OpenReturns(".")
  OBVIOUS
<1>1. /\ FilesInv /\ l \in Local /\ l.prog = "ls" /\ l.status = NULL /\ l.fd = NULL
      /\ OpenFds = {} /\ l.out = << >>
  BY DEF PInv, LsOpens, In, LsInv
<1>2. i # -1
  BY <1>1, OpenSucceeds, Dot
<1>3. open(".") /\ m = [l EXCEPT !.fd = i]
  BY <1>2 DEF LsOpens
<1>4. /\ FilesInv' /\ current' = current /\ i \in Fd \ {0, 1}
      /\ entry(i)' = Made(".") /\ opened'[current][i] = Unread(".")
  BY <1>1, <1>3, Dot, OpenStep
<1>5. /\ m \in Local /\ m.prog = l.prog /\ m.fd = i /\ m.out = l.out /\ m.status = l.status
  BY <1>1, <1>3, <1>4, SetFd
<1>6. Printing(".")'
  <2>1. Made(".").active /\ Unread(".").name = "." /\ Unread(".").data = << >>
    BY DEF Made, Unread
  <2>2. Len(<< >>) <= NAMES
    BY RankType DEF NAMES
  <2> QED BY <1>1, <1>4, <1>5, <2>1, <2>2 DEF Printing
<1>7. LsInv'
  <2>1. i # NULL
    BY <1>4, FilesAssumption DEF Fd
  <2> QED BY <1>1, <1>5, <1>6, <2>1 DEF LsInv
<1>8. CatInv' /\ SyserrInv'
  BY <1>1, <1>5 DEF CatInv, SyserrInv
<1> QED BY <1>4, <1>5, <1>7, <1>8, Zenon DEF PInv

\* ls prints the names it reads, and ends with all of them.
LEMMA LsReadsStep ==
    ASSUME PInv, LsReads
    PROVE  PInv'
<1> PICK l, m, i : l = local /\ m = local' /\ i = l.fd
  OBVIOUS
<1>1. /\ FilesInv /\ l \in Local /\ l.prog = "ls" /\ l.status = NULL /\ i # NULL
      /\ Printing(".")
  BY DEF PInv, LsReads, In, LsInv
<1>2. i \in Fd \ {0, 1} /\ dir_read(i)
  BY <1>1 DEF Local, LsReads
<1>3. PICK item \in Item :
         /\ FilesInv' /\ current' = current
         /\ entry(i)'.active /\ opened'[current][i].name = "."
         /\ Delivered(i) = <<item>>
         /\ opened'[current][i].data = Append(l.out, item)
         /\ Append(l.out, item) \in Seq(Item)
         /\ LastUnused /\ item # EMPTY => Len(Append(l.out, item)) <= NAMES
         /\ LastUnused /\ item = EMPTY => l.out = DirectoryNames
  BY <1>1, <1>2, DirPrinted, Zenon
<1>4. Delivered(i)[1] = item
  BY <1>3
<1>5. CASE item # EMPTY
  <2>1. PICK v : v = Append(l.out, item) /\ v \in Seq(Item)
    BY <1>3, Zenon
  <2>2. m = [l EXCEPT !.out = v]
    BY <1>4, <1>5, <2>1 DEF LsReads, HasName
  <2>3. v \in Seq(Item)
    BY <2>1
  <2>4. /\ m \in Local /\ m.prog = l.prog
        /\ m.fd = l.fd /\ m.out = v /\ m.status = l.status
    BY <1>1, <2>2, <2>3, SetOut
  <2>5. Printing(".")'
    BY <1>3, <1>5, <2>1, <2>4, Zenon DEF Printing
  <2>6. LsInv'
    BY <1>1, <2>4, <2>5 DEF LsInv
  <2>7. CatInv' /\ SyserrInv'
    BY <1>1, <2>4 DEF CatInv, SyserrInv
  <2> QED BY <1>3, <2>4, <2>6, <2>7 DEF PInv
<1>6. CASE item = EMPTY
  <2>1. m = [l EXCEPT !.status = 0]
    BY <1>4, <1>6 DEF LsReads, HasName, Exit
  <2>2. /\ m \in Local /\ m.prog = l.prog /\ m.out = l.out /\ m.status = 0
    BY <1>1, <2>1, SetStatus
  <2>3. m.status # NULL
    BY <2>2, FilesAssumption
  <2>4. LsInv'
    BY <1>1, <1>3, <1>6, <2>2, <2>3, SMTT(20) DEF LsInv
  <2>5. CatInv' /\ SyserrInv'
    BY <1>1, <2>2, SMTT(20) DEF CatInv, SyserrInv
  <2> QED BY <1>3, <2>2, <2>4, <2>5 DEF PInv
<1> QED BY <1>5, <1>6


-----------------------------------------------------------------------------
(***************************************************************************)
(* The steps of syserr.                                                    *)
(***************************************************************************)
\* syserr counts its calls and its tests.
Counted(l, t, k, n) == [l EXCEPT !.test = t, !.k = k, !.cnt = n, !.fail = FALSE]

\* The present call of syserr, and what is assigned behind it.
LEMMA SyserrAt ==
    ASSUME PInv, SyserrCalls
    PROVE  LET l == local
               c == Tests[l.test][l.k]
               r == Returns(c.call, c.arg)
               lots == l.test = OPEN_LOTS
           IN /\ FilesInv /\ l \in Local /\ l.prog = "syserr" /\ l.status = NULL
              /\ l.test \in 1 .. 8 /\ l.k \in 1 .. Len(Tests[l.test]) /\ Chosen
              /\ IF lots THEN OpensLots ELSE OpenFds = {}
              /\ CASE c.call = "open" /\ r # -1 -> open(c.arg)
                   [] c.call = "close" /\ r # -1 -> close(c.arg)
                   [] OTHER -> UNCHANGED vars
              /\ lots \/ r = -1 =>
                    local' = Counted(l, l.test, l.k + 1,
                        IF lots /\ c.call = "open" /\ r = -1 THEN l.cnt + 1 ELSE l.cnt)
<1> PICK l : l = local
  OBVIOUS
<1> DEFINE c == Tests[l.test][l.k]
           r == Returns(c.call, c.arg)
           lots == l.test = OPEN_LOTS
           n == IF lots /\ c.call = "open" /\ r = -1 THEN l.cnt + 1 ELSE l.cnt
<1>1. /\ FilesInv /\ l \in Local /\ l.prog = "syserr" /\ l.status = NULL
      /\ l.test <= Len(Tests) /\ Chosen /\ l.k <= Len(Tests[l.test])
      /\ IF lots THEN OpensLots ELSE OpenFds = {}
  BY DEF PInv, SyserrCalls, In, SyserrInv, Calling
<1>2. l.fail = FALSE
  <2>1. ~ l.fail /\ l.fail \in BOOLEAN
    BY <1>1 DEF PInv, SyserrInv, Local
  <2> QED BY <2>1
<1>3. l.test \in 1 .. 8 /\ l.k \in 1 .. Len(Tests[l.test])
  <2>1. l.test \in 1 .. 9 /\ l.k \in Nat \ {0}
    BY <1>1 DEF Local
  <2>2. Len(Tests) = 8
    BY OpenLotsCalls, Zenon
  <2>3. l.test \in 1 .. 8
    BY <1>1, <2>1, <2>2
  <2>4. Len(Tests[l.test]) \in Nat
    <3>1. CASE lots
      BY <3>1, OpenLotsCalls
    <3>2. CASE ~ lots
      <4>1. PICK t \in 1 .. Len(Tests) : t = l.test
        BY <2>2, <2>3
      <4>2. Tests[t] \in Seq(Failing)
        BY <1>1, <3>2, <4>1, TestsFail
      <4> QED BY <4>1, <4>2
    <3> QED BY <3>1, <3>2
  <2> QED BY <1>1, <2>1, <2>3, <2>4
<1>4. (CASE c.call = "open" /\ r # -1 -> open(c.arg)
         [] c.call = "close" /\ r # -1 -> close(c.arg)
         [] OTHER -> UNCHANGED vars)
  BY Zenon DEF SyserrCalls
<1>5. ASSUME lots \/ r = -1
      PROVE  local' = Counted(l, l.test, l.k + 1, n)
  <2>1. (l.fail \/ (~ lots /\ r # -1)) = FALSE
    BY <1>2, <1>5, SMTT(20)
  <2>2. local' = [l EXCEPT !.k = l.k + 1, !.cnt = n, !.fail = l.fail \/ (~ lots /\ r # -1)]
    BY DEF SyserrCalls
  <2>3. local' = [l EXCEPT !.k = l.k + 1, !.cnt = n, !.fail = FALSE]
    BY <2>1, <2>2, Zenon
  <2>4. l = [l EXCEPT !.test = l.test]
    BY <1>1 DEF Local
  <2> HIDE DEF n
  <2> QED BY <1>1, <2>3, <2>4, Zenon DEF Local, Counted
<1> QED BY <1>1, <1>3, <1>4, <1>5

\* A call of a test whose calls all fail.
LEMMA SyserrFailsStep ==
    ASSUME PInv, SyserrCalls, local.test # OPEN_LOTS
    PROVE  PInv'
<1> PICK l, m, c : l = local /\ m = local' /\ c = Tests[l.test][l.k]
  OBVIOUS
<1>1. /\ FilesInv /\ l \in Local /\ l.prog = "syserr" /\ l.status = NULL
      /\ l.test \in 1 .. 8 /\ l.k \in 1 .. Len(Tests[l.test])
      /\ OpenFds = {}
  BY SyserrAt
<1>2. Returns(c.call, c.arg) = -1
  <2>1. PICK t \in 1 .. Len(Tests) : t = l.test
    BY <1>1, OpenLotsCalls
  <2>2. Tests[t] \in Seq(Failing)
    BY <1>1, <2>1, TestsFail
  <2>3. c \in Failing
    BY <1>1, <2>1, <2>2
  <2> QED BY <2>3 DEF Failing
<1>3. UNCHANGED vars
  BY <1>2, SyserrAt
<1>4. m = Counted(l, l.test, l.k + 1, l.cnt)
  BY <1>2, SyserrAt
<1>5. PICK t \in 1 .. 9, k \in Nat \ {0}, n \in Nat :
         t = l.test /\ k = l.k + 1 /\ n = l.cnt
  BY <1>1 DEF Local
<1>6. m = Counted(l, t, k, n)
  BY <1>4, <1>5
<1>7. /\ m \in Local /\ m.prog = l.prog /\ m.arg = l.arg /\ m.test = t
      /\ ~ m.fail /\ m.status = l.status
  BY <1>1, <1>5, <1>6, ZenonT(30) DEF Counted, Local
<1>8. FilesInv' /\ OpenFds' = {}
  BY <1>1, <1>3, SameFiles
<1>9. SyserrInv'
  BY <1>1, <1>5, <1>7, <1>8, SMTT(20) DEF SyserrInv
<1>10. CatInv' /\ LsInv'
  BY <1>1, <1>7 DEF CatInv, LsInv
<1> QED BY <1>7, <1>8, <1>9, <1>10 DEF PInv

\* Arithmetic of the descriptors that err_open_lots holds: one more, one less, the
\* others.
LEMMA Ranges ==
    ASSUME NEW T \in Nat, NEW k \in 1 .. T
    PROVE  /\ (2 .. T) \ (2 .. k) = k + 1 .. T
           /\ (2 .. k) \cup {k + 1} = 2 .. k + 1
           /\ (k .. T) \ {k} = k + 1 .. T
OBVIOUS

\* A call of err_open_lots: the opens take the descriptors from 2 on until none is
\* left, the last fails, and the closes give them back.
LEMMA OpenLotsStep ==
    ASSUME PInv, SyserrCalls, local.test = OPEN_LOTS
    PROVE  PInv'
<1> PICK l, m, c, T : /\ l = local /\ m = local'
                      /\ c = Tests[l.test][l.k] /\ T = TopFd
  OBVIOUS
<1> DEFINE r == Returns(c.call, c.arg)
<1>1. /\ FilesInv /\ l \in Local /\ l.prog = "syserr" /\ l.status = NULL
      /\ l.test \in 1 .. 8 /\ l.k \in 1 .. Len(Tests[l.test]) /\ Chosen /\ OpensLots
  BY SyserrAt
<1>2. /\ CASE c.call = "open" /\ r # -1 -> open(c.arg)
           [] c.call = "close" /\ r # -1 -> close(c.arg)
           [] OTHER -> UNCHANGED vars
      /\ m = Counted(l, l.test, l.k + 1,
                     IF c.call = "open" /\ r = -1 THEN l.cnt + 1 ELSE l.cnt)
  BY SyserrAt, Zenon
<1>3. /\ T \in Nat /\ T >= 2 /\ l.k \in 1 .. 2 * T - 1
      /\ c = IF l.k <= T THEN [call |-> "open", arg |-> "."]
             ELSE [call |-> "close", arg |-> l.k - T + 1]
  BY <1>1, OpenLotsCalls
<1>4. /\ l.k <= T => l.cnt = 0 /\ OpenFds = 2 .. l.k
      /\ l.k > T => l.cnt = 1 /\ OpenFds = l.k - T + 1 .. T
  BY <1>1 DEF OpensLots
<1>5. Fd = 0 .. T /\ Fd \ {0, 1} = 2 .. T
  <2>1. Fd = 0 .. T
    BY <1>3 DEF Fd, TopFd
  <2> QED BY <1>3, <2>1
<1>6. FreeFds = (2 .. T) \ OpenFds
  BY <1>5 DEF FreeFds, OpenFds
<1>7. \E n \in Nat : /\ m = Counted(l, l.test, l.k + 1, n)
                     /\ FilesInv'
                     /\ (l.k + 1 <= T => n = 0 /\ OpenFds' = 2 .. l.k + 1)
                     /\ (l.k + 1 > T => n = 1 /\ OpenFds' = l.k + 1 - T + 1 .. T)
  <2>1. CASE l.k < T
    <3>1. FreeFds = l.k + 1 .. T
      BY <1>3, <1>4, <1>6, <2>1, Ranges
    <3>2. OpenReturns(".") = l.k + 1
      <4> PICK k, F : k = l.k /\ F = FreeFds
        OBVIOUS
      <4>1. k \in Nat /\ T \in Nat /\ k + 1 <= T /\ F = k + 1 .. T
        BY <1>3, <2>1, <3>1
      <4>2. F # {} /\ k + 1 \in F /\ \A e \in F : k + 1 <= e
        BY <4>1
      <4>3. \A fd \in F : (\A e \in F : fd <= e) => fd = k + 1
        BY <4>1
      <4>4. (CHOOSE fd \in F : \A e \in F : fd <= e) = k + 1
        BY <4>2, <4>3
      <4> QED BY <4>2, <4>4, Dot, Zenon DEF OpenReturns
    <3>3. c.call = "open" /\ c.arg = "." /\ r # -1
      BY <1>3, <2>1, <3>2 DEF Returns
    <3>4. open(".")
      BY <1>2, <3>3
    <3>5. /\ FilesInv' /\ \A f \in Fd : entry(f)' = IF f = l.k + 1 THEN Made(".") ELSE entry(f)
      BY <1>1, <3>2, <3>4, Dot, OpenStep
    <3>6. OpenFds' = 2 .. l.k + 1
      <4>1. OpenFds' = OpenFds \cup {l.k + 1}
        <5>1. l.k + 1 \in Fd \ {0, 1} /\ Made(".").active
          BY <1>3, <1>5, <2>1 DEF Made
        <5> QED BY <3>5, <5>1 DEF OpenFds
      <4> QED BY <1>3, <1>4, <2>1, <4>1, Ranges
    <3>7. m = Counted(l, l.test, l.k + 1, 0)
      BY <1>2, <1>3, <1>4, <2>1, <3>3
    <3>8. 0 \in Nat /\ ~ (l.k + 1 > T)
      BY <1>3, <2>1
    <3> QED BY <3>5, <3>6, <3>7, <3>8, Zenon
  <2>2. CASE l.k = T
    <3>1. FreeFds = {}
      BY <1>3, <1>4, <1>6, <2>2
    <3>2. c.call = "open" /\ c.arg = "." /\ r = -1
      BY <1>3, <2>2, <3>1 DEF Returns, OpenReturns
    <3>3. UNCHANGED vars /\ m = Counted(l, l.test, l.k + 1, l.cnt + 1)
      BY <1>2, <3>2
    <3>4. FilesInv' /\ OpenFds' = OpenFds
      BY <1>1, <3>3, SameFiles
    <3>5. l.cnt = 0 /\ l.cnt + 1 = 1 /\ OpenFds' = 2 .. T
      BY <1>3, <1>4, <2>2, <3>4
    <3>6. m = Counted(l, l.test, l.k + 1, 1)
      BY <3>3, <3>5
    <3>7. ~ (l.k + 1 <= T) /\ l.k + 1 - T + 1 = 2 /\ 1 \in Nat
      BY <1>3, <2>2
    <3> QED BY <3>4, <3>5, <3>6, <3>7, Zenon
  <2>3. CASE l.k > T
    <3> PICK f : f = l.k - T + 1
      OBVIOUS
    <3>1. OpenFds = f .. T /\ f \in 2 .. T /\ f \in OpenFds
      BY <1>3, <1>4, <2>3
    <3>2. c.call = "close" /\ c.arg = f
      BY <1>3, <2>3
    <3>3. r # -1
      <4>1. f \in Fd /\ entry(f).active /\ f >= 2
        BY <1>3, <1>5, <3>1 DEF OpenFds
      <4> QED BY <3>2, <4>1 DEF Returns, Usable
    <3>4. close(f)
      BY <1>2, <3>2, <3>3
    <3>5. FilesInv' /\ ~ entry(f)'.active /\ \A g \in Fd \ {f} : entry(g)' = entry(g)
      BY <1>1, <1>5, <3>1, <3>4, CloseStep
    <3>6. OpenFds' = f + 1 .. T
      <4>1. OpenFds' = OpenFds \ {f}
        BY <3>5 DEF OpenFds
      <4> QED BY <1>3, <3>1, <4>1, Ranges
    <3>7. m = Counted(l, l.test, l.k + 1, 1)
      BY <1>2, <1>4, <2>3, <3>2
    <3>8. ~ (l.k + 1 <= T) /\ l.k + 1 - T + 1 = f + 1 /\ 1 \in Nat
      BY <1>3, <2>3
    <3> QED BY <3>5, <3>6, <3>7, <3>8, Zenon
  <2> QED BY <1>3, <2>1, <2>2, <2>3
<1>8. PICK n \in Nat : /\ m = Counted(l, l.test, l.k + 1, n)
                      /\ FilesInv'
                      /\ (l.k + 1 <= T => n = 0 /\ OpenFds' = 2 .. l.k + 1)
                      /\ (l.k + 1 > T => n = 1 /\ OpenFds' = l.k + 1 - T + 1 .. T)
  BY <1>7
<1>9. PICK t \in 1 .. 9, k \in Nat \ {0} : t = l.test /\ k = l.k + 1
  BY <1>1, <1>3
<1>10. m = Counted(l, t, k, n)
  BY <1>8, <1>9
<1>11. /\ m \in Local /\ m.prog = l.prog /\ m.arg = l.arg /\ m.test = t /\ m.k = k
       /\ m.cnt = n /\ ~ m.fail /\ m.status = l.status
  BY <1>1, <1>9, <1>10, ZenonT(30) DEF Counted, Local
<1>12. OpensLots'
  <2>1. k <= 2 * T
    BY <1>3, <1>9
  <2>2. k <= T => n = 0 /\ OpenFds' = 2 .. k
    BY <1>8, <1>9
  <2>3. k > T => n = 1 /\ OpenFds' = k - T + 1 .. T
    BY <1>3, <1>8, <1>9
  <2> QED BY <1>11, <2>1, <2>2, <2>3 DEF OpensLots, TopFd
<1>13. Chosen'
  BY <1>1, <1>9, <1>11 DEF Chosen
<1>14. SyserrInv'
  BY <1>1, <1>9, <1>11, <1>12, <1>13, SMTT(20) DEF SyserrInv
<1>15. CatInv' /\ LsInv'
  BY <1>1, <1>11 DEF CatInv, LsInv
<1> QED BY <1>8, <1>11, <1>14, <1>15, Zenon DEF PInv


\* syserr goes on to the next test; one of err_open_lots' opens has failed.
LEMMA SyserrGoesOnStep ==
    ASSUME PInv, SyserrGoesOn
    PROVE  PInv'
<1> PICK l, m, T : l = local /\ m = local' /\ T = TopFd
  OBVIOUS
<1>1. /\ FilesInv /\ l \in Local /\ l.prog = "syserr" /\ l.status = NULL
      /\ l.test <= Len(Tests) /\ ~ Calling /\ UNCHANGED vars
      /\ IF l.test = OPEN_LOTS /\ Chosen THEN OpensLots ELSE OpenFds = {}
  BY DEF PInv, SyserrGoesOn, In, SyserrInv
<1>2. l.test \in 1 .. 8 /\ l.k \in Nat \ {0} /\ T \in Nat /\ T >= 2
  BY <1>1, OpenLotsCalls DEF Local
<1>3. OpenFds = {} /\ ~ (Chosen /\ l.test = OPEN_LOTS /\ l.cnt # 1)
  <2>1. CASE l.test = OPEN_LOTS /\ Chosen
    <3>1. OpensLots /\ l.k > Len(err_open_lots)
      BY <1>1, <1>2, <2>1, OpenLotsCalls DEF Calling
    <3>2. l.k = 2 * T
      BY <1>2, <3>1, OpenLotsCalls DEF OpensLots
    <3>3. l.cnt = 1 /\ OpenFds = T + 1 .. T
      <4>1. l.k > T /\ l.k - T + 1 = T + 1
        BY <1>2, <3>2
      <4> QED BY <3>1, <4>1 DEF OpensLots
    <3> QED BY <1>2, <3>3
  <2>2. CASE ~ (l.test = OPEN_LOTS /\ Chosen)
    BY <1>1, <2>2
  <2> QED BY <2>1, <2>2
<1>4. m = Counted(l, l.test + 1, 1, 0)
  <2>1. l.fail = FALSE
    <3>1. ~ l.fail /\ l.fail \in BOOLEAN
      BY <1>1 DEF PInv, SyserrInv, Local
    <3> QED BY <3>1
  <2>2. (l.fail \/ (Chosen /\ l.test = OPEN_LOTS /\ l.cnt # 1)) = FALSE
    BY <1>3, <2>1
  <2>3. m = [l EXCEPT !.test = l.test + 1, !.k = 1, !.cnt = 0,
                      !.fail = l.fail \/ (Chosen /\ l.test = OPEN_LOTS /\ l.cnt # 1)]
    BY DEF SyserrGoesOn
  <2> QED BY <2>2, <2>3, Zenon DEF Counted
<1>5. PICK t \in 1 .. 9, k \in Nat \ {0}, n \in Nat : t = l.test + 1 /\ k = 1 /\ n = 0
  BY <1>2
<1>6. /\ m \in Local /\ m.prog = l.prog /\ m.arg = l.arg /\ m.test = t /\ m.k = 1
      /\ m.cnt = 0 /\ ~ m.fail /\ m.status = l.status
  <2>1. m = Counted(l, t, k, n)
    BY <1>4, <1>5
  <2>2. /\ m \in Local /\ m.prog = l.prog /\ m.arg = l.arg /\ m.test = t /\ m.k = k
        /\ m.cnt = n /\ ~ m.fail /\ m.status = l.status
    BY <1>1, <1>5, <2>1, ZenonT(30) DEF Counted, Local
  <2> QED BY <1>5, <2>2
<1>7. FilesInv' /\ OpenFds' = {}
  BY <1>1, <1>3, SameFiles
<1>8. OpensLots'
  <2>1. 2 .. 1 = {} /\ 1 <= T /\ 1 <= 2 * T
    BY <1>2
  <2> QED BY <1>2, <1>6, <1>7, <2>1 DEF OpensLots, TopFd
<1>9. SyserrInv'
  BY <1>1, <1>6, <1>7, <1>8 DEF SyserrInv
<1>10. CatInv' /\ LsInv'
  BY <1>1, <1>6 DEF CatInv, LsInv
<1> QED BY <1>6, <1>7, <1>9, <1>10 DEF PInv

\* main of syserr returns 0: no test has failed.
LEMMA SyserrReturnsStep ==
    ASSUME PInv, SyserrReturns
    PROVE  PInv'
<1> PICK l, m : l = local /\ m = local'
  OBVIOUS
<1>1. /\ FilesInv /\ l \in Local /\ l.prog = "syserr" /\ ~ l.fail /\ UNCHANGED vars
  BY DEF PInv, SyserrReturns, In, SyserrInv
<1>2. m = [l EXCEPT !.status = 0]
  BY <1>1 DEF SyserrReturns, Exit
<1>3. /\ m \in Local /\ m.prog = l.prog /\ m.fail = l.fail /\ m.status = 0
  BY <1>1, <1>2, SetStatus
<1>4. FilesInv'
  BY <1>1, SameFiles
<1>5. SyserrInv'
  <2>1. m.status # NULL
    BY <1>3, FilesAssumption
  <2> QED BY <1>1, <1>3, <2>1 DEF SyserrInv
<1>6. CatInv' /\ LsInv'
  BY <1>1, <1>3 DEF CatInv, LsInv
<1> QED BY <1>3, <1>4, <1>5, <1>6 DEF PInv


-----------------------------------------------------------------------------
(***************************************************************************)
(* The other steps, and the invariant.                                     *)
(***************************************************************************)
\* The shell is told that a command could not be started.
LEMMA StartFailsStep ==
    ASSUME PInv, StartFails
    PROVE  PInv'
<1>1. PICK v \in Hearing : local' = [local EXCEPT !.heard = v]
  <2>1. Heard("missing", NULL, -1) \in Hearing /\ Heard("limit", NULL, 0) \in Hearing
    BY DEF Hearing
  <2> QED BY <2>1 DEF StartFails
<1>2. v \in {NULL} \cup Hearing /\ UNCHANGED vars
  BY <1>1 DEF StartFails
<1> QED BY <1>1, <1>2, HeardStep

\* The shell's exit.
LEMMA ShellReturnsStep ==
    ASSUME PInv, ShellReturns
    PROVE  PInv'
<1> PICK l, m : l = local /\ m = local'
  OBVIOUS
<1>1. FilesInv /\ l \in Local /\ l.prog = "shell" /\ UNCHANGED vars
  BY DEF PInv, ShellReturns, In
<1>2. m = [l EXCEPT !.status = 0]
  BY DEF ShellReturns, Exit
<1>3. m \in Local /\ m.prog = l.prog
  BY <1>1, <1>2, SetStatus
<1>4. CatInv' /\ LsInv' /\ SyserrInv'
  BY <1>1, <1>3 DEF CatInv, LsInv, SyserrInv
<1>5. FilesInv'
  BY <1>1, SameFiles
<1> QED BY <1>3, <1>4, <1>5 DEF PInv

\* A call of a program that does what it likes.
LEMMA AnyCallStep ==
    ASSUME PInv, AnyCall
    PROVE  PInv'
<1>1. FilesInv /\ local \in Local /\ local.prog = "any" /\ local' = local
  BY DEF PInv, AnyCall, In
<1>2. FilesInv'
  BY <1>1, CallStep DEF AnyCall
<1>3. CatInv' /\ LsInv' /\ SyserrInv'
  BY <1>1 DEF CatInv, LsInv, SyserrInv
<1> QED BY <1>1, <1>2, <1>3 DEF PInv

\* The process that is there at the beginning has opened nothing.
LEMMA Beginning ==
    ASSUME PInit
    PROVE  PInv
<1>1. FilesInv /\ local = Free
  BY FilesBeginning DEF PInit
<1>2. local \in Local
  <2>1. << >> \in Seq(Item)
    OBVIOUS
  <2> QED BY <1>1, <2>1 DEF Free, Begin, Local
<1>3. CatInv /\ LsInv /\ SyserrInv
  BY <1>1 DEF Free, Begin, CatInv, LsInv, SyserrInv
<1> QED BY <1>1, <1>2, <1>3 DEF PInv

\* The invariant is inductive.
LEMMA Inductive ==
    ASSUME PInv, [PNext]_pvars
    PROVE  PInv'
<1>1. CASE UNCHANGED pvars
  <2>1. UNCHANGED vars /\ local' = local
    BY <1>1 DEF pvars
  <2>2. FilesInv' /\ current' = current /\ OpenFds' = OpenFds
        /\ opened' = opened /\ \A fd : entry(fd)' = entry(fd)
    BY <2>1, SameFiles DEF PInv
  <2>3. CatInv'
    BY <2>1, <2>2, Zenon DEF PInv, CatInv, CatDone, Printing
  <2>4. LsInv'
    BY <2>1, <2>2, Zenon DEF PInv, LsInv, Printing
  <2>5. SyserrInv'
    BY <2>1, <2>2 DEF PInv, SyserrInv, Chosen, OpensLots
  <2> QED BY <2>1, <2>2, <2>3, <2>4, <2>5 DEF PInv
<1>2. CASE Reports
  <2>1. NULL \in {NULL} \cup Hearing
    OBVIOUS
  <2> QED BY <1>2, <2>1, HeardStep DEF Reports
<1>3. CASE SyserrCalls
  BY <1>3, SyserrFailsStep, OpenLotsStep
<1> QED BY <1>1, <1>2, <1>3, StartStep, StartFailsStep, ShellReturnsStep, HaltTells, AnyCallStep,
           CatOpensStep, CatReadsStep, CatReadsNamesStep, LsOpensStep, LsReadsStep,
           SyserrGoesOnStep, SyserrReturnsStep DEF PNext


\* The invariant holds of the programs and the descriptors of Programs.tla.
THEOREM ProgramsInvariant == PSpec => []PInv
<1>1. PInit => PInv
  BY Beginning
<1>2. PInv /\ [PNext]_pvars => PInv'
  BY Inductive
<1> QED BY <1>1, <1>2, PTL DEF PSpec

-----------------------------------------------------------------------------
(***************************************************************************)
(* The properties.                                                         *)
(***************************************************************************)
\* The descriptors of a running process are those it opened itself, bound to the file
\* it named, whatever earlier processes did under its PID (syscall.c:114-122, 251-261).
THEOREM DescriptorsAreOwn == PSpec => []OwnDescriptors
<1>1. PInv => OwnDescriptors
  BY Own DEF PInv
<1> QED BY <1>1, ProgramsInvariant, PTL

\* If the last dentry is unused, what read delivers of files and of the directory is
\* what is there, in its order (fs.c:94-131, 185-233).
THEOREM ReadsAreInOrder ==
    ASSUME LastUnused
    PROVE  PSpec => []ReadsInOrder
<1>1. PInv => ReadsInOrder
  BY FileReads, DirectoryReads DEF PInv, ReadsInOrder
<1> QED BY <1>1, ProgramsInvariant, PTL

\* For any image, successive reads of a file deliver its bytes in order, none lost, none
\* twice and none beyond its length (fs.c:94-131, 185-200).
THEOREM ReadsAreConsecutive == PSpec => []ReadsConsecutive
<1>1. PInv => ReadsConsecutive
  BY FileReads DEF PInv
<1> QED BY <1>1, ProgramsInvariant, PTL

\* If the last dentry is unused, cat prints the file it is given byte for byte and ls the
\* names of the directory, no more and no less (ece391cat.c:20-28, ece391ls.c:13-26).
THEOREM ProgramsPrintExactly ==
    ASSUME LastUnused
    PROVE  PSpec => []PrintsExactly
<1>1. PInv => CatPrints
  BY DEF PInv, CatInv, CatDone, CatPrints
<1>2. PInv => LsLists
  BY DEF PInv, LsInv, LsLists
<1>3. PInv => PrintsExactly
  BY <1>1, <1>2 DEF PrintsExactly
<1> QED BY <1>3, ProgramsInvariant, PTL

\* Every test of syserr passes, in a process with any history of its PID
\* (ece391syserr.c).
THEOREM SyserrAlwaysPasses == PSpec => []SyserrPasses
<1>1. PInv => SyserrPasses
  BY DEF PInv, SyserrInv, SyserrPasses
<1> QED BY <1>1, ProgramsInvariant, PTL

\* The shell's message tells how its command ended (syscall.c:80, ece391shell.c:28).
THEOREM ShellAlwaysTells == PSpec => []ShellTells
<1>1. PInv => ShellTells
  <2>1. SUFFICES ASSUME NEW h \in Hearing
                 PROVE  /\ h.how = "missing" => ShellSays(h.rval) = "no such command"
                        /\ h.how = "exception" => ShellSays(h.rval) = "terminated by exception"
                        /\ h.how = "exit" /\ h.status # 255 =>
                              ShellSays(h.rval) = IF h.status = 0 THEN EMPTY
                                                  ELSE "terminated abnormally"
    BY <2>1, Zenon DEF PInv, Local, ShellTells
  <2>2. /\ ShellSays(-1) = "no such command"
        /\ ShellSays(256) = "terminated by exception"
        /\ ShellSays(0) = EMPTY
        /\ \A s \in { 1, 2, 3 } : ShellSays(s) = "terminated abnormally"
    BY DEF ShellSays
  <2>3. CASE h = Heard("missing", NULL, -1)
    <3>1. h.how = "missing" /\ h.rval = -1
      BY <2>3 DEF Heard
    <3> QED BY <2>2, <3>1, Zenon
  <2>4. CASE h = Heard("limit", NULL, 0)
    <3>1. h.how = "limit"
      BY <2>4 DEF Heard
    <3> QED BY <3>1
  <2>5. CASE h = Heard("exception", 255, 256)
    <3>1. h.how = "exception" /\ h.rval = 256
      BY <2>5 DEF Heard
    <3> QED BY <2>2, <3>1, ZenonT(30)
  <2>6. ASSUME NEW s \in { 0, 1, 2, 3, 255 }, h = Heard("exit", s, ExpandStatus(s))
        PROVE  h.how = "exit" /\ h.status = s /\ (s # 255 => h.rval = s)
    BY <2>6 DEF Heard, ExpandStatus
  <2>7. CASE \E s \in { 0, 1, 2, 3, 255 } : h = Heard("exit", s, ExpandStatus(s))
    <3>1. PICK s \in { 0, 1, 2, 3, 255 } : h = Heard("exit", s, ExpandStatus(s))
      BY <2>7
    <3>2. h.how = "exit" /\ h.status = s /\ (s # 255 => h.rval = s)
      BY <2>6, <3>1
    <3>3. s # 255 => ShellSays(s) = IF s = 0 THEN EMPTY ELSE "terminated abnormally"
      <4>1. s = 255 \/ s = 0 \/ s \in { 1, 2, 3 }
        BY <3>1
      <4> QED BY <2>2, <4>1, Zenon
    <3> QED BY <3>2, <3>3, ZenonT(30)
  <2> QED BY <2>3, <2>4, <2>5, <2>7, Zenon DEF Hearing
<1> QED BY <1>1, ProgramsInvariant, PTL

=============================================================================
