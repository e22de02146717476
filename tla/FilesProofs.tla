---------------------------- MODULE FilesProofs ----------------------------
(***************************************************************************)
(* Proofs about Files, for every image, every layout of its blocks and any *)
(* number of processes and descriptors: what any sequence of calls leaves  *)
(* in the descriptors and delivers to the programs.                        *)
(***************************************************************************)
EXTENDS Files, WellFoundedInduction, SequenceTheorems, FiniteSetTheorems, TLAPS

-----------------------------------------------------------------------------
(***************************************************************************)
(* Numbers and sequences.                                                  *)
(***************************************************************************)
\* A set of numbers has a least element.
LEMMA Least ==
    ASSUME NEW S \in SUBSET Nat, S # {}
    PROVE  \E m \in S : \A y \in S : m <= y
<1> DEFINE R == OpToRel(<, Nat)
<1>1. IsWellFoundedOn(R, Nat)
  BY NatLessThanWellFounded, Zenon
<1>2. \A x, y \in Nat : x < y => <<x, y>> \in R
  BY DEF OpToRel
<1> HIDE DEF R
<1>3. PICK m \in S : \A y \in S : ~ (<<y, m>> \in R)
  BY <1>1, WFMin, Zenon
<1>4. \A y \in S : m <= y
  <2> SUFFICES ASSUME NEW y \in S PROVE ~ (y < m)
    OBVIOUS
  <2> QED BY <1>2, <1>3, Zenon
<1> QED BY <1>4

\* Induction up to N, for a set of numbers.
LEMMA UpTo ==
    ASSUME NEW N \in Nat, NEW S, 0 \in S, \A n \in 1 .. N : n - 1 \in S => n \in S
    PROVE  \A n \in 0 .. N : n \in S
<1> DEFINE T == { n \in 0 .. N : n \notin S }
<1> SUFFICES ASSUME T # {} PROVE FALSE
  OBVIOUS
<1>1. PICK m \in T : \A y \in T : m <= y
  <2>1. T \in SUBSET Nat
    OBVIOUS
  <2> HIDE DEF T
  <2> QED BY <2>1, Least
<1>2. m \in 1 .. N /\ m - 1 \in 0 .. N /\ ~ (m <= m - 1)
  OBVIOUS
<1> QED BY <1>1, <1>2

\* Quotient and remainder are what they are called.
LEMMA Divided ==
    ASSUME NEW c \in Nat \ {0}, NEW a \in Nat
    PROVE  /\ a \div c \in Nat /\ a % c \in 0 .. c - 1
           /\ a = c * (a \div c) + (a % c)
OBVIOUS

\* There is only one pair of them.
LEMMA DividedOnce ==
    ASSUME NEW c \in Nat \ {0}, NEW q \in Nat, NEW r \in 0 .. c - 1
    PROVE  (c * q + r) \div c = q /\ (c * q + r) % c = r
<1>1. r \in Nat /\ r < c /\ c \in Nat /\ c # 0
  OBVIOUS
<1>2. (c * q + r) \div c = q
  BY <1>1
<1>3. (c * q + r) % c = r
  BY <1>1
<1> QED BY <1>2, <1>3

\* The quotient and the remainder of the next number.
LEMMA DividedNext ==
    ASSUME NEW c \in Nat \ {0}, NEW a \in Nat
    PROVE  IF (a % c) + 1 >= c
           THEN (a + 1) \div c = a \div c + 1 /\ (a + 1) % c = 0
           ELSE (a + 1) \div c = a \div c /\ (a + 1) % c = (a % c) + 1
<1> PICK q, r : q = a \div c /\ r = a % c
  OBVIOUS
<1>1. q \in Nat /\ r \in 0 .. c - 1 /\ a = c * q + r
  BY Divided, Zenon
<1>2. CASE r + 1 >= c
  <2>1. r = c - 1
    BY <1>1, <1>2
  <2>2. a + 1 = c * (q + 1) + 0
    BY <1>1, <2>1
  <2>3. q + 1 \in Nat /\ 0 \in 0 .. c - 1
    BY <1>1
  <2>4. (c * (q + 1) + 0) \div c = q + 1 /\ (c * (q + 1) + 0) % c = 0
    BY <2>3, DividedOnce, Zenon
  <2> QED BY <1>2, <2>2, <2>4
<1>3. CASE ~ (r + 1 >= c)
  <2>1. r + 1 \in 0 .. c - 1 /\ a + 1 = c * q + (r + 1)
    BY <1>1, <1>3
  <2>2. (c * q + (r + 1)) \div c = q /\ (c * q + (r + 1)) % c = r + 1
    BY <1>1, <2>1, DividedOnce, Zenon
  <2> QED BY <1>3, <2>1, <2>2
<1> QED BY <1>2, <1>3

\* What is behind s in s \o t.
LEMMA Behind ==
    ASSUME NEW S, NEW s \in Seq(S), NEW t \in Seq(S)
    PROVE  SubSeq(s \o t, Len(s) + 1, Len(s \o t)) = t
<1>1. Len(s) \in Nat /\ Len(t) \in Nat /\ Len(s \o t) = Len(s) + Len(t)
  BY LenProperties, ConcatProperties
<1> DEFINE u == SubSeq(s \o t, Len(s) + 1, Len(s \o t))
<1>2. u \in Seq(S) /\ Len(u) = Len(t) /\ \A k \in 1 .. Len(t) : u[k] = t[k]
  BY <1>1
<1> HIDE DEF u
<1>3. u = t
  BY <1>2, SeqEqual
<1> QED BY <1>3 DEF u

-----------------------------------------------------------------------------
(***************************************************************************)
(* The copy loop of read_data.                                             *)
(***************************************************************************)
\* Everything a read can deliver.
Item == { EMPTY, GARBAGE } \cup { dentries[d].file_name : d \in Dentry }
        \cup { Byte(i, k) : i \in Inode, k \in Nat }

\* The bytes of an inode from off on.
Bytes(i, off, n) == [k \in 1 .. n |-> Byte(i, off + k - 1)]

\* The loop copies the n bytes from off on, whatever blocks they are in.
LEMMA CopyBytesIs ==
    ASSUME NEW i, NEW off \in Nat, NEW length \in Nat
    PROVE  CopyBytes(i, off \div FS_BLOCK_SIZE, off % FS_BLOCK_SIZE, length)
              = Bytes(i, off, length)
<1> PICK c : c = FS_BLOCK_SIZE /\ c \in Nat \ {0}
  BY FilesAssumption
<1> DEFINE block(b) == data_blocks[inodes[i].data_index[b]]
           step(s) == [b |-> IF s.offset >= c THEN s.b + 1 ELSE s.b,
                       offset |-> (IF s.offset >= c THEN 0 ELSE s.offset) + 1,
                       buf |-> Append(s.buf, block(IF s.offset >= c THEN s.b + 1 ELSE s.b)
                                                  [IF s.offset >= c THEN 0 ELSE s.offset])]
           first == [b |-> off \div c, offset |-> off % c, buf |-> << >>]
           F == [n \in 0 .. length |->
                   [b |-> IF n = 0 THEN off \div c ELSE (off + n - 1) \div c,
                    offset |-> IF n = 0 THEN off % c ELSE ((off + n - 1) % c) + 1,
                    buf |-> Bytes(i, off, n)]]
           Follows(f) == f = [n \in 0 .. length |->
                                 IF n = 0 THEN first ELSE step(f[n - 1])]
           loop == CHOOSE f : Follows(f)
<1>1. F[0] = first
  <2>1. Bytes(i, off, 0) = << >>
    BY DEF Bytes
  <2> QED BY <2>1
<1>2. ASSUME NEW n \in 1 .. length
      PROVE  F[n] = step(F[n - 1])
  <2> DEFINE s == F[n - 1]
             t == s.offset >= c
             b == IF t THEN s.b + 1 ELSE s.b
             o == IF t THEN 0 ELSE s.offset
  <2>1. off + n - 1 \in Nat /\ n \in 0 .. length /\ n - 1 \in 0 .. length
    OBVIOUS
  <2>2. b = (off + n - 1) \div c /\ o = (off + n - 1) % c
    <3>1. CASE n = 1
      <4>1. s.b = off \div c /\ s.offset = off % c /\ off + n - 1 = off
        BY <3>1, <2>1
      <4>2. ~ (s.offset >= c)
        BY <4>1, Divided
      <4> QED BY <4>1, <4>2
    <3>2. CASE n # 1
      <4>1. PICK a \in Nat : a = off + n - 2
        BY <3>2
      <4>2. s.b = a \div c /\ s.offset = (a % c) + 1 /\ off + n - 1 = a + 1
        BY <3>2, <4>1, <2>1
      <4>3. IF (a % c) + 1 >= c
            THEN (a + 1) \div c = a \div c + 1 /\ (a + 1) % c = 0
            ELSE (a + 1) \div c = a \div c /\ (a + 1) % c = (a % c) + 1
        BY DividedNext, Zenon
      <4> QED BY <4>2, <4>3
    <3> QED BY <3>1, <3>2
  <2>3. s.buf = Bytes(i, off, n - 1)
    BY <2>1
  <2>4. Append(s.buf, block(b)[o]) = Bytes(i, off, n)
    <3>1. block(b)[o] = Byte(i, off + n - 1)
      BY <2>2, Zenon DEF Byte
    <3> HIDE DEF s, b, o, block
    <3> QED BY <2>3, <3>1 DEF Bytes
  <2>5. step(s) = [b |-> b, offset |-> o + 1, buf |-> Append(s.buf, block(b)[o])]
    OBVIOUS
  <2>6. F[n] = [b |-> (off + n - 1) \div c, offset |-> ((off + n - 1) % c) + 1,
                buf |-> Bytes(i, off, n)]
    BY <2>1
  <2> HIDE DEF s, b, o, block, F, step
  <2>7. F[n] = step(s)
    BY <2>2, <2>4, <2>5, <2>6
  <2> QED BY <2>7 DEF s
<1> HIDE DEF step, first
<1>3. Follows(F)
  <2>1. \A n \in 0 .. length : n # 0 => n \in 1 .. length
    OBVIOUS
  <2> HIDE DEF F
  <2>2. \A n \in 0 .. length : F[n] = IF n = 0 THEN first ELSE step(F[n - 1])
    BY <1>1, <1>2, <2>1
  <2>3. F = [n \in 0 .. length |-> F[n]]
    BY DEF F
  <2> QED BY <2>2, <2>3, Zenon
<1> HIDE DEF F
<1>4. Follows(loop)
  <2> HIDE DEF Follows
  <2> QED BY <1>3
<1>5. CopyBytes(i, off \div FS_BLOCK_SIZE, off % FS_BLOCK_SIZE, length) = loop[length].buf
  BY DEF CopyBytes, EndOfBlock, step, first, loop
<1> HIDE DEF loop
<1>6. loop[0] = first /\ \A n \in 1 .. length : loop[n] = step(loop[n - 1])
  BY <1>4
<1>7. \A n \in 0 .. length : loop[n] = F[n]
  <2> DEFINE S == { n \in 0 .. length : loop[n] = F[n] }
  <2>1. 0 \in S
    BY <1>1, <1>6
  <2>2. \A n \in 1 .. length : n - 1 \in S => n \in S
    BY <1>2, <1>6
  <2> HIDE DEF S
  <2>3. \A n \in 0 .. length : n \in S
    BY <2>1, <2>2, UpTo
  <2> QED BY <2>3 DEF S
<1>8. F[length].buf = Bytes(i, off, length)
  BY DEF F
<1>9. loop[length] = F[length]
  BY <1>7
<1> QED BY <1>5, <1>8, <1>9

-----------------------------------------------------------------------------
(***************************************************************************)
(* The directory.                                                          *)
(***************************************************************************)
\* A dentry that is found has the name asked for, which is not empty.
LEMMA FoundByName ==
    ASSUME NEW name, read_dentry_by_name(name) # -1
    PROVE  /\ read_dentry_by_name(name) \in Dentry /\ name # EMPTY
           /\ dentries[read_dentry_by_name(name)].file_name = name
<1> DEFINE match == { d \in Dentry : dentries[d].file_name = name }
<1>1. name # EMPTY /\ match # {}
  BY DEF read_dentry_by_name
<1>2. match \in SUBSET Nat
  BY DEF Dentry
<1>3. \E m \in match : \A y \in match : m <= y
  BY <1>1, <1>2, Least, Zenon
<1>4. read_dentry_by_name(name) \in match
  BY <1>1, <1>3 DEF read_dentry_by_name
<1> QED BY <1>1, <1>4

\* A populated dentry is found by read_dentry_by_index.
LEMMA NextDentryIs ==
    ASSUME NEW position, Populated(position) # {}
    PROVE  /\ NextDentry(position) \in Populated(position)
           /\ \A e \in Populated(position) : NextDentry(position) <= e
<1>1. Populated(position) \in SUBSET Nat
  BY DEF Populated, Dentry
<1>2. \E m \in Populated(position) : \A y \in Populated(position) : m <= y
  BY <1>1, Least
<1> QED BY <1>2 DEF NextDentry

\* The populated dentries before d.
Below(d) == { e \in Populated(0) : e < d }

\* They can be counted, and are not more than there are.
LEMMA RankType ==
    ASSUME NEW d
    PROVE  /\ IsFiniteSet(Below(d)) /\ IsFiniteSet(Populated(0))
           /\ Rank(d) = Cardinality(Below(d))
           /\ Rank(d) \in Nat /\ Cardinality(Populated(0)) \in Nat
           /\ Rank(d) <= Cardinality(Populated(0))
<1>1. IsFiniteSet(Dentry)
  <2>1. 0 \in Int /\ MAX_NUM_DENTRIES - 1 \in Int
    BY FilesAssumption
  <2> QED BY <2>1, FS_Interval DEF Dentry
<1>2. Populated(0) \subseteq Dentry /\ Below(d) \subseteq Populated(0)
  BY DEF Populated, Below
<1>3. IsFiniteSet(Populated(0))
  BY <1>1, <1>2, FS_Subset
<1>4. IsFiniteSet(Below(d)) /\ Cardinality(Below(d)) <= Cardinality(Populated(0))
  BY <1>2, <1>3, FS_Subset
<1>5. Rank(d) = Cardinality(Below(d))
  BY DEF Rank, Below
<1> QED BY <1>3, <1>4, <1>5, FS_CardinalityType

\* Past one more populated dentry the rank is one more.
LEMMA RankPast ==
    ASSUME NEW d \in Populated(0)
    PROVE  Rank(d + 1) = Rank(d) + 1
<1>1. d \in Nat /\ Populated(0) \subseteq Nat
  BY DEF Populated, Dentry
<1>2. Below(d + 1) = Below(d) \cup {d} /\ d \notin Below(d)
  BY <1>1 DEF Below
<1>3. Cardinality(Below(d) \cup {d}) = Cardinality(Below(d)) + 1
  BY <1>2, RankType, FS_AddElement, Zenon
<1> QED BY <1>2, <1>3, RankType, Zenon

\* The rank does not fall, and no two populated dentries have the same.
LEMMA RankGrows ==
    ASSUME NEW d \in Nat, NEW e \in Nat, d <= e
    PROVE  Rank(d) <= Rank(e)
<1>1. Below(d) \subseteq Below(e)
  BY DEF Below, Populated, Dentry
<1>2. Cardinality(Below(d)) <= Cardinality(Below(e))
  BY <1>1, RankType, FS_Subset
<1> QED BY <1>2, RankType

\* No two populated dentries have the same number before them.
LEMMA RankOnce ==
    ASSUME NEW d \in Populated(0), NEW e \in Populated(0), Rank(d) = Rank(e)
    PROVE  d = e
<1>1. d \in Nat /\ e \in Nat
  BY DEF Populated, Dentry
<1>2. ASSUME NEW x \in Populated(0), NEW y \in Populated(0), x \in Nat, y \in Nat, x < y
      PROVE  Rank(x) # Rank(y)
  <2>1. x + 1 \in Nat /\ x + 1 <= y
    BY <1>2
  <2>2. Rank(x) + 1 <= Rank(y)
    BY <1>2, <2>1, RankPast, RankGrows
  <2> QED BY <2>2, RankType
<1> QED BY <1>1, <1>2

\* The next populated dentry has the next name, and its position the next rank;
\* where there is none, all names are before the position.
LEMMA NextName ==
    ASSUME NEW position \in Nat
    PROVE  IF Populated(position) = {} THEN Rank(position) = Cardinality(Populated(0))
           ELSE LET d == NextDentry(position)
                IN /\ d \in Dentry /\ d >= position
                   /\ dentries[d].file_name # EMPTY
                   /\ Rank(d + 1) = Rank(position) + 1
                   /\ Rank(position) + 1 <= Cardinality(Populated(0))
                   /\ DirectoryNames[Rank(position) + 1] = dentries[d].file_name
<1>1. CASE Populated(position) = {}
  <2>1. Below(position) = Populated(0)
    BY <1>1 DEF Below, Populated, Dentry
  <2> QED BY <1>1, <2>1, RankType
<1>2. CASE Populated(position) # {}
  <2> PICK d : d = NextDentry(position)
    OBVIOUS
  <2>1. d \in Populated(position) /\ \A e \in Populated(position) : d <= e
    BY <1>2, NextDentryIs
  <2>2. d \in Populated(0) /\ d \in Dentry /\ d \in Nat /\ d >= position
        /\ dentries[d].file_name # EMPTY
    BY <2>1 DEF Populated, Dentry
  <2>3. Below(d) = Below(position)
    <3>1. ASSUME NEW e \in Populated(0)
          PROVE  e < d <=> e < position
      BY <2>1, <2>2 DEF Populated, Dentry
    <3> QED BY <3>1 DEF Below
  <2>4. Rank(d) = Rank(position)
    BY <2>3, RankType
  <2>5. Rank(d + 1) = Rank(position) + 1
    BY <2>2, <2>4, RankPast
  <2>6. PICK r \in Nat : r = Rank(position)
    BY RankType
  <2>7. r + 1 <= Cardinality(Populated(0)) /\ Cardinality(Populated(0)) \in Nat
    BY <2>5, <2>6, RankType
  <2>8. (CHOOSE e \in Populated(0) : Rank(e) = r) = d
    <3>1. \A e \in Populated(0) : Rank(e) = r => e = d
      BY <2>2, <2>4, <2>6, RankOnce
    <3> QED BY <2>2, <2>4, <2>6, <3>1
  <2>9. DirectoryNames[r + 1] = dentries[d].file_name
    <3>1. r + 1 \in 1 .. Cardinality(Populated(0)) /\ r + 1 - 1 = r
      BY <2>7
    <3>2. DirectoryNames[r + 1]
            = dentries[CHOOSE e \in Populated(0) : Rank(e) = r + 1 - 1].file_name
      BY <3>1 DEF DirectoryNames
    <3> QED BY <2>8, <3>1, <3>2, Zenon
  <2> QED BY <1>2, <2>2, <2>5, <2>6, <2>7, <2>9
<1> QED BY <1>1, <1>2

-----------------------------------------------------------------------------
(***************************************************************************)
(* The inductive invariant.                                                *)
(***************************************************************************)
Descriptor == [ops : Ops \cup {NULL}, inode_index : Inode,
               file_position : 0 .. WORD - 1, active : BOOLEAN]
History == [name : Names \cup {NULL}, data : Seq(Item)]
NAMES == Cardinality(Populated(0))

\* What has been read of a file are its first bytes, and the position counts them.
FileSoFar(i, position, data) ==
    /\ position = Len(data) /\ position <= inodes[i].length
    /\ data = Bytes(i, 0, position)

\* What has been read of the directory are the names of the dentries before the
\* position; or all of them, and a read of 0 bytes.
DirSoFar(position, data) ==
    /\ \A k \in 1 .. Len(data) : k <= NAMES => data[k] = DirectoryNames[k]
    /\ \/ position < MAX_NUM_DENTRIES /\ Len(data) = Rank(position)
       \/ /\ position = MAX_NUM_DENTRIES /\ Len(data) > NAMES
          /\ data[NAMES + 1] = EMPTY

\* A descriptor other than stdin and stdout, and what its process did with it.
Described(e, h) ==
    /\ e.active <=> h.name # NULL
    /\ e.active => LET d == read_dentry_by_name(h.name)
                   IN /\ d # -1
                      /\ e.ops = OpsOf[dentries[d].file_type]
                      /\ e.ops = "file" => e.inode_index = dentries[d].inode_index
    /\ e.active /\ e.ops = "file" => FileSoFar(e.inode_index, e.file_position, h.data)
    /\ e.active /\ e.ops = "dir" /\ LastUnused => DirSoFar(e.file_position, h.data)

FilesInv ==
    /\ TypeOK /\ StdioOpen
    /\ \A p \in Live :
          /\ opened[p] \in [Fd -> History]
          /\ \A fd \in Fd \ {0, 1} : Described(fd_array[p][fd], opened[p][fd])

\* The descriptors of the running program, besides stdin and stdout.
OpenFds == { fd \in Fd \ {0, 1} : entry(fd).active }

-----------------------------------------------------------------------------
(***************************************************************************)
(* One read.                                                               *)
(***************************************************************************)
\* A number smaller than the modulus is its own remainder.
LEMMA Unwrapped ==
    ASSUME NEW c \in Nat, NEW a \in 0 .. c - 1
    PROVE  a % c = a
<1>1. c \in Nat \ {0} /\ a \in Nat /\ a < c
  OBVIOUS
<1> QED BY <1>1

\* The bytes before and behind a position.
LEMMA BytesJoin ==
    ASSUME NEW i \in Inode, NEW m \in Nat, NEW n \in Nat
    PROVE  /\ Bytes(i, m, n) \in Seq(Item) /\ Len(Bytes(i, m, n)) = n
           /\ Bytes(i, 0, m) \o Bytes(i, m, n) = Bytes(i, 0, m + n)
<1>1. ASSUME NEW a \in Nat, NEW l \in Nat
      PROVE  Bytes(i, a, l) \in Seq(Item) /\ Len(Bytes(i, a, l)) = l
  <2>1. \A k \in 1 .. l : a + k - 1 \in Nat
    OBVIOUS
  <2>2. \A k \in 1 .. l : Byte(i, a + k - 1) \in Item
    BY <2>1 DEF Item
  <2> QED BY <2>2 DEF Bytes
<1> DEFINE s == Bytes(i, 0, m)
           t == Bytes(i, m, n)
           u == Bytes(i, 0, m + n)
<1>2. /\ s \in Seq(Item) /\ t \in Seq(Item) /\ u \in Seq(Item)
      /\ Len(s) = m /\ Len(t) = n /\ Len(u) = m + n
  BY <1>1
<1>3. \A k \in 1 .. m + n : (s \o t)[k] = u[k]
  <2> SUFFICES ASSUME NEW k \in 1 .. m + n PROVE (s \o t)[k] = u[k]
    BY Zenon
  <2>1. u[k] = Byte(i, k - 1)
    BY DEF Bytes
  <2>2. CASE k <= m
    <3>1. (s \o t)[k] = s[k]
      BY <1>2, <2>2, ConcatProperties
    <3>2. s[k] = Byte(i, 0 + k - 1) /\ 0 + k - 1 = k - 1
      BY <2>2 DEF Bytes
    <3> QED BY <2>1, <3>1, <3>2, Zenon
  <2>3. CASE k > m
    <3>1. (s \o t)[k] = t[k - m]
      BY <1>2, <2>3, ConcatProperties
    <3>2. t[k - m] = Byte(i, m + (k - m) - 1) /\ m + (k - m) - 1 = k - 1
      BY <2>3 DEF Bytes
    <3> QED BY <2>1, <3>1, <3>2, Zenon
  <2>4. k <= m \/ k > m
    OBVIOUS
  <2> QED BY <2>2, <2>3, <2>4, Zenon
<1> HIDE DEF s, t, u
<1>4. s \o t \in Seq(Item) /\ Len(s \o t) = m + n
  BY <1>2, ConcatProperties
<1>5. s \o t = u
  BY <1>2, <1>3, <1>4, SeqEqual, Zenon
<1> QED BY <1>2, <1>5 DEF s, t, u

\* A read of a file goes on where the last one stopped; it delivers nothing only at
\* the end.
LEMMA FileStep ==
    ASSUME NEW e \in Descriptor, NEW data \in Seq(Item), NEW n \in Nat,
           FileSoFar(e.inode_index, e.file_position, data)
    PROVE  LET r == read_data(e.inode_index, e.file_position, Clamp(e, n))
           IN /\ r.buf \in Seq(Item) /\ r.ret \in Nat
              /\ (e.file_position + r.ret) % WORD \in 0 .. WORD - 1
              /\ FileSoFar(e.inode_index, (e.file_position + r.ret) % WORD, data \o r.buf)
              /\ Len(r.buf) = 0 /\ n > 0 => e.file_position = inodes[e.inode_index].length
<1> PICK i, pos, L : /\ i = e.inode_index /\ pos = e.file_position
                     /\ L = inodes[i].length
  OBVIOUS
<1>1. /\ i \in Inode /\ pos \in Nat /\ pos <= L /\ L \in 0 .. WORD - 1 /\ WORD \in Nat
      /\ pos = Len(data) /\ data = Bytes(i, 0, pos)
  <2>1. e.inode_index \in Inode /\ e.file_position \in 0 .. WORD - 1
    BY DEF Descriptor
  <2>2. inodes[i].length \in 0 .. WORD - 1 /\ WORD \in Nat
    BY <2>1, FilesAssumption
  <2>3. pos = Len(data) /\ pos <= L /\ data = Bytes(i, 0, pos)
    BY Zenon DEF FileSoFar
  <2> QED BY <2>1, <2>2, <2>3
<1>2. (L - pos) % WORD = L - pos
  <2>1. L - pos \in 0 .. WORD - 1
    BY <1>1
  <2> QED BY <1>1, <2>1, Unwrapped, Zenon
<1>3. PICK c : c = Clamp(e, n)
  OBVIOUS
<1>4. c \in Nat /\ c <= L - pos /\ (c = 0 /\ n > 0 => pos = L)
  <2>1. c = IF (L - pos) % WORD < n THEN (L - pos) % WORD ELSE n
    BY <1>3 DEF Clamp
  <2>2. PICK x \in Nat : x = L - pos
    BY <1>1
  <2>3. c = IF x < n THEN x ELSE n
    BY <1>2, <2>1, <2>2
  <2>4. c \in Nat /\ c <= x /\ (c = 0 /\ n > 0 => x = 0)
    BY <2>3
  <2>5. x = 0 => pos = L
    BY <1>1, <2>2
  <2> QED BY <2>2, <2>4, <2>5
<1>5. pos + c \in 0 .. WORD - 1 /\ pos + c <= L
  BY <1>1, <1>4
<1>6. (pos + c) % WORD = pos + c
  BY <1>1, <1>5, Unwrapped, SMTT(20)
<1>7. read_data(i, pos, c) = [ret |-> c, buf |-> Bytes(i, pos, c)]
  <2>1. \A k \in 0 .. inodes[i].length \div FS_BLOCK_SIZE :
            inodes[i].data_index[k] \in DOMAIN data_blocks
    BY <1>1, FilesAssumption
  <2>2. ~ ((pos + c) % WORD > inodes[i].length)
    <3>1. ~ (pos + c > L)
      BY <1>1, <1>4, <1>5
    <3> QED BY <1>6, <3>1
  <2>3. CopyBytes(i, pos \div FS_BLOCK_SIZE, pos % FS_BLOCK_SIZE, c) = Bytes(i, pos, c)
    BY <1>1, <1>4, CopyBytesIs
  <2> QED BY <1>1, <2>1, <2>2, <2>3 DEF read_data
<1>8. /\ Bytes(i, pos, c) \in Seq(Item) /\ Len(Bytes(i, pos, c)) = c
      /\ data \o Bytes(i, pos, c) = Bytes(i, 0, pos + c)
  BY <1>1, <1>4, BytesJoin, Zenon
<1>9. FileSoFar(i, pos + c, data \o Bytes(i, pos, c))
  <2>1. Len(Bytes(i, 0, pos + c)) = pos + c
    <3>1. 0 \in Nat /\ pos + c \in Nat
      BY <1>1, <1>4
    <3> QED BY <1>1, <3>1, BytesJoin, Zenon
  <2> QED BY <1>5, <1>8, <2>1, Zenon DEF FileSoFar
<1>10. read_data(e.inode_index, e.file_position, Clamp(e, n))
          = [ret |-> c, buf |-> Bytes(i, pos, c)]
  BY <1>3, <1>7
<1>11. PICK r : r = read_data(e.inode_index, e.file_position, Clamp(e, n))
  OBVIOUS
<1>12. r.ret = c /\ r.buf = Bytes(i, pos, c)
  BY <1>10, <1>11
<1>13. (pos + r.ret) % WORD = pos + c
  BY <1>6, <1>12
<1>14. /\ r.buf \in Seq(Item) /\ r.ret \in Nat
       /\ (pos + r.ret) % WORD \in 0 .. WORD - 1
       /\ FileSoFar(i, (pos + r.ret) % WORD, data \o r.buf)
       /\ Len(r.buf) = 0 /\ n > 0 => pos = L
  BY <1>4, <1>5, <1>8, <1>9, <1>12, <1>13, Zenon
<1> QED BY <1>11, <1>14

\* What a read of the directory delivers is a name, nothing or garbage.
LEMMA ListedItems ==
    ASSUME NEW position \in Nat
    PROVE  Listed(position) \subseteq Item
<1> USE FilesAssumption
<1>1. CASE position >= MAX_NUM_DENTRIES
  BY <1>1 DEF Listed, Item
<1>2. CASE ~ (position >= MAX_NUM_DENTRIES) /\ Populated(position) = {}
  BY <1>2 DEF Listed, Item
<1>3. CASE ~ (position >= MAX_NUM_DENTRIES) /\ Populated(position) # {}
  <2>1. NextDentry(position) \in Dentry
    BY <1>3, NextDentryIs DEF Populated
  <2> QED BY <1>3, <2>1 DEF Listed, Item
<1> QED BY <1>1, <1>2, <1>3

\* A read of the directory delivers the next name, and nothing when all have been.
LEMMA DirStep ==
    ASSUME NEW position \in Nat, NEW data \in Seq(Item), NEW item \in Listed(position),
           LastUnused, DirSoFar(position, data)
    PROVE  /\ DirSoFar(IF position >= MAX_NUM_DENTRIES THEN position
                       ELSE NextPosition(position), Append(data, item))
           /\ Len(data) <= NAMES =>
                 IF item = EMPTY THEN Len(data) = NAMES ELSE Len(data) + 1 <= NAMES
<1> PICK M, more : M = MAX_NUM_DENTRIES /\ more = Append(data, item)
  BY Zenon
<1>1. /\ M \in Nat /\ NAMES \in Nat /\ Len(data) \in Nat
      /\ Len(more) = Len(data) + 1 /\ more[Len(data) + 1] = item
      /\ \A k \in 1 .. Len(data) : more[k] = data[k]
  <2>1. M \in Nat /\ NAMES \in Nat
    <3>1. WORD \in Nat /\ MAX_NUM_DENTRIES \in 0 .. WORD - 1
      BY FilesAssumption, Zenon
    <3>2. MAX_NUM_DENTRIES \in Nat
      BY <3>1
    <3> QED BY <3>2, RankType DEF NAMES
  <2>2. item \in Item
    BY ListedItems
  <2> QED BY <2>1, <2>2, LenProperties, AppendProperties
<1>2. CASE position = M /\ Len(data) > NAMES /\ data[NAMES + 1] = EMPTY
  <2>1. \A k \in 1 .. Len(more) : k <= NAMES => more[k] = DirectoryNames[k]
    BY <1>1, <1>2 DEF DirSoFar
  <2>2. Len(more) > NAMES /\ more[NAMES + 1] = EMPTY
    BY <1>1, <1>2
  <2> QED BY <1>1, <1>2, <2>1, <2>2 DEF DirSoFar
<1>3. CASE position < M /\ Len(data) = Rank(position) /\ Populated(position) = {}
  <2>1. Len(data) = NAMES
    BY <1>3, NextName DEF NAMES
  <2>2. item = EMPTY /\ NextPosition(position) = M
    BY <1>1, <1>3 DEF Listed, NextPosition
  <2>3. \A k \in 1 .. Len(more) : k <= NAMES => more[k] = DirectoryNames[k]
    BY <1>1, <2>1 DEF DirSoFar
  <2>4. DirSoFar(M, more)
    BY <1>1, <2>1, <2>2, <2>3 DEF DirSoFar
  <2> QED BY <1>1, <1>3, <2>1, <2>2, <2>4
<1>4. CASE position < M /\ Len(data) = Rank(position) /\ Populated(position) # {}
  <2> PICK d : d = NextDentry(position)
    OBVIOUS
  <2>1. /\ d \in Dentry /\ dentries[d].file_name # EMPTY
        /\ Rank(d + 1) = Len(data) + 1 /\ Len(data) + 1 <= NAMES
        /\ DirectoryNames[Len(data) + 1] = dentries[d].file_name
    BY <1>4, NextName DEF NAMES
  <2>2. item = dentries[d].file_name /\ NextPosition(position) = d + 1
    BY <1>1, <1>4 DEF Listed, NextPosition
  <2>3. d + 1 < M
    <3>1. d # M - 1
      BY <2>1 DEF LastUnused
    <3> QED BY <1>1, <2>1, <3>1 DEF Dentry
  <2>4. \A k \in 1 .. Len(more) : k <= NAMES => more[k] = DirectoryNames[k]
    BY <1>1, <2>1, <2>2 DEF DirSoFar
  <2>5. DirSoFar(d + 1, more)
    BY <1>1, <2>1, <2>3, <2>4 DEF DirSoFar
  <2> QED BY <1>1, <1>4, <2>1, <2>2, <2>5
<1> QED BY <1>2, <1>3, <1>4, Zenon DEF DirSoFar

-----------------------------------------------------------------------------
(***************************************************************************)
(* The descriptors, step by step.                                          *)
(***************************************************************************)
\* The running process is one of those in the chain.
LEMMA CurrentIs ==
    ASSUME TypeOK
    PROVE  /\ Len(chain) \in Nat \ {0} /\ \A k \in 1 .. Len(chain) : chain[k] \in Pid
           /\ current \in Live /\ current \in Pid /\ Live \subseteq Pid
<1>1. Len(chain) \in Nat \ {0} /\ \A k \in 1 .. Len(chain) : chain[k] \in Pid
  BY DEF TypeOK
<1> QED BY <1>1 DEF Live, current

\* A step that changes one descriptor of the running process and its history.
LEMMA OneDescriptor ==
    ASSUME FilesInv, NEW fd \in Fd \ {0, 1}, NEW e \in Descriptor, NEW h \in History,
           Described(e, h), SetEntry(fd, e), Record(fd, h), UNCHANGED chain
    PROVE  /\ FilesInv' /\ current' = current
           /\ \A f \in Fd : /\ entry(f)' = IF f = fd THEN e ELSE entry(f)
                            /\ opened'[current][f] = IF f = fd THEN h ELSE opened[current][f]
<1> PICK c : c = current
  OBVIOUS
<1>1. TypeOK /\ c \in Live /\ c \in Pid /\ Live \subseteq Pid
  BY CurrentIs DEF FilesInv
<1>2. /\ fd_array \in [Pid -> [Fd -> Descriptor]] /\ DOMAIN opened = Pid
      /\ opened[c] \in [Fd -> History]
  BY <1>1 DEF FilesInv, TypeOK, Descriptor
<1>3. current' = c /\ Live' = Live
  BY DEF current, Live
<1>4. fd_array' = [fd_array EXCEPT ![c] = [fd_array[c] EXCEPT ![fd] = e]]
  BY <1>1, <1>2 DEF SetEntry
<1>5. opened' = [opened EXCEPT ![c] = [opened[c] EXCEPT ![fd] = h]]
  BY <1>1, <1>2 DEF Record
<1>6. /\ fd_array' \in [Pid -> [Fd -> Descriptor]] /\ DOMAIN opened' = Pid
      /\ opened'[c] \in [Fd -> History]
  BY <1>1, <1>2, <1>4, <1>5
<1>7. /\ \A p \in Pid \ {c} : fd_array'[p] = fd_array[p] /\ opened'[p] = opened[p]
      /\ \A f \in Fd : /\ fd_array'[c][f] = IF f = fd THEN e ELSE fd_array[c][f]
                       /\ opened'[c][f] = IF f = fd THEN h ELSE opened[c][f]
  BY <1>1, <1>2, <1>4, <1>5
<1>8. TypeOK'
  BY <1>1, <1>6 DEF TypeOK, Descriptor
<1>9. StdioOpen'
  <2>1. 0 \in Fd /\ 1 \in Fd
    BY FilesAssumption DEF Fd
  <2>2. StdioOpen
    BY DEF FilesInv
  <2> QED BY <1>1, <1>3, <1>7, <2>1, <2>2 DEF StdioOpen
<1>10. ASSUME NEW p \in Live, NEW f \in Fd \ {0, 1}
       PROVE  opened'[p] \in [Fd -> History] /\ Described(fd_array'[p][f], opened'[p][f])
  <2>1. opened[p] \in [Fd -> History] /\ Described(fd_array[p][f], opened[p][f])
    BY DEF FilesInv
  <2> QED BY <1>1, <1>6, <1>7, <2>1
<1>11. FilesInv'
  <2>1. 2 \in Fd \ {0, 1}
    BY FilesAssumption DEF Fd
  <2> QED BY <1>3, <1>8, <1>9, <1>10, <2>1 DEF FilesInv
<1> QED BY <1>3, <1>7, <1>11 DEF entry

\* The descriptor that open makes, and its history.
Made(name) ==
    LET d == read_dentry_by_name(name)
    IN [ops |-> OpsOf[dentries[d].file_type],
        inode_index |-> IF dentries[d].file_type = FILE
                        THEN dentries[d].inode_index ELSE 0,
        file_position |-> 0,
        active |-> TRUE]
Unread(name) == [name |-> name, data |-> << >>]

\* It is bound to the file it names, and nothing of that has been read.
LEMMA MadeDescribed ==
    ASSUME NEW name \in Names, read_dentry_by_name(name) # -1
    PROVE  Made(name) \in Descriptor /\ Unread(name) \in History
           /\ Described(Made(name), Unread(name))
<1> PICK d : d = read_dentry_by_name(name)
  OBVIOUS
<1>1. d \in Dentry /\ name # EMPTY /\ dentries[d].file_name = name
  BY FoundByName
<1>2. dentries[d].file_type \in FileTypes /\ dentries[d].inode_index \in Inode
  BY <1>1, FilesAssumption
<1>3. name # NULL
  BY FilesAssumption, Zenon
<1>4. 0 \in Inode /\ 0 \in 0 .. WORD - 1 /\ 0 < MAX_NUM_DENTRIES
  BY <1>1, FilesAssumption DEF Dentry
<1> DEFINE e == Made(name)
           h == Unread(name)
<1>5. OpsOf[dentries[d].file_type] \in Ops
      /\ (OpsOf[dentries[d].file_type] = "file" <=> dentries[d].file_type = FILE)
  BY <1>2 DEF OpsOf, FileTypes, RTC, DIRECTORY, FILE, Ops
<1>6. /\ e.ops = OpsOf[dentries[d].file_type]
      /\ e.inode_index = IF dentries[d].file_type = FILE
                         THEN dentries[d].inode_index ELSE 0
      /\ e.file_position = 0 /\ e.active = TRUE
  BY DEF Made
<1>7. e \in Descriptor
  BY <1>2, <1>4, <1>5 DEF Made, Descriptor
<1>8. h.name = name /\ h.data = << >>
  BY DEF Unread
<1>9. h \in History
  <2>1. << >> \in Seq(Item)
    OBVIOUS
  <2> QED BY <2>1 DEF Unread, History
<1> HIDE DEF e, h
<1>10. e.inode_index \in Inode
  BY <1>2, <1>4, <1>6
<1>11. FileSoFar(e.inode_index, 0, << >>)
  <2>1. inodes[e.inode_index].length \in 0 .. WORD - 1 /\ WORD \in Nat
    BY <1>10, FilesAssumption
  <2>2. 0 <= inodes[e.inode_index].length
    BY <2>1
  <2>3. Bytes(e.inode_index, 0, 0) = << >>
    BY DEF Bytes
  <2> QED BY <2>2, <2>3 DEF FileSoFar
<1>12. DirSoFar(0, << >>)
  <2>1. Below(0) = {}
    BY DEF Below, Populated, Dentry
  <2>2. Rank(0) = 0
    BY <2>1, RankType, FS_EmptySet
  <2> QED BY <1>4, <2>2 DEF DirSoFar
<1>13. Described(e, h)
  <2>1. e.active <=> h.name # NULL
    BY <1>3, <1>6, <1>8
  <2>2. read_dentry_by_name(h.name) = d
    BY <1>8
  <2>3. d # -1 /\ e.ops = OpsOf[dentries[d].file_type]
        /\ (e.ops = "file" => e.inode_index = dentries[d].inode_index)
    BY <1>5, <1>6
  <2> QED BY <1>6, <1>8, <1>11, <1>12, <2>1, <2>2, <2>3 DEF Described
<1> QED BY <1>7, <1>9, <1>13 DEF e, h

\* open takes the first free descriptor from 2 on.
LEMMA OpenStep ==
    ASSUME FilesInv, NEW name \in Names, open(name)
    PROVE  /\ FilesInv' /\ current' = current
           /\ OpenReturns(name) \in Fd \ {0, 1} /\ ~ entry(OpenReturns(name)).active
           /\ \A f \in FreeFds : OpenReturns(name) <= f
           /\ \A f \in Fd :
                 /\ entry(f)' = IF f = OpenReturns(name) THEN Made(name) ELSE entry(f)
                 /\ opened'[current][f] = IF f = OpenReturns(name) THEN Unread(name)
                                          ELSE opened[current][f]
<1> PICK i : i = OpenReturns(name)
  OBVIOUS
<1>1. FreeFds # {} /\ read_dentry_by_name(name) # -1 /\ UNCHANGED chain
  BY DEF open, OpenReturns
<1>2. FreeFds \in SUBSET Nat
  BY DEF FreeFds, Fd
<1>3. \E m \in FreeFds : \A y \in FreeFds : m <= y
  BY <1>1, <1>2, Least
<1>4. i = CHOOSE f \in FreeFds : \A e \in FreeFds : f <= e
  BY <1>1 DEF OpenReturns
<1>5. i \in FreeFds /\ \A y \in FreeFds : i <= y
  BY <1>3, <1>4
<1>6. SetEntry(i, Made(name)) /\ Record(i, Unread(name))
  BY DEF open, Made, Unread
<1>7. /\ Made(name) \in Descriptor /\ Unread(name) \in History
      /\ Described(Made(name), Unread(name))
  BY <1>1, MadeDescribed
<1>8. i \in Fd \ {0, 1} /\ ~ entry(i).active
  BY <1>5 DEF FreeFds
<1>9. /\ FilesInv' /\ current' = current
      /\ \A f \in Fd : /\ entry(f)' = IF f = i THEN Made(name) ELSE entry(f)
                       /\ opened'[current][f] = IF f = i THEN Unread(name)
                                                ELSE opened[current][f]
  BY <1>1, <1>6, <1>7, <1>8, OneDescriptor
<1> QED BY <1>5, <1>8, <1>9

\* What is known of a descriptor of the running process.
LEMMA EntryIs ==
    ASSUME FilesInv, NEW fd \in Fd
    PROVE  /\ entry(fd) \in Descriptor /\ opened[current][fd] \in History
           /\ entry(fd).ops \in { "file", "dir" } => fd \in Fd \ {0, 1}
           /\ fd \in Fd \ {0, 1} => Described(entry(fd), opened[current][fd])
<1> PICK c : c = current
  OBVIOUS
<1>1. TypeOK /\ StdioOpen /\ c \in Live /\ c \in Pid
  BY CurrentIs DEF FilesInv
<1>2. fd_array \in [Pid -> [Fd -> Descriptor]] /\ opened[c] \in [Fd -> History]
  BY <1>1 DEF FilesInv, TypeOK, Descriptor
<1>3. entry(fd) = fd_array[c][fd]
  BY DEF entry
<1>4. fd_array[c][fd] \in Descriptor /\ opened[c][fd] \in History
  BY <1>1, <1>2
<1>5. fd_array[c][0].ops = "stdin" /\ fd_array[c][1].ops = "stdout"
  BY <1>1 DEF StdioOpen
<1>6. fd_array[c][fd].ops \in { "file", "dir" } => fd \in Fd \ {0, 1}
  BY <1>5
<1>7. fd \in Fd \ {0, 1} => Described(fd_array[c][fd], opened[c][fd])
  BY <1>1 DEF FilesInv
<1> QED BY <1>3, <1>4, <1>6, <1>7

\* close leaves the other descriptors as they are.
LEMMA CloseStep ==
    ASSUME FilesInv, NEW fd \in Fd, close(fd)
    PROVE  /\ FilesInv' /\ current' = current /\ fd \in Fd \ {0, 1}
           /\ ~ entry(fd)'.active /\ \A f \in Fd \ {fd} : entry(f)' = entry(f)
<1> PICK c, d : c = current /\ d = entry(fd)
  OBVIOUS
<1>1. d \in Descriptor /\ fd \in Fd \ {0, 1}
  BY EntryIs DEF close, Fd
<1>2. PICK e : e = [d EXCEPT !.active = FALSE]
  BY Zenon
<1>3. e \in Descriptor /\ e.active = FALSE
  BY <1>1, <1>2, Zenon DEF Descriptor
<1>4. Closed \in History /\ Closed.name = NULL
  <2>1. << >> \in Seq(Item)
    OBVIOUS
  <2> QED BY <2>1 DEF Closed, History
<1>5. Described(e, Closed)
  BY <1>3, <1>4 DEF Described
<1>6. SetEntry(fd, e) /\ Record(fd, Closed) /\ UNCHANGED chain
  BY <1>2 DEF close
<1>7. /\ FilesInv' /\ current' = current
      /\ \A f \in Fd : entry(f)' = IF f = fd THEN e ELSE entry(f)
  BY <1>1, <1>3, <1>4, <1>5, <1>6, OneDescriptor
<1> QED BY <1>1, <1>3, <1>7

\* A read of a file adds to its history what it delivers; nothing, only at the end.
LEMMA FileReadStep ==
    ASSUME FilesInv, NEW fd \in Fd, NEW n \in Nat, file_read(fd, n)
    PROVE  LET old == opened[current][fd]
               new == opened'[current][fd]
           IN /\ FilesInv' /\ current' = current /\ fd \in Fd \ {0, 1}
              /\ entry(fd)'.active /\ entry(fd)'.ops = "file"
              /\ new.name = old.name /\ Delivered(fd) \in Seq(Item)
              /\ new.data = old.data \o Delivered(fd)
              /\ Len(Delivered(fd)) = 0 /\ n > 0 =>
                    Len(old.data) = inodes[entry(fd).inode_index].length
<1> PICK c, e, h : c = current /\ e = entry(fd) /\ h = opened[c][fd]
  OBVIOUS
<1>1. e.active /\ e.ops = "file" /\ UNCHANGED chain
  BY DEF file_read
<1>2. e \in Descriptor /\ h \in History /\ fd \in Fd \ {0, 1} /\ Described(e, h)
  BY <1>1, EntryIs
<1>3. h.data \in Seq(Item) /\ FileSoFar(e.inode_index, e.file_position, h.data)
  BY <1>1, <1>2 DEF History, Described
<1>4. PICK r : r = read_data(e.inode_index, e.file_position, Clamp(e, n))
  OBVIOUS
<1>5. /\ r.buf \in Seq(Item)
      /\ (e.file_position + r.ret) % WORD \in 0 .. WORD - 1
      /\ FileSoFar(e.inode_index, (e.file_position + r.ret) % WORD, h.data \o r.buf)
      /\ Len(r.buf) = 0 /\ n > 0 => e.file_position = inodes[e.inode_index].length
  BY <1>2, <1>3, <1>4, FileStep, Zenon
<1>6. PICK d, g : /\ d = [e EXCEPT !.file_position = (e.file_position + r.ret) % WORD]
                  /\ g = [h EXCEPT !.data = h.data \o r.buf]
  BY Zenon
<1>7. SetEntry(fd, d) /\ Record(fd, g)
  BY <1>4, <1>6 DEF file_read
<1>8. /\ d \in Descriptor /\ d.active = e.active /\ d.ops = e.ops
      /\ d.inode_index = e.inode_index
      /\ d.file_position = (e.file_position + r.ret) % WORD
  BY <1>2, <1>5, <1>6 DEF Descriptor
<1>9. g \in History /\ g.name = h.name /\ g.data = h.data \o r.buf
  BY <1>2, <1>3, <1>5, <1>6, ConcatProperties, Zenon DEF History
<1>10. Described(d, g)
  BY <1>1, <1>2, <1>5, <1>8, <1>9, Zenon DEF Described
<1>11. /\ FilesInv' /\ current' = current
       /\ entry(fd)' = d /\ opened'[current][fd] = g
  BY <1>1, <1>2, <1>7, <1>8, <1>9, <1>10, OneDescriptor
<1>12. Delivered(fd) = r.buf
  <2>1. SubSeq(h.data \o r.buf, Len(h.data) + 1, Len(h.data \o r.buf)) = r.buf
    BY <1>3, <1>5, Behind, Zenon
  <2> QED BY <1>9, <1>11, <2>1, Zenon DEF Delivered
<1>13. e.file_position = Len(h.data)
  BY <1>3 DEF FileSoFar
<1> QED BY <1>1, <1>2, <1>5, <1>8, <1>9, <1>11, <1>12, <1>13, Zenon

\* A read of the directory adds one item to the history of the descriptor.
LEMMA DirReadStep ==
    ASSUME FilesInv, NEW fd \in Fd, dir_read(fd)
    PROVE  LET old == opened[current][fd]
               new == opened'[current][fd]
           IN /\ FilesInv' /\ current' = current /\ fd \in Fd \ {0, 1}
              /\ entry(fd)'.active /\ entry(fd)'.ops = "dir"
              /\ new.name = old.name
              /\ \E item \in Item :
                    /\ Delivered(fd) = <<item>> /\ new.data = Append(old.data, item)
                    /\ LastUnused /\ Len(old.data) <= NAMES =>
                          IF item = EMPTY THEN Len(old.data) = NAMES
                          ELSE Len(new.data) <= NAMES
<1> PICK c, e, h : c = current /\ e = entry(fd) /\ h = opened[c][fd]
  OBVIOUS
<1>1. e.active /\ e.ops = "dir" /\ UNCHANGED chain
  BY DEF dir_read
<1>2. e \in Descriptor /\ h \in History /\ fd \in Fd \ {0, 1} /\ Described(e, h)
  BY <1>1, EntryIs
<1>3. /\ h.data \in Seq(Item) /\ e.file_position \in 0 .. WORD - 1
      /\ e.file_position \in Nat /\ WORD \in Nat
      /\ LastUnused => DirSoFar(e.file_position, h.data)
  BY <1>1, <1>2, FilesAssumption DEF History, Described, Descriptor
<1>4. PICK item \in Listed(e.file_position) :
             Record(fd, [h EXCEPT !.data = Append(h.data, item)])
  BY Zenon DEF dir_read
<1>5. item \in Item
  BY <1>3, <1>4, ListedItems
<1>6. PICK position : position = IF e.file_position >= MAX_NUM_DENTRIES THEN e.file_position
                                 ELSE NextPosition(e.file_position)
  OBVIOUS
<1>7. position \in 0 .. WORD - 1
  <2>1. CASE e.file_position >= MAX_NUM_DENTRIES
    BY <1>3, <1>6, <2>1
  <2>2. CASE ~ (e.file_position >= MAX_NUM_DENTRIES) /\ Populated(e.file_position) = {}
    BY <1>6, <2>2, FilesAssumption DEF NextPosition
  <2>3. CASE ~ (e.file_position >= MAX_NUM_DENTRIES) /\ Populated(e.file_position) # {}
    <3>1. NextDentry(e.file_position) \in Dentry
      BY <2>3, NextDentryIs DEF Populated
    <3>2. position = NextDentry(e.file_position) + 1
      BY <1>6, <2>3 DEF NextPosition
    <3> QED BY <3>1, <3>2, FilesAssumption DEF Dentry
  <2> QED BY <2>1, <2>2, <2>3
<1>8. LastUnused =>
         /\ DirSoFar(position, Append(h.data, item))
         /\ Len(h.data) <= NAMES => IF item = EMPTY THEN Len(h.data) = NAMES
                                    ELSE Len(h.data) + 1 <= NAMES
  BY <1>3, <1>6, DirStep
<1>9. PICK d, g : /\ d = [e EXCEPT !.file_position = position]
                  /\ g = [h EXCEPT !.data = Append(h.data, item)]
  BY Zenon
<1>10. SetEntry(fd, d) /\ Record(fd, g)
  BY <1>4, <1>6, <1>9 DEF dir_read
<1>11. /\ d \in Descriptor /\ d.active = e.active /\ d.ops = e.ops
       /\ d.inode_index = e.inode_index /\ d.file_position = position
  BY <1>2, <1>7, <1>9 DEF Descriptor
<1>12. g \in History /\ g.name = h.name /\ g.data = Append(h.data, item)
  <2>1. Append(h.data, item) \in Seq(Item)
    BY <1>2, <1>3, <1>5, AppendProperties, Zenon DEF History
  <2> QED BY <1>2, <1>9, <2>1, Zenon DEF History
<1>13. Described(d, g)
  BY <1>1, <1>2, <1>8, <1>11, <1>12, Zenon DEF Described
<1>14. /\ FilesInv' /\ current' = current
       /\ entry(fd)' = d /\ opened'[current][fd] = g
  BY <1>1, <1>2, <1>10, <1>11, <1>12, <1>13, OneDescriptor, Zenon
<1>15. Append(h.data, item) = h.data \o <<item>> /\ <<item>> \in Seq(Item)
  <2>1. PICK s \in Seq(Item) : s = h.data
    BY <1>3
  <2>2. Append(s, item) = s \o <<item>>
    BY <1>5, AppendIsConcat
  <2> QED BY <1>5, <2>1, <2>2
<1>16. Delivered(fd) = <<item>>
  <2>1. SubSeq(h.data \o <<item>>, Len(h.data) + 1, Len(h.data \o <<item>>)) = <<item>>
    BY <1>3, <1>15, Behind, Zenon
  <2> QED BY <1>12, <1>14, <1>15, <2>1, Zenon DEF Delivered
<1>17. Len(g.data) = Len(h.data) + 1
  BY <1>3, <1>5, <1>12, AppendProperties
<1> QED BY <1>1, <1>2, <1>5, <1>8, <1>11, <1>12, <1>14, <1>16, <1>17, Zenon

\* The history of a process that has opened nothing.
LEMMA Nothing ==
    NothingOpened \in [Fd -> History] /\ \A fd \in Fd : NothingOpened[fd].name = NULL
<1>1. << >> \in Seq(Item)
  OBVIOUS
<1> QED BY <1>1 DEF NothingOpened, Closed, History

\* A table of descriptors as a new program finds it.
LEMMA Filled ==
    ASSUME NEW T \in [Fd -> Descriptor]
    PROVE  \E F \in [Fd -> Descriptor] :
              /\ F = FillDescriptors(T)
              /\ F[0].active /\ F[0].ops = "stdin" /\ F[1].active /\ F[1].ops = "stdout"
              /\ \A fd \in Fd \ {0, 1} : ~ F[fd].active /\ Described(F[fd], NothingOpened[fd])
<1> DEFINE F == FillDescriptors(T)
<1>1. 0 \in Fd /\ 1 \in Fd
  BY FilesAssumption DEF Fd
<1>2. ASSUME NEW fd \in Fd
      PROVE  F[fd] \in Descriptor
  BY Zenon DEF FillDescriptors, Descriptor, Ops
<1>3. F = [fd \in Fd |-> F[fd]]
  BY DEF FillDescriptors
<1>4. F \in [Fd -> Descriptor]
  BY <1>2, <1>3
<1>5. /\ F[0] = [T[0] EXCEPT !.ops = "stdin", !.active = TRUE]
      /\ F[1] = [T[1] EXCEPT !.ops = "stdout", !.active = TRUE]
  BY <1>1 DEF FillDescriptors
<1>6. T[0] \in Descriptor /\ T[1] \in Descriptor
  BY <1>1
<1> HIDE DEF F
<1>7. F[0].active /\ F[0].ops = "stdin"
  BY <1>5, <1>6 DEF Descriptor
<1>8. F[1].active /\ F[1].ops = "stdout"
  BY <1>5, <1>6 DEF Descriptor
<1>9. \A fd \in Fd \ {0, 1} : ~ F[fd].active
  BY DEF F, FillDescriptors, Descriptor
<1>10. \A fd \in Fd \ {0, 1} : Described(F[fd], NothingOpened[fd])
  BY <1>9, Nothing DEF Described
<1>11. F = FillDescriptors(T)
  BY DEF F
<1> QED BY <1>4, <1>7, <1>8, <1>9, <1>10, <1>11

\* The program execute starts has stdin, stdout and no other descriptor, whatever its
\* PCB held before.
LEMMA ExecuteStep ==
    ASSUME FilesInv, execute
    PROVE  FilesInv' /\ OpenFds' = {}
<1>1. PICK p : p = CHOOSE q \in FreePids : \A r \in FreePids : q <= r
  OBVIOUS
<1>2. /\ FreePids # {} /\ chain' = Append(chain, p)
      /\ fd_array' = [fd_array EXCEPT ![p] = FillDescriptors(@)]
      /\ opened' = [opened EXCEPT ![p] = NothingOpened]
  BY <1>1 DEF execute
<1>3. p \in Pid /\ p \notin Live
  <2>1. FreePids \in SUBSET Nat
    BY DEF FreePids, Pid
  <2>2. \E m \in FreePids : \A y \in FreePids : m <= y
    BY <1>2, <2>1, Least
  <2>3. p \in FreePids
    BY <1>1, <2>2
  <2> QED BY <2>3 DEF FreePids, Live
<1>4. TypeOK /\ StdioOpen
  BY DEF FilesInv
<1>5. PICK n : n = Len(chain)
  BY Zenon
<1>6. /\ n \in Nat \ {0} /\ Len(chain') = n + 1 /\ chain' \in Seq(Pid)
      /\ chain'[n + 1] = p /\ \A k \in 1 .. n : chain'[k] = chain[k]
  BY <1>2, <1>3, <1>4, <1>5, CurrentIs, AppendProperties DEF TypeOK
<1>7. current' = p
  BY <1>6 DEF current
<1>8. Live' = Live \cup {p}
  BY <1>5, <1>6 DEF Live
<1>9. IsInjective(chain') /\ chain' # << >> /\ chain'[1] = 0
  <2>1. IsInjective(chain) /\ chain[1] = 0 /\ DOMAIN chain = 1 .. n
    BY <1>4, <1>5 DEF TypeOK
  <2>2. DOMAIN chain' = 1 .. n + 1
    BY <1>6
  <2>3. \A k \in 1 .. n : chain[k] # p
    BY <1>3, <1>5 DEF Live
  <2>4. ASSUME NEW a \in 1 .. n + 1, NEW b \in 1 .. n + 1, chain'[a] = chain'[b]
        PROVE  a = b
    <3>1. CASE a \in 1 .. n /\ b \in 1 .. n
      BY <1>6, <2>1, <2>4, <3>1 DEF IsInjective
    <3>2. CASE a = n + 1 \/ b = n + 1
      BY <1>6, <2>3, <2>4, <3>2
    <3> QED BY <1>6, <3>1, <3>2
  <2>5. IsInjective(chain')
    BY <2>2, <2>4 DEF IsInjective
  <2> QED BY <1>6, <2>1, <2>5
<1> DEFINE T == fd_array[p]
           F == FillDescriptors(T)
<1>10. fd_array \in [Pid -> [Fd -> Descriptor]] /\ T \in [Fd -> Descriptor]
       /\ DOMAIN opened = Pid
  BY <1>3, <1>4 DEF TypeOK, Descriptor
<1>12. /\ F \in [Fd -> Descriptor]
       /\ F[0].active /\ F[0].ops = "stdin" /\ F[1].active /\ F[1].ops = "stdout"
       /\ \A fd \in Fd \ {0, 1} : ~ F[fd].active /\ Described(F[fd], NothingOpened[fd])
  BY <1>10, Filled
<1>13. /\ fd_array' = [fd_array EXCEPT ![p] = F]
       /\ fd_array'[p] = F /\ opened'[p] = NothingOpened
       /\ \A q \in Pid \ {p} : fd_array'[q] = fd_array[q] /\ opened'[q] = opened[q]
  BY <1>2, <1>3, <1>10
<1> HIDE DEF F
<1>14. fd_array' \in [Pid -> [Fd -> Descriptor]] /\ DOMAIN opened' = Pid
  BY <1>2, <1>10, <1>12, <1>13, Zenon
<1>15. TypeOK'
  BY <1>6, <1>9, <1>14 DEF TypeOK, Descriptor
<1>16. StdioOpen'
  BY <1>3, <1>4, <1>8, <1>12, <1>13 DEF StdioOpen
<1>17. NothingOpened \in [Fd -> History]
  BY Nothing
<1>18. ASSUME NEW q \in Live', NEW fd \in Fd \ {0, 1}
       PROVE  opened'[q] \in [Fd -> History] /\ Described(fd_array'[q][fd], opened'[q][fd])
  <2>1. CASE q = p
    BY <1>12, <1>13, <1>17, <2>1
  <2>2. CASE q # p
    <3>1. q \in Live /\ q \in Pid \ {p}
      BY <1>4, <1>8, <2>2, CurrentIs
    <3>2. opened[q] \in [Fd -> History] /\ Described(fd_array[q][fd], opened[q][fd])
      BY <3>1 DEF FilesInv
    <3> QED BY <1>13, <3>1, <3>2
  <2> QED BY <2>1, <2>2
<1>19. FilesInv'
  <2>1. 2 \in Fd \ {0, 1}
    BY FilesAssumption DEF Fd
  <2> QED BY <1>15, <1>16, <1>18, <2>1 DEF FilesInv
<1>20. OpenFds' = {}
  BY <1>7, <1>12, <1>13 DEF OpenFds, entry
<1> QED BY <1>19, <1>20

\* halt closes every descriptor of its process and leaves the others alone.
LEMMA HaltStep ==
    ASSUME FilesInv, halt
    PROVE  FilesInv'
<1> PICK c, n : c = current /\ n = Len(chain)
  BY Zenon
<1>1. TypeOK /\ StdioOpen /\ c \in Live /\ c \in Pid /\ n \in Nat /\ Live \subseteq Pid
  BY CurrentIs DEF FilesInv
<1>2. /\ n > 1 /\ chain' = SubSeq(chain, 1, n - 1)
      /\ fd_array' = [fd_array EXCEPT ![c] = CloseAll(@)]
      /\ opened' = [opened EXCEPT ![c] = NothingOpened]
  BY DEF halt
<1>3. /\ chain \in Seq(Pid) /\ DOMAIN chain = 1 .. n /\ c = chain[n]
      /\ IsInjective(chain) /\ chain[1] = 0
  BY <1>1 DEF TypeOK, current
<1>4. /\ chain' \in Seq(Pid) /\ Len(chain') = n - 1
      /\ \A k \in 1 .. n - 1 : chain'[k] = chain[k]
  BY <1>1, <1>2, <1>3
<1>5. IsInjective(chain') /\ chain' # << >> /\ chain'[1] = 0
  <2>1. DOMAIN chain' = 1 .. n - 1
    BY <1>4
  <2>2. \A a \in 1 .. n - 1 : a \in 1 .. n
    BY <1>1
  <2>3. IsInjective(chain')
    BY <1>3, <1>4, <2>1, <2>2 DEF IsInjective
  <2>4. n - 1 > 0 /\ 1 \in 1 .. n - 1
    BY <1>1, <1>2
  <2>5. chain' # << >>
    BY <1>4, <2>4, EmptySeq
  <2> QED BY <1>3, <1>4, <2>3, <2>4, <2>5
<1>6. c \notin Live' /\ Live' \subseteq Live /\ Live \subseteq Live' \cup {c}
  <2>1. Live = { chain[k] : k \in 1 .. n } /\ Live' = { chain[k] : k \in 1 .. n - 1 }
    BY <1>4, SMTT(20) DEF Live
  <2>2. \A k \in 1 .. n - 1 : k \in 1 .. n /\ chain[k] # c
    BY <1>1, <1>2, <1>3 DEF IsInjective
  <2>3. \A k \in 1 .. n : k = n \/ k \in 1 .. n - 1
    BY <1>1
  <2> QED BY <1>3, <2>1, <2>2, <2>3
<1> DEFINE T == fd_array[c]
           F == CloseAll(T)
<1>7. fd_array \in [Pid -> [Fd -> Descriptor]] /\ T \in [Fd -> Descriptor]
      /\ DOMAIN opened = Pid
  BY <1>1 DEF TypeOK, Descriptor
<1>8. F \in [Fd -> Descriptor] /\ \A fd \in Fd : ~ F[fd].active
  <2> HIDE DEF T
  <2>1. \A fd \in Fd : F[fd] \in Descriptor /\ ~ F[fd].active
    BY <1>7, Zenon DEF CloseAll, Descriptor
  <2>2. F = [fd \in Fd |-> F[fd]]
    BY DEF CloseAll
  <2> QED BY <2>1, <2>2
<1>9. /\ fd_array' = [fd_array EXCEPT ![c] = F] /\ fd_array'[c] = F
      /\ \A q \in Pid \ {c} : fd_array'[q] = fd_array[q] /\ opened'[q] = opened[q]
  BY <1>1, <1>2, <1>7
<1> HIDE DEF F
<1>10. fd_array' \in [Pid -> [Fd -> Descriptor]] /\ DOMAIN opened' = Pid
  BY <1>2, <1>7, <1>8, <1>9, Zenon
<1>11. TypeOK'
  BY <1>4, <1>5, <1>10 DEF TypeOK, Descriptor
<1>12. StdioOpen'
  <2> SUFFICES ASSUME NEW p \in Pid
               PROVE  /\ p \in Live' => /\ fd_array'[p][0].active
                                        /\ fd_array'[p][0].ops = "stdin"
                                        /\ fd_array'[p][1].active
                                        /\ fd_array'[p][1].ops = "stdout"
                      /\ p \notin Live' /\ opened'[p] # NULL
                            => \A fd \in Fd : ~ fd_array'[p][fd].active
    BY DEF StdioOpen
  <2>1. CASE p = c
    BY <1>6, <1>8, <1>9, <2>1
  <2>2. CASE p # c
    BY <1>1, <1>6, <1>9, <2>2 DEF StdioOpen
  <2> QED BY <2>1, <2>2
<1>13. ASSUME NEW q \in Live', NEW fd \in Fd \ {0, 1}
       PROVE  opened'[q] \in [Fd -> History] /\ Described(fd_array'[q][fd], opened'[q][fd])
  <2>1. q \in Live /\ q \in Pid \ {c}
    BY <1>1, <1>6
  <2>2. opened[q] \in [Fd -> History] /\ Described(fd_array[q][fd], opened[q][fd])
    BY <2>1 DEF FilesInv
  <2> QED BY <1>9, <2>1, <2>2
<1>14. 2 \in Fd \ {0, 1}
  BY FilesAssumption, SMTT(20) DEF Fd
<1> QED BY <1>11, <1>12, <1>13, <1>14 DEF FilesInv

-----------------------------------------------------------------------------
(***************************************************************************)
(* Every call, and the invariant.                                          *)
(***************************************************************************)
\* A step that makes no call.
LEMMA SameFiles ==
    ASSUME FilesInv, UNCHANGED vars
    PROVE  /\ FilesInv' /\ current' = current /\ OpenFds' = OpenFds
           /\ opened' = opened /\ \A fd : entry(fd)' = entry(fd)
<1>1. chain' = chain /\ fd_array' = fd_array /\ opened' = opened
  BY DEF vars
<1> QED BY <1>1 DEF FilesInv, TypeOK, StdioOpen, Live, current, entry, OpenFds

\* A descriptor is never the mark for "not opened yet".
LEMMA FdNotNull == \A i \in Fd : i # NULL
<1>1. NULL \notin Int /\ FD_ARRAY_LEN \in Nat
  BY FilesAssumption, Zenon
<1>2. Fd \subseteq Int
  BY <1>1 DEF Fd
<1> QED BY <1>1, <1>2, Zenon

\* Any call of open, close or read, with any argument.
LEMMA CallStep ==
    ASSUME FilesInv, SomeCall
    PROVE  FilesInv'
<1>1. ASSUME NEW name \in Names, open(name)
      PROVE  FilesInv'
  BY <1>1, OpenStep
<1>2. ASSUME NEW fd \in Fd, close(fd)
      PROVE  FilesInv'
  BY <1>2, CloseStep
<1>3. ASSUME NEW fd \in Fd, dir_read(fd)
      PROVE  FilesInv'
  BY <1>3, DirReadStep
<1>4. ASSUME NEW fd \in Fd, NEW n \in Counts, file_read(fd, n)
      PROVE  FilesInv'
  <2>1. n \in Nat
    BY <1>4, FilesAssumption
  <2> QED BY <1>4, <2>1, FileReadStep
<1> QED BY <1>1, <1>2, <1>3, <1>4 DEF SomeCall

\* At the beginning the only process has stdin, stdout and nothing else.
LEMMA FilesBeginning ==
    ASSUME Init
    PROVE  FilesInv
<1>1. PICK junk \in [1 .. MAX_NUM_PROCESSES - 1 -> BOOLEAN] :
         fd_array = [p \in Pid |->
             IF p = 0 THEN FillDescriptors([fd \in Fd |-> Unused])
             ELSE [fd \in Fd |-> [Unused EXCEPT !.active = junk[p]]]]
  BY Zenon DEF Init
<1>2. /\ chain = <<0>> /\ opened = [p \in Pid |-> IF p = 0 THEN NothingOpened ELSE NULL]
  BY DEF Init
<1>3. 0 \in Pid /\ Live = {0}
  BY <1>2, FilesAssumption DEF Live, Pid
<1>4. Unused \in Descriptor /\ ~ Unused.active
  BY FilesAssumption DEF Unused, Descriptor
<1>5. \A p \in Pid \ {0} : [fd \in Fd |-> [Unused EXCEPT !.active = junk[p]]] \in [Fd -> Descriptor]
  <2>1. \A p \in Pid \ {0} : junk[p] \in BOOLEAN
    BY <1>1, FilesAssumption DEF Pid
  <2> QED BY <1>4, <2>1 DEF Descriptor
<1>6. PICK T, F : /\ T \in [Fd -> Descriptor] /\ T = [fd \in Fd |-> Unused]
                  /\ F = FillDescriptors(T)
  <2>1. [fd \in Fd |-> Unused] \in [Fd -> Descriptor]
    BY <1>4
  <2> QED BY <2>1, Zenon
<1>7. /\ F \in [Fd -> Descriptor]
      /\ F[0].active /\ F[0].ops = "stdin" /\ F[1].active /\ F[1].ops = "stdout"
      /\ \A fd \in Fd \ {0, 1} : Described(F[fd], NothingOpened[fd])
  BY <1>6, Filled
<1>8. /\ fd_array[0] = F /\ opened[0] = NothingOpened
      /\ \A p \in Pid \ {0} : opened[p] = NULL
      /\ fd_array \in [Pid -> [Fd -> Descriptor]]
  BY <1>1, <1>2, <1>3, <1>5, <1>6, <1>7
<1>9. TypeOK
  <2>1. chain \in Seq(Pid) /\ chain # << >> /\ chain[1] = 0
    BY <1>2, <1>3
  <2>2. IsInjective(chain)
    BY <1>2 DEF IsInjective
  <2> QED BY <1>2, <1>8, <2>1, <2>2 DEF TypeOK, Descriptor
<1>10. StdioOpen
  BY <1>3, <1>7, <1>8 DEF StdioOpen
<1> QED BY <1>3, <1>7, <1>8, <1>9, <1>10, Nothing DEF FilesInv

\* The invariant holds whatever calls the processes make.
THEOREM FilesInvariant == Spec => []FilesInv
<1>1. Init => FilesInv
  BY FilesBeginning
<1>2. FilesInv /\ [Next]_vars => FilesInv'
  BY CallStep, ExecuteStep, HaltStep, SameFiles DEF Next
<1> QED BY <1>1, <1>2, PTL DEF Spec

-----------------------------------------------------------------------------
(***************************************************************************)
(* The properties.                                                         *)
(***************************************************************************)
\* An open descriptor of a running process other than stdin and stdout.
LEMMA OpenOne ==
    ASSUME FilesInv, NEW p \in Live, NEW fd \in Fd, NEW e, e = fd_array[p][fd],
           NEW h, h = opened[p][fd], e.active, e.ops \in { "file", "dir" }
    PROVE  fd \in Fd \ {0, 1} /\ h \in History /\ Described(e, h)
<1>1. p \in Pid
  BY CurrentIs DEF FilesInv
<1>2. fd_array[p][0].ops = "stdin" /\ fd_array[p][1].ops = "stdout"
  BY <1>1 DEF FilesInv, StdioOpen
<1>3. fd \in Fd \ {0, 1}
  BY <1>2
<1>4. opened[p] \in [Fd -> History] /\ Described(fd_array[p][fd], opened[p][fd])
  BY <1>3 DEF FilesInv
<1> QED BY <1>3, <1>4

\* The descriptors of a running process are those it opened itself.
LEMMA Own ==
    ASSUME FilesInv
    PROVE  OwnDescriptors
<1>1. TypeOK /\ StdioOpen
  BY DEF FilesInv
<1>2. ASSUME NEW p \in Live, NEW fd \in Fd \ {0, 1}, NEW e, NEW h,
             e = fd_array[p][fd], h = opened[p][fd]
      PROVE  /\ e.active <=> h.name # NULL
             /\ e.active => \E d \in Dentry :
                   /\ dentries[d].file_name = h.name /\ h.name # EMPTY
                   /\ e.ops = OpsOf[dentries[d].file_type]
                   /\ e.ops = "file" => e.inode_index = dentries[d].inode_index
  <2>1. Described(e, h)
    BY <1>2 DEF FilesInv
  <2>2. e.active <=> h.name # NULL
    BY <2>1 DEF Described
  <2>3. ASSUME e.active
        PROVE  \E d \in Dentry :
                   /\ dentries[d].file_name = h.name /\ h.name # EMPTY
                   /\ e.ops = OpsOf[dentries[d].file_type]
                   /\ e.ops = "file" => e.inode_index = dentries[d].inode_index
    <3> PICK d : d = read_dentry_by_name(h.name)
      OBVIOUS
    <3>1. /\ d # -1 /\ e.ops = OpsOf[dentries[d].file_type]
          /\ e.ops = "file" => e.inode_index = dentries[d].inode_index
      BY <2>1, <2>3 DEF Described
    <3>2. d \in Dentry /\ dentries[d].file_name = h.name /\ h.name # EMPTY
      BY <3>1, FoundByName
    <3> QED BY <3>1, <3>2
  <2> QED BY <2>2, <2>3
<1> QED BY <1>1, <1>2 DEF OwnDescriptors

\* Successive reads of a file deliver its bytes in order, and the position counts them
\* (fs.c:94-131, 185-200).
LEMMA FileReads == FilesInv => ReadsConsecutive
<1>1. SUFFICES ASSUME FilesInv, NEW p \in Live, NEW fd \in Fd, NEW e, NEW data,
                      e = fd_array[p][fd], data = opened[p][fd].data,
                      e.active, e.ops = "file"
               PROVE  /\ e.file_position = Len(data)
                      /\ Len(data) <= inodes[e.inode_index].length
                      /\ \A k \in 1 .. Len(data) : data[k] = Byte(e.inode_index, k - 1)
  BY <1>1 DEF ReadsConsecutive, Reading
<1> PICK h, i : h = opened[p][fd] /\ i = e.inode_index
  OBVIOUS
<1>2. Described(e, h)
  BY <1>1, OpenOne
<1>3. FileSoFar(i, e.file_position, data)
  BY <1>1, <1>2, Zenon DEF Described
<1>4. \A k \in 1 .. Len(data) : data[k] = Byte(i, k - 1)
  <2>1. data = Bytes(i, 0, Len(data))
    BY <1>3 DEF FileSoFar
  <2>2. ASSUME NEW k \in 1 .. Len(data)
        PROVE  Bytes(i, 0, Len(data))[k] = Byte(i, k - 1)
    <3>1. 0 + k - 1 = k - 1
      OBVIOUS
    <3> QED BY <3>1 DEF Bytes
  <2> QED BY <2>1, <2>2
<1> QED BY <1>3, <1>4, SMTT(20) DEF FileSoFar

\* Successive reads of the directory name every populated dentry once and in order, and
\* then read 0 bytes (fs.c:215-233).
LEMMA DirectoryReads ==
    ASSUME LastUnused
    PROVE  FilesInv => ListsInOrder
<1>1. SUFFICES ASSUME FilesInv, NEW p \in Live, NEW fd \in Fd, NEW e, NEW data,
                      e = fd_array[p][fd], data = opened[p][fd].data,
                      e.active, e.ops = "dir",
                      NEW k \in 1 .. Len(data), k <= Len(Listing)
               PROVE  data[k] = Listing[k]
  BY <1>1 DEF ListsInOrder, Reading
<1> PICK h : h = opened[p][fd]
  OBVIOUS
<1>2. h \in History /\ Described(e, h)
  BY <1>1, OpenOne, SMTT(20)
<1>3. data \in Seq(Item) /\ DirSoFar(e.file_position, data)
  BY <1>1, <1>2 DEF Described, History
<1>4. PICK n : n = NAMES
  OBVIOUS
<1>5. n \in Nat
  BY <1>4, RankType DEF NAMES
<1>6. /\ Len(Listing) = n + 1 /\ Listing[n + 1] = EMPTY
      /\ \A j \in 1 .. n : Listing[j] = DirectoryNames[j]
  BY <1>4, <1>5, SMTT(20) DEF Listing, DirectoryNames, NAMES
<1>7. CASE k <= n
  BY <1>1, <1>3, <1>4, <1>5, <1>6, <1>7 DEF DirSoFar
<1>8. CASE k = n + 1
  <2>1. ~ (e.file_position < MAX_NUM_DENTRIES /\ Len(data) = Rank(e.file_position))
    <3>1. PICK r : r = Rank(e.file_position)
      OBVIOUS
    <3>2. r \in Nat /\ r <= n
      BY <1>4, <3>1, RankType DEF NAMES
    <3> QED BY <1>1, <1>3, <1>5, <1>8, <3>1, <3>2
  <2> QED BY <1>3, <1>4, <1>6, <1>8, <2>1 DEF DirSoFar
<1> QED BY <1>1, <1>5, <1>6, <1>7, <1>8

\* Whatever calls processes make, in whatever order and under whatever PIDs, the
\* descriptors of each are those it opened itself (syscall.c:114-122, 251-261, 399-475).
THEOREM AnyCallsKeepDescriptors == Spec => []OwnDescriptors
<1>1. FilesInv => OwnDescriptors
  BY Own
<1> QED BY <1>1, FilesInvariant, PTL

\* And what its reads deliver is what is there, in its order, if the last dentry is
\* unused (fs.c:94-131, 185-233).
THEOREM AnyCallsReadInOrder ==
    ASSUME LastUnused
    PROVE  Spec => []ReadsInOrder
<1>1. FilesInv => ReadsInOrder
  BY FileReads, DirectoryReads DEF ReadsInOrder
<1> QED BY <1>1, FilesInvariant, PTL
=============================================================================
