---------------------------- MODULE FilesProofs ----------------------------
(***************************************************************************)
(* Proofs about descriptors and the loop of read_data, for every size of   *)
(* blocks and words, every well-formed image and every sequence of calls.  *)
(***************************************************************************)
EXTENDS Files, SequenceTheorems, TLAPS

(* The byte at offset k of the blocks of inode i, and their room.           *)
ByteAt(i, k) == <<Blocks[i][(k \div FOUR_KB) + 1], k % FOUR_KB>>
Room(i) == Len(Blocks[i]) * FOUR_KB

(* The values of a descriptor.                                              *)
Descriptor == [table : {CLOSED, RTC, DIR, FILE}, inode : Nat, file_position : 0 .. WORD - 1]

(* A descriptor of a file has delivered the bytes up to its position, one   *)
(* of the directory the entries.                                            *)
FileInv(f) ==
    fdt[f].table = FILE =>
        /\ fdt[f].inode \in Inodes
        /\ fdt[f].file_position <= Size[fdt[f].inode]
        /\ Len(got[f]) = fdt[f].file_position
        /\ \A k \in 1 .. Len(got[f]) : got[f][k] = ByteAt(fdt[f].inode, k - 1)
DirInv(f) ==
    fdt[f].table = DIR =>
        /\ fdt[f].file_position <= Len(Dentries)
        /\ listed[f] = [d \in 1 .. fdt[f].file_position |-> d]

(* The loop of read_data on inode i from position pos: what is in the       *)
(* buffer are the bytes from pos to cur, block is the block of cur as long  *)
(* as there is something to read, and only a loop that has left its end     *)
(* behind, because offset + length wrapped, goes astray.  A count that is   *)
(* not negative does not wrap.                                              *)
LoopInv(i, pos) ==
    /\ rd.cur = pos + Len(buf)
    /\ rd.cur <= Room(i)
    /\ \A k \in 1 .. Len(buf) : buf[k] = ByteAt(i, pos + k - 1)
    /\ rd.cur # rd.end => rd.block = rd.cur \div FOUR_KB
    /\ rd.end <= Size[i]
    /\ astray => rd.end < rd.cur
    /\ Sensible(rd.count) =>
          /\ rd.cur <= rd.end
          /\ rd.end = IF pos + rd.count > Size[i] THEN Size[i] ELSE pos + rd.count
ReadInv ==
    /\ astray => Reading
    /\ Reading => /\ rd.fd \in Fds
                  /\ fdt[rd.fd].table = FILE
                  /\ LoopInv(fdt[rd.fd].inode, fdt[rd.fd].file_position)

FilesInv == TypeOK /\ ReadInv /\ \A f \in Fds : FileInv(f) /\ DirInv(f)

-----------------------------------------------------------------------------
(* Quotient and remainder are determined by the division equation.          *)
LEMMA DivMod ==
    ASSUME NEW a \in Int, NEW d \in Nat \ {0}
    PROVE  /\ a \div d \in Int /\ a % d \in 0 .. d - 1
           /\ a = d * (a \div d) + (a % d)
OBVIOUS

(* Division with remainder of a natural number.                             *)
LEMMA DivModNat ==
    ASSUME NEW a \in Nat, NEW d \in Nat \ {0}
    PROVE  /\ a \div d \in Nat /\ a % d \in 0 .. d - 1
           /\ a = d * (a \div d) + (a % d)
OBVIOUS

(* Quotient and remainder are unique.                                       *)
LEMMA DivModUnique ==
    ASSUME NEW d \in Nat \ {0}, NEW q \in Int, NEW r \in 0 .. d - 1
    PROVE  /\ (d * q + r) \div d = q
           /\ (d * q + r) % d = r
<1> DEFINE a == d * q + r
<1>1. a \in Int
  OBVIOUS
<1>2. /\ a \div d \in Int /\ a % d \in 0 .. d - 1
      /\ a = d * (a \div d) + (a % d)
  BY <1>1, DivMod
<1>3. a \div d = q
  <2> DEFINE p == a \div d
  <2> DEFINE s == a % d
  <2>1. d * p + s = d * q + r /\ p \in Int /\ s \in 0 .. d - 1
    BY <1>2
  <2> HIDE DEF p, s
  <2>2. ~(p < q)
    <3> SUFFICES ASSUME p + 1 <= q PROVE FALSE
      BY <2>1
    <3>1. d * (p + 1) <= d * q
      BY <2>1
    <3> QED
      BY <2>1, <3>1
  <2>3. ~(q < p)
    <3> SUFFICES ASSUME q + 1 <= p PROVE FALSE
      BY <2>1
    <3>1. d * (q + 1) <= d * p
      BY <2>1
    <3> QED
      BY <2>1, <3>1
  <2>4. p = q
    BY <2>1, <2>2, <2>3
  <2> QED
    BY <2>4 DEF p
<1> QED
  BY <1>2, <1>3

(* Bytes up to the end of the block of c lie in that block; the next byte   *)
(* begins the next block.                                                   *)
LEMMA WithinBlock ==
    ASSUME NEW c \in Nat, NEW d \in Nat \ {0}, NEW k \in Nat, (c % d) + k < d
    PROVE  (c + k) \div d = c \div d /\ (c + k) % d = (c % d) + k
<1> DEFINE q == c \div d
<1> DEFINE r == c % d
<1>1. q \in Nat /\ r \in 0 .. d - 1 /\ c = d * q + r
  BY DivModNat
<1>2. c + k = d * q + (r + k) /\ r + k \in 0 .. d - 1 /\ q \in Int
  BY <1>1
<1> HIDE DEF q, r
<1>3. (d * q + (r + k)) \div d = q /\ (d * q + (r + k)) % d = r + k
  BY <1>2, DivModUnique
<1> QED
  BY <1>2, <1>3 DEF q, r

(* The bytes left in a block of a position lead to the beginning of the
   next block.                                                              *)
LEMMA NextBlockBegins ==
    ASSUME NEW c \in Nat, NEW d \in Nat \ {0}
    PROVE  /\ c + (d - (c % d)) = d * ((c \div d) + 1)
           /\ (c + (d - (c % d))) \div d = (c \div d) + 1
<1> DEFINE q == c \div d
<1> DEFINE r == c % d
<1>1. q \in Nat /\ r \in 0 .. d - 1 /\ c = d * q + r
  BY DivModNat
<1>2. c + (d - r) = d * (q + 1)
  BY <1>1
<1>3. c + (d - r) = d * (q + 1) + 0 /\ 0 \in 0 .. d - 1 /\ q + 1 \in Nat
  BY <1>1, <1>2
<1>4. (d * (q + 1) + 0) \div d = q + 1
  BY <1>3, DivModUnique
<1> QED
  BY <1>2, <1>3, <1>4

(* A byte before the end of n blocks is in one of them, and then so is the  *)
(* rest of its block.                                                       *)
LEMMA BlockCount ==
    ASSUME NEW c \in Nat, NEW d \in Nat \ {0}, NEW n \in Nat
    PROVE  /\ c < n * d => c \div d < n
           /\ c \div d < n => c + (d - (c % d)) <= n * d
<1> DEFINE q == c \div d
<1> DEFINE r == c % d
<1>1. q \in Nat /\ r \in 0 .. d - 1 /\ c = d * q + r
  BY DivModNat
<1>2. ASSUME n <= q PROVE n * d <= c
  <2>1. n * d <= q * d
    BY <1>1, <1>2
  <2> QED
    BY <1>1, <2>1
<1>3. ASSUME q + 1 <= n PROVE d * (q + 1) <= n * d
  BY <1>1, <1>3
<1> QED
  BY <1>1, <1>2, <1>3, NextBlockBegins

-----------------------------------------------------------------------------
(* What the assumptions say of one inode: its size and its blocks are below *)
(* the sign bit of a word.                                                  *)
LEMMA InodeFacts ==
    ASSUME NEW i \in Inodes
    PROVE  /\ Size[i] \in Nat /\ Blocks[i] \in Seq(Nat) /\ Len(Blocks[i]) \in Nat
           /\ Room(i) \in Nat /\ Size[i] <= Room(i)
           /\ 2 * Room(i) < WORD
<1>1. Size[i] \in Nat /\ Blocks[i] \in Seq(Nat) /\ Len(Blocks[i]) \in Nat
  BY ImageAssumption DEF Inodes
<1>2. Len(Blocks[i]) * FOUR_KB \in Nat
  BY <1>1, FilesAssumption
<1>3. WORD = 2 * (WORD \div 2)
  BY FilesAssumption
<1> QED
  BY <1>1, <1>2, <1>3, ImageAssumption, FilesAssumption DEF Room

(* Bytes of the blocks have the type of bytes.                              *)
LEMMA ByteTyped ==
    ASSUME NEW i \in Inodes, NEW k \in Nat, k < Room(i)
    PROVE  ByteAt(i, k) \in Byte
<1>1. (k \div FOUR_KB) + 1 \in 1 .. Len(Blocks[i])
  <2>1. k \div FOUR_KB \in Nat
    BY DivModNat, FilesAssumption
  <2>2. Len(Blocks[i]) \in Nat
    BY InodeFacts
  <2>3. k \div FOUR_KB < Len(Blocks[i])
    BY <2>2, BlockCount, FilesAssumption DEF Room
  <2> QED
    BY <2>1, <2>2, <2>3
<1>2. Blocks[i][(k \div FOUR_KB) + 1] \in Nat
  BY <1>1, InodeFacts, ElementOfSeq
<1>3. k % FOUR_KB \in 0 .. FOUR_KB - 1
  BY DivMod, FilesAssumption
<1> QED
  BY <1>2, <1>3 DEF ByteAt, Byte

(* The first state: nothing is open.                                        *)
LEMMA InitInv == Init => FilesInv
<1> SUFFICES ASSUME Init PROVE FilesInv
  OBVIOUS
<1>1. TypeOK
  BY FilesAssumption DEF Init, TypeOK, Idle, CLOSED, Fds
<1>2. ReadInv
  BY DEF Init, ReadInv, Reading
<1>3. ASSUME NEW f \in Fds PROVE FileInv(f) /\ DirInv(f)
  BY DEF Init, FileInv, DirInv, CLOSED, FILE, DIR
<1> QED
  BY <1>1, <1>2, <1>3 DEF FilesInv

(* open begins a descriptor at position 0 with nothing delivered.           *)
LEMMA OpenInv == ASSUME NEW name \in Names, FilesInv, open(name) PROVE FilesInv'
<1>1. PICK d \in find_dentry(name), f \in Fds :
        /\ ~Reading
        /\ Dentries[d].file_type \in {RTC, DIR, FILE}
        /\ fdt' = [fdt EXCEPT ![f] =
             [table |-> Dentries[d].file_type,
              inode |-> IF Dentries[d].file_type = FILE THEN Dentries[d].inode_num ELSE 0,
              file_position |-> 0]]
        /\ got' = [got EXCEPT ![f] = << >>]
        /\ listed' = [listed EXCEPT ![f] = << >>]
        /\ UNCHANGED <<rd, buf, astray>>
  BY DEF open
<1>2. d \in 1 .. Len(Dentries)
  BY DEF find_dentry
<1> DEFINE type == Dentries[d].file_type
<1> DEFINE inode == IF type = FILE THEN Dentries[d].inode_num ELSE 0
<1>3. inode \in Nat /\ (type = FILE => inode \in Inodes)
  BY <1>2, ImageAssumption
<1> HIDE DEF type, inode
<1>4. /\ type \in {RTC, DIR, FILE}
      /\ fdt' = [fdt EXCEPT ![f] = [table |-> type, inode |-> inode, file_position |-> 0]]
  BY <1>1 DEF type, inode
<1>5. TypeOK'
  <2>1. [table |-> type, inode |-> inode, file_position |-> 0] \in Descriptor
    BY <1>3, <1>4, FilesAssumption DEF Descriptor
  <2>2. fdt' \in [Fds -> Descriptor]
    BY <2>1, <1>4 DEF FilesInv, TypeOK, Descriptor
  <2>3. got' \in [Fds -> Seq(Byte)] /\ listed' \in [Fds -> Seq(1 .. Len(Dentries))]
    BY <1>1 DEF FilesInv, TypeOK
  <2> QED
    BY <2>2, <2>3, <1>1 DEF FilesInv, TypeOK, Descriptor
<1>6. ReadInv'
  BY <1>1 DEF FilesInv, ReadInv, Reading
<1>7. ASSUME NEW g \in Fds PROVE FileInv(g)' /\ DirInv(g)'
  <2>1. CASE g = f
    <3>1. /\ fdt'[g] = [table |-> type, inode |-> inode, file_position |-> 0]
          /\ got'[g] = << >> /\ listed'[g] = << >>
      BY <2>1, <1>1, <1>4 DEF FilesInv, TypeOK
    <3>2. Size[inode] \in Nat \/ type # FILE
      BY <1>3, InodeFacts
    <3>3. FileInv(g)'
      BY <3>1, <3>2, <1>3 DEF FileInv
    <3>4. DirInv(g)'
      BY <3>1, ImageAssumption DEF DirInv
    <3> QED
      BY <3>3, <3>4
  <2>2. CASE g # f
    <3>1. fdt'[g] = fdt[g] /\ got'[g] = got[g] /\ listed'[g] = listed[g]
      BY <2>2, <1>1 DEF FilesInv, TypeOK
    <3> QED
      BY <3>1 DEF FilesInv, FileInv, DirInv
  <2> QED
    BY <2>1, <2>2
<1> QED
  BY <1>5, <1>6, <1>7 DEF FilesInv

(* close, halt and an exception leave descriptors that say nothing.         *)
LEMMA CloseInv == ASSUME NEW f \in Fds, FilesInv, close(f) PROVE FilesInv'
<1> USE DEF FilesInv, close, history
<1>1. TypeOK'
  BY DEF TypeOK
<1>2. ReadInv'
  BY DEF ReadInv, Reading
<1>3. ASSUME NEW g \in Fds PROVE FileInv(g)' /\ DirInv(g)'
  BY DEF TypeOK, FileInv, DirInv, CLOSED, FILE, DIR
<1> QED
  BY <1>1, <1>2, <1>3

(* halt closes every descriptor, in the middle of a read too.               *)
LEMMA HaltInv == FilesInv /\ halt => FilesInv'
<1> SUFFICES ASSUME FilesInv, halt PROVE FilesInv'
  OBVIOUS
<1> USE DEF FilesInv, halt, history
<1>1. TypeOK'
  <2>1. ASSUME NEW g \in Fds PROVE [fdt[g] EXCEPT !.table = CLOSED] \in Descriptor
    BY DEF TypeOK, Descriptor
  <2>2. fdt' \in [Fds -> Descriptor]
    BY <2>1
  <2>3. rd' \in [fd : Fds \cup {0}, count : 0 .. WORD - 1, cur : 0 .. WORD - 1,
                 end : 0 .. WORD - 1, block : Nat]
    BY FilesAssumption DEF Idle
  <2>4. buf' \in Seq(Byte)
    BY EmptySeq
  <2>5. got' \in [Fds -> Seq(Byte)] /\ listed' \in [Fds -> Seq(1 .. Len(Dentries))]
        /\ astray' \in BOOLEAN
    BY DEF TypeOK
  <2> HIDE DEF FilesInv, halt
  <2> QED
    BY <2>2, <2>3, <2>4, <2>5 DEF TypeOK, Descriptor
<1>2. ReadInv'
  BY DEF ReadInv, Reading
<1>3. ASSUME NEW g \in Fds PROVE FileInv(g)' /\ DirInv(g)'
  BY DEF TypeOK, FileInv, DirInv, CLOSED, FILE, DIR
<1> QED
  BY <1>1, <1>2, <1>3

(* dir_read lists the entry at its position and moves on.                   *)
LEMMA DirReadInv == ASSUME NEW f \in Fds, FilesInv, dir_read(f) PROVE FilesInv'
<1> DEFINE pos == fdt[f].file_position
<1>1. /\ pos \in Nat /\ pos + 1 \in 1 .. Len(Dentries)
      /\ pos + 1 \in 0 .. WORD - 1
      /\ listed[f] = [d \in 1 .. pos |-> d]
      /\ Len(Dentries) \in Nat
  <2>1. fdt[f].table = DIR /\ pos < Len(Dentries)
    BY DEF dir_read, Dispatched
  <2>2. listed[f] = [d \in 1 .. pos |-> d]
    BY <2>1 DEF FilesInv, DirInv
  <2>3. pos \in 0 .. WORD - 1
    BY DEF FilesInv, TypeOK
  <2>4. Len(Dentries) \in Nat /\ Len(Dentries) < WORD
    BY ImageAssumption
  <2> QED
    BY <2>1, <2>2, <2>3, <2>4, FilesAssumption
<1>2. /\ fdt' = [fdt EXCEPT ![f].file_position = pos + 1]
      /\ listed' = [listed EXCEPT ![f] = Append(@, pos + 1)]
      /\ fdt[f].table = DIR
      /\ UNCHANGED <<rd, buf, got, astray>> /\ ~Reading
  BY DEF dir_read, Dispatched, EntryAt
<1>3. Append([d \in 1 .. pos |-> d], pos + 1) = [d \in 1 .. pos + 1 |-> d]
  BY <1>1
<1> HIDE DEF pos
<1>4. TypeOK'
  <2>1. fdt \in [Fds -> Descriptor] /\ listed \in [Fds -> Seq(1 .. Len(Dentries))]
    BY DEF FilesInv, TypeOK, Descriptor
  <2>2. [fdt[f] EXCEPT !.file_position = pos + 1] \in Descriptor
    BY <2>1, <1>1 DEF Descriptor
  <2>3. fdt' \in [Fds -> Descriptor]
    BY <2>1, <2>2, <1>2
  <2>4. Append(listed[f], pos + 1) \in Seq(1 .. Len(Dentries))
    BY <2>1, <1>1, AppendProperties
  <2>5. listed' \in [Fds -> Seq(1 .. Len(Dentries))]
    BY <2>1, <2>4, <1>2
  <2> QED
    BY <2>3, <2>5, <1>2 DEF FilesInv, TypeOK, Descriptor
<1>5. ReadInv'
  BY <1>2 DEF FilesInv, ReadInv, Reading
<1>6. ASSUME NEW g \in Fds PROVE FileInv(g)' /\ DirInv(g)'
  <2>1. CASE g = f
    <3>1. /\ fdt'[g].table = DIR /\ fdt'[g].file_position = pos + 1
          /\ listed'[g] = [d \in 1 .. pos + 1 |-> d]
      BY <2>1, <1>1, <1>2, <1>3 DEF FilesInv, TypeOK
    <3> QED
      BY <3>1, <1>1 DEF FileInv, DirInv, FILE, DIR
  <2>2. CASE g # f
    <3>1. fdt'[g] = fdt[g] /\ got'[g] = got[g] /\ listed'[g] = listed[g]
      BY <2>2, <1>2 DEF FilesInv, TypeOK
    <3> QED
      BY <3>1 DEF FilesInv, FileInv, DirInv
  <2> QED
    BY <2>1, <2>2
<1> QED
  BY <1>4, <1>5, <1>6 DEF FilesInv

(* Arithmetic of words: a sum or difference that leaves the range comes     *)
(* back by WORD.                                                            *)
LEMMA WordMod ==
    ASSUME NEW a \in Int
    PROVE  /\ a \in 0 .. WORD - 1 => a % WORD = a
           /\ a \in WORD .. 2 * WORD - 1 => a % WORD = a - WORD
           /\ a \in -WORD .. -1 => a % WORD = a + WORD
<1> USE FilesAssumption
<1>1. ASSUME a \in 0 .. WORD - 1 PROVE a % WORD = a
  <2>1. (WORD * 0 + a) % WORD = a
    BY <1>1, DivModUnique
  <2> QED
    BY <2>1
<1>2. ASSUME a \in WORD .. 2 * WORD - 1 PROVE a % WORD = a - WORD
  <2>1. (WORD * 1 + (a - WORD)) % WORD = a - WORD
    BY <1>2, DivModUnique
  <2> QED
    BY <2>1
<1>3. ASSUME a \in -WORD .. -1 PROVE a % WORD = a + WORD
  <2>1. -1 \in Int /\ a + WORD \in 0 .. WORD - 1
    BY <1>3
  <2>2. (WORD * (-1) + (a + WORD)) % WORD = a + WORD
    BY <2>1, DivModUnique
  <2>3. WORD * (-1) + (a + WORD) = a
    OBVIOUS
  <2> QED
    BY <2>2, <2>3
<1> QED
  BY <1>1, <1>2, <1>3

(* A count that is not negative as a signed word is below half the words.   *)
LEMMA SensibleMeans == ASSUME NEW n \in Nat, Sensible(n) PROVE 2 * n < WORD
BY FilesAssumption DEF Sensible

(* What file_read hands to the loop.                                        *)
LEMMA EndFacts ==
    ASSUME NEW i \in Inodes, NEW pos \in Nat, pos <= Size[i], NEW n \in 0 .. WORD - 1
    PROVE  /\ EndOf(i, pos, n) \in 0 .. WORD - 1
           /\ EndOf(i, pos, n) <= Size[i]
           /\ Sensible(n) =>
                 EndOf(i, pos, n) = IF pos + n > Size[i] THEN Size[i] ELSE pos + n
<1> DEFINE e == (pos + n) % WORD
<1>1. Size[i] \in Nat /\ 2 * Size[i] < WORD
  BY InodeFacts, FilesAssumption
<1>2. pos + n \in 0 .. 2 * WORD - 1
  BY <1>1, FilesAssumption
<1>3. /\ pos + n < WORD => e = pos + n
      /\ pos + n >= WORD => e = pos + n - WORD
  BY <1>2, WordMod, FilesAssumption
<1>4. Sensible(n) => pos + n < WORD
  BY <1>1, SensibleMeans, FilesAssumption
<1>5. e \in 0 .. WORD - 1
  BY <1>2, <1>3, FilesAssumption
<1>6. EndOf(i, pos, n) = IF e > Size[i] THEN Size[i] ELSE e
  BY <1>1 DEF EndOf
<1> HIDE DEF e
<1> QED
  BY <1>1, <1>3, <1>4, <1>5, <1>6, FilesAssumption

(* file_read starts the loop at the position of the descriptor.             *)
LEMMA FileReadInv ==
    ASSUME NEW f \in Fds, NEW n \in Counts, FilesInv, file_read(f, n)
    PROVE  FilesInv'
<1> DEFINE i == fdt[f].inode
<1> DEFINE pos == fdt[f].file_position
<1> DEFINE e == EndOf(i, pos, n)
<1>1. /\ ~Reading /\ fdt[f].table = FILE
      /\ rd' = [fd |-> f, count |-> n, cur |-> pos, end |-> e, block |-> pos \div FOUR_KB]
      /\ buf' = << >>
      /\ UNCHANGED <<fdt, got, listed, astray>>
  BY DEF file_read, Dispatched, history
<1>2. /\ i \in Inodes /\ pos \in 0 .. WORD - 1 /\ pos <= Size[i]
      /\ n \in 0 .. WORD - 1
  BY <1>1, FilesAssumption DEF FilesInv, TypeOK, FileInv
<1>3. /\ e \in 0 .. WORD - 1 /\ e <= Size[i]
      /\ Sensible(n) => e = IF pos + n > Size[i] THEN Size[i] ELSE pos + n
  BY <1>2, EndFacts
<1>4. pos \div FOUR_KB \in Nat
  BY <1>2, DivModNat, FilesAssumption
<1>5. TypeOK'
  <2>1. rd' \in [fd : Fds \cup {0}, count : 0 .. WORD - 1, cur : 0 .. WORD - 1,
                 end : 0 .. WORD - 1, block : Nat]
    BY <1>1, <1>2, <1>3, <1>4
  <2>2. buf' \in Seq(Byte)
    BY <1>1, EmptySeq
  <2> QED
    BY <2>1, <2>2, <1>1 DEF FilesInv, TypeOK
<1>6. ReadInv'
  <2>1. rd'.fd = f /\ rd'.count = n /\ rd'.cur = pos /\ rd'.end = e
        /\ rd'.block = pos \div FOUR_KB /\ Len(buf') = 0
    BY <1>1
  <2>2. ~astray'
    BY <1>1 DEF FilesInv, ReadInv
  <2>3. Size[i] \in Nat /\ Size[i] <= Room(i) /\ Room(i) \in Nat
    BY <1>2, InodeFacts
  <2>4. i' = i /\ pos' = pos
    BY <1>1
  <2> HIDE DEF i, pos, e
  <2>5. LoopInv(i, pos)'
    BY <2>1, <2>2, <2>3, <2>4, <1>1, <1>2, <1>3 DEF LoopInv
  <2>6. fdt'[rd'.fd].table = FILE /\ LoopInv(fdt[rd.fd].inode, fdt[rd.fd].file_position)'
    BY <2>1, <2>5, <1>1 DEF i, pos
  <2> QED
    BY <2>1, <2>2, <2>6 DEF ReadInv
<1>7. ASSUME NEW g \in Fds PROVE FileInv(g)' /\ DirInv(g)'
  BY <1>1 DEF FilesInv, FileInv, DirInv
<1> QED
  BY <1>5, <1>6, <1>7 DEF FilesInv

(* One round of the loop, in numbers: the bytes copied are in the block of  *)
(* cur, and either the end is reached or the next round begins a block.     *)
LEMMA RoundFacts ==
    ASSUME NEW i \in Inodes, NEW cur \in Nat, NEW end \in Nat, cur # end,
           end <= Size[i], cur \div FOUR_KB < Len(Blocks[i])
    PROVE  /\ CopyLength(cur, end) \in Nat /\ CopyLength(cur, end) >= 1
           /\ cur + CopyLength(cur, end) <= Room(i)
           /\ (cur % FOUR_KB) + CopyLength(cur, end) <= FOUR_KB
           /\ cur < end => cur + CopyLength(cur, end) <= end
           /\ cur + CopyLength(cur, end) # end =>
                 (cur + CopyLength(cur, end)) \div FOUR_KB = (cur \div FOUR_KB) + 1
<1> DEFINE left == (end - cur) % WORD
<1> DEFINE mod == cur % FOUR_KB
<1> DEFINE room == FOUR_KB - mod
<1> DEFINE n == CopyLength(cur, end)
<1>1. /\ Size[i] \in Nat /\ Size[i] <= Room(i) /\ Room(i) \in Nat /\ 2 * Room(i) < WORD
      /\ Len(Blocks[i]) \in Nat
  BY InodeFacts
<1>2. FOUR_KB \in Nat \ {0} /\ WORD \in Nat \ {0}
  BY FilesAssumption
<1>3. mod \in 0 .. FOUR_KB - 1
  BY <1>2, DivModNat
<1>4. cur + room <= Room(i)
  BY <1>1, <1>2, BlockCount DEF Room
<1>5. (cur + room) \div FOUR_KB = (cur \div FOUR_KB) + 1
  BY <1>2, NextBlockBegins
<1>6. n = IF room > left THEN left ELSE room
  BY DEF CopyLength
<1> HIDE DEF mod
<1>7. room \in Nat /\ room >= 1 /\ mod + room = FOUR_KB
  BY <1>2, <1>3
<1> HIDE DEF room
<1>8. cur < end => left = end - cur
  <2> SUFFICES ASSUME cur < end PROVE left = end - cur
    OBVIOUS
  <2>1. end - cur \in 0 .. WORD - 1
    BY <1>1, <1>2
  <2> QED
    BY <2>1, WordMod
<1>9. end < cur => left = end - cur + WORD
  <2> SUFFICES ASSUME end < cur PROVE left = end - cur + WORD
    OBVIOUS
  <2>1. end - cur \in -WORD .. -1
    BY <1>1, <1>2, <1>4, <1>7
  <2> QED
    BY <2>1, WordMod
<1> HIDE DEF left, n
<1>10. CASE cur < end
  <2>1. n \in Nat /\ n >= 1 /\ n <= room /\ cur + n <= end
    BY <1>10, <1>6, <1>7, <1>8
  <2>2. cur + n # end => n = room
    BY <1>10, <1>6, <1>8
  <2>3. mod + n <= FOUR_KB /\ cur + n <= Room(i)
    BY <2>1, <1>1, <1>2, <1>3, <1>4, <1>7
  <2>4. cur + n # end => (cur + n) \div FOUR_KB = (cur \div FOUR_KB) + 1
    BY <2>2, <1>5
  <2> QED
    BY <2>1, <2>3, <2>4 DEF n, mod
<1>11. CASE end < cur
  <2>1. n = room
    BY <1>11, <1>1, <1>2, <1>4, <1>6, <1>7, <1>9
  <2> QED
    BY <2>1, <1>11, <1>1, <1>2, <1>3, <1>4, <1>5, <1>7 DEF n, mod
<1> QED
  BY <1>10, <1>11

(* The n bytes that a round at cur copies.                                  *)
Piece(i, cur, n) == [k \in 1 .. n |-> <<Blocks[i][(cur \div FOUR_KB) + 1],
                                        (cur % FOUR_KB) + k - 1>>]

(* The bytes a round copies are those of the file at these offsets.         *)
LEMMA PieceFacts ==
    ASSUME NEW i \in Inodes, NEW cur \in Nat, NEW n \in Nat,
           (cur % FOUR_KB) + n <= FOUR_KB, cur + n <= Room(i)
    PROVE  /\ Piece(i, cur, n) \in Seq(Byte) /\ Len(Piece(i, cur, n)) = n
           /\ \A k \in 1 .. n : Piece(i, cur, n)[k] = ByteAt(i, cur + k - 1)
<1> DEFINE piece == Piece(i, cur, n)
<1>1. FOUR_KB \in Nat \ {0} /\ Room(i) \in Nat
  BY FilesAssumption, InodeFacts
<1>2. cur % FOUR_KB \in 0 .. FOUR_KB - 1
  BY <1>1, DivModNat
<1>3. ASSUME NEW k \in 1 .. n
      PROVE  piece[k] = ByteAt(i, cur + k - 1) /\ piece[k] \in Byte
  <2>1. k - 1 \in Nat /\ (cur % FOUR_KB) + (k - 1) < FOUR_KB
    BY <1>1, <1>2
  <2>2. /\ (cur + (k - 1)) \div FOUR_KB = cur \div FOUR_KB
        /\ (cur + (k - 1)) % FOUR_KB = (cur % FOUR_KB) + (k - 1)
    BY <2>1, <1>1, WithinBlock
  <2>3. cur + (k - 1) = cur + k - 1 /\ (cur % FOUR_KB) + (k - 1) = (cur % FOUR_KB) + k - 1
    BY <1>2
  <2>4. piece[k] = <<Blocks[i][(cur \div FOUR_KB) + 1], (cur % FOUR_KB) + k - 1>>
    BY DEF Piece
  <2>5. piece[k] = ByteAt(i, cur + k - 1)
    BY <2>2, <2>3, <2>4 DEF ByteAt
  <2>6. cur + k - 1 \in Nat /\ cur + k - 1 < Room(i)
    BY <1>1
  <2>7. ByteAt(i, cur + k - 1) \in Byte
    BY <2>6, ByteTyped
  <2> QED
    BY <2>5, <2>7
<1>4. piece \in [1 .. n -> Byte]
  BY <1>3 DEF Piece
<1>5. piece \in Seq(Byte) /\ Len(piece) = n
  BY <1>4
<1> QED
  BY <1>3, <1>5

(* Bytes of a file followed by the next bytes of it.                        *)
LEMMA Joined ==
    ASSUME NEW i, NEW pos \in Nat, NEW s \in Seq(Byte), NEW t \in Seq(Byte),
           \A k \in 1 .. Len(s) : s[k] = ByteAt(i, pos + k - 1),
           \A k \in 1 .. Len(t) : t[k] = ByteAt(i, pos + Len(s) + k - 1)
    PROVE  /\ s \o t \in Seq(Byte) /\ Len(s \o t) = Len(s) + Len(t)
           /\ \A k \in 1 .. Len(s \o t) : (s \o t)[k] = ByteAt(i, pos + k - 1)
<1>1. /\ s \o t \in Seq(Byte) /\ Len(s \o t) = Len(s) + Len(t)
      /\ Len(s) \in Nat /\ Len(t) \in Nat
      /\ \A k \in 1 .. Len(s) + Len(t) :
            (s \o t)[k] = IF k <= Len(s) THEN s[k] ELSE t[k - Len(s)]
  BY ConcatProperties, LenProperties
<1>2. ASSUME NEW k \in 1 .. Len(s) + Len(t) PROVE (s \o t)[k] = ByteAt(i, pos + k - 1)
  <2>1. CASE k <= Len(s)
    BY <2>1, <1>1
  <2>2. CASE k > Len(s)
    <3>1. k - Len(s) \in 1 .. Len(t)
      BY <2>2, <1>1
    <3>2. pos + Len(s) + (k - Len(s)) - 1 = pos + k - 1
      BY <1>1
    <3>3. t[k - Len(s)] = ByteAt(i, pos + Len(s) + (k - Len(s)) - 1)
      BY <3>1
    <3>4. (s \o t)[k] = t[k - Len(s)]
      BY <2>2, <1>1
    <3> QED
      BY <3>2, <3>3, <3>4
  <2> QED
    BY <2>1, <2>2, <1>1
<1> QED
  BY <1>1, <1>2

(* What is common to the steps of a read in progress.                       *)
LEMMA ReadingFacts ==
    ASSUME FilesInv, Reading, NEW i, NEW pos,
           i = fdt[rd.fd].inode, pos = fdt[rd.fd].file_position
    PROVE  /\ rd.fd \in Fds /\ fdt[rd.fd].table = FILE
           /\ i \in Inodes /\ pos \in Nat /\ pos <= Size[i]
           /\ rd.cur \in Nat /\ rd.end \in Nat /\ rd.cur < WORD /\ rd.end < WORD
           /\ buf \in Seq(Byte) /\ Len(buf) \in Nat
           /\ LoopInv(i, pos)
           /\ Size[i] \in Nat /\ Size[i] <= Room(i) /\ Room(i) \in Nat
           /\ 2 * Room(i) < WORD /\ Len(Blocks[i]) \in Nat /\ WORD \in Nat
<1>1. /\ rd.fd \in Fds /\ fdt[rd.fd].table = FILE /\ LoopInv(i, pos)
  BY DEF FilesInv, ReadInv
<1>2. i \in Inodes /\ pos <= Size[i]
  BY <1>1 DEF FilesInv, FileInv
<1>3. pos \in Nat /\ rd.cur \in 0 .. WORD - 1 /\ rd.end \in 0 .. WORD - 1 /\ buf \in Seq(Byte)
  BY <1>1 DEF FilesInv, TypeOK
<1> QED
  BY <1>1, <1>2, <1>3, InodeFacts, FilesAssumption

(* One round of the loop of read_data.                                      *)
LEMMA CopyBlockInv == FilesInv /\ CopyBlock => FilesInv'
<1> SUFFICES ASSUME FilesInv, CopyBlock PROVE FilesInv'
  OBVIOUS
<1>1. PICK i, pos, n, piece :
        /\ i = fdt[rd.fd].inode /\ pos = fdt[rd.fd].file_position
        /\ n = CopyLength(rd.cur, rd.end)
        /\ piece = [k \in 1 .. n |-> <<Blocks[i][rd.block + 1], (rd.cur % FOUR_KB) + k - 1>>]
  OBVIOUS
<1>2. /\ Reading /\ ~astray /\ rd.cur # rd.end
      /\ UNCHANGED <<fdt, got, listed>>
  BY DEF CopyBlock, history
<1>3. /\ rd.fd \in Fds /\ fdt[rd.fd].table = FILE
      /\ i \in Inodes /\ pos \in Nat /\ pos <= Size[i]
      /\ rd.cur \in Nat /\ rd.end \in Nat /\ rd.cur < WORD /\ rd.end < WORD
      /\ buf \in Seq(Byte) /\ Len(buf) \in Nat
      /\ LoopInv(i, pos)
      /\ Size[i] \in Nat /\ Size[i] <= Room(i) /\ Room(i) \in Nat
      /\ 2 * Room(i) < WORD /\ Len(Blocks[i]) \in Nat /\ WORD \in Nat
  BY <1>1, <1>2, ReadingFacts
<1>4. rd.block = rd.cur \div FOUR_KB /\ rd.end <= Size[i] /\ rd.cur <= Room(i)
      /\ rd.cur = pos + Len(buf)
  BY <1>2, <1>3 DEF LoopInv
<1>5. ASSUME NEW g \in Fds PROVE FileInv(g)' /\ DirInv(g)'
  BY <1>2 DEF FilesInv, FileInv, DirInv
<1>6. CASE rd.block < Len(Blocks[i])
  <2>1. /\ buf' = buf \o piece
        /\ rd' = [rd EXCEPT !.cur = (@ + n) % WORD, !.block = @ + 1]
        /\ ~astray'
    BY <1>6, <1>1, <1>2 DEF CopyBlock, NextBlock
  <2>2. /\ n \in Nat
        /\ rd.cur + n <= Room(i)
        /\ (rd.cur % FOUR_KB) + n <= FOUR_KB
        /\ rd.cur < rd.end => rd.cur + n <= rd.end
        /\ rd.cur + n # rd.end => (rd.cur + n) \div FOUR_KB = rd.block + 1
    <3>1. PICK cur, end : cur = rd.cur /\ end = rd.end
      OBVIOUS
    <3>2. /\ cur \in Nat /\ end \in Nat /\ cur # end /\ end <= Size[i]
          /\ cur \div FOUR_KB < Len(Blocks[i])
      BY <3>1, <1>2, <1>3, <1>4, <1>6
    <3>3. n = CopyLength(cur, end)
      BY <3>1, <1>1
    <3>4. /\ n \in Nat
          /\ cur + n <= Room(i)
          /\ (cur % FOUR_KB) + n <= FOUR_KB
          /\ cur < end => cur + n <= end
          /\ cur + n # end => (cur + n) \div FOUR_KB = (cur \div FOUR_KB) + 1
      BY <3>2, <3>3, <1>3, RoundFacts
    <3> QED
      BY <3>1, <3>4, <1>4
  <2>3. rd.cur + n \in 0 .. WORD - 1 /\ (rd.cur + n) % WORD = rd.cur + n
    <3>1. rd.cur + n \in Int /\ rd.cur + n \in 0 .. WORD - 1
      BY <2>2, <1>3
    <3> QED
      BY <3>1, WordMod
  <2>4. /\ piece \in Seq(Byte) /\ Len(piece) = n
        /\ \A k \in 1 .. n : piece[k] = ByteAt(i, rd.cur + k - 1)
    <3>1. PICK cur : cur = rd.cur
      OBVIOUS
    <3>2. /\ cur \in Nat /\ (cur % FOUR_KB) + n <= FOUR_KB /\ cur + n <= Room(i)
          /\ piece = Piece(i, cur, n)
      BY <3>1, <2>2, <1>1, <1>3, <1>4 DEF Piece
    <3>3. /\ piece \in Seq(Byte) /\ Len(piece) = n
          /\ \A k \in 1 .. n : piece[k] = ByteAt(i, cur + k - 1)
      <4>1. i \in Inodes /\ n \in Nat
        BY <2>2, <1>3
      <4> QED
        BY <4>1, <3>2, PieceFacts
    <3> QED
      BY <3>1, <3>3
  <2>5. rd \in [fd : Fds \cup {0}, count : 0 .. WORD - 1, cur : 0 .. WORD - 1,
                end : 0 .. WORD - 1, block : Nat]
    BY DEF FilesInv, TypeOK
  <2>6. /\ rd'.cur = rd.cur + n /\ rd'.block = rd.block + 1
        /\ rd'.end = rd.end /\ rd'.fd = rd.fd /\ rd'.count = rd.count
        /\ rd' \in [fd : Fds \cup {0}, count : 0 .. WORD - 1, cur : 0 .. WORD - 1,
                    end : 0 .. WORD - 1, block : Nat]
    <3>1. rd' = [rd EXCEPT !.cur = rd.cur + n, !.block = rd.block + 1]
      BY <2>1, <2>3, <2>5
    <3>2. rd' = [fd |-> rd.fd, count |-> rd.count, cur |-> rd.cur + n, end |-> rd.end,
                 block |-> rd.block + 1]
      BY <3>1, <2>5
    <3>3. /\ rd.fd \in Fds \cup {0} /\ rd.count \in 0 .. WORD - 1
          /\ rd.end \in 0 .. WORD - 1 /\ rd.block + 1 \in Nat
      BY <2>5
    <3> QED
      BY <3>2, <3>3, <2>3
  <2>7. \A k \in 1 .. Len(buf) : buf[k] = ByteAt(i, pos + k - 1)
    BY <1>3 DEF LoopInv
  <2>8. /\ buf' \in Seq(Byte) /\ Len(buf') = Len(buf) + n
        /\ \A k \in 1 .. Len(buf') : buf'[k] = ByteAt(i, pos + k - 1)
    <3>1. \A k \in 1 .. Len(piece) : piece[k] = ByteAt(i, pos + Len(buf) + k - 1)
      BY <2>4, <1>4
    <3>2. /\ buf \o piece \in Seq(Byte) /\ Len(buf \o piece) = Len(buf) + Len(piece)
          /\ \A k \in 1 .. Len(buf \o piece) : (buf \o piece)[k] = ByteAt(i, pos + k - 1)
      BY <3>1, <2>4, <2>7, <1>3, Joined
    <3> QED
      BY <3>2, <2>1, <2>4
  <2>9. TypeOK'
    <3>1. /\ fdt' \in [Fds -> Descriptor] /\ got' \in [Fds -> Seq(Byte)]
          /\ listed' \in [Fds -> Seq(1 .. Len(Dentries))] /\ astray' \in BOOLEAN
      BY <1>2, <1>6 DEF FilesInv, TypeOK, Descriptor, CopyBlock
    <3> QED
      BY <3>1, <2>6, <2>8 DEF TypeOK, Descriptor
  <2>10. Sensible(rd.count) =>
           /\ rd.cur <= rd.end
           /\ rd.end = IF pos + rd.count > Size[i] THEN Size[i] ELSE pos + rd.count
    BY <1>3 DEF LoopInv
  <2>11. Sensible(rd.count) => rd.cur + n <= rd.end
    BY <2>2, <2>10, <1>2, <1>3
  <2>12. rd'.cur = pos + Len(buf')
    BY <2>2, <2>6, <2>8, <1>3, <1>4
  <2>13. LoopInv(i, pos)'
    BY <2>1, <2>2, <2>6, <2>8, <2>10, <2>11, <2>12, <1>4 DEF LoopInv
  <2>14. ReadInv'
    BY <2>1, <2>6, <2>13, <1>1, <1>2, <1>3 DEF ReadInv
  <2> QED
    BY <2>9, <2>14, <1>5 DEF FilesInv
<1>7. CASE ~(rd.block < Len(Blocks[i]))
  <2>1. astray' = TRUE /\ UNCHANGED <<buf, rd>>
    BY <1>7, <1>1, <1>2 DEF CopyBlock
  <2>2. ~(rd.cur < Room(i))
    <3>1. rd.cur < Len(Blocks[i]) * FOUR_KB => rd.cur \div FOUR_KB < Len(Blocks[i])
      BY <1>3, BlockCount, FilesAssumption
    <3> QED
      BY <3>1, <1>7, <1>4 DEF Room
  <2>3. rd.end < rd.cur
    BY <2>2, <1>2, <1>3, <1>4
  <2>4. LoopInv(i, pos)'
    BY <2>1, <2>3, <1>3 DEF LoopInv
  <2>5. ReadInv'
    BY <2>1, <2>4, <1>1, <1>2, <1>3 DEF ReadInv, Reading
  <2>6. TypeOK'
    BY <2>1, <1>2 DEF FilesInv, TypeOK
  <2> QED
    BY <2>5, <2>6, <1>5 DEF FilesInv
<1> QED
  BY <1>6, <1>7

(* The end of a read: the descriptor moves over what the buffer holds.      *)
LEMMA ReadDoneInv == FilesInv /\ ReadDone => FilesInv'
<1> SUFFICES ASSUME FilesInv, ReadDone PROVE FilesInv'
  OBVIOUS
<1>1. PICK f, i, pos :
        f = rd.fd /\ i = fdt[rd.fd].inode /\ pos = fdt[rd.fd].file_position
  OBVIOUS
<1>2. /\ Reading /\ ~astray /\ rd.cur = rd.end
      /\ fdt' = [fdt EXCEPT ![f].file_position = @ + Len(buf)]
      /\ got' = [got EXCEPT ![f] = @ \o buf]
      /\ rd' = Idle /\ buf' = << >>
      /\ UNCHANGED <<listed, astray>>
  BY <1>1 DEF ReadDone
<1>3. /\ f \in Fds /\ fdt[f].table = FILE
      /\ i \in Inodes /\ pos \in Nat /\ pos <= Size[i]
      /\ rd.cur \in Nat /\ rd.cur < WORD
      /\ buf \in Seq(Byte) /\ Len(buf) \in Nat
      /\ LoopInv(i, pos)
      /\ Size[i] \in Nat
  BY <1>1, <1>2, ReadingFacts
<1>4. pos + Len(buf) <= Size[i] /\ pos + Len(buf) \in 0 .. WORD - 1
  <2>1. rd.cur = pos + Len(buf) /\ rd.end <= Size[i]
    BY <1>3 DEF LoopInv
  <2> QED
    BY <2>1, <1>2, <1>3, FilesAssumption
<1>5. /\ got[f] \in Seq(Byte) /\ Len(got[f]) = pos
      /\ \A k \in 1 .. Len(got[f]) : got[f][k] = ByteAt(i, k - 1)
  BY <1>1, <1>3 DEF FilesInv, TypeOK, FileInv
<1>6. /\ got[f] \o buf \in Seq(Byte) /\ Len(got[f] \o buf) = pos + Len(buf)
      /\ \A k \in 1 .. Len(got[f] \o buf) : (got[f] \o buf)[k] = ByteAt(i, k - 1)
  <2>1. \A k \in 1 .. Len(got[f]) : got[f][k] = ByteAt(i, 0 + k - 1)
    BY <1>3, <1>5
  <2>2. \A k \in 1 .. Len(buf) : buf[k] = ByteAt(i, 0 + Len(got[f]) + k - 1)
    BY <1>3, <1>5 DEF LoopInv
  <2>3. 0 \in Nat /\ got[f] \in Seq(Byte) /\ buf \in Seq(Byte)
    BY <1>3, <1>5
  <2>4. /\ got[f] \o buf \in Seq(Byte) /\ Len(got[f] \o buf) = Len(got[f]) + Len(buf)
        /\ \A k \in 1 .. Len(got[f] \o buf) : (got[f] \o buf)[k] = ByteAt(i, 0 + k - 1)
    BY <2>1, <2>2, <2>3, Joined
  <2> QED
    BY <2>4, <1>3, <1>5
<1>7. fdt \in [Fds -> Descriptor] /\ got \in [Fds -> Seq(Byte)]
  BY DEF FilesInv, TypeOK, Descriptor
<1>8. /\ fdt' \in [Fds -> Descriptor]
      /\ fdt'[f].file_position = pos + Len(buf) /\ fdt'[f].inode = i
      /\ fdt'[f].table = FILE
      /\ \A g \in Fds \ {f} : fdt'[g] = fdt[g]
  <2>1. [fdt[f] EXCEPT !.file_position = pos + Len(buf)] \in Descriptor
    BY <1>3, <1>4, <1>7 DEF Descriptor
  <2>2. fdt' = [fdt EXCEPT ![f] = [fdt[f] EXCEPT !.file_position = pos + Len(buf)]]
    BY <1>1, <1>2, <1>7
  <2> QED
    BY <2>1, <2>2, <1>1, <1>3, <1>7 DEF Descriptor
<1>9. /\ got' \in [Fds -> Seq(Byte)] /\ got'[f] = got[f] \o buf
      /\ \A g \in Fds \ {f} : got'[g] = got[g]
  BY <1>2, <1>3, <1>6, <1>7
<1>10. TypeOK'
  <2>1. rd' \in [fd : Fds \cup {0}, count : 0 .. WORD - 1, cur : 0 .. WORD - 1,
                 end : 0 .. WORD - 1, block : Nat]
    BY <1>2, FilesAssumption DEF Idle
  <2>2. buf' \in Seq(Byte)
    BY <1>2, EmptySeq
  <2>3. listed' \in [Fds -> Seq(1 .. Len(Dentries))] /\ astray' \in BOOLEAN
    BY <1>2 DEF FilesInv, TypeOK
  <2> QED
    BY <2>1, <2>2, <2>3, <1>8, <1>9 DEF TypeOK, Descriptor
<1>11. ReadInv'
  BY <1>2 DEF ReadInv, Reading
<1>12. ASSUME NEW g \in Fds PROVE FileInv(g)' /\ DirInv(g)'
  <2>1. CASE g = f
    BY <2>1, <1>3, <1>4, <1>6, <1>8, <1>9 DEF FileInv, DirInv, FILE, DIR
  <2>2. CASE g # f
    <3>1. fdt'[g] = fdt[g] /\ got'[g] = got[g] /\ listed'[g] = listed[g]
      BY <2>2, <1>2, <1>8, <1>9
    <3> QED
      BY <3>1 DEF FilesInv, FileInv, DirInv
  <2> QED
    BY <2>1, <2>2
<1> QED
  BY <1>10, <1>11, <1>12 DEF FilesInv

(* Every step preserves the invariant.                                      *)
LEMMA NextInv == FilesInv /\ [Next]_vars => FilesInv'
<1> SUFFICES ASSUME FilesInv, [Next]_vars PROVE FilesInv'
  OBVIOUS
<1>1. ASSUME NEW name \in Names, open(name) PROVE FilesInv'
  BY <1>1, OpenInv
<1>2. ASSUME NEW f \in Fds, close(f) PROVE FilesInv'
  BY <1>2, CloseInv
<1>3. ASSUME NEW f \in Fds, dir_read(f) PROVE FilesInv'
  BY <1>3, DirReadInv
<1>4. ASSUME NEW f \in Fds, NEW n \in Counts, file_read(f, n) PROVE FilesInv'
  BY <1>4, FileReadInv
<1>5. CASE CopyBlock
  BY <1>5, CopyBlockInv
<1>6. CASE ReadDone
  BY <1>6, ReadDoneInv
<1>7. CASE halt
  BY <1>7, HaltInv
<1>8. CASE UNCHANGED vars
  BY <1>8 DEF vars, history, FilesInv, TypeOK, ReadInv, Reading, LoopInv, FileInv, DirInv
<1> QED
  BY <1>1, <1>2, <1>3, <1>4, <1>5, <1>6, <1>7, <1>8 DEF Next

(* The invariant of the descriptors and of the loop of read_data, whatever  *)
(* calls a process makes and wherever an exception ends it.                 *)
THEOREM FilesSafe == Spec => []FilesInv
BY InitInv, NextInv, PTL DEF Spec

(* What a descriptor has delivered is the file up to its position.          *)
LEMMA DeliveredPrefix ==
    ASSUME FilesInv, NEW f \in Fds, fdt[f].table = FILE
    PROVE  got[f] = SubSeq(Content(fdt[f].inode), 1, fdt[f].file_position)
<1>1. PICK i, pos : i = fdt[f].inode /\ pos = fdt[f].file_position
  OBVIOUS
<1>2. /\ got[f] \in Seq(Byte) /\ Len(got[f]) = pos /\ pos \in Nat
      /\ i \in Inodes /\ pos <= Size[i]
      /\ \A k \in 1 .. pos : got[f][k] = ByteAt(i, k - 1)
  BY <1>1 DEF FilesInv, TypeOK, FileInv
<1>3. Size[i] \in Nat /\ Size[i] <= Room(i) /\ Room(i) \in Nat
  BY <1>2, InodeFacts
<1>4. \A k \in 1 .. Size[i] : Content(i)[k] = ByteAt(i, k - 1)
  BY DEF Content, ByteAt
<1>5. Content(i) \in Seq(Byte) /\ Len(Content(i)) = Size[i]
  <2>1. \A k \in 1 .. Size[i] : Content(i)[k] \in Byte
    BY <1>2, <1>3, <1>4, ByteTyped
  <2>2. Content(i) \in [1 .. Size[i] -> Byte]
    BY <2>1 DEF Content
  <2> QED
    BY <2>2, <1>3
<1>6. /\ SubSeq(Content(i), 1, pos) \in Seq(Byte) /\ Len(SubSeq(Content(i), 1, pos)) = pos
      /\ \A k \in 1 .. pos : SubSeq(Content(i), 1, pos)[k] = Content(i)[k]
  BY <1>2, <1>3, <1>5
<1>7. \A k \in 1 .. Len(got[f]) : got[f][k] = SubSeq(Content(i), 1, pos)[k]
  BY <1>2, <1>3, <1>4, <1>6
<1>8. got[f] = SubSeq(Content(i), 1, pos)
  BY <1>2, <1>6, <1>7, SeqEqual
<1> QED
  BY <1>1, <1>8

(* The bytes of the file from the first up to file_position, each once and  *)
(* in order: reads of any sizes, for every block size and image.            *)
THEOREM ReadsInOrder == Spec => []FileInOrder
<1>1. FilesInv => FileInOrder
  BY DeliveredPrefix DEF FileInOrder, FilesInv, FileInv
<1> QED
  BY <1>1, FilesSafe, PTL

(* A read with a count that is not negative stays inside its file.          *)
THEOREM LoopStaysInFile == Spec => []LoopInFile
<1>1. FilesInv => LoopInFile
  <2> SUFFICES ASSUME FilesInv, Reading, Sensible(rd.count)
               PROVE  ~astray /\ rd.cur <= rd.end /\ rd.end <= Size[fdt[rd.fd].inode]
    BY DEF LoopInFile
  <2>1. LoopInv(fdt[rd.fd].inode, fdt[rd.fd].file_position)
        /\ rd.cur \in Nat /\ rd.end \in Nat
    BY DEF FilesInv, ReadInv, TypeOK
  <2> QED
    BY <2>1 DEF LoopInv
<1> QED
  BY <1>1, FilesSafe, PTL

(* What a step may do to a read whose count is not negative.                *)
ReadApproaches ==
    Reading /\ Sensible(rd.count) =>
        \/ rd' = Idle
        \/ rd'.end = rd.end /\ rd.cur < rd'.cur /\ rd'.cur <= rd.end

(* A round of the loop moves cur, and not past the end.                     *)
LEMMA CopyBlockApproaches == FilesInv /\ CopyBlock => ReadApproaches
<1> SUFFICES ASSUME FilesInv, CopyBlock, Sensible(rd.count)
             PROVE  rd'.end = rd.end /\ rd.cur < rd'.cur /\ rd'.cur <= rd.end
  BY DEF ReadApproaches
<1>1. PICK i, pos, n, cur, end :
        /\ i = fdt[rd.fd].inode /\ pos = fdt[rd.fd].file_position
        /\ n = CopyLength(rd.cur, rd.end)
        /\ cur = rd.cur /\ end = rd.end
  OBVIOUS
<1>2. Reading /\ ~astray /\ cur # end
  BY <1>1 DEF CopyBlock
<1>3. /\ i \in Inodes /\ cur \in Nat /\ end \in Nat /\ end < WORD
      /\ LoopInv(i, pos) /\ Size[i] \in Nat /\ WORD \in Nat
      /\ Size[i] <= Room(i) /\ Room(i) \in Nat /\ Len(Blocks[i]) \in Nat
  BY <1>1, <1>2, ReadingFacts
<1>4. cur < end /\ end <= Size[i] /\ rd.block = cur \div FOUR_KB
  BY <1>1, <1>2, <1>3 DEF LoopInv
<1>5. cur \div FOUR_KB < Len(Blocks[i])
  <2>1. FOUR_KB \in Nat \ {0} /\ cur < Len(Blocks[i]) * FOUR_KB
    BY <1>3, <1>4, FilesAssumption DEF Room
  <2> QED
    BY <2>1, <1>3, BlockCount
<1>6. n \in Nat /\ n >= 1 /\ cur + n <= end
  BY <1>1, <1>2, <1>3, <1>4, <1>5, RoundFacts
<1>7. (cur + n) % WORD = cur + n
  <2>1. cur + n \in Int /\ cur + n \in 0 .. WORD - 1
    BY <1>3, <1>6
  <2> QED
    BY <2>1, WordMod
<1>8. rd' = [rd EXCEPT !.cur = (cur + n) % WORD, !.block = NextBlock(@)]
  BY <1>1, <1>4, <1>5 DEF CopyBlock
<1>9. rd'.cur = cur + n /\ rd'.end = end
  BY <1>1, <1>7, <1>8 DEF FilesInv, TypeOK
<1> QED
  BY <1>1, <1>3, <1>6, <1>9

(* The variant of the loop of read_data, whose test is cur != end: every    *)
(* step the process takes during a read with a count that is not negative   *)
(* ends the read or brings cur nearer to an end that stays where it is, and *)
(* never past it, so the loop cannot run on.                                *)
THEOREM LoopApproachesEnd == Spec => [][ReadApproaches]_vars
<1>1. FilesInv /\ [Next]_vars => [ReadApproaches]_vars
  <2> SUFFICES ASSUME FilesInv, Next PROVE ReadApproaches
    OBVIOUS
  <2>1. ASSUME NEW name \in Names, open(name) PROVE ~Reading
    BY <2>1 DEF open
  <2>2. ASSUME NEW f \in Fds, close(f) \/ dir_read(f) PROVE ~Reading
    BY <2>2 DEF close, dir_read, Dispatched
  <2>3. ASSUME NEW f \in Fds, NEW n \in Counts, file_read(f, n) PROVE ~Reading
    BY <2>3 DEF file_read, Dispatched
  <2>4. ReadDone \/ halt => rd' = Idle
    BY DEF ReadDone, halt
  <2>5. CopyBlock => ReadApproaches
    BY CopyBlockApproaches
  <2> QED
    BY <2>1, <2>2, <2>3, <2>4, <2>5 DEF Next, ReadApproaches
<1> QED
  BY <1>1, FilesSafe, PTL DEF Spec

(* A read of at least one byte that returns 0 has met the end of the file.  *)
THEOREM ZeroOnlyAtEnd == Spec => []ZeroIsEnd
<1>1. FilesInv => ZeroIsEnd
  <2> SUFFICES ASSUME FilesInv, Reading, rd.cur = rd.end, buf = << >>, rd.count # 0,
                      Sensible(rd.count)
               PROVE  got[rd.fd] = Content(fdt[rd.fd].inode)
    BY DEF ZeroIsEnd
  <2>1. PICK i, pos : i = fdt[rd.fd].inode /\ pos = fdt[rd.fd].file_position
    OBVIOUS
  <2>2. /\ rd.fd \in Fds /\ fdt[rd.fd].table = FILE
        /\ i \in Inodes /\ pos \in Nat /\ pos <= Size[i] /\ Size[i] \in Nat
        /\ LoopInv(i, pos)
    BY <2>1, ReadingFacts
  <2>3. rd.count \in Nat
    BY DEF FilesInv, TypeOK
  <2>4. pos = Size[i]
    BY <2>2, <2>3 DEF LoopInv
  <2>5. got[rd.fd] = SubSeq(Content(i), 1, Size[i])
    BY <2>1, <2>2, <2>4, DeliveredPrefix
  <2>6. SubSeq(Content(i), 1, Size[i]) = Content(i)
    BY <2>2 DEF Content
  <2> QED
    BY <2>1, <2>5, <2>6
<1> QED
  BY <1>1, FilesSafe, PTL

(* The reads of a descriptor of the directory list every entry in order.    *)
THEOREM DirectoryInOrder == Spec => []ListedInOrder
<1>1. FilesInv => ListedInOrder
  BY DEF FilesInv, DirInv, ListedInOrder
<1> QED
  BY <1>1, FilesSafe, PTL
=============================================================================
