----------------------------- MODULE PipeProofs -----------------------------
(***************************************************************************)
(* A pipe implements the bounded queue of bytes, is not used once it is    *)
(* freed, and loses no wakeup, for any processes and bytes, any size of    *)
(* the buffer, and counters that wrap at any multiple of it.               *)
(***************************************************************************)
EXTENDS Pipe, Integers, TLAPS

-----------------------------------------------------------------------------
(* Division with remainder *)

LEMMA DivMod ==
  ASSUME NEW x \in Nat, NEW d \in Nat \ {0}
  PROVE  /\ x \div d \in Nat /\ x % d \in 0..(d - 1)
         /\ x = d * (x \div d) + (x % d)
  OBVIOUS

LEMMA Quotient ==
  ASSUME NEW x \in Nat, NEW d \in Nat \ {0}
  PROVE  \E q \in Nat, m \in 0..(d - 1) : x % d = m /\ x = d * q + m
<1>1. /\ x \div d \in Nat /\ x % d \in 0..(d - 1)
      /\ x = d * (x \div d) + (x % d)
  BY DivMod
<1> QED
  BY <1>1, Zenon

\* Only the multiple 0 of d is nearer to 0 than d.
LEMMA MulBound ==
  ASSUME NEW k \in Int, NEW d \in Nat \ {0}, d * k < d, d * k > 0 - d
  PROVE  k = 0
  OBVIOUS

\* The remainder is the only one.
LEMMA Unique ==
  ASSUME NEW d \in Nat \ {0}, NEW q \in Int, NEW m \in 0..(d - 1), NEW x \in Nat, x = d * q + m
  PROVE  x % d = m
<1>1. x \div d \in Nat /\ x % d \in 0..(d - 1) /\ x = d * (x \div d) + (x % d)
  BY DivMod, Zenon
<1>2. d * (x \div d - q) = m - (x % d)
  BY <1>1
<1>3. x \div d - q = 0
  BY <1>1, <1>2, MulBound
<1> QED
  BY <1>1, <1>2, <1>3

LEMMA Small ==
  ASSUME NEW d \in Nat \ {0}, NEW x \in Nat, x < d
  PROVE  x % d = x
  BY Unique, x = d * 0 + x

LEMMA Once ==
  ASSUME NEW d \in Nat \ {0}, NEW x \in Nat, x >= d, x < 2 * d
  PROVE  x % d = x - d
  BY Unique, x = d * 1 + (x - d)

LEMMA Remainder ==
  ASSUME NEW d \in Nat \ {0}, NEW x \in Nat, x < 2 * d
  PROVE  x % d = IF x < d THEN x ELSE x - d
<1>1. x < d => x % d = x
  BY Small
<1>2. x >= d => x % d = x - d
  BY Once
<1>3. x < d \/ (x >= d /\ ~(x < d))
  OBVIOUS
<1> QED
  BY <1>1, <1>2, <1>3, Zenon

\* The larger modulus does not matter when the smaller divides it.
LEMMA Nested ==
  ASSUME NEW d \in Nat \ {0}, NEW W \in Nat \ {0}, W % d = 0, NEW x \in Nat
  PROVE  (x % W) % d = x % d
<1>a. \E q \in Nat, y \in 0..(W - 1) : x % W = y /\ x = W * q + y
  BY Quotient
<1>1. PICK k \in Nat, z \in 0..(d - 1) : W % d = z /\ W = d * k + z
  BY Quotient
<1>2. PICK q \in Nat, y \in 0..(W - 1) : x % W = y /\ x = W * q + y
  BY <1>a
<1>3. PICK u \in Nat, m \in 0..(d - 1) : y % d = m /\ y = d * u + m
  BY <1>2, Quotient
<1>4. x = d * (k * q + u) + m
  BY <1>1, <1>2, <1>3
<1>5. k * q + u \in Int
  BY <1>1, <1>2, <1>3
<1>6. x % d = m
  BY <1>4, <1>5, Unique
<1> QED
  BY <1>2, <1>3, <1>6

\* Numbers less than d apart have different remainders.
LEMMA Apart ==
  ASSUME NEW d \in Nat \ {0}, NEW x \in Nat, NEW y \in Nat, x < y, y - x < d
  PROVE  x % d # y % d
<1>1. PICK q \in Nat, k \in 0..(d - 1) : x % d = k /\ x = d * q + k
  BY Quotient
<1>2. PICK u \in Nat, m \in 0..(d - 1) : y % d = m /\ y = d * u + m
  BY Quotient
<1> SUFFICES ASSUME k = m PROVE FALSE
  BY <1>1, <1>2
<1>3. d * (u - q) = y - x
  BY <1>1, <1>2
<1>4. u - q = 0
  BY <1>3, MulBound
<1> QED
  BY <1>3, <1>4

-----------------------------------------------------------------------------
(* The ring *)

Counter == 0..(WORD - 1)

\* Count and Contents as functions of what they depend on.
CountOf(r, w) == (w + WORD - r) % WORD
ContentsOf(d, r, w) == [j \in 1..CountOf(r, w) |-> d[((r + j - 1) % WORD) % PIPESIZE]]

LEMMA ContentsIs == Count = CountOf(nread, nwrite) /\ Contents = ContentsOf(data, nread, nwrite)
  BY DEF Count, Contents, CountOf, ContentsOf

LEMMA ContentsIsNext ==
  /\ Count' = CountOf(nread', nwrite')
  /\ Contents' = ContentsOf(data', nread', nwrite')
  BY DEF Count, Contents, CountOf, ContentsOf

LEMMA CountCases ==
  ASSUME NEW r \in Counter, NEW w \in Counter
  PROVE  /\ CountOf(r, w) = IF w >= r THEN w - r ELSE w + WORD - r
         /\ CountOf(r, w) \in Nat /\ CountOf(r, w) < WORD
<1> DEFINE x == w + WORD - r
<1>0. WORD \in Nat \ {0} /\ r \in Nat /\ w \in Nat /\ r < WORD /\ w < WORD
  BY PipeAssumption DEF Counter
<1>1. x \in Nat /\ x < 2 * WORD
  BY <1>0
<1> HIDE DEF x
<1>2. x % WORD = IF x < WORD THEN x ELSE x - WORD
  BY <1>0, <1>1, Remainder
<1>3. CountOf(r, w) = IF x < WORD THEN x ELSE x - WORD
  BY <1>2 DEF CountOf, x
<1> QED
  BY <1>0, <1>3 DEF x

\* A counter, and some more.
LEMMA Wrap ==
  ASSUME NEW x \in Counter, NEW k \in Nat, k < WORD
  PROVE  /\ (x + k) % WORD \in Counter
         /\ x + k < WORD => (x + k) % WORD = x + k
         /\ x + k >= WORD => (x + k) % WORD = (x + k) - WORD
<1> DEFINE y == x + k
<1>0. WORD \in Nat \ {0} /\ y \in Nat /\ y < 2 * WORD
  BY PipeAssumption DEF Counter
<1> HIDE DEF y
<1> DEFINE z == y % WORD
<1>1. y < WORD => z = y
  BY <1>0, Small
<1>2. y >= WORD => z = y - WORD
  BY <1>0, Once
<1> HIDE DEF z
<1>3. z \in Counter
  BY <1>0, <1>1, <1>2 DEF Counter
<1> QED
  BY <1>1, <1>2, <1>3, Zenon DEF y, z

\* The test of pipewrite() for a full pipe is right, also when nwrite has
\* wrapped around and nread has not, and so is the one of piperead().
LEMMA FullEmpty ==
  ASSUME NEW r \in Counter, NEW w \in Counter
  PROVE  /\ w = (r + PIPESIZE) % WORD <=> CountOf(r, w) = PIPESIZE
         /\ w = r <=> CountOf(r, w) = 0
<1> DEFINE z == (r + PIPESIZE) % WORD
<1>0. PIPESIZE \in Nat \ {0} /\ WORD \in Nat /\ PIPESIZE < WORD
  BY PipeAssumption
<1>1. /\ r + PIPESIZE < WORD => z = r + PIPESIZE
      /\ r + PIPESIZE >= WORD => z = (r + PIPESIZE) - WORD
  BY <1>0, Wrap, Zenon
<1> HIDE DEF z
<1>2. CountOf(r, w) = IF w >= r THEN w - r ELSE w + WORD - r
  BY CountCases
<1>3. w = z <=> CountOf(r, w) = PIPESIZE
  BY <1>0, <1>1, <1>2 DEF Counter
<1>4. w = r <=> CountOf(r, w) = 0
  BY <1>0, <1>2 DEF Counter
<1> QED
  BY <1>3, <1>4 DEF z

LEMMA CellType ==
  ASSUME NEW x \in Nat
  PROVE  (x % WORD) % PIPESIZE \in 0..(PIPESIZE - 1) /\ (x % WORD) % PIPESIZE = x % PIPESIZE
<1>1. PIPESIZE \in Nat \ {0} /\ WORD \in Nat \ {0} /\ WORD % PIPESIZE = 0
  BY PipeAssumption
<1>2. (x % WORD) % PIPESIZE = x % PIPESIZE
  BY <1>1, Nested
<1>3. x % PIPESIZE \in 0..(PIPESIZE - 1)
  BY <1>1, DivMod
<1> QED
  BY <1>2, <1>3

LEMMA ContentsType ==
  ASSUME NEW r \in Counter, NEW w \in Counter, NEW d \in [0..(PIPESIZE - 1) -> Byte]
  PROVE  /\ ContentsOf(d, r, w) \in Seq(Byte) /\ Len(ContentsOf(d, r, w)) = CountOf(r, w)
         /\ \A j \in 1..CountOf(r, w) :
              ContentsOf(d, r, w)[j] = d[((r + j - 1) % WORD) % PIPESIZE]
<1>1. CountOf(r, w) \in Nat
  BY CountCases
<1>2. ASSUME NEW j \in 1..CountOf(r, w) PROVE d[((r + j - 1) % WORD) % PIPESIZE] \in Byte
  <2>1. r + j - 1 \in Nat
    BY <1>1, PipeAssumption DEF Counter
  <2> QED
    BY <2>1, CellType
<1> QED
  BY <1>1, <1>2 DEF ContentsOf

LEMMA AppendIs ==
  ASSUME NEW s \in Seq(Byte), NEW t \in Seq(Byte), NEW b \in Byte, Len(t) = Len(s) + 1,
         t[Len(s) + 1] = b, \A j \in 1..Len(s) : t[j] = s[j]
  PROVE  t = Append(s, b)
  OBVIOUS

LEMMA TailIs ==
  ASSUME NEW s \in Seq(Byte), NEW t \in Seq(Byte), s # <<>>, Len(t) = Len(s) - 1,
         \A j \in 1..Len(t) : t[j] = s[j + 1]
  PROVE  t = Tail(s)
  OBVIOUS

\* Writing a byte puts it at the end of the queue.
LEMMA PutRing ==
  ASSUME NEW r \in Counter, NEW w \in Counter, NEW d \in [0..(PIPESIZE - 1) -> Byte],
         NEW b \in Byte, CountOf(r, w) < PIPESIZE
  PROVE  /\ (w + 1) % WORD \in Counter
         /\ CountOf(r, (w + 1) % WORD) = CountOf(r, w) + 1
         /\ ContentsOf([d EXCEPT ![w % PIPESIZE] = b], r, (w + 1) % WORD)
              = Append(ContentsOf(d, r, w), b)
<1> DEFINE c == CountOf(r, w)
           v == (w + 1) % WORD
           e == [d EXCEPT ![w % PIPESIZE] = b]
<1>0. /\ PIPESIZE \in Nat \ {0} /\ WORD \in Nat \ {0} /\ PIPESIZE < WORD
      /\ r \in Nat /\ w \in Nat /\ c \in Nat /\ c < PIPESIZE /\ c < WORD
  BY CountCases, PipeAssumption DEF Counter
<1>1. v \in Counter /\ v = IF w + 1 < WORD THEN w + 1 ELSE w + 1 - WORD
  BY <1>0, Wrap
<1>2. CountOf(r, v) = c + 1
  <2> HIDE DEF v
  <2>1. CountOf(r, v) = IF v >= r THEN v - r ELSE v + WORD - r
    BY <1>1, CountCases
  <2>2. c = IF w >= r THEN w - r ELSE w + WORD - r
    BY CountCases
  <2> HIDE DEF c
  <2> QED
    BY <1>0, <1>1, <2>1, <2>2 DEF Counter
<1>3. (r + c) % WORD = w
  <2>1. c = IF w >= r THEN w - r ELSE w + WORD - r
    BY CountCases
  <2>2. /\ r + c < WORD => (r + c) % WORD = r + c
        /\ r + c >= WORD => (r + c) % WORD = (r + c) - WORD
    BY <1>0, Wrap, Zenon
  <2> DEFINE z == (r + c) % WORD
  <2> HIDE DEF c, z
  <2>3. z = w
    BY <1>0, <2>1, <2>2 DEF Counter, z
  <2> QED
    BY <2>3 DEF z
<1>4. w % PIPESIZE \in 0..(PIPESIZE - 1) /\ e \in [0..(PIPESIZE - 1) -> Byte]
  BY <1>0, DivMod
<1>5. w % PIPESIZE = (r + c) % PIPESIZE
  <2>1. r + c \in Nat
    BY <1>0
  <2>2. ((r + c) % WORD) % PIPESIZE = (r + c) % PIPESIZE
    BY <2>1, CellType, Zenon
  <2> QED
    BY <1>3, <2>2, Zenon
<1> DEFINE s == ContentsOf(d, r, w)
           t == ContentsOf(e, r, v)
<1>6. s \in Seq(Byte) /\ Len(s) = c /\ \A j \in 1..c : s[j] = d[((r + j - 1) % WORD) % PIPESIZE]
  BY ContentsType
<1>7. t \in Seq(Byte) /\ Len(t) = c + 1
      /\ \A j \in 1..(c + 1) : t[j] = e[((r + j - 1) % WORD) % PIPESIZE]
  <2> HIDE DEF c, v, e
  <2>1. t \in Seq(Byte) /\ Len(t) = CountOf(r, v)
        /\ \A j \in 1..CountOf(r, v) : t[j] = e[((r + j - 1) % WORD) % PIPESIZE]
    BY <1>1, <1>4, ContentsType, Zenon
  <2> QED
    BY <1>2, <2>1, Zenon
<1> HIDE DEF c, v, e, s, t
<1>8. ASSUME NEW j \in 1..c PROVE t[j] = s[j]
  <2>1. r + j - 1 \in Nat /\ r + c \in Nat /\ r + j - 1 < r + c /\ (r + c) - (r + j - 1) < PIPESIZE
    BY <1>0 DEF c
  <2>2. (r + j - 1) % PIPESIZE # (r + c) % PIPESIZE
    BY <1>0, <2>1, Apart
  <2>3. /\ ((r + j - 1) % WORD) % PIPESIZE = (r + j - 1) % PIPESIZE
        /\ ((r + j - 1) % WORD) % PIPESIZE \in 0..(PIPESIZE - 1)
    BY <2>1, CellType
  <2>4. e[((r + j - 1) % WORD) % PIPESIZE] = d[((r + j - 1) % WORD) % PIPESIZE]
    BY <1>5, <2>2, <2>3 DEF e
  <2>5. j \in 1..(c + 1)
    BY <1>0
  <2> QED
    BY <1>6, <1>7, <2>4, <2>5
<1>9. t[c + 1] = b
  <2>1. r + (c + 1) - 1 = r + c /\ c + 1 \in 1..(c + 1)
    BY <1>0
  <2>2. t[c + 1] = e[w % PIPESIZE]
    BY <1>3, <1>7, <2>1
  <2> QED
    BY <1>4, <2>2 DEF e
<1>10. t = Append(s, b)
  BY <1>6, <1>7, <1>8, <1>9, AppendIs
<1> QED
  BY <1>1, <1>2, <1>10 DEF c, v, e, s, t

\* Reading a byte takes the first one.
LEMMA GetRing ==
  ASSUME NEW r \in Counter, NEW w \in Counter, NEW d \in [0..(PIPESIZE - 1) -> Byte], r # w
  PROVE  /\ (r + 1) % WORD \in Counter
         /\ CountOf((r + 1) % WORD, w) = CountOf(r, w) - 1
         /\ ContentsOf(d, r, w) # <<>>
         /\ ContentsOf(d, (r + 1) % WORD, w) = Tail(ContentsOf(d, r, w))
<1> DEFINE c == CountOf(r, w)
           u == (r + 1) % WORD
<1>0. WORD \in Nat \ {0} /\ WORD > 1 /\ r \in Nat /\ r < WORD /\ c \in Nat /\ c < WORD /\ c # 0
  <2>1. c \in Nat /\ c < WORD /\ c # 0
    BY CountCases, FullEmpty
  <2> QED
    BY <2>1, PipeAssumption DEF Counter
<1>1. u \in Counter /\ u = IF r + 1 < WORD THEN r + 1 ELSE r + 1 - WORD
  BY <1>0, Wrap
<1>2. CountOf(u, w) = c - 1
  <2> HIDE DEF u
  <2>1. CountOf(u, w) = IF w >= u THEN w - u ELSE w + WORD - u
    BY <1>1, CountCases
  <2>2. c = IF w >= r THEN w - r ELSE w + WORD - r
    BY CountCases
  <2> HIDE DEF c
  <2> QED
    BY <1>0, <1>1, <2>1, <2>2 DEF Counter
<1> DEFINE s == ContentsOf(d, r, w)
           t == ContentsOf(d, u, w)
<1>3. s \in Seq(Byte) /\ Len(s) = c /\ \A j \in 1..c : s[j] = d[((r + j - 1) % WORD) % PIPESIZE]
  BY ContentsType
<1>4. t \in Seq(Byte) /\ Len(t) = c - 1
      /\ \A j \in 1..(c - 1) : t[j] = d[((u + j - 1) % WORD) % PIPESIZE]
  <2> HIDE DEF c, u
  <2>1. t \in Seq(Byte) /\ Len(t) = CountOf(u, w)
        /\ \A j \in 1..CountOf(u, w) : t[j] = d[((u + j - 1) % WORD) % PIPESIZE]
    BY <1>1, ContentsType, Zenon
  <2> QED
    BY <1>2, <2>1, Zenon
<1> HIDE DEF c, u, s, t
<1>5. ASSUME NEW j \in 1..(c - 1) PROVE t[j] = s[j + 1]
  <2>0. j - 1 \in Nat /\ j - 1 < WORD /\ j \in Nat /\ j < WORD /\ j + 1 \in 1..c
        /\ u + j - 1 = u + (j - 1) /\ r + (j + 1) - 1 = r + j
    BY <1>0, <1>1 DEF Counter
  <2> DEFINE x == (u + (j - 1)) % WORD
             y == (r + j) % WORD
  <2>1. /\ u + (j - 1) < WORD => x = u + (j - 1)
        /\ u + (j - 1) >= WORD => x = (u + (j - 1)) - WORD
    BY <1>1, <2>0, Wrap, Zenon
  <2>2. (r + j < WORD => y = r + j) /\ (r + j >= WORD => y = (r + j) - WORD)
    BY <2>0, Wrap, Zenon
  <2> HIDE DEF x, y
  <2>3. x = y
    BY <1>0, <1>1, <2>0, <2>1, <2>2
  <2>4. t[j] = d[((u + (j - 1)) % WORD) % PIPESIZE] /\ s[j + 1] = d[((r + j) % WORD) % PIPESIZE]
    BY <1>3, <1>4, <2>0
  <2> QED
    BY <2>3, <2>4, Zenon DEF x, y
<1>6. s # <<>>
  BY <1>0, <1>3
<1>7. t = Tail(s)
  BY <1>3, <1>4, <1>5, <1>6, TailIs
<1> QED
  BY <1>1, <1>2, <1>6, <1>7 DEF c, u, s, t

-----------------------------------------------------------------------------
(* The invariant *)

PCs == {"user", "wlock", "wtest", "wbody", "wsleep", "rlock", "rtest", "rempty", "rcopy", "rsleep",
        "wclose", "rclose"}
Held == {"wtest", "wbody", "rtest", "rempty", "rcopy"}
Writing == {"wlock", "wtest", "wbody", "wsleep"}
Reading == {"rlock", "rtest", "rempty", "rcopy", "rsleep"}

TypeOK ==
  /\ data \in [0..(PIPESIZE - 1) -> Byte]
  /\ nread \in Counter /\ nwrite \in Counter /\ CountOf(nread, nwrite) <= PIPESIZE
  /\ readopen \in BOOLEAN /\ writeopen \in BOOLEAN /\ freed \in BOOLEAN
  /\ lock \in Proc \cup {NoProc}
  /\ ends \in [Proc -> SUBSET {"r", "w"}]
  /\ killed \in [Proc -> BOOLEAN]
  /\ pc \in [Proc -> PCs]

\* The holder of pi->lock is the one process between acquire() and release().
LockInv == \A p \in Proc : pc[p] \in Held <=> lock = p

\* Who reads or writes has that end open, an end that somebody has open is open,
\* and the last one to close it is alone in doing so.
EndsInv ==
  /\ \A p \in Proc :
       /\ pc[p] \in Writing => "w" \in ends[p]
       /\ pc[p] \in Reading => "r" \in ends[p]
       /\ "w" \in ends[p] => writeopen
       /\ "r" \in ends[p] => readopen
       /\ pc[p] = "wclose" => writeopen /\ \A q \in Proc : "w" \notin ends[q] /\ (pc[q] = "wclose" => q = p)
       /\ pc[p] = "rclose" => readopen /\ \A q \in Proc : "r" \notin ends[q] /\ (pc[q] = "rclose" => q = p)
  /\ freed <=> ~readopen /\ ~writeopen

\* A sleeper has reason to sleep, or the process that took the reason away still
\* holds the lock and will wake it.
WaitInv ==
  \A p \in Proc :
    /\ pc[p] \in {"wbody", "wsleep"} => readopen
    /\ pc[p] \in {"rempty", "rsleep"} => writeopen
    /\ pc[p] = "rempty" => Empty
    /\ pc[p] = "wsleep" => Full \/ \E q \in Proc : pc[q] = "rcopy"
    /\ pc[p] = "rsleep" /\ (\A q \in Proc : ~killed[q]) =>
         Empty \/ \E q \in Proc : pc[q] \in {"wtest", "wbody"}

IInv == TypeOK /\ LockInv /\ EndsInv /\ WaitInv

Simulates == [Abstract!Next]_<<Contents, readopen, writeopen>>

LEMMA InitInv ==
  ASSUME Init
  PROVE  IInv /\ Abstract!Init
<1> USE DEF Init
<1>1. nread \in Counter /\ nwrite \in Counter /\ CountOf(nread, nwrite) = 0
  <2>1. nread \in Counter /\ nwrite \in Counter
    BY PipeAssumption DEF Counter
  <2> QED
    BY <2>1, FullEmpty
<1>2. TypeOK
  <2>1. data \in [0..(PIPESIZE - 1) -> Byte] /\ ends \in [Proc -> SUBSET {"r", "w"}]
    OBVIOUS
  <2>2. killed \in [Proc -> BOOLEAN] /\ pc \in [Proc -> PCs]
    BY DEF PCs
  <2>3. CountOf(nread, nwrite) <= PIPESIZE /\ lock \in Proc \cup {NoProc}
    BY <1>1, PipeAssumption
  <2>4. readopen \in BOOLEAN /\ writeopen \in BOOLEAN /\ freed \in BOOLEAN
    OBVIOUS
  <2> QED
    BY <1>1, <2>1, <2>2, <2>3, <2>4 DEF TypeOK
<1>3. LockInv /\ EndsInv
  BY PipeAssumption DEF LockInv, EndsInv, Held, Writing, Reading
<1>4. WaitInv
  BY DEF WaitInv
<1>5. Contents = <<>>
  BY <1>1, <1>2, ContentsIs, ContentsType DEF TypeOK
<1> QED
  BY <1>2, <1>3, <1>4, <1>5 DEF IInv, Abstract!Init

\* A step that leaves the pipe as it is.
LEMMA PipeUntouched ==
  ASSUME UNCHANGED pipeVars
  PROVE  Simulates /\ (Full' <=> Full) /\ (Empty' <=> Empty)
  BY DEF pipeVars, Simulates, Contents, Count, Full, Empty

\* Read(), write(), and acquire().
LEMMA EnterStep ==
  ASSUME IInv, NEW p \in Proc, NEW k \in 0..MaxN, Write(p, k) \/ Read(p, k)
  PROVE  IInv' /\ Simulates
<1>0. /\ UNCHANGED pipeVars /\ UNCHANGED <<data, nread, nwrite, readopen, writeopen, freed, lock, ends, killed>>
      /\ pc[p] = "user"
      /\ \/ "w" \in ends[p] /\ pc' = [pc EXCEPT ![p] = "wlock"]
         \/ "r" \in ends[p] /\ pc' = [pc EXCEPT ![p] = "rlock"]
  BY DEF Write, Read, Goto, pipeVars
<1>1. TypeOK'
  BY <1>0 DEF IInv, TypeOK, PCs
<1>2. LockInv' /\ EndsInv'
  BY <1>0 DEF IInv, TypeOK, LockInv, EndsInv, Held, Writing, Reading
<1>3. WaitInv'
  BY <1>0, PipeUntouched DEF IInv, TypeOK, WaitInv
<1> QED
  BY <1>0, <1>1, <1>2, <1>3, PipeUntouched DEF IInv

LEMMA LockStep ==
  ASSUME IInv, NEW p \in Proc, LockForWrite(p) \/ LockForRead(p)
  PROVE  IInv' /\ Simulates
<1>0. /\ UNCHANGED pipeVars /\ UNCHANGED <<data, nread, nwrite, readopen, writeopen, freed, ends, killed>>
      /\ lock = NoProc /\ lock' = p
      /\ \/ pc[p] = "wlock" /\ pc' = [pc EXCEPT ![p] = "wtest"]
         \/ pc[p] = "rlock" /\ pc' = [pc EXCEPT ![p] = "rtest"]
  BY DEF LockForWrite, LockForRead, Lock, Goto, pipeVars
<1>1. TypeOK'
  BY <1>0 DEF IInv, TypeOK, PCs
<1>2. LockInv' /\ EndsInv'
  BY <1>0, PipeAssumption DEF IInv, TypeOK, LockInv, EndsInv, Held, Writing, Reading
<1>3. WaitInv'
  BY <1>0, PipeUntouched DEF IInv, TypeOK, WaitInv
<1> QED
  BY <1>0, <1>1, <1>2, <1>3, PipeUntouched DEF IInv

-----------------------------------------------------------------------------
(* The steps of a process that holds the lock *)

\* Only its holder is between acquire() and release().
LEMMA Alone ==
  ASSUME IInv, NEW p \in Proc, pc[p] \in Held
  PROVE  lock = p /\ \A q \in Proc : pc[q] \in Held => q = p
  BY DEF IInv, LockInv

\* The holder goes on without a wakeup, and keeps the lock.
LEMMA GoOn ==
  ASSUME IInv, NEW p \in Proc, NEW to \in Held,
         pc[p] \in Held, pc' = [pc EXCEPT ![p] = to],
         (pc[p] \in Writing <=> to \in Writing) /\ (pc[p] \in Reading <=> to \in Reading),
         UNCHANGED <<data, nread, nwrite, readopen, writeopen, freed, lock, ends, killed>>,
         to = "wbody" => readopen, to = "rempty" => Empty /\ writeopen, pc[p] # "rcopy"
  PROVE  IInv' /\ Simulates
<1>0. UNCHANGED pipeVars /\ lock = p /\ \A q \in Proc : pc[q] \in Held => q = p
  BY Alone DEF pipeVars
<1>1. TypeOK'
  BY DEF IInv, TypeOK, PCs, Held
<1>2. LockInv' /\ EndsInv'
  BY <1>0 DEF IInv, TypeOK, LockInv, EndsInv, Held
<1>3. WaitInv'
  BY <1>0, PipeUntouched DEF IInv, TypeOK, WaitInv, Held, Writing, Reading
<1> QED
  BY <1>0, <1>1, <1>2, <1>3, PipeUntouched DEF IInv

\* The holder returns, or goes to sleep, having woken those in W.
LEMMA LetGo ==
  ASSUME IInv, NEW p \in Proc, pc[p] \in Held, lock' = NoProc,
         NEW to \in {"user", "wsleep", "rsleep"}, NEW W \in {"none", "wsleep", "rsleep"},
         pc' \in [Proc -> PCs], pc'[p] = to,
         \A q \in Proc : q # p =>
           pc'[q] = IF pc[q] # W THEN pc[q] ELSE IF W = "wsleep" THEN "wlock" ELSE "rlock",
         UNCHANGED <<readopen, writeopen, freed, ends, killed>>,
         to = "wsleep" => pc[p] = "wbody" /\ Full',
         to = "rsleep" => pc[p] = "rempty" /\ Empty',
         W = "wsleep" \/ (pc[p] # "rcopy" /\ (Full => Full')),
         \/ W = "rsleep"
         \/ (pc[p] \notin {"wtest", "wbody"} /\ (Empty => Empty'))
         \/ \E q \in Proc : killed[q] 
         \/ \A q \in Proc : pc[q] # "rsleep"
  PROVE  LockInv' /\ EndsInv' /\ WaitInv'
<1>0. lock = p /\ \A q \in Proc : pc[q] \in Held => q = p
  BY Alone
<1>1. LockInv'
  BY <1>0, PipeAssumption DEF LockInv, Held
<1>2. EndsInv'
  <2>1. ASSUME NEW q \in Proc
        PROVE  /\ pc'[q] \in Writing => pc[q] \in Writing
               /\ pc'[q] \in Reading => pc[q] \in Reading
               /\ pc'[q] = "wclose" => pc[q] = "wclose"
               /\ pc'[q] = "rclose" => pc[q] = "rclose"
    <3>1. CASE q = p
      BY <3>1 DEF Writing, Reading
    <3>2. CASE q # p
      BY <3>2 DEF IInv, TypeOK, PCs, Writing, Reading
    <3> QED
      BY <3>1, <3>2
  <2> QED
    BY <2>1 DEF IInv, EndsInv
<1>3. \A q \in Proc : pc'[q] \notin Held
  BY <1>0 DEF Held
<1>4. WaitInv'
  BY <1>0, <1>3 DEF IInv, TypeOK, WaitInv, Held
<1> QED
  BY <1>1, <1>2, <1>4

\* The processes that a wakeup() wakes.
LEMMA Wakes ==
  ASSUME TypeOK, NEW p \in Proc, NEW to \in PCs
  PROVE  /\ [WakeReaders EXCEPT ![p] = to] \in [Proc -> PCs]
         /\ [WakeReaders EXCEPT ![p] = to][p] = to
         /\ \A q \in Proc : q # p =>
              [WakeReaders EXCEPT ![p] = to][q] = IF pc[q] # "rsleep" THEN pc[q] ELSE "rlock"
         /\ [WakeWriters EXCEPT ![p] = to] \in [Proc -> PCs]
         /\ [WakeWriters EXCEPT ![p] = to][p] = to
         /\ \A q \in Proc : q # p =>
              [WakeWriters EXCEPT ![p] = to][q] = IF pc[q] # "wsleep" THEN pc[q] ELSE "wlock"
<1>1. WakeReaders \in [Proc -> PCs] /\ WakeWriters \in [Proc -> PCs]
  BY DEF WakeReaders, WakeWriters, Woken, TypeOK, PCs
<1> QED
  BY <1>1 DEF WakeReaders, WakeWriters, Woken

\* A system call returns after wakeup(&pi->nread).
LEMMA WriteReturns ==
  ASSUME IInv, NEW p \in Proc, pc[p] \in {"wtest", "wbody"}, Finish(p, WakeReaders),
         UNCHANGED <<pipeVars, ends, killed>>
  PROVE  IInv' /\ Simulates
<1>0. /\ UNCHANGED <<data, nread, nwrite, readopen, writeopen, freed, ends, killed>>
      /\ UNCHANGED pipeVars /\ lock' = NoProc
      /\ pc' = [WakeReaders EXCEPT ![p] = "user"] /\ TypeOK
  BY DEF Finish, pipeVars, IInv
<1>1. /\ pc' \in [Proc -> PCs] /\ pc'[p] = "user"
      /\ \A q \in Proc : q # p => pc'[q] = IF pc[q] # "rsleep" THEN pc[q] ELSE "rlock"
  BY <1>0, Wakes DEF PCs
<1>2. TypeOK'
  BY <1>0, <1>1 DEF TypeOK
<1>3. LockInv' /\ EndsInv' /\ WaitInv'
  BY <1>0, <1>1, LetGo, PipeUntouched DEF Held
<1> QED
  BY <1>0, <1>2, <1>3, PipeUntouched DEF IInv

\* It returns -1, killed or because the read end is closed.
LEMMA GivesUp ==
  ASSUME IInv, NEW p \in Proc, pc[p] \in {"wtest", "rtest"}, GiveUp(p),
         killed[p] \/ (pc[p] = "wtest" /\ ~readopen),
         UNCHANGED <<pipeVars, ends, killed>>
  PROVE  IInv' /\ Simulates
<1>0. /\ UNCHANGED <<data, nread, nwrite, readopen, writeopen, freed, ends, killed>>
      /\ UNCHANGED pipeVars /\ lock' = NoProc
      /\ pc' = [pc EXCEPT ![p] = "user"] /\ TypeOK
  BY DEF GiveUp, Finish, pipeVars, IInv
<1>1. /\ pc' \in [Proc -> PCs] /\ pc'[p] = "user"
      /\ \A q \in Proc : q # p => pc'[q] = pc[q] /\ pc[q] # "none"
  BY <1>0 DEF TypeOK, PCs
<1>2. TypeOK'
  BY <1>0, <1>1 DEF TypeOK
<1>3. ~readopen => \A q \in Proc : pc[q] # "rsleep"
  BY DEF IInv, EndsInv, Reading
<1>4. (\E q \in Proc : killed[q]) \/ (\A q \in Proc : pc[q] # "rsleep")
  BY <1>3
<1>5. LockInv' /\ EndsInv' /\ WaitInv'
  BY <1>0, <1>1, <1>4, LetGo, PipeUntouched DEF Held
<1> QED
  BY <1>0, <1>2, <1>5, PipeUntouched DEF IInv

LEMMA WriteTestStep ==
  ASSUME IInv, NEW p \in Proc, WriteTest(p)
  PROVE  IInv' /\ Simulates
<1>0. pc[p] = "wtest" /\ UNCHANGED <<pipeVars, ends, killed>>
  BY DEF WriteTest
<1>1. CASE Finish(p, WakeReaders)
  BY <1>0, <1>1, WriteReturns
<1>2. CASE (~readopen \/ killed[p]) /\ GiveUp(p)
  BY <1>0, <1>2, GivesUp
<1>3. CASE readopen /\ Goto(p, "wbody") /\ UNCHANGED lock
  BY <1>0, <1>3, GoOn DEF Goto, pipeVars, Held, Writing, Reading
<1> QED
  BY <1>1, <1>2, <1>3 DEF WriteTest

LEMMA WriteFullStep ==
  ASSUME IInv, NEW p \in Proc, WriteFull(p)
  PROVE  IInv' /\ Simulates
<1>0. /\ UNCHANGED <<data, nread, nwrite, readopen, writeopen, freed, ends, killed>>
      /\ UNCHANGED pipeVars /\ lock' = NoProc /\ pc[p] = "wbody" /\ Full
      /\ pc' = [WakeReaders EXCEPT ![p] = "wsleep"] /\ TypeOK
  BY DEF WriteFull, pipeVars, IInv
<1>1. /\ pc' \in [Proc -> PCs] /\ pc'[p] = "wsleep"
      /\ \A q \in Proc : q # p => pc'[q] = IF pc[q] # "rsleep" THEN pc[q] ELSE "rlock"
  BY <1>0, Wakes DEF PCs
<1>2. TypeOK'
  BY <1>0, <1>1 DEF TypeOK
<1>3. LockInv' /\ EndsInv' /\ WaitInv'
  BY <1>0, <1>1, LetGo, PipeUntouched DEF Held
<1> QED
  BY <1>0, <1>2, <1>3, PipeUntouched DEF IInv

\* A byte written is one Put of the queue.
LEMMA WriteByteStep ==
  ASSUME IInv, NEW p \in Proc, NEW b \in Byte, WriteByte(p, b)
  PROVE  IInv' /\ Simulates
<1>0. /\ UNCHANGED <<nread, readopen, writeopen, freed, lock, ends, killed>>
      /\ pc[p] = "wbody" /\ ~Full /\ pc' = [pc EXCEPT ![p] = "wtest"]
      /\ data' = [data EXCEPT ![nwrite % PIPESIZE] = b] /\ nwrite' = (nwrite + 1) % WORD
      /\ TypeOK
  BY DEF WriteByte, Goto, IInv
<1>1. lock = p /\ \A q \in Proc : pc[q] \in Held => q = p
  BY <1>0, Alone DEF Held
<1>2. CountOf(nread, nwrite) < PIPESIZE
  <2>1. CountOf(nread, nwrite) # PIPESIZE
    BY <1>0, FullEmpty DEF TypeOK, Full
  <2>2. CountOf(nread, nwrite) \in Nat /\ CountOf(nread, nwrite) <= PIPESIZE /\ PIPESIZE \in Nat
    BY <1>0, CountCases, PipeAssumption DEF TypeOK
  <2> QED
    BY <2>1, <2>2
<1>3. /\ nwrite' \in Counter
      /\ CountOf(nread, nwrite') = CountOf(nread, nwrite) + 1
      /\ ContentsOf(data', nread, nwrite') = Append(ContentsOf(data, nread, nwrite), b)
  <2>1. /\ nread \in Counter /\ nwrite \in Counter
        /\ data \in [0..(PIPESIZE - 1) -> Byte]
    BY <1>0 DEF TypeOK
  <2> QED
    BY <1>0, <1>2, <2>1, PutRing, Zenon
<1>4. TypeOK'
  <2>1. data' \in [0..(PIPESIZE - 1) -> Byte]
    BY <1>0 DEF TypeOK
  <2>2. CountOf(nread', nwrite') <= PIPESIZE
    BY <1>0, <1>2, <1>3, CountCases, PipeAssumption DEF TypeOK
  <2> QED
    BY <1>0, <1>3, <2>1, <2>2 DEF TypeOK, PCs
<1>5. LockInv' /\ EndsInv'
  BY <1>0, <1>1 DEF IInv, TypeOK, LockInv, EndsInv, Held, Writing, Reading
<1>6. WaitInv'
  <2>1. \A q \in Proc : pc[q] # "wsleep"
    BY <1>0, <1>1 DEF IInv, WaitInv, Held
  <2>2. pc'[p] = "wtest" /\ \A q \in Proc : q # p => pc'[q] = pc[q] /\ pc[q] \notin Held
    BY <1>0, <1>1 DEF TypeOK
  <2> QED
    BY <1>0, <2>1, <2>2 DEF IInv, WaitInv, Held
<1>7. readopen /\ writeopen
  BY <1>0 DEF IInv, WaitInv, EndsInv, Writing
<1>8. Contents' = Append(Contents, b) /\ Len(Contents) < PIPESIZE
  BY <1>0, <1>2, <1>3, ContentsIs, ContentsIsNext, ContentsType DEF TypeOK
<1>9. Abstract!Put(b)
  BY <1>0, <1>7, <1>8 DEF Abstract!Put
<1> QED
  BY <1>4, <1>5, <1>6, <1>9 DEF IInv, Simulates, Abstract!Next

-----------------------------------------------------------------------------
(* The steps of piperead() *)

LEMMA ReadTestStep ==
  ASSUME IInv, NEW p \in Proc, ReadTest(p)
  PROVE  IInv' /\ Simulates
<1>0. pc[p] = "rtest" /\ UNCHANGED <<pipeVars, ends, killed>>
  BY DEF ReadTest
<1>1. CASE Goto(p, "rcopy") /\ UNCHANGED lock
  BY <1>0, <1>1, GoOn DEF Goto, pipeVars, Held, Writing, Reading
<1>2. CASE killed[p] /\ GiveUp(p)
  BY <1>0, <1>2, GivesUp
<1>3. CASE Empty /\ writeopen /\ Goto(p, "rempty") /\ UNCHANGED lock
  BY <1>0, <1>3, GoOn DEF Goto, pipeVars, Held, Writing, Reading
<1> QED
  BY <1>1, <1>2, <1>3 DEF ReadTest

LEMMA ReadSleepStep ==
  ASSUME IInv, NEW p \in Proc, ReadSleep(p)
  PROVE  IInv' /\ Simulates
<1>0. /\ UNCHANGED <<data, nread, nwrite, readopen, writeopen, freed, ends, killed>>
      /\ UNCHANGED pipeVars /\ lock' = NoProc /\ pc[p] = "rempty"
      /\ pc' = [pc EXCEPT ![p] = "rsleep"] /\ TypeOK
  BY DEF ReadSleep, Goto, pipeVars, IInv
<1>1. /\ pc' \in [Proc -> PCs] /\ pc'[p] = "rsleep"
      /\ \A q \in Proc : q # p => pc'[q] = pc[q] /\ pc[q] # "none"
  BY <1>0 DEF TypeOK, PCs
<1>2. TypeOK'
  BY <1>0, <1>1 DEF TypeOK
<1>3. Empty
  BY <1>0 DEF IInv, WaitInv
<1>4. LockInv' /\ EndsInv' /\ WaitInv'
  BY <1>0, <1>1, <1>3, LetGo, PipeUntouched DEF Held
<1> QED
  BY <1>0, <1>2, <1>4, PipeUntouched DEF IInv

\* A byte read is one Get of the queue.
LEMMA Taken ==
  ASSUME IInv, NEW p \in Proc, pc[p] = "rcopy", ~Empty,
         nread' = (nread + 1) % WORD, UNCHANGED <<data, nwrite, readopen, writeopen>>
  PROVE  nread' \in Counter /\ CountOf(nread', nwrite') <= PIPESIZE /\ Simulates
<1>1. /\ nread \in Counter /\ nwrite \in Counter /\ nread # nwrite
      /\ data \in [0..(PIPESIZE - 1) -> Byte]
  BY DEF IInv, TypeOK, Empty
<1>2. /\ nread' \in Counter
      /\ CountOf(nread', nwrite) = CountOf(nread, nwrite) - 1
      /\ ContentsOf(data, nread, nwrite) # <<>>
      /\ ContentsOf(data, nread', nwrite) = Tail(ContentsOf(data, nread, nwrite))
  BY <1>1, GetRing, Zenon
<1>3. CountOf(nread', nwrite') <= PIPESIZE
  BY <1>1, <1>2, CountCases, PipeAssumption DEF IInv, TypeOK
<1>4. readopen
  BY DEF IInv, EndsInv, Reading
<1>5. Contents # <<>> /\ Contents' = Tail(Contents)
  BY <1>2, ContentsIs, ContentsIsNext
<1>6. Abstract!Get
  BY <1>4, <1>5 DEF Abstract!Get
<1> QED
  BY <1>2, <1>3, <1>6 DEF Simulates, Abstract!Next

LEMMA ReadByteStep ==
  ASSUME IInv, NEW p \in Proc, ReadByte(p)
  PROVE  IInv' /\ Simulates
<1>0. /\ UNCHANGED <<data, nwrite, readopen, writeopen, freed, lock, ends, killed, pc>>
      /\ pc[p] = "rcopy" /\ ~Empty /\ nread' = (nread + 1) % WORD /\ TypeOK
  BY DEF ReadByte, IInv
<1>1. nread' \in Counter /\ CountOf(nread', nwrite') <= PIPESIZE /\ Simulates
  BY <1>0, Taken
<1>2. TypeOK'
  BY <1>0, <1>1 DEF TypeOK
<1>3. LockInv' /\ EndsInv'
  BY <1>0 DEF IInv, LockInv, EndsInv
<1>4. \A q \in Proc : pc[q] \in Held => q = p
  BY <1>0, Alone DEF Held
<1>5. WaitInv'
  BY <1>0, <1>4 DEF IInv, WaitInv, Held
<1> QED
  BY <1>1, <1>2, <1>3, <1>5 DEF IInv

\* piperead() returns after wakeup(&pi->nwrite), having taken a byte in vain or not.
LEMMA ReadReturns ==
  ASSUME IInv, NEW p \in Proc, ReadFault(p) \/ ReadEnd(p)
  PROVE  IInv' /\ Simulates
<1>0. /\ UNCHANGED <<data, nwrite, readopen, writeopen, freed, ends, killed>>
      /\ pc[p] = "rcopy" /\ lock' = NoProc
      /\ pc' = [WakeWriters EXCEPT ![p] = "user"] /\ TypeOK
      /\ nread' = nread \/ (~Empty /\ nread' = (nread + 1) % WORD)
  BY DEF ReadFault, ReadEnd, Finish, pipeVars, IInv
<1>1. /\ pc' \in [Proc -> PCs] /\ pc'[p] = "user"
      /\ \A q \in Proc : q # p => pc'[q] = IF pc[q] # "wsleep" THEN pc[q] ELSE "wlock"
  BY <1>0, Wakes DEF PCs
<1>2. nread' \in Counter /\ CountOf(nread', nwrite') <= PIPESIZE /\ Simulates
  <2>1. CASE nread' = nread
    BY <1>0, <2>1, PipeUntouched DEF TypeOK, pipeVars
  <2>2. CASE ~Empty /\ nread' = (nread + 1) % WORD
    BY <1>0, <2>2, Taken
  <2> QED
    BY <1>0, <2>1, <2>2
<1>3. TypeOK'
  BY <1>0, <1>1, <1>2 DEF TypeOK
<1>4. Empty => Empty'
  BY <1>0 DEF Empty
<1>5. LockInv' /\ EndsInv' /\ WaitInv'
  BY <1>0, <1>1, <1>4, LetGo DEF Held
<1> QED
  BY <1>2, <1>3, <1>5 DEF IInv

-----------------------------------------------------------------------------
(* fork(), close(), kill() *)

LEMMA ForkStep ==
  ASSUME IInv, NEW p \in Proc, NEW q \in Proc, Fork(p, q)
  PROVE  IInv' /\ Simulates
<1>0. /\ UNCHANGED pipeVars /\ UNCHANGED <<data, nread, nwrite, readopen, writeopen, freed, lock, killed, pc>>
      /\ pc[q] = "user" /\ ends' = [ends EXCEPT ![q] = ends[p]] /\ TypeOK
  BY DEF Fork, pipeVars, IInv
<1>1. TypeOK'
  BY <1>0 DEF TypeOK
<1>2. LockInv' /\ WaitInv'
  BY <1>0, PipeUntouched DEF IInv, LockInv, WaitInv
<1>3. EndsInv'
  <2>1. \A c \in Proc : ends'[c] = IF c = q THEN ends[p] ELSE ends[c]
    BY <1>0 DEF TypeOK
  <2> QED
    BY <1>0, <2>1 DEF IInv, EndsInv, Writing, Reading
<1> QED
  BY <1>0, <1>1, <1>2, <1>3, PipeUntouched DEF IInv

LEMMA CloseStep ==
  ASSUME IInv, NEW p \in Proc, NEW e \in {"r", "w"}, Close(p, e)
  PROVE  IInv' /\ Simulates
<1>0. /\ UNCHANGED pipeVars /\ UNCHANGED <<data, nread, nwrite, readopen, writeopen, freed, lock, killed>>
      /\ pc[p] = "user" /\ e \in ends[p] /\ ends' = [ends EXCEPT ![p] = ends[p] \ {e}] /\ TypeOK
      /\ pc' = [pc EXCEPT ![p] = IF ~LastClose(p, e) THEN "user" ELSE IF e = "w" THEN "wclose" ELSE "rclose"]
  BY DEF Close, Goto, pipeVars, IInv
<1>1. TypeOK'
  BY <1>0 DEF TypeOK, PCs
<1>2. \A q \in Proc : ends'[q] = IF q = p THEN ends[p] \ {e} ELSE ends[q]
  BY <1>0 DEF TypeOK
<1>3. /\ \A q \in Proc : q # p => pc'[q] = pc[q]
      /\ pc'[p] \in {"user", "wclose", "rclose"}
      /\ pc'[p] = "wclose" => e = "w" /\ LastClose(p, e)
      /\ pc'[p] = "rclose" => e = "r" /\ LastClose(p, e)
  BY <1>0 DEF TypeOK
<1>4. LockInv'
  BY <1>0, <1>3 DEF IInv, LockInv, Held
<1>5. WaitInv'
  BY <1>0, <1>3, PipeUntouched DEF IInv, WaitInv
<1>6. EndsInv'
  <2>1. /\ e = "w" => writeopen /\ \A q \in Proc : pc[q] # "wclose"
        /\ e = "r" => readopen /\ \A q \in Proc : pc[q] # "rclose"
    BY <1>0 DEF IInv, EndsInv
  <2>2. ASSUME NEW q \in Proc
        PROVE  /\ pc'[q] \in Writing => "w" \in ends'[q]
               /\ pc'[q] \in Reading => "r" \in ends'[q]
               /\ "w" \in ends'[q] => writeopen
               /\ "r" \in ends'[q] => readopen
    BY <1>0, <1>2, <1>3 DEF IInv, EndsInv, Writing, Reading
  <2>3. ASSUME NEW q \in Proc, pc'[q] = "wclose"
        PROVE  writeopen /\ \A c \in Proc : "w" \notin ends'[c] /\ (pc'[c] = "wclose" => c = q)
    BY <1>2, <1>3, <2>1, <2>3 DEF IInv, EndsInv, LastClose
  <2>4. ASSUME NEW q \in Proc, pc'[q] = "rclose"
        PROVE  readopen /\ \A c \in Proc : "r" \notin ends'[c] /\ (pc'[c] = "rclose" => c = q)
    BY <1>2, <1>3, <2>1, <2>4 DEF IInv, EndsInv, LastClose
  <2>5. freed' <=> ~readopen' /\ ~writeopen'
    BY <1>0 DEF IInv, EndsInv
  <2> QED
    BY <1>0, <2>2, <2>3, <2>4, <2>5 DEF EndsInv
<1> QED
  BY <1>0, <1>1, <1>4, <1>5, <1>6, PipeUntouched DEF IInv

\* pipeclose(): who waits for the other end is woken in the step that closes it.
LEMMA PipeCloseStep ==
  ASSUME IInv, NEW p \in Proc, PipeClose(p)
  PROVE  IInv' /\ Simulates
<1>0. /\ UNCHANGED <<data, nread, nwrite, lock, ends, killed>> /\ lock = NoProc /\ TypeOK
      /\ pc[p] \in {"wclose", "rclose"}
      /\ writeopen' = (writeopen /\ pc[p] # "wclose")
      /\ readopen' = (readopen /\ pc[p] # "rclose")
      /\ freed' = (freed \/ ~(readopen' \/ writeopen'))
  BY DEF PipeClose, IInv
<1>1. /\ pc' \in [Proc -> PCs] /\ pc'[p] = "user"
      /\ pc[p] = "wclose" =>
           \A q \in Proc : q # p => pc'[q] = IF pc[q] # "rsleep" THEN pc[q] ELSE "rlock"
      /\ pc[p] = "rclose" =>
           \A q \in Proc : q # p => pc'[q] = IF pc[q] # "wsleep" THEN pc[q] ELSE "wlock"
  BY <1>0, Wakes DEF PipeClose, CloseWakes, PCs
<1>2. Contents' = Contents /\ (Full' <=> Full) /\ (Empty' <=> Empty)
  BY <1>0 DEF Contents, Count, Full, Empty
<1>3. TypeOK'
  BY <1>0, <1>1 DEF TypeOK
<1>4. \A q \in Proc : pc[q] \notin Held
  BY <1>0, PipeAssumption DEF IInv, LockInv
<1>5. CASE pc[p] = "wclose"
  <2>0. /\ writeopen /\ writeopen' = FALSE /\ readopen' = readopen
        /\ \A q \in Proc : /\ "w" \notin ends[q] /\ pc[q] \notin Writing
                           /\ pc[q] = "wclose" => q = p
    BY <1>0, <1>5 DEF IInv, TypeOK, EndsInv
  <2>1. \A q \in Proc : /\ pc'[q] \notin Held /\ pc'[q] \notin Writing \cup {"wclose", "rsleep"}
                        /\ pc'[q] \in Reading => pc[q] \in Reading
                        /\ pc'[q] = "rclose" => pc[q] = "rclose"
    BY <1>1, <1>4, <1>5, <2>0 DEF Held, Writing, Reading
  <2>2. LockInv'
    BY <1>0, <2>1, PipeAssumption DEF LockInv
  <2>3. EndsInv'
    BY <1>0, <2>0, <2>1 DEF IInv, TypeOK, EndsInv
  <2>4. WaitInv'
    BY <2>1 DEF WaitInv, Held, Writing
  <2>5. Abstract!CloseWrite
    BY <1>2, <2>0 DEF Abstract!CloseWrite
  <2> QED
    BY <1>3, <2>2, <2>3, <2>4, <2>5 DEF IInv, Simulates, Abstract!Next
<1>6. CASE pc[p] = "rclose"
  <2>0. /\ readopen /\ readopen' = FALSE /\ writeopen' = writeopen
        /\ \A q \in Proc : /\ "r" \notin ends[q] /\ pc[q] \notin Reading
                           /\ pc[q] = "rclose" => q = p
    BY <1>0, <1>6 DEF IInv, TypeOK, EndsInv
  <2>1. \A q \in Proc : /\ pc'[q] \notin Held /\ pc'[q] \notin Reading \cup {"rclose", "wsleep"}
                        /\ pc'[q] \in Writing => pc[q] \in Writing
                        /\ pc'[q] = "wclose" => pc[q] = "wclose"
    BY <1>1, <1>4, <1>6, <2>0 DEF Held, Writing, Reading
  <2>2. LockInv'
    BY <1>0, <2>1, PipeAssumption DEF LockInv
  <2>3. EndsInv'
    BY <1>0, <2>0, <2>1 DEF IInv, TypeOK, EndsInv
  <2>4. WaitInv'
    BY <2>1 DEF WaitInv, Held, Reading
  <2>5. Abstract!CloseRead
    BY <1>2, <2>0 DEF Abstract!CloseRead
  <2> QED
    BY <1>3, <2>2, <2>3, <2>4, <2>5 DEF IInv, Simulates, Abstract!Next
<1> QED
  BY <1>0, <1>5, <1>6

LEMMA KillStep ==
  ASSUME IInv, NEW p \in Proc, Kill(p)
  PROVE  IInv' /\ Simulates
<1>0. /\ UNCHANGED pipeVars /\ UNCHANGED <<data, nread, nwrite, readopen, writeopen, freed, lock, ends>>
      /\ killed' = [killed EXCEPT ![p] = TRUE] /\ TypeOK
  BY DEF Kill, pipeVars, IInv
<1>1. pc' = [pc EXCEPT ![p] = IF pc[p] = "rsleep" THEN "rlock" ELSE IF pc[p] = "wsleep" THEN "wlock" ELSE pc[p]]
  BY DEF Kill, Goto
<1>2. TypeOK' /\ killed'[p]
  BY <1>0, <1>1 DEF TypeOK, PCs
<1>3. \A q \in Proc : /\ pc'[q] = pc[q] \/ (pc[q] = "rsleep" /\ pc'[q] = "rlock")
                                        \/ (pc[q] = "wsleep" /\ pc'[q] = "wlock")
                      /\ pc[q] = "rcopy" => pc'[q] = "rcopy"
  BY <1>0, <1>1 DEF TypeOK
<1>4. LockInv' /\ EndsInv'
  <2>1. \A q \in Proc : /\ pc'[q] \in Held <=> pc[q] \in Held
                        /\ pc'[q] \in Writing <=> pc[q] \in Writing
                        /\ pc'[q] \in Reading <=> pc[q] \in Reading
                        /\ pc'[q] = "wclose" <=> pc[q] = "wclose"
                        /\ pc'[q] = "rclose" <=> pc[q] = "rclose"
    BY <1>3 DEF Held, Writing, Reading
  <2> QED
    BY <1>0, <2>1 DEF IInv, LockInv, EndsInv
<1>5. WaitInv'
  BY <1>0, <1>2, <1>3, PipeUntouched DEF IInv, WaitInv
<1> QED
  BY <1>0, <1>2, <1>4, <1>5, PipeUntouched DEF IInv

-----------------------------------------------------------------------------
(* The theorems *)

LEMMA NextStep ==
  ASSUME IInv, [Next]_vars
  PROVE  IInv' /\ Simulates
<1>1. CASE UNCHANGED vars
  <2>0. /\ UNCHANGED pipeVars
        /\ UNCHANGED <<data, nread, nwrite, readopen, writeopen, freed, lock, ends, killed, pc>>
    BY <1>1 DEF vars, pipeVars
  <2> QED
    BY <2>0, PipeUntouched DEF IInv, TypeOK, LockInv, EndsInv, WaitInv
<1>2. ASSUME NEW p \in Proc, Holder(p) PROVE IInv' /\ Simulates
  <2>1. CASE WriteFault(p)
    BY <2>1, WriteReturns DEF WriteFault
  <2> QED
    BY <1>2, <2>1, WriteTestStep, WriteFullStep, WriteByteStep, ReadTestStep, ReadSleepStep,
       ReadByteStep, ReadReturns DEF Holder
<1> QED
  BY <1>1, <1>2, EnterStep, LockStep, ForkStep, CloseStep, PipeCloseStep, KillStep DEF Next

LEMMA Invariance == Spec => []IInv
<1>1. Init => IInv
  BY InitInv
<1>2. IInv /\ [Next]_vars => IInv'
  BY NextStep
<1> QED
  BY <1>1, <1>2, PTL DEF Spec

\* pipewrite(), piperead() and pipeclose() implement the bounded queue of bytes:
\* whatever the size of the ring, wherever its counters wrap around, and however
\* many readers and writers sleep, are killed or fail half-way.
THEOREM PipeImplements == Spec => Implements
<1>1. Init => Abstract!Init
  BY InitInv
<1>2. IInv /\ [Next]_vars => [Abstract!Next]_<<Contents, readopen, writeopen>>
  BY NextStep DEF Simulates
<1> QED
  BY <1>1, <1>2, Invariance, PTL DEF Spec, Implements, Abstract!Spec

\* The page of a pipe is freed by the last pipeclose() only after every read,
\* write and close of it is over.
THEOREM PipeNoUseAfterFree == Spec => []NoUseAfterFree
<1>1. IInv => NoUseAfterFree
  <2> SUFFICES ASSUME IInv, freed, NEW p \in Proc PROVE pc[p] = "user" /\ ends[p] = {}
    BY DEF NoUseAfterFree
  <2>1. ~readopen /\ ~writeopen
    BY DEF IInv, EndsInv
  <2>2. "r" \notin ends[p] /\ "w" \notin ends[p] /\ ends[p] \subseteq {"r", "w"}
    BY <2>1 DEF IInv, TypeOK, EndsInv
  <2>3. pc[p] \notin Writing \cup Reading \cup {"wclose", "rclose"} /\ pc[p] \in PCs
    BY <2>1, <2>2 DEF IInv, TypeOK, EndsInv
  <2> QED
    BY <2>2, <2>3 DEF PCs, Writing, Reading
<1> QED
  BY <1>1, Invariance, PTL

\* No wakeup of a pipe is missing: whenever its lock is free, a sleeping writer
\* finds it full and a sleeping reader (while nobody is killed) finds it empty.
THEOREM PipeSleepersWait == Spec => []SleepersWait
<1>1. IInv => SleepersWait
  <2> SUFFICES ASSUME IInv, lock = NoProc PROVE SleepersWait
    BY DEF SleepersWait
  <2>1. \A q \in Proc : pc[q] \notin Held
    BY PipeAssumption DEF IInv, LockInv
  <2> QED
    BY <2>1 DEF IInv, WaitInv, SleepersWait, Held
<1> QED
  BY <1>1, Invariance, PTL
=============================================================================
