------------------------------ MODULE LogProof ------------------------------
(* Proofs about the write-ahead log, for every number of processes, blocks *)
(* and contents and every size of the log: its inductive invariant, that   *)
(* the calls of the file system and the buffer cache, the steps of         *)
(* commit(), a crash and recovery keep it, what follows from it, and that  *)
(* the log implements AtomicDisk.                                          *)
EXTENDS Log, FiniteSetTheorems, TLAPS

-----------------------------------------------------------------------------
(* The inductive invariant.                                                *)

Injective(s) == \A i, j \in DOMAIN s : s[i] = s[j] => i = j

\* begin_op(), end_op() and commit() keep these in step.
ControlInv ==
  /\ outstanding = Cardinality(Active)
  /\ committing <=> stage \in {"write_log", "install", "finish"}
  /\ stage # "up" => Active = {}
  /\ stage = "up" /\ Active = {} => lh = <<>>
  /\ SleepersHaveWaker
  /\ panic # "none" => Active # {}
  /\ ~Booted => \A p \in Procs : pc[p] = "idle"

\* What the system calls in progress have logged.
WrittenInv ==
  \A p \in Active :
    /\ IsFiniteSet(written[p]) /\ Cardinality(written[p]) <= OpWrites
    /\ panic = "none" => written[p] \subseteq Logged

\* The header on disk: empty until the commit point, the whole transaction
\* until everything is installed.
HeaderInv ==
  /\ Injective(lh) /\ Injective(hdr) /\ Len(hdr) <= LOGSIZE
  /\ stage = "read_head" => lh = <<>>
  /\ stage \in {"up", "write_log", "finish"} => hdr = <<>>
  /\ stage \in {"install", "recover"} => hdr = lh
  /\ stage = "finish" => lh = <<>>

\* Where the current contents of a block are.
ContentsInv ==
  /\ panic = "none" => \A b \in Blocks : b \notin Uninstalled /\ cache[b] # Absent => cache[b] = home[b]
  /\ stage = "write_log" => \A i \in 1 .. tail : logblk[i] = cache[lh[i]]
  /\ stage = "install" => \A i \in tail + 1 .. Len(lh) : logblk[i] = cache[lh[i]]
  /\ stage \in {"install", "recover"} => \A i \in 1 .. tail : logblk[i] = home[lh[i]]

IInv ==
  /\ TypeOK
  /\ ControlInv
  /\ WrittenInv
  /\ HeaderInv
  /\ PinsMatchLog
  /\ ContentsInv
  /\ Reservation

-----------------------------------------------------------------------------
(* Lemmas on the sets the invariant counts.                                *)

\* The calls between begin_op() and end_op() are finitely many.
LEMMA ActiveFinite == IsFiniteSet(Active)
BY ZenonT(30), ProcsAssumption, FS_Subset DEF Active

\* So are the log blocks they may still need.
LEMMA ReservedFinite == IsFiniteSet(Reserved)
<1>1. IsFiniteSet(1 .. MAXOPBLOCKS)
  BY FS_Interval, SizeAssumption
<1>2. IsFiniteSet(Active \X (1 .. MAXOPBLOCKS))
  BY ZenonT(30), <1>1, ActiveFinite, FS_Product
<1>. QED BY ZenonT(30), <1>2, FS_Subset DEF Reserved

-----------------------------------------------------------------------------
(* Actions that only concern the buffer cache.                             *)

\* A step that touches only the cache leaves the log's part of the invariant alone.
LEMMA FrameInv ==
  ASSUME IInv,
         UNCHANGED <<lh, hdr, outstanding, committing, pc, written, stage, panic>>
  PROVE  ControlInv' /\ WrittenInv' /\ HeaderInv' /\ Reservation'
<1>1. Active' = Active /\ Reserved' = Reserved /\ Logged' = Logged /\ Booted' = Booted
  BY ZenonT(30) DEF Active, Reserved, Logged, Booted
<1>. QED
  BY ZenonT(30), <1>1 DEF IInv, ControlInv, WrittenInv, HeaderInv, Reservation, SleepersHaveWaker, Injective

\* bread() of bio.c keeps the invariant.
LEMMA BreadInv ==
  ASSUME IInv, NEW p \in Procs, NEW b \in Blocks, Bread(p, b) PROVE IInv'
<1>1. ControlInv' /\ WrittenInv' /\ HeaderInv' /\ Reservation'
  BY ZenonT(30), FrameInv DEF Bread, disk
<1>2. TypeOK'
  BY ZenonT(30) DEF IInv, TypeOK, Bread, disk, Contents
<1>3. Uninstalled' = Uninstalled
  BY ZenonT(30) DEF Bread, disk, Uninstalled, Logged
<1>4. PinsMatchLog'
  BY ZenonT(30), <1>3, ValsAssumption DEF IInv, TypeOK, PinsMatchLog, Bread, Contents
<1>5. ContentsInv'
  <2>1. \A c \in Blocks : cache[c] # Absent => cache'[c] = cache[c]
    BY ZenonT(30) DEF IInv, TypeOK, Bread, Contents
  <2>2. \A c \in Blocks : c \notin Uninstalled /\ cache'[c] # Absent /\ panic = "none" => cache'[c] = home[c]
    BY ZenonT(30) DEF IInv, TypeOK, ContentsInv, Bread, Contents
  <2>3. ASSUME stage = "write_log", NEW i \in 1 .. tail PROVE logblk[i] = cache'[lh[i]]
    BY <2>1, <2>3 DEF IInv, TypeOK, ContentsInv, PinsMatchLog, Uninstalled, Logged
  <2>4. ASSUME stage = "install", NEW i \in tail + 1 .. Len(lh) PROVE logblk[i] = cache'[lh[i]]
    BY <2>1, <2>4 DEF IInv, TypeOK, ContentsInv, PinsMatchLog, Uninstalled, Logged
  <2>. QED BY ZenonT(30), <1>3, <2>2, <2>3, <2>4 DEF ContentsInv, IInv, Bread, disk
<1>. QED BY ZenonT(30), <1>1, <1>2, <1>4, <1>5 DEF IInv

\* brelse() keeps the invariant.
LEMMA BrelseInv ==
  ASSUME IInv, NEW p \in Procs, NEW b \in Blocks, Brelse(p, b) PROVE IInv'
<1>1. ControlInv' /\ WrittenInv' /\ HeaderInv' /\ Reservation'
  BY ZenonT(30), FrameInv DEF Brelse, disk
<1>2. TypeOK'
  BY ZenonT(30) DEF IInv, TypeOK, Brelse, disk
<1>3. PinsMatchLog' /\ ContentsInv'
  BY DEF IInv, PinsMatchLog, ContentsInv, Uninstalled, Logged, Brelse, disk
<1>. QED BY ZenonT(30), <1>1, <1>2, <1>3 DEF IInv

\* bget() recycling an unreferenced buffer keeps it: no logged block is lost.
LEMMA EvictInv ==
  ASSUME IInv, NEW b \in Blocks, Evict(b) PROVE IInv'
<1>1. ControlInv' /\ WrittenInv' /\ HeaderInv' /\ Reservation'
  BY ZenonT(30), FrameInv DEF Evict, disk
<1>2. TypeOK'
  BY ZenonT(30) DEF IInv, TypeOK, Evict, disk
<1>3. Uninstalled' = Uninstalled /\ b \notin Uninstalled
  BY DEF IInv, PinsMatchLog, Evict, disk, Uninstalled, Logged
<1>4. PinsMatchLog'
  BY ZenonT(30), <1>3 DEF IInv, TypeOK, PinsMatchLog, Evict
<1>5. ContentsInv'
  <2>1. \A c \in Blocks : c # b => cache'[c] = cache[c]
    BY ZenonT(30) DEF IInv, TypeOK, Evict
  <2>2. cache'[b] = Absent
    BY ZenonT(30) DEF IInv, TypeOK, Evict
  <2>3. ASSUME stage = "write_log", NEW i \in 1 .. tail PROVE logblk[i] = cache'[lh[i]]
    <3>1. i \in DOMAIN lh /\ lh[i] \in Blocks /\ lh[i] \in Uninstalled
      BY <2>3 DEF IInv, TypeOK, Uninstalled, Logged
    <3>2. logblk[i] = cache[lh[i]]
      BY ZenonT(30), <2>3 DEF IInv, ContentsInv
    <3>. QED BY ZenonT(30), <1>3, <2>1, <3>1, <3>2
  <2>4. ASSUME stage = "install", NEW i \in tail + 1 .. Len(lh) PROVE logblk[i] = cache'[lh[i]]
    <3>1. i \in DOMAIN lh /\ lh[i] \in Blocks /\ lh[i] \in Uninstalled
      BY <2>4 DEF IInv, TypeOK, Uninstalled
    <3>2. logblk[i] = cache[lh[i]]
      BY ZenonT(30), <2>4 DEF IInv, ContentsInv
    <3>. QED BY ZenonT(30), <1>3, <2>1, <3>1, <3>2
  <2>. QED BY <1>3, <2>1, <2>2, <2>3, <2>4 DEF ContentsInv, IInv, Evict, disk
<1>. QED BY ZenonT(30), <1>1, <1>2, <1>4, <1>5 DEF IInv

-----------------------------------------------------------------------------
(* The calls of the file system.                                           *)

\* begin_op() keeps it, whether it admits the call or puts it to sleep.
LEMMA BeginOpInv ==
  ASSUME IInv, NEW p \in Procs, BeginOp(p) PROVE IInv'
<1>1. CASE MustWait
  <2>1. Active' = Active
    BY ZenonT(30), <1>1 DEF BeginOp, Active, IInv, TypeOK
  <2>2. Reserved' = Reserved
    BY ZenonT(30), <1>1, <2>1 DEF BeginOp, Reserved
  <2>3. TypeOK'
    BY ZenonT(30), <1>1 DEF IInv, TypeOK, BeginOp, disk, bufs, Places
  <2>4. Active # {} \/ committing
    <3>1. CASE Active = {}
      <4>1. outstanding = 0
        BY ZenonT(30), <3>1, FS_EmptySet DEF IInv, ControlInv
      <4>2. CASE stage = "up"
        BY <1>1, <3>1, <4>1, <4>2, SizeAssumption DEF IInv, ControlInv, MustWait
      <4>3. CASE stage # "up"
        BY ZenonT(30), <4>3 DEF IInv, TypeOK, ControlInv, BeginOp, Booted, Stages
      <4>. QED BY ZenonT(30), <4>2, <4>3
    <3>. QED BY ZenonT(30), <3>1
  <2>5. ControlInv'
    BY ZenonT(30), <1>1, <2>1, <2>4 DEF IInv, TypeOK, ControlInv, BeginOp, SleepersHaveWaker, Booted
  <2>6. WrittenInv' /\ HeaderInv' /\ Reservation' /\ PinsMatchLog' /\ ContentsInv'
    BY <1>1, <2>1, <2>2 DEF IInv, BeginOp, WrittenInv, HeaderInv, Reservation, PinsMatchLog,
       ContentsInv, Logged, Uninstalled, Injective, disk, bufs
  <2>. QED BY ZenonT(30), <2>3, <2>5, <2>6 DEF IInv
<1>2. CASE ~MustWait
  <2>1. stage = "up" /\ p \notin Active
    BY ZenonT(30), <1>2 DEF IInv, TypeOK, ControlInv, BeginOp, Booted, MustWait, Stages, Active
  <2>2. Active' = Active \cup {p}
    BY ZenonT(30), <1>2 DEF BeginOp, Active, IInv, TypeOK
  <2>3. outstanding' = Cardinality(Active')
    BY ZenonT(30), <1>2, <2>1, <2>2, ActiveFinite, FS_AddElement DEF IInv, ControlInv, BeginOp
  <2>4. TypeOK'
    <3>1. pc' \in [Procs -> Places] /\ outstanding' \in Nat
      BY SMTT(30), <1>2 DEF IInv, TypeOK, BeginOp, Places
    <3>2. written' \in [Procs -> SUBSET Blocks]
      BY ZenonT(30), <1>2 DEF IInv, TypeOK, BeginOp
    <3>. QED BY ZenonT(30), <3>1, <3>2 DEF IInv, TypeOK, BeginOp, disk, bufs
  <2>5. ControlInv'
    BY ZenonT(30), <1>2, <2>1, <2>2, <2>3 DEF IInv, TypeOK, ControlInv, BeginOp, SleepersHaveWaker, Booted, MustWait
  <2>6. WrittenInv'
    <3>1. written'[p] = {} /\ \A q \in Procs : q # p => written'[q] = written[q]
      BY ZenonT(30), <1>2 DEF IInv, TypeOK, BeginOp
    <3>2. Logged' = Logged /\ panic' = panic
      BY ZenonT(30) DEF BeginOp, Logged
    <3>. QED BY <2>2, <3>1, <3>2, FS_EmptySet, SizeAssumption DEF IInv, WrittenInv, Active
  <2>7. Reservation'
    <3>1. IsFiniteSet(Active')
      BY ZenonT(30), <2>2, ActiveFinite, FS_AddElement
    <3>2. IsFiniteSet(1 .. MAXOPBLOCKS) /\ Cardinality(1 .. MAXOPBLOCKS) = MAXOPBLOCKS
      BY FS_Interval, SizeAssumption
    <3>3. /\ IsFiniteSet(Active' \X (1 .. MAXOPBLOCKS))
          /\ Cardinality(Active' \X (1 .. MAXOPBLOCKS)) = (outstanding + 1) * MAXOPBLOCKS
      <4>1. Cardinality(Active') = outstanding + 1
        BY ZenonT(30), <1>2, <2>3 DEF BeginOp
      <4>. QED BY ZenonT(40), <3>1, <3>2, <4>1, FS_Product
    <3>4. Reserved' \subseteq Active' \X (1 .. MAXOPBLOCKS)
      BY ZenonT(30) DEF Reserved
    <3>5. Cardinality(Reserved') <= (outstanding + 1) * MAXOPBLOCKS /\ Cardinality(Reserved') \in Nat
      BY <3>3, <3>4, FS_Subset, FS_CardinalityType
    <3>6. Len(lh) + (outstanding + 1) * MAXOPBLOCKS <= LOGSIZE /\ lh' = lh
      BY <1>2, SizeAssumption DEF MustWait, BeginOp, IInv, TypeOK
    <3>7. (outstanding + 1) * MAXOPBLOCKS \in Nat /\ Len(lh) \in Nat /\ LOGSIZE \in Nat
      BY SizeAssumption DEF IInv, TypeOK
    <3>. QED BY <3>5, <3>6, <3>7 DEF Reservation
  <2>8. HeaderInv' /\ PinsMatchLog' /\ ContentsInv'
    BY <1>2 DEF IInv, BeginOp, HeaderInv, PinsMatchLog, ContentsInv, Logged, Uninstalled,
       Injective, disk, bufs
  <2>. QED BY ZenonT(30), <2>4, <2>5, <2>6, <2>7, <2>8 DEF IInv
<1>. QED BY ZenonT(30), <1>1, <1>2

\* end_op() keeps it: a call gives its reservation back as it ends.
LEMMA EndOpInv ==
  ASSUME IInv, panic = "none", NEW p \in Procs, EndOp(p) PROVE IInv'
<1>1. p \in Active /\ stage = "up" /\ ~committing
  BY ZenonT(30) DEF EndOp, Active, IInv, ControlInv
<1>2. Active' = Active \ {p}
  BY ZenonT(30), <1>1 DEF EndOp, Active, Leaves, Awake, IInv, TypeOK
<1>3. outstanding' = Cardinality(Active') /\ outstanding' \in Nat
  <2>1. Cardinality(Active \ {p}) = Cardinality(Active) - 1 /\ IsFiniteSet(Active \ {p})
    BY ZenonT(30), <1>1, ActiveFinite, FS_RemoveElement
  <2>2. Cardinality(Active \ {p}) \in Nat
    BY ZenonT(30), <2>1, FS_CardinalityType
  <2>. QED BY ZenonT(30), <1>2, <2>1, <2>2 DEF EndOp, IInv, ControlInv
<1>4. outstanding' = 0 <=> Active' = {}
  BY ZenonT(30), <1>2, <1>3, ActiveFinite, FS_RemoveElement, FS_EmptySet
<1>5. TypeOK'
  <2>1. pc' \in [Procs -> Places]
    BY ZenonT(30), <1>1 DEF IInv, TypeOK, EndOp, Places, Leaves, Awake
  <2>2. stage' \in Stages /\ tail' \in Nat /\ tail' <= Len(lh') /\ panic' \in Panics
    BY <1>1 DEF IInv, TypeOK, EndOp, Stages
  <2>3. committing' \in BOOLEAN
    BY ZenonT(30), <1>1 DEF IInv, TypeOK, EndOp
  <2>. QED BY ZenonT(30), <1>3, <2>1, <2>2, <2>3 DEF IInv, TypeOK, EndOp, disk, bufs
<1>6. ControlInv'
  <2>1. CASE outstanding' = 0
    BY ZenonT(30), <1>1, <1>3, <1>4, <2>1 DEF IInv, TypeOK, ControlInv, EndOp, SleepersHaveWaker, Booted, Active
  <2>2. CASE outstanding' # 0
    BY ZenonT(30), <1>1, <1>3, <1>4, <2>2 DEF IInv, TypeOK, ControlInv, EndOp, SleepersHaveWaker, Booted, Leaves, Awake
  <2>. QED BY ZenonT(30), <2>1, <2>2
<1>7. WrittenInv'
  BY <1>1, <1>2 DEF IInv, WrittenInv, EndOp, Logged
<1>8. HeaderInv' /\ PinsMatchLog' /\ ContentsInv'
  <2>1. CASE outstanding' = 0
    BY SMTT(90), <1>1, <2>1 DEF IInv, TypeOK, EndOp, HeaderInv, PinsMatchLog, ContentsInv, Logged, Uninstalled,
       Injective, disk, bufs
  <2>2. CASE outstanding' # 0
    BY SMTT(60), <1>1, <2>2 DEF IInv, EndOp, HeaderInv, PinsMatchLog, ContentsInv, Logged, Uninstalled,
       Injective, disk, bufs
  <2>. QED BY ZenonT(30), <2>1, <2>2
<1>9. Reservation'
  <2>1. Reserved' \subseteq Reserved
    BY ZenonT(30), <1>2 DEF Reserved, EndOp
  <2>2. Cardinality(Reserved') <= Cardinality(Reserved) /\ Cardinality(Reserved') \in Nat /\ Cardinality(Reserved) \in Nat
    BY ZenonT(30), <2>1, ReservedFinite, FS_Subset, FS_CardinalityType
  <2>. QED BY SMTT(30), <2>2, SizeAssumption DEF Reservation, EndOp, IInv, TypeOK
<1>. QED BY ZenonT(30), <1>5, <1>6, <1>7, <1>8, <1>9 DEF IInv

\* log_write() keeps it: a log block it takes was reserved by its caller.
LEMMA LogWriteInv ==
  ASSUME IInv, panic = "none", NEW p \in Procs, NEW b \in Blocks, NEW v \in Vals, LogWrite(p, b, v)
  PROVE  IInv'
<1>1. p \in Active /\ stage = "up"
  BY ZenonT(30) DEF LogWrite, Active, IInv, ControlInv
<1>2. Active' = Active
  BY ZenonT(30) DEF LogWrite, Active
<1>3. written[p] \subseteq Logged /\ IsFiniteSet(written[p]) /\ Cardinality(written[p]) \in Nat
  BY ZenonT(30), <1>1, FS_CardinalityType DEF IInv, WrittenInv
<1>4. /\ written'[p] = written[p] \cup {b}
      /\ \A q \in Procs : q # p => written'[q] = written[q]
  BY ZenonT(30) DEF LogWrite, IInv, TypeOK
<1>5. /\ IsFiniteSet(written'[p])
      /\ Cardinality(written'[p]) = IF b \in written[p] THEN Cardinality(written[p]) ELSE Cardinality(written[p]) + 1
  <2>1. /\ IsFiniteSet(written[p] \cup {b})
        /\ Cardinality(written[p] \cup {b}) = IF b \in written[p] THEN Cardinality(written[p]) ELSE Cardinality(written[p]) + 1
    BY <1>3, FS_AddElement, Zenon
  <2>. QED BY ZenonT(30), <1>4, <2>1
<1>6. Cardinality(written'[p]) <= OpWrites
  <2>1. b \in written[p] \/ Cardinality(written[p]) < OpWrites
    BY ZenonT(30) DEF LogWrite
  <2>2. Cardinality(written[p]) <= OpWrites
    BY ZenonT(30), <1>1 DEF IInv, WrittenInv
  <2>. QED BY SMTT(30), <1>3, <1>5, <2>1, <2>2, SizeAssumption
<1>7. outstanding >= 1
  <2>1. Cardinality(Active) \in Nat /\ Cardinality(Active) # 0
    BY ZenonT(30), <1>1, ActiveFinite, FS_EmptySet, FS_CardinalityType
  <2>. QED BY <2>1 DEF IInv, ControlInv
<1>8. \/ panic' = "too big a transaction" /\ lh' = lh /\ pin' = pin
      \/ panic' = "none" /\ b \in Logged /\ lh' = lh /\ pin' = pin
      \/ /\ panic' = "none" /\ b \notin Logged /\ Len(lh) < SIZE - 1
         /\ lh' = Append(lh, b) /\ pin' = [pin EXCEPT ![b] = @ + 1]
  <2>1. outstanding \in Nat /\ ~(outstanding < 1)
    BY <1>7 DEF IInv, TypeOK
  <2>2. CASE TooBig
    BY ZenonT(30), <2>2 DEF LogWrite
  <2>3. CASE ~TooBig
    <3>1. panic' = "none"
      BY ZenonT(30), <2>1, <2>3 DEF LogWrite
    <3>2. Len(lh) < SIZE - 1
      BY <2>3, SizeAssumption DEF TooBig, IInv, TypeOK
    <3>. QED BY ZenonT(30), <3>1, <3>2 DEF LogWrite
  <2>. QED BY ZenonT(30), <2>2, <2>3
<1>9. TypeOK'
  <2>1. lh' \in Seq(Blocks) /\ Len(lh') <= SIZE - 1 /\ tail' <= Len(lh') /\ tail' \in Nat
    <3>1. tail' = tail /\ tail \in Nat /\ tail <= Len(lh) /\ lh \in Seq(Blocks) /\ Len(lh) <= SIZE - 1
      BY ZenonT(30) DEF LogWrite, IInv, TypeOK
    <3>2. CASE lh' = lh
      BY ZenonT(30), <3>1, <3>2
    <3>3. CASE lh' = Append(lh, b) /\ Len(lh) < SIZE - 1
      BY <3>1, <3>3, SizeAssumption
    <3>. QED BY ZenonT(30), <1>8, <3>2, <3>3
  <2>2. pin' \in [Blocks -> Nat] /\ panic' \in Panics
    <3>1. pin \in [Blocks -> Nat]
      BY ZenonT(30) DEF IInv, TypeOK
    <3>2. [pin EXCEPT ![b] = @ + 1] \in [Blocks -> Nat]
      BY <3>1
    <3>3. panic' \in Panics
      BY ZenonT(30), <1>8 DEF Panics
    <3>. QED BY ZenonT(30), <1>8, <3>1, <3>2, <3>3
  <2>3. cache' \in [Blocks -> Vals \cup {Absent}] /\ written' \in [Procs -> SUBSET Blocks]
    BY ZenonT(30) DEF LogWrite, IInv, TypeOK
  <2>. QED BY ZenonT(30), <2>1, <2>2, <2>3 DEF LogWrite, IInv, TypeOK, disk
<1>10. Logged' = IF lh' = lh THEN Logged ELSE Logged \cup {b}
  <2>1. CASE lh' = lh
    BY ZenonT(30), <2>1 DEF Logged
  <2>2. CASE lh' = Append(lh, b)
    <3>1. lh \in Seq(Blocks)
      BY ZenonT(30) DEF IInv, TypeOK
    <3>2. /\ DOMAIN lh' = 1 .. Len(lh) + 1 /\ DOMAIN lh = 1 .. Len(lh) /\ Len(lh) \in Nat
          /\ lh'[Len(lh) + 1] = b /\ \A i \in 1 .. Len(lh) : lh'[i] = lh[i]
      BY <2>2, <3>1
    <3>3. 1 .. Len(lh) + 1 = (1 .. Len(lh)) \cup {Len(lh) + 1}
      BY <3>2
    <3>4. Len(lh') # Len(lh)
      BY <2>2, <3>1
    <3>5. ASSUME NEW x PROVE x \in Logged' <=> x \in Logged \cup {b}
      BY ZenonT(30), <3>2, <3>3 DEF Logged
    <3>. QED BY ZenonT(30), <2>2, <3>4, <3>5
  <2>. QED BY ZenonT(30), <1>8, <2>1, <2>2
<1>11. panic' = "none" => b \in Logged' /\ Logged \subseteq Logged'
  <2>1. ASSUME lh' = Append(lh, b) PROVE b \in Logged'
    <3>1. Len(lh) + 1 \in DOMAIN lh' /\ lh'[Len(lh) + 1] = b
      BY <2>1 DEF IInv, TypeOK
    <3>. QED BY ZenonT(30), <3>1 DEF Logged
  <2>. QED BY ZenonT(30), <1>8, <1>10, <2>1
<1>12. ControlInv'
  BY ZenonT(30), <1>1, <1>2 DEF IInv, ControlInv, LogWrite, SleepersHaveWaker, Booted
<1>13. WrittenInv'
  BY ZenonT(30), <1>2, <1>4, <1>5, <1>6, <1>11 DEF IInv, WrittenInv, Active
<1>14. HeaderInv'
  <2>1. Injective(lh')
    <3>1. CASE lh' = lh
      BY ZenonT(30), <3>1 DEF IInv, HeaderInv, Injective
    <3>2. CASE lh' = Append(lh, b) /\ b \notin Logged
      <4>1. DOMAIN lh' = 1 .. Len(lh) + 1 /\ DOMAIN lh = 1 .. Len(lh) /\ Len(lh) \in Nat
        BY SMTT(30), <3>2 DEF IInv, TypeOK
      <4>2. lh'[Len(lh) + 1] = b /\ \A i \in 1 .. Len(lh) : lh'[i] = lh[i] /\ lh[i] # b
        BY <3>2 DEF IInv, TypeOK, Logged
      <4>. QED BY <4>1, <4>2 DEF IInv, HeaderInv, Injective
    <3>. QED BY ZenonT(30), <1>8, <3>1, <3>2
  <2>. QED BY ZenonT(30), <1>1, <2>1 DEF IInv, HeaderInv, LogWrite, disk, Injective
<1>15. Uninstalled = Logged /\ Uninstalled' = Logged'
  BY ZenonT(30), <1>1 DEF Uninstalled, LogWrite
<1>16. /\ cache'[b] = v
       /\ \A c \in Blocks : c # b => cache'[c] = cache[c]
  BY ZenonT(30) DEF LogWrite, IInv, TypeOK
<1>17. PinsMatchLog'
  <2>1. CASE lh' = lh /\ pin' = pin
    BY ZenonT(30), <1>10, <1>15, <1>16, <2>1, ValsAssumption DEF IInv, PinsMatchLog
  <2>2. CASE b \notin Logged /\ Logged' = Logged \cup {b} /\ pin' = [pin EXCEPT ![b] = @ + 1]
    BY <1>15, <1>16, <2>2, ValsAssumption DEF IInv, TypeOK, PinsMatchLog
  <2>3. ASSUME lh' = Append(lh, b) PROVE lh' # lh
    BY SMTT(30), <2>3 DEF IInv, TypeOK
  <2>. QED BY ZenonT(30), <1>8, <1>10, <2>1, <2>2, <2>3
<1>18. ContentsInv'
  BY ZenonT(30), <1>1, <1>11, <1>15, <1>16 DEF IInv, ContentsInv, LogWrite, disk
<1>19. Reservation'
  <2> DEFINE c == Cardinality(written[p])
  <2>1. Reserved' \subseteq Reserved
    <3>1. c \in Nat /\ Cardinality(written'[p]) >= c /\ Cardinality(written'[p]) \in Nat
      BY SMTT(30), <1>3, <1>5
    <3>2. ASSUME NEW r \in Reserved' PROVE r \in Reserved
      <4>1. r \in Active \X (1 .. MAXOPBLOCKS) /\ r[2] > Cardinality(written'[r[1]])
        BY ZenonT(30), <1>2 DEF Reserved
      <4>2. r[1] \in Procs /\ r[2] \in Nat
        BY <4>1 DEF Active
      <4>3. r[2] > Cardinality(written[r[1]])
        BY SMTT(30), <1>4, <3>1, <4>1, <4>2
      <4>. QED BY ZenonT(30), <4>1, <4>3 DEF Reserved
    <3>. QED BY ZenonT(30), <3>2
  <2>2. /\ IsFiniteSet(Reserved') /\ Cardinality(Reserved') <= Cardinality(Reserved)
        /\ Cardinality(Reserved') \in Nat /\ Cardinality(Reserved) \in Nat
    BY ZenonT(30), <2>1, ReservedFinite, FS_Subset, FS_CardinalityType
  <2>3. CASE lh' = lh
    BY SMTT(30), <2>2, <2>3, SizeAssumption DEF Reservation, IInv, TypeOK
  <2>4. CASE lh' = Append(lh, b) /\ b \notin Logged
    <3>1. Cardinality(written'[p]) = c + 1 /\ c + 1 \in 1 .. MAXOPBLOCKS
      BY SMTT(30), <1>3, <1>5, <1>6, <2>4, SizeAssumption
    <3>2. <<p, c + 1>> \in Reserved /\ <<p, c + 1>> \notin Reserved'
      BY <1>1, <1>3, <3>1 DEF Reserved
    <3>3. Reserved' \subseteq Reserved \ {<<p, c + 1>>}
      BY ZenonT(30), <2>1, <3>2
    <3>4. IsFiniteSet(Reserved \ {<<p, c + 1>>}) /\ Cardinality(Reserved \ {<<p, c + 1>>}) = Cardinality(Reserved) - 1
      BY ZenonT(40), <3>2, ReservedFinite, FS_RemoveElement
    <3>5. Cardinality(Reserved') <= Cardinality(Reserved) - 1
      BY <3>3, <3>4, FS_Subset
    <3>6. Len(lh') = Len(lh) + 1 /\ Len(lh) \in Nat
      BY <2>4 DEF IInv, TypeOK
    <3>. QED BY SMTT(30), <2>2, <3>5, <3>6, SizeAssumption DEF Reservation, IInv
  <2>. QED BY ZenonT(30), <1>8, <2>3, <2>4
<1>. QED BY ZenonT(30), <1>9, <1>12, <1>13, <1>14, <1>17, <1>18, <1>19 DEF IInv

-----------------------------------------------------------------------------
(* commit().                                                               *)

\* A round of write_log() keeps it.
LEMMA WriteLogInv ==
  ASSUME IInv, WriteLog PROVE IInv'
<1> DEFINE b == lh[tail + 1]
<1>1. /\ stage = "write_log" /\ tail + 1 \in DOMAIN lh /\ tail + 1 \in LogSlots
      /\ b \in Blocks /\ b \in Logged /\ tail \in Nat /\ DOMAIN lh = 1 .. Len(lh) /\ Len(lh) \in Nat
  BY SMTT(30), SizeAssumption DEF WriteLog, IInv, TypeOK, Logged, LogSlots
<1>2. Contents(b) = cache[b] /\ cache[b] \in Vals
  BY ZenonT(30), <1>1 DEF IInv, TypeOK, PinsMatchLog, Uninstalled, Contents
<1>3. cache' = cache
  BY ZenonT(30), <1>1, <1>2 DEF WriteLog, IInv, TypeOK
<1>4. /\ logblk'[tail + 1] = cache[b]
      /\ \A i \in LogSlots : i # tail + 1 => logblk'[i] = logblk[i]
      /\ logblk' \in [LogSlots -> Vals]
  BY ZenonT(30), <1>1, <1>2 DEF WriteLog, IInv, TypeOK
<1>5. ControlInv' /\ WrittenInv' /\ HeaderInv' /\ Reservation'
  BY ZenonT(30), FrameInv DEF WriteLog
<1>6. tail' = tail + 1 /\ tail' <= Len(lh) /\ stage' = stage /\ lh' = lh
  BY <1>1 DEF WriteLog
<1>7. TypeOK'
  BY SMTT(30), <1>1, <1>3, <1>4, <1>6 DEF WriteLog, IInv, TypeOK
<1>8. Uninstalled' = Uninstalled
  BY ZenonT(30), <1>1, <1>6 DEF Uninstalled, Logged
<1>9. PinsMatchLog'
  BY ZenonT(30), <1>3, <1>8 DEF IInv, PinsMatchLog, WriteLog
<1>10. ContentsInv'
  <2>1. ASSUME NEW i \in 1 .. tail' PROVE logblk'[i] = cache'[lh'[i]]
    <3>1. CASE i = tail + 1
      BY ZenonT(30), <1>3, <1>4, <1>6, <3>1
    <3>2. CASE i # tail + 1
      <4>1. i \in 1 .. tail /\ i \in LogSlots
        BY <1>1, <1>6, <3>2, SizeAssumption DEF IInv, TypeOK, LogSlots
      <4>. QED BY ZenonT(30), <1>1, <1>3, <1>4, <1>6, <3>2, <4>1 DEF IInv, ContentsInv
    <3>. QED BY ZenonT(30), <3>1, <3>2
  <2>2. panic' = panic /\ home' = home
    BY ZenonT(30) DEF WriteLog
  <2>. QED BY ZenonT(30), <1>1, <1>3, <1>6, <1>8, <2>1, <2>2 DEF IInv, ContentsInv
<1>. QED BY ZenonT(30), <1>5, <1>7, <1>9, <1>10 DEF IInv

\* The commit point, the first write_head(), keeps it.
LEMMA WriteHeadInv ==
  ASSUME IInv, WriteHead PROVE IInv'
<1>1. stage = "write_log" /\ stage' = "install" /\ tail = Len(lh) /\ tail' = 0 /\ lh' = lh /\ hdr' = lh
  BY ZenonT(30) DEF WriteHead
<1>2. Active' = Active /\ Reserved' = Reserved /\ Logged' = Logged /\ Booted' = Booted
  BY ZenonT(30), <1>1 DEF Active, Reserved, Logged, Booted, WriteHead
<1>3. TypeOK'
  BY <1>1 DEF WriteHead, IInv, TypeOK, bufs, Stages
<1>4. ControlInv' /\ WrittenInv' /\ Reservation'
  BY ZenonT(30), <1>1, <1>2 DEF IInv, WriteHead, ControlInv, WrittenInv, Reservation, SleepersHaveWaker
<1>8. HeaderInv'
  <2>1. Cardinality(Reserved) \in Nat
    BY ZenonT(30), ReservedFinite, FS_CardinalityType
  <2>2. Len(lh) <= LOGSIZE
    BY <2>1, SizeAssumption DEF IInv, TypeOK, Reservation
  <2>. QED BY ZenonT(30), <1>1, <2>2 DEF IInv, HeaderInv, Injective
<1>5. Uninstalled' = Uninstalled
  <2>1. lh \in Seq(Blocks)
    BY ZenonT(30) DEF IInv, TypeOK
  <2>2. DOMAIN lh = 1 .. Len(lh)
    BY <2>1
  <2>3. Uninstalled = {lh[i] : i \in 1 .. Len(lh)}
    BY ZenonT(30), <1>1, <2>2 DEF Uninstalled, Logged
  <2>4. tail' + 1 = 1
    BY <1>1
  <2>5. Uninstalled' = {lh[i] : i \in 1 .. Len(lh)}
    BY ZenonT(30), <1>1, <2>4 DEF Uninstalled
  <2>. QED BY ZenonT(30), <2>3, <2>5
<1>6. PinsMatchLog'
  BY ZenonT(30), <1>5 DEF IInv, PinsMatchLog, WriteHead, bufs
<1>7. ContentsInv'
  BY <1>1, <1>5 DEF IInv, TypeOK, ContentsInv, WriteHead, bufs
<1>. QED BY ZenonT(30), <1>3, <1>4, <1>6, <1>7, <1>8 DEF IInv

\* A round of install_trans() keeps it, in a commit and in recovery.
LEMMA InstallTransInv ==
  ASSUME IInv, NEW recovering \in BOOLEAN, InstallTrans(recovering),
         stage = IF recovering THEN "recover" ELSE "install"
  PROVE  IInv'
<1> DEFINE b == lh[tail + 1]
<1>1. /\ tail + 1 \in DOMAIN lh /\ tail + 1 \in LogSlots /\ b \in Blocks
      /\ tail \in Nat /\ DOMAIN lh = 1 .. Len(lh) /\ Len(lh) \in Nat
      /\ logblk[tail + 1] \in Vals
  BY SMTT(30), SizeAssumption DEF InstallTrans, IInv, TypeOK, LogSlots
<1>2. /\ home'[b] = logblk[tail + 1] /\ \A c \in Blocks : c # b => home'[c] = home[c]
      /\ cache'[b] = logblk[tail + 1] /\ \A c \in Blocks : c # b => cache'[c] = cache[c]
  BY ZenonT(30), <1>1 DEF InstallTrans, IInv, TypeOK
<1>3. ControlInv' /\ WrittenInv' /\ HeaderInv' /\ Reservation'
  BY ZenonT(30), FrameInv DEF InstallTrans
<1>4. tail' = tail + 1 /\ stage' = stage /\ lh' = lh /\ logblk' = logblk /\ panic' = panic
  BY ZenonT(30) DEF InstallTrans
<1>5. \A i \in DOMAIN lh : i # tail + 1 => lh[i] # b
  BY ZenonT(30), <1>1 DEF IInv, HeaderInv, Injective
<1>6. Uninstalled' = Uninstalled \ {b}
  <2>1. CASE recovering
    BY ZenonT(30), <2>1, <1>4 DEF Uninstalled
  <2>2. CASE ~recovering
    <3>1. Uninstalled = {lh[i] : i \in tail + 1 .. Len(lh)} /\ Uninstalled' = {lh[i] : i \in tail + 2 .. Len(lh)}
      BY <1>1, <1>4, <2>2 DEF Uninstalled
    <3>2. tail + 1 .. Len(lh) = {tail + 1} \cup (tail + 2 .. Len(lh))
      BY <1>1
    <3>3. \A i \in tail + 2 .. Len(lh) : lh[i] # b
      BY <1>1, <1>5
    <3>. QED BY ZenonT(30), <3>1, <3>2, <3>3
  <2>. QED BY ZenonT(30), <2>1, <2>2
<1>7. /\ pin' \in [Blocks -> Nat]
      /\ \A c \in Blocks : c # b => pin'[c] = pin[c]
      /\ pin'[b] = 0
  <2>1. CASE recovering
    BY ZenonT(30), <1>1, <2>1 DEF InstallTrans, IInv, TypeOK, PinsMatchLog, Uninstalled
  <2>2. CASE ~recovering
    <3>1. b \in Uninstalled
      BY <1>1, <2>2 DEF Uninstalled
    <3>2. pin[b] = 1
      BY ZenonT(30), <1>1, <3>1 DEF IInv, PinsMatchLog
    <3>3. pin' = [pin EXCEPT ![b] = pin[b] - 1]
      BY ZenonT(30), <2>2 DEF InstallTrans
    <3>. QED BY <1>1, <3>2, <3>3 DEF IInv, TypeOK
  <2>. QED BY ZenonT(30), <2>1, <2>2
<1>8. TypeOK'
  <2>1. home' \in [Blocks -> Vals] /\ cache' \in [Blocks -> Vals \cup {Absent}]
    BY ZenonT(30), <1>1 DEF InstallTrans, IInv, TypeOK
  <2>2. tail' \in Nat /\ tail' <= Len(lh')
    BY <1>1, <1>4
  <2>. QED BY ZenonT(30), <1>7, <2>1, <2>2 DEF InstallTrans, IInv, TypeOK
<1>9. PinsMatchLog'
  <2>1. b \notin Uninstalled' /\ \A c \in Blocks : c # b => (c \in Uninstalled' <=> c \in Uninstalled)
    BY ZenonT(30), <1>6
  <2>2. ASSUME NEW c \in Blocks
        PROVE /\ pin'[c] = IF c \in Uninstalled' THEN 1 ELSE 0
              /\ c \in Uninstalled' => cache'[c] # Absent
    <3>1. CASE c = b
      BY ZenonT(30), <1>7, <2>1, <3>1
    <3>2. CASE c # b
      BY ZenonT(30), <1>2, <1>7, <2>1, <3>2 DEF IInv, PinsMatchLog
    <3>. QED BY ZenonT(30), <3>1, <3>2
  <2>. QED BY ZenonT(30), <2>2 DEF PinsMatchLog
<1>10. ContentsInv'
  <2>1. ASSUME panic = "none", NEW c \in Blocks, c \notin Uninstalled', cache'[c] # Absent
        PROVE  cache'[c] = home'[c]
    <3>1. CASE c = b
      BY ZenonT(30), <1>2, <3>1
    <3>2. CASE c # b
      BY ZenonT(30), <1>2, <1>6, <2>1, <3>2 DEF IInv, ContentsInv
    <3>. QED BY ZenonT(30), <3>1, <3>2
  <2>2. ASSUME NEW i \in 1 .. tail' PROVE logblk'[i] = home'[lh'[i]]
    <3>1. CASE i = tail + 1
      BY ZenonT(30), <1>2, <1>4, <3>1
    <3>2. CASE i # tail + 1
      <4>1. i \in 1 .. tail /\ i \in DOMAIN lh /\ lh[i] \in Blocks /\ lh[i] # b
        <5>1. i \in 1 .. tail /\ i \in DOMAIN lh
          BY SMTT(30), <1>1, <1>4, <3>2
        <5>. QED BY <1>5, <3>2, <5>1 DEF IInv, TypeOK
      <4>. QED BY ZenonT(30), <1>2, <1>4, <4>1 DEF IInv, ContentsInv
    <3>. QED BY ZenonT(30), <3>1, <3>2
  <2>3. ASSUME stage = "install", NEW i \in tail' + 1 .. Len(lh') PROVE logblk'[i] = cache'[lh'[i]]
    <3>1. i \in tail + 1 .. Len(lh) /\ i # tail + 1 /\ i \in DOMAIN lh
      BY <1>1, <1>4
    <3>2. lh[i] \in Blocks /\ lh[i] # b
      BY <1>5, <3>1 DEF IInv, TypeOK
    <3>. QED BY ZenonT(30), <1>2, <1>4, <2>3, <3>1, <3>2 DEF IInv, ContentsInv
  <2>. QED BY ZenonT(30), <1>4, <2>1, <2>2, <2>3 DEF ContentsInv
<1>. QED BY ZenonT(30), <1>3, <1>8, <1>9, <1>10 DEF IInv

\* The second write_head(), once all is installed, keeps it.
LEMMA ClearHeadInv ==
  ASSUME IInv, NEW next \in {"finish", "up"}, ClearHead(next),
         stage = IF next = "up" THEN "recover" ELSE "install"
  PROVE  IInv'
<1>1. lh' = <<>> /\ hdr' = <<>> /\ stage' = next /\ tail' = 0 /\ tail = Len(lh)
  BY ZenonT(30) DEF ClearHead
<1>2. Active = {} /\ Active' = {} /\ Reserved' = {}
  BY ZenonT(30) DEF ClearHead, Active, Reserved, IInv, ControlInv
<1>3. TypeOK'
  BY <1>1, SizeAssumption DEF ClearHead, IInv, TypeOK, bufs, Stages
<1>4. ControlInv'
  BY ZenonT(30), <1>1, <1>2 DEF ClearHead, IInv, ControlInv, SleepersHaveWaker, Booted
<1>5. WrittenInv' /\ HeaderInv'
  BY <1>1, <1>2, SizeAssumption DEF WrittenInv, HeaderInv, Injective
<1>6. Reservation'
  BY SMTT(30), <1>1, <1>2, FS_EmptySet, SizeAssumption DEF Reservation
<1>7. Uninstalled = {} /\ Uninstalled' = {}
  BY SMTT(30), <1>1 DEF Uninstalled, Logged, IInv, TypeOK
<1>8. PinsMatchLog' /\ ContentsInv'
  BY ZenonT(30), <1>1, <1>7 DEF IInv, PinsMatchLog, ContentsInv, ClearHead, bufs
<1>. QED BY ZenonT(30), <1>3, <1>4, <1>5, <1>6, <1>8 DEF IInv

\* The end of end_op() after a commit keeps it.
LEMMA FinishCommitInv ==
  ASSUME IInv, FinishCommit PROVE IInv'
<1>1. stage = "finish" /\ stage' = "up" /\ tail' = 0 /\ lh = <<>> /\ lh' = <<>> /\ committing' = FALSE
  BY ZenonT(30), SMTT(30) DEF FinishCommit, IInv, HeaderInv
<1>2. Active = {} /\ Active' = {} /\ Reserved' = {}
  BY ZenonT(30) DEF FinishCommit, Active, Awake, Reserved, IInv, ControlInv
<1>3. TypeOK'
  <2>1. pc' \in [Procs -> Places]
    BY ZenonT(30) DEF FinishCommit, IInv, TypeOK, Places, Awake
  <2>2. stage' \in Stages /\ tail' \in Nat /\ tail' <= Len(lh') /\ Len(lh') <= SIZE - 1 /\ lh' \in Seq(Blocks)
    BY <1>1, SizeAssumption DEF Stages
  <2>. QED BY ZenonT(30), <1>1, <2>1, <2>2 DEF FinishCommit, IInv, TypeOK, disk, bufs
<1>4. \A p \in Procs : pc'[p] # "asleep"
  BY ZenonT(30) DEF FinishCommit, Awake
<1>5. ControlInv'
  BY ZenonT(30), <1>1, <1>2, <1>4 DEF FinishCommit, IInv, ControlInv, SleepersHaveWaker, Booted
<1>6. WrittenInv' /\ HeaderInv' /\ Reservation'
  BY <1>1, <1>2, FS_EmptySet, SizeAssumption DEF FinishCommit, IInv, WrittenInv, HeaderInv,
     Reservation, Injective, disk
<1>7. Uninstalled = {} /\ Uninstalled' = {}
  BY SMTT(30), <1>1 DEF Uninstalled, Logged
<1>8. PinsMatchLog' /\ ContentsInv'
  BY ZenonT(30), <1>1, <1>7 DEF IInv, PinsMatchLog, ContentsInv, FinishCommit, disk, bufs
<1>. QED BY ZenonT(30), <1>3, <1>5, <1>6, <1>8 DEF IInv

-----------------------------------------------------------------------------
(* Crashes and the boot.                                                   *)

\* A machine that has just been switched on, with a log header on its disk
\* that names distinct blocks.
ColdState ==
  /\ home \in [Blocks -> Vals] /\ logblk \in [LogSlots -> Vals]
  /\ hdr \in Seq(Blocks) /\ Len(hdr) <= SIZE - 1 /\ Len(hdr) <= LOGSIZE /\ Injective(hdr)
  /\ lh = <<>> /\ outstanding = 0 /\ committing = FALSE
  /\ cache = [b \in Blocks |-> Absent] /\ pin = [b \in Blocks |-> 0]
  /\ holder = [b \in Blocks |-> NoProc]
  /\ pc = [p \in Procs |-> "idle"] /\ written = [p \in Procs |-> {}]
  /\ stage = "read_head" /\ tail = 0 /\ panic = "none"

\* A machine that has just been powered on satisfies the invariant.
LEMMA ColdStart == ColdState => IInv
<1> SUFFICES ASSUME ColdState PROVE IInv
  BY ZenonT(30)
<1> USE DEF ColdState
<1>1. Active = {} /\ Reserved = {} /\ Uninstalled = {}
  BY ZenonT(30) DEF Active, Reserved, Uninstalled
<1>2. TypeOK
  <2>1. lh \in Seq(Blocks) /\ Len(lh) = 0 /\ Len(lh) <= SIZE - 1
    BY SizeAssumption
  <2>2. pc \in [Procs -> Places] /\ written \in [Procs -> SUBSET Blocks]
    BY ZenonT(30) DEF Places
  <2>3. cache \in [Blocks -> Vals \cup {Absent}] /\ pin \in [Blocks -> Nat]
    BY ZenonT(30)
  <2>4. holder \in [Blocks -> Procs \cup {NoProc}]
    BY ZenonT(30)
  <2>5. stage \in Stages /\ panic \in Panics /\ outstanding \in Nat /\ tail \in Nat /\ tail <= Len(lh)
    BY <2>1 DEF Stages, Panics
  <2>. QED BY ZenonT(30), <2>1, <2>2, <2>3, <2>4, <2>5 DEF TypeOK
<1>3. ControlInv
  BY ZenonT(30), <1>1, FS_EmptySet DEF ControlInv, SleepersHaveWaker, Booted
<1>4. WrittenInv /\ HeaderInv
  BY <1>1 DEF WrittenInv, HeaderInv, Injective
<1>5. PinsMatchLog /\ ContentsInv
  BY ZenonT(30), <1>1 DEF PinsMatchLog, ContentsInv
<1>6. Reservation
  BY <1>1, FS_EmptySet, SizeAssumption DEF Reservation
<1>. QED BY ZenonT(30), <1>2, <1>3, <1>4, <1>5, <1>6 DEF IInv

\* So does the disk mkfs made.
LEMMA InitInv == Init => IInv
<1> SUFFICES ASSUME Init PROVE IInv
  BY ZenonT(30)
<1>1. logblk \in [LogSlots -> Vals] /\ hdr \in Seq(Blocks) /\ Len(hdr) <= SIZE - 1 /\ Len(hdr) <= LOGSIZE /\ Injective(hdr)
  BY ValsAssumption, SizeAssumption DEF Init, Injective
<1>. QED BY ZenonT(30), <1>1, ColdStart DEF Init, ColdState

\* A crash at any point keeps it, with the block being written torn.
LEMMA CrashInv ==
  ASSUME IInv, Crash PROVE IInv'
<1>1. home' \in [Blocks -> Vals] /\ logblk' \in [LogSlots -> Vals] /\ hdr' = hdr
  <2>1. CASE UNCHANGED disk
    BY ZenonT(30), <2>1 DEF disk, IInv, TypeOK
  <2>2. ASSUME tail < Len(lh), NEW v \in Vals, logblk' = [logblk EXCEPT ![tail + 1] = v], UNCHANGED <<home, hdr>>
        PROVE  home' \in [Blocks -> Vals] /\ logblk' \in [LogSlots -> Vals] /\ hdr' = hdr
    BY ZenonT(30), <2>2 DEF IInv, TypeOK
  <2>3. ASSUME tail < Len(lh), NEW v \in Vals, home' = [home EXCEPT ![lh[tail + 1]] = v], UNCHANGED <<logblk, hdr>>
        PROVE  home' \in [Blocks -> Vals] /\ logblk' \in [LogSlots -> Vals] /\ hdr' = hdr
    BY ZenonT(30), <2>3 DEF IInv, TypeOK
  <2>. QED BY ZenonT(30), <2>1, <2>2, <2>3 DEF Crash, TornWrite
<1>2. ColdState'
  BY ZenonT(30), <1>1 DEF Crash, ColdState, IInv, TypeOK, HeaderInv, Injective
<1>3. ColdState' => IInv'
  BY ColdStart, PTL
<1>. QED BY ZenonT(30), <1>2, <1>3

\* read_head() in the recovery keeps it.
LEMMA ReadHeadInv ==
  ASSUME IInv, ReadHead PROVE IInv'
<1>1. stage = "read_head" /\ stage' = "recover" /\ tail' = 0 /\ lh' = hdr /\ hdr' = hdr
  BY ZenonT(30), SMTT(30) DEF ReadHead, disk
<1>2. Active = {} /\ Active' = {} /\ Reserved' = {} /\ Uninstalled = {} /\ Uninstalled' = {}
  BY ZenonT(30), <1>1 DEF ReadHead, Active, Reserved, Uninstalled, IInv, ControlInv
<1>3. TypeOK'
  BY SMTT(30), <1>1 DEF ReadHead, IInv, TypeOK, disk, bufs, Stages
<1>4. ControlInv' /\ WrittenInv' /\ HeaderInv'
  BY ZenonT(30), <1>1, <1>2 DEF ReadHead, IInv, ControlInv, WrittenInv, HeaderInv, SleepersHaveWaker, Booted,
     Injective
<1>5. PinsMatchLog' /\ ContentsInv'
  <2>1. PinsMatchLog'
    BY ZenonT(30), <1>1, <1>2 DEF IInv, PinsMatchLog, ReadHead, disk, bufs
  <2>2. \A i \in 1 .. tail' : FALSE
    BY ONLY <1>1
  <2>3. ContentsInv'
    BY ZenonT(30), <1>1, <1>2, <2>2 DEF IInv, ContentsInv, ReadHead, disk, bufs
  <2>. QED BY ZenonT(30), <2>1, <2>3
<1>6. Reservation'
  BY <1>1, <1>2, FS_EmptySet, SizeAssumption DEF Reservation, IInv, TypeOK, HeaderInv
<1>. QED BY ZenonT(30), <1>3, <1>4, <1>5, <1>6 DEF IInv

-----------------------------------------------------------------------------
(* The invariant theorems.                                                 *)

\* Every step of the kernel keeps the invariant.
LEMMA NextInv == IInv /\ [Next]_vars => IInv'
<1> SUFFICES ASSUME IInv, [Next]_vars PROVE IInv'
  BY ZenonT(30)
<1>1. CASE panic = "none" /\ \E p \in Procs : Caller(p)
  BY ZenonT(30), <1>1, BeginOpInv, EndOpInv, BreadInv, BrelseInv, LogWriteInv DEF Caller
<1>2. CASE panic = "none" /\ \E b \in Blocks : Evict(b)
  BY ZenonT(30), <1>2, EvictInv
<1>3. CASE Committer
  <2>1. CASE Install
    BY ZenonT(30), <2>1, InstallTransInv DEF Install
  <2>2. CASE EraseHead
    BY ZenonT(30), <2>2, ClearHeadInv DEF EraseHead
  <2>. QED BY ZenonT(30), <1>3, <2>1, <2>2, WriteLogInv, WriteHeadInv, FinishCommitInv DEF Committer
<1>4. CASE Boot
  <2>1. CASE Recover
    BY ZenonT(30), <2>1, InstallTransInv DEF Recover
  <2>2. CASE RecoverDone
    BY ZenonT(30), <2>2, ClearHeadInv DEF RecoverDone
  <2>. QED BY ZenonT(30), <1>4, <2>1, <2>2, ReadHeadInv DEF Boot
<1>5. CASE Crash
  BY ZenonT(30), <1>5, CrashInv
<1>6. CASE UNCHANGED vars
  <2>1. ControlInv' /\ WrittenInv' /\ HeaderInv' /\ Reservation'
    BY ZenonT(30), <1>6, FrameInv DEF vars
  <2>2. TypeOK'
    BY ZenonT(30), <1>6 DEF vars, IInv, TypeOK
  <2>3. Uninstalled' = Uninstalled
    BY ZenonT(30), <1>6 DEF vars, Uninstalled, Logged
  <2>4. PinsMatchLog'
    BY ZenonT(30), <1>6, <2>3 DEF vars, IInv, PinsMatchLog
  <2>5. ContentsInv'
    BY ZenonT(30), <1>6, <2>3 DEF vars, IInv, ContentsInv
  <2>. QED BY ZenonT(30), <2>1, <2>2, <2>4, <2>5 DEF IInv
<1>. QED BY ZenonT(30), <1>1, <1>2, <1>3, <1>4, <1>5, <1>6 DEF Next

\* log.c keeps the whole invariant through every interleaving and crash.
THEOREM InvCorrect == Spec => []IInv
BY InitInv, NextInv, PTL DEF Spec

\* Type correctness; in particular the log never runs over the blocks that
\* mkfs gave it, and bunpin() never takes a count below zero.
THEOREM TypeCorrect == Spec => []TypeOK
<1>1. IInv => TypeOK
  BY DEF IInv
<1>. QED BY <1>1, InvCorrect, PTL

\* begin_op() always has room for what the calls it admitted may write.
THEOREM ReservationCorrect == Spec => []Reservation
<1>1. IInv => Reservation
  BY DEF IInv
<1>. QED BY <1>1, InvCorrect, PTL

\* The blocks that are logged and not installed are exactly the pinned ones.
THEOREM PinsCorrect == Spec => []PinsMatchLog
<1>1. IInv => PinsMatchLog
  BY DEF IInv
<1>. QED BY <1>1, InvCorrect, PTL

\* Nobody is left asleep in begin_op() with no end_op() or commit to come.
THEOREM WakerCorrect == Spec => []SleepersHaveWaker
<1>1. IInv => SleepersHaveWaker
  BY SMTT(30) DEF IInv, ControlInv
<1>. QED BY <1>1, InvCorrect, PTL

\* A quiet file system has everything in its home blocks.
THEOREM DurableCorrect == Spec => []QuiescentDurable
<1>1. IInv => QuiescentDurable
  <2> SUFFICES ASSUME IInv, stage = "up", outstanding = 0
               PROVE  lh = <<>> /\ hdr = <<>> /\ \A b \in Blocks : home[b] = Contents(b)
    BY ZenonT(30) DEF QuiescentDurable
  <2>1. Active = {}
    BY ZenonT(30), ActiveFinite, FS_EmptySet DEF IInv, ControlInv
  <2>2. lh = <<>> /\ hdr = <<>> /\ Uninstalled = {}
    BY <2>1 DEF IInv, ControlInv, HeaderInv, Uninstalled, Logged
  <2>3. panic = "none"
    BY ZenonT(30), <2>1 DEF IInv, ControlInv
  <2>. QED BY <2>2, <2>3 DEF IInv, ContentsInv, Contents
<1>. QED BY <1>1, InvCorrect, PTL

\* A call that has not yet used up its writes finds the log not full.
LEMMA RoomLeft ==
  ASSUME IInv, Headroom, NEW p \in Active
  PROVE  ~TooBig /\ ~(outstanding < 1) /\ ~committing
<1> DEFINE c == Cardinality(written[p])
           Mine == {p} \X (c + 1 .. MAXOPBLOCKS)
<1>1. c \in Nat /\ c <= OpWrites
  BY ZenonT(30), FS_CardinalityType DEF IInv, WrittenInv
<1>2. IsFiniteSet({p}) /\ Cardinality({p}) = 1
  BY ZenonT(30), FS_Singleton
<1>3. IsFiniteSet(c + 1 .. MAXOPBLOCKS) /\ Cardinality(c + 1 .. MAXOPBLOCKS) = MAXOPBLOCKS - c
  <2>1. ASSUME NEW n \in Nat, n <= MAXOPBLOCKS
        PROVE  IsFiniteSet(n + 1 .. MAXOPBLOCKS) /\ Cardinality(n + 1 .. MAXOPBLOCKS) = MAXOPBLOCKS - n
    <3>1. n + 1 \in Int /\ MAXOPBLOCKS \in Int
      BY SizeAssumption
    <3>2. /\ IsFiniteSet(n + 1 .. MAXOPBLOCKS)
          /\ Cardinality(n + 1 .. MAXOPBLOCKS) = IF n + 1 > MAXOPBLOCKS THEN 0 ELSE MAXOPBLOCKS - (n + 1) + 1
      BY <3>1, FS_Interval, Zenon
    <3>. QED BY <2>1, <3>2, SizeAssumption
  <2>2. c <= MAXOPBLOCKS
    BY <1>1, SizeAssumption
  <2>. QED BY ZenonT(30), <1>1, <2>1, <2>2
<1>4. Cardinality(Mine) = 1 * (MAXOPBLOCKS - c)
  <2>1. ASSUME NEW T, IsFiniteSet(T) PROVE Cardinality({p} \X T) = 1 * Cardinality(T)
    BY ZenonT(30), <1>2, <2>1, FS_Product
  <2>. QED BY ZenonT(30), <1>3, <2>1
<1>5. Mine \subseteq Reserved
  BY <1>1, SizeAssumption DEF Reserved
<1>6. Cardinality(Mine) <= Cardinality(Reserved) /\ Cardinality(Reserved) \in Nat
  BY ZenonT(30), <1>5, ReservedFinite, FS_Subset, FS_CardinalityType
<1>7. Len(lh) + (MAXOPBLOCKS - c) <= LOGSIZE
  BY SMTT(30), <1>1, <1>4, <1>6, SizeAssumption DEF IInv, TypeOK, Reservation
<1>8. ~TooBig
  BY <1>1, <1>7, SizeAssumption DEF TooBig, Headroom, IInv, TypeOK
<1>9. outstanding # 0
  BY ZenonT(30), ActiveFinite, FS_EmptySet DEF IInv, ControlInv
<1>10. ~committing
  BY ZenonT(30) DEF IInv, ControlInv
<1>. QED BY <1>8, <1>9, <1>10 DEF IInv, TypeOK

\* With that much headroom no panic of log.c is ever reached.
THEOREM NeverPanics == Headroom => (Spec => []NoPanic)
<1> SUFFICES ASSUME Headroom PROVE Spec => []NoPanic
  BY ZenonT(30)
<1>1. Init => NoPanic
  BY ZenonT(30), SMTT(30) DEF Init, NoPanic
<1>2. IInv /\ NoPanic /\ [Next]_vars => NoPanic'
  <2> SUFFICES ASSUME IInv, NoPanic, [Next]_vars PROVE NoPanic'
    BY ZenonT(30)
  <2>1. ASSUME NEW p \in Procs, Caller(p) PROVE NoPanic'
    <3>1. CASE pc[p] = "op"
      <4>1. p \in Active
        BY ZenonT(30), <3>1 DEF Active
      <4>2. ~TooBig /\ ~(outstanding < 1) /\ ~committing
        BY ZenonT(30), <4>1, RoomLeft
      <4>. QED BY ZenonT(30), <2>1, <4>2 DEF NoPanic, Caller, BeginOp, EndOp, Bread, Brelse, LogWrite
    <3>2. CASE pc[p] # "op"
      BY ZenonT(30), <2>1, <3>2 DEF NoPanic, Caller, BeginOp, EndOp, Bread, Brelse, LogWrite
    <3>. QED BY ZenonT(30), <3>1, <3>2
  <2>. QED BY ZenonT(30), <2>1 DEF NoPanic, Next, vars, Evict, Committer, WriteLog, WriteHead, Install, InstallTrans,
     EraseHead, ClearHead, FinishCommit, Boot, ReadHead, Recover, RecoverDone, Crash
<1>. QED BY <1>1, <1>2, InvCorrect, PTL DEF Spec

-----------------------------------------------------------------------------
(* The write-ahead log implements AtomicDisk: groups of system calls       *)
(* become durable all together or not at all, across crashes.              *)


\* Block hdr[i] is current in the log's i-th block, any other block at home.
LogViewOK ==
  /\ \A i \in DOMAIN hdr : LogView[hdr[i]] = logblk[i]
  /\ \A b \in Blocks : (\A i \in DOMAIN hdr : hdr[i] # b) => LogView[b] = home[b]
  /\ LogView \in [Blocks -> Vals]

\* LogView is what install_trans() would leave: the logged block where
\* the header names one, the home block elsewhere.
LEMMA LogViewIs == IInv => LogViewOK
<1> SUFFICES ASSUME IInv PROVE LogViewOK
  BY ZenonT(30)
<1>1. ASSUME NEW i \in DOMAIN hdr PROVE LogView[hdr[i]] = logblk[i]
  <2>1. hdr[i] \in Blocks
    BY DEF IInv, TypeOK
  <2>2. \A j \in DOMAIN hdr : hdr[j] = hdr[i] => j <= i
    BY DEF IInv, TypeOK, HeaderInv, Injective
  <2>3. \A k \in DOMAIN hdr : hdr[k] = hdr[i] => k = i
    BY ZenonT(30) DEF IInv, HeaderInv, Injective
  <2>4. (CHOOSE k \in DOMAIN hdr : hdr[k] = hdr[i] /\ \A j \in DOMAIN hdr : hdr[j] = hdr[i] => j <= k) = i
    BY ZenonT(30), <2>2, <2>3
  <2>. QED BY ZenonT(30), <2>1, <2>4 DEF LogView
<1>2. ASSUME NEW b \in Blocks, \A i \in DOMAIN hdr : hdr[i] # b PROVE LogView[b] = home[b]
  BY ZenonT(30), <1>2 DEF LogView
<1>3. DOMAIN hdr \subseteq LogSlots
  BY SizeAssumption DEF IInv, TypeOK, LogSlots
<1>4. ASSUME NEW b \in Blocks PROVE LogView[b] \in Vals
  <2>1. CASE \E i \in DOMAIN hdr : hdr[i] = b
    BY ZenonT(30), <1>1, <1>3, <2>1 DEF IInv, TypeOK
  <2>2. CASE \A i \in DOMAIN hdr : hdr[i] # b
    BY ZenonT(30), <1>2, <2>2 DEF IInv, TypeOK
  <2>. QED BY ZenonT(30), <2>1, <2>2
<1>5. LogView \in [Blocks -> Vals]
  BY ZenonT(30), <1>4 DEF LogView
<1>. QED BY ZenonT(30), <1>1, <1>2, <1>5 DEF LogViewOK

\* Two disks look the same after recovery if they agree on the header and on
\* what it makes current.
LEMMA SameLogView ==
  ASSUME IInv, IInv', hdr' = hdr,
         \A i \in DOMAIN hdr : logblk'[i] = logblk[i],
         \A b \in Blocks : (\A i \in DOMAIN hdr : hdr[i] # b) => home'[b] = home[b]
  PROVE  LogView' = LogView
<1>1. LogViewOK /\ LogViewOK'
  BY LogViewIs, PTL
<1>2. \A b \in Blocks : LogView'[b] = LogView[b]
  BY <1>1 DEF LogViewOK
<1>. QED BY <1>1, <1>2 DEF LogViewOK

\* What recovery would produce depends on the disk only, and what the file
\* system reads on the disk, the cache and whether the kernel is up.
LEMMA SameDisk ==
  ASSUME UNCHANGED <<home, logblk, hdr>>
  PROVE  LogView' = LogView
BY DEF LogView

LEMMA SameCache ==
  ASSUME UNCHANGED <<home, logblk, hdr>>, UNCHANGED cache, Booted' = Booted
  PROVE  LogView' = LogView /\ MemView' = MemView
<1>1. LogView' = LogView
  BY ZenonT(30), SameDisk
<1>2. \A b \in Blocks : Contents(b)' = Contents(b)
  BY ZenonT(30) DEF Contents
<1>. QED BY ZenonT(30), <1>1, <1>2 DEF MemView

\* What the file system reads is unchanged if every block's contents are.
LEMMA SameMemView ==
  ASSUME Booted, Booted', \A b \in Blocks : Contents(b)' = Contents(b)
  PROVE  MemView' = MemView
BY ZenonT(30) DEF MemView

\* A step that leaves the three abstract variables alone is a stutter.
LEMMA StutterStep ==
  ASSUME LogView' = LogView, MemView' = MemView, Active' = Active
  PROVE  [Atomic!Next]_(Atomic!vars)
BY ZenonT(30) DEF Atomic!vars

-----------------------------------------------------------------------------
(* The calls of the file system.                                           *)

\* begin_op() is a Begin of the atomic disk, or nothing when it sleeps.
LEMMA RefineBeginOp ==
  ASSUME IInv, NEW p \in Procs, BeginOp(p)
  PROVE  [Atomic!Next]_(Atomic!vars)
<1>1. LogView' = LogView /\ MemView' = MemView
  BY ZenonT(30), SameCache DEF BeginOp, disk, bufs, Booted
<1>2. CASE MustWait
  <2>1. Active' = Active
    BY ZenonT(30), <1>2 DEF BeginOp, Active, IInv, TypeOK
  <2>. QED BY ZenonT(30), <1>1, <2>1, StutterStep
<1>3. CASE ~MustWait
  <2>1. Active' = Active \cup {p} /\ p \notin Active
    BY ZenonT(30), <1>3 DEF BeginOp, Active, IInv, TypeOK
  <2>. QED BY ZenonT(30), <1>1, <2>1 DEF Atomic!Next, Atomic!Begin
<1>. QED BY ZenonT(30), <1>2, <1>3

\* end_op() is an End.
LEMMA RefineEndOp ==
  ASSUME IInv, panic = "none", NEW p \in Procs, EndOp(p)
  PROVE  [Atomic!Next]_(Atomic!vars)
<1>1. p \in Active /\ stage = "up" /\ ~committing
  BY ZenonT(30) DEF EndOp, Active, IInv, ControlInv
<1>2. Booted /\ Booted'
  BY ZenonT(30), <1>1 DEF EndOp, Booted
<1>3. LogView' = LogView /\ MemView' = MemView
  BY ZenonT(30), <1>2, SameCache DEF EndOp, disk, bufs, Booted
<1>4. Active' = Active \ {p}
  BY ZenonT(30), <1>1 DEF EndOp, Active, Leaves, Awake, IInv, TypeOK
<1>. QED BY ZenonT(30), <1>1, <1>3, <1>4 DEF Atomic!Next, Atomic!End

\* bread() changes nothing that can be seen.
LEMMA RefineBread ==
  ASSUME IInv, NEW p \in Procs, NEW b \in Blocks, Bread(p, b)
  PROVE  [Atomic!Next]_(Atomic!vars)
<1>1. LogView' = LogView /\ Active' = Active
  BY DEF Bread, disk, LogView, Active
<1>2. Booted /\ Booted'
  BY ZenonT(30) DEF Bread, Booted
<1>3. \A c \in Blocks : Contents(c)' = Contents(c)
  BY ZenonT(30) DEF Bread, disk, Contents, IInv, TypeOK
<1>. QED BY ZenonT(30), <1>1, <1>2, <1>3, SameMemView, StutterStep

\* Nor does brelse().
LEMMA RefineBrelse ==
  ASSUME NEW p \in Procs, NEW b \in Blocks, Brelse(p, b)
  PROVE  [Atomic!Next]_(Atomic!vars)
<1>1. LogView' = LogView /\ Active' = Active /\ MemView' = MemView
  BY DEF Brelse, disk, LogView, Active, MemView, Contents, Booted
<1>. QED BY ZenonT(30), <1>1, StutterStep

\* Nor does recycling a buffer.
LEMMA RefineEvict ==
  ASSUME IInv, panic = "none", NEW b \in Blocks, Evict(b)
  PROVE  [Atomic!Next]_(Atomic!vars)
<1>1. LogView' = LogView /\ Active' = Active /\ Booted' = Booted
  BY DEF Evict, disk, LogView, Active, Booted
<1>2. \A c \in Blocks : Contents(c)' = Contents(c)
  <2>1. cache[b] = home[b]
    BY DEF Evict, IInv, PinsMatchLog, ContentsInv
  <2>. QED BY ZenonT(30), <2>1 DEF Evict, disk, Contents, IInv, TypeOK
<1>3. MemView' = MemView
  BY ZenonT(30), <1>1, <1>2 DEF MemView
<1>. QED BY ZenonT(30), <1>1, <1>3, StutterStep

\* log_write() is a Write to memory, not to the disk.
LEMMA RefineLogWrite ==
  ASSUME IInv, NEW p \in Procs, NEW b \in Blocks, NEW v \in Vals, LogWrite(p, b, v)
  PROVE  [Atomic!Next]_(Atomic!vars)
<1>1. p \in Active /\ Active' = Active /\ LogView' = LogView
  <2>1. pc[p] = "op" /\ pc' = pc /\ hdr' = hdr /\ home' = home /\ logblk' = logblk
    BY ZenonT(30) DEF LogWrite, disk
  <2>. QED BY <2>1 DEF LogView, Active
<1>2. Booted /\ Booted'
  <2>1. stage = "up"
    BY ZenonT(30), <1>1 DEF IInv, ControlInv
  <2>2. stage' = stage
    BY ZenonT(30) DEF LogWrite
  <2>. QED BY ZenonT(30), <2>1, <2>2 DEF Booted
<1>3. MemView' = [MemView EXCEPT ![b] = v]
  <2>1. \A c \in Blocks : Contents(c)' = IF c = b THEN v ELSE Contents(c)
    BY ZenonT(30), ValsAssumption DEF LogWrite, disk, Contents, IInv, TypeOK
  <2>. QED BY ZenonT(30), <1>2, <2>1 DEF MemView
<1>. QED BY ZenonT(30), <1>1, <1>3 DEF Atomic!Next, Atomic!Write

-----------------------------------------------------------------------------
(* commit(): the header write is the commit, the rest changes nothing that *)
(* can be seen.                                                            *)

\* A round of write_log() cannot be seen: the header does not name the log yet.
LEMMA RefineWriteLog ==
  ASSUME IInv, IInv', WriteLog PROVE [Atomic!Next]_(Atomic!vars)
<1>1. hdr = <<>> /\ hdr' = <<>> /\ home' = home /\ Active' = Active /\ Booted /\ Booted'
  BY ZenonT(30) DEF WriteLog, IInv, HeaderInv, Active, Booted
<1>2. LogView' = LogView
  BY <1>1, SameLogView
<1>3. lh[tail + 1] \in Blocks
  BY SMTT(30) DEF WriteLog, IInv, TypeOK
<1>4. \A c \in Blocks : Contents(c)' = Contents(c)
  BY ZenonT(30), <1>1, <1>3 DEF WriteLog, Contents, IInv, TypeOK
<1>. QED BY ZenonT(30), <1>1, <1>2, <1>4, SameMemView, StutterStep

\* The first write_head() is the Commit.
LEMMA RefineWriteHead ==
  ASSUME IInv, IInv', panic = "none", WriteHead PROVE [Atomic!Next]_(Atomic!vars)
<1>1. /\ stage = "write_log" /\ tail = Len(lh) /\ hdr' = lh /\ home' = home /\ logblk' = logblk /\ cache' = cache
      /\ Active = {} /\ Active' = {} /\ Booted /\ Booted'
  BY ZenonT(30) DEF WriteHead, bufs, IInv, ControlInv, Active, Booted
<1>2. MemView' = MemView
  BY ZenonT(30), <1>1, SameMemView DEF Contents
<1>3. LogViewOK'
  BY LogViewIs, PTL
<1>4. ASSUME NEW b \in Blocks PROVE LogView'[b] = Contents(b)
  <2>1. CASE b \in Logged
    <3>1. PICK i \in DOMAIN lh : lh[i] = b
      BY ZenonT(30), <2>1 DEF Logged
    <3>2. LogView'[b] = logblk[i]
      BY ZenonT(30), <1>1, <1>3, <3>1 DEF LogViewOK
    <3>3. i \in 1 .. tail
      BY <1>1 DEF IInv, TypeOK
    <3>4. logblk[i] = cache[b]
      BY ZenonT(30), <1>1, <3>1, <3>3 DEF IInv, ContentsInv
    <3>5. cache[b] # Absent
      BY ZenonT(30), <1>1, <2>1 DEF IInv, PinsMatchLog, Uninstalled
    <3>. QED BY ZenonT(30), <3>2, <3>4, <3>5 DEF Contents
  <2>2. CASE b \notin Logged
    <3>1. LogView'[b] = home[b]
      BY ZenonT(30), <1>1, <1>3, <2>2 DEF LogViewOK, Logged
    <3>2. cache[b] # Absent => cache[b] = home[b]
      BY ZenonT(30), <1>1, <2>2 DEF IInv, ContentsInv, Uninstalled
    <3>. QED BY ZenonT(30), <3>1, <3>2 DEF Contents
  <2>. QED BY ZenonT(30), <2>1, <2>2
<1>5. LogView' = MemView
  BY ZenonT(30), <1>1, <1>3, <1>4 DEF LogViewOK, MemView
<1>. QED BY ZenonT(30), <1>1, <1>2, <1>5 DEF Atomic!Next, Atomic!Commit

\* Nor can a round of install_trans(): it writes what recovery would.
LEMMA RefineInstallTrans ==
  ASSUME IInv, IInv', panic = "none", NEW recovering \in BOOLEAN, InstallTrans(recovering),
         stage = IF recovering THEN "recover" ELSE "install"
  PROVE  [Atomic!Next]_(Atomic!vars)
<1> DEFINE b == lh[tail + 1]
<1>1. /\ hdr = lh /\ hdr' = hdr /\ logblk' = logblk /\ stage' = stage /\ tail + 1 \in DOMAIN lh /\ b \in Blocks
      /\ tail \in Nat /\ Len(lh) \in Nat /\ tail + 1 <= Len(lh)
  <2>1. /\ hdr = lh /\ hdr' = hdr /\ logblk' = logblk /\ stage' = stage
        /\ lh \in Seq(Blocks) /\ tail \in Nat /\ tail < Len(lh)
    BY ZenonT(30) DEF InstallTrans, IInv, TypeOK, HeaderInv
  <2>2. /\ tail + 1 \in DOMAIN lh /\ lh[tail + 1] \in Blocks
        /\ Len(lh) \in Nat /\ tail + 1 <= Len(lh)
    BY ONLY <2>1
  <2>. QED BY ONLY ZenonT(30), <2>1, <2>2
<1>2. /\ home'[b] = logblk[tail + 1] /\ \A c \in Blocks : c # b => home'[c] = home[c]
      /\ cache'[b] = logblk[tail + 1] /\ \A c \in Blocks : c # b => cache'[c] = cache[c]
  BY ZenonT(30), <1>1 DEF InstallTrans, IInv, TypeOK
<1>3. LogView' = LogView
  BY ZenonT(30), <1>1, <1>2, SameLogView
<1>4. Active' = Active
  BY ZenonT(30) DEF InstallTrans, Active
<1>5. CASE recovering
  BY ZenonT(30), <1>1, <1>3, <1>4, <1>5, StutterStep DEF MemView, Booted
<1>6. CASE ~recovering
  <2>1. Booted /\ Booted'
    BY ZenonT(30), <1>1, <1>6 DEF Booted
  <2>2. logblk[tail + 1] = cache[b] /\ b \in Uninstalled
    <3>1. tail + 1 \in tail + 1 .. Len(lh)
      BY ONLY <1>1
    <3>2. stage = "install"
      BY <1>6, ZenonT(30)
    <3>. QED BY ONLY IInv, <3>1, <3>2, ZenonT(30) DEF IInv, ContentsInv, Uninstalled
  <2>3. cache[b] # Absent
    BY ZenonT(30), <1>1, <2>2 DEF IInv, PinsMatchLog
  <2>4. ASSUME NEW c \in Blocks PROVE Contents(c)' = Contents(c)
    <3>1. CASE c = b
      BY ZenonT(30), <1>2, <2>2, <2>3, <3>1 DEF Contents
    <3>2. CASE c # b
      BY ZenonT(30), <1>2, <3>2 DEF Contents
    <3>. QED BY ZenonT(30), <3>1, <3>2
  <2>. QED BY ZenonT(30), <1>3, <1>4, <2>1, <2>4, SameMemView, StutterStep
<1>. QED BY ZenonT(30), <1>5, <1>6

\* Nor can clearing the header: every block is at home by then.
LEMMA RefineClearHead ==
  ASSUME IInv, IInv', panic = "none", NEW next \in {"finish", "up"}, ClearHead(next),
         stage = IF next = "up" THEN "recover" ELSE "install"
  PROVE  [Atomic!Next]_(Atomic!vars)
<1>1. /\ hdr = lh /\ hdr' = <<>> /\ home' = home /\ cache' = cache /\ tail = Len(lh) /\ stage' = next
      /\ Active' = Active
  BY ZenonT(30) DEF ClearHead, bufs, IInv, HeaderInv, Active
<1>2. LogViewOK /\ LogViewOK'
  BY LogViewIs, PTL
<1>3. ASSUME NEW b \in Blocks PROVE LogView[b] = home[b]
  <2>1. CASE \A i \in DOMAIN hdr : hdr[i] # b
    BY ZenonT(30), <1>2, <2>1 DEF LogViewOK
  <2>2. ASSUME NEW i \in DOMAIN hdr, hdr[i] = b PROVE LogView[b] = home[b]
    <3>1. LogView[b] = logblk[i]
      BY ZenonT(30), <1>2, <2>2 DEF LogViewOK
    <3>2. i \in 1 .. tail
      BY SMTT(30), <1>1 DEF IInv, TypeOK
    <3>. QED BY ZenonT(30), <1>1, <2>2, <3>1, <3>2 DEF IInv, ContentsInv
  <2>. QED BY ZenonT(30), <2>1, <2>2
<1>4. ASSUME NEW b \in Blocks PROVE LogView'[b] = home[b]
  <2>1. \A i \in DOMAIN hdr' : hdr'[i] # b
    BY ONLY <1>1
  <2>. QED BY ZenonT(30), <1>1, <1>2, <2>1 DEF LogViewOK
<1>5. LogView' = LogView
  <2>1. LogView \in [Blocks -> Vals] /\ LogView' \in [Blocks -> Vals]
    BY ZenonT(30), <1>2 DEF LogViewOK
  <2>2. \A b \in Blocks : LogView'[b] = LogView[b]
    BY ZenonT(30), <1>3, <1>4
  <2>. QED BY ONLY <2>1, <2>2
<1>6. ASSUME NEW b \in Blocks PROVE Contents(b) = home[b] /\ Contents(b)' = home[b]
  <2>1. Uninstalled = {}
    <3>1. tail \in Nat /\ tail = Len(lh)
      BY ZenonT(30), <1>1 DEF IInv, TypeOK
    <3>2. \A i \in tail + 1 .. Len(lh) : FALSE
      BY ONLY <3>1
    <3>3. stage \notin {"up", "write_log"}
      BY ZenonT(30)
    <3>. QED BY ZenonT(30), <3>2, <3>3 DEF Uninstalled
  <2>. QED BY ZenonT(30), <1>1, <2>1 DEF Contents, IInv, ContentsInv
<1>7. Booted'
  BY ZenonT(30), <1>1 DEF Booted
<1>8. MemView' = MemView
  <2>1. MemView' = [b \in Blocks |-> home[b]]
    BY ZenonT(30), <1>6, <1>7 DEF MemView
  <2>2. MemView = [b \in Blocks |-> home[b]]
    BY ZenonT(30), <1>2, <1>3, <1>6 DEF MemView, LogViewOK
  <2>. QED BY ZenonT(30), <2>1, <2>2
<1>. QED BY ZenonT(30), <1>1, <1>5, <1>8, StutterStep

\* Nor can the end of end_op().
LEMMA RefineFinishCommit ==
  ASSUME IInv, FinishCommit PROVE [Atomic!Next]_(Atomic!vars)
<1>1. LogView' = LogView
  BY ZenonT(30), SameDisk DEF FinishCommit, disk
<1>2. Booted /\ Booted' /\ \A c \in Blocks : Contents(c)' = Contents(c)
  BY ZenonT(30) DEF FinishCommit, disk, bufs, Booted, Contents
<1>3. Active = {} /\ Active' = {}
  BY ZenonT(30) DEF FinishCommit, IInv, ControlInv, Active, Awake
<1>. QED BY ZenonT(30), <1>1, <1>2, <1>3, SameMemView, StutterStep

-----------------------------------------------------------------------------
(* Crashes and the boot.                                                   *)

\* A crash is a Crash: whole groups survive or vanish.
LEMMA RefineCrash ==
  ASSUME IInv, IInv', Crash PROVE [Atomic!Next]_(Atomic!vars)
<1>1. LogView' = LogView
  <2>1. CASE UNCHANGED disk
    BY ZenonT(30), <2>1, SameLogView DEF disk
  <2>2. ASSUME stage = "write_log", NEW v \in Vals, logblk' = [logblk EXCEPT ![tail + 1] = v], UNCHANGED <<home, hdr>>
        PROVE  LogView' = LogView
    <3>1. hdr = <<>>
      BY ZenonT(30), <2>2 DEF IInv, HeaderInv
    <3>. QED BY <2>2, <3>1, SameLogView
  <2>3. ASSUME stage \in {"install", "recover"}, tail < Len(lh), NEW v \in Vals,
               home' = [home EXCEPT ![lh[tail + 1]] = v], UNCHANGED <<logblk, hdr>>
        PROVE  LogView' = LogView
    <3>1. hdr = lh /\ tail + 1 \in DOMAIN hdr
      BY SMTT(30), <2>3 DEF IInv, HeaderInv, TypeOK
    <3>2. \A c \in Blocks : c # lh[tail + 1] => home'[c] = home[c]
      BY ZenonT(30), <2>3 DEF IInv, TypeOK
    <3>. QED BY ZenonT(30), <2>3, <3>1, <3>2, SameLogView
  <2>. QED BY ZenonT(30), <2>1, <2>2, <2>3 DEF Crash, TornWrite
<1>2. Active' = {} /\ MemView' = LogView'
  BY ZenonT(30) DEF Crash, Active, MemView, Booted
<1>. QED BY ZenonT(30), <1>1, <1>2 DEF Atomic!Next, Atomic!Crash

\* Nor can read_head() in the recovery.
LEMMA RefineReadHead ==
  ASSUME IInv, ReadHead PROVE [Atomic!Next]_(Atomic!vars)
<1>1. LogView' = LogView /\ Active' = Active
  BY DEF ReadHead, disk, LogView, Active
<1>2. MemView' = MemView
  BY ZenonT(30), <1>1 DEF ReadHead, MemView, Booted
<1>. QED BY ZenonT(30), <1>1, <1>2, StutterStep

-----------------------------------------------------------------------------
\* The disk mkfs made maps to an initial state of the atomic disk.
LEMMA RefineInit == Init => Atomic!Init
<1> SUFFICES ASSUME Init PROVE Atomic!Init
  BY ZenonT(30)
<1>1. LogView = home /\ home \in [Blocks -> Vals]
  BY DEF Init, LogView
<1>2. MemView = LogView /\ Active = {}
  BY ZenonT(30) DEF Init, MemView, Booted, Active
<1>. QED BY ZenonT(30), <1>1, <1>2 DEF Atomic!Init

\* Every step of log.c is a step of the atomic disk or a stutter.
LEMMA RefineNext ==
  IInv /\ IInv' /\ [Next]_vars => [Atomic!Next]_(Atomic!vars)
<1> SUFFICES ASSUME IInv, IInv', [Next]_vars PROVE [Atomic!Next]_(Atomic!vars)
  BY ZenonT(30)
<1>1. CASE panic = "none" /\ \E p \in Procs : Caller(p)
  BY ZenonT(30), <1>1, RefineBeginOp, RefineEndOp, RefineBread, RefineBrelse, RefineLogWrite DEF Caller
<1>2. CASE panic = "none" /\ \E b \in Blocks : Evict(b)
  BY ZenonT(30), <1>2, RefineEvict
<1>3. CASE panic = "none" /\ Committer
  <2>1. CASE Install
    BY ZenonT(30), <1>3, <2>1, RefineInstallTrans DEF Install
  <2>2. CASE EraseHead
    BY ZenonT(30), <1>3, <2>2, RefineClearHead DEF EraseHead
  <2>. QED BY ZenonT(30), <1>3, <2>1, <2>2, RefineWriteLog, RefineWriteHead, RefineFinishCommit DEF Committer
<1>4. CASE panic = "none" /\ Boot
  <2>1. CASE Recover
    BY ZenonT(30), <1>4, <2>1, RefineInstallTrans DEF Recover
  <2>2. CASE RecoverDone
    BY ZenonT(30), <1>4, <2>2, RefineClearHead DEF RecoverDone
  <2>. QED BY ZenonT(30), <1>4, <2>1, <2>2, RefineReadHead DEF Boot
<1>5. CASE Crash
  BY ZenonT(30), <1>5, RefineCrash
<1>6. CASE UNCHANGED vars
  <2>1. LogView' = LogView /\ MemView' = MemView /\ Active' = Active
    BY ZenonT(30), <1>6, SameCache DEF vars, disk, bufs, Active, Booted
  <2>. QED BY ZenonT(30), <2>1, StutterStep
<1>. QED BY ZenonT(30), <1>1, <1>2, <1>3, <1>4, <1>5, <1>6 DEF Next

\* The log implements atomic, durable groups of system calls for every
\* number of processes, every disk and every place a crash can strike.
THEOREM LogIsAtomic == Spec => AtomicCommit
BY RefineInit, RefineNext, InvCorrect, PTL DEF Spec, AtomicCommit, Atomic!Spec
=============================================================================
