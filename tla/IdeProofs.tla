------------------------------ MODULE IdeProofs ------------------------------
(***************************************************************************)
(* The IDE channel for any disks, sectors, requests and threads: Inv of    *)
(* module Ide is inductive for disks that take data at once, the safety    *)
(* properties follow from it, and the driver implements DiskStore.         *)
(***************************************************************************)
EXTENDS Ide, WholeLocksProofs

USE DEF Running, Goto, threads, vars, ide

---------------------------------------------------------------------------
(* Registers, sectors and the ends of a command                            *)

(* A count of sectors comes back from the register that is too narrow for  *)
(* it.                                                                     *)
LEMMA Registers ==
    ASSUME NEW n \in 1 .. Chunk
    PROVE  /\ RegisterOf(n) \in 0 .. Chunk - 1
           /\ Sectors(RegisterOf(n)) = n
<1>1. Chunk \in Nat \ {0}
  BY IdeAssumption
<1>2. CASE n = Chunk
  <2>1. n % Chunk = 0
    BY <1>1, <1>2
  <2> QED BY <1>1, <1>2, <2>1 DEF RegisterOf, Sectors
<1>3. CASE n # Chunk
  <2>1. n % Chunk = n
    BY <1>1, <1>3
  <2> QED BY <1>1, <1>3, <2>1 DEF RegisterOf, Sectors
<1> QED BY <1>2, <1>3

(* A command takes at most Chunk of the sectors that are left.             *)
LEMMA CommandSize ==
    ASSUME NEW t \in Thread, done[t] \in Nat, io[t].cnt \in Nat, done[t] < io[t].cnt
    PROVE  /\ secs_op(t) \in 1 .. Chunk
           /\ done[t] + secs_op(t) <= io[t].cnt
BY IdeAssumption DEF secs_op

LEMMA PartOfRun ==
    ASSUME NEW lba \in Nat, NEW cnt \in Nat, lba .. lba + cnt - 1 \subseteq Sector,
           NEW p \in Nat, NEW n \in Nat, lba <= p, p + n <= lba + cnt
    PROVE  p .. p + n - 1 \subseteq Sector
OBVIOUS

LEMMA SliceIs ==
    ASSUME NEW content \in [Sector -> Datum], NEW lba \in Nat, NEW n \in Nat,
           lba .. lba + n - 1 \subseteq Sector
    PROVE  /\ Slice(content, lba, n) \in Seq(Datum)
           /\ Len(Slice(content, lba, n)) = n
           /\ \A i \in 1 .. n : Slice(content, lba, n)[i] = content[lba + i - 1]
<1>1. \A i \in 1 .. n : lba + i - 1 \in Sector
  OBVIOUS
<1>2. Slice(content, lba, n) \in [1 .. n -> Datum]
  BY <1>1 DEF Slice
<1> QED BY <1>2, SeqDef DEF Slice

LEMMA OverwriteIs ==
    ASSUME NEW content \in [Sector -> Datum], NEW lba \in Nat, NEW data \in Seq(Datum)
    PROVE  /\ Overwrite(content, lba, data) \in [Sector -> Datum]
           /\ \A s \in Sector : Overwrite(content, lba, data)[s]
                = IF s \in lba .. lba + Len(data) - 1 THEN data[s - lba + 1] ELSE content[s]
<1>1. /\ Len(data) \in Nat
      /\ \A i \in 1 .. Len(data) : data[i] \in Datum
      /\ DOMAIN content = Sector
  OBVIOUS
<1>2. \A s \in lba .. lba + Len(data) - 1 : s - lba + 1 \in 1 .. Len(data)
  BY <1>1
<1> QED BY <1>1, <1>2 DEF Overwrite

(* The data of a command of a write.                                       *)
LEMMA PartIs ==
    ASSUME NEW r \in Request, r.op = "write", NEW m \in Nat, NEW k \in Nat, k <= r.cnt
    PROVE  /\ SubSeq(r.data, m + 1, k) \in Seq(Datum)
           /\ Len(SubSeq(r.data, m + 1, k)) = IF m <= k THEN k - m ELSE 0
           /\ \A i \in 1 .. k - m : SubSeq(r.data, m + 1, k)[i] = r.data[m + i]
           /\ r.data \in Seq(Datum)
           /\ Len(r.data) = r.cnt
<1>1. r.data \in [1 .. r.cnt -> Datum] /\ r.cnt \in Nat
  BY IdeAssumption
<1>2. r.data \in Seq(Datum) /\ Len(r.data) = r.cnt
  BY <1>1, SeqDef
<1>3. /\ Len(SubSeq(r.data, m + 1, k)) = IF m + 1 <= k THEN k - (m + 1) + 1 ELSE 0
      /\ \A i \in 1 .. k - m : SubSeq(r.data, m + 1, k)[i] = r.data[m + i]
      /\ SubSeq(r.data, m + 1, k) \in Seq(Datum)
  BY <1>1, <1>2, SubSeqProperties
<1> QED BY <1>1, <1>2, <1>3

---------------------------------------------------------------------------
(* The pieces of the steps                                                 *)

(* What the invariant says of the thread whose request has the channel.    *)
LEMMA HolderIs ==
    ASSUME Inv, NEW t \in Thread, chan.lock.holder = t
    PROVE  /\ CommandFits(t) /\ RequestFits(t)
           /\ pc[t] \in RequestLabels \cup {"wait"}
           /\ t # idle_thread
           /\ io[t] \in Request
           /\ io[t].op \in {"read", "write"} /\ io[t].disk \in Disk
           /\ io[t].lba \in Nat /\ io[t].cnt \in Nat \ {0}
           /\ io[t].lba .. io[t].lba + io[t].cnt - 1 \subseteq Sector
           /\ done[t] \in Nat
           /\ \A u \in Thread : pc[u] \in RequestLabels => u = t
           /\ \A u \in Thread \ {t} : done[u] = 0 /\ buf[u] = <<>>
<1>1. CommandFits(t) /\ RequestFits(t) /\ io[t] # none
  BY DEF Inv, ChannelFits
<1>2. pc[t] \in RequestLabels \cup {"wait"} /\ t # idle_thread
  BY DEF Inv, ChannelFits, LabelsFit, RequestLabels, IdleLabels
<1>3. io[t] \in Request /\ done[t] \in Nat
  BY <1>1 DEF Inv, TypeOK
<1> QED BY <1>1, <1>2, <1>3, IdeAssumption DEF Inv, ChannelFits

(* A thread that runs inside of a request has the channel; one that runs   *)
(* is in no list of waiters.                                               *)
LEMMA RunnerIs ==
    ASSUME Inv, NEW t \in Thread, sched.cur = t
    PROVE  /\ pc[t] \in RequestLabels => chan.lock.holder = t
           /\ ~Asleep(sched, t)
           /\ ~elem_find(chan.lock.semaphore.waiters, t)
           /\ ~elem_find(chan.disk_done.waiters, t)
           /\ ~Unborn(t)
<1>1. ~Asleep(sched, t) /\ ~Unborn(t)
  BY DEF Inv, Consistent, Asleep, Sleeping, Unborn
<1> QED BY <1>1 DEF Inv, ChannelFits

(* A step of the holder's own request that neither gives the channel up    *)
(* nor puts anybody to sleep.                                              *)
LEMMA HolderMoves ==
    ASSUME Inv, NEW t \in Thread, sched.cur = t, chan.lock.holder = t,
           NEW l \in RequestLabels, pc' = [pc EXCEPT ![t] = l],
           sched' = sched, io' = io,
           chan'.lock = chan.lock, chan'.disk_done.waiters = chan.disk_done.waiters,
           \A u \in Thread \ {t} : done'[u] = done[u] /\ buf'[u] = buf[u],
           TypeOK', CommandFits(t)', RequestFits(t)'
    PROVE  Inv'
<1>1. /\ Consistent(sched) /\ LabelsFit /\ ChannelFits /\ t # idle_thread
      /\ pc[t] \in RequestLabels \cup {"wait"}
      /\ \A u \in Thread \ {t} : done[u] = 0 /\ buf[u] = <<>>
      /\ pc \in [Thread -> Labels]
  BY HolderIs DEF Inv, TypeOK
<1>2. /\ pc'[t] = l
      /\ \A u \in Thread \ {t} : pc'[u] = pc[u]
  BY <1>1
<1>3. LabelsFit'
  BY <1>1, RunnerMoves
<1>4. ChannelFits'
  BY <1>1, <1>2, RunnerIs DEF ChannelFits
<1>5. \A u \in Thread : io'[u] # none <=> pc'[u] \in RequestLabels \cup {"wait"}
  BY <1>1, <1>2 DEF Inv
<1>6. chan'.lock.holder = t /\ t # nobody
  BY WholeLocksAssumption
<1>7. /\ ~SlowData
      /\ Consistent(sched')
  BY <1>1 DEF Inv
<1>8. \A u \in Thread : IF chan'.lock.holder = u THEN CommandFits(u)' /\ RequestFits(u)'
                                                 ELSE done'[u] = 0 /\ buf'[u] = <<>>
  BY <1>1, <1>6
<1> QED BY <1>3, <1>4, <1>5, <1>6, <1>7, <1>8 DEF Inv

(* The disk's phase passes on: the holder, if any, is where it was.        *)
LEMMA DiskMoves ==
    ASSUME Inv, UNCHANGED <<threads, chan, store, io, done, buf>>, TypeOK',
           dev'.disk = dev.disk, dev'.lba = dev.lba, dev'.cnt = dev.cnt,
           chan.lock.holder # nobody,
           \A t \in Thread : chan.lock.holder = t => CommandFits(t)'
    PROVE  Inv'
<1>1. ChannelFits' /\ LabelsFit' /\ Consistent(sched') /\ ~SlowData
  BY DEF Inv, ChannelFits, LabelsFit, Unborn
<1>2. \A t \in Thread : chan.lock.holder = t => RequestFits(t)'
  BY DEF Inv, RequestFits, BeforeData, secs_op
<1>3. chan'.lock.holder # nobody
  OBVIOUS
<1>4. \A t \in Thread :
          /\ io'[t] # none <=> pc'[t] \in RequestLabels \cup {"wait"}
          /\ IF chan'.lock.holder = t THEN CommandFits(t)' /\ RequestFits(t)'
                                      ELSE done'[t] = 0 /\ buf'[t] = <<>>
  BY <1>2 DEF Inv
<1> QED BY <1>1, <1>3, <1>4 DEF Inv

(* select_sector tells the disk which sectors the next command moves.      *)
LEMMA SelectInv ==
    ASSUME Inv, NEW t \in Thread, select_sector(t)
    PROVE  Inv'
<1> USE DEF select_sector
<1>1. /\ chan.lock.holder = t /\ pc[t] = "select" /\ sched.cur = t
      /\ pc' = [pc EXCEPT ![t] = "flag"]
      /\ sched' = sched /\ intr' = intr /\ chan' = chan /\ store' = store
      /\ io' = io /\ done' = done /\ buf' = buf
      /\ TypeOK
  BY RunnerIs DEF Inv, RequestLabels
<1>2. /\ CommandFits(t) /\ RequestFits(t)
      /\ io[t].disk \in Disk /\ io[t].lba \in Nat /\ io[t].cnt \in Nat \ {0}
      /\ io[t].lba .. io[t].lba + io[t].cnt - 1 \subseteq Sector
      /\ done[t] \in Nat
  BY <1>1, HolderIs
<1>3. done[t] < io[t].cnt /\ Quiet
  BY <1>1, <1>2 DEF RequestFits, CommandFits
<1>4. io[t].lba + done[t] \in Sector /\ RegisterOf(secs_op(t)) \in 0 .. Chunk - 1
  BY <1>2, <1>3, CommandSize, Registers
<1>5. /\ dev'.disk = io[t].disk
      /\ dev'.lba = io[t].lba + done[t]
      /\ dev'.cnt = RegisterOf(secs_op(t))
      /\ dev'.phase = dev.phase
      /\ dev' \in [op : {"read", "write"}, disk : Disk, lba : Sector, cnt : 0 .. Chunk - 1,
                   phase : Phases, irq : BOOLEAN]
  BY <1>1, <1>2, <1>4 DEF TypeOK
<1>6. TypeOK'
  BY <1>1, <1>5 DEF TypeOK, Labels, RequestLabels
<1>7. pc'[t] = "flag"
  BY <1>1 DEF TypeOK
<1>8. CommandFits(t)'
  BY <1>1, <1>3, <1>5, <1>7 DEF CommandFits, Quiet
<1>9. RequestFits(t)'
  BY <1>1, <1>2, <1>3, <1>5, <1>7 DEF RequestFits, BeforeData, secs_op
<1> QED BY <1>1, <1>6, <1>8, <1>9, HolderMoves DEF RequestLabels

(* The flag is set.                                                        *)
LEMMA ExpectInv ==
    ASSUME Inv, NEW t \in Thread, NoneToServe, ExpectInterrupt(t)
    PROVE  Inv'
<1> USE DEF ExpectInterrupt
<1>1. /\ chan.lock.holder = t /\ pc[t] = "flag" /\ sched.cur = t
      /\ pc' = [pc EXCEPT ![t] = "command"]
      /\ sched' = sched /\ intr' = intr /\ dev' = dev /\ store' = store
      /\ io' = io /\ done' = done /\ buf' = buf
      /\ TypeOK
  BY RunnerIs DEF Inv, RequestLabels
<1>2. /\ CommandFits(t) /\ RequestFits(t)
  BY <1>1, HolderIs
<1>3. /\ chan' \in Channel
      /\ chan'.expecting_intr = TRUE
      /\ chan'.lock = chan.lock /\ chan'.disk_done = chan.disk_done
  BY <1>1 DEF TypeOK, Channel
<1>4. dev.irq => ~intr[t]
  BY <1>1 DEF NoneToServe, InterruptsOn, Masked
<1>5. TypeOK'
  BY <1>1, <1>3 DEF TypeOK, Labels, RequestLabels
<1>6. pc'[t] = "command"
  BY <1>1 DEF TypeOK
<1>7. CommandFits(t)'
  BY <1>1, <1>2, <1>3, <1>4, <1>6 DEF CommandFits, Quiet
<1>8. RequestFits(t)'
  BY <1>1, <1>2, <1>6 DEF RequestFits, BeforeData, secs_op
<1> QED BY <1>1, <1>3, <1>5, <1>7, <1>8, HolderMoves DEF RequestLabels

(* The command makes the disk seek, or ask for the data of a write.        *)
LEMMA CommandInv ==
    ASSUME Inv, NEW t \in Thread, cmd_out(t)
    PROVE  Inv'
<1> USE DEF cmd_out
<1>1. /\ chan.lock.holder = t /\ pc[t] = "command" /\ sched.cur = t
      /\ pc' = [pc EXCEPT ![t] = IF io[t].op = "read" THEN "down" ELSE "poll"]
      /\ sched' = sched /\ intr' = intr /\ chan' = chan /\ store' = store
      /\ io' = io /\ done' = done /\ buf' = buf
      /\ TypeOK /\ ~SlowData
  BY RunnerIs DEF Inv, RequestLabels
<1>2. /\ CommandFits(t) /\ RequestFits(t) /\ io[t].op \in {"read", "write"}
  BY <1>1, HolderIs
<1>3. dev' = [dev EXCEPT !.op = io[t].op, !.irq = FALSE,
                         !.phase = IF io[t].op = "read" THEN "seek" ELSE "drq"]
  BY <1>1, <1>2 DEF Start
<1>4. /\ dev'.op = io[t].op /\ ~dev'.irq
      /\ dev'.phase = IF io[t].op = "read" THEN "seek" ELSE "drq"
      /\ dev'.disk = dev.disk /\ dev'.lba = dev.lba /\ dev'.cnt = dev.cnt
      /\ dev' \in [op : {"read", "write"}, disk : Disk, lba : Sector, cnt : 0 .. Chunk - 1,
                   phase : Phases, irq : BOOLEAN]
  BY <1>1, <1>2, <1>3 DEF TypeOK, Phases
<1>5. TypeOK'
  BY <1>1, <1>4 DEF TypeOK, Labels, RequestLabels
<1>6. pc'[t] = IF io[t].op = "read" THEN "down" ELSE "poll"
  BY <1>1 DEF TypeOK
<1>7. CommandFits(t)'
  BY <1>1, <1>2, <1>4, <1>6 DEF CommandFits, Awaits
<1>8. RequestFits(t)'
  BY <1>1, <1>2, <1>4, <1>6 DEF RequestFits, BeforeData, secs_op
<1> QED BY <1>1, <1>5, <1>7, <1>8, HolderMoves DEF RequestLabels

(* busy_wait finds the disk ready for data at once.                        *)
LEMMA BusyWaitInv ==
    ASSUME Inv, NEW t \in Thread, busy_wait(t)
    PROVE  Inv'
<1> USE DEF busy_wait
<1>1. /\ chan.lock.holder = t /\ pc[t] = "poll" /\ sched.cur = t
      /\ intr' = intr /\ chan' = chan /\ store' = store
      /\ io' = io /\ done' = done /\ buf' = buf
      /\ dev' = [dev EXCEPT !.irq = FALSE]
      /\ TypeOK /\ ~sched.panic
  BY RunnerIs DEF Inv, RequestLabels
<1>2. /\ CommandFits(t) /\ RequestFits(t)
  BY <1>1, HolderIs
<1>3. dev.phase = "drq"
  BY <1>1, <1>2 DEF CommandFits
<1>4. sched' = sched /\ pc' = [pc EXCEPT ![t] = "transfer"]
  BY <1>1, <1>3 DEF Busy, Assert_
<1>5. /\ dev'.op = dev.op /\ ~dev'.irq /\ dev'.phase = dev.phase
      /\ dev'.disk = dev.disk /\ dev'.lba = dev.lba /\ dev'.cnt = dev.cnt
      /\ dev' \in [op : {"read", "write"}, disk : Disk, lba : Sector, cnt : 0 .. Chunk - 1,
                   phase : Phases, irq : BOOLEAN]
  BY <1>1 DEF TypeOK
<1>6. TypeOK'
  BY <1>1, <1>4, <1>5 DEF TypeOK, Labels, RequestLabels
<1>7. pc'[t] = "transfer"
  BY <1>1, <1>4 DEF TypeOK
<1>8. CommandFits(t)'
  BY <1>1, <1>2, <1>5, <1>7 DEF CommandFits
<1>9. RequestFits(t)'
  BY <1>1, <1>2, <1>5, <1>7 DEF RequestFits, BeforeData, secs_op
<1> QED BY <1>1, <1>4, <1>6, <1>8, <1>9, HolderMoves DEF RequestLabels

(* What a transfer of the holder t does: it moves the sectors that secs_op *)
(* names, from where the request has got to.                               *)
LEMMA TransferIs ==
    ASSUME Inv, NEW t \in Thread, Transfer(t)
    PROVE  /\ chan.lock.holder = t /\ pc[t] = "transfer" /\ sched.cur = t
           /\ CommandFits(t) /\ RequestFits(t)
           /\ done[t] < io[t].cnt
           /\ secs_op(t) \in 1 .. Chunk
           /\ done[t] + secs_op(t) <= io[t].cnt
           /\ done' = [done EXCEPT ![t] = done[t] + secs_op(t)]
           /\ dev' = TakeData(dev)
           /\ Sectors(dev.cnt) = secs_op(t)
           /\ IF io[t].op = "read"
              THEN /\ buf' = [buf EXCEPT ![t] =
                         @ \o Slice(store[io[t].disk], io[t].lba + done[t], secs_op(t))]
                   /\ store' = store
                   /\ pc' = [pc EXCEPT ![t] = AfterCommand(t, done[t] + secs_op(t))]
              ELSE /\ store' = [store EXCEPT ![io[t].disk] =
                         Overwrite(@, io[t].lba + done[t],
                                   SubSeq(io[t].data, done[t] + 1, done[t] + secs_op(t)))]
                   /\ buf' = buf
                   /\ pc' = [pc EXCEPT ![t] = "down"]
           /\ UNCHANGED <<sched, intr, chan, io>>
<1> USE DEF Transfer
<1>1. /\ chan.lock.holder = t /\ pc[t] = "transfer" /\ sched.cur = t
  BY RunnerIs DEF RequestLabels
<1>2. CommandFits(t) /\ RequestFits(t) /\ done[t] \in Nat /\ io[t].cnt \in Nat
  BY <1>1, HolderIs
<1>3. /\ dev.disk = io[t].disk
      /\ dev.lba = io[t].lba + done[t]
      /\ dev.cnt = RegisterOf(secs_op(t))
      /\ done[t] < io[t].cnt
  BY <1>1, <1>2 DEF RequestFits, BeforeData
<1>4. /\ secs_op(t) \in 1 .. Chunk
      /\ done[t] + secs_op(t) <= io[t].cnt
      /\ Sectors(dev.cnt) = secs_op(t)
  BY <1>2, <1>3, CommandSize, Registers
<1>5. done' = [done EXCEPT ![t] = done[t] + secs_op(t)] /\ dev' = TakeData(dev)
  BY <1>4
<1>6. CASE io[t].op = "read"
  BY <1>1, <1>2, <1>3, <1>4, <1>5, <1>6
<1>7. CASE io[t].op # "read"
  BY <1>1, <1>2, <1>3, <1>4, <1>5, <1>7
<1> QED BY <1>6, <1>7

(* The sectors of a command go through the data register.                  *)
LEMMA TransferInv ==
    ASSUME Inv, NEW t \in Thread, Transfer(t)
    PROVE  Inv'
<1> DEFINE n == secs_op(t)
           m == done[t]
<1>1. /\ chan.lock.holder = t /\ pc[t] = "transfer" /\ sched.cur = t
      /\ CommandFits(t) /\ RequestFits(t)
      /\ m < io[t].cnt
      /\ n \in 1 .. Chunk /\ m + n <= io[t].cnt
      /\ done' = [done EXCEPT ![t] = m + n]
      /\ dev' = TakeData(dev) /\ Sectors(dev.cnt) = n
      /\ sched' = sched /\ intr' = intr /\ chan' = chan /\ io' = io
      /\ TypeOK
  BY TransferIs DEF Inv
<1>2. /\ io[t] \in Request
      /\ io[t].op \in {"read", "write"} /\ io[t].disk \in Disk
      /\ io[t].lba \in Nat /\ io[t].cnt \in Nat \ {0}
      /\ io[t].lba .. io[t].lba + io[t].cnt - 1 \subseteq Sector
      /\ m \in Nat /\ n \in Nat /\ Chunk \in Nat
  BY <1>1, HolderIs, IdeAssumption
<1>3. dev.phase = "drq" /\ dev.op = io[t].op
  BY <1>1 DEF CommandFits
<1> HIDE DEF n
<1>4. /\ done'[t] = m + n /\ done' \in [Thread -> Nat]
      /\ \A u \in Thread \ {t} : done'[u] = done[u]
  BY <1>1, <1>2 DEF TypeOK
<1>5. /\ dev'.phase = IF io[t].op = "write" /\ ~(n > 1) THEN "store" ELSE "idle"
      /\ dev'.irq = (n > 1)
      /\ dev'.op = dev.op
      /\ dev' \in [op : {"read", "write"}, disk : Disk, lba : Sector, cnt : 0 .. Chunk - 1,
                   phase : Phases, irq : BOOLEAN]
  <2>1. dev' = [dev EXCEPT !.phase = IF dev.op = "write" /\ ~(n > 1) THEN "store" ELSE "idle",
                           !.irq = (n > 1)]
    BY <1>1 DEF TakeData
  <2>2. (n > 1) \in BOOLEAN
    OBVIOUS
  <2> DEFINE several == n > 1
  <2> HIDE DEF several
  <2>3. dev' = [dev EXCEPT !.phase = IF dev.op = "write" /\ ~several THEN "store" ELSE "idle",
                           !.irq = several]
    BY <2>1 DEF several
  <2>4. several \in BOOLEAN
    BY <2>2 DEF several
  <2>5. /\ dev'.phase = IF io[t].op = "write" /\ ~several THEN "store" ELSE "idle"
        /\ dev'.irq = several
        /\ dev'.op = dev.op
        /\ dev' \in [op : {"read", "write"}, disk : Disk, lba : Sector, cnt : 0 .. Chunk - 1,
                     phase : Phases, irq : BOOLEAN]
    BY <1>1, <1>3, <2>3, <2>4 DEF TypeOK, Phases
  <2> QED BY <2>5 DEF several
<1>6. CASE io[t].op = "read"
  <2> DEFINE part == Slice(store[io[t].disk], io[t].lba + m, n)
             l == AfterCommand(t, m + n)
  <2>1. /\ buf' = [buf EXCEPT ![t] = buf[t] \o part]
        /\ store' = store
        /\ pc' = [pc EXCEPT ![t] = l]
    BY <1>6, TransferIs DEF n
  <2>2. part \in Seq(Datum)
    <3>1. store[io[t].disk] \in [Sector -> Datum]
      BY <1>1, <1>2 DEF TypeOK
    <3>2. /\ io[t].lba + m .. io[t].lba + m + n - 1 \subseteq Sector
          /\ io[t].lba + m \in Nat
      BY <1>1, <1>2
    <3> QED BY <1>2, <3>1, <3>2, SliceIs
  <2>3. /\ l \in {"select", "release"}
        /\ l = "select" <=> m + n < io[t].cnt
    BY DEF AfterCommand
  <2> HIDE DEF part, l
  <2>4. /\ buf' \in [Thread -> Seq(Datum)]
        /\ \A u \in Thread \ {t} : buf'[u] = buf[u]
    BY <1>1, <2>1, <2>2 DEF TypeOK
  <2>5. pc'[t] = l /\ pc' \in [Thread -> Labels]
    BY <1>1, <2>1, <2>3 DEF TypeOK, Labels, RequestLabels
  <2>6. TypeOK'
    BY <1>1, <1>4, <1>5, <2>1, <2>4, <2>5 DEF TypeOK
  <2>7. CommandFits(t)'
    BY <1>1, <1>5, <1>6, <2>3, <2>5 DEF CommandFits, Quiet
  <2>8. RequestFits(t)'
    BY <1>1, <1>2, <1>4, <2>3, <2>5 DEF RequestFits, BeforeData
  <2>9. l \in RequestLabels
    BY <2>3 DEF RequestLabels
  <2> QED BY <1>1, <1>4, <2>1, <2>4, <2>6, <2>7, <2>8, <2>9, HolderMoves
<1>7. CASE io[t].op = "write"
  <2> DEFINE part == SubSeq(io[t].data, m + 1, m + n)
  <2>1. /\ buf' = buf
        /\ store' = [store EXCEPT ![io[t].disk] = Overwrite(@, io[t].lba + m, part)]
        /\ pc' = [pc EXCEPT ![t] = "down"]
    BY <1>7, TransferIs DEF n
  <2>2. part \in Seq(Datum)
    <3>1. m + n \in Nat /\ m + n <= io[t].cnt
      BY <1>1, <1>2
    <3> QED BY <1>2, <1>7, <3>1, PartIs
  <2> HIDE DEF part
  <2>3. store' \in [Disk -> [Sector -> Datum]]
    <3>1. store[io[t].disk] \in [Sector -> Datum] /\ io[t].lba + m \in Nat
      BY <1>1, <1>2 DEF TypeOK
    <3>2. Overwrite(store[io[t].disk], io[t].lba + m, part) \in [Sector -> Datum]
      BY <2>2, <3>1, OverwriteIs
    <3> QED BY <1>1, <2>1, <3>2 DEF TypeOK
  <2>4. pc'[t] = "down" /\ pc' \in [Thread -> Labels]
    BY <1>1, <2>1 DEF TypeOK, Labels, RequestLabels
  <2>5. TypeOK'
    BY <1>1, <1>4, <1>5, <2>1, <2>3, <2>4 DEF TypeOK
  <2>6. CommandFits(t)'
    BY <1>1, <1>2, <1>3, <1>5, <1>7, <2>4 DEF CommandFits, Awaits
  <2>7. RequestFits(t)'
    BY <1>1, <1>2, <1>4, <1>7, <2>4 DEF RequestFits, BeforeData
  <2> QED BY <1>1, <1>4, <2>1, <2>5, <2>6, <2>7, HolderMoves DEF RequestLabels
<1> QED BY <1>2, <1>6, <1>7

(* sema_down of disk_done: the holder passes when the handler has raised   *)
(* it, and sleeps until then.                                              *)
LEMMA WaitInv ==
    ASSUME Inv, NEW t \in Thread, WaitForDisk(t)
    PROVE  Inv'
<1> DEFINE turn == sema_down_turn(sched, chan.disk_done)
<1>1. /\ chan.lock.holder = t /\ pc[t] \in {"down", "wait"} /\ sched.cur = t
      /\ sched' = turn.sched
      /\ chan' = [chan EXCEPT !.disk_done = turn.sem]
      /\ intr' = intr /\ dev' = dev /\ store' = store
      /\ io' = io /\ done' = done /\ buf' = buf
      /\ TypeOK /\ Consistent(sched)
      /\ ~elem_find(chan.disk_done.waiters, t)
  BY RunnerIs DEF Inv, RequestLabels, WaitForDisk
<1>2. /\ CommandFits(t) /\ RequestFits(t) /\ t # idle_thread
      /\ io[t].op \in {"read", "write"} /\ io[t].cnt \in Nat /\ done[t] \in Nat
      /\ \A u \in Thread : pc[u] \in RequestLabels => u = t
      /\ \A u \in Thread \ {t} : done[u] = 0 /\ buf[u] = <<>>
  BY <1>1, HolderIs
<1>3. /\ chan \in Channel /\ chan.disk_done \in Semaphore
      /\ IsInjective(chan.disk_done.waiters)
      /\ dev.op = io[t].op
      /\ IF io[t].op = "read" THEN Awaits("seek", "drq") ELSE Awaits("store", "idle")
  BY <1>1, <1>2 DEF Inv, TypeOK, Channel, CommandFits, ChannelFits
<1>4. chan.disk_done.value \in {0, 1}
  BY <1>3 DEF Awaits
<1>5. CASE chan.disk_done.value = 1
  <2> DEFINE l == IF io[t].op = "read" THEN "poll" ELSE AfterCommand(t, done[t])
  <2>1. /\ turn.sched = sched /\ turn.sem \in Semaphore
        /\ turn.sem.value = 0 /\ turn.sem.waiters = chan.disk_done.waiters
    BY <1>1, <1>3, <1>5, SemaPass
  <2>2. pc' = [pc EXCEPT ![t] = l]
    BY <1>5 DEF WaitForDisk, MayPass
  <2> HIDE DEF turn
  <2>3. /\ chan' \in Channel /\ sched' = sched
        /\ chan'.disk_done = turn.sem /\ chan'.lock = chan.lock
        /\ chan'.expecting_intr = chan.expecting_intr
    BY <1>1, <1>3, <2>1 DEF Channel
  <2>4. /\ l \in {"poll", "select", "release"}
        /\ io[t].op = "read" => l = "poll"
        /\ io[t].op = "write" => /\ l \in {"select", "release"}
                                 /\ l = "select" <=> done[t] < io[t].cnt
    BY DEF AfterCommand
  <2> HIDE DEF l
  <2>5. pc'[t] = l /\ pc' \in [Thread -> Labels]
    BY <1>1, <2>2, <2>4 DEF TypeOK, Labels, RequestLabels
  <2>6. TypeOK'
    BY <1>1, <2>3, <2>5 DEF TypeOK
  <2>7. /\ ~chan'.expecting_intr /\ chan'.disk_done.value = 0
        /\ dev'.phase = IF io[t].op = "read" THEN "drq" ELSE "idle"
    BY <1>1, <1>3, <1>5, <2>1, <2>3 DEF Awaits
  <2>8. CommandFits(t)'
    BY <1>1, <1>2, <1>3, <2>4, <2>5, <2>7 DEF CommandFits, Quiet
  <2>9. RequestFits(t)'
    BY <1>1, <1>2, <2>4, <2>5 DEF RequestFits, BeforeData, secs_op
  <2>10. l \in RequestLabels
    BY <2>4 DEF RequestLabels
  <2> QED BY <1>1, <2>1, <2>2, <2>3, <2>6, <2>8, <2>9, <2>10, HolderMoves
<1>6. CASE chan.disk_done.value = 0
  <2>1. /\ Consistent(turn.sched) /\ Asleep(turn.sched, t)
        /\ OnlyThese(sched, turn.sched, {t, idle_thread})
        /\ turn.sem \in Semaphore
        /\ turn.sem.value = 0
        /\ Range(turn.sem.waiters) = Range(chan.disk_done.waiters) \cup {t}
        /\ IsInjective(turn.sem.waiters)
    <3>1. /\ Consistent(sched) /\ sched.cur = t /\ sched.cur # idle_thread
          /\ chan.disk_done \in Semaphore /\ ~elem_find(chan.disk_done.waiters, sched.cur)
          /\ IsInjective(chan.disk_done.waiters)
      BY ONLY <1>1, <1>2, <1>3
    <3> QED BY ONLY <1>6, <3>1, SemaWait
  <2>2. pc' = [pc EXCEPT ![t] = "wait"]
    BY <1>6 DEF WaitForDisk, MayPass
  <2> HIDE DEF turn
  <2>3. /\ chan' \in Channel
        /\ chan'.disk_done = turn.sem /\ chan'.lock = chan.lock
        /\ chan'.expecting_intr = chan.expecting_intr
    BY <1>1, <1>3, <2>1 DEF Channel
  <2>4. /\ pc'[t] = "wait" /\ pc' \in [Thread -> Labels]
        /\ \A u \in Thread \ {t} : pc'[u] = pc[u]
    BY <1>1, <2>2 DEF TypeOK, Labels, Masked
  <2>5. TypeOK' /\ Consistent(sched')
    BY <1>1, <2>1, <2>3, <2>4 DEF TypeOK, Consistent
  <2>6. LabelsFit'
    BY <1>1, <1>2, <2>1, <2>2, RunnerMoves DEF OnlyThese, Inv
  <2>7. CommandFits(t)'
    BY <1>1, <1>3, <1>6, <2>1, <2>3, <2>4 DEF CommandFits, Awaits
  <2>8. RequestFits(t)'
    BY <1>1, <1>2, <2>4 DEF RequestFits, BeforeData, secs_op
  <2>9. ChannelFits'
    <3>1. /\ ChannelFits /\ pc[idle_thread] # "wait"
          /\ ~elem_find(chan.lock.semaphore.waiters, t)
      BY <1>1, RunnerIs DEF Inv, LabelsFit, IdleLabels
    <3>2. \A u \in Thread : elem_find(chan'.disk_done.waiters, u)
                               <=> u = t \/ elem_find(chan.disk_done.waiters, u)
      BY <2>1, <2>3 DEF elem_find
    <3>3. ASSUME NEW u \in Thread, u # t, pc[u] = "wait", Asleep(sched, u)
          PROVE  Asleep(sched', u)
      BY <1>1, <2>1, <3>1, <3>3 DEF OnlyThese
    <3>4. \A u \in Thread : /\ pc'[u] \in RequestLabels => pc[u] \in RequestLabels
                            /\ pc[u] = "wait" => pc'[u] = "wait"
      BY <2>4 DEF RequestLabels
    <3>5. \A u \in Thread : /\ elem_find(chan.lock.semaphore.waiters, u) => u # t
                            /\ elem_find(chan.disk_done.waiters, u) => u # t
      BY <1>1, <3>1
    <3>6. /\ LockIsExact(chan'.lock) /\ IsInjective(chan'.disk_done.waiters)
          /\ Asleep(sched', t)
      BY <1>1, <2>1, <2>3, <3>1 DEF ChannelFits
    <3>7. ASSUME NEW u \in Thread
          PROVE  /\ pc'[u] \in RequestLabels => chan'.lock.holder = u
                 /\ chan'.lock.holder = u => pc'[u] \in RequestLabels \cup {"wait"}
      BY <1>1, <2>3, <2>4, <3>1, <3>4 DEF ChannelFits
    <3>8. ASSUME NEW u \in Thread, elem_find(chan'.lock.semaphore.waiters, u)
          PROVE  pc'[u] = "wait" /\ chan'.lock.holder # u /\ Asleep(sched', u)
      BY <2>3, <3>1, <3>3, <3>4, <3>5, <3>8 DEF ChannelFits
    <3>9. ASSUME NEW u \in Thread, elem_find(chan'.disk_done.waiters, u)
          PROVE  pc'[u] = "wait" /\ chan'.lock.holder = u /\ Asleep(sched', u)
      <4>1. CASE u = t
        BY <1>1, <2>3, <2>4, <3>6, <4>1
      <4>2. CASE u # t
        BY <2>3, <3>1, <3>2, <3>3, <3>4, <3>9, <4>2 DEF ChannelFits
      <4> QED BY <4>1, <4>2
    <3> QED BY <3>6, <3>7, <3>8, <3>9 DEF ChannelFits
  <2>10. chan'.lock.holder = t /\ t # nobody
    BY <1>1, <2>3, WholeLocksAssumption
  <2>11. \A u \in Thread :
            /\ io'[u] # none <=> pc'[u] \in RequestLabels \cup {"wait"}
            /\ IF chan'.lock.holder = u THEN CommandFits(u)' /\ RequestFits(u)'
                                        ELSE done'[u] = 0 /\ buf'[u] = <<>>
    BY <1>1, <1>2, <2>4, <2>7, <2>8, <2>10 DEF Inv, RequestLabels
  <2> QED BY <2>5, <2>6, <2>9, <2>10, <2>11 DEF Inv
<1> QED BY <1>4, <1>5, <1>6

(* The request is over: the channel is given up and its first waiter woken. *)
LEMMA ReturnInv ==
    ASSUME Inv, NEW t \in Thread, ide_return(t)
    PROVE  Inv'
<1> DEFINE freed == release(sched, chan.lock)
           old == chan.lock.semaphore.waiters
           first == Head(old)
<1>1. /\ chan.lock.holder = t /\ pc[t] = "release" /\ sched.cur = t
      /\ sched' = freed.sched
      /\ chan' = [chan EXCEPT !.lock = freed.lock]
      /\ pc' = [pc EXCEPT ![t] = "run"]
      /\ intr' = intr /\ dev' = dev /\ store' = store
      /\ io' = [io EXCEPT ![t] = none]
      /\ done' = [done EXCEPT ![t] = 0]
      /\ buf' = [buf EXCEPT ![t] = <<>>]
      /\ TypeOK /\ Consistent(sched) /\ ChannelFits /\ LabelsFit
  BY RunnerIs DEF Inv, RequestLabels, ide_return
<1>2. /\ Quiet /\ t # idle_thread
      /\ \A u \in Thread : pc[u] \in RequestLabels => u = t
      /\ \A u \in Thread \ {t} : done[u] = 0 /\ buf[u] = <<>>
  BY <1>1, HolderIs DEF CommandFits
<1>3. /\ Consistent(freed.sched)
      /\ LockIsExact(freed.lock)
      /\ freed.lock.holder = nobody
      /\ old = <<>> => freed.sched = sched /\ freed.lock.semaphore.waiters = <<>>
      /\ old # <<>> => /\ first \in Thread
                       /\ elem_find(old, first)
                       /\ ~Asleep(freed.sched, first)
                       /\ OnlyThese(sched, freed.sched, {first})
                       /\ Range(freed.lock.semaphore.waiters) = Range(old) \ {first}
  <2>1. \A u \in Thread : elem_find(chan.lock.semaphore.waiters, u) => Asleep(sched, u)
    BY <1>1 DEF ChannelFits
  <2>2. LockIsExact(chan.lock) /\ chan.lock.holder = sched.cur /\ Consistent(sched)
    BY <1>1 DEF ChannelFits
  <2> QED BY <2>1, <2>2, ReleaseHeld, Zenon DEF elem_find
<1> HIDE DEF freed, first, old
<1>4. /\ chan' \in Channel
      /\ chan'.lock = freed.lock /\ chan'.disk_done = chan.disk_done
      /\ chan'.expecting_intr = chan.expecting_intr
  BY <1>1, <1>3 DEF TypeOK, Channel, LockIsExact
<1>5. /\ pc'[t] = "run" /\ pc' \in [Thread -> Labels]
      /\ \A u \in Thread \ {t} : pc'[u] = pc[u]
  BY <1>1 DEF TypeOK, Labels
<1>6. /\ io' \in [Thread -> Request \cup {none}] /\ io'[t] = none
      /\ done' \in [Thread -> Nat] /\ done'[t] = 0
      /\ buf' \in [Thread -> Seq(Datum)] /\ buf'[t] = <<>>
      /\ \A u \in Thread \ {t} : io'[u] = io[u] /\ done'[u] = done[u] /\ buf'[u] = buf[u]
  BY <1>1 DEF TypeOK
<1>7. TypeOK' /\ Consistent(sched')
  BY <1>1, <1>3, <1>4, <1>5, <1>6 DEF TypeOK, Consistent
<1>8. LabelsFit'
  <2>1. OnlyThese(sched, sched', Thread)
    BY <1>1, <1>3 DEF OnlyThese
  <2> QED BY <1>1, <1>2, <2>1, RunnerMoves DEF OnlyThese
<1>9. \A u \in Thread : ~elem_find(chan.disk_done.waiters, u)
  BY <1>1 DEF ChannelFits
<1>10. ChannelFits'
  <2>1. ASSUME NEW u \in Thread, elem_find(freed.lock.semaphore.waiters, u)
        PROVE  elem_find(old, u) /\ Asleep(freed.sched, u)
    <3>1. CASE old = <<>>
      BY <1>3, <2>1, <3>1 DEF elem_find, Range
    <3>2. CASE old # <<>>
      <4>1. elem_find(old, u) /\ u # first
        BY <1>3, <2>1, <3>2 DEF elem_find
      <4>2. Asleep(sched, u)
        BY <1>1, <4>1 DEF ChannelFits, old
      <4> QED BY <1>3, <3>2, <4>1, <4>2 DEF OnlyThese
    <3> QED BY <3>1, <3>2
  <2>2. nobody \notin Thread /\ \A u \in Thread : pc'[u] \notin RequestLabels
    BY <1>2, <1>5, WholeLocksAssumption DEF RequestLabels
  <2>3. ASSUME NEW u \in Thread, elem_find(chan'.lock.semaphore.waiters, u)
        PROVE  pc'[u] = "wait" /\ chan'.lock.holder # u /\ Asleep(sched', u)
    <3>1. elem_find(old, u) /\ Asleep(sched', u)
      BY <1>1, <1>4, <2>1, <2>3
    <3>2. pc[u] = "wait" /\ u # t
      BY <1>1, <3>1 DEF ChannelFits, old
    <3> QED BY <1>3, <1>4, <1>5, <2>2, <3>1, <3>2
  <2>4. \A u \in Thread : ~elem_find(chan'.disk_done.waiters, u) /\ chan'.lock.holder # u
    BY <1>3, <1>4, <1>9, <2>2
  <2>5. LockIsExact(chan'.lock) /\ IsInjective(chan'.disk_done.waiters)
    BY <1>1, <1>3, <1>4 DEF ChannelFits
  <2> QED BY <2>2, <2>3, <2>4, <2>5 DEF ChannelFits
<1>11. Quiet' /\ chan'.lock.holder = nobody
  BY <1>1, <1>2, <1>3, <1>4 DEF Quiet
<1>12. \A u \in Thread :
          /\ io'[u] # none <=> pc'[u] \in RequestLabels \cup {"wait"}
          /\ chan'.lock.holder # u /\ done'[u] = 0 /\ buf'[u] = <<>>
  <2>1. \A u \in Thread : io'[u] # none <=> pc'[u] \in RequestLabels \cup {"wait"}
    <3>1. \A u \in Thread : io[u] # none <=> pc[u] \in RequestLabels \cup {"wait"}
      BY DEF Inv
    <3> QED BY <1>5, <1>6, <3>1 DEF RequestLabels
  <2> QED BY <1>2, <1>6, <1>11, <2>1, WholeLocksAssumption
<1> QED BY <1>7, <1>8, <1>10, <1>11, <1>12 DEF Inv

(* lock_acquire by a thread t that has just been given its request, or has *)
(* been woken: it gets the quiet channel, or queues up for it.             *)
LEMMA LockInv ==
    ASSUME Inv, NEW t \in Thread, sched.cur = t, t # idle_thread,
           \/ pc[t] = "run"
           \/ pc[t] = "wait" /\ chan.lock.holder # t,
           NEW r \in Request, io' = [io EXCEPT ![t] = r],
           LockChannel(t),
           UNCHANGED <<intr, dev, store, done, buf>>
    PROVE  Inv'
<1> DEFINE turn == acquire_turn(sched, chan.lock)
           l == IF IsFree(chan.lock) THEN "select" ELSE "wait"
<1>1. /\ sched' = turn.sched
      /\ chan' = [chan EXCEPT !.lock = turn.lock]
      /\ pc' = [pc EXCEPT ![t] = l]
      /\ intr' = intr /\ dev' = dev /\ store' = store /\ done' = done /\ buf' = buf
      /\ TypeOK /\ Consistent(sched) /\ ChannelFits /\ LabelsFit
      /\ LockIsExact(chan.lock)
      /\ chan.lock.holder # t
  BY DEF Inv, LockChannel, ChannelFits, RequestLabels
<1>2. /\ ~elem_find(chan.lock.semaphore.waiters, t)
      /\ ~elem_find(chan.disk_done.waiters, t)
      /\ done[t] = 0 /\ buf[t] = <<>>
  BY <1>1, RunnerIs DEF Inv
<1>3. l \in {"select", "wait"}
  OBVIOUS
<1> HIDE DEF l
<1>4. /\ pc'[t] = l /\ pc' \in [Thread -> Labels]
      /\ \A u \in Thread \ {t} : pc'[u] = pc[u]
  BY <1>1, <1>3 DEF TypeOK, Labels, RequestLabels, Masked
<1>5. /\ io' \in [Thread -> Request \cup {none}] /\ io'[t] # none /\ io'[t] = r
      /\ \A u \in Thread \ {t} : io'[u] = io[u]
  BY <1>1, IdeAssumption DEF TypeOK
<1>6. \A u \in Thread : io'[u] # none <=> pc'[u] \in RequestLabels \cup {"wait"}
  BY <1>3, <1>4, <1>5 DEF Inv, RequestLabels
<1>7. CASE IsFree(chan.lock)
  <2>1. /\ turn.sched = sched
        /\ LockIsExact(turn.lock)
        /\ turn.lock.holder = t
        /\ turn.lock.semaphore.waiters = chan.lock.semaphore.waiters
        /\ chan.lock.holder = nobody
    BY <1>1, <1>7, AcquireFree
  <2> HIDE DEF turn
  <2>2. /\ chan' \in Channel /\ sched' = sched
        /\ chan'.lock = turn.lock /\ chan'.disk_done = chan.disk_done
        /\ chan'.expecting_intr = chan.expecting_intr
    BY <1>1, <2>1 DEF TypeOK, Channel, LockIsExact
  <2>3. pc'[t] = "select"
    BY <1>4, <1>7 DEF l
  <2>4. TypeOK' /\ Consistent(sched')
    BY <1>1, <1>4, <1>5, <2>2 DEF TypeOK
  <2>5. LabelsFit'
    BY <1>1, <2>2, RunnerMoves
  <2>6. Quiet /\ Quiet'
    BY <1>1, <2>1, <2>2 DEF Inv, Quiet
  <2>7. CommandFits(t)'
    BY <2>3, <2>6 DEF CommandFits
  <2>8. RequestFits(t)'
    BY <1>1, <1>2, <1>5, <2>3, IdeAssumption DEF RequestFits, BeforeData
  <2>9. ChannelFits'
    <3>1. /\ nobody \notin Thread
          /\ \A u \in Thread : /\ pc[u] \notin RequestLabels
                               /\ ~elem_find(chan.disk_done.waiters, u)
      BY <1>1, <2>1, WholeLocksAssumption DEF ChannelFits
    <3>2. \A u \in Thread : /\ pc'[u] \in RequestLabels <=> u = t
                            /\ elem_find(chan.lock.semaphore.waiters, u)
                                 => u # t /\ pc'[u] = "wait" /\ Asleep(sched, u)
      BY <1>1, <1>2, <1>4, <2>3, <3>1 DEF ChannelFits, RequestLabels
    <3> QED BY <1>1, <2>1, <2>2, <3>1, <3>2 DEF ChannelFits
  <2>10. chan'.lock.holder = t /\ t # nobody
    BY <2>1, <2>2, WholeLocksAssumption
  <2>11. \A u \in Thread :
            IF chan'.lock.holder = u THEN CommandFits(u)' /\ RequestFits(u)'
                                     ELSE done'[u] = 0 /\ buf'[u] = <<>>
    BY <1>1, <2>1, <2>7, <2>8, <2>10, WholeLocksAssumption DEF Inv
  <2> QED BY <1>6, <2>4, <2>5, <2>9, <2>10, <2>11 DEF Inv
<1>8. CASE ~IsFree(chan.lock)
  <2>1. /\ Consistent(turn.sched)
        /\ Asleep(turn.sched, t)
        /\ OnlyThese(sched, turn.sched, {t, idle_thread})
        /\ LockIsExact(turn.lock)
        /\ turn.lock.holder = chan.lock.holder
        /\ Range(turn.lock.semaphore.waiters)
             = Range(chan.lock.semaphore.waiters) \cup {t}
        /\ chan.lock.holder # nobody
    BY <1>1, <1>2, <1>8, AcquireHeld
  <2> HIDE DEF turn
  <2>2. /\ chan' \in Channel
        /\ chan'.lock = turn.lock /\ chan'.disk_done = chan.disk_done
        /\ chan'.expecting_intr = chan.expecting_intr
    BY <1>1, <2>1 DEF TypeOK, Channel, LockIsExact
  <2>3. pc'[t] = "wait"
    BY <1>4, <1>8 DEF l
  <2>4. TypeOK' /\ Consistent(sched')
    BY <1>1, <1>4, <1>5, <2>1, <2>2 DEF TypeOK, Consistent
  <2>5. LabelsFit'
    BY <1>1, <2>1, RunnerMoves DEF OnlyThese
  <2>6. pc[idle_thread] # "wait"
    BY <1>1 DEF LabelsFit, IdleLabels
  <2>7. ASSUME NEW u \in Thread, u # t, pc[u] = "wait", Asleep(sched, u)
        PROVE  Asleep(sched', u) /\ pc'[u] = "wait"
    BY <1>1, <1>4, <2>1, <2>6, <2>7 DEF OnlyThese
  <2>8. ChannelFits'
    <3>1. ASSUME NEW u \in Thread
          PROVE  /\ pc'[u] \in RequestLabels => chan'.lock.holder = u
                 /\ chan'.lock.holder = u => pc'[u] \in RequestLabels \cup {"wait"}
      BY <1>1, <1>4, <2>1, <2>2, <2>3 DEF ChannelFits, RequestLabels
    <3>2. ASSUME NEW u \in Thread, elem_find(chan'.lock.semaphore.waiters, u)
          PROVE  pc'[u] = "wait" /\ chan'.lock.holder # u /\ Asleep(sched', u)
      <4>1. CASE u = t
        BY <1>1, <2>1, <2>2, <2>3, <4>1
      <4>2. CASE u # t
        <5>1. elem_find(chan.lock.semaphore.waiters, u)
          BY <2>1, <2>2, <3>2, <4>2 DEF elem_find
        <5> QED BY <1>1, <2>1, <2>2, <2>7, <4>2, <5>1 DEF ChannelFits
      <4> QED BY <4>1, <4>2
    <3>3. ASSUME NEW u \in Thread, elem_find(chan'.disk_done.waiters, u)
          PROVE  pc'[u] = "wait" /\ chan'.lock.holder = u /\ Asleep(sched', u)
      <4>1. elem_find(chan.disk_done.waiters, u) /\ u # t
        BY <1>2, <2>2, <3>3
      <4> QED BY <1>1, <2>1, <2>2, <2>7, <4>1 DEF ChannelFits
    <3>4. LockIsExact(chan'.lock) /\ IsInjective(chan'.disk_done.waiters)
      BY <1>1, <2>1, <2>2 DEF ChannelFits
    <3> QED BY <3>1, <3>2, <3>3, <3>4 DEF ChannelFits
  <2>9. chan'.lock.holder = chan.lock.holder /\ chan.lock.holder # nobody
    BY <2>1, <2>2
  <2>10. ASSUME NEW u \in Thread, chan.lock.holder = u
         PROVE  CommandFits(u)' /\ RequestFits(u)'
    <3>1. /\ u # t /\ CommandFits(u) /\ RequestFits(u)
          /\ pc'[u] = pc[u] /\ io'[u] = io[u] /\ pc[u] \in RequestLabels \cup {"wait"}
      BY <1>1, <1>4, <1>5, <2>10, HolderIs
    <3>2. pc[u] = "command" => ~dev.irq
      BY <3>1 DEF CommandFits
    <3>3. CommandFits(u)'
      BY <1>1, <2>2, <3>1, <3>2 DEF CommandFits, Quiet, Awaits
    <3> QED BY <1>1, <3>1, <3>3 DEF RequestFits, BeforeData, secs_op
  <2>11. \A u \in Thread :
            IF chan'.lock.holder = u THEN CommandFits(u)' /\ RequestFits(u)'
                                     ELSE done'[u] = 0 /\ buf'[u] = <<>>
    BY <1>1, <2>9, <2>10 DEF Inv
  <2> QED BY <1>6, <2>4, <2>5, <2>8, <2>9, <2>11 DEF Inv
<1> QED BY <1>7, <1>8

(* The interrupt: it raises disk_done for the command that the holder has  *)
(* sent, or finds nobody who expects it.                                   *)
LEMMA HandlerInv ==
    ASSUME Inv, intr_hd_handler
    PROVE  Inv'
<1> USE DEF intr_hd_handler
<1>1. /\ InterruptsOn /\ dev.irq
      /\ dev' = [dev EXCEPT !.irq = FALSE]
      /\ pc' = LeaveHalt
      /\ intr' = intr /\ store' = store /\ io' = io /\ done' = done /\ buf' = buf
      /\ TypeOK /\ Consistent(sched) /\ ChannelFits /\ LabelsFit
      /\ intr[sched.cur]
  BY DEF Inv, InterruptsOn
<1>2. /\ pc' \in [Thread -> Labels]
      /\ OutsideMoves(pc, pc')
      /\ pc'[idle_thread] \in {"first"} \cup IdleLabels
      /\ \A u \in Thread \ {idle_thread} : pc'[u] = pc[u]
  BY <1>1, LeaveHaltMoves DEF Plain, Labels, Masked, IdleLabels, TypeOK
<1>3. /\ dev'.op = dev.op /\ ~dev'.irq /\ dev'.phase = dev.phase
      /\ dev'.disk = dev.disk /\ dev'.lba = dev.lba /\ dev'.cnt = dev.cnt
      /\ dev' \in [op : {"read", "write"}, disk : Disk, lba : Sector, cnt : 0 .. Chunk - 1,
                   phase : Phases, irq : BOOLEAN]
  BY <1>1 DEF TypeOK
<1>4. \A u \in Thread : /\ pc'[u] \in RequestLabels \cup {"wait"}
                             => pc'[u] = pc[u]
                        /\ pc[u] \in RequestLabels \cup {"wait"} => pc'[u] = pc[u]
  BY <1>1, <1>2 DEF LabelsFit, IdleLabels, RequestLabels
<1>5. ASSUME NEW t \in Thread, chan.lock.holder = t
      PROVE  /\ RequestFits(t)'
             /\ chan'.expecting_intr = chan.expecting_intr
                  /\ chan'.disk_done = chan.disk_done /\ ~chan.expecting_intr
                  => CommandFits(t)'
             /\ chan.expecting_intr /\ chan \in Channel
                  => /\ pc[t] \in {"down", "wait"}
                     /\ chan.disk_done.value = 0
             /\ chan.expecting_intr /\ ~chan'.expecting_intr /\ chan'.disk_done.value = 1
                  => CommandFits(t)'
  <2>1. /\ RequestFits(t) /\ CommandFits(t) /\ pc'[t] = pc[t]
        /\ pc[t] \in RequestLabels \cup {"wait"}
        /\ io[t].op \in {"read", "write"}
    BY <1>4, <1>5, HolderIs
  <2>2. pc[t] # "command"
    BY <1>1, <2>1 DEF CommandFits
  <2>3. RequestFits(t)'
    BY <1>1, <1>3, <2>1 DEF RequestFits, BeforeData, secs_op
  <2>4. ASSUME chan.expecting_intr
        PROVE  /\ pc[t] \in {"down", "wait"}
               /\ chan.disk_done.value = 0
    <3>1. pc[t] \notin {"select", "flag", "release", "poll", "transfer"}
      BY <1>1, <2>1, <2>4 DEF CommandFits, Quiet
    <3>2. pc[t] \in {"down", "wait"}
      BY <2>1, <2>2, <3>1 DEF RequestLabels
    <3> QED BY <1>1, <2>1, <2>4, <3>2 DEF CommandFits, Awaits
  <2>5. ASSUME chan'.expecting_intr = chan.expecting_intr,
               chan'.disk_done = chan.disk_done, ~chan.expecting_intr
        PROVE  CommandFits(t)'
    BY <1>1, <1>3, <2>1, <2>2, <2>5 DEF CommandFits, Quiet, Awaits
  <2>6. ASSUME chan.expecting_intr, ~chan'.expecting_intr, chan'.disk_done.value = 1
        PROVE  CommandFits(t)'
    <3>1. pc[t] \in {"down", "wait"}
      BY <2>4, <2>6
    <3> QED BY <1>1, <1>3, <2>1, <2>6, <3>1 DEF CommandFits, Awaits
  <2> QED BY <2>3, <2>4, <2>5, <2>6
<1>6. chan \in Channel
  BY <1>1 DEF TypeOK
<1>7. CASE ~chan.expecting_intr
  <2>1. sched' = sched /\ chan' = chan
    BY <1>7
  <2>2. TypeOK' /\ Consistent(sched')
    BY <1>1, <1>2, <1>3, <2>1 DEF TypeOK
  <2>3. LabelsFit'
    <3>1. OnlyThese(sched, sched', {})
      BY <2>1 DEF OnlyThese
    <3> QED BY <1>1, <1>2, <2>2, <3>1, FitAfter
  <2>4. ChannelFits'
    BY <1>1, <1>4, <2>1 DEF ChannelFits
  <2>5. chan'.lock.holder = nobody => Quiet'
    BY <1>3, <2>1 DEF Inv, Quiet
  <2>6. \A u \in Thread :
            /\ io'[u] # none <=> pc'[u] \in RequestLabels \cup {"wait"}
            /\ IF chan'.lock.holder = u THEN CommandFits(u)' /\ RequestFits(u)'
                                        ELSE done'[u] = 0 /\ buf'[u] = <<>>
    BY <1>1, <1>4, <1>5, <1>7, <2>1 DEF Inv
  <2> QED BY <2>2, <2>3, <2>4, <2>5, <2>6 DEF Inv
<1>8. CASE chan.expecting_intr
  <2> DEFINE up == sema_up(sched, chan.disk_done)
             old == chan.disk_done.waiters
             first == Head(old)
  <2>1. /\ sched' = up.sched
        /\ chan' = [chan EXCEPT !.expecting_intr = FALSE, !.disk_done = up.sem]
    BY <1>8
  <2>2. PICK t \in Thread : chan.lock.holder = t
    BY <1>6, <1>8 DEF Inv, Quiet, Channel, Lock
  <2>3. chan.disk_done.value = 0
    BY <1>5, <1>6, <1>8, <2>2
  <2>4. /\ chan.disk_done \in Semaphore
        /\ IsInjective(old)
        /\ \A u \in Thread : elem_find(old, u) => Asleep(sched, u)
    BY <1>1, <1>6 DEF Channel, ChannelFits
  <2>5. /\ Consistent(up.sched)
        /\ up.sem \in Semaphore
        /\ up.sem.value = 1
        /\ IsInjective(up.sem.waiters)
        /\ old = <<>> => up.sched = sched /\ up.sem.waiters = <<>>
        /\ old # <<>> => /\ first \in Range(old)
                         /\ OnlyThese(sched, up.sched, {first})
                         /\ Range(up.sem.waiters) = Range(old) \ {first}
    BY <1>1, <2>3, <2>4, SemaUp DEF elem_find
  <2> HIDE DEF up, old, first
  <2>6. /\ chan' \in Channel /\ ~chan'.expecting_intr
        /\ chan'.disk_done = up.sem /\ chan'.lock = chan.lock
    BY <1>6, <2>1, <2>5 DEF Channel
  <2>7. TypeOK' /\ Consistent(sched')
    BY <1>1, <1>2, <1>3, <2>1, <2>5, <2>6 DEF TypeOK, Consistent
  <2>8. OnlyThese(sched, sched', Thread)
    BY <2>1, <2>5 DEF OnlyThese
  <2>9. LabelsFit'
    BY <1>1, <1>2, <2>7, <2>8, FitAfter
  <2>10. ASSUME NEW u \in Thread, Asleep(sched, u), old # <<>> => u # first
         PROVE  Asleep(sched', u)
    BY <2>1, <2>5, <2>10 DEF OnlyThese
  <2>11. ASSUME NEW u \in Thread, elem_find(up.sem.waiters, u)
         PROVE  elem_find(old, u) /\ u # first /\ old # <<>>
    <3>1. old # <<>>
      BY <2>5, <2>11 DEF elem_find, Range
    <3> QED BY <2>5, <2>11, <3>1 DEF elem_find
  <2>12. ASSUME NEW u \in Thread, elem_find(chan.lock.semaphore.waiters, u)
         PROVE  old # <<>> => u # first
    BY <1>1, <2>5, <2>12 DEF ChannelFits, old, elem_find
  <2>13. ChannelFits'
    <3>1. ASSUME NEW u \in Thread
          PROVE  /\ pc'[u] \in RequestLabels => chan'.lock.holder = u
                 /\ chan'.lock.holder = u => pc'[u] \in RequestLabels \cup {"wait"}
                 /\ pc[u] = "wait" => pc'[u] = "wait"
      BY <1>1, <1>4, <2>6 DEF ChannelFits
    <3>2. ASSUME NEW u \in Thread, elem_find(chan'.lock.semaphore.waiters, u)
          PROVE  pc'[u] = "wait" /\ chan'.lock.holder # u /\ Asleep(sched', u)
      BY <1>1, <2>6, <2>10, <2>12, <3>1, <3>2 DEF ChannelFits
    <3>3. ASSUME NEW u \in Thread, elem_find(chan'.disk_done.waiters, u)
          PROVE  pc'[u] = "wait" /\ chan'.lock.holder = u /\ Asleep(sched', u)
      <4>1. elem_find(chan.disk_done.waiters, u) /\ u # first
        BY <2>6, <2>11, <3>3 DEF old
      <4> QED BY <1>1, <2>6, <2>10, <3>1, <4>1 DEF ChannelFits
    <3>4. LockIsExact(chan'.lock) /\ IsInjective(chan'.disk_done.waiters)
      BY <1>1, <2>5, <2>6 DEF ChannelFits
    <3> QED BY <3>1, <3>2, <3>3, <3>4 DEF ChannelFits
  <2>14. \A u \in Thread : chan.lock.holder = u => CommandFits(u)' /\ RequestFits(u)'
    BY <1>5, <1>8, <2>5, <2>6
  <2>15. \A u \in Thread :
            /\ io'[u] # none <=> pc'[u] \in RequestLabels \cup {"wait"}
            /\ IF chan'.lock.holder = u THEN CommandFits(u)' /\ RequestFits(u)'
                                        ELSE done'[u] = 0 /\ buf'[u] = <<>>
    BY <1>1, <1>4, <2>6, <2>14 DEF Inv
  <2>16. chan'.lock.holder = t /\ t # nobody
    BY <2>2, <2>6, WholeLocksAssumption
  <2> QED BY <2>7, <2>9, <2>13, <2>15, <2>16 DEF Inv
<1> QED BY <1>7, <1>8

(* The disk gets on with the holder's command.                             *)
LEMMA DiskInv ==
    ASSUME Inv, DiskSeeks \/ DiskStores
    PROVE  Inv'
<1>1. /\ UNCHANGED <<threads, chan, store, io, done, buf>>
      /\ TypeOK
  BY DEF Inv, DiskSeeks, DiskStores
<1>2. dev.irq \in BOOLEAN /\ dev.op \in {"read", "write"}
  BY <1>1 DEF TypeOK
<1>3. /\ dev'.op = dev.op /\ dev'.disk = dev.disk /\ dev'.lba = dev.lba /\ dev'.cnt = dev.cnt
      /\ dev' \in [op : {"read", "write"}, disk : Disk, lba : Sector, cnt : 0 .. Chunk - 1,
                   phase : Phases, irq : BOOLEAN]
      /\ \/ dev.phase = "seek" /\ dev'.phase = "drq" /\ dev'.irq = (dev.op = "read")
         \/ dev.phase = "store" /\ dev'.phase = "idle" /\ dev'.irq = TRUE
  BY <1>1 DEF DiskSeeks, DiskStores, TypeOK, Phases
<1>4. TypeOK'
  BY <1>1, <1>3 DEF TypeOK
<1>5. chan.lock.holder # nobody
  BY <1>3 DEF Inv, Quiet
<1>6. ASSUME NEW t \in Thread, chan.lock.holder = t
      PROVE  CommandFits(t)'
  <2>1. /\ CommandFits(t) /\ pc[t] \in RequestLabels \cup {"wait"}
        /\ io[t].op \in {"read", "write"}
    BY <1>6, HolderIs
  <2>2. pc[t] \in {"down", "wait"}
    BY <1>3, <2>1 DEF CommandFits, Quiet, RequestLabels
  <2>3. /\ dev.op = io[t].op
        /\ IF io[t].op = "read" THEN Awaits("seek", "drq") ELSE Awaits("store", "idle")
    BY <2>1, <2>2 DEF CommandFits
  <2> QED BY <1>1, <1>3, <2>1, <2>2, <2>3 DEF CommandFits, Awaits
<1> QED BY <1>1, <1>3, <1>4, <1>5, <1>6, DiskMoves

(* A request of the disk that is left over when the flag is set keeps      *)
(* everybody else from running until the command takes it back; otherwise  *)
(* nothing that happens elsewhere concerns the channel.                    *)
LEMMA ElsewhereInv ==
    ASSUME Inv, ElsewhereStep, UNCHANGED ide
    PROVE  Inv'
<1>1. /\ TypeOK /\ Consistent(sched) /\ ChannelFits /\ LabelsFit
      /\ chan' = chan /\ dev' = dev /\ store' = store
      /\ io' = io /\ done' = done /\ buf' = buf
  BY DEF Inv
<1>2. /\ Consistent(sched')
      /\ LabelsFit'
      /\ pc' \in [Thread -> Labels]
      /\ OutsideMoves(pc, pc')
      /\ InsideSleepsOn(sched, sched', pc)
  BY <1>1, Elsewhere DEF Plain, Labels, Masked, IdleLabels, TypeOK
<1>3. intr' \in [Thread -> BOOLEAN]
  BY <1>1
  DEF ElsewhereStep, intr_timer_handler, IdleBlock, IdleHalt, kernel_thread,
      SyscallEnter, SyscallReturn, sys_fork, Yield, TypeOK
<1>4. \A u \in Thread :
          /\ pc'[u] \in RequestLabels \cup {"wait"} => pc'[u] = pc[u]
          /\ pc[u] \in RequestLabels \cup {"wait"} => pc'[u] = pc[u]
          /\ pc[u] = "wait" => (Asleep(sched', u) <=> Asleep(sched, u))
  BY <1>2 DEF OutsideMoves, InsideSleepsOn, Plain, IdleLabels, RequestLabels
<1>5. TypeOK'
  BY <1>1, <1>2, <1>3 DEF TypeOK, Consistent
<1>6. ChannelFits'
  BY <1>1, <1>4 DEF ChannelFits
<1>7. ASSUME NEW t \in Thread, chan.lock.holder = t
      PROVE  CommandFits(t)' /\ RequestFits(t)'
  <2>1. /\ CommandFits(t) /\ RequestFits(t) /\ t # idle_thread
        /\ pc[t] \in RequestLabels \cup {"wait"}
    BY <1>7, HolderIs
  <2>2. ~(pc[t] = "command" /\ dev.irq)
    <3>1. SUFFICES ASSUME pc[t] = "command", dev.irq PROVE FALSE
      OBVIOUS
    <3>2. sched.cur = t /\ ~intr[t]
      BY <2>1, <3>1 DEF CommandFits
    <3> QED BY <2>1, <3>1, <3>2
        DEF ElsewhereStep, intr_timer_handler, IdleBlock, IdleHalt, kernel_thread,
            SyscallEnter, SyscallReturn, sys_fork, Yield, InterruptsOn
  <2>3. CommandFits(t)'
    BY <1>1, <1>4, <2>1, <2>2 DEF CommandFits, Quiet, Awaits
  <2> QED BY <1>1, <1>4, <2>1, <2>3 DEF RequestFits, BeforeData, secs_op
<1>8. chan'.lock.holder = nobody => Quiet'
  BY <1>1 DEF Inv, Quiet
<1>9. \A u \in Thread :
          /\ io'[u] # none <=> pc'[u] \in RequestLabels \cup {"wait"}
          /\ IF chan'.lock.holder = u THEN CommandFits(u)' /\ RequestFits(u)'
                                      ELSE done'[u] = 0 /\ buf'[u] = <<>>
  BY <1>1, <1>4, <1>7 DEF Inv
<1> QED BY <1>2, <1>5, <1>6, <1>8, <1>9 DEF Inv

(* ide_init and thread_init, for disks that take data at once.             *)
LEMMA InitInv == ~SlowData /\ Init => Inv
<1> SUFFICES ASSUME ~SlowData, Init PROVE Inv
  OBVIOUS
<1>1. /\ Consistent(sched) /\ LabelsFit
      /\ pc = [t \in Thread |-> "first"] /\ intr = [t \in Thread |-> FALSE]
  BY ThreadsInitFits DEF Init, ThreadsInit
<1>2. PICK d \in Datum, disk \in Disk :
        /\ dev = [op |-> "read", disk |-> disk, lba |-> 0, cnt |-> 0,
                  phase |-> "idle", irq |-> FALSE]
        /\ store = [k \in Disk |-> [s \in Sector |-> d]]
  BY DEF Init
<1>3. /\ chan = [lock |-> lock_init, expecting_intr |-> FALSE, disk_done |-> sema_init(0)]
      /\ io = [t \in Thread |-> none]
      /\ done = [t \in Thread |-> 0]
      /\ buf = [t \in Thread |-> <<>>]
  BY DEF Init
<1>4. /\ LockIsExact(lock_init) /\ lock_init.holder = nobody
      /\ lock_init.semaphore.waiters = <<>>
      /\ IsInjective(<<>>)
      /\ \A u : ~elem_find(<<>>, u)
  BY DEF LockIsExact, lock_init, sema_init, Lock, Semaphore, IsInjective, elem_find, Range
<1>5. chan \in Channel
  BY <1>3, <1>4 DEF Channel, LockIsExact, sema_init, Semaphore
<1>6. dev \in [op : {"read", "write"}, disk : Disk, lba : Sector, cnt : 0 .. Chunk - 1,
               phase : Phases, irq : BOOLEAN]
  BY <1>2, IdeAssumption DEF Phases
<1>7. TypeOK
  <2>1. sched \in SchedulerState
    BY <1>1 DEF Consistent
  <2>2. pc \in [Thread -> Labels] /\ intr \in [Thread -> BOOLEAN]
    BY <1>1 DEF Labels, Masked
  <2>3. /\ store \in [Disk -> [Sector -> Datum]]
        /\ io \in [Thread -> Request \cup {none}]
        /\ done \in [Thread -> Nat]
        /\ buf \in [Thread -> Seq(Datum)]
    BY <1>2, <1>3
  <2> QED BY <1>5, <1>6, <2>1, <2>2, <2>3 DEF TypeOK
<1>8. ChannelFits
  BY <1>1, <1>3, <1>4, WholeLocksAssumption DEF ChannelFits, RequestLabels, sema_init
<1>9. Quiet
  BY <1>2, <1>3 DEF Quiet, sema_init
<1>10. \A t \in Thread :
          /\ io[t] # none <=> pc[t] \in RequestLabels \cup {"wait"}
          /\ chan.lock.holder # t /\ done[t] = 0 /\ buf[t] = <<>>
  BY <1>1, <1>3, <1>4, WholeLocksAssumption DEF RequestLabels
<1> QED BY <1>1, <1>7, <1>8, <1>9, <1>10 DEF Inv

---------------------------------------------------------------------------
(* Safety                                                                  *)

(* Inv is inductive.                                                       *)
LEMMA NextInv == Inv /\ [Next]_vars => Inv'
<1> SUFFICES ASSUME Inv, [Next]_vars PROVE Inv'
  OBVIOUS
<1>1. CASE (IdleBlock \/ IdleHalt \/ \E t \in Thread : OtherStep(t)) /\ UNCHANGED ide
  BY <1>1, ElsewhereInv DEF OtherStep, ElsewhereStep
<1>2. CASE TimerStep
  BY <1>2, ElsewhereInv DEF TimerStep, ElsewhereStep
<1>3. CASE intr_hd_handler
  BY <1>3, HandlerInv
<1>4. CASE DiskSeeks \/ DiskStores
  BY <1>4, DiskInv
<1>5. ASSUME NEW t \in Thread, NEW r \in Request, ide_request(t, r)
      PROVE  Inv'
  BY <1>5, LockInv DEF ide_request
<1>6. ASSUME NEW t \in Thread, GetChannel(t)
      PROVE  Inv'
  <2>1. /\ sched.cur = t /\ pc[t] = "wait" /\ chan.lock.holder # t
        /\ LockChannel(t) /\ UNCHANGED <<intr, dev, store, io, done, buf>>
    BY <1>6 DEF GetChannel
  <2>2. t # idle_thread
    BY <2>1 DEF Inv, LabelsFit, IdleLabels
  <2>3. io[t] \in Request /\ io' = [io EXCEPT ![t] = io[t]]
    BY <2>1 DEF Inv, TypeOK
  <2> QED BY <2>1, <2>2, <2>3, LockInv
<1>7. ASSUME NEW t \in Thread, RequestStep(t), NoneToServe
      PROVE  Inv'
  BY <1>6, <1>7, SelectInv, ExpectInv, CommandInv, WaitInv, BusyWaitInv, TransferInv, ReturnInv
  DEF RequestStep
<1>8. CASE UNCHANGED vars
  BY <1>8
  DEF Inv, LabelsFit, Unborn, TypeOK, ChannelFits, Quiet, CommandFits, Awaits,
      RequestFits, BeforeData, secs_op
<1>9. CASE ThreadStep
  BY <1>1, <1>5, <1>7, <1>9 DEF ThreadStep, OtherStep
<1> QED BY <1>2, <1>3, <1>4, <1>8, <1>9 DEF Next

(* However the requests of the threads, the disks' own steps and the       *)
(* interrupts are interleaved, the invariant of the channel holds, for     *)
(* disks that take the data of a write as soon as it is asked of them.     *)
THEOREM Invariance == ~SlowData /\ Spec => []Inv
BY InitInv, NextInv, PTL DEF Spec

(* The channel, the registers and the requests keep their types: no        *)
(* sector outside of the disk and no count that does not fit the register. *)
THEOREM TypeCorrect == ~SlowData /\ Spec => []TypeOK
<1>1. Inv => TypeOK
  BY DEF Inv
<1> QED BY <1>1, Invariance, PTL

(* No ASSERT fails and busy_wait finds the disk ready, which is what the   *)
(* PANICs of ide_read and ide_write are about: every sema_up finds         *)
(* disk_done at 0.                                                         *)
THEOREM NoPanicEver == ~SlowData /\ Spec => []NoPanic
<1>1. Inv => NoPanic
  BY DEF Inv, Consistent, NoPanic
<1> QED BY <1>1, Invariance, PTL

(* select_sector and cmd_out write the registers of an idle disk.          *)
THEOREM CommandsAreSafe == ~SlowData /\ Spec => []CommandsFindDiskIdle
<1>1. Inv => CommandsFindDiskIdle
  <2> SUFFICES ASSUME Inv, NEW t \in Thread, pc[t] \in {"select", "flag", "command"}
               PROVE  dev.phase = "idle"
    BY DEF CommandsFindDiskIdle
  <2>1. chan.lock.holder = t
    BY DEF Inv, ChannelFits, RequestLabels
  <2> QED BY <2>1, HolderIs DEF CommandFits, Quiet
<1> QED BY <1>1, Invariance, PTL

(* Nothing of one command is left over for the next one or for the next    *)
(* holder of the channel: neither the flag nor a raised disk_done.         *)
THEOREM ChannelIsLeftClean == ~SlowData /\ Spec => []NothingIsLeftOver
<1>1. Inv => NothingIsLeftOver
  <2> SUFFICES ASSUME Inv,
                      ~ \E t \in Thread :
                          /\ chan.lock.holder = t
                          /\ pc[t] \in {"command", "poll", "transfer", "down", "wait"}
               PROVE  ~chan.expecting_intr /\ chan.disk_done = sema_init(0)
    BY DEF NothingIsLeftOver
  <2>1. /\ chan.disk_done \in Semaphore
        /\ chan.lock.holder \in Thread \cup {nobody}
    BY DEF Inv, TypeOK, Channel, Lock
  <2>2. Quiet
    <3>1. CASE chan.lock.holder = nobody
      BY <3>1 DEF Inv
    <3>2. ASSUME NEW t \in Thread, chan.lock.holder = t PROVE Quiet
      BY <3>2, HolderIs DEF CommandFits, RequestLabels
    <3> QED BY <2>1, <3>1, <3>2
  <2>3. \A u \in Thread : ~elem_find(chan.disk_done.waiters, u)
    BY DEF Inv, ChannelFits
  <2>4. chan.disk_done.waiters = <<>>
    <3>1. chan.disk_done.waiters \in Seq(Thread)
      BY <2>1 DEF Semaphore
    <3>2. CASE chan.disk_done.waiters # <<>>
      <4>1. Head(chan.disk_done.waiters) \in Thread
        BY <3>1, <3>2
      <4>2. Head(chan.disk_done.waiters) \in Range(chan.disk_done.waiters)
        BY <3>1, <3>2, PopList DEF Inv, ChannelFits
      <4> QED BY <2>3, <4>1, <4>2 DEF elem_find
    <3> QED BY <3>2
  <2> QED BY <2>1, <2>2, <2>4 DEF Quiet, Semaphore, sema_init
<1> QED BY <1>1, Invariance, PTL

---------------------------------------------------------------------------
(* The driver implements DiskStore                                         *)

(* Reading in two parts.                                                   *)
LEMMA SliceSplit ==
    ASSUME NEW content \in [Sector -> Datum], NEW lba \in Nat, NEW n \in Nat, NEW k \in Nat,
           lba .. lba + n + k - 1 \subseteq Sector
    PROVE  Slice(content, lba, n) \o Slice(content, lba + n, k) = Slice(content, lba, n + k)
<1> DEFINE x == Slice(content, lba, n)
           y == Slice(content, lba + n, k)
           z == Slice(content, lba, n + k)
<1>1. /\ n + k \in Nat /\ lba + n \in Nat
      /\ lba .. lba + n - 1 \subseteq Sector
      /\ lba + n .. lba + n + k - 1 \subseteq Sector
      /\ lba .. lba + (n + k) - 1 \subseteq Sector
  OBVIOUS
<1>2. /\ x \in Seq(Datum) /\ Len(x) = n
      /\ \A i \in 1 .. n : x[i] = content[lba + i - 1]
  BY <1>1, SliceIs
<1>3. /\ y \in Seq(Datum) /\ Len(y) = k
      /\ \A i \in 1 .. k : y[i] = content[lba + n + i - 1]
  BY <1>1, SliceIs
<1>4. /\ z \in Seq(Datum) /\ Len(z) = n + k
      /\ \A i \in 1 .. n + k : z[i] = content[lba + i - 1]
  BY <1>1, SliceIs
<1> HIDE DEF x, y, z
<1>5. /\ x \o y \in Seq(Datum) /\ Len(x \o y) = n + k
      /\ \A i \in 1 .. n + k : (x \o y)[i] = IF i <= n THEN x[i] ELSE y[i - n]
  BY ZenonT(120), <1>2, <1>3, ConcatProperties
<1>6. ASSUME NEW i \in 1 .. n + k PROVE (x \o y)[i] = z[i]
  <2>1. CASE i <= n
    BY <1>2, <1>4, <1>5, <2>1
  <2>2. CASE ~(i <= n)
    <3> DEFINE j == i - n
    <3>1. j \in 1 .. k /\ lba + n + j - 1 = lba + i - 1
      BY <2>2
    <3>2. (x \o y)[i] = y[j] /\ z[i] = content[lba + i - 1]
      BY <1>4, <1>5, <2>2
    <3> HIDE DEF j
    <3> QED BY <1>3, <3>1, <3>2
  <2> QED BY <2>1, <2>2
<1>7. x \o y = z
  BY <1>4, <1>5, <1>6, SeqEqual
<1> QED BY <1>7 DEF x, y, z

(* Writing in two parts.                                                   *)
LEMMA OverwriteSplit ==
    ASSUME NEW content \in [Sector -> Datum], NEW lba \in Nat,
           NEW a \in Seq(Datum), NEW b \in Seq(Datum)
    PROVE  Overwrite(Overwrite(content, lba, a), lba + Len(a), b)
             = Overwrite(content, lba, a \o b)
<1> DEFINE n == Len(a)
           k == Len(b)
           c == a \o b
           half == Overwrite(content, lba, a)
           x == Overwrite(half, lba + n, b)
           y == Overwrite(content, lba, c)
<1>1. n \in Nat /\ k \in Nat /\ lba + n \in Nat
  OBVIOUS
<1>2. /\ c \in Seq(Datum) /\ Len(c) = n + k
      /\ \A i \in 1 .. n + k : c[i] = IF i <= n THEN a[i] ELSE b[i - n]
  BY ConcatProperties
<1> HIDE DEF c
<1>3. /\ half \in [Sector -> Datum]
      /\ \A s \in Sector : half[s]
           = IF s \in lba .. lba + n - 1 THEN a[s - lba + 1] ELSE content[s]
  BY OverwriteIs
<1> HIDE DEF half
<1>4. /\ x \in [Sector -> Datum]
      /\ \A s \in Sector : x[s]
           = IF s \in (lba + n) .. (lba + n) + k - 1
             THEN b[s - (lba + n) + 1] ELSE half[s]
  BY <1>1, <1>3, OverwriteIs
<1>5. /\ y \in [Sector -> Datum]
      /\ \A s \in Sector : y[s]
           = IF s \in lba .. lba + Len(c) - 1 THEN c[s - lba + 1] ELSE content[s]
  BY <1>2, OverwriteIs
<1> HIDE DEF x, y, n, k
<1>6. ASSUME NEW s \in Sector PROVE x[s] = y[s]
  <2>1. CASE s \in lba .. lba + n - 1
    <3> DEFINE i == s - lba + 1
    <3>1. i \in 1 .. n + k /\ i <= n
      BY <1>1, <2>1
    <3>2. x[s] = a[i]
      BY <1>1, <1>3, <1>4, <2>1
    <3>3. y[s] = c[i]
      BY <1>1, <1>2, <1>5, <2>1
    <3> HIDE DEF i
    <3> QED BY <1>2, <3>1, <3>2, <3>3
  <2>2. CASE s \in (lba + n) .. (lba + n) + k - 1
    <3> DEFINE i == s - (lba + n) + 1
               j == s - lba + 1
    <3>1. j \in 1 .. n + k /\ ~(j <= n) /\ j - n = i
      BY <1>1, <2>2
    <3>2. x[s] = b[i]
      BY <1>4, <2>2
    <3>3. y[s] = c[j]
      BY <1>1, <1>2, <1>5, <2>2
    <3> HIDE DEF i, j
    <3> QED BY <1>2, <3>1, <3>2, <3>3
  <2>3. CASE s \notin lba .. lba + (n + k) - 1
    <3>1. s \notin (lba + n) .. (lba + n) + k - 1 /\ s \notin lba .. lba + n - 1
      BY <1>1, <2>3
    <3>2. x[s] = content[s]
      BY <1>3, <1>4, <3>1
    <3>3. y[s] = content[s]
      BY <1>1, <1>2, <1>5, <2>3
    <3> QED BY <3>2, <3>3
  <2>4. s \in lba .. lba + (n + k) - 1
          => s \in lba .. lba + n - 1 \/ s \in (lba + n) .. (lba + n) + k - 1
    BY <1>1
  <2> QED BY <2>1, <2>2, <2>3, <2>4
<1>7. x = y
  BY <1>4, <1>5, <1>6
<1> QED BY <1>7 DEF x, y, c, half, n, k

(* The data from its first sector on is the data, and nothing of it is     *)
(* left past its last.                                                     *)
LEMMA WholeData ==
    ASSUME NEW r \in Request, r.op = "write"
    PROVE  /\ SubSeq(r.data, 1, r.cnt) = r.data
           /\ \A content \in [Sector -> Datum] :
                Overwrite(content, r.lba + r.cnt, SubSeq(r.data, r.cnt + 1, r.cnt)) = content
<1>1. r.lba \in Nat /\ r.cnt \in Nat /\ r.lba + r.cnt \in Nat
  BY IdeAssumption
<1>2. SubSeq(r.data, 1, r.cnt) = r.data
  <2>1. /\ r.data \in Seq(Datum) /\ Len(r.data) = r.cnt
        /\ SubSeq(r.data, 0 + 1, r.cnt) \in Seq(Datum)
        /\ Len(SubSeq(r.data, 0 + 1, r.cnt)) = r.cnt
        /\ \A i \in 1 .. r.cnt : SubSeq(r.data, 0 + 1, r.cnt)[i] = r.data[i]
    BY <1>1, PartIs
  <2> QED BY <2>1, SeqEqual
<1>3. ASSUME NEW content \in [Sector -> Datum]
      PROVE  Overwrite(content, r.lba + r.cnt, SubSeq(r.data, r.cnt + 1, r.cnt)) = content
  <2> DEFINE x == SubSeq(r.data, r.cnt + 1, r.cnt)
  <2>1. x \in Seq(Datum) /\ Len(x) = 0
    BY <1>1, PartIs
  <2> HIDE DEF x
  <2>2. /\ Overwrite(content, r.lba + r.cnt, x) \in [Sector -> Datum]
        /\ \A s \in Sector : Overwrite(content, r.lba + r.cnt, x)[s] = content[s]
    <3> DEFINE lba == r.lba + r.cnt
    <3>1. lba \in Nat
      BY <1>1
    <3> HIDE DEF lba
    <3>2. /\ Overwrite(content, lba, x) \in [Sector -> Datum]
          /\ \A s \in Sector : Overwrite(content, lba, x)[s]
               = IF s \in lba .. lba + Len(x) - 1 THEN x[s - lba + 1] ELSE content[s]
      BY <2>1, <3>1, OverwriteIs
    <3>3. \A s \in Sector : s \notin lba .. lba + Len(x) - 1
      BY <2>1, <3>1
    <3> QED BY <3>2, <3>3 DEF lba
  <2>3. Overwrite(content, r.lba + r.cnt, x) = content
    BY <2>2
  <2> QED BY <2>3 DEF x
<1> QED BY <1>2, <1>3

(* The abstract store, as a function of the variables it is made of, and   *)
(* the abstract answers.                                                   *)
WritersOf(i, dn, d) == {t \in Thread : dn[t] > 0 /\ i[t].op = "write" /\ i[t].disk = d}

WrittenBy(st, i, dn, t) ==
    Overwrite(st[i[t].disk], i[t].lba + dn[t], SubSeq(i[t].data, dn[t] + 1, i[t].cnt))

StoreOf(st, i, dn) ==
    [d \in Disk |-> IF WritersOf(i, dn, d) = {} THEN st[d]
                    ELSE WrittenBy(st, i, dn, CHOOSE t \in WritersOf(i, dn, d) : TRUE)]

Store == [d \in Disk |-> IF Writers(d) = {} THEN store[d]
                         ELSE StoreAfter(CHOOSE t \in Writers(d) : TRUE)]

Answer == [t \in Thread |-> AnswerOf(t)]

LEMMA AbstractIs ==
    /\ Store = StoreOf(store, io, done)
    /\ Store' = StoreOf(store', io', done')
    /\ D!disks = <<Store, io, Answer>>
    /\ (D!disks)' = <<Store', io', Answer'>>
BY DEF D!disks, Store, Answer, StoreOf, WritersOf, WrittenBy, Writers, Begun, StoreAfter

LEMMA SameOperators ==
    /\ \A content, lba, n : D!Slice(content, lba, n) = Slice(content, lba, n)
    /\ \A content, lba, data : D!Overwrite(content, lba, data) = Overwrite(content, lba, data)
BY DEF D!Slice, Slice, D!Overwrite, Overwrite

LEMMA AbstractRead ==
    ASSUME NEW t \in Thread, io[t] # none, io[t].op = "read", Answer[t] = none,
           Answer' = [Answer EXCEPT ![t] = Slice(Store[io[t].disk], io[t].lba, io[t].cnt)],
           Store' = Store, io' = io
    PROVE  D!Read(t)
BY SameOperators DEF D!Read, Store, Answer

LEMMA AbstractWrite ==
    ASSUME NEW t \in Thread, io[t] # none, io[t].op = "write", Answer[t] = none,
           Store' = [Store EXCEPT ![io[t].disk] = Overwrite(@, io[t].lba, io[t].data)],
           Answer' = [Answer EXCEPT ![t] = <<>>], io' = io
    PROVE  D!Write(t)
BY SameOperators DEF D!Write, Store, Answer

LEMMA AbstractReturn ==
    ASSUME NEW t \in Thread, Answer[t] # none, Answer' = [Answer EXCEPT ![t] = none],
           Store' = Store, io' = [io EXCEPT ![t] = none]
    PROVE  D!Return(t)
BY DEF D!Return, Store, Answer

(* When no write has begun the abstract store is the disks' content.       *)
LEMMA NothingPending ==
    ASSUME NEW st \in [Disk -> [Sector -> Datum]], NEW i, NEW dn,
           \A t \in Thread : dn[t] > 0 => i[t].op # "write"
    PROVE  StoreOf(st, i, dn) = st
<1>1. \A d \in Disk : WritersOf(i, dn, d) = {}
  BY DEF WritersOf
<1> QED BY <1>1 DEF StoreOf

(* When t's write has begun, what is still to come is in the abstract      *)
(* store already.                                                          *)
LEMMA OnePending ==
    ASSUME NEW st \in [Disk -> [Sector -> Datum]], NEW i, NEW dn,
           NEW t \in Thread, dn[t] > 0, i[t].op = "write",
           \A u \in Thread \ {t} : ~(dn[u] > 0)
    PROVE  StoreOf(st, i, dn) = [st EXCEPT ![i[t].disk] = WrittenBy(st, i, dn, t)]
<1>1. ASSUME NEW d \in Disk
      PROVE  WritersOf(i, dn, d) = IF i[t].disk = d THEN {t} ELSE {}
  BY <1>1 DEF WritersOf
<1>2. (CHOOSE u \in {t} : TRUE) = t
  OBVIOUS
<1> DEFINE w(u) == WrittenBy(st, i, dn, u)
<1> HIDE DEF w
<1>3. StoreOf(st, i, dn) = [d \in Disk |-> IF WritersOf(i, dn, d) = {} THEN st[d]
                                  ELSE w(CHOOSE u \in WritersOf(i, dn, d) : TRUE)]
  BY DEF StoreOf, w
<1>4. \A d \in Disk : StoreOf(st, i, dn)[d] = IF i[t].disk = d THEN w(t) ELSE st[d]
  BY <1>1, <1>2, <1>3
<1>5. StoreOf(st, i, dn) = [st EXCEPT ![i[t].disk] = w(t)]
  BY <1>3, <1>4
<1> QED BY <1>5 DEF w

(* Requests that have not begun have no answer.                            *)
LEMMA NoAnswer ==
    ASSUME NEW t \in Thread
    PROVE  /\ ~(done[t] > 0) => AnswerOf(t) = none /\ Answer[t] = none
           /\ ~(done'[t] > 0) => AnswerOf(t)' = none /\ Answer'[t] = none
BY DEF Answer, AnswerOf, Begun

(* ide_read or ide_write is called.                                        *)
LEMMA RequestIsCall ==
    ASSUME Inv, NEW t \in Thread, NEW r \in Request, ide_request(t, r)
    PROVE  D!DiskStoreNext
<1>1. /\ io' = [io EXCEPT ![t] = r]
      /\ store' = store /\ done' = done /\ buf' = buf
      /\ io \in [Thread -> Request \cup {none}]
      /\ store \in [Disk -> [Sector -> Datum]]
      /\ pc[t] = "run"
  BY DEF ide_request, Inv, TypeOK
<1>2. io[t] = none /\ chan.lock.holder # t /\ done[t] = 0
  BY <1>1 DEF Inv, ChannelFits, RequestLabels
<1>3. \A u \in Thread \ {t} : io'[u] = io[u]
  BY <1>1
<1>4. Answer' = Answer
  <2>1. \A u \in Thread : AnswerOf(u)' = AnswerOf(u)
    BY <1>1, <1>2, <1>3 DEF AnswerOf, Begun
  <2> QED BY <2>1 DEF Answer
<1>5. StoreOf(store', io', done') = StoreOf(store, io, done)
  <2>1. CASE \A u \in Thread : done[u] > 0 => io[u].op # "write"
    <3>1. \A u \in Thread : done'[u] > 0 => io'[u].op # "write"
      BY <1>1, <1>2, <1>3, <2>1
    <3>2. store' \in [Disk -> [Sector -> Datum]]
      BY <1>1
    <3>3. StoreOf(store', io', done') = store'
      BY <3>1, <3>2, NothingPending
    <3> QED BY <1>1, <2>1, <3>3, NothingPending
  <2>2. ASSUME NEW u \in Thread, done[u] > 0, io[u].op = "write"
        PROVE  StoreOf(store', io', done') = StoreOf(store, io, done)
    <3>1. u # t /\ chan.lock.holder = u
      BY <1>2, <2>2 DEF Inv
    <3>2. \A v \in Thread \ {u} : ~(done[v] > 0)
      BY <3>1, HolderIs
    <3>3. io'[u] = io[u] /\ store' \in [Disk -> [Sector -> Datum]]
      BY <1>1, <1>3, <3>1
    <3>4. StoreOf(store, io, done) = [store EXCEPT ![io[u].disk] = WrittenBy(store, io, done, u)]
      BY <1>1, <2>2, <3>2, OnePending
    <3>5. StoreOf(store', io', done')
            = [store' EXCEPT ![io'[u].disk] = WrittenBy(store', io', done', u)]
      <4>1. /\ done'[u] > 0 /\ io'[u].op = "write"
            /\ \A v \in Thread \ {u} : ~(done'[v] > 0)
        BY <1>1, <2>2, <3>2, <3>3
      <4>2. store' \in [Disk -> [Sector -> Datum]] /\ u \in Thread
        BY <3>3
      <4> QED BY ONLY <4>1, <4>2, OnePending
    <3>6. WrittenBy(store', io', done', u) = WrittenBy(store, io, done, u)
      BY <1>1, <3>3 DEF WrittenBy
    <3> QED BY <1>1, <3>3, <3>4, <3>5, <3>6
  <2> QED BY <2>1, <2>2
<1>6. D!Call(t, r)
  BY <1>1, <1>2, <1>4, <1>5, AbstractIs DEF D!Call, D!disks
<1> QED BY <1>6 DEF D!DiskStoreNext

(* The first transfer of a read is its moment: the answer is what the disk *)
(* holds then, and later transfers only bring it in.                       *)
LEMMA TransferIsRead ==
    ASSUME Inv, NEW t \in Thread, Transfer(t), io[t].op = "read"
    PROVE  \/ D!DiskStoreNext
           \/ UNCHANGED D!disks
<1> DEFINE c == store[io[t].disk]
           lba == io[t].lba
           cnt == io[t].cnt
           m == done[t]
           n == secs_op(t)
           rest == Slice(c, lba + (m + n), cnt - (m + n))
<1>1. /\ m < cnt /\ m + n <= cnt /\ n \in 1 .. Chunk
      /\ done' = [done EXCEPT ![t] = m + n]
      /\ buf' = [buf EXCEPT ![t] = @ \o Slice(c, lba + m, n)]
      /\ store' = store /\ io' = io
      /\ chan.lock.holder = t
      /\ m = 0 => buf[t] = <<>>
  BY TransferIs DEF RequestFits
<1>2. /\ lba \in Nat /\ cnt \in Nat /\ m \in Nat
      /\ io[t] \in Request /\ io[t].disk \in Disk
      /\ lba .. lba + cnt - 1 \subseteq Sector
      /\ \A u \in Thread \ {t} : done[u] = 0
  BY <1>1, HolderIs
<1>3. /\ store \in [Disk -> [Sector -> Datum]] /\ c \in [Sector -> Datum]
      /\ done \in [Thread -> Nat] /\ buf \in [Thread -> Seq(Datum)]
      /\ io[t] # none
  BY <1>2, IdeAssumption DEF Inv, TypeOK
<1>4. n \in Nat /\ n > 0 /\ m + n > 0
  BY <1>1, <1>2, IdeAssumption
<1>5. /\ done'[t] = m + n
      /\ buf'[t] = buf[t] \o Slice(c, lba + m, n)
      /\ \A u \in Thread \ {t} : done'[u] = 0
  BY <1>1, <1>2, <1>3
<1>6. StoreOf(store', io', done') = StoreOf(store, io, done) /\ StoreOf(store, io, done) = store
  <2>1. \A u \in Thread : /\ done[u] > 0 => io[u].op # "write"
                          /\ done'[u] > 0 => io'[u].op # "write"
    BY <1>1, <1>2, <1>5
  <2>2. store' \in [Disk -> [Sector -> Datum]]
    BY <1>1, <1>3
  <2>3. StoreOf(store', io', done') = store'
    BY <2>1, <2>2, NothingPending
  <2> QED BY <1>1, <1>3, <2>1, <2>3, NothingPending
<1>7. AnswerOf(t)' = buf[t] \o Slice(c, lba + m, cnt - m)
  <2> HIDE DEF n
  <2>1. AnswerOf(t)' = (buf[t] \o Slice(c, lba + m, n)) \o rest
    <3>1. done'[t] > 0 /\ io'[t].op # "write"
      BY <1>1, <1>4, <1>5
    <3> QED BY <1>1, <1>5, <3>1 DEF AnswerOf, Begun
  <2>2. Slice(c, lba + m, n) \o rest = Slice(c, lba + m, cnt - m)
    <3> DEFINE p == lba + m
               k == cnt - (m + n)
    <3>1. /\ p \in Nat /\ k \in Nat
          /\ lba + (m + n) = p + n /\ cnt - m = n + k
          /\ lba <= p /\ p + (n + k) <= lba + cnt /\ n + k \in Nat
      <4>1. lba \in Nat /\ cnt \in Nat /\ m \in Nat /\ n \in Nat /\ m + n <= cnt
        BY ONLY <1>1, <1>2, <1>4
      <4> HIDE DEF lba, cnt, m
      <4> QED BY ONLY <4>1
    <3> HIDE DEF p, k
    <3>2. p .. p + (n + k) - 1 \subseteq Sector
      BY <1>2, <3>1, PartOfRun
    <3>3. p .. p + n + k - 1 \subseteq Sector
      BY <1>4, <3>1, <3>2
    <3>4. Slice(c, p, n) \o Slice(c, p + n, k) = Slice(c, p, n + k)
      BY <1>3, <1>4, <3>1, <3>3, SliceSplit
    <3> QED BY <3>1, <3>4 DEF p, k
  <2>3. Slice(c, lba + m, n) \in Seq(Datum) /\ rest \in Seq(Datum)
    <3> DEFINE p == lba + m
               q == lba + (m + n)
               k == cnt - (m + n)
    <3>1. /\ p \in Nat /\ q \in Nat /\ k \in Nat
          /\ lba <= p /\ p + n <= lba + cnt
          /\ lba <= q /\ q + k <= lba + cnt
      BY <1>1, <1>2, <1>4
    <3> HIDE DEF p, q, k
    <3>2. p .. p + n - 1 \subseteq Sector /\ q .. q + k - 1 \subseteq Sector
      BY <1>2, <1>4, <3>1, PartOfRun
    <3>3. Slice(c, p, n) \in Seq(Datum) /\ Slice(c, q, k) \in Seq(Datum)
      BY <1>3, <1>4, <3>1, <3>2, SliceIs
    <3> QED BY <3>3 DEF p, q, k
  <2> DEFINE x == buf[t]
             y == Slice(c, lba + m, n)
  <2>4. x \in Seq(Datum) /\ y \in Seq(Datum)
    BY <1>3, <2>3
  <2>5. AnswerOf(t)' = (x \o y) \o rest /\ y \o rest = Slice(c, lba + m, cnt - m)
    BY <2>1, <2>2
  <2> HIDE DEF rest, x, y
  <2>6. (x \o y) \o rest = x \o (y \o rest)
    BY <2>3, <2>4, ConcatAssociative
  <2> QED BY <2>5, <2>6 DEF x
<1>8. \A u \in Thread \ {t} : Answer'[u] = Answer[u]
  <2>1. \A u \in Thread \ {t} : ~(done[u] > 0) /\ ~(done'[u] > 0)
    BY <1>2, <1>5
  <2> QED BY <2>1, NoAnswer
<1>9. Answer'[t] = AnswerOf(t)' /\ Answer[t] = AnswerOf(t)
      /\ DOMAIN Answer = Thread /\ DOMAIN Answer' = Thread
  BY DEF Answer
<1>10. CASE m = 0
  <2>1. AnswerOf(t)' = Slice(c, lba, cnt)
    <3>1. lba + m = lba /\ cnt - m = cnt /\ cnt \in Nat /\ buf[t] = <<>>
      BY <1>1, <1>2, <1>10
    <3>2. Slice(c, lba, cnt) \in Seq(Datum)
      BY <1>2, <1>3, SliceIs
    <3> QED BY <1>7, <3>1, <3>2
  <2>2. Answer[t] = none
    BY <1>10, NoAnswer
  <2>3. Answer' = [Answer EXCEPT ![t] = Slice(c, lba, cnt)]
    <3>1. Answer' = [u \in Thread |-> AnswerOf(u)'] /\ Answer = [u \in Thread |-> AnswerOf(u)]
      BY DEF Answer
    <3> QED BY <1>8, <1>9, <2>1, <3>1
  <2>4. D!Read(t)
    <3>1. Store' = Store /\ Store = store
      BY <1>6, AbstractIs
    <3> QED BY <1>1, <1>3, <2>2, <2>3, <3>1, AbstractRead
  <2> QED BY <2>4 DEF D!DiskStoreNext
<1>11. CASE m # 0
  <2>1. AnswerOf(t) = buf[t] \o Slice(c, lba + m, cnt - m)
    <3>1. done[t] > 0 /\ io[t].op # "write"
      BY <1>2, <1>11
    <3> QED BY <3>1 DEF AnswerOf, Begun
  <2>2. Answer' = Answer
    <3>1. Answer' = [u \in Thread |-> AnswerOf(u)'] /\ Answer = [u \in Thread |-> AnswerOf(u)]
      BY DEF Answer
    <3>2. \A u \in Thread : AnswerOf(u)' = AnswerOf(u)
      BY <1>7, <1>8, <2>1, <3>1
    <3> QED BY <3>1, <3>2
  <2> QED BY <1>1, <1>6, <2>2, AbstractIs
<1> QED BY <1>10, <1>11

(* The first transfer of a write is its moment: from then on the store has *)
(* all of its data, and later transfers only bring it to the disk.         *)
LEMMA TransferIsWrite ==
    ASSUME Inv, NEW t \in Thread, Transfer(t), io[t].op = "write"
    PROVE  \/ D!DiskStoreNext
           \/ UNCHANGED D!disks
<1> DEFINE disk == io[t].disk
           c == store[disk]
           lba == io[t].lba
           cnt == io[t].cnt
           data == io[t].data
           m == done[t]
           n == secs_op(t)
           part == SubSeq(data, m + 1, m + n)
           rest == SubSeq(data, m + n + 1, cnt)
           whole == Overwrite(c, lba + m, SubSeq(data, m + 1, cnt))
<1>1. /\ m < cnt /\ m + n <= cnt /\ n \in 1 .. Chunk
      /\ done' = [done EXCEPT ![t] = m + n]
      /\ store' = [store EXCEPT ![disk] = Overwrite(@, lba + m, part)]
      /\ buf' = buf /\ io' = io
      /\ chan.lock.holder = t
  BY TransferIs
<1>2. /\ lba \in Nat /\ cnt \in Nat /\ m \in Nat
      /\ io[t] \in Request /\ disk \in Disk
      /\ \A u \in Thread \ {t} : done[u] = 0
  BY <1>1, HolderIs
<1>3. /\ store \in [Disk -> [Sector -> Datum]] /\ c \in [Sector -> Datum]
      /\ done \in [Thread -> Nat]
      /\ io[t] # none
  BY <1>2, IdeAssumption DEF Inv, TypeOK
<1>4. n \in Nat /\ n > 0 /\ m + n > 0 /\ m + n \in Nat
  BY <1>1, <1>2, IdeAssumption
<1>5. /\ done'[t] = m + n
      /\ \A u \in Thread \ {t} : done'[u] = 0
  BY <1>1, <1>2, <1>3
<1>6. /\ data \in Seq(Datum) /\ Len(data) = cnt
      /\ part \in Seq(Datum) /\ Len(part) = n
      /\ rest \in Seq(Datum)
      /\ part \o rest = SubSeq(data, m + 1, cnt)
  <2> DEFINE k == m + n
  <2>1. k \in Nat /\ k <= cnt /\ m <= k /\ k - m = n
    BY <1>1, <1>2, <1>4
  <2> HIDE DEF k
  <2>2. /\ data \in Seq(Datum) /\ Len(data) = cnt
        /\ SubSeq(data, m + 1, k) \in Seq(Datum) /\ Len(SubSeq(data, m + 1, k)) = n
        /\ SubSeq(data, k + 1, cnt) \in Seq(Datum)
    <3>1. /\ data \in Seq(Datum) /\ Len(data) = cnt
          /\ SubSeq(data, m + 1, k) \in Seq(Datum)
          /\ Len(SubSeq(data, m + 1, k)) = IF m <= k THEN k - m ELSE 0
      BY <1>2, <2>1, PartIs
    <3>2. SubSeq(data, k + 1, cnt) \in Seq(Datum)
      <4>1. \A r \in Request : r.op = "write" => SubSeq(r.data, k + 1, r.cnt) \in Seq(Datum)
        BY <2>1, PartIs, IdeAssumption
      <4> QED BY <1>2, <4>1
    <3> QED BY <2>1, <3>1, <3>2
  <2>3. SubSeq(data, m + 1, k) \o SubSeq(data, k + 1, cnt) = SubSeq(data, m + 1, cnt)
    <3> DEFINE first == m + 1
               d == data
    <3>0. d \in Seq(Datum) /\ Len(d) = cnt
      BY <2>2
    <3> HIDE DEF d
    <3>1. first \in 1 .. Len(d) + 1 /\ k \in first - 1 .. Len(d) /\ cnt \in k .. Len(d)
      <4>1. cnt \in Nat /\ m \in Nat /\ m < cnt /\ Len(d) = cnt
        BY <1>1, <1>2, <3>0
      <4> HIDE DEF cnt, m
      <4> QED BY <2>1, <4>1
    <3> HIDE DEF first, cnt
    <3>2. SubSeq(d, first, k) \o SubSeq(d, k + 1, cnt) = SubSeq(d, first, cnt)
      BY <3>0, <3>1, ConcatAdjacentSubSeq
    <3> QED BY <3>2 DEF first, d
  <2> QED BY <2>2, <2>3 DEF k
<1>7. /\ store' \in [Disk -> [Sector -> Datum]]
      /\ store'[disk] = Overwrite(c, lba + m, part)
      /\ \A d \in Disk \ {disk} : store'[d] = store[d]
  <2>1. lba + m \in Nat
    BY <1>2
  <2> HIDE DEF part, m, lba
  <2>2. Overwrite(c, lba + m, part) \in [Sector -> Datum]
    BY <1>3, <1>6, <2>1, OverwriteIs
  <2> QED BY <1>1, <1>2, <1>3, <2>2
<1>8. WrittenBy(store', io', done', t) = whole
  <2>1. WrittenBy(store', io', done', t)
          = Overwrite(Overwrite(c, lba + m, part), lba + (m + n), rest)
    BY <1>1, <1>5, <1>7 DEF WrittenBy
  <2>2. Overwrite(Overwrite(c, lba + m, part), lba + (m + n), rest)
          = Overwrite(c, lba + m, part \o rest)
    <3> DEFINE p == lba + m
    <3> HIDE DEF part, rest
    <3>1. p \in Nat /\ lba + (m + n) = p + Len(part)
      <4> HIDE DEF n, m, lba
      <4> QED BY SMTT(100), <1>2, <1>4, <1>6
    <3> HIDE DEF p
    <3>2. Overwrite(Overwrite(c, p, part), p + Len(part), rest) = Overwrite(c, p, part \o rest)
      BY <1>3, <1>6, <3>1, OverwriteSplit
    <3> QED BY <3>1, <3>2 DEF p
  <2> QED BY <1>6, <2>1, <2>2
<1>9. Store' = [store EXCEPT ![disk] = whole]
  <2>1. StoreOf(store', io', done')
          = [store' EXCEPT ![io'[t].disk] = WrittenBy(store', io', done', t)]
    <3>1. /\ done'[t] > 0 /\ io'[t].op = "write"
          /\ \A u \in Thread \ {t} : ~(done'[u] > 0)
      BY <1>1, <1>4, <1>5
    <3> QED BY SMTT(100), <1>7, <3>1, OnePending
  <2> HIDE DEF whole
  <2>2. Store' = [store' EXCEPT ![disk] = whole]
    BY <1>1, <1>8, <2>1, AbstractIs
  <2>3. [store' EXCEPT ![disk] = whole] = [store EXCEPT ![disk] = whole]
    BY <1>2, <1>3, <1>7
  <2> QED BY <2>2, <2>3
<1>10. /\ \A u \in Thread \ {t} : AnswerOf(u)' = none /\ AnswerOf(u) = none
       /\ AnswerOf(t)' = <<>>
  <2>1. \A u \in Thread \ {t} : AnswerOf(u)' = none /\ AnswerOf(u) = none
    BY <1>2, <1>5, NoAnswer
  <2>2. done'[t] > 0 /\ io'[t].op = "write"
    BY <1>1, <1>4, <1>5
  <2> QED BY <2>1, <2>2 DEF AnswerOf, Begun
<1>11. CASE m = 0
  <2>1. Store = store
    <3>1. \A u \in Thread : done[u] > 0 => io[u].op # "write"
      BY <1>2, <1>11
    <3> QED BY <1>3, <3>1, AbstractIs, NothingPending
  <2>2. Store' = [Store EXCEPT ![disk] = Overwrite(@, lba, data)]
    <3>1. whole = Overwrite(c, lba, data)
      <4>1. SubSeq(data, 1, cnt) = data
        BY <1>2, WholeData
      <4>2. lba + m = lba /\ m + 1 = 1
        BY <1>2, <1>11
      <4> QED BY <4>1, <4>2
    <3> HIDE DEF whole
    <3> QED BY <1>2, <1>3, <1>9, <2>1, <3>1
  <2>3. Answer[t] = none /\ Answer' = [Answer EXCEPT ![t] = <<>>]
    <3>1. Answer' = [u \in Thread |-> AnswerOf(u)'] /\ Answer = [u \in Thread |-> AnswerOf(u)]
      BY DEF Answer
    <3> QED BY <1>10, <1>11, <3>1, NoAnswer
  <2>4. D!Write(t)
    BY <1>1, <1>3, <2>2, <2>3, AbstractWrite
  <2> QED BY <2>4 DEF D!DiskStoreNext
<1>12. CASE m # 0
  <2>1. Store = [store EXCEPT ![disk] = whole]
    <3>1. /\ done[t] > 0
          /\ \A u \in Thread \ {t} : ~(done[u] > 0)
      BY <1>2, <1>12
    <3>2. StoreOf(store, io, done) = [store EXCEPT ![disk] = WrittenBy(store, io, done, t)]
      BY <1>3, <3>1, OnePending
    <3> QED BY <3>2, AbstractIs DEF WrittenBy
  <2>2. Answer' = Answer
    <3>1. AnswerOf(t) = <<>>
      BY <1>2, <1>12 DEF AnswerOf, Begun
    <3>2. Answer' = [u \in Thread |-> AnswerOf(u)'] /\ Answer = [u \in Thread |-> AnswerOf(u)]
      BY DEF Answer
    <3>3. \A u \in Thread : AnswerOf(u)' = AnswerOf(u)
      BY <1>10, <3>1
    <3> QED BY <3>2, <3>3
  <2> QED BY <1>1, <1>9, <2>1, <2>2, AbstractIs
<1> QED BY <1>11, <1>12

(* The request is over: all of it has been moved.                          *)
LEMMA ReturnIsReturn ==
    ASSUME Inv, NEW t \in Thread, ide_return(t)
    PROVE  D!DiskStoreNext
<1>1. /\ chan.lock.holder = t /\ pc[t] = "release"
      /\ store' = store
      /\ io' = [io EXCEPT ![t] = none]
      /\ done' = [done EXCEPT ![t] = 0]
      /\ buf' = [buf EXCEPT ![t] = <<>>]
      /\ TypeOK
  BY RunnerIs DEF Inv, RequestLabels, ide_return
<1>2. /\ RequestFits(t) /\ io[t] \in Request
      /\ io[t].cnt \in Nat \ {0} /\ io[t].lba \in Nat /\ io[t].disk \in Disk
      /\ \A u \in Thread \ {t} : done[u] = 0
  BY <1>1, HolderIs
<1>3. done[t] = io[t].cnt /\ done[t] > 0
  BY <1>1, <1>2 DEF RequestFits
<1>4. /\ store \in [Disk -> [Sector -> Datum]] /\ store' \in [Disk -> [Sector -> Datum]]
      /\ done \in [Thread -> Nat] /\ buf \in [Thread -> Seq(Datum)]
      /\ none \notin Seq(Datum)
      /\ \A u \in Thread : done'[u] = 0
  BY <1>1, <1>2, IdeAssumption DEF TypeOK
<1>5. Store' = store
  <2>1. \A u \in Thread : done'[u] > 0 => io'[u].op # "write"
    BY <1>4
  <2>2. StoreOf(store', io', done') = store'
    BY <1>4, <2>1, NothingPending
  <2> QED BY <1>1, <2>2, AbstractIs
<1>6. Store = store
  <2>1. CASE io[t].op # "write"
    <3>1. \A u \in Thread : done[u] > 0 => io[u].op # "write"
      BY <1>2, <2>1
    <3> QED BY <1>4, <3>1, NothingPending, AbstractIs
  <2>2. CASE io[t].op = "write"
    <3>1. StoreOf(store, io, done) = [store EXCEPT ![io[t].disk] = WrittenBy(store, io, done, t)]
      <4>1. done[t] > 0 /\ \A u \in Thread \ {t} : ~(done[u] > 0)
        BY <1>2, <1>3
      <4>2. store \in [Disk -> [Sector -> Datum]]
        BY <1>4
      <4> QED BY <2>2, <4>1, <4>2, OnePending
    <3>2. WrittenBy(store, io, done, t) = store[io[t].disk]
      <4>1. store[io[t].disk] \in [Sector -> Datum]
        BY <1>2, <1>4
      <4> QED BY <1>2, <1>3, <2>2, <4>1, WholeData DEF WrittenBy
    <3> QED BY <1>2, <1>4, <3>1, <3>2, AbstractIs
  <2> QED BY <2>1, <2>2
<1>7. AnswerOf(t) # none
  <2>1. CASE io[t].op = "write"
    <3>1. AnswerOf(t) = <<>>
      BY <1>3, <2>1 DEF AnswerOf, Begun
    <3>2. <<>> \in Seq(Datum)
      OBVIOUS
    <3> QED BY <1>4, <3>1, <3>2
  <2>2. CASE io[t].op # "write"
    <3> DEFINE rest == Slice(store[io[t].disk], io[t].lba + done[t], io[t].cnt - done[t])
               p == io[t].lba + done[t]
               k == io[t].cnt - done[t]
    <3>1. AnswerOf(t) = buf[t] \o rest
      BY <1>3, <2>2 DEF AnswerOf, Begun
    <3>2. p \in Nat /\ k \in Nat /\ k = 0 /\ p .. p + k - 1 \subseteq Sector
      BY <1>2, <1>3
    <3>3. rest \in Seq(Datum)
      <4>1. store[io[t].disk] \in [Sector -> Datum]
        BY <1>2, <1>4
      <4> HIDE DEF p, k
      <4>2. Slice(store[io[t].disk], p, k) \in Seq(Datum)
        BY <3>2, <4>1, SliceIs
      <4> QED BY <4>2 DEF p, k
    <3> HIDE DEF rest
    <3>4. buf[t] \in Seq(Datum)
      BY <1>4
    <3>5. buf[t] \o rest \in Seq(Datum)
      BY <3>3, <3>4, ConcatProperties
    <3> QED BY <1>4, <3>1, <3>5
  <2> QED BY <2>1, <2>2
<1>8. Answer[t] # none /\ Answer' = [Answer EXCEPT ![t] = none]
  <2>1. Answer' = [u \in Thread |-> AnswerOf(u)'] /\ Answer = [u \in Thread |-> AnswerOf(u)]
    BY DEF Answer
  <2>2. \A u \in Thread : AnswerOf(u)' = none
    BY <1>4, NoAnswer
  <2>3. \A u \in Thread \ {t} : AnswerOf(u) = none
    BY <1>2, NoAnswer
  <2> QED BY <1>7, <2>1, <2>2, <2>3
<1>9. D!Return(t)
  BY <1>1, <1>5, <1>6, <1>8, AbstractReturn
<1> QED BY <1>9 DEF D!DiskStoreNext

(* Steps that move no data and neither begin nor end a request are hidden. *)
LEMMA NothingMoves ==
    ASSUME store' = store, io' = io, done' = done, buf' = buf
    PROVE  UNCHANGED D!disks
<1>1. Answer' = Answer
  BY DEF Answer, AnswerOf, Begun
<1>2. Store' = Store
  BY AbstractIs
<1> QED BY <1>1, <1>2, AbstractIs

(* However a request is cut into commands, however many threads use the    *)
(* two disks and whenever the interrupts come: each ide_read and ide_write *)
(* takes effect as a whole, at one moment between its call and its return. *)
THEOREM RefinesDiskStore == ~SlowData /\ Spec => ImplementsDiskStore
<1>1. ~SlowData /\ Init => D!DiskStoreInit
  <2> SUFFICES ASSUME ~SlowData, Init PROVE D!DiskStoreInit
    OBVIOUS
  <2>1. /\ store \in [Disk -> [Sector -> Datum]]
        /\ io = [t \in Thread |-> none]
        /\ done = [t \in Thread |-> 0]
    BY InitInv DEF Inv, TypeOK, Init
  <2>2. Store = store
    <3>1. \A t \in Thread : done[t] > 0 => io[t].op # "write"
      BY <2>1
    <3> QED BY <2>1, <3>1, AbstractIs, NothingPending
  <2>3. Answer = [t \in Thread |-> none]
    <3>1. \A t \in Thread : AnswerOf(t) = none
      BY <2>1, NoAnswer
    <3> QED BY <3>1 DEF Answer
  <2> QED BY <2>1, <2>2, <2>3 DEF D!DiskStoreInit, Store, Answer
<1>2. Inv /\ [Next]_vars => [D!DiskStoreNext]_(D!disks)
  <2> SUFFICES ASSUME Inv, [Next]_vars PROVE [D!DiskStoreNext]_(D!disks)
    OBVIOUS
  <2>1. CASE UNCHANGED <<store, io, done, buf>>
    BY <2>1, NothingMoves
  <2>2. ASSUME NEW t \in Thread, NEW r \in Request, ide_request(t, r)
        PROVE  D!DiskStoreNext
    BY <2>2, RequestIsCall
  <2>3. ASSUME NEW t \in Thread, Transfer(t)
        PROVE  D!DiskStoreNext \/ UNCHANGED D!disks
    <3>1. io[t].op \in {"read", "write"}
      BY <2>3, TransferIs, HolderIs
    <3> QED BY <2>3, <3>1, TransferIsRead, TransferIsWrite
  <2>4. ASSUME NEW t \in Thread, ide_return(t)
        PROVE  D!DiskStoreNext
    BY <2>4, ReturnIsReturn
  <2>5. ASSUME NEW t \in Thread, RequestStep(t)
        PROVE  Transfer(t) \/ ide_return(t) \/ UNCHANGED <<store, io, done, buf>>
    BY <2>5
    DEF RequestStep, GetChannel, select_sector, ExpectInterrupt, cmd_out, WaitForDisk,
        busy_wait
  <2>6. CASE TimerStep \/ intr_hd_handler \/ DiskSeeks \/ DiskStores \/ UNCHANGED vars
    BY <2>1, <2>6 DEF TimerStep, intr_hd_handler, DiskSeeks, DiskStores
  <2>7. CASE ThreadStep
    BY <2>1, <2>2, <2>3, <2>4, <2>5, <2>7 DEF ThreadStep, OtherStep
  <2> QED BY <2>6, <2>7 DEF Next
<1> QED BY <1>1, <1>2, Invariance, PTL DEF Spec, ImplementsDiskStore, D!DiskStoreSpec
=============================================================================
