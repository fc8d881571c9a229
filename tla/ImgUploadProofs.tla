--------------------------- MODULE ImgUploadProofs ---------------------------
(***************************************************************************)
(* Theorems about ImgUpload, for all sizes, images, threads and bounds:    *)
(* type correctness, that no upload reaches the boot counter's sector, and *)
(* that an upload reported stored is stored.                               *)
(***************************************************************************)
EXTENDS ImgUpload, SequenceTheorems, TLAPS

-----------------------------------------------------------------------------
(* Arithmetic of chunks and sectors. *)

\* Division rounds down.
LEMMA DivBounds ==
    ASSUME NEW a \in Nat, NEW s \in Nat \ {0}
    PROVE  /\ a \div s \in Nat
           /\ s * (a \div s) <= a
           /\ a < s * (a \div s) + s
OBVIOUS

\* Division preserves the order.
LEMMA DivMonotone ==
    ASSUME NEW a \in Nat, NEW b \in Nat, NEW s \in Nat \ {0}, a <= b
    PROVE  a \div s <= b \div s
<1> DEFINE p == a \div s
           q == b \div s
<1>1. p \in Nat /\ q \in Nat /\ s * p <= a /\ b < s * q + s
  BY DivBounds
<1>2. SUFFICES ASSUME q < p PROVE FALSE
  BY <1>1
<1> HIDE DEF p, q
<1>3. s * q + s <= s * p
  BY <1>1, <1>2
<1> QED
  BY <1>1, <1>3

\* Rounding up: a whole number of units, not below n, and monotone.
LEMMA CeilToFacts ==
    ASSUME NEW n \in Nat, NEW unit \in Nat \ {0}
    PROVE  CeilTo(n, unit) \in Nat /\ n <= CeilTo(n, unit)
<1> DEFINE q == (n + unit - 1) \div unit
<1>1. n + unit - 1 \in Nat
  OBVIOUS
<1>2. q \in Nat /\ n + unit - 1 < unit * q + unit
  BY <1>1, DivBounds
<1> HIDE DEF q
<1>3. q * unit \in Nat /\ q * unit = unit * q
  BY <1>2
<1>4. CeilTo(n, unit) = q * unit
  BY DEF CeilTo, q
<1> QED
  BY <1>2, <1>3, <1>4

\* Rounding up preserves the order.
LEMMA CeilToMonotone ==
    ASSUME NEW m \in Nat, NEW n \in Nat, NEW unit \in Nat \ {0}, m <= n
    PROVE  CeilTo(m, unit) <= CeilTo(n, unit)
<1> DEFINE p == (m + unit - 1) \div unit
           q == (n + unit - 1) \div unit
<1>1. m + unit - 1 \in Nat /\ n + unit - 1 \in Nat /\ m + unit - 1 <= n + unit - 1
  OBVIOUS
<1>2. p \in Nat /\ q \in Nat /\ p <= q
  BY <1>1, DivBounds, DivMonotone
<1> HIDE DEF p, q
<1>3. p * unit <= q * unit
  BY <1>2
<1> QED
  BY <1>3 DEF CeilTo, p, q

\* The size, the padded size, the base and the type of an image have their types.
LEMMA PaddedSizeType ==
    ASSUME NEW i \in Images
    PROVE  /\ Size(i) \in Nat /\ PaddedSize(i) \in Nat
           /\ Base(Type(i)) \in Nat /\ Type(i) \in Types
BY SizesAssumption, CeilToFacts DEF Size, PaddedSize, Base, Type, Types

\* What an upload of at most n to an area may erase or write ends before the
\* counter, if n reaches no further.
LEMMA UploadStaysBelow ==
    ASSUME NEW t \in Types, NEW n \in Nat, Reach(t, n) <= PartBytes - Sector,
           NEW total \in Nat, total <= n
    PROVE  /\ Base(t) + total <= PartBytes - Sector
           /\ EraseCells(Base(t), CeilTo(total, Sector)) \cap CounterCells = {}
<1> DEFINE b == Base(t)
           len == CeilTo(total, Sector)
           top == CeilTo(n, Sector)
<1>0. Sector \in Nat \ {0} /\ PartBytes \in Nat
  BY SizesAssumption
<1>1. b \in Nat
  BY SizesAssumption DEF Base
<1>2. /\ len \in Nat /\ top \in Nat /\ total <= len /\ len <= top /\ n <= top
  BY <1>0, CeilToFacts, CeilToMonotone
<1>3. Reach(t, n) <= PartBytes - Sector
  OBVIOUS
<1> DEFINE q == (b + top - 1) \div Sector
<1>4. Reach(t, n) = (q + 1) * Sector
  BY DEF Reach
<1> HIDE DEF b, len, top
<1>5. CASE top = 0
  <2>1. len = 0 /\ total = 0
    BY <1>2, <1>5
  <2>2. EraseCells(b, len) = {}
    BY <2>1 DEF EraseCells
  <2>3. b <= PartBytes - Sector
    <3>1. CASE b = 0
      BY <3>1, SizesAssumption
    <3>2. CASE b > 0
      <4>1. b - 1 \in Nat /\ b + top - 1 = b - 1
        BY <1>1, <1>5, <3>2
      <4>2. q \in Nat /\ b - 1 < Sector * q + Sector
        BY <4>1, <1>0, DivBounds
      <4> HIDE DEF q
      <4>3. (q + 1) * Sector = Sector * q + Sector
        BY <4>2, <1>0
      <4> QED
        BY <1>0, <1>1, <1>3, <1>4, <4>2, <4>3
    <3> QED
      BY <3>1, <3>2, <1>1
  <2> QED
    BY <2>1, <2>2, <2>3, <1>0, <1>1 DEF b, len
<1>6. CASE top > 0
  <2>1. b + top - 1 \in Nat
    BY <1>1, <1>2, <1>6
  <2>2. q \in Nat /\ b + top - 1 < Sector * q + Sector
    BY <2>1, <1>0, DivBounds
  <2>3. (q + 1) * Sector = Sector * q + Sector
    <3> HIDE DEF q
    <3> QED
      BY <2>2, <1>0
  <2>4. b + top <= PartBytes - Sector
    <3> HIDE DEF q
    <3> QED
      BY <1>0, <1>1, <1>2, <1>3, <1>4, <2>2, <2>3
  <2>5. EraseCells(b, len) \cap CounterCells = {}
    <3>1. CASE len = 0
      BY <3>1 DEF EraseCells
    <3>2. CASE len > 0
      <4> DEFINE p == (b + len - 1) \div Sector
      <4>1. b + len - 1 \in Nat /\ b + len - 1 <= b + top - 1
        BY <1>1, <1>2, <3>2
      <4>2. p \in Nat /\ p <= q
        BY <4>1, <2>1, <1>0, DivBounds, DivMonotone
      <4>3. EraseCells(b, len) = (b \div Sector) * Sector .. (p + 1) * Sector - 1
        BY <3>2 DEF EraseCells
      <4> HIDE DEF p, q
      <4>4. (p + 1) * Sector <= (q + 1) * Sector
        BY <4>2, <2>2, <1>0
      <4>5. (p + 1) * Sector \in Nat
        BY <4>2, <1>0
      <4>6. (b \div Sector) * Sector \in Nat
        BY <1>0, <1>1, DivBounds
      <4>7. \A c \in EraseCells(b, len) : c \in Int /\ c < PartBytes - Sector
        BY <1>0, <1>3, <1>4, <4>3, <4>4, <4>5, <4>6, <2>2
      <4>8. \A c \in CounterCells : c >= PartBytes - Sector
        BY <1>0 DEF CounterCells
      <4> QED
        BY <4>7, <4>8, <1>0
    <3> QED
      BY <3>1, <3>2, <1>2
  <2> QED
    BY <2>4, <2>5, <1>0, <1>1, <1>2 DEF b, len
<1> QED
  BY <1>2, <1>5, <1>6
-----------------------------------------------------------------------------
(* What the flash operations and the device's handlers preserve. *)

\* Programming a range leaves a partition of known cells.
LEMMA ProgramType ==
    ASSUME NEW f \in [Cell -> Content], NEW addr, NEW i \in Images, NEW n
    PROVE  Program(f, addr, i, n) \in [Cell -> Content]
<1>1. \A o : DataAt(i, o) \in Content
  BY DEF DataAt, Content
<1>2. \A x, y \in Content : ProgramCell(x, y) \in Content
  BY DEF ProgramCell, Content
<1> QED
  BY <1>1, <1>2 DEF Program

\* So does erasing it.
LEMMA EraseType ==
    ASSUME NEW f \in [Cell -> Content], NEW addr, NEW len
    PROVE  Erase(f, addr, len) \in [Cell -> Content]
BY DEF Erase, Content

\* cmd_imgstart keeps the clock's types.
LEMMA ImgStartType ==
    ASSUME DevTypeOK, NEW t \in Types, NEW total \in Nat, NEW r \in Results,
           ImgStart(t, total, r)
    PROVE  DevTypeOK'
<1>1. flash' \in [Cell -> Content]
  BY EraseType DEF DevTypeOK, ImgStart
<1>2. sTotal' \in Nat /\ sRecv' \in Nat /\ sExpect' \in Nat
  BY DEF DevTypeOK, ImgStart
<1>3. sBase' \in {Base(x) : x \in Types} /\ imgType' \in Types
  BY DEF DevTypeOK, ImgStart
<1>4. sOpen' \in BOOLEAN
  BY DEF DevTypeOK, ImgStart
<1>5. valid' \in [Types -> BOOLEAN] /\ bootOn' \in BOOLEAN
  BY DEF DevTypeOK, ImgStart, flags
<1> QED
  BY <1>1, <1>2, <1>3, <1>4, <1>5 DEF DevTypeOK

\* cmd_img keeps them.
LEMMA ImgChunkType ==
    ASSUME DevTypeOK, NEW i \in Images, NEW n \in Nat, NEW r \in Results,
           ImgChunk(n, i, r)
    PROVE  DevTypeOK'
<1>1. flash' \in [Cell -> Content]
  <2>1. Program(flash, sBase + n * Chunk, i, n) \in [Cell -> Content]
    BY ProgramType DEF DevTypeOK
  <2> QED
    BY <2>1 DEF DevTypeOK, ImgChunk
<1>2. (sExpect + 1) * Chunk \in Nat
  BY SizesAssumption DEF DevTypeOK
<1> QED
  BY <1>1, <1>2 DEF DevTypeOK, ImgChunk, flags

\* cmd_imgend keeps them.
LEMMA ImgEndType ==
    ASSUME DevTypeOK, NEW r \in Results, ImgEnd(r)
    PROVE  DevTypeOK'
<1>1. UNCHANGED <<flash, sTotal, sRecv, sExpect, sBase, imgType>>
  BY DEF ImgEnd
<1>2. sOpen' \in BOOLEAN /\ bootOn' \in BOOLEAN
  BY DEF ImgEnd, DevTypeOK, flags
<1>3. valid' \in [Types -> BOOLEAN]
  BY DEF ImgEnd, DevTypeOK, flags
<1> QED
  BY <1>1, <1>2, <1>3 DEF DevTypeOK

\* A step of the tool alone leaves the clock as it is.
LEMMA DevUnchangedType ==
    ASSUME DevTypeOK, UNCHANGED devVars
    PROVE  DevTypeOK'
BY DEF DevTypeOK, devVars, session, flags

-----------------------------------------------------------------------------
(* Type correctness. *)

\* The initial states are typed: an idle tool, an empty line, no session.
THEOREM InitType == Init => TypeOK
<1> SUFFICES ASSUME Init PROVE TypeOK
  OBVIOUS
<1>1. DevTypeOK
  BY DEF Init, DevInit, SessionInit, DevTypeOK, Content, Types, Base
<1>2. attempt \in [Uploaders -> 1 .. Retries]
  BY BoundsAssumption DEF Init
<1>3. typeLost \in BOOLEAN
  BY DEF Init
<1> QED
  BY <1>1, <1>2, <1>3, BoundsAssumption DEF Init, TypeOK, Cmds, Done

\* A frame at the head of the wire is one of the tool's.
LEMMA HeadFrame ==
    ASSUME TypeOK, tx # <<>>
    PROVE  /\ Head(tx) \in Frames /\ Tail(tx) \in Seq(Frames)
           /\ Head(tx).cmd = "start" => Head(tx).type \in Types /\ Head(tx).total \in Nat
           /\ Head(tx).cmd = "img" => Head(tx).img \in Images /\ Head(tx).seq \in Nat
<1>1. Head(tx) \in Frames /\ Tail(tx) \in Seq(Frames)
  BY DEF TypeOK
<1>2. ASSUME NEW f \in Frames
      PROVE  /\ f.cmd = "start" => f.type \in Types /\ f.total \in Nat
             /\ f.cmd = "img" => f.img \in Images /\ f.seq \in Nat
  BY DEF Frames
<1> QED
  BY <1>1, <1>2

\* Sending a block, sending IMGEND and finishing keep the thread's types.
LEMMA SendBlockType ==
    ASSUME TypeOK, NEW u \in Uploaders, NEW s \in Nat, NEW n \in 1 .. Retries,
           SendBlock(u, s, n)
    PROVE  /\ pc' \in [Uploaders -> Cmds \cup Done] /\ seq' \in [Uploaders -> Nat]
           /\ attempt' \in [Uploaders -> 1 .. Retries] /\ tx' \in Seq(Frames)
<1>1. ImgFrame(img[u], s) \in Frames
  BY DEF ImgFrame, Frames, TypeOK
<1> QED
  BY <1>1 DEF SendBlock, Send, TypeOK, Cmds

\* A thread that sends IMGEND stays typed.
LEMMA SendEndType ==
    ASSUME TypeOK, NEW u \in Uploaders, SendEnd(u)
    PROVE  /\ pc' \in [Uploaders -> Cmds \cup Done] /\ seq' \in [Uploaders -> Nat]
           /\ attempt' \in [Uploaders -> 1 .. Retries] /\ tx' \in Seq(Frames)
<1>1. EndFrame \in Frames
  BY DEF EndFrame, Frames
<1> QED
  BY <1>1 DEF SendEnd, Send, TypeOK, Cmds

\* A thread that ends stays typed.
LEMMA FinishType ==
    ASSUME TypeOK, NEW u \in Uploaders, NEW how \in Done, Finish(u, how)
    PROVE  /\ pc' \in [Uploaders -> Cmds \cup Done] /\ seq' \in [Uploaders -> Nat]
           /\ attempt' \in [Uploaders -> 1 .. Retries] /\ tx' \in Seq(Frames)
BY DEF Finish, TypeOK

\* A thread whose block failed, and sends it again or gives up, stays typed.
LEMMA GiveUpOrRetryType ==
    ASSUME TypeOK, NEW u \in Uploaders, GiveUpOrRetry(u)
    PROVE  /\ pc' \in [Uploaders -> Cmds \cup Done] /\ seq' \in [Uploaders -> Nat]
           /\ attempt' \in [Uploaders -> 1 .. Retries] /\ tx' \in Seq(Frames)
<1>1. seq[u] \in Nat /\ attempt[u] \in 1 .. Retries
  BY DEF TypeOK
<1>2. CASE pc[u] = "img" /\ attempt[u] < Retries
  <2>1. attempt[u] + 1 \in 1 .. Retries
    BY <1>1, <1>2, BoundsAssumption
  <2> QED
    BY <1>1, <1>2, <2>1, SendBlockType DEF GiveUpOrRetry
<1>3. CASE ~(pc[u] = "img" /\ attempt[u] < Retries)
  BY <1>3, FinishType DEF GiveUpOrRetry, Done
<1> QED
  BY <1>2, <1>3

\* A thread that goes on to its next block stays typed.
LEMMA NextBlockType ==
    ASSUME TypeOK, NEW u \in Uploaders, NEW s \in Nat, NextBlock(u, s)
    PROVE  /\ pc' \in [Uploaders -> Cmds \cup Done] /\ seq' \in [Uploaders -> Nat]
           /\ attempt' \in [Uploaders -> 1 .. Retries] /\ tx' \in Seq(Frames)
<1>1. 1 \in 1 .. Retries
  BY BoundsAssumption
<1> QED
  BY <1>1, SendBlockType, SendEndType DEF NextBlock

\* Every step keeps the types.
THEOREM NextType == TypeOK /\ [Next]_vars => TypeOK'
<1> SUFFICES ASSUME TypeOK, [Next]_vars PROVE TypeOK'
  OBVIOUS
<1> USE DEF Results
<1>1. ASSUME NEW u \in Uploaders, NEW i \in Images, Begin(u, i) PROVE TypeOK'
  <2>1. StartFrame(i) \in Frames
    BY PaddedSizeType DEF StartFrame, Frames
  <2>2. DevTypeOK'
    BY <1>1, DevUnchangedType DEF Begin, TypeOK
  <2>3. pc' \in [Uploaders -> Cmds \cup Done] /\ img' \in [Uploaders -> Images]
    BY <1>1 DEF Begin, TypeOK, Cmds
  <2> QED
    BY <1>1, <2>1, <2>2, <2>3 DEF Begin, Send, TypeOK
<1>2. ASSUME NEW u \in Uploaders, GetOk(u) PROVE TypeOK'
  <2>1. DevTypeOK'
    BY <1>2, DevUnchangedType DEF GetOk, TypeOK
  <2>2. /\ pc' \in [Uploaders -> Cmds \cup Done] /\ seq' \in [Uploaders -> Nat]
        /\ attempt' \in [Uploaders -> 1 .. Retries] /\ tx' \in Seq(Frames)
    <3>1. seq[u] + 1 \in Nat /\ "ok" \in Done
      BY DEF TypeOK, Done
    <3> QED
      BY <1>2, <3>1, NextBlockType, FinishType DEF GetOk
  <2> QED
    BY <1>2, <2>1, <2>2 DEF GetOk, TypeOK, bounds
<1>3. ASSUME NEW u \in Uploaders, GetErr(u) PROVE TypeOK'
  <2>1. DevTypeOK'
    BY <1>3, DevUnchangedType DEF GetErr, TypeOK
  <2> QED
    BY <1>3, <2>1, GiveUpOrRetryType DEF GetErr, TypeOK, bounds
<1>4. ASSUME NEW u \in Uploaders, Timeout(u) PROVE TypeOK'
  <2>1. DevTypeOK'
    BY <1>4, DevUnchangedType DEF Timeout, TypeOK
  <2>2. late' \in Nat
    BY <1>4 DEF Timeout, TypeOK
  <2> QED
    BY <1>4, <2>1, <2>2, GiveUpOrRetryType DEF Timeout, TypeOK
<1>5. CASE Notify
  <2>1. DevTypeOK'
    BY <1>5, DevUnchangedType DEF Notify, TypeOK
  <2>2. Head(rx) \in Acks /\ Tail(rx) \in Seq(Acks)
    BY <1>5 DEF Notify, TypeOK
  <2> QED
    BY <1>5, <2>1, <2>2 DEF Notify, TypeOK, thread, bounds
<1>6. ASSUME NEW f \in {ClrFrame, OnFrame(TRUE), OnFrame(FALSE)}, Click(f) PROVE TypeOK'
  <2>1. f \in Frames
    BY DEF ClrFrame, OnFrame, Frames
  <2>2. DevTypeOK'
    BY <1>6, DevUnchangedType DEF Click, TypeOK
  <2> QED
    BY <1>6, <2>1, <2>2 DEF Click, Send, TypeOK, thread
<1>7. CASE Receive
  <2>1. tx' \in Seq(Frames)
    BY <1>7, HeadFrame DEF Receive
  <2>2. DevTypeOK' /\ rx' \in Seq(Acks)
    <3> DEFINE f == Head(tx)
    <3>1. ASSUME NEW r \in Results, f.cmd = "start", ImgStart(f.type, f.total, r),
                 Reply("start", r)
          PROVE  DevTypeOK' /\ rx' \in Seq(Acks)
      BY <1>7, <3>1, HeadFrame, ImgStartType DEF Receive, Reply, Acks, Cmds, TypeOK
    <3>2. ASSUME NEW r \in Results, f.cmd = "img", ImgChunk(f.seq, f.img, r),
                 Reply("img", r)
          PROVE  DevTypeOK' /\ rx' \in Seq(Acks)
      BY <1>7, <3>2, HeadFrame, ImgChunkType DEF Receive, Reply, Acks, Cmds, TypeOK
    <3>3. ASSUME NEW r \in Results, ImgEnd(r), Reply("end", r)
          PROVE  DevTypeOK' /\ rx' \in Seq(Acks)
      BY <3>3, ImgEndType DEF Reply, Acks, Cmds, TypeOK
    <3>4. CASE BootClr /\ UNCHANGED rx
      BY <3>4 DEF BootClr, TypeOK, DevTypeOK, session
    <3>5. ASSUME NEW byte, BootImg(byte), UNCHANGED rx
          PROVE  DevTypeOK' /\ rx' \in Seq(Acks)
      BY <3>5 DEF BootImg, TypeOK, DevTypeOK, session
    <3> QED
      BY <1>7, <3>1, <3>2, <3>3, <3>4, <3>5 DEF Receive
  <2> QED
    BY <1>7, <2>1, <2>2 DEF Receive, TypeOK, thread, bounds
<1>8. CASE LoseFrame
  <2>1. DevTypeOK'
    BY <1>8, DevUnchangedType DEF LoseFrame, TypeOK
  <2> QED
    BY <1>8, <2>1, HeadFrame DEF LoseFrame, Fault, TypeOK, thread
<1>9. CASE GarbleFrame
  <2>1. DevTypeOK'
    BY <1>9, DevUnchangedType DEF GarbleFrame, TypeOK
  <2>2. rx' \in Seq(Acks)
    BY <1>9 DEF GarbleFrame, Reply, Acks, Cmds, TypeOK
  <2> QED
    BY <1>9, <2>1, <2>2, HeadFrame DEF GarbleFrame, Fault, TypeOK, thread
<1>10. CASE GarbleStart
  <2>1. PICK total \in GarbledTotals \cup {Head(tx).total}, t \in {Head(tx).type, "wall"},
             r \in Results : ImgStart(t, total, r) /\ Reply("start", r)
    BY <1>10 DEF GarbleStart
  <2>2. DevTypeOK'
    <3>1. total \in Nat /\ t \in Types
      BY <1>10, <2>1, HeadFrame, GarbledAssumption DEF GarbleStart, Types
    <3> QED
      BY <2>1, <3>1, ImgStartType DEF TypeOK
  <2>3. rx' \in Seq(Acks)
    BY <2>1 DEF Reply, Acks, Cmds, TypeOK
  <2>4. typeLost' \in BOOLEAN
    BY <1>10 DEF GarbleStart
  <2> QED
    BY <1>10, <2>2, <2>3, <2>4, HeadFrame DEF GarbleStart, Fault, TypeOK, thread
<1>11. CASE LoseAck
  <2>1. DevTypeOK'
    BY <1>11, DevUnchangedType DEF LoseAck, TypeOK
  <2>2. Tail(rx) \in Seq(Acks)
    BY <1>11 DEF LoseAck, TypeOK
  <2> QED
    BY <1>11, <2>1, <2>2 DEF LoseAck, Fault, TypeOK, thread
<1>12. CASE Reset
  <2>1. 0 \in {Base(t) : t \in Types}
    BY DEF Base, Types
  <2>2. DevTypeOK'
    BY <1>12, <2>1 DEF Reset, DevReset, DevTypeOK, TypeOK, flags, Types
  <2> QED
    BY <1>12, <2>2 DEF Reset, Fault, TypeOK, thread
<1>13. CASE UNCHANGED vars
  <2>1. DevTypeOK'
    BY <1>13, DevUnchangedType DEF vars, TypeOK
  <2> QED
    BY <1>13, <2>1 DEF vars, TypeOK, thread, bounds
<1> QED
  BY <1>1, <1>2, <1>3, <1>4, <1>5, <1>6, <1>7, <1>8, <1>9, <1>10, <1>11, <1>12, <1>13
     DEF Next, Thread

\* The types hold in every behaviour.
THEOREM TypeCorrect == Spec => []TypeOK
BY InitType, NextType, PTL DEF Spec

-----------------------------------------------------------------------------
(* The boot counter's sector.  CounterSectorSafe alone is not inductive: a *)
(* session opened with a larger total would write over the sector.  What   *)
(* keeps it away is that every IMGSTART on the wire asks for the padded    *)
(* size of an image of its kind, and that what becomes of it when bytes    *)
(* are lost, the type included, is refused or ends before the sector.      *)

Fits(t, total) ==
    total > PartBytes - Base(t) \/ \E n \in Nat : total <= n /\ Reach(t, n) <= PartBytes - Sector

FramesFit ==
    \A k \in 1 .. Len(tx) : tx[k].cmd = "start" =>
        \E i \in Images : tx[k].type = Type(i) /\ tx[k].total = PaddedSize(i)

SessionFits == sOpen => sBase + sTotal <= PartBytes - Sector

CounterInv == FramesFit /\ SessionFits /\ CounterSectorSafe

\* An IMGSTART fits as it was sent, with a smaller total, and with its type lost.
LEMMA StartFits ==
    ASSUME NEW i \in Images, NEW total \in Nat
    PROVE  /\ total <= PaddedSize(i) => Fits(Type(i), total)
           /\ total = PaddedSize(i) => Fits("wall", total)
           /\ Clear("wall", total) => Fits("wall", total)
<1>1. PaddedSize(i) \in Nat /\ PartBytes \in Nat /\ Base("wall") \in Nat
  BY PaddedSizeType, SizesAssumption DEF Base
<1>2. Reach(Type(i), PaddedSize(i)) <= PartBytes - Sector /\ Clear("wall", PaddedSize(i))
  BY LayoutAssumption
<1>3. total <= PaddedSize(i) => Fits(Type(i), total)
  BY <1>1, <1>2 DEF Fits
<1>4. Clear("wall", total) => Fits("wall", total)
  BY <1>1 DEF Fits, Clear
<1> QED
  BY <1>2, <1>3, <1>4

\* The counter's cells are cells of the partition.
LEMMA CounterCellsFacts ==
    ASSUME NEW c \in CounterCells
    PROVE  c \in Cell /\ c >= PartBytes - Sector
BY SizesAssumption DEF CounterCells, Cell

\* Opening a session that fits keeps the sector, and the session fits.
LEMMA ImgStartSafe ==
    ASSUME DevTypeOK, CounterSectorSafe, NEW t \in Types, NEW total \in Nat, NEW r,
           Fits(t, total), ImgStart(t, total, r)
    PROVE  SessionFits' /\ CounterSectorSafe'
<1>2. CASE sOpen'
  <2>1. flash' = Erase(flash, Base(t), CeilTo(total, Sector)) /\ sTotal' = total
        /\ total <= PartBytes - Base(t)
    BY <1>2 DEF ImgStart
  <2>0. PICK n \in Nat : total <= n /\ Reach(t, n) <= PartBytes - Sector
    <3>1. Base(t) \in Nat /\ PartBytes \in Nat
      BY SizesAssumption DEF Base
    <3> QED
      BY <2>1, <3>1 DEF Fits
  <2>2. /\ EraseCells(Base(t), CeilTo(total, Sector)) \cap CounterCells = {}
        /\ Base(t) + total <= PartBytes - Sector
    BY <2>0, UploadStaysBelow
  <2>3. \A c \in CounterCells : flash'[c] = flash[c]
    BY <2>1, <2>2, CounterCellsFacts DEF Erase
  <2> QED
    BY <2>1, <2>2, <2>3 DEF ImgStart, SessionFits, CounterSectorSafe
<1>3. CASE ~sOpen'
  BY <1>3 DEF ImgStart, SessionFits, CounterSectorSafe
<1> QED
  BY <1>2, <1>3

\* A block an open session accepts lies before the sector.
LEMMA ImgChunkSafe ==
    ASSUME DevTypeOK, SessionFits, CounterSectorSafe,
           NEW i, NEW n \in Nat, NEW r, ImgChunk(n, i, r)
    PROVE  SessionFits' /\ CounterSectorSafe'
<1>1. SessionFits'
  BY DEF ImgChunk, SessionFits
<1>2. CASE ~Accepts(n)
  BY <1>1, <1>2 DEF ImgChunk, CounterSectorSafe
<1>3. CASE Accepts(n)
  <2>2. sBase \in Nat /\ sTotal \in Nat /\ sBase + sTotal <= PartBytes - Sector
    BY <1>3, SizesAssumption DEF Accepts, SessionFits, DevTypeOK, Base
  <2> DEFINE a == n * Chunk
  <2>3. a \in Nat /\ a + Chunk <= sTotal
    BY <1>3, SizesAssumption DEF Accepts
  <2>4. flash' = Program(flash, sBase + a, i, n)
    BY <1>3 DEF ImgChunk
  <2> HIDE DEF a
  <2>5. \A c \in CounterCells : c \in Cell /\ c \notin sBase + a .. sBase + a + Chunk - 1
    BY <2>2, <2>3, CounterCellsFacts, SizesAssumption DEF Cell
  <2>6. \A c \in CounterCells : flash'[c] = flash[c]
    BY <2>4, <2>5 DEF Program
  <2> QED
    BY <1>1, <2>6 DEF CounterSectorSafe
<1> QED
  BY <1>2, <1>3

\* Taking a frame off the wire, or putting one there that is no IMGSTART or
\* fits, keeps FramesFit.
LEMMA TailFits ==
    ASSUME TypeOK, FramesFit, tx # <<>>, tx' = Tail(tx)
    PROVE  /\ FramesFit'
           /\ Head(tx).cmd = "start" =>
                 \E i \in Images : Head(tx).type = Type(i) /\ Head(tx).total = PaddedSize(i)
<1>1. tx \in Seq(Frames) /\ Len(tx) \in Nat \ {0} /\ Head(tx) = tx[1]
  BY DEF TypeOK
<1>2. Len(tx') = Len(tx) - 1 /\ \A k \in 1 .. Len(tx') : tx'[k] = tx[k + 1]
  BY <1>1
<1>3. \A k \in 1 .. Len(tx') : k + 1 \in 1 .. Len(tx)
  BY <1>1, <1>2
<1> QED
  BY <1>1, <1>2, <1>3 DEF FramesFit

\* A frame that fits, sent, leaves all frames fitting.
LEMMA SendFits ==
    ASSUME TypeOK, FramesFit, NEW f \in Frames, Send(f),
           f.cmd = "start" =>
               \E i \in Images : f.type = Type(i) /\ f.total = PaddedSize(i)
    PROVE  FramesFit'
<1>1. tx' = Append(tx, f) /\ tx \in Seq(Frames)
  BY DEF Send, TypeOK
<1>2. Len(tx') = Len(tx) + 1 /\ tx'[Len(tx) + 1] = f
      /\ \A k \in 1 .. Len(tx) : tx'[k] = tx[k]
  BY <1>1
<1>3. Len(tx) \in Nat
  BY <1>1
<1>4. ASSUME NEW k \in 1 .. Len(tx'), tx'[k].cmd = "start"
      PROVE  \E i \in Images : tx'[k].type = Type(i) /\ tx'[k].total = PaddedSize(i)
  <2>1. CASE k = Len(tx) + 1
    BY <1>2, <1>4, <2>1
  <2>2. CASE k \in 1 .. Len(tx)
    BY <1>2, <1>4, <2>2 DEF FramesFit
  <2> QED
    BY <1>2, <1>3, <2>1, <2>2
<1> QED
  BY <1>4 DEF FramesFit

\* What a thread sends after an answer or a timeout is no IMGSTART.
LEMMA ThreadFits ==
    ASSUME TypeOK, FramesFit, NEW u \in Uploaders,
           GiveUpOrRetry(u) \/ (\E s \in Nat : NextBlock(u, s)) \/ Finish(u, "ok")
    PROVE  FramesFit'
<1>1. ASSUME NEW s \in Nat, NEW n, SendBlock(u, s, n) PROVE FramesFit'
  <2>1. ImgFrame(img[u], s) \in Frames /\ ImgFrame(img[u], s).cmd # "start"
    BY DEF ImgFrame, Frames, TypeOK
  <2> QED
    BY <1>1, <2>1, SendFits DEF SendBlock
<1>2. CASE SendEnd(u)
  <2>1. EndFrame \in Frames /\ EndFrame.cmd # "start"
    BY DEF EndFrame, Frames
  <2> QED
    BY <1>2, <2>1, SendFits DEF SendEnd
<1>3. ASSUME NEW how, Finish(u, how) PROVE FramesFit'
  BY <1>3 DEF Finish, FramesFit
<1>4. seq[u] \in Nat
  BY DEF TypeOK
<1> QED
  BY <1>1, <1>2, <1>3, <1>4 DEF GiveUpOrRetry, NextBlock

\* No frame and no session at the start.
THEOREM CounterInit == Init => CounterInv
<1> SUFFICES ASSUME Init PROVE CounterInv
  OBVIOUS
<1>1. CounterSectorSafe
  BY CounterCellsFacts DEF Init, DevInit, CounterSectorSafe
<1> QED
  BY <1>1 DEF Init, DevInit, SessionInit, CounterInv, FramesFit, SessionFits

\* No step takes an upload beyond its area.
THEOREM CounterNext == TypeOK /\ CounterInv /\ [Next]_vars => CounterInv'
<1> SUFFICES ASSUME TypeOK, CounterInv, [Next]_vars PROVE CounterInv'
  OBVIOUS
<1> USE DEF CounterInv
\* The device is left alone.
<1>0. UNCHANGED devVars => SessionFits' /\ CounterSectorSafe'
  BY DEF devVars, session, flags, SessionFits, CounterSectorSafe
<1>00. UNCHANGED tx => FramesFit'
  BY DEF FramesFit
<1>1. ASSUME NEW u \in Uploaders, NEW i \in Images, Begin(u, i) PROVE CounterInv'
  <2>1. /\ StartFrame(i) \in Frames
        /\ StartFrame(i).type = Type(i) /\ StartFrame(i).total = PaddedSize(i)
    BY PaddedSizeType DEF StartFrame, Frames
  <2> QED
    BY <1>0, <1>1, <2>1, SendFits DEF Begin
<1>2. ASSUME NEW u \in Uploaders, GetOk(u) PROVE CounterInv'
  <2>1. seq[u] + 1 \in Nat
    BY DEF TypeOK
  <2> QED
    BY <1>0, <1>2, <2>1, ThreadFits DEF GetOk
<1>3. ASSUME NEW u \in Uploaders, GetErr(u) PROVE CounterInv'
  BY <1>0, <1>3, ThreadFits DEF GetErr
<1>4. ASSUME NEW u \in Uploaders, Timeout(u) PROVE CounterInv'
  BY <1>0, <1>4, ThreadFits DEF Timeout
<1>5. CASE Notify
  BY <1>0, <1>00, <1>5 DEF Notify
<1>6. ASSUME NEW f \in {ClrFrame, OnFrame(TRUE), OnFrame(FALSE)}, Click(f)
      PROVE  CounterInv'
  <2>1. f \in Frames /\ f.cmd # "start"
    BY DEF ClrFrame, OnFrame, Frames
  <2> QED
    BY <1>0, <1>6, <2>1, SendFits DEF Click
<1>7. CASE Receive
  <2> DEFINE f == Head(tx)
  <2>1. FramesFit' /\ (f.cmd = "start" => Fits(f.type, f.total))
    BY <1>7, TailFits, StartFits, PaddedSizeType DEF Receive
  <2>2. ASSUME NEW r \in Results, f.cmd = "start", ImgStart(f.type, f.total, r)
        PROVE  SessionFits' /\ CounterSectorSafe'
    BY <1>7, <2>1, <2>2, HeadFrame, ImgStartSafe DEF Receive, TypeOK
  <2>3. ASSUME NEW r \in Results, f.cmd = "img", ImgChunk(f.seq, f.img, r)
        PROVE  SessionFits' /\ CounterSectorSafe'
    BY <1>7, <2>3, HeadFrame, ImgChunkSafe DEF Receive, TypeOK
  <2>4. ASSUME NEW r \in Results, ImgEnd(r)
        PROVE  SessionFits' /\ CounterSectorSafe'
    BY <2>4 DEF ImgEnd, SessionFits, CounterSectorSafe
  <2>5. ASSUME BootClr PROVE SessionFits' /\ CounterSectorSafe'
    <3>1. UNCHANGED <<flash, sOpen, sTotal, sBase>>
      BY <2>5 DEF BootClr, session
    <3> QED
      BY <3>1 DEF SessionFits, CounterSectorSafe
  <2>6. ASSUME NEW byte, BootImg(byte)
        PROVE  SessionFits' /\ CounterSectorSafe'
    BY <2>6 DEF BootImg, session, SessionFits, CounterSectorSafe
  <2> QED
    BY <1>7, <2>1, <2>2, <2>3, <2>4, <2>5, <2>6 DEF Receive
<1>8. CASE LoseFrame
  BY <1>0, <1>8, TailFits DEF LoseFrame
<1>9. CASE GarbleFrame
  BY <1>0, <1>9, TailFits DEF GarbleFrame
<1>10. CASE GarbleStart
  <2> DEFINE f == Head(tx)
  <2>1. PICK total \in GarbledTotals \cup {f.total}, t \in {f.type, "wall"}, r \in Results :
             (t = f.type => total < f.total) /\ ImgStart(t, total, r)
    BY <1>10 DEF GarbleStart
  <2>2. /\ FramesFit' /\ f.type \in Types /\ f.total \in Nat /\ total \in Nat
        /\ t \in Types
    BY <1>10, TailFits, HeadFrame, GarbledAssumption DEF GarbleStart, Types
  <2>3. PICK i \in Images : f.type = Type(i) /\ f.total = PaddedSize(i)
    BY <1>10, TailFits DEF GarbleStart
  <2>4. Fits(t, total)
    <3>1. CASE t = f.type
      <4>1. total <= PaddedSize(i)
        BY <2>1, <2>2, <2>3, <3>1
      <4> QED
        BY <2>2, <2>3, <3>1, <4>1, StartFits
    <3>2. CASE t = "wall" /\ total = f.total
      BY <2>2, <2>3, <3>2, StartFits
    <3>3. CASE t = "wall" /\ total \in GarbledTotals
      <4>1. Clear("wall", total)
        BY <3>3, GarbledAssumption
      <4> QED
        BY <2>2, <2>3, <3>3, <4>1, StartFits
    <3> QED
      BY <2>1, <3>1, <3>2, <3>3
  <2> QED
    BY <2>1, <2>2, <2>4, ImgStartSafe DEF TypeOK
<1>11. CASE LoseAck
  BY <1>0, <1>00, <1>11 DEF LoseAck
<1>12. CASE Reset
  BY <1>00, <1>12 DEF Reset, DevReset, SessionFits, CounterSectorSafe
<1>13. CASE UNCHANGED vars
  BY <1>0, <1>00, <1>13 DEF vars
<1> QED
  BY <1>1, <1>2, <1>3, <1>4, <1>5, <1>6, <1>7, <1>8, <1>9, <1>10, <1>11, <1>12, <1>13
     DEF Next, Thread

\* Neither erasing nor writing an image, of whatever sizes, with whatever faults
\* of the link, reaches the boot counter's sector.
THEOREM CounterSafe == Spec => []CounterSectorSafe
<1>1. TypeOK /\ CounterInv /\ [Next]_vars => (TypeOK /\ CounterInv)'
  BY NextType, CounterNext
<1>2. CounterInv => CounterSectorSafe
  BY DEF CounterInv
<1> QED
  BY InitType, CounterInit, <1>1, <1>2, PTL DEF Spec
-----------------------------------------------------------------------------
(* What an upload that was reported stored has stored.  With one thread    *)
(* and no answer after its timeout, at most one command is on its way, in  *)
(* one direction, and it is the thread's; so an OK is the answer to the    *)
(* block just sent, and the session's place in the flash is the image's.   *)

Only == CHOOSE u \in Uploaders : TRUE
OneThread == Uploaders = {Only}

\* The thread waits for the answer to this frame.
Sent(f) ==
    \/ pc[Only] = "start" /\ f = StartFrame(img[Only])
    \/ pc[Only] = "img" /\ f = ImgFrame(img[Only], seq[Only])
    \/ pc[Only] = "end" /\ f = EndFrame

\* No command among the frames, but perhaps a button's.
Quiet == \A k \in 1 .. Len(tx) : tx[k].cmd \notin Cmds

\* One command or answer at a time.
Alone ==
    /\ \A j, k \in 1 .. Len(tx) : tx[j].cmd \in Cmds /\ tx[k].cmd \in Cmds => j = k
    /\ \A k \in 1 .. Len(tx) : tx[k].cmd \in Cmds => Sent(tx[k])
    /\ ~Quiet => rx = <<>> /\ slot = NoAck
    /\ rx # <<>> => Len(rx) = 1 /\ rx[1].cmd = pc[Only] /\ slot = NoAck
    /\ slot # NoAck => slot.cmd = pc[Only]

\* The device has said OK to a command, and the thread does not know yet.
Granted(c) ==
    \/ slot = [cmd |-> c, res |-> "OK"]
    \/ rx # <<>> /\ rx[1] = [cmd |-> c, res |-> "OK"]

\* What an open session has received is of image i and in the flash, at the place
\* the session was opened for; the rest is blank.
Filled(i) == sOpen =>
    /\ sRecv = sExpect * Chunk /\ sRecv <= sTotal /\ sBase + sTotal <= PartBytes
    /\ \A o \in 0 .. sTotal - 1 :
           flash[sBase + o] = IF o < sRecv THEN DataAt(i, o) ELSE Blank

\* The open session is for image i, in the area its IMGSTART asked for: what has
\* been received is in the flash, the rest is blank.
Session(i) == Filled(i) /\ (sOpen => Kind = Type(i) /\ imgType = Place(i) /\ sBase = Base(imgType))

\* The image is in the flash, where its upload put it.
Stored(i) == HoldsAt(i, Place(i))

\* How far device and flash are at each place of the thread.
Along ==
    /\ pc[Only] \in {"img", "end"} \/ Granted("start") => Session(img[Only])
    /\ Granted("start") /\ sOpen => sExpect = 0
    /\ pc[Only] = "img" /\ sOpen => sExpect >= seq[Only]
    /\ Granted("img") /\ sOpen => sExpect >= seq[Only] + 1
    /\ pc[Only] = "end" /\ sOpen => sExpect >= Chunks(img[Only])
    /\ pc[Only] = "ok" \/ Granted("end") => Stored(img[Only])

StoredInv == TypeOK /\ OneThread /\ Alone /\ Along

\* No timeout came before the answer it gave up on.
NoLate == late = MaxLate

\* Chunks are what the padded size is made of.
LEMMA ChunksFacts ==
    ASSUME NEW i \in Images
    PROVE  /\ Chunks(i) \in Nat /\ Size(i) \in Nat
           /\ Chunks(i) * Chunk >= Size(i) /\ Chunks(i) * Chunk = PaddedSize(i)
<1> DEFINE n == Size(i)
           q == (n + Chunk - 1) \div Chunk
<1>1. n \in Nat /\ Chunk \in Nat \ {0} /\ n + Chunk - 1 \in Nat
  BY PaddedSizeType, SizesAssumption
<1>2. q \in Nat
  BY <1>1, DivBounds
<1>3. PaddedSize(i) = q * Chunk /\ q * Chunk \in Nat /\ n <= q * Chunk
  <2>1. PaddedSize(i) = q * Chunk
    BY DEF PaddedSize, CeilTo
  <2>2. n <= CeilTo(n, Chunk) /\ CeilTo(n, Chunk) \in Nat
    BY <1>1, CeilToFacts
  <2> QED
    BY <2>1, <2>2 DEF PaddedSize
<1> HIDE DEF q, n
<1> DEFINE a == q * Chunk
           p == a \div Chunk
<1>4. p \in Nat /\ Chunk * p <= a /\ a < Chunk * p + Chunk
  BY <1>1, <1>3, DivBounds
<1>5. Chunks(i) = p
  BY <1>3 DEF Chunks
<1> HIDE DEF p
<1>6. p = q
  <2>1. Chunk * p <= Chunk * q /\ Chunk * q < Chunk * p + Chunk
    BY <1>1, <1>2, <1>4
  <2>2. Chunk * (p - q) <= 0 /\ Chunk * (q - p) < Chunk
    BY <1>1, <1>2, <1>4, <2>1
  <2>3. ~(p >= q + 1)
    <3>1. p >= q + 1 => Chunk * p >= Chunk * (q + 1)
      BY <1>1, <1>2, <1>4
    <3> QED
      BY <1>1, <1>2, <1>4, <2>1, <3>1
  <2>4. ~(q >= p + 1)
    <3>1. q >= p + 1 => Chunk * q >= Chunk * (p + 1)
      BY <1>1, <1>2, <1>4
    <3> QED
      BY <1>1, <1>2, <1>4, <2>1, <3>1
  <2> QED
    BY <1>2, <1>4, <2>3, <2>4
<1> QED
  BY <1>1, <1>2, <1>3, <1>5, <1>6 DEF n

\* The frames after a send.
LEMMA Appended ==
    ASSUME TypeOK, NEW f \in Frames, Send(f)
    PROVE  \A k \in 1 .. Len(tx') : \/ k \in 1 .. Len(tx) /\ tx'[k] = tx[k]
                                    \/ k = Len(tx) + 1 /\ tx'[k] = f
<1>1. tx' = Append(tx, f) /\ tx \in Seq(Frames) /\ Len(tx) \in Nat
  BY DEF Send, TypeOK
<1>2. Len(tx') = Len(tx) + 1 /\ tx'[Len(tx) + 1] = f
      /\ \A k \in 1 .. Len(tx) : tx'[k] = tx[k]
  BY <1>1
<1> QED
  BY <1>1, <1>2

\* The frames after one was taken.
LEMMA Taken ==
    ASSUME TypeOK, tx # <<>>, tx' = Tail(tx)
    PROVE  /\ Head(tx) = tx[1] /\ 1 \in 1 .. Len(tx)
           /\ \A k \in 1 .. Len(tx') : k + 1 \in 1 .. Len(tx) /\ tx'[k] = tx[k + 1] /\ k + 1 # 1
<1>1. tx \in Seq(Frames) /\ Len(tx) \in Nat \ {0} /\ Head(tx) = tx[1]
  BY DEF TypeOK
<1>2. Len(tx') = Len(tx) - 1 /\ \A k \in 1 .. Len(tx') : tx'[k] = tx[k + 1]
  BY <1>1
<1> QED
  BY <1>1, <1>2

\* A thread that waits for nothing, or has its answer coming, has nothing on
\* the wire.
LEMMA NothingSent ==
    ASSUME StoredInv, pc[Only] \in Done \/ rx # <<>> \/ slot # NoAck
    PROVE  Quiet
<1>1. Alone
  BY DEF StoredInv
<1>2. pc[Only] \in Done => \A f : ~Sent(f)
  BY DEF Done, Sent
<1> QED
  BY <1>1, <1>2 DEF Alone, Quiet

\* A frame the thread sends, nothing else being on its way.
LEMMA SendsAlone ==
    ASSUME StoredInv, Quiet, NEW f \in Frames, Send(f), Sent(f)', rx' = <<>>, slot' = NoAck
    PROVE  Alone'
<1>1. \A k \in 1 .. Len(tx') : tx'[k].cmd \in Cmds => k = Len(tx) + 1 /\ tx'[k] = f
  BY Appended DEF StoredInv, Quiet
<1> QED
  BY <1>1 DEF Alone, Sent, Quiet

\* It sends nothing more.
LEMMA SendsNothing ==
    ASSUME Quiet, UNCHANGED tx, rx' = <<>>, slot' = NoAck
    PROVE  Alone'
BY DEF Alone, Quiet

\* Where the thread goes after OK.
LEMMA GoesOn ==
    ASSUME StoredInv, Quiet, rx = <<>>, rx' = <<>>, slot' = NoAck, NEW s \in Nat,
           NextBlock(Only, s), Only \in Uploaders, UNCHANGED <<devVars, img, typeLost>>,
           Session(img[Only]), sOpen => sExpect >= s
    PROVE  Alone' /\ Along'
<1>1. /\ pc \in [Uploaders -> Cmds \cup Done] /\ seq \in [Uploaders -> Nat]
      /\ img \in [Uploaders -> Images]
  BY DEF StoredInv, TypeOK
<1>2. Session(img[Only])' /\ img[Only] \in Images /\ UNCHANGED <<sOpen, sExpect>>
  BY <1>1 DEF Session, Filled, Kind, Place, devVars, session
<1>3. \A c \in Cmds : ~Granted(c)'
  BY NoAckAssumption DEF Granted, Acks, Results
<1>4. Chunks(img[Only]) \in Nat /\ sExpect \in Nat
  BY <1>1, <1>2, ChunksFacts DEF StoredInv, TypeOK, DevTypeOK
<1>5. CASE s < Chunks(img[Only])
  <2>1. SendBlock(Only, s, 1)
    BY <1>5 DEF NextBlock
  <2>2. pc'[Only] = "img" /\ seq'[Only] = s /\ Send(ImgFrame(img[Only], s))
    BY <1>1, <2>1 DEF SendBlock
  <2>3. ImgFrame(img[Only], s) \in Frames /\ Sent(ImgFrame(img[Only], s))'
    BY <1>2, <2>2 DEF ImgFrame, Frames, Sent
  <2>4. Alone'
    BY <2>2, <2>3, SendsAlone
  <2> QED
    BY <1>2, <1>3, <2>2, <2>4 DEF Along, Cmds
<1>6. CASE ~(s < Chunks(img[Only]))
  <2>1. pc'[Only] = "end" /\ Send(EndFrame)
    BY <1>1, <1>6 DEF NextBlock, SendEnd
  <2>2. EndFrame \in Frames /\ Sent(EndFrame)'
    BY <2>1 DEF EndFrame, Frames, Sent
  <2>3. Alone'
    BY <2>1, <2>2, SendsAlone
  <2>4. sOpen => sExpect >= Chunks(img[Only])
    BY <1>4, <1>6
  <2> QED
    BY <1>2, <1>3, <2>1, <2>3, <2>4 DEF Along, Cmds
<1> QED
  BY <1>5, <1>6

\* An answer OK is the answer to what was sent.
LEMMA GetOkStored ==
    ASSUME StoredInv, Only \in Uploaders, GetOk(Only)
    PROVE  Alone' /\ Along'
<1>1. /\ slot = [cmd |-> pc[Only], res |-> "OK"] /\ slot' = NoAck
      /\ UNCHANGED <<devVars, img, rx, typeLost>>
  BY DEF GetOk, Answered
<1>2. pc[Only] \in Cmds \cup Done /\ seq[Only] \in Nat /\ slot \in Acks \cup {NoAck}
  BY DEF StoredInv, TypeOK
<1>3. slot # NoAck /\ rx = <<>> /\ rx' = <<>> /\ Quiet
  <2>1. CASE pc[Only] \in Done
    BY <2>1 DEF GetOk, Done
  <2>2. CASE pc[Only] \in Cmds
    <3>1. slot # NoAck
      BY <1>1, <2>2, NoAckAssumption DEF Acks, Results
    <3>2. Alone
      BY DEF StoredInv
    <3> QED
      BY <1>1, <3>1, <3>2, NothingSent DEF Alone
  <2> QED
    BY <1>2, <2>1, <2>2
<1>4. Granted(pc[Only]) /\ Along
  BY <1>1 DEF Granted, StoredInv
<1>5. CASE pc[Only] = "start" /\ NextBlock(Only, 0)
  <2>1. Session(img[Only]) /\ (sOpen => sExpect >= 0)
    BY <1>4, <1>5 DEF Along, StoredInv, TypeOK, DevTypeOK
  <2> QED
    BY <1>1, <1>3, <1>5, <2>1, GoesOn
<1>6. CASE pc[Only] = "img" /\ NextBlock(Only, seq[Only] + 1)
  <2>1. Session(img[Only]) /\ (sOpen => sExpect >= seq[Only] + 1)
    BY <1>4, <1>6 DEF Along
  <2>2. seq[Only] + 1 \in Nat
    BY <1>2
  <2> QED
    BY <1>1, <1>3, <1>6, <2>1, <2>2, GoesOn
<1>7. CASE pc[Only] = "end" /\ Finish(Only, "ok")
  <2>1. pc'[Only] = "ok" /\ UNCHANGED <<tx, flash>>
    BY <1>1, <1>7 DEF Finish, StoredInv, TypeOK, devVars
  <2>2. Stored(img[Only])'
    BY <1>1, <1>4, <1>7, <2>1 DEF Along, Stored, HoldsAt, Place
  <2>3. \A c \in Cmds : ~Granted(c)'
    BY <1>1, <1>3, NoAckAssumption DEF Granted, Acks, Results
  <2> QED
    BY <1>1, <1>3, <2>1, <2>2, <2>3, SendsNothing DEF Along, Cmds
<1> QED
  BY <1>5, <1>6, <1>7 DEF GetOk

\* After an attempt that failed the same block is sent, or none.
LEMMA RetryStored ==
    ASSUME StoredInv, Only \in Uploaders, Quiet, rx = <<>>, rx' = <<>>, slot' = NoAck,
           GiveUpOrRetry(Only), UNCHANGED <<devVars, img, typeLost>>
    PROVE  Alone' /\ Along'
<1>1. /\ pc \in [Uploaders -> Cmds \cup Done] /\ seq \in [Uploaders -> Nat]
      /\ img \in [Uploaders -> Images]
  BY DEF StoredInv, TypeOK
<1>2. \A c \in Cmds : ~Granted(c)'
  BY NoAckAssumption DEF Granted, Acks, Results
<1>3. CASE pc[Only] = "img" /\ SendBlock(Only, seq[Only], attempt[Only] + 1)
  <2>1. pc'[Only] = "img" /\ seq'[Only] = seq[Only] /\ Send(ImgFrame(img[Only], seq[Only]))
    BY <1>1, <1>3 DEF SendBlock
  <2>2. ImgFrame(img[Only], seq[Only]) \in Frames /\ Sent(ImgFrame(img[Only], seq[Only]))'
    BY <1>1, <2>1 DEF ImgFrame, Frames, Sent
  <2>3. Session(img[Only])' /\ UNCHANGED <<sOpen, sExpect>>
    BY <1>3 DEF StoredInv, Along, Session, Filled, Kind, Place, devVars, session
  <2>4. Alone'
    BY <2>1, <2>2, SendsAlone
  <2> QED
    BY <1>2, <1>3, <2>1, <2>3, <2>4 DEF Along, Cmds, StoredInv
<1>4. CASE Finish(Only, "fail")
  <2>1. pc'[Only] = "fail" /\ UNCHANGED tx
    BY <1>1, <1>4 DEF Finish
  <2> QED
    BY <1>2, <2>1, SendsNothing DEF Along, Cmds
<1> QED
  BY <1>3, <1>4 DEF GiveUpOrRetry

\* A thread that is done has no answer coming.
LEMMA DoneIsQuiet ==
    ASSUME StoredInv, pc[Only] \in Done
    PROVE  Quiet /\ rx = <<>> /\ slot = NoAck
<1>1. Alone /\ Quiet
  BY NothingSent DEF StoredInv
<1>2. slot \in Acks \cup {NoAck} /\ rx \in Seq(Acks)
  BY DEF StoredInv, TypeOK
<1>3. slot # NoAck => slot.cmd \in Cmds
  BY <1>2 DEF Acks
<1>4. ASSUME rx # <<>> PROVE rx[1].cmd \in Cmds
  <2>1. rx[1] \in Acks
    BY <1>2, <1>4
  <2> QED
    BY <2>1 DEF Acks
<1>5. pc[Only] \notin Cmds
  BY DEF Cmds, Done
<1> QED
  BY <1>1, <1>3, <1>4, <1>5 DEF Alone

\* An answer ERR, like OK, leaves nothing on its way.
LEMMA GetErrStored ==
    ASSUME StoredInv, Only \in Uploaders, GetErr(Only)
    PROVE  Alone' /\ Along'
<1>1. /\ slot = [cmd |-> pc[Only], res |-> "ERR"] /\ slot' = NoAck
      /\ UNCHANGED <<devVars, img, rx, typeLost>> /\ GiveUpOrRetry(Only)
  BY DEF GetErr, Answered
<1>2. pc[Only] \in Cmds \cup Done /\ slot \in Acks \cup {NoAck}
  BY DEF StoredInv, TypeOK
<1>3. CASE pc[Only] \in Done
  BY <1>1, <1>3, DoneIsQuiet, RetryStored
<1>4. CASE pc[Only] \in Cmds
  <2>1. slot # NoAck
    BY <1>1, <1>4, NoAckAssumption DEF Acks, Results
  <2>2. Alone /\ Quiet
    BY <2>1, NothingSent DEF StoredInv
  <2>3. rx = <<>>
    BY <2>1, <2>2 DEF Alone
  <2> QED
    BY <1>1, <2>2, <2>3, RetryStored
<1> QED
  BY <1>2, <1>3, <1>4

\* Without a late answer a timeout means that nothing is on its way.
LEMMA TimeoutStored ==
    ASSUME StoredInv, Only \in Uploaders, NoLate, NoLate', Timeout(Only)
    PROVE  Alone' /\ Along'
<1>1. tx = <<>> /\ rx = <<>>
  BY DEF Timeout, StoredInv, TypeOK, NoLate
<1>2. Quiet
  BY <1>1 DEF Quiet
<1> QED
  BY <1>1, <1>2, RetryStored DEF Timeout

\* An upload starts when nothing is on its way.
LEMMA BeginStored ==
    ASSUME StoredInv, Only \in Uploaders, NEW i \in Images, Begin(Only, i)
    PROVE  Alone' /\ Along'
<1>1. Quiet /\ rx' = <<>> /\ slot' = NoAck
  BY DoneIsQuiet DEF Begin
<1>2. pc'[Only] = "start" /\ img'[Only] = i /\ Send(StartFrame(i))
  BY DEF Begin, StoredInv, TypeOK
<1>3. StartFrame(i) \in Frames /\ Sent(StartFrame(i))'
  BY <1>2, PaddedSizeType DEF StartFrame, Frames, Sent
<1>4. Alone'
  BY <1>1, <1>2, <1>3, SendsAlone
<1>5. \A c \in Cmds : ~Granted(c)'
  BY <1>1, NoAckAssumption DEF Granted, Acks, Results
<1> QED
  BY <1>2, <1>4, <1>5 DEF Along, Cmds

\* Nothing but what has been granted moves the thread along.
LEMMA KeepsAlong ==
    ASSUME StoredInv, UNCHANGED <<devVars, pc, img, seq, typeLost>>,
           \A c \in Cmds : Granted(c)' => Granted(c)
    PROVE  Along'
<1>1. Along
  BY DEF StoredInv
<1>2. UNCHANGED <<flash, sOpen, sTotal, sRecv, sExpect, sBase, imgType>>
  BY DEF devVars, session
<1>3. Session(img[Only]) => Session(img[Only])'
  BY <1>2 DEF Session, Filled, Kind, Place
<1>4. Stored(img[Only]) => Stored(img[Only])'
  BY <1>2 DEF Stored, HoldsAt, Place
<1> QED
  BY <1>1, <1>2, <1>3, <1>4 DEF Along, Cmds

\* The answer that arrives goes into the slot.
LEMMA NotifyStored ==
    ASSUME StoredInv, Notify
    PROVE  Alone' /\ Along'
<1>1. /\ rx \in Seq(Acks) /\ rx # <<>> /\ Alone /\ Quiet
      /\ slot' = Head(rx) /\ rx' = Tail(rx) /\ UNCHANGED <<devVars, pc, img, seq, tx, typeLost>>
  BY NothingSent DEF StoredInv, TypeOK, Notify, thread
<1>2. Len(rx) = 1 /\ rx[1].cmd = pc[Only]
  BY <1>1 DEF Alone
<1>3. rx' = <<>> /\ slot' = rx[1]
  BY <1>1, <1>2
<1>4. Along'
  BY <1>1, <1>3, KeepsAlong DEF Granted
<1> QED
  BY <1>1, <1>2, <1>3, <1>4 DEF Alone, Quiet, Sent

\* A button's frame is no command.
LEMMA ClickStored ==
    ASSUME StoredInv, NEW f \in {ClrFrame, OnFrame(TRUE), OnFrame(FALSE)}, Click(f)
    PROVE  Alone' /\ Along'
<1>1. f \in Frames /\ f.cmd \notin Cmds
  BY DEF ClrFrame, OnFrame, Frames, Cmds
<1>2. Send(f) /\ UNCHANGED <<devVars, pc, img, seq, slot, rx, typeLost>>
  BY DEF Click, thread
<1>3. \A k \in 1 .. Len(tx') : tx'[k].cmd \in Cmds => k \in 1 .. Len(tx) /\ tx'[k] = tx[k]
  BY <1>1, <1>2, Appended DEF StoredInv
<1>4. Along'
  BY <1>2, KeepsAlong DEF Granted
<1>5. Alone
  BY DEF StoredInv
<1>6. ~Quiet' => ~Quiet
  BY <1>3 DEF Quiet
<1>7. \A k \in 1 .. Len(tx') : tx'[k].cmd \in Cmds => Sent(tx[k])'
  BY <1>2, <1>3, <1>5 DEF Alone, Sent
<1>8. \A j, k \in 1 .. Len(tx') : tx'[j].cmd \in Cmds /\ tx'[k].cmd \in Cmds => j = k
  BY <1>3, <1>5 DEF Alone
<1> QED
  BY <1>2, <1>4, <1>5, <1>6, <1>7, <1>8 DEF Alone

\* A command taken from the wire is the one the thread waits for, and the last.
LEMMA TakesCommand ==
    ASSUME StoredInv, tx # <<>>, tx' = Tail(tx), Head(tx).cmd \in Cmds
    PROVE  /\ Sent(Head(tx)) /\ pc[Only] = Head(tx).cmd
           /\ Quiet' /\ rx = <<>> /\ slot = NoAck
<1>1. Alone /\ TypeOK
  BY DEF StoredInv
<1>2. Sent(Head(tx)) /\ rx = <<>> /\ slot = NoAck
  BY <1>1, Taken DEF Alone, Quiet
<1>3. pc[Only] = Head(tx).cmd
  BY <1>2 DEF Sent, StartFrame, ImgFrame, EndFrame
<1>4. Quiet'
  BY <1>1, Taken DEF Alone, Quiet
<1> QED
  BY <1>2, <1>3, <1>4

\* A frame taken from the wire without an answer.
LEMMA TakesSilently ==
    ASSUME StoredInv, tx # <<>>, tx' = Tail(tx), UNCHANGED <<pc, img, seq, slot, rx>>
    PROVE  Alone'
<1>1. Alone /\ TypeOK
  BY DEF StoredInv
<1>2. ~Quiet' => ~Quiet
  BY <1>1, Taken DEF Quiet
<1>3. \A k \in 1 .. Len(tx') : tx'[k].cmd \in Cmds => Sent(tx[k])'
  BY <1>1, Taken DEF Alone, Sent
<1>4. \A j, k \in 1 .. Len(tx') : tx'[j].cmd \in Cmds /\ tx'[k].cmd \in Cmds => j = k
  <2>1. ASSUME NEW j \in 1 .. Len(tx'), NEW k \in 1 .. Len(tx'),
               tx'[j].cmd \in Cmds, tx'[k].cmd \in Cmds
        PROVE  j + 1 = k + 1
    BY <1>1, <2>1, Taken DEF Alone
  <2> QED
    BY <2>1
<1> QED
  BY <1>1, <1>2, <1>3, <1>4 DEF Alone

\* A command taken and answered.
LEMMA TakesAnd ==
    ASSUME StoredInv, tx # <<>>, tx' = Tail(tx), Head(tx).cmd \in Cmds,
           UNCHANGED <<pc, img, seq, slot>>, NEW r \in Results, Reply(Head(tx).cmd, r)
    PROVE  /\ Alone'
           /\ \A c \in Cmds : Granted(c)' => c = Head(tx).cmd /\ r = "OK"
<1>1. Sent(Head(tx)) /\ pc[Only] = Head(tx).cmd /\ Quiet' /\ rx = <<>> /\ slot = NoAck
  BY TakesCommand
<1>2. rx' = <<[cmd |-> Head(tx).cmd, res |-> r]>>
  BY <1>1 DEF Reply
<1>3. Len(rx') = 1 /\ rx'[1] = [cmd |-> Head(tx).cmd, res |-> r]
  BY <1>2
<1>4. \A c \in Cmds : slot' # [cmd |-> c, res |-> "OK"]
  BY <1>1, NoAckAssumption DEF Acks, Results
<1>5. \A c \in Cmds : Granted(c)' => c = Head(tx).cmd /\ r = "OK"
  <2>1. ASSUME NEW c \in Cmds, Granted(c)' PROVE rx'[1] = [cmd |-> c, res |-> "OK"]
    BY <1>4, <2>1 DEF Granted
  <2>2. ASSUME NEW c \in Cmds, [cmd |-> Head(tx).cmd, res |-> r] = [cmd |-> c, res |-> "OK"]
        PROVE  c = Head(tx).cmd /\ r = "OK"
    <3>1. [cmd |-> Head(tx).cmd, res |-> r].cmd = c /\ [cmd |-> Head(tx).cmd, res |-> r].res = "OK"
      BY <2>2
    <3> QED
      BY <3>1
  <2> QED
    BY <1>3, <2>1, <2>2
<1>6. Alone'
  BY <1>1, <1>3 DEF Alone, Quiet
<1> QED
  BY <1>5, <1>6

\* cmd_imgstart opens a blank session, if any.
LEMMA StartStored ==
    ASSUME DevTypeOK, NEW t \in Types, NEW i, NEW total \in Nat, NEW r, ImgStart(t, total, r)
    PROVE  sOpen' => /\ r = "OK" /\ sExpect' = 0 /\ sTotal' = total
                     /\ imgType' = t /\ sBase' = Base(t) /\ Filled(i)'
<1> SUFFICES ASSUME sOpen'
             PROVE  /\ r = "OK" /\ sExpect' = 0 /\ sTotal' = total
                    /\ imgType' = t /\ sBase' = Base(t) /\ Filled(i)'
  OBVIOUS
<1> DEFINE b == Base(t)
           len == CeilTo(total, Sector)
<1>1. b \in Nat /\ Sector \in Nat \ {0} /\ PartBytes \in Nat
  BY SizesAssumption DEF Base
<1>3. /\ sBase' = b /\ sTotal' = total /\ sRecv' = 0 /\ sExpect' = 0
      /\ imgType' = t /\ flash' = Erase(flash, b, len) /\ r = "OK"
      /\ total <= PartBytes - b
  BY DEF ImgStart
<1>2. b + total <= PartBytes
  <2> HIDE DEF b
  <2> QED
    BY <1>1, <1>3
<1>4. len \in Nat /\ total <= len
  BY <1>1, CeilToFacts
<1>5. ASSUME NEW o \in 0 .. total - 1 PROVE flash'[b + o] = Blank
  <2> DEFINE p == b \div Sector
             q == (b + len - 1) \div Sector
  <2> HIDE DEF b, len
  <2>1. b + len - 1 \in Nat /\ b + o <= b + len - 1 /\ b + o >= b /\ len # 0
    BY <1>1, <1>4, <1>5
  <2>2. p \in Nat /\ Sector * p <= b
    BY <1>1, DivBounds
  <2>3. q \in Nat /\ b + len - 1 < Sector * q + Sector
    BY <1>1, <2>1, DivBounds
  <2>4. EraseCells(b, len) = p * Sector .. (q + 1) * Sector - 1
    BY <2>1 DEF EraseCells
  <2> HIDE DEF p, q
  <2>5. p * Sector = Sector * p /\ (q + 1) * Sector = Sector * q + Sector
        /\ p * Sector \in Nat /\ Sector * q \in Nat
    BY <1>1, <2>2, <2>3
  <2>6. b + o \in p * Sector .. (q + 1) * Sector - 1
    BY <1>1, <1>4, <2>1, <2>2, <2>3, <2>5
  <2>7. b + o \in Cell
    BY <1>1, <1>2 DEF Cell
  <2> QED
    BY <1>3, <2>4, <2>6, <2>7 DEF Erase
<1>6. ~(\E o \in 0 .. sTotal' - 1 : o < sRecv')
  BY <1>3
<1>7. sRecv' = sExpect' * Chunk /\ sRecv' <= sTotal'
  BY <1>3, SizesAssumption
<1>8. sBase' + sTotal' <= PartBytes
  BY <1>2, <1>3
<1>9. \A o \in 0 .. sTotal' - 1 :
            flash'[sBase' + o] = IF o < sRecv' THEN DataAt(i, o) ELSE Blank
  <2> HIDE DEF b
  <2> QED
    BY <1>3, <1>5, <1>6
<1> QED
  BY <1>3, <1>7, <1>8, <1>9 DEF Filled

\* A blank cell takes what is programmed into it.
LEMMA ProgramBlank ==
    ASSUME NEW old, NEW new, old = Blank
    PROVE  ProgramCell(old, new) = new
<1>1. CASE new = Blank
  BY <1>1 DEF ProgramCell
<1>2. CASE new # Blank
  BY <1>2, ContentAssumption DEF ProgramCell
<1> QED
  BY <1>1, <1>2

\* cmd_img stores the block that is due, and stores a repeated one again
\* without a change.
LEMMA FilledStored ==
    ASSUME DevTypeOK, NEW i \in Images, Filled(i), NEW n \in Nat, NEW r,
           ImgChunk(n, i, r)
    PROVE  /\ Filled(i)' /\ UNCHANGED <<sOpen, sTotal, sBase, imgType>>
           /\ sExpect' \in Nat /\ sExpect' >= sExpect
           /\ sExpect' = sExpect \/ sExpect' = n + 1
           /\ r = "OK" => sExpect' >= n + 1
           /\ sExpect' = sExpect => flash' = flash
<1>1. UNCHANGED <<sOpen, sTotal, sBase, imgType>> /\ sExpect \in Nat
  BY DEF ImgChunk, DevTypeOK
<1>2. CASE ~Accepts(n)
  <2>1. r = "ERR" /\ UNCHANGED <<flash, sExpect, sRecv>>
    BY <1>2 DEF ImgChunk
  <2> QED
    BY <1>1, <2>1 DEF Filled
<1>3. CASE Accepts(n)
  <2> DEFINE a == n * Chunk
  <2>1. a \in Nat /\ Chunk \in Nat \ {0} /\ PartBytes \in Nat
    BY SizesAssumption
  <2>2. sOpen /\ n <= sExpect /\ a + Chunk <= sTotal
    BY <1>3 DEF Accepts
  <2>3. /\ sRecv = sExpect * Chunk /\ sRecv <= sTotal /\ sBase + sTotal <= PartBytes
        /\ \A o \in 0 .. sTotal - 1 :
               flash[sBase + o] = IF o < sRecv THEN DataAt(i, o) ELSE Blank
        /\ sBase \in Nat /\ sTotal \in Nat /\ sRecv \in Nat
    BY <2>2, SizesAssumption DEF Filled, DevTypeOK, Base
  <2>4. /\ flash' = Program(flash, sBase + a, i, n)
        /\ sExpect' = IF n = sExpect THEN sExpect + 1 ELSE sExpect
        /\ sRecv' = IF n = sExpect THEN (sExpect + 1) * Chunk ELSE sRecv
    BY <1>3 DEF ImgChunk
  <2>5. flash' = [c \in Cell |->
                     IF c \in sBase + a .. sBase + a + Chunk - 1
                     THEN ProgramCell(flash[c], DataAt(i, a + (c - (sBase + a))))
                     ELSE flash[c]]
    BY <2>4 DEF Program
  <2>6. (n + 1) * Chunk = a + Chunk
    BY <2>1
  <2> HIDE DEF a
  <2>7. \A o \in 0 .. sTotal - 1 :
            flash'[sBase + o] = IF o \in a .. a + Chunk - 1
                                THEN ProgramCell(flash[sBase + o], DataAt(i, o))
                                ELSE flash[sBase + o]
    <3> SUFFICES ASSUME NEW o \in 0 .. sTotal - 1
                 PROVE  flash'[sBase + o] = IF o \in a .. a + Chunk - 1
                                            THEN ProgramCell(flash[sBase + o], DataAt(i, o))
                                            ELSE flash[sBase + o]
      OBVIOUS
    <3>1. sBase + o \in Cell /\ a + ((sBase + o) - (sBase + a)) = o
      BY <2>1, <2>3 DEF Cell
    <3>2. sBase + o \in sBase + a .. sBase + a + Chunk - 1 <=> o \in a .. a + Chunk - 1
      BY <2>1, <2>3
    <3> QED
      BY <2>5, <3>1, <3>2
  <2>8. CASE n = sExpect
    <3>1. sRecv = a /\ sRecv' = a + Chunk /\ sExpect' = n + 1
      BY <2>3, <2>4, <2>6, <2>8 DEF a
    <3>2. \A o \in 0 .. sTotal - 1 :
              flash'[sBase + o] = IF o < sRecv' THEN DataAt(i, o) ELSE Blank
      <4> SUFFICES ASSUME NEW o \in 0 .. sTotal - 1
                   PROVE  flash'[sBase + o] = IF o < sRecv' THEN DataAt(i, o) ELSE Blank
        OBVIOUS
      <4>1. CASE o < a
        BY <2>1, <2>3, <2>7, <3>1, <4>1
      <4>2. CASE o \in a .. a + Chunk - 1
        <5>1. flash[sBase + o] = Blank
          BY <2>1, <2>3, <3>1, <4>2
        <5>2. ProgramCell(flash[sBase + o], DataAt(i, o)) = DataAt(i, o)
          BY <5>1, ProgramBlank
        <5> QED
          BY <2>1, <2>7, <3>1, <4>2, <5>2
      <4>3. CASE o >= a + Chunk
        BY <2>1, <2>3, <2>7, <3>1, <4>3
      <4> QED
        BY <2>1, <4>1, <4>2, <4>3
    <3>3. sRecv' = sExpect' * Chunk /\ sRecv' <= sTotal'
      BY <1>1, <2>2, <2>6, <3>1
    <3>4. Filled(i)'
      BY <1>1, <2>3, <3>2, <3>3 DEF Filled
    <3> QED
      BY <1>1, <2>8, <3>1, <3>4
  <2>9. CASE n < sExpect
    <3>1. UNCHANGED <<sRecv, sExpect>> /\ n + 1 <= sExpect
      BY <1>1, <2>4, <2>9
    <3>2. a + Chunk <= sRecv
      <4>1. (n + 1) * Chunk <= sExpect * Chunk
        BY <1>1, <2>1, <3>1
      <4> QED
        BY <2>3, <2>6, <4>1
    <3>3. ASSUME NEW c \in Cell PROVE flash'[c] = flash[c]
      <4>1. CASE c \in sBase + a .. sBase + a + Chunk - 1
        <5> DEFINE o == c - sBase
        <5>1. o \in 0 .. sTotal - 1 /\ sBase + o = c /\ o < sRecv /\ o \in a .. a + Chunk - 1
          BY <2>1, <2>2, <2>3, <3>2, <4>1 DEF Cell
        <5>2. flash[c] = DataAt(i, o) /\ flash'[c] = ProgramCell(flash[c], DataAt(i, o))
          BY <2>3, <2>7, <5>1
        <5> HIDE DEF o
        <5> QED
          BY <5>2 DEF ProgramCell
      <4>2. CASE c \notin sBase + a .. sBase + a + Chunk - 1
        BY <2>5, <4>2
      <4> QED
        BY <4>1, <4>2
    <3>4. flash' = flash
      <4>1. flash = [c \in Cell |-> flash[c]]
        BY DEF DevTypeOK
      <4>2. flash' = [c \in Cell |-> flash'[c]]
        BY <2>5
      <4> QED
        BY <3>3, <4>1, <4>2
    <3>5. Filled(i)'
      BY <1>1, <2>3, <3>1, <3>4 DEF Filled
    <3> QED
      BY <1>1, <3>1, <3>4, <3>5
  <2> QED
    BY <1>1, <2>2, <2>8, <2>9
<1> QED
  BY <1>2, <1>3

\* So it does for the session of the image itself.
LEMMA ImgStored ==
    ASSUME DevTypeOK, NEW i \in Images, Session(i), NEW n \in Nat, NEW r,
           ImgChunk(n, i, r), UNCHANGED typeLost
    PROVE  /\ Session(i)' /\ sOpen' = sOpen /\ sExpect' \in Nat /\ sExpect' >= sExpect
           /\ r = "OK" => sExpect' >= n + 1
           /\ sExpect' = sExpect => flash' = flash
<1>1. Filled(i)
  BY DEF Session
<1>2. /\ Filled(i)' /\ UNCHANGED <<sOpen, sTotal, sBase, imgType>>
      /\ sExpect' \in Nat /\ sExpect' >= sExpect
      /\ r = "OK" => sExpect' >= n + 1
      /\ sExpect' = sExpect => flash' = flash
  BY <1>1, FilledStored
<1> QED
  BY <1>2 DEF Session, Kind, Place

\* A session that has taken every chunk holds the image.
LEMMA EndStored ==
    ASSUME DevTypeOK, NEW i \in Images, Session(i), sOpen, sExpect >= Chunks(i)
    PROVE  Stored(i)
<1>1. /\ sBase = Base(Place(i)) /\ sRecv = sExpect * Chunk /\ sRecv <= sTotal
      /\ \A o \in 0 .. sTotal - 1 :
             flash[sBase + o] = IF o < sRecv THEN DataAt(i, o) ELSE Blank
      /\ sTotal \in Nat /\ sRecv \in Nat /\ sExpect \in Nat
  BY DEF Session, Filled, DevTypeOK
<1>2. Chunks(i) \in Nat /\ Size(i) \in Nat /\ Chunks(i) * Chunk >= Size(i) /\ Chunk \in Nat
  BY ChunksFacts, SizesAssumption
<1>3. sExpect * Chunk >= Chunks(i) * Chunk
  BY <1>1, <1>2
<1>4. Chunks(i) * Chunk \in Nat /\ sRecv >= Size(i)
  BY <1>1, <1>2, <1>3
<1>5. ASSUME NEW o \in 0 .. Size(i) - 1 PROVE flash[Base(Place(i)) + o] = i
  <2>1. o \in 0 .. sTotal - 1 /\ o < sRecv /\ o < Size(i)
    BY <1>1, <1>2, <1>4
  <2> QED
    BY <1>1, <2>1 DEF DataAt
<1> QED
  BY <1>5 DEF Stored, HoldsAt

\* The steps CommitComplete and ResendIdempotent speak of.
CommitStep ==
    Commits /\ sTotal > 0 => \E i \in Images : Type(i) = Kind /\ HoldsAt(i, imgType)
ResendStep ==
    sOpen /\ sOpen' /\ sExpect' = sExpect /\ sRecv' = sRecv /\ sExpect > 0
        => flash' = flash

\* A step that takes no IMGEND, or does not close the session by it, commits
\* nothing.
LEMMA NoCommit ==
    ASSUME TypeOK,
           \/ UNCHANGED sOpen
           \/ UNCHANGED tx
           \/ tx # <<>> /\ Head(tx).cmd # "end"
    PROVE  CommitStep
<1>1. tx # <<>> => Tail(tx) # tx
  <2>1. tx # <<>> => Len(Tail(tx)) = Len(tx) - 1 /\ Len(tx) \in Nat
    BY DEF TypeOK
  <2> QED
    BY <2>1
<1>2. ~Commits
  <2>1. CASE UNCHANGED sOpen
    BY <2>1 DEF Commits
  <2>2. CASE UNCHANGED tx
    BY <1>1, <2>2 DEF Commits
  <2>3. CASE tx # <<>> /\ Head(tx).cmd # "end"
    BY <2>3 DEF Commits, EndFrame
  <2> QED
    BY <2>1, <2>2, <2>3
<1> QED
  BY <1>2 DEF CommitStep

\* IMGSTART arrives, perhaps with digits of the total or the type lost.
LEMMA StartTaken ==
    ASSUME StoredInv, Only \in Uploaders, tx # <<>>, tx' = Tail(tx), Head(tx).cmd = "start",
           UNCHANGED <<pc, img, seq, slot>>,
           NEW total \in Nat, NEW t \in {Head(tx).type, "wall"},
           typeLost' = (t # Head(tx).type),
           NEW r \in Results, ImgStart(t, total, r), Reply("start", r)
    PROVE  Alone' /\ Along' /\ CommitStep /\ ResendStep
<1>1. /\ Alone' /\ (\A c \in Cmds : Granted(c)' => c = "start")
      /\ Sent(Head(tx)) /\ pc[Only] = "start"
  BY TakesAnd, TakesCommand DEF Cmds
<1>2. Head(tx) = StartFrame(img[Only])
  BY <1>1 DEF Sent
<1>3. Head(tx).type = Type(img[Only])
  BY <1>2 DEF StartFrame
<1>4. img[Only] \in Images /\ DevTypeOK /\ TypeOK /\ t \in Types
  BY <1>3, PaddedSizeType DEF StoredInv, TypeOK, Types
<1>5. (sOpen' => sExpect' = 0) /\ Session(img[Only])'
  <2> DEFINE i == img[Only]
  <2>1. Session(i)' <=> Session(img[Only])'
    BY DEF Session, Filled, Kind, Place
  <2>2. sOpen' => sExpect' = 0 /\ imgType' = t /\ sBase' = Base(t)
    BY <1>4, StartStored
  <2>3. Filled(i)'
    BY <1>4, StartStored DEF Filled
  <2>4. sOpen' => Kind' = Type(i) /\ imgType' = Place(i)'
    BY <1>3, <2>2 DEF Kind, Place, Type
  <2>5. Session(i)'
    BY <2>2, <2>3, <2>4 DEF Session
  <2> QED
    BY <2>1, <2>2, <2>5
<1>6. CommitStep
  BY <1>4, NoCommit
<1>7. ResendStep
  BY <1>5 DEF ResendStep, StoredInv, TypeOK, DevTypeOK
<1> QED
  BY <1>1, <1>5, <1>6, <1>7 DEF Along, Cmds

\* A block arrives.
LEMMA BlockTaken ==
    ASSUME StoredInv, Only \in Uploaders, tx # <<>>, tx' = Tail(tx), Head(tx).cmd = "img",
           UNCHANGED <<pc, img, seq, slot>>, NEW r \in Results,
           ImgChunk(Head(tx).seq, Head(tx).img, r), Reply("img", r), UNCHANGED typeLost
    PROVE  Alone' /\ Along' /\ CommitStep /\ ResendStep
<1>1. /\ Alone' /\ (\A c \in Cmds : Granted(c)' => c = "img" /\ r = "OK")
      /\ Sent(Head(tx)) /\ pc[Only] = "img"
  BY TakesAnd, TakesCommand DEF Cmds
<1>2. Head(tx) = ImgFrame(img[Only], seq[Only])
  BY <1>1 DEF Sent
<1>3. Head(tx).img = img[Only] /\ Head(tx).seq = seq[Only]
  BY <1>2 DEF ImgFrame
<1>4. img[Only] \in Images /\ seq[Only] \in Nat /\ DevTypeOK /\ sExpect \in Nat
  BY DEF StoredInv, TypeOK, DevTypeOK
<1>5. Along /\ Session(img[Only])
  BY <1>1 DEF StoredInv, Along
<1>6. /\ Session(img[Only])' /\ sOpen' = sOpen /\ sExpect' \in Nat /\ sExpect' >= sExpect
      /\ r = "OK" => sExpect' >= seq[Only] + 1
      /\ sExpect' = sExpect => flash' = flash
  <2> DEFINE i == img[Only]
  <2>1. Session(i)' <=> Session(img[Only])'
    BY DEF Session, Filled, Kind, Place
  <2>2. ImgChunk(seq[Only], i, r)
    BY <1>3
  <2> QED
    BY <1>4, <1>5, <2>1, <2>2, ImgStored
<1>7. sOpen' => sExpect' >= seq[Only]
  BY <1>1, <1>4, <1>5, <1>6 DEF Along
<1>8. CommitStep
  BY NoCommit DEF StoredInv
<1> QED
  BY <1>1, <1>6, <1>7, <1>8 DEF Along, Cmds, ResendStep

\* IMGEND arrives.
LEMMA EndTaken ==
    ASSUME StoredInv, Only \in Uploaders, tx # <<>>, tx' = Tail(tx), Head(tx).cmd = "end",
           UNCHANGED <<pc, img, seq, slot>>, NEW r \in Results,
           ImgEnd(r), Reply("end", r), UNCHANGED typeLost
    PROVE  Alone' /\ Along' /\ CommitStep /\ ResendStep
<1>1. /\ Alone' /\ (\A c \in Cmds : Granted(c)' => c = "end" /\ r = "OK")
      /\ pc[Only] = "end"
  BY TakesAnd, TakesCommand DEF Cmds
<1>2. img[Only] \in Images /\ DevTypeOK /\ Along
  BY DEF StoredInv, TypeOK
<1>3. Session(img[Only]) /\ (sOpen => sExpect >= Chunks(img[Only]))
  BY <1>1, <1>2 DEF Along
<1>4. UNCHANGED <<flash, sTotal, sRecv, sExpect, sBase, imgType>>
  BY DEF ImgEnd
<1>5. CASE r = "OK"
  <2>1. sOpen /\ ~sOpen'
    BY <1>5 DEF ImgEnd, Finishes
  <2>2. Stored(img[Only]) /\ Type(img[Only]) = Kind /\ Place(img[Only]) = imgType
    BY <1>2, <1>3, <2>1, EndStored DEF Session
  <2>3. Stored(img[Only])'
    BY <1>4, <2>2 DEF Stored, HoldsAt, Place
  <2>4. CommitStep
    BY <1>2, <2>2 DEF CommitStep, Stored
  <2>5. Session(img[Only])'
    BY <2>1 DEF Session, Filled
  <2> QED
    BY <1>1, <1>2, <1>4, <2>1, <2>2, <2>3, <2>4, <2>5 DEF Along, Cmds, ResendStep
<1>6. CASE r = "ERR"
  <2>1. UNCHANGED sOpen
    BY <1>6 DEF ImgEnd
  <2>2. Session(img[Only])'
    BY <1>3, <1>4, <2>1 DEF Session, Filled, Kind, Place
  <2>3. CommitStep
    BY <2>1, NoCommit DEF StoredInv
  <2> QED
    BY <1>1, <1>3, <1>4, <1>6, <2>1, <2>2, <2>3 DEF Along, Cmds, ResendStep
<1> QED
  BY <1>5, <1>6 DEF Results

\* A frame arrives.
LEMMA ReceiveStored ==
    ASSUME StoredInv, Only \in Uploaders, Receive
    PROVE  Alone' /\ Along' /\ CommitStep /\ ResendStep
<1>1. tx # <<>> /\ tx' = Tail(tx) /\ UNCHANGED <<pc, img, seq, slot>> /\ TypeOK
  BY DEF Receive, thread, StoredInv
<1>2. ASSUME NEW r \in Results, Head(tx).cmd = "start",
             ImgStart(Head(tx).type, Head(tx).total, r), Reply("start", r), ~typeLost'
      PROVE  Alone' /\ Along' /\ CommitStep /\ ResendStep
  <2>1. Head(tx).total \in Nat /\ typeLost' = (Head(tx).type # Head(tx).type)
    BY <1>1, <1>2, HeadFrame DEF Receive
  <2> QED
    BY <1>1, <1>2, <2>1, StartTaken
<1>3. ASSUME NEW r \in Results, Head(tx).cmd = "img",
             ImgChunk(Head(tx).seq, Head(tx).img, r), Reply("img", r), UNCHANGED typeLost
      PROVE  Alone' /\ Along' /\ CommitStep /\ ResendStep
  BY <1>1, <1>3, BlockTaken
<1>4. ASSUME NEW r \in Results, Head(tx).cmd = "end", ImgEnd(r), Reply("end", r),
             UNCHANGED typeLost
      PROVE  Alone' /\ Along' /\ CommitStep /\ ResendStep
  BY <1>1, <1>4, EndTaken
<1>5. ASSUME UNCHANGED <<flash, session, rx, typeLost>>
      PROVE  Alone' /\ Along' /\ CommitStep /\ ResendStep
  <2>1. Alone'
    BY <1>1, <1>5, TakesSilently
  <2>2. UNCHANGED <<flash, sOpen, sTotal, sRecv, sExpect, sBase, imgType>>
    BY <1>5 DEF session
  <2>3. Along
    BY DEF StoredInv
  <2>4. /\ Session(img[Only]) => Session(img[Only])'
        /\ Stored(img[Only]) => Stored(img[Only])'
        /\ \A c \in Cmds : Granted(c)' => Granted(c)
    BY <1>1, <1>5, <2>2 DEF Session, Filled, Stored, HoldsAt, Place, Kind, Granted
  <2>5. Along'
    BY <1>1, <2>2, <2>3, <2>4 DEF Along, Cmds
  <2>6. CommitStep
    BY <1>1, <2>2, NoCommit
  <2> QED
    BY <2>1, <2>2, <2>5, <2>6 DEF ResendStep
<1>6. typeLost \in BOOLEAN
  BY <1>1 DEF TypeOK
<1> QED
  BY <1>2, <1>3, <1>4, <1>5, <1>6 DEF Receive, BootClr, BootImg

\* A fault of the link, or a reset of the clock.
LEMMA FaultStored ==
    ASSUME StoredInv, Only \in Uploaders,
           LoseFrame \/ GarbleFrame \/ GarbleStart \/ LoseAck \/ Reset
    PROVE  Alone' /\ Along' /\ CommitStep /\ ResendStep
<1>0. UNCHANGED <<pc, img, seq, slot>> /\ Alone /\ Along /\ TypeOK
  BY DEF StoredInv, LoseFrame, GarbleFrame, GarbleStart, LoseAck, Reset, thread
<1>1. UNCHANGED devVars => CommitStep /\ ResendStep
  BY <1>0, NoCommit DEF devVars, session, ResendStep
<1>2. CASE LoseFrame
  <2>1. Alone'
    BY <1>0, <1>2, TakesSilently DEF LoseFrame
  <2>2. Along'
    BY <1>0, <1>2, KeepsAlong DEF LoseFrame, Granted
  <2> QED
    BY <1>1, <1>2, <2>1, <2>2 DEF LoseFrame
<1>3. CASE GarbleFrame
  <2>1. Alone' /\ \A c \in Cmds : ~Granted(c)'
    BY <1>0, <1>3, TakesAnd DEF GarbleFrame, Cmds, Results
  <2>2. Along'
    BY <1>0, <1>3, <2>1, KeepsAlong DEF GarbleFrame
  <2> QED
    BY <1>1, <1>3, <2>1, <2>2 DEF GarbleFrame
<1>4. CASE GarbleStart
  <2>1. PICK total \in GarbledTotals \cup {Head(tx).total}, t \in {Head(tx).type, "wall"},
             r \in Results :
             ImgStart(t, total, r) /\ Reply("start", r) /\ typeLost' = (t # Head(tx).type)
    BY <1>4 DEF GarbleStart
  <2>2. total \in Nat
    BY <1>0, <1>4, <2>1, HeadFrame, GarbledAssumption DEF GarbleStart
  <2> QED
    BY <1>0, <1>4, <2>1, <2>2, StartTaken DEF GarbleStart
<1>5. CASE LoseAck
  <2>1. rx # <<>> /\ rx' = Tail(rx) /\ UNCHANGED <<devVars, tx, typeLost>> /\ rx \in Seq(Acks)
    BY <1>0, <1>5 DEF LoseAck, TypeOK
  <2>2. Len(rx) = 1 /\ slot = NoAck
    BY <1>0, <2>1 DEF Alone
  <2>3. rx' = <<>>
    BY <2>1, <2>2
  <2>4. Alone'
    BY <1>0, <2>1, <2>2, <2>3 DEF Alone, Quiet, Sent
  <2>5. Along'
    BY <1>0, <2>1, <2>3, KeepsAlong DEF Granted
  <2> QED
    BY <1>1, <2>1, <2>4, <2>5
<1>6. CASE Reset
  <2>1. ~sOpen' /\ sTotal' = 0 /\ UNCHANGED <<flash, tx, rx, typeLost>>
    BY <1>6 DEF Reset, DevReset
  <2>2. Alone'
    BY <1>0, <2>1 DEF Alone, Quiet, Sent
  <2>3. /\ Session(img[Only])' /\ (Stored(img[Only]) => Stored(img[Only])')
        /\ \A c \in Cmds : Granted(c)' <=> Granted(c)
    BY <1>0, <2>1 DEF Session, Filled, Stored, HoldsAt, Place, Granted
  <2>4. Along'
    BY <1>0, <2>1, <2>3 DEF Along, Cmds
  <2>5. CommitStep
    BY <1>0, <2>1, NoCommit
  <2> QED
    BY <2>1, <2>2, <2>4, <2>5 DEF ResendStep
<1> QED
  BY <1>2, <1>3, <1>4, <1>5, <1>6

\* With one thread the invariant holds at the start.
THEOREM StoredInit == OneThread /\ Init => StoredInv
<1> SUFFICES ASSUME OneThread, Init PROVE StoredInv
  OBVIOUS
<1>1. TypeOK
  BY InitType
<1>2. Only \in Uploaders
  BY DEF OneThread
<1>3. tx = <<>> /\ rx = <<>> /\ slot = NoAck /\ pc[Only] = "idle"
  BY <1>2 DEF Init
<1>4. Alone
  BY <1>3 DEF Alone, Quiet
<1>5. \A c \in Cmds : ~Granted(c)
  BY <1>3, NoAckAssumption DEF Granted, Acks, Results
<1> QED
  BY <1>1, <1>3, <1>4, <1>5 DEF StoredInv, Along, Cmds

\* Every step without a late answer keeps it, completes what it commits and
\* changes nothing by a repeated block.
THEOREM StoredNext ==
    StoredInv /\ NoLate /\ NoLate' /\ [Next]_vars => StoredInv' /\ CommitStep /\ ResendStep
<1> SUFFICES ASSUME StoredInv, NoLate, NoLate', [Next]_vars
             PROVE  StoredInv' /\ CommitStep /\ ResendStep
  OBVIOUS
<1>1. TypeOK' /\ OneThread /\ Uploaders = {Only} /\ Only \in Uploaders
  BY NextType DEF StoredInv, OneThread
<1>2. SUFFICES Alone' /\ Along' /\ CommitStep /\ ResendStep
  BY <1>1 DEF StoredInv
<1>4. UNCHANGED devVars => CommitStep /\ ResendStep
  BY NoCommit DEF devVars, session, ResendStep, StoredInv
<1>5. ASSUME NEW u \in Uploaders, NEW i \in Images, Begin(u, i)
      PROVE  Alone' /\ Along' /\ CommitStep /\ ResendStep
  BY <1>1, <1>4, <1>5, BeginStored DEF Begin
<1>6. ASSUME NEW u \in Uploaders, GetOk(u)
      PROVE  Alone' /\ Along' /\ CommitStep /\ ResendStep
  BY <1>1, <1>4, <1>6, GetOkStored DEF GetOk
<1>7. ASSUME NEW u \in Uploaders, GetErr(u)
      PROVE  Alone' /\ Along' /\ CommitStep /\ ResendStep
  BY <1>1, <1>4, <1>7, GetErrStored DEF GetErr
<1>8. ASSUME NEW u \in Uploaders, Timeout(u)
      PROVE  Alone' /\ Along' /\ CommitStep /\ ResendStep
  BY <1>1, <1>4, <1>8, TimeoutStored DEF Timeout
<1>9. CASE Notify
  BY <1>4, <1>9, NotifyStored DEF Notify
<1>10. ASSUME NEW f \in {ClrFrame, OnFrame(TRUE), OnFrame(FALSE)}, Click(f)
       PROVE  Alone' /\ Along' /\ CommitStep /\ ResendStep
  BY <1>4, <1>10, ClickStored DEF Click
<1>11. CASE UNCHANGED vars
  <2>1. UNCHANGED <<devVars, pc, img, seq, slot, tx, rx, typeLost>>
    BY <1>11 DEF vars, thread
  <2>2. Along'
    BY <2>1, KeepsAlong DEF Granted
  <2>3. Alone'
    BY <2>1 DEF StoredInv, Alone, Quiet, Sent
  <2> QED
    BY <1>4, <2>1, <2>2, <2>3
<1> QED
  BY <1>1, <1>5, <1>6, <1>7, <1>8, <1>9, <1>10, <1>11, ReceiveStored, FaultStored
     DEF Next, Thread

\* When the thread reports success the flash holds the image the user picked, in
\* its area or, if the IMGSTART lost its type, in the wallpaper's, whatever frames
\* and answers were lost or damaged and whenever the clock was reset, provided no
\* answer comes after its timeout.
THEOREM HostOkAlways == OneThread => (Spec /\ []NoLate => []HostOkMeansStored)
<1>1. StoredInv => HostOkMeansStored
  BY DEF StoredInv, OneThread, Along, HostOkMeansStored, Stored
<1> SUFFICES ASSUME OneThread PROVE Spec /\ []NoLate => []HostOkMeansStored
  OBVIOUS
<1>2. Init => StoredInv
  BY StoredInit
<1>3. StoredInv /\ NoLate /\ NoLate' /\ [Next]_vars => StoredInv'
  BY StoredNext
<1> QED
  BY <1>1, <1>2, <1>3, PTL DEF Spec

\* What the device commits as complete is one image, all of it, of the kind the
\* session was asked for, provided no answer comes after its timeout.
THEOREM CommitCompleteAlways == OneThread => (Spec /\ []NoLate => CommitComplete)
<1> SUFFICES ASSUME OneThread PROVE Spec /\ []NoLate => CommitComplete
  OBVIOUS
<1>1. Init => StoredInv
  BY StoredInit
<1>2. StoredInv /\ NoLate /\ NoLate' /\ [Next]_vars => StoredInv'
  BY StoredNext
<1>3. StoredInv /\ NoLate /\ NoLate' /\ [Next]_vars =>
        [Commits /\ sTotal > 0 =>
             \E i \in Images : Type(i) = Kind /\ HoldsAt(i, imgType)]_vars
  BY StoredNext DEF CommitStep
<1> QED
  BY <1>1, <1>2, <1>3, PTL DEF Spec, CommitComplete

\* A block sent again never changes what the flash holds, provided no answer
\* comes after its timeout.
THEOREM ResendIdempotentAlways == OneThread => (Spec /\ []NoLate => ResendIdempotent)
<1> SUFFICES ASSUME OneThread PROVE Spec /\ []NoLate => ResendIdempotent
  OBVIOUS
<1>1. Init => StoredInv
  BY StoredInit
<1>2. StoredInv /\ NoLate /\ NoLate' /\ [Next]_vars => StoredInv'
  BY StoredNext
<1>3. StoredInv /\ NoLate /\ NoLate' /\ [Next]_vars =>
        [sOpen /\ sOpen' /\ sExpect' = sExpect /\ sRecv' = sRecv /\ sExpect > 0
             => flash' = flash]_vars
  BY StoredNext DEF ResendStep
<1> QED
  BY <1>1, <1>2, <1>3, PTL DEF Spec, ResendIdempotent
-----------------------------------------------------------------------------
(* One late answer.  A timeout that came too early puts the waiter one     *)
(* answer behind: of the commands and answers on their way the first may   *)
(* be that of the attempt it gave up.  It then answers the next command of *)
(* the same name, and so on, until one of them is lost.  What is uploaded  *)
(* all the same goes where it should, since a block is written at its own  *)
(* number; and an upload that ends up in the session of the one before,    *)
(* its IMGSTART lost, is found out by the number of its blocks if the      *)
(* other image is of another kind, and harmless if it is of the same.      *)

\* Images of two kinds differ in the number of blocks (141 and 122 in the build).
KindsDiffer ==
    \A i, j \in Images : Size(i) > 0 /\ (Type(i) # Type(j) => Chunks(i) # Chunks(j))

\* At most one answer came after its timeout.
OneLate == late >= MaxLate - 1

\* An IMGSTART on the line asks for an image, and the open session has been
\* asked for: its total is the image's or one that lost digits, its area that of
\* the image's kind or, the type lost, the wallpaper's.
Asked ==
    /\ \A k \in 1 .. Len(tx) : tx[k].cmd = "start" => \E j \in Images : tx[k] = StartFrame(j)
    /\ sOpen => /\ sBase = Base(imgType)
                /\ typeLost => imgType = "wall"
                /\ \E j \in Images :
                      /\ Type(j) = Kind
                      /\ sTotal = PaddedSize(j) \/ sTotal = 0 \/ sTotal % Chunk # 0
    /\ pc[Only] = "img" => seq[Only] < Chunks(img[Only])

\* The session a taken IMGSTART opens has been asked for.
LEMMA StartAsked ==
    ASSUME DevTypeOK, NEW j \in Images, NEW t \in {Type(j), "wall"}, NEW total \in Nat,
           total = PaddedSize(j) \/ total = 0 \/ total % Chunk # 0 \/ total > PartBytes,
           NEW r, ImgStart(t, total, r), typeLost' = (t # Type(j))
    PROVE  sOpen' => /\ sBase' = Base(imgType')
                     /\ typeLost' => imgType' = "wall"
                     /\ \E x \in Images :
                           /\ Type(x) = Kind'
                           /\ sTotal' = PaddedSize(x) \/ sTotal' = 0 \/ sTotal' % Chunk # 0
<1> SUFFICES ASSUME sOpen'
             PROVE  /\ sBase' = Base(imgType')
                    /\ typeLost' => imgType' = "wall"
                    /\ Type(j) = Kind'
                    /\ sTotal' = PaddedSize(j) \/ sTotal' = 0 \/ sTotal' % Chunk # 0
  OBVIOUS
<1>1. sBase' = Base(t) /\ sTotal' = total /\ imgType' = t /\ total <= PartBytes - Base(t)
  BY DEF ImgStart
<1>2. Type(j) = Kind' /\ (typeLost' => imgType' = "wall")
  BY <1>1 DEF Kind, Type
<1>3. ~(total > PartBytes)
  BY <1>1, SizesAssumption DEF Base
<1> QED
  BY <1>1, <1>2, <1>3

\* What a thread sends after an answer or a timeout is no IMGSTART, and a block
\* is one of the image's.
LEMMA ThreadAsked ==
    ASSUME TypeOK, Only \in Uploaders, Asked, UNCHANGED <<devVars, img, typeLost>>,
           \/ GiveUpOrRetry(Only)
           \/ \E s \in Nat : NextBlock(Only, s)
           \/ Finish(Only, "ok")
    PROVE  Asked'
<1>1. /\ pc \in [Uploaders -> Cmds \cup Done] /\ seq \in [Uploaders -> Nat]
      /\ img \in [Uploaders -> Images]
      /\ UNCHANGED <<sOpen, sTotal, sBase, imgType, typeLost, img>>
  BY DEF TypeOK, devVars, session
<1>2. ASSUME NEW f \in Frames, Send(f), f.cmd # "start",
             pc'[Only] = "img" => seq'[Only] < Chunks(img[Only])
      PROVE  Asked'
  <2>1. \A k \in 1 .. Len(tx') : tx'[k].cmd = "start" => k \in 1 .. Len(tx) /\ tx'[k] = tx[k]
    BY <1>2, Appended
  <2> QED
    BY <1>1, <1>2, <2>1 DEF Asked, Kind
<1>3. ASSUME NEW s \in Nat, NEW n, SendBlock(Only, s, n), s < Chunks(img[Only])
      PROVE  Asked'
  <2>1. ImgFrame(img[Only], s) \in Frames /\ ImgFrame(img[Only], s).cmd # "start"
    BY <1>1 DEF ImgFrame, Frames
  <2>2. seq'[Only] = s
    BY <1>1, <1>3 DEF SendBlock
  <2> QED
    BY <1>2, <1>3, <2>1, <2>2 DEF SendBlock
<1>4. ASSUME SendEnd(Only) PROVE Asked'
  <2>1. EndFrame \in Frames /\ EndFrame.cmd # "start"
    BY DEF EndFrame, Frames
  <2>2. pc'[Only] = "end"
    BY <1>1, <1>4 DEF SendEnd
  <2> QED
    BY <1>2, <1>4, <2>1, <2>2 DEF SendEnd
<1>5. ASSUME NEW how \in Done, Finish(Only, how) PROVE Asked'
  <2>1. pc'[Only] = how /\ UNCHANGED tx
    BY <1>1, <1>5 DEF Finish
  <2> QED
    BY <1>1, <1>5, <2>1 DEF Asked, Kind, Done
<1>6. ASSUME NEW s \in Nat, NextBlock(Only, s) PROVE Asked'
  BY <1>3, <1>4, <1>6 DEF NextBlock
<1>7. CASE GiveUpOrRetry(Only)
  BY <1>1, <1>3, <1>5, <1>7 DEF GiveUpOrRetry, Asked, Kind, Done
<1> QED
  BY <1>5, <1>6, <1>7 DEF Done

\* Taking a frame off the wire, or putting a button's there, asks for nothing.
LEMMA LineAsked ==
    ASSUME TypeOK, Asked, UNCHANGED <<pc, img, seq>>,
           UNCHANGED <<sOpen, sTotal, sBase, imgType, typeLost>> \/ ~sOpen',
           \/ UNCHANGED tx
           \/ tx # <<>> /\ tx' = Tail(tx)
           \/ \E f \in Frames : Send(f) /\ f.cmd # "start"
    PROVE  Asked'
<1>1. \A k \in 1 .. Len(tx') : tx'[k].cmd = "start" =>
          \E m \in 1 .. Len(tx) : tx'[k] = tx[m]
  <2>1. CASE UNCHANGED tx
    BY <2>1
  <2>2. CASE tx # <<>> /\ tx' = Tail(tx)
    BY <2>2, Taken
  <2>3. ASSUME NEW f \in Frames, Send(f), f.cmd # "start"
        PROVE  \A k \in 1 .. Len(tx') : tx'[k].cmd = "start" =>
                   \E m \in 1 .. Len(tx) : tx'[k] = tx[m]
    BY <2>3, Appended
  <2> QED
    BY <2>1, <2>2, <2>3
<1>2. \A k \in 1 .. Len(tx') : tx'[k].cmd = "start" => \E j \in Images : tx'[k] = StartFrame(j)
  BY <1>1 DEF Asked, Kind
<1> QED
  BY <1>2 DEF Asked, Kind

\* Nothing is asked for at the start.
LEMMA AskedInit ==
    ASSUME OneThread, Init
    PROVE  Asked
<1>1. Only \in Uploaders
  BY DEF OneThread
<1> QED
  BY <1>1 DEF Init, DevInit, SessionInit, Asked

\* An IMGSTART arrives, perhaps with digits of the total or the type lost.
LEMMA AskedStart ==
    ASSUME TypeOK, Asked, UNCHANGED <<pc, img, seq>>, tx # <<>>, tx' = Tail(tx),
           Head(tx).cmd = "start", NEW total \in Nat, NEW t \in {Head(tx).type, "wall"},
           \/ total = Head(tx).total
           \/ total = 0 \/ total % Chunk # 0 \/ total > PartBytes,
           NEW r, ImgStart(t, total, r), typeLost' = (t # Head(tx).type)
    PROVE  Asked'
<1>1. PICK j \in Images : Head(tx) = StartFrame(j)
  BY Taken DEF Asked, Kind
<1>2. Head(tx).type = Type(j) /\ Head(tx).total = PaddedSize(j)
  BY <1>1 DEF StartFrame
<1>3. t \in {Type(j), "wall"} /\ typeLost' = (t # Type(j))
  BY <1>2
<1>4. total = PaddedSize(j) \/ total = 0 \/ total % Chunk # 0 \/ total > PartBytes
  BY <1>2
<1>5. sOpen' => /\ sBase' = Base(imgType')
                /\ typeLost' => imgType' = "wall"
                /\ \E x \in Images :
                      /\ Type(x) = Kind'
                      /\ sTotal' = PaddedSize(x) \/ sTotal' = 0 \/ sTotal' % Chunk # 0
  BY <1>3, <1>4, StartAsked DEF TypeOK
<1>6. \A k \in 1 .. Len(tx') : tx'[k].cmd = "start" => \E x \in Images : tx'[k] = StartFrame(x)
  BY Taken DEF Asked, Kind
<1> QED
  BY <1>5, <1>6 DEF Asked, Kind

\* Every step keeps it.
LEMMA AskedNext ==
    ASSUME OneThread, TypeOK, Asked, [Next]_vars
    PROVE  Asked'
<1>0. Uploaders = {Only} /\ Only \in Uploaders
  BY DEF OneThread
<1>1. ASSUME NEW u \in Uploaders, NEW i \in Images, Begin(u, i) PROVE Asked'
  <2>1. u = Only /\ pc \in [Uploaders -> Cmds \cup Done]
    BY <1>0 DEF TypeOK
  <2>2. pc'[Only] = "start" /\ Send(StartFrame(i)) /\ UNCHANGED <<devVars, typeLost>>
    BY <1>0, <1>1, <2>1 DEF Begin
  <2>3. StartFrame(i) \in Frames
    BY PaddedSizeType DEF StartFrame, Frames
  <2>4. \A k \in 1 .. Len(tx') : tx'[k].cmd = "start" => \E j \in Images : tx'[k] = StartFrame(j)
    BY <2>2, <2>3, Appended DEF Asked, Kind
  <2> QED
    BY <2>2, <2>4 DEF Asked, Kind, devVars, session
<1>2. ASSUME NEW u \in Uploaders, Thread(u) PROVE Asked'
  <2>1. u = Only /\ UNCHANGED <<devVars, img, typeLost>> /\ seq[Only] + 1 \in Nat
    BY <1>0, <1>2 DEF Thread, GetOk, GetErr, Timeout, TypeOK
  <2> QED
    BY <1>0, <1>2, <2>1, ThreadAsked DEF Thread, GetOk, GetErr, Timeout
<1>3. CASE Notify
  BY <1>3, LineAsked DEF Notify, devVars, session, thread
<1>4. ASSUME NEW f \in {ClrFrame, OnFrame(TRUE), OnFrame(FALSE)}, Click(f) PROVE Asked'
  <2>1. f \in Frames /\ f.cmd # "start"
    BY DEF ClrFrame, OnFrame, Frames
  <2> QED
    BY <1>4, <2>1, LineAsked DEF Click, devVars, session, thread
<1>5. CASE Receive
  <2>1. tx # <<>> /\ tx' = Tail(tx) /\ UNCHANGED <<pc, img, seq>>
    BY <1>5 DEF Receive, thread
  <2>2. ASSUME NEW r \in Results, Head(tx).cmd = "start",
               ImgStart(Head(tx).type, Head(tx).total, r), ~typeLost'
        PROVE  Asked'
    <3>1. typeLost' = (Head(tx).type # Head(tx).type)
      BY <1>5, <2>2 DEF Receive
    <3> QED
      BY <2>1, <2>2, <3>1, HeadFrame, AskedStart
  <2>3. ASSUME UNCHANGED <<sOpen, sTotal, sBase, imgType, typeLost>> \/ ~sOpen'
        PROVE  Asked'
    BY <2>1, <2>3, LineAsked
  <2>4. ASSUME NEW n, NEW i, NEW r, ImgChunk(n, i, r), UNCHANGED typeLost PROVE Asked'
    BY <2>3, <2>4 DEF ImgChunk
  <2>5. ASSUME NEW r, ImgEnd(r), UNCHANGED typeLost PROVE Asked'
    BY <2>3, <2>5 DEF ImgEnd
  <2>6. ASSUME UNCHANGED <<session, typeLost>> PROVE Asked'
    BY <2>3, <2>6 DEF session
  <2>7. typeLost \in BOOLEAN
    BY DEF TypeOK
  <2> QED
    BY <1>5, <2>2, <2>4, <2>5, <2>6, <2>7 DEF Receive, BootClr, BootImg
<1>6. CASE LoseFrame
  BY <1>6, LineAsked DEF LoseFrame, devVars, session, thread
<1>7. CASE GarbleFrame
  BY <1>7, LineAsked DEF GarbleFrame, devVars, session, thread
<1>8. CASE GarbleStart
  <2>1. PICK total \in GarbledTotals \cup {Head(tx).total}, t \in {Head(tx).type, "wall"},
             r \in Results : ImgStart(t, total, r) /\ typeLost' = (t # Head(tx).type)
    BY <1>8 DEF GarbleStart
  <2>2. /\ total \in Nat
        /\ \/ total = Head(tx).total
           \/ total = 0 \/ total % Chunk # 0 \/ total > PartBytes
    BY <1>8, <2>1, HeadFrame, GarbledAssumption DEF GarbleStart
  <2> QED
    BY <1>8, <2>1, <2>2, AskedStart DEF GarbleStart, thread
<1>9. CASE LoseAck
  BY <1>9, LineAsked DEF LoseAck, devVars, session, thread
<1>10. CASE Reset
  BY <1>10, LineAsked DEF Reset, DevReset, thread
<1>11. CASE UNCHANGED vars
  BY <1>11, LineAsked DEF vars, devVars, session, thread
<1> QED
  BY <1>1, <1>2, <1>3, <1>4, <1>5, <1>6, <1>7, <1>8, <1>9, <1>10, <1>11 DEF Next

\* The answers on their way, that in the slot first; and the commands.
Answers == IF slot = NoAck THEN rx ELSE <<slot>> \o rx
CmdAt == {k \in 1 .. Len(tx) : tx[k].cmd \in Cmds}
OkAt(c, k) == k \in 1 .. Len(Answers) /\ Answers[k] = [cmd |-> c, res |-> "OK"]

\* Two commands or answers at a time, and one for a thread that waits for none.
Few ==
    /\ Len(Answers) <= 2
    /\ Len(Answers) = 2 => Quiet
    /\ Len(Answers) = 1 => \A j, k \in CmdAt : j = k
    /\ \A j, k, l \in CmdAt : j = k \/ k = l \/ j = l
    /\ pc[Only] \in Done => /\ Len(Answers) <= 1
                            /\ Len(Answers) = 1 => Quiet
                            /\ \A j, k \in CmdAt : j = k

\* The last of them is the one the thread waits for.
Newest ==
    /\ \A k \in CmdAt : pc[Only] \in Cmds /\ (\A j \in CmdAt : j <= k) => Sent(tx[k])
    /\ Len(Answers) = 2 => Answers[2].cmd = pc[Only]

\* The session, if one is open, is for the kind of image i.
Own(i) == sOpen => Kind = Type(i)

\* Before an upload's IMGSTART is answered: if an answer to IMGSTART comes, the
\* session is fresh; what blocks and IMGENDs of an upload given up are still on
\* the line belong to the session.
Between == pc[Only] \in Done \cup {"start"} =>
    /\ (\E k \in 1 .. 2 : OkAt("start", k)) =>
          \A i \in Images : (sOpen => sExpect = 0) /\ Filled(i)
    /\ (\E k \in CmdAt : tx[k].cmd # "start") =>
          \E a \in Images : /\ Filled(a) /\ Own(a)
                            /\ \A k \in CmdAt : tx[k].cmd = "img" => tx[k].img = a
    /\ pc[Only] = "ok" => Stored(img[Only]) /\ Answers = <<>> /\ Quiet

\* While blocks are sent: the session has what it has of this image, and of the
\* blocks before this one at most the last is missing; none is in a session for
\* another kind, where no answer is late.
Blocks == pc[Only] = "img" =>
    /\ Filled(img[Only])
    /\ \A k \in CmdAt : \/ tx[k] = ImgFrame(img[Only], seq[Only])
                        \/ tx[k] = ImgFrame(img[Only], seq[Only] - 1)
                        \/ seq[Only] = 0 /\ tx[k] = StartFrame(img[Only])
    /\ \A k \in 1 .. Len(Answers) : Answers[k].cmd # "end"
    /\ sOpen =>
       /\ sExpect >= seq[Only] - 1
       /\ seq[Only] > 0 => sExpect >= 1
       /\ OkAt("img", 1) => sExpect >= seq[Only] /\ sExpect >= 1
       /\ OkAt("img", 2) => sExpect >= seq[Only] + 1
    /\ ~Own(img[Only]) =>
       /\ sExpect >= seq[Only] /\ sExpect <= Chunks(img[Only])
       /\ OkAt("img", 1) => sExpect >= seq[Only] + 1
       /\ \A j, k \in CmdAt : tx[j].cmd = "img" /\ tx[k].cmd = "img" => j = k
       /\ \A k \in 1 .. Len(Answers) : Answers[k].cmd = "img" => k = Len(Answers) /\ Quiet

\* While IMGEND is: something has been received, and a session for another kind
\* has all blocks of this image and no more.
Ending == pc[Only] = "end" =>
    /\ Filled(img[Only])
    /\ \A k \in CmdAt : tx[k] = EndFrame \/ (tx[k].cmd = "img" /\ tx[k].img = img[Only])
    /\ \A j, k \in CmdAt : j < k => tx[j].cmd = "img"
    /\ \A k \in 1 .. Len(Answers) : Answers[k].cmd = "end" => k = Len(Answers) /\ Quiet
    /\ OkAt("end", 1) \/ OkAt("end", 2) => Stored(img[Only])
    /\ sOpen => sExpect >= 1
    /\ ~Own(img[Only]) => sExpect = Chunks(img[Only]) /\ \A k \in CmdAt : tx[k] = EndFrame

LateInv == Few /\ Newest /\ Between /\ Blocks /\ Ending

\* The answers in order.
LEMMA AnswersOf ==
    ASSUME NEW sl \in Acks \cup {NoAck}, NEW r \in Seq(Acks), NEW ans,
           ans = IF sl = NoAck THEN r ELSE <<sl>> \o r
    PROVE  /\ ans \in Seq(Acks) /\ Len(ans) \in Nat
           /\ sl = NoAck => ans = r
           /\ sl # NoAck => /\ Len(ans) = Len(r) + 1 /\ ans[1] = sl
                            /\ \A k \in 1 .. Len(r) : ans[k + 1] = r[k]
<1>2. CASE sl = NoAck
  BY <1>2
<1>3. CASE sl # NoAck
  <2>1. <<sl>> \in Seq(Acks) /\ Len(<<sl>>) = 1 /\ <<sl>>[1] = sl
    BY <1>3
  <2> DEFINE h == <<sl>>
  <2>2. ans = h \o r
    BY <1>3
  <2> HIDE DEF h
  <2>3. h \in Seq(Acks) /\ Len(h) = 1 /\ h[1] = sl
    BY <2>1 DEF h
  <2>4. Len(h \o r) = 1 + Len(r) /\ (h \o r)[1] = sl /\ h \o r \in Seq(Acks)
        /\ \A k \in 1 .. Len(r) : (h \o r)[k + 1] = r[k]
    <3>1. /\ h \o r \in Seq(Acks) /\ Len(h \o r) = Len(h) + Len(r)
          /\ \A k \in 1 .. Len(h) + Len(r) :
                 (h \o r)[k] = IF k <= Len(h) THEN h[k] ELSE r[k - Len(h)]
      BY <2>3, ConcatProperties
    <3>2. Len(r) \in Nat
      OBVIOUS
    <3>3. (h \o r)[1] = sl
      BY <2>3, <3>1, <3>2
    <3>4. ASSUME NEW k \in 1 .. Len(r) PROVE (h \o r)[k + 1] = r[k]
      <4>1. k + 1 \in 1 .. Len(h) + Len(r) /\ ~(k + 1 <= Len(h)) /\ (k + 1) - Len(h) = k
        BY <2>3, <3>2
      <4> QED
        BY <3>1, <4>1
    <3> QED
      BY <2>3, <3>1, <3>3, <3>4
  <2> QED
    BY <1>3, <2>2, <2>4
<1> QED
  BY <1>2, <1>3

\* So they are in the slot and on the wire.
LEMMA AnswersFacts ==
    ASSUME TypeOK
    PROVE  /\ Answers \in Seq(Acks) /\ Len(Answers) \in Nat
           /\ slot = NoAck => Answers = rx
           /\ slot # NoAck => /\ Len(Answers) = Len(rx) + 1 /\ Answers[1] = slot
                              /\ \A k \in 1 .. Len(rx) : Answers[k + 1] = rx[k]
<1>1. rx \in Seq(Acks) /\ slot \in Acks \cup {NoAck}
  BY DEF TypeOK
<1> QED
  BY <1>1, AnswersOf DEF Answers

\* And after a step.
LEMMA AnswersNext ==
    ASSUME TypeOK'
    PROVE  /\ Answers' \in Seq(Acks) /\ Len(Answers') \in Nat
           /\ slot' = NoAck => Answers' = rx'
           /\ slot' # NoAck => /\ Len(Answers') = Len(rx') + 1 /\ Answers'[1] = slot'
                              /\ \A k \in 1 .. Len(rx') : Answers'[k + 1] = rx'[k]
<1>1. rx' \in Seq(Acks) /\ slot' \in Acks \cup {NoAck}
  BY DEF TypeOK
<1> QED
  BY <1>1, AnswersOf DEF Answers

\* The answers after one step of which they lose at most one.
Fewer ==
    \/ Answers' = Answers
    \/ Len(Answers') = 0
    \/ Len(Answers') = 1 /\ Len(Answers) = 2
       /\ (Answers'[1] = Answers[1] \/ Answers'[1] = Answers[2])

\* A late answer replaces one nobody has taken.
LEMMA NotifyFewer ==
    ASSUME TypeOK, TypeOK', Len(Answers) <= 2, Notify
    PROVE  Fewer
<1>1. /\ rx \in Seq(Acks) /\ Len(rx) \in Nat \ {0} /\ slot' = rx[1] /\ rx' = Tail(rx)
      /\ slot' # NoAck
  BY NoAckAssumption DEF TypeOK, Notify
<1>2. Len(rx') = Len(rx) - 1 /\ \A k \in 1 .. Len(rx') : rx'[k] = rx[k + 1]
  BY <1>1
<1>3. Len(Answers') = Len(rx') + 1 /\ Answers'[1] = rx[1]
      /\ \A k \in 1 .. Len(rx') : Answers'[k + 1] = rx'[k]
  BY <1>1, AnswersNext
<1>4. CASE slot = NoAck
  <2>1. Answers = rx
    BY <1>4 DEF Answers
  <2>2. Len(Answers') = Len(rx)
    BY <1>1, <1>2, <1>3
  <2>3. \A k \in 1 .. Len(rx) : Answers'[k] = rx[k]
    <3>1. ASSUME NEW k \in 1 .. Len(rx), k # 1 PROVE Answers'[k] = rx[k]
      <4>1. k - 1 \in 1 .. Len(rx') /\ (k - 1) + 1 = k
        BY <1>1, <1>2, <3>1
      <4> QED
        BY <1>2, <1>3, <4>1
    <3> QED
      BY <1>3, <3>1
  <2>4. Answers' \in Seq(Acks) /\ rx \in Seq(Acks)
    BY <1>1, AnswersNext
  <2>5. Answers' = rx
    BY <2>2, <2>3, <2>4
  <2> QED
    BY <2>1, <2>5 DEF Fewer
<1>5. CASE slot # NoAck
  <2>1. Len(Answers) = Len(rx) + 1 /\ \A k \in 1 .. Len(rx) : Answers[k + 1] = rx[k]
    BY <1>5, AnswersFacts
  <2>2. Len(rx) = 1
    <3> DEFINE n == Len(rx)
               m == Len(Answers)
    <3>1. n \in Nat \ {0} /\ m = n + 1 /\ m <= 2
      BY <1>1, <2>1
    <3> HIDE DEF n, m
    <3>2. n = 1
      BY <3>1
    <3> QED
      BY <3>2 DEF n
  <2>3. Len(Answers) = 2 /\ Len(Answers') = 1 /\ Answers[2] = rx[1]
    BY <1>2, <1>3, <2>1, <2>2
  <2> QED
    BY <1>3, <2>3 DEF Fewer
<1> QED
  BY <1>4, <1>5

\* So does one that is lost.
LEMMA LoseAckFewer ==
    ASSUME TypeOK, TypeOK', Len(Answers) <= 2, LoseAck
    PROVE  Fewer
<1>1. /\ rx \in Seq(Acks) /\ Len(rx) \in Nat \ {0} /\ slot' = slot /\ rx' = Tail(rx)
  BY DEF TypeOK, LoseAck
<1>2. Len(rx') = Len(rx) - 1 /\ \A k \in 1 .. Len(rx') : rx'[k] = rx[k + 1]
  BY <1>1
<1>4. CASE slot = NoAck
  <2>1. Answers = rx /\ Answers' = rx'
    BY <1>1, <1>4 DEF Answers
  <2>2. Len(Answers) = Len(rx) /\ Len(Answers') = Len(rx')
    BY <2>1
  <2>3. /\ Len(rx) \in Nat \ {0} /\ Len(rx) <= 2 /\ Len(rx') = Len(rx) - 1
        /\ Len(rx') > 0 => rx'[1] = rx[2]
    <3>1. Len(rx) \in Nat \ {0} /\ Len(rx) <= 2 /\ Len(rx') = Len(rx) - 1
      BY <1>1, <1>2, <2>2
    <3>2. Len(rx') > 0 => 1 \in 1 .. Len(rx')
      BY <3>1
    <3> QED
      BY <1>2, <3>1, <3>2
  <2>4. Len(rx') = 0 \/ (Len(rx') = 1 /\ Len(rx) = 2 /\ rx'[1] = rx[2])
    BY <2>3
  <2> QED
    BY <2>1, <2>2, <2>4 DEF Fewer
<1>5. CASE slot # NoAck
  <2>1. Len(Answers) = Len(rx) + 1 /\ Answers[1] = slot
    BY <1>5, AnswersFacts
  <2>2. Len(Answers') = Len(rx') + 1 /\ Answers'[1] = slot
    BY <1>1, <1>5, AnswersNext
  <2>3. Len(rx) = 1
    <3> DEFINE n == Len(rx)
               m == Len(Answers)
    <3>1. n \in Nat \ {0} /\ m = n + 1 /\ m <= 2
      BY <1>1, <2>1
    <3> HIDE DEF n, m
    <3>2. n = 1
      BY <3>1
    <3> QED
      BY <3>2 DEF n
  <2>4. Len(Answers) = 2 /\ Len(Answers') = 1
    BY <1>2, <2>1, <2>2, <2>3
  <2> QED
    BY <2>1, <2>2, <2>4 DEF Fewer
<1> QED
  BY <1>4, <1>5

\* The frames after one was taken, or a button's added.
NoNewCommand == \E d \in {0, 1} :
    /\ \A k \in CmdAt' : k + d \in CmdAt /\ tx'[k] = tx[k + d]
    /\ \A j \in CmdAt : j > d => j - d \in CmdAt'

\* A frame taken: the commands move up by one.
LEMMA TakenCommands ==
    ASSUME TypeOK, tx # <<>>, tx' = Tail(tx)
    PROVE  /\ \A k \in CmdAt' : k \in Nat \ {0} /\ k + 1 \in CmdAt /\ tx'[k] = tx[k + 1]
           /\ \A j \in CmdAt : j \in Nat \ {0} /\ (j # 1 => j - 1 \in CmdAt')
           /\ Head(tx).cmd \in Cmds => 1 \in CmdAt /\ tx[1] = Head(tx)
           /\ Head(tx).cmd \notin Cmds => 1 \notin CmdAt
<1>1. tx \in Seq(Frames) /\ Len(tx) \in Nat \ {0} /\ Head(tx) = tx[1]
  BY DEF TypeOK
<1>2. Len(tx') = Len(tx) - 1 /\ \A k \in 1 .. Len(tx') : tx'[k] = tx[k + 1]
  BY <1>1
<1>3. \A k \in CmdAt' : k \in Nat \ {0} /\ k + 1 \in CmdAt /\ tx'[k] = tx[k + 1]
  BY <1>1, <1>2 DEF CmdAt
<1>4. ASSUME NEW j \in CmdAt, j # 1 PROVE j - 1 \in CmdAt'
  <2>1. j - 1 \in 1 .. Len(tx') /\ (j - 1) + 1 = j
    BY <1>1, <1>2, <1>4 DEF CmdAt
  <2>2. tx'[j - 1] = tx[j]
    BY <1>2, <2>1
  <2> QED
    BY <1>4, <2>1, <2>2 DEF CmdAt
<1> QED
  BY <1>1, <1>3, <1>4 DEF CmdAt

\* So none is new.
LEMMA TakenNoNew ==
    ASSUME TypeOK, tx # <<>>, tx' = Tail(tx)
    PROVE  NoNewCommand
<1>1. /\ \A k \in CmdAt' : k + 1 \in CmdAt /\ tx'[k] = tx[k + 1]
      /\ \A j \in CmdAt : j > 1 => j - 1 \in CmdAt'
  <2>1. /\ \A k \in CmdAt' : k + 1 \in CmdAt /\ tx'[k] = tx[k + 1]
        /\ \A j \in CmdAt : j \in Nat \ {0} /\ (j # 1 => j - 1 \in CmdAt')
    BY TakenCommands
  <2>2. \A j \in CmdAt : j > 1 => j - 1 \in CmdAt'
    BY <2>1
  <2> QED
    BY <2>1, <2>2
<1> QED
  BY <1>1 DEF NoNewCommand

\* Nor is one when the line is left alone.
LEMMA SameNoNew ==
    ASSUME UNCHANGED tx
    PROVE  NoNewCommand
<1>1. /\ \A k \in CmdAt' : k + 0 \in CmdAt /\ tx'[k] = tx[k + 0]
      /\ \A j \in CmdAt : j > 0 => j - 0 \in CmdAt'
  BY DEF CmdAt
<1> QED
  BY <1>1 DEF NoNewCommand

\* A frame sent comes after the commands on the line.
LEMMA AppendedCommands ==
    ASSUME TypeOK, NEW f \in Frames, Send(f)
    PROVE  /\ \A k \in CmdAt : k \in 1 .. Len(tx) /\ k \in CmdAt' /\ tx'[k] = tx[k]
           /\ \A k \in CmdAt' : k \in CmdAt \/ (k = Len(tx) + 1 /\ f.cmd \in Cmds)
           /\ Len(tx) \in Nat /\ tx'[Len(tx) + 1] = f
           /\ f.cmd \in Cmds => Len(tx) + 1 \in CmdAt'
<1>1. tx' = Append(tx, f) /\ tx \in Seq(Frames) /\ Len(tx) \in Nat
  BY DEF Send, TypeOK
<1>2. Len(tx') = Len(tx) + 1 /\ tx'[Len(tx) + 1] = f
      /\ \A k \in 1 .. Len(tx) : tx'[k] = tx[k]
  BY <1>1
<1> QED
  BY <1>1, <1>2 DEF CmdAt

\* A button's is no command.
LEMMA ButtonNoNew ==
    ASSUME TypeOK, NEW f \in Frames, Send(f), f.cmd \notin Cmds
    PROVE  NoNewCommand
<1>1. /\ \A k \in CmdAt' : k + 0 \in CmdAt /\ tx'[k] = tx[k + 0]
      /\ \A j \in CmdAt : j > 0 => j - 0 \in CmdAt'
  BY AppendedCommands DEF CmdAt
<1> QED
  BY <1>1 DEF NoNewCommand

\* Without a new command or answer the line stays as it should be, whatever is lost.
LEMMA LessLine ==
    ASSUME TypeOK, TypeOK', Few, Newest, Fewer, NoNewCommand, UNCHANGED <<pc, img, seq>>
    PROVE  Few' /\ Newest' /\ (Quiet => Quiet')
<1>1. PICK d \in {0, 1} :
           /\ \A k \in CmdAt' : k + d \in CmdAt /\ tx'[k] = tx[k + d]
           /\ \A j \in CmdAt : j > d => j - d \in CmdAt'
  BY DEF NoNewCommand
<1>2. \A k \in CmdAt : k \in Nat \ {0}
  BY DEF CmdAt
<1>3. \A k \in CmdAt' : k \in Nat \ {0}
  BY DEF CmdAt
<1>4. Quiet <=> CmdAt = {}
  BY DEF Quiet, CmdAt
<1>5. Quiet' <=> CmdAt' = {}
  BY DEF Quiet, CmdAt
<1>6. Quiet => Quiet'
  BY <1>1, <1>4, <1>5
<1>7. Len(Answers) \in Nat /\ Len(Answers') \in Nat /\ Len(Answers') <= Len(Answers)
  BY AnswersFacts, AnswersNext DEF Fewer
<1>8. ASSUME NEW j \in CmdAt', NEW k \in CmdAt', \A x, y \in CmdAt : x = y PROVE j = k
  <2>1. j + d = k + d
    BY <1>1, <1>8
  <2> QED
    BY <1>3, <2>1
<1>9. ASSUME NEW j \in CmdAt', NEW k \in CmdAt', NEW l \in CmdAt' PROVE j = k \/ k = l \/ j = l
  <2>1. j + d = k + d \/ k + d = l + d \/ j + d = l + d
    BY <1>1 DEF Few
  <2> QED
    BY <1>3, <2>1
<1>10. Len(Answers) = 2 \/ Quiet => \A j, k \in CmdAt : j = k
  BY <1>4 DEF Few
<1>11. Few'
  <2>1. Len(Answers') <= 2 /\ (Len(Answers') = 2 => Quiet')
    BY <1>6, <1>7 DEF Few
  <2>2. Len(Answers') = 1 => \A j, k \in CmdAt' : j = k
    <3>1. Len(Answers') = 1 => Len(Answers) = 1 \/ Len(Answers) = 2
      BY <1>7 DEF Few, Fewer
    <3>2. Len(Answers) = 1 => \A j, k \in CmdAt : j = k
      BY DEF Few
    <3> QED
      BY <1>8, <1>10, <3>1, <3>2
  <2>3. pc'[Only] \in Done => /\ Len(Answers') <= 1
                              /\ Len(Answers') = 1 => Quiet'
                              /\ \A j, k \in CmdAt' : j = k
    BY <1>6, <1>7, <1>8 DEF Few
  <2> QED
    BY <1>9, <2>1, <2>2, <2>3 DEF Few
<1>12. ASSUME NEW k \in CmdAt', pc'[Only] \in Cmds, \A j \in CmdAt' : j <= k
       PROVE  Sent(tx[k])'
  <2>1. \A j \in CmdAt : j <= k + d
    <3> SUFFICES ASSUME NEW j \in CmdAt, j > k + d PROVE FALSE
      BY <1>2, <1>3
    <3>1. j - d \in CmdAt'
      BY <1>1, <1>2, <1>3
    <3> QED
      BY <1>2, <1>3, <1>12, <3>1
  <2>2. Sent(tx[k + d])
    BY <1>1, <1>12, <2>1 DEF Newest
  <2> QED
    BY <1>1, <2>2 DEF Sent
<1>13. Len(Answers') = 2 => Answers'[2].cmd = pc'[Only]
  BY <1>7 DEF Fewer, Newest
<1> QED
  <2>1. Newest'
    BY <1>12, <1>13 DEF Newest
  <2> QED
    BY <1>6, <1>11, <2>1

\* When nothing arrives, what is on its way and what the clock has still agree,
\* whatever is lost and though the clock be reset.
LEMMA LessLate ==
    ASSUME TypeOK, TypeOK', Only \in Uploaders, LateInv, Fewer, NoNewCommand,
           UNCHANGED <<pc, img, seq, flash, typeLost>>,
           UNCHANGED <<sOpen, sTotal, sRecv, sExpect, sBase, imgType>> \/ ~sOpen'
    PROVE  LateInv'
<1>1. Few' /\ Newest' /\ (Quiet => Quiet')
  BY LessLine DEF LateInv
<1>2. \A k \in CmdAt' : \E m \in CmdAt : tx'[k] = tx[m]
  BY DEF NoNewCommand
<1>3. /\ \A i : Filled(i) => Filled(i)'
      /\ \A i : Own(i) => Own(i)'
      /\ \A i : Stored(i) => Stored(i)'
      /\ sOpen' => sOpen /\ sExpect' = sExpect
  <2>1. CASE UNCHANGED <<sOpen, sTotal, sRecv, sExpect, sBase, imgType>>
    BY <2>1 DEF Filled, Own, Kind, Stored, HoldsAt, Place
  <2>2. CASE ~sOpen'
    BY <2>2 DEF Filled, Own, Kind, Stored, HoldsAt, Place
  <2> QED
    BY <2>1, <2>2
<1>4. \A i : ~Own(i)' => ~Own(i) /\ sExpect' = sExpect
  BY <1>3 DEF Own, Kind
<1>5. Len(Answers) \in Nat /\ Len(Answers') \in Nat
  BY AnswersFacts, AnswersNext
<1>6. \A k \in 1 .. Len(Answers') : \E m \in 1 .. Len(Answers) :
          /\ Answers'[k] = Answers[m]
          /\ m = k \/ (k = 1 /\ m = 2)
          /\ k = Len(Answers') \/ m # Len(Answers)
  <2>1. CASE Answers' = Answers
    BY <1>5, <2>1
  <2>2. CASE Len(Answers') = 0
    BY <2>2
  <2>3. CASE Len(Answers') = 1 /\ Len(Answers) = 2
             /\ (Answers'[1] = Answers[1] \/ Answers'[1] = Answers[2])
    <3> SUFFICES ASSUME NEW k \in 1 .. Len(Answers')
                 PROVE  \E m \in 1 .. Len(Answers) :
                           /\ Answers'[k] = Answers[m]
                           /\ m = k \/ (k = 1 /\ m = 2)
                           /\ k = Len(Answers') \/ m # Len(Answers)
      OBVIOUS
    <3>1. k = 1 /\ 1 \in 1 .. Len(Answers) /\ 2 \in 1 .. Len(Answers)
      BY <2>3
    <3> QED
      BY <2>3, <3>1
  <2> QED
    BY <2>1, <2>2, <2>3 DEF Fewer
<1>7. \A c : /\ OkAt(c, 1)' => OkAt(c, 1) \/ OkAt(c, 2)
             /\ OkAt(c, 2)' => OkAt(c, 2)
  <2> SUFFICES ASSUME NEW c
               PROVE  /\ OkAt(c, 1)' => OkAt(c, 1) \/ OkAt(c, 2)
                      /\ OkAt(c, 2)' => OkAt(c, 2)
    OBVIOUS
  <2>1. ASSUME OkAt(c, 1)' PROVE OkAt(c, 1) \/ OkAt(c, 2)
    <3>1. 1 \in 1 .. Len(Answers') /\ Answers'[1] = [cmd |-> c, res |-> "OK"]
      BY <2>1 DEF OkAt
    <3>2. PICK m \in 1 .. Len(Answers) : Answers'[1] = Answers[m] /\ (m = 1 \/ m = 2)
      BY <1>6, <3>1
    <3> QED
      BY <3>1, <3>2 DEF OkAt
  <2>2. ASSUME OkAt(c, 2)' PROVE OkAt(c, 2)
    <3>1. 2 \in 1 .. Len(Answers') /\ Answers'[2] = [cmd |-> c, res |-> "OK"]
      BY <2>2 DEF OkAt
    <3>2. PICK m \in 1 .. Len(Answers) : Answers'[2] = Answers[m] /\ m = 2
      BY <1>6, <3>1
    <3> QED
      BY <3>1, <3>2 DEF OkAt
  <2> QED
    BY <2>1, <2>2
<1>8. seq[Only] \in Nat /\ sExpect \in Nat /\ img[Only] \in Images /\ Chunks(img[Only]) \in Nat
  BY ChunksFacts DEF TypeOK, DevTypeOK
<1>9. Between'
  <2> SUFFICES ASSUME pc[Only] \in Done \cup {"start"} PROVE Between'
    BY DEF Between
  <2> DEFINE B1 == (\E k \in 1 .. 2 : OkAt("start", k)) =>
                       \A i \in Images : (sOpen => sExpect = 0) /\ Filled(i)
             B2 == (\E k \in CmdAt : tx[k].cmd # "start") =>
                       \E a \in Images : /\ Filled(a) /\ Own(a)
                                         /\ \A k \in CmdAt : tx[k].cmd = "img" => tx[k].img = a
             B3 == pc[Only] = "ok" => Stored(img[Only]) /\ Answers = <<>> /\ Quiet
  <2>1. B1 /\ B2 /\ B3
    BY DEF LateInv, Between
  <2>2. B1'
    <3>1. (\E k \in 1 .. 2 : OkAt("start", k)') => \E k \in 1 .. 2 : OkAt("start", k)
      BY <1>7
    <3> QED
      BY <1>3, <2>1, <3>1
  <2>3. B2'
    <3> SUFFICES ASSUME \E k \in CmdAt' : tx'[k].cmd # "start"
                 PROVE  \E a \in Images : /\ Filled(a)' /\ Own(a)'
                                          /\ \A k \in CmdAt' : tx'[k].cmd = "img" => tx'[k].img = a
      OBVIOUS
    <3>1. PICK a \in Images : /\ Filled(a) /\ Own(a)
                              /\ \A k \in CmdAt : tx[k].cmd = "img" => tx[k].img = a
      BY <1>2, <2>1
    <3> QED
      BY <1>2, <1>3, <3>1
  <2>4. B3'
    <3>1. Answers = <<>> => Answers' = <<>>
      BY <1>5, AnswersNext DEF Fewer
    <3> QED
      BY <1>1, <1>3, <2>1, <3>1
  <2> HIDE DEF B1, B2, B3
  <2>5. B1' /\ B2' /\ B3' => Between'
    BY DEF B1, B2, B3, Between
  <2> QED
    BY <2>2, <2>3, <2>4, <2>5
<1>10. Blocks'
  <2> SUFFICES ASSUME pc[Only] = "img" PROVE Blocks'
    BY DEF Blocks
  <2> DEFINE i == img[Only]
             s == seq[Only]
             n == Chunks(img[Only])
  <2>2. Blocks
    BY DEF LateInv
  <2>3. Filled(i)'
    BY <1>3, <2>2 DEF Blocks
  <2>4. \A k \in CmdAt' : \/ tx'[k] = ImgFrame(i, s)
                          \/ tx'[k] = ImgFrame(i, s - 1)
                          \/ s = 0 /\ tx'[k] = StartFrame(i)
    BY <1>2, <2>2 DEF Blocks
  <2>5. \A k \in 1 .. Len(Answers') : Answers'[k].cmd # "end"
    BY <1>6, <2>2 DEF Blocks
  <2>6. ASSUME sOpen'
        PROVE  /\ sExpect' >= s - 1
               /\ s > 0 => sExpect' >= 1
               /\ OkAt("img", 1)' => sExpect' >= s /\ sExpect' >= 1
               /\ OkAt("img", 2)' => sExpect' >= s + 1
    <3>1. sOpen /\ sExpect' = sExpect
      BY <1>3, <2>6
    <3>2. /\ sExpect >= s - 1
          /\ s > 0 => sExpect >= 1
          /\ OkAt("img", 1) => sExpect >= s /\ sExpect >= 1
          /\ OkAt("img", 2) => sExpect >= s + 1
      BY <2>2, <3>1 DEF Blocks
    <3> HIDE DEF s
    <3>3. s \in Nat
      BY <1>8 DEF s
    <3>4. sExpect >= s + 1 => sExpect >= s /\ sExpect >= 1
      BY <1>8, <3>3
    <3> QED
      BY <1>7, <3>1, <3>2, <3>4
  <2>7. ASSUME ~Own(i)'
        PROVE  /\ sExpect' >= s /\ sExpect' <= n
               /\ OkAt("img", 1)' => sExpect' >= s + 1
               /\ \A j, k \in CmdAt' : tx'[j].cmd = "img" /\ tx'[k].cmd = "img" => j = k
               /\ \A k \in 1 .. Len(Answers') :
                      Answers'[k].cmd = "img" => k = Len(Answers') /\ Quiet'
    <3>1. ~Own(i) /\ sExpect' = sExpect /\ sOpen
      BY <1>4, <2>7 DEF Own, Kind
    <3>2. /\ sExpect >= s /\ sExpect <= n
          /\ OkAt("img", 1) => sExpect >= s + 1
          /\ OkAt("img", 2) => sExpect >= s + 1
          /\ \A j, k \in CmdAt : tx[j].cmd = "img" /\ tx[k].cmd = "img" => j = k
          /\ \A k \in 1 .. Len(Answers) :
                 Answers[k].cmd = "img" => k = Len(Answers) /\ Quiet
      BY <2>2, <3>1 DEF Blocks
    <3>3. \A j, k \in CmdAt' : tx'[j].cmd = "img" /\ tx'[k].cmd = "img" => j = k
      <4>1. PICK d \in {0, 1} : \A k \in CmdAt' : k + d \in CmdAt /\ tx'[k] = tx[k + d]
        BY DEF NoNewCommand
      <4>2. \A k \in CmdAt' : k \in Nat
        BY DEF CmdAt
      <4>3. ASSUME NEW j \in CmdAt', NEW k \in CmdAt', tx'[j].cmd = "img", tx'[k].cmd = "img"
            PROVE  j = k
        <5>1. j + d = k + d
          BY <3>2, <4>1, <4>3
        <5> QED
          BY <4>2, <5>1
      <4> QED
        BY <4>3
    <3>4. ASSUME NEW k \in 1 .. Len(Answers'), Answers'[k].cmd = "img"
          PROVE  k = Len(Answers') /\ Quiet'
      BY <1>1, <1>6, <3>2, <3>4
    <3> QED
      BY <1>7, <3>1, <3>2, <3>3, <3>4
  <2> QED
    BY <2>3, <2>4, <2>5, <2>6, <2>7 DEF Blocks
<1>11. Ending'
  <2> SUFFICES ASSUME pc[Only] = "end" PROVE Ending'
    BY DEF Ending
  <2> DEFINE i == img[Only]
  <2>1. Ending
    BY DEF LateInv
  <2>2. Filled(i)' /\ (sOpen' => sExpect' >= 1)
    BY <1>3, <2>1 DEF Ending
  <2>3. \A k \in CmdAt' : tx'[k] = EndFrame \/ (tx'[k].cmd = "img" /\ tx'[k].img = i)
    BY <1>2, <2>1 DEF Ending
  <2>4. ASSUME NEW j \in CmdAt', NEW k \in CmdAt', j < k PROVE tx'[j].cmd = "img"
    <3>1. PICK d \in {0, 1} : \A x \in CmdAt' : x + d \in CmdAt /\ tx'[x] = tx[x + d]
      BY DEF NoNewCommand
    <3>2. j \in Nat /\ k \in Nat
      BY DEF CmdAt
    <3>3. j + d < k + d
      BY <2>4, <3>2
    <3> QED
      BY <2>1, <3>1, <3>3 DEF Ending
  <2>5. ASSUME NEW k \in 1 .. Len(Answers'), Answers'[k].cmd = "end"
        PROVE  k = Len(Answers') /\ Quiet'
    BY <1>1, <1>6, <2>1, <2>5 DEF Ending
  <2>6. OkAt("end", 1)' \/ OkAt("end", 2)' => Stored(i)'
    BY <1>3, <1>7, <2>1 DEF Ending
  <2>7. ~Own(i)' => sExpect' = Chunks(i) /\ \A k \in CmdAt' : tx'[k] = EndFrame
    BY <1>2, <1>4, <2>1 DEF Ending
  <2> QED
    BY <2>2, <2>3, <2>4, <2>5, <2>6, <2>7 DEF Ending
<1> QED
  BY <1>1, <1>9, <1>10, <1>11 DEF LateInv

\* A command taken and answered: its answer is the last, and one command at most
\* is left, which is then the one the thread waits for.
LEMMA TakeLine ==
    ASSUME TypeOK, TypeOK', Only \in Uploaders, Few, Newest, tx # <<>>, tx' = Tail(tx),
           Head(tx).cmd \in Cmds,
           UNCHANGED <<pc, img, seq, slot>>, NEW r \in Results, Reply(Head(tx).cmd, r)
    PROVE  /\ Few' /\ Newest'
           /\ Len(Answers) \in {0, 1} /\ Len(Answers') = Len(Answers) + 1
           /\ Len(Answers) = 1 => Answers'[1] = Answers[1] /\ pc[Only] \in Cmds /\ Quiet'
           /\ Answers'[Len(Answers')] = [cmd |-> Head(tx).cmd, res |-> r]
           /\ \A k \in CmdAt' : /\ pc[Only] \in Cmds /\ Len(Answers) = 0 /\ Sent(tx'[k])
                                /\ \A j \in CmdAt' : j = k
           /\ Quiet' /\ pc[Only] \in Cmds => Sent(Head(tx))
<1> DEFINE ack == [cmd |-> Head(tx).cmd, res |-> r]
<1>1. rx \in Seq(Acks) /\ rx' = Append(rx, ack) /\ Len(rx) \in Nat
  BY DEF TypeOK, Reply
<1> HIDE DEF ack
<1>2. Len(rx') = Len(rx) + 1 /\ rx'[Len(rx) + 1] = ack /\ \A k \in 1 .. Len(rx) : rx'[k] = rx[k]
  BY <1>1
<1>3. /\ Len(Answers) \in Nat /\ Len(Answers') = Len(Answers) + 1
      /\ Answers'[Len(Answers')] = ack
      /\ Len(Answers) >= 1 => Answers'[1] = Answers[1]
  <2>1. CASE slot = NoAck
    <3>1. Answers = rx /\ Answers' = rx'
      BY <2>1 DEF Answers
    <3> QED
      BY <1>1, <1>2, <3>1
  <2>2. CASE slot # NoAck
    <3>1. Len(Answers) = Len(rx) + 1 /\ Answers[1] = slot
      BY <2>2, AnswersFacts
    <3>2. Len(Answers') = Len(rx') + 1 /\ Answers'[1] = slot
          /\ \A k \in 1 .. Len(rx') : Answers'[k + 1] = rx'[k]
      BY <2>2, AnswersNext
    <3>3. Len(rx') \in 1 .. Len(rx')
      BY <1>1, <1>2
    <3>4. Answers'[Len(rx') + 1] = rx'[Len(rx')]
      BY <3>2, <3>3
    <3> QED
      BY <1>1, <1>2, <3>1, <3>2, <3>4
  <2> QED
    BY <2>1, <2>2
<1>4. /\ \A k \in CmdAt' : k \in Nat \ {0} /\ k + 1 \in CmdAt /\ tx'[k] = tx[k + 1]
      /\ \A j \in CmdAt : j \in Nat \ {0} /\ (j # 1 => j - 1 \in CmdAt')
      /\ 1 \in CmdAt /\ tx[1] = Head(tx)
  BY TakenCommands
<1>5. ~Quiet /\ (Quiet' <=> CmdAt' = {})
  BY <1>4 DEF Quiet, CmdAt
<1>6. Len(Answers) \in {0, 1}
  <2> DEFINE n == Len(Answers)
  <2>1. n \in Nat /\ n <= 2 /\ n # 2
    BY <1>3, <1>5 DEF Few
  <2> HIDE DEF n
  <2>2. n \in {0, 1}
    BY <2>1
  <2> QED
    BY <2>2 DEF n
<1>60. /\ Len(Answers') \in {1, 2} /\ Len(Answers') <= 2
       /\ Len(Answers') = 1 <=> Len(Answers) = 0
       /\ Len(Answers') = 2 <=> Len(Answers) = 1
  <2> DEFINE n == Len(Answers)
             m == Len(Answers')
  <2>1. n \in {0, 1} /\ m = n + 1
    BY <1>3, <1>6
  <2> HIDE DEF n, m
  <2>2. m \in {1, 2} /\ m <= 2 /\ (m = 1 <=> n = 0) /\ (m = 2 <=> n = 1)
    BY <2>1
  <2> QED
    BY <2>2 DEF n, m
<1>7. Len(Answers) = 1 => pc[Only] \in Cmds /\ Quiet'
  <2> SUFFICES ASSUME Len(Answers) = 1 PROVE pc[Only] \in Cmds /\ Quiet'
    OBVIOUS
  <2>1. pc[Only] \notin Done /\ \A j, k \in CmdAt : j = k
    BY <1>5 DEF Few
  <2>2. pc[Only] \in Cmds
    BY <2>1 DEF TypeOK
  <2>3. CmdAt' = {}
    <3> SUFFICES ASSUME NEW k \in CmdAt' PROVE FALSE
      OBVIOUS
    <3>1. k + 1 = 1 /\ k \in Nat \ {0}
      BY <1>4, <2>1
    <3> QED
      BY <3>1
  <2> QED
    BY <1>5, <2>2, <2>3
<1>8. ASSUME NEW k \in CmdAt'
      PROVE  /\ pc[Only] \in Cmds /\ Len(Answers) = 0 /\ Sent(tx'[k])
             /\ \A j \in CmdAt' : j = k
  <2>1. k + 1 \in CmdAt /\ k + 1 # 1 /\ k \in Nat \ {0}
    BY <1>4
  <2>2. Len(Answers) = 0
    BY <1>5, <1>6, <1>7
  <2>3. pc[Only] \notin Done
    BY <1>4, <2>1 DEF Few
  <2>4. \A j \in CmdAt : j = 1 \/ j = k + 1
    BY <1>4, <2>1 DEF Few
  <2>5. \A j \in CmdAt' : j = k
    <3> SUFFICES ASSUME NEW j \in CmdAt' PROVE j = k
      OBVIOUS
    <3>1. j \in Nat \ {0} /\ (j + 1 = 1 \/ j + 1 = k + 1)
      BY <1>4, <2>4
    <3> QED
      BY <2>1, <3>1
  <2>6. pc[Only] \in Cmds
    BY <2>3 DEF TypeOK
  <2>7. \A j \in CmdAt : j <= k + 1
    BY <2>1, <2>4
  <2>8. Sent(tx[k + 1])
    BY <2>1, <2>6, <2>7 DEF Newest
  <2> QED
    BY <1>4, <2>2, <2>5, <2>6, <2>8
<1>9. Quiet' /\ pc[Only] \in Cmds => Sent(Head(tx))
  <2> SUFFICES ASSUME Quiet', pc[Only] \in Cmds PROVE Sent(Head(tx))
    OBVIOUS
  <2>1. \A j \in CmdAt : j = 1
    BY <1>4, <1>5
  <2>2. \A j \in CmdAt : j <= 1
    BY <2>1
  <2> QED
    BY <1>4, <2>2 DEF Newest
<1>10. Few'
  <2>1. Len(Answers') <= 2 /\ (Len(Answers') = 2 => Quiet')
    BY <1>60, <1>7
  <2>2. \A j, k \in CmdAt' : j = k
    BY <1>8
  <2>3. pc'[Only] \in Done => Len(Answers') <= 1 /\ Quiet'
    <3> SUFFICES ASSUME pc[Only] \in Done PROVE Len(Answers') <= 1 /\ Quiet'
      OBVIOUS
    <3>1. pc[Only] \notin Cmds
      BY DEF Done, Cmds
    <3>2. Len(Answers) = 0 /\ CmdAt' = {}
      BY <1>6, <1>7, <1>8, <3>1
    <3> QED
      BY <1>3, <1>5, <3>2
  <2> QED
    BY <2>1, <2>2, <2>3 DEF Few
<1>11. Newest'
  <2>1. \A k \in CmdAt' : Sent(tx[k])'
    BY <1>8 DEF Sent
  <2>2. Len(Answers') = 2 => Answers'[2].cmd = pc'[Only]
    <3> SUFFICES ASSUME Len(Answers') = 2 PROVE Answers'[2].cmd = pc[Only]
      OBVIOUS
    <3>1. Len(Answers) = 1
      BY <1>60
    <3>2. Sent(Head(tx)) /\ Answers'[2] = ack
      BY <1>3, <1>7, <1>9, <3>1
    <3>3. Head(tx).cmd = pc[Only]
      BY <3>2 DEF Sent, StartFrame, ImgFrame, EndFrame
    <3> QED
      BY <3>2, <3>3 DEF ack
  <2> QED
    BY <2>1, <2>2 DEF Newest
<1>12. Len(Answers) = 1 => Answers'[1] = Answers[1]
  BY <1>3, <1>6
<1> QED
  BY <1>3, <1>6, <1>7, <1>8, <1>9, <1>10, <1>11, <1>12 DEF ack

\* IMGSTART arrives and is refused: no session is opened, and the one that was open
\* is closed or goes on.
LEMMA RefusedLate ==
    ASSUME TypeOK, TypeOK', Only \in Uploaders, LateInv, tx # <<>>, tx' = Tail(tx),
           Head(tx).cmd = "start", UNCHANGED <<pc, img, seq, slot, flash>>,
           Reply("start", "ERR"),
           \/ UNCHANGED <<sOpen, sTotal, sRecv, sExpect, sBase, imgType, typeLost>>
           \/ ~sOpen'
    PROVE  LateInv' /\ CommitStep /\ ResendStep
<1> DEFINE i == img[Only]
           s == seq[Only]
<1>1. /\ Few' /\ Newest'
      /\ Len(Answers) \in {0, 1} /\ Len(Answers') = Len(Answers) + 1
      /\ Len(Answers) = 1 => Answers'[1] = Answers[1] /\ pc[Only] \in Cmds /\ Quiet'
      /\ Answers'[Len(Answers')] = [cmd |-> "start", res |-> "ERR"]
      /\ \A k \in CmdAt' : pc[Only] \in Cmds /\ Sent(tx'[k])
  BY TakeLine DEF LateInv, Cmds, Results
<1>2. /\ 1 \in CmdAt /\ tx[1] = Head(tx) /\ ~Quiet
      /\ \A k \in CmdAt' : k \in Nat \ {0} /\ k + 1 \in CmdAt /\ tx'[k] = tx[k + 1]
  <2>1. /\ \A k \in CmdAt' : k \in Nat \ {0} /\ k + 1 \in CmdAt /\ tx'[k] = tx[k + 1]
        /\ Head(tx).cmd \in Cmds => 1 \in CmdAt /\ tx[1] = Head(tx)
    BY TakenCommands
  <2> QED
    BY <2>1 DEF Quiet, CmdAt, Cmds
<1>3. pc[Only] # "end" /\ pc[Only] # "ok"
  <2>1. pc[Only] = "end" => tx[1] = EndFrame \/ tx[1].cmd = "img"
    BY <1>2 DEF LateInv, Ending
  <2>2. pc[Only] = "ok" => Quiet
    BY DEF LateInv, Between, Done
  <2> QED
    BY <1>2, <2>1, <2>2 DEF EndFrame
<1>4. /\ \A x : Filled(x) => Filled(x)'
      /\ \A x : ~Own(x)' => ~Own(x)
      /\ sOpen' => sOpen /\ sExpect' = sExpect
  <2>1. CASE UNCHANGED <<sOpen, sTotal, sRecv, sExpect, sBase, imgType, typeLost>>
    BY <2>1 DEF Filled, Own, Kind
  <2>2. CASE ~sOpen'
    BY <2>2 DEF Filled, Own, Kind
  <2> QED
    BY <2>1, <2>2
<1>5. \/ Len(Answers) = 0 /\ Len(Answers') = 1
         /\ Answers'[1] = [cmd |-> "start", res |-> "ERR"]
      \/ Len(Answers) = 1 /\ Len(Answers') = 2 /\ Answers'[1] = Answers[1]
         /\ Answers'[2] = [cmd |-> "start", res |-> "ERR"]
  <2> DEFINE n == Len(Answers)
             m == Len(Answers')
  <2>1. n \in {0, 1} /\ m = n + 1
    BY <1>1
  <2> HIDE DEF n, m
  <2>2. (n = 0 /\ m = 1) \/ (n = 1 /\ m = 2)
    BY <2>1
  <2>3. (Len(Answers) = 0 /\ Len(Answers') = 1) \/ (Len(Answers) = 1 /\ Len(Answers') = 2)
    BY <2>2 DEF n, m
  <2> QED
    BY <1>1, <2>3
<1>6. \A c : (OkAt(c, 1)' => OkAt(c, 1)) /\ ~OkAt(c, 2)'
  BY <1>5 DEF OkAt
<1>7. ASSUME pc[Only] \in Done \cup {"start"} PROVE Between'
  <2>1. (\E k \in 1 .. 2 : OkAt("start", k)') =>
            \A x \in Images : (sOpen' => sExpect' = 0) /\ Filled(x)'
    <3>1. (\E k \in 1 .. 2 : OkAt("start", k)') => OkAt("start", 1)
      BY <1>6
    <3> QED
      BY <1>4, <1>7, <3>1 DEF LateInv, Between
  <2>2. \A k \in CmdAt' : tx'[k].cmd = "start"
    <3> SUFFICES ASSUME NEW k \in CmdAt' PROVE tx'[k].cmd = "start"
      OBVIOUS
    <3>1. tx'[k] = StartFrame(i)
      BY <1>1, <1>7 DEF Sent, Cmds, Done
    <3>2. StartFrame(i).cmd = "start"
      BY DEF StartFrame
    <3> QED
      BY <3>1, <3>2
  <2> QED
    BY <1>3, <2>1, <2>2 DEF Between
<1>8. ASSUME pc[Only] = "img" PROVE Blocks'
  <2>1. Blocks
    BY DEF LateInv
  <2>2. Filled(i)'
    BY <1>4, <1>8, <2>1 DEF Blocks
  <2>3. \A k \in CmdAt' : \/ tx'[k] = ImgFrame(i, s) \/ tx'[k] = ImgFrame(i, s - 1)
                          \/ s = 0 /\ tx'[k] = StartFrame(i)
    BY <1>2, <1>8, <2>1 DEF Blocks
  <2>4. \A k \in 1 .. Len(Answers') : Answers'[k].cmd # "end"
    <3>1. CASE Len(Answers') = 1
      BY <1>5, <3>1
    <3>2. CASE Len(Answers') = 2 /\ Answers'[1] = Answers[1] /\ Len(Answers) = 1
      <4>1. Answers[1].cmd # "end"
        BY <1>8, <2>1, <3>2 DEF Blocks
      <4> QED
        BY <1>5, <3>2, <4>1
    <3> QED
      BY <1>5, <3>1, <3>2
  <2>5. sOpen' =>
           /\ sExpect' >= s - 1
           /\ s > 0 => sExpect' >= 1
           /\ OkAt("img", 1)' => sExpect' >= s /\ sExpect' >= 1
           /\ OkAt("img", 2)' => sExpect' >= s + 1
    BY <1>4, <1>6, <1>8, <2>1 DEF Blocks
  <2>6. ~Own(i)' =>
           /\ sExpect' >= s /\ sExpect' <= Chunks(i)
           /\ OkAt("img", 1)' => sExpect' >= s + 1
           /\ \A j, k \in CmdAt' : tx'[j].cmd = "img" /\ tx'[k].cmd = "img" => j = k
           /\ \A k \in 1 .. Len(Answers') :
                  Answers'[k].cmd = "img" => k = Len(Answers') /\ Quiet'
    <3> SUFFICES ASSUME ~Own(i)'
                 PROVE  /\ sExpect' >= s /\ sExpect' <= Chunks(i)
                        /\ OkAt("img", 1)' => sExpect' >= s + 1
                        /\ \A j, k \in CmdAt' : tx'[j].cmd = "img" /\ tx'[k].cmd = "img" => j = k
                        /\ \A k \in 1 .. Len(Answers') : Answers'[k].cmd # "img"
      OBVIOUS
    <3>1. ~Own(i) /\ sExpect' = sExpect
      BY <1>4 DEF Own, Kind
    <3>2. ASSUME NEW j \in CmdAt', NEW k \in CmdAt', tx'[j].cmd = "img", tx'[k].cmd = "img"
          PROVE  j = k
      <4>1. j + 1 = k + 1
        BY <1>2, <1>8, <2>1, <3>1, <3>2 DEF Blocks
      <4> QED
        BY <1>2, <3>2, <4>1
    <3>3. Len(Answers) = 1 => Answers[1].cmd # "img"
      BY <1>2, <1>8, <2>1, <3>1 DEF Blocks
    <3>4. \A k \in 1 .. Len(Answers') : Answers'[k].cmd # "img"
      <4>1. CASE Len(Answers') = 1
        BY <1>5, <4>1
      <4>2. CASE Len(Answers') = 2 /\ Answers'[1] = Answers[1] /\ Len(Answers) = 1
        BY <1>5, <3>3, <4>2
      <4> QED
        BY <1>5, <4>1, <4>2
    <3>5. /\ sExpect' >= s /\ sExpect' <= Chunks(i)
          /\ OkAt("img", 1)' => sExpect' >= s + 1
      BY <1>6, <1>8, <2>1, <3>1 DEF Blocks
    <3> QED
      BY <3>2, <3>4, <3>5
  <2> QED
    BY <2>2, <2>3, <2>4, <2>5, <2>6 DEF Blocks
<1>9. Blocks' /\ Ending' /\ Between'
  <2>1. /\ pc[Only] = "img" \/ Blocks'
        /\ pc[Only] \in Done \cup {"start"} \/ Between'
        /\ pc[Only] \in Done \cup {"start", "img", "end"}
    BY DEF Blocks, Between, TypeOK, Cmds
  <2> QED
    BY <1>3, <1>7, <1>8, <2>1 DEF Ending
<1>10. CommitStep /\ ResendStep
  BY NoCommit DEF ResendStep
<1> QED
  BY <1>1, <1>9, <1>10 DEF LateInv

\* IMGSTART arrives, perhaps with digits of the total or the type lost: the session
\* is fresh, so the answers may count on it.
LEMMA StartLate ==
    ASSUME TypeOK, TypeOK', Only \in Uploaders, Asked, LateInv, tx # <<>>, tx' = Tail(tx),
           Head(tx).cmd = "start", UNCHANGED <<pc, img, seq, slot>>,
           NEW total \in Nat, NEW t \in {Head(tx).type, "wall"},
           typeLost' = (t # Head(tx).type),
           NEW r \in Results, ImgStart(t, total, r), Reply("start", r)
    PROVE  LateInv' /\ CommitStep /\ ResendStep
<1>0. CASE ~sOpen'
  <2>1. r = "ERR" /\ UNCHANGED flash
    BY <1>0 DEF ImgStart
  <2> QED
    BY <1>0, <2>1, RefusedLate
<1> SUFFICES ASSUME sOpen' PROVE LateInv' /\ CommitStep /\ ResendStep
  BY <1>0
<1> DEFINE i == img[Only]
           s == seq[Only]
<1>1. /\ Few' /\ Newest'
      /\ Len(Answers) \in {0, 1} /\ Len(Answers') = Len(Answers) + 1
      /\ Len(Answers) = 1 => Answers'[1] = Answers[1] /\ pc[Only] \in Cmds /\ Quiet'
      /\ Answers'[Len(Answers')] = [cmd |-> "start", res |-> r]
      /\ \A k \in CmdAt' : pc[Only] \in Cmds /\ Sent(tx'[k])
      /\ Quiet' /\ pc[Only] \in Cmds => Sent(Head(tx))
  BY TakeLine DEF LateInv, Cmds
<1>2. PICK j \in Images : Head(tx) = StartFrame(j)
  BY Taken DEF Asked, Kind
<1>3. sExpect' = 0 /\ imgType' = t /\ \A x : Filled(x)'
  <2>1. DevTypeOK /\ t \in Types
    BY HeadFrame DEF TypeOK, Types
  <2>2. sExpect' = 0 /\ imgType' = t
    BY <2>1, StartStored
  <2>3. ASSUME NEW x PROVE Filled(x)'
    BY <2>1, StartStored
  <2> QED
    BY <2>2, <2>3
<1>4. \A x : Filled(x)'
  BY <1>3
<1>5. 1 \in CmdAt /\ tx[1] = Head(tx) /\ ~Quiet
      /\ \A k \in CmdAt' : k + 1 \in CmdAt /\ tx'[k] = tx[k + 1]
  <2>1. /\ \A k \in CmdAt' : k \in Nat \ {0} /\ k + 1 \in CmdAt /\ tx'[k] = tx[k + 1]
        /\ Head(tx).cmd \in Cmds => 1 \in CmdAt /\ tx[1] = Head(tx)
    BY TakenCommands
  <2> QED
    BY <2>1 DEF Quiet, CmdAt, Cmds
<1>6. pc[Only] # "end"
  <2> SUFFICES ASSUME pc[Only] = "end" PROVE FALSE
    OBVIOUS
  <2>1. tx[1] = EndFrame \/ tx[1].cmd = "img"
    BY <1>5 DEF LateInv, Ending
  <2> QED
    BY <1>5, <2>1 DEF EndFrame
<1>7. Between'
  <2>1. pc[Only] # "ok"
    BY <1>5 DEF LateInv, Between, Done
  <2>2. \A k \in CmdAt' : pc[Only] \in Done \cup {"start"} => tx'[k].cmd = "start"
    <3> SUFFICES ASSUME NEW k \in CmdAt', pc[Only] \in Done \cup {"start"}
                 PROVE  tx'[k].cmd = "start"
      OBVIOUS
    <3>1. tx'[k] = StartFrame(i)
      BY <1>1 DEF Sent, Cmds, Done
    <3>2. StartFrame(i).cmd = "start"
      BY DEF StartFrame
    <3> QED
      BY <3>1, <3>2
  <2> QED
    BY <1>3, <1>4, <2>1, <2>2 DEF Between
<1>8. ASSUME pc[Only] = "img" PROVE Blocks'
  <2>1. Blocks
    BY DEF LateInv
  <2>2. tx[1] = StartFrame(i) /\ s = 0
    <3>1. \/ tx[1] = ImgFrame(i, s) \/ tx[1] = ImgFrame(i, s - 1)
          \/ s = 0 /\ tx[1] = StartFrame(i)
      BY <1>5, <1>8, <2>1 DEF Blocks
    <3> QED
      BY <1>5, <3>1 DEF ImgFrame
  <2>3. Kind' = Type(i)
    <3>1. Head(tx).type = Type(i)
      BY <1>5, <2>2 DEF StartFrame
    <3> QED
      BY <1>3, <3>1 DEF Kind, Type
  <2>4. Len(Answers') = 1 /\ Answers'[1].cmd = "start"
    <3>1. Len(Answers) # 1
      <4> SUFFICES ASSUME Len(Answers) = 1 PROVE FALSE
        OBVIOUS
      <4>1. Sent(Head(tx))
        BY <1>1
      <4> QED
        BY <1>8, <4>1 DEF Sent, ImgFrame
    <3>2. Len(Answers) = 0
      BY <1>1, <3>1
    <3> QED
      BY <1>1, <3>2
  <2>5. \A k \in CmdAt' : \/ tx'[k] = ImgFrame(i, s) \/ tx'[k] = ImgFrame(i, s - 1)
                          \/ s = 0 /\ tx'[k] = StartFrame(i)
    BY <1>5, <1>8, <2>1 DEF Blocks
  <2>6. \A k \in 1 .. Len(Answers') : Answers'[k].cmd = "start"
    BY <2>4
  <2>7. ~OkAt("img", 1)' /\ ~OkAt("img", 2)'
    BY <2>4 DEF OkAt
  <2>8. Own(i)'
    BY <2>3 DEF Own, Kind
  <2>9. sExpect' >= s - 1 /\ ~(s > 0)
    BY <1>3, <2>2
  <2> QED
    BY <1>4, <2>5, <2>6, <2>7, <2>8, <2>9 DEF Blocks
<1>9. Blocks' /\ Ending'
  BY <1>6, <1>8 DEF Blocks, Ending
<1>10. CommitStep
  BY NoCommit
<1>11. ResendStep
  BY <1>3 DEF ResendStep
<1> QED
  BY <1>1, <1>7, <1>9, <1>10, <1>11 DEF LateInv

\* What the clock does with a block: take it, or refuse or miss it.
BlockDone(r) ==
    /\ UNCHANGED <<sOpen, sTotal, sBase, imgType, typeLost>>
    /\ sExpect' >= sExpect
    /\ sExpect' = sExpect \/ sExpect' = Head(tx).seq + 1
    /\ r = "OK" => sExpect' >= Head(tx).seq + 1
    /\ \A a \in Images : a = Head(tx).img /\ Filled(a) =>
           Filled(a)' /\ (sExpect' = sExpect => flash' = flash)

\* A block arrives.
LEMMA BlockLate ==
    ASSUME TypeOK, TypeOK', Only \in Uploaders, Asked, LateInv, tx # <<>>, tx' = Tail(tx),
           Head(tx).cmd = "img", UNCHANGED <<pc, img, seq, slot>>, NEW r \in Results,
           BlockDone(r), Reply("img", r)
    PROVE  LateInv' /\ CommitStep /\ ResendStep
<1> DEFINE i == img[Only]
           s == seq[Only]
<1>1. /\ Few' /\ Newest'
      /\ Len(Answers) \in {0, 1} /\ Len(Answers') = Len(Answers) + 1
      /\ Len(Answers) = 1 => Answers'[1] = Answers[1] /\ pc[Only] \in Cmds /\ Quiet'
      /\ Answers'[Len(Answers')] = [cmd |-> "img", res |-> r]
      /\ \A k \in CmdAt' : /\ pc[Only] \in Cmds /\ Len(Answers) = 0 /\ Sent(tx'[k])
                           /\ \A j \in CmdAt' : j = k
      /\ Quiet' /\ pc[Only] \in Cmds => Sent(Head(tx))
  BY TakeLine DEF LateInv, Cmds
<1>2. /\ 1 \in CmdAt /\ tx[1] = Head(tx) /\ ~Quiet
      /\ \A k \in CmdAt' : k \in Nat \ {0} /\ k + 1 \in CmdAt /\ tx'[k] = tx[k + 1]
      /\ Quiet' <=> CmdAt' = {}
  <2>1. /\ \A k \in CmdAt' : k \in Nat \ {0} /\ k + 1 \in CmdAt /\ tx'[k] = tx[k + 1]
        /\ Head(tx).cmd \in Cmds => 1 \in CmdAt /\ tx[1] = Head(tx)
    BY TakenCommands
  <2> QED
    BY <2>1 DEF Quiet, CmdAt, Cmds
<1>3. \/ Len(Answers) = 0 /\ Len(Answers') = 1 /\ Answers'[1] = [cmd |-> "img", res |-> r]
      \/ /\ Len(Answers) = 1 /\ Len(Answers') = 2 /\ Answers'[1] = Answers[1]
         /\ Answers'[2] = [cmd |-> "img", res |-> r] /\ Sent(Head(tx)) /\ Quiet'
  <2> DEFINE n == Len(Answers)
             m == Len(Answers')
  <2>1. n \in {0, 1} /\ m = n + 1
    BY <1>1
  <2> HIDE DEF n, m
  <2>2. (n = 0 /\ m = 1) \/ (n = 1 /\ m = 2)
    BY <2>1
  <2>3. (Len(Answers) = 0 /\ Len(Answers') = 1) \/ (Len(Answers) = 1 /\ Len(Answers') = 2)
    BY <2>2 DEF n, m
  <2> QED
    BY <1>1, <2>3
<1>4. /\ UNCHANGED <<sOpen, sTotal, sBase, imgType, typeLost>> /\ sExpect \in Nat /\ sExpect' \in Nat
      /\ s \in Nat /\ Chunks(i) \in Nat /\ Head(tx).img \in Images /\ Head(tx).seq \in Nat
  BY HeadFrame, ChunksFacts DEF BlockDone, TypeOK, DevTypeOK
<1>5. ASSUME pc[Only] \in Done \cup {"start"} PROVE Between' /\ CommitStep /\ ResendStep
  <2>1. PICK a \in Images : /\ Filled(a) /\ Own(a)
                            /\ \A k \in CmdAt : tx[k].cmd = "img" => tx[k].img = a
    BY <1>2, <1>5 DEF LateInv, Between
  <2>2. Head(tx).img = a
    BY <1>2, <2>1
  <2>3. Filled(a)' /\ Own(a)' /\ (sExpect' = sExpect => flash' = flash)
    BY <1>4, <2>1, <2>2 DEF BlockDone, Own, Kind
  <2>4. \A k \in CmdAt' : tx'[k].cmd = "img" => tx'[k].img = a
    BY <1>2, <2>1
  <2>5. Len(Answers) = 0
    <3>1. ~Sent(Head(tx))
      BY <1>5 DEF Sent, StartFrame, Done
    <3> QED
      BY <1>3, <3>1
  <2>6. ~OkAt("start", 1)' /\ ~OkAt("start", 2)'
    <3>1. Len(Answers') = 1 /\ Answers'[1].cmd = "img"
      BY <1>3, <2>5
    <3> QED
      BY <3>1 DEF OkAt
  <2>7. pc[Only] # "ok"
    BY <1>2, <1>5 DEF LateInv, Between
  <2>8. \A k \in 1 .. 2 : ~OkAt("start", k)'
    BY <2>6
  <2>9. Between'
    BY <2>3, <2>4, <2>7, <2>8 DEF Between
  <2> QED
    BY <1>3, <1>4, <2>3, <2>9, NoCommit DEF ResendStep
<1>6. ASSUME pc[Only] = "img" PROVE Blocks' /\ CommitStep /\ ResendStep
  <2>1. Blocks /\ s < Chunks(i)
    BY <1>6 DEF LateInv, Asked
  <2>2. Head(tx).img = i /\ (Head(tx).seq = s \/ Head(tx).seq = s - 1)
    <3>1. \/ tx[1] = ImgFrame(i, s) \/ tx[1] = ImgFrame(i, s - 1)
          \/ s = 0 /\ tx[1] = StartFrame(i)
      BY <1>2, <1>6, <2>1 DEF Blocks
    <3> QED
      BY <1>2, <3>1 DEF ImgFrame, StartFrame
  <2>3. Filled(i)' /\ (sExpect' = sExpect => flash' = flash)
    BY <1>6, <2>1, <2>2, <1>4 DEF BlockDone, Blocks, Filled
  <2>4. \A k \in CmdAt' : \/ tx'[k] = ImgFrame(i, s) \/ tx'[k] = ImgFrame(i, s - 1)
                          \/ s = 0 /\ tx'[k] = StartFrame(i)
    BY <1>2, <1>6, <2>1 DEF Blocks
  <2>5. \A k \in 1 .. Len(Answers') : Answers'[k].cmd # "end"
    <3>1. Len(Answers) = 1 => Answers[1].cmd # "end"
      BY <1>6, <2>1 DEF Blocks
    <3>2. Len(Answers') = 1 => Answers'[1].cmd = "img"
      BY <1>3
    <3>3. Len(Answers') = 2 => Answers'[1].cmd # "end" /\ Answers'[2].cmd = "img"
      BY <1>3, <3>1
    <3>4. Len(Answers') = 1 \/ Len(Answers') = 2
      BY <1>3
    <3> QED
      BY <3>2, <3>3, <3>4
  <2>6. Sent(Head(tx)) => Head(tx).seq = s
    BY <1>6 DEF Sent, ImgFrame
  <2>7. ASSUME sOpen'
        PROVE  /\ sExpect' >= s - 1
               /\ s > 0 => sExpect' >= 1
               /\ OkAt("img", 1)' => sExpect' >= s /\ sExpect' >= 1
               /\ OkAt("img", 2)' => sExpect' >= s + 1
    <3>1. /\ sExpect >= s - 1
          /\ s > 0 => sExpect >= 1
          /\ OkAt("img", 1) => sExpect >= s /\ sExpect >= 1
      BY <1>4, <1>6, <2>1, <2>7 DEF Blocks
    <3>2. sExpect' >= sExpect /\ (r = "OK" => sExpect' >= Head(tx).seq + 1)
      BY DEF BlockDone
    <3>3. OkAt("img", 1)' => OkAt("img", 1) \/ r = "OK"
      BY <1>3 DEF OkAt
    <3>4. OkAt("img", 2)' => r = "OK" /\ Head(tx).seq = s
      BY <1>3, <2>6 DEF OkAt
    <3> HIDE DEF s
    <3>5. r = "OK" => sExpect' >= s /\ sExpect' >= 1
      BY <1>4, <2>2, <3>2
    <3> QED
      BY <1>4, <3>1, <3>2, <3>3, <3>4, <3>5
  <2>8. ASSUME ~Own(i)'
        PROVE  /\ sExpect' >= s /\ sExpect' <= Chunks(i)
               /\ OkAt("img", 1)' => sExpect' >= s + 1
               /\ \A j, k \in CmdAt' : tx'[j].cmd = "img" /\ tx'[k].cmd = "img" => j = k
               /\ \A k \in 1 .. Len(Answers') :
                      Answers'[k].cmd = "img" => k = Len(Answers') /\ Quiet'
    <3>1. /\ sExpect >= s /\ sExpect <= Chunks(i)
          /\ \A j, k \in CmdAt : tx[j].cmd = "img" /\ tx[k].cmd = "img" => j = k
          /\ \A k \in 1 .. Len(Answers) : Answers[k].cmd = "img" => Quiet
      BY <1>4, <1>6, <2>1, <2>8 DEF Blocks, Own, Kind
    <3>2. CmdAt' = {} /\ Quiet'
      <4> SUFFICES ASSUME NEW k \in CmdAt' PROVE FALSE
        BY <1>2
      <4>0. tx'[k] = ImgFrame(i, s)
        BY <1>1, <1>6 DEF Sent
      <4>00. ImgFrame(i, s).cmd = "img"
        BY DEF ImgFrame
      <4>1. tx'[k].cmd = "img"
        BY <4>0, <4>00
      <4>2. k + 1 = 1 /\ k \in Nat \ {0}
        BY <1>2, <3>1, <4>1
      <4> QED
        BY <4>2
    <3>3. Sent(Head(tx)) /\ Head(tx).seq = s
      BY <1>1, <1>6, <2>6, <3>2 DEF Cmds
    <3>4. Len(Answers) = 1 => Answers[1].cmd # "img"
      BY <1>2, <3>1
    <3>5. OkAt("img", 1)' => r = "OK"
      BY <1>3, <3>4 DEF OkAt
    <3>6. \A k \in 1 .. Len(Answers') : Answers'[k].cmd = "img" => k = Len(Answers')
      <4>1. CASE Len(Answers') = 1
        BY <4>1
      <4>2. CASE Len(Answers') = 2 /\ Answers'[1] = Answers[1] /\ Len(Answers) = 1
        BY <3>4, <4>2
      <4> QED
        BY <1>3, <4>1, <4>2
    <3>7. sExpect' >= sExpect /\ (r = "OK" => sExpect' >= s + 1)
          /\ (sExpect' = sExpect \/ sExpect' = s + 1)
      BY <3>3 DEF BlockDone
    <3> HIDE DEF s
    <3>8. sExpect' >= s /\ sExpect' <= Chunks(i)
      BY <1>4, <2>1, <3>1, <3>7
    <3> QED
      BY <3>2, <3>5, <3>6, <3>7, <3>8
  <2>9. Blocks'
    BY <2>3, <2>4, <2>5, <2>7, <2>8 DEF Blocks
  <2> QED
    BY <1>3, <1>4, <2>3, <2>9, NoCommit DEF ResendStep
<1>7. ASSUME pc[Only] = "end" PROVE Ending' /\ CommitStep /\ ResendStep
  <2>1. Ending
    BY DEF LateInv
  <2>2. Head(tx).img = i /\ tx[1] # EndFrame
    BY <1>2, <1>7, <2>1 DEF Ending, EndFrame
  <2>3. Filled(i)' /\ (sExpect' = sExpect => flash' = flash)
    BY <1>7, <2>1, <2>2, <1>4 DEF BlockDone, Ending, Filled
  <2>4. Own(i)'
    BY <1>2, <1>4, <1>7, <2>1, <2>2 DEF Ending, Own, Kind
  <2>5. Len(Answers) = 0
    <3>1. ~Sent(Head(tx))
      BY <1>7 DEF Sent, EndFrame
    <3> QED
      BY <1>3, <3>1
  <2>6. Len(Answers') = 1 /\ Answers'[1] = [cmd |-> "img", res |-> r]
    BY <1>3, <2>5
  <2>7. \A k \in 1 .. Len(Answers') : Answers'[k].cmd = "img"
    BY <2>6
  <2>8. ~OkAt("end", 1)' /\ ~OkAt("end", 2)'
    BY <2>6 DEF OkAt
  <2>9. \A k \in CmdAt' : tx'[k] = EndFrame \/ (tx'[k].cmd = "img" /\ tx'[k].img = i)
    BY <1>2, <1>7, <2>1 DEF Ending
  <2>10. \A j, k \in CmdAt' : ~(j < k)
    BY <1>1, <1>2
  <2>11. sOpen' => sExpect' >= 1
    BY <1>4, <1>7, <2>1 DEF Ending, BlockDone
  <2>12. Ending'
    BY <2>3, <2>4, <2>7, <2>8, <2>9, <2>10, <2>11 DEF Ending
  <2> QED
    BY <1>4, <2>3, <2>12, NoCommit DEF ResendStep
<1>8. pc[Only] \in Done \cup {"start"} \/ pc[Only] = "img" \/ pc[Only] = "end"
  BY DEF TypeOK, Cmds
<1>9. (pc[Only] = "img" \/ Blocks') /\ (pc[Only] = "end" \/ Ending')
      /\ (pc[Only] \in Done \cup {"start"} \/ Between')
  BY DEF Blocks, Ending, Between
<1>10. Between' /\ Blocks' /\ Ending'
  BY <1>5, <1>6, <1>7, <1>9
<1> QED
  BY <1>1, <1>5, <1>6, <1>7, <1>8, <1>10 DEF LateInv

\* A session complete with something in it holds the image it was asked for.
LEMMA CompleteHolds ==
    ASSUME DevTypeOK, Asked, NEW a \in Images, Filled(a), sOpen, sRecv = sTotal, sTotal > 0
    PROVE  /\ Own(a) => Stored(a) /\ HoldsAt(a, imgType)
           /\ \E j \in Images : /\ Type(j) = Kind /\ sTotal = Chunks(j) * Chunk
                                /\ sTotal = sExpect * Chunk
<1>1. /\ sTotal = sExpect * Chunk /\ sBase = Base(imgType)
      /\ \A o \in 0 .. sTotal - 1 : flash[sBase + o] = DataAt(a, o)
      /\ sExpect \in Nat /\ Chunk \in Nat \ {0} /\ sTotal \in Nat
  BY SizesAssumption DEF Filled, Asked, DevTypeOK
<1>2. PICK j \in Images : /\ Type(j) = Kind
                          /\ sTotal = PaddedSize(j) \/ sTotal = 0 \/ sTotal % Chunk # 0
  BY DEF Asked
<1>3. sTotal % Chunk = 0
  BY <1>1
<1>4. sTotal = PaddedSize(j) /\ PaddedSize(j) = Chunks(j) * Chunk
      /\ Size(j) \in Nat /\ Size(j) <= sTotal
  BY <1>2, <1>3, ChunksFacts
<1>5. ASSUME Own(a) PROVE Stored(a) /\ HoldsAt(a, imgType)
  <2>1. Type(a) = Kind /\ Size(a) = Size(j)
    BY <1>2, <1>5 DEF Own, Type, Size, Kind
  <2>2. Place(a) = imgType
    BY <2>1 DEF Place, Kind, Asked
  <2>3. ASSUME NEW o \in 0 .. Size(a) - 1 PROVE flash[Base(imgType) + o] = a
    <3>1. o \in 0 .. sTotal - 1 /\ o < Size(a)
      BY <1>1, <1>4, <2>1
    <3> QED
      BY <1>1, <3>1 DEF DataAt
  <2> QED
    BY <2>2, <2>3 DEF Stored, HoldsAt
<1> QED
  BY <1>1, <1>2, <1>4, <1>5

\* IMGEND arrives: if the session is complete it is the image's own.
LEMMA EndLate ==
    ASSUME KindsDiffer, TypeOK, TypeOK', Only \in Uploaders, Asked, LateInv,
           tx # <<>>, tx' = Tail(tx),
           Head(tx).cmd = "end", UNCHANGED <<pc, img, seq, slot>>, NEW r \in Results,
           ImgEnd(r), Reply("end", r), UNCHANGED typeLost
    PROVE  LateInv' /\ CommitStep /\ ResendStep
<1> DEFINE i == img[Only]
<1>1. /\ Few' /\ Newest'
      /\ Len(Answers) \in {0, 1} /\ Len(Answers') = Len(Answers) + 1
      /\ Len(Answers) = 1 => Answers'[1] = Answers[1] /\ pc[Only] \in Cmds /\ Quiet'
      /\ Answers'[Len(Answers')] = [cmd |-> "end", res |-> r]
      /\ \A k \in CmdAt' : pc[Only] \in Cmds /\ Sent(tx'[k])
      /\ Quiet' /\ pc[Only] \in Cmds => Sent(Head(tx))
  BY TakeLine DEF LateInv, Cmds
<1>2. /\ 1 \in CmdAt /\ tx[1] = Head(tx) /\ ~Quiet
      /\ \A k \in CmdAt' : k \in Nat \ {0} /\ k + 1 \in CmdAt /\ tx'[k] = tx[k + 1]
      /\ Quiet' <=> CmdAt' = {}
  <2>1. /\ \A k \in CmdAt' : k \in Nat \ {0} /\ k + 1 \in CmdAt /\ tx'[k] = tx[k + 1]
        /\ Head(tx).cmd \in Cmds => 1 \in CmdAt /\ tx[1] = Head(tx)
    BY TakenCommands
  <2> QED
    BY <2>1 DEF Quiet, CmdAt, Cmds
<1>3. \/ Len(Answers) = 0 /\ Len(Answers') = 1 /\ Answers'[1] = [cmd |-> "end", res |-> r]
      \/ /\ Len(Answers) = 1 /\ Len(Answers') = 2 /\ Answers'[1] = Answers[1]
         /\ Answers'[2] = [cmd |-> "end", res |-> r] /\ Sent(Head(tx)) /\ Quiet'
  <2> DEFINE n == Len(Answers)
             m == Len(Answers')
  <2>1. n \in {0, 1} /\ m = n + 1
    BY <1>1
  <2> HIDE DEF n, m
  <2>2. (n = 0 /\ m = 1) \/ (n = 1 /\ m = 2)
    BY <2>1
  <2>3. (Len(Answers) = 0 /\ Len(Answers') = 1) \/ (Len(Answers) = 1 /\ Len(Answers') = 2)
    BY <2>2 DEF n, m
  <2> QED
    BY <1>1, <2>3
<1>4. /\ UNCHANGED <<flash, sTotal, sRecv, sExpect, sBase, imgType, typeLost, sOpen>> \/ ~sOpen'
      /\ UNCHANGED <<flash, sTotal, sRecv, sExpect, sBase, imgType, typeLost>>
      /\ r = "OK" => sOpen /\ ~sOpen' /\ sRecv = sTotal
      /\ r # "OK" => UNCHANGED sOpen
      /\ sExpect \in Nat /\ sTotal \in Nat /\ i \in Images
  BY DEF ImgEnd, Finishes, TypeOK, DevTypeOK
<1>5. ResendStep
  BY <1>4 DEF ResendStep
<1>6. /\ \A x : Filled(x) => Filled(x)'
      /\ \A x : Own(x) => Own(x)'
      /\ \A x : Stored(x) => Stored(x)'
  BY <1>4 DEF Filled, Own, Kind, Stored, HoldsAt, Place
<1>7. pc[Only] # "img"
  <2> SUFFICES ASSUME pc[Only] = "img" PROVE FALSE
    OBVIOUS
  <2>1. \/ tx[1] = ImgFrame(i, seq[Only]) \/ tx[1] = ImgFrame(i, seq[Only] - 1)
        \/ tx[1] = StartFrame(i)
    BY <1>2 DEF LateInv, Blocks
  <2> QED
    BY <1>2, <2>1 DEF ImgFrame, StartFrame
<1>8. ASSUME pc[Only] \in Done \cup {"start"} PROVE Between' /\ CommitStep
  <2>1. PICK a \in Images : Filled(a) /\ Own(a)
    BY <1>2, <1>8 DEF LateInv, Between
  <2>2. CommitStep
    <3> SUFFICES ASSUME sOpen, ~sOpen', sTotal > 0
                 PROVE  \E x \in Images : Type(x) = Kind /\ HoldsAt(x, imgType)
      BY DEF CommitStep, Commits
    <3>1. r = "OK" /\ sRecv = sTotal
      BY <1>4
    <3>2. HoldsAt(a, imgType) /\ Type(a) = Kind
      BY <2>1, <3>1, CompleteHolds DEF TypeOK, Own, Kind
    <3> QED
      BY <3>2
  <2>3. Len(Answers) = 0
    <3>1. ~Sent(Head(tx))
      BY <1>8 DEF Sent, StartFrame, Done
    <3> QED
      BY <1>3, <3>1
  <2>4. Len(Answers') = 1 /\ Answers'[1].cmd = "end"
    BY <1>3, <2>3
  <2>5. \A k \in 1 .. 2 : ~OkAt("start", k)'
    BY <2>4 DEF OkAt
  <2>6. \A k \in CmdAt' : tx'[k].cmd = "start"
    <3> SUFFICES ASSUME NEW k \in CmdAt' PROVE tx'[k].cmd = "start"
      OBVIOUS
    <3>1. tx'[k] = StartFrame(i)
      BY <1>1, <1>8 DEF Sent, Cmds, Done
    <3>2. StartFrame(i).cmd = "start"
      BY DEF StartFrame
    <3> QED
      BY <3>1, <3>2
  <2>7. pc[Only] # "ok"
    BY <1>2, <1>8 DEF LateInv, Between
  <2> QED
    BY <2>2, <2>5, <2>6, <2>7 DEF Between
<1>9. ASSUME pc[Only] = "end" PROVE Ending' /\ CommitStep
  <2>1. Ending
    BY DEF LateInv
  <2>2. CmdAt' = {} /\ Quiet'
    <3> SUFFICES ASSUME NEW k \in CmdAt' PROVE FALSE
      BY <1>2
    <3>1. k + 1 \in CmdAt /\ 1 < k + 1
      BY <1>2
    <3>2. tx[1].cmd = "img"
      BY <1>2, <1>9, <2>1, <3>1 DEF Ending
    <3> QED
      BY <1>2, <3>2
  <2>3. Filled(i)' /\ (~Own(i)' => ~Own(i))
    BY <1>4, <1>6, <1>9, <2>1 DEF Ending, Filled, Own, Kind
  <2>4. ASSUME r = "OK" PROVE Stored(i) /\ CommitStep
    <3>1. /\ sOpen /\ sRecv = sTotal /\ Filled(i) /\ sExpect >= 1
          /\ ~Own(i) => sExpect = Chunks(i)
      BY <1>4, <1>9, <2>1, <2>4 DEF Ending
    <3>2. sTotal = sExpect * Chunk /\ Chunk \in Nat \ {0}
      BY <3>1, SizesAssumption DEF Filled
    <3>3. sTotal > 0
      BY <1>4, <3>1, <3>2
    <3>4. /\ Own(i) => Stored(i) /\ HoldsAt(i, imgType)
          /\ \E j \in Images : Type(j) = Kind /\ sTotal = Chunks(j) * Chunk
      BY <1>4, <3>1, <3>3, CompleteHolds DEF TypeOK
    <3>5. Own(i)
      <4> SUFFICES ASSUME ~Own(i) PROVE FALSE
        OBVIOUS
      <4>1. PICK j \in Images : Type(j) = Kind /\ sTotal = Chunks(j) * Chunk
        BY <3>4
      <4>2. Chunks(j) \in Nat /\ Chunks(i) \in Nat
        BY <1>4, <4>1, ChunksFacts
      <4>3. Chunks(i) * Chunk = Chunks(j) * Chunk
        BY <3>1, <3>2, <4>1
      <4>4. Chunks(i) = Chunks(j)
        BY <3>2, <4>2, <4>3
      <4>5. Type(i) # Type(j)
        BY <4>1 DEF Own, Kind
      <4> QED
        BY <1>4, <4>4, <4>5 DEF KindsDiffer
    <3>6. Stored(i) /\ HoldsAt(i, imgType) /\ Type(i) = Kind
      BY <3>1, <3>4, <3>5 DEF Own, Kind
    <3> QED
      BY <1>4, <3>6 DEF CommitStep
  <2>5. CommitStep
    <3>1. CASE r = "OK"
      BY <2>4, <3>1
    <3>2. CASE r # "OK"
      BY <1>4, <3>2, NoCommit
    <3> QED
      BY <3>1, <3>2
  <2>6. Len(Answers) = 1 => Answers[1].cmd # "end"
    BY <1>2, <1>9, <2>1 DEF Ending
  <2>7. \A k \in 1 .. Len(Answers') : Answers'[k].cmd = "end" => k = Len(Answers')
    <3>1. CASE Len(Answers') = 1
      BY <3>1
    <3>2. CASE Len(Answers') = 2 /\ Answers'[1] = Answers[1] /\ Len(Answers) = 1
      BY <2>6, <3>2
    <3> QED
      BY <1>3, <3>1, <3>2
  <2>8. OkAt("end", 1)' \/ OkAt("end", 2)' => r = "OK"
    <3>1. OkAt("end", 1)' => r = "OK"
      BY <1>3, <2>6 DEF OkAt
    <3>2. OkAt("end", 2)' => r = "OK"
      BY <1>3 DEF OkAt
    <3> QED
      BY <3>1, <3>2
  <2>9. OkAt("end", 1)' \/ OkAt("end", 2)' => Stored(i)'
    BY <1>4, <2>4, <2>8 DEF Stored, HoldsAt, Place
  <2>10. (sOpen' => sExpect' >= 1) /\ (~Own(i)' => sExpect' = Chunks(i))
    <3>1. sOpen' => sOpen
      BY <1>4
    <3> QED
      BY <1>4, <1>9, <2>1, <2>3, <3>1 DEF Ending
  <2>11. Ending'
    BY <2>2, <2>3, <2>7, <2>9, <2>10 DEF Ending
  <2> QED
    BY <2>5, <2>11
<1>10. pc[Only] \in Done \cup {"start"} \/ pc[Only] = "end"
  BY <1>7 DEF TypeOK, Cmds
<1>11. Between' /\ Blocks' /\ Ending'
  <2>1. /\ pc[Only] = "img" \/ Blocks'
        /\ pc[Only] = "end" \/ Ending'
        /\ pc[Only] \in Done \cup {"start"} \/ Between'
    BY DEF Blocks, Ending, Between
  <2> QED
    BY <1>7, <1>8, <1>9, <2>1
<1> QED
  BY <1>1, <1>5, <1>8, <1>9, <1>10, <1>11 DEF LateInv

\* A frame arrives.
LEMMA ReceiveLate ==
    ASSUME KindsDiffer, TypeOK, TypeOK', Only \in Uploaders, Asked, LateInv, Receive
    PROVE  LateInv' /\ CommitStep /\ ResendStep
<1>1. tx # <<>> /\ tx' = Tail(tx) /\ UNCHANGED <<pc, img, seq, slot>>
  BY DEF Receive, thread
<1>2. ASSUME NEW r \in Results, Head(tx).cmd = "start",
             ImgStart(Head(tx).type, Head(tx).total, r), Reply("start", r), ~typeLost'
      PROVE  LateInv' /\ CommitStep /\ ResendStep
  <2>1. Head(tx).total \in Nat /\ typeLost' = (Head(tx).type # Head(tx).type)
    BY <1>1, <1>2, HeadFrame DEF Receive
  <2> QED
    BY <1>1, <1>2, <2>1, StartLate
<1>3. ASSUME NEW r \in Results, Head(tx).cmd = "img",
             ImgChunk(Head(tx).seq, Head(tx).img, r), Reply("img", r), UNCHANGED typeLost
      PROVE  LateInv' /\ CommitStep /\ ResendStep
  <2>1. Head(tx).img \in Images /\ Head(tx).seq \in Nat /\ DevTypeOK
    BY <1>1, <1>3, HeadFrame DEF TypeOK
  <2>2. UNCHANGED <<sOpen, sTotal, sBase, imgType, typeLost>>
    BY <1>3 DEF ImgChunk
  <2>3. /\ sExpect' >= sExpect
        /\ sExpect' = sExpect \/ sExpect' = Head(tx).seq + 1
        /\ r = "OK" => sExpect' >= Head(tx).seq + 1
    BY <1>3, <2>1 DEF ImgChunk, Accepts, DevTypeOK
  <2>4. ASSUME NEW a \in Images, a = Head(tx).img, Filled(a)
        PROVE  Filled(a)' /\ (sExpect' = sExpect => flash' = flash)
    BY <1>3, <2>1, <2>4, FilledStored
  <2>5. BlockDone(r)
    BY <2>2, <2>3, <2>4 DEF BlockDone
  <2> QED
    BY <1>1, <1>3, <2>5, BlockLate
<1>4. ASSUME NEW r \in Results, Head(tx).cmd = "end", ImgEnd(r), Reply("end", r),
             UNCHANGED typeLost
      PROVE  LateInv' /\ CommitStep /\ ResendStep
  BY <1>1, <1>4, EndLate
<1>5. ASSUME UNCHANGED <<flash, session, rx, typeLost>>
      PROVE  LateInv' /\ CommitStep /\ ResendStep
  <2>1. UNCHANGED <<flash, sOpen, sTotal, sRecv, sExpect, sBase, imgType, typeLost>>
    BY <1>5 DEF session
  <2>2. Fewer
    BY <1>1, <1>5 DEF Fewer, Answers
  <2>3. NoNewCommand
    BY <1>1, TakenNoNew
  <2> QED
    BY <1>1, <2>1, <2>2, <2>3, LessLate, NoCommit DEF ResendStep
<1>6. typeLost \in BOOLEAN
  BY DEF TypeOK
<1> QED
  BY <1>2, <1>3, <1>4, <1>5, <1>6 DEF Receive, BootClr, BootImg

\* A fault of the link, or a reset of the clock.
LEMMA FaultLate ==
    ASSUME TypeOK, TypeOK', Only \in Uploaders, Asked, LateInv,
           LoseFrame \/ GarbleFrame \/ GarbleStart \/ LoseAck \/ Reset
    PROVE  LateInv' /\ CommitStep /\ ResendStep
<1>0. UNCHANGED <<pc, img, seq, slot>> /\ Len(Answers) <= 2
  BY DEF LateInv, Few, LoseFrame, GarbleFrame, GarbleStart, LoseAck, Reset, thread
<1>1. UNCHANGED <<devVars, typeLost>> => /\ CommitStep /\ ResendStep
                           /\ UNCHANGED <<flash, sOpen, sTotal, sRecv, sExpect, sBase, imgType, typeLost>>
  BY NoCommit DEF devVars, session, ResendStep
<1>2. CASE LoseFrame
  <2>1. Fewer /\ NoNewCommand
    BY <1>0, <1>2, TakenNoNew DEF LoseFrame, Fewer, Answers
  <2> QED
    BY <1>0, <1>1, <1>2, <2>1, LessLate DEF LoseFrame
<1>3. CASE GarbleFrame
  <2>0. CASE Head(tx).cmd = "start"
    BY <1>0, <1>1, <1>3, <2>0, RefusedLate DEF GarbleFrame
  <2> SUFFICES ASSUME Head(tx).cmd = "img" PROVE LateInv' /\ CommitStep /\ ResendStep
    BY <1>3, <2>0 DEF GarbleFrame
  <2>1. tx # <<>> /\ tx' = Tail(tx) /\ Head(tx).cmd = "img" /\ Reply("img", "ERR")
        /\ UNCHANGED <<flash, sOpen, sTotal, sRecv, sExpect, sBase, imgType, typeLost>>
    BY <1>1, <1>3 DEF GarbleFrame
  <2>2. \A a : Filled(a) => Filled(a)'
    BY <2>1 DEF Filled
  <2>3. BlockDone("ERR") /\ "ERR" \in Results
    BY <2>1, <2>2 DEF BlockDone, TypeOK, DevTypeOK, Results
  <2> QED
    BY <1>0, <2>1, <2>3, BlockLate
<1>4. CASE GarbleStart
  <2>1. PICK total \in GarbledTotals \cup {Head(tx).total}, t \in {Head(tx).type, "wall"},
             r \in Results :
             ImgStart(t, total, r) /\ Reply("start", r) /\ typeLost' = (t # Head(tx).type)
    BY <1>4 DEF GarbleStart
  <2>2. total \in Nat
    BY <1>4, <2>1, HeadFrame, GarbledAssumption DEF GarbleStart
  <2> QED
    BY <1>0, <1>4, <2>1, <2>2, StartLate DEF GarbleStart
<1>5. CASE LoseAck
  <2>1. Fewer /\ NoNewCommand
    BY <1>0, <1>5, LoseAckFewer, SameNoNew DEF LoseAck
  <2> QED
    BY <1>0, <1>1, <1>5, <2>1, LessLate DEF LoseAck
<1>6. CASE Reset
  <2>1. ~sOpen' /\ UNCHANGED <<flash, tx, rx, typeLost>>
    BY <1>6 DEF Reset, DevReset
  <2>2. Fewer /\ NoNewCommand
    BY <1>0, <2>1, SameNoNew DEF Fewer, Answers
  <2>3. LateInv'
    BY <1>0, <2>1, <2>2, LessLate
  <2> QED
    BY <2>1, <2>3, NoCommit DEF ResendStep
<1> QED
  BY <1>2, <1>3, <1>4, <1>5, <1>6

\* An answer reaches the waiter, a button is pressed, or nothing happens.
LEMMA ElseLate ==
    ASSUME TypeOK, TypeOK', Only \in Uploaders, LateInv,
           \/ Notify
           \/ \E f \in {ClrFrame, OnFrame(TRUE), OnFrame(FALSE)} : Click(f)
           \/ UNCHANGED vars
    PROVE  LateInv' /\ CommitStep /\ ResendStep
<1>0. Len(Answers) <= 2
  BY DEF LateInv, Few
<1>1. UNCHANGED <<devVars, typeLost>> => /\ CommitStep /\ ResendStep
                           /\ UNCHANGED <<flash, sOpen, sTotal, sRecv, sExpect, sBase, imgType, typeLost>>
  BY NoCommit DEF devVars, session, ResendStep
<1>2. CASE Notify
  <2>1. Fewer /\ NoNewCommand
    BY <1>0, <1>2, NotifyFewer, SameNoNew DEF Notify
  <2> QED
    BY <1>1, <1>2, <2>1, LessLate DEF Notify, thread
<1>3. ASSUME NEW f \in {ClrFrame, OnFrame(TRUE), OnFrame(FALSE)}, Click(f)
      PROVE  LateInv' /\ CommitStep /\ ResendStep
  <2>1. f \in Frames /\ f.cmd \notin Cmds
    BY DEF ClrFrame, OnFrame, Frames, Cmds
  <2>2. Send(f) /\ UNCHANGED <<devVars, pc, img, seq, slot, rx, typeLost>>
    BY <1>3 DEF Click, thread
  <2>3. Fewer /\ NoNewCommand
    BY <2>1, <2>2, ButtonNoNew DEF Fewer, Answers
  <2> QED
    BY <1>1, <2>2, <2>3, LessLate
<1>4. CASE UNCHANGED vars
  <2>1. UNCHANGED <<devVars, pc, img, seq, slot, tx, rx, typeLost>>
    BY <1>4 DEF vars, thread
  <2>2. Fewer /\ NoNewCommand
    BY <2>1, SameNoNew DEF Fewer, Answers
  <2> QED
    BY <1>1, <2>1, <2>2, LessLate
<1> QED
  BY <1>2, <1>3, <1>4

\* A frame the thread sends, one command or answer at most being on its way.
LEMMA SendLine ==
    ASSUME TypeOK, TypeOK', NEW f \in Frames, Send(f), f.cmd \in Cmds, Sent(f)',
           pc'[Only] \in Cmds, Len(Answers') <= 1, Len(Answers') = 1 => Quiet,
           \A j, k \in CmdAt : j = k
    PROVE  Few' /\ Newest'
<1>1. /\ \A k \in CmdAt : k \in 1 .. Len(tx) /\ k \in CmdAt' /\ tx'[k] = tx[k]
      /\ \A k \in CmdAt' : k \in CmdAt \/ k = Len(tx) + 1
      /\ Len(tx) \in Nat /\ tx'[Len(tx) + 1] = f
      /\ Len(tx) + 1 \in CmdAt'
  BY AppendedCommands
<1>2. Quiet <=> CmdAt = {}
  BY DEF Quiet, CmdAt
<1>3. pc'[Only] \notin Done /\ Len(Answers') # 2 /\ Len(Answers') <= 2
  <2> DEFINE m == Len(Answers')
  <2>1. m \in Nat /\ m <= 1
    BY AnswersNext
  <2> HIDE DEF m
  <2>2. m # 2 /\ m <= 2
    BY <2>1
  <2> QED
    BY <2>2 DEF m, Cmds, Done
<1>4. Few'
  <2>1. Len(Answers') = 1 => \A j, k \in CmdAt' : j = k
    BY <1>1, <1>2
  <2>2. \A j, k, l \in CmdAt' : j = k \/ k = l \/ j = l
    BY <1>1
  <2> QED
    BY <1>3, <2>1, <2>2 DEF Few
<1>5. ASSUME NEW k \in CmdAt', \A j \in CmdAt' : j <= k PROVE Sent(tx[k])'
  <2>1. k = Len(tx) + 1
    BY <1>1, <1>5
  <2>2. tx'[k] = f
    BY <1>1, <2>1
  <2> QED
    BY <2>2 DEF Sent
<1>6. Newest'
  BY <1>3, <1>5 DEF Newest
<1> QED
  BY <1>4, <1>6

\* An upload starts, what is left of the last one still on its way.
LEMMA BeginLate ==
    ASSUME TypeOK, TypeOK', Only \in Uploaders, LateInv, NEW i \in Images, Begin(Only, i)
    PROVE  LateInv'
<1>1. /\ pc[Only] \in Done /\ pc'[Only] = "start" /\ img'[Only] = i /\ Send(StartFrame(i))
      /\ UNCHANGED <<slot, rx, flash, sOpen, sTotal, sRecv, sExpect, sBase, imgType, typeLost>>
  BY DEF Begin, TypeOK, devVars, session
<1>2. StartFrame(i) \in Frames /\ StartFrame(i).cmd = "start" /\ Sent(StartFrame(i))'
  BY <1>1, PaddedSizeType DEF StartFrame, Frames, Sent
<1>3. Answers' = Answers
  BY <1>1 DEF Answers
<1>4. /\ Len(Answers') <= 1 /\ (Len(Answers') = 1 => Quiet)
      /\ \A j, k \in CmdAt : j = k
  BY <1>1, <1>3 DEF LateInv, Few
<1>5. Few' /\ Newest'
  BY <1>1, <1>2, <1>4, SendLine DEF Cmds
<1>6. \A k \in CmdAt' : tx'[k].cmd # "start" => k \in CmdAt /\ tx'[k] = tx[k]
  BY <1>1, <1>2, AppendedCommands
<1>7. /\ \A x : Filled(x) => Filled(x)'
      /\ \A x : Own(x) => Own(x)'
      /\ \A k : OkAt("start", k)' => OkAt("start", k)
  BY <1>1, <1>3 DEF Filled, Own, OkAt, Kind
<1>8. Between'
  <2>1. (\E k \in 1 .. 2 : OkAt("start", k)') =>
            \A x \in Images : (sOpen' => sExpect' = 0) /\ Filled(x)'
    <3>1. (\E k \in 1 .. 2 : OkAt("start", k)) =>
              \A x \in Images : (sOpen => sExpect = 0) /\ Filled(x)
      BY <1>1 DEF LateInv, Between
    <3> QED
      BY <1>1, <1>7, <3>1
  <2>2. (\E k \in CmdAt' : tx'[k].cmd # "start") =>
            \E a \in Images : /\ Filled(a)' /\ Own(a)'
                              /\ \A k \in CmdAt' : tx'[k].cmd = "img" => tx'[k].img = a
    <3> SUFFICES ASSUME NEW k \in CmdAt', tx'[k].cmd # "start"
                 PROVE  \E a \in Images : /\ Filled(a)' /\ Own(a)'
                                          /\ \A x \in CmdAt' : tx'[x].cmd = "img" => tx'[x].img = a
      OBVIOUS
    <3>1. PICK a \in Images : /\ Filled(a) /\ Own(a)
                              /\ \A x \in CmdAt : tx[x].cmd = "img" => tx[x].img = a
      BY <1>1, <1>6 DEF LateInv, Between
    <3> QED
      BY <1>6, <1>7, <3>1
  <2> QED
    BY <1>1, <2>1, <2>2 DEF Between
<1> QED
  BY <1>1, <1>5, <1>8 DEF LateInv, Blocks, Ending

\* The answer in the slot is taken; of two the second is left, and then no
\* command is on the line; one that is there is the thread's.
LEMMA TakeAnswer ==
    ASSUME TypeOK, TypeOK', Few, Newest, pc[Only] \in Cmds, NEW res \in Results,
           slot = [cmd |-> pc[Only], res |-> res], slot' = NoAck, UNCHANGED rx
    PROVE  /\ Answers[1] = slot /\ 1 \in 1 .. Len(Answers)
           /\ Len(Answers') \in {0, 1}
           /\ Len(Answers') = 0 <=> Len(Answers) = 1
           /\ Len(Answers') = 1 => /\ Quiet /\ Answers'[1] = Answers[2] /\ Len(Answers) = 2
                                   /\ Answers'[1].cmd = pc[Only] /\ 2 \in 1 .. Len(Answers)
           /\ \A j, k \in CmdAt : j = k
           /\ \A k \in CmdAt : Sent(tx[k])
<1>1. slot # NoAck
  BY NoAckAssumption DEF Acks
<1>2. Answers' = rx
  BY DEF Answers
<1>3. /\ Len(Answers) = Len(rx) + 1 /\ Answers[1] = slot /\ Len(rx) \in Nat
      /\ \A k \in 1 .. Len(rx) : Answers[k + 1] = rx[k]
  BY <1>1, AnswersFacts DEF TypeOK
<1>4. Len(rx) \in {0, 1} /\ 1 \in 1 .. Len(Answers)
      /\ (Len(rx) = 0 <=> Len(Answers) = 1) /\ (Len(rx) = 1 <=> Len(Answers) = 2)
  <2> DEFINE n == Len(rx)
             m == Len(Answers)
  <2>1. n \in Nat /\ m = n + 1 /\ m <= 2
    BY <1>3 DEF Few
  <2> HIDE DEF n, m
  <2>2. n \in {0, 1} /\ 1 \in 1 .. m /\ (n = 0 <=> m = 1) /\ (n = 1 <=> m = 2)
    BY <2>1
  <2> QED
    BY <2>2 DEF n, m
<1>5. Len(rx) = 1 => Quiet /\ rx[1] = Answers[2] /\ Answers[2].cmd = pc[Only]
  BY <1>3, <1>4 DEF Few, Newest
<1>6. \A j, k \in CmdAt : j = k
  <2>1. Len(Answers) = 1 => \A j, k \in CmdAt : j = k
    BY DEF Few
  <2>2. Len(Answers) = 2 => CmdAt = {}
    BY DEF Few, Quiet, CmdAt
  <2> QED
    BY <1>4, <2>1, <2>2
<1>7. \A k \in CmdAt : Sent(tx[k])
  <2> SUFFICES ASSUME NEW k \in CmdAt PROVE Sent(tx[k])
    OBVIOUS
  <2>1. \A j \in CmdAt : j <= k
    BY <1>6 DEF CmdAt
  <2> QED
    BY <2>1 DEF Newest
<1> QED
  BY <1>2, <1>3, <1>4, <1>5, <1>6, <1>7

\* IMGSTART was accepted: the first block is sent, into a fresh session.
LEMMA FirstBlockLate ==
    ASSUME KindsDiffer, TypeOK, TypeOK', Only \in Uploaders, LateInv, pc[Only] = "start",
           slot = [cmd |-> "start", res |-> "OK"], slot' = NoAck, UNCHANGED <<devVars, img, rx, typeLost>>,
           NextBlock(Only, 0)
    PROVE  LateInv'
<1> DEFINE i == img[Only]
<1>1. /\ Answers[1] = slot /\ 1 \in 1 .. Len(Answers)
      /\ Len(Answers') \in {0, 1}
      /\ Len(Answers') = 1 => Quiet /\ Answers'[1].cmd = "start"
      /\ \A j, k \in CmdAt : j = k
      /\ \A k \in CmdAt : Sent(tx[k])
  BY TakeAnswer DEF Cmds, LateInv, Results
<1>2. /\ i \in Images /\ i = img'[Only]
      /\ UNCHANGED <<flash, sOpen, sTotal, sRecv, sExpect, sBase, imgType, typeLost>>
  BY DEF TypeOK, devVars, session
<1>3. Filled(i) /\ (sOpen => sExpect = 0)
  <2>1. OkAt("start", 1)
    BY <1>1 DEF OkAt
  <2>2. 1 \in 1 .. 2
    OBVIOUS
  <2> QED
    BY <1>2, <2>1, <2>2 DEF LateInv, Between
<1>4. Chunks(i) \in Nat /\ 0 < Chunks(i)
  <2>1. Chunks(i) \in Nat /\ Size(i) \in Nat /\ Chunks(i) * Chunk >= Size(i) /\ Chunk \in Nat
    BY <1>2, ChunksFacts, SizesAssumption
  <2>2. Size(i) > 0
    BY <1>2 DEF KindsDiffer
  <2>3. Chunks(i) # 0
    BY <2>1, <2>2
  <2> QED
    BY <2>1, <2>3
<1>5. pc'[Only] = "img" /\ seq'[Only] = 0 /\ Send(ImgFrame(i, 0))
  BY <1>4 DEF NextBlock, SendBlock, TypeOK
<1>6. ImgFrame(i, 0) \in Frames /\ ImgFrame(i, 0).cmd = "img" /\ Sent(ImgFrame(i, 0))'
  BY <1>2, <1>5 DEF ImgFrame, Frames, Sent
<1>7. Few' /\ Newest'
  <2>1. Len(Answers') <= 1
    <3> DEFINE m == Len(Answers')
    <3>1. m \in {0, 1}
      BY <1>1
    <3> HIDE DEF m
    <3>2. m <= 1
      BY <3>1
    <3> QED
      BY <3>2 DEF m
  <2> QED
    BY <1>1, <1>5, <1>6, <2>1, SendLine DEF Cmds
<1>8. \A k \in CmdAt' : tx'[k] = StartFrame(i) \/ (k = Len(tx) + 1 /\ tx'[k] = ImgFrame(i, 0))
  <2>1. \A k \in CmdAt : tx[k] = StartFrame(i)
    BY <1>1 DEF Sent
  <2> QED
    BY <1>5, <1>6, <2>1, AppendedCommands
<1>9. Blocks'
  <2>1. Filled(i)'
    BY <1>2, <1>3 DEF Filled
  <2>2. \A k \in 1 .. Len(Answers') : Answers'[k].cmd = "start"
    <3>1. CASE Len(Answers') = 0
      BY <3>1
    <3>2. CASE Len(Answers') = 1
      BY <1>1, <3>2
    <3> QED
      BY <1>1, <3>1, <3>2
  <2>3. ~OkAt("img", 1)' /\ ~OkAt("img", 2)'
    BY <2>2 DEF OkAt
  <2>4. sOpen' => sExpect' = 0
    BY <1>2, <1>3
  <2>5. ~Own(i)' => sExpect' = 0
    BY <1>2, <1>3 DEF Own, Kind
  <2>6. \A j, k \in CmdAt' : tx'[j].cmd = "img" /\ tx'[k].cmd = "img" => j = k
    BY <1>8 DEF StartFrame
  <2>7. \A k \in CmdAt' : tx'[k] = ImgFrame(i, 0) \/ tx'[k] = StartFrame(i)
    BY <1>8
  <2> QED
    BY <1>2, <1>4, <1>5, <2>1, <2>2, <2>3, <2>4, <2>5, <2>6, <2>7 DEF Blocks
<1> QED
  BY <1>5, <1>7, <1>9 DEF LateInv, Between, Ending, Done

\* A block was accepted, as far as the thread can tell: the next one is sent,
\* or IMGEND.
LEMMA NextBlockLate ==
    ASSUME TypeOK, TypeOK', Only \in Uploaders, Asked, LateInv, pc[Only] = "img",
           slot = [cmd |-> "img", res |-> "OK"], slot' = NoAck, UNCHANGED <<devVars, img, rx, typeLost>>,
           NextBlock(Only, seq[Only] + 1)
    PROVE  LateInv'
<1> DEFINE i == img[Only]
           s == seq[Only]
           n == Chunks(i)
<1>1. /\ Answers[1] = slot /\ 1 \in 1 .. Len(Answers)
      /\ Len(Answers') \in {0, 1}
      /\ Len(Answers') = 0 <=> Len(Answers) = 1
      /\ Len(Answers') = 1 => /\ Quiet /\ Answers'[1] = Answers[2]
                              /\ Answers'[1].cmd = "img" /\ 2 \in 1 .. Len(Answers)
      /\ \A j, k \in CmdAt : j = k
      /\ \A k \in CmdAt : Sent(tx[k])
  BY TakeAnswer DEF Cmds, LateInv, Results
<1>2. /\ i \in Images /\ i = img'[Only] /\ s \in Nat /\ n \in Nat /\ sExpect \in Nat
      /\ UNCHANGED <<flash, sOpen, sTotal, sRecv, sExpect, sBase, imgType, typeLost>>
  BY ChunksFacts DEF TypeOK, DevTypeOK, devVars, session
<1>3. /\ Filled(i) /\ s < n
      /\ sOpen => sExpect >= s /\ sExpect >= 1
      /\ OkAt("img", 2) /\ sOpen => sExpect >= s + 1
      /\ ~Own(i) => /\ sExpect >= s + 1 /\ sExpect <= n
                    /\ Len(Answers) = 1 /\ Quiet
  <2>1. OkAt("img", 1) /\ Answers[1].cmd = "img"
    BY <1>1 DEF OkAt
  <2>2. Blocks /\ s < n
    BY DEF LateInv, Asked
  <2>3. ~Own(i) => \A k \in 1 .. Len(Answers) : Answers[k].cmd = "img" => k = Len(Answers) /\ Quiet
    BY <2>2 DEF Blocks
  <2> QED
    BY <1>1, <2>1, <2>2, <2>3 DEF Blocks
<1>4. /\ Filled(i)' /\ (Own(i)' <=> Own(i))
      /\ \A k \in CmdAt : tx[k] = ImgFrame(i, s) /\ tx[k].cmd = "img" /\ tx[k].img = i
      /\ Len(Answers') <= 1 /\ ~OkAt("img", 2)'
      /\ OkAt("img", 1)' => OkAt("img", 2) /\ Own(i)
      /\ \A k \in 1 .. Len(Answers') : Answers'[k].cmd = "img" /\ Own(i)
      /\ ~Own(i) => CmdAt = {}
  <2>1. Filled(i)' /\ (Own(i)' <=> Own(i))
    BY <1>2, <1>3 DEF Filled, Own, Kind
  <2>2. ASSUME NEW k \in CmdAt PROVE tx[k] = ImgFrame(i, s) /\ tx[k].cmd = "img" /\ tx[k].img = i
    <3>1. tx[k] = ImgFrame(i, s)
      BY <1>1, <2>2 DEF Sent
    <3> QED
      BY <3>1 DEF ImgFrame
  <2>3. Len(Answers') <= 1 /\ ~(2 \in 1 .. Len(Answers'))
    <3> DEFINE m == Len(Answers')
    <3>1. m \in {0, 1}
      BY <1>1
    <3> HIDE DEF m
    <3>2. m <= 1 /\ ~(2 \in 1 .. m)
      BY <3>1
    <3> QED
      BY <3>2 DEF m
  <2>4. OkAt("img", 1)' => OkAt("img", 2) /\ Own(i)
    <3> SUFFICES ASSUME OkAt("img", 1)' PROVE OkAt("img", 2) /\ Own(i)
      OBVIOUS
    <3>1. 1 \in 1 .. Len(Answers') /\ Answers'[1] = [cmd |-> "img", res |-> "OK"]
      BY DEF OkAt
    <3>2. Len(Answers') = 1
      BY <1>1, <3>1
    <3> QED
      BY <1>1, <1>3, <3>1, <3>2 DEF OkAt
  <2>5. \A k \in 1 .. Len(Answers') : Answers'[k].cmd = "img" /\ Own(i)
    <3>1. CASE Len(Answers') = 0
      BY <3>1
    <3>2. CASE Len(Answers') = 1
      BY <1>1, <1>3, <3>2
    <3> QED
      BY <1>1, <3>1, <3>2
  <2>6. ~Own(i) => CmdAt = {}
    BY <1>3 DEF Quiet, CmdAt
  <2> QED
    BY <2>1, <2>2, <2>3, <2>4, <2>5, <2>6 DEF OkAt
<1>5. CASE s + 1 < n
  <2>1. pc'[Only] = "img" /\ seq'[Only] = s + 1 /\ Send(ImgFrame(i, s + 1))
    BY <1>5 DEF NextBlock, SendBlock, TypeOK
  <2>2. s + 1 \in Nat
    BY <1>2
  <2>23. ImgFrame(i, s + 1) \in Frames /\ ImgFrame(i, s + 1).cmd = "img"
    BY <1>2, <2>1, <2>2 DEF ImgFrame, Frames
  <2>3. PICK f \in Frames : f = ImgFrame(i, s + 1) /\ f.cmd = "img"
    BY <2>23
  <2>30. Sent(f)'
    BY <1>2, <2>1, <2>3 DEF Sent
  <2>4. Few' /\ Newest'
    BY <1>1, <1>4, <2>1, <2>3, <2>30, SendLine DEF Cmds
  <2>5. \A k \in CmdAt' : \/ k \in CmdAt /\ tx'[k] = ImgFrame(i, s)
                          \/ k = Len(tx) + 1 /\ tx'[k] = ImgFrame(i, s + 1)
    BY <1>4, <2>1, <2>3, AppendedCommands
  <2>6. Blocks'
    <3>1. (s + 1) - 1 = s
      BY <1>2
    <3>2. \A k \in CmdAt' : \/ tx'[k] = ImgFrame(img'[Only], seq'[Only])
                            \/ tx'[k] = ImgFrame(img'[Only], seq'[Only] - 1)
      BY <1>2, <2>1, <2>5, <3>1
    <3>3. ~Own(i)' => \A j, k \in CmdAt' : j = k
      BY <1>4, <2>5
    <3>4. \A k \in 1 .. Len(Answers') : Answers'[k].cmd # "end"
      BY <1>4
    <3>5. sOpen' => /\ sExpect' >= (s + 1) - 1 /\ sExpect' >= 1
                    /\ OkAt("img", 1)' => sExpect' >= s + 1 /\ sExpect' >= 1
      BY <1>2, <1>3, <1>4, <3>1
    <3>6. ~Own(i)' => sExpect' >= s + 1 /\ sExpect' <= n /\ Len(Answers') = 0
      BY <1>1, <1>2, <1>3, <1>4
    <3>7. ~Own(i)' => ~OkAt("img", 1)' /\ ~\E k \in 1 .. Len(Answers') : TRUE
      BY <1>4
    <3> QED
      BY <1>2, <1>4, <2>1, <3>2, <3>3, <3>4, <3>5, <3>6, <3>7 DEF Blocks
  <2> QED
    BY <2>1, <2>4, <2>6 DEF LateInv, Between, Ending, Done
<1>6. CASE ~(s + 1 < n)
  <2>1. pc'[Only] = "end" /\ Send(EndFrame)
    BY <1>6 DEF NextBlock, SendEnd, TypeOK
  <2>2. EndFrame \in Frames /\ EndFrame.cmd = "end" /\ Sent(EndFrame)'
    BY <2>1 DEF EndFrame, Frames, Sent
  <2>3. Few' /\ Newest'
    BY <1>1, <1>4, <2>1, <2>2, SendLine DEF Cmds
  <2>4. \A k \in CmdAt' : \/ k \in CmdAt /\ tx'[k] = tx[k]
                          \/ k = Len(tx) + 1 /\ tx'[k] = EndFrame
    BY <2>1, <2>2, AppendedCommands
  <2>5. Ending'
    <3>1. \A k \in CmdAt' : tx'[k] = EndFrame \/ (tx'[k].cmd = "img" /\ tx'[k].img = i)
      BY <1>4, <2>4
    <3>2. ASSUME NEW j \in CmdAt', NEW k \in CmdAt', j < k PROVE tx'[j].cmd = "img"
      <4>1. CASE j \in CmdAt
        BY <1>4, <2>4, <3>2, <4>1 DEF CmdAt
      <4>2. CASE j = Len(tx) + 1
        <5>1. k \in CmdAt \/ k = Len(tx) + 1
          BY <2>4
        <5>2. k <= Len(tx) + 1 /\ Len(tx) \in Nat /\ k \in Int
          BY <2>1, <2>2, <5>1, AppendedCommands
        <5> QED
          BY <3>2, <4>2, <5>2
      <4> QED
        BY <2>4, <4>1, <4>2
    <3>3. \A k \in 1 .. Len(Answers') : Answers'[k].cmd # "end"
      BY <1>4
    <3>4. ~OkAt("end", 1)' /\ ~OkAt("end", 2)'
      BY <3>3 DEF OkAt
    <3>5. sOpen' => sExpect' >= 1
      BY <1>2, <1>3
    <3>6. ~Own(i)' => sExpect' = n
      BY <1>2, <1>3, <1>4, <1>6
    <3>7. ~Own(i)' => \A k \in CmdAt' : tx'[k] = EndFrame
      BY <1>4, <2>4
    <3> QED
      BY <1>2, <1>4, <3>1, <3>2, <3>3, <3>4, <3>5, <3>6, <3>7 DEF Ending
  <2> QED
    BY <2>1, <2>3, <2>5 DEF LateInv, Between, Blocks, Done
<1> QED
  BY <1>5, <1>6

\* An answer OK.
LEMMA GetOkLate ==
    ASSUME KindsDiffer, TypeOK, TypeOK', Only \in Uploaders, Asked, LateInv, GetOk(Only)
    PROVE  LateInv'
<1>1. /\ slot = [cmd |-> pc[Only], res |-> "OK"] /\ slot' = NoAck
      /\ UNCHANGED <<devVars, img, rx, typeLost>>
  BY DEF GetOk, Answered
<1>2. CASE pc[Only] = "start" /\ NextBlock(Only, 0)
  BY <1>1, <1>2, FirstBlockLate
<1>3. CASE pc[Only] = "img" /\ NextBlock(Only, seq[Only] + 1)
  BY <1>1, <1>3, NextBlockLate
<1>4. CASE pc[Only] = "end" /\ Finish(Only, "ok")
  <2>1. /\ Answers[1] = slot /\ 1 \in 1 .. Len(Answers)
        /\ Len(Answers') = 0 <=> Len(Answers) = 1
    BY <1>1, <1>4, TakeAnswer DEF Cmds, LateInv, Results
  <2>2. OkAt("end", 1) /\ Answers[1].cmd = "end"
    BY <1>1, <1>4, <2>1 DEF OkAt
  <2>3. Len(Answers) = 1 /\ Quiet /\ Stored(img[Only])
    BY <1>4, <2>1, <2>2 DEF LateInv, Ending
  <2>4. pc'[Only] = "ok" /\ UNCHANGED <<tx, flash, img>>
    BY <1>1, <1>4 DEF Finish, TypeOK, devVars
  <2>5. Len(Answers') = 0 /\ Answers' = <<>>
    BY <2>1, <2>3, AnswersNext
  <2>6. Quiet' /\ CmdAt' = {} /\ Stored(img[Only])'
    BY <1>1, <2>3, <2>4 DEF Quiet, CmdAt, Stored, HoldsAt, Place
  <2>7. \A k \in 1 .. 2 : ~OkAt("start", k)'
    BY <2>5 DEF OkAt
  <2>8. Few' /\ Newest'
    BY <2>4, <2>5, <2>6 DEF Few, Newest
  <2> QED
    BY <2>4, <2>5, <2>6, <2>7, <2>8 DEF LateInv, Between, Blocks, Ending
<1> QED
  BY <1>2, <1>3, <1>4 DEF GetOk

\* An attempt failed, with one command or answer at most still on its way: that
\* of the attempt given up.
LEMMA GaveUpLate ==
    ASSUME TypeOK, TypeOK', Only \in Uploaders, pc[Only] \in Cmds, GiveUpOrRetry(Only),
           slot' = NoAck, UNCHANGED <<devVars, img, rx, typeLost>>,
           Len(Answers') \in {0, 1},
           Len(Answers') = 1 => Quiet /\ Answers'[1].cmd = pc[Only],
           \A j, k \in CmdAt : j = k,
           \A k \in CmdAt : Sent(tx[k]),
           pc[Only] = "img" => /\ Filled(img[Only])
                               /\ sOpen => sExpect >= seq[Only] - 1
                               /\ sOpen /\ seq[Only] > 0 => sExpect >= 1
                               /\ sOpen /\ OkAt("img", 1)' => sExpect >= seq[Only] + 1
                               /\ ~Own(img[Only]) => /\ sExpect >= seq[Only]
                                                     /\ sExpect <= Chunks(img[Only])
                                                     /\ Quiet /\ Len(Answers') = 0,
           OkAt("start", 1)' => \A x \in Images : (sOpen => sExpect = 0) /\ Filled(x),
           pc[Only] \in {"img", "end"} /\ ~Quiet => Filled(img[Only]) /\ Own(img[Only])
    PROVE  LateInv'
<1> DEFINE i == img[Only]
           s == seq[Only]
<1>1. /\ i \in Images /\ i = img'[Only] /\ s \in Nat /\ sExpect \in Nat
      /\ UNCHANGED <<flash, sOpen, sTotal, sRecv, sExpect, sBase, imgType, typeLost>>
  BY DEF TypeOK, DevTypeOK, devVars, session
<1>2. /\ \A x : Filled(x) => Filled(x)'
      /\ \A x : Own(x) <=> Own(x)'
  BY <1>1 DEF Filled, Own, Kind
<1>3. Quiet <=> CmdAt = {}
  BY DEF Quiet, CmdAt
<1>4. Len(Answers') <= 1 /\ ~(2 \in 1 .. Len(Answers')) /\ Len(Answers') # 2 /\ Len(Answers') <= 2
  <2> DEFINE m == Len(Answers')
  <2>1. m \in {0, 1}
    OBVIOUS
  <2> HIDE DEF m
  <2>2. m <= 1 /\ ~(2 \in 1 .. m) /\ m # 2 /\ m <= 2
    BY <2>1
  <2> QED
    BY <2>2 DEF m
<1>5. \A k \in 1 .. Len(Answers') : Answers'[k].cmd = pc[Only]
  <2>1. CASE Len(Answers') = 0
    BY <2>1
  <2>2. CASE Len(Answers') = 1
    BY <2>2
  <2> QED
    BY <2>1, <2>2
<1>6. CASE pc[Only] = "img" /\ SendBlock(Only, s, attempt[Only] + 1)
  <2>1. pc'[Only] = "img" /\ seq'[Only] = s /\ Send(ImgFrame(i, s))
    BY <1>6 DEF SendBlock, TypeOK
  <2>2. ImgFrame(i, s) \in Frames /\ ImgFrame(i, s).cmd = "img"
    BY <1>1 DEF ImgFrame, Frames
  <2>3. PICK f \in Frames : f = ImgFrame(i, s) /\ f.cmd = "img"
    BY <2>2
  <2>4. Sent(f)'
    BY <1>1, <2>1, <2>3 DEF Sent
  <2>5. Few' /\ Newest'
    BY <1>4, <2>1, <2>3, <2>4, SendLine DEF Cmds
  <2>6. \A k \in CmdAt : tx[k] = ImgFrame(i, s)
    BY <1>6 DEF Sent
  <2>7. \A k \in CmdAt' : /\ tx'[k] = ImgFrame(i, s)
                          /\ k \in CmdAt \/ k = Len(tx) + 1
    BY <2>1, <2>2, <2>6, AppendedCommands
  <2>8. Blocks'
    <3>1. Filled(i)'
      BY <1>1, <1>2, <1>6 DEF Filled
    <3>2. \A k \in CmdAt' : tx'[k] = ImgFrame(img'[Only], seq'[Only])
      BY <1>1, <2>1, <2>7
    <3>3. \A k \in 1 .. Len(Answers') : Answers'[k].cmd # "end"
      BY <1>5, <1>6
    <3>4. ~OkAt("img", 2)'
      BY <1>4 DEF OkAt
    <3>5. sOpen' => /\ sExpect' >= s - 1
                    /\ s > 0 => sExpect' >= 1
                    /\ OkAt("img", 1)' => sExpect' >= s /\ sExpect' >= 1
      <4>1. sExpect >= s + 1 => sExpect >= s /\ sExpect >= 1
        BY <1>1
      <4> QED
        BY <1>1, <1>6, <4>1
    <3>6. ASSUME ~Own(i)'
          PROVE  /\ sExpect' >= s /\ sExpect' <= Chunks(i) /\ ~OkAt("img", 1)'
                 /\ \A j, k \in CmdAt' : j = k
                 /\ ~\E k \in 1 .. Len(Answers') : TRUE
      <4>1. ~Own(i)
        BY <1>1, <3>6 DEF Own, Kind
      <4>2. /\ sExpect >= s /\ sExpect <= Chunks(i) /\ Quiet /\ Len(Answers') = 0
        BY <1>6, <4>1
      <4>3. ~OkAt("img", 1)' /\ ~\E k \in 1 .. Len(Answers') : TRUE
        BY <4>2 DEF OkAt
      <4> QED
        BY <1>1, <1>3, <2>7, <4>2, <4>3
    <3> QED
      BY <1>1, <2>1, <3>1, <3>2, <3>3, <3>4, <3>5, <3>6 DEF Blocks
  <2> QED
    BY <2>1, <2>5, <2>8 DEF LateInv, Between, Ending, Done
<1>7. CASE Finish(Only, "fail")
  <2>1. pc'[Only] = "fail" /\ UNCHANGED tx
    BY <1>7 DEF Finish, TypeOK
  <2>2. CmdAt' = CmdAt /\ (Quiet' <=> Quiet)
    BY <2>1 DEF CmdAt, Quiet
  <2>3. Few' /\ Newest'
    BY <1>4, <2>1, <2>2 DEF Few, Newest, Cmds
  <2>4. (\E k \in 1 .. 2 : OkAt("start", k)') => OkAt("start", 1)'
    BY <1>4 DEF OkAt
  <2>5. (\E k \in CmdAt' : tx'[k].cmd # "start") =>
            \E a \in Images : /\ Filled(a)' /\ Own(a)'
                              /\ \A k \in CmdAt' : tx'[k].cmd = "img" => tx'[k].img = a
    <3> SUFFICES ASSUME NEW k \in CmdAt, tx[k].cmd # "start"
                 PROVE  \E a \in Images : /\ Filled(a)' /\ Own(a)'
                                          /\ \A x \in CmdAt : tx[x].cmd = "img" => tx[x].img = a
      BY <2>1, <2>2
    <3>1. pc[Only] \in {"img", "end"}
      BY DEF Sent, StartFrame
    <3>2. Filled(i) /\ Own(i)
      BY <1>3, <3>1
    <3>3. \A x \in CmdAt : tx[x].cmd = "img" => tx[x].img = i
      BY DEF Sent, StartFrame, ImgFrame, EndFrame
    <3>4. PICK a \in Images : a = i
      BY <1>1
    <3> QED
      BY <1>2, <3>2, <3>3, <3>4
  <2>6. Between'
    <3>1. (\E k \in 1 .. 2 : OkAt("start", k)') =>
              \A x \in Images : (sOpen' => sExpect' = 0) /\ Filled(x)'
      BY <1>1, <1>2, <2>4
    <3> QED
      BY <2>1, <2>5, <3>1 DEF Between
  <2> QED
    BY <2>1, <2>3, <2>6 DEF LateInv, Blocks, Ending
<1> QED
  BY <1>6, <1>7 DEF GiveUpOrRetry

\* A thread that is done keeps quiet whatever is in the slot.
LEMMA DoneLate ==
    ASSUME TypeOK, TypeOK', Only \in Uploaders, LateInv, pc[Only] \in Done,
           GiveUpOrRetry(Only), slot' = slot, UNCHANGED <<devVars, img, rx, typeLost>>
    PROVE  LateInv'
<1>1. pc'[Only] = "fail" /\ UNCHANGED tx
  BY DEF GiveUpOrRetry, Finish, TypeOK, Done
<1>2. CmdAt' = CmdAt /\ (Quiet' <=> Quiet) /\ Answers' = Answers
  BY <1>1 DEF CmdAt, Quiet, Answers
<1>3. UNCHANGED <<flash, sOpen, sTotal, sRecv, sExpect, sBase, imgType, typeLost>>
  BY DEF devVars, session
<1>4. /\ \A x : Filled(x) <=> Filled(x)'
      /\ \A x : Own(x) <=> Own(x)'
      /\ \A k : OkAt("start", k)' <=> OkAt("start", k)
  BY <1>2, <1>3 DEF Filled, Own, OkAt, Kind
<1>5. Few' /\ Newest'
  <2>1. Few /\ Newest /\ pc[Only] \notin Cmds
    BY DEF LateInv, Cmds, Done
  <2>2. Few'
    BY <1>1, <1>2, <2>1 DEF Few
  <2>3. Len(Answers') # 2
    <3> DEFINE m == Len(Answers')
    <3>1. m \in Nat /\ m <= 1
      BY <1>2, <2>1, AnswersNext DEF Few
    <3> HIDE DEF m
    <3>2. m # 2
      BY <3>1
    <3> QED
      BY <3>2 DEF m
  <2> QED
    BY <1>1, <2>2, <2>3 DEF Newest, Cmds
<1>6. Between'
  <2>1. Between
    BY DEF LateInv
  <2>2. (\E k \in 1 .. 2 : OkAt("start", k)') =>
            \A x \in Images : (sOpen' => sExpect' = 0) /\ Filled(x)'
    BY <1>3, <1>4, <2>1 DEF Between
  <2>3. (\E k \in CmdAt' : tx'[k].cmd # "start") =>
            \E a \in Images : /\ Filled(a)' /\ Own(a)'
                              /\ \A k \in CmdAt' : tx'[k].cmd = "img" => tx'[k].img = a
    BY <1>1, <1>2, <1>4, <2>1 DEF Between
  <2> QED
    BY <1>1, <2>2, <2>3 DEF Between
<1> QED
  BY <1>1, <1>5, <1>6 DEF LateInv, Blocks, Ending

\* An answer ERR.
LEMMA GetErrLate ==
    ASSUME TypeOK, TypeOK', Only \in Uploaders, LateInv, GetErr(Only)
    PROVE  LateInv'
<1> DEFINE i == img[Only]
           s == seq[Only]
<1>1. /\ slot = [cmd |-> pc[Only], res |-> "ERR"] /\ slot' = NoAck
      /\ UNCHANGED <<devVars, img, rx, typeLost>> /\ GiveUpOrRetry(Only)
  BY DEF GetErr, Answered
<1>2. CASE pc[Only] \in Done
  <2>1. slot \notin Acks
    <3>1. \A x \in Acks : x.cmd \in Cmds
      BY DEF Acks
    <3>2. slot.cmd = pc[Only] /\ pc[Only] \notin Cmds
      BY <1>1, <1>2 DEF Cmds, Done
    <3> QED
      BY <3>1, <3>2
  <2>2. slot = NoAck
    BY <2>1 DEF TypeOK
  <2> QED
    BY <1>1, <1>2, <2>2, DoneLate
<1>3. CASE pc[Only] \in Cmds
  <2>1. /\ Answers[1] = slot /\ 1 \in 1 .. Len(Answers)
        /\ Len(Answers') \in {0, 1}
        /\ Len(Answers') = 0 <=> Len(Answers) = 1
        /\ Len(Answers') = 1 => /\ Quiet /\ Answers'[1] = Answers[2] /\ Len(Answers) = 2
                                /\ Answers'[1].cmd = pc[Only] /\ 2 \in 1 .. Len(Answers)
        /\ \A j, k \in CmdAt : j = k
        /\ \A k \in CmdAt : Sent(tx[k])
    BY <1>1, <1>3, TakeAnswer DEF LateInv, Results
  <2>2. \A c : OkAt(c, 1)' => OkAt(c, 2) /\ c = pc[Only]
    <3> SUFFICES ASSUME NEW c, OkAt(c, 1)' PROVE OkAt(c, 2) /\ c = pc[Only]
      OBVIOUS
    <3>1. 1 \in 1 .. Len(Answers') /\ Answers'[1] = [cmd |-> c, res |-> "OK"]
      BY DEF OkAt
    <3>2. Len(Answers') = 1
      BY <2>1, <3>1
    <3> QED
      BY <2>1, <3>1, <3>2 DEF OkAt
  <2>3. Answers[1].cmd = pc[Only]
    BY <1>1, <2>1
  <2>4. ASSUME pc[Only] = "img"
        PROVE  /\ Filled(i)
               /\ sOpen => sExpect >= s - 1
               /\ sOpen /\ s > 0 => sExpect >= 1
               /\ sOpen /\ OkAt("img", 1)' => sExpect >= s + 1
               /\ ~Own(i) => /\ sExpect >= s /\ sExpect <= Chunks(i)
                             /\ Quiet /\ Len(Answers') = 0
    <3>1. Blocks
      BY DEF LateInv
    <3>2. ~Own(i) => 1 = Len(Answers) /\ Quiet
      BY <2>1, <2>3, <2>4, <3>1 DEF Blocks
    <3> QED
      BY <2>1, <2>2, <2>4, <3>1, <3>2 DEF Blocks
  <2>5. OkAt("start", 1)' => \A x \in Images : (sOpen => sExpect = 0) /\ Filled(x)
    <3> SUFFICES ASSUME OkAt("start", 1)'
                 PROVE  \A x \in Images : (sOpen => sExpect = 0) /\ Filled(x)
      OBVIOUS
    <3>1. OkAt("start", 2) /\ pc[Only] = "start" /\ 2 \in 1 .. 2
      BY <2>2
    <3> QED
      BY <3>1 DEF LateInv, Between
  <2>6. ASSUME pc[Only] \in {"img", "end"}, ~Quiet PROVE Filled(i) /\ Own(i)
    <3>1. CASE pc[Only] = "img"
      BY <2>4, <2>6, <3>1
    <3>2. CASE pc[Only] = "end"
      BY <2>1, <2>3, <2>6, <3>2 DEF LateInv, Ending
    <3> QED
      BY <2>6, <3>1, <3>2
  <2> QED
    BY <1>1, <1>3, <2>1, <2>4, <2>5, <2>6, GaveUpLate
<1> QED
  BY <1>2, <1>3 DEF TypeOK

\* A timeout when nothing is on its way.
LEMMA TimeoutLate ==
    ASSUME TypeOK, TypeOK', Only \in Uploaders, LateInv, Timeout(Only), tx = <<>>, rx = <<>>
    PROVE  LateInv'
<1>1. /\ pc[Only] \in Cmds /\ slot' = NoAck
      /\ UNCHANGED <<devVars, img, rx, typeLost>> /\ GiveUpOrRetry(Only)
  BY DEF Timeout
<1>2. Answers' = <<>> /\ Len(Answers') = 0 /\ CmdAt = {} /\ Quiet
  BY <1>1 DEF Answers, CmdAt, Quiet
<1>3. \A c : ~OkAt(c, 1)'
  BY <1>2 DEF OkAt
<1>4. pc[Only] = "img" => /\ Filled(img[Only])
                          /\ sOpen => sExpect >= seq[Only] - 1
                          /\ sOpen /\ seq[Only] > 0 => sExpect >= 1
                          /\ ~Own(img[Only]) => /\ sExpect >= seq[Only]
                                                /\ sExpect <= Chunks(img[Only])
  BY DEF LateInv, Blocks
<1> QED
  BY <1>1, <1>2, <1>3, <1>4, GaveUpLate

\* A session with nothing in it is as good for one image as for another.
LEMMA FreshFilled ==
    ASSUME DevTypeOK, NEW j, Session(j), sOpen => sExpect = 0
    PROVE  \A x : Filled(x)
<1>1. SUFFICES ASSUME sOpen PROVE \A x : Filled(x)
  BY DEF Filled
<1>2. /\ sRecv = sExpect * Chunk /\ sRecv <= sTotal /\ sBase + sTotal <= PartBytes
      /\ \A o \in 0 .. sTotal - 1 :
             flash[sBase + o] = IF o < sRecv THEN DataAt(j, o) ELSE Blank
  BY <1>1 DEF Session, Filled
<1>3. sRecv = 0
  BY <1>1, <1>2, SizesAssumption
<1>4. \A o \in 0 .. sTotal - 1 : ~(o < sRecv)
  BY <1>3 DEF DevTypeOK
<1> QED
  BY <1>2, <1>4 DEF Filled

\* The first timeout to come too early.
LEMMA FirstLate ==
    ASSUME StoredInv, TypeOK', Only \in Uploaders, Timeout(Only)
    PROVE  LateInv'
<1> DEFINE i == img[Only]
           s == seq[Only]
<1>1. /\ pc[Only] \in Cmds /\ slot' = NoAck
      /\ UNCHANGED <<devVars, img, rx, typeLost>> /\ GiveUpOrRetry(Only)
      /\ \A res \in Results : ~Answered(Only, res)
  BY DEF Timeout
<1>2. TypeOK /\ Alone /\ Along /\ DevTypeOK
  BY DEF StoredInv, TypeOK
<1>3. slot = NoAck
  <2> SUFFICES ASSUME slot \in Acks PROVE FALSE
    BY <1>2 DEF TypeOK
  <2>1. PICK c \in Cmds, res \in Results : slot = [cmd |-> c, res |-> res]
    BY DEF Acks
  <2>2. slot # NoAck
    BY NoAckAssumption
  <2>3. slot.cmd = pc[Only] /\ slot.cmd = c
    BY <1>2, <2>1, <2>2 DEF Alone
  <2> QED
    BY <1>1, <2>1, <2>3 DEF Answered
<1>4. Answers' = rx
  BY <1>1 DEF Answers
<1>5. /\ Len(Answers') \in {0, 1}
      /\ Len(Answers') = 1 => Quiet /\ rx # <<>> /\ Answers'[1].cmd = pc[Only]
  <2>1. rx \in Seq(Acks)
    BY <1>2 DEF TypeOK
  <2>2. CASE rx = <<>>
    BY <1>4, <2>2
  <2>3. CASE rx # <<>>
    BY <1>2, <1>4, <2>3 DEF Alone
  <2> QED
    BY <2>2, <2>3
<1>6. /\ \A j, k \in CmdAt : j = k
      /\ \A k \in CmdAt : Sent(tx[k])
  BY <1>2 DEF Alone, CmdAt
<1>7. \A c : OkAt(c, 1)' => Granted(c)
  <2> SUFFICES ASSUME NEW c, OkAt(c, 1)' PROVE Granted(c)
    OBVIOUS
  <2>1. 1 \in 1 .. Len(rx) /\ rx[1] = [cmd |-> c, res |-> "OK"]
    BY <1>4 DEF OkAt
  <2>2. rx # <<>>
    BY <2>1
  <2> QED
    BY <2>1, <2>2 DEF Granted
<1>8. pc[Only] \in {"img", "end"} => Filled(i) /\ Own(i)
  BY <1>2 DEF Along, Session, Filled, Own, Kind
<1>9. s \in Nat /\ sExpect \in Nat
  BY <1>2 DEF TypeOK, DevTypeOK
<1>10. ASSUME pc[Only] = "img"
       PROVE  /\ sOpen => sExpect >= s - 1
              /\ sOpen /\ s > 0 => sExpect >= 1
              /\ sOpen /\ OkAt("img", 1)' => sExpect >= s + 1
  <2>1. sOpen => sExpect >= s
    BY <1>2, <1>10 DEF Along
  <2>2. OkAt("img", 1)' /\ sOpen => sExpect >= s + 1
    BY <1>2, <1>7 DEF Along
  <2> HIDE DEF s
  <2>3. /\ sOpen => sExpect >= s - 1
        /\ sOpen /\ s > 0 => sExpect >= 1
    BY <1>9, <2>1
  <2> QED
    BY <2>2, <2>3
<1>11. OkAt("start", 1)' => \A x \in Images : (sOpen => sExpect = 0) /\ Filled(x)
  <2>1. Granted("start") => Session(i) /\ (sOpen => sExpect = 0)
    BY <1>2 DEF Along
  <2> QED
    BY <1>2, <1>7, <2>1, FreshFilled
<1> QED
  BY <1>1, <1>2, <1>5, <1>6, <1>8, <1>10, <1>11, GaveUpLate

\* With no late answer things are as they were without one; with one, as above.
UploadInv ==
    /\ TypeOK /\ OneThread /\ Asked
    /\ \/ late = MaxLate /\ StoredInv
       \/ late = MaxLate - 1 /\ LateInv

\* What is left of the bound on late answers changes by an early timeout only.
LEMMA LateChanges ==
    ASSUME TypeOK, [Next]_vars, late' # late
    PROVE  late' = late - 1 /\ \E u \in Uploaders : Timeout(u)
<1>1. \/ \E u \in Uploaders, i \in Images : Begin(u, i)
      \/ \E u \in Uploaders : GetOk(u) \/ GetErr(u)
      \/ Notify
      \/ \E f \in {ClrFrame, OnFrame(TRUE), OnFrame(FALSE)} : Click(f)
      \/ Receive
      \/ UNCHANGED vars
      => UNCHANGED late
  BY DEF Begin, GetOk, GetErr, Notify, Click, Receive, vars, bounds
<1>2. LoseFrame \/ GarbleFrame \/ GarbleStart \/ LoseAck \/ Reset => UNCHANGED late
  BY DEF LoseFrame, GarbleFrame, GarbleStart, LoseAck, Reset, Fault
<1>3. \E u \in Uploaders : Timeout(u)
  BY <1>1, <1>2 DEF Next, Thread
<1> QED
  BY <1>3 DEF Timeout

\* Uploads are right at the start.
THEOREM UploadInit == OneThread /\ Init => UploadInv
<1> SUFFICES ASSUME OneThread, Init PROVE UploadInv
  OBVIOUS
<1>1. TypeOK /\ Asked /\ StoredInv
  BY InitType, AskedInit, StoredInit
<1> QED
  BY <1>1 DEF UploadInv, Init

\* A step after the late answer, if no second one comes.
LEMMA AfterLate ==
    ASSUME KindsDiffer, OneThread, TypeOK, TypeOK', Asked, LateInv, [Next]_vars, UNCHANGED late
    PROVE  LateInv' /\ CommitStep /\ ResendStep
<1>1. Uploaders = {Only} /\ Only \in Uploaders
  BY DEF OneThread
<1>2. UNCHANGED devVars => CommitStep /\ ResendStep
  BY NoCommit DEF devVars, session, ResendStep
<1>3. ASSUME NEW u \in Uploaders, NEW i \in Images, Begin(u, i)
      PROVE  LateInv' /\ CommitStep /\ ResendStep
  BY <1>1, <1>2, <1>3, BeginLate DEF Begin
<1>4. ASSUME NEW u \in Uploaders, GetOk(u)
      PROVE  LateInv' /\ CommitStep /\ ResendStep
  BY <1>1, <1>2, <1>4, GetOkLate DEF GetOk
<1>5. ASSUME NEW u \in Uploaders, GetErr(u)
      PROVE  LateInv' /\ CommitStep /\ ResendStep
  BY <1>1, <1>2, <1>5, GetErrLate DEF GetErr
<1>6. ASSUME NEW u \in Uploaders, Timeout(u)
      PROVE  LateInv' /\ CommitStep /\ ResendStep
  <2>1. tx = <<>> /\ rx = <<>>
    BY <1>6 DEF Timeout, TypeOK
  <2>2. Timeout(Only) /\ UNCHANGED devVars
    BY <1>1, <1>6 DEF Timeout
  <2> QED
    BY <1>1, <1>2, <2>1, <2>2, TimeoutLate
<1> QED
  BY <1>1, <1>3, <1>4, <1>5, <1>6, ReceiveLate, FaultLate, ElseLate DEF Next, Thread

\* Every step with one late answer at most keeps them right, completes what it
\* commits and changes nothing by a repeated block.
THEOREM UploadNext ==
    KindsDiffer /\ UploadInv /\ OneLate' /\ [Next]_vars => UploadInv' /\ CommitStep /\ ResendStep
<1> SUFFICES ASSUME KindsDiffer, UploadInv, OneLate', [Next]_vars
             PROVE  UploadInv' /\ CommitStep /\ ResendStep
  OBVIOUS
<1>1. TypeOK /\ TypeOK' /\ OneThread /\ Asked /\ Asked' /\ Only \in Uploaders
  BY NextType, AskedNext DEF UploadInv, OneThread
<1>2. late \in Nat /\ late' \in Nat /\ MaxLate \in Nat /\ late' >= MaxLate - 1
  BY <1>1, BoundsAssumption DEF TypeOK, OneLate
<1>3. CASE late = MaxLate /\ StoredInv
  <2>1. CASE late' = late
    BY <1>1, <1>3, <2>1, StoredNext DEF NoLate, UploadInv
  <2>2. CASE late' # late
    <3>1. late' = MaxLate - 1 /\ Timeout(Only)
      BY <1>1, <1>3, <2>2, LateChanges DEF OneThread
    <3>2. LateInv' /\ CommitStep /\ ResendStep
      BY <1>1, <1>3, <3>1, FirstLate, NoCommit DEF Timeout, devVars, session, ResendStep
    <3> QED
      BY <1>1, <3>1, <3>2 DEF UploadInv
  <2> QED
    BY <2>1, <2>2
<1>4. CASE late = MaxLate - 1 /\ LateInv
  <2>1. UNCHANGED late
    BY <1>1, <1>2, <1>4, LateChanges
  <2>2. LateInv' /\ CommitStep /\ ResendStep
    BY <1>1, <1>4, <2>1, AfterLate
  <2> QED
    BY <1>1, <1>4, <2>1, <2>2 DEF UploadInv
<1> QED
  BY <1>3, <1>4 DEF UploadInv

\* A success reported in such a state is one.
LEMMA UploadHostOk ==
    ASSUME UploadInv
    PROVE  HostOkMeansStored
<1>1. pc[Only] = "ok" => Stored(img[Only])
  BY DEF UploadInv, StoredInv, Along, LateInv, Between, Done
<1> QED
  BY <1>1 DEF UploadInv, OneThread, HostOkMeansStored, Stored

\* When the thread reports success the flash holds the image the user picked, in
\* its area or, if the IMGSTART lost its type, in the wallpaper's, whatever frames
\* and answers were lost or damaged and whenever the clock was reset, and though
\* one answer come after its timeout.
THEOREM HostOkOneLate ==
    OneThread /\ KindsDiffer => (Spec /\ []OneLate => []HostOkMeansStored)
<1> SUFFICES ASSUME OneThread, KindsDiffer PROVE Spec /\ []OneLate => []HostOkMeansStored
  OBVIOUS
<1>1. Init => UploadInv
  BY UploadInit
<1>2. UploadInv /\ OneLate' /\ [Next]_vars => UploadInv'
  BY UploadNext
<1>3. UploadInv => HostOkMeansStored
  BY UploadHostOk
<1> QED
  BY <1>1, <1>2, <1>3, PTL DEF Spec

\* What the device commits as complete is one image, all of it, of the kind the
\* session was asked for, though one answer come after its timeout.
THEOREM CommitCompleteOneLate ==
    OneThread /\ KindsDiffer => (Spec /\ []OneLate => CommitComplete)
<1> SUFFICES ASSUME OneThread, KindsDiffer PROVE Spec /\ []OneLate => CommitComplete
  OBVIOUS
<1>1. Init => UploadInv
  BY UploadInit
<1>2. UploadInv /\ OneLate' /\ [Next]_vars => UploadInv'
  BY UploadNext
<1>3. UploadInv /\ OneLate' /\ [Next]_vars =>
        [Commits /\ sTotal > 0 =>
             \E i \in Images : Type(i) = Kind /\ HoldsAt(i, imgType)]_vars
  BY UploadNext DEF CommitStep
<1> QED
  BY <1>1, <1>2, <1>3, PTL DEF Spec, CommitComplete

\* A block sent again never changes what the flash holds, though one answer
\* come after its timeout.
THEOREM ResendIdempotentOneLate ==
    OneThread /\ KindsDiffer => (Spec /\ []OneLate => ResendIdempotent)
<1> SUFFICES ASSUME OneThread, KindsDiffer PROVE Spec /\ []OneLate => ResendIdempotent
  OBVIOUS
<1>1. Init => UploadInv
  BY UploadInit
<1>2. UploadInv /\ OneLate' /\ [Next]_vars => UploadInv'
  BY UploadNext
<1>3. UploadInv /\ OneLate' /\ [Next]_vars =>
        [sOpen /\ sOpen' /\ sExpect' = sExpect /\ sRecv' = sRecv /\ sExpect > 0
             => flash' = flash]_vars
  BY UploadNext DEF ResendStep
<1> QED
  BY <1>1, <1>2, <1>3, PTL DEF Spec, ResendIdempotent

\* All three without a premise on the behaviour, where the bound admits one late
\* answer, as it does in the run.
THEOREM UploadOneLate ==
    OneThread /\ KindsDiffer /\ MaxLate <= 1 =>
        (Spec => []HostOkMeansStored /\ CommitComplete /\ ResendIdempotent)
<1> SUFFICES ASSUME OneThread, KindsDiffer, MaxLate <= 1
             PROVE  Spec => []HostOkMeansStored /\ CommitComplete /\ ResendIdempotent
  OBVIOUS
<1>1. TypeOK => OneLate
  BY BoundsAssumption DEF TypeOK, OneLate
<1>2. Spec => []TypeOK
  BY TypeCorrect
<1>3. /\ Spec /\ []OneLate => []HostOkMeansStored
      /\ Spec /\ []OneLate => CommitComplete
      /\ Spec /\ []OneLate => ResendIdempotent
  BY HostOkOneLate, CommitCompleteOneLate, ResendIdempotentOneLate
<1> QED
  BY <1>1, <1>2, <1>3, PTL
==============================================================================
