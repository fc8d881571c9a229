------------------------------- MODULE ImgUpload -------------------------------
(***************************************************************************)
(* An image upload from the PC tool to the clock: the upload threads of    *)
(* serial_tool/app/wall_upload.py and the AckWaiter they share, the serial *)
(* link with the faults its comments speak of (lost bytes at 2 Mbaud), and *)
(* the device of ImgDev, which may be reset at any time.                   *)
(*                                                                         *)
(* tx is the worker's FIFO queue and the wire behind it; rx is the wire    *)
(* back and the queue of Qt signals that ends in AckWaiter.notify.         *)
(***************************************************************************)
EXTENDS ImgDev, Sequences

CONSTANTS Uploaders,    \* upload threads that may exist at once
          Retries,      \* attempts per block (5 in the tool)
          MaxUploads,   \* bound: uploads started in a behaviour
          MaxFaults,    \* bound: link faults and resets in a behaviour
          MaxLate,      \* bound: answers that come after their timeout
          MaxClicks,    \* bound: boot image buttons pressed in a behaviour
          GarbledTotals,    \* totals an IMGSTART with lost bytes may carry
          NoAck         \* the waiter's slot is empty

ASSUME BoundsAssumption ==
    /\ Retries \in Nat \ {0}
    /\ MaxUploads \in Nat /\ MaxFaults \in Nat /\ MaxLate \in Nat /\ MaxClicks \in Nat

\* The tool sends 000226c8,01 and 0001dc90 (141000 and 122000).  Striking out
\* bytes of these never leaves a whole number of chunks but 0, the total itself
\* and 2256000, which no area has room for.  A total larger than the image's takes
\* the loss of the comma; at the wallpaper's base it is refused or ends before the
\* counter (the largest that is admitted is 142465, the smallest refused 157697).
ASSUME GarbledAssumption ==
    /\ GarbledTotals \subseteq Nat
    /\ \A n \in GarbledTotals : /\ n = 0 \/ n % Chunk # 0 \/ n > PartBytes
                              /\ Clear("wall", n)

VARIABLES
    pc,         \* where each upload thread is in run()
    img,        \* the image it uploads
    seq,        \* the block it is sending
    attempt,    \* and which attempt this is
    slot,       \* AckWaiter._result
    tx, rx,     \* frames to the device, acknowledgements to the tool
    typeLost,   \* history: the newest IMGSTART to arrive had lost its type
    uploads, faults, late, clicks   \* what is left of the bounds

thread == <<pc, img, seq, attempt>>
bounds == <<uploads, faults, late, clicks>>
vars == <<devVars, thread, slot, tx, rx, typeLost, bounds>>

\* A thread waits in "start", "img" and "end" for the ack of that command.
Cmds == {"start", "img", "end"}
Done == {"idle", "ok", "fail"}

StartFrame(i) == [cmd |-> "start", type |-> Type(i), total |-> PaddedSize(i)]
ImgFrame(i, s) == [cmd |-> "img", img |-> i, seq |-> s]
EndFrame == [cmd |-> "end"]
ClrFrame == [cmd |-> "bootclr"]
\* build_bootimg sends the code of the digit: "1" is 49, "0" is 48.
OnFrame(on) == [cmd |-> "bootimg", byte |-> IF on THEN 49 ELSE 48]

Frames == [cmd : {"start"}, type : Types, total : Nat]
          \cup [cmd : {"img"}, img : Images, seq : Nat]
          \cup [cmd : {"end", "bootclr"}]
          \cup [cmd : {"bootimg"}, byte : Nat]
Acks == [cmd : Cmds, res : Results]

ASSUME NoAckAssumption == NoAck \notin Acks

TypeOK ==
    /\ DevTypeOK
    /\ pc \in [Uploaders -> Cmds \cup Done]
    /\ img \in [Uploaders -> Images]
    /\ seq \in [Uploaders -> Nat]
    /\ attempt \in [Uploaders -> 1 .. Retries]
    /\ slot \in Acks \cup {NoAck}
    /\ tx \in Seq(Frames)
    /\ rx \in Seq(Acks)
    /\ typeLost \in BOOLEAN
    /\ uploads \in Nat /\ faults \in Nat /\ late \in Nat /\ clicks \in Nat

Init ==
    /\ DevInit
    /\ pc = [u \in Uploaders |-> "idle"]
    /\ img \in [Uploaders -> Images]
    /\ seq = [u \in Uploaders |-> 0]
    /\ attempt = [u \in Uploaders |-> 1]
    /\ slot = NoAck
    /\ tx = <<>> /\ rx = <<>>
    /\ typeLost = FALSE
    /\ uploads = MaxUploads /\ faults = MaxFaults /\ late = MaxLate /\ clicks = MaxClicks

-----------------------------------------------------------------------------
(* The upload threads. *)

Send(f) == tx' = Append(tx, f)

\* A button starts a thread, whose first act is to send IMGSTART.  (The
\* wallpaper page passes its widget where the type belongs, wifi_widget.py:581-582,
\* so that its thread fails before it sends; the thread here is WallUploadThread
\* as it is written, called with type 0.)
Begin(u, i) ==
    /\ pc[u] \in Done
    /\ uploads > 0
    /\ uploads' = uploads - 1
    /\ pc' = [pc EXCEPT ![u] = "start"]
    /\ img' = [img EXCEPT ![u] = i]
    /\ Send(StartFrame(i))
    /\ UNCHANGED <<devVars, seq, attempt, slot, rx, typeLost, faults, late, clicks>>

\* AckWaiter.wait returns the slot if it names the command waited for;
\* it compares neither block numbers nor threads.
Answered(u, res) == slot = [cmd |-> pc[u], res |-> res]

\* Send block s for the n-th time.
SendBlock(u, s, n) ==
    /\ seq' = [seq EXCEPT ![u] = s]
    /\ attempt' = [attempt EXCEPT ![u] = n]
    /\ pc' = [pc EXCEPT ![u] = "img"]
    /\ Send(ImgFrame(img[u], s))

\* All blocks are acknowledged.
SendEnd(u) ==
    /\ pc' = [pc EXCEPT ![u] = "end"]
    /\ Send(EndFrame)
    /\ UNCHANGED <<seq, attempt>>

Finish(u, how) ==
    /\ pc' = [pc EXCEPT ![u] = how]
    /\ UNCHANGED <<seq, attempt, tx>>

\* Block n + 1 comes after block n, and IMGEND after the last.
NextBlock(u, s) == IF s < Chunks(img[u]) THEN SendBlock(u, s, 1) ELSE SendEnd(u)

GetOk(u) ==
    /\ Answered(u, "OK")
    /\ slot' = NoAck
    /\ \/ pc[u] = "start" /\ NextBlock(u, 0)
       \/ pc[u] = "img" /\ NextBlock(u, seq[u] + 1)
       \/ pc[u] = "end" /\ Finish(u, "ok")
    /\ UNCHANGED <<devVars, img, rx, typeLost, bounds>>

\* Mutant of GiveUpOrRetry: one attempt too many.
GiveUpOrRetryOnceMore(u) ==
    IF pc[u] = "img" /\ attempt[u] <= Retries
    THEN SendBlock(u, seq[u], attempt[u] + 1)
    ELSE Finish(u, "fail")

\* Mutant of GiveUpOrRetry: attempts are not counted.
GiveUpOrRetryForever(u) ==
    IF pc[u] = "img" THEN SendBlock(u, seq[u], attempt[u]) ELSE Finish(u, "fail")

\* An attempt failed: only blocks are tried again.
GiveUpOrRetry(u) ==
    IF pc[u] = "img" /\ attempt[u] < Retries
    THEN SendBlock(u, seq[u], attempt[u] + 1)
    ELSE Finish(u, "fail")

GetErr(u) ==
    /\ Answered(u, "ERR")
    /\ slot' = NoAck
    /\ GiveUpOrRetry(u)
    /\ UNCHANGED <<devVars, img, rx, typeLost, bounds>>

\* wait() times out and empties the slot.  While an answer may still come
\* this is an early timeout, and counts against the bound.
Timeout(u) ==
    /\ pc[u] \in Cmds
    /\ \A res \in Results : ~Answered(u, res)
    /\ IF tx = <<>> /\ rx = <<>>
       THEN UNCHANGED late
       ELSE late > 0 /\ late' = late - 1
    /\ slot' = NoAck
    /\ GiveUpOrRetry(u)
    /\ UNCHANGED <<devVars, img, rx, typeLost, uploads, faults, clicks>>

\* on_ack in the GUI thread: the newest ack replaces one nobody has taken.
Notify ==
    /\ rx # <<>>
    /\ slot' = Head(rx)
    /\ rx' = Tail(rx)
    /\ UNCHANGED <<devVars, thread, tx, typeLost, bounds>>

\* The boot image buttons may be pressed at any time.
Click(f) ==
    /\ clicks > 0
    /\ clicks' = clicks - 1
    /\ Send(f)
    /\ UNCHANGED <<devVars, thread, slot, rx, typeLost, uploads, faults, late>>

-----------------------------------------------------------------------------
(* The device takes frames in order and acknowledges each. *)

Reply(cmd, r) == rx' = Append(rx, [cmd |-> cmd, res |-> r])

Receive ==
    /\ tx # <<>>
    /\ tx' = Tail(tx)
    /\ LET f == Head(tx) IN
       \/ \E r \in Results :
             /\ \/ f.cmd = "start" /\ ImgStart(f.type, f.total, r)
                \/ f.cmd = "img" /\ ImgChunk(f.seq, f.img, r)
                \/ f.cmd = "end" /\ ImgEnd(r)
             /\ Reply(f.cmd, r)
             /\ typeLost' = (typeLost /\ f.cmd # "start")
       \/ f.cmd = "bootclr" /\ BootClr /\ UNCHANGED <<rx, typeLost>>
       \/ f.cmd = "bootimg" /\ BootImg(f.byte) /\ UNCHANGED <<rx, typeLost>>
    /\ UNCHANGED <<thread, slot, bounds>>

Fault == faults > 0 /\ faults' = faults - 1 /\ UNCHANGED <<uploads, late, clicks>>

\* Bytes of the frame are lost: it reaches no handler, or answers UNKNOWN.
LoseFrame ==
    /\ tx # <<>> /\ Fault
    /\ tx' = Tail(tx)
    /\ UNCHANGED <<devVars, thread, slot, rx, typeLost>>

\* A block with lost bytes fails a length or checksum test of cmd_img, an
\* IMGSTART that lost its total the test of cmd_imgstart.
GarbleFrame ==
    /\ tx # <<>> /\ Fault
    /\ Head(tx).cmd \in {"start", "img"}
    /\ tx' = Tail(tx)
    /\ Reply(Head(tx).cmd, "ERR")
    /\ UNCHANGED <<devVars, thread, slot, typeLost>>

\* IMGSTART has no checksum.  Lost digits make the total smaller; the type is
\* optional and, lost, leaves cmd_imgstart with the wallpaper it assumes.  (A
\* wallpaper's frame carries no type.)
GarbleStart ==
    /\ tx # <<>> /\ Fault
    /\ Head(tx).cmd = "start"
    /\ tx' = Tail(tx)
    /\ \E total \in GarbledTotals \cup {Head(tx).total}, t \in {Head(tx).type, "wall"},
          r \in Results :
          /\ t = Head(tx).type => total < Head(tx).total
          /\ ImgStart(t, total, r)
          /\ Reply("start", r)
          /\ typeLost' = (t # Head(tx).type)
    /\ UNCHANGED <<thread, slot>>

LoseAck ==
    /\ rx # <<>> /\ Fault
    /\ rx' = Tail(rx)
    /\ UNCHANGED <<devVars, thread, slot, tx, typeLost>>

Reset ==
    /\ Fault
    /\ DevReset
    /\ UNCHANGED <<thread, slot, tx, rx, typeLost>>

-----------------------------------------------------------------------------
Thread(u) == GetOk(u) \/ GetErr(u) \/ Timeout(u)

Next ==
    \/ \E u \in Uploaders, i \in Images : Begin(u, i)
    \/ \E u \in Uploaders : Thread(u)
    \/ Notify
    \/ \E f \in {ClrFrame, OnFrame(TRUE), OnFrame(FALSE)} : Click(f)
    \/ Receive
    \/ LoseFrame \/ GarbleFrame \/ GarbleStart \/ LoseAck \/ Reset

\* The threads, the Qt event loop and the device's event loop keep running.
Fairness ==
    /\ \A u \in Uploaders : WF_vars(Thread(u))
    /\ WF_vars(Notify)
    /\ WF_vars(Receive)

Spec == Init /\ [][Next]_vars /\ Fairness

-----------------------------------------------------------------------------
HoldsAt(i, t) == \A o \in 0 .. Size(i) - 1 : flash[Base(t) + o] = i
Holds(i) == HoldsAt(i, Type(i))

\* The area an image goes to: its own, unless its IMGSTART lost the type.
Place(i) == IF typeLost THEN "wall" ELSE Type(i)

\* The kind of image the session was asked for.
Kind == IF typeLost THEN "boot" ELSE imgType

\* When a thread reports success, the flash holds the image the user picked,
\* pixel for pixel, whatever was lost, repeated or reset on the way and with an
\* answer that came late (wall_upload.py run(), cmd_imgend): in its own area,
\* or, if the IMGSTART lost its type, in the wallpaper's.  So a boot image
\* reported stored may not be the boot image: nothing in the protocol tells the
\* tool, and this is the one way a success goes wrong.
HostOkMeansStored == \A u \in Uploaders : pc[u] = "ok" => HoldsAt(img[u], Place(img[u]))

\* The device takes an IMGEND and closes the session as complete.
Commits == /\ tx # <<>> /\ Head(tx) = EndFrame /\ tx' = Tail(tx)
           /\ sOpen /\ ~sOpen'

\* When the device closes a session as complete and flags its area valid, the
\* area holds one image, all of it, of the kind the session was asked for
\* (img_upload_finish, cmd_imgend).  That is the area's kind unless the type
\* was lost: then wall_valid is set for a boot image.
CommitComplete ==
    [][Commits /\ sTotal > 0 =>
          \E i \in Images : Type(i) = Kind /\ HoldsAt(i, imgType)]_vars

\* A block sent again never changes what the flash holds (img_upload.h:
\* a resend is idempotent).
ResendIdempotent ==
    [][sOpen /\ sOpen' /\ sExpect' = sExpect /\ sRecv' = sRecv /\ sExpect > 0
          => flash' = flash]_vars

\* Neither erasing nor writing an image reaches the boot counter's sector
\* (bootcnt.c keeps it in the same partition).
CounterSectorSafe == \A c \in CounterCells : flash[c] = Count

\* An upload ends: the thread reports success or failure (timeouts and the
\* limit on attempts see to it).
UploadEnds == \A u \in Uploaders : pc[u] \in Cmds ~> pc[u] \in Done

\* An image that is stored and flagged valid is still there after a step that
\* works on the other kind's area (img_upload.c:6 "each erased and written by
\* area, without interference").
OtherAreaUntouched ==
    [][\A i \in Images : valid[Type(i)] /\ Holds(i) /\ Type(i) # imgType' => Holds(i)']_vars
==============================================================================
