-------------------------------- MODULE ImgDev --------------------------------
(***************************************************************************)
(* The clock's side of an image upload: the upload session of              *)
(* xcmd/img_upload.c and the commands of xcmd/xcmd.c that drive it.        *)
(* One action per command handler; its last parameter r is the result the  *)
(* handler acknowledges with.  The handlers run one at a time in the event *)
(* loop task, so each is one step.                                         *)
(*                                                                         *)
(* bl_mtd_erase and bl_mtd_write always return 0 (sdk bl_mtd.c), so the    *)
(* "mtd fail" and "write fail" paths never run in this build.  Showing and *)
(* hiding the wallpaper object is the display's matter.                    *)
(***************************************************************************)
EXTENDS Media

VARIABLES
    flash,      \* contents of the media partition
    sOpen,      \* s_h # NULL: a session is open
    sTotal,     \* s_total
    sRecv,      \* s_recv
    sExpect,    \* s_expect_seq
    sBase,      \* s_base
    imgType,    \* s_img_type of xcmd.c
    valid,      \* w_bootimg and wall_valid, kept in flash by EasyFlash
    bootOn      \* w_booton, kept in flash by EasyFlash

session == <<sOpen, sTotal, sRecv, sExpect, sBase, imgType>>
flags == <<valid, bootOn>>
devVars == <<flash, session, flags>>

Results == {"OK", "ERR"}

DevTypeOK ==
    /\ flash \in [Cell -> Content]
    /\ sOpen \in BOOLEAN
    /\ sTotal \in Nat /\ sRecv \in Nat /\ sExpect \in Nat
    /\ sBase \in {Base(t) : t \in Types}
    /\ imgType \in Types
    /\ valid \in [Types -> BOOLEAN]
    /\ bootOn \in BOOLEAN

\* RAM after reset; w_booton absent counts as on (main.c boot_logo_show).
SessionInit ==
    /\ sOpen = FALSE /\ sTotal = 0 /\ sRecv = 0 /\ sExpect = 0
    /\ sBase = 0 /\ imgType = "wall"

DevInit ==
    /\ flash = [c \in Cell |-> IF c \in CounterCells THEN Count ELSE Blank]
    /\ SessionInit
    /\ valid = [t \in Types |-> FALSE]
    /\ bootOn = TRUE

-----------------------------------------------------------------------------
\* Mutant of ImgStart: erases to the end of the partition.
ImgStartErasesAll(t, total, r) ==
    /\ sBase' = Base(t)
    /\ total <= PartBytes - Base(t)
    /\ r = "OK"
    /\ flash' = Erase(flash, Base(t), PartBytes - Base(t))
    /\ sOpen' = TRUE /\ sTotal' = total /\ sRecv' = 0 /\ sExpect' = 0
    /\ imgType' = t
    /\ UNCHANGED flags

\* #XIMGSTART: close any open session, check the size, erase the area, open.
\* The size is checked against everything from the base to the partition's end.
ImgStart(t, total, r) ==
    /\ sBase' = Base(t)
    /\ \/ /\ total > PartBytes - Base(t)
          /\ r = "ERR"
          /\ sOpen' = FALSE
          /\ UNCHANGED <<flash, sTotal, sRecv, sExpect, imgType>>
       \/ /\ total <= PartBytes - Base(t)
          /\ r = "OK"
          /\ flash' = Erase(flash, Base(t), CeilTo(total, Sector))
          /\ sOpen' = TRUE
          /\ sTotal' = total
          /\ sRecv' = 0
          /\ sExpect' = 0
          /\ imgType' = t
    /\ UNCHANGED flags

\* img_upload_chunk takes a block that is the next one or a repeat, and fits.
Accepts(seq) == /\ sOpen
                /\ seq <= sExpect
                /\ seq * Chunk + Chunk <= sTotal

\* Mutant of ImgChunk: a repeated block counts as progress.
ImgChunkCountsRepeats(seq, i, r) ==
    /\ Accepts(seq)
    /\ r = "OK"
    /\ flash' = Program(flash, sBase + seq * Chunk, i, seq)
    /\ sExpect' = sExpect + 1
    /\ sRecv' = (sExpect + 1) * Chunk
    /\ UNCHANGED <<sOpen, sTotal, sBase, imgType, flags>>

\* Mutant of ImgChunk: the place of a block is the progress made, not its number.
ImgChunkByProgress(seq, i, r) ==
    /\ Accepts(seq)
    /\ r = "OK"
    /\ flash' = Program(flash, sBase + sRecv, i, seq)
    /\ sExpect' = IF seq = sExpect THEN sExpect + 1 ELSE sExpect
    /\ sRecv' = IF seq = sExpect THEN (sExpect + 1) * Chunk ELSE sRecv
    /\ UNCHANGED <<sOpen, sTotal, sBase, imgType, flags>>

\* #XIMG whose checksum is right, carrying block seq of image i.
ImgChunk(seq, i, r) ==
    /\ \/ /\ ~Accepts(seq)
          /\ r = "ERR"
          /\ UNCHANGED <<flash, sExpect, sRecv>>
       \/ /\ Accepts(seq)
          /\ r = "OK"
          /\ flash' = Program(flash, sBase + seq * Chunk, i, seq)
          /\ sExpect' = IF seq = sExpect THEN sExpect + 1 ELSE sExpect
          /\ sRecv' = IF seq = sExpect THEN (sExpect + 1) * Chunk ELSE sRecv
    /\ UNCHANGED <<sOpen, sTotal, sBase, imgType, flags>>

\* Mutant of Finishes: the total is not checked.
FinishesUnchecked == sOpen

\* img_upload_finish and what cmd_imgend does when it succeeds.
Finishes == sOpen /\ sRecv = sTotal

ImgEnd(r) ==
    /\ \/ /\ ~Finishes
          /\ r = "ERR"
          /\ UNCHANGED <<sOpen, flags>>
       \/ /\ Finishes
          /\ r = "OK"
          /\ sOpen' = FALSE
          /\ valid' = [valid EXCEPT ![imgType] = TRUE]
          /\ bootOn' = (bootOn \/ imgType = "boot")
    /\ UNCHANGED <<flash, sTotal, sRecv, sExpect, sBase, imgType>>

\* #XBOOTCLR: forget the boot image; the data stays in flash.
BootClr ==
    /\ valid' = [valid EXCEPT !["boot"] = FALSE]
    /\ UNCHANGED <<flash, session, bootOn>>

\* #XBOOTIMG: the handler tests the decoded byte itself, not the digit it encodes.
BootImg(byte) ==
    /\ bootOn' = (byte # 0)
    /\ UNCHANGED <<flash, session, valid>>

\* A reset loses the session and keeps what is in flash.
DevReset ==
    /\ sOpen' = FALSE /\ sTotal' = 0 /\ sRecv' = 0 /\ sExpect' = 0
    /\ sBase' = 0 /\ imgType' = "wall"
    /\ UNCHANGED <<flash, flags>>
==============================================================================
