-------------------------------- MODULE Media --------------------------------
(***************************************************************************)
(* The "media" flash partition as the image code uses it: one area for the *)
(* boot image, one for the wallpaper, and the boot counter in the last     *)
(* sector (xcmd/img_upload.c, xcmd/img_upload.h, xcmd/bootcnt.c; the flash *)
(* driver in sdk/ is external and modelled by what it does).               *)
(*                                                                         *)
(* The unit is a cell.  The build has PartBytes = 290816, BootBytes =      *)
(* 140800, WallBytes = 121600, Chunk = 1000 and Sector = 4096; a smaller   *)
(* instance keeps the relations between them (BootBytes is a multiple of   *)
(* neither Chunk nor Sector).                                              *)
(***************************************************************************)
EXTENDS Integers

CONSTANTS PartBytes,    \* size of the partition
          BootBytes,    \* IMG_BOOT_BYTES: size of a boot image, base of the wallpaper
          WallBytes,    \* IMG_WALL_BYTES: size of a wallpaper
          Sector,       \* erase unit of the flash
          Chunk,        \* CHUNK: data bytes in one #XIMG frame
          BootImages,   \* boot images the user may pick
          WallImages,   \* wallpapers the user may pick
          Blank,        \* an erased cell
          Pad,          \* a padding zero
          Mixed,        \* two images over each other
          Count         \* a cell of the boot counter's sector

Images == BootImages \cup WallImages
Types == {"wall", "boot"}
Cell == 0 .. PartBytes - 1
Content == Images \cup {Blank, Pad, Mixed, Count}

ASSUME SizesAssumption ==
    /\ PartBytes \in Nat /\ BootBytes \in Nat /\ WallBytes \in Nat
    /\ Sector \in Nat \ {0} /\ Chunk \in Nat \ {0}
    /\ BootBytes <= PartBytes /\ Sector <= PartBytes

ASSUME ContentAssumption ==
    /\ BootImages \cap WallImages = {}
    /\ {Blank, Pad, Mixed, Count} \cap Images = {}
    /\ \A x \in {Pad, Mixed, Count} : x # Blank
    /\ Pad # Mixed /\ Count # Pad /\ Count # Mixed

Type(i) == IF i \in BootImages THEN "boot" ELSE "wall"
Size(i) == IF i \in BootImages THEN BootBytes ELSE WallBytes

\* Where an upload of a type starts: the wallpaper lies after the boot image.
Base(t) == IF t = "boot" THEN 0 ELSE BootBytes

CeilTo(n, unit) == ((n + unit - 1) \div unit) * unit

\* What the host sends: the image padded with zeros to whole chunks.
PaddedSize(i) == CeilTo(Size(i), Chunk)
Chunks(i) == PaddedSize(i) \div Chunk
DataAt(i, o) == IF o < Size(i) THEN i ELSE Pad

\* The flash driver erases whole sectors: every sector that [addr, addr+len) meets.
EraseCells(addr, len) ==
    IF len = 0 THEN {}
    ELSE (addr \div Sector) * Sector .. ((addr + len - 1) \div Sector + 1) * Sector - 1

Erase(f, addr, len) ==
    [c \in Cell |-> IF c \in EraseCells(addr, len) THEN Blank ELSE f[c]]

\* Programming a NOR cell only clears bits: zeros stay, and two images mix.
ProgramCell(old, new) ==
    CASE old = Blank -> new
      [] old = new   -> new
      [] Pad \in {old, new} -> Pad
      [] OTHER -> Mixed

\* bl_mtd_write of chunk seq of image i at addr.
Program(f, addr, i, seq) ==
    [c \in Cell |-> IF c \in addr .. addr + Chunk - 1
                    THEN ProgramCell(f[c], DataAt(i, seq * Chunk + (c - addr)))
                    ELSE f[c]]

\* The first sector boundary behind what an upload of total to t's area may erase.
Reach(t, total) == ((Base(t) + CeilTo(total, Sector) - 1) \div Sector + 1) * Sector

\* A total the size check of img_upload_start admits at t's base ends in time.
Clear(t, total) == total <= PartBytes - Base(t) => Reach(t, total) <= PartBytes - Sector

\* The build: 143360 for a boot image and 266240 for a wallpaper, before 286720.
\* A boot image sent to the wallpaper's base ends at 286720 itself.
ASSUME LayoutAssumption ==
    \A i \in Images : /\ Reach(Type(i), PaddedSize(i)) <= PartBytes - Sector
                     /\ Clear("wall", PaddedSize(i))

\* The boot counter's sector.
CounterCells == PartBytes - Sector .. PartBytes - 1
==============================================================================
