---------------------------- MODULE WallPlayProofs ----------------------------
(***************************************************************************)
(* Safety of wallpaper playback, for every length of the transitions and   *)
(* every number of commands.                                               *)
(***************************************************************************)
EXTENDS WallPlay, TLAPS

-----------------------------------------------------------------------------
(* What the parts of the steps do to the wallpaper and the clock. *)

Images == [hid : BOOLEAN, home : BOOLEAN, opaque : BOOLEAN, full : BOOLEAN]

\* At rest: at its place, opaque, of full size.
LEMMA StillMeans ==
    ASSUME NEW i \in Images
    PROVE  i = Still(i.hid) <=> (i.home = TRUE /\ i.opaque = TRUE /\ i.full = TRUE)
BY DEF Still, Images

\* Hiding or showing changes nothing else.
LEMMA HidOnly ==
    ASSUME NEW i \in Images, NEW b \in BOOLEAN
    PROVE  LET j == [i EXCEPT !.hid = b]
           IN  j \in Images /\ j.hid = b /\ (i = Still(i.hid) => j = Still(j.hid))
<1> DEFINE j == [i EXCEPT !.hid = b]
<1>1. j \in Images /\ j.hid = b /\ j.home = i.home /\ j.opaque = i.opaque
      /\ j.full = i.full
  BY DEF Images
<1> HIDE DEF j
<1>2. i = Still(i.hid) => j = Still(j.hid)
  BY <1>1, StillMeans
<1> QED
  BY <1>1, <1>2 DEF j

\* The picture and its transition, as far as they concern each other.
Pictures == TypeOK /\ AtRest /\ NeverBoth

PicturesNext ==
    /\ img' \in Images
    /\ {uiHid', uiHome', savedHome', target'} \subseteq BOOLEAN
    /\ kind' \in Moving \cup {"off"}
    /\ frame' \in Nat /\ (kind' # "off" => frame' < Frames(kind'))
    /\ timers' \in 0 .. 1
    /\ AtRest' /\ NeverBoth'

\* A transition that is ended leaves nothing behind.
LEMMA SettleRests ==
    ASSUME Pictures, kind # "off", NEW show \in BOOLEAN, Settle(show), frame' \in Nat
    PROVE  PicturesNext
<1>1. img' = Still(~show) /\ uiHid' = show /\ uiHome' = savedHome
      /\ kind' = "off" /\ timers' = 0 /\ target' = target /\ savedHome' = savedHome
  BY DEF Pictures, AtRest, Settle
<1>2. Still(~show) \in Images /\ Still(~show).hid = ~show
  BY DEF Still, Images
<1>3. AtRest' /\ NeverBoth'
  BY <1>1, <1>2 DEF AtRest, NeverBoth
<1> QED
  BY <1>1, <1>2, <1>3 DEF PicturesNext, Pictures, TypeOK

\* Showing a picture at once, without a transition under way or beside one.
LEMMA FinalKeeps ==
    ASSUME Pictures, NEW show \in BOOLEAN, Final(show), UNCHANGED animation
    PROVE  PicturesNext
<1>1. img' = [img EXCEPT !.hid = ~show] /\ uiHid' = show /\ uiHome' = uiHome
  BY DEF Final
<1>2. img \in Images
  BY DEF Pictures, TypeOK, Images
<1>3. img' \in Images /\ img'.hid = ~show
      /\ (img = Still(img.hid) => img' = Still(img'.hid))
  BY <1>1, <1>2, HidOnly
<1>4. AtRest' /\ NeverBoth'
  BY <1>1, <1>3 DEF AtRest, NeverBoth, Pictures, animation
<1> QED
  BY <1>1, <1>3, <1>4 DEF PicturesNext, Pictures, TypeOK, animation

\* A transition starts only when none is under way, with the clock hidden.
LEMMA StartHides ==
    ASSUME Pictures, kind = "off", NEW k \in Moving, NEW show \in BOOLEAN, Start(k, show)
    PROVE  PicturesNext
<1>1. img \in Images
  BY DEF Pictures, TypeOK, Images
<1>2. img' \in Images
  <2>1. CASE k = "fade"   BY <1>1, <2>1 DEF Start, Images
  <2>2. CASE k = "zoom"   BY <1>1, <2>2 DEF Start, Images
  <2>3. CASE k = "slide"  BY <1>1, <2>3 DEF Start, Images
  <2> QED
    BY <2>1, <2>2, <2>3 DEF Moving
<1>3. kind' = k /\ frame' = 0 /\ timers' = 1 /\ uiHid' = TRUE /\ target' = show
      /\ uiHome' = uiHome
  BY DEF Start, Pictures, AtRest
<1>4. savedHome' \in BOOLEAN
  BY DEF Start, Pictures, TypeOK
<1>5. 0 < Frames(k)
  BY FramesAssumption DEF Frames
<1>6. AtRest' /\ NeverBoth'
  BY <1>3 DEF AtRest, NeverBoth, Moving
<1> QED
  BY <1>2, <1>3, <1>4, <1>5, <1>6 DEF PicturesNext, Pictures, TypeOK

\* img_wall_set_vis, whether a transition is under way or not.
LEMMA SetVisKeeps ==
    ASSUME Pictures, NEW show \in BOOLEAN, SetVis(show)
    PROVE  PicturesNext
<1>1. CASE kind # "off" /\ Settle(show) /\ UNCHANGED frame
  BY <1>1, SettleRests DEF Pictures, TypeOK
<1>2. CASE Final(show) /\ UNCHANGED animation
  BY <1>2, FinalKeeps
<1>3. CASE /\ kind = "off"
           /\ \E k \in IF anim = "random" THEN Moving ELSE {anim} : Start(k, show)
           /\ anim # "none"
  <2>1. anim \in Moving \cup {"none", "random"}
    BY DEF Pictures, TypeOK, Settings
  <2>2. PICK k \in Moving : Start(k, show)
    BY <1>3, <2>1
  <2> QED
    BY <1>3, <2>2, StartHides
<1> QED
  BY <1>1, <1>2, <1>3 DEF SetVis

\* A frame of a transition.
LEMMA LvTimersKeeps ==
    ASSUME Pictures, LvTimers
    PROVE  PicturesNext
<1>1. CASE timers = 0 /\ UNCHANGED <<img, ui, animation>>
  BY <1>1 DEF PicturesNext, Pictures, TypeOK, AtRest, NeverBoth, ui, animation, Images
<1>2. CASE timers > 0 /\ LastFrame /\ frame' = frame + 1 /\ Settle(target)
  <2>1. kind # "off"
    BY <1>2 DEF Pictures, AtRest
  <2>2. frame' \in Nat /\ target \in BOOLEAN
    BY <1>2 DEF Pictures, TypeOK
  <2> QED
    BY <1>2, <2>1, <2>2, SettleRests
<1>3. CASE /\ timers > 0 /\ ~LastFrame /\ frame' = frame + 1 /\ img' = Underway
           /\ UNCHANGED <<ui, kind, target, savedHome, timers>>
  <2>1. kind \in Moving /\ img \in Images /\ timers = 1
    BY <1>3 DEF Pictures, AtRest, TypeOK, Images
  <2>2. img' \in Images /\ img'.hid = img.hid
    <3>1. CASE kind = "fade"   BY <1>3, <2>1, <3>1 DEF Underway, Images
    <3>2. CASE kind = "zoom"   BY <1>3, <2>1, <3>2 DEF Underway, Images
    <3>3. CASE kind = "slide"  BY <1>3, <2>1, <3>3 DEF Underway, Images
    <3> QED
      BY <2>1, <3>1, <3>2, <3>3 DEF Moving
  <2>3. frame' \in Nat /\ frame' < Frames(kind)
    BY <1>3, FramesAssumption DEF Pictures, TypeOK, LastFrame, Frames
  <2>4. AtRest' /\ NeverBoth'
    BY <1>3, <2>1, <2>2 DEF AtRest, NeverBoth, Pictures, Moving, ui
  <2> QED
    BY <1>3, <2>1, <2>2, <2>3, <2>4 DEF PicturesNext, Pictures, TypeOK, ui
<1> QED
  BY <1>1, <1>2, <1>3 DEF LvTimers, ui, animation

-----------------------------------------------------------------------------
(* The invariant. *)

\* While no upload is between its settings and its binding, a valid wallpaper
\* is the one that is bound.
SourceBound == cmd \in {"idle", "hide", "show"} /\ valid => src = "media"

PlayInv == Pictures /\ SourceBound

\* The rest of TypeOK.
OthersTyped ==
    /\ {mode, valid, wallVis, open} \subseteq BOOLEAN
    /\ anim \in Settings
    /\ src \in {"builtin", "media"}
    /\ at \in {"turn", "play"}
    /\ due \in {"unset", "running", "over"}
    /\ cmd \in {"idle", "hide", "vis", "bind", "show"}
    /\ cmds \in 0 .. MaxCmds

\* The parts make up the invariant.
LEMMA Together ==
    ASSUME PicturesNext, OthersTyped', SourceBound'
    PROVE  PlayInv'
BY DEF PicturesNext, OthersTyped, PlayInv, Pictures, TypeOK, Images

\* Steps that leave pictures and transition alone.
LEMMA SamePictures ==
    ASSUME Pictures, UNCHANGED <<img, ui, animation>>
    PROVE  PicturesNext
BY DEF PicturesNext, Pictures, TypeOK, AtRest, NeverBoth, ui, animation, Images

\* The end of main before its loop establishes the invariant.
THEOREM PlayInit == Init => PlayInv
<1> SUFFICES ASSUME Init PROVE PlayInv
  OBVIOUS
<1>1. TypeOK
  <2>1. img \in Images
    BY DEF Init, Still, Images
  <2>2. OthersTyped
    <3>1. {mode, valid, wallVis, open} \subseteq BOOLEAN
      BY DEF Init
    <3>2. anim \in Settings /\ src \in {"builtin", "media"}
      BY DEF Init
    <3>3. at \in {"turn", "play"} /\ due \in {"unset", "running", "over"}
          /\ cmd \in {"idle", "hide", "vis", "bind", "show"} /\ cmds \in 0 .. MaxCmds
      BY CmdsAssumption DEF Init
    <3> QED
      BY <3>1, <3>2, <3>3 DEF OthersTyped
  <2>3. /\ {uiHid, uiHome, savedHome, target} \subseteq BOOLEAN
        /\ kind = "off" /\ frame = 0 /\ timers = 0
    BY DEF Init
  <2>4. kind \in Moving \cup {"off"} /\ frame \in Nat /\ timers \in 0 .. 1
        /\ (kind # "off" => frame < Frames(kind))
    BY <2>3
  <2> QED
    BY <2>1, <2>2, <2>3, <2>4 DEF TypeOK, OthersTyped, Images
<1>2. AtRest /\ NeverBoth /\ SourceBound
  BY DEF Init, AtRest, NeverBoth, SourceBound, Still
<1> QED
  BY <1>1, <1>2 DEF PlayInv, Pictures

\* Every step of the main loop, the time and the commands keeps it.
THEOREM PlayNext == PlayInv /\ [Next]_vars => PlayInv'
<1> SUFFICES ASSUME PlayInv, [Next]_vars PROVE PlayInv'
  OBVIOUS
<1> USE CmdsAssumption
<1>0. Pictures /\ SourceBound /\ OthersTyped
  BY DEF PlayInv, Pictures, TypeOK, OthersTyped
<1>1. CASE LvTimers
  <2>1. OthersTyped' /\ SourceBound'
    BY <1>0, <1>1 DEF LvTimers, OthersTyped, SourceBound, config, loader
  <2> QED
    BY <1>0, <1>1, <2>1, LvTimersKeeps, Together
<1>2. CASE Play
  <2>1. OthersTyped' /\ SourceBound'
    <3>1. wallVis' \in BOOLEAN /\ due' \in {"unset", "running", "over"}
      BY <1>0, <1>2 DEF Play, Switch, StopPlaying, NoSwitch, OthersTyped
    <3> QED
      BY <1>0, <1>2, <3>1 DEF Play, OthersTyped, SourceBound, config, loader
  <2>2. CASE Switch
    BY <1>0, <2>1, <2>2, SetVisKeeps, Together DEF Switch, OthersTyped
  <2>3. CASE StopPlaying
    BY <1>0, <2>1, <2>3, SetVisKeeps, Together DEF StopPlaying
  <2>4. CASE NoSwitch
    BY <1>0, <2>1, <2>4, SamePictures, Together DEF NoSwitch
  <2> QED
    BY <1>2, <2>2, <2>3, <2>4 DEF Play
<1>3. CASE TimePasses
  <2>1. OthersTyped' /\ SourceBound' /\ UNCHANGED <<img, ui, animation>>
    BY <1>0, <1>3 DEF TimePasses, OthersTyped, SourceBound, config, loader
  <2> QED
    BY <1>0, <2>1, SamePictures, Together
<1>4. CASE ImgWallHide
  <2>1. OthersTyped' /\ SourceBound'
    BY <1>0, <1>4 DEF ImgWallHide, OthersTyped, SourceBound, config
  <2>2. img \in Images
    BY <1>0 DEF Pictures, TypeOK, Images
  <2>3. /\ img' \in Images /\ img'.hid
        /\ img = Still(img.hid) => img' = Still(img'.hid)
    BY <1>4, <2>2, HidOnly DEF ImgWallHide
  <2>4. AtRest' /\ NeverBoth'
    BY <1>0, <1>4, <2>3 DEF AtRest, NeverBoth, Pictures, ImgWallHide, animation
  <2>5. PicturesNext
    BY <1>0, <1>4, <2>3, <2>4
    DEF PicturesNext, Pictures, TypeOK, ImgWallHide, ui, animation
  <2> QED
    BY <2>1, <2>5, Together
<1>5. CASE SetWallVis
  <2>1. OthersTyped' /\ SourceBound' /\ UNCHANGED <<img, ui, animation>>
    BY <1>0, <1>5 DEF SetWallVis, OtherDuration, OthersTyped, SourceBound, config
  <2> QED
    BY <1>0, <2>1, SamePictures, Together
<1>6. CASE WallBindSrc
  <2>1. OthersTyped' /\ SourceBound' /\ UNCHANGED <<img, ui, animation>>
    BY <1>0, <1>6 DEF WallBindSrc, BoundTo, OthersTyped, SourceBound, config
  <2> QED
    BY <1>0, <2>1, SamePictures, Together
<1>7. CASE ImgWallShow
  <2>1. OthersTyped' /\ SourceBound'
    BY <1>0, <1>7 DEF ImgWallShow, OthersTyped, SourceBound, config
  <2> QED
    BY <1>0, <1>7, <2>1, FinalKeeps, Together DEF ImgWallShow, ShowNew
<1>8. CASE \E m \in BOOLEAN, a \in Settings : CmdWall(m, a)
  <2>1. OthersTyped' /\ SourceBound' /\ UNCHANGED <<img, ui, animation>>
    BY <1>0, <1>8 DEF CmdWall, Command, OtherDuration, OthersTyped, SourceBound
  <2> QED
    BY <1>0, <2>1, SamePictures, Together
<1>9. CASE CmdImgStart
  <2>1. OthersTyped' /\ SourceBound' /\ UNCHANGED <<img, ui, animation>>
    BY <1>0, <1>9 DEF CmdImgStart, Command, OthersTyped, SourceBound, config
  <2> QED
    BY <1>0, <2>1, SamePictures, Together
<1>10. CASE CmdImgEnd
  <2>1. OthersTyped' /\ SourceBound' /\ UNCHANGED <<img, ui, animation>>
    <3>1. cmd' = "vis" /\ cmds' = cmds - 1 /\ cmds > 0 /\ valid' \in BOOLEAN
          /\ mode' \in BOOLEAN /\ open' \in BOOLEAN
          /\ UNCHANGED <<anim, wallVis, src, img, ui, animation, at, due>>
      BY <1>10 DEF CmdImgEnd, Command
    <3> QED
      BY <1>0, <3>1 DEF OthersTyped, SourceBound
  <2> QED
    BY <1>0, <2>1, SamePictures, Together
<1>11. CASE UNCHANGED vars
  <2>1. OthersTyped' /\ SourceBound' /\ UNCHANGED <<img, ui, animation>>
    BY <1>0, <1>11 DEF vars, config, loader, OthersTyped, SourceBound
  <2> QED
    BY <1>0, <2>1, SamePictures, Together
<1> QED
  BY <1>1, <1>2, <1>3, <1>4, <1>5, <1>6, <1>7, <1>8, <1>9, <1>10, <1>11
  DEF Next, MainLoop, Handler

\* It therefore always holds.
THEOREM PlayAlways == Spec => []PlayInv
BY PlayInit, PlayNext, PTL DEF Spec

-----------------------------------------------------------------------------
(* The theorems. *)

\* The variables keep their types; the transition's frame stays below its end.
THEOREM TypeCorrect == Spec => []TypeOK
<1>1. PlayInv => TypeOK
  BY DEF PlayInv, Pictures
<1> QED
  BY <1>1, PlayAlways, PTL

\* Whatever interrupts a transition (the next switch, the end of playback, an
\* upload), no timer is left and no attribute half changed (img_upload.c:361).
THEOREM RestsAlways == Spec => []AtRest
<1>1. PlayInv => AtRest
  BY DEF PlayInv, Pictures
<1> QED
  BY <1>1, PlayAlways, PTL

\* Clock and wallpaper are never shown over each other (img_upload.c:153).
THEOREM NeverBothAlways == Spec => []NeverBoth
<1>1. PlayInv => NeverBoth
  BY DEF PlayInv, Pictures
<1> QED
  BY <1>1, PlayAlways, PTL

\* When no command is at work, a valid wallpaper is the one bound (xcmd.c:367-368).
THEOREM NewImageAlways == Spec => []NewImageBound
<1>1. PlayInv => NewImageBound
  BY DEF PlayInv, SourceBound, NewImageBound
<1> QED
  BY <1>1, PlayAlways, PTL
==============================================================================
