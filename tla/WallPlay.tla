------------------------------- MODULE WallPlay -------------------------------
(***************************************************************************)
(* Wallpaper playback (xcmd/img_upload.c, main loop of main.c): the main   *)
(* loop shows the clock and the wallpaper in turn, with a transition that  *)
(* an LVGL timer moves on frame by frame, while the commands of xcmd.c     *)
(* change the settings, hide the wallpaper for an upload and show the new  *)
(* one.  The main loop holds lvgl_mutex for a whole turn; the commands run *)
(* in the event loop task and take it only to hide, bind and show.         *)
(*                                                                         *)
(* The clock's objects are one object here (the snapshot of their hidden   *)
(* flags is taken while they are as designed), and the three sliding       *)
(* directions one kind.  The clock is in normal mode: in provisioning mode *)
(* there is no wallpaper object and nothing happens.                       *)
(***************************************************************************)
EXTENDS Integers

CONSTANTS FadeFrames,   \* s_anim_frames of a fade or a zoom (10)
          SlideFrames,  \* s_anim_frames of a slide (12)
          MaxCmds       \* bound: commands in a behaviour

ASSUME FramesAssumption == FadeFrames \in Nat \ {0} /\ SlideFrames \in Nat \ {0}
ASSUME CmdsAssumption == MaxCmds \in Nat

VARIABLES
    mode, valid,    \* g_cfg.wall_mode and wall_valid
    anim,           \* g_cfg.wall_anim
    wallVis,        \* g_wall_vis
    src,            \* what the wallpaper object is bound to
    img,            \* the wallpaper object: hidden? at (0,0)? opaque? zoom 256?
    uiHid, uiHome,  \* the clock's objects: hidden? where the design puts them?
    savedHome,      \* s_ui_x0, s_ui_y0: is that their place? (they start as 0)
    kind, target, frame,    \* s_anim_kind, s_anim_show, s_anim_frame
    timers,         \* LVGL timers that call wall_anim_tick
    at,             \* the main loop: before its turn, or between timers and playback
    due,            \* wall_lt: "unset", its picture's time "running" or "over"
    open,           \* a wallpaper is being uploaded
    cmd,            \* where the event loop is in a command
    cmds            \* commands left

config == <<mode, valid, anim>>
ui == <<uiHid, uiHome>>
animation == <<kind, target, frame, savedHome, timers>>
loader == <<open, cmd, cmds>>
vars == <<config, wallVis, src, img, ui, animation, at, due, loader>>

Moving == {"fade", "slide", "zoom"}
Settings == Moving \cup {"none", "random"}

Frames(k) == IF k = "slide" THEN SlideFrames ELSE FadeFrames

TypeOK ==
    /\ {mode, valid, wallVis, uiHid, uiHome, savedHome, target, open} \subseteq BOOLEAN
    /\ anim \in Settings
    /\ src \in {"builtin", "media"}
    /\ img \in [hid : BOOLEAN, home : BOOLEAN, opaque : BOOLEAN, full : BOOLEAN]
    /\ kind \in Moving \cup {"off"}
    /\ frame \in Nat /\ (kind # "off" => frame < Frames(kind))
    /\ timers \in 0 .. 1
    /\ at \in {"turn", "play"}
    /\ due \in {"unset", "running", "over"}
    /\ cmd \in {"idle", "hide", "vis", "bind", "show"}
    /\ cmds \in 0 .. MaxCmds

Still(hidden) == [hid |-> hidden, home |-> TRUE, opaque |-> TRUE, full |-> TRUE]

\* The end of main before its loop: img_wall_attach and img_wall_bind.
Init ==
    /\ mode \in BOOLEAN /\ valid \in BOOLEAN /\ anim \in Settings
    /\ wallVis = FALSE
    /\ src = IF valid THEN "media" ELSE "builtin"
    /\ img = Still(TRUE)
    /\ uiHid = FALSE /\ uiHome = TRUE /\ savedHome = FALSE
    /\ kind = "off" /\ target = TRUE /\ frame = 0 /\ timers = 0
    /\ at = "turn" /\ due = "unset"
    /\ open = FALSE /\ cmd = "idle" /\ cmds = MaxCmds

-----------------------------------------------------------------------------
(* Pictures and transitions. *)

\* wall_set_vis_final
Final(show) ==
    /\ img' = [img EXCEPT !.hid = ~show]
    /\ uiHid' = show
    /\ UNCHANGED uiHome

\* Mutant of Settle: the animated attributes are left as they are.
SettleUnreset(show) ==
    /\ img' = [img EXCEPT !.hid = ~show]
    /\ uiHid' = show
    /\ uiHome' = savedHome
    /\ kind' = "off" /\ timers' = timers - 1
    /\ UNCHANGED <<target, savedHome>>

\* wall_anim_finish and wall_anim_abort: delete the timer, reset, final state.
Settle(show) ==
    /\ img' = Still(~show)
    /\ uiHid' = show
    /\ uiHome' = savedHome
    /\ kind' = "off" /\ timers' = timers - 1
    /\ UNCHANGED <<target, savedHome>>

\* How the wallpaper looks in a frame between the first and the last.
Underway ==
    CASE kind = "fade"  -> [img EXCEPT !.opaque = FALSE]
      [] kind = "zoom"  -> [img EXCEPT !.opaque = FALSE, !.full = FALSE]
      [] kind = "slide" -> [img EXCEPT !.home = FALSE]

\* Mutant of LastFrame: one frame late.
LastFrameLate == frame + 1 > Frames(kind)

\* The test of wall_anim_tick.  It ends a slide to the clock too, so that the
\* branch before it (frame > s_anim_frames, wall_anim_ui_fade_in) never runs.
LastFrame == frame + 1 >= Frames(kind)

\* lv_timer_handler, with wall_anim_tick if a transition is under way.
LvTimers ==
    /\ at = "turn" /\ at' = "play"
    /\ \/ timers = 0 /\ UNCHANGED <<img, ui, animation>>
       \/ /\ timers > 0 /\ LastFrame
          /\ frame' = frame + 1
          /\ Settle(target)
       \/ /\ timers > 0 /\ ~LastFrame
          /\ frame' = frame + 1
          /\ img' = Underway
          /\ UNCHANGED <<ui, kind, target, savedHome, timers>>
    /\ UNCHANGED <<config, wallVis, src, due, loader>>

\* A transition starts with the clock hidden and the wallpaper in its first
\* place; a slide notes where the clock is, a fade or a zoom does not.
Start(k, show) ==
    /\ kind' = k /\ target' = show /\ frame' = 0
    /\ timers' = timers + 1
    /\ img' = CASE k = "fade"  -> [img EXCEPT !.hid = FALSE, !.opaque = ~show]
                [] k = "zoom"  -> [img EXCEPT !.hid = FALSE, !.opaque = ~show, !.full = ~show]
                [] k = "slide" -> [img EXCEPT !.hid = FALSE, !.home = ~show]
    /\ uiHid' = TRUE
    /\ savedHome' = IF k = "slide" THEN uiHome ELSE savedHome
    /\ UNCHANGED uiHome

\* img_wall_set_vis: a transition under way is ended where it would have led,
\* and the new picture shown at once.
SetVis(show) ==
    \/ /\ kind # "off"
       /\ Settle(show)
       /\ UNCHANGED frame
    \/ /\ kind = "off" /\ anim = "none"
       /\ Final(show)
       /\ UNCHANGED animation
    \/ /\ kind = "off" /\ anim # "none"
       /\ \E k \in IF anim = "random" THEN Moving ELSE {anim} : Start(k, show)

-----------------------------------------------------------------------------
(* Playback in the main loop. *)

Playing == mode /\ valid

NoSwitch ==
    /\ due' = IF Playing /\ due = "unset" THEN "running" ELSE due
    /\ UNCHANGED <<wallVis, img, ui, animation>>

\* Mutant of Switch: the picture is changed and the flag is not.
SwitchUnnoted ==
    /\ wallVis' = wallVis
    /\ due' = "running"
    /\ SetVis(~wallVis)

Switch ==
    /\ wallVis' = ~wallVis
    /\ due' = "running"
    /\ SetVis(~wallVis)

\* Mutant of StopPlaying: the flag is cleared and the picture left.
StopPlayingSilently ==
    /\ wallVis' = FALSE
    /\ due' = "unset"
    /\ UNCHANGED <<img, ui, animation>>

StopPlaying ==
    /\ wallVis' = FALSE
    /\ due' = "unset"
    /\ SetVis(FALSE)

Play ==
    /\ at = "play" /\ at' = "turn"
    /\ \/ Playing /\ due = "over" /\ Switch
       \/ Playing /\ due # "over" /\ NoSwitch
       \/ ~Playing /\ wallVis /\ StopPlaying
       \/ ~Playing /\ ~wallVis /\ NoSwitch
    /\ UNCHANGED <<config, src, loader>>

\* wall_sec or wall_clock_sec seconds have gone by since wall_lt.
TimePasses ==
    /\ due = "running"
    /\ due' = "over"
    /\ UNCHANGED <<config, wallVis, src, img, ui, animation, at, loader>>

-----------------------------------------------------------------------------
(* Commands in the event loop. *)

Unlocked == at = "turn"

\* The duration is another one, so that time that was over may be running again.
OtherDuration == due' \in IF due = "over" THEN {"running", "over"} ELSE {due}

Command ==
    /\ cmd = "idle" /\ cmds > 0
    /\ cmds' = cmds - 1

\* #XWALL; without its third argument the transition stays as it is.
CmdWall(m, a) ==
    /\ Command
    /\ mode' = m
    /\ anim' = a
    /\ OtherDuration
    /\ UNCHANGED <<valid, wallVis, src, img, ui, animation, at, open, cmd>>

\* #XIMGSTART for a wallpaper: the area is erased, then the wallpaper hidden.
CmdImgStart ==
    /\ Command
    /\ open' = TRUE
    /\ cmd' = "hide"
    /\ UNCHANGED <<config, wallVis, src, img, ui, animation, at, due>>

ImgWallHide ==
    /\ cmd = "hide" /\ Unlocked
    /\ img' = [img EXCEPT !.hid = TRUE]
    /\ cmd' = "idle"
    /\ UNCHANGED <<config, wallVis, src, ui, animation, at, due, open, cmds>>

\* #XIMGEND of a complete wallpaper: settings, flag, source, picture.
CmdImgEnd ==
    /\ Command
    /\ open
    /\ open' = FALSE
    /\ valid' = TRUE /\ mode' = TRUE
    /\ cmd' = "vis"
    /\ UNCHANGED <<anim, wallVis, src, img, ui, animation, at, due>>

SetWallVis ==
    /\ cmd = "vis"
    /\ wallVis' = TRUE
    /\ cmd' = "bind"
    /\ OtherDuration
    /\ UNCHANGED <<config, src, img, ui, animation, at, open, cmds>>

\* Mutant of BoundTo: the source is left as it was.
BoundToOld == src

BoundTo == IF valid THEN "media" ELSE "builtin"

WallBindSrc ==
    /\ cmd = "bind" /\ Unlocked
    /\ src' = BoundTo
    /\ cmd' = "show"
    /\ UNCHANGED <<config, wallVis, img, ui, animation, at, due, open, cmds>>

\* Mutant of ShowNew: the clock is left on top of the wallpaper.
ShowNewUnder == img' = [img EXCEPT !.hid = FALSE] /\ UNCHANGED ui

ShowNew == Final(TRUE)

\* img_wall_show does not look whether a transition is under way.
ImgWallShow ==
    /\ cmd = "show" /\ Unlocked
    /\ ShowNew
    /\ cmd' = "idle"
    /\ UNCHANGED <<config, wallVis, src, animation, at, due, open, cmds>>

-----------------------------------------------------------------------------
MainLoop == LvTimers \/ Play
Handler == ImgWallHide \/ SetWallVis \/ WallBindSrc \/ ImgWallShow

Next ==
    \/ MainLoop \/ TimePasses \/ Handler
    \/ \E m \in BOOLEAN, a \in Settings : CmdWall(m, a)
    \/ CmdImgStart \/ CmdImgEnd

\* The main loop sleeps 5 ms after giving the mutex back, so that a handler
\* that waits for it gets it.
Fairness == WF_vars(MainLoop) /\ WF_vars(TimePasses) /\ SF_vars(Handler)

Spec == Init /\ [][Next]_vars /\ Fairness

-----------------------------------------------------------------------------
\* Without a transition the wallpaper is at its place, opaque and of full size,
\* and no timer is left over, whatever was interrupted by what
\* (img_upload.c:361 "must be reset before the final state").
AtRest ==
    /\ kind = "off" => img = Still(img.hid)
    /\ timers = IF kind = "off" THEN 0 ELSE 1

\* Clock and wallpaper are never shown over each other (img_upload.c:153).
NeverBoth == img.hid \/ uiHid

\* After an upload the new picture is shown, never the one bound before
\* (xcmd.c:367-368).
NewImageBound == cmd = "idle" /\ valid => src = "media"

\* When playback ends the clock comes back (main.c:763).
ClockReturns ==
    wallVis /\ ~Playing ~> (kind = "off" /\ img.hid /\ ~uiHid) \/ Playing

\* As long as playback is on, the clock and the wallpaper each come to rest on
\* the screen again and again (main.c:751), provided that in the end no picture's
\* time is over before its transition (img_upload.c:188 takes that for granted).
Alternates ==
    <>[](Playing /\ (due = "over" => kind = "off"))
        => /\ []<>(kind = "off" /\ img.hid /\ ~uiHid)
           /\ []<>(kind = "off" /\ ~img.hid /\ uiHid)

\* Playback off means the clock (main.c:763 "off or no wallpaper: restore the
\* clock"), whatever the main loop did while an upload ended.
OffShowsClock == []<>(Playing \/ (img.hid /\ ~uiHid))

\* The clock is shown where the design puts it (img_upload.c:413-414: otherwise
\* the end of the first transition throws it to (0,0)).
UiInPlace == uiHid \/ uiHome
==============================================================================
