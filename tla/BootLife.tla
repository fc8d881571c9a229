------------------------------- MODULE BootLife -------------------------------
(***************************************************************************)
(* From reset to the main loop: the boot counter (xcmd/bootcnt.c), the     *)
(* factory reset, the boot screen and the background erase of the media    *)
(* partition (main.c), and how the clock gets into provisioning mode and   *)
(* out of it again (xcmd/provision.c).                                     *)
(*                                                                         *)
(* Every write to flash is a step of its own, and Boot, a press of EN or a *)
(* power cut, may come between any two.  Times are abstracted: a delay is  *)
(* a step that may be taken at any moment, in the order the delays impose. *)
(***************************************************************************)
EXTENDS Integers

CONSTANTS Need,     \* PROV_NEED_COUNT: boots that ask for provisioning (5)
          MaxBoots  \* bound: boots in a behaviour

ASSUME NeedAssumption == Need \in Nat \ {0, 1}
ASSUME MaxBootsAssumption == MaxBoots \in Nat

VARIABLES
    \* in flash
    cnt,        \* the boot counter; 0 stands for a blank sector too
    plast,      \* w_plast: stay in provisioning
    ssid,       \* a network is configured (g_cfg.ssid, copied from w_ssid)
    fwver,      \* w_fwver names the firmware that runs
    booton,     \* w_booton: show the boot image
    image,      \* the media partition holds an uploaded image
    flag,       \* w_bootimg or w_wallimg says so
    \* in RAM
    pc,         \* where app_boot_early and main are
    bootCount,  \* g_boot_count
    active,     \* g_prov_active
    pending,    \* s_media_erase_pending
    bar,        \* the progress bar, in quarters; barOn: g_bar_on
    barOn,
    force,      \* g_force_full
    wifi,       \* wifi_entry has run: the station connects
    gotIp,      \* g_got_ip
    ntpDone,    \* g_ntp_done
    me, saved,  \* media_erase_task and its boot_cnt
    ct,         \* conn_timeout_task
    ka,         \* prov_keepalive_task
    sntp,       \* sntp_task
    tasks,      \* prov_start tasks created
    prov,       \* progress of the provisioning dialogue
    \* history and bound
    presses,    \* boots since the count was last forgotten for a reason
    boots       \* boots left

env == <<plast, ssid, fwver, booton, flag>>
mainRam == <<bootCount, active, pending>>
screen == <<bar, barOn, force>>
net == <<wifi, gotIp, ntpDone, sntp>>
timers == <<ct, ka>>
erase == <<me, saved>>
dialogue == <<tasks, prov>>
hist == <<presses, boots>>
vars == <<cnt, env, image, pc, mainRam, screen, net, erase, timers, dialogue, hist>>

Full == 3   \* bar full; 1 and 2 stand for 60% and 92%

TypeOK ==
    /\ {plast, ssid, fwver, booton, image, flag} \subseteq BOOLEAN
    /\ {active, pending, barOn, force, wifi, gotIp, ntpDone} \subseteq BOOLEAN
    /\ cnt \in Nat /\ bootCount \in Nat /\ saved \in Nat
    /\ pc \in {"off", "erase", "write", "factory", "fwver", "check", "plast", "logo",
               "wait", "drain", "ui", "enter", "task", "start", "loop"}
    /\ bar \in 0 .. Full
    /\ me \in {"off", "read", "erase", "restore", "done"}
    /\ ct \in {"off", "armed", "enter", "task", "done"}
    /\ ka \in {"off", "armed", "done"}
    /\ sntp \in {"off", "run", "clear", "done"}
    /\ tasks \in 0 .. 2
    /\ prov \in {"idle", "connecting", "gotip", "cleared", "done"}
    /\ presses \in Nat /\ boots \in Nat

\* RAM after reset.
RamInit ==
    /\ bootCount = 0 /\ active = FALSE /\ pending = FALSE
    /\ bar = 0 /\ barOn = FALSE /\ force = FALSE
    /\ wifi = FALSE /\ gotIp = FALSE /\ ntpDone = FALSE /\ sntp = "off"
    /\ me = "off" /\ saved = 0
    /\ ct = "off" /\ ka = "off"
    /\ tasks = 0 /\ prov = "idle"

\* A clock in use, before or after an update of its firmware, or a new one.
Init ==
    /\ cnt = 0 /\ plast = FALSE
    /\ ssid \in BOOLEAN /\ fwver \in BOOLEAN /\ booton \in BOOLEAN
    /\ image \in BOOLEAN /\ flag = image
    /\ RamInit
    /\ pc = "off"
    /\ presses = 0 /\ boots = MaxBoots

-----------------------------------------------------------------------------
(* Reset, app_boot_early and the first part of main. *)

\* A press of EN, a power cut, or the reset that ends provisioning.
Boot ==
    /\ boots > 0
    /\ boots' = boots - 1
    /\ presses' = presses + 1
    /\ pc' = "erase"
    /\ bootCount' = 0 /\ active' = FALSE /\ pending' = FALSE
    /\ bar' = 0 /\ barOn' = FALSE /\ force' = FALSE
    /\ wifi' = FALSE /\ gotIp' = FALSE /\ ntpDone' = FALSE /\ sntp' = "off"
    /\ me' = "off" /\ saved' = 0
    /\ ct' = "off" /\ ka' = "off"
    /\ tasks' = 0 /\ prov' = "idle"
    /\ UNCHANGED <<cnt, env, image>>

\* bootcnt_inc reads the counter and erases its sector ...
CountErase ==
    /\ pc = "erase"
    /\ bootCount' = cnt + 1
    /\ cnt' = 0
    /\ pc' = "write"
    /\ UNCHANGED <<env, image, active, pending, screen, net, erase, timers, dialogue, hist>>

\* ... then writes the new count: a reset in between loses it.
CountWrite ==
    /\ pc = "write"
    /\ cnt' = bootCount
    /\ pc' = "factory"
    /\ UNCHANGED <<env, image, mainRam, screen, net, erase, timers, dialogue, hist>>

\* factory_reset_if_new: a new firmware starts from default settings.
FactoryReset ==
    /\ pc = "factory"
    /\ \/ /\ fwver
          /\ pc' = "check"
          /\ UNCHANGED env
       \/ /\ ~fwver
          /\ plast' = FALSE /\ ssid' = FALSE /\ booton' = TRUE /\ flag' = FALSE
          /\ pc' = "fwver"
          /\ UNCHANGED fwver
    /\ UNCHANGED <<cnt, image, mainRam, screen, net, erase, timers, dialogue, hist>>

SetFwver ==
    /\ pc = "fwver"
    /\ fwver' = TRUE
    /\ pending' = TRUE
    /\ pc' = "check"
    /\ UNCHANGED <<cnt, plast, ssid, booton, flag, image, bootCount, active, screen,
                   net, erase, timers, dialogue, hist>>

\* prov_boot_check, when w_plast is set.
Resume ==
    /\ pc = "check" /\ plast
    /\ active' = TRUE
    /\ pc' = "logo"
    /\ UNCHANGED <<cnt, env, image, bootCount, pending, screen, net, erase, timers,
                   dialogue, hist>>

\* prov_boot_check, when the count asks for provisioning: the count is
\* consumed first and w_plast written after it.
Enough ==
    /\ pc = "check" /\ ~plast
    /\ bootCount >= Need
    /\ active' = TRUE
    /\ cnt' = 0
    /\ presses' = 0
    /\ pc' = "plast"
    /\ UNCHANGED <<env, image, bootCount, pending, screen, net, erase, timers, dialogue,
                   boots>>

SetPlast ==
    /\ pc = "plast"
    /\ plast' = TRUE
    /\ pc' = "logo"
    /\ UNCHANGED <<cnt, ssid, fwver, booton, flag, image, mainRam, screen, net, erase,
                   timers, dialogue, hist>>

NotEnough ==
    /\ pc = "check" /\ ~plast
    /\ bootCount < Need
    /\ pc' = "logo"
    /\ UNCHANGED <<cnt, env, image, mainRam, screen, net, erase, timers, dialogue, hist>>

\* boot_logo_show and wifi_start_parallel.
Logo ==
    /\ pc = "logo"
    /\ LET station == ~active /\ ssid IN
       /\ wifi' = station
       /\ ct' = IF station THEN "armed" ELSE ct
       /\ ka' = IF station THEN "armed" ELSE ka
       /\ barOn' = (booton /\ station)
    /\ me' = IF booton /\ pending THEN "read" ELSE me
    /\ pc' = IF booton THEN "wait" ELSE "ui"
    /\ UNCHANGED <<cnt, env, image, mainRam, bar, force, gotIp, ntpDone, sntp, saved,
                   dialogue, hist>>

-----------------------------------------------------------------------------
(* The boot screen: boot_st_update and boot_logo_wait. *)

BarCap == IF ntpDone \/ active \/ force THEN Full ELSE IF gotIp THEN 2 ELSE 1

\* Mutant of BarStep: the value is not held at its cap.
BarStepUncapped ==
    /\ pc = "wait" /\ barOn
    /\ bar' = bar + 1
    /\ UNCHANGED <<cnt, env, image, pc, mainRam, barOn, force, net, erase, timers,
                   dialogue, hist>>

BarStep ==
    /\ pc = "wait" /\ barOn
    /\ bar < BarCap
    /\ bar' = bar + 1
    /\ UNCHANGED <<cnt, env, image, pc, mainRam, barOn, force, net, erase, timers,
                   dialogue, hist>>

\* 8 s after GOT_IP without the time.
ForceFull ==
    /\ pc = "wait" /\ ~active /\ ssid
    /\ gotIp /\ ~force
    /\ force' = TRUE
    /\ UNCHANGED <<cnt, env, image, pc, mainRam, bar, barOn, net, erase, timers,
                   dialogue, hist>>

\* Mutant of MayLeave: provisioning at boot waits for a bar it does not have.
MayLeaveWithBar ==
    \/ active /\ barOn /\ bar = Full
    \/ ~active /\ ~ssid
    \/ ~active /\ ssid /\ ntpDone /\ barOn /\ bar = Full

\* When the loop of boot_logo_wait ends: at once or after 2 s in provisioning
\* and without a network, else when the time is known and the bar full.
MayLeave ==
    \/ active /\ (barOn => bar = Full)
    \/ ~active /\ ~ssid
    \/ ~active /\ ssid /\ ntpDone /\ barOn /\ bar = Full

LeaveBootScreen ==
    /\ pc = "wait" /\ MayLeave
    /\ pc' = "drain"
    /\ UNCHANGED <<cnt, env, image, mainRam, screen, net, erase, timers, dialogue, hist>>

\* Mutant of EraseDone: the wait for media_erase_task is dropped.
EraseDoneOrNot == TRUE

EraseDone == ~pending

AwaitErase ==
    /\ pc = "drain"
    /\ EraseDone
    /\ pc' = "ui"
    /\ UNCHANGED <<cnt, env, image, mainRam, screen, net, erase, timers, dialogue, hist>>

\* media_erase_task: read the count, erase the partition, put the count back.
EraseRead ==
    /\ me = "read"
    /\ saved' = cnt
    /\ me' = "erase"
    /\ UNCHANGED <<cnt, env, image, pc, mainRam, screen, net, timers, dialogue, hist>>

EraseMedia ==
    /\ me = "erase"
    /\ cnt' = 0
    /\ image' = FALSE
    /\ me' = "restore"
    /\ UNCHANGED <<env, pc, mainRam, screen, net, saved, timers, dialogue, hist>>

\* Mutant of Restored: the count is not put back.
RestoredNot == cnt

Restored == IF saved \in 1 .. Need - 1 THEN saved ELSE cnt

EraseEnd ==
    /\ me = "restore"
    /\ cnt' = Restored
    /\ pending' = FALSE
    /\ me' = "done"
    /\ UNCHANGED <<env, image, pc, bootCount, active, screen, net, saved, timers,
                   dialogue, hist>>

-----------------------------------------------------------------------------
(* The rest of main. *)

\* From xcmd_init on; without a network main itself calls prov_enter.
Ui ==
    /\ pc = "ui"
    /\ active' = (active \/ ~ssid)
    /\ pc' = IF active \/ ssid THEN "start" ELSE "enter"
    /\ UNCHANGED <<cnt, env, image, bootCount, pending, screen, net, erase, timers,
                   dialogue, hist>>

\* Mutant of EnterPlast: the mode is not kept.
EnterPlastForgets ==
    /\ pc = "enter"
    /\ pc' = "task"
    /\ UNCHANGED <<cnt, env, image, mainRam, screen, net, erase, timers, dialogue, hist>>

EnterPlast ==
    /\ pc = "enter"
    /\ plast' = TRUE
    /\ pc' = "task"
    /\ UNCHANGED <<cnt, ssid, fwver, booton, flag, image, mainRam, screen, net, erase,
                   timers, dialogue, hist>>

EnterTask ==
    /\ pc = "task"
    /\ tasks' = tasks + 1
    /\ pc' = "start"
    /\ UNCHANGED <<cnt, env, image, mainRam, screen, net, erase, timers, prov, hist>>

\* In provisioning mode main creates a prov_start task, whoever made one before.
StartProv ==
    /\ pc = "start"
    /\ tasks' = IF active THEN tasks + 1 ELSE tasks
    /\ pc' = "loop"
    /\ UNCHANGED <<cnt, env, image, mainRam, screen, net, erase, timers, prov, hist>>

\* An image is uploaded over the serial port, which xcmd_init opened.
Upload ==
    /\ pc \in {"enter", "task", "start", "loop"}
    /\ image' = TRUE
    /\ flag' = TRUE
    /\ UNCHANGED <<cnt, plast, ssid, fwver, booton, pc, mainRam, screen, net, erase,
                   timers, dialogue, hist>>

-----------------------------------------------------------------------------
(* The station, the time and the timers. *)

\* 45 s without an address: prov_enter, if nobody was first.
ConnTimeout ==
    /\ ct = "armed"
    /\ \/ /\ gotIp \/ active
          /\ ct' = "done"
          /\ UNCHANGED active
       \/ /\ ~gotIp /\ ~active
          /\ active' = TRUE
          /\ ct' = "enter"
    /\ UNCHANGED <<cnt, env, image, pc, bootCount, pending, screen, net, erase, ka,
                   dialogue, hist>>

TimeoutPlast ==
    /\ ct = "enter"
    /\ plast' = TRUE
    /\ ct' = "task"
    /\ UNCHANGED <<cnt, ssid, fwver, booton, flag, image, pc, mainRam, screen, net,
                   erase, ka, dialogue, hist>>

TimeoutTask ==
    /\ ct = "task"
    /\ tasks' = tasks + 1
    /\ ct' = "done"
    /\ UNCHANGED <<cnt, env, image, pc, mainRam, screen, net, erase, ka, prov, hist>>

\* wifi_cb on GOT_IP; the event may be on its way when prov_enter disconnects.
GotIp ==
    /\ wifi /\ ~gotIp
    /\ ~active \/ ct \in {"enter", "task"}
    /\ gotIp' = TRUE
    /\ sntp' = "run"
    /\ UNCHANGED <<cnt, env, image, pc, mainRam, screen, wifi, ntpDone, erase, timers,
                   dialogue, hist>>

\* The server answers, and sntp_task shows the time for the first time.
NtpAnswer ==
    /\ sntp = "run"
    /\ ntpDone' = TRUE
    /\ sntp' = "clear"
    /\ UNCHANGED <<cnt, env, image, pc, mainRam, screen, wifi, gotIp, erase, timers,
                   dialogue, hist>>

\* Mutant of Cleared: the sector is left as it is.
ClearedNot == cnt

\* bootcnt_clear erases the sector.
Cleared == 0

SntpClear ==
    /\ sntp = "clear"
    /\ cnt' = Cleared
    /\ presses' = 0
    /\ sntp' = "done"
    /\ UNCHANGED <<env, image, pc, mainRam, screen, wifi, gotIp, ntpDone, erase, timers,
                   dialogue, boots>>

\* 3 minutes after the start; the 45 s of ct are over by then.
KeepAlive ==
    /\ ka = "armed" /\ ct = "done"
    /\ cnt' = Cleared
    /\ presses' = 0
    /\ ka' = "done"
    /\ UNCHANGED <<env, image, pc, mainRam, screen, net, erase, ct, dialogue, boots>>

-----------------------------------------------------------------------------
(* Provisioning, as far as it concerns the boot: handle_save, prov_wifi_cb. *)

ProvSave ==
    /\ tasks > 0 /\ prov = "idle"
    /\ ssid' = TRUE
    /\ prov' = "connecting"
    /\ UNCHANGED <<cnt, plast, fwver, booton, flag, image, pc, mainRam, screen, net,
                   erase, timers, tasks, hist>>

ProvFail ==
    /\ prov = "connecting"
    /\ prov' = "idle"
    /\ UNCHANGED <<cnt, env, image, pc, mainRam, screen, net, erase, timers, tasks, hist>>

\* wifi_cb is registered too if the station was started at boot.
ProvGotIp ==
    /\ prov = "connecting"
    /\ prov' = "gotip"
    /\ gotIp' = (gotIp \/ wifi)
    /\ sntp' = IF wifi /\ sntp = "off" THEN "run" ELSE sntp
    /\ UNCHANGED <<cnt, env, image, pc, mainRam, screen, wifi, ntpDone, erase, timers,
                   tasks, hist>>

ProvClear ==
    /\ prov = "gotip"
    /\ cnt' = Cleared
    /\ presses' = 0
    /\ prov' = "cleared"
    /\ UNCHANGED <<env, image, pc, mainRam, screen, net, erase, timers, tasks, boots>>

\* w_plast is cleared; 8 s later GLB_SW_POR_Reset, which is Boot.
ProvLeave ==
    /\ prov = "cleared"
    /\ plast' = FALSE
    /\ prov' = "done"
    /\ UNCHANGED <<cnt, ssid, fwver, booton, flag, image, pc, mainRam, screen, net,
                   erase, timers, tasks, hist>>

-----------------------------------------------------------------------------
Main == CountErase \/ CountWrite \/ FactoryReset \/ SetFwver \/ Resume \/ Enough
        \/ SetPlast \/ NotEnough \/ Logo \/ LeaveBootScreen \/ AwaitErase \/ Ui
        \/ EnterPlast \/ EnterTask \/ StartProv
EraseTask == EraseRead \/ EraseMedia \/ EraseEnd
ConnTask == ConnTimeout \/ TimeoutPlast \/ TimeoutTask
SntpTask == NtpAnswer \/ SntpClear
Provisioning == ProvSave \/ ProvFail \/ ProvGotIp \/ ProvClear \/ ProvLeave

Next == Boot \/ Main \/ BarStep \/ ForceFull \/ EraseTask \/ Upload \/ ConnTask
        \/ GotIp \/ SntpTask \/ KeepAlive \/ Provisioning

\* The tasks are scheduled: each step a task can take by itself is taken.
Fairness ==
    /\ WF_vars(Main) /\ WF_vars(BarStep) /\ WF_vars(ForceFull)
    /\ WF_vars(EraseTask) /\ WF_vars(ConnTask)
    /\ WF_vars(SntpClear) /\ WF_vars(KeepAlive)
    /\ WF_vars(ProvClear) /\ WF_vars(ProvLeave)

Spec == Init /\ [][Next]_vars /\ Fairness

\* Moreover, a time server answers in the end.
SpecWithTime == Spec /\ WF_vars(NtpAnswer)

-----------------------------------------------------------------------------
\* The clock never enters provisioning because of its boot counter unless it
\* was reset at least Need times since it last showed the time, ran for 3
\* minutes, was provisioned, or entered provisioning (provision.c header).
OnlyAskedFor == [][pc = "check" /\ pc' = "plast" => presses >= Need]_vars

\* In the main loop the mode the clock is in is the one w_plast will give it
\* after the next reset, save while prov_enter or a success is being recorded.
ModePersists ==
    pc = "loop" /\ ct # "enter" /\ prov # "done" => (active <=> plast)

\* Once five presses are recognised the clock stays in provisioning: a reset
\* does not end it (provision.c:6, 10 "EN or a power cut continue it").
RequestKept == [][pc = "plast" /\ pc' # "plast" => plast']_vars

\* An image flagged valid is there: the erase of a factory reset never runs
\* into an upload (main.c boot_logo_wait).
FlaggedImageIsThere == flag => image

\* A factory reset that is not interrupted keeps a count below Need and
\* forgets a larger one (main.c media_erase_task, bootcnt.h).
EraseKeepsCount ==
    [][pending /\ ~pending' /\ pc' # "erase"
          => cnt' = IF bootCount < Need THEN bootCount ELSE 0]_vars

\* Every boot reaches the main loop, with an access point task if the clock is
\* in provisioning mode, provided a time server answers.
BootSettles == pc \notin {"off", "loop"} ~> pc = "loop" /\ (active => tasks > 0)

\* The boot screen is left, time server or not (main.c:174-175, 251).
BootScreenLeft == pc = "wait" ~> pc # "wait"
==============================================================================
