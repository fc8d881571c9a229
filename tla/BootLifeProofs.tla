---------------------------- MODULE BootLifeProofs ----------------------------
(***************************************************************************)
(* Theorems about BootLife, for every number of presses that ask for       *)
(* provisioning and every number of resets, wherever they fall.            *)
(***************************************************************************)
EXTENDS BootLife, TLAPS

-----------------------------------------------------------------------------
(* The mode in RAM and the mode in flash.  They are equal from the check of  *)
(* the boot counter on, except for the three places where one is written     *)
(* before the other: SetPlast, prov_enter (twice) and a success.             *)

Early == {"off", "erase", "write", "factory", "fwver", "check"}
Later == {"wait", "drain", "ui", "task", "start", "loop"}

\* Nothing of the mode has been decided before the check.
NotYet ==
    /\ pc \in Early => ~active
    /\ pc \in Early \cup {"plast", "logo"} => ct = "off" /\ tasks = 0

\* Who is provisioning is in the mode; the timeout runs with a network only.
ModeFacts ==
    /\ tasks \in Nat
    /\ prov # "idle" => tasks > 0
    /\ tasks > 0 => active
    /\ ct \in {"enter", "task"} => active
    /\ ct # "off" => ssid

\* Where main enters the mode, nobody else does.
MainEnters == pc \in {"enter", "task"} => active /\ ct = "off" /\ tasks = 0

Recorded ==
    /\ pc = "plast" => active
    /\ pc = "logo" => (active <=> plast)
    /\ pc \in Later => prov = "done" \/ ct = "enter" \/ (active <=> plast)

ModeInv == NotYet /\ ModeFacts /\ MainEnters /\ Recorded

-----------------------------------------------------------------------------
(* The erase of a factory reset: while it is due or runs, no flag is set, and *)
(* main has not come to the place where uploads are received.                *)

Before == {"check", "plast", "logo", "wait", "drain"}

EraseInv ==
    /\ FlaggedImageIsThere
    /\ pc \in {"off", "erase", "write", "factory", "fwver"} => ~pending
    /\ pc = "fwver" => ~flag
    /\ pending /\ pc \in Before => ~flag
    /\ me \in {"read", "erase"} => pending /\ pc \in {"wait", "drain"}

-----------------------------------------------------------------------------
(* The boot counter never exceeds the boots in a row it stands for.  While a  *)
(* factory reset has its count in RAM, nothing that forgets the count runs:   *)
(* the reset has removed the network, so that there is no station.            *)

Erasing == {"read", "erase", "restore"}

QuietUntilLogo ==
    pc \in Early \cup {"plast", "logo"} =>
        /\ me = "off" /\ ct = "off" /\ ka = "off" /\ sntp = "off" /\ ~wifi
        /\ tasks = 0 /\ prov = "idle"

QuietWhileErasing ==
    me \in Erasing =>
        /\ pc \in {"wait", "drain"} /\ pending
        /\ ct = "off" /\ ka = "off" /\ sntp = "off" /\ ~wifi
        /\ tasks = 0 /\ prov = "idle"

NoNetwork ==
    /\ pc \in {"off", "erase", "write", "factory", "fwver"} => ~pending
    /\ pc = "fwver" => ~ssid
    /\ pending /\ pc \in {"check", "plast", "logo"} => ~ssid

Counted ==
    /\ cnt \in Nat /\ presses \in Nat /\ bootCount \in Nat /\ saved \in Nat
    /\ cnt <= presses
    /\ pc = "erase" => cnt < presses
    /\ pc \in {"write", "factory", "fwver", "check"} => bootCount <= presses
    /\ me \in {"erase", "restore"} => saved <= presses

CountInv == QuietUntilLogo /\ QuietWhileErasing /\ NoNetwork /\ Counted

-----------------------------------------------------------------------------
(* What the erase of a factory reset has to put back. *)

Kept == IF bootCount < Need THEN bootCount ELSE 0

KeepInv ==
    /\ bootCount \in Nat
    /\ pc \in {"write", "factory", "fwver", "check"} => bootCount > 0
    /\ pc \in {"factory", "fwver"} \/ (pc = "check" /\ pending) => cnt = bootCount
    /\ pc = "fwver" \/ (pc = "check" /\ pending) => ~plast
    /\ pending /\ pc \in {"plast", "logo"} => cnt = Kept /\ bootCount > 0
    /\ me \in Erasing => bootCount > 0
    /\ me = "read" => cnt = Kept
    /\ me \in {"erase", "restore"} => saved = Kept
    /\ me = "restore" => cnt = 0

-----------------------------------------------------------------------------
(* Types.  Of the three places that create a prov_start task a boot passes two *)
(* at most: main's own, and prov_enter from main or from the timeout.         *)

TaskBound == tasks <= (IF pc = "loop" THEN 1 ELSE 0)
                      + (IF ct \in {"off", "done"} THEN 1 ELSE 0)

Flags ==
    /\ {plast, ssid, fwver, booton, image, flag} \subseteq BOOLEAN
    /\ {active, pending, barOn, force, wifi, gotIp, ntpDone} \subseteq BOOLEAN

TypeInv == TypeOK /\ TaskBound

-----------------------------------------------------------------------------
\* A clock that is off: nothing is active and nothing is due.
THEOREM BootInit == Init => ModeInv /\ EraseInv /\ CountInv /\ KeepInv
BY DEF Init, RamInit, ModeInv, NotYet, ModeFacts, MainEnters, Recorded, Early, Later,
       EraseInv, FlaggedImageIsThere, Before, CountInv, QuietUntilLogo,
       QuietWhileErasing, NoNetwork, Counted, Erasing, KeepInv

\* Every step of main, the tasks and the dialogue, and a reset, keep ModeInv.
THEOREM ModeNext == ModeInv /\ [Next]_vars => ModeInv'
<1> SUFFICES ASSUME ModeInv, [Next]_vars PROVE ModeInv'
  OBVIOUS
<1> USE DEF ModeInv, NotYet, ModeFacts, MainEnters, Recorded, Early, Later,
        env, mainRam, screen, net, timers, erase, dialogue, hist
<1>1. CASE Boot
  BY <1>1 DEF Boot
<1>2. CASE BarStep
  BY <1>2 DEF BarStep
<1>3. CASE ForceFull
  BY <1>3 DEF ForceFull
<1>4. CASE Upload
  BY <1>4 DEF Upload
<1>5. CASE GotIp
  BY <1>5 DEF GotIp
<1>6. CASE KeepAlive
  BY <1>6 DEF KeepAlive
<1>7. CASE Main
  <2>1. CASE CountErase
    BY <2>1 DEF CountErase
  <2>2. CASE CountWrite
    BY <2>2 DEF CountWrite
  <2>3. CASE FactoryReset
    BY <2>3 DEF FactoryReset
  <2>4. CASE SetFwver
    BY <2>4 DEF SetFwver
  <2>5. CASE Resume
    BY <2>5 DEF Resume
  <2>6. CASE Enough
    BY <2>6 DEF Enough
  <2>7. CASE SetPlast
    BY <2>7 DEF SetPlast
  <2>8. CASE NotEnough
    BY <2>8 DEF NotEnough
  <2>9. CASE Logo
    BY <2>9 DEF Logo
  <2>10. CASE LeaveBootScreen
    BY <2>10 DEF LeaveBootScreen
  <2>11. CASE AwaitErase
    BY <2>11 DEF AwaitErase
  <2>12. CASE Ui
    <3>1. UNCHANGED <<plast, ssid, ct, tasks, prov>> /\ pc = "ui"
      BY <2>12 DEF Ui
    <3>2. CASE active
      <4>1. active' /\ pc' = "start"
        BY <2>12, <3>2 DEF Ui
      <4> QED
        BY <3>1, <3>2, <4>1
    <3>3. CASE ~active /\ ssid
      <4>1. ~active' /\ pc' = "start"
        BY <2>12, <3>3 DEF Ui
      <4> QED
        BY <3>1, <3>3, <4>1
    <3>4. CASE ~active /\ ~ssid
      <4>1. active' /\ pc' = "enter"
        BY <2>12, <3>4 DEF Ui
      <4>2. ct = "off" /\ tasks = 0
        BY <3>4
      <4> QED
        BY <3>1, <3>4, <4>1, <4>2
    <3> QED
      BY <3>2, <3>3, <3>4
  <2>13. CASE EnterPlast
    BY <2>13 DEF EnterPlast
  <2>14. CASE EnterTask
    BY <2>14 DEF EnterTask
  <2>15. CASE StartProv
    BY <2>15 DEF StartProv
  <2> QED
    BY <1>7, <2>1, <2>2, <2>3, <2>4, <2>5, <2>6, <2>7, <2>8, <2>9, <2>10, <2>11, <2>12, <2>13, <2>14, <2>15 DEF Main
<1>8. CASE EraseTask
  <2>1. CASE EraseRead
    BY <2>1 DEF EraseRead
  <2>2. CASE EraseMedia
    BY <2>2 DEF EraseMedia
  <2>3. CASE EraseEnd
    BY <2>3 DEF EraseEnd
  <2> QED
    BY <1>8, <2>1, <2>2, <2>3 DEF EraseTask
<1>9. CASE ConnTask
  <2>1. CASE ConnTimeout
    BY <2>1 DEF ConnTimeout
  <2>2. CASE TimeoutPlast
    BY <2>2 DEF TimeoutPlast
  <2>3. CASE TimeoutTask
    BY <2>3 DEF TimeoutTask
  <2> QED
    BY <1>9, <2>1, <2>2, <2>3 DEF ConnTask
<1>10. CASE SntpTask
  <2>1. CASE NtpAnswer
    BY <2>1 DEF NtpAnswer
  <2>2. CASE SntpClear
    BY <2>2 DEF SntpClear
  <2> QED
    BY <1>10, <2>1, <2>2 DEF SntpTask
<1>11. CASE Provisioning
  <2>1. CASE ProvSave
    BY <2>1 DEF ProvSave
  <2>2. CASE ProvFail
    BY <2>2 DEF ProvFail
  <2>3. CASE ProvGotIp
    BY <2>3 DEF ProvGotIp
  <2>4. CASE ProvClear
    BY <2>4 DEF ProvClear
  <2>5. CASE ProvLeave
    BY <2>5 DEF ProvLeave
  <2> QED
    BY <1>11, <2>1, <2>2, <2>3, <2>4, <2>5 DEF Provisioning
<1>12. CASE UNCHANGED vars
  BY <1>12 DEF vars
<1> QED
  BY <1>1, <1>2, <1>3, <1>4, <1>5, <1>6, <1>7, <1>8, <1>9, <1>10, <1>11, <1>12 DEF Next

\* They keep EraseInv too.
THEOREM EraseNext == EraseInv /\ [Next]_vars => EraseInv'
<1> SUFFICES ASSUME EraseInv, [Next]_vars PROVE EraseInv'
  OBVIOUS
<1> USE DEF EraseInv, FlaggedImageIsThere, Before,
        env, mainRam, screen, net, timers, erase, dialogue, hist
<1>1. CASE Boot
  BY <1>1 DEF Boot
<1>2. CASE BarStep
  BY <1>2 DEF BarStep
<1>3. CASE ForceFull
  BY <1>3 DEF ForceFull
<1>4. CASE Upload
  BY <1>4 DEF Upload
<1>5. CASE GotIp
  BY <1>5 DEF GotIp
<1>6. CASE KeepAlive
  BY <1>6 DEF KeepAlive
<1>7. CASE Main
  <2>1. CASE CountErase
    BY <2>1 DEF CountErase
  <2>2. CASE CountWrite
    BY <2>2 DEF CountWrite
  <2>3. CASE FactoryReset
    BY <2>3 DEF FactoryReset
  <2>4. CASE SetFwver
    BY <2>4 DEF SetFwver
  <2>5. CASE Resume
    BY <2>5 DEF Resume
  <2>6. CASE Enough
    BY <2>6 DEF Enough
  <2>7. CASE SetPlast
    BY <2>7 DEF SetPlast
  <2>8. CASE NotEnough
    BY <2>8 DEF NotEnough
  <2>9. CASE Logo
    BY <2>9 DEF Logo
  <2>10. CASE LeaveBootScreen
    BY <2>10 DEF LeaveBootScreen
  <2>11. CASE AwaitErase
    BY <2>11 DEF AwaitErase, EraseDone
  <2>12. CASE Ui
    BY <2>12 DEF Ui
  <2>13. CASE EnterPlast
    BY <2>13 DEF EnterPlast
  <2>14. CASE EnterTask
    BY <2>14 DEF EnterTask
  <2>15. CASE StartProv
    BY <2>15 DEF StartProv
  <2> QED
    BY <1>7, <2>1, <2>2, <2>3, <2>4, <2>5, <2>6, <2>7, <2>8, <2>9, <2>10, <2>11, <2>12, <2>13, <2>14, <2>15 DEF Main
<1>8. CASE EraseTask
  <2>1. CASE EraseRead
    BY <2>1 DEF EraseRead
  <2>2. CASE EraseMedia
    BY <2>2 DEF EraseMedia
  <2>3. CASE EraseEnd
    BY <2>3 DEF EraseEnd
  <2> QED
    BY <1>8, <2>1, <2>2, <2>3 DEF EraseTask
<1>9. CASE ConnTask
  <2>1. CASE ConnTimeout
    BY <2>1 DEF ConnTimeout
  <2>2. CASE TimeoutPlast
    BY <2>2 DEF TimeoutPlast
  <2>3. CASE TimeoutTask
    BY <2>3 DEF TimeoutTask
  <2> QED
    BY <1>9, <2>1, <2>2, <2>3 DEF ConnTask
<1>10. CASE SntpTask
  <2>1. CASE NtpAnswer
    BY <2>1 DEF NtpAnswer
  <2>2. CASE SntpClear
    BY <2>2 DEF SntpClear
  <2> QED
    BY <1>10, <2>1, <2>2 DEF SntpTask
<1>11. CASE Provisioning
  <2>1. CASE ProvSave
    BY <2>1 DEF ProvSave
  <2>2. CASE ProvFail
    BY <2>2 DEF ProvFail
  <2>3. CASE ProvGotIp
    BY <2>3 DEF ProvGotIp
  <2>4. CASE ProvClear
    BY <2>4 DEF ProvClear
  <2>5. CASE ProvLeave
    BY <2>5 DEF ProvLeave
  <2> QED
    BY <1>11, <2>1, <2>2, <2>3, <2>4, <2>5 DEF Provisioning
<1>12. CASE UNCHANGED vars
  BY <1>12 DEF vars
<1> QED
  BY <1>1, <1>2, <1>3, <1>4, <1>5, <1>6, <1>7, <1>8, <1>9, <1>10, <1>11, <1>12 DEF Next

\* They keep CountInv.
THEOREM CountNext == CountInv /\ [Next]_vars => CountInv'
<1> SUFFICES ASSUME CountInv, [Next]_vars PROVE CountInv'
  OBVIOUS
<1> USE DEF CountInv, QuietUntilLogo, QuietWhileErasing, NoNetwork, Counted, Early, Erasing,
        env, mainRam, screen, net, timers, erase, dialogue, hist
<1>1. CASE Boot
  BY <1>1 DEF Boot
<1>2. CASE BarStep
  BY <1>2 DEF BarStep
<1>3. CASE ForceFull
  BY <1>3 DEF ForceFull
<1>4. CASE Upload
  BY <1>4 DEF Upload
<1>5. CASE GotIp
  BY <1>5 DEF GotIp
<1>6. CASE KeepAlive
  BY <1>6 DEF KeepAlive, Cleared
<1>7. CASE Main
  <2>1. CASE CountErase
    BY <2>1 DEF CountErase
  <2>2. CASE CountWrite
    BY <2>2 DEF CountWrite
  <2>3. CASE FactoryReset
    BY <2>3 DEF FactoryReset
  <2>4. CASE SetFwver
    BY <2>4 DEF SetFwver
  <2>5. CASE Resume
    BY <2>5 DEF Resume
  <2>6. CASE Enough
    BY <2>6 DEF Enough
  <2>7. CASE SetPlast
    BY <2>7 DEF SetPlast
  <2>8. CASE NotEnough
    BY <2>8 DEF NotEnough
  <2>9. CASE Logo
    BY <2>9 DEF Logo
  <2>10. CASE LeaveBootScreen
    BY <2>10 DEF LeaveBootScreen
  <2>11. CASE AwaitErase
    BY <2>11 DEF AwaitErase, EraseDone
  <2>12. CASE Ui
    BY <2>12 DEF Ui
  <2>13. CASE EnterPlast
    BY <2>13 DEF EnterPlast
  <2>14. CASE EnterTask
    BY <2>14 DEF EnterTask
  <2>15. CASE StartProv
    BY <2>15 DEF StartProv
  <2> QED
    BY <1>7, <2>1, <2>2, <2>3, <2>4, <2>5, <2>6, <2>7, <2>8, <2>9, <2>10, <2>11, <2>12, <2>13, <2>14, <2>15 DEF Main
<1>8. CASE EraseTask
  <2>1. CASE EraseRead
    BY <2>1 DEF EraseRead
  <2>2. CASE EraseMedia
    BY <2>2 DEF EraseMedia
  <2>3. CASE EraseEnd
    BY <2>3 DEF EraseEnd, Restored
  <2> QED
    BY <1>8, <2>1, <2>2, <2>3 DEF EraseTask
<1>9. CASE ConnTask
  <2>1. CASE ConnTimeout
    BY <2>1 DEF ConnTimeout
  <2>2. CASE TimeoutPlast
    BY <2>2 DEF TimeoutPlast
  <2>3. CASE TimeoutTask
    BY <2>3 DEF TimeoutTask
  <2> QED
    BY <1>9, <2>1, <2>2, <2>3 DEF ConnTask
<1>10. CASE SntpTask
  <2>1. CASE NtpAnswer
    BY <2>1 DEF NtpAnswer
  <2>2. CASE SntpClear
    BY <2>2 DEF SntpClear, Cleared
  <2> QED
    BY <1>10, <2>1, <2>2 DEF SntpTask
<1>11. CASE Provisioning
  <2>1. CASE ProvSave
    BY <2>1 DEF ProvSave
  <2>2. CASE ProvFail
    BY <2>2 DEF ProvFail
  <2>3. CASE ProvGotIp
    BY <2>3 DEF ProvGotIp
  <2>4. CASE ProvClear
    BY <2>4 DEF ProvClear, Cleared
  <2>5. CASE ProvLeave
    BY <2>5 DEF ProvLeave
  <2> QED
    BY <1>11, <2>1, <2>2, <2>3, <2>4, <2>5 DEF Provisioning
<1>12. CASE UNCHANGED vars
  BY <1>12 DEF vars
<1> QED
  BY <1>1, <1>2, <1>3, <1>4, <1>5, <1>6, <1>7, <1>8, <1>9, <1>10, <1>11, <1>12 DEF Next

\* With CountInv, they keep KeepInv.
THEOREM KeepNext == CountInv /\ KeepInv /\ [Next]_vars => KeepInv'
<1> SUFFICES ASSUME CountInv, KeepInv, [Next]_vars PROVE KeepInv'
  OBVIOUS
<1> USE NeedAssumption DEF KeepInv, Kept, CountInv, QuietUntilLogo, QuietWhileErasing,
        NoNetwork, Counted, Early, Erasing,
        env, mainRam, screen, net, timers, erase, dialogue, hist
<1>1. CASE Boot
  BY <1>1 DEF Boot
<1>2. CASE BarStep
  BY <1>2 DEF BarStep
<1>3. CASE ForceFull
  BY <1>3 DEF ForceFull
<1>4. CASE Upload
  BY <1>4 DEF Upload
<1>5. CASE GotIp
  BY <1>5 DEF GotIp
<1>6. CASE KeepAlive
  BY <1>6 DEF KeepAlive, Cleared
<1>7. CASE Main
  <2>1. CASE CountErase
    BY <2>1 DEF CountErase
  <2>2. CASE CountWrite
    BY <2>2 DEF CountWrite
  <2>3. CASE FactoryReset
    BY <2>3 DEF FactoryReset
  <2>4. CASE SetFwver
    BY <2>4 DEF SetFwver
  <2>5. CASE Resume
    BY <2>5 DEF Resume
  <2>6. CASE Enough
    BY <2>6 DEF Enough
  <2>7. CASE SetPlast
    BY <2>7 DEF SetPlast
  <2>8. CASE NotEnough
    BY <2>8 DEF NotEnough
  <2>9. CASE Logo
    BY <2>9 DEF Logo
  <2>10. CASE LeaveBootScreen
    BY <2>10 DEF LeaveBootScreen
  <2>11. CASE AwaitErase
    BY <2>11 DEF AwaitErase
  <2>12. CASE Ui
    BY <2>12 DEF Ui
  <2>13. CASE EnterPlast
    BY <2>13 DEF EnterPlast
  <2>14. CASE EnterTask
    BY <2>14 DEF EnterTask
  <2>15. CASE StartProv
    BY <2>15 DEF StartProv
  <2> QED
    BY <1>7, <2>1, <2>2, <2>3, <2>4, <2>5, <2>6, <2>7, <2>8, <2>9, <2>10, <2>11, <2>12, <2>13, <2>14, <2>15 DEF Main
<1>8. CASE EraseTask
  <2>1. CASE EraseRead
    BY <2>1 DEF EraseRead
  <2>2. CASE EraseMedia
    BY <2>2 DEF EraseMedia
  <2>3. CASE EraseEnd
    BY <2>3 DEF EraseEnd, Restored
  <2> QED
    BY <1>8, <2>1, <2>2, <2>3 DEF EraseTask
<1>9. CASE ConnTask
  <2>1. CASE ConnTimeout
    BY <2>1 DEF ConnTimeout
  <2>2. CASE TimeoutPlast
    BY <2>2 DEF TimeoutPlast
  <2>3. CASE TimeoutTask
    BY <2>3 DEF TimeoutTask
  <2> QED
    BY <1>9, <2>1, <2>2, <2>3 DEF ConnTask
<1>10. CASE SntpTask
  <2>1. CASE NtpAnswer
    BY <2>1 DEF NtpAnswer
  <2>2. CASE SntpClear
    BY <2>2 DEF SntpClear, Cleared
  <2> QED
    BY <1>10, <2>1, <2>2 DEF SntpTask
<1>11. CASE Provisioning
  <2>1. CASE ProvSave
    BY <2>1 DEF ProvSave
  <2>2. CASE ProvFail
    BY <2>2 DEF ProvFail
  <2>3. CASE ProvGotIp
    BY <2>3 DEF ProvGotIp
  <2>4. CASE ProvClear
    BY <2>4 DEF ProvClear, Cleared
  <2>5. CASE ProvLeave
    BY <2>5 DEF ProvLeave
  <2> QED
    BY <1>11, <2>1, <2>2, <2>3, <2>4, <2>5 DEF Provisioning
<1>12. CASE UNCHANGED vars
  BY <1>12 DEF vars
<1> QED
  BY <1>1, <1>2, <1>3, <1>4, <1>5, <1>6, <1>7, <1>8, <1>9, <1>10, <1>11, <1>12 DEF Next

\* The initial states are typed.
THEOREM TypeInit == Init => TypeInv
<1> SUFFICES ASSUME Init PROVE TypeInv
  OBVIOUS
<1>1. Flags
  BY DEF Init, RamInit, Flags
<1>2. TaskBound
  BY DEF Init, RamInit, TaskBound
<1>3. /\ cnt = 0 /\ bootCount = 0 /\ saved = 0 /\ presses = 0 /\ tasks = 0 /\ bar = 0
      /\ boots \in Nat /\ pc = "off" /\ me = "off" /\ ct = "off" /\ ka = "off"
      /\ sntp = "off" /\ prov = "idle"
  BY MaxBootsAssumption DEF Init, RamInit
<1> QED
  BY <1>1, <1>2, <1>3 DEF TypeInv, TypeOK, Flags, Full

\* With ModeInv, they keep the types.
THEOREM TypeNext == ModeInv /\ TypeInv /\ [Next]_vars => TypeInv'
<1> SUFFICES ASSUME ModeInv, TypeInv, [Next]_vars PROVE TypeInv'
  OBVIOUS
<1> USE DEF TypeInv, TypeOK, TaskBound, ModeInv, NotYet, MainEnters, Early, Full,
        env, mainRam, screen, net, timers, erase, dialogue, hist
<1>1. CASE Boot
  <2>1. Flags'
    BY <1>1 DEF Boot, Flags
  <2>2. TypeInv'
    BY <1>1, <2>1 DEF Boot, Flags
  <2> QED
    BY <2>2
<1>2. CASE BarStep
  BY <1>2 DEF BarStep, BarCap
<1>3. CASE ForceFull
  BY <1>3 DEF ForceFull
<1>4. CASE Upload
  BY <1>4 DEF Upload
<1>5. CASE GotIp
  BY <1>5 DEF GotIp
<1>6. CASE KeepAlive
  BY <1>6 DEF KeepAlive, Cleared
<1>7. CASE Main
  <2>1. CASE CountErase
    BY <2>1 DEF CountErase
  <2>2. CASE CountWrite
    BY <2>2 DEF CountWrite
  <2>3. CASE FactoryReset
    BY <2>3 DEF FactoryReset
  <2>4. CASE SetFwver
    BY <2>4 DEF SetFwver
  <2>5. CASE Resume
    BY <2>5 DEF Resume
  <2>6. CASE Enough
    BY <2>6 DEF Enough
  <2>7. CASE SetPlast
    BY <2>7 DEF SetPlast
  <2>8. CASE NotEnough
    BY <2>8 DEF NotEnough
  <2>9. CASE Logo
    BY <2>9 DEF Logo
  <2>10. CASE LeaveBootScreen
    BY <2>10 DEF LeaveBootScreen
  <2>11. CASE AwaitErase
    BY <2>11 DEF AwaitErase
  <2>12. CASE Ui
    BY <2>12 DEF Ui
  <2>13. CASE EnterPlast
    BY <2>13 DEF EnterPlast
  <2>14. CASE EnterTask
    BY <2>14 DEF EnterTask
  <2>15. CASE StartProv
    BY <2>15 DEF StartProv
  <2> QED
    BY <1>7, <2>1, <2>2, <2>3, <2>4, <2>5, <2>6, <2>7, <2>8, <2>9, <2>10, <2>11, <2>12, <2>13, <2>14, <2>15 DEF Main
<1>8. CASE EraseTask
  <2>1. CASE EraseRead
    BY <2>1 DEF EraseRead
  <2>2. CASE EraseMedia
    <3>1. Flags'
      BY <2>2 DEF EraseMedia, Flags
    <3>2. TypeInv'
      BY <2>2, <3>1 DEF EraseMedia, Flags
    <3> QED
      BY <3>2
  <2>3. CASE EraseEnd
    <3>1. Flags'
      BY <2>3 DEF EraseEnd, Flags
    <3>2. cnt' \in Nat
      BY <2>3 DEF EraseEnd, Restored
    <3>3. UNCHANGED <<env, image, pc, bootCount, active, screen, net, saved, timers,
                      dialogue, hist>> /\ me' = "done"
      BY <2>3 DEF EraseEnd
    <3>4. TypeInv'
      BY <3>1, <3>2, <3>3 DEF Flags
    <3> QED
      BY <3>4
  <2> QED
    BY <1>8, <2>1, <2>2, <2>3 DEF EraseTask
<1>9. CASE ConnTask
  <2>1. CASE ConnTimeout
    <3>1. Flags'
      BY <2>1 DEF ConnTimeout, Flags
    <3>2. TypeInv'
      BY <2>1, <3>1 DEF ConnTimeout, Flags
    <3> QED
      BY <3>2
  <2>2. CASE TimeoutPlast
    BY <2>2 DEF TimeoutPlast
  <2>3. CASE TimeoutTask
    BY <2>3 DEF TimeoutTask
  <2> QED
    BY <1>9, <2>1, <2>2, <2>3 DEF ConnTask
<1>10. CASE SntpTask
  <2>1. CASE NtpAnswer
    BY <2>1 DEF NtpAnswer
  <2>2. CASE SntpClear
    BY <2>2 DEF SntpClear, Cleared
  <2> QED
    BY <1>10, <2>1, <2>2 DEF SntpTask
<1>11. CASE Provisioning
  <2>1. CASE ProvSave
    BY <2>1 DEF ProvSave
  <2>2. CASE ProvFail
    BY <2>2 DEF ProvFail
  <2>3. CASE ProvGotIp
    BY <2>3 DEF ProvGotIp
  <2>4. CASE ProvClear
    BY <2>4 DEF ProvClear, Cleared
  <2>5. CASE ProvLeave
    <3>1. Flags'
      BY <2>5 DEF ProvLeave, Flags
    <3>2. TypeInv'
      BY <2>5, <3>1 DEF ProvLeave, Flags
    <3> QED
      BY <3>2
  <2> QED
    BY <1>11, <2>1, <2>2, <2>3, <2>4, <2>5 DEF Provisioning
<1>12. CASE UNCHANGED vars
  BY <1>12 DEF vars
<1> QED
  BY <1>1, <1>2, <1>3, <1>4, <1>5, <1>6, <1>7, <1>8, <1>9, <1>10, <1>11, <1>12 DEF Next

-----------------------------------------------------------------------------
(* The theorems. *)

\* The variables keep their types; no boot creates a third prov_start task.
THEOREM TypeCorrect == Spec => []TypeOK
<1>1. TypeInv => TypeOK
  BY DEF TypeInv
<1> QED
  BY <1>1, BootInit, ModeNext, TypeInit, TypeNext, PTL DEF Spec

\* In the main loop the clock is in the mode that the next reset will find in
\* w_plast, save while prov_enter or a success is being recorded.
THEOREM ModePersistsAlways == Spec => []ModePersists
<1>1. ModeInv => ModePersists
  BY DEF ModeInv, Recorded, Later, ModePersists
<1> QED
  BY <1>1, BootInit, ModeNext, PTL DEF Spec

\* An image that a flag calls valid is in the partition, however resets, the
\* erase of a factory reset and uploads fall (main.c boot_logo_wait).
THEOREM FlaggedImageAlways == Spec => []FlaggedImageIsThere
<1>1. EraseInv => FlaggedImageIsThere
  BY DEF EraseInv
<1> QED
  BY <1>1, BootInit, EraseNext, PTL DEF Spec

\* The only step from the check to the request compares the counter.
LEMMA OnlyEnough ==
    ASSUME CountInv, [Next]_vars, pc = "check", pc' = "plast"
    PROVE  bootCount >= Need
<1> USE DEF env, mainRam, screen, net, timers, erase, dialogue, hist, CountInv,
        QuietUntilLogo, QuietWhileErasing, Early, Erasing
<1>1. CASE Boot
  BY <1>1 DEF Boot
<1>2. CASE BarStep
  BY <1>2 DEF BarStep
<1>3. CASE ForceFull
  BY <1>3 DEF ForceFull
<1>4. CASE Upload
  BY <1>4 DEF Upload
<1>5. CASE GotIp
  BY <1>5 DEF GotIp
<1>6. CASE KeepAlive
  BY <1>6 DEF KeepAlive
<1>7. CASE Main
  <2>1. CASE CountErase
    BY <2>1 DEF CountErase
  <2>2. CASE CountWrite
    BY <2>2 DEF CountWrite
  <2>3. CASE FactoryReset
    BY <2>3 DEF FactoryReset
  <2>4. CASE SetFwver
    BY <2>4 DEF SetFwver
  <2>5. CASE Resume
    BY <2>5 DEF Resume
  <2>6. CASE Enough
    BY <2>6 DEF Enough
  <2>7. CASE SetPlast
    BY <2>7 DEF SetPlast
  <2>8. CASE NotEnough
    BY <2>8 DEF NotEnough
  <2>9. CASE Logo
    BY <2>9 DEF Logo
  <2>10. CASE LeaveBootScreen
    BY <2>10 DEF LeaveBootScreen
  <2>11. CASE AwaitErase
    BY <2>11 DEF AwaitErase
  <2>12. CASE Ui
    BY <2>12 DEF Ui
  <2>13. CASE EnterPlast
    BY <2>13 DEF EnterPlast
  <2>14. CASE EnterTask
    BY <2>14 DEF EnterTask
  <2>15. CASE StartProv
    BY <2>15 DEF StartProv
  <2> QED
    BY <1>7, <2>1, <2>2, <2>3, <2>4, <2>5, <2>6, <2>7, <2>8, <2>9, <2>10, <2>11, <2>12, <2>13, <2>14, <2>15 DEF Main
<1>8. CASE EraseTask
  <2>1. CASE EraseRead
    BY <2>1 DEF EraseRead
  <2>2. CASE EraseMedia
    BY <2>2 DEF EraseMedia
  <2>3. CASE EraseEnd
    BY <2>3 DEF EraseEnd
  <2> QED
    BY <1>8, <2>1, <2>2, <2>3 DEF EraseTask
<1>9. CASE ConnTask
  <2>1. CASE ConnTimeout
    BY <2>1 DEF ConnTimeout
  <2>2. CASE TimeoutPlast
    BY <2>2 DEF TimeoutPlast
  <2>3. CASE TimeoutTask
    BY <2>3 DEF TimeoutTask
  <2> QED
    BY <1>9, <2>1, <2>2, <2>3 DEF ConnTask
<1>10. CASE SntpTask
  <2>1. CASE NtpAnswer
    BY <2>1 DEF NtpAnswer
  <2>2. CASE SntpClear
    BY <2>2 DEF SntpClear
  <2> QED
    BY <1>10, <2>1, <2>2 DEF SntpTask
<1>11. CASE Provisioning
  <2>1. CASE ProvSave
    BY <2>1 DEF ProvSave
  <2>2. CASE ProvFail
    BY <2>2 DEF ProvFail
  <2>3. CASE ProvGotIp
    BY <2>3 DEF ProvGotIp
  <2>4. CASE ProvClear
    BY <2>4 DEF ProvClear
  <2>5. CASE ProvLeave
    BY <2>5 DEF ProvLeave
  <2> QED
    BY <1>11, <2>1, <2>2, <2>3, <2>4, <2>5 DEF Provisioning
<1>12. CASE UNCHANGED vars
  BY <1>12 DEF vars
<1> QED
  BY <1>1, <1>2, <1>3, <1>4, <1>5, <1>6, <1>7, <1>8, <1>9, <1>10, <1>11, <1>12 DEF Next

\* Provisioning because of the counter needs Need boots in a row, whatever the
\* erase of a factory reset saved and restored (provision.c header).
THEOREM OnlyAskedForAlways == Spec => OnlyAskedFor
<1>1. CountInv /\ [Next]_vars => (pc = "check" /\ pc' = "plast" => presses >= Need)
  <2> SUFFICES ASSUME CountInv, [Next]_vars, pc = "check", pc' = "plast"
               PROVE  presses >= Need
    OBVIOUS
  <2>1. bootCount >= Need
    BY OnlyEnough
  <2>2. bootCount <= presses /\ bootCount \in Nat /\ presses \in Nat
    BY DEF CountInv, Counted
  <2> QED
    BY <2>1, <2>2, NeedAssumption
<1>2. CountInv /\ [Next]_vars
        => [pc = "check" /\ pc' = "plast" => presses >= Need]_vars
  BY <1>1
<1> QED
  BY <1>2, BootInit, CountNext, PTL DEF Spec, OnlyAskedFor

\* Only the end of the erase, or a reset, takes the flag of the erase away.
LEMMA OnlyEraseEnd ==
    ASSUME CountInv, [Next]_vars, pending, ~pending', pc' # "erase"
    PROVE  EraseEnd
<1> USE DEF env, mainRam, screen, net, timers, erase, dialogue, hist, CountInv,
        NoNetwork
<1>1. CASE Boot
  BY <1>1 DEF Boot
<1>2. CASE BarStep
  BY <1>2 DEF BarStep
<1>3. CASE ForceFull
  BY <1>3 DEF ForceFull
<1>4. CASE Upload
  BY <1>4 DEF Upload
<1>5. CASE GotIp
  BY <1>5 DEF GotIp
<1>6. CASE KeepAlive
  BY <1>6 DEF KeepAlive
<1>7. CASE Main
  <2>1. CASE CountErase
    BY <2>1 DEF CountErase
  <2>2. CASE CountWrite
    BY <2>2 DEF CountWrite
  <2>3. CASE FactoryReset
    BY <2>3 DEF FactoryReset
  <2>4. CASE SetFwver
    BY <2>4 DEF SetFwver
  <2>5. CASE Resume
    BY <2>5 DEF Resume
  <2>6. CASE Enough
    BY <2>6 DEF Enough
  <2>7. CASE SetPlast
    BY <2>7 DEF SetPlast
  <2>8. CASE NotEnough
    BY <2>8 DEF NotEnough
  <2>9. CASE Logo
    BY <2>9 DEF Logo
  <2>10. CASE LeaveBootScreen
    BY <2>10 DEF LeaveBootScreen
  <2>11. CASE AwaitErase
    BY <2>11 DEF AwaitErase
  <2>12. CASE Ui
    BY <2>12 DEF Ui
  <2>13. CASE EnterPlast
    BY <2>13 DEF EnterPlast
  <2>14. CASE EnterTask
    BY <2>14 DEF EnterTask
  <2>15. CASE StartProv
    BY <2>15 DEF StartProv
  <2> QED
    BY <1>7, <2>1, <2>2, <2>3, <2>4, <2>5, <2>6, <2>7, <2>8, <2>9, <2>10, <2>11, <2>12, <2>13, <2>14, <2>15 DEF Main
<1>8. CASE EraseTask
  <2>1. CASE EraseRead
    BY <2>1 DEF EraseRead
  <2>2. CASE EraseMedia
    BY <2>2 DEF EraseMedia
  <2>3. CASE EraseEnd
    BY <2>3 DEF EraseEnd
  <2> QED
    BY <1>8, <2>1, <2>2, <2>3 DEF EraseTask
<1>9. CASE ConnTask
  <2>1. CASE ConnTimeout
    BY <2>1 DEF ConnTimeout
  <2>2. CASE TimeoutPlast
    BY <2>2 DEF TimeoutPlast
  <2>3. CASE TimeoutTask
    BY <2>3 DEF TimeoutTask
  <2> QED
    BY <1>9, <2>1, <2>2, <2>3 DEF ConnTask
<1>10. CASE SntpTask
  <2>1. CASE NtpAnswer
    BY <2>1 DEF NtpAnswer
  <2>2. CASE SntpClear
    BY <2>2 DEF SntpClear
  <2> QED
    BY <1>10, <2>1, <2>2 DEF SntpTask
<1>11. CASE Provisioning
  <2>1. CASE ProvSave
    BY <2>1 DEF ProvSave
  <2>2. CASE ProvFail
    BY <2>2 DEF ProvFail
  <2>3. CASE ProvGotIp
    BY <2>3 DEF ProvGotIp
  <2>4. CASE ProvClear
    BY <2>4 DEF ProvClear
  <2>5. CASE ProvLeave
    BY <2>5 DEF ProvLeave
  <2> QED
    BY <1>11, <2>1, <2>2, <2>3, <2>4, <2>5 DEF Provisioning
<1>12. CASE UNCHANGED vars
  BY <1>12 DEF vars
<1> QED
  BY <1>1, <1>2, <1>3, <1>4, <1>5, <1>6, <1>7, <1>8, <1>9, <1>10, <1>11, <1>12 DEF Next

\* A factory reset that is not interrupted leaves a count below Need as it was
\* and forgets a larger one (main.c media_erase_task, bootcnt.h).
THEOREM EraseKeepsCountAlways == Spec => EraseKeepsCount
<1>1. CountInv /\ KeepInv /\ [Next]_vars
        => (pending /\ ~pending' /\ pc' # "erase"
              => cnt' = IF bootCount < Need THEN bootCount ELSE 0)
  <2> SUFFICES ASSUME CountInv, KeepInv, [Next]_vars, pending, ~pending', pc' # "erase"
               PROVE  cnt' = Kept
    BY DEF Kept
  <2>1. me = "restore" /\ cnt' = Restored
    BY OnlyEraseEnd DEF EraseEnd
  <2>2. saved = Kept /\ cnt = 0 /\ bootCount \in Nat /\ bootCount > 0
    BY <2>1 DEF KeepInv, Erasing
  <2> QED
    BY <2>1, <2>2, NeedAssumption DEF Restored, Kept
<1>2. CountInv /\ KeepInv /\ [Next]_vars
        => [pending /\ ~pending' /\ pc' # "erase"
              => cnt' = IF bootCount < Need THEN bootCount ELSE 0]_vars
  BY <1>1
<1> QED
  BY <1>2, BootInit, CountNext, KeepNext, PTL DEF Spec, EraseKeepsCount
==============================================================================
