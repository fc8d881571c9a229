------------------------------ MODULE Provision ------------------------------
(***************************************************************************)
(* Provisioning (xcmd/provision.c): the HTTP worker that takes a network   *)
(* name and a password, the WiFi callback in the event loop task, and the  *)
(* delayed tasks that try a failed connection again.  They share flags     *)
(* without a lock.  The event loop's priority (15) is above those of the   *)
(* worker (12) and the delayed tasks (10), and the callback does not wait  *)
(* between its test of the flags and its last store to them: it is one     *)
(* step, and may fall between any two stores of the others.                *)
(*                                                                         *)
(* The WiFi manager is in sdk/ and modelled by what it does: a connect     *)
(* request that meets one in progress aborts it, every attempt ends in an  *)
(* event, and after a disconnect the manager connects again by itself,     *)
(* unless it is told not to.  The event loop is taken to handle a          *)
(* disconnect before that reconnect, 2 s later, starts.                    *)
(***************************************************************************)
EXTENDS Integers, Sequences, FiniteSets

CONSTANTS Creds,        \* what a user may submit: a network and a password
          Good,         \* those a router accepts
          Garbled,      \* what is read from memory that was freed
          RetryMax,     \* PROV_RETRY_MAX
          HandlerCounts,    \* how often prov_wifi_cb may be registered
          MaxSubmits    \* bound: submissions in a behaviour

ASSUME CredsAssumption == Good \subseteq Creds /\ Garbled \notin Creds
ASSUME RetryAssumption == RetryMax \in Nat /\ MaxSubmits \in Nat
ASSUME HandlersAssumption == HandlerCounts \subseteq {1, 2}

VARIABLES
    cfg,        \* g_cfg.ssid and g_cfg.pwd, and their copy in flash
    connecting, configured, fail,   \* s_connecting, s_configured, s_conn_fail
    left,       \* s_retry_left
    worker,     \* where the HTTP worker is in handle_save
    retries,    \* delayed prov_retry_tasks: the submissions they were made for
    due,        \* those past their test, about to connect
    handlers,   \* registrations of prov_wifi_cb
    turn,       \* those that have still to see the event at hand
    events,     \* posted events not handled yet
    sta,        \* the station: what it is trying, or its state
    code,       \* the status code the manager keeps
    \* history
    sub,        \* number of the latest submission
    overlap,    \* some submission came before the one before it was decided
    cut,        \* a failure was reported between the worker's stores (911, 912)
    connects,   \* calls of wifi_mgmr_sta_connect
    got         \* what the station was connecting with when it got an address

flags == <<connecting, configured, fail, left>>
tasks == <<retries, due>>
radio == <<sta, code>>
hist == <<sub, overlap, cut, connects, got>>
vars == <<cfg, flags, worker, tasks, handlers, turn, events, radio, hist>>

Stored == Creds \cup {Garbled}
NoCred == [none |-> TRUE]
Idle == [st |-> "idle"]
Trying(c) == [st |-> "trying", with |-> c]
Up(c) == [st |-> "up", with |-> c]
Down(c) == [st |-> "down", with |-> c]   \* will connect again by itself
Stations == {Idle} \cup UNION {{Trying(c), Up(c), Down(c)} : c \in Stored}

TypeOK ==
    /\ cfg \in Stored \cup {NoCred}
    /\ connecting \in BOOLEAN /\ configured \in BOOLEAN /\ fail \in BOOLEAN
    /\ left \in 0 .. RetryMax
    /\ worker \in {"idle", "copy", "set", "clear", "renew", "scan", "connect"}
    /\ retries \in Seq(1 .. sub) /\ due \in Nat
    /\ handlers \in HandlerCounts
    /\ turn \in 0 .. handlers
    /\ events \in Seq({"GOT_IP", "DISCONNECT"})
    /\ sta \in Stations
    /\ code \in {"ok", "psk", "other"}
    /\ sub \in 0 .. MaxSubmits
    /\ overlap \in BOOLEAN /\ cut \in BOOLEAN /\ connects \in Nat
    /\ got \in Stored \cup {NoCred}

Init ==
    /\ cfg = NoCred
    /\ connecting = FALSE /\ configured = FALSE /\ fail = FALSE
    /\ left = 0
    /\ worker = "idle"
    /\ retries = <<>> /\ due = 0
    /\ handlers \in HandlerCounts /\ turn = 0
    /\ events = <<>>
    /\ sta = Idle /\ code = "ok"
    /\ sub = 0 /\ overlap = FALSE /\ cut = FALSE /\ connects = 0 /\ got = NoCred

-----------------------------------------------------------------------------
(* The WiFi manager. *)

\* wifi_mgmr_sta_connect: in its Idle and Disconnect states the attempt starts.
\* Otherwise what goes on is aborted and its end posted; the new attempt follows,
\* or is lost when the callback's autoconnect_disable takes the station down first.
Connect(c) ==
    /\ connects' = connects + 1
    /\ \/ /\ sta.st \in {"idle", "down"}
          /\ sta' = Trying(c)
          /\ UNCHANGED <<events, code>>
       \/ /\ sta.st \in {"trying", "up"}
          /\ sta' \in {Trying(c), Idle}
          /\ code' = "other"
          /\ events' = Append(events, "DISCONNECT")

\* autoconnect_disable in the Disconnect state: no reconnect.
StayDown == sta' = IF sta.st = "down" THEN Idle ELSE sta

\* A router accepts, rejects the password, or something else goes wrong; then the
\* manager may have been told before not to connect again.
Attempt ==
    /\ sta.st = "trying"
    /\ \/ /\ sta.with \in Good
          /\ sta' = Up(sta.with)
          /\ got' = sta.with
          /\ code' = "ok"
          /\ events' = Append(events, "GOT_IP")
       \/ /\ sta' \in {Down(sta.with), Idle}
          /\ code' \in IF sta.with \in Good THEN {"other"} ELSE {"psk", "other"}
          /\ events' = Append(events, "DISCONNECT")
          /\ UNCHANGED got
    /\ UNCHANGED <<cfg, flags, worker, tasks, handlers, turn, sub, overlap, cut, connects>>

\* The manager's timer after a disconnect that nobody answered.
Reconnect ==
    /\ sta.st = "down" /\ events = <<>>
    /\ sta' = Trying(sta.with)
    /\ UNCHANGED <<cfg, flags, worker, tasks, handlers, turn, events, code, hist>>

-----------------------------------------------------------------------------
(* The HTTP worker: handle_save.  One request is handled at a time. *)

\* The request is parsed and the configuration begins to be overwritten: half
\* old and half new it is no network's.
Submit ==
    /\ worker = "idle"
    /\ sub < MaxSubmits
    /\ sub' = sub + 1
    /\ overlap' = (overlap \/ (sub > 0 /\ ~fail))
    /\ cut' = FALSE
    /\ cfg' = Garbled
    /\ worker' = "copy"
    /\ UNCHANGED <<flags, tasks, handlers, turn, events, radio, connects, got>>

\* It is overwritten and saved; what is copied was freed before and is garbled
\* if another task has taken the memory.
Copied(c) ==
    /\ worker = "copy"
    /\ cfg' \in {c, Garbled}
    /\ worker' = "set"
    /\ UNCHANGED <<flags, tasks, handlers, turn, events, radio, hist>>

\* The three stores that start an attempt anew.
SetConnecting ==
    /\ worker = "set"
    /\ connecting' = TRUE
    /\ worker' = "clear"
    /\ UNCHANGED <<cfg, configured, fail, left, tasks, handlers, turn, events, radio, hist>>

ClearFail ==
    /\ worker = "clear"
    /\ fail' = FALSE
    /\ worker' = "renew"
    /\ UNCHANGED <<cfg, connecting, configured, left, tasks, handlers, turn, events, radio,
                   hist>>

\* Mutant of RenewRetries: one retry too many.
RenewRetriesOneMore ==
    /\ worker = "renew"
    /\ left' = RetryMax + 1
    /\ worker' = "scan"
    /\ UNCHANGED <<cfg, connecting, configured, fail, tasks, handlers, turn, events, radio,
                   hist>>

RenewRetries ==
    /\ worker = "renew"
    /\ left' = RetryMax
    /\ worker' = "scan"
    /\ UNCHANGED <<cfg, connecting, configured, fail, tasks, handlers, turn, events, radio,
                   hist>>

\* Up to 4 s for a scan and 1 s for the access point to change channel.
Scan ==
    /\ worker = "scan"
    /\ worker' = "connect"
    /\ UNCHANGED <<cfg, flags, tasks, handlers, turn, events, radio, hist>>

SaveConnect ==
    /\ worker = "connect"
    /\ Connect(cfg)
    /\ worker' = "idle"
    /\ UNCHANGED <<cfg, flags, tasks, handlers, turn, sub, overlap, cut, got>>

-----------------------------------------------------------------------------
(* The event loop: each registration of prov_wifi_cb sees each event. *)

TakeEvent ==
    /\ turn = 0 /\ events # <<>>
    /\ turn' = handlers
    /\ UNCHANGED <<cfg, flags, worker, tasks, handlers, events, radio, hist>>

\* After the last registration the event is gone.
EventSeen ==
    /\ turn' = turn - 1
    /\ events' = IF turn = 1 THEN Tail(events) ELSE events

\* The callback stays here for 8 s and then resets the clock, which ends the
\* behaviour; the HTTP worker and the delayed tasks go on until then.
OnGotIp ==
    /\ turn > 0 /\ Head(events) = "GOT_IP"
    /\ ~configured
    /\ configured' = TRUE
    /\ fail' = FALSE
    /\ connecting' = FALSE
    /\ UNCHANGED <<cfg, left, worker, tasks, handlers, turn, events, radio, hist>>

\* A disconnect nobody waits for.
Ignore ==
    /\ turn > 0 /\ Head(events) = "DISCONNECT"
    /\ ~connecting \/ configured
    /\ EventSeen
    /\ UNCHANGED <<cfg, flags, worker, tasks, handlers, radio, hist>>

\* Mutant of GiveUp: the failure is not reported.
GiveUpSilent ==
    /\ turn > 0 /\ Head(events) = "DISCONNECT"
    /\ connecting /\ ~configured
    /\ code = "psk" \/ left = 0
    /\ connecting' = FALSE
    /\ cut' = (cut \/ worker = "clear")
    /\ EventSeen /\ StayDown
    /\ UNCHANGED <<cfg, configured, fail, left, worker, tasks, handlers, code, sub, overlap,
                   connects, got>>

\* The password is wrong, or the retries are used up.
GiveUp ==
    /\ turn > 0 /\ Head(events) = "DISCONNECT"
    /\ connecting /\ ~configured
    /\ code = "psk" \/ left = 0
    /\ connecting' = FALSE
    /\ fail' = TRUE
    /\ cut' = (cut \/ worker = "clear")
    /\ EventSeen /\ StayDown
    /\ UNCHANGED <<cfg, configured, left, worker, tasks, handlers, code, sub, overlap,
                   connects, got>>

\* Mutant of Again: the retry is not counted.
AgainForever ==
    /\ turn > 0 /\ Head(events) = "DISCONNECT"
    /\ connecting /\ ~configured
    /\ code # "psk" /\ left > 0
    /\ retries' = Append(retries, sub)
    /\ EventSeen /\ StayDown
    /\ UNCHANGED <<cfg, flags, worker, due, handlers, code, hist>>

\* Mutant of Again: the last retry is reported as a failure before it is made.
AgainReportsLast ==
    /\ turn > 0 /\ Head(events) = "DISCONNECT"
    /\ connecting /\ ~configured
    /\ code # "psk" /\ left > 0
    /\ left' = left - 1
    /\ fail' = (left' = 0)
    /\ retries' = Append(retries, sub)
    /\ EventSeen /\ StayDown
    /\ UNCHANGED <<cfg, connecting, configured, worker, due, handlers, code, hist>>

\* Anything else is tried again after 6 s, and counted.
Again ==
    /\ turn > 0 /\ Head(events) = "DISCONNECT"
    /\ connecting /\ ~configured
    /\ code # "psk" /\ left > 0
    /\ left' = left - 1
    /\ retries' = Append(retries, sub)
    /\ EventSeen /\ StayDown
    /\ UNCHANGED <<cfg, connecting, configured, fail, worker, due, handlers, code, hist>>

\* What prov_retry_task looks at after its delay of 6 s.
RetryDue == connecting /\ ~configured /\ ~fail

RetryTest ==
    /\ retries # <<>>
    /\ retries' = Tail(retries)
    /\ due' = IF RetryDue THEN due + 1 ELSE due
    /\ UNCHANGED <<cfg, flags, worker, handlers, turn, events, radio, hist>>

\* By the time it connects the flags may have changed, and the configuration.
RetryConnect ==
    /\ due > 0
    /\ due' = due - 1
    /\ Connect(cfg)
    /\ UNCHANGED <<cfg, flags, worker, retries, handlers, turn, sub, overlap, cut, got>>

\* The router drops the station again before the clock's reset.
Drop ==
    /\ sta.st = "up"
    /\ sta' \in {Down(sta.with), Idle}
    /\ code' = "other"
    /\ events' = Append(events, "DISCONNECT")
    /\ UNCHANGED <<cfg, flags, worker, tasks, handlers, turn, hist>>

-----------------------------------------------------------------------------
Worker ==
    \/ \E c \in Creds : Copied(c)
    \/ SetConnecting \/ ClearFail \/ RenewRetries \/ Scan \/ SaveConnect
EventLoop == TakeEvent \/ OnGotIp \/ Ignore \/ GiveUp \/ Again
Retry == RetryTest \/ RetryConnect

Next ==
    \/ Submit \/ Worker \/ EventLoop \/ Retry
    \/ Attempt \/ Drop \/ Reconnect

Fairness == WF_vars(Worker) /\ WF_vars(EventLoop) /\ WF_vars(Retry) /\ WF_vars(Attempt)

Spec == Init /\ [][Next]_vars /\ Fairness

-----------------------------------------------------------------------------
\* handle_get_status.
Status == IF configured THEN "ok" ELSE IF fail THEN "fail" ELSE "connecting"

\* After a submission "connecting" is never the last word: the phone is told "ok"
\* or "fail" in the end, however submissions, events and retries fall
\* (handle_get_status), unless a failure of the submission before is reported
\* between the worker's stores of s_connecting and s_conn_fail: that leaves both
\* 0, what follows is ignored, and the phone may be told "connecting" for ever.
StatusSettles ==
    sub > 0 /\ Status = "connecting" ~> Status # "connecting" \/ cut

\* A submission causes at most 1 + RetryMax connection attempts, whichever
\* submission a retry was made for (provision.c:196-198, no storm of retries).
NoStorm == connects <= sub * (RetryMax + 1)

\* With one registration of the callback and a user who waits for the verdict,
\* "fail" means that nothing is tried any more, and "ok" that the stored
\* configuration is the one that got the address (provision.c:12-18, 196-198).
VerdictTrue ==
    handlers = 1 /\ ~overlap =>
        /\ Status = "fail" => sta.st \notin {"trying", "down"} /\ retries = <<>> /\ due = 0
        /\ configured => cfg = got

\* A delayed retry passes its test only for the submission it was made for
\* (provision.c:206 "if the user submitted again, give the retry up").
StaleRetryDropped ==
    [][due' > due => Head(retries) = sub]_vars
==============================================================================
