---------------------------- MODULE ProvisionProofs ----------------------------
(***************************************************************************)
(* Theorems about Provision, for every set of networks and passwords, any  *)
(* number of retries and submissions, and one or two registrations of the  *)
(* callback.                                                               *)
(***************************************************************************)
EXTENDS Provision, SequenceTheorems, TLAPS

-----------------------------------------------------------------------------
(* Types. *)

Events == {"GOT_IP", "DISCONNECT"}

\* A registration that has still to see an event has one to see.
TurnHasEvent == turn > 0 => events # <<>>

\* Nothing is tried before the first submission, which stores something.
Submitted ==
    /\ connecting \/ worker # "idle" \/ due > 0 => sub > 0
    /\ sub > 0 => cfg \in Stored

ProvType == TypeOK /\ TurnHasEvent /\ Submitted

\* A station that is not idle tries, or has, something stored.
LEMMA StationHas ==
    ASSUME sta \in Stations, sta.st # "idle"
    PROVE  sta.with \in Stored
<1>1. sta # Idle
  BY DEF Idle
<1>2. PICK c \in Stored : sta \in {Trying(c), Up(c), Down(c)}
  BY <1>1 DEF Stations
<1> QED
  BY <1>2 DEF Trying, Up, Down

\* A connect request, from whichever task.
LEMMA ConnectTyped ==
    ASSUME ProvType, NEW c \in Stored, Connect(c)
    PROVE  /\ sta' \in Stations /\ code' \in {"ok", "psk", "other"}
           /\ events' \in Seq(Events) /\ (events # <<>> => events' # <<>>)
           /\ connects' \in Nat
<1>1. events \in Seq(Events) /\ connects \in Nat /\ code \in {"ok", "psk", "other"}
  BY DEF ProvType, TypeOK, Events
<1>2. Trying(c) \in Stations /\ Idle \in Stations
  BY DEF Stations
<1>3. Append(events, "DISCONNECT") \in Seq(Events)
      /\ Append(events, "DISCONNECT") # <<>>
  BY <1>1, AppendProperties DEF Events
<1> QED
  BY <1>1, <1>2, <1>3 DEF Connect

\* One registration has seen the event.
LEMMA EventSeenTyped ==
    ASSUME ProvType, turn > 0, EventSeen
    PROVE  /\ turn' \in 0 .. handlers /\ events' \in Seq(Events)
           /\ (turn' > 0 => events' # <<>>)
<1>1. turn \in 1 .. handlers /\ handlers \in Nat
  BY HandlersAssumption DEF ProvType, TypeOK
<1>2. events \in Seq(Events) /\ events # <<>>
  BY DEF ProvType, TypeOK, TurnHasEvent, Events
<1>3. Tail(events) \in Seq(Events)
  BY <1>2, HeadTailProperties
<1>4. turn' = turn - 1 /\ turn' \in 0 .. handlers
  BY <1>1 DEF EventSeen
<1>5. events' = IF turn = 1 THEN Tail(events) ELSE events
  BY DEF EventSeen
<1>6. CASE turn = 1
  BY <1>3, <1>4, <1>5, <1>6
<1>7. CASE turn # 1
  BY <1>2, <1>4, <1>5, <1>7
<1> QED
  BY <1>6, <1>7

-----------------------------------------------------------------------------
(* Types are kept. *)

\* The steps of handle_save.
LEMMA WorkerTyped ==
    ASSUME ProvType, Worker
    PROVE  ProvType'
<1> USE RetryAssumption
<1>1. CASE SetConnecting \/ ClearFail \/ RenewRetries
  <2>1. /\ connecting' \in BOOLEAN /\ fail' \in BOOLEAN /\ left' \in 0 .. RetryMax
        /\ worker # "idle" /\ worker' \in {"clear", "renew", "scan"}
        /\ UNCHANGED <<cfg, configured, tasks, handlers, turn, events, radio, hist>>
    <3>1. CASE SetConnecting
      BY <3>1 DEF SetConnecting, ProvType, TypeOK
    <3>2. CASE ClearFail
      BY <3>2 DEF ClearFail, ProvType, TypeOK
    <3>3. CASE RenewRetries
      BY <3>3 DEF RenewRetries, ProvType, TypeOK
    <3> QED
      BY <1>1, <3>1, <3>2, <3>3
  <2>2. TypeOK'
    BY <2>1 DEF ProvType, TypeOK, tasks, radio, hist
  <2>3. TurnHasEvent' /\ Submitted'
    BY <2>1 DEF ProvType, TurnHasEvent, Submitted, tasks, hist
  <2> QED
    BY <2>2, <2>3 DEF ProvType
<1>4. CASE \E c \in Creds : Copied(c)
  <2>1. /\ cfg' \in Stored /\ worker # "idle" /\ worker' = "set"
        /\ UNCHANGED <<flags, tasks, handlers, turn, events, radio, hist>>
    BY <1>4 DEF Copied, Stored
  <2>2. TypeOK'
    BY <2>1 DEF ProvType, TypeOK, flags, tasks, radio, hist
  <2>3. TurnHasEvent' /\ Submitted'
    BY <2>1 DEF ProvType, TurnHasEvent, Submitted, flags, tasks, hist
  <2> QED
    BY <2>2, <2>3 DEF ProvType
<1>2. CASE Scan
  BY <1>2 DEF Scan, ProvType, TypeOK, TurnHasEvent, Submitted, flags, tasks, radio, hist
<1>3. CASE SaveConnect
  <2>1. cfg \in Stored /\ Connect(cfg)
    BY <1>3 DEF SaveConnect, ProvType, Submitted
  <2> QED
    BY <1>3, <2>1, ConnectTyped
    DEF SaveConnect, ProvType, TypeOK, TurnHasEvent, Submitted, flags, tasks, Events
<1> QED
  BY <1>1, <1>2, <1>3, <1>4 DEF Worker

\* Told not to, the manager does not connect again by itself.
LEMMA StayDownTyped ==
    ASSUME sta \in Stations, StayDown
    PROVE  sta' \in Stations /\ (sta = Idle => sta' = Idle)
BY DEF StayDown, Stations

\* The steps of prov_wifi_cb.
LEMMA EventLoopTyped ==
    ASSUME ProvType, EventLoop
    PROVE  ProvType'
<1> USE RetryAssumption
<1>0. sta \in Stations
  BY DEF ProvType, TypeOK
<1>1. CASE TakeEvent
  BY <1>1, HandlersAssumption
  DEF TakeEvent, ProvType, TypeOK, TurnHasEvent, Submitted, flags, tasks, radio, hist
<1>2. CASE OnGotIp
  BY <1>2 DEF OnGotIp, ProvType, TypeOK, TurnHasEvent, Submitted, tasks, radio, hist
<1>3. CASE Ignore
  BY <1>3, EventSeenTyped
  DEF Ignore, ProvType, TypeOK, TurnHasEvent, Submitted, flags, tasks, radio, hist, Events
<1>4. CASE GiveUp
  <2>1. sta' \in Stations /\ cut' \in BOOLEAN /\ EventSeen /\ turn > 0
    BY <1>0, <1>4, StayDownTyped DEF GiveUp, ProvType, TypeOK
  <2> QED
    BY <1>4, <2>1, EventSeenTyped
    DEF GiveUp, ProvType, TypeOK, TurnHasEvent, Submitted, tasks, Events
<1>5. CASE Again
  <2>1. turn > 0 /\ EventSeen /\ connecting /\ left > 0 /\ left' = left - 1
        /\ retries' = Append(retries, sub)
    BY <1>5 DEF Again
  <2>2. left' \in 0 .. RetryMax
    BY <2>1 DEF ProvType, TypeOK
  <2>3. sub \in 1 .. sub /\ retries \in Seq(1 .. sub)
    BY <2>1 DEF ProvType, TypeOK, Submitted
  <2>4. retries' \in Seq(1 .. sub) /\ sta' \in Stations
    BY <1>0, <1>5, <2>1, <2>3, AppendProperties, StayDownTyped DEF Again
  <2> QED
    BY <1>5, <2>1, <2>2, <2>4, EventSeenTyped
    DEF Again, ProvType, TypeOK, TurnHasEvent, Submitted, hist, Events
<1> QED
  BY <1>1, <1>2, <1>3, <1>4, <1>5 DEF EventLoop

\* A submission.
LEMMA SubmitTyped ==
    ASSUME ProvType, Submit
    PROVE  ProvType'
<1>1. sub \in Nat /\ sub' = sub + 1 /\ sub' \in 0 .. MaxSubmits
  BY RetryAssumption DEF Submit, ProvType, TypeOK
<1>2. retries' \in Seq(1 .. sub')
  <2>1. retries \in Seq(1 .. sub) /\ 1 .. sub \subseteq 1 .. sub'
    BY <1>1 DEF ProvType, TypeOK
  <2>2. retries \in Seq(1 .. sub')
    BY <2>1, SeqMonotonic
  <2> QED
    BY <2>2 DEF Submit, tasks
<1>3. cfg' \in Stored
  BY DEF Submit, Stored
<1>4. overlap' \in BOOLEAN
  BY DEF Submit, ProvType, TypeOK
<1>5. TypeOK'
  BY <1>1, <1>2, <1>3, <1>4 DEF Submit, ProvType, TypeOK, flags, tasks, radio
<1> QED
  BY <1>1, <1>3, <1>5 DEF Submit, ProvType, TurnHasEvent, Submitted, flags, tasks

\* A retry task.
LEMMA RetryTyped ==
    ASSUME ProvType, Retry
    PROVE  ProvType'
<1>1. CASE RetryTest
  <2>1. retries \in Seq(1 .. sub) /\ retries # <<>> /\ retries' = Tail(retries)
    BY <1>1 DEF RetryTest, ProvType, TypeOK
  <2>2. retries' \in Seq(1 .. sub)
    BY <2>1, HeadTailProperties
  <2>3. due' \in Nat /\ (due' > due => connecting)
    BY <1>1 DEF RetryTest, RetryDue, ProvType, TypeOK
  <2> QED
    BY <1>1, <2>2, <2>3
    DEF RetryTest, ProvType, TypeOK, TurnHasEvent, Submitted, flags, radio, hist
<1>2. CASE RetryConnect
  <2>1. cfg \in Stored /\ Connect(cfg) /\ due' \in Nat /\ due > 0
    BY <1>2 DEF RetryConnect, ProvType, TypeOK, Submitted
  <2> QED
    BY <1>2, <2>1, ConnectTyped
    DEF RetryConnect, ProvType, TypeOK, TurnHasEvent, Submitted, flags, Events
<1> QED
  BY <1>1, <1>2 DEF Retry

\* The end of an attempt, a router that drops the station, the manager's timer.
LEMMA RadioTyped ==
    ASSUME ProvType, Attempt \/ Drop \/ Reconnect
    PROVE  ProvType'
<1>1. events \in Seq(Events) /\ sta \in Stations
  BY DEF ProvType, TypeOK, Events
<1>2. \A e \in Events : Append(events, e) \in Seq(Events) /\ Append(events, e) # <<>>
  BY <1>1, AppendProperties
<1>3. Idle \in Stations /\ \A c \in Stored : {Up(c), Down(c), Trying(c)} \subseteq Stations
  BY DEF Stations
<1>4. CASE Attempt
  <2>1. sta.with \in Stored
    BY <1>1, <1>4, StationHas DEF Attempt
  <2>2. /\ sta' \in Stations /\ got' \in Stored \cup {NoCred}
        /\ code' \in {"ok", "psk", "other"}
        /\ events' \in Seq(Events) /\ events' # <<>>
    BY <1>2, <1>3, <1>4, <2>1 DEF Attempt, ProvType, TypeOK, Events
  <2> QED
    BY <1>4, <2>2 DEF Attempt, ProvType, TypeOK, TurnHasEvent, Submitted, flags, tasks, Events
<1>5. CASE Drop
  <2>0. sta.with \in Stored
    BY <1>1, <1>5, StationHas DEF Drop
  <2>1. sta' \in Stations /\ code' = "other" /\ events' \in Seq(Events) /\ events' # <<>>
    BY <1>2, <1>3, <1>5, <2>0 DEF Drop, Events
  <2> QED
    BY <1>5, <2>1
    DEF Drop, ProvType, TypeOK, TurnHasEvent, Submitted, flags, tasks, hist, Events
<1>6. CASE Reconnect
  <2>1. sta' \in Stations
    BY <1>1, <1>3, <1>6, StationHas DEF Reconnect
  <2> QED
    BY <1>6, <2>1 DEF Reconnect, ProvType, TypeOK, TurnHasEvent, Submitted, flags, tasks, hist
<1> QED
  BY <1>4, <1>5, <1>6

-----------------------------------------------------------------------------
(* Connection attempts. *)

\* What the worker may still add: an attempt, and the retries it will allow.
Pending == CASE worker \in {"copy", "set", "clear", "renew"} -> RetryMax + 1
             [] worker \in {"scan", "connect"} -> 1
             [] worker = "idle" -> 0

\* Attempts made, about to be made and waiting to be made again, still allowed, and
\* to come.
Spent == connects + due + Len(retries) + left + Pending

Bounded == Spent <= sub * (RetryMax + 1)

ProvInv == ProvType /\ Bounded

\* What Spent adds up are numbers.
LEMMA SpentIsNumber ==
    ASSUME ProvType
    PROVE  /\ connects \in Nat /\ due \in Nat /\ Len(retries) \in Nat /\ left \in 0 .. RetryMax
           /\ Pending \in Nat /\ RetryMax \in Nat
BY RetryAssumption, LenProperties DEF ProvType, TypeOK, Pending

\* A sum of numbers is one.
LEMMA SumIsNumber ==
    ASSUME NEW a \in Nat, NEW b \in Nat, NEW c \in Nat, NEW d \in Nat, NEW e \in Nat
    PROVE  a + b + c + d + e \in Nat
OBVIOUS

\* A step that changes no count of submissions and does not raise Spent.
LEMMA NotRaised ==
    ASSUME ProvInv, sub' = sub, ProvType', Spent' <= Spent
    PROVE  ProvInv'
<1>1. Spent \in Nat /\ Spent' \in Nat /\ sub * (RetryMax + 1) \in Nat
  <2>1. ProvType
    BY DEF ProvInv
  <2>2. Spent \in Nat
    BY <2>1, SpentIsNumber DEF Spent
  <2>3. Spent' \in Nat
    <3>1. connects' \in Nat /\ due' \in Nat /\ left' \in Nat /\ retries' \in Seq(1 .. sub')
          /\ worker' \in {"idle", "copy", "set", "clear", "renew", "scan", "connect"}
      BY RetryAssumption DEF ProvType, TypeOK
    <3>2. Len(retries') \in Nat /\ Pending' \in Nat
      BY <3>1, LenProperties, RetryAssumption DEF Pending
    <3> DEFINE n == Len(retries')
               p == Pending'
    <3>3. Spent' = connects' + due' + n + left' + p
      BY DEF Spent
    <3>4. n \in Nat /\ p \in Nat
      BY <3>2
    <3> HIDE DEF n, p
    <3> QED
      BY <3>1, <3>3, <3>4, SumIsNumber
  <2>4. sub \in Nat /\ RetryMax + 1 \in Nat
    BY <2>1, RetryAssumption DEF ProvType, TypeOK
  <2> QED
    BY <2>2, <2>3, <2>4
<1>2. Spent <= sub * (RetryMax + 1)
  BY DEF ProvInv, Bounded
<1>3. Spent' <= sub * (RetryMax + 1)
  BY <1>1, <1>2
<1> QED
  BY <1>3 DEF ProvInv, Bounded

\* A submission brings one attempt and RetryMax retries.
LEMMA SubmitBounded ==
    ASSUME ProvInv, Submit
    PROVE  ProvInv'
<1>1. ProvType /\ ProvType'
  BY SubmitTyped DEF ProvInv
<1>2. worker = "idle" /\ worker' = "copy" /\ sub' = sub + 1
      /\ UNCHANGED <<connects, tasks, left>>
  BY DEF Submit, flags
<1>3. Spent' = Spent + (RetryMax + 1)
  BY <1>1, <1>2, SpentIsNumber DEF Spent, Pending, tasks
<1>4. sub \in Nat /\ RetryMax \in Nat /\ Spent \in Nat
  BY <1>1, SpentIsNumber DEF Spent, ProvType, TypeOK
<1>5. (sub + 1) * (RetryMax + 1) = sub * (RetryMax + 1) + (RetryMax + 1)
  BY <1>4
<1>6. Spent <= sub * (RetryMax + 1) /\ sub * (RetryMax + 1) \in Nat
  BY <1>4 DEF ProvInv, Bounded
<1> HIDE DEF Spent
<1>7. Spent' <= sub' * (RetryMax + 1)
  BY <1>2, <1>3, <1>4, <1>5, <1>6
<1> QED
  BY <1>1, <1>7 DEF ProvInv, Bounded

\* handle_save turns what is pending into what is left, and an attempt into one made.
LEMMA WorkerBounded ==
    ASSUME ProvInv, Worker
    PROVE  ProvInv'
<1>1. ProvType /\ ProvType'
  BY WorkerTyped DEF ProvInv
<1>2. /\ connects \in Nat /\ due \in Nat /\ Len(retries) \in Nat /\ left \in 0 .. RetryMax
      /\ RetryMax \in Nat
  BY <1>1, SpentIsNumber
<1>3. UNCHANGED <<tasks, sub>>
  BY DEF Worker, Copied, SetConnecting, ClearFail, RenewRetries, Scan, SaveConnect, hist
<1>4. Spent' <= Spent
  <2>1. CASE RenewRetries
    <3>1. worker = "renew" /\ worker' = "scan" /\ left' = RetryMax /\ UNCHANGED connects
      BY <2>1 DEF RenewRetries, hist
    <3> QED
      BY <1>2, <1>3, <3>1 DEF Spent, Pending, tasks
  <2>2. CASE Scan \/ SetConnecting \/ ClearFail \/ \E c \in Creds : Copied(c)
    <3>1. UNCHANGED <<connects, left, Pending>>
      BY <2>2 DEF Scan, SetConnecting, ClearFail, Copied, flags, hist, Pending
    <3> QED
      BY <1>1, <1>3, <3>1, SpentIsNumber DEF Spent, tasks
  <2>3. CASE SaveConnect
    <3>1. worker = "connect" /\ worker' = "idle" /\ connects' = connects + 1
          /\ UNCHANGED left
      BY <2>3 DEF SaveConnect, Connect, flags
    <3> QED
      BY <1>2, <1>3, <3>1 DEF Spent, Pending, tasks
  <2> QED
    BY <2>1, <2>2, <2>3 DEF Worker
<1> QED
  BY <1>1, <1>3, <1>4, NotRaised

\* The callback turns a retry that is left into one that waits.
LEMMA EventLoopBounded ==
    ASSUME ProvInv, EventLoop
    PROVE  ProvInv'
<1>1. ProvType /\ ProvType'
  BY EventLoopTyped DEF ProvInv
<1>2. /\ connects \in Nat /\ due \in Nat /\ Len(retries) \in Nat /\ left \in 0 .. RetryMax
      /\ Pending \in Nat
  BY <1>1, SpentIsNumber
<1>3. CASE TakeEvent \/ OnGotIp \/ Ignore \/ GiveUp
  <2>1. UNCHANGED <<connects, tasks, left, worker, sub>>
    BY <1>3 DEF TakeEvent, OnGotIp, Ignore, GiveUp, flags, hist
  <2>2. Spent' <= Spent
    <3>1. Pending' = Pending
      BY <2>1 DEF Pending
    <3> QED
      BY <1>2, <2>1, <3>1 DEF Spent, tasks
  <2> QED
    BY <1>1, <2>1, <2>2, NotRaised
<1>4. CASE Again
  <2>1. left' = left - 1 /\ retries' = Append(retries, sub) /\ connecting
        /\ UNCHANGED <<connects, due, worker, sub>>
    BY <1>4 DEF Again, hist
  <2>2. retries \in Seq(1 .. sub) /\ sub \in 1 .. sub
    BY <1>1, <2>1 DEF ProvType, TypeOK, Submitted
  <2>3. Len(retries') = Len(retries) + 1
    BY <2>1, <2>2, AppendProperties
  <2>4. Pending' = Pending
    BY <2>1 DEF Pending
  <2>5. Spent' <= Spent
    BY <1>2, <2>1, <2>3, <2>4 DEF Spent
  <2> QED
    BY <1>1, <2>1, <2>5, NotRaised
<1> QED
  BY <1>3, <1>4 DEF EventLoop

\* A retry task turns a waiting retry into at most one attempt.
LEMMA RetryBounded ==
    ASSUME ProvInv, Retry
    PROVE  ProvInv'
<1>1. ProvType /\ ProvType'
  BY RetryTyped DEF ProvInv
<1>2. /\ connects \in Nat /\ due \in Nat /\ Len(retries) \in Nat /\ left \in 0 .. RetryMax
      /\ Pending \in Nat
  BY <1>1, SpentIsNumber
<1>3. CASE RetryTest
  <2>1. Len(retries') = Len(retries) - 1
    <3>1. retries \in Seq(1 .. sub) /\ retries # <<>> /\ retries' = Tail(retries)
      BY <1>1, <1>3 DEF RetryTest, ProvType, TypeOK
    <3> QED
      BY <3>1, HeadTailProperties
  <2>2. due' <= due + 1 /\ due' \in Nat /\ UNCHANGED connects
    BY <1>2, <1>3 DEF RetryTest, hist
  <2>3. UNCHANGED <<left, worker, sub>> /\ Pending' = Pending
    BY <1>3 DEF RetryTest, flags, hist, Pending
  <2>4. Spent' <= Spent
    BY <1>2, <2>1, <2>2, <2>3 DEF Spent
  <2> QED
    BY <1>1, <2>3, <2>4, NotRaised
<1>4. CASE RetryConnect
  <2>1. due' = due - 1 /\ connects' = connects + 1
    BY <1>4 DEF RetryConnect, Connect
  <2>2. UNCHANGED <<retries, left, worker, sub>> /\ Pending' = Pending
    BY <1>4 DEF RetryConnect, flags, Pending
  <2>3. Spent' <= Spent
    BY <1>2, <2>1, <2>2 DEF Spent
  <2> QED
    BY <1>1, <2>2, <2>3, NotRaised
<1> QED
  BY <1>3, <1>4 DEF Retry

\* The station itself makes no call.
LEMMA RadioBounded ==
    ASSUME ProvInv, Attempt \/ Drop \/ Reconnect
    PROVE  ProvInv'
<1>1. ProvType /\ ProvType'
  BY RadioTyped DEF ProvInv
<1>2. UNCHANGED <<connects, tasks, left, worker, sub>>
  BY DEF Attempt, Drop, Reconnect, flags, hist
<1>3. Spent' <= Spent
  <2>1. Pending' = Pending
    BY <1>2 DEF Pending
  <2> QED
    BY <1>1, <1>2, <2>1, SpentIsNumber DEF Spent, tasks
<1> QED
  BY <1>1, <1>2, <1>3, NotRaised

-----------------------------------------------------------------------------
(* The theorems. *)

\* A clock that enters provisioning has made no attempt.
THEOREM ProvInit == Init => ProvInv
<1> SUFFICES ASSUME Init PROVE ProvInv
  OBVIOUS
<1>1. ProvType
  <2>1. <<>> \in Seq(1 .. sub) /\ <<>> \in Seq({"GOT_IP", "DISCONNECT"})
    BY EmptySeq
  <2>2. /\ left \in 0 .. RetryMax /\ sub \in 0 .. MaxSubmits /\ connects \in Nat
        /\ turn \in 0 .. handlers /\ handlers \in HandlerCounts /\ due \in Nat
    BY RetryAssumption, HandlersAssumption DEF Init
  <2>3. connecting = FALSE /\ configured = FALSE /\ fail = FALSE /\ overlap = FALSE
        /\ cut = FALSE
    BY DEF Init
  <2>4. retries \in Seq(1 .. sub) /\ events \in Seq({"GOT_IP", "DISCONNECT"})
    BY <2>1 DEF Init
  <2>5. cfg = NoCred /\ got = NoCred /\ sta \in Stations
    BY DEF Init, Stations
  <2>6. TypeOK
    BY <2>2, <2>3, <2>4, <2>5 DEF Init, TypeOK
  <2> QED
    BY <2>6 DEF Init, ProvType, TurnHasEvent, Submitted
<1>2. Spent = 0
  BY EmptySeq DEF Init, Spent, Pending
<1>3. sub * (RetryMax + 1) = 0
  BY RetryAssumption DEF Init
<1> QED
  BY <1>1, <1>2, <1>3 DEF ProvInv, Bounded

\* Every step of the worker, the event loop, the retries and the station keeps
\* the types and the bound on attempts.
THEOREM ProvNext == ProvInv /\ [Next]_vars => ProvInv'
<1> SUFFICES ASSUME ProvInv, [Next]_vars PROVE ProvInv'
  OBVIOUS
<1>1. CASE Submit
  BY <1>1, SubmitBounded
<1>2. CASE UNCHANGED vars
  BY <1>2 DEF vars, flags, tasks, radio, hist, ProvInv, ProvType, TypeOK, TurnHasEvent,
              Submitted, Bounded, Spent, Pending
<1> QED
  BY <1>1, <1>2, WorkerBounded, EventLoopBounded, RetryBounded, RadioBounded DEF Next

\* The variables keep their types.
THEOREM TypeCorrect == Spec => []TypeOK
<1>1. ProvInv => TypeOK
  BY DEF ProvInv, ProvType
<1> QED
  BY <1>1, ProvInit, ProvNext, PTL DEF Spec

\* However submissions, events and retries fall, and with the callback
\* registered once or twice, a submission causes at most 1 + RetryMax connection
\* attempts (provision.c:196-198).
THEOREM NoStormAlways == Spec => []NoStorm
<1>1. ProvInv => NoStorm
  <2> SUFFICES ASSUME ProvInv PROVE NoStorm
    OBVIOUS
  <2>1. connects \in Nat /\ due \in Nat /\ Len(retries) \in Nat /\ left \in Nat /\ Pending \in Nat
        /\ connects + due + Len(retries) + left + Pending <= sub * (RetryMax + 1)
    BY SpentIsNumber DEF ProvInv, Bounded, Spent
  <2>2. sub * (RetryMax + 1) \in Nat
    BY RetryAssumption DEF ProvInv, ProvType, TypeOK
  <2> QED
    BY <2>1, <2>2 DEF NoStorm
<1> QED
  BY <1>1, ProvInit, ProvNext, PTL DEF Spec
-----------------------------------------------------------------------------
(* Verdicts, with one registration and a user who waits for them: there is   *)
(* only ever one thing under way, and six places where it can be.            *)

Alone == sta = Idle /\ events = <<>> /\ retries = <<>> /\ due = 0 /\ turn = 0
Waiting == worker = "idle" /\ connecting /\ ~configured /\ ~fail

Quiet == worker \in {"idle", "copy", "set"} /\ ~connecting /\ ~configured /\ Alone
Starting == /\ worker \in {"clear", "renew", "scan", "connect"}
            /\ connecting /\ ~configured /\ (worker # "clear" => ~fail) /\ Alone
Attempting == /\ Waiting /\ sta = Trying(cfg)
              /\ events = <<>> /\ retries = <<>> /\ due = 0 /\ turn = 0
Failed == /\ Waiting /\ sta \in {Down(cfg), Idle} /\ retries = <<>> /\ due = 0
          /\ events # <<>> /\ Head(events) = "DISCONNECT" /\ Tail(events) = <<>>
Delayed == /\ Waiting /\ sta = Idle /\ events = <<>> /\ turn = 0
           /\ \/ retries # <<>> /\ Tail(retries) = <<>> /\ due = 0
              \/ retries = <<>> /\ due = 1
\* The router may drop the station before the callback has seen the address.
Connected == /\ worker = "idle" /\ (connecting \/ configured) /\ ~fail /\ sub > 0
             /\ sta.st # "trying" /\ retries = <<>> /\ due = 0
             /\ events # <<>> /\ Head(events) = "GOT_IP"
             /\ got = cfg

Situation == Quiet \/ Starting \/ Attempting \/ Failed \/ Delayed \/ Connected

OneAtATime == handlers = 1 /\ ~overlap => Situation

VerdictInv == ProvType /\ OneAtATime

\* A sequence of one element, and an element appended to a sequence.
LEMMA Appended ==
    ASSUME NEW S, NEW s \in Seq(S), NEW e \in S
    PROVE  /\ Append(s, e) # <<>>
           /\ s = <<>> => Head(Append(s, e)) = e /\ Tail(Append(s, e)) = <<>>
           /\ s # <<>> => Head(Append(s, e)) = Head(s)
OBVIOUS

\* Where the next thing goes when a connect request finds the station idle.
LEMMA ConnectAlone ==
    ASSUME sta = Idle, NEW c, Connect(c)
    PROVE  sta' = Trying(c) /\ UNCHANGED <<events, code>>
BY DEF Connect, Idle

\* A submission.
LEMMA SubmitSituation ==
    ASSUME VerdictInv, Submit
    PROVE  OneAtATime'
<1> SUFFICES ASSUME handlers = 1, ~overlap' PROVE Situation'
  BY DEF OneAtATime, Submit
<1>1. ~overlap /\ ~(sub > 0 /\ ~fail) /\ worker = "idle" /\ (connecting => sub > 0)
  BY DEF Submit, VerdictInv, ProvType, TypeOK, Submitted
<1>2. Quiet
  BY <1>1 DEF VerdictInv, OneAtATime, Situation, Starting, Attempting, Failed, Delayed,
              Connected, Waiting
<1>3. Quiet'
  BY <1>2 DEF Submit, Quiet, Alone, flags, tasks, radio
<1> QED
  BY <1>3 DEF Situation

\* The steps of handle_save.
LEMMA WorkerSituation ==
    ASSUME VerdictInv, Worker
    PROVE  OneAtATime'
<1> USE DEF Worker, Copied, SetConnecting, ClearFail, RenewRetries, Scan, SaveConnect
<1> SUFFICES ASSUME handlers = 1, ~overlap PROVE Situation'
  BY DEF OneAtATime, hist
<1>1. worker # "idle" /\ Situation
  BY DEF VerdictInv, OneAtATime
<1>2. Quiet \/ Starting
  BY <1>1 DEF Situation, Attempting, Failed, Delayed, Connected, Waiting
<1>3. CASE \E c \in Creds : Copied(c)
  <2>1. Quiet'
    BY <1>2, <1>3 DEF Quiet, Starting, Alone, flags, tasks, radio
  <2> QED
    BY <2>1 DEF Situation
<1>4. CASE SetConnecting
  <2>1. Starting'
    BY <1>2, <1>4 DEF Quiet, Starting, Alone, tasks, radio
  <2> QED
    BY <2>1 DEF Situation
<1>5. CASE ClearFail \/ RenewRetries \/ Scan
  <2>1. Starting
    BY <1>2, <1>5 DEF Quiet
  <2>2. Alone'
    BY <1>5, <2>1 DEF Starting, Alone, tasks, radio
  <2>3. ASSUME ClearFail PROVE Starting'
    BY <2>1, <2>2, <2>3 DEF Starting
  <2>4. ASSUME RenewRetries PROVE Starting'
    BY <2>1, <2>2, <2>4 DEF Starting
  <2>5. ASSUME Scan PROVE Starting'
    BY <2>1, <2>2, <2>5 DEF Starting, flags
  <2>6. Starting'
    BY <1>5, <2>3, <2>4, <2>5
  <2> QED
    BY <2>6 DEF Situation
<1>6. CASE SaveConnect
  <2>1. Starting
    BY <1>2, <1>6 DEF Quiet
  <2>2. sta' = Trying(cfg) /\ UNCHANGED events
    BY <1>6, <2>1, ConnectAlone DEF Starting, Alone
  <2>3. Attempting'
    BY <1>6, <2>1, <2>2 DEF Starting, Alone, Attempting, Waiting, flags, tasks, Trying
  <2> QED
    BY <2>3 DEF Situation
<1> QED
  BY <1>3, <1>4, <1>5, <1>6

\* The steps of prov_wifi_cb.
LEMMA EventLoopSituation ==
    ASSUME VerdictInv, EventLoop
    PROVE  OneAtATime'
<1> SUFFICES ASSUME handlers = 1, ~overlap PROVE Situation'
  BY DEF OneAtATime, EventLoop, TakeEvent, OnGotIp, Ignore, GiveUp, Again, hist
<1>1. Situation /\ turn \in 0 .. 1
  BY DEF VerdictInv, OneAtATime, ProvType, TypeOK
<1>2. CASE TakeEvent
  <2>1. Failed \/ Connected
    BY <1>1, <1>2 DEF TakeEvent, Situation, Quiet, Starting, Attempting, Delayed, Alone
  <2>2. Failed' \/ Connected'
    BY <1>2, <2>1 DEF TakeEvent, Failed, Connected, Waiting, flags, tasks, radio, hist, Down
  <2> QED
    BY <2>2 DEF Situation
<1>3. CASE OnGotIp
  <2>1. Connected
    BY <1>1, <1>3 DEF OnGotIp, Situation, Quiet, Starting, Attempting, Failed, Delayed, Alone
  <2>2. Connected'
    BY <1>3, <2>1 DEF OnGotIp, Connected, tasks, radio, hist
  <2> QED
    BY <2>2 DEF Situation
<1>4. CASE Ignore
  BY <1>1, <1>4 DEF Ignore, Situation, Quiet, Starting, Attempting, Failed, Delayed,
                    Connected, Alone, Waiting
<1>5. CASE GiveUp \/ Again
  <2>1. Failed
    BY <1>1, <1>5
    DEF GiveUp, Again, Situation, Quiet, Starting, Attempting, Delayed, Connected, Alone
  <2>2. turn' = 0 /\ events' = <<>> /\ sta' = Idle
    <3>0. EventSeen /\ turn > 0 /\ Tail(events) = <<>>
      BY <1>5, <2>1 DEF GiveUp, Again, Failed
    <3>1. turn' = 0 /\ events' = <<>>
      BY <1>1, <3>0 DEF EventSeen
    <3>2. sta' = Idle
      BY <1>5, <2>1 DEF GiveUp, Again, StayDown, Failed, Down, Idle
    <3> QED
      BY <3>1, <3>2
  <2>3. CASE GiveUp
    <3>1. Quiet'
      BY <2>1, <2>2, <2>3 DEF GiveUp, Failed, Waiting, Quiet, Alone, tasks
    <3> QED
      BY <3>1 DEF Situation
  <2>4. CASE Again
    <3>1. retries \in Seq(1 .. sub) /\ sub \in 1 .. sub
      BY <2>1 DEF VerdictInv, ProvType, TypeOK, Submitted, Failed, Waiting
    <3>2. retries' # <<>> /\ Tail(retries') = <<>>
      BY <2>1, <2>4, <3>1, Appended DEF Again, Failed
    <3>3. Delayed'
      BY <2>1, <2>2, <2>4, <3>2 DEF Again, Failed, Delayed, Waiting
    <3> QED
      BY <3>3 DEF Situation
  <2> QED
    BY <1>5, <2>3, <2>4
<1> QED
  BY <1>2, <1>3, <1>4, <1>5 DEF EventLoop

\* A retry task: it finds what it was made for still wanted.
LEMMA RetrySituation ==
    ASSUME VerdictInv, Retry
    PROVE  OneAtATime'
<1> SUFFICES ASSUME handlers = 1, ~overlap PROVE Situation'
  BY DEF OneAtATime, Retry, RetryTest, RetryConnect, hist
<1>1. Delayed
  BY DEF Retry, RetryTest, RetryConnect, VerdictInv, OneAtATime, Situation, Quiet, Starting,
         Attempting, Failed, Connected, Alone
<1>2. CASE RetryTest
  <2>1. Delayed'
    BY <1>1, <1>2 DEF RetryTest, RetryDue, Delayed, Waiting, flags, radio
  <2> QED
    BY <2>1 DEF Situation
<1>3. CASE RetryConnect
  <2>1. sta' = Trying(cfg) /\ UNCHANGED events
    BY <1>1, <1>3, ConnectAlone DEF RetryConnect, Delayed
  <2>2. Attempting'
    BY <1>1, <1>3, <2>1 DEF RetryConnect, Delayed, Attempting, Waiting, flags, Trying
  <2> QED
    BY <2>2 DEF Situation
<1> QED
  BY <1>2, <1>3 DEF Retry

\* The end of an attempt, and a router that drops the station; the manager's timer
\* never ends.
LEMMA RadioSituation ==
    ASSUME VerdictInv, Attempt \/ Drop \/ Reconnect
    PROVE  OneAtATime'
<1> SUFFICES ASSUME handlers = 1, ~overlap PROVE Situation'
  BY DEF OneAtATime, Attempt, Drop, Reconnect, hist
<1>1. Situation /\ events \in Seq(Events)
  BY DEF VerdictInv, OneAtATime, ProvType, TypeOK, Events
<1>2. /\ Idle.st = "idle"
      /\ \A c : /\ Up(c).st = "up" /\ Down(c).st = "down"
                /\ Trying(c).st = "trying" /\ Trying(c).with = c
  BY DEF Idle, Up, Down, Trying
<1>3. CASE Attempt
  <2>1. Attempting
    BY <1>1, <1>2, <1>3
    DEF Attempt, Situation, Quiet, Starting, Failed, Delayed, Connected, Alone
  <2>2. CASE events' = Append(events, "GOT_IP") /\ sta' = Up(sta.with) /\ got' = sta.with
    <3>1. events' # <<>> /\ Head(events') = "GOT_IP"
      BY <1>1, <2>1, <2>2, Appended DEF Attempting, Events
    <3>2. Connected'
      BY <1>2, <1>3, <2>1, <2>2, <3>1 DEF Attempt, Attempting, Waiting, Connected, Submitted, VerdictInv,
                                             ProvType, flags, tasks
    <3> QED
      BY <3>2 DEF Situation
  <2>3. CASE events' = Append(events, "DISCONNECT") /\ sta' \in {Down(sta.with), Idle}
    <3>1. events' # <<>> /\ Head(events') = "DISCONNECT" /\ Tail(events') = <<>>
      BY <1>1, <2>1, <2>3, Appended DEF Attempting, Events
    <3>2. Failed'
      BY <1>2, <1>3, <2>1, <2>3, <3>1 DEF Attempt, Attempting, Waiting, Failed, flags, tasks
    <3> QED
      BY <3>2 DEF Situation
  <2> QED
    BY <1>3, <2>2, <2>3 DEF Attempt
<1>4. CASE Drop
  <2>1. Connected
    BY <1>1, <1>2, <1>4
    DEF Drop, Situation, Quiet, Starting, Attempting, Failed, Delayed, Alone
  <2>2. events' # <<>> /\ Head(events') = "GOT_IP"
    BY <1>1, <1>4, <2>1, Appended DEF Drop, Connected, Events
  <2>3. Connected'
    BY <1>2, <1>4, <2>1, <2>2 DEF Drop, Connected, flags, tasks, hist
  <2> QED
    BY <2>3 DEF Situation
<1>5. ~Reconnect
  BY <1>1, <1>2 DEF Reconnect, Situation, Quiet, Starting, Attempting, Failed, Delayed,
                    Connected, Alone
<1> QED
  BY <1>3, <1>4, <1>5

\* At first there is nothing under way, and from then one thing at most.
THEOREM VerdictStep ==
    /\ Init => VerdictInv
    /\ ProvInv /\ VerdictInv /\ [Next]_vars => VerdictInv'
<1>1. Init => VerdictInv
  BY ProvInit DEF ProvInv, Init, VerdictInv, OneAtATime, Situation, Quiet, Alone
<1>2. ASSUME ProvInv, VerdictInv, [Next]_vars PROVE VerdictInv'
  <2>1. ProvType'
    BY <1>2, ProvNext DEF ProvInv
  <2>2. OneAtATime'
    <3>1. CASE Submit
      BY <1>2, <3>1, SubmitSituation
    <3>2. CASE UNCHANGED vars
      BY <1>2, <3>2
      DEF vars, flags, tasks, radio, hist, VerdictInv, OneAtATime, Situation, Quiet,
          Starting, Attempting, Failed, Delayed, Connected, Alone, Waiting, Trying, Idle, Down
    <3> QED
      BY <1>2, <3>1, <3>2, WorkerSituation, EventLoopSituation, RetrySituation,
         RadioSituation DEF Next
  <2> QED
    BY <2>1, <2>2 DEF VerdictInv
<1> QED
  BY <1>1, <1>2

\* With one registration of the callback and a user who waits, "fail" means that
\* nothing is tried any more and "ok" that what is stored is what connected, for
\* any passwords and retries (provision.c:12-18, 196-198).
THEOREM VerdictTrueAlways == Spec => []VerdictTrue
<1>1. VerdictInv => VerdictTrue
  BY DEF VerdictInv, OneAtATime, Situation, Quiet, Starting, Attempting, Failed, Delayed,
         Connected, Alone, Waiting, VerdictTrue, Status, Idle
<1>2. Init => ProvInv /\ VerdictInv
  BY ProvInit, VerdictStep
<1>3. ProvInv /\ VerdictInv /\ [Next]_vars => (ProvInv /\ VerdictInv)'
  BY ProvNext, VerdictStep
<1> QED
  BY <1>1, <1>2, <1>3, PTL DEF Spec
=============================================================================
