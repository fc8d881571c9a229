------------------------------ MODULE KeepProofs ------------------------------
(***************************************************************************)
(* What is proved of the settings and their store, for any number of       *)
(* sectors, records to a sector, keys, values and tasks: types, for any    *)
(* number of resets; and that the store keeps what KeyStore promises, with *)
(* at most one reset, as long as it does not run out of room.              *)
(***************************************************************************)
EXTENDS Settings, StoreProofs

-----------------------------------------------------------------------------
(* The callers of the store. *)

\* The tasks and what they ask of the store.
CallersInv ==
    /\ StoreInv
    /\ g \in [Keys -> Vals]
    /\ at \in [Tasks -> 0 .. Len(Order)]
    /\ snap \in [Tasks -> [Numbers -> Vals]]
    /\ holder \in Tasks \cup {None}
    /\ holder # None <=> req # NoReq
    /\ holder # None => at[holder] # 0
    /\ copying \subseteq Tasks /\ stale \subseteq Tasks
    /\ up \in BOOLEAN
    /\ damaged \subseteq Keys /\ torn \subseteq Keys /\ crossed \subseteq Keys

\* What cfg_save names is a key.
LEMMA OrderIn ==
    /\ Len(Order) \in Nat /\ Len(Order) > 0
    /\ \A i \in 1 .. Len(Order) : Order[i] \in Keys
BY SettingsAssumption, LenProperties, ElementOfSeq

\* What it has for the key is a value.
LEMMA ValueIn ==
    ASSUME CallersInv, NEW t \in Tasks, NEW k \in Keys
    PROVE  Values(t, k) \subseteq Vals
BY DEF CallersInv, Values, Numbers

\* What is yet to be set is a key.
LEMMA PendingIn ==
    ASSUME CallersInv, NEW t \in Tasks
    PROVE  Pending(t) \subseteq ToSet(t) /\ ToSet(t) \subseteq Keys
<1>1. at[t] \in 0 .. Len(Order)
  BY DEF CallersInv
<1>2. ASSUME at[t] # 0, NEW i \in (IF holder = t THEN at[t] + 1 ELSE at[t]) .. Len(Order)
      PROVE  i \in 1 .. Len(Order)
  BY <1>1, <1>2, OrderIn
<1> QED
  BY <1>1, <1>2, OrderIn DEF Pending, ToSet

\* The store gives back the lock when it is done with a request, not before.
LEMMA StepKeepsReq ==
    ASSUME StoreStep
    PROVE  UNCHANGED req \/ pc' = "idle"
BY DEF StoreStep, SetAlloc, PreDelete, DirtyMark, SectorStatus, PreWrite, WriteHead,
    WriteBody, WriteStatus, Delete, After, GcStart, GcFlagNext, GcSector, GcNode, MoveAlloc,
    EraseSector, FormatSector, LoadHeaders, LoadGc, LoadScan, LoadEnd, GcReturn, Unlock

\* Initially no task saves.
LEMMA CallersInit ==
    ASSUME Init
    PROVE  CallersInv
<1>1. StoreInv
  BY StoreInitInv DEF Init
<1>2. Default \in Vals
  BY SettingsAssumption
<1>3. 0 \in 0 .. Len(Order)
  BY OrderIn
<1> QED
  BY <1>1, <1>2, <1>3 DEF Init, StoreInit, CallersInv, NoSnap, NoReq

\* A string changes.
LEMMA ChangeInv ==
    ASSUME CallersInv, NEW t \in Tasks, NEW S \in SUBSET Keys, Change(t, S)
    PROVE  /\ StoreInv' /\ (req' # NoReq <=> req # NoReq)
           /\ stale' \subseteq Tasks /\ torn' \subseteq Keys
<1>1. stale' \subseteq Tasks
  BY DEF Change, CallersInv
<1>2. CASE req.key \in S /\ ValueDue
  <2>1. ValueChanges /\ torn' = torn \cup {req.key}
    BY <1>2 DEF Change
  <2>2. req.key # None /\ req.key \in Keys
    BY <1>2, StoreAssumption
  <2>3. req'.key = req.key
    BY <2>1 DEF ValueChanges, CallersInv, StoreInv, RamType
  <2> QED
    BY <1>1, <2>1, <2>2, <2>3, ValueChangesInv DEF CallersInv, NoReq
<1>3. CASE ~(req.key \in S /\ ValueDue)
  <2>1. UNCHANGED <<storeVars, torn>>
    BY <1>3 DEF Change
  <2>2. StoreInv'
    BY <2>1 DEF CallersInv, storeVars, flash, ram, StoreInv, FlashType, RamType, InUse, Control,
       AtHand, Target, Collected, Used, At, Dst, Setting
  <2> QED
    BY <1>1, <2>1, <2>2 DEF CallersInv, storeVars
<1> QED
  BY <1>2, <1>3

\* A handler begins to copy.
LEMMA CallersCopy ==
    ASSUME CallersInv, NEW t \in Tasks, Copy(t)
    PROVE  CallersInv'
<1>1. Changes(t) \cap Strings \in SUBSET Keys
  BY SettingsAssumption
<1>2. PICK S \in SUBSET Keys : S = Changes(t) \cap Strings
  BY <1>1
<1>3. Change(t, S)
  BY <1>2 DEF Copy
<1> QED
  BY <1>3, ChangeInv DEF Copy, CallersInv

\* A task enters cfg_save.
LEMMA CallersSave ==
    ASSUME CallersInv, NEW t \in Tasks, Save(t)
    PROVE  CallersInv'
<1>1. /\ g' \in [Keys -> Vals] /\ snap' = [snap EXCEPT ![t] = [k \in Numbers |-> g'[k]]]
      /\ at' = [at EXCEPT ![t] = 1]
      /\ crossed' = (crossed \ Changes(t))
                    \cup (Changes(t) \cap UNION {Pending(u) : u \in Tasks \ {t}})
      /\ Change(t, Changes(t) \cap Strings) /\ copying' = copying \ {t}
      /\ UNCHANGED <<holder, up, damaged, resets>>
  BY DEF Save
<1>2. crossed' \subseteq Keys
  <2>1. \A u \in Tasks : Pending(u) \subseteq Keys
    BY PendingIn
  <2> QED
    BY <1>1, <2>1 DEF CallersInv
<1>3. at' \in [Tasks -> 0 .. Len(Order)] /\ \A u \in Tasks : at[u] # 0 => at'[u] # 0
  BY <1>1, OrderIn DEF CallersInv
<1>4. snap' \in [Tasks -> [Numbers -> Vals]]
  BY <1>1 DEF CallersInv, Numbers
<1>5. PICK S \in SUBSET Keys : S = Changes(t) \cap Strings
  BY SettingsAssumption
<1>6. /\ StoreInv' /\ (req' # NoReq <=> req # NoReq)
      /\ stale' \subseteq Tasks /\ torn' \subseteq Keys
  BY <1>1, <1>5, ChangeInv
<1> QED
  BY <1>1, <1>2, <1>3, <1>4, <1>6 DEF CallersInv

\* It calls ef_set_env_blob.
LEMMA CallersSetKey ==
    ASSUME CallersInv, NEW t \in Tasks, SetKey(t)
    PROVE  CallersInv'
<1>1. at[t] \in 1 .. Len(Order)
  BY OrderIn DEF SetKey, CallersInv
<1>2. PICK k \in Keys : k = Order[at[t]]
  BY <1>1, OrderIn
<1>3. PICK v \in Values(t, k) : SetReq(k, v)
  BY <1>2 DEF SetKey
<1>4. SetReq(k, v) /\ v \in Vals
  BY <1>3, ValueIn
<1>5. StoreInv'
  BY <1>4, SetReqInv DEF CallersInv
<1>6. req' # NoReq
  BY <1>4, StoreAssumption DEF SetReq, NoReq
<1> QED
  BY <1>5, <1>6, SettingsAssumption DEF CallersInv, SetKey

\* The store works, and perhaps returns to its caller.
LEMMA CallersStore ==
    ASSUME CallersInv, Store
    PROVE  CallersInv'
<1>1. StoreInv'
  BY StoreStepInv DEF CallersInv, Store
<1>2. pc' = "idle" => req' = NoReq
  BY <1>1 DEF StoreInv, Control, Resting
<1>3. CASE pc' = "idle" /\ holder # None
  <2>1. holder \in Tasks /\ at[holder] \in 1 .. Len(Order)
    BY <1>3, OrderIn DEF CallersInv
  <2>2. NoSnap \in [Numbers -> Vals]
    BY SettingsAssumption DEF NoSnap
  <2>3. snap' \in [Tasks -> [Numbers -> Vals]]
    BY <1>3, <2>1, <2>2 DEF Store, CallersInv
  <2>4. at' \in [Tasks -> 0 .. Len(Order)]
    BY <1>3, <2>1, OrderIn DEF Store, CallersInv
  <2> QED
    BY <1>1, <1>2, <1>3, <2>3, <2>4 DEF Store, CallersInv
<1>4. CASE ~(pc' = "idle" /\ holder # None)
  <2>1. UNCHANGED <<at, snap, copying, stale, holder, g, up, damaged, torn, crossed>>
    BY <1>4 DEF Store
  <2>2. UNCHANGED req \/ pc' = "idle"
    BY StepKeepsReq DEF Store
  <2> QED
    BY <1>1, <1>2, <1>4, <2>1, <2>2 DEF CallersInv
<1> QED
  BY <1>3, <1>4

\* cfg_load
LEMMA CallersLoad ==
    ASSUME CallersInv, Load
    PROVE  CallersInv'
<1>1. StoreInv'
  BY DEF Load, CallersInv, storeVars, flash, ram, StoreInv, FlashType, RamType, InUse, Control,
     AtHand, Target, Collected, Used, At, Dst, Setting
<1> QED
  BY <1>1 DEF Load, CallersInv, storeVars

\* A reset.
LEMMA CallersReset ==
    ASSUME CallersInv, Reset
    PROVE  CallersInv'
<1>1. StoreInv' /\ req' = NoReq
  BY StoreResetInv DEF Reset, CallersInv, StoreReset
<1>2. Default \in Vals /\ 0 \in 0 .. Len(Order)
  BY SettingsAssumption, OrderIn
<1>3. Endangered \subseteq Keys
  BY DEF Endangered
<1> QED
  BY <1>1, <1>2, <1>3 DEF Reset, CallersInv, NoSnap

\* Every step keeps the invariant.
LEMMA CallersStep ==
    ASSUME CallersInv, [Next]_vars
    PROVE  CallersInv'
<1>1. CASE UNCHANGED vars
  BY <1>1 DEF vars, callers, storeVars, flash, ram, CallersInv, StoreInv, FlashType, RamType, InUse,
     Control, AtHand, Target, Collected, Used, At, Dst, Setting
<1> QED
  BY <1>1, CallersCopy, CallersSave, CallersSetKey, CallersStore, CallersLoad, CallersReset DEF Next

\* In every state the settings are well typed, and a task holds the lock of the
\* store exactly while a request of its is under way.
THEOREM TypeCorrect == Spec => []TypeOK
<1>1. Init => CallersInv
  BY CallersInit
<1>2. CallersInv /\ [Next]_vars => CallersInv'
  BY CallersStep
<1>3. CallersInv => TypeOK
  BY DEF CallersInv, StoreInv, FlashType, RamType, Headers, TypeOK
<1> QED
  BY <1>1, <1>2, <1>3, PTL DEF Spec

-----------------------------------------------------------------------------
(* What the steps keep of a key. *)

\* A key's records that count, and those that were to be deleted.
Live(k) == {a \in Used : At(a).key = k /\ At(a).st = "write" /\ At(a).data = "all"}
Old(k) == {a \in Used : At(a).key = k /\ At(a).st = "predelete" /\ At(a).data = "all"}

\* Those among the latter that a reset left, but for the one at hand.
Rest(k) == Old(k) \ {mv.src}

\* The record that is being written has not got its status yet.
Making == {"premark", "malloc", "secst", "prewrite", "head", "body"}
Unfinish(a) == pc \in {"head", "body", "write"} /\ a = Dst

\* What the body of the record at hand amounts to.
Content == IF mv.crc THEN "all" ELSE "part"

\* What earlier steps left behind: the new record while the old one goes, the
\* old one after that, the start of the next scan; a scan deletes nothing before
\* it has written.
Traces ==
    /\ pc \in {"del", "postmark", "after"} /\ Setting =>
           /\ mv.dst \in Sectors /\ Dst \in Used /\ Dst # mv.src
           /\ At(Dst) = [st |-> "write", key |-> mv.key, val |-> mv.val, data |-> Content]
    /\ pc \in {"postmark", "after"} /\ mv.src # None => At(mv.src).st = "deleted"
    /\ gc.ret = "rscan" => pos = Start
    /\ pc \in {"predel", "premark"} /\ gc.ret = "none" => ~recov

\* A record that counts, or did, is complete.
Whole(k) == \A a \in Used :
    At(a).key = k /\ At(a).st \in {"write", "predelete"} => At(a).data = "all"

\* One record counts, and a reset left at most one that was to be deleted,
\* which the recovery deals with.
One(k) ==
    /\ \A a, b \in Live(k) : a = b
    /\ \A a, b \in Rest(k) : a = b
    /\ ~recov /\ pc # "down" => Rest(k) = {}
    /\ gc.ret = "none" /\ mv.src \in Old(k) => Rest(k) = {}

\* The cache knows the record that counts, or the one being replaced.
Cached(k) ==
    \/ mv.key = k /\ pc = "write" /\ cache[k] = Dst
    \/ ~(mv.key = k /\ pc = "write") /\ cache[k] \in {None} \cup Live(k)
    \/ /\ mv.key = k /\ pc \in Making /\ Live(k) = {} /\ cache[k] = mv.src
       /\ gc.ret # "none" \/ ~recov

\* Where the records of the key at hand stand.
Replaced(k) == mv.key = k =>
    /\ pc = "predel" => mv.src \in Live(k)
    /\ pc \in {"premark"} \cup Writes => Live(k) = {} /\ (mv.src # None => mv.src \in Old(k))
    /\ pc = "malloc" => mv.src \in Old(k) /\ (~recov => Live(k) = {})
    /\ pc = "del" => mv.src \in Old(k)
    /\ pc \in {"del", "postmark", "after"} => Live(k) # {}

\* From the write of its status on, a set has taken effect.
Answered(k) ==
    req.key = k /\ ((pc \in {"del", "postmark", "after"} /\ Setting) \/ gc.ret = "idle") =>
        Stored(k) = req.val

\* What a collection or a scan has passed holds nothing of the key.
Ahead(k) ==
    /\ gc.ret # "none" /\ pc \in Moving \cup {"gcnode"} =>
           \A a \in Live(k) \cup Old(k) : a[1] = gc.at => a[2] > gc.slot \/ a = mv.src
    /\ pc = "erase" => \A a \in Live(k) \cup Old(k) : a[1] # gc.at
    /\ recov /\ gc.ret = "none" /\ pc \in Moving \cup {"rscan"} =>
           \A b \in Rest(k) : Before(pos, b)
    /\ pc = "rstop" => gcReq \/ Old(k) = {}

\* No unfinished record ends the scan before a record that the key may need.
Open(k) == recov \/ pc = "down" =>
    \A a \in Used, b \in (IF gc.ret = "none" THEN Old(k) ELSE Rest(k)) :
        At(a).st = "prewrite" /\ At(a).data # "none" /\ Before(a, b) => Unfinish(a)

KeyInv(k) == Whole(k) /\ One(k) /\ Cached(k) /\ Replaced(k) /\ Answered(k) /\ Ahead(k) /\ Open(k)

\* There has been no second reset.
FirstReset == MaxResets - resets <= 1

\* Until the first one nothing is damaged, and no recovery runs.
Clean ==
    /\ resets \in 0 .. MaxResets
    /\ resets = MaxResets => damaged = {} /\ ~recov /\ pc # "down"

\* A record whose checksum will be wrong is that of a torn string.
Checked == ~mv.crc => mv.key \in torn

\* The keys of which nothing is promised.
Spoilt == damaged \cup torn

KeepInv == CallersInv /\ Traces /\ Clean /\ Checked /\ \A k \in Keys \ Spoilt : KeyInv(k)

-----------------------------------------------------------------------------
(* The value that the flash holds for a key. *)

\* Kept collects the records at the addresses of Live and Old.
LEMMA KeptIs ==
    ASSUME FlashType, NEW k \in Keys
    PROVE  /\ Kept(k, "write") = {At(a) : a \in Live(k)}
           /\ Kept(k, "predelete") = {At(a) : a \in Old(k)}
<1>1. ASSUME NEW r, NEW s \in Sectors, r \in Range(node[s])
      PROVE  \E a \in Used : r = At(a)
  <2>1. PICK i \in DOMAIN node[s] : r = node[s][i]
    BY <1>1 DEF Range
  <2>2. node[s] \in Seq(Records) /\ Len(node[s]) <= Cap
    BY DEF FlashType
  <2>3. i \in 1 .. Len(node[s]) /\ Len(node[s]) \in Nat
    BY <2>2, LenProperties
  <2>4. <<s, i>> \in Used
    BY <2>2, <2>3, CapPositive DEF Used, Addrs
  <2> QED
    BY <2>1, <2>4 DEF At
<1>2. ASSUME NEW a \in Used
      PROVE  a[1] \in Sectors /\ At(a) \in Range(node[a[1]])
  BY UsedIn DEF At, Range
<1> QED
  BY <1>1, <1>2 DEF Kept, Live, Old

\* What Stored is.
StoredIs(k) ==
    /\ Stored(k) \in Vals \cup {None}
    /\ (\A a, b \in Live(k) : a = b) => \A a \in Live(k) : Stored(k) = At(a).val
    /\ Live(k) = {} /\ Old(k) # {} /\ mv.src # None /\ mv.key = k => Stored(k) = At(mv.src).val
    /\ Live(k) = {} /\ ~(mv.src # None /\ mv.key = k) /\ (\A a, b \in Old(k) : a = b) =>
           \A a \in Old(k) : Stored(k) = At(a).val
    /\ Live(k) = {} /\ Old(k) = {} => Stored(k) = None

\* A record at hand is on the flash.
LEMMA SrcIn ==
    ASSUME StoreInv, mv.src # None
    PROVE  pc \in Moving /\ mv.src \in Used /\ At(mv.src) \in Records
<1>1. pc \in Moving
  BY DEF StoreInv, Control, NoMove
<1> QED
  BY <1>1, UsedIn DEF StoreInv, AtHand

LEMMA StoredAs == StoreInv => \A k \in Keys : StoredIs(k)
<1> SUFFICES ASSUME StoreInv, NEW k \in Keys PROVE StoredIs(k)
  OBVIOUS
<1>1. /\ Kept(k, "write") = {At(a) : a \in Live(k)}
      /\ Kept(k, "predelete") = {At(a) : a \in Old(k)}
  BY KeptIs DEF StoreInv
<1>2. \A a \in Live(k) \cup Old(k) : At(a).val \in Vals \cup {None}
  BY UsedIn DEF StoreInv, Live, Old, Records
<1>3. CASE Live(k) # {}
  <2>1. Kept(k, "write") # {}
    BY <1>1, <1>3
  <2>2. PICK r : r = (CHOOSE x \in Kept(k, "write") : TRUE)
    OBVIOUS
  <2>3. r \in Kept(k, "write") /\ Stored(k) = r.val
    BY <2>1, <2>2 DEF Stored
  <2>4. PICK c \in Live(k) : r = At(c)
    BY <1>1, <2>3
  <2> QED
    BY <1>2, <1>3, <2>3, <2>4 DEF StoredIs
<1>4. CASE Live(k) = {} /\ Old(k) # {} /\ mv.src # None /\ mv.key = k
  <2>1. Stored(k) = At(mv.src).val
    BY <1>1, <1>4 DEF Stored
  <2>2. At(mv.src).val \in Vals \cup {None}
    BY <1>4, SrcIn DEF Records
  <2> QED
    BY <1>4, <2>1, <2>2 DEF StoredIs
<1>5. CASE Live(k) = {} /\ Old(k) # {} /\ ~(mv.src # None /\ mv.key = k)
  <2>1. PICK r : r = (CHOOSE x \in Kept(k, "predelete") : TRUE)
    OBVIOUS
  <2>2. r \in Kept(k, "predelete") /\ Stored(k) = r.val
    BY <1>1, <1>5, <2>1 DEF Stored
  <2>3. PICK c \in Old(k) : r = At(c)
    BY <1>1, <2>2
  <2> QED
    BY <1>2, <1>5, <2>2, <2>3 DEF StoredIs
<1>6. CASE Live(k) = {} /\ Old(k) = {}
  <2>1. Stored(k) = None
    BY <1>1, <1>6 DEF Stored
  <2> QED
    BY <1>6, <2>1 DEF StoredIs
<1> QED
  BY <1>3, <1>4, <1>5, <1>6

\* The record at hand is none of another key.
LEMMA Other ==
    ASSUME StoreInv, Traces, NEW k \in Keys, mv.key # k
    PROVE  mv.src \notin Live(k) \cup Old(k) /\ Rest(k) = Old(k)
<1>1. CASE mv.src = None
  BY <1>1, StoreAssumption DEF Live, Old, Rest, Used, Addrs, Sectors
<1>2. CASE mv.src # None
  <2>1. pc \in Moving
    BY <1>2, SrcIn
  <2>2. \/ At(mv.src).key = mv.key
        \/ At(mv.src).st = "deleted"
    BY <1>2, <2>1 DEF StoreInv, AtHand, Traces
  <2> QED
    BY <2>2 DEF Live, Old, Rest
<1> QED
  BY <1>1, <1>2

\* Nor is it after the step.
LEMMA OtherNext ==
    ASSUME StoreInv', Traces', NEW k \in Keys, mv'.key # k
    PROVE  mv'.src \notin Live(k)' \cup Old(k)' /\ Rest(k)' = Old(k)'
<1>1. CASE mv'.src = None
  BY <1>1, StoreAssumption DEF Live, Old, Rest, Used, Addrs, Sectors
<1>2. CASE mv'.src # None
  <2>1. pc' \in Moving
    BY <1>2 DEF StoreInv, Control, NoMove
  <2>2. \/ At(mv.src)'.key = mv'.key
        \/ At(mv.src)'.st = "deleted"
    BY <1>2, <2>1 DEF StoreInv, AtHand, Traces
  <2> QED
    BY <2>2 DEF Live, Old, Rest
<1> QED
  BY <1>1, <1>2

\* What the code looks for are the records that count.
LEMMA HavingIs ==
    ASSUME StoreInv, NEW k \in Keys
    PROVE  Having(k, "write") = Live(k)
BY VisitedIs DEF StoreInv, Having, Live

\* A write to a record that does not count, before or after, changes nothing
\* for the key.
LEMMA Unseen ==
    ASSUME NEW k, NEW d, \A b : b # d => (b \in Used' <=> b \in Used),
           \A b \in Used : b # d => At(b)' = At(b),
           d \in Used => ~(At(d).key = k /\ At(d).st \in {"write", "predelete"}),
           d \in Used' => ~(At(d)'.key = k /\ At(d)'.st \in {"write", "predelete"})
    PROVE  /\ Live(k)' = Live(k) /\ Old(k)' = Old(k)
           /\ Whole(k) => Whole(k)'
           /\ \A b \in Live(k) \cup Old(k) : At(b)' = At(b)
<1>1. \A b : (b \in Live(k))' <=> b \in Live(k)
  BY DEF Live
<1>2. \A b : (b \in Old(k))' <=> b \in Old(k)
  BY DEF Old
<1>3. Whole(k) => Whole(k)'
  BY DEF Whole
<1>4. \A b \in Live(k) \cup Old(k) : At(b)' = At(b)
  BY DEF Live, Old
<1> QED
  BY <1>1, <1>2, <1>3, <1>4

\* A key keeps its value when its records stay, and so does the record at hand.
LEMMA SameValue ==
    ASSUME NEW k \in Keys, StoreInv, Traces, One(k), StoredIs(k), StoredIs(k)',
           StoreInv', Traces', 
           Live(k)' = Live(k), Old(k)' = Old(k),
           \A b \in Live(k) \cup Old(k) : At(b)' = At(b),
           \/ Live(k) # {}
           \/ mv.key # k /\ mv'.key # k
           \/ mv.src = None /\ mv'.src = None
           \/ mv'.key = mv.key /\ mv'.src = mv.src /\ mv.src \in Old(k)
    PROVE  Stored(k)' = Stored(k)
<1>1. CASE Live(k) # {}
  <2>1. PICK a : a \in Live(k)
    BY <1>1
  <2>2. Stored(k) = At(a).val
    BY <2>1 DEF One, StoredIs
  <2>3. \A c, d \in Live(k)' : c = d
    BY DEF One
  <2>4. Stored(k)' = At(a)'.val
    BY <2>1, <2>3 DEF StoredIs
  <2> QED
    BY <2>1, <2>2, <2>4
<1>2. CASE Live(k) = {} /\ Old(k) = {}
  BY <1>2 DEF StoredIs
<1>3. CASE Live(k) = {} /\ Old(k) # {} /\ ~(mv.src # None /\ mv.key = k)
                        /\ ~(mv'.src # None /\ mv'.key = k)
  <2>1. Rest(k) = Old(k)
    <3>1. CASE mv.key # k
      BY <3>1, Other
    <3>2. CASE mv.src = None
      BY <3>2, StoreAssumption DEF Rest, Old, Used, Addrs, Sectors
    <3> QED
      BY <1>3, <3>1, <3>2
  <2>2. \A a, b \in Old(k) : a = b
    BY <2>1 DEF One
  <2>3. PICK a : a \in Old(k)
    BY <1>3
  <2>4. Stored(k) = At(a).val
    BY <1>3, <2>2, <2>3 DEF StoredIs
  <2>5. Stored(k)' = At(a)'.val
    BY <1>3, <2>2, <2>3 DEF StoredIs
  <2> QED
    BY <2>3, <2>4, <2>5
<1>4. CASE Live(k) = {} /\ mv'.key = mv.key /\ mv'.src = mv.src /\ mv.src \in Old(k) /\ mv.key = k
           /\ mv.src # None
  <2>1. PICK a : a = mv.src
    OBVIOUS
  <2>2. Stored(k) = At(a).val
    BY <1>4, <2>1 DEF StoredIs
  <2>3. Stored(k)' = At(a)'.val
    BY <1>4, <2>1 DEF StoredIs
  <2> QED
    BY <1>4, <2>1, <2>2, <2>3
<1> QED
  BY <1>1, <1>2, <1>3, <1>4

-----------------------------------------------------------------------------
(* Each step keeps KeyInv of a key, and its value; only the status of a new *)
(* record changes it.  First the steps about a record of another key.       *)

LEMMA Bystander ==
    ASSUME NEW k \in Keys, StoreInv, StoreInv', Traces, Traces', StoredIs(k), StoredIs(k)',
           KeyInv(k), pc \in Moving, pc' \in Moving, mv.key # k, mv'.key # k,
           UNCHANGED <<gc, recov, pos, req>>, cache'[k] = cache[k],
           Live(k)' = Live(k), Old(k)' = Old(k), Whole(k)',
           \A b \in Live(k) \cup Old(k) : At(b)' = At(b),
           \A a \in Used' : At(a)'.st = "prewrite" /\ At(a)'.data # "none" =>
               \/ Unfinish(a)'
               \/ a \in Used /\ At(a).st = "prewrite" /\ At(a).data # "none" /\ ~Unfinish(a)
    PROVE  KeyInv(k)' /\ Stored(k)' = Stored(k)
<1>1. /\ mv.src \notin Live(k) \cup Old(k) /\ Rest(k) = Old(k)
      /\ mv'.src \notin Live(k) \cup Old(k) /\ Rest(k)' = Old(k)
  <2>1. mv.src \notin Live(k) \cup Old(k) /\ Rest(k) = Old(k)
    BY Other
  <2>2. mv'.src \notin Live(k)' \cup Old(k)' /\ Rest(k)' = Old(k)'
    BY OtherNext
  <2> QED
    BY <2>1, <2>2
<1>2. Stored(k)' = Stored(k)
  BY SameValue DEF KeyInv
<1>3. One(k)'
  BY <1>1 DEF KeyInv, One, Moving, Writes
<1>4. Cached(k)'
  BY DEF KeyInv, Cached
<1>5. Replaced(k)'
  BY DEF Replaced
<1>6. Answered(k)'
  <2>1. pc' \in Moving /\ Setting' => mv'.key = req'.key
    BY DEF StoreInv, AtHand
  <2> QED
    BY <1>2, <2>1 DEF KeyInv, Answered, Moving
<1>7. Ahead(k)'
  BY <1>1 DEF KeyInv, Ahead, Moving, Writes
<1>8. Open(k)'
  BY <1>1 DEF KeyInv, Open, Moving, Writes
<1> QED
  BY <1>2, <1>3, <1>4, <1>5, <1>6, <1>7, <1>8 DEF KeyInv

\* del_env(.., false)
LEMMA PreDeleteEffect ==
    ASSUME StoreInv, PreDelete, NEW a, a = mv.src
    PROVE  /\ a \in Used /\ At(a).key = mv.key /\ At(a)' = [At(a) EXCEPT !.st = "predelete"]
           /\ At(a)'.key = mv.key /\ At(a)'.st = "predelete"
           /\ At(a)'.val = At(a).val /\ At(a)'.data = At(a).data
           /\ Used' = Used /\ \A b \in Used : b # a => At(b)' = At(b)
<1>1. a # None /\ a \in Used /\ mv.key # None /\ At(a).key = mv.key
  BY DEF PreDelete, StoreInv, AtHand, Control, Moving
<1>2. At(a) \in Records
  BY <1>1, UsedIn DEF StoreInv
<1>3. PICK r \in Records : r = [At(a) EXCEPT !.st = "predelete"]
                           /\ r.key = At(a).key /\ r.val = At(a).val /\ r.data = At(a).data
                           /\ r.st = "predelete"
  <2>1. PICK x \in Records : x = At(a)
    BY <1>2
  <2>2. /\ [x EXCEPT !.st = "predelete"] \in Records
        /\ [x EXCEPT !.st = "predelete"] =
               [st |-> "predelete", key |-> x.key, val |-> x.val, data |-> x.data]
    BY <1>1, <2>1, RecordWith DEF Statuses
  <2> QED
    BY <2>1, <2>2
<1>4. Write(a, r)
  BY <1>3 DEF PreDelete, Status
<1>5. At(a)' = r /\ Used' = Used /\ \A b \in Used : b # a => At(b)' = At(b)
  BY <1>1, <1>4, WriteEffect DEF StoreInv
<1> QED
  BY <1>1, <1>3, <1>5

LEMMA PreDeleteKeeps ==
    ASSUME NEW k \in Keys, StoreInv, StoreInv', Traces, Traces', StoredIs(k), StoredIs(k)',
           KeyInv(k), PreDelete
    PROVE  KeyInv(k)' /\ Stored(k)' = Stored(k)
<1>1. PICK a : a = mv.src
  OBVIOUS
<1>2. /\ a \in Used /\ At(a).key = mv.key
      /\ At(a)'.key = mv.key /\ At(a)'.st = "predelete"
      /\ At(a)'.val = At(a).val /\ At(a)'.data = At(a).data
      /\ Used' = Used /\ \A b \in Used : b # a => At(b)' = At(b)
  BY <1>1, PreDeleteEffect
<1>3. /\ pc = "predel" /\ pc' \in {"premark", "secst", "malloc"}
      /\ UNCHANGED <<sec, cache, gcReq, gcFlag, recov, req, mv, gc, pos>>
  BY DEF PreDelete
<1>4. ASSUME NEW b \in Used', At(b)'.st = "prewrite"
      PROVE  b \in Used /\ At(b).st = "prewrite" /\ At(b)' = At(b) /\ ~Unfinish(b)
  BY <1>2, <1>3, <1>4 DEF Unfinish
<1>5. CASE mv.key # k
  <2>1. /\ Live(k)' = Live(k) /\ Old(k)' = Old(k) /\ Whole(k)'
        /\ \A b \in Live(k) \cup Old(k) : At(b)' = At(b)
    BY <1>2, <1>5, Unseen DEF KeyInv
  <2> QED
    BY <1>3, <1>4, <1>5, <2>1, Bystander DEF Moving, Writes
<1>6. CASE mv.key = k
  <2>1. a \in Live(k) /\ Live(k) = {a} /\ a \notin Old(k) /\ a # None
    BY <1>1, <1>3, <1>6, StoreAssumption
    DEF KeyInv, Replaced, One, Live, Old, Used, Addrs, Sectors
  <2>2. Live(k)' = {} /\ Old(k)' = Old(k) \cup {a} /\ Rest(k)' = Rest(k)
    <3>1. \A b : ~(b \in Live(k))'
      BY <1>2, <2>1 DEF Live
    <3>2. \A b : (b \in Old(k))' <=> b \in Old(k) \/ b = a
      BY <1>2, <1>6, <2>1 DEF Live, Old
    <3> QED
      BY <1>1, <1>3, <2>1, <3>1, <3>2 DEF Rest
  <2>3. Stored(k)' = Stored(k)
    <3>1. Stored(k) = At(a).val
      BY <2>1 DEF KeyInv, One, StoredIs
    <3>2. Stored(k)' = At(a)'.val
      BY <1>1, <1>3, <1>6, <2>1, <2>2 DEF StoredIs
    <3> QED
      BY <1>2, <3>1, <3>2
  <2>4. Whole(k)'
    BY <1>2, <2>1 DEF KeyInv, Whole, Live
  <2>5. gc.ret = "none" => ~recov
    BY <1>3 DEF Traces
  <2>6. One(k)'
    BY <1>3, <2>2, <2>5 DEF KeyInv, One
  <2>7. Cached(k)'
    BY <1>1, <1>3, <1>6, <2>1, <2>2, <2>5 DEF KeyInv, Cached, Making
  <2>8. Replaced(k)'
    BY <1>1, <1>3, <2>2 DEF Replaced, Writes
  <2>9. Answered(k)'
    BY <1>3, <2>3 DEF KeyInv, Answered
  <2>10. Ahead(k)'
    BY <1>3, <2>1, <2>2 DEF KeyInv, Ahead, Moving, Writes
  <2>11. Open(k)'
    BY <1>2, <1>3, <1>4, <2>2, <2>5 DEF KeyInv, Open
  <2> QED
    BY <2>3, <2>4, <2>6, <2>7, <2>8, <2>9, <2>10, <2>11 DEF KeyInv
<1> QED
  BY <1>5, <1>6

\* Where the records stay.
LEMMA SameRecords ==
    ASSUME NEW k, UNCHANGED node
    PROVE  /\ Live(k)' = Live(k) /\ Old(k)' = Old(k) /\ Used' = Used
           /\ Whole(k) => Whole(k)'
           /\ \A b : At(b)' = At(b)
BY DEF Live, Old, Used, At, Whole

\* The dirty mark.
LEMMA DirtyMarkKeeps ==
    ASSUME NEW k \in Keys, StoreInv, StoreInv', Traces, Traces', StoredIs(k), StoredIs(k)',
           KeyInv(k), DirtyMark
    PROVE  KeyInv(k)' /\ Stored(k)' = Stored(k)
<1>1. /\ pc \in {"premark", "postmark"} /\ UNCHANGED <<node, ram, req, mv, gc, pos>>
      /\ pc' \in {"after", "secst", "malloc"} /\ (pc = "postmark" <=> pc' = "after")
      /\ pc' = "secst" => Setting
  BY DEF DirtyMark
<1>2. UNCHANGED <<cache, gcReq, recov>>
  BY <1>1 DEF ram
<1>3. /\ Live(k)' = Live(k) /\ Old(k)' = Old(k) /\ Used' = Used /\ Whole(k)'
      /\ \A b : At(b)' = At(b)
  BY <1>1, SameRecords DEF KeyInv
<1>4. \A b : ~Unfinish(b)
  BY <1>1 DEF Unfinish
<1>5. CASE mv.key # k
  <2>1. pc \in Moving /\ pc' \in Moving
    BY <1>1 DEF Moving, Writes
  <2>2. \A b \in Used' : At(b)'.st = "prewrite" /\ At(b)'.data # "none" =>
               \/ Unfinish(b)'
               \/ b \in Used /\ At(b).st = "prewrite" /\ At(b).data # "none" /\ ~Unfinish(b)
    BY <1>3, <1>4
  <2> QED
    BY <1>1, <1>2, <1>3, <1>5, <2>1, <2>2, Bystander
<1>6. CASE mv.key = k
  <2>1. Rest(k)' = Rest(k)
    BY <1>1, <1>3 DEF Rest
  <2>2. /\ pc = "premark" => Live(k) = {} /\ (mv.src # None => mv.src \in Old(k)) /\ mv.src # None
        /\ pc = "postmark" => Live(k) # {}
    BY <1>1, <1>6 DEF KeyInv, Replaced, StoreInv, AtHand
  <2>3. Stored(k)' = Stored(k)
    <3>1. \/ Live(k) # {}
          \/ mv'.key = mv.key /\ mv'.src = mv.src /\ mv.src \in Old(k)
      BY <1>1, <2>2
    <3> QED
      BY <1>3, <3>1, SameValue DEF KeyInv
  <2>4. One(k)'
    BY <1>1, <1>2, <1>3, <2>1 DEF KeyInv, One
  <2>5. Cached(k)'
    BY <1>1, <1>2, <1>3, <1>6 DEF KeyInv, Cached, Making
  <2>6. Replaced(k)'
    BY <1>1, <1>2, <1>3, <2>2 DEF Replaced, Writes
  <2>7. Answered(k)'
    BY <1>1, <1>2, <2>3 DEF KeyInv, Answered, Setting
  <2>8. Ahead(k)'
    BY <1>1, <1>2, <1>3, <2>1 DEF KeyInv, Ahead, Moving, Writes
  <2>9. Open(k)'
    BY <1>1, <1>2, <1>3, <1>4, <2>1 DEF KeyInv, Open
  <2> QED
    BY <1>3, <2>3, <2>4, <2>5, <2>6, <2>7, <2>8, <2>9 DEF KeyInv
<1> QED
  BY <1>5, <1>6

\* The status of the sector that takes the record.
LEMMA SectorStatusKeeps ==
    ASSUME NEW k \in Keys, StoreInv, StoreInv', Traces, Traces', StoredIs(k), StoredIs(k)',
           KeyInv(k), SectorStatus
    PROVE  KeyInv(k)' /\ Stored(k)' = Stored(k)
<1>1. /\ pc = "secst" /\ pc' = "prewrite" /\ UNCHANGED <<node, ram, req, mv, gc, pos>>
  BY DEF SectorStatus
<1>2. UNCHANGED <<cache, gcReq, recov>>
  BY <1>1 DEF ram
<1>3. /\ Live(k)' = Live(k) /\ Old(k)' = Old(k) /\ Used' = Used /\ Whole(k)'
      /\ \A b : At(b)' = At(b)
  BY <1>1, SameRecords DEF KeyInv
<1>4. \A b : ~Unfinish(b)
  BY <1>1 DEF Unfinish
<1>5. CASE mv.key # k
  <2>1. pc \in Moving /\ pc' \in Moving
    BY <1>1 DEF Moving, Writes
  <2>2. \A b \in Used' : At(b)'.st = "prewrite" /\ At(b)'.data # "none" =>
               \/ Unfinish(b)'
               \/ b \in Used /\ At(b).st = "prewrite" /\ At(b).data # "none" /\ ~Unfinish(b)
    BY <1>3, <1>4
  <2> QED
    BY <1>1, <1>2, <1>3, <1>5, <2>1, <2>2, Bystander
<1>6. CASE mv.key = k
  <2>1. Rest(k)' = Rest(k)
    BY <1>1, <1>3 DEF Rest
  <2>2. Live(k) = {} /\ (mv.src # None => mv.src \in Old(k))
    BY <1>1, <1>6 DEF KeyInv, Replaced, Writes
  <2>3. Stored(k)' = Stored(k)
    <3>1. \/ mv.src = None /\ mv'.src = None
          \/ mv'.key = mv.key /\ mv'.src = mv.src /\ mv.src \in Old(k)
      BY <1>1, <2>2
    <3> QED
      BY <1>3, <3>1, SameValue DEF KeyInv
  <2>4. One(k)'
    BY <1>1, <1>2, <1>3, <2>1 DEF KeyInv, One
  <2>5. Cached(k)'
    BY <1>1, <1>2, <1>3, <1>6 DEF KeyInv, Cached, Making
  <2>6. Replaced(k)'
    BY <1>1, <1>2, <1>3, <2>2 DEF Replaced, Writes
  <2>7. Answered(k)'
    BY <1>1, <1>2, <2>3 DEF KeyInv, Answered
  <2>8. Ahead(k)'
    BY <1>1, <1>2, <1>3, <2>1 DEF KeyInv, Ahead, Moving, Writes
  <2>9. Open(k)'
    BY <1>1, <1>2, <1>3, <1>4, <2>1 DEF KeyInv, Open
  <2> QED
    BY <1>3, <2>3, <2>4, <2>5, <2>6, <2>7, <2>8, <2>9 DEF KeyInv
<1> QED
  BY <1>5, <1>6

\* A new record.
LEMMA PreWriteKeeps ==
    ASSUME NEW k \in Keys, StoreInv, StoreInv', Traces, Traces', StoredIs(k), StoredIs(k)',
           KeyInv(k), PreWrite
    PROVE  KeyInv(k)' /\ Stored(k)' = Stored(k)
<1>1. /\ pc = "prewrite" /\ pc' = "head" /\ UNCHANGED <<sec, ram, req, mv, gc, pos>>
  BY DEF PreWrite
<1>2. UNCHANGED <<cache, gcReq, recov>>
  BY <1>1 DEF ram
<1>3. PICK r, s, d : /\ r = [st |-> "prewrite", key |-> mv.key, val |-> mv.val, data |-> "none"]
                     /\ s = mv.dst /\ d = <<s, Len(node[s]) + 1>>
  OBVIOUS
<1>4. s \in Sectors /\ Len(node[s]) < Cap /\ r \in Records
  BY <1>1, <1>3 DEF StoreInv, Target, Control, RamType, Moving, Writes, Records, Statuses
<1>5. node' = [node EXCEPT ![s] = Append(@, r)] /\ FlashType /\ d = <<s, Len(node[s]) + 1>>
  BY <1>3 DEF PreWrite, StoreInv
<1>6. /\ d \notin Used /\ Used' = Used \cup {d} /\ At(d)' = r
      /\ \A b \in Used : At(b)' = At(b)
  BY <1>4, <1>5, AppendEffect
<1>7. /\ Live(k)' = Live(k) /\ Old(k)' = Old(k) /\ Whole(k)'
      /\ \A b \in Live(k) \cup Old(k) : At(b)' = At(b)
  <2>1. \A b : b # d => (b \in Used' <=> b \in Used)
    BY <1>6
  <2>2. At(d)'.st \notin {"write", "predelete"}
    BY <1>3, <1>6
  <2> QED
    BY <1>6, <2>1, <2>2, Unseen DEF KeyInv
<1>8. ASSUME NEW b \in Used', At(b)'.st = "prewrite" /\ At(b)'.data # "none"
      PROVE  b \in Used /\ At(b).st = "prewrite" /\ At(b).data # "none" /\ ~Unfinish(b)
  BY <1>1, <1>3, <1>6, <1>8 DEF Unfinish
<1>9. CASE mv.key # k
  BY <1>1, <1>2, <1>7, <1>8, <1>9, Bystander DEF Moving, Writes
<1>10. CASE mv.key = k
  <2>1. Rest(k)' = Rest(k)
    BY <1>1, <1>7 DEF Rest
  <2>2. Live(k) = {} /\ (mv.src # None => mv.src \in Old(k))
    BY <1>1, <1>10 DEF KeyInv, Replaced, Writes
  <2>3. Stored(k)' = Stored(k)
    <3>1. \/ mv.src = None /\ mv'.src = None
          \/ mv'.key = mv.key /\ mv'.src = mv.src /\ mv.src \in Old(k)
      BY <1>1, <2>2
    <3> QED
      BY <1>7, <3>1, SameValue DEF KeyInv
  <2>4. One(k)'
    BY <1>1, <1>2, <1>7, <2>1 DEF KeyInv, One
  <2>5. Cached(k)'
    BY <1>1, <1>2, <1>7, <1>10 DEF KeyInv, Cached, Making
  <2>6. Replaced(k)'
    BY <1>1, <1>2, <1>7, <2>2 DEF Replaced, Writes
  <2>7. Answered(k)'
    BY <1>1, <1>2, <2>3 DEF KeyInv, Answered
  <2>8. Ahead(k)'
    BY <1>1, <1>2, <1>7, <2>1 DEF KeyInv, Ahead, Moving, Writes
  <2>9. Open(k)'
    BY <1>1, <1>2, <1>7, <1>8, <2>1 DEF KeyInv, Open
  <2> QED
    BY <1>7, <2>3, <2>4, <2>5, <2>6, <2>7, <2>8, <2>9 DEF KeyInv
<1> QED
  BY <1>9, <1>10

\* A write to the record that is being made.
LEMMA DstEffect ==
    ASSUME StoreInv, pc \in {"head", "body", "write"}, UNCHANGED <<sec, mv>>, NEW d, d = Dst,
           NEW r, r = [st |-> IF pc = "write" THEN "write" ELSE "prewrite",
                       key |-> mv.key, val |-> mv.val,
                       data |-> IF pc = "head" THEN "part" ELSE Content],
           \/ pc = "head" /\ Write(Dst, [At(Dst) EXCEPT !.data = "part"])
           \/ pc = "body" /\ Write(Dst, [At(Dst) EXCEPT !.data = Content])
           \/ pc = "write" /\ Write(Dst, [At(Dst) EXCEPT !.st = "write"])
    PROVE  /\ d \in Used /\ d # mv.src /\ At(d).st = "prewrite" /\ At(d).key = mv.key
           /\ Used' = Used /\ Dst' = d /\ At(d)' = r
           /\ \A b \in Used : b # d => At(b)' = At(b)
<1>1. PICK x \in Records : x = At(d)
  BY DstIs
<1>2. /\ d \in Used /\ d # mv.src /\ mv.key # None
      /\ x = [st |-> "prewrite", key |-> mv.key, val |-> mv.val,
              data |-> CASE pc = "head" -> "none" [] pc = "body" -> "part"
                         [] pc = "write" -> Content]
  BY <1>1, DstIs DEF Content
<1>3. /\ [x EXCEPT !.data = "part"] = [st |-> x.st, key |-> x.key, val |-> x.val, data |-> "part"]
      /\ [x EXCEPT !.data = Content] = [st |-> x.st, key |-> x.key, val |-> x.val, data |-> Content]
      /\ [x EXCEPT !.st = "write"] = [st |-> "write", key |-> x.key, val |-> x.val, data |-> x.data]
      /\ [x EXCEPT !.data = "part"] \in Records /\ [x EXCEPT !.data = Content] \in Records
      /\ [x EXCEPT !.st = "write"] \in Records
  BY <1>2, RecordWith DEF Statuses, Content
<1>4. Write(Dst, r) /\ r \in Records
  <2>1. CASE pc = "head"
    BY <1>1, <1>2, <1>3, <2>1
  <2>2. CASE pc = "body"
    BY <1>1, <1>2, <1>3, <2>2
  <2>3. CASE pc = "write"
    BY <1>1, <1>2, <1>3, <2>3
  <2> QED
    BY <2>1, <2>2, <2>3
<1>5. /\ Used' = Used /\ Dst' = d /\ At(d)' = r
      /\ \A b \in Used : b # d => At(b)' = At(b)
  BY <1>4, DstWrite
<1> QED
  BY <1>1, <1>2, <1>5

\* Its header.
LEMMA WriteHeadKeeps ==
    ASSUME NEW k \in Keys, StoreInv, StoreInv', Traces, Traces', StoredIs(k), StoredIs(k)',
           KeyInv(k), WriteHead
    PROVE  KeyInv(k)' /\ Stored(k)' = Stored(k)
<1>1. /\ pc = "head" /\ pc' = "body" /\ UNCHANGED <<sec, ram, req, mv, gc, pos>>
      /\ Write(Dst, [At(Dst) EXCEPT !.data = "part"])
  BY DEF WriteHead
<1>2. UNCHANGED <<cache, gcReq, recov>>
  BY <1>1 DEF ram
<1>3. PICK d, r : d = Dst /\ r = [st |-> "prewrite", key |-> mv.key, val |-> mv.val, data |-> "part"]
  OBVIOUS
<1>4. /\ d \in Used /\ d # mv.src /\ At(d).st = "prewrite" /\ At(d).key = mv.key
      /\ Used' = Used /\ Dst' = d /\ At(d)' = r
      /\ \A b \in Used : b # d => At(b)' = At(b)
  BY <1>1, <1>3, DstEffect
<1>5. /\ Live(k)' = Live(k) /\ Old(k)' = Old(k) /\ Whole(k)'
      /\ \A b \in Live(k) \cup Old(k) : At(b)' = At(b)
  <2>1. \A b : b # d => (b \in Used' <=> b \in Used)
    BY <1>4
  <2>2. At(d)'.st \notin {"write", "predelete"} /\ At(d).st \notin {"write", "predelete"}
    BY <1>3, <1>4
  <2> QED
    BY <1>4, <2>1, <2>2, Unseen DEF KeyInv
<1>6. \A b \in Used' : At(b)'.st = "prewrite" /\ At(b)'.data # "none" =>
           \/ Unfinish(b)'
           \/ b \in Used /\ At(b).st = "prewrite" /\ At(b).data # "none" /\ ~Unfinish(b)
  BY <1>1, <1>3, <1>4 DEF Unfinish
<1>7. CASE mv.key # k
  BY <1>1, <1>2, <1>5, <1>6, <1>7, Bystander DEF Moving, Writes
<1>8. CASE mv.key = k
  <2>1. Rest(k)' = Rest(k)
    BY <1>1, <1>5 DEF Rest
  <2>2. Live(k) = {} /\ (mv.src # None => mv.src \in Old(k))
    BY <1>1, <1>8 DEF KeyInv, Replaced, Writes
  <2>3. Stored(k)' = Stored(k)
    <3>1. \/ mv.src = None /\ mv'.src = None
          \/ mv'.key = mv.key /\ mv'.src = mv.src /\ mv.src \in Old(k)
      BY <1>1, <2>2
    <3> QED
      BY <1>5, <3>1, SameValue DEF KeyInv
  <2>4. One(k)'
    BY <1>1, <1>2, <1>5, <2>1 DEF KeyInv, One
  <2>5. Cached(k)'
    BY <1>1, <1>2, <1>5, <1>8 DEF KeyInv, Cached, Making
  <2>6. Replaced(k)'
    BY <1>1, <1>2, <1>5, <2>2 DEF Replaced, Writes
  <2>7. Answered(k)'
    BY <1>1, <1>2, <2>3 DEF KeyInv, Answered
  <2>8. Ahead(k)'
    BY <1>1, <1>2, <1>5, <2>1 DEF KeyInv, Ahead, Moving, Writes
  <2>9. Open(k)'
    BY <1>1, <1>2, <1>5, <1>6, <2>1 DEF KeyInv, Open
  <2> QED
    BY <1>5, <2>3, <2>4, <2>5, <2>6, <2>7, <2>8, <2>9 DEF KeyInv
<1> QED
  BY <1>7, <1>8

\* Its name and value, which the cache learns.
LEMMA WriteBodyKeeps ==
    ASSUME NEW k \in Keys, StoreInv, StoreInv', Traces, Traces', StoredIs(k), StoredIs(k)',
           KeyInv(k), WriteBody
    PROVE  KeyInv(k)' /\ Stored(k)' = Stored(k)
<1>1. /\ pc = "body" /\ pc' = "write"
      /\ UNCHANGED <<sec, gcReq, gcFlag, recov, preDel, req, mv, gc, pos>>
      /\ cache' = [cache EXCEPT ![mv.key] = Dst]
      /\ Write(Dst, [At(Dst) EXCEPT !.data = Content])
  BY DEF WriteBody, Content
<1>2. PICK d, r : d = Dst /\ r = [st |-> "prewrite", key |-> mv.key, val |-> mv.val, data |-> Content]
  OBVIOUS
<1>3. cache' = [cache EXCEPT ![mv.key] = d] /\ cache \in [Keys -> Addrs \cup {None}]
  BY <1>1, <1>2 DEF StoreInv, RamType
<1>4. /\ d \in Used /\ d # mv.src /\ At(d).st = "prewrite" /\ At(d).key = mv.key
      /\ Used' = Used /\ Dst' = d /\ At(d)' = r
      /\ \A b \in Used : b # d => At(b)' = At(b)
  BY <1>1, <1>2, DstEffect
<1>5. /\ Live(k)' = Live(k) /\ Old(k)' = Old(k) /\ Whole(k)'
      /\ \A b \in Live(k) \cup Old(k) : At(b)' = At(b)
  <2>1. \A b : b # d => (b \in Used' <=> b \in Used)
    BY <1>4
  <2>2. At(d)'.st \notin {"write", "predelete"} /\ At(d).st \notin {"write", "predelete"}
    BY <1>2, <1>4
  <2> QED
    BY <1>4, <2>1, <2>2, Unseen DEF KeyInv
<1>6. \A b \in Used' : At(b)'.st = "prewrite" /\ At(b)'.data # "none" =>
           \/ Unfinish(b)'
           \/ b \in Used /\ At(b).st = "prewrite" /\ At(b).data # "none" /\ ~Unfinish(b)
  BY <1>1, <1>2, <1>4 DEF Unfinish
<1>7. CASE mv.key # k
  <2>1. cache'[k] = cache[k] /\ mv'.key # k
    BY <1>1, <1>3, <1>7
  <2> QED
    BY <1>1, <1>5, <1>6, <1>7, <2>1, Bystander DEF Moving, Writes
<1>8. CASE mv.key = k
  <2>1. Rest(k)' = Rest(k)
    BY <1>1, <1>5 DEF Rest
  <2>2. Live(k) = {} /\ (mv.src # None => mv.src \in Old(k))
    BY <1>1, <1>8 DEF KeyInv, Replaced, Writes
  <2>3. Stored(k)' = Stored(k)
    <3>1. \/ mv.src = None /\ mv'.src = None
          \/ mv'.key = mv.key /\ mv'.src = mv.src /\ mv.src \in Old(k)
      BY <1>1, <2>2
    <3> QED
      BY <1>5, <3>1, SameValue DEF KeyInv
  <2>4. One(k)'
    BY <1>1, <1>5, <2>1 DEF KeyInv, One
  <2>5. Cached(k)'
    BY <1>1, <1>3, <1>4, <1>8 DEF Cached
  <2>6. Replaced(k)'
    BY <1>1, <1>5, <2>2 DEF Replaced, Writes
  <2>7. Answered(k)'
    BY <1>1, <2>3 DEF KeyInv, Answered
  <2>8. Ahead(k)'
    BY <1>1, <1>5, <2>1 DEF KeyInv, Ahead, Moving, Writes
  <2>9. Open(k)'
    BY <1>1, <1>5, <1>6, <2>1 DEF KeyInv, Open
  <2> QED
    BY <1>5, <2>3, <2>4, <2>5, <2>6, <2>7, <2>8, <2>9 DEF KeyInv
<1> QED
  BY <1>7, <1>8

\* From here on the record counts: a set has taken effect, a move has changed
\* no value.
LEMMA WriteStatusKeeps ==
    ASSUME NEW k \in Keys, StoreInv, StoreInv', Traces, Traces', StoredIs(k), StoredIs(k)',
           KeyInv(k), WriteStatus, mv.key = k => mv.crc
    PROVE  /\ KeyInv(k)'
           /\ Stored(k)' = IF Setting /\ req.key = k THEN req.val ELSE Stored(k)
<1>1. /\ pc = "write" /\ pc' \in {"after", "del"} /\ (pc' = "del" <=> mv.src # None)
      /\ UNCHANGED <<sec, cache, gcFlag, recov, preDel, req, mv, gc, pos>>
      /\ Write(Dst, [At(Dst) EXCEPT !.st = "write"])
  BY DEF WriteStatus, Status
<1>2. PICK d, r : d = Dst /\ r = [st |-> "write", key |-> mv.key, val |-> mv.val, data |-> Content]
  OBVIOUS
<1>3. /\ d \in Used /\ d # mv.src /\ At(d).st = "prewrite" /\ At(d).key = mv.key
      /\ Used' = Used /\ Dst' = d /\ At(d)' = r
      /\ \A b \in Used : b # d => At(b)' = At(b)
  BY <1>1, <1>2, DstEffect
<1>4. \A b \in Used' : At(b)'.st = "prewrite" /\ At(b)'.data # "none" =>
           b \in Used /\ At(b).st = "prewrite" /\ At(b).data # "none" /\ ~Unfinish(b)
  BY <1>1, <1>2, <1>3 DEF Unfinish
<1>5. Setting => mv.key = req.key /\ mv.val = req.val
  BY <1>1 DEF StoreInv, AtHand, Moving, Writes
<1>6. CASE mv.key # k
  <2>1. /\ Live(k)' = Live(k) /\ Old(k)' = Old(k) /\ Whole(k)'
        /\ \A b \in Live(k) \cup Old(k) : At(b)' = At(b)
    <3>1. \A b : b # d => (b \in Used' <=> b \in Used)
      BY <1>3
    <3>2. At(d)'.key # k /\ At(d).st \notin {"write", "predelete"}
      BY <1>2, <1>3, <1>6
    <3> QED
      BY <1>3, <3>1, <3>2, Unseen DEF KeyInv
  <2>2. KeyInv(k)' /\ Stored(k)' = Stored(k)
    BY <1>1, <1>4, <1>6, <2>1, Bystander DEF Moving, Writes
  <2> QED
    BY <1>5, <1>6, <2>2
<1>7. CASE mv.key = k
  <2>13. Content = "all"
    BY <1>7 DEF Content
  <2>1. Live(k) = {} /\ (mv.src # None => mv.src \in Old(k)) /\ cache[k] = d
    <3>1. Live(k) = {} /\ (mv.src # None => mv.src \in Old(k))
      BY <1>1, <1>7 DEF KeyInv, Replaced, Writes
    <3> QED
      BY <1>1, <1>2, <1>7, <3>1 DEF KeyInv, Cached, Making
  <2>2. Live(k)' = {d} /\ Old(k)' = Old(k) /\ Rest(k)' = Rest(k)
    <3>1. \A b : (b \in Live(k))' <=> b = d
      BY <1>2, <1>3, <1>7, <2>1, <2>13 DEF Live
    <3>2. \A b : (b \in Old(k))' <=> b \in Old(k)
      BY <1>2, <1>3 DEF Old
    <3> QED
      BY <1>1, <3>1, <3>2 DEF Rest
  <2>3. Stored(k)' = mv.val
    <3>1. Stored(k)' = At(d)'.val
      BY <2>2 DEF StoredIs
    <3> QED
      BY <1>2, <1>3, <3>1
  <2>4. ~Setting => Stored(k) = mv.val
    <3> SUFFICES ASSUME ~Setting PROVE Stored(k) = mv.val
      OBVIOUS
    <3>1. mv.src # None /\ At(mv.src).val = mv.val
      BY <1>1 DEF StoreInv, AtHand, Moving, Writes
    <3> QED
      BY <1>7, <2>1, <3>1 DEF StoredIs
  <2>5. Stored(k)' = IF Setting /\ req.key = k THEN req.val ELSE Stored(k)
    BY <1>5, <1>7, <2>3, <2>4
  <2>6. Whole(k)'
    BY <1>2, <1>3, <2>13 DEF KeyInv, Whole
  <2>7. One(k)'
    BY <1>1, <2>2 DEF KeyInv, One
  <2>8. Cached(k)'
    BY <1>1, <2>1, <2>2 DEF Cached
  <2>9. Replaced(k)'
    BY <1>1, <2>1, <2>2 DEF Replaced, Writes
  <2>10. Answered(k)'
    <3>1. UNCHANGED Setting /\ (gc.ret = "idle" => ~Setting)
      BY <1>1 DEF Setting
    <3> QED
      BY <1>1, <2>5, <3>1 DEF KeyInv, Answered
  <2>11. Ahead(k)'
    <3>1. gc.ret # "none" => d[1] # gc.at
      BY <1>1, <1>2 DEF StoreInv, Target, Dst
    <3> QED
      BY <1>1, <2>2, <3>1 DEF KeyInv, Ahead, Moving, Writes
  <2>12. Open(k)'
    BY <1>1, <1>4, <2>2 DEF KeyInv, Open
  <2> QED
    BY <2>5, <2>6, <2>7, <2>8, <2>9, <2>10, <2>11, <2>12 DEF KeyInv
<1> QED
  BY <1>6, <1>7

\* del_env(.., true): the record that was replaced goes.
LEMMA DeleteEffect ==
    ASSUME StoreInv, Delete, NEW a, a = mv.src
    PROVE  /\ a \in Used /\ At(a).key = mv.key /\ At(a)'.st = "deleted"
           /\ Used' = Used /\ \A b \in Used : b # a => At(b)' = At(b)
           /\ \A s \in Sectors : Len(node'[s]) = Len(node[s])
<1>1. a # None /\ a \in Used /\ At(a).key = mv.key
  BY DEF Delete, StoreInv, AtHand, Moving
<1>2. PICK x \in Records : x = At(a)
  BY <1>1, UsedIn DEF StoreInv
<1>3. /\ [x EXCEPT !.st = "deleted", !.val = None] \in Records
      /\ [x EXCEPT !.st = "deleted", !.val = None].st = "deleted"
      /\ Junk \in Records /\ Junk.st = "deleted"
  BY DEF Records, Statuses, Junk
<1>4. PICK r \in Records : r = Gone(mv.src) /\ r.st = "deleted"
  BY <1>2, <1>3 DEF Gone
<1>5. Write(a, r)
  BY <1>4 DEF Delete
<1>6. /\ At(a)' = r /\ Used' = Used /\ \A b \in Used : b # a => At(b)' = At(b)
      /\ \A s \in Sectors : Len(node'[s]) = Len(node[s])
  BY <1>1, <1>5, WriteEffect DEF StoreInv
<1> QED
  BY <1>1, <1>4, <1>6

LEMMA DeleteKeeps ==
    ASSUME NEW k \in Keys, StoreInv, StoreInv', Traces, Traces', StoredIs(k), StoredIs(k)',
           KeyInv(k), Delete
    PROVE  KeyInv(k)' /\ Stored(k)' = Stored(k)
<1>1. PICK a : a = mv.src
  OBVIOUS
<1>2. /\ a \in Used /\ At(a).key = mv.key /\ At(a)'.st = "deleted"
      /\ Used' = Used /\ \A b \in Used : b # a => At(b)' = At(b)
  BY <1>1, DeleteEffect
<1>3. /\ pc = "del" /\ pc' \in {"postmark", "after"}
      /\ UNCHANGED <<sec, gcReq, gcFlag, recov, req, mv, gc, pos>>
      /\ cache' = IF preDel THEN cache ELSE [cache EXCEPT ![mv.key] = None]
  BY DEF Delete
<1>4. \A b \in Used' : At(b)'.st = "prewrite" /\ At(b)'.data # "none" =>
           b \in Used /\ At(b).st = "prewrite" /\ At(b).data # "none" /\ ~Unfinish(b)
  BY <1>2, <1>3 DEF Unfinish
<1>5. /\ mv.key # k => cache'[k] = cache[k]
      /\ cache'[k] \in {None, cache[k]}
  BY <1>3 DEF StoreInv, RamType
<1>6. CASE mv.key # k
  <2>1. /\ Live(k)' = Live(k) /\ Old(k)' = Old(k) /\ Whole(k)'
        /\ \A b \in Live(k) \cup Old(k) : At(b)' = At(b)
    <3>1. \A b : b # a => (b \in Used' <=> b \in Used)
      BY <1>2
    <3> QED
      BY <1>2, <1>6, <3>1, Unseen DEF KeyInv
  <2> QED
    BY <1>3, <1>4, <1>5, <1>6, <2>1, Bystander DEF Moving, Writes
<1>7. CASE mv.key = k
  <2>1. a \in Old(k) /\ Live(k) # {} /\ a \notin Live(k)
    BY <1>1, <1>3, <1>7 DEF KeyInv, Replaced, Live, Old
  <2>2. /\ Live(k)' = Live(k) /\ Old(k)' = Old(k) \ {a} /\ Rest(k)' = Rest(k)
    <3>1. \A b : (b \in Live(k))' <=> b \in Live(k)
      BY <1>2, <2>1 DEF Live
    <3>2. \A b : (b \in Old(k))' <=> b \in Old(k) /\ b # a
      BY <1>2 DEF Old
    <3> QED
      BY <1>1, <1>3, <3>1, <3>2 DEF Rest
  <2>3. \A b \in Live(k) : At(b)' = At(b)
    BY <1>2, <2>1 DEF Live
  <2>4. Stored(k)' = Stored(k)
    <3>1. PICK b \in Live(k) : TRUE
      BY <2>1
    <3>2. \A x, y \in Live(k) : x = y
      BY DEF KeyInv, One
    <3>3. Stored(k) = At(b).val
      BY <3>1, <3>2 DEF StoredIs
    <3>4. Stored(k)' = At(b)'.val
      BY <2>2, <3>1, <3>2 DEF StoredIs
    <3> QED
      BY <2>3, <3>1, <3>3, <3>4
  <2>5. Whole(k)'
    BY <1>2 DEF KeyInv, Whole
  <2>6. One(k)'
    BY <1>1, <1>3, <2>2 DEF KeyInv, One
  <2>7. Cached(k)'
    BY <1>3, <1>5, <2>1, <2>2 DEF KeyInv, Cached, Making
  <2>8. Replaced(k)'
    BY <1>3, <2>1, <2>2 DEF Replaced, Writes
  <2>9. Answered(k)'
    BY <1>3, <2>4 DEF KeyInv, Answered, Setting
  <2>10. Ahead(k)'
    BY <1>3, <2>2 DEF KeyInv, Ahead, Moving, Writes
  <2>11. Open(k)'
    BY <1>3, <1>4, <2>2 DEF KeyInv, Open
  <2> QED
    BY <2>4, <2>5, <2>6, <2>7, <2>8, <2>9, <2>10, <2>11 DEF KeyInv
<1> QED
  BY <1>6, <1>7

-----------------------------------------------------------------------------
(* Steps after which no record is at hand. *)

LEMMA Apart ==
    ASSUME NEW k \in Keys, StoreInv, StoreInv', Traces, Traces', StoredIs(k), StoredIs(k)',
           KeyInv(k), UNCHANGED node, mv' = NoMove, mv.key # k \/ pc = "after",
           cache'[k] \in {None, cache[k]} \cup Live(k),
           ~recov' /\ pc' # "down" => Rest(k) = {}
    PROVE  /\ Live(k)' = Live(k) /\ Old(k)' = Old(k) /\ Used' = Used /\ \A b : At(b)' = At(b)
           /\ Rest(k) = Old(k) /\ Rest(k)' = Old(k)
           /\ Whole(k)' /\ One(k)' /\ Cached(k)' /\ Replaced(k)'
           /\ Stored(k)' = Stored(k)
<1>1. /\ Live(k)' = Live(k) /\ Old(k)' = Old(k) /\ Used' = Used /\ Whole(k)'
      /\ \A b : At(b)' = At(b)
  BY SameRecords DEF KeyInv
<1>2. mv'.key # k /\ mv'.src = None /\ None \notin Used
  BY StoreAssumption DEF NoMove, Used, Addrs, Sectors
<1>3. mv.src \notin Live(k) \cup Old(k) /\ Rest(k) = Old(k)
  <2>1. CASE mv.key # k
    BY <2>1, Other
  <2>2. CASE pc = "after"
    <3>1. mv.src = None \/ At(mv.src).st = "deleted"
      BY <2>2 DEF Traces
    <3> QED
      BY <1>2, <3>1 DEF Live, Old, Rest
  <2> QED
    BY <2>1, <2>2
<1>4. Rest(k)' = Old(k)
  BY <1>1, <1>2 DEF Rest, Old
<1>5. One(k)'
  BY <1>1, <1>2, <1>3, <1>4 DEF KeyInv, One, Old
<1>6. Cached(k)'
  BY <1>1, <1>2 DEF KeyInv, Cached, Making
<1>7. Replaced(k)'
  BY <1>2 DEF Replaced
<1>8. Stored(k)' = Stored(k)
  <2>1. pc = "after" /\ mv.key = k => Live(k) # {}
    BY DEF KeyInv, Replaced
  <2> QED
    BY <1>1, <1>2, <2>1, SameValue DEF KeyInv
<1> QED
  BY <1>1, <1>3, <1>4, <1>5, <1>6, <1>7, <1>8

\* gc_collect is called.
LEMMA CallGcKeeps ==
    ASSUME NEW k \in Keys, StoreInv, StoreInv', Traces, Traces', StoredIs(k), StoredIs(k)',
           KeyInv(k), UNCHANGED <<node, cache, recov, req>>,
           NEW r \in {"again", "idle", "rgc", "rscan"}, CallGc(r),
           mv.key # k \/ pc = "after", pc # "down", gc.ret = "none",
           pc \notin {"head", "body", "write"},
           r = "idle" => pc = "after" /\ Setting
    PROVE  KeyInv(k)' /\ Stored(k)' = Stored(k)
<1>1. pc' = "gc" /\ gc'.ret = r /\ mv' = NoMove
  BY NoGcIn DEF CallGc
<1>2. ~recov => Rest(k) = {}
  BY DEF KeyInv, One
<1>3. /\ Live(k)' = Live(k) /\ Old(k)' = Old(k) /\ Used' = Used /\ \A b : At(b)' = At(b)
      /\ Rest(k) = Old(k) /\ Rest(k)' = Old(k)
      /\ Whole(k)' /\ One(k)' /\ Cached(k)' /\ Replaced(k)'
      /\ Stored(k)' = Stored(k)
  BY <1>1, <1>2, Apart
<1>4. Answered(k)'
  BY <1>1, <1>3 DEF KeyInv, Answered
<1>5. Ahead(k)'
  BY <1>1 DEF Ahead, Moving, Writes
<1>6. Open(k)'
  BY <1>1, <1>3 DEF KeyInv, Open, Unfinish
<1> QED
  BY <1>3, <1>4, <1>5, <1>6 DEF KeyInv

\* gc_collect returns.
LEMMA GcReturnKeeps ==
    ASSUME NEW k \in Keys, StoreInv, StoreInv', Traces, Traces', StoredIs(k), StoredIs(k)',
           KeyInv(k), pc \in Collecting, UNCHANGED <<node, cache, recov, pos>>, GcReturn
    PROVE  KeyInv(k)' /\ Stored(k)' = Stored(k)
<1>1. /\ gc' = NoGc /\ pc' = gc.ret /\ mv' = NoMove /\ gc'.ret = "none"
      /\ gc.ret \in {"again", "idle", "rgc", "rscan"}
  BY DEF GcReturn, NoGc, StoreInv, Control, RamType, Collections
<1>2. mv.key # k /\ pc # "down" /\ pc \notin {"head", "body", "write"}
  BY StoreAssumption DEF StoreInv, Control, Collecting, Moving, Writes, NoMove
<1>3. ~recov => Rest(k) = {}
  BY <1>2 DEF KeyInv, One
<1>4. /\ Live(k)' = Live(k) /\ Old(k)' = Old(k) /\ Used' = Used /\ \A b : At(b)' = At(b)
      /\ Rest(k) = Old(k) /\ Rest(k)' = Old(k)
      /\ Whole(k)' /\ One(k)' /\ Cached(k)' /\ Replaced(k)'
      /\ Stored(k)' = Stored(k)
  BY <1>1, <1>2, <1>3, Apart
<1>5. Answered(k)'
  BY <1>1 DEF Answered
<1>6. Ahead(k)'
  <2>1. pc' = "rscan" => \A b \in Old(k) : Before(pos, b)
    <3>1. \A b \in Old(k) : b[1] \in Nat /\ b[2] \in Nat /\ b[1] >= 1 /\ b[2] >= 1
      BY CapPositive DEF Old, Used, Addrs, Sectors
    <3>2. pc' = "rscan" => pos = <<1, 0>>
      BY <1>1 DEF Traces, Start
    <3> QED
      BY <3>1, <3>2 DEF Before
  <2> QED
    BY <1>1, <1>4, <2>1 DEF Ahead, Moving, Writes
<1>7. Open(k)'
  BY <1>1, <1>2, <1>4 DEF KeyInv, Open, Unfinish
<1> QED
  BY <1>4, <1>5, <1>6, <1>7 DEF KeyInv

\* The end of a set or a move.
LEMMA AfterKeeps ==
    ASSUME NEW k \in Keys, StoreInv, StoreInv', Traces, Traces', StoredIs(k), StoredIs(k)',
           KeyInv(k), After
    PROVE  KeyInv(k)' /\ Stored(k)' = Stored(k)
<1>1. pc = "after" /\ UNCHANGED <<sec, node, cache, gcReq, recov, preDel, pos>>
  BY DEF After, flash
<1>2. CASE Setting /\ (gcReq \/ gcFlag')
  <2>1. CallGc("idle") /\ UNCHANGED req
    BY <1>2 DEF After
  <2> QED
    BY <1>1, <1>2, <2>1, CallGcKeeps DEF Setting
<1>3. CASE ~(Setting /\ (gcReq \/ gcFlag'))
  <2>1. /\ mv' = NoMove /\ UNCHANGED gc
        /\ pc' = IF Setting THEN "idle" ELSE IF recov /\ gc.ret = "none" THEN "rscan" ELSE "gcnode"
    BY <1>3 DEF After, Unlock
  <2>2. ~recov => Rest(k) = {}
    BY <1>1 DEF KeyInv, One
  <2>3. /\ Live(k)' = Live(k) /\ Old(k)' = Old(k) /\ Used' = Used /\ \A b : At(b)' = At(b)
        /\ Rest(k) = Old(k) /\ Rest(k)' = Old(k)
        /\ Whole(k)' /\ One(k)' /\ Cached(k)' /\ Replaced(k)'
        /\ Stored(k)' = Stored(k)
    BY <1>1, <2>1, <2>2, Apart
  <2>4. Answered(k)'
    <3>1. Setting => gc.ret = "none"
      BY DEF Setting
    <3>2. gc.ret = "idle" => UNCHANGED req
      BY <3>1 DEF After
    <3> QED
      BY <2>1, <2>3, <3>2 DEF KeyInv, Answered
  <2>5. Ahead(k)'
    <3>1. mv.src \notin Live(k) \cup Old(k)
      <4>1. mv.src = None \/ At(mv.src).st = "deleted"
        BY <1>1 DEF Traces
      <4> QED
        BY <4>1, StoreAssumption DEF Live, Old, Used, Addrs, Sectors
    <3> QED
      BY <1>1, <2>1, <2>3, <3>1 DEF KeyInv, Ahead, Moving, Writes, Setting
  <2>6. Open(k)'
    BY <1>1, <2>1, <2>3 DEF KeyInv, Open, Unfinish
  <2> QED
    BY <2>3, <2>4, <2>5, <2>6 DEF KeyInv
<1> QED
  BY <1>2, <1>3

\* Steps of gc_collect that write no record.
LEMMA GcStepKeeps ==
    ASSUME NEW k \in Keys, StoreInv, StoreInv', Traces, Traces', StoredIs(k), StoredIs(k)',
           KeyInv(k), GcStart \/ GcFlagNext \/ GcSector \/ FormatSector
    PROVE  KeyInv(k)' /\ Stored(k)' = Stored(k)
<1>1. /\ pc \in {"gc", "gcflag", "gcsec", "format"} /\ pc \in Collecting
      /\ UNCHANGED <<node, cache, recov, pos>>
  BY DEF GcStart, GcFlagNext, GcSector, FormatSector, flash, ram, Collecting
<1>2. CASE GcReturn
  BY <1>1, <1>2, GcReturnKeeps
<1>3. CASE ~GcReturn
  <2>1. /\ UNCHANGED <<mv, req>> /\ gc'.ret = gc.ret
        /\ pc' \in {"gcflag", "gcsec", "gcnode"}
        /\ pc' = "gcnode" => gc'.slot = 0
    BY <1>3 DEF GcStart, GcFlagNext, GcSector, FormatSector, StoreInv, RamType, Collections
  <2>2. gc.ret # "none" /\ mv = NoMove /\ mv.key # k
    BY <1>1, StoreAssumption DEF StoreInv, Control, Collecting, Moving, Writes, NoMove
  <2>3. ~recov => Rest(k) = {}
    BY <1>1 DEF KeyInv, One
  <2>4. /\ Live(k)' = Live(k) /\ Old(k)' = Old(k) /\ Used' = Used /\ \A b : At(b)' = At(b)
        /\ Rest(k) = Old(k) /\ Rest(k)' = Old(k)
        /\ Whole(k)' /\ One(k)' /\ Cached(k)' /\ Replaced(k)'
        /\ Stored(k)' = Stored(k)
    BY <1>1, <2>1, <2>2, <2>3, Apart
  <2>5. Answered(k)'
    BY <2>1, <2>4 DEF KeyInv, Answered
  <2>6. Ahead(k)'
    <3>1. \A a \in Live(k) \cup Old(k) : a[2] > 0
      BY CapPositive DEF Live, Old, Used, Addrs, Sectors
    <3> QED
      BY <2>1, <2>2, <2>4, <3>1 DEF Ahead, Moving, Writes
  <2>7. Open(k)'
    BY <1>1, <2>1, <2>2, <2>4 DEF KeyInv, Open, Unfinish
  <2> QED
    BY <2>4, <2>5, <2>6, <2>7 DEF KeyInv
<1> QED
  BY <1>2, <1>3

\* A sector that holds nothing of the key is erased.
LEMMA EraseSectorKeeps ==
    ASSUME NEW k \in Keys, StoreInv, StoreInv', Traces, Traces', StoredIs(k), StoredIs(k)',
           KeyInv(k), EraseSector
    PROVE  KeyInv(k)' /\ Stored(k)' = Stored(k)
<1>1. /\ pc = "erase" /\ pc' = "format" /\ UNCHANGED <<ram, req, mv, gc, pos>>
      /\ node' = [node EXCEPT ![gc.at] = <<>>]
  BY DEF EraseSector
<1>2. UNCHANGED <<cache, gcReq, recov>>
  BY <1>1 DEF ram
<1>3. gc.at \in Sectors /\ gc.ret # "none" /\ mv = NoMove /\ mv.key # k
  BY <1>1, StoreAssumption
  DEF StoreInv, Collected, Control, Collecting, Moving, Writes, NoMove
<1>4. \A s \in Sectors : node'[s] = IF s = gc.at THEN <<>> ELSE node[s]
  BY <1>1, <1>3 DEF StoreInv, FlashType
<1>5. \A b : (b \in Used)' <=> b \in Used /\ b[1] # gc.at
  <2>1. Len(<<>>) = 0
    BY EmptySeq
  <2>2. \A b \in Addrs : b[1] \in Sectors /\ b[2] \in Nat /\ b[2] >= 1
    BY CapPositive DEF Addrs, Sectors
  <2> QED
    BY <1>4, <2>1, <2>2 DEF Used
<1>6. \A b \in Used : b[1] # gc.at => At(b)' = At(b)
  BY <1>4 DEF Used, Addrs, At
<1>7. \A a \in Live(k) \cup Old(k) : a[1] # gc.at
  BY <1>1 DEF KeyInv, Ahead
<1>8. /\ Live(k)' = Live(k) /\ Old(k)' = Old(k)
      /\ \A b \in Live(k) \cup Old(k) : At(b)' = At(b)
  <2>1. \A b : (b \in Live(k))' <=> b \in Live(k)
    BY <1>5, <1>6, <1>7 DEF Live
  <2>2. \A b : (b \in Old(k))' <=> b \in Old(k)
    BY <1>5, <1>6, <1>7 DEF Old
  <2> QED
    BY <1>6, <1>7, <2>1, <2>2 DEF Live, Old
<1>9. Rest(k) = Old(k) /\ Rest(k)' = Old(k) /\ mv.src \notin Old(k)
  BY <1>1, <1>3, <1>8, Other, OtherNext
<1>10. Stored(k)' = Stored(k)
  BY <1>1, <1>3, <1>8, SameValue DEF KeyInv
<1>11. Whole(k)'
  BY <1>5, <1>6 DEF KeyInv, Whole
<1>12. One(k)'
  BY <1>1, <1>2, <1>8, <1>9 DEF KeyInv, One
<1>13. Cached(k)'
  BY <1>1, <1>2, <1>3, <1>8 DEF KeyInv, Cached
<1>14. Replaced(k)'
  BY <1>1, <1>3 DEF Replaced
<1>15. Answered(k)'
  BY <1>1, <1>10 DEF KeyInv, Answered
<1>16. Ahead(k)'
  BY <1>1, <1>3 DEF Ahead, Moving, Writes
<1>17. Open(k)'
  BY <1>1, <1>2, <1>5, <1>6, <1>8, <1>9 DEF KeyInv, Open, Unfinish
<1> QED
  BY <1>10, <1>11, <1>12, <1>13, <1>14, <1>15, <1>16, <1>17 DEF KeyInv

\* The boot finds the sectors' headers, and interrupted collections.
LEMMA LoadKeeps ==
    ASSUME NEW k \in Keys, StoreInv, StoreInv', Traces, Traces', StoredIs(k), StoredIs(k)',
           KeyInv(k), LoadHeaders \/ LoadGc
    PROVE  KeyInv(k)' /\ Stored(k)' = Stored(k)
<1>1. /\ pc \in {"down", "rgc"} /\ UNCHANGED <<node, cache, req>> /\ recov'
      /\ mv = NoMove /\ gc.ret = "none" /\ mv.key # k /\ (recov \/ pc = "down")
  BY StoreAssumption
  DEF LoadHeaders, LoadGc, flash, StoreInv, Control, Loading, Resting, Moving, Writes, NoMove
<1>2. CASE pc' = "gc"
  <2>1. CallGc("rgc") /\ pc = "rgc" /\ UNCHANGED recov
    BY <1>2 DEF LoadHeaders, LoadGc
  <2> QED
    BY <1>1, <2>1, CallGcKeeps
<1>3. CASE pc' # "gc"
  <2>1. /\ UNCHANGED <<gc, mv>> /\ pc' \in {"rgc", "rscan"}
        /\ pc' = "rscan" => pos' = <<1, 0>>
    BY <1>3 DEF LoadHeaders, LoadGc, CallGc, Start
  <2>2. /\ Live(k)' = Live(k) /\ Old(k)' = Old(k) /\ Used' = Used /\ \A b : At(b)' = At(b)
        /\ Rest(k) = Old(k) /\ Rest(k)' = Old(k)
        /\ Whole(k)' /\ One(k)' /\ Cached(k)' /\ Replaced(k)'
        /\ Stored(k)' = Stored(k)
    BY <1>1, <2>1, Apart
  <2>3. Answered(k)'
    BY <1>1, <2>1 DEF Answered
  <2>4. Ahead(k)'
    <3>1. \A b \in Old(k) : b[1] \in Nat /\ b[2] \in Nat /\ b[1] >= 1 /\ b[2] >= 1
      BY CapPositive DEF Old, Used, Addrs, Sectors
    <3> QED
      BY <1>1, <2>1, <2>2, <3>1 DEF Ahead, Before, Moving, Writes
  <2>5. Open(k)'
    BY <1>1, <2>1, <2>2 DEF KeyInv, Open, Unfinish
  <2> QED
    BY <2>2, <2>3, <2>4, <2>5 DEF KeyInv
<1> QED
  BY <1>2, <1>3

\* The recovery ends with nothing left over.
LEMMA LoadEndKeeps ==
    ASSUME NEW k \in Keys, StoreInv, StoreInv', Traces, Traces', StoredIs(k), StoredIs(k)',
           KeyInv(k), LoadEnd
    PROVE  KeyInv(k)' /\ Stored(k)' = Stored(k)
<1>1. /\ pc = "rstop" /\ UNCHANGED <<node, req, gcReq>> /\ recov
      /\ mv = NoMove /\ gc.ret = "none" /\ mv.key # k
  BY StoreAssumption
  DEF LoadEnd, flash, StoreInv, Control, Loading, Moving, Writes, NoMove
<1>2. CASE gcReq
  BY <1>1, <1>2, CallGcKeeps DEF LoadEnd
<1>3. CASE ~gcReq
  <2>1. /\ pc' = "idle" /\ recov' = FALSE /\ UNCHANGED <<gc, mv>>
        /\ cache' = [c \in Keys |-> IF Having(c, "write") = {} THEN None
                                    ELSE Last(Having(c, "write"))]
    BY <1>3 DEF LoadEnd
  <2>2. Old(k) = {} /\ Rest(k) = {}
    BY <1>1, <1>3 DEF KeyInv, Ahead, Rest
  <2>3. cache'[k] \in {None} \cup Live(k)
    <3>1. Live(k) # {} => Last(Live(k)) \in Live(k)
      BY LastIn DEF Live, Used
    <3> QED
      BY <2>1, <3>1, HavingIs
  <2>4. /\ Live(k)' = Live(k) /\ Old(k)' = Old(k) /\ Used' = Used /\ \A b : At(b)' = At(b)
        /\ Rest(k) = Old(k) /\ Rest(k)' = Old(k)
        /\ Whole(k)' /\ One(k)' /\ Cached(k)' /\ Replaced(k)'
        /\ Stored(k)' = Stored(k)
    BY <1>1, <2>1, <2>2, <2>3, Apart
  <2>5. Answered(k)' /\ Ahead(k)' /\ Open(k)'
    BY <1>1, <2>1 DEF Answered, Ahead, Open, Moving, Writes
  <2> QED
    BY <2>4, <2>5 DEF KeyInv
<1> QED
  BY <1>2, <1>3

\* ef_set_env_blob takes the lock.
LEMMA SetReqKeeps ==
    ASSUME NEW k \in Keys, StoreInv, StoreInv', Traces, Traces', StoredIs(k), StoredIs(k)',
           KeyInv(k), NEW c, NEW v, SetReq(c, v)
    PROVE  KeyInv(k)' /\ Stored(k)' = Stored(k)
<1>1. /\ pc = "idle" /\ pc' = "alloc" /\ UNCHANGED <<node, cache, recov, gc, mv, pos>>
  BY DEF SetReq, flash, ram
<1>2. mv = NoMove /\ gc.ret = "none" /\ mv.key # k /\ ~recov
  BY <1>1, StoreAssumption DEF StoreInv, Control, Resting, Moving, Writes, NoMove
<1>3. Rest(k) = {}
  BY <1>1, <1>2 DEF KeyInv, One
<1>4. /\ Live(k)' = Live(k) /\ Old(k)' = Old(k) /\ Used' = Used /\ \A b : At(b)' = At(b)
      /\ Rest(k) = Old(k) /\ Rest(k)' = Old(k)
      /\ Whole(k)' /\ One(k)' /\ Cached(k)' /\ Replaced(k)'
      /\ Stored(k)' = Stored(k)
  BY <1>1, <1>2, <1>3, Apart
<1>5. Answered(k)' /\ Ahead(k)' /\ Open(k)'
  BY <1>1, <1>2 DEF Answered, Ahead, Open, Moving, Writes
<1> QED
  BY <1>4, <1>5 DEF KeyInv

\* What is found for a key is its record that counts.
LEMMA FindsLive ==
    ASSUME NEW k \in Keys, StoreInv, cache[k] \in {None} \cup Live(k), NEW a \in Finds(k)
    PROVE  (a = None /\ Live(k) = {}) \/ a \in Live(k)
<1>1. Having(k, "write") = Live(k)
  BY HavingIs
<1>2. Live(k) # {} => First(Live(k)) \in Live(k)
  BY FirstIn DEF Live, Used
<1> QED
  BY <1>1, <1>2 DEF Finds, FirstLive, CacheHit

\* new_env and find_env.
LEMMA SetAllocKeeps ==
    ASSUME NEW k \in Keys, StoreInv, StoreInv', Traces, Traces', StoredIs(k), StoredIs(k)',
           KeyInv(k), SetAlloc
    PROVE  KeyInv(k)' /\ Stored(k)' = Stored(k)
<1>1. /\ pc \in {"alloc", "again"} /\ UNCHANGED <<sec, node, recov, req, pos>>
      /\ mv = NoMove /\ gc.ret = "none" /\ ~recov /\ mv.key # k /\ req.key \in Keys
  BY StoreAssumption
  DEF SetAlloc, flash, StoreInv, Control, RamType, Resting, Moving, Writes, NoMove
<1>2. /\ Live(k)' = Live(k) /\ Old(k)' = Old(k) /\ Used' = Used /\ Whole(k)'
      /\ \A b : At(b)' = At(b)
  BY <1>1, SameRecords DEF KeyInv
<1>3. Rest(k) = {} /\ Old(k) = {} /\ cache[k] \in {None} \cup Live(k)
  BY <1>1, Other DEF KeyInv, One, Cached
<1>4. Rest(k)' = {}
  BY <1>2, <1>3 DEF Rest
<1>5. CASE Alloc # 0
  <2>1. PICK a \in Finds(req.key) :
           /\ mv' = [key |-> req.key, val |-> req.val, src |-> a, dst |-> Alloc, crc |-> TRUE]
           /\ pc' = IF a = None THEN "secst" ELSE "predel"
           /\ cache' = [cache EXCEPT ![req.key] = a]
           /\ UNCHANGED <<gcReq, gc>>
    BY <1>5 DEF SetAlloc
  <2>2. mv'.key = req.key /\ mv'.src = a
    BY <2>1
  <2>3. req.key = k => (a = None /\ Live(k) = {}) \/ a \in Live(k)
    BY <1>3, FindsLive
  <2>4. cache'[k] = IF req.key = k THEN a ELSE cache[k]
    BY <1>1, <2>1 DEF StoreInv, RamType
  <2>5. Stored(k)' = Stored(k)
    <3>1. CASE req.key = k
      BY <1>2, <1>3, <2>2, <2>3, <3>1, SameValue DEF KeyInv, StoredIs
    <3>2. CASE req.key # k
      BY <1>1, <1>2, <2>2, <3>2, SameValue DEF KeyInv
    <3> QED
      BY <3>1, <3>2
  <2>6. One(k)'
    BY <1>2, <1>4 DEF KeyInv, One
  <2>7. Cached(k)'
    BY <1>2, <1>3, <2>1, <2>3, <2>4 DEF Cached
  <2>8. Replaced(k)'
    <3>1. None \notin Live(k)
      BY StoreAssumption DEF Live, Used, Addrs, Sectors
    <3>2. CASE req.key = k /\ a = None
      BY <1>2, <2>1, <2>2, <2>3, <3>1, <3>2 DEF Replaced, Writes
    <3>3. CASE req.key = k /\ a # None
      BY <1>2, <2>1, <2>2, <2>3, <3>3 DEF Replaced, Writes
    <3>4. CASE req.key # k
      BY <2>2, <3>4 DEF Replaced
    <3> QED
      BY <3>2, <3>3, <3>4
  <2>9. Answered(k)' /\ Ahead(k)' /\ Open(k)'
    BY <1>1, <2>1 DEF Answered, Ahead, Open, Moving, Writes
  <2> QED
    BY <1>2, <2>5, <2>6, <2>7, <2>8, <2>9 DEF KeyInv
<1>6. CASE Alloc = 0 /\ gcReq'
  <2>1. CallGc("again") /\ UNCHANGED cache
    BY <1>6 DEF SetAlloc
  <2> QED
    BY <1>1, <2>1, CallGcKeeps
<1>7. CASE Alloc = 0 /\ ~gcReq'
  <2>1. pc' = "full" /\ UNCHANGED <<mv, gc, cache>>
    BY <1>7 DEF SetAlloc
  <2>2. /\ One(k)' /\ Cached(k)' /\ Replaced(k)' /\ Stored(k)' = Stored(k)
    BY <1>1, <1>3, <2>1, Apart
  <2>3. Answered(k)' /\ Ahead(k)' /\ Open(k)'
    BY <1>1, <2>1 DEF Answered, Ahead, Open, Moving, Writes
  <2> QED
    BY <1>2, <2>2, <2>3 DEF KeyInv
<1> QED
  BY <1>5, <1>6, <1>7

-----------------------------------------------------------------------------
(* Steps that take up a record, or leave it. *)

\* do_gc comes to its next record, or is through with the sector.
LEMMA GcNodeKeeps ==
    ASSUME NEW k \in Keys, StoreInv, StoreInv', Traces, Traces', StoredIs(k), StoredIs(k)',
           KeyInv(k), GcNode
    PROVE  KeyInv(k)' /\ Stored(k)' = Stored(k)
<1> DEFINE todo == {a \in Visited : /\ a[1] = gc.at /\ a[2] > gc.slot
                                    /\ At(a).data = "all"
                                    /\ At(a).st \in {"write", "predelete"}}
<1>1. /\ pc = "gcnode" /\ UNCHANGED <<node, cache, recov, gcReq, req, pos>>
      /\ mv = NoMove /\ gc.ret # "none" /\ mv.key # k
  BY StoreAssumption
  DEF GcNode, flash, ram, StoreInv, Control, Collecting, Moving, Writes, NoMove
<1>2. /\ Live(k)' = Live(k) /\ Old(k)' = Old(k) /\ Used' = Used /\ Whole(k)'
      /\ \A b : At(b)' = At(b)
  BY <1>1, SameRecords DEF KeyInv
<1>3. /\ Rest(k) = Old(k) /\ cache[k] \in {None} \cup Live(k)
      /\ ~recov => Old(k) = {}
  BY <1>1, Other DEF KeyInv, One, Cached
<1>4. \A b \in Live(k) \cup Old(k) : b[1] = gc.at => b \in todo /\ b[2] > gc.slot
  <2>1. \A b \in Live(k) \cup Old(k) : b \in Visited
    BY VisitedIs DEF StoreInv, Live, Old
  <2>2. \A b \in Live(k) \cup Old(k) : b[1] = gc.at => b[2] > gc.slot \/ b = mv.src
    BY <1>1 DEF KeyInv, Ahead
  <2>3. mv.src \notin Live(k) \cup Old(k)
    BY <1>1, Other
  <2> QED
    BY <2>1, <2>2, <2>3 DEF Live, Old
<1>5. CASE todo = {}
  <2>1. pc' = "erase" /\ UNCHANGED <<mv, gc>>
    BY <1>5 DEF GcNode
  <2>2. /\ One(k)' /\ Cached(k)' /\ Replaced(k)' /\ Stored(k)' = Stored(k) /\ Rest(k)' = Old(k)
    BY <1>1, <1>3, <2>1, Apart
  <2>3. Answered(k)'
    BY <1>1, <2>1, <2>2 DEF KeyInv, Answered
  <2>4. Ahead(k)'
    BY <1>1, <1>2, <1>4, <1>5, <2>1 DEF Ahead, Moving, Writes
  <2>5. Open(k)'
    BY <1>1, <1>2, <1>3, <2>1, <2>2 DEF KeyInv, Open, Unfinish
  <2> QED
    BY <1>2, <2>2, <2>3, <2>4, <2>5 DEF KeyInv
<1>6. CASE todo # {}
  <2>1. PICK a : a = First(todo)
    OBVIOUS
  <2>2. Move(a) /\ gc' = [gc EXCEPT !.slot = a[2]]
        /\ pc' = IF At(a).st = "write" THEN "predel" ELSE "malloc"
    BY <1>6, <2>1 DEF GcNode
  <2>3. todo \subseteq Used
    BY VisitedIs DEF StoreInv
  <2>4. /\ a \in todo /\ a \in Used /\ \A b \in todo : b = a \/ Before(a, b)
        /\ a[1] = gc.at /\ At(a).data = "all" /\ At(a).st \in {"write", "predelete"}
    BY <1>6, <2>1, <2>3, FirstIn DEF Used
  <2>5. gc'.ret = gc.ret /\ gc'.at = gc.at /\ gc'.slot = a[2]
    BY <2>2 DEF StoreInv, RamType, Collections
  <2>6. mv'.key = At(a).key /\ mv'.src = a
    BY <2>2 DEF Move
  <2>7. a \in Live(k) \cup Old(k) <=> mv'.key = k
    BY <2>4, <2>6 DEF Live, Old
  <2>8. \A b \in Live(k) \cup Old(k) : b[1] = gc.at => b = a \/ b[2] > a[2]
    <3>1. \A b \in Used : b[1] \in Nat
      BY CapPositive DEF Used, Addrs, Sectors
    <3> QED
      BY <1>4, <2>4, <3>1 DEF Before, Live, Old
  <2> HIDE DEF todo
  <2>9. Rest(k)' = Rest(k) \ {a}
    BY <1>2, <1>3, <2>6 DEF Rest
  <2>10. Stored(k)' = Stored(k)
    <3>1. CASE mv'.key # k
      BY <1>1, <1>2, <3>1, SameValue DEF KeyInv
    <3>2. CASE Live(k) # {}
      BY <1>2, <3>2, SameValue DEF KeyInv
    <3>3. CASE mv'.key = k /\ Live(k) = {}
      <4>1. a \in Old(k) /\ \A x, y \in Old(k) : x = y
        BY <1>3, <2>7, <3>3 DEF KeyInv, One
      <4>2. Stored(k) = At(a).val
        BY <1>1, <3>3, <4>1 DEF StoredIs
      <4>3. a # None
        BY <4>1, StoreAssumption DEF Old, Used, Addrs, Sectors
      <4>4. Stored(k)' = At(a)'.val
        BY <1>2, <2>6, <3>3, <4>1, <4>3 DEF StoredIs
      <4> QED
        BY <1>2, <4>2, <4>4
    <3> QED
      BY <3>1, <3>2, <3>3
  <2>11. One(k)'
    BY <1>1, <1>2, <1>3, <2>5, <2>9 DEF KeyInv, One
  <2>12. Cached(k)'
    BY <1>1, <1>2, <1>3, <2>2 DEF Cached
  <2>13. Replaced(k)'
    <3>1. mv'.key = k /\ pc' = "malloc" => a \in Old(k) /\ recov
      BY <1>3, <2>2, <2>4, <2>7 DEF Live
    <3>2. mv'.key = k /\ pc' = "predel" => a \in Live(k)
      BY <2>2, <2>7 DEF Old
    <3> QED
      BY <1>1, <1>2, <2>2, <2>6, <3>1, <3>2 DEF Replaced, Writes
  <2>14. Answered(k)'
    BY <1>1, <2>2, <2>5, <2>10 DEF KeyInv, Answered
  <2>15. Ahead(k)'
    BY <1>1, <1>2, <2>2, <2>5, <2>6, <2>8 DEF Ahead, Moving, Writes
  <2>16. Open(k)'
    BY <1>1, <1>2, <2>2, <2>5, <2>9 DEF KeyInv, Open, Unfinish
  <2> QED
    BY <1>2, <2>10, <2>11, <2>12, <2>13, <2>14, <2>15, <2>16 DEF KeyInv
<1> QED
  BY <1>5, <1>6

\* alloc_env, called by move_env.
LEMMA MoveAllocKeeps ==
    ASSUME NEW k \in Keys, StoreInv, StoreInv', Traces, Traces', StoredIs(k), StoredIs(k)',
           KeyInv(k), HasRoom, MoveAlloc
    PROVE  KeyInv(k)' /\ Stored(k)' = Stored(k)
<1>1. /\ pc = "malloc" /\ UNCHANGED <<sec, node, cache, recov, req, gc, pos>>
      /\ mv.src # None /\ pc \in Moving /\ mv.key \in Keys /\ ~Setting
  BY DEF MoveAlloc, flash, StoreInv, AtHand, Moving, Control, RamType
<1>2. /\ Live(k)' = Live(k) /\ Old(k)' = Old(k) /\ Used' = Used /\ Whole(k)'
      /\ \A b : At(b)' = At(b)
  BY <1>1, SameRecords DEF KeyInv
<1>3. CASE Alloc # 0
  <2>1. \/ pc' = "del" /\ mv' = mv /\ recov /\ FirstLive(mv.key) # None
        \/ pc' = "secst" /\ mv' = [mv EXCEPT !.dst = Alloc] /\ ~(recov /\ FirstLive(mv.key) # None)
    BY <1>3 DEF MoveAlloc
  <2>2. mv'.key = mv.key /\ mv'.src = mv.src
    BY <2>1 DEF StoreInv, RamType
  <2>3. FirstLive(k) = None <=> Live(k) = {}
    <3>1. Having(k, "write") = Live(k)
      BY HavingIs
    <3>2. Live(k) # {} => First(Live(k)) \in Live(k)
      BY FirstIn DEF Live, Used
    <3>3. None \notin Live(k)
      BY StoreAssumption DEF Live, Used, Addrs, Sectors
    <3> QED
      BY <3>1, <3>2, <3>3 DEF FirstLive
  <2>4. mv.key = k => mv.src \in Old(k) /\ (~recov => Live(k) = {})
    BY <1>1 DEF KeyInv, Replaced
  <2>5. Rest(k)' = Rest(k)
    BY <1>2, <2>2 DEF Rest
  <2>6. Stored(k)' = Stored(k)
    BY <1>2, <2>2, <2>4, SameValue DEF KeyInv
  <2>7. One(k)'
    BY <1>1, <1>2, <2>1, <2>2, <2>5 DEF KeyInv, One
  <2>8. Cached(k)'
    <3>1. pc' = "del" /\ mv.key = k => Live(k) # {}
      BY <2>1, <2>3 DEF StoreInv, RamType
    <3> QED
      BY <1>1, <1>2, <2>1, <2>2, <3>1 DEF KeyInv, Cached, Making
  <2>9. Replaced(k)'
    BY <1>1, <1>2, <2>1, <2>2, <2>3, <2>4 DEF Replaced, Writes
  <2>10. Answered(k)'
    BY <1>1, <2>1, <2>6 DEF KeyInv, Answered, Setting
  <2>11. Ahead(k)'
    BY <1>1, <1>2, <2>1, <2>2, <2>5 DEF KeyInv, Ahead, Moving, Writes
  <2>12. Open(k)'
    BY <1>1, <1>2, <2>1, <2>5 DEF KeyInv, Open, Unfinish
  <2> QED
    BY <1>2, <2>6, <2>7, <2>8, <2>9, <2>10, <2>11, <2>12 DEF KeyInv
<1>4. CASE Alloc = 0
  <2>1. gc.ret = "none" /\ recov /\ gcReq' /\ pc' = "rstop" /\ mv' = NoMove
    BY <1>1, <1>4 DEF HasRoom, MoveAlloc, AllocAsksGc, Setting
  <2>2. mv'.key # k /\ mv'.src = None /\ None \notin Used
    BY <2>1, StoreAssumption DEF NoMove, Used, Addrs, Sectors
  <2>3. mv.key = k => mv.src \in Old(k) /\ Rest(k) = {}
    BY <1>1, <2>1 DEF KeyInv, Replaced, One
  <2>4. mv.key # k => Rest(k) = Old(k)
    BY Other
  <2>5. Rest(k)' = Old(k)
    BY <1>2, <2>2 DEF Rest, Old
  <2>6. \A b, c \in Old(k) : b = c
    <3>1. CASE mv.key = k
      BY <2>3, <3>1 DEF Rest
    <3>2. CASE mv.key # k
      BY <2>4, <3>2 DEF KeyInv, One
    <3> QED
      BY <3>1, <3>2
  <2>7. Stored(k)' = Stored(k)
    <3>1. CASE mv.key # k \/ Live(k) # {}
      BY <1>2, <2>2, <3>1, SameValue DEF KeyInv
    <3>2. CASE mv.key = k /\ Live(k) = {}
      <4>1. PICK c : c = mv.src
        OBVIOUS
      <4>2. Stored(k) = At(c).val
        BY <1>1, <2>3, <3>2, <4>1 DEF StoredIs
      <4>3. Stored(k)' = At(c)'.val
        BY <1>2, <2>2, <2>3, <2>6, <3>2, <4>1 DEF StoredIs
      <4> QED
        BY <1>2, <4>2, <4>3
    <3> QED
      BY <3>1, <3>2
  <2>8. One(k)'
    BY <1>1, <1>2, <2>1, <2>2, <2>5, <2>6 DEF KeyInv, One, Old
  <2>9. Cached(k)'
    <3>1. cache[k] \in {None} \cup Live(k)
      BY <1>1, <2>1 DEF KeyInv, Cached
    <3> QED
      BY <1>1, <1>2, <2>1, <2>2, <3>1 DEF Cached
  <2>10. Replaced(k)'
    BY <2>2 DEF Replaced
  <2>11. Answered(k)'
    BY <1>1, <2>1 DEF Answered
  <2>12. Ahead(k)'
    BY <1>1, <2>1 DEF Ahead, Moving, Writes
  <2>13. Open(k)'
    BY <1>1, <1>2, <2>1 DEF KeyInv, Open, Unfinish
  <2> QED
    BY <1>2, <2>7, <2>8, <2>9, <2>10, <2>11, <2>12, <2>13 DEF KeyInv
<1> QED
  BY <1>3, <1>4

\* check_and_recovery_env_cb: no record of the key left, a record to be moved,
\* or an unfinished one.
LEMMA LoadScanKeeps ==
    ASSUME NEW k \in Keys, StoreInv, StoreInv', Traces, Traces', StoredIs(k), StoredIs(k)',
           KeyInv(k), LoadScan
    PROVE  KeyInv(k)' /\ Stored(k)' = Stored(k)
<1> DEFINE todo == {a \in Visited : Before(pos, a) /\ Unfinished(At(a))}
<1>1. /\ pc = "rscan" /\ UNCHANGED <<sec, cache, recov, gcReq, req, gc>>
      /\ mv = NoMove /\ gc.ret = "none" /\ recov /\ mv.key # k
  BY StoreAssumption
  DEF LoadScan, flash, ram, StoreInv, Control, Loading, Moving, Writes, NoMove
<1>2. Rest(k) = Old(k) /\ cache[k] \in {None} \cup Live(k)
  BY <1>1, Other DEF KeyInv, Cached
<1>3. \A b \in Old(k) : b \in todo
  <2>1. \A b \in Old(k) : Before(pos, b)
    BY <1>1, <1>2 DEF KeyInv, Ahead, Moving
  <2>2. \A b \in Old(k) : b \in Visited
    BY VisitedIs DEF StoreInv, Old
  <2> QED
    BY <2>1, <2>2 DEF Old, Unfinished
<1>4. \A b, c \in Old(k) : b = c
  BY <1>2 DEF KeyInv, One
<1>5. ASSUME pc' = "rstop", UNCHANGED mv, Old(k) = {},
             Live(k)' = Live(k), Old(k)' = {}, Whole(k)',
             \A b \in Live(k) : At(b)' = At(b)
      PROVE  KeyInv(k)' /\ Stored(k)' = Stored(k)
  <2>1. Stored(k)' = Stored(k)
    BY <1>1, <1>5, SameValue DEF KeyInv
  <2>2. One(k)' /\ Cached(k)' /\ Replaced(k)'
    BY <1>1, <1>2, <1>5 DEF KeyInv, One, Rest, Cached, Replaced
  <2>3. Answered(k)' /\ Ahead(k)' /\ Open(k)'
    BY <1>1, <1>5 DEF Answered, Ahead, Open, Moving, Writes
  <2> QED
    BY <1>5, <2>1, <2>2, <2>3 DEF KeyInv
<1>6. CASE todo = {}
  <2>1. pc' = "rstop" /\ UNCHANGED <<node, mv>>
    BY <1>6 DEF LoadScan
  <2>2. /\ Live(k)' = Live(k) /\ Old(k)' = Old(k) /\ Whole(k)' /\ \A b : At(b)' = At(b)
    BY <2>1, SameRecords DEF KeyInv
  <2> QED
    BY <1>3, <1>5, <1>6, <2>1, <2>2
<1>7. CASE todo # {}
  <2>1. PICK a : a = First(todo)
    OBVIOUS
  <2>2. \/ Move(a) /\ pc' = "malloc" /\ UNCHANGED node /\ At(a).st = "predelete" /\ pos' = a
        \/ Write(a, Junk) /\ pc' = "rstop" /\ UNCHANGED mv /\ At(a).st = "prewrite"
    BY <1>7, <2>1 DEF LoadScan
  <2>3. todo \subseteq Used
    BY VisitedIs DEF StoreInv
  <2>4. a \in todo /\ a \in Used /\ \A b \in todo : b = a \/ Before(a, b)
    BY <1>7, <2>1, <2>3, FirstIn DEF Used
  <2>5. At(a).data # "none" /\ At(a) \in Records
    BY <2>4, UsedIn, VisitedIs DEF StoreInv
  <2> HIDE DEF todo
  <2>6. CASE Write(a, Junk) /\ pc' = "rstop" /\ UNCHANGED mv /\ At(a).st = "prewrite"
    <3>1. ~Unfinish(a)
      BY <1>1 DEF Unfinish
    <3>2. Old(k) = {}
      <4>1. \A b \in Old(k) : ~Before(a, b)
        BY <1>1, <2>4, <2>5, <2>6, <3>1 DEF KeyInv, Open
      <4>2. \A b \in Old(k) : b # a
        BY <2>6 DEF Old
      <4> QED
        BY <1>3, <2>4, <4>1, <4>2
    <3>3. Junk \in Records /\ Junk.st = "deleted"
      BY DEF Junk, Records, Statuses
    <3>4. Used' = Used /\ At(a)' = Junk /\ \A b \in Used : b # a => At(b)' = At(b)
      BY <2>4, <2>6, <3>3, WriteEffect DEF StoreInv
    <3>5. /\ Live(k)' = Live(k) /\ Old(k)' = Old(k) /\ Whole(k)'
          /\ \A b \in Live(k) \cup Old(k) : At(b)' = At(b)
      BY <2>6, <3>3, <3>4, Unseen DEF KeyInv
    <3> QED
      BY <1>5, <2>6, <3>2, <3>5
  <2>7. CASE Move(a) /\ pc' = "malloc" /\ UNCHANGED node /\ At(a).st = "predelete" /\ pos' = a
    <3>1. mv'.key = At(a).key /\ mv'.src = a
      BY <2>7 DEF Move
    <3>2. /\ Live(k)' = Live(k) /\ Old(k)' = Old(k) /\ Used' = Used /\ Whole(k)'
          /\ \A b : At(b)' = At(b)
      BY <2>7, SameRecords DEF KeyInv
    <3>3. mv'.key = k <=> a \in Old(k)
      BY <2>4, <2>7, <3>1 DEF KeyInv, Whole, Old
    <3>4. Rest(k)' = Old(k) \ {a}
      BY <3>1, <3>2 DEF Rest
    <3>5. Stored(k)' = Stored(k)
      <4>1. CASE mv'.key # k \/ Live(k) # {}
        BY <1>1, <3>2, <4>1, SameValue DEF KeyInv
      <4>2. CASE mv'.key = k /\ Live(k) = {}
        <5>1. Stored(k) = At(a).val
          BY <1>1, <1>4, <3>3, <4>2 DEF StoredIs
        <5>2. a # None
          BY <2>4, StoreAssumption DEF Used, Addrs, Sectors
        <5>3. Stored(k)' = At(a)'.val
          BY <3>1, <3>2, <3>3, <4>2, <5>2 DEF StoredIs
        <5> QED
          BY <3>2, <5>1, <5>3
      <4> QED
        BY <4>1, <4>2
    <3>6. One(k)'
      BY <1>1, <1>4, <3>1, <3>2, <3>4 DEF KeyInv, One
    <3>7. Cached(k)'
      BY <1>1, <1>2, <2>7, <3>2 DEF Cached
    <3>8. Replaced(k)'
      BY <1>1, <2>7, <3>1, <3>2, <3>3 DEF Replaced, Writes
    <3>9. Answered(k)'
      BY <1>1, <2>7 DEF Answered
    <3>10. Ahead(k)'
      <4>1. \A b \in Old(k) : b # a => Before(a, b)
        BY <1>3, <2>4
      <4> QED
        BY <1>1, <2>7, <3>4, <4>1 DEF Ahead
    <3>11. Open(k)'
      BY <1>1, <1>2, <2>7, <3>2 DEF KeyInv, Open, Unfinish
    <3> QED
      BY <3>2, <3>5, <3>6, <3>7, <3>8, <3>9, <3>10, <3>11 DEF KeyInv
  <2> QED
    BY <2>2, <2>6, <2>7
<1> QED
  BY <1>6, <1>7

\* A reset.
LEMMA StoreResetKeeps ==
    ASSUME NEW k \in Keys, StoreInv, StoreInv', Traces, Traces', StoredIs(k), StoredIs(k)',
           KeyInv(k), ~recov, StoreReset
    PROVE  (k \notin Endangered => KeyInv(k)') /\ Stored(k)' = Stored(k)
<1>1. /\ pc # "down" /\ pc' = "down" /\ mv' = NoMove /\ recov' = FALSE /\ req' = NoReq
      /\ gc'.ret = "none" /\ cache'[k] = None
      /\ node' = [s \in Sectors |-> [i \in DOMAIN node[s] |->
                     IF node[s][i].data = "none" THEN Junk ELSE node[s][i]]]
  BY DEF StoreReset, NoGc
<1>2. mv'.key # k /\ mv'.src = None /\ None \notin Used /\ req'.key # k
  BY <1>1, StoreAssumption DEF NoMove, NoReq, Used, Addrs, Sectors
<1>3. ASSUME NEW s \in Sectors
      PROVE  Len(node'[s]) = Len(node[s])
  <2>1. node[s] \in Seq(Records)
    BY DEF StoreInv, FlashType
  <2>2. Len(node[s]) \in Nat /\ DOMAIN node[s] = 1 .. Len(node[s])
    BY <2>1, LenProperties
  <2>3. DOMAIN node'[s] = 1 .. Len(node[s])
    BY <1>1, <2>2
  <2>4. node'[s] \in Seq(Records)
    BY DEF StoreInv, FlashType
  <2>5. Len(node'[s]) \in Nat /\ DOMAIN node'[s] = 1 .. Len(node'[s])
    BY <2>4, LenProperties
  <2> QED
    BY <2>2, <2>3, <2>5
<1>4. Used' = Used
  BY <1>3 DEF Used, Addrs
<1>5. \A b \in Used : At(b)' = IF At(b).data = "none" THEN Junk ELSE At(b)
  BY <1>1, UsedIn DEF StoreInv, At
<1>6. Junk.st = "deleted"
  BY DEF Junk
<1>7. /\ Live(k)' = Live(k) /\ Old(k)' = Old(k) /\ Whole(k)'
      /\ \A b \in Live(k) \cup Old(k) : At(b)' = At(b)
  <2>1. \A b : (b \in Live(k))' <=> b \in Live(k)
    BY <1>4, <1>5, <1>6 DEF Live
  <2>2. \A b : (b \in Old(k))' <=> b \in Old(k)
    BY <1>4, <1>5, <1>6 DEF Old
  <2>3. Whole(k)'
    BY <1>4, <1>5, <1>6 DEF KeyInv, Whole
  <2>4. \A b \in Live(k) \cup Old(k) : At(b)' = At(b)
    BY <1>5 DEF Live, Old
  <2> QED
    BY <2>1, <2>2, <2>3, <2>4
<1>8. Rest(k) = {}
  BY <1>1 DEF KeyInv, One
<1>9. Rest(k)' = Old(k) /\ \A b \in Old(k) : b = mv.src
  BY <1>2, <1>7, <1>8 DEF Rest, Old
<1>10. Stored(k)' = Stored(k)
  <2>1. CASE Live(k) # {} \/ mv.key # k
    BY <1>2, <1>7, <2>1, SameValue DEF KeyInv
  <2>2. CASE Live(k) = {} /\ Old(k) = {}
    BY <1>7, <2>2 DEF StoredIs
  <2>3. CASE Live(k) = {} /\ Old(k) # {} /\ mv.key = k
    <3>1. PICK c : c = mv.src
      OBVIOUS
    <3>2. c \in Old(k) /\ c # None
      BY <1>2, <1>9, <2>3, <3>1 DEF Old
    <3>3. Stored(k) = At(c).val
      BY <2>3, <3>1, <3>2 DEF StoredIs
    <3>4. Stored(k)' = At(c)'.val
      BY <1>2, <1>7, <1>9, <2>3, <3>1, <3>2 DEF StoredIs
    <3> QED
      BY <1>7, <3>2, <3>3, <3>4
  <2> QED
    BY <2>1, <2>2, <2>3
<1>11. One(k)'
  BY <1>1, <1>2, <1>7, <1>9 DEF KeyInv, One, Old
<1>12. Cached(k)' /\ Replaced(k)' /\ Answered(k)' /\ Ahead(k)'
  BY <1>1, <1>2 DEF Cached, Replaced, Answered, Ahead, Moving, Writes
<1>13. k \notin Endangered => Open(k)'
  <2> SUFFICES ASSUME k \notin Endangered PROVE Open(k)'
    OBVIOUS
  <2>1. ASSUME NEW a \in Used, NEW b \in Old(k), At(a)'.st = "prewrite", At(a)'.data # "none",
               Before(a, b)
        PROVE  FALSE
    <3>1. At(a).st = "prewrite" /\ At(a).data # "none"
      BY <1>5, <1>6, <2>1
    <3>2. a \in Visited /\ b \in Visited
      BY <3>1, VisitedIs DEF StoreInv, Old
    <3> QED
      BY <2>1, <3>1, <3>2 DEF Endangered, Old
  <2> QED
    BY <1>1, <1>4, <1>7, <2>1 DEF Open
<1> QED
  BY <1>7, <1>10, <1>11, <1>12, <1>13 DEF KeyInv

-----------------------------------------------------------------------------
(* Every step keeps Traces. *)

LEMMA TracesStep ==
    ASSUME StoreInv, StoreInv', Traces, StoreStep
    PROVE  Traces'
<1>1. CASE SetAlloc
  <2>1. /\ pc' \in {"secst", "predel", "gc", "full"} /\ UNCHANGED <<recov, pos>>
        /\ pc \in {"alloc", "again"}
        /\ gc' = gc \/ gc'.ret = "again"
    BY <1>1, NoGcIn DEF SetAlloc, CallGc
  <2>2. ~recov /\ gc.ret = "none"
    BY <2>1 DEF StoreInv, Control, Resting, Loading
  <2> QED
    BY <2>1, <2>2 DEF Traces
<1>2. CASE PreDelete
  <2>1. pc = "predel" /\ pc' \in {"premark", "secst", "malloc"} /\ UNCHANGED <<recov, pos, gc>>
    BY <1>2 DEF PreDelete
  <2> QED
    BY <2>1 DEF Traces
<1>3. CASE DirtyMark
  <2>1. /\ pc \in {"premark", "postmark"} /\ UNCHANGED <<node, recov, mv, gc, pos>>
        /\ pc' \in {"after", "secst", "malloc"} /\ (pc' = "after" => pc = "postmark")
    BY <1>3 DEF DirtyMark, ram
  <2>2. Used' = Used /\ Dst' = Dst /\ \A b : At(b)' = At(b)
    BY <2>1 DEF Used, Dst, At
  <2> QED
    BY <2>1, <2>2 DEF Traces, Setting, Content
<1>4. CASE SectorStatus \/ PreWrite \/ WriteHead \/ WriteBody
  <2>1. pc' \in {"prewrite", "head", "body", "write"} /\ UNCHANGED <<recov, pos, gc>>
    BY <1>4 DEF SectorStatus, PreWrite, WriteHead, WriteBody, ram
  <2> QED
    BY <2>1 DEF Traces
<1>5. CASE WriteStatus
  <2>1. /\ pc = "write" /\ pc' \in {"after", "del"} /\ (pc' = "del" <=> mv.src # None)
        /\ UNCHANGED <<sec, recov, mv, gc, pos>>
        /\ Write(Dst, [At(Dst) EXCEPT !.st = "write"])
    BY <1>5 DEF WriteStatus, Status
  <2>2. PICK d, r : d = Dst /\ r = [st |-> "write", key |-> mv.key, val |-> mv.val, data |-> Content]
    OBVIOUS
  <2>3. d \in Used /\ d # mv.src /\ Used' = Used /\ Dst' = d /\ At(d)' = r
    BY <2>1, <2>2, DstEffect
  <2>4. mv.dst \in Sectors
    BY <2>1 DEF StoreInv, Target
  <2> QED
    BY <2>1, <2>2, <2>3, <2>4 DEF Traces, Content
<1>6. CASE Delete
  <2>1. PICK a, d : a = mv.src /\ d = Dst
    OBVIOUS
  <2>2. /\ a \in Used /\ At(a).key = mv.key /\ At(a)'.st = "deleted"
        /\ Used' = Used /\ \A b \in Used : b # a => At(b)' = At(b)
        /\ \A s \in Sectors : Len(node'[s]) = Len(node[s])
    BY <1>6, <2>1, DeleteEffect
  <2>3. /\ pc = "del" /\ pc' \in {"postmark", "after"} /\ UNCHANGED <<recov, mv, gc, pos>>
    BY <1>6 DEF Delete
  <2>4. Setting' => /\ mv.dst \in Sectors /\ d \in Used /\ d # a
                    /\ At(d) = [st |-> "write", key |-> mv.key, val |-> mv.val, data |-> Content]
                    /\ Dst' = d
    BY <2>1, <2>2, <2>3 DEF Traces, Setting, Dst
  <2>5. Setting' => At(Dst)' = At(d)
    BY <2>2, <2>4
  <2> QED
    BY <2>1, <2>2, <2>3, <2>4, <2>5 DEF Traces, Content
<1>7. CASE After
  <2>1. pc' \in {"gc", "idle", "rscan", "gcnode"} /\ UNCHANGED pos /\ (gc' = gc \/ gc'.ret = "idle")
    BY <1>7, NoGcIn DEF After, CallGc, Unlock
  <2> QED
    BY <2>1 DEF Traces
<1>8. CASE GcStart \/ GcFlagNext \/ GcSector \/ GcNode \/ EraseSector \/ FormatSector
  <2>1. UNCHANGED <<recov, pos>> /\ pc \in Collecting
    BY <1>8 DEF GcStart, GcFlagNext, GcSector, GcNode, EraseSector, FormatSector, ram, Collecting
  <2>2. gc.ret \in {"again", "idle", "rgc", "rscan"}
    BY <2>1 DEF StoreInv, Control, RamType, Collections
  <2>3. \/ GcReturn
        \/ gc'.ret = gc.ret /\ pc' \in Collecting \cup {"predel", "malloc"}
    BY <1>8 DEF GcStart, GcFlagNext, GcSector, GcNode, EraseSector, FormatSector, Collecting,
       StoreInv, RamType, Collections
  <2>4. CASE GcReturn
    <3>1. gc'.ret = "none" /\ pc' \in {"again", "idle", "rgc", "rscan"}
      BY <2>2, <2>4 DEF GcReturn, NoGc
    <3> QED
      BY <3>1 DEF Traces
  <2>5. CASE gc'.ret = gc.ret /\ pc' \in Collecting \cup {"predel", "malloc"}
    BY <2>1, <2>2, <2>5 DEF Traces, Collecting
  <2> QED
    BY <2>3, <2>4, <2>5
<1>9. CASE MoveAlloc
  <2>1. pc = "malloc" /\ pc' \in {"rstop", "gcnode", "del", "secst"} /\ UNCHANGED <<recov, gc, pos>>
    BY <1>9 DEF MoveAlloc
  <2>2. ~Setting'
    BY <2>1 DEF StoreInv, AtHand, Moving, Setting
  <2> QED
    BY <2>1, <2>2 DEF Traces
<1>10. CASE LoadHeaders \/ LoadGc \/ LoadScan \/ LoadEnd
  <2>1. /\ pc \in Loading \cup {"down"}
        /\ pc' \in {"rgc", "gc", "rscan", "malloc", "rstop", "idle"}
        /\ gc' = gc \/ gc'.ret = "rgc" \/ (gc'.ret = "rscan" /\ pos' = Start)
    BY <1>10, NoGcIn DEF LoadHeaders, LoadGc, LoadScan, LoadEnd, CallGc, Loading
  <2>2. gc.ret = "none"
    BY <2>1 DEF StoreInv, Control, Resting
  <2> QED
    BY <2>1, <2>2 DEF Traces
<1> QED
  BY <1>1, <1>2, <1>3, <1>4, <1>5, <1>6, <1>7, <1>8, <1>9, <1>10 DEF StoreStep

\* A reset, and a call of ef_set_env_blob, find nothing at hand.
LEMMA TracesCall ==
    ASSUME StoreInv, Traces, StoreReset \/ \E c, v : SetReq(c, v)
    PROVE  Traces'
<1>1. CASE StoreReset
  BY <1>1, NoGcIn DEF StoreReset, Traces
<1>2. CASE \E c, v : SetReq(c, v)
  <2>1. pc' = "alloc" /\ UNCHANGED <<gc, pos>>
    BY <1>2 DEF SetReq
  <2> QED
    BY <2>1 DEF Traces
<1> QED
  BY <1>1, <1>2

-----------------------------------------------------------------------------
(* Together. *)

\* Every step of the store but the status of a new record.
LEMMA StepKeeps ==
    ASSUME NEW k \in Keys, StoreInv, StoreInv', Traces, Traces', StoredIs(k), StoredIs(k)',
           KeyInv(k), HasRoom, StoreStep, ~WriteStatus
    PROVE  KeyInv(k)' /\ Stored(k)' = Stored(k)
<1>1. CASE SetAlloc \/ PreDelete \/ DirtyMark \/ SectorStatus \/ PreWrite
  BY <1>1, SetAllocKeeps, PreDeleteKeeps, DirtyMarkKeeps, SectorStatusKeeps, PreWriteKeeps
<1>2. CASE WriteHead \/ WriteBody \/ Delete \/ After
  BY <1>2, WriteHeadKeeps, WriteBodyKeeps, DeleteKeeps, AfterKeeps
<1>3. CASE GcStart \/ GcFlagNext \/ GcSector \/ FormatSector
  BY <1>3, GcStepKeeps
<1>4. CASE GcNode \/ MoveAlloc \/ EraseSector
  BY <1>4, GcNodeKeeps, MoveAllocKeeps, EraseSectorKeeps
<1>5. CASE LoadHeaders \/ LoadGc
  BY <1>5, LoadKeeps
<1>6. CASE LoadScan \/ LoadEnd
  BY <1>6, LoadScanKeeps, LoadEndKeeps
<1> QED
  BY <1>1, <1>2, <1>3, <1>4, <1>5, <1>6 DEF StoreStep

\* Of the state after the step.
LEMMA KeptPlain ==
    FlashType => \A k \in Keys : /\ Kept(k, "write") = {At(a) : a \in Live(k)}
                                 /\ Kept(k, "predelete") = {At(a) : a \in Old(k)}
BY KeptIs

LEMMA KeptNext ==
    FlashType' => (\A k \in Keys : /\ Kept(k, "write") = {At(a) : a \in Live(k)}
                                   /\ Kept(k, "predelete") = {At(a) : a \in Old(k)})'
BY KeptPlain, PTL

LEMMA StoredNext == StoreInv' => (\A k \in Keys : StoredIs(k))'
BY StoredAs, PTL

\* At first nothing is stored.
LEMMA KeepInit ==
    ASSUME Init
    PROVE  KeepInv /\ KS!Init
<1>1. CallersInv /\ StoreInv
  BY CallersInit DEF CallersInv
<1>2. /\ node = [s \in Sectors |-> <<>>] /\ pc = "idle" /\ mv = NoMove /\ gc = NoGc /\ ~recov
      /\ cache = [k \in Keys |-> None] /\ resets = MaxResets /\ damaged = {} /\ torn = {}
      /\ req = NoReq
  BY DEF Init, StoreInit
<1>3. Used = {}
  <2>1. \A s \in Sectors : node[s] = <<>>
    BY <1>2
  <2>2. \A a \in Addrs : a[1] \in Sectors /\ a[2] >= 1 /\ a[2] \in Nat
    BY CapPositive DEF Addrs
  <2>3. Len(<<>>) = 0
    BY LenProperties, EmptySeq
  <2> QED
    BY <2>1, <2>2, <2>3 DEF Used
<1>4. ASSUME NEW k \in Keys
      PROVE  KeyInv(k) /\ Stored(k) = None
  <2>1. Live(k) = {} /\ Old(k) = {} /\ Rest(k) = {} /\ Whole(k)
    BY <1>3 DEF Live, Old, Rest, Whole
  <2>2. mv.key # k /\ req.key # k
    BY <1>2, StoreAssumption DEF NoMove, NoReq
  <2>3. Cached(k) /\ Replaced(k) /\ Answered(k)
    BY <1>2, <2>2 DEF Cached, Replaced, Answered
  <2>4. One(k) /\ Ahead(k) /\ Open(k)
    BY <1>2, <1>3, <2>1 DEF One, Ahead, Open, Moving, Writes, NoGc
  <2>5. Stored(k) = None
    BY <1>1, <2>1, StoredAs DEF StoredIs
  <2> QED
    BY <2>1, <2>3, <2>4, <2>5 DEF KeyInv
<1>5. Traces
  BY <1>2 DEF Traces, NoGc
<1>6. Clean /\ Checked
  BY <1>2, SettingsAssumption DEF Clean, Checked, NoMove
<1>7. KS!Init
  BY <1>2, <1>4 DEF KS!Init, KS!NoReq, NoReq
<1> QED
  BY <1>1, <1>4, <1>5, <1>6, <1>7 DEF KeepInv

\* Nothing moves unless the store does.
LEMMA Stuttering ==
    ASSUME KeepInv, UNCHANGED <<storeVars, damaged, torn, resets>>, CallersInv'
    PROVE  KeepInv' /\ UNCHANGED KS!vars
<1>1. Used' = Used /\ \A b : At(b)' = At(b)
  BY DEF storeVars, flash, Used, At
<1>2. ASSUME NEW k PROVE Stored(k)' = Stored(k)
  BY DEF storeVars, flash, Stored, Kept, At
<1>3. ASSUME NEW k PROVE Live(k)' = Live(k) /\ Old(k)' = Old(k) /\ Rest(k)' = Rest(k)
  BY <1>1 DEF storeVars, Live, Old, Rest
<1>4. Dst' = Dst /\ UNCHANGED Setting
  BY DEF storeVars, flash, ram, Dst, Setting
<1>5. ASSUME NEW k, KeyInv(k) PROVE KeyInv(k)'
  <2>1. Whole(k)' /\ One(k)' /\ Cached(k)' /\ Replaced(k)'
    BY <1>1, <1>3, <1>4, <1>5
    DEF KeyInv, storeVars, flash, ram, Whole, One, Cached, Replaced
  <2>2. Answered(k)' /\ Ahead(k)'
    BY <1>2, <1>3, <1>4, <1>5 DEF KeyInv, storeVars, flash, ram, Answered, Ahead
  <2>3. Open(k)'
    BY <1>1, <1>3, <1>4, <1>5 DEF KeyInv, storeVars, flash, ram, Open, Unfinish
  <2> QED
    BY <2>1, <2>2, <2>3 DEF KeyInv
<1>6. Traces' /\ Clean' /\ Checked'
  BY <1>1, <1>4 DEF KeepInv, Traces, Clean, Checked, Content, storeVars, flash, ram
<1>7. UNCHANGED KS!vars
  BY <1>2 DEF KS!vars, storeVars
<1> QED
  BY <1>5, <1>6, <1>7 DEF KeepInv, Spoilt

\* A string changes while the store sets it.
LEMMA SpoilKept ==
    ASSUME KeepInv, CallersInv', ValueDue, ValueChanges, torn' = torn \cup {req.key},
           UNCHANGED <<damaged, resets>>
    PROVE  KeepInv' /\ KS!Spoil
<1>1. /\ StoreInv /\ Traces /\ Clean /\ Checked
      /\ UNCHANGED <<sec, node, cache, gcReq, gcFlag, recov, preDel, pc, gc, pos>>
  BY DEF KeepInv, CallersInv, ValueChanges, flash, ram
<1>2. /\ mv \in [key : Keys \cup {None}, val : Vals \cup {None},
                  src : Addrs \cup {None}, dst : 0 .. NSec, crc : BOOLEAN]
      /\ req \in [key : Keys \cup {None}, val : Vals \cup {None}]
  BY <1>1 DEF StoreInv, RamType
<1>3. \/ mv' = mv
      \/ Setting /\ pc \in {"predel", "premark", "secst", "prewrite"}
         /\ \E v \in Vals : mv' = [mv EXCEPT !.val = v]
      \/ Setting /\ pc \in {"prewrite", "head", "body"} /\ mv' = [mv EXCEPT !.crc = FALSE]
  BY DEF ValueChanges
<1>4. ~recov /\ pc \notin {"idle", "down"}
  BY <1>1 DEF ValueDue, StoreInv, Control, Setting, Moving, Writes, Collecting, Loading, Resting
<1>5. req.key \in Keys /\ req.val \in Vals
  BY <1>1, <1>2, <1>4 DEF StoreInv, Control
<1>6. \E v \in Vals : req' = [req EXCEPT !.val = v]
  <2>1. req = [req EXCEPT !.val = req.val]
    BY <1>2
  <2> QED
    BY <1>5, <2>1 DEF ValueChanges
<1>7. req'.key = req.key /\ mv'.key = mv.key /\ mv'.src = mv.src /\ mv'.dst = mv.dst
  BY <1>2, <1>3, <1>6
<1>8. Used' = Used /\ Dst' = Dst /\ UNCHANGED Setting /\ \A b : At(b)' = At(b)
  BY <1>1, <1>7 DEF Used, At, Dst, Setting
<1>9. ASSUME NEW k \in Keys PROVE Stored(k)' = Stored(k)
  BY <1>1, <1>7 DEF Stored, Kept, At
<1>10. ASSUME NEW k \in Keys, KeyInv(k), k # req.key PROVE KeyInv(k)'
  <2>1. Live(k)' = Live(k) /\ Old(k)' = Old(k) /\ Rest(k)' = Rest(k)
    BY <1>7, <1>8 DEF Live, Old, Rest
  <2>2. Whole(k)' /\ One(k)' /\ Cached(k)' /\ Replaced(k)'
    BY <1>1, <1>7, <1>8, <1>10, <2>1 DEF KeyInv, Whole, One, Cached, Replaced
  <2>3. Answered(k)' /\ Ahead(k)'
    BY <1>1, <1>7, <1>10, <2>1 DEF KeyInv, Answered, Ahead
  <2>4. Open(k)'
    BY <1>1, <1>8, <1>10, <2>1 DEF KeyInv, Open, Unfinish
  <2> QED
    BY <2>2, <2>3, <2>4 DEF KeyInv
<1>11. Traces'
  <2>1. Setting /\ pc \in {"del", "postmark", "after"} => mv' = mv
    BY <1>3 DEF Setting
  <2> QED
    BY <1>1, <1>7, <1>8, <2>1 DEF Traces, Content
<1>12. Clean'
  BY <1>1 DEF Clean
<1>13. Checked'
  <2>1. CASE mv'.crc = mv.crc
    BY <1>1, <1>7, <2>1 DEF Checked
  <2>2. CASE mv'.crc # mv.crc
    <3>1. Setting /\ pc \in Moving
      BY <1>2, <1>3, <2>2 DEF Moving, Writes
    <3>2. mv.key = req.key
      BY <1>1, <3>1 DEF StoreInv, AtHand
    <3> QED
      BY <1>7, <3>2 DEF Checked
  <2> QED
    BY <2>1, <2>2
<1>14. KeepInv'
  BY <1>10, <1>11, <1>12, <1>13 DEF KeepInv, Spoilt
<1>15. KS!Spoil
  BY <1>5, <1>6, <1>9, StoreAssumption DEF KS!Spoil, KS!NoReq
<1> QED
  BY <1>14, <1>15

\* A handler changes strings.
LEMMA ChangeKept ==
    ASSUME KeepInv, CallersInv', NEW t \in Tasks, NEW S, Change(t, S),
           UNCHANGED <<damaged, resets>>
    PROVE  KeepInv' /\ [KS!Next]_KS!vars
<1>1. CASE req.key \in S /\ ValueDue
  BY <1>1, SpoilKept DEF Change, KS!Next
<1>2. CASE ~(req.key \in S /\ ValueDue)
  BY <1>2, Stuttering DEF Change
<1> QED
  BY <1>1, <1>2

\* A task calls ef_set_env_blob.
LEMMA CallKept ==
    ASSUME KeepInv, CallersInv', NEW t \in Tasks, SetKey(t)
    PROVE  KeepInv' /\ KS!Call
<1>1. at[t] \in 1 .. Len(Order)
  BY OrderIn DEF KeepInv, SetKey, CallersInv
<1>2. PICK c \in Keys : c = Order[at[t]]
  BY <1>1, OrderIn
<1>3. PICK v \in Vals : SetReq(c, v)
  BY <1>2, ValueIn DEF KeepInv, SetKey
<1>4. SetReq(c, v) /\ UNCHANGED <<damaged, torn, resets>>
  BY <1>3 DEF SetKey, bounds
<1>5. /\ pc = "idle" /\ pc' = "alloc" /\ UNCHANGED <<node, mv, recov>> /\ req = NoReq
      /\ req' = [key |-> c, val |-> v]
  BY <1>4 DEF SetReq, flash, ram, KeepInv, CallersInv, StoreInv, Control
<1>6. StoreInv /\ StoreInv' /\ Traces'
  BY <1>4, TracesCall DEF KeepInv, CallersInv
<1>7. ASSUME NEW k \in Keys \ Spoilt PROVE KeyInv(k)'
  <2>1. StoredIs(k) /\ StoredIs(k)'
    BY <1>6, StoredAs, StoredNext
  <2> QED
    BY <1>4, <1>6, <1>7, <2>1, SetReqKeeps DEF KeepInv
<1>8. Clean' /\ Checked'
  BY <1>4, <1>5 DEF KeepInv, Clean, Checked
<1>9. ASSUME NEW k PROVE Stored(k)' = Stored(k)
  BY <1>5 DEF Stored, Kept, At
<1>10. KS!Call
  BY <1>4, <1>5, <1>9 DEF KS!Call, KS!NoReq, NoReq
<1> QED
  BY <1>4, <1>6, <1>7, <1>8, <1>10 DEF KeepInv, Spoilt

\* A reset endangers the key at hand only.
LEMMA EndangeredIs ==
    ASSUME KeepInv, resets = MaxResets, NEW k \in Endangered \ torn
    PROVE  mv.key = k
<1>1. StoreInv /\ Traces /\ KeyInv(k) /\ ~recov /\ pc # "down" /\ k \in Keys
  BY DEF KeepInv, CallersInv, Clean, Endangered, Spoilt
<1>2. PICK b \in Visited : At(b).st = "predelete" /\ At(b).key = k
  BY DEF Endangered
<1>3. b \in Used
  BY <1>1, VisitedIs DEF StoreInv
<1>4. b \in Old(k)
  BY <1>1, <1>2, <1>3 DEF KeyInv, Whole, Old
<1>5. Rest(k) = {}
  BY <1>1 DEF KeyInv, One
<1> QED
  BY <1>1, <1>4, <1>5, Other

LEMMA ResetKept ==
    ASSUME KeepInv, CallersInv', FirstReset', Reset
    PROVE  KeepInv' /\ KS!Reset
<1>1. /\ StoreReset /\ resets' = resets - 1 /\ damaged' = damaged \cup Endangered
      /\ resets = MaxResets /\ damaged = {} /\ ~recov /\ torn' = torn
      /\ resets' \in 0 .. MaxResets /\ resets' # MaxResets
  <2>1. /\ resets > 0 /\ resets' = resets - 1 /\ resets \in 0 .. MaxResets /\ MaxResets \in Nat
    BY SettingsAssumption DEF Reset, KeepInv, Clean
  <2>2. resets = MaxResets /\ resets' \in 0 .. MaxResets /\ resets' # MaxResets
    BY <2>1 DEF FirstReset
  <2> QED
    BY <2>1, <2>2 DEF Reset, KeepInv, Clean
<1>2. StoreInv /\ StoreInv' /\ Traces'
  BY <1>1, TracesCall DEF KeepInv, CallersInv
<1>3. ASSUME NEW k \in Keys \ torn
      PROVE  (k \notin Endangered => KeyInv(k)') /\ Stored(k)' = Stored(k)
  <2>1. StoredIs(k) /\ StoredIs(k)'
    BY <1>2, StoredAs, StoredNext
  <2> QED
    BY <1>1, <1>2, <2>1, StoreResetKeeps DEF KeepInv, Spoilt
<1>4. KeepInv'
  <2>1. Clean' /\ Checked'
    BY <1>1 DEF Clean, Checked, StoreReset, NoMove
  <2> QED
    BY <1>1, <1>2, <1>3, <2>1 DEF KeepInv, Spoilt
<1>5. \E k \in Keys : Spoilt' \in {Spoilt, Spoilt \cup {k}}
  <2>1. CASE Endangered \subseteq torn
    <3>1. Order[1] \in Keys
      BY OrderIn
    <3> QED
      BY <1>1, <2>1, <3>1 DEF Spoilt
  <2>2. CASE ~(Endangered \subseteq torn)
    <3>1. PICK k \in Keys : k \in Endangered \ torn
      BY <2>2 DEF Endangered
    <3>2. Endangered \ torn = {k}
      BY <1>1, <3>1, EndangeredIs
    <3> QED
      BY <1>1, <3>2 DEF Spoilt
  <2> QED
    BY <2>1, <2>2
<1>6. req' = NoReq
  BY <1>1 DEF StoreReset
<1>7. \A k \in Keys : Stored(k)' \in Vals \cup {None}
  BY <1>2, StoredNext DEF StoredIs
<1>8. KS!Reset
  BY <1>3, <1>5, <1>6, <1>7 DEF KS!Reset, KS!OthersStay, KS!NoReq, NoReq, Spoilt
<1> QED
  BY <1>4, <1>8

\* A checksum stays right; each record has its own.
LEMMA StepKeepsCrc ==
    ASSUME StoreInv, StoreStep
    PROVE  mv'.crc \/ (mv'.crc = mv.crc /\ mv'.key = mv.key)
<1>1. mv \in [key : Keys \cup {None}, val : Vals \cup {None},
             src : Addrs \cup {None}, dst : 0 .. NSec, crc : BOOLEAN]
  BY DEF StoreInv, RamType
<1>2. NoMove.crc = TRUE
  BY DEF NoMove
<1>3. GcReturn \/ Unlock => mv' = NoMove
  BY DEF GcReturn, Unlock
<1>4. \A r : CallGc(r) => mv' = NoMove
  BY DEF CallGc
<1>5. \A a : Move(a) => mv'.crc = TRUE
  BY DEF Move
<1>6. CASE MoveAlloc
  BY <1>1, <1>2, <1>6 DEF MoveAlloc
<1>7. CASE ~MoveAlloc
  <2>1. CASE SetAlloc
    BY <1>2, <1>4, <2>1 DEF SetAlloc
  <2>2. CASE After \/ GcStart \/ GcSector \/ FormatSector
    BY <1>2, <1>3, <1>4, <2>2 DEF After, GcStart, GcSector, FormatSector
  <2>3. CASE GcNode \/ LoadScan
    BY <1>5, <2>3 DEF GcNode, LoadScan
  <2>4. CASE LoadGc \/ LoadEnd
    BY <1>2, <1>4, <2>4 DEF LoadGc, LoadEnd
  <2>5. CASE PreDelete \/ DirtyMark \/ SectorStatus \/ PreWrite \/ WriteHead \/ WriteBody
             \/ WriteStatus \/ Delete \/ GcFlagNext \/ EraseSector \/ LoadHeaders
    BY <2>5 DEF PreDelete, DirtyMark, SectorStatus, PreWrite, WriteHead, WriteBody,
       WriteStatus, Delete, GcFlagNext, EraseSector, LoadHeaders
  <2> QED
    BY <1>7, <2>1, <2>2, <2>3, <2>4, <2>5 DEF StoreStep
<1> QED
  BY <1>6, <1>7

\* How a request ends.
LEMMA RequestEnds ==
    ASSUME StoreInv, StoreStep, req' # req
    PROVE  /\ req' = NoReq /\ pc' = "idle" /\ mv' = NoMove /\ UNCHANGED node /\ ~WriteStatus
           /\ \/ pc = "after" /\ Setting
              \/ gc.ret = "idle" /\ pc \in Collecting
<1>1. After \/ GcStart \/ GcSector \/ FormatSector
  BY DEF StoreStep, SetAlloc, PreDelete, DirtyMark, SectorStatus, PreWrite, WriteHead,
    WriteBody, WriteStatus, Delete, GcFlagNext, GcNode, MoveAlloc,
    EraseSector, LoadHeaders, LoadGc, LoadScan, LoadEnd
<1>2. CASE After
  BY <1>2 DEF After, Unlock, CallGc, flash, WriteStatus
<1>3. CASE GcStart \/ GcSector \/ FormatSector
  <2>1. GcReturn /\ UNCHANGED node /\ pc \in {"gc", "gcsec", "format"}
    BY <1>3 DEF GcStart, GcSector, FormatSector, flash
  <2> QED
    BY <2>1 DEF GcReturn, WriteStatus, Collecting
<1> QED
  BY <1>1, <1>2, <1>3

\* A set returns.
LEMMA ReturnKept ==
    ASSUME KeepInv, StoreStep, StoreInv', UNCHANGED <<damaged, torn>>, req' # req
    PROVE  KS!Return
<1>1. /\ req' = NoReq /\ pc' = "idle" /\ mv' = NoMove /\ UNCHANGED node
      /\ \/ pc = "after" /\ Setting
         \/ gc.ret = "idle" /\ pc \in Collecting
  BY RequestEnds DEF KeepInv, CallersInv
<1>2. StoreInv /\ Traces
  BY DEF KeepInv, CallersInv
<1>3. Kept(req.key, "write") # {} \/ mv = NoMove \/ req.key \in torn
  <2>1. CASE gc.ret = "idle" /\ pc \in Collecting
    BY <1>2, <2>1 DEF StoreInv, Control, Collecting, Moving, Writes
  <2>2. CASE pc = "after" /\ Setting
    <3>1. Dst \in Used /\ At(Dst) = [st |-> "write", key |-> mv.key, val |-> mv.val, data |-> Content]
      BY <1>2, <2>2 DEF Traces
    <3>2. mv.key = req.key /\ mv.key \in Keys
      BY <1>2, <2>2 DEF StoreInv, AtHand, Moving, Control, RamType
    <3>3. req.key \notin torn => Dst \in Live(req.key)
      BY <3>1, <3>2 DEF Live, Content, KeepInv, Checked
    <3> QED
      BY <1>2, <3>2, <3>3, KeptIs DEF StoreInv
  <2> QED
    BY <1>1, <2>1, <2>2
<1>4. ASSUME NEW k \in Keys \ torn PROVE Stored(k)' = Stored(k)
  <2>1. mv'.src = None
    BY <1>1 DEF NoMove
  <2>2. CASE mv = NoMove
    <3>1. mv.src = None
      BY <2>2 DEF NoMove
    <3> QED
      BY <1>1, <2>1, <3>1 DEF Stored, Kept
  <2>3. CASE Kept(k, "write") # {}
    BY <1>1, <2>3 DEF Stored, Kept
  <2>4. CASE mv # NoMove /\ k # req.key
    <3>1. mv.key # k
      BY <1>1, <1>2, <2>4 DEF StoreInv, AtHand, Control, Moving, Collecting, Writes
    <3> QED
      BY <1>1, <2>1, <3>1 DEF Stored, Kept
  <2> QED
    BY <1>3, <2>2, <2>3, <2>4
<1>5. req.key \in Keys /\ req # NoReq
  BY <1>1 DEF KeepInv, CallersInv, StoreInv, RamType, Control, NoReq, Setting, Collecting
<1>6. Stored(req.key) = req.val \/ req.key \in Spoilt
  BY <1>1, <1>5 DEF KeepInv, KeyInv, Answered
<1>7. \A k \in Keys : Stored(k)' \in Vals \cup {None}
  BY StoredNext DEF StoredIs
<1> QED
  BY <1>1, <1>4, <1>5, <1>6, <1>7 DEF KS!Return, KS!OthersStay, KS!NoReq, NoReq, Spoilt

\* The status that makes the new record of a set count.
LEMMA EffectKept ==
    ASSUME KeepInv, StoreInv', Traces', WriteStatus, UNCHANGED <<damaged, torn>>,
           Setting, req.key \notin Spoilt
    PROVE  KS!Effect
<1>1. StoreInv /\ Traces /\ pc = "write" /\ UNCHANGED <<sec, mv, req>>
  BY DEF KeepInv, CallersInv, WriteStatus
<1>2. mv.key = req.key /\ req.key \in Keys /\ req # NoReq
  BY <1>1, StoreAssumption
  DEF StoreInv, AtHand, Moving, Writes, Control, RamType, Setting, NoReq
<1>3. PICK d, r : d = Dst /\ r = [st |-> "write", key |-> mv.key, val |-> mv.val, data |-> Content]
  OBVIOUS
<1>4. /\ d \in Used /\ d # mv.src /\ At(d).st = "prewrite" /\ At(d).key = mv.key
      /\ Used' = Used /\ At(d)' = r
      /\ \A b \in Used : b # d => At(b)' = At(b)
  BY <1>1, <1>3, DstEffect DEF WriteStatus, Status
<1>5. ASSUME NEW k \in Keys, k # req.key
      PROVE  Stored(k)' = Stored(k)
  <2>1. /\ Live(k)' = Live(k) /\ Old(k)' = Old(k)
        /\ \A b \in Live(k) \cup Old(k) : At(b)' = At(b)
    <3>1. \A b : b # d => (b \in Used' <=> b \in Used)
      BY <1>4
    <3>2. At(d)'.key # k /\ At(d).st \notin {"write", "predelete"}
      BY <1>2, <1>3, <1>4, <1>5
    <3> QED
      BY <1>4, <3>1, <3>2, Unseen
  <2>2. PICK W, O : W = {At(a) : a \in Live(k)} /\ O = {At(a) : a \in Old(k)}
    OBVIOUS
  <2>3. Kept(k, "write") = W /\ Kept(k, "predelete") = O
    BY <1>1, <2>2, KeptIs DEF StoreInv
  <2>4. Kept(k, "write")' = W /\ Kept(k, "predelete")' = O
    <3>1. FlashType' => (Kept(k, "write") = {At(a) : a \in Live(k)}
                         /\ Kept(k, "predelete") = {At(a) : a \in Old(k)})'
      BY KeptNext
    <3> QED
      BY <2>1, <2>2, <3>1 DEF StoreInv
  <2>5. mv.key # k /\ mv'.key # k
    BY <1>1, <1>2, <1>5
  <2>6. PICK w, o : w = (CHOOSE x \in W : TRUE) /\ o = (CHOOSE x \in O : TRUE)
    OBVIOUS
  <2>7. Stored(k) = CASE W # {} -> w.val [] W = {} /\ O # {} -> o.val [] OTHER -> None
    BY <2>3, <2>5, <2>6 DEF Stored
  <2>8. Stored(k)' = CASE W # {} -> w.val [] W = {} /\ O # {} -> o.val [] OTHER -> None
    BY <2>4, <2>5, <2>6 DEF Stored
  <2> QED
    BY <2>7, <2>8
<1>6. PICK c \in Keys : c = req.key
  BY <1>2
<1>7. Stored(c)' = req.val
  <2>1. StoredIs(c) /\ StoredIs(c)'
    BY <1>1, <1>6, StoredAs, StoredNext
  <2>2. KeyInv(c) /\ mv.crc
    BY <1>2, <1>6 DEF KeepInv, Checked, Spoilt
  <2> QED
    BY <1>1, <1>6, <2>1, <2>2, WriteStatusKeeps
<1>8. [k \in Keys |-> Stored(k)]' = [[k \in Keys |-> Stored(k)] EXCEPT ![c] = req.val]
  <2>1. \A k \in Keys : Stored(k)' = IF k = c THEN req.val ELSE Stored(k)
    BY <1>5, <1>6, <1>7
  <2> QED
    BY <2>1
<1> QED
  BY <1>1, <1>2, <1>6, <1>8 DEF KS!Effect, KS!NoReq, NoReq

\* The store makes a step.
LEMMA StoreKeeps ==
    ASSUME KeepInv, CallersInv', HasRoom, Store
    PROVE  KeepInv' /\ [KS!Next]_KS!vars
<1>1. StoreStep /\ UNCHANGED <<damaged, torn, resets>>
  BY DEF Store, bounds
<1>2. StoreInv /\ StoreInv' /\ Traces /\ Traces'
  BY <1>1, TracesStep DEF KeepInv, CallersInv
<1>3. \A k \in Keys : StoredIs(k) /\ StoredIs(k)'
  BY <1>2, StoredAs, StoredNext
<1>4. ASSUME NEW k \in Keys \ Spoilt
      PROVE  /\ KeyInv(k)'
             /\ Stored(k)' = IF WriteStatus /\ Setting /\ req.key = k THEN req.val ELSE Stored(k)
  <2>1. KeyInv(k) /\ (mv.key = k => mv.crc)
    BY DEF KeepInv, Checked, Spoilt
  <2>2. CASE WriteStatus
    BY <1>2, <1>3, <2>1, <2>2, WriteStatusKeeps
  <2>3. CASE ~WriteStatus
    BY <1>1, <1>2, <1>3, <2>1, <2>3, StepKeeps
  <2> QED
    BY <2>2, <2>3
<1>5. Clean'
  <2>1. pc # "down" /\ ~recov => pc' # "down" /\ ~recov'
    <3>1. UNCHANGED recov \/ LoadHeaders \/ LoadEnd
      BY <1>1 DEF StoreStep, SetAlloc, PreDelete, DirtyMark, SectorStatus, PreWrite, WriteHead,
         WriteBody, WriteStatus, Delete, After, GcStart, GcFlagNext, GcSector, GcNode, MoveAlloc,
         EraseSector, FormatSector, LoadGc, LoadScan, ram
    <3>2. pc' # "down"
      <4>1. pc \in Collecting => gc.ret \in {"again", "idle", "rgc", "rscan"}
        BY <1>2 DEF StoreInv, Control, RamType, Collections
      <4>2. GcReturn => pc' = gc.ret
        BY DEF GcReturn
      <4> QED
        BY <1>1, <4>1, <4>2 DEF StoreStep, SetAlloc, PreDelete, DirtyMark, SectorStatus, PreWrite,
         WriteHead, WriteBody, WriteStatus, Delete, After, GcStart, GcFlagNext, GcSector, GcNode,
         MoveAlloc, EraseSector, FormatSector, LoadHeaders, LoadGc, LoadScan, LoadEnd, CallGc,
         Unlock, Collecting
    <3>3. LoadHeaders => pc = "down"
      BY DEF LoadHeaders
    <3>4. LoadEnd => recov
      BY <1>2 DEF LoadEnd, StoreInv, Control, Loading
    <3> QED
      BY <3>1, <3>2, <3>3, <3>4
  <2> QED
    BY <1>1, <2>1 DEF KeepInv, Clean
<1>10. Checked'
  <2>1. mv'.crc \/ (mv'.crc = mv.crc /\ mv'.key = mv.key)
    BY <1>1, <1>2, StepKeepsCrc
  <2> QED
    BY <1>1, <2>1 DEF KeepInv, Checked
<1>6. KeepInv'
  BY <1>1, <1>2, <1>4, <1>5, <1>10 DEF KeepInv, Spoilt
<1>7. ASSUME req' # req PROVE KS!Next
  BY <1>1, <1>2, <1>7, ReturnKept DEF KS!Next
<1>8. ASSUME WriteStatus, Setting, req.key \notin Spoilt PROVE KS!Next
  BY <1>1, <1>2, <1>8, EffectKept DEF KS!Next
<1>9. ASSUME req' = req, ~(WriteStatus /\ Setting /\ req.key \notin Spoilt) PROVE KS!Next
  <2>1. \A k \in Keys : Stored(k)' \in Vals \cup {None}
    BY <1>3 DEF StoredIs
  <2>2. \A k \in Keys \ Spoilt : Stored(k)' = Stored(k)
    BY <1>4, <1>9
  <2>3. KS!Decay
    BY <1>1, <1>9, <2>1, <2>2 DEF KS!Decay, KS!OthersStay, Spoilt
  <2> QED
    BY <2>3 DEF KS!Next
<1> QED
  BY <1>6, <1>7, <1>8, <1>9

\* Every step.
LEMMA KeepStep ==
    ASSUME KeepInv, HasRoom, FirstReset', [Next]_vars
    PROVE  KeepInv' /\ [KS!Next]_KS!vars
<1>1. CallersInv'
  BY CallersStep DEF KeepInv
<1>2. CASE \E t \in Tasks : Copy(t) \/ Save(t)
  <2>1. PICK t \in Tasks : Copy(t) \/ Save(t)
    BY <1>2
  <2>2. Change(t, Changes(t) \cap Strings) /\ UNCHANGED <<damaged, resets>>
    BY <2>1 DEF Copy, Save
  <2> QED
    BY <1>1, <2>2, ChangeKept
<1>3. CASE \E t \in Tasks : SetKey(t)
  BY <1>1, <1>3, CallKept DEF KS!Next
<1>4. CASE Store
  BY <1>1, <1>4, StoreKeeps
<1>5. CASE Load \/ UNCHANGED vars
  BY <1>1, <1>5, Stuttering DEF Load, vars, bounds
<1>6. CASE Reset
  BY <1>1, <1>6, ResetKept DEF KS!Next
<1> QED
  BY <1>2, <1>3, <1>4, <1>5, <1>6 DEF Next

\* With at most one reset, and room in every collection, the store keeps what
\* KeyStore promises: a set takes effect at once and as a whole, it has taken
\* effect when ef_set_env_blob returns, no collection and no recovery changes a
\* value, and a reset changes none; it may damage the key that was being set or
\* moved.  A string that another task changes while it is being set is all that
\* this damages.
THEOREM StoreKeptAlways == Spec /\ []HasRoom /\ []FirstReset => StoreKept
<1>1. Init => KeepInv /\ KS!Init
  BY KeepInit
<1>2. KeepInv /\ HasRoom /\ FirstReset' /\ [Next]_vars => KeepInv' /\ [KS!Next]_KS!vars
  BY KeepStep
<1> QED
  BY <1>1, <1>2, PTL DEF Spec, StoreKept, KS!Spec
=============================================================================
