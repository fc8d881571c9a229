------------------------------ MODULE AgreeProofs ------------------------------
(***************************************************************************)
(* What is found for a key is what is stored, and between saves it is what *)
(* g_cfg says: for any number of keys, values and tasks and of sectors     *)
(* from three on, up to the second reset.                                  *)
(***************************************************************************)
EXTENDS RoomProofs

\* RAM and store agree about a key.
Agrees(k) == g[k] = IF Stored(k) = None THEN Default ELSE Stored(k)

\* What a save has formatted is still so.
Formatted(k) == \A u \in Tasks : k \in ToSet(u) \cap Numbers => snap[u][k] = g[k]

\* A key that has its value neither in the store nor on the way will be set.
Coming(k) == \/ \E u \in Tasks : k \in ToSet(u)
             \/ \E u \in copying : k \in Changes(u)
             \/ IF req.key = k THEN req.val = g[k] ELSE Agrees(k)

\* A string whose length is stale is being changed, or was by a save that comes after.
Measured ==
    /\ \A t \in copying : at[t] = 0
    /\ \A u \in stale :
          /\ at[u] # 0 /\ holder # u
          /\ Order[at[u]] \in crossed \/ \E c \in copying : Order[at[u]] \in Changes(c)

AgreeInv ==
    /\ KeepInv /\ Measured
    /\ ~up => holder = None /\ copying = {} /\ \A t \in Tasks : at[t] = 0
    /\ up => \A k \in Keys \ (Spoilt \cup crossed) : Formatted(k) /\ Coming(k)

-----------------------------------------------------------------------------
(* What is found. *)

\* With the lock free, the cache and the search find the record that counts.
LEMMA Answer ==
    ASSUME KeepInv, pc = "idle", NEW k \in Keys \ Spoilt
    PROVE  Gets(k) = {Stored(k)}
<1>1. StoreInv /\ Traces /\ KeyInv(k) /\ StoredIs(k)
  BY StoredAs DEF KeepInv, CallersInv
<1>2. mv = NoMove /\ ~recov /\ mv.key # k
  BY <1>1, StoreAssumption DEF StoreInv, Control, Moving, Writes, Resting, NoMove
<1>3. Old(k) = {} /\ cache[k] \in {None} \cup Live(k)
  BY <1>1, <1>2, Other DEF KeyInv, One, Cached
<1>4. ASSUME NEW a \in Finds(k)
      PROVE  (IF a = None THEN None ELSE At(a).val) = Stored(k)
  <2>1. (a = None /\ Live(k) = {}) \/ a \in Live(k)
    BY <1>1, <1>3, FindsLive
  <2>2. a \in Live(k) => a # None
    BY StoreAssumption DEF Live, Used, Addrs, Sectors
  <2>3. CASE a \in Live(k)
    BY <1>1, <2>2, <2>3 DEF KeyInv, One, StoredIs
  <2>4. CASE a = None /\ Live(k) = {}
    BY <1>1, <1>3, <2>4 DEF StoredIs
  <2> QED
    BY <2>1, <2>3, <2>4
<1>5. FirstLive(k) \in Finds(k)
  BY DEF Finds
<1> QED
  BY <1>4, <1>5 DEF Gets

-----------------------------------------------------------------------------
(* The steps. *)

\* Initially RAM has the defaults and the store nothing.
LEMMA AgreeInit ==
    ASSUME Init
    PROVE  AgreeInv
<1>1. KeepInv /\ KS!Init
  BY KeepInit
<1>2. /\ g = [k \in Keys |-> Default] /\ at = [t \in Tasks |-> 0] /\ up /\ holder = None
      /\ req = NoReq /\ copying = {} /\ stale = {}
  BY DEF Init, StoreInit
<1>3. ASSUME NEW k \in Keys PROVE Formatted(k) /\ Coming(k)
  <2>1. Stored(k) = None
    BY <1>1 DEF KS!Init
  <2>2. req.key # k
    BY <1>2, StoreAssumption DEF NoReq
  <2> QED
    BY <1>2, <2>1, <2>2 DEF Formatted, ToSet, Coming, Agrees
<1> QED
  BY <1>1, <1>2, <1>3 DEF AgreeInv, Measured

\* While the store stays as it is, so does what it has stored.
LEMMA StoredSame ==
    ASSUME UNCHANGED storeVars, NEW k
    PROVE  Stored(k)' = Stored(k)
BY DEF storeVars, flash, Stored, Kept, At

\* A handler begins to copy.
LEMMA AgreeCopy ==
    ASSUME AgreeInv, KeepInv', NEW t \in Tasks, Copy(t)
    PROVE  AgreeInv'
<1>1. /\ up /\ at[t] = 0 /\ copying' = copying \cup {t}
      /\ UNCHANGED <<g, at, snap, holder, up, damaged, crossed>>
      /\ stale' = stale \cup {u \in Tasks \ {t} : at[u] # 0 /\ holder # u
                                                 /\ Order[at[u]] \in Changes(t) \cap Strings}
      /\ Change(t, Changes(t) \cap Strings)
  BY DEF Copy, Change
<1>2. Measured'
  BY <1>1 DEF AgreeInv, Measured
<1>3. /\ torn \subseteq torn' /\ req'.key = req.key
      /\ \A k \in Keys : Stored(k)' = Stored(k)
      /\ \A k \in Keys \ torn' : req.key = k => req' = req
  <2>1. CASE req.key \in Changes(t) \cap Strings /\ ValueDue
    <3>1. /\ ValueChanges /\ torn' = torn \cup {req.key} /\ CallersInv'
          /\ UNCHANGED <<damaged, resets>>
      BY <1>1, <2>1 DEF Change, Copy, KeepInv
    <3>2. KS!Spoil
      BY <2>1, <3>1, SpoilKept DEF AgreeInv
    <3>3. req'.key = req.key
      BY <3>2 DEF KS!Spoil, AgreeInv, KeepInv, CallersInv, StoreInv, RamType
    <3> QED
      BY <3>1, <3>2, <3>3 DEF KS!Spoil
  <2>2. CASE ~(req.key \in Changes(t) \cap Strings /\ ValueDue)
    <3>1. UNCHANGED <<storeVars, torn>>
      BY <1>1, <2>2 DEF Change
    <3> QED
      BY <3>1, StoredSame DEF storeVars
  <2> QED
    BY <2>1, <2>2
<1>4. \A u \in Tasks : ToSet(u)' = ToSet(u)
  BY <1>1 DEF ToSet
<1>5. ASSUME NEW k \in Keys \ (Spoilt' \cup crossed')
      PROVE  Formatted(k)' /\ Coming(k)'
  <2>1. Formatted(k) /\ Coming(k)
    BY <1>1, <1>3 DEF AgreeInv, Spoilt
  <2>2. Formatted(k)'
    BY <1>1, <1>4, <2>1 DEF Formatted
  <2>3. req.key = k => req' = req
    BY <1>3 DEF Spoilt
  <2>4. Coming(k)'
    BY <1>1, <1>3, <1>4, <2>1, <2>3 DEF Coming, Agrees
  <2> QED
    BY <2>2, <2>4
<1> QED
  BY <1>1, <1>2, <1>5 DEF AgreeInv

\* A task enters cfg_save: it will set every key.
LEMMA AgreeSave ==
    ASSUME AgreeInv, KeepInv', NEW t \in Tasks, Save(t)
    PROVE  AgreeInv'
<1>1. /\ up /\ up' /\ at[t] = 0 /\ holder # t /\ holder' = holder
      /\ at' = [at EXCEPT ![t] = 1] /\ snap' = [snap EXCEPT ![t] = [k \in Numbers |-> g'[k]]]
      /\ UNCHANGED damaged
      /\ crossed' = (crossed \ Changes(t))
                    \cup (Changes(t) \cap UNION {Pending(u) : u \in Tasks \ {t}})
      /\ \A k \in Keys : g'[k] # g[k] <=> k \in Changes(t)
      /\ t \in copying /\ copying' = copying \ {t} /\ torn \subseteq torn'
      /\ stale' = stale \cup {u \in Tasks \ {t} : at[u] # 0 /\ holder # u
                                                 /\ Order[at[u]] \in Changes(t) \cap Strings}
  BY SettingsAssumption DEF Save, Change, AgreeInv, Measured, KeepInv, CallersInv
<1>2. /\ at \in [Tasks -> 0 .. Len(Order)] /\ snap \in [Tasks -> [Numbers -> Vals]]
  BY DEF AgreeInv, KeepInv, CallersInv
<1>3. ASSUME NEW k \in Keys PROVE k \in ToSet(t)'
  <2>1. PICK i \in DOMAIN Order : Order[i] = k
    BY SettingsAssumption
  <2>2. i \in 1 .. Len(Order)
    BY <2>1, SettingsAssumption, LenProperties
  <2>3. at'[t] = 1 /\ holder' # t
    BY <1>1, <1>2
  <2> QED
    BY <2>1, <2>2, <2>3 DEF ToSet
<1>5. Measured'
  <2>1. \A c \in copying' : at'[c] = 0
    BY <1>1, <1>2 DEF AgreeInv, Measured, KeepInv, CallersInv
  <2>2. ASSUME NEW u \in stale'
        PROVE  /\ at'[u] # 0 /\ holder' # u
               /\ Order[at'[u]] \in crossed' \/ \E c \in copying' : Order[at'[u]] \in Changes(c)
    <3>1. u \in Tasks /\ u # t /\ at[u] # 0 /\ holder # u /\ at'[u] = at[u]
      BY <1>1, <1>2, <2>2 DEF AgreeInv, Measured, KeepInv, CallersInv
    <3>2. PICK k : k = Order[at[u]]
      OBVIOUS
    <3>3. at[u] \in 1 .. Len(Order)
      BY <1>2, <3>1, OrderIn
    <3>4. at[u] \in at[u] .. Len(Order)
      BY <3>3, OrderIn
    <3>5. k \in Pending(u)
      BY <3>1, <3>2, <3>4 DEF Pending, ToSet
    <3>6. CASE k \in Changes(t)
      BY <1>1, <3>1, <3>2, <3>5, <3>6
    <3>7. CASE k \notin Changes(t)
      <4>1. u \in stale
        BY <1>1, <2>2, <3>2, <3>7
      <4>2. k \in crossed \/ \E c \in copying : k \in Changes(c)
        BY <3>2, <4>1 DEF AgreeInv, Measured
      <4> QED
        BY <1>1, <3>1, <3>2, <3>7, <4>2
    <3> QED
      BY <3>6, <3>7
  <2> QED
    BY <2>1, <2>2 DEF Measured
<1>4. ASSUME NEW k \in Keys \ (Spoilt' \cup crossed') PROVE Formatted(k)'
  <2> SUFFICES ASSUME NEW u \in Tasks, k \in ToSet(u)' \cap Numbers
               PROVE  snap'[u][k] = g'[k]
    BY DEF Formatted
  <2>1. CASE u = t
    BY <1>1, <1>2, <2>1
  <2>2. CASE u # t
    <3>1. at'[u] = at[u] /\ snap'[u] = snap[u]
      BY <1>1, <1>2, <2>2
    <3>2. k \in ToSet(u) \cap Numbers
      BY <1>1, <3>1 DEF ToSet
    <3>3. k \in Pending(u)
      BY <3>2 DEF ToSet, Pending
    <3>4. k \notin Changes(t) /\ k \notin crossed
      BY <1>1, <2>2, <3>3
    <3>5. g'[k] = g[k] /\ Formatted(k)
      BY <1>1, <3>4 DEF AgreeInv, Spoilt
    <3> QED
      BY <3>1, <3>2, <3>5 DEF Formatted
  <2> QED
    BY <2>1, <2>2
<1> QED
  BY <1>1, <1>3, <1>4, <1>5 DEF AgreeInv, Coming

\* It hands a key to the store.
LEMMA AgreeSetKey ==
    ASSUME AgreeInv, KeepInv', KS!Call, NEW t \in Tasks, SetKey(t)
    PROVE  AgreeInv'
<1>1. /\ up /\ up' /\ at[t] # 0 /\ holder' = t
      /\ UNCHANGED <<at, g, snap, copying, damaged, torn, crossed>>
      /\ pc = "idle" /\ stale' = stale \ {t}
  BY DEF SetKey, SetReq
<1>6. PICK v \in Values(t, Order[at[t]]) : req' = [key |-> Order[at[t]], val |-> v]
  BY DEF SetKey, SetReq
<1>2. /\ req = NoReq /\ holder = None /\ holder # t
  BY <1>1, SettingsAssumption DEF AgreeInv, KeepInv, CallersInv, StoreInv, Control
<1>3. at[t] \in 1 .. Len(Order)
  BY <1>1, OrderIn DEF AgreeInv, KeepInv, CallersInv
<1>4. ASSUME NEW u \in Tasks
      PROVE  ToSet(u)' \subseteq ToSet(u) /\ ToSet(u) \subseteq ToSet(u)' \cup {Order[at[t]]}
  <2>1. CASE u # t
    <3>1. holder # u /\ holder' # u /\ at'[u] = at[u]
      BY <1>1, <1>2, <2>1, SettingsAssumption
    <3>2. ToSet(u)' = ToSet(u)
      BY <3>1 DEF ToSet
    <3> QED
      BY <3>2
  <2>2. CASE u = t
    <3>1. ToSet(t) = {Order[i] : i \in at[t] .. Len(Order)}
      BY <1>1, <1>2 DEF ToSet
    <3>2. ToSet(t)' = {Order[i] : i \in at[t] + 1 .. Len(Order)}
      BY <1>1 DEF ToSet
    <3>3. \A i \in at[t] .. Len(Order) : i = at[t] \/ i \in at[t] + 1 .. Len(Order)
      BY <1>3, OrderIn
    <3>4. at[t] + 1 .. Len(Order) \subseteq at[t] .. Len(Order)
      BY <1>3, OrderIn
    <3> QED
      BY <2>2, <3>1, <3>2, <3>3, <3>4
  <2> QED
    BY <2>1, <2>2
<1>7. Measured'
  BY <1>1, <1>2 DEF AgreeInv, Measured
<1>5. ASSUME NEW k \in Keys \ (Spoilt' \cup crossed')
      PROVE  Formatted(k)' /\ Coming(k)'
  <2>1. Formatted(k) /\ Coming(k)
    BY <1>1 DEF AgreeInv, Spoilt
  <2>2. Formatted(k)'
    BY <1>1, <1>4, <2>1 DEF Formatted
  <2>5. CASE \E u \in copying : k \in Changes(u)
    BY <1>1, <2>2, <2>5 DEF Coming
  <2>3. CASE k = Order[at[t]] /\ ~\E u \in copying : k \in Changes(u)
    <3>1. k \in ToSet(t)
      BY <1>1, <1>2, <1>3, <2>3, OrderIn DEF ToSet
    <3>2. t \notin stale
      BY <1>1, <2>3 DEF AgreeInv, Measured
    <3>3. Values(t, k) = {g[k]}
      BY <2>1, <2>3, <3>1, <3>2 DEF Values, Formatted, Numbers
    <3> QED
      BY <1>1, <1>6, <2>2, <2>3, <3>3 DEF Coming
  <2>4. CASE k # Order[at[t]] /\ ~\E u \in copying : k \in Changes(u)
    <3>1. req.key # k /\ req'.key # k
      BY <1>1, <1>2, <1>6, <2>4, StoreAssumption DEF NoReq
    <3>2. Stored(k)' = Stored(k)
      BY DEF KS!Call
    <3>3. CASE \E u \in Tasks : k \in ToSet(u)
      BY <1>4, <2>4, <3>3, <2>2 DEF Coming
    <3>4. CASE Agrees(k)
      BY <1>1, <2>2, <3>1, <3>2, <3>4 DEF Coming, Agrees
    <3> QED
      BY <2>1, <2>4, <3>1, <3>3, <3>4 DEF Coming
  <2> QED
    BY <2>3, <2>4, <2>5
<1> QED
  BY <1>1, <1>5, <1>7 DEF AgreeInv

\* The store makes a step, and perhaps returns.
LEMMA AgreeStore ==
    ASSUME AgreeInv, KeepInv', [KS!Next]_KS!vars, Store
    PROVE  AgreeInv'
<1>1. /\ StoreStep /\ UNCHANGED <<g, copying, stale, up, damaged, torn, crossed>>
      /\ KeepInv /\ StoreInv /\ StoreInv'
  BY DEF Store, AgreeInv, KeepInv, CallersInv
<1>2. /\ at \in [Tasks -> 0 .. Len(Order)] /\ snap \in [Tasks -> [Numbers -> Vals]]
      /\ holder \in Tasks \cup {None} /\ (holder # None <=> req # NoReq)
      /\ Len(Order) \in Nat
  BY <1>1, OrderIn DEF KeepInv, CallersInv
<1>5. Measured /\ copying \subseteq Tasks /\ stale \subseteq Tasks
  BY DEF AgreeInv, KeepInv, CallersInv
<1>3. CASE pc' = "idle" /\ holder # None
  <2>1. /\ holder \in Tasks /\ holder' = None /\ req' = NoReq /\ req # NoReq
        /\ \A u \in Tasks : u # holder => at'[u] = at[u] /\ snap'[u] = snap[u]
        /\ IF at[holder] = Len(Order) THEN at'[holder] = 0
           ELSE at'[holder] = at[holder] + 1 /\ UNCHANGED snap
    BY <1>1, <1>2, <1>3 DEF Store, StoreInv, Control
  <2>2. at[holder] # 0 /\ at[holder] \in 0 .. Len(Order)
    BY <1>1, <1>2, <2>1 DEF KeepInv, CallersInv
  <2>3. ASSUME NEW u \in Tasks
        PROVE  ToSet(u)' = ToSet(u) /\ (ToSet(u) # {} => snap'[u] = snap[u])
    <3>1. CASE u # holder
      BY <2>1, <3>1, SettingsAssumption DEF ToSet
    <3>2. CASE u = holder /\ at[u] = Len(Order)
      <4>1. ToSet(u) = {Order[i] : i \in at[u] + 1 .. Len(Order)}
        BY <2>2, <3>2 DEF ToSet
      <4>2. at[u] + 1 .. Len(Order) = {}
        BY <1>2, <3>2
      <4>3. ToSet(u)' = {}
        BY <2>1, <3>2 DEF ToSet
      <4> QED
        BY <4>1, <4>2, <4>3
    <3>3. CASE u = holder /\ at[u] # Len(Order)
      <4>1. at'[u] = at[u] + 1 /\ at'[u] # 0 /\ holder' # u /\ UNCHANGED snap
        BY <1>2, <2>1, <2>2, <3>3, SettingsAssumption
      <4> QED
        BY <2>2, <3>3, <4>1 DEF ToSet
    <3> QED
      BY <3>1, <3>2, <3>3
  <2>4. KS!Return
    BY <1>1, <2>1, ReturnKept
  <2>7. Measured'
    <3>1. \A u \in copying : at'[u] = 0
      BY <1>5, <2>1, <2>2 DEF Measured
    <3>2. ASSUME NEW u \in stale
          PROVE  /\ at'[u] = at[u] /\ at[u] # 0 /\ holder' # u
                 /\ Order[at[u]] \in crossed \/ \E c \in copying : Order[at[u]] \in Changes(c)
      <4>1. /\ at[u] # 0 /\ holder # u /\ u \in Tasks
            /\ Order[at[u]] \in crossed \/ \E c \in copying : Order[at[u]] \in Changes(c)
        BY <1>5 DEF Measured
      <4> QED
        BY <2>1, <4>1, SettingsAssumption
    <3> QED
      BY <1>1, <3>1, <3>2 DEF Measured
  <2>5. ASSUME up, NEW k \in Keys \ (Spoilt \cup crossed)
        PROVE  Formatted(k)' /\ Coming(k)'
    <3>1. Formatted(k) /\ Coming(k)
      BY <2>5 DEF AgreeInv
    <3>2. Formatted(k)'
      BY <1>1, <2>3, <3>1 DEF Formatted
    <3>3. Stored(k)' = Stored(k) /\ (req.key = k => Stored(k) = req.val)
      BY <2>4, <2>5 DEF KS!Return, KS!OthersStay, Spoilt
    <3>4. req'.key # k /\ g[k] # None
      BY <1>1, <2>1, StoreAssumption DEF NoReq, KeepInv, CallersInv
    <3>5. CASE (\E u \in Tasks : k \in ToSet(u)) \/ \E u \in copying : k \in Changes(u)
      BY <1>1, <2>3, <3>2, <3>5 DEF Coming
    <3>6. CASE req.key = k /\ req.val = g[k]
      BY <1>1, <3>2, <3>3, <3>4, <3>6 DEF Coming, Agrees
    <3>7. CASE req.key # k /\ Agrees(k)
      BY <1>1, <3>2, <3>3, <3>4, <3>7 DEF Coming, Agrees
    <3> QED
      BY <3>1, <3>5, <3>6, <3>7 DEF Coming
  <2>6. up
    BY <1>3 DEF AgreeInv
  <2> QED
    BY <1>1, <2>5, <2>6, <2>7 DEF AgreeInv, Spoilt
<1>4. CASE ~(pc' = "idle" /\ holder # None)
  <2>1. UNCHANGED <<at, snap, holder>>
    BY <1>4 DEF Store
  <2>2. UNCHANGED req
    BY <1>1, <1>2, <1>4, StepKeepsReq DEF StoreInv, Control
  <2>6. Measured'
    BY <1>1, <1>5, <2>1 DEF Measured
  <2>3. ASSUME NEW k \in Keys \ Spoilt, req.key # k
        PROVE  Stored(k)' = Stored(k)
    <3>1. CASE KS!Effect
      BY <2>3, <3>1 DEF KS!Effect
    <3>2. CASE KS!Call \/ KS!Return \/ KS!Spoil \/ KS!Reset \/ KS!Decay
      BY <2>3, <3>2 DEF KS!Call, KS!Return, KS!Spoil, KS!Reset, KS!Decay, KS!OthersStay, Spoilt
    <3>3. CASE UNCHANGED KS!vars
      BY <2>3, <3>3 DEF KS!vars
    <3> QED
      BY <3>1, <3>2, <3>3 DEF KS!Next
  <2>4. \A u \in Tasks : ToSet(u)' = ToSet(u)
    BY <2>1 DEF ToSet
  <2>5. ASSUME up, NEW k \in Keys \ (Spoilt \cup crossed)
        PROVE  Formatted(k)' /\ Coming(k)'
    <3>1. Formatted(k) /\ Coming(k)
      BY <2>5 DEF AgreeInv
    <3>2. Formatted(k)'
      BY <1>1, <2>1, <2>4, <3>1 DEF Formatted
    <3> QED
      BY <1>1, <2>2, <2>3, <2>4, <3>1, <3>2 DEF Coming, Agrees
  <2> QED
    BY <1>1, <2>1, <2>5, <2>6 DEF AgreeInv, Spoilt
<1> QED
  BY <1>3, <1>4

\* cfg_load takes what it finds.
LEMMA AgreeLoad ==
    ASSUME AgreeInv, KeepInv', Load
    PROVE  AgreeInv'
<1>1. /\ ~up /\ pc = "idle" /\ UNCHANGED <<storeVars, at, copying, stale, holder, damaged, torn, crossed>>
      /\ \A k \in Keys : \E v \in Gets(k) : g'[k] = IF v = None THEN Default ELSE v
  BY DEF Load
<1>2. KeepInv /\ \A t \in Tasks : at'[t] = 0
  BY <1>1 DEF AgreeInv
<1>3. req' = NoReq
  BY <1>1, <1>2 DEF storeVars, KeepInv, CallersInv, StoreInv, Control
<1>4. ASSUME NEW k \in Keys \ Spoilt
      PROVE  Formatted(k)' /\ Coming(k)'
  <2>1. Gets(k) = {Stored(k)} /\ Stored(k)' = Stored(k)
    BY <1>1, <1>2, Answer, StoredSame
  <2>2. Agrees(k)'
    BY <1>1, <2>1 DEF Agrees
  <2>3. req'.key # k
    BY <1>3, StoreAssumption DEF NoReq
  <2> QED
    BY <1>2, <2>2, <2>3 DEF Formatted, Coming, ToSet
<1>5. Measured'
  BY <1>1 DEF AgreeInv, Measured
<1> QED
  BY <1>1, <1>2, <1>4, <1>5 DEF AgreeInv, Load, Spoilt

\* Every step.
LEMMA AgreeStep ==
    ASSUME AgreeInv, HasRoom, FirstReset', [Next]_vars
    PROVE  AgreeInv'
<1>1. KeepInv /\ KeepInv' /\ CallersInv'
  BY KeepStep DEF AgreeInv, KeepInv
<1>2. CASE \E t \in Tasks : Copy(t) \/ Save(t)
  BY <1>1, <1>2, AgreeCopy, AgreeSave
<1>3. CASE \E t \in Tasks : SetKey(t)
  BY <1>1, <1>3, AgreeSetKey, CallKept
<1>4. CASE Store
  BY <1>1, <1>4, AgreeStore, KeepStep
<1>5. CASE Load
  BY <1>1, <1>5, AgreeLoad
<1>6. CASE Reset
  BY <1>1, <1>6 DEF Reset, AgreeInv, Measured
<1>7. CASE UNCHANGED vars
  <2>1. UNCHANGED <<storeVars, req, g, at, snap, copying, stale, holder, up, damaged, torn, crossed>>
    BY <1>7 DEF vars, callers, storeVars
  <2>2. \A k \in Keys : Stored(k)' = Stored(k)
    BY <2>1, StoredSame
  <2> QED
    BY <1>1, <2>1, <2>2 DEF AgreeInv, Measured, Formatted, Coming, ToSet, Agrees, Spoilt
<1> QED
  BY <1>2, <1>3, <1>4, <1>5, <1>6, <1>7 DEF Next

-----------------------------------------------------------------------------
\* Between two requests, what is found of a key that nothing has spoilt is what is
\* stored.
LEMMA KeptAnswers ==
    ASSUME KeepInv
    PROVE  AnswersRight
BY Answer DEF AnswersRight, Spoilt

\* Between saves g_cfg has what is stored.
LEMMA AgreeMeans ==
    ASSUME AgreeInv, torn = {}
    PROVE  SettingsAgree
<1>1. ASSUME up, pc = "idle", copying = {}, \A t \in Tasks : at[t] = 0,
             NEW k \in Keys \ (damaged \cup crossed)
      PROVE  Agrees(k)
  <2>1. req = NoReq /\ Coming(k)
    BY <1>1 DEF AgreeInv, KeepInv, CallersInv, StoreInv, Control, Spoilt
  <2>2. req.key # k
    BY <2>1, StoreAssumption DEF NoReq
  <2> QED
    BY <1>1, <2>1, <2>2 DEF Coming, ToSet
<1> QED
  BY <1>1 DEF SettingsAgree, Agrees

\* The cache is never checked against a record's status, and a search takes the
\* first record that counts; still what ef_get_env answers between requests is what
\* is stored, up to the second reset, for every key that the first did not cut:
\* with three sectors or more and no string changed while the store was setting it.
THEOREM AnswersRightWithRoom == NSec >= 3 => (Spec => [](Untroubled => AnswersRight))
<1>1. (Untroubled => RoomKept) => (Untroubled => AnswersRight)
  BY KeptAnswers DEF RoomKept
<1> QED
  BY <1>1, RoomAlways, PTL

\* However the tasks' saves are interleaved, and wherever the first reset falls,
\* when no save is under way g_cfg holds what the next boot will load, but for what
\* a task changed while another save had formatted or measured it (cfg_save) and for
\* the key that the reset cut: with three sectors or more and no string changed
\* while the store was setting it.
THEOREM SettingsAgreeWithRoom == NSec >= 3 => (Spec => [](Untroubled => SettingsAgree))
<1> SUFFICES ASSUME NSec >= 3
             PROVE  Spec => [](Untroubled => SettingsAgree)
  OBVIOUS
<1> DEFINE Inv == resets \in 0 .. MaxResets /\ (Untroubled => AgreeInv)
<1>1. Init => Inv
  BY AgreeInit, SettingsAssumption DEF Init
<1>2. Inv /\ (Untroubled => RoomKept) /\ [Next]_vars => Inv'
  <2> SUFFICES ASSUME Inv, Untroubled => RoomKept, [Next]_vars PROVE Inv'
    OBVIOUS
  <2>1. resets' \in 0 .. MaxResets /\ (Untroubled' => Untroubled)
    BY UntroubledStep
  <2>2. ASSUME Untroubled' PROVE AgreeInv'
    <3>1. AgreeInv /\ HasRoom /\ FirstReset'
      BY <2>1, <2>2, RoomAll DEF Untroubled
    <3> QED
      BY <3>1, AgreeStep
  <2> QED
    BY <2>1, <2>2
<1>3. Inv => (Untroubled => SettingsAgree)
  BY AgreeMeans DEF Untroubled
<1> QED
  BY <1>1, <1>2, <1>3, RoomAlways, PTL DEF Spec
=============================================================================
