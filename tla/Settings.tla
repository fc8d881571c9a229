------------------------------- MODULE Settings -------------------------------
(***************************************************************************)
(* The clock's settings: g_cfg in RAM, cfg_load at boot, and cfg_save,     *)
(* which the command handlers of xcmd/xcmd.c (in the event loop) and       *)
(* handle_save of xcmd/provision.c (in the HTTP worker) call after they    *)
(* changed g_cfg.  It sets key after key in the store of EnvStore; a reset *)
(* may come at any time.                                                   *)
(***************************************************************************)
EXTENDS EnvStore

CONSTANTS Order,        \* the keys in the order of cfg_save
          Strings,      \* keys set from g_cfg itself; numbers are formatted first
          Tasks,        \* the tasks that call cfg_save
          Changes(_),   \* the keys whose settings a task's handlers change
          Default,      \* cfg_load_default
          MaxTears,     \* bound: changes of a string that the store is setting
          MaxResets,    \* bound: resets in a behaviour
          MaxAfter      \* bound: saves after the last of them

ASSUME SettingsAssumption ==
    /\ Order \in Seq(Keys) /\ Len(Order) > 0
    /\ \A k \in Keys : \E i \in DOMAIN Order : Order[i] = k
    /\ Strings \subseteq Keys
    /\ Default \in Vals /\ None \notin Tasks
    /\ MaxResets \in Nat /\ MaxAfter \in Nat /\ MaxTears \in Nat

VARIABLES
    g,          \* g_cfg
    at,         \* each task's place in cfg_save, 0 when it is in none
    snap,       \* the numbers as it formatted them there
    copying,    \* the tasks whose handlers are copying strings into g_cfg
    stale,      \* the tasks at a string that was changed when its length was known
    holder,     \* the task whose ef_set_env holds the lock
    up,         \* cfg_load is done
    damaged,    \* history: keys a reset cut while their old record lay ahead
    torn,       \* history: strings changed while the store was setting them
    crossed,    \* history: settings changed while the other task, which had
                \* formatted or measured them, had yet to set them
    tears, resets, after    \* what is left of the bounds

Numbers == Keys \ Strings
NoSnap == [k \in Numbers |-> Default]

callers == <<at, snap, copying, stale, holder, up>>
bounds == <<tears, resets, after>>
vars == <<storeVars, g, callers, damaged, torn, crossed, bounds>>

TypeOK ==
    /\ sec \in [Sectors -> [ok : BOOLEAN, store : {"empty", "using", "full"},
                            dirty : {"no", "yes", "gc"}, gc : BOOLEAN]]
    /\ \A s \in Sectors : Len(node[s]) <= Cap
    /\ cache \in [Keys -> Addrs \cup {None}]
    /\ g \in [Keys -> Vals]
    /\ at \in [Tasks -> 0 .. Len(Order)]
    /\ snap \in [Tasks -> [Numbers -> Vals]]
    /\ holder \in Tasks \cup {None}
    /\ holder # None <=> req # NoReq
    /\ copying \subseteq Tasks /\ stale \subseteq Tasks
    /\ up \in BOOLEAN
    /\ damaged \subseteq Keys /\ torn \subseteq Keys /\ crossed \subseteq Keys

Init ==
    /\ StoreInit
    /\ g = [k \in Keys |-> Default]
    /\ at = [t \in Tasks |-> 0]
    /\ snap = [t \in Tasks |-> NoSnap]
    /\ copying = {} /\ stale = {}
    /\ holder = None
    /\ up = TRUE
    /\ damaged = {} /\ torn = {} /\ crossed = {}
    /\ tears = MaxTears /\ resets = MaxResets /\ after = MaxAfter

\* The keys that u's cfg_save has yet to hand to the store, and those of them of
\* which it already has the number, or the string's length.
ToSet(u) ==
    IF at[u] = 0 THEN {}
    ELSE {Order[i] : i \in (IF holder = u THEN at[u] + 1 ELSE at[u]) .. Len(Order)}
Pending(u) == {k \in ToSet(u) : k \in Numbers \/ k = Order[at[u]]}

\* A handler of t changes the strings S, which the other task may be about to set, or
\* setting.
Change(t, S) ==
    /\ stale' = stale \cup {u \in Tasks \ {t} : at[u] # 0 /\ holder # u /\ Order[at[u]] \in S}
    /\ IF req.key \in S /\ ValueDue
       THEN /\ tears > 0
            /\ tears' = tears - 1
            /\ torn' = torn \cup {req.key}
            /\ ValueChanges
       ELSE UNCHANGED <<storeVars, torn, tears>>

\* It begins to.
Copy(t) ==
    /\ up /\ at[t] = 0 /\ t \notin copying
    /\ resets = 0 => after > 0
    /\ after' = IF resets = 0 THEN after - 1 ELSE after
    /\ copying' = copying \cup {t}
    /\ Change(t, Changes(t) \cap Strings)
    /\ UNCHANGED <<g, at, snap, holder, up, damaged, crossed, resets>>

\* Mutant of Save: the numbers are formatted before they are assigned.
SaveFormatsFirst(t) ==
    /\ t \in copying
    /\ copying' = copying \ {t}
    /\ g' \in [Keys -> Vals]
    /\ \A k \in Keys : g'[k] # g[k] <=> k \in Changes(t)
    /\ snap' = [snap EXCEPT ![t] = [k \in Numbers |-> g[k]]]
    /\ at' = [at EXCEPT ![t] = 1]
    /\ Change(t, Changes(t) \cap Strings)
    /\ crossed' = (crossed \ Changes(t))
                  \cup (Changes(t) \cap UNION {Pending(u) : u \in Tasks \ {t}})
    /\ UNCHANGED <<holder, up, damaged, resets, after>>

\* The strings are complete; it assigns the numbers and enters cfg_save, which
\* formats them.  (What the other task does between the two might as well come
\* before; a number that keeps its value is stored like one that does not.)
Save(t) ==
    /\ t \in copying
    /\ copying' = copying \ {t}
    /\ g' \in [Keys -> Vals]
    /\ \A k \in Keys : g'[k] # g[k] <=> k \in Changes(t)
    /\ snap' = [snap EXCEPT ![t] = [k \in Numbers |-> g'[k]]]
    /\ at' = [at EXCEPT ![t] = 1]
    /\ Change(t, Changes(t) \cap Strings)
    /\ crossed' = (crossed \ Changes(t))
                  \cup (Changes(t) \cap UNION {Pending(u) : u \in Tasks \ {t}})
    /\ UNCHANGED <<holder, up, damaged, resets, after>>

\* What cfg_save passes for a key: a string in place, with the length it had.  A
\* string half copied, or of the wrong length, may be anything.
Values(t, k) ==
    IF k \in Numbers THEN {snap[t][k]}
    ELSE IF t \in stale \/ \E u \in copying : k \in Changes(u) THEN Vals ELSE {g[k]}

SetKey(t) ==
    /\ up /\ at[t] # 0
    /\ \E v \in Values(t, Order[at[t]]) : SetReq(Order[at[t]], v)
    /\ holder' = t
    /\ stale' = stale \ {t}
    /\ UNCHANGED <<g, at, snap, copying, up, damaged, torn, crossed, bounds>>

\* The store works; when it frees the lock the caller goes on to the next key,
\* or answers OK after the last.
Store ==
    /\ StoreStep
    /\ IF pc' = "idle" /\ holder # None
       THEN /\ IF at[holder] = Len(Order)
               THEN at' = [at EXCEPT ![holder] = 0] /\ snap' = [snap EXCEPT ![holder] = NoSnap]
               ELSE at' = [at EXCEPT ![holder] = @ + 1] /\ UNCHANGED snap
            /\ holder' = None
       ELSE UNCHANGED <<at, snap, holder>>
    /\ UNCHANGED <<g, copying, stale, up, damaged, torn, crossed, bounds>>

\* cfg_load: what the store does not know keeps its default.
Load ==
    /\ ~up /\ pc = "idle"
    /\ g' \in [Keys -> Vals]
    /\ \A k \in Keys : \E v \in Gets(k) : g'[k] = IF v = None THEN Default ELSE v
    /\ up' = TRUE
    /\ UNCHANGED <<storeVars, at, snap, copying, stale, holder, damaged, torn, crossed, bounds>>

\* The iteration of the recovery will end at an unfinished record, before it
\* comes to the record that this one was to replace.
Endangered ==
    {k \in Keys : \E a, b \in Visited :
        /\ At(a).st = "prewrite" /\ At(b).st = "predelete" /\ At(b).key = k
        /\ Before(a, b)}

Reset ==
    /\ resets > 0
    /\ resets' = resets - 1
    /\ StoreReset
    /\ at' = [t \in Tasks |-> 0]
    /\ g' = [k \in Keys |-> Default] /\ snap' = [t \in Tasks |-> NoSnap]
    /\ copying' = {} /\ stale' = {} /\ holder' = None /\ up' = FALSE
    /\ damaged' = damaged \cup Endangered
    /\ crossed' = {}
    /\ UNCHANGED <<torn, tears, after>>

Next ==
    \/ \E t \in Tasks : Copy(t) \/ Save(t) \/ SetKey(t)
    \/ Store \/ Load
    \/ Reset

\* The task that holds the lock, and the boot, go on.
Spec == Init /\ [][Next]_vars /\ WF_vars(Store) /\ WF_vars(Load)

-----------------------------------------------------------------------------
\* The value of a key that the flash holds: the record that counts, or the one
\* being replaced.
Kept(k, st) == {r \in UNION {Range(node[s]) : s \in Sectors} :
                  r.key = k /\ r.st = st /\ r.data = "all"}
Stored(k) ==
    CASE Kept(k, "write") # {} -> (CHOOSE r \in Kept(k, "write") : TRUE).val
      [] Kept(k, "write") = {} /\ Kept(k, "predelete") # {} ->
             IF mv.src # None /\ mv.key = k THEN At(mv.src).val
             ELSE (CHOOSE r \in Kept(k, "predelete") : TRUE).val
      [] OTHER -> None

KS == INSTANCE KeyStore WITH cur <- [k \in Keys |-> Stored(k)], damaged <- damaged \cup torn

\* The store keeps what KeyStore promises, through collections and resets.
StoreKept == KS!Spec

\* No ef_set_env fails for want of room, no collection throws a record away because
\* there is none to move it to, and a recovery without room can collect.
HasRoom ==
    /\ pc # "full"
    /\ pc = "malloc" => Alloc # 0 \/ (gc.ret = "none" /\ Empties # {})

\* Up to the second reset (which may leave less room than collections need) the
\* store has room for every set and every collection.
RoomForAll == MaxResets - resets <= 1 => HasRoom

\* What ef_get_env finds, by the cache or by a search, is what is stored, unless a
\* reset or another task cut into the set.
AnswersRight == pc = "idle" => \A k \in Keys \ (damaged \cup torn) : Gets(k) = {Stored(k)}

\* When no save is under way, RAM and store agree: also about a string that one
\* task changed while the other was storing it, since its own save comes after.
SettingsAgree ==
    up /\ pc = "idle" /\ copying = {} /\ (\A t \in Tasks : at[t] = 0) =>
        \A k \in Keys \ (damaged \cup crossed) :
            g[k] = IF Stored(k) = None THEN Default ELSE Stored(k)

\* Every ef_set_env and every recovery ends.
StoreSettles == pc # "idle" ~> pc = "idle"
=============================================================================
