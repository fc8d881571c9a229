------------------------------- MODULE EnvStore -------------------------------
(***************************************************************************)
(* EasyFlash's environment store as the clock's build uses it (NG mode,    *)
(* sdk/components/stage/easyflash4/src/ef_env.c): key-value records        *)
(* appended to flash sectors, the status writes by which one record        *)
(* replaces another, garbage collection, and the recovery at boot.         *)
(*                                                                         *)
(* One step is one write to flash.  A sector has Cap slots of one record   *)
(* each: the lengths of records are not modelled, and a record that a      *)
(* reset cut short takes up a slot.  env_cache_lock admits one ef_set_env  *)
(* at a time.                                                              *)
(***************************************************************************)
EXTENDS Integers, Sequences, FiniteSets, FiniteSetsExt, Functions

CONSTANTS NSec,     \* SECTOR_NUM (8 in the clock, whose PSM has 0x8000 bytes)
          Cap,      \* records that fit in a sector
          Keys, Vals,
          None      \* no key, no value, no record

ASSUME StoreAssumption ==
    /\ NSec \in Nat /\ NSec >= 2
    /\ IsFiniteSet(Keys) /\ Cap \in Nat /\ Cap > Cardinality(Keys)
    /\ None \notin Vals /\ None \notin Keys /\ None \notin (1 .. NSec) \X (1 .. Cap)

Sectors == 1 .. NSec
Addrs == Sectors \X (1 .. Cap)

VARIABLES
    sec,        \* sector headers
    node,       \* the records of each sector, in the order of their addresses
    cache,      \* env_cache_table: address of a key's record
    gcReq,      \* gc_request
    gcFlag,     \* sector_hdr_gc_flag # DEFAULT_GC_FLAG
    recov,      \* in_recovery_check
    preDel,     \* last_is_complete_del of del_env
    pc,         \* the next write; "idle": the lock is free; "down": reset
    req,        \* the arguments of ef_set_env
    mv,         \* the record being written, whether its checksum is that of the
                \* bytes written, and the record it replaces
    gc,         \* gc_collect's iterators, and where it returns to
    pos         \* the recovery's iterator

flash == <<sec, node>>
ram == <<cache, gcReq, gcFlag, recov, preDel>>
storeVars == <<flash, ram, pc, req, mv, gc, pos>>

Fresh == [ok |-> TRUE, store |-> "empty", dirty |-> "no", gc |-> FALSE]
Junk == [st |-> "deleted", key |-> None, val |-> None, data |-> "all"]
NoReq == [key |-> None, val |-> None]
NoMove == [key |-> None, val |-> None, src |-> None, dst |-> 0, crc |-> TRUE]
NoGc == [at |-> 0, slot |-> 0, pair |-> FALSE, ret |-> "none"]
Start == <<1, 0>>

StoreInit ==
    /\ sec = [s \in Sectors |-> Fresh]
    /\ node = [s \in Sectors |-> <<>>]
    /\ cache = [k \in Keys |-> None]
    /\ gcReq = FALSE /\ gcFlag = FALSE /\ recov = FALSE /\ preDel = FALSE
    /\ pc = "idle" /\ req = NoReq /\ mv = NoMove /\ gc = NoGc /\ pos = Start

-----------------------------------------------------------------------------
(* What the code reads of the flash. *)

At(a) == node[a[1]][a[2]]
Before(a, b) == a[1] < b[1] \/ (a[1] = b[1] /\ a[2] < b[2])
First(A) == CHOOSE a \in A : \A b \in A : b = a \/ Before(a, b)
Last(A) == CHOOSE a \in A : \A b \in A : b = a \/ Before(b, a)

\* The records env_iterator comes by, in sectors in use.
Visited == {a \in UNION {{s} \X DOMAIN node[s] : s \in Sectors} :
              /\ sec[a[1]].ok /\ sec[a[1]].store # "empty"
              /\ At(a).data # "none"}

\* Complete records (the checksum is right) of a key in a status.
Having(k, st) == {a \in Visited : At(a).data = "all" /\ At(a).st = st /\ At(a).key = k}

\* find_env_no_cache
FirstLive(k) == IF Having(k, "write") = {} THEN None ELSE First(Having(k, "write"))

\* get_env_from_cache compares the name at the cached address, not the status;
\* other keys may have displaced the entry.
CacheHit(k) == /\ cache[k] # None
               /\ cache[k][2] <= Len(node[cache[k][1]])
               /\ At(cache[k]).key = k
Finds(k) == {FirstLive(k)} \cup IF CacheHit(k) THEN {cache[k]} ELSE {}
Gets(k) == {IF a = None THEN None ELSE At(a).val : a \in Finds(k)}

Empties == {s \in Sectors : sec[s].ok /\ sec[s].store = "empty"}
\* Mutant of Roomy: full sectors are taken too.
RoomyUnchecked == {s \in Sectors :
                     /\ sec[s].ok /\ sec[s].store # "empty"
                     /\ sec[s].dirty = "no" \/ (sec[s].dirty = "yes" /\ ~gcReq)}

\* Sectors in use with room; dirty ones only while no collection is due.
Roomy == {s \in Sectors :
            /\ sec[s].ok /\ sec[s].store = "using" /\ Len(node[s]) < Cap
            /\ sec[s].dirty = "no" \/ (sec[s].dirty = "yes" /\ ~gcReq)}

\* alloc_env: a sector in use with room, else an empty one, but the last one
\* only when a collection is due.
Alloc == IF Roomy # {} THEN Min(Roomy)
         ELSE IF Empties # {} /\ (gcReq \/ Cardinality(Empties) > 1) THEN Min(Empties)
         ELSE 0
AllocAsksGc == Alloc = 0 /\ Empties # {}

-----------------------------------------------------------------------------
(* Single writes, and calls. *)

Write(a, r) == node' = [node EXCEPT ![a[1]][a[2]] = r]

\* A record that is no more keeps its name, which only a cache entry can tell.
Gone(a) == IF cache'[At(a).key] = a THEN [At(a) EXCEPT !.st = "deleted", !.val = None]
           ELSE Junk
Status(a, st) == Write(a, [At(a) EXCEPT !.st = st])
Dst == <<mv.dst, Len(node[mv.dst])>>

Setting == gc.ret = "none" /\ ~recov
CallGc(ret) == pc' = "gc" /\ gc' = [NoGc EXCEPT !.ret = ret] /\ mv' = NoMove
Unlock == pc' = "idle" /\ req' = NoReq /\ mv' = NoMove

\* Mutant of GcReturn: the request for a collection stays.
GcReturnStillDue ==
    /\ gcReq' = gcReq
    /\ gc' = NoGc
    /\ pc' = gc.ret
    /\ req' = IF gc.ret = "idle" THEN NoReq ELSE req
    /\ mv' = NoMove

\* gc_collect ends: back to new_env, set_env or ef_load_env.
GcReturn ==
    /\ gcReq' = FALSE
    /\ gc' = NoGc
    /\ pc' = gc.ret
    /\ req' = IF gc.ret = "idle" THEN NoReq ELSE req
    /\ mv' = NoMove

-----------------------------------------------------------------------------
(* set_env, and the steps that it shares with move_env. *)

\* ef_set_env_blob takes the lock.
SetReq(k, v) ==
    /\ pc = "idle"
    /\ pc' = "alloc"
    /\ req' = [key |-> k, val |-> v]
    /\ UNCHANGED <<flash, ram, mv, gc, pos>>

\* create_env_blob reads the value where the caller keeps it, for the checksum
\* and again to write it.  Until then another task may change it: what is read
\* may be anything, and not what the checksum was made of.
ValueDue == \/ pc \in {"alloc", "again"} \/ gc.ret = "again"
            \/ Setting /\ pc \in {"predel", "premark", "secst", "prewrite", "head", "body"}
ValueChanges ==
    /\ \/ /\ pc \in {"alloc", "again"} \/ gc.ret = "again"
          /\ \E v \in Vals : req' = [req EXCEPT !.val = v]
          /\ UNCHANGED mv
       \/ /\ Setting /\ pc \in {"predel", "premark", "secst", "prewrite"}
          /\ \E v \in Vals : req' = [req EXCEPT !.val = v] /\ mv' = [mv EXCEPT !.val = v]
       \/ /\ Setting /\ pc \in {"prewrite", "head", "body"}
          /\ mv' = [mv EXCEPT !.crc = FALSE]
          /\ UNCHANGED req
    /\ UNCHANGED <<flash, ram, pc, gc, pos>>

\* new_env ("again" is its retry after a collection), then find_env.  When the
\* retry fails too the call returns EF_ENV_FULL; what follows is not modelled
\* (RoomForAll).
SetAlloc ==
    /\ pc \in {"alloc", "again"}
    /\ \/ /\ Alloc # 0
          /\ \E a \in Finds(req.key) :
                /\ mv' = [key |-> req.key, val |-> req.val, src |-> a, dst |-> Alloc, crc |-> TRUE]
                /\ pc' = IF a = None THEN "secst" ELSE "predel"
                /\ cache' = [cache EXCEPT ![req.key] = a]
          /\ UNCHANGED <<gcReq, gc>>
       \/ /\ Alloc = 0
          /\ gcReq' = (pc = "alloc" /\ (gcReq \/ AllocAsksGc))
          /\ IF gcReq' THEN CallGc("again") ELSE pc' = "full" /\ UNCHANGED <<mv, gc>>
          /\ UNCHANGED cache
    /\ UNCHANGED <<flash, gcFlag, recov, preDel, req, pos>>

\* del_env(.., false) ...
PreDelete ==
    /\ pc = "predel"
    /\ Status(mv.src, "predelete")
    /\ preDel' = TRUE
    /\ pc' = IF sec[mv.src[1]].dirty = "no" THEN "premark"
             ELSE IF Setting THEN "secst" ELSE "malloc"
    /\ UNCHANGED <<sec, cache, gcReq, gcFlag, recov, req, mv, gc, pos>>

\* ... and the dirty mark of the sector.
DirtyMark ==
    /\ pc \in {"premark", "postmark"}
    /\ sec' = [sec EXCEPT ![mv.src[1]].dirty = "yes"]
    /\ pc' = CASE pc = "postmark" -> "after"
               [] pc = "premark" /\ Setting -> "secst"
               [] OTHER -> "malloc"
    /\ UNCHANGED <<node, ram, req, mv, gc, pos>>

\* update_sec_status: a second record that leaves no room makes the sector full.
SectorStatus ==
    /\ pc = "secst"
    /\ sec' = [sec EXCEPT ![mv.dst].store =
                 IF @ = "using" /\ Len(node[mv.dst]) + 1 = Cap THEN "full" ELSE "using"]
    /\ pc' = "prewrite"
    /\ UNCHANGED <<node, ram, req, mv, gc, pos>>

\* The status comes first, then the header with magic word and length ...
PreWrite ==
    /\ pc = "prewrite"
    /\ node' = [node EXCEPT ![mv.dst] = Append(@, [st |-> "prewrite", key |-> mv.key,
                                                   val |-> mv.val, data |-> "none"])]
    /\ pc' = "head"
    /\ UNCHANGED <<sec, ram, req, mv, gc, pos>>

WriteHead ==
    /\ pc = "head"
    /\ Write(Dst, [At(Dst) EXCEPT !.data = "part"])
    /\ pc' = "body"
    /\ UNCHANGED <<sec, ram, req, mv, gc, pos>>

\* Mutant of WriteBody: the cache is not told.
WriteBodyUncached ==
    /\ pc = "body"
    /\ Write(Dst, [At(Dst) EXCEPT !.data = IF mv.crc THEN "all" ELSE "part"])
    /\ pc' = "write"
    /\ UNCHANGED <<sec, ram, req, mv, gc, pos>>

\* ... then name and value (move_env tells the cache one write later).  A value
\* that is not the one of the checksum leaves a record as incomplete ...
WriteBody ==
    /\ pc = "body"
    /\ Write(Dst, [At(Dst) EXCEPT !.data = IF mv.crc THEN "all" ELSE "part"])
    /\ cache' = [cache EXCEPT ![mv.key] = Dst]
    /\ pc' = "write"
    /\ UNCHANGED <<sec, gcReq, gcFlag, recov, preDel, req, mv, gc, pos>>

\* ... then the status that makes the record count.  Only create_env_blob asks
\* for a collection when the sector became full, move_env does not.
WriteStatus ==
    /\ pc = "write"
    /\ Status(Dst, "write")
    /\ gcReq' = (gcReq \/ (Setting /\ sec[mv.dst].store = "full"))
    /\ pc' = IF mv.src = None THEN "after" ELSE "del"
    /\ UNCHANGED <<sec, cache, gcFlag, recov, preDel, req, mv, gc, pos>>

\* del_env(.., true): without a del_env(.., false) before it, the key's cache
\* entry goes too.
Delete ==
    /\ pc = "del"
    /\ cache' = IF preDel THEN cache ELSE [cache EXCEPT ![mv.key] = None]
    /\ Write(mv.src, Gone(mv.src))
    /\ preDel' = FALSE
    /\ pc' = IF sec[mv.src[1]].dirty = "no" THEN "postmark" ELSE "after"
    /\ UNCHANGED <<sec, gcReq, gcFlag, recov, req, mv, gc, pos>>

\* After a set, read_hdr_gc and perhaps a collection; after a move, the
\* iterator that moved it.
After ==
    /\ pc = "after"
    /\ IF Setting
       THEN /\ gcFlag' = \E s \in Sectors : sec[s].gc
            /\ IF gcReq \/ gcFlag'
               THEN CallGc("idle") /\ UNCHANGED req
               ELSE Unlock /\ UNCHANGED gc
       ELSE /\ pc' = IF recov /\ gc.ret = "none" THEN "rscan" ELSE "gcnode"
            /\ mv' = NoMove
            /\ UNCHANGED <<gcFlag, req, gc>>
    /\ UNCHANGED <<flash, cache, gcReq, recov, preDel, pos>>

-----------------------------------------------------------------------------
(* gc_collect and move_env. *)

Collectable(s) == sec[s].ok /\ sec[s].dirty # "no"

\* Mutant of GcStart: it waits until no sector is empty.
GcStartLate ==
    /\ pc = "gc"
    /\ IF Cardinality(Empties) < 1 \/ gcFlag
       THEN /\ pc' = IF gcFlag THEN "gcsec" ELSE "gcflag"
            /\ gc' = [gc EXCEPT !.pair = ~gcFlag]
            /\ UNCHANGED <<gcReq, req, mv>>
       ELSE GcReturn
    /\ UNCHANGED <<flash, cache, gcFlag, recov, preDel, pos>>

\* Few empty sectors left: flag every dirty sector, then collect two of them.
\* Flags left from then: collect one sector.
GcStart ==
    /\ pc = "gc"
    /\ IF Cardinality(Empties) <= 1 \/ gcFlag
       THEN /\ pc' = IF gcFlag THEN "gcsec" ELSE "gcflag"
            /\ gc' = [gc EXCEPT !.pair = ~gcFlag]
            /\ UNCHANGED <<gcReq, req, mv>>
       ELSE GcReturn
    /\ UNCHANGED <<flash, cache, gcFlag, recov, preDel, pos>>

GcFlagNext ==
    /\ pc = "gcflag"
    /\ LET todo == {s \in Sectors : Collectable(s) /\ ~sec[s].gc}
       IN IF todo # {}
          THEN sec' = [sec EXCEPT ![Min(todo)].gc = TRUE] /\ UNCHANGED pc
          ELSE pc' = "gcsec" /\ UNCHANGED sec
    /\ UNCHANGED <<node, ram, req, mv, gc, pos>>

\* do_gc: the next flagged sector.
GcSector ==
    /\ pc = "gcsec"
    /\ LET todo == {s \in Sectors : s > gc.at /\ Collectable(s) /\ sec[s].gc}
       IN IF todo # {}
          THEN /\ sec' = [sec EXCEPT ![Min(todo)].dirty = "gc"]
               /\ gc' = [gc EXCEPT !.at = Min(todo), !.slot = 0]
               /\ pc' = "gcnode"
               /\ UNCHANGED <<gcReq, req, mv>>
          ELSE GcReturn /\ UNCHANGED sec
    /\ UNCHANGED <<node, cache, gcFlag, recov, preDel, pos>>

\* Begin to move a record.
Move(a) == mv' = [key |-> At(a).key, val |-> At(a).val, src |-> a, dst |-> 0, crc |-> TRUE]

\* Its next record worth keeping.
GcNode ==
    /\ pc = "gcnode"
    /\ LET todo == {a \in Visited : /\ a[1] = gc.at /\ a[2] > gc.slot
                                    /\ At(a).data = "all"
                                    /\ At(a).st \in {"write", "predelete"}}
           a == First(todo)
       IN IF todo # {}
          THEN /\ Move(a)
               /\ gc' = [gc EXCEPT !.slot = a[2]]
               /\ pc' = IF At(a).st = "write" THEN "predel" ELSE "malloc"
          ELSE pc' = "erase" /\ UNCHANGED <<mv, gc>>
    /\ UNCHANGED <<flash, ram, req, pos>>

\* move_env's alloc_env.  Failing, it leaves the record where it is, which in a
\* collection is lost with its sector (RoomForAll).  In the recovery a key that
\* has a record that counts needs no other.
MoveAlloc ==
    /\ pc = "malloc"
    /\ gcReq' = (gcReq \/ AllocAsksGc)
    /\ \/ /\ Alloc = 0
          /\ pc' = IF gc.ret = "none" THEN "rstop" ELSE "gcnode"
          /\ mv' = NoMove
       \/ /\ Alloc # 0 /\ recov /\ FirstLive(mv.key) # None
          /\ pc' = "del"
          /\ UNCHANGED mv
       \/ /\ Alloc # 0 /\ ~(recov /\ FirstLive(mv.key) # None)
          /\ pc' = "secst"
          /\ mv' = [mv EXCEPT !.dst = Alloc]
    /\ UNCHANGED <<flash, cache, gcFlag, recov, preDel, req, gc, pos>>

\* format_sector: erase, then the new header.
EraseSector ==
    /\ pc = "erase"
    /\ sec' = [sec EXCEPT ![gc.at] = [Fresh EXCEPT !.ok = FALSE]]
    /\ node' = [node EXCEPT ![gc.at] = <<>>]
    /\ pc' = "format"
    /\ UNCHANGED <<ram, req, mv, gc, pos>>

FormatSector ==
    /\ pc = "format"
    /\ sec' = [sec EXCEPT ![gc.at] = Fresh]
    /\ IF gc.pair
       THEN /\ gc' = [gc EXCEPT !.pair = FALSE]
            /\ pc' = "gcsec"
            /\ UNCHANGED <<gcReq, req, mv>>
       ELSE GcReturn
    /\ UNCHANGED <<node, cache, gcFlag, recov, preDel, pos>>

-----------------------------------------------------------------------------
(* Reset, and ef_load_env. *)

\* A record whose magic word was not written is never seen again.
StoreReset ==
    /\ pc # "down"
    /\ pc' = "down"
    /\ node' = [s \in Sectors |-> [i \in DOMAIN node[s] |->
                   IF node[s][i].data = "none" THEN Junk ELSE node[s][i]]]
    /\ cache' = [k \in Keys |-> None]
    /\ gcReq' = FALSE /\ gcFlag' = FALSE /\ recov' = FALSE /\ preDel' = FALSE
    /\ req' = NoReq /\ mv' = NoMove /\ gc' = NoGc /\ pos' = Start
    /\ UNCHANGED sec

\* check_sec_hdr_cb formats sectors without a header.
LoadHeaders ==
    /\ pc = "down"
    /\ sec' = [s \in Sectors |-> IF sec[s].ok THEN sec[s] ELSE Fresh]
    /\ recov' = TRUE
    /\ pc' = "rgc"
    /\ UNCHANGED <<node, cache, gcReq, gcFlag, preDel, req, mv, gc, pos>>

\* check_and_recovery_gc_cb: resume an interrupted collection.
LoadGc ==
    /\ pc = "rgc"
    /\ LET todo == {s \in Sectors : s >= pos[1] /\ Collectable(s) /\ sec[s].dirty = "gc"}
       IN IF todo # {}
          THEN /\ gcReq' = TRUE
               /\ CallGc("rgc")
               /\ pos' = <<Min(todo) + 1, 0>>
          ELSE /\ pc' = "rscan"
               /\ pos' = Start
               /\ UNCHANGED <<gcReq, gc, mv>>
    /\ UNCHANGED <<flash, cache, gcFlag, recov, preDel, req>>

\* Mutant of Unfinished: records that were to be deleted are left alone.
UnfinishedNew(r) == r.st = "prewrite"

Unfinished(r) == r.st = "prewrite" \/ (r.st = "predelete" /\ r.data = "all")

\* check_and_recovery_env_cb: move a record that was to be deleted; an
\* unfinished record becomes an error, and ends the iteration.
LoadScan ==
    /\ pc = "rscan"
    /\ LET todo == {a \in Visited : Before(pos, a) /\ Unfinished(At(a))}
           a == First(todo)
       IN IF todo = {} THEN pc' = "rstop" /\ UNCHANGED <<node, mv, pos>>
          ELSE /\ pos' = a
               /\ \/ /\ At(a).st = "predelete"
                     /\ Move(a)
                     /\ pc' = "malloc"
                     /\ UNCHANGED node
                  \/ /\ At(a).st = "prewrite"
                     /\ Write(a, Junk)
                     /\ pc' = "rstop"
                     /\ UNCHANGED mv
    /\ UNCHANGED <<sec, ram, req, gc>>

\* The iteration ended: collect and try again, or go on to prefetch the cache.
LoadEnd ==
    /\ pc = "rstop"
    /\ pos' = Start
    /\ IF gcReq
       THEN CallGc("rscan") /\ UNCHANGED <<cache, recov>>
       ELSE /\ pc' = "idle"
            /\ recov' = FALSE
            /\ cache' = [k \in Keys |-> IF Having(k, "write") = {} THEN None
                                        ELSE Last(Having(k, "write"))]
            /\ UNCHANGED <<gc, mv>>
    /\ UNCHANGED <<flash, gcReq, gcFlag, preDel, req>>

StoreStep ==
    \/ SetAlloc \/ PreDelete \/ DirtyMark
    \/ SectorStatus \/ PreWrite \/ WriteHead \/ WriteBody \/ WriteStatus \/ Delete \/ After
    \/ GcStart \/ GcFlagNext \/ GcSector \/ GcNode \/ MoveAlloc \/ EraseSector \/ FormatSector
    \/ LoadHeaders \/ LoadGc \/ LoadScan \/ LoadEnd
=============================================================================
