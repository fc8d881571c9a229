------------------------------ MODULE RoomProofs ------------------------------
(***************************************************************************)
(* The store never runs out of room: for any number of sectors from three  *)
(* on, records to a sector, keys, values and tasks, and for any number of  *)
(* saves, up to the second reset, while no string is changed within the    *)
(* set that stores it.                                                     *)
(***************************************************************************)
EXTENDS KeepProofs

\* Sectors in use that nothing has marked dirty, that a collection was asked to
\* collect, and that alloc_env may take while none is due.
Tidy == {s \in Sectors : sec[s].ok /\ sec[s].store # "empty" /\ sec[s].dirty = "no"}
Flagged == {s \in Sectors : sec[s].gc}
Ready == {s \in Sectors : /\ sec[s].ok /\ sec[s].store = "using" /\ Len(node[s]) < Cap
                          /\ sec[s].dirty # "gc"}

\* How many sectors are empty, or tidy.
Two == \E x, y \in Empties : x # y
Three == \E x, y, z \in Empties : x # y /\ x # z /\ y # z
Pile == \E s, t \in Tidy : s # t

\* Slots whose record does not count, nor will when its write is done.
DeadSlots == {a \in Used : At(a).st # "write" /\ ~Unfinish(a)}
Dead(s) == {a \in DeadSlots : a[1] = s}

\* Such slots in tidy sectors, but for the one that is about to be marked: only
\* a reset leaves any.
Stale == {a \in DeadSlots : a[1] \in Tidy /\ ~(pc \in {"premark", "postmark"} /\ a = mv.src)}

\* Its header says whether a sector has room.
Fits(s) == s \in Ready \/ Len(node[s]) = Cap \/ (pc = "prewrite" /\ s = mv.dst)

\* A sector with no dead slot takes all records that are elsewhere; in the
\* recovery every tidy one does.
Spacious == \E s \in Tidy : Dead(s) = {}
Good == Spacious \/ (recov /\ Tidy # {})

\* The records of a key, counting the new one instead of the one it replaces
\* from its header on.
Copies(k) == {a \in Used : At(a).key = k /\
                \/ /\ At(a).st \in {"write", "predelete"} /\ At(a).data = "all"
                   /\ ~(a = mv.src /\ pc \in {"head", "body", "write", "del"})
                \/ Unfinish(a)}

\* After the recovery, a key that the reset damaged has two records, or one
\* that was to be deleted and that a collection will revive.
Hurt == ~recov /\ pc # "down" /\ \E k \in damaged : Rest(k) # {} \/ \E a, b \in Copies(k) : a # b

\* In the recovery, such a key still has a record that was to be deleted.
Left == \E k \in damaged : \E a \in Old(k) : ~(a = mv.src /\ pc \in Writes \cup {"del"})

\* A sector that takes the records that are elsewhere while no collection is
\* due: during a set, and after it.
Usable(s) == /\ sec[s].ok /\ sec[s].store # "empty" /\ sec[s].dirty # "gc" /\ ~sec[s].gc
             /\ Fits(s)
AmpleFor == \E s \in Sectors :
    Usable(s) /\ Dead(s) \subseteq {mv.src} /\ (Hurt => mv.src = None \/ mv.src[1] # s)
Ample == \E s \in Sectors : Usable(s) /\ (\A a, b \in Dead(s) : a = b) /\ (Hurt => Dead(s) = {})

AllFlagged == \A s \in Sectors : sec[s].dirty # "no" => sec[s].gc
Handling == Moving \cup {"gcnode", "erase", "format"}
Opening == {"predel", "premark", "secst"}
Waiting == {"idle", "alloc", "again"}

Shape ==
    /\ resets \in 0 .. MaxResets
    /\ \A s \in Tidy : Fits(s)
    /\ pc = "prewrite" => sec[mv.dst].store = "using" \/ Len(node[mv.dst]) + 1 = Cap
    /\ \A a, b \in Stale : a = b
    /\ \A s \in Flagged : sec[s].dirty # "no"
    /\ \A s \in Sectors : sec[s].ok \/ pc = "down" \/ (pc = "format" /\ s = gc.at)
    /\ pc = "format" => ~sec[gc.at].ok
    /\ recov \/ pc = "down" => (\A k \in Keys : (\E a, b \in Copies(k) : a # b) => Stale = {})

\* Between collections: one empty sector is left for the next.  Sectors are
\* flagged from an earlier one only while there are two, or room enough to
\* collect one without the last empty sector.
Calls == gc.ret = "none" /\ ~recov /\ pc # "down" =>
    /\ Empties # {}
    /\ gcReq => pc \in {"del", "postmark", "after"} /\ sec[mv.dst].store = "full"
    /\ pc \in Waiting /\ (Flagged # {} \/ gcFlag) =>
           Two \/ (~Hurt /\ (Spacious \/ (~gcFlag /\ Ready = {})))
    /\ pc = "again" => Two \/ Ready # {} \/ Pile
    /\ pc \in Opening => mv.dst \in Ready \cup Empties /\ (mv.dst \in Empties => Two)
    /\ pc \in Moving /\ Flagged # {} =>
           /\ Two \/ AmpleFor \/ (pc \in Opening /\ mv.dst \in Empties)
           /\ Hurt /\ (pc \in Opening \/ sec[mv.dst].store = "full") => Two

\* During one: an empty sector, or room in the one that was taken.
Collects == gc.ret # "none" =>
    /\ recov \/ ~gcFlag => gcReq
    /\ recov \/ gc.ret = "again" \/ gc.pair => ~gcFlag
    /\ pc = "gc" => /\ Empties # {} \/ (recov /\ Tidy # {} /\ \E s \in Sectors : sec[s].dirty # "no")
                    /\ gcReq \/ Two \/ Ample
                    /\ gcFlag => Flagged # {}
                    /\ gc.at = 0
    /\ pc = "gcflag" => gc.pair
    /\ pc \in {"gcflag", "gcsec"} /\ gc.pair =>
           /\ ~Two /\ gc.at = 0
           /\ Empties # {} \/ (recov /\ Tidy # {} /\ \E s \in Sectors : sec[s].dirty # "no")
    /\ pc \notin {"gc", "gcflag"} /\ ~gcFlag => AllFlagged
    /\ pc = "gcsec" /\ gcFlag =>
           gc.at = 0 /\ Flagged # {} /\ Empties # {} /\ (gcReq \/ Two \/ Ample)
    /\ pc \in {"gc", "gcsec"} /\ gcFlag /\ gcReq /\ Hurt => Two
    /\ pc = "secst" => /\ mv.dst \in Ready \cup Empties
                       /\ mv.dst \in Empties => IF gcReq THEN ~Good ELSE Two
    /\ pc = "gcsec" /\ ~gc.pair /\ ~gcFlag =>
           Empties # {} /\ (Two \/ Good) /\ \A s \in Flagged : s > gc.at
    /\ pc \in Handling =>
           /\ gc.pair => (\A s \in Flagged : s >= gc.at) /\ (Empties # {} \/ Good)
           /\ ~gc.pair /\ ~gcFlag => Two \/ (Empties # {} /\ Good)
           /\ gcFlag /\ gcReq => Empties # {} \/ Spacious
           /\ gcFlag /\ gcReq /\ Hurt => Two \/ (Empties # {} /\ Spacious)
           /\ gcFlag /\ ~gcReq => Two \/ (Empties # {} /\ Ample)

\* In the recovery, which formats the sectors without a header first.
Blank == {s \in Sectors : ~sec[s].ok \/ sec[s].store = "empty"}
Calm == Empties # {} /\ (Flagged # {} => Two \/ ((Ready = {} \/ Spacious) /\ ~Left))
Starts ==
    /\ pc = "down" => pos = Start /\ ~gcFlag /\ ~gcReq
    /\ pc = "down" =>
           \/ Blank # {} /\ (Flagged # {} => \/ \E x, y \in Blank : x # y
                                             \/ (Ready = {} \/ Spacious) /\ ~Left)
           \/ (\E s \in Sectors : sec[s].dirty = "gc") /\ (Blank # {} \/ Tidy # {})
    /\ pc = "rgc" =>
           \/ Calm
           \/ (\E s \in Sectors : sec[s].dirty = "gc" /\ s >= pos[1]) /\ (Empties # {} \/ Tidy # {})
    /\ recov /\ gc.ret = "none" =>
           /\ ~gcFlag /\ (Empties # {} \/ pc = "rgc")
           /\ gcReq => pc = "rstop"
           /\ pc \in {"malloc", "rscan"} \/ (pc = "rstop" /\ ~gcReq) => Calm
           /\ pc = "secst" => mv.dst \in Ready \cup Empties /\ (mv.dst \in Empties => Two)
           /\ pc \in Moving /\ pc # "malloc" /\ Flagged # {} => Two \/ (Spacious /\ ~Left)
           /\ pc \in {"malloc", "del"} \cup Writes => mv.src \in DeadSlots

\* Before the reset.
Early == resets = MaxResets =>
    /\ ~recov /\ pc # "down"
    /\ Stale = {} /\ ~Pile
    /\ gc.ret = "none" =>
           /\ pc \in Waiting /\ (Flagged # {} \/ gcFlag) => Three \/ (Two /\ Ready # {})
           /\ pc \in Moving /\ Flagged # {} => Two
           /\ pc \in Opening /\ mv.dst \in Empties =>
                  Ready = {} /\ Tidy = {} /\ (Flagged # {} => Three)
           /\ Two \/ \A s, t \in Ready : s = t
           /\ pc \in Moving /\ pc \notin Opening /\ sec[mv.dst].store = "full" => Two \/ Ready = {}
    /\ gc.ret # "none" =>
           /\ pc \in {"gc", "gcflag", "gcsec"} => Empties # {}
           /\ gcFlag /\ pc \in {"gc", "gcsec"} => Two
           /\ pc = "gc" /\ ~gcFlag => Flagged = {} /\ (Two \/ Ready = {})
           /\ pc \in {"gcflag", "gcsec"} /\ gc.pair => Ready = {} /\ Tidy = {}
           /\ pc = "gcsec" /\ ~gc.pair => Two \/ Tidy # {}
           /\ pc = "secst" /\ mv.dst \in Empties => Tidy = {}
           /\ pc \in Handling => IF gc.pair THEN IF Empties = {} THEN Tidy # {} ELSE ~Two /\ Tidy = {}
                                            ELSE Two \/ (Empties # {} /\ Tidy # {})

RoomInv == Shape /\ Calls /\ Collects /\ Starts /\ Early

-----------------------------------------------------------------------------
(* What alloc_env finds. *)

\* More than one sector is empty.
LEMMA EmptiesCount ==
    /\ Cardinality(Empties) > 1 <=> Two
    /\ Cardinality(Empties) <= 1 <=> ~Two
<1>1. IsFiniteSet(Sectors)
  BY FS_Interval, CapPositive DEF Sectors
<1>2. Empties \subseteq Sectors
  BY DEF Empties
<1>3. IsFiniteSet(Empties) /\ Cardinality(Empties) \in Nat
  BY <1>1, <1>2, FS_Subset, FS_CardinalityType
<1>4. Two => Cardinality(Empties) > 1
  <2> SUFFICES ASSUME NEW x \in Empties, NEW y \in Empties, x # y PROVE Cardinality(Empties) > 1
    BY DEF Two
  <2>1. IsFiniteSet({x}) /\ Cardinality({x}) = 1 /\ IsFiniteSet({x} \cup {y}) /\ Cardinality({x} \cup {y}) = 2
    <3>1. IsFiniteSet({x}) /\ Cardinality({x}) = 1
      BY FS_Singleton
    <3> QED
      BY <3>1, FS_AddElement
  <2>2. {x} \cup {y} \subseteq Empties
    OBVIOUS
  <2>3. Cardinality({x} \cup {y}) <= Cardinality(Empties)
    BY <1>3, <2>2, FS_Subset
  <2> QED
    BY <1>3, <2>1, <2>3
<1>5. ~Two => Cardinality(Empties) <= 1
  <2>1. CASE Empties = {}
    BY <2>1, FS_EmptySet
  <2>2. ASSUME NEW x \in Empties, ~Two PROVE Cardinality(Empties) <= 1
    <3>1. Empties = {x}
      BY <2>2 DEF Two
    <3>2. Cardinality({x}) = 1
      BY FS_Singleton
    <3> QED
      BY <3>1, <3>2
  <2> QED
    BY <2>1, <2>2
<1> QED
  BY <1>3, <1>4, <1>5

\* It takes a sector with room, or else an empty one but the last.
LEMMA AllocIs ==
    ASSUME FlashType
    PROVE  /\ Roomy = IF gcReq THEN Ready \cap Tidy ELSE Ready
           /\ Roomy # {} => Alloc \in Roomy
           /\ Roomy = {} /\ Empties # {} /\ (gcReq \/ Two) => Alloc \in Empties
           /\ Roomy = {} /\ ~(Empties # {} /\ (gcReq \/ Two)) => Alloc = 0
           /\ 0 \notin Roomy \cup Empties
<1>1. Roomy \subseteq Sectors /\ Empties \subseteq Sectors /\ 0 \notin Sectors
  BY DEF Roomy, Empties, Sectors
<1>2. Roomy = IF gcReq THEN Ready \cap Tidy ELSE Ready
  <2>1. \A s : s \in Sectors => sec[s].dirty \in {"no", "yes", "gc"}
    BY DEF FlashType, Headers
  <2> QED
    BY <2>1 DEF Roomy, Ready, Tidy
<1> QED
  BY <1>1, <1>2, EmptiesCount, LeastSector DEF Alloc

-----------------------------------------------------------------------------
(* Steps that write no record and no header. *)

\* What the sectors look like.
View == <<Tidy, Flagged, Ready, Empties, Blank, DeadSlots, Stale>>
Counted == <<Two, Three, Pile, Spacious, AllFlagged>>

\* Headers and fill of the sectors.
LEMMA SectorIs ==
    ASSUME FlashType, NEW s \in Sectors
    PROVE  /\ sec[s] \in Headers /\ sec[s].ok \in BOOLEAN /\ sec[s].gc \in BOOLEAN
           /\ sec[s].store \in {"empty", "using", "full"}
           /\ sec[s].dirty \in {"no", "yes", "gc"}
           /\ Len(node[s]) \in Nat /\ Len(node[s]) <= Cap
<1>1. sec[s] \in Headers /\ node[s] \in Seq(Records) /\ Len(node[s]) <= Cap
  BY DEF FlashType
<1>2. Len(node[s]) \in Nat
  BY <1>1, LenProperties
<1> QED
  BY <1>1, <1>2 DEF Headers

\* Headers and fill stay.
LEMMA SectorsSame ==
    ASSUME UNCHANGED sec, \A s \in Sectors : Len(node'[s]) = Len(node[s])
    PROVE  /\ UNCHANGED <<Tidy, Flagged, Ready, Empties, Blank>>
           /\ UNCHANGED <<Two, Three, Pile, AllFlagged>>
<1>1. UNCHANGED <<Tidy, Flagged, Ready, Empties, Blank, AllFlagged>>
  BY DEF Tidy, Flagged, Ready, Empties, Blank, AllFlagged
<1> QED
  BY <1>1 DEF Two, Three, Pile

Quiet == {"prewrite", "head", "body", "write", "premark", "postmark"}

\* The flash stays.
LEMMA Steady ==
    ASSUME UNCHANGED flash, pc \notin Quiet, pc' \notin Quiet
    PROVE  /\ UNCHANGED <<View, Counted>>
           /\ \A s : Dead(s)' = Dead(s) /\ Fits(s)' = Fits(s)
           /\ \A s : Usable(s)' = Usable(s)
<1>1. UNCHANGED sec /\ UNCHANGED node
  BY DEF flash
<1>2. UNCHANGED <<Tidy, Flagged, Ready, Empties, Blank>>
      /\ UNCHANGED <<Two, Three, Pile, AllFlagged>>
  BY <1>1, SectorsSame
<1>3. UNCHANGED Used /\ \A a : At(a)' = At(a)
  BY <1>1 DEF Used, At
<1>4. UNCHANGED DeadSlots
  BY <1>3 DEF DeadSlots, Unfinish, Quiet
<1>5. UNCHANGED Stale
  BY <1>2, <1>4 DEF Stale, Quiet
<1>6. \A s : Dead(s)' = Dead(s)
  BY <1>4 DEF Dead
<1>7. UNCHANGED Spacious
  BY <1>2, <1>6 DEF Spacious
<1>8. \A s : Fits(s)' = Fits(s)
  BY <1>1, <1>2 DEF Fits, Quiet
<1>9. \A s : Usable(s)' = Usable(s)
  BY <1>1, <1>8 DEF Usable
<1> QED
  BY <1>2, <1>4, <1>5, <1>6, <1>7, <1>8, <1>9 DEF View, Counted

\* Nor do the records of any key.
LEMMA SteadyCopies ==
    ASSUME UNCHANGED flash, pc \notin Quiet, pc' \notin Quiet, pc # "del", NEW k
    PROVE  Copies(k)' \subseteq Copies(k)
<1>1. UNCHANGED Used /\ \A a : At(a)' = At(a)
  BY DEF Used, At, flash
<1> QED
  BY <1>1 DEF Copies, Unfinish, Quiet

\* Nor does their shape change.
LEMMA SteadyShape ==
    ASSUME Shape, UNCHANGED <<flash, resets>>, recov' => recov,
           pc \notin Quiet \cup {"del", "down", "format"}, pc' \notin Quiet \cup {"down", "format"}
    PROVE  Shape'
<1>1. /\ UNCHANGED <<View, Counted>>
      /\ \A s : Dead(s)' = Dead(s) /\ Fits(s)' = Fits(s)
  BY Steady
<1>2. UNCHANGED <<Tidy, Flagged, Stale, sec, node>>
  BY <1>1 DEF View, flash
<1>3. \A k : Copies(k)' \subseteq Copies(k)
  BY SteadyCopies
<1>4. (recov \/ pc = "down" => (\A k \in Keys : (\E a, b \in Copies(k) : a # b) => Stale = {}))'
  BY <1>2, <1>3 DEF Shape
<1> QED
  BY <1>1, <1>2, <1>4 DEF Shape, Quiet

\* What a step needs of the records, beside the invariant: the record at hand
\* is one, and sectors with few dead slots have room.
Sourced == pc \in {"predel", "premark", "malloc", "del"} \cup Writes /\ mv.src # None =>
    At(mv.src).st = (IF pc = "predel" THEN "write" ELSE "predelete") /\ At(mv.src).data = "all"
Roomed ==
    /\ pc = "malloc" /\ gc.ret # "none" /\ (IF gcReq THEN Good ELSE Ample) => Roomy # {}
    /\ pc = "again" /\ Pile => Ready # {}
    /\ pc = "alloc" /\ ~Hurt /\ Spacious => Ready # {}
    /\ resets = MaxResets /\ pc \in {"alloc", "again", "malloc", "gc", "gcsec", "format"} =>
           Tidy \subseteq Ready
Whence == StoreInv /\ Traces /\ Sourced /\ Roomed
\* What it does to damaged keys.
Whither ==
    /\ Hurt' => Hurt \/ (pc = "rstop" /\ Left)
    /\ (recov /\ gc.ret = "none") \/ pc = "down" => (Left' => Left)
    /\ recov /\ gc.ret = "none" /\ pc = "secst" => ~Left

\* ef_set_env_blob takes the lock.
LEMMA SetReqRoom ==
    ASSUME Whence, Whither, RoomInv, UNCHANGED resets, NEW c, NEW v, SetReq(c, v)
    PROVE  RoomInv'
<1>1. /\ pc = "idle" /\ pc' = "alloc"
      /\ UNCHANGED <<flash, gcReq, gcFlag, recov, mv, gc, pos>>
  BY DEF SetReq, ram
<1>2. Shape'
  BY <1>1, SteadyShape DEF RoomInv, Quiet
<1>3. /\ UNCHANGED <<View, Counted>>
      /\ \A s : Dead(s)' = Dead(s) /\ Fits(s)' = Fits(s)
      /\ \A s : Usable(s)' = Usable(s)
  BY <1>1, Steady DEF Quiet
<1>4. ~recov /\ gc.ret = "none" /\ gc' = gc
  BY <1>1 DEF Whence, StoreInv, Control, Resting
<1>5. Calls'
  BY <1>1, <1>3, <1>4 DEF RoomInv, Calls, Waiting, Opening, Moving, Writes, View, Counted, Whither
<1>6. Collects'
  BY <1>1, <1>4 DEF Collects
<1>7. Starts'
  BY <1>1, <1>4 DEF Starts
<1>8. Early'
  BY <1>1, <1>3, <1>4 DEF RoomInv, Early, Waiting, Opening, Moving, Writes, View, Counted
<1> QED
  BY <1>2, <1>5, <1>6, <1>7, <1>8 DEF RoomInv

\* A tidy sector without dead slots takes what is elsewhere.
LEMMA SpaciousAmple == Shape /\ ~Hurt /\ Spacious => AmpleFor /\ Ample
<1> SUFFICES ASSUME Shape, ~Hurt, Spacious PROVE AmpleFor /\ Ample
  OBVIOUS
<1>1. PICK s \in Tidy : Dead(s) = {}
  BY DEF Spacious
<1>2. Usable(s)
  BY DEF Shape, Usable, Tidy, Flagged
<1> QED
  BY <1>1, <1>2 DEF AmpleFor, Ample, Tidy

\* ... after the step as before.
LEMMA SpaciousNext == (Shape /\ ~Hurt /\ Spacious => AmpleFor /\ Ample)'
BY SpaciousAmple, PTL

\* Empty sectors are counted up to three.
LEMMA ThreeTwo == /\ Three => Two
                  /\ Two => Empties # {}
BY DEF Three, Two

\* new_env: it finds room, or asks for a collection of two sectors.
LEMMA SetAllocRoom ==
    ASSUME Whence, Whither, RoomInv, UNCHANGED resets, SetAlloc
    PROVE  RoomInv'
<1>1. /\ pc \in {"alloc", "again"} /\ pc' \in {"secst", "predel", "gc", "full"}
      /\ UNCHANGED <<flash, gcFlag, recov, pos>>
  BY DEF SetAlloc, CallGc
<1>2. Shape'
  BY <1>1, SteadyShape DEF RoomInv, Quiet
<1>3. /\ UNCHANGED <<View, Counted>>
      /\ \A s : Dead(s)' = Dead(s) /\ Fits(s)' = Fits(s)
      /\ \A s : Usable(s)' = Usable(s)
  BY <1>1, Steady DEF Quiet
<1>4. ~recov /\ gc.ret = "none" /\ Hurt' => Hurt
  BY <1>1 DEF Whence, StoreInv, Control, Resting, Whither
<1>5. ~gcReq /\ ~recov /\ gc.ret = "none" /\ gc = NoGc
  BY <1>1 DEF Whence, StoreInv, Control, Resting, RoomInv, Calls
<1>6. /\ Roomy = Ready
      /\ Roomy # {} => Alloc \in Roomy
      /\ Roomy = {} /\ Two => Alloc \in Empties
      /\ Roomy = {} /\ ~Two => Alloc = 0
      /\ 0 \notin Roomy \cup Empties
  BY <1>5, AllocIs, ThreeTwo DEF Whence, StoreInv
<1>7. /\ Empties # {}
      /\ Flagged # {} \/ gcFlag => Two \/ (~Hurt /\ (Spacious \/ (~gcFlag /\ Ready = {})))
      /\ pc = "again" => Two \/ Ready # {} \/ Pile
  BY <1>1, <1>5 DEF RoomInv, Calls, Waiting
<1>8. CASE Alloc # 0
  <2>1. /\ pc' \in {"secst", "predel"} /\ UNCHANGED <<gcReq, gc>> /\ mv'.dst = Alloc
    BY <1>8 DEF SetAlloc
  <2>2. Alloc \in Ready \cup Empties /\ (Alloc \in Empties => Two /\ Ready = {})
    BY <1>6, <1>8 DEF Ready, Empties
  <2>3. Two \/ AmpleFor' \/ Flagged = {}
    <3>1. CASE Two \/ Flagged = {}
      BY <3>1
    <3>2. CASE ~Two /\ Flagged # {}
      <4>1. ~Hurt /\ Spacious
        BY <1>6, <1>7, <1>8, <3>2
      <4> QED
        BY <1>1, <1>2, <1>3, <1>4, <1>5, <4>1, SpaciousNext DEF Counted
    <3> QED
      BY <3>1, <3>2
  <2>4. Hurt' /\ Flagged # {} => Two
    BY <1>4, <1>5, <1>7
  <2>5. Calls'
    BY <1>1, <1>3, <1>5, <1>7, <2>1, <2>2, <2>3, <2>4
    DEF Calls, Waiting, Opening, Moving, Writes, View, Counted
  <2>6. Collects' /\ Starts'
    BY <1>1, <1>5, <2>1 DEF Collects, Starts
  <2>7. Early'
    <3>1. resets = MaxResets => Tidy \subseteq Ready
      BY <1>1 DEF Whence, Roomed
    <3> QED
      BY <1>1, <1>3, <1>5, <2>1, <2>2, <3>1, ThreeTwo
      DEF RoomInv, Early, Waiting, Opening, Moving, Writes, View, Counted
  <2> QED
    BY <1>2, <2>5, <2>6, <2>7 DEF RoomInv
<1>9. CASE Alloc = 0
  <2>1. Ready = {} /\ ~Two
    BY <1>6, <1>9
  <2>2. pc = "alloc" /\ ~gcFlag
    BY <1>1, <1>7, <2>1 DEF Whence, Roomed
  <2>3. pc' = "gc" /\ gcReq' /\ gc' = [NoGc EXCEPT !.ret = "again"]
    BY <1>7, <1>9, <2>2 DEF SetAlloc, CallGc, AllocAsksGc
  <2>4. gc'.ret = "again" /\ ~gc'.pair /\ gc'.at = 0
    BY <2>3 DEF NoGc
  <2>5. Calls' /\ Starts'
    BY <1>1, <1>5, <2>3, <2>4 DEF Calls, Starts
  <2>6. Collects'
    BY <1>1, <1>3, <1>5, <1>7, <2>2, <2>3, <2>4
    DEF Collects, View, Counted, Handling, Moving, Writes
  <2>7. Early'
    BY <1>1, <1>3, <1>5, <1>7, <2>1, <2>2, <2>3, <2>4, ThreeTwo
    DEF RoomInv, Early, Waiting, Handling, Moving, Writes, View, Counted
  <2> QED
    BY <1>2, <2>5, <2>6, <2>7 DEF RoomInv
<1> QED
  BY <1>8, <1>9

\* A set ends, or a move.
LEMMA AfterRoom ==
    ASSUME Whence, Whither, RoomInv, UNCHANGED resets, After
    PROVE  RoomInv'
<1>1. /\ pc = "after" /\ pc' \in {"gc", "idle", "rscan", "gcnode"} /\ mv' = NoMove
      /\ UNCHANGED <<flash, gcReq, recov, pos>>
  BY DEF After, CallGc, Unlock
<1>2. Shape'
  BY <1>1, SteadyShape DEF RoomInv, Quiet
<1>3. /\ UNCHANGED <<View, Counted>>
      /\ \A s : Dead(s)' = Dead(s) /\ Fits(s)' = Fits(s)
      /\ \A s : Usable(s)' = Usable(s)
  BY <1>1, Steady DEF Quiet
<1>4. Hurt' => Hurt
  BY <1>1 DEF Whither
<1>5. CASE Setting
  <2>1. /\ ~recov /\ gc.ret = "none" /\ gc = NoGc
        /\ gcFlag' = (Flagged # {})
    BY <1>1, <1>5 DEF After, Setting, Whence, StoreInv, Control, Flagged
  <2>2. /\ Empties # {}
        /\ gcReq => sec[mv.dst].store = "full"
        /\ Flagged # {} => /\ Two \/ AmpleFor
                           /\ Hurt /\ sec[mv.dst].store = "full" => Two
    BY <1>1, <2>1 DEF RoomInv, Calls, Moving, Opening
  <2>3. resets = MaxResets => /\ Flagged # {} => Two
                              /\ sec[mv.dst].store = "full" => Two \/ Ready = {}
    BY <1>1, <2>1 DEF RoomInv, Early, Moving, Opening, Writes
  <2>4. CASE gcReq \/ gcFlag'
    <3>1. pc' = "gc" /\ gc' = [NoGc EXCEPT !.ret = "idle"]
      BY <1>1, <1>5, <2>4 DEF After, CallGc
    <3>2. gc'.ret = "idle" /\ ~gc'.pair /\ gc'.at = 0
      BY <3>1 DEF NoGc
    <3>3. AmpleFor => Ample'
      <4>1. SUFFICES ASSUME NEW s \in Sectors, Usable(s), Dead(s) \subseteq {mv.src},
                            Hurt => mv.src = None \/ mv.src[1] # s
                     PROVE  Ample'
        BY DEF AmpleFor
      <4>2. \A a \in Dead(s) : a \in Addrs /\ a[1] = s /\ a # None
        BY StoreAssumption DEF Dead, DeadSlots, Used, Addrs, Sectors
      <4>3. Hurt => Dead(s) = {}
        BY <4>1, <4>2
      <4>4. \A a, b \in Dead(s) : a = b
        BY <4>1
      <4> QED
        BY <1>3, <1>4, <4>1, <4>3, <4>4 DEF Ample
    <3>4. Calls' /\ Starts'
      BY <1>1, <2>1, <3>1, <3>2 DEF Calls, Starts
    <3>5. Collects'
      BY <1>1, <1>3, <1>4, <2>1, <2>2, <2>4, <3>1, <3>2, <3>3
      DEF Collects, View, Counted, Handling, Moving, Writes
    <3>6. Early'
      BY <1>1, <1>3, <2>1, <2>2, <2>3, <2>4, <3>1, <3>2
      DEF RoomInv, Early, View, Counted, Handling, Moving, Writes
    <3> QED
      BY <1>2, <3>4, <3>5, <3>6 DEF RoomInv
  <2>5. CASE ~(gcReq \/ gcFlag')
    <3>1. pc' = "idle" /\ UNCHANGED gc
      BY <1>1, <1>5, <2>5 DEF After, Unlock
    <3>2. Flagged = {}
      BY <2>1, <2>5
    <3>3. Calls' /\ Starts' /\ Collects'
      BY <1>1, <1>3, <2>1, <2>2, <2>5, <3>1, <3>2
      DEF Calls, Starts, Collects, View, Counted, Waiting, Opening, Moving, Writes
    <3>4. Early'
      BY <1>1, <1>3, <2>1, <2>5, <3>1, <3>2
      DEF RoomInv, Early, View, Counted, Waiting, Opening, Moving, Writes
    <3> QED
      BY <1>2, <3>3, <3>4 DEF RoomInv
  <2> QED
    BY <2>4, <2>5
<1>6. CASE ~Setting
  <2>1. /\ UNCHANGED <<gcFlag, gc>>
        /\ pc' = IF recov /\ gc.ret = "none" THEN "rscan" ELSE "gcnode"
    BY <1>6 DEF After
  <2>2. CASE recov /\ gc.ret = "none"
    <3>1. Left' => Left
      BY <2>2 DEF Whither
    <3>2. /\ ~gcFlag /\ ~gcReq /\ Empties # {}
          /\ Flagged # {} => Two \/ (Spacious /\ ~Left)
      BY <1>1, <2>2 DEF RoomInv, Starts, Moving
    <3>3. Calm'
      BY <1>3, <3>1, <3>2 DEF Calm, View, Counted
    <3>4. Calls' /\ Starts' /\ Collects'
      BY <1>1, <1>3, <2>1, <2>2, <3>2, <3>3
      DEF Calls, Starts, Collects, View, Counted, Moving, Writes
    <3>5. Early'
      BY <1>1, <2>2 DEF RoomInv, Early
    <3> QED
      BY <1>2, <3>4, <3>5 DEF RoomInv
  <2>3. CASE gc.ret # "none"
    <3>1. Calls' /\ Starts'
      BY <1>1, <2>1, <2>3 DEF Calls, Starts
    <3>2. UNCHANGED Good /\ (Ample => Ample')
      BY <1>1, <1>3, <1>4 DEF Good, Ample, View, Counted
    <3>3. Collects'
      BY <1>1, <1>3, <1>4, <2>1, <2>3, <3>2
      DEF RoomInv, Collects, View, Counted, Handling, Moving, Writes
    <3>4. Early'
      BY <1>1, <1>3, <2>1, <2>3
      DEF RoomInv, Early, View, Counted, Handling, Moving, Writes
    <3> QED
      BY <1>2, <3>1, <3>3, <3>4 DEF RoomInv
  <2> QED
    BY <1>6, <2>2, <2>3 DEF Setting
<1> QED
  BY <1>5, <1>6

-----------------------------------------------------------------------------
(* Collections. *)

\* What gc_collect leaves when it returns.
LEMMA Returned ==
    ASSUME Whence, Whither, RoomInv, UNCHANGED resets, pc \in Collecting, GcReturn,
           UNCHANGED <<gcFlag, recov, pos>>, Shape', 
           (Empties # {})',
           (Flagged # {})' \/ gcFlag => Two' \/ (~recov /\ ~Hurt' /\ Spacious'),
           gc.ret = "again" => Two' \/ Pile',
           resets = MaxResets => /\ Two' /\ (Stale = {} /\ ~Pile)'
                                 /\ (Flagged # {})' \/ gcFlag => Three' \/ (Ready # {})'
    PROVE  RoomInv'
<1>1. /\ gcReq' = FALSE /\ gc' = NoGc /\ pc' = gc.ret /\ mv' = NoMove
      /\ gc'.ret = "none"
  BY DEF GcReturn, NoGc
<1>2. /\ gc.ret \in {"again", "idle", "rgc", "rscan"}
      /\ gc.ret \in {"again", "idle"} => ~recov
      /\ gc.ret \in {"rgc", "rscan"} => recov
  BY DEF Whence, StoreInv, RamType, Collections, Control
<1>3. recov => ~gcFlag
  BY <1>2 DEF RoomInv, Collects
<1>4. Calls'
  BY <1>1, <1>2, <1>3 DEF Calls, Waiting, Opening, Moving, Writes
<1>5. Collects'
  BY <1>1 DEF Collects
<1>6. recov => Calm'
  BY DEF Calm
<1>7. Starts'
  BY <1>1, <1>2, <1>3, <1>6 DEF Starts, Moving, Writes
<1>8. Early'
  BY <1>1, <1>2 DEF RoomInv, Early, Waiting, Opening, Moving, Writes
<1> QED
  BY <1>4, <1>5, <1>7, <1>8 DEF RoomInv

\* gc_collect begins, or finds two sectors empty.
LEMMA GcStartRoom ==
    ASSUME Whence, Whither, RoomInv, UNCHANGED resets, GcStart
    PROVE  RoomInv'
<1>1. /\ pc = "gc" /\ UNCHANGED <<flash, gcFlag, recov, pos>>
      /\ IF ~Two \/ gcFlag
         THEN /\ pc' = IF gcFlag THEN "gcsec" ELSE "gcflag"
              /\ gc' = [gc EXCEPT !.pair = ~gcFlag]
              /\ UNCHANGED <<gcReq, mv>>
         ELSE GcReturn
  BY EmptiesCount DEF GcStart
<1>2. gc.ret \in {"again", "idle", "rgc", "rscan"} /\ gc \in Collections
      /\ (gc.ret \in {"rgc", "rscan"} <=> recov) /\ gcFlag \in BOOLEAN
  BY <1>1 DEF Whence, StoreInv, RamType, Control, Collecting, Collections
<1>3. pc' \in {"gcsec", "gcflag", "again", "idle", "rgc", "rscan"}
  BY <1>1, <1>2 DEF GcReturn
<1>4. Shape'
  BY <1>1, <1>3, SteadyShape DEF RoomInv, Quiet
<1>5. /\ UNCHANGED <<View, Counted>>
      /\ \A s : Dead(s)' = Dead(s) /\ Fits(s)' = Fits(s)
      /\ \A s : Usable(s)' = Usable(s)
  BY <1>1, <1>3, Steady DEF Quiet
<1>6. CASE Two /\ ~gcFlag
  <2>1. resets = MaxResets => Stale = {} /\ ~Pile /\ Flagged = {}
    BY <1>1, <1>2, <1>6 DEF RoomInv, Early
  <2>2. GcReturn
    BY <1>1, <1>6
  <2>3. Empties # {} /\ pc \in Collecting
    BY <1>1, <1>6, ThreeTwo DEF Collecting
  <2>4. UNCHANGED <<Two, Three, Pile, Spacious, Empties, Flagged, Stale, Ready>>
    BY <1>5 DEF View, Counted
  <2> QED
    BY <1>1, <1>4, <1>6, <2>1, <2>2, <2>3, <2>4, Returned
<1>7. CASE ~(Two /\ ~gcFlag)
  <2>1. /\ pc' = IF gcFlag THEN "gcsec" ELSE "gcflag"
        /\ gc'.pair = ~gcFlag /\ gc'.at = gc.at /\ gc'.ret = gc.ret
        /\ UNCHANGED <<gcReq, mv>>
    BY <1>1, <1>2, <1>7 DEF Collections
  <2>2. Calls' /\ Starts'
    BY <1>1, <1>2, <2>1 DEF Calls, Starts
  <2>3. (Hurt' => Hurt) /\ (Ample => Ample')
    BY <1>1, <1>5 DEF Ample, Whither
  <2>4. /\ Empties # {} \/ (recov /\ Tidy # {} /\ \E s \in Sectors : sec[s].dirty # "no")
        /\ gcReq \/ Two \/ Ample
        /\ gcFlag => Flagged # {} /\ ~recov
        /\ recov \/ gc.ret = "again" => ~gcFlag
        /\ gc.at = 0
        /\ recov \/ ~gcFlag => gcReq
        /\ gcFlag /\ gcReq /\ Hurt => Two
    BY <1>1, <1>2 DEF RoomInv, Collects
  <2>5. UNCHANGED sec
    BY <1>1 DEF flash
  <2>6. Collects'
    BY <1>1, <1>5, <1>7, <2>1, <2>3, <2>4, <2>5
    DEF Collects, View, Counted, Handling, Moving, Writes
  <2>7. resets = MaxResets => /\ Tidy \subseteq Ready /\ Empties # {}
                              /\ gcFlag => Two
                              /\ ~gcFlag => Two \/ Ready = {}
    BY <1>1, <1>2 DEF Whence, Roomed, RoomInv, Early
  <2>8. Early'
    BY <1>1, <1>2, <1>5, <1>7, <2>1, <2>7
    DEF RoomInv, Early, View, Counted, Handling, Moving, Writes
  <2> QED
    BY <1>4, <2>2, <2>6, <2>8 DEF RoomInv
<1> QED
  BY <1>6, <1>7

\* Inside a collection nothing else changes.
LEMMA HandlingSteady ==
    ASSUME Whither, RoomInv, UNCHANGED <<flash, resets, gcReq, gcFlag, recov>>, gc.ret # "none",
           pc \in Handling \ (Quiet \cup {"del"}),
           pc' \in Handling \ (Quiet \cup {"format"}), pc # "format",
           gc'.at = gc.at, gc'.pair = gc.pair, gc'.ret = gc.ret,
           pc' = "secst" => /\ mv'.dst \in Ready \cup Empties
                            /\ mv'.dst \in Empties => IF gcReq THEN ~Good ELSE Two
                            /\ resets = MaxResets /\ mv'.dst \in Empties => Tidy = {}
    PROVE  RoomInv'
<1>1. /\ UNCHANGED <<View, Counted>>
      /\ \A s : Dead(s)' = Dead(s) /\ Fits(s)' = Fits(s)
      /\ \A s : Usable(s)' = Usable(s)
  BY Steady
<1>2. Shape'
  BY SteadyShape DEF RoomInv, Handling, Moving, Writes, Quiet
<1>3. /\ pc \notin {"gc", "gcflag", "gcsec", "rgc", "rscan", "rstop", "down"}
      /\ pc' \notin {"gc", "gcflag", "gcsec", "rgc", "rscan", "rstop", "down", "format"}
  BY DEF Handling, Moving, Writes
<1>4. Calls' /\ Starts'
  BY <1>3 DEF Calls, Starts
<1>5. UNCHANGED Good /\ (Ample => Ample') /\ (Hurt' => Hurt)
  BY <1>1, <1>3 DEF Good, Ample, View, Counted, Whither
<1>6. Collects'
  BY <1>1, <1>3, <1>5 DEF RoomInv, Collects, View, Counted
<1>7. Early'
  BY <1>1, <1>3 DEF RoomInv, Early, View, Counted
<1> QED
  BY <1>2, <1>4, <1>6, <1>7 DEF RoomInv

\* do_gc's next record, or the end of the sector.
LEMMA GcNodeRoom ==
    ASSUME Whence, Whither, RoomInv, UNCHANGED resets, GcNode
    PROVE  RoomInv'
<1>1. /\ pc = "gcnode" /\ pc' \in {"predel", "malloc", "erase"}
      /\ UNCHANGED <<flash, gcReq, gcFlag, recov, pos>>
      /\ \/ UNCHANGED gc
         \/ \E i : gc' = [gc EXCEPT !.slot = i]
  BY DEF GcNode, ram
<1>2. gc.ret # "none" /\ gc \in Collections
  BY <1>1 DEF Whence, StoreInv, RamType, Control, Collecting
<1>3. gc'.at = gc.at /\ gc'.pair = gc.pair /\ gc'.ret = gc.ret
  BY <1>1, <1>2 DEF Collections
<1> QED
  BY <1>1, <1>2, <1>3, HandlingSteady DEF Handling, Moving, Writes, Quiet

\* move_env's alloc_env.
LEMMA MoveAllocRoom ==
    ASSUME Whence, Whither, RoomInv, UNCHANGED resets, MoveAlloc
    PROVE  RoomInv'
<1>1. /\ pc = "malloc" /\ UNCHANGED <<flash, gcFlag, recov, gc, pos>>
      /\ gcReq' = (gcReq \/ AllocAsksGc)
      /\ \/ /\ Alloc = 0
            /\ pc' = IF gc.ret = "none" THEN "rstop" ELSE "gcnode"
            /\ mv' = NoMove
         \/ /\ Alloc # 0 /\ recov /\ pc' = "del" /\ UNCHANGED mv
         \/ /\ Alloc # 0 /\ pc' = "secst" /\ mv' = [mv EXCEPT !.dst = Alloc]
  BY DEF MoveAlloc
<1>2. /\ Roomy = IF gcReq THEN Ready \cap Tidy ELSE Ready
      /\ Roomy # {} => Alloc \in Roomy
      /\ Roomy = {} /\ Empties # {} /\ (gcReq \/ Two) => Alloc \in Empties
      /\ Roomy = {} /\ ~(Empties # {} /\ (gcReq \/ Two)) => Alloc = 0
      /\ 0 \notin Roomy \cup Empties
  BY AllocIs DEF Whence, StoreInv
<1>3. mv' \in [key : Keys \cup {None}, val : Vals \cup {None},
               src : Addrs \cup {None}, dst : 0 .. NSec, crc : BOOLEAN]
      /\ (Alloc # 0 => mv'.src = mv.src) /\ (pc' = "secst" => mv'.dst = Alloc)
  BY <1>1, <1>2, MoveAllocInv DEF Whence, StoreInv, RamType
<1>4. gcReq \in BOOLEAN /\ gcFlag \in BOOLEAN /\ recov \in BOOLEAN
  BY DEF Whence, StoreInv, RamType
<1>5. Ready \cap Empties = {}
  BY DEF Ready, Empties
<1>6. CASE gc.ret # "none"
  <2>1. /\ ~gcFlag => gcReq
        /\ ~gcReq => Two \/ (Empties # {} /\ Ample)
        /\ Two => Empties # {}
    BY <1>1, <1>4, <1>6, ThreeTwo DEF RoomInv, Collects, Handling, Moving, Writes
  <2>2. IF gcReq THEN Good => Roomy # {} ELSE Ample => Roomy # {}
    BY <1>1, <1>6 DEF Whence, Roomed
  <2>3. UNCHANGED gcReq
    BY <1>1, <1>2, <1>4, <2>1, <2>2 DEF AllocAsksGc
  <2>4. Alloc \in Empties => IF gcReq THEN ~Good ELSE Two
    BY <1>2, <1>5, <2>1, <2>2
  <2>5. resets = MaxResets /\ Alloc \in Empties => Tidy = {}
    BY <1>1, <1>2, <1>5 DEF Whence, Roomed
  <2>6. Alloc # 0 => Alloc \in Ready \cup Empties
    BY <1>2
  <2> QED
    BY <1>1, <1>3, <1>6, <2>3, <2>4, <2>5, <2>6, HandlingSteady DEF Handling, Moving, Writes, Quiet
<1>7. CASE gc.ret = "none"
  <2>1. recov
    BY <1>1, <1>7 DEF Whence, StoreInv, AtHand, Setting, Moving
  <2>2. /\ ~gcFlag /\ ~gcReq /\ Empties # {} /\ Calm /\ mv.src \in DeadSlots
    BY <1>1, <1>7, <2>1 DEF RoomInv, Starts, Moving
  <2>3. Shape'
    BY <1>1, SteadyShape DEF RoomInv, Quiet
  <2>4. /\ UNCHANGED <<View, Counted>>
        /\ \A s : Dead(s)' = Dead(s) /\ Fits(s)' = Fits(s)
        /\ \A s : Usable(s)' = Usable(s)
    BY <1>1, Steady DEF Quiet
  <2>5. Left' => Left
    BY <1>7, <2>1 DEF Whither
  <2>6. Calls' /\ Collects' /\ Early'
    BY <1>1, <1>7, <2>1 DEF RoomInv, Calls, Collects, Early
  <2>7. CASE Alloc = 0
    <3>1. gcReq' /\ pc' = "rstop"
      BY <1>1, <1>7, <2>2, <2>7 DEF AllocAsksGc
    <3>2. Starts'
      BY <1>1, <1>7, <2>2, <2>4, <3>1 DEF Starts, View, Moving, Writes
    <3> QED
      BY <2>3, <2>6, <3>2 DEF RoomInv
  <2>8. CASE Alloc # 0
    <3>1. ~gcReq' /\ pc' \in {"del", "secst"}
      BY <1>1, <2>2, <2>8 DEF AllocAsksGc
    <3>2. Alloc \in Ready \cup Empties /\ (Alloc \in Empties => Two /\ Ready = {})
      BY <1>2, <1>5, <2>2, <2>8
    <3>3. Flagged # {} => Two \/ (Spacious /\ ~Left)
      BY <1>2, <2>2, <2>8, <3>2 DEF Calm
    <3>4. Starts'
      BY <1>1, <1>3, <1>7, <2>1, <2>2, <2>4, <2>5, <2>8, <3>1, <3>2, <3>3
      DEF Starts, View, Counted, Moving, Writes
    <3> QED
      BY <2>3, <2>6, <3>4 DEF RoomInv
  <2> QED
    BY <2>7, <2>8
<1> QED
  BY <1>6, <1>7

\* The boot resumes an interrupted collection.
LEMMA LoadGcRoom ==
    ASSUME Whence, Whither, RoomInv, UNCHANGED resets, LoadGc
    PROVE  RoomInv'
<1> DEFINE todo == {s \in Sectors : s >= pos[1] /\ Collectable(s) /\ sec[s].dirty = "gc"}
<1>1. /\ pc = "rgc" /\ pc' \in {"gc", "rscan"} /\ UNCHANGED <<flash, gcFlag, recov>>
  BY DEF LoadGc, CallGc
<1>2. recov /\ gc.ret = "none"
  BY <1>1 DEF Whence, StoreInv, Control, Loading
<1>3. Shape'
  BY <1>1, SteadyShape DEF RoomInv, Quiet
<1>4. /\ UNCHANGED <<View, Counted>>
      /\ \A s : Dead(s)' = Dead(s) /\ Fits(s)' = Fits(s)
      /\ \A s : Usable(s)' = Usable(s)
  BY <1>1, Steady DEF Quiet
<1>5. ~gcFlag /\ ~gcReq
  BY <1>1, <1>2 DEF RoomInv, Starts
<1>6. \/ Calm
      \/ (\E s \in Sectors : sec[s].dirty = "gc" /\ s >= pos[1]) /\ (Empties # {} \/ Tidy # {})
  BY <1>1 DEF RoomInv, Starts
<1>7. (\E s \in Sectors : sec[s].dirty = "gc" /\ s >= pos[1]) => todo # {}
  BY DEF Whence, StoreInv, InUse, Collectable
<1>8. Early'
  BY <1>1, <1>2 DEF RoomInv, Early
<1>9. Left' => Left
  BY <1>2 DEF Whither
<1>10. CASE todo # {}
  <2>1. gcReq' = TRUE /\ pc' = "gc" /\ gc' = [NoGc EXCEPT !.ret = "rgc"]
    BY <1>10 DEF LoadGc, CallGc
  <2>2. gc'.ret = "rgc" /\ ~gc'.pair /\ gc'.at = 0
    BY <2>1 DEF NoGc
  <2>3. Calls' /\ Starts'
    BY <1>1, <2>1, <2>2 DEF Calls, Starts
  <2>4. \E s \in Sectors : sec[s].dirty = "gc"
    BY <1>10
  <2>5. UNCHANGED sec
    BY <1>1 DEF flash
  <2>6. Collects'
    BY <1>1, <1>2, <1>4, <1>5, <1>6, <2>1, <2>2, <2>4, <2>5
    DEF Collects, Calm, View, Counted, Handling, Moving, Writes
  <2> QED
    BY <1>3, <1>8, <2>3, <2>6 DEF RoomInv
<1>11. CASE todo = {}
  <2>1. pc' = "rscan" /\ UNCHANGED <<gcReq, gc, mv>>
    BY <1>11 DEF LoadGc
  <2>2. Calm /\ Calm'
    BY <1>4, <1>6, <1>7, <1>9, <1>11 DEF Calm, View, Counted
  <2>3. Calls' /\ Collects'
    BY <1>1, <1>2, <2>1 DEF Calls, Collects
  <2>4. Starts'
    BY <1>1, <1>2, <1>5, <2>1, <2>2 DEF Starts, Calm, Moving, Writes
  <2> QED
    BY <1>3, <1>8, <2>3, <2>4 DEF RoomInv
<1> QED
  BY <1>10, <1>11

\* The recovery ends, or collects and scans once more.
LEMMA LoadEndRoom ==
    ASSUME Whence, Whither, RoomInv, UNCHANGED resets, LoadEnd
    PROVE  RoomInv'
<1>1. /\ pc = "rstop" /\ pc' \in {"gc", "idle"} /\ UNCHANGED <<flash, gcFlag, gcReq>>
  BY DEF LoadEnd, CallGc
<1>2. recov /\ gc.ret = "none" /\ gcReq \in BOOLEAN
  BY <1>1 DEF Whence, StoreInv, Control, Loading, RamType
<1>3. /\ UNCHANGED <<View, Counted>>
      /\ \A s : Dead(s)' = Dead(s) /\ Fits(s)' = Fits(s)
      /\ \A s : Usable(s)' = Usable(s)
  BY <1>1, Steady DEF Quiet
<1>4. /\ ~gcFlag /\ Empties # {}
      /\ ~gcReq => Calm
  BY <1>1, <1>2 DEF RoomInv, Starts
<1>5. Early'
  BY <1>1, <1>2 DEF RoomInv, Early
<1>6. CASE gcReq
  <2>1. pc' = "gc" /\ gc' = [NoGc EXCEPT !.ret = "rscan"] /\ UNCHANGED recov
    BY <1>6 DEF LoadEnd, CallGc
  <2>2. gc'.ret = "rscan" /\ ~gc'.pair /\ gc'.at = 0
    BY <2>1 DEF NoGc
  <2>3. Calls' /\ Starts'
    BY <2>1, <2>2 DEF Calls, Starts
  <2>4. Collects'
    BY <1>1, <1>3, <1>4, <1>6, <2>1, <2>2 DEF Collects, View, Counted, Handling, Moving, Writes
  <2>5. Shape'
    BY <1>1, <1>2, <2>1, SteadyShape DEF RoomInv, Quiet
  <2> QED
    BY <1>5, <2>3, <2>4, <2>5 DEF RoomInv
<1>7. CASE ~gcReq
  <2>1. pc' = "idle" /\ ~recov' /\ UNCHANGED <<gc, mv>>
    BY <1>7 DEF LoadEnd
  <2>2. Hurt' => Left
    BY <1>1, <1>2 DEF Whither, Hurt
  <2>3. Calls'
    BY <1>1, <1>2, <1>3, <1>4, <1>7, <2>1, <2>2
    DEF Calls, Calm, View, Counted, Waiting, Opening, Moving, Writes
  <2>4. Starts' /\ Collects'
    BY <1>2, <2>1 DEF Starts, Collects
  <2>5. Shape'
    BY <1>1, <2>1, SteadyShape DEF RoomInv, Quiet
  <2> QED
    BY <1>5, <2>3, <2>4, <2>5 DEF RoomInv
<1> QED
  BY <1>2, <1>6, <1>7

\* When no sector is dirty, and at most one is empty, two are tidy.
LEMMA AllTidy ==
    ASSUME NSec >= 3, Shape, FlashType, pc \notin {"down", "format"},
           \A s \in Sectors : sec[s].dirty = "no", ~Two
    PROVE  Pile
<1>1. 1 \in Sectors /\ 2 \in Sectors /\ 3 \in Sectors
  BY CapPositive DEF Sectors
<1>2. \A s \in Sectors : s \in Tidy \/ s \in Empties
  BY DEF Shape, Tidy, Empties
<1>3. 1 # 2 /\ 2 # 3 /\ 1 # 3
  OBVIOUS
<1> QED
  BY <1>1, <1>2, <1>3 DEF Two, Pile

\* gc_collect flags a dirty sector, or has flagged all.
LEMMA GcFlagNextRoom ==
    ASSUME Whence, Whither, RoomInv, UNCHANGED resets, GcFlagNext
    PROVE  RoomInv'
<1> DEFINE todo == {s \in Sectors : Collectable(s) /\ ~sec[s].gc}
           m == Min(todo)
<1>1. /\ pc = "gcflag" /\ UNCHANGED <<node, gcReq, gcFlag, recov, mv, gc, pos>>
      /\ IF todo # {} THEN sec' = [sec EXCEPT ![m].gc = TRUE] /\ UNCHANGED pc
                      ELSE pc' = "gcsec" /\ UNCHANGED sec
  BY DEF GcFlagNext, ram
<1>2. pc' \in {"gcflag", "gcsec"} /\ gc.ret # "none" /\ gc' = gc
  BY <1>1 DEF Whence, StoreInv, Control, Collecting
<1>3. /\ gc.pair /\ ~Two /\ gc.at = 0 /\ ~gcFlag /\ gcReq
      /\ Empties # {} \/ (recov /\ Tidy # {} /\ \E s \in Sectors : sec[s].dirty # "no")
  BY <1>1, <1>2 DEF RoomInv, Collects
<1>4. resets = MaxResets => Ready = {} /\ Tidy = {} /\ Empties # {}
  BY <1>1, <1>2, <1>3 DEF RoomInv, Early
<1>5. FlashType /\ InUse
  BY DEF Whence, StoreInv
<1>6. CASE todo = {}
  <2>1. UNCHANGED flash /\ pc' = "gcsec"
    BY <1>1, <1>6 DEF flash
  <2>2. Shape'
    BY <1>1, <2>1, SteadyShape DEF RoomInv, Quiet
  <2>3. /\ UNCHANGED <<View, Counted>>
        /\ \A s : Dead(s)' = Dead(s) /\ Fits(s)' = Fits(s)
    BY <1>1, <2>1, Steady DEF Quiet
  <2>4. AllFlagged
    BY <1>5, <1>6 DEF AllFlagged, Collectable, InUse
  <2>5. Calls' /\ Starts'
    BY <1>2, <2>1 DEF Calls, Starts
  <2>6. UNCHANGED sec
    BY <2>1 DEF flash
  <2>7. Collects'
    BY <1>1, <1>2, <1>3, <2>1, <2>3, <2>4, <2>6
    DEF RoomInv, Collects, View, Counted, Handling, Moving, Writes
  <2>8. Early'
    BY <1>1, <1>2, <1>3, <1>4, <2>1, <2>3
    DEF RoomInv, Early, View, Counted, Handling, Moving, Writes
  <2> QED
    BY <2>2, <2>5, <2>7, <2>8 DEF RoomInv
<1>7. CASE todo # {}
  <2>1. m \in todo /\ m \in Sectors /\ sec[m].dirty # "no" /\ pc' = "gcflag"
    BY <1>1, <1>7, LeastSector DEF Collectable
  <2>2. sec' = [sec EXCEPT ![m].gc = TRUE]
    BY <1>1, <1>7
  <2> HIDE DEF todo, m
  <2>3. \A s \in Sectors : /\ sec'[s].ok = sec[s].ok /\ sec'[s].store = sec[s].store
                           /\ sec'[s].dirty = sec[s].dirty
                           /\ s # m => sec'[s] = sec[s]
    BY <1>5, <2>1, <2>2, SectorIs DEF FlashType, Headers
  <2>4. UNCHANGED <<Tidy, Ready, Empties, Blank>>
    BY <1>1, <2>3 DEF Tidy, Ready, Empties, Blank
  <2>5. UNCHANGED Used /\ \A a : At(a)' = At(a)
    BY <1>1 DEF Used, At
  <2>6. UNCHANGED DeadSlots /\ UNCHANGED Stale /\ \A s : Dead(s)' = Dead(s)
    BY <1>1, <2>1, <2>4, <2>5 DEF DeadSlots, Stale, Dead, Unfinish
  <2>7. UNCHANGED <<Two, Three, Pile, Spacious>>
    BY <2>4, <2>6 DEF Two, Three, Pile, Spacious
  <2>8. \A s : Fits(s)' = Fits(s)
    BY <1>1, <2>1, <2>4 DEF Fits
  <2>9. \A k : Copies(k)' = Copies(k)
    BY <1>1, <2>1, <2>5 DEF Copies, Unfinish
  <2>10. Flagged' \subseteq Flagged \cup {m} /\ Flagged' \subseteq Sectors
    BY <2>3 DEF Flagged
  <2>11. Shape'
    BY <1>1, <2>1, <2>3, <2>4, <2>6, <2>8, <2>9, <2>10 DEF RoomInv, Shape
  <2>12. Calls' /\ Starts'
    BY <1>2, <2>1 DEF Calls, Starts
  <2>13. Collects'
    BY <1>1, <1>2, <1>3, <2>1, <2>3, <2>4, <2>7
    DEF Collects, Handling, Moving, Writes
  <2>14. Early'
    BY <1>1, <1>2, <1>3, <1>4, <2>1, <2>4, <2>6, <2>7
    DEF RoomInv, Early, Handling, Moving, Writes
  <2> QED
    BY <2>11, <2>12, <2>13, <2>14 DEF RoomInv
<1> QED
  BY <1>6, <1>7

\* do_gc takes the next flagged sector, or is through with all.
LEMMA GcSectorRoom ==
    ASSUME NSec >= 3, Whence, Whither, RoomInv, UNCHANGED resets, GcSector
    PROVE  RoomInv'
<1> DEFINE todo == {s \in Sectors : s > gc.at /\ Collectable(s) /\ sec[s].gc}
           m == Min(todo)
<1>1. /\ pc = "gcsec" /\ UNCHANGED <<node, gcFlag, recov, pos>>
      /\ IF todo # {} THEN /\ sec' = [sec EXCEPT ![m].dirty = "gc"]
                           /\ gc' = [gc EXCEPT !.at = m, !.slot = 0]
                           /\ pc' = "gcnode" /\ UNCHANGED <<gcReq, mv>>
                      ELSE GcReturn /\ UNCHANGED sec
  BY DEF GcSector
<1>2. /\ gc.ret \in {"again", "idle", "rgc", "rscan"} /\ gc \in Collections
      /\ gc.ret \in {"again", "idle"} => ~recov
      /\ gcFlag \in BOOLEAN /\ recov \in BOOLEAN /\ gcReq \in BOOLEAN
  BY <1>1 DEF Whence, StoreInv, RamType, Collections, Control, Collecting
<1>3. FlashType /\ InUse
  BY DEF Whence, StoreInv
<1>4. \A s \in Flagged : s \in Sectors /\ Collectable(s) /\ sec[s].gc
  BY <1>3 DEF RoomInv, Shape, InUse, Flagged, Collectable
<1>5. CASE todo = {}
  <2>1. UNCHANGED flash /\ GcReturn
    BY <1>1, <1>5 DEF flash
  <2>2. pc' = gc.ret
    BY <2>1 DEF GcReturn
  <2>3. /\ UNCHANGED <<View, Counted>>
        /\ \A s : Dead(s)' = Dead(s) /\ Fits(s)' = Fits(s)
    BY <1>1, <1>2, <2>1, <2>2, Steady DEF Quiet
  <2>4. Shape'
    BY <1>1, <1>2, <2>1, <2>2, SteadyShape DEF RoomInv, Quiet
  <2>5. gc.at = 0 => Flagged = {}
    BY <1>4, <1>5 DEF Sectors
  <2>6. /\ ~gcFlag => AllFlagged
        /\ gcFlag => gc.at = 0 /\ Flagged # {}
        /\ gc.pair => ~gcFlag /\ gc.at = 0
                      /\ (Empties # {} \/ (recov /\ Tidy # {} /\ \E s \in Sectors : sec[s].dirty # "no"))
        /\ ~gc.pair /\ ~gcFlag => Empties # {} /\ \A s \in Flagged : s > gc.at
    BY <1>1, <1>2 DEF RoomInv, Collects
  <2>7. ~gcFlag
    BY <2>5, <2>6
  <2>8. Flagged = {}
    BY <1>4, <1>5, <2>5, <2>6, <2>7
  <2>9. \A s \in Sectors : sec[s].dirty = "no"
    BY <2>6, <2>7, <2>8 DEF AllFlagged, Flagged
  <2>10. Two \/ Pile
    BY <1>1, <1>3, <2>9, AllTidy DEF RoomInv
  <2>11. Empties # {}
    BY <2>6, <2>7, <2>9
  <2>12. resets = MaxResets => Two /\ Stale = {} /\ ~Pile
    BY <2>10 DEF RoomInv, Early
  <2>13. UNCHANGED <<Two, Three, Pile, Spacious, Empties, Flagged, Stale, Ready>>
    BY <2>3 DEF View, Counted
  <2>14. pc \in Collecting
    BY <1>1 DEF Collecting
  <2>15. (Flagged # {})' \/ gcFlag => Two' \/ (~recov /\ ~Hurt' /\ Spacious')
    BY <2>7, <2>8, <2>13
  <2> HIDE DEF todo
  <2> QED
    BY <1>1, <2>1, <2>4, <2>7, <2>8, <2>10, <2>11, <2>12, <2>13, <2>14, <2>15, Returned
<1>6. CASE todo # {}
  <2>1. m \in todo /\ m \in Sectors /\ Collectable(m) /\ sec[m].gc /\ m > gc.at
        /\ \A s \in todo : m <= s
    <3>1. todo \in SUBSET Nat
      BY DEF Sectors
    <3> QED
      BY <1>6, <3>1, Least
  <2>2. /\ sec' = [sec EXCEPT ![m].dirty = "gc"]
        /\ gc'.at = m /\ gc'.pair = gc.pair /\ gc'.ret = gc.ret
        /\ pc' = "gcnode" /\ UNCHANGED <<gcReq, mv>>
    BY <1>1, <1>2, <1>6 DEF Collections
  <2>3. gc.at = 0 => \A s \in Flagged : s >= m
    BY <1>4, <2>1 DEF Sectors
  <2> HIDE DEF todo, m
  <2>4. m \in Flagged /\ sec[m].dirty # "no"
    BY <2>1 DEF Flagged, Collectable
  <2>5. \A s \in Sectors : /\ sec'[s].ok = sec[s].ok /\ sec'[s].store = sec[s].store
                           /\ sec'[s].gc = sec[s].gc
                           /\ s # m => sec'[s] = sec[s]
                           /\ sec'[m].dirty = "gc"
    BY <1>3, <2>1, <2>2, SectorIs DEF FlashType, Headers
  <2>6. UNCHANGED <<Tidy, Empties, Blank, Flagged>> /\ Ready' = Ready \ {m}
    BY <1>1, <2>4, <2>5 DEF Tidy, Ready, Empties, Blank, Flagged
  <2>7. UNCHANGED Used /\ \A a : At(a)' = At(a)
    BY <1>1 DEF Used, At
  <2>8. UNCHANGED DeadSlots /\ UNCHANGED Stale /\ \A s : Dead(s)' = Dead(s)
    BY <1>1, <2>2, <2>6, <2>7 DEF DeadSlots, Stale, Dead, Unfinish
  <2>9. UNCHANGED <<Two, Three, Pile, Spacious>>
    BY <2>6, <2>8 DEF Two, Three, Pile, Spacious
  <2>10. UNCHANGED AllFlagged
    BY <2>4, <2>5 DEF AllFlagged, Flagged
  <2>11. \A s : s # m => Fits(s)' = Fits(s)
    BY <1>1, <2>2, <2>6 DEF Fits
  <2>12. \A k : Copies(k)' = Copies(k)
    BY <1>1, <2>2, <2>7 DEF Copies, Unfinish
  <2>13. m \notin Tidy
    BY <2>4 DEF Tidy
  <2>14. Shape'
    BY <1>1, <2>2, <2>5, <2>6, <2>8, <2>11, <2>12, <2>13 DEF RoomInv, Shape
  <2>15. Calls' /\ Starts'
    BY <1>2, <2>2 DEF Calls, Starts
  <2>16. (Hurt' => Hurt) /\ UNCHANGED Good
    BY <1>1, <2>6, <2>9 DEF Whither, Good
  <2>17. Ample => Ample'
    <3>1. SUFFICES ASSUME NEW s \in Sectors, Usable(s), \A a, b \in Dead(s) : a = b,
                          Hurt => Dead(s) = {}
                   PROVE  Ample'
      BY DEF Ample
    <3>2. s # m
      BY <2>4, <3>1 DEF Usable, Flagged
    <3>3. Usable(s)'
      BY <2>5, <2>11, <3>1, <3>2 DEF Usable
    <3> QED
      BY <2>8, <2>16, <3>1, <3>3 DEF Ample
  <2>18. Collects'
    BY <1>1, <1>2, <2>2, <2>3, <2>6, <2>9, <2>10, <2>16, <2>17
    DEF RoomInv, Collects, Good, Handling, Moving, Writes
  <2>19. Early'
    <3>1. gc.pair => ~Two
      BY <1>1, <1>2 DEF RoomInv, Collects
    <3> QED
      BY <1>1, <1>2, <2>2, <2>6, <2>8, <2>9, <3>1, ThreeTwo
      DEF RoomInv, Early, Handling, Moving, Writes
  <2> QED
    BY <2>14, <2>15, <2>18, <2>19 DEF RoomInv
<1> QED
  BY <1>5, <1>6

\* Records and what is dead among them stay where no record is written.
LEMMA NodesSame ==
    ASSUME UNCHANGED <<node, mv>>, pc \notin Writes \cup {"del"}, pc' \notin Writes \cup {"del"}
    PROVE  /\ UNCHANGED Used /\ UNCHANGED DeadSlots
           /\ \A a : At(a)' = At(a)
           /\ \A s : Dead(s)' = Dead(s)
           /\ \A k : Copies(k)' = Copies(k)
<1>1. UNCHANGED Used /\ \A a : At(a)' = At(a)
  BY DEF Used, At
<1>2. UNCHANGED DeadSlots
  BY <1>1 DEF DeadSlots, Unfinish, Writes
<1>3. \A k : Copies(k)' = Copies(k)
  BY <1>1 DEF Copies, Unfinish, Writes
<1> QED
  BY <1>1, <1>2, <1>3 DEF Dead

\* A sector more is empty.
LEMMA OneMore ==
    ASSUME NEW m, m \notin Empties, Empties' = Empties \cup {m}
    PROVE  /\ (Empties # {})'
           /\ Empties # {} => Two'
           /\ Two => Two' /\ Three'
           /\ (Empties \ {m}) = Empties
BY DEF Two, Three

\* A collected sector is formatted.
LEMMA FormatSectorRoom ==
    ASSUME NSec >= 3, Whence, Whither, RoomInv, UNCHANGED resets, FormatSector
    PROVE  RoomInv'
<1> DEFINE m == gc.at
<1>1. /\ pc = "format" /\ UNCHANGED <<node, gcFlag, recov, pos>>
      /\ sec' = [sec EXCEPT ![m] = Fresh]
      /\ IF gc.pair THEN /\ gc' = [gc EXCEPT !.pair = FALSE] /\ pc' = "gcsec"
                         /\ UNCHANGED <<gcReq, mv>>
                    ELSE GcReturn
  BY DEF FormatSector
<1>2. /\ gc.ret \in {"again", "idle", "rgc", "rscan"} /\ gc \in Collections
      /\ gc.ret \in {"again", "idle"} => ~recov
      /\ gcFlag \in BOOLEAN /\ recov \in BOOLEAN /\ gcReq \in BOOLEAN
      /\ m \in Sectors /\ node[m] = <<>> /\ mv = NoMove
  BY <1>1 DEF Whence, StoreInv, RamType, Collections, Control, Collecting, Collected, Moving, Writes
<1>3. ~sec[m].ok /\ sec[m].dirty = "no" /\ m \notin Flagged
  <2>1. ~sec[m].ok
    BY <1>1 DEF RoomInv, Shape
  <2> QED
    BY <1>2, <2>1 DEF Whence, StoreInv, InUse, RoomInv, Shape
<1>4. /\ mv' = mv /\ pc' \in {"gcsec", "again", "idle", "rgc", "rscan"}
      /\ UNCHANGED <<node, mv>>
  BY <1>1, <1>2 DEF GcReturn
<1> HIDE DEF m
<1>5. \A s \in Sectors : sec'[s] = IF s = m THEN Fresh ELSE sec[s]
  BY <1>1, <1>2 DEF Whence, StoreInv, FlashType
<1>6. /\ UNCHANGED <<Tidy, Ready, Blank, Flagged, AllFlagged>>
      /\ Empties' = Empties \cup {m} /\ m \notin Empties
  BY <1>1, <1>2, <1>3, <1>5 DEF Tidy, Ready, Blank, Flagged, AllFlagged, Empties, Fresh
<1>7. /\ UNCHANGED Used /\ UNCHANGED DeadSlots /\ \A a : At(a)' = At(a)
      /\ \A s : Dead(s)' = Dead(s)
      /\ \A k : Copies(k)' = Copies(k)
  BY <1>1, <1>4, NodesSame DEF Writes
<1>8. UNCHANGED <<Stale, Spacious, Pile>>
  BY <1>1, <1>4, <1>6, <1>7 DEF Stale, Spacious, Pile
<1>9. UNCHANGED Good
  BY <1>1, <1>6, <1>8 DEF Good
<1>10. /\ (Empties # {})'
       /\ Empties # {} => Two'
       /\ Two => Two' /\ Three'
  BY <1>6, OneMore
<1>11. \A s : Fits(s)' = Fits(s)
  BY <1>1, <1>4, <1>6 DEF Fits
<1>12. Shape'
  <2>1. Flagged \subseteq Sectors
    BY DEF Flagged
  <2> QED
    BY <1>1, <1>2, <1>3, <1>4, <1>5, <1>6, <1>7, <1>8, <1>11, <2>1 DEF RoomInv, Shape, Fresh, m
<1>13. Hurt' => Hurt
  BY <1>1 DEF Whither
<1>14. /\ recov \/ ~gcFlag => gcReq
       /\ recov \/ gc.ret = "again" \/ gc.pair => ~gcFlag
       /\ ~gcFlag => AllFlagged
       /\ gc.pair => (\A s \in Flagged : s >= m) /\ (Empties # {} \/ Good)
       /\ ~gc.pair /\ ~gcFlag => Two \/ (Empties # {} /\ Good)
       /\ gcFlag /\ gcReq => Empties # {} \/ Spacious
       /\ gcFlag /\ gcReq /\ Hurt => Two \/ (Empties # {} /\ Spacious)
       /\ gcFlag /\ ~gcReq => Two \/ (Empties # {} /\ Ample)
  BY <1>1, <1>2 DEF RoomInv, Collects, Handling, m
<1>15. Two => Empties # {}
  BY ThreeTwo
<1>16. resets = MaxResets =>
           /\ Tidy \subseteq Ready /\ Stale = {} /\ ~Pile /\ ~recov
           /\ IF gc.pair THEN IF Empties = {} THEN Tidy # {} ELSE ~Two /\ Tidy = {}
                         ELSE Two \/ (Empties # {} /\ Tidy # {})
  BY <1>1, <1>2 DEF Whence, Roomed, RoomInv, Early, Handling
<1>17. CASE gc.pair
  <2>1. /\ gc'.at = m /\ ~gc'.pair /\ gc'.ret = gc.ret /\ pc' = "gcsec" /\ UNCHANGED gcReq
    BY <1>1, <1>2, <1>17 DEF Collections, m
  <2>2. \A s \in Flagged : s > m
    BY <1>2, <1>3, <1>14, <1>17 DEF Flagged, Sectors
  <2>3. Calls' /\ Starts'
    BY <1>2, <2>1 DEF Calls, Starts
  <2>4. Collects'
    BY <1>1, <1>2, <1>6, <1>8, <1>9, <1>10, <1>14, <1>17, <2>1, <2>2
    DEF Collects, Handling, Moving, Writes
  <2>5. Early'
    BY <1>1, <1>2, <1>6, <1>8, <1>10, <1>14, <1>16, <1>17, <2>1
    DEF Early, Handling, Moving, Writes
  <2> QED
    BY <1>12, <2>3, <2>4, <2>5 DEF RoomInv
<1>18. CASE ~gc.pair
  <2>1. GcReturn /\ pc \in Collecting
    BY <1>1, <1>18 DEF Collecting
  <2>2. Two' \/ (gcFlag /\ ~recov /\ ~Hurt' /\ Spacious')
    BY <1>2, <1>8, <1>10, <1>13, <1>14, <1>15, <1>18
  <2>3. gc.ret = "again" => Two'
    BY <1>10, <1>14, <1>15, <1>18
  <2>4. resets = MaxResets => /\ Two' /\ (Stale = {} /\ ~Pile)'
                              /\ Three' \/ (Ready # {})'
    BY <1>6, <1>8, <1>10, <1>15, <1>16, <1>18
  <2> QED
    BY <1>1, <1>10, <1>12, <2>1, <2>2, <2>3, <2>4, Returned
<1> QED
  BY <1>17, <1>18

\* It is erased first.
LEMMA EraseSectorRoom ==
    ASSUME Whence, Whither, RoomInv, UNCHANGED resets, EraseSector
    PROVE  RoomInv'
<1> DEFINE m == gc.at
<1>1. /\ pc = "erase" /\ pc' = "format" /\ UNCHANGED <<gcReq, gcFlag, recov, mv, gc, pos>>
      /\ sec' = [sec EXCEPT ![m] = [Fresh EXCEPT !.ok = FALSE]]
      /\ node' = [node EXCEPT ![m] = <<>>]
  BY DEF EraseSector, ram
<1>2. m \in Sectors /\ sec[m].dirty = "gc" /\ gc.ret # "none" /\ FlashType /\ InUse
  BY <1>1 DEF Whence, StoreInv, Collected, Control, Collecting
<1> HIDE DEF m
<1>3. /\ \A s \in Sectors : s # m => sec'[s] = sec[s] /\ node'[s] = node[s]
      /\ node'[m] = <<>>
      /\ ~sec'[m].ok /\ sec'[m].dirty = "no" /\ ~sec'[m].gc /\ sec'[m].store = "empty"
  BY <1>1, <1>2 DEF FlashType, Fresh
<1>4. m \notin Tidy /\ m \notin Ready /\ m \notin Empties
  BY <1>2 DEF Tidy, Ready, Empties, InUse
<1>5. /\ UNCHANGED <<Tidy, Ready, Empties>> /\ Flagged' = Flagged \ {m}
      /\ AllFlagged => AllFlagged'
  BY <1>2, <1>3, <1>4 DEF Tidy, Ready, Empties, Flagged, AllFlagged
<1>6. /\ Used' = {a \in Used : a[1] # m}
      /\ \A a \in Used : a[1] # m => At(a)' = At(a)
  <2>1. Len(<<>>) = 0 /\ \A a \in Addrs : a[1] \in Sectors /\ a[2] \in 1 .. Cap
    BY EmptySeq DEF Addrs
  <2>2. \A a \in Addrs : ~(a[2] <= 0)
    BY <2>1, CapPositive
  <2> QED
    BY <1>3, <2>1, <2>2 DEF Used, At
<1>7. /\ DeadSlots' = {a \in DeadSlots : a[1] # m}
      /\ \A k : Copies(k)' \subseteq Copies(k)
  <2>1. DeadSlots' = {a \in DeadSlots : a[1] # m}
    BY <1>1, <1>6 DEF DeadSlots, Unfinish
  <2>2. \A k : Copies(k)' \subseteq Copies(k)
    BY <1>1, <1>6 DEF Copies, Unfinish
  <2> QED
    BY <2>1, <2>2
<1>8. /\ \A s : s # m => Dead(s)' = Dead(s)
      /\ UNCHANGED <<Stale, Spacious, Two, Three, Pile>>
  <2>1. \A s : s # m => Dead(s)' = Dead(s)
    BY <1>7 DEF Dead
  <2>2. UNCHANGED Stale
    BY <1>1, <1>4, <1>5, <1>7 DEF Stale
  <2>3. UNCHANGED <<Spacious, Two, Three, Pile>>
    BY <1>4, <1>5, <2>1 DEF Spacious, Two, Three, Pile
  <2> QED
    BY <2>1, <2>2, <2>3
<1>9. UNCHANGED Good
  BY <1>1, <1>5, <1>8 DEF Good
<1>10. \A s \in Sectors : s # m => Fits(s)' = Fits(s)
  BY <1>1, <1>3, <1>5 DEF Fits
<1>11. Ample => Ample'
  <2>1. SUFFICES ASSUME NEW s \in Sectors, Usable(s), \A a, b \in Dead(s) : a = b,
                        Hurt => Dead(s) = {}
                 PROVE  Ample'
    BY DEF Ample
  <2>2. s # m
    BY <1>2, <2>1 DEF Usable
  <2>3. Usable(s)'
    BY <1>3, <1>10, <2>1, <2>2 DEF Usable
  <2>4. Hurt' => Hurt
    BY <1>1 DEF Whither
  <2> QED
    BY <1>8, <2>1, <2>2, <2>3, <2>4 DEF Ample
<1>12. Shape'
  <2>1. Flagged \subseteq Sectors /\ Tidy \subseteq Sectors
    BY DEF Flagged, Tidy
  <2> QED
    BY <1>1, <1>3, <1>4, <1>5, <1>7, <1>8, <1>10, <2>1 DEF RoomInv, Shape, m
<1>13. Calls' /\ Starts'
  BY <1>1, <1>2 DEF Calls, Starts
<1>14. Hurt' => Hurt
  BY <1>1 DEF Whither
<1>15. Collects'
  BY <1>1, <1>2, <1>5, <1>8, <1>9, <1>11, <1>14
  DEF RoomInv, Collects, Handling, Moving, Writes
<1>16. Early'
  BY <1>1, <1>2, <1>5, <1>8 DEF RoomInv, Early, Handling, Moving, Writes
<1> QED
  BY <1>12, <1>13, <1>15, <1>16 DEF RoomInv

-----------------------------------------------------------------------------
(* Writes to headers and records. *)

\* The boot formats the sectors that have no header.
LEMMA LoadHeadersRoom ==
    ASSUME Whence, Whither, RoomInv, UNCHANGED resets, LoadHeaders
    PROVE  RoomInv'
<1>1. /\ pc = "down" /\ pc' = "rgc" /\ recov' = TRUE
      /\ UNCHANGED <<node, gcReq, gcFlag, mv, gc, pos>>
      /\ sec' = [s \in Sectors |-> IF sec[s].ok THEN sec[s] ELSE Fresh]
  BY DEF LoadHeaders
<1>2. gc.ret = "none" /\ gc = NoGc /\ FlashType /\ InUse
  BY <1>1 DEF Whence, StoreInv, Control, Resting
<1>3. \A s \in Sectors : sec'[s] = IF sec[s].ok THEN sec[s] ELSE Fresh
  BY <1>1
<1>4. \A s \in Sectors : ~sec[s].ok => sec[s].dirty = "no" /\ s \notin Flagged
  BY <1>2 DEF InUse, RoomInv, Shape
<1>5. /\ UNCHANGED <<Tidy, Ready, Blank, Flagged>> /\ Empties' = Blank
  <2>1. \A s \in Sectors : sec[s].ok \in BOOLEAN
    BY <1>2, SectorIs
  <2> QED
    BY <1>1, <1>3, <1>4, <2>1 DEF Tidy, Ready, Blank, Flagged, Empties, Fresh
<1>6. /\ UNCHANGED Used /\ UNCHANGED DeadSlots /\ \A a : At(a)' = At(a)
      /\ \A s : Dead(s)' = Dead(s)
      /\ \A k : Copies(k)' = Copies(k)
  BY <1>1, NodesSame DEF Writes
<1>7. UNCHANGED <<Stale, Spacious>>
  BY <1>1, <1>5, <1>6 DEF Stale, Spacious
<1>8. \A s : Fits(s)' = Fits(s)
  BY <1>1, <1>5 DEF Fits
<1>9. Shape'
  <2>1. Flagged \subseteq Sectors
    BY DEF Flagged
  <2> QED
    BY <1>1, <1>3, <1>4, <1>5, <1>6, <1>7, <1>8, <2>1 DEF RoomInv, Shape, Fresh
<1>10. Calls' /\ Collects'
  BY <1>1, <1>2 DEF Calls, Collects
<1>11. Early'
  BY <1>1 DEF RoomInv, Early
<1>12. Left' => Left
  BY <1>1 DEF Whither
<1>13. /\ pos = Start /\ ~gcFlag /\ ~gcReq
       /\ \/ Blank # {} /\ (Flagged # {} => \/ \E x, y \in Blank : x # y
                                            \/ (Ready = {} \/ Spacious) /\ ~Left)
          \/ (\E s \in Sectors : sec[s].dirty = "gc") /\ (Blank # {} \/ Tidy # {})
  BY <1>1 DEF RoomInv, Starts
<1>14. \/ Calm'
       \/ (\E s \in Sectors : sec[s].dirty = "gc") /\ (Blank # {} \/ Tidy # {})
  BY <1>5, <1>7, <1>12, <1>13 DEF Calm, Two
<1>15. \/ Calm'
       \/ /\ \E s \in Sectors : sec'[s].dirty = "gc" /\ s >= pos'[1]
          /\ (Empties # {} \/ Tidy # {})'
  <2>1. pos'[1] = 1 /\ \A s \in Sectors : s >= 1
    BY <1>1, <1>13 DEF Start, Sectors
  <2>2. \A s \in Sectors : sec[s].dirty = "gc" => sec'[s].dirty = "gc"
    BY <1>3, <1>4
  <2> QED
    BY <1>5, <1>14, <2>1, <2>2
<1>16. Starts'
  BY <1>1, <1>2, <1>13, <1>15 DEF Starts, Moving, Writes
<1> QED
  BY <1>9, <1>10, <1>11, <1>16 DEF RoomInv

\* The dirty mark of the sector whose record is replaced.
LEMMA DirtyMarkRoom ==
    ASSUME Whence, Whither, RoomInv, UNCHANGED resets, DirtyMark
    PROVE  RoomInv'
<1> DEFINE m == mv.src[1]
<1>1. /\ pc \in {"premark", "postmark"} /\ UNCHANGED <<node, gcReq, gcFlag, recov, mv, gc, pos>>
      /\ sec' = [sec EXCEPT ![m].dirty = "yes"]
      /\ pc' = CASE pc = "postmark" -> "after"
                 [] pc = "premark" /\ Setting -> "secst"
                 [] OTHER -> "malloc"
  BY DEF DirtyMark, ram
<1>2. /\ mv.src \in Used /\ m \in Sectors /\ sec[m].dirty = "no" /\ gc.ret = "none"
      /\ FlashType /\ InUse
  <2>1. mv.src \in Used /\ sec[m].dirty = "no" /\ gc.ret = "none"
    BY <1>1 DEF Whence, StoreInv, AtHand, Collected, Moving
  <2> QED
    BY <2>1, UsedIn DEF Whence, StoreInv
<1>3. /\ pc = "premark" => Setting /\ pc' = "secst"
      /\ pc = "postmark" => pc' = "after"
  BY <1>1, <1>2 DEF Whence, Traces, Setting
<1>4. At(mv.src).st # "write" /\ mv.src \in DeadSlots
  <2>1. At(mv.src).st # "write"
    BY <1>1, <1>2, StoreAssumption DEF Whence, Sourced, Traces, Used, Addrs, Sectors
  <2> QED
    BY <1>1, <1>2, <2>1 DEF DeadSlots, Unfinish
<1> HIDE DEF m
<1>5. \A s \in Sectors : /\ sec'[s].ok = sec[s].ok /\ sec'[s].store = sec[s].store
                         /\ sec'[s].gc = sec[s].gc
                         /\ sec'[s].dirty = IF s = m THEN "yes" ELSE sec[s].dirty
  BY <1>1, <1>2, SectorIs DEF FlashType, Headers
<1>6. UNCHANGED <<Ready, Empties, Blank, Flagged, Two, Three>> /\ Tidy' = Tidy \ {m}
  <2>1. UNCHANGED <<Ready, Empties, Blank, Flagged>> /\ Tidy' = Tidy \ {m}
    BY <1>1, <1>2, <1>5 DEF Tidy, Ready, Empties, Blank, Flagged
  <2> QED
    BY <2>1 DEF Two, Three
<1>7. /\ UNCHANGED Used /\ UNCHANGED DeadSlots /\ \A a : At(a)' = At(a)
      /\ \A s : Dead(s)' = Dead(s)
  <2>1. UNCHANGED Used /\ \A a : At(a)' = At(a)
    BY <1>1 DEF Used, At
  <2>2. UNCHANGED DeadSlots
    BY <1>1, <1>3, <2>1 DEF DeadSlots, Unfinish
  <2> QED
    BY <2>1, <2>2 DEF Dead
<1>8. \A k : Copies(k)' = Copies(k)
  BY <1>1, <1>3, <1>7 DEF Copies, Unfinish
<1>9. Stale' \subseteq Stale
  BY <1>6, <1>7 DEF Stale, m
<1>10. UNCHANGED Spacious
  BY <1>4, <1>6, <1>7 DEF Spacious, Dead, m
<1>11. \A s : Fits(s)' = Fits(s)
  BY <1>1, <1>3, <1>6 DEF Fits
<1>12. Shape'
  <2>1. Flagged \subseteq Sectors
    BY DEF Flagged
  <2> QED
    BY <1>1, <1>3, <1>5, <1>6, <1>8, <1>9, <1>11, <2>1 DEF RoomInv, Shape
<1>13. (Hurt' => Hurt) /\ (recov => (Left' => Left))
  BY <1>1, <1>2 DEF Whither
<1>14. AmpleFor => AmpleFor'
  <2>1. \A s \in Sectors : Usable(s) => Usable(s)'
    BY <1>5, <1>11 DEF Usable
  <2> QED
    BY <1>1, <1>7, <1>13, <2>1 DEF AmpleFor
<1>15. recov => pc = "postmark"
  BY <1>1, <1>3 DEF Setting
<1>16. UNCHANGED sec[mv.dst].store \/ pc = "premark"
  <2>1. pc = "postmark" => pc' = "after"
    BY <1>3
  <2>2. CASE mv.dst \in Sectors
    BY <1>1, <1>5, <2>2
  <2>3. CASE mv.dst \notin Sectors
    BY <1>1, <2>3 DEF Whence, StoreInv, FlashType
  <2> QED
    BY <2>2, <2>3
<1>17. Calls'
  BY <1>1, <1>2, <1>3, <1>6, <1>13, <1>14, <1>16
  DEF RoomInv, Calls, Waiting, Opening, Moving, Writes
<1>18. Collects'
  BY <1>1, <1>2 DEF Collects
<1>19. Starts'
  BY <1>1, <1>2, <1>3, <1>6, <1>10, <1>13, <1>15 DEF RoomInv, Starts, Moving, Writes
<1>20. Early'
  BY <1>1, <1>2, <1>3, <1>6, <1>9, <1>16
  DEF RoomInv, Early, Waiting, Opening, Moving, Writes, Pile
<1> QED
  BY <1>12, <1>17, <1>18, <1>19, <1>20 DEF RoomInv

\* update_sec_status, in a sector that has room or is empty.
LEMMA SectorStatusRoom ==
    ASSUME Whence, Whither, RoomInv, UNCHANGED resets, SectorStatus
    PROVE  RoomInv'
<1>0. PICK d : d = mv.dst
  OBVIOUS
<1>1. /\ pc = "secst" /\ pc' = "prewrite"
      /\ UNCHANGED <<node, gcReq, gcFlag, recov, mv, gc, pos>>
      /\ sec' = [sec EXCEPT ![d].store =
                   IF @ = "using" /\ Len(node[d]) + 1 = Cap THEN "full" ELSE "using"]
  BY <1>0 DEF SectorStatus, ram
<1>2. d \in Sectors /\ FlashType /\ InUse
  BY <1>0, <1>1 DEF Whence, StoreInv, Target
<1>3. d \in Ready \cup Empties
  <2>1. CASE gc.ret # "none"
    BY <1>0, <1>1, <2>1 DEF RoomInv, Collects
  <2>2. CASE gc.ret = "none" /\ recov
    BY <1>0, <1>1, <2>2 DEF RoomInv, Starts
  <2>3. CASE gc.ret = "none" /\ ~recov
    BY <1>0, <1>1, <2>3 DEF RoomInv, Calls, Opening
  <2> QED
    BY <2>1, <2>2, <2>3
<1>4. mv.src # None => mv.src \in Used /\ mv.src \in DeadSlots
  <2>1. mv.src # None => mv.src \in Used
    BY <1>1 DEF Whence, StoreInv, AtHand, Moving, Writes
  <2>2. mv.src # None => At(mv.src).st # "write"
    BY <1>1 DEF Whence, Sourced, Writes
  <2> QED
    BY <1>1, <2>1, <2>2 DEF DeadSlots, Unfinish
<1>5. \A s \in Sectors : /\ sec'[s].ok = sec[s].ok /\ sec'[s].dirty = sec[s].dirty
                         /\ sec'[s].gc = sec[s].gc
                         /\ s # d => sec'[s] = sec[s]
  BY <1>1, <1>2, SectorIs DEF FlashType, Headers
<1>6. sec'[d].store = IF sec[d].store = "using" /\ Len(node[d]) + 1 = Cap THEN "full" ELSE "using"
  BY <1>1, <1>2 DEF FlashType, Headers
<1>7. /\ UNCHANGED Used /\ UNCHANGED DeadSlots /\ \A a : At(a)' = At(a)
      /\ \A s : Dead(s)' = Dead(s)
  <2>1. UNCHANGED Used /\ \A a : At(a)' = At(a)
    BY <1>1 DEF Used, At
  <2>2. UNCHANGED DeadSlots
    BY <1>1, <2>1 DEF DeadSlots, Unfinish
  <2> QED
    BY <2>1, <2>2 DEF Dead
<1>8. \A k : Copies(k)' = Copies(k)
  BY <1>1, <1>7 DEF Copies, Unfinish
<1>9. UNCHANGED Flagged /\ UNCHANGED AllFlagged
  BY <1>5 DEF Flagged, AllFlagged
<1>10. Flagged \subseteq Sectors /\ Tidy \subseteq Sectors
  BY DEF Flagged, Tidy
<1>11. d \in Empties => /\ Len(node[d]) = 0 /\ Dead(d) = {} /\ sec[d].dirty = "no"
                        /\ ~sec[d].gc /\ (mv.src # None => mv.src[1] # d)
  <2>1. d \in Empties => node[d] = <<>> /\ sec[d].dirty = "no"
    BY <1>2 DEF InUse, Empties
  <2>2. d \in Empties => d \notin Flagged
    BY <2>1 DEF RoomInv, Shape
  <2>3. \A a \in Used : node[a[1]] # <<>>
    BY <1>2, UsedIn
  <2> QED
    BY <1>2, <1>4, <2>1, <2>2, <2>3, EmptySeq DEF Dead, DeadSlots, Flagged
<1>12. sec[d].store # "empty" => d \in Ready /\ sec[d].store = "using"
  BY <1>3 DEF Ready, Empties
<1>13. Len(node[d]) < Cap /\ sec[d].ok
  BY <1>3, <1>11, CapPositive DEF Ready, Empties
<1>14. /\ Empties' = Empties \ {d}
       /\ Tidy' = IF d \in Empties THEN Tidy \cup {d} ELSE Tidy
       /\ Ready' \subseteq Ready \cup {d} /\ Ready \ {d} \subseteq Ready'
       /\ d \notin Empties => Ready' \subseteq Ready
  BY <1>1, <1>2, <1>5, <1>6, <1>11, <1>12, <1>13 DEF Tidy, Ready, Empties
<1>15. /\ \A s \in Sectors : Fits(s) => Fits(s)'
       /\ Fits(d)'
  BY <1>0, <1>1, <1>14 DEF Fits
<1>16. UNCHANGED Stale
  BY <1>1, <1>7, <1>11, <1>14 DEF Stale, Dead
<1>17. Shape'
  <2>1. sec'[d].store = "using" \/ Len(node[d]) + 1 = Cap
    BY <1>6
  <2> QED
    BY <1>0, <1>1, <1>5, <1>7, <1>8, <1>9, <1>10, <1>14, <1>15, <1>16, <2>1 DEF RoomInv, Shape
<1>18. (Hurt' => Hurt) /\ (recov /\ gc.ret = "none" => ~Left')
  BY <1>1 DEF Whither
<1>19. /\ Spacious => Spacious'
       /\ d \in Empties => Spacious'
  BY <1>7, <1>11, <1>14 DEF Spacious
<1>20. \A s \in Sectors : Usable(s) => Usable(s)'
  BY <1>5, <1>6, <1>15 DEF Usable
<1>21. d \in Empties => Usable(d)'
  BY <1>2, <1>5, <1>6, <1>11, <1>13, <1>15 DEF Usable
<1>22. /\ AmpleFor \/ d \in Empties => AmpleFor'
       /\ Ample \/ d \in Empties => Ample'
  <2>1. AmpleFor => AmpleFor'
    BY <1>1, <1>7, <1>18, <1>20 DEF AmpleFor
  <2>2. Ample => Ample'
    BY <1>7, <1>18, <1>20 DEF Ample
  <2>3. d \in Empties => AmpleFor' /\ Ample'
    BY <1>1, <1>2, <1>7, <1>11, <1>21, StoreAssumption DEF AmpleFor, Ample
  <2> QED
    BY <2>1, <2>2, <2>3
<1>23. /\ Two => (Empties # {})'
       /\ Three => Two'
       /\ d \notin Empties => Empties' = Empties /\ Two' = Two
  <2>1. d \notin Empties => Empties' = Empties
    BY <1>14
  <2> QED
    BY <1>14, <2>1 DEF Two, Three
<1>24. Calls'
  <2>1. SUFFICES ASSUME gc.ret = "none", ~recov PROVE Calls'
    BY <1>1 DEF Calls
  <2>2. /\ Empties # {} /\ ~gcReq
        /\ d \in Empties => Two
        /\ Flagged # {} => Two \/ AmpleFor \/ d \in Empties
        /\ Flagged # {} /\ Hurt => Two
    BY <1>0, <1>1, <2>1 DEF RoomInv, Calls, Opening, Moving, Writes
  <2>3. d \in Empties => sec'[d].store = "using"
    BY <1>6, <1>12 DEF Empties
  <2>4. Flagged # {} => Two' \/ AmpleFor'
    BY <1>22, <1>23, <2>2
  <2>5. Flagged # {} /\ Hurt' /\ sec'[d].store = "full" => Two'
    BY <1>18, <1>23, <2>2, <2>3
  <2>6. (Empties # {})'
    BY <1>23, <2>2
  <2> QED
    BY <1>0, <1>1, <1>9, <2>1, <2>2, <2>4, <2>5, <2>6 DEF Calls, Waiting, Opening, Moving, Writes
<1>25. Starts'
  <2>1. SUFFICES ASSUME gc.ret = "none", recov PROVE Starts'
    BY <1>1 DEF Starts
  <2>2. /\ Empties # {} /\ ~gcReq /\ ~gcFlag
        /\ d \in Empties => Two
        /\ Flagged # {} => Two \/ (Spacious /\ ~Left)
        /\ mv.src \in DeadSlots
    BY <1>0, <1>1, <2>1 DEF RoomInv, Starts, Moving, Writes
  <2>3. Flagged # {} => Two' \/ (Spacious' /\ ~Left')
    BY <1>18, <1>19, <1>23, <2>1, <2>2
  <2>4. (Empties # {})'
    BY <1>23, <2>2
  <2> QED
    BY <1>1, <1>7, <1>9, <2>1, <2>2, <2>3, <2>4 DEF Starts, Moving, Writes
<1>26. Good => Good'
  BY <1>1, <1>14, <1>19 DEF Good
<1>27. Collects'
  <2>1. SUFFICES ASSUME gc.ret # "none" PROVE Collects'
    BY <1>1 DEF Collects
  <2>2. /\ recov \/ ~gcFlag => gcReq
        /\ recov \/ gc.ret = "again" \/ gc.pair => ~gcFlag
        /\ ~gcFlag => AllFlagged
        /\ d \in Empties => IF gcReq THEN ~Good ELSE Two
        /\ gc.pair => (\A s \in Flagged : s >= gc.at) /\ (Empties # {} \/ Good)
        /\ ~gc.pair /\ ~gcFlag => Two \/ (Empties # {} /\ Good)
        /\ gcFlag /\ gcReq => Empties # {} \/ Spacious
        /\ gcFlag /\ gcReq /\ Hurt => Two \/ (Empties # {} /\ Spacious)
        /\ gcFlag /\ ~gcReq => Two \/ (Empties # {} /\ Ample)
    BY <1>0, <1>1, <2>1 DEF RoomInv, Collects, Handling, Moving, Writes
  <2>3. Spacious => Good /\ (Spacious' => Good')
    BY DEF Good
  <2>4. Spacious' => Good'
    BY DEF Good
  <2>5. /\ gc.pair => (\A s \in Flagged' : s >= gc.at) /\ ((Empties # {})' \/ Good')
        /\ ~gc.pair /\ ~gcFlag => Two' \/ ((Empties # {})' /\ Good')
    BY <1>9, <1>19, <1>23, <1>26, <2>2, <2>4
  <2>6. /\ gcFlag /\ gcReq => (Empties # {})' \/ Spacious'
        /\ gcFlag /\ gcReq /\ Hurt' => Two' \/ ((Empties # {})' /\ Spacious')
        /\ gcFlag /\ ~gcReq => Two' \/ ((Empties # {})' /\ Ample')
    BY <1>18, <1>19, <1>22, <1>23, <2>2, <2>3
  <2> QED
    BY <1>1, <1>9, <2>1, <2>2, <2>5, <2>6 DEF Collects, Handling, Moving, Writes
<1>28. Early'
  <2>1. SUFFICES ASSUME resets = MaxResets PROVE Early'
    BY DEF Early
  <2>2. ~recov /\ Stale = {} /\ ~Pile
    BY <2>1 DEF RoomInv, Early
  <2>3. d \in Empties => Tidy = {}
    BY <1>0, <1>1, <2>1 DEF RoomInv, Early, Opening
  <2>4. ~Pile'
    BY <1>14, <2>2, <2>3 DEF Pile
  <2>5. CASE gc.ret = "none"
    <3>1. /\ Flagged # {} => Two
          /\ d \in Empties => Ready = {} /\ (Flagged # {} => Three)
          /\ Two \/ \A s, t \in Ready : s = t
      BY <1>0, <1>1, <2>1, <2>5 DEF RoomInv, Early, Opening, Moving, Writes
    <3>2. Flagged # {} => Two'
      BY <1>23, <3>1
    <3>3. Two' \/ \A s, t \in Ready' : s = t
      BY <1>14, <1>23, <3>1
    <3>4. sec'[d].store = "full" => Two' \/ Ready' = {}
      <4>1. CASE d \in Empties
        BY <1>6, <1>12, <4>1 DEF Empties
      <4>2. CASE d \notin Empties /\ sec'[d].store = "full"
        <5>1. d \in Ready /\ d \notin Ready'
          BY <1>3, <4>2 DEF Ready
        <5> QED
          BY <1>14, <1>23, <3>1, <4>2, <5>1
      <4> QED
        BY <4>1, <4>2
    <3> QED
      BY <1>0, <1>1, <1>9, <1>16, <2>2, <2>4, <2>5, <3>2, <3>3, <3>4
      DEF Early, Waiting, Opening, Moving, Writes
  <2>6. CASE gc.ret # "none"
    <3>1. /\ IF gc.pair THEN IF Empties = {} THEN Tidy # {} ELSE ~Two /\ Tidy = {}
                        ELSE Two \/ (Empties # {} /\ Tidy # {})
      BY <1>1, <2>1, <2>6 DEF RoomInv, Early, Handling, Moving, Writes
    <3>2. CASE d \in Empties
      <4>1. Tidy' = {d} /\ ~(Empties # {} /\ Tidy # {})
        BY <1>14, <2>3, <3>2
      <4>2. gc.pair => Empties' = {}
        BY <1>14, <3>1, <3>2 DEF Two
      <4>3. ~gc.pair => (Empties # {})'
        BY <1>23, <3>1, <4>1
      <4> QED
        BY <1>1, <1>16, <2>2, <2>4, <2>6, <4>1, <4>2, <4>3
        DEF Early, Handling, Moving, Writes
    <3>3. CASE d \notin Empties
      BY <1>1, <1>14, <1>16, <1>23, <2>2, <2>4, <2>6, <3>1, <3>3
      DEF Early, Handling, Moving, Writes
    <3> QED
      BY <3>2, <3>3
  <2> QED
    BY <2>5, <2>6
<1> QED
  BY <1>17, <1>24, <1>25, <1>27, <1>28 DEF RoomInv

\* Once the new record has its slot, writes leave the dead slots, and the room.
LEMMA Written ==
    ASSUME Whence, Whither, RoomInv, UNCHANGED <<sec, resets, gcFlag, recov, mv, gc, pos>>,
           \A s \in Sectors : Len(node'[s]) = Len(node[s]),
           UNCHANGED DeadSlots, \A k : Copies(k)' \subseteq Copies(k),
           pc \in {"head", "body", "write", "del"},
           pc' \in {"body", "write", "del", "postmark", "after"},
           gcReq' = (gcReq \/ (pc = "write" /\ Setting /\ sec[mv.dst].store = "full")),
           pc = "write" => pc' \in {"del", "after"},
           pc = "del" => pc' \in {"postmark", "after"}
    PROVE  RoomInv'
<1>1. /\ UNCHANGED <<Tidy, Flagged, Ready, Empties, Blank>>
      /\ UNCHANGED <<Two, Three, Pile, AllFlagged>>
  BY SectorsSame
<1>2. \A s : Dead(s)' = Dead(s)
  BY DEF Dead
<1>3. Stale' \subseteq Stale /\ UNCHANGED Spacious
  BY <1>1, <1>2 DEF Stale, Spacious
<1>4. \A s \in Sectors : Fits(s)' = Fits(s)
  BY <1>1 DEF Fits
<1>5. \A s \in Sectors : Usable(s)' = Usable(s)
  BY <1>4 DEF Usable
<1>6. Hurt' => Hurt
  BY DEF Whither
<1>7. (AmpleFor => AmpleFor') /\ (Ample => Ample')
  BY <1>2, <1>5, <1>6 DEF AmpleFor, Ample
<1>8. Flagged \subseteq Sectors /\ Tidy \subseteq Sectors
  BY DEF Flagged, Tidy
<1>9. Shape'
  BY <1>1, <1>3, <1>4, <1>8 DEF RoomInv, Shape
<1>10. UNCHANGED Good
  BY <1>1, <1>3 DEF Good
<1>11. gcReq \in BOOLEAN /\ (pc \in Moving \ {"postmark"}) /\ pc' \in Moving \ {"premark", "malloc"}
  BY DEF Whence, StoreInv, RamType, Moving, Writes
<1>12. recov \/ gc.ret # "none" => gcReq' = gcReq
  BY <1>11 DEF Setting
<1>13. Calls'
  <2>1. SUFFICES ASSUME gc.ret = "none", ~recov PROVE Calls'
    BY DEF Calls
  <2>2. /\ Empties # {}
        /\ gcReq => pc = "del" /\ sec[mv.dst].store = "full"
        /\ Flagged # {} => /\ Two \/ AmpleFor
                           /\ Hurt /\ sec[mv.dst].store = "full" => Two
    BY <2>1 DEF RoomInv, Calls, Opening, Moving, Writes
  <2> QED
    BY <1>1, <1>6, <1>7, <2>1, <2>2 DEF Calls, Waiting, Opening, Moving, Writes
<1>14. Collects'
  <2>1. SUFFICES ASSUME gc.ret # "none" PROVE Collects'
    BY DEF Collects
  <2> QED
    BY <1>1, <1>3, <1>6, <1>7, <1>10, <1>12, <2>1
    DEF RoomInv, Collects, Handling, Moving, Writes
<1>15. Starts'
  <2>1. SUFFICES ASSUME gc.ret = "none", recov PROVE Starts'
    BY DEF Starts
  <2>2. Left' => Left
    BY <2>1 DEF Whither
  <2> QED
    BY <1>1, <1>3, <1>12, <2>1, <2>2 DEF RoomInv, Starts, Moving, Writes
<1>16. Early'
  <2>1. SUFFICES ASSUME resets = MaxResets PROVE Early'
    BY DEF Early
  <2>2. CASE gc.ret = "none"
    BY <1>1, <1>3, <2>1, <2>2 DEF RoomInv, Early, Waiting, Opening, Moving, Writes
  <2>3. CASE gc.ret # "none"
    BY <1>1, <1>3, <2>1, <2>3 DEF RoomInv, Early, Handling, Moving, Writes
  <2> QED
    BY <2>2, <2>3
<1> QED
  BY <1>9, <1>13, <1>14, <1>15, <1>16 DEF RoomInv

\* Header, data and status of the new record.
LEMMA DstSteps ==
    ASSUME StoreInv, UNCHANGED mv,
           \/ pc = "head" /\ pc' = "body"
           \/ pc = "body" /\ pc' = "write"
           \/ pc = "write" /\ pc' = IF mv.src = None THEN "after" ELSE "del",
           NEW d \in Used, d # mv.src, d = Dst, Dst' = d, UNCHANGED Used,
           At(d).key = mv.key, At(d).st = "prewrite",
           At(d)' = [st |-> IF pc = "write" THEN "write" ELSE "prewrite",
                     key |-> mv.key, val |-> mv.val,
                     data |-> IF pc = "head" THEN "part" ELSE Content],
           \A b \in Used : b # d => At(b)' = At(b)
    PROVE  UNCHANGED DeadSlots /\ \A k : Copies(k)' \subseteq Copies(k)
<1>1. UNCHANGED DeadSlots
  BY DEF DeadSlots, Unfinish
<1>2. \A b \in Used : b # None
  BY StoreAssumption DEF Used, Addrs, Sectors
<1>3. ASSUME NEW k, NEW b \in Used, b \in Copies(k)' PROVE b \in Copies(k)
  <2>1. CASE b = d
    BY <1>3, <2>1 DEF Copies, Unfinish
  <2>2. CASE b # d
    BY <1>2, <1>3, <2>2 DEF Copies, Unfinish
  <2> QED
    BY <2>1, <2>2
<1>4. \A k : Copies(k)' \subseteq Used
  BY DEF Copies
<1> QED
  BY <1>1, <1>3, <1>4

\* So the three writes of a record keep the invariant.
LEMMA DstRoom ==
    ASSUME Whence, Whither, RoomInv, UNCHANGED resets, WriteHead \/ WriteBody \/ WriteStatus
    PROVE  RoomInv'
<1>1. /\ UNCHANGED <<sec, gcFlag, recov, mv, gc, pos>>
      /\ pc \in {"head", "body", "write"}
      /\ \/ pc = "head" /\ pc' = "body"
         \/ pc = "body" /\ pc' = "write"
         \/ pc = "write" /\ pc' = IF mv.src = None THEN "after" ELSE "del"
      /\ \/ pc = "head" /\ Write(Dst, [At(Dst) EXCEPT !.data = "part"])
         \/ pc = "body" /\ Write(Dst, [At(Dst) EXCEPT !.data = Content])
         \/ pc = "write" /\ Write(Dst, [At(Dst) EXCEPT !.st = "write"])
      /\ gcReq' = (gcReq \/ (pc = "write" /\ Setting /\ sec[mv.dst].store = "full"))
  BY DEF WriteHead, WriteBody, WriteStatus, Status, Content, ram, Whence, StoreInv, RamType
<1>2. PICK d, r : d = Dst /\ r = [st |-> IF pc = "write" THEN "write" ELSE "prewrite",
                                  key |-> mv.key, val |-> mv.val,
                                  data |-> IF pc = "head" THEN "part" ELSE Content]
  OBVIOUS
<1>3. /\ d \in Used /\ d # mv.src /\ At(d).st = "prewrite" /\ At(d).key = mv.key
      /\ Used' = Used /\ Dst' = d /\ At(d)' = r
      /\ \A b \in Used : b # d => At(b)' = At(b)
  BY <1>1, <1>2, DstEffect DEF Whence
<1>4. UNCHANGED DeadSlots /\ \A k : Copies(k)' \subseteq Copies(k)
  BY <1>1, <1>2, <1>3, DstSteps DEF Whence
<1>5. \A s \in Sectors : Len(node'[s]) = Len(node[s])
  <2>1. StoreInv
    BY DEF Whence
  <2>2. r \in Records
    BY <1>1, <1>2, DstIs, <2>1 DEF StoreInv, RamType, Records, Statuses, Content
  <2>3. Write(Dst, r)
    BY <1>1, <1>2, DstIs, <2>1 DEF Content
  <2> QED
    BY <1>1, <1>2, <2>1, <2>2, <2>3, DstWrite
<1> QED
  BY <1>1, <1>4, <1>5, Written

\* The record that was replaced is marked deleted.
LEMMA DeleteRoom ==
    ASSUME Whence, Whither, RoomInv, UNCHANGED resets, Delete
    PROVE  RoomInv'
<1>1. /\ pc = "del" /\ UNCHANGED <<sec, gcReq, gcFlag, recov, mv, gc, pos>>
      /\ pc' \in {"postmark", "after"}
  BY DEF Delete
<1>2. PICK a : a = mv.src
  OBVIOUS
<1>3. /\ a \in Used /\ At(a).key = mv.key /\ At(a)'.st = "deleted"
      /\ Used' = Used /\ \A b \in Used : b # a => At(b)' = At(b)
      /\ \A s \in Sectors : Len(node'[s]) = Len(node[s])
  BY <1>2, DeleteEffect DEF Whence
<1>4. a # None
  BY <1>3, StoreAssumption DEF Used, Addrs, Sectors
<1>5. At(a).st = "predelete"
  BY <1>1, <1>2, <1>4 DEF Whence, Sourced
<1>6. UNCHANGED DeadSlots
  BY <1>1, <1>3, <1>5 DEF DeadSlots, Unfinish
<1>7. ASSUME NEW k, NEW b \in Used, b \in Copies(k)' PROVE b \in Copies(k)
  <2>1. b # a
    BY <1>1, <1>3, <1>7 DEF Copies, Unfinish
  <2> QED
    BY <1>1, <1>2, <1>3, <1>7, <2>1 DEF Copies, Unfinish
<1>8. \A k : Copies(k)' \subseteq Used
  BY <1>3 DEF Copies
<1>9. gcReq' = (gcReq \/ (pc = "write" /\ Setting /\ sec[mv.dst].store = "full"))
  BY <1>1 DEF Whence, StoreInv, RamType
<1> QED
  BY <1>1, <1>3, <1>6, <1>7, <1>8, <1>9, Written

\* The record to be replaced is marked.
LEMMA PreDeleteRoom ==
    ASSUME Whence, Whither, RoomInv, UNCHANGED resets, PreDelete
    PROVE  RoomInv'
<1>1. /\ pc = "predel" /\ UNCHANGED <<sec, gcReq, gcFlag, recov, mv, gc, pos>>
      /\ pc' = IF sec[mv.src[1]].dirty = "no" THEN "premark"
               ELSE IF Setting THEN "secst" ELSE "malloc"
  BY DEF PreDelete
<1>2. PICK a : a = mv.src
  OBVIOUS
<1>3. /\ a \in Used /\ At(a).key = mv.key /\ At(a)'.key = mv.key /\ At(a)'.st = "predelete"
      /\ At(a)'.data = At(a).data
      /\ Used' = Used /\ \A b \in Used : b # a => At(b)' = At(b)
  BY <1>2, PreDeleteEffect DEF Whence
<1>4. a # None /\ a[1] \in Sectors
  BY <1>3, StoreAssumption DEF Used, Addrs, Sectors
<1>5. At(a).st = "write" /\ At(a).data = "all"
  BY <1>1, <1>2, <1>4 DEF Whence, Sourced
<1>6. \A s \in Sectors : Len(node'[s]) = Len(node[s])
  <2>1. At(a) \in Records /\ FlashType /\ At(a).key # None
    BY <1>3, <1>5, UsedIn DEF Whence, StoreInv, Records
  <2>2. PICK x : x = At(a)
    OBVIOUS
  <2>3. [x EXCEPT !.st = "predelete"] \in Records
    BY <2>1, <2>2, RecordWith DEF Statuses
  <2>4. Write(a, [x EXCEPT !.st = "predelete"])
    BY <1>2, <2>2 DEF PreDelete, Status
  <2> QED
    BY <1>3, <2>1, <2>3, <2>4, WriteEffect
<1>7. /\ UNCHANGED <<Tidy, Flagged, Ready, Empties, Blank>>
      /\ UNCHANGED <<Two, Three, Pile, AllFlagged>>
  BY <1>1, <1>6, SectorsSame
<1>8. DeadSlots' = DeadSlots \cup {a}
  BY <1>1, <1>3 DEF DeadSlots, Unfinish
<1>9. \A k : Copies(k)' \subseteq Copies(k)
  BY <1>1, <1>3, <1>5 DEF Copies, Unfinish
<1>10. a[1] \in Tidy => pc' = "premark"
  BY <1>1, <1>2 DEF Tidy
<1>11. Stale' \subseteq Stale
  BY <1>1, <1>2, <1>7, <1>8, <1>10 DEF Stale
<1>12. /\ \A s : s # a[1] => Dead(s)' = Dead(s)
       /\ \A s : Dead(s)' \subseteq Dead(s) \cup {a}
  BY <1>8 DEF Dead
<1>13. \A s \in Sectors : Fits(s)' = Fits(s)
  BY <1>1, <1>6, <1>7 DEF Fits
<1>14. \A s \in Sectors : Usable(s)' = Usable(s)
  BY <1>1, <1>13 DEF Usable
<1>15. Hurt' => Hurt
  BY <1>1 DEF Whither
<1>16. Shape'
  <2>1. Flagged \subseteq Sectors /\ Tidy \subseteq Sectors
    BY DEF Flagged, Tidy
  <2> QED
    BY <1>1, <1>7, <1>9, <1>11, <1>13, <2>1 DEF RoomInv, Shape
<1>17. CASE gc.ret = "none"
  <2>1. ~recov /\ Setting /\ pc' \in {"premark", "secst"}
    BY <1>1, <1>17 DEF Whence, Traces, Setting
  <2>2. AmpleFor => AmpleFor'
    BY <1>1, <1>2, <1>12, <1>14, <1>15 DEF AmpleFor
  <2>3. Calls'
    BY <1>1, <1>7, <1>15, <1>17, <2>1, <2>2
    DEF RoomInv, Calls, Waiting, Opening, Moving, Writes
  <2>4. Collects' /\ Starts'
    BY <1>1, <1>17, <2>1 DEF Collects, Starts
  <2>5. Early'
    BY <1>1, <1>7, <1>11, <1>17, <2>1 DEF RoomInv, Early, Waiting, Opening, Moving, Writes
  <2> QED
    BY <1>16, <2>3, <2>4, <2>5 DEF RoomInv
<1>18. CASE gc.ret # "none"
  <2>1. a[1] = gc.at /\ sec[a[1]].dirty = "gc"
    BY <1>1, <1>2, <1>18 DEF Whence, StoreInv, Collected, Moving
  <2>2. pc' = "malloc"
    BY <1>1, <1>2, <1>18, <2>1 DEF Setting
  <2>3. UNCHANGED Spacious
    BY <1>7, <1>12, <2>1 DEF Spacious, Tidy
  <2>4. UNCHANGED Good
    BY <1>1, <1>7, <2>3 DEF Good
  <2>5. Ample => Ample'
    BY <1>12, <1>14, <1>15, <2>1 DEF Ample, Usable
  <2>6. Calls' /\ Starts'
    BY <1>1, <1>18, <2>2 DEF Calls, Starts
  <2>7. Collects'
    BY <1>1, <1>7, <1>15, <1>18, <2>2, <2>3, <2>4, <2>5
    DEF RoomInv, Collects, Handling, Moving, Writes
  <2>8. Early'
    BY <1>1, <1>7, <1>11, <1>18, <2>2 DEF RoomInv, Early, Handling, Moving, Writes
  <2> QED
    BY <1>16, <2>6, <2>7, <2>8 DEF RoomInv
<1> QED
  BY <1>17, <1>18

\* The new record takes its slot.
LEMMA PreWriteRoom ==
    ASSUME Whence, Whither, RoomInv, UNCHANGED resets, PreWrite
    PROVE  RoomInv'
<1>1. /\ pc = "prewrite" /\ pc' = "head" /\ UNCHANGED <<sec, gcReq, gcFlag, recov, mv, gc, pos>>
  BY DEF PreWrite, ram
<1>2. PICK r : r = [st |-> "prewrite", key |-> mv.key, val |-> mv.val, data |-> "none"]
  OBVIOUS
<1>3. PICK s, d, a : s = mv.dst /\ d = <<s, Len(node[s]) + 1>> /\ a = mv.src
  OBVIOUS
<1>4. /\ s \in Sectors /\ sec[s].ok /\ Len(node[s]) < Cap /\ mv.key # None /\ FlashType
      /\ mv.key \in Keys /\ mv.val \in Vals \cup {None}
  BY <1>1, <1>3 DEF Whence, StoreInv, Target, Control, RamType, Moving, Writes
<1>5. r \in Records
  BY <1>2, <1>4 DEF Records, Statuses
<1>6. node' = [node EXCEPT ![s] = Append(@, r)]
  BY <1>2, <1>3 DEF PreWrite
<1>7. /\ \A t \in Sectors : Len(node'[t]) = IF t = s THEN Len(node[s]) + 1 ELSE Len(node[t])
      /\ d \notin Used /\ Used' = Used \cup {d}
      /\ At(d)' = r
      /\ \A b \in Used : At(b)' = At(b)
  <2>1. FlashType /\ s \in Sectors /\ Len(node[s]) < Cap
    BY <1>4
  <2>2. d = <<s, Len(node[s]) + 1>>
    BY <1>3
  <2> QED
    BY <1>5, <1>6, <2>1, <2>2, AppendEffect
<1>8. Dst' = d
  BY <1>1, <1>3, <1>4, <1>7 DEF Dst
<1>9. UNCHANGED DeadSlots
  BY <1>1, <1>7, <1>8 DEF DeadSlots, Unfinish
<1>10. \A t : Dead(t)' = Dead(t)
  BY <1>9 DEF Dead
<1>11. \A t \in Sectors : Len(node[t]) \in Nat
  BY <1>4, SectorIs
<1>12. /\ UNCHANGED <<Tidy, Flagged, Empties, Blank, Two, Three, Pile, AllFlagged>>
       /\ Ready' \subseteq Ready
  <2>1. UNCHANGED <<Tidy, Flagged, Empties, Blank, AllFlagged>>
    BY <1>1 DEF Tidy, Flagged, Empties, Blank, AllFlagged
  <2>2. Ready' \subseteq Ready
    BY <1>1, <1>4, <1>7, <1>11, CapPositive DEF Ready
  <2> QED
    BY <2>1, <2>2 DEF Two, Three, Pile
<1>13. UNCHANGED <<Stale, Spacious>>
  BY <1>1, <1>9, <1>10, <1>12 DEF Stale, Spacious
<1>14. \A t \in Sectors : Fits(t) /\ sec[t].dirty # "gc" => Fits(t)'
  <2>1. sec[s].store = "using" \/ Len(node[s]) + 1 = Cap
    BY <1>1, <1>3 DEF RoomInv, Shape
  <2>2. CASE Len(node[s]) + 1 = Cap
    BY <1>1, <1>3, <1>7, <1>11, <2>2 DEF Fits, Ready
  <2>3. CASE sec[s].store = "using" /\ Len(node[s]) + 1 # Cap
    <3>1. Len(node[s]) + 1 < Cap
      BY <1>4, <1>11, <2>3, CapPositive
    <3>2. sec[s].dirty # "gc" => s \in Ready'
      BY <1>1, <1>4, <1>7, <2>3, <3>1 DEF Ready
    <3> QED
      BY <1>1, <1>3, <1>7, <3>2 DEF Fits, Ready
  <2> QED
    BY <2>1, <2>2, <2>3
<1>15. \A t \in Sectors : Usable(t) => Usable(t)'
  BY <1>1, <1>14 DEF Usable
<1>16. a # None => a \in Used /\ At(a).key = mv.key /\ At(a).st = "predelete" /\ At(a).data = "all"
  BY <1>1, <1>3 DEF Whence, StoreInv, AtHand, Sourced, Moving, Writes
<1>17. \A k : \A b \in Copies(k)' : b \in Copies(k) \/ (b = d /\ k = mv.key)
  BY <1>1, <1>2, <1>7, <1>8 DEF Copies, Unfinish
<1>18. a # None => a \in Copies(mv.key) /\ a \notin Copies(mv.key)'
  <2>1. a # None => a \in Copies(mv.key)
    BY <1>1, <1>16 DEF Copies, Unfinish
  <2>2. a # None => a # d
    BY <1>7, <1>16
  <2>3. a \notin Copies(mv.key)' \/ a = d
    BY <1>1, <1>3, <1>8 DEF Copies, Unfinish
  <2>4. a = d => a = None
    BY <2>2
  <2> QED
    BY <2>1, <2>2, <2>3
<1>19. recov => Setting = FALSE /\ a # None
  BY <1>1, <1>3 DEF Setting, Whence, StoreInv, AtHand, Moving, Writes
<1>20. recov => \A k \in Keys : (\E b, c \in Copies(k)' : b # c) => \E b, c \in Copies(k) : b # c
  <2>1. SUFFICES ASSUME recov, NEW k \in Keys, NEW b \in Copies(k)', NEW c \in Copies(k)', b # c
                 PROVE  \E e, f \in Copies(k) : e # f
    OBVIOUS
  <2>2. CASE b \in Copies(k) /\ c \in Copies(k)
    BY <2>1, <2>2
  <2>3. mv.src # None /\ k = mv.key => a \in Copies(mv.key) /\ b # a /\ c # a
    BY <1>1, <1>3, <1>17, <1>18, <2>1
  <2> QED
    BY <1>3, <1>17, <1>19, <2>1, <2>2, <2>3
<1>21. Shape'
  <2>1. Flagged \subseteq Sectors /\ Tidy \subseteq Sectors /\ \A t \in Tidy : sec[t].dirty = "no"
    BY DEF Flagged, Tidy
  <2> QED
    BY <1>1, <1>12, <1>13, <1>14, <1>20, <2>1 DEF RoomInv, Shape
<1>22. Hurt' => Hurt
  BY <1>1 DEF Whither
<1>23. AmpleFor => AmpleFor'
  BY <1>1, <1>10, <1>15, <1>22 DEF AmpleFor
<1>24. Ample => Ample'
  BY <1>10, <1>15, <1>22 DEF Ample
<1>25. UNCHANGED Good
  BY <1>1, <1>12, <1>13 DEF Good
<1>26. Calls'
  <2>1. SUFFICES ASSUME gc.ret = "none", ~recov PROVE Calls'
    BY <1>1 DEF Calls
  <2> QED
    BY <1>1, <1>12, <1>22, <1>23, <2>1
    DEF RoomInv, Calls, Waiting, Opening, Moving, Writes
<1>27. Collects'
  <2>1. SUFFICES ASSUME gc.ret # "none" PROVE Collects'
    BY <1>1 DEF Collects
  <2> QED
    BY <1>1, <1>12, <1>13, <1>22, <1>24, <1>25, <2>1
    DEF RoomInv, Collects, Handling, Moving, Writes
<1>28. Starts'
  <2>1. SUFFICES ASSUME gc.ret = "none", recov PROVE Starts'
    BY <1>1 DEF Starts
  <2>2. Left' => Left
    BY <2>1 DEF Whither
  <2> QED
    BY <1>1, <1>9, <1>12, <1>13, <2>1, <2>2 DEF RoomInv, Starts, Moving, Writes
<1>29. Early'
  <2>1. CASE gc.ret = "none"
    BY <1>1, <1>12, <1>13, <2>1 DEF RoomInv, Early, Waiting, Opening, Moving, Writes
  <2>2. CASE gc.ret # "none"
    BY <1>1, <1>12, <1>13, <2>2 DEF RoomInv, Early, Handling, Moving, Writes
  <2> QED
    BY <2>1, <2>2
<1> QED
  BY <1>21, <1>26, <1>27, <1>28, <1>29 DEF RoomInv

\* The scan of the recovery.
LEMMA LoadScanRoom ==
    ASSUME Whence, Whither, RoomInv, UNCHANGED resets, LoadScan
    PROVE  RoomInv'
<1> DEFINE todo == {a \in Visited : Before(pos, a) /\ Unfinished(At(a))}
<1>1. pc = "rscan" /\ UNCHANGED <<sec, gcReq, gcFlag, recov, gc>>
  BY DEF LoadScan, ram
<1>2. recov /\ gc.ret = "none" /\ FlashType /\ InUse
  BY <1>1 DEF Whence, StoreInv, Control, Loading
<1>3. ~gcReq /\ ~gcFlag /\ Empties # {} /\ Calm
  BY <1>1, <1>2, SMT DEF RoomInv, Starts, Whence, StoreInv, RamType
<1>4. Early' /\ Calls' /\ Collects'
  BY <1>1, <1>2 DEF RoomInv, Early, Calls, Collects
<1>5. Left' => Left
  BY <1>2 DEF Whither
<1>6. PICK a : a = First(todo)
  OBVIOUS
<1>7. todo # {} => a \in Used /\ a \in todo
  <2>1. todo \subseteq Used
    BY <1>2, VisitedIs
  <2> QED
    BY <1>6, <2>1, FirstIn DEF Used
<1>8. \/ pc' = "rstop" /\ UNCHANGED node
      \/ /\ a \in Used /\ At(a).st = "predelete" /\ Move(a)
         /\ pc' = "malloc" /\ UNCHANGED node
      \/ /\ a \in Used /\ At(a).st = "prewrite" /\ Write(a, Junk)
         /\ pc' = "rstop"
  BY <1>6, <1>7 DEF LoadScan
<1> HIDE DEF todo
<1>9. CASE UNCHANGED node /\ pc' \in {"rstop", "malloc"}
  <2>1. /\ UNCHANGED <<View, Counted>>
        /\ \A s : Dead(s)' = Dead(s) /\ Fits(s)' = Fits(s)
    BY <1>1, <1>9, Steady DEF Quiet, flash
  <2>2. Calm'
    BY <1>3, <1>5, <2>1 DEF Calm, View, Counted
  <2>3. pc' = "malloc" => mv'.src \in DeadSlots'
    <3>1. SUFFICES ASSUME pc' = "malloc" PROVE mv'.src \in DeadSlots
      BY <2>1 DEF View
    <3>2. a \in Used /\ At(a).st = "predelete" /\ mv'.src = a
      BY <1>8, <3>1 DEF Move
    <3> QED
      BY <1>1, <3>2 DEF DeadSlots, Unfinish
  <2>4. Starts'
    BY <1>1, <1>2, <1>3, <1>9, <2>1, <2>2, <2>3
    DEF Starts, View, Counted, Moving, Writes
  <2>5. Shape'
    BY <1>1, <1>9, SteadyShape DEF RoomInv, Quiet, flash
  <2> QED
    BY <1>4, <2>4, <2>5 DEF RoomInv
<1>10. CASE a \in Used /\ At(a).st = "prewrite" /\ Write(a, Junk) /\ pc' = "rstop"
  <2>1. Junk \in Records
    BY DEF Junk, Records, Statuses
  <2>2. /\ \A s \in Sectors : Len(node'[s]) = Len(node[s])
        /\ Used' = Used /\ At(a)' = Junk /\ \A b \in Used : b # a => At(b)' = At(b)
    BY <1>2, <1>10, <2>1, WriteEffect
  <2>3. /\ UNCHANGED <<Tidy, Flagged, Ready, Empties, Blank>>
        /\ UNCHANGED <<Two, Three, Pile, AllFlagged>>
    BY <1>1, <2>2, SectorsSame
  <2>4. UNCHANGED DeadSlots
    BY <1>1, <1>10, <2>2 DEF DeadSlots, Unfinish, Junk
  <2>5. UNCHANGED <<Stale, Spacious>>
    BY <1>1, <1>10, <2>3, <2>4 DEF Stale, Spacious, Dead
  <2>6. \A s \in Sectors : Fits(s)' = Fits(s)
    BY <1>1, <1>10, <2>2, <2>3 DEF Fits
  <2>7. ASSUME NEW k, NEW b \in Copies(k)' PROVE b \in Copies(k)
    <3>1. b \in Used /\ At(b)'.st \in {"write", "predelete"}
      BY <1>10, <2>2, <2>7 DEF Copies, Unfinish
    <3>2. At(b)' = At(b)
      BY <2>2, <3>1 DEF Junk
    <3> QED
      BY <1>1, <1>10, <2>2, <2>7, <3>2 DEF Copies, Unfinish
  <2>8. Shape'
    <3>1. Flagged \subseteq Sectors /\ Tidy \subseteq Sectors
      BY DEF Flagged, Tidy
    <3> QED
      BY <1>1, <1>2, <1>10, <2>3, <2>5, <2>6, <2>7, <3>1 DEF RoomInv, Shape
  <2>9. Calm'
    BY <1>3, <1>5, <2>3, <2>5 DEF Calm
  <2>10. Starts'
    BY <1>1, <1>2, <1>3, <1>10, <2>3, <2>9 DEF Starts, Moving, Writes
  <2> QED
    BY <1>4, <2>8, <2>10 DEF RoomInv
<1> QED
  BY <1>8, <1>9, <1>10

-----------------------------------------------------------------------------
(* Counting records. *)

Slots(s) == {a \in Used : a[1] = s}

\* The slots of a sector are as many as its records.
LEMMA SlotsIn ==
    ASSUME FlashType, NEW s \in Sectors
    PROVE  IsFiniteSet(Slots(s)) /\ Cardinality(Slots(s)) = Len(node[s])
<1> DEFINE n == Len(node[s])
           f == [i \in 1 .. n |-> <<s, i>>]
<1>1. n \in Nat /\ n <= Cap
  BY SectorIs
<1>2. \A i \in 1 .. n : <<s, i>> \in Slots(s)
  BY <1>1, CapPositive DEF Slots, Used, Addrs
<1>3. \A a \in Slots(s) : \E i \in 1 .. n : a = <<s, i>>
  <2> SUFFICES ASSUME NEW a \in Slots(s) PROVE \E i \in 1 .. n : a = <<s, i>>
    OBVIOUS
  <2>1. a \in Addrs /\ a[2] <= n /\ a[1] = s
    BY DEF Slots, Used
  <2>2. a = <<s, a[2]>> /\ a[2] \in 1 .. n
    BY <1>1, <2>1, CapPositive DEF Addrs
  <2> QED
    BY <2>2
<1>4. f \in [1 .. n -> Slots(s)]
  BY <1>2
<1>5. \A i, j \in 1 .. n : f[i] = f[j] => i = j
  OBVIOUS
<1>6. \A a \in Slots(s) : \E i \in 1 .. n : f[i] = a
  BY <1>3
<1>7. f \in Bijection(1 .. n, Slots(s))
  BY <1>4, <1>5, <1>6 DEF Bijection, Injection, Surjection, IsInjective
<1>8. ExistsBijection(1 .. n, Slots(s))
  BY <1>7 DEF ExistsBijection
<1>9. IsFiniteSet(1 .. n) /\ Cardinality(1 .. n) = n
  BY <1>1, FS_Interval
<1> QED
  BY <1>8, <1>9, FS_Bijection

\* If all slots of a sector but some hold records of different keys, it has no
\* more records than those keys and the others.
LEMMA Crowd ==
    ASSUME FlashType, NEW s \in Sectors, NEW A \in SUBSET Keys, NEW E, IsFiniteSet(E),
           \A a \in Slots(s) \ E : At(a).key \in A,
           \A a, b \in Slots(s) \ E : At(a).key = At(b).key => a = b
    PROVE  /\ IsFiniteSet(A) /\ Cardinality(A) \in Nat /\ Cardinality(A) <= Cardinality(Keys)
           /\ Cardinality(Keys) \in Nat /\ Cardinality(E) \in Nat
           /\ Len(node[s]) <= Cardinality(A) + Cardinality(E)
<1> DEFINE T == Slots(s) \ E
           f == [a \in T |-> At(a).key]
<1>1. IsFiniteSet(A) /\ Cardinality(A) <= Cardinality(Keys)
  BY StoreAssumption, FS_Subset
<1>2. Cardinality(A) \in Nat /\ Cardinality(Keys) \in Nat /\ Cardinality(E) \in Nat
  BY <1>1, StoreAssumption, FS_CardinalityType
<1>3. f \in Injection(T, A)
  BY DEF Injection, IsInjective
<1>4. Cardinality(T) <= Cardinality(A) /\ IsFiniteSet(T)
  BY <1>1, <1>3, FS_Injection
<1>5. IsFiniteSet(Slots(s)) /\ Cardinality(Slots(s)) = Len(node[s])
  BY SlotsIn
<1>6. Cardinality(T \cup E) <= Cardinality(T) + Cardinality(E) /\ IsFiniteSet(T \cup E)
  <2>1. /\ IsFiniteSet(T \cup E)
        /\ Cardinality(T \cup E) = Cardinality(T) + Cardinality(E) - Cardinality(T \cap E)
    BY <1>4, FS_Union
  <2>2. Cardinality(T \cap E) \in Nat /\ Cardinality(T) \in Nat
    BY <1>4, FS_Intersection, FS_CardinalityType
  <2> QED
    BY <1>2, <2>1, <2>2
<1>7. Slots(s) \subseteq T \cup E
  OBVIOUS
<1>8. Cardinality(Slots(s)) <= Cardinality(T \cup E)
  BY <1>6, <1>7, FS_Subset
<1>9. Cardinality(T) \in Nat /\ Cardinality(T \cup E) \in Nat /\ Cardinality(Slots(s)) \in Nat
  BY <1>4, <1>5, <1>6, FS_CardinalityType
<1> HIDE DEF T, f
<1> QED
  BY <1>1, <1>2, <1>4, <1>5, <1>6, <1>8, <1>9

\* Complete records, one of a key that counts.
Single == \A k \in Keys : Whole(k) /\ \A a, b \in Live(k) : a = b

\* A slot that is not dead holds a record that counts.
LEMMA AliveIs ==
    ASSUME StoreInv, \A k \in Keys : Whole(k), pc \notin {"head", "body", "write"},
           NEW a \in Used, a \notin DeadSlots
    PROVE  At(a).key \in Keys /\ a \in Live(At(a).key)
<1>1. At(a).st = "write"
  BY DEF DeadSlots, Unfinish
<1>2. At(a).key \in Keys
  BY <1>1, UsedIn DEF StoreInv, Records
<1>3. At(a).data = "all"
  BY <1>1, <1>2 DEF Whole
<1> QED
  BY <1>1, <1>2, <1>3 DEF Live

\* A sector without dead slots has room, and one with at most one has room
\* while there is a key of which no record counts.
LEMMA Alone ==
    ASSUME StoreInv, Single, pc \notin {"head", "body", "write"}, NEW s \in Sectors
    PROVE  /\ Dead(s) = {} => Len(node[s]) < Cap
           /\ \A k \in Keys : Live(k) = {} /\ (\A a, b \in Dead(s) : a = b) =>
                  Len(node[s]) < Cap /\ (Dead(s) = {} => Len(node[s]) + 1 < Cap)
<1>1. ASSUME NEW a \in Slots(s) \ Dead(s)
      PROVE  At(a).key \in Keys /\ a \in Live(At(a).key)
  BY <1>1, AliveIs DEF Slots, Dead, Single
<1>2. \A a, b \in Slots(s) \ Dead(s) : At(a).key = At(b).key => a = b
  BY <1>1 DEF Single
<1>3. FlashType /\ Len(node[s]) \in Nat
  BY SectorIs DEF StoreInv
<1>4. ASSUME Dead(s) = {} PROVE Len(node[s]) < Cap
  <2>1. IsFiniteSet({}) /\ Cardinality({}) = 0
    BY FS_EmptySet
  <2>2. /\ \A a \in Slots(s) \ {} : At(a).key \in Keys
        /\ \A a, b \in Slots(s) \ {} : At(a).key = At(b).key => a = b
    BY <1>1, <1>2, <1>4
  <2>3. Keys \in SUBSET Keys
    OBVIOUS
  <2>4. Len(node[s]) <= Cardinality(Keys) + Cardinality({}) /\ Cardinality(Keys) \in Nat
    BY <1>3, <2>1, <2>2, <2>3, Crowd
  <2> QED
    BY <1>3, <2>1, <2>4, StoreAssumption
<1>5. ASSUME NEW k \in Keys, Live(k) = {}, \A a, b \in Dead(s) : a = b
      PROVE  Len(node[s]) < Cap /\ (Dead(s) = {} => Len(node[s]) + 1 < Cap)
  <2> DEFINE A == Keys \ {k}
  <2>1. /\ IsFiniteSet(Keys) /\ Cardinality(Keys) \in Nat /\ Cardinality(A) = Cardinality(Keys) - 1
    BY StoreAssumption, FS_RemoveElement, FS_CardinalityType
  <2>2. PICK E : IF Dead(s) = {} THEN E = {} ELSE \E a \in Dead(s) : E = {a}
    OBVIOUS
  <2>3. E = Dead(s)
    BY <1>5, <2>2
  <2>4. IsFiniteSet(E) /\ Cardinality(E) \in Nat /\ Cardinality(E) <= 1 /\ (E = {} => Cardinality(E) = 0)
    <3>1. CASE E = {}
      BY <3>1, FS_EmptySet
    <3>2. ASSUME NEW a, E = {a} PROVE IsFiniteSet(E) /\ Cardinality(E) = 1 /\ E # {}
      BY <3>2, FS_Singleton
    <3> QED
      BY <2>2, <3>1, <3>2
  <2>5. \A a \in Slots(s) \ E : At(a).key \in A
    BY <1>1, <1>5, <2>3
  <2>6. \A a, b \in Slots(s) \ E : At(a).key = At(b).key => a = b
    BY <1>2, <2>3
  <2>7. A \in SUBSET Keys
    OBVIOUS
  <2> HIDE DEF A
  <2>8. Len(node[s]) <= Cardinality(A) + Cardinality(E)
    BY <1>3, <2>4, <2>5, <2>6, <2>7, Crowd
  <2> QED
    BY <1>3, <2>1, <2>3, <2>4, <2>8, StoreAssumption
<1> QED
  BY <1>4, <1>5

\* While one record of each key counts, what the steps need of the records
\* holds.
LEMMA RoomedSingle ==
    ASSUME StoreInv, Shape, Collects, Early, Single,
           pc \in {"malloc", "prewrite"} /\ ~recov => Live(mv.key) = {},
           pc = "malloc" => mv.src \in Old(mv.key)
    PROVE  /\ Roomed
           /\ resets = MaxResets /\ pc = "prewrite" /\ mv.dst \in Tidy => Len(node[mv.dst]) + 1 < Cap
<1>1. FlashType /\ \A s \in Sectors : Len(node[s]) \in Nat
  BY SectorIs DEF StoreInv
<1>2. Tidy \subseteq Sectors
  BY DEF Tidy
<1>3. ASSUME NEW s \in Sectors, Fits(s), Len(node[s]) < Cap, pc # "prewrite" PROVE s \in Ready
  BY <1>1, <1>3, CapPositive DEF Fits
<1>4. \A s \in Tidy : Fits(s)
  BY DEF Shape
<1>5. ASSUME NEW s \in Tidy, Dead(s) = {}, pc \notin {"head", "body", "write", "prewrite"}
      PROVE  s \in Ready
  BY <1>2, <1>3, <1>4, <1>5, Alone
<1>6. pc \in {"malloc", "prewrite"} => mv.key \in Keys
  BY DEF StoreInv, Control, RamType, Moving, Writes
<1>7. pc \notin {"premark", "postmark"} => \A s \in Tidy : \A a, b \in Dead(s) : a = b
  BY DEF Dead, Stale, DeadSlots, Shape
<1>8. ASSUME pc = "malloc", gc.ret # "none", gcReq, Good PROVE Roomy # {}
  <2>1. Roomy = Ready \cap Tidy
    BY <1>1, <1>8, AllocIs
  <2>2. CASE Spacious
    <3>1. PICK s \in Tidy : Dead(s) = {}
      BY <2>2 DEF Spacious
    <3> QED
      BY <1>5, <1>8, <2>1, <3>1
  <2>3. CASE recov /\ Tidy # {} /\ ~Spacious
    <3>1. PICK s \in Tidy : Dead(s) # {}
      BY <2>3 DEF Spacious
    <3>2. Stale # {}
      BY <1>8, <3>1 DEF Stale, Dead
    <3>3. \A a, b \in Copies(mv.key) : a = b
      BY <1>6, <1>8, <2>3, <3>2 DEF Shape
    <3>4. \A a \in Live(mv.key) \cup Old(mv.key) : a \in Copies(mv.key)
      BY <1>8 DEF Live, Old, Copies
    <3>5. Live(mv.key) = {}
      <4> SUFFICES ASSUME NEW a \in Live(mv.key) PROVE FALSE
        OBVIOUS
      <4>1. a = mv.src
        BY <1>8, <3>3, <3>4
      <4> QED
        BY <1>8, <4>1 DEF Live, Old
    <3>6. Len(node[s]) < Cap
      BY <1>2, <1>6, <1>7, <1>8, <3>5, Alone
    <3> QED
      BY <1>2, <1>3, <1>4, <1>8, <2>1, <3>6
  <2> QED
    BY <1>8, <2>2, <2>3 DEF Good
<1>9. ASSUME pc = "malloc", gc.ret # "none", ~gcReq, Ample PROVE Roomy # {}
  <2>1. Roomy = Ready
    BY <1>1, <1>9, AllocIs
  <2>2. PICK s \in Sectors : Usable(s) /\ \A a, b \in Dead(s) : a = b
    BY <1>9 DEF Ample
  <2>3. ~recov
    BY <1>9 DEF Collects
  <2>4. Len(node[s]) < Cap
    BY <1>6, <1>9, <2>2, <2>3, Alone
  <2> QED
    BY <1>3, <1>9, <2>1, <2>2, <2>4 DEF Usable
<1>10. ASSUME pc = "again", Pile PROVE Ready # {}
  <2>1. PICK s, t \in Tidy : s # t
    BY <1>10 DEF Pile
  <2>2. Dead(s) = {} \/ Dead(t) = {}
    <3>1. ASSUME NEW a \in Dead(s), NEW b \in Dead(t) PROVE FALSE
      <4>1. a \in Stale /\ b \in Stale /\ a[1] = s /\ b[1] = t
        BY <1>10, <3>1 DEF Stale, Dead
      <4> QED
        BY <2>1, <4>1 DEF Shape
    <3> QED
      BY <3>1
  <2> QED
    BY <1>5, <1>10, <2>2
<1>11. ASSUME pc = "alloc", Spacious PROVE Ready # {}
  BY <1>5, <1>11 DEF Spacious
<1>12. ASSUME resets = MaxResets, pc \notin {"premark", "postmark"}, NEW s \in Tidy
       PROVE  Dead(s) = {}
  BY <1>12 DEF Early, Stale, Dead
<1>13. ASSUME resets = MaxResets, pc \in {"alloc", "again", "malloc", "gc", "gcsec", "format"}
       PROVE  Tidy \subseteq Ready
  BY <1>5, <1>12, <1>13
<1>14. ASSUME resets = MaxResets, pc = "prewrite", mv.dst \in Tidy
       PROVE  Len(node[mv.dst]) + 1 < Cap
  <2>1. PICK s : s = mv.dst
    OBVIOUS
  <2>2. Dead(s) = {} /\ s \in Sectors /\ Live(mv.key) = {} /\ mv.key \in Keys
    BY <1>2, <1>6, <1>12, <1>14, <2>1 DEF Early
  <2>3. Len(node[s]) + 1 < Cap
    BY <1>14, <2>2, Alone
  <2> QED
    BY <2>1, <2>3
<1> QED
  BY <1>8, <1>9, <1>10, <1>11, <1>13, <1>14 DEF Roomed

-----------------------------------------------------------------------------
(* A reset. *)

\* It leaves at most one dead slot in the tidy sectors, and either an empty
\* sector or a collection that will make one.
LEMMA ResetRoom ==
    ASSUME KeepInv, torn = {}, KeepInv', RoomInv, HasRoom, Reset, resets = MaxResets,
           pc = "prewrite" /\ mv.dst \in Tidy => Len(node[mv.dst]) + 1 < Cap
    PROVE  RoomInv'
<1>1. /\ pc # "down" /\ pc' = "down" /\ mv' = NoMove /\ recov' = FALSE /\ gcReq' = FALSE
      /\ gcFlag' = FALSE /\ gc' = NoGc /\ pos' = Start /\ UNCHANGED sec
      /\ node' = [s \in Sectors |-> [i \in DOMAIN node[s] |->
                     IF node[s][i].data = "none" THEN Junk ELSE node[s][i]]]
  BY DEF Reset, StoreReset
<1>2. /\ damaged' = damaged \cup Endangered /\ damaged = {} /\ ~recov
      /\ resets' \in 0 .. MaxResets /\ resets' # MaxResets
  BY SettingsAssumption DEF Reset, KeepInv, Clean
<1>3. /\ StoreInv /\ StoreInv' /\ Traces /\ FlashType /\ \A k \in Keys : KeyInv(k)
  BY <1>2 DEF KeepInv, Spoilt, CallersInv, StoreInv
<1>4. ASSUME NEW s \in Sectors PROVE Len(node'[s]) = Len(node[s])
  <2>1. node[s] \in Seq(Records) /\ node'[s] \in Seq(Records)
    BY <1>3 DEF StoreInv, FlashType
  <2>2. Len(node[s]) \in Nat /\ DOMAIN node[s] = 1 .. Len(node[s])
        /\ Len(node'[s]) \in Nat /\ DOMAIN node'[s] = 1 .. Len(node'[s])
    BY <2>1, LenProperties
  <2>3. DOMAIN node'[s] = 1 .. Len(node[s])
    BY <1>1, <2>2
  <2> QED
    BY <2>2, <2>3
<1>5. Used' = Used /\ \A b \in Used : At(b)' = IF At(b).data = "none" THEN Junk ELSE At(b)
  <2>1. Used' = Used
    BY <1>4 DEF Used, Addrs
  <2>2. \A b \in Used : At(b)' = IF At(b).data = "none" THEN Junk ELSE At(b)
    BY <1>1, <1>3, UsedIn DEF At
  <2> QED
    BY <2>1, <2>2
<1>6. /\ UNCHANGED <<Tidy, Flagged, Ready, Empties, Blank>>
      /\ UNCHANGED <<Two, Three, Pile, AllFlagged>>
  BY <1>1, <1>4, SectorsSame
<1>7. Tidy \subseteq Sectors /\ Flagged \subseteq Sectors /\ Empties \subseteq Blank
  BY DEF Tidy, Flagged, Empties, Blank
<1>8. \A a \in Used : At(a).st = "write" => At(a).data = "all"
  <2>1. \A a \in Used : At(a).st = "write" => At(a).key \in Keys
    BY <1>3, UsedIn DEF Records
  <2> QED
    BY <1>3, <2>1 DEF KeyInv, Whole
<1>9. \A a : a \in DeadSlots' => a \in DeadSlots \/ Unfinish(a)
  BY <1>1, <1>5, <1>8 DEF DeadSlots, Unfinish
<1>10. Stale = {} /\ ~Pile
  BY <1>2 DEF RoomInv, Early
<1>11. \A a \in Stale' : (pc \in {"premark", "postmark"} /\ a = mv.src) \/ Unfinish(a)
  BY <1>1, <1>6, <1>9, <1>10 DEF Stale
<1>12. \A a, b \in Stale' : a = b
  BY <1>11 DEF Unfinish
<1>13. ASSUME NEW k \in Keys, NEW a \in Copies(k)', NEW b \in Copies(k)', a # b PROVE pc = "del"
  <2>1. \A c \in Copies(k)' : c \in Live(k) \cup Old(k)
    BY <1>1, <1>5 DEF Copies, Unfinish, Live, Old, Junk
  <2>2. Rest(k) = {} /\ \A c, e \in Live(k) : c = e
    BY <1>1, <1>2, <1>3 DEF KeyInv, One
  <2>3. Live(k) # {} /\ mv.src \in Old(k)
    BY <1>13, <2>1, <2>2 DEF Rest
  <2>4. mv.key = k
    BY <1>3, <2>3, Other
  <2>5. pc \in Moving /\ At(mv.src).st = "predelete"
    <3>1. mv.src # None
      BY <2>3, StoreAssumption DEF Old, Used, Addrs, Sectors
    <3> QED
      BY <1>3, <2>3, <3>1, SrcIn DEF Old
  <2>6. pc # "predel"
    BY <1>3, <2>4, <2>5 DEF KeyInv, Replaced, Live
  <2>7. pc \notin {"postmark", "after"}
    <3>1. mv.src # None
      BY <2>3, StoreAssumption DEF Old, Used, Addrs, Sectors
    <3> QED
      BY <1>3, <2>5, <3>1 DEF Traces
  <2> QED
    BY <1>2, <1>3, <2>3, <2>4, <2>5, <2>6, <2>7 DEF KeyInv, Replaced, Moving
<1>14. (\A k \in Keys : (\E a, b \in Copies(k) : a # b) => Stale = {})'
  BY <1>11, <1>13 DEF Unfinish
<1>15. ASSUME NEW s \in Tidy PROVE Fits(s)'
  <2>1. Fits(s) /\ s \in Sectors /\ s # 0
    BY <1>7 DEF RoomInv, Shape, Sectors
  <2>2. CASE pc = "prewrite" /\ s = mv.dst
    <3>1. Len(node[s]) + 1 < Cap /\ Len(node[s]) \in Nat
      BY <1>3, <2>1, <2>2, SectorIs
    <3>2. sec[s].store = "using"
      BY <2>2, <3>1, CapPositive DEF RoomInv, Shape
    <3>3. s \in Ready
      BY <2>1, <3>1, <3>2, CapPositive DEF Ready, Tidy
    <3> QED
      BY <1>6, <3>3 DEF Fits
  <2> QED
    BY <1>4, <1>6, <2>1, <2>2 DEF Fits
<1>16. Shape'
  BY <1>1, <1>2, <1>6, <1>7, <1>12, <1>14, <1>15 DEF RoomInv, Shape
<1>17. Calls' /\ Collects' /\ Early'
  BY <1>1, <1>2 DEF Calls, Collects, Early, NoGc
<1>18. mv = NoMove => ~Left'
  <2>1. ASSUME NEW k \in damaged' PROVE mv.key = k /\ k \in Keys
    BY <1>2, <2>1, EndangeredIs DEF Endangered
  <2> QED
    BY <2>1, StoreAssumption DEF Left, NoMove
<1>19. pc \notin {"premark", "postmark", "head", "body", "write"} /\ Tidy # {} => Spacious'
  <2> SUFFICES ASSUME pc \notin {"premark", "postmark", "head", "body", "write"}, NEW s \in Tidy
               PROVE  Spacious'
    OBVIOUS
  <2>1. Stale' = {}
    BY <1>11 DEF Unfinish
  <2>2. Dead(s)' = {}
    BY <1>1, <1>6, <2>1 DEF Stale, Dead
  <2> QED
    BY <1>6, <2>2 DEF Spacious
<1> DEFINE Apart2 == \E x, y \in Blank : x # y
           Resumed == (\E s \in Sectors : sec[s].dirty = "gc") /\ (Blank # {} \/ Tidy # {})
           Begun == Blank # {} /\ (Flagged # {} => Apart2 \/ ((Ready' = {} \/ Spacious') /\ ~Left'))
<1>20. Begun \/ Resumed
  <2>1. Two => Apart2
    BY <1>7 DEF Two
  <2>2. CASE gc.ret = "none"
    <3>1. Empties # {}
      BY <1>1, <1>2, <2>2 DEF RoomInv, Calls
    <3>2. pc \in Waiting \cup Moving
      BY <1>1, <1>2, <1>3, <2>2
      DEF StoreInv, Control, RamType, HasRoom, Waiting, Collecting, Loading, Resting
    <3>3. Three => Two
      BY ThreeTwo
    <3>4. Flagged # {} => Two
      BY <1>2, <2>2, <3>2, <3>3 DEF RoomInv, Early
    <3> QED
      BY <1>7, <2>1, <3>1, <3>4
  <2>3. CASE gc.ret # "none" /\ pc \in {"gc", "gcflag", "gcsec"}
    <3>1. Empties # {} /\ mv = NoMove
      BY <1>2, <1>3, <2>3 DEF RoomInv, Early, StoreInv, Control, Moving, Writes
    <3>2. Flagged # {} => Two \/ Ready = {} \/ Tidy # {}
      BY <1>2, <1>3, <2>3 DEF RoomInv, Early, Collects, StoreInv, RamType
    <3> QED
      BY <1>6, <1>7, <1>18, <1>19, <2>1, <2>3, <3>1, <3>2
  <2>4. CASE gc.ret # "none" /\ pc \in Moving \cup {"gcnode", "erase"}
    <3>1. \E s \in Sectors : sec[s].dirty = "gc"
      BY <1>3, <2>4 DEF StoreInv, Collected
    <3>2. pc \in Handling
      BY <2>4 DEF Handling
    <3>3. Empties # {} \/ Tidy # {}
      BY <1>2, <2>4, <3>2 DEF RoomInv, Early, Two
    <3> QED
      BY <1>7, <3>1, <3>3
  <2>5. CASE pc = "format"
    <3>1. gc.ret # "none" /\ mv = NoMove /\ gc.at \in Sectors
      BY <1>3, <2>5 DEF StoreInv, Control, Collected, Collecting, Moving, Writes
    <3>2. gc.at \in Blank /\ gc.at \notin Empties
      BY <2>5, <3>1 DEF RoomInv, Shape, Blank, Empties
    <3>3. Empties # {} => Apart2
      BY <1>7, <3>2
    <3>4. Empties # {} \/ Tidy # {}
      BY <1>2, <2>5, <3>1 DEF RoomInv, Early, Two, Handling
    <3> QED
      BY <1>18, <1>19, <2>5, <3>1, <3>2, <3>3, <3>4
  <2> QED
    BY <1>1, <1>2, <1>3, <2>2, <2>3, <2>4, <2>5
    DEF StoreInv, Control, RamType, Collecting, Loading, Resting
<1>21. Starts'
  <2> HIDE DEF Apart2
  <2>1. (\E x, y \in Blank : x # y)' <=> Apart2
    BY <1>6 DEF Apart2
  <2> QED
    BY <1>1, <1>6, <1>20, <2>1 DEF Starts
<1> QED
  BY <1>16, <1>17, <1>21 DEF RoomInv

-----------------------------------------------------------------------------
(* All steps. *)

\* The erased partition: all sectors are empty.
LEMMA RoomInit ==
    ASSUME Init, NSec >= 3
    PROVE  RoomInv
<1>1. /\ sec = [s \in Sectors |-> Fresh] /\ node = [s \in Sectors |-> <<>>] /\ pc = "idle"
      /\ ~gcReq /\ ~gcFlag /\ ~recov /\ mv = NoMove /\ gc = NoGc /\ resets = MaxResets
      /\ damaged = {}
  BY DEF Init, StoreInit
<1>2. \A s \in Sectors : sec[s] = Fresh /\ node[s] = <<>>
  BY <1>1
<1>3. Tidy = {} /\ Flagged = {} /\ Ready = {} /\ Empties = Sectors
  BY <1>2 DEF Tidy, Flagged, Ready, Empties, Fresh
<1>4. Two
  BY <1>3, CapPositive DEF Two, Sectors
<1>5. Stale = {} /\ ~Pile
  BY <1>3 DEF Stale, Pile
<1>6. Shape
  BY <1>1, <1>2, <1>3, <1>5, SettingsAssumption DEF Shape, Fresh
<1>7. Calls /\ Collects
  BY <1>1, <1>3, <1>4 DEF Calls, Collects, Moving, Writes, Opening, NoGc, Two
<1>8. Starts /\ Early
  BY <1>1, <1>3, <1>4, <1>5 DEF Starts, Early, Moving, Writes, Opening, NoGc
<1> QED
  BY <1>6, <1>7, <1>8 DEF RoomInv

\* Nothing moves unless the store does.
LEMMA RoomStutter ==
    ASSUME RoomInv, UNCHANGED <<storeVars, damaged, resets>>
    PROVE  RoomInv'
<1>1. UNCHANGED <<sec, node, gcReq, gcFlag, recov, pc, mv, gc, pos>>
  BY DEF storeVars, flash, ram
<1>2. /\ UNCHANGED <<Tidy, Flagged, Ready, Empties, Blank>>
      /\ UNCHANGED <<Two, Three, Pile, AllFlagged>>
  BY <1>1, SectorsSame
<1>3. UNCHANGED <<Used, Dst>> /\ \A a : At(a)' = At(a)
  BY <1>1 DEF Used, At, Dst
<1>4. \A a : Unfinish(a)' = Unfinish(a)
  BY <1>1, <1>3 DEF Unfinish
<1>5. UNCHANGED DeadSlots
  BY <1>3, <1>4 DEF DeadSlots
<1>6. UNCHANGED Stale /\ \A s : Dead(s)' = Dead(s)
  BY <1>1, <1>2, <1>5 DEF Stale, Dead
<1>7. UNCHANGED Spacious
  BY <1>2, <1>6 DEF Spacious
<1>8. \A s : Fits(s)' = Fits(s)
  BY <1>1, <1>2 DEF Fits
<1>9. \A s : Usable(s)' = Usable(s)
  BY <1>1, <1>8 DEF Usable
<1>10. \A k : Copies(k)' = Copies(k) /\ Old(k)' = Old(k) /\ Rest(k)' = Rest(k)
  BY <1>1, <1>3, <1>4 DEF Copies, Old, Rest
<1>11. UNCHANGED <<Hurt, Left>>
  BY <1>1, <1>10 DEF Hurt, Left
<1>12. UNCHANGED <<AmpleFor, Ample, Good>>
  BY <1>1, <1>2, <1>6, <1>7, <1>9, <1>11 DEF AmpleFor, Ample, Good
<1>13. UNCHANGED Calm
  BY <1>2, <1>7, <1>11 DEF Calm
<1>14. Shape'
  BY <1>1, <1>2, <1>6, <1>8, <1>10 DEF RoomInv, Shape
<1>15. Calls'
  BY <1>1, <1>2, <1>7, <1>11, <1>12 DEF RoomInv, Calls
<1>16. Collects'
  BY <1>1, <1>2, <1>7, <1>11, <1>12 DEF RoomInv, Collects
<1>17. Starts'
  BY <1>1, <1>2, <1>5, <1>7, <1>11, <1>13 DEF RoomInv, Starts
<1>18. Early'
  BY <1>1, <1>2, <1>6 DEF RoomInv, Early
<1> QED
  BY <1>14, <1>15, <1>16, <1>17, <1>18 DEF RoomInv

\* A step of the store.
LEMMA StoreStepRoom ==
    ASSUME NSec >= 3, Whence, Whither, RoomInv, UNCHANGED resets, StoreStep
    PROVE  RoomInv'
<1>1. CASE SetAlloc \/ PreDelete \/ DirtyMark \/ SectorStatus \/ PreWrite
  BY <1>1, SetAllocRoom, PreDeleteRoom, DirtyMarkRoom, SectorStatusRoom, PreWriteRoom
<1>2. CASE WriteHead \/ WriteBody \/ WriteStatus \/ Delete \/ After
  BY <1>2, DstRoom, DeleteRoom, AfterRoom
<1>3. CASE GcStart \/ GcFlagNext \/ GcSector \/ GcNode
  BY <1>3, GcStartRoom, GcFlagNextRoom, GcSectorRoom, GcNodeRoom
<1>4. CASE MoveAlloc \/ EraseSector \/ FormatSector
  BY <1>4, MoveAllocRoom, EraseSectorRoom, FormatSectorRoom
<1>5. CASE LoadHeaders \/ LoadGc \/ LoadScan \/ LoadEnd
  BY <1>5, LoadHeadersRoom, LoadGcRoom, LoadScanRoom, LoadEndRoom
<1> QED
  BY <1>1, <1>2, <1>3, <1>4, <1>5 DEF StoreStep

\* There is room for the record at hand ...
LEMMA RoomIs ==
    ASSUME StoreInv, RoomInv, Roomed, pc = "malloc"
    PROVE  Alloc # 0 \/ (gc.ret = "none" /\ Empties # {})
<1>1. /\ Roomy # {} => Alloc # 0
      /\ Empties # {} /\ (gcReq \/ Two) => Alloc # 0
  BY AllocIs DEF StoreInv
<1>2. CASE gc.ret = "none"
  <2>1. recov
    BY <1>2 DEF StoreInv, AtHand, Setting, Moving
  <2> QED
    BY <1>2, <2>1 DEF RoomInv, Starts
<1>3. CASE gc.ret # "none"
  <2>1. /\ recov \/ ~gcFlag => gcReq
        /\ gc.pair => ~gcFlag /\ (Empties # {} \/ Good)
        /\ ~gc.pair /\ ~gcFlag => Two \/ (Empties # {} /\ Good)
        /\ gcFlag /\ gcReq => Empties # {} \/ Spacious
        /\ gcFlag /\ ~gcReq => Two \/ (Empties # {} /\ Ample)
    BY <1>3 DEF RoomInv, Collects, Handling, Moving
  <2>2. Two => Empties # {}
    BY DEF Two
  <2>3. (IF gcReq THEN Good ELSE Ample) => Roomy # {}
    BY <1>3 DEF Roomed
  <2>4. Spacious => Good
    BY DEF Good
  <2>5. gcReq \in BOOLEAN /\ gcFlag \in BOOLEAN /\ gc.pair \in BOOLEAN
    BY DEF StoreInv, RamType, Collections
  <2> QED
    BY <1>1, <2>1, <2>2, <2>3, <2>4, <2>5
<1> QED
  BY <1>2, <1>3

\* ... and for that of a set.
LEMMA NeverFull ==
    ASSUME StoreInv, RoomInv, Roomed, StoreStep, pc # "full"
    PROVE  pc' # "full"
<1>1. CASE SetAlloc
  <2>1. pc \in {"alloc", "again"} /\ gc.ret = "none" /\ ~recov
    BY <1>1 DEF SetAlloc, StoreInv, Control, Resting
  <2>2. /\ Roomy # {} => Alloc # 0
        /\ Empties # {} /\ (gcReq \/ Two) => Alloc # 0
        /\ Roomy = IF gcReq THEN Ready \cap Tidy ELSE Ready
    BY AllocIs DEF StoreInv
  <2>3. Empties # {} /\ ~gcReq /\ (pc = "again" => Two \/ Ready # {})
    BY <2>1 DEF RoomInv, Calls, Roomed
  <2>4. pc = "again" => Alloc # 0
    BY <2>2, <2>3
  <2>5. pc = "alloc" /\ Alloc = 0 => gcReq'
    BY <1>1, <2>3 DEF SetAlloc, AllocAsksGc
  <2> QED
    BY <1>1, <2>1, <2>4, <2>5 DEF SetAlloc, CallGc
<1>2. CASE ~SetAlloc
  <2>1. GcReturn /\ pc \in Collecting => pc' # "full"
    BY DEF GcReturn, StoreInv, Control, RamType, Collections
  <2> QED
    BY <1>2, <2>1 DEF StoreStep, PreDelete, DirtyMark, SectorStatus, PreWrite,
      WriteHead, WriteBody, WriteStatus, Delete, After, GcStart, GcFlagNext, GcSector, GcNode,
      MoveAlloc, EraseSector, FormatSector, LoadHeaders, LoadGc, LoadScan, LoadEnd, CallGc,
      Unlock, Collecting
<1> QED
  BY <1>1, <1>2

-----------------------------------------------------------------------------
(* The key that a reset damaged: it has at most two records, in the recovery *)
(* one; the other keys have none left that was to be deleted.                *)

\* Its records.
Copied(k) ==
    /\ Whole(k)
    /\ \A a, b, c \in Copies(k) : a = b \/ a = c \/ b = c
    /\ recov \/ pc = "down" => \A a, b \in Copies(k) : a = b
    /\ \A a, b \in Rest(k) : a = b

\* What the cache knows of it.
Recalled(k) ==
    \/ cache[k] \in {None} \cup Live(k)
    \/ mv.key = k /\ pc \in Making /\ cache[k] = mv.src /\ (gc.ret # "none" \/ ~recov)
    \/ mv.key = k /\ pc = "write" /\ cache[k] = Dst

\* While it is the key at hand.
Handed(k) == mv.key = k =>
    /\ pc = "predel" => mv.src \in Live(k)
    /\ pc \in {"premark", "malloc", "del"} \cup Writes /\ mv.src # None => mv.src \in Old(k)
    /\ pc \in {"secst", "prewrite"} /\ mv.src = None => Live(k) = {}

\* What a collection has passed holds nothing of it.
Swept(k) ==
    /\ gc.ret # "none" /\ pc \in Moving \cup {"gcnode"} =>
           \A a \in Live(k) \cup Old(k) : a[1] = gc.at => a[2] > gc.slot \/ a = mv.src
    /\ pc = "erase" => \A a \in Live(k) \cup Old(k) : a[1] # gc.at

Scar(k) == Copied(k) /\ Recalled(k) /\ Handed(k) /\ Swept(k)

\* Of any other key.
Sole(k) == recov \/ pc = "down" => Rest(k) = {} /\ (gc.ret = "none" => Old(k) = {})

\* Before the reset no unfinished record lies about.
Drafts == resets = MaxResets =>
    /\ damaged = {}
    /\ \A a \in Used : At(a).st = "prewrite" => Unfinish(a)

Scars ==
    /\ \A j, k \in damaged : j = k
    /\ \A k \in damaged : Scar(k)
    /\ damaged # {} => \A k \in Keys \ damaged : Sole(k)
    /\ Drafts

\* What a step does to the records of a key.
Effect(k) ==
    /\ Whole(k) => Whole(k)'
    /\ Live(k)' \subseteq Live(k) \cup (IF pc = "write" /\ mv.key = k THEN {Dst} ELSE {})
    /\ Live(k) \subseteq Live(k)' \cup (IF pc = "predel" THEN {mv.src} ELSE {})
    /\ Old(k)' \subseteq Old(k) \cup (IF pc = "predel" THEN {mv.src} ELSE {})
    /\ Old(k) \subseteq Old(k)' \cup (IF pc = "del" THEN {mv.src} ELSE {})
    /\ pc = "predel" /\ mv.key = k => mv.src \in Old(k)'
    /\ pc = "write" /\ mv.key = k => Dst \in Live(k)'
    /\ pc = "del" => mv.src \notin Old(k)'
    /\ pc = "prewrite" => mv.src \notin Copies(k)'
    /\ \A a \in Copies(k)' : \/ a \in Copies(k)
                             \/ pc = "prewrite" /\ mv.key = k /\ Unfinish(a)'

\* To unfinished ones.
Drafting == \A a \in Used' : At(a)'.st = "prewrite" =>
    Unfinish(a)' \/ (a \in Used /\ At(a).st = "prewrite" /\ ~Unfinish(a))

\* Steps that write no record.
LEMMA SameEffect ==
    ASSUME UNCHANGED node, pc \notin {"predel", "prewrite", "head", "body", "write", "del"},
           pc' \notin {"head", "body", "write"}, NEW k
    PROVE  Effect(k) /\ Drafting
<1>1. /\ Live(k)' = Live(k) /\ Old(k)' = Old(k) /\ Used' = Used
      /\ Whole(k) => Whole(k)'
      /\ \A b : At(b)' = At(b)
  BY SameRecords
<1>2. \A b : ~Unfinish(b) /\ ~Unfinish(b)'
  BY DEF Unfinish
<1>3. \A a \in Copies(k)' : a \in Copies(k)
  BY <1>1, <1>2 DEF Copies
<1> QED
  BY <1>1, <1>2, <1>3 DEF Effect, Drafting

\* del_env(.., false)
LEMMA PreDeleteScar ==
    ASSUME StoreInv, Sourced, PreDelete, NEW k
    PROVE  Effect(k) /\ Drafting
<1>1. PICK a : a = mv.src
  OBVIOUS
<1>2. /\ a \in Used /\ At(a).key = mv.key
      /\ At(a)'.key = mv.key /\ At(a)'.st = "predelete" /\ At(a)'.data = At(a).data
      /\ Used' = Used /\ \A b \in Used : b # a => At(b)' = At(b)
  BY <1>1, PreDeleteEffect
<1>3. pc = "predel" /\ pc' \in {"premark", "secst", "malloc"} /\ UNCHANGED mv
  BY DEF PreDelete
<1>4. At(a).st = "write" /\ At(a).data = "all"
  <2>1. mv.src # None
    BY <1>3 DEF StoreInv, AtHand
  <2> QED
    BY <1>1, <1>3, <2>1 DEF Sourced
<1>5. \A b : ~Unfinish(b) /\ ~Unfinish(b)'
  BY <1>3 DEF Unfinish
<1>6. Drafting
  BY <1>2, <1>5 DEF Drafting
<1>7. Whole(k) => Whole(k)'
  BY <1>2, <1>4 DEF Whole
<1>8. Live(k)' \subseteq Live(k) /\ Live(k) \subseteq Live(k)' \cup {a}
  BY <1>2 DEF Live
<1>9. Old(k)' \subseteq Old(k) \cup {a} /\ Old(k) \subseteq Old(k)' /\ (mv.key = k => a \in Old(k)')
  BY <1>2, <1>4 DEF Old
<1>10. \A b \in Copies(k)' : b \in Copies(k)
  BY <1>2, <1>3, <1>4, <1>5 DEF Copies
<1> QED
  BY <1>1, <1>3, <1>6, <1>7, <1>8, <1>9, <1>10 DEF Effect

\* A new record.
LEMMA PreWriteScar ==
    ASSUME StoreInv, PreWrite, NEW k
    PROVE  Effect(k) /\ Drafting
<1>1. /\ pc = "prewrite" /\ pc' = "head" /\ UNCHANGED <<sec, ram, req, mv, gc, pos>>
  BY DEF PreWrite
<1>2. PICK r, s, d : /\ r = [st |-> "prewrite", key |-> mv.key, val |-> mv.val, data |-> "none"]
                     /\ s = mv.dst /\ d = <<s, Len(node[s]) + 1>>
  OBVIOUS
<1>3. s \in Sectors /\ Len(node[s]) < Cap /\ r \in Records
  BY <1>1, <1>2 DEF StoreInv, Target, Control, RamType, Moving, Writes, Records, Statuses
<1>4. node' = [node EXCEPT ![s] = Append(@, r)] /\ FlashType /\ d = <<s, Len(node[s]) + 1>>
  BY <1>2 DEF PreWrite, StoreInv
<1>5. /\ d \notin Used /\ Used' = Used \cup {d} /\ At(d)' = r
      /\ \A b \in Used : At(b)' = At(b)
      /\ Len(node'[s]) = Len(node[s]) + 1
  BY <1>3, <1>4, AppendEffect
<1>6. Unfinish(d)' /\ \A b : Unfinish(b)' => b = d
  BY <1>1, <1>2, <1>5 DEF Unfinish, Dst
<1>7. \A b : ~Unfinish(b)
  BY <1>1 DEF Unfinish
<1>8. /\ Live(k)' = Live(k) /\ Old(k)' = Old(k) /\ (Whole(k) => Whole(k)')
  BY <1>2, <1>5 DEF Live, Old, Whole
<1>9. ASSUME NEW b \in Copies(k)'
      PROVE  b \in Copies(k) \/ (mv.key = k /\ Unfinish(b)')
  <2>1. CASE b = d
    BY <1>2, <1>5, <1>6, <1>9, <2>1 DEF Copies
  <2>2. CASE b # d
    BY <1>1, <1>5, <1>6, <1>7, <1>9, <2>2 DEF Copies
  <2> QED
    BY <2>1, <2>2
<1>10. Drafting
  BY <1>5, <1>6, <1>7 DEF Drafting
<1>11. mv.src \notin Copies(k)'
  <2>1. mv.src # d /\ None \notin Used'
    BY <1>5, SrcIn, StoreAssumption DEF Used, Addrs, Sectors
  <2>2. ~Unfinish(mv.src)'
    BY <1>1, <1>6, <2>1
  <2> QED
    BY <1>1, <2>2 DEF Copies
<1> QED
  BY <1>1, <1>8, <1>9, <1>10, <1>11 DEF Effect

\* A write to it.
LEMMA DstScar ==
    ASSUME StoreInv, mv.crc, WriteHead \/ WriteBody \/ WriteStatus, NEW k
    PROVE  Effect(k) /\ Drafting
<1>1. /\ pc \in {"head", "body", "write"} /\ UNCHANGED <<sec, mv>>
      /\ pc' = CASE pc = "head" -> "body" [] pc = "body" -> "write"
                 [] pc = "write" -> (IF mv.src = None THEN "after" ELSE "del")
  BY DEF WriteHead, WriteBody, WriteStatus
<1>2. PICK d, r : /\ d = Dst
                  /\ r = [st |-> IF pc = "write" THEN "write" ELSE "prewrite",
                          key |-> mv.key, val |-> mv.val,
                          data |-> IF pc = "head" THEN "part" ELSE "all"]
  OBVIOUS
<1>3. /\ d \in Used /\ d # mv.src /\ At(d).st = "prewrite" /\ At(d).key = mv.key
      /\ Used' = Used /\ Dst' = d /\ At(d)' = r
      /\ \A b \in Used : b # d => At(b)' = At(b)
  BY <1>1, <1>2, DstEffect DEF WriteHead, WriteBody, WriteStatus, Status, Content
<1>4. Unfinish(d) /\ \A b : Unfinish(b) => b = d
  BY <1>1, <1>2 DEF Unfinish
<1>5. /\ \A b : Unfinish(b)' => b = d
      /\ pc # "write" => Unfinish(d)'
      /\ pc = "write" => ~Unfinish(d)'
  BY <1>1, <1>3 DEF Unfinish
<1>6. Whole(k) => Whole(k)'
  BY <1>1, <1>2, <1>3 DEF Whole
<1>7. Live(k) \subseteq Live(k)' /\ Old(k)' = Old(k)
  BY <1>2, <1>3 DEF Live, Old
<1>8. Live(k)' \subseteq Live(k) \cup (IF pc = "write" /\ mv.key = k THEN {d} ELSE {})
  BY <1>2, <1>3 DEF Live
<1>9. pc = "write" /\ mv.key = k => d \in Live(k)'
  BY <1>2, <1>3 DEF Live
<1>10. ASSUME NEW b \in Copies(k)' PROVE b \in Copies(k)
  <2>1. CASE b = d
    BY <1>2, <1>3, <1>4, <1>10, <2>1 DEF Copies
  <2>2. CASE b # d
    <3>1. b # None
      BY <1>10, StoreAssumption DEF Copies, Used, Addrs, Sectors
    <3>2. b \in Used /\ At(b)' = At(b)
      BY <1>3, <1>10, <2>2 DEF Copies
    <3>3. ~(b = mv.src /\ pc' \in {"head", "body", "write", "del"}) /\ At(b).key = k
          /\ At(b).st \in {"write", "predelete"} /\ At(b).data = "all"
      BY <1>5, <1>1, <1>10, <2>2, <3>2 DEF Copies
    <3>4. b # mv.src
      BY <1>1, <3>1, <3>3
    <3> QED
      BY <3>2, <3>3, <3>4 DEF Copies
  <2> QED
    BY <2>1, <2>2
<1>11. Drafting
  BY <1>2, <1>3, <1>4, <1>5 DEF Drafting
<1> QED
  BY <1>1, <1>2, <1>6, <1>7, <1>8, <1>9, <1>10, <1>11 DEF Effect

\* The record that was replaced goes.
LEMMA DeleteScar ==
    ASSUME StoreInv, Sourced, Delete, NEW k
    PROVE  Effect(k) /\ Drafting
<1>1. PICK a : a = mv.src
  OBVIOUS
<1>2. /\ a \in Used /\ At(a)'.st = "deleted"
      /\ Used' = Used /\ \A b \in Used : b # a => At(b)' = At(b)
  BY <1>1, DeleteEffect
<1>3. pc = "del" /\ pc' \in {"postmark", "after"} /\ UNCHANGED mv
  BY DEF Delete
<1>4. At(a).st = "predelete"
  <2>1. mv.src # None
    BY <1>3 DEF StoreInv, AtHand
  <2> QED
    BY <1>1, <1>3, <2>1 DEF Sourced
<1>5. \A b : ~Unfinish(b) /\ ~Unfinish(b)'
  BY <1>3 DEF Unfinish
<1>6. Drafting
  BY <1>2, <1>5 DEF Drafting
<1>7. Whole(k) => Whole(k)'
  BY <1>2 DEF Whole
<1>8. Live(k)' = Live(k)
  BY <1>2, <1>4 DEF Live
<1>9. Old(k)' = Old(k) \ {a}
  BY <1>2 DEF Old
<1>10. \A b \in Copies(k)' : b \in Copies(k)
  BY <1>1, <1>2, <1>3, <1>5 DEF Copies
<1> QED
  BY <1>1, <1>3, <1>6, <1>7, <1>8, <1>9, <1>10 DEF Effect

\* An unfinished record becomes an error.
LEMMA LoadScanScar ==
    ASSUME StoreInv, LoadScan, NEW k
    PROVE  Effect(k) /\ Drafting
<1> DEFINE todo == {a \in Visited : Before(pos, a) /\ Unfinished(At(a))}
<1>1. pc = "rscan" /\ pc' \in {"rstop", "malloc"}
  BY DEF LoadScan
<1>2. CASE UNCHANGED node
  BY <1>1, <1>2, SameEffect
<1>3. CASE todo # {} /\ ~UNCHANGED node
  <2>1. PICK a : a = First(todo)
    OBVIOUS
  <2>2. Write(a, Junk) /\ At(a).st = "prewrite"
    BY <1>3, <2>1 DEF LoadScan
  <2>3. todo \subseteq Used
    BY VisitedIs DEF StoreInv
  <2>4. a \in Used
    BY <1>3, <2>1, <2>3, FirstIn DEF Used
  <2>5. Junk \in Records /\ Junk.st = "deleted"
    BY DEF Junk, Records, Statuses
  <2>6. Used' = Used /\ At(a)' = Junk /\ \A b \in Used : b # a => At(b)' = At(b)
    BY <2>2, <2>4, <2>5, WriteEffect DEF StoreInv
  <2>7. \A b : ~Unfinish(b) /\ ~Unfinish(b)'
    BY <1>1 DEF Unfinish
  <2>8. Live(k)' = Live(k) /\ Old(k)' = Old(k) /\ (Whole(k) => Whole(k)')
    BY <2>2, <2>5, <2>6 DEF Live, Old, Whole
  <2>9. \A b \in Copies(k)' : b \in Copies(k)
    BY <1>1, <2>5, <2>6, <2>7 DEF Copies
  <2>10. Drafting
    BY <2>5, <2>6, <2>7 DEF Drafting
  <2> QED
    BY <1>1, <2>8, <2>9, <2>10 DEF Effect
<1> QED
  BY <1>2, <1>3 DEF LoadScan

\* format_sector
LEMMA EraseScar ==
    ASSUME StoreInv, EraseSector, NEW k, \A a \in Live(k) \cup Old(k) : a[1] # gc.at
    PROVE  Effect(k) /\ Drafting
<1>1. /\ pc = "erase" /\ pc' = "format" /\ UNCHANGED <<ram, req, mv, gc, pos>>
      /\ node' = [node EXCEPT ![gc.at] = <<>>]
  BY DEF EraseSector
<1>2. gc.at \in Sectors /\ gc.ret # "none"
  BY <1>1 DEF StoreInv, Collected, Control, Collecting
<1>3. \A s \in Sectors : node'[s] = IF s = gc.at THEN <<>> ELSE node[s]
  BY <1>1, <1>2 DEF StoreInv, FlashType
<1>4. \A b : (b \in Used)' <=> b \in Used /\ b[1] # gc.at
  <2>1. Len(<<>>) = 0
    BY EmptySeq
  <2>2. \A b \in Addrs : b[1] \in Sectors /\ b[2] \in Nat /\ b[2] >= 1
    BY CapPositive DEF Addrs, Sectors
  <2> QED
    BY <1>3, <2>1, <2>2 DEF Used
<1>5. \A b \in Used : b[1] # gc.at => At(b)' = At(b)
  BY <1>3 DEF Used, Addrs, At
<1>6. \A b : ~Unfinish(b) /\ ~Unfinish(b)'
  BY <1>1 DEF Unfinish
<1>7. Live(k)' = Live(k) /\ Old(k)' = Old(k)
  <2>1. \A b : (b \in Live(k))' <=> b \in Live(k)
    BY <1>4, <1>5 DEF Live
  <2>2. \A b : (b \in Old(k))' <=> b \in Old(k)
    BY <1>4, <1>5 DEF Old
  <2> QED
    BY <2>1, <2>2
<1>8. Whole(k) => Whole(k)'
  BY <1>4, <1>5 DEF Whole
<1>9. \A b \in Copies(k)' : b \in Copies(k)
  BY <1>1, <1>4, <1>5, <1>6 DEF Copies
<1>10. Drafting
  BY <1>4, <1>5, <1>6 DEF Drafting
<1> QED
  BY <1>1, <1>7, <1>8, <1>9, <1>10 DEF Effect

\* Every step.
LEMMA StepEffect ==
    ASSUME StoreInv, mv.crc, Sourced, StoreStep, NEW k,
           pc = "erase" => \A a \in Live(k) \cup Old(k) : a[1] # gc.at
    PROVE  Effect(k) /\ Drafting
<1>1. CASE PreDelete \/ PreWrite \/ WriteHead \/ WriteBody \/ WriteStatus \/ Delete
  BY <1>1, PreDeleteScar, PreWriteScar, DstScar, DeleteScar
<1>2. CASE LoadScan \/ EraseSector
  <2>1. EraseSector => pc = "erase"
    BY DEF EraseSector
  <2> QED
    BY <1>2, <2>1, LoadScanScar, EraseScar
<1>3. CASE SetAlloc \/ DirtyMark \/ SectorStatus \/ After \/ MoveAlloc
  BY <1>3, SameEffect DEF SetAlloc, DirtyMark, SectorStatus, After, MoveAlloc, CallGc, Unlock, flash
<1>4. CASE GcStart \/ GcFlagNext \/ GcSector \/ GcNode \/ FormatSector
  <2>1. GcReturn /\ pc \in Collecting => pc' \notin {"head", "body", "write"}
    BY DEF GcReturn, StoreInv, Control, RamType, Collections
  <2>2. /\ UNCHANGED node /\ pc \notin {"predel", "prewrite", "head", "body", "write", "del"}
        /\ pc' \notin {"head", "body", "write"}
    BY <1>4, <2>1 DEF GcStart, GcFlagNext, GcSector, GcNode, FormatSector, flash, Collecting
  <2> QED
    BY <2>2, SameEffect
<1>5. CASE LoadHeaders \/ LoadGc \/ LoadEnd
  BY <1>5, SameEffect DEF LoadHeaders, LoadGc, LoadEnd, CallGc, flash
<1> QED
  BY <1>1, <1>2, <1>3, <1>4, <1>5 DEF StoreStep

\* How a step moves the control.
LEMMA StepMoves ==
    ASSUME StoreInv, StoreStep
    PROVE  /\ recov' \/ pc' = "down" => recov \/ pc = "down"
           /\ pc' # "down"
           /\ \/ mv'.src = mv.src \/ mv.src = None \/ pc = "after"
              \/ pc = "malloc" /\ Alloc = 0
           /\ pc = "malloc" /\ Alloc = 0 => pc' # "secst" /\ (gc.ret = "none" => pc' = "rstop")
           /\ gc'.ret = "none" => gc.ret = "none" \/ mv.src = None
           /\ pc \in Writes => mv' = mv /\ (pc' \in Writes \cup {"del"} \/ mv.src = None)
           /\ recov /\ ~recov' => pc = "rstop" /\ mv'.src = None /\ pc' = "idle"
           /\ pc = "down" => pc' = "rgc" /\ mv' = mv
<1>1. pc \notin Moving => mv.src = None
  BY DEF StoreInv, Control, NoMove
<1>2. /\ pc \in Collecting => gc.ret \in {"again", "idle", "rgc", "rscan"}
      /\ pc \in Loading => recov
  BY DEF StoreInv, Control, RamType, Collections
<1>3. CASE SetAlloc
  BY <1>1, <1>3 DEF SetAlloc, CallGc, NoGc, Moving, Writes
<1>4. CASE PreDelete \/ DirtyMark \/ SectorStatus \/ PreWrite
  BY <1>4 DEF PreDelete, DirtyMark, SectorStatus, PreWrite, ram, Writes
<1>5. CASE WriteHead \/ WriteBody \/ WriteStatus \/ Delete
  BY <1>5 DEF WriteHead, WriteBody, WriteStatus, Delete, ram, Writes
<1>6. CASE After
  <2>1. pc = "after" /\ pc' \in {"gc", "idle", "rscan", "gcnode"} /\ UNCHANGED recov
    BY <1>6 DEF After, CallGc, Unlock
  <2>2. gc'.ret = "none" => gc.ret = "none"
    BY <1>6 DEF After, CallGc, NoGc, Setting
  <2> QED
    BY <2>1, <2>2 DEF Writes
<1>7. CASE GcStart \/ GcSector \/ FormatSector
  <2>1. pc \in {"gc", "gcsec", "format"} /\ UNCHANGED recov
    BY <1>7 DEF GcStart, GcSector, FormatSector
  <2>2. pc' \in {"gcsec", "gcflag", "gcnode"} \/ pc' = gc.ret
    BY <1>7 DEF GcStart, GcSector, FormatSector, GcReturn
  <2> QED
    BY <1>1, <1>2, <2>1, <2>2 DEF Collecting, Moving, Writes
<1>8. CASE GcFlagNext \/ EraseSector
  BY <1>8 DEF GcFlagNext, EraseSector, ram, Writes
<1>9. CASE GcNode
  <2>1. pc = "gcnode" /\ pc' \in {"predel", "malloc", "erase"} /\ UNCHANGED recov
    BY <1>9 DEF GcNode, ram
  <2> QED
    BY <1>1, <2>1 DEF Moving, Writes
<1>10. CASE MoveAlloc
  <2>1. pc = "malloc" /\ UNCHANGED <<recov, gc>> /\ pc' # "down"
    BY <1>10 DEF MoveAlloc
  <2>2. Alloc # 0 => mv'.src = mv.src
    BY <1>10 DEF MoveAlloc, StoreInv, RamType
  <2>3. Alloc = 0 => pc' = IF gc.ret = "none" THEN "rstop" ELSE "gcnode"
    BY <1>10 DEF MoveAlloc
  <2> QED
    BY <2>1, <2>2, <2>3 DEF Writes
<1>11. CASE LoadHeaders \/ LoadGc
  <2>1. pc \in {"down", "rgc"} /\ (pc = "down" => recov' /\ pc' = "rgc" /\ mv' = mv)
        /\ (pc = "rgc" => UNCHANGED recov /\ pc' \in {"gc", "rscan"})
    BY <1>11 DEF LoadHeaders, LoadGc, CallGc
  <2>2. gc.ret = "none"
    BY <2>1 DEF StoreInv, Control, Loading, Resting
  <2>3. pc = "down" => ~recov
    BY DEF StoreInv, Control, Resting
  <2> QED
    BY <1>1, <1>2, <2>1, <2>2, <2>3 DEF Moving, Writes, Loading
<1>12. CASE LoadScan \/ LoadEnd
  <2>1. pc \in {"rscan", "rstop"}
    BY <1>12 DEF LoadScan, LoadEnd
  <2>2. gc.ret = "none" /\ recov /\ mv.src = None
    BY <1>1, <2>1 DEF StoreInv, Control, Loading, Moving, Writes
  <2>3. LoadScan => pc' \in {"malloc", "rstop"} /\ UNCHANGED recov
    BY DEF LoadScan, ram
  <2>4. LoadEnd => /\ pc = "rstop"
                    /\ ((pc' = "gc" /\ recov' = recov) \/ (pc' = "idle" /\ mv' = mv))
    BY DEF LoadEnd, CallGc
  <2> QED
    BY <1>12, <2>1, <2>2, <2>3, <2>4 DEF Writes
<1> QED
  BY <1>3, <1>4, <1>5, <1>6, <1>7, <1>8, <1>9, <1>10, <1>11, <1>12 DEF StoreStep

\* A key is hurt, or has a record left, as long as it is damaged so.
Marred(k) == Rest(k) # {} \/ \E a, b \in Copies(k) : a # b
Lost(k) == \E a \in Old(k) : ~(a = mv.src /\ pc \in Writes \cup {"del"})

\* None is the address of no record.
LEMMA NoneApart == \A k : None \notin Live(k) \cup Old(k) \cup Rest(k) \cup Copies(k)
BY StoreAssumption DEF Live, Old, Rest, Copies, Used, Addrs, Sectors

\* Only a record that a move cannot place is left behind.
LEMMA RestStep ==
    ASSUME StoreInv, Traces, StoreStep, NEW k, Effect(k)
    PROVE  Rest(k)' \subseteq Rest(k) \cup (IF pc = "malloc" /\ Alloc = 0 THEN {mv.src} ELSE {})
<1>1. /\ \/ mv'.src = mv.src \/ mv.src = None \/ pc = "after"
         \/ pc = "malloc" /\ Alloc = 0
  BY StepMoves
<1>2. Old(k)' \subseteq Old(k) \cup (IF pc = "predel" THEN {mv.src} ELSE {})
  BY DEF Effect
<1>3. pc = "after" => mv.src \notin Old(k)
  BY NoneApart DEF Traces, Old
<1>4. pc = "predel" => mv.src # None
  BY DEF StoreInv, AtHand
<1> QED
  BY <1>1, <1>2, <1>3, <1>4, NoneApart DEF Rest

\* A step adds no record but a copy of the one that counts.
LEMMA CopiedStep ==
    ASSUME StoreInv, Traces, StoreStep, HasRoom, NEW k \in Keys, Effect(k), Copied(k), Handed(k)
    PROVE  /\ Copied(k)'
           /\ ~recov => (Marred(k)' => Marred(k))
           /\ recov /\ ~recov' => (Marred(k)' => Lost(k))
           /\ (recov /\ gc.ret = "none") \/ pc = "down" => (Lost(k)' => Lost(k))
<1>1. /\ recov' \/ pc' = "down" => recov \/ pc = "down"
      /\ pc' # "down"
      /\ pc \in Writes => mv' = mv /\ (pc' \in Writes \cup {"del"} \/ mv.src = None)
      /\ recov /\ ~recov' => pc = "rstop" /\ mv'.src = None /\ pc' = "idle"
  BY StepMoves
<1>2. Rest(k)' \subseteq Rest(k) \cup (IF pc = "malloc" /\ Alloc = 0 THEN {mv.src} ELSE {})
  BY RestStep
<1>3. Whole(k)'
  BY DEF Copied, Effect
<1>4. pc = "malloc" /\ Alloc = 0 => recov /\ gc.ret = "none"
  BY DEF HasRoom, StoreInv, AtHand, Setting, Moving
<1>5. \A a, b \in Rest(k)' : a = b
  <2>1. CASE pc = "malloc" /\ Alloc = 0
    <3>1. Rest(k)' \subseteq Old(k)' \cup {} /\ Old(k)' \subseteq Old(k)
      BY <2>1 DEF Rest, Effect
    <3>2. Old(k) \subseteq Copies(k)
      BY <2>1 DEF Old, Copies
    <3> QED
      BY <1>4, <2>1, <3>1, <3>2 DEF Copied
  <2>2. CASE ~(pc = "malloc" /\ Alloc = 0)
    BY <1>2, <2>2 DEF Copied
  <2> QED
    BY <2>1, <2>2
<1>6. CASE ~(pc = "prewrite" /\ mv.key = k)
  <2>1. \A a \in Copies(k)' : a \in Copies(k)
    BY <1>6 DEF Effect
  <2>2. \A a, b, c \in Copies(k)' : a = b \/ a = c \/ b = c
    BY <2>1 DEF Copied
  <2>3. recov' \/ pc' = "down" => \A a, b \in Copies(k)' : a = b
    BY <1>1, <2>1 DEF Copied
  <2>4. ~recov => (Marred(k)' => Marred(k))
    BY <1>2, <1>4, <2>1 DEF Marred
  <2>5. Copied(k)'
    BY <1>3, <1>5, <2>2, <2>3 DEF Copied
  <2> QED
    <3>1. recov /\ ~recov' => (Marred(k)' => Lost(k))
      <4>1. ASSUME recov, ~recov', Marred(k)' PROVE Lost(k)
        <5>1. \A a, b \in Copies(k)' : a = b
          BY <2>1, <4>1 DEF Copied
        <5>2. PICK a : a \in Rest(k)'
          BY <4>1, <5>1 DEF Marred
        <5>3. a \in Old(k) /\ pc = "rstop"
          BY <1>1, <4>1, <1>2, <5>2 DEF Rest
        <5> QED
          BY <5>3 DEF Lost, Writes
      <4> QED
        BY <4>1
    <3>2. (recov /\ gc.ret = "none") \/ pc = "down" => (Lost(k)' => Lost(k))
      <4>1. ASSUME (recov /\ gc.ret = "none") \/ pc = "down",
                   NEW a \in Old(k)', ~(a = mv'.src /\ pc' \in Writes \cup {"del"})
            PROVE  a \in Old(k) /\ ~(a = mv.src /\ pc \in Writes \cup {"del"})
        <5>1. pc # "predel"
          BY <4>1 DEF Traces
        <5>2. a \in Old(k) /\ a # None
          BY <4>1, <5>1, NoneApart DEF Effect
        <5>3. ~(a = mv.src /\ pc = "del")
          BY <4>1 DEF Effect
        <5>4. ~(a = mv.src /\ pc \in Writes)
          BY <1>1, <4>1, <5>2
        <5> QED
          BY <5>2, <5>3, <5>4
      <4> QED
        BY <4>1 DEF Lost
    <3> QED
      BY <2>4, <2>5, <3>1, <3>2
<1>7. CASE pc = "prewrite" /\ mv.key = k
  <2>1. PICK s : s = mv.src
    OBVIOUS
  <2>2. PICK C, N : C = Copies(k) /\ N = Copies(k)'
    OBVIOUS
  <2>3. mv' = mv /\ pc' = "head" /\ UNCHANGED recov
    <3>1. PreWrite
      BY <1>7 DEF StoreStep, SetAlloc, PreDelete, DirtyMark, SectorStatus, WriteHead, WriteBody,
        WriteStatus, Delete, After, GcStart, GcFlagNext, GcSector, GcNode, MoveAlloc, EraseSector,
        FormatSector, LoadHeaders, LoadGc, LoadScan, LoadEnd
    <3> QED
      BY <3>1 DEF PreWrite, ram
  <2>4. PICK d : \A b : Unfinish(b)' => b = d
    BY <2>3 DEF Unfinish
  <2>5. \A a \in N : a \in C \/ a = d
    BY <2>2, <2>4 DEF Effect
  <2>6. s # None => s \in Old(k) /\ s \in C /\ s \notin N
    <3>1. s # None => s \in Old(k) /\ s \in Used
      BY <1>7, <2>1 DEF Handed, Writes, Old
    <3>2. s # None => s \in C
      BY <1>7, <2>2, <3>1 DEF Old, Copies
    <3> QED
      BY <1>7, <2>1, <2>2, <3>1, <3>2 DEF Effect
  <2>7. (\A a, b, c \in C : a = b \/ a = c \/ b = c) /\ (recov => \A a, b \in C : a = b)
    BY <2>2 DEF Copied
  <2>8. s = None => ~recov /\ C \subseteq Rest(k)
    <3>1. s = None => ~recov /\ Live(k) = {}
      BY <1>7, <2>1 DEF StoreInv, AtHand, Setting, Moving, Writes, Handed
    <3>2. C \subseteq Live(k) \cup Old(k)
      BY <1>7, <2>2 DEF Copies, Live, Old, Unfinish
    <3> QED
      BY <2>1, <3>1, <3>2, NoneApart DEF Rest
  <2>9. \A a, b \in Rest(k) : a = b
    BY DEF Copied
  <2>10. \A a, b, c \in N : a = b \/ a = c \/ b = c
    <3>1. CASE s # None
      <4>1. \A a, b \in C \ {s} : a = b
        BY <2>6, <2>7, <3>1
      <4> QED
        BY <2>5, <2>6, <3>1, <4>1
    <3>2. CASE s = None
      BY <2>5, <2>8, <2>9, <3>2
    <3> QED
      BY <3>1, <3>2
  <2>11. recov => \A a, b \in N : a = b
    BY <2>5, <2>6, <2>7, <2>8
  <2>12. Copied(k)'
    <3>1. \A a, b, c \in Copies(k)' : a = b \/ a = c \/ b = c
      BY <2>2, <2>10
    <3>2. recov' \/ pc' = "down" => \A a, b \in Copies(k)' : a = b
      BY <2>2, <2>3, <2>11
    <3> QED
      BY <1>3, <1>5, <3>1, <3>2 DEF Copied
  <2>13. Marred(k)' => Marred(k)
    <3>1. Rest(k)' \subseteq Rest(k)
      BY <1>2, <1>7
    <3>2. (\E a, b \in N : a # b) => Rest(k) # {} \/ \E a, b \in C : a # b
      <4>1. CASE s # None
        BY <2>5, <2>6, <4>1
      <4>2. CASE s = None
        BY <2>5, <2>8, <4>2
      <4> QED
        BY <4>1, <4>2
    <3> QED
      BY <2>2, <3>1, <3>2 DEF Marred
  <2>14. Lost(k)' => Lost(k)
    <3>1. \A a \in Old(k)' : a \in Old(k)
      BY <1>7 DEF Effect
    <3> QED
      BY <1>7, <2>3, <3>1 DEF Lost, Writes
  <2> QED
    BY <2>3, <2>12, <2>13, <2>14
<1> QED
  BY <1>6, <1>7

\* In a recovery the key is moved, never dropped for another record.
LEMMA NoOther ==
    ASSUME StoreInv, NEW k \in Keys, Copied(k), Handed(k), mv.key = k, pc = "malloc", recov
    PROVE  FirstLive(k) = None
<1>1. mv.src \in Old(k)
  BY DEF Handed, StoreInv, AtHand
<1>2. Live(k) \cup Old(k) \subseteq Copies(k)
  BY DEF Live, Old, Copies
<1>3. Live(k) = {}
  BY <1>1, <1>2 DEF Copied, Live, Old
<1> QED
  BY <1>3, HavingIs DEF FirstLive

\* A move finds room, or is in the scan of the recovery.
LEMMA MovePlaced ==
    ASSUME StoreInv, HasRoom, MoveAlloc
    PROVE  \/ Alloc = 0 /\ gc.ret = "none" /\ recov /\ pc' = "rstop" /\ mv' = NoMove
           \/ Alloc # 0 /\ pc' = "del" /\ mv' = mv /\ recov /\ FirstLive(mv.key) # None
           \/ Alloc # 0 /\ pc' = "secst" /\ mv'.key = mv.key /\ mv'.src = mv.src
<1>1. Alloc = 0 => gc.ret = "none" /\ recov
  BY DEF MoveAlloc, HasRoom, StoreInv, AtHand, Setting, Moving
<1> QED
  BY <1>1 DEF MoveAlloc, StoreInv, RamType

\* Nor does it lead the cache astray.
LEMMA RecalledStep ==
    ASSUME StoreInv, Traces, StoreStep, HasRoom, NEW k \in Keys, Effect(k), Copied(k),
           Handed(k), Recalled(k)
    PROVE  Recalled(k)'
<1>1. Live(k) \subseteq Live(k)' \cup (IF pc = "predel" THEN {mv.src} ELSE {})
  BY DEF Effect
<1>2. pc \notin Moving => mv.key # k
  BY StoreAssumption DEF StoreInv, Control, NoMove
<1>3. CASE SetAlloc
  <2>1. pc \in {"alloc", "again"} /\ req.key \in Keys
    BY <1>3, StoreAssumption DEF SetAlloc, StoreInv, Control, RamType, Resting
  <2>2. cache[k] \in {None} \cup Live(k)
    BY <1>2, <2>1 DEF Recalled, Moving, Writes
  <2>3. CASE cache' = cache
    BY <1>1, <2>1, <2>2, <2>3 DEF Recalled
  <2>4. ASSUME NEW a \in Finds(req.key), cache' = [cache EXCEPT ![req.key] = a]
        PROVE  Recalled(k)'
    <3>1. req.key = k => a \in {None} \cup Live(k)
      BY <2>2, <2>4, FindsLive
    <3>2. cache'[k] = IF req.key = k THEN a ELSE cache[k]
      BY <2>4 DEF StoreInv, RamType
    <3> QED
      BY <1>1, <2>1, <2>2, <3>1, <3>2 DEF Recalled
  <2> QED
    BY <1>3, <2>3, <2>4 DEF SetAlloc
<1>4. CASE WriteBody
  <2>1. pc = "body" /\ pc' = "write" /\ UNCHANGED <<sec, mv>> /\ cache' = [cache EXCEPT ![mv.key] = Dst]
    BY <1>4 DEF WriteBody
  <2>2. Dst' = Dst
    <3>1. PICK d, r : /\ d = Dst
                      /\ r = [st |-> "prewrite", key |-> mv.key, val |-> mv.val,
                              data |-> Content]
      OBVIOUS
    <3>2. Dst' = d
      BY <1>4, <2>1, <3>1, DstEffect DEF WriteBody, Content
    <3> QED
      BY <3>1, <3>2
  <2>3. cache'[k] = IF mv.key = k THEN Dst ELSE cache[k]
    BY <2>1 DEF StoreInv, RamType
  <2>4. CASE mv.key = k
    BY <2>1, <2>2, <2>3, <2>4 DEF Recalled
  <2>5. CASE mv.key # k
    BY <1>1, <2>1, <2>3, <2>5 DEF Recalled
  <2> QED
    BY <2>4, <2>5
<1>5. CASE Delete
  <2>1. pc = "del" /\ (cache' = cache \/ cache' = [cache EXCEPT ![mv.key] = None])
    BY <1>5 DEF Delete
  <2>2. cache[k] \in {None} \cup Live(k)
    BY <2>1 DEF Recalled, Making
  <2>3. cache'[k] \in {None, cache[k]}
    BY <2>1 DEF StoreInv, RamType
  <2> QED
    BY <1>1, <2>1, <2>2, <2>3 DEF Recalled
<1>6. CASE LoadEnd
  <2>1. pc = "rstop" /\ (cache' = cache \/ cache' = [j \in Keys |-> IF Having(j, "write") = {} THEN None
                                                              ELSE Last(Having(j, "write"))])
    BY <1>6 DEF LoadEnd
  <2>2. cache[k] \in {None} \cup Live(k)
    BY <2>1 DEF Recalled, Making
  <2>3. Having(k, "write") = Live(k) /\ (Live(k) # {} => Last(Live(k)) \in Live(k))
    BY HavingIs, LastIn DEF Live, Used
  <2>4. cache'[k] \in {None} \cup Live(k)
    BY <2>1, <2>2, <2>3
  <2> QED
    BY <1>1, <2>1, <2>4 DEF Recalled
<1>7. CASE ~SetAlloc /\ ~WriteBody /\ ~Delete /\ ~LoadEnd
  <2>1. cache' = cache
    BY <1>7 DEF StoreStep, PreDelete, DirtyMark, SectorStatus, PreWrite, WriteHead, WriteStatus,
      After, GcStart, GcFlagNext, GcSector, GcNode, MoveAlloc, EraseSector, FormatSector,
      LoadHeaders, LoadGc, LoadScan, ram
  <2>2. CASE cache[k] = None \/ (cache[k] \in Live(k) /\ ~(pc = "predel" /\ cache[k] = mv.src))
    BY <1>1, <2>1, <2>2 DEF Recalled
  <2>3. CASE pc = "predel" /\ cache[k] \in Live(k) /\ cache[k] = mv.src
    <3>1. mv.key = k
      BY <2>3, Other
    <3>2. PreDelete
      BY <2>3 DEF StoreStep, SetAlloc, DirtyMark, SectorStatus, PreWrite, WriteHead, WriteBody,
        WriteStatus, Delete, After, GcStart, GcFlagNext, GcSector, GcNode, MoveAlloc, EraseSector,
        FormatSector, LoadHeaders, LoadGc, LoadScan, LoadEnd
    <3>3. gc.ret # "none" \/ ~recov
      BY <2>3 DEF Traces
    <3> QED
      BY <2>1, <2>3, <3>1, <3>2, <3>3 DEF PreDelete, Recalled, Making
  <2>4. CASE mv.key = k /\ pc \in Making /\ cache[k] = mv.src /\ (gc.ret # "none" \/ ~recov)
    <3>1. CASE MoveAlloc
      <4>1. ~(recov /\ FirstLive(mv.key) # None)
        BY <2>4, <3>1, NoOther DEF MoveAlloc
      <4>2. pc' = "secst" /\ mv'.key = mv.key /\ mv'.src = mv.src
        BY <2>4, <3>1, <4>1, MovePlaced
      <4>3. UNCHANGED <<recov, gc>>
        BY <3>1 DEF MoveAlloc
      <4> QED
        BY <2>1, <2>4, <4>2, <4>3 DEF Recalled, Making
    <3>2. CASE ~MoveAlloc
      <4>1. DirtyMark \/ SectorStatus \/ PreWrite \/ WriteHead
        BY <1>7, <2>4, <3>2 DEF Making, StoreStep, SetAlloc, PreDelete,
          WriteStatus, Delete, After, GcStart, GcFlagNext, GcSector, GcNode, EraseSector,
          FormatSector, LoadHeaders, LoadGc, LoadScan, LoadEnd
      <4>2. pc' \in Making /\ UNCHANGED <<recov, gc, mv>>
        BY <2>4, <4>1 DEF DirtyMark, SectorStatus, PreWrite, WriteHead, ram, Making
      <4> QED
        BY <2>1, <2>4, <4>2 DEF Recalled
    <3> QED
      BY <3>1, <3>2
  <2>5. CASE mv.key = k /\ pc = "write" /\ cache[k] = Dst
    BY <2>1, <2>5 DEF Effect, Recalled
  <2> QED
    BY <2>2, <2>3, <2>4, <2>5 DEF Recalled
<1> QED
  BY <1>3, <1>4, <1>5, <1>6, <1>7

\* The record at hand stays one of its key.
LEMMA HandedStep ==
    ASSUME StoreInv, Traces, StoreStep, HasRoom, NEW k \in Keys, Effect(k), Copied(k),
           Handed(k), Recalled(k)
    PROVE  Handed(k)'
<1>1. /\ Old(k) \subseteq Old(k)' \cup (IF pc = "del" THEN {mv.src} ELSE {})
      /\ pc = "predel" /\ mv.key = k => mv.src \in Old(k)'
      /\ pc # "write" => Live(k)' \subseteq Live(k)
      /\ pc # "predel" => Live(k) \subseteq Live(k)'
  BY DEF Effect
<1>2. pc \notin Moving => mv.key # k
  BY StoreAssumption DEF StoreInv, Control, NoMove
<1>3. mv' = NoMove => Handed(k)'
  BY StoreAssumption DEF Handed, NoMove
<1>4. CASE SetAlloc
  <2>1. pc \in {"alloc", "again"} /\ req.key \in Keys
    BY <1>4, StoreAssumption DEF SetAlloc, StoreInv, Control, RamType, Resting
  <2>2. cache[k] \in {None} \cup Live(k)
    BY <1>2, <2>1 DEF Recalled, Moving, Writes
  <2>3. ASSUME NEW a \in Finds(req.key),
               mv' = [key |-> req.key, val |-> req.val, src |-> a, dst |-> Alloc, crc |-> TRUE],
               pc' = IF a = None THEN "secst" ELSE "predel"
        PROVE  Handed(k)'
    <3>1. req.key = k => (a = None /\ Live(k) = {}) \/ a \in Live(k)
      BY <2>2, <2>3, FindsLive
    <3>2. mv'.key = req.key /\ mv'.src = a
      BY <2>3
    <3> QED
      BY <1>1, <2>1, <2>3, <3>1, <3>2, NoneApart DEF Handed, Writes
  <2>4. Alloc = 0 => pc' \in {"gc", "full"}
    BY <1>4 DEF SetAlloc, CallGc
  <2>5. CASE Alloc = 0
    BY <2>4, <2>5 DEF Handed, Writes
  <2> QED
    BY <1>4, <2>3, <2>5 DEF SetAlloc
<1>5. CASE GcNode \/ LoadScan
  <2>1. pc \in {"gcnode", "rscan"}
    BY <1>5 DEF GcNode, LoadScan
  <2>2. ASSUME NEW a \in Visited, Move(a), pc' = "predel", At(a).st = "write", At(a).data = "all"
        PROVE  Handed(k)'
    <3>1. a \in Used
      BY <2>2, VisitedIs DEF StoreInv
    <3>2. mv'.key = At(a).key /\ mv'.src = a
      BY <2>2 DEF Move
    <3>3. mv'.key = k => a \in Live(k)
      BY <2>2, <3>1, <3>2 DEF Live
    <3> QED
      BY <1>1, <2>1, <2>2, <3>2, <3>3 DEF Handed, Writes
  <2>3. ASSUME NEW a \in Visited, Move(a), pc' = "malloc", At(a).st = "predelete"
        PROVE  Handed(k)'
    <3>1. a \in Used
      BY <2>3, VisitedIs DEF StoreInv
    <3>2. mv'.key = At(a).key /\ mv'.src = a
      BY <2>3 DEF Move
    <3>3. mv'.key = k => a \in Old(k)
      BY <2>3, <3>1, <3>2 DEF Old, Copied, Whole
    <3> QED
      BY <1>1, <2>1, <2>3, <3>2, <3>3 DEF Handed, Writes
  <2>4. CASE pc' \in {"erase", "rstop"}
    BY <2>4 DEF Handed, Writes
  <2>5. CASE GcNode /\ pc' # "erase"
    <3> DEFINE todo == {a \in Visited : /\ a[1] = gc.at /\ a[2] > gc.slot
                                        /\ At(a).data = "all"
                                        /\ At(a).st \in {"write", "predelete"}}
    <3>1. PICK a : a = First(todo)
      OBVIOUS
    <3>2. todo # {} /\ Move(a) /\ pc' = IF At(a).st = "write" THEN "predel" ELSE "malloc"
      BY <2>5, <3>1 DEF GcNode
    <3>3. todo \subseteq Used
      BY VisitedIs DEF StoreInv
    <3>4. a \in todo
      BY <3>1, <3>2, <3>3, FirstIn DEF Used
    <3> QED
      BY <2>2, <2>3, <3>2, <3>4
  <2>6. CASE LoadScan /\ pc' # "rstop"
    <3> DEFINE todo == {a \in Visited : Before(pos, a) /\ Unfinished(At(a))}
    <3>1. PICK a : a = First(todo)
      OBVIOUS
    <3>2. todo # {} /\ Move(a) /\ pc' = "malloc" /\ At(a).st = "predelete"
      BY <2>6, <3>1 DEF LoadScan
    <3>3. todo \subseteq Used
      BY VisitedIs DEF StoreInv
    <3>4. a \in todo
      BY <3>1, <3>2, <3>3, FirstIn DEF Used
    <3> QED
      BY <2>3, <3>2, <3>4
  <2> QED
    BY <1>5, <2>4, <2>5, <2>6
<1>6. CASE MoveAlloc
  <2>1. pc = "malloc" /\ mv.src # None
    BY <1>6 DEF MoveAlloc, StoreInv, AtHand
  <2> QED
    BY <1>1, <1>3, <1>6, <2>1, MovePlaced DEF Handed, Writes
<1>7. CASE PreDelete \/ DirtyMark
  <2>1. /\ mv' = mv /\ mv.src # None /\ pc' # "predel"
        /\ pc \in {"predel", "premark"} \/ pc' = "after"
        /\ pc \notin {"del"}
    BY <1>7 DEF PreDelete, DirtyMark, StoreInv, AtHand
  <2> QED
    BY <1>1, <2>1 DEF Handed, Writes
<1>8. CASE SectorStatus \/ PreWrite \/ WriteHead \/ WriteBody \/ WriteStatus \/ Delete
  <2>1. /\ mv' = mv /\ pc \in Writes \cup {"del"} /\ pc' # "predel"
        /\ pc' \in {"secst", "prewrite"} => pc = "secst"
        /\ pc = "del" => pc' \in {"postmark", "after"}
    BY <1>8 DEF SectorStatus, PreWrite, WriteHead, WriteBody, WriteStatus, Delete, Writes
  <2> QED
    BY <1>1, <2>1 DEF Handed, Writes
<1>9. CASE After \/ GcStart \/ GcFlagNext \/ GcSector \/ EraseSector \/ FormatSector
           \/ LoadHeaders \/ LoadGc \/ LoadEnd
  <2>1. mv' = NoMove \/ mv' = mv
    BY <1>9 DEF After, GcStart, GcFlagNext, GcSector, EraseSector, FormatSector, LoadHeaders,
      LoadGc, LoadEnd, CallGc, Unlock, GcReturn
  <2>2. mv' = mv => pc \notin Moving
    <3>1. After => mv' = NoMove
      BY DEF After, CallGc, Unlock
    <3>2. ~After => pc \notin Moving
      BY <1>9 DEF GcStart, GcFlagNext, GcSector, EraseSector, FormatSector, LoadHeaders,
        LoadGc, LoadEnd, Moving, Writes
    <3>3. mv' = NoMove /\ mv' = mv => mv.key = None
      BY DEF NoMove
    <3> QED
      BY <3>1, <3>2, <3>3 DEF StoreInv, Control
  <2> QED
    BY <1>2, <1>3, <2>1, <2>2 DEF Handed
<1> QED
  BY <1>4, <1>5, <1>6, <1>7, <1>8, <1>9 DEF StoreStep

\* A collection leaves nothing of it behind.
LEMMA SweptStep ==
    ASSUME StoreInv, Traces, StoreStep, HasRoom, NEW k \in Keys, Effect(k), Swept(k)
    PROVE  Swept(k)'
<1>1. /\ Live(k)' \subseteq Live(k) \cup (IF pc = "write" /\ mv.key = k THEN {Dst} ELSE {})
      /\ Old(k)' \subseteq Old(k) \cup (IF pc = "predel" THEN {mv.src} ELSE {})
      /\ pc = "del" => mv.src \notin Old(k)'
  BY DEF Effect
<1>2. CASE GcSector
  <2> DEFINE todo == {s \in Sectors : s > gc.at /\ Collectable(s) /\ sec[s].gc}
  <2>1. CASE todo # {}
    <3>1. gc' = [gc EXCEPT !.at = Min(todo), !.slot = 0] /\ pc = "gcsec" /\ pc' = "gcnode"
      BY <1>2, <2>1 DEF GcSector
    <3>2. gc'.slot = 0
      BY <3>1 DEF StoreInv, RamType, Collections
    <3>3. \A a \in Live(k) \cup Old(k) : a[2] > 0
      BY CapPositive DEF Live, Old, Used, Addrs
    <3> QED
      BY <1>1, <3>1, <3>2, <3>3 DEF Swept
  <2>2. CASE todo = {}
    <3>1. GcReturn
      BY <1>2, <2>2 DEF GcSector
    <3>2. gc'.ret = "none" /\ pc' = gc.ret /\ pc = "gcsec"
      BY <1>2, <3>1 DEF GcReturn, NoGc, GcSector
    <3>3. pc' # "erase"
      BY <3>2 DEF StoreInv, RamType, Collections
    <3> QED
      BY <3>2, <3>3 DEF Swept
  <2> QED
    BY <2>1, <2>2
<1>3. CASE GcNode
  <2> DEFINE todo == {a \in Visited : /\ a[1] = gc.at /\ a[2] > gc.slot
                                      /\ At(a).data = "all"
                                      /\ At(a).st \in {"write", "predelete"}}
  <2>1. pc = "gcnode" /\ gc.ret # "none" /\ mv.src = None
    BY <1>3 DEF GcNode, StoreInv, Control, Collecting, Moving, Writes, NoMove
  <2>2. \A b \in Live(k) \cup Old(k) : b[1] = gc.at => b \in todo
    <3>1. \A b \in Live(k) \cup Old(k) : b \in Visited
      BY VisitedIs DEF StoreInv, Live, Old
    <3>2. \A b \in Live(k) \cup Old(k) : b[1] = gc.at => b[2] > gc.slot
      BY <2>1, NoneApart DEF Swept
    <3> QED
      BY <3>1, <3>2 DEF Live, Old
  <2>3. CASE todo = {}
    <3>1. pc' = "erase" /\ UNCHANGED gc
      BY <1>3, <2>3 DEF GcNode
    <3> QED
      BY <1>1, <2>1, <2>2, <2>3, <3>1 DEF Swept, Moving, Writes
  <2>4. CASE todo # {}
    <3>1. PICK a : a = First(todo)
      OBVIOUS
    <3>2. Move(a) /\ gc' = [gc EXCEPT !.slot = a[2]]
          /\ pc' = IF At(a).st = "write" THEN "predel" ELSE "malloc"
      BY <1>3, <2>4, <3>1 DEF GcNode
    <3>3. todo \subseteq Used
      BY VisitedIs DEF StoreInv
    <3>4. a \in todo /\ \A b \in todo : b = a \/ Before(a, b)
      BY <2>4, <3>1, <3>3, FirstIn DEF Used
    <3>5. gc'.ret = gc.ret /\ gc'.at = gc.at /\ gc'.slot = a[2] /\ mv'.src = a
      BY <3>2 DEF StoreInv, RamType, Collections, Move
    <3>6. \A b \in Live(k) \cup Old(k) : b[1] = gc.at => b = a \/ b[2] > a[2]
      <4>1. \A b \in Used : b[1] \in Nat
        BY CapPositive DEF Used, Addrs, Sectors
      <4> QED
        BY <2>2, <3>4, <4>1 DEF Before, Live, Old
    <3> HIDE DEF todo
    <3> QED
      BY <1>1, <2>1, <3>2, <3>5, <3>6 DEF Swept
  <2> QED
    BY <2>3, <2>4
<1>4. CASE After
  <2>1. pc = "after" /\ pc' \in {"gc", "idle", "rscan", "gcnode"}
        /\ (pc' = "gcnode" => UNCHANGED gc)
    BY <1>4 DEF After, CallGc, Unlock
  <2>2. mv.src \notin Live(k) \cup Old(k)
    BY <2>1, NoneApart DEF Traces, Live, Old
  <2> QED
    BY <1>1, <2>1, <2>2 DEF Swept, Moving, Writes
<1>5. CASE pc \in Moving /\ ~After
  <2>1. PreDelete \/ DirtyMark \/ SectorStatus \/ PreWrite \/ WriteHead \/ WriteBody
        \/ WriteStatus \/ Delete \/ MoveAlloc
    BY <1>5 DEF Moving, Writes, StoreStep, SetAlloc, GcStart, GcFlagNext, GcSector, GcNode,
      EraseSector, FormatSector, LoadHeaders, LoadGc, LoadScan, LoadEnd
  <2>2. gc' = gc /\ pc' # "erase"
    BY <2>1 DEF PreDelete, DirtyMark, SectorStatus, PreWrite, WriteHead, WriteBody,
      WriteStatus, Delete, MoveAlloc
  <2>3. gc.ret # "none" => mv'.src = mv.src
    BY <2>1, MovePlaced DEF PreDelete, DirtyMark, SectorStatus, PreWrite, WriteHead, WriteBody,
      WriteStatus, Delete
  <2>4. gc.ret # "none" /\ pc = "write" => Dst[1] # gc.at
    BY DEF StoreInv, Target, Dst
  <2> QED
    BY <1>1, <1>5, <2>2, <2>3, <2>4 DEF Swept
<1>6. CASE SetAlloc \/ GcStart \/ GcFlagNext \/ EraseSector \/ FormatSector
           \/ LoadHeaders \/ LoadGc \/ LoadScan \/ LoadEnd
  <2>1. SetAlloc \/ LoadScan \/ (LoadEnd /\ pc' = "idle") => gc.ret = "none"
    BY DEF SetAlloc, LoadScan, LoadEnd, StoreInv, Control, Loading, Resting
  <2>2. GcReturn => pc' = gc.ret /\ gc'.ret = "none"
    BY DEF GcReturn, NoGc
  <2>3. gc.ret # "erase"
    BY DEF StoreInv, RamType, Collections
  <2>4. pc' # "erase" /\ (pc' \in Moving \cup {"gcnode"} => gc'.ret = "none")
    BY <1>6, <2>1, <2>2, <2>3 DEF SetAlloc, GcStart, GcFlagNext, EraseSector, FormatSector,
      LoadHeaders, LoadGc, LoadScan, LoadEnd, CallGc, Moving, Writes
  <2> QED
    BY <2>4 DEF Swept
<1> QED
  BY <1>2, <1>3, <1>4, <1>5, <1>6
  DEF StoreStep, PreDelete, DirtyMark, SectorStatus, PreWrite, WriteHead, WriteBody, WriteStatus,
    Delete, MoveAlloc, Moving, Writes

\* The other keys.
LEMMA SoleStep ==
    ASSUME StoreInv, Traces, StoreStep, HasRoom, NEW k \in Keys, Effect(k), KeyInv(k), Sole(k)
    PROVE  Sole(k)'
<1>1. /\ recov' \/ pc' = "down" => recov \/ pc = "down"
      /\ gc'.ret = "none" => gc.ret = "none" \/ mv.src = None
  BY StepMoves
<1>2. Old(k)' \subseteq Old(k) \cup (IF pc = "predel" THEN {mv.src} ELSE {})
  BY DEF Effect
<1>3. Rest(k)' \subseteq Rest(k) \cup (IF pc = "malloc" /\ Alloc = 0 THEN {mv.src} ELSE {})
  BY RestStep
<1>4. pc = "predel" /\ gc.ret = "none" => ~recov
  BY DEF Traces
<1>5. pc = "predel" => mv.src # None
  BY DEF StoreInv, AtHand
<1>6. pc = "malloc" /\ Alloc = 0 => gc.ret = "none"
  BY DEF HasRoom
<1>7. Rest(k)' \subseteq Old(k)'
  BY DEF Rest
<1>8. mv.src = None => Rest(k) = Old(k)
  BY NoneApart DEF Rest
<1>9. SUFFICES ASSUME recov' \/ pc' = "down"
               PROVE  Rest(k)' = {} /\ (gc'.ret = "none" => Old(k)' = {})
  BY DEF Sole
<1>10. Rest(k) = {} /\ (gc.ret = "none" => Old(k) = {})
  BY <1>1, <1>9 DEF Sole
<1> QED
  BY <1>1, <1>2, <1>3, <1>4, <1>5, <1>6, <1>7, <1>8, <1>9, <1>10

\* All of it, step by step.
LEMMA ScarsStep ==
    ASSUME KeepInv, torn = {}, StoreStep, HasRoom, Sourced, UNCHANGED <<damaged, resets>>, Scars
    PROVE  Scars'
<1>1. StoreInv /\ Traces /\ mv.crc
  BY DEF KeepInv, CallersInv, Checked
<1>2. ASSUME NEW k \in Keys PROVE Effect(k) /\ Drafting
  <2>1. CASE k \in damaged
    BY <1>1, <2>1, StepEffect DEF Scars, Scar, Swept
  <2>2. CASE k \notin damaged
    BY <1>1, <2>2, StepEffect DEF KeepInv, Spoilt, KeyInv, Ahead
  <2> QED
    BY <2>1, <2>2
<1>3. damaged \subseteq Keys
  BY DEF KeepInv, CallersInv
<1>4. ASSUME NEW k \in damaged PROVE Scar(k)'
  <2>1. Scar(k) /\ Effect(k) /\ k \in Keys
    BY <1>2, <1>3 DEF Scars
  <2> QED
    BY <1>1, <2>1, CopiedStep, RecalledStep, HandedStep, SweptStep DEF Scar
<1>5. ASSUME damaged # {}, NEW k \in Keys \ damaged PROVE Sole(k)'
  BY <1>1, <1>2, <1>5, SoleStep DEF Scars, KeepInv, Spoilt
<1>6. Drafting
  <2>1. Order[1] \in Keys
    BY OrderIn
  <2> QED
    BY <1>2, <2>1
<1>7. Drafts'
  BY <1>6 DEF Scars, Drafts, Drafting
<1> QED
  BY <1>4, <1>5, <1>7 DEF Scars

\* The record at hand is one of its key.
LEMMA SourcedIs ==
    ASSUME KeepInv, torn = {}, Scars
    PROVE  Sourced
<1>1. SUFFICES ASSUME pc \in {"predel", "premark", "malloc", "del"} \cup Writes, mv.src # None
               PROVE  /\ pc = "predel" => mv.src \in Live(mv.key)
                      /\ pc # "predel" => mv.src \in Old(mv.key)
  BY DEF Sourced, Live, Old, Writes
<1>2. mv.key \in Keys
  BY <1>1 DEF KeepInv, CallersInv, StoreInv, Control, RamType, Moving, Writes
<1>3. CASE mv.key \in damaged
  BY <1>1, <1>3 DEF Scars, Scar, Handed
<1>4. CASE mv.key \notin damaged
  BY <1>1, <1>2, <1>4 DEF KeepInv, Spoilt, KeyInv, Replaced
<1> QED
  BY <1>3, <1>4

\* A step hurts no key, and what the recovery had left to do it still has.
LEMMA WhitherIs ==
    ASSUME KeepInv, torn = {}, StoreStep, HasRoom, Sourced, UNCHANGED <<damaged, resets>>, Scars
    PROVE  Whither
<1>1. StoreInv /\ Traces /\ damaged \subseteq Keys /\ mv.crc
  BY DEF KeepInv, CallersInv, Checked
<1>2. ASSUME NEW k \in damaged
      PROVE  /\ ~recov => (Marred(k)' => Marred(k))
             /\ recov /\ ~recov' => (Marred(k)' => Lost(k))
             /\ (recov /\ gc.ret = "none") \/ pc = "down" => (Lost(k)' => Lost(k))
  <2>1. Scar(k) /\ k \in Keys
    BY <1>1 DEF Scars
  <2>2. Effect(k)
    BY <1>1, <2>1, StepEffect DEF Scar, Swept
  <2> QED
    BY <1>1, <2>1, <2>2, CopiedStep DEF Scar
<1>3. /\ Hurt <=> ~recov /\ pc # "down" /\ \E k \in damaged : Marred(k)
      /\ Left <=> \E k \in damaged : Lost(k)
  BY DEF Hurt, Left, Marred, Lost
<1>4. (Hurt <=> ~recov /\ pc # "down" /\ \E k \in damaged : Marred(k))'
      /\ (Left <=> \E k \in damaged : Lost(k))'
  BY DEF Hurt, Left, Marred, Lost
<1>5. /\ pc' # "down" /\ (recov /\ ~recov' => pc = "rstop")
      /\ pc = "down" => pc' = "rgc"
  BY <1>1, StepMoves
<1>6. pc = "down" => recov'
  BY <1>1 DEF StoreStep, SetAlloc, PreDelete, DirtyMark, SectorStatus, PreWrite, WriteHead,
    WriteBody, WriteStatus, Delete, After, GcStart, GcFlagNext, GcSector, GcNode, MoveAlloc,
    EraseSector, FormatSector, LoadHeaders, LoadGc, LoadScan, LoadEnd
<1>7. Hurt' => Hurt \/ (pc = "rstop" /\ Left)
  BY <1>2, <1>3, <1>4, <1>5, <1>6
<1>8. (recov /\ gc.ret = "none") \/ pc = "down" => (Left' => Left)
  BY <1>2, <1>3, <1>4
<1>9. recov /\ gc.ret = "none" /\ pc = "secst" => ~Left
  <2> SUFFICES ASSUME recov, gc.ret = "none", pc = "secst",
                      NEW k \in damaged, NEW a \in Old(k), a # mv.src
               PROVE  FALSE
    BY DEF Left, Writes
  <2>1. mv.src # None /\ mv.key \in Keys
    BY <1>1 DEF StoreInv, AtHand, Control, RamType, Setting, Moving, Writes
  <2>2. mv.src \in Old(mv.key)
    BY <1>1, <2>1 DEF Sourced, Writes, StoreInv, AtHand, Moving, Old
  <2>3. CASE mv.key = k
    <3>1. a \in Copies(k) /\ mv.src \in Copies(k)
      BY <2>2, <2>3 DEF Old, Copies
    <3> QED
      BY <3>1 DEF Scars, Scar, Copied
  <2>4. CASE mv.key # k
    <3>1. mv.key \notin damaged
      BY <2>4 DEF Scars
    <3>2. Old(mv.key) = {}
      BY <2>1, <3>1 DEF Scars, Sole
    <3> QED
      BY <2>2, <3>2
  <2> QED
    BY <2>3, <2>4
<1> QED
  BY <1>7, <1>8, <1>9 DEF Whither

-----------------------------------------------------------------------------
(* What the steps need of the records, after all. *)

\* With one key that has two records, a sector without dead slots has room as
\* long as some key is not in it, or one of the two is not.
LEMMA Spare ==
    ASSUME StoreInv, \A j \in Keys : Whole(j), pc \notin {"head", "body", "write"},
           NEW s \in Sectors, Dead(s) = {}, NEW k \in Keys,
           \A j \in Keys \ {k} : \A a, b \in Live(j) : a = b,
           \A a, b, c \in Live(k) : a = b \/ a = c \/ b = c,
           NEW m \in Keys,
           IF m = k THEN \A a, b \in Live(k) : a[1] = s /\ b[1] = s => a = b
           ELSE \A a \in Live(m) : a[1] # s
    PROVE  Len(node[s]) < Cap
<1>1. ASSUME NEW a \in Slots(s) PROVE At(a).key \in Keys /\ a \in Live(At(a).key) /\ a[1] = s
  BY <1>1, AliveIs DEF Slots, Dead
<1>2. FlashType /\ Len(node[s]) \in Nat
  BY SectorIs DEF StoreInv
<1>3. CASE \A a, b \in Live(k) : a[1] = s /\ b[1] = s => a = b
  <2>1. IsFiniteSet({}) /\ Cardinality({}) = 0
    BY FS_EmptySet
  <2>2. /\ \A a \in Slots(s) \ {} : At(a).key \in Keys
        /\ \A a, b \in Slots(s) \ {} : At(a).key = At(b).key => a = b
    BY <1>1, <1>3
  <2>3. Keys \in SUBSET Keys
    OBVIOUS
  <2>4. Len(node[s]) <= Cardinality(Keys) + Cardinality({}) /\ Cardinality(Keys) \in Nat
    BY <1>2, <2>1, <2>2, <2>3, Crowd
  <2> QED
    BY <1>2, <2>1, <2>4, StoreAssumption
<1>4. ASSUME NEW e \in Live(k), NEW f \in Live(k), e # f, e[1] = s, f[1] = s
      PROVE  Len(node[s]) < Cap
  <2> DEFINE A == Keys \ {m}
  <2>1. m # k /\ \A a \in Live(m) : a[1] # s
    BY <1>4
  <2>2. IsFiniteSet(Keys) /\ Cardinality(Keys) \in Nat /\ Cardinality(A) = Cardinality(Keys) - 1
    BY StoreAssumption, FS_RemoveElement, FS_CardinalityType
  <2>3. IsFiniteSet({e}) /\ Cardinality({e}) = 1
    BY FS_Singleton
  <2>4. \A a \in Slots(s) \ {e} : At(a).key \in A
    BY <1>1, <2>1
  <2>5. \A a, b \in Slots(s) \ {e} : At(a).key = At(b).key => a = b
    <3> SUFFICES ASSUME NEW a \in Slots(s) \ {e}, NEW b \in Slots(s) \ {e}, At(a).key = At(b).key
                 PROVE  a = b
      OBVIOUS
    <3>1. CASE At(a).key = k
      BY <1>1, <1>4, <3>1
    <3>2. CASE At(a).key # k
      BY <1>1, <3>2
    <3> QED
      BY <3>1, <3>2
  <2>6. A \in SUBSET Keys
    OBVIOUS
  <2> HIDE DEF A
  <2>7. Len(node[s]) <= Cardinality(A) + Cardinality({e})
    BY <1>2, <2>3, <2>4, <2>5, <2>6, Crowd
  <2> QED
    BY <1>2, <2>2, <2>3, <2>7, StoreAssumption
<1> QED
  BY <1>3, <1>4

\* A sector filled up to the last slot, at most one of them dead, holds a record.
LEMMA Inhabited ==
    ASSUME StoreInv, \A j \in Keys : Whole(j), pc \notin {"head", "body", "write"},
           NEW s \in Sectors, Len(node[s]) = Cap, \A a, b \in Dead(s) : a = b, Keys # {}
    PROVE  \E k \in Keys : \E a \in Live(k) : a[1] = s
<1>1. Cap >= 2 /\ Cap \in Nat
  <2>1. Cardinality(Keys) \in Nat /\ Cardinality(Keys) # 0
    BY StoreAssumption, FS_CardinalityType, FS_EmptySet
  <2> QED
    BY <2>1, StoreAssumption
<1>2. <<s, 1>> \in Used /\ <<s, 2>> \in Used
  BY <1>1 DEF Used, Addrs
<1>3. PICK a \in {<<s, 1>>, <<s, 2>>} : a \notin Dead(s)
  <2>1. <<s, 1>> # <<s, 2>>
    OBVIOUS
  <2> QED
    BY <2>1
<1>4. a \in Used /\ a[1] = s /\ a \notin DeadSlots
  BY <1>2, <1>3 DEF Dead
<1> QED
  BY <1>4, AliveIs

\* The steps have the room they need.
LEMMA RoomedIs ==
    ASSUME KeepInv, torn = {}, RoomInv, Scars
    PROVE  /\ Roomed
           /\ resets = MaxResets /\ pc = "prewrite" /\ mv.dst \in Tidy => Len(node[mv.dst]) + 1 < Cap
<1>1. StoreInv /\ Traces /\ damaged \subseteq Keys /\ Shape /\ Calls /\ Collects /\ Early
  BY DEF KeepInv, CallersInv, RoomInv
<1>2. SUFFICES ASSUME pc \in {"malloc", "again", "alloc", "gc", "gcsec", "format", "prewrite"}
               PROVE  /\ Roomed
                      /\ resets = MaxResets /\ pc = "prewrite" /\ mv.dst \in Tidy =>
                             Len(node[mv.dst]) + 1 < Cap
  BY DEF Roomed
<1>3. \A k : Live(k) \cup Old(k) \subseteq Copies(k)
  BY <1>2 DEF Live, Old, Copies
<1>4. \A k \in Keys : Whole(k)
  BY DEF KeepInv, Spoilt, KeyInv, Scars, Scar, Copied
<1>5. pc = "malloc" => mv.src \in Old(mv.key) /\ mv.key \in Keys /\ mv.src # None
  <2>1. pc = "malloc" => mv.src # None /\ mv.key \in Keys
    BY <1>1 DEF StoreInv, AtHand, Control, RamType, Moving
  <2> QED
    BY <1>1, <2>1, SourcedIs DEF Sourced, StoreInv, AtHand, Moving, Old
<1>6. pc = "prewrite" => mv.key \in Keys
  BY <1>1 DEF StoreInv, Control, RamType, Moving, Writes
<1>7. \A j \in Keys \ damaged : /\ \A a, b \in Live(j) : a = b
                                /\ mv.key = j /\ pc \in {"malloc", "prewrite"} /\ ~recov => Live(j) = {}
  BY DEF KeepInv, Spoilt, KeyInv, One, Replaced, Writes
<1>8. CASE \A k \in damaged : \A a, b \in Copies(k) : a = b
  <2>1. Single
    BY <1>3, <1>4, <1>7, <1>8 DEF Single
  <2>2. pc \in {"malloc", "prewrite"} /\ ~recov => Live(mv.key) = {}
    <3>1. CASE mv.key \notin damaged
      BY <1>5, <1>6, <1>7, <3>1
    <3>2. CASE mv.key \in damaged /\ mv.src \in Old(mv.key)
      <4>1. \A a \in Live(mv.key) : a = mv.src
        BY <1>3, <1>8, <3>2
      <4> QED
        BY <3>2, <4>1 DEF Live, Old
    <3>3. CASE mv.key \in damaged /\ pc = "prewrite" /\ mv.src \notin Old(mv.key)
      BY <3>3 DEF Scars, Scar, Handed, Writes
    <3> QED
      BY <1>5, <3>1, <3>2, <3>3
  <2> QED
    BY <1>1, <1>5, <2>1, <2>2, RoomedSingle
<1>9. ASSUME NEW k \in damaged, NEW x \in Copies(k), NEW y \in Copies(k), x # y
      PROVE  Roomed /\ resets # MaxResets
  <2>1. resets # MaxResets /\ Scar(k) /\ k \in Keys /\ \A j \in Keys \ {k} : j \notin damaged
    BY <1>1 DEF Scars, Drafts
  <2>2. ~recov /\ pc # "down" /\ Hurt
    BY <1>2, <1>9, <2>1 DEF Scar, Copied, Hurt
  <2>3. \A a, b, c \in Copies(k) : a = b \/ a = c \/ b = c
    BY <2>1 DEF Scar, Copied
  <2>4. \A a, b, c \in Live(k) : a = b \/ a = c \/ b = c
    BY <1>3, <2>3
  <2>5. \A j \in Keys \ {k} : \A a, b \in Live(j) : a = b
    BY <1>7, <2>1
  <2>6. ASSUME NEW s \in Sectors, Fits(s), Len(node[s]) < Cap, pc # "prewrite" PROVE s \in Ready
    BY <1>1, <2>6, SectorIs, CapPositive DEF Fits, StoreInv
  <2>7. ASSUME pc = "malloc", gc.ret # "none", NEW s \in Sectors, sec[s].dirty # "gc",
               Dead(s) = {}, Fits(s)
        PROVE  s \in Ready
    <3>1. mv.src[1] # s
      BY <1>1, <2>7 DEF StoreInv, Collected, Moving
    <3>2. PICK m \in Keys : m = mv.key
      BY <1>5, <2>7
    <3>3. CASE m = k
      <4>1. \A a, b \in Live(k) : a[1] = s /\ b[1] = s => a = b
        BY <1>3, <1>5, <2>3, <2>7, <3>1, <3>2, <3>3
      <4>2. Len(node[s]) < Cap
        BY <1>1, <1>4, <2>1, <2>4, <2>5, <2>7, <3>3, <4>1, Spare
      <4> QED
        BY <2>6, <2>7, <4>2
    <3>4. CASE m # k
      <4>1. Live(m) = {}
        BY <1>7, <2>1, <2>2, <2>7, <3>2, <3>4
      <4>2. Len(node[s]) < Cap
        BY <1>1, <1>4, <2>1, <2>4, <2>5, <2>7, <3>4, <4>1, Spare
      <4> QED
        BY <2>6, <2>7, <4>2
    <3> QED
      BY <3>3, <3>4
  <2>8. ASSUME pc = "malloc", gc.ret # "none", IF gcReq THEN Good ELSE Ample PROVE Roomy # {}
    <3>1. Roomy = IF gcReq THEN Ready \cap Tidy ELSE Ready
      BY <1>1, AllocIs DEF StoreInv
    <3>2. CASE gcReq
      <4>1. PICK s \in Tidy : Dead(s) = {}
        BY <2>2, <2>8, <3>2 DEF Good, Spacious
      <4>2. s \in Sectors /\ sec[s].dirty # "gc" /\ Fits(s)
        BY <1>1 DEF Tidy, Shape
      <4> QED
        BY <2>7, <2>8, <3>1, <3>2, <4>1, <4>2
    <3>3. CASE ~gcReq
      <4>1. PICK s \in Sectors : Usable(s) /\ Dead(s) = {}
        BY <2>2, <2>8, <3>3 DEF Ample
      <4> QED
        BY <2>7, <2>8, <3>1, <3>3, <4>1 DEF Usable
    <3> QED
      BY <3>2, <3>3
  <2>9. ASSUME pc = "again", NEW s \in Tidy, NEW t \in Tidy, s # t, Dead(s) = {} PROVE Ready # {}
    <3>1. s \in Sectors /\ t \in Sectors /\ Fits(s) /\ Fits(t)
      BY <1>1, <2>9 DEF Tidy, Shape
    <3>2. CASE t \in Ready
      BY <3>2
    <3>3. CASE t \notin Ready
      <4>1. Len(node[t]) = Cap
        BY <2>9, <3>1, <3>3 DEF Fits
      <4>2. \A a, b \in Dead(t) : a = b
        BY <1>1, <2>9 DEF Dead, Stale, DeadSlots, Shape
      <4>3. PICK m \in Keys : \E p \in Live(m) : p[1] = t
        BY <1>1, <1>4, <2>1, <2>9, <3>1, <4>1, <4>2, Inhabited
      <4>4. PICK p \in Live(m) : p[1] = t
        BY <4>3
      <4>5. IF m = k THEN \A a, b \in Live(k) : a[1] = s /\ b[1] = s => a = b
            ELSE \A a \in Live(m) : a[1] # s
        <5>1. CASE m = k
          BY <2>4, <2>9, <4>4, <5>1
        <5>2. CASE m # k
          BY <2>5, <2>9, <4>4, <5>2
        <5> QED
          BY <5>1, <5>2
      <4>6. Len(node[s]) < Cap
        BY <1>1, <1>4, <2>1, <2>4, <2>5, <2>9, <3>1, <4>5, Spare
      <4> QED
        BY <2>6, <2>9, <3>1, <4>6
    <3> QED
      BY <3>2, <3>3
  <2>10. ASSUME pc = "again", Pile PROVE Ready # {}
    <3>1. PICK s \in Tidy, t \in Tidy : s # t
      BY <2>10 DEF Pile
    <3>2. Dead(s) = {} \/ Dead(t) = {}
      <4>1. ASSUME NEW a \in Dead(s), NEW b \in Dead(t) PROVE FALSE
        <5>1. a \in Stale /\ b \in Stale /\ a[1] = s /\ b[1] = t
          BY <2>10, <4>1 DEF Stale, Dead
        <5> QED
          BY <1>1, <3>1, <5>1 DEF Shape
      <4> QED
        BY <4>1
    <3> QED
      BY <2>9, <2>10, <3>1, <3>2
  <2> QED
    BY <2>1, <2>2, <2>8, <2>10 DEF Roomed
<1> QED
  BY <1>8, <1>9

-----------------------------------------------------------------------------
(* How the records of the damaged key come about. *)

\* Before the reset none is damaged.
LEMMA ScarsInit ==
    ASSUME Init
    PROVE  Scars
<1>1. node = [s \in Sectors |-> <<>>] /\ damaged = {}
  BY DEF Init, StoreInit
<1>2. Used = {}
  <2>1. \A s \in Sectors : node[s] = <<>>
    BY <1>1
  <2>2. \A a \in Addrs : a[1] \in Sectors /\ a[2] >= 1 /\ a[2] \in Nat
    BY CapPositive DEF Addrs
  <2>3. Len(<<>>) = 0
    BY LenProperties, EmptySeq
  <2> QED
    BY <2>1, <2>2, <2>3 DEF Used
<1> QED
  BY <1>1, <1>2 DEF Scars, Drafts

\* A caller that takes the lock leaves the records alone.
LEMMA ScarsIdle ==
    ASSUME Scars, UNCHANGED <<node, cache, recov, mv, gc, damaged, resets>>,
           pc' = pc \/ (pc = "idle" /\ pc' = "alloc")
    PROVE  Scars'
<1>1. UNCHANGED <<Used, Dst>> /\ \A a : At(a)' = At(a)
  BY DEF Used, At, Dst
<1>2. \A a : Unfinish(a)' = Unfinish(a)
  BY <1>1 DEF Unfinish
<1>3. \A k : /\ Live(k)' = Live(k) /\ Old(k)' = Old(k) /\ Rest(k)' = Rest(k)
             /\ Copies(k)' = Copies(k) /\ Whole(k)' = Whole(k)
  BY <1>1, <1>2 DEF Live, Old, Rest, Copies, Whole
<1>4. ASSUME NEW k, Scar(k) PROVE Scar(k)'
  <2>1. Copied(k)' /\ Recalled(k)'
    BY <1>1, <1>3, <1>4 DEF Scar, Copied, Recalled, Making
  <2>2. Handed(k)' /\ Swept(k)'
    BY <1>3, <1>4 DEF Scar, Handed, Swept, Moving, Writes
  <2> QED
    BY <2>1, <2>2 DEF Scar
<1>5. ASSUME NEW k, Sole(k) PROVE Sole(k)'
  BY <1>3, <1>5 DEF Sole
<1>6. Drafts'
  BY <1>1, <1>2 DEF Scars, Drafts
<1> QED
  BY <1>4, <1>5, <1>6 DEF Scars

\* A reset damages the key at hand at most: its new record was unfinished, and
\* the one it was to replace is left.
LEMMA ScarsReset ==
    ASSUME KeepInv, torn = {}, KeepInv', Scars, Reset, resets = MaxResets
    PROVE  Scars'
<1>1. /\ pc # "down" /\ pc' = "down" /\ mv' = NoMove /\ recov' = FALSE /\ gc' = NoGc
      /\ cache' = [k \in Keys |-> None]
      /\ node' = [s \in Sectors |-> [i \in DOMAIN node[s] |->
                     IF node[s][i].data = "none" THEN Junk ELSE node[s][i]]]
  BY DEF Reset, StoreReset
<1>2. /\ damaged' = Endangered /\ damaged = {} /\ ~recov
      /\ resets' \in 0 .. MaxResets /\ resets' # MaxResets
      /\ \A a \in Used : At(a).st = "prewrite" => Unfinish(a)
  BY SettingsAssumption DEF Reset, KeepInv, Clean, Scars, Drafts
<1>3. /\ StoreInv /\ StoreInv' /\ Traces /\ \A k \in Keys : KeyInv(k)
  BY <1>2 DEF KeepInv, Spoilt, CallersInv
<1>4. ASSUME NEW s \in Sectors PROVE Len(node'[s]) = Len(node[s])
  <2>1. node[s] \in Seq(Records) /\ node'[s] \in Seq(Records)
    BY <1>3 DEF StoreInv, FlashType
  <2>2. /\ Len(node[s]) \in Nat /\ DOMAIN node[s] = 1 .. Len(node[s])
        /\ Len(node'[s]) \in Nat /\ DOMAIN node'[s] = 1 .. Len(node'[s])
    BY <2>1, LenProperties
  <2>3. DOMAIN node'[s] = 1 .. Len(node[s])
    BY <1>1, <2>2
  <2> QED
    BY <2>2, <2>3
<1>5. Used' = Used
  BY <1>4 DEF Used, Addrs
<1>6. \A b \in Used : At(b)' = IF At(b).data = "none" THEN Junk ELSE At(b)
  BY <1>1, <1>3, UsedIn DEF At, StoreInv
<1>7. ASSUME NEW k \in Keys
      PROVE  /\ Live(k)' = Live(k) /\ Old(k)' = Old(k) /\ Whole(k)'
             /\ \A c \in Copies(k)' : c \in Live(k) \cup Old(k)
  <2>1. \A b : (b \in Live(k))' <=> b \in Live(k)
    BY <1>5, <1>6 DEF Live, Junk
  <2>2. \A b : (b \in Old(k))' <=> b \in Old(k)
    BY <1>5, <1>6 DEF Old, Junk
  <2>3. Whole(k)'
    BY <1>3, <1>5, <1>6 DEF KeyInv, Whole, Junk
  <2>4. \A c \in Copies(k)' : c \in Live(k) \cup Old(k)
    BY <1>1, <1>5, <1>6 DEF Copies, Unfinish, Live, Old, Junk
  <2> QED
    BY <2>1, <2>2, <2>3, <2>4
<1>8. ASSUME NEW k \in Endangered
      PROVE  k \in Keys /\ mv.key = k /\ Live(k) = {} /\ \A b \in Old(k) : b = mv.src
  <2>1. k \in Keys /\ mv.key = k
    BY <1>2, EndangeredIs DEF Endangered
  <2>2. PICK a \in Visited : At(a).st = "prewrite"
    BY DEF Endangered
  <2>3. pc \in {"head", "body", "write"}
    BY <1>2, <1>3, <2>2, VisitedIs DEF StoreInv, Unfinish
  <2>4. Live(k) = {} /\ Rest(k) = {}
    BY <1>1, <1>2, <1>3, <2>1, <2>3 DEF KeyInv, Replaced, One, Writes
  <2> QED
    BY <2>1, <2>4 DEF Rest
<1>9. ASSUME NEW k \in Endangered PROVE Scar(k)'
  <2>1. PICK c : c = mv.src
    OBVIOUS
  <2>2. \A a \in Copies(k)' : a = c
    BY <1>7, <1>8, <2>1
  <2>3. \A a \in Rest(k)' : a = c
    BY <1>7, <1>8, <2>1 DEF Rest
  <2>4. Copied(k)'
    BY <1>7, <1>8, <2>2, <2>3 DEF Copied
  <2>5. k \in Keys /\ mv'.key # k
    BY <1>1, <1>8, StoreAssumption DEF NoMove
  <2>6. Recalled(k)' /\ Handed(k)' /\ Swept(k)'
    BY <1>1, <2>5 DEF Recalled, Handed, Swept, NoGc
  <2> QED
    BY <2>4, <2>6 DEF Scar
<1>10. ASSUME Endangered # {}, NEW k \in Keys \ Endangered PROVE Sole(k)'
  <2>1. mv.key # k
    BY <1>8, <1>10
  <2>2. Rest(k) = {}
    BY <1>1, <1>2, <1>3 DEF KeyInv, One
  <2>3. Old(k) = {}
    BY <1>3, <2>1, <2>2, Other
  <2> QED
    BY <1>7, <2>3 DEF Sole, Rest
<1>11. Drafts'
  BY <1>2 DEF Drafts
<1> QED
  BY <1>2, <1>8, <1>9, <1>10, <1>11 DEF Scars

-----------------------------------------------------------------------------
(* There is room. *)

\* There has been no second reset, and no task has changed a string that the store
\* was setting.
Untroubled == torn = {} /\ FirstReset

RoomKept == KeepInv /\ torn = {} /\ RoomInv /\ Scars /\ pc # "full"

\* There is room, and the steps have what they need.
LEMMA RoomAll ==
    ASSUME RoomKept
    PROVE  HasRoom /\ Whence
<1>1. StoreInv /\ Traces /\ Sourced /\ Roomed
  BY RoomedIs, SourcedIs DEF RoomKept, KeepInv, CallersInv
<1> QED
  BY <1>1, RoomIs DEF RoomKept, HasRoom, Whence

\* A task calls ef_set_env_blob.
LEMMA SetKeyRoom ==
    ASSUME RoomKept, NEW t \in Tasks, SetKey(t)
    PROVE  RoomInv' /\ Scars' /\ pc' # "full"
<1>1. PICK c : c = Order[at[t]]
  OBVIOUS
<1>2. (\E v : SetReq(c, v)) /\ UNCHANGED <<damaged, resets>>
  BY <1>1 DEF SetKey, bounds
<1>3. /\ pc = "idle" /\ pc' = "alloc" /\ UNCHANGED <<node, cache, recov, mv, gc>>
      /\ UNCHANGED <<damaged, resets>>
  BY <1>2 DEF SetReq, flash, ram
<1>4. UNCHANGED Used /\ \A a : At(a)' = At(a)
  BY <1>3 DEF Used, At
<1>5. \A k : Copies(k)' = Copies(k) /\ Old(k)' = Old(k) /\ Rest(k)' = Rest(k)
  BY <1>3, <1>4 DEF Copies, Old, Rest, Unfinish
<1>6. /\ Hurt' => Hurt
      /\ ~recov
  BY <1>3, <1>5 DEF Hurt, RoomKept, KeepInv, CallersInv, StoreInv, Control, Resting
<1>7. Whither
  BY <1>3, <1>6 DEF Whither
<1>8. RoomInv'
  BY <1>2, <1>7, RoomAll, SetReqRoom DEF RoomKept
<1>9. Scars'
  BY <1>3, ScarsIdle DEF RoomKept
<1> QED
  BY <1>3, <1>8, <1>9

\* The store makes a step.
LEMMA StoreRoom ==
    ASSUME NSec >= 3, RoomKept, StoreStep, UNCHANGED <<damaged, resets>>
    PROVE  RoomInv' /\ Scars' /\ pc' # "full"
<1>1. /\ HasRoom /\ Whence /\ StoreInv /\ Sourced /\ Roomed
  BY RoomAll DEF Whence
<1>2. Whither /\ Scars'
  BY <1>1, WhitherIs, ScarsStep DEF RoomKept
<1>3. RoomInv'
  BY <1>1, <1>2, StoreStepRoom DEF RoomKept
<1>4. pc' # "full"
  BY <1>1, NeverFull DEF RoomKept
<1> QED
  BY <1>2, <1>3, <1>4

\* Every step.
LEMMA RoomStep ==
    ASSUME NSec >= 3, RoomKept, Untroubled', [Next]_vars
    PROVE  RoomKept'
<1>1. HasRoom /\ KeepInv' /\ torn' = {}
  BY RoomAll, KeepStep DEF RoomKept, Untroubled
<1>2. CASE (\E t \in Tasks : Copy(t) \/ Save(t)) \/ Load \/ UNCHANGED vars
  <2>1. UNCHANGED <<storeVars, damaged, resets>>
    BY <1>1, <1>2 DEF Copy, Save, Change, Load, vars, bounds
  <2>2. UNCHANGED <<node, cache, recov, pc, mv, gc>>
    BY <2>1 DEF storeVars, flash, ram
  <2>3. RoomInv'
    BY <2>1, RoomStutter DEF RoomKept
  <2>4. Scars'
    BY <2>1, <2>2, ScarsIdle DEF RoomKept
  <2> QED
    BY <1>1, <2>2, <2>3, <2>4 DEF RoomKept
<1>3. CASE \E t \in Tasks : SetKey(t)
  BY <1>1, <1>3, SetKeyRoom DEF RoomKept
<1>4. CASE Store
  BY <1>1, <1>4, StoreRoom DEF RoomKept, Store, bounds
<1>5. CASE Reset
  <2>1. resets = MaxResets
    <3>1. resets' = resets - 1 /\ resets \in 0 .. MaxResets /\ MaxResets - resets' <= 1
      BY <1>5 DEF Reset, RoomKept, KeepInv, Clean, Untroubled, FirstReset
    <3> QED
      BY <3>1, SettingsAssumption
  <2>2. RoomInv'
    BY <1>1, <1>5, <2>1, RoomedIs, ResetRoom DEF RoomKept
  <2>3. Scars'
    BY <1>1, <1>5, <2>1, ScarsReset DEF RoomKept
  <2>4. pc' = "down"
    BY <1>5 DEF Reset, StoreReset
  <2> QED
    BY <1>1, <2>2, <2>3, <2>4 DEF RoomKept
<1> QED
  BY <1>2, <1>3, <1>4, <1>5 DEF Next

\* What has troubled the store is not forgotten.
LEMMA UntroubledStep ==
    ASSUME resets \in 0 .. MaxResets, [Next]_vars
    PROVE  resets' \in 0 .. MaxResets /\ (Untroubled' => Untroubled)
<1>1. CASE Reset
  BY <1>1, SettingsAssumption DEF Reset, Untroubled, FirstReset
<1>2. CASE ~Reset
  <2>1. UNCHANGED resets /\ torn \subseteq torn'
    BY <1>2 DEF Next, Copy, Save, Change, SetKey, Store, Load, vars, bounds
  <2> QED
    BY <2>1 DEF Untroubled, FirstReset
<1> QED
  BY <1>1, <1>2

\* As long as it holds, all of this does.
LEMMA RoomAlways == NSec >= 3 => (Spec => [](Untroubled => RoomKept))
<1> SUFFICES ASSUME NSec >= 3
             PROVE  Spec => [](Untroubled => RoomKept)
  OBVIOUS
<1> DEFINE Inv == resets \in 0 .. MaxResets /\ (Untroubled => RoomKept)
<1>1. Init => Inv
  <2> SUFFICES ASSUME Init PROVE Inv
    OBVIOUS
  <2>1. pc = "idle" /\ torn = {} /\ resets = MaxResets
    BY DEF Init, StoreInit
  <2> QED
    BY <2>1, KeepInit, RoomInit, ScarsInit, SettingsAssumption DEF RoomKept
<1>2. Inv /\ [Next]_vars => Inv'
  <2> SUFFICES ASSUME Inv, [Next]_vars PROVE Inv'
    OBVIOUS
  <2> QED
    BY UntroubledStep, RoomStep
<1>3. Inv => (Untroubled => RoomKept)
  OBVIOUS
<1> QED
  BY <1>1, <1>2, <1>3, PTL DEF Spec

\* Up to the second reset no set fails for want of room, and no collection and no
\* recovery finds none for a record it moves: with three sectors or more (the
\* clock has eight), after any number of saves by any number of tasks, wherever
\* the first reset falls, as long as no task changes a string that the store is
\* setting for another.
THEOREM RoomForAllAlways == NSec >= 3 => (Spec => [](torn = {} => RoomForAll))
<1>1. (Untroubled => RoomKept) => (torn = {} => RoomForAll)
  BY RoomAll DEF Untroubled, FirstReset, RoomForAll
<1> QED
  BY <1>1, RoomAlways, PTL

\* So the store keeps what KeyStore promises, with nothing assumed about room: a
\* set takes effect at once and as a whole before ef_set_env_blob returns, and no
\* collection, reset or recovery changes a value, but for the one key that the
\* reset cut.
THEOREM StoreKeptWithRoom == NSec >= 3 => (Spec /\ []Untroubled => StoreKept)
<1>1. Untroubled => FirstReset
  BY DEF Untroubled
<1>2. (Untroubled => RoomKept) /\ Untroubled => HasRoom
  BY RoomAll
<1> QED
  BY <1>1, <1>2, RoomAlways, StoreKeptAlways, PTL
=============================================================================
