------------------------------ MODULE StoreProofs ------------------------------
(***************************************************************************)
(* Lemmas about EnvStore, for any number of sectors, records to a sector,  *)
(* keys and values: what its operators return, what a write changes, and   *)
(* the invariant of its control, which every step keeps.                   *)
(***************************************************************************)
EXTENDS EnvStore, SequenceTheorems, FiniteSetTheorems, WellFoundedInduction, TLAPS

Statuses == {"prewrite", "write", "predelete", "deleted"}
Records == {r \in [st : Statuses, key : Keys \cup {None}, val : Vals \cup {None},
                   data : {"none", "part", "all"}] :
              r.st # "deleted" => r.key # None}
Headers == [ok : BOOLEAN, store : {"empty", "using", "full"},
            dirty : {"no", "yes", "gc"}, gc : BOOLEAN]

\* Where the store is: at a record, in gc_collect, in ef_load_env, or in none of these.
Writes == {"secst", "prewrite", "head", "body", "write"}
Moving == {"predel", "premark", "malloc"} \cup Writes \cup {"del", "postmark", "after"}
Collecting == {"gc", "gcflag", "gcsec", "gcnode", "erase", "format"}
Loading == {"rgc", "rscan", "rstop"}
Resting == {"idle", "down", "alloc", "again", "full"}

Collections == [at : 0 .. NSec, slot : 0 .. Cap, pair : BOOLEAN,
                ret : {"none", "again", "idle", "rgc", "rscan"}]

Used == {a \in Addrs : a[2] <= Len(node[a[1]])}

FlashType ==
    /\ sec \in [Sectors -> Headers]
    /\ node \in [Sectors -> Seq(Records)]
    /\ \A s \in Sectors : Len(node[s]) <= Cap

RamType ==
    /\ cache \in [Keys -> Addrs \cup {None}]
    /\ gcReq \in BOOLEAN /\ gcFlag \in BOOLEAN /\ recov \in BOOLEAN /\ preDel \in BOOLEAN
    /\ pc \in Moving \cup Collecting \cup Loading \cup Resting
    /\ req \in [key : Keys \cup {None}, val : Vals \cup {None}]
    /\ mv \in [key : Keys \cup {None}, val : Vals \cup {None},
               src : Addrs \cup {None}, dst : 0 .. NSec, crc : BOOLEAN]
    /\ gc \in Collections

\* Only a sector in use has records, or is dirty.
InUse == \A s \in Sectors :
    /\ node[s] # <<>> => sec[s].ok /\ sec[s].store # "empty"
    /\ sec[s].dirty # "no" => sec[s].ok /\ sec[s].store # "empty"

\* Who called whom.
Control ==
    /\ pc \in Moving => mv.key # None
    /\ pc \notin Moving => mv = NoMove
    /\ pc \in Collecting => gc.ret # "none"
    /\ pc \in Loading \cup Resting => gc.ret = "none"
    /\ gc.ret = "none" => gc = NoGc
    /\ gc.ret \in {"again", "idle"} => ~recov
    /\ gc.ret \in {"rgc", "rscan"} => recov
    /\ pc \in Loading => recov
    /\ pc \in Resting => ~recov
    /\ IF recov \/ pc \in {"idle", "down"} THEN req = NoReq
       ELSE req.key # None /\ req.val # None

\* The record at hand ...
AtHand ==
    /\ pc \in Moving /\ Setting => mv.key = req.key /\ mv.val = req.val /\ pc # "malloc"
    /\ pc \in Moving /\ ~Setting => mv.src # None
    /\ pc \in {"predel", "premark", "malloc", "del", "postmark"} => mv.src # None
    /\ pc \in Moving /\ mv.src # None =>
           /\ mv.src \in Used
           /\ pc \notin {"postmark", "after"} => At(mv.src).key = mv.key
           /\ pc \notin {"postmark", "after"} /\ ~Setting => At(mv.src).val = mv.val
    /\ pc \in {"premark", "postmark"} => sec[mv.src[1]].dirty = "no"

\* ... where it goes ...
Target ==
    /\ pc \in {"secst", "prewrite"} \/ (pc \in {"predel", "premark"} /\ Setting) =>
           /\ mv.dst \in Sectors /\ sec[mv.dst].ok
           /\ Len(node[mv.dst]) < Cap
           /\ gc.ret # "none" => mv.dst # gc.at
    /\ pc = "prewrite" => sec[mv.dst].store # "empty"
    /\ pc \in {"head", "body", "write"} =>
           /\ mv.dst \in Sectors /\ Dst \in Used /\ Dst # mv.src
           /\ At(Dst) = [st |-> "prewrite", key |-> mv.key, val |-> mv.val,
                         data |-> CASE pc = "head" -> "none" [] pc = "body" -> "part"
                                    [] pc = "write" -> IF mv.crc THEN "all" ELSE "part"]
           /\ gc.ret # "none" => mv.dst # gc.at

\* ... and the sector that is being collected.
Collected ==
    /\ gc.ret # "none" /\ pc \in Moving \cup {"gcnode", "erase"} =>
           gc.at \in Sectors /\ sec[gc.at].dirty = "gc"
    /\ pc = "format" => gc.at \in Sectors /\ node[gc.at] = <<>>
    /\ gc.ret # "none" /\ pc \in Moving =>
           /\ mv.src[1] = gc.at /\ mv.src[2] = gc.slot
           /\ pc \notin {"premark", "postmark"}

StoreInv == FlashType /\ RamType /\ InUse /\ Control /\ AtHand /\ Target /\ Collected

-----------------------------------------------------------------------------
(* Numbers and addresses. *)

\* A nonempty set of natural numbers has a least element.
LEMMA Least ==
    ASSUME NEW S \in SUBSET Nat, S # {}
    PROVE  Min(S) \in S /\ \A y \in S : Min(S) <= y
<1> DEFINE R == {p \in Nat \X Nat : p[1] < p[2]}
<1>1. IsWellFoundedOn(R, Nat)
  BY NatLessThanWellFounded, Zenon DEF OpToRel
<1> HIDE DEF R
<1>2. \E x \in S : \A y \in S : ~(<<y, x>> \in R)
  BY <1>1, WFMin
<1>3. \A x, y \in Nat : ~(<<y, x>> \in R) => x <= y
  BY DEF R
<1>4. \E x \in S : \A y \in S : x <= y
  BY <1>2, <1>3
<1> QED
  BY <1>4 DEF Min

\* A sector has room for a record.
LEMMA CapPositive == Cap \in Nat /\ Cap >= 1 /\ NSec \in Nat /\ NSec >= 2
BY StoreAssumption, FS_CardinalityType

\* A nonempty set of addresses has a first one ...
LEMMA FirstIn ==
    ASSUME NEW A \in SUBSET Addrs, A # {}
    PROVE  First(A) \in A /\ \A b \in A : b = First(A) \/ Before(First(A), b)
<1>1. A \in SUBSET (Nat \X Nat)
  BY CapPositive DEF Addrs, Sectors
<1> DEFINE S == {a[1] : a \in A}
           m == Min(S)
           T == {a[2] : a \in {b \in A : b[1] = m}}
           n == Min(T)
<1>2. m \in S /\ \A y \in S : m <= y
  <2>1. S \in SUBSET Nat /\ S # {}
    BY <1>1
  <2> QED
    BY <2>1, Least
<1>3. n \in T /\ \A y \in T : n <= y
  <2>1. T \in SUBSET Nat /\ T # {}
    BY <1>1, <1>2
  <2> QED
    BY <2>1, Least
<1>4. PICK a \in A : a[1] = m /\ a[2] = n
  BY <1>3
<1>5. \A b \in A : b = a \/ Before(a, b)
  <2> SUFFICES ASSUME NEW b \in A PROVE b = a \/ Before(a, b)
    OBVIOUS
  <2>1. b[1] \in S /\ (b[1] = m => b[2] \in T)
    OBVIOUS
  <2>2. m <= b[1] /\ (b[1] = m => n <= b[2])
    BY <1>2, <1>3, <2>1
  <2>3. a \in Nat \X Nat /\ b \in Nat \X Nat
    BY <1>1
  <2> HIDE DEF m, n
  <2>4. b = a <=> b[1] = a[1] /\ b[2] = a[2]
    BY <2>3
  <2> QED
    BY <1>4, <2>2, <2>3, <2>4 DEF Before
<1> QED
  BY <1>5 DEF First

\* ... and a last one.
LEMMA LastIn ==
    ASSUME NEW A \in SUBSET Addrs, A # {}
    PROVE  Last(A) \in A
<1>1. \A a \in A : a \in Nat \X Nat /\ NSec - a[1] \in Nat /\ Cap - a[2] \in Nat
  BY CapPositive DEF Addrs, Sectors
<1> DEFINE S == {NSec - a[1] : a \in A}
           m == Min(S)
           T == {Cap - a[2] : a \in {b \in A : NSec - b[1] = m}}
           n == Min(T)
<1>2. m \in S /\ \A y \in S : m <= y
  <2>1. S \in SUBSET Nat /\ S # {}
    BY <1>1
  <2> QED
    BY <2>1, Least
<1>3. n \in T /\ \A y \in T : n <= y
  <2>1. T \in SUBSET Nat /\ T # {}
    BY <1>1, <1>2
  <2> QED
    BY <2>1, Least
<1>4. PICK a \in A : NSec - a[1] = m /\ Cap - a[2] = n
  BY <1>3
<1>5. \A b \in A : b = a \/ Before(b, a)
  <2> SUFFICES ASSUME NEW b \in A PROVE b = a \/ Before(b, a)
    OBVIOUS
  <2>1. NSec - b[1] \in S /\ (NSec - b[1] = m => Cap - b[2] \in T)
    OBVIOUS
  <2>2. m <= NSec - b[1] /\ (NSec - b[1] = m => n <= Cap - b[2])
    BY <1>2, <1>3, <2>1
  <2>3. a \in Nat \X Nat /\ b \in Nat \X Nat
    BY <1>1
  <2> HIDE DEF m, n
  <2>4. b = a <=> b[1] = a[1] /\ b[2] = a[2]
    BY <2>3
  <2> QED
    BY <1>4, <2>2, <2>3, <2>4, CapPositive DEF Before
<1> QED
  BY <1>5 DEF Last

-----------------------------------------------------------------------------
(* What the code reads. *)

\* Addresses in use hold records.
LEMMA UsedIn ==
    ASSUME FlashType, NEW a \in Used
    PROVE  /\ a \in Addrs /\ a[1] \in Sectors /\ a[2] \in 1 .. Cap
           /\ a[2] \in DOMAIN node[a[1]] /\ DOMAIN node[a[1]] = 1 .. Len(node[a[1]])
           /\ At(a) \in Records /\ node[a[1]] # <<>>
<1>1. a \in Addrs /\ a[1] \in Sectors /\ a[2] \in 1 .. Cap /\ a[2] <= Len(node[a[1]])
  BY DEF Used, Addrs
<1>2. node[a[1]] \in Seq(Records)
  BY <1>1 DEF FlashType
<1>3. a[2] \in 1 .. Len(node[a[1]])
  BY <1>1, <1>2, LenProperties, CapPositive
<1> QED
  BY <1>1, <1>2, <1>3, ElementOfSeq, LenProperties, EmptySeq DEF At

\* env_iterator comes by every record that has its magic word.
LEMMA VisitedIs ==
    ASSUME FlashType, InUse
    PROVE  Visited = {a \in Used : At(a).data # "none"}
<1>1. ASSUME NEW a \in Visited PROVE a \in Used /\ At(a).data # "none"
  <2>1. PICK s \in Sectors : a \in {s} \X DOMAIN node[s]
    BY <1>1 DEF Visited
  <2>2. a[1] = s /\ a[2] \in DOMAIN node[s] /\ a = <<a[1], a[2]>>
    BY <2>1
  <2>3. node[s] \in Seq(Records) /\ Len(node[s]) <= Cap
    BY DEF FlashType
  <2>4. a[2] \in 1 .. Len(node[s]) /\ Len(node[s]) \in Nat
    BY <2>2, <2>3, LenProperties
  <2>5. a[2] \in 1 .. Cap
    BY <2>3, <2>4, CapPositive
  <2> QED
    BY <1>1, <2>2, <2>4, <2>5 DEF Visited, Used, Addrs
<1>2. ASSUME NEW a \in Used, At(a).data # "none" PROVE a \in Visited
  <2>1. a[1] \in Sectors /\ a[2] \in DOMAIN node[a[1]] /\ node[a[1]] # <<>>
    BY <1>2, UsedIn
  <2>2. sec[a[1]].ok /\ sec[a[1]].store # "empty"
    BY <2>1 DEF InUse
  <2>3. a \in {a[1]} \X DOMAIN node[a[1]]
    BY <2>1, <1>2 DEF Used, Addrs
  <2> QED
    BY <1>2, <2>1, <2>2, <2>3 DEF Visited
<1> QED
  BY <1>1, <1>2

\* What is found for a key is one of its records.
LEMMA FindsIn ==
    ASSUME FlashType, RamType, InUse, NEW k \in Keys, NEW a \in Finds(k), a # None
    PROVE  a \in Used /\ At(a).key = k
<1>1. CASE a = FirstLive(k)
  <2>1. Having(k, "write") # {} /\ a = First(Having(k, "write"))
    BY <1>1 DEF FirstLive
  <2>2. Having(k, "write") \subseteq Used
    BY VisitedIs DEF Having
  <2>3. a \in Having(k, "write")
    BY <2>1, <2>2, FirstIn DEF Used
  <2> QED
    BY <2>2, <2>3 DEF Having
<1>2. CASE CacheHit(k) /\ a = cache[k]
  BY <1>2 DEF CacheHit, RamType, Used
<1> QED
  BY <1>1, <1>2 DEF Finds

\* alloc_env returns a sector that has room and is not being collected.
LEMMA AllocIn ==
    ASSUME FlashType, InUse, Alloc # 0
    PROVE  /\ Alloc \in Sectors /\ sec[Alloc].ok /\ Len(node[Alloc]) < Cap
           /\ sec[Alloc].dirty # "gc"
<1>1. Roomy \in SUBSET Nat /\ Empties \in SUBSET Nat
  BY CapPositive DEF Roomy, Empties, Sectors
<1>2. CASE Roomy # {}
  <2>1. Alloc \in Roomy
    BY <1>1, <1>2, Least DEF Alloc
  <2> QED
    BY <2>1 DEF Roomy
<1>3. CASE Roomy = {}
  <2>1. Alloc \in Empties
    BY <1>1, <1>3, Least DEF Alloc
  <2>2. Alloc \in Sectors /\ sec[Alloc].ok /\ sec[Alloc].store = "empty"
    BY <2>1 DEF Empties
  <2>3. node[Alloc] = <<>> /\ sec[Alloc].dirty = "no"
    BY <2>2 DEF InUse, FlashType
  <2> QED
    BY <2>2, <2>3, CapPositive, EmptySeq
<1> QED
  BY <1>2, <1>3

-----------------------------------------------------------------------------
(* What a write changes. *)

\* A record rewritten.
LEMMA WriteEffect ==
    ASSUME FlashType, NEW a \in Used, NEW r \in Records, Write(a, r)
    PROVE  /\ node' \in [Sectors -> Seq(Records)]
           /\ \A s \in Sectors : Len(node'[s]) = Len(node[s]) /\ (node'[s] = <<>> <=> node[s] = <<>>)
           /\ Used' = Used
           /\ At(a)' = r
           /\ \A b \in Used : b # a => At(b)' = At(b)
<1>1. a[1] \in Sectors /\ a[2] \in 1 .. Len(node[a[1]]) /\ node[a[1]] \in Seq(Records)
  BY UsedIn DEF FlashType
<1>2. node' = [node EXCEPT ![a[1]] = [node[a[1]] EXCEPT ![a[2]] = r]]
  BY <1>1 DEF Write, FlashType
<1>3. /\ [node[a[1]] EXCEPT ![a[2]] = r] \in Seq(Records)
      /\ Len([node[a[1]] EXCEPT ![a[2]] = r]) = Len(node[a[1]])
      /\ [node[a[1]] EXCEPT ![a[2]] = r][a[2]] = r
      /\ \A i \in 1 .. Len(node[a[1]]) : i # a[2] =>
             [node[a[1]] EXCEPT ![a[2]] = r][i] = node[a[1]][i]
  BY <1>1, ExceptSeq
<1>4. \A s \in Sectors : node'[s] = IF s = a[1] THEN [node[a[1]] EXCEPT ![a[2]] = r] ELSE node[s]
  BY <1>1, <1>2 DEF FlashType
<1>5. node' \in [Sectors -> Seq(Records)]
  BY <1>2, <1>3 DEF FlashType
<1>6. \A s \in Sectors : Len(node'[s]) = Len(node[s]) /\ (node'[s] = <<>> <=> node[s] = <<>>)
  BY <1>1, <1>3, <1>4, EmptySeq, LenProperties
<1>7. Used' = Used
  BY <1>6 DEF Used, Addrs
<1>8. At(a)' = r
  BY <1>1, <1>3, <1>4 DEF At
<1>9. ASSUME NEW b \in Used, b # a PROVE At(b)' = At(b)
  <2>1. b[1] \in Sectors /\ b[2] \in 1 .. Len(node[b[1]]) /\ a \in Addrs /\ b \in Addrs
    BY UsedIn
  <2>2. CASE b[1] # a[1]
    BY <1>4, <2>1, <2>2 DEF At
  <2>3. CASE b[1] = a[1]
    <3>1. b[2] # a[2]
      BY <1>9, <2>1, <2>3 DEF Addrs
    <3> QED
      BY <1>3, <1>4, <2>1, <2>3, <3>1 DEF At
  <2> QED
    BY <2>2, <2>3
<1> QED
  BY <1>5, <1>6, <1>7, <1>8, <1>9

\* A record appended.
LEMMA AppendEffect ==
    ASSUME FlashType, NEW s \in Sectors, NEW r \in Records, Len(node[s]) < Cap,
           node' = [node EXCEPT ![s] = Append(@, r)],
           NEW e, e = <<s, Len(node[s]) + 1>>
    PROVE  /\ node' \in [Sectors -> Seq(Records)]
           /\ \A t \in Sectors : Len(node'[t]) = IF t = s THEN Len(node[s]) + 1 ELSE Len(node[t])
           /\ \A t \in Sectors : t # s => node'[t] = node[t]
           /\ e \notin Used /\ e \in Addrs /\ Used' = Used \cup {e}
           /\ At(e)' = r
           /\ \A b \in Used : At(b)' = At(b)
<1> DEFINE n == Len(node[s])
           x == Append(node[s], r)
<1>0. e = <<s, n + 1>>
  OBVIOUS
<1>1. node[s] \in Seq(Records) /\ n \in Nat /\ n < Cap
  BY LenProperties DEF FlashType
<1>2. \A t \in Sectors : node'[t] = IF t = s THEN x ELSE node[t]
  BY DEF FlashType
<1>3. /\ x \in Seq(Records) /\ Len(x) = n + 1
      /\ x[n + 1] = r
      /\ \A i \in 1 .. n : x[i] = node[s][i]
  BY <1>1, AppendProperties
<1> HIDE DEF x
<1>4. node' \in [Sectors -> Seq(Records)]
  BY <1>3 DEF FlashType
<1>5. \A t \in Sectors : Len(node'[t]) = IF t = s THEN n + 1 ELSE Len(node[t])
  BY <1>2, <1>3
<1>6. e \in Addrs /\ e \notin Used
  BY <1>0, <1>1, CapPositive DEF Addrs, Used
<1>7. Used' = Used \cup {e}
  <2>1. \A a \in Addrs : a[2] <= Len(node'[a[1]]) <=> a[2] <= Len(node[a[1]]) \/ a = e
    <3> SUFFICES ASSUME NEW a \in Addrs
                 PROVE  a[2] <= Len(node'[a[1]]) <=> a[2] <= Len(node[a[1]]) \/ a = e
      OBVIOUS
    <3>1. a[1] \in Sectors /\ a[2] \in Nat /\ a = <<a[1], a[2]>>
      BY CapPositive DEF Addrs
    <3>2. CASE a[1] # s
      BY <1>5, <3>1, <3>2
    <3>3. CASE a[1] = s
      <4>1. Len(node'[a[1]]) = n + 1 /\ (a = e <=> a[2] = n + 1)
        BY <1>0, <1>5, <3>1, <3>3
      <4> QED
        BY <1>1, <3>1, <3>3, <4>1
    <3> QED
      BY <3>2, <3>3
  <2> QED
    BY <1>6, <2>1 DEF Used, Addrs
<1>8. At(e)' = r
  BY <1>0, <1>2, <1>3 DEF At
<1>9. ASSUME NEW b \in Used PROVE At(b)' = At(b)
  <2>1. b[1] \in Sectors /\ b[2] \in 1 .. Len(node[b[1]])
    BY UsedIn
  <2> QED
    BY <1>2, <1>3, <2>1 DEF At
<1>10. \A t \in Sectors : t # s => node'[t] = node[t]
  BY <1>2
<1> QED
  BY <1>4, <1>5, <1>6, <1>7, <1>8, <1>9, <1>10

-----------------------------------------------------------------------------
(* Every step keeps StoreInv.  First those that write no flash. *)

\* Without a write the flash is as it was.
LEMMA FlashSame ==
    ASSUME StoreInv, UNCHANGED flash
    PROVE  /\ FlashType' /\ InUse' /\ Used' = Used
           /\ \A a : At(a)' = node[a[1]][a[2]]
BY DEF StoreInv, flash, FlashType, InUse, Used, At

\* A collection begins at the first sector.
LEMMA NoGcIn ==
    /\ NoGc \in Collections
    /\ \A r \in {"again", "idle", "rgc", "rscan"} :
           /\ [NoGc EXCEPT !.ret = r] \in Collections
           /\ [NoGc EXCEPT !.ret = r].ret = r
<1>1. 0 \in 0 .. NSec /\ 0 \in 0 .. Cap
  BY CapPositive
<1> QED
  BY <1>1 DEF NoGc, Collections

\* ef_set_env_blob takes the lock.
LEMMA SetReqInv ==
    ASSUME StoreInv, NEW k \in Keys, NEW v \in Vals, SetReq(k, v)
    PROVE  StoreInv'
<1>1. FlashType' /\ InUse'
  BY FlashSame DEF SetReq
<1>2. k # None /\ v # None
  BY StoreAssumption
<1>3. RamType'
  BY DEF SetReq, ram, StoreInv, RamType, Resting
<1>4. Control'
  BY <1>2 DEF SetReq, ram, StoreInv, Control, Moving, Writes, Collecting, Loading, Resting
<1>5. AtHand' /\ Target' /\ Collected'
  BY <1>4 DEF SetReq, ram, StoreInv, Control, AtHand, Target, Collected, Setting, Moving, Writes,
     Resting, NoGc
<1> QED
  BY <1>1, <1>3, <1>4, <1>5 DEF StoreInv

\* The value changes before it is written.
LEMMA ValueChangesInv ==
    ASSUME StoreInv, ValueChanges
    PROVE  StoreInv'
<1>1. /\ FlashType' /\ InUse' /\ Used' = Used /\ UNCHANGED <<sec, node, ram, pc, gc, pos>>
  BY FlashSame DEF ValueChanges, flash
<1>2. \/ /\ pc \in {"alloc", "again"} \/ gc.ret = "again"
         /\ \E v \in Vals : req' = [req EXCEPT !.val = v]
         /\ UNCHANGED mv
      \/ /\ Setting /\ pc \in {"predel", "premark", "secst", "prewrite"}
         /\ \E v \in Vals : req' = [req EXCEPT !.val = v] /\ mv' = [mv EXCEPT !.val = v]
      \/ /\ Setting /\ pc \in {"prewrite", "head", "body"}
         /\ mv' = [mv EXCEPT !.crc = FALSE]
         /\ UNCHANGED req
  BY DEF ValueChanges
<1>3. UNCHANGED Setting /\ Dst = <<mv.dst, Len(node[mv.dst])>>
  BY <1>1 DEF Setting, ram, Dst
<1>4. /\ mv' \in [key : Keys \cup {None}, val : Vals \cup {None},
                  src : Addrs \cup {None}, dst : 0 .. NSec, crc : BOOLEAN]
      /\ req' \in [key : Keys \cup {None}, val : Vals \cup {None}]
      /\ mv'.key = mv.key /\ mv'.src = mv.src /\ mv'.dst = mv.dst /\ req'.key = req.key
      /\ req.val # None => req'.val # None
  <2>1. /\ mv \in [key : Keys \cup {None}, val : Vals \cup {None},
                   src : Addrs \cup {None}, dst : 0 .. NSec, crc : BOOLEAN]
        /\ req \in [key : Keys \cup {None}, val : Vals \cup {None}]
    BY DEF StoreInv, RamType
  <2>2. \/ mv' = mv
        \/ \E v \in Vals : mv' = [mv EXCEPT !.val = v]
        \/ mv' = [mv EXCEPT !.crc = FALSE]
    BY <1>2
  <2>3. \/ req' = req
        \/ \E v \in Vals : req' = [req EXCEPT !.val = v]
    BY <1>2
  <2>4. /\ mv' \in [key : Keys \cup {None}, val : Vals \cup {None},
                    src : Addrs \cup {None}, dst : 0 .. NSec, crc : BOOLEAN]
        /\ mv'.key = mv.key /\ mv'.src = mv.src /\ mv'.dst = mv.dst
    BY <2>1, <2>2
  <2>5. /\ req' \in [key : Keys \cup {None}, val : Vals \cup {None}]
        /\ req'.key = req.key
        /\ req.val # None => req'.val # None
    BY <2>1, <2>3, StoreAssumption
  <2> QED
    BY <2>4, <2>5
<1>5. RamType'
  BY <1>1, <1>4 DEF StoreInv, RamType, ram
<1>6. ~recov /\ pc \notin {"idle", "down"} /\ req.key # None /\ req.val # None
  BY <1>2 DEF StoreInv, Control, Setting, Moving, Writes, Collecting, Loading, Resting
<1>7. pc \notin Moving => mv' = mv
  BY <1>2 DEF Moving, Writes
<1>8. Control'
  BY <1>1, <1>4, <1>6, <1>7 DEF StoreInv, Control, ram, NoReq
<1>9. /\ pc \in Moving /\ Setting => mv'.val = req'.val
      /\ pc \in Moving /\ ~Setting => mv' = mv
      /\ pc \in {"head", "body", "write"} => mv'.val = mv.val
      /\ pc = "write" => mv' = mv
  <2>1. pc \in Moving /\ Setting => mv.val = req.val
    BY DEF StoreInv, AtHand
  <2>2. gc.ret = "again" \/ pc \in {"alloc", "again"} => ~(pc \in Moving /\ Setting)
    BY DEF Setting, Moving, Writes
  <2> QED
    BY <1>2, <2>1, <2>2 DEF StoreInv, RamType
<1>10. AtHand'
  BY <1>1, <1>3, <1>4, <1>9 DEF StoreInv, AtHand, At
<1>11. Target'
  <2>1. Dst' = Dst
    BY <1>1, <1>3, <1>4 DEF Dst
  <2> QED
    BY <1>1, <1>3, <1>4, <1>9, <2>1 DEF StoreInv, Target, At
<1>12. Collected'
  BY <1>1, <1>4 DEF StoreInv, Collected
<1> QED
  BY <1>1, <1>5, <1>8, <1>10, <1>11, <1>12 DEF StoreInv

\* new_env and find_env.
LEMMA SetAllocInv ==
    ASSUME StoreInv, SetAlloc
    PROVE  StoreInv'
<1>1. /\ FlashType' /\ InUse' /\ Used' = Used /\ UNCHANGED <<sec, node>>
      /\ UNCHANGED <<gcFlag, recov, preDel, req, pos>>
  BY FlashSame DEF SetAlloc, flash
<1>2. /\ pc \in {"alloc", "again"} /\ gc = NoGc /\ mv = NoMove /\ ~recov
      /\ req.key \in Keys /\ req.val \in Vals
  BY DEF SetAlloc, StoreInv, Control, RamType, Resting, Moving, Writes
<1>3. CASE Alloc # 0
  <2>1. PICK a \in Finds(req.key) :
           /\ mv' = [key |-> req.key, val |-> req.val, src |-> a, dst |-> Alloc, crc |-> TRUE]
           /\ pc' = IF a = None THEN "secst" ELSE "predel"
           /\ cache' = [cache EXCEPT ![req.key] = a]
           /\ UNCHANGED <<gcReq, gc>>
    BY <1>3 DEF SetAlloc
  <2>2. a # None => a \in Used /\ a \in Addrs /\ At(a).key = req.key
    BY <1>2, FindsIn DEF StoreInv, Used
  <2>3. Alloc \in Sectors /\ sec[Alloc].ok /\ Len(node[Alloc]) < Cap
    BY <1>3, AllocIn DEF StoreInv
  <2>4. Alloc \in 0 .. NSec
    BY <2>3, CapPositive DEF Sectors
  <2> HIDE DEF Alloc
  <2>5. RamType'
    <3>1. cache' \in [Keys -> Addrs \cup {None}]
      BY <1>2, <2>1, <2>2 DEF StoreInv, RamType
    <3>2. mv' \in [key : Keys \cup {None}, val : Vals \cup {None},
                   src : Addrs \cup {None}, dst : 0 .. NSec, crc : BOOLEAN]
      BY <1>2, <2>1, <2>2, <2>4
    <3> QED
      BY <1>1, <2>1, <3>1, <3>2 DEF StoreInv, RamType, Moving, Writes
  <2>6. Control'
    BY <1>1, <1>2, <2>1, StoreAssumption
    DEF StoreInv, Control, Moving, Writes, Collecting, Loading, Resting, NoGc
  <2>7. AtHand'
    BY <1>1, <1>2, <2>1, <2>2 DEF AtHand, Setting, Moving, Writes, NoGc, At
  <2>8. Target' /\ Collected'
    BY <1>1, <1>2, <2>1, <2>3 DEF Target, Collected, Setting, Moving, Writes, NoGc
  <2> QED
    BY <1>1, <2>5, <2>6, <2>7, <2>8 DEF StoreInv
<1>4. CASE Alloc = 0
  <2>1. /\ gcReq' = (pc = "alloc" /\ (gcReq \/ AllocAsksGc))
        /\ IF gcReq' THEN CallGc("again") ELSE pc' = "full" /\ UNCHANGED <<mv, gc>>
        /\ UNCHANGED cache
    BY <1>4 DEF SetAlloc
  <2>2. mv' = NoMove /\ gcReq' \in BOOLEAN
    BY <1>2, <2>1 DEF CallGc, StoreInv, RamType, AllocAsksGc
  <2>3. \/ pc' = "gc" /\ gc' = [NoGc EXCEPT !.ret = "again"]
        \/ pc' = "full" /\ gc' = NoGc
    BY <1>2, <2>1 DEF CallGc
  <2>4. RamType'
    <3>1. gc' \in Collections
      BY <2>3, NoGcIn
    <3>2. mv' = mv
      BY <1>2, <2>2
    <3> QED
      BY <1>1, <2>1, <2>2, <2>3, <3>1, <3>2 DEF StoreInv, RamType, Collecting, Resting
  <2>5. Control'
    BY <1>1, <1>2, <2>2, <2>3, StoreAssumption
    DEF StoreInv, Control, Moving, Writes, Collecting, Loading, Resting, NoGc
  <2>6. AtHand' /\ Target' /\ Collected'
    BY <2>3 DEF AtHand, Target, Collected, Setting, Moving, Writes, NoGc
  <2> QED
    BY <1>1, <2>4, <2>5, <2>6 DEF StoreInv
<1> QED
  BY <1>3, <1>4

\* A call of gc_collect.
LEMMA CallGcInv ==
    ASSUME StoreInv, NEW r \in {"again", "idle", "rgc", "rscan"}, CallGc(r),
           UNCHANGED <<cache, recov, preDel, req>>,
           gcReq' \in BOOLEAN, gcFlag' \in BOOLEAN,
           r \in {"again", "idle"} <=> ~recov, pc \notin {"idle", "down"}
    PROVE  RamType' /\ Control' /\ AtHand' /\ Target' /\ Collected'
<1>1. pc' = "gc" /\ gc' \in Collections /\ gc'.ret = r /\ mv' = NoMove
  BY NoGcIn DEF CallGc
<1>2. mv' \in [key : Keys \cup {None}, val : Vals \cup {None},
               src : Addrs \cup {None}, dst : 0 .. NSec, crc : BOOLEAN]
  BY <1>1, CapPositive DEF NoMove
<1>3. RamType'
  BY <1>1, <1>2 DEF StoreInv, RamType, Collecting
<1>4. Control'
  BY <1>1 DEF StoreInv, Control, Moving, Writes, Collecting, Loading, Resting
<1> QED
  BY <1>1, <1>3, <1>4 DEF AtHand, Target, Collected, Setting, Moving, Writes

\* gc_collect returns.
LEMMA GcReturnInv ==
    ASSUME StoreInv, pc \in Collecting, GcReturn, UNCHANGED <<cache, gcFlag, recov, preDel>>
    PROVE  RamType' /\ Control' /\ AtHand' /\ Target' /\ Collected'
<1>1. gc.ret \in {"again", "idle", "rgc", "rscan"}
  BY DEF StoreInv, Control, RamType, Collections
<1>2. pc' = gc.ret /\ gc' = NoGc /\ mv' = NoMove /\ gcReq' = FALSE
      /\ req' = IF gc.ret = "idle" THEN NoReq ELSE req
  BY DEF GcReturn
<1>3. mv' \in [key : Keys \cup {None}, val : Vals \cup {None},
               src : Addrs \cup {None}, dst : 0 .. NSec, crc : BOOLEAN]
      /\ NoReq \in [key : Keys \cup {None}, val : Vals \cup {None}]
  BY <1>2, CapPositive DEF NoMove, NoReq
<1>4. RamType'
  BY <1>1, <1>2, <1>3, NoGcIn DEF StoreInv, RamType, Loading, Resting
<1>5. Control'
  BY <1>1, <1>2
  DEF StoreInv, Control, Moving, Writes, Collecting, Loading, Resting, NoGc
<1> QED
  BY <1>1, <1>2, <1>4, <1>5 DEF AtHand, Target, Collected, Setting, Moving, Writes, NoGc

\* The end of a set or a move.
LEMMA AfterInv ==
    ASSUME StoreInv, After
    PROVE  StoreInv'
<1>1. /\ FlashType' /\ InUse' /\ UNCHANGED <<sec, node>>
      /\ UNCHANGED <<cache, gcReq, recov, preDel, pos>> /\ pc = "after"
  BY FlashSame DEF After, flash
<1>2. pc \in Moving /\ pc \notin {"idle", "down"}
  BY <1>1 DEF Moving
<1>3. CASE Setting /\ (gcReq \/ gcFlag')
  <2>1. gcFlag' \in BOOLEAN /\ CallGc("idle") /\ UNCHANGED req
    BY <1>3 DEF After
  <2>2. gcReq' \in BOOLEAN /\ ~recov
    BY <1>1, <1>3 DEF StoreInv, RamType, Setting
  <2> QED
    BY <1>1, <1>2, <2>1, <2>2, CallGcInv DEF StoreInv
<1>4. CASE Setting /\ ~(gcReq \/ gcFlag')
  <2>1. /\ gcFlag' \in BOOLEAN /\ UNCHANGED gc
        /\ pc' = "idle" /\ req' = NoReq /\ mv' = NoMove
    BY <1>4 DEF After, Unlock
  <2>2. gc = NoGc /\ ~recov
    BY <1>2, <1>4 DEF StoreInv, RamType, Setting, Collections, Control
  <2>3. RamType'
    BY <1>1, <2>1, CapPositive DEF StoreInv, RamType, Resting, NoMove, NoReq
  <2>4. Control'
    BY <1>1, <2>1, <2>2
    DEF StoreInv, Control, Moving, Writes, Collecting, Loading, Resting, NoGc
  <2> QED
    BY <1>1, <2>1, <2>3, <2>4
    DEF StoreInv, AtHand, Target, Collected, Setting, Moving, Writes
<1>5. CASE ~Setting
  <2>1. /\ pc' = IF recov /\ gc.ret = "none" THEN "rscan" ELSE "gcnode"
        /\ mv' = NoMove /\ UNCHANGED <<gcFlag, req, gc>>
    BY <1>5 DEF After
  <2>2. RamType'
    BY <1>1, <2>1, CapPositive DEF StoreInv, RamType, Loading, Collecting, NoMove
  <2>3. Control'
    BY <1>1, <1>2, <1>5, <2>1
    DEF StoreInv, Control, Moving, Writes, Collecting, Loading, Resting, Setting
  <2> QED
    BY <1>1, <2>1, <2>2, <2>3
    DEF StoreInv, AtHand, Target, Collected, Setting, Moving, Writes
<1> QED
  BY <1>3, <1>4, <1>5

\* gc_collect begins.
LEMMA GcStartInv ==
    ASSUME StoreInv, GcStart
    PROVE  StoreInv'
<1>1. /\ FlashType' /\ InUse' /\ pc \in Collecting
      /\ UNCHANGED <<sec, node, cache, gcFlag, recov, preDel, pos>>
  BY FlashSame DEF GcStart, flash, Collecting
<1>2. CASE Cardinality(Empties) <= 1 \/ gcFlag
  <2>1. /\ pc' \in {"gcsec", "gcflag"} /\ gc' = [gc EXCEPT !.pair = ~gcFlag]
        /\ UNCHANGED <<gcReq, req, mv>> /\ pc \notin Moving
    BY <1>1, <1>2 DEF GcStart, Moving, Writes
  <2>2. gc' \in Collections /\ gc'.ret = gc.ret
    BY <2>1 DEF StoreInv, RamType, Collections
  <2>3. RamType'
    BY <1>1, <2>1, <2>2 DEF StoreInv, RamType, Collecting
  <2>4. Control'
    BY <1>1, <2>1, <2>2
    DEF StoreInv, Control, Moving, Writes, Collecting, Loading, Resting
  <2> QED
    BY <1>1, <2>1, <2>3, <2>4
    DEF StoreInv, AtHand, Target, Collected, Moving, Writes
<1>3. CASE ~(Cardinality(Empties) <= 1 \/ gcFlag)
  BY <1>1, <1>3, GcReturnInv DEF GcStart, StoreInv
<1> QED
  BY <1>2, <1>3

\* do_gc comes to its next record.
LEMMA GcNodeInv ==
    ASSUME StoreInv, GcNode
    PROVE  StoreInv'
<1> DEFINE todo == {a \in Visited : /\ a[1] = gc.at /\ a[2] > gc.slot
                                    /\ At(a).data = "all"
                                    /\ At(a).st \in {"write", "predelete"}}
<1>1. /\ FlashType' /\ InUse' /\ Used' = Used /\ pc = "gcnode"
      /\ UNCHANGED <<sec, node, ram, req, pos>>
  BY FlashSame DEF GcNode, flash
<1>2. /\ gc.ret # "none" /\ mv = NoMove /\ gc.at \in Sectors /\ sec[gc.at].dirty = "gc"
  BY <1>1 DEF StoreInv, Control, Collected, Collecting, Moving, Writes
<1>3. CASE todo # {}
  <2>1. PICK a : a = First(todo)
    OBVIOUS
  <2>2. Move(a) /\ gc' = [gc EXCEPT !.slot = a[2]]
        /\ pc' = IF At(a).st = "write" THEN "predel" ELSE "malloc"
    BY <1>3, <2>1 DEF GcNode
  <2>3. todo \subseteq Used
    BY VisitedIs DEF StoreInv
  <2>4. a \in todo /\ a \in Used
    BY <1>3, <2>1, <2>3, FirstIn DEF Used
  <2>5. a \in Addrs /\ a[2] \in 0 .. Cap /\ At(a) \in Records /\ a[1] = gc.at
    BY <2>4, UsedIn, CapPositive DEF StoreInv
  <2>6. mv' = [key |-> At(a).key, val |-> At(a).val, src |-> a, dst |-> 0, crc |-> TRUE]
    BY <2>2 DEF Move
  <2>7. At(a).key \in Keys /\ At(a).val \in Vals \cup {None} /\ At(a).key # None /\ a # None
    BY <2>4, <2>5, StoreAssumption DEF Records, Addrs, Sectors
  <2>8. gc' \in Collections /\ gc'.ret = gc.ret /\ gc'.at = gc.at /\ gc'.slot = a[2]
    BY <2>2, <2>5 DEF StoreInv, RamType, Collections
  <2> HIDE DEF todo
  <2>9. RamType'
    <3>1. mv' \in [key : Keys \cup {None}, val : Vals \cup {None},
                   src : Addrs \cup {None}, dst : 0 .. NSec, crc : BOOLEAN]
      BY <2>5, <2>6, <2>7, CapPositive
    <3> QED
      BY <1>1, <2>2, <2>8, <3>1 DEF StoreInv, RamType, ram, Moving
  <2>10. Control'
    BY <1>1, <1>2, <2>2, <2>6, <2>7, <2>8
    DEF StoreInv, Control, ram, Moving, Writes, Collecting, Loading, Resting
  <2>11. AtHand'
    BY <1>1, <1>2, <2>2, <2>4, <2>6, <2>7, <2>8 DEF AtHand, Setting, Moving, Writes, At
  <2>12. Target' /\ Collected'
    BY <1>1, <1>2, <2>2, <2>5, <2>6, <2>8 DEF Target, Collected, Setting, Moving, Writes
  <2> QED
    BY <1>1, <2>9, <2>10, <2>11, <2>12 DEF StoreInv
<1>4. CASE todo = {}
  <2>1. pc' = "erase" /\ UNCHANGED <<mv, gc>>
    BY <1>4 DEF GcNode
  <2>2. RamType'
    BY <1>1, <2>1 DEF StoreInv, RamType, ram, Collecting
  <2>3. Control'
    BY <1>1, <1>2, <2>1
    DEF StoreInv, Control, ram, Moving, Writes, Collecting, Loading, Resting
  <2> QED
    BY <1>1, <1>2, <2>1, <2>2, <2>3
    DEF StoreInv, AtHand, Target, Collected, Moving, Writes
<1> QED
  BY <1>3, <1>4

\* move_env asks for a sector.
LEMMA MoveAllocInv ==
    ASSUME StoreInv, MoveAlloc
    PROVE  StoreInv'
<1>1. /\ FlashType' /\ InUse' /\ Used' = Used /\ pc = "malloc"
      /\ UNCHANGED <<sec, node, cache, gcFlag, recov, preDel, req, gc, pos>>
  BY FlashSame DEF MoveAlloc, flash
<1>2. /\ mv.key # None /\ mv.src # None /\ mv.src \in Used /\ ~Setting
      /\ At(mv.src).key = mv.key /\ At(mv.src).val = mv.val
      /\ gc.ret # "none" => /\ mv.src[1] = gc.at /\ mv.src[2] = gc.slot
                            /\ gc.at \in Sectors /\ sec[gc.at].dirty = "gc"
  BY <1>1 DEF StoreInv, Control, AtHand, Collected, Moving, Writes
<1>3. gcReq' \in BOOLEAN
  BY DEF MoveAlloc, StoreInv, RamType, AllocAsksGc
<1>4. gc.ret = "none" => recov
  BY <1>2 DEF Setting
<1>5. CASE Alloc = 0
  <2>1. /\ pc' = IF gc.ret = "none" THEN "rstop" ELSE "gcnode"
        /\ mv' = NoMove
    BY <1>5 DEF MoveAlloc
  <2>2. RamType'
    BY <1>1, <1>3, <2>1, CapPositive DEF StoreInv, RamType, Loading, Collecting, NoMove
  <2>3. Control'
    BY <1>1, <1>4, <2>1
    DEF StoreInv, Control, Moving, Writes, Collecting, Loading, Resting
  <2> QED
    BY <1>1, <1>2, <2>1, <2>2, <2>3
    DEF StoreInv, AtHand, Target, Collected, Setting, Moving, Writes
<1>6. CASE pc' = "del" /\ UNCHANGED mv
  <2>1. RamType'
    BY <1>1, <1>3, <1>6 DEF StoreInv, RamType, Moving
  <2>2. Control'
    BY <1>1, <1>6 DEF StoreInv, Control, Moving, Writes, Collecting, Loading, Resting
  <2>3. AtHand' /\ Target' /\ Collected'
    BY <1>1, <1>2, <1>6
    DEF StoreInv, AtHand, Target, Collected, Setting, Moving, Writes, At
  <2> QED
    BY <1>1, <2>1, <2>2, <2>3 DEF StoreInv
<1>7. CASE Alloc # 0 /\ pc' = "secst" /\ mv' = [mv EXCEPT !.dst = Alloc]
  <2>1. /\ Alloc \in Sectors /\ sec[Alloc].ok /\ Len(node[Alloc]) < Cap
        /\ sec[Alloc].dirty # "gc"
    BY <1>7, AllocIn DEF StoreInv
  <2>2. Alloc \in 0 .. NSec
    BY <2>1, CapPositive DEF Sectors
  <2>3. mv' = [key |-> mv.key, val |-> mv.val, src |-> mv.src, dst |-> Alloc, crc |-> mv.crc]
    BY <1>7 DEF StoreInv, RamType
  <2> HIDE DEF Alloc
  <2>4. RamType'
    BY <1>1, <1>3, <1>7, <2>2, <2>3 DEF StoreInv, RamType, Moving, Writes
  <2>5. Control'
    BY <1>1, <1>7, <2>3 DEF StoreInv, Control, Moving, Writes, Collecting, Loading, Resting
  <2>6. AtHand' /\ Target' /\ Collected'
    BY <1>1, <1>2, <1>7, <2>1, <2>3
    DEF StoreInv, AtHand, Target, Collected, Setting, Moving, Writes, At
  <2> QED
    BY <1>1, <2>4, <2>5, <2>6 DEF StoreInv
<1> QED
  BY <1>5, <1>6, <1>7 DEF MoveAlloc

\* Recovery looks for an interrupted collection.
LEMMA LoadGcInv ==
    ASSUME StoreInv, LoadGc
    PROVE  StoreInv'
<1>1. /\ FlashType' /\ InUse' /\ Used' = Used /\ pc = "rgc" /\ recov
      /\ UNCHANGED <<sec, node, cache, gcFlag, recov, preDel, req>>
  BY FlashSame DEF LoadGc, flash, StoreInv, Control, Loading
<1>2. gcReq \in BOOLEAN /\ gcFlag \in BOOLEAN
  BY DEF StoreInv, RamType
<1>3. CASE gcReq' = TRUE /\ CallGc("rgc")
  BY <1>1, <1>2, <1>3, CallGcInv DEF StoreInv
<1>4. CASE pc' = "rscan" /\ UNCHANGED <<gcReq, gc, mv>>
  <2>1. RamType'
    BY <1>1, <1>4 DEF StoreInv, RamType, Loading
  <2>2. Control'
    BY <1>1, <1>4 DEF StoreInv, Control, Moving, Writes, Collecting, Loading, Resting
  <2>3. gc.ret = "none"
    BY <1>1 DEF StoreInv, Control, Loading
  <2> QED
    BY <1>1, <1>4, <2>1, <2>2, <2>3
    DEF StoreInv, AtHand, Target, Collected, Setting, Moving, Writes
<1> QED
  BY <1>3, <1>4 DEF LoadGc

\* Recovery ends, or collects and scans once more.
LEMMA LoadEndInv ==
    ASSUME StoreInv, LoadEnd
    PROVE  StoreInv'
<1>1. /\ FlashType' /\ InUse' /\ Used' = Used /\ pc = "rstop" /\ recov
      /\ UNCHANGED <<sec, node, gcReq, gcFlag, preDel, req>>
      /\ gc = NoGc /\ mv = NoMove /\ req = NoReq
  BY FlashSame DEF LoadEnd, flash, StoreInv, Control, Loading, Moving, Writes
<1>2. gcReq \in BOOLEAN /\ gcFlag \in BOOLEAN
  BY DEF StoreInv, RamType
<1>3. CASE gcReq
  BY <1>1, <1>2, <1>3, CallGcInv DEF StoreInv, LoadEnd
<1>4. CASE ~gcReq
  <2>1. /\ pc' = "idle" /\ recov' = FALSE /\ UNCHANGED <<gc, mv>>
        /\ cache' = [k \in Keys |-> IF Having(k, "write") = {} THEN None
                                    ELSE Last(Having(k, "write"))]
    BY <1>4 DEF LoadEnd
  <2>2. \A k \in Keys : Having(k, "write") \subseteq Addrs
    BY VisitedIs DEF StoreInv, Having, Used
  <2>3. cache' \in [Keys -> Addrs \cup {None}]
    <3> SUFFICES ASSUME NEW k \in Keys, Having(k, "write") # {}
                 PROVE  Last(Having(k, "write")) \in Addrs
      BY <2>1
    <3> QED
      BY <2>2, LastIn
  <2>4. RamType'
    BY <1>1, <2>1, <2>3 DEF StoreInv, RamType, Resting
  <2>5. Control'
    BY <1>1, <2>1 DEF Control, Moving, Writes, Collecting, Loading, Resting, NoGc
  <2> QED
    BY <1>1, <2>1, <2>4, <2>5
    DEF StoreInv, AtHand, Target, Collected, Setting, Moving, Writes, NoGc
<1> QED
  BY <1>3, <1>4

-----------------------------------------------------------------------------
(* Steps that write a sector's header. *)

\* The records stay as they were.
LEMMA NodeSame ==
    ASSUME StoreInv, UNCHANGED node
    PROVE  /\ Used' = Used
           /\ \A a : At(a)' = At(a)
           /\ sec' \in [Sectors -> Headers] => FlashType'
BY DEF StoreInv, FlashType, Used, At

\* The dirty mark.
LEMMA DirtyMarkInv ==
    ASSUME StoreInv, DirtyMark
    PROVE  StoreInv'
<1>1. /\ pc \in {"premark", "postmark"} /\ sec' = [sec EXCEPT ![mv.src[1]].dirty = "yes"]
      /\ UNCHANGED <<node, ram, req, mv, gc, pos>>
      /\ pc' = CASE pc = "postmark" -> "after"
                 [] pc = "premark" /\ Setting -> "secst"
                 [] OTHER -> "malloc"
  BY DEF DirtyMark
<1>2. /\ mv.src # None /\ mv.src \in Used /\ mv.key # None /\ gc.ret = "none"
      /\ sec[mv.src[1]].dirty = "no"
  BY <1>1 DEF StoreInv, AtHand, Control, Collected, Moving
<1>3. mv.src[1] \in Sectors /\ node[mv.src[1]] # <<>>
  BY <1>2, UsedIn DEF StoreInv
<1>4. sec[mv.src[1]].ok /\ sec[mv.src[1]].store # "empty"
  BY <1>3 DEF StoreInv, InUse
<1>5. \A s \in Sectors : /\ sec'[s].ok = sec[s].ok /\ sec'[s].store = sec[s].store
                         /\ sec'[s].dirty # "no" => sec[s].dirty # "no" \/ s = mv.src[1]
  BY <1>1, <1>3 DEF StoreInv, FlashType, Headers
<1>6. FlashType' /\ Used' = Used
  <2>1. sec' \in [Sectors -> Headers]
    BY <1>1, <1>3 DEF StoreInv, FlashType, Headers
  <2> QED
    BY <1>1, <2>1, NodeSame
<1>7. InUse'
  BY <1>1, <1>4, <1>5 DEF StoreInv, InUse
<1>8. RamType'
  BY <1>1 DEF StoreInv, RamType, ram, Moving, Writes
<1>9. Control'
  BY <1>1 DEF StoreInv, Control, ram, Moving, Writes, Collecting, Loading, Resting
<1>10. AtHand' /\ Target' /\ Collected'
  <2>1. UNCHANGED Setting
    BY <1>1 DEF Setting, ram
  <2>2. AtHand'
    BY <1>1, <1>2, <1>6, <2>1 DEF StoreInv, AtHand, Moving, Writes, At, Setting
  <2>3. Target'
    BY <1>1, <1>2, <1>5, <2>1 DEF StoreInv, Target
  <2>4. Collected'
    BY <1>1, <1>2 DEF Collected
  <2> QED
    BY <2>2, <2>3, <2>4
<1> QED
  BY <1>6, <1>7, <1>8, <1>9, <1>10 DEF StoreInv

\* The sector that takes the record is in use, or full.
LEMMA SectorStatusInv ==
    ASSUME StoreInv, SectorStatus
    PROVE  StoreInv'
<1>1. /\ pc = "secst" /\ pc' = "prewrite"
      /\ UNCHANGED <<node, ram, req, mv, gc, pos>>
      /\ sec' = [sec EXCEPT ![mv.dst].store =
                    IF @ = "using" /\ Len(node[mv.dst]) + 1 = Cap THEN "full" ELSE "using"]
  BY DEF SectorStatus
<1>2. mv.dst \in Sectors /\ sec[mv.dst].ok
  BY <1>1 DEF StoreInv, Target
<1>3. \A s \in Sectors : /\ sec'[s].ok = sec[s].ok /\ sec'[s].dirty = sec[s].dirty
                         /\ sec'[s].store # "empty" \/ sec'[s].store = sec[s].store
  BY <1>1, <1>2 DEF StoreInv, FlashType, Headers
<1>4. sec' \in [Sectors -> Headers] /\ sec'[mv.dst].store # "empty"
  <2>1. PICK x \in {"using", "full"} : sec' = [sec EXCEPT ![mv.dst].store = x]
    <3>1. CASE sec[mv.dst].store = "using" /\ Len(node[mv.dst]) + 1 = Cap
      BY <1>1, <1>2, <3>1
    <3>2. CASE ~(sec[mv.dst].store = "using" /\ Len(node[mv.dst]) + 1 = Cap)
      BY <1>1, <1>2, <3>2
    <3> QED
      BY <3>1, <3>2
  <2> QED
    BY <1>2, <2>1 DEF StoreInv, FlashType, Headers
<1>5. FlashType' /\ Used' = Used
  BY <1>1, <1>4, NodeSame
<1>6. InUse'
  BY <1>1, <1>3 DEF StoreInv, InUse
<1>7. RamType'
  BY <1>1 DEF StoreInv, RamType, ram, Moving, Writes
<1>8. Control'
  BY <1>1 DEF StoreInv, Control, ram, Moving, Writes, Collecting, Loading, Resting
<1>9. UNCHANGED Setting
  BY <1>1 DEF Setting, ram
<1>10. AtHand'
  BY <1>1, <1>5, <1>9 DEF StoreInv, AtHand, Moving, Writes, At
<1>11. Target'
  BY <1>1, <1>3, <1>4, <1>9 DEF StoreInv, Target
<1>12. Collected'
  BY <1>1, <1>3 DEF StoreInv, Collected, Moving, Writes
<1> QED
  BY <1>5, <1>6, <1>7, <1>8, <1>10, <1>11, <1>12 DEF StoreInv

\* The least sector of a nonempty set.
LEMMA LeastSector ==
    ASSUME NEW S \in SUBSET Sectors, S # {}
    PROVE  Min(S) \in S
<1>1. S \in SUBSET Nat
  BY CapPositive DEF Sectors
<1> QED
  BY <1>1, Least

\* A flag for every dirty sector.
LEMMA GcFlagNextInv ==
    ASSUME StoreInv, GcFlagNext
    PROVE  StoreInv'
<1> DEFINE todo == {s \in Sectors : Collectable(s) /\ ~sec[s].gc}
<1>1. /\ pc = "gcflag" /\ pc' \in {"gcflag", "gcsec"}
      /\ UNCHANGED <<node, ram, req, mv, gc, pos>>
  BY DEF GcFlagNext
<1>2. \/ todo # {} /\ sec' = [sec EXCEPT ![Min(todo)].gc = TRUE]
      \/ UNCHANGED sec
  BY DEF GcFlagNext
<1>3. todo # {} => Min(todo) \in Sectors
  BY LeastSector
<1> HIDE DEF todo
<1>4. /\ sec' \in [Sectors -> Headers]
      /\ \A s \in Sectors : /\ sec'[s].ok = sec[s].ok /\ sec'[s].dirty = sec[s].dirty
                            /\ sec'[s].store = sec[s].store
  <2>1. CASE UNCHANGED sec
    BY <2>1 DEF StoreInv, FlashType
  <2>2. ASSUME NEW m \in Sectors, sec' = [sec EXCEPT ![m].gc = TRUE] PROVE <1>4!:
    BY <2>2 DEF StoreInv, FlashType, Headers
  <2> QED
    BY <1>2, <1>3, <2>1, <2>2
<1>5. FlashType'
  BY <1>1, <1>4, NodeSame
<1>6. InUse'
  BY <1>1, <1>4 DEF StoreInv, InUse
<1>7. RamType'
  BY <1>1 DEF StoreInv, RamType, ram, Collecting
<1>8. Control'
  BY <1>1 DEF StoreInv, Control, ram, Moving, Writes, Collecting, Loading, Resting
<1> QED
  BY <1>1, <1>5, <1>6, <1>7, <1>8 DEF StoreInv, AtHand, Target, Collected, Moving, Writes

\* The next sector to collect.
LEMMA GcSectorInv ==
    ASSUME StoreInv, GcSector
    PROVE  StoreInv'
<1> DEFINE todo == {s \in Sectors : s > gc.at /\ Collectable(s) /\ sec[s].gc}
<1>1. pc = "gcsec" /\ UNCHANGED <<node, cache, gcFlag, recov, preDel, pos>>
  BY DEF GcSector
<1>2. CASE todo # {}
  <2>1. PICK s : s = Min(todo)
    OBVIOUS
  <2>2. /\ sec' = [sec EXCEPT ![s].dirty = "gc"]
        /\ gc' = [gc EXCEPT !.at = s, !.slot = 0]
        /\ pc' = "gcnode" /\ UNCHANGED <<gcReq, req, mv>>
    BY <1>2, <2>1 DEF GcSector
  <2>3. s \in Sectors /\ sec[s].ok /\ sec[s].dirty # "no"
    BY <1>2, <2>1, LeastSector DEF Collectable
  <2>4. sec[s].store # "empty"
    BY <2>3 DEF StoreInv, InUse
  <2>5. gc' \in Collections /\ gc'.ret = gc.ret /\ gc'.at = s
    <3>1. s \in 0 .. NSec /\ 0 \in 0 .. Cap
      BY <2>3, CapPositive DEF Sectors
    <3> QED
      BY <2>2, <3>1 DEF StoreInv, RamType, Collections
  <2> HIDE DEF todo
  <2>6. sec' \in [Sectors -> Headers] /\ sec'[s].dirty = "gc"
    BY <2>2, <2>3 DEF StoreInv, FlashType, Headers
  <2>7. \A t \in Sectors : /\ sec'[t].ok = sec[t].ok /\ sec'[t].store = sec[t].store
                           /\ sec'[t].dirty # "no" => sec[t].dirty # "no"
    BY <2>2, <2>3 DEF StoreInv, FlashType, Headers
  <2>8. FlashType' /\ InUse'
    BY <1>1, <2>6, <2>7, NodeSame DEF StoreInv, InUse
  <2>9. RamType'
    BY <1>1, <2>2, <2>5 DEF StoreInv, RamType, Collecting
  <2>10. Control'
    BY <1>1, <2>2, <2>5 DEF StoreInv, Control, Moving, Writes, Collecting, Loading, Resting
  <2> QED
    BY <1>1, <2>2, <2>3, <2>5, <2>6, <2>8, <2>9, <2>10
    DEF StoreInv, AtHand, Target, Collected, Moving, Writes
<1>3. CASE todo = {}
  <2>1. GcReturn /\ UNCHANGED flash
    BY <1>1, <1>3 DEF GcSector, flash
  <2> QED
    BY <1>1, <2>1, GcReturnInv, FlashSame DEF StoreInv, Collecting
<1> QED
  BY <1>2, <1>3

\* A sector is formatted.
LEMMA FormatSectorInv ==
    ASSUME StoreInv, FormatSector
    PROVE  StoreInv'
<1>1. /\ pc = "format" /\ sec' = [sec EXCEPT ![gc.at] = Fresh]
      /\ UNCHANGED <<node, cache, gcFlag, recov, preDel, pos>>
  BY DEF FormatSector
<1>2. gc.at \in Sectors /\ node[gc.at] = <<>> /\ pc \in Collecting
  BY <1>1 DEF StoreInv, Collected, Collecting
<1>3. Fresh \in Headers /\ Fresh.dirty = "no"
  BY DEF Fresh, Headers
<1>4. sec' \in [Sectors -> Headers] /\ \A s \in Sectors : s # gc.at => sec'[s] = sec[s]
  BY <1>1, <1>2, <1>3 DEF StoreInv, FlashType
<1>5. FlashType' /\ InUse'
  BY <1>1, <1>2, <1>3, <1>4, NodeSame DEF StoreInv, InUse, FlashType
<1>6. CASE gc.pair
  <2>1. /\ gc' = [gc EXCEPT !.pair = FALSE] /\ pc' = "gcsec" /\ UNCHANGED <<gcReq, req, mv>>
    BY <1>6 DEF FormatSector
  <2>2. gc' \in Collections /\ gc'.ret = gc.ret
    BY <2>1 DEF StoreInv, RamType, Collections
  <2>3. RamType'
    BY <1>1, <2>1, <2>2 DEF StoreInv, RamType, Collecting
  <2>4. Control'
    BY <1>1, <2>1, <2>2 DEF StoreInv, Control, Moving, Writes, Collecting, Loading, Resting
  <2> QED
    BY <1>5, <2>1, <2>3, <2>4 DEF StoreInv, AtHand, Target, Collected, Moving, Writes
<1>7. CASE ~gc.pair
  BY <1>1, <1>2, <1>5, <1>7, GcReturnInv DEF FormatSector, StoreInv
<1> QED
  BY <1>6, <1>7

\* Sectors without a header are formatted at boot.
LEMMA LoadHeadersInv ==
    ASSUME StoreInv, LoadHeaders
    PROVE  StoreInv'
<1>1. /\ pc = "down" /\ pc' = "rgc" /\ recov' = TRUE
      /\ sec' = [s \in Sectors |-> IF sec[s].ok THEN sec[s] ELSE Fresh]
      /\ UNCHANGED <<node, cache, gcReq, gcFlag, preDel, req, mv, gc, pos>>
  BY DEF LoadHeaders
<1>2. Fresh \in Headers /\ Fresh.dirty = "no"
  BY DEF Fresh, Headers
<1>3. FlashType'
  BY <1>1, <1>2, NodeSame DEF StoreInv, FlashType
<1>4. InUse'
  BY <1>1, <1>2 DEF StoreInv, InUse
<1>5. RamType'
  BY <1>1 DEF StoreInv, RamType, Loading
<1>6. Control'
  BY <1>1 DEF StoreInv, Control, Moving, Writes, Collecting, Loading, Resting
<1>7. gc.ret = "none"
  BY <1>1 DEF StoreInv, Control, Resting
<1> QED
  BY <1>1, <1>3, <1>4, <1>5, <1>6, <1>7
  DEF StoreInv, AtHand, Target, Collected, Moving, Writes, Setting

-----------------------------------------------------------------------------
(* Steps that write a record. *)

\* A record rewritten leaves the sectors as they are.
LEMMA WriteKeeps ==
    ASSUME StoreInv, NEW a \in Used, NEW r \in Records, Write(a, r), UNCHANGED sec
    PROVE  FlashType' /\ InUse' /\ Used' = Used
<1>1. /\ node' \in [Sectors -> Seq(Records)]
      /\ \A s \in Sectors : Len(node'[s]) = Len(node[s]) /\ (node'[s] = <<>> <=> node[s] = <<>>)
      /\ Used' = Used
  BY WriteEffect DEF StoreInv
<1> QED
  BY <1>1 DEF StoreInv, FlashType, InUse

\* A record in another status, or with more of its data.
LEMMA RecordWith ==
    ASSUME NEW r \in Records, r.key # None
    PROVE  /\ \A st \in Statuses :
                  /\ [r EXCEPT !.st = st] \in Records
                  /\ [r EXCEPT !.st = st] = [st |-> st, key |-> r.key, val |-> r.val, data |-> r.data]
           /\ \A d \in {"none", "part", "all"} :
                  /\ [r EXCEPT !.data = d] \in Records
                  /\ [r EXCEPT !.data = d] = [st |-> r.st, key |-> r.key, val |-> r.val, data |-> d]
BY DEF Records

\* del_env(.., false)
LEMMA PreDeleteInv ==
    ASSUME StoreInv, PreDelete
    PROVE  StoreInv'
<1>1. /\ pc = "predel" /\ Status(mv.src, "predelete") /\ preDel' = TRUE
      /\ UNCHANGED <<sec, cache, gcReq, gcFlag, recov, req, mv, gc, pos>>
      /\ pc' = IF sec[mv.src[1]].dirty = "no" THEN "premark"
               ELSE IF Setting THEN "secst" ELSE "malloc"
  BY DEF PreDelete
<1>2. PICK a : a = mv.src
  OBVIOUS
<1>3. /\ a # None /\ a \in Used /\ mv.key # None /\ At(a).key = mv.key
      /\ ~Setting => At(a).val = mv.val
      /\ gc.ret # "none" => /\ a[1] = gc.at /\ sec[a[1]].dirty = "gc"
  BY <1>1, <1>2 DEF StoreInv, AtHand, Control, Collected, Moving
<1>4. PICK r \in Records : /\ r = [At(a) EXCEPT !.st = "predelete"]
                          /\ r.key = At(a).key /\ r.val = At(a).val
  <2>1. At(a) \in Records /\ At(a).key # None
    BY <1>3, UsedIn DEF StoreInv
  <2> QED
    BY <2>1, RecordWith DEF Statuses
<1>5. Write(a, r)
  BY <1>1, <1>2, <1>4 DEF Status
<1>6. At(a)' = r /\ FlashType' /\ InUse' /\ Used' = Used
      /\ \A s \in Sectors : Len(node'[s]) = Len(node[s])
  BY <1>1, <1>3, <1>5, WriteEffect, WriteKeeps DEF StoreInv
<1>7. RamType'
  BY <1>1 DEF StoreInv, RamType, Moving, Writes
<1>8. Control'
  BY <1>1 DEF StoreInv, Control, Moving, Writes, Collecting, Loading, Resting
<1>9. UNCHANGED Setting
  BY <1>1 DEF Setting
<1>10. AtHand'
  BY <1>1, <1>2, <1>3, <1>4, <1>6, <1>9 DEF StoreInv, AtHand, Moving, Writes
<1>11. Target'
  BY <1>1, <1>6, <1>9 DEF StoreInv, Target
<1>12. Collected'
  BY <1>1, <1>2, <1>3 DEF StoreInv, Collected, Moving, Writes
<1> QED
  BY <1>6, <1>7, <1>8, <1>10, <1>11, <1>12 DEF StoreInv

\* A write to the record that is being made.
LEMMA DstWrite ==
    ASSUME StoreInv, pc \in {"head", "body", "write"}, NEW r \in Records, NEW d, d = Dst,
           Write(Dst, r), UNCHANGED <<sec, mv>>
    PROVE  /\ FlashType' /\ InUse' /\ Used' = Used
           /\ d \in Used /\ Dst' = d /\ At(d)' = r
           /\ \A b \in Used : b # d => At(b)' = At(b)
           /\ \A s \in Sectors : Len(node'[s]) = Len(node[s])
<1>1. mv.dst \in Sectors /\ d \in Used
  BY DEF StoreInv, Target
<1>2. Write(d, r)
  OBVIOUS
<1>3. /\ FlashType' /\ InUse' /\ Used' = Used /\ At(d)' = r
      /\ \A b \in Used : b # d => At(b)' = At(b)
      /\ \A s \in Sectors : Len(node'[s]) = Len(node[s])
  BY <1>1, <1>2, WriteEffect, WriteKeeps DEF StoreInv
<1>4. Dst' = d
  BY <1>1, <1>3 DEF Dst
<1> QED
  BY <1>1, <1>3, <1>4

\* What it is, and what it replaces.
LEMMA DstIs ==
    ASSUME StoreInv, pc \in {"head", "body", "write"}, NEW d, d = Dst
    PROVE  /\ d \in Used /\ mv.dst \in Sectors /\ d # mv.src
           /\ At(d) = [st |-> "prewrite", key |-> mv.key, val |-> mv.val,
                       data |-> CASE pc = "head" -> "none" [] pc = "body" -> "part"
                                  [] pc = "write" -> IF mv.crc THEN "all" ELSE "part"]
           /\ At(d) \in Records /\ At(d).key = mv.key /\ mv.key # None /\ mv.key \in Keys
           /\ gc.ret # "none" => mv.dst # gc.at
           /\ mv.src # None => /\ mv.src \in Used /\ At(mv.src).key = mv.key
                               /\ ~Setting => At(mv.src).val = mv.val
<1>1. mv.key # None /\ mv.key \in Keys
  BY DEF StoreInv, Control, RamType, Moving, Writes
<1>2. d \in Used /\ d # mv.src /\ mv.dst \in Sectors /\ (gc.ret # "none" => mv.dst # gc.at)
      /\ At(d) = [st |-> "prewrite", key |-> mv.key, val |-> mv.val,
                  data |-> CASE pc = "head" -> "none" [] pc = "body" -> "part"
                             [] pc = "write" -> IF mv.crc THEN "all" ELSE "part"]
  BY DEF StoreInv, Target
<1>3. mv.src # None => /\ mv.src \in Used /\ At(mv.src).key = mv.key
                       /\ ~Setting => At(mv.src).val = mv.val
  BY DEF StoreInv, AtHand, Moving, Writes
<1>4. At(d) \in Records
  BY <1>2, UsedIn DEF StoreInv
<1> QED
  BY <1>1, <1>2, <1>3, <1>4

\* The header of the record.
LEMMA WriteHeadInv ==
    ASSUME StoreInv, WriteHead
    PROVE  StoreInv'
<1>1. /\ pc = "head" /\ pc' = "body" /\ Write(Dst, [At(Dst) EXCEPT !.data = "part"])
      /\ UNCHANGED <<sec, ram, req, mv, gc, pos>>
  BY DEF WriteHead
<1>2. PICK d, a : d = Dst /\ a = mv.src
  OBVIOUS
<1>3. PICK r \in Records : r = [At(d) EXCEPT !.data = "part"]
                           /\ r = [st |-> "prewrite", key |-> mv.key, val |-> mv.val, data |-> "part"]
  <2>1. /\ At(d) \in Records /\ At(d).key # None
        /\ At(d) = [st |-> "prewrite", key |-> mv.key, val |-> mv.val, data |-> "none"]
    BY <1>1, <1>2, DstIs
  <2>2. PICK x : x = At(d)
    OBVIOUS
  <2>3. [x EXCEPT !.data = "part"] \in Records
        /\ [x EXCEPT !.data = "part"] = [st |-> x.st, key |-> x.key, val |-> x.val, data |-> "part"]
    BY <2>1, <2>2, RecordWith
  <2> QED
    BY <2>1, <2>2, <2>3
<1>4. /\ FlashType' /\ InUse' /\ Used' = Used
      /\ d \in Used /\ Dst' = d /\ At(d)' = r
      /\ \A b \in Used : b # d => At(b)' = At(b)
  BY <1>1, <1>2, <1>3, DstWrite
<1>5. RamType'
  BY <1>1 DEF StoreInv, RamType, ram, Moving, Writes
<1>6. Control'
  BY <1>1 DEF StoreInv, Control, ram, Moving, Writes, Collecting, Loading, Resting
<1>7. UNCHANGED Setting
  BY <1>1 DEF Setting, ram
<1>8. a # None => a \in Used /\ a # d /\ At(a)' = At(a)
  BY <1>1, <1>2, <1>4, DstIs
<1>9. AtHand'
  BY <1>1, <1>2, <1>4, <1>7, <1>8 DEF StoreInv, AtHand, Moving, Writes
<1>10. Target'
  <2>1. mv.dst \in Sectors /\ (gc.ret # "none" => mv.dst # gc.at) /\ d # a
    BY <1>1, <1>2, DstIs
  <2> QED
    BY <1>1, <1>2, <1>3, <1>4, <2>1 DEF Target
<1>11. Collected'
  BY <1>1 DEF StoreInv, Collected, Moving, Writes
<1> QED
  BY <1>4, <1>5, <1>6, <1>9, <1>10, <1>11 DEF StoreInv

\* Its name and value.
LEMMA WriteBodyInv ==
    ASSUME StoreInv, WriteBody
    PROVE  StoreInv'
<1>1. /\ pc = "body" /\ pc' = "write" /\ Write(Dst, [At(Dst) EXCEPT !.data = IF mv.crc THEN "all" ELSE "part"])
      /\ cache' = [cache EXCEPT ![mv.key] = Dst]
      /\ UNCHANGED <<sec, gcReq, gcFlag, recov, preDel, req, mv, gc, pos>>
  BY DEF WriteBody
<1>2. PICK d, a : d = Dst /\ a = mv.src
  OBVIOUS
<1>12. PICK w \in {"all", "part"} : w = IF mv.crc THEN "all" ELSE "part"
  OBVIOUS
<1>3. PICK r \in Records : r = [At(d) EXCEPT !.data = w]
                           /\ r = [st |-> "prewrite", key |-> mv.key, val |-> mv.val, data |-> w]
  <2>1. /\ At(d) \in Records /\ At(d).key # None
        /\ At(d) = [st |-> "prewrite", key |-> mv.key, val |-> mv.val, data |-> "part"]
    BY <1>1, <1>2, DstIs
  <2>2. PICK x : x = At(d)
    OBVIOUS
  <2>3. [x EXCEPT !.data = w] \in Records
        /\ [x EXCEPT !.data = w] = [st |-> x.st, key |-> x.key, val |-> x.val, data |-> w]
    BY <2>1, <2>2, RecordWith
  <2> QED
    BY <2>1, <2>2, <2>3
<1>13. [At(Dst) EXCEPT !.data = IF mv.crc THEN "all" ELSE "part"] = r
  BY <1>2, <1>3, <1>12
<1>14. Write(Dst, r)
  BY <1>1, <1>13
<1>4. /\ FlashType' /\ InUse' /\ Used' = Used
      /\ d \in Used /\ Dst' = d /\ At(d)' = r
      /\ \A b \in Used : b # d => At(b)' = At(b)
  BY <1>1, <1>2, <1>14, DstWrite
<1>5. RamType'
  <2>1. cache' \in [Keys -> Addrs \cup {None}]
    BY <1>1, <1>2, <1>4 DEF StoreInv, RamType, Used
  <2> QED
    BY <1>1, <2>1 DEF StoreInv, RamType, Moving, Writes
<1>6. Control'
  BY <1>1 DEF StoreInv, Control, Moving, Writes, Collecting, Loading, Resting
<1>7. UNCHANGED Setting
  BY <1>1 DEF Setting
<1>8. a # None => a \in Used /\ a # d /\ At(a)' = At(a)
  BY <1>1, <1>2, <1>4, DstIs
<1>9. AtHand'
  BY <1>1, <1>2, <1>4, <1>7, <1>8 DEF StoreInv, AtHand, Moving, Writes
<1>10. Target'
  <2>1. mv.dst \in Sectors /\ (gc.ret # "none" => mv.dst # gc.at) /\ d # a
    BY <1>1, <1>2, DstIs
  <2> QED
    BY <1>1, <1>2, <1>3, <1>4, <1>12, <2>1 DEF Target
<1>11. Collected'
  BY <1>1 DEF StoreInv, Collected, Moving, Writes
<1> QED
  BY <1>4, <1>5, <1>6, <1>9, <1>10, <1>11 DEF StoreInv

\* From here the record counts.
LEMMA WriteStatusInv ==
    ASSUME StoreInv, WriteStatus
    PROVE  StoreInv'
<1>1. /\ pc = "write" /\ pc' = (IF mv.src = None THEN "after" ELSE "del")
      /\ Write(Dst, [At(Dst) EXCEPT !.st = "write"])
      /\ gcReq' = (gcReq \/ (Setting /\ sec[mv.dst].store = "full"))
      /\ UNCHANGED <<sec, cache, gcFlag, recov, preDel, req, mv, gc, pos>>
  BY DEF WriteStatus, Status
<1>2. PICK d, a : d = Dst /\ a = mv.src
  OBVIOUS
<1>12. PICK w \in {"all", "part"} : w = IF mv.crc THEN "all" ELSE "part"
  OBVIOUS
<1>3. PICK r \in Records : r = [At(d) EXCEPT !.st = "write"]
                           /\ r = [st |-> "write", key |-> mv.key, val |-> mv.val, data |-> w]
  <2>1. /\ At(d) \in Records /\ At(d).key # None
        /\ At(d) = [st |-> "prewrite", key |-> mv.key, val |-> mv.val, data |-> w]
    BY <1>1, <1>2, <1>12, DstIs
  <2>2. PICK x : x = At(d)
    OBVIOUS
  <2>3. [x EXCEPT !.st = "write"] \in Records
        /\ [x EXCEPT !.st = "write"] = [st |-> "write", key |-> x.key, val |-> x.val, data |-> x.data]
    BY <2>1, <2>2, RecordWith DEF Statuses
  <2> QED
    BY <2>1, <2>2, <2>3
<1>4. /\ FlashType' /\ InUse' /\ Used' = Used
      /\ d \in Used /\ Dst' = d /\ At(d)' = r
      /\ \A b \in Used : b # d => At(b)' = At(b)
  BY <1>1, <1>2, <1>3, DstWrite
<1>5. RamType'
  <2>1. gcReq' \in BOOLEAN
    BY <1>1 DEF StoreInv, RamType
  <2> QED
    BY <1>1, <2>1 DEF StoreInv, RamType, Moving
<1>6. Control'
  BY <1>1 DEF StoreInv, Control, Moving, Writes, Collecting, Loading, Resting
<1>7. UNCHANGED Setting
  BY <1>1 DEF Setting
<1>8. a # None => a \in Used /\ a # d /\ At(a)' = At(a)
  BY <1>1, <1>2, <1>4, DstIs
<1>9. AtHand'
  BY <1>1, <1>2, <1>4, <1>7, <1>8 DEF StoreInv, AtHand, Moving, Writes
<1>10. Target' /\ Collected'
  BY <1>1 DEF StoreInv, Target, Collected, Moving, Writes
<1> QED
  BY <1>4, <1>5, <1>6, <1>9, <1>10 DEF StoreInv

\* The status of a new record, in the slot after the last.
LEMMA PreWriteInv ==
    ASSUME StoreInv, PreWrite
    PROVE  StoreInv'
<1>1. /\ pc = "prewrite" /\ pc' = "head" /\ UNCHANGED <<sec, ram, req, mv, gc, pos>>
  BY DEF PreWrite
<1>2. PICK r : r = [st |-> "prewrite", key |-> mv.key, val |-> mv.val, data |-> "none"]
  OBVIOUS
<1>3. PICK s, d, a : s = mv.dst /\ d = <<s, Len(node[s]) + 1>> /\ a = mv.src
  OBVIOUS
<1>4. /\ s \in Sectors /\ sec[s].ok /\ Len(node[s]) < Cap /\ sec[s].store # "empty"
      /\ mv.key # None /\ (gc.ret # "none" => s # gc.at)
  BY <1>1, <1>3 DEF StoreInv, Target, Control, Moving, Writes
<1>5. r \in Records
  BY <1>2, <1>4 DEF StoreInv, RamType, Records, Statuses
<1>6. node' = [node EXCEPT ![s] = Append(@, r)]
  BY <1>2, <1>3 DEF PreWrite
<1>7. /\ node' \in [Sectors -> Seq(Records)]
      /\ \A t \in Sectors : Len(node'[t]) = IF t = s THEN Len(node[s]) + 1 ELSE Len(node[t])
      /\ \A t \in Sectors : t # s => node'[t] = node[t]
      /\ d \notin Used /\ d \in Addrs /\ Used' = Used \cup {d}
      /\ At(d)' = r
      /\ \A b \in Used : At(b)' = At(b)
  <2>1. FlashType /\ d = <<s, Len(node[s]) + 1>>
    BY <1>3 DEF StoreInv
  <2>2. s \in Sectors /\ Len(node[s]) < Cap
    BY <1>4
  <2> QED
    BY <1>5, <1>6, <2>1, <2>2, AppendEffect
<1>8. FlashType'
  <2>1. \A t \in Sectors : Len(node[t]) \in Nat /\ Len(node[t]) <= Cap
    BY LenProperties DEF StoreInv, FlashType
  <2> QED
    BY <1>1, <1>4, <1>7, <2>1, CapPositive DEF StoreInv, FlashType
<1>9. InUse'
  BY <1>1, <1>4, <1>7 DEF StoreInv, InUse
<1>10. RamType'
  BY <1>1 DEF StoreInv, RamType, ram, Moving, Writes
<1>11. Control'
  BY <1>1 DEF StoreInv, Control, ram, Moving, Writes, Collecting, Loading, Resting
<1>12. UNCHANGED Setting
  BY <1>1 DEF Setting, ram
<1>13. a # None => a \in Used /\ a # d /\ At(a)' = At(a)
  BY <1>1, <1>3, <1>7 DEF StoreInv, AtHand, Moving, Writes
<1>14. AtHand'
  BY <1>1, <1>3, <1>7, <1>12, <1>13 DEF StoreInv, AtHand, Moving, Writes
<1>15. Target'
  <2>1. Dst' = d
    BY <1>1, <1>3, <1>4, <1>7 DEF Dst
  <2>2. d # a
    BY <1>7, <1>13, StoreAssumption DEF Addrs, Sectors
  <2> QED
    BY <1>1, <1>2, <1>3, <1>4, <1>7, <2>1, <2>2 DEF Target
<1>16. Collected'
  BY <1>1 DEF StoreInv, Collected, Moving, Writes
<1> QED
  BY <1>8, <1>9, <1>10, <1>11, <1>14, <1>15, <1>16 DEF StoreInv

\* del_env(.., true)
LEMMA DeleteInv ==
    ASSUME StoreInv, Delete
    PROVE  StoreInv'
<1>1. /\ pc = "del" /\ Write(mv.src, Gone(mv.src))
      /\ cache' = (IF preDel THEN cache ELSE [cache EXCEPT ![mv.key] = None])
      /\ preDel' = FALSE
      /\ pc' = (IF sec[mv.src[1]].dirty = "no" THEN "postmark" ELSE "after")
      /\ UNCHANGED <<sec, gcReq, gcFlag, recov, req, mv, gc, pos>>
  BY DEF Delete
<1>2. PICK a, r : a = mv.src /\ r = Gone(mv.src)
  OBVIOUS
<1>3. /\ a # None /\ a \in Used /\ mv.key # None /\ mv.key \in Keys
      /\ gc.ret # "none" => /\ a[1] = gc.at /\ sec[a[1]].dirty = "gc"
  BY <1>1, <1>2 DEF StoreInv, AtHand, Control, Collected, RamType, Moving
<1>4. r \in Records
  <2>1. Junk \in Records
    BY DEF Junk, Records, Statuses
  <2>2. [At(a) EXCEPT !.st = "deleted", !.val = None] \in Records
    <3>1. At(a) \in Records
      BY <1>3, UsedIn DEF StoreInv
    <3>2. \A x \in Records : [x EXCEPT !.st = "deleted", !.val = None] \in Records
      BY DEF Records, Statuses
    <3> QED
      BY <3>1, <3>2
  <2> QED
    BY <1>2, <2>1, <2>2 DEF Gone
<1>5. Write(a, r)
  BY <1>1, <1>2
<1>6. FlashType' /\ InUse' /\ Used' = Used
  BY <1>1, <1>3, <1>4, <1>5, WriteKeeps
<1>7. RamType'
  BY <1>1, <1>3 DEF StoreInv, RamType, Moving
<1>8. Control'
  BY <1>1 DEF StoreInv, Control, Moving, Writes, Collecting, Loading, Resting
<1>9. UNCHANGED Setting
  BY <1>1 DEF Setting
<1>10. AtHand'
  BY <1>1, <1>2, <1>3, <1>6, <1>9 DEF StoreInv, AtHand, Moving, Writes
<1>11. Target' /\ Collected'
  BY <1>1, <1>2, <1>3 DEF StoreInv, Target, Collected, Moving, Writes
<1> QED
  BY <1>6, <1>7, <1>8, <1>10, <1>11 DEF StoreInv

\* The recovery comes to an unfinished record.
LEMMA LoadScanInv ==
    ASSUME StoreInv, LoadScan
    PROVE  StoreInv'
<1> DEFINE todo == {a \in Visited : Before(pos, a) /\ Unfinished(At(a))}
<1>1. /\ pc = "rscan" /\ UNCHANGED <<sec, ram, req, gc>>
  BY DEF LoadScan
<1>2. recov /\ gc.ret = "none" /\ gc = NoGc /\ mv = NoMove /\ req = NoReq
  BY <1>1 DEF StoreInv, Control, Loading, Moving, Writes
<1>3. ASSUME pc' = "rstop", FlashType', InUse', UNCHANGED mv PROVE StoreInv'
  <2>1. RamType'
    BY <1>1, <1>3 DEF StoreInv, RamType, ram, Loading
  <2>2. Control'
    BY <1>1, <1>3 DEF StoreInv, Control, ram, Moving, Writes, Collecting, Loading, Resting
  <2> QED
    BY <1>1, <1>2, <1>3, <2>1, <2>2
    DEF StoreInv, AtHand, Target, Collected, Moving, Writes, Setting, ram
<1>4. CASE todo = {}
  <2>1. pc' = "rstop" /\ UNCHANGED <<node, mv>>
    BY <1>4 DEF LoadScan
  <2>2. UNCHANGED flash
    BY <1>1, <2>1 DEF flash
  <2> QED
    BY <1>3, <2>1, <2>2, FlashSame
<1>5. CASE todo # {}
  <2>1. PICK a : a = First(todo)
    OBVIOUS
  <2>2. \/ Move(a) /\ pc' = "malloc" /\ UNCHANGED node /\ At(a).st = "predelete"
        \/ Write(a, Junk) /\ pc' = "rstop" /\ UNCHANGED mv
    BY <1>5, <2>1 DEF LoadScan
  <2>3. todo \subseteq Used
    BY VisitedIs DEF StoreInv
  <2>4. a \in Used
    BY <1>5, <2>1, <2>3, FirstIn DEF Used
  <2>5. a \in Addrs /\ At(a) \in Records
    BY <2>4, UsedIn DEF StoreInv
  <2> HIDE DEF todo
  <2>6. CASE Write(a, Junk) /\ pc' = "rstop" /\ UNCHANGED mv
    <3>1. Junk \in Records
      BY DEF Junk, Records, Statuses
    <3>2. FlashType' /\ InUse'
      BY <1>1, <2>4, <2>6, <3>1, WriteKeeps
    <3> QED
      BY <1>3, <2>6, <3>2
  <2>7. CASE Move(a) /\ pc' = "malloc" /\ UNCHANGED node /\ At(a).st = "predelete"
    <3>1. mv' = [key |-> At(a).key, val |-> At(a).val, src |-> a, dst |-> 0, crc |-> TRUE]
      BY <2>7 DEF Move
    <3>2. At(a).key \in Keys /\ At(a).val \in Vals \cup {None} /\ At(a).key # None /\ a # None
      BY <2>5, <2>7, StoreAssumption DEF Records, Addrs, Sectors
    <3>3. UNCHANGED flash
      BY <1>1, <2>7 DEF flash
    <3>4. FlashType' /\ InUse' /\ Used' = Used
      BY <3>3, FlashSame
    <3>5. RamType'
      <4>1. mv' \in [key : Keys \cup {None}, val : Vals \cup {None},
                     src : Addrs \cup {None}, dst : 0 .. NSec, crc : BOOLEAN]
        BY <2>5, <3>1, <3>2, CapPositive
      <4> QED
        BY <1>1, <2>7, <4>1 DEF StoreInv, RamType, ram, Moving
    <3>6. Control'
      BY <1>1, <1>2, <2>7, <3>1, <3>2
      DEF StoreInv, Control, ram, Moving, Writes, Collecting, Loading, Resting
    <3>7. AtHand'
      BY <1>1, <1>2, <2>4, <2>7, <3>1, <3>2, <3>4 DEF AtHand, Setting, ram, Moving, Writes, At
    <3>8. Target' /\ Collected'
      BY <1>1, <1>2, <2>7 DEF Target, Collected, Setting, ram, Moving, Writes
    <3> QED
      BY <3>4, <3>5, <3>6, <3>7, <3>8 DEF StoreInv
  <2> QED
    BY <2>2, <2>6, <2>7
<1> QED
  BY <1>4, <1>5

\* A sector is erased.
LEMMA EraseSectorInv ==
    ASSUME StoreInv, EraseSector
    PROVE  StoreInv'
<1>1. /\ pc = "erase" /\ pc' = "format" /\ UNCHANGED <<ram, req, mv, gc, pos>>
      /\ sec' = [sec EXCEPT ![gc.at] = [Fresh EXCEPT !.ok = FALSE]]
      /\ node' = [node EXCEPT ![gc.at] = <<>>]
  BY DEF EraseSector
<1>2. gc.at \in Sectors /\ gc.ret # "none" /\ mv = NoMove
  BY <1>1 DEF StoreInv, Collected, Control, Collecting, Moving, Writes
<1>3. PICK h \in Headers : h = [Fresh EXCEPT !.ok = FALSE] /\ h.dirty = "no"
  <2>1. Fresh \in Headers /\ Fresh.dirty = "no"
    BY DEF Fresh, Headers
  <2>2. \A x \in Headers : [x EXCEPT !.ok = FALSE] \in Headers
                           /\ [x EXCEPT !.ok = FALSE].dirty = x.dirty
    BY DEF Headers
  <2> QED
    BY <2>1, <2>2
<1>4. sec' \in [Sectors -> Headers] /\ sec'[gc.at] = h /\ \A s \in Sectors : s # gc.at => sec'[s] = sec[s]
  BY <1>1, <1>2, <1>3 DEF StoreInv, FlashType
<1>5. <<>> \in Seq(Records) /\ Len(<<>>) = 0 /\ 0 <= Cap
  BY EmptySeq, CapPositive
<1>6. /\ node' \in [Sectors -> Seq(Records)] /\ node'[gc.at] = <<>>
      /\ \A s \in Sectors : s # gc.at => node'[s] = node[s]
  BY <1>1, <1>2, <1>5 DEF StoreInv, FlashType
<1>7. FlashType'
  BY <1>2, <1>4, <1>5, <1>6 DEF StoreInv, FlashType
<1>8. InUse'
  BY <1>2, <1>3, <1>4, <1>6 DEF StoreInv, InUse
<1>9. RamType'
  BY <1>1 DEF StoreInv, RamType, ram, Collecting
<1>10. Control'
  BY <1>1 DEF StoreInv, Control, ram, Moving, Writes, Collecting, Loading, Resting
<1> QED
  BY <1>1, <1>2, <1>6, <1>7, <1>8, <1>9, <1>10
  DEF StoreInv, AtHand, Target, Collected, Moving, Writes

\* A reset at any point.
LEMMA StoreResetInv ==
    ASSUME StoreInv, StoreReset
    PROVE  StoreInv'
<1>1. /\ pc' = "down" /\ req' = NoReq /\ mv' = NoMove /\ gc' = NoGc /\ UNCHANGED sec
      /\ gcReq' = FALSE /\ gcFlag' = FALSE /\ recov' = FALSE /\ preDel' = FALSE
      /\ cache' = [k \in Keys |-> None]
      /\ node' = [s \in Sectors |-> [i \in DOMAIN node[s] |->
                     IF node[s][i].data = "none" THEN Junk ELSE node[s][i]]]
  BY DEF StoreReset
<1>2. ASSUME NEW s \in Sectors
      PROVE  node'[s] \in Seq(Records) /\ Len(node'[s]) = Len(node[s])
  <2>1. node[s] \in Seq(Records)
    BY DEF StoreInv, FlashType
  <2>2. Len(node[s]) \in Nat /\ DOMAIN node[s] = 1 .. Len(node[s])
        /\ \A i \in 1 .. Len(node[s]) : node[s][i] \in Records
    BY <2>1, LenProperties, ElementOfSeq
  <2>3. Junk \in Records
    BY DEF Junk, Records, Statuses
  <2>4. node'[s] = [i \in 1 .. Len(node[s]) |->
                       IF node[s][i].data = "none" THEN Junk ELSE node[s][i]]
    BY <1>1, <2>2
  <2>5. node'[s] \in [1 .. Len(node[s]) -> Records]
    BY <2>2, <2>3, <2>4
  <2>6. node'[s] \in Seq(Records)
    BY <2>2, <2>5, SeqDef
  <2> QED
    BY <2>2, <2>5, <2>6, LenProperties
<1>3. FlashType'
  BY <1>1, <1>2 DEF StoreInv, FlashType
<1>4. \A s \in Sectors : node'[s] = <<>> <=> node[s] = <<>>
  <2> SUFFICES ASSUME NEW s \in Sectors PROVE node'[s] = <<>> <=> node[s] = <<>>
    OBVIOUS
  <2>1. node[s] \in Seq(Records) /\ node'[s] \in Seq(Records) /\ Len(node'[s]) = Len(node[s])
    BY <1>2 DEF StoreInv, FlashType
  <2> QED
    BY <2>1, EmptySeq
<1>5. InUse'
  BY <1>1, <1>4 DEF StoreInv, InUse
<1>6. NoMove \in [key : Keys \cup {None}, val : Vals \cup {None}, src : Addrs \cup {None}, dst : 0 .. NSec, crc : BOOLEAN]
      /\ NoReq \in [key : Keys \cup {None}, val : Vals \cup {None}]
  BY CapPositive DEF NoMove, NoReq
<1>7. RamType'
  BY <1>1, <1>6, NoGcIn DEF RamType, Resting
<1>8. Control'
  BY <1>1 DEF Control, Moving, Writes, Collecting, Loading, Resting, NoGc
<1> QED
  BY <1>1, <1>3, <1>5, <1>7, <1>8
  DEF StoreInv, AtHand, Target, Collected, Moving, Writes, Setting, NoGc

\* The empty store.
LEMMA StoreInitInv ==
    ASSUME StoreInit
    PROVE  StoreInv
<1>1. FlashType /\ InUse
  <2>1. Fresh \in Headers /\ Fresh.dirty = "no"
    BY DEF Fresh, Headers
  <2>2. <<>> \in Seq(Records) /\ Len(<<>>) = 0 /\ 0 <= Cap
    BY EmptySeq, CapPositive
  <2> QED
    BY <2>1, <2>2 DEF StoreInit, FlashType, InUse
<1>2. NoMove \in [key : Keys \cup {None}, val : Vals \cup {None}, src : Addrs \cup {None}, dst : 0 .. NSec, crc : BOOLEAN]
      /\ NoReq \in [key : Keys \cup {None}, val : Vals \cup {None}]
  BY CapPositive DEF NoMove, NoReq
<1>3. RamType
  BY <1>2, NoGcIn DEF StoreInit, RamType, Resting
<1>4. Control
  BY DEF StoreInit, Control, Moving, Writes, Collecting, Loading, Resting, NoGc
<1> QED
  BY <1>1, <1>3, <1>4
  DEF StoreInit, StoreInv, AtHand, Target, Collected, Moving, Writes, Setting, NoGc

\* Every step of the store.
LEMMA StoreStepInv ==
    ASSUME StoreInv, StoreStep
    PROVE  StoreInv'
BY SetAllocInv, PreDeleteInv, DirtyMarkInv, SectorStatusInv, PreWriteInv, WriteHeadInv,
   WriteBodyInv, WriteStatusInv, DeleteInv, AfterInv, GcStartInv, GcFlagNextInv,
   GcSectorInv, GcNodeInv, MoveAllocInv, EraseSectorInv, FormatSectorInv, LoadHeadersInv,
   LoadGcInv, LoadScanInv, LoadEndInv
DEF StoreStep
=============================================================================
